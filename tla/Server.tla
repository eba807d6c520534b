------------------------------- MODULE Server -------------------------------
(***************************************************************************)
(* The servers of one owner thread: their accept loops and connections,    *)
(* the stopping and draining of their scopes, the WebSocket tunnel         *)
(* (server/server.mbt, proxy.mbt, websocket.mbt), and the credits they     *)
(* share through the thread's budget (internal/native/native.c).           *)
(*                                                                         *)
(* Every task runs alone between two suspension points; an action is one   *)
(* such turn. What a request does to the engine is the subject of Engine:  *)
(* here a request is served for as long as it likes. A cancelled task      *)
(* leaves its suspension point and runs its defers.                        *)
(***************************************************************************)
EXTENDS Naturals, FiniteSets, FiniteSetsExt

CONSTANTS
  Servers, Conns,
  MaxConnections, \* limits.connections
  BodyLimit,      \* limits.body_buffer_bytes
  DrainSteps,     \* timeout_ms / step of stop_and_drain
  GraceSteps,     \* the 5000 ms of with_timeout_opt in proxy_websocket, in steps of a clock
  None

ASSUME ServerAssumption ==
  /\ {MaxConnections, BodyLimit, DrainSteps, GraceSteps} \subseteq Nat /\ None \notin Servers
  /\ IsFiniteSet(Conns)

VARIABLES
  phase,       \* each server's scope: "off", "run", "drain" or "wait"
  stopped,     \* the servers with Server.stopped
  cancelled,   \* the servers whose task has been cancelled
  accept,      \* each accept task: "loop", "accept" or "gone"
  active,      \* Server.active_requests
  waited,      \* how long stop_and_drain has slept
  conn,        \* each connection task
  connections, \* hs_budget.connections
  body         \* hs_budget.body, as far as connections hold it

scope == <<phase, stopped, cancelled, accept, waited>>
budget == <<connections, body>>
vars == <<scope, active, conn, budget>>

\* at: its suspension point; charge: the body credits it holds. A tunnel has the directions
\* still copying, whether all that ended did so cleanly, where its parent is, and for how long the
\* parent has waited for the second direction.
NoConn == [at |-> "none", of |-> None, charge |-> 0, copying |-> {}, clean |-> TRUE,
           main |-> "first", waited |-> 0]

ConnCharge == 1  \* 32768, and 131072 with TLS
ProxyCharge == 1 \* body_block_bytes * 2 + 163840

Pools == {s \in Servers : phase[s] # "off"} \* each scope has an engine, with a pool
Admits == Pools # {} /\ connections < MaxConnections
Fits(n) == Pools # {} /\ body + n <= BodyLimit
FreeSlots == {c \in Conns : conn[c].at = "none"}
Put(c, rec) == conn' = [conn EXCEPT ![c] = rec]

-----------------------------------------------------------------------------
(* The accept loop                                                          *)

accept_waits(s) ==
  /\ accept[s] = "loop" /\ s \notin stopped /\ Admits
  /\ accept' = [accept EXCEPT ![s] = "accept"]
  /\ UNCHANGED <<phase, stopped, cancelled, waited, active, conn, budget>>

\* Mutant of accept_returns: the budget is not tested again.
accept_returns_untested(s) ==
  /\ accept[s] = "accept" /\ FreeSlots # {}
  /\ accept' = [accept EXCEPT ![s] = "loop"]
  /\ connections' = connections + 1
  /\ Put(CHOOSE c \in FreeSlots : TRUE, [NoConn EXCEPT !.at = "start", !.of = s])
  /\ UNCHANGED <<phase, stopped, cancelled, waited, active, body>>

\* A socket has been accepted; since the test other listeners may have filled the budget.
accept_returns(s) ==
  /\ accept[s] = "accept"
  /\ accept' = [accept EXCEPT ![s] = "loop"]
  /\ IF Admits
     THEN /\ connections' = connections + 1
          /\ FreeSlots # {}
          /\ Put(CHOOSE c \in FreeSlots : TRUE, [NoConn EXCEPT !.at = "start", !.of = s])
     ELSE UNCHANGED <<connections, conn>>
  /\ UNCHANGED <<phase, stopped, cancelled, waited, active, body>>

\* The loop ends when the server is stopped, which also cancels it, or when accepting fails.
accept_ends(s) ==
  /\ accept[s] = "accept" \/ (s \in stopped /\ accept[s] = "loop")
  /\ accept' = [accept EXCEPT ![s] = "gone"]
  /\ UNCHANGED <<phase, stopped, cancelled, waited, active, conn, budget>>

-----------------------------------------------------------------------------
(* A connection                                                             *)

InRequest == {"serve", "proxy", "dial", "tunnel"}

\* The connection's task ends: its defers leave the request, release credits and the
\* connection. A release that finds too little is ignored by the C side.
End(c) ==
  LET s == conn[c].of
  IN /\ Put(c, NoConn)
     /\ active' = IF conn[c].at \in InRequest THEN [active EXCEPT ![s] = @ - 1] ELSE active
     /\ body' = IF body >= conn[c].charge THEN body - conn[c].charge ELSE body
     /\ connections' = IF connections > 0 THEN connections - 1 ELSE 0
     /\ UNCHANGED scope

\* handle_connection charges the connection, then handshakes.
conn_starts(c) ==
  /\ conn[c].at = "start"
  /\ IF Fits(ConnCharge)
     THEN /\ Put(c, [conn[c] EXCEPT !.at = "handshake", !.charge = ConnCharge])
          /\ body' = body + ConnCharge /\ UNCHANGED <<scope, active, connections>>
     ELSE End(c)

\* Mutant of Loop: a request that was never counted is left.
Loop_leaves(c) ==
  IF conn[c].of \in stopped THEN End(c)
  ELSE /\ Put(c, [conn[c] EXCEPT !.at = "head"])
       /\ active' = [active EXCEPT ![conn[c].of] = @ - 1]
       /\ UNCHANGED <<scope, budget>>

\* handle_client: `while !server.stopped`, the connection waits for a request.
Loop(c) ==
  IF conn[c].of \in stopped THEN End(c)
  ELSE /\ Put(c, [conn[c] EXCEPT !.at = "head"])
       /\ active' = IF conn[c].at \in InRequest THEN [active EXCEPT ![conn[c].of] = @ - 1] ELSE active
       /\ UNCHANGED <<scope, budget>>

handshake_ends(c) == conn[c].at = "handshake" /\ (Loop(c) \/ End(c))

\* The idle timeout, the end of the stream or a malformed head.
head_fails(c) == conn[c].at = "head" /\ End(c)

\* A head has been read: the request is counted and dispatched. Without credits for a proxy
\* it is answered with 503, and only served.
head_arrives(c) ==
  /\ conn[c].at = "head"
  /\ active' = [active EXCEPT ![conn[c].of] = @ + 1]
  /\ \/ Put(c, [conn[c] EXCEPT !.at = "serve"]) /\ UNCHANGED body
     \/ /\ Fits(ProxyCharge) /\ body' = body + ProxyCharge
        /\ \E at \in {"proxy", "dial"} : Put(c, [conn[c] EXCEPT !.at = at, !.charge = @ + ProxyCharge])
  /\ UNCHANGED <<scope, connections>>

\* A response is sent and the request's body drained; then the connection is kept or not.
serve_ends(c) == conn[c].at = "serve" /\ (Loop(c) \/ End(c))

\* What the engine leaves to others goes to the fallback proxy, if there are credits for it.
serve_falls_back(c) ==
  /\ conn[c].at = "serve"
  /\ Fits(ProxyCharge) /\ body' = body + ProxyCharge
  /\ Put(c, [conn[c] EXCEPT !.at = "proxy", !.charge = @ + ProxyCharge])
  /\ UNCHANGED <<scope, active, connections>>

\* proxy_http_request never keeps the connection.
proxy_ends(c) == conn[c].at = "proxy" /\ End(c)

\* The upstream connection and handshake of proxy_websocket.
dial_ends(c) ==
  /\ conn[c].at = "dial"
  /\ \/ /\ Put(c, [conn[c] EXCEPT !.at = "tunnel", !.copying = {"up", "down"}])
        /\ UNCHANGED <<scope, active, budget>>
     \/ End(c)

\* One direction ends: cleanly, at the end of its stream and with its writer shut down, or not.
copy_ends(c) ==
  /\ conn[c].at = "tunnel"
  /\ \E d \in conn[c].copying, clean \in BOOLEAN :
       Put(c, [conn[c] EXCEPT !.copying = @ \ {d}, !.clean = @ /\ clean])
  /\ UNCHANGED <<scope, active, budget>>

\* Mutant of tunnel_first: the parent waits for both.
tunnel_first_both(c) ==
  /\ conn[c].at = "tunnel" /\ conn[c].main = "first" /\ conn[c].copying = {}
  /\ Put(c, [conn[c] EXCEPT !.main = IF conn[c].clean THEN "grace" ELSE "cancel"])
  /\ UNCHANGED <<scope, active, budget>>

\* The parent waits for the first direction; only a clean end gives the other one a grace period.
tunnel_first(c) ==
  /\ conn[c].at = "tunnel" /\ conn[c].main = "first" /\ conn[c].copying # {"up", "down"}
  /\ Put(c, [conn[c] EXCEPT !.main = IF conn[c].clean THEN "grace" ELSE "cancel"])
  /\ UNCHANGED <<scope, active, budget>>

\* Mutant of GraceOver: a time-out of 0 ms.
GraceOver_at_once(c) == conn[c].main = "grace"

\* `while completed.val < 2 && clean.val`, under with_timeout_opt.
GraceOver(c) == conn[c].copying = {} \/ ~conn[c].clean \/ conn[c].waited >= GraceSteps

grace_waits(c) ==
  /\ conn[c].at = "tunnel" /\ conn[c].main = "grace" /\ ~GraceOver(c)
  /\ Put(c, [conn[c] EXCEPT !.waited = @ + 1])
  /\ UNCHANGED <<scope, active, budget>>

\* The second direction has ended, either one failed, or the time is up: both are cancelled.
grace_ends(c) ==
  /\ conn[c].at = "tunnel" /\ conn[c].main = "grace" /\ GraceOver(c)
  /\ Put(c, [conn[c] EXCEPT !.main = "cancel"])
  /\ UNCHANGED <<scope, active, budget>>

\* A cancelled direction ends, not cleanly; with both gone proxy_websocket returns.
copy_cancelled(c) ==
  /\ conn[c].at = "tunnel" /\ conn[c].main = "cancel"
  /\ \E d \in conn[c].copying : Put(c, [conn[c] EXCEPT !.copying = @ \ {d}, !.clean = FALSE])
  /\ UNCHANGED <<scope, active, budget>>
tunnel_ends(c) == conn[c].at = "tunnel" /\ conn[c].main = "cancel" /\ conn[c].copying = {} /\ End(c)

\* Mutant of conn_cancelled: a tunnel does not pass the cancellation on.
conn_cancelled_not_tunnel(c) ==
  conn[c].at \notin {"none", "start", "tunnel"} /\ conn[c].of \in cancelled /\ End(c)

\* The server's task has been cancelled: a connection that has started leaves where it is. A
\* tunnel first cancels its two directions.
conn_cancelled(c) ==
  /\ conn[c].at \notin {"none", "start"} /\ conn[c].of \in cancelled
  /\ IF conn[c].at = "tunnel"
     THEN /\ conn[c].main # "cancel" /\ Put(c, [conn[c] EXCEPT !.main = "cancel"])
          /\ UNCHANGED <<scope, active, budget>>
     ELSE End(c)

-----------------------------------------------------------------------------
(* The scope of a server                                                    *)

with_server(s) ==
  /\ phase[s] = "off"
  /\ phase' = [phase EXCEPT ![s] = "run"] /\ accept' = [accept EXCEPT ![s] = "loop"]
  /\ UNCHANGED <<stopped, cancelled, waited, active, conn, budget>>

\* Server::stop, called by the action.
stop(s) ==
  /\ phase[s] = "run" /\ stopped' = stopped \cup {s}
  /\ UNCHANGED <<phase, cancelled, accept, waited, active, conn, budget>>

\* The action returns or raises, or is cancelled, which is caught like an error: stop_and_drain,
\* which is protected from a further cancellation.
stop_and_drain(s) ==
  /\ phase[s] = "run"
  /\ phase' = [phase EXCEPT ![s] = "drain"] /\ stopped' = stopped \cup {s}
  /\ UNCHANGED <<cancelled, accept, waited, active, conn, budget>>

drain_sleeps(s) ==
  /\ phase[s] = "drain" /\ active[s] > 0 /\ waited[s] < DrainSteps
  /\ waited' = [waited EXCEPT ![s] = @ + 1]
  /\ UNCHANGED <<phase, stopped, cancelled, accept, active, conn, budget>>

\* Mutant of Drained: off by one.
Drained_but_one(s) == active[s] <= 1 \/ waited[s] >= DrainSteps

Drained(s) == active[s] = 0 \/ waited[s] >= DrainSteps

drain_ends(s) ==
  /\ phase[s] = "drain" /\ Drained(s)
  /\ phase' = [phase EXCEPT ![s] = "wait"] /\ cancelled' = cancelled \cup {s}
  /\ waited' = [waited EXCEPT ![s] = 0]
  /\ UNCHANGED <<stopped, accept, active, conn, budget>>

\* Mutant of ServerGone: the connections are not waited for.
ServerGone_early(s) == accept[s] = "gone"

\* The server's task has ended: the engine closes and its pool leaves the budget, which
\* goes with the last pool.
ServerGone(s) == accept[s] = "gone" /\ \A c \in Conns : conn[c].of # s
scope_ends(s) ==
  /\ phase[s] = "wait" /\ ServerGone(s)
  /\ phase' = [phase EXCEPT ![s] = "off"]
  /\ stopped' = stopped \ {s} /\ cancelled' = cancelled \ {s}
  /\ connections' = IF Pools = {s} THEN 0 ELSE connections
  /\ body' = IF Pools = {s} THEN 0 ELSE body
  /\ UNCHANGED <<accept, waited, active, conn>>

-----------------------------------------------------------------------------
Init ==
  /\ phase = [s \in Servers |-> "off"] /\ stopped = {} /\ cancelled = {}
  /\ accept = [s \in Servers |-> "gone"] /\ active = [s \in Servers |-> 0]
  /\ waited = [s \in Servers |-> 0]
  /\ conn = [c \in Conns |-> NoConn]
  /\ connections = 0 /\ body = 0

\* What goes on whatever clients and upstreams do.
ConnRuns(c) ==
  \/ conn_starts(c) \/ conn_cancelled(c)
  \/ tunnel_first(c) \/ grace_waits(c) \/ grace_ends(c) \/ copy_cancelled(c) \/ tunnel_ends(c)
ScopeRuns(s) == drain_sleeps(s) \/ drain_ends(s) \/ scope_ends(s)
AcceptStops(s) == s \in stopped /\ accept_ends(s)
\* What clients, upstreams and the network do.
Peers(c) ==
  \/ handshake_ends(c) \/ head_fails(c) \/ head_arrives(c) \/ serve_ends(c) \/ serve_falls_back(c)
  \/ proxy_ends(c) \/ dial_ends(c) \/ copy_ends(c)

Next ==
  \/ \E c \in Conns : ConnRuns(c) \/ Peers(c)
  \/ \E s \in Servers :
       \/ with_server(s) \/ stop(s) \/ stop_and_drain(s)
       \/ accept_waits(s) \/ accept_returns(s) \/ accept_ends(s) \/ ScopeRuns(s)

Spec == Init /\ [][Next]_vars
FairSpec ==
  /\ Spec
  /\ \A c \in Conns : WF_vars(ConnRuns(c))
  /\ \A s \in Servers : WF_vars(ScopeRuns(s)) /\ WF_vars(AcceptStops(s))

-----------------------------------------------------------------------------
(* Properties                                                               *)

Of(s) == {c \in Conns : conn[c].of = s}

TypeOK ==
  /\ phase \in [Servers -> {"off", "run", "drain", "wait"}]
  /\ stopped \subseteq Servers /\ cancelled \subseteq Servers
  /\ accept \in [Servers -> {"loop", "accept", "gone"}]
  /\ active \in [Servers -> Nat] /\ waited \in [Servers -> 0..DrainSteps]
  /\ conn \in [Conns -> [at : {"none", "start", "handshake", "head"} \cup InRequest,
        of : Servers \cup {None}, charge : Nat, copying : SUBSET {"up", "down"},
        clean : BOOLEAN, main : {"first", "grace", "cancel"},
        waited : 0..GraceSteps]]
  /\ connections \in Nat /\ body \in Nat

\* The budget counts exactly the connections that live, of all servers of the thread, and
\* exactly the credits they hold, however they end; the limit holds although every
\* listener accepts between its test and its acquisition.
ConnectionsExact ==
  /\ connections = Cardinality({c \in Conns : conn[c].at # "none"})
  /\ body = MapThenSumSet(LAMBDA c : conn[c].charge, Conns)
  /\ connections <= MaxConnections /\ body <= BodyLimit

\* active_requests is the number of requests under way, so that draining waits for all of
\* them; a scope that has ended has left no task, no request and no listener behind.
ScopesExact ==
  \A s \in Servers :
    /\ active[s] = Cardinality({c \in Of(s) : conn[c].at \in InRequest})
    /\ phase[s] = "off" => Of(s) = {} /\ accept[s] = "gone"

\* While a server drains, a request under way is not cancelled before the grace period is over.
Graceful ==
  [][\A s \in Servers :
       /\ phase[s] = "drain" /\ s \in cancelled'
       /\ \E c \in Of(s) : conn[c].at \in InRequest
       => waited[s] >= DrainSteps]_vars

\* A direction that still copies, in a tunnel none of whose ends has failed, is taken down only
\* when the other direction has ended before and the whole grace period has passed since, or
\* when the server has been cancelled: whichever ends first, at any moment of the drain, of a
\* cancellation and of the clock, the half-open tunnel is not cut early.
HalfClose ==
  \A c \in Conns :
    /\ conn[c].at = "tunnel" /\ conn[c].main = "cancel"
    /\ conn[c].copying # {} /\ conn[c].clean
    => \/ conn[c].of \in cancelled
       \/ conn[c].copying # {"up", "down"} /\ conn[c].waited = GraceSteps

\* A scope that is left ends, though requests, tunnels and handshakes may hang for ever.
ScopesEnd == \A s \in Servers : phase[s] \in {"drain", "wait"} ~> phase[s] = "off"

\* A tunnel ends after one of its directions has ended.
TunnelsEnd ==
  \A c \in Conns : conn[c].at = "tunnel" /\ conn[c].copying # {"up", "down"} ~> conn[c].at # "tunnel"
=============================================================================
