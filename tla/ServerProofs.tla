---------------------------- MODULE ServerProofs ----------------------------
(***************************************************************************)
(* Servers, connections and credits, for any number of servers and         *)
(* connections and any limits; then the ranges of what is served.          *)
(***************************************************************************)
EXTENDS Server, SumLemmas, ByteRange

Charges == [c \in Conns |-> conn[c].charge]
LiveConns == {c \in Conns : conn[c].at # "none"}
Requests(s) == {c \in Conns : conn[c].of = s /\ conn[c].at \in InRequest}

ConnType ==
  [at : {"none", "start", "handshake", "head"} \cup InRequest,
   of : Servers \cup {None}, charge : Nat, copying : SUBSET {"up", "down"},
   clean : BOOLEAN, main : {"first", "grace", "cancel"}, waited : 0..GraceSteps]

\* A connection in use belongs to a server whose scope has not ended; one that is not in use
\* holds nothing.
ConnsOwned ==
  /\ conn \in [Conns -> ConnType]
  /\ \A c \in Conns : conn[c].at = "none" => conn[c].of = None
  /\ \A c \in Conns : conn[c].at \in {"none", "start"} => conn[c].charge = 0
  /\ \A c \in Conns : conn[c].at # "none" => conn[c].of \in Servers /\ phase[conn[c].of] # "off"

\* How far a scope has come says what has been stopped and cancelled.
ScopePhases ==
  /\ phase \in [Servers -> {"off", "run", "drain", "wait"}]
  /\ stopped \subseteq Servers /\ cancelled \subseteq Servers
  /\ accept \in [Servers -> {"loop", "accept", "gone"}]
  /\ waited \in [Servers -> 0..DrainSteps]
  /\ \A s \in Servers : phase[s] = "off" => accept[s] = "gone"
  /\ \A s \in cancelled : phase[s] = "wait"

\* The counters.
CreditsHeld ==
  /\ connections = Cardinality(LiveConns) /\ connections <= MaxConnections
  /\ body = SumOf(Charges, Conns) /\ body <= BodyLimit

RequestsCounted ==
  /\ active \in [Servers -> Nat]
  /\ \A s \in Servers : active[s] = Cardinality(Requests(s))

ServerInv == ConnsOwned /\ ScopePhases /\ CreditsHeld /\ RequestsCounted

-----------------------------------------------------------------------------
(* Sums and counts                                                          *)

\* The constants, one by one.
LEMMA Constants ==
  /\ MaxConnections \in Nat /\ BodyLimit \in Nat /\ DrainSteps \in Nat /\ GraceSteps \in Nat
  /\ None \notin Servers /\ IsFiniteSet(Conns)
BY ServerAssumption

\* The sum in ConnectionsExact is the sum of the charges.
LEMMA BodySum == MapThenSumSet(LAMBDA c : conn[c].charge, Conns) = SumOf(Charges, Conns)
<1> DEFINE Eq(g) == g = [s \in SUBSET Conns |->
                           IF s = {} THEN 0 ELSE conn[Pick(s)].charge + g[s \ {Pick(s)}]]
<1> DEFINE F == CHOOSE g : Eq(g)
<1>1. MapThenSumSet(LAMBDA c : conn[c].charge, Conns) = F[Conns]
  BY DEF MapThenSumSet, MapThenFoldSet, Pick
<1>2. \A g : Eq(g) <=> SumEq(g, Charges, Conns)
  <2> SUFFICES ASSUME NEW g
               PROVE  [s \in SUBSET Conns |->
                         IF s = {} THEN 0 ELSE conn[Pick(s)].charge + g[s \ {Pick(s)}]]
                    = [s \in SUBSET Conns |->
                         IF s = {} THEN 0 ELSE Charges[Pick(s)] + g[s \ {Pick(s)}]]
    BY DEF SumEq
  <2>1. \A s \in SUBSET Conns : s # {} => Charges[Pick(s)] = conn[Pick(s)].charge
    BY PickInside DEF Charges
  <2> QED BY <2>1
<1> HIDE DEF Eq
<1>3. Eq(F)
  BY <1>2, SumEqExists, Constants
<1>4. SumEq(F, Charges, Conns)
  BY <1>2, <1>3
<1> HIDE DEF F
<1> QED BY <1>1, <1>4, SumIs, Constants

\* One connection changes: what the budget and the requests count changes by it alone.
LEMMA OneConn ==
  ASSUME ServerInv, NEW c \in Conns, NEW rec \in ConnType, Put(c, rec)
  PROVE  /\ conn' \in [Conns -> ConnType]
         /\ \A d \in Conns : conn'[d] = IF d = c THEN rec ELSE conn[d]
         /\ Cardinality(LiveConns) \in Nat
         /\ conn[c].at # "none" => Cardinality(LiveConns) > 0
         /\ Cardinality(LiveConns') = (Cardinality(LiveConns) - IF conn[c].at # "none" THEN 1 ELSE 0)
                                      + IF rec.at # "none" THEN 1 ELSE 0
         /\ SumOf(Charges, Conns) \in Nat /\ conn[c].charge <= SumOf(Charges, Conns)
         /\ SumOf(Charges', Conns) = (SumOf(Charges, Conns) - conn[c].charge) + rec.charge
<1> USE Constants DEF ServerInv, ConnsOwned
<1>1. conn' \in [Conns -> ConnType] /\ \A d \in Conns : conn'[d] = IF d = c THEN rec ELSE conn[d]
  BY DEF Put
<1>2. LiveConns \ {c} = LiveConns' \ {c} /\ IsFiniteSet(LiveConns)
  BY <1>1, FS_Subset DEF LiveConns
<1>3. c \in LiveConns <=> conn[c].at # "none"
  BY DEF LiveConns
<1>4. c \in LiveConns' <=> rec.at # "none"
  BY <1>1 DEF LiveConns
<1>5. /\ Cardinality(LiveConns) \in Nat /\ Cardinality(LiveConns') \in Nat
      /\ c \in LiveConns => Cardinality(LiveConns) > 0
      /\ Cardinality(LiveConns') = (Cardinality(LiveConns) - IF c \in LiveConns THEN 1 ELSE 0)
                                   + IF c \in LiveConns' THEN 1 ELSE 0
  BY <1>2, CountChange
<1>6. /\ \A d \in Conns : Charges[d] = conn[d].charge /\ Charges[d] \in Nat
      /\ \A d \in Conns : Charges'[d] = conn'[d].charge /\ Charges'[d] \in Nat
  BY <1>1 DEF Charges, ConnType
<1>7. /\ Charges[c] = conn[c].charge /\ Charges'[c] = rec.charge
      /\ \A d \in Conns \ {c} : Charges[d] = Charges'[d]
  BY <1>1, <1>6
<1>8. /\ SumOf(Charges, Conns) \in Nat /\ Charges[c] <= SumOf(Charges, Conns)
      /\ SumOf(Charges', Conns) = (SumOf(Charges, Conns) - Charges[c]) + Charges'[c]
  <2>1. ASSUME NEW f, NEW g, f = Charges, g = Charges'
        PROVE  /\ SumOf(f, Conns) \in Nat /\ f[c] <= SumOf(f, Conns)
               /\ SumOf(g, Conns) = (SumOf(f, Conns) - f[c]) + g[c]
    BY <1>6, <1>7, <2>1, SumChange
  <2> QED BY <2>1
<1> QED BY <1>1, <1>3, <1>4, <1>5, <1>7, <1>8

\* The requests of the connection's server change by it alone, the others' not at all.
LEMMA OneRequest ==
  ASSUME ServerInv, NEW c \in Conns, NEW rec \in ConnType, Put(c, rec), NEW s \in Servers
  PROVE  /\ Cardinality(Requests(s)) \in Nat
         /\ c \in Requests(s) => Cardinality(Requests(s)) > 0
         /\ Cardinality(Requests(s)') =
              (Cardinality(Requests(s)) - IF conn[c].of = s /\ conn[c].at \in InRequest THEN 1 ELSE 0)
              + IF rec.of = s /\ rec.at \in InRequest THEN 1 ELSE 0
<1> USE Constants DEF ServerInv, ConnsOwned
<1>1. \A d \in Conns : conn'[d] = IF d = c THEN rec ELSE conn[d]
  BY DEF Put
<1>2. Requests(s) \ {c} = Requests(s)' \ {c} /\ IsFiniteSet(Requests(s))
  BY <1>1, FS_Subset DEF Requests
<1>3. c \in Requests(s) <=> conn[c].of = s /\ conn[c].at \in InRequest
  BY DEF Requests
<1>4. c \in Requests(s)' <=> rec.of = s /\ rec.at \in InRequest
  BY <1>1 DEF Requests
<1>5. /\ Cardinality(Requests(s)) \in Nat
      /\ c \in Requests(s) => Cardinality(Requests(s)) > 0
      /\ Cardinality(Requests(s)') = (Cardinality(Requests(s)) - IF c \in Requests(s) THEN 1 ELSE 0)
                                     + IF c \in Requests(s)' THEN 1 ELSE 0
  BY <1>2, CountChange
<1> QED BY <1>3, <1>4, <1>5

\* A step of a connection that stays: it enters or leaves a request, and what it acquires fits.
LEMMA Moves ==
  ASSUME ServerInv, NEW c \in Conns, NEW rec \in ConnType, Put(c, rec), UNCHANGED <<scope, connections>>,
         conn[c].at # "none", rec.at \notin {"none", "start"}, rec.of = conn[c].of,
         body' = (body - conn[c].charge) + rec.charge, body' <= BodyLimit,
         \/ (conn[c].at \in InRequest <=> rec.at \in InRequest) /\ UNCHANGED active
         \/ conn[c].at \notin InRequest /\ rec.at \in InRequest
            /\ active' = [active EXCEPT ![conn[c].of] = @ + 1]
         \/ conn[c].at \in InRequest /\ rec.at \notin InRequest
            /\ active' = [active EXCEPT ![conn[c].of] = @ - 1]
  PROVE  ServerInv'
<1> USE Constants DEF ServerInv
<1>1. ConnsOwned'
  BY OneConn DEF ConnsOwned, scope
<1>2. ScopePhases'
  BY DEF ScopePhases, scope
<1>3. CreditsHeld'
  BY OneConn DEF CreditsHeld
<1>4. \A s \in Servers : active'[s] = Cardinality(Requests(s)') /\ active'[s] \in Nat
  <2> SUFFICES ASSUME NEW s \in Servers
               PROVE  active'[s] = Cardinality(Requests(s)') /\ active'[s] \in Nat
    OBVIOUS
  <2>1. /\ Cardinality(Requests(s)) \in Nat
        /\ c \in Requests(s) => Cardinality(Requests(s)) > 0
        /\ Cardinality(Requests(s)') =
              (Cardinality(Requests(s)) - IF conn[c].of = s /\ conn[c].at \in InRequest THEN 1 ELSE 0)
              + IF rec.of = s /\ rec.at \in InRequest THEN 1 ELSE 0
    BY OneRequest
  <2>2. active[s] = Cardinality(Requests(s)) /\ active \in [Servers -> Nat]
    BY DEF RequestsCounted
  <2>3. c \in Requests(s) <=> conn[c].of = s /\ conn[c].at \in InRequest
    BY DEF Requests
  <2> QED BY <2>1, <2>2, <2>3
<1>5. RequestsCounted'
  BY <1>4 DEF RequestsCounted
<1> QED BY <1>1, <1>2, <1>3, <1>5

\* A connection's task ends, wherever it is: its defers undo what it was counted for.
LEMMA Ends ==
  ASSUME ServerInv, NEW c \in Conns, conn[c].at # "none", End(c)
  PROVE  ServerInv'
<1> USE Constants DEF ServerInv
<1>0. NoConn \in ConnType /\ NoConn.at = "none" /\ NoConn.of = None /\ NoConn.charge = 0
  BY DEF NoConn, ConnType
<1>1. Put(c, NoConn) /\ UNCHANGED scope
  BY DEF End
<1>2. ConnsOwned'
  BY <1>0, <1>1, OneConn DEF ConnsOwned, scope
<1>3. ScopePhases'
  BY <1>1 DEF ScopePhases, scope
<1>4. conn[c].charge \in Nat /\ conn[c].of \in Servers
  BY DEF ConnsOwned, ConnType
<1>5. CreditsHeld'
  BY <1>0, <1>1, <1>4, OneConn DEF CreditsHeld, End
<1>6. \A s \in Servers : active'[s] = Cardinality(Requests(s)') /\ active'[s] \in Nat
  <2> SUFFICES ASSUME NEW s \in Servers
               PROVE  active'[s] = Cardinality(Requests(s)') /\ active'[s] \in Nat
    OBVIOUS
  <2>1. /\ Cardinality(Requests(s)) \in Nat
        /\ c \in Requests(s) => Cardinality(Requests(s)) > 0
        /\ Cardinality(Requests(s)') =
              Cardinality(Requests(s)) - IF conn[c].of = s /\ conn[c].at \in InRequest THEN 1 ELSE 0
    BY <1>0, <1>1, OneRequest
  <2>2. active[s] = Cardinality(Requests(s)) /\ active \in [Servers -> Nat]
    BY DEF RequestsCounted
  <2>3. c \in Requests(s) <=> conn[c].of = s /\ conn[c].at \in InRequest
    BY DEF Requests
  <2> QED BY <1>4, <2>1, <2>2, <2>3 DEF End
<1>7. RequestsCounted'
  BY <1>4, <1>6 DEF RequestsCounted, End
<1> QED BY <1>2, <1>3, <1>5, <1>7

\* A connection whose step moves no credits and no request.
LEMMA Stays ==
  ASSUME ServerInv, NEW c \in Conns, NEW rec \in ConnType, Put(c, rec), UNCHANGED <<scope, active, budget>>,
         conn[c].at # "none", rec.at \notin {"none", "start"}, rec.of = conn[c].of,
         rec.charge = conn[c].charge, conn[c].at \in InRequest <=> rec.at \in InRequest
  PROVE  ServerInv'
<1>1. conn[c].charge \in Nat
  BY DEF ServerInv, ConnsOwned, ConnType
<1>2. /\ body' = (body - conn[c].charge) + rec.charge /\ body' <= BodyLimit
      /\ UNCHANGED <<scope, connections>>
  BY <1>1, OneConn DEF ServerInv, CreditsHeld, budget
<1> QED BY <1>2, Moves

-----------------------------------------------------------------------------
(* The steps                                                                *)

\* Back to the loop of handle_client, or out of it.
LEMMA LoopKeeps ==
  ASSUME ServerInv, NEW c \in Conns, conn[c].at # "none", Loop(c)
  PROVE  ServerInv'
<1>1. CASE conn[c].of \in stopped
  BY <1>1, Ends DEF Loop
<1>2. CASE conn[c].of \notin stopped
  <2> DEFINE rec == [conn[c] EXCEPT !.at = "head"]
  <2>1. /\ rec \in ConnType /\ rec.at = "head" /\ rec.at \notin InRequest
        /\ rec.of = conn[c].of /\ rec.charge = conn[c].charge /\ conn[c].charge \in Nat
    BY DEF ServerInv, ConnsOwned, ConnType, InRequest
  <2> HIDE DEF rec
  <2>2. Put(c, rec) /\ UNCHANGED <<scope, budget>>
    BY <1>2 DEF Loop, rec
  <2>3. /\ body' = (body - conn[c].charge) + rec.charge /\ body' <= BodyLimit
    BY <2>1, <2>2, OneConn DEF ServerInv, CreditsHeld, budget
  <2>4. CASE conn[c].at \in InRequest
    BY <1>2, <2>1, <2>2, <2>3, <2>4, Moves DEF Loop, budget
  <2>5. CASE conn[c].at \notin InRequest
    BY <1>2, <2>1, <2>2, <2>3, <2>5, Moves DEF Loop, budget
  <2> QED BY <2>4, <2>5
<1> QED BY <1>1, <1>2

\* What a connection acquires has been tested to fit.
LEMMA Acquires ==
  ASSUME ServerInv, NEW c \in Conns, NEW n \in Nat, Fits(n), body' = body + n,
         NEW rec \in ConnType, rec.charge = conn[c].charge + n
  PROVE  body' = (body - conn[c].charge) + rec.charge /\ body' <= BodyLimit
<1>1. conn[c].charge \in Nat /\ body \in Nat
  <2>1. \A d \in Conns : Charges[d] \in Nat
    BY DEF ServerInv, ConnsOwned, ConnType, Charges
  <2>2. SumOf(Charges, Conns) \in Nat
    BY <2>1, SumNat, Constants
  <2> QED BY <2>2 DEF ServerInv, ConnsOwned, CreditsHeld, ConnType
<1> QED BY <1>1, Constants DEF Fits

\* A connection goes elsewhere with other credits.
LEMMA Charged ==
  ASSUME NEW r \in ConnType, NEW a \in {"handshake", "proxy", "dial"}, NEW n \in Nat
  PROVE  LET rec == [r EXCEPT !.at = a, !.charge = n]
         IN  rec \in ConnType /\ rec.at = a /\ rec.of = r.of /\ rec.charge = n
BY DEF ConnType, InRequest

\* What a connection does by itself, or because of a client or an upstream.
LEMMA ConnStep ==
  ASSUME ServerInv, NEW c \in Conns, ConnRuns(c) \/ Peers(c)
  PROVE  ServerInv'
<1>0. conn[c] \in ConnType /\ conn[c].charge \in Nat
  BY DEF ServerInv, ConnsOwned, ConnType
<1>1. CASE conn_starts(c)
  <2>1. CASE Fits(ConnCharge)
    <3> DEFINE rec == [conn[c] EXCEPT !.at = "handshake", !.charge = ConnCharge]
    <3>1. /\ rec \in ConnType /\ rec.at = "handshake" /\ rec.of = conn[c].of
          /\ rec.charge = conn[c].charge + 1 /\ conn[c].at = "start"
          /\ conn[c].at \notin InRequest /\ rec.at \notin InRequest
      <4>1. conn[c].at = "start" /\ conn[c].charge = 0
        BY <1>1 DEF conn_starts, ServerInv, ConnsOwned
      <4>3. rec \in ConnType
        BY <1>0, <4>1, Charged DEF ConnCharge
      <4>4. rec.at = "handshake" /\ rec.of = conn[c].of /\ rec.charge = 1
        BY <1>0, <4>1 DEF ConnCharge, ConnType
      <4> HIDE DEF rec
      <4> QED BY <1>0, <4>1, <4>3, <4>4 DEF InRequest
    <3>2. Put(c, rec) /\ body' = body + 1 /\ UNCHANGED <<scope, active, connections>>
      BY <1>1, <2>1 DEF conn_starts, ConnCharge
    <3> HIDE DEF rec
    <3>3. body' = (body - conn[c].charge) + rec.charge /\ body' <= BodyLimit
      BY <2>1, <3>1, <3>2, Acquires DEF ConnCharge
    <3> QED BY <3>1, <3>2, <3>3, Moves
  <2>2. CASE ~Fits(ConnCharge)
    BY <1>1, <2>2, Ends DEF conn_starts
  <2> QED BY <2>1, <2>2
<1>2. CASE handshake_ends(c) \/ serve_ends(c)
  BY <1>2, LoopKeeps, Ends DEF handshake_ends, serve_ends
<1>3. CASE head_fails(c) \/ proxy_ends(c) \/ tunnel_ends(c)
  BY <1>3, Ends DEF head_fails, proxy_ends, tunnel_ends
<1>4. CASE head_arrives(c)
  <2>1. CASE Put(c, [conn[c] EXCEPT !.at = "serve"]) /\ UNCHANGED body
    <3> DEFINE rec == [conn[c] EXCEPT !.at = "serve"]
    <3>1. /\ rec \in ConnType /\ rec.at = "serve" /\ rec.of = conn[c].of
          /\ rec.charge = conn[c].charge /\ conn[c].at = "head"
          /\ conn[c].at \notin InRequest /\ rec.at \in InRequest
      BY <1>0, <1>4 DEF ConnType, head_arrives, InRequest
    <3>2. /\ Put(c, rec) /\ UNCHANGED <<scope, connections>>
          /\ active' = [active EXCEPT ![conn[c].of] = @ + 1]
      BY <1>4, <2>1 DEF head_arrives
    <3> HIDE DEF rec
    <3>3. body' = (body - conn[c].charge) + rec.charge /\ body' <= BodyLimit
      BY <1>0, <2>1, <3>1, <3>2, OneConn DEF ServerInv, CreditsHeld
    <3> QED BY <3>1, <3>2, <3>3, Moves
  <2>2. ASSUME Fits(ProxyCharge), body' = body + ProxyCharge, NEW at \in {"proxy", "dial"},
               Put(c, [conn[c] EXCEPT !.at = at, !.charge = @ + ProxyCharge])
        PROVE  ServerInv'
    <3> DEFINE rec == [conn[c] EXCEPT !.at = at, !.charge = @ + ProxyCharge]
    <3>1. /\ rec \in ConnType /\ rec.at \notin {"none", "start"} /\ rec.of = conn[c].of
          /\ rec.charge = conn[c].charge + 1 /\ conn[c].at = "head"
          /\ conn[c].at \notin InRequest /\ rec.at \in InRequest
      <4>1. conn[c].charge + 1 \in Nat /\ conn[c].at = "head"
        BY <1>0, <1>4 DEF head_arrives
      <4>3. rec \in ConnType
        BY <1>0, <4>1, Charged DEF ProxyCharge
      <4>4. rec.at = at /\ rec.of = conn[c].of /\ rec.charge = conn[c].charge + 1
        BY <1>0, <4>1 DEF ProxyCharge, ConnType
      <4> HIDE DEF rec
      <4> QED BY <1>0, <4>1, <4>3, <4>4 DEF InRequest
    <3>2. /\ Put(c, rec) /\ UNCHANGED <<scope, connections>>
          /\ active' = [active EXCEPT ![conn[c].of] = @ + 1]
      BY <1>4, <2>2 DEF head_arrives
    <3> HIDE DEF rec
    <3>3. body' = (body - conn[c].charge) + rec.charge /\ body' <= BodyLimit
      BY <2>2, <3>1, <3>2, Acquires DEF ProxyCharge
    <3> QED BY <3>1, <3>2, <3>3, Moves
  <2> QED BY <1>4, <2>1, <2>2 DEF head_arrives
<1>5. CASE serve_falls_back(c)
  <2> DEFINE rec == [conn[c] EXCEPT !.at = "proxy", !.charge = @ + ProxyCharge]
  <2>1. /\ rec \in ConnType /\ rec.at = "proxy" /\ rec.of = conn[c].of
        /\ rec.charge = conn[c].charge + 1 /\ conn[c].at = "serve"
        /\ conn[c].at \in InRequest /\ rec.at \in InRequest
    <3>1. conn[c].charge + 1 \in Nat /\ conn[c].at = "serve"
      BY <1>0, <1>5 DEF serve_falls_back
    <3>3. rec \in ConnType
      BY <1>0, <3>1, Charged DEF ProxyCharge
    <3>4. rec.at = "proxy" /\ rec.of = conn[c].of /\ rec.charge = conn[c].charge + 1
      BY <1>0, <3>1 DEF ProxyCharge, ConnType
    <3> HIDE DEF rec
    <3> QED BY <1>0, <3>1, <3>3, <3>4 DEF InRequest
  <2>2. /\ Put(c, rec) /\ UNCHANGED <<scope, active, connections>>
        /\ Fits(1) /\ body' = body + 1
    BY <1>5 DEF serve_falls_back, ProxyCharge
  <2> HIDE DEF rec
  <2>3. body' = (body - conn[c].charge) + rec.charge /\ body' <= BodyLimit
    BY <2>1, <2>2, Acquires
  <2> QED BY <2>1, <2>2, <2>3, Moves
<1>6. CASE dial_ends(c)
  <2>1. CASE End(c)
    BY <1>6, <2>1, Ends DEF dial_ends
  <2>2. CASE Put(c, [conn[c] EXCEPT !.at = "tunnel", !.copying = {"up", "down"}])
             /\ UNCHANGED <<scope, active, budget>>
    <3> DEFINE rec == [conn[c] EXCEPT !.at = "tunnel", !.copying = {"up", "down"}]
    <3>1. /\ rec \in ConnType /\ rec.at = "tunnel" /\ rec.of = conn[c].of
          /\ rec.charge = conn[c].charge /\ conn[c].at = "dial"
          /\ conn[c].at \in InRequest /\ rec.at \in InRequest
      BY <1>0, <1>6 DEF ConnType, dial_ends, InRequest
    <3> HIDE DEF rec
    <3>2. Put(c, rec)
      BY <2>2 DEF rec
    <3> QED BY <2>2, <3>1, <3>2, Stays
  <2> QED BY <1>6, <2>1, <2>2 DEF dial_ends
<1>7. ASSUME NEW rec \in ConnType, Put(c, rec), UNCHANGED <<scope, active, budget>>,
             conn[c].at = "tunnel", rec.at = "tunnel", rec.of = conn[c].of,
             rec.charge = conn[c].charge
      PROVE  ServerInv'
  BY <1>7, Stays
<1>8. ASSUME NEW d, NEW clean \in BOOLEAN
      PROVE  LET rec == [conn[c] EXCEPT !.copying = @ \ {d}, !.clean = @ /\ clean]
             IN  /\ rec \in ConnType /\ rec.at = conn[c].at /\ rec.of = conn[c].of
                 /\ rec.charge = conn[c].charge
  BY <1>0 DEF ConnType
<1>9. ASSUME NEW d
      PROVE  LET rec == [conn[c] EXCEPT !.copying = @ \ {d}, !.clean = FALSE]
             IN  /\ rec \in ConnType /\ rec.at = conn[c].at /\ rec.of = conn[c].of
                 /\ rec.charge = conn[c].charge
  BY <1>0 DEF ConnType
<1>10. ASSUME NEW m \in {"grace", "cancel"}
      PROVE  LET rec == [conn[c] EXCEPT !.main = m]
             IN  /\ rec \in ConnType /\ rec.at = conn[c].at /\ rec.of = conn[c].of
                 /\ rec.charge = conn[c].charge
  BY <1>0 DEF ConnType
<1>11. CASE copy_ends(c)
  BY <1>7, <1>8, <1>11 DEF copy_ends
<1>12. CASE copy_cancelled(c)
  BY <1>7, <1>9, <1>12 DEF copy_cancelled
<1>13. CASE tunnel_first(c) \/ grace_ends(c)
  BY <1>7, <1>10, <1>13 DEF tunnel_first, grace_ends
<1>15. CASE grace_waits(c)
  <2> DEFINE rec == [conn[c] EXCEPT !.waited = @ + 1]
  <2>1. conn[c].waited + 1 \in 0..GraceSteps
    BY <1>0, <1>15, Constants DEF grace_waits, GraceOver, ConnType
  <2>2. /\ rec \in ConnType /\ rec.at = conn[c].at /\ rec.of = conn[c].of
        /\ rec.charge = conn[c].charge
    BY <1>0, <2>1 DEF ConnType
  <2> QED BY <1>7, <1>15, <2>2 DEF grace_waits
<1>14. CASE conn_cancelled(c)
  <2>1. CASE conn[c].at = "tunnel"
    BY <1>7, <1>10, <1>14, <2>1 DEF conn_cancelled
  <2> QED BY <1>14, <2>1, Ends DEF conn_cancelled
<1> QED BY <1>1, <1>2, <1>3, <1>4, <1>5, <1>6, <1>11, <1>12, <1>13, <1>14, <1>15 DEF ConnRuns, Peers

\* What leaves the connections alone leaves their counts alone.
LEMMA ConnsAlone ==
  ASSUME ServerInv, UNCHANGED <<conn, active, budget>>
  PROVE  CreditsHeld' /\ RequestsCounted'
BY DEF ServerInv, CreditsHeld, RequestsCounted, LiveConns, Requests, Charges, budget

\* Starting, stopping and draining touch no connection.
LEMMA ScopeStep ==
  ASSUME ServerInv, NEW s \in Servers,
         \/ with_server(s) \/ stop(s) \/ stop_and_drain(s) \/ accept_waits(s) \/ accept_ends(s)
         \/ drain_sleeps(s) \/ drain_ends(s)
  PROVE  ServerInv'
<1> USE DEF with_server, stop, stop_and_drain, accept_waits, accept_ends, drain_sleeps, drain_ends
<1>1. UNCHANGED <<conn, active, budget>>
  OBVIOUS
<1>2. CreditsHeld' /\ RequestsCounted'
  BY <1>1, ConnsAlone
<1>3. ConnsOwned'
  BY <1>1 DEF ServerInv, ConnsOwned, ScopePhases
<1>4. ScopePhases'
  BY Constants DEF ServerInv, ScopePhases
<1> QED BY <1>2, <1>3, <1>4 DEF ServerInv

\* The scope ends without connections of its own: when it is the last one there are none at
\* all, and resetting the budget forgets nothing.
LEMMA ScopeEnds ==
  ASSUME ServerInv, NEW s \in Servers, scope_ends(s)
  PROVE  ServerInv'
<1> USE DEF scope_ends, ServerGone
<1>1. ConnsOwned'
  BY DEF ServerInv, ConnsOwned, ScopePhases
<1>2. ScopePhases'
  BY Constants DEF ServerInv, ScopePhases
<1>3. RequestsCounted'
  BY DEF ServerInv, RequestsCounted, Requests
<1>4. CASE Pools = {s}
  <2>1. \A c \in Conns : conn[c].at = "none" /\ conn[c].charge = 0
    BY <1>4 DEF Pools, ServerInv, ConnsOwned
  <2>2. LiveConns' = {} /\ \A c \in Conns : Charges'[c] = 0
    BY <2>1 DEF LiveConns, Charges
  <2>3. SumOf(Charges', Conns) = 0
    <3>1. ASSUME NEW f, f = Charges' PROVE SumOf(f, Conns) = 0
      BY <2>2, <3>1, SumZero, Constants
    <3> QED BY <3>1
  <2>4. connections' = 0 /\ body' = 0
    BY <1>4
  <2> QED BY <1>1, <1>2, <1>3, <2>2, <2>3, <2>4, FS_EmptySet, Constants DEF ServerInv, CreditsHeld
<1>5. CASE Pools # {s}
  <2>1. UNCHANGED <<conn, active, budget>>
    BY <1>5 DEF budget
  <2> QED BY <1>1, <1>2, <2>1, ConnsAlone DEF ServerInv
<1> QED BY <1>4, <1>5

\* The budget is tested again after the socket has been accepted.
LEMMA Accepts ==
  ASSUME ServerInv, NEW s \in Servers, accept_returns(s)
  PROVE  ServerInv'
<1>1. ScopePhases' /\ phase[s] # "off"
  BY DEF accept_returns, ServerInv, ScopePhases
<1>2. CASE ~Admits
  <2>1. UNCHANGED <<conn, active, budget>>
    BY <1>2 DEF accept_returns, budget
  <2>2. ConnsOwned'
    BY <2>1 DEF ServerInv, ConnsOwned, accept_returns
  <2> QED BY <1>1, <2>1, <2>2, ConnsAlone DEF ServerInv
<1>3. CASE Admits
  <2> DEFINE c == CHOOSE d \in FreeSlots : TRUE
             rec == [NoConn EXCEPT !.at = "start", !.of = s]
  <2>1. c \in Conns /\ conn[c].at = "none"
    <3>1. FreeSlots # {}
      BY <1>3 DEF accept_returns
    <3> QED BY <3>1 DEF FreeSlots
  <2>2. /\ rec \in ConnType /\ rec.at = "start" /\ rec.of = s /\ rec.charge = 0
        /\ rec.at \notin InRequest /\ conn[c].at \notin InRequest
    <3>1. 0 \in 0..GraceSteps /\ 0 \in Nat
      BY Constants
    <3>2. NoConn \in ConnType
      BY <3>1 DEF NoConn, ConnType
    <3>3. rec \in ConnType
      BY <3>2 DEF ConnType
    <3>4. rec.at = "start" /\ rec.of = s /\ rec.charge = 0
      BY DEF NoConn
    <3> QED BY <2>1, <3>3, <3>4 DEF InRequest
  <2>3. /\ Put(c, rec) /\ connections' = connections + 1 /\ connections < MaxConnections
        /\ UNCHANGED <<phase, active, body>>
    BY <1>3 DEF accept_returns, Admits
  <2> HIDE DEF c, rec
  <2>4. conn[c].charge = 0 /\ conn[c].of = None
    BY <2>1 DEF ServerInv, ConnsOwned
  <2>5. ConnsOwned'
    BY <1>1, <2>2, <2>1, <2>3, OneConn DEF ServerInv, ConnsOwned
  <2>6. CreditsHeld'
    BY <2>1, <2>2, <2>3, <2>4, OneConn, Constants DEF ServerInv, CreditsHeld
  <2>7. \A r \in Servers : Cardinality(Requests(r)') = Cardinality(Requests(r))
    BY <2>1, <2>2, <2>3, OneRequest
  <2>8. RequestsCounted'
    BY <2>3, <2>7 DEF ServerInv, RequestsCounted
  <2> QED BY <1>1, <2>5, <2>6, <2>8 DEF ServerInv
<1> QED BY <1>2, <1>3

\* Every step keeps the invariant.
LEMMA ServerStep ==
  ASSUME ServerInv, [Next]_vars
  PROVE  ServerInv'
<1>1. CASE UNCHANGED vars
  BY <1>1, ConnsAlone DEF vars, scope, budget, ServerInv, ConnsOwned, ScopePhases
<1> QED BY <1>1, ConnStep, ScopeStep, ScopeEnds, Accepts DEF Next, ScopeRuns

\* No connection and no credit at first.
LEMMA ServerStart == Init => ServerInv
<1> SUFFICES ASSUME Init PROVE ServerInv
  OBVIOUS
<1>1. ConnsOwned /\ ScopePhases
  BY Constants DEF Init, ConnsOwned, ScopePhases, NoConn, ConnType
<1>2. LiveConns = {} /\ \A c \in Conns : Charges[c] = 0
  BY DEF Init, LiveConns, Charges, NoConn
<1>3. SumOf(Charges, Conns) = 0
  BY <1>2, SumZero, Constants
<1>4. \A s \in Servers : Requests(s) = {}
  BY DEF Init, Requests, NoConn, InRequest
<1> QED BY <1>1, <1>2, <1>3, <1>4, FS_EmptySet, Constants
        DEF ServerInv, CreditsHeld, RequestsCounted, Init

-----------------------------------------------------------------------------
(* The results                                                              *)

\* For any number of servers and connections: every counter is what it counts.
THEOREM ServerCounts == Spec => []ServerInv
BY ServerStart, ServerStep, PTL DEF Spec

\* The types of the servers' and the budget's fields; no count underflows.
THEOREM ServerTypes == Spec => []TypeOK
<1>1. ServerInv => TypeOK
  <2> SUFFICES ASSUME ServerInv PROVE TypeOK
    OBVIOUS
  <2>1. LiveConns \subseteq Conns /\ \A c \in Conns : Charges[c] \in Nat
    BY DEF LiveConns, Charges, ServerInv, ConnsOwned, ConnType
  <2>2. IsFiniteSet(LiveConns)
    BY <2>1, FS_Subset, Constants
  <2>3. Cardinality(LiveConns) \in Nat /\ SumOf(Charges, Conns) \in Nat
    BY <2>1, <2>2, FS_CardinalityType, SumNat, Constants
  <2> QED BY <2>3 DEF TypeOK, ServerInv, ConnsOwned, ConnType, ScopePhases, CreditsHeld, RequestsCounted
<1> QED BY <1>1, ServerCounts, PTL

\* The budget of the thread counts the live connections of all its servers and the credits they
\* hold, however they end, and its limits hold although every listener accepts between its
\* test and its acquisition.
THEOREM ServerConnections == Spec => []ConnectionsExact
<1>1. ServerInv => ConnectionsExact
  BY BodySum DEF ServerInv, CreditsHeld, ConnectionsExact, LiveConns
<1> QED BY <1>1, ServerCounts, PTL

\* active_requests is the number of requests under way, and a scope that has ended has left
\* no task behind.
THEOREM ServerScopes == Spec => []ScopesExact
<1>1. ASSUME ServerInv, NEW s \in Servers
      PROVE  /\ active[s] = Cardinality({c \in Of(s) : conn[c].at \in InRequest})
             /\ phase[s] = "off" => Of(s) = {} /\ accept[s] = "gone"
  <2>1. {c \in Of(s) : conn[c].at \in InRequest} = Requests(s)
    BY DEF Of, Requests
  <2>2. phase[s] = "off" => Of(s) = {} /\ accept[s] = "gone"
    BY <1>1, Constants DEF ServerInv, ConnsOwned, ScopePhases, Of
  <2> QED BY <1>1, <2>1, <2>2 DEF ServerInv, RequestsCounted
<1>2. ServerInv => ScopesExact
  BY <1>1 DEF ScopesExact
<1> QED BY <1>2, ServerCounts, PTL

\* While a server drains, stop_and_drain cancels a request under way only when the grace
\* period is over.
THEOREM ServerGraceful == Spec => Graceful
<1> DEFINE A == \A s \in Servers :
                  /\ phase[s] = "drain" /\ s \in cancelled'
                  /\ \E c \in Of(s) : conn[c].at \in InRequest
                  => waited[s] >= DrainSteps
<1>1. ASSUME ServerInv, [Next]_vars PROVE A
  <2> SUFFICES ASSUME NEW s \in Servers, phase[s] = "drain", s \in cancelled',
                      NEW c \in Of(s), conn[c].at \in InRequest
               PROVE  waited[s] >= DrainSteps
    OBVIOUS
  <2>1. s \notin cancelled
    BY <1>1 DEF ServerInv, ScopePhases
  <2>2. \A d \in Conns : ConnRuns(d) \/ Peers(d) => UNCHANGED cancelled
    BY DEF ConnRuns, Peers, conn_starts, conn_cancelled, tunnel_first, grace_waits, grace_ends, copy_cancelled,
           tunnel_ends, handshake_ends, head_fails, head_arrives, serve_ends, serve_falls_back,
           proxy_ends, dial_ends, copy_ends, Loop, End, scope
  <2>3. \E r \in Servers : drain_ends(r)
    BY <1>1, <2>1, <2>2 DEF Next, with_server, stop, stop_and_drain, accept_waits, accept_returns,
           accept_ends, ScopeRuns, drain_sleeps, scope_ends, vars, scope
  <2>4. drain_ends(s)
    BY <2>1, <2>3 DEF drain_ends
  <2>5. c \in Requests(s) /\ IsFiniteSet(Requests(s))
    BY FS_Subset, Constants DEF Requests, Of
  <2>6. active[s] # 0
    BY <1>1, <2>5, FS_EmptySet DEF ServerInv, RequestsCounted
  <2> QED BY <2>4, <2>6 DEF drain_ends, Drained
<1>2. ServerInv /\ [Next]_vars => [A]_vars
  BY <1>1
<1> QED BY <1>2, ServerCounts, PTL DEF Spec, Graceful

-----------------------------------------------------------------------------
(* The tunnels                                                              *)

\* How far a tunnel's parent has come says what became of its directions: the grace period begins
\* when one has ended, and a clean tunnel is taken down only after it, or with its server.
TunnelIs(k, gone) ==
  /\ k.at # "tunnel" => k.main = "first"
  /\ k.main = "grace" => k.copying # {"up", "down"}
  /\ k.main = "cancel" /\ k.copying # {} /\ k.clean
     => k.of \in gone \/ (k.copying # {"up", "down"} /\ k.waited = GraceSteps)
TunnelInv == \A c \in Conns : TunnelIs(conn[c], cancelled)

\* One tunnel changes.
LEMMA TunnelPut ==
  ASSUME ServerInv, TunnelInv, NEW c \in Conns, NEW rec, Put(c, rec), UNCHANGED cancelled,
         TunnelIs(rec, cancelled)
  PROVE  TunnelInv'
<1>1. \A d \in Conns : conn'[d] = IF d = c THEN rec ELSE conn[d]
  BY DEF Put, ServerInv, ConnsOwned
<1> QED BY <1>1 DEF TunnelInv, TunnelIs

\* What is no tunnel, or no longer one, has a parent that has not begun to wait.
LEMMA TunnelPlain ==
  ASSUME ServerInv, TunnelInv, NEW c \in Conns, UNCHANGED cancelled, conn[c].at # "tunnel" \/ End(c),
         \/ End(c) \/ Loop(c)
         \/ \E at \in {"handshake", "serve", "proxy", "dial"}, n \in Nat :
              Put(c, [conn[c] EXCEPT !.at = at, !.charge = n])
         \/ \E at \in {"handshake", "serve", "proxy", "dial"} : Put(c, [conn[c] EXCEPT !.at = at])
         \/ Put(c, [conn[c] EXCEPT !.at = "tunnel", !.copying = {"up", "down"}])
  PROVE  TunnelInv'
<1>1. conn[c] \in ConnType /\ TunnelIs(conn[c], cancelled)
  BY DEF ServerInv, ConnsOwned, TunnelInv
<1>2. CASE End(c)
  <2>1. TunnelIs(NoConn, cancelled)
    BY DEF TunnelIs, NoConn
  <2> QED BY <1>2, <2>1, TunnelPut DEF End
<1>3. CASE ~End(c)
  <2>1. conn[c].main = "first"
    BY <1>1, <1>3 DEF TunnelIs
  <2>2. ASSUME NEW rec, rec.main = "first", Put(c, rec) PROVE TunnelInv'
    BY <2>2, TunnelPut DEF TunnelIs
  <2>3. [conn[c] EXCEPT !.at = "head"].main = "first"
    BY <1>1, <2>1 DEF ConnType
  <2>4. \A at, n : [conn[c] EXCEPT !.at = at, !.charge = n].main = "first"
    BY <1>1, <2>1 DEF ConnType
  <2>5. \A at : [conn[c] EXCEPT !.at = at].main = "first"
    BY <1>1, <2>1 DEF ConnType
  <2>6. [conn[c] EXCEPT !.at = "tunnel", !.copying = {"up", "down"}].main = "first"
    BY <1>1, <2>1 DEF ConnType
  <2> QED BY <1>3, <2>2, <2>3, <2>4, <2>5, <2>6 DEF Loop
<1> QED BY <1>2, <1>3

\* The steps of one connection.
LEMMA TunnelStep ==
  ASSUME ServerInv, TunnelInv, NEW c \in Conns, ConnRuns(c) \/ Peers(c)
  PROVE  TunnelInv'
<1>0. conn[c] \in ConnType /\ TunnelIs(conn[c], cancelled)
  BY DEF ServerInv, ConnsOwned, TunnelInv
<1>1. UNCHANGED cancelled
  BY DEF ConnRuns, Peers, conn_starts, conn_cancelled, tunnel_first, grace_waits, grace_ends,
         copy_cancelled, tunnel_ends, handshake_ends, head_fails, head_arrives, serve_ends,
         serve_falls_back, proxy_ends, dial_ends, copy_ends, Loop, End, scope
<1>2. CASE conn_starts(c)
  <2>1. CASE End(c)
    BY <1>1, <2>1, TunnelPlain
  <2>2. CASE Put(c, [conn[c] EXCEPT !.at = "handshake", !.charge = ConnCharge])
    <3>1. ConnCharge \in Nat /\ conn[c].at # "tunnel"
      BY <1>2 DEF ConnCharge, conn_starts
    <3> QED BY <1>1, <2>2, <3>1, TunnelPlain
  <2> QED BY <1>2, <2>1, <2>2 DEF conn_starts
<1>3. CASE handshake_ends(c) \/ serve_ends(c) \/ head_fails(c) \/ proxy_ends(c) \/ tunnel_ends(c)
  BY <1>1, <1>3, TunnelPlain DEF handshake_ends, serve_ends, head_fails, proxy_ends, tunnel_ends
<1>4. CASE head_arrives(c) \/ serve_falls_back(c)
  <2>1. conn[c].at # "tunnel" /\ conn[c].charge + ProxyCharge \in Nat
    BY <1>0, <1>4 DEF head_arrives, serve_falls_back, ConnType, ProxyCharge
  <2>2. \/ Put(c, [conn[c] EXCEPT !.at = "serve"])
        \/ \E at \in {"proxy", "dial"} :
             Put(c, [conn[c] EXCEPT !.at = at, !.charge = conn[c].charge + ProxyCharge])
    BY <1>4 DEF head_arrives, serve_falls_back
  <2> QED BY <1>1, <2>1, <2>2, TunnelPlain
<1>5. CASE dial_ends(c)
  <2>1. conn[c].at # "tunnel"
    BY <1>5 DEF dial_ends
  <2> QED BY <1>1, <1>5, <2>1, TunnelPlain DEF dial_ends
<1>6. CASE copy_ends(c)
  <2>1. PICK d \in conn[c].copying, clean \in BOOLEAN :
          Put(c, [conn[c] EXCEPT !.copying = @ \ {d}, !.clean = @ /\ clean])
    BY <1>6 DEF copy_ends
  <2> DEFINE rec == [conn[c] EXCEPT !.copying = @ \ {d}, !.clean = @ /\ clean]
  <2>2. /\ rec.at = conn[c].at /\ rec.main = conn[c].main /\ rec.of = conn[c].of
        /\ rec.waited = conn[c].waited /\ rec.copying = conn[c].copying \ {d}
        /\ (rec.clean => conn[c].clean)
    BY <1>0 DEF ConnType
  <2>3. conn[c].copying \subseteq {"up", "down"} /\ d \in {"up", "down"}
    BY <1>0 DEF ConnType
  <2>4. Put(c, rec)
    BY <2>1
  <2> HIDE DEF rec
  <2>5. rec.copying # {"up", "down"} /\ (rec.copying # {} => conn[c].copying # {})
    BY <2>2, <2>3
  <2>6. TunnelIs(rec, cancelled)
    BY <1>0, <2>2, <2>5 DEF TunnelIs
  <2> QED BY <1>1, <2>4, <2>6, TunnelPut
<1>7. CASE copy_cancelled(c)
  <2>1. PICK d \in conn[c].copying : Put(c, [conn[c] EXCEPT !.copying = @ \ {d}, !.clean = FALSE])
    BY <1>7 DEF copy_cancelled
  <2> DEFINE rec == [conn[c] EXCEPT !.copying = @ \ {d}, !.clean = FALSE]
  <2>2. rec.at = "tunnel" /\ rec.main = "cancel" /\ ~rec.clean
    BY <1>0, <1>7 DEF ConnType, copy_cancelled
  <2>3. Put(c, rec)
    BY <2>1
  <2> HIDE DEF rec
  <2> QED BY <1>1, <2>2, <2>3, TunnelPut DEF TunnelIs
<1>8. ASSUME NEW m \in {"grace", "cancel"}, conn[c].at = "tunnel", Put(c, [conn[c] EXCEPT !.main = m]),
             m = "grace" => conn[c].copying # {"up", "down"},
             m = "cancel" /\ conn[c].copying # {} /\ conn[c].clean
             => conn[c].of \in cancelled
                \/ (conn[c].copying # {"up", "down"} /\ conn[c].waited = GraceSteps)
      PROVE  TunnelInv'
  <2> DEFINE rec == [conn[c] EXCEPT !.main = m]
  <2>1. /\ rec.at = conn[c].at /\ rec.main = m /\ rec.of = conn[c].of /\ rec.copying = conn[c].copying
        /\ rec.clean = conn[c].clean /\ rec.waited = conn[c].waited
    BY <1>0 DEF ConnType
  <2>2. Put(c, rec)
    BY <1>8
  <2> HIDE DEF rec
  <2>3. TunnelIs(rec, cancelled)
    BY <1>8, <2>1 DEF TunnelIs
  <2> QED BY <1>1, <2>2, <2>3, TunnelPut
<1>9. CASE tunnel_first(c)
  BY <1>8, <1>9 DEF tunnel_first
<1>10. CASE grace_ends(c)
  <2>1. conn[c].copying # {} /\ conn[c].clean => conn[c].waited = GraceSteps
    BY <1>0, <1>10, Constants DEF grace_ends, GraceOver, ConnType
  <2>2. conn[c].at = "tunnel" /\ conn[c].copying # {"up", "down"}
    BY <1>0, <1>10 DEF grace_ends, TunnelIs
  <2> QED BY <1>8, <1>10, <2>1, <2>2 DEF grace_ends
<1>11. CASE grace_waits(c)
  <2> DEFINE rec == [conn[c] EXCEPT !.waited = @ + 1]
  <2>1. rec.at = "tunnel" /\ rec.main = "grace" /\ rec.copying # {"up", "down"}
    BY <1>0, <1>11 DEF grace_waits, ConnType, TunnelIs
  <2>2. Put(c, rec)
    BY <1>11 DEF grace_waits
  <2> HIDE DEF rec
  <2> QED BY <1>1, <2>1, <2>2, TunnelPut DEF TunnelIs
<1>12. CASE conn_cancelled(c)
  <2>1. CASE conn[c].at = "tunnel"
    BY <1>8, <1>12, <2>1 DEF conn_cancelled
  <2> QED BY <1>1, <1>12, <2>1, TunnelPlain DEF conn_cancelled
<1> QED BY <1>2, <1>3, <1>4, <1>5, <1>6, <1>7, <1>9, <1>10, <1>11, <1>12 DEF ConnRuns, Peers

\* The steps of a scope: a server is cancelled for good as long as it has connections.
LEMMA TunnelScope ==
  ASSUME ServerInv, TunnelInv, NEW s \in Servers,
         \/ with_server(s) \/ stop(s) \/ stop_and_drain(s) \/ accept_waits(s) \/ accept_returns(s)
         \/ accept_ends(s) \/ ScopeRuns(s)
  PROVE  TunnelInv'
<1>1. CASE accept_returns(s)
  <2>1. UNCHANGED cancelled
    BY <1>1 DEF accept_returns
  <2>2. CASE UNCHANGED conn
    BY <2>1, <2>2 DEF TunnelInv
  <2>3. CASE conn' # conn
    <3> DEFINE c == CHOOSE e \in FreeSlots : TRUE
               rec == [NoConn EXCEPT !.at = "start", !.of = s]
    <3>1. FreeSlots # {} /\ Put(c, rec)
      BY <1>1, <2>3 DEF accept_returns
    <3>2. c \in Conns
      BY <3>1 DEF FreeSlots
    <3>3. rec.main = "first"
      BY DEF NoConn
    <3> HIDE DEF c, rec
    <3> QED BY <2>1, <3>1, <3>2, <3>3, TunnelPut DEF TunnelIs
  <2> QED BY <2>2, <2>3
<1>2. CASE scope_ends(s)
  <2>1. UNCHANGED conn /\ cancelled' = cancelled \ {s} /\ \A c \in Conns : conn[c].of # s
    BY <1>2 DEF scope_ends, ServerGone
  <2> QED BY <2>1 DEF TunnelInv, TunnelIs
<1>3. CASE ~accept_returns(s) /\ ~scope_ends(s)
  <2>1. UNCHANGED conn /\ cancelled \subseteq cancelled'
    BY <1>3 DEF with_server, stop, stop_and_drain, accept_waits, accept_ends, ScopeRuns,
                drain_sleeps, drain_ends
  <2> QED BY <2>1 DEF TunnelInv, TunnelIs
<1> QED BY <1>1, <1>2, <1>3

\* Where the parent of every tunnel is, and what its directions have done by then.
THEOREM ServerTunnels == Spec => []TunnelInv
<1>1. Init => TunnelInv
  BY DEF Init, TunnelInv, TunnelIs, NoConn
<1>2. ServerInv /\ TunnelInv /\ [Next]_vars => TunnelInv'
  <2> SUFFICES ASSUME ServerInv, TunnelInv, [Next]_vars PROVE TunnelInv'
    OBVIOUS
  <2>1. CASE UNCHANGED vars
    BY <2>1 DEF vars, scope, TunnelInv
  <2> QED BY <2>1, TunnelStep, TunnelScope DEF Next
<1> QED BY <1>1, <1>2, ServerCounts, PTL DEF Spec

\* The second direction of a clean half-open tunnel is taken down only when the other has ended and
\* the whole grace period of proxy_websocket has passed since, or with its server.
THEOREM ServerHalfClose == Spec => []HalfClose
<1>1. TunnelInv => HalfClose
  BY DEF TunnelInv, TunnelIs, HalfClose
<1> QED BY <1>1, ServerTunnels, PTL

-----------------------------------------------------------------------------
(* Whatever a position is parsed to, a satisfiable range lies in the representation. *)

\* What parse_i64_strict may return, wrapped around or not.
Parsed == [some : BOOLEAN, n : Int]

\* A suffix range, of any length, is a range of the file the plan reads: not empty, and
\* neither before its start nor behind its end.
LEMMA SuffixInside ==
  ASSUME NEW last \in Parsed, NEW size \in Int, size > 0,
         Suffix(last, size).kind = "Satisfiable"
  PROVE  LET r == Suffix(last, size) IN 0 <= r.start /\ r.start <= r.end /\ r.end < size
<1>1. last.some /\ last.n > 0 /\ last.n \in Int
  BY DEF Suffix, Parsed, NotSatisfiable
<1> QED
  BY <1>1 DEF Suffix, Satisfiable

\* The same for "start-" and "start-end".
LEMMA PositionsInside ==
  ASSUME NEW first \in Parsed, NEW last \in Parsed, NEW open \in BOOLEAN,
         NEW size \in Int, size > 0,
         Positions(first, open, last, size).kind = "Satisfiable"
  PROVE  LET r == Positions(first, open, last, size)
         IN 0 <= r.start /\ r.start <= r.end /\ r.end < size
<1>1. first.some /\ first.n >= 0 /\ first.n < size /\ first.n \in Int
  BY DEF Positions, Parsed, NotSatisfiable
<1>2. CASE open
  BY <1>1, <1>2 DEF Positions, Satisfiable
<1>3. CASE ~open
  <2>1. last.some /\ last.n >= first.n /\ last.n \in Int
    BY <1>1, <1>3 DEF Positions, Parsed, NotSatisfiable
  <2> QED
    BY <1>1, <1>3, <2>1 DEF Positions, Satisfiable
<1> QED
  BY <1>2, <1>3

\* parse_range_spec never selects bytes outside the representation, although its numbers wrap
\* around: it may select other bytes than were asked for (OverflowResistant fails), never ones the
\* file does not have, and Content-Length and the region of the plan are positive.
THEOREM RangeInside ==
  ASSUME NEW s, NEW size \in Int,
         parse_i64_strict(s.first) \in Parsed, parse_i64_strict(s.last) \in Parsed,
         parse_range_spec(s, size).kind = "Satisfiable"
  PROVE  LET r == parse_range_spec(s, size)
         IN 0 <= r.start /\ r.start <= r.end /\ r.end < size
<1> DEFINE first == parse_i64_strict(s.first)
           last == parse_i64_strict(s.last)
<1>1. size > 0 /\ s.unit # "other" /\ s.dash
  BY DEF parse_range_spec, NotApplicable, NotSatisfiable
<1>2. CASE s.first = <<>>
  <2>1. parse_range_spec(s, size) = Suffix(last, size)
    BY <1>1, <1>2 DEF parse_range_spec
  <2> HIDE DEF last
  <2> QED
    BY <1>1, <2>1, SuffixInside DEF last
<1>3. CASE s.first # <<>>
  <2>1. parse_range_spec(s, size) = Positions(first, s.last = <<>>, last, size)
    BY <1>1, <1>3 DEF parse_range_spec
  <2> QED
    BY <1>1, <2>1, PositionsInside
<1> QED
  BY <1>2, <1>3
=============================================================================
