------------------------- MODULE BridgeMemoryProofs -------------------------
(***************************************************************************)
(* The heap of bridge.c: every counter of an instance and of a response is *)
(* the number of pointers, operations, callbacks or bytes it is named for. *)
(* Every step of the system keeps the invariant MemInv, on the lemmas of   *)
(* BridgeProofs; then the theorems that follow from it. Last, the sleep of *)
(* the owner: WakeInv, that it never sleeps beside work.                   *)
(***************************************************************************)
EXTENDS BridgeProofs

-----------------------------------------------------------------------------
(* Chunks made, and the flags of tasks and responses                        *)

\* The fields of an instance with one chunk more,
LEMMA MoreChunkIs ==
  ASSUME NEW k \in InstRecords
  PROVE  LET q == MoreChunk(k)
         IN /\ q \in InstRecords /\ q.refs = k.refs + 1 /\ q.active = k.active
            /\ q.notifications = k.notifications /\ q.responses = k.responses
            /\ q.charged = k.charged + ChunkCost /\ q.closing = k.closing /\ q.closed = k.closed
<1> DEFINE a == k.refs + 1
           c == k.charged + ChunkCost
           q == [k EXCEPT !.refs = a, !.charged = c]
<1>1. a \in Nat /\ c \in Nat
  BY InstNat, BridgeAssumption
<1>2. MoreChunk(k) = q
  BY DEF MoreChunk, InstRecords
<1> HIDE DEF a, c
<1>3. /\ q \in InstRecords /\ q.refs = a /\ q.active = k.active
      /\ q.notifications = k.notifications /\ q.responses = k.responses
      /\ q.charged = c /\ q.closing = k.closing /\ q.closed = k.closed
  BY <1>1 DEF InstRecords
<1> QED BY <1>2, <1>3 DEF a, c

\* and of its response.
LEMMA MoreSentIs ==
  ASSUME NEW k \in RespRecords, k.pos < BodyLen, k.sent <= k.pos
  PROVE  LET s == MoreSent(k)
         IN /\ s \in RespRecords /\ s.refs = k.refs + 1 /\ s.chunks = k.chunks + 1 /\ s.inst = k.inst
            /\ s.charge = k.charge /\ s.reading = k.reading /\ s.pos = k.pos + 1 /\ s.sent = k.sent + 1
            /\ s.sent <= s.pos
<1> DEFINE a == k.refs + 1
           b == k.chunks + 1
           c == k.pos + 1
           d == k.sent + 1
           s == [k EXCEPT !.refs = a, !.chunks = b, !.pos = c, !.sent = d]
<1>0. k.refs \in Nat /\ k.chunks \in Nat /\ k.pos \in 0..BodyLen /\ k.sent \in 0..BodyLen /\ BodyLen \in Nat
  BY BridgeAssumption DEF RespRecords
<1>1. a \in Nat /\ b \in Nat /\ c \in 0..BodyLen /\ d \in 0..BodyLen /\ d <= c
  BY <1>0
<1>2. MoreSent(k) = s
  BY DEF MoreSent, RespRecords
<1> HIDE DEF a, b, c, d
<1>3. /\ s \in RespRecords /\ s.refs = a /\ s.chunks = b /\ s.inst = k.inst
      /\ s.charge = k.charge /\ s.reading = k.reading /\ s.pos = c /\ s.sent = d
  BY <1>1 DEF RespRecords
<1> QED BY <1>1, <1>2, <1>3 DEF a, b, c, d

\* What hs_bridge_chunk changes.
ChunkDoes(m, m2, i, r, c, o) ==
  /\ IsHeap(m2) /\ m2.inst = [m.inst EXCEPT ![i] = MoreChunk(m.inst[i])]
  /\ m2.resp = [m.resp EXCEPT ![r] = MoreSent(m.resp[r])] /\ m2.op = [m.op EXCEPT ![o].event = c]
  /\ m2.chunk = [m.chunk EXCEPT ![c] = [inst |-> i, resp |-> r]] /\ m2.retained = m.retained + ChunkCost
\* chunk_made does that.
LEMMA ChunkIs ==
  ASSUME NEW m, IsHeap(m), m.inst \in [Insts -> InstRecords], m.resp \in [Resps -> RespRecords],
         NEW i \in Insts, NEW r \in Resps, NEW c, NEW o
  PROVE  ChunkDoes(m, ChunkBook(m, i, r, c, o), i, r, c, o)
<1> DEFINE m0 == [m EXCEPT !.resp[r].pos = @ + 1]
           m1 == charge(m0, i, ChunkCost)
           m2 == ChunkBook(m, i, r, c, o)
           f == [m.inst EXCEPT ![i].charged = @ + ChunkCost]
           g == [m.resp EXCEPT ![r].pos = @ + 1]
           l == [inst |-> i, resp |-> r]
<1>1. /\ IsHeap(m0) /\ m0.inst = m.inst /\ m0.op = m.op
      /\ m0.resp = g /\ m0.chunk = m.chunk /\ m0.retained = m.retained
  BY DEF IsHeap
<1>2. /\ IsHeap(m1) /\ m1.inst = f /\ m1.op = m.op
      /\ m1.resp = g /\ m1.chunk = m.chunk /\ m1.retained = m.retained + ChunkCost
  <2> HIDE DEF m0, g
  <2> QED BY <1>1 DEF IsHeap, charge
<1>3. /\ IsHeap(m2) /\ m2.inst = [m1.inst EXCEPT ![i].refs = @ + 1]
      /\ m2.resp = [m1.resp EXCEPT ![r] = WithChunk(@)]
      /\ m2.op = [m1.op EXCEPT ![o].event = c]
      /\ m2.chunk = [m1.chunk EXCEPT ![c] = l] /\ m2.retained = m1.retained
  <2> HIDE DEF m1, l
  <2>1. m2 = [m1 EXCEPT !.chunk[c] = l, !.inst[i].refs = @ + 1,
                !.resp[r] = WithChunk(@), !.op[o].event = c]
    BY DEF ChunkBook, chunk_made, m1, l
  <2> HIDE DEF m2
  <2> QED BY <1>2, <2>1 DEF IsHeap
<1> HIDE DEF m0, m1, m2
<1>4. [f EXCEPT ![i].refs = @ + 1] = [m.inst EXCEPT ![i] = MoreChunk(m.inst[i])]
  <2> DEFINE k == m.inst[i]
             x == [k EXCEPT !.charged = @ + ChunkCost]
             y == [x EXCEPT !.refs = @ + 1]
  <2>1. k \in InstRecords
    OBVIOUS
  <2>2. y = MoreChunk(k)
    BY <2>1 DEF MoreChunk, InstRecords
  <2>3. f = [m.inst EXCEPT ![i] = x]
    OBVIOUS
  <2> HIDE DEF x
  <2>4. f \in [Insts -> {f[j] : j \in Insts}] /\ f[i] = x
    BY <2>3
  <2> HIDE DEF f
  <2>5. [f EXCEPT ![i].refs = @ + 1] = [f EXCEPT ![i] = y]
    BY <2>4
  <2> HIDE DEF y
  <2> QED BY <2>2, <2>3, <2>5
<1>5. [g EXCEPT ![r] = WithChunk(@)]
      = [m.resp EXCEPT ![r] = MoreSent(m.resp[r])]
  <2> DEFINE k == m.resp[r]
             x == [k EXCEPT !.pos = @ + 1]
             y == WithChunk(x)
  <2>1. k \in RespRecords
    OBVIOUS
  <2>2. y = MoreSent(k)
    BY <2>1 DEF MoreSent, WithChunk, RespRecords
  <2>3. g = [m.resp EXCEPT ![r] = x]
    OBVIOUS
  <2> HIDE DEF x
  <2>4. g \in [Resps -> {g[j] : j \in Resps}] /\ g[r] = x
    BY <2>3
  <2> HIDE DEF g
  <2>5. [g EXCEPT ![r] = WithChunk(@)] = [g EXCEPT ![r] = y]
    BY <2>4
  <2> HIDE DEF y
  <2> QED BY <2>2, <2>3, <2>5
<1> QED BY <1>2, <1>3, <1>4, <1>5 DEF m2, ChunkDoes

\* Two operations never read one response at a time.
LEMMA OneReader ==
  ASSUME NEW m, NEW list, NEW kept, Mem(m, list, kept), NEW o \in Ops, NEW p \in Ops, NEW r \in Resps,
         m.op[o].kind = "read", m.op[o].resp = r, m.op[o].stage \in Pending,
         m.op[p].kind = "read", m.op[p].resp = r, m.op[p].stage \in Pending
  PROVE  o = p
<1> SUFFICES ASSUME o # p PROVE FALSE
  OBVIOUS
<1> DEFINE next == [m.op EXCEPT ![o] = NoOp]
<1>1. m.op \in [Ops -> OpRecords] /\ OpReads(m.op, r) = One(m.resp[r].reading)
  BY DEF Mem, Reads
<1>2. next \in [Ops -> OpRecords] /\ next[o] = NoOp /\ \A x \in Ops : x # o => next[x] = m.op[x]
  BY <1>1, NoOpFacts DEF NoOpIs
<1> HIDE DEF next
<1>3. OpReads(next, r) = (OpReads(m.op, r) - ReadsResp(m.op[o], r)) + ReadsResp(next[o], r)
      /\ OpReads(m.op, r) \in Nat
  BY <1>1, <1>2, OpChange
<1>4. ReadsResp(m.op[o], r) = 1 /\ ReadsResp(next[o], r) = 0 /\ ReadsResp(next[p], r) = 1
  BY <1>2, NoOpFacts DEF NoOpIs, ReadsResp, One, Pending
<1>5. OpReads(next, r) \in Nat /\ ReadsResp(next[p], r) <= OpReads(next, r)
  BY <1>2, OpChange
<1>6. OpReads(m.op, r) <= 1
  BY <1>1 DEF One
<1> QED BY <1>3, <1>4, <1>5, <1>6

\* The books with a new chunk.
LEMMA ChunkBooks ==
  ASSUME NEW m, NEW list, NEW kept, Mem(m, list, kept), NEW o \in Ops, m.op[o].kind = "read",
         m.op[o].event = None, NEW c \in Chunks, m.chunk[c] = NoChunk,
         m.resp[m.op[o].resp].pos < BodyLen, m.resp[m.op[o].resp].sent <= m.resp[m.op[o].resp].pos
  PROVE  LET i == m.op[o].inst
             r == m.op[o].resp
             m2 == ChunkBook(m, i, r, c, o)
         IN /\ Books(m2, m2.op, InHand(list, kept), InHandResp(kept)) /\ i \in Insts /\ r \in Resps
            /\ m.inst[i].refs # 0 /\ m.resp[r].refs # 0
<1> DEFINE i == m.op[o].inst
           r == m.op[o].resp
           old == m.op[o]
           k == [m.op[o] EXCEPT !.event = c]
           m2 == ChunkBook(m, i, r, c, o)
           hi == InHand(list, kept)
           hr == InHandResp(kept)
           q == MoreChunk(m.inst[i])
           s == MoreSent(m.resp[r])
           l == [inst |-> i, resp |-> r]
<1>0. IsHeap(m) /\ m.op \in [Ops -> OpRecords] /\ Books(m, m.op, hi, hr) /\ hi \in [Insts -> Nat]
      /\ hr \in [Resps -> Nat] /\ m.inst \in [Insts -> InstRecords] /\ Shape(old) /\ old \in OpRecords
      /\ m.resp \in [Resps -> RespRecords] /\ m.retained \in Nat /\ ChunkCost \in Nat
  BY HandNat, RetainedNat, BridgeAssumption DEF Mem, Books, Tidy
<1>1. /\ i \in Insts /\ m.inst[i].refs # 0 /\ m.inst[i] \in InstRecords
      /\ r \in Resps /\ m.resp[r].refs # 0 /\ m.resp[r] \in RespRecords /\ m.resp[r].inst \in Insts
      /\ c \notin Insts /\ c \notin Resps
  <2>1. old # NoOp
    BY NoOpFacts DEF NoOpIs
  <2>2. i \in Insts /\ r \in Resps
    BY <1>0, <2>1 DEF Shape
  <2>3. m.inst[i].refs # 0 /\ m.inst[i] \in InstRecords
    BY <1>0, <2>2, InstThere
  <2>4. m.resp[r].refs # 0 /\ m.resp[r].inst \in Insts
    BY <2>2, RespThere
  <2> QED BY <1>0, <2>2, <2>3, <2>4, BridgeAssumption
<1>2. /\ IsHeap(m2) /\ m2.inst = [m.inst EXCEPT ![i] = q] /\ m2.resp = [m.resp EXCEPT ![r] = s]
      /\ m2.op = [m.op EXCEPT ![o].event = c] /\ m2.chunk = [m.chunk EXCEPT ![c] = l]
      /\ m2.retained = m.retained + ChunkCost
  <2>1. ChunkDoes(m, m2, i, r, c, o)
    BY <1>0, <1>1, ChunkIs
  <2> QED BY <2>1 DEF ChunkDoes
<1>3. /\ q \in InstRecords /\ q.refs = m.inst[i].refs + 1 /\ q.active = m.inst[i].active
      /\ q.notifications = m.inst[i].notifications /\ q.responses = m.inst[i].responses
      /\ q.charged = m.inst[i].charged + ChunkCost
  BY <1>1, MoreChunkIs
<1>4. /\ s \in RespRecords /\ s.refs = m.resp[r].refs + 1 /\ s.chunks = m.resp[r].chunks + 1
      /\ s.inst = m.resp[r].inst /\ s.charge = m.resp[r].charge
  BY <1>1, MoreSentIs
<1>5. /\ k \in OpRecords /\ k.kind = old.kind /\ k.stage = old.stage /\ k.inst = i
      /\ k.resp = old.resp /\ k.charge = old.charge /\ k.event = c /\ m2.op = [m.op EXCEPT ![o] = k]
  BY <1>0, <1>2 DEF OpRecords
<1>6. m.inst[i].refs \in Nat /\ m.inst[i].charged \in Nat /\ m.resp[r].refs \in Nat /\ m.resp[r].chunks \in Nat
  BY <1>1, InstNat DEF RespRecords
<1>7. l \in ChunkRecords /\ l.inst = i /\ l.resp = r /\ hi[i] \in Nat /\ hr[r] \in Nat
  BY <1>0, <1>1 DEF ChunkRecords
<1> HIDE DEF hi, hr, k, q, l, s, m2
<1>8. ChunkAt(m, m2, c, l, hi, hi[i], hr, hr[r], i, q, r, s)
  <2>1. m.chunk[c].inst = None /\ m.chunk[c].resp = None
    BY DEF NoChunk
  <2>2. {m.chunk[c].inst, l.inst} \cap Insts \subseteq {i} /\ {m.chunk[c].resp, l.resp} \cap Resps \subseteq {r}
    BY <1>7, <2>1, NoOpFacts DEF NoOpIs
  <2>3. m2.retained \in Int /\ q.charged + m.retained = m.inst[i].charged + m2.retained
    BY <1>0, <1>2, <1>3, <1>6
  <2>4. One(m.chunk[c].inst = i) = 0 /\ One(l.inst = i) = 1 /\ One(m.chunk[c].resp = r) = 0
        /\ One(l.resp = r) = 1 /\ ChunkBy(m.chunk[c], i) = 0 /\ ChunkBy(l, i) = ChunkCost
    BY <1>1, <1>7, <2>1, NoOpFacts DEF NoOpIs, One, ChunkBy
  <2>5. q.refs + One(m.chunk[c].inst = i) + hi[i] = m.inst[i].refs + One(l.inst = i) + hi[i]
    BY <1>3, <1>6, <1>7, <2>4
  <2>6. q.charged + ChunkBy(m.chunk[c], i) = m.inst[i].charged + ChunkBy(l, i)
    BY <1>0, <1>3, <1>6, <2>4
  <2>7. s.refs + One(m.chunk[c].resp = r) + hr[r] = m.resp[r].refs + One(l.resp = r) + hr[r]
    BY <1>4, <1>6, <1>7, <2>4
  <2>8. s.chunks + One(m.chunk[c].resp = r) = m.resp[r].chunks + One(l.resp = r)
    BY <1>4, <1>6, <2>4
  <2>9. q.refs # 0 /\ s.refs # 0 /\ s.inst \in Insts
    BY <1>1, <1>3, <1>4, <1>6
  <2> QED BY <1>2, <1>3, <1>4, <1>7, <2>2, <2>3, <2>5, <2>6, <2>7, <2>8, <2>9, Zenon DEF ChunkAt
<1>9. Books(m2, m.op, hi, hr)
  <2>1. Books(m2, m.op, [hi EXCEPT ![i] = hi[i]], [hr EXCEPT ![r] = hr[r]])
    <3> HIDE DEF i, r
    <3> QED BY <1>0, <1>1, <1>8, BooksChunk
  <2>2. [hi EXCEPT ![i] = hi[i]] = hi /\ [hr EXCEPT ![r] = hr[r]] = hr
    BY <1>0, <1>1
  <2> QED BY <2>1, <2>2
<1>10. Eventful(m2, m2, m.op, o, k, hi, hi[i], hr, hr, i, m2.inst[i])
  <2>0. m2.inst \in [Insts -> InstRecords] /\ m2.inst[i] = q
    BY <1>0, <1>1, <1>2, <1>3
  <2>1. m2.inst = [m2.inst EXCEPT ![i] = m2.inst[i]]
    BY <1>1, <2>0
  <2>2. One(old.event = i) = 0 /\ One(k.event = i) = 0
    BY <1>1, <1>5, NoOpFacts DEF NoOpIs, One
  <2>3. \A t \in Resps : One(k.event = t) + hr[t] = One(old.event = t) + hr[t]
    BY <1>1, <1>5, NoOpFacts DEF NoOpIs, One
  <2>4. {old.event, k.event} \cap Insts \subseteq {i}
    BY <1>1, <1>5, NoOpFacts DEF NoOpIs
  <2>5. SameOp(k, old) /\ k.stage = old.stage /\ hi[i] \in Nat
    BY <1>0, <1>1, <1>5 DEF SameOp
  <2>6. m2.inst[i].refs + One(old.event = i) + hi[i] = m2.inst[i].refs + One(k.event = i) + hi[i]
    BY <2>2
  <2>7. k \in OpRecords /\ hr \in [Resps -> Nat] /\ m2.inst[i] \in InstRecords /\ m2.inst[i].refs # 0
    BY <1>0, <1>3, <1>5, <1>6, <2>0
  <2> QED BY <2>1, <2>3, <2>4, <2>5, <2>6, <2>7 DEF Eventful
<1>11. Books(m2, m2.op, hi, hr)
  <2>1. Books(m2, [m.op EXCEPT ![o] = k], [hi EXCEPT ![i] = hi[i]], hr)
    BY <1>0, <1>1, <1>9, <1>10, BooksEvent
  <2>2. [hi EXCEPT ![i] = hi[i]] = hi
    BY <1>0, <1>1
  <2> QED BY <1>5, <2>1, <2>2
<1> QED BY <1>1, <1>11 DEF m2, hi, hr

\* hs_bridge_chunk in a heap that is in order.
LEMMA MemChunk ==
  ASSUME NEW m, NEW list, NEW kept, Mem(m, list, kept), None \notin kept, NEW o \in Ops,
         m.op[o].kind = "read", m.op[o].stage = "running", Rest(m, Ops),
         NEW c \in Chunks, m.chunk[c] = NoChunk, m.resp[m.op[o].resp].pos < BodyLen,
         m.retained + ChunkCost <= Total
  PROVE  LET m2 == ChunkBook(m, m.op[o].inst, m.op[o].resp, c, o)
         IN /\ Mem(m2, list, kept) /\ m2.op = [m.op EXCEPT ![o].event = c] /\ Rest(m2, Ops \ {o})
<1> DEFINE i == m.op[o].inst
           r == m.op[o].resp
           old == m.op[o]
           k == [m.op[o] EXCEPT !.event = c]
           m2 == ChunkBook(m, i, r, c, o)
           q == MoreChunk(m.inst[i])
           s == MoreSent(m.resp[r])
           l == [inst |-> i, resp |-> r]
<1>0. IsHeap(m) /\ m.op \in [Ops -> OpRecords] /\ m.inst \in [Insts -> InstRecords] /\ Shape(old) /\ old \in OpRecords
      /\ m.resp \in [Resps -> RespRecords] /\ m.chunk \in [Chunks -> ChunkRecords]
  BY DEF Mem, Books, Tidy
<1>0a. old.event = None /\ m.resp[r].chunks = 0 /\ r \in Resps
  <2>1. old # NoOp
    BY NoOpFacts DEF NoOpIs
  <2> QED BY <1>0, <2>1 DEF Shape, Rest, Idles, TaskStages
<1>0b. m.resp[r].sent <= m.resp[r].pos
  BY <1>0a DEF Rest, Bound
<1>1. /\ Books(m2, m2.op, InHand(list, kept), InHandResp(kept)) /\ i \in Insts /\ r \in Resps
      /\ m.inst[i].refs # 0 /\ m.resp[r].refs # 0
  BY <1>0a, <1>0b, ChunkBooks
<1>2. /\ IsHeap(m2) /\ m2.inst = [m.inst EXCEPT ![i] = q] /\ m2.resp = [m.resp EXCEPT ![r] = s]
      /\ m2.op = [m.op EXCEPT ![o].event = c] /\ m2.chunk = [m.chunk EXCEPT ![c] = l]
      /\ m2.retained = m.retained + ChunkCost
  <2>1. ChunkDoes(m, m2, i, r, c, o)
    BY <1>0, <1>1, ChunkIs
  <2> QED BY <2>1 DEF ChunkDoes
<1>3. q \in InstRecords /\ q.closing = m.inst[i].closing /\ q.closed = m.inst[i].closed
  BY <1>0, <1>1, MoreChunkIs
<1>4. s.chunks = 1 /\ s.reading = m.resp[r].reading /\ s.sent <= s.pos
  <2>1. s.chunks = m.resp[r].chunks + 1 /\ s.reading = m.resp[r].reading /\ s.sent <= s.pos
    BY <1>0, <1>0b, <1>1, MoreSentIs
  <2> QED BY <1>0a, <2>1
<1>5. /\ k \in OpRecords /\ k.refs = old.refs /\ k.kind = "read" /\ k.stage = "running" /\ k.inst = i
      /\ k.resp = old.resp /\ k.event = c /\ m2.op = [m.op EXCEPT ![o] = k]
  BY <1>0, <1>2 DEF OpRecords
<1>5a. l # NoChunk /\ ChunkShape(l)
  BY <1>1, NoOpFacts DEF NoOpIs, NoChunk, ChunkShape
<1> HIDE DEF m2, k, q, l, s
<1>6. m2.op \in [Ops -> OpRecords] /\ m2.op[o] = k /\ \A p \in Ops : p # o => m2.op[p] = m.op[p]
  BY <1>0, <1>5
<1>7. \A j \in Insts : /\ m2.inst[j].closing = m.inst[j].closing /\ m2.inst[j].closed = m.inst[j].closed
                       /\ m2.inst[j].refs # 0 => m.inst[j].refs # 0
  <2>1. m2.inst[i] = q /\ \A j \in Insts : j # i => m2.inst[j] = m.inst[j]
    BY <1>0, <1>1, <1>2
  <2> QED BY <1>1, <1>3, <2>1
<1>8. m2.resp[r] = s /\ \A t \in Resps : t # r => m2.resp[t] = m.resp[t]
  BY <1>0, <1>1, <1>2
<1>9. c \notin kept /\ (\A p \in Ops : m.op[p].event # c) /\ c # None /\ c \notin Insts /\ c \notin Resps
  <2>1. c \notin kept /\ \A p \in Ops : m.op[p].event # c
    BY DEF Mem, ChunksHeld
  <2> QED BY <2>1, BridgeAssumption DEF Handles
<1>10. TidyAt(m.op, o, k, kept)
  <2>1. Shape(k) /\ ~Granting(k)
    BY <1>0, <1>1, <1>5, <1>9, NoOpFacts DEF NoOpIs, Shape, Granting, Creates
  <2>2. \A p \in Ops : m.op[p].event \notin kept /\ (Granting(m.op[p]) => m.op[p].inst \notin kept)
    BY DEF Mem, Tidy, Events, Grants
  <2>3. k.kind \notin Creates \cup {"close"}
    BY <1>5 DEF Creates
  <2> QED BY <1>5, <1>9, <2>1, <2>2, <2>3 DEF TidyAt
<1>11. Tidy(m2.op, kept)
  BY <1>0, <1>6, <1>10, TidyStep DEF Mem
<1>12. \A p \in Ops : /\ m2.op[p].kind = m.op[p].kind /\ m2.op[p].inst = m.op[p].inst
                      /\ m2.op[p].resp = m.op[p].resp /\ m2.op[p].stage = m.op[p].stage
                      /\ \A d \in Chunks : d # c => (m2.op[p].event = d <=> m.op[p].event = d)
  BY <1>0a, <1>5, <1>6, NoOpFacts DEF NoOpIs
<1>13. Closes(m2)
  <2> SUFFICES ASSUME NEW p \in Ops, m2.op[p].kind = "close" PROVE m2.inst[m2.op[p].inst].closing
    BY DEF Closes
  <2>1. m2.op[p] # NoOp /\ m.inst[m.op[p].inst].closing
    BY <1>12, NoOpFacts DEF NoOpIs, Mem, Closes
  <2>2. m2.op[p].inst \in Insts
    BY <1>11, <2>1 DEF Tidy, Shape
  <2> QED BY <1>7, <1>12, <2>1, <2>2
<1>14. Lives(m2, list)
  BY <1>7, <1>12 DEF Mem, Lives
<1>15. ChunksHeld(m2, kept)
  <2> SUFFICES ASSUME NEW d \in Chunks
               PROVE  m2.chunk[d] # NoChunk <=> (d \in kept \/ \E p \in Ops : m2.op[p].event = d)
    BY DEF ChunksHeld
  <2>1. CASE d = c
    <3>1. m2.chunk[d] # NoChunk
      BY <1>0, <1>2, <1>5a, <2>1
    <3> QED BY <1>5, <1>6, <2>1, <3>1
  <2>2. CASE d # c
    <3>1. m2.chunk[d] = m.chunk[d]
      BY <1>0, <1>2, <2>2
    <3> QED BY <1>12, <2>2, <3>1 DEF Mem, ChunksHeld
  <2> QED BY <2>1, <2>2
<1>15a. \A d \in Chunks : ChunkShape(m2.chunk[d])
  <2>1. \A d \in Chunks : m2.chunk[d] \in {l, m.chunk[d]}
    BY <1>0, <1>2
  <2> QED BY <1>5a, <2>1 DEF Mem
<1>16. Reads(m2)
  <2> SUFFICES ASSUME NEW t \in Resps
               PROVE  OpReads(m2.op, t) = One(m2.resp[t].reading) /\ m2.resp[t].chunks <= 1
    BY DEF Reads
  <2>1. OpReads(m2.op, t) = OpReads(m.op, t)
    <3>1. \A p \in Ops : ReadsResp(m2.op[p], t) = ReadsResp(m.op[p], t)
      BY <1>12 DEF ReadsResp
    <3> QED BY <3>1, ReadsSame
  <2>2. OpReads(m.op, t) = One(m.resp[t].reading) /\ m.resp[t].chunks <= 1
    BY DEF Mem, Reads
  <2> QED BY <1>4, <1>8, <2>1, <2>2
<1>17. Mem(m2, list, kept)
  BY <1>1, <1>2, <1>6, <1>11, <1>13, <1>14, <1>15, <1>15a, <1>16 DEF Mem
<1>18. Rest(m2, Ops \ {o})
  <2>1. \A t \in Resps : m2.resp[t].sent <= m2.resp[t].pos
    BY <1>4, <1>8 DEF Rest, Bound
  <2>2. Bound(m2)
    BY <1>2, <2>1 DEF Bound
  <2>3. ASSUME NEW p \in Ops \ {o}, m.op[p].stage = "running", m.op[p].kind = "read"
        PROVE  m.op[p].resp \in Resps /\ m.op[p].resp # r
    <3>1. m.op[p] # NoOp
      BY <2>3, NoOpFacts DEF NoOpIs
    <3>2. m.op[p].resp \in Resps
      BY <2>3, <3>1 DEF Mem, Tidy, Shape
    <3>3. m.op[p].resp # r
      <4> SUFFICES ASSUME m.op[p].resp = r PROVE FALSE
        OBVIOUS
      <4>1. m.op[p].stage \in Pending /\ m.op[o].stage \in Pending
        BY <2>3 DEF Pending, TaskStages
      <4> QED BY <1>1, <2>3, <4>1, OneReader
    <3> QED BY <3>2, <3>3
  <2>4. Idles(m2, Ops \ {o})
    <3> SUFFICES ASSUME NEW p \in Ops \ {o}
                 PROVE  /\ m.op[p].stage \in TaskStages \ {"discard"} => m.op[p].event = None
                        /\ m.op[p].stage = "running" /\ m.op[p].kind = "read"
                             => m2.resp[m.op[p].resp].chunks = 0
      BY <1>6 DEF Idles
    <3> QED BY <1>8, <2>3 DEF Rest, Idles
  <2> QED BY <2>2, <2>4 DEF Rest
<1> QED BY <1>2, <1>17, <1>18 DEF m2

\* An operation that was never queued ends as one that has returned: its record is op[o] = k.
LEMMA MemUndone ==
  ASSUME NEW m, NEW list, NEW kept, Mem(m, list, kept), Rest(m, Ops), None \notin kept, NEW o \in Ops,
         m.op[o].refs = 1, m.op[o].stage = "returned", NEW m2, IsHeap(m2), m2.inst = m.inst, m2.resp = m.resp,
         m2.chunk = m.chunk, m2.retained = m.retained, m2.op[o].inst = m.op[o].inst,
         m2.op[o].resp = m.op[o].resp, m2.op[o].charge = m.op[o].charge, m2.op[o].refs = 1,
         \A p \in Ops : p # o => m2.op[p] = m.op[p], m2.op \in [Ops -> OpRecords]
  PROVE  LET m3 == op_drop(m2, o)
         IN Mem(m3, list, kept) /\ Rest(m3, Ops) /\ m3.op = [m2.op EXCEPT ![o] = NoOp]
<1> DEFINE m3 == op_drop(m2, o)
           k == m.op[o]
           hi == InHand(list, kept)
           hr == InHandResp(kept)
<1>0. IsHeap(m) /\ m.op \in [Ops -> OpRecords] /\ Books(m, m.op, hi, hr) /\ hi \in [Insts -> Nat]
      /\ hr \in [Resps -> Nat] /\ m.inst \in [Insts -> InstRecords] /\ m.resp \in [Resps -> RespRecords]
      /\ Shape(k) /\ k \in OpRecords
  BY HandNat DEF Mem, Books, Tidy
<1>1. Heap(m3, Fewer(m2.op, o))
  BY <1>0, HeapOf, OpDrop
<1>2. IsHeap(m3) /\ m3.op = [m2.op EXCEPT ![o] = NoOp]
  BY <1>1 DEF Heap, Fewer
<1>3. k.stage = "returned" /\ k.event = None /\ k.inst \in Insts
  BY <1>0, DoneEvent DEF Shape
<1> HIDE DEF hi, hr
<1>4. Books(m2, m.op, hi, hr)
  BY <1>0 DEF Books, InstBook, RespBook
<1>5. Books(m3, [m.op EXCEPT ![o] = NoOp], hi, hr)
  BY <1>0, <1>3, <1>4, OpDropBooks
<1>6. Fades(m3, m2) /\ m3.chunk = m2.chunk
  BY <1>0, <1>3, <1>4, OpDropFades
<1>7. Fades(m3, m) /\ m3.chunk = m.chunk
  BY <1>6 DEF Fades
<1> HIDE DEF m3
<1>8. m3.op \in [Ops -> OpRecords] /\ m3.op[o] = NoOp /\ \A p \in Ops : p # o => m3.op[p] = m.op[p]
  BY <1>2, NoOpFacts DEF NoOpIs
<1>9. m3.op = [m.op EXCEPT ![o] = NoOp]
  BY <1>0, <1>2
<1>10. Books(m3, m3.op, hi, hr)
  BY <1>5, <1>9
<1>11. Tidy(m3.op, kept)
  BY <1>0, <1>8, TidyGone DEF Mem
<1>12. Closes(m3) /\ Lives(m3, list) /\ ChunksHeld(m3, kept) /\ Reads(m3)
  <2>1. k.stage \notin Pending
    BY <1>3 DEF Pending, TaskStages
  <2>2. \A p \in Ops : Shape(m3.op[p]) /\ OpFades(m3.op[p], m.op[p])
    BY <1>3, <1>8, <1>11, <2>1 DEF OpFades, Tidy
  <2>3. Closes(m) /\ Lives(m, list) /\ ChunksHeld(m, kept) /\ Reads(m)
    BY DEF Mem
  <2> QED BY <1>0, <1>7, <1>8, <1>10, <2>2, <2>3, RestFades
<1>13. \A c \in Chunks : ChunkShape(m3.chunk[c])
  BY <1>7 DEF Mem
<1>14. Mem(m3, list, kept)
  BY <1>2, <1>8, <1>10, <1>11, <1>12, <1>13 DEF Mem, hi, hr
<1>15. Idles(m3, Ops)
  <2>1. \A p \in Ops : \/ m3.op[p].stage \notin TaskStages
                       \/ m3.op[p].stage = m.op[p].stage /\ m3.op[p].kind = m.op[p].kind
                          /\ m3.op[p].event = m.op[p].event /\ m3.op[p].resp = m.op[p].resp
    BY <1>8, NoOpFacts DEF NoOpIs, TaskStages
  <2> QED BY <1>7, <1>14, <2>1, IdlesFades DEF Rest
<1>16. Bound(m3)
  BY <1>7, <1>14, BoundFades DEF Rest
<1> QED BY <1>2, <1>14, <1>15, <1>16 DEF Rest, m3

\* The counters of an instance without an operation that was under way.
LEMMA LessUnder ==
  ASSUME NEW k \in InstRecords, k.active > 0, k.notifications > 0
  PROVE  LET q == [k EXCEPT !.active = @ - 1, !.notifications = @ - 1]
         IN /\ q \in InstRecords /\ q.refs = k.refs /\ q.active = k.active - 1
            /\ q.notifications = k.notifications - 1 /\ q.responses = k.responses
            /\ q.charged = k.charged /\ q.closing = k.closing /\ q.closed = k.closed
<1> DEFINE a == k.active - 1
           n == k.notifications - 1
           q == [k EXCEPT !.active = a, !.notifications = n]
<1>1. a \in Nat /\ n \in Nat
  BY DEF InstRecords
<1> HIDE DEF a, n
<1>2. /\ q \in InstRecords /\ q.refs = k.refs /\ q.active = a
      /\ q.notifications = n /\ q.responses = k.responses
      /\ q.charged = k.charged /\ q.closing = k.closing /\ q.closed = k.closed
  BY <1>1 DEF InstRecords
<1> QED BY <1>2 DEF a, n

\* hs_submit_async without memory for its request: abandon.
LEMMA MemAbandon ==
  ASSUME NEW m, NEW list, NEW kept, Mem(m, list, kept), Rest(m, Ops), None \notin kept, NEW o \in Ops,
         m.op[o].stage = "queued", m.op[o].kind = "submit", m.op[o].event = None
  PROVE  LET m2 == abandon(m, o)
         IN Mem(m2, list, kept) /\ Rest(m2, Ops)
            /\ m2.op[o] = NoOp /\ \A p \in Ops : p # o => m2.op[p] = m.op[p]
<1> DEFINE i == m.op[o].inst
           old == m.op[o]
           k == [m.op[o] EXCEPT !.stage = "returned", !.refs = 1]
           l == [m.op[o] EXCEPT !.refs = 1]
           q == [m.inst[i] EXCEPT !.active = @ - 1, !.notifications = @ - 1]
           m1 == [m EXCEPT !.inst[i].active = @ - 1, !.inst[i].notifications = @ - 1, !.op[o].refs = 1]
           mr == [m1 EXCEPT !.op[o] = k]
           hi == InHand(list, kept)
           hr == InHandResp(kept)
<1>0. IsHeap(m) /\ m.op \in [Ops -> OpRecords] /\ Books(m, m.op, hi, hr) /\ hi \in [Insts -> Nat]
      /\ hr \in [Resps -> Nat] /\ m.inst \in [Insts -> InstRecords] /\ Shape(old) /\ old \in OpRecords
  BY HandNat DEF Mem, Books, Tidy
<1>1. i \in Insts
  <2>1. old # NoOp
    BY NoOpFacts DEF NoOpIs
  <2> QED BY <1>0, <2>1 DEF Shape, OpRecords
<1>2. m.inst[i] \in InstRecords /\ m.inst[i].notifications > 0 /\ m.inst[i].active > 0
  BY <1>0, <1>1, OpAdds DEF Pending
<1>3. /\ IsHeap(m1) /\ m1.op = [m.op EXCEPT ![o] = l] /\ m1.inst = [m.inst EXCEPT ![i] = q]
      /\ m1.resp = m.resp /\ m1.chunk = m.chunk /\ m1.retained = m.retained
  BY <1>0, <1>1 DEF IsHeap
<1>4. /\ k \in OpRecords /\ k.refs = 1 /\ k.kind = old.kind /\ k.stage = "returned" /\ k.inst = i
      /\ k.resp = old.resp /\ k.charge = old.charge /\ k.event = old.event
      /\ l \in OpRecords /\ l.refs = 1 /\ l.inst = i /\ l.resp = old.resp /\ l.charge = old.charge
  <2>1. /\ l \in OpRecords /\ l.refs = 1 /\ l.inst = i /\ l.resp = old.resp /\ l.charge = old.charge
        /\ l.kind = old.kind /\ l.event = old.event
    BY <1>0 DEF OpRecords
  <2>2. k = [l EXCEPT !.stage = "returned"]
    BY <1>0 DEF OpRecords
  <2> HIDE DEF k, l
  <2>3. /\ k \in OpRecords /\ k.refs = l.refs /\ k.kind = l.kind /\ k.stage = "returned" /\ k.inst = l.inst
        /\ k.resp = l.resp /\ k.charge = l.charge /\ k.event = l.event
    BY <2>1, <2>2 DEF OpRecords, Stages, DoneStages
  <2> QED BY <2>1, <2>3
<1>5. /\ q \in InstRecords /\ q.refs = m.inst[i].refs /\ q.active = m.inst[i].active - 1
      /\ q.responses = m.inst[i].responses /\ q.charged = m.inst[i].charged
      /\ q.notifications = m.inst[i].notifications - 1
      /\ q.closing = m.inst[i].closing /\ q.closed = m.inst[i].closed
  <2> HIDE DEF i
  <2> QED BY <1>2, LessUnder, Zenon
<1> HIDE DEF m1, k, l, q, hi, hr
<1>6. /\ IsHeap(mr) /\ mr.op = [m.op EXCEPT ![o] = k] /\ mr.inst = [m.inst EXCEPT ![i] = q]
      /\ mr.resp = m.resp /\ mr.chunk = m.chunk /\ mr.retained = m.retained
  BY <1>0, <1>3 DEF IsHeap
<1> HIDE DEF mr
<1>7. Staged(m, mr, m.op, o, k, i, q)
  <2>1. ActiveBy(old, i) = 1 /\ ActiveBy(k, i) = 0 /\ NotesBy(old, i) = 1 /\ NotesBy(k, i) = 0
    BY <1>4 DEF ActiveBy, NotesBy, One, TaskStages
  <2>0. m.inst[i].active \in Nat /\ m.inst[i].notifications \in Nat
    BY <1>2 DEF InstRecords
  <2>2. q.active + ActiveBy(old, i) = m.inst[i].active + ActiveBy(k, i)
    BY <2>0, <1>5, <2>1
  <2>3. q.notifications + NotesBy(old, i) = m.inst[i].notifications + NotesBy(k, i)
    BY <2>0, <1>5, <2>1
  <2>4. old.event \notin Insts
    BY <1>1, NoOpFacts DEF NoOpIs
  <2> QED BY <1>4, <1>5, <1>6, <2>2, <2>3, <2>4 DEF Staged, SameOp
<1>8. Shape(k) /\ ~Granting(k) /\ k.stage \notin Pending
  BY <1>0, <1>1, <1>4, NoOpFacts DEF NoOpIs, Shape, Granting, Pending, TaskStages, Creates
<1>9. Onwards(m, mr, o, k, q)
  BY <1>5, <1>6, <1>7, <1>8 DEF Onwards
<1>10. Mem(mr, list, kept) /\ mr.op[o] = k /\ \A p \in Ops : p # o => mr.op[p] = m.op[p]
  BY <1>1, <1>9, MemOnwards
<1>11. Rest(mr, Ops)
  <2>1. \A p \in Ops : m.op[p].kind = "read" => m.op[p].resp \in Resps
    BY NoOpFacts DEF NoOpIs, Mem, Tidy, Shape
  <2>2. k.stage \notin TaskStages
    BY <1>8 DEF Pending
  <2>3. Idles(mr, Ops)
    BY <1>6, <1>10, <2>1, <2>2 DEF Rest, Idles, TaskStages
  <2> QED BY <1>6, <2>3 DEF Rest, Bound
<1>12. /\ m1.inst = mr.inst /\ m1.resp = mr.resp /\ m1.chunk = mr.chunk /\ m1.retained = mr.retained
       /\ m1.op[o] = l /\ \A p \in Ops : p # o => m1.op[p] = m.op[p]
  BY <1>0, <1>3, <1>6
<1>13. /\ m1.op[o].inst = mr.op[o].inst /\ m1.op[o].resp = mr.op[o].resp
       /\ m1.op[o].charge = mr.op[o].charge /\ m1.op[o].refs = 1
       /\ mr.op[o].refs = 1 /\ mr.op[o].stage = "returned"
       /\ \A p \in Ops : p # o => m1.op[p] = mr.op[p]
  BY <1>4, <1>10, <1>12
<1>14. m1.op \in [Ops -> OpRecords]
  BY <1>0, <1>3, <1>4
<1>15. LET m3 == op_drop(m1, o) IN Mem(m3, list, kept) /\ Rest(m3, Ops) /\ m3.op = [m1.op EXCEPT ![o] = NoOp]
  BY <1>3, <1>10, <1>11, <1>12, <1>13, <1>14, MemUndone
<1>16. abandon(m, o) = op_drop(m1, o)
  BY DEF abandon, m1
<1> DEFINE m3 == op_drop(m1, o)
<1>17. m3.op[o] = NoOp /\ \A p \in Ops : p # o => m3.op[p] = m.op[p]
  BY <1>12, <1>14, <1>15
<1> QED BY <1>15, <1>16, <1>17

\* A record with other cancellation flags, or one that was queued and is spawned.
SameWay(k, old) ==
  /\ k.refs = old.refs /\ SameOp(k, old) /\ k.event = old.event
  /\ k.stage = old.stage \/ (old.stage = "queued" /\ k.stage = "spawned")

\* It is no less in order.
LEMMA WayShape ==
  ASSUME NEW k \in OpRecords, NEW old \in OpRecords, Shape(old), old = NoOp => k = NoOp, SameWay(k, old)
  PROVE  Shape(k) /\ AlikeOp(k, old) /\ (old.stage = "queued" => old.event = None)
<1>1. old.stage = "queued" => old.event = None
  BY DEF Shape, OpRecords
<1>2. AlikeOp(k, old)
  BY DEF SameWay, SameOp, AlikeOp, TaskStages
<1>3. CASE k.stage = old.stage
  BY <1>1, <1>2, <1>3 DEF Shape, SameWay, SameOp
<1>4. CASE old.stage = "queued" /\ k.stage = "spawned"
  BY <1>1, <1>2, <1>4, NoOpFacts DEF NoOpIs, Shape, SameWay, SameOp
<1> QED BY <1>1, <1>2, <1>3, <1>4 DEF SameWay

\* hs_operation_cancel, task.cancel and hs_bridge_pop.
LEMMA MemOpFlags ==
  ASSUME NEW m, NEW list, NEW kept, Mem(m, list, kept), Rest(m, Ops), NEW m2, IsHeap(m2),
         m2.inst = m.inst, m2.resp = m.resp, m2.chunk = m.chunk, m2.retained = m.retained,
         m2.op \in [Ops -> OpRecords],
         \A p \in Ops : SameWay(m2.op[p], m.op[p]) /\ (m.op[p] = NoOp => m2.op[p] = NoOp)
  PROVE  Mem(m2, list, kept) /\ Rest(m2, Ops)
<1>0. m.op \in [Ops -> OpRecords] /\ \A p \in Ops : Shape(m.op[p])
  BY DEF Mem, Tidy
<1>1. \A p \in Ops : /\ Shape(m2.op[p]) /\ AlikeOp(m2.op[p], m.op[p])
                     /\ m.op[p].stage = "queued" => m.op[p].event = None
  BY <1>0, WayShape
<1>2. Flags(m, m2)
  BY <1>1, FlagsOp
<1>3. Mem(m2, list, kept)
  BY <1>2, MemFlags
<1>4. Idles(m2, Ops)
  <2> SUFFICES ASSUME NEW p \in Ops
               PROVE  /\ m2.op[p].stage \in TaskStages \ {"discard"} => m2.op[p].event = None
                      /\ m2.op[p].stage = "running" /\ m2.op[p].kind = "read"
                           => m2.resp[m2.op[p].resp].chunks = 0
    BY DEF Idles
  <2>1. CASE m2.op[p].stage = m.op[p].stage
    BY <2>1 DEF Rest, Idles, SameWay, SameOp
  <2>2. CASE m.op[p].stage = "queued" /\ m2.op[p].stage = "spawned"
    BY <1>1, <2>2 DEF SameWay
  <2> QED BY <2>1, <2>2 DEF SameWay
<1>5. Bound(m2)
  BY DEF Rest, Bound
<1> QED BY <1>3, <1>4, <1>5 DEF Rest

\* The stages a task of each kind goes through.
StageOf(kind, stage) ==
  /\ stage \in TaskStages
  /\ stage = "reading" => kind = "read"
  /\ stage = "discard" => kind = "submit"
  /\ stage \in {"stopping", "draining"} => kind = "close"
  /\ stage = "running" => kind # "close"

\* A task goes on.
LEMMA MemGo ==
  ASSUME NEW m, NEW list, NEW kept, Mem(m, list, kept), Rest(m, Ops), NEW o \in Ops, NEW stage,
         m.op[o].stage \in Pending, m.op[o].event = None, StageOf(m.op[o].kind, stage),
         stage = "running" /\ m.op[o].kind = "read" => m.resp[m.op[o].resp].chunks = 0
  PROVE  LET m2 == [m EXCEPT !.op[o].stage = stage]
         IN Mem(m2, list, kept) /\ Rest(m2, Ops)
<1> DEFINE m2 == [m EXCEPT !.op[o].stage = stage]
           old == m.op[o]
           k == [m.op[o] EXCEPT !.stage = stage]
<1>0. /\ IsHeap(m) /\ m.op \in [Ops -> OpRecords] /\ old \in OpRecords /\ Shape(old)
      /\ \A p \in Ops : Shape(m.op[p])
  BY DEF Mem, Tidy
<1>1. /\ IsHeap(m2) /\ m2.inst = m.inst /\ m2.resp = m.resp /\ m2.chunk = m.chunk
      /\ m2.retained = m.retained /\ m2.op = [m.op EXCEPT ![o] = k]
  BY <1>0 DEF IsHeap
<1>2. /\ k \in OpRecords /\ k.refs = old.refs /\ k.kind = old.kind /\ k.stage = stage /\ k.inst = old.inst
      /\ k.resp = old.resp /\ k.charge = old.charge /\ k.event = None
  BY <1>0 DEF OpRecords, Stages, StageOf
<1> HIDE DEF m2, k
<1>3. m2.op \in [Ops -> OpRecords] /\ m2.op[o] = k /\ \A p \in Ops : p # o => m2.op[p] = m.op[p]
  BY <1>0, <1>1, <1>2
<1>4. old # NoOp /\ old.refs # 0
  BY <1>0, NoOpFacts DEF NoOpIs, Shape, Pending, TaskStages
<1>5. Shape(k)
  BY <1>0, <1>2, <1>4, NoOpFacts DEF NoOpIs, Shape, StageOf, TaskStages
<1>6. AlikeOp(k, old)
  BY <1>2 DEF AlikeOp, Pending, StageOf
<1>7. \A p \in Ops : Shape(m2.op[p]) /\ AlikeOp(m2.op[p], m.op[p])
  BY <1>0, <1>3, <1>5, <1>6 DEF AlikeOp
<1>8. Flags(m, m2)
  BY <1>1, <1>3, <1>7, FlagsOp
<1>9. Mem(m2, list, kept)
  BY <1>8, MemFlags
<1>10. Idles(m2, Ops)
  BY <1>1, <1>2, <1>3 DEF Rest, Idles
<1>11. Bound(m2)
  BY <1>1 DEF Rest, Bound
<1> QED BY <1>9, <1>10, <1>11 DEF Rest, m2

\* An engine or a server is opened, or its scope ends.
LEMMA MemUp ==
  ASSUME NEW m, NEW list, NEW kept, Mem(m, list, kept), NEW i \in Insts, m.inst[i].refs # 0, NEW b \in BOOLEAN
  PROVE  LET m2 == [m EXCEPT !.inst[i].up = b]
         IN Mem(m2, list, kept) /\ m2.op = m.op /\ (\A S : Rest(m, S) => Rest(m2, S))
            /\ \A j \in Insts : m2.inst[j].refs = m.inst[j].refs
<1> DEFINE m2 == [m EXCEPT !.inst[i].up = b]
           q == [m.inst[i] EXCEPT !.up = b]
<1>0. IsHeap(m) /\ m.inst \in [Insts -> InstRecords] /\ m.inst[i] \in InstRecords
  BY DEF Mem, Books
<1>1. /\ IsHeap(m2) /\ m2.inst = [m.inst EXCEPT ![i] = q] /\ m2.resp = m.resp /\ m2.chunk = m.chunk
      /\ m2.retained = m.retained /\ m2.op = m.op
  BY <1>0 DEF IsHeap
<1>2. /\ q \in InstRecords /\ q.refs = m.inst[i].refs /\ q.active = m.inst[i].active
      /\ q.notifications = m.inst[i].notifications /\ q.responses = m.inst[i].responses
      /\ q.charged = m.inst[i].charged /\ q.closing = m.inst[i].closing /\ q.closed = m.inst[i].closed
  BY <1>0 DEF InstRecords
<1> HIDE DEF m2, q
<1>3. AlikeInst(q, m.inst[i])
  BY <1>2 DEF AlikeInst
<1>4. Flags(m, m2)
  BY <1>1, <1>2, <1>3, FlagsInst
<1>5. Mem(m2, list, kept)
  BY <1>4, MemFlags
<1>6. \A S : Rest(m, S) => Rest(m2, S)
  BY <1>1 DEF Rest, Idles, Bound
<1>7. \A j \in Insts : m2.inst[j].refs = m.inst[j].refs
  BY <1>0, <1>1, <1>2
<1> QED BY <1>1, <1>5, <1>6, <1>7 DEF m2

\* The same operation, cancelled or spawned.
LEMMA WayIs ==
  ASSUME NEW k \in OpRecords, k # NoOp
  PROVE  /\ [k EXCEPT !.cancelled = TRUE] \in OpRecords /\ SameWay([k EXCEPT !.cancelled = TRUE], k)
         /\ [k EXCEPT !.cancelling = TRUE] \in OpRecords /\ SameWay([k EXCEPT !.cancelling = TRUE], k)
         /\ k.stage = "queued" => /\ [k EXCEPT !.stage = "spawned"] \in OpRecords
                                  /\ SameWay([k EXCEPT !.stage = "spawned"], k)
<1>1. /\ [k EXCEPT !.cancelled = TRUE] \in OpRecords /\ SameWay([k EXCEPT !.cancelled = TRUE], k)
  BY DEF OpRecords, SameWay, SameOp
<1>2. /\ [k EXCEPT !.cancelling = TRUE] \in OpRecords /\ SameWay([k EXCEPT !.cancelling = TRUE], k)
  BY DEF OpRecords, SameWay, SameOp
<1>3. k.stage = "queued" => /\ [k EXCEPT !.stage = "spawned"] \in OpRecords
                            /\ SameWay([k EXCEPT !.stage = "spawned"], k)
  BY DEF OpRecords, SameWay, SameOp, Stages, TaskStages
<1> QED BY <1>1, <1>2, <1>3

\* hs_operation_cancel.
LEMMA MemCancelled ==
  ASSUME NEW m, NEW list, NEW kept, Mem(m, list, kept), Rest(m, Ops), NEW o \in Ops, m.op[o] # NoOp
  PROVE  LET m2 == [m EXCEPT !.op[o].cancelled = TRUE]
         IN Mem(m2, list, kept) /\ Rest(m2, Ops)
<1> DEFINE m2 == [m EXCEPT !.op[o].cancelled = TRUE]
           k == [m.op[o] EXCEPT !.cancelled = TRUE]
<1>0. IsHeap(m) /\ m.op \in [Ops -> OpRecords]
  BY DEF Mem
<1>1. /\ IsHeap(m2) /\ m2.inst = m.inst /\ m2.resp = m.resp /\ m2.chunk = m.chunk
      /\ m2.retained = m.retained /\ m2.op = [m.op EXCEPT ![o] = k]
  BY <1>0 DEF IsHeap
<1>2. k \in OpRecords /\ SameWay(k, m.op[o])
  BY <1>0, WayIs
<1> HIDE DEF m2, k
<1>3. m2.op \in [Ops -> OpRecords] /\ m2.op[o] = k /\ \A p \in Ops : p # o => m2.op[p] = m.op[p]
  BY <1>0, <1>1, <1>2
<1>4. \A p \in Ops : SameWay(m2.op[p], m.op[p]) /\ (m.op[p] = NoOp => m2.op[p] = NoOp)
  BY <1>2, <1>3 DEF SameWay, SameOp
<1>5. Mem(m2, list, kept) /\ Rest(m2, Ops)
  BY <1>1, <1>3, <1>4, MemOpFlags
<1> QED BY <1>5 DEF m2

\* task.cancel of tasks.
LEMMA MemCancel ==
  ASSUME NEW m, NEW list, NEW kept, Mem(m, list, kept), Rest(m, Ops), NEW S, \A o \in S : m.op[o] # NoOp
  PROVE  LET m2 == Cancel(m, S)
         IN Mem(m2, list, kept) /\ Rest(m2, Ops) /\ m2.inst = m.inst
            /\ \A p \in Ops : m2.op[p].stage = m.op[p].stage
<1> DEFINE m2 == Cancel(m, S)
           f == [o \in Ops |-> IF o \in S THEN [m.op[o] EXCEPT !.cancelling = TRUE] ELSE m.op[o]]
<1>0. IsHeap(m) /\ m.op \in [Ops -> OpRecords]
  BY DEF Mem
<1>1. /\ IsHeap(m2) /\ m2.inst = m.inst /\ m2.resp = m.resp /\ m2.chunk = m.chunk
      /\ m2.retained = m.retained /\ m2.op = f
  BY <1>0 DEF IsHeap, Cancel
<1>2. ASSUME NEW p \in Ops
      PROVE  f[p] \in OpRecords /\ SameWay(f[p], m.op[p]) /\ (m.op[p] = NoOp => f[p] = NoOp)
             /\ f[p].stage = m.op[p].stage
  <2>1. CASE p \in S
    <3>1. m.op[p] \in OpRecords /\ m.op[p] # NoOp /\ f[p] = [m.op[p] EXCEPT !.cancelling = TRUE]
      BY <1>0, <2>1
    <3>2. f[p] \in OpRecords /\ SameWay(f[p], m.op[p])
      BY <3>1, WayIs
    <3>3. f[p].stage = m.op[p].stage
      BY <3>1 DEF OpRecords
    <3> QED BY <3>1, <3>2, <3>3
  <2>2. CASE p \notin S
    <3>1. m.op[p] \in OpRecords /\ f[p] = m.op[p]
      BY <1>0, <2>2
    <3> QED BY <3>1 DEF SameWay, SameOp
  <2> QED BY <2>1, <2>2
<1>3. f \in [Ops -> OpRecords]
  BY <1>2
<1> HIDE DEF m2, f
<1>4. m2.op \in [Ops -> OpRecords]
      /\ \A p \in Ops : SameWay(m2.op[p], m.op[p]) /\ (m.op[p] = NoOp => m2.op[p] = NoOp)
  BY <1>1, <1>2, <1>3
<1>5. Mem(m2, list, kept) /\ Rest(m2, Ops)
  BY <1>1, <1>4, MemOpFlags
<1> QED BY <1>1, <1>2, <1>5 DEF m2

\* hs_bridge_pop until the queue is empty.
LEMMA MemPops ==
  ASSUME NEW m, NEW list, NEW kept, Mem(m, list, kept), Rest(m, Ops)
  PROVE  LET f == [o \in Ops |-> IF m.op[o].stage = "queued" THEN [m.op[o] EXCEPT !.stage = "spawned"]
                                                             ELSE m.op[o]]
             m2 == [m EXCEPT !.op = f]
         IN Mem(m2, list, kept) /\ Rest(m2, Ops)
<1> DEFINE f == [o \in Ops |-> IF m.op[o].stage = "queued" THEN [m.op[o] EXCEPT !.stage = "spawned"]
                                                           ELSE m.op[o]]
           m2 == [m EXCEPT !.op = f]
<1>0. IsHeap(m) /\ m.op \in [Ops -> OpRecords]
  BY DEF Mem
<1>1. /\ IsHeap(m2) /\ m2.inst = m.inst /\ m2.resp = m.resp /\ m2.chunk = m.chunk
      /\ m2.retained = m.retained /\ m2.op = f
  BY <1>0 DEF IsHeap
<1>2. ASSUME NEW p \in Ops
      PROVE  f[p] \in OpRecords /\ SameWay(f[p], m.op[p]) /\ (m.op[p] = NoOp => f[p] = NoOp)
  <2>1. CASE m.op[p].stage = "queued"
    <3>1. m.op[p] \in OpRecords /\ m.op[p] # NoOp /\ f[p] = [m.op[p] EXCEPT !.stage = "spawned"]
      BY <1>0, <2>1, NoOpFacts DEF NoOpIs
    <3>2. f[p] \in OpRecords /\ SameWay(f[p], m.op[p])
      BY <2>1, <3>1, WayIs
    <3> QED BY <3>1, <3>2
  <2>2. CASE m.op[p].stage # "queued"
    <3>1. m.op[p] \in OpRecords /\ f[p] = m.op[p]
      BY <1>0, <2>2
    <3> QED BY <3>1 DEF SameWay, SameOp
  <2> QED BY <2>1, <2>2
<1>3. f \in [Ops -> OpRecords]
  BY <1>2
<1> HIDE DEF m2, f
<1>4. m2.op \in [Ops -> OpRecords]
      /\ \A p \in Ops : SameWay(m2.op[p], m.op[p]) /\ (m.op[p] = NoOp => m2.op[p] = NoOp)
  BY <1>1, <1>2, <1>3
<1>5. Mem(m2, list, kept) /\ Rest(m2, Ops)
  BY <1>1, <1>4, MemOpFlags
<1> QED BY <1>5 DEF m2, f

\* Flags of responses that are there, or the cursor of one moves.
LEMMA MemRespFlags ==
  ASSUME NEW m, NEW list, NEW kept, Mem(m, list, kept), NEW f \in [Resps -> RespRecords],
         \A r \in Resps : /\ AlikeResp(f[r], m.resp[r]) /\ f[r].reading = m.resp[r].reading
                          /\ f[r].sent = m.resp[r].sent /\ f[r].pos >= m.resp[r].pos
  PROVE  LET m2 == [m EXCEPT !.resp = f]
         IN Mem(m2, list, kept) /\ m2.op = m.op /\ \A S \in SUBSET Ops : Rest(m, S) => Rest(m2, S)
<1> DEFINE m2 == [m EXCEPT !.resp = f]
<1>0. IsHeap(m) /\ m.resp \in [Resps -> RespRecords]
  BY DEF Mem, Books
<1>1. /\ IsHeap(m2) /\ m2.resp = f /\ m2.inst = m.inst /\ m2.chunk = m.chunk
      /\ m2.retained = m.retained /\ m2.op = m.op
  BY <1>0 DEF IsHeap
<1> HIDE DEF m2
<1>2. Flags(m, m2)
  BY <1>1, FlagsResp
<1>3. Mem(m2, list, kept)
  BY <1>2, MemFlags
<1>4. ASSUME NEW S, S \subseteq Ops, Rest(m, S) PROVE Rest(m2, S)
  <2>1. ASSUME NEW r \in Resps
        PROVE  m2.resp[r].chunks = m.resp[r].chunks /\ m2.resp[r].sent <= m2.resp[r].pos
    <3>1. /\ f[r].sent \in Int /\ f[r].pos \in Int /\ m.resp[r].pos \in Int
          /\ m.resp[r].sent <= m.resp[r].pos
      BY <1>0, <1>4, BridgeAssumption DEF RespRecords, Rest, Bound
    <3> QED BY <1>1, <3>1 DEF AlikeResp
  <2> QED BY <1>1, <1>4, <2>1, RestResps
<1> QED BY <1>1, <1>3, <1>4 DEF m2

-----------------------------------------------------------------------------
(* The bridge's memory                                                      *)

LiveCount == live \subseteq Insts /\ instances = Cardinality(live)
MemInv == /\ Mem(mem, live, Kept) /\ Rest(mem, Ops)
          /\ InstsHeld /\ Resting /\ LiveCount

\* The invariant after a step, in terms of the primed variables.
LEMMA MemWillBe ==
  ASSUME Mem(mem', live', Kept'), Rest(mem', Ops), InstsHeld', Resting', LiveCount'
  PROVE  MemInv'
BY DEF MemInv

\* What the host holds besides operations.
LEMMA KeptIs ==
  ASSUME OpsInv
  PROVE  /\ None \notin Kept
         /\ \A x \in Insts : x \in Kept <=> x \in owned \/ \E h \in Hosts : InstHeld(h) = x
         /\ \A x \in Resps \cup Chunks : x \in Kept <=> x \in owned
<1>1. \A h \in Hosts : Subject(call[h])
  BY OpsFacts
<1> QED BY <1>1, BridgeAssumption DEF Kept, HostHolds, InstHeld, HoldAt, Subject, Handles
\* The same after a step.
LEMMA KeptWillBe ==
  ASSUME OpsInv'
  PROVE  /\ None \notin Kept'
         /\ \A x \in Insts : x \in Kept' <=> x \in owned' \/ \E h \in Hosts : InstHeld(h)' = x
         /\ \A x \in Resps \cup Chunks : x \in Kept' <=> x \in owned'
<1>1. \A h \in Hosts : Subject(call'[h])
  BY DEF OpsInv, HostRefs, Subject
<1> QED BY <1>1, BridgeAssumption DEF Kept, HostHolds, InstHeld, HoldAt, Subject, Handles

\* A step that moves no reference of the host's but to operations.
SameInsts == /\ \A x \in Insts \cup Resps \cup Chunks : x \in owned' <=> x \in owned
             /\ \A h \in Hosts : InstHeld(h)' = InstHeld(h)
\* A step that moves no handle between the library and a host.
LEMMA KeptSame ==
  ASSUME OpsInv, OpsInv', InstsHeld, SameInsts
  PROVE  Kept' = Kept /\ InstsHeld'
<1>1. \A x : x \in Kept <=> x \in Kept'
  <2>1. \A x : x \in Kept \/ x \in Kept' => x \in Insts \cup Resps \cup Chunks
    BY DEF Kept
  <2> QED BY <2>1, KeptIs, KeptWillBe DEF SameInsts
<1>2. \A h \in Hosts : InstHeld(h)' \notin owned'
  <2>1. \A h \in Hosts : InstHeld(h) \in Insts \cup {None}
    BY DEF InstHeld
  <2>2. None \notin owned'
    BY BridgeAssumption DEF OpsInv, OpTypes, Handles
  <2> QED BY <2>1, <2>2 DEF SameInsts, InstsHeld
<1> QED BY <1>1, <1>2 DEF SameInsts, InstsHeld

\* The host lets go of a handle,
LEMMA KeptReleases ==
  ASSUME OpsInv, OpsInv', InstsHeld, NEW x \in Insts \cup Resps \cup Chunks, x \in owned, owned' = owned \ {x},
         UNCHANGED call
  PROVE  x \in Kept /\ Kept' = Kept \ {x} /\ InstsHeld'
<1>1. \A h \in Hosts : InstHeld(h)' = InstHeld(h)
  BY DEF InstHeld
<1>2. \A h \in Hosts : InstHeld(h) # x
  BY DEF InstsHeld
<1>3. \A y : y \in Kept' <=> y \in Kept \ {x}
  <2>1. \A y : y \in Kept \/ y \in Kept' => y \in Insts \cup Resps \cup Chunks
    BY DEF Kept
  <2> QED BY <1>1, <1>2, <2>1, KeptIs, KeptWillBe
<1> QED BY <1>1, <1>3, KeptIs DEF InstsHeld
\* or a blocked thread lets go of the instance it had,
LEMMA KeptDrops ==
  ASSUME OpsInv, OpsInv', InstsHeld, NEW g \in Hosts, InstHeld(g) \in Insts, UNCHANGED owned,
         InstHeld(g)' = None, \A h \in Hosts : h # g => InstHeld(h)' = InstHeld(h)
  PROVE  InstHeld(g) \in Kept /\ Kept' = Kept \ {InstHeld(g)} /\ InstsHeld'
<1> DEFINE x == InstHeld(g)
<1>0. None \notin owned /\ x # None
  BY BridgeAssumption DEF OpsInv, OpTypes, Handles
<1>1. x \notin owned /\ \A h \in Hosts : h # g => InstHeld(h) # x
  BY <1>0 DEF InstsHeld
<1> HIDE DEF x
<1>3. \A y : y \in Kept' <=> y \in Kept \ {x}
  <2>1. \A y : y \in Kept \/ y \in Kept' => y \in Insts \cup Resps \cup Chunks
    BY DEF Kept
  <2>2. \A y \in Resps \cup Chunks : y # x
    BY BridgeAssumption DEF x
  <2>3. \A y \in Insts : (\E h \in Hosts : InstHeld(h)' = y) <=> (y # x /\ \E h \in Hosts : InstHeld(h) = y)
    BY <1>0, <1>1, BridgeAssumption DEF x, Handles
  <2> QED BY <1>1, <2>1, <2>2, <2>3, KeptIs, KeptWillBe
<1>4. x \in Kept
  BY KeptIs DEF x
<1>5. InstsHeld'
  BY <1>0 DEF InstsHeld
<1> QED BY <1>3, <1>4, <1>5 DEF x
\* or gets the handle of an event.
LEMMA KeptGives ==
  ASSUME OpsInv, OpsInv', InstsHeld, NEW e \in Insts \cup Resps \cup Chunks \cup {None}, e \notin Kept,
         owned' = owned \cup ({e} \ {None}), UNCHANGED call
  PROVE  Kept' = Kept \cup ({e} \ {None}) /\ InstsHeld'
<1>1. \A h \in Hosts : InstHeld(h)' = InstHeld(h)
  BY DEF InstHeld
<1>2. \A y : y \in Kept' <=> y \in Kept \cup ({e} \ {None})
  <2>1. \A y : y \in Kept \/ y \in Kept' => y \in Insts \cup Resps \cup Chunks
    BY DEF Kept
  <2> QED BY <1>1, <2>1, KeptIs, KeptWillBe, BridgeAssumption DEF Handles
<1>3. \A h \in Hosts : InstHeld(h) \notin ({e} \ {None})
  <2>1. \A h \in Hosts : InstHeld(h) \in Insts \cup {None}
    BY DEF InstHeld
  <2>2. \A h \in Hosts : InstHeld(h) = e /\ e # None => e \in Insts
    BY <2>1
  <2>3. \A h \in Hosts : InstHeld(h) = e => e = None
    BY <2>2, KeptIs
  <2> QED BY <2>3
<1> QED BY <1>1, <1>2, <1>3 DEF InstsHeld

\* What the invariant says of the heap.
LEMMA MemFacts ==
  ASSUME OpsInv, MemInv
  PROVE  /\ Mem(mem, live, Kept) /\ Rest(mem, Ops) /\ None \notin Kept /\ InstsHeld /\ Resting
         /\ live \subseteq Insts /\ IsFiniteSet(live) /\ instances = Cardinality(live) /\ instances \in Nat
         /\ IsHeap(mem) /\ mem.op \in [Ops -> OpRecords] /\ mem.inst \in [Insts -> InstRecords]
         /\ mem.resp \in [Resps -> RespRecords] /\ mem.retained \in Nat
         /\ \A o \in Ops : Shape(mem.op[o])
<1>1. Mem(mem, live, Kept) /\ Rest(mem, Ops) /\ None \notin Kept /\ InstsHeld /\ Resting
      /\ live \subseteq Insts /\ instances = Cardinality(live)
  BY KeptIs DEF MemInv, LiveCount
<1>2. IsFiniteSet(live) /\ Cardinality(live) \in Nat
  <2>1. Insts \subseteq Handles
    BY DEF Handles
  <2>2. IsFiniteSet(live)
    BY <1>1, <2>1, FS_Subset, BridgeAssumption
  <2> QED BY <2>2, FS_CardinalityType
<1>3. IsHeap(mem) /\ mem.op \in [Ops -> OpRecords] /\ Books(mem, mem.op, InHand(live, Kept), InHandResp(Kept))
      /\ \A o \in Ops : Shape(mem.op[o])
  BY <1>1 DEF Mem, Tidy
<1>4. mem.inst \in [Insts -> InstRecords] /\ mem.resp \in [Resps -> RespRecords]
  BY <1>3 DEF Books
<1>5. mem.retained \in Nat
  BY <1>3, RetainedNat
<1> QED BY <1>1, <1>2, <1>3, <1>4, <1>5

\* The threads stay where they are, nothing starts to run, and a command is queued only beside an
\* instance that is live.
LEMMA RestingStays ==
  ASSUME Resting, UNCHANGED <<owner, notifier, live, notices>>, UNCHANGED commands \/ live # {},
         \A o \in Ops : mem'.op[o].stage \in TaskStages => mem.op[o].stage \in TaskStages
  PROVE  Resting'
BY DEF Resting, Tasks
\* A task's step disturbs nobody at rest.
LEMMA RestingRuns ==
  ASSUME ThreadInv, Running, UNCHANGED <<owner, notifier>>
  PROVE  Resting'
BY DEF ThreadInv, ThreadsAgree, Running, Resting
\* The live list has one instance more, or less.
LEMMA LiveMore ==
  ASSUME LiveCount, IsFiniteSet(live), NEW i \in Insts, i \notin live, live' = live \cup {i}, instances' = instances + 1
  PROVE  LiveCount'
BY FS_AddElement DEF LiveCount
\* An instance leaves the live list.
LEMMA LiveLess ==
  ASSUME LiveCount, IsFiniteSet(live), NEW i \in Insts, i \in live, live' = live \ {i}, instances' = instances - 1
  PROVE  LiveCount'
BY FS_RemoveElement DEF LiveCount

\* The premises of every step.
Before == ThreadInv /\ OpsInv /\ MemInv /\ OpsInv'

\* A step that only gives the host an operation leaves it the rest.
LEMMA GivesOp ==
  ASSUME OpsInv, NEW o \in Ops, owned' = owned \cup {o}, UNCHANGED call
  PROVE  SameInsts
BY BridgeAssumption DEF SameInsts, InstHeld
\* A step of the library gives the host nothing.
LEMMA GivesNone ==
  ASSUME UNCHANGED <<owned, call>>
  PROVE  SameInsts
BY DEF SameInsts, InstHeld

\* An accepted operation, once the heap with it is in order.
LEMMA AcceptMem ==
  ASSUME Before, NEW t, NEW kind \in Kinds, NEW i \in Insts,
         NEW r \in Resps \cup {None}, NEW input \in Nat, NEW m, Heap(m, mem.op), live # {},
         Accept(t, kind, i, r, input, m),
         Mem(new_op(m, kind, i, r, Slot(FreeOps), input), live, Kept),
         Rest(new_op(m, kind, i, r, Slot(FreeOps), input), Ops)
  PROVE  MemInv'
<1> DEFINE o == Slot(FreeOps)
           k == NewRecord(kind, i, r, input)
<1>0. OpsInv /\ MemInv /\ OpsInv'
  BY DEF Before
<1>1. o \in Ops
  BY SlotIn DEF Accept, FreeOps
<1>2. /\ mem' = new_op(m, kind, i, r, o, input) /\ owned' = owned \cup {o}
      /\ UNCHANGED <<notices, notifier, owner, live, instances, call>>
  BY DEF Accept, noteVars, loopVars
<1> HIDE DEF o
<1>3. Heap(mem', [mem.op EXCEPT ![o] = k])
  BY <1>2, NewOp
<1>4. k.stage = "queued"
  BY NewTypes
<1> HIDE DEF k
<1>5. \A p \in Ops : mem'.op[p].stage \in TaskStages => mem.op[p].stage \in TaskStages
  BY <1>0, <1>1, <1>3, <1>4, OpsFacts DEF Heap, TaskStages
<1>6. InstsHeld /\ Resting /\ LiveCount
  BY <1>0 DEF MemInv
<1>7. Kept' = Kept /\ InstsHeld'
  BY <1>0, <1>1, <1>2, <1>6, GivesOp, KeptSame
<1>8. Resting'
  BY <1>2, <1>5, <1>6, RestingStays
<1>9. LiveCount'
  BY <1>2, <1>6 DEF LiveCount
<1>10. Mem(mem', live', Kept') /\ Rest(mem', Ops)
  BY <1>2, <1>7 DEF o
<1> QED BY <1>7, <1>8, <1>9, <1>10, MemWillBe

\* A free slot.
LEMMA FreeSlot ==
  ASSUME FreeOps # {}
  PROVE  Slot(FreeOps) \in Ops /\ mem.op[Slot(FreeOps)].refs = 0
BY SlotIn DEF FreeOps

\* The instance of an open handle is live.
LEMMA OpenLive ==
  ASSUME OpsInv, MemInv, NEW i \in Insts, mem.inst[i].refs # 0, ~mem.inst[i].closing
  PROVE  live # {}
BY MemFacts, InstThere

\* hs_submit_async.
LEMMA SubmitMem ==
  ASSUME Before, NEW t, NEW i \in Insts, hs_submit_async(t, i)
  PROVE  MemInv'
<1>0. OpsInv /\ MemInv
  BY DEF Before
<1>1. i \in Kept /\ ~mem.inst[i].closing /\ FreeOps # {} /\ mem.retained + (OpCost + InputCost) <= Total
      /\ Accept(t, "submit", i, None, InputCost, mem)
  BY <1>0, KeptIs DEF hs_submit_async, Submittable, Accept, Business, Fits
<1> DEFINE o == Slot(FreeOps)
           m2 == new_op(mem, "submit", i, None, o, InputCost)
<1>2. o \in Ops /\ mem.op[o].refs = 0 /\ InputCost \in Nat /\ OpCost \in Nat
  BY <1>1, FreeSlot, BridgeAssumption
<1>3. RecordCost("submit") = OpCost /\ "submit" \in Kinds /\ None \in Resps \cup {None}
  BY DEF RecordCost, Business, Kinds
<1> HIDE DEF o
<1>4. Mem(mem, live, Kept) /\ None \notin Kept /\ Rest(mem, Ops) /\ mem.retained \in Nat /\ IsHeap(mem)
      /\ mem.inst \in [Insts -> InstRecords] /\ mem.op \in [Ops -> OpRecords]
  BY <1>0, MemFacts
<1>5. Mem(m2, live, Kept)
  BY <1>1, <1>2, <1>4, MemSubmit
<1>6. mem.retained + RecordCost("submit") + InputCost <= Total
  BY <1>1, <1>2, <1>3, <1>4
<1>7. Rest(m2, Ops)
  BY <1>2, <1>3, <1>4, <1>6, NewRest
<1>8. live # {}
  <2>1. mem.inst[i].refs # 0
    BY <1>1, <1>4, InstThere
  <2> QED BY <1>0, <1>1, <2>1, OpenLive
<1>9. Heap(mem, mem.op)
  BY <1>0, OpsFacts
<1> QED BY <1>1, <1>2, <1>3, <1>5, <1>7, <1>8, <1>9, AcceptMem DEF o

\* hs_engine_close_async and hs_server_stop_async.
LEMMA CloseMem ==
  ASSUME Before, NEW t, NEW i \in Insts, close_async(t, i)
  PROVE  MemInv'
<1> DEFINE m == [mem EXCEPT !.inst[i].closing = TRUE]
           o == Slot(FreeOps)
           m2 == new_op(m, "close", i, None, o, 0)
<1>0. OpsInv /\ MemInv
  BY DEF Before
<1>1. i \in Kept /\ ~mem.inst[i].closing /\ FreeOps # {}
      /\ Accept(t, "close", i, None, 0, m)
  BY <1>0, KeptIs DEF close_async, Accept
<1>2. o \in Ops /\ mem.op[o].refs = 0
  BY <1>1, FreeSlot
<1>3. RecordCost("close") = 0 /\ "close" \in Kinds /\ None \in Resps \cup {None}
  BY DEF RecordCost, Business, Kinds
<1> HIDE DEF o
<1>4. Mem(mem, live, Kept) /\ None \notin Kept /\ Rest(mem, Ops) /\ mem.retained \in Nat /\ IsHeap(mem)
      /\ mem.inst \in [Insts -> InstRecords] /\ mem.op \in [Ops -> OpRecords] /\ mem.retained <= Total
  BY <1>0, MemFacts DEF Rest, Bound
<1>5. Mem(m2, live, Kept)
  BY <1>1, <1>2, <1>4, MemClose
<1>6. IsHeap(m) /\ m.op = mem.op /\ m.resp = mem.resp /\ m.retained = mem.retained
      /\ m.inst \in [Insts -> InstRecords]
  <2>1. \A q \in InstRecords : [q EXCEPT !.closing = TRUE] \in InstRecords
    BY DEF InstRecords
  <2>2. m.inst = [mem.inst EXCEPT ![i] = [@ EXCEPT !.closing = TRUE]]
    BY <1>4 DEF IsHeap
  <2>3. m.inst \in [Insts -> InstRecords]
    BY <1>4, <2>1, <2>2
  <2> QED BY <1>4, <2>3 DEF IsHeap
<1> HIDE DEF m
<1>7. Rest(m, Ops) /\ m.op \in [Ops -> OpRecords] /\ m.retained \in Nat
  BY <1>4, <1>6 DEF Rest, Idles, Bound
<1>8. m.retained + RecordCost("close") + 0 <= Total
  BY <1>3, <1>4, <1>6, BridgeAssumption
<1>9. Rest(m2, Ops)
  BY <1>2, <1>3, <1>6, <1>7, <1>8, NewRest
<1>10. live # {}
  <2>1. mem.inst[i].refs # 0
    BY <1>1, <1>4, InstThere
  <2> QED BY <1>0, <1>1, <2>1, OpenLive
<1>11. Heap(m, mem.op)
  BY <1>0, <1>6, OpsFacts DEF Heap
<1> QED BY <1>1, <1>2, <1>3, <1>5, <1>9, <1>10, <1>11, AcceptMem DEF o

\* hs_response_read_async.
LEMMA ReadMem ==
  ASSUME Before, NEW t, NEW r \in Resps, hs_response_read_async(t, r)
  PROVE  MemInv'
<1> DEFINE m == [mem EXCEPT !.resp[r].refs = @ + 1, !.resp[r].reading = TRUE]
           i == mem.resp[r].inst
           o == Slot(FreeOps)
           m2 == new_op(m, "read", i, r, o, 0)
<1>0. OpsInv /\ MemInv
  BY DEF Before
<1>1. r \in Kept /\ ~mem.inst[i].closing /\ FreeOps # {} /\ ~mem.resp[r].reading
      /\ mem.retained + OpCost <= Total /\ Accept(t, "read", i, r, 0, m)
  <2>1. r \in owned /\ ~mem.inst[i].closing /\ ~mem.resp[r].reading /\ Accept(t, "read", i, r, 0, m)
    BY DEF hs_response_read_async
  <2>2. IsHeap(mem) /\ OpCost \in Nat /\ mem.retained \in Nat
    BY <1>0, MemFacts, BridgeAssumption
  <2>3. m.retained = mem.retained
    BY <2>2 DEF IsHeap
  <2> HIDE DEF m
  <2>4. FreeOps # {} /\ m.retained + (OpCost + 0) <= Total
    BY <2>1 DEF Accept, Fits, Business
  <2>5. mem.retained + OpCost <= Total
    BY <2>2, <2>3, <2>4
  <2> QED BY <1>0, <2>1, <2>4, <2>5, KeptIs
<1>2. o \in Ops /\ mem.op[o].refs = 0
  BY <1>1, FreeSlot
<1> HIDE DEF o
<1>4. Mem(mem, live, Kept) /\ None \notin Kept /\ Rest(mem, Ops) /\ IsHeap(mem)
      /\ mem.resp \in [Resps -> RespRecords]
  BY <1>0, MemFacts
<1>5. Mem(m2, live, Kept) /\ Rest(m2, Ops)
  BY <1>1, <1>2, <1>4, MemRead, Zenon
<1>6. i \in Insts /\ mem.inst[i].refs # 0
  BY <1>1, <1>4, RespThere, InstThere
<1>7. Heap(m, mem.op)
  <2> DEFINE q == [mem.resp[r] EXCEPT !.refs = @ + 1, !.reading = TRUE]
  <2>1. q \in RespRecords
    <3>1. \A k \in RespRecords : \A n \in Nat : [k EXCEPT !.refs = n, !.reading = TRUE] \in RespRecords
      BY DEF RespRecords
    <3>2. mem.resp[r] \in RespRecords /\ mem.resp[r].refs + 1 \in Nat
      BY <1>4 DEF RespRecords
    <3> QED BY <3>1, <3>2, Zenon
  <2>2. m.resp = [mem.resp EXCEPT ![r] = q] /\ m.op = mem.op /\ IsHeap(m)
    BY <1>4 DEF IsHeap
  <2> HIDE DEF q
  <2>3. m.resp \in [Resps -> RespRecords]
    BY <1>4, <2>1, <2>2
  <2> QED BY <2>2, <2>3, HeapOf
<1>8. live # {}
  BY <1>0, <1>1, <1>6, OpenLive
<1>9. "read" \in Kinds /\ r \in Resps \cup {None} /\ 0 \in Nat
  BY DEF Kinds, Business
<1> HIDE DEF m, i
<1> QED BY <1>1, <1>5, <1>6, <1>7, <1>8, <1>9, AcceptMem DEF o

\* A step of a host that starts nothing and queues nothing, or queues beside a live instance.
LEMMA HostStep ==
  ASSUME Before, UNCHANGED <<owner, notifier, notices, live, instances>>, UNCHANGED commands \/ live # {},
         InstsHeld', Mem(mem', live, Kept'), Rest(mem', Ops),
         \A p \in Ops : mem'.op[p].stage \in TaskStages => mem.op[p].stage \in TaskStages
  PROVE  MemInv'
<1>1. Resting /\ LiveCount
  BY DEF Before, MemInv
<1>2. Resting'
  BY <1>1, RestingStays
<1>3. LiveCount'
  BY <1>1 DEF LiveCount
<1> QED BY <1>2, <1>3, MemWillBe

\* A submission that is abandoned.
LEMMA AbandonMem ==
  ASSUME Before, NEW t, NEW i \in Insts, hs_submit_abandons(t, i)
  PROVE  MemInv'
<1> DEFINE o == Slot(FreeOps)
           m == new_op(mem, "submit", i, None, o, 0)
           k == NewRecord("submit", i, None, 0)
<1>0. OpsInv /\ MemInv /\ OpsInv'
  BY DEF Before
<1>1. i \in Kept /\ FreeOps # {} /\ mem.retained + OpCost <= Total /\ mem' = abandon(m, o)
      /\ UNCHANGED <<owner, notifier, notices, commands, live, instances, call, owned>>
  BY <1>0, KeptIs DEF hs_submit_abandons, Submittable, Fits, noteVars, loopVars, counters, queues, hostVars
<1>2. o \in Ops /\ mem.op[o].refs = 0 /\ 0 \in Nat /\ OpCost \in Nat
  BY <1>1, FreeSlot, BridgeAssumption
<1>3. RecordCost("submit") = OpCost /\ "submit" \in Kinds /\ None \in Resps \cup {None}
  BY DEF RecordCost, Business, Kinds
<1> HIDE DEF o
<1>4. Mem(mem, live, Kept) /\ None \notin Kept /\ Rest(mem, Ops) /\ mem.retained \in Nat /\ IsHeap(mem)
      /\ mem.inst \in [Insts -> InstRecords] /\ mem.op \in [Ops -> OpRecords] /\ InstsHeld
  BY <1>0, MemFacts
<1>5. Mem(m, live, Kept)
  BY <1>1, <1>2, <1>4, MemSubmit
<1>6. mem.retained + RecordCost("submit") + 0 <= Total
  BY <1>1, <1>2, <1>3, <1>4
<1>7. Rest(m, Ops)
  BY <1>2, <1>3, <1>4, <1>6, NewRest
<1>8. Heap(m, [mem.op EXCEPT ![o] = k])
  BY <1>0, OpsFacts, NewOp
<1>9. k.stage = "queued" /\ k.kind = "submit" /\ k.event = None
  <2>1. k.stage = "queued"
    BY <1>3, <1>2, NewTypes
  <2>2. \A a, b : LET x == [NoOp EXCEPT !.refs = a, !.kind = "submit", !.stage = "queued", !.inst = i,
                                       !.resp = None, !.charge = b]
                  IN x.kind = "submit" /\ x.event = None
    BY DEF NoOp
  <2> QED BY <2>1, <2>2 DEF NewRecord
<1> HIDE DEF k, m
<1>10. m.op[o] = k /\ \A p \in Ops : p # o => m.op[p] = mem.op[p]
  BY <1>2, <1>4, <1>8 DEF Heap
<1>11. LET m2 == abandon(m, o)
       IN Mem(m2, live, Kept) /\ Rest(m2, Ops)
            /\ m2.op[o] = NoOp /\ \A p \in Ops : p # o => m2.op[p] = m.op[p]
  <2>1. m.op[o].stage = "queued" /\ m.op[o].kind = "submit" /\ m.op[o].event = None
    BY <1>9, <1>10
  <2> QED BY <1>2, <1>4, <1>5, <1>7, <2>1, MemAbandon
<1>12. Mem(mem', live, Kept) /\ Rest(mem', Ops) /\ mem'.op[o] = NoOp
       /\ \A p \in Ops : p # o => mem'.op[p] = mem.op[p]
  BY <1>1, <1>10, <1>11
<1>13. Kept' = Kept /\ InstsHeld'
  BY <1>0, <1>1, <1>4, GivesNone, KeptSame
<1>14. \A p \in Ops : mem'.op[p].stage \in TaskStages => mem.op[p].stage \in TaskStages
  BY <1>12 DEF NoOp, TaskStages
<1> QED BY <1>1, <1>12, <1>13, <1>14, HostStep

\* hs_response_release.
LEMMA ResponseMem ==
  ASSUME Before, NEW t, NEW r \in Resps, hs_response_release(t, r)
  PROVE  MemInv'
<1> DEFINE i == mem.resp[r].inst
           o == Slot(FreeOps)
           m == [mem EXCEPT !.resp[r].released = TRUE]
           m3 == new_op([m EXCEPT !.resp[r].refs = @ + 1], "drop", i, r, o, 0)
           k == NewRecord("drop", i, r, 0)
<1>0. OpsInv /\ MemInv /\ OpsInv'
  BY DEF Before
<1>1. /\ UNCHANGED <<owner, notifier, notices, live, instances, call>> /\ owned' = owned \ {r} /\ r \in owned
      /\ \/ ~mem.inst[i].closing /\ FreeOps # {} /\ mem' = response_drop(m3, r)
         \/ mem' = response_drop(m, r) /\ UNCHANGED commands
  BY DEF hs_response_release, noteVars, loopVars
<1>2. Mem(mem, live, Kept) /\ None \notin Kept /\ Rest(mem, Ops) /\ InstsHeld /\ mem.op \in [Ops -> OpRecords]
  BY <1>0, MemFacts
<1>3. r \in Kept /\ Kept' = Kept \ {r} /\ InstsHeld'
  BY <1>0, <1>1, <1>2, KeptReleases
<1>4. CASE mem' = response_drop(m, r) /\ UNCHANGED commands
  <2>1. LET m2 == response_drop([mem EXCEPT !.resp[r].released = TRUE], r)
        IN Mem(m2, live, Kept \ {r}) /\ Rest(m2, Ops) /\ m2.op = mem.op
    BY <1>2, <1>3, MemRelease
  <2>2. Mem(mem', live, Kept') /\ Rest(mem', Ops) /\ mem'.op = mem.op
    BY <1>3, <1>4, <2>1
  <2> QED BY <1>1, <1>3, <1>4, <2>2, HostStep
<1>5. CASE ~mem.inst[i].closing /\ FreeOps # {} /\ mem' = response_drop(m3, r)
  <2>1. o \in Ops /\ mem.op[o].refs = 0
    BY <1>5, FreeSlot
  <2>2. i \in Insts /\ mem.inst[i].refs # 0
    BY <1>2, <1>3, RespThere, InstThere
  <2>3. live # {}
    BY <1>0, <1>5, <2>2, OpenLive
  <2>4. k.stage = "queued"
    BY <2>2, NewTypes DEF Kinds
  <2>5. mem' = ReleasedWith(mem, r, o)
    BY <1>5 DEF ReleasedWith
  <2> HIDE DEF o, m, m3
  <2>6. Mem(mem', live, Kept') /\ Rest(mem', Ops) /\ mem'.op = [mem.op EXCEPT ![o] = k]
    <3>1. /\ Mem(ReleasedWith(mem, r, o), live, Kept \ {r}) /\ Rest(ReleasedWith(mem, r, o), Ops)
          /\ ReleasedWith(mem, r, o).op = [mem.op EXCEPT ![o] = NewRecord("drop", mem.resp[r].inst, r, 0)]
      BY <1>2, <1>3, <2>1, MemReleaseOp
    <3> QED BY <1>3, <2>5, <3>1
  <2> HIDE DEF k
  <2>7. \A p \in Ops : mem'.op[p].stage \in TaskStages => mem.op[p].stage \in TaskStages
    BY <1>2, <2>1, <2>4, <2>6 DEF TaskStages
  <2> QED BY <1>1, <1>3, <2>3, <2>6, <2>7, HostStep
<1> QED BY <1>1, <1>4, <1>5

\* hs_chunk_release.
LEMMA ChunkMem ==
  ASSUME Before, NEW t, NEW c \in Chunks, hs_chunk_release(t, c)
  PROVE  MemInv'
<1> DEFINE i == mem.chunk[c].inst
           r == mem.chunk[c].resp
           m1 == [uncharge(mem, i, ChunkCost) EXCEPT !.resp[r].chunks = @ - 1, !.chunk[c] = NoChunk]
<1>0. OpsInv /\ MemInv /\ OpsInv'
  BY DEF Before
<1>1. /\ UNCHANGED <<owner, notifier, notices, commands, live, instances, call>> /\ owned' = owned \ {c}
      /\ c \in owned /\ mem' = instance_drop(response_drop(m1, r), i)
  BY DEF hs_chunk_release, noteVars, loopVars, counters, queues
<1>2. Mem(mem, live, Kept) /\ None \notin Kept /\ Rest(mem, Ops) /\ InstsHeld
  BY <1>0, MemFacts
<1>3. c \in Kept /\ Kept' = Kept \ {c} /\ InstsHeld'
  BY <1>0, <1>1, <1>2, KeptReleases
<1>4. LET m3 == instance_drop(response_drop(m1, r), i)
      IN Mem(m3, live, Kept \ {c}) /\ Rest(m3, Ops) /\ m3.op = mem.op
  BY <1>2, <1>3, MemChunkRelease, Zenon
<1> HIDE DEF m1
<1>5. Mem(mem', live, Kept') /\ Rest(mem', Ops) /\ mem'.op = mem.op
  BY <1>1, <1>3, <1>4
<1> QED BY <1>1, <1>3, <1>5, HostStep

\* hs_operation_cancel.
LEMMA CancelMem ==
  ASSUME Before, NEW t, NEW o \in Ops, hs_operation_cancel(t, o)
  PROVE  MemInv'
<1>0. OpsInv /\ MemInv /\ OpsInv'
  BY DEF Before
<1>1. /\ UNCHANGED <<owner, notifier, notices, commands, live, instances, call, owned>>
      /\ o \in owned /\ mem' = [mem EXCEPT !.op[o].cancelled = TRUE]
  BY DEF hs_operation_cancel, noteVars, loopVars, counters, queues, hostVars
<1>2. Mem(mem, live, Kept) /\ None \notin Kept /\ Rest(mem, Ops) /\ InstsHeld /\ mem.op \in [Ops -> OpRecords]
      /\ IsHeap(mem)
  BY <1>0, MemFacts
<1>3. mem.op[o] # NoOp
  <2>1. HostHolds(o)
    BY <1>1 DEF HostHolds
  <2>2. mem.op[o].stage # "none"
    BY <1>0, <2>1 DEF OpsInv, OpRefs, OpExact
  <2> QED BY <2>2 DEF NoOp
<1>4. Kept' = Kept /\ InstsHeld'
  BY <1>0, <1>1, <1>2, GivesNone, KeptSame
<1>5. LET m2 == [mem EXCEPT !.op[o].cancelled = TRUE]
      IN Mem(m2, live, Kept) /\ Rest(m2, Ops)
  BY <1>2, <1>3, MemCancelled
<1>6. Mem(mem', live, Kept') /\ Rest(mem', Ops)
  BY <1>1, <1>4, <1>5
<1>7. mem'.op = [mem.op EXCEPT ![o].cancelled = TRUE]
  BY <1>1, <1>2 DEF IsHeap
<1>8. \A p \in Ops : mem'.op[p].stage = mem.op[p].stage
  BY <1>2, <1>7 DEF OpRecords
<1> QED BY <1>1, <1>4, <1>6, <1>8, HostStep

\* create_async, once admitted, at rest or beside a running runtime.
LEMMA CreateRests ==
  ASSUME ThreadInv, Resting, NEW t, NEW kind, NEW st, NEW wt, CreateBody(t, kind, st, wt),
         \/ st = state /\ state < 3
         \/ st = 0 /\ notifier = "exit",
         \A o \in Ops : mem'.op[o].stage \in TaskStages => mem.op[o].stage \in TaskStages
  PROVE  UNCHANGED <<live, commands>> \/ RuntimeRuns(st) => Resting'
<1>1. UNCHANGED notices
  BY DEF CreateBody
<1>2. CASE RuntimeRuns(st)
  <2>1. CASE st = 0
    <3>1. owner = "none" /\ owner' = "boot" /\ notifier' = "loop"
      BY <1>2, <2>1 DEF RuntimeRuns, ThreadInv, ThreadsAgree
    <3> QED BY <3>1 DEF Resting, Tasks
  <2>2. CASE st # 0
    <3>1. owner' = owner /\ notifier' = notifier /\ st \in {1, 2} /\ st = state
      BY <1>2, <2>2 DEF RuntimeRuns
    <3>2. owner \notin {"none", "leaving", "exit"} /\ notifier \in {"loop", "callback"}
      BY <3>1 DEF ThreadInv, ThreadsAgree
    <3> QED BY <3>1, <3>2 DEF Resting, Tasks
  <2> QED BY <2>1, <2>2
<1>3. CASE RuntimeFails(st, wt) /\ UNCHANGED <<live, commands>>
  <2>1. owner' = owner /\ notifier \in {"none", "exit"} /\ notifier' \in {"none", "loop"}
    BY <1>3 DEF RuntimeFails, ThreadInv, ThreadsAgree
  <2> QED BY <1>1, <1>3, <2>1 DEF Resting, Tasks
<1>4. RuntimeRuns(st) \/ RuntimeFails(st, wt)
  BY DEF CreateBody
<1> QED BY <1>2, <1>3, <1>4

\* create_async and start_async: the body of both.
LEMMA CreateMem ==
  ASSUME Before, NEW t \in Callers, NEW kind \in {"create", "start"}, NEW st, NEW wt,
         CreateBody(t, kind, st, wt), t \in Hosts => call[t].at \notin HoldAt,
         \/ st = state /\ state < 3
         \/ st = 0 /\ notifier = "exit"
  PROVE  MemInv'
<1> DEFINE i == Slot(FreeInsts)
           o == Slot(FreeOps)
           m == [mem EXCEPT !.inst[i].refs = 1, !.inst[i].server = (kind = "start")]
           k == NewRecord(kind, i, None, InputCost)
<1>0. OpsInv /\ MemInv /\ OpsInv' /\ ThreadInv
  BY DEF Before
<1>1. Mem(mem, live, Kept) /\ None \notin Kept /\ Rest(mem, Ops) /\ InstsHeld /\ Resting /\ IsFiniteSet(live)
      /\ IsHeap(mem) /\ mem.op \in [Ops -> OpRecords] /\ mem.inst \in [Insts -> InstRecords]
      /\ mem.resp \in [Resps -> RespRecords] /\ mem.retained \in Nat
  BY <1>0, MemFacts
<1>2. \A h \in Hosts : InstHeld(h)' = InstHeld(h)
  BY <1>0, BridgeAssumption DEF CreateBody, Return, Idle, InstHeld, ThreadInv, CallTypeOK, HoldAt, Handles
<1>3. CASE UNCHANGED <<mem, counters, commands, owned>>
  <2>1. SameInsts
    BY <1>2, <1>3 DEF SameInsts
  <2>2. Kept' = Kept /\ InstsHeld'
    BY <1>0, <1>1, <2>1, KeptSame
  <2>3. Mem(mem', live', Kept') /\ Rest(mem', Ops)
    BY <1>1, <1>3, <2>2 DEF counters
  <2>4. Resting'
    BY <1>0, <1>1, <1>3, CreateRests DEF counters
  <2>5. LiveCount'
    BY <1>0, <1>3 DEF MemInv, LiveCount, counters
  <2> QED BY <2>2, <2>3, <2>4, <2>5, MemWillBe
<1>4. CASE /\ FreeInsts # {} /\ FreeOps # {} /\ mem.retained + OpCost + InputCost <= Total
           /\ mem' = new_op(m, kind, i, None, o, InputCost) /\ RuntimeRuns(st)
           /\ live' = live \cup {i} /\ instances' = instances + 1 /\ owned' = owned \cup {o}
  <2>1. o \in Ops /\ mem.op[o].refs = 0 /\ i \in Insts /\ mem.inst[i].refs = 0
    BY <1>4, FreeSlot, SlotIn DEF FreeInsts
  <2>2. InputCost \in Nat /\ OpCost \in Nat /\ kind \in Kinds /\ kind \in Creates /\ None \in Resps \cup {None}
        /\ RecordCost(kind) = OpCost /\ (kind = "start") \in BOOLEAN
    BY BridgeAssumption DEF Kinds, Business, Creates, RecordCost
  <2> HIDE DEF o, i
  <2>3. Mem(mem', live', Kept)
    <3>1. \A b \in BOOLEAN :
            Mem(new_op([mem EXCEPT !.inst[i].refs = 1, !.inst[i].server = b], kind, i, None, o, InputCost),
                live \cup {i}, Kept)
      BY <1>1, <2>1, <2>2, MemCreate, Zenon
    <3> QED BY <1>4, <2>2, <3>1, Zenon
  <2>4. IsHeap(m) /\ m.op = mem.op /\ m.resp = mem.resp /\ m.retained = mem.retained
        /\ m.inst \in [Insts -> InstRecords]
    <3> DEFINE p == [mem.inst[i] EXCEPT !.refs = 1, !.server = (kind = "start")]
    <3>1. \A q \in InstRecords : \A b \in BOOLEAN : [q EXCEPT !.refs = 1, !.server = b] \in InstRecords
      BY DEF InstRecords
    <3>2. p \in InstRecords
      BY <1>1, <2>1, <2>2, <3>1, Zenon
    <3>3. m.inst = [mem.inst EXCEPT ![i] = p]
      BY <1>1, <2>1 DEF IsHeap
    <3> HIDE DEF p
    <3>4. m.inst \in [Insts -> InstRecords]
      <4> HIDE DEF m
      <4> QED BY <1>1, <3>2, <3>3
    <3> QED BY <1>1, <3>4 DEF IsHeap
  <2> HIDE DEF m
  <2>5. Rest(m, Ops)
    BY <1>1, <2>4 DEF Rest, Idles, Bound
  <2>6. m.retained + RecordCost(kind) + InputCost <= Total /\ m.retained \in Nat /\ m.op \in [Ops -> OpRecords]
    BY <1>1, <1>4, <2>2, <2>4
  <2>7. Rest(mem', Ops)
    BY <1>4, <2>1, <2>2, <2>4, <2>5, <2>6, NewRest
  <2>8. Heap(mem', [mem.op EXCEPT ![o] = k])
    <3>1. Heap(m, mem.op)
      BY <1>1, <2>4, HeapOf
    <3> QED BY <1>4, <3>1, NewOp
  <2>9. k.stage = "queued"
    BY <2>1, <2>2, NewTypes
  <2> HIDE DEF k
  <2>10. \A p \in Ops : mem'.op[p].stage \in TaskStages => mem.op[p].stage \in TaskStages
    BY <1>1, <2>1, <2>8, <2>9 DEF Heap, TaskStages
  <2>11. SameInsts
    BY <1>2, <1>4, <2>1, BridgeAssumption DEF SameInsts
  <2>12. Kept' = Kept /\ InstsHeld'
    BY <1>0, <1>1, <2>11, KeptSame
  <2>13. Resting'
    BY <1>0, <1>1, <1>4, <2>10, CreateRests
  <2>14. LiveCount'
    <3>1. i \notin live
      BY <1>1, <2>1, InstThere
    <3>2. LiveCount
      BY <1>0 DEF MemInv
    <3> QED BY <1>1, <1>4, <2>1, <3>1, <3>2, LiveMore
  <2>15. Mem(mem', live', Kept')
    BY <2>3, <2>12
  <2> QED BY <2>7, <2>12, <2>13, <2>14, <2>15, MemWillBe
<1> HIDE DEF m
<1>5. \/ UNCHANGED <<mem, counters, commands, owned>>
      \/ /\ FreeInsts # {} /\ FreeOps # {} /\ mem.retained + OpCost + InputCost <= Total
         /\ mem' = new_op([mem EXCEPT !.inst[i].refs = 1, !.inst[i].server = (kind = "start")],
                          kind, i, None, o, InputCost)
         /\ RuntimeRuns(st) /\ live' = live \cup {i} /\ instances' = instances + 1 /\ owned' = owned \cup {o}
  BY DEF CreateBody
<1> QED BY <1>3, <1>4, <1>5 DEF m

\* A release gives back an instance, or an operation.
LEMMA DropMem ==
  ASSUME OpsInv, MemInv, NEW x \in Insts \cup Ops, HostHolds(x)
  PROVE  /\ Mem(drop(mem, x), live, Kept \ {x}) /\ Rest(drop(mem, x), Ops)
         /\ \A p \in Ops : drop(mem, x).op[p].stage \in TaskStages => mem.op[p].stage \in TaskStages
<1>1. Mem(mem, live, Kept) /\ None \notin Kept /\ Rest(mem, Ops) /\ mem.op \in [Ops -> OpRecords]
  BY MemFacts
<1>2. CASE x \in Insts
  <2>1. x \in Kept
    BY <1>2 DEF Kept
  <2>2. LET m2 == instance_drop(mem, x)
        IN Mem(m2, live, Kept \ {x}) /\ Rest(m2, Ops) /\ m2.op = mem.op
    BY <1>1, <1>2, <2>1, MemInstRelease
  <2> QED BY <1>2, <2>2 DEF drop
<1>3. CASE x \notin Insts
  <2>1. x \in Ops
    BY <1>3
  <2>2. mem.op[x].refs \in {1, 2} /\ (mem.op[x].refs = 1 => mem.op[x].stage = "returned")
    <3>1. OpExact(x)
      BY <2>1 DEF OpsInv, OpRefs
    <3> QED BY <3>1 DEF OpExact, One, InPipe
  <2>3. LET m2 == op_drop(mem, x)
        IN Mem(m2, live, Kept) /\ Rest(m2, Ops) /\ m2.op = Fewer(mem.op, x)
    BY <1>1, <2>1, <2>2, MemOpRelease
  <2>4. Kept \ {x} = Kept
    BY <2>1, BridgeAssumption DEF Kept
  <2>5. \A p \in Ops : Fewer(mem.op, x)[p].stage \in TaskStages => mem.op[p].stage \in TaskStages
    <3>1. CASE mem.op[x].refs = 1
      BY <1>1, <2>1, <3>1 DEF Fewer, NoOp, TaskStages
    <3>2. CASE mem.op[x].refs # 1
      <4>1. Fewer(mem.op, x) = [mem.op EXCEPT ![x].refs = @ - 1]
        BY <3>2 DEF Fewer
      <4>2. \A p \in Ops : Fewer(mem.op, x)[p].stage = mem.op[p].stage
        BY <1>1, <2>1, <4>1 DEF OpRecords
      <4> QED BY <4>2
    <3> QED BY <3>1, <3>2
  <2> QED BY <1>3, <2>3, <2>4, <2>5 DEF drop
<1> QED BY <1>2, <1>3

\* A thread that waits keeps the host's reference,
LEMMA WaitMem ==
  ASSUME Before, NEW h \in Hosts, call[h] = Idle, NEW x \in Insts \cup Ops, x \in owned,
         NEW a \in {"barrier", "sync"}, call' = [call EXCEPT ![h] = [at |-> a, on |-> x]],
         owned' = owned \ {x}, UNCHANGED <<mem, commands, owner, notifier, notices, live, instances>>
  PROVE  MemInv'
<1>0. OpsInv /\ MemInv /\ OpsInv' /\ CallTypeOK
  BY DEF Before, ThreadInv
<1>1. Mem(mem, live, Kept) /\ Rest(mem, Ops) /\ InstsHeld
  BY <1>0, MemFacts
<1>2. /\ \A g \in Hosts : g # h => InstHeld(g)' = InstHeld(g)
      /\ InstHeld(h)' = (IF x \in Insts THEN x ELSE None) /\ InstHeld(h) = None
  BY <1>0 DEF InstHeld, CallTypeOK, HoldAt, Idle
<1>3. None # x /\ None \notin owned /\ None \notin Insts
  BY <1>0, BridgeAssumption DEF Handles, OpsInv, OpTypes
<1>4. \A g \in Hosts : InstHeld(g) # x
  BY <1>1 DEF InstsHeld
<1>5. InstsHeld'
  BY <1>1, <1>2, <1>3, <1>4 DEF InstsHeld
<1>6. \A y : y \in Kept' <=> y \in Kept
  <2>1. \A y : y \in Kept \/ y \in Kept' => y \in Insts \cup Resps \cup Chunks
    BY DEF Kept
  <2>2. ASSUME NEW y \in Insts PROVE y \in Kept' <=> y \in Kept
    <3>1. CASE y = x
      <4>1. y \in Kept /\ InstHeld(h)' = y
        BY <1>0, <1>2, <3>1, KeptIs
      <4> QED BY <1>0, <4>1, KeptWillBe
    <3>2. CASE y # x
      <4>1. \A g \in Hosts : InstHeld(g)' = y <=> InstHeld(g) = y
        BY <1>2, <1>3, <3>2
      <4> QED BY <1>0, <3>2, <4>1, KeptIs, KeptWillBe
    <3> QED BY <3>1, <3>2
  <2>3. \A y \in Resps \cup Chunks : y \in Kept' <=> y \in Kept
    BY <1>0, KeptIs, KeptWillBe, BridgeAssumption
  <2> QED BY <2>1, <2>2, <2>3
<1>7. Mem(mem', live, Kept') /\ Rest(mem', Ops)
  <2>1. Kept' = Kept
    BY <1>6
  <2> QED BY <1>1, <2>1
<1> QED BY <1>5, <1>7, HostStep
\* and gives it back in the end.
LEMMA HolderMem ==
  ASSUME Before, NEW h \in Hosts, call[h].at \in HoldAt, mem' = drop(mem, call[h].on), Return(h),
         UNCHANGED <<owned, commands, owner, notices, live, instances>>,
         notifier' = notifier \/ (notifier = "exit" /\ notifier' = "none")
  PROVE  MemInv'
<1>0. OpsInv /\ MemInv /\ OpsInv' /\ CallTypeOK
  BY DEF Before, ThreadInv
<1>1. PICK x \in Insts \cup Ops : x = call[h].on
  BY <1>0, OpsFacts DEF Subject
<1>2. HostHolds(x)
  BY <1>1 DEF HostHolds, HoldAt
<1>3. /\ Mem(mem', live, Kept \ {x}) /\ Rest(mem', Ops)
      /\ \A p \in Ops : mem'.op[p].stage \in TaskStages => mem.op[p].stage \in TaskStages
  BY <1>0, <1>1, <1>2, DropMem
<1>4. /\ \A g \in Hosts : g # h => InstHeld(g)' = InstHeld(g)
      /\ InstHeld(h)' = None /\ InstHeld(h) = (IF x \in Insts THEN x ELSE None)
  BY <1>0, <1>1 DEF InstHeld, CallTypeOK, HoldAt, Idle, Return
<1>5. InstsHeld /\ Resting /\ LiveCount
  BY <1>0 DEF MemInv
<1>6. Kept' = Kept \ {x} /\ InstsHeld'
  <2>1. CASE x \in Insts
    BY <1>0, <1>4, <1>5, <2>1, KeptDrops
  <2>2. CASE x \notin Insts
    <3>1. Kept \ {x} = Kept
      BY <2>2, BridgeAssumption DEF Kept
    <3>2. SameInsts
      BY <1>4, <2>2 DEF SameInsts
    <3> QED BY <1>0, <1>5, <3>1, <3>2, KeptSame
  <2> QED BY <2>1, <2>2
<1>7. Resting'
  BY <1>3, <1>5 DEF Resting, Tasks
<1>8. LiveCount'
  BY <1>5 DEF LiveCount
<1>9. Mem(mem', live', Kept')
  BY <1>3, <1>6
<1> QED BY <1>3, <1>6, <1>7, <1>8, <1>9, MemWillBe

\* A release at once.
LEMMA OwnerMem ==
  ASSUME Before, NEW x \in Insts \cup Ops, x \in owned, owned' = owned \ {x}, mem' = drop(mem, x),
         UNCHANGED <<call, commands, owner, notifier, notices, live, instances>>
  PROVE  MemInv'
<1>0. OpsInv /\ MemInv /\ OpsInv'
  BY DEF Before
<1>1. HostHolds(x)
  BY DEF HostHolds
<1>2. /\ Mem(mem', live, Kept \ {x}) /\ Rest(mem', Ops)
      /\ \A p \in Ops : mem'.op[p].stage \in TaskStages => mem.op[p].stage \in TaskStages
  BY <1>0, <1>1, DropMem
<1>3. InstsHeld
  BY <1>0 DEF MemInv
<1>4. Kept' = Kept \ {x} /\ InstsHeld'
  <2>1. CASE x \in Insts
    BY <1>0, <1>3, <2>1, KeptReleases
  <2>2. CASE x \notin Insts
    <3>1. Kept \ {x} = Kept
      BY <2>2, BridgeAssumption DEF Kept
    <3>2. SameInsts
      BY <2>2, BridgeAssumption DEF SameInsts, InstHeld
    <3> QED BY <1>0, <1>3, <3>1, <3>2, KeptSame
  <2> QED BY <2>1, <2>2
<1>5. Mem(mem', live, Kept')
  BY <1>2, <1>4
<1> QED BY <1>2, <1>4, <1>5, HostStep

\* A step that only moves threads between their places in a call.
LEMMA MovesMem ==
  ASSUME Before, UNCHANGED <<mem, owned, commands, owner, notifier, notices, live, instances>>,
         \A h \in Hosts : InstHeld(h)' = InstHeld(h)
  PROVE  MemInv'
<1>0. OpsInv /\ MemInv /\ OpsInv'
  BY DEF Before
<1>1. Mem(mem, live, Kept) /\ Rest(mem, Ops) /\ InstsHeld
  BY <1>0, MemFacts
<1>2. SameInsts
  BY DEF SameInsts
<1>3. Kept' = Kept /\ InstsHeld'
  BY <1>0, <1>1, <1>2, KeptSame
<1>4. Mem(mem', live, Kept') /\ Rest(mem', Ops)
  BY <1>1, <1>3
<1> QED BY <1>3, <1>4, HostStep

\* Every entry into the API.
LEMMA EnterMem ==
  ASSUME Before, NEW t \in Callers, Enter(t)
  PROVE  MemInv'
<1>0. CallTypeOK
  BY DEF Before, ThreadInv
<1>1. ASSUME NEW entry, CanCall(t, entry), t \in Hosts PROVE call[t] = Idle
  BY <1>1, BridgeAssumption DEF CanCall
<1>2. ASSUME NEW kind \in {"create", "start"}, create_async(t, kind) PROVE MemInv'
  <2>1. t \in Hosts => call[t].at \notin HoldAt
    BY <1>1, <1>2 DEF create_async, Idle, HoldAt
  <2> QED BY <1>2, <2>1, CreateMem DEF create_async
<1>3. ASSUME NEW kind \in {"create", "start"}, create_async_reaps(t, kind) PROVE MemInv'
  <2>1. t \in Hosts /\ call[t] = Idle
    BY <1>1, <1>3 DEF create_async_reaps
  <2>2. \A h \in Hosts : InstHeld(h)' = InstHeld(h)
    BY <1>0, <1>3, <2>1 DEF create_async_reaps, InstHeld, CallTypeOK, HoldAt, Idle
  <2> QED BY <1>3, <2>2, MovesMem DEF create_async_reaps, heap, counters, queues, noteVars, loopVars
<1>4. ASSUME NEW x \in Insts \cup Ops, release(t, x) PROVE MemInv'
  <2>1. /\ x \in owned /\ owned' = owned \ {x}
        /\ UNCHANGED <<commands, notices, owner, notifier, live, instances>>
    BY <1>4 DEF release, counters, queues, noteVars, loopVars
  <2>2. CASE Barred(t, x) /\ call' = [call EXCEPT ![t] = [at |-> "barrier", on |-> x]] /\ UNCHANGED mem
    <3>1. t \in Hosts /\ call[t] = Idle
      BY <1>1, <1>4, <2>2 DEF release, Barred
    <3> QED BY <2>1, <2>2, <3>1, WaitMem
  <2>3. CASE mem' = drop(mem, x) /\ UNCHANGED call
    BY <2>1, <2>3, OwnerMem
  <2> QED BY <1>4, <2>2, <2>3 DEF release
<1>5. ASSUME NEW o \in Ops, sync_waits(t, o) PROVE MemInv'
  <2>1. t \in Hosts /\ call[t] = Idle
    BY <1>1, <1>5 DEF sync_waits
  <2>2. /\ o \in owned /\ owned' = owned \ {o} /\ call' = [call EXCEPT ![t] = [at |-> "sync", on |-> o]]
        /\ UNCHANGED <<mem, commands, notices, owner, notifier, live, instances>>
    BY <1>5 DEF sync_waits, heap, counters, queues, noteVars, loopVars
  <2> QED BY <2>1, <2>2, WaitMem
<1>6. ASSUME NEW i \in Insts, stop_waits(t, i) PROVE MemInv'
  <2>1. t \in Hosts /\ call[t] = Idle
    BY <1>1, <1>6 DEF stop_waits
  <2>2. \A h \in Hosts : InstHeld(h)' = InstHeld(h)
    BY <1>0, <1>6, <2>1 DEF stop_waits, InstHeld, CallTypeOK, HoldAt, Idle
  <2> QED BY <1>6, <2>2, MovesMem DEF stop_waits, heap, counters, queues, noteVars, loopVars
<1> QED BY <1>2, <1>3, <1>4, <1>5, <1>6, SubmitMem, CloseMem, ReadMem, AbandonMem, ResponseMem, ChunkMem, CancelMem
    DEF Enter

\* A host thread goes on in its blocking call.
LEMMA ResumeMem ==
  ASSUME Before, NEW h \in Hosts, Resume(h)
  PROVE  MemInv'
<1>0. CallTypeOK /\ call[h] \in [at : Places, on : Subjects] /\ h \in Callers /\ OpsInv
  BY DEF Before, ThreadInv, CallTypeOK, Callers
<1>1. ASSUME NEW a \in Places, call' = [call EXCEPT ![h].at = a], a \in HoldAt <=> call[h].at \in HoldAt
      PROVE  \A g \in Hosts : InstHeld(g)' = InstHeld(g)
  <2>1. /\ call'[h].at = a /\ call'[h].on = call[h].on
        /\ \A g \in Hosts : g # h => call'[g] = call[g]
    BY <1>0, <1>1 DEF CallTypeOK
  <2> QED BY <1>1, <2>1 DEF InstHeld
<1>2. UNCHANGED call => \A g \in Hosts : InstHeld(g)' = InstHeld(g)
  BY DEF InstHeld
<1>3. CASE CreateResumes(h)
  <2>1. CASE state < 3 /\ CreateBody(h, call[h].on, state, waiting)
    <3>1. call[h].at \notin HoldAt
      BY <1>3 DEF CreateResumes, HoldAt
    <3>2. call[h].on \in {"create", "start"}
      BY <1>0, <1>3, OpsFacts DEF CreateResumes, Subject
    <3> QED BY <1>0, <2>1, <3>1, <3>2, CreateMem
  <2>2. CASE ReapStep(h, state)
    <3>1. UNCHANGED <<mem, owned, commands, notices, owner, notifier, live, instances>>
      BY <2>2 DEF ReapStep, heap, counters, queues, noteVars, loopVars
    <3>2. CASE call' = [call EXCEPT ![h].at = "join"]
      <4>1. "join" \in Places /\ "join" \notin HoldAt /\ call[h].at = "reap" /\ "reap" \notin HoldAt
        BY <1>3 DEF CreateResumes, HoldAt, Places
      <4> QED BY <1>1, <3>1, <3>2, <4>1, MovesMem
    <3>3. CASE UNCHANGED call
      BY <1>2, <3>1, <3>3, MovesMem
    <3> QED BY <2>2, <3>2, <3>3 DEF ReapStep
  <2> QED BY <1>3, <2>1, <2>2 DEF CreateResumes
<1>4. CASE CreateJoins(h)
  <2>1. /\ CreateBody(h, call[h].on, 0, {}) /\ notifier = "exit" /\ call[h].at \notin HoldAt
        /\ call[h].on \in {"create", "start"}
    BY <1>0, <1>4, OpsFacts DEF CreateJoins, HoldAt, Subject
  <2> QED BY <1>0, <2>1, CreateMem
<1>5. CASE release_barrier(h)
  <2>1. call[h].at = "barrier" /\ UNCHANGED <<owned, commands, notices, owner, notifier, live, instances>>
    BY <1>5 DEF release_barrier, counters, queues, noteVars, loopVars
  <2>2. CASE mem' = drop(mem, call[h].on) /\ Return(h)
    BY <2>1, <2>2, HolderMem DEF HoldAt
  <2>3. CASE call' = [call EXCEPT ![h].at = "barrier_join"] /\ UNCHANGED mem
    <3>1. "barrier_join" \in Places /\ "barrier_join" \in HoldAt /\ call[h].at \in HoldAt
      BY <2>1 DEF HoldAt, Places
    <3> QED BY <1>1, <2>1, <2>3, <3>1, MovesMem
  <2>4. CASE UNCHANGED <<mem, call>>
    BY <1>2, <2>1, <2>4, MovesMem
  <2> QED BY <1>5, <2>2, <2>3, <2>4 DEF release_barrier
<1>6. CASE barrier_joins(h)
  <2>1. /\ call[h].at \in HoldAt /\ mem' = drop(mem, call[h].on) /\ Return(h)
        /\ UNCHANGED <<owned, commands, owner, notices, live, instances>> /\ notifier = "exit" /\ notifier' = "none"
    BY <1>6 DEF barrier_joins, HoldAt, counters, queues, loopVars
  <2> QED BY <2>1, HolderMem
<1>7. CASE sync_resumes(h)
  <2>1. call[h].at = "sync" /\ UNCHANGED <<owned, commands, notices, owner, notifier, live, instances>>
    BY <1>7 DEF sync_resumes, counters, queues, noteVars, loopVars
  <2>2. CASE mem' = drop(mem, call[h].on) /\ Return(h)
    BY <2>1, <2>2, HolderMem DEF HoldAt
  <2>3. CASE call' = [call EXCEPT ![h].at = "barrier"] /\ UNCHANGED mem
    <3>1. "barrier" \in Places /\ "barrier" \in HoldAt /\ call[h].at \in HoldAt
      BY <2>1 DEF HoldAt, Places
    <3> QED BY <1>1, <2>1, <2>3, <3>1, MovesMem
  <2>4. CASE UNCHANGED <<mem, call>>
    BY <1>2, <2>1, <2>4, MovesMem
  <2> QED BY <1>7, <2>2, <2>3, <2>4 DEF sync_resumes
<1>8. CASE stop_resumes(h)
  <2>1. call[h].at = "stop" /\ UNCHANGED <<mem, owned, commands, notices, owner, notifier, live, instances>>
    BY <1>8 DEF stop_resumes, heap, counters, queues, noteVars, loopVars
  <2>2. CASE Return(h)
    <3>1. \A g \in Hosts : InstHeld(g)' = InstHeld(g)
      BY <1>0, <2>1, <2>2 DEF Return, Idle, InstHeld, CallTypeOK, HoldAt
    <3> QED BY <2>1, <3>1, MovesMem
  <2>3. CASE UNCHANGED call
    BY <1>2, <2>1, <2>3, MovesMem
  <2> QED BY <1>8, <2>2, <2>3 DEF stop_resumes
<1> QED BY <1>3, <1>4, <1>5, <1>6, <1>7, <1>8 DEF Resume

\* A library thread moves, and nothing else.
LEMMA ThreadMem ==
  ASSUME Before, UNCHANGED <<mem, owned, call, live, instances>>, Resting'
  PROVE  MemInv'
<1>0. OpsInv /\ MemInv /\ OpsInv'
  BY DEF Before
<1>1. Mem(mem, live, Kept) /\ Rest(mem, Ops) /\ InstsHeld
  BY <1>0, MemFacts
<1>2. Kept' = Kept /\ InstsHeld'
  BY <1>0, <1>1, GivesNone, KeptSame
<1>3. Mem(mem', live', Kept') /\ Rest(mem', Ops)
  BY <1>1, <1>2
<1>4. LiveCount'
  BY <1>0 DEF MemInv, LiveCount
<1> QED BY <1>2, <1>3, <1>4, MemWillBe

\* A callback gets its event.
LEMMA CallsMem ==
  ASSUME Before, notify_calls
  PROVE  MemInv'
<1>0. OpsInv /\ MemInv /\ OpsInv'
  BY DEF Before
<1>1. PICK o \in Ops : o = Head(notices) /\ mem.op[o].stage = "notice"
  <2>0. notices \in Seq(Ops) /\ Holds(notices, mem.op, "notice") /\ notices # <<>>
    BY <1>0 DEF OpsInv, OpTypes, Queues, notify_calls
  <2>1. 1 \in DOMAIN notices /\ Head(notices) = notices[1] /\ notices[1] \in Ops
    BY <2>0
  <2> QED BY <2>0, <2>1 DEF Holds
<1> DEFINE e == mem.op[o].event
<1>2. /\ notifier' = "callback" /\ mem' = [mem EXCEPT !.op[o].stage = "callback", !.op[o].event = None]
      /\ owned' = owned \cup ({e} \ {None}) /\ UNCHANGED <<call, owner, live, instances, commands>>
  BY <1>1 DEF notify_calls, counters, loopVars, Given
<1>3. Mem(mem, live, Kept) /\ None \notin Kept /\ Rest(mem, Ops) /\ InstsHeld /\ mem.op \in [Ops -> OpRecords]
      /\ IsHeap(mem)
  BY <1>0, MemFacts
<1>4. e \notin Kept /\ e \in Insts \cup Resps \cup Chunks \cup {None}
  BY <1>3 DEF Mem, Tidy, Events, OpRecords
<1>5. LET m2 == [mem EXCEPT !.op[o].stage = "callback", !.op[o].event = None]
      IN Mem(m2, live, Kept \cup ({mem.op[o].event} \ {None})) /\ Rest(m2, Ops)
  BY <1>1, <1>3, MemCalls, Zenon
<1>6. mem'.op = [mem.op EXCEPT ![o] = [@ EXCEPT !.stage = "callback", !.event = None]]
  BY <1>2, <1>3 DEF IsHeap
<1> HIDE DEF e
<1>7. Kept' = Kept \cup ({e} \ {None}) /\ InstsHeld'
  BY <1>0, <1>2, <1>3, <1>4, KeptGives
<1>8. Mem(mem', live', Kept') /\ Rest(mem', Ops)
  BY <1>2, <1>5, <1>7 DEF e
<1>9. \A p \in Ops : mem'.op[p].stage \in TaskStages => mem.op[p].stage \in TaskStages
  <2>1. mem'.op[o].stage = "callback" /\ \A p \in Ops : p # o => mem'.op[p] = mem.op[p]
    BY <1>3, <1>6 DEF OpRecords
  <2> QED BY <2>1 DEF TaskStages
<1>10. Resting'
  BY <1>0, <1>2, <1>9 DEF MemInv, Resting, Tasks
<1>11. LiveCount'
  BY <1>0, <1>2 DEF MemInv, LiveCount
<1> QED BY <1>7, <1>8, <1>10, <1>11, MemWillBe

\* A callback has returned.
LEMMA ReturnsMem ==
  ASSUME Before, notify_returns
  PROVE  MemInv'
<1>0. OpsInv /\ MemInv /\ OpsInv'
  BY DEF Before
<1>1. PICK o \in Ops : o = noteOp /\ mem.op[o].stage = "callback"
  BY <1>0, Zenon DEF notify_returns, OpsInv, OpTypes, Queues
<1>2. /\ mem' = op_drop([mem EXCEPT !.inst[mem.op[o].inst].notifications = @ - 1,
                                    !.op[o].stage = "returned"], o)
      /\ notifier' = "loop" /\ UNCHANGED <<call, owned, owner, live, instances, commands>>
  BY <1>1 DEF notify_returns, queues, hostVars, loopVars
<1>3. Mem(mem, live, Kept) /\ None \notin Kept /\ Rest(mem, Ops) /\ InstsHeld /\ mem.op \in [Ops -> OpRecords]
  BY <1>0, MemFacts
<1>4. LET m2 == op_drop([mem EXCEPT !.inst[mem.op[o].inst].notifications = @ - 1,
                                     !.op[o].stage = "returned"], o)
      IN Mem(m2, live, Kept) /\ Rest(m2, Ops)
            /\ m2.op = Fewer([mem.op EXCEPT ![o].stage = "returned"], o)
  BY <1>1, <1>3, MemReturns, Zenon
<1>5. Mem(mem', live, Kept) /\ Rest(mem', Ops) /\ mem'.op = Fewer([mem.op EXCEPT ![o].stage = "returned"], o)
  BY <1>2, <1>4, Zenon
<1>6. Kept' = Kept /\ InstsHeld'
  BY <1>0, <1>2, <1>3, GivesNone, KeptSame
<1>7. \A p \in Ops : mem'.op[p].stage \in TaskStages => mem.op[p].stage \in TaskStages
  <2> DEFINE ops == [mem.op EXCEPT ![o].stage = "returned"]
  <2>1. ops[o].stage = "returned" /\ ops \in [Ops -> OpRecords] /\ \A p \in Ops : p # o => ops[p] = mem.op[p]
    <3>1. mem.op[o] \in OpRecords
      BY <1>3
    <3>2. [mem.op[o] EXCEPT !.stage = "returned"] \in OpRecords /\ [mem.op[o] EXCEPT !.stage = "returned"].stage = "returned"
      BY <3>1 DEF OpRecords, Stages, DoneStages
    <3> QED BY <1>3, <3>2
  <2> HIDE DEF ops
  <2>2. mem'.op = Fewer(ops, o)
    BY <1>5 DEF ops
  <2>3. \A p \in Ops : p # o => mem'.op[p] = mem.op[p]
    BY <2>1, <2>2 DEF Fewer
  <2>4. mem'.op[o].stage \in {"none", "returned"}
    <3>1. CASE ops[o].refs = 1
      BY <2>1, <2>2, <3>1 DEF Fewer, NoOp
    <3>2. CASE ops[o].refs # 1
      <4>1. mem'.op[o] = [ops[o] EXCEPT !.refs = @ - 1]
        BY <2>1, <2>2, <3>2 DEF Fewer
      <4>2. ops[o] \in OpRecords
        BY <2>1
      <4> QED BY <2>1, <4>1, <4>2 DEF OpRecords
    <3> QED BY <3>1, <3>2
  <2> QED BY <2>3, <2>4 DEF TaskStages
<1>8. Mem(mem', live', Kept')
  BY <1>2, <1>5, <1>6, Zenon
<1>9. Resting'
  BY <1>0, <1>2, <1>7, Zenon DEF MemInv, Resting, Tasks
<1>10. LiveCount'
  BY <1>0, <1>2 DEF MemInv, LiveCount
<1> QED BY <1>5, <1>6, <1>8, <1>9, <1>10, MemWillBe

\* Every step of the notifier.
LEMMA NotifyMem ==
  ASSUME Before, Notify
  PROVE  MemInv'
<1>0. Resting /\ ThreadsAgree
  BY DEF Before, MemInv, ThreadInv
<1>1. CASE notify_waits \/ notify_leaves \/ notify_joins \/ notify_exits
  <2>1. UNCHANGED <<mem, owned, call, live, instances, commands, notices>>
    BY <1>1 DEF notify_waits, notify_leaves, notify_joins, notify_exits, heap, counters, queues, hostVars
  <2>2. CASE notify_waits \/ notify_leaves \/ notify_exits
    <3>1. owner' = owner /\ (notifier' = notifier \/ notices = <<>>)
      BY <1>0, <2>2 DEF notify_waits, notify_leaves, notify_exits, loopVars, noteVars, Resting
    <3>2. Resting'
      BY <1>0, <2>1, <3>1 DEF Resting, Tasks
    <3> QED BY <2>1, <3>2, ThreadMem
  <2>3. CASE notify_joins
    <3>1. owner' = "none" /\ notifier = "join" /\ owner \in {"none", "exit"}
      BY <1>0, <2>3 DEF notify_joins, ThreadsAgree
    <3>2. Resting'
      BY <1>0, <2>1, <3>1 DEF Resting, Tasks
    <3> QED BY <2>1, <3>2, ThreadMem
  <2> QED BY <1>1, <2>2, <2>3
<1> QED BY <1>1, CallsMem, ReturnsMem DEF Notify

\* A step of the owner that leaves the handles, the live list and the host alone.
LEMMA OwnerStep ==
  ASSUME Before, UNCHANGED <<owned, call, live, instances>>, Mem(mem', live, Kept), Rest(mem', Ops), Resting'
  PROVE  MemInv'
<1>0. OpsInv /\ MemInv /\ OpsInv'
  BY DEF Before
<1>1. InstsHeld /\ LiveCount
  BY <1>0 DEF MemInv
<1>2. Kept' = Kept /\ InstsHeld'
  BY <1>0, <1>1, GivesNone, KeptSame
<1>3. Mem(mem', live', Kept')
  BY <1>2
<1>4. LiveCount'
  BY <1>1 DEF LiveCount
<1> QED BY <1>2, <1>3, <1>4, MemWillBe

\* Tasks are cancelled.
LEMMA CancelsMem ==
  ASSUME Before, NEW S, S \subseteq Tasks, mem' = Cancel(mem, S), UNCHANGED <<owned, call, live, instances>>, Resting'
  PROVE  MemInv'
<1>0. OpsInv /\ MemInv
  BY DEF Before
<1>1. Mem(mem, live, Kept) /\ Rest(mem, Ops)
  BY <1>0, MemFacts
<1>2. \A o \in S : mem.op[o] # NoOp
  BY DEF Tasks, NoOp, TaskStages
<1>3. LET m2 == Cancel(mem, S)
      IN Mem(m2, live, Kept) /\ Rest(m2, Ops) /\ m2.inst = mem.inst
            /\ \A p \in Ops : m2.op[p].stage = mem.op[p].stage
  BY <1>1, <1>2, MemCancel
<1>4. Mem(mem', live, Kept) /\ Rest(mem', Ops)
  BY <1>3
<1> QED BY <1>4, OwnerStep

\* Everything that is queued is spawned.
LEMMA PopsMem ==
  ASSUME Before, owner_pops
  PROVE  MemInv'
<1>0. OpsInv /\ MemInv /\ ThreadsAgree
  BY DEF Before, ThreadInv
<1>1. Mem(mem, live, Kept) /\ Rest(mem, Ops)
  BY <1>0, MemFacts
<1> DEFINE f == [o \in Ops |-> IF mem.op[o].stage = "queued" THEN [mem.op[o] EXCEPT !.stage = "spawned"]
                                                            ELSE mem.op[o]]
<1>2. /\ mem' = [mem EXCEPT !.op = f] /\ UNCHANGED <<owned, call, live, instances, notifier, notices>>
      /\ owner = "pop" /\ owner' = "scan"
  BY DEF owner_pops, counters, noteVars, hostVars
<1>3. Mem([mem EXCEPT !.op = f], live, Kept) /\ Rest([mem EXCEPT !.op = f], Ops)
  BY <1>1, MemPops
<1> HIDE DEF f
<1>4. Resting'
  BY <1>0, <1>2 DEF Resting, ThreadsAgree
<1>5. Mem(mem', live, Kept) /\ Rest(mem', Ops)
  BY <1>2, <1>3
<1> QED BY <1>2, <1>4, <1>5, OwnerStep

\* hs_bridge_complete.
LEMMA CompleteMem ==
  ASSUME Before, NEW o \in Ops, mem.op[o].stage \in Pending, NEW m, m.op[o].stage = mem.op[o].stage,
         m.op[o].kind = mem.op[o].kind, m.op[o].inst = mem.op[o].inst,
         Mem(m, live, Kept), Rest(m, Ops \ {o}), NEW ok \in BOOLEAN,
         hs_bridge_complete(m, o, ok), UNCHANGED <<owned, call>>, Resting'
  PROVE  MemInv'
<1>0. OpsInv /\ MemInv /\ OpsInv'
  BY DEF Before
<1>1. None \notin Kept /\ InstsHeld /\ IsFiniteSet(live) /\ LiveCount
  BY <1>0, MemFacts DEF LiveCount
<1>2. /\ mem' = Completed(m, o, ok)
      /\ IF Retires(mem, o, ok) THEN live' = live \ {mem.op[o].inst} /\ instances' = instances - 1
                                ELSE UNCHANGED <<live, instances>>
  BY DEF hs_bridge_complete
<1>3. Retires(m, o, ok) <=> Retires(mem, o, ok)
  BY DEF Retires
<1>4. LET m2 == Completed(m, o, ok)
      IN /\ Mem(m2, IF Retires(m, o, ok) THEN live \ {m.op[o].inst} ELSE live, Kept)
         /\ Rest(m, Ops \ {o}) => Rest(m2, Ops)
         /\ Retires(m, o, ok) => m.op[o].inst \in live
  <2>1. m.op[o].stage \in Pending
    OBVIOUS
  <2> QED BY <1>1, <2>1, MemCompleted
<1>5. Kept' = Kept /\ InstsHeld'
  BY <1>0, <1>1, GivesNone, KeptSame
<1>6. Rest(mem', Ops)
  BY <1>2, <1>4
<1>7. Mem(mem', live', Kept')
  BY <1>2, <1>3, <1>4, <1>5
<1>8. LiveCount'
  <2>1. CASE Retires(mem, o, ok)
    <3>1. mem.op[o].inst \in live /\ mem.op[o].inst \in Insts
      BY <1>0, <1>3, <1>4, <2>1, MemFacts
    <3> QED BY <1>1, <1>2, <2>1, <3>1, LiveLess
  <2>2. CASE ~Retires(mem, o, ok)
    BY <1>1, <1>2, <2>2 DEF LiveCount
  <2> QED BY <2>1, <2>2
<1> QED BY <1>5, <1>6, <1>7, <1>8, MemWillBe

\* A command that nobody will run is answered.
LEMMA FailsMem ==
  ASSUME Before, owner_fails_command
  PROVE  MemInv'
<1>0. OpsInv /\ MemInv /\ OpsInv' /\ ThreadsAgree
  BY DEF Before, ThreadInv
<1>1. Mem(mem, live, Kept) /\ Rest(mem, Ops) /\ Resting /\ mem.op \in [Ops -> OpRecords]
  BY <1>0, MemFacts
<1>2. PICK o \in Ops : o = Head(commands) /\ mem.op[o].stage = "queued"
  <2>0. commands \in Seq(Ops) /\ Holds(commands, mem.op, "queued") /\ commands # <<>>
    BY <1>0 DEF OpsInv, OpTypes, Queues, owner_fails_command
  <2>1. 1 \in DOMAIN commands /\ Head(commands) = commands[1] /\ commands[1] \in Ops
    BY <2>0
  <2> QED BY <2>0, <2>1 DEF Holds
<1>3. /\ hs_bridge_complete(mem, o, FALSE) /\ UNCHANGED <<owned, call, owner, notifier>>
      /\ owner = "fail" /\ mem' = Completed(mem, o, FALSE)
  BY <1>2 DEF owner_fails_command, hs_bridge_complete, noteVars, hostVars
<1>4. Rest(mem, Ops \ {o})
  BY <1>1 DEF Rest, Idles
<1>5. \A p \in Ops : mem'.op[p].stage \in TaskStages => mem.op[p].stage \in TaskStages
  <2>1. Heap(mem, mem.op)
    BY <1>0, OpsFacts
  <2>2. PICK k : Told(k, mem.op[o]) /\ Heap(mem', [mem.op EXCEPT ![o] = k])
    BY <1>1, <1>3, <2>1, Completes
  <2>3. k.stage = "notice" /\ mem'.op = [mem.op EXCEPT ![o] = k]
    BY <2>2 DEF Told, Heap
  <2> QED BY <1>1, <2>3 DEF TaskStages
<1>6. Resting'
  <2>1. notifier \in {"loop", "callback"} /\ Tasks = {}
    BY <1>0, <1>1, <1>3 DEF ThreadsAgree, Resting
  <2> QED BY <1>3, <1>5, <2>1 DEF Resting, Tasks
<1> QED BY <1>1, <1>2, <1>3, <1>4, <1>6, CompleteMem DEF Pending

\* The instances that are left end.
LEMMA RetiresMem ==
  ASSUME Before, owner_retires
  PROVE  MemInv'
<1>0. OpsInv /\ MemInv /\ OpsInv' /\ ThreadsAgree
  BY DEF Before, ThreadInv
<1>1. Mem(mem, live, Kept) /\ Rest(mem, Ops) /\ Resting /\ mem.op \in [Ops -> OpRecords] /\ InstsHeld /\ LiveCount
      /\ instances \in Nat
  BY <1>0, MemFacts DEF LiveCount
<1>2. /\ mem' = Abandoned(mem, live) /\ UNCHANGED <<commands, notices, notifier, call, owned>>
      /\ owner = "fail" /\ owner' = "leaving" /\ commands = <<>> /\ live' = {}
      /\ instances' = instances - Cardinality(live)
  BY DEF owner_retires, queues, noteVars, hostVars
<1>3. \A o \in Ops : mem.op[o].stage \notin Pending
  <2>1. \A o \in Ops : mem.op[o].stage # "queued"
    BY <1>0, <1>2 DEF OpsInv, Queues, Holds
  <2>2. Tasks = {}
    BY <1>1, <1>2 DEF Resting
  <2> QED BY <2>1, <2>2 DEF Tasks, Pending
<1>4. LET m2 == Abandoned(mem, live)
      IN Mem(m2, {}, Kept) /\ Rest(m2, Ops) /\ m2.op = mem.op
  BY <1>1, <1>3, MemAbandoned
<1>5. Kept' = Kept /\ InstsHeld'
  BY <1>0, <1>1, <1>2, GivesNone, KeptSame
<1>6. Mem(mem', live', Kept') /\ Rest(mem', Ops) /\ mem'.op = mem.op
  BY <1>2, <1>4, <1>5
<1>7. Resting'
  <2>1. notifier \in {"loop", "callback"} /\ Tasks = {}
    BY <1>0, <1>1, <1>2 DEF ThreadsAgree, Resting
  <2> QED BY <1>2, <1>6, <2>1 DEF Resting, Tasks
<1>8. LiveCount'
  BY <1>1, <1>2, FS_EmptySet DEF LiveCount
<1> QED BY <1>5, <1>6, <1>7, <1>8, MemWillBe

\* Every step of the owner outside its tasks.
LEMMA LoopMem ==
  ASSUME Before, Loop \/ Fault
  PROVE  MemInv'
<1>0. Resting /\ ThreadsAgree
  BY DEF Before, MemInv, ThreadInv
<1>1. CASE \/ owner_attaches \/ owner_reads \/ owner_acks \/ owner_unwinds \/ owner_stops
           \/ owner_exits \/ owner_boot_fails
  <2>1. UNCHANGED <<mem, owned, call, live, instances, commands, notices, notifier>>
    BY <1>1 DEF owner_attaches, owner_reads, owner_acks, owner_unwinds, owner_stops, owner_exits,
                owner_boot_fails, heap, counters, queues, noteVars, hostVars
  <2>2. \/ owner' \in {"read", "ack", "pop"}
        \/ owner' \in {"unwound", "fail"} /\ Tasks = {}
        \/ owner = "leaving" /\ owner' = "exit"
    BY <1>0, <1>1 DEF owner_attaches, owner_reads, owner_acks, owner_unwinds, owner_stops, owner_exits,
                owner_boot_fails, Resting
  <2>3. Tasks' = Tasks
    BY <2>1 DEF Tasks
  <2>4. Resting'
    BY <1>0, <2>1, <2>2, <2>3 DEF Resting
  <2> QED BY <2>1, <2>4, ThreadMem
<1>2. CASE owner_idles
  <2> DEFINE S == {o \in Tasks : mem.op[o].kind \in Business /\ Cancelled(mem, o)}
  <2>1. /\ mem' = Cancel(mem, S) /\ UNCHANGED <<owned, call, live, instances, notifier>>
        /\ owner = "scan" /\ owner' \in {"read", "unwind"}
    BY <1>2 DEF owner_idles, counters, noteVars, hostVars
  <2>2. S \subseteq Tasks
    OBVIOUS
  <2>3. Resting'
    BY <1>0, <2>1 DEF Resting, ThreadsAgree
  <2> HIDE DEF S
  <2> QED BY <2>1, <2>2, <2>3, CancelsMem
<1>3. CASE owner_loop_fails
  <2>1. /\ mem' = Cancel(mem, Tasks) /\ UNCHANGED <<owned, call, live, instances, notifier>>
        /\ owner = "read" /\ owner' = "unwind"
    BY <1>3 DEF owner_loop_fails, counters, noteVars, hostVars
  <2>2. Resting'
    BY <1>0, <2>1 DEF Resting, ThreadsAgree
  <2> QED BY <2>1, <2>2, CancelsMem
<1> QED BY <1>1, <1>2, <1>3, PopsMem, FailsMem, RetiresMem DEF Loop, Fault

\* A task ends, on a heap in which it may have put its event.
LEMMA FinishMem ==
  ASSUME Before, Running, NEW o \in Ops, mem.op[o].stage \in TaskStages, NEW m, m.op[o].stage = mem.op[o].stage,
         m.op[o].kind = mem.op[o].kind, m.op[o].inst = mem.op[o].inst,
         Mem(m, live, Kept), Rest(m, Ops \ {o}), NEW ok \in BOOLEAN, Finish(m, o, ok)
  PROVE  MemInv'
<1>1. hs_bridge_complete(m, o, ok) /\ UNCHANGED <<owned, call, owner, notifier>>
  BY DEF Finish, taskRest, noteVars, hostVars
<1>2. Resting'
  BY <1>1, RestingRuns DEF Before
<1>3. mem.op[o].stage \in Pending
  BY DEF Pending
<1> QED BY <1>1, <1>2, <1>3, CompleteMem
\* A task goes on.
LEMMA StepMem ==
  ASSUME Before, Running, NEW m, Mem(m, live, Kept), Rest(m, Ops), Step(m)
  PROVE  MemInv'
<1>1. mem' = m /\ UNCHANGED <<live, instances, owned, call, owner, notifier>>
  BY DEF Step, taskRest, noteVars, hostVars
<1>2. Resting'
  BY <1>1, RestingRuns DEF Before
<1>3. Mem(mem', live, Kept) /\ Rest(mem', Ops)
  BY <1>1
<1> QED BY <1>1, <1>2, <1>3, OwnerStep

\* What a task finds.
LEMMA TaskFacts ==
  ASSUME Before, NEW o \in Ops, mem.op[o].stage \in TaskStages
  PROVE  /\ Mem(mem, live, Kept) /\ Rest(mem, Ops) /\ Rest(mem, Ops \ {o}) /\ None \notin Kept
         /\ mem.op[o] \in OpRecords /\ Shape(mem.op[o]) /\ mem.op[o].refs # 0 /\ mem.op[o].inst \in Insts
         /\ mem.inst[mem.op[o].inst].refs # 0 /\ mem.op[o].stage \in Pending
         /\ mem.op[o].stage # "discard" => mem.op[o].event = None
<1>0. OpsInv /\ MemInv
  BY DEF Before
<1>1. Mem(mem, live, Kept) /\ Rest(mem, Ops) /\ None \notin Kept /\ mem.op \in [Ops -> OpRecords]
      /\ Shape(mem.op[o])
  BY <1>0, MemFacts
<1>2. Rest(mem, Ops \ {o}) /\ (mem.op[o].stage # "discard" => mem.op[o].event = None)
  BY <1>1 DEF Rest, Idles
<1>3. mem.op[o].refs # 0
  BY <1>1 DEF Shape, NoOp, TaskStages
<1>4. mem.op[o].inst \in Insts
  BY <1>1, <1>3 DEF Shape
<1>5. mem.inst[mem.op[o].inst].refs # 0
  BY <1>1, <1>4, InstThere
<1> QED BY <1>1, <1>2, <1>3, <1>4, <1>5 DEF Pending

\* A task that has made nothing ends.
LEMMA EndMem ==
  ASSUME Before, Running, NEW o \in Ops, mem.op[o].stage \in TaskStages, NEW ok \in BOOLEAN, Finish(mem, o, ok)
  PROVE  MemInv'
BY TaskFacts, FinishMem
\* Another suspension point.
LEMMA GoMem ==
  ASSUME Before, Running, NEW o \in Ops, mem.op[o].stage \in TaskStages \ {"discard"}, NEW stage,
         StageOf(mem.op[o].kind, stage),
         stage = "running" /\ mem.op[o].kind = "read" => mem.resp[mem.op[o].resp].chunks = 0,
         Step(Go(o, stage))
  PROVE  MemInv'
<1>1. Mem(mem, live, Kept) /\ Rest(mem, Ops) /\ mem.op[o].stage \in Pending /\ mem.op[o].event = None
  BY TaskFacts
<1>2. LET m2 == [mem EXCEPT !.op[o].stage = stage]
      IN Mem(m2, live, Kept) /\ Rest(m2, Ops)
  BY <1>1, MemGo
<1>3. Mem(Go(o, stage), live, Kept) /\ Rest(Go(o, stage), Ops)
  BY <1>2 DEF Go
<1> QED BY <1>3, StepMem

\* From the top of execute to the first suspension point.
LEMMA StartsMem ==
  ASSUME Before, NEW o \in Ops, task_starts(o)
  PROVE  MemInv'
<1> DEFINE i == mem.op[o].inst
<1>0. Running /\ mem.op[o].stage = "spawned" /\ mem.op[o].stage \in TaskStages \ {"discard"}
  BY DEF task_starts, TaskStages
<1>1. CASE Finish(mem, o, FALSE)
  BY <1>0, <1>1, EndMem
<1>2. CASE Step(Go(o, "running")) /\ mem.op[o].kind \in {"create", "start", "drop", "submit"}
  <2>1. StageOf(mem.op[o].kind, "running")
    BY <1>2 DEF StageOf, TaskStages
  <2> QED BY <1>0, <1>2, <2>1, GoMem
<1>3. CASE Step(Go(o, "reading")) /\ mem.op[o].kind = "read"
  <2>1. StageOf(mem.op[o].kind, "reading")
    BY <1>3 DEF StageOf, TaskStages
  <2> QED BY <1>0, <1>3, <2>1, GoMem
<1>4. CASE /\ mem.op[o].kind = "close"
           /\ Step([Cancel(Go(o, "stopping"), Siblings(o)) EXCEPT !.inst[i].up = @ /\ mem.inst[i].server])
  <2> DEFINE m1 == [mem EXCEPT !.op[o].stage = "stopping"]
             S == Siblings(o)
             m2 == Cancel(m1, S)
             b == m2.inst[i].up /\ mem.inst[i].server
             m3 == [m2 EXCEPT !.inst[i].up = b]
  <2>1. /\ Mem(mem, live, Kept) /\ Rest(mem, Ops) /\ mem.op[o].stage \in Pending /\ mem.op[o].event = None
        /\ i \in Insts /\ mem.inst[i].refs # 0
    BY <1>0, TaskFacts
  <2>2. IsHeap(mem) /\ mem.op \in [Ops -> OpRecords] /\ mem.inst \in [Insts -> InstRecords]
    BY MemFacts DEF Before
  <2>3. StageOf(mem.op[o].kind, "stopping")
    BY <1>4 DEF StageOf, TaskStages
  <2>4. Mem(m1, live, Kept) /\ Rest(m1, Ops)
    BY <2>1, <2>3, MemGo
  <2>5. m1.inst = mem.inst /\ \A p \in Ops : p # o => m1.op[p] = mem.op[p]
    BY <2>2 DEF IsHeap
  <2>6. \A p \in S : m1.op[p] # NoOp
    BY <2>5 DEF Siblings, Tasks, NoOp, TaskStages
  <2> HIDE DEF m1, S, i
  <2>7. Mem(m2, live, Kept) /\ Rest(m2, Ops) /\ m2.inst = m1.inst
    BY <2>4, <2>6, MemCancel
  <2> HIDE DEF m2
  <2>8. b \in BOOLEAN /\ m2.inst[i].refs # 0
    <3>1. mem.inst[i] \in InstRecords
      BY <2>1, <2>2
    <3> QED BY <2>1, <2>5, <2>7, <3>1 DEF InstRecords
  <2> HIDE DEF b
  <2>9. Mem(m3, live, Kept) /\ Rest(m3, Ops)
    BY <2>1, <2>7, <2>8, MemUp
  <2>10. Step(m3)
    BY <1>4, Zenon DEF m3, b, m2, m1, S, i, Go
  <2> HIDE DEF m3
  <2> QED BY <1>0, <2>9, <2>10, StepMem
<1> QED BY <1>1, <1>2, <1>3, <1>4 DEF task_starts

\* An engine or a server is open.
LEMMA OpensMem ==
  ASSUME Before, NEW o \in Ops, Running, mem.op[o].stage \in TaskStages,
         Finish([mem EXCEPT !.inst[mem.op[o].inst].up = TRUE], o, TRUE)
  PROVE  MemInv'
<1> DEFINE i == mem.op[o].inst
           m == [mem EXCEPT !.inst[i].up = TRUE]
<1>1. Mem(mem, live, Kept) /\ Rest(mem, Ops \ {o}) /\ i \in Insts /\ mem.inst[i].refs # 0 /\ TRUE \in BOOLEAN
  BY TaskFacts
<1> HIDE DEF i
<1>2. Mem(m, live, Kept) /\ m.op = mem.op /\ (\A S : Rest(mem, S) => Rest(m, S))
  BY <1>1, MemUp
<1>3. Finish(m, o, TRUE)
  BY DEF i
<1> HIDE DEF m
<1> QED BY <1>1, <1>2, <1>3, FinishMem

\* The scope of a server ends.
LEMMA ServerMem ==
  ASSUME Before, NEW i \in Insts, server_ends(i)
  PROVE  MemInv'
<1> DEFINE m == [mem EXCEPT !.inst[i].up = FALSE]
<1>0. Running /\ mem.inst[i].up /\ Step(m)
  BY DEF server_ends, ServersUp
<1>1. Mem(mem, live, Kept) /\ Rest(mem, Ops)
  BY MemFacts DEF Before
<1>2. mem.inst[i].refs # 0
  BY <1>0, <1>1 DEF Mem, Books, InstBook, NoInst
<1>3. Mem(m, live, Kept) /\ m.op = mem.op /\ (\A S : Rest(mem, S) => Rest(m, S))
  BY <1>1, <1>2, MemUp
<1> HIDE DEF m
<1> QED BY <1>0, <1>1, <1>3, StepMem

\* A task ends, having only marked responses.
LEMMA MarksMem ==
  ASSUME Before, Running, NEW o \in Ops, mem.op[o].stage \in TaskStages, NEW ok \in BOOLEAN,
         NEW f \in [Resps -> RespRecords],
         \A r \in Resps : /\ AlikeResp(f[r], mem.resp[r]) /\ f[r].reading = mem.resp[r].reading
                          /\ f[r].sent = mem.resp[r].sent /\ f[r].pos >= mem.resp[r].pos,
         Finish([mem EXCEPT !.resp = f], o, ok)
  PROVE  MemInv'
<1> DEFINE m == [mem EXCEPT !.resp = f]
<1>1. Mem(mem, live, Kept) /\ Rest(mem, Ops \ {o}) /\ Ops \ {o} \in SUBSET Ops
  BY TaskFacts
<1>2. Mem(m, live, Kept) /\ m.op = mem.op /\ \A S \in SUBSET Ops : Rest(mem, S) => Rest(m, S)
  BY <1>1, MemRespFlags
<1>3. Rest(m, Ops \ {o}) /\ Finish(m, o, ok)
  BY <1>1, <1>2
<1> HIDE DEF m
<1> QED BY <1>2, <1>3, FinishMem

\* It has marked one response.
LEMMA MarkMem ==
  ASSUME Before, Running, NEW o \in Ops, mem.op[o].stage \in TaskStages, NEW ok \in BOOLEAN,
         NEW r \in Resps, NEW q \in RespRecords, AlikeResp(q, mem.resp[r]),
         q.reading = mem.resp[r].reading, q.sent = mem.resp[r].sent, q.pos >= mem.resp[r].pos,
         Finish([mem EXCEPT !.resp[r] = q], o, ok)
  PROVE  MemInv'
<1> DEFINE f == [mem.resp EXCEPT ![r] = q]
<1>1. mem.resp \in [Resps -> RespRecords] /\ IsHeap(mem)
  BY MemFacts DEF Before
<1>2. f \in [Resps -> RespRecords]
  BY <1>1
<1>3. \A s \in Resps : mem.resp[s].pos \in Int
  BY <1>1, BridgeAssumption DEF RespRecords
<1>4. \A s \in Resps : /\ AlikeResp(f[s], mem.resp[s]) /\ f[s].reading = mem.resp[s].reading
                       /\ f[s].sent = mem.resp[s].sent /\ f[s].pos >= mem.resp[s].pos
  <2> TAKE s \in Resps
  <2>1. CASE s = r
    BY <1>1, <2>1
  <2>2. CASE s # r
    <3>1. f[s] = mem.resp[s]
      BY <1>1, <2>2
    <3> HIDE DEF f
    <3> QED BY <1>3, <3>1 DEF AlikeResp
  <2> QED BY <2>1, <2>2
<1>5. [mem EXCEPT !.resp[r] = q] = [mem EXCEPT !.resp = f]
  BY <1>1 DEF IsHeap
<1> HIDE DEF f
<1> QED BY <1>2, <1>4, <1>5, MarksMem

\* The response of a read or of an internal release is there.
LEMMA RespOf ==
  ASSUME Before, NEW o \in Ops, mem.op[o].stage \in TaskStages, mem.op[o].kind \in {"read", "drop"}
  PROVE  mem.op[o].resp \in Resps /\ mem.resp[mem.op[o].resp].refs # 0
         /\ mem.resp[mem.op[o].resp] \in RespRecords
<1>1. /\ Mem(mem, live, Kept) /\ mem.op[o].refs # 0 /\ Shape(mem.op[o])
      /\ mem.resp \in [Resps -> RespRecords]
  BY TaskFacts, MemFacts DEF Before
<1>2. mem.op[o].resp \in Resps
  BY <1>1 DEF Shape
<1>3. mem.resp[mem.op[o].resp].refs # 0
  BY <1>1, <1>2, RespThere
<1> QED BY <1>1, <1>2, <1>3

\* A mark changes nothing that is counted.
LEMMA MarkIs ==
  ASSUME NEW k \in RespRecords, k.refs # 0
  PROVE  /\ LET q == [k EXCEPT !.shut = TRUE]
            IN q \in RespRecords /\ AlikeResp(q, k) /\ q.reading = k.reading /\ q.sent = k.sent /\ q.pos >= k.pos
         /\ LET q == [k EXCEPT !.listed = FALSE, !.shut = TRUE]
            IN q \in RespRecords /\ AlikeResp(q, k) /\ q.reading = k.reading /\ q.sent = k.sent /\ q.pos >= k.pos
<1>1. k.pos \in Int
  BY BridgeAssumption DEF RespRecords
<1> DEFINE q1 == [k EXCEPT !.shut = TRUE]
           q2 == [k EXCEPT !.listed = FALSE, !.shut = TRUE]
<1>2. q1 \in RespRecords /\ q2 \in RespRecords
  BY DEF RespRecords
<1>3. q1.pos = k.pos /\ q2.pos = k.pos
  BY DEF RespRecords
<1>4. AlikeResp(q1, k) /\ AlikeResp(q2, k)
  BY DEF RespRecords, AlikeResp
<1>5. q1.reading = k.reading /\ q1.sent = k.sent /\ q2.reading = k.reading /\ q2.sent = k.sent
  BY DEF RespRecords
<1>6. q1.pos >= k.pos /\ q2.pos >= k.pos
  <2> HIDE DEF q1, q2
  <2> QED BY <1>1, <1>3
<1> QED BY <1>2, <1>4, <1>5, <1>6

\* An error or a cancellation leaves the body of execute.
LEMMA RaisesMem ==
  ASSUME Before, NEW o \in Ops, task_raises(o)
  PROVE  MemInv'
<1>0. Running /\ mem.op[o].stage \in TaskStages /\ FALSE \in BOOLEAN
  BY DEF task_raises, TaskStages
<1>1. CASE Finish(mem, o, FALSE)
  BY <1>0, <1>1, EndMem
<1>2. CASE mem.op[o].kind = "read" /\ Finish([mem EXCEPT !.resp[mem.op[o].resp].shut = TRUE], o, FALSE)
  <2> DEFINE r == mem.op[o].resp
             q == [mem.resp[r] EXCEPT !.shut = TRUE]
  <2>1. r \in Resps /\ mem.resp[r].refs # 0 /\ mem.resp[r] \in RespRecords
    BY <1>0, <1>2, RespOf
  <2>2. q \in RespRecords /\ AlikeResp(q, mem.resp[r]) /\ q.reading = mem.resp[r].reading
        /\ q.sent = mem.resp[r].sent /\ q.pos >= mem.resp[r].pos
    BY <2>1, MarkIs, Zenon
  <2>3. mem.resp \in [Resps -> RespRecords] /\ IsHeap(mem)
    BY MemFacts DEF Before
  <2>4. Finish([mem EXCEPT !.resp[r] = q], o, FALSE)
    BY <1>2, <2>1, <2>3
  <2> HIDE DEF q, r
  <2> QED BY <1>0, <2>1, <2>2, <2>4, MarkMem
<1> QED BY <1>1, <1>2 DEF task_raises

\* An internal release closed the engine's response.
LEMMA DropsMem ==
  ASSUME Before, NEW o \in Ops, task_drops(o)
  PROVE  MemInv'
<1> DEFINE r == mem.op[o].resp
           q == [mem.resp[r] EXCEPT !.listed = FALSE, !.shut = TRUE]
<1>0. Running /\ mem.op[o].stage \in TaskStages /\ TRUE \in BOOLEAN /\ mem.op[o].kind = "drop"
  BY DEF task_drops, TaskStages
<1>1. r \in Resps /\ mem.resp[r].refs # 0 /\ mem.resp[r] \in RespRecords
  BY <1>0, RespOf
<1>2. q \in RespRecords /\ AlikeResp(q, mem.resp[r]) /\ q.reading = mem.resp[r].reading
      /\ q.sent = mem.resp[r].sent /\ q.pos >= mem.resp[r].pos
  BY <1>1, MarkIs, Zenon
<1>3. mem.resp \in [Resps -> RespRecords] /\ IsHeap(mem)
  BY MemFacts DEF Before
<1>4. [mem EXCEPT !.resp[r].listed = FALSE, !.resp[r].shut = TRUE] = [mem EXCEPT !.resp[r] = q]
  BY <1>1, <1>3 DEF IsHeap, RespRecords
<1>5. Finish([mem EXCEPT !.resp[r] = q], o, TRUE)
  <2>1. Finish([mem EXCEPT !.resp[r].listed = FALSE, !.resp[r].shut = TRUE], o, TRUE)
    BY DEF task_drops
  <2> HIDE DEF q, r
  <2> QED BY <1>4, <2>1
<1> HIDE DEF q, r
<1> QED BY <1>0, <1>1, <1>2, <1>5, MarkMem

\* A close waits on, or closes the responses of its instance and ends.
LEMMA ClosesMem ==
  ASSUME Before, NEW o \in Ops, task_closes(o)
  PROVE  MemInv'
<1> DEFINE i == mem.op[o].inst
           f == [r \in Resps |-> IF mem.resp[r].inst = i THEN [mem.resp[r] EXCEPT !.listed = FALSE, !.shut = TRUE]
                                                         ELSE mem.resp[r]]
<1>0. Running /\ mem.op[o].stage \in TaskStages /\ TRUE \in BOOLEAN
  BY Zenon DEF task_closes, TaskStages
<1>1. Mem(mem, live, Kept) /\ Rest(mem, Ops) /\ i \in Insts
  BY <1>0, TaskFacts
<1>2. CASE Step(mem)
  BY <1>0, <1>1, <1>2, StepMem
<1>3. CASE Finish([mem EXCEPT !.resp = f], o, TRUE)
  <2>1. mem.resp \in [Resps -> RespRecords] /\ \A r \in Resps : RespBook(mem, mem.op, InHandResp(Kept), r)
    BY <1>1 DEF Mem, Books
  <2>2. f \in [Resps -> RespRecords]
    BY <2>1, Zenon DEF RespRecords
  <2>3. ASSUME NEW r \in Resps
        PROVE  /\ AlikeResp(f[r], mem.resp[r]) /\ f[r].reading = mem.resp[r].reading
               /\ f[r].sent = mem.resp[r].sent /\ f[r].pos >= mem.resp[r].pos
    <3>1. mem.resp[r].refs = 0 => mem.resp[r].inst # i
      BY <1>1, <2>1, BridgeAssumption DEF RespBook, NoResp, Handles
    <3>2. mem.resp[r] \in RespRecords
      BY <2>1
    <3> QED BY <3>1, <3>2, BridgeAssumption DEF RespRecords, AlikeResp
  <2> HIDE DEF f
  <2> QED BY <1>0, <1>3, <2>2, <2>3, MarksMem
<1> QED BY <1>2, <1>3, Zenon DEF task_closes

\* The server's scope has ended: the close waits for the other operations.
LEMMA StopsMem ==
  ASSUME Before, NEW o \in Ops, task_stops(o)
  PROVE  MemInv'
<1>0. /\ Running /\ mem.op[o].stage = "stopping" /\ mem.op[o].stage \in TaskStages \ {"discard"}
      /\ Step(Go(o, "draining"))
  BY DEF task_stops, TaskStages
<1>1. mem.op[o].kind = "close"
  BY <1>0, TaskFacts DEF Shape
<1>2. StageOf(mem.op[o].kind, "draining")
  BY <1>1 DEF StageOf, TaskStages
<1> QED BY <1>0, <1>2, GoMem

\* A read waits for the chunk before it.
LEMMA AwaitsMem ==
  ASSUME Before, NEW o \in Ops, task_awaits_chunk(o)
  PROVE  MemInv'
<1>0. Running /\ mem.op[o].stage = "reading" /\ mem.op[o].stage \in TaskStages \ {"discard"} /\ FALSE \in BOOLEAN
  BY DEF task_awaits_chunk, TaskStages
<1>1. CASE Finish(mem, o, FALSE)
  BY <1>0, <1>1, EndMem
<1>2. CASE mem.resp[mem.op[o].resp].chunks = 0 /\ Step(Go(o, "running"))
  <2>1. mem.op[o].kind = "read"
    BY <1>0, TaskFacts DEF Shape
  <2>2. StageOf(mem.op[o].kind, "running")
    BY <2>1 DEF StageOf, TaskStages
  <2> QED BY <1>0, <1>2, <2>2, GoMem
<1>3. CASE Step(mem)
  BY <1>0, <1>3, TaskFacts, StepMem
<1> QED BY <1>1, <1>2, <1>3 DEF task_awaits_chunk

\* What task_handles does, in the words of MemMade.
LEMMA HandlesIs ==
  ASSUME NEW o \in Ops, task_handles(o)
  PROVE  LET i == mem.op[o].inst
             r == Slot(FreeResps)
         IN /\ Running /\ mem.op[o].stage = "running" /\ mem.op[o].kind = "submit"
            /\ \/ /\ FreeResps # {} /\ mem.retained + (RespCost + HeaderCost) <= Total
                  /\ Finish(response_made(mem, i, r, RespCost + HeaderCost, o), o, TRUE)
               \/ /\ FreeResps # {} /\ mem.retained + RespCost <= Total
                  /\ Step([response_made(mem, i, r, RespCost, o) EXCEPT !.op[o].stage = "discard",
                                                                 !.resp[r].listed = FALSE])
               \/ Step(Go(o, "discard"))
BY DEF task_handles, response_made, Fits

\* StaticEngine::handle gave a response.
LEMMA HandlesMem ==
  ASSUME Before, NEW o \in Ops, task_handles(o)
  PROVE  MemInv'
<1> DEFINE i == mem.op[o].inst
           r == Slot(FreeResps)
<1>0. /\ Running /\ mem.op[o].stage = "running" /\ mem.op[o].kind = "submit"
      /\ mem.op[o].stage \in TaskStages \ {"discard"} /\ TRUE \in BOOLEAN
  BY HandlesIs, Zenon DEF TaskStages
<1>1. /\ Mem(mem, live, Kept) /\ Rest(mem, Ops) /\ None \notin Kept /\ mem.op[o].event = None
      /\ mem.op \in [Ops -> OpRecords]
  BY <1>0, TaskFacts, MemFacts DEF Before
<1>2. FreeResps # {} => r \in Resps /\ mem.resp[r].refs = 0
  BY SlotIn DEF FreeResps
<1>3. RespCost \in Nat /\ RespCost + HeaderCost \in Nat
  BY BridgeAssumption
<1>4. CASE /\ FreeResps # {} /\ mem.retained + (RespCost + HeaderCost) <= Total
           /\ Finish(response_made(mem, i, r, RespCost + HeaderCost, o), o, TRUE)
  <2> DEFINE n == RespCost + HeaderCost
             m2 == response_made(mem, mem.op[o].inst, r, n, o)
  <2>0. n \in Nat /\ mem.retained + n <= Total /\ Finish(m2, o, TRUE)
    BY <1>3, <1>4
  <2> HIDE DEF n, r
  <2>1. /\ Mem(m2, live, Kept) /\ m2.op = [mem.op EXCEPT ![o].event = r]
        /\ Rest(mem, Ops) /\ mem.retained + n <= Total => Rest(m2, Ops \ {o})
    BY <1>0, <1>1, <1>2, <1>4, <2>0, MemMade
  <2> HIDE DEF m2
  <2>2. m2.op[o].stage = mem.op[o].stage /\ m2.op[o].kind = mem.op[o].kind /\ m2.op[o].inst = mem.op[o].inst
    <3>1. mem.op[o] \in OpRecords /\ m2.op[o] = [mem.op[o] EXCEPT !.event = r]
      BY <1>1, <2>1
    <3> QED BY <3>1 DEF OpRecords
  <2> QED BY <1>0, <1>1, <2>0, <2>1, <2>2, FinishMem
<1>5. CASE /\ FreeResps # {} /\ mem.retained + RespCost <= Total
           /\ Step([response_made(mem, i, r, RespCost, o) EXCEPT !.op[o].stage = "discard", !.resp[r].listed = FALSE])
  <2> DEFINE n == RespCost
  <2>0. Step(Refused(mem, r, n, o)) /\ n \in Nat /\ mem.retained + n <= Total /\ r \in Resps /\ mem.resp[r].refs = 0
    BY <1>2, <1>3, <1>5 DEF Refused
  <2> HIDE DEF r, n
  <2>1. Mem(Refused(mem, r, n, o), live, Kept) /\ Rest(Refused(mem, r, n, o), Ops)
    BY <1>0, <1>1, <2>0, MemDiscarded
  <2> QED BY <1>0, <2>0, <2>1, StepMem
<1>6. CASE Step(Go(o, "discard"))
  <2>1. StageOf(mem.op[o].kind, "discard")
    BY <1>0 DEF StageOf, TaskStages
  <2> QED BY <1>0, <1>6, <2>1, GoMem
<1> QED BY <1>4, <1>5, <1>6, HandlesIs, Zenon

\* What task_reads does, in the words of MemChunk.
LEMMA ReadsIs ==
  ASSUME NEW o \in Ops, task_reads(o)
  PROVE  LET i == mem.op[o].inst
             r == mem.op[o].resp
             c == Slot(FreeChunks)
         IN /\ Running /\ mem.op[o].stage = "running" /\ mem.op[o].kind = "read"
            /\ \/ Finish(mem, o, TRUE)
               \/ /\ mem.resp[r].pos < BodyLen /\ FreeChunks # {} /\ mem.retained + ChunkCost <= Total
                  /\ Finish(ChunkBook(mem, i, r, c, o), o, TRUE)
               \/ mem.resp[r].pos < BodyLen /\ Finish([mem EXCEPT !.resp[r].pos = @ + 1], o, FALSE)
BY DEF task_reads, ChunkBook, Fits

\* The cursor of a body moves on.
LEMMA PosIs ==
  ASSUME NEW k \in RespRecords, k.refs # 0, k.pos < BodyLen
  PROVE  LET q == [k EXCEPT !.pos = @ + 1]
         IN q \in RespRecords /\ AlikeResp(q, k) /\ q.reading = k.reading /\ q.sent = k.sent /\ q.pos >= k.pos
<1> DEFINE q == [k EXCEPT !.pos = @ + 1]
<1>1. k.pos \in Nat /\ BodyLen \in Nat /\ k.pos + 1 \in 0..BodyLen /\ k.pos + 1 >= k.pos
  BY BridgeAssumption DEF RespRecords
<1>2. q \in RespRecords
  BY <1>1 DEF RespRecords
<1>3. q.pos = k.pos + 1
  BY DEF RespRecords
<1>4. AlikeResp(q, k) /\ q.reading = k.reading /\ q.sent = k.sent
  BY DEF RespRecords, AlikeResp
<1>5. q.pos >= k.pos
  <2> HIDE DEF q
  <2> QED BY <1>1, <1>3
<1> QED BY <1>2, <1>4, <1>5

\* Response::read returned.
LEMMA ReadsMem ==
  ASSUME Before, NEW o \in Ops, task_reads(o)
  PROVE  MemInv'
<1> DEFINE i == mem.op[o].inst
           r == mem.op[o].resp
           c == Slot(FreeChunks)
<1>0. /\ Running /\ mem.op[o].stage = "running" /\ mem.op[o].kind = "read"
      /\ mem.op[o].stage \in TaskStages /\ TRUE \in BOOLEAN /\ FALSE \in BOOLEAN
  BY ReadsIs DEF TaskStages
<1>1. /\ Mem(mem, live, Kept) /\ Rest(mem, Ops) /\ None \notin Kept /\ mem.op \in [Ops -> OpRecords]
      /\ IsHeap(mem) /\ mem.resp \in [Resps -> RespRecords]
  BY <1>0, TaskFacts, MemFacts DEF Before
<1>2. r \in Resps /\ mem.resp[r].refs # 0 /\ mem.resp[r] \in RespRecords
  BY <1>0, RespOf
<1>3. FreeChunks # {} => c \in Chunks /\ mem.chunk[c] = NoChunk
  BY SlotIn DEF FreeChunks
<1>4. CASE Finish(mem, o, TRUE)
  BY <1>0, <1>4, EndMem
<1>5. CASE /\ mem.resp[r].pos < BodyLen /\ FreeChunks # {} /\ mem.retained + ChunkCost <= Total
           /\ Finish(ChunkBook(mem, i, r, c, o), o, TRUE)
  <2> DEFINE m2 == ChunkBook(mem, mem.op[o].inst, mem.op[o].resp, c, o)
  <2>0. Finish(m2, o, TRUE)
    BY <1>5
  <2> HIDE DEF c
  <2>1. /\ Mem(m2, live, Kept) /\ m2.op = [mem.op EXCEPT ![o].event = c] /\ Rest(m2, Ops \ {o})
    BY <1>0, <1>1, <1>3, <1>5, MemChunk
  <2> HIDE DEF m2
  <2>2. m2.op[o].stage = mem.op[o].stage /\ m2.op[o].kind = mem.op[o].kind /\ m2.op[o].inst = mem.op[o].inst
    <3>1. mem.op[o] \in OpRecords /\ m2.op[o] = [mem.op[o] EXCEPT !.event = c]
      BY <1>1, <2>1
    <3> QED BY <3>1 DEF OpRecords
  <2> QED BY <1>0, <2>0, <2>1, <2>2, FinishMem
<1>6. CASE mem.resp[r].pos < BodyLen /\ Finish([mem EXCEPT !.resp[r].pos = @ + 1], o, FALSE)
  <2> DEFINE q == [mem.resp[r] EXCEPT !.pos = @ + 1]
  <2>1. q \in RespRecords /\ AlikeResp(q, mem.resp[r]) /\ q.reading = mem.resp[r].reading
        /\ q.sent = mem.resp[r].sent /\ q.pos >= mem.resp[r].pos
    BY <1>2, <1>6, PosIs
  <2>2. Finish([mem EXCEPT !.resp[r] = q], o, FALSE)
    BY <1>1, <1>2, <1>6
  <2> HIDE DEF q, r
  <2> QED BY <1>0, <1>2, <2>1, <2>2, MarkMem, Zenon
<1> QED BY <1>4, <1>5, <1>6, ReadsIs

\* Every step of a task.
LEMMA TaskMem ==
  ASSUME Before, NEW o \in Ops, Task(o)
  PROVE  MemInv'
<1>1. CASE task_opens(o) \/ task_serves(o)
  <2>1. Running /\ mem.op[o].stage \in TaskStages /\ FALSE \in BOOLEAN
    BY <1>1 DEF task_opens, task_serves, TaskStages
  <2>2. CASE Finish(mem, o, FALSE)
    BY <2>1, <2>2, EndMem
  <2>3. CASE Finish([mem EXCEPT !.inst[mem.op[o].inst].up = TRUE], o, TRUE)
    BY <2>1, <2>3, OpensMem
  <2> QED BY <1>1, <2>2, <2>3 DEF task_opens, task_serves
<1>2. CASE task_nexts(o) \/ task_discards(o)
  <2>1. Running /\ mem.op[o].stage \in TaskStages /\ TRUE \in BOOLEAN /\ FALSE \in BOOLEAN
    BY <1>2 DEF task_nexts, task_discards, TaskStages
  <2> QED BY <1>2, <2>1, EndMem DEF task_nexts, task_discards
<1> QED BY <1>1, <1>2, StartsMem, HandlesMem, AwaitsMem, ReadsMem, RaisesMem, DropsMem, StopsMem, ClosesMem DEF Task

\* Free operations add nothing,
LEMMA NoOpSums ==
  ASSUME NEW ops, \A o \in Ops : ops[o] = NoOp, NEW i \in Insts \cup Resps
  PROVE  /\ OpRefsTo(ops, i) = 0 /\ OpActive(ops, i) = 0 /\ OpNotes(ops, i) = 0 /\ OpBytes(ops, i) = 0
         /\ OpHolds(ops, i) = 0 /\ OpReads(ops, i) = 0
<1>1. /\ RefsBy(NoOp, i) = 0 /\ ActiveBy(NoOp, i) = 0 /\ NotesBy(NoOp, i) = 0 /\ BytesBy(NoOp, i) = 0
      /\ HoldsResp(NoOp, i) = 0 /\ ReadsResp(NoOp, i) = 0
  BY NoOpFacts DEF NoOpIs, RefsBy, ActiveBy, NotesBy, BytesBy, HoldsResp, ReadsResp, One
<1>2. IsFiniteSet(Ops)
  BY FiniteSlots
<1>3. OpRefsTo(ops, i) = 0
  BY <1>1, <1>2, SumZero DEF OpRefsTo
<1>4. OpActive(ops, i) = 0
  BY <1>1, <1>2, SumZero DEF OpActive
<1>5. OpNotes(ops, i) = 0
  BY <1>1, <1>2, SumZero DEF OpNotes
<1>6. OpBytes(ops, i) = 0
  BY <1>1, <1>2, SumZero DEF OpBytes
<1>7. OpHolds(ops, i) = 0
  BY <1>1, <1>2, SumZero DEF OpHolds
<1>8. OpReads(ops, i) = 0
  BY <1>1, <1>2, SumZero DEF OpReads
<1> QED BY <1>3, <1>4, <1>5, <1>6, <1>7, <1>8
\* nor do free responses and chunks.
LEMMA NoRespSums ==
  ASSUME NEW resps, \A r \in Resps : resps[r] = NoResp, NEW chunks, \A c \in Chunks : chunks[c] = NoChunk,
         NEW i \in Insts \cup Resps
  PROVE  /\ RespsOf(resps, i) = 0 /\ RespBytes(resps, i) = 0
         /\ ChunksOf(chunks, i) = 0 /\ ChunkBytes(chunks, i) = 0 /\ ChunksIn(chunks, i) = 0
<1>0. NoResp.inst = None /\ NoChunk.inst = None /\ NoChunk.resp = None /\ i # None
  BY BridgeAssumption DEF NoResp, NoChunk, Handles
<1>1. IsFiniteSet(Resps) /\ IsFiniteSet(Chunks)
  BY FiniteSlots
<1>2. RespsOf(resps, i) = 0
  BY <1>0, <1>1, SumZero DEF RespsOf, One
<1>3. RespBytes(resps, i) = 0
  BY <1>0, <1>1, SumZero DEF RespBytes
<1>4. ChunksOf(chunks, i) = 0
  BY <1>0, <1>1, SumZero DEF ChunksOf, One
<1>5. ChunkBytes(chunks, i) = 0
  BY <1>0, <1>1, SumZero DEF ChunkBytes
<1>6. ChunksIn(chunks, i) = 0
  BY <1>0, <1>1, SumZero DEF ChunksIn, One
<1> QED BY <1>2, <1>3, <1>4, <1>5, <1>6

\* Nothing is in use at first.
LEMMA InitMem == Init => MemInv
<1> SUFFICES ASSUME Init PROVE MemInv
  OBVIOUS
<1>1. /\ mem.op = [o \in Ops |-> NoOp] /\ mem.resp = [r \in Resps |-> NoResp] /\ mem.inst = [i \in Insts |-> NoInst]
      /\ mem.chunk = [c \in Chunks |-> NoChunk] /\ mem.retained = 0 /\ IsHeap(mem)
  BY DEF Init, IsHeap
<1>2. live = {} /\ owned = {} /\ call = [h \in Hosts |-> Idle]
  BY DEF Init
<1>3. \A h \in Hosts : InstHeld(h) = None /\ call[h].at = "idle"
  BY <1>2 DEF Idle, InstHeld, HoldAt
<1>4. Kept = {}
  BY <1>2, <1>3 DEF Kept, HostHolds
<1>5. /\ NoOp \in OpRecords /\ NoInst \in InstRecords /\ NoResp \in RespRecords /\ NoChunk \in ChunkRecords
  BY NoOpFacts, BridgeAssumption DEF NoOpIs, NoInst, InstRecords, NoResp, RespRecords, NoChunk, ChunkRecords
<1>6. /\ NoInst.refs = 0 /\ NoInst.active = 0 /\ NoInst.notifications = 0 /\ NoInst.responses = 0 /\ NoInst.charged = 0
      /\ NoResp.refs = 0 /\ NoResp.chunks = 0 /\ ~NoResp.reading /\ NoResp.pos = 0 /\ NoResp.sent = 0
  BY DEF NoInst, NoResp
<1>7. mem.op \in [Ops -> OpRecords] /\ \A o \in Ops : mem.op[o] = NoOp
  BY <1>1, <1>5
<1>8. Books(mem, mem.op, InHand(live, Kept), InHandResp(Kept))
  <2>1. /\ mem.inst \in [Insts -> InstRecords] /\ mem.resp \in [Resps -> RespRecords]
        /\ mem.chunk \in [Chunks -> ChunkRecords]
    BY <1>1, <1>5
  <2>2. ASSUME NEW i \in Insts PROVE InstBook(mem, mem.op, InHand(live, Kept), i)
    <3>1. InHand(live, Kept)[i] = 0
      BY <1>2, <1>4 DEF InHand, One
    <3>2. /\ OpRefsTo(mem.op, i) = 0 /\ OpActive(mem.op, i) = 0 /\ OpNotes(mem.op, i) = 0 /\ OpBytes(mem.op, i) = 0
      BY <1>7, NoOpSums
    <3>3. /\ RespsOf(mem.resp, i) = 0 /\ RespBytes(mem.resp, i) = 0
          /\ ChunksOf(mem.chunk, i) = 0 /\ ChunkBytes(mem.chunk, i) = 0
      BY <1>1, NoRespSums
    <3>4. mem.inst[i] = NoInst
      BY <1>1
    <3> QED BY <1>6, <3>1, <3>2, <3>3, <3>4 DEF InstBook
  <2>3. ASSUME NEW r \in Resps PROVE RespBook(mem, mem.op, InHandResp(Kept), r)
    <3>1. InHandResp(Kept)[r] = 0
      BY <1>4 DEF InHandResp, One
    <3>2. OpHolds(mem.op, r) = 0
      BY <1>7, NoOpSums
    <3>3. ChunksIn(mem.chunk, r) = 0
      BY <1>1, NoRespSums
    <3>4. mem.resp[r] = NoResp
      BY <1>1
    <3> QED BY <1>6, <3>1, <3>2, <3>3, <3>4 DEF RespBook
  <2>4. ChargedIn(mem.inst) = 0
    BY <1>1, <1>6, FiniteSlots, SumZero DEF ChargedIn
  <2> QED BY <1>1, <2>1, <2>2, <2>3, <2>4 DEF Books
<1>9. Tidy(mem.op, Kept)
  <2>1. Shape(NoOp)
    BY NoOpFacts DEF NoOpIs, Shape
  <2>2. Events(mem.op, Kept) /\ Grants(mem.op, Kept) /\ CloseOnce(mem.op)
    BY <1>4, <1>7, NoOpFacts DEF NoOpIs, Events, Grants, Granting, Creates, CloseOnce
  <2> QED BY <1>7, <2>1, <2>2 DEF Tidy
<1>10. Closes(mem) /\ Lives(mem, live)
  BY <1>1, <1>2, <1>6, <1>7, NoOpFacts DEF NoOpIs, Closes, Lives, Creates
<1>11. (\A c \in Chunks : ChunkShape(mem.chunk[c])) /\ ChunksHeld(mem, Kept)
  BY <1>1, <1>4, <1>7, NoOpFacts DEF NoOpIs, ChunkShape, ChunksHeld
<1>12. Reads(mem)
  <2>1. \A r \in Resps : OpReads(mem.op, r) = 0
    BY <1>7, NoOpSums
  <2> QED BY <1>1, <1>6, <2>1 DEF Reads, One
<1>13. Mem(mem, live, Kept)
  BY <1>1, <1>7, <1>8, <1>9, <1>10, <1>11, <1>12 DEF Mem
<1>14. Rest(mem, Ops)
  <2>1. Total \in Nat
    BY BridgeAssumption
  <2> QED BY <1>1, <1>6, <1>7, <2>1, NoOpFacts DEF NoOpIs, Rest, Idles, Bound, TaskStages
<1>15. InstsHeld
  BY <1>2, <1>3 DEF InstsHeld
<1>16. Resting
  BY <1>7, NoOpFacts DEF NoOpIs, Resting, Tasks, TaskStages, Init
<1>17. LiveCount
  BY FS_EmptySet DEF LiveCount, Init
<1> QED BY <1>13, <1>14, <1>15, <1>16, <1>17 DEF MemInv

\* The counts of references, bytes, operations under way and unreturned callbacks are those of the
\* pointers there are, whatever the interleaving of the calls, the callbacks, the tasks and the
\* releases of bridge.c.
THEOREM BridgeMemory == Spec => []MemInv
<1>1. ASSUME ThreadInv, OpsInv, OpsInv', MemInv, [Next]_vars PROVE MemInv'
  <2>0. Before
    BY <1>1 DEF Before
  <2>1. CASE UNCHANGED vars
    <3>1. UNCHANGED <<mem, owned, commands, owner, notifier, notices, live, instances, call>>
      BY <2>1 DEF vars, heap, counters, queues, loopVars, noteVars, hostVars
    <3>2. \A h \in Hosts : InstHeld(h)' = InstHeld(h)
      BY <3>1 DEF InstHeld
    <3> QED BY <2>0, <3>1, <3>2, MovesMem
  <2>2. ASSUME NEW t \in Callers, Enter(t) PROVE MemInv'
    BY <2>0, <2>2, EnterMem
  <2>3. ASSUME NEW h \in Hosts, Resume(h) PROVE MemInv'
    BY <2>0, <2>3, ResumeMem
  <2>4. ASSUME NEW o \in Ops, Task(o) PROVE MemInv'
    BY <2>0, <2>4, TaskMem
  <2>5. ASSUME NEW i \in Insts, server_ends(i) PROVE MemInv'
    BY <2>0, <2>5, ServerMem
  <2>6. CASE Notify
    BY <2>0, <2>6, NotifyMem
  <2>7. CASE Loop \/ Fault
    BY <2>0, <2>7, LoopMem
  <2> QED BY <1>1, <2>1, <2>2, <2>3, <2>4, <2>5, <2>6, <2>7 DEF Next
<1>2. Spec => []ThreadInv
  BY BridgeThreads
<1>3. Spec => []OpsInv
  BY BridgeOperations
<1>4. ThreadInv /\ OpsInv /\ OpsInv' /\ MemInv /\ [Next]_vars => MemInv'
  BY <1>1
<1> QED BY <1>2, <1>3, <1>4, InitMem, PTL DEF Spec

\* A sum of ones counts.
LEMMA SumOnes ==
  ASSUME NEW S, IsFiniteSet(S), NEW f, \A x \in S : f[x] = 1
  PROVE  SumOf(f, S) = Cardinality(S)
<1> DEFINE Bad == {T \in SUBSET S : SumOf(f, T) # Cardinality(T)}
<1> SUFFICES ASSUME Bad # {} PROVE FALSE
  OBVIOUS
<1>1. PICK T \in Bad : \A U \in Bad : ~(U \subseteq T /\ U # T)
  <2>1. Bad \in SUBSET (SUBSET S)
    OBVIOUS
  <2> HIDE DEF Bad
  <2> QED BY <2>1, LeastSet
<1>2. IsFiniteSet(T)
  BY FS_Subset
<1>3. SumOf(f, T) = IF T = {} THEN 0 ELSE f[Pick(T)] + SumOf(f, T \ {Pick(T)})
  BY <1>2, SumStep
<1>4. T # {}
  BY <1>3, FS_EmptySet
<1>5. Pick(T) \in T
  BY <1>4, PickInside
<1>6. SumOf(f, T \ {Pick(T)}) = Cardinality(T \ {Pick(T)}) /\ f[Pick(T)] = 1
  BY <1>1, <1>5
<1>7. Cardinality(T) \in Nat /\ Cardinality(T \ {Pick(T)}) = Cardinality(T) - 1
  BY <1>2, <1>5, FS_RemoveElement, FS_CardinalityType
<1> QED BY <1>3, <1>4, <1>6, <1>7
\* The size of a subset is the sum of its indicator.
LEMMA SumCount ==
  ASSUME NEW S, IsFiniteSet(S), NEW T, T \subseteq S, NEW f,
         \A x \in S : f[x] = IF x \in T THEN 1 ELSE 0
  PROVE  SumOf(f, S) = Cardinality(T)
<1>1. IsFiniteSet(T)
  BY FS_Subset
<1>2. (\A x \in S : f[x] \in Nat) /\ (\A x \in S \ T : f[x] = 0) /\ (\A x \in T : f[x] = 1)
  OBVIOUS
<1>3. SumOf(f, S) = SumOf(f, T)
  BY <1>2, SumMask
<1> QED BY <1>1, <1>2, <1>3, SumOnes
\* A sum of sums.
LEMMA SumPlus ==
  ASSUME NEW S, IsFiniteSet(S), NEW f, NEW g, NEW h, \A x \in S : f[x] \in Nat, \A x \in S : g[x] \in Nat,
         \A x \in S : h[x] = f[x] + g[x]
  PROVE  SumOf(h, S) = SumOf(f, S) + SumOf(g, S)
<1> DEFINE Bad == {T \in SUBSET S : SumOf(h, T) # SumOf(f, T) + SumOf(g, T)}
<1> SUFFICES ASSUME Bad # {} PROVE FALSE
  OBVIOUS
<1>1. PICK T \in Bad : \A U \in Bad : ~(U \subseteq T /\ U # T)
  <2>1. Bad \in SUBSET (SUBSET S)
    OBVIOUS
  <2> HIDE DEF Bad
  <2> QED BY <2>1, LeastSet
<1> DEFINE R == T \ {Pick(T)}
<1>2. IsFiniteSet(T) /\ IsFiniteSet(R) /\ T \subseteq S /\ R \subseteq T
  BY FS_Subset
<1>3. /\ SumOf(f, T) = IF T = {} THEN 0 ELSE f[Pick(T)] + SumOf(f, R)
      /\ SumOf(g, T) = IF T = {} THEN 0 ELSE g[Pick(T)] + SumOf(g, R)
      /\ SumOf(h, T) = IF T = {} THEN 0 ELSE h[Pick(T)] + SumOf(h, R)
  BY <1>2, SumStep
<1>4. T # {}
  BY <1>3
<1>5. Pick(T) \in T
  BY <1>4, PickInside
<1>6. SumOf(h, R) = SumOf(f, R) + SumOf(g, R)
  BY <1>1, <1>5
<1>7. (\A x \in R : f[x] \in Nat) /\ (\A x \in R : g[x] \in Nat)
  BY <1>2
<1> HIDE DEF R
<1>8. SumOf(f, R) \in Nat /\ SumOf(g, R) \in Nat
  BY <1>2, <1>7, SumNat
<1>9. f[Pick(T)] \in Nat /\ g[Pick(T)] \in Nat /\ h[Pick(T)] = f[Pick(T)] + g[Pick(T)]
  BY <1>2, <1>5
<1>10. SumOf(h, T) = SumOf(f, T) + SumOf(g, T)
  BY <1>3, <1>4, <1>6, <1>8, <1>9
<1> QED BY <1>1, <1>10

-----------------------------------------------------------------------------
(* The counters of BridgeProps                                              *)

\* Whoever is pointed to by a record is pointed to by a live one.
LEMMA Pointers ==
  ASSUME OpsInv, MemInv
  PROVE  /\ \A o \in Ops : mem.op[o].refs = 0 => mem.op[o] = NoOp
         /\ \A o \in Ops, x \in Insts : mem.op[o].inst = x => o \in LiveOps
         /\ \A o \in Ops, x \in Resps : mem.op[o].resp = x => o \in LiveOps
         /\ \A o \in Ops, x \in Insts \cup Resps : mem.op[o].event = x => o \in LiveOps /\ Undelivered(o)
         /\ \A r \in Resps, x \in Insts : mem.resp[r].inst = x => r \in LiveResps
         /\ \A c \in Chunks, x \in Insts : mem.chunk[c].inst = x => c \in LiveChunks
         /\ \A c \in Chunks, x \in Resps : mem.chunk[c].resp = x => c \in LiveChunks
         /\ \A o \in LiveOps : mem.op[o].stage # "none"
<1>1. /\ mem.op \in [Ops -> OpRecords] /\ mem.resp \in [Resps -> RespRecords]
      /\ \A o \in Ops : Shape(mem.op[o])
  BY MemFacts
<1>2. (\A o \in Ops : mem.op[o].refs \in 0..2) /\ \A r \in Resps : mem.resp[r].refs \in Nat
  BY <1>1 DEF OpRecords, RespRecords
<1>3. \A o \in Ops : o \in LiveOps <=> mem.op[o].refs # 0
  BY <1>2 DEF LiveOps
<1>4. \A r \in Resps : r \in LiveResps <=> mem.resp[r].refs # 0
  BY <1>2 DEF LiveResps
<1>5. \A r \in Resps : mem.resp[r].refs = 0 => mem.resp[r] = NoResp
  BY MemFacts DEF Mem, Books, RespBook
<1>6. NoResp.inst = None /\ NoChunk.inst = None /\ NoChunk.resp = None
  BY DEF NoResp, NoChunk
<1>7. \A o \in Ops, x \in Insts \cup Resps : mem.op[o].event = x => o \in LiveOps /\ Undelivered(o)
  BY <1>1, <1>3, NoOpFacts DEF NoOpIs, Shape, Undelivered, TaskStages
<1>8. \A c \in Chunks : c \in LiveChunks <=> mem.chunk[c] # NoChunk
  BY DEF LiveChunks, FreeChunks
<1>9. \A o \in Ops : mem.op[o].refs = 0 => mem.op[o] = NoOp
  BY <1>1 DEF Shape
<1>10. \A o \in LiveOps : mem.op[o].stage # "none"
  BY <1>1, <1>3 DEF Shape, LiveOps
<1> QED BY <1>3, <1>4, <1>5, <1>6, <1>7, <1>8, <1>9, <1>10, NoOpFacts DEF NoOpIs

\* The pointers of operations to an instance.
LEMMA RefsCount ==
  ASSUME OpsInv, MemInv, NEW i \in Insts
  PROVE  OpRefsTo(mem.op, i) = EventRefs(i) + Count({o \in LiveOps : mem.op[o].inst = i})
         /\ EventRefs(i) \in Nat /\ Count({o \in LiveOps : mem.op[o].inst = i}) \in Nat
<1> DEFINE f == [o \in Ops |-> One(mem.op[o].event = i)]
           g == [o \in Ops |-> One(mem.op[o].inst = i)]
           h == [o \in Ops |-> RefsBy(mem.op[o], i)]
           A == {o \in LiveOps : Undelivered(o) /\ mem.op[o].event = i}
           B == {o \in LiveOps : mem.op[o].inst = i}
<1>1. IsFiniteSet(Ops) /\ A \subseteq Ops /\ B \subseteq Ops
  BY FiniteSlots DEF LiveOps
<1>2. \A o \in Ops : f[o] = IF o \in A THEN 1 ELSE 0
  BY Pointers DEF One
<1>3. \A o \in Ops : g[o] = IF o \in B THEN 1 ELSE 0
  BY Pointers DEF One
<1>4. \A o \in Ops : h[o] = f[o] + g[o]
  BY DEF RefsBy, One
<1> HIDE DEF f, g, h, A, B
<1>5. SumOf(f, Ops) = Cardinality(A) /\ SumOf(g, Ops) = Cardinality(B)
  BY <1>1, <1>2, <1>3, SumCount
<1>6. (\A o \in Ops : f[o] \in Nat) /\ \A o \in Ops : g[o] \in Nat
  BY <1>2, <1>3
<1>7. SumOf(h, Ops) = SumOf(f, Ops) + SumOf(g, Ops) /\ SumOf(f, Ops) \in Nat /\ SumOf(g, Ops) \in Nat
  BY <1>1, <1>4, <1>6, SumPlus, SumNat
<1> QED BY <1>5, <1>7 DEF h, A, B, OpRefsTo, EventRefs, Count

\* The pointers of operations to a response.
LEMMA HoldsCount ==
  ASSUME OpsInv, MemInv, NEW r \in Resps
  PROVE  OpHolds(mem.op, r) = EventRefs(r) + Count({o \in LiveOps : mem.op[o].resp = r})
         /\ EventRefs(r) \in Nat /\ Count({o \in LiveOps : mem.op[o].resp = r}) \in Nat
<1> DEFINE f == [o \in Ops |-> One(mem.op[o].event = r)]
           g == [o \in Ops |-> One(mem.op[o].resp = r)]
           h == [o \in Ops |-> HoldsResp(mem.op[o], r)]
           A == {o \in LiveOps : Undelivered(o) /\ mem.op[o].event = r}
           B == {o \in LiveOps : mem.op[o].resp = r}
<1>1. IsFiniteSet(Ops) /\ A \subseteq Ops /\ B \subseteq Ops
  BY FiniteSlots DEF LiveOps
<1>2. \A o \in Ops : f[o] = IF o \in A THEN 1 ELSE 0
  BY Pointers DEF One
<1>3. \A o \in Ops : g[o] = IF o \in B THEN 1 ELSE 0
  BY Pointers DEF One
<1>4. \A o \in Ops : h[o] = f[o] + g[o]
  BY DEF HoldsResp, One
<1> HIDE DEF f, g, h, A, B
<1>5. SumOf(f, Ops) = Cardinality(A) /\ SumOf(g, Ops) = Cardinality(B)
  BY <1>1, <1>2, <1>3, SumCount
<1>6. (\A o \in Ops : f[o] \in Nat) /\ \A o \in Ops : g[o] \in Nat
  BY <1>2, <1>3
<1>7. SumOf(h, Ops) = SumOf(f, Ops) + SumOf(g, Ops) /\ SumOf(f, Ops) \in Nat /\ SumOf(g, Ops) \in Nat
  BY <1>1, <1>4, <1>6, SumPlus, SumNat
<1> QED BY <1>5, <1>7 DEF h, A, B, OpHolds, EventRefs, Count

\* The operations under way, the ones whose callback has not returned, and the reads.
LEMMA WayCount ==
  ASSUME OpsInv, MemInv
  PROVE  /\ \A i \in Insts : OpActive(mem.op, i) = Count(InFlight(i)) /\ OpNotes(mem.op, i) = Count(Unreturned(i))
         /\ \A r \in Resps : OpReads(mem.op, r) = Count({o \in LiveOps : /\ mem.op[o].kind = "read" /\ mem.op[o].resp = r
                                                                         /\ mem.op[o].stage \in {"queued"} \cup TaskStages})
<1>0. IsFiniteSet(Ops) /\ LiveOps \subseteq Ops
  BY FiniteSlots DEF LiveOps
<1>1. ASSUME NEW i \in Insts PROVE OpActive(mem.op, i) = Count(InFlight(i))
  <2> DEFINE f == [o \in Ops |-> ActiveBy(mem.op[o], i)]
             A == InFlight(i)
  <2>1. A \subseteq Ops /\ \A o \in Ops : f[o] = IF o \in A THEN 1 ELSE 0
    BY <1>0, Pointers DEF InFlight, ActiveBy, One
  <2> HIDE DEF f, A
  <2>2. SumOf(f, Ops) = Cardinality(A)
    BY <1>0, <2>1, SumCount
  <2> QED BY <2>2 DEF f, A, OpActive, Count
<1>2. ASSUME NEW i \in Insts PROVE OpNotes(mem.op, i) = Count(Unreturned(i))
  <2> DEFINE f == [o \in Ops |-> NotesBy(mem.op[o], i)]
             A == Unreturned(i)
  <2>1. A \subseteq Ops /\ \A o \in Ops : f[o] = IF o \in A THEN 1 ELSE 0
    BY <1>0, Pointers DEF Unreturned, NotesBy, One
  <2> HIDE DEF f, A
  <2>2. SumOf(f, Ops) = Cardinality(A)
    BY <1>0, <2>1, SumCount
  <2> QED BY <2>2 DEF f, A, OpNotes, Count
<1>3. ASSUME NEW r \in Resps
      PROVE  OpReads(mem.op, r) = Count({o \in LiveOps : /\ mem.op[o].kind = "read" /\ mem.op[o].resp = r
                                                         /\ mem.op[o].stage \in {"queued"} \cup TaskStages})
  <2> DEFINE f == [o \in Ops |-> ReadsResp(mem.op[o], r)]
             A == {o \in LiveOps : /\ mem.op[o].kind = "read" /\ mem.op[o].resp = r
                                   /\ mem.op[o].stage \in {"queued"} \cup TaskStages}
  <2>1. A \subseteq Ops /\ \A o \in Ops : f[o] = IF o \in A THEN 1 ELSE 0
    BY <1>0, Pointers DEF ReadsResp, One
  <2> HIDE DEF f, A
  <2>2. SumOf(f, Ops) = Cardinality(A)
    BY <1>0, <2>1, SumCount
  <2> QED BY <2>2 DEF f, A, OpReads, Count
<1> QED BY <1>1, <1>2, <1>3

\* The responses and the chunks of an instance, and the chunks of a response.
LEMMA PartCount ==
  ASSUME OpsInv, MemInv
  PROVE  /\ \A i \in Insts : /\ RespsOf(mem.resp, i) = Count({r \in LiveResps : mem.resp[r].inst = i})
                             /\ ChunksOf(mem.chunk, i) = Count({c \in LiveChunks : mem.chunk[c].inst = i})
         /\ \A r \in Resps : ChunksIn(mem.chunk, r) = Count({c \in LiveChunks : mem.chunk[c].resp = r})
<1>0. IsFiniteSet(Resps) /\ LiveResps \subseteq Resps /\ IsFiniteSet(Chunks) /\ LiveChunks \subseteq Chunks
  BY FiniteSlots DEF LiveResps, LiveChunks
<1>1. ASSUME NEW i \in Insts PROVE RespsOf(mem.resp, i) = Count({r \in LiveResps : mem.resp[r].inst = i})
  <2> DEFINE f == [r \in Resps |-> One(mem.resp[r].inst = i)]
             A == {r \in LiveResps : mem.resp[r].inst = i}
  <2>1. A \subseteq Resps /\ \A r \in Resps : f[r] = IF r \in A THEN 1 ELSE 0
    BY <1>0, Pointers DEF One
  <2> HIDE DEF f, A
  <2>2. SumOf(f, Resps) = Cardinality(A)
    BY <1>0, <2>1, SumCount
  <2> QED BY <2>2 DEF f, A, RespsOf, Count
<1>2. ASSUME NEW i \in Insts PROVE ChunksOf(mem.chunk, i) = Count({c \in LiveChunks : mem.chunk[c].inst = i})
  <2> DEFINE f == [c \in Chunks |-> One(mem.chunk[c].inst = i)]
             A == {c \in LiveChunks : mem.chunk[c].inst = i}
  <2>1. A \subseteq Chunks /\ \A c \in Chunks : f[c] = IF c \in A THEN 1 ELSE 0
    BY <1>0, Pointers DEF One
  <2> HIDE DEF f, A
  <2>2. SumOf(f, Chunks) = Cardinality(A)
    BY <1>0, <2>1, SumCount
  <2> QED BY <2>2 DEF f, A, ChunksOf, Count
<1>3. ASSUME NEW r \in Resps PROVE ChunksIn(mem.chunk, r) = Count({c \in LiveChunks : mem.chunk[c].resp = r})
  <2> DEFINE f == [c \in Chunks |-> One(mem.chunk[c].resp = r)]
             A == {c \in LiveChunks : mem.chunk[c].resp = r}
  <2>1. A \subseteq Chunks /\ \A c \in Chunks : f[c] = IF c \in A THEN 1 ELSE 0
    BY <1>0, Pointers DEF One
  <2> HIDE DEF f, A
  <2>2. SumOf(f, Chunks) = Cardinality(A)
    BY <1>0, <2>1, SumCount
  <2> QED BY <2>2 DEF f, A, ChunksIn, Count
<1> QED BY <1>1, <1>2, <1>3

\* RefsExact of the runs `recovery` and `liveness`: an instance is held by the live list, the host, events and other
\* handles, a response by the host, events, operations and chunks, and each is freed by the last of
\* them (instance_drop, response_drop, op_drop).
THEOREM BridgeRefsExact == Spec => []RefsExact
<1>1. ASSUME OpsInv, MemInv PROVE RefsExact
  <2>0. Books(mem, mem.op, InHand(live, Kept), InHandResp(Kept))
    BY <1>1, MemFacts DEF Mem
  <2>1. ASSUME NEW i \in Insts PROVE mem.inst[i].refs = InstHolders(i)
    <3>1. mem.inst[i].refs = InHand(live, Kept)[i] + OpRefsTo(mem.op, i) + RespsOf(mem.resp, i) + ChunksOf(mem.chunk, i)
      BY <2>0 DEF Books, InstBook
    <3>2. i \in Kept <=> HostHolds(i)
      BY DEF Kept
    <3>3. InHand(live, Kept)[i] = One(i \in live) + One(HostHolds(i))
      BY <3>2 DEF InHand, One
    <3>4. OpRefsTo(mem.op, i) = EventRefs(i) + Count({o \in LiveOps : mem.op[o].inst = i})
          /\ EventRefs(i) \in Nat /\ Count({o \in LiveOps : mem.op[o].inst = i}) \in Nat
      BY <1>1, RefsCount
    <3>5. /\ RespsOf(mem.resp, i) = Count({r \in LiveResps : mem.resp[r].inst = i})
          /\ ChunksOf(mem.chunk, i) = Count({c \in LiveChunks : mem.chunk[c].inst = i})
      BY <1>1, PartCount
    <3>6. RespsOf(mem.resp, i) \in Nat /\ ChunksOf(mem.chunk, i) \in Nat
      BY <2>0, SumsNat DEF Books
    <3>7. One(i \in live) \in Nat /\ One(HostHolds(i)) \in Nat
      BY DEF One
    <3> QED BY <3>1, <3>3, <3>4, <3>5, <3>6, <3>7 DEF InstHolders
  <2>2. ASSUME NEW r \in Resps PROVE mem.resp[r].refs = RespHolders(r)
    <3>1. mem.resp[r].refs = InHandResp(Kept)[r] + OpHolds(mem.op, r) + ChunksIn(mem.chunk, r)
      BY <2>0 DEF Books, RespBook
    <3>2. r \in Kept <=> r \in owned
      BY <1>1, KeptIs
    <3>3. InHandResp(Kept)[r] = One(r \in owned)
      BY <3>2 DEF InHandResp, One
    <3>4. OpHolds(mem.op, r) = EventRefs(r) + Count({o \in LiveOps : mem.op[o].resp = r})
          /\ EventRefs(r) \in Nat /\ Count({o \in LiveOps : mem.op[o].resp = r}) \in Nat
      BY <1>1, HoldsCount
    <3>5. ChunksIn(mem.chunk, r) = Count({c \in LiveChunks : mem.chunk[c].resp = r})
      BY <1>1, PartCount
    <3>6. ChunksIn(mem.chunk, r) \in Nat
      BY <2>0, SumsNat DEF Books
    <3>7. One(r \in owned) \in Nat
      BY DEF One
    <3> QED BY <3>1, <3>3, <3>4, <3>5, <3>6, <3>7 DEF RespHolders
  <2> QED BY <2>1, <2>2 DEF RefsExact
<1>2. OpsInv /\ MemInv => RefsExact
  BY <1>1
<1> QED BY <1>2, BridgeOperations, BridgeMemory, PTL

\* PipelineExact of the run `recovery`: active, which a close waits for, notifications, which the
\* release barrier waits for, and instances, which the idle check asks for, count what they are
\* named for.
THEOREM BridgePipelineExact == Spec => []PipelineExact
<1>1. ASSUME OpsInv, MemInv PROVE PipelineExact
  <2>0. Books(mem, mem.op, InHand(live, Kept), InHandResp(Kept)) /\ instances = Cardinality(live)
    BY <1>1, MemFacts DEF Mem
  <2>1. \A i \in Insts : mem.inst[i].active = OpActive(mem.op, i) /\ mem.inst[i].notifications = OpNotes(mem.op, i)
    BY <2>0 DEF Books, InstBook
  <2> QED BY <1>1, <2>0, <2>1, WayCount DEF PipelineExact, Count
<1>2. OpsInv /\ MemInv => PipelineExact
  BY <1>1
<1> QED BY <1>2, BridgeOperations, BridgeMemory, PTL

\* OneRead of the run `recovery`: `reading` says whether a read of the response is under way, there
\* is never a second one, and the host has at most one chunk of a response.
THEOREM BridgeOneRead == Spec => []OneRead
<1>1. ASSUME OpsInv, MemInv PROVE OneRead
  <2>0. Books(mem, mem.op, InHand(live, Kept), InHandResp(Kept)) /\ Reads(mem)
    BY <1>1, MemFacts DEF Mem
  <2>1. \A r \in Resps : mem.resp[r].chunks = ChunksIn(mem.chunk, r)
    BY <2>0 DEF Books, RespBook
  <2>2. \A r \in Resps : OpReads(mem.op, r) = One(mem.resp[r].reading) /\ mem.resp[r].chunks <= 1
    BY <2>0 DEF Reads
  <2>3. SUFFICES ASSUME NEW r \in LiveResps
        PROVE  /\ Count({o \in LiveOps : mem.op[o].kind = "read" /\ mem.op[o].resp = r
                                  /\ mem.op[o].stage \in {"queued"} \cup TaskStages}) = One(mem.resp[r].reading)
               /\ mem.resp[r].chunks = Count({c \in LiveChunks : mem.chunk[c].resp = r})
               /\ mem.resp[r].chunks <= 1
    BY DEF OneRead
  <2>4. r \in Resps
    BY DEF LiveResps
  <2>5. ChunksIn(mem.chunk, r) = Count({c \in LiveChunks : mem.chunk[c].resp = r})
    BY <1>1, <2>4, PartCount
  <2>6. OpReads(mem.op, r) = Count({o \in LiveOps : mem.op[o].kind = "read" /\ mem.op[o].resp = r
                                  /\ mem.op[o].stage \in {"queued"} \cup TaskStages})
    BY <1>1, <2>4, WayCount
  <2> QED BY <2>1, <2>2, <2>4, <2>5, <2>6
<1>2. OpsInv /\ MemInv => OneRead
  BY <1>1
<1> QED BY <1>2, BridgeOperations, BridgeMemory, PTL

-----------------------------------------------------------------------------
(* Nothing is left                                                          *)

\* Drained of the run `lifecycle`: once the runtime is reaped and the host holds nothing, every
\* handle is free, and no byte is charged.
THEOREM BridgeDrained == Spec => []Drained
<1>1. ASSUME ThreadInv, OpsInv, MemInv PROVE Drained
  <2> SUFFICES ASSUME state = 0, owned = {}, \A h \in Hosts : call[h] = Idle
               PROVE  /\ instances = 0 /\ activeOps = 0 /\ mem.retained = 0
                      /\ FreeInsts = Insts /\ FreeOps = Ops /\ FreeResps = Resps /\ FreeChunks = Chunks
    BY DEF Drained
  <2>0. /\ Mem(mem, live, Kept) /\ Resting /\ IsHeap(mem) /\ mem.op \in [Ops -> OpRecords]
        /\ Books(mem, mem.op, InHand(live, Kept), InHandResp(Kept)) /\ ChunksHeld(mem, Kept)
        /\ instances = Cardinality(live) /\ \A o \in Ops : Shape(mem.op[o])
    BY <1>1, MemFacts DEF Mem
  <2>1. owner = "none" /\ notifier = "none"
    BY <1>1 DEF ThreadInv, ThreadsAgree
  <2>2. Tasks = {} /\ live = {} /\ commands = <<>> /\ notices = <<>> /\ noteOp = None
    BY <1>1, <2>0, <2>1 DEF Resting, OpsInv, Queues
  <2>3. \A x : ~HostHolds(x)
    BY DEF HostHolds, Idle
  <2>4. Kept = {}
    BY <2>3 DEF Kept
  <2>5. ASSUME NEW o \in Ops PROVE mem.op[o] = NoOp /\ ~InPipe(o)
    <3>1. mem.op[o].stage \in Stages
      BY <2>0 DEF OpRecords
    <3>2. mem.op[o].stage \notin {"queued", "notice", "callback"}
      <4>1. o # None
        BY BridgeAssumption DEF Handles
      <4> QED BY <1>1, <2>2, <4>1 DEF OpsInv, Queues, Holds
    <3>3. mem.op[o].stage \notin TaskStages
      BY <2>2 DEF Tasks
    <3>4. mem.op[o].stage \in {"none", "returned"}
      BY <3>1, <3>2, <3>3 DEF Stages, DoneStages
    <3>5. mem.op[o].refs = 0
      BY <1>1, <2>3, <3>4 DEF OpsInv, OpRefs, OpExact, InPipe, One
    <3> QED BY <2>0, <3>4, <3>5 DEF Shape, InPipe
  <2>6. activeOps = 0 /\ instances = 0
    <3>1. Piped = {}
      BY <2>5 DEF Piped
    <3> QED BY <1>1, <2>0, <2>2, <3>1, FS_EmptySet DEF OpsInv, OpCounts
  <2>7. \A c \in Chunks : mem.chunk[c] = NoChunk
    BY <2>0, <2>4, <2>5, NoOpFacts DEF ChunksHeld, NoOpIs
  <2>8. ASSUME NEW r \in Resps PROVE mem.resp[r] = NoResp /\ mem.resp[r].refs = 0
    <3>1. InHandResp(Kept)[r] = 0
      BY <2>4 DEF InHandResp, One
    <3>2. OpHolds(mem.op, r) = 0
      BY <2>5, NoOpSums
    <3>3. ChunksIn(mem.chunk, r) = 0
      <4>1. IsFiniteSet(Chunks) /\ NoChunk.resp # r
        BY FiniteSlots, BridgeAssumption DEF NoChunk, Handles
      <4> QED BY <2>7, <4>1, SumZero DEF ChunksIn, One
    <3>4. RespBook(mem, mem.op, InHandResp(Kept), r)
      BY <2>0 DEF Books
    <3> QED BY <3>1, <3>2, <3>3, <3>4 DEF RespBook
  <2>9. ASSUME NEW i \in Insts PROVE mem.inst[i].refs = 0 /\ mem.inst[i].charged = 0
    <3>1. InHand(live, Kept)[i] = 0
      BY <2>2, <2>4 DEF InHand, One
    <3>2. OpRefsTo(mem.op, i) = 0
      BY <2>5, NoOpSums
    <3>3. RespsOf(mem.resp, i) = 0 /\ ChunksOf(mem.chunk, i) = 0
      BY <2>7, <2>8, NoRespSums
    <3>4. InstBook(mem, mem.op, InHand(live, Kept), i)
      BY <2>0 DEF Books
    <3>5. mem.inst[i].refs = 0 /\ mem.inst[i] = NoInst
      BY <3>1, <3>2, <3>3, <3>4 DEF InstBook
    <3> QED BY <3>5 DEF NoInst
  <2>10. mem.retained = 0
    BY <2>0, <2>9, FiniteSlots, SumZero DEF Books, ChargedIn
  <2>11. \A o \in Ops : mem.op[o].refs = 0
    BY <2>5, NoOpFacts DEF NoOpIs
  <2> QED BY <2>6, <2>7, <2>8, <2>9, <2>10, <2>11 DEF FreeInsts, FreeOps, FreeResps, FreeChunks
<1>2. ThreadInv /\ OpsInv /\ MemInv => Drained
  BY <1>1
<1> QED BY <1>2, BridgeThreads, BridgeOperations, BridgeMemory, PTL

\* The charges of an instance's operations,
LEMMA OpCharges ==
  ASSUME OpsInv, MemInv, NEW i \in Insts
  PROVE  MapThenSumSet(LAMBDA o : mem.op[o].charge, {o \in LiveOps : mem.op[o].inst = i}) = OpBytes(mem.op, i)
<1> DEFINE U == {o \in LiveOps : mem.op[o].inst = i}
           f == [o \in Ops |-> BytesBy(mem.op[o], i)]
           Eq(g) == g = [s \in SUBSET U |-> IF s = {} THEN 0 ELSE mem.op[Pick(s)].charge + g[s \ {Pick(s)}]]
           F == CHOOSE g : Eq(g)
<1>0. U \subseteq Ops /\ IsFiniteSet(Ops) /\ IsFiniteSet(U)
  <2>1. U \subseteq Ops
    BY DEF LiveOps
  <2> QED BY <2>1, FiniteSlots, FS_Subset
<1>1. MapThenSumSet(LAMBDA o : mem.op[o].charge, U) = F[U]
  BY DEF MapThenSumSet, MapThenFoldSet, Pick
<1>2. \A g : Eq(g) <=> SumEq(g, f, U)
  <2> SUFFICES ASSUME NEW g
               PROVE  [s \in SUBSET U |-> IF s = {} THEN 0 ELSE mem.op[Pick(s)].charge + g[s \ {Pick(s)}]]
                    = [s \in SUBSET U |-> IF s = {} THEN 0 ELSE f[Pick(s)] + g[s \ {Pick(s)}]]
    BY DEF SumEq
  <2>1. \A o \in U : f[o] = mem.op[o].charge
    BY <1>0 DEF BytesBy
  <2> HIDE DEF f, U
  <2>2. \A s \in SUBSET U : s # {} => f[Pick(s)] = mem.op[Pick(s)].charge
    BY <2>1, PickInside
  <2> QED BY <2>2
<1>3. /\ \A o \in Ops : f[o] \in Nat
      /\ \A o \in Ops \ U : f[o] = 0
  <2>1. mem.op \in [Ops -> OpRecords]
    BY MemFacts
  <2>2. \A o \in Ops : f[o] \in Nat
    BY <2>1 DEF BytesBy, OpRecords
  <2>3. \A o \in Ops : mem.op[o].inst = i => o \in LiveOps
    BY Pointers
  <2> QED BY <2>2, <2>3 DEF BytesBy
<1>4. OpBytes(mem.op, i) = SumOf(f, Ops)
  BY DEF OpBytes
<1> HIDE DEF Eq, U, f
<1>5. Eq(F)
  BY <1>0, <1>2, SumEqExists
<1>6. SumEq(F, f, U)
  BY <1>2, <1>5
<1> HIDE DEF F
<1>7. SumOf(f, Ops) = SumOf(f, U)
  BY <1>0, <1>3, SumMask
<1>8. SumOf(f, U) = F[U]
  BY <1>0, <1>6, SumIs
<1> QED BY <1>1, <1>4, <1>7, <1>8 DEF U

\* of its responses,
LEMMA RespCharges ==
  ASSUME OpsInv, MemInv, NEW i \in Insts
  PROVE  MapThenSumSet(LAMBDA r : mem.resp[r].charge, {r \in LiveResps : mem.resp[r].inst = i})
           = RespBytes(mem.resp, i)
<1> DEFINE U == {r \in LiveResps : mem.resp[r].inst = i}
           f == [r \in Resps |-> IF mem.resp[r].inst = i THEN mem.resp[r].charge ELSE 0]
           Eq(g) == g = [s \in SUBSET U |-> IF s = {} THEN 0 ELSE mem.resp[Pick(s)].charge + g[s \ {Pick(s)}]]
           F == CHOOSE g : Eq(g)
<1>0. U \subseteq Resps /\ IsFiniteSet(Resps) /\ IsFiniteSet(U)
  <2>1. U \subseteq Resps
    BY DEF LiveResps
  <2> QED BY <2>1, FiniteSlots, FS_Subset
<1>1. MapThenSumSet(LAMBDA r : mem.resp[r].charge, U) = F[U]
  BY DEF MapThenSumSet, MapThenFoldSet, Pick
<1>2. \A g : Eq(g) <=> SumEq(g, f, U)
  <2> SUFFICES ASSUME NEW g
               PROVE  [s \in SUBSET U |-> IF s = {} THEN 0 ELSE mem.resp[Pick(s)].charge + g[s \ {Pick(s)}]]
                    = [s \in SUBSET U |-> IF s = {} THEN 0 ELSE f[Pick(s)] + g[s \ {Pick(s)}]]
    BY DEF SumEq
  <2>1. \A r \in U : f[r] = mem.resp[r].charge
    BY <1>0
  <2> HIDE DEF f, U
  <2>2. \A s \in SUBSET U : s # {} => f[Pick(s)] = mem.resp[Pick(s)].charge
    BY <2>1, PickInside
  <2> QED BY <2>2
<1>3. /\ \A r \in Resps : f[r] \in Nat
      /\ \A r \in Resps \ U : f[r] = 0
  <2>1. mem.resp \in [Resps -> RespRecords]
    BY MemFacts
  <2>2. \A r \in Resps : f[r] \in Nat
    BY <2>1 DEF RespRecords
  <2>3. \A r \in Resps : mem.resp[r].inst = i => r \in LiveResps
    BY Pointers
  <2> QED BY <2>2, <2>3
<1>4. RespBytes(mem.resp, i) = SumOf(f, Resps)
  BY DEF RespBytes
<1> HIDE DEF Eq, U, f
<1>5. Eq(F)
  BY <1>0, <1>2, SumEqExists
<1>6. SumEq(F, f, U)
  BY <1>2, <1>5
<1> HIDE DEF F
<1>7. SumOf(f, Resps) = SumOf(f, U)
  BY <1>0, <1>3, SumMask
<1>8. SumOf(f, U) = F[U]
  BY <1>0, <1>6, SumIs
<1> QED BY <1>1, <1>4, <1>7, <1>8 DEF U

\* of its chunks,
LEMMA ChunkCharges ==
  ASSUME OpsInv, MemInv, NEW i \in Insts
  PROVE  MapThenSumSet(LAMBDA c : ChunkCost, {c \in LiveChunks : mem.chunk[c].inst = i}) = ChunkBytes(mem.chunk, i)
<1> DEFINE U == {c \in LiveChunks : mem.chunk[c].inst = i}
           f == [c \in Chunks |-> IF mem.chunk[c].inst = i THEN ChunkCost ELSE 0]
           Eq(g) == g = [s \in SUBSET U |-> IF s = {} THEN 0 ELSE ChunkCost + g[s \ {Pick(s)}]]
           F == CHOOSE g : Eq(g)
<1>0. U \subseteq Chunks /\ IsFiniteSet(Chunks) /\ IsFiniteSet(U)
  <2>1. U \subseteq Chunks
    BY DEF LiveChunks
  <2> QED BY <2>1, FiniteSlots, FS_Subset
<1>1. MapThenSumSet(LAMBDA c : ChunkCost, U) = F[U]
  BY DEF MapThenSumSet, MapThenFoldSet, Pick
<1>2. \A g : Eq(g) <=> SumEq(g, f, U)
  <2> SUFFICES ASSUME NEW g
               PROVE  [s \in SUBSET U |-> IF s = {} THEN 0 ELSE ChunkCost + g[s \ {Pick(s)}]]
                    = [s \in SUBSET U |-> IF s = {} THEN 0 ELSE f[Pick(s)] + g[s \ {Pick(s)}]]
    BY DEF SumEq
  <2>1. \A c \in U : f[c] = ChunkCost
    BY <1>0
  <2> HIDE DEF f, U
  <2>2. \A s \in SUBSET U : s # {} => f[Pick(s)] = ChunkCost
    BY <2>1, PickInside
  <2> QED BY <2>2
<1>3. /\ \A c \in Chunks : f[c] \in Nat
      /\ \A c \in Chunks \ U : f[c] = 0
  <2>1. ChunkCost \in Nat
    BY BridgeAssumption
  <2>2. \A c \in Chunks : mem.chunk[c].inst = i => c \in LiveChunks
    BY Pointers
  <2> QED BY <2>1, <2>2
<1>4. ChunkBytes(mem.chunk, i) = SumOf(f, Chunks)
  BY DEF ChunkBytes
<1> HIDE DEF Eq, U, f
<1>5. Eq(F)
  BY <1>0, <1>2, SumEqExists
<1>6. SumEq(F, f, U)
  BY <1>2, <1>5
<1> HIDE DEF F
<1>7. SumOf(f, Chunks) = SumOf(f, U)
  BY <1>0, <1>3, SumMask
<1>8. SumOf(f, U) = F[U]
  BY <1>0, <1>6, SumIs
<1> QED BY <1>1, <1>4, <1>7, <1>8 DEF U

\* and of all instances.
LEMMA AllCharges ==
  ASSUME \A i \in Insts : mem.inst[i].charged = ChargesOf(i)
  PROVE  MapThenSumSet(ChargesOf, Insts) = ChargedIn(mem.inst)
<1> DEFINE f == [i \in Insts |-> mem.inst[i].charged]
           Eq(g) == g = [s \in SUBSET Insts |-> IF s = {} THEN 0 ELSE ChargesOf(Pick(s)) + g[s \ {Pick(s)}]]
           F == CHOOSE g : Eq(g)
<1>0. IsFiniteSet(Insts)
  BY FiniteSlots
<1>1. MapThenSumSet(ChargesOf, Insts) = F[Insts]
  BY DEF MapThenSumSet, MapThenFoldSet, Pick
<1>2. \A g : Eq(g) <=> SumEq(g, f, Insts)
  <2> SUFFICES ASSUME NEW g
               PROVE  [s \in SUBSET Insts |-> IF s = {} THEN 0 ELSE ChargesOf(Pick(s)) + g[s \ {Pick(s)}]]
                    = [s \in SUBSET Insts |-> IF s = {} THEN 0 ELSE f[Pick(s)] + g[s \ {Pick(s)}]]
    BY DEF SumEq
  <2>1. \A i \in Insts : f[i] = ChargesOf(i)
    OBVIOUS
  <2> HIDE DEF f
  <2>2. \A s \in SUBSET Insts : s # {} => f[Pick(s)] = ChargesOf(Pick(s))
    BY <2>1, PickInside
  <2> QED BY <2>2
<1>3. ChargedIn(mem.inst) = SumOf(f, Insts)
  BY DEF ChargedIn
<1> HIDE DEF Eq, f
<1>4. Eq(F)
  BY <1>0, <1>2, SumEqExists
<1>5. SumEq(F, f, Insts)
  BY <1>2, <1>4
<1> HIDE DEF F
<1>6. SumOf(f, Insts) = F[Insts]
  BY <1>0, <1>5, SumIs
<1> QED BY <1>1, <1>3, <1>6

\* ChargesExact of the run `recovery`: every error path of bridge.c gives back exactly the bytes that
\* were charged, so that retained_bytes and each instance's charged are the costs of what is alive.
THEOREM BridgeChargesExact == Spec => []ChargesExact
<1>1. ASSUME OpsInv, MemInv PROVE ChargesExact
  <2>0. Books(mem, mem.op, InHand(live, Kept), InHandResp(Kept))
    BY <1>1, MemFacts DEF Mem
  <2>1. ASSUME NEW i \in Insts PROVE mem.inst[i].charged = ChargesOf(i)
    <3>1. mem.inst[i].charged = OpBytes(mem.op, i) + RespBytes(mem.resp, i) + ChunkBytes(mem.chunk, i)
      BY <2>0 DEF Books, InstBook
    <3> QED BY <1>1, <3>1, OpCharges, RespCharges, ChunkCharges DEF ChargesOf
  <2>2. mem.retained = ChargedIn(mem.inst)
    BY <2>0 DEF Books
  <2> QED BY <2>1, <2>2, AllCharges DEF ChargesExact
<1>2. OpsInv /\ MemInv => ChargesExact
  BY <1>1
<1> QED BY <1>2, BridgeOperations, BridgeMemory, PTL

\* The variables that no other invariant speaks of.
PlainInv ==
  /\ nextId \in 1..IdMax /\ created \in 0..CreateBudget
  /\ ownerDone \in BOOLEAN /\ ownerStarted \in BOOLEAN /\ wakePending \in BOOLEAN
  /\ waiting \subseteq Callers /\ parked \subseteq Ops

\* A wake leaves a flag.
LEMMA WakePlain ==
  ASSUME wakePending \in BOOLEAN, wake_owner
  PROVE  wakePending' \in BOOLEAN
BY DEF wake_owner, wake

\* create_async.
LEMMA CreatePlain ==
  ASSUME PlainInv, NEW t, NEW kind, NEW st, NEW wt, wt \subseteq Callers, CreateBody(t, kind, st, wt),
         created' \in 0..CreateBudget
  PROVE  PlainInv'
<1> DEFINE id0 == IF st = 0 THEN 1 ELSE nextId
<1>0. id0 \in 1..IdMax /\ IdMax \in Nat /\ IdMax >= 2
  BY BridgeAssumption DEF PlainInv
<1>1. UNCHANGED parked
  BY DEF CreateBody
<1>2. wakePending' \in BOOLEAN
  <2>1. UNCHANGED wakePending \/ wake_owner
    BY DEF CreateBody, enqueue, wake
  <2> QED BY <2>1, WakePlain DEF PlainInv
<1>3. waiting' \subseteq Callers
  BY DEF CreateBody, enqueue, Broadcast, RuntimeFails
<1>4. ownerDone' \in BOOLEAN /\ ownerStarted' \in BOOLEAN
  BY DEF CreateBody, RuntimeFails, RuntimeRuns, PlainInv
<1>5. nextId' \in 1..IdMax
  <2>1. \/ nextId' = 1
        \/ nextId' = id0
        \/ id0 < IdMax - 1 /\ nextId' \in {id0, id0 + 1, id0 + 2}
    BY DEF CreateBody, RuntimeFails
  <2> HIDE DEF id0
  <2> QED BY <1>0, <2>1
<1> QED BY <1>1, <1>2, <1>3, <1>4, <1>5 DEF PlainInv

\* The identifier of an accepted operation.
LEMMA NextPlain ==
  ASSUME PlainInv, nextId # IdMax, nextId' = nextId + 1
  PROVE  nextId' \in 1..IdMax
<1>1. IdMax \in Nat /\ nextId \in 1..IdMax
  BY BridgeAssumption DEF PlainInv
<1> QED BY <1>1
\* An accepted call.
LEMMA AcceptPlain ==
  ASSUME PlainInv, NEW t, NEW kind, NEW i, NEW r, NEW input, NEW m, Accept(t, kind, i, r, input, m)
  PROVE  PlainInv'
<1>1. nextId # IdMax /\ nextId' = nextId + 1 /\ wake_owner /\ waiting' = {}
      /\ UNCHANGED <<ownerDone, ownerStarted, parked, created>>
  BY DEF Accept, enqueue, Broadcast, threads, loopVars
<1> QED BY <1>1, NextPlain, WakePlain DEF PlainInv

\* Every entry into the API.
LEMMA EnterPlain ==
  ASSUME PlainInv, NEW t \in Callers, Enter(t)
  PROVE  PlainInv'
<1>0. waiting \subseteq Callers /\ created \in 0..CreateBudget /\ CreateBudget \in Nat
  BY BridgeAssumption DEF PlainInv
<1>1. ASSUME NEW kind, create_async(t, kind) PROVE PlainInv'
  <2>1. created < CreateBudget /\ created' = created + 1 /\ CreateBody(t, kind, state, waiting)
    BY <1>1 DEF create_async
  <2>2. created' \in 0..CreateBudget
    BY <1>0, <2>1
  <2> QED BY <1>0, <2>1, <2>2, CreatePlain
<1>2. ASSUME NEW kind, create_async_reaps(t, kind) PROVE PlainInv'
  <2>1. created < CreateBudget /\ created' = created + 1
        /\ UNCHANGED <<nextId, ownerDone, ownerStarted, wakePending, waiting, parked>>
    BY <1>2 DEF create_async_reaps, heap, threads, waker, wake, loopVars
  <2>2. created' \in 0..CreateBudget
    BY <1>0, <2>1
  <2> QED BY <2>1, <2>2 DEF PlainInv
<1>3. ASSUME NEW i, close_async(t, i) \/ hs_submit_async(t, i) PROVE PlainInv'
  BY <1>3, AcceptPlain DEF close_async, hs_submit_async
<1>4. ASSUME NEW i, hs_submit_abandons(t, i) PROVE PlainInv'
  <2>1. nextId # IdMax /\ nextId' = nextId + 1
        /\ UNCHANGED <<ownerDone, ownerStarted, wakePending, waiting, parked, created>>
    BY <1>4 DEF hs_submit_abandons, threads, waker, wake, loopVars, hostVars
  <2> QED BY <2>1, NextPlain DEF PlainInv
<1>5. ASSUME NEW r, hs_response_read_async(t, r) PROVE PlainInv'
  BY <1>5, AcceptPlain DEF hs_response_read_async
<1>6. ASSUME NEW r, hs_response_release(t, r) PROVE PlainInv'
  <2>1. UNCHANGED <<ownerDone, ownerStarted, parked, created>>
    BY <1>6 DEF hs_response_release, threads, loopVars
  <2>2. \/ nextId # IdMax /\ nextId' = nextId + 1 /\ wake_owner /\ waiting' = {}
        \/ UNCHANGED <<nextId, wakePending, waiting>>
    BY <1>6 DEF hs_response_release, enqueue, Broadcast, wake
  <2> QED BY <2>1, <2>2, NextPlain, WakePlain DEF PlainInv
<1>7. ASSUME NEW x, \/ hs_chunk_release(t, x) \/ hs_operation_cancel(t, x) \/ release(t, x)
                    \/ sync_waits(t, x) \/ stop_waits(t, x)
      PROVE  PlainInv'
  <2>1. /\ UNCHANGED <<nextId, ownerDone, ownerStarted, waiting, parked, created>>
        /\ wake_owner \/ UNCHANGED wakePending
    BY <1>7 DEF hs_chunk_release, hs_operation_cancel, release, sync_waits, stop_waits, heap, threads, waker,
                wake, loopVars, hostVars
  <2> QED BY <2>1, WakePlain DEF PlainInv
<1> QED BY <1>1, <1>2, <1>3, <1>4, <1>5, <1>6, <1>7 DEF Enter

\* A host thread goes on in its blocking call.
LEMMA ResumePlain ==
  ASSUME PlainInv, NEW h \in Hosts, Resume(h)
  PROVE  PlainInv'
<1>0. waiting \subseteq Callers /\ created \in 0..CreateBudget /\ {} \subseteq Callers /\ h \in Callers
  BY DEF PlainInv, Callers
<1>1. CASE CreateResumes(h)
  <2>1. CASE ReapStep(h, state)
    <3>1. UNCHANGED <<nextId, ownerDone, ownerStarted, wakePending, parked, created>> /\ waiting' \subseteq waiting \cup {h}
      BY <2>1 DEF ReapStep, heap, waker, wake, loopVars
    <3> QED BY <1>0, <3>1 DEF PlainInv
  <2>2. CASE CreateBody(h, call[h].on, state, waiting) /\ UNCHANGED created
    BY <1>0, <2>2, CreatePlain
  <2> QED BY <1>1, <2>1, <2>2 DEF CreateResumes
<1>2. CASE CreateJoins(h)
  <2>1. CreateBody(h, call[h].on, 0, {}) /\ UNCHANGED created
    BY <1>2 DEF CreateJoins
  <2> QED BY <1>0, <2>1, CreatePlain
<1>3. CASE release_barrier(h) \/ barrier_joins(h) \/ sync_resumes(h) \/ stop_resumes(h)
  <2>1. UNCHANGED <<nextId, ownerDone, ownerStarted, wakePending, parked, created>> /\ waiting' \subseteq waiting \cup {h}
    BY <1>3 DEF release_barrier, barrier_joins, sync_resumes, stop_resumes, heap, threads, waker, wake, loopVars, Broadcast
  <2> QED BY <1>0, <2>1 DEF PlainInv
<1> QED BY <1>1, <1>2, <1>3 DEF Resume

\* The library threads.
LEMMA NotifyPlain ==
  ASSUME PlainInv, Notify
  PROVE  PlainInv'
<1>1. /\ UNCHANGED <<nextId, ownerDone, ownerStarted, parked, created>>
      /\ wake_owner \/ UNCHANGED wakePending
  BY DEF Notify, notify_waits, notify_calls, notify_returns, notify_leaves, notify_joins, notify_exits,
         heap, threads, waker, wake, loopVars, hostVars
<1>2. waiting' \subseteq waiting \cup {Notifier}
  BY DEF Notify, notify_waits, notify_calls, notify_returns, notify_leaves, notify_joins, notify_exits, Broadcast
<1>3. Notifier \in Callers
  BY DEF Callers
<1> QED BY <1>1, <1>2, <1>3, WakePlain DEF PlainInv
\* A step of the loop, and a failure of it.
LEMMA LoopPlain ==
  ASSUME PlainInv, Loop \/ Fault
  PROVE  PlainInv'
<1>1. CASE owner_fails_command
  <2>1. UNCHANGED <<nextId, ownerDone, ownerStarted, created>> /\ wake_owner /\ parked' = {} /\ waiting' = {}
    BY <1>1 DEF owner_fails_command, hs_bridge_complete, threads, hostVars, Broadcast
  <2> QED BY <2>1, WakePlain DEF PlainInv
<1>2. CASE owner_attaches \/ owner_reads \/ owner_acks \/ owner_unwinds \/ owner_stops \/ owner_exits
           \/ owner_boot_fails
  BY <1>2 DEF owner_attaches, owner_reads, owner_acks, owner_unwinds, owner_stops, owner_exits,
              owner_boot_fails, heap, threads, waker, wake, hostVars, PlainInv
<1>3. CASE owner_pops \/ owner_idles \/ owner_retires \/ owner_loop_fails
  BY <1>3 DEF owner_pops, owner_idles, owner_retires, owner_loop_fails, threads, waker, wake, hostVars,
              Broadcast, PlainInv
<1> QED BY <1>1, <1>2, <1>3 DEF Loop, Fault

\* A task ends, or goes on.
LEMMA TaskPlain ==
  ASSUME PlainInv, NEW o \in Ops, Task(o)
  PROVE  PlainInv'
<1>1. ASSUME NEW m, NEW ok, Finish(m, o, ok) PROVE PlainInv'
  <2>1. UNCHANGED <<nextId, ownerDone, ownerStarted, created>> /\ wake_owner /\ parked' = {} /\ waiting' = {}
    BY <1>1 DEF Finish, hs_bridge_complete, taskRest, threads, hostVars, Broadcast
  <2> QED BY <2>1, WakePlain DEF PlainInv
<1>2. ASSUME NEW m, Step(m), parked' \subseteq parked \cup {o} PROVE PlainInv'
  BY <1>2 DEF Step, taskRest, threads, hostVars, wake, PlainInv
<1>3. \/ \E m, ok : Finish(m, o, ok)
      \/ \E m : Step(m) /\ parked' \subseteq parked \cup {o}
  <2>1. CASE task_starts(o)
    <3>1. \/ Finish(mem, o, FALSE)
          \/ Step(Go(o, "running")) /\ UNCHANGED parked
          \/ Step(Go(o, "reading")) /\ UNCHANGED parked
          \/ Step([Cancel(Go(o, "stopping"), Siblings(o)) EXCEPT
                      !.inst[mem.op[o].inst].up = @ /\ mem.inst[mem.op[o].inst].server])
             /\ parked' = parked \ Siblings(o)
      BY <2>1 DEF task_starts
    <3> QED BY <3>1
  <2>2. CASE task_opens(o) \/ task_serves(o) \/ task_nexts(o) \/ task_discards(o) \/ task_raises(o) \/ task_drops(o)
    BY <2>2, Zenon DEF task_opens, task_serves, task_nexts, task_discards, task_raises, task_drops
  <2>3. CASE task_handles(o) \/ task_reads(o)
    BY <2>3, Zenon DEF task_handles, task_reads
  <2>4. CASE task_awaits_chunk(o) \/ task_stops(o) \/ task_closes(o)
    BY <2>4, Zenon DEF task_awaits_chunk, task_stops, task_closes
  <2> QED BY <2>1, <2>2, <2>3, <2>4 DEF Task
<1> QED BY <1>1, <1>2, <1>3

\* The variables keep their types.
LEMMA BridgePlain == Spec => []PlainInv
<1>1. Init => PlainInv
  <2>1. IdMax \in Nat /\ IdMax >= 2 /\ CreateBudget \in Nat
    BY BridgeAssumption
  <2>2. 1 \in 1..IdMax /\ 0 \in 0..CreateBudget
    BY <2>1
  <2> QED BY <2>2 DEF Init, PlainInv
<1>2. ASSUME PlainInv, [Next]_vars PROVE PlainInv'
  <2>1. CASE UNCHANGED vars
    BY <1>2, <2>1 DEF vars, heap, threads, waker, wake, loopVars, hostVars, PlainInv
  <2>2. ASSUME NEW i \in Insts, server_ends(i) PROVE PlainInv'
    BY <1>2, <2>2 DEF server_ends, Step, taskRest, threads, hostVars, wake, PlainInv
  <2> QED BY <1>2, <2>1, <2>2, EnterPlain, ResumePlain, NotifyPlain, LoopPlain, TaskPlain DEF Next
<1> QED BY <1>1, <1>2, PTL DEF Spec

\* TypeOK of the run `recovery`: the fields of bridge.c keep their types; no counter
\* and no charge underflows, and retained_bytes stays within its bound.
THEOREM BridgeTypes == Spec => []TypeOK
<1>1. ASSUME ThreadInv, OpsInv, MemInv, PlainInv PROVE TypeOK
  <2>1. /\ Mem(mem, live, Kept) /\ Rest(mem, Ops) /\ mem.retained \in Nat /\ live \subseteq Insts /\ instances \in Nat
        /\ mem.inst \in [Insts -> InstRecords] /\ mem.op \in [Ops -> OpRecords]
        /\ mem.resp \in [Resps -> RespRecords]
    BY <1>1, MemFacts
  <2>2. mem.chunk \in [Chunks -> [inst : Insts \cup {None}, resp : Resps \cup {None}]]
    BY <2>1 DEF Mem, Books, ChunkRecords
  <2>3. mem.retained \in 0..Total
    <3>1. mem.retained <= Total /\ Total \in Nat
      BY <2>1, BridgeAssumption DEF Rest, Bound
    <3> QED BY <2>1, <3>1
  <2>4. activeOps \in Nat
    BY <1>1, FS_CardinalityType DEF OpsInv, OpCounts
  <2>5. commands \in Seq(Ops) /\ notices \in Seq(Ops) /\ noteOp \in Ops \cup {None} /\ owned \subseteq Handles
    BY <1>1 DEF OpsInv, OpTypes
  <2>6. /\ state \in 0..5 /\ pipe \in {"none", "empty", "byte"} /\ wakeFd \in BOOLEAN
        /\ owner \in {"none", "boot", "read", "ack", "pop", "scan", "unwind", "unwound", "fail", "leaving", "exit"}
        /\ notifier \in {"none", "loop", "callback", "join", "leaving", "exit"}
    <3>1. ThreadsAgree /\ PipeAgrees
      BY <1>1 DEF ThreadInv
    <3>2. state \in {0, 1, 2, 3, 4, 5}
      BY <3>1 DEF ThreadsAgree
    <3>3. owner \in {"none", "boot", "read", "ack", "pop", "scan", "unwind", "unwound", "fail", "leaving", "exit"}
          /\ notifier \in {"none", "loop", "callback", "join", "leaving", "exit"}
      BY <3>1 DEF ThreadsAgree
    <3>4. pipe \in {"none", "empty", "byte"} /\ wakeFd \in BOOLEAN
      BY <3>1 DEF PipeAgrees
    <3>5. state \in 0..5
      BY <3>2
    <3> QED BY <3>3, <3>4, <3>5
  <2>7. \A h \in Hosts : call[h].at \in {"idle", "reap", "join", "barrier", "barrier_join", "sync", "stop"}
    BY <1>1 DEF ThreadInv, CallTypeOK, Places
  <2> QED BY <1>1, <2>1, <2>2, <2>3, <2>4, <2>5, <2>6, <2>7 DEF TypeOK, PlainInv
<1>2. ThreadInv /\ OpsInv /\ MemInv /\ PlainInv => TypeOK
  BY <1>1
<1> QED BY <1>2, BridgeThreads, BridgeOperations, BridgeMemory, BridgePlain, PTL

-----------------------------------------------------------------------------
(* The owner asleep                                                         *)

\* An internal release is made for a response that its host has released.
ReleasedFirst ==
  \A o \in Ops : mem.op[o].refs # 0 /\ mem.op[o].kind = "drop" => mem.resp[mem.op[o].resp].released
\* What a parked task waits for has not come.
Waits(o) ==
  /\ mem.op[o].kind \in {"read", "close"}
  /\ IF mem.op[o].kind = "read" THEN mem.resp[mem.op[o].resp].chunks # 0
                                ELSE mem.inst[mem.op[o].inst].active > 1
\* Nothing needs the owner.
Settled == /\ ~Unused
           /\ \A o \in Tasks : Stopped(o) => mem.op[o].cancelling
           /\ \A o \in parked : o \in Tasks /\ Waits(o)
WakeInv == /\ ReleasedFirst
           /\ owner \in {"pop", "scan"} => parked = {}
           /\ Asleep => Settled

\* A response that was released stays so while anybody points to it.
Lasts(m2, m) ==
  \A r \in Resps : m.resp[r].released /\ m2.resp[r].refs # 0 => m2.resp[r].released
\* An operation that stays what it was for the owner: queued, a task, or neither.
SameTask(k, old) ==
  /\ k.stage \in Pending <=> old.stage \in Pending
  /\ k.stage \in TaskStages <=> old.stage \in TaskStages
  /\ old.stage \in Pending => /\ k.kind = old.kind /\ k.inst = old.inst /\ k.resp = old.resp
                              /\ k.cancelled = old.cancelled
                              /\ old.cancelling => k.cancelling
\* No instance has begun to close.
NoneCloses(m2, m) == \A i \in Insts : m2.inst[i].closing => m.inst[i].closing
\* A step the owner need not know of.
Quietly == /\ mem'.chunk = mem.chunk /\ NoneCloses(mem', mem)
           /\ \A p \in Ops : SameTask(mem'.op[p], mem.op[p])
\* No internal release is new.
NoneDrops(ops2, ops) ==
  \A p \in Ops : ops2[p].refs # 0 /\ ops2[p].kind = "drop" =>
    ops[p].refs # 0 /\ ops[p].kind = "drop" /\ ops[p].resp = ops2[p].resp

\* An internal release keeps pointing to its response.
LEMMA DropsLast ==
  ASSUME OpsInv', MemInv', ReleasedFirst, Lasts(mem', mem), NoneDrops(mem'.op, mem.op)
  PROVE  ReleasedFirst'
<1> SUFFICES ASSUME NEW o \in Ops, mem'.op[o].refs # 0, mem'.op[o].kind = "drop"
             PROVE  mem'.resp[mem'.op[o].resp].released
  BY DEF ReleasedFirst
<1>1. Mem(mem', live', Kept') /\ Shape(mem'.op[o])
  BY DEF MemInv, Mem, Tidy
<1>2. mem'.op[o].resp \in Resps
  BY <1>1 DEF Shape
<1>3. mem'.resp[mem'.op[o].resp].refs # 0
  BY <1>1, <1>2, RespThere
<1>4. mem.resp[mem.op[o].resp].released /\ mem.op[o].resp = mem'.op[o].resp
  BY DEF ReleasedFirst, NoneDrops
<1> QED BY <1>2, <1>3, <1>4 DEF Lasts

\* A step that wakes the owner finds it awake afterwards, wherever it was.
LEMMA Woken ==
  ASSUME ThreadInv, WakeInv, ReleasedFirst', wake_owner, owner' = owner,
         UNCHANGED parked \/ owner \notin {"pop", "scan"}
  PROVE  WakeInv'
<1>1. owner = "read" => pipe' = "byte"
  <2>1. owner = "read" => state = 2 /\ wakeFd = TRUE /\ pipe # "none" /\ (pipe # "byte" => wakePending = FALSE)
    BY DEF ThreadInv, ThreadsAgree, PipeAgrees, Handshake
  <2> QED BY <2>1 DEF wake_owner, wake
<1>2. ~Asleep'
  BY <1>1 DEF Asleep
<1>3. owner' \in {"pop", "scan"} => parked' = {}
  BY DEF WakeInv
<1> QED BY <1>2, <1>3 DEF WakeInv

\* A step to where the owner does not sleep, and is not about to.
LEMMA Elsewhere ==
  ASSUME ReleasedFirst', owner' \notin {"read", "pop", "scan"}
  PROVE  WakeInv'
BY DEF WakeInv, Asleep

\* A step that touches nothing the owner looks at.
LEMMA Unseen ==
  ASSUME WakeInv, UNCHANGED <<mem, owner, pipe, instances, activeOps, commands, parked>>
  PROVE  WakeInv'
<1>1. ReleasedFirst'
  BY DEF WakeInv, ReleasedFirst
<1>2. Asleep' => Settled'
  BY DEF WakeInv, Asleep, Settled, Unused, Tasks, Stopped, Waits
<1>3. owner' \in {"pop", "scan"} => parked' = {}
  BY DEF WakeInv
<1> QED BY <1>1, <1>2, <1>3 DEF WakeInv

\* The counters a parked task looks at.
LEMMA WaitsOn ==
  ASSUME OpsInv, MemInv
  PROVE  /\ \A i \in Insts : mem.inst[i].active = OpActive(mem.op, i)
         /\ \A r \in Resps : mem.resp[r].chunks = ChunksIn(mem.chunk, r)
         /\ \A o \in Ops : Shape(mem.op[o]) /\ mem.op[o] \in OpRecords
BY DEF MemInv, Mem, Books, InstBook, RespBook, Tidy
\* The same after a step.
LEMMA WaitsThen ==
  ASSUME OpsInv', MemInv'
  PROVE  /\ \A i \in Insts : mem'.inst[i].active = OpActive(mem'.op, i)
         /\ \A r \in Resps : mem'.resp[r].chunks = ChunksIn(mem'.chunk, r)
BY DEF MemInv, Mem, Books, InstBook, RespBook

\* What a task is.
LEMMA TaskIs ==
  ASSUME OpsInv, MemInv, NEW o \in Tasks
  PROVE  o \in Ops /\ mem.op[o].stage \in TaskStages /\ mem.op[o].stage \in Pending
         /\ mem.op[o].refs # 0 /\ mem.op[o].inst \in Insts
         /\ (mem.op[o].resp \in Resps <=> mem.op[o].kind \in {"read", "drop"})
<1>1. o \in Ops /\ mem.op[o].stage \in TaskStages
  BY DEF Tasks
<1>2. Shape(mem.op[o])
  BY <1>1, WaitsOn
<1>3. mem.op[o].refs # 0
  BY <1>1, <1>2 DEF Shape, NoOp, TaskStages
<1> QED BY <1>1, <1>2, <1>3 DEF Shape, Pending

\* A step the owner need not know of leaves it asleep with nothing to do.
LEMMA Undisturbed ==
  ASSUME Before, MemInv', WakeInv, ReleasedFirst', UNCHANGED <<owner, pipe, instances, activeOps, commands>>,
         Quietly, owner \in {"pop", "scan"} => UNCHANGED parked,
         \A o \in parked' : o \in parked \/ (UNCHANGED mem /\ o \in Tasks /\ Waits(o))
  PROVE  WakeInv'
<1>0. OpsInv /\ MemInv /\ OpsInv'
  BY DEF Before
<1>1. owner' \in {"pop", "scan"} => parked' = {}
  BY DEF WakeInv
<1>2. ASSUME Asleep' PROVE Settled'
  <2>1. Settled
    BY <1>2 DEF WakeInv, Asleep
  <2>2. ~Unused'
    BY <2>1 DEF Settled, Unused
  <2>3. Tasks' = Tasks /\ \A p \in Ops : SameTask(mem'.op[p], mem.op[p])
    BY DEF Quietly, SameTask, Tasks
  <2>4. ASSUME NEW o \in Tasks
        PROVE  /\ o \in Ops /\ mem.op[o].inst \in Insts
               /\ mem'.op[o].kind = mem.op[o].kind /\ mem'.op[o].inst = mem.op[o].inst
               /\ mem'.op[o].resp = mem.op[o].resp /\ mem'.op[o].cancelled = mem.op[o].cancelled
               /\ mem.op[o].cancelling => mem'.op[o].cancelling
    BY <1>0, <2>3, <2>4, TaskIs DEF SameTask
  <2>5. ASSUME NEW o \in Tasks', Stopped(o)' PROVE mem'.op[o].cancelling
    <3>1. o \in Tasks
      BY <2>3
    <3>2. mem'.inst[mem.op[o].inst].closing => mem.inst[mem.op[o].inst].closing
      BY <2>4, <3>1 DEF Quietly, NoneCloses
    <3>3. Stopped(o)
      BY <2>3, <2>4, <2>5, <3>1, <3>2 DEF Stopped
    <3> QED BY <2>1, <2>4, <3>1, <3>3 DEF Settled
  <2>6. ASSUME NEW o \in Tasks, Waits(o) PROVE Waits(o)'
    <3>1. OpActive(mem'.op, mem.op[o].inst) = OpActive(mem.op, mem.op[o].inst)
      <4> DEFINE i == mem.op[o].inst
      <4>1. i # None
        BY <2>4, BridgeAssumption DEF Handles
      <4>2. ASSUME NEW p \in Ops PROVE ActiveBy(mem'.op[p], i) = ActiveBy(mem.op[p], i)
        BY <2>3, <4>2 DEF SameTask, ActiveBy, Pending
      <4> QED BY <4>2 DEF OpActive
    <3>2. ChunksIn(mem'.chunk, mem.op[o].resp) = ChunksIn(mem.chunk, mem.op[o].resp)
      BY DEF Quietly
    <3>3. mem'.inst[mem.op[o].inst].active = mem.inst[mem.op[o].inst].active
      BY <1>0, <2>4, <3>1, WaitsOn, WaitsThen
    <3>4. mem.op[o].kind = "read" =>
            mem'.resp[mem.op[o].resp].chunks = mem.resp[mem.op[o].resp].chunks
      BY <1>0, <3>2, TaskIs, WaitsOn, WaitsThen
    <3> QED BY <2>4, <2>6, <3>3, <3>4 DEF Waits
  <2>7. ASSUME NEW o \in parked' PROVE o \in Tasks' /\ Waits(o)'
    BY <2>1, <2>3, <2>6, <2>7 DEF Settled
  <2> QED BY <2>2, <2>5, <2>7 DEF Settled
<1> QED BY <1>1, <1>2 DEF WakeInv

\* An instance of a heap in the middle of a release, where a counter may be anything.
InstTypes ==
  [refs : Int, server : BOOLEAN, closing : BOOLEAN, closed : BOOLEAN, active : Int, notifications : Int,
   responses : Int, charged : Int, up : BOOLEAN]
Form(m) == IsHeap(m) /\ m.inst \in [Insts -> InstTypes] /\ m.resp \in [Resps -> RespTypes]
\* References go; nothing begins to close.
Lighter(m2, m) == Form(m2) /\ m2.chunk = m.chunk /\ NoneCloses(m2, m) /\ Lasts(m2, m)

\* One after another, of which one touches the responses.
LEMMA LighterTwice ==
  ASSUME NEW m, NEW m1, NEW m2, Lighter(m1, m), Lighter(m2, m1), m1.resp = m.resp \/ m2.resp = m1.resp
  PROVE  Lighter(m2, m)
BY DEF Lighter, NoneCloses, Lasts

\* Only one instance is otherwise, and not by beginning to close.
LEMMA LighterAt ==
  ASSUME NEW m, Form(m), NEW m2, IsHeap(m2), NEW i, NEW q, m2.inst = [m.inst EXCEPT ![i] = q],
         i \in Insts => q \in InstTypes /\ (q.closing => m.inst[i].closing),
         m2.resp = m.resp, m2.chunk = m.chunk
  PROVE  Lighter(m2, m)
<1>1. m2.inst \in [Insts -> InstTypes] /\ \A j \in Insts : m2.inst[j].closing => m.inst[j].closing
  <2>1. CASE i \in Insts
    BY <2>1 DEF Form
  <2>2. CASE i \notin Insts
    BY <2>2 DEF Form
  <2> QED BY <2>1, <2>2
<1> QED BY <1>1 DEF Lighter, Form, NoneCloses, Lasts

\* instance_drop,
LEMMA LighterInst ==
  ASSUME NEW m, Form(m), NEW i
  PROVE  Lighter(instance_drop(m, i), m) /\ instance_drop(m, i).resp = m.resp
<1> DEFINE m2 == instance_drop(m, i)
           q == Less(m.inst[i])
<1>1. IsHeap(m2) /\ m2.inst = [m.inst EXCEPT ![i] = q] /\ m2.resp = m.resp /\ m2.chunk = m.chunk
  BY InstDropIs DEF Form
<1>2. i \in Insts => q \in InstTypes /\ (q.closing => m.inst[i].closing)
  <2> SUFFICES ASSUME i \in Insts PROVE q \in InstTypes /\ (q.closing => m.inst[i].closing)
    OBVIOUS
  <2>1. m.inst[i] \in InstTypes
    BY DEF Form
  <2>2. NoInst \in InstTypes /\ NoInst.closing = FALSE
    BY DEF NoInst, InstTypes
  <2>3. \A k \in InstTypes : [k EXCEPT !.refs = @ - 1] \in InstTypes /\ [k EXCEPT !.refs = @ - 1].closing = k.closing
    BY DEF InstTypes
  <2> QED BY <2>1, <2>2, <2>3 DEF Less
<1> HIDE DEF m2, q
<1>3. Lighter(m2, m)
  BY <1>1, <1>2, LighterAt
<1> QED BY <1>1, <1>3 DEF m2

\* uncharge,
LEMMA LighterUncharge ==
  ASSUME NEW m, Form(m), NEW i, NEW n \in Int
  PROVE  Lighter(uncharge(m, i, n), m) /\ uncharge(m, i, n).resp = m.resp /\ uncharge(m, i, n).op = m.op
<1> DEFINE m2 == uncharge(m, i, n)
           q == [m.inst[i] EXCEPT !.charged = @ - n]
<1>1. IsHeap(m2) /\ m2.inst = [m.inst EXCEPT ![i] = q] /\ m2.resp = m.resp /\ m2.chunk = m.chunk /\ m2.op = m.op
  BY DEF Form, IsHeap, uncharge
<1>2. i \in Insts => q \in InstTypes /\ (q.closing => m.inst[i].closing)
  <2>1. i \in Insts => m.inst[i] \in InstTypes
    BY DEF Form
  <2> QED BY <2>1 DEF InstTypes
<1> HIDE DEF m2, q
<1>3. Lighter(m2, m)
  BY <1>1, <1>2, LighterAt
<1> QED BY <1>1, <1>3 DEF m2

\* response_drop
LEMMA LighterResp ==
  ASSUME NEW m, Form(m), NEW r \in Resps
  PROVE  Lighter(response_drop(m, r), m)
<1> DEFINE i == m.resp[r].inst
           m1 == uncharge(m, i, m.resp[r].charge)
           q == [m1.inst[i] EXCEPT !.responses = @ - 1]
           m2 == [m1 EXCEPT !.inst[i].responses = @ - 1, !.resp[r] = NoResp]
<1>0. m.resp[r] \in RespTypes /\ m.resp[r].charge \in Int
  BY DEF Form, RespTypes
<1>1. CASE m.resp[r].refs = 1
  <2>1. Lighter(m1, m) /\ m1.resp = m.resp
    BY <1>0, LighterUncharge
  <2> HIDE DEF m1, i
  <2>2. IsHeap(m2) /\ m2.inst = [m1.inst EXCEPT ![i] = q] /\ m2.resp = [m1.resp EXCEPT ![r] = NoResp]
        /\ m2.chunk = m1.chunk
    BY <2>1 DEF Lighter, Form, IsHeap
  <2>3. m2.inst \in [Insts -> InstTypes] /\ \A j \in Insts : m2.inst[j].closing => m1.inst[j].closing
    <3>1. i \in Insts => q \in InstTypes /\ q.closing = m1.inst[i].closing
      <4>1. i \in Insts => m1.inst[i] \in InstTypes
        BY <2>1 DEF Lighter, Form
      <4> QED BY <4>1 DEF InstTypes
    <3> HIDE DEF q, m2
    <3>2. CASE i \in Insts
      BY <2>1, <2>2, <3>1, <3>2 DEF Lighter, Form
    <3>3. CASE i \notin Insts
      BY <2>1, <2>2, <3>3 DEF Lighter, Form
    <3> QED BY <3>2, <3>3
  <2>4. NoResp \in RespTypes /\ NoResp.refs = 0
    BY DEF NoResp, RespTypes
  <2> HIDE DEF m2, q
  <2>5. m2.resp \in [Resps -> RespTypes] /\ Lasts(m2, m1)
    BY <2>1, <2>2, <2>4 DEF Lighter, Form, Lasts
  <2>6. Lighter(m2, m1)
    BY <2>2, <2>3, <2>5 DEF Lighter, Form, NoneCloses
  <2>7. Lighter(m2, m)
    BY <2>1, <2>6, LighterTwice
  <2>8. Lighter(instance_drop(m2, i), m2) /\ instance_drop(m2, i).resp = m2.resp
    BY <2>6, LighterInst DEF Lighter
  <2>9. Lighter(instance_drop(m2, i), m)
    BY <2>7, <2>8, LighterTwice
  <2> QED BY <1>1, <2>9 DEF response_drop, m2, m1, i
<1>2. CASE m.resp[r].refs # 1
  <2> DEFINE l == [m.resp[r] EXCEPT !.refs = @ - 1]
             m3 == [m EXCEPT !.resp[r].refs = @ - 1]
  <2>1. response_drop(m, r) = m3
    BY <1>2 DEF response_drop
  <2>2. IsHeap(m3) /\ m3.inst = m.inst /\ m3.resp = [m.resp EXCEPT ![r] = l] /\ m3.chunk = m.chunk
    BY DEF Form, IsHeap
  <2>3. l \in RespTypes /\ l.released = m.resp[r].released
    BY <1>0 DEF RespTypes
  <2> HIDE DEF m3, l
  <2>4. m3.resp \in [Resps -> RespTypes] /\ Lasts(m3, m)
    BY <2>2, <2>3 DEF Form, Lasts
  <2> QED BY <2>1, <2>2, <2>4 DEF Lighter, Form, NoneCloses
<1> QED BY <1>1, <1>2

\* and op_drop release so.
LEMMA LighterOp ==
  ASSUME NEW m, Form(m), NEW o, m.op[o].charge \in Int, m.op[o].resp \in Resps \cup {None}
  PROVE  Lighter(op_drop(m, o), m)
<1> DEFINE i == m.op[o].inst
           r == m.op[o].resp
           m1 == uncharge(m, i, m.op[o].charge)
           m2 == IF r = None THEN m1 ELSE response_drop(m1, r)
           m3 == instance_drop(m2, i)
           m4 == [m3 EXCEPT !.op[o] = NoOp]
           m5 == [m EXCEPT !.op[o].refs = @ - 1]
<1>1. op_drop(m, o) = IF m.op[o].refs = 1 THEN m4 ELSE m5
  BY DEF op_drop
<1>2. Lighter(m1, m) /\ m1.resp = m.resp
  BY LighterUncharge
<1>3. Lighter(m2, m1)
  <2> HIDE DEF m1
  <2>1. Lighter(m1, m1)
    BY <1>2 DEF Lighter, NoneCloses, Lasts
  <2>2. r # None => Lighter(response_drop(m1, r), m1)
    BY <1>2, LighterResp DEF Lighter
  <2> QED BY <2>1, <2>2
<1> HIDE DEF m1
<1>4. Lighter(m2, m)
  <2> HIDE DEF m2
  <2> QED BY <1>2, <1>3, LighterTwice
<1> HIDE DEF m2
<1>5. Lighter(m3, m2) /\ m3.resp = m2.resp
  BY <1>4, LighterInst DEF Lighter
<1>6. Lighter(m3, m)
  <2> HIDE DEF m3
  <2> QED BY <1>4, <1>5, LighterTwice
<1> HIDE DEF m3
<1>7. Lighter(m4, m)
  <2>1. IsHeap(m4) /\ m4.inst = m3.inst /\ m4.resp = m3.resp /\ m4.chunk = m3.chunk
    BY <1>6 DEF Lighter, Form, IsHeap
  <2> HIDE DEF m4
  <2> QED BY <1>6, <2>1 DEF Lighter, Form, NoneCloses, Lasts
<1>8. Lighter(m5, m)
  <2>1. IsHeap(m5) /\ m5.inst = m.inst /\ m5.resp = m.resp /\ m5.chunk = m.chunk
    BY DEF Form, IsHeap
  <2> HIDE DEF m5
  <2> QED BY <2>1 DEF Lighter, Form, NoneCloses, Lasts
<1> QED BY <1>1, <1>7, <1>8

\* A heap in order has that form.
LEMMA InForm ==
  ASSUME NEW m, NEW list, NEW kept, Mem(m, list, kept)
  PROVE  Form(m) /\ m.op \in [Ops -> OpRecords] /\ m.inst \in [Insts -> InstRecords] /\ m.resp \in [Resps -> RespRecords]
<1>1. IsHeap(m) /\ m.op \in [Ops -> OpRecords] /\ m.inst \in [Insts -> InstRecords] /\ m.resp \in [Resps -> RespRecords]
  BY DEF Mem, Books
<1>2. InstRecords \subseteq InstTypes
  BY DEF InstRecords, InstTypes
<1>3. RespRecords \subseteq RespTypes
  BY BridgeAssumption DEF RespRecords, RespTypes
<1> QED BY <1>1, <1>2, <1>3 DEF Form

-----------------------------------------------------------------------------
(* What hosts do                                                            *)

\* The premises of every step, with what the memory is after it.
Around == Before /\ MemInv' /\ WakeInv
\* What stays when a step wakes nobody.
Aside == UNCHANGED <<owner, pipe, instances, activeOps, commands>>

\* The heap before a step and after it.
LEMMA AroundFacts ==
  ASSUME Around
  PROVE  /\ Mem(mem, live, Kept) /\ Form(mem) /\ mem.op \in [Ops -> OpRecords] /\ mem.inst \in [Insts -> InstRecords]
         /\ mem.resp \in [Resps -> RespRecords] /\ Heap(mem, mem.op)
         /\ ThreadInv /\ OpsInv /\ MemInv /\ OpsInv' /\ MemInv' /\ ReleasedFirst /\ WakeInv
<1>1. ThreadInv /\ OpsInv /\ MemInv /\ OpsInv' /\ MemInv' /\ ReleasedFirst /\ WakeInv
  BY DEF Around, Before, WakeInv
<1>2. Mem(mem, live, Kept) /\ Heap(mem, mem.op)
  BY <1>1, OpsFacts DEF MemInv
<1> QED BY <1>1, <1>2, InForm

\* A step that makes the heap lighter disturbs nobody,
LEMMA LighterWakes ==
  ASSUME Around, Aside, UNCHANGED parked, Lighter(mem', mem), NoneDrops(mem'.op, mem.op),
         \A p \in Ops : SameTask(mem'.op[p], mem.op[p])
  PROVE  WakeInv'
<1>1. ReleasedFirst'
  BY AroundFacts, DropsLast DEF Lighter
<1>2. Quietly
  BY DEF Quietly, Lighter
<1> QED BY <1>1, <1>2, AroundFacts, Undisturbed DEF Around, Aside

\* such as a release.
LEMMA DropWakes ==
  ASSUME Around, Aside, UNCHANGED parked, NEW x \in Insts \cup Ops, HostHolds(x), mem' = drop(mem, x)
  PROVE  WakeInv'
<1>0. Form(mem) /\ mem.op \in [Ops -> OpRecords] /\ OpsInv
  BY AroundFacts
<1>1. CASE x \in Insts
  <2>1. mem' = instance_drop(mem, x) /\ x \notin Ops
    BY <1>1, BridgeAssumption DEF drop
  <2>2. Lighter(mem', mem)
    BY <1>0, <2>1, LighterInst
  <2>3. mem'.op = mem.op
    <3>1. IsHeap(mem)
      BY <1>0 DEF Form
    <3>2. instance_drop(mem, x).op = mem.op
      BY <3>1, InstDropIs
    <3> QED BY <2>1, <3>2
  <2> QED BY <2>2, <2>3, LighterWakes DEF SameTask, NoneDrops
<1>2. CASE x \notin Insts
  <2>1. mem' = op_drop(mem, x) /\ x \in Ops
    BY <1>2 DEF drop
  <2>2. mem.op[x] \in OpRecords /\ mem.op[x].charge \in Int /\ mem.op[x].resp \in Resps \cup {None}
    BY <1>0, <2>1 DEF OpRecords
  <2>3. Lighter(mem', mem)
    BY <1>0, <2>1, <2>2, LighterOp
  <2>4. mem'.op = Fewer(mem.op, x)
    BY <1>0, <2>1, DropHeap DEF Heap
  <2>5. mem.op[x].refs = 1 => mem.op[x].stage \in {"none", "returned"}
    BY <1>0, <2>1 DEF OpsInv, OpRefs, OpExact, One, InPipe
  <2>6. CASE mem.op[x].refs = 1
    <3>1. mem'.op[x] = NoOp /\ \A p \in Ops : p # x => mem'.op[p] = mem.op[p]
      BY <1>0, <2>1, <2>4, <2>6 DEF Fewer
    <3>2. SameTask(NoOp, mem.op[x])
      BY <2>5, <2>6, NoOpFacts DEF NoOpIs, SameTask, Pending, TaskStages
    <3>3. NoneDrops(mem'.op, mem.op)
      BY <3>1, NoOpFacts DEF NoOpIs, NoneDrops
    <3>4. \A p \in Ops : SameTask(mem'.op[p], mem.op[p])
      BY <3>1, <3>2 DEF SameTask
    <3> QED BY <2>3, <3>3, <3>4, LighterWakes
  <2>7. CASE mem.op[x].refs # 1
    <3> DEFINE k == [mem.op[x] EXCEPT !.refs = @ - 1]
    <3>1. mem'.op[x] = k /\ \A p \in Ops : p # x => mem'.op[p] = mem.op[p]
      BY <1>0, <2>1, <2>4, <2>7 DEF Fewer
    <3>2. /\ k.stage = mem.op[x].stage /\ k.kind = mem.op[x].kind /\ k.inst = mem.op[x].inst
          /\ k.resp = mem.op[x].resp /\ k.cancelled = mem.op[x].cancelled /\ k.cancelling = mem.op[x].cancelling
      BY <2>2 DEF OpRecords
    <3>3. mem.op[x].refs # 0
      <4>1. OpExact(x)
        BY <1>0, <2>1 DEF OpsInv, OpRefs
      <4>2. HostHolds(x)
        OBVIOUS
      <4> QED BY <4>1, <4>2 DEF OpExact, One
    <3> HIDE DEF k
    <3>4. NoneDrops(mem'.op, mem.op) /\ \A p \in Ops : SameTask(mem'.op[p], mem.op[p])
      BY <3>1, <3>2, <3>3 DEF NoneDrops, SameTask
    <3> QED BY <2>3, <3>4, LighterWakes
  <2> QED BY <2>6, <2>7
<1> QED BY <1>1, <1>2

\* What new_op leaves.
LEMMA NewOpLeaves ==
  ASSUME NEW m, Form(m), m.inst \in [Insts -> InstRecords], NEW kind \in Kinds, NEW i \in Insts, NEW r, NEW o,
         NEW input \in Nat
  PROVE  Lighter(new_op(m, kind, i, r, o, input), m) /\ new_op(m, kind, i, r, o, input).resp = m.resp
<1> DEFINE n == RecordCost(kind) + input
           m2 == new_op(m, kind, i, r, o, input)
<1>1. NewOpDoes(m, m2, kind, i, r, o, input)
  BY NewOpIs DEF Form
<1> HIDE DEF m2
<1>2. n \in Nat
  BY BridgeAssumption DEF RecordCost
<1>3. MoreOp(m.inst[i], n) \in InstRecords /\ MoreOp(m.inst[i], n).closing = m.inst[i].closing
  BY <1>2, MoreOpIs
<1>4. InstRecords \subseteq InstTypes
  BY DEF InstRecords, InstTypes
<1>5. IsHeap(m2) /\ m2.inst = [m.inst EXCEPT ![i] = MoreOp(m.inst[i], n)] /\ m2.resp = m.resp /\ m2.chunk = m.chunk
  BY <1>1 DEF NewOpDoes
<1> HIDE DEF n
<1>6. Lighter(m2, m)
  BY <1>3, <1>4, <1>5, LighterAt
<1> QED BY <1>5, <1>6 DEF m2

\* An accepted operation is no internal release, and wakes the owner.
LEMMA AcceptWakes ==
  ASSUME Around, NEW t, NEW kind \in Kinds, kind # "drop", NEW i \in Insts, NEW r \in Resps \cup {None},
         NEW input \in Nat, NEW m, Heap(m, mem.op), m.inst \in [Insts -> InstRecords], Lasts(m, mem),
         Accept(t, kind, i, r, input, m)
  PROVE  WakeInv'
<1> DEFINE o == Slot(FreeOps)
           k == NewRecord(kind, i, r, input)
<1>1. mem' = new_op(m, kind, i, r, o, input) /\ wake_owner /\ UNCHANGED <<owner, parked>>
  BY DEF Accept, enqueue, loopVars
<1>2. Form(m)
  <2>1. InstRecords \subseteq InstTypes
    BY DEF InstRecords, InstTypes
  <2> QED BY <2>1 DEF Form, Heap
<1>3. mem'.resp = m.resp /\ mem'.op = [mem.op EXCEPT ![o] = k]
  <2> HIDE DEF o, k
  <2>1. mem'.resp = m.resp
    BY <1>1, <1>2, NewOpLeaves
  <2>2. Heap(mem', [mem.op EXCEPT ![o] = k])
    BY <1>1, NewOp DEF k
  <2> QED BY <2>1, <2>2 DEF Heap
<1>4. k.kind = kind
  BY NewIs
<1> HIDE DEF o, k
<1>5. Lasts(mem', mem)
  BY <1>3 DEF Lasts
<1>6. NoneDrops(mem'.op, mem.op)
  BY <1>3, <1>4, AroundFacts DEF NoneDrops
<1> QED BY <1>1, <1>5, <1>6, AroundFacts, DropsLast, Woken

\* hs_submit_async,
LEMMA SubmitWakes ==
  ASSUME Around, NEW t, NEW i \in Insts, hs_submit_async(t, i)
  PROVE  WakeInv'
<1>1. Accept(t, "submit", i, None, InputCost, mem)
  BY DEF hs_submit_async
<1>2. "submit" \in Kinds /\ None \in Resps \cup {None} /\ InputCost \in Nat
  BY BridgeAssumption DEF Kinds, Business
<1>3. Heap(mem, mem.op) /\ mem.inst \in [Insts -> InstRecords]
  BY AroundFacts
<1>4. Lasts(mem, mem)
  BY DEF Lasts
<1> QED BY <1>1, <1>2, <1>3, <1>4, AcceptWakes

\* the asynchronous close
LEMMA CloseWakes ==
  ASSUME Around, NEW t, NEW i \in Insts, close_async(t, i)
  PROVE  WakeInv'
<1> DEFINE m == [mem EXCEPT !.inst[i].closing = TRUE]
<1>1. Accept(t, "close", i, None, 0, m)
  BY DEF close_async
<1>2. "close" \in Kinds /\ None \in Resps \cup {None} /\ 0 \in Nat
  BY DEF Kinds, Business
<1>3. Heap(mem, mem.op) /\ mem.inst \in [Insts -> InstRecords]
  BY AroundFacts
<1>4. IsHeap(m) /\ m.op = mem.op /\ m.resp = mem.resp /\ m.inst \in [Insts -> InstRecords]
  <2>1. \A q \in InstRecords : [q EXCEPT !.closing = TRUE] \in InstRecords
    BY DEF InstRecords
  <2>2. m.inst = [mem.inst EXCEPT ![i] = [@ EXCEPT !.closing = TRUE]]
    BY <1>3 DEF Heap, IsHeap
  <2>3. m.inst \in [Insts -> InstRecords]
    BY <1>3, <2>1, <2>2
  <2> QED BY <1>3, <2>3 DEF Heap, IsHeap
<1> HIDE DEF m
<1>5. Heap(m, mem.op) /\ Lasts(m, mem)
  BY <1>3, <1>4 DEF Heap, Lasts
<1> QED BY <1>1, <1>2, <1>4, <1>5, AcceptWakes

\* and hs_response_read_async queue and wake.
LEMMA ReadWakes ==
  ASSUME Around, NEW t, NEW r \in Resps, hs_response_read_async(t, r)
  PROVE  WakeInv'
<1> DEFINE m == [mem EXCEPT !.resp[r].refs = @ + 1, !.resp[r].reading = TRUE]
           i == mem.resp[r].inst
           q == [mem.resp[r] EXCEPT !.refs = @ + 1, !.reading = TRUE]
<1>1. Accept(t, "read", i, r, 0, m) /\ r \in owned
  BY DEF hs_response_read_async
<1>2. "read" \in Kinds /\ r \in Resps \cup {None} /\ 0 \in Nat
  BY DEF Kinds, Business
<1>3. Heap(mem, mem.op) /\ Mem(mem, live, Kept) /\ mem.inst \in [Insts -> InstRecords] /\ OpsInv
  BY AroundFacts
<1>4. i \in Insts
  <2>1. r \in Kept
    BY <1>1, <1>3, KeptIs
  <2> QED BY <1>3, <2>1, RespThere
<1>5. q \in RespTypes /\ q.released = mem.resp[r].released
  <2>1. mem.resp[r] \in RespTypes /\ mem.resp[r].refs + 1 \in Int
    BY <1>3 DEF Heap, RespTypes
  <2>2. \A x \in RespTypes, n \in Int : LET y == [x EXCEPT !.refs = n, !.reading = TRUE]
                                       IN y \in RespTypes /\ y.released = x.released
    BY DEF RespTypes
  <2> QED BY <2>1, <2>2, Zenon
<1>6. IsHeap(m) /\ m.op = mem.op /\ m.inst = mem.inst /\ m.resp = [mem.resp EXCEPT ![r] = q]
  BY <1>3 DEF Heap, IsHeap
<1> HIDE DEF m, q, i
<1>7. Heap(m, mem.op) /\ Lasts(m, mem)
  BY <1>3, <1>5, <1>6 DEF Heap, Lasts
<1>8. m.inst \in [Insts -> InstRecords]
  BY <1>3, <1>6
<1> QED BY <1>1, <1>2, <1>4, <1>7, <1>8, AcceptWakes

\* A submission that is abandoned leaves no trace the owner could see.
LEMMA AbandonWakes ==
  ASSUME Around, NEW t, NEW i \in Insts, hs_submit_abandons(t, i)
  PROVE  WakeInv'
<1> DEFINE o == Slot(FreeOps)
           m == new_op(mem, "submit", i, None, o, 0)
           k == NewRecord("submit", i, None, 0)
           j == m.op[o].inst
           q == [m.inst[j] EXCEPT !.active = @ - 1, !.notifications = @ - 1]
           m1 == [m EXCEPT !.inst[j].active = @ - 1, !.inst[j].notifications = @ - 1, !.op[o].refs = 1]
<1>1. /\ FreeOps # {} /\ mem' = op_drop(m1, o) /\ mem' = abandon(m, o)
      /\ UNCHANGED <<owner, pipe, instances, activeOps, commands, parked>>
  BY DEF hs_submit_abandons, abandon, loopVars, counters, queues, waker, wake
<1>2. o \in Ops /\ mem.op[o].refs = 0
  BY <1>1, FreeSlot
<1>3. Heap(mem, mem.op) /\ Form(mem) /\ mem.inst \in [Insts -> InstRecords] /\ mem.op \in [Ops -> OpRecords]
      /\ OpsInv /\ MemInv
  BY AroundFacts
<1>4. "submit" \in Kinds /\ 0 \in Nat /\ None \in Resps \cup {None}
  BY DEF Kinds, Business
<1>5. k \in OpRecords
  BY <1>4, NewIs
<1> HIDE DEF o, k
<1>6. Lighter(m, mem) /\ m.resp = mem.resp
  BY <1>3, <1>4, NewOpLeaves
<1>7. Heap(m, [mem.op EXCEPT ![o] = k])
  BY <1>3, NewOp DEF k
<1> HIDE DEF m
<1>8. m.op[o] = k
  BY <1>2, <1>3, <1>7 DEF Heap
<1> HIDE DEF j
<1>9. IsHeap(m1) /\ m1.inst = [m.inst EXCEPT ![j] = q] /\ m1.resp = m.resp /\ m1.chunk = m.chunk
      /\ m1.op = [m.op EXCEPT ![o].refs = 1]
  BY <1>6 DEF Lighter, Form, IsHeap
<1>10. j \in Insts => q \in InstTypes /\ (q.closing => m.inst[j].closing)
  <2> SUFFICES ASSUME j \in Insts PROVE q \in InstTypes /\ (q.closing => m.inst[j].closing)
    OBVIOUS
  <2>1. m.inst[j] \in InstTypes /\ m.inst[j].active - 1 \in Int /\ m.inst[j].notifications - 1 \in Int
    BY <1>6 DEF Lighter, Form, InstTypes
  <2>2. \A x \in InstTypes, a, b \in Int : LET y == [x EXCEPT !.active = a, !.notifications = b]
                                          IN y \in InstTypes /\ y.closing = x.closing
    BY DEF InstTypes
  <2> QED BY <2>1, <2>2, Zenon
<1>11. m1.op[o].charge \in Int /\ m1.op[o].resp \in Resps \cup {None}
  <2>1. m1.op[o] = [k EXCEPT !.refs = 1]
    BY <1>2, <1>3, <1>7, <1>9 DEF Heap
  <2> QED BY <1>5, <2>1 DEF OpRecords
<1> HIDE DEF m1, q
<1>12. Lighter(m1, m)
  BY <1>6, <1>9, <1>10, LighterAt DEF Lighter
<1>13. Lighter(m1, mem) /\ m1.resp = mem.resp
  BY <1>6, <1>9, <1>12, LighterTwice
<1>14. Lighter(mem', m1)
  BY <1>1, <1>11, <1>13, LighterOp DEF Lighter
<1>15. Lighter(mem', mem)
  BY <1>13, <1>14, LighterTwice
<1>16. mem'.op = mem.op
  <2> DEFINE ops == [mem.op EXCEPT ![o] = k]
  <2>1. ops \in [Ops -> OpRecords] /\ Heap(m, ops)
    BY <1>3, <1>5, <1>7
  <2>2. [ops EXCEPT ![o] = NoOp] = [mem.op EXCEPT ![o] = NoOp]
    BY <1>3
  <2> HIDE DEF ops
  <2>3. mem'.op = [mem.op EXCEPT ![o] = NoOp]
    <3>1. Heap(abandon(m, o), [ops EXCEPT ![o] = NoOp])
      BY <1>2, <2>1, Abandons
    <3> QED BY <1>1, <2>2, <3>1 DEF Heap
  <2>4. mem.op[o] = NoOp
    BY <1>2, <1>3, WaitsOn DEF Shape
  <2> QED BY <1>3, <2>3, <2>4
<1> QED BY <1>1, <1>15, <1>16, LighterWakes DEF Aside, SameTask, NoneDrops

\* A response is marked released, and stays so until it is free.
LEMMA MarkedLasts ==
  ASSUME NEW m, Form(m), NEW r \in Resps, NEW l \in RespTypes, l.released,
         NEW m1, m1.resp = [m.resp EXCEPT ![r] = l], NEW m2, Lasts(m2, m1)
  PROVE  Lasts(m2, m) /\ (m2.resp[r].refs # 0 => m2.resp[r].released)
<1>1. m1.resp[r].released /\ \A s \in Resps : m.resp[s].released => m1.resp[s].released
  BY DEF Form
<1> QED BY <1>1 DEF Lasts

\* hs_response_release: with its internal operation it wakes the owner, and without it is not to be
\* seen by it.
LEMMA ResponseWakes ==
  ASSUME Around, NEW t, NEW r \in Resps, hs_response_release(t, r)
  PROVE  WakeInv'
<1> DEFINE i == mem.resp[r].inst
           o == Slot(FreeOps)
           m == [mem EXCEPT !.resp[r].released = TRUE]
           m2 == [m EXCEPT !.resp[r].refs = @ + 1]
           m3 == new_op(m2, "drop", i, r, o, 0)
           k == NewRecord("drop", i, r, 0)
           l == [mem.resp[r] EXCEPT !.released = TRUE]
           l2 == [l EXCEPT !.refs = @ + 1]
<1>1. /\ UNCHANGED <<owner, parked, instances>> /\ r \in owned
      /\ \/ FreeOps # {} /\ mem' = response_drop(m3, r) /\ wake_owner
         \/ mem' = response_drop(m, r) /\ UNCHANGED <<activeOps, commands, pipe>>
  BY DEF hs_response_release, loopVars, enqueue, wake
<1>2. Heap(mem, mem.op) /\ Mem(mem, live, Kept) /\ Form(mem) /\ mem.inst \in [Insts -> InstRecords] /\ OpsInv
      /\ mem.op \in [Ops -> OpRecords] /\ OpsInv' /\ MemInv' /\ ReleasedFirst
  BY AroundFacts
<1>3. l \in RespTypes /\ l.released /\ l2 \in RespTypes /\ l2.released
  <2>1. mem.resp[r] \in RespTypes
    BY <1>2 DEF Heap
  <2>2. l \in RespTypes /\ l.released
    BY <2>1 DEF RespTypes
  <2> HIDE DEF l
  <2> QED BY <2>2 DEF RespTypes
<1>4. IsHeap(m) /\ m.resp = [mem.resp EXCEPT ![r] = l] /\ m.inst = mem.inst /\ m.op = mem.op /\ m.chunk = mem.chunk
  BY <1>2 DEF Heap, IsHeap
<1>5. IsHeap(m2) /\ m2.resp = [mem.resp EXCEPT ![r] = l2] /\ m2.inst = mem.inst /\ m2.op = mem.op
  <2> HIDE DEF m, l
  <2>1. IsHeap(m2) /\ m2.resp = [m.resp EXCEPT ![r] = [m.resp[r] EXCEPT !.refs = @ + 1]]
        /\ m2.inst = m.inst /\ m2.op = m.op
    BY <1>4 DEF IsHeap
  <2>2. m.resp[r] = l /\ [m.resp EXCEPT ![r] = l2] = [mem.resp EXCEPT ![r] = l2]
    BY <1>2, <1>4 DEF Heap
  <2> QED BY <1>4, <2>1, <2>2
<1> HIDE DEF l, l2
<1>6. CASE mem' = response_drop(m, r) /\ UNCHANGED <<activeOps, commands, pipe>>
  <2> HIDE DEF m
  <2>1. Form(m)
    BY <1>2, <1>3, <1>4 DEF Form
  <2>2. Lighter(mem', m)
    BY <1>6, <2>1, LighterResp
  <2>3. Lasts(mem', mem)
    BY <1>2, <1>3, <1>4, <2>2, MarkedLasts DEF Lighter
  <2>4. Lighter(mem', mem)
    BY <1>4, <2>2, <2>3 DEF Lighter, NoneCloses
  <2>5. Heap(m, mem.op)
    BY <1>4, <2>1 DEF Heap, Form
  <2>6. mem'.op = mem.op
    BY <1>6, <2>5, RespDrop DEF Heap
  <2> QED BY <1>1, <1>6, <2>4, <2>6, LighterWakes DEF Aside, SameTask, NoneDrops
<1>7. CASE FreeOps # {} /\ mem' = response_drop(m3, r) /\ wake_owner
  <2>1. o \in Ops
    BY <1>7, FreeSlot
  <2>2. i \in Insts
    <3>1. r \in Kept
      BY <1>1, <1>2, KeptIs
    <3> QED BY <1>2, <3>1, RespThere
  <2>3. "drop" \in Kinds /\ 0 \in Nat /\ r \in Resps \cup {None}
    BY DEF Kinds
  <2>4. k.kind = "drop" /\ k.resp = r
    BY <2>2, <2>3, NewIs
  <2> HIDE DEF m, m2, o, i, k
  <2>5. Form(m2) /\ m2.inst \in [Insts -> InstRecords] /\ Heap(m2, mem.op)
    BY <1>2, <1>3, <1>5 DEF Form, Heap
  <2>6. Lighter(m3, m2) /\ m3.resp = m2.resp
    BY <2>2, <2>3, <2>5, NewOpLeaves
  <2>7. Heap(m3, [mem.op EXCEPT ![o] = k])
    BY <2>5, NewOp DEF k
  <2> HIDE DEF m3
  <2>8. Lighter(mem', m3)
    BY <1>7, <2>6, LighterResp DEF Lighter
  <2>9. mem'.op = [mem.op EXCEPT ![o] = k]
    BY <1>7, <2>7, RespDrop DEF Heap
  <2>10. m3.resp = [mem.resp EXCEPT ![r] = l2]
    BY <1>5, <2>6
  <2>11. Lasts(mem', mem) /\ (mem'.resp[r].refs # 0 => mem'.resp[r].released)
    BY <1>2, <1>3, <2>8, <2>10, MarkedLasts DEF Lighter
  <2>12. ASSUME NEW p \in Ops, mem'.op[p].refs # 0, mem'.op[p].kind = "drop"
         PROVE  mem'.resp[mem'.op[p].resp].released
    <3>1. Mem(mem', live', Kept') /\ Shape(mem'.op[p])
      BY <1>2 DEF MemInv, Mem, Tidy
    <3>2. mem'.op[p].resp \in Resps
      BY <2>12, <3>1 DEF Shape
    <3>3. mem'.resp[mem'.op[p].resp].refs # 0
      BY <3>1, <3>2, RespThere
    <3>4. CASE p = o
      BY <1>2, <2>1, <2>4, <2>9, <2>11, <3>3, <3>4
    <3>5. CASE p # o
      <4>1. mem'.op[p] = mem.op[p]
        BY <1>2, <2>9, <3>5
      <4>2. mem.resp[mem.op[p].resp].released
        BY <1>2, <2>12, <4>1 DEF ReleasedFirst
      <4> QED BY <2>11, <3>2, <3>3, <4>1, <4>2 DEF Lasts
    <3> QED BY <3>4, <3>5
  <2>13. ReleasedFirst'
    BY <2>12 DEF ReleasedFirst
  <2> QED BY <1>1, <1>7, <2>13, AroundFacts, Woken
<1> QED BY <1>1, <1>6, <1>7

\* hs_chunk_release wakes.
LEMMA ChunkWakes ==
  ASSUME Around, NEW t, NEW c \in Chunks, hs_chunk_release(t, c)
  PROVE  WakeInv'
<1> DEFINE i == mem.chunk[c].inst
           r == mem.chunk[c].resp
           m == uncharge(mem, i, ChunkCost)
           l == [mem.resp[r] EXCEPT !.chunks = @ - 1]
           m1 == [m EXCEPT !.resp[r].chunks = @ - 1, !.chunk[c] = NoChunk]
           m2 == response_drop(m1, r)
<1>1. /\ UNCHANGED <<owner, parked>> /\ wake_owner /\ c \in owned /\ mem' = instance_drop(m2, i)
  BY DEF hs_chunk_release, loopVars
<1>2. Mem(mem, live, Kept) /\ Rest(mem, Ops) /\ Form(mem) /\ OpsInv /\ OpsInv' /\ MemInv' /\ ReleasedFirst
  BY AroundFacts, MemFacts
<1>3. c \in Kept
  BY <1>1, <1>2, KeptIs
<1>4. mem'.op = mem.op
  BY <1>1, <1>2, <1>3, MemChunkRelease, Zenon
<1>5. r \in Resps
  BY <1>2, <1>3, ChunkGoes, Zenon
<1>6. Form(m) /\ m.resp = mem.resp /\ ChunkCost \in Int
  BY <1>2, LighterUncharge, BridgeAssumption DEF Lighter
<1>7. l \in RespTypes /\ l.released = mem.resp[r].released
  <2>1. mem.resp[r] \in RespTypes
    BY <1>2, <1>5 DEF Form
  <2> QED BY <2>1 DEF RespTypes
<1> HIDE DEF m, r, i
<1>8. IsHeap(m1) /\ m1.resp = [mem.resp EXCEPT ![r] = l] /\ m1.inst = m.inst
  BY <1>6 DEF Form, IsHeap
<1> HIDE DEF m1, l
<1>9. Form(m1) /\ \A s \in Resps : mem.resp[s].released => m1.resp[s].released
  BY <1>2, <1>5, <1>6, <1>7, <1>8 DEF Form
<1>10. Lighter(m2, m1)
  BY <1>5, <1>9, LighterResp
<1> HIDE DEF m2
<1>11. mem'.resp = m2.resp
  BY <1>1, <1>10, LighterInst DEF Lighter
<1>12. Lasts(mem', mem)
  BY <1>9, <1>10, <1>11 DEF Lighter, Lasts
<1>13. NoneDrops(mem'.op, mem.op)
  BY <1>4 DEF NoneDrops
<1> QED BY <1>1, <1>2, <1>12, <1>13, AroundFacts, DropsLast, Woken

\* hs_operation_cancel wakes.
LEMMA CancelWakes ==
  ASSUME Around, NEW t, NEW o \in Ops, hs_operation_cancel(t, o)
  PROVE  WakeInv'
<1>1. /\ UNCHANGED <<owner, parked>> /\ wake_owner /\ mem' = [mem EXCEPT !.op[o].cancelled = TRUE]
  BY DEF hs_operation_cancel, loopVars
<1>2. IsHeap(mem) /\ mem.op \in [Ops -> OpRecords]
  BY AroundFacts DEF Form
<1>3. mem'.resp = mem.resp /\ mem'.op = [mem.op EXCEPT ![o].cancelled = TRUE]
  BY <1>1, <1>2 DEF IsHeap
<1>4. NoneDrops(mem'.op, mem.op)
  BY <1>2, <1>3 DEF NoneDrops, OpRecords
<1>5. Lasts(mem', mem)
  BY <1>3 DEF Lasts
<1> QED BY <1>1, <1>4, <1>5, AroundFacts, DropsLast, Woken

\* A new instance with its creation queued: no internal release.
LEMMA CreatedLasts ==
  ASSUME Around, NEW kind \in {"create", "start"}, NEW i \in Insts, NEW o,
         mem' = new_op([mem EXCEPT !.inst[i].refs = 1, !.inst[i].server = (kind = "start")],
                       kind, i, None, o, InputCost)
  PROVE  ReleasedFirst'
<1> DEFINE b == kind = "start"
           m == [mem EXCEPT !.inst[i].refs = 1, !.inst[i].server = b]
           q == [mem.inst[i] EXCEPT !.refs = 1, !.server = b]
           k == NewRecord(kind, i, None, InputCost)
<1>1. /\ Form(mem) /\ Heap(mem, mem.op) /\ mem.inst \in [Insts -> InstRecords] /\ mem.op \in [Ops -> OpRecords]
      /\ OpsInv' /\ MemInv' /\ ReleasedFirst
  BY AroundFacts
<1>2. kind \in Kinds /\ None \in Resps \cup {None} /\ InputCost \in Nat
  BY BridgeAssumption DEF Kinds, Business
<1>3. k.kind = kind
  BY <1>2, NewIs
<1>4. mem' = new_op(m, kind, i, None, o, InputCost) /\ b \in BOOLEAN
  OBVIOUS
<1> HIDE DEF b, k
<1>5. q \in InstRecords
  <2>1. mem.inst[i] \in InstRecords /\ 1 \in Nat
    BY <1>1
  <2> QED BY <1>4, <2>1 DEF InstRecords
<1>6. IsHeap(m) /\ m.inst = [mem.inst EXCEPT ![i] = q] /\ m.op = mem.op /\ m.resp = mem.resp
  BY <1>1 DEF Form, IsHeap
<1> HIDE DEF m, q
<1>7. m.inst \in [Insts -> InstRecords]
  BY <1>1, <1>5, <1>6
<1>8. Form(m) /\ Heap(m, mem.op)
  <2>1. InstRecords \subseteq InstTypes
    BY DEF InstRecords, InstTypes
  <2> QED BY <1>1, <1>6, <1>7, <2>1 DEF Form, Heap
<1>9. mem'.resp = m.resp
  BY <1>2, <1>4, <1>7, <1>8, NewOpLeaves
<1>10. Heap(mem', [mem.op EXCEPT ![o] = k])
  BY <1>4, <1>8, NewOp DEF k
<1>11. NoneDrops(mem'.op, mem.op)
  BY <1>1, <1>3, <1>10 DEF NoneDrops, Heap
<1>12. Lasts(mem', mem)
  BY <1>6, <1>9 DEF Lasts
<1> QED BY <1>1, <1>11, <1>12, DropsLast

\* create_async and start_async: the threads are only starting, or the owner is woken, or nothing is
\* changed that it looks at.
LEMMA CreateWakes ==
  ASSUME Around, NEW t, NEW kind \in {"create", "start"}, NEW st, NEW wt, CreateBody(t, kind, st, wt),
         \/ st = state /\ state < 3
         \/ st = 0 /\ notifier = "exit"
  PROVE  WakeInv'
<1> DEFINE i == Slot(FreeInsts)
           o == Slot(FreeOps)
           made == mem' = new_op([mem EXCEPT !.inst[i].refs = 1, !.inst[i].server = (kind = "start")],
                                 kind, i, None, o, InputCost)
<1>0. ThreadInv /\ WakeInv /\ ReleasedFirst
  BY AroundFacts
<1>1. UNCHANGED parked
  BY DEF CreateBody
<1>2. \/ RuntimeFails(st, wt) /\ UNCHANGED mem
      \/ RuntimeRuns(st) /\ UNCHANGED <<mem, instances, activeOps, commands, pipe>>
      \/ RuntimeRuns(st) /\ wake_owner /\ UNCHANGED mem
      \/ RuntimeRuns(st) /\ wake_owner /\ FreeInsts # {} /\ made
  BY DEF CreateBody, enqueue, counters, wake
<1>3. ReleasedFirst'
  <2>1. CASE UNCHANGED mem
    BY <1>0, <2>1 DEF ReleasedFirst
  <2>2. CASE FreeInsts # {} /\ made
    <3>1. i \in Insts
      BY <2>2, SlotIn DEF FreeInsts
    <3>2. made
      BY <2>2
    <3> HIDE DEF i, o
    <3> QED BY <3>1, <3>2, CreatedLasts
  <2> QED BY <1>2, <2>1, <2>2
<1> HIDE DEF made
<1>4. st = 0 => owner = "none"
  BY <1>0 DEF ThreadInv, ThreadsAgree
<1>5. CASE RuntimeFails(st, wt)
  <2>1. owner' = "none"
    BY <1>4, <1>5 DEF RuntimeFails
  <2> QED BY <1>3, <2>1, Elsewhere
<1>6. CASE RuntimeRuns(st) /\ st = 0
  <2>1. owner' = "boot"
    BY <1>6 DEF RuntimeRuns
  <2> QED BY <1>3, <2>1, Elsewhere
<1>7. CASE RuntimeRuns(st) /\ st # 0
  <2>1. owner' = owner
    BY <1>7 DEF RuntimeRuns
  <2>2. CASE wake_owner
    BY <1>0, <1>1, <1>3, <2>1, <2>2, Woken
  <2>3. CASE UNCHANGED <<mem, instances, activeOps, commands, pipe>>
    BY <1>0, <1>1, <2>1, <2>3, Unseen
  <2>4. ~RuntimeFails(st, wt)
    BY <1>7 DEF RuntimeFails
  <2> QED BY <1>2, <2>2, <2>3, <2>4
<1> QED BY <1>2, <1>5, <1>6, <1>7

\* Every call of a host,
LEMMA EnterWakes ==
  ASSUME Around, NEW t \in Callers, Enter(t)
  PROVE  WakeInv'
<1>0. WakeInv
  BY AroundFacts
<1>1. ASSUME NEW kind \in {"create", "start"}, create_async(t, kind) PROVE WakeInv'
  BY <1>1, CreateWakes DEF create_async
<1>2. ASSUME NEW kind, create_async_reaps(t, kind) PROVE WakeInv'
  <2>1. UNCHANGED <<mem, owner, pipe, instances, activeOps, commands, parked>>
    BY <1>2 DEF create_async_reaps, heap, counters, queues, waker, wake, loopVars
  <2> QED BY <1>0, <2>1, Unseen
<1>3. ASSUME NEW x \in Insts \cup Ops, release(t, x) PROVE WakeInv'
  <2>1. /\ x \in owned /\ UNCHANGED <<owner, pipe, instances, activeOps, commands, parked>>
        /\ UNCHANGED mem \/ mem' = drop(mem, x)
    BY <1>3 DEF release, counters, queues, waker, wake, loopVars
  <2>2. CASE UNCHANGED mem
    BY <1>0, <2>1, <2>2, Unseen
  <2>3. CASE mem' = drop(mem, x)
    <3>1. HostHolds(x)
      BY <2>1 DEF HostHolds
    <3> QED BY <2>1, <2>3, <3>1, DropWakes DEF Aside
  <2> QED BY <2>1, <2>2, <2>3
<1>4. ASSUME NEW o \in Ops, sync_waits(t, o) PROVE WakeInv'
  <2>1. UNCHANGED <<mem, owner, pipe, instances, activeOps, commands, parked>>
    BY <1>4 DEF sync_waits, heap, counters, queues, waker, wake, loopVars
  <2> QED BY <1>0, <2>1, Unseen
<1>5. ASSUME NEW i \in Insts, stop_waits(t, i) PROVE WakeInv'
  <2>1. UNCHANGED <<mem, owner, pipe, instances, activeOps, commands, parked>>
    BY <1>5 DEF stop_waits, heap, counters, queues, waker, wake, loopVars
  <2> QED BY <1>0, <2>1, Unseen
<1> QED BY <1>1, <1>2, <1>3, <1>4, <1>5, SubmitWakes, CloseWakes, ReadWakes, AbandonWakes, ResponseWakes, ChunkWakes,
           CancelWakes
    DEF Enter

\* and what goes on in a blocking one.
LEMMA ResumeWakes ==
  ASSUME Around, NEW h \in Hosts, Resume(h)
  PROVE  WakeInv'
<1>0. WakeInv /\ OpsInv /\ Subject(call[h])
  BY AroundFacts DEF OpsInv, HostRefs
<1>1. CASE CreateResumes(h) \/ CreateJoins(h)
  <2>1. call[h].at \in {"reap", "join"}
    BY <1>1 DEF CreateResumes, CreateJoins
  <2>2. call[h].on \in {"create", "start"}
    BY <1>0, <2>1 DEF Subject
  <2>3. CASE CreateBody(h, call[h].on, state, waiting) /\ state < 3
    BY <2>2, <2>3, CreateWakes
  <2>4. CASE CreateBody(h, call[h].on, 0, {}) /\ notifier = "exit"
    BY <2>2, <2>4, CreateWakes
  <2>5. CASE ReapStep(h, state)
    <3>1. UNCHANGED <<mem, owner, pipe, instances, activeOps, commands, parked>>
      BY <2>5 DEF ReapStep, heap, counters, queues, waker, wake, loopVars
    <3> QED BY <1>0, <3>1, Unseen
  <2> QED BY <1>1, <2>3, <2>4, <2>5 DEF CreateResumes, CreateJoins
<1>2. CASE release_barrier(h) \/ barrier_joins(h) \/ sync_resumes(h)
  <2> DEFINE x == call[h].on
  <2>1. /\ call[h].at \in HoldAt /\ UNCHANGED <<owner, pipe, instances, activeOps, commands, parked>>
        /\ UNCHANGED mem \/ mem' = drop(mem, x)
    BY <1>2 DEF release_barrier, barrier_joins, sync_resumes, counters, queues, waker, wake, loopVars, HoldAt
  <2>2. x \in Insts \cup Ops /\ HostHolds(x)
    BY <1>0, <2>1 DEF Subject, HoldAt, HostHolds
  <2> HIDE DEF x
  <2>3. CASE UNCHANGED mem
    BY <1>0, <2>1, <2>3, Unseen
  <2>4. CASE mem' = drop(mem, x)
    BY <2>1, <2>2, <2>4, DropWakes DEF Aside
  <2> QED BY <2>1, <2>3, <2>4
<1>3. CASE stop_resumes(h)
  <2>1. UNCHANGED <<mem, owner, pipe, instances, activeOps, commands, parked>>
    BY <1>3 DEF stop_resumes, heap, counters, queues, waker, wake, loopVars
  <2> QED BY <1>0, <2>1, Unseen
<1> QED BY <1>1, <1>2, <1>3 DEF Resume

-----------------------------------------------------------------------------
(* What the notifier does                                                   *)

\* A callback begins: nothing the owner waits for.
LEMMA CallsWakes ==
  ASSUME Around, notify_calls
  PROVE  WakeInv'
<1>0. OpsInv /\ Form(mem) /\ mem.op \in [Ops -> OpRecords]
  BY AroundFacts
<1>1. PICK o \in Ops : o = Head(notices) /\ mem.op[o].stage = "notice"
  <2>0. notices \in Seq(Ops) /\ Holds(notices, mem.op, "notice") /\ notices # <<>>
    BY <1>0 DEF OpsInv, OpTypes, Queues, notify_calls
  <2>1. 1 \in DOMAIN notices /\ Head(notices) = notices[1] /\ notices[1] \in Ops
    BY <2>0
  <2> QED BY <2>0, <2>1 DEF Holds
<1> DEFINE k == [mem.op[o] EXCEPT !.stage = "callback", !.event = None]
<1>2. /\ mem' = [mem EXCEPT !.op[o].stage = "callback", !.op[o].event = None]
      /\ UNCHANGED <<owner, pipe, instances, activeOps, commands, parked>>
  BY <1>1 DEF notify_calls, counters, loopVars, waker, wake
<1>3. /\ IsHeap(mem') /\ mem'.op = [mem.op EXCEPT ![o] = k]
      /\ mem'.inst = mem.inst /\ mem'.resp = mem.resp /\ mem'.chunk = mem.chunk
  BY <1>0, <1>2 DEF Form, IsHeap
<1>4. k.stage = "callback" /\ k.refs = mem.op[o].refs /\ k.kind = mem.op[o].kind /\ k.resp = mem.op[o].resp
  <2>1. mem.op[o] \in OpRecords
    BY <1>0
  <2> QED BY <2>1 DEF OpRecords
<1> HIDE DEF k
<1>5. Lighter(mem', mem)
  BY <1>0, <1>3 DEF Lighter, Form, NoneCloses, Lasts
<1>6. NoneDrops(mem'.op, mem.op)
  BY <1>0, <1>3, <1>4 DEF NoneDrops
<1>7. \A p \in Ops : SameTask(mem'.op[p], mem.op[p])
  BY <1>0, <1>1, <1>3, <1>4 DEF SameTask, Pending, TaskStages
<1> QED BY <1>2, <1>5, <1>6, <1>7, LighterWakes DEF Aside

\* A callback that has returned wakes the owner.
LEMMA ReturnsWakes ==
  ASSUME Around, notify_returns
  PROVE  WakeInv'
<1>0. OpsInv /\ Form(mem) /\ mem.op \in [Ops -> OpRecords] /\ Heap(mem, mem.op)
  BY AroundFacts
<1>1. PICK o \in Ops : o = noteOp /\ mem.op[o].stage = "callback"
  BY <1>0, Zenon DEF notify_returns, OpsInv, OpTypes, Queues
<1> DEFINE i == mem.op[o].inst
           m == [mem EXCEPT !.inst[i].notifications = @ - 1, !.op[o].stage = "returned"]
           q == [mem.inst[i] EXCEPT !.notifications = @ - 1]
           k == [mem.op[o] EXCEPT !.stage = "returned"]
           ops == [mem.op EXCEPT ![o] = k]
<1>2. mem' = op_drop(m, o) /\ UNCHANGED <<owner, parked>> /\ wake_owner
  BY <1>1 DEF notify_returns, loopVars
<1>3. k \in OpRecords /\ k.refs = mem.op[o].refs /\ k.kind = mem.op[o].kind /\ k.resp = mem.op[o].resp
      /\ k.charge \in Int /\ k.resp \in Resps \cup {None}
  <2>1. mem.op[o] \in OpRecords
    BY <1>0
  <2> QED BY <2>1 DEF OpRecords, Stages, DoneStages
<1> HIDE DEF i
<1>4. IsHeap(m) /\ m.inst = [mem.inst EXCEPT ![i] = q] /\ m.op = ops /\ m.resp = mem.resp /\ m.chunk = mem.chunk
  BY <1>0 DEF Form, IsHeap
<1>5. i \in Insts => q \in InstTypes /\ (q.closing => mem.inst[i].closing)
  <2>1. i \in Insts => mem.inst[i] \in InstTypes
    BY <1>0 DEF Form
  <2> QED BY <2>1 DEF InstTypes
<1> HIDE DEF m, q, k
<1>6. Lighter(m, mem)
  BY <1>0, <1>4, <1>5, LighterAt
<1>7. ops[o] = k /\ ops \in [Ops -> OpRecords] /\ \A p \in Ops : p # o => ops[p] = mem.op[p]
  BY <1>0, <1>3
<1> HIDE DEF ops
<1>8. m.op[o].charge \in Int /\ m.op[o].resp \in Resps \cup {None}
  BY <1>3, <1>4, <1>7
<1>9. Lighter(mem', m)
  BY <1>2, <1>6, <1>8, LighterOp DEF Lighter
<1>10. Lasts(mem', mem)
  BY <1>4, <1>9 DEF Lighter, Lasts
<1>11. mem'.op = Fewer(ops, o)
  <2>1. Heap(m, ops)
    BY <1>0, <1>4 DEF Heap
  <2> QED BY <1>2, <2>1, OpDrop DEF Heap
<1>12. NoneDrops(mem'.op, mem.op)
  <2>1. \A p \in Ops : p # o => mem'.op[p] = mem.op[p]
    BY <1>7, <1>11 DEF Fewer
  <2>2. CASE k.refs = 1
    <3>1. mem'.op[o].refs = 0
      BY <1>7, <1>11, <2>2, NoOpFacts DEF Fewer, NoOpIs
    <3> QED BY <2>1, <3>1 DEF NoneDrops
  <2>3. CASE k.refs # 1
    <3>1. mem'.op[o] = [k EXCEPT !.refs = @ - 1]
      BY <1>7, <1>11, <2>3 DEF Fewer
    <3>2. mem'.op[o].kind = mem.op[o].kind /\ mem'.op[o].resp = mem.op[o].resp
      BY <1>3, <3>1 DEF OpRecords
    <3>3. mem.op[o].refs # 0
      <4>1. OpExact(o)
        BY <1>0 DEF OpsInv, OpRefs
      <4>2. InPipe(o)
        BY <1>1 DEF InPipe
      <4> QED BY <4>1, <4>2 DEF OpExact, One
    <3> QED BY <2>1, <3>2, <3>3 DEF NoneDrops
  <2> QED BY <2>2, <2>3
<1> QED BY <1>2, <1>10, <1>12, AroundFacts, DropsLast, Woken

\* Every step of the notifier.
LEMMA NotifyWakes ==
  ASSUME Around, Notify
  PROVE  WakeInv'
<1>0. WakeInv /\ ReleasedFirst
  BY AroundFacts
<1>1. CASE notify_waits \/ notify_leaves \/ notify_exits
  <2>1. UNCHANGED <<mem, owner, pipe, instances, activeOps, commands, parked>>
    BY <1>1 DEF notify_waits, notify_leaves, notify_exits, heap, counters, queues, waker, wake, loopVars
  <2> QED BY <1>0, <2>1, Unseen
<1>2. CASE notify_joins
  <2>1. UNCHANGED mem /\ owner' = "none"
    BY <1>2 DEF notify_joins, heap
  <2>2. ReleasedFirst'
    BY <1>0, <2>1 DEF ReleasedFirst
  <2> QED BY <2>1, <2>2, Elsewhere
<1> QED BY <1>1, <1>2, CallsWakes, ReturnsWakes DEF Notify

-----------------------------------------------------------------------------
(* What the owner does                                                      *)

\* Every response that was released is.
Keeps(m2, m) == \A r \in Resps : m.resp[r].released => m2.resp[r].released

\* response_drop frees a response, or leaves it as it was.
LEMMA RespLasts ==
  ASSUME NEW m, NEW ops, Heap(m, ops), NEW r \in Resps
  PROVE  Lasts(response_drop(m, r), m)
<1> DEFINE i == m.resp[r].inst
           m1 == uncharge(m, i, m.resp[r].charge)
           m2 == [m1 EXCEPT !.inst[i].responses = @ - 1, !.resp[r] = NoResp]
<1>1. CASE m.resp[r].refs = 1
  <2>1. IsHeap(m1) /\ m1.resp = m.resp
    BY InstOnly DEF Heap
  <2>2. IsHeap(m2) /\ m2.resp = [m.resp EXCEPT ![r] = NoResp]
    <3> HIDE DEF m1, i
    <3> QED BY <2>1 DEF IsHeap
  <2>3. response_drop(m, r) = instance_drop(m2, i)
    BY <1>1 DEF response_drop
  <2> HIDE DEF m2, i
  <2>4. response_drop(m, r).resp = [m.resp EXCEPT ![r] = NoResp]
    <3>1. instance_drop(m2, i).resp = m2.resp
      BY <2>2, InstDropIs
    <3> QED BY <2>2, <2>3, <3>1
  <2>5. NoResp.refs = 0
    BY DEF NoResp
  <2> QED BY <2>4, <2>5 DEF Lasts, Heap
<1>2. CASE m.resp[r].refs # 1
  <2>1. response_drop(m, r).resp = [m.resp EXCEPT ![r] = [m.resp[r] EXCEPT !.refs = @ - 1]]
    BY <1>2 DEF response_drop, Heap, IsHeap
  <2>2. m.resp[r] \in RespTypes
    BY DEF Heap
  <2>3. [m.resp[r] EXCEPT !.refs = @ - 1].released = m.resp[r].released
    BY <2>2 DEF RespTypes
  <2> QED BY <2>1, <2>3 DEF Lasts, Heap
<1> QED BY <1>1, <1>2

\* A completion unmarks no response.
LEMMA CompletedLasts ==
  ASSUME NEW m, NEW ops, Heap(m, ops), NEW o, NEW ok
  PROVE  Lasts(Completed(m, o, ok), m)
<1> DEFINE m1 == Noticed(m, o, ok)
           m2 == Withdrawn(m1, o, ok)
           m3 == Granted(m2, o, ok)
           m4 == ReadEnded(m3, o)
           m5 == Retired(m4, o, ok)
<1>1. Heap(m1, m1.op) /\ m1.resp = m.resp
  BY DEF Heap, IsHeap, Noticed
<1> HIDE DEF m1
<1>2. Heap(m2, m2.op) /\ Lasts(m2, m1)
  <2>1. CASE ~ok /\ m1.op[o].event \in Resps
    <3> DEFINE d == response_drop(m1, m1.op[o].event)
    <3>1. Heap(d, m1.op) /\ Lasts(d, m1)
      BY <1>1, <2>1, RespDrop, RespLasts
    <3>2. m2 = [d EXCEPT !.op[o].event = None]
      BY <2>1 DEF Withdrawn
    <3> HIDE DEF d, m2
    <3>3. IsHeap(m2) /\ m2.resp = d.resp
      BY <3>1, <3>2 DEF Heap, IsHeap
    <3> QED BY <3>1, <3>3 DEF Heap, Lasts
  <2>2. CASE ~(~ok /\ m1.op[o].event \in Resps)
    BY <1>1, <2>2 DEF Withdrawn, Lasts
  <2> QED BY <2>1, <2>2
<1> HIDE DEF m2
<1>3. Heap(m3, m3.op) /\ m3.resp = m2.resp
  <2> DEFINE i == m2.op[o].inst
             n == [m2 EXCEPT !.inst[i].refs = @ + 1, !.op[o].event = i]
  <2>1. m3 = m2 \/ m3 = n
    BY DEF Granted
  <2>2. IsHeap(n) /\ n.resp = m2.resp
    <3> HIDE DEF i
    <3> QED BY <1>2 DEF Heap, IsHeap
  <2> HIDE DEF n, m3
  <2> QED BY <1>2, <2>1, <2>2 DEF Heap
<1> HIDE DEF m3
<1>4. IsHeap(m4) /\ \A s \in Resps : m4.resp[s].released = m3.resp[s].released /\ m4.resp[s].refs = m3.resp[s].refs
  <2> DEFINE r == m3.op[o].resp
             n == [m3 EXCEPT !.resp[r].reading = FALSE]
  <2>1. m4 = m3 \/ m4 = n
    BY DEF ReadEnded
  <2> HIDE DEF r, m4
  <2>2. IsHeap(n) /\ n.resp = [m3.resp EXCEPT ![r] = [m3.resp[r] EXCEPT !.reading = FALSE]]
    BY <1>3 DEF Heap, IsHeap
  <2> HIDE DEF n
  <2>3. r \in Resps => /\ [m3.resp[r] EXCEPT !.reading = FALSE].released = m3.resp[r].released
                       /\ [m3.resp[r] EXCEPT !.reading = FALSE].refs = m3.resp[r].refs
    <3>1. r \in Resps => m3.resp[r] \in RespTypes
      BY <1>3 DEF Heap
    <3> QED BY <3>1 DEF RespTypes
  <2> QED BY <1>3, <2>1, <2>2, <2>3 DEF Heap
<1> HIDE DEF m4
<1>5. m5.resp = m4.resp
  <2> DEFINE i == m4.op[o].inst
             n == [m4 EXCEPT !.inst[i].closing = TRUE, !.inst[i].closed = TRUE]
  <2>1. m5 = m4 \/ m5 = instance_drop(n, i)
    BY DEF Retired
  <2> HIDE DEF i, m5
  <2>2. IsHeap(n) /\ n.resp = m4.resp
    BY <1>4 DEF IsHeap
  <2> HIDE DEF n
  <2>3. instance_drop(n, i).resp = n.resp
    BY <2>2, InstDropIs
  <2> QED BY <2>1, <2>2, <2>3
<1> HIDE DEF m5
<1>6. Lasts(m5, m)
  BY <1>1, <1>2, <1>3, <1>4, <1>5 DEF Lasts
<1>7. Completed(m, o, ok) = m5
  BY DEF m5, m4, m3, m2, m1, Completed
<1> QED BY <1>6, <1>7

\* A heap that a task hands to its completion.
Follows(m) == /\ Heap(m, m.op) /\ m.op \in [Ops -> OpRecords]
              /\ Keeps(m, mem) /\ NoneDrops(m.op, mem.op)
\* No internal release comes into being with a completion.
LEMMA CompleteLasts ==
  ASSUME Around, NEW o \in Ops, NEW ok \in BOOLEAN, NEW m, Follows(m), mem' = Completed(m, o, ok)
  PROVE  ReleasedFirst'
<1>1. Lasts(mem', mem)
  <2>1. Lasts(mem', m)
    BY CompletedLasts DEF Follows
  <2> QED BY <2>1 DEF Follows, Keeps, Lasts
<1>2. PICK k : Told(k, m.op[o]) /\ Heap(mem', [m.op EXCEPT ![o] = k])
  BY Completes DEF Follows
<1>3. NoneDrops(mem'.op, m.op)
  BY <1>2 DEF Follows, Heap, Told, NoneDrops
<1>4. NoneDrops(mem'.op, mem.op)
  BY <1>3 DEF Follows, NoneDrops
<1> QED BY <1>1, <1>4, AroundFacts, DropsLast
\* The heap as it is.
LEMMA FollowsItself ==
  ASSUME Around
  PROVE  Follows(mem)
BY AroundFacts DEF Follows, Keeps, NoneDrops
\* The cancellation of tasks changes one flag, of those tasks.
LEMMA CancelIs ==
  ASSUME NEW m, IsHeap(m), m.op \in [Ops -> OpRecords], NEW S
  PROVE  LET m2 == Cancel(m, S)
         IN /\ IsHeap(m2) /\ m2.inst = m.inst /\ m2.resp = m.resp /\ m2.chunk = m.chunk
            /\ \A p \in Ops : /\ SameWay(m2.op[p], m.op[p]) /\ m2.op[p].stage = m.op[p].stage
                              /\ m2.op[p].cancelled = m.op[p].cancelled
                              /\ m2.op[p].cancelling <=> (m.op[p].cancelling \/ p \in S)
<1> DEFINE m2 == Cancel(m, S)
           f == [p \in Ops |-> IF p \in S THEN [m.op[p] EXCEPT !.cancelling = TRUE] ELSE m.op[p]]
<1>1. IsHeap(m2) /\ m2.inst = m.inst /\ m2.resp = m.resp /\ m2.chunk = m.chunk /\ m2.op = f
  BY DEF IsHeap, Cancel
<1>2. ASSUME NEW p \in Ops
      PROVE  /\ SameWay(f[p], m.op[p]) /\ f[p].stage = m.op[p].stage /\ f[p].cancelled = m.op[p].cancelled
             /\ f[p].cancelling <=> (m.op[p].cancelling \/ p \in S)
  <2>0. m.op[p] \in OpRecords
    OBVIOUS
  <2>1. CASE p \in S
    <3>1. f[p] = [m.op[p] EXCEPT !.cancelling = TRUE]
      BY <2>1
    <3> QED BY <2>0, <2>1, <3>1 DEF SameWay, SameOp, OpRecords
  <2>2. CASE p \notin S
    <3>1. f[p] = m.op[p]
      BY <2>2
    <3> QED BY <2>2, <3>1 DEF SameWay, SameOp
  <2> QED BY <2>1, <2>2
<1> HIDE DEF m2, f
<1>3. \A p \in Ops : /\ SameWay(m2.op[p], m.op[p]) /\ m2.op[p].stage = m.op[p].stage
                     /\ m2.op[p].cancelled = m.op[p].cancelled
                     /\ m2.op[p].cancelling <=> (m.op[p].cancelling \/ p \in S)
  BY <1>1, <1>2
<1> QED BY <1>1, <1>3 DEF m2

\* The operations go on as what they were: no internal release is new.
LEMMA SameDrops ==
  ASSUME Around, mem'.resp = mem.resp, \A p \in Ops : SameWay(mem'.op[p], mem.op[p])
  PROVE  ReleasedFirst'
<1>1. NoneDrops(mem'.op, mem.op)
  BY DEF NoneDrops, SameWay, SameOp
<1>2. Lasts(mem', mem)
  BY DEF Lasts
<1> QED BY <1>1, <1>2, AroundFacts, DropsLast

\* Popping finds nobody parked.
LEMMA PopWakes ==
  ASSUME Around, owner_pops
  PROVE  WakeInv'
<1> DEFINE f == [o \in Ops |-> IF mem.op[o].stage = "queued" THEN [mem.op[o] EXCEPT !.stage = "spawned"]
                                                            ELSE mem.op[o]]
<1>1. mem' = [mem EXCEPT !.op = f] /\ UNCHANGED parked /\ owner = "pop" /\ owner' = "scan"
  BY DEF owner_pops
<1>2. IsHeap(mem) /\ mem.op \in [Ops -> OpRecords] /\ WakeInv
  BY AroundFacts DEF Form
<1>3. ASSUME NEW p \in Ops PROVE SameWay(f[p], mem.op[p])
  <2>0. mem.op[p] \in OpRecords
    BY <1>2
  <2>1. CASE mem.op[p].stage = "queued"
    <3>1. f[p] = [mem.op[p] EXCEPT !.stage = "spawned"]
      BY <2>1
    <3> QED BY <2>0, <2>1, <3>1 DEF SameWay, SameOp, OpRecords
  <2>2. CASE mem.op[p].stage # "queued"
    <3>1. f[p] = mem.op[p]
      BY <2>2
    <3> QED BY <3>1 DEF SameWay, SameOp
  <2> QED BY <2>1, <2>2
<1>4. mem'.resp = mem.resp /\ mem'.op = f
  BY <1>1, <1>2 DEF IsHeap
<1> HIDE DEF f
<1>5. ReleasedFirst'
  BY <1>3, <1>4, SameDrops
<1>6. parked' = {} /\ ~Asleep'
  BY <1>1, <1>2 DEF WakeInv, Asleep
<1> QED BY <1>5, <1>6 DEF WakeInv

\* The scan cancels every task it must before the owner reads its pipe.
LEMMA IdleWakes ==
  ASSUME Around, owner_idles
  PROVE  WakeInv'
<1> DEFINE S == {o \in Tasks : mem.op[o].kind \in Business /\ Cancelled(mem, o)}
<1>1. /\ owner = "scan" /\ mem' = Cancel(mem, S) /\ parked' = parked \ S /\ UNCHANGED <<instances, activeOps, commands>>
      /\ (~Unused /\ owner' = "read") \/ owner' = "unwind"
  BY DEF owner_idles, counters, queues
<1>2. IsHeap(mem) /\ mem.op \in [Ops -> OpRecords] /\ WakeInv /\ OpsInv /\ MemInv /\ ReleasedFirst
  BY AroundFacts DEF Form
<1>3. /\ mem'.inst = mem.inst /\ mem'.resp = mem.resp /\ mem'.chunk = mem.chunk
      /\ \A p \in Ops : /\ SameWay(mem'.op[p], mem.op[p]) /\ mem'.op[p].stage = mem.op[p].stage
                        /\ mem'.op[p].cancelled = mem.op[p].cancelled
                        /\ mem'.op[p].cancelling <=> (mem.op[p].cancelling \/ p \in S)
  <2> HIDE DEF S
  <2> QED BY <1>1, <1>2, CancelIs
<1>4. \A o \in Tasks : mem.op[o].kind \in Business /\ Cancelled(mem, o) => o \in S
  OBVIOUS
<1> HIDE DEF S
<1>5. ReleasedFirst'
  BY <1>3, SameDrops
<1>6. parked' = {}
  BY <1>1, <1>2 DEF WakeInv
<1>7. CASE owner' = "unwind"
  BY <1>5, <1>7, Elsewhere
<1>8. CASE ~Unused /\ owner' = "read"
  <2>1. ~Unused'
    BY <1>1, <1>8 DEF Unused
  <2>2. Tasks' = Tasks
    BY <1>3 DEF Tasks
  <2>3. ASSUME NEW o \in Tasks', Stopped(o)' PROVE mem'.op[o].cancelling
    <3>1. o \in Ops /\ o \in Tasks /\ mem.op[o].inst \in Insts
          /\ (mem.op[o].resp \in Resps <=> mem.op[o].kind \in {"read", "drop"})
      BY <1>2, <2>2, <2>3, TaskIs
    <3>2. /\ mem'.op[o].kind = mem.op[o].kind /\ mem'.op[o].inst = mem.op[o].inst
          /\ mem'.op[o].resp = mem.op[o].resp /\ mem'.op[o].cancelled = mem.op[o].cancelled
      BY <1>3, <3>1 DEF SameWay, SameOp
    <3>3. mem.op[o].kind \in Business
      BY <2>3, <3>2 DEF Stopped
    <3>4. CASE mem'.op[o].cancelled \/ mem'.inst[mem'.op[o].inst].closing
      <4>1. Cancelled(mem, o)
        BY <1>3, <3>2, <3>3, <3>4 DEF Cancelled
      <4> QED BY <1>3, <1>4, <3>1, <3>3, <4>1
    <3>5. CASE \E p \in Tasks' : mem'.op[p].kind = "drop" /\ mem'.op[p].resp = mem'.op[o].resp
      <4>1. PICK p \in Tasks : mem'.op[p].kind = "drop" /\ mem'.op[p].resp = mem'.op[o].resp
        BY <2>2, <3>5
      <4>2. p \in Ops /\ mem.op[p].refs # 0
            /\ (mem.op[p].resp \in Resps <=> mem.op[p].kind \in {"read", "drop"})
        BY <1>2, <4>1, TaskIs
      <4>3. mem.op[p].kind = "drop" /\ mem.op[p].resp = mem.op[o].resp
        BY <1>3, <3>2, <4>1, <4>2 DEF SameWay, SameOp
      <4>4. mem.resp[mem.op[o].resp].released
        BY <1>2, <4>2, <4>3 DEF ReleasedFirst
      <4>5. mem.op[o].kind = "read"
        BY <3>1, <3>3, <4>2, <4>3 DEF Business
      <4>6. Cancelled(mem, o)
        BY <4>4, <4>5 DEF Cancelled
      <4> QED BY <1>3, <1>4, <3>1, <3>3, <4>6
    <3> QED BY <2>3, <3>4, <3>5 DEF Stopped
  <2>4. Settled'
    BY <1>6, <2>1, <2>3 DEF Settled
  <2> QED BY <1>5, <1>6, <2>4 DEF WakeInv
<1> QED BY <1>1, <1>7, <1>8

\* A command that nobody will run is answered while the owner is on its way out.
LEMMA FailWakes ==
  ASSUME Around, owner_fails_command
  PROVE  WakeInv'
<1>0. OpsInv /\ FALSE \in BOOLEAN
  BY AroundFacts
<1>1. Head(commands) \in Ops
  <2>1. commands \in Seq(Ops) /\ commands # <<>>
    BY <1>0 DEF OpsInv, OpTypes, owner_fails_command
  <2> QED BY <2>1
<1>2. mem' = Completed(mem, Head(commands), FALSE) /\ owner' = "fail"
  BY DEF owner_fails_command, hs_bridge_complete
<1>3. ReleasedFirst'
  BY <1>0, <1>1, <1>2, FollowsItself, CompleteLasts
<1> QED BY <1>2, <1>3, Elsewhere

\* Every step of the owner outside its tasks.
LEMMA LoopWakes ==
  ASSUME Around, Loop \/ Fault
  PROVE  WakeInv'
<1>0. WakeInv /\ ReleasedFirst /\ IsHeap(mem) /\ mem.op \in [Ops -> OpRecords]
  BY AroundFacts DEF Form
<1>1. CASE \/ owner_attaches \/ owner_reads \/ owner_acks \/ owner_unwinds \/ owner_stops
           \/ owner_exits \/ owner_boot_fails
  <2>1. ReleasedFirst'
    <3>1. UNCHANGED mem
      BY <1>1 DEF owner_attaches, owner_reads, owner_acks, owner_unwinds, owner_stops, owner_exits,
                  owner_boot_fails, heap
    <3> QED BY <1>0, <3>1 DEF ReleasedFirst
  <2>2. CASE owner_attaches
    BY <2>1, <2>2 DEF owner_attaches, WakeInv, Asleep
  <2>3. CASE owner_acks
    BY <2>1, <2>3 DEF owner_acks, WakeInv, Asleep
  <2>4. owner_attaches \/ owner_acks \/ owner' \notin {"read", "pop", "scan"}
    BY <1>1 DEF owner_reads, owner_unwinds, owner_stops, owner_exits, owner_boot_fails
  <2> QED BY <2>1, <2>2, <2>3, <2>4, Elsewhere
<1>2. CASE owner_loop_fails
  <2>1. mem' = Cancel(mem, Tasks) /\ owner' = "unwind"
    BY <1>2 DEF owner_loop_fails
  <2>2. mem'.resp = mem.resp /\ \A p \in Ops : SameWay(mem'.op[p], mem.op[p])
    <3> DEFINE T == Tasks
    <3>1. mem' = Cancel(mem, T)
      BY <2>1
    <3> HIDE DEF T
    <3> QED BY <1>0, <3>1, CancelIs
  <2>3. ReleasedFirst'
    BY <2>2, SameDrops
  <2> QED BY <2>1, <2>3, Elsewhere
<1>3. CASE owner_retires
  <2>1. mem' = Abandoned(mem, live) /\ owner' = "leaving"
    BY <1>3 DEF owner_retires
  <2>2. mem'.op = mem.op /\ mem'.resp = mem.resp
    BY <1>0, <2>1, InstOnly
  <2>3. ReleasedFirst'
    BY <1>0, <2>2 DEF ReleasedFirst
  <2> QED BY <2>1, <2>3, Elsewhere
<1> QED BY <1>1, <1>2, <1>3, PopWakes, IdleWakes, FailWakes DEF Loop, Fault
-----------------------------------------------------------------------------
(* What the tasks do                                                        *)

\* An operation record that differs in its event, its flags or its result only.
SameSlot(k, old) == k.refs = old.refs /\ k.kind = old.kind /\ k.resp = old.resp

\* A heap with the same operations follows.
LEMMA FollowsSame ==
  ASSUME Around, NEW m, Heap(m, m.op), m.op \in [Ops -> OpRecords], Keeps(m, mem),
         \A p \in Ops : SameSlot(m.op[p], mem.op[p])
  PROVE  Follows(m)
BY DEF Follows, NoneDrops, SameSlot

\* A task that ends wakes the owner.
LEMMA FinishWakes ==
  ASSUME Around, Running, NEW o \in Ops, NEW ok \in BOOLEAN, NEW m, Follows(m), Finish(m, o, ok)
  PROVE  WakeInv'
<1>1. mem' = Completed(m, o, ok) /\ wake_owner /\ owner' = owner /\ owner \notin {"pop", "scan"}
  BY DEF Finish, hs_bridge_complete, taskRest, Running
<1>2. ReleasedFirst'
  BY <1>1, CompleteLasts
<1> QED BY <1>1, <1>2, AroundFacts, Woken

\* A task that has made nothing ends.
LEMMA EndWakes ==
  ASSUME Around, Running, NEW o \in Ops, NEW ok \in BOOLEAN, Finish(mem, o, ok)
  PROVE  WakeInv'
BY FollowsItself, FinishWakes

\* A task goes on: the owner need not know.
LEMMA StepWakes ==
  ASSUME Around, Running, NEW m, Step(m), \A o \in parked' : o \in parked,
         m.chunk = mem.chunk, NoneCloses(m, mem), Keeps(m, mem),
         \A p \in Ops : SameTask(m.op[p], mem.op[p]) /\ SameSlot(m.op[p], mem.op[p])
  PROVE  WakeInv'
<1>1. mem' = m /\ UNCHANGED <<owner, pipe, instances, activeOps, commands>> /\ owner \notin {"pop", "scan"}
  BY DEF Step, taskRest, wake, Running
<1>2. NoneDrops(mem'.op, mem.op) /\ Lasts(mem', mem)
  BY <1>1 DEF NoneDrops, SameSlot, Lasts, Keeps
<1>3. ReleasedFirst'
  BY <1>2, AroundFacts, DropsLast
<1>4. Quietly
  BY <1>1 DEF Quietly
<1> QED BY <1>1, <1>3, <1>4, AroundFacts, Undisturbed DEF Around

\* A record at another suspension point.
LEMMA SlotGoes ==
  ASSUME NEW k \in OpRecords, k.stage \in TaskStages, NEW stage \in TaskStages
  PROVE  LET q == [k EXCEPT !.stage = stage]
         IN SameTask(q, k) /\ SameSlot(q, k) /\ q.stage = stage /\ q \in OpRecords
BY DEF OpRecords, SameTask, SameSlot, Pending, TaskStages, Stages

\* The heap with a task at another suspension point.
LEMMA GoIs ==
  ASSUME Around, NEW o \in Ops, mem.op[o].stage \in TaskStages, NEW stage \in TaskStages
  PROVE  LET m == Go(o, stage)
         IN /\ IsHeap(m) /\ m.inst = mem.inst /\ m.resp = mem.resp /\ m.chunk = mem.chunk
            /\ m.op \in [Ops -> OpRecords]
            /\ \A p \in Ops : SameTask(m.op[p], mem.op[p]) /\ SameSlot(m.op[p], mem.op[p])
<1> DEFINE m == Go(o, stage)
           k == [mem.op[o] EXCEPT !.stage = stage]
<1>0. IsHeap(mem) /\ mem.op \in [Ops -> OpRecords] /\ mem.op[o] \in OpRecords
  BY AroundFacts DEF Form
<1>1. /\ IsHeap(m) /\ m.inst = mem.inst /\ m.resp = mem.resp /\ m.chunk = mem.chunk
      /\ m.op = [mem.op EXCEPT ![o] = k]
  BY <1>0 DEF Go, IsHeap
<1>2. SameTask(k, mem.op[o]) /\ SameSlot(k, mem.op[o]) /\ k \in OpRecords
  BY <1>0, SlotGoes
<1> HIDE DEF m, k
<1>3. ASSUME NEW p \in Ops PROVE SameTask(m.op[p], mem.op[p]) /\ SameSlot(m.op[p], mem.op[p])
  <2>1. CASE p = o
    BY <1>0, <1>1, <1>2, <2>1
  <2>2. CASE p # o
    <3>1. m.op[p] = mem.op[p]
      BY <1>0, <1>1, <2>2
    <3> QED BY <3>1 DEF SameTask, SameSlot
  <2> QED BY <2>1, <2>2
<1>4. m.op \in [Ops -> OpRecords]
  BY <1>0, <1>1, <1>2
<1> QED BY <1>1, <1>3, <1>4 DEF m

\* Another suspension point.
LEMMA GoWakes ==
  ASSUME Around, Running, NEW o \in Ops, mem.op[o].stage \in TaskStages, NEW stage \in TaskStages,
         Step(Go(o, stage)), UNCHANGED parked
  PROVE  WakeInv'
<1> DEFINE m == Go(o, stage)
<1>1. /\ m.inst = mem.inst /\ m.resp = mem.resp /\ m.chunk = mem.chunk
      /\ \A p \in Ops : SameTask(m.op[p], mem.op[p]) /\ SameSlot(m.op[p], mem.op[p])
  BY GoIs
<1>2. Step(m)
  OBVIOUS
<1> HIDE DEF m
<1>3. NoneCloses(m, mem) /\ Keeps(m, mem)
  BY <1>1 DEF NoneCloses, Keeps
<1> QED BY <1>1, <1>2, <1>3, StepWakes

\* A close begins: it cancels the other tasks of its instance, which are parked no more.
LEMMA BeginsWakes ==
  ASSUME Around, Running, NEW o \in Ops, mem.op[o].stage = "spawned", NEW i, NEW b, NEW S,
         Step([Cancel(Go(o, "stopping"), S) EXCEPT !.inst[i].up = b]), parked' = parked \ S
  PROVE  WakeInv'
<1> DEFINE m1 == Go(o, "stopping")
           m2 == Cancel(m1, S)
           m3 == [m2 EXCEPT !.inst[i].up = b]
<1>1. /\ IsHeap(m1) /\ m1.inst = mem.inst /\ m1.resp = mem.resp /\ m1.chunk = mem.chunk
      /\ m1.op \in [Ops -> OpRecords]
      /\ \A p \in Ops : SameTask(m1.op[p], mem.op[p]) /\ SameSlot(m1.op[p], mem.op[p])
  <2>1. "spawned" \in TaskStages /\ "stopping" \in TaskStages
    BY DEF TaskStages
  <2> QED BY <2>1, GoIs
<1>2. Step(m3)
  OBVIOUS
<1> HIDE DEF m1
<1>3. /\ IsHeap(m2) /\ m2.inst = m1.inst /\ m2.resp = m1.resp /\ m2.chunk = m1.chunk
      /\ \A p \in Ops : /\ SameWay(m2.op[p], m1.op[p]) /\ m2.op[p].stage = m1.op[p].stage
                        /\ m2.op[p].cancelled = m1.op[p].cancelled
                        /\ m2.op[p].cancelling <=> (m1.op[p].cancelling \/ p \in S)
  BY <1>1, CancelIs
<1> HIDE DEF m2
<1>4. /\ m3.inst = [m2.inst EXCEPT ![i] = [m2.inst[i] EXCEPT !.up = b]]
      /\ m3.op = m2.op /\ m3.resp = m2.resp /\ m3.chunk = m2.chunk
  BY <1>3 DEF IsHeap
<1> HIDE DEF m3
<1>5. NoneCloses(m3, mem)
  <2>1. mem.inst \in [Insts -> InstRecords]
    BY AroundFacts
  <2>2. m3.inst = [mem.inst EXCEPT ![i] = [mem.inst[i] EXCEPT !.up = b]]
    BY <1>1, <1>3, <1>4
  <2>3. ASSUME NEW j \in Insts, m3.inst[j].closing PROVE mem.inst[j].closing
    <3>1. CASE j = i
      <4>1. mem.inst[j] \in InstRecords /\ m3.inst[j] = [mem.inst[j] EXCEPT !.up = b]
        BY <2>1, <2>2, <3>1
      <4> QED BY <2>3, <4>1 DEF InstRecords
    <3>2. CASE j # i
      BY <2>1, <2>2, <2>3, <3>2
    <3> QED BY <3>1, <3>2
  <2> QED BY <2>3 DEF NoneCloses
<1>6. ASSUME NEW p \in Ops PROVE SameTask(m3.op[p], mem.op[p]) /\ SameSlot(m3.op[p], mem.op[p])
  BY <1>1, <1>3, <1>4 DEF SameWay, SameOp, SameTask, SameSlot
<1>7. Keeps(m3, mem) /\ m3.chunk = mem.chunk
  BY <1>1, <1>3, <1>4 DEF Keeps
<1> QED BY <1>2, <1>5, <1>6, <1>7, StepWakes

\* From the top of execute to the first suspension point.
LEMMA StartsWakes ==
  ASSUME Around, NEW o \in Ops, task_starts(o)
  PROVE  WakeInv'
<1> DEFINE i == mem.op[o].inst
<1>0. Running /\ mem.op[o].stage = "spawned" /\ mem.op[o].stage \in TaskStages /\ FALSE \in BOOLEAN
  BY DEF task_starts, TaskStages
<1>1. CASE Finish(mem, o, FALSE)
  BY <1>0, <1>1, EndWakes
<1>2. CASE Step(Go(o, "running")) /\ UNCHANGED parked
  <2>1. "running" \in TaskStages
    BY DEF TaskStages
  <2> QED BY <1>0, <1>2, <2>1, GoWakes
<1>3. CASE Step(Go(o, "reading")) /\ UNCHANGED parked
  <2>1. "reading" \in TaskStages
    BY DEF TaskStages
  <2> QED BY <1>0, <1>3, <2>1, GoWakes
<1>4. CASE /\ Step([Cancel(Go(o, "stopping"), Siblings(o)) EXCEPT !.inst[i].up = @ /\ mem.inst[i].server])
           /\ parked' = parked \ Siblings(o)
  <2> DEFINE S == Siblings(o)
             m2 == Cancel(Go(o, "stopping"), S)
             b == m2.inst[i].up /\ mem.inst[i].server
             m3 == [m2 EXCEPT !.inst[i].up = b]
  <2>1. Step(m3) /\ parked' = parked \ S
    BY <1>4, Zenon DEF m3, b, m2, S
  <2>2. Step([Cancel(Go(o, "stopping"), S) EXCEPT !.inst[i].up = b])
    BY <2>1
  <2> HIDE DEF b, S, i
  <2> QED BY <1>0, <2>1, <2>2, BeginsWakes
<1> QED BY <1>1, <1>2, <1>3, <1>4 DEF task_starts
\* A flag of an instance that is not its closing.
LEMMA UpIs ==
  ASSUME Around, NEW i, NEW b
  PROVE  LET m == [mem EXCEPT !.inst[i].up = b]
         IN /\ IsHeap(m) /\ m.op = mem.op /\ m.resp = mem.resp /\ m.chunk = mem.chunk /\ NoneCloses(m, mem)
            /\ Heap(m, m.op)
<1> DEFINE m == [mem EXCEPT !.inst[i].up = b]
           q == [mem.inst[i] EXCEPT !.up = b]
<1>0. IsHeap(mem) /\ mem.inst \in [Insts -> InstRecords] /\ Heap(mem, mem.op)
  BY AroundFacts DEF Form
<1>1. IsHeap(m) /\ m.inst = [mem.inst EXCEPT ![i] = q] /\ m.op = mem.op /\ m.resp = mem.resp /\ m.chunk = mem.chunk
  BY <1>0 DEF IsHeap
<1>2. i \in Insts => q.closing = mem.inst[i].closing
  <2>1. i \in Insts => mem.inst[i] \in InstRecords
    BY <1>0
  <2> QED BY <2>1 DEF InstRecords
<1> HIDE DEF m, q
<1>3. NoneCloses(m, mem)
  BY <1>0, <1>1, <1>2 DEF NoneCloses
<1>4. Heap(m, m.op)
  BY <1>0, <1>1 DEF Heap
<1> QED BY <1>1, <1>3, <1>4 DEF m

\* An engine or a server is open.
LEMMA OpensWakes ==
  ASSUME Around, Running, NEW o \in Ops, NEW i, Finish([mem EXCEPT !.inst[i].up = TRUE], o, TRUE)
  PROVE  WakeInv'
<1> DEFINE m == [mem EXCEPT !.inst[i].up = TRUE]
<1>1. m.op = mem.op /\ m.resp = mem.resp /\ Heap(m, m.op)
  BY UpIs
<1>2. Finish(m, o, TRUE) /\ TRUE \in BOOLEAN
  OBVIOUS
<1> HIDE DEF m
<1>3. m.op \in [Ops -> OpRecords] /\ Keeps(m, mem) /\ \A p \in Ops : SameSlot(m.op[p], mem.op[p])
  BY <1>1, AroundFacts DEF Keeps, SameSlot
<1> QED BY <1>1, <1>2, <1>3, FollowsSame, FinishWakes

\* The scope of a server ends.
LEMMA ServerWakes ==
  ASSUME Around, NEW i \in Insts, server_ends(i)
  PROVE  WakeInv'
<1> DEFINE m == [mem EXCEPT !.inst[i].up = FALSE]
<1>1. m.op = mem.op /\ m.resp = mem.resp /\ m.chunk = mem.chunk /\ NoneCloses(m, mem)
  BY UpIs
<1>2. Running /\ Step(m) /\ UNCHANGED parked
  BY DEF server_ends
<1> HIDE DEF m
<1>3. Keeps(m, mem) /\ \A p \in Ops : SameTask(m.op[p], mem.op[p]) /\ SameSlot(m.op[p], mem.op[p])
  BY <1>1 DEF Keeps, SameTask, SameSlot
<1> QED BY <1>1, <1>2, <1>3, StepWakes

\* A task ends, having marked responses, none as not released.
LEMMA MarksWakes ==
  ASSUME Around, Running, NEW o \in Ops, NEW ok \in BOOLEAN, NEW f \in [Resps -> RespTypes],
         \A r \in Resps : mem.resp[r].released => f[r].released,
         Finish([mem EXCEPT !.resp = f], o, ok)
  PROVE  WakeInv'
<1> DEFINE m == [mem EXCEPT !.resp = f]
<1>0. IsHeap(mem) /\ mem.op \in [Ops -> OpRecords]
  BY AroundFacts DEF Form
<1>1. IsHeap(m) /\ m.op = mem.op /\ m.resp = f
  BY <1>0 DEF IsHeap
<1>2. Finish(m, o, ok)
  OBVIOUS
<1> HIDE DEF m
<1>3. Heap(m, m.op) /\ m.op \in [Ops -> OpRecords] /\ Keeps(m, mem) /\ \A p \in Ops : SameSlot(m.op[p], mem.op[p])
  BY <1>0, <1>1 DEF Heap, Keeps, SameSlot
<1> QED BY <1>2, <1>3, FollowsSame, FinishWakes

\* It has marked one.
LEMMA MarkWakes ==
  ASSUME Around, Running, NEW o \in Ops, NEW ok \in BOOLEAN, NEW r \in Resps, NEW q \in RespTypes,
         q.released = mem.resp[r].released, Finish([mem EXCEPT !.resp[r] = q], o, ok)
  PROVE  WakeInv'
<1> DEFINE f == [mem.resp EXCEPT ![r] = q]
<1>0. IsHeap(mem) /\ mem.resp \in [Resps -> RespTypes]
  BY AroundFacts DEF Form
<1>1. [mem EXCEPT !.resp[r] = q] = [mem EXCEPT !.resp = f]
  BY <1>0 DEF IsHeap
<1>2. f \in [Resps -> RespTypes] /\ \A s \in Resps : mem.resp[s].released => f[s].released
  BY <1>0
<1> HIDE DEF f
<1> QED BY <1>1, <1>2, MarksWakes

\* An error or a cancellation leaves the body of execute.
LEMMA RaisesWakes ==
  ASSUME Around, NEW o \in Ops, task_raises(o)
  PROVE  WakeInv'
<1>0. Running /\ mem.op[o].stage \in TaskStages /\ FALSE \in BOOLEAN
  BY DEF task_raises, TaskStages
<1>1. CASE Finish(mem, o, FALSE)
  BY <1>0, <1>1, EndWakes
<1>2. CASE mem.op[o].kind = "read" /\ Finish([mem EXCEPT !.resp[mem.op[o].resp].shut = TRUE], o, FALSE)
  <2> DEFINE r == mem.op[o].resp
             q == [mem.resp[r] EXCEPT !.shut = TRUE]
  <2>1. r \in Resps
    BY <1>0, <1>2, RespOf DEF Around
  <2>2. IsHeap(mem) /\ mem.resp \in [Resps -> RespTypes]
    BY AroundFacts DEF Form
  <2>3. q \in RespTypes /\ q.released = mem.resp[r].released
    <3>1. mem.resp[r] \in RespTypes
      BY <2>1, <2>2
    <3> QED BY <3>1 DEF RespTypes
  <2>4. Finish([mem EXCEPT !.resp[r] = q], o, FALSE)
    BY <1>2, <2>1, <2>2
  <2> HIDE DEF q, r
  <2> QED BY <1>0, <2>1, <2>3, <2>4, MarkWakes
<1> QED BY <1>1, <1>2 DEF task_raises

\* An internal release closed the engine's response.
LEMMA ShutsWakes ==
  ASSUME Around, NEW o \in Ops, task_drops(o)
  PROVE  WakeInv'
<1> DEFINE r == mem.op[o].resp
           q == [mem.resp[r] EXCEPT !.listed = FALSE, !.shut = TRUE]
<1>0. Running /\ mem.op[o].stage \in TaskStages /\ TRUE \in BOOLEAN /\ mem.op[o].kind = "drop"
  BY DEF task_drops, TaskStages
<1>1. r \in Resps /\ mem.resp[r] \in RespRecords
  BY <1>0, RespOf DEF Around
<1>2. IsHeap(mem) /\ mem.resp \in [Resps -> RespRecords] /\ mem.resp \in [Resps -> RespTypes]
  BY AroundFacts DEF Form
<1>3. q \in RespTypes /\ q.released = mem.resp[r].released
  <2>1. mem.resp[r] \in RespTypes
    BY <1>1, <1>2
  <2> QED BY <2>1 DEF RespTypes
<1>4. [mem EXCEPT !.resp[r].listed = FALSE, !.resp[r].shut = TRUE] = [mem EXCEPT !.resp[r] = q]
  BY <1>1, <1>2 DEF IsHeap, RespRecords
<1>5. Finish([mem EXCEPT !.resp[r] = q], o, TRUE)
  <2>1. Finish([mem EXCEPT !.resp[r].listed = FALSE, !.resp[r].shut = TRUE], o, TRUE)
    BY DEF task_drops
  <2> HIDE DEF q, r
  <2> QED BY <1>4, <2>1
<1> HIDE DEF q, r
<1> QED BY <1>0, <1>1, <1>3, <1>5, MarkWakes

\* A task whose condition has not come parks.
LEMMA ParksWakes ==
  ASSUME Around, Running, NEW o \in Ops, mem.op[o].stage \in TaskStages, Waits(o), Step(mem),
         parked' = parked \cup {o}
  PROVE  WakeInv'
<1>1. mem' = mem /\ UNCHANGED <<owner, pipe, instances, activeOps, commands>> /\ owner \notin {"pop", "scan"}
  BY DEF Step, taskRest, wake, Running
<1>2. ReleasedFirst'
  BY <1>1, AroundFacts DEF ReleasedFirst
<1>3. Quietly
  BY <1>1 DEF Quietly, NoneCloses, SameTask
<1>4. o \in Tasks
  BY DEF Tasks
<1> QED BY <1>1, <1>2, <1>3, <1>4, AroundFacts, Undisturbed DEF Around

\* A close parks, or closes the responses of its instance and ends.
LEMMA ClosesWakes ==
  ASSUME Around, NEW o \in Ops, task_closes(o)
  PROVE  WakeInv'
<1> DEFINE i == mem.op[o].inst
           f == [r \in Resps |-> IF mem.resp[r].inst = i THEN [mem.resp[r] EXCEPT !.listed = FALSE, !.shut = TRUE]
                                                         ELSE mem.resp[r]]
<1>0. Running /\ mem.op[o].stage \in TaskStages /\ TRUE \in BOOLEAN /\ mem.op[o].stage = "draining"
  BY Zenon DEF task_closes, TaskStages
<1>1. CASE mem.inst[i].active > 1 /\ Step(mem) /\ parked' = parked \cup {o}
  <2>1. mem.op[o].kind = "close"
    BY <1>0, TaskFacts DEF Around, Shape
  <2>2. Waits(o)
    BY <1>1, <2>1 DEF Waits
  <2> QED BY <1>0, <1>1, <2>2, ParksWakes
<1>2. CASE Finish([mem EXCEPT !.resp = f], o, TRUE)
  <2>1. ASSUME NEW r \in Resps PROVE f[r] \in RespTypes /\ (mem.resp[r].released => f[r].released)
    <3>1. mem.resp[r] \in RespTypes
      BY AroundFacts DEF Form
    <3> QED BY <3>1 DEF RespTypes
  <2>2. f \in [Resps -> RespTypes]
    BY <2>1
  <2> HIDE DEF f
  <2> QED BY <1>0, <1>2, <2>1, <2>2, MarksWakes
<1> QED BY <1>1, <1>2, Zenon DEF task_closes

\* A read parks behind the chunk before it, or goes on.
LEMMA AwaitsWakes ==
  ASSUME Around, NEW o \in Ops, task_awaits_chunk(o)
  PROVE  WakeInv'
<1>0. Running /\ mem.op[o].stage = "reading" /\ mem.op[o].stage \in TaskStages /\ FALSE \in BOOLEAN
  BY DEF task_awaits_chunk, TaskStages
<1>1. CASE Finish(mem, o, FALSE)
  BY <1>0, <1>1, EndWakes
<1>2. CASE Step(Go(o, "running")) /\ UNCHANGED parked
  <2>1. "running" \in TaskStages
    BY DEF TaskStages
  <2> QED BY <1>0, <1>2, <2>1, GoWakes
<1>3. CASE mem.resp[mem.op[o].resp].chunks # 0 /\ Step(mem) /\ parked' = parked \cup {o}
  <2>1. mem.op[o].kind = "read"
    BY <1>0, TaskFacts DEF Around, Shape
  <2>2. Waits(o)
    BY <1>3, <2>1 DEF Waits
  <2> QED BY <1>0, <1>3, <2>2, ParksWakes
<1> QED BY <1>1, <1>2, <1>3 DEF task_awaits_chunk
\* An operation with an event is what it was for the owner.
LEMMA EventIs ==
  ASSUME Around, NEW o \in Ops, NEW x \in Resps \cup Chunks
  PROVE  LET ops == [mem.op EXCEPT ![o].event = x]
         IN /\ ops \in [Ops -> OpRecords] /\ \A p \in Ops : p # o => ops[p] = mem.op[p]
            /\ ops[o].stage = mem.op[o].stage
            /\ \A p \in Ops : SameTask(ops[p], mem.op[p]) /\ SameSlot(ops[p], mem.op[p])
<1> DEFINE ops == [mem.op EXCEPT ![o].event = x]
           k == [mem.op[o] EXCEPT !.event = x]
<1>0. mem.op \in [Ops -> OpRecords] /\ mem.op[o] \in OpRecords
  BY AroundFacts
<1>1. /\ k \in OpRecords /\ k.stage = mem.op[o].stage /\ SameTask(k, mem.op[o]) /\ SameSlot(k, mem.op[o])
  BY <1>0 DEF OpRecords, SameTask, SameSlot, Handles
<1>2. ops = [mem.op EXCEPT ![o] = k]
  BY <1>0
<1> HIDE DEF ops, k
<1>3. ops \in [Ops -> OpRecords] /\ ops[o] = k /\ \A p \in Ops : p # o => ops[p] = mem.op[p]
  BY <1>0, <1>1, <1>2
<1>4. \A p \in Ops : SameTask(ops[p], mem.op[p]) /\ SameSlot(ops[p], mem.op[p])
  BY <1>1, <1>3 DEF SameTask, SameSlot
<1> QED BY <1>1, <1>3, <1>4 DEF ops

\* A new response was not released, and nobody has begun to close.
LEMMA MadeKeeps ==
  ASSUME Around, NEW i \in Insts, NEW r \in Resps, mem.resp[r].refs = 0, NEW n \in Nat, NEW o \in Ops
  PROVE  LET m == response_made(mem, i, r, n, o)
         IN /\ Heap(m, m.op) /\ m.chunk = mem.chunk /\ NoneCloses(m, mem)
            /\ m.op = [mem.op EXCEPT ![o].event = r]
            /\ ~mem.resp[r].released /\ \A s \in Resps : s # r => m.resp[s] = mem.resp[s]
<1> DEFINE m == response_made(mem, i, r, n, o)
           q == MoreResp(mem.inst[i], n)
           l == NewResp(i, n)
<1>0. /\ IsHeap(mem) /\ mem.inst \in [Insts -> InstRecords] /\ mem.resp \in [Resps -> RespRecords]
      /\ Mem(mem, live, Kept)
  BY AroundFacts DEF Form
<1>1. /\ IsHeap(m) /\ m.inst = [mem.inst EXCEPT ![i] = q] /\ m.resp = [mem.resp EXCEPT ![r] = l]
      /\ m.op = [mem.op EXCEPT ![o].event = r] /\ m.chunk = mem.chunk
  <2>1. MadeDoes(mem, response_made(mem, i, r, n, o), i, r, n, o)
    BY <1>0, MadeIs
  <2> QED BY <2>1 DEF MadeDoes
<1>2. q.closing = mem.inst[i].closing
  BY <1>0, MoreRespIs
<1>3. l \in RespRecords
  BY NewRespIs
<1>4. mem.resp[r] = NoResp
  BY <1>0 DEF Mem, Books, RespBook
<1>5. ~mem.resp[r].released
  BY <1>4 DEF NoResp
<1> HIDE DEF m, q, l
<1>6. m.resp \in [Resps -> RespTypes]
  <2>1. RespRecords \subseteq RespTypes
    BY BridgeAssumption DEF RespRecords, RespTypes
  <2> QED BY <1>0, <1>1, <1>3, <2>1
<1>7. NoneCloses(m, mem)
  BY <1>0, <1>1, <1>2 DEF NoneCloses
<1>8. \A s \in Resps : s # r => m.resp[s] = mem.resp[s]
  BY <1>0, <1>1
<1>9. Heap(m, m.op)
  BY <1>1, <1>6 DEF Heap
<1> QED BY <1>1, <1>5, <1>7, <1>8, <1>9 DEF m

\* StaticEngine::handle gave a response.
LEMMA HandlesWakes ==
  ASSUME Around, NEW o \in Ops, task_handles(o)
  PROVE  WakeInv'
<1> DEFINE i == mem.op[o].inst
           r == Slot(FreeResps)
<1>0. /\ Running /\ mem.op[o].stage \in TaskStages /\ mem.op[o].stage = "running" /\ TRUE \in BOOLEAN
  BY HandlesIs, Zenon DEF TaskStages
<1>1. i \in Insts
  BY <1>0, TaskFacts DEF Around
<1>2. FreeResps # {} => r \in Resps /\ mem.resp[r].refs = 0
  BY SlotIn DEF FreeResps
<1>3. RespCost \in Nat /\ RespCost + HeaderCost \in Nat
  BY BridgeAssumption
<1>4. CASE FreeResps # {} /\ Finish(response_made(mem, i, r, RespCost + HeaderCost, o), o, TRUE)
  <2> DEFINE n == RespCost + HeaderCost
             m == response_made(mem, i, r, n, o)
  <2>0. n \in Nat /\ r \in Resps /\ mem.resp[r].refs = 0 /\ Finish(m, o, TRUE)
    BY <1>2, <1>3, <1>4
  <2> HIDE DEF n, r, i
  <2>1. /\ Heap(m, m.op) /\ m.op = [mem.op EXCEPT ![o].event = r]
        /\ ~mem.resp[r].released /\ \A s \in Resps : s # r => m.resp[s] = mem.resp[s]
    BY <1>1, <2>0, MadeKeeps
  <2> HIDE DEF m
  <2>2. m.op \in [Ops -> OpRecords] /\ \A p \in Ops : SameSlot(m.op[p], mem.op[p])
    BY <2>0, <2>1, EventIs
  <2>3. Keeps(m, mem)
    BY <2>1 DEF Keeps
  <2> QED BY <1>0, <2>0, <2>1, <2>2, <2>3, FollowsSame, FinishWakes
<1>5. CASE /\ FreeResps # {} /\ UNCHANGED parked
           /\ Step([response_made(mem, i, r, RespCost, o) EXCEPT !.op[o].stage = "discard", !.resp[r].listed = FALSE])
  <2> DEFINE n == RespCost
             m1 == response_made(mem, i, r, n, o)
             k == [m1.op[o] EXCEPT !.stage = "discard"]
             l == [m1.resp[r] EXCEPT !.listed = FALSE]
             m2 == [m1 EXCEPT !.op[o].stage = "discard", !.resp[r].listed = FALSE]
  <2>0. n \in Nat /\ r \in Resps /\ mem.resp[r].refs = 0 /\ Step(m2)
    BY <1>2, <1>3, <1>5
  <2> HIDE DEF n, r, i
  <2>1. /\ Heap(m1, m1.op) /\ m1.chunk = mem.chunk /\ NoneCloses(m1, mem) /\ m1.op = [mem.op EXCEPT ![o].event = r]
        /\ ~mem.resp[r].released /\ \A s \in Resps : s # r => m1.resp[s] = mem.resp[s]
    BY <1>1, <2>0, MadeKeeps
  <2> HIDE DEF m1
  <2>2. /\ m1.op \in [Ops -> OpRecords] /\ m1.op[o].stage = mem.op[o].stage
        /\ \A p \in Ops : SameTask(m1.op[p], mem.op[p]) /\ SameSlot(m1.op[p], mem.op[p])
    BY <2>0, <2>1, EventIs
  <2>3. /\ m2.op = [m1.op EXCEPT ![o] = k] /\ m2.resp = [m1.resp EXCEPT ![r] = l]
        /\ m2.inst = m1.inst /\ m2.chunk = m1.chunk
    BY <2>1 DEF Heap, IsHeap
  <2>4. SameTask(k, m1.op[o]) /\ SameSlot(k, m1.op[o])
    <3>1. m1.op[o] \in OpRecords /\ m1.op[o].stage \in TaskStages /\ "discard" \in TaskStages
      BY <1>0, <2>2 DEF TaskStages
    <3> QED BY <3>1, SlotGoes
  <2> HIDE DEF m2, k, l
  <2>5. ASSUME NEW p \in Ops PROVE SameTask(m2.op[p], mem.op[p]) /\ SameSlot(m2.op[p], mem.op[p])
    <3>1. CASE p = o
      <4>1. m2.op[p] = k
        BY <2>2, <2>3, <3>1
      <4> QED BY <2>2, <2>4, <3>1, <4>1 DEF SameTask, SameSlot
    <3>2. CASE p # o
      BY <2>2, <2>3, <3>2
    <3> QED BY <3>1, <3>2
  <2>6. Keeps(m2, mem)
    <3>1. \A s \in Resps : s # r => m2.resp[s] = mem.resp[s]
      BY <2>1, <2>3 DEF Heap
    <3> QED BY <2>1, <3>1 DEF Keeps
  <2>7. NoneCloses(m2, mem) /\ m2.chunk = mem.chunk
    BY <2>1, <2>3 DEF NoneCloses
  <2> QED BY <1>0, <1>5, <2>0, <2>5, <2>6, <2>7, StepWakes
<1>6. CASE Step(Go(o, "discard")) /\ UNCHANGED parked
  <2>1. "discard" \in TaskStages
    BY DEF TaskStages
  <2> QED BY <1>0, <1>6, <2>1, GoWakes
<1>7. \/ FreeResps # {} /\ Finish(response_made(mem, i, r, RespCost + HeaderCost, o), o, TRUE)
      \/ /\ FreeResps # {} /\ UNCHANGED parked
         /\ Step([response_made(mem, i, r, RespCost, o) EXCEPT !.op[o].stage = "discard", !.resp[r].listed = FALSE])
      \/ Step(Go(o, "discard")) /\ UNCHANGED parked
  BY DEF task_handles
<1> QED BY <1>4, <1>5, <1>6, <1>7, Zenon

\* Response::read returned.
LEMMA TakesWakes ==
  ASSUME Around, NEW o \in Ops, task_reads(o)
  PROVE  WakeInv'
<1> DEFINE i == mem.op[o].inst
           r == mem.op[o].resp
           c == Slot(FreeChunks)
<1>0. /\ Running /\ mem.op[o].stage = "running" /\ mem.op[o].kind = "read"
      /\ mem.op[o].stage \in TaskStages /\ TRUE \in BOOLEAN /\ FALSE \in BOOLEAN
  BY ReadsIs DEF TaskStages
<1>1. /\ IsHeap(mem) /\ mem.inst \in [Insts -> InstRecords] /\ mem.resp \in [Resps -> RespRecords]
      /\ mem.resp \in [Resps -> RespTypes] /\ Rest(mem, Ops)
  BY AroundFacts, MemFacts DEF Form
<1>2. r \in Resps /\ mem.resp[r] \in RespRecords /\ i \in Insts
  BY <1>0, RespOf, TaskFacts DEF Around
<1>3. FreeChunks # {} => c \in Chunks
  BY SlotIn DEF FreeChunks
<1>4. CASE Finish(mem, o, TRUE)
  BY <1>0, <1>4, EndWakes
<1>5. CASE mem.resp[r].pos < BodyLen /\ FreeChunks # {} /\ Finish(ChunkBook(mem, i, r, c, o), o, TRUE)
  <2> DEFINE m == ChunkBook(mem, i, r, c, o)
             s == MoreSent(mem.resp[r])
  <2>0. Finish(m, o, TRUE) /\ c \in Chunks /\ mem.resp[r].pos < BodyLen
    BY <1>3, <1>5
  <2> HIDE DEF c
  <2>1. IsHeap(m) /\ m.resp = [mem.resp EXCEPT ![r] = s] /\ m.op = [mem.op EXCEPT ![o].event = c]
    <3> HIDE DEF i, r
    <3>1. ChunkDoes(mem, ChunkBook(mem, i, r, c, o), i, r, c, o)
      BY <1>1, <1>2, ChunkIs
    <3> QED BY <3>1 DEF ChunkDoes
  <2>2. s \in RespTypes /\ s.released = mem.resp[r].released
    <3>1. mem.resp[r].sent <= mem.resp[r].pos
      BY <1>1, <1>2 DEF Rest, Bound
    <3>2. s \in RespRecords
      BY <1>2, <2>0, <3>1, MoreSentIs
    <3>3. RespRecords \subseteq RespTypes
      BY BridgeAssumption DEF RespRecords, RespTypes
    <3>4. s.released = mem.resp[r].released
      BY <1>2 DEF MoreSent, RespRecords
    <3> QED BY <3>2, <3>3, <3>4
  <2> HIDE DEF m, s, r, i
  <2>3. m.resp \in [Resps -> RespTypes] /\ Keeps(m, mem)
    BY <1>1, <1>2, <2>1, <2>2 DEF Keeps
  <2>4. m.op \in [Ops -> OpRecords] /\ \A p \in Ops : SameSlot(m.op[p], mem.op[p])
    BY <2>0, <2>1, EventIs
  <2>5. Heap(m, m.op)
    BY <2>1, <2>3 DEF Heap
  <2> QED BY <1>0, <2>0, <2>3, <2>4, <2>5, FollowsSame, FinishWakes
<1>6. CASE Finish([mem EXCEPT !.resp[r].pos = @ + 1], o, FALSE)
  <2> DEFINE q == [mem.resp[r] EXCEPT !.pos = @ + 1]
  <2>1. q \in RespTypes /\ q.released = mem.resp[r].released
    <3>1. mem.resp[r] \in RespTypes
      BY <1>1, <1>2
    <3> QED BY <3>1 DEF RespTypes
  <2>2. Finish([mem EXCEPT !.resp[r] = q], o, FALSE)
    BY <1>1, <1>2, <1>6
  <2> HIDE DEF q, r
  <2> QED BY <1>0, <1>2, <2>1, <2>2, MarkWakes
<1> QED BY <1>4, <1>5, <1>6, ReadsIs

\* Every step of a task.
LEMMA TaskWakes ==
  ASSUME Around, NEW o \in Ops, Task(o)
  PROVE  WakeInv'
<1>1. CASE task_opens(o) \/ task_serves(o)
  <2>1. Running /\ FALSE \in BOOLEAN
    BY <1>1 DEF task_opens, task_serves
  <2>2. CASE Finish(mem, o, FALSE)
    BY <2>1, <2>2, EndWakes
  <2>3. CASE Finish([mem EXCEPT !.inst[mem.op[o].inst].up = TRUE], o, TRUE)
    BY <2>1, <2>3, OpensWakes
  <2> QED BY <1>1, <2>2, <2>3 DEF task_opens, task_serves
<1>2. CASE task_nexts(o) \/ task_discards(o)
  <2>1. Running /\ TRUE \in BOOLEAN /\ FALSE \in BOOLEAN
    BY <1>2 DEF task_nexts, task_discards
  <2> QED BY <1>2, <2>1, EndWakes DEF task_nexts, task_discards
<1>3. CASE task_stops(o)
  <2>1. /\ Running /\ mem.op[o].stage \in TaskStages /\ "draining" \in TaskStages
        /\ Step(Go(o, "draining")) /\ UNCHANGED parked
    BY <1>3 DEF task_stops, TaskStages
  <2> QED BY <2>1, GoWakes
<1> QED BY <1>1, <1>2, <1>3, StartsWakes, HandlesWakes, AwaitsWakes, TakesWakes, RaisesWakes, ShutsWakes, ClosesWakes
    DEF Task

\* Nothing is there at first.
LEMMA InitWake == Init => WakeInv
BY NoOpFacts DEF NoOpIs, Init, WakeInv, ReleasedFirst, Asleep

\* Whenever the owner sleeps on its pipe with no byte in it, nothing waits for it, and it stays so until
\* somebody wakes it.
THEOREM BridgeWake == Spec => []WakeInv
<1>1. ASSUME ThreadInv, OpsInv, OpsInv', MemInv, MemInv', WakeInv, [Next]_vars PROVE WakeInv'
  <2>0. Around
    BY <1>1 DEF Around, Before
  <2>1. CASE UNCHANGED vars
    <3>1. UNCHANGED <<mem, owner, pipe, instances, activeOps, commands, parked>>
      BY <2>1 DEF vars, heap, counters, queues, threads, waker, wake, loopVars
    <3> QED BY <1>1, <3>1, Unseen
  <2>2. ASSUME NEW t \in Callers, Enter(t) PROVE WakeInv'
    BY <2>0, <2>2, EnterWakes
  <2>3. ASSUME NEW h \in Hosts, Resume(h) PROVE WakeInv'
    BY <2>0, <2>3, ResumeWakes
  <2>4. ASSUME NEW o \in Ops, Task(o) PROVE WakeInv'
    BY <2>0, <2>4, TaskWakes
  <2>5. ASSUME NEW i \in Insts, server_ends(i) PROVE WakeInv'
    BY <2>0, <2>5, ServerWakes
  <2>6. CASE Notify
    BY <2>0, <2>6, NotifyWakes
  <2>7. CASE Loop \/ Fault
    BY <2>0, <2>7, LoopWakes
  <2> QED BY <1>1, <2>1, <2>2, <2>3, <2>4, <2>5, <2>6, <2>7 DEF Next
<1>2. Spec => []ThreadInv
  BY BridgeThreads
<1>3. Spec => []OpsInv
  BY BridgeOperations
<1>4. Spec => []MemInv
  BY BridgeMemory
<1>5. ThreadInv /\ OpsInv /\ OpsInv' /\ MemInv /\ MemInv' /\ WakeInv /\ [Next]_vars => WakeInv'
  BY <1>1
<1> QED BY <1>2, <1>3, <1>4, <1>5, InitWake, PTL DEF Spec

\* The wake_pending handshake loses no wake-up: the owner sleeps only when nothing needs it.
THEOREM BridgeNoLostWakeup == Spec => []NoLostWakeup
<1>1. WakeInv /\ NoLostCommand => NoLostWakeup
  BY DEF WakeInv, Settled, Waits, NoLostWakeup
<1> QED BY <1>1, BridgeWake, BridgeNoLostCommand, PTL
=============================================================================
