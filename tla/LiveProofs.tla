----------------------------- MODULE LiveProofs -----------------------------
(***************************************************************************)
(* Proofs about Live for every number of connections, queue sizes, page    *)
(* sizes and bounds: that the live stream of the server signals its gaps,  *)
(* that the Run view and the execution page show what there is, that the   *)
(* journal of the Playground holds exactly what the events ingested leave  *)
(* unfinished, waiting and told, and that every part keeps its shape.      *)
(***************************************************************************)
EXTENDS Live, Sequences, TLAPS, FiniteSetTheorems, WellFoundedInduction

-----------------------------------------------------------------------------
(* Queues of deltas, as sets of what they hold.                            *)

Items(q) == {q[i] : i \in 1..Len(q)}
Rising(q) == \A i, j \in 1..Len(q) : i < j => q[i].seq < q[j].seq
Precede(A, B) == \A a \in A, b \in B : a.seq < b.seq

LEMMA ItemsEmpty == Items(<<>>) = {} /\ Rising(<<>>)
BY DEF Items, Rising

LEMMA ItemsType ==
  ASSUME NEW S, NEW q \in Seq(S)
  PROVE  Items(q) \subseteq S
BY DEF Items

LEMMA ItemsAppend ==
  ASSUME NEW S, NEW q \in Seq(S), NEW d \in S
  PROVE  Items(Append(q, d)) = Items(q) \union {d}
<1>1. Len(Append(q, d)) = Len(q) + 1 /\ Append(q, d)[Len(q) + 1] = d
  OBVIOUS
<1>2. \A i \in 1..Len(q) : Append(q, d)[i] = q[i]
  OBVIOUS
<1>3. Items(Append(q, d)) \subseteq Items(q) \union {d}
  BY <1>1, <1>2 DEF Items
<1>4. Items(q) \union {d} \subseteq Items(Append(q, d))
  BY <1>1, <1>2 DEF Items
<1> QED  BY <1>3, <1>4

LEMMA ItemsTail ==
  ASSUME NEW S, NEW q \in Seq(S), q # <<>>
  PROVE  /\ Head(q) \in S /\ Tail(q) \in Seq(S) /\ Len(Tail(q)) = Len(q) - 1
         /\ Items(q) = {Head(q)} \union Items(Tail(q))
<1>1. Len(q) \in Nat \ {0} /\ Head(q) = q[1] /\ Len(Tail(q)) = Len(q) - 1
  OBVIOUS
<1>2. \A i \in 1..Len(Tail(q)) : Tail(q)[i] = q[i + 1] /\ i + 1 \in 1..Len(q)
  BY <1>1
<1>3. \A i \in 1..Len(q) : i = 1 \/ (i - 1 \in 1..Len(Tail(q)) /\ q[i] = Tail(q)[i - 1])
  BY <1>1
<1>4. Items(q) \subseteq {Head(q)} \union Items(Tail(q))
  BY <1>1, <1>3 DEF Items
<1>5. {Head(q)} \union Items(Tail(q)) \subseteq Items(q)
  BY <1>1, <1>2 DEF Items
<1> QED  BY <1>1, <1>4, <1>5

LEMMA RisingTail ==
  ASSUME NEW S, NEW q \in Seq(S), q # <<>>, Rising(q)
  PROVE  Rising(Tail(q)) /\ Precede({Head(q)}, Items(Tail(q)))
<1>1. Len(q) \in Nat \ {0} /\ Head(q) = q[1] /\ Len(Tail(q)) = Len(q) - 1
  OBVIOUS
<1>2. \A i \in 1..Len(Tail(q)) : Tail(q)[i] = q[i + 1] /\ i + 1 \in 1..Len(q)
  BY <1>1
<1>3. Rising(Tail(q))
  BY <1>1, <1>2 DEF Rising
<1>4. Precede({Head(q)}, Items(Tail(q)))
  BY <1>1, <1>2 DEF Rising, Precede, Items
<1> QED  BY <1>3, <1>4

LEMMA RisingAppend ==
  ASSUME NEW S, NEW q \in Seq(S), NEW d \in S, Rising(q), Precede(Items(q), {d})
  PROVE  Rising(Append(q, d))
<1>1. Len(Append(q, d)) = Len(q) + 1 /\ Append(q, d)[Len(q) + 1] = d
  OBVIOUS
<1>2. \A i \in 1..Len(q) : Append(q, d)[i] = q[i] /\ q[i] \in Items(q)
  BY DEF Items
<1> SUFFICES ASSUME NEW i \in 1..Len(Append(q, d)), NEW j \in 1..Len(Append(q, d)), i < j
             PROVE  Append(q, d)[i].seq < Append(q, d)[j].seq
  BY DEF Rising
<1>3. CASE j \in 1..Len(q)
  BY <1>1, <1>2, <1>3 DEF Rising
<1>4. CASE j = Len(q) + 1
  BY <1>1, <1>2, <1>4 DEF Precede
<1> QED  BY <1>1, <1>3, <1>4

-----------------------------------------------------------------------------
(* Core's subscription when it is full: the oldest delta h is lost, and    *)
(* the next one, m, carries the count on.                                  *)

New(s) == [seq |-> s, before |-> 0]

LEMMA Marks ==
  ASSUME NEW t \in Seq(Stream!Delta), t # <<>>, Rising(t), NEW k \in Nat
  PROVE  LET u == [t EXCEPT ![1].before = @ + k]
             n == [Head(t) EXCEPT !.before = @ + k]
         IN /\ u \in Seq(Stream!Delta) /\ Len(u) = Len(t) /\ Rising(u)
            /\ n \in Stream!Delta /\ n.seq = Head(t).seq /\ n.before = Head(t).before + k
            /\ Items(u) = {n} \union Items(Tail(t))
<1> DEFINE u == [t EXCEPT ![1].before = @ + k]
           n == [Head(t) EXCEPT !.before = @ + k]
<1>1. Len(t) \in Nat \ {0} /\ Head(t) = t[1] /\ t[1] \in Stream!Delta
  OBVIOUS
<1>2. n \in Stream!Delta /\ n.seq = Head(t).seq /\ n.before = Head(t).before + k
  BY <1>1 DEF Stream!Delta
<1>3. Len(u) = Len(t) /\ u[1] = n /\ u \in Seq(Stream!Delta) /\ u # <<>>
  BY <1>1, <1>2
<1>4. \A i \in 2..Len(t) : u[i] = t[i]
  BY <1>1
<1>5. \A i \in 1..Len(t) : u[i].seq = t[i].seq
  BY <1>1, <1>2, <1>3, <1>4
<1>6. Rising(u)
  BY <1>3, <1>5 DEF Rising
<1>7. Head(u) = n /\ Tail(u) = Tail(t)
  BY <1>1, <1>3, <1>4
<1>8. Items(u) = {n} \union Items(Tail(t))
  BY <1>3, <1>7, ItemsTail
<1> QED  BY <1>2, <1>3, <1>6, <1>8

\* What a full subscription holds after a delta has come.
Overflows(A, B, s) ==
  \E h \in A, m \in A \union {New(s)}, n \in Stream!Delta :
    /\ h.seq < m.seq /\ n.seq = m.seq /\ n.before > 0
    /\ \A e \in A : e = h \/ h.seq < e.seq
    /\ \A e \in B : e = n \/ n.seq < e.seq
    /\ B = ((A \union {New(s)}) \ {h, m}) \union {n}

LEMMA PushFits ==
  ASSUME NEW q \in Seq(Stream!Delta), NEW s \in 1..MaxDeltas, Rising(q),
         Precede(Items(q), {New(s)}), Len(q) < CoreSize
  PROVE  /\ Stream!Push(q, s) \in Seq(Stream!Delta) /\ Rising(Stream!Push(q, s))
         /\ Len(Stream!Push(q, s)) = Len(q) + 1
         /\ Items(Stream!Push(q, s)) = Items(q) \union {New(s)}
<1>1. Stream!Push(q, s) = Append(q, New(s)) /\ New(s) \in Stream!Delta
  BY DEF Stream!Push, New, Stream!Delta
<1> QED  BY <1>1, ItemsAppend, RisingAppend

LEMMA PushOverflows ==
  ASSUME NEW q \in Seq(Stream!Delta), NEW s \in 1..MaxDeltas, Rising(q),
         Precede(Items(q), {New(s)}), ~(Len(q) < CoreSize), CoreSize \in Nat \ {0}
  PROVE  /\ Stream!Push(q, s) \in Seq(Stream!Delta) /\ Rising(Stream!Push(q, s))
         /\ Len(Stream!Push(q, s)) = Len(q)
         /\ Overflows(Items(q), Items(Stream!Push(q, s)), s)
<1> DEFINE a == Append(q, New(s))
           t == Tail(a)
           h == Head(a)
           m == Head(t)
           k == 1 + h.before
           n == [m EXCEPT !.before = @ + k]
           u == [t EXCEPT ![1].before = @ + k]
<1>1. New(s) \in Stream!Delta
  BY DEF New, Stream!Delta
<1>2. a \in Seq(Stream!Delta) /\ Len(a) = Len(q) + 1 /\ Rising(a)
      /\ Items(a) = Items(q) \union {New(s)} /\ Len(q) \in Nat \ {0} /\ a # <<>> /\ h = q[1]
  BY <1>1, ItemsAppend, RisingAppend
<1>3. /\ h \in Stream!Delta /\ t \in Seq(Stream!Delta) /\ Len(t) = Len(q) /\ t # <<>>
      /\ Items(a) = {h} \union Items(t) /\ Rising(t) /\ Precede({h}, Items(t))
  <2> HIDE DEF a
  <2>1. /\ h \in Stream!Delta /\ t \in Seq(Stream!Delta) /\ Len(t) = Len(a) - 1
        /\ Items(a) = {h} \union Items(t)
    BY <1>2, ItemsTail
  <2>2. Rising(t) /\ Precede({h}, Items(t))
    BY <1>2, RisingTail
  <2> HIDE DEF t, h
  <2>3. Len(t) = Len(q) /\ t # <<>>
    BY <1>2, <2>1
  <2> QED  BY <1>2, <2>1, <2>2, <2>3
<1>4. /\ m \in Stream!Delta /\ Items(t) = {m} \union Items(Tail(t)) /\ Precede({m}, Items(Tail(t)))
  <2> HIDE DEF t
  <2> QED  BY <1>3, ItemsTail, RisingTail
<1>5. h.before \in Nat /\ k \in Nat \ {0}
  <2> HIDE DEF h
  <2>1. h.before \in Nat
    BY <1>3 DEF Stream!Delta
  <2> QED  BY <2>1
<1>6. /\ u \in Seq(Stream!Delta) /\ Len(u) = Len(t) /\ Rising(u)
      /\ n \in Stream!Delta /\ n.seq = m.seq /\ n.before = m.before + k
      /\ Items(u) = {n} \union Items(Tail(t))
  <2> HIDE DEF t, k
  <2> QED  BY <1>3, <1>5, Marks
<1>7. Stream!Push(q, s) = u
  <2>1. Stream!Push(q, s) = [t EXCEPT ![1].before = @ + 1 + h.before]
    BY DEF Stream!Push, New
  <2>2. t[1].before + 1 + h.before = t[1].before + k
    <3> HIDE DEF t, h
    <3>1. t[1] \in Stream!Delta
      BY <1>3
    <3>2. t[1].before \in Nat
      BY <3>1 DEF Stream!Delta
    <3> QED  BY <1>5, <3>2
  <2> HIDE DEF t, h
  <2> QED  BY <2>1, <2>2
<1>8. h \in Items(q) /\ h.seq < m.seq /\ n.before > 0
  <2>1. h \in Items(q)
    BY <1>2 DEF Items
  <2>2. h.seq < m.seq
    <3> HIDE DEF h, t
    <3> QED  BY <1>3, <1>4 DEF Precede
  <2>3. n.before > 0
    <3> HIDE DEF n, k, m
    <3> QED  BY <1>4, <1>5, <1>6 DEF Stream!Delta
  <2> QED  BY <2>1, <2>2, <2>3
<1>9. Items(u) = ((Items(q) \union {New(s)}) \ {h, m}) \union {n}
  <2> HIDE DEF h, m, n, u, t
  <2>1. \A e \in Items(t) : e # h
    BY <1>3 DEF Precede, Stream!Delta
  <2>2. \A e \in Items(Tail(t)) : e # m
    BY <1>4 DEF Precede, Stream!Delta
  <2> QED  BY <1>2, <1>3, <1>4, <1>6, <2>1, <2>2
<1>10. \A e \in Items(q) : e = h \/ h.seq < e.seq
  <2> HIDE DEF h, t, a
  <2> QED  BY <1>2, <1>3 DEF Precede
<1>11. \A e \in Items(u) : e = n \/ n.seq < e.seq
  <2> HIDE DEF n, u, t, m
  <2> QED  BY <1>4, <1>6 DEF Precede
<1>12. m \in Items(q) \union {New(s)}
  <2> HIDE DEF a, h, t, m
  <2> QED  BY <1>2, <1>3, <1>4
<1> HIDE DEF h, m, n, u, t, k
<1> QED  BY <1>3, <1>6, <1>7, <1>8, <1>9, <1>10, <1>11, <1>12 DEF Overflows

-----------------------------------------------------------------------------
(* The live stream: the invariant.                                         *)

Flow(c) == taken[c] \union Items(deltas[c]) \union hold[c] \union Items(coreQ[c])

\* TypeOK says of the queues what they hold; they are functions, too.
StreamShape ==
  /\ Stream!TypeOK
  /\ pump \in [Conns -> {"none", "loop", "iterate", "put", "full", "discard", "again", "done"}]
  /\ coreQ \in [Conns -> Seq(Stream!Delta)]
  /\ deltas \in [Conns -> Seq(Stream!Delta)]

\* Pump and generator hold one delta at most each, and overwrite none; what the
\* pump makes room for fits; and before it discards a delta, that is counted or
\* was told.
PumpInv(c) ==
  /\ pump[c] \in {"none", "loop", "iterate"} => hold[c] = {}
  /\ pump[c] \in {"none", "loop"} => coreQ[c] = <<>>
  /\ \A d, e \in hold[c] : d = e
  /\ \A d, e \in taken[c] : d = e
  /\ pump[c] = "again" => Len(deltas[c]) < QueueSize
  /\ pump[c] = "discard" => dropped[c] > 0 \/ told[c] > 0

\* On its way from Core to the client a delta is never overtaken.
OrderInv(c) ==
  /\ Rising(deltas[c]) /\ Rising(coreQ[c])
  /\ Precede(Items(deltas[c]), hold[c])
  /\ Precede(hold[c], Items(coreQ[c]))
  /\ Precede(Items(deltas[c]), Items(coreQ[c]))
  /\ Precede(taken[c], Items(deltas[c]) \union hold[c] \union Items(coreQ[c]))
  /\ \A d \in Flow(c) : d.seq <= emitted /\ \A g \in gotDeltas[c] : g < d.seq
  /\ \A s \in due[c] \union gotDeltas[c] : s <= emitted

\* Delta s is on its way, or the first delta on its way that follows s says
\* that some were dropped before it.
Accounted(F, s) ==
  \/ \E d \in F : d.seq = s
  \/ \E d \in F : /\ s < d.seq /\ d.before > 0
                  /\ \A e \in F : e.seq < d.seq => e.seq < s

LossInv(c) ==
  /\ told[c] = 0 /\ dropped[c] = 0 => \A s \in due[c] \ gotDeltas[c] : Accounted(Flow(c), s)
  /\ told[c] = 0 => \A s \in due[c] \ gotDeltas[c], g \in gotDeltas[c] : g < s

ConnInv(c) == PumpInv(c) /\ OrderInv(c) /\ LossInv(c)

\* Slots are given back once at most, so they cover the connections that have one.
Holders == {c \in Conns : at[c] \in {"granted", "pass", "drain"}}
SlotInv == slots <= SlotLimit /\ Cardinality(Holders) <= slots

StreamInv == StreamShape /\ SlotInv /\ \A c \in Conns : ConnInv(c)

LEMMA StreamInit == Stream!Init => StreamInv
<1> SUFFICES ASSUME Stream!Init
             PROVE  StreamInv
  OBVIOUS
<1> USE DEF Stream!Init
<1>1. <<>> \in Seq(Stream!Delta) /\ Len(<<>>) = 0
  OBVIOUS
<1>2. QueueSize \in Nat /\ CoreSize \in Nat /\ SlotLimit \in Nat /\ MaxDeltas \in Nat
  BY LiveAssumption
<1>3. StreamShape
  BY <1>1, <1>2 DEF StreamShape, Stream!TypeOK
<1>4. SlotInv
  <2>1. Holders = {}
    BY DEF Holders
  <2> QED  BY <1>2, <2>1, FS_EmptySet DEF SlotInv
<1>5. ASSUME NEW c \in Conns
      PROVE  ConnInv(c)
  <2>1. Items(deltas[c]) = {} /\ Items(coreQ[c]) = {} /\ Rising(deltas[c]) /\ Rising(coreQ[c])
    BY ItemsEmpty
  <2>2. Flow(c) = {} /\ hold[c] = {} /\ taken[c] = {} /\ due[c] = {} /\ gotDeltas[c] = {}
    BY <2>1 DEF Flow
  <2> QED  BY <2>1, <2>2 DEF ConnInv, PumpInv, OrderInv, LossInv, Precede
<1> QED  BY <1>3, <1>4, <1>5 DEF StreamInv

-----------------------------------------------------------------------------
(* The live stream: each kind of step, at one connection.                  *)

\* A connection that a step leaves alone.
Rests(c) ==
  /\ pump'[c] = pump[c] /\ coreQ'[c] = coreQ[c] /\ hold'[c] = hold[c]
  /\ deltas'[c] = deltas[c] /\ taken'[c] = taken[c]
  /\ dropped'[c] = dropped[c] /\ due'[c] = due[c]
  /\ gotDeltas'[c] = gotDeltas[c] /\ told'[c] = told[c]

LEMMA RestsInv ==
  ASSUME NEW c \in Conns, ConnInv(c), Rests(c), emitted' = emitted
  PROVE  ConnInv(c)'
<1>1. Flow(c)' = Flow(c)
  BY DEF Rests, Flow
<1> QED  BY <1>1 DEF ConnInv, PumpInv, OrderInv, LossInv, Rests

\* A step that only moves deltas along keeps account of them.
LEMMA MovesLoss ==
  ASSUME NEW c \in Conns, LossInv(c), Flow(c)' = Flow(c), due'[c] = due[c],
         gotDeltas'[c] = gotDeltas[c], told'[c] = told[c],
         dropped'[c] = dropped[c] \/ dropped'[c] > 0
  PROVE  LossInv(c)'
BY DEF LossInv

LEMMA FlowType ==
  ASSUME NEW c \in Conns, StreamShape
  PROVE  /\ Items(deltas[c]) \subseteq Stream!Delta /\ hold[c] \subseteq Stream!Delta
         /\ taken[c] \subseteq Stream!Delta
         /\ Items(coreQ[c]) \subseteq Stream!Delta /\ Flow(c) \subseteq Stream!Delta
         /\ \A d \in Flow(c) : d.seq \in 1..MaxDeltas /\ d.before \in Nat
<1>1. /\ deltas[c] \in Seq(Stream!Delta) /\ coreQ[c] \in Seq(Stream!Delta)
      /\ hold[c] \subseteq Stream!Delta /\ taken[c] \subseteq Stream!Delta
  BY DEF StreamShape, Stream!TypeOK
<1>2. Items(deltas[c]) \subseteq Stream!Delta /\ Items(coreQ[c]) \subseteq Stream!Delta
  BY <1>1, ItemsType
<1> QED  BY <1>1, <1>2 DEF Flow, Stream!Delta

LEMMA TakeInv ==
  ASSUME NEW c \in Conns, StreamShape, ConnInv(c), Stream!Take(c), emitted' = emitted,
         UNCHANGED <<deltas, taken, dropped, due, gotDeltas, told>>
  PROVE  ConnInv(c)'
<1> DEFINE d == Head(coreQ[c])
           q == coreQ[c]
<1>1. /\ q \in Seq(Stream!Delta) /\ q # <<>> /\ Rising(q)
      /\ hold[c] = {} /\ hold'[c] = {d} /\ coreQ'[c] = Tail(q)
      /\ pump[c] = "iterate" /\ pump'[c] \in {"done", "put"}
  BY DEF Stream!Take, Stream!Pumps, StreamShape, Stream!TypeOK, ConnInv, PumpInv, OrderInv
<1>2. Items(q) = {d} \union Items(Tail(q))
  BY <1>1, ItemsTail
<1>3. Rising(Tail(q)) /\ Precede({d}, Items(Tail(q)))
  BY <1>1, RisingTail
<1>4. Flow(c)' = Flow(c)
  <2>1. Flow(c)' = taken[c] \union Items(deltas[c]) \union {d} \union Items(Tail(q))
    BY <1>1 DEF Flow
  <2> HIDE DEF d
  <2> QED  BY <1>1, <1>2, <2>1 DEF Flow
<1>5. OrderInv(c)'
  <2>1. Rising(deltas'[c]) /\ Rising(coreQ'[c])
    BY <1>1, <1>3 DEF ConnInv, OrderInv
  <2>2. Precede(Items(deltas[c]), {d} \union Items(Tail(q)))
    <3> HIDE DEF d
    <3> QED  BY <1>2 DEF ConnInv, OrderInv
  <2>3. /\ Precede(Items(deltas'[c]), hold'[c])
        /\ Precede(hold'[c], Items(coreQ'[c]))
        /\ Precede(Items(deltas'[c]), Items(coreQ'[c]))
    <3> HIDE DEF d, q
    <3> QED  BY <1>1, <1>3, <2>2 DEF Precede
  <2>5. Precede(taken'[c], Items(deltas'[c]) \union hold'[c] \union Items(coreQ'[c]))
    <3>1. Items(deltas'[c]) \union hold'[c] \union Items(coreQ'[c])
            = Items(deltas[c]) \union hold[c] \union Items(coreQ[c])
      <4> HIDE DEF d
      <4> QED  BY <1>1, <1>2
    <3> QED  BY <3>1 DEF ConnInv, OrderInv
  <2>4. /\ \A e \in Flow(c)' : e.seq <= emitted' /\ \A g \in gotDeltas'[c] : g < e.seq
        /\ \A s \in due'[c] \union gotDeltas'[c] : s <= emitted'
    BY <1>4 DEF ConnInv, OrderInv
  <2> QED  BY <2>1, <2>3, <2>4, <2>5 DEF OrderInv
<1>6. PumpInv(c)'
  <2> HIDE DEF d
  <2> QED  BY <1>1 DEF PumpInv, ConnInv
<1>7. LossInv(c)'
  BY <1>4, MovesLoss DEF ConnInv
<1> QED  BY <1>5, <1>6, <1>7 DEF ConnInv

LEMMA PutsInv ==
  ASSUME NEW c \in Conns, StreamShape, ConnInv(c), Stream!Puts(c),
         pump[c] \in {"put", "again"}, pump'[c] = "iterate", emitted' = emitted,
         UNCHANGED <<coreQ, taken, dropped, due, gotDeltas, told>>
  PROVE  ConnInv(c)'
<1>1. PICK d \in hold[c] : deltas' = [deltas EXCEPT ![c] = Append(@, d)]
  BY DEF Stream!Puts
<1> DEFINE q == deltas[c]
<1>2. /\ q \in Seq(Stream!Delta) /\ d \in Stream!Delta /\ deltas'[c] = Append(q, d)
      /\ hold[c] = {d} /\ hold'[c] = {} /\ Rising(q) /\ Precede(Items(q), {d})
  BY <1>1 DEF StreamShape, Stream!TypeOK, Stream!Puts, ConnInv, PumpInv, OrderInv, Precede
<1>3. Items(deltas'[c]) = Items(q) \union {d}
  BY <1>2, ItemsAppend
<1>4. Rising(deltas'[c])
  BY <1>2, RisingAppend
<1>5. Flow(c)' = Flow(c)
  BY <1>2, <1>3 DEF Flow
<1>6. OrderInv(c)'
  <2>1. /\ Precede(Items(deltas'[c]), hold'[c])
        /\ Precede(hold'[c], Items(coreQ'[c]))
        /\ Precede(Items(deltas'[c]), Items(coreQ'[c]))
    BY <1>2, <1>3 DEF ConnInv, OrderInv, Precede
  <2>2. /\ \A e \in Flow(c)' : e.seq <= emitted' /\ \A g \in gotDeltas'[c] : g < e.seq
        /\ \A s \in due'[c] \union gotDeltas'[c] : s <= emitted'
    BY <1>5 DEF ConnInv, OrderInv
  <2>3. Precede(taken'[c], Items(deltas'[c]) \union hold'[c] \union Items(coreQ'[c]))
    <3>1. Items(deltas'[c]) \union hold'[c] \union Items(coreQ'[c])
            = Items(deltas[c]) \union hold[c] \union Items(coreQ[c])
      BY <1>2, <1>3
    <3> QED  BY <3>1 DEF ConnInv, OrderInv
  <2> QED  BY <1>4, <2>1, <2>2, <2>3 DEF OrderInv, ConnInv
<1>7. PumpInv(c)'
  BY <1>2 DEF PumpInv, ConnInv
<1>8. LossInv(c)'
  BY <1>5, MovesLoss DEF ConnInv
<1> QED  BY <1>6, <1>7, <1>8 DEF ConnInv

\* The oldest delta is taken out of the queue, to be sent or to be dropped.
LEMMA HeadGoes ==
  ASSUME NEW c \in Conns, StreamShape, ConnInv(c), deltas[c] # <<>>
  PROVE  LET d == Head(deltas[c])
             F == Items(Tail(deltas[c])) \union hold[c] \union Items(coreQ[c])
         IN /\ d \in Stream!Delta /\ d \in Flow(c) /\ Flow(c) = taken[c] \union {d} \union F
            /\ Rising(Tail(deltas[c])) /\ Len(Tail(deltas[c])) = Len(deltas[c]) - 1
            /\ Items(Tail(deltas[c])) \subseteq Items(deltas[c])
            /\ Precede({d}, F)
<1> DEFINE q == deltas[c]
           d == Head(q)
           F == Items(Tail(q)) \union hold[c] \union Items(coreQ[c])
<1>1. q \in Seq(Stream!Delta) /\ Rising(q)
  BY DEF StreamShape, ConnInv, OrderInv
<1>2. /\ d \in Stream!Delta /\ Len(Tail(q)) = Len(q) - 1
      /\ Items(q) = {d} \union Items(Tail(q))
  BY <1>1, ItemsTail
<1>3. Rising(Tail(q)) /\ Precede({d}, Items(Tail(q)))
  BY <1>1, RisingTail
<1> HIDE DEF d
<1>4. Flow(c) = taken[c] \union {d} \union F
  BY <1>2 DEF Flow
<1>5. Precede({d}, F)
  BY <1>2, <1>3 DEF ConnInv, OrderInv, Precede
<1> QED  BY <1>2, <1>3, <1>4, <1>5 DEF d

LEMMA TakenInv ==
  ASSUME NEW c \in Conns, StreamShape, ConnInv(c), Stream!TakeDelta(c)
  PROVE  ConnInv(c)'
<1> DEFINE d == Head(deltas[c])
           F == Items(Tail(deltas[c])) \union hold[c] \union Items(coreQ[c])
<1> USE DEF Stream!TakeDelta, Stream!coreVars, Stream!genVars, Stream!pumpVars
<1>1. /\ d \in Stream!Delta /\ d \in Flow(c) /\ Flow(c) = taken[c] \union {d} \union F
      /\ Rising(Tail(deltas[c])) /\ Len(Tail(deltas[c])) = Len(deltas[c]) - 1
      /\ Items(Tail(deltas[c])) \subseteq Items(deltas[c])
      /\ Precede({d}, F)
  BY HeadGoes
<1>2. /\ pump' = pump /\ coreQ' = coreQ /\ hold' = hold /\ due' = due /\ emitted' = emitted
      /\ dropped' = dropped /\ gotDeltas' = gotDeltas /\ told' = told
      /\ deltas'[c] = Tail(deltas[c]) /\ taken[c] = {} /\ taken'[c] = {d}
  BY DEF StreamShape, Stream!TypeOK
<1>3. QueueSize \in Nat /\ Len(deltas[c]) \in Nat
  BY LiveAssumption DEF StreamShape, Stream!TypeOK
<1>4. Flow(c)' = Flow(c)
  BY <1>1, <1>2 DEF Flow
<1> HIDE DEF d, Stream!TakeDelta
<1>5. PumpInv(c)'
  BY <1>1, <1>2, <1>3 DEF ConnInv, PumpInv
<1>6. OrderInv(c)'
  <2>1. Rising(deltas'[c]) /\ Rising(coreQ'[c])
    BY <1>1, <1>2 DEF ConnInv, OrderInv
  <2>2. /\ Precede(Items(deltas'[c]), hold'[c])
        /\ Precede(hold'[c], Items(coreQ'[c]))
        /\ Precede(Items(deltas'[c]), Items(coreQ'[c]))
    BY <1>1, <1>2 DEF ConnInv, OrderInv, Precede
  <2>3. Precede(taken'[c], Items(deltas'[c]) \union hold'[c] \union Items(coreQ'[c]))
    BY <1>1, <1>2
  <2>4. /\ \A e \in Flow(c)' : e.seq <= emitted' /\ \A g \in gotDeltas'[c] : g < e.seq
        /\ \A s \in due'[c] \union gotDeltas'[c] : s <= emitted'
    BY <1>2, <1>4 DEF ConnInv, OrderInv
  <2> QED  BY <2>1, <2>2, <2>3, <2>4 DEF OrderInv
<1>7. LossInv(c)'
  BY <1>2, <1>4, MovesLoss DEF ConnInv
<1> QED  BY <1>5, <1>6, <1>7 DEF ConnInv

LEMMA SendInv ==
  ASSUME NEW c \in Conns, StreamShape, ConnInv(c), Stream!SendDelta(c)
  PROVE  ConnInv(c)'
<1> DEFINE F == Items(deltas[c]) \union hold[c] \union Items(coreQ[c])
<1> USE DEF Stream!SendDelta, Stream!coreVars, Stream!genVars, Stream!pumpVars
<1>0. PICK d \in taken[c] : /\ gotDeltas' = [gotDeltas EXCEPT ![c] = @ \union {d.seq}]
                           /\ told' = [told EXCEPT ![c] = @ + d.before + dropped[c]]
  OBVIOUS
<1>1. /\ d \in Stream!Delta /\ d \in Flow(c) /\ taken[c] = {d} /\ Flow(c) = {d} \union F
      /\ Precede({d}, F)
  BY FlowType DEF Flow, ConnInv, PumpInv, OrderInv
<1>2. /\ pump' = pump /\ coreQ' = coreQ /\ hold' = hold /\ due' = due /\ emitted' = emitted
      /\ deltas' = deltas /\ dropped'[c] = 0 /\ taken'[c] = {}
      /\ gotDeltas'[c] = gotDeltas[c] \union {d.seq}
      /\ told'[c] = told[c] + d.before + dropped[c]
  BY <1>0 DEF StreamShape, Stream!TypeOK
<1>3. /\ told[c] \in Nat /\ dropped[c] \in Nat /\ d.before \in Nat /\ d.seq \in Nat
      /\ emitted \in Nat
      /\ \A e \in Flow(c) : e.seq \in Nat /\ e.before \in Nat
      /\ \A s \in due[c] \union gotDeltas[c] : s \in Nat
  <2>1. \A e \in Flow(c) : e.seq \in Nat /\ e.before \in Nat
    BY FlowType
  <2>2. told[c] \in Nat /\ dropped[c] \in Nat /\ emitted \in Nat
    BY LiveAssumption DEF StreamShape, Stream!TypeOK
  <2>3. due[c] \subseteq 1..MaxDeltas /\ gotDeltas[c] \subseteq 1..MaxDeltas
    BY DEF StreamShape, Stream!TypeOK
  <2> QED  BY <1>1, <2>1, <2>2, <2>3
<1>4. Flow(c)' = F
  BY <1>2 DEF Flow
<1> HIDE DEF F, Stream!SendDelta
<1>5. PumpInv(c)'
  BY <1>2, <1>3 DEF ConnInv, PumpInv
<1>6. OrderInv(c)'
  <2>1. Rising(deltas'[c]) /\ Rising(coreQ'[c])
    BY <1>2 DEF ConnInv, OrderInv
  <2>2. /\ Precede(Items(deltas'[c]), hold'[c])
        /\ Precede(hold'[c], Items(coreQ'[c]))
        /\ Precede(Items(deltas'[c]), Items(coreQ'[c]))
    BY <1>2 DEF ConnInv, OrderInv
  <2>3. Precede(taken'[c], Items(deltas'[c]) \union hold'[c] \union Items(coreQ'[c]))
    BY <1>2 DEF Precede
  <2>4. \A e \in F : e.seq <= emitted /\ \A g \in gotDeltas'[c] : g < e.seq
    BY <1>1, <1>2 DEF ConnInv, OrderInv, Precede
  <2>5. \A s \in due[c] \union gotDeltas'[c] : s <= emitted
    BY <1>1, <1>2 DEF ConnInv, OrderInv
  <2> QED  BY <1>2, <1>4, <2>1, <2>2, <2>3, <2>4, <2>5 DEF OrderInv
<1>7. LossInv(c)'
  <2> SUFFICES ASSUME told'[c] = 0
               PROVE  \A s \in due[c] \ gotDeltas'[c] :
                        Accounted(F, s) /\ \A g \in gotDeltas'[c] : g < s
    BY <1>2, <1>4 DEF LossInv
  <2>1. told[c] = 0 /\ dropped[c] = 0 /\ d.before = 0
    <3>1. PICK x \in Nat, y \in Nat, z \in Nat : x = told[c] /\ y = d.before /\ z = dropped[c]
      BY <1>3
    <3>2. x + y + z = 0
      BY <1>2, <3>1
    <3>3. x = 0 /\ y = 0 /\ z = 0
      BY <3>2
    <3> QED  BY <3>1, <3>3
  <2> TAKE s \in due[c] \ gotDeltas'[c]
  <2>2. s # d.seq /\ s \in Nat /\ Accounted(Flow(c), s) /\ \A g \in gotDeltas[c] : g < s
    BY <1>2, <1>3, <2>1 DEF ConnInv, LossInv
  <2>3. Accounted(F, s) /\ d.seq < s
    <3>1. CASE \E e \in Flow(c) : e.seq = s
      <4>1. PICK e \in F : e.seq = s
        BY <1>1, <2>2, <3>1
      <4> QED  BY <1>1, <4>1 DEF Accounted, Precede
    <3>2. CASE \E e \in Flow(c) : /\ s < e.seq /\ e.before > 0
                                  /\ \A f \in Flow(c) : f.seq < e.seq => f.seq < s
      <4>1. PICK e \in Flow(c) : /\ s < e.seq /\ e.before > 0
                                 /\ \A f \in Flow(c) : f.seq < e.seq => f.seq < s
        BY <3>2
      <4>2. e \in F /\ d.seq < e.seq
        BY <1>1, <2>1, <4>1 DEF Precede
      <4>3. \A f \in F : f.seq < e.seq => f.seq < s
        BY <1>1, <4>1
      <4> QED  BY <1>1, <4>1, <4>2, <4>3 DEF Accounted
    <3> QED  BY <2>2, <3>1, <3>2 DEF Accounted
  <2> QED  BY <1>2, <2>2, <2>3
<1> QED  BY <1>5, <1>6, <1>7 DEF ConnInv

LEMMA DiscardInv ==
  ASSUME NEW c \in Conns, StreamShape, ConnInv(c), Stream!Discard(c), emitted' = emitted,
         UNCHANGED <<taken, dropped, due, gotDeltas, told>>
  PROVE  ConnInv(c)'
<1> USE DEF Stream!Discard, Stream!Pumps
<1>1. /\ pump[c] = "discard" /\ pump'[c] = "again" /\ coreQ' = coreQ /\ hold' = hold
      /\ deltas'[c] = IF deltas[c] = <<>> THEN deltas[c] ELSE Tail(deltas[c])
      /\ deltas[c] \in Seq(Stream!Delta) /\ Len(deltas[c]) <= QueueSize
  BY DEF StreamShape, Stream!TypeOK
<1>2. QueueSize \in Nat \ {0} /\ Len(deltas[c]) \in Nat
  BY <1>1, LiveAssumption
<1>3. dropped[c] > 0 \/ told[c] > 0
  BY <1>1 DEF ConnInv, PumpInv
<1>4. told[c] \in Nat /\ dropped[c] \in Nat
  BY DEF StreamShape, Stream!TypeOK
<1>5. LossInv(c)'
  BY <1>3, <1>4 DEF ConnInv, LossInv
<1>6. CASE deltas[c] = <<>>
  <2>1. deltas'[c] = deltas[c] /\ Len(deltas[c]) = 0
    BY <1>1, <1>6
  <2>2. Flow(c)' = Flow(c)
    BY <1>1, <2>1 DEF Flow
  <2>3. PumpInv(c)'
    BY <1>1, <1>2, <2>1 DEF ConnInv, PumpInv
  <2>4. OrderInv(c)'
    BY <1>1, <2>1, <2>2 DEF ConnInv, OrderInv
  <2> QED  BY <1>5, <2>3, <2>4 DEF ConnInv
<1>7. CASE deltas[c] # <<>>
  <2> DEFINE t == Tail(deltas[c])
             F == Items(t) \union hold[c] \union Items(coreQ[c])
  <2>1. /\ Flow(c) = taken[c] \union {Head(deltas[c])} \union F /\ Rising(t)
        /\ Len(t) = Len(deltas[c]) - 1 /\ Items(t) \subseteq Items(deltas[c])
    BY <1>7, HeadGoes
  <2>2. deltas'[c] = t
    BY <1>1, <1>7
  <2>3. Flow(c)' = taken[c] \union F
    BY <1>1, <2>2 DEF Flow
  <2> HIDE DEF t
  <2>4. PumpInv(c)'
    BY <1>1, <1>2, <2>1, <2>2 DEF ConnInv, PumpInv
  <2>5. /\ Precede(Items(deltas'[c]), hold'[c])
        /\ Precede(hold'[c], Items(coreQ'[c]))
        /\ Precede(Items(deltas'[c]), Items(coreQ'[c]))
    BY <1>1, <2>1, <2>2 DEF ConnInv, OrderInv, Precede
  <2>6. \A e \in taken[c] \union F : e \in Flow(c)
    BY <2>1
  <2>8. Precede(taken'[c], Items(deltas'[c]) \union hold'[c] \union Items(coreQ'[c]))
    BY <1>1, <2>1, <2>2 DEF ConnInv, OrderInv, Precede
  <2>7. OrderInv(c)'
    BY <1>1, <2>1, <2>2, <2>3, <2>5, <2>6, <2>8 DEF ConnInv, OrderInv
  <2> QED  BY <1>5, <2>4, <2>7 DEF ConnInv
<1> QED  BY <1>6, <1>7

LEMMA EmitInv ==
  ASSUME NEW c \in Conns, StreamShape, ConnInv(c), Stream!Emit
  PROVE  ConnInv(c)'
<1> DEFINE s == emitted + 1
           q == coreQ[c]
<1> USE DEF Stream!Emit
<1>1. /\ emitted \in Nat /\ s \in 1..MaxDeltas /\ emitted' = s /\ MaxDeltas \in Nat
      /\ pump' = pump /\ hold' = hold /\ deltas' = deltas /\ dropped' = dropped
      /\ gotDeltas' = gotDeltas /\ told' = told /\ taken' = taken
      /\ coreQ'[c] = IF Stream!Subscribed(c) THEN Stream!Push(q, s) ELSE q
      /\ due'[c] = IF Stream!Subscribed(c) THEN due[c] \union {s} ELSE due[c]
  <2>1. emitted \in Nat /\ s \in 1..MaxDeltas /\ MaxDeltas \in Nat
    <3>1. emitted \in 0..MaxDeltas /\ emitted < MaxDeltas
      BY DEF StreamShape, Stream!TypeOK
    <3>2. MaxDeltas \in Nat
      BY LiveAssumption
    <3> QED  BY <3>1, <3>2
  <2> QED  BY <2>1 DEF Stream!genVars, Stream!sentVars
<1>2. /\ CoreSize \in Nat \ {0} /\ q \in Seq(Stream!Delta) /\ Rising(q)
      /\ due[c] \subseteq 1..MaxDeltas /\ gotDeltas[c] \subseteq 1..MaxDeltas
  BY LiveAssumption DEF StreamShape, Stream!TypeOK, ConnInv, OrderInv
<1>3. /\ \A d \in Flow(c) : d.seq \in Nat /\ d.before \in Nat /\ d.seq < s
      /\ \A x \in due[c] \union gotDeltas[c] : x \in Nat /\ x < s
      /\ New(s).seq = s /\ New(s).before = 0
      /\ Precede(Items(q), {New(s)})
  <2>1. \A d \in Flow(c) : d.seq \in Nat /\ d.before \in Nat
    BY FlowType
  <2>2. \A x \in due[c] \union gotDeltas[c] : x \in Nat
    BY <1>1, <1>2
  <2>3. \A d \in Flow(c) : d.seq < s
    BY <1>1, <2>1 DEF ConnInv, OrderInv
  <2>4. \A x \in due[c] \union gotDeltas[c] : x < s
    BY <1>1, <2>2 DEF ConnInv, OrderInv
  <2>5. New(s).seq = s /\ New(s).before = 0
    BY DEF New
  <2> HIDE DEF s
  <2> QED  BY <2>1, <2>2, <2>3, <2>4, <2>5 DEF Precede, Flow
<1> DEFINE R == taken[c] \union Items(deltas[c]) \union hold[c]
           B == Items(coreQ'[c])
<1>4. Flow(c) = R \union Items(q) /\ Flow(c)' = R \union B
  BY <1>1 DEF Flow
<1> HIDE DEF s, Stream!Emit
<1>7. \A d \in Items(q) \union {New(s)} :
        d.seq \in Nat /\ d.seq <= s /\ \A g \in gotDeltas[c] : g < d.seq
  <2>1. \A d \in Items(q) : d.seq \in Nat /\ d.seq <= s /\ \A g \in gotDeltas[c] : g < d.seq
    BY <1>1, <1>3, <1>4 DEF ConnInv, OrderInv
  <2>2. New(s).seq \in Nat /\ New(s).seq <= s /\ \A g \in gotDeltas[c] : g < New(s).seq
    BY <1>1, <1>3
  <2> QED  BY <2>1, <2>2
<1>5. CASE ~Stream!Subscribed(c)
  <2>1. coreQ'[c] = q /\ due'[c] = due[c] /\ Flow(c)' = Flow(c)
    BY <1>1, <1>4, <1>5
  <2>2. PumpInv(c)'
    BY <1>1, <2>1 DEF ConnInv, PumpInv
  <2>3. /\ \A d \in Flow(c)' : d.seq <= emitted' /\ \A g \in gotDeltas'[c] : g < d.seq
        /\ \A x \in due'[c] \union gotDeltas'[c] : x <= emitted'
    BY <1>1, <1>3, <2>1 DEF ConnInv, OrderInv
  <2>4. OrderInv(c)'
    BY <1>1, <2>1, <2>3 DEF ConnInv, OrderInv
  <2>5. LossInv(c)'
    BY <1>1, <2>1, MovesLoss DEF ConnInv
  <2> QED  BY <2>2, <2>4, <2>5 DEF ConnInv
<1>6. CASE Stream!Subscribed(c)
  <2>1. coreQ'[c] = Stream!Push(q, s) /\ due'[c] = due[c] \union {s}
    BY <1>1, <1>6
  <2>2. PumpInv(c)'
    BY <1>1, <1>6 DEF ConnInv, PumpInv, Stream!Subscribed
  <2>3. \* the queue, and what it tells about the others
        /\ Rising(coreQ'[c])
        /\ Precede(R, B)
        /\ \A d \in B : d.seq <= s /\ \A g \in gotDeltas[c] : g < d.seq
        /\ \A x \in Nat : Accounted(Flow(c), x) => Accounted(R \union B, x)
        /\ Accounted(R \union B, s)
    <3>1. CASE Len(q) < CoreSize
      <4>1. Rising(coreQ'[c]) /\ B = Items(q) \union {New(s)}
        BY <1>1, <1>2, <1>3, <2>1, <3>1, PushFits
      <4>2. R \union B = Flow(c) \union {New(s)}
        BY <1>4, <4>1
      <4>3. Precede(R, B)
        BY <1>3, <1>4, <4>1 DEF ConnInv, OrderInv, Precede
      <4>4. \A d \in B : d.seq <= s /\ \A g \in gotDeltas[c] : g < d.seq
        BY <1>7, <4>1
      <4>5. Accounted(R \union B, s)
        BY <1>3, <4>2 DEF Accounted
      <4>6. ASSUME NEW x \in Nat, Accounted(Flow(c), x)
            PROVE  Accounted(R \union B, x)
        BY <1>1, <1>3, <4>2, <4>6 DEF Accounted
      <4> QED  BY <4>1, <4>3, <4>4, <4>5, <4>6
    <3>2. CASE ~(Len(q) < CoreSize)
      <4>1. Rising(coreQ'[c]) /\ Overflows(Items(q), B, s)
        BY <1>1, <1>2, <1>3, <2>1, <3>2, PushOverflows
      <4>2. PICK h \in Items(q), m \in Items(q) \union {New(s)}, n \in Stream!Delta :
              /\ h.seq < m.seq /\ n.seq = m.seq /\ n.before > 0
              /\ \A e \in Items(q) : e = h \/ h.seq < e.seq
              /\ \A e \in B : e = n \/ n.seq < e.seq
              /\ B = ((Items(q) \union {New(s)}) \ {h, m}) \union {n}
        BY <4>1 DEF Overflows
      <4>3. /\ n \in B /\ n.seq \in Nat /\ h.seq \in Nat /\ m.seq \in Nat
            /\ \A e \in B : \E d \in Items(q) \union {New(s)} : e.seq = d.seq
            /\ \A d \in Items(q) \union {New(s)} : d # h => \E e \in B : e.seq = d.seq
            /\ \A d \in Items(q) : d # h /\ d.before > 0 =>
                 \E e \in B : e.seq = d.seq /\ e.before > 0
        BY <1>1, <1>3, <1>4, <4>2
      <4>4. Precede(R, B)
        BY <1>3, <1>4, <4>3 DEF ConnInv, OrderInv, Precede
      <4>5. \A d \in B : d.seq \in Nat /\ d.seq <= s /\ \A g \in gotDeltas[c] : g < d.seq
        <5> HIDE DEF B
        <5> QED  BY <1>7, <4>3
      <4>6. h # New(s)
        BY <1>3, <1>4, <4>2
      <4>7. \E e \in B : e.seq = s
        BY <1>3, <4>3, <4>6
      <4>8. \A e \in R : e.seq < h.seq
        BY <1>3, <4>2 DEF ConnInv, OrderInv, Precede
      <4>9. ASSUME NEW x \in Nat, Accounted(Flow(c), x)
            PROVE  Accounted(R \union B, x)
        <5> DEFINE G == R \union B
        \* The delta that was dropped, and all it told of, are told by n.
        <5>1. ASSUME x <= h.seq, \A e \in Flow(c) : e.seq < h.seq => e.seq < x
              PROVE  Accounted(G, x)
          <6>1. n \in G /\ x < n.seq /\ n.before > 0
            BY <4>2, <4>3, <5>1
          <6>2. \A e \in G : e.seq < n.seq => e.seq < x
            <7> TAKE e \in G
            <7> HAVE e.seq < n.seq
            <7>1. e \in R \/ e \in B
              OBVIOUS
            <7>2. CASE e \in R
              BY <1>4, <4>8, <5>1, <7>2
            <7>3. CASE e \in B
              BY <4>2, <4>3, <4>5, <7>3
            <7> QED  BY <7>1, <7>2, <7>3
          <6> QED  BY <6>1, <6>2 DEF Accounted
        <5>2. ASSUME NEW d \in Flow(c), d.seq = x
              PROVE  Accounted(G, x)
          <6>1. CASE d = h
            <7>1. \A e \in Flow(c) : e.seq < h.seq => e.seq < x
              BY <5>2, <6>1
            <7> QED  BY <4>3, <5>1, <5>2, <6>1, <7>1
          <6>2. CASE d # h
            <7>1. \E e \in G : e.seq = x
              BY <1>4, <4>3, <5>2, <6>2
            <7> QED  BY <7>1 DEF Accounted
          <6> QED  BY <6>1, <6>2
        <5>3. ASSUME NEW d \in Flow(c), x < d.seq, d.before > 0,
                     \A e \in Flow(c) : e.seq < d.seq => e.seq < x
              PROVE  Accounted(G, x)
          <6>1. CASE d = h
            BY <4>3, <5>1, <5>3, <6>1
          <6>2. CASE d # h
            <7>1. PICK f \in G : f.seq = d.seq /\ f.before > 0
              BY <1>4, <4>3, <5>3, <6>2
            <7>2. \A e \in G : e.seq < d.seq => e.seq < x
              <8> TAKE e \in G
              <8> HAVE e.seq < d.seq
              <8>1. CASE e \in R
                BY <1>4, <5>3, <8>1
              <8>2. CASE e \in B
                <9>1. PICK b \in Items(q) \union {New(s)} : e.seq = b.seq
                  BY <4>3, <8>2
                <9>2. b # New(s)
                  BY <1>1, <1>3, <9>1
                <9> QED  BY <1>4, <5>3, <9>1, <9>2
              <8> QED  BY <8>1, <8>2
            <7> HIDE DEF G
            <7> QED  BY <5>3, <7>1, <7>2 DEF Accounted
          <6> QED  BY <6>1, <6>2
        <5> HIDE DEF G
        <5>4. Accounted(G, x)
          BY <4>9, <5>2, <5>3 DEF Accounted
        <5> QED  BY <5>4 DEF G
      <4> QED  BY <1>3, <4>1, <4>4, <4>5, <4>7, <4>9 DEF Accounted
    <3> QED  BY <3>1, <3>2
  <2>4. OrderInv(c)'
    <3>1. /\ Precede(Items(deltas'[c]), hold'[c])
          /\ Precede(hold'[c], Items(coreQ'[c]))
          /\ Precede(Items(deltas'[c]), Items(coreQ'[c]))
          /\ Precede(taken'[c], Items(deltas'[c]) \union hold'[c] \union Items(coreQ'[c]))
      BY <1>1, <2>3 DEF ConnInv, OrderInv, Precede
    <3>2. \A d \in Flow(c)' : d.seq <= emitted' /\ \A g \in gotDeltas'[c] : g < d.seq
      BY <1>1, <1>3, <1>4, <2>3 DEF ConnInv, OrderInv
    <3>3. \A x \in due'[c] \union gotDeltas'[c] : x <= emitted'
      BY <1>1, <1>3, <2>1
    <3> QED  BY <1>1, <2>3, <3>1, <3>2, <3>3 DEF ConnInv, OrderInv
  <2>5. LossInv(c)'
    BY <1>1, <1>2, <1>3, <1>4, <2>1, <2>3 DEF ConnInv, LossInv
  <2> QED  BY <2>2, <2>4, <2>5 DEF ConnInv
<1> QED  BY <1>5, <1>6

\* The other steps of a pump thread, and the first of its generator.
LEMMA OthersInv ==
  ASSUME NEW c \in Conns, StreamShape, ConnInv(c), emitted' = emitted,
         UNCHANGED <<coreQ, hold, deltas, taken, due, gotDeltas, told>>,
         dropped'[c] \in {dropped[c], dropped[c] + 1},
         \/ pump[c] \in {"none", "loop"}
         \/ pump[c] = "iterate" /\ pump'[c] = "done"
         \/ pump[c] = "iterate" /\ pump'[c] = "loop" /\ coreQ[c] = <<>>
         \/ pump[c] = "put" /\ pump'[c] = "full"
         \/ pump[c] = "full" /\ pump'[c] = "discard" /\ dropped'[c] = dropped[c] + 1,
         pump[c] \in {"none", "loop"} => pump'[c] \in {"loop", "iterate", "done"}
  PROVE  ConnInv(c)'
<1>1. dropped[c] \in Nat
  BY DEF StreamShape, Stream!TypeOK
<1>2. Flow(c)' = Flow(c)
  BY DEF Flow
<1>3. PumpInv(c)'
  BY <1>1 DEF ConnInv, PumpInv
<1>4. OrderInv(c)'
  BY <1>2 DEF ConnInv, OrderInv
<1>5. LossInv(c)'
  BY <1>1, <1>2, MovesLoss DEF ConnInv
<1> QED  BY <1>3, <1>4, <1>5 DEF ConnInv

LEMMA StreamTypeStep ==
  ASSUME StreamInv, Stream!Next
  PROVE  StreamShape'
<1>1. /\ StreamShape /\ Stream!TypeOK /\ \A c \in Conns : ConnInv(c)
      /\ QueueSize \in Nat \ {0} /\ CoreSize \in Nat \ {0} /\ MaxDeltas \in Nat
  BY LiveAssumption DEF StreamInv, StreamShape
<1> USE DEF Stream!coreVars, Stream!genVars, Stream!pumpVars, Stream!sentVars
<1>2. CASE Stream!Emit
  <2>1. emitted + 1 \in 1..MaxDeltas /\ emitted' = emitted + 1
    BY <1>1, <1>2 DEF Stream!Emit, Stream!TypeOK
  <2>2. ASSUME NEW c \in Conns
        PROVE  coreQ'[c] \in Seq(Stream!Delta) /\ Len(coreQ'[c]) <= CoreSize
    <3> DEFINE s == emitted + 1
               q == coreQ[c]
    <3>1. q \in Seq(Stream!Delta) /\ Len(q) <= CoreSize /\ Rising(q)
      BY <1>1, <2>2 DEF Stream!TypeOK, ConnInv, OrderInv
    <3>2. Precede(Items(q), {New(s)})
      <4>1. \A d \in Items(q) : d.seq \in Nat
        BY <1>1, <2>2, FlowType DEF Flow
      <4>2. \A d \in Items(q) : d.seq <= emitted
        BY <1>1, <2>2 DEF ConnInv, OrderInv, Flow
      <4> QED  BY <1>1, <4>1, <4>2 DEF Precede, New, Stream!TypeOK
    <3>3. coreQ'[c] = q \/ coreQ'[c] = Stream!Push(q, s)
      BY <1>2, <2>2 DEF Stream!Emit
    <3> HIDE DEF s
    <3>4. s \in 1..MaxDeltas
      BY <2>1 DEF s
    <3> QED  BY <1>1, <3>1, <3>2, <3>3, <3>4, PushFits, PushOverflows
  <2>3. coreQ' \in [Conns -> Seq(Stream!Delta)]
    BY <1>2, <2>2 DEF Stream!Emit
  <2>4. due' \in [Conns -> SUBSET (1..MaxDeltas)]
    BY <1>1, <1>2, <2>1 DEF Stream!Emit, Stream!TypeOK
  <2> QED  BY <1>1, <1>2, <2>1, <2>2, <2>3, <2>4 DEF Stream!Emit, StreamShape, Stream!TypeOK
<1>3. CASE Stream!RunMoves
  BY <1>1, <1>3 DEF Stream!RunMoves, StreamShape, Stream!TypeOK
<1>4. ASSUME NEW c \in Conns, Stream!AcquireSSE(c)
      PROVE  StreamShape'
  <2>1. \E to \in {"granted", "refused"} : at' = [at EXCEPT ![c] = to]
    BY <1>4 DEF Stream!AcquireSSE, Stream!Goes
  <2>2. at' \in [Conns -> {"new", "granted", "refused", "pass", "drain", "gone"}]
    BY <1>1, <2>1 DEF Stream!TypeOK
  <2>3. slots' \in Nat
    BY <1>1, <1>4 DEF Stream!AcquireSSE, Stream!TypeOK
  <2> QED  BY <1>1, <1>4, <2>2, <2>3 DEF Stream!AcquireSSE, StreamShape, Stream!TypeOK
<1>5. ASSUME NEW c \in Conns, Stream!Start(c)
      PROVE  StreamShape'
  BY <1>1, <1>5 DEF Stream!Start, Stream!Goes, Stream!Pumps, StreamShape, Stream!TypeOK
<1>6. ASSUME NEW c \in Conns, Stream!Query(c)
      PROVE  StreamShape'
  BY <1>1, <1>6 DEF Stream!Query, Stream!Goes, StreamShape, Stream!TypeOK
<1>7. ASSUME NEW c \in Conns, Stream!SendDelta(c)
      PROVE  StreamShape'
  <2>1. PICK d \in taken[c] : /\ gotDeltas' = [gotDeltas EXCEPT ![c] = @ \union {d.seq}]
                             /\ told' = [told EXCEPT ![c] = @ + d.before + dropped[c]]
    BY <1>7 DEF Stream!SendDelta
  <2>2. d.seq \in 1..MaxDeltas /\ d.before \in Nat
    BY <1>1 DEF Stream!TypeOK, Stream!Delta
  <2>3. gotDeltas' \in [Conns -> SUBSET (1..MaxDeltas)]
    BY <1>1, <2>1, <2>2 DEF Stream!TypeOK
  <2>4. told' \in [Conns -> Nat] /\ dropped' \in [Conns -> Nat]
    BY <1>1, <1>7, <2>1, <2>2 DEF Stream!SendDelta, Stream!TypeOK
  <2>5. taken' \in [Conns -> SUBSET Stream!Delta]
    BY <1>1, <1>7 DEF Stream!SendDelta, Stream!TypeOK
  <2> QED  BY <1>1, <1>7, <2>3, <2>4, <2>5 DEF Stream!SendDelta, StreamShape, Stream!TypeOK
<1>10. ASSUME NEW c \in Conns, Stream!TakeDelta(c)
       PROVE  StreamShape'
  <2>1. /\ Head(deltas[c]) \in Stream!Delta /\ Tail(deltas[c]) \in Seq(Stream!Delta)
        /\ Len(Tail(deltas[c])) = Len(deltas[c]) - 1 /\ Len(deltas[c]) \in Nat
    BY <1>1, <1>10, ItemsTail DEF Stream!TakeDelta, StreamShape
  <2>2. /\ deltas' \in [Conns -> Seq(Stream!Delta)]
        /\ \A x \in Conns : Len(deltas'[x]) <= QueueSize
    BY <1>1, <1>10, <2>1 DEF Stream!TakeDelta, StreamShape, Stream!TypeOK
  <2>3. taken' \in [Conns -> SUBSET Stream!Delta]
    BY <1>1, <1>10, <2>1 DEF Stream!TakeDelta, Stream!TypeOK
  <2> QED  BY <1>1, <1>10, <2>2, <2>3 DEF Stream!TakeDelta, StreamShape, Stream!TypeOK
<1>8. ASSUME NEW c \in Conns, Stream!EndPass(c) \/ Stream!Disconnect(c)
      PROVE  StreamShape'
  <2>1. \E to \in {"pass", "gone"} : at' = [at EXCEPT ![c] = to]
    BY <1>8 DEF Stream!EndPass, Stream!Disconnect, Stream!Close, Stream!Goes
  <2>2. at' \in [Conns -> {"new", "granted", "refused", "pass", "drain", "gone"}]
    BY <1>1, <2>1 DEF Stream!TypeOK
  <2>3. slots' = slots \/ slots' = IF slots <= 1 THEN 0 ELSE slots - 1
    BY <1>8 DEF Stream!EndPass, Stream!Disconnect, Stream!Close
  <2>4. slots' \in Nat /\ stop' \subseteq Conns
    <3>1. stop' \in {stop, stop \union {c}}
      BY <1>8 DEF Stream!EndPass, Stream!Disconnect, Stream!Close
    <3> QED  BY <1>1, <2>3, <3>1 DEF Stream!TypeOK
  <2> QED  BY <1>1, <1>8, <2>2, <2>4 DEF Stream!EndPass, Stream!Disconnect, StreamShape, Stream!TypeOK
<1>9. ASSUME NEW c \in Conns, Stream!Pump(c)
      PROVE  StreamShape'
  <2> USE DEF Stream!Pumps
  <2>0. UNCHANGED <<run, emitted, slots, at, closing, stop, due, taken, gotDeltas, told>>
    BY <1>9 DEF Stream!Pump
  <2>1. CASE Stream!Subscribe(c) /\ UNCHANGED <<deltas, dropped>>
    <3>1. <<>> \in Seq(Stream!Delta) /\ Len(<<>>) = 0
      OBVIOUS
    <3>2. /\ coreQ' \in [Conns -> Seq(Stream!Delta)]
          /\ \A x \in Conns : Len(coreQ'[x]) <= CoreSize
      BY <1>1, <2>1, <3>1 DEF Stream!Subscribe, StreamShape, Stream!TypeOK
    <3>3. \E to \in {"done", "loop", "iterate"} : pump' = [pump EXCEPT ![c] = to]
      BY <2>1 DEF Stream!Subscribe
    <3>4. pump' \in [Conns -> {"none", "loop", "iterate", "put", "full", "discard", "again", "done"}]
      BY <1>1, <3>3 DEF StreamShape
    <3> QED  BY <1>1, <2>0, <2>1, <3>2, <3>4 DEF Stream!Subscribe, StreamShape, Stream!TypeOK
  <2>2. CASE Stream!Take(c) /\ UNCHANGED <<deltas, dropped>>
    <3>1. /\ Head(coreQ[c]) \in Stream!Delta /\ Tail(coreQ[c]) \in Seq(Stream!Delta)
          /\ Len(Tail(coreQ[c])) = Len(coreQ[c]) - 1 /\ Len(coreQ[c]) \in Nat
      BY <1>1, <2>2, ItemsTail DEF Stream!Take, StreamShape
    <3>2. /\ coreQ' \in [Conns -> Seq(Stream!Delta)]
          /\ \A x \in Conns : Len(coreQ'[x]) <= CoreSize
          /\ hold' \in [Conns -> SUBSET Stream!Delta]
      BY <1>1, <2>2, <3>1 DEF Stream!Take, StreamShape, Stream!TypeOK
    <3> QED  BY <1>1, <2>0, <2>2, <3>2 DEF Stream!Take, StreamShape, Stream!TypeOK
  <2>3. CASE Stream!Idle(c) /\ UNCHANGED <<deltas, dropped>>
    BY <1>1, <2>0, <2>3 DEF Stream!Idle, StreamShape, Stream!TypeOK
  <2>4. CASE (Stream!Put(c) \/ Stream!Again(c)) /\ UNCHANGED dropped
    <3>1. CASE Stream!Puts(c)
      <4>1. PICK d \in hold[c] : deltas' = [deltas EXCEPT ![c] = Append(@, d)]
        BY <3>1 DEF Stream!Puts
      <4>2. /\ d \in Stream!Delta /\ deltas[c] \in Seq(Stream!Delta)
            /\ Append(deltas[c], d) \in Seq(Stream!Delta)
            /\ Len(Append(deltas[c], d)) = Len(deltas[c]) + 1 /\ Len(deltas[c]) \in Nat
        BY <1>1 DEF StreamShape, Stream!TypeOK
      <4>3. Len(deltas[c]) < QueueSize
        BY <1>1, <2>4, <3>1, <4>1 DEF Stream!Put, Stream!Again, ConnInv, PumpInv, StreamShape
      <4>4. /\ deltas' \in [Conns -> Seq(Stream!Delta)]
            /\ \A x \in Conns : Len(deltas'[x]) <= QueueSize
        BY <1>1, <4>1, <4>2, <4>3 DEF StreamShape, Stream!TypeOK
      <4> QED  BY <1>1, <2>0, <2>4, <3>1, <4>4 DEF Stream!Puts, Stream!Put, Stream!Again,
                                                   StreamShape, Stream!TypeOK
    <3>2. CASE ~Stream!Puts(c)
      BY <1>1, <2>0, <2>4, <3>2 DEF Stream!Put, Stream!Again, StreamShape, Stream!TypeOK
    <3> QED  BY <3>1, <3>2
  <2>5. CASE Stream!Discard(c) /\ UNCHANGED dropped
    <3>1. deltas[c] # <<>> => /\ Tail(deltas[c]) \in Seq(Stream!Delta)
                              /\ Len(Tail(deltas[c])) = Len(deltas[c]) - 1
                              /\ Len(deltas[c]) \in Nat
      BY <1>1, ItemsTail DEF StreamShape
    <3>2. /\ deltas' \in [Conns -> Seq(Stream!Delta)]
          /\ \A x \in Conns : Len(deltas'[x]) <= QueueSize
      BY <1>1, <2>5, <3>1 DEF Stream!Discard, StreamShape, Stream!TypeOK
    <3> QED  BY <1>1, <2>0, <2>5, <3>2 DEF Stream!Discard, StreamShape, Stream!TypeOK
  <2>6. CASE Stream!Count(c) /\ UNCHANGED <<coreQ, hold, deltas>>
    BY <1>1, <2>0, <2>6 DEF Stream!Count, StreamShape, Stream!TypeOK
  <2> QED  BY <1>9, <2>1, <2>2, <2>3, <2>4, <2>5, <2>6 DEF Stream!Pump
<1> QED  BY <1>2, <1>3, <1>4, <1>5, <1>6, <1>7, <1>8, <1>9, <1>10 DEF Stream!Next, Stream!Serve

\* A step of the slots, whoever takes or gives one back.
LEMMA SlotStep ==
  ASSUME StreamInv, Stream!Next
  PROVE  SlotInv'
<1>1. /\ slots \in Nat /\ SlotLimit \in Nat /\ slots <= SlotLimit
      /\ at \in [Conns -> {"new", "granted", "refused", "pass", "drain", "gone"}]
  BY LiveAssumption DEF StreamInv, StreamShape, Stream!TypeOK, SlotInv
<1>2. IsFiniteSet(Holders) /\ Cardinality(Holders) \in Nat /\ Cardinality(Holders) <= slots
  BY LiveAssumption, FS_Subset, FS_CardinalityType DEF Holders, StreamInv, SlotInv
<1> USE DEF Stream!coreVars, Stream!genVars, Stream!pumpVars, Stream!sentVars, Stream!Goes
<1>3. CASE UNCHANGED slots /\ Holders' = Holders
  BY <1>2, <1>3 DEF StreamInv, SlotInv
<1>4. ASSUME NEW c \in Conns, Stream!AcquireSSE(c)
      PROVE  SlotInv'
  <2>1. CASE slots < SlotLimit
    <3>1. Holders' = Holders \union {c} /\ c \notin Holders /\ slots' = slots + 1
      BY <1>1, <1>4, <2>1 DEF Stream!AcquireSSE, Holders
    <3>2. Cardinality(Holders') = Cardinality(Holders) + 1
      BY <1>2, <3>1, FS_AddElement
    <3> QED  BY <1>1, <1>2, <2>1, <3>1, <3>2 DEF SlotInv
  <2>2. CASE ~(slots < SlotLimit)
    <3>1. Holders' = Holders /\ slots' = slots
      BY <1>1, <1>4, <2>2 DEF Stream!AcquireSSE, Holders
    <3> QED  BY <1>3, <3>1
  <2> QED  BY <2>1, <2>2
<1>5. ASSUME NEW c \in Conns, c \in Holders, Stream!Close(c)
      PROVE  SlotInv'
  <2>1. Holders' = Holders \ {c} /\ slots' = IF slots <= 1 THEN 0 ELSE slots - 1
    BY <1>1, <1>5 DEF Stream!Close, Holders
  <2>2. Cardinality(Holders') = Cardinality(Holders) - 1
    BY <1>2, <1>5, <2>1, FS_RemoveElement
  <2> QED  BY <1>1, <1>2, <2>1, <2>2 DEF SlotInv
<1>6. ASSUME NEW c \in Conns, Stream!EndPass(c)
      PROVE  SlotInv'
  <2>1. CASE Stream!Close(c)
    BY <1>5, <1>6, <2>1 DEF Stream!EndPass, Holders
  <2>2. CASE ~Stream!Close(c)
    <3>1. Holders' = Holders /\ slots' = slots
      BY <1>1, <1>6, <2>2 DEF Stream!EndPass, Holders
    <3> QED  BY <1>3, <3>1
  <2> QED  BY <2>1, <2>2
<1>7. ASSUME NEW c \in Conns, Stream!Disconnect(c)
      PROVE  SlotInv'
  <2>1. CASE c \in Stream!Open /\ Stream!Close(c)
    BY <1>5, <2>1 DEF Stream!Open, Holders
  <2>2. CASE at[c] = "granted" /\ at' = [at EXCEPT ![c] = "gone"] /\ slots' = slots
    <3>1. Holders' = Holders \ {c} /\ c \in Holders
      BY <1>1, <2>2 DEF Holders
    <3>2. Cardinality(Holders') = Cardinality(Holders) - 1
      BY <1>2, <3>1, FS_RemoveElement
    <3> QED  BY <1>1, <1>2, <2>2, <3>2 DEF SlotInv
  <2> QED  BY <1>7, <2>1, <2>2 DEF Stream!Disconnect
<1>8. ASSUME NEW c \in Conns, Stream!Start(c) \/ Stream!Query(c)
      PROVE  SlotInv'
  <2>1. Holders' = Holders /\ slots' = slots
    BY <1>1, <1>8 DEF Stream!Start, Stream!Query, Holders
  <2> QED  BY <1>3, <2>1
<1>9. ASSUME UNCHANGED <<at, slots>>
      PROVE  SlotInv'
  BY <1>3, <1>9 DEF Holders
<1>10. ASSUME NEW c \in Conns, Stream!TakeDelta(c) \/ Stream!SendDelta(c) \/ Stream!Pump(c)
       PROVE  SlotInv'
  BY <1>9, <1>10 DEF Stream!TakeDelta, Stream!SendDelta, Stream!Pump
<1>11. CASE Stream!Emit \/ Stream!RunMoves
  BY <1>9, <1>11 DEF Stream!Emit, Stream!RunMoves
<1> QED  BY <1>4, <1>6, <1>7, <1>8, <1>10, <1>11 DEF Stream!Next, Stream!Serve

LEMMA ConnStep ==
  ASSUME StreamInv, Stream!Next, NEW c \in Conns
  PROVE  ConnInv(c)'
<1>1. StreamShape /\ ConnInv(c)
  BY DEF StreamInv
<1> USE DEF Stream!coreVars, Stream!genVars, Stream!pumpVars, Stream!sentVars
<1>2. CASE Stream!Emit
  BY <1>1, <1>2, EmitInv
<1>3. CASE Stream!RunMoves
  BY <1>1, <1>3, RestsInv DEF Stream!RunMoves, Rests
<1>4. ASSUME NEW b \in Conns,
             \/ Stream!AcquireSSE(b) \/ Stream!Query(b) \/ Stream!EndPass(b)
             \/ Stream!Disconnect(b)
      PROVE  ConnInv(c)'
  <2>1. emitted' = emitted /\ Rests(c)
    BY <1>4 DEF Stream!AcquireSSE, Stream!Query, Stream!EndPass, Stream!Disconnect, Rests
  <2> QED  BY <1>1, <2>1, RestsInv
\* Another connection's steps
<1>5. ASSUME NEW b \in Conns, b # c,
             Stream!Start(b) \/ Stream!TakeDelta(b) \/ Stream!SendDelta(b) \/ Stream!Pump(b)
      PROVE  ConnInv(c)'
  <2>1. /\ \A x : ([pump EXCEPT ![b] = x])[c] = pump[c]
        /\ \A x : ([coreQ EXCEPT ![b] = x])[c] = coreQ[c]
        /\ \A x : ([hold EXCEPT ![b] = x])[c] = hold[c]
        /\ \A x : ([deltas EXCEPT ![b] = x])[c] = deltas[c]
        /\ \A x : ([taken EXCEPT ![b] = x])[c] = taken[c]
        /\ \A x : ([dropped EXCEPT ![b] = x])[c] = dropped[c]
        /\ \A x : ([gotDeltas EXCEPT ![b] = x])[c] = gotDeltas[c]
        /\ \A x : ([told EXCEPT ![b] = x])[c] = told[c]
    BY <1>1, <1>5 DEF StreamShape, Stream!TypeOK
  <2>2. CASE Stream!Start(b)
    <3>1. emitted' = emitted /\ Rests(c)
      BY <2>1, <2>2 DEF Stream!Start, Stream!Pumps, Rests
    <3> QED  BY <1>1, <3>1, RestsInv
  <2>3. CASE Stream!TakeDelta(b) \/ Stream!SendDelta(b)
    <3>1. emitted' = emitted /\ Rests(c)
      <4>1. CASE Stream!TakeDelta(b)
        BY <2>1, <4>1 DEF Stream!TakeDelta, Rests
      <4>2. CASE Stream!SendDelta(b)
        <5>1. PICK d \in taken[b] : /\ gotDeltas' = [gotDeltas EXCEPT ![b] = @ \union {d.seq}]
                                   /\ told' = [told EXCEPT ![b] = @ + d.before + dropped[b]]
          BY <4>2 DEF Stream!SendDelta
        <5>2. gotDeltas'[c] = gotDeltas[c] /\ told'[c] = told[c]
          BY <2>1, <5>1
        <5> QED  BY <2>1, <4>2, <5>2 DEF Stream!SendDelta, Rests
      <4> QED  BY <2>3, <4>1, <4>2
    <3> QED  BY <1>1, <3>1, RestsInv
  <2>4. CASE Stream!Pump(b)
    <3>1. /\ emitted' = emitted /\ due' = due /\ taken' = taken
          /\ gotDeltas' = gotDeltas /\ told' = told
      BY <2>4 DEF Stream!Pump
    <3>2. \E x : pump' = [pump EXCEPT ![b] = x]
      <4>1. \A x, y : Stream!Pumps(b, x, y) => \E z : pump' = [pump EXCEPT ![b] = z]
        BY DEF Stream!Pumps
      <4> QED  BY <2>4, <4>1 DEF Stream!Pump, Stream!Subscribe, Stream!Take, Stream!Idle, Stream!Put,
                        Stream!Discard, Stream!Again, Stream!Count
    <3>5. pump'[c] = pump[c]
      BY <2>1, <3>2
    <3>3. coreQ'[c] = coreQ[c] /\ hold'[c] = hold[c]
      BY <2>1, <2>4 DEF Stream!Pump, Stream!Subscribe, Stream!Take, Stream!Idle, Stream!Put,
                        Stream!Discard, Stream!Again, Stream!Count, Stream!Puts
    <3>4. deltas'[c] = deltas[c] /\ dropped'[c] = dropped[c]
      BY <2>1, <2>4 DEF Stream!Pump, Stream!Subscribe, Stream!Take, Stream!Idle, Stream!Put,
                        Stream!Discard, Stream!Again, Stream!Count, Stream!Puts
    <3> QED  BY <1>1, <3>1, <3>3, <3>4, <3>5, RestsInv DEF Rests
  <2> QED  BY <1>5, <2>2, <2>3, <2>4
\* its own
<1>6. CASE Stream!Start(c)
  <2>1. pump[c] = "none" /\ pump'[c] = "loop"
    BY <1>1, <1>6 DEF Stream!Start, Stream!Pumps, StreamShape
  <2>2. emitted' = emitted /\ UNCHANGED <<coreQ, hold, deltas, taken, dropped, due, gotDeltas, told>>
    BY <1>6 DEF Stream!Start
  <2> QED  BY <1>1, <2>1, <2>2, OthersInv
<1>7. CASE Stream!TakeDelta(c) \/ Stream!SendDelta(c)
  BY <1>1, <1>7, TakenInv, SendInv
<1>8. CASE Stream!Pump(c)
  <2>0. /\ emitted' = emitted /\ due' = due /\ taken' = taken
        /\ gotDeltas' = gotDeltas /\ told' = told
    BY <1>8 DEF Stream!Pump
  <2>1. CASE Stream!Subscribe(c) /\ UNCHANGED <<deltas, dropped>>
    <3>1. /\ pump[c] = "loop" /\ pump'[c] \in {"loop", "iterate", "done"}
          /\ coreQ[c] = <<>> /\ hold' = hold
      BY <1>1, <2>1 DEF Stream!Subscribe, Stream!Pumps, StreamShape, ConnInv, PumpInv
    <3>2. coreQ' = coreQ
      BY <1>1, <2>1, <3>1 DEF Stream!Subscribe, StreamShape
    <3> QED  BY <1>1, <2>0, <2>1, <3>1, <3>2, OthersInv
  <2>2. CASE Stream!Take(c) /\ UNCHANGED <<deltas, dropped>>
    BY <1>1, <2>0, <2>2, TakeInv
  <2>3. CASE Stream!Idle(c) /\ UNCHANGED <<deltas, dropped>>
    <3>1. /\ pump[c] = "iterate" /\ pump'[c] \in {"loop", "done"} /\ coreQ[c] = <<>>
          /\ coreQ' = coreQ /\ hold' = hold
      BY <1>1, <2>3 DEF Stream!Idle, Stream!Pumps, StreamShape
    <3> QED  BY <1>1, <2>0, <2>3, <3>1, OthersInv
  <2>4. CASE (Stream!Put(c) \/ Stream!Again(c)) /\ UNCHANGED dropped
    <3>1. CASE Stream!Puts(c) /\ pump[c] \in {"put", "again"} /\ pump'[c] = "iterate"
      <4>1. coreQ' = coreQ
        BY <2>4 DEF Stream!Put, Stream!Again
      <4> QED  BY <1>1, <2>0, <2>4, <3>1, <4>1, PutsInv
    <3>2. CASE ~(Stream!Puts(c) /\ pump[c] \in {"put", "again"} /\ pump'[c] = "iterate")
      <4>1. /\ pump[c] = "put" /\ pump'[c] = "full"
            /\ coreQ' = coreQ /\ hold' = hold /\ deltas' = deltas
        BY <1>1, <2>4, <3>2 DEF Stream!Put, Stream!Again, Stream!Pumps, StreamShape
      <4> QED  BY <1>1, <2>0, <2>4, <4>1, OthersInv
    <3> QED  BY <3>1, <3>2
  <2>5. CASE Stream!Discard(c) /\ UNCHANGED dropped
    BY <1>1, <2>0, <2>5, DiscardInv
  <2>6. CASE Stream!Count(c) /\ UNCHANGED <<coreQ, hold, deltas>>
    <3>1. /\ pump[c] = "full" /\ pump'[c] = "discard" /\ dropped'[c] = dropped[c] + 1
      BY <1>1, <2>6 DEF Stream!Count, Stream!Pumps, StreamShape, Stream!TypeOK
    <3> QED  BY <1>1, <2>0, <2>6, <3>1, OthersInv
  <2> QED  BY <1>8, <2>1, <2>2, <2>3, <2>4, <2>5, <2>6 DEF Stream!Pump
<1> QED  BY <1>2, <1>3, <1>4, <1>5, <1>6, <1>7, <1>8 DEF Stream!Next, Stream!Serve

LEMMA StreamStep == StreamInv /\ [Next]_vars /\ part = "stream" => StreamInv'
<1> SUFFICES ASSUME StreamInv, [Next]_vars, part = "stream"
             PROVE  StreamInv'
  OBVIOUS
<1>1. CASE Stream!Next
  BY <1>1, StreamTypeStep, SlotStep, ConnStep DEF StreamInv
<1>2. CASE UNCHANGED streamVars
  <2>1. StreamShape' /\ SlotInv'
    BY <1>2 DEF streamVars, StreamInv, StreamShape, Stream!TypeOK, SlotInv, Holders
  <2>2. ASSUME NEW c \in Conns
        PROVE  ConnInv(c)'
    <3>1. emitted' = emitted /\ Rests(c)
      BY <1>2 DEF streamVars, Rests
    <3> QED  BY <3>1, RestsInv DEF StreamInv
  <2> QED  BY <2>1, <2>2 DEF StreamInv
<1>3. Stream!Next \/ UNCHANGED streamVars
  BY DEF Next, vars, StreamMoves, ViewMoves, ConsoleMoves, JournalMoves, ProvidersMove
<1> QED  BY <1>1, <1>2, <1>3

\* While the stream is the part that moves, its queues, its slots and the
\* account of what was dropped are as they should be, for every number of
\* connections and every size of the two queues (public_v2.py, _stream and pump).
THEOREM StreamInductive == Spec => [](part = "stream" => StreamInv)
<1>1. Init => (part = "stream" => StreamInv)
  BY StreamInit DEF Init
<1>2. (part = "stream" => StreamInv) /\ [Next]_vars => (part = "stream" => StreamInv)'
  <2>1. [Next]_vars => part' = part
    BY DEF Next, vars, StreamMoves, ViewMoves, ConsoleMoves, JournalMoves, ProvidersMove
  <2> QED  BY <2>1, StreamStep
<1> QED  BY <1>1, <1>2, PTL DEF Spec

\* A client of the stream that was told of no drop has every delta its
\* subscription produced before the latest one it has, whichever of the two
\* bounded queues overflowed and whenever (public_v2.py, pump and _stream; Core's
\* subscription).  The counter the two threads share is counted up, and read and
\* reset, in one step each, as CPython 3.12 has it: see LiveStream.
THEOREM GapsAreTold == Spec => []GapsAreSignalled
<1>1. (part = "stream" => StreamInv) => GapsAreSignalled
  <2> SUFFICES ASSUME StreamInv, NEW c \in Conns, told[c] = 0
               PROVE  Stream!Missing(c) = {}
    BY DEF GapsAreSignalled, Stream!GapsAreSignalled
  <2>1. due[c] \subseteq 1..MaxDeltas /\ gotDeltas[c] \subseteq 1..MaxDeltas /\ MaxDeltas \in Nat
    BY LiveAssumption DEF StreamInv, StreamShape, Stream!TypeOK
  <2>2. \A s \in due[c] \ gotDeltas[c], g \in gotDeltas[c] : g < s
    BY DEF StreamInv, ConnInv, LossInv
  <2> QED  BY <2>1, <2>2 DEF Stream!Missing
<1> QED  BY <1>1, StreamInductive, PTL

-----------------------------------------------------------------------------
(* The Run view: what it shows are the newest of the first k events of the *)
(* Run, and the batch that waits makes them the first m; every request and *)
(* the stream go on from within those, and when the view is final the      *)
(* first k include all there were when the Run became terminal.            *)

\* What reduceLive keeps of the first k events.
Low(k) == IF k > MaxShown THEN k - MaxShown + 1 ELSE 1
Shown(k) == Low(k)..k

LEMMA SameCards == \A S : View!Cardinality(S) = Cardinality(S)
BY DEF View!Cardinality, Cardinality

LEMMA SameNewest == \A S : Console!Newest(S) = View!Newest(S)
BY DEF Console!Newest, View!Newest, Console!Cardinality, View!Cardinality

LEMMA CountTo ==
  ASSUME NEW n \in Nat, NEW j \in Nat, n <= j
  PROVE  IsFiniteSet((n + 1)..j) /\ Cardinality((n + 1)..j) = j - n
<1>1. n + 1 \in Int /\ j \in Int
  OBVIOUS
<1>2. /\ IsFiniteSet((n + 1)..j)
      /\ Cardinality((n + 1)..j) = IF n + 1 > j THEN 0 ELSE j - (n + 1) + 1
  BY <1>1, FS_Interval
<1>3. (n + 1 > j => j - n = 0) /\ j - (n + 1) + 1 = j - n
  OBVIOUS
<1> QED  BY <1>2, <1>3

\* Events up to j that leave out none of the newest become just those.
LEMMA NewestOf ==
  ASSUME NEW j \in Nat, NEW S \in SUBSET (1..j), Shown(j) \subseteq S
  PROVE  View!Newest(S) = Shown(j)
<1>0. MaxShown \in Nat \ {0}
  BY LiveAssumption
<1>1. Low(j) \in Nat \ {0} /\ Low(j) <= j + 1 /\ j - Low(j) < MaxShown
      /\ (Low(j) = 1 \/ j - Low(j) + 1 = MaxShown)
  BY <1>0 DEF Low
<1>2. ASSUME NEW n \in S
      PROVE  (Cardinality({m \in S : n < m}) < MaxShown) <=> n \in Shown(j)
  <2>0. n \in Nat \ {0} /\ n <= j
    OBVIOUS
  <2>1. CASE n >= Low(j)
    <3>1. {m \in S : n < m} = (n + 1)..j
      <4>1. \A m \in (n + 1)..j : m \in S /\ n < m
        BY <1>1, <2>0, <2>1 DEF Shown
      <4>2. \A m \in S : n < m => m \in (n + 1)..j
        BY <2>0
      <4> QED  BY <4>1, <4>2
    <3>2. Cardinality({m \in S : n < m}) = j - n
      BY <2>0, <3>1, CountTo
    <3> QED  BY <1>0, <1>1, <2>0, <2>1, <3>2 DEF Shown
  <2>2. CASE n < Low(j)
    <3> DEFINE T == {m \in S : n < m}
    <3>1. PICK l \in Nat : l + 1 = Low(j) /\ l <= j
      <4>1. Low(j) - 1 \in Nat /\ (Low(j) - 1) + 1 = Low(j) /\ Low(j) - 1 <= j
        BY <1>1
      <4> QED  BY <4>1
    <3>2. IsFiniteSet((l + 1)..j) /\ Cardinality((l + 1)..j) = j - l
      BY <3>1, CountTo
    <3>3. (l + 1)..j \subseteq T /\ T \subseteq (0 + 1)..j
      <4>1. \A m \in (l + 1)..j : m \in S /\ n < m
        BY <1>1, <2>0, <2>2, <3>1 DEF Shown
      <4>2. \A m \in T : m \in 1..j
        OBVIOUS
      <4>3. (l + 1)..j \subseteq T
        BY <4>1
      <4>4. 0 + 1 = 1
        OBVIOUS
      <4> QED  BY <4>2, <4>3, <4>4
    <3>4. IsFiniteSet((0 + 1)..j)
      BY CountTo
    <3> HIDE DEF T
    <3>5. IsFiniteSet(T) /\ Cardinality((l + 1)..j) <= Cardinality(T)
      BY <3>3, <3>4, FS_Subset
    <3>6. Cardinality(T) \in Nat
      BY <3>5, FS_CardinalityType
    <3>7. j - l = MaxShown
      BY <1>0, <1>1, <2>0, <2>2, <3>1
    <3>8. ~(Cardinality(T) < MaxShown)
      BY <1>0, <3>2, <3>5, <3>6, <3>7
    <3> QED  BY <1>1, <2>0, <2>2, <3>8 DEF T, Shown
  <2> QED  BY <1>1, <2>0, <2>1, <2>2
<1>3. View!Newest(S) = {n \in S : Cardinality({m \in S : n < m}) < MaxShown}
  BY SameCards DEF View!Newest
<1> QED  BY <1>2, <1>3

\* The first k events grow to the first j, by events up to j of which none
\* after the first k is left out.
LEMMA Grows ==
  ASSUME NEW k \in Nat, NEW j \in Nat, k <= j,
         NEW P \in SUBSET (1..j), (k + 1)..j \subseteq P
  PROVE  View!Newest(Shown(k) \union P) = Shown(j)
<1>0. MaxShown \in Nat \ {0}
  BY LiveAssumption
<1>1. Low(k) \in Nat \ {0} /\ Low(j) \in Nat \ {0} /\ Low(k) <= Low(j)
  BY <1>0 DEF Low
<1>2. Shown(k) \union P \in SUBSET (1..j)
  <2>1. \A x \in Shown(k) : x \in 1..j
    BY <1>1 DEF Shown
  <2> QED  BY <2>1
<1>3. Shown(j) \subseteq Shown(k) \union P
  <2> SUFFICES ASSUME NEW x \in Shown(j)
               PROVE  x \in Shown(k) \union P
    OBVIOUS
  <2>1. x \in Int /\ Low(j) <= x /\ x <= j
    BY <1>1 DEF Shown
  <2>2. CASE x <= k
    BY <1>1, <2>1, <2>2 DEF Shown
  <2>3. CASE x > k
    <3>1. x \in (k + 1)..j
      BY <2>1, <2>3
    <3> QED  BY <3>1
  <2> QED  BY <2>1, <2>2, <2>3
<1> QED  BY <1>2, <1>3, NewestOf

LEMMA NewestOfAll == \A k \in Nat : View!Newest(1..k) = Shown(k)
<1> TAKE k \in Nat
<1>1. Low(k) \in Nat \ {0}
  BY LiveAssumption DEF Low
<1>2. 1..k \in SUBSET (1..k) /\ Shown(k) \subseteq 1..k
  BY <1>1 DEF Shown
<1> QED  BY <1>2, NewestOf

LEMMA CursorOf == \A k \in Nat : View!Cursor(Shown(k)) = k /\ Shown(k) \subseteq 1..k
<1> TAKE k \in Nat
<1>1. Low(k) \in Nat \ {0} /\ (k = 0 => Low(k) = 1) /\ (k # 0 => Low(k) <= k)
  BY LiveAssumption DEF Low
<1>2. CASE k = 0
  <2>1. Shown(k) = {}
    BY <1>1, <1>2 DEF Shown
  <2> QED  BY <1>2, <2>1 DEF View!Cursor
<1>3. CASE k # 0
  <2>1. k \in Shown(k) /\ \A n \in Shown(k) : n <= k /\ n \in Nat
    BY <1>1, <1>3 DEF Shown
  <2>2. \A n \in Shown(k) : (\A y \in Shown(k) : y <= n) => n = k
    BY <2>1
  <2>3. View!Cursor(Shown(k)) = k
    BY <2>1, <2>2 DEF View!Cursor
  <2> QED  BY <1>1, <2>3 DEF Shown
<1> QED  BY <1>2, <1>3

ViewHas(k, m) == got = Shown(k) /\ pending \subseteq 1..m /\ (k + 1)..m \subseteq pending
ViewAt(k, m) ==
  /\ ViewHas(k, m)
  /\ k <= m /\ m <= log /\ last <= log
  /\ start = "page" /\ ~denied => startAt <= k
  /\ refresh = "page" /\ ~denied => refreshAt <= k
  /\ stream \in {"connect", "body"} => sent <= m
  /\ (refresh = "results" \/ fetched) /\ ~View!Gone => last <= k

ViewInv ==
  /\ View!TypeOK
  /\ refresh \in {"page", "results"} \/ fetched => closed
  /\ View!Gone => stream \notin View!Streaming
  /\ denied => got = {} /\ pending = {}
  /\ \E k, m \in Nat : ViewAt(k, m)

\* TypeOK, one variable at a time.
ViewTyped ==
  /\ log \in 0..MaxLog /\ last \in 0..MaxLog /\ ending \in 0..MaxLog
  /\ closed \in BOOLEAN /\ active \in BOOLEAN /\ denied \in BOOLEAN
  /\ busy \in BOOLEAN /\ fetched \in BOOLEAN
  /\ refresh \in {"idle", "run", "page", "results"}
  /\ start \in {"first", "detail", "page", "done"}
  /\ refreshAt \in 0..MaxLog /\ startAt \in 0..MaxLog /\ sent \in 0..MaxLog
  /\ got \subseteq 1..MaxLog /\ pending \subseteq 1..MaxLog
  /\ stream \in {"none", "ended", "closed"} \union View!Streaming
  /\ fails \in 0..MaxFails
  /\ busy <=> refresh # "idle"

LEMMA ViewTypes == View!TypeOK <=> ViewTyped
BY DEF View!TypeOK, ViewTyped

LEMMA ViewInit == View!Init => ViewInv
<1> SUFFICES ASSUME View!Init
             PROVE  ViewInv
  OBVIOUS
<1> USE DEF View!Init
<1>1. View!TypeOK
  <2>1. MaxLog \in Nat /\ MaxFails \in Nat
    BY LiveAssumption
  <2>2. /\ closed \in BOOLEAN /\ active \in BOOLEAN /\ denied \in BOOLEAN
        /\ busy \in BOOLEAN /\ fetched \in BOOLEAN /\ busy = TRUE /\ refresh # "idle"
    OBVIOUS
  <2>3. ViewTyped
    BY <2>1, <2>2 DEF ViewTyped
  <2> QED  BY <2>3, ViewTypes
<1>2. ViewAt(0, 0)
  <2>1. Shown(0) = {}
    BY LiveAssumption DEF Shown, Low
  <2> QED  BY <2>1 DEF ViewAt, ViewHas
<1> QED  BY <1>1, <1>2 DEF ViewInv, View!Gone, View!Streaming

\* A page that starts at a, within the first k events, makes them the first j.
Joins(k, a, j) ==
  /\ k <= j /\ j <= log
  /\ View!Newest(Shown(k) \union View!Page(a)) = Shown(j)
  /\ ~View!HasMore(a) => j = log

LEMMA PageJoins ==
  ASSUME NEW k \in Nat, NEW a \in Nat, a <= k, k <= log, log \in Nat
  PROVE  \E j \in Nat : Joins(k, a, j)
<1>0. PageSize \in Nat \ {0}
  BY LiveAssumption
<1>1. PICK j \in Nat : /\ k <= j /\ j <= log /\ (~View!HasMore(a) => j = log)
                       /\ \/ j = k /\ a + PageSize <= k
                          \/ j <= a + PageSize /\ (j = log \/ j = a + PageSize)
  <2>1. CASE ~View!HasMore(a)
    BY <1>0, <2>1 DEF View!HasMore
  <2>2. CASE View!HasMore(a) /\ a + PageSize <= k
    BY <1>0, <2>2
  <2>3. CASE View!HasMore(a) /\ a + PageSize > k
    <3>1. a + PageSize \in Nat /\ k <= a + PageSize /\ a + PageSize <= log
      BY <1>0, <2>3 DEF View!HasMore
    <3> QED  BY <2>3, <3>1
  <2> QED  BY <1>0, <2>1, <2>2, <2>3
<1>2. View!Page(a) \in SUBSET (1..j) /\ (k + 1)..j \subseteq View!Page(a)
  BY <1>0, <1>1 DEF View!Page
<1>3. View!Newest(Shown(k) \union View!Page(a)) = Shown(j)
  BY <1>1, <1>2, Grows
<1> QED  BY <1>1, <1>3 DEF Joins

LEMMA ViewTypeStep ==
  ASSUME ViewInv, View!Next
  PROVE  ViewTyped'
<1>1. PICK k \in Nat, m \in Nat : ViewAt(k, m)
  BY DEF ViewInv
<1>2. /\ ViewTyped /\ MaxLog \in Nat /\ MaxFails \in Nat /\ PageSize \in Nat \ {0}
      /\ log \in 0..MaxLog /\ got = Shown(k) /\ k <= log /\ m <= log
      /\ pending \subseteq 1..m /\ (k + 1)..m \subseteq pending /\ k <= m
  <2>1. ViewTyped
    BY ViewTypes DEF ViewInv
  <2>2. MaxLog \in Nat /\ MaxFails \in Nat /\ PageSize \in Nat \ {0}
    BY LiveAssumption
  <2>3. log \in 0..MaxLog
    BY <2>1 DEF ViewTyped
  <2>4. got = Shown(k) /\ k <= log /\ m <= log
        /\ pending \subseteq 1..m /\ (k + 1)..m \subseteq pending /\ k <= m
    BY <1>1, <2>2, <2>3 DEF ViewAt, ViewHas
  <2> QED  BY <2>1, <2>2, <2>3, <2>4
<1>3. View!Cursor(got) \in 0..MaxLog
  BY <1>2, CursorOf
<1>4. ASSUME NEW j \in Nat, j <= log, got' = Shown(j)
      PROVE  got' \subseteq 1..MaxLog /\ View!Cursor(got') \in 0..MaxLog
  <2>1. Shown(j) \subseteq 1..j /\ View!Cursor(Shown(j)) = j
    BY CursorOf
  <2> QED  BY <1>2, <1>4, <2>1
<1> USE DEF View!serverVars, View!flagVars, View!refreshVars, View!startVars, View!streamVars,
            View!modelVars
<1>5. ASSUME View!Settles, UNCHANGED <<log, closed, last, ending, active, denied>>,
             fetched' \in BOOLEAN, UNCHANGED <<sent, got, pending>>,
             stream' \in {stream, "closed"}, fails' \in 0..MaxFails
      PROVE  ViewTyped'
  BY <1>2, <1>5 DEF View!Settles, ViewTyped
<1>6. CASE View!Store \/ View!CloseRun
  <2>1. log' \in 0..MaxLog /\ last' \in 0..MaxLog /\ ending' \in 0..MaxLog
    BY <1>2, <1>6 DEF View!Store, View!CloseRun, ViewTyped
  <2>2. closed' \in BOOLEAN
    BY <1>2, <1>6 DEF View!Store, View!CloseRun, ViewTyped
  <2>3. UNCHANGED <<active, denied, fails, busy, refresh, refreshAt, start, startAt, stream, sent,
                    fetched, got, pending>>
    BY <1>6 DEF View!Store, View!CloseRun
  <2> QED  BY <1>2, <2>1, <2>2, <2>3 DEF ViewTyped
<1>7. CASE View!Interval
  BY <1>2, <1>7 DEF View!Interval, View!Calls, ViewTyped
<1>8. CASE View!RefreshRun
  <2>1. CASE closed /\ ~fetched
    BY <1>2, <1>3, <1>8, <2>1 DEF View!RefreshRun, View!Closes, View!Streaming, ViewTyped
  <2>2. CASE ~(closed /\ ~fetched)
    BY <1>2, <1>5, <1>8, <2>2 DEF View!RefreshRun, ViewTyped
  <2> QED  BY <2>1, <2>2
<1>9. CASE View!RefreshPage
  <2>1. PICK j \in Nat : j <= log /\ got' = Shown(j)
    <3>1. refreshAt \in Nat /\ refreshAt <= k /\ got' = View!Newest(got \union View!Page(refreshAt))
      BY <1>1, <1>2, <1>9 DEF View!RefreshPage, ViewTyped, ViewAt, View!Gone
    <3>2. PICK a \in Nat : a = refreshAt
      BY <3>1
    <3>3. log \in Nat /\ a <= k /\ k <= log
      BY <1>2, <3>1, <3>2
    <3>4. PICK j \in Nat : Joins(k, a, j)
      BY <3>3, PageJoins
    <3>5. got' = Shown(j)
      BY <1>2, <3>1, <3>2, <3>4 DEF Joins
    <3> QED  BY <3>4, <3>5 DEF Joins
  <2>2. got' \subseteq 1..MaxLog /\ View!Cursor(got') \in 0..MaxLog
    BY <1>4, <2>1
  <2> QED  BY <1>2, <1>9, <2>2 DEF View!RefreshPage, ViewTyped
<1>10. CASE View!RefreshResults
  BY <1>2, <1>5, <1>10 DEF View!RefreshResults, ViewTyped
<1>11. CASE View!RefreshFails
  BY <1>2, <1>5, <1>11 DEF View!RefreshFails, ViewTyped
<1>12. CASE View!RefreshDropped
  BY <1>2, <1>5, <1>12 DEF View!RefreshDropped, ViewTyped
<1>13. CASE View!Deny
  BY <1>2, <1>13 DEF View!Deny, ViewTyped
<1>14. CASE View!StartDetail
  BY <1>2, <1>3, <1>14 DEF View!StartDetail, ViewTyped
<1>15. CASE View!StartPage
  <2>1. PICK j \in Nat : j <= log /\ got' = Shown(j)
    <3>1. startAt \in Nat /\ startAt <= k /\ got' = View!Newest(got \union View!Page(startAt))
      BY <1>1, <1>2, <1>15 DEF View!StartPage, ViewTyped, ViewAt, View!Gone
    <3>2. PICK a \in Nat : a = startAt
      BY <3>1
    <3>3. log \in Nat /\ a <= k /\ k <= log
      BY <1>2, <3>1, <3>2
    <3>4. PICK j \in Nat : Joins(k, a, j)
      BY <3>3, PageJoins
    <3>5. got' = Shown(j)
      BY <1>2, <3>1, <3>2, <3>4 DEF Joins
    <3> QED  BY <3>4, <3>5 DEF Joins
  <2>2. got' \subseteq 1..MaxLog /\ View!Cursor(got') \in 0..MaxLog
    BY <1>4, <2>1
  <2> QED  BY <1>2, <1>15, <2>2 DEF View!StartPage, View!Opens, View!Streaming, ViewTyped
<1>16. CASE View!StartPageFails
  BY <1>2, <1>3, <1>16 DEF View!StartPageFails, View!Opens, View!Streaming, ViewTyped
<1>17. CASE View!StartDropped
  BY <1>2, <1>17 DEF View!StartDropped, ViewTyped
<1>18. CASE View!Connected \/ View!BodyEnds \/ View!Breaks
  <2>1. stream' \in {"body", "pause"} /\ fails' \in 0..MaxFails
    BY <1>2, <1>18 DEF View!Connected, View!BodyEnds, View!Breaks, ViewTyped
  <2>2. UNCHANGED <<log, closed, last, ending, active, denied, busy, refresh, refreshAt, start,
                    startAt, sent, fetched, got, pending>>
    BY <1>18 DEF View!Connected, View!BodyEnds, View!Breaks
  <2> QED  BY <1>2, <2>1, <2>2 DEF View!Streaming, ViewTyped
<1>19. CASE View!Frame
  <2>1. sent' \in 0..MaxLog /\ sent' \in 1..MaxLog /\ pending' = pending \union {sent'}
    BY <1>2, <1>19 DEF View!Frame, ViewTyped
  <2>2. \/ stream' = "ended" /\ busy' = TRUE /\ refresh' = "run"
        \/ stream' \in {stream, "ended"} /\ UNCHANGED <<busy, refresh>>
    BY <1>19 DEF View!Frame, View!Calls
  <2>3. UNCHANGED <<log, closed, last, ending, active, denied, fails, refreshAt, start, startAt,
                    fetched, got>>
    BY <1>19 DEF View!Frame
  <2>4. busy' \in BOOLEAN /\ (busy' <=> refresh' # "idle")
        /\ refresh' \in {"idle", "run", "page", "results"}
        /\ stream' \in {"none", "ended", "closed"} \union View!Streaming
    <3>1. CASE stream' = "ended" /\ busy' = TRUE /\ refresh' = "run"
      BY <3>1
    <3>2. CASE stream' \in {stream, "ended"} /\ UNCHANGED <<busy, refresh>>
      BY <1>2, <3>2 DEF ViewTyped
    <3> QED  BY <2>2, <3>1, <3>2
  <2> QED  BY <1>2, <2>1, <2>3, <2>4 DEF ViewTyped
<1>20. CASE View!Retry
  BY <1>2, <1>3, <1>20 DEF View!Retry, View!Streaming, ViewTyped
<1>21. CASE View!Publish
  <2>1. got' = Shown(m)
    <3>1. pending \in SUBSET (1..m)
      BY <1>2
    <3> QED  BY <1>2, <1>21, <3>1, Grows DEF View!Publish
  <2>2. got' \subseteq 1..MaxLog
    BY <1>2, <1>4, <2>1
  <2> QED  BY <1>2, <1>21, <2>2 DEF View!Publish, ViewTyped
<1>22. CASE View!Unmount
  BY <1>2, <1>22 DEF View!Unmount, View!Closes, ViewTyped
<1> QED  BY <1>6, <1>7, <1>8, <1>9, <1>10, <1>11, <1>12, <1>13, <1>14, <1>15, <1>16, <1>17, <1>18,
            <1>19, <1>20, <1>21, <1>22 DEF View!Next, View!Refreshing, View!Starting, View!Looping

\* The rest of the invariant, for the numbers that go with the new state.
ViewFlags ==
  /\ refresh \in {"page", "results"} \/ fetched => closed
  /\ View!Gone => stream \notin View!Streaming
  /\ denied => got = {} /\ pending = {}

LEMMA ViewFlagsStep ==
  ASSUME ViewInv, View!Next
  PROVE  ViewFlags'
<1>1. ViewTyped /\ ViewFlags
  BY ViewTypes DEF ViewInv, ViewFlags
<1> USE DEF View!serverVars, View!flagVars, View!refreshVars, View!startVars, View!streamVars,
            View!modelVars, View!Streaming, View!Gone, ViewFlags
<1>2. CASE View!Store \/ View!CloseRun \/ View!Interval
  BY <1>1, <1>2 DEF View!Store, View!CloseRun, View!Interval, View!Calls
<1>3. CASE View!RefreshRun
  BY <1>1, <1>3 DEF View!RefreshRun, View!Closes, View!Settles
<1>4. CASE View!RefreshPage \/ View!RefreshResults
  BY <1>1, <1>4 DEF View!RefreshPage, View!RefreshResults, View!Settles
<1>5. CASE View!RefreshFails \/ View!RefreshDropped
  BY <1>1, <1>5 DEF View!RefreshFails, View!RefreshDropped, View!Settles
<1>6. CASE View!Deny
  BY <1>1, <1>6 DEF View!Deny, ViewTyped
<1>7. CASE View!StartDetail \/ View!StartPage \/ View!StartPageFails \/ View!StartDropped
  BY <1>1, <1>7 DEF View!StartDetail, View!StartPage, View!StartPageFails, View!StartDropped,
                    View!Opens
<1>8. CASE View!Connected \/ View!BodyEnds \/ View!Breaks \/ View!Retry
  BY <1>1, <1>8 DEF View!Connected, View!BodyEnds, View!Breaks, View!Retry
<1>9. CASE View!Frame
  BY <1>1, <1>9 DEF View!Frame, View!Calls
<1>10. CASE View!Publish \/ View!Unmount
  <2>1. CASE View!Publish
    BY <1>1, <2>1 DEF View!Publish
  <2>2. CASE View!Unmount
    BY <1>1, <2>2 DEF View!Unmount, View!Closes
  <2> QED  BY <1>10, <2>1, <2>2
<1> QED  BY <1>2, <1>3, <1>4, <1>5, <1>6, <1>7, <1>8, <1>9, <1>10
            DEF View!Next, View!Refreshing, View!Starting, View!Looping

LEMMA ViewAtStep ==
  ASSUME ViewInv, View!Next
  PROVE  \E k, m \in Nat : ViewAt(k, m)'
<1>1. PICK k \in Nat, m \in Nat : ViewAt(k, m)
  BY DEF ViewInv
<1>2. /\ ViewTyped /\ ViewFlags /\ PageSize \in Nat \ {0} /\ MaxLog \in Nat
      /\ log \in Nat /\ last \in Nat /\ last <= log
      /\ got = Shown(k) /\ pending \subseteq 1..m /\ (k + 1)..m \subseteq pending
      /\ k <= m /\ m <= log /\ k <= log
      /\ View!Cursor(got) = k
  <2>1. ViewTyped /\ ViewFlags /\ PageSize \in Nat \ {0} /\ MaxLog \in Nat
    BY LiveAssumption, ViewTypes DEF ViewInv, ViewFlags
  <2>2. log \in Nat /\ last \in Nat
    BY <2>1 DEF ViewTyped
  <2>3. /\ got = Shown(k) /\ pending \subseteq 1..m /\ (k + 1)..m \subseteq pending
        /\ k <= m /\ m <= log /\ last <= log
    BY <1>1 DEF ViewAt, ViewHas
  <2>4. View!Cursor(got) = k
    BY <2>3, CursorOf
  <2> QED  BY <2>1, <2>2, <2>3, <2>4
<1> USE DEF View!serverVars, View!flagVars, View!refreshVars, View!startVars, View!streamVars,
            View!modelVars, View!Gone
\* Steps that show and receive no events.
<1>3. ASSUME UNCHANGED <<got, pending>>
      PROVE  ViewHas(k, m)'
  BY <1>1, <1>3 DEF ViewAt, ViewHas
<1>4. CASE View!Store \/ View!CloseRun
  <2>1. ViewHas(k, m)'
    BY <1>3, <1>4 DEF View!Store, View!CloseRun
  <2>2. k <= log' /\ m <= log' /\ last' <= log'
    BY <1>2, <1>4 DEF View!Store, View!CloseRun
  <2>3. (refresh = "results" \/ fetched) /\ ~View!Gone => last' <= k
    BY <1>1, <1>2, <1>4 DEF View!Store, View!CloseRun, ViewAt, ViewFlags
  <2>4. ViewAt(k, m)'
    BY <1>1, <1>4, <2>1, <2>2, <2>3 DEF View!Store, View!CloseRun, ViewAt
  <2> QED  BY <2>4
<1>5. CASE \/ View!Interval \/ View!RefreshRun
           \/ View!RefreshResults \/ View!RefreshFails \/ View!RefreshDropped
  <2>1. ViewHas(k, m)'
    BY <1>3, <1>5 DEF View!Interval, View!RefreshRun, View!RefreshResults, View!RefreshFails,
                      View!RefreshDropped
  <2>2. CASE View!Interval \/ View!RefreshRun
    <3>1. ViewAt(k, m)'
      BY <1>1, <1>2, <2>1, <2>2 DEF View!Interval, View!Calls, View!RefreshRun, View!Closes,
                                    View!Settles, View!Streaming, ViewAt
    <3> QED  BY <3>1
  <2>3. CASE View!RefreshResults \/ View!RefreshFails \/ View!RefreshDropped
    <3>1. ViewAt(k, m)'
      BY <1>1, <1>2, <2>1, <2>3 DEF View!RefreshResults, View!RefreshFails, View!RefreshDropped,
                                    View!Settles, ViewAt
    <3> QED  BY <3>1
  <2> QED  BY <1>5, <2>2, <2>3
<1>6. CASE View!Deny
  <2>1. Shown(0) = {}
    BY LiveAssumption DEF Shown, Low
  <2>2. ViewAt(0, 0)'
    BY <1>1, <1>2, <1>6, <2>1 DEF View!Deny, View!Streaming, ViewAt, ViewHas
  <2> QED  BY <2>2
<1>7. CASE View!StartDetail \/ View!StartPageFails \/ View!StartDropped
  <2>1. ViewHas(k, m)'
    BY <1>3, <1>7 DEF View!StartDetail, View!StartPageFails, View!StartDropped
  <2>2. ViewAt(k, m)'
    BY <1>1, <1>2, <1>7, <2>1 DEF View!StartDetail, View!StartPageFails, View!StartDropped,
                                  View!Opens, ViewAt
  <2> QED  BY <2>2
<1>8. CASE View!Connected \/ View!BodyEnds \/ View!Breaks \/ View!Retry \/ View!Unmount
  <2>1. ViewHas(k, m)'
    BY <1>3, <1>8 DEF View!Connected, View!BodyEnds, View!Breaks, View!Retry, View!Unmount
  <2>2. ViewAt(k, m)'
    BY <1>1, <1>2, <1>8, <2>1 DEF View!Connected, View!BodyEnds, View!Breaks, View!Retry,
                                  View!Unmount, View!Closes, View!Streaming, ViewAt
  <2> QED  BY <2>2
\* A batch is published: the first k events become the first m.
<1>9. CASE View!Publish
  <2>1. ViewAt(m, m)'
    <3>1. got' = Shown(m) /\ pending' = {} /\ (m + 1)..m = {}
      <4>1. pending \in SUBSET (1..m)
        BY <1>2
      <4>2. View!Newest(Shown(k) \union pending) = Shown(m)
        BY <1>2, <4>1, Grows
      <4>3. (m + 1)..m = {}
        OBVIOUS
      <4> QED  BY <1>2, <1>9, <4>2, <4>3 DEF View!Publish
    <3>2. UNCHANGED <<log, last, active, denied, refresh, refreshAt, start, startAt, stream, sent, fetched>>
      BY <1>9 DEF View!Publish
    <3>3. startAt \in Nat /\ refreshAt \in Nat
      BY <1>2 DEF ViewTyped
    <3> QED  BY <1>1, <1>2, <3>1, <3>2, <3>3 DEF ViewAt, ViewHas
  <2> QED  BY <2>1
\* A frame is the next event, or one that is there already.
<1>10. CASE View!Frame
  <2>1. sent \in Nat /\ sent <= m /\ sent < log /\ sent' = sent + 1
    BY <1>1, <1>2, <1>10 DEF View!Frame, ViewAt, ViewTyped
  <2>2. got' = got /\ pending' = pending \union {sent + 1}
    BY <1>10 DEF View!Frame
  <2>3. UNCHANGED <<log, closed, last, active, denied, refreshAt, start, startAt, fetched>>
        /\ refresh' \in {refresh, "run"}
    BY <1>10 DEF View!Frame, View!Calls
  <2>4. CASE sent + 1 <= m
    <3>1. pending' \subseteq 1..m /\ (k + 1)..m \subseteq pending'
      BY <1>2, <2>1, <2>2, <2>4
    <3>2. ViewAt(k, m)'
      BY <1>1, <1>2, <2>1, <2>2, <2>3, <2>4, <3>1 DEF ViewAt, ViewHas
    <3> QED  BY <3>2
  <2>5. CASE sent = m
    <3>1. pending' \subseteq 1..(m + 1) /\ (k + 1)..(m + 1) \subseteq pending'
      BY <1>2, <2>2, <2>5
    <3>2. ViewAt(k, m + 1)'
      BY <1>1, <1>2, <2>1, <2>2, <2>3, <2>5, <3>1 DEF ViewAt, ViewHas
    <3> QED  BY <3>2
  <2> QED  BY <1>2, <2>1, <2>4, <2>5
\* A page comes that starts within the first k events.
<1>11. ASSUME NEW a \in Nat, a <= k, ~View!Gone, got' = View!Newest(got \union View!Page(a)),
              UNCHANGED <<log, active, denied, pending, fetched>>
       PROVE  \E j, x \in Nat :
                /\ k <= j /\ m <= x /\ j <= x /\ x <= log
                /\ got' = Shown(j) /\ pending' \subseteq 1..x /\ (j + 1)..x \subseteq pending'
                /\ ~View!HasMore(a) => j = log
                /\ View!Cursor(got') = j
  <2>1. PICK j \in Nat : Joins(k, a, j)
    <3>1. a <= k /\ k <= log /\ log \in Nat
      BY <1>2, <1>11
    <3> QED  BY <3>1, PageJoins
  <2>2. got' = Shown(j) /\ View!Cursor(got') = j
    BY <1>2, <1>11, <2>1, CursorOf DEF Joins
  <2>3. CASE j <= m
    <3>1. pending' \subseteq 1..m /\ (j + 1)..m \subseteq pending'
      BY <1>2, <1>11, <2>1 DEF Joins
    <3> QED  BY <1>2, <2>1, <2>2, <2>3, <3>1 DEF Joins
  <2>4. CASE m < j
    <3>1. pending' \subseteq 1..j /\ (j + 1)..j \subseteq pending'
      BY <1>2, <1>11, <2>4
    <3> QED  BY <1>2, <2>1, <2>2, <2>4, <3>1 DEF Joins
  <2>5. j <= m \/ m < j
    BY <1>2, <2>1
  <2> QED  BY <2>3, <2>4, <2>5
<1>12. CASE View!RefreshPage
  <2>1. PICK a \in Nat : a = refreshAt /\ a <= k
    BY <1>1, <1>2, <1>12 DEF View!RefreshPage, ViewAt, ViewTyped
  <2>2. /\ ~View!Gone /\ got' = View!Newest(got \union View!Page(a)) /\ refresh = "page"
        /\ UNCHANGED <<log, last, active, denied, pending, fetched, start, startAt, stream, sent>>
        /\ IF View!HasMore(a) THEN refreshAt' = View!Cursor(got') /\ UNCHANGED refresh
                              ELSE refresh' = "results"
    BY <1>12, <2>1 DEF View!RefreshPage
  <2>3. PICK j \in Nat, x \in Nat :
          /\ k <= j /\ m <= x /\ j <= x /\ x <= log
          /\ got' = Shown(j) /\ pending' \subseteq 1..x /\ (j + 1)..x \subseteq pending'
          /\ ~View!HasMore(a) => j = log
          /\ View!Cursor(got') = j
    BY <1>11, <2>1, <2>2
  <2>4. ViewAt(j, x)'
    BY <1>1, <1>2, <2>2, <2>3 DEF ViewAt, ViewHas, ViewTyped
  <2> QED  BY <2>4
<1>13. CASE View!StartPage
  <2>1. PICK a \in Nat : a = startAt /\ a <= k
    BY <1>1, <1>2, <1>13 DEF View!StartPage, ViewAt, ViewTyped
  <2>2. /\ ~View!Gone /\ got' = View!Newest(got \union View!Page(a)) /\ start = "page"
        /\ UNCHANGED <<log, last, active, denied, pending, fetched, refresh, refreshAt>>
        /\ \/ View!HasMore(a) /\ startAt' = View!Cursor(got') /\ UNCHANGED <<start, stream, sent>>
           \/ start' = "done" /\ UNCHANGED <<stream, sent>>
           \/ start' = "done" /\ stream' = "connect" /\ sent' = View!Cursor(got')
    BY <1>13, <2>1 DEF View!StartPage, View!Opens
  <2>3. PICK j \in Nat, x \in Nat :
          /\ k <= j /\ m <= x /\ j <= x /\ x <= log
          /\ got' = Shown(j) /\ pending' \subseteq 1..x /\ (j + 1)..x \subseteq pending'
          /\ ~View!HasMore(a) => j = log
          /\ View!Cursor(got') = j
    BY <1>11, <2>1, <2>2
  <2>4. ViewAt(j, x)'
    BY <1>1, <1>2, <2>2, <2>3 DEF ViewAt, ViewHas, ViewTyped
  <2> QED  BY <2>4
<1> QED  BY <1>3, <1>4, <1>5, <1>6, <1>7, <1>8, <1>9, <1>10, <1>12, <1>13
            DEF View!Next, View!Refreshing, View!Starting, View!Looping

LEMMA ViewStep == ViewInv /\ [Next]_vars /\ part = "view" => ViewInv'
<1> SUFFICES ASSUME ViewInv, [Next]_vars, part = "view"
             PROVE  ViewInv'
  OBVIOUS
<1>1. CASE View!Next
  <2>1. View!TypeOK'
    BY <1>1, ViewTypeStep DEF View!TypeOK, ViewTyped
  <2>2. ViewFlags'
    BY <1>1, ViewFlagsStep
  <2>3. PICK k \in Nat, m \in Nat : ViewAt(k, m)'
    BY <1>1, ViewAtStep
  <2> QED  BY <2>1, <2>2, <2>3 DEF ViewInv, ViewFlags
<1>2. CASE UNCHANGED viewVars
  BY <1>2 DEF viewVars, ViewInv, View!TypeOK, View!Gone, View!Streaming, ViewAt, ViewHas
<1>3. View!Next \/ UNCHANGED viewVars
  BY DEF Next, vars, StreamMoves, ViewMoves, ConsoleMoves, JournalMoves, ProvidersMove
<1> QED  BY <1>1, <1>2, <1>3

\* While the Run view is the part that moves, what it shows are the newest of
\* the first k events of the Run for some k, the batch that waits goes on from
\* there, and every request and the stream continue from within those
\* (use-playground-run.ts, run-live.ts).
THEOREM ViewInductive == Spec => [](part = "view" => ViewInv)
<1>1. Init => (part = "view" => ViewInv)
  BY ViewInit DEF Init
<1>2. (part = "view" => ViewInv) /\ [Next]_vars => (part = "view" => ViewInv)'
  <2>1. [Next]_vars => part' = part
    BY DEF Next, vars, StreamMoves, ViewMoves, ConsoleMoves, JournalMoves, ProvidersMove
  <2> QED  BY <2>1, ViewStep
<1> QED  BY <1>1, <1>2, PTL DEF Spec

\* The view shows the newest events up to its cursor with no gap among them,
\* although pages of start(), pages of refresh() and batches of the stream are
\* ingested in any order; once it is final it has been given all there were when
\* the Run became terminal, while the log of a cancelled Run may go on growing;
\* and it shows nothing once its access is lost.  This for every page size, every
\* length of the log and every MAX_EVENTS (use-playground-run.ts, run-live.ts).
THEOREM ViewsAreTrue == Spec => []ViewIsTrue
<1>1. (part = "view" => ViewInv) => ViewIsTrue
  <2> SUFFICES ASSUME ViewInv
               PROVE  View!ViewIsTrue
    BY DEF ViewIsTrue
  <2>1. PICK k \in Nat, m \in Nat : ViewAt(k, m)
    BY DEF ViewInv
  <2>2. got = Shown(k) /\ View!Cursor(got) = k /\ View!Newest(1..k) = Shown(k)
    BY <2>1, CursorOf, NewestOfAll DEF ViewAt, ViewHas
  <2>3. last \in Nat
    BY ViewTypes DEF ViewInv, ViewTyped
  <2> QED  BY <2>1, <2>2, <2>3 DEF View!ViewIsTrue, ViewInv, ViewAt
<1> QED  BY <1>1, ViewInductive, PTL

-----------------------------------------------------------------------------
(* The page of an execution: what it shows are the newest events up to its *)
(* cursor, and as long as it shows an ended Run without its output, some   *)
(* request that will show the output is under way, or a failure ended one. *)

Boots == {"run", "served", "page", "done"}
LoadSteps == {"idle", "asked", "served", "result"}
StreamSteps == {"none", "open", "pause", "closed", "ended"}
RunRecord == [log : 0..MaxRunEvents, ended : BOOLEAN, ending : 0..MaxRunEvents]
PageRecord ==
  [boot : Boots, first : BOOLEAN, cursor : Nat, ended : BOOLEAN, shown : {"nothing", "live", "ended"},
   output : BOOLEAN, got : SUBSET (1..MaxRunEvents), stream : StreamSteps,
   cancelling : {"no", "asked", "served", "reads"}, lost : BOOLEAN]
LoadRecord == [at : LoadSteps, ended : BOOLEAN]

ConsoleTyped ==
  /\ rcRun \in RunRecord
  /\ rcPage \in PageRecord /\ rcPage.cursor <= rcRun.log
  /\ rcLoads \in [Loads -> LoadRecord]
  /\ rcTrouble \in [count : Nat, stuck : BOOLEAN]

ConsoleAt == ~rcPage.lost => rcPage.got = Shown(rcPage.cursor)

\* boot() is about to load the ended Run once more.
BootLoads == rcPage.boot = "page" /\ rcPage.first
Asking == \E l \in Loads : rcLoads[l] # Console!Free

ConsoleShows ==
  /\ rcPage.ended /\ ~rcPage.lost => rcPage.shown = "ended"
  /\ rcPage.ended /\ ~rcPage.lost /\ ~rcTrouble.stuck /\ ~BootLoads => rcPage.output \/ Asking

ConsoleInv == ConsoleTyped /\ ConsoleShows /\ ConsoleAt

LEMMA ConsoleInit == Console!ConsoleInit => ConsoleInv
<1> SUFFICES ASSUME Console!ConsoleInit
             PROVE  ConsoleInv
  OBVIOUS
<1>0. MaxRunEvents \in Nat
  BY LiveAssumption
<1>1. ConsoleTyped
  BY <1>0 DEF Console!ConsoleInit, ConsoleTyped, PageRecord, RunRecord, LoadRecord, Boots, LoadSteps,
              StreamSteps, Console!Free
<1>2. ConsoleShows
  BY DEF Console!ConsoleInit, ConsoleShows
<1>3. ConsoleAt
  <2>1. Shown(0) = {}
    BY LiveAssumption DEF Shown, Low
  <2> QED  BY <2>1 DEF Console!ConsoleInit, ConsoleAt
<1> QED  BY <1>1, <1>2, <1>3 DEF ConsoleInv

LEMMA ConsoleTypeStep ==
  ASSUME ConsoleInv, Console!ConsoleNext
  PROVE  ConsoleTyped'
<1>1. /\ rcRun \in RunRecord /\ rcPage \in PageRecord
      /\ rcLoads \in [Loads -> LoadRecord]
      /\ rcTrouble \in [count : Nat, stuck : BOOLEAN]
      /\ MaxRunEvents \in Nat /\ EventPage \in Nat \ {0}
  BY LiveAssumption DEF ConsoleInv, ConsoleTyped
<1>2. PICK n \in 0..MaxRunEvents, c \in Nat, e \in BOOLEAN :
         n = rcRun.log /\ c = rcPage.cursor /\ e = rcRun.ended /\ c <= n
  BY <1>1 DEF ConsoleInv, ConsoleTyped, RunRecord, PageRecord
<1>3. \A S \in SUBSET (1..MaxRunEvents) : Console!Newest(S) \in SUBSET (1..MaxRunEvents)
  BY DEF Console!Newest
<1>4. ASSUME NEW l \in Loads, Console!Calls(l)
      PROVE  rcLoads' \in [Loads -> LoadRecord]
  BY <1>1, <1>4 DEF Console!Calls, LoadRecord, LoadSteps
<1>5. Console!Free \in LoadRecord
  BY DEF Console!Free, LoadSteps, LoadRecord
<1>6. ASSUME NEW x \in BOOLEAN
      PROVE  Console!ShowsRun(x) \in PageRecord /\ Console!ShowsRun(x).cursor = c
  BY <1>1, <1>2 DEF Console!ShowsRun, PageRecord
<1>7. ASSUME NEW s \in StreamSteps
      PROVE  Console!Closed(s) \in StreamSteps
  BY <1>7 DEF Console!Closed, StreamSteps
<1>8. Console!loseAccess(rcPage) \in PageRecord /\ Console!loseAccess(rcPage).cursor = c
  <2>1. Console!Closed(rcPage.stream) \in StreamSteps
    BY <1>1, <1>7 DEF PageRecord
  <2> QED  BY <1>1, <1>2, <2>1 DEF Console!loseAccess, PageRecord
<1>9. Console!Denies => rcTrouble' \in [count : Nat, stuck : BOOLEAN] /\ rcRun' = rcRun
  BY <1>1 DEF Console!Denies
\* Events that come after the cursor, up to j.
<1>10. ASSUME NEW j \in Nat, c <= j, j <= n, NEW P, P \subseteq 1..n
       PROVE  [rcPage EXCEPT !.got = Console!Newest(@ \cup P), !.cursor = j] \in PageRecord
  <2>1. rcPage.got \cup P \in SUBSET (1..MaxRunEvents)
    <3>1. n \in Nat /\ n <= MaxRunEvents
      BY <1>1, <1>2
    <3>2. P \subseteq 1..MaxRunEvents
      BY <1>1, <1>10, <3>1
    <3>3. rcPage.got \subseteq 1..MaxRunEvents
      BY <1>1 DEF PageRecord
    <3> QED  BY <3>2, <3>3
  <2>2. Console!Newest(rcPage.got \cup P) \in SUBSET (1..MaxRunEvents)
    BY <1>3, <2>1
  <2> QED  BY <1>1, <2>2 DEF PageRecord
<1>11. CASE Console!Stores
  <2>1. n + 1 \in 0..MaxRunEvents /\ rcRun.ending \in 0..MaxRunEvents /\ c <= n + 1
    BY <1>1, <1>2, <1>11 DEF Console!Stores, RunRecord
  <2>2. PICK f \in 0..MaxRunEvents : rcRun' = [rcRun EXCEPT !.log = n + 1, !.ending = f]
    <3>1. PICK b \in BOOLEAN :
            rcRun' = [rcRun EXCEPT !.log = n + 1,
                                   !.ending = IF rcRun.ending = 0 /\ b THEN n + 1 ELSE rcRun.ending]
      BY <1>1, <1>2, <1>11 DEF Console!Stores, RunRecord
    <3> QED  BY <2>1, <3>1
  <2>3. rcRun' \in RunRecord /\ rcRun'.log = n + 1
    BY <1>1, <2>1, <2>2 DEF RunRecord
  <2>4. UNCHANGED <<rcPage, rcLoads, rcTrouble>>
    BY <1>11 DEF Console!Stores
  <2> QED  BY <1>1, <1>2, <2>1, <2>3, <2>4 DEF ConsoleTyped
<1>12. CASE Console!Ends
  <2>1. rcRun' \in RunRecord /\ rcRun'.log = n
    BY <1>1, <1>2, <1>12 DEF Console!Ends, RunRecord
  <2> QED  BY <1>1, <1>2, <1>12, <2>1 DEF Console!Ends, ConsoleTyped
<1>13. CASE Console!BootServed
  <2>1. rcPage' = [rcPage EXCEPT !.boot = "served", !.first = e]
    BY <1>2, <1>13 DEF Console!BootServed
  <2>2. rcPage' \in PageRecord /\ rcPage'.cursor = c
    BY <1>1, <1>2, <2>1 DEF PageRecord, Boots
  <2> QED  BY <1>1, <1>2, <1>13, <2>2 DEF Console!BootServed, ConsoleTyped
<1>14. CASE Console!BootShows
  <2>1. rcPage.first \in BOOLEAN
    BY <1>1 DEF PageRecord
  <2>2. Console!ShowsRun(rcPage.first) \in PageRecord /\ Console!ShowsRun(rcPage.first).cursor = c
    BY <1>6, <2>1
  <2>3. rcPage' \in PageRecord /\ rcPage'.cursor = c
    BY <1>14, <2>2 DEF Console!BootShows, PageRecord, Boots
  <2> QED  BY <1>1, <1>2, <1>14, <2>3 DEF Console!BootShows, ConsoleTyped
<1>15. CASE Console!BootPages
  <2>1. c + EventPage \in Nat /\ c <= c + EventPage /\ c + EventPage <= n
    BY <1>1, <1>2, <1>15 DEF Console!BootPages
  <2>2. Console!Events(c) \subseteq 1..n
    BY <1>2 DEF Console!Events
  <2>3. rcPage' = [rcPage EXCEPT !.got = Console!Newest(@ \cup Console!Events(c)),
                                 !.cursor = c + EventPage]
    BY <1>1, <1>2, <1>15 DEF Console!BootPages, PageRecord
  <2>4. rcPage' \in PageRecord
    BY <1>10, <2>1, <2>2, <2>3
  <2>5. rcPage'.cursor = c + EventPage
    BY <1>1, <2>3 DEF PageRecord
  <2> QED  BY <1>1, <1>2, <1>15, <2>1, <2>4, <2>5 DEF Console!BootPages, ConsoleTyped
<1>16. CASE Console!BootFails
  <2>1. rcPage' \in PageRecord /\ rcPage'.cursor = c
    BY <1>1, <1>2, <1>16 DEF Console!BootFails, PageRecord, Boots
  <2>2. PICK b \in BOOLEAN : b = (rcTrouble.stuck \/ rcPage.ended)
    BY <1>1 DEF PageRecord
  <2>3. rcTrouble' \in [count : Nat, stuck : BOOLEAN]
    BY <1>1, <1>16, <2>2 DEF Console!BootFails
  <2> QED  BY <1>1, <1>2, <1>16, <2>1, <2>3 DEF Console!BootFails, ConsoleTyped
<1>17. CASE Console!StreamOpens \/ Console!StreamBreaks \/ Console!BodyEnds
  <2>1. rcPage' \in PageRecord /\ rcPage'.cursor = c
    BY <1>1, <1>2, <1>17 DEF Console!StreamOpens, Console!StreamBreaks, Console!BodyEnds, PageRecord,
                             StreamSteps
  <2>2. rcTrouble' \in [count : Nat, stuck : BOOLEAN] /\ rcRun' = rcRun /\ rcLoads' = rcLoads
    BY <1>1, <1>17 DEF Console!StreamOpens, Console!StreamBreaks, Console!BodyEnds
  <2> QED  BY <1>1, <1>2, <2>1, <2>2 DEF ConsoleTyped
<1>18. CASE Console!BootDenied
  <2>1. rcPage' \in PageRecord /\ rcPage'.cursor = c
    BY <1>8, <1>18 DEF Console!BootDenied, PageRecord, Boots
  <2> QED  BY <1>1, <1>2, <1>9, <1>18, <2>1 DEF Console!BootDenied, ConsoleTyped
<1>19. CASE Console!StreamDenied
  BY <1>1, <1>2, <1>8, <1>9, <1>19 DEF Console!StreamDenied, ConsoleTyped
<1>20. CASE Console!cancel \/ Console!Cancelled
  <2>1. rcPage' \in PageRecord /\ rcPage'.cursor = c
    BY <1>1, <1>2, <1>20 DEF Console!cancel, Console!Cancelled, PageRecord
  <2> QED  BY <1>1, <1>2, <1>20, <2>1 DEF Console!cancel, Console!Cancelled, ConsoleTyped
<1>21. CASE Console!CancelServed
  <2>1. rcPage' \in PageRecord /\ rcPage'.cursor = c
    BY <1>1, <1>2, <1>21 DEF Console!CancelServed, PageRecord
  <2>2. PICK b \in BOOLEAN : rcRun' = [rcRun EXCEPT !.ended = b]
    <3>1. PICK d \in BOOLEAN : rcRun' = [rcRun EXCEPT !.ended = @ \/ d]
      BY <1>21 DEF Console!CancelServed
    <3>2. rcRun' = [rcRun EXCEPT !.ended = e \/ d]
      BY <1>1, <1>2, <3>1 DEF RunRecord
    <3>3. PICK b \in BOOLEAN : b = (e \/ d)
      OBVIOUS
    <3> QED  BY <3>2, <3>3
  <2>3. rcRun' \in RunRecord /\ rcRun'.log = n
    BY <1>1, <1>2, <2>2 DEF RunRecord
  <2> QED  BY <1>1, <1>2, <1>21, <2>1, <2>3 DEF Console!CancelServed, ConsoleTyped
<1>22. ASSUME NEW l \in Loads, Console!BootEnds(l)
       PROVE  ConsoleTyped'
  <2>1. rcLoads' \in [Loads -> LoadRecord]
    BY <1>1, <1>4, <1>22 DEF Console!BootEnds
  <2>2. Console!Events(c) \subseteq 1..n
    BY <1>2 DEF Console!Events
  <2>3. [rcPage EXCEPT !.got = Console!Newest(@ \cup Console!Events(c)), !.cursor = n] \in PageRecord
    <3>1. n \in Nat /\ c <= n /\ n <= n
      BY <1>1, <1>2
    <3> QED  BY <1>10, <2>2, <3>1
  <2>4. PICK s \in StreamSteps : s = IF rcPage.first THEN rcPage.stream ELSE "pause"
    BY <1>1 DEF PageRecord, StreamSteps
  <2>5. rcPage' = [[rcPage EXCEPT !.got = Console!Newest(@ \cup Console!Events(c)), !.cursor = n]
                     EXCEPT !.boot = "done", !.stream = s]
    BY <1>1, <1>2, <1>22, <2>4 DEF Console!BootEnds, PageRecord
  <2>6. rcPage' \in PageRecord /\ rcPage'.cursor = n
    BY <1>1, <2>3, <2>5 DEF PageRecord, Boots
  <2> QED  BY <1>1, <1>2, <1>22, <2>1, <2>6 DEF Console!BootEnds, ConsoleTyped
<1>23. ASSUME NEW l \in Loads, Console!onEvent(l)
       PROVE  ConsoleTyped'
  <2>1. rcLoads' \in [Loads -> LoadRecord]
    BY <1>1, <1>4, <1>23 DEF Console!onEvent
  <2>2. c + 1 \in Nat /\ c <= c + 1 /\ c + 1 <= n /\ {c + 1} \subseteq 1..n
    BY <1>1, <1>2, <1>23 DEF Console!onEvent
  <2>3. [rcPage EXCEPT !.got = Console!Newest(@ \cup {c + 1}), !.cursor = c + 1] \in PageRecord
    BY <1>10, <2>2
  <2>4. PICK s \in StreamSteps : s = IF c + 1 = rcRun.ending THEN "ended" ELSE rcPage.stream
    BY <1>1 DEF PageRecord, StreamSteps
  <2>5. rcPage' = [[rcPage EXCEPT !.got = Console!Newest(@ \cup {c + 1}), !.cursor = c + 1]
                     EXCEPT !.stream = s]
    BY <1>1, <1>2, <1>23, <2>4 DEF Console!onEvent, PageRecord
  <2>6. rcPage' \in PageRecord /\ rcPage'.cursor = c + 1
    BY <1>1, <2>3, <2>5 DEF PageRecord
  <2> QED  BY <1>1, <1>2, <1>23, <2>1, <2>2, <2>6 DEF Console!onEvent, ConsoleTyped
<1>24. ASSUME NEW l \in Loads, Console!CancelAnswered(l) \/ Console!Tick(l)
       PROVE  ConsoleTyped'
  <2>1. rcLoads' \in [Loads -> LoadRecord]
    BY <1>4, <1>24 DEF Console!CancelAnswered, Console!Tick
  <2>2. rcPage' \in PageRecord /\ rcPage'.cursor = c
    BY <1>1, <1>2, <1>24 DEF Console!CancelAnswered, Console!Tick, PageRecord
  <2> QED  BY <1>1, <1>2, <1>24, <2>1, <2>2 DEF Console!CancelAnswered, Console!Tick, ConsoleTyped
<1>25. ASSUME NEW l \in Loads, Console!LoadServed(l)
       PROVE  ConsoleTyped'
  <2>1. [at |-> "served", ended |-> e] \in LoadRecord
    BY DEF LoadRecord, LoadSteps
  <2>2. rcLoads' \in [Loads -> LoadRecord]
    BY <1>1, <1>2, <1>25, <2>1 DEF Console!LoadServed
  <2> QED  BY <1>1, <1>2, <1>25, <2>2 DEF Console!LoadServed, ConsoleTyped
<1>26. ASSUME NEW l \in Loads, Console!LoadShows(l)
       PROVE  ConsoleTyped'
  <2>1. PICK b \in BOOLEAN : b = rcLoads[l].ended
    BY <1>1 DEF LoadRecord
  <2>2. rcLoads' \in [Loads -> LoadRecord]
    <3>1. [rcLoads[l] EXCEPT !.at = "result"] \in LoadRecord
      BY <1>1 DEF LoadRecord, LoadSteps
    <3> QED  BY <1>1, <1>5, <1>26, <3>1 DEF Console!LoadShows
  <2>3. Console!ShowsRun(b) \in PageRecord /\ Console!ShowsRun(b).cursor = c
    BY <1>6
  <2>4. PICK s \in StreamSteps :
           s = IF b THEN Console!Closed(Console!ShowsRun(b).stream) ELSE Console!ShowsRun(b).stream
    BY <1>7, <2>3 DEF PageRecord
  <2>5. rcPage' = [Console!ShowsRun(b) EXCEPT !.stream = s]
    BY <1>26, <2>1, <2>3, <2>4 DEF Console!LoadShows, PageRecord
  <2>6. rcPage' \in PageRecord /\ rcPage'.cursor = c
    BY <2>3, <2>5 DEF PageRecord
  <2> QED  BY <1>1, <1>2, <1>26, <2>2, <2>6 DEF Console!LoadShows, ConsoleTyped
<1>27. ASSUME NEW l \in Loads, Console!ResultShows(l)
       PROVE  ConsoleTyped'
  <2>1. rcLoads' \in [Loads -> LoadRecord]
    BY <1>1, <1>5, <1>27 DEF Console!ResultShows
  <2>2. rcPage' \in PageRecord /\ rcPage'.cursor = c
    BY <1>1, <1>2, <1>27 DEF Console!ResultShows, PageRecord
  <2> QED  BY <1>1, <1>2, <1>27, <2>1, <2>2 DEF Console!ResultShows, ConsoleTyped
<1>28. ASSUME NEW l \in Loads, Console!LoadFails(l)
       PROVE  ConsoleTyped'
  <2>1. rcLoads' \in [Loads -> LoadRecord]
    BY <1>1, <1>5, <1>28 DEF Console!LoadFails
  <2>2. PICK b \in BOOLEAN : b = (rcTrouble.stuck \/ rcPage.ended)
    BY <1>1 DEF PageRecord
  <2>3. rcTrouble' \in [count : Nat, stuck : BOOLEAN]
    BY <1>1, <1>28, <2>2 DEF Console!LoadFails
  <2> QED  BY <1>1, <1>2, <1>28, <2>1, <2>3 DEF Console!LoadFails, ConsoleTyped
<1>29. ASSUME NEW l \in Loads, Console!LoadDenied(l)
       PROVE  ConsoleTyped'
  <2>1. rcLoads' \in [Loads -> LoadRecord]
    BY <1>1, <1>5, <1>29 DEF Console!LoadDenied
  <2> QED  BY <1>1, <1>2, <1>8, <1>9, <1>29, <2>1 DEF Console!LoadDenied, ConsoleTyped
<1> QED  BY <1>11, <1>12, <1>13, <1>14, <1>15, <1>16, <1>17, <1>18, <1>19, <1>20, <1>21, <1>22, <1>23,
            <1>24, <1>25, <1>26, <1>27, <1>28, <1>29 DEF Console!ConsoleNext

LEMMA ConsoleAtStep ==
  ASSUME ConsoleInv, Console!ConsoleNext
  PROVE  ConsoleAt'
<1>1. /\ rcPage \in PageRecord /\ rcRun \in RunRecord /\ EventPage \in Nat \ {0}
      /\ rcRun.log \in Nat /\ rcPage.cursor \in Nat /\ rcPage.cursor <= rcRun.log
  BY LiveAssumption DEF ConsoleInv, ConsoleTyped, PageRecord, RunRecord
<1>2. PICK c \in Nat, n \in Nat : c = rcPage.cursor /\ n = rcRun.log /\ c <= n
  BY <1>1
<1> SUFFICES ASSUME ~rcPage'.lost
             PROVE  rcPage'.got = Shown(rcPage'.cursor)
  BY DEF ConsoleAt
<1>3. ~rcPage.lost => rcPage.got = Shown(c)
  BY <1>2 DEF ConsoleInv, ConsoleAt
\* Steps that show no events.
<1>4. ASSUME rcPage'.got = rcPage.got, rcPage'.cursor = rcPage.cursor, rcPage'.lost = rcPage.lost
      PROVE  rcPage'.got = Shown(rcPage'.cursor)
  BY <1>2, <1>3, <1>4
<1>5. CASE Console!Stores \/ Console!Ends
  BY <1>4, <1>5 DEF Console!Stores, Console!Ends
<1>6. CASE Console!BootServed \/ Console!BootShows \/ Console!BootFails \/ Console!StreamOpens
           \/ Console!StreamBreaks \/ Console!BodyEnds \/ Console!cancel \/ Console!CancelServed
           \/ Console!Cancelled
  BY <1>1, <1>4, <1>6 DEF Console!BootServed, Console!BootShows, Console!BootFails,
         Console!StreamOpens, Console!StreamBreaks, Console!BodyEnds, Console!cancel,
         Console!CancelServed, Console!Cancelled, Console!ShowsRun, PageRecord
<1>7. ASSUME NEW l \in Loads,
             \/ Console!LoadServed(l) \/ Console!LoadShows(l) \/ Console!ResultShows(l)
             \/ Console!LoadFails(l) \/ Console!Tick(l) \/ Console!CancelAnswered(l)
      PROVE  rcPage'.got = Shown(rcPage'.cursor)
  BY <1>1, <1>4, <1>7 DEF Console!LoadServed, Console!LoadShows, Console!ResultShows,
         Console!LoadFails, Console!Tick, Console!CancelAnswered, Console!ShowsRun, PageRecord
<1>8. ASSUME NEW l \in Loads, Console!BootDenied \/ Console!StreamDenied \/ Console!LoadDenied(l)
      PROVE  FALSE
  <2>1. rcPage'.lost = TRUE
    BY <1>1, <1>8 DEF Console!BootDenied, Console!StreamDenied, Console!LoadDenied,
                      Console!loseAccess, PageRecord
  <2> QED  BY <2>1
<1>9. CASE Console!BootDenied \/ Console!StreamDenied
  <2>1. rcPage'.lost = TRUE
    BY <1>1, <1>9 DEF Console!BootDenied, Console!StreamDenied, Console!loseAccess, PageRecord
  <2> QED  BY <2>1
\* Events after the cursor, up to j.
<1>10. ASSUME NEW j \in Nat, c <= j, NEW P \in SUBSET (1..j), (c + 1)..j \subseteq P,
              rcPage'.lost = rcPage.lost, rcPage'.cursor = j,
              rcPage'.got = Console!Newest(rcPage.got \cup P)
       PROVE  rcPage'.got = Shown(rcPage'.cursor)
  <2>1. View!Newest(Shown(c) \cup P) = Shown(j)
    BY <1>10, Grows
  <2> QED  BY <1>3, <1>10, <2>1, SameNewest
<1>11. CASE Console!BootPages
  <2>1. /\ rcPage'.lost = rcPage.lost /\ rcPage'.cursor = c + EventPage
        /\ rcPage'.got = Console!Newest(rcPage.got \cup Console!Events(c))
        /\ n > c + EventPage
    BY <1>1, <1>2, <1>11 DEF Console!BootPages, PageRecord
  <2>2. /\ Console!Events(c) \in SUBSET (1..(c + EventPage))
        /\ (c + 1)..(c + EventPage) \subseteq Console!Events(c)
        /\ c + EventPage \in Nat /\ c <= c + EventPage
    BY <1>1, <1>2, <2>1 DEF Console!Events
  <2> QED  BY <1>10, <2>1, <2>2
<1>12. ASSUME NEW l \in Loads, Console!BootEnds(l)
       PROVE  rcPage'.got = Shown(rcPage'.cursor)
  <2>1. /\ rcPage'.lost = rcPage.lost /\ rcPage'.cursor = n
        /\ rcPage'.got = Console!Newest(rcPage.got \cup Console!Events(c))
        /\ n <= c + EventPage
    BY <1>1, <1>2, <1>12 DEF Console!BootEnds, PageRecord
  <2>2. Console!Events(c) \in SUBSET (1..n) /\ (c + 1)..n \subseteq Console!Events(c)
    BY <1>1, <1>2, <2>1 DEF Console!Events
  <2> QED  BY <1>2, <1>10, <2>1, <2>2
<1>13. ASSUME NEW l \in Loads, Console!onEvent(l)
       PROVE  rcPage'.got = Shown(rcPage'.cursor)
  <2>1. /\ rcPage'.lost = rcPage.lost /\ rcPage'.cursor = c + 1
        /\ rcPage'.got = Console!Newest(rcPage.got \cup {c + 1})
    BY <1>1, <1>2, <1>13 DEF Console!onEvent, PageRecord
  <2>2. {c + 1} \in SUBSET (1..(c + 1)) /\ (c + 1)..(c + 1) \subseteq {c + 1} /\ c <= c + 1
        /\ c + 1 \in Nat
    OBVIOUS
  <2> QED  BY <1>10, <2>1, <2>2
<1> QED  BY <1>5, <1>6, <1>7, <1>8, <1>9, <1>11, <1>12, <1>13 DEF Console!ConsoleNext

LEMMA ConsoleShowsStep ==
  ASSUME ConsoleInv, Console!ConsoleNext
  PROVE  ConsoleShows'
<1>1. /\ rcPage \in PageRecord /\ rcLoads \in [Loads -> LoadRecord]
      /\ rcTrouble \in [count : Nat, stuck : BOOLEAN]
      /\ ConsoleShows
  BY DEF ConsoleInv, ConsoleTyped
<1>2. /\ rcPage.ended \in BOOLEAN /\ rcPage.first \in BOOLEAN /\ rcPage.output \in BOOLEAN
      /\ rcPage.lost \in BOOLEAN /\ rcTrouble.stuck \in BOOLEAN
  BY <1>1 DEF PageRecord
\* What a step may leave as it is, apart from what other properties need.
<1>3. ASSUME rcPage'.ended = rcPage.ended, rcPage'.shown = rcPage.shown,
             rcPage'.output = rcPage.output, rcPage'.lost = rcPage.lost,
             rcPage'.boot = rcPage.boot, rcPage'.first = rcPage.first,
             rcTrouble'.stuck = rcTrouble.stuck, Asking => Asking'
      PROVE  ConsoleShows'
  BY <1>1, <1>3 DEF ConsoleShows, BootLoads
<1>4. ASSUME NEW l \in Loads, Console!Calls(l)
      PROVE  Asking'
  <2>1. rcLoads'[l] = [rcLoads[l] EXCEPT !.at = "asked"]
    BY <1>1, <1>4 DEF Console!Calls
  <2>2. rcLoads'[l].at = "asked"
    BY <1>1, <2>1 DEF LoadRecord
  <2> QED  BY <2>2 DEF Asking, Console!Free
<1>5. CASE Console!Stores \/ Console!Ends
  BY <1>3, <1>5 DEF Console!Stores, Console!Ends, Asking
<1>6. CASE Console!StreamOpens \/ Console!StreamBreaks \/ Console!BodyEnds \/ Console!BootPages
           \/ Console!cancel \/ Console!CancelServed \/ Console!Cancelled
  <2>1. /\ rcPage'.ended = rcPage.ended /\ rcPage'.shown = rcPage.shown
        /\ rcPage'.output = rcPage.output /\ rcPage'.lost = rcPage.lost
        /\ rcPage'.boot = rcPage.boot /\ rcPage'.first = rcPage.first
    BY <1>1, <1>6 DEF Console!StreamOpens, Console!StreamBreaks, Console!BodyEnds, Console!BootPages,
                      Console!cancel, Console!CancelServed, Console!Cancelled, PageRecord
  <2>2. rcTrouble'.stuck = rcTrouble.stuck /\ rcLoads' = rcLoads
    BY <1>1, <1>6 DEF Console!StreamOpens, Console!StreamBreaks, Console!BodyEnds, Console!BootPages,
                      Console!cancel, Console!CancelServed, Console!Cancelled
  <2> QED  BY <1>3, <2>1, <2>2 DEF Asking
<1>7. CASE Console!BootServed
  <2>1. /\ rcPage.boot = "run" /\ rcPage'.boot = "served"
        /\ rcPage'.ended = rcPage.ended /\ rcPage'.shown = rcPage.shown
        /\ rcPage'.output = rcPage.output /\ rcPage'.lost = rcPage.lost
        /\ rcTrouble' = rcTrouble /\ rcLoads' = rcLoads
    BY <1>1, <1>7 DEF Console!BootServed, PageRecord
  <2> QED  BY <1>1, <2>1 DEF ConsoleShows, BootLoads, Asking
<1>8. CASE Console!BootShows
  <2>1. /\ rcPage'.boot = "page" /\ rcPage'.first = rcPage.first /\ rcPage'.ended = rcPage.first
        /\ rcPage'.shown = IF rcPage.first THEN "ended" ELSE "live"
    BY <1>1, <1>8 DEF Console!BootShows, Console!ShowsRun, PageRecord
  <2> QED  BY <1>2, <2>1 DEF ConsoleShows, BootLoads
<1>9. CASE Console!BootFails
  <2>1. /\ rcPage'.ended = rcPage.ended /\ rcPage'.shown = rcPage.shown
        /\ rcPage'.lost = rcPage.lost
        /\ rcTrouble'.stuck = (rcTrouble.stuck \/ rcPage.ended)
    BY <1>1, <1>9 DEF Console!BootFails, PageRecord
  <2> QED  BY <1>1, <1>2, <2>1 DEF ConsoleShows
<1>10. CASE Console!BootDenied \/ Console!StreamDenied \/ \E l \in Loads : Console!LoadDenied(l)
  <2>1. rcPage'.lost = TRUE
    BY <1>1, <1>10 DEF Console!BootDenied, Console!StreamDenied, Console!LoadDenied,
                       Console!loseAccess, PageRecord
  <2> QED  BY <2>1 DEF ConsoleShows
<1>11. ASSUME NEW l \in Loads, Console!BootEnds(l)
       PROVE  ConsoleShows'
  <2>1. /\ rcPage'.ended = rcPage.ended /\ rcPage'.shown = rcPage.shown
        /\ rcPage'.output = rcPage.output /\ rcPage'.lost = rcPage.lost
        /\ rcTrouble' = rcTrouble /\ rcPage.boot = "page"
    BY <1>1, <1>11 DEF Console!BootEnds, PageRecord
  <2>2. CASE rcPage.first
    <3>1. Asking'
      BY <1>4, <1>11, <2>2 DEF Console!BootEnds
    <3> QED  BY <1>1, <2>1, <3>1 DEF ConsoleShows
  <2>3. CASE ~rcPage.first
    <3>1. rcLoads' = rcLoads
      BY <1>11, <2>3 DEF Console!BootEnds
    <3> QED  BY <1>1, <2>1, <2>3, <3>1 DEF ConsoleShows, BootLoads, Asking
  <2> QED  BY <2>2, <2>3
<1>12. ASSUME NEW l \in Loads, Console!LoadServed(l)
       PROVE  ConsoleShows'
  <2>1. rcLoads'[l].at = "served" /\ rcPage' = rcPage /\ rcTrouble' = rcTrouble
    BY <1>1, <1>12 DEF Console!LoadServed, LoadRecord
  <2>2. Asking'
    BY <2>1 DEF Asking, Console!Free
  <2> QED  BY <1>3, <2>1, <2>2
<1>13. ASSUME NEW l \in Loads, Console!LoadShows(l)
       PROVE  ConsoleShows'
  <2>1. /\ rcPage'.ended = rcLoads[l].ended
        /\ rcPage'.shown = IF rcLoads[l].ended THEN "ended" ELSE "live"
        /\ rcLoads[l].ended \in BOOLEAN
    BY <1>1, <1>13 DEF Console!LoadShows, Console!ShowsRun, PageRecord, LoadRecord
  <2>2. CASE rcLoads[l].ended
    <3>1. rcLoads'[l].at = "result"
      BY <1>1, <1>13, <2>2 DEF Console!LoadShows, LoadRecord
    <3>2. Asking'
      BY <3>1 DEF Asking, Console!Free
    <3> QED  BY <2>1, <2>2, <3>2 DEF ConsoleShows
  <2>3. CASE ~rcLoads[l].ended
    BY <2>1, <2>3 DEF ConsoleShows
  <2> QED  BY <2>2, <2>3
<1>14. ASSUME NEW l \in Loads, Console!ResultShows(l)
       PROVE  ConsoleShows'
  <2>1. rcPage'.ended = rcPage.ended /\ rcPage'.lost = rcPage.lost
    BY <1>1, <1>14 DEF Console!ResultShows, PageRecord
  <2>2. CASE rcPage.shown = "nothing"
    BY <1>1, <2>1, <2>2 DEF ConsoleShows
  <2>3. CASE rcPage.shown # "nothing"
    <3>1. rcPage'.output = TRUE /\ rcPage'.shown = rcPage.shown
      BY <1>1, <1>14, <2>3 DEF Console!ResultShows, PageRecord
    <3> QED  BY <1>1, <2>1, <3>1 DEF ConsoleShows
  <2> QED  BY <2>2, <2>3
<1>15. ASSUME NEW l \in Loads, Console!LoadFails(l)
       PROVE  ConsoleShows'
  <2>1. rcPage' = rcPage /\ rcTrouble'.stuck = (rcTrouble.stuck \/ rcPage.ended)
    BY <1>1, <1>15 DEF Console!LoadFails
  <2> QED  BY <1>1, <1>2, <2>1 DEF ConsoleShows
<1>16. ASSUME NEW l \in Loads,
              \/ Console!Tick(l) \/ Console!CancelAnswered(l) \/ Console!onEvent(l)
       PROVE  ConsoleShows'
  <2>1. (Asking => Asking') /\ rcTrouble' = rcTrouble
    <3>1. Console!Calls(l) \/ rcLoads' = rcLoads
      BY <1>16 DEF Console!Tick, Console!CancelAnswered, Console!onEvent
    <3>2. Asking => Asking'
      BY <1>4, <3>1 DEF Asking
    <3> QED  BY <1>16, <3>2 DEF Console!Tick, Console!CancelAnswered, Console!onEvent
  <2>2. /\ rcPage'.ended = rcPage.ended /\ rcPage'.shown = rcPage.shown
        /\ rcPage'.output = rcPage.output /\ rcPage'.lost = rcPage.lost
        /\ rcPage'.boot = rcPage.boot /\ rcPage'.first = rcPage.first
    BY <1>1, <1>16 DEF Console!Tick, Console!CancelAnswered, Console!onEvent, PageRecord
  <2> QED  BY <1>3, <2>1, <2>2
<1> QED  BY <1>5, <1>6, <1>7, <1>8, <1>9, <1>10, <1>11, <1>12, <1>13, <1>14, <1>15, <1>16
            DEF Console!ConsoleNext

LEMMA ConsoleStep == ConsoleInv /\ [Next]_vars /\ part = "console" => ConsoleInv'
<1> SUFFICES ASSUME ConsoleInv, [Next]_vars, part = "console"
             PROVE  ConsoleInv'
  OBVIOUS
<1>1. CASE Console!ConsoleNext
  BY <1>1, ConsoleAtStep, ConsoleTypeStep, ConsoleShowsStep DEF ConsoleInv
<1>2. CASE UNCHANGED consoleVars
  BY <1>2 DEF consoleVars, ConsoleInv, ConsoleTyped, ConsoleShows, BootLoads, Asking, ConsoleAt
<1>3. Console!ConsoleNext \/ UNCHANGED consoleVars
  BY DEF Next, vars, StreamMoves, ViewMoves, ConsoleMoves, JournalMoves, ProvidersMove
<1> QED  BY <1>1, <1>2, <1>3

\* While the execution page is the part that moves and has its access, what it
\* shows are the newest events up to its cursor, and an ended Run shown without
\* its output has a request on its way or a failure on record (run-detail.tsx).
THEOREM ConsoleInductive == Spec => [](part = "console" => ConsoleInv)
<1>1. Init => (part = "console" => ConsoleInv)
  BY ConsoleInit DEF Init
<1>2. (part = "console" => ConsoleInv) /\ [Next]_vars => (part = "console" => ConsoleInv)'
  <2>1. [Next]_vars => part' = part
    BY DEF Next, vars, StreamMoves, ViewMoves, ConsoleMoves, JournalMoves, ProvidersMove
  <2> QED  BY <2>1, ConsoleStep
<1> QED  BY <1>1, <1>2, PTL DEF Spec

\* A page that has its access shows the newest events up to its cursor with no
\* gap among them, and when it has given up asking it shows the finished Run with
\* its output, however many requests overlap, in whatever order they are answered
\* and whatever MAX_EVENTS is; except after a failed request that nothing repeats
\* (run-detail.tsx loadState, loseAccess; run-live.ts reduceLive).
THEOREM ConsolesSettle == Spec => []ConsoleSettles
<1>1. (part = "console" => ConsoleInv) => ConsoleSettles
  <2> SUFFICES ASSUME ConsoleInv
               PROVE  Console!ConsoleSettles
    BY DEF ConsoleSettles
  <2>1. rcPage.cursor \in Nat /\ rcPage.output \in BOOLEAN
    BY DEF ConsoleInv, ConsoleTyped, PageRecord
  <2>2. ~rcPage.lost => rcPage.got = Console!Newest(1..rcPage.cursor)
    BY <2>1, NewestOfAll, SameNewest DEF ConsoleInv, ConsoleAt
  <2> QED  BY <2>1, <2>2 DEF Console!ConsoleSettles, ConsoleInv, ConsoleShows, BootLoads, Asking
<1> QED  BY <1>1, ConsoleInductive, PTL

-----------------------------------------------------------------------------
(* Induction over the natural numbers, by their least elements.            *)

Below == {p \in Nat \X Nat : p[1] < p[2]}

LEMMA BelowIsWellFounded == IsWellFoundedOn(Below, Nat)
BY NatLessThanWellFounded DEF OpToRel, Below

LEMMA Least ==
  ASSUME NEW S \in SUBSET Nat, S # {}
  PROVE  \E n \in S : \A m \in S : n <= m
<1>1. PICK x \in S : \A y \in S : ~(<<y, x>> \in Below)
  BY BelowIsWellFounded, WFMin
<1>2. ASSUME NEW m \in S
      PROVE  x <= m
  <2>1. x \in Nat /\ m \in Nat
    OBVIOUS
  <2>2. ~(m < x)
    BY <1>1, <2>1 DEF Below
  <2> QED  BY <2>1, <2>2
<1> QED  BY <1>2

LEMMA Induct ==
  ASSUME NEW S \in SUBSET Nat, 0 \in S, \A n \in S : n + 1 \in S
  PROVE  S = Nat
<1> SUFFICES ASSUME S # Nat PROVE FALSE
  OBVIOUS
<1>1. PICK n \in Nat \ S : \A m \in Nat \ S : n <= m
  BY Least
<1>2. n - 1 \in Nat /\ ~(n <= n - 1) /\ (n - 1) + 1 = n
  OBVIOUS
<1>3. n - 1 \in S
  BY <1>1, <1>2
<1> QED  BY <1>2, <1>3

\* Every set of positions has a last one.
LEMMA LastPosition ==
  ASSUME NEW n \in Nat, NEW S \in SUBSET (1..n), S # {}
  PROVE  Journal!Max(S) \in S /\ \A y \in S : y <= Journal!Max(S)
<1> DEFINE T == {n - x : x \in S}
<1>1. \A x \in S : x \in Int /\ n - x \in Nat
  OBVIOUS
<1>2. PICK t \in T : \A u \in T : t <= u
  <2>1. T \in SUBSET Nat /\ T # {}
    BY <1>1
  <2> HIDE DEF T
  <2> QED  BY <2>1, Least
<1>3. PICK x \in S : t = n - x
  BY <1>2
<1>4. \A y \in S : x >= y
  <2> TAKE y \in S
  <2>1. n - x <= n - y
    BY <1>2, <1>3
  <2> QED  BY <1>1, <2>1
<1>5. Journal!Max(S) \in S /\ \A y \in S : Journal!Max(S) >= y
  BY <1>3, <1>4 DEF Journal!Max
<1> QED  BY <1>1, <1>5

LEMMA LastOfAll == ASSUME NEW n \in Nat \ {0} PROVE Journal!Max(1..n) = n
<1>1. 1..n \in SUBSET (1..n) /\ n \in 1..n /\ 1..n # {}
  OBVIOUS
<1>2. Journal!Max(1..n) \in 1..n /\ n <= Journal!Max(1..n)
  BY <1>1, LastPosition
<1> QED  BY <1>2

-----------------------------------------------------------------------------
(* The two folds of the journal, one element at a time.                    *)

WaitStep(events, w, i) ==
  IF events[i].type \in Journal!Waits THEN w \union {events[i].key}
  ELSE IF events[i].type \in Journal!Resumes THEN w \ {events[i].key} ELSE w

\* f folds the events at the positions of every subset of 1..n.
WaitFold(events, f, n) ==
  f = [s \in SUBSET (1..n) |->
         IF s = {} THEN {} ELSE WaitStep(events, f[s \ {Journal!Max(s)}], Journal!Max(s))]

LEMMA WaitsAreFolded ==
  ASSUME NEW events, NEW n \in Nat, DOMAIN events = 1..n
  PROVE  Journal!waitingProviderRequests(events) = (CHOOSE f : WaitFold(events, f, n))[1..n]
BY DEF Journal!waitingProviderRequests, Journal!FoldLeft, Journal!MapThenFoldSet, WaitFold, WaitStep

\* There is such a fold for every n.
LEMMA WaitFoldExists ==
  ASSUME NEW events, NEW n \in Nat
  PROVE  \E f : WaitFold(events, f, n)
<1> DEFINE S == {k \in Nat : \E f : WaitFold(events, f, k)}
<1>1. 0 \in S
  <2> DEFINE f == [s \in SUBSET (1..0) |-> {}]
  <2>1. \A s \in SUBSET (1..0) : s = {}
    OBVIOUS
  <2>2. WaitFold(events, f, 0)
    BY <2>1 DEF WaitFold
  <2> QED  BY <2>2
<1>2. ASSUME NEW k \in S
      PROVE  k + 1 \in S
  <2>1. k \in Nat /\ k + 1 \in Nat
    OBVIOUS
  <2>2. PICK f : WaitFold(events, f, k)
    OBVIOUS
  <2> DEFINE g == [s \in SUBSET (1..k+1) |->
                     IF k + 1 \in s THEN WaitStep(events, f[s \ {k + 1}], k + 1) ELSE f[s]]
  <2>3. \A s \in SUBSET (1..k+1) : k + 1 \notin s => s \in SUBSET (1..k) /\ g[s] = f[s]
    BY <2>1
  <2>4. ASSUME NEW s \in SUBSET (1..k+1)
        PROVE  g[s] = IF s = {} THEN {}
                      ELSE WaitStep(events, g[s \ {Journal!Max(s)}], Journal!Max(s))
    <3>1. CASE s = {}
      BY <2>2, <2>3, <3>1 DEF WaitFold
    <3>2. CASE k + 1 \in s
      <4>1. Journal!Max(s) = k + 1
        <5>1. Journal!Max(s) \in s /\ k + 1 <= Journal!Max(s)
          BY <2>1, <3>2, LastPosition
        <5>2. Journal!Max(s) \in 1..k+1
          BY <5>1
        <5> QED  BY <2>1, <5>1, <5>2
      <4>2. g[s \ {k + 1}] = f[s \ {k + 1}]
        BY <2>3
      <4> QED  BY <3>2, <4>1, <4>2
    <3>3. CASE k + 1 \notin s /\ s # {}
      <4>1. s \in SUBSET (1..k) /\ g[s] = f[s]
        BY <2>3, <3>3
      <4>2. f[s] = WaitStep(events, f[s \ {Journal!Max(s)}], Journal!Max(s))
        BY <2>2, <3>3, <4>1 DEF WaitFold
      <4>3. g[s \ {Journal!Max(s)}] = f[s \ {Journal!Max(s)}]
        BY <2>3, <3>3
      <4> QED  BY <3>3, <4>1, <4>2, <4>3
    <3> QED  BY <3>1, <3>2, <3>3
  <2>5. WaitFold(events, g, k + 1)
    BY <2>4 DEF WaitFold
  <2> QED  BY <2>1, <2>5
<1> QED  BY <1>1, <1>2, Induct

\* So the fold of all events is the last of the folds of their prefixes.
LEMMA WaitsStepByStep ==
  ASSUME NEW events, NEW n \in Nat, DOMAIN events = 1..n
  PROVE  \E w : /\ w[0] = {} /\ w[n] = Journal!waitingProviderRequests(events)
                /\ \A i \in 1..n : w[i] = WaitStep(events, w[i-1], i)
<1> DEFINE f == CHOOSE f : WaitFold(events, f, n)
           w == [i \in 0..n |-> f[1..i]]
<1>1. WaitFold(events, f, n)
  BY WaitFoldExists
<1>2. w[n] = Journal!waitingProviderRequests(events)
  BY WaitsAreFolded
<1> HIDE DEF f
<1>3. w[0] = {}
  <2>1. 1..0 = {} /\ 1..0 \in SUBSET (1..n)
    OBVIOUS
  <2> QED  BY <1>1, <2>1 DEF WaitFold
<1>4. ASSUME NEW i \in 1..n
      PROVE  w[i] = WaitStep(events, w[i-1], i)
  <2>1. 1..i \in SUBSET (1..n) /\ 1..i # {} /\ i \in Nat \ {0} /\ (1..i) \ {i} = 1..(i-1) /\ i - 1 \in 0..n
    <3>1. i \in Nat /\ i # 0 /\ i <= n
      OBVIOUS
    <3>2. 1..i \in SUBSET (1..n) /\ i \in 1..i
      BY <3>1
    <3>3. (1..i) \ {i} = 1..(i-1)
      BY <3>1
    <3>4. i - 1 \in 0..n
      BY <3>1
    <3> QED  BY <3>1, <3>2, <3>3, <3>4
  <2>2. Journal!Max(1..i) = i
    BY <2>1, LastOfAll
  <2>3. f[1..i] = WaitStep(events, f[1..(i-1)], i)
    BY <1>1, <2>1, <2>2 DEF WaitFold
  <2> QED  BY <2>1, <2>3
<1> QED  BY <1>2, <1>3, <1>4

\* The same for the fold that removes a key.
LeftStep(keys, k, left, i) == IF keys[i] = k THEN left ELSE Append(left, keys[i])

LeftFold(keys, k, f, n) ==
  f = [s \in SUBSET (1..n) |->
         IF s = {} THEN <<>> ELSE LeftStep(keys, k, f[s \ {Journal!Max(s)}], Journal!Max(s))]

LEMMA LeftIsFolded ==
  ASSUME NEW keys, NEW k, NEW n \in Nat, DOMAIN keys = 1..n
  PROVE  Journal!Without(keys, k) = (CHOOSE f : LeftFold(keys, k, f, n))[1..n]
BY DEF Journal!Without, Journal!FoldLeft, Journal!MapThenFoldSet, LeftFold, LeftStep

LEMMA LeftFoldExists ==
  ASSUME NEW keys, NEW k, NEW n \in Nat
  PROVE  \E f : LeftFold(keys, k, f, n)
<1> DEFINE S == {j \in Nat : \E f : LeftFold(keys, k, f, j)}
<1>1. 0 \in S
  <2> DEFINE f == [s \in SUBSET (1..0) |-> <<>>]
  <2>1. \A s \in SUBSET (1..0) : s = {}
    OBVIOUS
  <2>2. LeftFold(keys, k, f, 0)
    BY <2>1 DEF LeftFold
  <2> QED  BY <2>2
<1>2. ASSUME NEW j \in S
      PROVE  j + 1 \in S
  <2>1. j \in Nat /\ j + 1 \in Nat
    OBVIOUS
  <2>2. PICK f : LeftFold(keys, k, f, j)
    OBVIOUS
  <2> DEFINE g == [s \in SUBSET (1..j+1) |->
                     IF j + 1 \in s THEN LeftStep(keys, k, f[s \ {j + 1}], j + 1) ELSE f[s]]
  <2>3. \A s \in SUBSET (1..j+1) : j + 1 \notin s => s \in SUBSET (1..j) /\ g[s] = f[s]
    BY <2>1
  <2>4. ASSUME NEW s \in SUBSET (1..j+1)
        PROVE  g[s] = IF s = {} THEN <<>>
                      ELSE LeftStep(keys, k, g[s \ {Journal!Max(s)}], Journal!Max(s))
    <3>1. CASE s = {}
      BY <2>2, <2>3, <3>1 DEF LeftFold
    <3>2. CASE j + 1 \in s
      <4>1. Journal!Max(s) = j + 1
        <5>1. Journal!Max(s) \in s /\ j + 1 <= Journal!Max(s)
          BY <2>1, <3>2, LastPosition
        <5>2. Journal!Max(s) \in 1..j+1
          BY <5>1
        <5> QED  BY <2>1, <5>1, <5>2
      <4>2. g[s \ {j + 1}] = f[s \ {j + 1}]
        BY <2>3
      <4> QED  BY <3>2, <4>1, <4>2
    <3>3. CASE j + 1 \notin s /\ s # {}
      <4>1. s \in SUBSET (1..j) /\ g[s] = f[s]
        BY <2>3, <3>3
      <4>2. f[s] = LeftStep(keys, k, f[s \ {Journal!Max(s)}], Journal!Max(s))
        BY <2>2, <3>3, <4>1 DEF LeftFold
      <4>3. g[s \ {Journal!Max(s)}] = f[s \ {Journal!Max(s)}]
        BY <2>3, <3>3
      <4> QED  BY <3>3, <4>1, <4>2, <4>3
    <3> QED  BY <3>1, <3>2, <3>3
  <2>5. LeftFold(keys, k, g, j + 1)
    BY <2>4 DEF LeftFold
  <2> QED  BY <2>1, <2>5
<1> QED  BY <1>1, <1>2, Induct

LEMMA LeftStepByStep ==
  ASSUME NEW keys, NEW k, NEW n \in Nat, DOMAIN keys = 1..n
  PROVE  \E w : /\ w[0] = <<>> /\ w[n] = Journal!Without(keys, k)
                /\ \A i \in 1..n : w[i] = LeftStep(keys, k, w[i-1], i)
<1> DEFINE f == CHOOSE f : LeftFold(keys, k, f, n)
           w == [i \in 0..n |-> f[1..i]]
<1>1. LeftFold(keys, k, f, n)
  BY LeftFoldExists
<1>2. w[n] = Journal!Without(keys, k)
  BY LeftIsFolded
<1> HIDE DEF f
<1>3. w[0] = <<>>
  <2>1. 1..0 = {} /\ 1..0 \in SUBSET (1..n)
    OBVIOUS
  <2> QED  BY <1>1, <2>1 DEF LeftFold
<1>4. ASSUME NEW i \in 1..n
      PROVE  w[i] = LeftStep(keys, k, w[i-1], i)
  <2>1. 1..i \in SUBSET (1..n) /\ 1..i # {} /\ i \in Nat \ {0} /\ (1..i) \ {i} = 1..(i-1) /\ i - 1 \in 0..n
    <3>1. i \in Nat /\ i # 0 /\ i <= n
      OBVIOUS
    <3>2. 1..i \in SUBSET (1..n) /\ i \in 1..i
      BY <3>1
    <3>3. (1..i) \ {i} = 1..(i-1)
      BY <3>1
    <3>4. i - 1 \in 0..n
      BY <3>1
    <3> QED  BY <3>1, <3>2, <3>3, <3>4
  <2>2. Journal!Max(1..i) = i
    BY <2>1, LastOfAll
  <2>3. f[1..i] = LeftStep(keys, k, f[1..(i-1)], i)
    BY <1>1, <2>1, <2>2 DEF LeftFold
  <2> QED  BY <2>1, <2>3
<1> QED  BY <1>2, <1>3, <1>4

\* What is left of keys of which none is there twice.
Distinct(q) == \A i, j \in 1..Len(q) : i # j => q[i] # q[j]
Elements(q) == {q[i] : i \in 1..Len(q)}

LEMMA WithoutIs ==
  ASSUME NEW K, NEW keys \in Seq(K), Distinct(keys), NEW k
  PROVE  /\ Journal!Without(keys, k) \in Seq(K) /\ Distinct(Journal!Without(keys, k))
         /\ Elements(Journal!Without(keys, k)) = Elements(keys) \ {k}
<1> DEFINE n == Len(keys)
<1>1. n \in Nat /\ DOMAIN keys = 1..n
  OBVIOUS
<1>2. PICK w : /\ w[0] = <<>> /\ w[n] = Journal!Without(keys, k)
               /\ \A i \in 1..n : w[i] = LeftStep(keys, k, w[i-1], i)
  BY <1>1, LeftStepByStep
<1> DEFINE Good(i) == /\ w[i] \in Seq(K) /\ Distinct(w[i])
                      /\ Elements(w[i]) = {keys[j] : j \in 1..i} \ {k}
           S == {i \in Nat : i <= n => Good(i)}
<1>3. 0 \in S
  <2>1. w[0] \in Seq(K) /\ Distinct(w[0])
    BY <1>2 DEF Distinct
  <2>2. Elements(w[0]) = {}
    BY <1>2 DEF Elements
  <2>3. {keys[j] : j \in 1..0} = {}
    OBVIOUS
  <2>4. Good(0)
    BY <2>1, <2>2, <2>3
  <2> HIDE DEF Good
  <2> QED  BY <2>4
<1>4. ASSUME NEW i \in S
      PROVE  i + 1 \in S
  <2> SUFFICES ASSUME i + 1 <= n
               PROVE  Good(i + 1)
    OBVIOUS
  <2> DEFINE q == w[i]
             x == keys[i + 1]
             r == w[i + 1]
  <2>1. i \in Nat /\ i + 1 \in 1..n /\ (i + 1) - 1 = i
    BY <1>1
  <2>2. Good(i)
    BY <1>1, <2>1
  <2>3. x \in K /\ r = LeftStep(keys, k, w[(i + 1) - 1], i + 1)
    BY <1>2, <2>1
  <2>4. r = IF x = k THEN q ELSE Append(q, x)
    BY <2>1, <2>3 DEF LeftStep
  <2>5. {keys[j] : j \in 1..(i + 1)} = {keys[j] : j \in 1..i} \union {x}
    BY <2>1
  <2>6. x \notin {keys[j] : j \in 1..i}
    <3> SUFFICES ASSUME NEW j \in 1..i
                 PROVE  keys[j] # x
      OBVIOUS
    <3>1. j \in 1..n /\ j # i + 1
      BY <1>1, <2>1
    <3> QED  BY <2>1, <3>1 DEF Distinct
  <2>7. CASE x = k
    BY <2>2, <2>4, <2>5, <2>7
  <2>8. CASE x # k
    <3> HIDE DEF q, x, r
    <3>1. q \in Seq(K) /\ Distinct(q) /\ x \notin Elements(q)
      BY <2>2, <2>6 DEF q
    <3>2. r = Append(q, x) /\ Len(r) = Len(q) + 1 /\ r[Len(q) + 1] = x /\ Len(q) \in Nat
          /\ \A j \in 1..Len(q) : r[j] = q[j]
      BY <2>3, <2>4, <2>8, <3>1
    <3>3. r \in Seq(K)
      BY <2>3, <3>1, <3>2
    <3>4. Elements(r) = Elements(q) \union {x}
      BY <3>2 DEF Elements
    <3>5. Distinct(r)
      BY <3>1, <3>2 DEF Distinct, Elements
    <3>6. Elements(r) = ({keys[j] : j \in 1..i} \ {k}) \union {x}
      BY <2>2, <3>4 DEF q
    <3>7. Elements(r) = {keys[j] : j \in 1..(i + 1)} \ {k}
      BY <2>5, <2>8, <3>6
    <3> QED  BY <3>3, <3>5, <3>7 DEF r
  <2> QED  BY <2>7, <2>8
<1>5. S = Nat
  <2> HIDE DEF S
  <2>1. S \in SUBSET Nat
    BY DEF S
  <2> QED  BY <1>3, <1>4, <2>1, Induct
<1>6. Good(n)
  <2>1. n \in S /\ n <= n
    <3> HIDE DEF S
    <3> QED  BY <1>1, <1>5
  <2> HIDE DEF Good
  <2> QED  BY <2>1
<1>7. Elements(keys) = {keys[j] : j \in 1..n}
  BY DEF Elements
<1> QED  BY <1>2, <1>6, <1>7

-----------------------------------------------------------------------------
(* The journal: the events and what has been ingested.                     *)

OpTypes == {"prepared", "in_flight", "reused", "committed", "failed", "cancelled"}
WaitTypes == {"wait_started", "wait_resumed", "request_completed"}
KeySet == {o.key : o \in Operations}
OpEvents == {Journal!OpEvent(t, o) : t \in OpTypes, o \in Operations}
WaitEvents == {Journal!Traffic(t, r) : t \in WaitTypes, r \in Requests}
MileEvents == {Journal!Mile(t, a) : t \in Journal!Lifecycle, a \in TreeAgents \union {Journal!NoAgent}}
EventSet == OpEvents \union WaitEvents \union MileEvents
AgentStates == {"unseen", "queued", "running", "completed", "failed", "cancelled"}
JournalRec == [cursor : Nat, states : [Journal!Owners -> AgentStates],
               phases : [Journal!Owners -> KeySet \union {"none"}],
               active : [Journal!Owners -> Seq(KeySet)]]

JournalShape ==
  /\ jnLog \in Seq(EventSet) /\ Len(jnLog) <= MaxJournal
  /\ jnEnd \in {"running", "completed", "failed", "cancelled"}
  /\ jnJournal \in JournalRec /\ jnJournal.cursor <= Len(jnLog)

\* AgentsAreExact, with the keys as a set of which none is there twice.
AgentInv(a) ==
  /\ Distinct(jnJournal.active[a])
  /\ Elements(jnJournal.active[a]) = Journal!Unfinished(a)
  /\ jnJournal.states[a] = "running" => Journal!Unfinished(a) # {} /\ jnJournal.phases[a] # "none"
  /\ jnJournal.states[a] = "completed" => Journal!Unfinished(a) = {}

JournalInv == JournalShape /\ \A a \in Journal!Owners : AgentInv(a)

LEMMA JournalInit == Journal!JournalInit => JournalInv
<1> SUFFICES ASSUME Journal!JournalInit
             PROVE  JournalInv
  OBVIOUS
<1>1. jnLog = <<>> /\ jnEnd = "running" /\ jnJournal = Journal!Empty
  BY DEF Journal!JournalInit
<1>2. Journal!Empty \in JournalRec /\ Journal!Empty.cursor = 0
  BY DEF Journal!Empty, JournalRec, AgentStates, Journal!Unstarted
<1>3. JournalShape
  BY <1>1, <1>2, LiveAssumption DEF JournalShape
<1>4. ASSUME NEW a \in Journal!Owners
      PROVE  AgentInv(a)
  <2>1. jnJournal.active[a] = <<>> /\ jnJournal.states[a] = "unseen" /\ jnJournal.cursor = 0
    BY <1>1 DEF Journal!Empty, Journal!Unstarted
  <2>2. Elements(<<>>) = {} /\ Distinct(<<>>)
    BY DEF Elements, Distinct
  <2>3. \A o \in Operations : ~Journal!OpenAt(0, o)
    BY DEF Journal!OpenAt
  <2>4. Journal!Unfinished(a) = {}
    BY <2>1, <2>3 DEF Journal!Unfinished
  <2> QED  BY <2>1, <2>2, <2>4 DEF AgentInv
<1> QED  BY <1>3, <1>4 DEF JournalInv

\* An event that is stored says nothing about those ingested before it.
LEMMA RecordsShape ==
  ASSUME JournalShape, NEW e \in EventSet, Journal!Records(e)
  PROVE  JournalShape' /\ \A i \in 1..Len(jnLog) : jnLog'[i] = jnLog[i]
<1>1. jnLog' = Append(jnLog, e) /\ Len(jnLog) < MaxJournal /\ UNCHANGED <<jnEnd, jnJournal>>
  BY DEF Journal!Records
<1>2. jnLog' \in Seq(EventSet) /\ Len(jnLog') = Len(jnLog) + 1 /\ Len(jnLog) \in Nat
      /\ \A i \in 1..Len(jnLog) : jnLog'[i] = jnLog[i]
  BY <1>1 DEF JournalShape
<1>3. jnJournal.cursor \in Nat /\ MaxJournal \in Nat
  BY LiveAssumption DEF JournalShape, JournalRec
<1> QED  BY <1>1, <1>2, <1>3 DEF JournalShape

LEMMA SameOpen ==
  ASSUME JournalShape, jnJournal' = jnJournal,
         \A i \in 1..Len(jnLog) : jnLog'[i] = jnLog[i]
  PROVE  \A a \in Journal!Owners : Journal!Unfinished(a)' = Journal!Unfinished(a)
<1>1. jnJournal.cursor \in Nat /\ Len(jnLog) \in Nat /\ jnJournal.cursor <= Len(jnLog)
  BY DEF JournalShape, JournalRec
<1>2. \A i \in 1..jnJournal.cursor : i \in 1..Len(jnLog) /\ \A j \in (i + 1)..jnJournal.cursor : j \in 1..Len(jnLog)
  BY <1>1
<1>3. \A o \in Operations : Journal!OpenAt(jnJournal.cursor, o)' <=> Journal!OpenAt(jnJournal.cursor, o)
  BY <1>2 DEF Journal!OpenAt
<1> QED  BY <1>3 DEF Journal!Unfinished

LEMMA RecordsInv ==
  ASSUME JournalInv, NEW e \in EventSet, Journal!Records(e)
  PROVE  JournalInv'
<1>1. JournalShape' /\ \A i \in 1..Len(jnLog) : jnLog'[i] = jnLog[i]
  BY RecordsShape DEF JournalInv
<1>2. jnJournal' = jnJournal
  BY DEF Journal!Records
<1>3. \A a \in Journal!Owners : Journal!Unfinished(a)' = Journal!Unfinished(a)
  BY <1>1, <1>2, SameOpen DEF JournalInv
<1> QED  BY <1>1, <1>2, <1>3 DEF JournalInv, AgentInv

\* What the next event changes of which operations are unfinished.
LEMMA OpenStep ==
  ASSUME NEW n \in Nat, n + 1 <= Len(jnLog), jnLog \in Seq(EventSet), NEW o \in Operations
  PROVE  Journal!OpenAt(n + 1, o) <=>
           \/ jnLog[n + 1] = Journal!OpEvent("in_flight", o)
           \/ /\ Journal!OpenAt(n, o)
              /\ \A t \in Journal!Finishing \union Journal!Breaking : jnLog[n + 1] # Journal!OpEvent(t, o)
<1> DEFINE Ended(j) == \E t \in Journal!Finishing \union Journal!Breaking : jnLog[j] = Journal!OpEvent(t, o)
           Flies(i) == jnLog[i] = Journal!OpEvent("in_flight", o)
<1>1. \A m : Journal!OpenAt(m, o) <=> \E i \in 1..m : Flies(i) /\ \A j \in (i + 1)..m : ~Ended(j)
  BY DEF Journal!OpenAt
<1>2. \A j : Flies(j) => ~Ended(j)
  BY DEF Journal!OpEvent, Journal!Finishing, Journal!Breaking
<1> HIDE DEF Ended, Flies
<1>3. ASSUME Journal!OpenAt(n + 1, o), ~Flies(n + 1)
      PROVE  Journal!OpenAt(n, o) /\ ~Ended(n + 1)
  <2>1. PICK i \in 1..n+1 : Flies(i) /\ \A j \in (i + 1)..(n + 1) : ~Ended(j)
    BY <1>1, <1>3
  <2>2. i \in 1..n /\ n + 1 \in (i + 1)..(n + 1) /\ \A j \in (i + 1)..n : j \in (i + 1)..(n + 1)
    BY <1>3, <2>1
  <2> QED  BY <1>1, <2>1, <2>2
<1>4. ASSUME Flies(n + 1)
      PROVE  Journal!OpenAt(n + 1, o)
  <2>1. n + 1 \in 1..n+1 /\ \A j \in ((n + 1) + 1)..(n + 1) : FALSE
    OBVIOUS
  <2> QED  BY <1>1, <1>4, <2>1
<1>5. ASSUME Journal!OpenAt(n, o), ~Ended(n + 1)
      PROVE  Journal!OpenAt(n + 1, o)
  <2>1. PICK i \in 1..n : Flies(i) /\ \A j \in (i + 1)..n : ~Ended(j)
    BY <1>1, <1>5
  <2>2. i \in 1..n+1 /\ \A j \in (i + 1)..(n + 1) : j = n + 1 \/ j \in (i + 1)..n
    OBVIOUS
  <2> QED  BY <1>1, <1>5, <2>1, <2>2
<1> QED  BY <1>3, <1>4, <1>5 DEF Ended, Flies

LEMMA EventKinds ==
  ASSUME NEW e \in EventSet
  PROVE  \/ /\ e.type \in OpTypes /\ \E o \in Operations : e = Journal!OpEvent(e.type, o)
         \/ /\ e.type \in WaitTypes /\ e.agent = Journal!NoAgent /\ e.key \in Requests
         \/ /\ e.type \in Journal!Lifecycle /\ e.key = "none"
BY DEF EventSet, OpEvents, WaitEvents, MileEvents, Journal!OpEvent, Journal!Traffic, Journal!Mile

\* An event that is of no operation leaves the journal as it is.
LEMMA OtherEvents ==
  ASSUME JournalInv, NEW e \in EventSet, NEW n \in Nat, n = jnJournal.cursor + 1, n <= Len(jnLog),
         jnLog[n] = e, e.type \notin OpTypes,
         jnJournal' = [jnJournal EXCEPT !.cursor = n], UNCHANGED <<jnLog, jnEnd>>
  PROVE  JournalInv'
<1>1. jnJournal \in JournalRec /\ jnJournal.cursor \in Nat
  BY DEF JournalInv, JournalShape, JournalRec
<1>2. jnJournal' \in JournalRec /\ jnJournal'.cursor = n /\ jnJournal'.states = jnJournal.states
      /\ jnJournal'.phases = jnJournal.phases /\ jnJournal'.active = jnJournal.active
  BY <1>1 DEF JournalRec
<1>3. \A t \in OpTypes, o \in Operations : e # Journal!OpEvent(t, o)
  BY DEF Journal!OpEvent
<1>4. "in_flight" \in OpTypes /\ Journal!Finishing \union Journal!Breaking \subseteq OpTypes
  BY DEF OpTypes, Journal!Finishing, Journal!Breaking
<1>5. \A o \in Operations : Journal!OpenAt(n, o) <=> Journal!OpenAt(jnJournal.cursor, o)
  BY <1>1, <1>3, <1>4, OpenStep DEF JournalInv, JournalShape
<1>6. \A o \in Operations : Journal!OpenAt(jnJournal.cursor, o)' <=> Journal!OpenAt(jnJournal.cursor, o)
  <2>1. \A o \in Operations : Journal!OpenAt(jnJournal.cursor, o)' <=> Journal!OpenAt(n, o)
    BY <1>2 DEF Journal!OpenAt
  <2> QED  BY <1>5, <2>1
<1>7. \A a \in Journal!Owners : Journal!Unfinished(a)' = Journal!Unfinished(a)
  BY <1>6 DEF Journal!Unfinished
<1> QED  BY <1>2, <1>7 DEF JournalInv, JournalShape, AgentInv

\* What an event of operation o leaves unfinished.
LEMMA UnfinishedStep ==
  ASSUME JournalInv, NEW t \in OpTypes, NEW o \in Operations, NEW n \in Nat,
         n = jnJournal.cursor + 1, n <= Len(jnLog), jnLog[n] = Journal!OpEvent(t, o),
         jnJournal'.cursor = n, UNCHANGED jnLog
  PROVE  /\ \A a \in Journal!Owners \ {o.agent} : Journal!Unfinished(a)' = Journal!Unfinished(a)
         /\ Journal!Unfinished(o.agent)' =
              IF t = "in_flight" THEN Journal!Unfinished(o.agent) \union {o.key}
              ELSE IF t = "prepared" THEN Journal!Unfinished(o.agent)
              ELSE Journal!Unfinished(o.agent) \ {o.key}
<1> DEFINE c == jnJournal.cursor
<1>1. c \in Nat /\ jnLog \in Seq(EventSet)
  BY DEF JournalInv, JournalShape, JournalRec
<1>2. \A p \in Operations, u \in OpTypes : jnLog[n] = Journal!OpEvent(u, p) <=> u = t /\ p = o
  <2> TAKE p \in Operations, u \in OpTypes
  <2>1. p = [agent |-> p.agent, key |-> p.key] /\ o = [agent |-> o.agent, key |-> o.key]
    BY JournalAssumption
  <2> QED  BY <2>1 DEF Journal!OpEvent
<1>3. "in_flight" \in OpTypes /\ Journal!Finishing \union Journal!Breaking = OpTypes \ {"in_flight", "prepared"}
  BY DEF OpTypes, Journal!Finishing, Journal!Breaking
<1>4. ASSUME NEW p \in Operations
      PROVE  Journal!OpenAt(n, p) <=>
               IF p # o THEN Journal!OpenAt(c, p)
               ELSE t = "in_flight" \/ (t = "prepared" /\ Journal!OpenAt(c, p))
  <2>1. Journal!OpenAt(n, p) <=>
           \/ jnLog[n] = Journal!OpEvent("in_flight", p)
           \/ /\ Journal!OpenAt(c, p)
              /\ \A u \in Journal!Finishing \union Journal!Breaking : jnLog[n] # Journal!OpEvent(u, p)
    BY <1>1, OpenStep
  <2> QED  BY <1>2, <1>3, <2>1
<1>5. \A p \in Operations : Journal!OpenAt(c, p)' <=> Journal!OpenAt(n, p)
  BY DEF Journal!OpenAt
<1>6. \A p \in Operations : p.agent = o.agent /\ p.key = o.key => p = o
  BY JournalAssumption
<1>7. \A a : Journal!Unfinished(a) = {p.key : p \in {q \in Operations : q.agent = a /\ Journal!OpenAt(c, q)}}
  BY DEF Journal!Unfinished
<1>8. \A a : Journal!Unfinished(a)' = {p.key : p \in {q \in Operations : q.agent = a /\ Journal!OpenAt(n, q)}}
  BY <1>5 DEF Journal!Unfinished
<1> HIDE DEF c
<1>9. \A a : a # o.agent => \A q \in Operations : q.agent = a => (Journal!OpenAt(n, q) <=> Journal!OpenAt(c, q))
  BY <1>4
<1>10. \A a \in Journal!Owners \ {o.agent} : Journal!Unfinished(a)' = Journal!Unfinished(a)
  <2> TAKE a \in Journal!Owners \ {o.agent}
  <2>1. {q \in Operations : q.agent = a /\ Journal!OpenAt(n, q)} = {q \in Operations : q.agent = a /\ Journal!OpenAt(c, q)}
    BY <1>9
  <2> QED  BY <1>7, <1>8, <2>1
<1>11. CASE t = "in_flight"
  <2>1. {q \in Operations : q.agent = o.agent /\ Journal!OpenAt(n, q)}
          = {q \in Operations : q.agent = o.agent /\ Journal!OpenAt(c, q)} \union {o}
    BY <1>4, <1>11
  <2> QED  BY <1>7, <1>8, <1>10, <1>11, <2>1
<1>12. CASE t = "prepared"
  <2>1. {q \in Operations : q.agent = o.agent /\ Journal!OpenAt(n, q)}
          = {q \in Operations : q.agent = o.agent /\ Journal!OpenAt(c, q)}
    BY <1>4, <1>12
  <2> QED  BY <1>7, <1>8, <1>10, <1>12, <2>1
<1>13. CASE t \notin {"in_flight", "prepared"}
  <2>1. {q \in Operations : q.agent = o.agent /\ Journal!OpenAt(n, q)}
          = {q \in Operations : q.agent = o.agent /\ Journal!OpenAt(c, q)} \ {o}
    BY <1>4, <1>13
  <2> QED  BY <1>6, <1>7, <1>8, <1>10, <1>13, <2>1
<1> QED  BY <1>11, <1>12, <1>13

\* The keys that are left, and the Agent's state and phase.
LEMMA LeftIs ==
  ASSUME NEW t \in OpTypes, NEW o \in Operations, NEW open \in Seq(KeySet), Distinct(open)
  PROVE  LET left == IF t = "in_flight" THEN IF Journal!Contains(open, o.key) THEN open ELSE Append(open, o.key)
                     ELSE IF t = "prepared" THEN open ELSE Journal!Without(open, o.key)
         IN /\ left \in Seq(KeySet) /\ Distinct(left)
            /\ Elements(left) = IF t = "in_flight" THEN Elements(open) \union {o.key}
                                ELSE IF t = "prepared" THEN Elements(open) ELSE Elements(open) \ {o.key}
<1>1. o.key \in KeySet
  BY DEF KeySet
<1>2. CASE t = "in_flight" /\ ~Journal!Contains(open, o.key)
  <2> DEFINE r == Append(open, o.key)
  <2>1. Len(open) \in Nat /\ r \in Seq(KeySet) /\ Len(r) = Len(open) + 1 /\ r[Len(open) + 1] = o.key
        /\ \A j \in 1..Len(open) : r[j] = open[j] /\ open[j] # o.key
    BY <1>1, <1>2 DEF Journal!Contains
  <2> HIDE DEF r
  <2>2. Elements(r) = Elements(open) \union {o.key}
    BY <2>1 DEF Elements
  <2>3. Distinct(r)
    BY <2>1 DEF Distinct
  <2> QED  BY <1>2, <2>1, <2>2, <2>3 DEF r
<1>3. CASE t = "in_flight" /\ Journal!Contains(open, o.key)
  BY <1>3 DEF Journal!Contains, Elements
<1>4. CASE t = "prepared"
  BY <1>4
<1>5. CASE t \notin {"in_flight", "prepared"}
  BY <1>5, WithoutIs
<1> QED  BY <1>2, <1>3, <1>4, <1>5

LEMMA StateIs ==
  ASSUME NEW t \in OpTypes, NEW o \in Operations, NEW e, e = Journal!OpEvent(t, o),
         NEW left \in Seq(KeySet), NEW state \in AgentStates, NEW phase \in KeySet \union {"none"}
  PROVE  /\ Journal!After(state, e, left) \in AgentStates
         /\ Journal!PhaseAfter(phase, e, left) \in KeySet \union {"none"}
         /\ t = "in_flight" => /\ Journal!After(state, e, left) = "running"
                               /\ Journal!PhaseAfter(phase, e, left) # "none"
         /\ t = "prepared" => /\ Journal!After(state, e, left) \in {"running", "completed"} =>
                                   Journal!After(state, e, left) = state
                              /\ Journal!PhaseAfter(phase, e, left) = phase
         /\ t \in Journal!Finishing =>
              /\ Journal!After(state, e, left) = IF Elements(left) # {} THEN "running" ELSE "completed"
              /\ Journal!PhaseAfter(phase, e, left) # "none"
         /\ t \in Journal!Breaking => Journal!After(state, e, left) \notin {"running", "completed"}
<1>1. e.type = t /\ e.key = o.key /\ o.key \in KeySet /\ o.key # "none"
  BY JournalAssumption DEF Journal!OpEvent, KeySet
<1>2. left # <<>> <=> Elements(left) # {}
  <2>1. Len(left) \in Nat /\ (left = <<>> <=> Len(left) = 0)
    OBVIOUS
  <2>2. Len(left) # 0 => left[1] \in Elements(left)
    BY <2>1 DEF Elements
  <2>3. Len(left) = 0 => Elements(left) = {}
    BY DEF Elements
  <2> QED  BY <2>1, <2>2, <2>3
<1>3. left # <<>> => Journal!Last(left) \in KeySet /\ Journal!Last(left) # "none"
  <2>1. left # <<>> => Len(left) \in 1..Len(left)
    OBVIOUS
  <2>2. "none" \notin KeySet
    BY JournalAssumption DEF KeySet
  <2> QED  BY <2>1, <2>2 DEF Journal!Last
<1>4. t \in {"in_flight", "prepared"} \/ t \in Journal!Finishing \/ t \in Journal!Breaking
  BY DEF OpTypes, Journal!Finishing, Journal!Breaking
<1> USE <1>1 DEF Journal!After, Journal!PhaseAfter, Journal!Finishing, Journal!Breaking, AgentStates,
                 Journal!Unstarted
<1>5. CASE t = "in_flight"
  BY <1>5
<1>6. CASE t = "prepared"
  BY <1>6
<1>7. CASE t \in Journal!Finishing
  BY <1>2, <1>3, <1>7
<1>8. CASE t \in Journal!Breaking
  BY <1>8
<1> QED  BY <1>4, <1>5, <1>6, <1>7, <1>8

\* reduceExecution, for the next event, when that is of an operation.
LEMMA OpEventInv ==
  ASSUME JournalInv, NEW t \in OpTypes, NEW o \in Operations, NEW n \in Nat,
         n = jnJournal.cursor + 1, n <= Len(jnLog), jnLog[n] = Journal!OpEvent(t, o),
         jnJournal' = Journal!reduceExecution(jnJournal, jnLog[n], n), UNCHANGED <<jnLog, jnEnd>>
  PROVE  JournalInv'
<1> DEFINE e == jnLog[n]
           a == o.agent
           open == jnJournal.active[a]
           left == IF t = "in_flight" THEN IF Journal!Contains(open, o.key) THEN open ELSE Append(open, o.key)
                   ELSE IF t = "prepared" THEN open ELSE Journal!Without(open, o.key)
           state == Journal!After(jnJournal.states[a], e, left)
           phase == Journal!PhaseAfter(jnJournal.phases[a], e, left)
<1>1. jnJournal \in JournalRec /\ jnJournal.cursor \in Nat /\ a \in Journal!Owners
      /\ e.type = t /\ e.agent = a /\ e.key = o.key
  BY DEF JournalInv, JournalShape, JournalRec, Journal!Owners, Journal!OpEvent
<1>2. ~(n <= jnJournal.cursor) /\ t \in {"prepared", "in_flight"} \union Journal!Finishing \union Journal!Breaking
  BY <1>1 DEF OpTypes, Journal!Finishing, Journal!Breaking
<1>3. jnJournal' = [jnJournal EXCEPT !.cursor = n, !.active[a] = left, !.states[a] = state, !.phases[a] = phase]
  BY <1>1, <1>2 DEF Journal!reduceExecution
<1>4. open \in Seq(KeySet) /\ Distinct(open) /\ Elements(open) = Journal!Unfinished(a)
  BY <1>1 DEF JournalInv, AgentInv, JournalRec
<1>5. /\ left \in Seq(KeySet) /\ Distinct(left)
      /\ Elements(left) = IF t = "in_flight" THEN Elements(open) \union {o.key}
                          ELSE IF t = "prepared" THEN Elements(open) ELSE Elements(open) \ {o.key}
  <2> HIDE DEF open
  <2>1. PICK q \in Seq(KeySet) : q = open
    BY <1>4
  <2> QED  BY <1>4, <2>1, LeftIs
<1> HIDE DEF left, open
<1>6. jnJournal.states[a] \in AgentStates /\ jnJournal.phases[a] \in KeySet \union {"none"}
  BY <1>1 DEF JournalRec
<1>7. PICK l \in Seq(KeySet), st \in AgentStates, ph \in KeySet \union {"none"} :
         l = left /\ st = jnJournal.states[a] /\ ph = jnJournal.phases[a]
  BY <1>5, <1>6
<1>8. /\ state \in AgentStates /\ phase \in KeySet \union {"none"}
      /\ t = "in_flight" => state = "running" /\ phase # "none"
      /\ t = "prepared" => (state \in {"running", "completed"} => state = st) /\ phase = ph
      /\ t \in Journal!Finishing => /\ state = IF Elements(left) # {} THEN "running" ELSE "completed"
                                    /\ phase # "none"
      /\ t \in Journal!Breaking => state \notin {"running", "completed"}
  <2>1. PICK ev : ev = e
    OBVIOUS
  <2>2. ev = Journal!OpEvent(t, o)
    BY <2>1
  <2>3. state = Journal!After(st, ev, l) /\ phase = Journal!PhaseAfter(ph, ev, l)
    BY <1>7, <2>1
  <2> HIDE DEF state, phase, e
  <2> QED  BY <1>7, <2>2, <2>3, StateIs
<1> HIDE DEF state, phase
<1>9. /\ jnJournal' \in JournalRec /\ jnJournal'.cursor = n
      /\ jnJournal'.active = [jnJournal.active EXCEPT ![a] = left]
      /\ jnJournal'.states = [jnJournal.states EXCEPT ![a] = state]
      /\ jnJournal'.phases = [jnJournal.phases EXCEPT ![a] = phase]
  <2> DEFINE ac == [jnJournal.active EXCEPT ![a] = left]
             sts == [jnJournal.states EXCEPT ![a] = state]
             phs == [jnJournal.phases EXCEPT ![a] = phase]
  <2>1. ac \in [Journal!Owners -> Seq(KeySet)] /\ sts \in [Journal!Owners -> AgentStates]
        /\ phs \in [Journal!Owners -> KeySet \union {"none"}]
    BY <1>1, <1>5, <1>8 DEF JournalRec
  <2>2. jnJournal' = [jnJournal EXCEPT !.cursor = n, !.active = ac, !.states = sts, !.phases = phs]
    BY <1>1, <1>3 DEF JournalRec
  <2> HIDE DEF ac, sts, phs
  <2>3. jnJournal' \in JournalRec /\ jnJournal'.cursor = n
        /\ jnJournal'.active = ac /\ jnJournal'.states = sts /\ jnJournal'.phases = phs
    BY <1>1, <2>1, <2>2 DEF JournalRec
  <2> QED  BY <2>3 DEF ac, sts, phs
<1>10. /\ jnJournal.active \in [Journal!Owners -> Seq(KeySet)]
       /\ jnJournal.states \in [Journal!Owners -> AgentStates]
       /\ jnJournal.phases \in [Journal!Owners -> KeySet \union {"none"}]
  BY <1>1 DEF JournalRec
<1>11. JournalShape'
  BY <1>9 DEF JournalInv, JournalShape
<1>12. /\ \A x \in Journal!Owners \ {a} : Journal!Unfinished(x)' = Journal!Unfinished(x)
       /\ Journal!Unfinished(a)' = Elements(left)
  BY <1>4, <1>5, <1>9, UnfinishedStep
<1>13. ASSUME NEW x \in Journal!Owners \ {a}
       PROVE  AgentInv(x)'
  <2>1. jnJournal'.active[x] = jnJournal.active[x] /\ jnJournal'.states[x] = jnJournal.states[x]
        /\ jnJournal'.phases[x] = jnJournal.phases[x]
    BY <1>9, <1>10
  <2> QED  BY <1>12, <2>1 DEF JournalInv, AgentInv
<1>14. AgentInv(a)'
  <2>1. jnJournal'.active[a] = left /\ jnJournal'.states[a] = state /\ jnJournal'.phases[a] = phase
    BY <1>1, <1>9, <1>10
  <2>2. AgentInv(a)
    BY <1>1 DEF JournalInv
  <2>3. state = "running" => Elements(left) # {} /\ phase # "none"
    <3>1. CASE t = "in_flight"
      BY <1>5, <1>8, <3>1
    <3>2. CASE t = "prepared"
      BY <1>4, <1>5, <1>7, <1>8, <2>2, <3>2 DEF AgentInv
    <3>3. CASE t \in Journal!Finishing \union Journal!Breaking
      BY <1>8, <3>3
    <3> QED  BY <3>1, <3>2, <3>3, <1>2
  <2>4. state = "completed" => Elements(left) = {}
    <3>1. CASE t = "in_flight"
      BY <1>8, <3>1
    <3>2. CASE t = "prepared"
      BY <1>4, <1>5, <1>7, <1>8, <2>2, <3>2 DEF AgentInv
    <3>3. CASE t \in Journal!Finishing \union Journal!Breaking
      BY <1>8, <3>3
    <3> QED  BY <3>1, <3>2, <3>3, <1>2
  <2> QED  BY <1>5, <1>12, <2>1, <2>3, <2>4 DEF AgentInv
<1> QED  BY <1>11, <1>13, <1>14 DEF JournalInv

LEMMA IngestInv ==
  ASSUME JournalInv, NEW n \in 1..Len(jnLog), Journal!Ingest(n)
  PROVE  JournalInv'
<1>1. n \in Nat /\ n <= jnJournal.cursor + 1 /\ jnLog[n] \in EventSet /\ jnJournal.cursor \in Nat
      /\ jnJournal' = Journal!reduceExecution(jnJournal, jnLog[n], n) /\ UNCHANGED <<jnLog, jnEnd>>
  BY DEF Journal!Ingest, JournalInv, JournalShape, JournalRec
<1>2. CASE n <= jnJournal.cursor
  <2>1. jnJournal' = jnJournal
    BY <1>1, <1>2 DEF Journal!reduceExecution
  <2>2. \A a \in Journal!Owners : Journal!Unfinished(a)' = Journal!Unfinished(a)
    BY <1>1, <2>1, SameOpen DEF JournalInv
  <2> QED  BY <1>1, <2>1, <2>2 DEF JournalInv, JournalShape, AgentInv
<1>3. CASE n = jnJournal.cursor + 1
  <2>1. CASE jnLog[n].type \in OpTypes
    <3>1. PICK o \in Operations : jnLog[n] = Journal!OpEvent(jnLog[n].type, o)
      BY <1>1, <2>1, EventKinds DEF WaitTypes, Journal!Lifecycle, OpTypes
    <3>2. PICK t \in OpTypes : t = jnLog[n].type
      BY <2>1
    <3> QED  BY <1>1, <1>3, <3>1, <3>2, OpEventInv
  <2>2. CASE jnLog[n].type \notin OpTypes
    <3>1. jnLog[n].type \notin {"prepared", "in_flight"} \union Journal!Finishing \union Journal!Breaking
      BY <2>2 DEF OpTypes, Journal!Finishing, Journal!Breaking
    <3>2. jnJournal' = [jnJournal EXCEPT !.cursor = n]
      BY <1>1, <1>3, <3>1 DEF Journal!reduceExecution
    <3> QED  BY <1>1, <1>3, <2>2, <3>2, OtherEvents
  <2> QED  BY <2>1, <2>2
<1> QED  BY <1>1, <1>2, <1>3

LEMMA JournalStep == JournalInv /\ [Next]_vars /\ part = "journal" => JournalInv'
<1> SUFFICES ASSUME JournalInv, [Next]_vars, part = "journal"
             PROVE  JournalInv'
  OBVIOUS
<1>1. ASSUME NEW o \in Operations, Journal!OperationRecorded(o)
      PROVE  JournalInv'
  <2>1. PICK t \in OpTypes : Journal!Records(Journal!OpEvent(t, o))
    BY <1>1 DEF Journal!OperationRecorded, OpTypes
  <2>2. PICK e \in EventSet : e = Journal!OpEvent(t, o)
    BY DEF EventSet, OpEvents
  <2> QED  BY <2>1, <2>2, RecordsInv
<1>2. ASSUME NEW r \in Requests, NEW t \in WaitTypes, Journal!Records(Journal!Traffic(t, r))
      PROVE  JournalInv'
  <2>1. PICK e \in EventSet : e = Journal!Traffic(t, r)
    BY DEF EventSet, WaitEvents
  <2> QED  BY <1>2, <2>1, RecordsInv
<1>3. ASSUME NEW t \in Journal!Lifecycle, NEW a \in TreeAgents \union {Journal!NoAgent},
             Journal!Records(Journal!Mile(t, a))
      PROVE  JournalInv'
  <2>1. PICK e \in EventSet : e = Journal!Mile(t, a)
    BY DEF EventSet, MileEvents
  <2> QED  BY <1>3, <2>1, RecordsInv
<1>4. ASSUME UNCHANGED <<jnLog, jnJournal>>, jnEnd' = jnEnd \/ Journal!RunSettles
      PROVE  JournalInv'
  <2>1. \A a \in Journal!Owners : Journal!Unfinished(a)' = Journal!Unfinished(a)
    BY <1>4, SameOpen DEF JournalInv
  <2> QED  BY <1>4, <2>1 DEF JournalInv, JournalShape, AgentInv, Journal!RunSettles
<1>5. Journal!JournalNext \/ UNCHANGED journalVars
  BY DEF Next, vars, StreamMoves, ViewMoves, ConsoleMoves, JournalMoves, ProvidersMove
<1> QED  BY <1>1, <1>2, <1>3, <1>4, <1>5, IngestInv DEF Journal!JournalNext, Journal!RunSettles, journalVars, WaitTypes

\* While the journal is the part that moves, what it holds of each Agent are the
\* operations that the events ingested leave unfinished (playground-execution.ts).
THEOREM JournalInductive == Spec => [](part = "journal" => JournalInv)
<1>1. Init => (part = "journal" => JournalInv)
  BY JournalInit DEF Init
<1>2. (part = "journal" => JournalInv) /\ [Next]_vars => (part = "journal" => JournalInv)'
  <2>1. [Next]_vars => part' = part
    BY DEF Next, vars, StreamMoves, ViewMoves, ConsoleMoves, JournalMoves, ProvidersMove
  <2> QED  BY <2>1, JournalStep
<1> QED  BY <1>1, <1>2, PTL DEF Spec

\* A sequence of which no element is there twice is as long as it has elements.
LEMMA DistinctCounts ==
  ASSUME NEW K, NEW q \in Seq(K), Distinct(q)
  PROVE  Len(q) = Cardinality(Elements(q))
<1>1. Len(q) \in Nat /\ q \in [1..Len(q) -> Elements(q)]
  BY DEF Elements
<1>2. \A x, y \in 1..Len(q) : q[x] = q[y] => x = y
  BY DEF Distinct
<1>3. \A t \in Elements(q) : \E x \in 1..Len(q) : q[x] = t
  BY DEF Elements
<1>4. q \in Bijection(1..Len(q), Elements(q))
  BY <1>1, <1>2, <1>3 DEF Bijection, Injection, IsInjective, Surjection
<1> QED  BY <1>1, <1>4, FS_CountingElements DEF ExistsBijection

LEMMA SameCount == \A S : Journal!Cardinality(S) = Cardinality(S)
BY DEF Journal!Cardinality, Cardinality

LEMMA AgentsHold == JournalInv => Journal!AgentsAreExact
<1> SUFFICES ASSUME JournalInv
             PROVE  Journal!AgentsAreExact
  OBVIOUS
<1>1. ASSUME NEW a \in Journal!Owners
      PROVE  /\ Journal!ToSet(jnJournal.active[a]) = Journal!Unfinished(a)
             /\ Len(jnJournal.active[a]) = Journal!Cardinality(Journal!Unfinished(a))
             /\ (jnJournal.states[a] = "running" =>
                   Journal!Unfinished(a) # {} /\ jnJournal.phases[a] # "none")
             /\ (jnJournal.states[a] = "completed" => Journal!Unfinished(a) = {})
  <2>1. jnJournal.active[a] \in Seq(KeySet)
    BY <1>1 DEF JournalInv, JournalShape, JournalRec
  <2>2. AgentInv(a)
    BY <1>1 DEF JournalInv
  <2>3. Journal!ToSet(jnJournal.active[a]) = Elements(jnJournal.active[a])
    BY <2>1 DEF Journal!ToSet, Elements
  <2> QED  BY <2>1, <2>2, <2>3, DistinctCounts, SameCount DEF AgentInv
<1> QED  BY <1>1, Zenon DEF Journal!AgentsAreExact

\* The requests that wait after the first i events.
WaitingAt(events, i) ==
  {r \in Requests : \E k \in 1..i :
     /\ events[k].key = r /\ events[k].type \in Journal!Waits
     /\ \A j \in (k + 1)..i : events[j].key = r => events[j].type \in Journal!Waits}

LEMMA WaitingStep ==
  ASSUME NEW n \in Nat, NEW events \in [1..n -> EventSet], NEW i \in 1..n
  PROVE  WaitStep(events, WaitingAt(events, i - 1), i) = WaitingAt(events, i)
<1> DEFINE Starts(k, r) == events[k].key = r /\ events[k].type \in Journal!Waits
           Keeps(k, r) == events[k].key = r => events[k].type \in Journal!Waits
           W == WaitingAt(events, i - 1)
<1>1. i \in Nat /\ i # 0 /\ i - 1 \in Nat /\ i \in 1..i /\ \A j \in (i + 1)..i : FALSE
  OBVIOUS
<1>2. \A m, r : r \in WaitingAt(events, m) <=>
                  r \in Requests /\ \E k \in 1..m : Starts(k, r) /\ \A j \in (k + 1)..m : Keeps(j, r)
  BY DEF WaitingAt
<1>3. \A k, r : Starts(k, r) => Keeps(k, r)
  OBVIOUS
<1> HIDE DEF Starts, Keeps
<1>4. ASSUME NEW r \in Requests
      PROVE  r \in WaitingAt(events, i) <=> Starts(i, r) \/ (r \in W /\ Keeps(i, r))
  <2>1. ASSUME r \in WaitingAt(events, i), ~Starts(i, r)
        PROVE  r \in W /\ Keeps(i, r)
    <3>1. PICK k \in 1..i : Starts(k, r) /\ \A j \in (k + 1)..i : Keeps(j, r)
      BY <1>2, <2>1
    <3>2. k \in 1..(i - 1) /\ i \in (k + 1)..i /\ \A j \in (k + 1)..(i - 1) : j \in (k + 1)..i
      BY <1>1, <2>1, <3>1
    <3> QED  BY <1>2, <3>1, <3>2
  <2>2. ASSUME Starts(i, r)
        PROVE  r \in WaitingAt(events, i)
    BY <1>1, <1>2, <2>2
  <2>3. ASSUME r \in W, Keeps(i, r)
        PROVE  r \in WaitingAt(events, i)
    <3>1. PICK k \in 1..(i - 1) : Starts(k, r) /\ \A j \in (k + 1)..(i - 1) : Keeps(j, r)
      BY <1>2, <2>3
    <3>2. k \in 1..i /\ \A j \in (k + 1)..i : j = i \/ j \in (k + 1)..(i - 1)
      BY <1>1
    <3> QED  BY <1>2, <2>3, <3>1, <3>2
  <2> QED  BY <2>1, <2>2, <2>3
<1>5. WaitingAt(events, i) \subseteq Requests /\ W \subseteq Requests
  BY DEF WaitingAt
<1> DEFINE e == events[i]
<1>6. e \in EventSet
  OBVIOUS
<1>7. CASE e.type \in Journal!Waits
  <2>1. e.key \in Requests
    BY <1>6, <1>7, EventKinds DEF Journal!Waits, OpTypes, Journal!Lifecycle
  <2>2. \A r : Starts(i, r) <=> e.key = r
    BY <1>7 DEF Starts
  <2>3. \A r : Keeps(i, r)
    BY <1>7 DEF Keeps
  <2>4. WaitStep(events, W, i) = W \union {e.key}
    BY <1>7 DEF WaitStep
  <2> HIDE DEF W, e
  <2> QED  BY <1>4, <1>5, <2>1, <2>2, <2>3, <2>4 DEF W
<1>8. CASE e.type \in Journal!Resumes
  <2>1. e.type \notin Journal!Waits
    BY <1>8 DEF Journal!Waits, Journal!Resumes
  <2>2. \A r : ~Starts(i, r) /\ (Keeps(i, r) <=> e.key # r)
    BY <2>1 DEF Starts, Keeps
  <2>3. WaitStep(events, W, i) = W \ {e.key}
    BY <1>8, <2>1 DEF WaitStep
  <2> HIDE DEF W, e
  <2> QED  BY <1>4, <1>5, <2>2, <2>3 DEF W
<1>9. CASE e.type \notin Journal!Waits \union Journal!Resumes
  <2>1. e.key \notin Requests
    <3>1. CASE e.type \in OpTypes /\ \E o \in Operations : e = Journal!OpEvent(e.type, o)
      BY <3>1, JournalAssumption DEF Journal!OpEvent
    <3>2. CASE e.type \in WaitTypes
      BY <1>9, <3>2 DEF WaitTypes, Journal!Waits, Journal!Resumes
    <3>3. CASE e.key = "none"
      BY <3>3, JournalAssumption
    <3> QED  BY <1>6, <3>1, <3>2, <3>3, EventKinds
  <2>2. \A r \in Requests : ~Starts(i, r) /\ Keeps(i, r)
    BY <2>1 DEF Starts, Keeps
  <2>3. WaitStep(events, W, i) = W
    BY <1>9 DEF WaitStep
  <2> HIDE DEF W, e
  <2> QED  BY <1>4, <1>5, <2>2, <2>3 DEF W
<1> QED  BY <1>7, <1>8, <1>9


LEMMA SeqIsFunction ==
  ASSUME NEW K, NEW q \in Seq(K)
  PROVE  q \in [1..Len(q) -> K]
OBVIOUS

LEMMA ShownIs ==
  ASSUME JournalInv
  PROVE  /\ jnJournal.cursor \in Nat /\ Len(Journal!Shown) = jnJournal.cursor
         /\ Journal!Shown \in [1..jnJournal.cursor -> EventSet]
<1>1. jnLog \in Seq(EventSet) /\ jnJournal.cursor \in Nat /\ jnJournal.cursor <= Len(jnLog)
  BY DEF JournalInv, JournalShape, JournalRec
<1>2. PICK s \in Seq(EventSet) : s = jnLog
  BY <1>1
<1>3. PICK n \in Nat : n = jnJournal.cursor /\ n <= Len(s)
  BY <1>1, <1>2
<1>4. SubSeq(s, 1, n) \in Seq(EventSet) /\ Len(SubSeq(s, 1, n)) = n
  BY <1>3
<1>5. SubSeq(s, 1, n) \in [1..n -> EventSet]
  BY <1>4, SeqIsFunction
<1> QED  BY <1>2, <1>3, <1>4, <1>5 DEF Journal!Shown

LEMMA WaitsHold == JournalInv => Journal!WaitsAreExact
<1> SUFFICES ASSUME JournalInv
             PROVE  Journal!WaitsAreExact
  OBVIOUS
<1>1. PICK n \in Nat : n = jnJournal.cursor
  BY ShownIs
<1>2. PICK events \in [1..n -> EventSet] : events = Journal!Shown
  BY <1>1, ShownIs
<1>3. Len(events) = n /\ DOMAIN events = 1..n
  BY <1>1, <1>2, ShownIs
<1>4. PICK w : /\ w[0] = {} /\ w[n] = Journal!waitingProviderRequests(events)
               /\ \A i \in 1..n : w[i] = WaitStep(events, w[i-1], i)
  BY <1>3, WaitsStepByStep
<1> DEFINE S == {i \in Nat : i <= n => w[i] = WaitingAt(events, i)}
<1>5. 0 \in S
  <2>1. WaitingAt(events, 0) = {}
    BY DEF WaitingAt
  <2> QED  BY <1>4, <2>1
<1>6. ASSUME NEW i \in S
      PROVE  i + 1 \in S
  <2> SUFFICES ASSUME i + 1 <= n
               PROVE  w[i + 1] = WaitingAt(events, i + 1)
    OBVIOUS
  <2>1. PICK m \in 1..n : m = i + 1 /\ m - 1 = i
    OBVIOUS
  <2>2. w[m - 1] = WaitingAt(events, m - 1)
    BY <2>1
  <2>3. w[m] = WaitStep(events, w[m - 1], m)
    BY <1>4
  <2>4. w[m] = WaitingAt(events, m)
    BY <2>2, <2>3, WaitingStep
  <2> QED  BY <2>1, <2>4
<1>7. S = Nat
  <2> HIDE DEF S
  <2>1. S \in SUBSET Nat
    BY DEF S
  <2> QED  BY <1>5, <1>6, <2>1, Induct
<1>8. Journal!waitingProviderRequests(events) = WaitingAt(events, n)
  <2>1. n \in S
    <3> HIDE DEF S
    <3> QED  BY <1>7
  <2> QED  BY <1>4, <2>1
<1> QED  BY <1>2, <1>3, <1>8 DEF Journal!WaitsAreExact, WaitingAt

\* What is told of one kind of event: the first that names an Agent, or else the first.
LEMMA MilestonesHold == JournalInv => Journal!MilestonesAreTold
<1> SUFFICES ASSUME JournalInv
             PROVE  Journal!MilestonesAreTold
  OBVIOUS
<1>1. PICK n \in Nat : n = jnJournal.cursor
  BY ShownIs
<1>2. PICK events \in [1..n -> EventSet] : events = Journal!Shown
  BY <1>1, ShownIs
<1>3. Len(events) = n
  BY <1>1, <1>2, ShownIs
<1>4. ASSUME NEW t \in Journal!Lifecycle
      PROVE  LET all == {i \in 1..Len(events) : events[i].type = t}
                 first == all \intersect Journal!traceActivities(events)
             IN /\ all # {} => Journal!Cardinality(first) = 1
                /\ (\E i \in all : events[i].agent # Journal!NoAgent)
                      => \A i \in first : events[i].agent # Journal!NoAgent
  <2> DEFINE all == {i \in 1..n : events[i].type = t}
             named == {i \in all : events[i].agent # Journal!NoAgent}
             best == IF named = {} THEN all ELSE named
             first == all \intersect Journal!traceActivities(events)
  <2>1. t \notin Journal!Bookkeeping
    BY DEF Journal!Lifecycle, Journal!Bookkeeping
  <2>2. \A i \in all : Journal!Represents(events, i) <=> i \in best /\ \A j \in best : i <= j
    <3> TAKE i \in all
    <3>1. {j \in 1..Len(events) : events[j].type = events[i].type} = all
      BY <1>3
    <3>2. Journal!Represents(events, i) <=> \A j \in best : i \in best /\ i <= j
      BY <3>1 DEF Journal!Represents
    <3>3. best # {}
      OBVIOUS
    <3> QED  BY <3>2, <3>3
  <2>3. first = {i \in all : i \in best /\ \A j \in best : i <= j}
    <3>1. \A i \in all : i \in Journal!traceActivities(events) <=> Journal!Represents(events, i)
      BY <1>3, <2>1 DEF Journal!traceActivities
    <3> QED  BY <2>2, <3>1
  <2>4. best \subseteq all /\ best \in SUBSET Nat
    OBVIOUS
  <2>5. ASSUME all # {}
        PROVE  Journal!Cardinality(first) = 1
    <3>1. best # {}
      BY <2>5
    <3>2. PICK x \in best : \A j \in best : x <= j
      <4> HIDE DEF best
      <4> QED  BY <2>4, <3>1, Least
    <3>3. first = {x}
      BY <2>3, <2>4, <3>2
    <3> HIDE DEF first
    <3> QED  BY <3>3, FS_Singleton, SameCount
  <2>6. ASSUME \E i \in all : events[i].agent # Journal!NoAgent
        PROVE  \A i \in first : events[i].agent # Journal!NoAgent
    BY <2>3, <2>6
  <2> QED  BY <1>3, <2>5, <2>6
<1> QED  BY <1>2, <1>4 DEF Journal!MilestonesAreTold

\* Whatever is replayed twice, the journal holds exactly what is unfinished,
\* what waits and what is first (playground-execution.ts, trace-activity.ts).
THEOREM JournalsAreExact == Spec => []JournalIsExact
<1>1. (part = "journal" => JournalInv) => JournalIsExact
  BY AgentsHold, WaitsHold, MilestonesHold DEF JournalIsExact, Journal!JournalIsExact
<1> QED  BY <1>1, JournalInductive, PTL

-----------------------------------------------------------------------------
(* The Providers page: what is proved of it in ProvidersPageProofs.        *)

Steady == INSTANCE ProvidersPageProofs

LEMMA PageIsBounded == Steady!Bounded
BY LiveAssumption DEF Steady!Bounded

\* Two instances of one module say the same.
LEMMA SameInit == Providers!ProvidersInit <=> Steady!ProvidersInit
BY DEF
      Providers!ProvidersInit, Providers!Nothing, Providers!NewPage, Providers!NoWorker,
      Providers!NoFlow, Providers!Absent, Providers!Model, Providers!Mounts,
      Steady!ProvidersInit, Steady!Nothing, Steady!NewPage, Steady!NoWorker, Steady!NoFlow,
      Steady!Absent, Steady!Model, Steady!Mounts

LEMMA SameType == Providers!ProvidersTypeOK <=> Steady!ProvidersTypeOK
BY DEF Providers!ProvidersTypeOK, Providers!Known, Providers!Absent, Providers!Model,
       Providers!Mounts, Providers!Loops, Steady!ProvidersTypeOK, Steady!Known, Steady!Absent,
       Steady!Model, Steady!Mounts, Steady!Loops

LEMMA SameNext == Providers!ProvidersNext <=> Steady!ProvidersNext
BY DEF
      Providers!pvRest, Providers!Mounts, Providers!Model, Providers!Absent, Providers!Known,
      Providers!Nothing, Providers!NoWorker, Providers!NoFlow, Providers!Flow,
      Providers!Loops, Providers!NewPage, Providers!isProviderVerificationBlocked,
      Providers!needsQualification, Providers!Proven, Providers!Outstanding, Providers!Sets,
      Providers!Proceed, Providers!Release, Providers!Listing, Providers!Free,
      Providers!Begins, Providers!Acquire, Providers!Locked, Providers!Turns,
      Providers!LoadReads, Providers!LoadAnswered, Providers!openCreate, Providers!openEdit,
      Providers!CloseDialog, Providers!Delete, Providers!Unmount, Providers!Mount,
      Providers!Submit, Providers!Saved, Providers!SaveFails, Providers!testConnection,
      Providers!Connected, Providers!Fails, Providers!ConnectionFails,
      Providers!refreshProvider, Providers!discover, Providers!startQualification,
      Providers!Started, Providers!DiscoveryFails, Providers!Concludes, Providers!Head,
      Providers!Listed, Providers!Restarted, Providers!VerificationBegins, Providers!Answer,
      Providers!AlreadyClaimed, Providers!Interrupted, Providers!Outcomes,
      Providers!VerificationEnds, Providers!VerificationLost, Providers!verifySingle,
      Providers!Relisted, Providers!viewModels, Providers!Viewed, Providers!stopQualification,
      Providers!StopArrives, Providers!Press, Providers!Replies, Providers!ProvidersNext,
      Steady!pvRest, Steady!Mounts, Steady!Model, Steady!Absent, Steady!Known, Steady!Nothing,
      Steady!NoWorker, Steady!NoFlow, Steady!Flow, Steady!Loops, Steady!NewPage,
      Steady!isProviderVerificationBlocked, Steady!needsQualification, Steady!Proven,
      Steady!Outstanding, Steady!Sets, Steady!Proceed, Steady!Release, Steady!Listing,
      Steady!Free, Steady!Begins, Steady!Acquire, Steady!Locked, Steady!Turns,
      Steady!LoadReads, Steady!LoadAnswered, Steady!openCreate, Steady!openEdit,
      Steady!CloseDialog, Steady!Delete, Steady!Unmount, Steady!Mount, Steady!Submit,
      Steady!Saved, Steady!SaveFails, Steady!testConnection, Steady!Connected, Steady!Fails,
      Steady!ConnectionFails, Steady!refreshProvider, Steady!discover,
      Steady!startQualification, Steady!Started, Steady!DiscoveryFails, Steady!Concludes,
      Steady!Head, Steady!Listed, Steady!Restarted, Steady!VerificationBegins, Steady!Answer,
      Steady!AlreadyClaimed, Steady!Interrupted, Steady!Outcomes, Steady!VerificationEnds,
      Steady!VerificationLost, Steady!verifySingle, Steady!Relisted, Steady!viewModels,
      Steady!Viewed, Steady!stopQualification, Steady!StopArrives, Steady!Press,
      Steady!Replies, Steady!ProvidersNext

\* Which coroutine of the page holds the lock and where it can be, who waits
\* for a server, and that a loop whose Stop is on record has at most the
\* verification under way (providers.tsx), beside the other parts as well.
THEOREM ProvidersInductive == Spec => []Steady!ProvidersInv
<1>1. Init => Steady!ProvidersInv
  BY PageIsBounded, SameInit, Steady!ProvidersStart DEF Init
<1>2. Steady!ProvidersInv /\ [Next]_vars => Steady!ProvidersInv'
  <2>1. CASE ProvidersMove
    BY <2>1, PageIsBounded, SameNext, Steady!ProvidersStep DEF ProvidersMove
  <2>2. CASE UNCHANGED providersVars
    BY <2>2, Steady!ProvidersStutter DEF providersVars, Steady!pvVars, Steady!pvRest
  <2> QED  BY <2>1, <2>2 DEF Next, vars, StreamMoves, ViewMoves, ConsoleMoves, JournalMoves
<1> QED  BY <1>1, <1>2, PTL DEF Spec

-----------------------------------------------------------------------------
(* The shape of every part.                                                *)

LEMMA StreamKeepsShape == StreamInv => Stream!TypeOK /\ Stream!LimitHolds
<1> SUFFICES ASSUME StreamInv
             PROVE  Stream!TypeOK /\ Stream!LimitHolds
  OBVIOUS
<1>1. \A S : Stream!Cardinality(S) = Cardinality(S)
  BY DEF Stream!Cardinality, Cardinality
<1>2. Stream!TypeOK /\ slots \in Nat /\ SlotLimit \in Nat /\ slots <= SlotLimit
  BY LiveAssumption DEF StreamInv, StreamShape, SlotInv, Stream!TypeOK
<1>3. IsFiniteSet(Holders) /\ Stream!Open \subseteq Holders
  BY LiveAssumption, FS_Subset DEF Holders, Stream!Open
<1>4. PICK n, m \in Nat : n = Cardinality(Stream!Open) /\ m = Cardinality(Holders) /\ n <= m
  <2>1. IsFiniteSet(Stream!Open) /\ Cardinality(Stream!Open) <= Cardinality(Holders)
    BY <1>3, FS_Subset
  <2>2. Cardinality(Stream!Open) \in Nat /\ Cardinality(Holders) \in Nat
    BY <1>3, <2>1, FS_CardinalityType
  <2> QED  BY <2>1, <2>2
<1>5. PICK s, l \in Nat : s = slots /\ l = SlotLimit /\ m <= s /\ s <= l
  BY <1>2, <1>4 DEF StreamInv, SlotInv
<1>6. n <= l /\ s >= n
  BY <1>4, <1>5
<1> QED  BY <1>1, <1>2, <1>4, <1>5, <1>6 DEF Stream!LimitHolds

LEMMA ConsoleKeepsShape == ConsoleInv => Console!ConsoleTypeOK
BY DEF ConsoleInv, ConsoleTyped, PageRecord, RunRecord, LoadRecord, Boots, LoadSteps, StreamSteps,
       Console!ConsoleTypeOK, Console!Streams

LEMMA JournalKeepsShape == JournalInv => Journal!JournalTypeOK
<1> SUFFICES ASSUME JournalInv
             PROVE  Journal!JournalTypeOK
  OBVIOUS
<1>1. PICK n \in Nat : n = Len(jnLog)
  BY DEF JournalInv, JournalShape
<1>2. jnJournal.cursor \in Nat /\ jnJournal.cursor <= n /\ n <= MaxJournal
  BY <1>1 DEF JournalInv, JournalShape, JournalRec
<1>3. jnJournal.states \in [Journal!Owners -> AgentStates]
  BY DEF JournalInv, JournalShape, JournalRec
<1> QED  BY <1>1, <1>2, <1>3 DEF JournalInv, JournalShape, Journal!JournalTypeOK, AgentStates, Journal!Unstarted

\* The part that moves keeps its shape, and a token never has more live
\* streams open than its limit (run_stream.py, RunPage, providers.tsx).
THEOREM LiveTypes == Spec => []LiveTypeOK
<1>1. /\ part = "stream" => StreamInv
      /\ part = "view" => ViewInv
      /\ part = "console" => ConsoleInv
      /\ part = "journal" => JournalInv
      /\ Steady!ProvidersInv
      => LiveTypeOK
  BY StreamKeepsShape, ConsoleKeepsShape, JournalKeepsShape, PageIsBounded, SameType,
     Steady!ProvidersPromise DEF ViewInv, LiveTypeOK
<1> QED  BY <1>1, StreamInductive, ViewInductive, ConsoleInductive, JournalInductive,
            ProvidersInductive, PTL
=============================================================================
