----------------------- MODULE ExecutionStreamProofs -------------------------
(***************************************************************************)
(* Proofs about ExecutionStream for all streams, keys, policies, buffer    *)
(* capacities and sequence bounds.                                         *)
(***************************************************************************)
EXTENDS ExecutionStream, SequenceTheorems, TLAPS

Emitted(s) == { n \in 1..MaxSequence : sequencer[s].exhausted \/ n < sequencer[s].next }
SameId(x, y) == x.stream = y.stream /\ x.sequence = y.sequence

(* Sequences come from the sequencer, and no two items in transit share    *)
(* one; an item in transit that the tracker has passed was reported        *)
(* missing.  This holds behind any producer.                               *)
Numbered ==
  /\ \A x \in held \cup Pending \cup lost \cup delivered : x.sequence \in Emitted(x.stream)
  /\ \A s \in Streams : last[s] # 0 => last[s] \in Emitted(s)

InTransitOnce ==
  /\ \A x, y \in held : SameId(x, y) => x = y
  /\ \A i, j \in Positions : SameId(buffer[i], buffer[j]) => i = j
  /\ \A x \in held, i \in Positions : ~SameId(x, buffer[i])

SeenIsPassed ==
  /\ \A x \in delivered : x.sequence <= last[x.stream]
  /\ \A s \in Streams : \A n \in missed[s] : n <= last[s]

PassedIsMissed ==
  \A x \in held \cup Pending : x.sequence <= last[x.stream] => x.sequence \in missed[x.stream]

(* Behind patient producers items stay in the order of their sequences,    *)
(* and every sequence emitted is in transit, lost or delivered.            *)
InOrder ==
  /\ \A x, y \in held : x.stream = y.stream => x = y
  /\ \A i, j \in Positions :
       i < j /\ buffer[i].stream = buffer[j].stream => buffer[i].sequence < buffer[j].sequence
  /\ \A x \in held, i \in Positions :
       x.stream = buffer[i].stream => buffer[i].sequence < x.sequence
  /\ \A x \in held \cup Pending : x.sequence > last[x.stream]

Accounted ==
  /\ \A s \in Streams : \A n \in Emitted(s) :
       \E x \in held \cup Pending \cup lost \cup delivered : x.stream = s /\ x.sequence = n
  /\ \A x \in delivered : x.sequence <= last[x.stream]
  /\ \A x \in lost : x.sequence # last[x.stream]
  /\ \A x \in lost : \A y \in held \cup Pending : ~SameId(x, y)

IInv ==
  /\ TypeOK
  /\ Numbered
  /\ InTransitOnce
  /\ PassedIsMissed
  /\ SeenIsPassed
  /\ patient => InOrder /\ Accounted
  /\ GapsAreLosses
  /\ NewestSurvives

-----------------------------------------------------------------------------
(* What RemoveAt leaves.                                                   *)
LEMMA RemovedAt ==
  ASSUME NEW S, NEW q \in Seq(S), NEW i \in 1..Len(q)
  PROVE  /\ RemoveAt(q, i) \in Seq(S)
         /\ Len(RemoveAt(q, i)) = Len(q) - 1
         /\ \A j \in 1..(Len(q) - 1) :
              RemoveAt(q, i)[j] = IF j < i THEN q[j] ELSE q[j + 1]
<1> DEFINE a == SubSeq(q, 1, i - 1)
           b == SubSeq(q, i + 1, Len(q))
<1>1. a \in Seq(S) /\ Len(a) = i - 1 /\ \A j \in 1..(i - 1) : a[j] = q[j]
  OBVIOUS
<1>2. b \in Seq(S) /\ Len(b) = Len(q) - i /\ \A j \in 1..(Len(q) - i) : b[j] = q[i + j]
  OBVIOUS
<1>3. RemoveAt(q, i) = a \o b
  BY DEF RemoveAt
<1> HIDE DEF a, b
<1>4. /\ a \o b \in Seq(S) /\ Len(a \o b) = Len(a) + Len(b)
      /\ \A j \in 1..(Len(a) + Len(b)) :
            (a \o b)[j] = IF j <= Len(a) THEN a[j] ELSE b[j - Len(a)]
  <2>1. a \in Seq(S) /\ b \in Seq(S)
    BY <1>1, <1>2
  <2>2. QED BY <2>1, ConcatProperties
<1>5. ASSUME NEW j \in 1..(Len(q) - 1)
      PROVE  (a \o b)[j] = IF j < i THEN q[j] ELSE q[j + 1]
  <2>1. Len(q) \in Nat /\ Len(a) = i - 1 /\ Len(b) = Len(q) - i /\ j \in 1..(Len(a) + Len(b))
    BY <1>1, <1>2, LenProperties
  <2>2. CASE j < i
    <3>1. j \in 1..(i - 1) /\ j <= Len(a)
      BY <2>1, <2>2
    <3>2. QED BY <1>1, <1>4, <2>1, <2>2, <3>1
  <2>3. CASE ~(j < i)
    <3>1. /\ j - Len(a) \in 1..(Len(q) - i) /\ ~(j <= Len(a)) /\ i + (j - Len(a)) = j + 1
      BY <2>1, <2>3
    <3>2. b[j - Len(a)] = q[j + 1]
      BY <1>2, <3>1
    <3>3. QED BY <1>4, <2>1, <2>3, <3>1, <3>2
  <2>4. QED BY <2>2, <2>3
<1>6. QED BY <1>1, <1>2, <1>3, <1>4, <1>5

(* An item appended to what is left when the one at i is gone.             *)
Shifted(i, j) == IF j < i THEN j ELSE j + 1

LEMMA AppendedAfter ==
  ASSUME NEW S, NEW q \in Seq(S), NEW i \in 1..(Len(q) + 1), NEW x \in S,
         NEW rest \in Seq(S), NEW z, z = Append(rest, x),
         Len(rest) = IF i <= Len(q) THEN Len(q) - 1 ELSE Len(q),
         \A j \in 1..Len(rest) : rest[j] = q[Shifted(i, j)]
  PROVE  /\ z \in Seq(S)
         /\ Len(z) = IF i <= Len(q) THEN Len(q) ELSE Len(q) + 1
         /\ z[Len(z)] = x
         /\ \A j \in 1..(Len(z) - 1) : z[j] = q[Shifted(i, j)]
<1>1. /\ z \in Seq(S) /\ Len(z) = Len(rest) + 1 /\ z[Len(rest) + 1] = x
      /\ \A j \in 1..Len(rest) : z[j] = rest[j]
  BY AppendProperties
<1>2. Len(rest) \in Nat /\ Len(q) \in Nat
  BY LenProperties
<1>3. QED BY <1>1, <1>2

(* An accepted push: one pending item may go, the new one comes last.      *)
Slots == 1..(Len(buffer) + 1)

Pushed(x, i) ==
  /\ buffer' \in Seq(StreamItem)
  /\ Len(buffer') = IF i <= Len(buffer) THEN Len(buffer) ELSE Len(buffer) + 1
  /\ Len(buffer') <= Capacity
  /\ buffer'[Len(buffer')] = x
  /\ \A j \in 1..(Len(buffer') - 1) : buffer'[j] = buffer[Shifted(i, j)]
  /\ lost' = lost \cup { buffer[j] : j \in Positions \cap {i} }
  /\ policy = "Lossless" => i = Len(buffer) + 1
  /\ policy = "Coalescing" /\ i \in Positions => Coalesces(i, x)

LEMMA PushForm ==
  ASSUME TypeOK, NEW x \in held, Push(x)
  PROVE  \E i \in Slots : Pushed(x, i)
<1>1. /\ buffer \in Seq(StreamItem) /\ Len(buffer) \in Nat /\ Len(buffer) <= Capacity
      /\ x \in StreamItem /\ Capacity \in Nat \ {0}
  BY StreamAssumption DEF TypeOK
<1>2. CASE Enqueue(x)
  <2>1. Len(buffer) + 1 \in Slots /\ \A j \in Positions : Shifted(Len(buffer) + 1, j) = j
    BY <1>1 DEF Slots, Positions, Shifted
  <2>2. buffer' = Append(buffer, x) /\ lost' = lost /\ Len(buffer) + 1 <= Capacity
    BY <1>1, <1>2 DEF Enqueue, Full
  <2>3. /\ buffer' \in Seq(StreamItem) /\ Len(buffer') = Len(buffer) + 1
        /\ buffer'[Len(buffer) + 1] = x
        /\ \A j \in Positions : buffer'[j] = buffer[j]
    BY <1>1, <2>2 DEF Positions
  <2>4. Pushed(x, Len(buffer) + 1)
    BY <1>1, <2>1, <2>2, <2>3 DEF Pushed, Positions
  <2>5. QED BY <2>1, <2>4
<1>3. CASE policy = "Coalescing" /\ Replace(x)
  <2>1. PICK i \in Positions : Coalesces(i, x) /\ buffer' = Append(RemoveAt(buffer, i), x)
                               /\ lost' = lost \cup {buffer[i]}
    BY <1>3 DEF Replace
  <2> DEFINE rest == RemoveAt(buffer, i)
  <2>2. /\ rest \in Seq(StreamItem) /\ Len(rest) = Len(buffer) - 1
        /\ \A j \in 1..Len(rest) : rest[j] = buffer[Shifted(i, j)]
    BY <1>1, <2>1, RemovedAt DEF Positions, Shifted
  <2>3. /\ i \in 1..(Len(buffer) + 1) /\ i \in Slots /\ i <= Len(buffer)
        /\ i \in Positions \cap {i} /\ buffer' = Append(rest, x)
    BY <1>1, <2>1 DEF Positions, Slots
  <2> HIDE DEF rest
  <2>4. /\ buffer' \in Seq(StreamItem) /\ Len(buffer') = Len(buffer)
        /\ buffer'[Len(buffer')] = x
        /\ \A j \in 1..(Len(buffer') - 1) : buffer'[j] = buffer[Shifted(i, j)]
    BY <1>1, <2>2, <2>3, AppendedAfter
  <2>5. Pushed(x, i)
    BY <1>1, <1>3, <2>1, <2>3, <2>4 DEF Pushed
  <2>6. QED BY <2>3, <2>5
<1>4. CASE policy = "Lossy" /\ Full /\ DropOldest(x)
  <2>1. /\ buffer # <<>> /\ 1 \in Positions /\ 1 \in Slots
        /\ Head(buffer) = buffer[1] /\ 1 <= Len(buffer)
    BY <1>1, <1>4 DEF Full, Positions, Slots
  <2> DEFINE rest == Tail(buffer)
  <2>2. /\ rest \in Seq(StreamItem) /\ Len(rest) = Len(buffer) - 1
        /\ \A j \in 1..Len(rest) : rest[j] = buffer[Shifted(1, j)]
    BY <1>1, <2>1, HeadTailProperties DEF Shifted
  <2>3. buffer' = Append(rest, x) /\ lost' = lost \cup {buffer[1]}
    BY <1>4, <2>1 DEF DropOldest
  <2> HIDE DEF rest
  <2>4. /\ buffer' \in Seq(StreamItem) /\ Len(buffer') = Len(buffer)
        /\ buffer'[Len(buffer')] = x
        /\ \A j \in 1..(Len(buffer') - 1) : buffer'[j] = buffer[Shifted(1, j)]
    BY <1>1, <2>1, <2>2, <2>3, AppendedAfter DEF Slots
  <2>5. Pushed(x, 1)
    BY <1>1, <1>4, <2>1, <2>3, <2>4 DEF Pushed
  <2>6. QED BY <2>1, <2>5
<1>5. QED
  BY <1>2, <1>3, <1>4 DEF Push, PushLossless, PushCoalescing, PushLossy


(* The same push, on sets.                                                 *)
LEMMA PushSets ==
  ASSUME TypeOK, NEW x \in StreamItem, NEW i \in Slots, Pushed(x, i)
  PROVE  /\ x \in Pending' /\ Pending' \subseteq Pending \cup {x}
         /\ \A y \in Pending : y \in Pending' \/ (i \in Positions /\ y = buffer[i])
         /\ lost \subseteq lost' /\ lost' \subseteq lost \cup Pending
         /\ i \in Positions => buffer[i] \in lost'
         /\ \A y \in lost' : y \in lost \/ (i \in Positions /\ y = buffer[i])
<1> DEFINE n == Len(buffer)
           m == Len(buffer')
<1>1. n \in Nat /\ m \in Nat /\ m = (IF i <= n THEN n ELSE n + 1) /\ i \in 1..(n + 1)
  BY LenProperties DEF TypeOK, Pushed, Slots
<1>2. /\ buffer'[m] = x /\ \A j \in 1..(m - 1) : buffer'[j] = buffer[Shifted(i, j)]
      /\ lost' = lost \cup { buffer[j] : j \in Positions \cap {i} }
  BY DEF Pushed
<1>3. Pending' = { buffer'[j] : j \in 1..m } /\ Pending = { buffer[j] : j \in 1..n }
      /\ Positions = 1..n
  BY DEF Pending, Positions
<1> HIDE DEF n, m
<1>4. x \in Pending'
  <2>1. m \in 1..m
    BY <1>1
  <2>2. QED BY <1>2, <1>3, <2>1
<1>5. ASSUME NEW j \in 1..m PROVE buffer'[j] \in Pending \cup {x}
  <2>1. CASE j = m
    BY <1>2, <2>1
  <2>2. CASE j # m
    <3>1. j \in 1..(m - 1) /\ Shifted(i, j) \in 1..n
      BY <1>1, <2>2 DEF Shifted
    <3>2. QED BY <1>2, <1>3, <3>1
  <2>3. QED BY <2>1, <2>2
<1>6. ASSUME NEW j \in 1..n, j # i PROVE buffer[j] \in Pending'
  <2> DEFINE l == IF j < i THEN j ELSE j - 1
  <2>1. l \in 1..(m - 1) /\ l \in 1..m /\ Shifted(i, l) = j
    BY <1>1, <1>6 DEF Shifted
  <2>2. QED BY <1>2, <1>3, <2>1
<1>7. QED BY <1>2, <1>3, <1>4, <1>5, <1>6

-----------------------------------------------------------------------------
LEMMA StreamInitStep == Init => IInv
<1> SUFFICES ASSUME Init PROVE IInv
  OBVIOUS
<1>1. /\ held = {} /\ buffer = <<>> /\ lost = {} /\ delivered = {} /\ Len(buffer) = 0
      /\ \A s \in Streams : last[s] = 0 /\ missed[s] = {} /\ late[s] = {}
  BY DEF Init
<1>2. Positions = {} /\ Pending = {}
  BY <1>1 DEF Positions, Pending
<1>3. TypeOK
  BY StreamAssumption, <1>1 DEF Init, TypeOK, FIRST
<1>4. \A s \in Streams : Emitted(s) = {}
  BY DEF Init, Emitted, FIRST
<1>5. Numbered /\ InTransitOnce /\ PassedIsMissed /\ SeenIsPassed /\ InOrder
  BY <1>1, <1>2 DEF Numbered, InTransitOnce, PassedIsMissed, SeenIsPassed, InOrder
<1>6. Accounted /\ GapsAreLosses /\ NewestSurvives
  BY <1>1, <1>2, <1>4 DEF Accounted, GapsAreLosses, NewestSurvives, Of, Sequences
<1>7. QED BY <1>3, <1>5, <1>6 DEF IInv

-----------------------------------------------------------------------------
(* An item that is emitted has a sequence nothing else of its stream has.  *)
LEMMA EmitFacts ==
  ASSUME TypeOK, NEW s \in Streams, NEW k \in Keys, Emit(s, k)
  PROVE  LET x == [stream |-> s, sequence |-> sequencer[s].next, key |-> k]
         IN /\ x \in StreamItem /\ held' = held \cup {x}
            /\ Emitted(s)' = Emitted(s) \cup {x.sequence}
            /\ \A n \in Emitted(s) : n < x.sequence
            /\ \A t \in Streams \ {s} : Emitted(t)' = Emitted(t)
<1> DEFINE x == [stream |-> s, sequence |-> sequencer[s].next, key |-> k]
           q == sequencer[s]
<1>1. /\ q.next \in 1..MaxSequence /\ ~q.exhausted /\ x.sequence = q.next
      /\ sequencer' = [sequencer EXCEPT ![s] = After(q)] /\ held' = held \cup {x}
  BY DEF Emit, TypeOK
<1>2. q \in [next : 1..MaxSequence, exhausted : BOOLEAN] /\ MaxSequence \in Nat
  BY StreamAssumption DEF TypeOK
<1>3. sequencer'[s] = After(q) /\ \A t \in Streams \ {s} : sequencer'[t] = sequencer[t]
  BY <1>1 DEF TypeOK
<1>4. x \in StreamItem
  BY <1>1 DEF StreamItem
<1> HIDE DEF q
<1>5. { n \in 1..MaxSequence : After(q).exhausted \/ n < After(q).next }
         = { n \in 1..MaxSequence : q.exhausted \/ n < q.next } \cup {q.next}
  <2>1. CASE q.next = MaxSequence
    <3>1. After(q).exhausted
      BY <1>2, <2>1 DEF After
    <3>2. QED BY <1>1, <1>2, <2>1, <3>1
  <2>2. CASE q.next # MaxSequence
    <3>1. After(q).next = q.next + 1 /\ ~After(q).exhausted
      BY <1>1, <1>2, <2>2 DEF After
    <3>2. QED BY <1>1, <1>2, <2>2, <3>1
  <2>3. QED BY <2>1, <2>2
<1>6. Emitted(s)' = Emitted(s) \cup {x.sequence}
  BY <1>1, <1>3, <1>5 DEF Emitted, q
<1>7. \A n \in Emitted(s) : n < x.sequence
  BY <1>1 DEF Emitted, q
<1>8. \A t \in Streams \ {s} : Emitted(t)' = Emitted(t)
  BY <1>3 DEF Emitted
<1>9. QED BY <1>1, <1>4, <1>6, <1>7, <1>8

LEMMA EmitStep ==
  ASSUME IInv, NEW s \in Streams, NEW k \in Keys, Emit(s, k)
  PROVE  IInv'
<1> DEFINE x == [stream |-> s, sequence |-> sequencer[s].next, key |-> k]
<1>1. TypeOK
  BY DEF IInv
<1>2. /\ x \in StreamItem /\ held' = held \cup {x} /\ x.stream = s
      /\ Emitted(s)' = Emitted(s) \cup {x.sequence}
      /\ \A n \in Emitted(s) : n < x.sequence
      /\ \A t \in Streams \ {s} : Emitted(t)' = Emitted(t)
  BY <1>1, EmitFacts
<1>3. /\ policy' = policy /\ patient' = patient /\ buffer' = buffer /\ lost' = lost
      /\ last' = last /\ delivered' = delivered /\ missed' = missed /\ late' = late
      /\ patient => Of(s, held) = {}
  BY DEF Emit, tracking
<1>4. Pending' = Pending /\ Positions' = Positions
  BY <1>3 DEF Pending, Positions
<1>5. x.sequence \in 1..MaxSequence /\ MaxSequence \in Nat
  BY <1>2, StreamAssumption DEF StreamItem
<1>6. /\ Pending \subseteq StreamItem /\ held \subseteq StreamItem /\ lost \subseteq StreamItem
      /\ delivered \subseteq StreamItem /\ \A i \in Positions : buffer[i] \in Pending
  BY <1>1, ElementOfSeq DEF TypeOK, Pending, Positions
<1>7. \A t \in Streams : Emitted(t) \subseteq 1..MaxSequence
  BY DEF Emitted
<1>8. TypeOK'
  <2>1. sequencer' \in [Streams -> [next : 1..MaxSequence, exhausted : BOOLEAN]]
    <3>1. sequencer' = [sequencer EXCEPT ![s] = After(sequencer[s])]
      BY DEF Emit
    <3>2. ASSUME NEW q \in [next : 1..MaxSequence, exhausted : BOOLEAN]
          PROVE  After(q) \in [next : 1..MaxSequence, exhausted : BOOLEAN]
      <4>1. q.next \in 1..MaxSequence /\ q.exhausted \in BOOLEAN
        OBVIOUS
      <4>2. q.next # MaxSequence => q.next + 1 \in 1..MaxSequence
        BY <1>5, <4>1
      <4>3. QED BY <4>1, <4>2 DEF After
    <3>3. sequencer \in [Streams -> [next : 1..MaxSequence, exhausted : BOOLEAN]]
      BY <1>1 DEF TypeOK
    <3>4. QED BY <3>1, <3>2, <3>3
  <2>2. QED BY <1>1, <1>2, <1>3, <2>1 DEF TypeOK
<1> HIDE DEF x
<1>9. ASSUME NEW y \in held \cup Pending \cup lost \cup delivered
      PROVE  y \in StreamItem /\ y.stream \in Streams /\ y.sequence \in Emitted(y.stream)
             /\ (y.stream = s => y.sequence < x.sequence)
  BY <1>2, <1>6 DEF IInv, Numbered, StreamItem
<1>10. Numbered'
  BY <1>2, <1>3, <1>4, <1>6, <1>9 DEF IInv, Numbered, StreamItem
<1>11. \A y \in held \cup Pending \cup lost \cup delivered : ~SameId(x, y) /\ ~SameId(y, x)
  BY <1>2, <1>5, <1>7, <1>9 DEF SameId
<1>12. InTransitOnce'
  <2>1. InTransitOnce
    BY DEF IInv
  <2>2. QED BY <1>2, <1>3, <1>4, <1>6, <1>11, <2>1 DEF InTransitOnce, SameId
<1>13. last[s] < x.sequence
  BY <1>1, <1>2, <1>5 DEF IInv, Numbered, TypeOK
<1>14. PassedIsMissed'
  BY <1>1, <1>2, <1>3, <1>4, <1>5, <1>13 DEF IInv, PassedIsMissed, TypeOK
<1>15. ASSUME patient PROVE InOrder'
  <2>1. InOrder /\ \A y \in held : y.stream # s
    BY <1>3, <1>15 DEF IInv, Of
  <2>2. \A i \in Positions : buffer[i].stream = s => buffer[i].sequence < x.sequence
    BY <1>6, <1>9
  <2>3. QED BY <1>1, <1>2, <1>3, <1>4, <1>5, <1>13, <2>1, <2>2 DEF InOrder, TypeOK
<1>16. ASSUME patient PROVE Accounted'
  <2>1. Accounted
    BY <1>16 DEF IInv
  <2>2. ASSUME NEW t \in Streams, NEW n \in Emitted(t)'
        PROVE  \E y \in held' \cup Pending' \cup lost' \cup delivered' : y.stream = t /\ y.sequence = n
    <3>1. CASE t = s /\ n = x.sequence
      BY <1>2, <3>1
    <3>2. CASE n \in Emitted(t)
      BY <1>2, <1>3, <1>4, <2>1, <3>2 DEF Accounted
    <3>3. QED BY <1>2, <3>1, <3>2
  <2>3. \A y \in lost' : \A z \in held' \cup Pending' : ~SameId(y, z)
    BY <1>2, <1>3, <1>4, <1>11, <2>1 DEF Accounted
  <2>4. QED BY <1>3, <2>1, <2>2, <2>3 DEF Accounted
<1>17. GapsAreLosses' /\ NewestSurvives' /\ SeenIsPassed'
  BY <1>3, <1>4 DEF IInv, GapsAreLosses, NewestSurvives, SeenIsPassed, Of, Sequences
<1>18. QED BY <1>3, <1>8, <1>10, <1>12, <1>14, <1>15, <1>16, <1>17 DEF IInv


-----------------------------------------------------------------------------
LEMMA PushStep ==
  ASSUME IInv, NEW x \in held, Push(x)
  PROVE  IInv'
<1>1. TypeOK /\ x \in StreamItem /\ x.stream \in Streams /\ x.sequence \in 1..MaxSequence
  BY DEF IInv, TypeOK, StreamItem
<1>2. /\ held' = held \ {x} /\ policy' = policy /\ patient' = patient
      /\ sequencer' = sequencer /\ last' = last /\ delivered' = delivered
      /\ missed' = missed /\ late' = late
  BY DEF Push, tracking
<1>3. PICK i \in Slots : Pushed(x, i)
  BY <1>1, PushForm
<1>4. /\ x \in Pending' /\ Pending' \subseteq Pending \cup {x}
      /\ \A y \in Pending : y \in Pending' \/ (i \in Positions /\ y = buffer[i])
      /\ lost \subseteq lost' /\ lost' \subseteq lost \cup Pending
      /\ i \in Positions => buffer[i] \in lost'
      /\ \A y \in lost' : y \in lost \/ (i \in Positions /\ y = buffer[i])
  BY <1>1, <1>3, PushSets
<1>5. /\ Pending \subseteq StreamItem /\ held \subseteq StreamItem /\ lost \subseteq StreamItem
      /\ delivered \subseteq StreamItem /\ \A j \in Positions : buffer[j] \in Pending
  BY <1>1, ElementOfSeq DEF TypeOK, Pending, Positions
<1>6. MaxSequence \in Nat /\ last \in [Streams -> 0..MaxSequence] /\ Len(buffer) \in Nat
  BY <1>1, StreamAssumption, LenProperties DEF TypeOK
<1>7. TypeOK'
  BY <1>1, <1>2, <1>3, <1>4, <1>5 DEF TypeOK, Pushed
<1>8. \A s \in Streams : Emitted(s)' = Emitted(s)
  BY <1>2 DEF Emitted
<1>9. Numbered'
  BY <1>1, <1>2, <1>4, <1>5, <1>8 DEF IInv, Numbered, StreamItem
(* What stands at a position after the push.                               *)
<1>10. ASSUME NEW j \in Positions'
       PROVE  \/ j = Len(buffer') /\ buffer'[j] = x
              \/ /\ j < Len(buffer') /\ Shifted(i, j) \in Positions /\ Shifted(i, j) # i
                 /\ buffer'[j] = buffer[Shifted(i, j)]
  <2>1. /\ i \in 1..(Len(buffer) + 1) /\ j \in 1..Len(buffer')
        /\ Len(buffer') = IF i <= Len(buffer) THEN Len(buffer) ELSE Len(buffer) + 1
        /\ buffer'[Len(buffer')] = x
        /\ \A l \in 1..(Len(buffer') - 1) : buffer'[l] = buffer[Shifted(i, l)]
    BY <1>3 DEF Slots, Positions, Pushed
  <2>2. CASE j = Len(buffer')
    BY <2>1, <2>2
  <2>3. CASE j # Len(buffer')
    <3>1. j \in 1..(Len(buffer') - 1) /\ j < Len(buffer')
      BY <1>6, <2>1, <2>3
    <3>2. Shifted(i, j) \in 1..Len(buffer) /\ Shifted(i, j) # i
      BY <1>6, <2>1, <3>1 DEF Shifted
    <3>3. QED BY <2>1, <3>1, <3>2 DEF Positions
  <2>4. QED BY <2>2, <2>3
<1>11. \A j, l \in Positions' :
         /\ j < l => Shifted(i, j) < Shifted(i, l)
         /\ Shifted(i, j) = Shifted(i, l) => j = l
  <2>1. Len(buffer') \in Nat /\ i \in Int
    BY <1>3, <1>6 DEF Pushed, Slots
  <2>2. QED BY <2>1 DEF Shifted, Positions
<1>12. InTransitOnce'
  <2>1. InTransitOnce
    BY DEF IInv
  <2>2. \A j \in Positions : ~SameId(x, buffer[j]) /\ ~SameId(buffer[j], x)
    BY <2>1 DEF InTransitOnce, SameId
  <2>3. \A y, z \in held' : SameId(y, z) => y = z
    BY <1>2, <2>1 DEF InTransitOnce
  <2>4. ASSUME NEW j \in Positions', NEW l \in Positions', SameId(buffer'[j], buffer'[l])
        PROVE  j = l
    <3>1. \A a, b \in Positions : SameId(buffer[a], buffer[b]) => a = b
      BY <2>1 DEF InTransitOnce
    <3>2. CASE j = Len(buffer') /\ buffer'[j] = x
      BY <1>10, <2>2, <2>4, <3>2
    <3>3. CASE l = Len(buffer') /\ buffer'[l] = x
      BY <1>10, <2>2, <2>4, <3>3
    <3>4. CASE /\ Shifted(i, j) \in Positions /\ buffer'[j] = buffer[Shifted(i, j)]
               /\ Shifted(i, l) \in Positions /\ buffer'[l] = buffer[Shifted(i, l)]
      BY <1>11, <2>4, <3>1, <3>4
    <3>5. QED BY <1>10, <3>2, <3>3, <3>4
  <2>5. ASSUME NEW y \in held', NEW j \in Positions' PROVE ~SameId(y, buffer'[j])
    <3>1. y \in held /\ y # x
      BY <1>2
    <3>2. ~SameId(y, x) /\ \A a \in Positions : ~SameId(y, buffer[a])
      BY <2>1, <3>1 DEF InTransitOnce
    <3>3. QED BY <1>10, <3>2
  <2>6. \A j, l \in Positions' : SameId(buffer'[j], buffer'[l]) => j = l
    BY <2>4
  <2>7. SameId(x, x)
    BY DEF SameId
  <2>8. QED BY <2>3, <2>5, <2>6 DEF InTransitOnce, SameId
<1>13. PassedIsMissed' /\ SeenIsPassed'
  BY <1>2, <1>4 DEF IInv, PassedIsMissed, SeenIsPassed
(* Behind patient producers the new item is the newest of its stream.      *)
<1>14. patient => InOrder /\ Accounted
  BY DEF IInv
<1>15. \A y \in Pending : \E j \in Positions : y = buffer[j]
  BY DEF Pending
<1>16. ASSUME patient PROVE InOrder'
  <2>1. InOrder
    BY <1>14, <1>16
  <2>2. \A y, z \in held' : y.stream = z.stream => y = z
    BY <1>2, <2>1 DEF InOrder
  <2>3. ASSUME NEW j \in Positions', NEW l \in Positions', j < l,
               buffer'[j].stream = buffer'[l].stream
        PROVE  buffer'[j].sequence < buffer'[l].sequence
    <3>1. Len(buffer') \in Nat /\ j \in Int /\ l \in Int /\ l <= Len(buffer')
      BY <1>3, <1>6 DEF Pushed, Positions
    <3>2. /\ j < Len(buffer') /\ Shifted(i, j) \in Positions
          /\ buffer'[j] = buffer[Shifted(i, j)]
      BY <1>10, <2>3, <3>1
    <3>3. CASE l = Len(buffer') /\ buffer'[l] = x
      BY <2>1, <2>3, <3>2, <3>3 DEF InOrder
    <3>4. CASE l < Len(buffer') /\ Shifted(i, l) \in Positions
               /\ buffer'[l] = buffer[Shifted(i, l)]
      <4>1. Shifted(i, j) < Shifted(i, l)
        BY <1>11, <2>3
      <4>2. QED BY <2>1, <2>3, <3>2, <3>4, <4>1 DEF InOrder
    <3>5. QED BY <1>10, <3>3, <3>4
  <2>4. ASSUME NEW y \in held', NEW j \in Positions', y.stream = buffer'[j].stream
        PROVE  buffer'[j].sequence < y.sequence
    <3>1. y \in held /\ y.stream # x.stream
      BY <1>2, <2>1 DEF InOrder
    <3>2. Shifted(i, j) \in Positions /\ buffer'[j] = buffer[Shifted(i, j)]
      BY <1>10, <2>4, <3>1
    <3>3. QED BY <2>1, <2>4, <3>1, <3>2 DEF InOrder
  <2>5. \A y \in held' \cup Pending' : y.sequence > last'[y.stream]
    BY <1>2, <1>4, <2>1 DEF InOrder
  <2>6. \A j, l \in Positions' : j < l /\ buffer'[j].stream = buffer'[l].stream
                                  => buffer'[j].sequence < buffer'[l].sequence
    BY <2>3
  <2>7. \A y \in held', j \in Positions' :
           y.stream = buffer'[j].stream => buffer'[j].sequence < y.sequence
    BY <2>4
  <2>8. QED BY <2>2, <2>5, <2>6, <2>7 DEF InOrder
<1>17. ASSUME patient PROVE Accounted'
  <2>1. InOrder /\ Accounted /\ InTransitOnce
    BY <1>14, <1>17 DEF IInv
  <2>2. held \cup Pending \cup lost \cup delivered
           \subseteq held' \cup Pending' \cup lost' \cup delivered'
    BY <1>2, <1>4
  <2>3. \A s \in Streams : \A n \in Emitted(s)' :
          \E y \in held' \cup Pending' \cup lost' \cup delivered' : y.stream = s /\ y.sequence = n
    BY <1>8, <2>1, <2>2 DEF Accounted
  <2>4. \A y \in lost' : y.sequence # last'[y.stream]
    BY <1>2, <1>4, <1>5, <1>6, <2>1 DEF Accounted, InOrder, StreamItem
  <2>5. ASSUME NEW y \in lost', NEW z \in held' \cup Pending' PROVE ~SameId(y, z)
    <3>1. CASE y \in lost
      <4>1. z \in held \cup Pending
        BY <1>2, <1>4
      <4>2. QED BY <2>1, <3>1, <4>1 DEF Accounted
    <3>2. CASE i \in Positions /\ y = buffer[i]
      <4>1. CASE z \in held
        BY <2>1, <3>2, <4>1 DEF InTransitOnce, SameId
      <4>2. CASE z \in Pending'
        <5>1. PICK j \in Positions' : z = buffer'[j]
          BY <4>2 DEF Pending
        <5>2. z = x \/ \E l \in Positions : l # i /\ z = buffer[l]
          BY <1>10, <5>1
        <5>3. QED BY <2>1, <3>2, <5>2 DEF InTransitOnce, SameId
      <4>3. QED BY <1>2, <4>1, <4>2
    <3>3. QED BY <1>4, <3>1, <3>2
  <2>6. \A y \in lost' : \A z \in held' \cup Pending' : ~SameId(y, z)
    BY <2>5
  <2>7. \A y \in delivered' : y.sequence <= last'[y.stream]
    BY <1>2, <2>1 DEF Accounted
  <2>8. QED BY <2>3, <2>4, <2>6, <2>7 DEF Accounted
<1>18. GapsAreLosses'
  <2>1. GapsAreLosses
    BY DEF IInv
  <2>2. ASSUME patient, NEW s \in Streams
        PROVE  { y \in Of(s, lost') : y.sequence < last[s] }
                  = { y \in Of(s, lost) : y.sequence < last[s] }
    <3>1. \A y \in Pending : y.sequence > last[y.stream]
      BY <1>14, <2>2 DEF InOrder
    <3>2. ASSUME NEW y \in lost', y.stream = s, y.sequence < last[s] PROVE y \in lost
      <4>1. y \in lost \/ (y.sequence > last[s] /\ y.sequence \in Int)
        BY <1>4, <1>5, <3>1, <3>2 DEF StreamItem
      <4>2. QED BY <1>6, <3>2, <4>1
    <3>3. QED BY <1>4, <3>2 DEF Of
  <2>3. ASSUME NEW s \in Streams
        PROVE  /\ late'[s] = missed'[s] \cap Sequences(Of(s, delivered))
               /\ patient' =>
                    /\ late'[s] = {}
                    /\ missed'[s] = Sequences({ y \in Of(s, lost') : y.sequence < last'[s] })
    BY <1>2, <2>1, <2>2 DEF GapsAreLosses
  <2>4. QED BY <1>2, <2>3 DEF GapsAreLosses, Of, Sequences
<1>19. NewestSurvives'
  <2>1. NewestSurvives
    BY DEF IInv
  <2>2. ASSUME policy = "Lossless" PROVE lost' = {}
    <3>1. i = Len(buffer) + 1 /\ i \notin Positions
      BY <1>3, <1>6, <2>2 DEF Pushed, Positions
    <3>2. QED BY <1>4, <2>1, <2>2, <3>1 DEF NewestSurvives
  <2>3. ASSUME policy = "Coalescing", patient, NEW y \in lost'
        PROVE  \E z \in Pending' \cup delivered' :
                 z.stream = y.stream /\ z.key = y.key /\ z.sequence > y.sequence
    <3>1. i \in Positions => /\ buffer[i].stream = x.stream /\ buffer[i].key = x.key
                             /\ x.sequence > buffer[i].sequence
      <4>1. i \in Positions => Coalesces(i, x)
        BY <1>3, <2>3 DEF Pushed
      <4>2. QED BY <1>5, <1>14, <2>3, <4>1 DEF Coalesces, InOrder, StreamItem
    <3>2. CASE i \in Positions /\ y = buffer[i]
      BY <1>4, <3>1, <3>2
    <3>3. CASE y \in lost
      <4>1. PICK z \in Pending \cup delivered :
               z.stream = y.stream /\ z.key = y.key /\ z.sequence > y.sequence
        BY <2>1, <2>3, <3>3 DEF NewestSurvives
      <4>2. CASE i \in Positions /\ z = buffer[i]
        <5>1. x.sequence \in Int /\ y.sequence \in Int /\ z.sequence \in Int
          BY <1>1, <1>5, <3>3, <4>1 DEF StreamItem
        <5>2. QED BY <1>4, <3>1, <4>1, <4>2, <5>1
      <4>3. QED BY <1>2, <1>4, <4>1, <4>2
    <3>4. QED BY <1>4, <3>2, <3>3
  <2>4. QED BY <1>2, <2>2, <2>3 DEF NewestSurvives
<1>20. QED
  BY <1>2, <1>7, <1>9, <1>12, <1>13, <1>16, <1>17, <1>18, <1>19 DEF IInv


-----------------------------------------------------------------------------
(* What pop leaves: the item in front goes, the others move up.            *)
LEMMA PopFacts ==
  ASSUME TypeOK, Pop
  PROVE  /\ 1 \in Positions /\ Head(buffer) = buffer[1] /\ buffer[1] \in StreamItem
         /\ Pending' \subseteq Pending /\ Pending \subseteq Pending' \cup {buffer[1]}
         /\ \A j \in Positions' : j + 1 \in Positions /\ j + 1 # 1 /\ buffer'[j] = buffer[j + 1]
         /\ buffer' \in Seq(StreamItem) /\ Len(buffer') <= Capacity
<1> DEFINE q == buffer
           z == buffer'
<1>1. /\ q \in Seq(StreamItem) /\ q # <<>> /\ Len(q) <= Capacity /\ z = Tail(q)
  BY DEF TypeOK, Pop
<1>2. /\ Len(q) \in Nat /\ Len(q) > 0 /\ Head(q) = q[1] /\ q[1] \in StreamItem
      /\ z \in Seq(StreamItem) /\ Len(z) = Len(q) - 1
      /\ \A j \in 1..Len(z) : z[j] = q[j + 1]
  BY <1>1, HeadTailProperties, LenProperties, EmptySeq
<1>3. Pending' = { z[j] : j \in 1..Len(z) } /\ Pending = { q[j] : j \in 1..Len(q) }
      /\ Positions = 1..Len(q) /\ Positions' = 1..Len(z)
  BY DEF Pending, Positions
<1>4. Capacity \in Nat
  BY StreamAssumption
<1> HIDE DEF q, z
<1>5. \A j \in 1..Len(z) : j + 1 \in 1..Len(q) /\ j + 1 # 1 /\ z[j] = q[j + 1]
  BY <1>2
<1>6. ASSUME NEW j \in 1..Len(q), j # 1 PROVE q[j] \in { z[l] : l \in 1..Len(z) }
  <2>1. j - 1 \in 1..Len(z) /\ (j - 1) + 1 = j
    BY <1>2, <1>6
  <2>2. q[j] = z[j - 1]
    BY <1>2, <2>1
  <2>3. QED BY <2>1, <2>2
<1>7. 1 \in 1..Len(q) /\ Len(z) <= Capacity
  BY <1>1, <1>2, <1>4
<1>8. Pending' \subseteq Pending
  BY <1>3, <1>5
<1>9. Pending \subseteq Pending' \cup {q[1]}
  BY <1>3, <1>6
<1>10. \A j \in Positions' : j + 1 \in Positions /\ j + 1 # 1 /\ z[j] = q[j + 1]
  BY <1>3, <1>5
<1>11. 1 \in Positions /\ z \in Seq(StreamItem) /\ Len(z) <= Capacity
       /\ Head(q) = q[1] /\ q[1] \in StreamItem
  BY <1>2, <1>3, <1>7
<1>12. QED BY <1>8, <1>9, <1>10, <1>11 DEF q, z

LEMMA PopStep ==
  ASSUME IInv, Pop
  PROVE  IInv'
<1> DEFINE h == buffer[1]
           s == h.stream
           n == h.sequence
<1>1. TypeOK
  BY DEF IInv
<1>2. /\ 1 \in Positions /\ h \in StreamItem /\ Head(buffer) = h
      /\ Pending' \subseteq Pending /\ Pending \subseteq Pending' \cup {h}
      /\ \A j \in Positions' : j + 1 \in Positions /\ j + 1 # 1 /\ buffer'[j] = buffer[j + 1]
      /\ buffer' \in Seq(StreamItem) /\ Len(buffer') <= Capacity
  BY <1>1, PopFacts
<1>3. s \in Streams /\ n \in 1..MaxSequence /\ h \in Pending
  BY <1>2 DEF StreamItem, Pending
<1>4. /\ policy' = policy /\ patient' = patient /\ sequencer' = sequencer /\ held' = held
      /\ lost' = lost /\ delivered' = delivered \cup {h}
      /\ missed' = [missed EXCEPT ![s] = @ \cup Expected(s)..(n - 1)]
      /\ late' = [late EXCEPT ![s] = IF n < Expected(s) THEN @ \cup {n} ELSE @]
      /\ last' = [last EXCEPT ![s] = NewestSeen(s, n)]
  BY <1>2 DEF Pop, Observe
<1> HIDE DEF h, s, n
<1>5. /\ MaxSequence \in Nat /\ last \in [Streams -> 0..MaxSequence]
      /\ missed \in [Streams -> SUBSET (1..MaxSequence)]
      /\ late \in [Streams -> SUBSET (1..MaxSequence)]
  BY <1>1, StreamAssumption DEF TypeOK
<1>6. /\ last'[s] = IF n > last[s] THEN n ELSE last[s]
      /\ missed'[s] = missed[s] \cup (last[s] + 1)..(n - 1)
      /\ late'[s] = IF n < last[s] + 1 THEN late[s] \cup {n} ELSE late[s]
      /\ \A t \in Streams \ {s} : last'[t] = last[t] /\ missed'[t] = missed[t] /\ late'[t] = late[t]
  BY <1>3, <1>4, <1>5 DEF Expected, NewestSeen
<1>7. last[s] \in 0..MaxSequence /\ last'[s] \in 0..MaxSequence
      /\ (last[s] + 1)..(n - 1) \subseteq 1..MaxSequence
  <2>1. last[s] \in 0..MaxSequence
    BY <1>3, <1>5
  <2>2. QED BY <1>3, <1>5, <1>6, <2>1
<1>8. /\ Pending \subseteq StreamItem /\ held \subseteq StreamItem /\ lost \subseteq StreamItem
      /\ delivered \subseteq StreamItem
      /\ \A y \in StreamItem : y.stream \in Streams /\ y.sequence \in 1..MaxSequence
  <2>1. Pending \subseteq StreamItem
    BY <1>1, ElementOfSeq DEF TypeOK, Pending, Positions
  <2>2. \A y \in StreamItem : y.stream \in Streams /\ y.sequence \in 1..MaxSequence
    BY DEF StreamItem
  <2>3. QED BY <1>1, <2>1, <2>2 DEF TypeOK
<1>9. TypeOK'
  <2>1. last' \in [Streams -> 0..MaxSequence] /\ missed' \in [Streams -> SUBSET (1..MaxSequence)]
        /\ late' \in [Streams -> SUBSET (1..MaxSequence)]
    <3>1. last' \in [Streams -> 0..MaxSequence]
      BY <1>3, <1>4, <1>5, <1>7, <1>6
    <3>2. missed' \in [Streams -> SUBSET (1..MaxSequence)]
      BY <1>3, <1>4, <1>5, <1>7 DEF Expected
    <3>3. late' \in [Streams -> SUBSET (1..MaxSequence)]
      BY <1>3, <1>4, <1>5
    <3>4. QED BY <3>1, <3>2, <3>3
  <2>2. QED BY <1>1, <1>2, <1>4, <2>1 DEF TypeOK
<1>10. \A t \in Streams : Emitted(t)' = Emitted(t) /\ Emitted(t) \subseteq 1..MaxSequence
  BY <1>4 DEF Emitted
<1>11. \A y \in held \cup Pending \cup lost \cup delivered : y.sequence \in Emitted(y.stream)
  BY DEF IInv, Numbered
<1>12. Numbered'
  <2>1. \A t \in Streams : last[t] # 0 => last[t] \in Emitted(t)
    BY DEF IInv, Numbered
  <2>2. n \in Emitted(s)
    BY <1>3, <1>11 DEF n, s
  <2>3. \A t \in Streams : last'[t] # 0 => last'[t] \in Emitted(t)
    BY <1>6, <2>1, <2>2
  <2>4. \A y \in held' \cup Pending' \cup lost' \cup delivered' : y \in StreamItem /\ y.sequence \in Emitted(y.stream)
    BY <1>2, <1>3, <1>4, <1>8, <1>11
  <2>5. QED BY <1>8, <1>10, <2>3, <2>4 DEF Numbered
<1>13. InTransitOnce
  BY DEF IInv
<1>14. \A i, j \in Positions' : i \in Int /\ j \in Int /\ (i + 1 = j + 1 => i = j) /\ (i < j => i + 1 < j + 1)
  BY <1>2, <1>1 DEF Positions
<1>15. InTransitOnce'
  <2>1. ASSUME NEW i \in Positions', NEW j \in Positions', SameId(buffer'[i], buffer'[j])
        PROVE  i = j
    <3>1. SameId(buffer[i + 1], buffer[j + 1])
      BY <1>2, <2>1
    <3>2. i + 1 = j + 1
      BY <1>2, <1>13, <3>1 DEF InTransitOnce
    <3>3. QED BY <1>14, <3>2
  <2>2. ASSUME NEW y \in held', NEW i \in Positions' PROVE ~SameId(y, buffer'[i])
    BY <1>2, <1>4, <1>13 DEF InTransitOnce, SameId
  <2>3. \A i, j \in Positions' : SameId(buffer'[i], buffer'[j]) => i = j
    BY <2>1
  <2>4. \A y, z \in held' : SameId(y, z) => y = z
    BY <1>4, <1>13 DEF InTransitOnce
  <2>5. QED BY <2>2, <2>3, <2>4 DEF InTransitOnce, SameId
(* What else is in transit is not the item popped.                         *)
<1>16. \A y \in held' \cup Pending' : y \in StreamItem /\ (y.stream = s => y.sequence # n)
  <2>1. ASSUME NEW y \in held PROVE ~SameId(y, h)
    BY <1>2, <1>13 DEF InTransitOnce, SameId, h
  <2>2. ASSUME NEW j \in Positions' PROVE ~SameId(buffer'[j], h)
    BY <1>2, <1>13 DEF InTransitOnce, SameId, h
  <2>3. \A y \in Pending' : ~SameId(y, h)
    BY <2>2 DEF Pending
  <2>4. QED BY <1>2, <1>4, <1>8, <2>1, <2>3 DEF SameId, s, n
<1>17. PassedIsMissed'
  <2>1. ASSUME NEW y \in held' \cup Pending', y.sequence <= last'[y.stream]
        PROVE  y.sequence \in missed'[y.stream]
    <3>1. /\ y \in held \cup Pending /\ y.stream \in Streams /\ y.sequence \in 1..MaxSequence
          /\ y.sequence <= last[y.stream] => y.sequence \in missed[y.stream]
      BY <1>2, <1>4, <1>8 DEF IInv, PassedIsMissed
    <3>2. CASE y.stream # s
      BY <1>6, <2>1, <3>1, <3>2
    <3>3. CASE y.stream = s
      <4>1. y.sequence # n
        BY <1>16, <3>3
      <4>2. y.sequence <= last[s] \/ y.sequence \in (last[s] + 1)..(n - 1)
        BY <1>3, <1>6, <1>7, <2>1, <3>1, <3>3, <4>1
      <4>3. QED BY <1>6, <3>1, <3>3, <4>2
    <3>4. QED BY <3>2, <3>3
  <2>2. QED BY <2>1 DEF PassedIsMissed
<1>18. patient => InOrder /\ Accounted
  BY DEF IInv
(* Behind patient producers the item popped is next of its stream.         *)
<1>19. ASSUME patient
       PROVE  /\ n > last[s] /\ last'[s] = n
              /\ \A y \in held' \cup Pending' : y.stream = s => y.sequence > n
  <2>1. InOrder
    BY <1>18, <1>19
  <2>2. n > last[s]
    BY <1>3, <2>1 DEF InOrder, n, s
  <2>3. \A y \in held : y.stream = s => y.sequence > n
    BY <1>2, <1>3, <1>8, <2>1 DEF InOrder, h, s, n
  <2>4. ASSUME NEW j \in Positions', buffer'[j].stream = s PROVE buffer'[j].sequence > n
    <3>1. j + 1 \in Positions /\ 1 < j + 1 /\ buffer'[j] = buffer[j + 1]
      BY <1>1, <1>2 DEF Positions
    <3>2. buffer[1].sequence < buffer[j + 1].sequence
      BY <1>2, <2>1, <2>4, <3>1 DEF InOrder, h, s
    <3>3. buffer'[j] \in StreamItem
      BY <1>2, <1>8 DEF Pending, Positions
    <3>4. QED BY <1>3, <1>8, <3>1, <3>2, <3>3 DEF h, n
  <2>5. \A y \in Pending' : y.stream = s => y.sequence > n
    BY <2>4 DEF Pending
  <2>6. QED BY <1>4, <1>6, <2>2, <2>3, <2>5
<1>20. ASSUME patient PROVE InOrder'
  <2>1. InOrder
    BY <1>18, <1>20
  <2>2. \A i, j \in Positions' : i < j /\ buffer'[i].stream = buffer'[j].stream
                                   => buffer'[i].sequence < buffer'[j].sequence
    BY <1>2, <1>14, <2>1 DEF InOrder
  <2>3. \A y \in held', i \in Positions' :
           y.stream = buffer'[i].stream => buffer'[i].sequence < y.sequence
    BY <1>2, <1>4, <2>1 DEF InOrder
  <2>4. ASSUME NEW y \in held' \cup Pending' PROVE y.sequence > last'[y.stream]
    <3>1. y \in held \cup Pending /\ y.stream \in Streams
      BY <1>2, <1>4, <1>8
    <3>2. CASE y.stream = s
      BY <1>19, <1>20, <3>2
    <3>3. CASE y.stream # s
      BY <1>6, <2>1, <3>1, <3>3 DEF InOrder
    <3>4. QED BY <3>2, <3>3
  <2>5. \A y, z \in held' : y.stream = z.stream => y = z
    BY <1>4, <2>1 DEF InOrder
  <2>6. QED BY <2>2, <2>3, <2>4, <2>5 DEF InOrder
<1>21. ASSUME patient PROVE Accounted'
  <2>1. Accounted /\ last'[s] = n /\ n > last[s]
    BY <1>18, <1>19, <1>21
  <2>2. held \cup Pending \cup lost \cup delivered
           \subseteq held' \cup Pending' \cup lost' \cup delivered'
    BY <1>2, <1>4
  <2>3. \A t \in Streams : \A m \in Emitted(t)' :
          \E y \in held' \cup Pending' \cup lost' \cup delivered' : y.stream = t /\ y.sequence = m
    BY <1>10, <2>1, <2>2 DEF Accounted
  <2>4. ASSUME NEW y \in delivered' PROVE y.sequence <= last'[y.stream]
    <3>1. CASE y = h
      BY <1>3, <2>1, <3>1 DEF s, n
    <3>2. CASE y \in delivered
      <4>1. y.sequence <= last[y.stream] /\ y.sequence \in Int /\ y.stream \in Streams
        BY <1>8, <2>1, <3>2 DEF Accounted
      <4>2. QED BY <1>3, <1>6, <1>7, <2>1, <4>1
    <3>3. QED BY <1>4, <3>1, <3>2
  <2>5. ASSUME NEW y \in lost' PROVE y.sequence # last'[y.stream]
    <3>1. y \in lost /\ y.stream \in Streams
      BY <1>4, <1>8
    <3>2. CASE y.stream = s
      <4>1. ~SameId(y, h)
        BY <1>3, <2>1, <3>1 DEF Accounted
      <4>2. QED BY <2>1, <3>2, <4>1 DEF SameId, s, n
    <3>3. CASE y.stream # s
      BY <1>6, <2>1, <3>1, <3>3 DEF Accounted
    <3>4. QED BY <3>2, <3>3
  <2>6. \A y \in lost' : \A z \in held' \cup Pending' : ~SameId(y, z)
    BY <1>2, <1>4, <2>1 DEF Accounted
  <2>7. QED BY <2>3, <2>4, <2>5, <2>6 DEF Accounted
<1>22. GapsAreLosses'
  <2>1. GapsAreLosses
    BY DEF IInv
  <2>2. ASSUME NEW t \in Streams
        PROVE  late'[t] = missed'[t] \cap Sequences(Of(t, delivered'))
    <3>1. late[t] = missed[t] \cap Sequences(Of(t, delivered))
      BY <2>1 DEF GapsAreLosses
    <3>2. CASE t # s
      <4>1. Of(t, delivered') = Of(t, delivered)
        BY <1>4, <3>2 DEF Of, s
      <4>2. QED BY <1>6, <3>1, <3>2, <4>1
    <3>3. CASE t = s
      <4>1. Sequences(Of(s, delivered')) = Sequences(Of(s, delivered)) \cup {n}
        BY <1>4 DEF Of, Sequences, s, n
      <4>2. \A m \in Sequences(Of(s, delivered)) : m \in 1..MaxSequence /\ m <= last[s]
        BY <1>8 DEF IInv, SeenIsPassed, Of, Sequences
      <4>3. \A m \in missed[s] : m \in 1..MaxSequence /\ m <= last[s]
        BY <1>3, <1>5 DEF IInv, SeenIsPassed
      <4>4. CASE n <= last[s]
        <5>1. n \in missed[s]
          BY <1>3, <4>4 DEF IInv, PassedIsMissed, s, n
        <5>2. missed'[s] = missed[s] /\ late'[s] = late[s] \cup {n}
          BY <1>3, <1>6, <1>7, <4>4
        <5>3. QED BY <3>1, <3>3, <4>1, <5>1, <5>2
      <4>5. CASE ~(n <= last[s])
        <5>1. late'[s] = late[s] /\ n \notin missed[s]
          BY <1>3, <1>6, <1>7, <4>3, <4>5
        <5>2. ASSUME NEW m \in (last[s] + 1)..(n - 1)
              PROVE  m # n /\ m \notin Sequences(Of(s, delivered))
          BY <1>3, <1>7, <4>2
        <5>3. n \notin (last[s] + 1)..(n - 1)
          BY <5>2
        <5>4. QED BY <1>6, <3>1, <3>3, <4>1, <5>1, <5>2, <5>3
      <4>6. QED BY <4>4, <4>5
    <3>4. QED BY <3>2, <3>3
  <2>3. ASSUME patient, NEW t \in Streams
        PROVE  /\ late'[t] = {}
               /\ missed'[t] = Sequences({ y \in Of(t, lost) : y.sequence < last'[t] })
    <3>1. /\ late[t] = {}
          /\ missed[t] = Sequences({ y \in Of(t, lost) : y.sequence < last[t] })
      BY <2>1, <2>3 DEF GapsAreLosses
    <3>2. CASE t # s
      BY <1>6, <3>1, <3>2
    <3>3. CASE t = s
      <4> DEFINE now  == Sequences({ y \in Of(s, lost) : y.sequence < n })
                 then == Sequences({ y \in Of(s, lost) : y.sequence < last[s] })
      <4>1. n > last[s] /\ last'[s] = n /\ late'[s] = late[s]
        BY <1>3, <1>6, <1>7, <1>19, <2>3
      <4>2. ASSUME NEW m \in (last[s] + 1)..(n - 1) PROVE m \in now
        <5>1. m \in Emitted(s)
          <6>1. n \in Emitted(s)
            BY <1>3, <1>11 DEF n, s
          <6>2. sequencer[s].next \in 1..MaxSequence
            BY <1>1, <1>3 DEF TypeOK
          <6>3. QED BY <1>3, <1>5, <1>7, <4>2, <6>1, <6>2 DEF Emitted
        <5>2. PICK y \in held \cup Pending \cup lost \cup delivered :
                 y.stream = s /\ y.sequence = m
          BY <1>3, <1>18, <2>3, <5>1 DEF Accounted
        <5>3. m \in Int /\ m < n /\ m > last[s]
          BY <1>3, <1>7
        <5>4. y \notin held /\ y \notin Pending'
          BY <1>4, <1>3, <1>19, <2>3, <5>2, <5>3
        <5>5. y # h
          BY <1>3, <5>2, <5>3 DEF n
        <5>6. y \notin delivered
          BY <1>7, <1>18, <2>3, <5>2, <5>3 DEF Accounted
        <5>7. y \in lost
          BY <1>2, <5>2, <5>4, <5>5, <5>6
        <5>8. QED BY <5>2, <5>3, <5>7 DEF Of, Sequences
      <4>3. then \subseteq now
        BY <1>3, <1>7, <1>8, <4>1 DEF Of, Sequences
      <4>4. ASSUME NEW y \in Of(s, lost), y.sequence < n
            PROVE  y.sequence \in then \cup (last[s] + 1)..(n - 1)
        <5>1. y \in lost /\ y.stream = s /\ y.sequence \in 1..MaxSequence
          BY <1>8 DEF Of
        <5>2. y.sequence # last[s]
          BY <1>18, <2>3, <5>1 DEF Accounted
        <5>3. CASE y.sequence < last[s]
          BY <4>4, <5>3 DEF Sequences
        <5>4. CASE ~(y.sequence < last[s])
          BY <1>3, <1>7, <4>4, <5>1, <5>2, <5>4
        <5>5. QED BY <5>3, <5>4
      <4>5. now = then \cup (last[s] + 1)..(n - 1)
        <5>1. now \subseteq then \cup (last[s] + 1)..(n - 1)
          BY <4>4 DEF Sequences
        <5>2. QED BY <4>2, <4>3, <5>1
      <4>6. missed'[s] = now
        BY <1>6, <3>1, <3>3, <4>5
      <4>7. QED BY <3>1, <3>3, <4>1, <4>6
    <3>4. QED BY <3>2, <3>3
  <2>4. QED BY <1>4, <2>2, <2>3 DEF GapsAreLosses, Of, Sequences
<1>23. SeenIsPassed'
  <2>1. ASSUME NEW y \in delivered' PROVE y.sequence <= last'[y.stream]
    <3>1. CASE y = h
      BY <1>3, <1>6, <1>7, <3>1 DEF s, n
    <3>2. CASE y \in delivered
      <4>1. y.sequence <= last[y.stream] /\ y.sequence \in Int /\ y.stream \in Streams
        BY <1>8, <3>2 DEF IInv, SeenIsPassed
      <4>2. QED BY <1>3, <1>6, <1>7, <4>1
    <3>3. QED BY <1>4, <3>1, <3>2
  <2>2. ASSUME NEW t \in Streams, NEW m \in missed'[t] PROVE m <= last'[t]
    <3>1. m \in missed[t] => m \in 1..MaxSequence /\ m <= last[t]
      BY <1>5 DEF IInv, SeenIsPassed
    <3>2. CASE t = s
      BY <1>3, <1>6, <1>7, <2>2, <3>1, <3>2
    <3>3. CASE t # s
      BY <1>6, <2>2, <3>1, <3>3
    <3>4. QED BY <3>2, <3>3
  <2>3. QED BY <2>1, <2>2 DEF SeenIsPassed
<1>24. NewestSurvives'
  <2>1. Pending \cup delivered \subseteq Pending' \cup delivered'
    BY <1>2, <1>4
  <2>2. QED BY <1>4, <2>1 DEF IInv, NewestSurvives
<1>25. QED
  BY <1>4, <1>9, <1>12, <1>15, <1>17, <1>20, <1>21, <1>22, <1>23, <1>24 DEF IInv

LEMMA StreamStutter == ASSUME IInv, UNCHANGED vars PROVE IInv'
<1>1. /\ policy' = policy /\ patient' = patient /\ sequencer' = sequencer /\ held' = held
      /\ buffer' = buffer /\ last' = last /\ lost' = lost /\ delivered' = delivered
      /\ missed' = missed /\ late' = late
  BY DEF vars, transport, tracking
<1>2. Positions' = Positions /\ Pending' = Pending /\ \A s \in Streams : Emitted(s)' = Emitted(s)
  BY <1>1 DEF Positions, Pending, Emitted
<1>3. TypeOK' /\ GapsAreLosses' /\ NewestSurvives'
  BY <1>1, <1>2 DEF IInv, TypeOK, GapsAreLosses, NewestSurvives, Of, Sequences
<1>4. InTransitOnce' /\ PassedIsMissed' /\ SeenIsPassed' /\ InOrder' = InOrder
  BY <1>1, <1>2 DEF IInv, InTransitOnce, PassedIsMissed, SeenIsPassed, InOrder, SameId
<1>5. Numbered'
  <2>1. Pending \subseteq StreamItem
    BY ElementOfSeq DEF IInv, TypeOK, Pending, Positions
  <2>2. \A x \in held \cup Pending \cup lost \cup delivered : x.stream \in Streams
    BY <2>1 DEF IInv, TypeOK, StreamItem
  <2>3. QED BY <1>1, <1>2, <2>2 DEF IInv, Numbered
<1>6. patient => Accounted'
  BY <1>1, <1>2 DEF IInv, Accounted, SameId
<1>7. QED BY <1>1, <1>3, <1>4, <1>5, <1>6 DEF IInv

LEMMA StreamInvariant == Spec => []IInv
<1>1. IInv /\ [Next]_vars => IInv'
  BY EmitStep, PushStep, PopStep, StreamStutter DEF Next
<1>2. QED BY StreamInitStep, <1>1, PTL DEF Spec

-----------------------------------------------------------------------------
(* Streams keep their types, whatever the policy and its capacity.         *)
THEOREM StreamTypes == Spec => []TypeOK
<1>1. IInv => TypeOK
  BY DEF IInv
<1>2. QED BY StreamInvariant, <1>1, PTL

(* Behind producers that retry before they emit, the gaps a consumer is    *)
(* told of are exactly the items a buffer dropped or replaced, and nothing *)
(* is called late; behind any producer, what is called late is what was    *)
(* reported missing and arrived all the same.                              *)
THEOREM StreamGapsAreLosses == Spec => []GapsAreLosses
<1>1. IInv => GapsAreLosses
  BY DEF IInv
<1>2. QED BY StreamInvariant, <1>1, PTL

(* A lossless buffer loses nothing; a coalescing one never the newest      *)
(* value of a stream's key.                                                *)
THEOREM StreamNewestSurvives == Spec => []NewestSurvives
<1>1. IInv => NewestSurvives
  BY DEF IInv
<1>2. QED BY StreamInvariant, <1>1, PTL
=============================================================================
