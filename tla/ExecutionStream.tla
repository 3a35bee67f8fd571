-------------------------- MODULE ExecutionStream ---------------------------
(***************************************************************************)
(* Typed execution streams (crates/execution-stream/src/lib.rs): producers *)
(* that number what they emit, one bounded buffer under one of the three   *)
(* policies, and a consumer that tracks each stream's sequences.  A        *)
(* buffer is shared by several streams, as its items' stream_id allows.    *)
(***************************************************************************)
EXTENDS Integers, SequencesExt

CONSTANTS
  Streams,
  Keys,         \* what a coalescing producer keys its items with
  Policies,     \* the buffers that are tried
  Capacity,     \* slots of the buffer
  MaxSequence   \* Sequence::MAX, and the bound on what is emitted

ASSUME StreamAssumption ==
  /\ Policies \subseteq {"Lossless", "Coalescing", "Lossy"}
  /\ Capacity \in Nat \ {0}
  /\ MaxSequence \in Nat \ {0}

VARIABLES
  policy,     \* LosslessBuffer, CoalescingBuffer or LossyBuffer
  patient,    \* producers retry a rejected item before they emit another
  sequencer,  \* sequencer[s]: StreamSequencer
  held,       \* items in the producers' hands: emitted, or rejected with Backpressure
  buffer,
  last,       \* last[s]: SequenceTracker, 0 before the first item
  lost,       \* history: items a buffer dropped or replaced
  delivered,  \* history: items popped and observed
  missed,     \* history: missed[s], the sequences reported in a Gap
  late        \* history: late[s], those reported as DuplicateOrReordered

transport == <<policy, patient, sequencer, held, buffer, lost>>
tracking  == <<last, delivered, missed, late>>
vars      == <<transport, tracking>>

StreamItem  == [stream : Streams, sequence : 1..MaxSequence, key : Keys]
Positions   == 1..Len(buffer)
Pending     == { buffer[i] : i \in Positions }
Of(s, S)    == { x \in S : x.stream = s }
Sequences(S) == { x.sequence : x \in S }
FIRST       == 1

-----------------------------------------------------------------------------
(* StreamSequencer::emit: the sequence after MAX is exhaustion, not FIRST. *)
After(q) ==
  IF q.next = MaxSequence THEN [q EXCEPT !.exhausted = TRUE] ELSE [q EXCEPT !.next = @ + 1]

Emit(s, k) ==
  LET item == [stream |-> s, sequence |-> sequencer[s].next, key |-> k]
  IN /\ ~sequencer[s].exhausted
     /\ patient => Of(s, held) = {}
     /\ sequencer' = [sequencer EXCEPT ![s] = After(@)]
     /\ held' = held \cup {item}
     /\ UNCHANGED <<policy, patient, buffer, lost, tracking>>

-----------------------------------------------------------------------------
(* The three try_push: a step is an accepted item, a rejected one stays    *)
(* with its producer and nothing changes.                                  *)
Full == Len(buffer) = Capacity

SameKey(i, x)    == buffer[i].key = x.key
Coalesces(i, x)  == buffer[i].key = x.key /\ buffer[i].stream = x.stream

Enqueue(x) ==
  /\ ~Full
  /\ buffer' = Append(buffer, x)
  /\ UNCHANGED lost

PushLossless(x) == policy = "Lossless" /\ Enqueue(x)

(* The pending item of the same stream and key makes way, wherever it is.  *)
Replace(x) ==
  \E i \in Positions :
    /\ Coalesces(i, x) /\ \A j \in 1..(i - 1) : ~Coalesces(j, x)
    /\ buffer' = Append(RemoveAt(buffer, i), x)
    /\ lost' = lost \cup {buffer[i]}

PushCoalescing(x) ==
  /\ policy = "Coalescing"
  /\ \/ Replace(x)
     \/ (\A i \in Positions : ~Coalesces(i, x)) /\ Enqueue(x)

DropOldest(x) ==
  /\ buffer' = Append(Tail(buffer), x)
  /\ lost' = lost \cup {Head(buffer)}

PushLossy(x) ==
  /\ policy = "Lossy"
  /\ \/ Full /\ DropOldest(x)
     \/ Enqueue(x)

Push(x) ==
  /\ x \in held
  /\ held' = held \ {x}
  /\ PushLossless(x) \/ PushCoalescing(x) \/ PushLossy(x)
  /\ UNCHANGED <<policy, patient, sequencer, tracking>>

-----------------------------------------------------------------------------
(* SequenceTracker::observe of the item that pop returns.                  *)
Expected(s)   == last[s] + 1
LatestSeen(s, n) == n
NewestSeen(s, n) == IF n > last[s] THEN n ELSE last[s]

Observe(x) ==
  LET s == x.stream
      n == x.sequence
  IN /\ missed' = [missed EXCEPT ![s] = @ \cup Expected(s)..(n - 1)]
     /\ late' = [late EXCEPT ![s] = IF n < Expected(s) THEN @ \cup {n} ELSE @]
     /\ last' = [last EXCEPT ![s] = NewestSeen(s, n)]

Pop ==
  /\ buffer # <<>>
  /\ buffer' = Tail(buffer)
  /\ Observe(Head(buffer))
  /\ delivered' = delivered \cup {Head(buffer)}
  /\ UNCHANGED <<policy, patient, sequencer, held, lost>>

-----------------------------------------------------------------------------
Init ==
  /\ policy \in Policies
  /\ patient \in BOOLEAN
  /\ sequencer = [s \in Streams |-> [next |-> FIRST, exhausted |-> FALSE]]
  /\ held = {} /\ buffer = <<>> /\ lost = {} /\ delivered = {}
  /\ last = [s \in Streams |-> 0]
  /\ missed = [s \in Streams |-> {}]
  /\ late = [s \in Streams |-> {}]

Next ==
  \/ \E s \in Streams, k \in Keys : Emit(s, k)
  \/ \E x \in held : Push(x)
  \/ Pop

Spec == Init /\ [][Next]_vars

-----------------------------------------------------------------------------
TypeOK ==
  /\ policy \in Policies /\ patient \in BOOLEAN
  /\ sequencer \in [Streams -> [next : 1..MaxSequence, exhausted : BOOLEAN]]
  /\ held \subseteq StreamItem /\ lost \subseteq StreamItem /\ delivered \subseteq StreamItem
  /\ buffer \in Seq(StreamItem) /\ Len(buffer) <= Capacity
  /\ last \in [Streams -> 0..MaxSequence]
  /\ missed \in [Streams -> SUBSET (1..MaxSequence)]
  /\ late \in [Streams -> SUBSET (1..MaxSequence)]

(* What a consumer makes of the sequences is what happened: behind patient *)
(* producers every gap a tracker reports is exactly the items the buffer   *)
(* dropped or replaced, no loss before the latest item goes unreported,    *)
(* and nothing is called late or duplicated.  Behind any producer, what is *)
(* called late is what had been reported missing and arrived all the same. *)
GapsAreLosses ==
  \A s \in Streams :
    /\ late[s] = missed[s] \cap Sequences(Of(s, delivered))
    /\ patient =>
         /\ late[s] = {}
         /\ missed[s] = Sequences({ x \in Of(s, lost) : x.sequence < last[s] })

(* A lossless buffer loses nothing, and a coalescing buffer only what a    *)
(* later item of the same stream and key replaces, which is pending or     *)
(* delivered: the newest value of a key is never the one that is lost, as  *)
(* long as producers retry before they emit.                               *)
NewestSurvives ==
  /\ policy = "Lossless" => lost = {}
  /\ policy = "Coalescing" /\ patient =>
       \A x \in lost : \E y \in Pending \cup delivered :
         y.stream = x.stream /\ y.key = x.key /\ y.sequence > x.sequence
=============================================================================
