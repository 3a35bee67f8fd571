----------------------------- MODULE CommitLog -----------------------------
(***************************************************************************)
(* What a DurableStore promises its clients: the commits of a run form one *)
(* log; a commit is appended by a client that names the end of the log, at *)
(* most once per key, and never removed or reordered.                      *)
(***************************************************************************)
EXTENDS Integers, Sequences

CONSTANTS Run, Client, Requests, MaxRevision

VARIABLES
  log,   \* the commits of each run, in order
  seen   \* the log length each client believes a run to have

Init ==
  /\ log = [r \in Run |-> <<>>]
  /\ seen = [c \in Client |-> [r \in Run |-> 0]]

InLog(r, key) == \E i \in 1..Len(log[r]) : log[r][i].key = key

(* A client is told the length of a run's log.                             *)
Sync(c, r) ==
  /\ seen' = [seen EXCEPT ![c][r] = Len(log[r])]
  /\ UNCHANGED log

(* A new commit goes to the end; its reply may be lost.                    *)
AppendCommit(c, q) ==
  /\ q.mutations # <<>>
  /\ ~InLog(q.run, q.key)
  /\ seen[c][q.run] = Len(log[q.run])
  /\ Len(log[q.run]) < MaxRevision
  /\ log' = [log EXCEPT ![q.run] =
               Append(@, [key |-> q.key, mutations |-> q.mutations])]
  /\ \/ seen' = [seen EXCEPT ![c][q.run] = Len(log'[q.run])]
     \/ UNCHANGED seen

Next ==
  \/ \E c \in Client, r \in Run : Sync(c, r)
  \/ \E c \in Client, q \in Requests : AppendCommit(c, q)

vars == <<log, seen>>

Spec == Init /\ [][Next]_vars
=============================================================================
