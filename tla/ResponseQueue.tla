---------------------------- MODULE ResponseQueue ----------------------------
(***************************************************************************)
(* What the outstanding cycles of an Etherbone socket promise: a queue in  *)
(* the order in which they were sent.  New ones join at the end, only the  *)
(* oldest may give up, any may be answered, and those of a device that     *)
(* closes leave together and are told so one by one, the oldest first.     *)
(* Each leaves with one outcome, nothing else changes the queue, and       *)
(* nothing reorders it.                                                    *)
(***************************************************************************)
EXTENDS Sequences, SequencesExt, Selection

CONSTANTS
  Entries,        (* What is queued, each at most once.                    *)
  Owner           (* Whose an entry is.                                    *)

VARIABLES queue, leaving, outcome

QInit ==
  /\ queue = <<>> /\ leaving = <<>>
  /\ outcome = [e \in Entries |-> "none"]

Settle(e, o) ==
  /\ outcome[e] = "none"
  /\ outcome' = [outcome EXCEPT ![e] = o]

Join(e) ==
  /\ outcome[e] = "none" /\ e \notin Range(queue) \cup Range(leaving)
  /\ queue' = Append(queue, e)
  /\ UNCHANGED <<leaving, outcome>>

GiveUp ==
  /\ queue # <<>>
  /\ Settle(Head(queue), "TIMEOUT")
  /\ queue' = Tail(queue)
  /\ UNCHANGED leaving

Answer(i) ==
  /\ \E o \in {"OK", "FAIL"} : Settle(queue[i], o)
  /\ queue' = RemoveAt(queue, i)
  /\ UNCHANGED leaving

Leave(w) ==
  /\ leaving = <<>>
  /\ leaving' = Select(queue, {i \in DOMAIN queue : Owner[queue[i]] = w})
  /\ queue' = Select(queue, {i \in DOMAIN queue : Owner[queue[i]] # w})
  /\ UNCHANGED outcome

Left ==
  /\ leaving # <<>>
  /\ Settle(Head(leaving), "TIMEOUT")
  /\ leaving' = Tail(leaving)
  /\ UNCHANGED queue

QNext ==
  \/ \E e \in Entries : Join(e)
  \/ GiveUp
  \/ \E i \in DOMAIN queue : Answer(i)
  \/ \E w \in Range(Owner) : Leave(w)
  \/ Left

QSpec == QInit /\ [][QNext]_<<queue, leaving, outcome>>
=============================================================================
