---- MODULE QueueRules ----
(***************************************************************************)
(* What a queue between two threads holds, and what its operations make of *)
(* it, each in one expression: a sequence of items and an end that may     *)
(* have been announced.                                                    *)
(***************************************************************************)
EXTENDS Sequences

OpenQueue == [items |-> <<>>, shutdown |-> FALSE]

Pushed(q, v) == [q EXCEPT !.items = Append(@, v)]
Popped(q) == [q EXCEPT !.items = Tail(@)]
Closed(q) == [q EXCEPT !.shutdown = TRUE]

\* Nothing is left, and nothing more will come: pop returns false.
Drained(q) == q.shutdown /\ q.items = <<>>

====
