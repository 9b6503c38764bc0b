---- MODULE BlockingFifo ----
(***************************************************************************)
(* What a blocking queue with an end promises its threads: between a call  *)
(* and its return each operation takes effect in one step, a pop only when *)
(* there is an item or the end is reached.                                 *)
(***************************************************************************)
EXTENDS QueueRules

CONSTANTS
    Producers,       \* threads that push, one of which announces the end
    Consumers,       \* threads that pop until the end
    Values           \* what is queued

VARIABLES
    q,               \* the queue
    request,         \* the operation a thread has called and that is still open
    value            \* its argument, or what the thread popped last

fifoVars == <<q, request, value>>

FifoInit ==
    /\ q = OpenQueue
    /\ request = [t \in Producers \cup Consumers |-> "none"]
    /\ value \in [Producers \cup Consumers -> Values]

\* The caller's contract: nothing is pushed once the end is announced.
EndAnnounced == q.shutdown \/ \E t \in Producers : request[t] = "shutdown"

Call(t, op) == request[t] = "none" /\ request' = [request EXCEPT ![t] = op]
Answer(t, to) == request' = [request EXCEPT ![t] = to]

CallPush(t, v) ==
    /\ Call(t, "push")
    /\ ~EndAnnounced
    /\ value' = [value EXCEPT ![t] = v]
    /\ UNCHANGED q

Push(t) ==
    /\ request[t] = "push"
    /\ q' = Pushed(q, value[t])
    /\ Answer(t, "none")
    /\ UNCHANGED value

CallShutdown(t) ==
    /\ Call(t, "shutdown")
    /\ ~EndAnnounced
    /\ \A u \in Producers : request[u] # "push"
    /\ UNCHANGED <<q, value>>

Shutdown(t) ==
    /\ request[t] = "shutdown"
    /\ q' = Closed(q)
    /\ Answer(t, "none")
    /\ UNCHANGED value

CallPop(t) == Call(t, "pop") /\ UNCHANGED <<q, value>>

Pop(t) ==
    /\ request[t] = "pop"
    /\ q.items # <<>>
    /\ value' = [value EXCEPT ![t] = Head(q.items)]
    /\ q' = Popped(q)
    /\ Answer(t, "none")

PopFails(t) ==
    /\ request[t] = "pop"
    /\ Drained(q)
    /\ Answer(t, "ended")
    /\ UNCHANGED <<q, value>>

FifoNext ==
    \/ \E t \in Producers :
          (\E v \in Values : CallPush(t, v)) \/ Push(t) \/ CallShutdown(t) \/ Shutdown(t)
    \/ \E t \in Consumers : CallPop(t) \/ Pop(t) \/ PopFails(t)

FifoSpec == FifoInit /\ [][FifoNext]_fifoVars

====
