---- MODULE ThreadSafeQueue ----
(***************************************************************************)
(* ThreadSafeQueue.hpp: a deque behind a mutex and a condition variable.   *)
(* Each lock, each statement under the lock, and each notification, which  *)
(* the code gives after it has unlocked, is a step of its own.             *)
(* A thread waits on cv_ exactly while its pc is "asleep".                 *)
(***************************************************************************)
EXTENDS Naturals, FiniteSets, Sequences

CONSTANTS
    Producers,       \* threads that push, one of which shuts the queue down
    Consumers,       \* threads that loop while pop returns true
    Values,          \* what is queued
    NoThread,        \* the mutex is free
    MaxItems         \* bound: a push starts while there is room below it

Threads == Producers \cup Consumers

ASSUME ThreadsFinite == IsFiniteSet(Threads)
ASSUME RolesDisjoint == Producers \cap Consumers = {}
ASSUME NoThreadIsNone == NoThread \notin Threads
ASSUME MaxItemsIsNat == MaxItems \in Nat

VARIABLES
    queue,           \* queue_
    shutdown,        \* shutdown_
    mutex,           \* the thread that holds mutex_
    pc,              \* where a thread stands
    value            \* the argument of push, the result of pop

vars == <<queue, shutdown, mutex, pc, value>>

\* The threads that hold the mutex by where they stand, and those awaiting it.
InSection == {"append", "close", "test", "popFront"}
AtLock == {"lockPush", "lockShutdown", "lockPop"}

Asleep == { t \in Threads : pc[t] = "asleep" }
Closing == shutdown \/ \E t \in Producers : pc[t] \in {"lockShutdown", "close"}
Pushing == { t \in Producers : pc[t] \in {"lockPush", "append"} }

Init ==
    /\ queue = <<>>
    /\ shutdown = FALSE
    /\ mutex = NoThread
    /\ pc = [t \in Threads |-> "out"]
    /\ value \in [Threads -> Values]

Goto(t, place) == pc' = [pc EXCEPT ![t] = place]

\* Mutant of Lock: the mutex is not taken.
LockNothing(t) ==
    /\ pc[t] \in AtLock
    /\ Goto(t, CASE pc[t] = "lockPush" -> "append"
                 [] pc[t] = "lockShutdown" -> "close"
                 [] pc[t] = "lockPop" -> "test")
    /\ UNCHANGED <<queue, shutdown, mutex, value>>

\* Mutant of Lock: shutdown sets its flag without taking the mutex.
LockUnlessClosing(t) ==
    /\ pc[t] \in AtLock
    /\ pc[t] # "lockShutdown" => mutex = NoThread
    /\ mutex' = IF pc[t] = "lockShutdown" THEN mutex ELSE t
    /\ Goto(t, CASE pc[t] = "lockPush" -> "append"
                 [] pc[t] = "lockShutdown" -> "close"
                 [] pc[t] = "lockPop" -> "test")
    /\ UNCHANGED <<queue, shutdown, value>>

\* Take the mutex: on entry, or when a wait on cv_ is over.
Lock(t) ==
    /\ pc[t] \in AtLock
    /\ mutex = NoThread
    /\ mutex' = t
    /\ Goto(t, CASE pc[t] = "lockPush" -> "append"
                 [] pc[t] = "lockShutdown" -> "close"
                 [] pc[t] = "lockPop" -> "test")
    /\ UNCHANGED <<queue, shutdown, value>>

\* push is called; callers do not push once shutdown was called.
CallPush(t, v) ==
    /\ pc[t] = "out"
    /\ ~Closing
    /\ Len(queue) + Cardinality(Pushing) < MaxItems
    /\ Goto(t, "lockPush")
    /\ value' = [value EXCEPT ![t] = v]
    /\ UNCHANGED <<queue, shutdown, mutex>>

\* push_back, and the lock_guard goes.
PushBack(t) ==
    /\ pc[t] = "append"
    /\ queue' = Append(queue, value[t])
    /\ mutex' = NoThread
    /\ Goto(t, "notifyOne")
    /\ UNCHANGED <<shutdown, value>>

\* Mutant of NotifyOne: no waiting thread is woken.
NotifyNone(t) ==
    /\ pc[t] = "notifyOne"
    /\ Goto(t, "out")
    /\ UNCHANGED <<queue, shutdown, mutex, value>>

\* cv_.notify_one: some waiting thread, if there is one, goes for the mutex.
NotifyOne(t) ==
    /\ pc[t] = "notifyOne"
    /\ IF Asleep = {} THEN Goto(t, "out")
       ELSE \E w \in Asleep : pc' = [pc EXCEPT ![t] = "out", ![w] = "lockPop"]
    /\ UNCHANGED <<queue, shutdown, mutex, value>>

\* shutdown is called, once, by a producer, when all pushes have been made.
CallShutdown(t) ==
    /\ pc[t] = "out"
    /\ ~Closing
    /\ Pushing = {}
    /\ Goto(t, "lockShutdown")
    /\ UNCHANGED <<queue, shutdown, mutex, value>>

SetShutdown(t) ==
    /\ pc[t] = "close"
    /\ shutdown' = TRUE
    /\ mutex' = NoThread
    /\ Goto(t, "notifyAll")
    /\ UNCHANGED <<queue, value>>

\* Mutant of NotifyAll: only one waiting thread is woken.
NotifyOnlyOne(t) ==
    /\ pc[t] = "notifyAll"
    /\ IF Asleep = {} THEN Goto(t, "out")
       ELSE \E w \in Asleep : pc' = [pc EXCEPT ![t] = "out", ![w] = "lockPop"]
    /\ UNCHANGED <<queue, shutdown, mutex, value>>

\* cv_.notify_all.
NotifyAll(t) ==
    /\ pc[t] = "notifyAll"
    /\ pc' = [u \in Threads |-> IF u = t THEN "out"
                                ELSE IF pc[u] = "asleep" THEN "lockPop" ELSE pc[u]]
    /\ UNCHANGED <<queue, shutdown, mutex, value>>

CallPop(t) ==
    /\ pc[t] = "out"
    /\ Goto(t, "lockPop")
    /\ UNCHANGED <<queue, shutdown, mutex, value>>

\* The predicate of cv_.wait does not hold: unlock and sleep in one step.
Wait(t) ==
    /\ pc[t] = "test"
    /\ queue = <<>> /\ ~shutdown
    /\ mutex' = NoThread
    /\ Goto(t, "asleep")
    /\ UNCHANGED <<queue, shutdown, value>>

\* A condition variable may wake a thread for no reason.
WakeSpuriously(t) ==
    /\ pc[t] = "asleep"
    /\ Goto(t, "lockPop")
    /\ UNCHANGED <<queue, shutdown, mutex, value>>

\* out = std::move(queue_.front())
Front(t) ==
    /\ pc[t] = "test"
    /\ queue # <<>>
    /\ value' = [value EXCEPT ![t] = Head(queue)]
    /\ Goto(t, "popFront")
    /\ UNCHANGED <<queue, shutdown, mutex>>

\* pop_front, and the lock goes: pop returns true.
PopFront(t) ==
    /\ pc[t] = "popFront"
    /\ queue' = Tail(queue)
    /\ mutex' = NoThread
    /\ Goto(t, "out")
    /\ UNCHANGED <<shutdown, value>>

\* Shut down and empty: pop returns false and the caller's loop ends.
ReturnFalse(t) ==
    /\ pc[t] = "test"
    /\ queue = <<>> /\ shutdown
    /\ mutex' = NoThread
    /\ Goto(t, "ended")
    /\ UNCHANGED <<queue, shutdown, value>>

\* What a thread does by itself inside an operation; a consumer also calls again.
ProducerStep(t) == PushBack(t) \/ NotifyOne(t) \/ SetShutdown(t) \/ NotifyAll(t)
ConsumerStep(t) == CallPop(t) \/ Wait(t) \/ Front(t) \/ PopFront(t) \/ ReturnFalse(t)

Next ==
    \/ \E t \in Threads : Lock(t)
    \/ \E t \in Producers :
          (\E v \in Values : CallPush(t, v)) \/ CallShutdown(t) \/ ProducerStep(t)
    \/ \E t \in Consumers : ConsumerStep(t) \/ WakeSpuriously(t)

Spec == Init /\ [][Next]_vars

\* Threads run, and one that waits for the mutex gets it sooner or later.
\* Nothing is assumed of calls to push and shutdown, nor of spurious wake-ups.
FairSpec ==
    /\ Spec
    /\ \A t \in Producers : WF_vars(ProducerStep(t))
    /\ \A t \in Consumers : WF_vars(ConsumerStep(t))
    /\ \A t \in Threads : SF_vars(Lock(t))

----------------------------------------------------------------------------
(* Properties. *)

Typed ==
    /\ queue \in Seq(Values)
    /\ shutdown \in BOOLEAN
    /\ mutex \in Threads \cup {NoThread}
    /\ pc \in [Threads -> {"out", "notifyOne", "notifyAll", "asleep", "ended"}
                          \cup InSection \cup AtLock]
    /\ value \in [Threads -> Values]
    /\ \A t \in Producers : pc[t] \notin {"lockPop", "test", "popFront", "asleep", "ended"}
    /\ \A t \in Consumers :
          pc[t] \in {"out", "lockPop", "test", "popFront", "asleep", "ended"}

\* Whoever stands in a critical section holds the mutex, and nobody else does.
MutexHeld == \A t \in Threads : pc[t] \in InSection <=> mutex = t

\* The types, every thread at a place of its role, and no two threads at once
\* between lock and unlock: queue_ and shutdown_ have no other protection.
TypeOK == Typed /\ MutexHeld

\* The threads through which a queued item is on its way: a producer about to
\* notify, a consumer about to look at the queue or taking an item.
Attending == { t \in Threads : pc[t] \in {"notifyOne", "lockPop", "test", "popFront"} }

\* No lost wake-up, though notifications come after the unlock: while a consumer
\* sleeps, every queued item has a thread of its own on its way to it, and a
\* shutdown is followed by a notify_all still to be given.
NoLostWakeup ==
    Asleep # {} =>
        /\ Len(queue) <= Cardinality(Attending)
        /\ shutdown => \E t \in Producers : pc[t] = "notifyAll"

\* Between front() and pop_front() the item has left for its consumer already.
TakenFrom == { t \in Consumers : pc[t] = "popFront" }

Request(t) ==
    CASE pc[t] \in {"lockPush", "append"} -> "push"
      [] pc[t] \in {"lockShutdown", "close"} -> "shutdown"
      [] pc[t] \in {"lockPop", "test", "asleep"} -> "pop"
      [] pc[t] = "ended" -> "ended"
      [] OTHER -> "none"

Fifo == INSTANCE BlockingFifo WITH
    q <- [items |-> IF TakenFrom = {} THEN queue ELSE Tail(queue), shutdown |-> shutdown],
    request <- [t \in Threads |-> Request(t)]

\* "Simple thread-safe FIFO queue": every push, pop and shutdown takes effect at
\* one moment between its call and its return, in a queue where nothing is
\* lost, doubled or overtaken, and pop fails only when shut down and empty.
ImplementsBlockingFifo == Fifo!FifoSpec

\* Items do not stay behind while consumers sleep: the queue is empty again or
\* an item is taken, again and again.
ItemsKeepMoving == []<>(queue = <<>> \/ TakenFrom # {})

\* shutdown "wakes up all waiting threads": after it what is queued is still
\* taken and every consumer's loop ends.
ShutdownDrains == shutdown ~> (queue = <<>> /\ \A t \in Consumers : pc[t] = "ended")

====
