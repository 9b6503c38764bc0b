---- MODULE ThreadSafeQueue_proofs ----
(***************************************************************************)
(* Proofs about ThreadSafeQueue, for any number of producers and consumers,*)
(* any values and any bound on the queue's length.                         *)
(***************************************************************************)
EXTENDS ThreadSafeQueue, FiniteSetTheorems, TLAPS

\* The item a consumer has copied is still the head when it pops it.
HeadTaken == \A t \in Threads : pc[t] = "popFront" => queue # <<>> /\ value[t] = Head(queue)

IInv == Typed /\ MutexHeld /\ HeadTaken /\ NoLostWakeup

----------------------------------------------------------------------------
(* The type invariant. *)

\* What the actions of all threads do, by thread.
Step(t) ==
    \/ Lock(t)
    \/ t \in Producers /\ \/ \E v \in Values : CallPush(t, v)
                          \/ PushBack(t) \/ NotifyOne(t)
                          \/ CallShutdown(t) \/ SetShutdown(t) \/ NotifyAll(t)
    \/ t \in Consumers /\ \/ CallPop(t) \/ Wait(t) \/ WakeSpuriously(t)
                          \/ Front(t) \/ PopFront(t) \/ ReturnFalse(t)

\* A step of the queue is a step of one thread.
LEMMA NextIsStep == Next => \E t \in Threads : Step(t)
BY Zenon DEF Next, Step, Threads, ProducerStep, ConsumerStep

\* Every action keeps the types: a thread stays in its role, and nothing is
\* popped from an empty queue.
LEMMA TypeStep == ASSUME Typed, HeadTaken, NEW t \in Threads, Step(t) PROVE Typed'
<1> USE RolesDisjoint, NoThreadIsNone DEF Typed, Threads, InSection, AtLock, Goto
<1>1. CASE Lock(t)
  BY <1>1 DEF Lock
<1>2. CASE t \in Producers /\ \E v \in Values : CallPush(t, v)
  BY <1>2 DEF CallPush
<1>3. CASE t \in Producers /\ PushBack(t)
  BY <1>3 DEF PushBack
<1>4. CASE t \in Producers /\ NotifyOne(t)
  BY <1>4 DEF NotifyOne, Asleep
<1>5. CASE t \in Producers /\ CallShutdown(t)
  BY <1>5 DEF CallShutdown
<1>6. CASE t \in Producers /\ SetShutdown(t)
  BY <1>6 DEF SetShutdown
<1>7. CASE t \in Producers /\ NotifyAll(t)
  BY <1>7 DEF NotifyAll
<1>8. CASE t \in Consumers /\ CallPop(t)
  BY <1>8 DEF CallPop
<1>9. CASE t \in Consumers /\ Wait(t)
  BY <1>9 DEF Wait
<1>10. CASE t \in Consumers /\ WakeSpuriously(t)
  BY <1>10 DEF WakeSpuriously
<1>11. CASE t \in Consumers /\ Front(t)
  <2>1. Head(queue) \in Values
    BY <1>11 DEF Front
  <2> QED BY <1>11, <2>1 DEF Front
<1>12. CASE t \in Consumers /\ PopFront(t)
  <2>1. queue # <<>> /\ Tail(queue) \in Seq(Values)
    BY <1>12 DEF PopFront, HeadTaken
  <2> QED BY <1>12, <2>1 DEF PopFront
<1>13. CASE t \in Consumers /\ ReturnFalse(t)
  BY <1>13 DEF ReturnFalse
<1> QED
  BY <1>1, <1>2, <1>3, <1>4, <1>5, <1>6, <1>7, <1>8, <1>9, <1>10, <1>11, <1>12, <1>13 DEF Step

----------------------------------------------------------------------------
(* Mutual exclusion. *)

\* Where the threads stand after a step, and who holds the mutex: either t took
\* it, or t let it go, or t neither had nor got it.
LEMMA MutexStep ==
    ASSUME Typed, MutexHeld, NEW t \in Threads, Step(t) PROVE MutexHeld'
<1> USE RolesDisjoint, NoThreadIsNone DEF Typed, MutexHeld, Threads, InSection, AtLock, Goto
<1>1. CASE Lock(t)
  BY <1>1 DEF Lock
<1>2. CASE t \in Producers /\ \E v \in Values : CallPush(t, v)
  BY <1>2 DEF CallPush
<1>3. CASE t \in Producers /\ PushBack(t)
  BY <1>3 DEF PushBack
<1>4. CASE t \in Producers /\ NotifyOne(t)
  BY <1>4 DEF NotifyOne, Asleep
<1>5. CASE t \in Producers /\ CallShutdown(t)
  BY <1>5 DEF CallShutdown
<1>6. CASE t \in Producers /\ SetShutdown(t)
  BY <1>6 DEF SetShutdown
<1>7. CASE t \in Producers /\ NotifyAll(t)
  BY <1>7 DEF NotifyAll
<1>8. CASE t \in Consumers /\ CallPop(t)
  BY <1>8 DEF CallPop
<1>9. CASE t \in Consumers /\ Wait(t)
  BY <1>9 DEF Wait
<1>10. CASE t \in Consumers /\ WakeSpuriously(t)
  BY <1>10 DEF WakeSpuriously
<1>11. CASE t \in Consumers /\ Front(t)
  BY <1>11 DEF Front
<1>12. CASE t \in Consumers /\ PopFront(t)
  BY <1>12 DEF PopFront
<1>13. CASE t \in Consumers /\ ReturnFalse(t)
  BY <1>13 DEF ReturnFalse
<1> QED
  BY <1>1, <1>2, <1>3, <1>4, <1>5, <1>6, <1>7, <1>8, <1>9, <1>10, <1>11, <1>12, <1>13 DEF Step

\* While one thread is in a section no other is.
LEMMA OneInSection ==
    ASSUME MutexHeld, NEW t \in Threads, NEW u \in Threads,
           pc[t] \in InSection, pc[u] \in InSection
    PROVE  t = u
BY DEF MutexHeld

\* Only the thread in the section changes the queue, so the head stays put
\* between front and pop_front.
LEMMA HeadStep ==
    ASSUME Typed, MutexHeld, HeadTaken, NEW t \in Threads, Step(t) PROVE HeadTaken'
<1> SUFFICES ASSUME NEW u \in Threads, pc'[u] = "popFront"
             PROVE  queue' # <<>> /\ value'[u] = Head(queue')
  BY DEF HeadTaken
<1> USE RolesDisjoint DEF Typed, Threads, AtLock, Goto
<1>1. CASE Lock(t)
  BY <1>1 DEF Lock, HeadTaken
<1>2. CASE t \in Producers /\ \E v \in Values : CallPush(t, v)
  BY <1>2 DEF CallPush, HeadTaken
<1>3. CASE t \in Producers /\ PushBack(t)
  <2>1. u # t /\ pc[u] = "popFront" /\ pc[t] = "append"
    BY <1>3 DEF PushBack
  <2> QED BY <2>1, OneInSection DEF InSection
<1>4. CASE t \in Producers /\ NotifyOne(t)
  BY <1>4 DEF NotifyOne, Asleep, HeadTaken
<1>5. CASE t \in Producers /\ CallShutdown(t)
  BY <1>5 DEF CallShutdown, HeadTaken
<1>6. CASE t \in Producers /\ SetShutdown(t)
  BY <1>6 DEF SetShutdown, HeadTaken
<1>7. CASE t \in Producers /\ NotifyAll(t)
  BY <1>7 DEF NotifyAll, HeadTaken
<1>8. CASE t \in Consumers /\ CallPop(t)
  BY <1>8 DEF CallPop, HeadTaken
<1>9. CASE t \in Consumers /\ Wait(t)
  BY <1>9 DEF Wait, HeadTaken
<1>10. CASE t \in Consumers /\ WakeSpuriously(t)
  BY <1>10 DEF WakeSpuriously, HeadTaken
<1>11. CASE t \in Consumers /\ Front(t)
  <2>1. CASE u = t
    BY <1>11, <2>1 DEF Front
  <2>2. CASE u # t
    BY <1>11, <2>2 DEF Front, HeadTaken
  <2> QED BY <2>1, <2>2
<1>12. CASE t \in Consumers /\ PopFront(t)
  <2>1. u # t /\ pc[u] = "popFront" /\ pc[t] = "popFront"
    BY <1>12 DEF PopFront
  <2> QED BY <2>1, OneInSection DEF InSection
<1>13. CASE t \in Consumers /\ ReturnFalse(t)
  BY <1>13 DEF ReturnFalse, HeadTaken
<1> QED
  BY <1>1, <1>2, <1>3, <1>4, <1>5, <1>6, <1>7, <1>8, <1>9, <1>10, <1>11, <1>12, <1>13 DEF Step

----------------------------------------------------------------------------
(* No lost wake-up. *)

\* A set of threads is finite, and with a further one it is one larger.
LEMMA ThreadSets ==
    ASSUME NEW S \in SUBSET Threads
    PROVE  /\ IsFiniteSet(S)
           /\ Cardinality(S) \in Nat
           /\ \A x \in S : Cardinality(S \ {x}) = Cardinality(S) - 1
           /\ \A x \in Threads \ S : Cardinality(S \cup {x}) = Cardinality(S) + 1
<1>1. IsFiniteSet(S)
  BY ThreadsFinite, FS_Subset
<1>2. Cardinality(S) \in Nat
  BY <1>1, FS_CardinalityType
<1>3. \A x \in S : Cardinality(S \ {x}) = Cardinality(S) - 1
  BY <1>1, FS_RemoveElement
<1>4. \A x \in Threads \ S : Cardinality(S \cup {x}) = Cardinality(S) + 1
  BY <1>1, FS_AddElement
<1> QED BY <1>1, <1>2, <1>3, <1>4

\* Every action keeps the balance of queued items and attending threads: a push
\* brings a thread with it, a notification passes its part to the thread it
\* wakes, a pop takes an item, and a thread leaves only when nothing is queued.
LEMMA WakeupStep ==
    ASSUME Typed, HeadTaken, NoLostWakeup, NEW t \in Threads, Step(t) PROVE NoLostWakeup'
<1> SUFFICES ASSUME Asleep' # {}
             PROVE  /\ Len(queue') <= Cardinality(Attending')
                    /\ shutdown' => \E u \in Producers : pc'[u] = "notifyAll"
  BY DEF NoLostWakeup
<1>a. Attending \in SUBSET Threads /\ Attending' \in SUBSET Threads
  BY DEF Attending
<1>b. Cardinality(Attending) \in Nat /\ Cardinality(Attending') \in Nat
  BY <1>a, ThreadSets
<1>c. queue \in Seq(Values) /\ Len(queue) \in Nat
  BY DEF Typed
<1>d. ASSUME queue' = queue, shutdown' = shutdown, Asleep # {},
             Cardinality(Attending) <= Cardinality(Attending'),
             \A u \in Producers : pc[u] = "notifyAll" => pc'[u] = "notifyAll"
      PROVE  /\ Len(queue') <= Cardinality(Attending')
             /\ shutdown' => \E u \in Producers : pc'[u] = "notifyAll"
  BY <1>b, <1>c, <1>d DEF NoLostWakeup
<1> USE RolesDisjoint DEF Threads, Goto
<1>1. CASE Lock(t)
  <2>1. Attending' = Attending /\ Asleep' = Asleep
    BY <1>1 DEF Lock, Attending, Asleep, AtLock, Typed
  <2>2. \A u \in Producers : pc[u] = "notifyAll" => pc'[u] = "notifyAll"
    BY <1>1 DEF Lock, AtLock, Typed
  <2>3. queue' = queue /\ shutdown' = shutdown
    BY <1>1 DEF Lock
  <2> QED BY <1>b, <1>d, <2>1, <2>2, <2>3
<1>2. CASE t \in Producers /\ \E v \in Values : CallPush(t, v)
  <2>1. Attending' = Attending /\ Asleep' = Asleep
    BY <1>2 DEF CallPush, Attending, Asleep, Typed
  <2>2. \A u \in Producers : pc[u] = "notifyAll" => pc'[u] = "notifyAll"
    BY <1>2 DEF CallPush, Typed
  <2> QED BY <1>2, <1>b, <1>d, <2>1, <2>2 DEF CallPush
<1>3. CASE t \in Producers /\ PushBack(t)
  <2>1. t \notin Attending /\ Attending' = Attending \cup {t} /\ Asleep' = Asleep
    BY <1>3 DEF PushBack, Attending, Asleep, Typed
  <2>2. Cardinality(Attending') = Cardinality(Attending) + 1
    BY <1>a, <2>1, ThreadSets
  <2>3. Len(queue') = Len(queue) + 1 /\ shutdown' = shutdown
    BY <1>3, <1>c DEF PushBack, Typed
  <2>4. \A u \in Producers : pc[u] = "notifyAll" => pc'[u] = "notifyAll"
    BY <1>3 DEF PushBack, Typed
  <2> QED BY <1>b, <1>c, <2>1, <2>2, <2>3, <2>4 DEF NoLostWakeup
<1>4. CASE t \in Producers /\ NotifyOne(t)
  <2>1. Asleep # {}
    BY <1>4 DEF NotifyOne, Asleep, Typed
  <2>2. PICK w \in Asleep : pc' = [pc EXCEPT ![t] = "out", ![w] = "lockPop"]
    BY <1>4, <2>1 DEF NotifyOne
  <2>3. t \in Attending /\ w \in Threads \ Attending /\ w # t
    BY <1>4, <2>2 DEF NotifyOne, Attending, Asleep
  <2>4. Attending' = (Attending \ {t}) \cup {w}
    BY <2>2, <2>3 DEF Attending, Asleep, Typed
  <2>5. Cardinality(Attending \ {t}) = Cardinality(Attending) - 1
    BY <1>a, <2>3, ThreadSets
  <2>6. w \in Threads \ (Attending \ {t}) /\ Attending \ {t} \in SUBSET Threads
    BY <1>a, <2>3
  <2>7. Cardinality(Attending') = Cardinality(Attending \ {t}) + 1
    BY <2>4, <2>6, ThreadSets
  <2>8. \A u \in Producers : pc[u] = "notifyAll" => pc'[u] = "notifyAll"
    BY <1>4, <2>2 DEF NotifyOne, Asleep, Typed
  <2> QED BY <1>4, <1>b, <1>d, <2>1, <2>5, <2>7, <2>8 DEF NotifyOne
<1>5. CASE t \in Producers /\ CallShutdown(t)
  <2>1. Attending' = Attending /\ Asleep' = Asleep
    BY <1>5 DEF CallShutdown, Attending, Asleep, Typed
  <2>2. \A u \in Producers : pc[u] = "notifyAll" => pc'[u] = "notifyAll"
    BY <1>5 DEF CallShutdown, Typed
  <2> QED BY <1>5, <1>b, <1>d, <2>1, <2>2 DEF CallShutdown
<1>6. CASE t \in Producers /\ SetShutdown(t)
  <2>1. Attending' = Attending /\ Asleep' = Asleep /\ pc'[t] = "notifyAll"
    BY <1>6 DEF SetShutdown, Attending, Asleep, Typed
  <2> QED BY <1>6, <2>1 DEF SetShutdown, NoLostWakeup
<1>7. CASE t \in Producers /\ NotifyAll(t)
  <2>1. Asleep' = {}
    BY <1>7 DEF NotifyAll, Asleep
  <2> QED BY <2>1
<1>8. CASE t \in Consumers /\ CallPop(t)
  <2>1. t \notin Attending /\ Attending' = Attending \cup {t} /\ Asleep' = Asleep
    BY <1>8 DEF CallPop, Attending, Asleep, Typed
  <2>2. Cardinality(Attending') = Cardinality(Attending) + 1
    BY <1>a, <2>1, ThreadSets
  <2>3. \A u \in Producers : pc[u] = "notifyAll" => pc'[u] = "notifyAll"
    BY <1>8 DEF CallPop, Typed
  <2> QED BY <1>8, <1>b, <1>d, <2>1, <2>2, <2>3 DEF CallPop
<1>9. CASE t \in Consumers /\ Wait(t)
  BY <1>9, <1>b DEF Wait
<1>10. CASE t \in Consumers /\ WakeSpuriously(t)
  <2>1. t \notin Attending /\ Attending' = Attending \cup {t} /\ t \in Asleep
    BY <1>10 DEF WakeSpuriously, Attending, Asleep, Typed
  <2>2. Cardinality(Attending') = Cardinality(Attending) + 1
    BY <1>a, <2>1, ThreadSets
  <2>3. \A u \in Producers : pc[u] = "notifyAll" => pc'[u] = "notifyAll"
    BY <1>10 DEF WakeSpuriously, Typed
  <2> QED BY <1>10, <1>b, <1>d, <2>1, <2>2, <2>3 DEF WakeSpuriously
<1>11. CASE t \in Consumers /\ Front(t)
  <2>1. Attending' = Attending /\ Asleep' = Asleep
    BY <1>11 DEF Front, Attending, Asleep, Typed
  <2>2. \A u \in Producers : pc[u] = "notifyAll" => pc'[u] = "notifyAll"
    BY <1>11 DEF Front, Typed
  <2> QED BY <1>11, <1>b, <1>d, <2>1, <2>2 DEF Front
<1>12. CASE t \in Consumers /\ PopFront(t)
  <2>1. t \in Attending /\ Attending' = Attending \ {t} /\ Asleep' = Asleep
    BY <1>12 DEF PopFront, Attending, Asleep, Typed
  <2>2. Cardinality(Attending') = Cardinality(Attending) - 1
    BY <1>a, <2>1, ThreadSets
  <2>3. queue # <<>>
    BY <1>12 DEF PopFront, HeadTaken
  <2>4. Len(queue') = Len(queue) - 1 /\ shutdown' = shutdown
    BY <1>12, <1>c, <2>3 DEF PopFront
  <2>5. \A u \in Producers : pc[u] = "notifyAll" => pc'[u] = "notifyAll"
    BY <1>12 DEF PopFront, Typed
  <2> QED BY <1>b, <1>c, <2>1, <2>2, <2>4, <2>5 DEF NoLostWakeup
<1>13. CASE t \in Consumers /\ ReturnFalse(t)
  <2>1. Asleep' = Asleep
    BY <1>13 DEF ReturnFalse, Asleep, Typed
  <2>2. \A u \in Producers : pc[u] = "notifyAll" => pc'[u] = "notifyAll"
    BY <1>13 DEF ReturnFalse, Typed
  <2> QED BY <1>13, <1>b, <2>1, <2>2 DEF ReturnFalse, NoLostWakeup
<1> QED
  BY <1>1, <1>2, <1>3, <1>4, <1>5, <1>6, <1>7, <1>8, <1>9, <1>10, <1>11, <1>12, <1>13 DEF Step

----------------------------------------------------------------------------
(* The inductive invariant. *)

LEMMA InitInv == Init => IInv
<1> SUFFICES ASSUME Init PROVE IInv
  OBVIOUS
<1>1. Typed
  <2>1. queue = <<>> /\ shutdown = FALSE /\ mutex = NoThread
    BY DEF Init
  <2>2. pc = [t \in Threads |-> "out"] /\ value \in [Threads -> Values]
    BY DEF Init
  <2>3. queue \in Seq(Values)
    BY <2>1
  <2>4. shutdown \in BOOLEAN /\ mutex \in Threads \cup {NoThread}
    BY <2>1
  <2>5. pc \in [Threads -> {"out", "notifyOne", "notifyAll", "asleep", "ended"}
                           \cup InSection \cup AtLock]
    BY <2>2
  <2>6. \A t \in Threads : pc[t] = "out"
    BY <2>2
  <2> QED BY <2>2, <2>3, <2>4, <2>5, <2>6 DEF Typed, Threads
<1>2. MutexHeld
  BY NoThreadIsNone DEF Init, MutexHeld, InSection
<1>3. HeadTaken /\ Asleep = {}
  BY DEF Init, HeadTaken, Asleep
<1> QED BY <1>1, <1>2, <1>3 DEF IInv, NoLostWakeup

LEMMA StutterInv == IInv /\ UNCHANGED vars => IInv'
<1> SUFFICES ASSUME IInv, UNCHANGED vars PROVE IInv'
  OBVIOUS
<1>1. Typed'
  BY DEF IInv, Typed, vars
<1>2. MutexHeld' /\ HeadTaken'
  BY DEF IInv, MutexHeld, HeadTaken, vars
<1>3. Asleep' = Asleep /\ Attending' = Attending
  BY DEF Asleep, Attending, vars
<1>4. NoLostWakeup'
  BY <1>3 DEF IInv, NoLostWakeup, vars
<1> QED BY <1>1, <1>2, <1>4 DEF IInv

LEMMA NextInv == IInv /\ [Next]_vars => IInv'
<1> SUFFICES ASSUME IInv, [Next]_vars PROVE IInv'
  OBVIOUS
<1>1. CASE UNCHANGED vars
  BY <1>1, StutterInv
<1>2. CASE Next
  <2>1. PICK t \in Threads : Step(t)
    BY <1>2, NextIsStep
  <2> QED BY <2>1, TypeStep, MutexStep, HeadStep, WakeupStep DEF IInv
<1> QED BY <1>1, <1>2

\* What holds of the queue at every moment, for any number of threads: types,
\* mutual exclusion, the copied item still at the head, no lost wake-up.
THEOREM QueueInvariance == Spec => []IInv
<1>1. Init => IInv
  BY InitInv
<1>2. IInv /\ [Next]_vars => IInv'
  BY NextInv
<1> QED BY <1>1, <1>2, PTL DEF Spec

\* Every variable of the queue keeps its type and every thread its role, and the
\* mutex is held exactly by the thread that is between lock and unlock.
THEOREM QueueTypeCorrect == Spec => []TypeOK
<1>1. IInv => TypeOK
  BY DEF IInv, TypeOK
<1> QED BY <1>1, QueueInvariance, PTL

\* While a consumer sleeps every queued item has a thread on its way to it, and
\* after a shutdown a notify_all is still to come: no wake-up is lost.
THEOREM WakeupsAreNotLost == Spec => []NoLostWakeup
<1>1. IInv => NoLostWakeup
  BY DEF IInv
<1> QED BY <1>1, QueueInvariance, PTL

----------------------------------------------------------------------------
(* The refinement of BlockingFifo. *)

\* The items, requests and queue that BlockingFifo sees.
Items == IF TakenFrom = {} THEN queue ELSE Tail(queue)
Requests == [t \in Threads |-> Request(t)]
SeenQueue == [items |-> Items, shutdown |-> shutdown]

\* What an action shows of itself: the request of its thread, and no other.
LEMMA RequestsAfter ==
    ASSUME Typed, NEW t \in Threads, NEW place, Goto(t, place)
    PROVE  /\ \A u \in Threads : u # t => Request(u)' = Request(u)
           /\ Requests' = [Requests EXCEPT ![t] = Request(t)']
<1>1. pc'[t] = place /\ \A u \in Threads : u # t => pc'[u] = pc[u]
  BY DEF Typed, Goto
<1>2. \A u \in Threads : u # t => Request(u)' = Request(u)
  BY <1>1 DEF Request
<1> QED BY <1>2 DEF Requests

\* In a section other than its own a thread finds no item copied.
LEMMA NobodyTaking ==
    ASSUME MutexHeld, NEW t \in Threads, pc[t] \in {"append", "close", "test"}
    PROVE  TakenFrom = {}
BY OneInSection DEF TakenFrom, Threads, InSection

\* A thread that moves between places other than popFront leaves what is taken.
LEMMA TakenFromSame ==
    ASSUME Typed, NEW t \in Threads, NEW place, Goto(t, place),
           pc[t] # "popFront", place # "popFront"
    PROVE  TakenFrom' = TakenFrom
BY DEF Typed, Goto, TakenFrom, Threads

\* A step that changes neither queue nor flag, nor any request, is not seen.
LEMMA Unseen ==
    ASSUME queue' = queue, shutdown' = shutdown, value' = value,
           TakenFrom' = TakenFrom, Requests' = Requests
    PROVE  UNCHANGED <<SeenQueue, Requests, value>>
BY DEF SeenQueue, Items

\* Lock, notifications and waking up are not seen: a request stays what it is.
LEMMA InnerSteps ==
    ASSUME Typed, MutexHeld, HeadTaken, NEW t \in Threads,
           \/ Lock(t)
           \/ t \in Producers /\ (NotifyOne(t) \/ NotifyAll(t))
           \/ t \in Consumers /\ (Wait(t) \/ WakeSpuriously(t) \/ PopFront(t))
    PROVE  UNCHANGED <<SeenQueue, Requests, value>>
<1>1. CASE Lock(t)
  <2>1. PICK place \in {"append", "close", "test"} :
           /\ Goto(t, place)
           /\ \/ pc[t] = "lockPush" /\ place = "append"
              \/ pc[t] = "lockShutdown" /\ place = "close"
              \/ pc[t] = "lockPop" /\ place = "test"
    BY <1>1 DEF Lock, AtLock
  <2>2. pc'[t] = place
    BY <2>1 DEF Typed, Goto
  <2>3. Request(t)' = Request(t)
    BY <2>1, <2>2 DEF Request
  <2>4. Requests' = Requests
    BY <2>1, <2>3, RequestsAfter DEF Requests
  <2>5. TakenFrom' = TakenFrom
    BY <2>1, TakenFromSame
  <2>6. queue' = queue /\ shutdown' = shutdown /\ value' = value
    BY <1>1 DEF Lock
  <2> QED BY <2>4, <2>5, <2>6, Unseen
<1>2. CASE t \in Producers /\ (NotifyOne(t) \/ NotifyAll(t))
  <2>1. /\ queue' = queue /\ shutdown' = shutdown /\ value' = value
        /\ \A u \in Threads :
              \/ pc'[u] = pc[u]
              \/ pc[u] \in {"notifyOne", "notifyAll"} /\ pc'[u] = "out"
              \/ pc[u] = "asleep" /\ pc'[u] = "lockPop"
    BY <1>2 DEF NotifyOne, NotifyAll, Asleep, Goto, Typed
  <2>2. \A u \in Threads : Request(u)' = Request(u)
    BY <2>1 DEF Request
  <2>3. Requests' = Requests
    BY <2>2 DEF Requests
  <2>4. TakenFrom' = TakenFrom
    BY <2>1 DEF TakenFrom, Threads
  <2> QED BY <2>1, <2>3, <2>4, Unseen
<1>3. CASE t \in Consumers /\ (Wait(t) \/ WakeSpuriously(t))
  <2>1. PICK place \in {"asleep", "lockPop"} :
           Goto(t, place) /\ pc[t] \in {"test", "asleep"}
    BY <1>3 DEF Wait, WakeSpuriously
  <2>2. pc'[t] = place
    BY <2>1 DEF Typed, Goto
  <2>3. Request(t)' = Request(t)
    BY <2>1, <2>2 DEF Request
  <2>4. Requests' = Requests
    BY <2>1, <2>3, RequestsAfter DEF Requests
  <2>5. TakenFrom' = TakenFrom
    BY <2>1, TakenFromSame
  <2>6. queue' = queue /\ shutdown' = shutdown /\ value' = value
    BY <1>3 DEF Wait, WakeSpuriously
  <2> QED BY <2>4, <2>5, <2>6, Unseen
<1>4. CASE t \in Consumers /\ PopFront(t)
  <2>1. Goto(t, "out") /\ pc[t] = "popFront" /\ pc'[t] = "out"
    BY <1>4 DEF PopFront, Goto, Typed
  <2>2. Request(t)' = Request(t)
    BY <2>1 DEF Request
  <2>3. Requests' = Requests
    BY <2>1, <2>2, RequestsAfter DEF Requests
  <2>4. \A u \in Threads : u # t => pc'[u] = pc[u] /\ pc[u] # "popFront"
    BY <2>1, OneInSection DEF InSection, Goto, Typed
  <2>5. TakenFrom # {} /\ TakenFrom' = {}
    BY <1>4, <2>1, <2>4 DEF TakenFrom, Threads
  <2>6. queue' = Tail(queue) /\ shutdown' = shutdown /\ value' = value
    BY <1>4 DEF PopFront
  <2> QED BY <2>3, <2>5, <2>6 DEF SeenQueue, Items
<1> QED BY <1>1, <1>2, <1>3, <1>4

\* The start of an operation, seen as its call.
LEMMA CallSeen ==
    ASSUME Typed, NEW t \in Threads, NEW place,
           NEW op, pc[t] = "out", Goto(t, place),
           \/ place = "lockPush" /\ op = "push"
           \/ place = "lockShutdown" /\ op = "shutdown"
           \/ place = "lockPop" /\ op = "pop",
           queue' = queue, shutdown' = shutdown
    PROVE  /\ Requests[t] = "none"
           /\ Requests' = [Requests EXCEPT ![t] = op]
           /\ SeenQueue' = SeenQueue
<1>1. pc'[t] = place
  BY DEF Typed, Goto
<1>2. Request(t) = "none" /\ Request(t)' = op
  BY <1>1 DEF Request
<1>3. Requests' = [Requests EXCEPT ![t] = op]
  BY <1>2, RequestsAfter
<1>4. TakenFrom' = TakenFrom
  BY TakenFromSame
<1> QED BY <1>2, <1>3, <1>4 DEF Requests, SeenQueue, Items

\* No thread is announcing the end unless the code says so.
LEMMA EndSeen ==
    ASSUME ~Closing
    PROVE  ~SeenQueue.shutdown /\ \A u \in Producers : Requests[u] # "shutdown"
<1>1. ~SeenQueue.shutdown
  BY DEF Closing, SeenQueue
<1>2. \A u \in Producers : Request(u) # "shutdown"
  BY DEF Closing, Request
<1> QED BY <1>1, <1>2 DEF Requests, Threads

\* What the rules of a queue make of its record.
LEMMA PushedRecord ==
    ASSUME NEW i, NEW s, NEW v
    PROVE  Fifo!Pushed([items |-> i, shutdown |-> s], v) = [items |-> Append(i, v), shutdown |-> s]
<1>1. [items |-> i, shutdown |-> s].items = i
  OBVIOUS
<1>2. \A j : [[items |-> i, shutdown |-> s] EXCEPT !.items = j] = [items |-> j, shutdown |-> s]
  OBVIOUS
<1> QED BY <1>1, <1>2 DEF Fifo!Pushed

LEMMA PoppedRecord ==
    ASSUME NEW i, NEW s
    PROVE  Fifo!Popped([items |-> i, shutdown |-> s]) = [items |-> Tail(i), shutdown |-> s]
<1>1. [items |-> i, shutdown |-> s].items = i
  OBVIOUS
<1>2. \A j : [[items |-> i, shutdown |-> s] EXCEPT !.items = j] = [items |-> j, shutdown |-> s]
  OBVIOUS
<1> QED BY <1>1, <1>2 DEF Fifo!Popped

LEMMA ClosedRecord ==
    ASSUME NEW i, NEW s
    PROVE  Fifo!Closed([items |-> i, shutdown |-> s]) = [items |-> i, shutdown |-> TRUE]
<1>1. \A j : [[items |-> i, shutdown |-> s] EXCEPT !.shutdown = j] = [items |-> i, shutdown |-> j]
  OBVIOUS
<1> QED BY Zenon, <1>1 DEF Fifo!Closed

\* The four operations, each at the moment it takes effect.
LEMMA PushSeen ==
    ASSUME Typed, MutexHeld, NEW t \in Producers, PushBack(t)
    PROVE  /\ Requests[t] = "push" /\ Requests' = [Requests EXCEPT ![t] = "none"]
           /\ SeenQueue' = Fifo!Pushed(SeenQueue, value[t])
           /\ value' = value
<1>1. t \in Threads /\ pc[t] = "append" /\ Goto(t, "notifyOne") /\ pc'[t] = "notifyOne"
  BY DEF PushBack, Threads, Goto, Typed
<1>2. Request(t) = "push" /\ Request(t)' = "none"
  BY <1>1 DEF Request
<1>3. Requests' = [Requests EXCEPT ![t] = "none"]
  BY <1>1, <1>2, RequestsAfter
<1>4. TakenFrom = {} /\ TakenFrom' = {}
  BY <1>1, NobodyTaking, TakenFromSame
<1>5. Items = queue /\ Items' = Append(queue, value[t]) /\ shutdown' = shutdown
  BY <1>4 DEF Items, PushBack
<1>6. SeenQueue' = Fifo!Pushed(SeenQueue, value[t])
  <2>1. SeenQueue = [items |-> queue, shutdown |-> shutdown]
    BY <1>5 DEF SeenQueue
  <2>2. SeenQueue' = [items |-> Append(queue, value[t]), shutdown |-> shutdown]
    BY <1>5 DEF SeenQueue
  <2> QED BY <2>1, <2>2, PushedRecord
<1>7. Requests[t] = "push" /\ value' = value
  BY <1>1, <1>2 DEF Requests, PushBack
<1> QED BY <1>3, <1>6, <1>7

LEMMA ShutdownSeen ==
    ASSUME Typed, MutexHeld, NEW t \in Producers, SetShutdown(t)
    PROVE  /\ Requests[t] = "shutdown" /\ Requests' = [Requests EXCEPT ![t] = "none"]
           /\ SeenQueue' = Fifo!Closed(SeenQueue)
           /\ value' = value
<1>1. t \in Threads /\ pc[t] = "close" /\ Goto(t, "notifyAll") /\ pc'[t] = "notifyAll"
  BY DEF SetShutdown, Threads, Goto, Typed
<1>2. Request(t) = "shutdown" /\ Request(t)' = "none"
  BY <1>1 DEF Request
<1>3. Requests' = [Requests EXCEPT ![t] = "none"]
  BY <1>1, <1>2, RequestsAfter
<1>4. TakenFrom = {} /\ TakenFrom' = {}
  BY <1>1, NobodyTaking, TakenFromSame
<1>5. Items' = Items /\ shutdown' = TRUE
  BY <1>4 DEF Items, SetShutdown
<1>6. SeenQueue' = Fifo!Closed(SeenQueue)
  <2>1. SeenQueue = [items |-> Items, shutdown |-> shutdown]
    BY <1>5 DEF SeenQueue
  <2>2. SeenQueue' = [items |-> Items, shutdown |-> TRUE]
    BY <1>5 DEF SeenQueue
  <2> QED BY <2>1, <2>2, ClosedRecord
<1>7. Requests[t] = "shutdown" /\ value' = value
  BY <1>1, <1>2 DEF Requests, SetShutdown
<1> QED BY <1>3, <1>6, <1>7

LEMMA PopSeen ==
    ASSUME Typed, MutexHeld, NEW t \in Consumers, Front(t)
    PROVE  /\ Requests[t] = "pop" /\ Requests' = [Requests EXCEPT ![t] = "none"]
           /\ SeenQueue.items # <<>>
           /\ value' = [value EXCEPT ![t] = Head(SeenQueue.items)]
           /\ SeenQueue' = Fifo!Popped(SeenQueue)
<1>1. t \in Threads /\ pc[t] = "test" /\ Goto(t, "popFront") /\ pc'[t] = "popFront"
  BY DEF Front, Threads, Goto, Typed
<1>2. Request(t) = "pop" /\ Request(t)' = "none"
  BY <1>1 DEF Request
<1>3. Requests' = [Requests EXCEPT ![t] = "none"]
  BY <1>1, <1>2, RequestsAfter
<1>4. TakenFrom = {} /\ TakenFrom' # {}
  BY <1>1, NobodyTaking DEF TakenFrom
<1>5. Items = queue /\ Items' = Tail(queue) /\ shutdown' = shutdown
  BY <1>4 DEF Items, Front
<1>6. SeenQueue.items = queue /\ SeenQueue' = Fifo!Popped(SeenQueue)
  <2>1. SeenQueue = [items |-> queue, shutdown |-> shutdown]
    BY <1>5 DEF SeenQueue
  <2>2. SeenQueue' = [items |-> Tail(queue), shutdown |-> shutdown]
    BY <1>5 DEF SeenQueue
  <2> QED BY <2>1, <2>2, PoppedRecord
<1>7. Requests[t] = "pop"
  BY <1>1, <1>2 DEF Requests
<1>8. queue # <<>> /\ value' = [value EXCEPT ![t] = Head(queue)]
  BY DEF Front
<1> QED BY <1>3, <1>6, <1>7, <1>8

LEMMA PopFailsSeen ==
    ASSUME Typed, MutexHeld, NEW t \in Consumers, ReturnFalse(t)
    PROVE  /\ Requests[t] = "pop" /\ Requests' = [Requests EXCEPT ![t] = "ended"]
           /\ SeenQueue.shutdown /\ SeenQueue.items = <<>>
           /\ SeenQueue' = SeenQueue /\ value' = value
<1>1. t \in Threads /\ pc[t] = "test" /\ Goto(t, "ended") /\ pc'[t] = "ended"
  BY DEF ReturnFalse, Threads, Goto, Typed
<1>2. Request(t) = "pop" /\ Request(t)' = "ended"
  BY <1>1 DEF Request
<1>3. Requests' = [Requests EXCEPT ![t] = "ended"]
  BY <1>1, <1>2, RequestsAfter
<1>4. TakenFrom = {} /\ TakenFrom' = {}
  BY <1>1, NobodyTaking, TakenFromSame
<1>5. Items = <<>> /\ Items' = <<>> /\ shutdown' = shutdown /\ shutdown
  BY <1>4 DEF Items, ReturnFalse
<1> QED BY <1>1, <1>2, <1>3, <1>5 DEF Requests, SeenQueue, ReturnFalse

\* Every step of the code is an operation of the abstract queue, or not seen.
LEMMA StepSeen ==
    ASSUME IInv, NEW t \in Threads, Step(t)
    PROVE  Fifo!FifoNext \/ UNCHANGED Fifo!fifoVars
<1> USE DEF IInv, SeenQueue, Requests, Items
<1>1. CASE t \in Producers /\ \E v \in Values : CallPush(t, v)
  <2>1. PICK v \in Values : CallPush(t, v)
    BY <1>1
  <2>2. Fifo!CallPush(t, v)
    BY <1>1, <2>1, CallSeen, EndSeen DEF CallPush, Fifo!CallPush, Fifo!Call, Fifo!EndAnnounced
  <2> QED BY <1>1, <2>2 DEF Fifo!FifoNext
<1>2. CASE t \in Producers /\ PushBack(t)
  <2>1. Fifo!Push(t)
    BY <1>2, PushSeen DEF Fifo!Push, Fifo!Answer
  <2> QED BY <1>2, <2>1 DEF Fifo!FifoNext
<1>3. CASE t \in Producers /\ CallShutdown(t)
  <2>1. \A u \in Producers : Requests[u] # "push"
    BY <1>3 DEF CallShutdown, Pushing, Request, Threads
  <2>2. Fifo!CallShutdown(t)
    BY <1>3, <2>1, CallSeen, EndSeen
       DEF CallShutdown, Fifo!CallShutdown, Fifo!Call, Fifo!EndAnnounced
  <2> QED BY <1>3, <2>2 DEF Fifo!FifoNext
<1>4. CASE t \in Producers /\ SetShutdown(t)
  <2>1. Fifo!Shutdown(t)
    BY <1>4, ShutdownSeen DEF Fifo!Shutdown, Fifo!Answer
  <2> QED BY <1>4, <2>1 DEF Fifo!FifoNext
<1>5. CASE t \in Consumers /\ CallPop(t)
  <2>1. Fifo!CallPop(t)
    BY <1>5, CallSeen DEF CallPop, Fifo!CallPop, Fifo!Call
  <2> QED BY <1>5, <2>1 DEF Fifo!FifoNext
<1>6. CASE t \in Consumers /\ Front(t)
  <2>1. Fifo!Pop(t)
    BY <1>6, PopSeen DEF Fifo!Pop, Fifo!Answer
  <2> QED BY <1>6, <2>1 DEF Fifo!FifoNext
<1>7. CASE t \in Consumers /\ ReturnFalse(t)
  <2>1. Fifo!PopFails(t)
    BY <1>7, PopFailsSeen DEF Fifo!PopFails, Fifo!Answer, Fifo!Drained
  <2> QED BY <1>7, <2>1 DEF Fifo!FifoNext
<1>8. CASE \/ Lock(t)
           \/ t \in Producers /\ (NotifyOne(t) \/ NotifyAll(t))
           \/ t \in Consumers /\ (Wait(t) \/ WakeSpuriously(t) \/ PopFront(t))
  BY <1>8, InnerSteps DEF Fifo!fifoVars
<1> QED
  BY Zenon, <1>1, <1>2, <1>3, <1>4, <1>5, <1>6, <1>7, <1>8 DEF Step

\* The queue of the code, with its mutex, condition variable and notifications,
\* implements the blocking FIFO in which every operation is atomic.
THEOREM QueueIsFifo == Spec => ImplementsBlockingFifo
<1>1. Init => Fifo!FifoInit
  BY DEF Init, Fifo!FifoInit, Fifo!OpenQueue, TakenFrom, Request, Threads
<1>2. IInv /\ [Next]_vars => [Fifo!FifoNext]_(Fifo!fifoVars)
  <2> SUFFICES ASSUME IInv, [Next]_vars PROVE [Fifo!FifoNext]_(Fifo!fifoVars)
    OBVIOUS
  <2>1. CASE UNCHANGED vars
    BY <2>1 DEF vars, Fifo!fifoVars, TakenFrom, Request
  <2>2. CASE Next
    <3>1. PICK t \in Threads : Step(t)
      BY <2>2, NextIsStep
    <3> QED BY <3>1, StepSeen
  <2> QED BY <2>1, <2>2
<1> QED BY <1>1, <1>2, QueueInvariance, PTL DEF Spec, ImplementsBlockingFifo, Fifo!FifoSpec

====
