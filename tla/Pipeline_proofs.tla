---- MODULE Pipeline_proofs ----
(***************************************************************************)
(* Proofs about Pipeline: the order in which threads end and queues are    *)
(* shut down, and that the three threads do the work of one, line by line, *)
(* for any datagrams, symbols, users, ids and any bound.                   *)
(***************************************************************************)
EXTENDS Pipeline, EngineRules_proofs

IsQueue(q) == q = [items |-> q.items, shutdown |-> q.shutdown] /\ q.shutdown \in BOOLEAN
Queues == IsQueue(inputQueue) /\ IsQueue(outputQueue)

\* A queue is shut down exactly when the thread that feeds it has ended.
ClosedByFeeder ==
    /\ inputQueue.shutdown <=> input = "ended"
    /\ outputQueue.shutdown <=> processing = "ended"

\* What a thread leaves behind when it is not inside an item, and when it ends.
NothingInHand ==
    /\ processing \in {"new", "pop", "ended"} => outputs = <<>>
    /\ output \in {"new", "pop", "ended"} => popped = <<>>
    /\ processing = "ended" => Drained(inputQueue)
    /\ output = "ended" => Drained(outputQueue)

\* Threads main has not started are new; those it has joined have ended.
MainKnows ==
    /\ main < 1 => input = "new"
    /\ main < 2 => processing = "new"
    /\ main < 3 => output = "new"
    /\ main \in 4..6 => input = "ended"
    /\ main \in 5..6 => processing = "ended"
    /\ main = 6 => output = "ended"

IInv == TypeOK /\ Queues /\ ClosedByFeeder /\ NothingInHand /\ MainKnows

----------------------------------------------------------------------------
(* Queues. *)

LEMMA QueueWithItems ==
    ASSUME NEW q, q = [items |-> q.items, shutdown |-> q.shutdown]
    PROVE  \A i : [q EXCEPT !.items = i] = [items |-> i, shutdown |-> q.shutdown]
<1>1. \A k, s, i : [[items |-> k, shutdown |-> s] EXCEPT !.items = i] = [items |-> i, shutdown |-> s]
  OBVIOUS
<1> QED BY <1>1

LEMMA QueueWithEnd ==
    ASSUME NEW q, q = [items |-> q.items, shutdown |-> q.shutdown]
    PROVE  \A e : [q EXCEPT !.shutdown = e] = [items |-> q.items, shutdown |-> e]
<1>1. \A k, s, e : [[items |-> k, shutdown |-> s] EXCEPT !.shutdown = e] = [items |-> k, shutdown |-> e]
  OBVIOUS
<1> QED BY <1>1

LEMMA QueuePushed ==
    ASSUME NEW q, IsQueue(q), NEW v
    PROVE  IsQueue(Pushed(q, v)) /\ Pushed(q, v).shutdown = q.shutdown
<1>1. Pushed(q, v) = [items |-> Append(q.items, v), shutdown |-> q.shutdown]
  BY DEF IsQueue, Pushed
<1> QED BY <1>1 DEF IsQueue

LEMMA QueuePopped ==
    ASSUME NEW q, IsQueue(q)
    PROVE  IsQueue(Popped(q)) /\ Popped(q).shutdown = q.shutdown
<1>1. \A i : [q EXCEPT !.items = i] = [items |-> i, shutdown |-> q.shutdown]
  BY QueueWithItems DEF IsQueue
<1>2. Popped(q) = [items |-> Tail(q.items), shutdown |-> q.shutdown]
  BY <1>1 DEF Popped
<1> QED BY <1>2 DEF IsQueue

LEMMA QueueClosed ==
    ASSUME NEW q, IsQueue(q)
    PROVE  IsQueue(Closed(q)) /\ Closed(q).shutdown /\ Closed(q).items = q.items
<1>1. Closed(q) = [items |-> q.items, shutdown |-> TRUE]
  BY Zenon, QueueWithEnd DEF IsQueue, Closed
<1>2. Closed(q).items = q.items /\ Closed(q).shutdown = TRUE
  BY <1>1
<1> QED BY <1>1, <1>2 DEF IsQueue

LEMMA QueueOpen == IsQueue(OpenQueue) /\ ~OpenQueue.shutdown /\ OpenQueue.items = <<>>
BY DEF IsQueue, OpenQueue

----------------------------------------------------------------------------
(* The steps, thread by thread. *)

\* main starts and joins threads; the handler sets the flag.
LEMMA MainSteps ==
    ASSUME IInv, StartThread \/ JoinThread \/ Sigterm
    PROVE  IInv'
<1> USE DEF IInv, TypeOK, Queues, ClosedByFeeder, NothingInHand, MainKnows, Drained
<1>1. CASE StartThread
  BY <1>1 DEF StartThread, Terminated
<1>2. CASE JoinThread
  BY <1>2 DEF JoinThread, Terminated
<1>3. CASE Sigterm
  BY <1>3 DEF Sigterm, threadVars
<1> QED BY <1>1, <1>2, <1>3

\* The input thread closes its queue exactly when it ends.
LEMMA InputSteps ==
    ASSUME IInv, SocketFails \/ SocketOpens \/ BindSucceeds \/ BindFails \/ GiveUp \/ EnterReceive \/ LeaveLoop \/ (\E d \in Datagrams : Receive(d)) \/ ReceiveNothing \/ SkipLine \/ QueueCommand \/ ParserThrows \/ LinesDone
    PROVE  IInv'
<1> USE DEF IInv, TypeOK, Queues, ClosedByFeeder, NothingInHand, MainKnows, Drained
<1>1. CASE SocketFails
  BY <1>1, QueueClosed DEF SocketFails, EndInput, InputUnchanged
<1>2. CASE SocketOpens
  BY <1>2 DEF SocketOpens, InputUnchanged
<1>3. CASE BindSucceeds
  BY <1>3 DEF BindSucceeds, InputUnchanged, BindAttempts
<1>4. CASE BindFails
  BY <1>4 DEF BindFails, InputUnchanged, BindAttempts
<1>5. CASE GiveUp
  BY <1>5, QueueClosed DEF GiveUp, EndInput, InputUnchanged
<1>6. CASE EnterReceive
  BY <1>6 DEF EnterReceive, InputUnchanged
<1>7. CASE LeaveLoop
  BY <1>7, QueueClosed DEF LeaveLoop, EndInput, InputUnchanged
<1>8. CASE (\E d \in Datagrams : Receive(d))
  BY <1>8 DEF Receive, InputUnchanged
<1>9. CASE ReceiveNothing
  BY <1>9 DEF ReceiveNothing, InputUnchanged
<1>10. CASE SkipLine
  BY <1>10 DEF SkipLine, InputUnchanged
<1>11. CASE QueueCommand
  BY <1>11, QueuePushed DEF QueueCommand, InputUnchanged
<1>12. CASE ParserThrows
  BY <1>12 DEF ParserThrows, Terminated
<1>13. CASE LinesDone
  BY <1>13 DEF LinesDone, InputUnchanged
<1> QED BY <1>1, <1>2, <1>3, <1>4, <1>5, <1>6, <1>7, <1>8, <1>9, <1>10, <1>11, <1>12, <1>13

\* The processing thread ends with nothing in its queue or in its hands.
LEMMA ProcessingSteps ==
    ASSUME IInv, ProcessCommand \/ PushLine \/ CommandDone \/ EndProcessing
    PROVE  IInv'
<1> USE DEF IInv, TypeOK, Queues, ClosedByFeeder, NothingInHand, MainKnows, Drained
<1>1. CASE ProcessCommand
  BY <1>1, QueuePopped DEF ProcessCommand, ProcessingUnchanged, inputVars
<1>2. CASE PushLine
  BY <1>2, QueuePushed DEF PushLine, ProcessingUnchanged, inputVars
<1>3. CASE CommandDone
  BY <1>3 DEF CommandDone, ProcessingUnchanged, inputVars
<1>4. CASE EndProcessing
  BY <1>4, QueueClosed DEF EndProcessing, ProcessingUnchanged, inputVars
<1> QED BY <1>1, <1>2, <1>3, <1>4

\* So does the output thread.
LEMMA OutputSteps ==
    ASSUME IInv, TakeLine \/ PrintLine \/ EndOutput
    PROVE  IInv'
<1> USE DEF IInv, TypeOK, Queues, ClosedByFeeder, NothingInHand, MainKnows, Drained
<1>1. CASE TakeLine
  BY <1>1, QueuePopped DEF TakeLine, OutputUnchanged, inputVars
<1>2. CASE PrintLine
  BY <1>2 DEF PrintLine, OutputUnchanged, inputVars
<1>3. CASE EndOutput
  BY <1>3 DEF EndOutput, OutputUnchanged, inputVars
<1> QED BY <1>1, <1>2, <1>3

LEMMA InitInv == Init => IInv
<1> SUFFICES ASSUME Init PROVE IInv
  OBVIOUS
<1>1. ~inputQueue.shutdown /\ ~outputQueue.shutdown /\ Queues
  BY QueueOpen DEF Init, Queues
<1>2. inputQueue.shutdown \in BOOLEAN /\ outputQueue.shutdown \in BOOLEAN
  BY <1>1 DEF Queues, IsQueue
<1>3. TypeOK
  <2>1. /\ input = "new" /\ processing = "new" /\ output = "new"
        /\ main \in 0..Terminated /\ attempts \in 0..BindAttempts
    BY DEF Init, Terminated, BindAttempts
  <2>2. shutdownRequested \in BOOLEAN
    BY DEF Init
  <2>3. popped = <<>> /\ Len(popped) <= 1
    BY DEF Init
  <2> QED BY <1>2, <2>1, <2>2, <2>3 DEF TypeOK
<1>4. ClosedByFeeder
  BY <1>1 DEF Init, ClosedByFeeder
<1>5. NothingInHand /\ MainKnows
  BY DEF Init, NothingInHand, MainKnows
<1> QED BY <1>1, <1>3, <1>4, <1>5 DEF IInv

LEMMA NextInv == IInv /\ [Next]_vars => IInv'
<1> SUFFICES ASSUME IInv, [Next]_vars PROVE IInv'
  OBVIOUS
<1>1. CASE UNCHANGED vars
  BY <1>1 DEF vars, threadVars, IInv, TypeOK, Queues, ClosedByFeeder, NothingInHand,
              MainKnows, Drained
<1>2. CASE MainStep \/ Sigterm
  BY <1>2, MainSteps DEF MainStep
<1>3. CASE InputStep \/ RecvfromReturns
  BY <1>3, InputSteps DEF InputStep, RecvfromReturns
<1>4. CASE ProcessingStep
  BY <1>4, ProcessingSteps DEF ProcessingStep
<1>5. CASE OutputStep
  BY <1>5, OutputSteps DEF OutputStep
<1> QED BY <1>1, <1>2, <1>3, <1>4, <1>5 DEF Next

\* What main, the three threads and the two queues know of each other's ends.
THEOREM PipelineInvariance == Spec => []IInv
<1> QED BY InitInv, NextInv, PTL DEF Spec

\* Every thread stays in its states, bind is tried at most five times, and the
\* output thread holds at most one line.
THEOREM PipelineTypeCorrect == Spec => []TypeOK
<1>1. IInv => TypeOK
  BY DEF IInv
<1> QED BY <1>1, PipelineInvariance, PTL

\* When main has joined all threads both queues are drained and no line is left
\* in a thread's hands: every command queued was executed, every line printed.
THEOREM ExitLeavesNothing == Spec => []NothingLeftAtExit
<1>1. IInv => NothingLeftAtExit
  BY DEF IInv, NothingInHand, MainKnows, NothingLeftAtExit
<1> QED BY <1>1, PipelineInvariance, PTL

\* Neither queue is pushed to after its shutdown.
THEOREM ShutdownIsLast == Spec => NoPushAfterShutdown
<1> DEFINE Kept == OnlyTaken(inputQueue, inputQueue') /\ OnlyTaken(outputQueue, outputQueue')
<1>1. IInv /\ [Next]_vars => [Kept]_vars
  <2> SUFFICES ASSUME IInv, Next PROVE Kept
    OBVIOUS
  <2> USE DEF IInv, ClosedByFeeder, OnlyTaken
  <2>1. CASE MainStep \/ Sigterm
    BY <2>1 DEF MainStep, StartThread, JoinThread, Sigterm
  <2>2. CASE InputStep \/ RecvfromReturns
    BY <2>2 DEF InputStep, RecvfromReturns, InputUnchanged, EndInput, SocketFails, SocketOpens,
                BindSucceeds, BindFails, GiveUp, EnterReceive, LeaveLoop, Receive,
                ReceiveNothing, SkipLine, QueueCommand, ParserThrows, LinesDone
  <2>3. CASE ProcessingStep
    BY <2>3 DEF ProcessingStep, ProcessCommand, PushLine, CommandDone, EndProcessing
  <2>4. CASE OutputStep
    BY <2>4 DEF OutputStep, TakeLine, PrintLine, EndOutput, OutputUnchanged
  <2> QED BY <2>1, <2>2, <2>3, <2>4 DEF Next
<1> QED BY <1>1, PipelineInvariance, PTL DEF Spec, NoPushAfterShutdown

----------------------------------------------------------------------------
(* What one thread makes of the commands. *)

\* What each of some runs may become by a command.
RunsOn(runs, c) ==
    UNION { { [books |-> r.books, lines |-> run.lines \o r.lines] : r \in Outcomes(run.books, c) } :
              run \in runs }

FirstRun == [books |-> NoBooks, lines |-> <<>>]

\* runs is the function by which SequentialRuns goes through the commands.
GoesThrough(cmds, runs) ==
    runs = [n \in 0..Len(cmds) |-> IF n = 0 THEN {FirstRun} ELSE RunsOn(runs[n - 1], cmds[n])]

LEMMA RunsUnfold ==
    ASSUME NEW cmds
    PROVE  SequentialRuns(cmds) = (CHOOSE runs : GoesThrough(cmds, runs))[Len(cmds)]
BY DEF SequentialRuns, GoesThrough, RunsOn, FirstRun

\* There is such a function: each command adds one value to it.
LEMMA RunsDefined ==
    ASSUME NEW cmds, Len(cmds) \in Nat
    PROVE  \E runs : GoesThrough(cmds, runs)
<1> DEFINE Built(f, n) == f = [i \in 0..n |-> IF i = 0 THEN {FirstRun} ELSE RunsOn(f[i - 1], cmds[i])]
           Bad == { n \in Nat : \A f : ~Built(f, n) }
<1>1. Bad = {}
    <2>1. SUFFICES ASSUME Bad # {} PROVE FALSE
        OBVIOUS
    <2>2. PICK n \in Bad : \A m \in Bad : n <= m
        BY <2>1, LeastNat
    <2>3. CASE n = 0
        <3> DEFINE f == [i \in 0..0 |-> {FirstRun}]
        <3>1. Built(f, 0)
            OBVIOUS
        <3> QED BY <2>2, <2>3, <3>1
    <2>4. CASE n # 0
        <3>1. n - 1 \in Nat /\ n \in Nat
            BY <2>2, <2>4
        <3>2. PICK f : Built(f, n - 1)
            <4> HIDE DEF Built
            <4>1. n - 1 \notin Bad
                BY <2>2, <3>1
            <4> QED BY <4>1, <3>1
        <3> DEFINE g == [i \in 0..n |-> IF i = 0 THEN {FirstRun} ELSE RunsOn(f[i - 1], cmds[i])]
        <3>3. ASSUME NEW i \in 0..n, i # 0 PROVE g[i - 1] = f[i - 1]
            <4>1. i - 1 \in 0..(n - 1) /\ i - 1 \in 0..n
                BY <3>1, <3>3
            <4>2. g[i - 1] = IF i - 1 = 0 THEN {FirstRun} ELSE RunsOn(f[(i - 1) - 1], cmds[i - 1])
                BY <4>1
            <4>3. f[i - 1] = IF i - 1 = 0 THEN {FirstRun} ELSE RunsOn(f[(i - 1) - 1], cmds[i - 1])
                BY <3>2, <4>1
            <4> QED BY <4>2, <4>3
        <3>4. Built(g, n)
            BY <3>3
        <3> QED BY <2>2, <3>4
    <2> QED BY <2>3, <2>4
<1>2. PICK f : Built(f, Len(cmds))
    <2> HIDE DEF Built
    <2>1. Len(cmds) \notin Bad
        BY <1>1
    <2> QED BY <2>1
<1> QED BY <1>2 DEF GoesThrough

\* The functions of two sequences of commands agree as far as these do.
LEMMA RunsAgree ==
    ASSUME NEW cmds, NEW f, GoesThrough(cmds, f), Len(cmds) \in Nat,
           NEW others, NEW g, GoesThrough(others, g), Len(others) \in Nat,
           NEW n \in 0..Len(cmds), n <= Len(others),
           \A i \in 1..n : cmds[i] = others[i]
    PROVE  f[n] = g[n]
<1> DEFINE Bad == { i \in Nat : i \in 0..n /\ f[i] # g[i] }
<1>1. Bad = {}
    <2>1. SUFFICES ASSUME Bad # {} PROVE FALSE
        OBVIOUS
    <2>2. PICK i \in Bad : \A m \in Bad : i <= m
        BY <2>1, LeastNat
    <2>3. i \in 0..n /\ i \in 0..Len(cmds) /\ i \in 0..Len(others) /\ f[i] # g[i]
        BY <2>2
    <2>4. /\ f[i] = IF i = 0 THEN {FirstRun} ELSE RunsOn(f[i - 1], cmds[i])
          /\ g[i] = IF i = 0 THEN {FirstRun} ELSE RunsOn(g[i - 1], others[i])
        BY <2>3 DEF GoesThrough
    <2>5. i # 0 => f[i - 1] = g[i - 1]
        BY <2>2, <2>3
    <2> QED BY <2>3, <2>4, <2>5
<1> QED BY <1>1

LEMMA RunsOfNothing == SequentialRuns(<<>>) = {FirstRun}
<1> DEFINE h == CHOOSE runs : GoesThrough(<<>>, runs)
<1>1. Len(<<>>) = 0
    OBVIOUS
<1>2. PICK f : GoesThrough(<<>>, f)
    BY <1>1, RunsDefined
<1>3. GoesThrough(<<>>, h)
    BY <1>2
<1>4. SequentialRuns(<<>>) = h[0]
    BY <1>1, RunsUnfold
<1> HIDE DEF h
<1> QED BY <1>1, <1>3, <1>4 DEF GoesThrough

\* One command more.
LEMMA RunsOfMore ==
    ASSUME NEW S, NEW cmds \in Seq(S), NEW c \in S
    PROVE  SequentialRuns(Append(cmds, c)) = RunsOn(SequentialRuns(cmds), c)
<1> DEFINE all == Append(cmds, c)
           n == Len(cmds)
           h == CHOOSE runs : GoesThrough(all, runs)
           k == CHOOSE runs : GoesThrough(cmds, runs)
<1>1. /\ n \in Nat /\ Len(all) = n + 1 /\ all[n + 1] = c
      /\ \A i \in 1..n : all[i] = cmds[i]
    BY LenProperties, AppendProperties
<1> HIDE DEF all
<1>2. PICK f : GoesThrough(all, f)
    BY <1>1, RunsDefined
<1>3. PICK g : GoesThrough(cmds, g)
    BY <1>1, RunsDefined
<1>4. GoesThrough(all, h) /\ GoesThrough(cmds, k)
    BY <1>2, <1>3
<1>5. SequentialRuns(all) = h[n + 1] /\ SequentialRuns(cmds) = k[n]
    BY <1>1, RunsUnfold
<1> HIDE DEF h, k
<1>6. h[n + 1] = RunsOn(h[n], c)
    <2>1. n + 1 \in 0..Len(all) /\ n + 1 # 0 /\ (n + 1) - 1 = n
        BY <1>1
    <2>2. h[n + 1] = IF n + 1 = 0 THEN {FirstRun} ELSE RunsOn(h[(n + 1) - 1], all[n + 1])
        BY <1>4, <2>1 DEF GoesThrough
    <2> QED BY <1>1, <2>1, <2>2
<1>7. k[n] = h[n]
    <2>1. n \in 0..Len(cmds) /\ n <= Len(all) /\ Len(all) \in Nat /\ Len(cmds) \in Nat
        BY <1>1
    <2>2. \A i \in 1..n : cmds[i] = all[i]
        BY <1>1
    <2> QED BY <1>4, <2>1, <2>2, RunsAgree
<1> QED BY <1>5, <1>6, <1>7 DEF all

----------------------------------------------------------------------------
(* The threads together. *)

\* The rest of a datagram holds lines the parser knows.
Covered(buffer) ==
    /\ buffer \in Seq(Range(buffer))
    /\ \A line \in Range(buffer) : ParseLine(line) \in Commands \cup {Invalid, Throws}

Typed ==
    /\ Covered(datagram) /\ SoundEngine(books)
    /\ accepted \in Seq(Commands) /\ inputQueue.items \in Seq(Commands)
    /\ outputs \in Seq(Line) /\ outputQueue.items \in Seq(Line)
    /\ popped \in Seq(Line) /\ stdout \in Seq(Line)

\* The commands that left the input queue, and the one run they made.
RunOf(done) ==
    /\ done \in Seq(Commands) /\ accepted = done \o inputQueue.items
    /\ [books |-> books, lines |-> AllLines] \in SequentialRuns(done)

SeqInv == Typed /\ \E done : RunOf(done)

Associates(s, t, u) == (s \o t) \o u = s \o (t \o u)

LEMMA ConcatAssociates ==
    ASSUME NEW S, NEW s \in Seq(S), NEW t \in Seq(S), NEW u \in Seq(S)
    PROVE  Associates(s, t, u)
BY ConcatAssociative DEF Associates

LEMMA RunGoesOn ==
    ASSUME NEW runs, NEW c, NEW run \in runs, NEW r \in Outcomes(run.books, c)
    PROVE  [books |-> r.books, lines |-> run.lines \o r.lines] \in RunsOn(runs, c)
<1> DEFINE next == { [books |-> q.books, lines |-> run.lines \o q.lines] : q \in Outcomes(run.books, c) }
<1>1. [books |-> r.books, lines |-> run.lines \o r.lines] \in next
    OBVIOUS
<1>2. next \in { { [books |-> q.books, lines |-> t.lines \o q.lines] : q \in Outcomes(t.books, c) } : t \in runs }
    OBVIOUS
<1> HIDE DEF next
<1> QED BY <1>1, <1>2 DEF RunsOn

LEMMA HeadAndTail ==
    ASSUME NEW S, NEW s \in Seq(S), s # <<>>
    PROVE  /\ Head(s) \in S /\ Tail(s) \in Seq(S)
           /\ << Head(s) >> \o Tail(s) = s
<1>1. Head(s) \in S /\ Tail(s) \in Seq(S)
    BY HeadTailProperties
<1>2. << Head(s) >> \o Tail(s) = s
    OBVIOUS
<1> QED BY <1>1, <1>2

LEMMA CoveredTail ==
    ASSUME NEW buffer, Covered(buffer), buffer # <<>>
    PROVE  Covered(Tail(buffer)) /\ ParseLine(Head(buffer)) \in Commands \cup {Invalid, Throws}
<1>1. Head(buffer) \in Range(buffer) /\ Tail(buffer) \in Seq(Range(buffer))
    BY HeadTailProperties DEF Covered
<1>2. Range(Tail(buffer)) \subseteq Range(buffer)
    BY <1>1, RangeOfSeq
<1>3. Tail(buffer) \in Seq(Range(Tail(buffer)))
    BY <1>1, SeqOfRange
<1> QED BY <1>1, <1>2, <1>3 DEF Covered

\* What is done is what SequentialBehaviour calls Consumed.
LEMMA DoneIsConsumed ==
    ASSUME Typed, NEW done, RunOf(done)
    PROVE  Consumed = done
<1> DEFINE items == inputQueue.items
           n == Len(done)
<1>1. done \in Seq(Commands) /\ items \in Seq(Commands) /\ accepted = done \o items
    BY DEF RunOf, Typed
<1>2. n \in Nat /\ Len(items) \in Nat /\ Len(accepted) = n + Len(items)
    BY <1>1, LenProperties, ConcatProperties
<1>3. Consumed = SubSeq(done \o items, 1, n)
    <2>1. Len(accepted) - Len(items) = n
        BY <1>2
    <2> QED BY <1>1, <2>1 DEF Consumed
<1>4. CASE n = 0
    <2>1. done = <<>>
        BY <1>1, <1>4, EmptySeq
    <2>2. SubSeq(done \o items, 1, n) = <<>>
        BY <1>4, SubSeqEmpty
    <2> QED BY <1>3, <2>1, <2>2
<1>5. CASE n # 0
    <2>1. 1 \in 1..Len(done) /\ n \in 1..Len(done)
        BY <1>2, <1>5
    <2>2. SubSeq(done \o items, 1, n) = SubSeq(done, 1, n)
        BY <1>1, <2>1, SubSeqOfConcat1
    <2>3. SubSeq(done, 1, n) = done
        BY <1>1, SubSeqFull
    <2> QED BY <1>3, <2>2, <2>3
<1> QED BY <1>4, <1>5

\* A step that moves no command and no line.
LEMMA RunStays ==
    ASSUME SeqInv, UNCHANGED <<books, outputs, popped, stdout, accepted>>,
           inputQueue'.items = inputQueue.items, outputQueue'.items = outputQueue.items,
           Covered(datagram')
    PROVE  SeqInv'
<1>1. Typed'
    BY DEF SeqInv, Typed
<1>2. AllLines' = AllLines
    BY DEF AllLines
<1>3. PICK done : RunOf(done)
    BY DEF SeqInv
<1>4. RunOf(done)'
    BY <1>2, <1>3 DEF RunOf
<1> QED BY <1>1, <1>4 DEF SeqInv

\* A datagram is received as far as the buffer holds it.
LEMMA ReceivedCovered ==
    ASSUME NEW d \in Datagrams, datagram' \in InBuffer(d)
    PROVE  Covered(datagram')
BY DatagramsAreCovered DEF Covered, Commands

LEMMA InputKeepsRun ==
    ASSUME IInv, SeqInv, InputStep \/ RecvfromReturns
    PROVE  SeqInv'
<1>1. Covered(datagram) /\ IsQueue(inputQueue)
    BY DEF SeqInv, Typed, IInv, Queues
<1> USE DEF InputUnchanged
<1>2. CASE SocketFails \/ GiveUp \/ LeaveLoop
    <2>1. UNCHANGED <<books, outputs, popped, stdout, accepted, outputQueue, datagram>>
          /\ inputQueue' = Closed(inputQueue)
        BY <1>2 DEF SocketFails, GiveUp, LeaveLoop, EndInput
    <2>2. inputQueue'.items = inputQueue.items
        BY <1>1, <2>1, QueueClosed
    <2> QED BY <1>1, <2>1, <2>2, RunStays
<1>3. CASE SocketOpens \/ BindSucceeds \/ BindFails \/ EnterReceive \/ LinesDone \/ ReceiveNothing \/ ParserThrows
    <2>1. UNCHANGED <<books, outputs, popped, stdout, accepted, outputQueue, datagram, inputQueue>>
        BY <1>3 DEF SocketOpens, BindSucceeds, BindFails, EnterReceive, LinesDone, ReceiveNothing, ParserThrows
    <2> QED BY <1>1, <2>1, RunStays
<1>4. CASE SkipLine
    <2>1. UNCHANGED <<books, outputs, popped, stdout, accepted, outputQueue, inputQueue>>
          /\ datagram' = Tail(datagram) /\ datagram # <<>>
        BY <1>4 DEF SkipLine
    <2> QED BY <1>1, <2>1, CoveredTail, RunStays
<1>5. CASE QueueCommand
    <2> DEFINE items == inputQueue.items
               c == NextLine
    <2>1. /\ UNCHANGED <<books, outputs, popped, stdout, outputQueue>>
          /\ datagram' = Tail(datagram) /\ datagram # <<>>
          /\ inputQueue' = Pushed(inputQueue, c) /\ accepted' = Append(accepted, c)
          /\ c \notin {Invalid, Throws}
        BY <1>5 DEF QueueCommand
    <2>2. Covered(datagram') /\ c \in Commands
        BY <1>1, <2>1, CoveredTail DEF NextLine
    <2>3. inputQueue'.items = Append(items, c)
        BY <1>1, <2>1, QueueWithItems DEF Pushed, IsQueue
    <2>4. items \in Seq(Commands) /\ accepted \in Seq(Commands)
        BY DEF SeqInv, Typed
    <2>5. Typed'
        <3>1. Append(items, c) \in Seq(Commands) /\ Append(accepted, c) \in Seq(Commands)
            BY <2>2, <2>4, AppendProperties
        <3> HIDE DEF c, items
        <3> QED BY <2>1, <2>2, <2>3, <3>1 DEF SeqInv, Typed
    <2>6. PICK done : RunOf(done)
        BY DEF SeqInv
    <2>7. RunOf(done)'
        <3>1. done \in Seq(Commands) /\ accepted = done \o items
            BY <2>6 DEF RunOf
        <3>2. Append(done \o items, c) = done \o Append(items, c)
            <4>1. << c >> \in Seq(Commands) /\ done \o items \in Seq(Commands)
                BY <2>2, <2>4, <3>1, ConcatProperties
            <4>2. Append(done \o items, c) = (done \o items) \o << c >>
                BY <2>2, <4>1, AppendIsConcat
            <4>3. Append(items, c) = items \o << c >>
                BY <2>2, <2>4, AppendIsConcat
            <4>4. (done \o items) \o << c >> = done \o (items \o << c >>)
                <5>0. Associates(done, items, << c >>)
                    BY <2>4, <3>1, <4>1, ConcatAssociates
                <5> QED BY <5>0 DEF Associates
            <4> QED BY <4>2, <4>3, <4>4
        <3>3. accepted' = done \o inputQueue'.items
            BY <2>1, <2>3, <3>1, <3>2
        <3>4. AllLines' = AllLines
            BY <2>1 DEF AllLines
        <3> QED BY <2>1, <2>6, <3>1, <3>3, <3>4 DEF RunOf
    <2> QED BY <2>5, <2>7 DEF SeqInv
<1>6. CASE \E d \in Datagrams : Receive(d)
    <2>1. PICK d \in Datagrams : Receive(d)
        BY <1>6
    <2>2. UNCHANGED <<books, outputs, popped, stdout, accepted, outputQueue, inputQueue>>
          /\ datagram' \in InBuffer(d)
        BY <2>1 DEF Receive
    <2>3. Covered(datagram')
        BY <2>2, ReceivedCovered
    <2> QED BY <2>2, <2>3, RunStays
<1> QED BY <1>2, <1>3, <1>4, <1>5, <1>6 DEF InputStep, RecvfromReturns

\* The lines on their way, when the processing thread has none in its hands.
LEMMA LinesBetweenCommands ==
    ASSUME Typed, outputs = <<>>
    PROVE  \A lines \in Seq(Line) :
              stdout \o popped \o outputQueue.items \o lines = AllLines \o lines
<1>1. /\ stdout \in Seq(Line) /\ popped \in Seq(Line) /\ outputQueue.items \in Seq(Line)
    BY DEF Typed
<1>2. stdout \o popped \o outputQueue.items \in Seq(Line)
    BY <1>1, ConcatProperties
<1>3. AllLines = stdout \o popped \o outputQueue.items
    BY <1>2, ConcatEmptySeq DEF AllLines
<1> QED BY <1>3

LEMMA ProcessingKeepsRun ==
    ASSUME IInv, SeqInv, ProcessingStep
    PROVE  SeqInv'
<1>1. Covered(datagram) /\ IsQueue(inputQueue) /\ IsQueue(outputQueue) /\ Typed
    BY DEF SeqInv, Typed, IInv, Queues
<1> USE DEF ProcessingUnchanged, inputVars
<1>2. CASE ProcessCommand
    <2> DEFINE items == inputQueue.items
               c == Head(items)
    <2>1. /\ UNCHANGED <<popped, stdout, outputQueue, datagram, accepted>>
          /\ items # <<>> /\ inputQueue' = Popped(inputQueue) /\ outputs = <<>>
        BY <1>2 DEF ProcessCommand, IInv, NothingInHand
    <2>2. PICK r \in Outcomes(books, c) : books' = r.books /\ outputs' = r.lines
        BY <1>2 DEF ProcessCommand
    <2>3. items \in Seq(Commands)
        BY <1>1 DEF Typed
    <2>4. c \in Commands /\ Tail(items) \in Seq(Commands) /\ << c >> \o Tail(items) = items
        BY <2>1, <2>3, HeadAndTail
    <2>5. inputQueue'.items = Tail(items)
        BY <1>1, <2>1, QueueWithItems DEF Popped, IsQueue
    <2> HIDE DEF c
    <2>6. SoundOutcome(r)
        BY <1>1, <2>2, <2>4, OutcomesSound DEF Typed
    <2>7. Typed'
        BY <1>1, <2>1, <2>2, <2>4, <2>5, <2>6 DEF Typed, SoundOutcome
    <2>8. PICK done : RunOf(done)
        BY DEF SeqInv
    <2> PICK more : more = Append(done, c)
        OBVIOUS
    <2>9. done \in Seq(Commands) /\ accepted = done \o items
        BY <2>8 DEF RunOf
    <2>10. more \in Seq(Commands) /\ more \o Tail(items) = done \o items
        <3>1. more \in Seq(Commands) /\ more = done \o << c >> /\ << c >> \in Seq(Commands)
            BY <2>4, <2>9, AppendProperties, AppendIsConcat
        <3>2. (done \o << c >>) \o Tail(items) = done \o (<< c >> \o Tail(items))
            <4>0. Associates(done, << c >>, Tail(items))
                BY <2>4, <2>9, <3>1, ConcatAssociates
            <4> QED BY <4>0 DEF Associates
        <3> QED BY <2>4, <3>1, <3>2
    <2>11. AllLines' = AllLines \o r.lines
        <3>1. AllLines' = stdout \o popped \o outputQueue.items \o r.lines
            BY <2>1, <2>2 DEF AllLines
        <3> QED BY <1>1, <2>1, <2>6, <3>1, LinesBetweenCommands DEF SoundOutcome
    <2>12. [books |-> books', lines |-> AllLines'] \in SequentialRuns(more)
        <3> DEFINE run == [books |-> books, lines |-> AllLines]
        <3>1. run \in SequentialRuns(done) /\ run.books = books /\ run.lines = AllLines
            BY <2>8 DEF RunOf
        <3>2. SequentialRuns(more) = RunsOn(SequentialRuns(done), c)
            BY <2>4, <2>9, RunsOfMore
        <3> HIDE DEF run
        <3>3. [books |-> r.books, lines |-> run.lines \o r.lines] \in RunsOn(SequentialRuns(done), c)
            BY <2>2, <3>1, RunGoesOn
        <3> QED BY <2>2, <2>11, <3>1, <3>2, <3>3
    <2>13. RunOf(more)'
        <3>1. accepted' = more \o inputQueue'.items
            BY <2>1, <2>5, <2>9, <2>10
        <3> QED BY <2>10, <2>12, <3>1 DEF RunOf
    <2> QED BY <2>7, <2>13 DEF SeqInv
<1>3. CASE PushLine
    <2> DEFINE items == outputQueue.items
               line == Head(outputs)
    <2>1. /\ UNCHANGED <<popped, stdout, inputQueue, datagram, accepted, books>>
          /\ outputs # <<>> /\ outputQueue' = Pushed(outputQueue, line) /\ outputs' = Tail(outputs)
        BY <1>3 DEF PushLine
    <2>2. items \in Seq(Line) /\ outputs \in Seq(Line) /\ stdout \in Seq(Line) /\ popped \in Seq(Line)
        BY <1>1 DEF Typed
    <2>3. line \in Line /\ Tail(outputs) \in Seq(Line) /\ << line >> \o Tail(outputs) = outputs
        BY <2>1, <2>2, HeadAndTail
    <2>4. outputQueue'.items = Append(items, line)
        BY <1>1, <2>1, QueueWithItems DEF Pushed, IsQueue
    <2> HIDE DEF line
    <2>5. Typed'
        <3>1. Append(items, line) \in Seq(Line)
            BY <2>2, <2>3, AppendProperties
        <3> QED BY <1>1, <2>1, <2>3, <2>4, <3>1 DEF Typed
    <2>6. AllLines' = AllLines
        <3> DEFINE front == stdout \o popped
        <3>1. front \in Seq(Line) /\ front \o items \in Seq(Line) /\ << line >> \in Seq(Line)
            BY <2>2, <2>3, ConcatProperties
        <3>2. Append(items, line) = items \o << line >>
            BY <2>2, <2>3, AppendIsConcat
        <3>3. front \o (items \o << line >>) = (front \o items) \o << line >>
            <4>0. Associates(front, items, << line >>)
                BY <2>2, <3>1, ConcatAssociates
            <4> QED BY <4>0 DEF Associates
        <3>4. ((front \o items) \o << line >>) \o Tail(outputs)
                = (front \o items) \o (<< line >> \o Tail(outputs))
            <4>0. Associates(front \o items, << line >>, Tail(outputs))
                BY <2>3, <3>1, ConcatAssociates
            <4> QED BY <4>0 DEF Associates
        <3>5. AllLines' = front \o Append(items, line) \o Tail(outputs)
            BY <2>1, <2>4 DEF AllLines
        <3>6. AllLines = front \o items \o outputs
            BY DEF AllLines
        <3> QED BY <2>3, <3>2, <3>3, <3>4, <3>5, <3>6
    <2>7. PICK done : RunOf(done)
        BY DEF SeqInv
    <2>8. RunOf(done)'
        BY <2>1, <2>6, <2>7 DEF RunOf
    <2> QED BY <2>5, <2>8 DEF SeqInv
<1>4. CASE CommandDone
    <2>1. UNCHANGED <<books, outputs, popped, stdout, accepted, outputQueue, datagram, inputQueue>>
        BY <1>4 DEF CommandDone
    <2> QED BY <1>1, <2>1, RunStays
<1>5. CASE EndProcessing
    <2>1. UNCHANGED <<books, outputs, popped, stdout, accepted, inputQueue, datagram>>
          /\ outputQueue' = Closed(outputQueue)
        BY <1>5 DEF EndProcessing
    <2>2. outputQueue'.items = outputQueue.items
        BY <1>1, <2>1, QueueClosed
    <2> QED BY <1>1, <2>1, <2>2, RunStays
<1> QED BY <1>2, <1>3, <1>4, <1>5 DEF ProcessingStep

LEMMA OutputKeepsRun ==
    ASSUME IInv, SeqInv, OutputStep
    PROVE  SeqInv'
<1>1. Covered(datagram) /\ IsQueue(inputQueue) /\ IsQueue(outputQueue) /\ Typed
    BY DEF SeqInv, Typed, IInv, Queues
<1> USE DEF OutputUnchanged, inputVars
<1> DEFINE items == outputQueue.items
           line == Head(items)
<1>2. items \in Seq(Line) /\ stdout \in Seq(Line) /\ popped \in Seq(Line) /\ outputs \in Seq(Line)
    BY <1>1 DEF Typed
<1>3. CASE TakeLine
    <2>1. /\ UNCHANGED <<stdout, inputQueue, datagram, accepted, books, outputs>>
          /\ items # <<>> /\ popped' = << line >> /\ outputQueue' = Popped(outputQueue)
          /\ popped = <<>>
        BY <1>3 DEF TakeLine, IInv, NothingInHand
    <2>2. line \in Line /\ Tail(items) \in Seq(Line) /\ << line >> \o Tail(items) = items
        BY <1>2, <2>1, HeadAndTail
    <2>3. outputQueue'.items = Tail(items)
        BY <1>1, <2>1, QueueWithItems DEF Popped, IsQueue
    <2> HIDE DEF line
    <2>4. << line >> \in Seq(Line)
        BY <2>2
    <2>5. Typed'
        BY <1>1, <2>1, <2>2, <2>3, <2>4 DEF Typed
    <2>6. AllLines' = AllLines
        <3>1. stdout \o popped = stdout
            BY <1>2, <2>1, ConcatEmptySeq
        <3>2. (stdout \o << line >>) \o Tail(items) = stdout \o (<< line >> \o Tail(items))
            <4>0. Associates(stdout, << line >>, Tail(items))
                BY <1>2, <2>2, <2>4, ConcatAssociates
            <4> QED BY <4>0 DEF Associates
        <3>3. AllLines' = ((stdout \o << line >>) \o Tail(items)) \o outputs
            BY <2>1, <2>3 DEF AllLines
        <3>4. AllLines = (stdout \o items) \o outputs
            BY <3>1 DEF AllLines
        <3> QED BY <2>2, <3>2, <3>3, <3>4
    <2>7. PICK done : RunOf(done)
        BY DEF SeqInv
    <2>8. RunOf(done)'
        BY <2>1, <2>6, <2>7 DEF RunOf
    <2> QED BY <2>5, <2>8 DEF SeqInv
<1>4. CASE PrintLine
    <2>1. /\ UNCHANGED <<inputQueue, outputQueue, datagram, accepted, books, outputs>>
          /\ stdout' = stdout \o popped /\ popped' = <<>>
        BY <1>4 DEF PrintLine
    <2>2. stdout \o popped \in Seq(Line) /\ <<>> \in Seq(Line)
        BY <1>2, ConcatProperties, EmptySeq
    <2>3. Typed'
        BY <1>1, <2>1, <2>2 DEF Typed
    <2>4. AllLines' = AllLines
        <3>1. (stdout \o popped) \o <<>> = stdout \o popped
            BY <2>2, ConcatEmptySeq
        <3> QED BY <2>1, <3>1 DEF AllLines
    <2>5. PICK done : RunOf(done)
        BY DEF SeqInv
    <2>6. RunOf(done)'
        BY <2>1, <2>4, <2>5 DEF RunOf
    <2> QED BY <2>3, <2>6 DEF SeqInv
<1>5. CASE EndOutput
    <2>1. UNCHANGED <<books, outputs, popped, stdout, accepted, outputQueue, datagram, inputQueue>>
        BY <1>5 DEF EndOutput
    <2> QED BY <1>1, <2>1, RunStays
<1> QED BY <1>3, <1>4, <1>5 DEF OutputStep

LEMMA InitRun == Init => SeqInv
<1> SUFFICES ASSUME Init PROVE SeqInv
    OBVIOUS
<1>1. inputQueue.items = <<>> /\ outputQueue.items = <<>>
    BY QueueOpen DEF Init
<1>2. <<>> \in Seq(Commands) /\ <<>> \in Seq(Line)
    BY EmptySeq
<1>3. Covered(<<>>)
    <2>1. Range(<<>>) = {} /\ <<>> \in Seq(Range(<<>>))
        BY EmptySeq DEF Range
    <2> QED BY <2>1 DEF Covered
<1>4. Typed
    BY <1>1, <1>2, <1>3, NoBooksSound DEF Init, Typed
<1>5. RunOf(<<>>)
    <2>1. <<>> \o <<>> = <<>> /\ AllLines = <<>>
        <3>1. <<>> \o <<>> = <<>>
            BY <1>2, ConcatEmptySeq
        <3> QED BY <1>1, <3>1 DEF AllLines, Init
    <2>2. [books |-> books, lines |-> AllLines] \in SequentialRuns(<<>>)
        BY <2>1, RunsOfNothing DEF FirstRun, Init
    <2> QED BY <1>1, <1>2, <2>1, <2>2 DEF RunOf, Init
<1> QED BY <1>4, <1>5 DEF SeqInv

LEMMA NextRun == IInv /\ SeqInv /\ [Next]_vars => SeqInv'
<1> SUFFICES ASSUME IInv, SeqInv, [Next]_vars PROVE SeqInv'
    OBVIOUS
<1>1. Covered(datagram)
    BY DEF SeqInv, Typed
<1>2. CASE UNCHANGED vars \/ MainStep \/ Sigterm
    <2>1. UNCHANGED <<books, outputs, popped, stdout, accepted, outputQueue, datagram, inputQueue>>
        BY <1>2 DEF vars, MainStep, StartThread, JoinThread, Sigterm
    <2> QED BY <1>1, <2>1, RunStays
<1> QED BY <1>2, InputKeepsRun, ProcessingKeepsRun, OutputKeepsRun DEF Next

\* Whatever the threads, the network and signals do, the lines printed and on
\* their way are those of one run of a sequential engine over the commands taken
\* from the input queue, in the order they were accepted.
THEOREM PipelineIsSequential == Spec => []SequentialBehaviour
<1>1. SeqInv => SequentialBehaviour
    <2> SUFFICES ASSUME SeqInv PROVE SequentialBehaviour
        OBVIOUS
    <2>1. PICK done : RunOf(done)
        BY DEF SeqInv
    <2>2. Consumed = done
        BY <2>1, DoneIsConsumed DEF SeqInv
    <2> QED BY <2>1, <2>2 DEF RunOf, SequentialBehaviour
<1> QED BY <1>1, InitRun, NextRun, PipelineInvariance, PTL DEF Spec

====
