---- MODULE Pipeline ----
(***************************************************************************)
(* MatchingEngineMain.cpp: main, the input, processing and output thread,  *)
(* and SIGTERM.  The two queues follow QueueRules, atomically, as          *)
(* ThreadSafeQueue is shown to do; the engine follows EngineRules, as      *)
(* MatchingEngine is: its books belong to the processing thread alone.     *)
(* The network delivers any datagram any number of times in any order.     *)
(***************************************************************************)
EXTENDS CommandParser, QueueRules

CONSTANTS
    Datagrams,       \* what clients send: sequences of lines
    Oversized,       \* those longer than the buffer
    MaxAccepted      \* bound: datagrams are received while fewer commands were queued

BindAttempts == 5
Terminated == 7

VARIABLES
    input, processing, output,     \* where the threads stand
    main,                          \* threads started (0..3), joined (4..6), or Terminated
    shutdownRequested,             \* g_shutdownRequested
    attempts,                      \* bind attempts that failed
    datagram,                      \* lines of the datagram still to read
    inputQueue, outputQueue,       \* g_inputQueue, g_outputQueue
    books,                         \* the engine of the processing thread
    outputs,                       \* lines of the command still to queue
    popped,                        \* the line the output thread holds: <<>> or one
    stdout,                        \* lines printed
    accepted                       \* history: every command queued

threadVars == <<input, processing, output, main>>
inputVars == <<input, attempts, datagram>>
vars == <<threadVars, shutdownRequested, attempts, datagram, inputQueue, outputQueue,
          books, outputs, popped, stdout, accepted>>

Init ==
    /\ input = "new" /\ processing = "new" /\ output = "new"
    /\ main = 0
    /\ shutdownRequested = FALSE
    /\ attempts = 0
    /\ datagram = <<>>
    /\ inputQueue = OpenQueue /\ outputQueue = OpenQueue
    /\ books = NoBooks
    /\ outputs = <<>>
    /\ popped = <<>>
    /\ stdout = <<>>
    /\ accepted = <<>>

----------------------------------------------------------------------------
(* main, and the signal handler. *)

StartThread ==
    /\ main < 3
    /\ main' = main + 1
    /\ input' = IF main = 0 THEN "socket" ELSE input
    /\ processing' = IF main = 1 THEN "pop" ELSE processing
    /\ output' = IF main = 2 THEN "pop" ELSE output
    /\ UNCHANGED <<shutdownRequested, attempts, datagram, inputQueue, outputQueue,
                   books, outputs, popped, stdout, accepted>>

\* The joins: input, processing, output; then main returns.
JoinThread ==
    /\ \/ main = 3 /\ input = "ended"
       \/ main = 4 /\ processing = "ended"
       \/ main = 5 /\ output = "ended"
    /\ main' = main + 1
    /\ UNCHANGED <<input, processing, output, shutdownRequested, attempts, datagram,
                   inputQueue, outputQueue, books, outputs, popped, stdout, accepted>>

\* Mutant of Sigterm: the handler shuts the queue down itself, to be quicker.
SigtermCloses ==
    /\ main < 6 /\ ~shutdownRequested
    /\ shutdownRequested' = TRUE
    /\ inputQueue' = Closed(inputQueue)
    /\ UNCHANGED <<threadVars, attempts, datagram, outputQueue,
                   books, outputs, popped, stdout, accepted>>

\* handleSigterm
Sigterm ==
    /\ main < 6 /\ ~shutdownRequested
    /\ shutdownRequested' = TRUE
    /\ UNCHANGED <<threadVars, attempts, datagram, inputQueue, outputQueue,
                   books, outputs, popped, stdout, accepted>>

----------------------------------------------------------------------------
(* The input thread. *)

InputUnchanged == UNCHANGED <<processing, output, main, outputQueue, books, outputs,
                              popped, stdout>>

\* The thread ends and shuts its queue down.
EndInput == input' = "ended" /\ inputQueue' = Closed(inputQueue)

\* Mutant of SocketFails: the queue stays open.
SocketFailsQuietly ==
    /\ input = "socket"
    /\ shutdownRequested' = TRUE
    /\ input' = "ended"
    /\ InputUnchanged /\ UNCHANGED <<inputQueue, attempts, datagram, accepted>>

SocketFails ==
    /\ input = "socket"
    /\ shutdownRequested' = TRUE
    /\ EndInput
    /\ InputUnchanged /\ UNCHANGED <<attempts, datagram, accepted>>

SocketOpens ==
    /\ input = "socket"
    /\ input' = "bind"
    /\ InputUnchanged
    /\ UNCHANGED <<inputQueue, shutdownRequested, attempts, datagram, accepted>>

BindSucceeds ==
    /\ input = "bind" /\ attempts < BindAttempts
    /\ input' = "loop"
    /\ attempts' = 0
    /\ InputUnchanged
    /\ UNCHANGED <<inputQueue, shutdownRequested, datagram, accepted>>

\* Mutant of BindFails: the attempts are not limited.
BindFailsBeyond ==
    /\ input = "bind"
    /\ attempts' = attempts + 1
    /\ InputUnchanged
    /\ UNCHANGED <<input, inputQueue, shutdownRequested, datagram, accepted>>

BindFails ==
    /\ input = "bind" /\ attempts < BindAttempts
    /\ attempts' = attempts + 1
    /\ InputUnchanged
    /\ UNCHANGED <<input, inputQueue, shutdownRequested, datagram, accepted>>

\* Mutant of GiveUp: the thread returns and leaves its queue open.
GiveUpQuietly ==
    /\ input = "bind" /\ attempts = BindAttempts
    /\ shutdownRequested' = TRUE
    /\ input' = "ended"
    /\ InputUnchanged /\ UNCHANGED <<inputQueue, attempts, datagram, accepted>>

GiveUp ==
    /\ input = "bind" /\ attempts = BindAttempts
    /\ shutdownRequested' = TRUE
    /\ EndInput
    /\ InputUnchanged /\ UNCHANGED <<attempts, datagram, accepted>>

\* Mutant of EnterReceive: the loop does not look at the flag.
EnterReceiveAlways ==
    /\ input = "loop"
    /\ input' = "receive"
    /\ InputUnchanged
    /\ UNCHANGED <<inputQueue, shutdownRequested, attempts, datagram, accepted>>

\* The head of the receive loop.
EnterReceive ==
    /\ input = "loop" /\ ~shutdownRequested
    /\ input' = "receive"
    /\ InputUnchanged
    /\ UNCHANGED <<inputQueue, shutdownRequested, attempts, datagram, accepted>>

LeaveLoop ==
    /\ input = "loop" /\ shutdownRequested
    /\ EndInput
    /\ InputUnchanged /\ UNCHANGED <<shutdownRequested, attempts, datagram, accepted>>

\* What a cut leaves of a line: some of its tokens, the last one perhaps short
\* of digits.
CutLines(line) ==
    { SubSeq(line, 1, k) : k \in 0..Len(line) }
    \cup { SubSeq(line, 1, k - 1) \o << Number(line[k].number[1] \div 10) >> :
             k \in { j \in 1..Len(line) : Reads(line[j], Int64Max) /\ line[j].number[1] >= 10 } }

\* What recvfrom puts into the buffer: of an oversized datagram, its beginning.
InBuffer(d) ==
    IF d \notin Oversized THEN {d}
    ELSE UNION { { SubSeq(d, 1, n) \o <<cut>> : cut \in CutLines(d[n + 1]) } :
                   n \in 0..Len(d) - 1 }

\* The ids, symbols and numbers of the datagrams are those the books know.
ASSUME DatagramsAreCovered ==
    \A d \in Datagrams : \A buffer \in InBuffer(d) :
        /\ buffer \in Seq(Range(buffer))
        /\ \A line \in Range(buffer) :
              ParseLine(line) \in SymbolOrder \cup Cancel \cup {FlushCommand, Invalid, Throws}

Receive(d) ==
    /\ input = "receive"
    /\ Len(accepted) < MaxAccepted
    /\ datagram' \in InBuffer(d)
    /\ input' = "lines"
    /\ InputUnchanged
    /\ UNCHANGED <<inputQueue, shutdownRequested, attempts, accepted>>

\* recvfrom returns an empty datagram or an error.
ReceiveNothing ==
    /\ input = "receive"
    /\ input' = "loop"
    /\ InputUnchanged
    /\ UNCHANGED <<inputQueue, shutdownRequested, attempts, datagram, accepted>>

NextLine == ParseLine(Head(datagram))

\* A line that is blank or invalid is dropped.
SkipLine ==
    /\ input = "lines" /\ datagram # <<>>
    /\ NextLine = Invalid
    /\ datagram' = Tail(datagram)
    /\ InputUnchanged
    /\ UNCHANGED <<input, inputQueue, shutdownRequested, attempts, accepted>>

QueueCommand ==
    /\ input = "lines" /\ datagram # <<>>
    /\ NextLine \notin {Invalid, Throws}
    /\ inputQueue' = Pushed(inputQueue, NextLine)
    /\ accepted' = Append(accepted, NextLine)
    /\ datagram' = Tail(datagram)
    /\ InputUnchanged
    /\ UNCHANGED <<input, shutdownRequested, attempts>>

\* stoi or stoll throws; nothing catches it: std::terminate ends all threads.
ParserThrows ==
    /\ input = "lines" /\ datagram # <<>>
    /\ NextLine = Throws
    /\ input' = "dead" /\ processing' = "dead" /\ output' = "dead"
    /\ main' = Terminated
    /\ UNCHANGED <<shutdownRequested, attempts, datagram, inputQueue, outputQueue,
                   books, outputs, popped, stdout, accepted>>

LinesDone ==
    /\ input = "lines" /\ datagram = <<>>
    /\ input' = "loop"
    /\ InputUnchanged
    /\ UNCHANGED <<inputQueue, shutdownRequested, attempts, datagram, accepted>>

----------------------------------------------------------------------------
(* The processing thread. *)

ProcessingUnchanged == UNCHANGED <<inputVars, output, main, shutdownRequested,
                                   popped, stdout, accepted>>

\* pop and processCommand: the books are seen by no other thread.
ProcessCommand ==
    /\ processing = "pop"
    /\ inputQueue.items # <<>>
    /\ inputQueue' = Popped(inputQueue)
    /\ \E r \in Outcomes(books, Head(inputQueue.items)) :
          books' = r.books /\ outputs' = r.lines
    /\ processing' = "push"
    /\ ProcessingUnchanged /\ UNCHANGED outputQueue

\* Mutant of PushLine: the lines of a command go out last first.
PushLastLine ==
    /\ processing = "push" /\ outputs # <<>>
    /\ outputQueue' = Pushed(outputQueue, Last(outputs))
    /\ outputs' = Front(outputs)
    /\ ProcessingUnchanged /\ UNCHANGED <<processing, inputQueue, books>>

PushLine ==
    /\ processing = "push" /\ outputs # <<>>
    /\ outputQueue' = Pushed(outputQueue, Head(outputs))
    /\ outputs' = Tail(outputs)
    /\ ProcessingUnchanged /\ UNCHANGED <<processing, inputQueue, books>>

CommandDone ==
    /\ processing = "push" /\ outputs = <<>>
    /\ processing' = "pop"
    /\ ProcessingUnchanged /\ UNCHANGED <<inputQueue, outputQueue, books, outputs>>

\* Mutant of EndProcessing: it ends when the input queue is shut down.
EndProcessingAtOnce ==
    /\ processing = "pop" /\ inputQueue.shutdown
    /\ processing' = "ended"
    /\ outputQueue' = Closed(outputQueue)
    /\ ProcessingUnchanged /\ UNCHANGED <<inputQueue, books, outputs>>

EndProcessing ==
    /\ processing = "pop" /\ Drained(inputQueue)
    /\ processing' = "ended"
    /\ outputQueue' = Closed(outputQueue)
    /\ ProcessingUnchanged /\ UNCHANGED <<inputQueue, books, outputs>>

----------------------------------------------------------------------------
(* The output thread. *)

OutputUnchanged == UNCHANGED <<inputVars, processing, main, shutdownRequested, inputQueue,
                               books, outputs, accepted>>

TakeLine ==
    /\ output = "pop" /\ outputQueue.items # <<>>
    /\ popped' = << Head(outputQueue.items) >>
    /\ outputQueue' = Popped(outputQueue)
    /\ output' = "print"
    /\ OutputUnchanged /\ UNCHANGED stdout

PrintLine ==
    /\ output = "print"
    /\ stdout' = stdout \o popped
    /\ popped' = <<>>
    /\ output' = "pop"
    /\ OutputUnchanged /\ UNCHANGED outputQueue

EndOutput ==
    /\ output = "pop" /\ Drained(outputQueue)
    /\ output' = "ended"
    /\ OutputUnchanged /\ UNCHANGED <<outputQueue, popped, stdout>>

----------------------------------------------------------------------------

\* What each thread does unless the network keeps it waiting.
MainStep == StartThread \/ JoinThread
InputStep ==
    \/ SocketFails \/ SocketOpens \/ BindSucceeds \/ BindFails \/ GiveUp
    \/ EnterReceive \/ LeaveLoop \/ SkipLine \/ QueueCommand \/ ParserThrows \/ LinesDone
ProcessingStep == ProcessCommand \/ PushLine \/ CommandDone \/ EndProcessing
OutputStep == TakeLine \/ PrintLine \/ EndOutput

RecvfromReturns == (\E d \in Datagrams : Receive(d)) \/ ReceiveNothing

Next == MainStep \/ InputStep \/ ProcessingStep \/ OutputStep \/ RecvfromReturns \/ Sigterm

Spec == Init /\ [][Next]_vars

\* The four threads run.  Nothing is assumed of clients and signals.
FairSpec ==
    /\ Spec
    /\ WF_vars(MainStep)
    /\ WF_vars(InputStep)
    /\ WF_vars(ProcessingStep)
    /\ WF_vars(OutputStep)

----------------------------------------------------------------------------
(* Properties. *)

TypeOK ==
    /\ input \in {"new", "socket", "bind", "loop", "receive", "lines", "ended", "dead"}
    /\ processing \in {"new", "pop", "push", "ended", "dead"}
    /\ output \in {"new", "pop", "print", "ended", "dead"}
    /\ main \in 0..Terminated
    /\ shutdownRequested \in BOOLEAN
    /\ attempts \in 0..BindAttempts
    /\ inputQueue.shutdown \in BOOLEAN /\ outputQueue.shutdown \in BOOLEAN
    /\ Len(popped) <= 1

\* The lines printed, and behind them those produced and on their way.
AllLines == stdout \o popped \o outputQueue.items \o outputs

Consumed == SubSeq(accepted, 1, Len(accepted) - Len(inputQueue.items))

\* What one thread makes of a sequence of commands: every result it may have.
SequentialRuns(cmds) ==
    LET runs[n \in 0..Len(cmds)] ==
            IF n = 0 THEN { [books |-> NoBooks, lines |-> <<>>] }
            ELSE UNION { { [books |-> r.books, lines |-> run.lines \o r.lines] :
                             r \in Outcomes(run.books, cmds[n]) } : run \in runs[n - 1] }
    IN  runs[Len(cmds)]

\* "Deterministic FIFO ordering": the three threads produce, line by line, what
\* one thread would that executes the commands in the order they were accepted,
\* and the rest of the commands wait in that order; so also at a termination.
SequentialBehaviour ==
    /\ accepted = Consumed \o inputQueue.items
    /\ [books |-> books, lines |-> AllLines] \in SequentialRuns(Consumed)

\* When main returns, every command queued was executed and every line printed.
NothingLeftAtExit ==
    main = 6 => /\ Drained(inputQueue) /\ Drained(outputQueue)
                /\ outputs = <<>> /\ popped = <<>>

OnlyTaken(q, r) ==
    q.shutdown => (r = q \/ (q.items # <<>> /\ r = Popped(q)))

\* "Signal that no more items will be pushed": neither queue is pushed to after
\* its shutdown, which is what the queue's promise to its consumer rests on.
NoPushAfterShutdown ==
    [][OnlyTaken(inputQueue, inputQueue') /\ OnlyTaken(outputQueue, outputQueue')]_vars

\* Shutdown runs down the pipeline: once the input thread has ended, for whatever
\* reason, the others drain their queues and end, and main returns.
EndOfInputEndsAll == (input = "ended") ~> (main = 6)

\* The input thread comes to receive, or the process ends: five failed binds end it.
ServesOrEnds == (input = "socket") ~> (input = "receive" \/ main = 6)

\* A SIGTERM ends the process if recvfrom goes on returning.
SigtermEndsUnderTraffic ==
    WF_vars(RecvfromReturns) => (shutdownRequested ~> main \in {6, Terminated})

====
