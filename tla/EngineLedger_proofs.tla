---- MODULE EngineLedger_proofs ----
(***************************************************************************)
(* Proofs about the engine and its auditor: whatever order the loop over   *)
(* the books takes, a command has an outcome the rules allow; the trades   *)
(* join orders that may trade; a broadcast cancel takes one order.         *)
(***************************************************************************)
EXTENDS EngineLedger, EngineRules_proofs

----------------------------------------------------------------------------
(* Types, and how far the loop of a cancel has come. *)

EngineTypes ==
    /\ SoundEngine(books) /\ SoundEngine(before)
    /\ command \in Commands \cup {NoCommand}
    /\ lines \in Seq(Line)
    /\ Idle => pending = {} /\ lines = <<>>

Replies == Answers(before, command)

\* The books of the loop that have answered are as the cancel leaves them, and
\* their answers are the lines, in the order they were visited.
Visited(visit) ==
    /\ visit \in SetToSeqs(DOMAIN before \ pending)
    /\ lines = FlattenSeq(LinesVisiting(Replies, visit))

LoopInv ==
    /\ pending \subseteq DOMAIN before /\ DOMAIN books = DOMAIN before
    /\ \A s \in DOMAIN before :
          books[s] = IF s \in pending THEN before[s] ELSE Replies[s].state
    /\ \E visit : Visited(visit)

Progress ==
    ~Idle => IF command.type = "Cancel" THEN LoopInv
             ELSE pending = {} /\ [books |-> books, lines |-> lines] \in Outcomes(before, command)

LoopingInv == EngineTypes /\ Progress

LEMMA NoCommandIsNone == NoCommand \notin Commands
BY DEF NoCommand, Commands, SymbolOrder, Cancel, FlushCommand

LEMMA CancelIsCancelling ==
    ASSUME NEW c \in Cancel
    PROVE  Cancelling(c) /\ c \in Commands
BY DEF Cancel, Cancelling, Commands

LEMMA OrderIsEntering ==
    ASSUME NEW c \in SymbolOrder
    PROVE  Entering(c) /\ c.symbol \in Symbols /\ c \in Commands
BY PricesAreInt, QuantitiesAreInt DEF SymbolOrder, Entering, Commands

LEMMA CancelCommands ==
    ASSUME EngineTypes, ~Idle, command.type = "Cancel"
    PROVE  Cancelling(command)
<1>1. command \in Commands
    BY DEF EngineTypes, Idle
<1> QED BY <1>1, CommandKinds DEF Entering

\* One more book is visited.
LEMMA VisitGrows ==
    ASSUME NEW answers, \A s \in DOMAIN answers : SoundResult(answers[s]),
           NEW visit \in Seq(DOMAIN answers), NEW s \in DOMAIN answers
    PROVE  LinesVisiting(answers, Append(visit, s)) = Append(LinesVisiting(answers, visit), answers[s].lines)
<1> DEFINE more == Append(visit, s)
           n == Len(visit)
           old == LinesVisiting(answers, visit)
           new == LinesVisiting(answers, more)
<1>1. n \in Nat /\ more \in Seq(DOMAIN answers) /\ Len(more) = n + 1 /\ more[n + 1] = s
      /\ \A i \in 1..n : more[i] = visit[i]
    BY LenProperties, AppendProperties
<1>2. /\ old \in Seq(Seq(Line)) /\ Len(old) = n
      /\ new \in Seq(Seq(Line)) /\ Len(new) = n + 1
    BY <1>1, VisitingSound
<1>3. DOMAIN visit = 1..n /\ DOMAIN more = 1..(n + 1)
    BY <1>1, LenProperties
<1>4. answers[s].lines \in Seq(Line)
    BY DEF SoundResult
<1> DEFINE last == answers[s].lines
           both == Append(old, last)
<1>5. both \in Seq(Seq(Line)) /\ Len(both) = n + 1 /\ both[n + 1] = last
      /\ \A i \in 1..n : both[i] = old[i]
    BY <1>2, <1>4, AppendProperties
<1>6. \A i \in 1..n : old[i] = answers[visit[i]].lines
    BY <1>3 DEF LinesVisiting
<1>7. \A i \in 1..(n + 1) : new[i] = answers[more[i]].lines
    BY <1>3 DEF LinesVisiting
<1> HIDE DEF more, n, old, new, last, both
<1>8. \A i \in 1..(n + 1) : new[i] = both[i]
    <2> SUFFICES ASSUME NEW i \in 1..(n + 1) PROVE new[i] = both[i]
        OBVIOUS
    <2>1. CASE i = n + 1
        BY <1>1, <1>5, <1>7, <2>1 DEF last
    <2>2. CASE i # n + 1
        <3>1. i \in 1..n
            BY <1>1, <2>2
        <3> QED BY <1>1, <1>5, <1>6, <1>7, <3>1
    <2> QED BY <2>1, <2>2
<1>9. new = both
    BY <1>2, <1>5, <1>8, SeqEqual
<1> QED BY <1>9 DEF new, both, old, last, more

LEMMA LoopStarts ==
    ASSUME LoopingInv, NEW c \in Cancel, AuditedCancel(c)
    PROVE  LoopingInv'
<1>1. /\ Idle /\ books' = books /\ before' = books /\ command' = c
      /\ pending' = DOMAIN books /\ lines' = lines /\ lines = <<>>
    BY DEF AuditedCancel, StartCancel, LoopingInv, EngineTypes, Idle
<1>2. c \in Commands /\ c # NoCommand /\ c.type = "Cancel"
    BY CancelIsCancelling, NoCommandIsNone DEF Cancelling
<1>3. EngineTypes'
    BY <1>1, <1>2 DEF LoopingInv, EngineTypes, Idle
<1>4. LoopInv'
    <2>1. pending' \subseteq DOMAIN before' /\ DOMAIN books' = DOMAIN before'
          /\ \A s \in DOMAIN before' : books'[s] = IF s \in pending' THEN before'[s] ELSE Replies'[s].state
        BY <1>1
    <2> DEFINE none == [i \in 1..0 |-> 0]
    <2>2. none = <<>> /\ Cardinality({}) = 0 /\ DOMAIN before' \ pending' = {}
        BY <1>1, FS_EmptySet
    <2>3. <<>> \in SetToSeqs({})
        <3>1. none \in [1..Cardinality({}) -> {}]
            BY <2>2
        <3>2. none \in SetToSeqs({})
            BY <2>2, <3>1 DEF SetToSeqs
        <3> QED BY <2>2, <3>2
    <2>4. LinesVisiting(Replies', <<>>) = <<>>
        BY DEF LinesVisiting
    <2>5. Visited(<<>>)'
        BY <1>1, <2>2, <2>3, <2>4, FlattenEmpty DEF Visited
    <2> QED BY <2>1, <2>5 DEF LoopInv
<1>5. Progress'
    BY <1>1, <1>2, <1>4 DEF Progress
<1> QED BY <1>3, <1>5 DEF LoopingInv

\* The book the loop visits gives the answer the rules foresee.
LEMMA BookAnswers ==
    ASSUME LoopingInv, NEW s \in Symbols, CancelInBook(s), UNCHANGED <<ledger, before>>
    PROVE  /\ ~Idle /\ command.type = "Cancel" /\ Cancelling(command) /\ LoopInv
           /\ s \in pending /\ s \in DOMAIN before /\ command' = command
           /\ books' = WithBook(books, s, Replies[s]) /\ lines' = lines \o Replies[s].lines
           /\ pending' = pending \ {s}
           /\ DOMAIN Replies = DOMAIN before /\ \A t \in DOMAIN before : SoundResult(Replies[t])
<1>1. s \in pending /\ pending' = pending \ {s} /\ command' = command
    BY DEF CancelInBook
<1>2. ~Idle
    BY <1>1 DEF LoopingInv, EngineTypes
<1>3. command.type = "Cancel" /\ LoopInv
    BY <1>1, <1>2 DEF LoopingInv, Progress
<1>4. Cancelling(command)
    BY <1>2, <1>3, CancelCommands DEF LoopingInv
<1>5. s \in DOMAIN before /\ books[s] = before[s]
    BY <1>1, <1>3 DEF LoopInv
<1>6. Serving(books[s], command) = { Replies[s] }
    <2>1. ServedBook(books[s].book, command) = AfterCancel(before[s].book, command)
        BY <1>4, <1>5 DEF ServedBook, Cancelling
    <2> QED BY <1>5, <2>1, ServingIs DEF Answers, Replies
<1>7. books' = WithBook(books, s, Replies[s]) /\ lines' = lines \o Replies[s].lines
    BY <1>6 DEF CancelInBook
<1>8. DOMAIN Replies = DOMAIN before /\ \A t \in DOMAIN before : SoundResult(Replies[t])
    BY <1>4, AnswersSound DEF LoopingInv, EngineTypes, Replies
<1> QED BY <1>1, <1>2, <1>3, <1>4, <1>5, <1>7, <1>8

LEMMA LoopGoesOn ==
    ASSUME LoopingInv, NEW s \in Symbols, CancelInBook(s), UNCHANGED <<ledger, before>>
    PROVE  LoopingInv'
<1> DEFINE answers == Replies
<1>1. /\ ~Idle /\ command.type = "Cancel" /\ Cancelling(command) /\ LoopInv
      /\ s \in pending /\ s \in DOMAIN before /\ command' = command /\ before' = before
      /\ books' = WithBook(books, s, answers[s]) /\ lines' = lines \o answers[s].lines
      /\ pending' = pending \ {s}
      /\ DOMAIN answers = DOMAIN before /\ \A t \in DOMAIN before : SoundResult(answers[t])
    BY BookAnswers
<1>2. Replies' = answers
    BY <1>1 DEF Replies
<1>3. EngineTypes'
    <2>1. SoundResult(answers[s]) /\ s \in Symbols
        BY <1>1
    <2>2. SoundEngine(books')
        BY <1>1, <2>1, WithBookSound DEF LoopingInv, EngineTypes
    <2>3. lines' \in Seq(Line)
        BY <1>1, <2>1, ConcatProperties DEF SoundResult, LoopingInv, EngineTypes
    <2> QED BY <1>1, <2>2, <2>3 DEF LoopingInv, EngineTypes, Idle
<1>4. \A t \in DOMAIN before : books'[t] = IF t \in pending' THEN before[t] ELSE answers[t].state
    <2> SUFFICES ASSUME NEW t \in DOMAIN before
                 PROVE  books'[t] = IF t \in pending' THEN before[t] ELSE answers[t].state
        OBVIOUS
    <2>1. books'[t] = IF t = s THEN answers[s].state ELSE books[t]
        BY <1>1 DEF WithBook, LoopInv
    <2>2. books[t] = IF t \in pending THEN before[t] ELSE answers[t].state
        BY <1>1 DEF LoopInv
    <2> QED BY <1>1, <2>1, <2>2
<1>5. DOMAIN books' = DOMAIN before /\ pending' \subseteq DOMAIN before
    BY <1>1 DEF WithBook, LoopInv
<1>6. PICK visit : Visited(visit)
    BY <1>1 DEF LoopInv
<1> DEFINE done == DOMAIN before \ pending
<1>7. IsFiniteSet(done) /\ s \notin done /\ done \cup {s} = DOMAIN before \ pending'
    BY <1>1, FS_Difference DEF LoopingInv, EngineTypes, SoundEngine
<1>8. visit \in SetToSeqs(done) /\ lines = FlattenSeq(LinesVisiting(answers, visit))
    BY <1>6 DEF Visited
<1>9. visit \in Seq(DOMAIN answers)
    <2>1. visit \in Seq(done) /\ done \subseteq DOMAIN answers
        BY <1>1, <1>7, <1>8, Enumerations DEF Enumerates
    <2> QED BY <2>1, SeqMonotonic
<1> HIDE DEF answers
<1>10. LinesVisiting(answers, Append(visit, s)) = Append(LinesVisiting(answers, visit), answers[s].lines)
    BY <1>1, <1>9, VisitGrows
<1>11. LinesVisiting(answers, visit) \in Seq(Seq(Line)) /\ answers[s].lines \in Seq(Line)
    BY <1>1, <1>9, VisitingSound DEF SoundResult
<1>12. lines' = FlattenSeq(LinesVisiting(answers, Append(visit, s)))
    BY <1>1, <1>8, <1>10, <1>11, FlattenAppend
<1>13. Append(visit, s) \in SetToSeqs(DOMAIN before \ pending')
    BY <1>7, <1>8, EnumerationGrows
<1>14. PICK more : more = Append(visit, s)
    OBVIOUS
<1>15. Visited(more)'
    BY <1>1, <1>2, <1>12, <1>13, <1>14 DEF Visited
<1>16. LoopInv'
    BY <1>1, <1>2, <1>4, <1>5, <1>15 DEF LoopInv
<1>17. Progress'
    BY <1>1, <1>16 DEF Progress, Idle
<1> QED BY <1>3, <1>17 DEF LoopingInv

\* A new order is served by the book of its symbol, in one step.
LEMMA OrderServed ==
    ASSUME LoopingInv, NEW c \in SymbolOrder, AuditedNew(c)
    PROVE  LET b == BookOf(books, c.symbol)
               r == Publishing(b, c, AfterNewOrder(b.book, c))
           IN  /\ SoundEntry(b) /\ SoundResult(r) /\ Entering(c) /\ c \in Commands /\ c.symbol \in Symbols
               /\ Idle /\ lines = <<>> /\ pending' = {} /\ command' = c /\ before' = books
               /\ books' = WithBook(books, c.symbol, r) /\ lines' = r.lines
<1> DEFINE b == BookOf(books, c.symbol)
           r == Publishing(b, c, AfterNewOrder(b.book, c))
<1>1. Entering(c) /\ c.symbol \in Symbols /\ c \in Commands
    BY OrderIsEntering
<1>2. ServedBook(b.book, c) = AfterNewOrder(b.book, c)
    BY <1>1 DEF ServedBook, Entering
<1>3. Serving(b, c) = {r}
    BY <1>2, ServingIs
<1>4. SoundEntry(b)
    BY BookOfSound DEF LoopingInv, EngineTypes
<1>5. SoundResult(r)
    BY <1>1, <1>2, <1>4, PublishingSound
<1>6. /\ command = NoCommand /\ pending' = pending /\ command' = c /\ before' = books
      /\ \E q \in Serving(b, c) : books' = WithBook(books, c.symbol, q) /\ lines' = q.lines
    BY DEF AuditedNew, RouteNewOrder
<1> HIDE DEF b, r
<1>7. books' = WithBook(books, c.symbol, r) /\ lines' = r.lines
    BY <1>3, <1>6
<1>8. Idle /\ lines = <<>> /\ pending = {}
    BY <1>6 DEF Idle, LoopingInv, EngineTypes
<1> QED BY <1>1, <1>4, <1>5, <1>6, <1>7, <1>8 DEF b, r

LEMMA NewOrderLoops ==
    ASSUME LoopingInv, NEW c \in SymbolOrder, AuditedNew(c)
    PROVE  LoopingInv'
<1> DEFINE b == BookOf(books, c.symbol)
           r == Publishing(b, c, AfterNewOrder(b.book, c))
<1>1. /\ SoundEntry(b) /\ SoundResult(r) /\ Entering(c) /\ c \in Commands /\ c.symbol \in Symbols
      /\ Idle /\ lines = <<>> /\ pending' = {} /\ command' = c /\ before' = books
      /\ books' = WithBook(books, c.symbol, r) /\ lines' = r.lines
    BY OrderServed
<1>2. ServedBook(b.book, c) = AfterNewOrder(b.book, c)
    BY <1>1 DEF ServedBook, Entering
<1>3. Serving(b, c) = {r}
    BY <1>2, ServingIs
<1>4. Outcomes(books, c) = { [books |-> WithBook(books, c.symbol, q), lines |-> q.lines] : q \in Serving(b, c) }
    BY <1>1 DEF Outcomes, Entering
<1> HIDE DEF b, r
<1>5. [books |-> books', lines |-> lines'] \in Outcomes(before', command')
    BY <1>1, <1>3, <1>4
<1>6. EngineTypes'
    <2>1. SoundEngine(books) /\ SoundEngine(books')
        BY <1>1, WithBookSound DEF LoopingInv, EngineTypes
    <2>2. command' # NoCommand
        BY <1>1, NoCommandIsNone
    <2> QED BY <1>1, <2>1, <2>2 DEF EngineTypes, Idle, SoundResult
<1>7. Progress'
    BY <1>1, <1>5 DEF Progress, Entering
<1> QED BY <1>6, <1>7 DEF LoopingInv

LEMMA FlushLoops ==
    ASSUME LoopingInv, Flush, before' = books
    PROVE  LoopingInv'
<1>1. /\ Idle /\ books' = NoBooks /\ command' = FlushCommand /\ pending' = {} /\ lines' = <<>>
    BY DEF Flush, Idle, LoopingInv, EngineTypes
<1>2. FlushCommand \in Commands /\ FlushCommand.type = "Flush" /\ FlushCommand # NoCommand
    BY NoCommandIsNone DEF Commands, FlushCommand
<1>3. EngineTypes'
    BY <1>1, <1>2, NoBooksSound DEF LoopingInv, EngineTypes, Idle
<1>4. [books |-> books', lines |-> lines'] \in Outcomes(before', command')
    BY <1>1, <1>2 DEF Outcomes
<1>5. Progress'
    BY <1>1, <1>2, <1>4 DEF Progress
<1> QED BY <1>3, <1>5 DEF LoopingInv

LEMMA ReturnLoops ==
    ASSUME LoopingInv, Return, before' = NoBooks
    PROVE  LoopingInv'
<1>1. books' = books /\ command' = NoCommand /\ pending' = {} /\ lines' = <<>>
    BY DEF Return
<1>2. EngineTypes'
    BY <1>1, NoBooksSound DEF LoopingInv, EngineTypes, Idle
<1>3. Progress'
    BY <1>1 DEF Progress, Idle
<1> QED BY <1>2, <1>3 DEF LoopingInv

LEMMA InitLoops == AuditInit => LoopingInv
BY NoBooksSound DEF AuditInit, Init, LoopingInv, EngineTypes, Progress, Idle

LEMMA NextLoops == LoopingInv /\ [AuditNext]_auditedVars => LoopingInv'
<1> SUFFICES ASSUME LoopingInv, [AuditNext]_auditedVars PROVE LoopingInv'
    OBVIOUS
<1>1. CASE UNCHANGED auditedVars
    <2>1. Replies' = Replies
        BY <1>1 DEF Replies, auditedVars
    <2>2. \A visit : Visited(visit) => Visited(visit)'
        BY <1>1, <2>1 DEF Visited, auditedVars
    <2>3. LoopInv => LoopInv'
        BY <1>1, <2>1, <2>2 DEF LoopInv, auditedVars
    <2> QED BY <1>1, <2>3 DEF auditedVars, LoopingInv, EngineTypes, Progress, Idle
<1>2. CASE Flush /\ ledger' = <<>> /\ before' = books
    BY <1>2, FlushLoops
<1>3. CASE \E c \in SymbolOrder : AuditedNew(c)
    BY <1>3, NewOrderLoops
<1>4. CASE \E c \in Cancel : AuditedCancel(c)
    BY <1>4, LoopStarts
<1>5. CASE (\E s \in Symbols : CancelInBook(s)) /\ UNCHANGED <<ledger, before>>
    BY <1>5, LoopGoesOn
<1>6. CASE Return /\ before' = NoBooks /\ UNCHANGED ledger
    BY <1>6, ReturnLoops
<1> QED BY <1>1, <1>2, <1>3, <1>4, <1>5, <1>6 DEF AuditNext

\* The engine's books are always well formed, and the loop of a cancel has done,
\* for the books it has visited, what the rules say.
THEOREM EngineLoops == AuditSpec => []LoopingInv
<1> QED BY InitLoops, NextLoops, PTL DEF AuditSpec

\* Routing, the broadcast book by book, in whatever order the hash map is walked,
\* and the clearing of the books come to an outcome the rules of the engine allow.
THEOREM OutcomesArePermitted == AuditSpec => []OutcomePermitted
<1>1. LoopingInv => OutcomePermitted
    <2> SUFFICES ASSUME LoopingInv, Done PROVE [books |-> books, lines |-> lines] \in Outcomes(before, command)
        BY DEF OutcomePermitted
    <2>1. ~Idle /\ pending = {}
        BY DEF Done
    <2>2. CASE command.type # "Cancel"
        BY <2>1, <2>2 DEF LoopingInv, Progress
    <2>3. CASE command.type = "Cancel"
        <3>1. LoopInv /\ SoundEngine(books)
            BY <2>1, <2>3 DEF LoopingInv, Progress, EngineTypes
        <3>2. PICK visit : Visited(visit)
            BY <3>1 DEF LoopInv
        <3>3. visit \in SetToSeqs(DOMAIN before) /\ lines = FlattenSeq(LinesVisiting(Replies, visit))
            <4>1. DOMAIN before \ pending = DOMAIN before
                BY <2>1
            <4> QED BY <3>2, <4>1 DEF Visited
        <3>4. books = StatesOf(Replies)
            <4>1. DOMAIN Replies = DOMAIN before
                BY DEF Replies, Answers
            <4>2. \A s \in DOMAIN before : books[s] = Replies[s].state
                BY <2>1, <3>1 DEF LoopInv
            <4>3. books = [s \in DOMAIN before |-> books[s]]
                BY <3>1 DEF LoopInv, SoundEngine
            <4> QED BY <4>1, <4>2, <4>3 DEF StatesOf
        <3>5. [books |-> books, lines |-> lines] \in Broadcast(before, command)
            BY <3>3, <3>4, BroadcastIs DEF Replies
        <3> QED BY <2>3, <3>5 DEF Outcomes
    <2> QED BY <2>2, <2>3
<1> QED BY <1>1, EngineLoops, PTL

----------------------------------------------------------------------------
(* The ledger and the books agree. *)

EntryTyped(key, e) ==
    /\ e = [order |-> e.order, traded |-> e.traded, cancelled |-> e.cancelled]
    /\ e.order \in SymbolOrder /\ KeyOf(e.order) = key
    /\ e.traded \in Int /\ e.cancelled \in BOOLEAN
    /\ e.order.quantity - e.traded >= 0 \/ e.traded = 0

LedgerTypes(entries) ==
    /\ entries = [key \in DOMAIN entries |-> entries[key]]
    /\ \A key \in DOMAIN entries : EntryTyped(key, entries[key])

\* What rests in a book is what the ledger still owes to an order sent there.
RestsAs(o, s, e) ==
    /\ e.order.symbol = s /\ e.order.side = o.side /\ e.order.price = o.price
    /\ o.quantity > 0 /\ o.price # 0
    /\ o.quantity = e.order.quantity - e.traded

RestingIsOwed(bs, entries) ==
    \A s \in DOMAIN bs : \A o \in bs[s].book.resting :
        KeyOf(o) \in DOMAIN entries /\ RestsAs(o, s, entries[KeyOf(o)])

\* What is owed to an order rests.
IsOwed(e) == e.order.quantity - e.traded > 0 /\ e.order.price # 0 /\ ~e.cancelled

OwedRests(bs, entries) ==
    \A key \in DOMAIN entries : IsOwed(entries[key]) =>
        /\ entries[key].order.symbol \in DOMAIN bs
        /\ \E o \in bs[entries[key].order.symbol].book.resting : KeyOf(o) = key

\* Nothing cancelled rests, but for the orders of the keys leaving.
NoneCancelled(bs, entries, leaving) ==
    \A s \in DOMAIN bs : \A o \in bs[s].book.resting :
        KeyOf(o) \notin leaving => ~entries[KeyOf(o)].cancelled

Accounting(bs, entries, leaving) ==
    /\ LedgerTypes(entries)
    /\ RestingIsOwed(bs, entries) /\ OwedRests(bs, entries) /\ NoneCancelled(bs, entries, leaving)
    /\ \A s \in DOMAIN bs : KeysTrue(bs[s].book)

\* While a cancel runs, the ledger agrees with the books it found, but for the
\* order it takes.
Cancels == ~Idle /\ command.type = "Cancel"
Held == IF Cancels THEN before ELSE books
Leaving == IF Cancels THEN {KeyOf(command)} ELSE {}

LedgerInv ==
    /\ Accounting(Held, ledger, Leaving)
    /\ \A key \in DOMAIN ledger : key \in Leaving => ledger[key].cancelled
    /\ TradesAreLegal

----------------------------------------------------------------------------
(* What the trades printed for a new order book in the ledger. *)

TradesWith(fills, c, key) == { o \in DOMAIN fills : key = KeyOf(o) \/ key = KeyOf(c) }

LEMMA TradeLineSays ==
    ASSUME NEW c, NEW o, NEW q
    PROVE  LET line == TradeLine(c, o, q)
           IN  /\ line.type = "T" /\ line.quantity = q /\ line.price = o.price
               /\ {line.buyer, line.seller} = {KeyOf(o), KeyOf(c)}
               /\ c.side = "Buy" => line.buyer = KeyOf(c) /\ line.seller = KeyOf(o)
               /\ c.side # "Buy" => line.buyer = KeyOf(o) /\ line.seller = KeyOf(c)
BY DEF TradeLine

\* The T lines of a new order are those of its makers, each at its place.
LEMMA TradePlaces ==
    ASSUME NEW book, SoundBook(book), NEW c, Entering(c), NEW seq,
           LinesAre(seq, c, TradeLines(book.resting, c))
    PROVE  LET fills == Fills(book.resting, c)
               makers == InOrder(DOMAIN fills)
           IN  /\ Enumerates(makers, DOMAIN fills) /\ Len(makers) \in Nat /\ DOMAIN seq = 1..Len(seq)
               /\ Len(seq) \in Nat /\ Len(makers) + 1 <= Len(seq)
               /\ \A i \in 1..Len(makers) :
                     /\ makers[i] \in DOMAIN fills
                     /\ seq[i + 1] = TradeLine(c, makers[i], fills[makers[i]])
               /\ \A j \in 1..Len(seq) : seq[j].type = "T" => j - 1 \in 1..Len(makers)
<1> DEFINE fills == Fills(book.resting, c)
           makers == InOrder(DOMAIN fills)
           trades == TradeLines(book.resting, c)
<1>1. FillsWell(fills, book.resting, c) /\ ListsTrades(trades, fills, c)
    BY FillsFacts, TradesListed
<1> HIDE DEF fills, trades
<1>2. Enumerates(makers, DOMAIN fills) /\ Cardinality(DOMAIN fills) \in Nat
    BY <1>1, InOrderSorts, FS_CardinalityType DEF FillsWell
<1>3. /\ Len(makers) = Len(trades) /\ Len(trades) \in Nat
      /\ \A i \in 1..Len(trades) : /\ makers[i] \in DOMAIN fills
                                      /\ trades[i] = TradeLine(c, makers[i], fills[makers[i]])
    BY <1>1, <1>2 DEF ListsTrades, Enumerates
<1> HIDE DEF makers
<1>4. /\ Len(seq) \in Nat /\ DOMAIN seq = 1..Len(seq) /\ Len(trades) + 1 <= Len(seq)
      /\ seq[1] = AckLine(c)
      /\ \A i \in 1..Len(trades) : seq[i + 1] = trades[i]
      /\ \A i \in (Len(trades) + 2)..Len(seq) : seq[i].type = "B"
    BY <1>3 DEF LinesAre, trades
<1>5. AckLine(c).type = "A"
    BY DEF AckLine, Entering
<1>6. ASSUME NEW j \in 1..Len(seq), seq[j].type = "T" PROVE j - 1 \in 1..Len(trades)
    <2>1. j # 1
        BY <1>4, <1>5, <1>6
    <2>2. ~(j \in (Len(trades) + 2)..Len(seq))
        BY <1>4, <1>6
    <2> QED BY <1>3, <1>4, <2>1, <2>2
<1> QED BY <1>2, <1>3, <1>4, <1>6 DEF fills, makers

LEMMA TradesBooked ==
    ASSUME NEW book, SoundBook(book), NEW c, Entering(c), NEW seq,
           LinesAre(seq, c, TradeLines(book.resting, c)), NEW key
    PROVE  TradedIn(seq, key) = SumFunctionOnSet(Fills(book.resting, c),
                                                 TradesWith(Fills(book.resting, c), c, key))
<1> DEFINE fills == Fills(book.resting, c)
           makers == InOrder(DOMAIN fills)
           n == Len(makers)
           S == TradesWith(fills, c, key)
           T == { j \in DOMAIN seq : seq[j].type = "T" /\ key \in {seq[j].buyer, seq[j].seller} }
           gun == [j \in T |-> seq[j].quantity]
           place == [o \in S |-> 1 + CHOOSE i \in 1..n : makers[i] = o]
<1>1. /\ Enumerates(makers, DOMAIN fills) /\ n \in Nat /\ DOMAIN seq = 1..Len(seq)
      /\ Len(seq) \in Nat /\ n + 1 <= Len(seq)
      /\ \A i \in 1..n : /\ makers[i] \in DOMAIN fills
                            /\ seq[i + 1] = TradeLine(c, makers[i], fills[makers[i]])
      /\ \A j \in 1..Len(seq) : seq[j].type = "T" => j - 1 \in 1..n
    BY TradePlaces
<1>2. IsFiniteSet(DOMAIN fills) /\ \A o \in DOMAIN fills : fills[o] \in Int
    BY FillsFacts DEF FillsWell
<1> HIDE DEF fills, makers
<1>3. S \subseteq DOMAIN fills /\ IsFiniteSet(S)
    BY <1>2, FS_Subset DEF TradesWith
<1>4. \A i \in 1..n : /\ seq[i + 1].type = "T" /\ seq[i + 1].quantity = fills[makers[i]]
                        /\ {seq[i + 1].buyer, seq[i + 1].seller} = {KeyOf(makers[i]), KeyOf(c)}
    BY <1>1, TradeLineSays
<1>5. ASSUME NEW o \in S
      PROVE  place[o] - 1 \in 1..n /\ makers[place[o] - 1] = o /\ place[o] \in Int
    <2>1. \E i \in 1..n : makers[i] = o
        BY <1>1, <1>3 DEF Enumerates
    <2>2. PICK i \in 1..n : makers[i] = o /\ place[o] = 1 + i
        BY <2>1
    <2> QED BY <1>1, <2>2
<1>6. ASSUME NEW o \in S
      PROVE  place[o] \in T /\ gun[place[o]] = fills[o]
    <2> DEFINE i == place[o] - 1
    <2>1. i \in 1..n /\ makers[i] = o /\ i + 1 = place[o] /\ i + 1 \in 1..Len(seq)
        BY <1>1, <1>5
    <2> HIDE DEF i, place
    <2>2. key \in {KeyOf(o), KeyOf(c)}
        BY DEF TradesWith
    <2>3. i + 1 \in T
        BY <1>1, <1>4, <2>1, <2>2
    <2> QED BY <1>4, <2>1, <2>3
<1>7. place \in [S -> T]
    BY <1>6
<1>8. \A o, p \in S : place[o] = place[p] => o = p
    BY <1>5
<1>9. ASSUME NEW j \in T PROVE \E o \in S : place[o] = j
    <2>1. j \in 1..Len(seq) /\ j - 1 \in 1..n /\ j \in Int
        BY <1>1
    <2> DEFINE i == j - 1
    <2>2. i \in 1..n /\ i + 1 = j /\ makers[i] \in DOMAIN fills
        BY <1>1, <2>1
    <2> HIDE DEF i
    <2>3. key \in {KeyOf(makers[i]), KeyOf(c)}
        BY <1>4, <2>2
    <2>4. makers[i] \in S
        BY <2>2, <2>3 DEF TradesWith
    <2> DEFINE o == makers[i]
    <2>5. place[o] - 1 \in 1..n /\ makers[place[o] - 1] = o /\ place[o] \in Int
        BY <1>5, <2>4
    <2> HIDE DEF place
    <2>6. place[o] - 1 = i
        BY <1>1, <2>2, <2>5 DEF Enumerates
    <2> QED BY <2>1, <2>2, <2>4, <2>5, <2>6
<1>10. SumFunctionOnSet(fills, S) = SumFunctionOnSet(gun, T)
    <2>1. \A o \in S : fills[o] \in Int
        BY <1>2, <1>3
    <2>2. \A o \in S : gun[place[o]] = fills[o]
        BY <1>6
    <2>3. \A t \in T : \E o \in S : place[o] = t
        BY <1>9
    <2> HIDE DEF S, T, gun, place
    <2> QED BY <1>3, <1>7, <1>8, <2>1, <2>2, <2>3, SumRenamed
<1>11. TradedIn(seq, key) = SumFunction(gun)
    BY DEF TradedIn
<1>12. SumFunction(gun) = SumFunctionOnSet(gun, T)
    BY DEF SumFunction, SumFunctionOnSet, FoldFunction
<1> QED BY <1>10, <1>11, <1>12 DEF fills

\* What a new order's trades give to the order of a key resting in book.
Given(fills, key) == SumFunctionOnSet(fills, { o \in DOMAIN fills : KeyOf(o) = key })

\* The ledger after a new order.
LedgerAfter(new, old, c, fills) ==
    /\ new = [key \in DOMAIN new |-> new[key]]
    /\ DOMAIN new = DOMAIN old \cup {KeyOf(c)}
    /\ new[KeyOf(c)] = [order |-> c, traded |-> SumFunction(fills), cancelled |-> FALSE]
    /\ \A key \in DOMAIN old :
          new[key] = [order |-> old[key].order, traded |-> old[key].traded + Given(fills, key),
                      cancelled |-> old[key].cancelled]

LEMMA EntryAdds ==
    ASSUME NEW e, NEW key, EntryTyped(key, e), NEW q
    PROVE  [e EXCEPT !.traded = @ + q]
             = [order |-> e.order, traded |-> e.traded + q, cancelled |-> e.cancelled]
<1>1. e = [order |-> e.order, traded |-> e.traded, cancelled |-> e.cancelled]
    BY DEF EntryTyped
<1>2. PICK f : f = e
    OBVIOUS
<1>3. f = [order |-> f.order, traded |-> f.traded, cancelled |-> f.cancelled]
    BY <1>1, <1>2
<1>4. [f EXCEPT !.traded = @ + q]
             = [order |-> f.order, traded |-> f.traded + q, cancelled |-> f.cancelled]
    BY <1>3
<1> QED BY <1>2, <1>4

LEMMA LedgerBooks ==
    ASSUME NEW old, LedgerTypes(old), NEW c, Entering(c), KeyOf(c) \notin DOMAIN old,
           NEW book, SoundBook(book), \A o \in book.resting : KeyOf(o) # KeyOf(c),
           NEW seq, LinesAre(seq, c, TradeLines(book.resting, c))
    PROVE  LedgerAfter(Booked(Entered(old, c), seq), old, c, Fills(book.resting, c))
<1> DEFINE fills == Fills(book.resting, c)
           new == Booked(Entered(old, c), seq)
           entered == Entered(old, c)
<1>1. DOMAIN fills \subseteq book.resting /\ IsFiniteSet(DOMAIN fills) /\ \A o \in DOMAIN fills : fills[o] \in Int
    BY FillsFacts, EligibleRests DEF FillsWell
<1>2. \A key : TradedIn(seq, key) = SumFunctionOnSet(fills, TradesWith(fills, c, key))
    BY TradesBooked
<1> HIDE DEF fills
<1>3. TradedIn(seq, KeyOf(c)) = SumFunction(fills)
    <2>1. TradesWith(fills, c, KeyOf(c)) = DOMAIN fills
        BY DEF TradesWith
    <2> QED BY <1>2, <2>1 DEF SumFunction, SumFunctionOnSet, FoldFunction
<1>4. ASSUME NEW key \in DOMAIN old PROVE TradedIn(seq, key) = Given(fills, key)
    <2>1. TradesWith(fills, c, key) = { o \in DOMAIN fills : KeyOf(o) = key }
        BY DEF TradesWith
    <2> QED BY <1>2, <2>1 DEF Given
<1>5. SumFunction(fills) \in Int
    BY <1>1, SumIsInt
<1>6. DOMAIN entered = DOMAIN old \cup {KeyOf(c)}
      /\ entered[KeyOf(c)] = [order |-> c, traded |-> 0, cancelled |-> FALSE]
      /\ \A key \in DOMAIN old : entered[key] = old[key]
    BY DEF Entered
<1> HIDE DEF entered
<1>7. new = [key \in DOMAIN new |-> new[key]] /\ DOMAIN new = DOMAIN old \cup {KeyOf(c)}
      /\ \A key \in DOMAIN new : new[key] = [entered[key] EXCEPT !.traded = @ + TradedIn(seq, key)]
    BY <1>6 DEF Booked, entered
<1> HIDE DEF new
<1>8. new[KeyOf(c)] = [order |-> c, traded |-> SumFunction(fills), cancelled |-> FALSE]
    <2>1. PICK e : e = [order |-> c, traded |-> 0, cancelled |-> FALSE]
        OBVIOUS
    <2> DEFINE sum == SumFunction(fills)
    <2>2. sum \in Int /\ 0 + sum = sum
        BY <1>5
    <2>3. new[KeyOf(c)] = [e EXCEPT !.traded = @ + sum]
        BY <1>3, <1>6, <1>7, <2>1
    <2> HIDE DEF sum
    <2>4. e.traded + sum = sum /\ e.order = c /\ e.cancelled = FALSE
        BY <2>1, <2>2
    <2>5. e = [order |-> e.order, traded |-> e.traded, cancelled |-> e.cancelled]
        BY <2>1
    <2>6. [e EXCEPT !.traded = @ + sum] = [order |-> e.order, traded |-> e.traded + sum, cancelled |-> e.cancelled]
        BY ONLY <2>5
    <2> QED BY <2>3, <2>4, <2>6 DEF sum
<1>9. ASSUME NEW key \in DOMAIN old
      PROVE  new[key] = [order |-> old[key].order, traded |-> old[key].traded + Given(fills, key),
                         cancelled |-> old[key].cancelled]
    <2>1. EntryTyped(key, old[key])
        BY DEF LedgerTypes
    <2>2. new[key] = [old[key] EXCEPT !.traded = @ + Given(fills, key)]
        BY <1>4, <1>6, <1>7
    <2> QED BY <2>1, <2>2, EntryAdds
<1> QED BY <1>7, <1>8, <1>9 DEF LedgerAfter, new, fills

\* No two orders of a book have one key, and a key gets what its order trades.
LEMMA OneOrderPerKey ==
    ASSUME NEW book, SoundBook(book), KeysTrue(book),
           NEW o \in book.resting, NEW p \in book.resting, KeyOf(o) = KeyOf(p)
    PROVE  o = p
BY DEF SoundBook, KeysTrue

LEMMA GivenIs ==
    ASSUME NEW book, SoundBook(book), KeysTrue(book), NEW fills,
           DOMAIN fills \subseteq book.resting, \A o \in DOMAIN fills : fills[o] \in Int, NEW key
    PROVE  /\ \A o \in DOMAIN fills : KeyOf(o) = key => Given(fills, key) = fills[o]
           /\ (\A o \in DOMAIN fills : KeyOf(o) # key) => Given(fills, key) = 0
<1>1. ASSUME NEW o \in DOMAIN fills, KeyOf(o) = key PROVE Given(fills, key) = fills[o]
    <2>1. { p \in DOMAIN fills : KeyOf(p) = key } = {o}
        BY <1>1, OneOrderPerKey
    <2>2. IsFiniteSet({o}) /\ {o} \ {o} = {}
        BY FS_Singleton
    <2>3. SumFunctionOnSet(fills, {o}) = fills[o] + SumFunctionOnSet(fills, {o} \ {o})
        <3>1. \A x \in {o} : fills[x] \in Int
            OBVIOUS
        <3> QED BY <2>2, <3>1, SumRemove
    <2>4. SumFunctionOnSet(fills, {}) = 0 /\ fills[o] \in Int
        BY SumEmpty
    <2> QED BY <2>1, <2>2, <2>3, <2>4 DEF Given
<1>2. ASSUME \A o \in DOMAIN fills : KeyOf(o) # key PROVE Given(fills, key) = 0
    <2>1. { p \in DOMAIN fills : KeyOf(p) = key } = {}
        BY <1>2
    <2> QED BY <2>1, SumEmpty DEF Given
<1> QED BY <1>1, <1>2

----------------------------------------------------------------------------
(* A new order keeps the ledger and the books in agreement. *)

\* What the agreement says of the one book of symbol s.
AgreesWith(book, s, entries) ==
    /\ SoundBook(book) /\ KeysTrue(book)
    /\ \A o \in book.resting :
          /\ KeyOf(o) \in DOMAIN entries /\ RestsAs(o, s, entries[KeyOf(o)])
          /\ ~entries[KeyOf(o)].cancelled
    /\ \A key \in DOMAIN entries :
          entries[key].order.symbol = s /\ IsOwed(entries[key]) =>
              \E o \in book.resting : KeyOf(o) = key

LEMMA AgreeingBook ==
    ASSUME NEW bs, SoundEngine(bs), NEW entries, Accounting(bs, entries, {}), NEW s
    PROVE  AgreesWith(BookOf(bs, s).book, s, entries)
<1>1. CASE s \in DOMAIN bs
    BY <1>1 DEF BookOf, AgreesWith, Accounting, RestingIsOwed, OwedRests, NoneCancelled, SoundEngine, SoundEntry
<1>2. CASE s \notin DOMAIN bs
    <2>1. BookOf(bs, s).book = EmptyBook /\ EmptyBook.resting = {} /\ \A key \in Key : EmptyBook.byKey[key] = 0
        BY <1>2 DEF BookOf, NewBook, EmptyBook
    <2>2. \A key \in DOMAIN entries : IsOwed(entries[key]) => entries[key].order.symbol # s
        BY <1>2 DEF Accounting, OwedRests
    <2> QED BY <2>1, <2>2, EmptyBookSound DEF AgreesWith, KeysTrue
<1> QED BY <1>1, <1>2

LEMMA AgreeingBooks ==
    ASSUME NEW bs, NEW entries, LedgerTypes(entries),
           \A key \in DOMAIN entries : IsOwed(entries[key]) => entries[key].order.symbol \in DOMAIN bs,
           \A s \in DOMAIN bs : AgreesWith(bs[s].book, s, entries)
    PROVE  Accounting(bs, entries, {})
BY DEF AgreesWith, Accounting, RestingIsOwed, OwedRests, NoneCancelled

\* A new order c, not yet in the ledger old, meets the book of its symbol.
Meets(book, c, old, new) ==
    /\ LedgerTypes(old) /\ AgreesWith(book, c.symbol, old)
    /\ Entering(c) /\ c \in SymbolOrder /\ KeyOf(c) \notin DOMAIN old
    /\ LedgerAfter(new, old, c, Fills(book.resting, c))

\* The fills, in terms of the orders and of the ledger.
LEMMA FillsTold ==
    ASSUME NEW book, NEW c, NEW old, NEW new, Meets(book, c, old, new)
    PROVE  LET fills == Fills(book.resting, c)
           IN  /\ DOMAIN fills \subseteq book.resting /\ book.resting \subseteq Order
               /\ IsFiniteSet(DOMAIN fills) /\ Positive(book.resting)
               /\ \A o \in DOMAIN fills : fills[o] \in Int /\ fills[o] > 0 /\ fills[o] <= o.quantity
               /\ SumFunction(fills) \in Int
               /\ SumFunction(fills) <= c.quantity \/ SumFunction(fills) = 0
               /\ \A o \in DOMAIN fills : Given(fills, KeyOf(o)) = fills[o]
               /\ \A key : (\A o \in DOMAIN fills : KeyOf(o) # key) => Given(fills, key) = 0
<1> DEFINE fills == Fills(book.resting, c)
<1>1. SoundBook(book) /\ KeysTrue(book) /\ Entering(c)
    BY DEF Meets, AgreesWith
<1>2. Positive(book.resting)
    BY DEF Meets, AgreesWith, RestsAs, Positive
<1>3. FillsWell(fills, book.resting, c)
    BY <1>1, FillsFacts
<1>4. /\ \A o \in DOMAIN fills : fills[o] > 0
      /\ SumFunction(fills) \in Int
      /\ SumFunction(fills) <= c.quantity \/ SumFunction(fills) = 0
    BY <1>1, <1>2, FillsBounded
<1> HIDE DEF fills
<1>5. /\ DOMAIN fills \subseteq book.resting /\ IsFiniteSet(DOMAIN fills)
      /\ \A o \in DOMAIN fills : fills[o] \in Int /\ fills[o] <= o.quantity
    BY <1>3, EligibleRests DEF FillsWell
<1>6. book.resting \subseteq Order
    BY <1>1 DEF SoundBook, Book
<1>7. ASSUME NEW o \in DOMAIN fills PROVE Given(fills, KeyOf(o)) = fills[o]
    <2>1. \A p \in DOMAIN fills : KeyOf(p) = KeyOf(o) => Given(fills, KeyOf(o)) = fills[p]
        BY <1>1, <1>5, GivenIs
    <2> QED BY <2>1
<1>8. ASSUME NEW key, \A o \in DOMAIN fills : KeyOf(o) # key PROVE Given(fills, key) = 0
    <2>1. (\A o \in DOMAIN fills : KeyOf(o) # key) => Given(fills, key) = 0
        BY <1>1, <1>5, GivenIs
    <2> QED BY <1>8, <2>1
<1>9. \A o \in DOMAIN fills : fills[o] \in Int /\ fills[o] > 0 /\ fills[o] <= o.quantity
    BY <1>4, <1>5
<1> QED BY ONLY <1>2, <1>4, <1>5, <1>6, <1>7, <1>8, <1>9 DEF fills

LEMMA LedgerStaysTyped ==
    ASSUME NEW book, NEW c, NEW old, NEW new, Meets(book, c, old, new)
    PROVE  LedgerTypes(new)
<1> DEFINE fills == Fills(book.resting, c)
<1>1. /\ DOMAIN fills \subseteq book.resting
      /\ \A o \in DOMAIN fills : fills[o] \in Int /\ fills[o] <= o.quantity
      /\ SumFunction(fills) \in Int
      /\ SumFunction(fills) <= c.quantity \/ SumFunction(fills) = 0
      /\ \A o \in DOMAIN fills : Given(fills, KeyOf(o)) = fills[o]
      /\ \A key : (\A o \in DOMAIN fills : KeyOf(o) # key) => Given(fills, key) = 0
    BY FillsTold
<1>2. LedgerAfter(new, old, c, fills)
    BY DEF Meets
<1> HIDE DEF fills
<1>3. ASSUME NEW key \in DOMAIN old PROVE EntryTyped(key, new[key])
    <2>1. new[key] = [order |-> old[key].order, traded |-> old[key].traded + Given(fills, key),
                      cancelled |-> old[key].cancelled]
        BY <1>2 DEF LedgerAfter
    <2>2. EntryTyped(key, old[key])
        BY DEF Meets, LedgerTypes
    <2>3. old[key].order.quantity \in Int
        BY <2>2, QuantitiesAreInt DEF EntryTyped, SymbolOrder
    <2>4. CASE \E o \in DOMAIN fills : KeyOf(o) = key
        <3>1. PICK o \in DOMAIN fills : KeyOf(o) = key
            BY <2>4
        <3>2. Given(fills, key) \in Int /\ Given(fills, key) <= o.quantity
            BY <1>1, <3>1
        <3>3. o.quantity = old[key].order.quantity - old[key].traded
            BY <1>1, <3>1 DEF Meets, AgreesWith, RestsAs
        <3> QED BY <2>1, <2>2, <2>3, <3>2, <3>3 DEF EntryTyped
    <2>5. CASE ~\E o \in DOMAIN fills : KeyOf(o) = key
        <3>1. Given(fills, key) = 0
            BY <1>1, <2>5
        <3> QED BY <2>1, <2>2, <2>3, <3>1 DEF EntryTyped
    <2> QED BY <2>4, <2>5
<1>4. EntryTyped(KeyOf(c), new[KeyOf(c)])
    <2>1. new[KeyOf(c)] = [order |-> c, traded |-> SumFunction(fills), cancelled |-> FALSE]
        BY <1>2 DEF LedgerAfter
    <2>2. c \in SymbolOrder /\ c.quantity \in Int
        BY DEF Meets, Entering
    <2> QED BY <1>1, <2>1, <2>2 DEF EntryTyped
<1> QED BY <1>2, <1>3, <1>4 DEF LedgerTypes, LedgerAfter

\* The order that was reduced or left alone is owed what it rests with.
LEMMA LeftIsOwed ==
    ASSUME NEW book, NEW c, NEW old, NEW new, Meets(book, c, old, new),
           NEW r \in LeftAfter(book.resting, Fills(book.resting, c))
    PROVE  /\ KeyOf(r) \in DOMAIN old /\ RestsAs(r, c.symbol, new[KeyOf(r)])
           /\ ~new[KeyOf(r)].cancelled
<1> DEFINE fills == Fills(book.resting, c)
<1>1. /\ DOMAIN fills \subseteq book.resting /\ book.resting \subseteq Order /\ IsFiniteSet(DOMAIN fills)
      /\ \A o \in DOMAIN fills : fills[o] \in Int /\ fills[o] > 0 /\ fills[o] <= o.quantity
      /\ \A o \in DOMAIN fills : Given(fills, KeyOf(o)) = fills[o]
      /\ \A key : (\A o \in DOMAIN fills : KeyOf(o) # key) => Given(fills, key) = 0
    BY FillsTold
<1>2. LedgerAfter(new, old, c, fills) /\ r \in LeftAfter(book.resting, fills)
    BY DEF Meets
<1> HIDE DEF fills
<1>3. \E o \in book.resting :
          /\ SameOrder(r, o) /\ r.quantity \in Int /\ r.quantity > 0
          /\ r.quantity = o.quantity - Given(fills, KeyOf(o)) /\ Given(fills, KeyOf(o)) \in Int
    <2>1. CASE r \in ReducedBy(fills)
        <3>1. \A q \in ReducedBy(fills) : \E o \in DOMAIN fills :
                 /\ o \notin FilledBy(fills)
                 /\ q \in Order /\ q.sequence = o.sequence /\ q.quantity = o.quantity - fills[o]
                 /\ KeyOf(q) = KeyOf(o) /\ q.side = o.side /\ q.price = o.price
            <4>1. DOMAIN fills \subseteq Order /\ \A o \in DOMAIN fills : fills[o] \in Int
                BY <1>1
            <4> QED BY <1>1, <4>1, ReducedFacts
        <3>2. PICK o \in DOMAIN fills :
                 /\ o \notin FilledBy(fills)
                 /\ r.sequence = o.sequence /\ r.quantity = o.quantity - fills[o]
                 /\ KeyOf(r) = KeyOf(o) /\ r.side = o.side /\ r.price = o.price
            BY <2>1, <3>1
        <3>3. fills[o] # o.quantity /\ o.quantity \in Int /\ fills[o] \in Int /\ fills[o] <= o.quantity
            BY <1>1, <3>2 DEF FilledBy, Order
        <3> QED BY <1>1, <3>2, <3>3 DEF SameOrder
    <2>2. CASE r \in book.resting \ DOMAIN fills
        <3>1. SoundBook(book) /\ KeysTrue(book) /\ RestsAs(r, c.symbol, old[KeyOf(r)])
            BY <2>2 DEF Meets, AgreesWith
        <3>2. \A o \in DOMAIN fills : KeyOf(o) # KeyOf(r)
            BY <1>1, <2>2, <3>1, OneOrderPerKey
        <3>3. Given(fills, KeyOf(r)) = 0
            BY <1>1, <3>2
        <3>4. r.quantity \in Int
            BY <1>1, <2>2 DEF Order
        <3> QED BY <2>2, <3>1, <3>3, <3>4 DEF SameOrder, RestsAs
    <2> QED BY <1>2, <2>1, <2>2 DEF LeftAfter
<1>4. PICK o \in book.resting :
          /\ SameOrder(r, o) /\ r.quantity \in Int /\ r.quantity > 0
          /\ r.quantity = o.quantity - Given(fills, KeyOf(o)) /\ Given(fills, KeyOf(o)) \in Int
    BY <1>3
<1>5. /\ KeyOf(o) \in DOMAIN old /\ RestsAs(o, c.symbol, old[KeyOf(o)]) /\ ~old[KeyOf(o)].cancelled
      /\ EntryTyped(KeyOf(o), old[KeyOf(o)])
    BY DEF Meets, AgreesWith, LedgerTypes
<1>6. new[KeyOf(o)] = [order |-> old[KeyOf(o)].order, traded |-> old[KeyOf(o)].traded + Given(fills, KeyOf(o)),
                       cancelled |-> old[KeyOf(o)].cancelled]
    BY <1>2, <1>5 DEF LedgerAfter
<1>7. old[KeyOf(o)].order.quantity \in Int /\ old[KeyOf(o)].traded \in Int
    BY <1>5, QuantitiesAreInt DEF EntryTyped, SymbolOrder
<1> QED BY <1>4, <1>5, <1>6, <1>7 DEF SameOrder, RestsAs

\* The book that the order leaves agrees with the new ledger.
LEMMA MetBookAgrees ==
    ASSUME NEW book, NEW c, NEW old, NEW new, Meets(book, c, old, new)
    PROVE  AgreesWith(AfterNewOrder(book, c), c.symbol, new)
<1> DEFINE fills == Fills(book.resting, c)
           rest == LeftAfter(book.resting, fills)
           left == c.quantity - SumFunction(fills)
           new1 == Newcomer(c, left, book.nextSequence)
           after == AfterNewOrder(book, c)
<1>1. SoundBook(book) /\ KeysTrue(book) /\ Entering(c) /\ book \in Book
    BY DEF Meets, AgreesWith, SoundBook
<1>2. SoundBook(after)
    BY <1>1, NewOrderSound
<1>3. \A o \in book.resting : KeyOf(o) \in DOMAIN old /\ KeyOf(o) # KeyOf(c)
    BY DEF Meets, AgreesWith
<1>4. KeysTrue(after)
    BY <1>1, <1>3, NewOrderKeys
<1>5. after = AfterFills(book, c, fills)
    BY <1>1, AfterNewOrderIs
<1>6. after.resting = IF Comes(c, fills) THEN rest \cup {new1} ELSE rest
    BY <1>5 DEF AfterFills
<1>7. LedgerAfter(new, old, c, fills)
    BY DEF Meets
<1>8. \A r \in rest : KeyOf(r) \in DOMAIN old /\ RestsAs(r, c.symbol, new[KeyOf(r)]) /\ ~new[KeyOf(r)].cancelled
    BY LeftIsOwed
<1>9. RemainOf(rest, book.resting, FilledBy(fills))
    BY <1>1, RemainAfterFills
<1>10. /\ DOMAIN fills \subseteq book.resting /\ SumFunction(fills) \in Int
       /\ \A o \in DOMAIN fills : fills[o] \in Int /\ fills[o] > 0
       /\ \A o \in DOMAIN fills : Given(fills, KeyOf(o)) = fills[o]
       /\ \A key : (\A o \in DOMAIN fills : KeyOf(o) # key) => Given(fills, key) = 0
    BY FillsTold
<1> HIDE DEF fills, rest, after
<1>11. new[KeyOf(c)] = [order |-> c, traded |-> SumFunction(fills), cancelled |-> FALSE]
       /\ DOMAIN new = DOMAIN old \cup {KeyOf(c)}
    BY <1>7 DEF LedgerAfter
<1>12. KeyOf(new1) = KeyOf(c) /\ new1.side = c.side /\ new1.price = c.price /\ new1.quantity = left
    BY DEF Newcomer, KeyOf
<1> HIDE DEF new1
<1>13. Comes(c, fills) => RestsAs(new1, c.symbol, new[KeyOf(new1)]) /\ ~new[KeyOf(new1)].cancelled
    BY <1>1, <1>10, <1>11, <1>12 DEF Comes, RestsAs, Entering
<1>14. \A r \in after.resting :
          /\ KeyOf(r) \in DOMAIN new /\ RestsAs(r, c.symbol, new[KeyOf(r)])
          /\ ~new[KeyOf(r)].cancelled
    <2>1. \A r \in rest : KeyOf(r) \in DOMAIN new
        BY <1>8, <1>11
    <2>2. KeyOf(new1) \in DOMAIN new
        BY <1>11, <1>12
    <2> QED BY <1>6, <1>8, <1>13, <2>1, <2>2
<1>15. ASSUME NEW key \in DOMAIN new, new[key].order.symbol = c.symbol, IsOwed(new[key])
       PROVE  \E r \in after.resting : KeyOf(r) = key
    <2>1. CASE key = KeyOf(c)
        <3>1. left > 0 /\ c.price # 0
            BY <1>11, <1>15, <2>1 DEF IsOwed
        <3>2. new1 \in after.resting
            BY <1>6, <3>1 DEF Comes
        <3> QED BY <1>12, <2>1, <3>2
    <2>2. CASE key # KeyOf(c)
        <3>1. key \in DOMAIN old
            BY <1>11, <2>2
        <3>2. new[key] = [order |-> old[key].order, traded |-> old[key].traded + Given(fills, key),
                          cancelled |-> old[key].cancelled]
            BY <1>7, <3>1 DEF LedgerAfter
        <3>3. EntryTyped(key, old[key])
            BY <3>1 DEF Meets, LedgerTypes
        <3>4. old[key].order.quantity \in Int /\ old[key].traded \in Int
            BY <3>3, QuantitiesAreInt DEF EntryTyped, SymbolOrder
        <3>5. Given(fills, key) \in Int /\ Given(fills, key) >= 0
            BY <1>10
        <3>6. IsOwed(old[key]) /\ old[key].order.symbol = c.symbol
            BY <1>15, <3>2, <3>4, <3>5 DEF IsOwed
        <3>7. PICK o \in book.resting : KeyOf(o) = key
            BY <3>1, <3>6 DEF Meets, AgreesWith
        <3>8. o \notin FilledBy(fills)
            <4>1. ASSUME o \in FilledBy(fills) PROVE FALSE
                <5>1. fills[o] = o.quantity /\ o \in DOMAIN fills
                    BY <4>1 DEF FilledBy
                <5>2. o.quantity = old[key].order.quantity - old[key].traded
                    BY <3>7 DEF Meets, AgreesWith, RestsAs
                <5>3. Given(fills, key) = fills[o]
                    BY <1>10, <3>7, <5>1
                <5>4. new[key].order.quantity - new[key].traded = 0
                    BY <3>2, <3>4, <3>5, <5>1, <5>2, <5>3
                <5> QED BY <1>15, <5>4 DEF IsOwed
            <4> QED BY <4>1
        <3>9. \E r \in rest : KeyOf(r) = key
            BY <1>9, <3>7, <3>8 DEF RemainOf, SameOrder
        <3> QED BY <1>6, <3>9
    <2> QED BY <2>1, <2>2
<1> QED BY <1>2, <1>4, <1>14, <1>15 DEF AgreesWith, after

\* The order of another symbol is as it was.
LEMMA OtherEntry ==
    ASSUME NEW book, NEW c, NEW old, NEW new, Meets(book, c, old, new),
           NEW key \in DOMAIN old, old[key].order.symbol # c.symbol
    PROVE  new[key] = old[key]
<1> DEFINE fills == Fills(book.resting, c)
<1>1. /\ DOMAIN fills \subseteq book.resting
      /\ (\A o \in DOMAIN fills : KeyOf(o) # key) => Given(fills, key) = 0
    BY FillsTold
<1>2. LedgerAfter(new, old, c, fills)
    BY DEF Meets
<1> HIDE DEF fills
<1>3. \A o \in book.resting : KeyOf(o) # key
    BY DEF Meets, AgreesWith, RestsAs
<1>4. Given(fills, key) = 0
    BY <1>1, <1>3
<1>5. EntryTyped(key, old[key])
    BY DEF Meets, LedgerTypes
<1>6. new[key] = [order |-> old[key].order, traded |-> old[key].traded + Given(fills, key),
                  cancelled |-> old[key].cancelled]
    BY <1>2 DEF LedgerAfter
<1>7. old[key].traded + Given(fills, key) = old[key].traded
    BY <1>4, <1>5 DEF EntryTyped
<1> QED BY <1>5, <1>6, <1>7 DEF EntryTyped

LEMMA OtherBooksAgree ==
    ASSUME NEW book, NEW c, NEW old, NEW new, Meets(book, c, old, new),
           NEW other, NEW s, s # c.symbol, AgreesWith(other, s, old)
    PROVE  AgreesWith(other, s, new)
<1>1. DOMAIN new = DOMAIN old \cup {KeyOf(c)} /\ new[KeyOf(c)].order = c
    BY DEF Meets, LedgerAfter
<1>2. \A key \in DOMAIN old : old[key].order.symbol = s => new[key] = old[key]
    BY OtherEntry
<1>3. ASSUME NEW o \in other.resting
      PROVE  /\ KeyOf(o) \in DOMAIN new /\ RestsAs(o, s, new[KeyOf(o)])
             /\ ~new[KeyOf(o)].cancelled
    <2>1. KeyOf(o) \in DOMAIN old /\ RestsAs(o, s, old[KeyOf(o)]) /\ ~old[KeyOf(o)].cancelled
        BY DEF AgreesWith
    <2>2. new[KeyOf(o)] = old[KeyOf(o)]
        BY <1>2, <2>1 DEF RestsAs
    <2> QED BY <1>1, <2>1, <2>2
<1>4. ASSUME NEW key \in DOMAIN new, new[key].order.symbol = s, IsOwed(new[key])
      PROVE  \E o \in other.resting : KeyOf(o) = key
    <2>1. key \in DOMAIN old
        BY <1>1, <1>4
    <2>2. new[key].order = old[key].order
        BY <2>1 DEF Meets, LedgerAfter
    <2>3. new[key] = old[key]
        BY <1>2, <1>4, <2>1, <2>2
    <2> QED BY <1>4, <2>1, <2>3 DEF AgreesWith
<1> QED BY <1>3, <1>4 DEF AgreesWith

LEMMA NewOrderAccounts ==
    ASSUME NEW bs, SoundEngine(bs), NEW old, Accounting(bs, old, {}), NEW c, NEW new,
           Meets(BookOf(bs, c.symbol).book, c, old, new), NEW r,
           r.state.book = AfterNewOrder(BookOf(bs, c.symbol).book, c)
    PROVE  Accounting(WithBook(bs, c.symbol, r), new, {})
<1> DEFINE book == BookOf(bs, c.symbol).book
           more == WithBook(bs, c.symbol, r)
<1>1. Meets(book, c, old, new) /\ r.state.book = AfterNewOrder(book, c)
    OBVIOUS
<1> HIDE DEF book
<1>2. /\ DOMAIN more = DOMAIN bs \cup {c.symbol} /\ more[c.symbol] = r.state
      /\ \A s \in DOMAIN bs : s # c.symbol => more[s] = bs[s]
    BY DEF WithBook
<1> HIDE DEF more
<1>3. LedgerTypes(new)
    BY <1>1, LedgerStaysTyped
<1>4. AgreesWith(more[c.symbol].book, c.symbol, new)
    BY <1>1, <1>2, MetBookAgrees
<1>5. ASSUME NEW s \in DOMAIN bs, s # c.symbol PROVE AgreesWith(more[s].book, s, new)
    <2>1. AgreesWith(bs[s].book, s, old)
        <3>1. AgreesWith(BookOf(bs, s).book, s, old)
            BY AgreeingBook
        <3> QED BY <3>1 DEF BookOf
    <2>2. AgreesWith(bs[s].book, s, new)
        BY <1>1, <1>5, <2>1, OtherBooksAgree
    <2> QED BY <1>2, <1>5, <2>2
<1>6. ASSUME NEW key \in DOMAIN new, IsOwed(new[key]) PROVE new[key].order.symbol \in DOMAIN more
    <2>1. DOMAIN new = DOMAIN old \cup {KeyOf(c)} /\ new[KeyOf(c)].order = c
          /\ \A k \in DOMAIN old : new[k].order = old[k].order
        BY <1>1 DEF Meets, LedgerAfter
    <2>2. CASE new[key].order.symbol = c.symbol
        BY <1>2, <2>2
    <2>3. CASE new[key].order.symbol # c.symbol
        <3>1. key \in DOMAIN old /\ old[key].order.symbol # c.symbol
            BY <2>1, <2>3
        <3>2. new[key] = old[key]
            BY <1>1, <3>1, OtherEntry
        <3>3. old[key].order.symbol \in DOMAIN bs
            BY <1>6, <3>1, <3>2 DEF Accounting, OwedRests
        <3> QED BY <1>2, <3>2, <3>3
    <2> QED BY <2>2, <2>3
<1>7. \A s \in DOMAIN more : AgreesWith(more[s].book, s, new)
    BY <1>2, <1>4, <1>5
<1>8. Accounting(more, new, {})
    BY <1>3, <1>6, <1>7, AgreeingBooks
<1> QED BY <1>8 DEF more

\* The trades of a new order are legal: its makers are of its symbol, of another
\* user and the other side, within its limit, and they set the price.
LegalTrade(line, c, entries) ==
    /\ {line.buyer, line.seller} \subseteq DOMAIN entries
    /\ KeyOf(c) \in {line.buyer, line.seller}
    /\ LET buy == entries[line.buyer].order
           sell == entries[line.seller].order
       IN  /\ line.price = (IF line.buyer = KeyOf(c) THEN sell ELSE buy).price
           /\ buy.side = "Buy" /\ sell.side = "Sell"
           /\ buy.symbol = sell.symbol
           /\ buy.userId # sell.userId
           /\ buy.price = 0 \/ line.price <= buy.price
           /\ sell.price = 0 \/ line.price >= sell.price

LEMMA NewTradesLegal ==
    ASSUME NEW book, NEW c, NEW old, NEW new, Meets(book, c, old, new), NEW seq,
           LinesAre(seq, c, TradeLines(book.resting, c)),
           NEW j \in 1..Len(seq), seq[j].type = "T"
    PROVE  LegalTrade(seq[j], c, new)
<1> DEFINE fills == Fills(book.resting, c)
           makers == InOrder(DOMAIN fills)
<1>1. SoundBook(book) /\ Entering(c)
    BY DEF Meets, AgreesWith
<1>2. /\ Len(makers) \in Nat
      /\ \A i \in 1..Len(makers) : /\ makers[i] \in DOMAIN fills
                                      /\ seq[i + 1] = TradeLine(c, makers[i], fills[makers[i]])
      /\ \A i \in 1..Len(seq) : seq[i].type = "T" => i - 1 \in 1..Len(makers)
      /\ Len(seq) \in Nat
    BY <1>1, TradePlaces
<1>3. DOMAIN fills \subseteq Eligible(book.resting, c)
    BY <1>1, FillsFacts DEF FillsWell
<1>4. LedgerAfter(new, old, c, fills)
    BY DEF Meets
<1> HIDE DEF fills, makers
<1>5. \E o \in DOMAIN fills : seq[j] = TradeLine(c, o, fills[o])
    <2> DEFINE i == j - 1
    <2>1. i \in 1..Len(makers) /\ i + 1 = j
        BY <1>2
    <2> HIDE DEF i
    <2> QED BY <1>2, <2>1
<1>6. PICK o \in DOMAIN fills : seq[j] = TradeLine(c, o, fills[o])
    BY <1>5
<1>7. /\ o \in book.resting /\ o.side = Opposite(c.side) /\ o.userId # c.userId
      /\ c.price = 0 \/ ~Better(c.side, o.price, c.price)
    BY <1>3 DEF Eligible, Opposing
<1>8. KeyOf(o) \in DOMAIN old /\ RestsAs(o, c.symbol, old[KeyOf(o)]) /\ EntryTyped(KeyOf(o), old[KeyOf(o)])
    BY <1>7 DEF Meets, AgreesWith, LedgerTypes
<1>9. /\ KeyOf(o) \in DOMAIN new /\ KeyOf(c) \in DOMAIN new
      /\ new[KeyOf(o)].order = old[KeyOf(o)].order /\ new[KeyOf(c)].order = c
    BY <1>4, <1>8 DEF LedgerAfter
<1> DEFINE mine == new[KeyOf(o)].order
<1>10. mine.userId = o.userId
    <2>1. KeyOf(mine) = KeyOf(o)
        BY <1>8, <1>9 DEF EntryTyped
    <2> QED BY <2>1 DEF KeyOf
<1>11. mine.symbol = c.symbol /\ mine.side = o.side /\ mine.price = o.price /\ o.price \in Int
    <2>1. o.price \in Int
        BY <1>1, <1>7 DEF SoundBook, Book, Order
    <2> QED BY <1>8, <1>9, <2>1 DEF RestsAs
<1>12. /\ seq[j].price = o.price
       /\ c.side = "Buy" => seq[j].buyer = KeyOf(c) /\ seq[j].seller = KeyOf(o)
       /\ c.side # "Buy" => seq[j].buyer = KeyOf(o) /\ seq[j].seller = KeyOf(c)
       /\ KeyOf(o) # KeyOf(c)
    BY <1>6, <1>7, TradeLineSays DEF KeyOf
<1> HIDE DEF mine
<1>13. c.side \in Side /\ c.price \in Int
    BY <1>1 DEF Entering
<1>14. CASE c.side = "Buy"
    BY <1>7, <1>9, <1>10, <1>11, <1>12, <1>13, <1>14 DEF LegalTrade, mine, Opposite, Better
<1>15. CASE c.side = "Sell"
    BY <1>7, <1>9, <1>10, <1>11, <1>12, <1>13, <1>15 DEF LegalTrade, mine, Opposite, Better
<1> QED BY <1>13, <1>14, <1>15 DEF Side

----------------------------------------------------------------------------
(* The ledger invariant, step by step. *)

LEMMA TradesLegalIs ==
    TradesAreLegal <=> \A i \in 1..Len(lines) : lines[i].type = "T" => LegalTrade(lines[i], command, ledger)
BY DEF TradesAreLegal, LegalTrade

\* With no line, or none but acknowledgements and tops, no trade is printed.
LEMMA NoTrades ==
    ASSUME \A i \in 1..Len(lines) : lines[i].type # "T"
    PROVE  TradesAreLegal
BY DEF TradesAreLegal

LEMMA InitAccounts == AuditInit => LedgerInv
<1> SUFFICES ASSUME AuditInit PROVE LedgerInv
    OBVIOUS
<1>1. books = NoBooks /\ ledger = <<>> /\ lines = <<>> /\ ~Cancels
    BY DEF AuditInit, Init, Cancels, Idle
<1>2. DOMAIN NoBooks = {} /\ DOMAIN <<>> = {} /\ Held = NoBooks /\ Leaving = {}
    BY <1>1 DEF NoBooks, Held, Leaving
<1>3. LedgerTypes(<<>>)
    BY <1>2 DEF LedgerTypes
<1>4. Accounting(Held, ledger, Leaving)
    BY <1>1, <1>2, <1>3 DEF Accounting, RestingIsOwed, OwedRests, NoneCancelled
<1> QED BY <1>1, <1>2, <1>4, NoTrades DEF LedgerInv

LEMMA FlushAccounts ==
    ASSUME LoopingInv, LedgerInv, Flush, ledger' = <<>>, before' = books
    PROVE  LedgerInv'
<1>1. Idle /\ books' = NoBooks /\ ledger' = <<>> /\ lines' = <<>> /\ ~Cancels'
    BY DEF Flush, Cancels, Idle, FlushCommand, LoopingInv, EngineTypes
<1>2. DOMAIN NoBooks = {} /\ DOMAIN <<>> = {} /\ Held' = NoBooks /\ Leaving' = {}
    BY <1>1 DEF NoBooks, Held, Leaving
<1>3. LedgerTypes(<<>>)
    BY <1>2 DEF LedgerTypes
<1>4. Accounting(Held, ledger, Leaving)'
    BY <1>1, <1>2, <1>3 DEF Accounting, RestingIsOwed, OwedRests, NoneCancelled
<1>5. TradesAreLegal'
    BY <1>1 DEF TradesAreLegal
<1> QED BY <1>1, <1>2, <1>4, <1>5 DEF LedgerInv

LEMMA IdleHeld == Idle => Held = books /\ Leaving = {}
BY DEF Held, Leaving, Cancels

LEMMA OrderAccounts ==
    ASSUME LoopingInv, LedgerInv, NEW c \in SymbolOrder, AuditedNew(c)
    PROVE  LedgerInv'
<1> DEFINE b == BookOf(books, c.symbol)
           r == Publishing(b, c, AfterNewOrder(b.book, c))
<1>1. /\ SoundEntry(b) /\ SoundResult(r) /\ Entering(c) /\ c \in Commands /\ c.symbol \in Symbols
      /\ Idle /\ lines = <<>> /\ pending' = {} /\ command' = c /\ before' = books
      /\ books' = WithBook(books, c.symbol, r) /\ lines' = r.lines
    BY OrderServed
<1>2. ledger' = Booked(Entered(ledger, c), lines') /\ KeyOf(c) \notin DOMAIN ledger
    BY DEF AuditedNew
<1>3. Accounting(books, ledger, {}) /\ SoundEngine(books)
    BY <1>1, IdleHeld DEF LedgerInv, LoopingInv, EngineTypes
<1>4. AgreesWith(b.book, c.symbol, ledger) /\ LedgerTypes(ledger)
    BY <1>3, AgreeingBook DEF Accounting
<1>5. ServedBook(b.book, c) = AfterNewOrder(b.book, c) /\ TradesOf(b, c) = TradeLines(b.book.resting, c)
    BY <1>1 DEF ServedBook, TradesOf, Entering
<1>6. LinesAre(lines', c, TradeLines(b.book.resting, c))
    BY <1>1, <1>5, PublishedLines
<1>7. r.state.book = AfterNewOrder(b.book, c)
    BY DEF Publishing
<1> DEFINE book == b.book
<1>8. SoundBook(book) /\ \A o \in book.resting : KeyOf(o) # KeyOf(c)
    BY <1>2, <1>4 DEF AgreesWith
<1> HIDE DEF r
<1>9. LedgerAfter(ledger', ledger, c, Fills(book.resting, c))
    BY <1>1, <1>2, <1>4, <1>6, <1>8, LedgerBooks
<1>10. Meets(book, c, ledger, ledger')
    BY <1>1, <1>2, <1>4, <1>9 DEF Meets
<1>11. Accounting(books', ledger', {})
    BY <1>1, <1>3, <1>7, <1>10, NewOrderAccounts
<1>12. \A i \in 1..Len(lines') : lines'[i].type = "T" => LegalTrade(lines'[i], c, ledger')
    BY <1>6, <1>10, NewTradesLegal
<1>13. TradesAreLegal'
    BY <1>1, <1>12 DEF TradesAreLegal, LegalTrade
<1>14. ~Cancels'
    BY <1>1 DEF Cancels, Entering
<1>15. Held' = books' /\ Leaving' = {}
    BY <1>14 DEF Held, Leaving
<1> QED BY <1>11, <1>13, <1>14, <1>15 DEF LedgerInv

\* A cancel begins: the ledger marks its order, if there is one.
LEMMA CancelMarks ==
    ASSUME NEW bs, NEW old, Accounting(bs, old, {}), NEW key
    PROVE  LET new == IF key \in DOMAIN old THEN [old EXCEPT ![key].cancelled = TRUE] ELSE old
           IN  /\ Accounting(bs, new, {key})
               /\ DOMAIN new = DOMAIN old /\ (key \in DOMAIN old => new[key].cancelled)
<1>1. CASE key \notin DOMAIN old
    BY <1>1 DEF Accounting, NoneCancelled
<1>2. CASE key \in DOMAIN old
    <2> DEFINE new == [old EXCEPT ![key].cancelled = TRUE]
               mark == [old[key] EXCEPT !.cancelled = TRUE]
    <2>1. LedgerTypes(old) /\ EntryTyped(key, old[key])
        BY <1>2 DEF Accounting, LedgerTypes
    <2>2. mark = [order |-> old[key].order, traded |-> old[key].traded, cancelled |-> TRUE]
        <3>1. PICK e : e = old[key]
            OBVIOUS
        <3>2. e = [order |-> e.order, traded |-> e.traded, cancelled |-> e.cancelled]
            BY <2>1, <3>1 DEF EntryTyped
        <3>3. \A t : [e EXCEPT !.cancelled = t] = [order |-> e.order, traded |-> e.traded, cancelled |-> t]
            BY ONLY <3>2
        <3> QED BY <3>1, <3>3 DEF mark
    <2>3. /\ DOMAIN new = DOMAIN old /\ new = [k \in DOMAIN new |-> new[k]]
          /\ new[key] = mark /\ \A k \in DOMAIN old : k # key => new[k] = old[k]
        BY <1>2
    <2> HIDE DEF new, mark
    <2>4. EntryTyped(key, new[key]) /\ new[key].order = old[key].order
          /\ new[key].traded = old[key].traded /\ new[key].cancelled
        BY <2>1, <2>2, <2>3 DEF EntryTyped
    <2>5. LedgerTypes(new)
        BY <2>1, <2>3, <2>4 DEF LedgerTypes
    <2>6. \A k \in DOMAIN old : new[k].order = old[k].order /\ new[k].traded = old[k].traded
        BY <2>3, <2>4
    <2>7. RestingIsOwed(bs, new)
        BY <2>3, <2>6 DEF Accounting, RestingIsOwed, RestsAs
    <2>8. OwedRests(bs, new)
        <3>1. \A k \in DOMAIN new : IsOwed(new[k]) => IsOwed(old[k])
            BY <2>3, <2>4 DEF IsOwed
        <3> QED BY <2>3, <2>6, <3>1 DEF Accounting, OwedRests
    <2>9. NoneCancelled(bs, new, {key})
        BY <2>3 DEF Accounting, RestingIsOwed, NoneCancelled
    <2>10. Accounting(bs, new, {key})
        BY <2>5, <2>7, <2>8, <2>9 DEF Accounting
    <2> QED BY <1>2, <2>3, <2>4, <2>10 DEF new
<1> QED BY <1>1, <1>2

LEMMA CancelStartAccounts ==
    ASSUME LoopingInv, LedgerInv, NEW c \in Cancel, AuditedCancel(c)
    PROVE  LedgerInv'
<1>1. /\ Idle /\ books' = books /\ before' = books /\ command' = c
      /\ pending' = DOMAIN books /\ lines' = lines /\ lines = <<>>
    BY DEF AuditedCancel, StartCancel, LoopingInv, EngineTypes, Idle
<1>2. c # NoCommand /\ c.type = "Cancel"
    BY CancelIsCancelling, NoCommandIsNone DEF Cancelling
<1>3. Cancels' /\ Held' = books /\ Leaving' = {KeyOf(c)}
    BY <1>1, <1>2 DEF Cancels, Held, Leaving, Idle
<1>4. Accounting(books, ledger, {})
    BY <1>1, IdleHeld DEF LedgerInv
<1>5. ledger' = IF KeyOf(c) \in DOMAIN ledger THEN [ledger EXCEPT ![KeyOf(c)].cancelled = TRUE] ELSE ledger
    BY DEF AuditedCancel
<1>6. /\ Accounting(books, ledger', {KeyOf(c)}) /\ DOMAIN ledger' = DOMAIN ledger
      /\ KeyOf(c) \in DOMAIN ledger => ledger'[KeyOf(c)].cancelled
    BY <1>4, <1>5, CancelMarks
<1>7. TradesAreLegal'
    BY <1>1 DEF TradesAreLegal
<1> QED BY <1>3, <1>6, <1>7 DEF LedgerInv

\* A book's answer to a cancel: an acknowledgement, and no trade.
LEMMA CancelAnswer ==
    ASSUME LoopingInv, NEW s \in DOMAIN before, Cancels
    PROVE  LET more == Replies[s].lines
           IN  /\ more \in Seq(Line) /\ Len(more) >= 1 /\ more[1].type = "C"
               /\ \A i \in 2..Len(more) : more[i].type = "B"
<1>1. Cancelling(command) /\ SoundEntry(before[s])
    BY CancelCommands DEF LoopingInv, EngineTypes, SoundEngine, Cancels
<1>2. ServedBook(before[s].book, command) = AfterCancel(before[s].book, command)
      /\ TradesOf(before[s], command) = <<>>
    BY <1>1 DEF ServedBook, TradesOf, Cancelling
<1>3. Replies[s] = Publishing(before[s], command, ServedBook(before[s].book, command))
    BY <1>2 DEF Replies, Answers
<1>4. SoundResult(Replies[s]) /\ LinesAre(Replies[s].lines, command, <<>>)
    BY <1>1, <1>2, <1>3, PublishingSound, PublishedLines
<1>5. AckLine(command).type = "C"
    BY <1>1 DEF AckLine, Cancelling
<1> QED BY <1>4, <1>5 DEF SoundResult, LinesAre

LEMMA CancelStepAccounts ==
    ASSUME LoopingInv, LedgerInv, NEW s \in Symbols, CancelInBook(s), UNCHANGED <<ledger, before>>
    PROVE  LedgerInv'
<1> DEFINE more == Replies[s].lines
           n == Len(lines)
<1>1. /\ ~Idle /\ command.type = "Cancel" /\ LoopInv
      /\ s \in pending /\ s \in DOMAIN before /\ command' = command
      /\ lines' = lines \o more /\ pending' = pending \ {s}
    BY BookAnswers
<1>2. Cancels /\ Cancels' /\ Held' = Held /\ Leaving' = Leaving /\ ledger' = ledger /\ before' = before
    BY <1>1 DEF Cancels, Idle, Held, Leaving
<1>3. /\ more \in Seq(Line) /\ Len(more) >= 1 /\ more[1].type = "C"
      /\ \A i \in 2..Len(more) : more[i].type = "B"
    BY <1>1, <1>2, CancelAnswer
<1>4. lines \in Seq(Line) /\ n \in Nat /\ Len(more) \in Nat
    BY <1>3, LenProperties DEF LoopingInv, EngineTypes
<1> HIDE DEF more
<1>5. /\ Len(lines \o more) = n + Len(more)
      /\ \A i \in 1..n + Len(more) : (lines \o more)[i] = IF i <= n THEN lines[i] ELSE more[i - n]
    BY <1>3, <1>4, ConcatProperties
<1>6. /\ Len(lines') = n + Len(more) /\ \A i \in 1..n : lines'[i] = lines[i]
      /\ lines'[n + 1].type = "C" /\ \A i \in (n + 2)..Len(lines') : lines'[i].type = "B"
    <2>1. \A i \in 1..n : lines'[i] = lines[i]
        BY <1>1, <1>4, <1>5
    <2>2. lines'[n + 1] = more[1]
        BY <1>1, <1>3, <1>4, <1>5
    <2>3. ASSUME NEW i \in (n + 2)..Len(lines') PROVE lines'[i].type = "B"
        <3>1. i - n \in 2..Len(more) /\ lines'[i] = more[i - n]
            BY <1>1, <1>4, <1>5
        <3> QED BY <1>3, <3>1
    <2> QED BY <1>1, <1>3, <1>5, <2>1, <2>2, <2>3
<1> HIDE DEF n
<1>7. \A i \in 1..Len(lines') : i \in 1..n \/ i = n + 1 \/ i \in (n + 2)..Len(lines')
    BY <1>4, <1>6
<1>8. TradesAreLegal'
    <2>1. \A i \in 1..n : lines[i].type = "T" => LegalTrade(lines[i], command, ledger)
        BY TradesLegalIs DEF LedgerInv, n
    <2>2. \A i \in 1..Len(lines') : lines'[i].type = "T" => LegalTrade(lines'[i], command, ledger')
        BY <1>2, <1>6, <1>7, <2>1
    <2> QED BY <1>1, <2>2 DEF TradesAreLegal, LegalTrade
<1> QED BY <1>2, <1>8 DEF LedgerInv

----------------------------------------------------------------------------
(* When all books have answered. *)

\* Each book is as the cancel leaves it.
LEMMA BooksAnswered ==
    ASSUME LoopingInv, LedgerInv, Cancels, pending = {}
    PROVE  /\ DOMAIN books = DOMAIN before /\ Accounting(before, ledger, {KeyOf(command)})
           /\ \A s \in DOMAIN books :
                 /\ SoundBook(before[s].book) /\ KeysTrue(books[s].book)
                 /\ books[s].book.resting = { o \in before[s].book.resting : KeyOf(o) # KeyOf(command) }
<1>1. Cancelling(command) /\ LoopInv /\ SoundEngine(before)
    BY CancelCommands DEF LoopingInv, EngineTypes, Cancels, Progress
<1>2. Accounting(before, ledger, {KeyOf(command)})
    BY DEF LedgerInv, Held, Leaving
<1>3. ASSUME NEW s \in DOMAIN before
      PROVE  /\ SoundBook(before[s].book) /\ KeysTrue(books[s].book)
             /\ books[s].book.resting = { o \in before[s].book.resting : KeyOf(o) # KeyOf(command) }
    <2>1. SoundBook(before[s].book) /\ KeysTrue(before[s].book)
        BY <1>1, <1>2 DEF SoundEngine, SoundEntry, Accounting
    <2>2. books[s].book = AfterCancel(before[s].book, command)
        <3>1. books[s] = Replies[s].state
            BY <1>1 DEF LoopInv
        <3>2. Replies[s] = Publishing(before[s], command, AfterCancel(before[s].book, command))
            BY DEF Replies, Answers
        <3> QED BY <3>1, <3>2 DEF Publishing
    <2> QED BY <1>1, <2>1, <2>2, CancelTakes
<1> QED BY <1>1, <1>2, <1>3 DEF LoopInv

\* Then the ledger agrees with the books, without exception.
LEMMA AllAnsweredAccounts ==
    ASSUME LoopingInv, LedgerInv, Idle \/ pending = {}
    PROVE  Accounting(books, ledger, {})
<1>1. CASE ~Cancels
    BY <1>1 DEF LedgerInv, Held, Leaving
<1>2. CASE Cancels
    <2> DEFINE key == KeyOf(command)
    <2>1. /\ DOMAIN books = DOMAIN before /\ Accounting(before, ledger, {key})
          /\ \A s \in DOMAIN books :
                /\ SoundBook(before[s].book) /\ KeysTrue(books[s].book)
                /\ books[s].book.resting = { o \in before[s].book.resting : KeyOf(o) # key }
        BY <1>2, BooksAnswered DEF Cancels
    <2>2. key \in DOMAIN ledger => ledger[key].cancelled
        BY <1>2 DEF LedgerInv, Leaving
    <2> HIDE DEF key
    <2>3. RestingIsOwed(books, ledger)
        BY <2>1 DEF Accounting, RestingIsOwed
    <2>4. NoneCancelled(books, ledger, {})
        BY <2>1 DEF Accounting, NoneCancelled
    <2>5. OwedRests(books, ledger)
        <3> SUFFICES ASSUME NEW k \in DOMAIN ledger, IsOwed(ledger[k])
                     PROVE  /\ ledger[k].order.symbol \in DOMAIN books
                            /\ \E o \in books[ledger[k].order.symbol].book.resting : KeyOf(o) = k
            BY DEF OwedRests
        <3>1. k # key
            BY <2>2 DEF IsOwed
        <3>2. /\ ledger[k].order.symbol \in DOMAIN before
              /\ \E o \in before[ledger[k].order.symbol].book.resting : KeyOf(o) = k
            BY <2>1 DEF Accounting, OwedRests
        <3> QED BY <2>1, <3>1, <3>2
    <2> QED BY <2>1, <2>3, <2>4, <2>5 DEF Accounting
<1> QED BY <1>1, <1>2

LEMMA ReturnAccounts ==
    ASSUME LoopingInv, LedgerInv, Return, before' = NoBooks, UNCHANGED ledger
    PROVE  LedgerInv'
<1>1. /\ pending = {} /\ books' = books /\ command' = NoCommand /\ ledger' = ledger /\ lines' = <<>>
    BY DEF Return
<1>2. ~Cancels' /\ Held' = books /\ Leaving' = {}
    BY <1>1 DEF Cancels, Idle, Held, Leaving
<1>3. Accounting(books, ledger, {})
    BY <1>1, AllAnsweredAccounts
<1>4. TradesAreLegal'
    BY <1>1 DEF TradesAreLegal
<1> QED BY <1>1, <1>2, <1>3, <1>4 DEF LedgerInv

LEMMA NextAccounts == LoopingInv /\ LedgerInv /\ [AuditNext]_auditedVars => LedgerInv'
<1> SUFFICES ASSUME LoopingInv, LedgerInv, [AuditNext]_auditedVars PROVE LedgerInv'
    OBVIOUS
<1>1. CASE UNCHANGED auditedVars
    <2>1. Held' = Held /\ Leaving' = Leaving /\ ledger' = ledger
        BY <1>1 DEF auditedVars, Held, Leaving, Cancels, Idle
    <2>2. TradesAreLegal'
        BY <1>1 DEF auditedVars, LedgerInv, TradesAreLegal
    <2> QED BY <2>1, <2>2 DEF LedgerInv
<1>2. CASE Flush /\ ledger' = <<>> /\ before' = books
    BY <1>2, FlushAccounts
<1>3. CASE \E c \in SymbolOrder : AuditedNew(c)
    BY <1>3, OrderAccounts
<1>4. CASE \E c \in Cancel : AuditedCancel(c)
    BY <1>4, CancelStartAccounts
<1>5. CASE (\E s \in Symbols : CancelInBook(s)) /\ UNCHANGED <<ledger, before>>
    BY <1>5, CancelStepAccounts
<1>6. CASE Return /\ before' = NoBooks /\ UNCHANGED ledger
    BY <1>6, ReturnAccounts
<1> QED BY <1>1, <1>2, <1>3, <1>4, <1>5, <1>6 DEF AuditNext

\* The ledger, kept from the commands and the trades printed, and the books say
\* the same of every order, between any two steps of the engine.
THEOREM LedgerAgrees == AuditSpec => []LedgerInv
<1> QED BY EngineLoops, InitAccounts, NextAccounts, PTL DEF AuditSpec

\* Every trade line of processCommand joins the new order to an order of another
\* user, the other side and the same symbol, sent since the last flush, at the
\* resting order's price, which neither order excludes.
THEOREM TradesLegal == AuditSpec => []TradesAreLegal
<1>1. LedgerInv => TradesAreLegal
    BY DEF LedgerInv
<1> QED BY <1>1, LedgerAgrees, PTL

\* When the loop over books_ ends, the order of a cancel is gone from the one book
\* that had it, and every other order is where it was.
THEOREM CancelTakesItsOrder == AuditSpec => []CancelTakesOnlyItsOrder
<1>1. LoopingInv /\ LedgerInv => CancelTakesOnlyItsOrder
    <2> SUFFICES ASSUME LoopingInv, LedgerInv, Done, command.type = "Cancel"
                 PROVE  AllResting(books) = { x \in AllResting(before) : KeyOf(x[2]) # KeyOf(command) }
        BY DEF CancelTakesOnlyItsOrder
    <2>1. Cancels /\ pending = {}
        BY DEF Done, Cancels
    <2>2. /\ DOMAIN books = DOMAIN before
          /\ \A s \in DOMAIN books :
                books[s].book.resting = { o \in before[s].book.resting : KeyOf(o) # KeyOf(command) }
        BY <2>1, BooksAnswered
    <2>3. \A x : x \in AllResting(books) <=> x \in AllResting(before) /\ KeyOf(x[2]) # KeyOf(command)
        BY <2>2 DEF AllResting
    <2> QED BY <2>3 DEF AllResting
<1> QED BY <1>1, EngineLoops, LedgerAgrees, PTL

\* Over its whole life an order is traded and rests for exactly its quantity, at
\* its price and side in the book of its symbol only, and leaves by a full fill,
\* a cancel, or as a market order.
THEOREM EveryOrderIsAccounted == AuditSpec => []OrdersAccountedFor
<1>1. LoopingInv /\ LedgerInv => OrdersAccountedFor
    <2> SUFFICES ASSUME LoopingInv, LedgerInv, Done \/ Idle, NEW key \in DOMAIN ledger
                 PROVE  LET o == ledger[key].order
                            owed == o.quantity - ledger[key].traded
                            found == RestingOf(key)
                        IN  /\ owed >= 0 \/ ledger[key].traded = 0
                            /\ \A x \in found :
                                  /\ found = {x}
                                  /\ x[1] = o.symbol
                                  /\ x[2].quantity = owed
                                  /\ x[2].price = o.price /\ x[2].side = o.side
                            /\ found = {} <=> owed <= 0 \/ o.price = 0 \/ ledger[key].cancelled
        BY DEF OrdersAccountedFor
    <2> DEFINE e == ledger[key]
               owed == e.order.quantity - e.traded
               found == RestingOf(key)
    <2>1. Accounting(books, ledger, {}) /\ SoundEngine(books)
        BY AllAnsweredAccounts DEF Done, LoopingInv, EngineTypes
    <2>2. EntryTyped(key, e)
        BY <2>1 DEF Accounting, LedgerTypes
    <2>3. e.order.quantity \in Int /\ owed \in Int
        <3>1. e.order \in SymbolOrder /\ e.traded \in Int
            BY <2>2 DEF EntryTyped
        <3>2. e.order.quantity \in Int
            BY <3>1, QuantitiesAreInt DEF SymbolOrder
        <3> QED BY <3>1, <3>2
    <2>4. \A x : x \in found <=> \E s \in DOMAIN books : \E o \in books[s].book.resting : x = <<s, o>> /\ KeyOf(o) = key
        BY DEF RestingOf
    <2> HIDE DEF found
    <2>5. ASSUME NEW x \in found
          PROVE  /\ x[1] = e.order.symbol /\ x[2] \in books[x[1]].book.resting /\ x[1] \in DOMAIN books
                 /\ x = <<x[1], x[2]>> /\ KeyOf(x[2]) = key
                 /\ RestsAs(x[2], x[1], e) /\ ~e.cancelled
        <3>1. PICK s \in DOMAIN books : \E o \in books[s].book.resting : x = <<s, o>> /\ KeyOf(o) = key
            BY <2>4
        <3>2. PICK o \in books[s].book.resting : x = <<s, o>> /\ KeyOf(o) = key
            BY <3>1
        <3>3. RestsAs(o, s, e) /\ ~e.cancelled
            BY <2>1, <3>2 DEF Accounting, RestingIsOwed, NoneCancelled
        <3> QED BY <3>2, <3>3 DEF RestsAs
    <2>6. ASSUME NEW x \in found, NEW y \in found PROVE x = y
        <3>1. x[1] = y[1] /\ x[1] \in DOMAIN books
            BY <2>5
        <3>2. SoundBook(books[x[1]].book) /\ KeysTrue(books[x[1]].book)
            BY <2>1, <3>1 DEF Accounting, SoundEngine, SoundEntry
        <3>3. x[2] = y[2]
            BY <2>5, <3>1, <3>2, OneOrderPerKey
        <3> QED BY <2>5, <3>1, <3>3
    <2>7. IsOwed(e) => found # {}
        <3>1. ASSUME IsOwed(e) PROVE found # {}
            <4>1. PICK o \in books[e.order.symbol].book.resting : e.order.symbol \in DOMAIN books /\ KeyOf(o) = key
                BY <2>1, <3>1 DEF Accounting, OwedRests
            <4> QED BY <2>4, <4>1
        <3> QED BY <3>1
    <2>8. found # {} => owed > 0 /\ e.order.price # 0 /\ ~e.cancelled
        BY <2>5 DEF RestsAs
    <2>9. found = {} <=> owed <= 0 \/ e.order.price = 0 \/ e.cancelled
        BY <2>3, <2>7, <2>8 DEF IsOwed
    <2>10. \A x \in found :
              /\ found = {x} /\ x[1] = e.order.symbol /\ x[2].quantity = owed
              /\ x[2].price = e.order.price /\ x[2].side = e.order.side
        <3>1. \A x \in found : found = {x}
            BY <2>6
        <3> QED BY <2>5, <3>1 DEF RestsAs
    <2>11. owed >= 0 \/ e.traded = 0
        BY <2>2 DEF EntryTyped
    <2> QED BY <2>9, <2>10, <2>11 DEF found
<1> QED BY <1>1, EngineLoops, LedgerAgrees, PTL

====
