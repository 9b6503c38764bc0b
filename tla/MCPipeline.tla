---- MODULE MCPipeline ----
(* Lines of two users and two symbols, one datagram of each kind. *)
EXTENDS Pipeline

N(user, symbol, price, qty, sd, id) ==
    << Text("N"), Number(user), Text(symbol), Number(price), Number(qty), Text(sd), Number(id) >>
C(user, id) == << Text("C"), Number(user), Number(id) >>

BuyAndSell == << N(1, "IBM", 2, 1, "B", 1), N(2, "IBM", 0, 1, "S", 1) >>
OtherSymbol == << N(1, "VAL", 3, 2, "B", 12), <<>>, C(1, 12) >>
Cancelling == << C(1, 1) >>
FlushLine == << << Text("F"), Text("x") >> >>
TooFewTokens == << << Text("N"), Number(1) >> >>
NoNumber == << C(2, 12), << Text("C"), Number(1), Text("x") >> >>
TooLargeId == << C(99, 1) >>
Long == << N(2, "IBM", 3, 1, "S", 12), C(1, 12) >>

MCDatagrams == {BuyAndSell, OtherSymbol, Cancelling, FlushLine, TooFewTokens, NoNumber,
                TooLargeId, Long}
MCOversized == {Long}

====
