---- MODULE CommandParser ----
(***************************************************************************)
(* commandParser.cpp: what becomes of a line.  A line is the sequence of   *)
(* its trimmed tokens; of a token the model keeps its text and what stoi   *)
(* or stoll would read at its front: a number, or nothing.                 *)
(***************************************************************************)
EXTENDS EngineRules

CONSTANT IntMax      \* the largest int; stoi throws beyond it, stoll beyond Int64Max

ASSUME IntMaxIsPositive == IntMax \in Nat \ {0}

Text(t) == [text |-> t, number |-> <<>>]
Number(n) == [text |-> "number", number |-> <<n>>]

\* stoi (max = IntMax) or stoll (max = Int64Max) returns a number.
Reads(token, max) ==
    token.number # <<>> /\ -max - 1 <= token.number[1] /\ token.number[1] <= max

Invalid == NoCommand
Throws == [type |-> "Throws"]

\* N, userId, symbol, price, quantity, side, userOrderId
ParseNewOrder(line) ==
    IF /\ Reads(line[2], IntMax) /\ Reads(line[7], IntMax)
       /\ Reads(line[4], Int64Max) /\ Reads(line[5], Int64Max)
    THEN [type |-> "NewOrder", symbol |-> line[3].text,
          userId |-> line[2].number[1], userOrderId |-> line[7].number[1],
          price |-> line[4].number[1], quantity |-> line[5].number[1],
          side |-> IF line[6].text = "S" THEN "Sell" ELSE "Buy"]
    ELSE Throws

\* C, userId, userOrderId
ParseCancel(line) ==
    IF Reads(line[2], IntMax) /\ Reads(line[3], IntMax)
    THEN [type |-> "Cancel", userId |-> line[2].number[1],
          userOrderId |-> line[3].number[1], price |-> 0, quantity |-> 0, side |-> "Buy"]
    ELSE Throws

\* parseLineToCommand
ParseLine(line) ==
    LET Tagged(tag) == line # <<>> /\ line[1].text = tag
    IN  CASE Tagged("F") -> FlushCommand
          [] Tagged("N") /\ Len(line) = 7 -> ParseNewOrder(line)
          [] Tagged("C") /\ Len(line) = 3 -> ParseCancel(line)
          [] OTHER -> Invalid

====
