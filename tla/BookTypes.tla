---- MODULE BookTypes ----
(***************************************************************************)
(* The data the books work on (types.hpp, Order.hpp, OrderKey.hpp,         *)
(* TopOfBook.hpp) and the lines they put out, shared by the detailed book  *)
(* of SymbolOrderbook.tla and the abstract one of PriceTimeBook.tla.       *)
(* Output lines are records: their CSV wording is left out.                *)
(***************************************************************************)
EXTENDS PriceLadder

CONSTANTS
    Users,           \* user ids
    OrderIds,        \* user order ids, chosen by the users
    Prices,          \* prices of new orders; 0 makes a market order
    Quantities,      \* quantities of new orders; the parser lets any through
    Int64Max         \* the largest std::int64_t

ASSUME PricesAreInt == Prices \subseteq Int
ASSUME QuantitiesAreInt == Quantities \subseteq Int
ASSUME Int64MaxIsPositive == Int64Max \in Nat \ {0}

Key == Users \X OrderIds

Order == [userId : Users, userOrderId : OrderIds, side : Side,
          price : Int, quantity : Int, sequence : Nat]

TopOfBook == [valid : BOOLEAN, price : Int, totalQuantity : Int]
NoTop == [valid |-> FALSE, price |-> 0, totalQuantity |-> 0]

\* Command of types.hpp; a cancel leaves side, price and quantity at their
\* defaults.  The symbol selects the book and is not seen here.
NewOrder == [type : {"NewOrder"}, userId : Users, userOrderId : OrderIds,
             price : Prices, quantity : Quantities, side : Side]
Cancel == [type : {"Cancel"}, userId : Users, userOrderId : OrderIds,
           price : {0}, quantity : {0}, side : {"Buy"}]
NoCommand == [type |-> "Invalid"]

Line == [type : {"A", "C"}, userId : Users, userOrderId : OrderIds]
        \cup [type : {"T"}, price : Int, quantity : Int, buyer : Key, seller : Key]
        \cup [type : {"B"}, side : Side, top : TopOfBook]

\* Two's-complement wrap-around of a signed 64-bit result.
Int64(x) == ((x + Int64Max + 1) % (2 * (Int64Max + 1))) - (Int64Max + 1)

SmallerOf(x, y) == IF x <= y THEN x ELSE y

KeyOf(o) == <<o.userId, o.userOrderId>>

\* Mutant of TopEqual: the quantity does not count.
TopSamePrice(a, b) == a.valid = b.valid /\ (a.valid => a.price = b.price)

TopEqual(a, b) ==
    /\ a.valid = b.valid
    /\ a.valid => a.price = b.price /\ a.totalQuantity = b.totalQuantity

\* The B line of a side, if its top changed.
TopLine(sd, old, new) ==
    IF TopEqual(old, new) THEN <<>>
    ELSE << [type |-> "B", side |-> sd, top |-> new] >>

AckLine(c) ==
    [type |-> IF c.type = "NewOrder" THEN "A" ELSE "C",
     userId |-> c.userId, userOrderId |-> c.userOrderId]

\* emitTrade: the line names the buyer first; the price is the resting order's.
TradeLine(c, resting, qty) ==
    LET maker == KeyOf(resting)
        taker == KeyOf(c)
    IN  [type |-> "T", price |-> resting.price, quantity |-> qty,
         buyer |-> IF c.side = "Buy" THEN taker ELSE maker,
         seller |-> IF c.side = "Buy" THEN maker ELSE taker]

====
