SPECIFICATION Spec
CONSTANTS
    MaxPrice = 5
    Ladders <- MCLadders
    Targets <- MCTargets
INVARIANTS
    TypeOK
    SearchCorrect
    AnswerInInterval
PROPERTY
    Terminates
CHECK_DEADLOCK FALSE
