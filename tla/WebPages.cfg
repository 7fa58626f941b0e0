CONSTANT MaxChanges = 2
SPECIFICATION Spec
INVARIANTS
    TypeOK
    
    
    RefusedOnlyByRace
PROPERTY AnswerClosesOwnDialog
\* No further change is possible once the bound is reached.
CHECK_DEADLOCK FALSE
