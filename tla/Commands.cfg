SPECIFICATION FairSpec
CONSTANTS
    NumCommands = 2
    MaxSeen = 1
    Subscriptions = 2
    MaxBreaks = 1
INVARIANTS
    WrittenOnce
    ExecutedIsTrue
    AnswerIsOutcome
PROPERTIES
    ArrivedIsAnswered
CHECK_DEADLOCK FALSE
