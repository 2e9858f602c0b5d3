SPECIFICATION Spec
CONSTANTS
    Commands = {c1}
    NoCommand = NoCommand
CHECK_DEADLOCK FALSE
INVARIANTS
    CompletedMeansPonged
    ReportedCompletionStays
    ReturnedMeansSettled
PROPERTIES
    PingComesBack
