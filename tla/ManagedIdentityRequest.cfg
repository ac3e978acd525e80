SPECIFICATION Spec
CONSTANTS
    Statuses <- MC_Statuses
INVARIANTS RightClient ResponsesDisposed
PROPERTIES FinalAnswerIsFinal CallEnds
