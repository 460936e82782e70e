SPECIFICATION FairSpec
CONSTANTS
    Proc = {sh, child, other}
    Shell = sh
    Code = {ok, failure}
    OutputLimit = 1
    PipeSize = 1
    MaxWritten = 2
CHECK_DEADLOCK FALSE
INVARIANTS
    NothingLeftBehind
    OutputComplete
    OutcomeIsTrue
PROPERTIES
    Returns
