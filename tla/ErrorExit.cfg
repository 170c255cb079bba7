SPECIFICATION Spec
CONSTANTS
    Number <- Numbers
    CommandLines <- AllLines
    ExitCodes = {0, 7}
    PipeSize = 2
    BufferSize = 2
    MaxOutput = 4
    NoOptions = NoOptions
INVARIANT ReportedErrorsFailTheRun
CHECK_DEADLOCK FALSE
