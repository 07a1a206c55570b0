SPECIFICATION LiveSpec
CONSTANTS
    Modes = {"exec", "session", "text"}
    Outputs <- MCOutputs
    Codes <- TwoDigits
    MaxInputs = 2
    MaxChatter = 1
CHECK_DEADLOCK FALSE
INVARIANTS
    ShownIsPrefix
    InputIsWhatWasTyped
    DirectStdoutExact
    TerminalIsClosed
PROPERTIES
    
    QuietTerminalReturns
    SessionEndsAtEof
