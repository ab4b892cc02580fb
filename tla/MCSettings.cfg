SPECIFICATION Spec
CONSTANTS
    t1 = t1  t2 = t2
    Tasks = {t1, t2}
    Absent = Absent
    Backslash = "BS"
    NewLine = "NL"
    Return = "CR"
    LetterN = "n"
    LetterR = "r"
    Http = "http"
    MaxCommands = 3
    CommandLines <- MCCommandLines
    Pieces <- MCPieces
    Environments <- MCEnvironments
    AddrText <- MCAddrText
INVARIANTS
    SettingIsKept
    NothingInvented
    ServesWhatWasSet
SYMMETRY Operators
CHECK_DEADLOCK FALSE
