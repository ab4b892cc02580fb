\* Edits and read errors anywhere.  No symmetry: a liveness property is checked.
SPECIFICATION FairReload
CONSTANTS
    old = old  new = new  bad = bad  q1 = q1
    Contents <- MCContents
    Good <- MCGood
    Requests <- MCRequests
    Unreadable = Unreadable
    MaxEdits = 3
    MaxErrors = 1
INVARIANTS
    RulesNotOlderThanLimits
    ReloadedTogether
PROPERTY Converges
CHECK_DEADLOCK FALSE
