\* No read error: only an edit during the start-up can be missed.
SPECIFICATION FairReload
CONSTANTS
    old = old  new = new  bad = bad  q1 = q1
    Contents <- MCContents
    Good <- MCGood
    Requests <- MCRequests
    Unreadable = Unreadable
    MaxEdits = 1
    MaxErrors = 0
PROPERTY EverySaveIsLoaded
CHECK_DEADLOCK FALSE
