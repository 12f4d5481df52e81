SPECIFICATION FairSpec
CONSTANTS
    w1 = w1  w2 = w2  s1 = s1
    o1 = o1  o2 = o2  o3 = o3  o4 = o4
    draft = draft  nudge = nudge  followup = followup
    Nobody = Nobody
    Worker <- TwoWorkers
    Office <- OneOffice
    Program <- Programs
    Home <- InTwo
    Pool = 3
    MaxDeaths = 1
    Sender <- OneSender
    Event <- Drafts
    Autosend <- Drafts
    Texts <- NoOne
    Noted <- NoOne
    MaxLosses = 1
    MaxDoubts = 0
INVARIANTS TypeOK DraftSentOnce NothingQueuedWhileDeleted
PROPERTIES LockReturnsOrStuck
CHECK_DEADLOCK FALSE
