SPECIFICATION Spec
CONSTANTS
    w1 = w1  w2 = w2  s1 = s1
    o1 = o1  o2 = o2  o3 = o3  o4 = o4
    draft = draft  nudge = nudge  followup = followup
    Nobody = Nobody
    Worker <- TwoWorkers
    Office <- OneOffice
    Program <- Programs
    Home <- InTwo
    Pool = 3
    MaxDeaths = 1
    Sender <- NoOne
    Event <- Handled
    Autosend <- NoOne
    Texts <- Nudges
    Noted <- Nudges
    MaxLosses = 2
    MaxDoubts = 2
INVARIANTS EffectOnce
PROPERTIES NoEffectWhileDeleted
CHECK_DEADLOCK FALSE
