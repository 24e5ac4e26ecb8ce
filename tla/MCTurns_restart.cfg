SPECIFICATION FairSpec
CONSTANTS
    t1 = t1
    t2 = t2
    work = work
    home = home
    Turns = {t1}
    Conversations = {work}
    NoConversation = none
    NoTurnId = nobody
    Clients = {b1, b2}
    MaxFaults <- TwoFaults
    LostAck = FALSE
    TurnLimit = 1
    MaxEvents <- TwoEvents
    MaxRestarts = 2
INVARIANTS
    AnswerIsWhatWasStreamed
    AnnouncedIsStored
PROPERTIES
    NobodyWaitsForever
CHECK_DEADLOCK FALSE
