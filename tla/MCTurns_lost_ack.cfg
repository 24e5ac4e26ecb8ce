SPECIFICATION Spec
CONSTANTS
    t1 = t1
    t2 = t2
    work = work
    home = home
    Turns = {t1}
    Conversations = {work}
    NoConversation = none
    NoTurnId = nobody
    Clients = {b1}
    MaxFaults <- OneFault
    LostAck = TRUE
    TurnLimit = 1
    MaxEvents <- OneEvent
    MaxRestarts = 2
INVARIANT AnnouncedIsStored
CHECK_DEADLOCK FALSE
