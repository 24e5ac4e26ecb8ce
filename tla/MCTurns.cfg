SPECIFICATION Spec
CONSTANTS
    t1 = t1
    t2 = t2
    work = work
    home = home
    Turns = {t1, t2}
    Conversations = {work, home}
    NoConversation = none
    NoTurnId = nobody
    Clients = {browser}
    MaxFaults <- OneFault
    LostAck = FALSE
    TurnLimit = 1
    MaxEvents <- NoEvent
    MaxRestarts = 1
INVARIANTS
    OneBridgePerConversation
    EventsFindTheirTurn
    CancelIsSynchronous
SYMMETRY Sym
CHECK_DEADLOCK FALSE
