SPECIFICATION Spec
CONSTANTS
    c1 = c1
    c2 = c2
    c3 = c3
    c4 = c4
    chatA = chatA
    chatB = chatB
    Calls = {c1, c2, c3, c4}
    Chats = {chatA, chatB}
    GlobalLimit = 2
    ChatLimit = 1
    Window = 3
    Expire = 3
    MaxWait = 1
    Poll = 1
    Lag = 1
    Horizon = 3
INVARIANT TypeOK
INVARIANT WindowHolds
INVARIANT GivesUpInTime
INVARIANT HeldUpByOthers
SYMMETRY CallSymmetry
\* Once every call has ended and the horizon is passed, nothing is left to do.
CHECK_DEADLOCK FALSE
