SPECIFICATION Spec
CONSTANTS
    Handlers = {h1, h2, h3}
    Msgs <- FourMsgs
INVARIANTS
    OneMessage
    NewestHandled
    DiffNeverBackward
