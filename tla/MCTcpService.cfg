CONSTANTS
    Sockets <- TwoPorts
    Text = {x}
    BufferSize = 2
    MaxSent <- Sends
SPECIFICATION FairSpec
INVARIANTS
    TypeOK
    OneAnswerToTheFirstLine
PROPERTIES
    AnsweredBeforeDisconnect
    LinesAreAnswered
