SPECIFICATION Spec
CONSTANTS
    c1 = c1
    c2 = c2
    Connections = {c1, c2}
    MaxDescriptors = 3
    MaxOthers = 1
    MaxMessages = 2
INVARIANT TcpTypeOK
INVARIANT AnsweredOnceInOrder
INVARIANT TableMatchesDescriptors
PROPERTY CommandsServed
