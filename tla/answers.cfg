SPECIFICATION Spec
CONSTANTS
    Commands = {"GET_CDR", "START_SESSION", "STOP_SESSION", "SHUTDOWN", "TEST"}
    MaxCommands = 3
    SendBuffer = 5
    JsonUnits = 1
INVARIANT AnswersTypeOK
INVARIANT DecodedAsAnswered
INVARIANT SessionAsTold
PROPERTY CommandsAnswered
