SPECIFICATION Spec
CONSTANTS
    MaxFiles = 2
    MaxSize = 1
    FlushMax = 2
    MaxLines = 5
    MaxDay = 4
PROPERTIES
    OutgoingDayComplete
