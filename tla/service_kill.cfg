SPECIFICATION Spec
CONSTANTS
    Sessions = {s1, s2}
    MaxInbox = 3
PROPERTIES
    OnlyAskedEnd
