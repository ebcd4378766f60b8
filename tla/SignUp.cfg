CONSTANTS
    Addresses = {a1, a2}
    MaxSheet = 2
    MaxPress = 2
    MaxEdit = 2
    MaxKill = 1
SPECIFICATION Spec
INVARIANTS TypeOK MailBeforeProfile
PROPERTIES LeftAlone
CHECK_DEADLOCK FALSE
