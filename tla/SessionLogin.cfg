CONSTANTS
    Accounts = {"ann", "bob"}
    MaxRequest = 2
    MaxLogout = 2
    MaxLaunch = 1
SPECIFICATION FairSpec
INVARIANTS TypeOK SettledLogin
PROPERTIES SignInEnds
CHECK_DEADLOCK FALSE
