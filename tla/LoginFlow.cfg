CONSTANTS
    ann = ann
    bob = bob
    pw1 = pw1
    pw2 = pw2
    Emails <- MCEmails
    Passwords <- MCPasswords
    Blank = Blank
    Registered <- MCRegistered
    NoUser = NoUser
    NoAlert = NoAlert
    MaxRequests = 3
SPECIFICATION Spec
INVARIANTS
    UserHasProof
    AccountsWereOffered
PROPERTIES
    TapIsAnswered
\* The bound on requests ends a behaviour.
CHECK_DEADLOCK FALSE
