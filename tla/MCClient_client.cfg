SPECIFICATION Spec
CONSTANTS
    w1 = w1
    w2 = w2
    None = None
    Wallet = {w1, w2}
    Organizer = w1
    Operation <- Operations
    MaxChain = 6
INVARIANTS
    BuiltAsDeclared
    DefaultsResolve
    AccountsReadAsWritten
PROPERTIES
    ExecutedForPayer
