\* Two staff pages scan the same QR code.
CONSTANTS
    Console = {gateA, gateB}
    Ticket = {t1}
    MaxAttempts = 2
    MaxSent = 2
    None = None
SPECIFICATION Spec
INVARIANTS
    SecondUseRejected
