\* Two staff pages, two QR codes, two transactions in flight.
CONSTANTS
    Console = {gateA, gateB}
    Ticket = {t1, t2}
    MaxAttempts = 2
    MaxSent = 2
    None = None
SPECIFICATION Spec
SYMMETRY DoorSymmetry
INVARIANTS
    EvidenceOfUse
