\* The demo gateway called directly, as the unit tests call it.
CONSTANTS
    Organizer = {"organizer"}
    Attendee = {ana, bruno}
    Staff = {"staff"}
    CapacityInputs = {1}
    PriceInputs = {5}
    ResalePriceInputs = {6}
    CheckInTtl = 2
    WindowLead = 1
    WindowLength = 2
    MaxSequence = 9
    MaxTime = 4
SPECIFICATION GatewaySpec
INVARIANTS
    DemoAdmittedOnce
