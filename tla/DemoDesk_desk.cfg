\* The demo table used through its three spaces, with resets.
CONSTANTS
    Organizer = {"organizer"}
    Attendee = {ana, bruno}
    Staff = {"staff"}
    CapacityInputs = {0, 2}
    PriceInputs = {5}
    ResalePriceInputs = {6, 7}
    CheckInTtl = 2
    WindowLead = 1
    WindowLength = 2
    MaxSequence = 8
    MaxTime = 4
SPECIFICATION DeskSpec
INVARIANTS
    DemoSingleUse
    DemoCapacity
    DemoOffers
PROPERTIES
    DeskFollowsRegistry
