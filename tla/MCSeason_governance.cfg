\* Two organizers and two events, fees and terms of the second edited in every
\* order around publication and sale, up to the end of both; under fairness, so
\* without symmetry.
CONSTANTS
    org = org
    prom = prom
    ana = ana
    BpsDenominator = 10
    MaxU64 = 150
    MaxIntentSeconds = 2
    Wallet = {plat, org, prom, ana}
    UpgradeAuthority = plat
    Organizer = {org, prom}
    Holder = {ana}
    Staff = {org}
    EventId = {0}
    MaxTierId = 1
    MaxTicketId = 2
    MaxListingId = 0
    MaxNonce = 1
    MaxTransfers = 0
    MaxTime = 5
    InitialLamports = 30
    None = None
    FeeInputs = {1, 8}
    StandardInputs = {"Managed"}
    TreasuryInputs = {plat}
    DetailsInputs <- SeasonDetails
    PriceInputs = {5}
    SupplyInputs = {1, 2}
    ResalePriceInputs = {7}
    PauseInputs = {TRUE, FALSE}
SPECIFICATION SeasonSpec
INVARIANTS
    SupplyConsistent
    CancelledWithoutTickets
    FeesPayable
    EventsIsolated
    SettlementRange
PROPERTIES
    TermsFrozen
    ExpiredIntentReleased
    PublishedEventEnds
