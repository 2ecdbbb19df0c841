\* One ticket through two listings, two intents and two transfers, under any
\* of the three asset standards, on a platform paused and resumed and
\* switching standards.
CONSTANTS
    BpsDenominator = 10
    MaxU64 = 1000
    MaxIntentSeconds = 2
    Wallet = {plat, org, ana, beto}
    UpgradeAuthority = plat
    Organizer = {org}
    Holder = {ana, beto}
    Staff = {org}
    EventId = {0}
    MaxTierId = 1
    MaxTicketId = 1
    MaxListingId = 2
    MaxNonce = 2
    MaxTransfers = 2
    MaxTime = 5
    InitialLamports = 30
    None = None
    FeeInputs = {2}
    StandardInputs = {"Managed", "MplCore", "BubblegumV2"}
    TreasuryInputs = {plat}
    DetailsInputs <- OneDetails
    PriceInputs = {5}
    SupplyInputs = {1}
    ResalePriceInputs = {7, 8}
    PauseInputs = {TRUE, FALSE}
SPECIFICATION Spec
SYMMETRY HolderSymmetry
INVARIANTS
    TypeOK
    IntentExclusive
    ListingExclusive
    CustodyConsistent
    SingleUse
PROPERTIES
    ImplementsRegistry
    TransfersOnlyWhileOpen
    MoneyFollowsTickets
    UsedIsFinal
