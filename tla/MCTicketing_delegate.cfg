\* A listing of a ticket with an MPL Core asset, cancelled.
CONSTANTS
    BpsDenominator = 10
    MaxU64 = 1000
    MaxIntentSeconds = 2
    Wallet = {plat, org, ana, beto}
    UpgradeAuthority = plat
    Organizer = {org}
    Holder = {ana, beto}
    Staff = {org}
    EventId = {0}
    MaxTierId = 1
    MaxTicketId = 1
    MaxListingId = 2
    MaxNonce = 2
    MaxTransfers = 2
    MaxTime = 5
    InitialLamports = 30
    None = None
    FeeInputs = {1}
    StandardInputs = {"MplCore"}
    TreasuryInputs = {plat}
    DetailsInputs <- OneDetails
    PriceInputs = {5}
    SupplyInputs = {1}
    ResalePriceInputs = {7}
    PauseInputs = {FALSE}
SPECIFICATION Spec
INVARIANTS
    DelegateOnlyWhileListed
