CHECK_DEADLOCK FALSE
CONSTANTS
    BpsDenominator = 10
    MaxU64 = 1000
    MaxIntentSeconds = 2
    Wallet = {org, ana, beto}
    UpgradeAuthority = org
    Organizer = {org}
    Holder = {ana, beto}
    Staff = {org}
    EventId = {0}
    MaxTierId = 2
    MaxTicketId = 2
    MaxListingId = 1
    MaxNonce = 2
    MaxTransfers = 2
    MaxTime = 4
    InitialLamports = 30
    None = None
    FeeInputs = {1}
    StandardInputs = {"MplCore"}
    TreasuryInputs = {org}
    DetailsInputs <- MCDetailsInputs
    PriceInputs = {5, 6}
    SupplyInputs = {2}
    ResalePriceInputs = {5, 6}
    PauseInputs = {TRUE, FALSE}
    Tab = {t1, t2}
    Details <- MCDetails
    FirstPrice = 5
    Supply = 2
    Hold = 1
    MaxSent = 2
    MaxLedger = 3
SPECIFICATION PagesSpec
SYMMETRY PageSymmetry
INVARIANTS
    FinishedMeansConfirmed
