---- MODULE ProgramInterface ----
(***************************************************************************)
(* What the program declares of its accounts and instructions: the fields  *)
(* of each account and the space it is given; for each instruction the     *)
(* accounts of its context, in order, which of them it checks against      *)
(* seeds, which it creates and which it loads as accounts of its own, and  *)
(* the arguments that follow the discriminator.  Names are written in      *)
(* camel case, as the IDL has them.                                        *)
(***************************************************************************)
EXTENDS AccountLayouts, Naturals

CheckInIntent ==
    <<Key("ticket"), Key("event"), Key("holder"), U64("nonce"),
      I64("expiresAt"), Enum("status"), I64("createdAt"),
      OptionI64("consumedAt"), OptionKey("staff"), U8("bump")>>

Event ==
    <<Key("organizer"), Key("platformTreasury"), U64("eventId"),
      Text("title"), Text("metadataUri"), I64("salesStartAt"),
      I64("salesEndAt"), I64("startsAt"), I64("endsAt"),
      I64("checkInStartAt"), I64("checkInEndAt"), U16("maxResaleMarkupBps"),
      U16("organizerRoyaltyBps"), U16("platformFeeBps"),
      Bool("resaleEnabled"), Enum("status"), U16("nextTierId"),
      U64("nextTicketId"), U8("bump"), I64("createdAt")>>

Listing ==
    <<Key("ticket"), Key("event"), Key("seller"), U32("listingId"),
      U64("priceLamports"), Enum("status"), I64("createdAt"),
      OptionI64("expiresAt"), OptionKey("buyer"), U8("bump")>>

ManagedAsset ==
    <<Key("authority"), Key("owner"), Key("ticket"), Standard("standard"),
      U8("bump"), I64("createdAt")>>

PlatformConfig ==
    <<Key("admin"), Key("treasury"), Standard("assetStandard"),
      U16("platformFeeBps"), Bool("paused"), U8("bump"),
      U8("assetAuthorityBump"), I64("createdAt"), U8("version")>>

StaffAuthorization ==
    <<Key("event"), Key("staff"), Bool("active"), I64("authorizedAt"),
      OptionI64("revokedAt"), U8("bump")>>

TicketRecord ==
    <<Key("event"), Key("tier"), U64("serial"), Key("assetId"),
      Standard("assetStandard"), Key("owner"), U64("originalPriceLamports"),
      Enum("status"), U32("transferCount"), OptionI64("usedAt"),
      OptionKey("usedBy"), U32("nextListingId"), U64("nextIntentNonce"),
      OptionKey("activeIntent"), U8("bump"), I64("createdAt")>>

Tier ==
    <<Key("event"), U16("tierId"), Text("name"), U64("priceLamports"),
      U32("supply"), U32("sold"), Bool("active"), U8("bump"),
      I64("createdAt")>>

EventDetails ==
    <<Text("title"), Text("metadataUri"), I64("salesStartAt"),
      I64("salesEndAt"), I64("startsAt"), I64("endsAt"),
      I64("checkInStartAt"), I64("checkInEndAt"), U16("maxResaleMarkupBps"),
      U16("organizerRoyaltyBps"), Bool("resaleEnabled")>>

(* The fields and the space of each kind of account. *)
Layout ==
    [checkInIntent |-> CheckInIntent, event |-> Event, listing |-> Listing,
     managedAsset |-> ManagedAsset, platformConfig |-> PlatformConfig,
     staffAuthorization |-> StaffAuthorization,
     ticketRecord |-> TicketRecord, tier |-> Tier]

SPACE ==
    [checkInIntent |-> 8 + 32 + 32 + 32 + 8 + 8 + 1 + 8 + 9 + 33 + 1,
     event |-> 8 + 32 + 32 + 8 + 4 + 80 + 4 + 200 + (8 * 6) + 2 + 2 + 2 + 1 +
         1 + 2 + 8 + 1 + 8,
     listing |-> 8 + 32 + 32 + 32 + 4 + 8 + 1 + 8 + 9 + 33 + 1,
     managedAsset |-> 8 + 32 + 32 + 32 + 1 + 1 + 8,
     platformConfig |-> 8 + 32 + 32 + 1 + 2 + 1 + 1 + 1 + 8 + 1,
     staffAuthorization |-> 8 + 32 + 32 + 1 + 8 + 9 + 1,
     ticketRecord |-> 8 + 32 + 32 + 8 + 32 + 1 + 32 + 8 + 1 + 4 + 9 + 33 + 4
         + 8 + 33 + 1 + 8,
     tier |-> 8 + 32 + 2 + 4 + 48 + 8 + 4 + 4 + 1 + 1 + 8]

---------------------------------------------------------------------------
(* The contexts. *)

InitializePlatform ==
    [accounts |-> <<Pays("admin"), Writes("platformConfig"),
        Reads("assetAuthority"), Reads("treasury"), Reads("program"),
        Reads("programData"), Reads("systemProgram")>>,
     init |-> {"platformConfig"},
     seeds |-> {"platformConfig", "assetAuthority"},
     loads |-> {}]

UpdatePlatform ==
    [accounts |-> <<Signs("admin"), Writes("platformConfig"),
        Reads("treasury")>>,
     init |-> {}, seeds |-> {"platformConfig"},
     loads |-> {"platformConfig"}]

CreateEvent ==
    [accounts |-> <<Pays("organizer"), Reads("platformConfig"),
        Writes("event"), Reads("systemProgram")>>,
     init |-> {"event"}, seeds |-> {"platformConfig", "event"},
     loads |-> {"platformConfig"}]

ManageEvent ==
    [accounts |-> <<Signs("organizer"), Reads("platformConfig"),
        Writes("event")>>,
     init |-> {}, seeds |-> {"platformConfig"},
     loads |-> {"platformConfig", "event"}]

AddTier ==
    [accounts |-> <<Pays("organizer"), Reads("platformConfig"),
        Writes("event"), Writes("tier"), Reads("systemProgram")>>,
     init |-> {"tier"}, seeds |-> {"platformConfig", "tier"},
     loads |-> {"platformConfig", "event"}]

UpdateTier ==
    [accounts |-> <<Signs("organizer"), Reads("platformConfig"),
        Writes("event"), Writes("tier")>>,
     init |-> {}, seeds |-> {"platformConfig"},
     loads |-> {"platformConfig", "event", "tier"}]

AuthorizeStaff ==
    [accounts |-> <<Pays("organizer"), Reads("platformConfig"),
        Reads("event"), Reads("staff"), Writes("staffAuthorization"),
        Reads("systemProgram")>>,
     init |-> {"staffAuthorization"},
     seeds |-> {"platformConfig", "staffAuthorization"},
     loads |-> {"platformConfig", "event"}]

RevokeStaff ==
    [accounts |-> <<Signs("organizer"), Reads("platformConfig"),
        Reads("event"), Reads("staff"), Writes("staffAuthorization")>>,
     init |-> {}, seeds |-> {"platformConfig", "staffAuthorization"},
     loads |-> {"platformConfig", "event", "staffAuthorization"}]

PrimaryPurchase ==
    [accounts |-> <<Pays("buyer"), Reads("platformConfig"), Writes("event"),
        Writes("tier"), Writes("organizer"), Writes("treasury"),
        Writes("ticketRecord"), Writes("managedAsset"),
        Reads("assetAuthority"), Reads("systemProgram")>>,
     init |-> {"ticketRecord", "managedAsset"},
     seeds |-> {"platformConfig", "ticketRecord", "managedAsset",
        "assetAuthority"},
     loads |-> {"platformConfig", "event", "tier"}]

PrimaryPurchaseCore ==
    [accounts |-> <<Pays("buyer"), Reads("platformConfig"), Writes("event"),
        Writes("tier"), Writes("organizer"), Writes("treasury"),
        Writes("ticketRecord"), Writes("coreAsset"), Reads("assetAuthority"),
        Reads("coreProgram"), Reads("systemProgram")>>,
     init |-> {"ticketRecord"},
     seeds |-> {"platformConfig", "ticketRecord", "coreAsset",
        "assetAuthority"},
     loads |-> {"platformConfig", "event", "tier"}]

GiftTicket ==
    [accounts |-> <<Signs("currentOwner"), Reads("recipient"),
        Reads("platformConfig"), Reads("event"), Writes("ticketRecord"),
        Writes("managedAsset"), Reads("assetAuthority")>>,
     init |-> {},
     seeds |-> {"platformConfig", "managedAsset", "assetAuthority"},
     loads |-> {"platformConfig", "event", "ticketRecord", "managedAsset"}]

GiftTicketCore ==
    [accounts |-> <<Pays("currentOwner"), Reads("recipient"),
        Reads("platformConfig"), Reads("event"), Writes("ticketRecord"),
        Writes("coreAsset"), Reads("assetAuthority"), Reads("coreProgram"),
        Reads("systemProgram")>>,
     init |-> {}, seeds |-> {"platformConfig", "assetAuthority"},
     loads |-> {"platformConfig", "event", "ticketRecord"}]

ListTicket ==
    [accounts |-> <<Pays("seller"), Reads("platformConfig"), Reads("event"),
        Writes("ticketRecord"), Reads("managedAsset"),
        Reads("assetAuthority"), Writes("listing"), Reads("systemProgram")>>,
     init |-> {"listing"},
     seeds |-> {"platformConfig", "managedAsset", "assetAuthority", "listing"},
     loads |-> {"platformConfig", "event", "ticketRecord", "managedAsset"}]

ListTicketCore ==
    [accounts |-> <<Pays("seller"), Reads("platformConfig"), Reads("event"),
        Writes("ticketRecord"), Writes("coreAsset"), Reads("assetAuthority"),
        Writes("listing"), Reads("coreProgram"), Reads("systemProgram")>>,
     init |-> {"listing"},
     seeds |-> {"platformConfig", "assetAuthority", "listing"},
     loads |-> {"platformConfig", "event", "ticketRecord"}]

CancelListing ==
    [accounts |-> <<Signs("seller"), Reads("platformConfig"),
        Writes("ticketRecord"), Writes("listing")>>,
     init |-> {}, seeds |-> {"platformConfig"},
     loads |-> {"platformConfig", "ticketRecord", "listing"}]

CancelListingCore ==
    [accounts |-> <<Pays("seller"), Reads("platformConfig"),
        Writes("ticketRecord"), Writes("listing"), Writes("coreAsset"),
        Reads("assetAuthority"), Reads("coreProgram"),
        Reads("systemProgram")>>,
     init |-> {}, seeds |-> {"platformConfig", "assetAuthority"},
     loads |-> {"platformConfig", "ticketRecord", "listing"}]

BuyResale ==
    [accounts |-> <<Pays("buyer"), Reads("platformConfig"), Reads("event"),
        Writes("ticketRecord"), Writes("listing"), Writes("seller"),
        Writes("organizer"), Writes("treasury"), Writes("managedAsset"),
        Reads("assetAuthority"), Reads("systemProgram")>>,
     init |-> {},
     seeds |-> {"platformConfig", "managedAsset", "assetAuthority"},
     loads |-> {"platformConfig", "event", "ticketRecord", "listing",
        "managedAsset"}]

BuyResaleCore ==
    [accounts |-> <<Pays("buyer"), Reads("platformConfig"), Reads("event"),
        Writes("ticketRecord"), Writes("listing"), Writes("seller"),
        Writes("organizer"), Writes("treasury"), Writes("coreAsset"),
        Reads("assetAuthority"), Reads("coreProgram"),
        Reads("systemProgram")>>,
     init |-> {}, seeds |-> {"platformConfig", "assetAuthority"},
     loads |-> {"platformConfig", "event", "ticketRecord", "listing"}]

PresentCheckIn ==
    [accounts |-> <<Pays("holder"), Reads("platformConfig"), Reads("event"),
        Writes("ticketRecord"), Reads("managedAsset"),
        Reads("assetAuthority"), Writes("checkInIntent"),
        Reads("systemProgram")>>,
     init |-> {"checkInIntent"},
     seeds |-> {"platformConfig", "managedAsset", "assetAuthority",
        "checkInIntent"},
     loads |-> {"platformConfig", "event", "ticketRecord", "managedAsset"}]

PresentCheckInCore ==
    [accounts |-> <<Pays("holder"), Reads("platformConfig"), Reads("event"),
        Writes("ticketRecord"), Reads("coreAsset"), Reads("assetAuthority"),
        Writes("checkInIntent"), Reads("systemProgram")>>,
     init |-> {"checkInIntent"},
     seeds |-> {"platformConfig", "assetAuthority", "checkInIntent"},
     loads |-> {"platformConfig", "event", "ticketRecord"}]

CancelCheckIn ==
    [accounts |-> <<Signs("holder"), Writes("ticketRecord"),
        Writes("checkInIntent")>>,
     init |-> {}, seeds |-> {},
     loads |-> {"ticketRecord", "checkInIntent"}]

ExpireCheckIn ==
    [accounts |-> <<Signs("keeper"), Writes("ticketRecord"),
        Writes("checkInIntent")>>,
     init |-> {}, seeds |-> {},
     loads |-> {"ticketRecord", "checkInIntent"}]

ConsumeCheckIn ==
    [accounts |-> <<Signs("staff"), Reads("platformConfig"), Reads("event"),
        Writes("ticketRecord"), Reads("managedAsset"),
        Reads("assetAuthority"), Reads("staffAuthorization"),
        Writes("checkInIntent")>>,
     init |-> {},
     seeds |-> {"platformConfig", "managedAsset", "assetAuthority",
        "staffAuthorization"},
     loads |-> {"platformConfig", "event", "ticketRecord", "managedAsset",
        "staffAuthorization", "checkInIntent"}]

ConsumeCheckInCore ==
    [accounts |-> <<Signs("staff"), Reads("platformConfig"), Reads("event"),
        Writes("ticketRecord"), Reads("coreAsset"), Reads("assetAuthority"),
        Reads("staffAuthorization"), Writes("checkInIntent")>>,
     init |-> {},
     seeds |-> {"platformConfig", "assetAuthority", "staffAuthorization"},
     loads |-> {"platformConfig", "event", "ticketRecord",
        "staffAuthorization", "checkInIntent"}]

---------------------------------------------------------------------------
(* The entry points: the context and the arguments of each instruction. *)
Handler(context, arguments) ==
    [context |-> context, arguments |-> arguments]

centlalia_ticketing ==
    [initializePlatform |-> Handler(InitializePlatform,
         <<U16("platformFeeBps"), Standard("assetStandard")>>),
     updatePlatform |-> Handler(UpdatePlatform,
         <<U16("platformFeeBps"), Bool("paused")>>),
     setAssetStandard |-> Handler(UpdatePlatform,
         <<Standard("assetStandard")>>),
     createEvent |-> Handler(CreateEvent,
         <<U64("eventId"), Details("details")>>),
     updateEvent |-> Handler(ManageEvent, <<Details("details")>>),
     publishEvent |-> Handler(ManageEvent, <<>>),
     cancelEvent |-> Handler(ManageEvent, <<>>),
     closeEvent |-> Handler(ManageEvent, <<>>),
     addTier |-> Handler(AddTier,
         <<U16("tierId"), Text("name"), U64("priceLamports"), U32("supply")>>),
     updateTier |-> Handler(UpdateTier,
         <<Text("name"), U64("priceLamports"), U32("supply"), Bool("active")>>),
     authorizeStaff |-> Handler(AuthorizeStaff, <<>>),
     revokeStaff |-> Handler(RevokeStaff, <<>>),
     primaryPurchase |-> Handler(PrimaryPurchase, <<U64("ticketId")>>),
     primaryPurchaseCore |-> Handler(PrimaryPurchaseCore,
         <<U64("ticketId")>>),
     giftTicket |-> Handler(GiftTicket, <<>>),
     giftTicketCore |-> Handler(GiftTicketCore, <<>>),
     listTicket |-> Handler(ListTicket,
         <<U32("listingId"), U64("priceLamports"), I64("expiresAt")>>),
     listTicketCore |-> Handler(ListTicketCore,
         <<U32("listingId"), U64("priceLamports"), I64("expiresAt")>>),
     cancelListing |-> Handler(CancelListing, <<>>),
     cancelListingCore |-> Handler(CancelListingCore, <<>>),
     buyResale |-> Handler(BuyResale, <<>>),
     buyResaleCore |-> Handler(BuyResaleCore, <<>>),
     presentCheckIn |-> Handler(PresentCheckIn,
         <<U64("intentNonce"), I64("expiresAt")>>),
     presentCheckInCore |-> Handler(PresentCheckInCore,
         <<U64("intentNonce"), I64("expiresAt")>>),
     cancelCheckIn |-> Handler(CancelCheckIn, <<>>),
     expireCheckIn |-> Handler(ExpireCheckIn, <<>>),
     consumeCheckIn |-> Handler(ConsumeCheckIn, <<>>),
     consumeCheckInCore |-> Handler(ConsumeCheckInCore, <<>>)]
=================================
