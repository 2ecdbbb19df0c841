---- MODULE AccountLayouts ----
(***************************************************************************)
(* The accounts of the program as the client reads them: the fields the    *)
(* generated decoders expect, in order, and the sizes by which the adapter *)
(* asks the RPC for all accounts of a kind.                                *)
(***************************************************************************)
EXTENDS Instructions

Key(name)       == Field(name, "address")
U8(name)        == Field(name, "u8")
Enum(name)      == Field(name, "enum")
OptionI64(name) == Field(name, "option i64")
OptionKey(name) == Field(name, "option address")

getCheckInIntentEncoder ==
    <<Discriminator("checkInIntent"), Key("ticket"), Key("event"),
      Key("holder"), U64("nonce"), I64("expiresAt"), Enum("status"),
      I64("createdAt"), OptionI64("consumedAt"), OptionKey("staff"),
      U8("bump")>>

getEventEncoder ==
    <<Discriminator("event"), Key("organizer"), Key("platformTreasury"),
      U64("eventId"), Text("title"), Text("metadataUri"), I64("salesStartAt"),
      I64("salesEndAt"), I64("startsAt"), I64("endsAt"),
      I64("checkInStartAt"), I64("checkInEndAt"), U16("maxResaleMarkupBps"),
      U16("organizerRoyaltyBps"), U16("platformFeeBps"),
      Bool("resaleEnabled"), Enum("status"), U16("nextTierId"),
      U64("nextTicketId"), U8("bump"), I64("createdAt")>>

getListingEncoder ==
    <<Discriminator("listing"), Key("ticket"), Key("event"), Key("seller"),
      U32("listingId"), U64("priceLamports"), Enum("status"),
      I64("createdAt"), OptionI64("expiresAt"), OptionKey("buyer"),
      U8("bump")>>

getManagedAssetEncoder ==
    <<Discriminator("managedAsset"), Key("authority"), Key("owner"),
      Key("ticket"), Standard("standard"), U8("bump"), I64("createdAt")>>

getPlatformConfigEncoder ==
    <<Discriminator("platformConfig"), Key("admin"), Key("treasury"),
      Standard("assetStandard"), U16("platformFeeBps"), Bool("paused"),
      U8("bump"), U8("assetAuthorityBump"), I64("createdAt"), U8("version")>>

getStaffAuthorizationEncoder ==
    <<Discriminator("staffAuthorization"), Key("event"), Key("staff"),
      Bool("active"), I64("authorizedAt"), OptionI64("revokedAt"),
      U8("bump")>>

getTicketRecordEncoder ==
    <<Discriminator("ticketRecord"), Key("event"), Key("tier"), U64("serial"),
      Key("assetId"), Standard("assetStandard"), Key("owner"),
      U64("originalPriceLamports"), Enum("status"), U32("transferCount"),
      OptionI64("usedAt"), OptionKey("usedBy"), U32("nextListingId"),
      U64("nextIntentNonce"), OptionKey("activeIntent"), U8("bump"),
      I64("createdAt")>>

getTierEncoder ==
    <<Discriminator("tier"), Key("event"), U16("tierId"), Text("name"),
      U64("priceLamports"), U32("supply"), U32("sold"), Bool("active"),
      U8("bump"), I64("createdAt")>>

getEventDetailsEncoder ==
    <<Text("title"), Text("metadataUri"), I64("salesStartAt"),
      I64("salesEndAt"), I64("startsAt"), I64("endsAt"),
      I64("checkInStartAt"), I64("checkInEndAt"), U16("maxResaleMarkupBps"),
      U16("organizerRoyaltyBps"), Bool("resaleEnabled")>>

---------------------------------------------------------------------------
(* Every codec by the kind of account it reads. *)
accounts ==
    [checkInIntent |-> getCheckInIntentEncoder, event |-> getEventEncoder,
     listing |-> getListingEncoder, managedAsset |-> getManagedAssetEncoder,
     platformConfig |-> getPlatformConfigEncoder,
     staffAuthorization |-> getStaffAuthorizationEncoder,
     ticketRecord |-> getTicketRecordEncoder, tier |-> getTierEncoder]

(* Mutant: the size of an event whose title has at most 72 bytes. *)
DataSizeOutdated ==
    [event |-> 435, listing |-> 168, ticketRecord |-> 254, tier |-> 120]

(* The four kinds the adapter lists, by the size it filters with. *)
DataSize ==
    [event |-> 443, listing |-> 168, ticketRecord |-> 254, tier |-> 120]
===============================
