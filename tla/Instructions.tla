---- MODULE Instructions ----
(***************************************************************************)
(* The instruction builders Codama generates from the IDL: for each        *)
(* instruction the accounts in the order in which they are passed, the     *)
(* defaults in the order in which the asynchronous builder resolves them,  *)
(* and the data in the order in which it is encoded.  Without the defaults *)
(* that are derived addresses, which its input types require, the          *)
(* synchronous builder of an instruction does the same.                    *)
(***************************************************************************)
EXTENDS Sequences

(* Account metas, and the fields of instruction data. *)
Account(role, writable, signer) ==
    [role |-> role, writable |-> writable, signer |-> signer]

Reads(role)  == Account(role, FALSE, FALSE)
Writes(role) == Account(role, TRUE, FALSE)
Signs(role)  == Account(role, FALSE, TRUE)
Pays(role)   == Account(role, TRUE, TRUE)

Field(name, type) == [name |-> name, type |-> type]

Discriminator(instruction) == Field("discriminator", instruction)
U16(name)      == Field(name, "u16")
U32(name)      == Field(name, "u32")
U64(name)      == Field(name, "u64")
I64(name)      == Field(name, "i64")
Bool(name)     == Field(name, "bool")
Text(name)     == Field(name, "string")
Standard(name) == Field(name, "AssetStandard")
Details(name)  == Field(name, "EventDetails")

---------------------------------------------------------------------------
getAddTierInstruction ==
    <<Pays("organizer"), Reads("platformConfig"), Writes("event"),
      Writes("tier"), Reads("systemProgram")>>
getAddTierInstructionAsync == <<"platformConfig", "tier", "systemProgram">>
getAddTierInstructionDataEncoder ==
    <<Discriminator("addTier"), U16("tierId"), Text("name"),
      U64("priceLamports"), U32("supply")>>

getAuthorizeStaffInstruction ==
    <<Pays("organizer"), Reads("platformConfig"), Reads("event"),
      Reads("staff"), Writes("staffAuthorization"), Reads("systemProgram")>>
getAuthorizeStaffInstructionAsync ==
    <<"platformConfig", "staffAuthorization", "systemProgram">>
getAuthorizeStaffInstructionDataEncoder == <<Discriminator("authorizeStaff")>>

getBuyResaleInstruction ==
    <<Pays("buyer"), Reads("platformConfig"), Reads("event"),
      Writes("ticketRecord"), Writes("listing"), Writes("seller"),
      Writes("organizer"), Writes("treasury"), Writes("managedAsset"),
      Reads("assetAuthority"), Reads("systemProgram")>>
getBuyResaleInstructionAsync ==
    <<"platformConfig", "managedAsset", "assetAuthority", "systemProgram">>
getBuyResaleInstructionDataEncoder == <<Discriminator("buyResale")>>

getBuyResaleCoreInstruction ==
    <<Pays("buyer"), Reads("platformConfig"), Reads("event"),
      Writes("ticketRecord"), Writes("listing"), Writes("seller"),
      Writes("organizer"), Writes("treasury"), Writes("coreAsset"),
      Reads("assetAuthority"), Reads("coreProgram"), Reads("systemProgram")>>
getBuyResaleCoreInstructionAsync ==
    <<"platformConfig", "assetAuthority", "coreProgram", "systemProgram">>
getBuyResaleCoreInstructionDataEncoder == <<Discriminator("buyResaleCore")>>

getCancelCheckInInstruction ==
    <<Signs("holder"), Writes("ticketRecord"), Writes("checkInIntent")>>
getCancelCheckInInstructionDataEncoder == <<Discriminator("cancelCheckIn")>>

getCancelEventInstruction ==
    <<Signs("organizer"), Reads("platformConfig"), Writes("event")>>
getCancelEventInstructionAsync == <<"platformConfig">>
getCancelEventInstructionDataEncoder == <<Discriminator("cancelEvent")>>

getCancelListingInstruction ==
    <<Signs("seller"), Reads("platformConfig"), Writes("ticketRecord"),
      Writes("listing")>>
getCancelListingInstructionAsync == <<"platformConfig">>
getCancelListingInstructionDataEncoder == <<Discriminator("cancelListing")>>

getCancelListingCoreInstruction ==
    <<Pays("seller"), Reads("platformConfig"), Writes("ticketRecord"),
      Writes("listing"), Writes("coreAsset"), Reads("assetAuthority"),
      Reads("coreProgram"), Reads("systemProgram")>>
getCancelListingCoreInstructionAsync ==
    <<"platformConfig", "assetAuthority", "coreProgram", "systemProgram">>
getCancelListingCoreInstructionDataEncoder ==
    <<Discriminator("cancelListingCore")>>

getCloseEventInstruction ==
    <<Signs("organizer"), Reads("platformConfig"), Writes("event")>>
getCloseEventInstructionAsync == <<"platformConfig">>
getCloseEventInstructionDataEncoder == <<Discriminator("closeEvent")>>

getConsumeCheckInInstruction ==
    <<Signs("staff"), Reads("platformConfig"), Reads("event"),
      Writes("ticketRecord"), Reads("managedAsset"), Reads("assetAuthority"),
      Reads("staffAuthorization"), Writes("checkInIntent")>>
getConsumeCheckInInstructionAsync ==
    <<"platformConfig", "managedAsset", "assetAuthority",
      "staffAuthorization">>
getConsumeCheckInInstructionDataEncoder == <<Discriminator("consumeCheckIn")>>

getConsumeCheckInCoreInstruction ==
    <<Signs("staff"), Reads("platformConfig"), Reads("event"),
      Writes("ticketRecord"), Reads("coreAsset"), Reads("assetAuthority"),
      Reads("staffAuthorization"), Writes("checkInIntent")>>
getConsumeCheckInCoreInstructionAsync ==
    <<"platformConfig", "assetAuthority", "staffAuthorization">>
getConsumeCheckInCoreInstructionDataEncoder ==
    <<Discriminator("consumeCheckInCore")>>

getCreateEventInstruction ==
    <<Pays("organizer"), Reads("platformConfig"), Writes("event"),
      Reads("systemProgram")>>
getCreateEventInstructionAsync ==
    <<"platformConfig", "event", "systemProgram">>
getCreateEventInstructionDataEncoder ==
    <<Discriminator("createEvent"), U64("eventId"), Details("details")>>

getExpireCheckInInstruction ==
    <<Signs("keeper"), Writes("ticketRecord"), Writes("checkInIntent")>>
getExpireCheckInInstructionDataEncoder == <<Discriminator("expireCheckIn")>>

getGiftTicketInstruction ==
    <<Signs("currentOwner"), Reads("recipient"), Reads("platformConfig"),
      Reads("event"), Writes("ticketRecord"), Writes("managedAsset"),
      Reads("assetAuthority")>>
getGiftTicketInstructionAsync ==
    <<"platformConfig", "managedAsset", "assetAuthority">>
getGiftTicketInstructionDataEncoder == <<Discriminator("giftTicket")>>

getGiftTicketCoreInstruction ==
    <<Pays("currentOwner"), Reads("recipient"), Reads("platformConfig"),
      Reads("event"), Writes("ticketRecord"), Writes("coreAsset"),
      Reads("assetAuthority"), Reads("coreProgram"), Reads("systemProgram")>>
getGiftTicketCoreInstructionAsync ==
    <<"platformConfig", "assetAuthority", "coreProgram", "systemProgram">>
getGiftTicketCoreInstructionDataEncoder == <<Discriminator("giftTicketCore")>>

getInitializePlatformInstruction ==
    <<Pays("admin"), Writes("platformConfig"), Reads("assetAuthority"),
      Reads("treasury"), Reads("program"), Reads("programData"),
      Reads("systemProgram")>>
getInitializePlatformInstructionAsync ==
    <<"platformConfig", "assetAuthority", "program", "systemProgram">>
getInitializePlatformInstructionDataEncoder ==
    <<Discriminator("initializePlatform"), U16("platformFeeBps"),
      Standard("assetStandard")>>

getListTicketInstruction ==
    <<Pays("seller"), Reads("platformConfig"), Reads("event"),
      Writes("ticketRecord"), Reads("managedAsset"), Reads("assetAuthority"),
      Writes("listing"), Reads("systemProgram")>>
getListTicketInstructionAsync ==
    <<"platformConfig", "managedAsset", "assetAuthority", "listing",
      "systemProgram">>
getListTicketInstructionDataEncoder ==
    <<Discriminator("listTicket"), U32("listingId"), U64("priceLamports"),
      I64("expiresAt")>>

(* Mutant: the asset and its authority change places. *)
getListTicketCoreInstructionSwapped ==
    <<Pays("seller"), Reads("platformConfig"), Reads("event"),
      Writes("ticketRecord"), Reads("assetAuthority"), Writes("coreAsset"),
      Writes("listing"), Reads("coreProgram"), Reads("systemProgram")>>

getListTicketCoreInstruction ==
    <<Pays("seller"), Reads("platformConfig"), Reads("event"),
      Writes("ticketRecord"), Writes("coreAsset"), Reads("assetAuthority"),
      Writes("listing"), Reads("coreProgram"), Reads("systemProgram")>>
getListTicketCoreInstructionAsync ==
    <<"platformConfig", "assetAuthority", "listing", "coreProgram",
      "systemProgram">>
getListTicketCoreInstructionDataEncoder ==
    <<Discriminator("listTicketCore"), U32("listingId"), U64("priceLamports"),
      I64("expiresAt")>>

getPresentCheckInInstruction ==
    <<Pays("holder"), Reads("platformConfig"), Reads("event"),
      Writes("ticketRecord"), Reads("managedAsset"), Reads("assetAuthority"),
      Writes("checkInIntent"), Reads("systemProgram")>>
getPresentCheckInInstructionAsync ==
    <<"platformConfig", "managedAsset", "assetAuthority", "checkInIntent",
      "systemProgram">>
getPresentCheckInInstructionDataEncoder ==
    <<Discriminator("presentCheckIn"), U64("intentNonce"), I64("expiresAt")>>

getPresentCheckInCoreInstruction ==
    <<Pays("holder"), Reads("platformConfig"), Reads("event"),
      Writes("ticketRecord"), Reads("coreAsset"), Reads("assetAuthority"),
      Writes("checkInIntent"), Reads("systemProgram")>>
getPresentCheckInCoreInstructionAsync ==
    <<"platformConfig", "assetAuthority", "checkInIntent", "systemProgram">>
getPresentCheckInCoreInstructionDataEncoder ==
    <<Discriminator("presentCheckInCore"), U64("intentNonce"),
      I64("expiresAt")>>

getPrimaryPurchaseInstruction ==
    <<Pays("buyer"), Reads("platformConfig"), Writes("event"), Writes("tier"),
      Writes("organizer"), Writes("treasury"), Writes("ticketRecord"),
      Writes("managedAsset"), Reads("assetAuthority"),
      Reads("systemProgram")>>
getPrimaryPurchaseInstructionAsync ==
    <<"platformConfig", "ticketRecord", "managedAsset", "assetAuthority",
      "systemProgram">>
getPrimaryPurchaseInstructionDataEncoder ==
    <<Discriminator("primaryPurchase"), U64("ticketId")>>

getPrimaryPurchaseCoreInstruction ==
    <<Pays("buyer"), Reads("platformConfig"), Writes("event"), Writes("tier"),
      Writes("organizer"), Writes("treasury"), Writes("ticketRecord"),
      Writes("coreAsset"), Reads("assetAuthority"), Reads("coreProgram"),
      Reads("systemProgram")>>
(* Mutant: the asset is derived before the ticket it belongs to. *)
getPrimaryPurchaseCoreInstructionAsyncAssetFirst ==
    <<"platformConfig", "coreAsset", "ticketRecord", "assetAuthority",
      "coreProgram", "systemProgram">>

getPrimaryPurchaseCoreInstructionAsync ==
    <<"platformConfig", "ticketRecord", "coreAsset", "assetAuthority",
      "coreProgram", "systemProgram">>
getPrimaryPurchaseCoreInstructionDataEncoder ==
    <<Discriminator("primaryPurchaseCore"), U64("ticketId")>>

getPublishEventInstruction ==
    <<Signs("organizer"), Reads("platformConfig"), Writes("event")>>
getPublishEventInstructionAsync == <<"platformConfig">>
getPublishEventInstructionDataEncoder == <<Discriminator("publishEvent")>>

getRevokeStaffInstruction ==
    <<Signs("organizer"), Reads("platformConfig"), Reads("event"),
      Reads("staff"), Writes("staffAuthorization")>>
getRevokeStaffInstructionAsync == <<"platformConfig", "staffAuthorization">>
getRevokeStaffInstructionDataEncoder == <<Discriminator("revokeStaff")>>

getSetAssetStandardInstruction ==
    <<Signs("admin"), Writes("platformConfig"), Reads("treasury")>>
getSetAssetStandardInstructionAsync == <<"platformConfig">>
getSetAssetStandardInstructionDataEncoder ==
    <<Discriminator("setAssetStandard"), Standard("assetStandard")>>

getUpdateEventInstruction ==
    <<Signs("organizer"), Reads("platformConfig"), Writes("event")>>
getUpdateEventInstructionAsync == <<"platformConfig">>
getUpdateEventInstructionDataEncoder ==
    <<Discriminator("updateEvent"), Details("details")>>

getUpdatePlatformInstruction ==
    <<Signs("admin"), Writes("platformConfig"), Reads("treasury")>>
getUpdatePlatformInstructionAsync == <<"platformConfig">>
getUpdatePlatformInstructionDataEncoder ==
    <<Discriminator("updatePlatform"), U16("platformFeeBps"), Bool("paused")>>

getUpdateTierInstruction ==
    <<Signs("organizer"), Reads("platformConfig"), Writes("event"),
      Writes("tier")>>
getUpdateTierInstructionAsync == <<"platformConfig">>
getUpdateTierInstructionDataEncoder ==
    <<Discriminator("updateTier"), Text("name"), U64("priceLamports"),
      U32("supply"), Bool("active")>>

---------------------------------------------------------------------------
(* The plugin of the program: every builder by the name of its instruction. *)
Plugin(accounts, defaults, data) ==
    [accounts |-> accounts, defaults |-> defaults, data |-> data]

instructions ==
    [addTier |-> Plugin(getAddTierInstruction,
         getAddTierInstructionAsync, getAddTierInstructionDataEncoder),
     authorizeStaff |-> Plugin(getAuthorizeStaffInstruction,
         getAuthorizeStaffInstructionAsync,
         getAuthorizeStaffInstructionDataEncoder),
     buyResale |-> Plugin(getBuyResaleInstruction,
         getBuyResaleInstructionAsync, getBuyResaleInstructionDataEncoder),
     buyResaleCore |-> Plugin(getBuyResaleCoreInstruction,
         getBuyResaleCoreInstructionAsync,
         getBuyResaleCoreInstructionDataEncoder),
     cancelCheckIn |-> Plugin(getCancelCheckInInstruction,
         <<>>, getCancelCheckInInstructionDataEncoder),
     cancelEvent |-> Plugin(getCancelEventInstruction,
         getCancelEventInstructionAsync,
         getCancelEventInstructionDataEncoder),
     cancelListing |-> Plugin(getCancelListingInstruction,
         getCancelListingInstructionAsync,
         getCancelListingInstructionDataEncoder),
     cancelListingCore |-> Plugin(getCancelListingCoreInstruction,
         getCancelListingCoreInstructionAsync,
         getCancelListingCoreInstructionDataEncoder),
     closeEvent |-> Plugin(getCloseEventInstruction,
         getCloseEventInstructionAsync, getCloseEventInstructionDataEncoder),
     consumeCheckIn |-> Plugin(getConsumeCheckInInstruction,
         getConsumeCheckInInstructionAsync,
         getConsumeCheckInInstructionDataEncoder),
     consumeCheckInCore |-> Plugin(getConsumeCheckInCoreInstruction,
         getConsumeCheckInCoreInstructionAsync,
         getConsumeCheckInCoreInstructionDataEncoder),
     createEvent |-> Plugin(getCreateEventInstruction,
         getCreateEventInstructionAsync,
         getCreateEventInstructionDataEncoder),
     expireCheckIn |-> Plugin(getExpireCheckInInstruction,
         <<>>, getExpireCheckInInstructionDataEncoder),
     giftTicket |-> Plugin(getGiftTicketInstruction,
         getGiftTicketInstructionAsync, getGiftTicketInstructionDataEncoder),
     giftTicketCore |-> Plugin(getGiftTicketCoreInstruction,
         getGiftTicketCoreInstructionAsync,
         getGiftTicketCoreInstructionDataEncoder),
     initializePlatform |-> Plugin(getInitializePlatformInstruction,
         getInitializePlatformInstructionAsync,
         getInitializePlatformInstructionDataEncoder),
     listTicket |-> Plugin(getListTicketInstruction,
         getListTicketInstructionAsync, getListTicketInstructionDataEncoder),
     listTicketCore |-> Plugin(getListTicketCoreInstruction,
         getListTicketCoreInstructionAsync,
         getListTicketCoreInstructionDataEncoder),
     presentCheckIn |-> Plugin(getPresentCheckInInstruction,
         getPresentCheckInInstructionAsync,
         getPresentCheckInInstructionDataEncoder),
     presentCheckInCore |-> Plugin(getPresentCheckInCoreInstruction,
         getPresentCheckInCoreInstructionAsync,
         getPresentCheckInCoreInstructionDataEncoder),
     primaryPurchase |-> Plugin(getPrimaryPurchaseInstruction,
         getPrimaryPurchaseInstructionAsync,
         getPrimaryPurchaseInstructionDataEncoder),
     primaryPurchaseCore |-> Plugin(getPrimaryPurchaseCoreInstruction,
         getPrimaryPurchaseCoreInstructionAsync,
         getPrimaryPurchaseCoreInstructionDataEncoder),
     publishEvent |-> Plugin(getPublishEventInstruction,
         getPublishEventInstructionAsync,
         getPublishEventInstructionDataEncoder),
     revokeStaff |-> Plugin(getRevokeStaffInstruction,
         getRevokeStaffInstructionAsync,
         getRevokeStaffInstructionDataEncoder),
     setAssetStandard |-> Plugin(getSetAssetStandardInstruction,
         getSetAssetStandardInstructionAsync,
         getSetAssetStandardInstructionDataEncoder),
     updateEvent |-> Plugin(getUpdateEventInstruction,
         getUpdateEventInstructionAsync,
         getUpdateEventInstructionDataEncoder),
     updatePlatform |-> Plugin(getUpdatePlatformInstruction,
         getUpdatePlatformInstructionAsync,
         getUpdatePlatformInstructionDataEncoder),
     updateTier |-> Plugin(getUpdateTierInstruction,
         getUpdateTierInstructionAsync, getUpdateTierInstructionDataEncoder)]
=============================
