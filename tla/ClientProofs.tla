---- MODULE ClientProofs ----
(***************************************************************************)
(* The client between the pages and the program, for any wallets, any      *)
(* operations made of its instructions and any wallet changes between two  *)
(* awaited addresses.  The lists of accounts, defaults and fields are      *)
(* compared with the program's once, instruction by instruction; the rest  *)
(* speaks of any instruction that fits.                                    *)
(***************************************************************************)
EXTENDS GeneratedClient, SequenceTheorems, TLAPS

---------------------------------------------------------------------------
(* What the client generates and what the program declares *)

(* Who signs an instruction. *)
Signer ==
    {"admin", "organizer", "buyer", "currentOwner", "seller", "holder", "keeper", "staff"}

(* A role is among the accounts. *)
Names(metas, role) == \E p \in DOMAIN metas : metas[p].role = role

(* The client passes the accounts the program declares, in that order, and *)
(* encodes the arguments it reads.                                         *)
Encoded(name) ==
    /\ DOMAIN instructions[name].accounts = 1 .. Len(instructions[name].accounts)
    /\ Len(instructions[name].accounts) \in Nat
    /\ instructions[name].accounts = centlalia_ticketing[name].context.accounts
    /\ instructions[name].data
          = <<Discriminator(name)>> \o centlalia_ticketing[name].arguments

(* One account signs. *)
SignedBy(context, authority) ==
    /\ Names(context.accounts, authority)
    /\ \A p \in DOMAIN context.accounts :
          context.accounts[p].signer <=> context.accounts[p].role = authority

(* What is checked against seeds is, with its seeds, among the accounts. *)
Seeded(context, authority) ==
    \A role \in context.seeds :
        /\ role \notin {authority, "organizer", "staff"}
        /\ \A other \in Seeds(role) \cup {role} : Names(context.accounts, other)

(* A default of a builder can be derived from what its caller always gives *)
(* and the defaults before it.                                             *)
Derivable(builder, authority) ==
    /\ DOMAIN builder.defaults = 1 .. Len(builder.defaults) /\ Len(builder.defaults) \in Nat
    /\ \A q \in DOMAIN builder.defaults :
          /\ Names(builder.accounts, builder.defaults[q])
          /\ builder.defaults[q] \notin {authority, "organizer", "staff"}
          /\ \A seed \in Seeds(builder.defaults[q]) :
                /\ Names(builder.accounts, seed)
                /\ \/ \A p \in DOMAIN builder.defaults : builder.defaults[p] # seed
                   \/ \E p \in 1 .. q - 1 : builder.defaults[p] = seed

(* All that, for one instruction and the account that signs it.            *)
Fits(name, authority) ==
    /\ Encoded(name)
    /\ SignedBy(centlalia_ticketing[name].context, authority)
    /\ Seeded(centlalia_ticketing[name].context, authority)
    /\ Derivable(instructions[name], authority)

(* The generated builders fit the program, instruction by instruction.     *)
LEMMA BuildersFit ==
    ASSUME NEW name \in DOMAIN instructions
    PROVE  \E authority \in Signer : Fits(name, authority)
<1>1. CASE name = "addTier"
    <2>1. instructions[name] = Plugin(getAddTierInstruction,
            getAddTierInstructionAsync, getAddTierInstructionDataEncoder)
        BY <1>1 DEF instructions
    <2>2. centlalia_ticketing[name] = Handler(AddTier, <<U16("tierId"),
            Text("name"), U64("priceLamports"), U32("supply")>>)
        BY <1>1 DEF centlalia_ticketing
    <2>3. Encoded(name)
        BY <2>1, <2>2, <1>1 DEF Encoded, Plugin, Handler, AddTier,
            getAddTierInstruction, getAddTierInstructionDataEncoder
    <2>4. SignedBy(AddTier, "organizer") /\ Seeded(AddTier, "organizer")
        BY DEF SignedBy, Seeded, Seeds, Names, Reads, Writes, Signs, Pays, Account,
            AddTier
    <2>5. Derivable(instructions[name], "organizer")
        BY <2>1 DEF Derivable, Seeds, Names, Reads, Writes, Signs, Pays, Account,
            Plugin, getAddTierInstruction, getAddTierInstructionAsync
    <2> QED BY <2>2, <2>3, <2>4, <2>5 DEF Fits, Signer, Handler
<1>2. CASE name = "authorizeStaff"
    <2>1. instructions[name] = Plugin(getAuthorizeStaffInstruction,
            getAuthorizeStaffInstructionAsync,
            getAuthorizeStaffInstructionDataEncoder)
        BY <1>2 DEF instructions
    <2>2. centlalia_ticketing[name] = Handler(AuthorizeStaff, <<>>)
        BY <1>2 DEF centlalia_ticketing
    <2>3. Encoded(name)
        BY <2>1, <2>2, <1>2 DEF Encoded, Plugin, Handler, AuthorizeStaff,
            getAuthorizeStaffInstruction, getAuthorizeStaffInstructionDataEncoder
    <2>4. SignedBy(AuthorizeStaff, "organizer") /\ Seeded(AuthorizeStaff, "organizer")
        BY DEF SignedBy, Seeded, Seeds, Names, Reads, Writes, Signs, Pays, Account,
            AuthorizeStaff
    <2>5. Derivable(instructions[name], "organizer")
        BY <2>1 DEF Derivable, Seeds, Names, Reads, Writes, Signs, Pays, Account,
            Plugin, getAuthorizeStaffInstruction, getAuthorizeStaffInstructionAsync
    <2> QED BY <2>2, <2>3, <2>4, <2>5 DEF Fits, Signer, Handler
<1>3. CASE name = "buyResale"
    <2>1. instructions[name] = Plugin(getBuyResaleInstruction,
            getBuyResaleInstructionAsync, getBuyResaleInstructionDataEncoder)
        BY <1>3 DEF instructions
    <2>2. centlalia_ticketing[name] = Handler(BuyResale, <<>>)
        BY <1>3 DEF centlalia_ticketing
    <2>3. Encoded(name)
        BY <2>1, <2>2, <1>3 DEF Encoded, Plugin, Handler, BuyResale,
            getBuyResaleInstruction, getBuyResaleInstructionDataEncoder
    <2>4. SignedBy(BuyResale, "buyer") /\ Seeded(BuyResale, "buyer")
        BY DEF SignedBy, Seeded, Seeds, Names, Reads, Writes, Signs, Pays, Account,
            BuyResale
    <2>5. Derivable(instructions[name], "buyer")
        BY <2>1 DEF Derivable, Seeds, Names, Reads, Writes, Signs, Pays, Account,
            Plugin, getBuyResaleInstruction, getBuyResaleInstructionAsync
    <2> QED BY <2>2, <2>3, <2>4, <2>5 DEF Fits, Signer, Handler
<1>4. CASE name = "buyResaleCore"
    <2>1. instructions[name] = Plugin(getBuyResaleCoreInstruction,
            getBuyResaleCoreInstructionAsync,
            getBuyResaleCoreInstructionDataEncoder)
        BY <1>4 DEF instructions
    <2>2. centlalia_ticketing[name] = Handler(BuyResaleCore, <<>>)
        BY <1>4 DEF centlalia_ticketing
    <2>3. Encoded(name)
        BY <2>1, <2>2, <1>4 DEF Encoded, Plugin, Handler, BuyResaleCore,
            getBuyResaleCoreInstruction, getBuyResaleCoreInstructionDataEncoder
    <2>4. SignedBy(BuyResaleCore, "buyer") /\ Seeded(BuyResaleCore, "buyer")
        BY DEF SignedBy, Seeded, Seeds, Names, Reads, Writes, Signs, Pays, Account,
            BuyResaleCore
    <2>5. Derivable(instructions[name], "buyer")
        BY <2>1 DEF Derivable, Seeds, Names, Reads, Writes, Signs, Pays, Account,
            Plugin, getBuyResaleCoreInstruction, getBuyResaleCoreInstructionAsync
    <2> QED BY <2>2, <2>3, <2>4, <2>5 DEF Fits, Signer, Handler
<1>5. CASE name = "cancelCheckIn"
    <2>1. instructions[name] = Plugin(getCancelCheckInInstruction, <<>>,
            getCancelCheckInInstructionDataEncoder)
        BY <1>5 DEF instructions
    <2>2. centlalia_ticketing[name] = Handler(CancelCheckIn, <<>>)
        BY <1>5 DEF centlalia_ticketing
    <2>3. Encoded(name)
        BY <2>1, <2>2, <1>5 DEF Encoded, Plugin, Handler, CancelCheckIn,
            getCancelCheckInInstruction, getCancelCheckInInstructionDataEncoder
    <2>4. SignedBy(CancelCheckIn, "holder") /\ Seeded(CancelCheckIn, "holder")
        BY DEF SignedBy, Seeded, Seeds, Names, Reads, Writes, Signs, Pays, Account,
            CancelCheckIn
    <2>5. Derivable(instructions[name], "holder")
        BY <2>1 DEF Derivable, Seeds, Names, Reads, Writes, Signs, Pays, Account,
            Plugin, getCancelCheckInInstruction
    <2> QED BY <2>2, <2>3, <2>4, <2>5 DEF Fits, Signer, Handler
<1>6. CASE name = "cancelEvent"
    <2>1. instructions[name] = Plugin(getCancelEventInstruction,
            getCancelEventInstructionAsync, getCancelEventInstructionDataEncoder)
        BY <1>6 DEF instructions
    <2>2. centlalia_ticketing[name] = Handler(ManageEvent, <<>>)
        BY <1>6 DEF centlalia_ticketing
    <2>3. Encoded(name)
        BY <2>1, <2>2, <1>6 DEF Encoded, Plugin, Handler, ManageEvent,
            getCancelEventInstruction, getCancelEventInstructionDataEncoder
    <2>4. SignedBy(ManageEvent, "organizer") /\ Seeded(ManageEvent, "organizer")
        BY DEF SignedBy, Seeded, Seeds, Names, Reads, Writes, Signs, Pays, Account,
            ManageEvent
    <2>5. Derivable(instructions[name], "organizer")
        BY <2>1 DEF Derivable, Seeds, Names, Reads, Writes, Signs, Pays, Account,
            Plugin, getCancelEventInstruction, getCancelEventInstructionAsync
    <2> QED BY <2>2, <2>3, <2>4, <2>5 DEF Fits, Signer, Handler
<1>7. CASE name = "cancelListing"
    <2>1. instructions[name] = Plugin(getCancelListingInstruction,
            getCancelListingInstructionAsync,
            getCancelListingInstructionDataEncoder)
        BY <1>7 DEF instructions
    <2>2. centlalia_ticketing[name] = Handler(CancelListing, <<>>)
        BY <1>7 DEF centlalia_ticketing
    <2>3. Encoded(name)
        BY <2>1, <2>2, <1>7 DEF Encoded, Plugin, Handler, CancelListing,
            getCancelListingInstruction, getCancelListingInstructionDataEncoder
    <2>4. SignedBy(CancelListing, "seller") /\ Seeded(CancelListing, "seller")
        BY DEF SignedBy, Seeded, Seeds, Names, Reads, Writes, Signs, Pays, Account,
            CancelListing
    <2>5. Derivable(instructions[name], "seller")
        BY <2>1 DEF Derivable, Seeds, Names, Reads, Writes, Signs, Pays, Account,
            Plugin, getCancelListingInstruction, getCancelListingInstructionAsync
    <2> QED BY <2>2, <2>3, <2>4, <2>5 DEF Fits, Signer, Handler
<1>8. CASE name = "cancelListingCore"
    <2>1. instructions[name] = Plugin(getCancelListingCoreInstruction,
            getCancelListingCoreInstructionAsync,
            getCancelListingCoreInstructionDataEncoder)
        BY <1>8 DEF instructions
    <2>2. centlalia_ticketing[name] = Handler(CancelListingCore, <<>>)
        BY <1>8 DEF centlalia_ticketing
    <2>3. Encoded(name)
        BY <2>1, <2>2, <1>8 DEF Encoded, Plugin, Handler, CancelListingCore,
            getCancelListingCoreInstruction,
            getCancelListingCoreInstructionDataEncoder
    <2>4. SignedBy(CancelListingCore, "seller") /\ Seeded(CancelListingCore, "seller")
        BY DEF SignedBy, Seeded, Seeds, Names, Reads, Writes, Signs, Pays, Account,
            CancelListingCore
    <2>5. Derivable(instructions[name], "seller")
        BY <2>1 DEF Derivable, Seeds, Names, Reads, Writes, Signs, Pays, Account,
            Plugin, getCancelListingCoreInstruction,
            getCancelListingCoreInstructionAsync
    <2> QED BY <2>2, <2>3, <2>4, <2>5 DEF Fits, Signer, Handler
<1>9. CASE name = "closeEvent"
    <2>1. instructions[name] = Plugin(getCloseEventInstruction,
            getCloseEventInstructionAsync, getCloseEventInstructionDataEncoder)
        BY <1>9 DEF instructions
    <2>2. centlalia_ticketing[name] = Handler(ManageEvent, <<>>)
        BY <1>9 DEF centlalia_ticketing
    <2>3. Encoded(name)
        BY <2>1, <2>2, <1>9 DEF Encoded, Plugin, Handler, ManageEvent,
            getCloseEventInstruction, getCloseEventInstructionDataEncoder
    <2>4. SignedBy(ManageEvent, "organizer") /\ Seeded(ManageEvent, "organizer")
        BY DEF SignedBy, Seeded, Seeds, Names, Reads, Writes, Signs, Pays, Account,
            ManageEvent
    <2>5. Derivable(instructions[name], "organizer")
        BY <2>1 DEF Derivable, Seeds, Names, Reads, Writes, Signs, Pays, Account,
            Plugin, getCloseEventInstruction, getCloseEventInstructionAsync
    <2> QED BY <2>2, <2>3, <2>4, <2>5 DEF Fits, Signer, Handler
<1>10. CASE name = "consumeCheckIn"
    <2>1. instructions[name] = Plugin(getConsumeCheckInInstruction,
            getConsumeCheckInInstructionAsync,
            getConsumeCheckInInstructionDataEncoder)
        BY <1>10 DEF instructions
    <2>2. centlalia_ticketing[name] = Handler(ConsumeCheckIn, <<>>)
        BY <1>10 DEF centlalia_ticketing
    <2>3. Encoded(name)
        BY <2>1, <2>2, <1>10 DEF Encoded, Plugin, Handler, ConsumeCheckIn,
            getConsumeCheckInInstruction, getConsumeCheckInInstructionDataEncoder
    <2>4. SignedBy(ConsumeCheckIn, "staff") /\ Seeded(ConsumeCheckIn, "staff")
        BY DEF SignedBy, Seeded, Seeds, Names, Reads, Writes, Signs, Pays, Account,
            ConsumeCheckIn
    <2>5. Derivable(instructions[name], "staff")
        BY <2>1 DEF Derivable, Seeds, Names, Reads, Writes, Signs, Pays, Account,
            Plugin, getConsumeCheckInInstruction, getConsumeCheckInInstructionAsync
    <2> QED BY <2>2, <2>3, <2>4, <2>5 DEF Fits, Signer, Handler
<1>11. CASE name = "consumeCheckInCore"
    <2>1. instructions[name] = Plugin(getConsumeCheckInCoreInstruction,
            getConsumeCheckInCoreInstructionAsync,
            getConsumeCheckInCoreInstructionDataEncoder)
        BY <1>11 DEF instructions
    <2>2. centlalia_ticketing[name] = Handler(ConsumeCheckInCore, <<>>)
        BY <1>11 DEF centlalia_ticketing
    <2>3. Encoded(name)
        BY <2>1, <2>2, <1>11 DEF Encoded, Plugin, Handler, ConsumeCheckInCore,
            getConsumeCheckInCoreInstruction,
            getConsumeCheckInCoreInstructionDataEncoder
    <2>4. SignedBy(ConsumeCheckInCore, "staff") /\ Seeded(ConsumeCheckInCore, "staff")
        BY DEF SignedBy, Seeded, Seeds, Names, Reads, Writes, Signs, Pays, Account,
            ConsumeCheckInCore
    <2>5. Derivable(instructions[name], "staff")
        BY <2>1 DEF Derivable, Seeds, Names, Reads, Writes, Signs, Pays, Account,
            Plugin, getConsumeCheckInCoreInstruction,
            getConsumeCheckInCoreInstructionAsync
    <2> QED BY <2>2, <2>3, <2>4, <2>5 DEF Fits, Signer, Handler
<1>12. CASE name = "createEvent"
    <2>1. instructions[name] = Plugin(getCreateEventInstruction,
            getCreateEventInstructionAsync, getCreateEventInstructionDataEncoder)
        BY <1>12 DEF instructions
    <2>2. centlalia_ticketing[name] = Handler(CreateEvent, <<U64("eventId"),
            Details("details")>>)
        BY <1>12 DEF centlalia_ticketing
    <2>3. Encoded(name)
        BY <2>1, <2>2, <1>12 DEF Encoded, Plugin, Handler, CreateEvent,
            getCreateEventInstruction, getCreateEventInstructionDataEncoder
    <2>4. SignedBy(CreateEvent, "organizer") /\ Seeded(CreateEvent, "organizer")
        BY DEF SignedBy, Seeded, Seeds, Names, Reads, Writes, Signs, Pays, Account,
            CreateEvent
    <2>5. Derivable(instructions[name], "organizer")
        BY <2>1 DEF Derivable, Seeds, Names, Reads, Writes, Signs, Pays, Account,
            Plugin, getCreateEventInstruction, getCreateEventInstructionAsync
    <2> QED BY <2>2, <2>3, <2>4, <2>5 DEF Fits, Signer, Handler
<1>13. CASE name = "expireCheckIn"
    <2>1. instructions[name] = Plugin(getExpireCheckInInstruction, <<>>,
            getExpireCheckInInstructionDataEncoder)
        BY <1>13 DEF instructions
    <2>2. centlalia_ticketing[name] = Handler(ExpireCheckIn, <<>>)
        BY <1>13 DEF centlalia_ticketing
    <2>3. Encoded(name)
        BY <2>1, <2>2, <1>13 DEF Encoded, Plugin, Handler, ExpireCheckIn,
            getExpireCheckInInstruction, getExpireCheckInInstructionDataEncoder
    <2>4. SignedBy(ExpireCheckIn, "keeper") /\ Seeded(ExpireCheckIn, "keeper")
        BY DEF SignedBy, Seeded, Seeds, Names, Reads, Writes, Signs, Pays, Account,
            ExpireCheckIn
    <2>5. Derivable(instructions[name], "keeper")
        BY <2>1 DEF Derivable, Seeds, Names, Reads, Writes, Signs, Pays, Account,
            Plugin, getExpireCheckInInstruction
    <2> QED BY <2>2, <2>3, <2>4, <2>5 DEF Fits, Signer, Handler
<1>14. CASE name = "giftTicket"
    <2>1. instructions[name] = Plugin(getGiftTicketInstruction,
            getGiftTicketInstructionAsync, getGiftTicketInstructionDataEncoder)
        BY <1>14 DEF instructions
    <2>2. centlalia_ticketing[name] = Handler(GiftTicket, <<>>)
        BY <1>14 DEF centlalia_ticketing
    <2>3. Encoded(name)
        BY <2>1, <2>2, <1>14 DEF Encoded, Plugin, Handler, GiftTicket,
            getGiftTicketInstruction, getGiftTicketInstructionDataEncoder
    <2>4. SignedBy(GiftTicket, "currentOwner") /\ Seeded(GiftTicket, "currentOwner")
        BY DEF SignedBy, Seeded, Seeds, Names, Reads, Writes, Signs, Pays, Account,
            GiftTicket
    <2>5. Derivable(instructions[name], "currentOwner")
        BY <2>1 DEF Derivable, Seeds, Names, Reads, Writes, Signs, Pays, Account,
            Plugin, getGiftTicketInstruction, getGiftTicketInstructionAsync
    <2> QED BY <2>2, <2>3, <2>4, <2>5 DEF Fits, Signer, Handler
<1>15. CASE name = "giftTicketCore"
    <2>1. instructions[name] = Plugin(getGiftTicketCoreInstruction,
            getGiftTicketCoreInstructionAsync,
            getGiftTicketCoreInstructionDataEncoder)
        BY <1>15 DEF instructions
    <2>2. centlalia_ticketing[name] = Handler(GiftTicketCore, <<>>)
        BY <1>15 DEF centlalia_ticketing
    <2>3. Encoded(name)
        BY <2>1, <2>2, <1>15 DEF Encoded, Plugin, Handler, GiftTicketCore,
            getGiftTicketCoreInstruction, getGiftTicketCoreInstructionDataEncoder
    <2>4. SignedBy(GiftTicketCore, "currentOwner") /\ Seeded(GiftTicketCore, "currentOwner")
        BY DEF SignedBy, Seeded, Seeds, Names, Reads, Writes, Signs, Pays, Account,
            GiftTicketCore
    <2>5. Derivable(instructions[name], "currentOwner")
        BY <2>1 DEF Derivable, Seeds, Names, Reads, Writes, Signs, Pays, Account,
            Plugin, getGiftTicketCoreInstruction, getGiftTicketCoreInstructionAsync
    <2> QED BY <2>2, <2>3, <2>4, <2>5 DEF Fits, Signer, Handler
<1>16. CASE name = "initializePlatform"
    <2>1. instructions[name] = Plugin(getInitializePlatformInstruction,
            getInitializePlatformInstructionAsync,
            getInitializePlatformInstructionDataEncoder)
        BY <1>16 DEF instructions
    <2>2. centlalia_ticketing[name] = Handler(InitializePlatform, <<
            U16("platformFeeBps"), Standard("assetStandard")>>)
        BY <1>16 DEF centlalia_ticketing
    <2>3. Encoded(name)
        BY <2>1, <2>2, <1>16 DEF Encoded, Plugin, Handler, InitializePlatform,
            getInitializePlatformInstruction,
            getInitializePlatformInstructionDataEncoder
    <2>4. SignedBy(InitializePlatform, "admin") /\ Seeded(InitializePlatform, "admin")
        BY DEF SignedBy, Seeded, Seeds, Names, Reads, Writes, Signs, Pays, Account,
            InitializePlatform
    <2>5. Derivable(instructions[name], "admin")
        BY <2>1 DEF Derivable, Seeds, Names, Reads, Writes, Signs, Pays, Account,
            Plugin, getInitializePlatformInstruction,
            getInitializePlatformInstructionAsync
    <2> QED BY <2>2, <2>3, <2>4, <2>5 DEF Fits, Signer, Handler
<1>17. CASE name = "listTicket"
    <2>1. instructions[name] = Plugin(getListTicketInstruction,
            getListTicketInstructionAsync, getListTicketInstructionDataEncoder)
        BY <1>17 DEF instructions
    <2>2. centlalia_ticketing[name] = Handler(ListTicket, <<U32("listingId"),
            U64("priceLamports"), I64("expiresAt")>>)
        BY <1>17 DEF centlalia_ticketing
    <2>3. Encoded(name)
        BY <2>1, <2>2, <1>17 DEF Encoded, Plugin, Handler, ListTicket,
            getListTicketInstruction, getListTicketInstructionDataEncoder
    <2>4. SignedBy(ListTicket, "seller") /\ Seeded(ListTicket, "seller")
        BY DEF SignedBy, Seeded, Seeds, Names, Reads, Writes, Signs, Pays, Account,
            ListTicket
    <2>5. Derivable(instructions[name], "seller")
        BY <2>1 DEF Derivable, Seeds, Names, Reads, Writes, Signs, Pays, Account,
            Plugin, getListTicketInstruction, getListTicketInstructionAsync
    <2> QED BY <2>2, <2>3, <2>4, <2>5 DEF Fits, Signer, Handler
<1>18. CASE name = "listTicketCore"
    <2>1. instructions[name] = Plugin(getListTicketCoreInstruction,
            getListTicketCoreInstructionAsync,
            getListTicketCoreInstructionDataEncoder)
        BY <1>18 DEF instructions
    <2>2. centlalia_ticketing[name] = Handler(ListTicketCore, <<U32("listingId"),
            U64("priceLamports"), I64("expiresAt")>>)
        BY <1>18 DEF centlalia_ticketing
    <2>3. Encoded(name)
        BY <2>1, <2>2, <1>18 DEF Encoded, Plugin, Handler, ListTicketCore,
            getListTicketCoreInstruction, getListTicketCoreInstructionDataEncoder
    <2>4. SignedBy(ListTicketCore, "seller") /\ Seeded(ListTicketCore, "seller")
        BY DEF SignedBy, Seeded, Seeds, Names, Reads, Writes, Signs, Pays, Account,
            ListTicketCore
    <2>5. Derivable(instructions[name], "seller")
        BY <2>1 DEF Derivable, Seeds, Names, Reads, Writes, Signs, Pays, Account,
            Plugin, getListTicketCoreInstruction, getListTicketCoreInstructionAsync
    <2> QED BY <2>2, <2>3, <2>4, <2>5 DEF Fits, Signer, Handler
<1>19. CASE name = "presentCheckIn"
    <2>1. instructions[name] = Plugin(getPresentCheckInInstruction,
            getPresentCheckInInstructionAsync,
            getPresentCheckInInstructionDataEncoder)
        BY <1>19 DEF instructions
    <2>2. centlalia_ticketing[name] = Handler(PresentCheckIn, <<U64("intentNonce"),
            I64("expiresAt")>>)
        BY <1>19 DEF centlalia_ticketing
    <2>3. Encoded(name)
        BY <2>1, <2>2, <1>19 DEF Encoded, Plugin, Handler, PresentCheckIn,
            getPresentCheckInInstruction, getPresentCheckInInstructionDataEncoder
    <2>4. SignedBy(PresentCheckIn, "holder") /\ Seeded(PresentCheckIn, "holder")
        BY DEF SignedBy, Seeded, Seeds, Names, Reads, Writes, Signs, Pays, Account,
            PresentCheckIn
    <2>5. Derivable(instructions[name], "holder")
        BY <2>1 DEF Derivable, Seeds, Names, Reads, Writes, Signs, Pays, Account,
            Plugin, getPresentCheckInInstruction, getPresentCheckInInstructionAsync
    <2> QED BY <2>2, <2>3, <2>4, <2>5 DEF Fits, Signer, Handler
<1>20. CASE name = "presentCheckInCore"
    <2>1. instructions[name] = Plugin(getPresentCheckInCoreInstruction,
            getPresentCheckInCoreInstructionAsync,
            getPresentCheckInCoreInstructionDataEncoder)
        BY <1>20 DEF instructions
    <2>2. centlalia_ticketing[name] = Handler(PresentCheckInCore, <<
            U64("intentNonce"), I64("expiresAt")>>)
        BY <1>20 DEF centlalia_ticketing
    <2>3. Encoded(name)
        BY <2>1, <2>2, <1>20 DEF Encoded, Plugin, Handler, PresentCheckInCore,
            getPresentCheckInCoreInstruction,
            getPresentCheckInCoreInstructionDataEncoder
    <2>4. SignedBy(PresentCheckInCore, "holder") /\ Seeded(PresentCheckInCore, "holder")
        BY DEF SignedBy, Seeded, Seeds, Names, Reads, Writes, Signs, Pays, Account,
            PresentCheckInCore
    <2>5. Derivable(instructions[name], "holder")
        BY <2>1 DEF Derivable, Seeds, Names, Reads, Writes, Signs, Pays, Account,
            Plugin, getPresentCheckInCoreInstruction,
            getPresentCheckInCoreInstructionAsync
    <2> QED BY <2>2, <2>3, <2>4, <2>5 DEF Fits, Signer, Handler
<1>21. CASE name = "primaryPurchase"
    <2>1. instructions[name] = Plugin(getPrimaryPurchaseInstruction,
            getPrimaryPurchaseInstructionAsync,
            getPrimaryPurchaseInstructionDataEncoder)
        BY <1>21 DEF instructions
    <2>2. centlalia_ticketing[name] = Handler(PrimaryPurchase, <<U64("ticketId")>>)
        BY <1>21 DEF centlalia_ticketing
    <2>3. Encoded(name)
        BY <2>1, <2>2, <1>21 DEF Encoded, Plugin, Handler, PrimaryPurchase,
            getPrimaryPurchaseInstruction, getPrimaryPurchaseInstructionDataEncoder
    <2>4. SignedBy(PrimaryPurchase, "buyer") /\ Seeded(PrimaryPurchase, "buyer")
        BY DEF SignedBy, Seeded, Seeds, Names, Reads, Writes, Signs, Pays, Account,
            PrimaryPurchase
    <2>5. Derivable(instructions[name], "buyer")
        BY <2>1 DEF Derivable, Seeds, Names, Reads, Writes, Signs, Pays, Account,
            Plugin, getPrimaryPurchaseInstruction,
            getPrimaryPurchaseInstructionAsync
    <2> QED BY <2>2, <2>3, <2>4, <2>5 DEF Fits, Signer, Handler
<1>22. CASE name = "primaryPurchaseCore"
    <2>1. instructions[name] = Plugin(getPrimaryPurchaseCoreInstruction,
            getPrimaryPurchaseCoreInstructionAsync,
            getPrimaryPurchaseCoreInstructionDataEncoder)
        BY <1>22 DEF instructions
    <2>2. centlalia_ticketing[name] = Handler(PrimaryPurchaseCore, <<
            U64("ticketId")>>)
        BY <1>22 DEF centlalia_ticketing
    <2>3. Encoded(name)
        BY <2>1, <2>2, <1>22 DEF Encoded, Plugin, Handler, PrimaryPurchaseCore,
            getPrimaryPurchaseCoreInstruction,
            getPrimaryPurchaseCoreInstructionDataEncoder
    <2>4. SignedBy(PrimaryPurchaseCore, "buyer") /\ Seeded(PrimaryPurchaseCore, "buyer")
        BY DEF SignedBy, Seeded, Seeds, Names, Reads, Writes, Signs, Pays, Account,
            PrimaryPurchaseCore
    <2>5. Derivable(instructions[name], "buyer")
        BY <2>1 DEF Derivable, Seeds, Names, Reads, Writes, Signs, Pays, Account,
            Plugin, getPrimaryPurchaseCoreInstruction,
            getPrimaryPurchaseCoreInstructionAsync
    <2> QED BY <2>2, <2>3, <2>4, <2>5 DEF Fits, Signer, Handler
<1>23. CASE name = "publishEvent"
    <2>1. instructions[name] = Plugin(getPublishEventInstruction,
            getPublishEventInstructionAsync, getPublishEventInstructionDataEncoder)
        BY <1>23 DEF instructions
    <2>2. centlalia_ticketing[name] = Handler(ManageEvent, <<>>)
        BY <1>23 DEF centlalia_ticketing
    <2>3. Encoded(name)
        BY <2>1, <2>2, <1>23 DEF Encoded, Plugin, Handler, ManageEvent,
            getPublishEventInstruction, getPublishEventInstructionDataEncoder
    <2>4. SignedBy(ManageEvent, "organizer") /\ Seeded(ManageEvent, "organizer")
        BY DEF SignedBy, Seeded, Seeds, Names, Reads, Writes, Signs, Pays, Account,
            ManageEvent
    <2>5. Derivable(instructions[name], "organizer")
        BY <2>1 DEF Derivable, Seeds, Names, Reads, Writes, Signs, Pays, Account,
            Plugin, getPublishEventInstruction, getPublishEventInstructionAsync
    <2> QED BY <2>2, <2>3, <2>4, <2>5 DEF Fits, Signer, Handler
<1>24. CASE name = "revokeStaff"
    <2>1. instructions[name] = Plugin(getRevokeStaffInstruction,
            getRevokeStaffInstructionAsync, getRevokeStaffInstructionDataEncoder)
        BY <1>24 DEF instructions
    <2>2. centlalia_ticketing[name] = Handler(RevokeStaff, <<>>)
        BY <1>24 DEF centlalia_ticketing
    <2>3. Encoded(name)
        BY <2>1, <2>2, <1>24 DEF Encoded, Plugin, Handler, RevokeStaff,
            getRevokeStaffInstruction, getRevokeStaffInstructionDataEncoder
    <2>4. SignedBy(RevokeStaff, "organizer") /\ Seeded(RevokeStaff, "organizer")
        BY DEF SignedBy, Seeded, Seeds, Names, Reads, Writes, Signs, Pays, Account,
            RevokeStaff
    <2>5. Derivable(instructions[name], "organizer")
        BY <2>1 DEF Derivable, Seeds, Names, Reads, Writes, Signs, Pays, Account,
            Plugin, getRevokeStaffInstruction, getRevokeStaffInstructionAsync
    <2> QED BY <2>2, <2>3, <2>4, <2>5 DEF Fits, Signer, Handler
<1>25. CASE name = "setAssetStandard"
    <2>1. instructions[name] = Plugin(getSetAssetStandardInstruction,
            getSetAssetStandardInstructionAsync,
            getSetAssetStandardInstructionDataEncoder)
        BY <1>25 DEF instructions
    <2>2. centlalia_ticketing[name] = Handler(UpdatePlatform, <<
            Standard("assetStandard")>>)
        BY <1>25 DEF centlalia_ticketing
    <2>3. Encoded(name)
        BY <2>1, <2>2, <1>25 DEF Encoded, Plugin, Handler, UpdatePlatform,
            getSetAssetStandardInstruction,
            getSetAssetStandardInstructionDataEncoder
    <2>4. SignedBy(UpdatePlatform, "admin") /\ Seeded(UpdatePlatform, "admin")
        BY DEF SignedBy, Seeded, Seeds, Names, Reads, Writes, Signs, Pays, Account,
            UpdatePlatform
    <2>5. Derivable(instructions[name], "admin")
        BY <2>1 DEF Derivable, Seeds, Names, Reads, Writes, Signs, Pays, Account,
            Plugin, getSetAssetStandardInstruction,
            getSetAssetStandardInstructionAsync
    <2> QED BY <2>2, <2>3, <2>4, <2>5 DEF Fits, Signer, Handler
<1>26. CASE name = "updateEvent"
    <2>1. instructions[name] = Plugin(getUpdateEventInstruction,
            getUpdateEventInstructionAsync, getUpdateEventInstructionDataEncoder)
        BY <1>26 DEF instructions
    <2>2. centlalia_ticketing[name] = Handler(ManageEvent, <<Details("details")>>)
        BY <1>26 DEF centlalia_ticketing
    <2>3. Encoded(name)
        BY <2>1, <2>2, <1>26 DEF Encoded, Plugin, Handler, ManageEvent,
            getUpdateEventInstruction, getUpdateEventInstructionDataEncoder
    <2>4. SignedBy(ManageEvent, "organizer") /\ Seeded(ManageEvent, "organizer")
        BY DEF SignedBy, Seeded, Seeds, Names, Reads, Writes, Signs, Pays, Account,
            ManageEvent
    <2>5. Derivable(instructions[name], "organizer")
        BY <2>1 DEF Derivable, Seeds, Names, Reads, Writes, Signs, Pays, Account,
            Plugin, getUpdateEventInstruction, getUpdateEventInstructionAsync
    <2> QED BY <2>2, <2>3, <2>4, <2>5 DEF Fits, Signer, Handler
<1>27. CASE name = "updatePlatform"
    <2>1. instructions[name] = Plugin(getUpdatePlatformInstruction,
            getUpdatePlatformInstructionAsync,
            getUpdatePlatformInstructionDataEncoder)
        BY <1>27 DEF instructions
    <2>2. centlalia_ticketing[name] = Handler(UpdatePlatform, <<
            U16("platformFeeBps"), Bool("paused")>>)
        BY <1>27 DEF centlalia_ticketing
    <2>3. Encoded(name)
        BY <2>1, <2>2, <1>27 DEF Encoded, Plugin, Handler, UpdatePlatform,
            getUpdatePlatformInstruction, getUpdatePlatformInstructionDataEncoder
    <2>4. SignedBy(UpdatePlatform, "admin") /\ Seeded(UpdatePlatform, "admin")
        BY DEF SignedBy, Seeded, Seeds, Names, Reads, Writes, Signs, Pays, Account,
            UpdatePlatform
    <2>5. Derivable(instructions[name], "admin")
        BY <2>1 DEF Derivable, Seeds, Names, Reads, Writes, Signs, Pays, Account,
            Plugin, getUpdatePlatformInstruction, getUpdatePlatformInstructionAsync
    <2> QED BY <2>2, <2>3, <2>4, <2>5 DEF Fits, Signer, Handler
<1>28. CASE name = "updateTier"
    <2>1. instructions[name] = Plugin(getUpdateTierInstruction,
            getUpdateTierInstructionAsync, getUpdateTierInstructionDataEncoder)
        BY <1>28 DEF instructions
    <2>2. centlalia_ticketing[name] = Handler(UpdateTier, <<Text("name"),
            U64("priceLamports"), U32("supply"), Bool("active")>>)
        BY <1>28 DEF centlalia_ticketing
    <2>3. Encoded(name)
        BY <2>1, <2>2, <1>28 DEF Encoded, Plugin, Handler, UpdateTier,
            getUpdateTierInstruction, getUpdateTierInstructionDataEncoder
    <2>4. SignedBy(UpdateTier, "organizer") /\ Seeded(UpdateTier, "organizer")
        BY DEF SignedBy, Seeded, Seeds, Names, Reads, Writes, Signs, Pays, Account,
            UpdateTier
    <2>5. Derivable(instructions[name], "organizer")
        BY <2>1 DEF Derivable, Seeds, Names, Reads, Writes, Signs, Pays, Account,
            Plugin, getUpdateTierInstruction, getUpdateTierInstructionAsync
    <2> QED BY <2>2, <2>3, <2>4, <2>5 DEF Fits, Signer, Handler
<1> QED BY <1>1, <1>2, <1>3, <1>4, <1>5, <1>6, <1>7, <1>8, <1>9, <1>10, <1>11,
        <1>12, <1>13, <1>14, <1>15, <1>16, <1>17, <1>18, <1>19, <1>20, <1>21, <1>22,
        <1>23, <1>24, <1>25, <1>26, <1>27, <1>28 DEF instructions

---------------------------------------------------------------------------
(* Addresses *)

(* The one account that signs is the authority; nothing else about an      *)
(* instruction depends on which it is.                                     *)
LEMMA AuthorityFits ==
    ASSUME NEW name \in DOMAIN instructions
    PROVE  /\ Fits(name, Authority(name)) /\ Authority(name) \in Signer
           /\ Authority(name) \in Roles(name)
<1>1. PICK authority \in Signer : Fits(name, authority)
    BY BuildersFit
<1> DEFINE metas == instructions[name].accounts
<1>2. /\ metas = centlalia_ticketing[name].context.accounts
      /\ \E p \in DOMAIN metas : metas[p].role = authority
      /\ \A p \in DOMAIN metas : metas[p].signer <=> metas[p].role = authority
    BY <1>1 DEF Fits, Encoded, SignedBy, Names
<1> DEFINE signing == CHOOSE meta \in Range(metas) : meta.signer
<1>3. \E meta \in Range(metas) : meta.signer
    BY <1>2 DEF Range
<1>4. signing \in Range(metas) /\ signing.signer
    BY <1>3
<1>5. signing.role = authority
    BY <1>2, <1>4 DEF Range
<1>6. Authority(name) = authority
    BY <1>5 DEF Authority
<1>7. authority \in Roles(name)
    BY <1>2 DEF Roles, Range
<1> QED BY <1>1, <1>6, <1>7

(* A role is an account of the instruction exactly when it is named.       *)
LEMMA RolesNamed ==
    ASSUME NEW name \in DOMAIN instructions, NEW role
    PROVE  Names(instructions[name].accounts, role) <=> role \in Roles(name)
BY DEF Names, Roles, Range

(* What an account of an instruction is, for the page that built it: the   *)
(* wallet that signs, or what the page passes or would have passed.        *)
Meant(name, page, role) ==
    IF role = Authority(name) THEN page ELSE Passed(name, page)[role]

(* The organizer, the event, the ticket and the staff an instruction is    *)
(* about.                                                                  *)
Host(name, page) == IF Authority(name) = "organizer" THEN page ELSE Organizer

EventOf(name, page) == findEventPda(Host(name, page), "eventId")

TicketOf(name, page) == findTicketRecordPda(EventOf(name, page), "ticketId")

StaffOf(name, page) == IF Authority(name) = "staff" THEN page ELSE <<"staff">>

(* What a page passes for each role.                                       *)
Place(name, page, role) ==
    CASE role = "platformConfig" -> findPlatformConfigPda
      [] role = "event" -> EventOf(name, page)
      [] role = "organizer" -> Host(name, page)
      [] role = "staff" -> StaffOf(name, page)
      [] role = "ticketRecord" -> TicketOf(name, page)
      [] role = "assetAuthority" -> findAssetAuthorityPda(findPlatformConfigPda)
      [] role = "tier" -> findTierPda(EventOf(name, page), "tierId")
      [] role = "staffAuthorization" ->
            findStaffAuthorizationPda(EventOf(name, page), StaffOf(name, page))
      [] role = "managedAsset" -> findManagedAssetPda(TicketOf(name, page))
      [] role = "coreAsset" -> findCoreAssetPda(TicketOf(name, page))
      [] role = "listing" -> findListingPda(TicketOf(name, page), "listingId")
      [] role = "checkInIntent" ->
            findCheckInIntentPda(TicketOf(name, page), "intentNonce")
      [] OTHER -> <<role>>

LEMMA PassedAccounts ==
    ASSUME NEW name, NEW page, NEW role \in Roles(name)
    PROVE  Passed(name, page)[role] = Place(name, page, role)
BY DEF Passed, Host, EventOf, TicketOf, StaffOf, Place, AddressOf

(* What the seeds of a derived address are meant to be.                    *)
LEMMA SeedsMeant ==
    ASSUME NEW name \in DOMAIN instructions, NEW page, NEW seed \in Roles(name),
           seed \in {"platformConfig", "event", "organizer", "staff", "ticketRecord"}
    PROVE  Meant(name, page, seed) = Place(name, page, seed)
<1>1. Authority(name) \notin {"event", "platformConfig", "ticketRecord"}
    BY AuthorityFits DEF Signer
<1>2. CASE seed # Authority(name)
    BY <1>2, PassedAccounts DEF Meant
<1>3. CASE seed = Authority(name)
    <2>1. seed \in {"organizer", "staff"}
        BY <1>1, <1>3
    <2> QED BY <1>3, <2>1 DEF Meant, Place, Host, StaffOf
<1> QED BY <1>2, <1>3

(* An address derived from accounts that are as the page means them is as  *)
(* the page means it.                                                      *)
LEMMA DerivedAsMeant ==
    ASSUME NEW name \in DOMAIN instructions, NEW page,
           NEW role \in Roles(name), role \notin {Authority(name), "organizer", "staff"},
           Seeds(role) \subseteq Roles(name),
           NEW account, \A seed \in Seeds(role) : account[seed] = Meant(name, page, seed)
    PROVE  AddressOf(role, account) = Meant(name, page, role)
<1>1. Seeds(role) \subseteq {"platformConfig", "event", "organizer", "staff", "ticketRecord"}
    BY DEF Seeds
<1>2. \A seed \in Seeds(role) : account[seed] = Place(name, page, seed)
    <2> TAKE seed \in Seeds(role)
    <2>1. Meant(name, page, seed) = Place(name, page, seed)
        BY <1>1, SeedsMeant
    <2> QED BY <2>1
<1>3. Meant(name, page, role) = Place(name, page, role)
    BY PassedAccounts DEF Meant
<1>4. CASE role = "event"
    <2>1. account["organizer"] = Host(name, page)
        BY <1>2, <1>4 DEF Seeds, Place
    <2> QED BY <1>3, <1>4, <2>1 DEF AddressOf, Place, EventOf
<1>5. CASE role \in {"tier", "ticketRecord"}
    <2>1. account["event"] = EventOf(name, page)
        BY <1>2, <1>5 DEF Seeds, Place
    <2> QED BY <1>3, <1>5, <2>1 DEF AddressOf, Place, TicketOf
<1>6. CASE role = "assetAuthority"
    <2>1. account["platformConfig"] = findPlatformConfigPda
        BY <1>2, <1>6 DEF Seeds, Place
    <2> QED BY <1>3, <1>6, <2>1 DEF AddressOf, Place
<1>7. CASE role = "staffAuthorization"
    <2>1. account["event"] = EventOf(name, page) /\ account["staff"] = StaffOf(name, page)
        BY <1>2, <1>7 DEF Seeds, Place
    <2> QED BY <1>3, <1>7, <2>1 DEF AddressOf, Place
<1>8. CASE role \in {"managedAsset", "coreAsset", "listing", "checkInIntent"}
    <2>1. account["ticketRecord"] = TicketOf(name, page)
        BY <1>2, <1>8 DEF Seeds, Place
    <2> QED BY <1>3, <1>8, <2>1 DEF AddressOf, Place
<1>9. CASE role \notin {"event", "tier", "ticketRecord", "assetAuthority",
                        "staffAuthorization", "managedAsset", "coreAsset", "listing",
                        "checkInIntent"}
    BY <1>3, <1>9 DEF AddressOf, Place
<1> QED BY <1>4, <1>5, <1>6, <1>7, <1>8, <1>9

---------------------------------------------------------------------------
(* The invariant *)

(* What BuiltAsDeclared asks of one instruction of a message.              *)
Declared(m, page) ==
    LET handler  == centlalia_ticketing[m.name]
        declared == handler.context.accounts
    IN
    /\ m.data = <<Discriminator(m.name)>> \o handler.arguments
    /\ \A f \in Range(m.data) :
          f.type = "EventDetails" => getEventDetailsEncoder = EventDetails
    /\ Len(m.accounts) = Len(declared)
    /\ Privileges(handler.context, m.accounts)
    /\ m.authority = page =>
          /\ SeedsChecked(handler.context, m.accounts)
          /\ \A p \in DOMAIN declared :
                /\ declared[p].role \in DOMAIN Passed(m.name, page)
                /\ m.accounts[p].address =
                      IF declared[p].signer THEN page
                      ELSE Passed(m.name, page)[declared[p].role]

(* The accounts of a draft have the addresses the page means, provided the *)
(* wallet of the operation is still the one the draft is built for.        *)
Intended(build, name, page) ==
    build.authority = page =>
        \A role \in DOMAIN build.account : build.account[role] = Meant(name, page, role)

(* A builder between two awaited addresses: only defaults are missing, and *)
(* none of those already gone through.                                     *)
Drafted(build, name, page) ==
    LET defaults == instructions[name].defaults IN
    /\ build = [account |-> build.account, authority |-> build.authority,
                next |-> build.next]
    /\ build.account = [role \in DOMAIN build.account |-> build.account[role]]
    /\ build.next \in 1 .. Len(defaults) + 1
    /\ DOMAIN build.account \subseteq Roles(name)
    /\ Roles(name) \ Range(defaults) \subseteq DOMAIN build.account
    /\ \A q \in 1 .. build.next - 1 : defaults[q] \in DOMAIN build.account
    /\ Intended(build, name, page)

(* The operation under way.                                                *)
JobInv(j) ==
    /\ j = [operation |-> j.operation, page |-> j.page, message |-> j.message,
            build |-> j.build, step |-> j.step, payer |-> j.payer]
    /\ j.step \in {"build", "compile", "sign"}
    /\ j.message \in Seq(Range(j.message))
    /\ \A k \in DOMAIN j.message : Declared(j.message[k], j.page)
    /\ j.build # None => \A name \in DOMAIN instructions :
          name = j.operation[Len(j.message) + 1] => Drafted(j.build, name, j.page)

ClientInv == job # None => JobInv(job)

(* A sequence grows by its last element.                                   *)
LEMMA AppendGrows ==
    ASSUME NEW s, s \in Seq(Range(s)), NEW e
    PROVE  /\ Append(s, e) \in Seq(Range(Append(s, e)))
           /\ Len(Append(s, e)) = Len(s) + 1
           /\ \A k \in DOMAIN Append(s, e) :
                 (k \in DOMAIN s /\ Append(s, e)[k] = s[k]) \/ Append(s, e)[k] = e
<1> DEFINE S == Range(s) \cup {e}
           t == Append(s, e)
<1>1. s \in Seq(S) /\ e \in S
    BY SeqMonotonic
<1>2. /\ t \in Seq(S) /\ Len(t) = Len(s) + 1
      /\ \A i \in 1 .. Len(s) : t[i] = s[i]
      /\ t[Len(s) + 1] = e
    BY <1>1, AppendProperties
<1>3. DOMAIN t = 1 .. Len(t) /\ DOMAIN s = 1 .. Len(s) /\ Len(s) \in Nat
    BY <1>1, <1>2, LenProperties
<1>4. \A k \in DOMAIN t : (k \in DOMAIN s /\ t[k] = s[k]) \/ t[k] = e
    BY <1>2, <1>3
<1>5. t \in Seq(Range(t))
    <2>1. t \in [1 .. Len(t) -> Range(t)]
        BY <1>2, <1>3, LenProperties DEF Range
    <2>2. Len(t) \in Nat
        BY <1>2, <1>3
    <2> QED BY <2>1, <2>2, SeqDef
<1> QED BY <1>2, <1>4, <1>5

---------------------------------------------------------------------------
(* Steps of a builder *)

(* A builder starts with the wallet connected now and what its caller      *)
(* gave.                                                                   *)
LEMMA BuildDrafts ==
    ASSUME NEW name \in DOMAIN instructions, NEW omitted, NEW page, NEW signer,
           omitted \subseteq Range(instructions[name].defaults)
    PROVE  LET build == [account |-> [role \in (Roles(name) \ omitted) \cup {Authority(name)} |->
                                        IF role = Authority(name) THEN signer
                                        ELSE Passed(name, page)[role]],
                         authority |-> signer, next |-> 1]
           IN  Drafted(build, name, page)
<1> DEFINE account == [role \in (Roles(name) \ omitted) \cup {Authority(name)} |->
                         IF role = Authority(name) THEN signer
                         ELSE Passed(name, page)[role]]
           build == [account |-> account, authority |-> signer, next |-> 1]
<1>1. Authority(name) \in Roles(name) /\ Len(instructions[name].defaults) \in Nat
    BY AuthorityFits DEF Fits, Derivable
<1>2. /\ build.account = account /\ build.authority = signer /\ build.next = 1
      /\ DOMAIN account = (Roles(name) \ omitted) \cup {Authority(name)}
    OBVIOUS
<1>3. Intended(build, name, page)
    BY DEF Intended, Meant
<1>4. /\ build.next \in 1 .. Len(instructions[name].defaults) + 1
      /\ \A q \in 1 .. build.next - 1 :
            instructions[name].defaults[q] \in DOMAIN build.account
    BY <1>1, <1>2
<1>5. /\ DOMAIN build.account \subseteq Roles(name)
      /\ Roles(name) \ Range(instructions[name].defaults) \subseteq DOMAIN build.account
    BY <1>1, <1>2
<1>6. build.account = [role \in DOMAIN build.account |-> build.account[role]]
    OBVIOUS
<1> QED BY <1>3, <1>4, <1>5, <1>6 DEF Drafted

(* The default a builder has come to can be derived from the accounts it   *)
(* has.                                                                    *)
LEMMA SeedsAtHand ==
    ASSUME NEW name \in DOMAIN instructions, NEW build, NEW page,
           Drafted(build, name, page), build.next <= Len(instructions[name].defaults)
    PROVE  LET role == instructions[name].defaults[build.next] IN
           /\ role \in Roles(name) /\ role \notin {Authority(name), "organizer", "staff"}
           /\ Seeds(role) \subseteq DOMAIN build.account
<1> DEFINE defaults == instructions[name].defaults
           role == defaults[build.next]
<1>1. /\ DOMAIN defaults = 1 .. Len(defaults) /\ Len(defaults) \in Nat
      /\ \A q \in DOMAIN defaults :
            /\ Names(instructions[name].accounts, defaults[q])
            /\ defaults[q] \notin {Authority(name), "organizer", "staff"}
            /\ \A seed \in Seeds(defaults[q]) :
                  /\ Names(instructions[name].accounts, seed)
                  /\ \/ \A p \in DOMAIN defaults : defaults[p] # seed
                     \/ \E p \in 1 .. q - 1 : defaults[p] = seed
    BY AuthorityFits DEF Fits, Derivable
<1>2. build.next \in DOMAIN defaults
    BY <1>1 DEF Drafted
<1>3. ASSUME NEW seed \in Seeds(role)
      PROVE  seed \in DOMAIN build.account
    <2>1. seed \in Roles(name)
        BY <1>1, <1>2, <1>3, RolesNamed
    <2>2. CASE \A p \in DOMAIN defaults : defaults[p] # seed
        <3>1. seed \notin Range(defaults)
            BY <2>2 DEF Range
        <3> QED BY <2>1, <3>1 DEF Drafted
    <2>3. CASE \E p \in 1 .. build.next - 1 : defaults[p] = seed
        BY <2>3 DEF Drafted
    <2> QED BY <1>1, <1>2, <1>3, <2>2, <2>3
<1> QED BY <1>1, <1>2, <1>3, RolesNamed

(* A default is passed over or derived; either way the next is in reach.   *)
LEMMA PassedOver ==
    ASSUME NEW name \in DOMAIN instructions, NEW build, NEW page,
           Drafted(build, name, page), build.next <= Len(instructions[name].defaults),
           instructions[name].defaults[build.next] \in DOMAIN build.account
    PROVE  Drafted([build EXCEPT !.next = @ + 1], name, page)
<1> DEFINE later == [build EXCEPT !.next = @ + 1]
           defaults == instructions[name].defaults
<1>1. /\ later = [account |-> build.account, authority |-> build.authority,
                  next |-> build.next + 1]
      /\ later.account = build.account /\ later.authority = build.authority
      /\ later.next = build.next + 1
    BY DEF Drafted
<1>2. build.next \in 1 .. Len(defaults) + 1 /\ Len(defaults) \in Nat
    BY AuthorityFits DEF Drafted, Fits, Derivable
<1>3. \A q \in 1 .. later.next - 1 : defaults[q] \in DOMAIN later.account
    <2> TAKE q \in 1 .. later.next - 1
    <2>1. q \in 1 .. build.next - 1 \/ q = build.next
        BY <1>1, <1>2
    <2> QED BY <1>1, <2>1 DEF Drafted
<1>4. later.next \in 1 .. Len(defaults) + 1
    BY <1>1, <1>2
<1>5. Intended(later, name, page)
    BY <1>1 DEF Drafted, Intended
<1> HIDE DEF later
<1> QED BY <1>1, <1>3, <1>4, <1>5 DEF Drafted

LEMMA Derived ==
    ASSUME NEW name \in DOMAIN instructions, NEW build, NEW page,
           Drafted(build, name, page), build.next <= Len(instructions[name].defaults),
           instructions[name].defaults[build.next] \notin DOMAIN build.account
    PROVE  LET role == instructions[name].defaults[build.next] IN
           Drafted([account |-> Filled(build.account, role),
                    authority |-> build.authority, next |-> build.next + 1], name, page)
<1> DEFINE defaults == instructions[name].defaults
           role == defaults[build.next]
           address == AddressOf(role, build.account)
           account == Filled(build.account, role)
           later == [account |-> account, authority |-> build.authority,
                     next |-> build.next + 1]
<1>1. /\ role \in Roles(name) /\ role \notin {Authority(name), "organizer", "staff"}
      /\ Seeds(role) \subseteq DOMAIN build.account
    BY SeedsAtHand
<1>2. /\ later = [account |-> later.account, authority |-> later.authority,
                  next |-> later.next]
      /\ later.account = account /\ later.authority = build.authority
      /\ later.next = build.next + 1
    OBVIOUS
<1>3. /\ DOMAIN account = DOMAIN build.account \cup {role}
      /\ \A r \in DOMAIN build.account : account[r] = build.account[r]
      /\ account[role] = address
      /\ account = [r \in DOMAIN account |-> account[r]]
    BY DEF Filled
<1>4. build.next \in 1 .. Len(defaults) + 1 /\ Len(defaults) \in Nat
    BY AuthorityFits DEF Drafted, Fits, Derivable
<1>5. \A q \in 1 .. later.next - 1 : defaults[q] \in DOMAIN later.account
    <2> TAKE q \in 1 .. later.next - 1
    <2>1. q \in 1 .. build.next - 1 \/ q = build.next
        BY <1>2, <1>4
    <2> QED BY <1>2, <1>3, <2>1 DEF Drafted
<1>6. later.next \in 1 .. Len(defaults) + 1
    BY <1>2, <1>4
<1>7. ASSUME build.authority = page
      PROVE  \A r \in DOMAIN account : account[r] = Meant(name, page, r)
    <2>1. \A r \in DOMAIN build.account : build.account[r] = Meant(name, page, r)
        BY <1>7 DEF Drafted, Intended
    <2>2. Seeds(role) \subseteq Roles(name)
        BY <1>1 DEF Drafted
    <2>3. address = Meant(name, page, role)
        BY <1>1, <2>1, <2>2, DerivedAsMeant
    <2> QED BY <1>3, <2>1, <2>3
<1>8. Intended(later, name, page)
    BY <1>2, <1>7 DEF Intended
<1>9. /\ DOMAIN account \subseteq Roles(name)
      /\ Roles(name) \ Range(defaults) \subseteq DOMAIN account
    BY <1>1, <1>3 DEF Drafted
<1>10. later.account = [r \in DOMAIN later.account |-> later.account[r]]
    BY <1>2, <1>3
<1> HIDE DEF later, account
<1>11. Drafted(later, name, page)
    BY <1>2, <1>5, <1>6, <1>8, <1>9, <1>10 DEF Drafted
<1> QED BY <1>11 DEF later, account

---------------------------------------------------------------------------
(* A finished instruction *)

(* The program reads at the position that names a role what the page means *)
(* by it, and its check of the seeds succeeds.                             *)
AllMeant(name, page, metas) ==
    \A p \in DOMAIN instructions[name].accounts :
        metas[p].address = Meant(name, page, instructions[name].accounts[p].role)

LEMMA SeedsHold ==
    ASSUME NEW name \in DOMAIN instructions, NEW page, NEW metas,
           AllMeant(name, page, metas)
    PROVE  SeedsChecked(centlalia_ticketing[name].context, metas)
<1> DEFINE context == centlalia_ticketing[name].context
           named == {meta.role : meta \in Range(context.accounts)}
           found == [role \in named |-> At(context, metas, role)]
<1>1. /\ instructions[name].accounts = context.accounts
      /\ \A role \in context.seeds :
            /\ role \notin {Authority(name), "organizer", "staff"}
            /\ \A other \in Seeds(role) \cup {role} : Names(context.accounts, other)
    BY AuthorityFits DEF Fits, Encoded, Seeded
<1>2. named = Roles(name)
    BY <1>1 DEF Roles
<1>3. ASSUME NEW role \in Roles(name)
      PROVE  At(context, metas, role) = Meant(name, page, role)
    <2> DEFINE position == CHOOSE p \in DOMAIN context.accounts :
                              context.accounts[p].role = role
    <2>1. position \in DOMAIN context.accounts /\ context.accounts[position].role = role
        BY <1>1, RolesNamed DEF Names
    <2>2. At(context, metas, role) = metas[position].address
        BY DEF At
    <2>3. metas[position].address = Meant(name, page, context.accounts[position].role)
        BY <1>1, <2>1 DEF AllMeant
    <2> QED BY <2>1, <2>2, <2>3
<1>4. \A role \in Roles(name) : found[role] = Meant(name, page, role)
    BY <1>2, <1>3
<1> HIDE DEF found
<1>5. ASSUME NEW role \in context.seeds
      PROVE  found[role] = AddressOf(role, found)
    <2>1. role \in Roles(name) /\ Seeds(role) \subseteq Roles(name)
        BY <1>1, RolesNamed
    <2>2. \A seed \in Seeds(role) : found[seed] = Meant(name, page, seed)
        BY <1>4, <2>1
    <2>3. AddressOf(role, found) = Meant(name, page, role)
        BY <1>1, <2>1, <2>2, DerivedAsMeant
    <2> QED BY <1>4, <2>1, <2>3
<1> QED BY <1>5 DEF SeedsChecked, found

(* The layout of an event's details is the program's.                      *)
LEMMA DetailsEncoded == getEventDetailsEncoder = EventDetails
BY DEF getEventDetailsEncoder, EventDetails

(* What a builder makes of a draft without gaps is as the program declares *)
(* it.                                                                     *)
LEMMA FinishedAsDeclared ==
    ASSUME NEW name \in DOMAIN instructions, NEW build, NEW page,
           Drafted(build, name, page), build.next > Len(instructions[name].defaults)
    PROVE  LET list == instructions[name].accounts IN
           Declared([name |-> name, authority |-> build.authority,
                     accounts |-> [p \in DOMAIN list |-> Meta(list[p], build.account)],
                     data |-> instructions[name].data], page)
<1> DEFINE list == instructions[name].accounts
           defaults == instructions[name].defaults
           context == centlalia_ticketing[name].context
           metas == [p \in DOMAIN list |-> Meta(list[p], build.account)]
           m == [name |-> name, authority |-> build.authority, accounts |-> metas,
                 data |-> instructions[name].data]
<1>1. /\ DOMAIN list = 1 .. Len(list) /\ Len(list) \in Nat
      /\ list = context.accounts
      /\ instructions[name].data
            = <<Discriminator(name)>> \o centlalia_ticketing[name].arguments
      /\ \A p \in DOMAIN list : list[p].signer <=> list[p].role = Authority(name)
      /\ DOMAIN defaults = 1 .. Len(defaults) /\ Len(defaults) \in Nat
    BY AuthorityFits DEF Fits, Encoded, SignedBy, Derivable
<1>2. DOMAIN build.account = Roles(name)
    <2>1. \A q \in DOMAIN defaults : defaults[q] \in DOMAIN build.account
        BY <1>1 DEF Drafted
    <2>2. Range(defaults) \subseteq DOMAIN build.account
        BY <2>1 DEF Range
    <2> QED BY <2>2 DEF Drafted
<1>3. \A p \in DOMAIN list : list[p].role \in Roles(name)
    BY DEF Roles, Range
<1>4. /\ DOMAIN metas = DOMAIN list
      /\ \A p \in DOMAIN list :
            /\ metas[p].address = build.account[list[p].role]
            /\ metas[p].writable = list[p].writable
            /\ metas[p].signer = list[p].signer
    BY <1>2, <1>3 DEF Meta
<1>5. Len(metas) = Len(list)
    BY <1>1, <1>4
<1> HIDE DEF metas
<1>6. Privileges(context, metas)
    BY <1>1, <1>4, <1>5 DEF Privileges
<1>7. ASSUME build.authority = page
      PROVE  /\ SeedsChecked(context, metas)
             /\ \A p \in DOMAIN list :
                   /\ list[p].role \in DOMAIN Passed(name, page)
                   /\ metas[p].address =
                         IF list[p].signer THEN page ELSE Passed(name, page)[list[p].role]
    <2>1. \A role \in Roles(name) : build.account[role] = Meant(name, page, role)
        BY <1>2, <1>7 DEF Drafted, Intended
    <2>2. \A p \in DOMAIN list : metas[p].address = Meant(name, page, list[p].role)
        BY <1>3, <1>4, <2>1
    <2>3. SeedsChecked(context, metas)
        BY <2>2, SeedsHold DEF AllMeant
    <2>4. DOMAIN Passed(name, page) = Roles(name)
        BY DEF Passed
    <2> QED BY <1>1, <1>3, <2>2, <2>3, <2>4 DEF Meant
<1>8. /\ m.name = name /\ m.authority = build.authority /\ m.accounts = metas
      /\ m.data = instructions[name].data
    OBVIOUS
<1> HIDE DEF m
<1>9. Declared(m, page)
    <2>1. /\ m.data = <<Discriminator(m.name)>> \o centlalia_ticketing[m.name].arguments
          /\ Len(m.accounts) = Len(context.accounts)
        BY <1>1, <1>5, <1>8
    <2>2. Privileges(centlalia_ticketing[m.name].context, m.accounts)
        BY <1>6, <1>8
    <2>3. ASSUME m.authority = page
          PROVE  /\ SeedsChecked(centlalia_ticketing[m.name].context, m.accounts)
                 /\ \A p \in DOMAIN context.accounts :
                      /\ context.accounts[p].role \in DOMAIN Passed(m.name, page)
                      /\ m.accounts[p].address =
                            IF context.accounts[p].signer THEN page
                            ELSE Passed(m.name, page)[context.accounts[p].role]
        BY <1>1, <1>7, <1>8, <2>3
    <2> QED BY <1>8, <2>1, <2>2, <2>3, DetailsEncoded DEF Declared
<1> QED BY <1>9 DEF m, metas

---------------------------------------------------------------------------
(* The invariant is inductive *)

LEMMA StartKeeps ==
    ASSUME NEW operation, Start(operation)
    PROVE  JobInv(job')
<1> DEFINE j == [operation |-> operation, page |-> wallet, message |-> <<>>,
                 build |-> None, step |-> "build", payer |-> None]
<1>1. job' = j
    BY DEF Start
<1>2. /\ j.operation = operation /\ j.page = wallet /\ j.message = <<>>
      /\ j.build = None /\ j.step = "build" /\ j.payer = None
    OBVIOUS
<1>3. j.message \in Seq(Range(j.message)) /\ DOMAIN j.message = {}
    BY <1>2
<1>4. JobInv(j)
    BY <1>2, <1>3 DEF JobInv
<1> QED BY <1>1, <1>4

(* A builder's step leaves the rest of the operation alone.                *)
LEMMA BuildingKeeps ==
    ASSUME NEW j, JobInv(j), NEW name \in DOMAIN instructions, NEW build,
           name = j.operation[Len(j.message) + 1], Drafted(build, name, j.page)
    PROVE  JobInv([j EXCEPT !.build = build])
<1> DEFINE later == [j EXCEPT !.build = build]
<1>1. j = [operation |-> j.operation, page |-> j.page, message |-> j.message,
           build |-> j.build, step |-> j.step, payer |-> j.payer]
    BY DEF JobInv
<1>2. later = [operation |-> j.operation, page |-> j.page, message |-> j.message,
               build |-> build, step |-> j.step, payer |-> j.payer]
    BY <1>1
<1>3. /\ later.operation = j.operation /\ later.page = j.page
      /\ later.message = j.message /\ later.build = build
      /\ later.step = j.step /\ later.payer = j.payer
    BY <1>2
<1> HIDE DEF later
<1> QED BY <1>2, <1>3 DEF JobInv, later

LEMMA BuildKeeps ==
    ASSUME ClientInv, NEW name \in DOMAIN instructions, NEW omitted, Build(name, omitted)
    PROVE  JobInv(job')
<1> DEFINE build == [account |-> [role \in (Roles(name) \ omitted) \cup {Authority(name)} |->
                                    IF role = Authority(name) THEN wallet
                                    ELSE Passed(name, job.page)[role]],
                     authority |-> wallet, next |-> 1]
<1>1. JobInv(job) /\ name = job.operation[Len(job.message) + 1]
    BY DEF ClientInv, Build, Building
<1>2. Drafted(build, name, job.page)
    BY BuildDrafts DEF Build
<1>3. job' = [job EXCEPT !.build = build]
    BY DEF Build
<1> HIDE DEF build
<1> QED BY <1>1, <1>2, <1>3, BuildingKeeps

(* No default is ever without its seeds.                                   *)
LEMMA ResolveKeeps ==
    ASSUME ClientInv, NEW name \in DOMAIN instructions, ResolveDefault(name)
    PROVE  JobInv(job')
<1> DEFINE build == job.build
           role == instructions[name].defaults[build.next]
<1>1. JobInv(job) /\ name = job.operation[Len(job.message) + 1]
    BY DEF ClientInv, ResolveDefault, Building
<1>2. /\ Drafted(build, name, job.page)
      /\ build.next <= Len(instructions[name].defaults)
    BY <1>1 DEF JobInv, ResolveDefault
<1>3. CASE role \in DOMAIN build.account
    <2>1. job' = [job EXCEPT !.build = [build EXCEPT !.next = @ + 1]]
        BY <1>3 DEF ResolveDefault
    <2>2. Drafted([build EXCEPT !.next = @ + 1], name, job.page)
        BY <1>2, <1>3, PassedOver
    <2> QED BY <1>1, <2>1, <2>2, BuildingKeeps
<1>4. CASE role \notin DOMAIN build.account
    <2> DEFINE later == [account |-> Filled(build.account, role),
                         authority |-> build.authority, next |-> build.next + 1]
    <2>1. Seeds(role) \subseteq DOMAIN build.account
        BY <1>2, SeedsAtHand
    <2>2. job' = [job EXCEPT !.build = later]
        BY <1>4, <2>1 DEF ResolveDefault
    <2>3. Drafted(later, name, job.page)
        BY <1>2, <1>4, Derived
    <2> HIDE DEF later
    <2> QED BY <1>1, <2>2, <2>3, BuildingKeeps
<1> QED BY <1>3, <1>4

LEMMA BuiltKeeps ==
    ASSUME ClientInv, NEW name \in DOMAIN instructions, Built(name)
    PROVE  JobInv(job')
<1> DEFINE list == instructions[name].accounts
           m == [name |-> name, authority |-> job.build.authority,
                 accounts |-> [p \in DOMAIN list |-> Meta(list[p], job.build.account)],
                 data |-> instructions[name].data]
           later == [job EXCEPT !.message = Append(@, m), !.build = None]
<1>1. JobInv(job) /\ name = job.operation[Len(job.message) + 1] /\ job.build # None
    BY DEF ClientInv, Built, Building
<1>2. /\ Drafted(job.build, name, job.page)
      /\ job.build.next > Len(instructions[name].defaults)
    BY <1>1 DEF JobInv, Built
<1>3. Declared(m, job.page)
    BY <1>2, FinishedAsDeclared
<1>4. job' = later
    BY DEF Built
<1> HIDE DEF m
<1>5. job = [operation |-> job.operation, page |-> job.page, message |-> job.message,
             build |-> job.build, step |-> job.step, payer |-> job.payer]
    BY <1>1 DEF JobInv
<1> DEFINE grown == Append(job.message, m)
<1>6. later = [operation |-> job.operation, page |-> job.page, message |-> grown,
               build |-> None, step |-> job.step, payer |-> job.payer]
    <2>1. later = [job EXCEPT !.message = grown, !.build = None]
        OBVIOUS
    <2> HIDE DEF later, grown
    <2> QED BY <1>5, <2>1
<1>7. /\ later.operation = job.operation /\ later.page = job.page
      /\ later.message = grown /\ later.build = None
      /\ later.step = job.step /\ later.payer = job.payer
    BY <1>6
<1>8. job.message \in Seq(Range(job.message))
    BY <1>1 DEF JobInv
<1>9. later.message \in Seq(Range(later.message))
    BY <1>7, <1>8, AppendGrows
<1>10. \A k \in DOMAIN later.message : Declared(later.message[k], later.page)
    <2> TAKE k \in DOMAIN later.message
    <2>1. \/ k \in DOMAIN job.message /\ later.message[k] = job.message[k]
          \/ later.message[k] = m
        BY <1>7, <1>8, AppendGrows
    <2> QED BY <1>1, <1>3, <1>7, <2>1 DEF JobInv
<1> HIDE DEF later
<1>11. JobInv(later)
    BY <1>1, <1>6, <1>7, <1>9, <1>10 DEF JobInv
<1> QED BY <1>4, <1>11

(* Sending does not touch what was built.                                  *)
LEMMA SendingKeeps ==
    ASSUME ClientInv, Diagnose \/ Compile
    PROVE  JobInv(job')
<1>1. JobInv(job)
    BY DEF ClientInv, Diagnose, Compile
<1>2. job = [operation |-> job.operation, page |-> job.page, message |-> job.message,
             build |-> job.build, step |-> job.step, payer |-> job.payer]
    BY <1>1 DEF JobInv
<1>3. CASE Diagnose
    <2>1. job' = [operation |-> job.operation, page |-> job.page, message |-> job.message,
                  build |-> job.build, step |-> "compile", payer |-> job.payer]
        BY <1>2, <1>3 DEF Diagnose
    <2> QED BY <1>1, <2>1 DEF JobInv
<1>4. CASE Compile
    <2>1. job' = [operation |-> job.operation, page |-> job.page, message |-> job.message,
                  build |-> job.build, step |-> "sign", payer |-> wallet]
        BY <1>2, <1>4 DEF Compile
    <2> QED BY <1>1, <2>1 DEF JobInv
<1> QED BY <1>3, <1>4

LEMMA ClientInductive == Spec => []ClientInv
<1>1. Init => ClientInv
    BY DEF Init, ClientInv
<1>2. ClientInv /\ [Next]_vars => ClientInv'
    <2> SUFFICES ASSUME ClientInv, [Next]_vars
                 PROVE  ClientInv'
        OBVIOUS
    <2>1. CASE \E w \in Wallet \cup {None} : Connect(w)
        BY <2>1 DEF Connect, ClientInv
    <2>2. CASE \E operation \in Operation : Start(operation)
        BY <2>2, StartKeeps DEF ClientInv
    <2>3. ASSUME NEW name \in DOMAIN instructions,
                 \/ \E omitted \in SUBSET Range(instructions[name].defaults) :
                       Build(name, omitted)
                 \/ ResolveDefault(name)
                 \/ Built(name)
          PROVE  ClientInv'
        <3>1. CASE \E omitted \in SUBSET Range(instructions[name].defaults) :
                      Build(name, omitted)
            BY <3>1, BuildKeeps DEF ClientInv
        <3>2. CASE ResolveDefault(name)
            BY <3>2, ResolveKeeps DEF ClientInv
        <3>3. CASE Built(name)
            BY <3>3, BuiltKeeps DEF ClientInv
        <3> QED BY <2>3, <3>1, <3>2, <3>3
    <2>4. CASE WalletMissing \/ Execute \/ Refused
        BY <2>4 DEF WalletMissing, Execute, Refused, ClientInv
    <2>5. CASE Diagnose \/ Compile
        BY <2>5, SendingKeeps DEF ClientInv
    <2>6. CASE UNCHANGED vars
        BY <2>6 DEF vars, ClientInv
    <2> QED BY <2>1, <2>2, <2>3, <2>4, <2>5, <2>6 DEF Next
<1> QED BY <1>1, <1>2, PTL DEF Spec

---------------------------------------------------------------------------
(* Whatever its caller leaves out and whichever wallets come and go while  *)
(* its addresses are awaited, an instruction built for the wallet of the   *)
(* operation has each account where the program reads it, with the         *)
(* privileges it demands and at the address its seeds give, and its        *)
(* arguments at their offsets.                                             *)
THEOREM InstructionsAsDeclared == Spec => []BuiltAsDeclared
<1>1. ClientInv => BuiltAsDeclared
    BY DEF ClientInv, JobInv, Declared, BuiltAsDeclared
<1> QED BY <1>1, ClientInductive, PTL

(* No builder meets a default that cannot be derived yet.                  *)
THEOREM DefaultsAlwaysResolve == Spec => []DefaultsResolve
<1>1. ClientInv => DefaultsResolve
    BY DEF ClientInv, JobInv, DefaultsResolve
<1> QED BY <1>1, ClientInductive, PTL
====
