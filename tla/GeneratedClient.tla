---- MODULE GeneratedClient ----
(***************************************************************************)
(* The client between the pages and the program.  An operation of a page   *)
(* builds one or more instructions with the wallet connected at the time   *)
(* of each, resolving what its caller left out one awaited address after   *)
(* the other; it sends them as one transaction, paid and signed by the     *)
(* wallet connected then.  The program reads accounts by position and data *)
(* by offset, whatever names the client gave them.                         *)
(***************************************************************************)
EXTENDS ProgramInterface, FiniteSets, SequencesExt

CONSTANTS
    Wallet,     \* wallets the visitor may connect
    Organizer,  \* the organizer of the event that pages of others show
    Operation,  \* bound: what pages build, each a sequence of instructions
    MaxChain,   \* bound: accounts of the program
    None        \* null, undefined

ASSUME ClientAssumption ==
    /\ Organizer \in Wallet
    /\ \A o \in Operation : Range(o) \subseteq DOMAIN instructions /\ o # <<>>
    /\ MaxChain \in Nat
    /\ None \notin Wallet

VARIABLES
    wallet,     \* the wallet of the adapter, or None
    job,        \* the operation under way, or None
    chain       \* accounts of the program: address, kind and space

vars == <<wallet, job, chain>>

Init ==
    /\ wallet = None
    /\ job = None
    /\ chain = {}

---------------------------------------------------------------------------
(* Derived addresses: the tuple of the seeds. *)

findPlatformConfigPda                      == <<"platform">>
findAssetAuthorityPda(platformConfig)      == <<"asset-authority", platformConfig>>
findEventPda(organizer, eventId)           == <<"event", organizer, eventId>>
findTierPda(event, tierId)                 == <<"tier", event, tierId>>
findStaffAuthorizationPda(event, staff)    == <<"staff", event, staff>>
findTicketRecordPda(event, ticketId)       == <<"ticket", event, ticketId>>
findManagedAssetPda(ticketRecord)          == <<"managed-asset", ticketRecord>>
findCoreAssetPda(ticketRecord)             == <<"core-asset", ticketRecord>>
findListingPda(ticketRecord, listingId)    == <<"listing", ticketRecord, listingId>>
findCheckInIntentPda(ticketRecord, nonce)  == <<"check-in-intent", ticketRecord, nonce>>

(* The accounts a default is derived from. *)
Seeds(role) ==
    CASE role = "assetAuthority"     -> {"platformConfig"}
      [] role = "event"              -> {"organizer"}
      [] role \in {"tier", "ticketRecord"} -> {"event"}
      [] role = "staffAuthorization" -> {"event", "staff"}
      [] role \in {"managedAsset", "coreAsset", "listing", "checkInIntent"} ->
            {"ticketRecord"}
      [] OTHER                       -> {}

(* The address at the seeds of a role, given the other accounts; arguments *)
(* stand for their values, and an account without seeds for its address.   *)
AddressOf(role, account) ==
    CASE role = "platformConfig"     -> findPlatformConfigPda
      [] role = "assetAuthority"     -> findAssetAuthorityPda(account["platformConfig"])
      [] role = "event"              -> findEventPda(account["organizer"], "eventId")
      [] role = "tier"               -> findTierPda(account["event"], "tierId")
      [] role = "staffAuthorization" ->
            findStaffAuthorizationPda(account["event"], account["staff"])
      [] role = "ticketRecord"       -> findTicketRecordPda(account["event"], "ticketId")
      [] role = "managedAsset"       -> findManagedAssetPda(account["ticketRecord"])
      [] role = "coreAsset"          -> findCoreAssetPda(account["ticketRecord"])
      [] role = "listing"            ->
            findListingPda(account["ticketRecord"], "listingId")
      [] role = "checkInIntent"      ->
            findCheckInIntentPda(account["ticketRecord"], "intentNonce")
      [] OTHER                       -> <<role>>

---------------------------------------------------------------------------
(* Building *)

Roles(name) == {meta.role : meta \in Range(instructions[name].accounts)}

(* The account that signs: the adapter fills it in, the pages never do. *)
Authority(name) ==
    (CHOOSE meta \in Range(instructions[name].accounts) : meta.signer).role

(* What a page passes: addresses of the event it shows or creates, and of  *)
(* what belongs to it, as the chain or the same finders gave them.         *)
Passed(name, page) ==
    LET organizer == IF Authority(name) = "organizer" THEN page ELSE Organizer
        signer    == [role \in {"organizer", "staff"} |->
                        IF role = Authority(name) THEN page
                        ELSE IF role = "organizer" THEN organizer ELSE <<role>>]
        event     == findEventPda(organizer, "eventId")
        top       == [platformConfig |-> findPlatformConfigPda, event |-> event,
                      organizer |-> signer["organizer"], staff |-> signer["staff"],
                      ticketRecord |-> findTicketRecordPda(event, "ticketId")]
    IN [role \in Roles(name) |->
          IF role \in DOMAIN top THEN top[role] ELSE AddressOf(role, top)]

Connect(w) ==
    /\ wallet' = w
    /\ UNCHANGED <<job, chain>>

Start(operation) ==
    /\ job = None
    /\ wallet # None
    /\ job' = [operation |-> operation, page |-> wallet, message |-> <<>>,
               build |-> None, step |-> "build", payer |-> None]
    /\ UNCHANGED <<wallet, chain>>

Building(name) ==
    /\ job # None /\ job.step = "build"
    /\ Len(job.message) < Len(job.operation)
    /\ name = job.operation[Len(job.message) + 1]

(* adapter.build...: requireWallet, then the builder, whose accounts have  *)
(* no value where its caller left them out.                                *)
Build(name, omitted) ==
    /\ Building(name)
    /\ job.build = None
    /\ wallet # None
    /\ omitted \subseteq Range(instructions[name].defaults)
    /\ job' = [job EXCEPT !.build =
                 [account |-> [role \in (Roles(name) \ omitted) \cup {Authority(name)} |->
                                IF role = Authority(name) THEN wallet
                                ELSE Passed(name, job.page)[role]],
                  authority |-> wallet,
                  next |-> 1]]
    /\ UNCHANGED <<wallet, chain>>

(* The accounts with one more that was left out.                           *)
Filled(account, role) ==
    [r \in DOMAIN account \cup {role} |->
       IF r = role THEN AddressOf(role, account) ELSE account[r]]

(* One default of the asynchronous builder.  A seed that is not resolved   *)
(* makes the builder throw.                                                *)
ResolveDefault(name) ==
    LET build == job.build
        role  == instructions[name].defaults[build.next]
    IN
    /\ Building(name)
    /\ build # None
    /\ build.next <= Len(instructions[name].defaults)
    /\ IF role \in DOMAIN build.account
       THEN job' = [job EXCEPT !.build.next = @ + 1]
       ELSE IF ~(Seeds(role) \subseteq DOMAIN build.account)
       THEN job' = [job EXCEPT !.step = "threw"]
       ELSE job' = [job EXCEPT !.build = [account |-> Filled(build.account, role),
                                          authority |-> build.authority,
                                          next |-> build.next + 1]]
    /\ UNCHANGED <<wallet, chain>>

(* getAccountMeta: an account without a value is passed as the program. *)
Meta(meta, account) ==
    [address |-> IF meta.role \in DOMAIN account THEN account[meta.role] ELSE <<"program">>,
     writable |-> meta.writable, signer |-> meta.signer]

Built(name) ==
    LET build == job.build
        list  == instructions[name].accounts
    IN
    /\ Building(name)
    /\ build # None
    /\ build.next > Len(instructions[name].defaults)
    /\ job' = [job EXCEPT
                 !.message = Append(@,
                    [name |-> name, authority |-> build.authority,
                     accounts |-> [p \in DOMAIN list |-> Meta(list[p], build.account)],
                     data |-> instructions[name].data]),
                 !.build = None]
    /\ UNCHANGED <<wallet, chain>>

(* requireWallet: nothing is built without a wallet. *)
WalletMissing ==
    /\ job # None /\ wallet = None
    /\ \/ job.step = "build" /\ job.build = None
       \/ job.step = "compile"
    /\ job' = None
    /\ UNCHANGED <<wallet, chain>>

---------------------------------------------------------------------------
(* The program *)

At(context, metas, role) ==
    metas[CHOOSE p \in DOMAIN context.accounts : context.accounts[p].role = role].address

(* The privileges the context demands of the metas. *)
Privileges(context, metas) ==
    /\ Len(metas) >= Len(context.accounts)
    /\ \A p \in DOMAIN context.accounts :
          /\ context.accounts[p].writable => metas[p].writable
          /\ context.accounts[p].signer => metas[p].signer

(* Mutant: the address of an account being created is taken as it comes.   *)
SeedsOfExisting(context, metas) ==
    LET account == [role \in {meta.role : meta \in Range(context.accounts)} |->
                      At(context, metas, role)]
    IN \A role \in context.seeds \ context.init : account[role] = AddressOf(role, account)

SeedsChecked(context, metas) ==
    LET account == [role \in {meta.role : meta \in Range(context.accounts)} |->
                      At(context, metas, role)]
    IN \A role \in context.seeds : account[role] = AddressOf(role, account)

(* What an instruction finds and leaves of the accounts of the program.    *)
(* What its handler checks beyond its context is left to other modules.    *)
Process(state, m) ==
    LET handler  == centlalia_ticketing[m.data[1].type]
        context  == handler.context
        at(role) == At(context, m.accounts, role)
        holds(role) == \E a \in state.chain : a.address = at(role) /\ a.kind = role
        fresh(role) == \A a \in state.chain : a.address # at(role)
    IN [ok |->
          /\ state.ok
          /\ Tail(m.data) = handler.arguments
          /\ Privileges(context, m.accounts)
          /\ SeedsChecked(context, m.accounts)
          /\ \A role \in context.loads : holds(role)
          /\ \A role \in context.init \ {"staffAuthorization"} : fresh(role),
        chain |-> state.chain \cup
          {[address |-> at(role), kind |-> role, space |-> SPACE[role]] :
             role \in context.init}]

---------------------------------------------------------------------------
(* Sending *)

(* sendInstructions, up to its first await: is the platform initialised? *)
Diagnose ==
    /\ job # None /\ job.step = "build"
    /\ Len(job.message) = Len(job.operation)
    /\ \/ \E a \in chain : a.kind = "platformConfig"
       \/ job.operation = <<"initializePlatform">>
    /\ job' = [job EXCEPT !.step = "compile"]
    /\ UNCHANGED <<wallet, chain>>

(* The wallet connected now pays and signs, whoever the message was built  *)
(* for.                                                                    *)
Compile ==
    /\ job # None /\ job.step = "compile"
    /\ wallet # None
    /\ job' = [job EXCEPT !.step = "sign", !.payer = wallet]
    /\ UNCHANGED <<wallet, chain>>

(* A wallet signs for its own account: a message that also needs another   *)
(* signature is not accepted.                                              *)
Signed ==
    \A k \in DOMAIN job.message : \A p \in DOMAIN job.message[k].accounts :
        LET meta == job.message[k].accounts[p] IN
        meta.signer => meta.address = job.payer

Execute ==
    LET result == FoldLeft(Process, [ok |-> TRUE, chain |-> chain], job.message) IN
    /\ job # None /\ job.step = "sign"
    /\ Signed
    /\ result.ok
    /\ Cardinality(result.chain) <= MaxChain
    /\ chain' = result.chain
    /\ job' = None
    /\ UNCHANGED wallet

(* The RPC, the visitor, the wallet or the program refuses. *)
Refused ==
    /\ job # None
    /\ \/ job.step \in {"threw", "compile", "sign"}
       \/ job.step = "build" /\ Len(job.message) = Len(job.operation)
    /\ job' = None
    /\ UNCHANGED <<wallet, chain>>

Next ==
    \/ \E w \in Wallet \cup {None} : Connect(w)
    \/ \E operation \in Operation : Start(operation)
    \/ \E name \in DOMAIN instructions :
          \/ Building(name) /\ \E omitted \in SUBSET Range(instructions[name].defaults) :
                Build(name, omitted)
          \/ ResolveDefault(name) \/ Built(name)
    \/ WalletMissing \/ Diagnose \/ Compile \/ Execute \/ Refused

Spec == Init /\ [][Next]_vars

---------------------------------------------------------------------------
(* Whatever its caller leaves out, and whichever wallet is connected while *)
(* its addresses are awaited, an instruction built for the wallet of the   *)
(* operation reaches the program as the program declares it: each account  *)
(* at the position where it is read, with the privileges demanded, at the  *)
(* address its seeds give, none replaced by the program for want of a      *)
(* value, and its arguments at their offsets.                              *)
BuiltAsDeclared ==
    job # None => \A k \in DOMAIN job.message :
        LET m        == job.message[k]
            handler  == centlalia_ticketing[m.name]
            declared == handler.context.accounts
        IN
        /\ m.data = <<Discriminator(m.name)>> \o handler.arguments
        /\ \A f \in Range(m.data) :
              f.type = "EventDetails" => getEventDetailsEncoder = EventDetails
        /\ Len(m.accounts) = Len(declared)
        /\ Privileges(handler.context, m.accounts)
        /\ m.authority = job.page =>
              /\ SeedsChecked(handler.context, m.accounts)
              /\ \A p \in DOMAIN declared :
                    declared[p].role \in DOMAIN Passed(m.name, job.page)
                    /\ m.accounts[p].address =
                          IF declared[p].signer THEN job.page
                          ELSE Passed(m.name, job.page)[declared[p].role]

(* A wallet connected while an operation is built, sent or signed never    *)
(* acts for the one before it: what executes was built, from its first     *)
(* instruction to its last, for the wallet that pays, and an event it      *)
(* creates is at an address of that wallet, whatever addresses the page    *)
(* had derived from the one it started with.                               *)
ExecutedForPayer ==
    [][Execute =>
         /\ \A k \in DOMAIN job.message : job.message[k].authority = job.payer
         /\ \A a \in chain' \ chain :
               a.kind = "event" => a.address = findEventPda(job.payer, "eventId")]_vars

(* The defaults of a builder are in an order in which each can be derived  *)
(* from those before it: no choice of omitted accounts makes it throw.     *)
DefaultsResolve == job # None => job.step # "threw"

MaxWidth ==
    [address |-> 32, u8 |-> 1, u16 |-> 2, u32 |-> 4, u64 |-> 8, i64 |-> 8, bool |-> 1,
     enum |-> 1, AssetStandard |-> 1]

TextLimit == [title |-> 80, metadataUri |-> 200, name |-> 48]

(* The bytes a field takes at most. *)
FieldSize(field) ==
    CASE field.type = "string"         -> 4 + TextLimit[field.name]
      [] field.type = "option i64"     -> 1 + 8
      [] field.type = "option address" -> 1 + 32
      [] OTHER                         -> MaxWidth[field.type]

(* The adapter tells the kinds of accounts apart by their size alone, and  *)
(* the decoders do not look at the discriminator.  Still, what the client  *)
(* lists as a kind is every account of that kind and no other, and it      *)
(* reads each in the layout in which the program wrote it, in a space that *)
(* holds it.                                                               *)
AccountsReadAsWritten ==
    /\ \A kind \in DOMAIN DataSize :
          {a \in chain : a.space = DataSize[kind]} = {a \in chain : a.kind = kind}
    /\ \A a \in chain :
          /\ accounts[a.kind] = <<Discriminator(a.kind)>> \o Layout[a.kind]
          /\ a.space = FoldLeft(LAMBDA sum, field : sum + FieldSize(field), 8, Layout[a.kind])
================================
