---- MODULE WebApp ----
(***************************************************************************)
(* The pages of the web application over the real program: several tabs of *)
(* one browser, the operation `execute` runs in each and the access pass   *)
(* each shows.  Between a click and its notice lie a signature, a          *)
(* transaction that lands, fails or is lost, and polls of accounts that    *)
(* other transactions write too.                                           *)
(*                                                                         *)
(* A catalogue is four lists read at four moments.  `ledger` keeps what    *)
(* the lists would have answered after each transaction, and a catalogue   *)
(* is four positions in it.  Refreshes are not cancelled, may overlap and  *)
(* may answer as late as they like, each list by itself: the catalogue on  *)
(* a page when somebody clicks is any four positions, torn or outdated,    *)
(* and so it is chosen at the click.                                       *)
(***************************************************************************)
EXTENDS Ticketing, Sequences, TLC

CONSTANTS
    Tab,            \* open tabs of the browser
    Details,        \* the form of create-event-page
    FirstPrice,     \* the price of its tier
    Supply,         \* and the supply of its tier
    Hold,           \* seconds a pass asks for: 240 in the page
    MaxSent,        \* bound: transactions sent from the pages
    MaxLedger       \* bound: transactions that succeed

ASSUME WebAssumption ==
    /\ Details \in DetailsInputs
    /\ {Details.check_in_start_at, Details.check_in_end_at} \subseteq 0 .. MaxTime
    /\ FirstPrice \in PriceInputs
    /\ Supply \in SupplyInputs /\ ValidTier(Supply)
    /\ {Hold, MaxSent, MaxLedger} \subseteq Nat
    /\ {MaxTierId, MaxTicketId, MaxListingId} \subseteq Nat \ {0}

VARIABLES
    ledger,     \* what the four lists answered, after each transaction
    sent,       \* transactions of the pages, by signature
    tab,        \* the pending operation and the pass of each tab
    drawings,   \* for each tab, the stored pass whose QR code is being drawn
    storage,    \* localStorage: the pass last presented in this browser
    evidence,   \* localStorage: the presentations recorded
    done        \* signatures announced as confirmed by a notice

pageVars == <<tab, drawings, storage, evidence, done>>
webVars  == <<ledger, sent, pageVars>>

Snapshot == [event |-> event, tier |-> tier, ticket |-> ticket, listing |-> listing]

Latest == Len(ledger)

(* The positions at which a list differs from the next one. *)
Versions(list) ==
    {p \in 1 .. Latest : p = Latest \/ ledger[p][list] # ledger[p + 1][list]}

(* Every catalogue a page may hold; lists the page does not read stay at 1. *)
Catalogues(lists) ==
    LET At(list) == IF list \in lists THEN Versions(list) ELSE {1} IN
    [event : At("event"), tier : At("tier"), ticket : At("ticket"),
     listing : At("listing")]

SeenEvent(view, e) == ledger[view.event].event[e]
SeenTier(view, tr) == ledger[view.tier].tier[tr]
SeenTicket(view, t) == ledger[view.ticket].ticket[t]
SeenListing(view, l) == ledger[view.listing].listing[l]

(* The `now` of a page was read when the page was opened, that of a pass   *)
(* when it was asked for.                                                  *)
PageTimes == 0 .. now

---------------------------------------------------------------------------
(* Where the pages start: after the one transaction of create-event-page,  *)
(* which creates the event with its first tier and may publish it; while   *)
(* the first ticket of the event circulates; or when check-in opens.       *)

Platform ==
    [admin |-> UpgradeAuthority, treasury |-> UpgradeAuthority,
     asset_standard |-> "MplCore", platform_fee_bps |-> 1, paused |-> FALSE]

EventWith(e, status, sold) ==
    [organizer |-> e[1], platform_treasury |-> UpgradeAuthority, platform_fee_bps |-> 1,
     details |-> Details, status |-> status, next_tier_id |-> 1,
     next_ticket_id |-> sold]

FirstTicket(t, owner) ==
    [event |-> t[1], tier |-> <<t[1], 0>>, asset_standard |-> "MplCore", owner |-> owner,
     original_price_lamports |-> FirstPrice, status |-> "Active", transfer_count |-> 0,
     used_at |-> None, used_by |-> None, next_listing_id |-> 0,
     next_intent_nonce |-> 0, active_intent |-> None]

FirstListing(t, owner) ==
    [ticket |-> t, event |-> t[1], seller |-> owner, price_lamports |-> FirstPrice,
     status |-> "Active", expires_at |-> Details.check_in_start_at, buyer |-> None]

StartEvents(status, sold) ==
    /\ event = [e \in EventKey |-> EventWith(e, status, sold)]
    /\ tier = [tr \in TierKey |->
                 IF tr[2] # 0 THEN None
                 ELSE [event |-> tr[1], price_lamports |-> FirstPrice, supply |-> Supply,
                       sold |-> sold, active |-> TRUE]]

StartTickets(first, firstAsset, listed) ==
    /\ ticket = [t \in TicketKey |-> IF t[2] = 0 THEN first[t] ELSE None]
    /\ asset = [t \in TicketKey |-> IF t[2] = 0 THEN firstAsset ELSE None]
    /\ listing = [l \in ListingKey |->
                    IF listed /\ l[1][2] = 0 /\ l[2] = 0
                    THEN FirstListing(l[1], first[l[1]].owner)
                    ELSE None]

OnSale ==
    \E status \in {"Draft", "Published"} :
        /\ StartEvents(status, 0)
        /\ ticket = [t \in TicketKey |-> None]
        /\ asset = [t \in TicketKey |-> None]
        /\ listing = [l \in ListingKey |-> None]
        /\ now = Details.sales_start_at

Circulating ==
    \E owner \in Holder,
       time \in {Details.sales_start_at, Details.check_in_start_at} :
        LET first == [t \in TicketKey |-> FirstTicket(t, owner)]
            listed == [t \in TicketKey |-> ListedTicket(first[t])]
        IN
        /\ StartEvents("Published", 1)
        /\ \/ StartTickets(first, CoreAsset(owner), FALSE)
           \/ StartTickets(listed, AddTransferDelegate(CoreAsset(owner)), TRUE)
        /\ now = time

PagesInit ==
    /\ config = Platform
    /\ \/ OnSale /\ staff = [k \in StaffKey |-> "None"]
       \/ Circulating
          /\ staff = [k \in StaffKey |-> IF k[2] \in Staff THEN "Active" ELSE "None"]
    /\ intent = [i \in IntentKey |-> None]
    /\ balance = [w \in Wallet |-> InitialLamports]
    /\ ledger = <<Snapshot>>
    /\ sent = <<>>
    /\ tab = [b \in Tab |-> [job |-> None, pass |-> None]]
    /\ drawings = [b \in Tab |-> None]
    /\ storage = None
    /\ evidence = {}
    /\ done = {}

---------------------------------------------------------------------------
(* What the chain does with a transaction *)

Apply(op) ==
    \/ op.kind = "publishEvent" /\ PublishEvent(op.signer, op.event)
    \/ op.kind = "addTier" /\ AddTier(op.signer, op.event, op.tier[2], op.price, Supply)
    \/ op.kind = "authorizeStaff" /\ AuthorizeStaff(op.signer, op.event, op.staff)
    \/ op.kind = "primaryPurchaseCore"
          /\ PrimaryPurchaseCore(op.signer, op.event, op.tier, op.ticket[2])
    \/ op.kind = "buyResaleCore"
          /\ BuyResaleCore(op.signer, op.event, op.ticket, op.listing)
    \/ op.kind = "giftTicketCore"
          /\ GiftTicketCore(op.signer, op.recipient, op.event, op.ticket)
    \/ op.kind = "listTicketCore"
          /\ ListTicketCore(op.signer, op.event, op.ticket, op.listing[2], op.price,
                            op.expires_at)
    \/ op.kind = "cancelListingCore"
          /\ CancelListingCore(op.signer, op.ticket, op.listing)
    \/ op.kind = "presentCheckInCore"
          /\ PresentCheckInCore(op.signer, op.event, op.ticket, op.intent[2],
                                op.expires_at)

Recorded == ledger' = Append(ledger, Snapshot')

(* A transaction in flight executes, or never takes effect: the program    *)
(* refuses it or its blockhash expires.                                    *)
Execute(s) ==
    /\ sent[s].status = "flight"
    /\ Apply(sent[s].op)
    /\ Recorded
    /\ sent' = [sent EXCEPT ![s].status = "succeeded", ![s].at = Latest + 1]
    /\ UNCHANGED pageVars

Lose(s) ==
    /\ sent[s].status = "flight"
    /\ sent' = [sent EXCEPT ![s].status = "lost"]
    /\ UNCHANGED <<vars, ledger, pageVars>>

(* Transactions of other clients: an organizer corrects the price of a     *)
(* tier, the staff page consumes an intent, a keeper expires one.          *)
Elsewhere ==
    /\ Latest < MaxLedger
    /\ \/ \E signer \in Organizer, tr \in TierKey, price \in PriceInputs :
             UpdateTier(signer, tr[1], tr, price, Supply, TRUE)
       \/ \E signer \in Staff, i \in IntentKey :
             ConsumeCheckInCore(signer, i[1][1], i[1], i)
       \/ \E i \in IntentKey : ExpireCheckIn(i[1], i)
    /\ Recorded
    /\ UNCHANGED <<sent, pageVars>>

TimePasses == Tick /\ UNCHANGED webVars

---------------------------------------------------------------------------
(* The provider: `execute`, and what the adapter does for it *)

(* A click, which execute takes while nothing is pending, up to the answer *)
(* of the wallet: it is whichever wallet is connected, has the transaction *)
(* signed and sends it.  It may simulate it first, on a state as old as it *)
(* likes, or not at all: nothing here depends on the answer.  A click the  *)
(* wallet refuses leaves nothing behind, and the time the wallet takes     *)
(* shows only in how old the view and the time of the click may be.        *)
Send(b, op, view) ==
    /\ tab[b].job = None
    /\ Len(sent) < MaxSent
    /\ sent' = Append(sent, [op |-> op, view |-> view, status |-> "flight", at |-> None])
    /\ tab' = [tab EXCEPT ![b].job = [op |-> op, step |-> "wait",
                                     signature |-> Len(sent) + 1]]
    /\ UNCHANGED <<vars, ledger, drawings, storage, evidence, done>>

Busy(b, step) == tab[b].job # None /\ tab[b].job.step = step

(* A wait gives up after its last poll, with the transaction possibly in   *)
(* flight: an error notice, and no refresh.                                *)
TimeOut(b) ==
    /\ Busy(b, "wait")
    /\ tab' = [tab EXCEPT ![b].job = None]
    /\ UNCHANGED <<vars, ledger, sent, drawings, storage, evidence, done>>

Exists(accounts, key) == key \in DOMAIN accounts /\ accounts[key] # None

(* Mutant: the wait for an owner accepts any owner. *)
LandedForAnyOwner(op) ==
    CASE op.kind = "primaryPurchaseCore" -> Exists(asset, op.ticket)
      [] op.kind \in {"buyResaleCore", "giftTicketCore"} -> Exists(ticket, op.ticket)
      [] op.kind = "listTicketCore" ->
            Exists(listing, op.listing) /\ ticket[op.ticket].status = "Listed"
      [] op.kind = "cancelListingCore" -> ticket[op.ticket].status = "Active"
      [] op.kind = "presentCheckInCore" -> Exists(intent, op.intent)
      [] OTHER -> TRUE

(* What the page polls for, whoever made it so.  The organizer's pages do  *)
(* not wait.                                                               *)
Landed(op) ==
    CASE op.kind = "primaryPurchaseCore" -> Exists(asset, op.ticket)
      [] op.kind = "buyResaleCore" -> ticket[op.ticket].owner = op.signer
      [] op.kind = "giftTicketCore" -> ticket[op.ticket].owner = op.recipient
      [] op.kind = "listTicketCore" ->
            Exists(listing, op.listing) /\ ticket[op.ticket].status = "Listed"
      [] op.kind = "cancelListingCore" -> ticket[op.ticket].status = "Active"
      [] op.kind = "presentCheckInCore" -> Exists(intent, op.intent)
      [] OTHER -> TRUE

(* The success notice, before the refresh that follows it. *)
Announce(b) ==
    /\ Busy(b, "wait")
    /\ Landed(tab[b].job.op)
    /\ done' = done \cup {tab[b].job.signature}
    /\ tab' = [tab EXCEPT ![b].job.step = "refresh"]
    /\ UNCHANGED <<vars, ledger, sent, drawings, storage, evidence>>

(* Mutant: the time printed on the pass is taken after the wait. *)
PassTimedLate(job) ==
    [ticket |-> job.op.ticket, intent |-> job.op.intent,
     expires_at |-> now + Hold, signature |-> job.signature]

(* The pass the page builds from its own variables, not from the chain. *)
Pass(job) ==
    [ticket |-> job.op.ticket, intent |-> job.op.intent,
     expires_at |-> job.op.expires_at, signature |-> job.signature]

(* The refresh answers, or fails, and the operation is over; present goes  *)
(* on to store, show and record its pass.                                  *)
Finish(b) ==
    LET job == tab[b].job
        presented == job.op.kind = "presentCheckInCore"
    IN
    /\ Busy(b, "refresh")
    /\ tab' = [tab EXCEPT ![b] =
                 [job |-> None, pass |-> IF presented THEN Pass(job) ELSE @.pass]]
    /\ storage' = IF presented THEN Pass(job) ELSE storage
    /\ evidence' = evidence \cup
          (IF presented THEN {[actor |-> job.op.signer, pass |-> Pass(job)]} ELSE {})
    /\ UNCHANGED <<vars, ledger, sent, drawings, done>>

---------------------------------------------------------------------------
(* Organizer pages: manage-event-page *)

ManageEvent(b) ==
    \E e \in EventKey, view \in Catalogues({"event"}) :
        LET seen == SeenEvent(view, e)
            organizer == seen.organizer
        IN
        /\ seen # None
        /\ \/ /\ seen.status = "Draft"
              /\ \/ Send(b, [kind |-> "publishEvent", signer |-> organizer,
                              event |-> e], view)
                 \/ \E price \in PriceInputs :
                       Send(b, [kind |-> "addTier", signer |-> organizer, event |-> e,
                                 tier |-> <<e, seen.next_tier_id>>, price |-> price],
                             view)
           \/ \E w \in Staff :
                 Send(b, [kind |-> "authorizeStaff", signer |-> organizer, event |-> e,
                           staff |-> w], view)

---------------------------------------------------------------------------
(* Event page *)

(* Mutant: the page asks the chain which ticket comes next. *)
NextTicketFromChain(view, e) == event[e].next_ticket_id

NextTicket(view, e) == SeenEvent(view, e).next_ticket_id

Purchase(b) ==
    \E w \in Holder, tr \in TierKey, view \in Catalogues({"event", "tier"}) :
        LET e == tr[1]
            seen == SeenEvent(view, e)
        IN
        /\ seen # None /\ SeenTier(view, tr) # None
        /\ seen.status = "Published"
        /\ \E time \in PageTimes :
              seen.details.sales_start_at <= time /\ time < seen.details.sales_end_at
        /\ SeenTier(view, tr).sold < SeenTier(view, tr).supply
        /\ Send(b, [kind |-> "primaryPurchaseCore", signer |-> w, event |-> e,
                     tier |-> tr, ticket |-> <<e, NextTicket(view, e)>>], view)

---------------------------------------------------------------------------
(* Market page *)

BuyResaleOnPage(b) ==
    \E w \in Holder, l \in ListingKey,
       view \in Catalogues({"event", "ticket", "listing"}) :
        LET seen == SeenListing(view, l)
            t == l[1]
            e == t[1]
        IN
        /\ seen # None /\ SeenTicket(view, t) # None /\ SeenEvent(view, e) # None
        /\ seen.status = "Active"
        /\ SeenTicket(view, t).status = "Listed"
        /\ SeenEvent(view, e).status = "Published"
        /\ \E time \in PageTimes :
              /\ time < seen.expires_at
              /\ time < SeenEvent(view, e).details.check_in_start_at
        /\ seen.seller # w
        /\ Send(b, [kind |-> "buyResaleCore", signer |-> w, event |-> e, ticket |-> t,
                     listing |-> l], view)

---------------------------------------------------------------------------
(* My tickets: circulation and presentation *)

(* A ticket without an intent, shown to the wallet that owns it. *)
Usable(view, t) ==
    LET seen == SeenTicket(view, t) IN
    /\ seen # None
    /\ seen.status = "Active" /\ seen.active_intent = None
    /\ SeenEvent(view, t[1]) # None

Circulate(b) ==
    \E t \in TicketKey, view \in Catalogues({"event", "ticket"}) :
        LET owner == SeenTicket(view, t).owner
            e == t[1]
            details == SeenEvent(view, e).details
        IN
        /\ Usable(view, t)
        /\ SeenEvent(view, e).status = "Published"
        /\ \E time \in PageTimes : time < details.check_in_start_at
        /\ \/ \E w \in Holder :
                 Send(b, [kind |-> "giftTicketCore", signer |-> owner, event |-> e,
                           ticket |-> t, recipient |-> w], view)
           \/ /\ details.resale_enabled
              /\ \E price \in ResalePriceInputs :
                    Send(b, [kind |-> "listTicketCore", signer |-> owner, event |-> e,
                              ticket |-> t, price |-> price,
                              listing |-> <<t, SeenTicket(view, t).next_listing_id>>,
                              expires_at |-> details.check_in_start_at], view)

CancelOnPage(b) ==
    \E l \in ListingKey, view \in Catalogues({"ticket", "listing"}) :
        LET t == l[1] IN
        /\ SeenTicket(view, t) # None /\ SeenListing(view, l) # None
        /\ SeenTicket(view, t).status = "Listed"
        /\ SeenListing(view, l).status = "Active"
        /\ Send(b, [kind |-> "cancelListingCore", signer |-> SeenTicket(view, t).owner,
                     ticket |-> t, listing |-> l], view)

Present(b) ==
    \E t \in TicketKey, view \in Catalogues({"event", "ticket"}), time \in PageTimes :
        LET seen == SeenTicket(view, t)
            details == SeenEvent(view, t[1]).details
            closes == details.check_in_end_at
        IN
        /\ Usable(view, t)
        /\ details.check_in_start_at <= time /\ time < closes
        /\ Send(b, [kind |-> "presentCheckInCore", signer |-> seen.owner,
                    event |-> t[1], ticket |-> t,
                    intent |-> <<t, seen.next_intent_nonce>>,
                    expires_at |-> IF time + Hold < closes THEN time + Hold ELSE closes],
                view)

(* The effect that brings a stored pass back starts whenever the page is   *)
(* opened or its catalogue or wallet changes: it keeps the pass, tickets   *)
(* and wallet of that moment, and draws the QR code before it checks them. *)
Draw(b) ==
    /\ storage # None
    /\ drawings[b] = None
    /\ \E w \in Holder, view \in Catalogues({"ticket"}) :
          drawings' = [drawings EXCEPT ![b] =
                         [pass |-> storage, view |-> view, wallet |-> w]]
    /\ UNCHANGED <<vars, ledger, sent, tab, storage, evidence, done>>

Drawn(b) ==
    LET d == drawings[b]
        seen == SeenTicket(d.view, d.pass.ticket)
        valid == /\ seen # None
                 /\ seen.owner = d.wallet
                 /\ seen.status = "Active"
                 /\ now < d.pass.expires_at
    IN
    /\ d # None
    /\ drawings' = [drawings EXCEPT ![b] = None]
    /\ tab' = [tab EXCEPT ![b].pass = IF valid THEN d.pass ELSE None]
    /\ storage' = IF valid THEN storage ELSE None
    /\ UNCHANGED <<vars, ledger, sent, evidence, done>>

---------------------------------------------------------------------------

PagesNext ==
    \/ \E s \in 1 .. Len(sent) : Execute(s) \/ Lose(s)
    \/ Elsewhere
    \/ TimePasses
    \/ \E b \in Tab :
          \/ TimeOut(b) \/ Announce(b) \/ Finish(b)
          \/ ManageEvent(b) \/ Purchase(b) \/ BuyResaleOnPage(b)
          \/ Circulate(b) \/ CancelOnPage(b) \/ Present(b)
          \/ Draw(b) \/ Drawn(b)

PageSymmetry == Permutations(Tab) \cup Permutations(Holder)

PagesSpec == PagesInit /\ [][PagesNext]_<<vars, webVars>>

---------------------------------------------------------------------------
(* Properties *)

Succeeded(s) == sent[s].status = "succeeded"

(* Two requests a page makes of one catalogue for the same thing: a retry  *)
(* after a timeout, or a second click after a refresh that failed.         *)
SameRequest(s, r) ==
    LET p == sent[s].op
        q == sent[r].op
    IN
    /\ sent[s].view = sent[r].view
    /\ p.kind = q.kind /\ p.signer = q.signer
    /\ \/ p = q
       \/ p.kind \in {"primaryPurchaseCore", "addTier"} /\ p.event = q.event
       \/ p.kind \in {"listTicketCore", "presentCheckInCore"} /\ p.ticket = q.ticket

(* A request repeated while its first transaction may still be in flight   *)
(* is served once: nobody buys, lists, presents or adds twice what they    *)
(* asked for once.  Each page keeps the counter it read (nextTicketId,     *)
(* nextListingId, nextIntentNonce, nextTierId), so both transactions claim *)
(* one address.  Gifts and staff authorisations name no counter.           *)
RetriedOnce ==
    \A s, r \in 1 .. Len(sent) :
        (/\ s # r
         /\ Succeeded(s) /\ Succeeded(r)
         /\ SameRequest(s, r)
         /\ sent[s].op.kind \notin {"giftTicketCore", "authorizeStaff"}) => FALSE

(* A buyer is charged the price on the page, however old or torn the       *)
(* catalogue: the transaction names no price, and the tier's is frozen     *)
(* when the event is published.  The one exception is a list of tiers read *)
(* before the publication and shown beside an event read after it.         *)
PaysShownPrice ==
    \A s \in 1 .. Len(sent) :
        LET op == sent[s].op
            view == sent[s].view
        IN
        (Succeeded(s) /\ op.kind = "primaryPurchaseCore") =>
            \/ ledger[view.tier].event[op.event].status = "Draft"
            \/ ledger[view.tier].tier[op.tier].price_lamports
                  = ledger[sent[s].at].ticket[op.ticket].original_price_lamports

Waits(op) == op.kind \notin {"publishEvent", "addTier", "authorizeStaff"}
Trades(op) == op.kind \in {"buyResaleCore", "giftTicketCore"}

(* A transaction of the pages on ticket t executed after position p.       *)
Touched(t, p) ==
    \E r \in 1 .. Len(sent) :
        /\ Succeeded(r) /\ Waits(sent[r].op)
        /\ sent[r].op.ticket = t /\ sent[r].at > p

(* And it changed the owner.                                               *)
Traded(t, p) ==
    \E r \in 1 .. Len(sent) :
        /\ Succeeded(r) /\ Trades(sent[r].op)
        /\ sent[r].op.ticket = t /\ sent[r].at > p

(* What the operation was decided on. *)
ReadAt(s) ==
    IF sent[s].op.kind = "primaryPurchaseCore" THEN sent[s].view.event
    ELSE sent[s].view.ticket

(* The page was asked for a ticket to change hands whose list already      *)
(* showed it in those hands: a gift to oneself, or an offer of a torn      *)
(* catalogue clicked by the owner.                                         *)
AlreadySo(s) ==
    LET op == sent[s].op
        owner == SeenTicket(sent[s].view, op.ticket).owner
    IN
    \/ op.kind = "giftTicketCore" /\ owner = op.recipient
    \/ op.kind = "buyResaleCore" /\ owner = op.signer

(* A page that waits announces its own success, or that of another         *)
(* transaction on the same ticket which executed after the page had read   *)
(* it.  It never announces what did not happen at all, unless it was so    *)
(* before the page asked for it.                                           *)
AnnouncedHappened ==
    \A s \in done :
        (Waits(sent[s].op) /\ ~Succeeded(s)) =>
            Touched(sent[s].op.ticket, ReadAt(s)) \/ AlreadySo(s)

PassGenuine(p) ==
    LET i == intent[p.intent]
        s == sent[p.signature]
    IN
    /\ i # None
    /\ i.ticket = p.ticket
    /\ i.holder = s.op.signer \/ Traded(p.ticket, s.view.ticket)
    /\ Succeeded(p.signature) =>
          /\ i.holder = s.op.signer
          /\ i.expires_at = p.expires_at
          /\ now < p.expires_at => i.status \in {"Pending", "Consumed"}

(* Every pass a tab shows, localStorage keeps or the evidence records      *)
(* names an intent of that ticket opened on chain by the wallet that       *)
(* presented, whichever wallets and tabs come and go while it is sent,     *)
(* stored and drawn; and it is good until the time printed on it.  Only a  *)
(* page whose list still showed an owner who has parted with the ticket    *)
(* may take the intent of the next owner for its own.                      *)
PassesGenuine ==
    /\ storage # None => PassGenuine(storage)
    /\ \A b \in Tab : tab[b].pass # None => PassGenuine(tab[b].pass)
    /\ \A x \in evidence :
          PassGenuine(x.pass) /\ x.actor = sent[x.pass.signature].op.signer

(* No action is presented as finished before its transaction is confirmed. *)
FinishedMeansConfirmed == \A s \in done : Succeeded(s)
==================
