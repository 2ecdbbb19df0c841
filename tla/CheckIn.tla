---- MODULE CheckIn ----
(***************************************************************************)
(* Two-party check-in: the holder of a ticket presents it by opening an    *)
(* intent, a member of the staff of the event consumes the intent.  The    *)
(* holder may cancel an intent and anyone may expire it once its time has  *)
(* passed.                                                                 *)
(***************************************************************************)
EXTENDS TicketingState

(* Mutant: a new intent may be opened while another one is pending. *)
PresentableTwice(t) == ActiveTicket(t)

PresentableTicket(t) == ActiveTicket(t) /\ ticket[t].active_intent = None

(* What both presentation handlers check. *)
PresentGuard(holder, e, t, nonce, expires_at) ==
    /\ PlatformActive
    /\ TicketOfEvent(t, e)
    /\ CheckInOpen(e)
    /\ PresentableTicket(t)
    /\ ticket[t].owner = holder
    /\ nonce = ticket[t].next_intent_nonce
    /\ ticket[t].next_intent_nonce + 1 <= MaxNonce
    /\ intent[<<t, nonce>>] = None
    /\ ValidIntentExpiry(now, expires_at, event[e].details.check_in_end_at)

(* And what they write. *)
OpenIntent(holder, e, t, nonce, expires_at) ==
    LET i == <<t, nonce>> IN
    /\ PresentGuard(holder, e, t, nonce, expires_at)
    /\ intent' = [intent EXCEPT ![i] =
                    [ticket |-> t, event |-> e, holder |-> holder,
                     expires_at |-> expires_at, status |-> "Pending",
                     consumed_at |-> None, staff |-> None]]
    /\ ticket' = [ticket EXCEPT ![t] = PresentedTicket(@, i)]
    /\ UNCHANGED <<config, setupVars, asset, listing, balance, now>>

PresentCheckIn(holder, e, t, nonce, expires_at) ==
    /\ OpenIntent(holder, e, t, nonce, expires_at)
    /\ VerifyManagedAsset(t)

PresentCheckInCore(holder, e, t, nonce, expires_at) ==
    /\ OpenIntent(holder, e, t, nonce, expires_at)
    /\ VerifyCoreAsset(t, holder)

---------------------------------------------------------------------------

(* The ticket and the intent of every later step: the intent must belong   *)
(* to the ticket, be pending, and be the one the ticket points at.         *)
PendingIntent(t, i) ==
    /\ ticket[t] # None
    /\ intent[i] # None
    /\ intent[i].ticket = t
    /\ intent[i].status = "Pending"
    /\ ticket[t].active_intent = i

CloseIntent(t, i, status) ==
    /\ intent' = [intent EXCEPT ![i] = [@ EXCEPT !.status = status]]
    /\ ticket' = [ticket EXCEPT ![t] = RetractedTicket(@)]
    /\ UNCHANGED <<config, setupVars, asset, listing, balance, now>>

(* Neither cancelling nor expiring reads the platform or the event. *)
CancelCheckIn(signer, t, i) ==
    /\ PendingIntent(t, i)
    /\ intent[i].holder = signer
    /\ CloseIntent(t, i, "Cancelled")

(* Mutant: expiring also needs the check-in window to be open. *)
ExpireCheckInInWindow(t, i) ==
    /\ PendingIntent(t, i)
    /\ CheckInOpen(intent[i].event)
    /\ now >= intent[i].expires_at
    /\ CloseIntent(t, i, "Expired")

ExpireCheckIn(t, i) ==
    /\ PendingIntent(t, i)
    /\ now >= intent[i].expires_at
    /\ CloseIntent(t, i, "Expired")

---------------------------------------------------------------------------

(* Mutant: the authorisation, the ticket and the intent may be those of    *)
(* different events.                                                       *)
ConsumeCheckInAccountsUnrelated(signer, e, t, i) ==
    /\ event[e] # None
    /\ ticket[t] # None
    /\ staff[<<e, signer>>] # "None"
    /\ intent[i] # None

ConsumeCheckInAccounts(signer, e, t, i) ==
    /\ TicketOfEvent(t, e)
    /\ staff[<<e, signer>>] # "None"
    /\ intent[i] # None
    /\ intent[i].event = e

ConsumeGuard(signer, e, t, i) ==
    /\ PlatformActive
    /\ ConsumeCheckInAccounts(signer, e, t, i)
    /\ CheckInOpen(e)
    /\ staff[<<e, signer>>] = "Active"
    /\ PendingIntent(t, i)
    /\ now < intent[i].expires_at
    /\ intent[i].holder = ticket[t].owner

(* Mutant: the record of the ticket is not marked used. *)
UseTicketKeptActive(signer, t, i) ==
    /\ ticket' = [ticket EXCEPT ![t] = RetractedTicket(@)]
    /\ intent' = [intent EXCEPT ![i] =
                    [@ EXCEPT !.status = "Consumed", !.consumed_at = now,
                              !.staff = signer]]
    /\ UNCHANGED <<config, setupVars, asset, listing, balance, now>>

(* Mutant: the intent is not closed when the ticket is used. *)
UseTicketIntentLeft(signer, t, i) ==
    /\ ticket' = [ticket EXCEPT ![t] =
                    [AdmittedTicket(@, signer, now) EXCEPT
                        !.active_intent = ticket[t].active_intent]]
    /\ UNCHANGED <<config, setupVars, asset, listing, intent, balance, now>>

UseTicket(signer, t, i) ==
    /\ ticket' = [ticket EXCEPT ![t] = AdmittedTicket(@, signer, now)]
    /\ intent' = [intent EXCEPT ![i] =
                    [@ EXCEPT !.status = "Consumed", !.consumed_at = now,
                              !.staff = signer]]
    /\ UNCHANGED <<config, setupVars, asset, listing, balance, now>>

ConsumeCheckIn(signer, e, t, i) ==
    /\ ConsumeGuard(signer, e, t, i)
    /\ VerifyManagedAsset(t)
    /\ ActiveTicket(t)
    /\ UseTicket(signer, t, i)

(* The Core handler does not check that the ticket is active and unused. *)
ConsumeCheckInCore(signer, e, t, i) ==
    /\ ConsumeGuard(signer, e, t, i)
    /\ VerifyCoreAsset(t, ticket[t].owner)
    /\ UseTicket(signer, t, i)
=========================
