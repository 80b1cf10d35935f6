------------------------------- MODULE Billing -------------------------------
(***************************************************************************)
(* The Player Pass of one account (src/billing.ts, src/store.ts): Stripe's  *)
(* subscriptions, its webhook deliveries, the account's single row in       *)
(* subscriptions, and everything that writes it: webhooks, the return from  *)
(* Checkout, the reconciliation by stored id or by e-mail that page loads   *)
(* make (src/server.ts), and the guard in front of a new Checkout.          *)
(*                                                                         *)
(* A call is cut at its awaits on Stripe. What it learns there is a         *)
(* snapshot; the row may have changed when it goes on. Stripe delivers an   *)
(* event until it is acknowledged, perhaps twice at once.                   *)
(*                                                                         *)
(* Checkout makes a customer per subscription, so a subscription stands for *)
(* its customer, too. Subscriptions are numbered in order of creation; 0 is *)
(* an id Stripe has no record of (a test-mode row in a live database).      *)
(*                                                                         *)
(* An operator named X_Y is X with a deliberate fault: it is never part of  *)
(* the specification, and only shows that a property can fail.              *)
(***************************************************************************)
EXTENDS Naturals, FiniteSets

CONSTANTS
    Calls,       \* the calls that may run at the same time
    Last,        \* bound: the subscriptions bought, 1..Last
    MaxPeriod,   \* bound: the billing periods
    MaxEvents,   \* bound: the events of Stripe
    MaxFailures  \* bound: calls to Stripe that fail

Subs == 1..Last
None == "none"
Legacy == 0
NoSub == Last + 1

VARIABLES
    stripe,    \* Stripe's subscriptions: status, whether the pass is its price, paid period
    period,    \* the current billing period
    row,       \* the account's row in subscriptions
    call,      \* the calls in progress
    emitted,   \* events Stripe has to deliver
    acked,     \* ... those it delivers no more
    recorded,  \* webhook_events
    blocked,   \* the account is in abuse_blocks
    failures,
    offered    \* ghost: a Checkout was offered over a pass that Stripe had in force
               \* and the row did not call missing

vars == <<stripe, period, row, call, emitted, acked, recorded, blocked, failures, offered>>

EventTypes == {"created", "updated", "canceled", "refunded", "disputed"}
Event(type, s) == [type |-> type, sub |-> s]

NoEvent == Event(None, NoSub)
NoSnap == [status |-> None, pass |-> FALSE, paid |-> 0]
MissingSnap == [NoSnap EXCEPT !.status = "missing"]

NoRow == [sub |-> NoSub, status |-> None, paid |-> 0]
NoCall == [kind |-> None, at |-> "idle", event |-> NoEvent, sub |-> NoSub, snap |-> NoSnap, against |-> NoSub]

Entitled(status) == status \in {"active", "trialing", "past_due"}

Init ==
    /\ stripe = [s \in Subs |-> [status |-> None, pass |-> TRUE, paid |-> 0]]
    /\ period = 1
    /\ row \in {NoRow, [sub |-> Legacy, status |-> "active", paid |-> 0]}
    /\ call = [j \in Calls |-> NoCall]
    /\ emitted = {} /\ acked = {} /\ recorded = {}
    /\ blocked = FALSE
    /\ failures = 0
    /\ offered = FALSE

stripeVars == <<stripe, period, emitted>>

-----------------------------------------------------------------------------
(* Stripe.                                                                  *)

Emit(type, s) == Cardinality(emitted) < MaxEvents /\ emitted' = emitted \cup {Event(type, s)}

Buy(s) ==
    /\ stripe[s].status = None
    /\ \A older \in 1..(s - 1) : stripe[older].status # None
    /\ stripe' = [stripe EXCEPT ![s] = [status |-> "active", pass |-> TRUE, paid |-> period]]
    /\ Emit("created", s)
    /\ UNCHANGED period

Cancel(s) ==
    /\ stripe[s].status = "active"
    /\ stripe' = [stripe EXCEPT ![s].status = "canceled"]
    /\ Emit("canceled", s)
    /\ UNCHANGED period

\* The subscription is moved to another product's price.
Reprice(s) ==
    /\ stripe[s].status = "active" /\ stripe[s].pass
    /\ stripe' = [stripe EXCEPT ![s].pass = FALSE]
    /\ Emit("updated", s)
    /\ UNCHANGED period

\* The next period begins; what still runs is paid for it.
Renew ==
    /\ period < MaxPeriod
    /\ period' = period + 1
    /\ stripe' = [s \in Subs |-> IF stripe[s].status = "active" THEN [stripe[s] EXCEPT !.paid = period + 1] ELSE stripe[s]]
    /\ UNCHANGED emitted

Reverse(s, type) ==
    /\ stripe[s].status # None
    /\ type \in {"refunded", "disputed"}
    /\ Event(type, s) \notin emitted
    /\ Emit(type, s)
    /\ UNCHANGED <<stripe, period>>

StripeMoves ==
    /\ \/ \E s \in Subs : Buy(s) \/ Cancel(s) \/ Reprice(s) \/ \E type \in EventTypes : Reverse(s, type)
       \/ Renew
    /\ UNCHANGED <<row, call, acked, recorded, blocked, failures, offered>>

-----------------------------------------------------------------------------
(* The end of a call.                                                       *)

\* recordWebhookEvent() inserts; a second insert of the same event throws and
\* is answered with 500, and the event comes again.
Recorded(j) ==
    LET e == call[j].event
    IN  IF e = NoEvent THEN UNCHANGED <<recorded, acked>>
        ELSE /\ recorded' = recorded \cup {e}
             /\ acked' = IF e \in recorded THEN acked ELSE acked \cup {e}

\* The guard refuses while it could not confirm what is bound; it offers a
\* Checkout when neither an entitled nor an unconfirmed subscription is bound.
OffersCheckout_Unconfirmed(linked, r) == ~Entitled(r.status) /\ r.status # "checkout_complete"

OffersCheckout(linked, r) == linked /\ ~Entitled(r.status) /\ r.status # "checkout_complete"

Live(s) == s \in Subs /\ Entitled(stripe[s].status) /\ stripe[s].pass

\* What the guard answers when its reconciliation has ended.
Guarded(j, r, linked) ==
    offered' = (offered \/ (call[j].kind = "guard" /\ OffersCheckout(linked, r) /\ Live(r.sub) /\ r.status # "missing"))

\* A call ends with row r; linked: it has saved or confirmed the subscription.
End(j, r, linked) ==
    /\ row' = r
    /\ call' = [call EXCEPT ![j] = NoCall]
    /\ Guarded(j, r, linked)
    /\ Recorded(j)

\* The status is taken away, not replaced.
Revoked_Clears(r, status) == [r EXCEPT !.status = None]

\* revokeEntitlement(): the identifiers stay.
Revoked(r, status) == [r EXCEPT !.status = status]

Saved(s, snap) == [sub |-> s, status |-> snap.status, paid |-> snap.paid]

\* playerPassPriceDecision()
Decision(s, snap) == IF snap.pass THEN "allow" ELSE IF row.sub = s THEN "revoke" ELSE "ignore"

-----------------------------------------------------------------------------
(* Calls.                                                                   *)

Start(j, c) == call[j].at = "idle" /\ call' = [call EXCEPT ![j] = c]

\* The first look at webhook_events is left out.
Deliver_Again(j, e) ==
    /\ e \in emitted \ acked
    /\ Start(j, [NoCall EXCEPT !.kind = "webhook", !.at = "fetch", !.event = e, !.sub = e.sub])
    /\ UNCHANGED <<stripeVars, row, acked, recorded, blocked, failures, offered>>

\* POST /api/webhooks/stripe: handleStripeEvent() up to its first await.
Deliver(j, e) ==
    /\ e \in emitted \ acked
    /\ call[j].at = "idle"
    /\ IF e \in recorded
       THEN acked' = acked \cup {e} /\ UNCHANGED <<row, call, recorded>>
       ELSE IF e.type = "refunded"
       THEN /\ row' = IF row.sub = e.sub THEN Revoked(row, "refunded") ELSE row
            /\ recorded' = recorded \cup {e} /\ acked' = acked \cup {e}
            /\ UNCHANGED call
       ELSE /\ call' = [call EXCEPT ![j] = [NoCall EXCEPT !.kind = "webhook", !.at = "fetch", !.event = e, !.sub = e.sub]]
            /\ UNCHANGED <<row, acked, recorded>>
    /\ UNCHANGED <<stripeVars, blocked, failures, offered>>

\* Only a period that has not ended is asked for.
NeedsRefresh_TooEarly == Entitled(row.status) /\ row.paid > period

\* subscriptionNeedsRefresh()
NeedsRefresh == Entitled(row.status) /\ row.paid < period

\* reconcileStoredSubscription() from a page load, or from the checkout guard,
\* which asks without regard to the period.
Reconcile(j, kind) ==
    /\ kind \in {"load", "guard"}
    /\ row.sub # NoSub
    /\ kind = "load" => NeedsRefresh
    /\ Start(j, [NoCall EXCEPT !.kind = kind, !.at = "fetch", !.sub = row.sub])
    /\ UNCHANGED <<stripeVars, row, acked, recorded, blocked, failures, offered>>

\* reconcileSubscriptionByEmail(): no subscription is bound, and exactly one
\* entitled Player Pass has the account's address. syncCompletedCheckoutSession():
\* the browser comes back from the Checkout of s.
Look(j, kind, s) ==
    /\ kind \in {"email", "return"}
    /\ stripe[s].status # None
    /\ kind = "email" => row.sub = NoSub /\ {t \in Subs : Live(t)} = {s}
    /\ Start(j, [NoCall EXCEPT !.kind = kind, !.sub = s, !.snap = IF kind = "email" THEN stripe[s] ELSE NoSnap,
                               !.at = IF kind = "email" THEN "decide" ELSE "fetch"])
    /\ UNCHANGED <<stripeVars, row, acked, recorded, blocked, failures, offered>>

\* Stripe answers retrieve().
Fetched(j) ==
    /\ call[j].at = "fetch"
    /\ call' = [call EXCEPT ![j].at = "decide", ![j].snap = IF call[j].sub \in Subs THEN stripe[call[j].sub] ELSE MissingSnap]
    /\ UNCHANGED <<stripeVars, row, acked, recorded, blocked, failures, offered>>

\* charge.dispute.created: the charge is known, and its customer.
Dispute(j) ==
    LET bound == row.sub = call[j].sub
    IN  /\ call[j].at = "decide"
        /\ call[j].event.type = "disputed"
        /\ End(j, IF bound THEN Revoked(row, "disputed") ELSE row, TRUE)
        /\ blocked' = (blocked \/ bound)
        /\ UNCHANGED <<stripeVars, failures>>

\* Stripe does not know what is bound.
Missing(j) ==
    /\ call[j].at = "decide" /\ call[j].snap = MissingSnap
    /\ End(j, Revoked(row, "missing"), TRUE)
    /\ UNCHANGED <<stripeVars, blocked, failures>>

\* Another subscription is bound, and has to be compared with first.
Differs(s) == row.sub # NoSub /\ row.sub # s /\ row.status # "missing"

Decides(j) ==
    /\ call[j].at = "decide" /\ call[j].snap # MissingSnap
    /\ call[j].event.type # "disputed"

\* saveAuthoritativeSubscription() of a subscription that is nothing to the
\* account, was moved off the pass, or is saved at once.
Decide(j) ==
    LET s == call[j].sub
        decision == Decision(s, call[j].snap)
    IN  /\ Decides(j)
        /\ \/ decision = "ignore" /\ End(j, row, FALSE)
           \/ decision = "revoke" /\ End(j, Revoked(row, "not_player_pass"), TRUE)
           \/ decision = "allow" /\ ~Differs(s) /\ End(j, Saved(s, call[j].snap), TRUE)
        /\ UNCHANGED <<stripeVars, blocked, failures>>

\* ... or asks Stripe for the other one.
Compare(j) ==
    /\ Decides(j)
    /\ Decision(call[j].sub, call[j].snap) = "allow" /\ Differs(call[j].sub)
    /\ call' = [call EXCEPT ![j].at = "compare", ![j].against = row.sub]
    /\ UNCHANGED <<stripeVars, row, acked, recorded, blocked, failures, offered>>

Newer(s, against) == against < s

\* The newer of the two wins.
Compared(j) ==
    LET s == call[j].sub
        wins == Newer(s, call[j].against)
    IN  /\ call[j].at = "compare"
        /\ End(j, IF wins THEN Saved(s, call[j].snap) ELSE row, wins)
        /\ UNCHANGED <<stripeVars, blocked, failures>>

\* Stripe does not answer: a webhook is answered with 500, the others count it
\* as not confirmed.
Fail(j) ==
    /\ call[j].at \in {"fetch", "compare"}
    /\ failures < MaxFailures
    /\ failures' = failures + 1
    /\ call' = [call EXCEPT ![j] = NoCall]
    /\ Guarded(j, row, FALSE)
    /\ UNCHANGED <<stripeVars, row, acked, recorded, blocked>>

\* Stripe does not hear the answer 200.
LoseAck ==
    /\ failures < MaxFailures
    /\ failures' = failures + 1
    /\ \E e \in acked : acked' = acked \ {e}
    /\ UNCHANGED <<stripeVars, row, call, recorded, blocked, offered>>

Proceed(j) == Fetched(j) \/ Dispute(j) \/ Missing(j) \/ Decide(j) \/ Compare(j) \/ Compared(j)

Load == \E j \in Calls : Reconcile(j, "load")

Redeliver == \E j \in Calls, e \in emitted : Deliver(j, e)

Next ==
    \/ StripeMoves
    \/ LoseAck
    \/ \E j \in Calls :
          \/ Proceed(j) \/ Fail(j)
          \/ \E e \in emitted : Deliver(j, e)
          \/ \E kind \in {"load", "guard"} : Reconcile(j, kind)
          \/ \E kind \in {"email", "return"}, s \in Subs : Look(j, kind, s)

Events == [type : EventTypes, sub : Subs]

\* Stripe answers, and repeats a webhook until it is acknowledged; the player
\* loads the page now and then.
Fairness ==
    /\ \A j \in Calls : WF_vars(Proceed(j))
    /\ SF_vars(Redeliver)
    /\ SF_vars(Load)

Spec == Init /\ [][Next]_vars /\ Fairness

-----------------------------------------------------------------------------
(* Properties.                                                              *)

Statuses == {"active", "canceled", "refunded", "disputed", "missing", "not_player_pass"}

TypeOK ==
    /\ stripe \in [Subs -> [status : {None, "active", "canceled"}, pass : BOOLEAN, paid : 0..MaxPeriod]]
    /\ row = NoRow \/ row \in [sub : 0..Last, status : Statuses, paid : 0..MaxPeriod]
    /\ \A j \in Calls : call[j].at \in {"idle", "fetch", "decide", "compare"} /\ call[j].against \in 0..NoSub
    /\ acked \subseteq emitted /\ recorded \subseteq emitted
    /\ emitted \subseteq Events

\* The guard offers a Checkout over a bound subscription only when Stripe has it
\* lapsed or off the pass at that moment, whatever webhooks, revocations and page
\* loads came between (the no-duplicate rule of resolveCheckoutGuard()). Only a row
\* marked missing may be wrong: the mark is written after an await, to whatever
\* subscription was bound in the meantime.
NoSecondCheckout == ~offered

\* An event is acknowledged in the end, though overlapping deliveries make each
\* other's insert fail and an acknowledgement may be lost.
Acknowledged == acked = emitted
EveryEventHandled == <>[]Acknowledged

\* A pass that was cancelled does not entitle for ever: a stale snapshot may
\* write it back once its webhook is handled, but the period it is paid for ends.
PaidFor == Entitled(row.status) => row.sub \in Subs /\ (stripe[row.sub].status = "canceled" => stripe[row.sub].paid = period)
LapseNoticed == <>[]PaidFor

\* "the newer subscription wins": the row never goes back from a subscription to
\* an older one.
NewerWins == [][row.sub \in Subs /\ row'.sub \in Subs /\ row.status # "missing" => row'.sub >= row.sub]_row
=============================================================================
