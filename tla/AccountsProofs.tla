--------------------------- MODULE AccountsProofs ---------------------------
(***************************************************************************)
(* For any number of overlapping requests, calls, subscriptions, periods    *)
(* and mishaps: the checkout guard never offers a second pass, and repeating *)
(* "play now" makes a second campaign or character only for a cause, keeps   *)
(* the preset, and calls an intent done only when it can be played.          *)
(***************************************************************************)
EXTENDS MCAccounts, FiniteSetTheorems, SequenceTheorems, TLAPS

-----------------------------------------------------------------------------
(* The Player Pass.                                                         *)

PassTypes ==
    [status : {"none", "active", "canceled"}, pass : BOOLEAN, paid : 0..MaxPeriod]
Snapshots ==
    [status : {"none", "active", "canceled", "missing"}, pass : BOOLEAN, paid : 0..MaxPeriod]
RowTypes == [sub : 0..Last, status : Billing!Statuses, paid : 0..MaxPeriod]
CallTypes ==
    [kind : {"none", "webhook", "load", "guard", "email", "return"},
     at : {"idle", "fetch", "decide", "compare"},
     event : Billing!Events \cup {Billing!NoEvent},
     sub : 0..(Last + 1), snap : Snapshots, against : 0..(Last + 1)]

PassTyped ==
    /\ stripe \in [Billing!Subs -> PassTypes]
    /\ period \in 1..MaxPeriod
    /\ row = Billing!NoRow \/ row \in RowTypes
    /\ call \in [Calls -> CallTypes]
    /\ acked \subseteq emitted /\ recorded \subseteq emitted
    /\ emitted \subseteq Billing!Events

\* A subscription somebody speaks of has been bought.
Bought(s, st) == s \in Billing!Subs => st[s].status # "none"

\* What a call learned of its subscription was so once, and what Stripe has
\* taken away since does not come back: a pass that was canceled or moved to
\* another price stays so. Only an unknown subscription is missing.
SnapFits(c, st) ==
    /\ c.snap = Billing!MissingSnap <=> c.sub \notin Billing!Subs
    /\ c.sub \in Billing!Subs =>
          /\ c.snap.status \in {"active", "canceled"}
          /\ ~c.snap.pass => ~st[c.sub].pass
          /\ c.snap.status = "canceled" => st[c.sub].status = "canceled"

\* Only a webhook carries an event, and a call that is about to be compared
\* speaks of a subscription that Stripe knows.
CallFits(c, st, bound, events) ==
    /\ c.event # Billing!NoEvent => c.kind = "webhook" /\ c.event \in events
    /\ c.at # "idle" =>
          /\ c.sub \in 0..Last /\ Bought(c.sub, st)
          /\ c.sub = Billing!Legacy => bound # Billing!NoSub
    /\ c.at \in {"decide", "compare"} => SnapFits(c, st)
    /\ c.at = "compare" => c.sub \in Billing!Subs

PassInv ==
    /\ PassTyped
    /\ Bought(row.sub, stripe)
    /\ \A e \in emitted : Bought(e.sub, stripe)
    /\ \A j \in Calls : CallFits(call[j], stripe, row.sub, emitted)
    /\ ~offered

PassHolds == part = "Billing" => PassInv

LEMMA BillingConstants ==
    /\ Last \in Nat /\ MaxPeriod \in Nat \ {0}
    /\ Billing!Subs = 1..Last /\ Billing!NoSub = Last + 1 /\ Billing!Legacy = 0
    /\ Billing!NoRow = [sub |-> Last + 1, status |-> "none", paid |-> 0]
    /\ Billing!NoSnap = [status |-> "none", pass |-> FALSE, paid |-> 0]
    /\ Billing!MissingSnap = [status |-> "missing", pass |-> FALSE, paid |-> 0]
    /\ Billing!NoEvent = [type |-> "none", sub |-> Last + 1]
    /\ Billing!NoCall = [kind |-> "none", at |-> "idle", event |-> Billing!NoEvent, sub |-> Last + 1,
                         snap |-> Billing!NoSnap, against |-> Last + 1]
    /\ Billing!Events = [type : {"created", "updated", "canceled", "refunded", "disputed"}, sub : 1..Last]
    /\ Billing!NoEvent \notin Billing!Events
    /\ Billing!Statuses = {"active", "canceled", "refunded", "disputed", "missing", "not_player_pass"}
<1>1. /\ Last \in Nat /\ MaxPeriod \in Nat \ {0}
      /\ Billing!Subs = 1..Last /\ Billing!NoSub = Last + 1 /\ Billing!Legacy = 0
  BY AccountsAssumption DEF Billing!Subs, Billing!NoSub, Billing!Legacy
<1>2. /\ Billing!NoRow = [sub |-> Last + 1, status |-> "none", paid |-> 0]
      /\ Billing!NoSnap = [status |-> "none", pass |-> FALSE, paid |-> 0]
      /\ Billing!NoEvent = [type |-> "none", sub |-> Last + 1]
  BY <1>1 DEF Billing!NoRow, Billing!NoSnap, Billing!NoEvent, Billing!Event, Billing!None
<1>3. Billing!MissingSnap = [status |-> "missing", pass |-> FALSE, paid |-> 0]
  <2>1. Billing!MissingSnap = [Billing!NoSnap EXCEPT !["status"] = "missing"]
    BY DEF Billing!MissingSnap
  <2> QED
    BY <1>2, <2>1
<1>4. Billing!NoCall = [kind |-> "none", at |-> "idle", event |-> Billing!NoEvent, sub |-> Last + 1,
                        snap |-> Billing!NoSnap, against |-> Last + 1]
  BY <1>1 DEF Billing!NoCall, Billing!None
<1>5. Billing!Events = [type : {"created", "updated", "canceled", "refunded", "disputed"}, sub : 1..Last]
  BY <1>1 DEF Billing!Events, Billing!EventTypes
<1>6. Billing!NoEvent \notin Billing!Events
  BY <1>1, <1>2, <1>5
<1> QED
  BY <1>1, <1>2, <1>3, <1>4, <1>5, <1>6 DEF Billing!Statuses

LEMMA NoCallFits ==
    /\ Billing!NoCall \in CallTypes
    /\ \A st, bound, events : CallFits(Billing!NoCall, st, bound, events)
<1>1. Billing!NoSnap \in Snapshots
  BY BillingConstants DEF Snapshots
<1>2. Billing!NoCall \in CallTypes
  BY <1>1, BillingConstants DEF CallTypes
<1>3. Billing!NoCall.at = "idle" /\ Billing!NoCall.event = Billing!NoEvent
  BY BillingConstants
<1> QED
  BY <1>2, <1>3 DEF CallFits

\* The calls that requests begin.
LEMMA CallMade ==
    /\ \A e \in Billing!Events :
          [Billing!NoCall EXCEPT !.kind = "webhook", !.at = "fetch", !.event = e, !.sub = e.sub] \in CallTypes
    /\ \A kind \in {"load", "guard"}, sub \in 0..Last :
          [Billing!NoCall EXCEPT !.kind = kind, !.at = "fetch", !.sub = sub] \in CallTypes
    /\ \A kind \in {"email", "return"}, sub \in 0..Last, snap \in Snapshots, at \in {"fetch", "decide"} :
          [Billing!NoCall EXCEPT !.kind = kind, !.sub = sub, !.snap = snap, !.at = at] \in CallTypes
<1> DEFINE c == Billing!NoCall
<1>1. c \in CallTypes
  BY NoCallFits
<1>0. /\ \A n \in 0..Last : n \in 0..(Last + 1)
      /\ \A e \in Billing!Events : e.sub \in 0..(Last + 1)
  BY BillingConstants
<1> HIDE DEF c
<1>2. \A e \in Billing!Events :
         [c EXCEPT !.kind = "webhook", !.at = "fetch", !.event = e, !.sub = e.sub] \in CallTypes
  BY <1>0, <1>1 DEF CallTypes
<1>3. \A kind \in {"load", "guard"}, sub \in 0..Last : [c EXCEPT !.kind = kind, !.at = "fetch", !.sub = sub] \in CallTypes
  BY <1>0, <1>1 DEF CallTypes
<1>4. \A kind \in {"email", "return"}, sub \in 0..Last, snap \in Snapshots, at \in {"fetch", "decide"} :
         [c EXCEPT !.kind = kind, !.sub = sub, !.snap = snap, !.at = at] \in CallTypes
  BY <1>0, <1>1 DEF CallTypes
<1> QED
  BY <1>2, <1>3, <1>4 DEF c

LEMMA PassStarts == Billing!Init => PassInv
<1> SUFFICES ASSUME Billing!Init PROVE PassInv
  OBVIOUS
<1>1. stripe \in [Billing!Subs -> PassTypes] /\ period \in 1..MaxPeriod
  BY BillingConstants DEF Billing!Init, PassTypes, Billing!None
<1>2. row = Billing!NoRow \/ row \in RowTypes
  BY BillingConstants DEF Billing!Init, RowTypes
<1>3. row.sub \notin Billing!Subs
  BY BillingConstants DEF Billing!Init
<1>4. call \in [Calls -> CallTypes] /\ \A j \in Calls : CallFits(call[j], stripe, row.sub, emitted)
  BY NoCallFits DEF Billing!Init
<1> QED
  BY <1>1, <1>2, <1>3, <1>4 DEF Billing!Init, PassInv, PassTyped, Bought

\* Stripe takes away and does not give back.
Onward ==
    \A s \in Billing!Subs :
       stripe[s].status # "none" =>
          /\ stripe'[s].status # "none"
          /\ ~stripe[s].pass => ~stripe'[s].pass
          /\ stripe[s].status = "canceled" => stripe'[s].status = "canceled"

LEMMA OnwardKeepsPass ==
    ASSUME PassInv, Onward, stripe' \in [Billing!Subs -> PassTypes], period' \in 1..MaxPeriod,
           emitted' \subseteq Billing!Events, emitted \subseteq emitted',
           \A e \in emitted' \ emitted : Bought(e.sub, stripe'),
           UNCHANGED <<row, call, acked, recorded, offered>>
    PROVE  PassInv'
<1>1. \A s : Bought(s, stripe) => Bought(s, stripe')
  BY DEF Bought, Onward
<1>2. \A j \in Calls : CallFits(call[j], stripe', row.sub, emitted')
  <2> SUFFICES ASSUME NEW j \in Calls PROVE CallFits(call[j], stripe', row.sub, emitted')
    OBVIOUS
  <2>1. CallFits(call[j], stripe, row.sub, emitted)
    BY DEF PassInv
  <2>2. Bought(call[j].sub, stripe) /\ SnapFits(call[j], stripe) => SnapFits(call[j], stripe')
    BY DEF SnapFits, Onward, Bought
  <2> QED
    BY <1>1, <2>1, <2>2 DEF CallFits
<1>3. PassTyped'
  BY DEF PassInv, PassTyped
<1>4. Bought(row.sub, stripe') /\ \A e \in emitted' : Bought(e.sub, stripe')
  BY <1>1 DEF PassInv
<1> QED
  BY <1>2, <1>3, <1>4 DEF PassInv

LEMMA StripeKeepsPass ==
    ASSUME PassInv, Billing!StripeMoves
    PROVE  PassInv'
<1> USE BillingConstants
<1>0. PassTyped /\ UNCHANGED <<row, call, acked, recorded, offered>>
  BY DEF PassInv, Billing!StripeMoves
<1>1. ASSUME NEW s \in Billing!Subs, NEW type, Billing!Emit(type, s), type \in Billing!EventTypes
      PROVE  /\ emitted' \subseteq Billing!Events /\ emitted \subseteq emitted'
             /\ \A e \in emitted' \ emitted : e.sub = s
  BY <1>0, <1>1 DEF Billing!Emit, Billing!Event, PassTyped, Billing!EventTypes
<1>2. ASSUME NEW s \in Billing!Subs, Billing!Buy(s) PROVE PassInv'
  <2>1. [status |-> "active", pass |-> TRUE, paid |-> period] \in PassTypes
    BY <1>0 DEF PassTyped, PassTypes
  <2>2. stripe' \in [Billing!Subs -> PassTypes] /\ Onward /\ stripe'[s].status # "none" /\ period' = period
    BY <1>0, <1>2, <2>1 DEF Billing!Buy, PassTyped, Onward, Billing!None
  <2>3. Billing!Emit("created", s) /\ "created" \in Billing!EventTypes
    BY <1>2 DEF Billing!Buy, Billing!EventTypes
  <2>4. \A e \in emitted' \ emitted : Bought(e.sub, stripe')
    BY <1>1, <2>2, <2>3 DEF Bought
  <2> QED
    BY <1>0, <1>1, <2>2, <2>3, <2>4, OnwardKeepsPass DEF PassTyped
<1>3. ASSUME NEW s \in Billing!Subs, Billing!Cancel(s) PROVE PassInv'
  <2>1. stripe' \in [Billing!Subs -> PassTypes] /\ Onward /\ stripe'[s].status # "none" /\ period' = period
    BY <1>0, <1>3 DEF Billing!Cancel, PassTyped, PassTypes, Onward
  <2>2. Billing!Emit("canceled", s) /\ "canceled" \in Billing!EventTypes
    BY <1>3 DEF Billing!Cancel, Billing!EventTypes
  <2>3. \A e \in emitted' \ emitted : Bought(e.sub, stripe')
    BY <1>1, <2>1, <2>2 DEF Bought
  <2> QED
    BY <1>0, <1>1, <2>1, <2>2, <2>3, OnwardKeepsPass DEF PassTyped
<1>4. ASSUME NEW s \in Billing!Subs, Billing!Reprice(s) PROVE PassInv'
  <2>1. stripe' \in [Billing!Subs -> PassTypes] /\ Onward /\ stripe'[s].status # "none" /\ period' = period
    BY <1>0, <1>4 DEF Billing!Reprice, PassTyped, PassTypes, Onward
  <2>2. Billing!Emit("updated", s) /\ "updated" \in Billing!EventTypes
    BY <1>4 DEF Billing!Reprice, Billing!EventTypes
  <2>3. \A e \in emitted' \ emitted : Bought(e.sub, stripe')
    BY <1>1, <2>1, <2>2 DEF Bought
  <2> QED
    BY <1>0, <1>1, <2>1, <2>2, <2>3, OnwardKeepsPass DEF PassTyped
<1>5. ASSUME NEW s \in Billing!Subs, NEW type \in Billing!EventTypes, Billing!Reverse(s, type) PROVE PassInv'
  <2>1. Billing!Emit(type, s) /\ stripe' = stripe /\ period' = period /\ stripe[s].status # "none"
    BY <1>5 DEF Billing!Reverse, Billing!None
  <2>2. Onward /\ \A e \in emitted' \ emitted : Bought(e.sub, stripe')
    BY <1>1, <2>1 DEF Onward, Bought
  <2> QED
    BY <1>0, <1>1, <2>1, <2>2, OnwardKeepsPass DEF PassTyped
<1>6. CASE Billing!Renew
  <2>1. period' \in 1..MaxPeriod /\ period + 1 \in 0..MaxPeriod /\ emitted' = emitted
    BY <1>0, <1>6 DEF Billing!Renew, PassTyped
  <2>2. stripe' \in [Billing!Subs -> PassTypes] /\ Onward
    <3>1. stripe \in [Billing!Subs -> PassTypes]
      BY <1>0 DEF PassTyped
    <3>2. stripe' = [s \in Billing!Subs |->
             IF stripe[s].status = "active" THEN [stripe[s] EXCEPT !.paid = period + 1] ELSE stripe[s]]
      BY <1>6 DEF Billing!Renew
    <3>3. ASSUME NEW s \in Billing!Subs
          PROVE  /\ stripe'[s] \in PassTypes
                 /\ stripe'[s].status = stripe[s].status /\ stripe'[s].pass = stripe[s].pass
      <4>1. stripe[s] \in PassTypes
        BY <3>1
      <4>2. stripe'[s] \in {stripe[s], [stripe[s] EXCEPT !.paid = period + 1]}
        BY <3>2
      <4> QED
        BY <2>1, <4>1, <4>2 DEF PassTypes
    <3> QED
      BY <3>2, <3>3 DEF Onward
  <2> QED
    BY <1>0, <2>1, <2>2, OnwardKeepsPass DEF PassTyped
<1> QED
  BY <1>2, <1>3, <1>4, <1>5, <1>6 DEF Billing!StripeMoves

\* A step of call j alone, which leaves c of it, r of the row and Stripe as it is.
LEMMA CallKeepsPass ==
    ASSUME PassInv, UNCHANGED <<stripe, period, emitted>>, NEW j \in Calls, NEW c \in CallTypes,
           call' = [call EXCEPT ![j] = c], CallFits(c, stripe, row.sub, emitted),
           row' = row \/ (row' \in RowTypes /\ Bought(row'.sub, stripe)),
           acked' \subseteq emitted, recorded' \subseteq emitted, ~offered'
    PROVE  PassInv'
<1>0. PassTyped /\ \A i \in Calls : CallFits(call[i], stripe, row.sub, emitted)
  BY DEF PassInv
<1>1. row.sub # Billing!NoSub => row'.sub # Billing!NoSub
  BY BillingConstants DEF RowTypes
<1>2. \A d : CallFits(d, stripe, row.sub, emitted) => CallFits(d, stripe, row'.sub, emitted)
  BY <1>1 DEF CallFits
<1>3. PassTyped'
  BY <1>0 DEF PassTyped
<1>4. \A i \in Calls : CallFits(call'[i], stripe, row'.sub, emitted)
  BY <1>0, <1>2 DEF PassTyped
<1>5. Bought(row'.sub, stripe)
  BY DEF PassInv
<1> QED
  BY <1>3, <1>4, <1>5 DEF PassInv

LEMMA CallFacts ==
    ASSUME PassInv, NEW j \in Calls
    PROVE  /\ call[j] \in CallTypes /\ CallFits(call[j], stripe, row.sub, emitted)
           /\ row = Billing!NoRow \/ row \in RowTypes
           /\ stripe \in [Billing!Subs -> PassTypes]
           /\ Bought(row.sub, stripe) /\ ~offered
           /\ acked \subseteq emitted /\ recorded \subseteq emitted
  BY DEF PassInv, PassTyped

\* The guard is offered nothing over a row that is refused, revoked or entitled.
Harmless(r, linked) ==
    linked => \/ r.status \in {"missing", "active"}
              \/ ~Billing!Live(r.sub)

\* The end of a call.
LEMMA EndKeepsPass ==
    ASSUME PassInv, UNCHANGED <<stripe, period, emitted>>, NEW j \in Calls, NEW r, NEW linked,
           Billing!End(j, r, linked), Harmless(r, linked) \/ call[j].kind # "guard",
           r = row \/ (r \in RowTypes /\ Bought(r.sub, stripe))
    PROVE  PassInv'
<1>1. /\ call' = [call EXCEPT ![j] = Billing!NoCall] /\ row' = r
      /\ Billing!Guarded(j, r, linked) /\ Billing!Recorded(j)
  BY DEF Billing!End
<1>2. ~offered'
  BY <1>1, CallFacts DEF Billing!Guarded, Billing!OffersCheckout, Harmless, Billing!Entitled
<1>3. acked' \subseteq emitted /\ recorded' \subseteq emitted
  BY <1>1, CallFacts DEF Billing!Recorded, CallFits
<1> QED
  BY <1>1, <1>2, <1>3, NoCallFits, CallKeepsPass

\* What a call saves has been bought, and is lapsed at Stripe if it is at all.
LEMMA SavedFits ==
    ASSUME PassInv, NEW j \in Calls, call[j].at \in {"decide", "compare"}, call[j].sub \in Billing!Subs
    PROVE  LET r == Billing!Saved(call[j].sub, call[j].snap)
           IN  r \in RowTypes /\ Bought(r.sub, stripe) /\ Harmless(r, TRUE)
<1> USE BillingConstants
<1>1. /\ call[j].snap \in Snapshots /\ call[j].snap.status \in {"active", "canceled"}
      /\ call[j].snap.status = "canceled" => stripe[call[j].sub].status = "canceled"
      /\ Bought(call[j].sub, stripe)
  BY CallFacts DEF CallFits, SnapFits, CallTypes
<1>2. Billing!Saved(call[j].sub, call[j].snap)
        = [sub |-> call[j].sub, status |-> call[j].snap.status, paid |-> call[j].snap.paid]
  BY DEF Billing!Saved
<1>3. Billing!Saved(call[j].sub, call[j].snap) \in RowTypes
  BY <1>1, <1>2 DEF RowTypes, Snapshots
<1>4. call[j].snap.status = "active" \/ ~Billing!Live(call[j].sub)
  BY <1>1 DEF Billing!Live, Billing!Entitled
<1> QED
  BY <1>1, <1>2, <1>3, <1>4 DEF Harmless

LEMMA RevokedFits ==
    ASSUME PassInv, row.sub # Billing!NoSub, NEW status \in Billing!Statuses
    PROVE  LET r == Billing!Revoked(row, status)
           IN  r \in RowTypes /\ Bought(r.sub, stripe) /\ r.sub = row.sub /\ r.status = status
<1>1. row \in RowTypes /\ Bought(row.sub, stripe)
  BY BillingConstants DEF PassInv, PassTyped
<1> QED
  BY <1>1 DEF Billing!Revoked, RowTypes

\* A call that begins.
LEMMA StartKeepsPass ==
    ASSUME PassInv, UNCHANGED <<stripe, period, emitted, row, acked, recorded, offered>>, NEW j \in Calls,
           NEW c \in CallTypes, call' = [call EXCEPT ![j] = c], CallFits(c, stripe, row.sub, emitted)
    PROVE  PassInv'
  BY CallFacts, CallKeepsPass

LEMMA CallsKeepPass ==
    ASSUME PassInv, NEW j \in Calls, Billing!Proceed(j) \/ Billing!Fail(j)
    PROVE  PassInv'
<1> USE BillingConstants
<1>0. UNCHANGED <<stripe, period, emitted>>
  BY DEF Billing!Proceed, Billing!Fail, Billing!Fetched, Billing!Dispute, Billing!Missing, Billing!Decide,
         Billing!Compare, Billing!Compared, Billing!stripeVars
<1>1. CASE Billing!Fetched(j)
  <2> DEFINE snap == IF call[j].sub \in Billing!Subs THEN stripe[call[j].sub] ELSE Billing!MissingSnap
             c == [call[j] EXCEPT !.at = "decide", !.snap = snap]
  <2>1. call[j].sub \in 0..Last /\ Bought(call[j].sub, stripe) /\ call[j] \in CallTypes
    BY <1>1, CallFacts DEF Billing!Fetched, CallFits
  <2>2. snap \in Snapshots
    BY <2>1, CallFacts DEF Snapshots, PassTypes
  <2>3. SnapFits(c, stripe)
    BY <2>1, CallFacts DEF SnapFits, Bought, PassTypes, CallTypes
  <2>4. c \in CallTypes
    BY <2>1, <2>2 DEF CallTypes
  <2>5. CallFits(c, stripe, row.sub, emitted)
    BY <1>1, <2>1, <2>3, CallFacts DEF CallFits, CallTypes, Billing!Fetched
  <2>6. call' = [call EXCEPT ![j] = c] /\ UNCHANGED <<row, acked, recorded, offered>>
    BY <1>1, CallFacts DEF Billing!Fetched, CallTypes, PassInv, PassTyped
  <2> QED
    BY <1>0, <2>4, <2>5, <2>6, StartKeepsPass
<1>2. CASE Billing!Dispute(j)
  <2>1. call[j].kind # "guard"
    BY <1>2, CallFacts DEF Billing!Dispute, CallFits
  <2>2. call[j].sub # Billing!NoSub
    BY <1>2, CallFacts DEF Billing!Dispute, CallFits
  <2>3. CASE row.sub = call[j].sub
    <3>1. Billing!End(j, Billing!Revoked(row, "disputed"), TRUE)
      BY <1>2, <2>3 DEF Billing!Dispute
    <3> QED
      BY <1>0, <2>1, <2>2, <2>3, <3>1, RevokedFits, EndKeepsPass
  <2>4. CASE row.sub # call[j].sub
    <3>1. Billing!End(j, row, TRUE)
      BY <1>2, <2>4 DEF Billing!Dispute
    <3> QED
      BY <1>0, <2>1, <3>1, EndKeepsPass
  <2> QED
    BY <2>3, <2>4
<1>3. CASE Billing!Missing(j)
  <2>1. call[j].sub = Billing!Legacy /\ row.sub # Billing!NoSub
    BY <1>3, CallFacts DEF Billing!Missing, CallFits, SnapFits
  <2>2. Billing!End(j, Billing!Revoked(row, "missing"), TRUE)
    BY <1>3 DEF Billing!Missing
  <2>3. Harmless(Billing!Revoked(row, "missing"), TRUE)
    BY <2>1, RevokedFits DEF Harmless
  <2> QED
    BY <1>0, <2>1, <2>2, <2>3, RevokedFits, EndKeepsPass
<1>4. ASSUME Billing!Decides(j)
      PROVE  call[j].sub \in Billing!Subs /\ call[j].at = "decide"
  BY <1>4, CallFacts DEF Billing!Decides, CallFits, SnapFits
<1>5. CASE Billing!Decide(j)
  <2> DEFINE decision == Billing!Decision(call[j].sub, call[j].snap)
  <2>0. call[j].sub \in Billing!Subs /\ call[j].at = "decide"
    BY <1>4, <1>5 DEF Billing!Decide
  <2>1. CASE decision = "ignore" /\ Billing!End(j, row, FALSE)
    BY <1>0, <2>1, EndKeepsPass DEF Harmless
  <2>2. CASE decision = "revoke" /\ Billing!End(j, Billing!Revoked(row, "not_player_pass"), TRUE)
    <3>1. row.sub = call[j].sub /\ ~call[j].snap.pass
      BY <2>2 DEF Billing!Decision
    <3>2. ~Billing!Live(row.sub)
      BY <2>0, <3>1, CallFacts DEF CallFits, SnapFits, Billing!Live
    <3>3. row.sub # Billing!NoSub
      BY <2>0, <3>1
    <3>4. Harmless(Billing!Revoked(row, "not_player_pass"), TRUE)
      BY <3>2, <3>3, RevokedFits DEF Harmless
    <3> QED
      BY <1>0, <2>2, <3>3, <3>4, RevokedFits, EndKeepsPass
  <2>3. CASE Billing!End(j, Billing!Saved(call[j].sub, call[j].snap), TRUE)
    BY <1>0, <2>0, <2>3, SavedFits, EndKeepsPass
  <2> QED
    BY <1>5, <2>1, <2>2, <2>3 DEF Billing!Decide
<1>6. CASE Billing!Compare(j)
  <2> DEFINE c == [call[j] EXCEPT !.at = "compare", !.against = row.sub]
  <2>0. call[j].sub \in Billing!Subs /\ call[j].at = "decide" /\ call[j] \in CallTypes
    BY <1>4, <1>6, CallFacts DEF Billing!Compare
  <2>1. row.sub \in 0..(Last + 1)
    BY CallFacts DEF RowTypes
  <2>2. c \in CallTypes
    BY <2>0, <2>1 DEF CallTypes
  <2>3. CallFits(c, stripe, row.sub, emitted)
    BY <2>0, CallFacts DEF CallFits, CallTypes, SnapFits
  <2>4. call' = [call EXCEPT ![j] = c] /\ UNCHANGED <<row, acked, recorded, offered>>
    BY <1>6, CallFacts DEF Billing!Compare, CallTypes, PassInv, PassTyped
  <2> QED
    BY <1>0, <2>2, <2>3, <2>4, StartKeepsPass
<1>7. CASE Billing!Compared(j)
  <2>0. call[j].at = "compare" /\ call[j].sub \in Billing!Subs
    BY <1>7, CallFacts DEF Billing!Compared, CallFits
  <2>1. CASE Billing!Newer(call[j].sub, call[j].against)
    <3>1. Billing!End(j, Billing!Saved(call[j].sub, call[j].snap), TRUE)
      BY <1>7, <2>1 DEF Billing!Compared, Billing!Newer
    <3> QED
      BY <1>0, <2>0, <3>1, SavedFits, EndKeepsPass
  <2>2. CASE ~Billing!Newer(call[j].sub, call[j].against)
    <3>1. Billing!End(j, row, Billing!Newer(call[j].sub, call[j].against))
      BY <1>7, <2>2 DEF Billing!Compared
    <3> QED
      BY <1>0, <2>2, <3>1, EndKeepsPass DEF Harmless
  <2> QED
    BY <2>1, <2>2
<1>8. CASE Billing!Fail(j)
  <2>1. call' = [call EXCEPT ![j] = Billing!NoCall] /\ UNCHANGED <<row, acked, recorded>>
    BY <1>8 DEF Billing!Fail
  <2>2. ~offered'
    BY <1>8, CallFacts DEF Billing!Fail, Billing!Guarded, Billing!OffersCheckout
  <2> QED
    BY <1>0, <2>1, <2>2, NoCallFits, CallFacts, CallKeepsPass
<1> QED
  BY <1>1, <1>2, <1>3, <1>5, <1>6, <1>7, <1>8 DEF Billing!Proceed

LEMMA RequestsKeepPass ==
    ASSUME PassInv, NEW j \in Calls,
           \/ \E e \in emitted : Billing!Deliver(j, e)
           \/ \E kind \in {"load", "guard"} : Billing!Reconcile(j, kind)
           \/ \E kind \in {"email", "return"}, s \in Billing!Subs : Billing!Look(j, kind, s)
    PROVE  PassInv'
<1> USE BillingConstants
<1>1. ASSUME NEW e \in emitted, Billing!Deliver(j, e) PROVE PassInv'
  <2> DEFINE c == [Billing!NoCall EXCEPT !.kind = "webhook", !.at = "fetch", !.event = e, !.sub = e.sub]
  <2>0. /\ UNCHANGED <<stripe, period, emitted, offered>>
        /\ e \in Billing!Events /\ e.sub \in 1..Last /\ Bought(e.sub, stripe)
    BY <1>1 DEF Billing!Deliver, Billing!stripeVars, PassInv, PassTyped
  <2>1. CASE e \in recorded
    <3>1. acked' = acked \cup {e} /\ UNCHANGED <<row, call, recorded>>
      BY <1>1, <2>1 DEF Billing!Deliver
    <3> QED
      BY <2>0, <3>1 DEF PassInv, PassTyped
  <2>2. CASE e \notin recorded /\ e.type = "refunded"
    <3> DEFINE r == IF row.sub = e.sub THEN Billing!Revoked(row, "refunded") ELSE row
    <3>1. /\ row' = r
          /\ recorded' = recorded \cup {e} /\ acked' = acked \cup {e} /\ call' = call
      BY <1>1, <2>2 DEF Billing!Deliver
    <3>2. row' = row \/ (row' \in RowTypes /\ Bought(row'.sub, stripe))
      BY <2>0, <3>1, RevokedFits
    <3>3. call' = [call EXCEPT ![j] = call[j]]
      BY <3>1 DEF PassInv, PassTyped
    <3> QED
      BY <2>0, <3>1, <3>2, <3>3, CallFacts, CallKeepsPass
  <2>3. CASE e \notin recorded /\ e.type # "refunded"
    <3>1. call' = [call EXCEPT ![j] = c] /\ UNCHANGED <<row, acked, recorded>>
      BY <1>1, <2>3 DEF Billing!Deliver
    <3>2. c \in CallTypes
      BY <2>0, CallMade
    <3>3. CallFits(c, stripe, row.sub, emitted)
      BY <2>0 DEF CallFits
    <3> QED
      BY <2>0, <3>1, <3>2, <3>3, StartKeepsPass
  <2> QED
    BY <2>1, <2>2, <2>3
<1>2. ASSUME NEW kind \in {"load", "guard"}, Billing!Reconcile(j, kind) PROVE PassInv'
  <2> DEFINE c == [Billing!NoCall EXCEPT !.kind = kind, !.at = "fetch", !.sub = row.sub]
  <2>1. /\ UNCHANGED <<stripe, period, emitted, row, acked, recorded, offered>>
        /\ row.sub # Billing!NoSub /\ call' = [call EXCEPT ![j] = c]
    BY <1>2 DEF Billing!Reconcile, Billing!Start, Billing!stripeVars
  <2>2. row.sub \in 0..Last /\ Bought(row.sub, stripe)
    BY <2>1, CallFacts DEF RowTypes
  <2>3. c \in CallTypes
    BY <2>2, CallMade
  <2>4. CallFits(c, stripe, row.sub, emitted)
    BY <2>1, <2>2 DEF CallFits
  <2> QED
    BY <2>1, <2>3, <2>4, StartKeepsPass
<1>3. ASSUME NEW kind \in {"email", "return"}, NEW s \in Billing!Subs, Billing!Look(j, kind, s) PROVE PassInv'
  <2> DEFINE snap == IF kind = "email" THEN stripe[s] ELSE Billing!NoSnap
             at == IF kind = "email" THEN "decide" ELSE "fetch"
             c == [Billing!NoCall EXCEPT !.kind = kind, !.sub = s, !.snap = snap, !.at = at]
  <2>1. /\ UNCHANGED <<stripe, period, emitted, row, acked, recorded, offered>>
        /\ stripe[s].status # "none" /\ call' = [call EXCEPT ![j] = c]
    BY <1>3 DEF Billing!Look, Billing!Start, Billing!stripeVars, Billing!None
  <2>2. stripe[s] \in PassTypes /\ snap \in Snapshots
    BY CallFacts DEF PassTypes, Snapshots
  <2>3. c \in CallTypes
    <3>1. at \in {"fetch", "decide"} /\ s \in 0..Last
      OBVIOUS
    <3> HIDE DEF at, snap
    <3> DEFINE Asked(k, n, w, a) == [Billing!NoCall EXCEPT !.kind = k, !.sub = n, !.snap = w, !.at = a]
    <3>2. \A k \in {"email", "return"}, n \in 0..Last, w \in Snapshots, a \in {"fetch", "decide"} :
             Asked(k, n, w, a) \in CallTypes
      BY CallMade
    <3> HIDE DEF Asked
    <3>3. Asked(kind, s, snap, at) \in CallTypes
      BY <2>2, <3>1, <3>2
    <3> QED
      BY <3>3 DEF Asked
  <2>4. kind = "email" => SnapFits(c, stripe)
    <3>1. c.sub = s /\ c.snap = snap
      BY NoCallFits DEF CallTypes
    <3>2. kind = "email" => c.snap = stripe[s]
      BY <3>1
    <3>3. stripe[s].status \in {"active", "canceled"}
      BY <2>1, <2>2 DEF PassTypes
    <3>4. stripe[s] # Billing!MissingSnap
      BY <3>3
    <3> HIDE DEF c
    <3>5. ASSUME kind = "email" PROVE SnapFits(c, stripe)
      <4>1. c.sub = s /\ c.snap = stripe[s]
        BY <3>1, <3>2, <3>5
      <4> QED
        BY <3>3, <3>4, <4>1 DEF SnapFits
    <3> QED
      BY <3>5
  <2>5. CallFits(c, stripe, row.sub, emitted)
    <3>1. c.sub = s /\ c.at = at /\ c.event = Billing!NoEvent /\ s \in 1..Last
      BY NoCallFits DEF CallTypes
    <3>2. at \in {"fetch", "decide"} /\ (at = "decide" => kind = "email")
      OBVIOUS
    <3> HIDE DEF c, at
    <3> QED
      BY <2>1, <2>4, <3>1, <3>2 DEF CallFits, Bought
  <2> QED
    BY <2>1, <2>3, <2>5, StartKeepsPass
<1> QED
  BY <1>1, <1>2, <1>3

LEMMA PassStays == PassInv /\ [Billing!Next]_passVars => PassInv'
<1> SUFFICES ASSUME PassInv, [Billing!Next]_passVars PROVE PassInv'
  OBVIOUS
<1>1. CASE Billing!LoseAck
  BY <1>1 DEF Billing!LoseAck, Billing!stripeVars, PassInv, PassTyped
<1>2. CASE UNCHANGED passVars
  BY <1>2 DEF passVars, PassInv, PassTyped
<1> QED
  BY <1>1, <1>2, StripeKeepsPass, CallsKeepPass, RequestsKeepPass DEF Billing!Next

-----------------------------------------------------------------------------
(* Play now.                                                                *)

States == {"idle", "prior", "session", "view", "character", "party", "scene", "answer"}
Rows == [listed : BOOLEAN, preset : Presets, hero : Presets \cup {NoPreset}, heroes : Nat]
RequestTypes ==
    [at : States, preset : Presets \cup {NoPreset}, campaign : Nat, done : BOOLEAN,
     earlier : Presets \cup {NoPreset}]
ClaimTypes ==
    [status : {"none", "open", "claimed", "done"}, campaign : Nat, preset : Presets \cup {NoPreset},
     aged : BOOLEAN]

Kinds == {"slow", "unread", "refused", "failed", "deleted", "restarted"}
MishapTypes == [left : 0..MaxMishaps, seen : SUBSET Kinds]

IntentTyped ==
    /\ campaign \in Seq(Rows)
    /\ claim \in ClaimTypes /\ claim.campaign \in 0..Len(campaign)
    /\ request \in [Requests -> RequestTypes]
    /\ mishaps \in MishapTypes
    /\ causes \in Nat

\* A request works on a campaign that was made, under the preset it was made
\* for, or was told which one that was.
RequestFits(q, cs, cl) ==
    /\ q.campaign \in 0..Len(cs)
    /\ q.at # "idle" => q.campaign \in 1..Len(cs)
    /\ q.at \in {"session", "view", "character"} => q.preset = cs[q.campaign].preset
    /\ q.at = "prior" => q.earlier = cs[q.campaign].preset /\ q.preset \in Presets
    /\ q.at \in {"prior", "character", "party", "scene", "answer"} => cl.campaign # 0
    /\ q.done => q.at = "prior"
    /\ q.done \/ q.at = "answer" => cl.status = "done"

ClaimFits ==
    /\ claim.campaign # 0 => claim.preset = campaign[claim.campaign].preset
    /\ claim.status = "done" => claim.campaign # 0
    /\ campaign = <<>> => claim.status = "none" /\ Quickstart!Live = {}

\* A request that may yet make a character, of the campaign it works on.
Counts(q) == q.at \in {"session", "view", "character"} \/ (q.at = "prior" /\ ~q.done)
Users(c, rq) == {r \in Requests : Counts(rq[r]) /\ rq[r].campaign = c}

\* The characters of each campaign, made or to come; those beyond the first.
Loads(cs, rq) == [c \in DOMAIN cs |-> cs[c].heroes + Cardinality(Users(c, rq))]
SurplusOf(loads) == UNION {{c} \X (2..loads[c]) : c \in DOMAIN loads}
Surplus == SurplusOf(Loads(campaign, request))

\* The one attempt that needs no cause: the intent is done or being worked on.
Free == IF claim.status = "done" \/ (claim.status = "claimed" /\ Quickstart!Live # {}) THEN 1 ELSE 0

\* Every campaign, and every character beyond the first of its campaign, made
\* or to come, has a cause or is the free attempt's.
Excused ==
    /\ IsFiniteSet(Surplus)
    /\ campaign # <<>> => Len(campaign) + Cardinality(Surplus) <= causes + Free

\* Nothing was deleted, refused, unread or slow: one request at a time works on
\* the claim.
Quiet == mishaps.seen \cap {"deleted", "refused", "unread", "slow"} = {}

Undisturbed ==
    Quiet =>
       /\ \A c \in DOMAIN campaign : campaign[c].listed
       /\ claim.status \in {"none", "open"} => Quickstart!Live = {}
       /\ claim.status = "claimed" /\ claim.aged => Quickstart!Live = {}
       /\ claim.status = "claimed" =>
             /\ \A r, s \in Quickstart!Live : r = s
             /\ \A r \in Quickstart!Live :
                   /\ request[r].at \notin {"session", "view"} => request[r].campaign = claim.campaign
                   /\ request[r].at \in {"party", "scene"} => campaign[claim.campaign].hero # NoPreset
       /\ claim.status = "done" =>
             /\ campaign[claim.campaign].hero # NoPreset
             /\ \A r \in Quickstart!Live : request[r].done \/ request[r].at = "answer"

IntentInv ==
    /\ IntentTyped
    /\ \A r \in Requests : RequestFits(request[r], campaign, claim)
    /\ \A c \in DOMAIN campaign : campaign[c].hero \in {NoPreset, campaign[c].preset}
    /\ ClaimFits
    /\ Excused
    /\ Undisturbed

IntentHolds == part = "Quickstart" => IntentInv

LEMMA QuickstartConstants ==
    /\ IsFiniteSet(Requests) /\ MaxMishaps \in Nat /\ NoPreset \notin Presets
    /\ Quickstart!NoRequest = [at |-> "idle", preset |-> NoPreset, campaign |-> 0, done |-> FALSE,
                               earlier |-> NoPreset]
    /\ Quickstart!NoRequest \in RequestTypes
    /\ ~Counts(Quickstart!NoRequest)
    /\ \A cs \in Seq(Rows) : \A cl : RequestFits(Quickstart!NoRequest, cs, cl)
<1>1. /\ IsFiniteSet(Requests) /\ MaxMishaps \in Nat /\ NoPreset \notin Presets
      /\ Quickstart!NoRequest = [at |-> "idle", preset |-> NoPreset, campaign |-> 0, done |-> FALSE,
                                 earlier |-> NoPreset]
  BY AccountsAssumption DEF Quickstart!NoRequest
<1>2. ASSUME NEW cs \in Seq(Rows), NEW cl PROVE RequestFits(Quickstart!NoRequest, cs, cl)
  <2>1. Len(cs) \in Nat
    BY LenProperties
  <2> QED
    BY <1>1, <2>1 DEF RequestFits
<1> QED
  BY <1>1, <1>2 DEF RequestTypes, States, Counts

\* One request of many changes: who works on a campaign.
LEMMA UsersChange ==
    ASSUME NEW rq \in [Requests -> RequestTypes], NEW r \in Requests, NEW q \in RequestTypes, NEW c
    PROVE  LET after == Users(c, [rq EXCEPT ![r] = q])
               before == Users(c, rq)
           IN  /\ IsFiniteSet(before) /\ Cardinality(before) \in Nat
               /\ IsFiniteSet(after) /\ Cardinality(after) \in Nat
               /\ Cardinality(after) <= Cardinality(before) + 1
               /\ ~(Counts(q) /\ q.campaign = c) \/ r \in before => Cardinality(after) <= Cardinality(before)
               /\ ~(Counts(q) /\ q.campaign = c) /\ r \in before => Cardinality(after) + 1 = Cardinality(before)
<1> DEFINE after == Users(c, [rq EXCEPT ![r] = q])
           before == Users(c, rq)
<1>1. IsFiniteSet(before) /\ IsFiniteSet(after)
  BY QuickstartConstants, FS_Subset DEF Users
<1>2. after = IF Counts(q) /\ q.campaign = c THEN before \cup {r} ELSE before \ {r}
  BY DEF Users
<1> HIDE DEF after, before
<1>3. Cardinality(before) \in Nat /\ Cardinality(after) \in Nat
  BY <1>1, FS_CardinalityType
<1>4. CASE Counts(q) /\ q.campaign = c
  <2>1. after = before \cup {r}
    BY <1>2, <1>4
  <2>2. Cardinality(after) = IF r \in before THEN Cardinality(before) ELSE Cardinality(before) + 1
    BY <1>1, <2>1, FS_AddElement
  <2> QED
    BY <1>1, <1>3, <1>4, <2>2 DEF before, after
<1>5. CASE ~(Counts(q) /\ q.campaign = c)
  <2>1. after = before \ {r}
    BY <1>2, <1>5
  <2>2. Cardinality(after) = IF r \in before THEN Cardinality(before) - 1 ELSE Cardinality(before)
    BY <1>1, <2>1, FS_RemoveElement
  <2> QED
    BY <1>1, <1>3, <1>5, <2>2 DEF before, after
<1> QED
  BY <1>4, <1>5

\* Loads that do not grow leave no more characters to excuse.
LEMMA SurplusShrinks ==
    ASSUME NEW L, NEW M, \A c \in DOMAIN M : M[c] \in Nat, \A c \in DOMAIN L : L[c] \in Nat,
           \A c \in DOMAIN M : M[c] <= 1 \/ (c \in DOMAIN L /\ M[c] <= L[c])
    PROVE  SurplusOf(M) \subseteq SurplusOf(L)
<1> SUFFICES ASSUME NEW c \in DOMAIN M, NEW n \in 2..M[c] PROVE c \in DOMAIN L /\ n \in 2..L[c]
  BY DEF SurplusOf
<1> QED
  OBVIOUS

\* One more character to come of one campaign is one more to excuse.
LEMMA SurplusGrowsByOne ==
    ASSUME NEW L, NEW M, \A c \in DOMAIN M : M[c] \in Nat, \A c \in DOMAIN L : L[c] \in Nat,
           DOMAIN M = DOMAIN L, NEW d \in DOMAIN L,
           \A c \in DOMAIN M : M[c] <= IF c = d THEN L[c] + 1 ELSE L[c]
    PROVE  SurplusOf(M) \subseteq SurplusOf(L) \cup {<<d, L[d] + 1>>}
<1> SUFFICES ASSUME NEW c \in DOMAIN M, NEW n \in 2..M[c]
             PROVE  (c \in DOMAIN L /\ n \in 2..L[c]) \/ (c = d /\ n = L[d] + 1)
  BY DEF SurplusOf
<1> QED
  OBVIOUS

\* The loads are numbers, and what is counted is finite.
LEMMA LoadsTyped ==
    ASSUME NEW cs \in Seq(Rows), NEW rq \in [Requests -> RequestTypes]
    PROVE  /\ DOMAIN Loads(cs, rq) = 1..Len(cs) /\ DOMAIN cs = 1..Len(cs) /\ Len(cs) \in Nat
           /\ \A c \in 1..Len(cs) :
                 /\ Cardinality(Users(c, rq)) \in Nat /\ cs[c].heroes \in Nat
                 /\ Loads(cs, rq)[c] = cs[c].heroes + Cardinality(Users(c, rq))
                 /\ Loads(cs, rq)[c] \in Nat
<1>1. DOMAIN cs = 1..Len(cs) /\ Len(cs) \in Nat
  BY LenProperties
<1>2. ASSUME NEW c \in 1..Len(cs) PROVE Cardinality(Users(c, rq)) \in Nat /\ cs[c].heroes \in Nat
  <2>1. IsFiniteSet(Users(c, rq))
    BY QuickstartConstants, FS_Subset DEF Users
  <2>2. cs[c] \in Rows
    BY ElementOfSeq
  <2> QED
    BY <2>1, <2>2, FS_CardinalityType DEF Rows
<1> QED
  BY <1>1, <1>2 DEF Loads

LEMMA ExcusedFacts ==
    ASSUME IntentTyped, Excused
    PROVE  /\ IsFiniteSet(Surplus) /\ Cardinality(Surplus) \in Nat /\ Len(campaign) \in Nat
           /\ Free \in {0, 1} /\ causes \in Nat
           /\ campaign # <<>> => Len(campaign) + Cardinality(Surplus) <= causes + Free
  BY FS_CardinalityType, LenProperties DEF Excused, IntentTyped, Free

\* The loads before a step, and after it.
LEMMA LoadsAround ==
    ASSUME IntentTyped, campaign' \in Seq(Rows), request' \in [Requests -> RequestTypes],
           NEW L, NEW M, L = Loads(campaign, request), M = Loads(campaign', request')
    PROVE  /\ DOMAIN L = 1..Len(campaign) /\ DOMAIN M = 1..Len(campaign')
           /\ Len(campaign) \in Nat /\ Len(campaign') \in Nat
           /\ \A c \in DOMAIN L : /\ L[c] = campaign[c].heroes + Cardinality(Users(c, request)) /\ L[c] \in Nat
                                  /\ Cardinality(Users(c, request)) \in Nat /\ campaign[c].heroes \in Nat
           /\ \A c \in DOMAIN M : /\ M[c] = campaign'[c].heroes + Cardinality(Users(c, request')) /\ M[c] \in Nat
                                  /\ Cardinality(Users(c, request')) \in Nat /\ campaign'[c].heroes \in Nat
           /\ Surplus = SurplusOf(L) /\ Surplus' = SurplusOf(M)
<1>1. campaign \in Seq(Rows) /\ request \in [Requests -> RequestTypes]
  BY DEF IntentTyped
<1>2. /\ DOMAIN L = 1..Len(campaign) /\ Len(campaign) \in Nat
      /\ \A c \in DOMAIN L : /\ L[c] = campaign[c].heroes + Cardinality(Users(c, request)) /\ L[c] \in Nat
                             /\ Cardinality(Users(c, request)) \in Nat /\ campaign[c].heroes \in Nat
  BY <1>1, LoadsTyped
<1>3. /\ DOMAIN M = 1..Len(campaign') /\ Len(campaign') \in Nat
      /\ \A c \in DOMAIN M : /\ M[c] = campaign'[c].heroes + Cardinality(Users(c, request')) /\ M[c] \in Nat
                             /\ Cardinality(Users(c, request')) \in Nat /\ campaign'[c].heroes \in Nat
  BY LoadsTyped
<1> QED
  BY <1>2, <1>3 DEF Surplus

\* A step after which no more characters are to come.
LEMMA ExcusedKept ==
    ASSUME IntentTyped, Excused, campaign' \in Seq(Rows), request' \in [Requests -> RequestTypes],
           Len(campaign') = Len(campaign), causes' \in Nat, causes + Free <= causes' + Free',
           \A c \in 1..Len(campaign) :
              campaign'[c].heroes + Cardinality(Users(c, request'))
                <= campaign[c].heroes + Cardinality(Users(c, request))
    PROVE  Excused'
<1> DEFINE L == Loads(campaign, request)
           M == Loads(campaign', request')
<1>0. L = Loads(campaign, request) /\ M = Loads(campaign', request')
  OBVIOUS
<1> HIDE DEF L, M
<1>5. /\ DOMAIN L = 1..Len(campaign) /\ DOMAIN M = 1..Len(campaign') /\ Len(campaign) \in Nat
      /\ \A c \in DOMAIN L : /\ L[c] = campaign[c].heroes + Cardinality(Users(c, request)) /\ L[c] \in Nat
                             /\ Cardinality(Users(c, request)) \in Nat /\ campaign[c].heroes \in Nat
      /\ \A c \in DOMAIN M : /\ M[c] = campaign'[c].heroes + Cardinality(Users(c, request')) /\ M[c] \in Nat
                             /\ Cardinality(Users(c, request')) \in Nat /\ campaign'[c].heroes \in Nat
      /\ Surplus = SurplusOf(L) /\ Surplus' = SurplusOf(M)
  BY <1>0, LoadsAround
<1>1. Surplus' \subseteq Surplus
  <2>1. \A c \in DOMAIN M : M[c] \in Nat /\ c \in DOMAIN L /\ M[c] <= L[c]
    BY <1>5
  <2> QED
    BY <1>5, <2>1, SurplusShrinks
<1>2. IsFiniteSet(Surplus') /\ Cardinality(Surplus') \in Nat /\ Cardinality(Surplus') <= Cardinality(Surplus)
  BY <1>1, ExcusedFacts, FS_Subset, FS_CardinalityType
<1>3. campaign' # <<>> => campaign # <<>>
  BY EmptySeq DEF IntentTyped
<1>4. Free' \in {0, 1}
  BY DEF Free
<1> QED
  BY <1>2, <1>3, <1>4, ExcusedFacts DEF Excused

\* A step after which one more is to come, and excused.
LEMMA ExcusedAgain ==
    ASSUME IntentTyped, Excused, UNCHANGED campaign, request' \in [Requests -> RequestTypes],
           causes' \in Nat, causes + Free + 1 <= causes' + Free', NEW d \in 1..Len(campaign),
           \A c \in 1..Len(campaign) :
              Cardinality(Users(c, request'))
                <= IF c = d THEN Cardinality(Users(c, request)) + 1 ELSE Cardinality(Users(c, request))
    PROVE  Excused'
<1> DEFINE L == Loads(campaign, request)
           M == Loads(campaign, request')
<1>0. L = Loads(campaign, request) /\ M = Loads(campaign', request') /\ campaign' \in Seq(Rows)
  BY DEF IntentTyped
<1> HIDE DEF L, M
<1>1. /\ DOMAIN L = 1..Len(campaign) /\ DOMAIN M = 1..Len(campaign') /\ Len(campaign) \in Nat
      /\ \A c \in DOMAIN L : /\ L[c] = campaign[c].heroes + Cardinality(Users(c, request)) /\ L[c] \in Nat
                             /\ Cardinality(Users(c, request)) \in Nat /\ campaign[c].heroes \in Nat
      /\ \A c \in DOMAIN M : /\ M[c] = campaign'[c].heroes + Cardinality(Users(c, request')) /\ M[c] \in Nat
                             /\ Cardinality(Users(c, request')) \in Nat /\ campaign'[c].heroes \in Nat
      /\ Surplus = SurplusOf(L) /\ Surplus' = SurplusOf(M)
  BY <1>0, LoadsAround
<1>2. /\ \A c \in DOMAIN M : M[c] \in Nat
      /\ \A c \in DOMAIN L : L[c] \in Nat
      /\ DOMAIN M = DOMAIN L /\ d \in DOMAIN L
      /\ \A c \in DOMAIN M : M[c] <= IF c = d THEN L[c] + 1 ELSE L[c]
  <2>1. /\ \A c \in DOMAIN M : M[c] \in Nat
        /\ \A c \in DOMAIN L : L[c] \in Nat
        /\ DOMAIN M = DOMAIN L /\ d \in DOMAIN L
    BY <1>1
  <2>2. ASSUME NEW c \in DOMAIN M PROVE M[c] <= IF c = d THEN L[c] + 1 ELSE L[c]
    <3>1. /\ c \in 1..Len(campaign) /\ campaign'[c].heroes = campaign[c].heroes
          /\ c \in DOMAIN L /\ DOMAIN L = 1..Len(campaign)
      BY <1>1, <2>1
    <3> DEFINE u == Cardinality(Users(c, request))
               u2 == Cardinality(Users(c, request'))
               h == campaign[c].heroes
    <3>2. M[c] = h + u2 /\ L[c] = h + u /\ u \in Nat /\ u2 \in Nat /\ h \in Nat
      BY <1>1, <3>1
    <3>3. u2 <= IF c = d THEN u + 1 ELSE u
      BY <3>1
    <3> HIDE DEF u, u2, h
    <3> QED
      BY <3>2, <3>3
  <2> QED
    BY <2>1, <2>2
<1>3. Surplus' \subseteq Surplus \cup {<<d, L[d] + 1>>}
  BY <1>1, <1>2, SurplusGrowsByOne
<1>4. /\ IsFiniteSet(Surplus \cup {<<d, L[d] + 1>>})
      /\ Cardinality(Surplus \cup {<<d, L[d] + 1>>}) \in Nat
      /\ Cardinality(Surplus \cup {<<d, L[d] + 1>>}) <= Cardinality(Surplus) + 1
  <2> DEFINE x == <<d, L[d] + 1>>
  <2> HIDE DEF x
  <2>1. /\ IsFiniteSet(Surplus \cup {x})
        /\ Cardinality(Surplus \cup {x}) = IF x \in Surplus THEN Cardinality(Surplus) ELSE Cardinality(Surplus) + 1
    BY ExcusedFacts, FS_AddElement
  <2> QED
    BY <2>1, ExcusedFacts DEF x
<1>5. /\ IsFiniteSet(Surplus') /\ Cardinality(Surplus') \in Nat
      /\ Cardinality(Surplus') <= Cardinality(Surplus) + 1
  BY <1>3, <1>4, ExcusedFacts, FS_Subset, FS_CardinalityType
<1>6. Free' \in {0, 1}
  BY DEF Free
<1> QED
  BY <1>5, <1>6, ExcusedFacts DEF Excused

\* A campaign is made, with one character to come.
LEMMA ExcusedMore ==
    ASSUME IntentTyped, Excused, NEW new \in Rows, new.heroes = 0, campaign' = Append(campaign, new),
           request' \in [Requests -> RequestTypes], causes' \in Nat,
           IF campaign = <<>> THEN 1 <= causes' + Free' ELSE causes + Free + 1 <= causes' + Free',
           \A c \in 1..Len(campaign) : Cardinality(Users(c, request')) <= Cardinality(Users(c, request)),
           Cardinality(Users(Len(campaign) + 1, request')) <= 1
    PROVE  Excused'
<1> DEFINE L == Loads(campaign, request)
           M == Loads(campaign', request')
<1>0. L = Loads(campaign, request) /\ M = Loads(campaign', request')
  OBVIOUS
<1> HIDE DEF L, M
<1>2. /\ campaign' \in Seq(Rows) /\ campaign' # <<>> /\ Len(campaign') = Len(campaign) + 1
      /\ \A c \in 1..Len(campaign) : campaign'[c] = campaign[c]
      /\ campaign'[Len(campaign) + 1] = new
  BY AppendProperties DEF IntentTyped
<1>1. Surplus' = SurplusOf(M) /\ Surplus = SurplusOf(L)
  BY <1>0, <1>2, LoadsAround
<1>3. /\ \A c \in DOMAIN M : M[c] \in Nat
      /\ \A c \in DOMAIN L : L[c] \in Nat
      /\ DOMAIN L = 1..Len(campaign) /\ DOMAIN M = 1..(Len(campaign) + 1) /\ Len(campaign) \in Nat
      /\ \A c \in DOMAIN M : M[c] = campaign'[c].heroes + Cardinality(Users(c, request'))
      /\ \A c \in DOMAIN L : L[c] = campaign[c].heroes + Cardinality(Users(c, request))
      /\ \A c \in DOMAIN M : Cardinality(Users(c, request')) \in Nat
      /\ \A c \in DOMAIN L : Cardinality(Users(c, request)) \in Nat /\ campaign[c].heroes \in Nat
  BY <1>0, <1>2, LoadsAround
<1>4. \A c \in DOMAIN M : M[c] <= 1 \/ (c \in DOMAIN L /\ M[c] <= L[c])
  <2> SUFFICES ASSUME NEW c \in DOMAIN M PROVE M[c] <= 1 \/ (c \in DOMAIN L /\ M[c] <= L[c])
    OBVIOUS
  <2>1. CASE c = Len(campaign) + 1
    <3>1. M[c] = 0 + Cardinality(Users(c, request')) /\ Cardinality(Users(c, request')) \in Nat
      BY <1>2, <1>3, <2>1
    <3>2. Cardinality(Users(c, request')) <= 1
      BY <2>1
    <3> QED
      BY <3>1, <3>2
  <2>2. CASE c \in 1..Len(campaign)
    <3> DEFINE u == Cardinality(Users(c, request))
               u2 == Cardinality(Users(c, request'))
               h == campaign[c].heroes
    <3>1. c \in DOMAIN L /\ campaign'[c] = campaign[c]
      BY <1>2, <1>3, <2>2
    <3>2. M[c] = h + u2 /\ L[c] = h + u /\ u \in Nat /\ u2 \in Nat /\ h \in Nat
      BY <1>3, <3>1
    <3>3. u2 <= u
      BY <2>2
    <3> HIDE DEF u, u2, h
    <3>4. M[c] <= L[c]
      BY <3>2, <3>3
    <3> QED
      BY <3>1, <3>4
  <2> QED
    BY <1>3, <2>1, <2>2
<1>5. Surplus' \subseteq Surplus
  BY <1>1, <1>3, <1>4, SurplusShrinks
<1>6. IsFiniteSet(Surplus') /\ Cardinality(Surplus') \in Nat /\ Cardinality(Surplus') <= Cardinality(Surplus)
  BY <1>5, ExcusedFacts, FS_Subset, FS_CardinalityType
<1>7. Free' \in {0, 1}
  BY DEF Free
<1>8. CASE campaign = <<>>
  <2>1. Surplus = {}
    <3>1. Len(campaign) = 0
      BY <1>8, EmptySeq
    <3>2. DOMAIN L = {}
      BY <1>3, <3>1
    <3> QED
      BY <1>1, <3>2 DEF SurplusOf
  <2>2. Cardinality(Surplus') <= 0 /\ Len(campaign) = 0
    <3>1. Len(campaign) = 0
      BY <1>8, EmptySeq
    <3> QED
      BY <1>6, <2>1, <3>1, FS_EmptySet
  <2>3. 1 <= causes' + Free'
    BY <1>8
  <2>4. Len(campaign') = 1 /\ Cardinality(Surplus') = 0
    BY <1>2, <1>6, <2>2
  <2>5. Len(campaign') + Cardinality(Surplus') <= causes' + Free'
    <3>1. Len(campaign') + Cardinality(Surplus') = 1
      BY <2>4
    <3> QED
      BY <2>3, <3>1
  <2> QED
    BY <1>6, <2>5 DEF Excused
<1>9. CASE campaign # <<>>
  BY <1>2, <1>6, <1>7, <1>9, ExcusedFacts DEF Excused
<1> QED
  BY <1>8, <1>9

LEMMA IntentFacts ==
    ASSUME IntentInv
    PROVE  /\ campaign \in Seq(Rows) /\ Len(campaign) \in Nat /\ DOMAIN campaign = 1..Len(campaign)
           /\ \A c \in 1..Len(campaign) : campaign[c] \in Rows
           /\ claim \in ClaimTypes /\ claim.campaign \in 0..Len(campaign)
           /\ request \in [Requests -> RequestTypes] /\ mishaps \in MishapTypes /\ causes \in Nat
           /\ \A r \in Requests : request[r] \in RequestTypes /\ RequestFits(request[r], campaign, claim)
           /\ \A c \in 1..Len(campaign) : campaign[c].hero \in {NoPreset, campaign[c].preset}
           /\ ClaimFits /\ Excused /\ Undisturbed /\ IntentTyped
  BY LenProperties, ElementOfSeq DEF IntentInv, IntentTyped

LEMMA MishapCounted ==
    ASSUME IntentInv, NEW kind \in Kinds, Quickstart!Mishap(kind)
    PROVE  mishaps' \in MishapTypes /\ mishaps'.seen = mishaps.seen \cup {kind}
<1>1. mishaps.left \in Nat /\ mishaps.left - 1 \in 0..MaxMishaps
  BY IntentFacts, QuickstartConstants DEF MishapTypes, Quickstart!Mishap
<1> QED
  BY <1>1, IntentFacts DEF MishapTypes, Quickstart!Mishap

\* What fitted a request fits it when campaigns keep their presets, the claim
\* does not lose its campaign, and what is done stays done.
LEMMA StillFits ==
    ASSUME NEW q \in RequestTypes, NEW cs \in Seq(Rows), NEW cs2 \in Seq(Rows), NEW cl, NEW cl2,
           RequestFits(q, cs, cl), Len(cs) <= Len(cs2), \A c \in 1..Len(cs) : cs2[c].preset = cs[c].preset,
           cl.campaign # 0 => cl2.campaign # 0, cl.status = "done" => cl2.status = "done"
    PROVE  RequestFits(q, cs2, cl2)
<1>1. Len(cs) \in Nat /\ Len(cs2) \in Nat
  BY LenProperties
<1>2. 0..Len(cs) \subseteq 0..Len(cs2) /\ 1..Len(cs) \subseteq 1..Len(cs2)
  BY <1>1
<1>3. q.at = "idle" \/ q.at # "idle"
  OBVIOUS
<1>4. q.at \in {"session", "view", "character", "prior"} => q.at # "idle"
  OBVIOUS
<1> QED
  BY <1>2, <1>4 DEF RequestFits

\* What a step of request r has to keep.
LEMMA IntentStep ==
    ASSUME IntentInv, NEW r \in Requests, NEW q \in RequestTypes, request' = [request EXCEPT ![r] = q],
           campaign' \in Seq(Rows), Len(campaign) <= Len(campaign'),
           \A c \in 1..Len(campaign) : campaign'[c].preset = campaign[c].preset,
           \A c \in 1..Len(campaign') : campaign'[c].hero \in {NoPreset, campaign'[c].preset},
           claim' \in ClaimTypes, claim'.campaign \in 0..Len(campaign'),
           claim.campaign # 0 => claim'.campaign # 0, claim.status = "done" => claim'.status = "done",
           mishaps' \in MishapTypes, causes' \in Nat, RequestFits(q, campaign', claim'),
           ClaimFits', Excused', Undisturbed'
    PROVE  IntentInv'
<1>1. request' \in [Requests -> RequestTypes]
  BY IntentFacts
<1>2. DOMAIN campaign' = 1..Len(campaign')
  BY LenProperties
<1>3. ASSUME NEW s \in Requests PROVE RequestFits(request'[s], campaign', claim')
  <2>1. s # r => request'[s] = request[s]
    BY IntentFacts
  <2>2. request'[r] = q
    BY IntentFacts
  <2>3. RequestFits(request[s], campaign', claim')
    BY IntentFacts, StillFits
  <2> QED
    BY <2>1, <2>2, <2>3
<1>4. IntentTyped'
  BY <1>1 DEF IntentTyped
<1> QED
  BY <1>2, <1>3, <1>4 DEF IntentInv

LEMMA LiveChange ==
    ASSUME request \in [Requests -> RequestTypes], NEW r \in Requests, NEW q \in RequestTypes,
           request' = [request EXCEPT ![r] = q]
    PROVE  /\ Quickstart!Live' = IF q.at = "idle" THEN Quickstart!Live \ {r} ELSE Quickstart!Live \cup {r}
           /\ request' \in [Requests -> RequestTypes]
           /\ request'[r] = q /\ \A s \in Requests \ {r} : request'[s] = request[s]
  BY DEF Quickstart!Live

LEMMA ExcusedByRequest ==
    ASSUME IntentInv, NEW r \in Requests, NEW q \in RequestTypes, request' = [request EXCEPT ![r] = q],
           ~Counts(q) \/ (Counts(request[r]) /\ request[r].campaign = q.campaign),
           campaign' \in Seq(Rows), Len(campaign') = Len(campaign),
           \A c \in 1..Len(campaign) : campaign'[c].heroes = campaign[c].heroes,
           causes' \in Nat, causes + Free <= causes' + Free'
    PROVE  Excused'
<1>1. request' \in [Requests -> RequestTypes]
  BY IntentFacts
<1>2. ASSUME NEW c \in 1..Len(campaign)
      PROVE  campaign'[c].heroes + Cardinality(Users(c, request'))
               <= campaign[c].heroes + Cardinality(Users(c, request))
  <2>1. /\ Cardinality(Users(c, request')) \in Nat /\ Cardinality(Users(c, request)) \in Nat
        /\ Cardinality(Users(c, request')) <= Cardinality(Users(c, request))
    <3>1. ~(Counts(q) /\ q.campaign = c) \/ r \in Users(c, request)
      BY DEF Users
    <3> QED
      BY <3>1, IntentFacts, UsersChange
  <2>2. campaign[c].heroes \in Nat
    BY IntentFacts DEF Rows
  <2> QED
    BY <2>1, <2>2
<1> QED
  BY <1>1, <1>2, IntentFacts, ExcusedKept

-----------------------------------------------------------------------------
\* While nothing was disturbed: a request that neither repeats a finished intent
\* nor answers is the only one.
LEMMA Alone ==
    ASSUME IntentInv, Quiet, NEW r \in Requests, request[r].at # "idle", ~request[r].done,
           request[r].at # "answer"
    PROVE  /\ claim.status = "claimed" /\ ~claim.aged
           /\ \A s \in Requests : s # r => request[s].at = "idle"
           /\ \A c \in 1..Len(campaign) : campaign[c].listed
           /\ request[r].at \notin {"session", "view"} => request[r].campaign = claim.campaign
           /\ request[r].at \in {"party", "scene"} => campaign[claim.campaign].hero # NoPreset
<1>1. r \in Quickstart!Live
  BY DEF Quickstart!Live
<1>2. claim.status \in {"none", "open", "claimed", "done"} /\ claim.aged \in BOOLEAN
  BY IntentFacts DEF ClaimTypes
<1>3. claim.status = "claimed"
  BY <1>1, <1>2, IntentFacts DEF Undisturbed
<1> QED
  BY <1>1, <1>2, <1>3, IntentFacts DEF Undisturbed, Quickstart!Live

\* It is still the only one after its step.
LEMMA StillAlone ==
    ASSUME NEW r \in Requests, \A s \in Requests : s # r => request'[s].at = "idle",
           DOMAIN campaign' = 1..Len(campaign'), \A c \in 1..Len(campaign') : campaign'[c].listed,
           claim'.status = "claimed", ~claim'.aged,
           request'[r].at \notin {"session", "view", "idle"} => request'[r].campaign = claim'.campaign,
           request'[r].at \in {"party", "scene"} => campaign'[claim'.campaign].hero # NoPreset
    PROVE  Undisturbed'
<1>1. \A s \in Quickstart!Live' : s = r /\ request'[s].at # "idle"
  BY DEF Quickstart!Live
<1> QED
  BY <1>1 DEF Undisturbed

\* No request is left.
LEMMA NoneLeft ==
    ASSUME \A s \in Requests : request'[s].at = "idle",
           DOMAIN campaign' = 1..Len(campaign'), \A c \in 1..Len(campaign') : campaign'[c].listed,
           claim'.status = "done" => campaign'[claim'.campaign].hero # NoPreset
    PROVE  Undisturbed'
<1>1. Quickstart!Live' = {}
  BY DEF Quickstart!Live
<1> QED
  BY <1>1 DEF Undisturbed

\* The intent is done.
LEMMA StillDone ==
    ASSUME IntentInv, Quiet, NEW r \in Requests, claim'.status = "done",
           DOMAIN campaign' = 1..Len(campaign'), \A c \in 1..Len(campaign') : campaign'[c].listed,
           campaign'[claim'.campaign].hero # NoPreset,
           \A s \in Requests : s # r => request'[s] = request[s],
           request'[r].at \in {"idle", "answer"} \/ request'[r].done,
           claim.status = "done" \/ \A s \in Requests : s # r => request[s].at = "idle"
    PROVE  Undisturbed'
<1>1. ASSUME NEW s \in Quickstart!Live' PROVE request'[s].done \/ request'[s].at = "answer"
  <2>1. s \in Requests /\ request'[s].at # "idle"
    BY DEF Quickstart!Live
  <2>2. CASE s = r
    BY <2>1, <2>2
  <2>3. CASE s # r
    <3>1. s \in Quickstart!Live /\ claim.status = "done" /\ request'[s] = request[s]
      BY <2>1, <2>3 DEF Quickstart!Live
    <3> QED
      BY <3>1, IntentFacts DEF Undisturbed
  <2> QED
    BY <2>2, <2>3
<1> QED
  BY <1>1 DEF Undisturbed

-----------------------------------------------------------------------------
(* Each step of a request.                                                  *)

\* A request in progress works on a campaign that was made.
LEMMA LiveFacts ==
    ASSUME IntentInv, NEW r \in Requests, request[r].at # "idle"
    PROVE  /\ request[r].campaign \in 1..Len(campaign) /\ campaign # <<>> /\ r \in Quickstart!Live
           /\ request[r] \in RequestTypes /\ RequestFits(request[r], campaign, claim)
           /\ campaign[request[r].campaign] \in Rows
<1>1. request[r].campaign \in 1..Len(campaign)
  BY IntentFacts DEF RequestFits
<1>2. campaign # <<>>
  BY <1>1, EmptySeq
<1> QED
  BY <1>1, <1>2, IntentFacts DEF Quickstart!Live

\* The campaign that a request made a character of: the character comes, or was
\* to come anyway.
LEMMA GivenUp ==
    ASSUME IntentInv, NEW r \in Requests, request[r].at # "idle", ~request[r].done,
           NEW given \in ClaimTypes, given.campaign \in 0..Len(campaign), given.status = claim.status,
           claim.campaign # 0 => given.campaign # 0,
           given.campaign # 0 => given.preset = campaign[given.campaign].preset,
           request[r].at = "answer" => given = claim,
           Quickstart!GiveUp(r, given), mishaps' \in MishapTypes, mishaps.seen \subseteq mishaps'.seen,
           campaign' \in Seq(Rows), Len(campaign') = Len(campaign),
           \A c \in 1..Len(campaign) :
              /\ campaign'[c].preset = campaign[c].preset /\ campaign'[c].hero = campaign[c].hero
              /\ campaign'[c].listed = campaign[c].listed
              /\ \/ campaign'[c].heroes = campaign[c].heroes
                 \/ r \in Users(c, request) /\ campaign'[c].heroes = campaign[c].heroes + 1
    PROVE  IntentInv'
<1> DEFINE q == Quickstart!NoRequest
<1>1. /\ request' = [request EXCEPT ![r] = q] /\ causes' = causes + 1 /\ claim' = Quickstart!Released(given)
      /\ q \in RequestTypes /\ ~Counts(q) /\ q.at = "idle" /\ causes' \in Nat
      /\ RequestFits(q, campaign', claim')
  <2>1. /\ request' = [request EXCEPT ![r] = q] /\ causes' = causes + 1
        /\ claim' = Quickstart!Released(given) /\ causes' \in Nat
    BY IntentFacts DEF Quickstart!GiveUp
  <2>2. q \in RequestTypes /\ ~Counts(q) /\ q.at = "idle"
    BY QuickstartConstants
  <2>3. RequestFits(q, campaign', claim')
    BY QuickstartConstants
  <2> QED
    BY <2>1, <2>2, <2>3
<1> HIDE DEF q
<1>2. /\ claim' \in ClaimTypes /\ claim'.campaign = given.campaign /\ claim'.preset = given.preset
      /\ claim'.status = IF claim.status = "claimed" THEN "open" ELSE claim.status
      /\ claim.status = "done" => claim' = given
  BY <1>1 DEF Quickstart!Released, ClaimTypes
<1>3. request' \in [Requests -> RequestTypes] /\ request'[r] = q
      /\ \A s \in Requests : s # r => request'[s] = request[s]
  BY <1>1, IntentFacts
<1>4. Excused'
  <2>1. ASSUME NEW c \in 1..Len(campaign)
        PROVE  campaign'[c].heroes + Cardinality(Users(c, request'))
                 <= campaign[c].heroes + Cardinality(Users(c, request))
    <3>1. /\ Cardinality(Users(c, request')) \in Nat /\ Cardinality(Users(c, request)) \in Nat
          /\ Cardinality(Users(c, request')) <= Cardinality(Users(c, request))
          /\ r \in Users(c, request) => Cardinality(Users(c, request')) + 1 = Cardinality(Users(c, request))
      BY <1>1, IntentFacts, UsersChange
    <3>2. campaign[c].heroes \in Nat
      BY IntentFacts DEF Rows
    <3>3. PICK h, m, n : h = campaign[c].heroes /\ m = Cardinality(Users(c, request'))
                         /\ n = Cardinality(Users(c, request))
      OBVIOUS
    <3>4. h \in Nat /\ m \in Nat /\ n \in Nat /\ m <= n /\ (r \in Users(c, request) => m + 1 = n)
      BY <3>1, <3>2, <3>3
    <3>5. \/ campaign'[c].heroes = h
          \/ r \in Users(c, request) /\ campaign'[c].heroes = h + 1
      BY <3>3
    <3>6. campaign'[c].heroes + m <= h + n
      BY <3>4, <3>5
    <3> QED
      BY <3>3, <3>6
  <2>2. causes + Free <= causes' + Free'
    BY <1>1, IntentFacts DEF Free
  <2> QED
    BY <1>1, <1>3, <2>1, <2>2, IntentFacts, ExcusedKept
<1>5. ClaimFits'
  <2>1. campaign' # <<>>
    BY LiveFacts, EmptySeq
  <2> QED
    BY <1>2, <2>1, IntentFacts DEF ClaimFits
<1>6. ASSUME Quiet' PROVE Undisturbed'
  <2>1. Quiet /\ DOMAIN campaign' = 1..Len(campaign')
    BY <1>6, LenProperties DEF Quiet
  <2>2. \A c \in 1..Len(campaign') : campaign'[c].listed
    BY <2>1, IntentFacts DEF Undisturbed
  <2>3. CASE request[r].at = "answer"
    <3>1. claim.status = "done" /\ claim.campaign # 0 /\ campaign[claim.campaign].hero # NoPreset
      BY <2>1, <2>3, IntentFacts DEF RequestFits, Undisturbed, ClaimFits
    <3>2. claim' = claim /\ campaign'[claim.campaign].hero # NoPreset
      BY <1>2, <2>3, <3>1, IntentFacts
    <3> QED
      BY <1>1, <1>3, <2>1, <2>2, <3>1, <3>2, StillDone
  <2>4. CASE request[r].at # "answer"
    <3>1. claim.status = "claimed" /\ \A s \in Requests : s # r => request[s].at = "idle"
      BY <2>1, <2>4, Alone
    <3>2. \A s \in Requests : request'[s].at = "idle"
      BY <1>1, <1>3, <3>1
    <3> QED
      BY <1>2, <2>1, <2>2, <3>1, <3>2, NoneLeft
  <2> QED
    BY <2>3, <2>4
<1>7. Undisturbed'
  BY <1>6 DEF Undisturbed
<1>8. /\ Len(campaign) <= Len(campaign')
      /\ \A c \in 1..Len(campaign) : campaign'[c].preset = campaign[c].preset
      /\ \A c \in 1..Len(campaign') : campaign'[c].hero \in {NoPreset, campaign'[c].preset}
      /\ claim'.campaign \in 0..Len(campaign')
      /\ claim.campaign # 0 => claim'.campaign # 0
      /\ claim.status = "done" => claim'.status = "done"
  BY <1>2, IntentFacts
<1> QED
  BY <1>1, <1>2, <1>4, <1>5, <1>7, <1>8, IntentStep

\* A step of request r alone.
LEMMA RequestKeepsIntent ==
    ASSUME IntentInv, NEW r \in Requests, NEW q \in RequestTypes, request' = [request EXCEPT ![r] = q],
           UNCHANGED <<claim, campaign, causes>>, mishaps' \in MishapTypes, campaign # <<>>,
           RequestFits(q, campaign, claim), q.at # "idle" \/ claim.status = "done",
           ~Counts(q) \/ (Counts(request[r]) /\ request[r].campaign = q.campaign),
           Quiet' => Undisturbed'
    PROVE  IntentInv'
<1>1. Free <= Free'
  <2>1. Quickstart!Live' = IF q.at = "idle" THEN Quickstart!Live \ {r} ELSE Quickstart!Live \cup {r}
    BY IntentFacts, LiveChange
  <2> QED
    BY <2>1 DEF Free
<1>2. Excused'
  <2>1. causes + Free <= causes' + Free'
    BY <1>1, IntentFacts DEF Free
  <2> QED
    BY <2>1, IntentFacts, ExcusedByRequest
<1>3. ClaimFits'
  BY IntentFacts DEF ClaimFits
<1>4. Undisturbed'
  BY DEF Undisturbed
<1>5. /\ campaign' \in Seq(Rows) /\ Len(campaign) <= Len(campaign')
      /\ \A c \in 1..Len(campaign) : campaign'[c].preset = campaign[c].preset
      /\ \A c \in 1..Len(campaign') : campaign'[c].hero \in {NoPreset, campaign'[c].preset}
      /\ claim' \in ClaimTypes /\ claim'.campaign \in 0..Len(campaign') /\ causes' \in Nat
      /\ RequestFits(q, campaign', claim')
  BY IntentFacts
<1> QED
  BY <1>2, <1>3, <1>4, <1>5, IntentStep

LEMMA ReplayKeepsIntent ==
    ASSUME IntentInv, NEW r \in Requests, NEW preset \in Presets, Quickstart!Replay(r, preset)
    PROVE  IntentInv'
<1> DEFINE q == [at |-> "prior", preset |-> preset, campaign |-> claim.campaign, done |-> TRUE,
                 earlier |-> claim.preset]
<1>1. /\ request[r].at = "idle" /\ claim.status = "done" /\ request' = [request EXCEPT ![r] = q]
      /\ UNCHANGED <<claim, campaign, mishaps, causes>>
  BY DEF Quickstart!Replay
<1>2. /\ claim.campaign \in 1..Len(campaign) /\ claim.preset = campaign[claim.campaign].preset
      /\ claim.preset \in Presets \cup {NoPreset} /\ campaign # <<>>
  BY <1>1, IntentFacts, EmptySeq DEF ClaimFits, ClaimTypes
<1>3. q \in RequestTypes /\ RequestFits(q, campaign, claim) /\ ~Counts(q) /\ q.at # "idle" /\ q.done
  BY <1>1, <1>2, IntentFacts DEF RequestTypes, States, RequestFits, Counts
<1> HIDE DEF q
<1>4. ASSUME Quiet' PROVE Undisturbed'
  <2>1. Quiet
    BY <1>1, <1>4 DEF Quiet
  <2>2. campaign[claim.campaign].hero # NoPreset /\ \A c \in 1..Len(campaign) : campaign[c].listed
    BY <1>1, <2>1, IntentFacts DEF Undisturbed
  <2>3. request'[r] = q /\ \A s \in Requests : s # r => request'[s] = request[s]
    BY <1>1, IntentFacts
  <2> QED
    BY <1>1, <1>3, <2>1, <2>2, <2>3, IntentFacts, StillDone
<1> QED
  BY <1>1, <1>2, <1>3, <1>4, IntentFacts, RequestKeepsIntent

LEMMA PriorFoundKeepsIntent ==
    ASSUME IntentInv, NEW r \in Requests, Quickstart!PriorFound(r)
    PROVE  IntentInv'
<1>1. /\ request[r].at = "prior" /\ campaign[request[r].campaign].listed
      /\ UNCHANGED <<claim, campaign, mishaps, causes>>
      /\ request' = [request EXCEPT ![r] = IF request[r].done THEN Quickstart!NoRequest
                       ELSE [request[r] EXCEPT !.at = "character", !.preset = request[r].earlier, !.earlier = NoPreset]]
  BY DEF Quickstart!PriorFound
<1>2. mishaps' \in MishapTypes /\ campaign # <<>> /\ (Quiet' => Quiet)
  BY <1>1, IntentFacts, LiveFacts DEF Quiet
<1>3. CASE request[r].done
  <2> DEFINE q == Quickstart!NoRequest
  <2>1. request' = [request EXCEPT ![r] = q]
    BY <1>1, <1>3
  <2>2. q \in RequestTypes /\ ~Counts(q) /\ q.at = "idle" /\ RequestFits(q, campaign, claim)
    BY QuickstartConstants, IntentFacts
  <2> HIDE DEF q
  <2>3. claim.status = "done"
    BY <1>3, LiveFacts, <1>1 DEF RequestFits
  <2>4. ASSUME Quiet PROVE Undisturbed'
    <3>1. campaign[claim.campaign].hero # NoPreset /\ \A c \in 1..Len(campaign) : campaign[c].listed
      BY <2>3, <2>4, IntentFacts DEF Undisturbed
    <3>2. request'[r] = q /\ \A s \in Requests : s # r => request'[s] = request[s]
      BY <2>1, IntentFacts
    <3> QED
      BY <1>1, <2>2, <2>3, <2>4, <3>1, <3>2, IntentFacts, StillDone
  <2> QED
    BY <1>1, <1>2, <2>1, <2>2, <2>3, <2>4, RequestKeepsIntent
<1>4. CASE ~request[r].done
  <2> DEFINE q == [request[r] EXCEPT !.at = "character", !.preset = request[r].earlier, !.earlier = NoPreset]
  <2>1. request' = [request EXCEPT ![r] = q]
    BY <1>1, <1>4
  <2>2. request[r] \in RequestTypes /\ request[r].campaign \in 1..Len(campaign)
        /\ request[r].earlier = campaign[request[r].campaign].preset
    BY <1>1, LiveFacts DEF RequestFits
  <2>3. /\ q \in RequestTypes /\ q.at = "character" /\ q.campaign = request[r].campaign /\ ~q.done
        /\ q.preset = campaign[request[r].campaign].preset
    BY <1>4, <2>2 DEF RequestTypes, States
  <2> HIDE DEF q
  <2>4. claim.campaign # 0
    <3>1. request[r].at = "prior" /\ RequestFits(request[r], campaign, claim)
      BY <1>1, IntentFacts
    <3> QED
      BY <1>1, <3>1, IntentFacts DEF RequestFits, ClaimFits
  <2>5. RequestFits(q, campaign, claim)
    BY <2>2, <2>3, <2>4, IntentFacts DEF RequestFits
  <2>6. Counts(request[r])
    BY <1>1, <1>4 DEF Counts
  <2>7. ASSUME Quiet PROVE Undisturbed'
    <3>1. /\ claim.status = "claimed" /\ ~claim.aged
          /\ \A s \in Requests : s # r => request[s].at = "idle"
          /\ \A c \in 1..Len(campaign) : campaign[c].listed
          /\ request[r].campaign = claim.campaign
      BY <1>1, <1>4, <2>7, Alone
    <3>2. request'[r] = q /\ \A s \in Requests : s # r => request'[s] = request[s]
      BY <2>1, IntentFacts
    <3> QED
      BY <1>1, <2>3, <3>1, <3>2, IntentFacts, StillAlone
  <2> QED
    BY <1>1, <1>2, <2>1, <2>3, <2>5, <2>6, <2>7, RequestKeepsIntent
<1> QED
  BY <1>3, <1>4

LEMMA SessionMadeKeepsIntent ==
    ASSUME IntentInv, NEW r \in Requests, Quickstart!SessionMade(r)
    PROVE  IntentInv'
<1>1. request[r].at = "session" /\ UNCHANGED <<campaign, mishaps>>
  BY DEF Quickstart!SessionMade
<1>2. /\ mishaps' \in MishapTypes /\ campaign # <<>> /\ (Quiet' => Quiet)
      /\ request[r] \in RequestTypes /\ RequestFits(request[r], campaign, claim) /\ ~request[r].done
  BY <1>1, IntentFacts, LiveFacts DEF Quiet, RequestFits
<1>3. CASE campaign[request[r].campaign].listed
  <2> DEFINE q == [request[r] EXCEPT !.at = "view"]
  <2>1. request' = [request EXCEPT ![r] = q] /\ UNCHANGED <<claim, causes>>
    BY <1>1, <1>3, IntentFacts DEF Quickstart!SessionMade
  <2>2. /\ q \in RequestTypes /\ q.at = "view" /\ q.campaign = request[r].campaign
        /\ q.done = request[r].done /\ q.preset = request[r].preset
    BY <1>2 DEF RequestTypes, States
  <2> HIDE DEF q
  <2>3. RequestFits(q, campaign, claim) /\ Counts(request[r])
    BY <1>1, <1>2, <2>2 DEF RequestFits, Counts
  <2>4. ASSUME Quiet PROVE Undisturbed'
    <3>1. /\ claim.status = "claimed" /\ ~claim.aged
          /\ \A s \in Requests : s # r => request[s].at = "idle"
          /\ \A c \in 1..Len(campaign) : campaign[c].listed
      BY <1>1, <1>2, <2>4, Alone
    <3>2. request'[r] = q /\ \A s \in Requests : s # r => request'[s] = request[s]
      BY <2>1, IntentFacts
    <3> QED
      BY <1>1, <2>1, <2>2, <3>1, <3>2, IntentFacts, StillAlone
  <2> QED
    BY <1>1, <1>2, <2>1, <2>2, <2>3, <2>4, RequestKeepsIntent
<1>4. CASE ~campaign[request[r].campaign].listed
  <2>1. Quickstart!GiveUp(r, claim)
    BY <1>4 DEF Quickstart!SessionMade
  <2> QED
    BY <1>1, <1>2, <2>1, IntentFacts, GivenUp DEF ClaimFits
<1> QED
  BY <1>3, <1>4

LEMMA CharacterRefusedKeepsIntent ==
    ASSUME IntentInv, NEW r \in Requests, Quickstart!CharacterRefused(r)
    PROVE  IntentInv'
<1> DEFINE q == [request[r] EXCEPT !.at = "party"]
<1>1. request[r].at = "character" /\ UNCHANGED <<claim, campaign, causes>> /\ Quickstart!Mishap("refused")
      /\ request' = [request EXCEPT ![r] = q]
  BY IntentFacts DEF Quickstart!CharacterRefused
<1>2. mishaps' \in MishapTypes /\ ~Quiet' /\ campaign # <<>>
  BY <1>1, MishapCounted, LiveFacts DEF Quiet, Kinds
<1>3. /\ request[r] \in RequestTypes /\ RequestFits(request[r], campaign, claim)
      /\ q \in RequestTypes /\ q.at = "party" /\ q.campaign = request[r].campaign /\ q.done = request[r].done
  BY IntentFacts DEF RequestTypes, States
<1> HIDE DEF q
<1>4. RequestFits(q, campaign, claim) /\ ~Counts(q)
  BY <1>1, <1>3 DEF RequestFits, Counts
<1> QED
  BY <1>1, <1>2, <1>3, <1>4, RequestKeepsIntent

LEMMA PartyJoinedKeepsIntent ==
    ASSUME IntentInv, NEW r \in Requests, Quickstart!PartyJoined(r)
    PROVE  IntentInv'
<1> DEFINE q == [request[r] EXCEPT !.at = "scene"]
<1>1. request[r].at = "party" /\ UNCHANGED <<claim, campaign, mishaps, causes>>
      /\ request' = [request EXCEPT ![r] = q]
  BY IntentFacts DEF Quickstart!PartyJoined
<1>2. mishaps' \in MishapTypes /\ campaign # <<>> /\ (Quiet' => Quiet)
  BY <1>1, LiveFacts, IntentFacts DEF Quiet
<1>3. /\ request[r] \in RequestTypes /\ RequestFits(request[r], campaign, claim)
      /\ q \in RequestTypes /\ q.at = "scene" /\ q.campaign = request[r].campaign /\ q.done = request[r].done
  BY IntentFacts DEF RequestTypes, States
<1> HIDE DEF q
<1>4. RequestFits(q, campaign, claim) /\ ~Counts(q) /\ ~request[r].done
  BY <1>1, <1>3 DEF RequestFits, Counts
<1>5. ASSUME Quiet PROVE Undisturbed'
  <2>1. /\ claim.status = "claimed" /\ ~claim.aged
        /\ \A s \in Requests : s # r => request[s].at = "idle"
        /\ \A c \in 1..Len(campaign) : campaign[c].listed
        /\ request[r].campaign = claim.campaign /\ campaign[claim.campaign].hero # NoPreset
    BY <1>1, <1>4, <1>5, Alone
  <2>2. request'[r] = q /\ \A s \in Requests : s # r => request'[s] = request[s]
    BY <1>1, IntentFacts
  <2> QED
    BY <1>1, <1>3, <2>1, <2>2, IntentFacts, StillAlone
<1> QED
  BY <1>1, <1>2, <1>3, <1>4, <1>5, RequestKeepsIntent

LEMMA AnswerKeepsIntent ==
    ASSUME IntentInv, NEW r \in Requests, Quickstart!Answer(r)
    PROVE  IntentInv'
<1> DEFINE q == Quickstart!NoRequest
<1>1. request[r].at = "answer" /\ UNCHANGED <<claim, campaign, mishaps, causes>>
      /\ request' = [request EXCEPT ![r] = q]
  BY DEF Quickstart!Answer
<1>2. mishaps' \in MishapTypes /\ campaign # <<>> /\ (Quiet' => Quiet)
  BY <1>1, LiveFacts, IntentFacts DEF Quiet
<1>3. q \in RequestTypes /\ ~Counts(q) /\ q.at = "idle" /\ RequestFits(q, campaign, claim)
  BY QuickstartConstants, IntentFacts
<1> HIDE DEF q
<1>4. claim.status = "done"
  BY <1>1, IntentFacts DEF RequestFits
<1>5. ASSUME Quiet PROVE Undisturbed'
  <2>1. campaign[claim.campaign].hero # NoPreset /\ \A c \in 1..Len(campaign) : campaign[c].listed
    BY <1>4, <1>5, IntentFacts DEF Undisturbed
  <2>2. request'[r] = q /\ \A s \in Requests : s # r => request'[s] = request[s]
    BY <1>1, IntentFacts
  <2> QED
    BY <1>1, <1>3, <1>4, <1>5, <2>1, <2>2, IntentFacts, StillDone
<1> QED
  BY <1>1, <1>2, <1>3, <1>4, <1>5, RequestKeepsIntent

\* A campaign is made by request r.
LEMMA Created ==
    ASSUME IntentInv, NEW r \in Requests, NEW preset \in Presets, NEW count \in Nat,
           Quickstart!Create(r, preset, count), claim' \in ClaimTypes,
           claim'.campaign = claim.campaign, claim'.preset = claim.preset,
           claim.status = "done" <=> claim'.status = "done",
           mishaps' \in MishapTypes, Quiet' => Undisturbed',
           IF campaign = <<>> THEN 1 <= causes' + Free' ELSE causes + Free + 1 <= causes' + Free'
    PROVE  IntentInv'
<1> DEFINE bare == Quickstart!NoCampaign
           idle == Quickstart!NoRequest
           new == [bare EXCEPT !.listed = TRUE, !.preset = preset]
           q == [idle EXCEPT !.at = "session", !.preset = preset, !.campaign = Len(campaign')]
<1>2. campaign' = Append(campaign, new) /\ request' = [request EXCEPT ![r] = q] /\ causes' = causes + count
  BY DEF Quickstart!Create
<1>1. new \in Rows /\ new.heroes = 0 /\ new.preset = preset /\ new.hero = NoPreset
  <2>1. /\ bare \in [listed : BOOLEAN, preset : Presets \cup {NoPreset}, hero : Presets \cup {NoPreset}, heroes : Nat]
        /\ bare.heroes = 0 /\ bare.hero = NoPreset
    BY DEF Quickstart!NoCampaign
  <2> HIDE DEF bare
  <2> QED
    BY <2>1 DEF Rows
<1> HIDE DEF new
<1>3. /\ campaign' \in Seq(Rows) /\ campaign' # <<>> /\ Len(campaign') = Len(campaign) + 1
      /\ \A c \in 1..Len(campaign) : campaign'[c] = campaign[c]
      /\ campaign'[Len(campaign) + 1] = new
  BY <1>1, <1>2, IntentFacts, AppendProperties
<1>4. Len(campaign') \in Nat /\ "session" \in States
  BY <1>3, IntentFacts DEF States
<1>5. /\ q \in RequestTypes /\ q.at = "session" /\ q.campaign = Len(campaign) + 1 /\ ~q.done
      /\ q.preset = preset
  <2>1. idle \in RequestTypes /\ ~idle.done
    BY QuickstartConstants
  <2> HIDE DEF idle
  <2> QED
    BY <1>3, <1>4, <2>1 DEF RequestTypes
<1> HIDE DEF q
<1>6. RequestFits(q, campaign', claim')
  BY <1>1, <1>3, <1>5, IntentFacts DEF RequestFits
<1>7. /\ request' \in [Requests -> RequestTypes] /\ causes' \in Nat /\ request'[r] = q
      /\ \A s \in Requests : s # r => request'[s] = request[s]
  BY <1>2, <1>5, IntentFacts
<1>8. Excused'
  <2>1. ASSUME NEW c \in 1..Len(campaign) PROVE Cardinality(Users(c, request')) <= Cardinality(Users(c, request))
    <3>1. q.campaign # c
      BY <1>5, IntentFacts
    <3> QED
      BY <1>2, <1>5, <3>1, IntentFacts, UsersChange
  <2>2. Cardinality(Users(Len(campaign) + 1, request')) <= 1
    <3> DEFINE users == Users(Len(campaign) + 1, request)
    <3>1. users = {}
      <4> SUFFICES ASSUME NEW s \in Requests, request[s].campaign = Len(campaign) + 1 PROVE FALSE
        BY DEF Users
      <4>1. request[s].campaign \in 0..Len(campaign)
        BY IntentFacts DEF RequestFits
      <4> QED
        BY <4>1, IntentFacts
    <3>2. Cardinality(users) = 0
      BY <3>1, FS_EmptySet
    <3>3. /\ Cardinality(Users(Len(campaign) + 1, request')) <= Cardinality(users) + 1
      BY <1>2, <1>5, IntentFacts, UsersChange
    <3> QED
      BY <3>2, <3>3
  <2> QED
    BY <1>1, <1>2, <1>7, <2>1, <2>2, IntentFacts, ExcusedMore
<1>9. ClaimFits'
  <2>1. claim.campaign # 0 => campaign'[claim.campaign] = campaign[claim.campaign]
    BY <1>3, IntentFacts
  <2> QED
    BY <1>3, <2>1, IntentFacts DEF ClaimFits
<1>10. Undisturbed'
  BY DEF Undisturbed
<1>11. /\ Len(campaign) <= Len(campaign')
       /\ \A c \in 1..Len(campaign) : campaign'[c].preset = campaign[c].preset
       /\ claim'.campaign \in 0..Len(campaign')
  BY <1>3, IntentFacts
<1>12. \A c \in 1..Len(campaign') : campaign'[c].hero \in {NoPreset, campaign'[c].preset}
  <2> SUFFICES ASSUME NEW c \in 1..Len(campaign') PROVE campaign'[c].hero \in {NoPreset, campaign'[c].preset}
    OBVIOUS
  <2>1. c = Len(campaign) + 1 \/ c \in 1..Len(campaign)
    BY <1>3, IntentFacts
  <2> QED
    BY <1>1, <1>3, <2>1, IntentFacts
<1> QED
  BY <1>2, <1>3, <1>5, <1>6, <1>7, <1>8, <1>9, <1>10, <1>11, <1>12, IntentStep

LEMMA PriorMissingKeepsIntent ==
    ASSUME IntentInv, NEW r \in Requests, Quickstart!PriorMissing(r)
    PROVE  IntentInv'
<1>1. /\ request[r].at = "prior" /\ claim' = claim /\ Quickstart!Create(r, request[r].preset, 1)
      /\ IF campaign[request[r].campaign].listed THEN Quickstart!Mishap("unread") ELSE mishaps' = mishaps
  BY DEF Quickstart!PriorMissing
<1>2. /\ request[r].preset \in Presets /\ request[r].campaign \in 1..Len(campaign) /\ campaign # <<>>
      /\ r \in Quickstart!Live
  BY <1>1, LiveFacts DEF RequestFits
<1>3. mishaps' \in MishapTypes
  BY <1>1, MishapCounted, IntentFacts DEF Kinds
<1>4. ~Quiet'
  <2>1. CASE campaign[request[r].campaign].listed
    BY <1>1, <2>1, MishapCounted DEF Quiet, Kinds
  <2>2. CASE ~campaign[request[r].campaign].listed
    BY <1>1, <1>2, <2>2, IntentFacts DEF Undisturbed, Quiet
  <2> QED
    BY <2>1, <2>2
<1>5. causes' = causes + 1 /\ r \in Quickstart!Live'
  BY <1>1, IntentFacts DEF Quickstart!Create, Quickstart!Live
<1>6. Free' = Free
  BY <1>1, <1>2, <1>5 DEF Free
<1>7. causes + Free + 1 <= causes' + Free'
  <2>1. Free \in Nat /\ causes \in Nat
    BY IntentFacts DEF Free
  <2> HIDE DEF Free
  <2> QED
    BY <1>5, <1>6, <2>1
<1> QED
  BY <1>1, <1>2, <1>3, <1>4, <1>7, IntentFacts, Created

\* A request claims the intent: the attempt is the free one, or takes over from
\* one in progress.
LEMMA ClaimKeepsIntent ==
    ASSUME IntentInv, NEW r \in Requests, NEW preset \in Presets, Quickstart!Claim(r, preset)
    PROVE  IntentInv'
<1> DEFINE count == IF claim.status = "claimed" /\ claim.aged /\ Quickstart!Live # {} THEN 1 ELSE 0
           q == [at |-> "prior", preset |-> preset, campaign |-> claim.campaign, done |-> FALSE,
                 earlier |-> claim.preset]
<1>1. /\ request[r].at = "idle" /\ Quickstart!Claimable /\ mishaps' = mishaps
      /\ claim' = [claim EXCEPT !.status = "claimed", !.aged = FALSE]
      /\ \/ claim.campaign = 0 /\ Quickstart!Create(r, preset, count)
         \/ claim.campaign # 0 /\ request' = [request EXCEPT ![r] = q] /\ causes' = causes + count
               /\ campaign' = campaign
  BY DEF Quickstart!Claim
<1>2. /\ claim' \in ClaimTypes /\ claim'.status = "claimed" /\ ~claim'.aged
      /\ claim'.campaign = claim.campaign /\ claim'.preset = claim.preset
      /\ claim.status # "done" /\ (claim.status = "claimed" => claim.aged)
  BY <1>1, IntentFacts DEF ClaimTypes, Quickstart!Claimable
<1>3. mishaps' \in MishapTypes /\ (Quiet' => Quiet)
  BY <1>1, IntentFacts DEF Quiet
<1>4. count \in {0, 1} /\ count + Free >= Free /\ causes \in Nat /\ Free = count
  BY <1>2, IntentFacts DEF Free
<1>5. Quiet => (\A s \in Requests : request[s].at = "idle") /\ \A c \in 1..Len(campaign) : campaign[c].listed
  <2>1. claim.status \in {"none", "open", "claimed"}
    BY <1>2, IntentFacts DEF ClaimTypes
  <2>2. Quiet => Quickstart!Live = {}
    BY <1>2, <2>1, IntentFacts DEF Undisturbed
  <2> QED
    BY <2>2, IntentFacts DEF Undisturbed, Quickstart!Live
<1> HIDE DEF count
<1>6. ASSUME request'[r].at # "idle", causes' = causes + count PROVE causes' + Free' = causes + Free + 1
  <2>1. Quickstart!Live' # {}
    BY <1>6 DEF Quickstart!Live
  <2>2. Free' = 1
    BY <1>2, <2>1 DEF Free
  <2> QED
    BY <1>4, <1>6, <2>2
<1>7. CASE claim.campaign = 0 /\ Quickstart!Create(r, preset, count)
  <2> DEFINE q2 == [Quickstart!NoRequest EXCEPT !.at = "session", !.preset = preset, !.campaign = Len(campaign')]
             new == [Quickstart!NoCampaign EXCEPT !.listed = TRUE, !.preset = preset]
  <2>1. /\ request' = [request EXCEPT ![r] = q2] /\ campaign' = Append(campaign, new)
        /\ causes' = causes + count
    BY <1>7 DEF Quickstart!Create
  <2>2. q2.at = "session"
    BY QuickstartConstants DEF RequestTypes
  <2> HIDE DEF q2
  <2>3. request'[r].at = "session" /\ \A s \in Requests : s # r => request'[s] = request[s]
    BY <2>1, <2>2, IntentFacts
  <2>4. causes' + Free' = causes + Free + 1
    BY <1>6, <2>1, <2>3
  <2>5. IF campaign = <<>> THEN 1 <= causes' + Free' ELSE causes + Free + 1 <= causes' + Free'
    <3>1. Free \in Nat /\ causes \in Nat
      BY <1>4, IntentFacts DEF Free
    <3> HIDE DEF Free
    <3> QED
      BY <2>4, <3>1
  <2>6. ASSUME Quiet' PROVE Undisturbed'
    <3>1. new.listed /\ new \in Rows
      <4>1. /\ Quickstart!NoCampaign \in [listed : BOOLEAN, preset : Presets \cup {NoPreset},
                                          hero : Presets \cup {NoPreset}, heroes : Nat]
        BY DEF Quickstart!NoCampaign
      <4> QED
        BY <4>1 DEF Rows
    <3> HIDE DEF new
    <3>2. /\ campaign' \in Seq(Rows) /\ Len(campaign') = Len(campaign) + 1
          /\ \A c \in 1..Len(campaign) : campaign'[c] = campaign[c]
          /\ campaign'[Len(campaign) + 1] = new
      BY <2>1, <3>1, IntentFacts, AppendProperties
    <3>3. DOMAIN campaign' = 1..Len(campaign')
      BY <3>2, LenProperties
    <3>4. \A c \in 1..Len(campaign') : campaign'[c].listed
      <4> SUFFICES ASSUME NEW c \in 1..Len(campaign') PROVE campaign'[c].listed
        OBVIOUS
      <4>1. c = Len(campaign) + 1 \/ c \in 1..Len(campaign)
        BY <3>2, IntentFacts
      <4> QED
        BY <1>3, <1>5, <2>6, <3>1, <3>2, <4>1
    <3> QED
      BY <1>2, <1>3, <1>5, <2>3, <2>6, <3>3, <3>4, StillAlone
  <2> QED
    BY <1>2, <1>3, <1>4, <1>7, <2>5, <2>6, Created
<1>8. CASE claim.campaign # 0 /\ request' = [request EXCEPT ![r] = q] /\ causes' = causes + count
               /\ campaign' = campaign
  <2>1. claim.campaign \in 1..Len(campaign) /\ claim.preset = campaign[claim.campaign].preset
        /\ claim.preset \in Presets \cup {NoPreset} /\ campaign # <<>>
    BY <1>8, IntentFacts, EmptySeq DEF ClaimFits, ClaimTypes
  <2>2. q \in RequestTypes /\ q.at = "prior" /\ q.campaign = claim.campaign /\ RequestFits(q, campaign', claim')
    BY <1>2, <1>8, <2>1, IntentFacts DEF RequestTypes, States, RequestFits
  <2> HIDE DEF q
  <2>3. /\ request'[r] = q /\ request' \in [Requests -> RequestTypes]
        /\ \A s \in Requests : s # r => request'[s] = request[s]
    BY <1>8, <2>2, IntentFacts
  <2>4. causes' \in Nat /\ causes + Free + 1 <= causes' + Free'
    <3>1. causes' + Free' = causes + Free + 1
      BY <1>6, <1>8, <2>2, <2>3
    <3>2. causes' \in Nat /\ Free \in Nat
      BY <1>4, <1>8
    <3> HIDE DEF Free
    <3> QED
      BY <1>4, <3>1, <3>2
  <2>5. ASSUME NEW c \in 1..Len(campaign)
        PROVE  Cardinality(Users(c, request'))
                 <= IF c = claim.campaign THEN Cardinality(Users(c, request)) + 1 ELSE Cardinality(Users(c, request))
    BY <1>8, <2>2, IntentFacts, UsersChange
  <2>6. Excused'
    BY <1>8, <2>1, <2>3, <2>4, <2>5, IntentFacts, ExcusedAgain
  <2>7. ClaimFits'
    BY <1>2, <1>8, <2>1 DEF ClaimFits
  <2>8. ASSUME Quiet' PROVE Undisturbed'
    BY <1>2, <1>3, <1>5, <1>8, <2>2, <2>3, <2>8, IntentFacts, StillAlone
  <2>9. Undisturbed'
    BY <2>8 DEF Undisturbed
  <2>10. /\ campaign' \in Seq(Rows) /\ Len(campaign) <= Len(campaign')
         /\ \A c \in 1..Len(campaign) : campaign'[c].preset = campaign[c].preset
         /\ \A c \in 1..Len(campaign') : campaign'[c].hero \in {NoPreset, campaign'[c].preset}
         /\ claim'.campaign \in 0..Len(campaign')
    BY <1>2, <1>8, IntentFacts
  <2> QED
    BY <1>2, <1>3, <1>8, <2>2, <2>4, <2>6, <2>7, <2>9, <2>10, IntentStep
<1> QED
  BY <1>1, <1>7, <1>8

\* The claim and its request move together; the claim keeps its status.
LEMMA AttachKeepsIntent ==
    ASSUME IntentInv, NEW r \in Requests, Quickstart!Attach(r)
    PROVE  IntentInv'
<1> DEFINE q == [request[r] EXCEPT !.at = "character"]
           given == [claim EXCEPT !.campaign = request[r].campaign, !.preset = request[r].preset]
<1>1. /\ request[r].at = "view" /\ campaign[request[r].campaign].listed /\ claim' = given
      /\ request' = [request EXCEPT ![r] = q] /\ UNCHANGED <<campaign, mishaps, causes>>
  BY IntentFacts DEF Quickstart!Attach, Quickstart!Attached
<1>2. /\ request[r] \in RequestTypes /\ RequestFits(request[r], campaign, claim) /\ campaign # <<>>
      /\ request[r].campaign \in 1..Len(campaign) /\ r \in Quickstart!Live /\ ~request[r].done
      /\ request[r].preset = campaign[request[r].campaign].preset
  BY <1>1, LiveFacts DEF RequestFits
<1>3. /\ q \in RequestTypes /\ q.at = "character" /\ q.campaign = request[r].campaign /\ ~q.done
      /\ q.preset = request[r].preset
  BY <1>2 DEF RequestTypes, States
<1>4. /\ claim' \in ClaimTypes /\ claim'.campaign = request[r].campaign /\ claim'.preset = request[r].preset
      /\ claim'.status = claim.status /\ claim'.aged = claim.aged
  BY <1>1, <1>2, IntentFacts DEF ClaimTypes, RequestTypes
<1> HIDE DEF q, given
<1>5. claim'.campaign # 0 /\ RequestFits(q, campaign', claim')
  BY <1>1, <1>2, <1>3, <1>4, IntentFacts DEF RequestFits
<1>6. mishaps' \in MishapTypes /\ (Quiet' => Quiet)
  BY <1>1, IntentFacts DEF Quiet
<1>7. request'[r] = q /\ \A s \in Requests : s # r => request'[s] = request[s]
  BY <1>1, IntentFacts
<1>8. Excused'
  <2>1. Quickstart!Live' # {}
    BY <1>3, <1>7 DEF Quickstart!Live
  <2>2. causes + Free <= causes' + Free'
    BY <1>1, <1>4, <2>1, IntentFacts DEF Free
  <2>3. Counts(request[r])
    BY <1>1 DEF Counts
  <2> QED
    BY <1>1, <1>3, <2>2, <2>3, IntentFacts, ExcusedByRequest
<1>9. ClaimFits'
  BY <1>1, <1>2, <1>4, <1>5 DEF ClaimFits
<1>10. ASSUME Quiet' PROVE Undisturbed'
  <2>1. /\ claim.status = "claimed" /\ ~claim.aged
        /\ \A s \in Requests : s # r => request[s].at = "idle"
        /\ \A c \in 1..Len(campaign) : campaign[c].listed
    BY <1>1, <1>2, <1>6, <1>10, Alone
  <2> QED
    BY <1>1, <1>3, <1>4, <1>7, <2>1, IntentFacts, StillAlone
<1>11. Undisturbed'
  BY <1>10 DEF Undisturbed
<1>12. /\ campaign' \in Seq(Rows) /\ Len(campaign) <= Len(campaign') /\ causes' \in Nat
       /\ \A c \in 1..Len(campaign) : campaign'[c].preset = campaign[c].preset
       /\ \A c \in 1..Len(campaign') : campaign'[c].hero \in {NoPreset, campaign'[c].preset}
       /\ claim'.campaign \in 0..Len(campaign')
  BY <1>1, <1>2, <1>4, IntentFacts
<1> QED
  BY <1>1, <1>3, <1>4, <1>5, <1>6, <1>8, <1>9, <1>11, <1>12, IntentStep

LEMMA AttachDeletedKeepsIntent ==
    ASSUME IntentInv, NEW r \in Requests, Quickstart!AttachDeleted(r)
    PROVE  IntentInv'
<1> DEFINE given == [claim EXCEPT !.campaign = request[r].campaign, !.preset = request[r].preset]
<1>1. /\ request[r].at = "view" /\ Quickstart!GiveUp(r, given) /\ UNCHANGED <<campaign, mishaps>>
  BY DEF Quickstart!AttachDeleted
<1>2. /\ request[r] \in RequestTypes /\ RequestFits(request[r], campaign, claim)
      /\ request[r].campaign \in 1..Len(campaign) /\ ~request[r].done
      /\ request[r].preset = campaign[request[r].campaign].preset
  BY <1>1, LiveFacts DEF RequestFits
<1>3. /\ given \in ClaimTypes /\ given.campaign = request[r].campaign /\ given.preset = request[r].preset
      /\ given.status = claim.status
  BY <1>2, IntentFacts DEF ClaimTypes, RequestTypes
<1> HIDE DEF given
<1>4. given.campaign \in 0..Len(campaign) /\ given.campaign # 0
  BY <1>2, <1>3, IntentFacts
<1> QED
  BY <1>1, <1>2, <1>3, <1>4, IntentFacts, GivenUp

LEMMA CompleteKeepsIntent ==
    ASSUME IntentInv, NEW r \in Requests, Quickstart!Complete(r)
    PROVE  IntentInv'
<1> DEFINE q == [request[r] EXCEPT !.at = "answer"]
<1>1. /\ request[r].at = "scene" /\ claim' = [claim EXCEPT !.status = "done"]
      /\ request' = [request EXCEPT ![r] = q] /\ UNCHANGED <<campaign, mishaps, causes>>
  BY IntentFacts DEF Quickstart!Complete
<1>2. /\ request[r] \in RequestTypes /\ RequestFits(request[r], campaign, claim) /\ campaign # <<>>
      /\ ~request[r].done /\ claim.campaign # 0
  BY <1>1, LiveFacts DEF RequestFits
<1>3. q \in RequestTypes /\ q.at = "answer" /\ q.campaign = request[r].campaign /\ ~q.done
  BY <1>2 DEF RequestTypes, States
<1>4. /\ claim' \in ClaimTypes /\ claim'.campaign = claim.campaign /\ claim'.preset = claim.preset
      /\ claim'.status = "done"
  BY <1>1, IntentFacts DEF ClaimTypes
<1> HIDE DEF q
<1>5. RequestFits(q, campaign', claim') /\ ~Counts(q)
  BY <1>1, <1>2, <1>3, <1>4 DEF RequestFits, Counts
<1>6. mishaps' \in MishapTypes /\ (Quiet' => Quiet)
  BY <1>1, IntentFacts DEF Quiet
<1>7. request'[r] = q /\ \A s \in Requests : s # r => request'[s] = request[s]
  BY <1>1, IntentFacts
<1>8. Excused'
  <2>1. causes + Free <= causes' + Free'
    BY <1>1, <1>4, IntentFacts DEF Free
  <2> QED
    BY <1>1, <1>3, <1>5, <2>1, IntentFacts, ExcusedByRequest
<1>9. ClaimFits'
  BY <1>1, <1>2, <1>4, IntentFacts DEF ClaimFits
<1>10. ASSUME Quiet' PROVE Undisturbed'
  <2>1. /\ \A s \in Requests : s # r => request[s].at = "idle"
        /\ \A c \in 1..Len(campaign) : campaign[c].listed
        /\ campaign[claim.campaign].hero # NoPreset
    BY <1>1, <1>2, <1>6, <1>10, Alone
  <2> QED
    BY <1>1, <1>3, <1>4, <1>6, <1>7, <1>10, <2>1, IntentFacts, StillDone
<1>11. Undisturbed'
  BY <1>10 DEF Undisturbed
<1>12. /\ campaign' \in Seq(Rows) /\ Len(campaign) <= Len(campaign') /\ causes' \in Nat
       /\ \A c \in 1..Len(campaign) : campaign'[c].preset = campaign[c].preset
       /\ \A c \in 1..Len(campaign') : campaign'[c].hero \in {NoPreset, campaign'[c].preset}
       /\ claim'.campaign \in 0..Len(campaign')
  BY <1>1, <1>4, IntentFacts
<1> QED
  BY <1>1, <1>2, <1>3, <1>4, <1>5, <1>6, <1>8, <1>9, <1>11, <1>12, IntentStep

\* One row changes.
LEMMA RowChanged ==
    ASSUME IntentInv, NEW d \in 1..Len(campaign), NEW new \in Rows, campaign' = [campaign EXCEPT ![d] = new]
    PROVE  /\ campaign' \in Seq(Rows) /\ Len(campaign') = Len(campaign)
           /\ DOMAIN campaign' = 1..Len(campaign')
           /\ campaign'[d] = new /\ \A c \in 1..Len(campaign) : c # d => campaign'[c] = campaign[c]
<1>1. /\ campaign' \in Seq(Rows) /\ Len(campaign') = Len(campaign)
      /\ \A c \in 1..Len(campaign) : campaign'[c] = IF c = d THEN new ELSE campaign[c]
  BY IntentFacts, ExceptSeq
<1> QED
  BY <1>1, LenProperties

\* A character is made, as the row of a campaign shows it.
LEMMA HeroMade ==
    ASSUME IntentInv, NEW d \in 1..Len(campaign),
           campaign' = [campaign EXCEPT ![d].heroes = @ + 1]
    PROVE  /\ campaign' \in Seq(Rows) /\ Len(campaign') = Len(campaign)
           /\ DOMAIN campaign' = 1..Len(campaign')
           /\ campaign'[d].heroes = campaign[d].heroes + 1
           /\ \A c \in 1..Len(campaign) :
                 /\ campaign'[c].preset = campaign[c].preset /\ campaign'[c].hero = campaign[c].hero
                 /\ campaign'[c].listed = campaign[c].listed
                 /\ c # d => campaign'[c] = campaign[c]
<1> DEFINE new == [campaign[d] EXCEPT !.heroes = @ + 1]
<1>1. campaign[d] \in Rows
  BY IntentFacts
<1>2. /\ new \in Rows /\ new.heroes = campaign[d].heroes + 1 /\ new.hero = campaign[d].hero
      /\ new.preset = campaign[d].preset /\ new.listed = campaign[d].listed
  BY <1>1 DEF Rows
<1>3. campaign' = [campaign EXCEPT ![d] = new]
  BY IntentFacts
<1> HIDE DEF new
<1> QED
  BY <1>2, <1>3, RowChanged

LEMMA HeroRow ==
    ASSUME NEW old \in Rows, NEW hero \in Presets \cup {NoPreset}
    PROVE  LET new == [old EXCEPT !.heroes = @ + 1, !.hero = hero]
           IN  /\ new \in Rows /\ new.heroes = old.heroes + 1 /\ new.hero = hero
               /\ new.preset = old.preset /\ new.listed = old.listed
<1> DEFINE more == [old EXCEPT !.heroes = @ + 1]
           new == [more EXCEPT !.hero = hero]
<1>1. /\ more \in Rows /\ more.heroes = old.heroes + 1
      /\ more.preset = old.preset /\ more.listed = old.listed
  BY DEF Rows
<1> HIDE DEF more
<1>2. /\ new \in Rows /\ new.heroes = more.heroes /\ new.hero = hero
      /\ new.preset = more.preset /\ new.listed = more.listed
  BY <1>1 DEF Rows
<1> QED
  BY <1>1, <1>2 DEF more

LEMMA CharacterMadeKeepsIntent ==
    ASSUME IntentInv, NEW r \in Requests, Quickstart!CharacterMade(r)
    PROVE  IntentInv'
<1> DEFINE d == request[r].campaign
           hero == IF campaign[d].listed THEN request[r].preset ELSE campaign[d].hero
           new == [campaign[d] EXCEPT !.heroes = @ + 1, !.hero = hero]
<1>1. request[r].at = "character" /\ mishaps' = mishaps
  BY DEF Quickstart!CharacterMade
<1>2. /\ request[r] \in RequestTypes /\ RequestFits(request[r], campaign, claim) /\ campaign # <<>>
      /\ d \in 1..Len(campaign) /\ r \in Quickstart!Live /\ ~request[r].done
      /\ request[r].preset = campaign[d].preset /\ campaign[d] \in Rows /\ claim.campaign # 0
  BY <1>1, LiveFacts DEF RequestFits
<1>3. /\ new \in Rows /\ new.heroes = campaign[d].heroes + 1 /\ new.hero = hero
      /\ new.preset = campaign[d].preset /\ new.listed = campaign[d].listed
      /\ hero \in {NoPreset, campaign[d].preset}
  <2>1. hero \in {NoPreset, campaign[d].preset} /\ hero \in Presets \cup {NoPreset}
    BY <1>2, IntentFacts DEF Rows
  <2> HIDE DEF hero
  <2> QED
    BY <1>2, <2>1, HeroRow
<1>4. campaign' = [campaign EXCEPT ![d] = new]
  BY <1>2, IntentFacts DEF Quickstart!CharacterMade
<1> HIDE DEF new
<1>5. /\ campaign' \in Seq(Rows) /\ Len(campaign') = Len(campaign)
      /\ DOMAIN campaign' = 1..Len(campaign')
      /\ campaign'[d] = new /\ \A c \in 1..Len(campaign) : c # d => campaign'[c] = campaign[c]
  BY <1>2, <1>3, <1>4, RowChanged
<1>6. mishaps' \in MishapTypes /\ (Quiet' => Quiet) /\ mishaps.seen \subseteq mishaps'.seen
  BY <1>1, IntentFacts DEF Quiet
<1>7. Counts(request[r]) /\ r \in Users(d, request)
  BY <1>1, <1>2 DEF Counts, Users
<1>8. CASE ~campaign[d].listed
  <2>1. Quickstart!GiveUp(r, claim)
    BY <1>8 DEF Quickstart!CharacterMade
  <2>2. hero = campaign[d].hero
    BY <1>8
  <2>3. \A c \in 1..Len(campaign) :
           /\ campaign'[c].preset = campaign[c].preset /\ campaign'[c].hero = campaign[c].hero
           /\ campaign'[c].listed = campaign[c].listed
           /\ \/ campaign'[c].heroes = campaign[c].heroes
              \/ r \in Users(c, request) /\ campaign'[c].heroes = campaign[c].heroes + 1
    BY <1>3, <1>5, <1>7, <2>2
  <2> HIDE DEF hero, d
  <2> QED
    BY <1>1, <1>2, <1>5, <1>6, <2>1, <2>3, IntentFacts, GivenUp DEF ClaimFits
<1>9. CASE campaign[d].listed
  <2> DEFINE q == [request[r] EXCEPT !.at = "party"]
  <2>1. request' = [request EXCEPT ![r] = q] /\ UNCHANGED <<claim, causes>>
    BY <1>9, IntentFacts DEF Quickstart!CharacterMade
  <2>2. /\ q \in RequestTypes /\ q.at = "party" /\ q.campaign = d /\ ~q.done /\ ~Counts(q)
    BY <1>2 DEF RequestTypes, States, Counts
  <2> HIDE DEF q
  <2>3. RequestFits(q, campaign', claim')
    BY <1>2, <1>5, <2>1, <2>2, IntentFacts DEF RequestFits
  <2>4. /\ request' \in [Requests -> RequestTypes] /\ request'[r] = q
        /\ \A s \in Requests : s # r => request'[s] = request[s]
    BY <2>1, <2>2, IntentFacts
  <2>5. Excused'
    <3>1. ASSUME NEW c \in 1..Len(campaign)
          PROVE  campaign'[c].heroes + Cardinality(Users(c, request'))
                   <= campaign[c].heroes + Cardinality(Users(c, request))
      <4>1. /\ Cardinality(Users(c, request')) \in Nat /\ Cardinality(Users(c, request)) \in Nat
            /\ Cardinality(Users(c, request')) <= Cardinality(Users(c, request))
            /\ r \in Users(c, request) => Cardinality(Users(c, request')) + 1 = Cardinality(Users(c, request))
        BY <2>1, <2>2, IntentFacts, UsersChange
      <4>2. campaign[c].heroes \in Nat
        BY IntentFacts DEF Rows
      <4>3. CASE c = d
        BY <1>3, <1>5, <1>7, <4>1, <4>2, <4>3
      <4>4. CASE c # d
        BY <1>5, <4>1, <4>2, <4>4
      <4> QED
        BY <4>3, <4>4
    <3>2. Quickstart!Live' # {}
      BY <2>2, <2>4 DEF Quickstart!Live
    <3>3. causes + Free <= causes' + Free'
      BY <2>1, <3>2, IntentFacts DEF Free
    <3>4. causes' \in Nat
      BY <2>1, IntentFacts
    <3> QED
      BY <1>5, <2>4, <3>1, <3>3, <3>4, IntentFacts, ExcusedKept
  <2>6. \A c \in 1..Len(campaign) :
           /\ campaign'[c].preset = campaign[c].preset /\ campaign'[c].listed = campaign[c].listed
           /\ campaign[c].hero # NoPreset => campaign'[c].hero # NoPreset
           /\ campaign'[c].hero \in {NoPreset, campaign'[c].preset}
    <3> SUFFICES ASSUME NEW c \in 1..Len(campaign)
                 PROVE  /\ campaign'[c].preset = campaign[c].preset /\ campaign'[c].listed = campaign[c].listed
                        /\ campaign[c].hero # NoPreset => campaign'[c].hero # NoPreset
                        /\ campaign'[c].hero \in {NoPreset, campaign'[c].preset}
      OBVIOUS
    <3>1. hero = campaign[d].preset /\ campaign[d].preset # NoPreset
      BY <1>2, <1>9, QuickstartConstants DEF Rows
    <3>2. CASE c = d
      BY <1>3, <1>5, <3>1, <3>2
    <3>3. CASE c # d
      BY <1>5, <3>3, IntentFacts
    <3> QED
      BY <3>2, <3>3
  <2>7. ClaimFits'
    <3>1. campaign' # <<>>
      BY <1>2, <1>5, EmptySeq
    <3> QED
      BY <2>1, <2>6, <3>1, IntentFacts DEF ClaimFits
  <2>8. ASSUME Quiet' PROVE Undisturbed'
    <3>1. /\ claim.status = "claimed" /\ ~claim.aged
          /\ \A s \in Requests : s # r => request[s].at = "idle"
          /\ \A c \in 1..Len(campaign) : campaign[c].listed
          /\ d = claim.campaign
      BY <1>1, <1>2, <1>6, <2>8, Alone
    <3>2. campaign'[d].hero # NoPreset
      BY <1>2, <1>3, <1>5, <1>9, QuickstartConstants DEF Rows
    <3>3. \A c \in 1..Len(campaign') : campaign'[c].listed
      BY <1>5, <2>6, <3>1
    <3>4. \A s \in Requests : s # r => request'[s].at = "idle"
      BY <2>4, <3>1
    <3> HIDE DEF d, hero
    <3> QED
      BY <1>5, <2>1, <2>2, <2>4, <3>1, <3>2, <3>3, <3>4, StillAlone
  <2>9. Undisturbed'
    BY <2>8 DEF Undisturbed
  <2>10. /\ Len(campaign) <= Len(campaign') /\ causes' \in Nat /\ claim' \in ClaimTypes
         /\ \A c \in 1..Len(campaign) : campaign'[c].preset = campaign[c].preset
         /\ \A c \in 1..Len(campaign') : campaign'[c].hero \in {NoPreset, campaign'[c].preset}
         /\ claim'.campaign \in 0..Len(campaign')
    BY <1>5, <2>1, <2>6, IntentFacts
  <2> QED
    BY <1>5, <1>6, <2>1, <2>2, <2>3, <2>5, <2>7, <2>9, <2>10, IntentStep
<1> QED
  BY <1>8, <1>9

LEMMA FailKeepsIntent ==
    ASSUME IntentInv, NEW r \in Requests, Quickstart!Fail(r)
    PROVE  IntentInv'
<1> DEFINE d == request[r].campaign
<1>1. /\ request[r].at \in {"session", "view", "character", "party", "answer"}
      /\ Quickstart!Mishap("failed") /\ Quickstart!GiveUp(r, claim)
      /\ \/ campaign' = campaign
         \/ request[r].at = "character" /\ campaign' = [campaign EXCEPT ![d].heroes = @ + 1]
  BY DEF Quickstart!Fail
<1>2. mishaps' \in MishapTypes /\ mishaps.seen \subseteq mishaps'.seen
  BY <1>1, MishapCounted DEF Kinds
<1>3. request[r].at # "idle" /\ ~request[r].done /\ d \in 1..Len(campaign)
  BY <1>1, LiveFacts DEF RequestFits
<1>4. CASE campaign' = campaign
  BY <1>1, <1>2, <1>3, <1>4, IntentFacts, GivenUp DEF ClaimFits
<1>5. CASE request[r].at = "character" /\ campaign' = [campaign EXCEPT ![d].heroes = @ + 1]
  <2>1. r \in Users(d, request)
    BY <1>5 DEF Users, Counts
  <2> HIDE DEF d
  <2>2. /\ campaign' \in Seq(Rows) /\ Len(campaign') = Len(campaign)
        /\ \A c \in 1..Len(campaign) :
              /\ campaign'[c].preset = campaign[c].preset /\ campaign'[c].hero = campaign[c].hero
              /\ campaign'[c].listed = campaign[c].listed
              /\ \/ campaign'[c].heroes = campaign[c].heroes
                 \/ r \in Users(c, request) /\ campaign'[c].heroes = campaign[c].heroes + 1
    BY <1>3, <1>5, <2>1, HeroMade
  <2> QED
    BY <1>1, <1>2, <1>3, <2>2, IntentFacts, GivenUp DEF ClaimFits
<1> QED
  BY <1>1, <1>4, <1>5

\* A step of no request.
LEMMA OutsideStep ==
    ASSUME IntentInv, request' \in [Requests -> RequestTypes],
           \A r \in Requests : RequestFits(request'[r], campaign', claim'),
           campaign' \in Seq(Rows), Len(campaign) = Len(campaign'),
           \A c \in 1..Len(campaign) : /\ campaign'[c].preset = campaign[c].preset
                                       /\ campaign'[c].hero = campaign[c].hero,
           claim' \in ClaimTypes, claim'.campaign = claim.campaign, mishaps' \in MishapTypes,
           causes' \in Nat, ClaimFits', Excused', Undisturbed'
    PROVE  IntentInv'
<1>1. IntentTyped'
  BY IntentFacts DEF IntentTyped
<1>2. \A c \in DOMAIN campaign' : campaign'[c].hero \in {NoPreset, campaign'[c].preset}
  BY IntentFacts, LenProperties
<1> QED
  BY <1>1, <1>2 DEF IntentInv

LEMMA AgeKeepsIntent ==
    ASSUME IntentInv, Quickstart!Age
    PROVE  IntentInv'
<1>1. /\ claim.status = "claimed" /\ claim' = [claim EXCEPT !.aged = TRUE]
      /\ UNCHANGED <<campaign, request, causes>>
      /\ IF Quickstart!Live = {} THEN mishaps' = mishaps ELSE Quickstart!Mishap("slow")
  BY DEF Quickstart!Age
<1>2. /\ claim' \in ClaimTypes /\ claim'.campaign = claim.campaign /\ claim'.preset = claim.preset
      /\ claim'.status = "claimed"
  BY <1>1, IntentFacts DEF ClaimTypes
<1>3. mishaps' \in MishapTypes
  BY <1>1, IntentFacts, MishapCounted DEF Kinds
<1>4. \A r \in Requests : RequestFits(request'[r], campaign', claim')
  BY <1>1, <1>2, IntentFacts DEF RequestFits
<1>5. ClaimFits'
  <2>1. Quickstart!Live' = Quickstart!Live
    BY <1>1 DEF Quickstart!Live
  <2> QED
    BY <1>1, <1>2, <2>1, IntentFacts DEF ClaimFits
<1>6. Excused'
  <2>1. Free' = Free
    BY <1>1, <1>2 DEF Free, Quickstart!Live
  <2>2. Surplus' = Surplus
    BY <1>1 DEF Surplus
  <2> QED
    BY <1>1, <2>1, <2>2, IntentFacts DEF Excused
<1>7. ASSUME Quiet' PROVE Undisturbed'
  <2>1. Quickstart!Live = {} /\ Quiet
    <3>1. CASE Quickstart!Live # {}
      BY <1>1, <1>7, <3>1, MishapCounted DEF Quiet, Kinds
    <3> QED
      BY <1>1, <1>7, <3>1 DEF Quiet
  <2>2. \A s \in Requests : request'[s].at = "idle"
    BY <1>1, <2>1 DEF Quickstart!Live
  <2>3. DOMAIN campaign' = 1..Len(campaign') /\ \A c \in 1..Len(campaign') : campaign'[c].listed
    BY <1>1, <2>1, IntentFacts DEF Undisturbed
  <2> QED
    BY <1>2, <2>2, <2>3, NoneLeft
<1>8. Undisturbed'
  BY <1>7 DEF Undisturbed
<1> QED
  BY <1>1, <1>2, <1>3, <1>4, <1>5, <1>6, <1>8, IntentFacts, OutsideStep

LEMMA DeleteKeepsIntent ==
    ASSUME IntentInv, NEW d \in DOMAIN campaign, Quickstart!Delete(d)
    PROVE  IntentInv'
<1> DEFINE new == [campaign[d] EXCEPT !.listed = FALSE]
<1>1. /\ Quickstart!Mishap("deleted") /\ UNCHANGED <<claim, request, causes>>
      /\ campaign' = [campaign EXCEPT ![d] = new]
  BY DEF Quickstart!Delete
<1>2. d \in 1..Len(campaign) /\ campaign[d] \in Rows
  BY IntentFacts
<1>3. /\ new \in Rows /\ new.heroes = campaign[d].heroes /\ new.hero = campaign[d].hero
      /\ new.preset = campaign[d].preset
  BY <1>2 DEF Rows
<1> HIDE DEF new
<1>4. /\ campaign' \in Seq(Rows) /\ Len(campaign') = Len(campaign)
      /\ \A c \in 1..Len(campaign) : /\ campaign'[c].preset = campaign[c].preset
                                     /\ campaign'[c].hero = campaign[c].hero
                                     /\ campaign'[c].heroes = campaign[c].heroes
  BY <1>1, <1>2, <1>3, RowChanged
<1>5. mishaps' \in MishapTypes /\ ~Quiet'
  BY <1>1, MishapCounted DEF Kinds, Quiet
<1>6. \A r \in Requests : RequestFits(request'[r], campaign', claim')
  <2> SUFFICES ASSUME NEW r \in Requests PROVE RequestFits(request[r], campaign', claim)
    BY <1>1
  <2> QED
    BY <1>4, IntentFacts, StillFits
<1>7. ClaimFits'
  <2>1. Quickstart!Live' = Quickstart!Live
    BY <1>1 DEF Quickstart!Live
  <2>2. campaign' # <<>>
    BY <1>2, <1>4, EmptySeq
  <2> QED
    BY <1>1, <1>4, <2>2, IntentFacts DEF ClaimFits
<1>8. Excused'
  <2>1. Free' = Free
    BY <1>1 DEF Free, Quickstart!Live
  <2>2. ASSUME NEW c \in 1..Len(campaign)
        PROVE  campaign'[c].heroes + Cardinality(Users(c, request'))
                 <= campaign[c].heroes + Cardinality(Users(c, request))
    <3>1. Cardinality(Users(c, request)) \in Nat /\ campaign[c].heroes \in Nat
      BY IntentFacts, LoadsTyped
    <3> QED
      BY <1>1, <1>4, <3>1
  <2>3. causes + Free <= causes' + Free'
    <3>1. Free \in Nat /\ causes \in Nat
      BY IntentFacts DEF Free
    <3> HIDE DEF Free
    <3> QED
      BY <1>1, <2>1, <3>1
  <2> QED
    BY <1>1, <1>4, <2>2, <2>3, IntentFacts, ExcusedKept
<1>9. Undisturbed'
  BY <1>5 DEF Undisturbed
<1> QED
  BY <1>1, <1>4, <1>5, <1>6, <1>7, <1>8, <1>9, IntentFacts, OutsideStep

LEMMA RestartKeepsIntent ==
    ASSUME IntentInv, Quickstart!Restart
    PROVE  IntentInv'
<1>1. /\ Quickstart!Live # {} /\ Quickstart!Mishap("restarted")
      /\ request' = [r \in Requests |-> Quickstart!NoRequest]
      /\ causes' = causes + Cardinality(Quickstart!Live) /\ UNCHANGED <<claim, campaign>>
  <2>1. Quickstart!Live # {} /\ Quickstart!Mishap("restarted")
    BY DEF Quickstart!Restart
  <2>2. request' = [r \in Requests |-> Quickstart!NoRequest]
    BY DEF Quickstart!Restart
  <2>3. causes' = causes + Cardinality(Quickstart!Live)
    BY DEF Quickstart!Restart, Quickstart!Cardinality, Cardinality
  <2>4. UNCHANGED <<claim, campaign>>
    BY DEF Quickstart!Restart
  <2> QED
    BY <2>1, <2>2, <2>3, <2>4
<1>2. Cardinality(Quickstart!Live) \in Nat \ {0}
  <2>1. IsFiniteSet(Quickstart!Live)
    BY QuickstartConstants, FS_Subset DEF Quickstart!Live
  <2> QED
    BY <1>1, <2>1, FS_CardinalityType, FS_EmptySet
<1>3. mishaps' \in MishapTypes /\ mishaps.seen \subseteq mishaps'.seen
  BY <1>1, MishapCounted DEF Kinds
<1>4. request' \in [Requests -> RequestTypes]
  BY <1>1, QuickstartConstants
<1>5. \A r \in Requests : RequestFits(request'[r], campaign', claim')
  BY <1>1, QuickstartConstants, IntentFacts
<1>6. \A r \in Requests : request'[r].at = "idle" /\ ~Counts(request'[r])
  BY <1>1, QuickstartConstants
<1>7. ClaimFits'
  <2>1. Quickstart!Live' = {}
    BY <1>6 DEF Quickstart!Live
  <2> QED
    BY <1>1, <2>1, IntentFacts DEF ClaimFits
<1>8. Excused'
  <2>1. ASSUME NEW c \in 1..Len(campaign)
        PROVE  campaign'[c].heroes + Cardinality(Users(c, request'))
                 <= campaign[c].heroes + Cardinality(Users(c, request))
    <3>1. Cardinality(Users(c, request)) \in Nat /\ campaign[c].heroes \in Nat
      BY IntentFacts, LoadsTyped
    <3>2. Users(c, request') = {}
      BY <1>6 DEF Users
    <3>3. Cardinality(Users(c, request')) = 0
      BY <3>2, FS_EmptySet
    <3> QED
      BY <1>1, <3>1, <3>3
  <2>2. causes' \in Nat /\ causes + Free <= causes' + Free'
    <3>1. Free \in {0, 1} /\ Free' \in {0, 1} /\ causes \in Nat
      BY IntentFacts DEF Free
    <3> HIDE DEF Free
    <3> QED
      BY <1>1, <1>2, <3>1
  <2> QED
    BY <1>1, <1>4, <2>1, <2>2, IntentFacts, ExcusedKept
<1>9. ASSUME Quiet' PROVE Undisturbed'
  <2>1. Quiet
    BY <1>3, <1>9 DEF Quiet
  <2> QED
    BY <1>1, <1>6, <2>1, IntentFacts, NoneLeft DEF Undisturbed
<1>10. Undisturbed'
  BY <1>9 DEF Undisturbed
<1>11. causes' \in Nat
  BY <1>1, <1>2, IntentFacts
<1> QED
  BY <1>1, <1>3, <1>4, <1>5, <1>7, <1>8, <1>10, <1>11, IntentFacts, OutsideStep

LEMMA IntentStarts == Quickstart!Init => IntentInv
<1> SUFFICES ASSUME Quickstart!Init PROVE IntentInv
  OBVIOUS
<1>1. /\ campaign = <<>> /\ causes = 0 /\ request = [r \in Requests |-> Quickstart!NoRequest]
      /\ claim = [status |-> "none", campaign |-> 0, preset |-> NoPreset, aged |-> FALSE]
      /\ mishaps = [left |-> MaxMishaps, seen |-> {}]
  BY DEF Quickstart!Init, Quickstart!NoClaim
<1>2. campaign \in Seq(Rows) /\ Len(campaign) = 0 /\ DOMAIN campaign = {}
  BY <1>1, EmptySeq, LenProperties
<1>3. IntentTyped
  BY <1>1, <1>2, QuickstartConstants DEF IntentTyped, ClaimTypes, MishapTypes
<1>4. \A r \in Requests : RequestFits(request[r], campaign, claim) /\ ~Counts(request[r]) /\ request[r].at = "idle"
  BY <1>1, <1>2, QuickstartConstants
<1>5. Quickstart!Live = {}
  BY <1>4 DEF Quickstart!Live
<1>6. Excused
  <2>1. DOMAIN Loads(campaign, request) = {}
    BY <1>2 DEF Loads
  <2>2. Surplus = {}
    BY <2>1 DEF Surplus, SurplusOf
  <2> QED
    BY <1>1, <2>2, FS_EmptySet DEF Excused
<1> QED
  BY <1>1, <1>2, <1>3, <1>4, <1>5, <1>6 DEF IntentInv, ClaimFits, Undisturbed

LEMMA IntentStays == IntentInv /\ [Quickstart!Next]_intentVars => IntentInv'
<1> SUFFICES ASSUME IntentInv, [Quickstart!Next]_intentVars PROVE IntentInv'
  OBVIOUS
<1>1. ASSUME NEW r \in Requests, Quickstart!Submit(r) PROVE IntentInv'
  BY <1>1, ClaimKeepsIntent, ReplayKeepsIntent DEF Quickstart!Submit
<1>2. ASSUME NEW r \in Requests, Quickstart!Proceed(r) PROVE IntentInv'
  BY <1>2, PriorFoundKeepsIntent, PriorMissingKeepsIntent, SessionMadeKeepsIntent, AttachKeepsIntent,
     AttachDeletedKeepsIntent, CharacterMadeKeepsIntent, PartyJoinedKeepsIntent, CompleteKeepsIntent,
     AnswerKeepsIntent DEF Quickstart!Proceed
<1>3. CASE UNCHANGED intentVars
  <2>1. UNCHANGED <<claim, campaign, request, mishaps, causes>>
    BY <1>3 DEF intentVars
  <2>2. UNCHANGED <<Surplus, Free, Quickstart!Live, Quiet>>
    BY <2>1 DEF Surplus, Free, Quickstart!Live, Quiet
  <2>3. Undisturbed'
    BY <2>1, <2>2, IntentFacts DEF Undisturbed
  <2> QED
    BY <2>1, <2>2, <2>3 DEF IntentInv, IntentTyped, ClaimFits, Excused
<1> QED
  BY <1>1, <1>2, <1>3, CharacterRefusedKeepsIntent, FailKeepsIntent, DeleteKeepsIntent, AgeKeepsIntent,
     RestartKeepsIntent DEF Quickstart!Next

\* What is made beyond the first has a cause.
LEMMA DuplicatesHaveCauses == IntentInv => Quickstart!DuplicatesExcused
<1> SUFFICES ASSUME IntentInv PROVE Quickstart!Duplicates <= causes
  BY DEF Quickstart!DuplicatesExcused
<1> DEFINE extra == Quickstart!Extra
<1>1. extra \subseteq Surplus
  <2> SUFFICES ASSUME NEW c \in DOMAIN campaign, NEW n \in 2..campaign[c].heroes
               PROVE  <<c, n>> \in Surplus
    BY DEF Quickstart!Extra
  <2>1. /\ c \in DOMAIN Loads(campaign, request) /\ campaign[c].heroes \in Nat
        /\ Cardinality(Users(c, request)) \in Nat
        /\ Loads(campaign, request)[c] = campaign[c].heroes + Cardinality(Users(c, request))
    BY IntentFacts, LoadsTyped
  <2>2. n \in 2..Loads(campaign, request)[c]
    BY <2>1
  <2> QED
    BY <2>1, <2>2 DEF Surplus, SurplusOf
<1>2. /\ IsFiniteSet(Surplus) /\ Cardinality(Surplus) \in Nat /\ Len(campaign) \in Nat
      /\ Free \in {0, 1} /\ causes \in Nat
      /\ campaign # <<>> => Len(campaign) + Cardinality(Surplus) <= causes + Free
  BY IntentFacts, ExcusedFacts
<1>3. Cardinality(extra) \in Nat /\ Cardinality(extra) <= Cardinality(Surplus)
  BY <1>1, <1>2, FS_Subset, FS_CardinalityType
<1>4. Quickstart!Cardinality(extra) = Cardinality(extra)
  BY DEF Quickstart!Cardinality, Cardinality
<1> HIDE DEF extra, Free
<1>5. Quickstart!Duplicates = Quickstart!Beyond(Len(campaign)) + Cardinality(extra)
  BY <1>4 DEF Quickstart!Duplicates, extra
<1>6. CASE campaign = <<>>
  <2>1. Len(campaign) = 0 /\ DOMAIN campaign = {}
    BY <1>6, EmptySeq, IntentFacts
  <2>2. extra = {}
    BY <2>1 DEF extra, Quickstart!Extra
  <2>3. Cardinality(extra) = 0 /\ Quickstart!Beyond(Len(campaign)) = 0
    BY <2>1, <2>2, FS_EmptySet DEF Quickstart!Beyond
  <2> QED
    BY <1>2, <1>5, <2>3
<1>7. CASE campaign # <<>>
  <2>1. Len(campaign) # 0
    BY <1>7, IntentFacts
  <2>2. Quickstart!Beyond(Len(campaign)) = Len(campaign) - 1
    <3>1. \A n \in Nat \ {0} : Quickstart!Beyond(n) = n - 1
      BY DEF Quickstart!Beyond
    <3> QED
      BY <1>2, <2>1, <3>1
  <2> QED
    BY <1>2, <1>3, <1>5, <1>7, <2>2
<1> QED
  BY <1>6, <1>7

-----------------------------------------------------------------------------
(* Both, in one behaviour.                                                  *)

\* A behaviour is of one component, and keeps that component's invariant.
AccountsInv == part \in Parts /\ PassHolds /\ IntentHolds

LEMMA AccountsStart == Init => AccountsInv
  BY PassStarts, IntentStarts DEF Init, AccountsInv, PassHolds, IntentHolds

LEMMA AccountsStay == AccountsInv /\ [Next]_allVars => AccountsInv'
<1> SUFFICES ASSUME AccountsInv, [Next]_allVars PROVE AccountsInv'
  OBVIOUS
<1>1. part' = part
  BY DEF Next, allVars
<1>2. ASSUME part = "Quickstart" PROVE IntentInv'
  <2>1. [Quickstart!Next]_intentVars
    BY <1>2 DEF Next, allVars, intentVars
  <2> QED
    BY <1>2, <2>1, IntentStays DEF AccountsInv, IntentHolds
<1>3. ASSUME part = "Billing" PROVE PassInv'
  <2>1. [Billing!Next]_passVars
    BY <1>3 DEF Next, allVars, passVars
  <2> QED
    BY <1>3, <2>1, PassStays DEF AccountsInv, PassHolds
<1> QED
  BY <1>1, <1>2, <1>3 DEF AccountsInv, PassHolds, IntentHolds

\* In every behaviour, each component keeps the invariant above.
THEOREM AccountsInvariant == Spec => []AccountsInv
  BY AccountsStart, AccountsStay, PTL DEF Spec

\* The types of both components (the tables user_billing, quickstart_requests and
\* reference_engine_sessions, and the requests in progress), for every instance.
THEOREM TypeCorrect == Spec => []TypeOK
<1>1. IntentInv => Quickstart!TypeOK
  <2> SUFFICES ASSUME IntentInv PROVE Quickstart!TypeOK
    OBVIOUS
  <2>1. request \in [Requests -> [at : States, preset : Presets \cup {NoPreset}, campaign : 0..Len(campaign),
                                  done : BOOLEAN, earlier : Presets \cup {NoPreset}]]
    BY IntentFacts DEF RequestTypes, RequestFits
  <2>2. claim \in [status : {"none", "open", "claimed", "done"}, campaign : 0..Len(campaign),
                   preset : Presets \cup {NoPreset}, aged : BOOLEAN]
    BY IntentFacts DEF ClaimTypes
  <2>3. campaign \in Seq(Quickstart!Campaigns)
    BY IntentFacts DEF Rows, Quickstart!Campaigns
  <2>4. mishaps \in [left : 0..MaxMishaps,
                     seen : SUBSET {"slow", "unread", "refused", "failed", "deleted", "restarted"}]
    BY IntentFacts DEF MishapTypes, Kinds
  <2> QED
    BY <2>1, <2>2, <2>3, <2>4, IntentFacts DEF Quickstart!TypeOK, States
<1>2. PassInv => Billing!TypeOK
  <2> SUFFICES ASSUME PassInv PROVE Billing!TypeOK
    OBVIOUS
  <2>1. \A j \in Calls : call[j].at \in {"idle", "fetch", "decide", "compare"} /\ call[j].against \in 0..Billing!NoSub
    BY BillingConstants DEF PassInv, PassTyped, CallTypes
  <2> QED
    BY <2>1 DEF PassInv, PassTyped, PassTypes, RowTypes, Billing!TypeOK, Billing!None
<1>3. AccountsInv => TypeOK
  BY <1>1, <1>2 DEF AccountsInv, PassHolds, IntentHolds, TypeOK
<1> QED
  BY <1>3, AccountsInvariant, PTL

\* Repeating "play now" makes a second campaign or character only for a cause of
\* its own, keeps the preset, and calls an intent done only when it can be played;
\* the checkout guard offers no second pass: for every number of requests,
\* presets, calls, subscriptions and mishaps.
THEOREM NeverTwice == Spec => []NothingTwice
<1>1. IntentInv => /\ Quickstart!DuplicatesExcused
                   /\ Quickstart!PresetKept
                   /\ Quickstart!DoneMeansPlayable
  <2> SUFFICES ASSUME IntentInv PROVE Quickstart!PresetKept /\ Quickstart!DoneMeansPlayable
    BY DuplicatesHaveCauses
  <2>1. Quickstart!PresetKept
    BY DEF IntentInv, Quickstart!PresetKept
  <2>2. Quickstart!DoneMeansPlayable
    BY IntentFacts DEF Quickstart!DoneMeansPlayable, ClaimFits, Undisturbed, Quiet
  <2> QED
    BY <2>1, <2>2
<1>2. PassInv => Billing!NoSecondCheckout
  BY DEF PassInv, Billing!NoSecondCheckout
<1>3. AccountsInv => NothingTwice
  BY <1>1, <1>2 DEF AccountsInv, PassHolds, IntentHolds, NothingTwice
<1> QED
  BY <1>3, AccountsInvariant, PTL
=============================================================================
