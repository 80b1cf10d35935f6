----------------------------- MODULE MCAccounts -----------------------------
(*****************************************************************************)
(* What an account goes through before it plays: the intent to play now,    *)
(* and the Player Pass. Each behaviour is of one of the two, chosen by part, *)
(* while the other is idle: they share no state in the model, and one run   *)
(* explores both.                                                           *)
(*****************************************************************************)
EXTENDS Naturals, FiniteSets

CONSTANTS
    Requests, Presets, NoPreset, MaxMishaps,            \* of module Quickstart
    Calls, Last, MaxPeriod, MaxEvents, MaxFailures      \* of module Billing

ASSUME AccountsAssumption ==
    /\ IsFiniteSet(Requests)
    /\ NoPreset \notin Presets
    /\ {MaxMishaps, Last, MaxPeriod, MaxEvents, MaxFailures} \subseteq Nat
    /\ MaxPeriod > 0

VARIABLES
    part,  \* the component this behaviour is of
    claim, campaign, request, mishaps, causes,
    stripe, period, row, call, emitted, acked, recorded, blocked, failures, offered

Quickstart == INSTANCE Quickstart

Billing == INSTANCE Billing

Parts == {"Quickstart", "Billing"}

\* A component that this behaviour is not of.
Idle(v) == v = "idle"

Init ==
    /\ part \in Parts
    /\ IF part = "Quickstart" THEN Quickstart!Init
       ELSE Idle(claim) /\ Idle(campaign) /\ Idle(request) /\ Idle(mishaps) /\ Idle(causes)
    /\ IF part = "Billing" THEN Billing!Init
       ELSE Idle(stripe) /\ Idle(period) /\ Idle(row) /\ Idle(call) /\ Idle(emitted) /\
            Idle(acked) /\ Idle(recorded) /\ Idle(blocked) /\ Idle(failures) /\
            Idle(offered)

Next ==
    /\ UNCHANGED part
    /\ IF part = "Quickstart" THEN Quickstart!Next
       ELSE UNCHANGED <<claim, campaign, request, mishaps, causes>>
    /\ IF part = "Billing" THEN Billing!Next
       ELSE UNCHANGED <<stripe, period, row, call, emitted, acked, recorded, blocked,
                        failures, offered>>

allVars == <<part, claim, campaign, request, mishaps, causes, stripe, period, row, call,
             emitted, acked, recorded, blocked, failures, offered>>

-----------------------------------------------------------------------------
(* What is checked of each component, by theme.                             *)

\* Fairness, as justified in the two modules: a step of this component, while the
\* behaviour is of it.
IntentMoves(A) == part = "Quickstart" /\ A
PassMoves(A) == part = "Billing" /\ A
intentVars == <<claim, campaign, request, mishaps, causes>>
passVars == <<stripe, period, row, call, emitted, acked, recorded, blocked, failures, offered>>

Fairness ==
    /\ \A r \in Requests : /\ WF_intentVars(IntentMoves(Quickstart!Proceed(r)))
                           /\ WF_intentVars(IntentMoves(Quickstart!Submit(r)))
    /\ WF_intentVars(IntentMoves(Quickstart!Age))
    /\ \A j \in Calls : WF_passVars(PassMoves(Billing!Proceed(j)))
    /\ SF_passVars(PassMoves(Billing!Redeliver))
    /\ SF_passVars(PassMoves(Billing!Load))

Spec == Init /\ [][Next]_allVars /\ Fairness

\* Both keep their types.
TypeOK ==
    /\ part = "Quickstart" => Quickstart!TypeOK
    /\ part = "Billing" => Billing!TypeOK

\* However requests, failures, deletions, restarts and take-overs interleave, a
\* second campaign or character has a cause of its own, the preset is the one the
\* campaign was made for, and an intent that is done can be played; and the guard
\* offers no Checkout over a pass that Stripe has in force, short of a row marked
\* missing (claimQuickstartRequest(), resolveCheckoutGuard()).
NothingTwice ==
    /\ part = "Quickstart" =>
          /\ Quickstart!DuplicatesExcused
          /\ Quickstart!PresetKept
          /\ Quickstart!DoneMeansPlayable
    /\ part = "Billing" => Billing!NoSecondCheckout

\* A claim is never stuck: in the end the player has a campaign.
EveryIntentDone == <>(part = "Quickstart" => claim.status = "done")

\* In the end every event of Stripe is acknowledged, and a pass that was
\* cancelled does not entitle beyond the period it is paid for.
EventsLand == <>[](part = "Billing" => Billing!Acknowledged /\ Billing!PaidFor)
=============================================================================
