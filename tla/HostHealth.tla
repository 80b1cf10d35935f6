----------------------------- MODULE HostHealth -----------------------------
(***************************************************************************)
(* The readiness the web host reports (GET /api/health, src/server.ts): from     *)
(* what its turns came to (TurnHealth, src/turn-failure.ts), from a check of the   *)
(* provider's key that is kept for a while, and from the engine. Health requests   *)
(* overlap, and one may keep an answer older than another's.                        *)
(*                                                                         *)
(* An operator named X_Y is X with a deliberate fault: it is never part of   *)
(* the specification, and only shows that a property can fail.               *)
(***************************************************************************)
EXTENDS Naturals

CONSTANTS
    Checks,     \* health requests
    Ttl,        \* PROVIDER_CHECK_TTL_MS, in the units a call may take
    Threshold,  \* READINESS_FAILURE_THRESHOLD
    MaxTime     \* bound

VARIABLES
    up,        \* the provider's key works
    lastUp,    \* when it last did
    kept,      \* providerCheck
    check,     \* the requests
    faults,    \* TurnHealth.consecutiveFailures
    now

vars == <<up, lastUp, kept, check, faults, now>>

NoCheck == [step |-> "idle", since |-> 0, ok |-> FALSE, faults |-> 0, ready |-> FALSE]

Init ==
    /\ up \in BOOLEAN
    /\ lastUp = 0
    /\ kept = [there |-> FALSE, at |-> 0, ok |-> FALSE]
    /\ check = [h \in Checks |-> NoCheck]
    /\ faults = 0
    /\ now = 0

-----------------------------------------------------------------------------
(* Turns                                                                     *)

\* recordSuccess()
TurnCompletes ==
    /\ faults' = 0
    /\ UNCHANGED <<up, lastUp, kept, check, now>>

\* recordFailure(): a player's own quota, a stale version or a repeated command is no fault
\* of the system and does not move it.
TurnFaults ==
    /\ faults < Threshold
    /\ faults' = faults + 1
    /\ UNCHANGED <<up, lastUp, kept, check, now>>

-----------------------------------------------------------------------------
(* The provider's check                                                      *)

ProviderMoves ==
    /\ up' = ~up
    /\ lastUp' = now
    /\ UNCHANGED <<kept, check, faults, now>>

\* A check is kept until the one after it, however old.
Fresh_Always == kept.there

Fresh == kept.there /\ now < kept.at + Ttl

Step(h, place) == check[h].step = place
Reading(h, ok) == [check[h] EXCEPT !.step = "engine", !.since = now, !.ok = ok, !.faults = faults]

\* providerReadiness(): the check that is kept, or one that is sent now; the health of
\* turns is read after it.
Ask(h) ==
    /\ Step(h, "idle")
    /\ check' = [check EXCEPT ![h] = IF Fresh THEN Reading(h, kept.ok)
                                      ELSE [@ EXCEPT !.step = "provider", !.since = now]]
    /\ UNCHANGED <<up, lastUp, kept, faults, now>>

\* The provider looks at the key, or the call fails.
ProviderAnswers(h) ==
    /\ Step(h, "provider")
    /\ \E answered \in BOOLEAN : check' = [check EXCEPT ![h].step = "heard", ![h].ok = answered /\ up]
    /\ UNCHANGED <<up, lastUp, kept, faults, now>>

\* What it said is kept with the time the host hears it.
Keep(h) ==
    /\ Step(h, "heard")
    /\ kept' = [there |-> TRUE, at |-> now, ok |-> check[h].ok]
    /\ check' = [check EXCEPT ![h] = Reading(h, check[h].ok)]
    /\ UNCHANGED <<up, lastUp, faults, now>>

Report(h) ==
    /\ Step(h, "engine")
    /\ \E engine \in BOOLEAN :
          check' = [check EXCEPT ![h].step = "told",
                                 ![h].ready = engine /\ check[h].ok /\ check[h].faults < Threshold]
    /\ UNCHANGED <<up, lastUp, kept, faults, now>>

AskAgain(h) ==
    /\ Step(h, "told")
    /\ check' = [check EXCEPT ![h] = NoCheck]
    /\ UNCHANGED <<up, lastUp, kept, faults, now>>

\* The provider and the engine are waited for one unit each.
Tick ==
    /\ now < MaxTime
    /\ \A h \in Checks : check[h].step \in {"idle", "told"} \/ check[h].since = now
    /\ now' = now + 1
    /\ lastUp' = IF up THEN now + 1 ELSE lastUp
    /\ check' = [h \in Checks |-> IF Step(h, "told") THEN NoCheck ELSE check[h]]
    /\ UNCHANGED <<up, kept, faults>>

Next ==
    \/ TurnCompletes \/ TurnFaults \/ ProviderMoves \/ Tick
    \/ \E h \in Checks : Ask(h) \/ ProviderAnswers(h) \/ Keep(h) \/ Report(h) \/ AskAgain(h)

Spec == Init /\ [][Next]_vars

-----------------------------------------------------------------------------
(* Properties                                                               *)

TypeOK ==
    /\ lastUp \in 0..MaxTime /\ now \in 0..MaxTime
    /\ kept.at \in 0..now
    /\ \A h \in Checks : check[h].step \in {"idle", "provider", "heard", "engine", "told"}
                         /\ check[h].faults \in 0..Threshold
    /\ faults \in 0..Threshold

\* A host that reports itself ready has heard the provider say so no longer ago than a
\* check is kept and the calls take, whichever of the overlapping requests kept it.
ReadyIsRecent == \A h \in Checks : check[h].ready => lastUp + Ttl + 1 >= now
=============================================================================
