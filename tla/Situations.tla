------------------------------ MODULE Situations ------------------------------
(***************************************************************************)
(* The one situation of a campaign (src/engine-situations.ts and its         *)
(* commands in src/engine-domain.ts), what the characters know of its facts  *)
(* and the pressure that grows with game time.                               *)
(*                                                                         *)
(* One revelation, linked to one truth, has several clues. Its role is       *)
(* preferably filled by a witness and otherwise by an object, which is also   *)
(* the critical object. Titles, goals and the projection for the player are   *)
(* left out; a check succeeds or fails at will, and the failure pressure of   *)
(* its clues is module Adjudication. Several commands of one turn plan may     *)
(* run before the campaign is stored and loaded again.                       *)
(*                                                                         *)
(* An operator named X_Y is X with a deliberate fault: it is never part of   *)
(* the specification, and only shows that a property can fail.               *)
(***************************************************************************)
EXTENDS Naturals

CONSTANTS
    Clues,
    Interval, MaxPressure, \* definition.pressure
    MaxTime, MaxRevision   \* bounds: game time, revisions of a fact

VARIABLES
    now,         \* time.gameTime
    sit,         \* situation: status, start, whether the hall was visited, outcome
    found,       \* clues[..].foundBy holds the hero
    revealed,    \* revelations[..].status = "revealed"
    role,        \* roles[..].status, as last reconciled
    object,      \* criticalObject as last reconciled: destroyed, owned
    pressure,    \* pressure: current, nextAdvanceAtMinutes, defaultDevelopmentApplied
    awake,       \* the witness is conscious and in the scene
    thing,       \* the critical object in the world: "intact", "owned" or "destroyed"
    facts,       \* worldFacts: revision (0 when there is none) and active
    knowledge,   \* actorKnowledge: who, which fact, at which revision, stale
    justified    \* ghost: the outcome chosen held when it was chosen

vars == <<now, sit, found, revealed, role, object, pressure, awake, thing, facts, knowledge, justified>>

Who == {"hero", "witness"}
Facts == Clues \cup {"truth"}
Outcomes == {"solve", "bargain", "overrun", "walk away"}
None == "none"

Init ==
    /\ now = 0
    /\ sit = [status |-> None, start |-> 0, hall |-> FALSE, outcome |-> None]
    /\ found = {} /\ revealed = FALSE
    /\ role = "impossible" /\ object = "intact"
    /\ pressure = [current |-> 0, next |-> 0, developed |-> FALSE]
    /\ awake = TRUE /\ thing = "intact"
    /\ facts = [f \in Facts |-> [rev |-> 0, active |-> FALSE]]
    /\ knowledge = {}
    /\ justified = TRUE

-----------------------------------------------------------------------------
(* Knowledge                                                                *)

\* appendKnowledgeRecord()
Learned(k, who, f) == k \cup {[who |-> who, fact |-> f, rev |-> facts[f].rev, stale |-> FALSE]}

Knows(who, f) == \E r \in knowledge : r.who = who /\ r.fact = f /\ ~r.stale

\* Only a removed fact makes what is known of it stale.
Stale_OnRemoval(changed) ==
    {IF facts'[r.fact].active THEN r ELSE [r EXCEPT !.stale = TRUE] : r \in knowledge}

\* markKnowledgeStale()
Stale(changed) ==
    {IF r.fact \in changed \/ r.rev # facts'[r.fact].rev THEN [r EXCEPT !.stale = TRUE] ELSE r : r \in knowledge}

-----------------------------------------------------------------------------
(* reconcileSituation()                                                     *)

RoleNow == IF awake' THEN "preferred" ELSE IF thing' # "destroyed" THEN "fallback" ELSE "impossible"

Reconciled ==
    /\ role' = IF sit.status = None THEN role ELSE RoleNow
    /\ object' = IF sit.status = None THEN object ELSE thing'

\* loadCampaign(): normalizeSituation()
Load ==
    /\ UNCHANGED <<awake, thing>>
    /\ Reconciled
    /\ UNCHANGED <<now, sit, found, revealed, pressure, facts, knowledge, justified>>

-----------------------------------------------------------------------------
(* The pressure clock, in advanceGameTime()                                  *)

\* Time that passes several boundaries at once counts as one.
Advances_Once(to) == 1

Advances(to) == (to - pressure.next) \div Interval + 1

Least(a, b) == IF a < b THEN a ELSE b

\* The pressure grows past its maximum.
Capped_Not(p) == p

Capped(p) == Least(MaxPressure, p)

AdvanceTo(to) ==
    /\ now' = to
    /\ pressure' =
         IF sit.status # "active" \/ to < pressure.next THEN pressure
         ELSE LET current == Capped(pressure.current + Advances(to))
              IN  [current |-> current, next |-> pressure.next + Advances(to) * Interval,
                   developed |-> pressure.developed \/ current = MaxPressure]

\* Travel, rest and the project take time; resolveSituationIgnore() one interval.
Pass(minutes) ==
    /\ now + minutes <= MaxTime
    /\ AdvanceTo(now + minutes)
    /\ UNCHANGED <<sit, found, revealed, role, object, awake, thing, facts, knowledge, justified>>

Ignore == sit.status = "active" /\ Pass(Interval)
TimePasses == \E minutes \in 1..MaxTime : Pass(minutes)

-----------------------------------------------------------------------------
(* The commands of the situation                                            *)

\* resolveSituationCreate(): the witness may know the truth from the start;
\* a removed fact of the same identity is a conflict.
Create(informed) ==
    /\ sit.status = None
    /\ \A f \in Facts : facts[f].rev > 0 => facts[f].active
    /\ sit' = [sit EXCEPT !.status = "active", !.start = now]
    /\ UNCHANGED <<awake, thing>>
    /\ role' = RoleNow /\ object' = thing
    /\ pressure' = [current |-> 0, next |-> now + Interval, developed |-> FALSE]
    /\ facts' = [f \in Facts |-> IF facts[f].rev = 0 THEN [rev |-> 1, active |-> TRUE] ELSE facts[f]]
    /\ knowledge' = IF informed
                    THEN knowledge \cup {[who |-> "witness", fact |-> "truth", rev |-> facts'["truth"].rev, stale |-> FALSE]}
                    ELSE knowledge
    /\ UNCHANGED <<now, found, revealed, justified>>

\* resolveSituationVisit(), and resolveMove() through an exit that names a node
Visit ==
    /\ sit.status = "active"
    /\ sit' = [sit EXCEPT !.hall = TRUE]
    /\ UNCHANGED <<now, found, revealed, role, object, pressure, awake, thing, facts, knowledge, justified>>

\* The facts of the clue that are active, now known to the hero.
Told(c) ==
    knowledge \cup UNION {IF facts[f].active THEN Learned({}, "hero", f) ELSE {} : f \in {c, "truth"}}

\* The clue of the hall needs a visit there.
Open(c) == sit.status = "active" /\ c \notin found /\ (c = "hall clue" => sit.hall)

\* resolveSituationClueAttempt()
ClueAttempt(c, success) ==
    /\ Open(c)
    /\ IF success
       THEN found' = found \cup {c} /\ revealed' = TRUE /\ knowledge' = Told(c)
       ELSE UNCHANGED <<found, revealed, knowledge>>
    /\ UNCHANGED <<now, sit, role, object, pressure, awake, thing, facts, justified>>

\* The witness knows the truth canonically.
Informed == Knows("witness", "truth")

\* resolveSituationClueAttempt() that names the witness as the source.
ClueFromWitness(c) ==
    /\ Open(c)
    /\ Informed
    /\ found' = found \cup {c} /\ revealed' = TRUE /\ knowledge' = Told(c)
    /\ UNCHANGED <<now, sit, role, object, pressure, awake, thing, facts, justified>>

\* What each outcome requires, of a role status and an object.
Allowed(o, r, x) ==
    CASE o = "solve" -> revealed /\ r \in {"preferred", "fallback"} /\ x # "destroyed"
      [] o = "bargain" -> revealed /\ r = "preferred"
      [] o = "overrun" -> pressure.current >= MaxPressure
      [] OTHER -> TRUE

\* The choice is measured on the situation as it was last reconciled.
Choose_Unreconciled(o) ==
    /\ sit.status = "active"
    /\ UNCHANGED <<awake, thing, role, object>>
    /\ Allowed(o, role, object)
    /\ justified' = Allowed(o, RoleNow, thing)
    /\ sit' = [sit EXCEPT !.status = "over", !.outcome = o]
    /\ UNCHANGED <<now, found, revealed, pressure, facts, knowledge>>

\* resolveSituationChoice() reconciles first.
Choose(o) ==
    /\ sit.status = "active"
    /\ UNCHANGED <<awake, thing>>
    /\ Reconciled
    /\ Allowed(o, role', object')
    /\ justified' = Allowed(o, RoleNow, thing)
    /\ sit' = [sit EXCEPT !.status = "over", !.outcome = o]
    /\ UNCHANGED <<now, found, revealed, pressure, facts, knowledge>>

-----------------------------------------------------------------------------
(* What happens around it                                                    *)

\* Combat, custody and NPC turns: the situation is not reconciled.
WitnessChanges ==
    /\ awake' = ~awake
    /\ UNCHANGED <<now, sit, found, revealed, role, object, pressure, thing, facts, knowledge, justified>>

\* resolveWorldObjectAffordance() and applyObjectChallengeResolution(): take,
\* drop or destroy the object; the situation is reconciled.
ObjectChanges ==
    /\ thing # "destroyed"
    /\ thing' \in {"intact", "owned", "destroyed"} \ {thing}
    /\ UNCHANGED awake
    /\ Reconciled
    /\ UNCHANGED <<now, sit, found, revealed, pressure, facts, knowledge, justified>>

\* resolveWorldContext() with a fact patch, or the world fact of a quest's
\* consequence; the patch reconciles the situation, the quest does not.
FactChanges(f, active, patch) ==
    /\ facts[f].rev \in 1..MaxRevision - 1
    /\ facts' = [facts EXCEPT ![f] = [rev |-> @.rev + 1, active |-> active]]
    /\ knowledge' = Stale({f})
    /\ UNCHANGED <<awake, thing>>
    /\ IF patch THEN Reconciled ELSE UNCHANGED <<role, object>>
    /\ UNCHANGED <<now, sit, found, revealed, pressure, justified>>

-----------------------------------------------------------------------------
Next ==
    \/ Load \/ Ignore \/ TimePasses \/ Visit
    \/ \E i \in BOOLEAN : Create(i)
    \/ \E c \in Clues : ClueFromWitness(c) \/ \E s \in BOOLEAN : ClueAttempt(c, s)
    \/ \E o \in Outcomes : Choose(o)
    \/ WitnessChanges \/ ObjectChanges
    \/ \E f \in Facts, a \in BOOLEAN, p \in BOOLEAN : FactChanges(f, a, p)

Spec == Init /\ [][Next]_vars

-----------------------------------------------------------------------------
TypeOK ==
    /\ now \in 0..MaxTime
    /\ sit.status \in {None, "active", "over"} /\ sit.outcome \in Outcomes \cup {None}
    /\ found \subseteq Clues
    /\ role \in {"preferred", "fallback", "impossible"}
    /\ pressure.current \in 0..MaxPressure
    /\ \A f \in Facts : facts[f].rev \in 0..MaxRevision

\* Whatever changed the facts, by a patch of the scene or the consequence of a
\* quest, a record that is not stale is of the fact as it is.
KnowledgeCurrent == \A r \in knowledge : ~r.stale => r.rev = facts[r.fact].rev

\* Game time that passes in any portions raises the pressure once for every
\* interval since the situation began.
PressureExact ==
    sit.status = "active" =>
        /\ pressure.current = Least(MaxPressure, (now - sit.start) \div Interval)
        /\ pressure.developed = (pressure.current = MaxPressure)
        /\ pressure.next > now

\* An outcome that needed the witness or the object was chosen when they were
\* there, whatever befell them earlier in the same plan.
OutcomeJustified == justified

=============================================================================
