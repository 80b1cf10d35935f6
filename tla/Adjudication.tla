---------------------------- MODULE Adjudication -----------------------------
(***************************************************************************)
(* The reviewed challenges of src/engine-domain.ts: what is remembered of    *)
(* attempts, the pressure of repeated failures, and the effects bound to a   *)
(* success (a lock, a hidden fact, an object in somebody's hands).           *)
(*                                                                         *)
(* The commands of one turn plan all see the version the plan began with;    *)
(* Stored is the moment the plan becomes one commit. A plan that is given up  *)
(* leaves the stored campaign alone and is therefore a shorter behaviour.     *)
(* Rolls succeed or fail at will; modifiers, costs and texts are left out.    *)
(*                                                                         *)
(* An operator named X_Y is X with a deliberate fault: it is never part of   *)
(* the specification, and only shows that a property can fail.               *)
(***************************************************************************)
EXTENDS Naturals

CONSTANTS
    Places,      \* scenes a challenge without a target may name
    Approaches,  \* normalized approaches
    Held,        \* objects in the hands of an established character
    Threshold,   \* FAILURE_PRESSURE_THRESHOLD
    Scripts,     \* bound: the sets of challenges, one of which a campaign attempts
    MaxSteps     \* bound: commands of one plan

VARIABLES
    script,      \* the challenges attempted in this campaign
    strain,      \* failurePressures: challenge -> scene and count
    planned,     \* adjudicationHistory: the attempts of the plan under way
    stored,      \* adjudicationHistory: the attempts of the last commit
    contest,     \* the last entry of the history when it belongs to this plan
    steps,       \* commands of the plan so far
    lock,        \* the state of the chest
    known,       \* the hidden fact is known at its revision
    fighting,    \* combat.status = "active"
    holder,      \* object -> "other" or "hero" or "nobody"
    streak,      \* ghost: failures of a challenge in a scene, one after the other
    won          \* ghost: objects for which the latest contest of this plan was won

vars == <<script, strain, planned, stored, contest, steps, lock, known, fighting, holder, streak, won>>

\* REVIEWED_CHALLENGE_DEFINITIONS that a roll decides, and the plain stealth
\* check, which has a pressure of its own.
Challenges == {"barred-door", "pick-lock", "search", "stealth", "seize", "stealth-check"}
Chest == "chest"
Scenes == Places \cup {Chest} \cup Held
None == "none"

Init ==
    /\ script \in Scripts
    /\ strain = [c \in Challenges |-> [scene |-> None, count |-> 0]]
    /\ planned = {} /\ stored = {}
    /\ contest = <<>> /\ steps = 0
    /\ lock = "locked" /\ known = FALSE /\ fighting = FALSE
    /\ holder = [o \in Held |-> "other"]
    /\ streak = [c \in Challenges |-> 0]
    /\ won = {}

-----------------------------------------------------------------------------
\* applyFailurePressure() of a failure: it supersedes the pressure of another scene.
Strained(c, s) ==
    [scene |-> s,
     count |-> IF strain[c].scene # s THEN 1
               ELSE IF strain[c].count = Threshold THEN Threshold ELSE strain[c].count + 1]

\* applyFailurePressure() of a success: only the pressure of its scene goes.
Eased(c, s) == IF strain[c].scene = s THEN [scene |-> None, count |-> 0] ELSE strain[c]

\* The pressure is only looked at when the attempt was the last one.
Compromised_IfRecent(c, s) ==
    strain[c].scene = s /\ strain[c].count = Threshold /\ \E a \in planned \cup stored : a.challenge = c

\* failurePressureFor() is "compromised".
Compromised(c, s) == strain[c].scene = s /\ strain[c].count = Threshold

Pressed(c, s, ok) ==
    /\ strain' = [strain EXCEPT ![c] = IF ok THEN Eased(c, s) ELSE Strained(c, s)]
    /\ streak' = [streak EXCEPT ![c] =
                     IF ok THEN (IF strain[c].scene = s THEN 0 ELSE @)
                     ELSE IF strain[c].scene = s THEN @ + 1 ELSE 1]

Step == steps < MaxSteps /\ steps' = steps + 1

\* resolveChallengeAttempt() up to the roll, and appendAdjudicationAttempt():
\* the same approach is refused when it was tried in the last commit or in
\* this plan.
Attempt(c, s, a, ok) ==
    LET try == [challenge |-> c, scene |-> s, approach |-> a]
    IN  /\ c \in script /\ Step
        /\ ~Compromised(c, s)
        /\ try \notin planned \cup stored
        /\ planned' = planned \cup {try}
        /\ contest' = <<c, s, ok>>
        /\ Pressed(c, s, ok)
        /\ won' = IF c = "seize" /\ s \in Held
                  THEN IF ok THEN won \cup {s} ELSE won \ {s}
                  ELSE won
        /\ UNCHANGED <<script, stored>>

\* "barred-door-v1" needs the target once there is a locked object that opens;
\* the chest of this scene only unlocks.
BarredDoor(s, a, ok) ==
    /\ Attempt("barred-door", s, a, ok)
    /\ UNCHANGED <<lock, known, fighting, holder>>

\* "pick-lock-v1" on the chest, with applyObjectChallengeResolution()
PickLock(a, ok) ==
    /\ lock = "locked"
    /\ Attempt("pick-lock", Chest, a, ok)
    /\ lock' = IF ok THEN "unlocked" ELSE lock
    /\ UNCHANGED <<known, fighting, holder>>

\* "search-hidden-fact-v1", with applySearchDiscoveryResolution()
Search(s, a, ok) ==
    /\ ~known
    /\ Attempt("search", s, a, ok)
    /\ known' = ok
    /\ UNCHANGED <<lock, fighting, holder>>

\* "stealth-perception-v1": resolveOpposedCheck() against a living opponent
Stealth(s, a, ok) ==
    /\ fighting
    /\ Attempt("stealth", s, a, ok)
    /\ UNCHANGED <<lock, known, fighting, holder>>

\* "seize-held-object-v1" in a scene the caller names
Seize(s, a, ok) ==
    /\ Attempt("seize", s, a, ok)
    /\ UNCHANGED <<lock, known, fighting, holder>>

\* "ordinary-unlocked-door-v1" opens without a roll and is still remembered.
OpenDoor(s, a) ==
    LET try == [challenge |-> "ordinary-door", scene |-> s, approach |-> a]
    IN  /\ Step
        /\ planned' = planned \cup {try}
        /\ contest' = <<"ordinary-door", s, TRUE>>
        /\ UNCHANGED <<script, strain, stored, lock, known, fighting, holder, streak, won>>

\* resolveCheck() of a stealth roll_check: pressure without a remembered attempt
StealthCheck(s, ok) ==
    /\ "stealth-check" \in script /\ Step
    /\ ~Compromised("stealth-check", s)
    /\ Pressed("stealth-check", s, ok)
    /\ UNCHANGED <<script, planned, stored, contest, lock, known, fighting, holder, won>>

\* The contest of an earlier turn is good enough.
Contested_Ever(o) == <<"seize", o, TRUE>> = contest \/ \E a \in stored : a.challenge = "seize" /\ a.scene = o

\* heldObjectTransferRejection(): the last attempt of all, of this plan
Contested(o) == contest = <<"seize", o, TRUE>>

\* resolveWorldObjectAffordance(): take, steal, move, carry, throw and drop
Take(o) ==
    /\ holder[o] # "hero"
    /\ holder[o] = "other" => Contested(o)
    /\ Step
    /\ holder' = [holder EXCEPT ![o] = "hero"]
    /\ UNCHANGED <<script, strain, planned, stored, contest, lock, known, fighting, streak, won>>

Move(o) ==
    /\ holder[o] = "other" => Contested(o)
    /\ Step
    /\ holder' = [holder EXCEPT ![o] = "nobody"]
    /\ UNCHANGED <<script, strain, planned, stored, contest, lock, known, fighting, streak, won>>

\* Any other command: a lock closes again, the fact is revised, a fight begins
\* or ends, a patch puts an object back in other hands.
Other ==
    /\ Step
    /\ \/ lock' = "locked" /\ UNCHANGED <<known, fighting, holder>>
       \/ known' = FALSE /\ UNCHANGED <<lock, fighting, holder>>
       \/ "stealth" \in script /\ fighting' = ~fighting /\ UNCHANGED <<lock, known, holder>>
       \/ \E o \in Held : holder' = [holder EXCEPT ![o] = "other"] /\ UNCHANGED <<lock, known, fighting>>
    /\ UNCHANGED <<script, strain, planned, stored, contest, streak, won>>

\* compileAtomicTurnResolution(): the plan is one commit.
Stored ==
    /\ steps > 0
    /\ stored' = planned /\ planned' = {}
    /\ contest' = <<>> /\ steps' = 0 /\ won' = {}
    /\ UNCHANGED <<script, strain, lock, known, fighting, holder, streak>>

Next ==
    \/ Stored \/ Other
    \/ \E o \in Held : Take(o) \/ Move(o)
    \/ \E s \in Places, ok \in BOOLEAN : StealthCheck(s, ok)
    \/ \E a \in Approaches, ok \in BOOLEAN :
          \/ PickLock(a, ok)
          \/ \E s \in Places : BarredDoor(s, a, ok) \/ Search(s, a, ok) \/ Stealth(s, a, ok)
          \/ \E s \in Places \cup Held : Seize(s, a, ok)
    \/ \E s \in Places, a \in Approaches : OpenDoor(s, a)

Spec == Init /\ [][Next]_vars

-----------------------------------------------------------------------------
TypeOK ==
    /\ \A c \in Challenges : strain[c].scene \in Scenes \cup {None} /\ strain[c].count \in 0..Threshold
    /\ steps \in 0..MaxSteps
    /\ lock \in {"locked", "unlocked"}
    /\ holder \in [Held -> {"other", "hero", "nobody"}]
    /\ won \subseteq Held

\* As many failures in a row in one scene as the threshold says compromise the
\* approach there for good: whatever else the plan or later plans attempt, no
\* further failure of the same challenge follows in that scene.
FailuresEnd == \A c \in Challenges : streak[c] <= Threshold

\* An object leaves the hands of its holder only in the plan that won the
\* contest for that very object, never on a contest of an earlier turn or for
\* another object.
SeizedByContest == \A o \in Held : holder[o] = "other" /\ holder'[o] # "other" => o \in won
=============================================================================
