------------------------------- MODULE DmTurn -------------------------------
(***************************************************************************)
(* One turn of the Lantern dungeon master: the planner's tool loop stages  *)
(* provisional effects, each resolved on the state the earlier ones left,  *)
(* and asks the provider to repair what its answer got wrong, each kind of *)
(* mistake once; the surviving effects are committed as one atomic plan    *)
(* whose state is the state after the last of them, and a separate public  *)
(* narrator tells the result. What the provider answers is any of the      *)
(* shapes the loop tells apart; the texts are left out.                    *)
(***************************************************************************)
EXTENDS Naturals, Sequences, FiniteSets, FiniteSetsExt

CONSTANTS Modes,       \* a subset of {"player_turn", "opening"}
          Objects,     \* what the player's text does to an object: a subset
                       \* of {"none", "object-action", "held-transfer"}
          Clauses,     \* the intents a compound text may have
          MaxTurns,    \* tool rounds of one turn (8 in the code)
          MaxEffects,  \* effects of one plan (16 in the code)
          MaxCalls     \* bound on accepted calls of one round

VARIABLES mode, object, search, clauses,  \* the request
          staged,      \* effects staged since the last discarded plan
          turns,       \* tool rounds used
          tried,       \* the repairs already asked for
          pending,     \* repairPending: a narration repair is asked for
          phase,       \* where the turn is
          kept,        \* positions in staged that go into the plan
          unresolved,  \* intent clauses the plan could not cover
          drafts,      \* narrator drafts rejected
          told         \* who wrote the released narration

vars == <<mode, object, search, clauses, staged, turns, tried, pending, phase,
          kept, unresolved, drafts, told>>

CheckKinds == {"roll", "contest", "clue"}
Outcomes == {"success", "failure"}
Repairs == {"intent", "object", "consequence", "narration", "search", "notice"}

Effect(kind, outcome, source) == [kind |-> kind, outcome |-> outcome, source |-> source]

Effects == {Effect(kind, outcome, 0) : kind \in CheckKinds, outcome \in Outcomes}
      \cup {Effect(kind, "none", 0) : kind \in {"move", "take", "world"}}
      \cup {Effect("scene", outcome, i) : outcome \in Outcomes, i \in 1..MaxEffects}

\* derivePlayerIntentClauses: a text with one clause needs no coverage.
Intents == {c \in SUBSET Clauses : Cardinality(c) /= 1}

\* detectObjectTurnIntent: an opening has no scene yet, hence no objects.
ObjectIntents == IF mode = "opening" THEN {"none"} ELSE Objects

Init ==
  /\ mode \in Modes
  /\ object \in ObjectIntents
  /\ search \in BOOLEAN
  /\ clauses \in (IF mode = "opening" THEN {{}} ELSE Intents)
  /\ staged = <<>> /\ turns = 0 /\ tried = {} /\ pending = FALSE
  /\ phase = "planning" /\ kept = {} /\ unresolved = {}
  /\ drafts = 0 /\ told = "nobody"

Request == <<mode, object, search, clauses>>

-----------------------------------------------------------------------------
(* What the loop sees in a plan.                                           *)
-----------------------------------------------------------------------------
\* uncoveredPlanClauses: an intent counts when any effect of its sort is there.
Covers(kind, clause) ==
  CASE clause = "movement" -> kind \in {"move", "world"}
    [] clause = "search" -> kind \in {"contest", "clue", "world", "scene"}
    [] clause = "interaction" -> kind \notin {"move", "world"}
    [] OTHER -> TRUE

Uncovered(effects) ==
  {c \in clauses : \A i \in DOMAIN effects : ~Covers(effects[i].kind, c)}

\* checkHasCommittedConsequence, hasConcreteLaterConsequence: a check is
\* resolved by the knowledge it commits, by a scene move bound to it, or by
\* any later effect that changes more than the record of rolls.
Consequence(effects, i) ==
  \/ effects[i].kind = "clue" /\ effects[i].outcome = "success"
  \/ \E j \in i + 1..Len(effects) :
       \/ effects[j].kind = "scene" /\ effects[j].source = i
       \/ effects[j].kind \in {"move", "take", "world"}

Orphans(effects) ==
  {i \in DOMAIN effects : effects[i].kind \in CheckKinds /\ ~Consequence(effects, i)}

\* A mutant of Undiscarded: only the orphaned checks themselves are dropped.
Undiscarded_Others(effects) == DOMAIN effects \ Orphans(effects)

\* discardUnresolvedChecks: the plan up to the first orphaned check.
Undiscarded(effects) ==
  IF Orphans(effects) = {} THEN DOMAIN effects ELSE 1..Min(Orphans(effects)) - 1

\* objectTurnResolved
ObjectResolved(effects) ==
  \/ object = "none"
  \/ /\ object = "object-action"
     /\ \E i \in DOMAIN effects : effects[i].kind = "take"
  \/ /\ object = "held-transfer"
     /\ \E i \in DOMAIN effects :
          /\ effects[i].kind = "contest"
          /\ \A j \in 1..i - 1 : effects[j].kind /= "contest"
          /\ \/ effects[i].outcome = "failure"
             \/ \E j \in DOMAIN effects : effects[j].kind = "take"

\* After a second prose-only answer a contest that was won is not committed.
ObjectKept(effects) ==
  {i \in DOMAIN effects :
     object = "held-transfer" =>
       ~(effects[i].kind = "contest" /\ effects[i].outcome = "success")}

-----------------------------------------------------------------------------
(* Ends of the loop.                                                       *)
-----------------------------------------------------------------------------
Finish(positions, missing) ==
  /\ phase' = "planned"
  /\ kept' = positions
  /\ unresolved' = missing
  /\ UNCHANGED <<Request, staged, turns, tried, pending, drafts, told>>

Throw ==
  /\ phase' = "thrown"
  /\ UNCHANGED <<Request, staged, turns, tried, pending, kept, unresolved, drafts, told>>

Asking == phase = "planning" /\ (turns < MaxTurns \/ pending)

\* One more request with the instruction of a repair; it takes a tool round
\* unless a narration repair is pending.
Round == IF pending THEN turns ELSE turns + 1

Repair(kind, effects, waiting) ==
  /\ tried' = tried \cup {kind}
  /\ staged' = effects
  /\ pending' = waiting
  /\ turns' = Round
  /\ UNCHANGED <<Request, phase, kept, unresolved, drafts, told>>

ProviderFails ==
  /\ Asking
  /\ IF pending THEN Finish(DOMAIN staged, {})
     ELSE IF staged = <<>> THEN Throw
     ELSE Finish(IF mode = "player_turn" THEN Undiscarded(staged)
                                         ELSE DOMAIN staged, {})

-----------------------------------------------------------------------------
(* An answer without tool calls, in the order it is examined.              *)
-----------------------------------------------------------------------------
AnswerUncovered ==
  /\ Asking
  /\ Uncovered(staged) /= {}
  /\ IF "intent" \in tried THEN Finish({}, Uncovered(staged))
     ELSE Repair("intent", <<>>, pending)

AnswerObjectOpen ==
  /\ Asking
  /\ Uncovered(staged) = {}
  /\ ~ObjectResolved(staged)
  /\ IF "object" \in tried THEN Finish(ObjectKept(staged), {})
     ELSE Repair("object", staged, pending)

\* A mutant of Orphaned: after the repair the rest is taken as it is.
Orphaned_Once ==
  mode = "player_turn" /\ "consequence" \notin tried /\ Orphans(staged) /= {}

Orphaned == mode = "player_turn" /\ Orphans(staged) /= {}

AnswerOrphans ==
  /\ Asking
  /\ Uncovered(staged) = {} /\ ObjectResolved(staged)
  /\ Orphaned
  /\ IF "consequence" \in tried THEN Finish(Undiscarded(staged), {})
     ELSE Repair("consequence", staged, pending)

\* From here on the plan is whole and only the narration may be wrong: not
\* the agreed envelope, an unauthorised find of a search, or a notice that
\* has no record.
Whole == Uncovered(staged) = {} /\ ObjectResolved(staged) /\ ~Orphaned

\* What is asked for once, and let go the second time.
AskedOnce(kind, waiting) ==
  /\ Asking
  /\ Whole
  /\ IF kind \in tried THEN Finish(DOMAIN staged, {}) ELSE Repair(kind, staged, waiting)

\* validateNarration: no envelope, or the planner's own instructions in it.
AnswerMalformed == AskedOnce("narration", TRUE)

\* A search that found what nobody had authorized.
AnswerInventsFind == search /\ AskedOnce("search", pending)

\* A formal notice, or a copy of one, of which there is no record.
AnswerInventsNotice == AskedOnce("notice", pending)

AnswerGood ==
  /\ Asking
  /\ Whole
  /\ Finish(DOMAIN staged, {})

-----------------------------------------------------------------------------
(* An answer with tool calls.                                              *)
-----------------------------------------------------------------------------
\* A mutant of Bindable: any earlier check may be cited for any outcome.
Bindable_AnyOutcome(effect, effects, visible) ==
  effect.kind = "scene" =>
    /\ effect.source <= visible
    /\ effects[effect.source].kind \in CheckKinds

\* validateSceneMoveBinding: the check of an earlier round, as it came out.
Bindable(effect, effects, visible) ==
  effect.kind = "scene" =>
    /\ effect.source <= visible
    /\ effects[effect.source].kind \in CheckKinds
    /\ effects[effect.source].outcome = effect.outcome

\* What the rules accept: an object held by another is taken after a contest
\* that was won.
Possible(effect, effects) ==
  (effect.kind = "take" /\ object /= "object-action") =>
    \E i \in DOMAIN effects : effects[i].kind = "contest" /\ effects[i].outcome = "success"

\* What one round of accepted calls may add to the plan; refused calls and reads
\* add nothing.
Additions ==
  {more \in UNION {[1..n -> Effects] : n \in 0..MaxCalls} :
     /\ Len(staged) + Len(more) <= MaxEffects
     /\ \A i \in 1..Len(more) : /\ Bindable(more[i], staged, Len(staged))
                                /\ Possible(more[i], staged \o SubSeq(more, 1, i - 1))}

ToolRound ==
  /\ Asking
  /\ \E more \in Additions :
       LET effects == staged \o more
           lost == mode = "player_turn" /\ effects /= staged /\ Uncovered(effects) /= {}
       IN  IF lost /\ "intent" \in tried
           THEN /\ staged' = <<>> /\ pending' = FALSE /\ turns' = Round
                /\ phase' = "planned" /\ unresolved' = Uncovered(effects)
                /\ UNCHANGED <<Request, tried, kept, drafts, told>>
           ELSE /\ staged' = (IF lost THEN <<>> ELSE effects)
                /\ tried' = (IF lost THEN tried \cup {"intent"} ELSE tried)
                /\ pending' = FALSE
                /\ turns' = Round
                /\ UNCHANGED <<Request, phase, kept, unresolved, drafts, told>>

\* A round of capability_load calls only gives its tool round back.
LoadRound ==
  /\ Asking
  /\ turns' = (IF pending /\ turns > 0 THEN turns - 1 ELSE turns)
  /\ pending' = FALSE
  /\ UNCHANGED <<Request, staged, tried, phase, kept, unresolved, drafts, told>>

OutOfRounds ==
  /\ phase = "planning" /\ ~(turns < MaxTurns \/ pending)
  /\ IF staged = <<>> THEN Throw
     ELSE IF mode = "player_turn" /\ Uncovered(staged) /= {}
     THEN Finish({}, Uncovered(staged))
     ELSE Finish(IF mode = "player_turn" THEN Undiscarded(staged)
                                         ELSE DOMAIN staged, {})

-----------------------------------------------------------------------------
(* Commit and release.                                                     *)
-----------------------------------------------------------------------------
\* An opening needs a world context; a turn without effects is a declaration.
Commit ==
  /\ phase = "planned"
  /\ phase' = (IF mode = "opening" /\ \A i \in kept : staged[i].kind /= "world"
               THEN "thrown" ELSE "committed")
  /\ UNCHANGED <<Request, staged, turns, tried, pending, kept, unresolved, drafts, told>>

\* A player's turn falls back to a command read off the text; an opening fails.
FallBack ==
  /\ phase = "thrown"
  /\ phase' = "done"
  /\ kept' = {}
  /\ told' = (IF mode = "player_turn" THEN "rules" ELSE "nobody")
  /\ UNCHANGED <<Request, staged, turns, tried, pending, unresolved, drafts>>

\* A mutant of Narratable: what the plan did not resolve is narrated too.
Narratable_Unresolved == phase = "committed" /\ drafts < 2

\* The public narrator has two attempts, and none at a turn not resolved.
Narratable == phase = "committed" /\ unresolved = {} /\ drafts < 2

\* A draft outside its schema, or one that leaves out a clause of the text.
DraftRejected ==
  /\ Narratable
  /\ drafts' = drafts + 1
  /\ UNCHANGED <<Request, staged, turns, tried, pending, phase, kept, unresolved, told>>

\* A draft bound to the committed event and true to its checks is released.
ReleaseDraft ==
  /\ Narratable
  /\ told' = "llm"
  /\ phase' = "done"
  /\ UNCHANGED <<Request, staged, turns, tried, pending, kept, unresolved, drafts>>

\* Otherwise the rules speak: a turn not resolved, two rejected drafts, no
\* answer, an unbound draft, or one that contradicts a check.
ReleaseRules ==
  /\ phase = "committed"
  /\ told' = "rules"
  /\ phase' = "done"
  /\ UNCHANGED <<Request, staged, turns, tried, pending, kept, unresolved, drafts>>

Next ==
  \/ ProviderFails \/ AnswerUncovered \/ AnswerObjectOpen \/ AnswerOrphans
  \/ AnswerMalformed \/ AnswerInventsFind \/ AnswerInventsNotice \/ AnswerGood \/ ToolRound \/ LoadRound \/ OutOfRounds
  \/ Commit \/ FallBack \/ DraftRejected \/ ReleaseDraft \/ ReleaseRules

Spec == Init /\ [][Next]_vars

-----------------------------------------------------------------------------
TypeOK ==
  /\ mode \in Modes /\ object \in Objects \cup {"none"} /\ clauses \subseteq Clauses
  /\ staged \in Seq(Effects) /\ Len(staged) <= MaxEffects
  /\ turns \in 0..MaxTurns + 1
  /\ tried \subseteq Repairs /\ pending \in BOOLEAN
  /\ phase \in {"planning", "planned", "thrown", "committed", "done"}
  /\ kept \subseteq DOMAIN staged
  /\ drafts \in 0..2
  /\ told \in {"nobody", "llm", "rules"}

Plan == phase \in {"committed", "done"} /\ kept /= {}

\* The committed state is the state after the last effect of the plan, so the
\* plan has to be everything that was staged up to there: nothing changed the
\* campaign that its event does not show. A contest won for an object that an
\* NPC holds is excepted, see the hazards.
EvidenceIsState ==
  (Plan /\ object /= "held-transfer") => kept = 1..Max(kept)

\* Every scene move of a committed plan belongs to a check of the same plan,
\* earlier in it and with the outcome the scene move claims.
ScenesFollowTheirCheck ==
  (Plan /\ object /= "held-transfer") =>
    \A i \in kept : staged[i].kind = "scene" =>
      /\ staged[i].source \in kept /\ staged[i].source < i
      /\ staged[staged[i].source].outcome = staged[i].outcome

\* A turn that is told as unresolved has changed nothing, and only the rules
\* have told it.
UnresolvedChangesNothing ==
  (phase \in {"committed", "done"} /\ unresolved /= {}) => kept = {} /\ told /= "llm"

\* No committed plan of a player's turn holds a check without consequence.
\* The code keeps this for texts that do not name an object.
NoOrphanedCheck ==
  (Plan /\ mode = "player_turn" /\ object = "none") => Orphans(staged) \cap kept = {}

\* The same for every text: what the design promises, and the code does not
\* keep once a repair of an object turn has been answered with prose twice.
NoOrphanedMechanics ==
  (Plan /\ mode = "player_turn") => Orphans(staged) \cap kept = {}

\* A plan that survives covers every clause of the player's text; the code
\* does not keep this when it drops the tail of a plan with its checks.
WholeIntent ==
  (Plan /\ mode = "player_turn") =>
    Uncovered([i \in 1..Max(kept) |-> staged[i]]) = {}

=============================================================================
