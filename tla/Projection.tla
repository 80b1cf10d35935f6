------------------------------ MODULE Projection ------------------------------
(***************************************************************************)
(* What the player is shown of a campaign that holds hidden things: the      *)
(* session view, the projected state and the event evidence that              *)
(* src/engine-domain.ts cuts out of the stored state and events               *)
(* (toSessionView, projectStateForActor, projectEventForActor).               *)
(*                                                                         *)
(* The hidden things are world facts, of which one is also the truth of the   *)
(* situation, the hidden objective of a quest that is discovered with the      *)
(* fact "cache", a hidden exit, the terms of a procedural notice and the odds  *)
(* of a withheld check. A thing is a member of Things, and a view is the set   *)
(* of the things that can be read in it. An event is stored with the command   *)
(* and the state changes as committed, and redacted each time it is read.      *)
(*                                                                         *)
(* An operator named X_Y is X with a deliberate fault: it is never part of    *)
(* the specification, and only shows that a property can fail.                *)
(***************************************************************************)
EXTENDS Naturals, FiniteSets

CONSTANTS
    MaxRevision, \* bound: revisions of a fact
    MaxEvents    \* bound: committed commands

VARIABLES
    facts,      \* worldFacts: revision (0 when there is none) and active; all are hidden
    knowledge,  \* actorKnowledge: who, which fact, at which revision, stale
    viewpoint,  \* party.activeViewpointActorId
    quest,      \* a quest with a hidden objective: "none", "hidden", "discovered", or "closed" with the objective still hidden
    exit,       \* a hidden exit: "none", "hidden" or "found"
    notice,     \* status of a procedural notice, "none" before it is entered
    situation,  \* who has discovered the truth of the situation; "begun" once it exists
    log,        \* the stored events
    entitled    \* ghost: the things the player's characters have been allowed to see

vars == <<facts, knowledge, viewpoint, quest, exit, notice, situation, log, entitled>>

Actors == {"hero", "ally"}
Facts == {"cache", "truth"}

Fact(f, r) == [what |-> "fact", of |-> f, rev |-> r]
Other(w) == [what |-> w, of |-> w, rev |-> 0]
Objective == Other("objective")
Exit == Other("exit")
Terms == Other("terms")
Odds == Other("odds")
Things == {Fact(f, r) : f \in Facts, r \in 1..MaxRevision} \cup {Objective, Exit, Terms, Odds}

Init ==
    /\ facts = [f \in Facts |-> [rev |-> 0, active |-> FALSE]]
    /\ knowledge = {} /\ viewpoint = "hero"
    /\ quest = "none" /\ exit = "none" /\ notice = "none" /\ situation = {}
    /\ log = {} /\ entitled = {}

If(b, S) == IF b THEN S ELSE {}

-----------------------------------------------------------------------------
(* Knowledge                                                                *)

\* A record is no longer current once the fact has changed.
Stale_Kept(k, f) == k

\* markKnowledgeStale()
Stale(k, f) == {IF r.fact = f THEN [r EXCEPT !.stale = TRUE] ELSE r : r \in k}

Record(who, f, r) == [who |-> who, fact |-> f, rev |-> r, stale |-> FALSE]
Knows(k, who, f) == \E r \in k : r.who = who /\ r.fact = f /\ ~r.stale
KnowsNow(who, f) == Record(who, f, facts[f].rev) \in knowledge

-----------------------------------------------------------------------------
(* The views of the state                                                   *)

\* actorKnowledgeProjection()
FactsSeen == {Fact(f, facts[f].rev) : f \in {g \in Facts : facts[g].active /\ KnowsNow(viewpoint, g)}}

\* projectQuestForActor(): for the player's own character, whoever has the viewpoint
ObjectiveSeen(q, k) == q = "discovered" \/ (q \in {"hidden", "closed"} /\ Knows(k, "hero", "cache"))

\* proceduralNoticeView(), redactNotice()
Delivered(status) == status \in {"delivered", "resolved"}

\* projectSituationForActor(): the text of the truth is the definition's
TruthSeen(s, k, who) == s # {} /\ (who \in s \/ Knows(k, who, "truth"))

SessionView ==
    FactsSeen \cup If(ObjectiveSeen(quest, knowledge), {Objective}) \cup If(exit = "found", {Exit})
    \cup If(Delivered(notice), {Terms}) \cup If(TruthSeen(situation, knowledge, viewpoint), {Fact("truth", 1)})

\* readToolData(): campaign_context has the same projections, the other tools parts of it
ToolView == SessionView

\* projectStateForActor(): quests and situation are those of the stored state
StateView ==
    FactsSeen \cup If(quest # "none", {Objective}) \cup If(exit = "found", {Exit})
    \cup If(Delivered(notice), {Terms}) \cup If(situation # {}, {Fact("truth", 1)})

-----------------------------------------------------------------------------
(* The view of an event                                                     *)

\* The commands inside a turn plan are served as they were proposed.
CommandSeen_TopLevel(e) ==
    {x \in e.args : e.nested \/ e.kind \notin {"world_context", "challenge_attempt", "quest_create", "procedural_notice", "content_compile"}}

\* redactCommand(), which goes into the commands of a turn plan
CommandSeen(e) ==
    {x \in e.args : e.kind \notin {"world_context", "challenge_attempt", "quest_create", "procedural_notice", "content_compile"}}

\* redactStateChanges()
ChangeSeen(c) ==
    CASE c.path \in {"/worldFacts", "/actorKnowledge"} -> {}
      [] c.path = "/runtimeContent" -> If("hidden" \notin {c.before, c.after}, c.things)
      [] c.path = "/proceduralNotices" -> If(Delivered(c.before) \/ Delivered(c.after), c.things)
      [] OTHER -> c.things

\* redactEventForActor()
EventView(e) == CommandSeen(e) \cup (UNION {ChangeSeen(c) : c \in e.changes}) \cup If(~e.withheld, e.odds)

Change(path, before, after, things) == [path |-> path, before |-> before, after |-> after, things |-> things]

\* What the player's characters may see at this moment.
Allowed ==
    {Fact(r.fact, r.rev) : r \in knowledge'}
    \cup If(quest' # "none" /\ ObjectiveSeen(quest', knowledge'), {Objective})
    \cup If(exit' = "found", {Exit}) \cup If(Delivered(notice'), {Terms})
    \cup If("hero" \in situation', {Fact("truth", 1)}) \* the discovery tells what the definition says

\* commit(): a command alone, or as one effect of a turn plan
Commit(kind, args, changes, withheld) ==
    /\ Cardinality(log) < MaxEvents
    /\ entitled' = entitled \cup Allowed
    /\ \E nested \in BOOLEAN :
         log' = log \cup {[kind |-> kind, nested |-> nested, args |-> args, changes |-> changes,
                           withheld |-> withheld, odds |-> If(withheld, {Odds})]}

-----------------------------------------------------------------------------
(* The commands                                                             *)

\* world_context: upsert or remove a hidden fact; passive perception follows
WorldContext(f, remove, noticed) ==
    LET r == facts[f].rev + 1
    IN  /\ r <= MaxRevision
        /\ remove => facts[f].active /\ ~noticed
        /\ facts' = [facts EXCEPT ![f] = [rev |-> r, active |-> ~remove]]
        /\ knowledge' = Stale(knowledge, f) \cup If(noticed, {Record("hero", f, r)})
        /\ UNCHANGED <<viewpoint, quest, exit, notice, situation>>
        /\ Commit("world_context", {Fact(f, r)},
                  {Change("/worldFacts", "", "", {Fact(f, r)}), Change("/actorKnowledge", "", "", {Fact(f, r)})}, FALSE)

\* challenge_attempt: search-hidden-fact-v1, withheld whatever comes of it
Search(f, success) ==
    LET r == facts[f].rev
    IN  /\ facts[f].active /\ ~KnowsNow("hero", f)
        /\ knowledge' = knowledge \cup If(success, {Record("hero", f, r)})
        /\ UNCHANGED <<facts, viewpoint, quest, exit, notice, situation>>
        /\ Commit("challenge_attempt", {Fact(f, r)},
                  If(success, {Change("/actorKnowledge", "", "", {Fact(f, r)})}), TRUE)

QuestEvidence(q, k) == If(ObjectiveSeen(q, k), {Objective})

\* quest_create
QuestCreate ==
    /\ quest = "none" /\ quest' = "hidden"
    /\ UNCHANGED <<facts, knowledge, viewpoint, exit, notice, situation>>
    /\ Commit("quest_create", {Objective}, {Change("/quests", "", "", QuestEvidence(quest', knowledge))}, FALSE)

\* quest_transition ends the quest; the objective is discovered if its fact is known
QuestTransition ==
    /\ quest = "hidden"
    /\ quest' = IF Knows(knowledge, "hero", "cache") THEN "discovered" ELSE "closed"
    /\ UNCHANGED <<facts, knowledge, viewpoint, exit, notice, situation>>
    /\ Commit("quest_transition", {}, {Change("/quests", "", "", QuestEvidence(quest', knowledge))}, FALSE)

\* content_compile of a location with a hidden exit, and its exitPatch
CompileExit ==
    /\ exit = "none" /\ exit' = "hidden"
    /\ UNCHANGED <<facts, knowledge, viewpoint, quest, notice, situation>>
    /\ Commit("content_compile", {Exit}, {Change("/runtimeContent", "none", "hidden", {Exit})}, FALSE)

PatchExit ==
    /\ exit # "none" /\ exit' = IF exit = "hidden" THEN "found" ELSE "hidden"
    /\ UNCHANGED <<facts, knowledge, viewpoint, quest, notice, situation>>
    /\ Commit("content_compile", {}, {Change("/runtimeContent", exit, exit', {Exit})}, FALSE)

\* procedural_notice: only "upsert" has the terms among its arguments
Notice(to) ==
    /\ <<notice, to>> \in {<<"none", "sealed">>, <<"sealed", "sealed">>, <<"sealed", "authorized">>, <<"sealed", "withdrawn">>,
                           <<"authorized", "delivered">>, <<"delivered", "delivered">>, <<"delivered", "resolved">>}
    /\ notice' = to
    /\ UNCHANGED <<facts, knowledge, viewpoint, quest, exit, situation>>
    /\ Commit("procedural_notice", If(to = "sealed", {Terms}), {Change("/proceduralNotices", notice, to, {Terms})}, FALSE)

\* situation_create: the truth becomes a hidden fact, which a companion may know
\* (a truth that is already a fact of the campaign is left out)
SituationCreate(told) ==
    /\ situation = {} /\ situation' = {"begun"}
    /\ facts["truth"].rev = 0
    /\ facts' = [facts EXCEPT !["truth"] = [rev |-> 1, active |-> TRUE]]
    /\ knowledge' = knowledge \cup If(told, {Record("ally", "truth", 1)})
    /\ UNCHANGED <<viewpoint, quest, exit, notice>>
    /\ Commit("situation_create", {Fact("truth", 1)},
              {Change("/situation", "", "", If(TruthSeen(situation', knowledge', "hero"), {Fact("truth", 1)}))}, FALSE)

\* situation_clue_attempt: the hero discovers the truth
Discover ==
    /\ situation # {} /\ "hero" \notin situation
    /\ facts["truth"].active
    /\ situation' = situation \cup {"hero"}
    /\ knowledge' = knowledge \cup {Record("hero", "truth", facts["truth"].rev)}
    /\ UNCHANGED <<facts, viewpoint, quest, exit, notice>>
    /\ Commit("situation_clue_attempt", {}, {Change("/situation", "", "", {Fact("truth", 1)})}, FALSE)

\* party_set_viewpoint
Select(who) ==
    /\ viewpoint # who /\ viewpoint' = who
    /\ UNCHANGED <<facts, knowledge, quest, exit, notice, situation>>
    /\ Commit("party_set_viewpoint", {}, {}, FALSE)

Next ==
    \/ \E f \in Facts, b, c \in BOOLEAN : WorldContext(f, b, c)
    \/ \E f \in Facts, b \in BOOLEAN : Search(f, b)
    \/ QuestCreate \/ QuestTransition \/ CompileExit \/ PatchExit
    \/ \E s \in {"sealed", "authorized", "withdrawn", "delivered", "resolved"} : Notice(s)
    \/ \E b \in BOOLEAN : SituationCreate(b)
    \/ Discover
    \/ \E who \in Actors : Select(who)

Spec == Init /\ [][Next]_vars

-----------------------------------------------------------------------------
TypeOK ==
    /\ \A f \in Facts : facts[f].rev \in 0..MaxRevision
    /\ \A r \in knowledge : r.who \in Actors /\ r.rev <= facts[r.fact].rev
    /\ entitled \subseteq Things /\ Odds \notin entitled

\* However often the evidence of the past is read again, no event but the one
\* that enters a situation shows the player a hidden thing that no character of
\* his has been allowed to see, at the latest when the event was committed.
EvidenceWithheld == \A e \in log : e.kind # "situation_create" => EventView(e) \subseteq entitled

\* No view of the session or of a tool shows an objective that is not yet
\* discovered unless the hero knows its fact at the very revision it has: the projection itself does not
\* compare revisions, and relies on every change of a fact making knowledge stale.
ViewFollowsKnowledge ==
    quest \in {"hidden", "closed"} /\ Objective \in SessionView \cup ToolView => KnowsNow("hero", "cache")

\* docs/ADR-H31-knowledge-projection-boundary.md:10-13: no hidden fact is placed
\* in the campaign view or in event evidence without a record for that revision.
HiddenFactsWithheld ==
    \A x \in (UNION {EventView(e) : e \in log}) \cup StateView :
        x.what = "fact" => \E r \in knowledge : r.fact = x.of /\ r.rev = x.rev
=============================================================================
