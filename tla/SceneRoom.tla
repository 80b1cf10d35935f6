------------------------------ MODULE SceneRoom ------------------------------
(***************************************************************************)
(* The production room and the pacing of its scene: entering the room,        *)
(* releasing the narration of the scene, counting the turns that changed      *)
(* nothing, the facilitator's decisions (src/engine-orchestration.ts), and    *)
(* the narrations of ordinary turns recorded beside them                      *)
(* (src/engine-production-room.ts, EngineStore.updateCommandNarration).       *)
(*                                                                         *)
(* The campaign version is the length of the event log and an event is named  *)
(* by its version. An event either changes the fiction, changes nothing, or   *)
(* is no turn of the scene at all (countsAsSceneTurn()). The references a      *)
(* decision may select are the scene's pressure, the scene's events, and one   *)
(* fact created by a random event. Limits of the schemas are constants.        *)
(*                                                                         *)
(* An operator named X_Y is X with a deliberate fault: it is never part of   *)
(* the specification, and only shows that a property can fail.               *)
(***************************************************************************)
EXTENDS Naturals, Sequences, FiniteSets, SequencesExt

CONSTANTS
    Threshold,   \* idle turns before an intervention: 3
    MaxCount,    \* the cap of noChangeTurns: 100
    MaxRefs,     \* committedEventRefs of a scene: 200
    MaxEvents,   \* bound: events of the campaign
    MaxTales,    \* bound: narration sequences composed
    Heard        \* bound: the turns whose narration is awaited

VARIABLES
    log,     \* the campaign's events, in version order
    omen,    \* the random event: the version it happened at, and its fact
    room,    \* productionRoom: the scene's version (0: none), what was released, what was processed
    scene,   \* orchestration.activeScene
    recap,   \* the recap of the transition, or NoRecap
    told,    \* narrations held by the commands' results: version -> sequence (0: rules)
    tales,   \* bound: sequences composed so far
    shown    \* ghost: what the interventions surfaced, oldest first

vars == <<log, omen, room, scene, recap, told, tales, shown>>

Idle == "idle"       \* no fiction-bearing state change
Change == "change"   \* at least one
Quiet == "quiet"     \* presentation only, or no turn of the scene
Kinds == {Idle, Change, Quiet}

NoScene == [status |-> "none"]
NoRecap == {0}
\* references: an event is its version
None == 0
Pressure == MaxEvents + 1
Fact == MaxEvents + 2

Version == Len(log)
Selectable == {Pressure, Fact} \cup 1..MaxEvents
EventsAfter(v) == {e \in (v + 1)..Version : log[e] # Quiet}

Init ==
    /\ log = <<>>
    /\ omen = [at |-> 0, fact |-> "hidden"]
    /\ room = [scene |-> 0, released |-> <<>>, processed |-> {}, narrated |-> FALSE]
    /\ scene = NoScene /\ recap = NoRecap
    /\ told = [e \in 1..MaxEvents |-> 0]
    /\ tales = 0
    /\ shown = <<>>

-----------------------------------------------------------------------------
(* Counting (deriveNoChangeTurns(), refreshSceneFromEvents())                *)

Capped(n) == IF n > MaxCount THEN MaxCount ELSE n

Counted(events, initial) ==
    FoldLeft(LAMBDA n, e : IF log[e] = Change THEN 0 ELSE Capped(n + 1), initial,
             SetToSortSeq(events, <))

\* Events the scene already holds are counted again.
Relevant_Again(s) == EventsAfter(s.opened)

Relevant(s) == {e \in EventsAfter(s.version) : e \notin s.refs}

\* The count moves on, the references stay behind.
Refreshed_CountOnly(s) == [s EXCEPT !.count = Counted(Relevant(s), s.count)]

Refreshed(s) ==
    [s EXCEPT !.count = Counted(Relevant(s), s.count), !.refs = s.refs \cup Relevant(s)]

\* buildCausalityContext() counts on its own, for the narrator's prompt.
CausalIdle(s) == IF Relevant(s) = {} THEN s.count ELSE Counted(Relevant(s), s.count)

Readable(s) == Cardinality(s.refs) <= MaxRefs

-----------------------------------------------------------------------------
(* Authority (authorizePacingRefs(), validateOrchestrationDecision())        *)

\* authorizedRandomEventRefs(): the fact counts only while it is active and
\* public or known, and its random event belongs to the scene.
Foretold(s) == IF omen.at \in s.refs /\ omen.fact = "public" THEN {Fact} ELSE {}

Public(s) == {Pressure} \cup s.refs \cup Foretold(s)

Authorized_Repeatedly(s) == Public(s)

Authorized(s) == Public(s) \ s.surfaced

\* An intervention one idle turn too early.
Stalled_Early(s) == s.count + 1 >= Threshold

Stalled(s) == s.count >= Threshold

Valid(s, d) ==
    /\ d.revision = s.revision
    /\ s.status # "resolved"
    /\ d.action = "transition" \/ Stalled(s)
    /\ d.action = "surface_existing" => d.ref \in Authorized(s)
    /\ d.action = "reframe" /\ d.ref # None => d.ref \in Authorized(s)

Surfaced(s, d) == s.surfaced \cup (IF d.ref = None THEN {} ELSE {d.ref})

\* The decision's own event takes the next version, and is no turn of the scene.
Decided(s, d) ==
    [s EXCEPT !.revision = @ + 1,
              !.version = Version + 1,
              !.status = IF d.action = "transition" THEN "resolved" ELSE "active",
              !.surfaced = Surfaced(s, d),
              !.unresolved = @ \ {d.ref}]

\* buildSceneRecap(): the events the scene was brought up to date with
Recap(s) == s.refs

-----------------------------------------------------------------------------

\* sceneStateFromProjection() and activateScene(), with the event of Enter
Opened(v) ==
    [status |-> "active", revision |-> 1, version |-> v, opened |-> v, count |-> 0, refs |-> {v},
     surfaced |-> {}, unresolved |-> {Pressure}, narrated |-> FALSE]

\* validateNarrationSequence(): a sequence speaks of the event it was asked for.
Committed(about, e) == about = e

\* recordProductionRoomLiveRelease(): once per command
Recorded(e, tale) ==
    IF e \in room.processed THEN room
    ELSE [room EXCEPT !.released = Append(@, tale), !.processed = @ \cup {e}]

Grows == Version < MaxEvents
Keep == UNCHANGED <<omen, room, scene, recap, told, tales, shown>>

\* Any other command: what it commits is one event.
Turn(kind) ==
    /\ Grows
    /\ log' = Append(log, kind)
    /\ Keep

\* A random event: it creates a hidden fact.
RandomEvent ==
    /\ Grows /\ omen.at = 0
    /\ log' = Append(log, Change)
    /\ omen' = [omen EXCEPT !.at = Version + 1]
    /\ UNCHANGED <<room, scene, recap, told, tales, shown>>

\* The fact becomes known, or is retired.
FactMoves(to) ==
    /\ Grows /\ omen.at # 0
    /\ <<omen.fact, to>> \in {<<"hidden", "public">>, <<"public", "retired">>}
    /\ log' = Append(log, Change)
    /\ omen' = [omen EXCEPT !.fact = to]
    /\ UNCHANGED <<room, scene, recap, told, tales, shown>>

\* resolveProductionRoomEnter(): nothing ever clears the room's scene, so a
\* campaign enters once.
Enter ==
    /\ Grows /\ room.scene = 0
    /\ log' = Append(log, Quiet)
    /\ room' = [room EXCEPT !.scene = Version + 1, !.processed = @ \cup {Version + 1}]
    /\ scene' = Opened(Version + 1)
    /\ UNCHANGED <<omen, recap, told, tales, shown>>

\* resolveProductionRoomNarrationRelease(): only the command directly after
\* Enter finds the campaign at the scene's version.
Release(about) ==
    /\ Grows /\ tales < MaxTales
    /\ room.scene # 0 /\ room.scene = Version /\ Committed(about, room.scene)
    /\ log' = Append(log, Quiet)
    /\ tales' = tales + 1
    /\ room' = [room EXCEPT !.released = Append(@, tales + 1), !.processed = @ \cup {Version + 1},
                            !.narrated = TRUE]
    /\ scene' = [scene EXCEPT !.narrated = TRUE]
    /\ UNCHANGED <<omen, recap, told, shown>>

\* resolveOrchestrationDecision(): the scene is brought up to date with the
\* log, the decision judged against that, and both saved by the same command.
Decide(d) ==
    /\ Grows /\ scene # NoScene
    /\ LET s == Refreshed(scene) IN
        /\ Readable(s)
        /\ Valid(s, d)
        /\ scene' = Decided(s, d)
        /\ recap' = IF d.action = "transition" THEN Recap(s) ELSE recap
        /\ shown' = IF d.action \in {"surface_existing", "reframe"} /\ d.ref # None
                    THEN Append(shown, d.ref) ELSE shown
    /\ log' = Append(log, Quiet)
    /\ UNCHANGED <<omen, room, told, tales>>

\* A narration replaces whatever the result held.
Untold_Always(e) == TRUE

Untold(e) == told[e] = 0

\* updateCommandNarration() with a release: the result of command e gets the
\* narration; the room records it unless it has processed the command. A
\* read-only command has no event, so e is a turn's.
Narrate(e, about) ==
    /\ tales < MaxTales /\ e <= Version /\ log[e] # Quiet
    /\ Untold(e) /\ Committed(about, e)
    /\ tales' = tales + 1
    /\ told' = [told EXCEPT ![e] = tales + 1]
    /\ room' = Recorded(e, tales + 1)
    /\ UNCHANGED <<log, omen, scene, recap, shown>>

Decisions ==
    [action : {"surface_existing", "reframe", "clarify", "transition"},
     ref : Selectable \cup {None}, revision : 1..3]

Next ==
    \/ \E kind \in Kinds : Turn(kind)
    \/ RandomEvent
    \/ \E to \in {"public", "retired"} : FactMoves(to)
    \/ Enter
    \/ \E about \in 1..MaxEvents : Release(about)
    \/ \E d \in Decisions : Decide(d)
    \/ \E e \in Heard, about \in 1..MaxEvents : Narrate(e, about)

Spec == Init /\ [][Next]_vars

-----------------------------------------------------------------------------
(* Properties                                                               *)

TypeOK ==
    /\ log \in Seq(Kinds) /\ Version <= MaxEvents
    /\ omen \in [at : 0..MaxEvents, fact : {"hidden", "public", "retired"}]
    /\ scene # NoScene => scene.status \in {"active", "resolved"} /\ scene.count \in 0..MaxCount
    /\ tales \in 0..MaxTales
    /\ Range(room.released) \subseteq 1..tales

SceneTurns == EventsAfter(scene.opened)
LastChange == {e \in SceneTurns : log[e] = Change}
Trailing == {e \in SceneTurns : \A c \in LastChange : c < e}

\* However often the scene was refreshed and decided upon in between, its idle
\* turns are the turns since the last change of the fiction, each counted once
\* (deriveNoChangeTurns(): "trailing committed events").
IdleTurnsCountedOnce ==
    scene.status = "active" =>
        /\ Refreshed(scene).count = Capped(Cardinality(Trailing))
        /\ CausalIdle(scene) = Capped(Cardinality(Trailing))
        /\ Refreshed(scene).refs = SceneTurns \cup {scene.opened}

\* The facilitator never surfaces the same reference twice in a scene.
SurfacedOnce == \A i, j \in DOMAIN shown : shown[i] = shown[j] => i = j

\* The narration a result shows is the one the room released for it, and no
\* narration is released twice.
TalesReleased ==
    /\ \A e \in 1..MaxEvents : told[e] # 0 => told[e] \in Range(room.released)
    /\ IsInjective(room.released)

\* The recap of a transition accounts for every turn of the scene.
RecapWhole ==
    scene.status = "resolved" => recap = {scene.opened} \cup {e \in SceneTurns : e < scene.version}

\* Until the scene changes hands only an idle spell lets the facilitator
\* intervene, and a resolved scene takes no decision any more.
DecisionsEarned ==
    scene # NoScene /\ scene'.revision # scene.revision =>
     /\ scene.status # "resolved"
     /\ scene'.status # "resolved" => Cardinality(Trailing) >= Threshold

=============================================================================
