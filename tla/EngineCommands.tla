--------------------------- MODULE EngineCommands ---------------------------
(***************************************************************************)
(* One campaign of the campaign engine: its command ledger, event table,    *)
(* state row and NPC provider triggers (src/engine-store.ts), with the two  *)
(* handlers that hold a command across an await: resolveTurn() and          *)
(* resolveNpcAgencyTick() (src/engine-dm.ts).                               *)
(*                                                                         *)
(* Every method of the store is one SQLite transaction, and whatever a      *)
(* handler does between two awaits is one action. A request that only gets  *)
(* an answer (a replay of a stored result, "in progress", an ID reuse, a    *)
(* version conflict without a reservation) changes nothing and is no action.*)
(*                                                                         *)
(* An operator named X_Y is X with a deliberate fault: it is never part of  *)
(* the specification, and only shows that a property can fail.              *)
(***************************************************************************)
EXTENDS Naturals, FiniteSets, SequencesExt

CONSTANTS
    Texts,        \* client command IDs of player turns
    Ticks,        \* client command IDs of NPC ticks that ask the provider
    Actions,      \* client command IDs of quick actions; a client may use an
                  \* ID for either
    Triggers,     \* the triggers of NPC ticks
    TriggerOf,    \* the trigger each tick names
    LogCap,       \* the messages a stored transcript keeps: 40
    MaxVersion,   \* bound: the campaign versions in play
    MaxRestarts   \* bound: restarts of the engine process

Commands == Texts \cup Ticks \cup Actions

ASSUME EngineAssumption ==
    /\ IsFiniteSet(Commands)
    /\ (Texts \cup Actions) \cap Ticks = {}
    /\ TriggerOf \in [Ticks -> Triggers]
    /\ LogCap \in Nat /\ LogCap >= 2
    /\ MaxVersion \in Nat
    /\ MaxRestarts \in Nat

\* Ticks that all name one trigger: the value a run gives TriggerOf.
OneTrigger == [c \in Ticks |-> CHOOSE g \in Triggers : TRUE]

VARIABLES
    owner,      \* reservationOwnerId of the running process: its incarnation
    exists,     \* the campaign has its row in engine_campaigns
    version,    \* the version of the stored campaign
    log,        \* its messages: who they are about and what they are
    room,       \* productionRoom.releasedSequences: the commands with one
    events,     \* engine_events, oldest first
    row,        \* engine_commands
    trigger,    \* engine_npc_provider_triggers
    work,       \* the handler that holds each command across an await
    asked       \* ghost: provider requests made for each trigger

vars == <<owner, exists, version, log, room, events, row, trigger, work, asked>>

campaignVars == <<exists, version, log, room, events>>

\* What resolve() makes of a command: an accepted mutation, an answer or a
\* refusal without an event, or a refusal at a content boundary.
Effects == {"commit", "none", "blocked"}

NoRow == [state |-> "absent"]
Reservation(o, v) == [state |-> "reserved", owner |-> o, base |-> v]
Result(effect, v, source) ==
    [state |-> "resolved", effect |-> effect, version |-> v, source |-> source]

NoTrigger == [state |-> "absent"]
Trigger(s, o, c) == [state |-> s, owner |-> o, command |-> c]

\* The phases of a handler, named for what it awaits; `room` is the part of
\* the campaign snapshot it was called with that a turn plan writes back.
NoWork == [phase |-> "off", base |-> 0, room |-> {}]
Working(phase, v) == [phase |-> phase, base |-> v, room |-> room]

Init ==
    /\ owner = 0
    /\ exists = TRUE
    /\ version = 0
    /\ log = <<>>
    /\ room = {}
    /\ events = <<>>
    /\ row = [c \in Commands |-> NoRow]
    /\ trigger = [g \in Triggers |-> NoTrigger]
    /\ work = [c \in Commands |-> NoWork]
    /\ asked = [g \in Triggers |-> 0]

---------------------------------------------------------------------------
\* executeCommand(): what a resolution leaves behind.

Message(c, kind) == [about |-> c, kind |-> kind]

\* Every write of the transcript keeps its newest messages.
Newest(l) == IF Len(l) > LogCap THEN SubSeq(l, Len(l) - LogCap + 1, Len(l)) ELSE l

\* appendPlayerTurn(): the player's words go before the messages of the turn.
Transcript(c, effect) ==
    CASE effect = "blocked"                        -> <<>>
      [] effect = "none" /\ c \in Ticks            -> <<>>
      [] effect = "commit" /\ c \in Ticks          -> <<Message(c, "rules")>>
      [] OTHER                                     -> <<Message(c, "player"), Message(c, "rules")>>

\* commit() and compileAtomicTurnResolution() move the version by one; the
\* event carries it.
VersionAfter_Always(effect) == version + 1

VersionAfter(effect) == IF effect = "commit" THEN version + 1 ELSE version

EventsAfter(c, effect) ==
    IF effect = "commit" THEN Append(events, [command |-> c, version |-> version + 1]) ELSE events

\* The command's row gets its result, and with it the plain request.
Resolve(c, effect) == row' = [row EXCEPT ![c] = Result(effect, VersionAfter(effect), "rules")]

\* A resolution of c that leaves productionRoom as r.
Execute(c, effect, r) ==
    /\ effect = "commit" => version < MaxVersion
    /\ Resolve(c, effect)
    /\ version' = VersionAfter(effect)
    /\ events' = EventsAfter(c, effect)
    /\ log' = Newest(log \o Transcript(c, effect))
    /\ room' = r
    /\ UNCHANGED exists

\* executeCommand() finds the campaign moved on, or gone, since version v: a
\* reservation this process made at v is dropped.
DropStale_KeepsRow(c, v) == UNCHANGED row

DropStale(c, v) ==
    row' = IF row[c] = Reservation(owner, v) THEN [row EXCEPT ![c] = NoRow] ELSE row

---------------------------------------------------------------------------
\* updateCommandNarration()

IsPlayer(m) == m.kind = "player"

\* What follows the last player message gives way to the narration.
Narrated_DropsPlayer(l, m) ==
    LET last == SelectLastInSeq(l, IsPlayer)
    IN  Newest(Append(IF last = 0 THEN l ELSE SubSeq(l, 1, last - 1), m))

Narrated(l, m) ==
    LET last == SelectLastInSeq(l, IsPlayer)
    IN  Newest(Append(IF last = 0 THEN l ELSE SubSeq(l, 1, last), m))

Kind(source) == IF source = "llm" THEN "prose" ELSE "rules"

\* A command whose row is gone is left alone.
Release(c, source) ==
    IF row[c].state = "resolved"
    THEN /\ row' = [row EXCEPT ![c].source = source]
         /\ log' = Narrated(log, Message(c, Kind(source)))
         /\ room' = IF source = "llm" THEN room \cup {c} ELSE room
         /\ UNCHANGED <<exists, version, events>>
    ELSE UNCHANGED <<campaignVars, row>>

---------------------------------------------------------------------------
\* reservePlayerTurn() and resolveTurn()

\* A command the ledger does not know.
Unknown_OrResolved(c) == row[c].state \in {"absent", "resolved"}

Unknown(c) == row[c].state = "absent"

\* A reservation whose process is gone.
Abandoned_Never(c) == row[c].state = "reserved" /\ row[c].owner > owner

Abandoned(c) == row[c].state = "reserved" /\ row[c].owner # owner

ReserveTurn(c, v) ==
    /\ c \in Texts
    /\ exists
    /\ Unknown(c)
    /\ version = v
    /\ row' = [row EXCEPT ![c] = Reservation(owner, v)]
    /\ work' = [work EXCEPT ![c] = Working("planning", v)]
    /\ UNCHANGED <<owner, campaignVars, trigger, asked>>

\* A retry after a restart takes the reservation over, at whatever version it
\* names.
TakeOverTurn(c, v) ==
    /\ c \in Texts
    /\ exists
    /\ Abandoned(c)
    /\ v <= version
    /\ row' = [row EXCEPT ![c] = Reservation(owner, v)]
    /\ work' = [work EXCEPT ![c] = Working("planning", v)]
    /\ UNCHANGED <<owner, campaignVars, trigger, asked>>

\* The handler's version is still the campaign's.
Current(c) == exists /\ version = work[c].base

Planning(c) == work[c].phase = "planning"

Await(c, phase) == work' = [work EXCEPT ![c].phase = phase]

Finish(c) == work' = [work EXCEPT ![c] = NoWork]

\* The tool loop staged effects: they were computed on the snapshot.
CommitPlan(c) ==
    /\ Planning(c)
    /\ Current(c)
    /\ Execute(c, "commit", work[c].room)
    /\ Await(c, "narrating")
    /\ UNCHANGED <<owner, trigger, asked>>

\* It staged none: commitDeclaration().
CommitDeclaration(c, effect) ==
    /\ Planning(c)
    /\ Current(c)
    /\ Execute(c, effect, room)
    /\ Await(c, "narrating")
    /\ UNCHANGED <<owner, trigger, asked>>

\* The tool loop failed: resolveFallback(), rules narration included.
Fallback(c, effect) ==
    /\ Planning(c)
    /\ Current(c)
    /\ effect = "commit" => version < MaxVersion
    /\ Resolve(c, effect)
    /\ version' = VersionAfter(effect)
    /\ events' = EventsAfter(c, effect)
    /\ log' = Narrated(Newest(log \o Transcript(c, effect)), Message(c, "rules"))
    /\ Finish(c)
    /\ UNCHANGED <<owner, exists, room, trigger, asked>>

\* The campaign moved on, or is gone.
TurnConflicts(c) ==
    /\ Planning(c)
    /\ ~Current(c)
    /\ DropStale(c, work[c].base)
    /\ Finish(c)
    /\ UNCHANGED <<owner, campaignVars, trigger, asked>>

\* releaseCommittedNarration() ends, with prose or with the rules' own words.
ReleaseNarration(c, source) ==
    /\ work[c].phase = "narrating"
    /\ Release(c, source)
    /\ Finish(c)
    /\ UNCHANGED <<owner, trigger, asked>>

---------------------------------------------------------------------------
\* reserveNpcAgencyCommand() and resolveNpcAgencyTick()

\* The durable record of g lets the provider be asked.
MayAsk_AfterRestart(g) == ~(trigger[g].state # "absent" /\ trigger[g].owner = owner)

MayAsk(g) == trigger[g].state = "absent"

\* Another command of this process is at it.
InProgress(g) == trigger[g].state = "reserved" /\ trigger[g].owner = owner

\* First to name its trigger: the provider is asked.
AskProvider(c, v) ==
    LET g == TriggerOf[c]
    IN  /\ c \in Ticks
        /\ exists
        /\ Unknown(c)
        /\ version = v
        /\ MayAsk(g)
        /\ row' = [row EXCEPT ![c] = Reservation(owner, v)]
        /\ trigger' = [trigger EXCEPT ![g] = Trigger("reserved", owner, c)]
        /\ work' = [work EXCEPT ![c] = Working("asking", v)]
        /\ asked' = [asked EXCEPT ![g] = @ + 1]
        /\ UNCHANGED <<owner, campaignVars>>

\* The trigger was used before: the choice is made without the provider, all
\* in one go.
TickWithoutProvider(c, v, effect) ==
    LET g == TriggerOf[c]
    IN  /\ c \in Ticks
        /\ exists
        /\ Unknown(c)
        /\ version = v
        /\ ~MayAsk(g)
        /\ ~InProgress(g)
        /\ trigger' = [trigger EXCEPT ![g] = Trigger("consumed", owner, c)]
        /\ Execute(c, effect, room)
        /\ UNCHANGED <<owner, work, asked>>

\* markNpcAgencyProviderAttempted()
MarkAttempted(c) ==
    LET g == TriggerOf[c]
    IN  trigger' = IF trigger[g].state # "absent" /\ trigger[g].command = c
                   THEN [trigger EXCEPT ![g].state = "consumed"]
                   ELSE trigger

\* A retry after a restart: no provider, whatever became of the request.
TakeOverTick(c, effect) ==
    /\ c \in Ticks
    /\ exists
    /\ Abandoned(c)
    /\ MarkAttempted(c)
    /\ IF version = row[c].base
       THEN Execute(c, effect, room)
       ELSE row' = [row EXCEPT ![c] = NoRow] /\ effect = "none" /\ UNCHANGED campaignVars
    /\ UNCHANGED <<owner, work, asked>>

\* The provider answered, failed or timed out.
TickAnswered(c, effect) ==
    /\ work[c].phase = "asking"
    /\ MarkAttempted(c)
    /\ IF Current(c)
       THEN Execute(c, effect, room)
       ELSE DropStale(c, work[c].base) /\ effect = "none" /\ UNCHANGED campaignVars
    /\ Finish(c)
    /\ UNCHANGED <<owner, asked>>

---------------------------------------------------------------------------
\* A command executed without a reservation: a quick action, or a tick that
\* prepareNpcAgencyChoice() refuses.
RunCommand(c, v, effect) ==
    /\ c \in Actions \cup Ticks
    /\ exists
    /\ Unknown(c)
    /\ version = v
    /\ c \in Ticks => effect # "commit"
    /\ Execute(c, effect, room)
    /\ UNCHANGED <<owner, trigger, work, asked>>

\* A tick is sent again while the provider is asked, and by now its
\* preparation fails: executeCommand() finds the reservation stale.
RetryDropsTick(c) ==
    /\ c \in Ticks
    /\ exists
    /\ row[c].state = "reserved" /\ row[c].owner = owner
    /\ row[c].base # version
    /\ DropStale(c, row[c].base)
    /\ UNCHANGED <<owner, campaignVars, trigger, work, asked>>

DeleteCampaign(v) ==
    /\ exists
    /\ version = v
    /\ exists' = FALSE
    /\ version' = 0 /\ log' = <<>> /\ room' = {}
    /\ events' = <<>>
    /\ row' = [c \in Commands |-> NoRow]
    /\ trigger' = [g \in Triggers |-> NoTrigger]
    /\ UNCHANGED <<owner, work, asked>>

Restart ==
    /\ owner < MaxRestarts
    /\ owner' = owner + 1
    /\ work' = [c \in Commands |-> NoWork]
    /\ UNCHANGED <<campaignVars, row, trigger, asked>>

---------------------------------------------------------------------------
Versions == 0..MaxVersion

Submit(c) ==
    \/ \E v \in Versions : ReserveTurn(c, v) \/ TakeOverTurn(c, v) \/ AskProvider(c, v)
    \/ \E v \in Versions, effect \in {"commit", "none"} : TickWithoutProvider(c, v, effect)
    \/ \E effect \in {"commit", "none"} : TakeOverTick(c, effect)
    \/ \E v \in Versions, effect \in Effects : RunCommand(c, v, effect)
    \/ RetryDropsTick(c)

Handle(c) ==
    \/ CommitPlan(c)
    \/ \E effect \in Effects : CommitDeclaration(c, effect) \/ Fallback(c, effect)
    \/ TurnConflicts(c)
    \/ \E source \in {"llm", "rules"} : ReleaseNarration(c, source)
    \/ \E effect \in {"commit", "none"} : TickAnswered(c, effect)

Next ==
    \/ \E c \in Commands : Submit(c) \/ Handle(c)
    \/ \E v \in Versions : DeleteCampaign(v)
    \/ Restart

\* A handler's awaits end, because every provider request has its timeouts,
\* and the client of an unanswered command sends it again.
Fairness ==
    /\ \A c \in Texts \cup Ticks : WF_vars(Handle(c))
    /\ \A c \in Texts : WF_vars(\E v \in Versions : TakeOverTurn(c, v))
    /\ \A c \in Ticks : WF_vars(\E effect \in {"commit", "none"} : TakeOverTick(c, effect))

Spec == Init /\ [][Next]_vars

LiveSpec == Spec /\ Fairness

---------------------------------------------------------------------------
RowType ==
    {NoRow} \cup [state : {"reserved"}, owner : Nat, base : Versions]
    \cup [state : {"resolved"}, effect : Effects, version : Versions, source : {"rules", "llm"}]

TypeOK ==
    /\ owner \in 0..MaxRestarts
    /\ exists \in BOOLEAN
    /\ version \in Versions
    /\ log \in Seq([about : Commands, kind : {"player", "rules", "prose"}])
    /\ Len(log) <= LogCap
    /\ room \in SUBSET Texts
    /\ events \in Seq([command : Commands, version : Versions])
    /\ row \in [Commands -> RowType]
    /\ trigger \in [Triggers -> {NoTrigger} \cup
                      [state : {"reserved", "consumed"}, owner : Nat, command : Ticks]]
    /\ work \in [Commands -> [phase : {"off", "planning", "narrating", "asking"},
                              base : Versions, room : SUBSET Texts]]
    /\ asked \in [Triggers -> Nat]

\* The event table is the history of the campaign: one event per version,
\* without gap, never two of one command, and exactly those of the commands
\* whose stored result is a commit at that version. Retries, take-overs and
\* commits that race for one version keep it so.
EventsAreHistory ==
    exists =>
       /\ Len(events) = version
       /\ \A i \in 1..Len(events) :
             /\ events[i].version = i
             /\ row[events[i].command] \in
                   {Result("commit", i, source) : source \in {"rules", "llm"}}
       /\ \A c \in Commands : row[c].state = "resolved" /\ row[c].effect = "commit" =>
             \E i \in 1..Len(events) : events[i].command = c
       /\ \A i, j \in 1..Len(events) : events[i].command = events[j].command => i = j

\* Nobody waits for a command nobody is working on: a command this process
\* reserved has its handler, at the version the reservation names.
ReservedMeansHandled ==
    \A c \in Commands : row[c].state = "reserved" /\ row[c].owner = owner =>
       work[c].phase \in {"planning", "asking"} /\ work[c].base = row[c].base

\* The comment of reserveNpcAgencyCommand(): recovery never issues a second
\* provider request. Not for one trigger, whatever commands name it and
\* however often the process restarts between them.
AskedOnce == \A g \in Triggers : asked[g] <= 1

\* A reservation is kept by whoever works on it, and by nobody twice: not
\* within a process, and not across the restarts that leave one behind.
ReservationsKept == ReservedMeansHandled /\ AskedOnce

\* The lines of c: where the transcript holds what the player said with it.
LinesOf(c) == {i \in 1..Len(log) : log[i] = Message(c, "player")}

Committed(c) == row[c].state = "resolved" /\ row[c].effect = "commit"

\* No command has two lines in the transcript, a blocked or unresolved one has
\* none, and those that committed read as their events happened: in their
\* order, and the older gone before the newer.
LinesInOrder ==
    exists =>
       /\ \A c \in Texts \cup Actions :
             Cardinality(LinesOf(c)) <=
                IF row[c].state = "resolved" /\ row[c].effect # "blocked" THEN 1 ELSE 0
       /\ \A c, d \in Texts \cup Actions :
             Committed(c) /\ Committed(d) /\ row[c].version < row[d].version =>
                /\ \A i \in LinesOf(c), j \in LinesOf(d) : i < j
                /\ LinesOf(d) = {} => LinesOf(c) = {}

\* Only the cap of the transcript takes a player's line away. A step adds two
\* messages at most; it drops from the old end no more than do not fit, and
\* every later line stays, whatever a narration rewrites behind it. The line
\* of a command that resolves is there.
LinesFade ==
    [][exists /\ exists' =>
          /\ \E k \in 0..Len(log) :
                /\ k > 0 => k + LogCap <= Len(log) + 2
                /\ \A i \in k + 1..Len(log) :
                      IsPlayer(log[i]) => i - k \in 1..Len(log') /\ log'[i - k] = log[i]
          /\ \A c \in Texts \cup Actions :
                row[c].state # "resolved" /\ row'[c].state = "resolved" /\ row'[c].effect # "blocked"
                   => LinesOf(c)' # {}]_vars

\* What the players said stays as long as the transcript reaches back: late
\* narrations, which cut it at the last line of a player whose turn it may
\* not be, lose none and reorder none (appendPlayerTurn(),
\* updateCommandNarration()).
PlayerLinesKept == []LinesInOrder /\ LinesFade

\* A stored result is final: a retry replays it, and only its narration may
\* change, from the rules' words to prose. Deleting the campaign alone takes
\* it away.
ResultsAreFinal ==
    [][\A c \in Commands : row[c].state = "resolved" /\ exists' =>
          /\ row'[c].state = "resolved"
          /\ row'[c].effect = row[c].effect /\ row'[c].version = row[c].version
          /\ row[c].source = "llm" => row'[c].source = "llm"]_vars

\* A reserved command does not stay so: its handler or, after a restart, a
\* retry gives it a result or drops it.
EveryCommandSettles == \A c \in Commands : row[c].state = "reserved" ~> row[c].state # "reserved"

\* A released sequence leaves the campaign only by the commit of a turn plan
\* that was cloned before the release, with no version in between, or with
\* the campaign itself: not by another release, a take-over, a declaration,
\* nor a plan that began later, which has all that was released before it.
ReleasesStand ==
    [][/\ \A c \in room \ room' : exists' =>
             /\ row[c].state = "resolved" /\ row[c].source = "llm"
             /\ \E d \in Texts \ {c} :
                   /\ Planning(d) /\ work[d].base = version /\ c \notin work[d].room
                   /\ version' = version + 1 /\ row'[d].state = "resolved"
       /\ \A d \in Texts : Planning(d)' /\ work'[d] # work[d] => room \subseteq work'[d].room]_vars

\* Every reservation ends, in a result that stands: no retry, take-over or
\* late narration turns it into another one, and its released prose is lost
\* only to a plan that was under way.
ResultsStand == ResultsAreFinal /\ EveryCommandSettles /\ ReleasesStand

\* ADR-H26: "A blueprint or narration candidate whose base campaign version or
\* scene revision is no longer current is rejected as stale and cannot
\* release." The base of a narration is the version its command left.
NoStaleRelease ==
    [][\A c \in Commands : row[c].state = "resolved" /\ row'[c].state = "resolved"
          /\ row[c].source = "rules" /\ row'[c].source = "llm" => row[c].version = version]_vars

\* ADR-H26: "Reconnect replays the released sequence and committed event refs
\* without inference." It can only while the released sequence is stored.
ReleasedSequencesKept ==
    exists => \A c \in Commands : row[c].state = "resolved" /\ row[c].source = "llm" => c \in room
=============================================================================
