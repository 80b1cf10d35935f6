--------------------------- MODULE ReferenceTurn ---------------------------
(***************************************************************************)
(* One campaign played through the reference-engine Dungeon Master: the     *)
(* life of a turn in resolveTurn() (src/reference-engine-dm.ts) and of its  *)
(* receipt in the table reference_engine_commands                           *)
(* (src/reference-engine-store.ts), with the remote rules engine, the other *)
(* writers of the campaign version and restarts of the web process.         *)
(*                                                                         *)
(* A turn is a sequence of actions cut at its awaits: everything between    *)
(* two awaits is one action, because SQLite is called synchronously. The    *)
(* rules engine executes a tool call while the turn waits, or after the     *)
(* turn has stopped waiting.                                                *)
(*                                                                         *)
(* Time is one bit per receipt, `lapsed`: its updated_at is older than      *)
(* REFERENCE_COMMAND_LEASE_MS.                                              *)
(*                                                                         *)
(* A campaign can be deleted while turns of it run, and be bound to the     *)
(* engine again under the same ID, at version 0 and without its receipts.   *)
(* Then a command ID can begin a second turn, beside the first one if that  *)
(* is still running: both write to whatever receipt the ID has.             *)
(*                                                                         *)
(* An operator named X_Y is X with a deliberate fault: it is never part of  *)
(* the specification, and only shows that a property can fail.              *)
(***************************************************************************)
EXTENDS Naturals, Sequences, FiniteSets

CONSTANTS
    Commands,     \* the client command IDs
    Turns,        \* the resolveTurn() calls that get to work on one
    CommandOf,    \* the command ID each works on
    Texts,        \* the request bodies they can carry
    Keys,         \* the identities rejectedStateChangingActionKey() tells apart
    ReadOnly,     \* what a call that changes no state is made under
    NoReceipt,
    Versions,     \* bound: the campaign versions in play
    Callers,      \* bound: the turns whose model asks for tools
    MaxCalls,     \* bound: tool calls of one turn; the code sets no limit
    LogCap,       \* MAX_LOG_MESSAGES
    LeaseCovers   \* TRUE: a turn's phases without a renewal timer end within
                  \* one lease; FALSE: they may outlast it

\* For TLC: one of the ways in which every command ID comes, and some of them,
\* where there are more calls than IDs, again.
EveryCommandComes ==
    CHOOSE f \in [Turns -> Commands] : \A c \in Commands : \E t \in Turns : f[t] = c

Outcomes == {"resolved", "not_committed", "uncertain"}

\* A row of reference_engine_commands.
ReceiptType ==
    [status : {"processing", "resolved", "failed"}, base : Versions, text : Texts,
     outcome : Outcomes \cup {"none"}, version : Nat, lapsed : BOOLEAN,
     turn : Turns]    \* ghost: the call that inserted the row

ASSUME TurnAssumption ==
    /\ IsFiniteSet(Turns)
    /\ CommandOf \in [Turns -> Commands]
    /\ ReadOnly \notin Keys
    /\ NoReceipt \notin ReceiptType
    /\ NoReceipt \notin [status : {"processing", "resolved", "failed"}, base : Versions]
    /\ Versions \subseteq Nat /\ 0 \in Versions
    /\ MaxCalls \in Nat
    /\ LogCap \in Nat \ {0}
    /\ LeaseCovers \in BOOLEAN

VARIABLES
    routed,    \* the campaign has its row in reference_engine_sessions
    version,   \* its version column
    log,       \* its log_json: the messages, oldest first
    row,       \* reference_engine_commands, by client command ID
    turn,      \* the state of each resolveTurn() call
    wire,      \* the tool call each turn has sent to the rules engine
    standing,  \* ghost: how each call stands to its command ID
    changed,   \* ghost: the engine or a docket keeps a change the turn made
    told       \* ghost: the final outcomes clients have been given of a turn

vars == <<routed, version, log, row, turn, wire, standing, changed, told>>

campaignVars == <<routed, version, log>>
ghostVars == <<standing, changed, told>>

\* A call that has not come yet; one that works on its command ID alone; one
\* that began beside an older call on the same ID; and one that was alone
\* until the campaign was deleted.
Standings == {"new", "alone", "beside", "gone"}

\* The phases of resolveTurn(), named for what it awaits.
Phases == {"off", "context", "completion", "tool", "choices", "session"}

\* While the tool loop runs, setInterval renews the lease.
Renewing == {"completion", "tool"}

NoTurn == [phase |-> "off", calls |-> 0, accepted |-> FALSE, rejected |-> {},
           recovering |-> FALSE, warned |-> FALSE, version |-> 0]

NoCall == [state |-> "idle", key |-> ReadOnly]

Init ==
    /\ routed = TRUE
    /\ version = 0
    /\ log = <<>>
    /\ row = [c \in Commands |-> NoReceipt]
    /\ turn = [t \in Turns |-> NoTurn]
    /\ wire = [t \in Turns |-> NoCall]
    /\ standing = [t \in Turns |-> "new"]
    /\ changed = [t \in Turns |-> FALSE]
    /\ told = [t \in Turns |-> {}]

---------------------------------------------------------------------------
\* The receipt.

Processing(c) == row[c] # NoReceipt /\ row[c].status = "processing"

Received(t, v, q) ==
    [status |-> "processing", base |-> v, text |-> q, outcome |-> "none",
     version |-> 0, lapsed |-> FALSE, turn |-> t]

Touched(r) == [r EXCEPT !.lapsed = FALSE]

Failed(r, outcome) == [r EXCEPT !.status = "failed", !.outcome = outcome]

Resolved(r, v) == [r EXCEPT !.status = "resolved", !.outcome = "resolved", !.version = v]

Update_Always(c, r) == row' = IF row[c] = NoReceipt THEN row ELSE [row EXCEPT ![c] = r]

\* The store's UPDATE statements all say WHERE status = 'processing'. They
\* find the receipt by its command ID, whichever turn inserted it.
Update(c, r) == row' = IF Processing(c) THEN [row EXCEPT ![c] = r] ELSE row

\* touchReferenceCommand()
Touch(c) == Update(c, Touched(row[c]))

\* What a client hears.
Tell(t, outcome) == told' = [told EXCEPT ![t] = @ \cup {outcome}]

\* The commands that beginReferenceCommand() finds active at version v.
ActiveAt(v) == {c \in Commands : Processing(c) /\ row[c].base = v}

Expired(rows, cs) ==
    [c \in Commands |-> IF c \in cs THEN Failed(rows[c], "uncertain") ELSE rows[c]]

---------------------------------------------------------------------------
\* beginReferenceCommand(): a request for a command ID that has a receipt.

\* The stored outcome is replayed.
Replay(c) ==
    /\ row[c].status # "processing"
    /\ Tell(row[c].turn, row[c].outcome)
    /\ UNCHANGED row

Recover_Eager(c) ==
    /\ Processing(c)
    /\ row' = Expired(row, {c})
    /\ Tell(row[c].turn, "uncertain")

Recover_Refreshes(c) ==
    /\ Processing(c)
    /\ row[c].lapsed
    /\ row' = [row EXCEPT ![c] = Touched(@)]
    /\ UNCHANGED told

\* A dead turn's receipt is failed on sight.
Recover(c) ==
    /\ Processing(c)
    /\ row[c].lapsed
    /\ row' = Expired(row, {c})
    /\ Tell(row[c].turn, "uncertain")

\* POST again. A different body is refused, a running turn answers "in
\* progress": neither changes anything.
Retry(c, q) ==
    /\ routed
    /\ row[c] # NoReceipt
    /\ row[c].text = q
    /\ Replay(c) \/ Recover(c)
    /\ UNCHANGED <<campaignVars, turn, wire, standing, changed>>

\* getReferenceCommand(), for GET /api/campaigns/:id/commands/:id.
Poll(c) ==
    /\ row[c] # NoReceipt
    /\ Replay(c) \/ Recover(c)
    /\ UNCHANGED <<campaignVars, turn, wire, standing, changed>>

\* A live turn holds version v: the new one waits, but the lapsed receipts the
\* loop met before it have been failed.
Blocked(c, v) ==
    /\ routed
    /\ row[c] = NoReceipt
    /\ v = version
    /\ \E d \in ActiveAt(v) : ~row[d].lapsed
    /\ \E ds \in SUBSET {d \in ActiveAt(v) : row[d].lapsed} : row' = Expired(row, ds)
    /\ UNCHANGED <<campaignVars, turn, wire, ghostVars>>

MayStart_NoBlocker(c, v) ==
    /\ routed
    /\ row[c] = NoReceipt
    /\ v = version

MayStart(c, v) ==
    /\ routed
    /\ row[c] = NoReceipt
    /\ v = version
    /\ \A d \in ActiveAt(v) : row[d].lapsed

Running(t) == turn[t].phase # "off"

\* The other calls at work on t's command ID: the receipt it began with was
\* deleted, and nothing stopped the call.
Fellows(t) == {u \in Turns \ {t} : CommandOf[u] = CommandOf[t] /\ Running(u)}

Begin(t, v, q) ==
    /\ standing[t] = "new"
    /\ MayStart(CommandOf[t], v)
    /\ standing' = [standing EXCEPT ![t] = IF Fellows(t) = {} THEN "alone" ELSE "beside"]
    /\ UNCHANGED <<campaignVars, wire, changed>>

\* The rows with the receipt of t inserted.
Inserted(t, v, r) == [Expired(row, ActiveAt(v)) EXCEPT ![CommandOf[t]] = r]

\* The receipt is inserted, admitTurn() agrees, and the turn starts to read
\* its context.
BeginAdmitted(t, v, q) ==
    /\ Begin(t, v, q)
    /\ row' = Inserted(t, v, Received(t, v, q))
    /\ turn' = [turn EXCEPT ![t] = [NoTurn EXCEPT !.phase = "context"]]
    /\ UNCHANGED told

\* admitTurn() throws: failTurn(error, "admission") in the same run.
BeginRefused(t, v, q) ==
    /\ Begin(t, v, q)
    /\ row' = Inserted(t, v, Failed(Received(t, v, q), "not_committed"))
    /\ Tell(t, "not_committed")
    /\ UNCHANGED turn

---------------------------------------------------------------------------
\* The turn.

Become(t, r) == turn' = [turn EXCEPT ![t] = r]

\* failTurn(): the outcome depends on the state-changing calls the turn saw
\* accepted; the receipt takes it only while it is still processing.
CommitStatus(t) == IF turn[t].accepted THEN "uncertain" ELSE "not_committed"

FailTurn(t) ==
    /\ Update(CommandOf[t], Failed(row[CommandOf[t]], CommitStatus(t)))
    /\ Tell(t, CommitStatus(t))
    /\ Become(t, NoTurn)

\* The tool catalog and the hydrated sheet have been read: the first round.
ContextRead(t) ==
    /\ turn[t].phase = "context"
    /\ Touch(CommandOf[t])
    /\ Become(t, [turn[t] EXCEPT !.phase = "completion"])
    /\ UNCHANGED <<campaignVars, wire, ghostVars>>

\* Any of the turn's awaits throws: a read of its context, a completion, a
\* tool call (its answer lost or late), or the session view read after the
\* commit. sceneChoices() catches its own errors.
TurnFails(t) ==
    /\ turn[t].phase \in {"context", "completion", "tool", "session"}
    /\ FailTurn(t)
    /\ UNCHANGED <<campaignVars, wire, standing, changed>>

RenewLease(t) ==
    /\ turn[t].phase \in Renewing
    /\ Touch(CommandOf[t])
    /\ UNCHANGED <<campaignVars, turn, wire, ghostVars>>

MayCall(t) == t \in Callers /\ turn[t].calls < MaxCalls

\* The model asks for a tool call under key k.
CallEngine(t, k) ==
    /\ turn[t].phase = "completion"
    /\ MayCall(t)
    /\ Become(t, [turn[t] EXCEPT !.phase = "tool", !.calls = @ + 1])
    /\ wire' = [wire EXCEPT ![t] = [state |-> "sent", key |-> k]]
    /\ UNCHANGED <<campaignVars, row, ghostVars>>

\* A state-changing call was accepted under k.
Accepted_Forgets(r, k) ==
    [r EXCEPT !.accepted = TRUE, !.rejected = @ \ {k}, !.recovering = FALSE, !.warned = FALSE]

Accepted(r, k) ==
    [r EXCEPT !.accepted = TRUE, !.rejected = @ \ {k},
              !.recovering = r.rejected \ {k} # {}, !.warned = FALSE]

\* A state-changing call was rejected under k.
Refused(r, k) ==
    [r EXCEPT !.rejected = @ \cup {k}, !.recovering = TRUE, !.warned = FALSE]

\* write_docket: stored locally and at once, under a key no engine call has.
WriteDocket(t) ==
    /\ turn[t].phase = "completion"
    /\ MayCall(t)
    /\ Become(t, Accepted([turn[t] EXCEPT !.calls = @ + 1], ReadOnly))
    /\ Touch(CommandOf[t])
    /\ changed' = [changed EXCEPT ![t] = TRUE]
    /\ UNCHANGED <<campaignVars, wire, standing, told>>

\* The answer of the rules engine arrives while the turn waits for it.
ToolReturns(t) ==
    /\ turn[t].phase = "tool"
    /\ wire[t].state \in {"applied", "refused"}
    /\ LET r == [turn[t] EXCEPT !.phase = "completion"]
       IN  Become(t, CASE wire[t].key = ReadOnly       -> r
                       [] wire[t].state = "applied"    -> Accepted(r, wire[t].key)
                       [] OTHER                        -> Refused(r, wire[t].key))
    /\ wire' = [wire EXCEPT ![t] = NoCall]
    /\ Touch(CommandOf[t])
    /\ UNCHANGED <<campaignVars, ghostVars>>

\* A completion without tool calls while a rejection is unanswered: the draft
\* is dropped, and the model is told so and asked once more.
DraftWithheld(t) ==
    /\ turn[t].phase = "completion"
    /\ turn[t].recovering
    /\ Become(t, [turn[t] EXCEPT !.recovering = FALSE, !.warned = TRUE])
    /\ Touch(CommandOf[t])
    /\ UNCHANGED <<campaignVars, wire, ghostVars>>

\* A completion with neither tool calls nor releasable prose.
NarrationMissing(t) ==
    /\ turn[t].phase = "completion"
    /\ ~turn[t].recovering
    /\ FailTurn(t)
    /\ UNCHANGED <<campaignVars, wire, standing, changed>>

Narrate(t) ==
    /\ turn[t].phase = "completion"
    /\ ~turn[t].recovering
    /\ Become(t, [turn[t] EXCEPT !.phase = "choices"])
    /\ UNCHANGED <<campaignVars, row, wire, ghostVars>>

LastOf_OneMore(s) == SubSeq(s, IF Len(s) > LogCap THEN Len(s) - LogCap ELSE 1, Len(s))

\* appendLogMessages(): the newest LogCap messages are kept.
LastOf(s) == SubSeq(s, IF Len(s) > LogCap THEN Len(s) - LogCap + 1 ELSE 1, Len(s))

Messages(t) == <<[turn |-> t, kind |-> "player"], [turn |-> t, kind |-> "narration"]>>

\* sceneChoices() has returned: the version is bumped, the transcript is
\* appended, and the session view is read. A deleted campaign has no row to
\* update, and bumpVersion() then reports 0.
Commit_StoredVersion(t) ==
    /\ turn[t].phase = "choices"
    /\ version' = (IF routed THEN version + 1 ELSE version)
    /\ log' = (IF routed THEN LastOf(log \o Messages(t)) ELSE log)
    /\ Become(t, [turn[t] EXCEPT !.phase = "session",
                                 !.version = IF routed /\ row[CommandOf[t]] # NoReceipt
                                             THEN row[CommandOf[t]].base + 1 ELSE 0])
    /\ UNCHANGED <<routed, row, wire, ghostVars>>

Commit(t) ==
    /\ turn[t].phase = "choices"
    /\ version' = (IF routed THEN version + 1 ELSE version)
    /\ log' = (IF routed THEN LastOf(log \o Messages(t)) ELSE log)
    /\ Become(t, [turn[t] EXCEPT !.phase = "session",
                                 !.version = IF routed THEN version' ELSE 0])
    /\ UNCHANGED <<routed, row, wire, ghostVars>>

\* resolveReferenceCommand(), and the reply. getCampaign() has found the
\* campaign, so the turn was committed.
Resolve(t) ==
    /\ turn[t].phase = "session"
    /\ turn[t].version # 0
    /\ Update(CommandOf[t], Resolved(row[CommandOf[t]], turn[t].version))
    /\ Tell(t, "resolved")
    /\ Become(t, NoTurn)
    /\ UNCHANGED <<campaignVars, wire, standing, changed>>

---------------------------------------------------------------------------
\* The environment of a turn.

\* The rules engine executes a call it was sent, whether or not the turn is
\* still there to hear of it.
EngineExecutes(t) ==
    /\ wire[t].state = "sent"
    /\ \/ /\ wire' = [wire EXCEPT ![t].state = "applied"]
          /\ changed' = [changed EXCEPT ![t] = @ \/ wire[t].key # ReadOnly]
       \/ /\ wire' = [wire EXCEPT ![t].state = "refused"]
          /\ UNCHANGED changed
    /\ UNCHANGED <<campaignVars, row, turn, standing, told>>

\* The adapter's own mutations (inventory, notes, character edits) bump the
\* version when their engine call returns, whatever turn is running.
AdapterBump ==
    /\ routed
    /\ version + 1 \in Versions
    /\ version' = version + 1
    /\ UNCHANGED <<routed, log, row, turn, wire, ghostVars>>

\* deleteRouting(), the last step of DELETE /api/campaigns/:id. The running
\* turns are not told.
DeleteRouting ==
    /\ routed
    /\ routed' = FALSE
    /\ version' = 0
    /\ log' = <<>>
    /\ row' = [c \in Commands |-> NoReceipt]
    /\ standing' = [t \in Turns |-> IF standing[t] = "alone" THEN "gone" ELSE standing[t]]
    /\ UNCHANGED <<turn, wire, changed, told>>

\* ensureReferenceSession(), for POST /api/campaigns/:id/engine-backend: the
\* campaign has its row again, with the columns' defaults. (Of a campaign that
\* has one it changes nothing that is modelled here.)
Rebind ==
    /\ ~routed
    /\ routed' = TRUE
    /\ version' = 0
    /\ log' = <<>>
    /\ UNCHANGED <<row, turn, wire, ghostVars>>

MayLapse_NoTimer(c) ==
    /\ Processing(c)
    /\ LeaseCovers => \A t \in Turns : CommandOf[t] = c => turn[t].phase \in Renewing \cup {"off"}

\* updated_at may grow old: the turn is dead, or nothing renews its lease.
MayLapse(c) ==
    /\ Processing(c)
    /\ \A t \in Turns : CommandOf[t] = c =>
          turn[t].phase \notin Renewing /\ (LeaseCovers => turn[t].phase = "off")

Lapse(c) ==
    /\ MayLapse(c)
    /\ ~row[c].lapsed
    /\ row' = [row EXCEPT ![c].lapsed = TRUE]
    /\ UNCHANGED <<campaignVars, turn, wire, ghostVars>>

\* The web process restarts: every running turn is gone, its calls are not.
Crash ==
    /\ turn' = [t \in Turns |-> NoTurn]
    /\ UNCHANGED <<campaignVars, row, wire, ghostVars>>

Request(c) == (\E q \in Texts : Retry(c, q)) \/ (\E v \in Versions : Blocked(c, v))

StartTurn(t) ==
    \E q \in Texts, v \in Versions : BeginAdmitted(t, v, q) \/ BeginRefused(t, v, q)

RunTurn(t) ==
    \/ ContextRead(t)
    \/ TurnFails(t)
    \/ RenewLease(t)
    \/ \E k \in Keys \cup {ReadOnly} : CallEngine(t, k)
    \/ WriteDocket(t)
    \/ ToolReturns(t)
    \/ DraftWithheld(t)
    \/ NarrationMissing(t)
    \/ Narrate(t)
    \/ Commit(t)
    \/ Resolve(t)

Next ==
    \/ \E c \in Commands : Request(c) \/ Poll(c) \/ Lapse(c)
    \/ \E t \in Turns : StartTurn(t) \/ RunTurn(t) \/ EngineExecutes(t)
    \/ AdapterBump
    \/ DeleteRouting
    \/ Rebind
    \/ Crash

\* The client polls a turn it has no outcome for, time passes, and a running
\* turn gets on with it: its calls are answered or time out, and the ledger
\* and the provider's timeouts end a loop (here: MaxCalls). Nothing makes the
\* engine answer or the process stay up.
Fairness ==
    /\ \A c \in Commands : WF_vars(Poll(c)) /\ WF_vars(Lapse(c))
    /\ \A t \in Turns : WF_vars(RunTurn(t) /\ turn' # turn)

Spec == Init /\ [][Next]_vars

LiveSpec == Spec /\ Fairness

---------------------------------------------------------------------------
MessageType == [turn : Turns, kind : {"player", "narration"}]

TurnType ==
    [phase : Phases, calls : Nat, accepted : BOOLEAN, rejected : SUBSET Keys,
     recovering : BOOLEAN, warned : BOOLEAN, version : Nat]

TypeOK ==
    /\ routed \in BOOLEAN
    /\ version \in Nat
    /\ log \in Seq(MessageType) /\ Len(log) <= LogCap
    /\ row \in [Commands -> ReceiptType \cup {NoReceipt}]
    /\ turn \in [Turns -> TurnType]
    /\ wire \in [Turns -> [state : {"idle", "sent", "applied", "refused"}, key : Keys \cup {ReadOnly}]]
    /\ standing \in [Turns -> Standings]
    /\ changed \in [Turns -> BOOLEAN]
    /\ told \in [Turns -> SUBSET Outcomes]

Alone(t) == standing[t] = "alone"

\* The receipt of t's command ID is the one t inserted.
Holds(t) == row[CommandOf[t]] # NoReceipt /\ row[CommandOf[t]].turn = t

\* A running turn's receipt stays its own and processing until the turn itself
\* ends it: no poll, retry or rival request may fail a live turn (the renewal
\* comment in resolveTurn()), nor a turn left over from before the campaign was
\* deleted and bound again. Only deleting the campaign takes the receipt away.
\* A turn that began beside an older call on its own command ID is not safe
\* from that call, and nothing is said of it.
LiveTurnKeepsReceipt ==
    \A t \in Turns : Running(t) /\ Alone(t) =>
       Holds(t) /\ Processing(CommandOf[t]) /\ ~row[CommandOf[t]].lapsed

\* Two turns never work from one campaign version at the same time, across
\* retries, expired leases, restarts and deletions (beginReferenceCommand()).
OneTurnPerVersion ==
    \A t, u \in Turns :
       t # u /\ Running(t) /\ Running(u) /\ Alone(t) /\ Alone(u)
         => row[CommandOf[t]].base # row[CommandOf[u]].base

\* Turns keep apart: neither a rival, a retry nor an expired lease takes the
\* receipt or the campaign version from a turn that is still running.
TurnsKeepApart == LiveTurnKeepsReceipt /\ OneTurnPerVersion

\* However often a client asks, by POST or by poll, before or after a restart,
\* it is never told two different outcomes of one turn; and a command ID begins
\* a second turn only after the campaign, and its receipt with it, was deleted.
OneOutcomeTold ==
    /\ \A t \in Turns : standing[t] # "beside" => Cardinality(told[t]) <= 1
    /\ \A t, u \in Turns : Alone(t) /\ Alone(u) /\ CommandOf[t] = CommandOf[u] => t = u

Logged(m) == \E i \in 1..Len(log) : log[i] = m

\* The transcript and the receipts agree: a turn that resolved has its
\* narration in the transcript, or the transcript is at its cap; no message is
\* there twice; and resolved turns stand there in the order of the campaign
\* versions their clients were given, each of which is above its base. A turn
\* from before a deletion may write there too, between two others.
ResolvedTurnsInLog ==
    LET Receipt(t) == row[CommandOf[t]]
        Done == {t \in Turns : Alone(t) /\ Receipt(t).status = "resolved"}
        Narration(t) == [turn |-> t, kind |-> "narration"]
    IN  /\ \A t \in Done : Logged(Narration(t)) \/ Len(log) = LogCap
        /\ \A i, j \in 1..Len(log) : log[i] = log[j] => i = j
        /\ \A t \in Done : Receipt(t).base < Receipt(t).version /\ Receipt(t).version <= version
        /\ \A i, j \in 1..Len(log) : \A t, u \in Done :
              log[i] = Narration(t) /\ log[j] = Narration(u) /\ i < j
                 => Receipt(t).version < Receipt(u).version

\* What the clients were told is what the transcript shows: one outcome of a
\* turn, and the resolved turns there once, in their order.
OutcomesKept == OneOutcomeTold /\ ResolvedTurnsInLog

\* Narration drafted over a rejected state change is never published unless
\* the model was told of it and drafted again, whatever other calls succeed
\* in between (the recovery message in resolveTurn()).
NoUnwarnedNarration ==
    \A t \in Turns : turn[t].phase = "choices" => turn[t].rejected = {} \/ turn[t].warned

Receipts == INSTANCE TurnReceipts WITH
    receipt <- [c \in Commands |-> IF row[c] = NoReceipt THEN NoReceipt
                                   ELSE [status |-> row[c].status, base |-> row[c].base]]

\* The receipts implement their abstract specification: one start per command
\* ID and outcomes that do not change until the campaign is deleted, and one
\* open turn per version. This needs no assumption on how the lease compares
\* with the turn's phases, and none on turns that outlive a deletion.
ReceiptsSpec == Receipts!Spec

\* A receipt left processing by a dead process does not stay so: its client's
\* polls find it lapsed and get an outcome.
EveryReceiptSettles == \A c \in Commands : Processing(c) ~> ~Processing(c)

\* beginReferenceCommand() in reference-engine-store.ts: "Starts a reference-DM
\* turn exactly once. [...] a browser retry must never silently execute the
\* same turn twice." Two calls at work on one command ID at the same time.
OneTurnPerCommand ==
    \A t, u \in Turns : Running(t) /\ Running(u) /\ CommandOf[t] = CommandOf[u] => t = u

\* REFERENCE_DM_NOT_COMMITTED_MESSAGE in turn-failure.ts: "no game state was
\* committed. Your action is safe to retry." The client is given it with every
\* not_committed outcome.
NotCommittedIsSafe ==
    \A t \in Turns : "not_committed" \in told[t] =>
       ~changed[t] /\ ~Logged([turn |-> t, kind |-> "narration"])
============================================================================
