# TLA+ models of rpg-mcp-live

This directory is a verification development of rpg-mcp-live: TLA+ modules for
the parts in which requests, timers, provider calls and restarts meet, and for
the rules of the game whose state is hard to keep straight over long sequences of
commands. TLC checks them on small instances. For every value of the constants
TLAPS proves the safety of the provider gate, the turn and its receipts, the
command ledger, the reviewed boss fight, the accounts, all eight components of
the web host, all four of the hero (goods, magic, sheet and the campaign as read from
its save), and all six of the world: its map, guards, conditions, places, items and
scenes.

`PROJECT.json` lists the components, the runs, the lines of code each definition
stands for, a fault that breaks each property (`mutants`), the disagreements
between code and documentation that runs show, the hazards and the theorems.

## 1. The system

rpg-mcp-live is a hosted role-playing game. Players talk to a **web host**
(`src/server.ts`), which keeps accounts, subscriptions, usage and transcripts in
SQLite and lets a language model act as dungeon master. Rules are never left to
the model: it calls tools of a **rules engine**, either the remote reference
engine (`reference-engine-*.ts`) or the in-house Lantern engine (`engine-*.ts`),
which own the authoritative campaign.

| part | state | what must hold | modules |
|---|---|---|---|
| provider gate (`provider-gate.ts`) | slots in use, per account too; a queue of waiters with timers | ceilings, no leaked or doubly freed slot, no idle slot over an eligible waiter, order | ProviderGate |
| reference turn (`reference-engine-dm.ts`, `reference-engine-store.ts`) | campaign version, transcript, a receipt with a lease per command ID, the turns in memory | one live turn per version, one outcome told per command, resolved turns are in the transcript | ReferenceTurn, TurnReceipts |
| command ledger (`engine-store.ts`, `engine-dm.ts`, `engine-turn-plan.ts`) | campaign with version and transcript; events; command rows; NPC trigger rows | one effect per command, events are the history, one provider call per trigger, final results | EngineCommands |
| turn planning (`engine-dm.ts`, `engine-intent-coverage.ts`) | staged effects, repairs, the committed plan | the narrated evidence is the state; one try per mistake | DmTurn |
| usage ledger (`llm-usage.ts`) | holds, reservations, booked cost | admissions fit the budget; answers in time are booked | LlmUsage |
| model telemetry (`usage-ledger.ts`) | buffer and rows of requests | every request accounted for once | ModelUsage |
| abuse guard (`abuse-guard.ts`) | attempts, origins, blocks | windows and clusters stay bounded | AbuseGuard |
| accounts (`store.ts`, `billing.ts`, `server.ts`) | quickstart claims; subscription row, webhook events | no second campaign without a cause; events land; no second Checkout | Quickstart, Billing |
| web host HTTP (`server.ts`, `turn-failure.ts`, `reference-engine-adapter.ts`) | commands, health, pages of one campaign | one story per command, recent readiness, no edit lost or revived | TurnHost, HostHealth, ReferenceTable |
| views (`engine-domain.ts`, `engine-situations.ts`) | what is hidden, and from whom | evidence of hidden things stays withheld | Projection |
| hero and fights (`engine-domain.ts`, `engine-effects.ts`) | life, boss timing, map, guards, conditions | a fight is never one the next load refuses; a death ends it | BossEncounter, Tactical, GuardEncounter, Conditions |
| characters (`engine-domain.ts`) | draft, sheet, spells, goods | slots add up, units are conserved, a sheet is as rolled | CharacterCreation, Magic, Possessions |
| world (`engine-domain.ts`, `content/runtime-compiler.ts`) | clock, quests, places, scene, items | deadlines decide, rewards once, everything has one place | Chronicle, Locations, WorldScene, RuntimeItems |
| story (`engine-situations.ts`, `engine-domain.ts`) | situation, notices, challenges | knowledge is of the facts as they are | Situations, Notices, Adjudication |
| people (`engine-domain.ts`) | trade, crime, NPC ticks, party | loot known as stolen stays unsold, nobody acts twice | Market, NpcAgency, Party |
| production room (`engine-orchestration.ts`, `engine-production-room.ts`) | scene, idle turns, releases | counted, surfaced and released once | SceneRoom |
| loading (`engine-domain.ts`) | the whole stored campaign | a load repairs once and changes nothing more | SavedCampaign |

**How they interact.** A player's POST reaches `resolveTurn()` of the web host.
It begins a receipt in the store, is admitted by the usage ledger, waits at the
gate for the provider, sends tool calls to the rules engine and finally commits
the transcript, the version and the receipt. A client that lost the answer
repeats the POST or polls the receipt. The rules engine knows nothing of the
web host's receipts: it keeps its own ledger by command ID, and its own dungeon
master plans a turn from a snapshot, commits it and then narrates it. Every
command of the engine first reads the campaign through
`normalizeCampaignState()` (engine-store.ts:988).

**Why it is hard.** Node runs one callback at a time, so a model step is the
code between two `await`s; everything read before an `await` may be stale after
it. Leases and claims expire while their owner lives. The process restarts in
the middle of a turn, with its calls still running in the engine. Answers are
lost after the work was done. Commands are retried. Queues hold calls that time
out while they are handed a slot. The rules are one pure handler per command,
but some 20 000 lines of them share one state, which every load checks again
with code written apart from the handlers.

## 2. Layout and plan

* One module per component, as in the table. `TurnReceipts` is the abstract
  specification that `ReferenceTurn` implements.
* `ProviderGate.cfg`, `ReferenceTurn.cfg`, `EngineCommands.cfg`, `MCBossEncounter.cfg`
  and so on instantiate single components. `MCAccounts`, `MCHost`, `MCHero`, `MCStory` and `MCWorld` instantiate
  several with `INSTANCE ... WITH`: a behaviour is of one of them, chosen by
  the variable `part` in its initial state, while the others are idle. They share
  no state in the model, so that this explores the union of their behaviours and
  not the product; their properties are conjunctions of those of their parts, by
  theme.
* `ProviderGateProofs`, `ReferenceTurnProofs`, `EngineCommandsProofs`,
  `BossEncounterProofs`, `AccountsProofs`, `HostProofs`, `HeroProofs` and
  `WorldProofs` hold the theorems.

What is left of the plan: proofs for the components of `MCStory`; looting, harvest and cleanup of remains
once a command of play reaches them.

## 3. Conventions

* A step of a model is the code between two `await`s; a SQLite transaction is
  therefore always inside one step. A command of the rules engine is one step.
* An operator `X_Y` is `X` with the deliberate fault `Y`. It stands before `X`
  and is used by nothing: putting it in X's place must break the property it is
  listed with in `PROJECT.json` (`mutants`).
* Variables marked *ghost* record what the program does not store (what clients
  were told, how often a provider was asked); no guard reads them, except that a call
  of `ReferenceTurn` begins once (`standing`).
* Counters stop at named bounds (`MaxVersion`, `MaxCalls`, `MaxRestarts`,
  `MaxTime`, `Horizon`, `MaxRound` and so on). A campaign that may be deleted can
  really stop, and so may a gate whose calls were all answered, and a fight that
  is over: those runs do not check for deadlock.
* Dice, the wording of the provider and what a text means are choices of the
  model.

## 4. The runs

| run | module and instance | properties | what it shows |
|---|---|---|---|
| `gate` | ProviderGate: five calls of three accounts, two slots, one per account, clock to 3 | TypeOK, SlotsKept, NoOvertaking, EveryWaiterSettles | queue, counters and ceilings agree whatever order timers, double releases and drains come in |
| `turn` | ReferenceTurn: three turns of two IDs, one text, one tool call of one of the two turns that share an ID, versions to 1, transcript cap 3, the lease covers | TypeOK, TurnsKeepApart, OutcomesKept, ReceiptsSpec, EveryReceiptSettles | a live turn keeps its receipt and version and its clients hear one outcome, also when the campaign is deleted, bound again and the ID begun again beside its older turn; receipts implement `TurnReceipts` |
| `turn_late` | ReferenceTurn: two turns, three tool calls of one of them under two keys, the lease may lapse | NoUnwarnedNarration | no draft is narrated over an unannounced rejection |
| `turn_receipt` | ReferenceTurn: one turn, one call | NotCommittedIsSafe *(violated)* | a `not_committed` receipt over an executed call |
| `commands` | EngineCommands: two texts, one of which may be a quick action, two ticks of one trigger, one restart, versions to 3, transcript cap 3 | TypeOK, EventsAreHistory, ReservationsKept, PlayerLinesKept, ResultsStand | the ledger under takeover, conflicts, narration, the cap and deletion |
| `boss` | BossEncounter: two hit points each, one slot, three rounds | TypeOK, LifeConsistent, FightFits, DeadMeansOver, TailAtTurnEnd | the handlers and the load check agree; a death ends everything |
| `accounts` | MCAccounts: two overlapping requests, two mishaps; two subscriptions, two periods, two events, one failure | TypeOK, NothingTwice, EveryIntentDone, EventsLand | intents and events of Stripe under every interleaving |
| `host` | MCHost: two accounts, three turns, two calls, three days in two months; and seven small components | TypesOK, HoldsKept, BookedExactly, AnswersTrue, TableStepsTrue | metering, and what the host answers, shows and counts |
| `hero` | MCHero: two units of a few items, two levels of spells, two abilities, a small family of saves | TypeOK, GoodsWhole, HeroSound, StepsKeep | goods, magic, creation and loading |
| `story` | MCStory: clocks to 4, one or two of everything | TypeOK, StoryHolds, StoryEarned | quests, situations, scenes, crimes, NPCs, the party |
| `world` | MCWorld: a map of four by three with two foes, two guards, three places, two items | TypeOK, FightsHold, PlacesHold, StepsEarned | fights and places |
| `rewards` | Chronicle: the tutorial's errand and one more | RewardsExactlyOnce *(violated)* | a quest that pays twice |

**Why the bounds are enough.** *gate*: two slots and three accounts are the
least in which the queue's head is blocked by its own account while another
waiter could run, and in which a double release would free somebody else's slot.
*turn*: the command ID that two of the three turns share may begin again after a
deletion, beside its older turn, after it or not at all, with the third turn as a rival;
two versions leave room for two commits or a commit and an outside bump, and a cap
of three messages makes the transcript drop half of a turn's pair. A second turn that
calls tools would multiply the states and touch neither receipt nor transcript.
*turn_late*: two keys are the least in which an accepted call could hide the rejection
of another, and three calls let the second attempt succeed. *commands*: one restart
leaves a reservation of an older process beside one of the new; two ticks race
for one trigger; three versions leave room for an effect before and after a
conflict; two planning texts are what a narration released under another's plan needs,
and with a quick action in the place of one a command without prose stands between;
their lines and narrations are more than the cap of three holds. *boss*: with two hit points a hit wounds or fells; one slot makes the
hero eligible for a reaction and then not; three rounds hold two boss turns with
full points, a lair used in the cycle before, and three failed death saves in any
mix of dice and hits. *accounts*: a take-over needs two requests, and an older
event that overtakes a newer needs two subscriptions. *host*: two holds of 2 fill
the free day of 4, three exceed the deployment's day of 5, and one completion of 3
against an estimate of 1 overshoots what was held; a row lives for one step, so
that it lapses while its turn runs, and a month has two days. The other
components of `host` and those of `hero`, `story` and `world` have two of what can
be confused (two foes, merchants, guards, scenes, pages) and one or two units of
what is counted; their windows and limits are small enough to be reached.

**Fairness.** `gate`: the clock advances, a due timer fires and `drain()`
terminates; nothing is assumed of slot holders. `turn`: a client polls until it
has an outcome, time passes, and a running turn gets on, since its calls are
answered or time out; the engine may never answer and the process may stop at any
point, in which case the lease lapses and a poll settles the receipt. `commands`: a handler's
awaits end, and a client sends a command again under its ID until it has a result.
The latter is a promise of the browser client, not of the engine: asking for the
status of an abandoned reservation answers "in progress" for ever. `accounts`:
calls end (each has a timeout), the browser repeats its intent on every page load
and clocks go on; Stripe repeats a webhook until it is acknowledged and a player
loads the page now and then, both strongly fair, since a call in flight may keep
either from happening at a particular moment but not for ever. The other runs
assume nothing.

## 5. ProviderGate

`now`, `phase`, `admitBy`, `queue`, `inFlight`, `perAccount` mirror the class;
`draining` is TRUE while `drain()`'s loop runs, so that each hand-over is a step
of its own and other callbacks wait for the loop as they do in Node. `Acquire`
has one alternative per path of `acquire()`: refused because the account is
full and must not queue, admitted at once, refused as too late, queued with a
timer. `TimerFires` is the waiter's timeout, `Release` the closure returned to
the caller, which may be called again, `DrainAdmit`/`DrainReturn` the loop.
`SlotsKept` joins `QueueIsWaiters`, `SlotAccounting`, `WithinCeilings` and
`NoIdleSlot`.

`acquire()` reads a caller's deadline only when the caller must queue
(`AdmitAtOnce`, `RejectTooLate`), so a call may get a free slot after its
deadline, which the comment at provider-gate.ts:118 rules out. The callers in
`reference-engine-dm.ts` look at the time left between retries only, so the
model does not restrict when a call is made.

## 6. ReferenceTurn and TurnReceipts

`resolveTurn()` is a state machine over the phases between its awaits:
`context` (reads before the loop), `completion` (a provider call), `tool` (a
call of the rules engine), `choices` (after the prose), `session` (committed,
reading the view). `row` is the receipt of a command ID with its lease,
`wire` the call the turn has sent, which the engine may execute even when the
turn is gone. `Request` is a POST (replay, recovery of a dead receipt, blocked,
begun), `Poll` the GET of a receipt. The environment may bump the version
through the adapter, delete the campaign, bind it again, and restart the process at any
point.

*Deletion is not the end.* `DeleteRouting` takes the row of the campaign and its
receipts and tells no running turn. `Rebind` is POST `/api/campaigns/:id/engine-backend`
(server.ts:919-935, `ensureReferenceSession()`, `setBackend()`): the same campaign ID has
a row again, at version 0 and without receipts. A turn left over from before goes on
and writes to the new version, the new transcript and whatever receipt its command ID
has by then, and the ID may begin a second turn beside it. `standing` records which
turns are concerned: `alone` (nobody else works on the ID), `beside` (an older call of
the ID was still running), `gone` (its receipt was deleted). That there is a
second turn beside the first the store's comment rules out (section 12). What a `beside`
turn tells its client is that of whichever call settles the shared receipt first, so
the properties promise nothing of it; they do promise that the turns of the new
campaign are undisturbed by those of the old one.

`lapsed` stands for the comparison of `updated_at` with the five-minute lease.
The lease is renewed by a timer only inside the tool loop. With
`LeaseCovers = TRUE` the model takes from the code's timeouts (30 s per engine
call, 60 s per completion) that the reads outside the loop end before the lease
does; with `FALSE` the lease may lapse under any live turn outside the loop.

`TurnsKeepApart` joins `LiveTurnKeepsReceipt` and `OneTurnPerVersion`;
`OutcomesKept` joins `OneOutcomeTold` (a client hears one outcome of a turn, by
whichever answer, and a command ID begins again only after a deletion) and
`ResolvedTurnsInLog` (a resolved turn is in the transcript, once and in version order,
as far as the cap reaches). `TurnReceipts` is the life of a receipt as the store's
callers rely on it: between two deletions a command ID opens at most one turn and an
outcome stays, and no two open turns started from one version.

## 7. EngineCommands

The ledger of `LanternEngineStore` with the handlers that use it: player turns
(reserve, plan at the provider, commit the plan or declare one command or fall
back, narrate), NPC ticks (reserve per trigger, ask the provider at most once,
tick) and plain commands. A reservation carries the identity of the process
that made it; `Restart` gives the process a new one. Requests that only receive
an answer change nothing and are stutters. `log` holds one entry per message,
`room` the released narrations, and a plan carries the copy of the `room` it
will write back. `ReservationsKept` joins `ReservedMeansHandled` and `AskedOnce`,
`ResultsStand` joins `ResultsAreFinal`, the liveness `EveryCommandSettles` and
`ReleasesStand`: a release goes from the campaign only by the commit of a plan that was
cloned before it, and the result a repetition is answered from keeps its prose even
then; a plan that is cloned later carries it.

*Abstractions.* One process owns the database. The rules are a choice of
commit, no effect, and blocked at an authority boundary. The provider is
configured. The transcript has no roll messages; its cap, `.slice(-40)` at each of the
four writes, is `Newest` with the constant `LogCap`. `PlayerLinesKept` accounts for it: a
line goes only when the cap takes it, oldest first (`LinesFade`), and those that are
left stand once and in the order of the events (`LinesInOrder`).

## 8. LlmUsage

`hold` is the admission row of each turn, `call` the row of the provider call it
has open, `booked` what `llm_usage` sums up to per account and day, `work` where
the turn stands in `resolveTurn()`. `Admit` and `Refuse` are the two ends of
`admitTurn()`, `Reserves` the three callers of `reserve()`, `Answer` and
`AnswerTooLate` the two ends of `settle()`, `NoAnswer` the catch branches that
call `release()`, `Finish` the `finally` block of the turn. `Swept` is
`expireReservations()`, which runs inside the transactions of admissions and
reservations and of nothing else, so that a due row may still be settled.
`paid` is a ghost: what the provider reported.

*What the admission promises.* Only admissions are tested, so spending itself
is not bounded by a limit: a turn in flight may overshoot it by its calls. The
properties say what the code does promise. `HoldsKept`: concurrent admissions
never hold more than a limit together, and a turn that ended leaves nothing
reserved. `BookedExactly`: the test is exact with respect to live rows, and an
answer in time is booked at its cost.

*Abstractions.* A row that is settled, released or swept is not kept once its
turn opens another; nothing reads it. The clock moves in whole steps. Nor is the
admission test of `reserve()` without a turn modelled, which has no caller.

## 9. BossEncounter

Its first section has the life of a character: the record of hit points, `lifecycleState`, death-save
counters and concentration, and one operator per primitive:
`Damaged` (`applyCharacterDamage()` with `applyConcentrationAndDownedState()`),
`Healed`, `DeathSaves`, `Dead`. An operator with dice gives the set of records
they lead to. `BossEncounter` is a fight of the hero and the reviewed boss; an
action is one command of the engine.

| variable | in `EngineCombat` and the character |
|---|---|
| `initiative` | the order of two, and `lair.initiative.orderIndex` |
| `turn` | `status`, `activeActorId`, `round`, the outcome, and of `lastAction` whether it names a window action |
| `timing` | `bossTiming`: points, cycle, lair use, `pendingWindow` (`window`), `lastCompletedWindow` (`completed`) |
| `reaction` | `pendingReaction.resumeMode` |
| `hero`, `kit`, `bossHp` | the life; slots, Second Wind, the turn budget, the boss's own reaction; hit points |

`Transition` is `prepareReviewedBossTransition()`, which opens a window between
two turns; `Completed` closes its parts one by one. `Commandable` has the guards
of the dispatcher: no command but the boss's while a window is open, none but
the answer while a reaction is pending. A hit is a choice of damage; one that an
`Eligible` hero could answer is `Offered`, and `Respond` goes on from where it
came (`Resume`).

*Loading.* Every request loads the campaign and recomputes the fight
(`normalizeCombat()`); what it asks is `Restorable`, with one conjunct per
normalizer. A state that is not restorable takes no command: its only
step is `Quarantine`, the end of the fight without lifecycle or loot.
`FightFits` says that the transitions of the code and the checks of the
loader, some 400 lines written apart from each other, agree on every running
fight in all of this but one rule, that on `lastAction`. `LostAtHandOver`, part
of `FightFits`, says where that rule fails: where a turn has just been handed over by
the boss's plain attack or a death save after a window, with no reaction pending and, if it
is the hero's, no bonus action or reaction spent. (`RestartPreserves` would rule it out; section 12.)

*Abstractions.* Left out are positions and reach (Tactical), companions, potions
and scrolls, the recharge and the conditions of the boss, and every condition of
the hero that is not its life. What may happen after a quarantine is an ordinary
campaign without a fight. A concentration save against a second source has the
same outcomes as against the first.

## 10. The components of the composed runs

Each module's head names its source and what it leaves out.

**`accounts`.** `Quickstart` is the claim of a player who wants to play at once:
a POST claims, creates a campaign and a character at the engine with awaits
between, and records them; a claim of two minutes is taken over by a second
request; failures release. `Billing` is the Player Pass: webhooks (perhaps two
of one event at once), the return from Checkout, reconciliation on page loads and
the guard in front of a new Checkout, each cut at its await on Stripe.
`NothingTwice` has their safety, `EveryIntentDone` and `EventsLand` their progress.

**`host`.** Beside `LlmUsage`: `AbuseGuard` (window of turn attempts, clusters of
free accounts), `ModelUsage` (buffer and rows of model requests, flushed
together, with stops of the process), `TurnHost` (what a POST and a poll of a
command are answered, by failure), `HostHealth` (overlapping health requests
over cached checks), `ReferenceTable` (edits, notes, dockets, views and deletion
of a campaign with awaits between read and write), `Projection` (what a player
sees of state and events) and `DmTurn` (the planner's loop of tool calls and
repairs, and the plan it commits). `AnswersTrue` joins their invariants,
`TableStepsTrue` what no step may do. `OneStory` of `TurnHost` is about all answers that
read the receipt of a command. Two answers do not: the 502 of a result whose usage
could not be read knows nothing (`Resolved`), and a refusal of abuse admission
(`NotAdmitted`) says `not_committed` whatever the receipt has. Both are recorded in
`told` under names of their own, and `OneStory` says of the refusal what holds of it: it
is wrong of a command only when another request of that command got past the door, so
never of a command's first and only request.

**`hero`.** `Possessions` (inventory, bags, equipment, shared storage, stock and
carried objects; units are conserved, but for an id that shared storage doubled: the sale
or the drink that empties its first entry filters out the second, `Used`), `Magic` (slots, repertoire, concentration,
reactions, rests), `CharacterCreation` (rolled scores and edits),
`SavedCampaign` (`normalizeCampaignState()`: a second load changes nothing).

**`story`.** `Chronicle` (clock, journeys, rests, quests with deadlines and
rewards, the level-up), `Situations` (roles, clues, pressure, outcome),
`Notices` (sealed terms), `Adjudication` (failures, contests and bound effects
inside a plan), `SceneRoom` (idle turns, recaps, releases), `Market` (theft,
recognition, trade, standing), `NpcAgency` (ticks, triggers, circuit breaker),
`Party` (members, viewpoint, shared container, helpers).

**`world`.** `Tactical` (map, movement, opportunity attacks, zones),
`GuardEncounter` (surrender offers, custody, the commanded ally, and total cover, which
keeps hero and guards from striking each other and a guard from taking its turn; that
the menu always has something the engine takes, but on the turn of a guard in cover, is
in `TurnRests`), `Conditions`
(effects, their projection and their ends), `Locations` (places and exits),
`WorldScene` (facts, objects and people of a scene), `RuntimeItems` (compiled
items beside the inventory).

## 11. What is proved

Every theorem holds for all values of the constants that satisfy the module's
named assumption: finite sets of calls, turns, commands and accounts
(`IsFiniteSet`), natural numbers for limits and times, positive ones where the
code divides or needs one (ceilings, days, hit points, rounds, the cap of the
transcript, the length of a page), kinds of commands that do not overlap, and markers such as
`NoReceipt` that are no ordinary value. TLC evaluates these on each run. One
theorem group has a hypothesis of its own: `LiveTurnsKeepApart` and
`OutcomesStayKept` assume `LeaseCovers`, the timing argument of section 6, and
`turn_late` is an instance without it. Limits, costs and caps are otherwise
free, so nothing rests on the sizes of section 4.

Each proof has the same plan: an inductive invariant, one lemma per action that
shows it is kept, a `Next...` lemma that joins these, and a temporal step. Every
invariant was checked by TLC before it was proved.

**ProviderGateProofs.** `GateInvariant`, from which `TypeCorrect`, `QueueCorrect`,
`AccountingCorrect`, `CeilingsHold`, `WorkConserving` and their union
`SlotsStayKept` follow, and `HandOverOrder` as an action property. None of the
five is inductive alone: the counters are only right when the queue has no
holder in it, and no slot idles only because the counters are right. `GateInv`
is the conjunction of `TypeOK`, `QueueIsWaiters`, `SlotAccounting`, the bounds
of the counters (`CountersWithin`) and `NoIdleSlot`. `AdmitKeepsAccounting`,
`SettleKeepsAccounting` and `FreeKeepsAccounting` count the holders before and
after a phase change; `RemovedWaiter` and `RemoveAtElements` say what is left of
a queue when one waiter leaves it.

**ReferenceTurnProofs.** `TypeCorrect` needs one fact beyond the types: a receipt
that is no longer processing has an outcome (`TypeInv`). `LiveTurnsKeepApart`
uses `ApartInv`: besides, how calls, receipts and IDs belong together (`Kin`). Receipts
and campaign are gone together; a receipt was inserted by a call that works on its ID
and has begun since the last deletion; and a call that is alone has the receipt it
inserted and no older call of its ID beside it. So whatever a left-over turn writes, it
writes into no receipt of such a call. `OutcomesStayKept` takes the most: `ToldInv`
says per turn what clients may have heard, by the state of its receipt
(nothing while it runs; the receipt's outcome once that is settled; after a deletion
what it ends with, once), and
`LogFacts` relates receipts, stamps and the transcript, in which turns of a deleted
campaign may have written too: live bases are behind the version, a turn that has not
come to its commit has no message, none is there twice, a committed turn is stamped
with its version, and the stamps come in order. The order is what makes the cap
harmless: it drops the oldest, so what is still within reach is there in pairs. `NarrationIsWarned`
rests on `DraftInv`: a turn with a rejected call that no later one made good is
still recovering or has been warned of it (`Answered`); it and
`ReceiptsImplemented` need no promise of the lease.
`ReceiptsImplemented` proves `Spec => ReceiptsSpec`: initial states map to initial
states, and each step of the host to one step of `TurnReceipts` or a stutter, of turns
that are left over from a deletion too: the store's updates find a receipt that is
processing or none.

**EngineCommandsProofs.** `TypeInv` gives each running handler the role its command
has. `ReservationsStayKept`: `KeptInv` adds that a handler either is current and
holds its reservation or is behind the campaign's version for good, and that a turn
that is narrating was not given its prose yet (`Kept`); and that a trigger
whose provider was asked has its record, or its campaign is gone for good
(`AskedIsRecorded`).
From it `ResultsStayFinal`, an action property, the safety half of `ResultsStand`.
`EventsStayHistory`: `EventsAreHistory` is inductive over `KeptInv`; `LedgerStep`
reduces all commands to the two ways the table of events changes.
`PlayerLinesStay`: `LinesInv` adds that only stored results that were not blocked have a
line, one each, in the order of their commits, and that an older one is gone before a
newer; `Carries` says what a step leaves of the transcript, shifted by what the cap
dropped. Replacing the narration of a turn finds the last line of its player by search,
and `LargestIndex` with the lemmas after it say what that search finds.

**HostProofs, the usage ledger.** The ledger's test adds up rows over turns and days over
months, and TLAPS has no sum, so the module first proves what it needs
of sums: over a finite set there is exactly one function with the recursion of the
model's sum (`SumExists`, `SumIsUnique`, by induction over subsets with a set for
the predicate, `SubsetInduction`), it is a natural number (`SumIsNat`), grows with
each term (`SumGrows`), and counts (`SumCounts`); `ReservedIsSum`, `LiveCostIsSum`,
`CallsMadeIsSum` and `SpentIsSum` bring each sum of the model to that form.
`LedgerInv` is `BooksFit` (types and ranges of the books), `TurnsFit` (which rows a
turn may have in each phase) and `HoldsWithinBudget`. `HoldsStayKept`: an admission
adds exactly its hold to a sum the test has just compared, and every other step
can only lower it, because time passes or rows close. `BookingIsExact`: refusal
is equivalent to the test's failing on the rows that are still live, although the
code sums after it swept; the sweep leaves the live sum as it was.

**BossEncounterProofs.** `LifeStaysConsistent` is inductive as it stands: a dying
character has at most two of either counter, so that one more hit or save
concludes; `DamagedKeepsLife`, `HealedKeepsLife`, `DeathSavesKeepLife` split on
the record's state. `DeathEndsFight` needs that a hit on the hero's own move,
which ends no turn and closes no window, cannot kill: the hero stands
while that hit waits (`MoverStands`), and one hit only fells who stands; with the
shape of the records an ended fight has (`Shape`) these make `DeathInv`.
`FightTypeCorrect`, `FightStaysFit` and `TailIsOffered` share `FightInv`, which says
for a running fight how cycle, points, lair use, open window, completed window
and pending reaction depend on initiative, round and active actor (`Running`, with
`WindowInv`, `CompletedInv`, `PointsLeft`), what is left of these once it has stopped (`Stopped`), and for a pending
reaction what it will resume (`Pending`). A lemma `...KeepsFight` per command shows that it is kept. `FightFits`
is much weaker than `FightInv` and far from inductive: the load check looks
at each field against the round, while it is their history that keeps them right.
`LostAtHandOver` is inductive with it (`NextLost`): an action of a window leaves the
window it names (`CompletedRemembers`), every other command writes `lastAction` or
hands a turn over, and a fight that is refused takes no command.

**AccountsProofs.** `NothingTwice` of any number of overlapping requests, webhooks,
subscriptions and mishaps. For the Player Pass, `PassInv` says what the answers of
Stripe that a call still holds are worth: what they say was canceled is canceled
and what they say was no pass is none, since Stripe brings neither back
(`SnapFits`). For "play now", `IntentInv` ties each request to a campaign that was
made under its preset (`RequestFits`) and the claim to the last such campaign
(`ClaimFits`). Its heart is `Excused`, a balance: campaigns, and the characters
beyond the first that a campaign has or that a running request may yet make
(`Surplus`), are never more than the causes met so far, and one. Each step that
adds to the left pays with a cause or with the one free attempt, which is only
there while nobody works on the claim. `Undisturbed` adds that without a deletion,
a refusal, an unread answer or a slow request a single request works at a time.

**HostProofs, the other components.** All that the run `host` checks, by one invariant
per component, with `LedgerInv` for the ledger.
*TurnHost:* `OneRunner` (one request runs the turn of a command) and `ToldIsRow`
(whatever was told is what the row says, or a refusal at the door) make every answer
that read the receipt one of one story; `Begun` adds that the turn of a command runs or
has run only when a request of it got past the door.
*HostHealth:* `HeardRecently` dates the answer behind each cached check.
*AbuseGuard:* `TableIsWindow`: the table differs from the history by swept
attempts only, which are older than the window, so that the sum the guard takes
is that of the window; `SignedUpOnce` makes accounts and sign-ups of a cluster
one to one.
*ModelUsage:* `EventsApart`: run and number name one event, in a buffer or in the
ledger, and of a request that was answered; `FallbacksAnswerSilence` keeps the
primary's silence beside each fallback; the counts then balance.
*ReferenceTable:* `ViewsFollowCounts`: an edit that the version of a page counts is
in each part of the page that was read after the version, unless a later edit has
replaced it; `ReaderFollowsLog` for the notes a reader has turned past. The
version is bounded by the requests that are past the engine's answer, so that
no request expects one that is not there.
*Projection:* `KnowledgeFits`: a record of what a character knows is of the fact's
revision or marked stale.
*DmTurn:* `ScenesBound` (a scene move is staged after the check it is bound to, with
its outcome) and `PlanSound` (what is kept, undone and told in each phase).

**WorldProofs.** All properties of the run `world`. It assumes that foes and what
zones are aimed at stand on the map (`MapAssumption`), that each order of initiative
has a turn for the hero and every guard (`WatchAssumption`), and that a fight has a
creature (`ProgramAssumption`).
*Places and things:* `PlacesHold` for any places, people, items and objects. That
containment ends and nobody comes back by a way out needs history: `LocationsInv`
has a strict order of the places, that of their making, in which each exit leads
to an older place and the hero has only left younger ones (`WaysLeadBack`). A
place that is made is younger than all others, so that old exits keep their
direction. `ItemsInv` adds that what stands in the scene has a definition,
`SceneInv` the type of the scene's objects.
*The map:* `MapInv` says that zones are as the load check asks and that whoever
stopped a walk reaches the hero where it stopped. A walk is a set of routes of any
length, so its lemmas speak of routes: a route that leaves a foe's reach has a first
step out of it (`NoEscape`), and the hits a walk draws are a line in which each
place up to the last is taken (`SomebodyIsThere`), so that a walk that goes on has
drawn fewer hits than the hero had points.
*The guards:* `TurnsTaken` is the strengthening: while a fight goes on its turn is
with somebody alive (who may all the same be unable to take it, section 12), a pending
decision has an open offer, and nobody has struck
unless the action is spent. That the turn always finds somebody is a lemma on the
walk around the order (`NextActorLives`), for orders of any length.
*Conditions:* `GuardsUp`: what ends with the hero's next turn was begun in this
round, with his action, so `TurnsBeginClean` needs no history.

**HeroProofs.** All properties of the run `hero`. Of the constants it assumes what the
code's own tables satisfy: objects of a scene, bags, potions and wards are different
things, a split stack has a fresh id of its own, and a kit has nothing split
(`ItemAssumption`, `KitAssumption`); cantrips need no slot and no table falls with the
level (`SpellAssumption`); sets are finite and numbers natural (`SheetAssumption`,
`SaveAssumption`). Sums over finite sets are handled as for the ledger (`SumSteps`
and the lemmas after it).
*Possessions:* `UnitsConserved` speaks of a family, an item and the stack split from
it, wherever their units lie. `Clan` is that count in terms of the entries alone;
`ClansKept` says each command keeps it or takes along the second entry of a doubled
id (`Lost`), and `ClansAreUnits` leads back to the sum of the model. It needs `GoodsInv`, since a command finds its item by position: an
id has at most two entries, only the first of them worn (`Stacks`), and one in shared
storage. `GoodsInv` has besides the slots (`SlotsFit`), the wards (`WardsFit`) and
the bound on each clan, from which that on each entry follows. `BagsWhole` is about chains of
containers of any length: `LooserIsWhole` (a chain that only breaks closes no
circle) and the lemmas before it compare such chains before and after a command. A
transfer is checked by the code against the inventory it would leave; of the commands
that are not, the proof shows that they only take away.
*Magic:* `MagicInv` is the balance of slots and casts with the types, and that a
question about a ward is open in the foe's turn only.
*CharacterCreation:* `SheetInv` has the form of each kind of sheet, and that before
the end exactly the draft was rolled; that equal counts of equal scores make a
rearrangement is `Rearranged`, a bijection put together from one for each score.
*SavedCampaign:* `Settled` says of a loaded campaign that each reader
returns what it is given, except the fight of a hero whose conditions were just
read as his death; `LoadsOnce` and `HeroWhole` follow with it.

**What stays with TLC.** `EveryWaiterSettles`, `EveryReceiptSettles`,
`EveryCommandSettles` (so `ResultsStand` as a whole), `EveryIntentDone` and
`EventsLand` are liveness under fairness, which the prover does not have. What a
recursive function computes for every input would be induction over data; where
a proof needs a sum, it uses the finite-set argument above. Of the
composed runs, `story` is checked only. `MCHost`'s `TypesOK`, `HoldsKept` and `BookedExactly` are the
theorems' own formulas for the part `LlmUsage`.

## 12. Where code and documents disagree

Two runs expect a violation; `findings` in `PROJECT.json` quotes both sides of each.

| run | the code | what says otherwise |
|---|---|---|
| `turn_receipt` | reference-engine-dm.ts:668 reports a turn whose executed call was not answered as not committed | turn-failure.ts:12 |
| `rewards` | a quest pays twice (engine-domain.ts:8510) | ADR-H27-pending-progression-kernel.md:19-21 |

Further properties state what a document promises and fail of the code. They are in no
run; naming one in a `.cfg` of its module shows it.

| property | module | the code | what says otherwise |
|---|---|---|---|
| OneTurnPerCommand | ReferenceTurn | after a deletion and a re-binding a command ID is begun beside its running turn (reference-engine-store.ts:226, 578-585) | reference-engine-store.ts:221-223 |
| RefusalsCommitNothing | TurnHost | abuse admission comes before the receipt is looked up (server.ts:329), so the repetition of a committed command is refused as not committed | server.ts:323-325 |
| DeletedAsSeen | ReferenceTable | server.ts:993 ignores the version it validated: an old page deletes newer play | ADR-H22-campaign-manager-and-safe-deletion.md:31 |
| ReleasedSequencesKept | EngineCommands | a plan writes its clone over a release (engine-turn-plan.ts:30) | ADR-H26-dm-production-room-and-public-narration-boundary.md:119-120 |
| RestartPreserves | BossEncounter | engine-domain.ts:10466: the boss's plain attack or a death save after a window hands the turn on and leaves `lastAction`, and the next load ends the fight | ADR-H35-reviewed-boss-action-windows.md:33 |
| IdsAreInstances | Possessions | shared storage gives an id a second entry (engine-domain.ts:13028, 18270), which a sale or a drink then loses (6793, 15850) | ADR-H32-inventory-instance-ownership.md:16, engine-domain.ts:18111 |
| OffersTakeable | GuardEncounter | offers of `advance_turn`, `retreat` and attacks that cover or a missing path refuses (engine-domain.ts:2932-2984 against 13620-13623, 10875-10879, 12355-12360) | action-economy-and-spatial-design-intent.md:112, engine-contracts.ts:3333-3335 |
| HiddenFactsWithheld | Projection | engine-domain.ts:17770 has no case for `situation_create` | ADR-H31-knowledge-projection-boundary.md:10-13 |
| EffectsAreTheAuthority | Conditions | engine-domain.ts:15291 keeps a list of its own | ADR-H26-effects-conditions-kernel.md:22-24 |
| CasterIsConscious | BossEncounter | engine-domain.ts:12075 asks no life of who casts the reaction | engine-domain.ts:11308 does |
| NoOrphanedMechanics | DmTurn | engine-dm.ts:1350-1364 | GDD.md:17 |
| OfferedGuardLives | GuardEncounter | engine-domain.ts:11440-11640 does not close an offer | engine-domain.ts:12303 |
| OneLocation | Possessions | goods and objects may disagree on the holder | ADR-H32-inventory-instance-ownership.md:27-28 |
| NoStaleRelease | EngineCommands | engine-store.ts:888 | ADR-H26-dm-production-room-and-public-narration-boundary.md:58-59 |
| EveryCompletionBooked | LlmUsage | llm-usage.ts:357 | DEPLOYMENT.md:154-155 |

`OffersTakeable` is also where a fight stands still: the guard whose turn it is has the
hero behind total cover, `advance_turn` is refused, and the hero has no turn to step out
in. No other turn is stuck like this (`TurnRests`).

**Behaviour worth knowing**, met while modelling and faithful in the models:
the 21st notice pushes out the oldest whatever its status; three failures of one
clue compromise every clue; a clue found while its fact is inactive leaves its
revelation revealed and unknown; a failure in another scene supersedes a
compromised pressure; a pending level-up preview goes stale and is not rebuilt
while it is pending; an "offer" buys at the price the command names; items stolen
again lose their earlier provenance; an NPC that is removed and made anew has its
budget back; items of a companion who is gone cannot be reached; a spell that kills
the last guard ends the fight without an outcome; dead foes block their cells; two new
boxes may contain each other (engine-domain.ts:8172); discarding a plan rolls
its dice again; a stop loses unflushed telemetry; `admitFreeTierSignup()` has no
caller; a second POST of a character creates a second hero; when a campaign is
deleted and its name bound anew while an edit of the hero is under way, the version
counts the edit and the page has no hero to show it on.

## 13. What is not modelled

* The reference engine itself and its client: a transport to a remote service;
  the service is the external action of the modules that call it.
* Event stream, DM doctrine, capabilities, tools and contracts: projections
  of modelled rows, prompt texts, pure functions, declarative data.
* Content packs and the Open5e import: compilation of content and an offline tool.
  What compiled places and items do to a campaign is in Locations and RuntimeItems.
* Engine HTTP and client, failure and call logs: routing and formatting.
* The legacy game store and DM: an earlier single-process game.
* Browser client, build and CI. The browser's retries are actions of the host's
  models.
* Inside modelled components: hit points, money, weights and fresh ids of
  Possessions; weather, exhaustion and NPC turns of Chronicle; rumours but for
  guards; looting, harvest and cleanup of remains (engine-domain.ts:14870-15207,
  16774-16900), which no command of play reaches; sessions, rate limits by
  address and Clerk of the web host.
