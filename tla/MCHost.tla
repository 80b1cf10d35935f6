------------------------------- MODULE MCHost -------------------------------
(*****************************************************************************)
(* What surrounds a turn at the web host: the usage ledger of the accounts  *)
(* and of the models, the abuse guard, the answers about turns and health,  *)
(* the pages of a table, what a player is shown, and what becomes of a      *)
(* turn's plan. Each behaviour is of one of these components, chosen by     *)
(* part, while the others are idle: they share no state in the model, and   *)
(* one run explores them all.                                               *)
(*****************************************************************************)
EXTENDS LlmUsage, TLC

\* LlmUsage: a free account with two turns and a Player Pass with one.
CONSTANTS free, pass, f1, f2, p1

MCOwner == f1 :> free @@ f2 :> free @@ p1 :> pass

\* The two turns of the free account are interchangeable.
MCSymmetry == Permutations({f1, f2})

CONSTANTS
    GuardAccounts, Origins, TurnWindow, MaxTurnsPerWindow, OriginWindow,
    MaxAccountsPerOrigin, GuardTime,                          \* of module AbuseGuard
    Runs, HasFallback, MaxRequests,                           \* of module ModelUsage
    Checks, CheckTtl, Threshold, HealthTime,                  \* of module HostHealth
    Posts, Commands,                                          \* of module TurnHost
    Requests, Kinds, Fields, MaxLog, PageSize,                \* of module ReferenceTable
    MaxRevision, MaxEvents,                                   \* of module Projection
    Modes, Objects, Clauses, MaxRounds, MaxEffects, MaxPlanCalls  \* of module DmTurn

ASSUME HostAssumption ==
    /\ {TurnWindow, MaxTurnsPerWindow, OriginWindow, MaxAccountsPerOrigin, GuardTime, MaxRequests,
        Threshold, HealthTime, MaxLog, MaxEvents, MaxRounds, MaxEffects, MaxPlanCalls} \subseteq Nat
    /\ {CheckTtl, PageSize, MaxRevision} \subseteq Nat \ {0}
    /\ IsFiniteSet(GuardAccounts) /\ IsFiniteSet(Runs) /\ IsFiniteSet(Requests)
    /\ "none" \notin Origins \cup Requests
    /\ HasFallback \in BOOLEAN
    /\ Commands # {}
    /\ Kinds \subseteq {"create", "spells", "details", "item", "note", "turn", "delete", "reopen", "look"}

VARIABLES
    part,  \* the component this behaviour is of
    guardNow, attempts, origin, blocks, guardPaid, history, signups,
    asked, inflight, buffer, flushed, rows, lost, alive,
    up, lastUp, kept, check, faults, healthNow,
    turn, post, told,
    row, docket, has, request, reader,
    facts, knowledge, viewpoint, quest, exit, notice, situation, log, entitled,
    mode, object, search, clauses, staged, turns, tried, pending, phase, planKept, unresolved,
    drafts, planTold

AbuseGuard == INSTANCE AbuseGuard WITH
    Accounts <- GuardAccounts, MaxTime <- GuardTime, now <- guardNow, paid <- guardPaid

ModelUsage == INSTANCE ModelUsage

HostHealth == INSTANCE HostHealth WITH
    Ttl <- CheckTtl, MaxTime <- HealthTime, now <- healthNow

TurnHost == INSTANCE TurnHost

ReferenceTable == INSTANCE ReferenceTable

Projection == INSTANCE Projection

DmTurn == INSTANCE DmTurn WITH
    MaxTurns <- MaxRounds, MaxCalls <- MaxPlanCalls, kept <- planKept, told <- planTold

Parts == {"AbuseGuard", "ModelUsage", "HostHealth", "TurnHost", "ReferenceTable",
          "Projection", "DmTurn", "LlmUsage"}

\* A component that this behaviour is not of.
Idle(v) == v = "idle"

HostInit ==
    /\ part \in Parts
    /\ Init
    /\ IF part = "AbuseGuard" THEN AbuseGuard!Init
       ELSE Idle(guardNow) /\ Idle(attempts) /\ Idle(origin) /\ Idle(blocks) /\
            Idle(guardPaid) /\ Idle(history) /\ Idle(signups)
    /\ IF part = "ModelUsage" THEN ModelUsage!Init
       ELSE Idle(asked) /\ Idle(inflight) /\ Idle(buffer) /\ Idle(flushed) /\ Idle(rows) /\
            Idle(lost) /\ Idle(alive)
    /\ IF part = "HostHealth" THEN HostHealth!Init
       ELSE Idle(up) /\ Idle(lastUp) /\ Idle(kept) /\ Idle(check) /\ Idle(faults) /\
            Idle(healthNow)
    /\ IF part = "TurnHost" THEN TurnHost!Init
       ELSE Idle(turn) /\ Idle(post) /\ Idle(told)
    /\ IF part = "ReferenceTable" THEN ReferenceTable!Init
       ELSE Idle(row) /\ Idle(docket) /\ Idle(has) /\ Idle(request) /\ Idle(reader)
    /\ IF part = "Projection" THEN Projection!Init
       ELSE Idle(facts) /\ Idle(knowledge) /\ Idle(viewpoint) /\ Idle(quest) /\ Idle(exit) /\
            Idle(notice) /\ Idle(situation) /\ Idle(log) /\ Idle(entitled)
    /\ IF part = "DmTurn" THEN DmTurn!Init
       ELSE Idle(mode) /\ Idle(object) /\ Idle(search) /\ Idle(clauses) /\ Idle(staged) /\
            Idle(turns) /\ Idle(tried) /\ Idle(pending) /\ Idle(phase) /\ Idle(planKept) /\
            Idle(unresolved) /\ Idle(drafts) /\ Idle(planTold)

HostNext ==
    /\ UNCHANGED part
    /\ IF part = "LlmUsage" THEN Next ELSE UNCHANGED vars
    /\ IF part = "AbuseGuard" THEN AbuseGuard!Next
       ELSE UNCHANGED <<guardNow, attempts, origin, blocks, guardPaid, history, signups>>
    /\ IF part = "ModelUsage" THEN ModelUsage!Next
       ELSE UNCHANGED <<asked, inflight, buffer, flushed, rows, lost, alive>>
    /\ IF part = "HostHealth" THEN HostHealth!Next
       ELSE UNCHANGED <<up, lastUp, kept, check, faults, healthNow>>
    /\ IF part = "TurnHost" THEN TurnHost!Next ELSE UNCHANGED <<turn, post, told>>
    /\ IF part = "ReferenceTable" THEN ReferenceTable!Next
       ELSE UNCHANGED <<row, docket, has, request, reader>>
    /\ IF part = "Projection" THEN Projection!Next
       ELSE UNCHANGED <<facts, knowledge, viewpoint, quest, exit, notice, situation, log,
                        entitled>>
    /\ IF part = "DmTurn" THEN DmTurn!Next
       ELSE UNCHANGED <<mode, object, search, clauses, staged, turns, tried, pending, phase,
                        planKept, unresolved, drafts, planTold>>

allVars == <<part, guardNow, attempts, origin, blocks, guardPaid, history, signups, asked, inflight,
             buffer, flushed, rows, lost, alive, up, lastUp, kept, check, faults, healthNow,
             turn, post, told, row, docket, has, request, reader, facts, knowledge, viewpoint,
             quest, exit, notice, situation, log, entitled, mode, object, search, clauses,
             staged, turns, tried, pending, phase, planKept, unresolved, drafts, planTold, vars>>

HostSpec == HostInit /\ [][HostNext]_allVars

-----------------------------------------------------------------------------
(* What is checked of each component, by theme.                             *)

\* Every component keeps its types.
TypesOK ==
    /\ TypeOK
    /\ part = "AbuseGuard" => AbuseGuard!TypeOK
    /\ part = "ModelUsage" => ModelUsage!TypeOK
    /\ part = "HostHealth" => HostHealth!TypeOK
    /\ part = "TurnHost" => TurnHost!TypeOK
    /\ part = "ReferenceTable" => ReferenceTable!TypeOK
    /\ part = "Projection" => Projection!TypeOK
    /\ part = "DmTurn" => DmTurn!TypeOK

\* What the host counts and says is so: no window holds more turns or new
\* accounts than its limit, every model request is accounted for once; one story
\* of each command, readiness that was heard recently, a page no older than its
\* version, views that hold nothing hidden, and narration only of what the plan
\* resolved.
AnswersTrue ==
    /\ part = "AbuseGuard" => AbuseGuard!BurstBounded /\ AbuseGuard!ClusterBounded
    /\ part = "ModelUsage" => ModelUsage!RequestsAccounted /\ ModelUsage!FallbackFollowsSilence
    /\ part = "TurnHost" => TurnHost!OneStory
    /\ part = "HostHealth" => HostHealth!ReadyIsRecent
    /\ part = "ReferenceTable" => ReferenceTable!VersionNotAhead
    /\ part = "Projection" => Projection!EvidenceWithheld /\ Projection!ViewFollowsKnowledge
    /\ part = "DmTurn" =>
          /\ DmTurn!EvidenceIsState
          /\ DmTurn!ScenesFollowTheirCheck
          /\ DmTurn!UnresolvedChangesNothing
          /\ DmTurn!NoOrphanedCheck

\* What no step of the host may do: offer a retry of a turn whose receipt says
\* it changed the game, overwrite fields an edit does not name, revive a deleted
\* campaign by an edit, or end an event stream before its events.
TableStepsTrue ==
    [][/\ part = "TurnHost" => TurnHost!ReceiptWins
       /\ part = "ReferenceTable" =>
          /\ ReferenceTable!OnlyNamedFields
          /\ ReferenceTable!EditsNeverRevive
          /\ ReferenceTable!NothingSkipped]_allVars
=============================================================================
