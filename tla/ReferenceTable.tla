--------------------------- MODULE ReferenceTable ---------------------------
(***************************************************************************)
(* One campaign as the browser's pages meet it outside a turn: its row and    *)
(* its dockets in the host's database (src/reference-engine-store.ts), the     *)
(* game state in the remote engine, and the requests that read and edit both    *)
(* (src/reference-engine-adapter.ts, src/server.ts). Every call to the engine     *)
(* is an await: it may be refused, or fail before or after it took effect, and     *)
(* any other request may run before the host goes on.                                *)
(*                                                                         *)
(* Edits are told apart by the request that made them: "has" is the set of edits      *)
(* the engine holds, and what one means is left out. A DM turn, a module of its        *)
(* own, is here one more request, which cannot fail half-way.                          *)
(*                                                                         *)
(* An operator named X_Y is X with a deliberate fault: it is never part of   *)
(* the specification, and only shows that a property can fail.               *)
(***************************************************************************)
EXTENDS Naturals, FiniteSets, SequencesExt

CONSTANTS
    Requests,   \* each is sent once
    Kinds,      \* what they may be
    Fields,     \* of the player docket
    MaxLog,     \* MAX_LOG_MESSAGES: 40 in the code
    PageSize    \* of the event stream: 1 to 100 in the code

VARIABLES
    row,      \* of reference_engine_sessions
    docket,   \* the "player" row of reference_engine_dockets: who wrote each field
    has,      \* the edits the engine holds
    request,
    reader    \* one follower of the event stream

vars == <<row, docket, has, request, reader>>

AllKinds == {"create", "spells", "details", "item", "note", "turn", "delete", "reopen", "look"}
Edits == {"create", "spells", "details", "item", "note", "turn"}
NoOne == "none"
NoView == [counts |-> {}, sheet |-> {}, docket |-> {}, notes |-> {}]

\* counts: the edits the row's version has been raised for
NoRow == [live |-> FALSE, version |-> 0, hero |-> FALSE, log |-> <<>>, counts |-> {}]

Init ==
    /\ \E hero \in BOOLEAN : row = [NoRow EXCEPT !.live = TRUE, !.hero = hero]
    /\ docket = [f \in Fields |-> NoOne]
    /\ has = {}
    /\ request = [r \in Requests |->
                    [kind |-> "none", at |-> "idle", expected |-> 0, fields |-> {}, landed |-> FALSE,
                     hero |-> FALSE, view |-> NoView]]
    /\ reader = [cursor |-> NoOne, page |-> <<>>, seen |-> {}]

At(r, kind, place) == request[r].kind = kind /\ request[r].at = place
Go(r, place) == request' = [request EXCEPT ![r].at = place]
Answer(r, place) == request' = [request EXCEPT ![r].at = place, ![r].view = NoView]

-----------------------------------------------------------------------------
(* The row                                                                  *)

\* A bump that makes the row it does not find.
Bumped_Upsert(r, old) ==
    [old EXCEPT !.live = TRUE, !.version = @ + 1,
                !.counts = @ \cup (IF request[r].landed THEN {r} ELSE {})]

\* bumpVersion(): an update, which finds no row once the campaign is deleted
Bumped(r, old) ==
    IF old.live
    THEN [old EXCEPT !.version = @ + 1, !.counts = @ \cup (IF request[r].landed THEN {r} ELSE {})]
    ELSE old

\* The log keeps all it was given.
Logged_All(r, old) == IF old.live THEN [old EXCEPT !.log = Append(@, r)] ELSE old

\* appendLogMessages()
Logged(r, old) ==
    LET log == Append(old.log, r) IN
    IF old.live
    THEN [old EXCEPT !.log = SubSeq(log, IF Len(log) > MaxLog THEN Len(log) - MaxLog + 1 ELSE 1, Len(log))]
    ELSE old

\* What the page that sends a request has read of the campaign may be old.
Send(r, kind) ==
    /\ request[r].at = "idle"
    /\ \E v \in 0..row.version, fs \in (SUBSET Fields) \ {{}} :
          /\ (v < row.version) => kind \in {"spells", "delete"}
          /\ (kind # "details") => fs = Fields
          /\ request' = [request EXCEPT ![r].kind = kind, ![r].at = "sent", ![r].expected = v, ![r].fields = fs]
    /\ UNCHANGED <<row, docket, has, reader>>

\* requireRouting() and the checks before the first await
Admitted(r) ==
    CASE request[r].kind = "reopen" -> TRUE
      [] request[r].kind = "spells" -> row.live /\ row.hero /\ row.version = request[r].expected
      [] request[r].kind \in {"details", "item"} -> row.live /\ row.hero
      [] OTHER -> row.live

Route(r) ==
    /\ request[r].at = "sent" /\ request[r].kind \notin {"look", "reopen"}
    /\ IF Admitted(r) THEN request' = [request EXCEPT ![r].at = "calling", ![r].hero = row.hero]
       ELSE Answer(r, "refused")
    /\ UNCHANGED <<row, docket, has, reader>>

-----------------------------------------------------------------------------
(* One edit                                                                 *)

\* The engine takes an edit, refuses it, or the call fails, which may be after it took it.
EngineAnswers(r) ==
    /\ request[r].at = "calling" /\ request[r].kind \in Edits
    /\ \E took \in BOOLEAN, failed \in BOOLEAN :
          /\ (request[r].kind = "turn") => took /\ ~failed
          /\ has' = IF took THEN has \cup {r} ELSE has
          /\ request' = [request EXCEPT ![r].at = IF failed THEN "failed" ELSE "called", ![r].landed = took]
    /\ UNCHANGED <<row, docket, reader>>

\* The docket is written from the update alone.
Merge_Alone(r) == [f \in Fields |-> IF f \in request[r].fields THEN r ELSE NoOne]

\* updateCharacterDetails(): read, merged and written without an await
Merge(r) == [f \in Fields |-> IF f \in request[r].fields THEN r ELSE docket[f]]

(* The host goes on with the engine's answer, and none but the inventory's looks at       *)
(* whether the engine refused.                                                             *)

Answered(r, kind) == At(r, kind, "called")
Raise(r, old) == row' = Bumped(r, old)

\* setReferenceIds() throws when the row is gone, and keeps what it has without a new id.
CharacterCreate(r) ==
    /\ Answered(r, "create")
    /\ \/ row.live /\ Raise(r, [row EXCEPT !.hero = @ \/ request[r].landed]) /\ Go(r, "look")
       \/ ~row.live /\ UNCHANGED row /\ Answer(r, "failed")
    /\ UNCHANGED <<docket, has, reader>>

UpdateCharacterSpells(r) ==
    /\ Answered(r, "spells")
    /\ Raise(r, row) /\ Go(r, "look")
    /\ UNCHANGED <<docket, has, reader>>

UpdateCharacterDetails(r) ==
    /\ Answered(r, "details")
    /\ docket' = Merge(r)
    /\ Raise(r, row) /\ Go(r, "look")
    /\ UNCHANGED <<has, reader>>

InventoryAction(r) ==
    /\ Answered(r, "item")
    /\ Raise(r, row) /\ Answer(r, "answered")
    /\ UNCHANGED <<docket, has, reader>>

PlayerNoteAdd(r) ==
    /\ Answered(r, "note")
    /\ Raise(r, row) /\ Go(r, "look")
    /\ UNCHANGED <<docket, has, reader>>

\* A turn may write the docket anew, and commits the log and the version together.
TurnCommits(r) ==
    /\ Answered(r, "turn")
    /\ docket' = [f \in Fields |-> r]
    /\ Raise(r, Logged(r, row)) /\ Go(r, "look")
    /\ UNCHANGED <<has, reader>>

-----------------------------------------------------------------------------
(* getCampaign(): the view is put together from several reads                  *)

Look(r) ==
    /\ \/ request[r].at = "look"
       \/ At(r, "look", "sent")
    /\ IF row.live
       THEN request' = [request EXCEPT ![r].at = "sheet", ![r].view.counts = row.counts, ![r].hero = row.hero]
       ELSE Answer(r, "failed")
    /\ UNCHANGED <<row, docket, has, reader>>

\* character_manage and inventory_manage; buildState() stops when they fail. Without a
\* hero there is no sheet to read.
ReadSheet(r) ==
    /\ request[r].at = "sheet"
    /\ \/ Answer(r, "failed") /\ request[r].hero
       \/ request' = [request EXCEPT ![r].at = "docket",
                                     ![r].view.sheet = IF request[r].hero THEN has ELSE {}]
    /\ UNCHANGED <<row, docket, has, reader>>

\* After the quests and the party, which may fail, the docket, and then the notes.
ReadDocket(r) ==
    /\ request[r].at = "docket"
    /\ request' = [request EXCEPT ![r].at = "notes", ![r].view.docket = {docket[f] : f \in Fields}]
    /\ UNCHANGED <<row, docket, has, reader>>

\* The version is the one the campaign has when the view is complete.
ReadNotes_Fresh(r) ==
    /\ request[r].at = "notes"
    /\ request' = [request EXCEPT ![r].at = "shown", ![r].view.notes = has, ![r].view.counts = row.counts]
    /\ UNCHANGED <<row, docket, has, reader>>

ReadNotes(r) ==
    /\ request[r].at = "notes"
    /\ \/ Answer(r, "failed")
       \/ request' = [request EXCEPT ![r].at = "shown", ![r].view.notes = has]
    /\ UNCHANGED <<row, docket, has, reader>>

-----------------------------------------------------------------------------
(* Deletion, and the route that binds a campaign to the engine                 *)

\* deleteCampaign(): the engine's side first; its failure is logged only.
Erased(r) ==
    /\ At(r, "delete", "calling")
    /\ \E done \in BOOLEAN : has' = IF done THEN {} ELSE has
    /\ Go(r, "erased")
    /\ UNCHANGED <<row, docket, reader>>

\* deleteRouting(): the commands and the row, and not the dockets
Delete(r) ==
    /\ At(r, "delete", "erased")
    /\ row' = NoRow
    /\ Answer(r, "answered")
    /\ UNCHANGED <<docket, has, reader>>

\* ensureReferenceSession(), for whatever campaign the request names
Reopen(r) ==
    /\ At(r, "reopen", "sent")
    /\ row' = [row EXCEPT !.live = TRUE]
    /\ Answer(r, "answered")
    /\ UNCHANGED <<docket, has, reader>>

-----------------------------------------------------------------------------
(* GET events/stream                                                         *)

\* A cursor that fell out of the log stands for its end.
Start_AtEnd == IF reader.cursor = NoOne THEN 0
               ELSE IF Contains(row.log, reader.cursor) THEN CHOOSE i \in DOMAIN row.log : row.log[i] = reader.cursor
               ELSE Len(row.log)

\* A cursor that fell out of the log stands for its beginning.
Start == IF Contains(row.log, reader.cursor) THEN CHOOSE i \in DOMAIN row.log : row.log[i] = reader.cursor
         ELSE 0

PageEnd == IF Start + PageSize > Len(row.log) THEN Len(row.log) ELSE Start + PageSize
HasMore == PageEnd < Len(row.log)

Page ==
    LET events == SubSeq(row.log, Start + 1, PageEnd) IN
    /\ reader' = [cursor |-> IF events = <<>> THEN reader.cursor ELSE Last(events),
                   page |-> events, seen |-> reader.seen \cup ToSet(events)]
    /\ UNCHANGED <<row, docket, has, request>>

Next ==
    \/ \E r \in Requests :
          \/ \E kind \in Kinds : Send(r, kind)
          \/ Route(r) \/ EngineAnswers(r)
          \/ CharacterCreate(r) \/ UpdateCharacterSpells(r) \/ UpdateCharacterDetails(r)
          \/ InventoryAction(r) \/ PlayerNoteAdd(r) \/ TurnCommits(r)
          \/ Look(r) \/ ReadSheet(r) \/ ReadDocket(r) \/ ReadNotes(r)
          \/ Erased(r) \/ Delete(r) \/ Reopen(r)
    \/ Page

Spec == Init /\ [][Next]_vars

-----------------------------------------------------------------------------
(* Properties                                                               *)

TypeOK ==
    /\ row.version \in 0..Cardinality(Requests) /\ Len(row.log) <= MaxLog
    /\ row.counts \subseteq Requests /\ row.log \in Seq(Requests)
    /\ docket \in [Fields -> Requests \cup {NoOne}]
    /\ has \subseteq Requests
    /\ \A r \in Requests : request[r].kind \in AllKinds \cup {"none"}

\* A page never shows a version together with contents older than it: every edit the
\* shown version has been raised for is in what the page shows, however the reads
\* interleaved with other requests (buildState(), and the order of write and bump). A page
\* without a hero has no sheet: so it is when a campaign was deleted and bound anew while
\* an edit of the hero it had was under way.
Overwritten(q) == \A f \in request[q].fields : docket[f] # q
VersionNotAhead ==
    \A r \in Requests : request[r].at = "shown" =>
        \A q \in request[r].view.counts :
            /\ request[q].kind \in {"create", "spells", "item"} =>
                  \/ q \in request[r].view.sheet \/ q \notin has
                  \/ ~request[r].hero /\ request[q].kind # "create"
            /\ request[q].kind = "note" => q \in request[r].view.notes \/ q \notin has
            /\ request[q].kind \in {"details", "turn"} => q \in request[r].view.docket \/ Overwritten(q)

\* An edit of the character's details changes the fields it names, and no other edit's
\* words are lost to it, whatever ran while it waited for the engine.
OnlyNamedFields ==
    \A f \in Fields : docket'[f] # docket[f] =>
       \E r \in Requests : docket'[f] = r /\ f \in request[r].fields

\* No edit that was under way when the campaign was deleted brings it back: only the
\* route that binds a campaign to the engine makes a row.
EditsNeverRevive ==
    ~row.live /\ row'.live => \E r \in Requests : At(r, "reopen", "sent")

\* A follower of the event stream that is told there is no more has been given every
\* event in the log, also when its cursor fell out of the log in the meantime.
NothingSkipped ==
    reader' # reader /\ ~HasMore => ToSet(row.log) \subseteq reader'.seen

\* docs/ADR-H22: "A stale version returns `409 stale_version` and leaves every row
\* unchanged."
DeletedAsSeen ==
    [][\A r \in Requests : At(r, "delete", "erased") /\ row.live /\ ~row'.live
          => row.version = request[r].expected]_vars
=============================================================================
