----------------------------- MODULE Quickstart -----------------------------
(***************************************************************************)
(* "Play now": one quickstart intent of a player (a request ID the browser  *)
(* keeps and repeats), the claim that shall keep its repetitions from       *)
(* making a second campaign (src/store.ts), and the HTTP requests that      *)
(* create, resume or return the campaign (src/server.ts) through the        *)
(* reference-engine adapter (src/reference-engine-adapter.ts).              *)
(*                                                                         *)
(* A request is cut at its awaits; each of them may fail before or after    *)
(* the remote engine did its part, and the engine may refuse a call. The    *)
(* player may delete the campaign, and the process may restart.             *)
(*                                                                         *)
(* An operator named X_Y is X with a deliberate fault: it is never part of  *)
(* the specification, and only shows that a property can fail.              *)
(***************************************************************************)
EXTENDS Naturals, FiniteSets, Sequences

CONSTANTS
    Requests,      \* the HTTP requests that may run at the same time
    Presets,
    NoPreset,      \* none of the presets
    MaxMishaps     \* bound: failures, refusals, deletions, restarts and requests
                   \* that outlast QUICKSTART_CLAIM_STALE_MS

VARIABLES
    claim,     \* the row of quickstart_requests
    campaign,  \* the rows of reference_engine_sessions ever made, with the engine's side
    request,   \* the HTTP requests in progress
    mishaps,   \* what has gone wrong
    causes     \* ghost: how often a second attempt was due to something

vars == <<claim, campaign, request, mishaps, causes>>

NoClaim == [status |-> "none", campaign |-> 0, preset |-> NoPreset, aged |-> FALSE]
NoCampaign == [listed |-> FALSE, preset |-> NoPreset, hero |-> NoPreset, heroes |-> 0]
NoRequest == [at |-> "idle", preset |-> NoPreset, campaign |-> 0, done |-> FALSE, earlier |-> NoPreset]

Init ==
    /\ claim = NoClaim
    /\ campaign = <<>>
    /\ request = [r \in Requests |-> NoRequest]
    /\ mishaps = [left |-> MaxMishaps, seen |-> {}]
    /\ causes = 0

Live == {r \in Requests : request[r].at # "idle"}

Mishap(kind) ==
    /\ mishaps.left > 0
    /\ mishaps' = [left |-> mishaps.left - 1, seen |-> mishaps.seen \cup {kind}]

-----------------------------------------------------------------------------
(* The claim.                                                               *)

\* A claim in progress does not keep others out.
Claimable_Always == claim.status \in {"none", "open", "claimed"}

\* claimQuickstartRequest() answers "claimed".
Claimable == claim.status \in {"none", "open"} \/ (claim.status = "claimed" /\ claim.aged)

\* The preset is forgotten; the intent counts as done before its character.
Attached_NoPreset(c, preset) == claim' = [claim EXCEPT !.campaign = c]
Attached_Done(c, preset) == claim' = [claim EXCEPT !.campaign = c, !.preset = preset, !.status = "done"]

\* attachQuickstartCampaign()
Attached(c, preset) == claim' = [claim EXCEPT !.campaign = c, !.preset = preset]

\* A status the table does not have.
Released_Failed(row) == IF row.status = "claimed" THEN [row EXCEPT !.status = "failed"] ELSE row

\* releaseQuickstartRequest(): only what is claimed, by whomever.
Released(row) == IF row.status = "claimed" THEN [row EXCEPT !.status = "open"] ELSE row

\* The request fails: releaseClaim() and an error to the browser.
GiveUp(r, row) ==
    /\ claim' = Released(row)
    /\ request' = [request EXCEPT ![r] = NoRequest]
    /\ causes' = causes + 1

\* createCampaign(): the routing row comes first, then the engine is called.
\* count: this is a second attempt, and why is known.
Create(r, preset, count) ==
    /\ campaign' = Append(campaign, [NoCampaign EXCEPT !.listed = TRUE, !.preset = preset])
    /\ request' = [request EXCEPT ![r] = [NoRequest EXCEPT !.at = "session", !.preset = preset, !.campaign = Len(campaign')]]
    /\ causes' = causes + count

\* A request claims the intent, and looks for the campaign of an earlier one.
Claim(r, preset) ==
    /\ request[r].at = "idle"
    /\ Claimable
    /\ claim' = [claim EXCEPT !.status = "claimed", !.aged = FALSE]
    /\ LET count == IF claim.status = "claimed" /\ claim.aged /\ Live # {} THEN 1 ELSE 0
       IN  \/ claim.campaign = 0 /\ Create(r, preset, count)
           \/ /\ claim.campaign # 0
              /\ request' = [request EXCEPT ![r] = [at |-> "prior", preset |-> preset, campaign |-> claim.campaign,
                                                    done |-> FALSE, earlier |-> claim.preset]]
              /\ causes' = causes + count
              /\ UNCHANGED campaign
    /\ UNCHANGED mishaps

\* The intent is done: its campaign is looked up and returned.
Replay(r, preset) ==
    /\ request[r].at = "idle"
    /\ claim.status = "done"
    /\ request' = [request EXCEPT ![r] = [at |-> "prior", preset |-> preset, campaign |-> claim.campaign,
                                          done |-> TRUE, earlier |-> claim.preset]]
    /\ UNCHANGED <<claim, campaign, mishaps, causes>>

\* Two minutes pass. Of a claim that a process took with it when it stopped,
\* or of a slow request.
Age ==
    /\ claim.status = "claimed" /\ ~claim.aged
    /\ IF Live = {} THEN UNCHANGED mishaps ELSE Mishap("slow")
    /\ claim' = [claim EXCEPT !.aged = TRUE]
    /\ UNCHANGED <<campaign, request, causes>>

-----------------------------------------------------------------------------
(* The awaits of a request.                                                 *)

\* Whatever was found is returned.
PriorFound_Returns(r) ==
    /\ request[r].at = "prior"
    /\ campaign[request[r].campaign].listed
    /\ request' = [request EXCEPT ![r] = NoRequest]
    /\ UNCHANGED <<claim, campaign, mishaps, causes>>

\* The earlier campaign is there: return it, or go on with its character.
PriorFound(r) ==
    LET q == request[r]
    IN  /\ q.at = "prior"
        /\ campaign[q.campaign].listed
        /\ request' = [request EXCEPT ![r] = IF q.done THEN NoRequest
                                               ELSE [q EXCEPT !.at = "character", !.preset = q.earlier, !.earlier = NoPreset]]
        /\ UNCHANGED <<claim, campaign, mishaps, causes>>

\* It is gone, or could not be read: another one is made.
PriorMissing(r) ==
    /\ request[r].at = "prior"
    /\ IF campaign[request[r].campaign].listed THEN Mishap("unread") ELSE UNCHANGED mishaps
    /\ Create(r, request[r].preset, 1)
    /\ UNCHANGED claim

\* session_manage answers; a row deleted meanwhile cannot take the world's id.
SessionMade(r) ==
    /\ request[r].at = "session"
    /\ IF campaign[request[r].campaign].listed
       THEN request' = [request EXCEPT ![r].at = "view"] /\ UNCHANGED <<claim, causes>>
       ELSE GiveUp(r, claim)
    /\ UNCHANGED <<campaign, mishaps>>

\* The new campaign has been read back: it is attached to the claim.
Attach(r) ==
    LET q == request[r]
    IN  /\ q.at = "view"
        /\ campaign[q.campaign].listed
        /\ Attached(q.campaign, q.preset)
        /\ request' = [request EXCEPT ![r].at = "character"]
        /\ UNCHANGED <<campaign, mishaps, causes>>

\* The same, when the player has deleted it in the meantime.
AttachDeleted(r) ==
    LET q == request[r]
    IN  /\ q.at = "view"
        /\ ~campaign[q.campaign].listed
        /\ GiveUp(r, [claim EXCEPT !.campaign = q.campaign, !.preset = q.preset])
        /\ UNCHANGED <<campaign, mishaps>>

\* character_manage has made the character: characterCreate() refers to it.
CharacterMade(r) ==
    LET q == request[r]
    IN  /\ q.at = "character"
        /\ campaign' = [campaign EXCEPT ![q.campaign].heroes = @ + 1,
                                        ![q.campaign].hero = IF campaign[q.campaign].listed THEN q.preset ELSE @]
        /\ IF campaign[q.campaign].listed
           THEN request' = [request EXCEPT ![r].at = "party"] /\ UNCHANGED <<claim, causes>>
           ELSE GiveUp(r, claim)
        /\ UNCHANGED mishaps

\* The engine refuses the character, and characterCreate() does not notice.
CharacterRefused(r) ==
    /\ request[r].at = "character"
    /\ campaign[request[r].campaign].listed
    /\ Mishap("refused")
    /\ request' = [request EXCEPT ![r].at = "party"]
    /\ UNCHANGED <<claim, campaign, causes>>

\* The character is in the party, and the campaign's version is bumped.
PartyJoined(r) ==
    /\ request[r].at = "party"
    /\ request' = [request EXCEPT ![r].at = "scene"]
    /\ UNCHANGED <<claim, campaign, mishaps, causes>>

\* commitQuickstartStarter() has ended, with or without a first scene: the
\* intent is done.
Complete(r) ==
    /\ request[r].at = "scene"
    /\ claim' = [claim EXCEPT !.status = "done"]
    /\ request' = [request EXCEPT ![r].at = "answer"]
    /\ UNCHANGED <<campaign, mishaps, causes>>

Answer(r) ==
    /\ request[r].at = "answer"
    /\ request' = [request EXCEPT ![r] = NoRequest]
    /\ UNCHANGED <<claim, campaign, mishaps, causes>>

\* A call to the engine throws: its work undone, or done and the answer lost.
Fail(r) ==
    LET q == request[r]
    IN  /\ q.at \in {"session", "view", "character", "party", "answer"}
        /\ Mishap("failed")
        /\ \/ UNCHANGED campaign
           \/ q.at = "character" /\ campaign' = [campaign EXCEPT ![q.campaign].heroes = @ + 1]
        /\ GiveUp(r, claim)

\* DELETE /api/campaigns/:campaignId
Delete(c) ==
    /\ campaign[c].listed
    /\ Mishap("deleted")
    /\ campaign' = [campaign EXCEPT ![c].listed = FALSE]
    /\ UNCHANGED <<claim, request, causes>>

\* The web process stops and starts again.
Restart ==
    /\ Live # {}
    /\ Mishap("restarted")
    /\ request' = [r \in Requests |-> NoRequest]
    /\ causes' = causes + Cardinality(Live)
    /\ UNCHANGED <<claim, campaign>>

Submit(r) == \E preset \in Presets : Claim(r, preset) \/ Replay(r, preset)

Proceed(r) ==
    \/ PriorFound(r) \/ PriorMissing(r)
    \/ SessionMade(r) \/ Attach(r) \/ AttachDeleted(r)
    \/ CharacterMade(r) \/ PartyJoined(r) \/ Complete(r) \/ Answer(r)

Next ==
    \/ \E r \in Requests : Submit(r) \/ Proceed(r) \/ CharacterRefused(r) \/ Fail(r)
    \/ \E c \in DOMAIN campaign : Delete(c)
    \/ Age
    \/ Restart

\* A call to the engine ends (each has a timeout); the browser keeps the intent
\* and repeats it on every page load until it has succeeded; clocks go on.
Fairness ==
    /\ \A r \in Requests : WF_vars(Proceed(r)) /\ WF_vars(Submit(r))
    /\ WF_vars(Age)

Spec == Init /\ [][Next]_vars /\ Fairness

-----------------------------------------------------------------------------
(* Properties.                                                              *)

Campaigns == [listed : BOOLEAN, preset : Presets, hero : Presets \cup {NoPreset}, heroes : Nat]

TypeOK ==
    /\ claim \in [status : {"none", "open", "claimed", "done"}, campaign : 0..Len(campaign),
                  preset : Presets \cup {NoPreset}, aged : BOOLEAN]
    /\ campaign \in Seq(Campaigns)
    /\ request \in [Requests -> [at : {"idle", "prior", "session", "view", "character", "party", "scene", "answer"},
                                 preset : Presets \cup {NoPreset}, campaign : 0..Len(campaign),
                                 done : BOOLEAN, earlier : Presets \cup {NoPreset}]]
    /\ causes \in Nat
    /\ mishaps \in [left : 0..MaxMishaps, seen : SUBSET {"slow", "unread", "refused", "failed", "deleted", "restarted"}]

Beyond(n) == IF n > 1 THEN n - 1 ELSE 0

\* The characters of a campaign beyond its first.
Extra == UNION {{c} \X (2..campaign[c].heroes) : c \in DOMAIN campaign}

Duplicates == Beyond(Len(campaign)) + Cardinality(Extra)

\* However requests, failures, deletions, restarts and take-overs interleave,
\* each campaign or character beyond the first has a cause of its own: a request
\* that failed, stopped or was overtaken, or an earlier campaign that could not be
\* read. Repeating the intent as such never makes a second one (the claim comes
\* before the campaign).
DuplicatesExcused == Duplicates <= causes

\* A character is always the one of the preset its campaign was made for, also
\* when the repetition that makes it was sent for another preset ("random").
PresetKept == \A c \in DOMAIN campaign : campaign[c].hero \in {NoPreset, campaign[c].preset}

\* An intent that is done names a campaign with its character, unless the player
\* deleted it, the engine refused the character, a repetition could not read it or
\* a request was taken over while it still ran; failures before or after the engine
\* did its part, restarts and repetitions do not lead there.
DoneMeansPlayable ==
    claim.status = "done" /\ mishaps.seen \cap {"deleted", "refused", "unread", "slow"} = {}
        => claim.campaign # 0 /\ campaign[claim.campaign].hero # NoPreset

\* The comment of claimQuickstartRequest(): a replay can never create a second
\* campaign.
OneCampaign == Len(campaign) <= 1

\* A claim is never stuck: in the end the player has a campaign.
EveryIntentDone == <>(claim.status = "done")
=============================================================================
