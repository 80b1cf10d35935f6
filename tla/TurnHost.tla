------------------------------ MODULE TurnHost ------------------------------
(***************************************************************************)
(* What the web host answers about a turn (src/server.ts, src/turn-failure.ts):  *)
(* the requests that post a player's command or open the story, repeated by the    *)
(* browser while it does not know how they ended, and the status route.              *)
(*                                                                         *)
(* How the readiness the host reports follows from it is module HostHealth's.         *)
(*                                                                         *)
(* The turn itself is module ReferenceTurn's: here a turn with a receipt has the     *)
(* engine accept calls, and ends. Its lease does not run out, and the host hears of    *)
(* every call the engine accepts: what a lost answer does to the receipt is shown there. *)
(*                                                                         *)
(* An operator named X_Y is X with a deliberate fault: it is never part of   *)
(* the specification, and only shows that a property can fail.               *)
(***************************************************************************)
EXTENDS Naturals, FiniteSets

CONSTANTS
    Posts,      \* HTTP requests, each sent once
    Commands    \* client command IDs

VARIABLES
    turn,      \* the row of reference_engine_commands, and whether the engine changed state for it
    post,      \* the requests
    told       \* what the host has said of each command: Claims

vars == <<turn, post, told>>

Causes == {"capacity", "usage_limit", "service_limit", "provider_auth", "provider_unavailable"}
NoAnswer == [reason |-> "none", commit |-> "none", retryable |-> FALSE]
NoTurn == [status |-> "none", commit |-> "none", changed |-> FALSE]

Init ==
    /\ turn = [c \in Commands |-> NoTurn]
    /\ post = [p \in Posts |-> [at |-> "idle", cmd |-> CHOOSE c \in Commands : TRUE, answer |-> NoAnswer]]
    /\ told = [c \in Commands |-> {}]

-----------------------------------------------------------------------------
(* turnFailure(): one envelope for every way a turn can fail                   *)

Envelope(reason, commit, retryable) == [reason |-> reason, commit |-> commit, retryable |-> retryable]

\* Refusals the turn meets before it has a receipt of its own
Refused == [stale_version |-> Envelope("stale_version", "not_committed", TRUE),
            command_conflict |-> Envelope("command_conflict", "unknown", FALSE),
            campaign_not_found |-> Envelope("campaign_not_found", "not_committed", FALSE)]

\* A capacity or quota refusal reported as such, whatever came before it.
Failed_ByCause(cause, receipt) ==
    IF cause \in {"capacity", "usage_limit", "service_limit"}
    THEN Envelope(cause, "not_committed", cause = "capacity")
    ELSE Envelope(cause, receipt, receipt = "not_committed" /\ cause # "provider_auth")

\* The DM's own receipt wins.
Failed(cause, receipt) ==
    Envelope(cause, receipt, cause \in {"capacity", "provider_unavailable"} /\ receipt = "not_committed")

\* A command that had failed is told to be safe to repeat.
AlreadyFailed_Safe(commit) == Envelope("already_failed", "not_committed", TRUE)

AlreadyFailed(commit) == Envelope("already_failed", commit, commit = "not_committed")

\* A result. The account's usage is read after the receipt has it, and when that fails the
\* answer knows nothing of it.
Resolved == {Envelope("resolved", "committed", FALSE), Envelope("engine_unavailable", "unknown", TRUE)}

\* GET commands/:clientCommandId, of a command that failed
Status(commit) == Envelope("failed", commit, commit = "not_committed")

Answer(p, e) == post' = [post EXCEPT ![p].at = "answered", ![p].answer = e]

\* What an answer says of a command: what it read in the receipt, that it does not know, or,
\* "refused", that the request was not admitted and nothing is committed.
Claims == {"not_committed", "uncertain", "committed", "unknown", "refused"}

Tell(c, claim) == told' = [told EXCEPT ![c] = @ \cup {claim}]

-----------------------------------------------------------------------------
(* Requests                                                                  *)

\* A command, or the opening, which abuse admission is not asked about; admission and the
\* start of the turn are one step.
Post(p, c) ==
    /\ post[p].at = "idle"
    /\ post' = [post EXCEPT ![p].at = "sent", ![p].cmd = c]
    /\ UNCHANGED <<turn, told>>

\* abuseGuard.admitTurn() refuses before anything else is looked at.
AtTheDoor == {"rate_limited", "account_blocked"}

NotAdmitted(p) ==
    /\ post[p].at = "sent"
    /\ \E reason \in AtTheDoor :
          Answer(p, Envelope(reason, "not_committed", reason = "rate_limited"))
    /\ Tell(post[p].cmd, "refused")
    /\ UNCHANGED turn

Refuse(p) ==
    /\ post[p].at = "sent" /\ turn[post[p].cmd].status = "none"
    /\ \E reason \in {"stale_version", "campaign_not_found"} : Answer(p, Refused[reason])
    /\ UNCHANGED <<turn, told>>

\* resolveTurn() finds the command's row: it is running, or it has ended.
Again(p) ==
    LET c == post[p].cmd IN
    /\ post[p].at = "sent"
    /\ \/ turn[c].status = "processing" /\ Answer(p, Refused.command_conflict) /\ UNCHANGED told
       \/ turn[c].status = "failed" /\ LET e == AlreadyFailed(turn[c].commit) IN Answer(p, e) /\ Tell(c, e.commit)
       \/ turn[c].status = "resolved" /\ \E e \in Resolved : Answer(p, e) /\ Tell(c, e.commit)
    /\ UNCHANGED turn

Begin(p) ==
    /\ post[p].at = "sent" /\ turn[post[p].cmd].status = "none"
    /\ turn' = [turn EXCEPT ![post[p].cmd].status = "processing"]
    /\ post' = [post EXCEPT ![p].at = "running"]
    /\ UNCHANGED <<told>>

\* The engine accepts a call that changes state.
Accepted(p) ==
    /\ post[p].at = "running" /\ ~turn[post[p].cmd].changed
    /\ turn' = [turn EXCEPT ![post[p].cmd].changed = TRUE]
    /\ UNCHANGED <<post, told>>

\* failTurn() writes the receipt before the error reaches the route.
Fail(p, cause) ==
    LET c == post[p].cmd
        receipt == IF turn[c].changed THEN "uncertain" ELSE "not_committed"
        e == Failed(cause, receipt)
    IN  /\ post[p].at = "running"
        /\ turn' = [turn EXCEPT ![c].status = "failed", ![c].commit = receipt]
        /\ Answer(p, e) /\ Tell(c, e.commit)

\* A result, on the stream or at once
Succeed(p) ==
    LET c == post[p].cmd IN
    /\ post[p].at = "running"
    /\ turn' = [turn EXCEPT ![c].status = "resolved", ![c].changed = TRUE]
    /\ \E e \in Resolved : Answer(p, e) /\ Tell(c, e.commit)

Poll(c) ==
    /\ turn[c].status \in {"failed", "resolved"}
    /\ Tell(c, IF turn[c].status = "failed" THEN Status(turn[c].commit).commit ELSE "committed")
    /\ UNCHANGED <<turn, post>>

Next ==
    \/ \E p \in Posts :
          \/ \E c \in Commands : Post(p, c)
          \/ NotAdmitted(p) \/ Refuse(p) \/ Again(p) \/ Begin(p) \/ Accepted(p) \/ Succeed(p)
          \/ \E cause \in Causes : Fail(p, cause)
    \/ \E c \in Commands : Poll(c)

Spec == Init /\ [][Next]_vars

-----------------------------------------------------------------------------
(* Properties                                                               *)

TypeOK ==
    /\ \A c \in Commands : turn[c].status \in {"none", "processing", "failed", "resolved"}
    /\ \A p \in Posts : post[p].at \in {"idle", "sent", "running", "answered"} /\ post[p].cmd \in Commands
    /\ \A c \in Commands : told[c] \subseteq Claims

\* A turn of which the engine accepted a change is never answered as not committed: a
\* capacity, quota or provider fault that ends it later does not hide the change
\* (turnFailure(), "the DM's own receipt wins"). It is called safe to repeat only when its
\* receipt has the result, which a repetition is given.
ReceiptWins ==
    \A p \in Posts : post[p].at = "running" /\ post'[p].at = "answered" /\ turn'[post[p].cmd].changed
       => /\ post'[p].answer.commit # "not_committed"
          /\ post'[p].answer.retryable => turn'[post[p].cmd].status = "resolved"

TurnedAway(p) == post[p].at = "answered" /\ post[p].answer.reason \in AtTheDoor

\* The request runs a turn, or got the answer of one.
Entered(p) ==
    \/ post[p].at = "running"
    \/ post[p].at = "answered" /\ post[p].answer.reason \in Causes \cup {"resolved", "engine_unavailable"}

\* Of what a command committed, every answer that read its receipt tells one story: the
\* first answer, its repetitions and the status route, in any order. None tells "not
\* committed" of a command that changed the engine's state. Two answers do not come from the
\* receipt. One says that it knows nothing. The other refuses the request at the door as not
\* committed: that is wrong only of a repetition, when another request of the command has
\* been let in and runs, or was answered by its turn.
OneStory ==
    /\ \A c \in Commands :
          LET read == told[c] \ {"unknown", "refused"}
          IN  Cardinality(read) <= 1 /\ ("not_committed" \in read => ~turn[c].changed)
    /\ \A p \in Posts : TurnedAway(p) /\ turn[post[p].cmd].changed =>
          \E q \in Posts \ {p} : post[q].cmd = post[p].cmd /\ Entered(q)

\* src/src/server.ts:323-328, of the refusals of abuse admission: "Nothing has been committed
\* at this point, so both refusals are cleanly not-committed and safe for the client to
\* surface as-is." Of a repetition it is not so: its command may have ended with a change.
RefusalsCommitNothing ==
    [][\A p \in Posts :
          post[p].at = "sent" /\ TurnedAway(p)' => ~turn[post[p].cmd].changed]_vars
=============================================================================
