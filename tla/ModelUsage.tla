----------------------------- MODULE ModelUsage -----------------------------
(***************************************************************************)
(* The usage ledger of the Lantern dungeon master: every request of a run  *)
(* leaves one telemetry event, a silent primary model is followed once by  *)
(* the fallback model, the events of a completion are flushed together,    *)
(* and the ledger keeps one row for each run and request sequence and one  *)
(* for each provider request. The process may stop at any point. Tokens,   *)
(* costs and latencies are left out.                                       *)
(***************************************************************************)
EXTENDS Naturals, FiniteSets, FiniteSetsExt

CONSTANTS Runs,         \* dmRunIds
          HasFallback,  \* a fallback model is configured
          MaxRequests   \* bound on the requests of a run

VARIABLES asked,     \* run -> requests sent so far (nextRequestSequence)
          inflight,  \* run -> the selection of the request that is out, or "none"
          buffer,    \* run -> telemetry events not yet flushed
          flushed,   \* number of events handed to the ledger
          rows,      \* model_usage_records
          lost,      \* number of events a stop of the process lost
          alive      \* runs of the current process

vars == <<asked, inflight, buffer, flushed, rows, lost, alive>>

Statuses == {"success", "provider_error", "timeout_before_output",
             "interrupted_after_output", "invalid_response"}

Init ==
  /\ asked = [r \in Runs |-> 0]
  /\ inflight = [r \in Runs |-> "none"]
  /\ buffer = [r \in Runs |-> {}]
  /\ flushed = 0 /\ rows = {} /\ lost = 0
  /\ alive = Runs

-----------------------------------------------------------------------------
Request(r) ==
  /\ r \in alive /\ inflight[r] = "none" /\ buffer[r] = {}
  /\ asked[r] < MaxRequests
  /\ asked' = [asked EXCEPT ![r] = @ + 1]
  /\ inflight' = [inflight EXCEPT ![r] = "primary"]
  /\ UNCHANGED <<buffer, flushed, rows, lost, alive>>

Event(r, status) == [run |-> r, seq |-> asked[r], selection |-> inflight[r], status |-> status]

\* A mutant of Retried: any failed request goes to the fallback model.
Retried_Errors(r, status) == inflight[r] = "primary" /\ HasFallback /\ status /= "success"

\* requestCompletion: only a model that said nothing in time is replaced.
Retried(r, status) ==
  inflight[r] = "primary" /\ HasFallback /\ status = "timeout_before_output"

\* A mutant of NextSequence: the fallback request reuses the sequence number.
NextSequence_Same(r) == asked[r]

NextSequence(r) == asked[r] + 1

\* requestStreamingCompletion ends, whichever way; the event goes to the
\* caller's buffer, and requestCompletion may ask the fallback model.
Respond(r) ==
  /\ inflight[r] /= "none"
  /\ \E status \in Statuses :
       /\ buffer' = [buffer EXCEPT ![r] = @ \cup {Event(r, status)}]
       /\ IF Retried(r, status)
          THEN /\ inflight' = [inflight EXCEPT ![r] = "fallback"]
               /\ asked' = [asked EXCEPT ![r] = NextSequence(r)]
          ELSE /\ inflight' = [inflight EXCEPT ![r] = "none"]
               /\ UNCHANGED asked
  /\ UNCHANGED <<flushed, rows, lost, alive>>

-----------------------------------------------------------------------------
\* INSERT OR IGNORE under UNIQUE (account, command, run, sequence), in the
\* order of the requests.
Insert(events) ==
  rows \cup {e \in events : \A x \in rows : ~(x.run = e.run /\ x.seq = e.seq)
                              /\ \A y \in events \ {e} :
                                   (y.run = e.run /\ y.seq = e.seq) => y.selection = "fallback"}

Flush(r) ==
  /\ inflight[r] = "none" /\ buffer[r] /= {}
  /\ rows' = Insert(buffer[r])
  /\ flushed' = flushed + Cardinality(buffer[r])
  /\ buffer' = [buffer EXCEPT ![r] = {}]
  /\ UNCHANGED <<asked, inflight, lost, alive>>

\* The events of a request that is out, or that are not flushed, are gone,
\* and no run goes on in the next process.
Stop ==
  /\ alive /= {}
  /\ \E r \in alive : asked[r] > 0
  /\ lost' = lost + Cardinality(UNION {buffer[r] : r \in Runs})
                  + Cardinality({r \in Runs : inflight[r] /= "none"})
  /\ alive' = {r \in alive : asked[r] = 0}
  /\ inflight' = [r \in Runs |-> "none"]
  /\ buffer' = [r \in Runs |-> {}]
  /\ UNCHANGED <<asked, flushed, rows>>

Next == Stop \/ \E r \in Runs : Request(r) \/ Respond(r) \/ Flush(r)

Spec == Init /\ [][Next]_vars

-----------------------------------------------------------------------------
TypeOK ==
  /\ asked \in [Runs -> 0..MaxRequests + 1]
  /\ inflight \in [Runs -> {"none", "primary", "fallback"}]
  /\ flushed \in Nat /\ lost \in Nat
  /\ \A x \in rows : x.run \in Runs /\ x.status \in Statuses
  /\ alive \subseteq Runs

\* Every request is accounted for: it is in the ledger, it is still on its
\* way, or a stop of the process lost it; none is counted twice.
RequestsAccounted ==
  MapThenSumSet(LAMBDA r : asked[r], Runs)
    = Cardinality(rows) + lost + Cardinality({r \in Runs : inflight[r] /= "none"})
        + Cardinality(UNION {buffer[r] : r \in Runs})

\* A fallback row is the answer to silence: the row before it is the primary
\* request of the same run, and it produced no output in time.
FallbackFollowsSilence ==
  \A x \in rows : x.selection = "fallback" =>
    \E y \in rows : y.run = x.run /\ y.seq + 1 = x.seq
                      /\ y.selection = "primary" /\ y.status = "timeout_before_output"

=============================================================================
