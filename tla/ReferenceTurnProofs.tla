------------------------ MODULE ReferenceTurnProofs ------------------------
(***************************************************************************)
(* What holds of the turns of the reference engine for any set of command   *)
(* IDs, any number of tool calls and any transcript cap: the types, that    *)
(* live turns keep apart, that an unanswered rejection is never narrated    *)
(* over, that clients hear one outcome and find it in the transcript, and   *)
(* that the receipts implement TurnReceipts.                                *)
(***************************************************************************)
EXTENDS ReferenceTurn, SequenceTheorems, FiniteSetTheorems, TLAPS

---------------------------------------------------------------------------
(* Receipts and turns are records of their types.                          *)

\* Whatever the store writes over a receipt is a receipt.
LEMMA ReceiptUpdates ==
    ASSUME NEW r \in ReceiptType
    PROVE  /\ r # NoReceipt
           /\ Touched(r) \in ReceiptType
           /\ [r EXCEPT !.lapsed = TRUE] \in ReceiptType
           /\ \A o \in Outcomes : Failed(r, o) \in ReceiptType
           /\ \A v \in Nat : Resolved(r, v) \in ReceiptType
<1>1. r # NoReceipt
  BY TurnAssumption
<1>2. Touched(r) \in ReceiptType /\ [r EXCEPT !.lapsed = TRUE] \in ReceiptType
  BY DEF ReceiptType, Touched
<1>3. \A o \in Outcomes : Failed(r, o) \in ReceiptType
  BY DEF ReceiptType, Failed
<1>4. \A v \in Nat : Resolved(r, v) \in ReceiptType
  BY DEF ReceiptType, Resolved, Outcomes
<1> QED
  BY <1>1, <1>2, <1>3, <1>4

\* What a write over a receipt keeps.
LEMMA ReceiptFields ==
    ASSUME NEW r \in ReceiptType
    PROVE  /\ Touched(r).status = r.status /\ Touched(r).base = r.base /\ ~Touched(r).lapsed
           /\ Touched(r).outcome = r.outcome /\ Touched(r).version = r.version /\ Touched(r).turn = r.turn
           /\ \A o : /\ Failed(r, o).status = "failed" /\ Failed(r, o).base = r.base
                     /\ Failed(r, o).outcome = o /\ Failed(r, o).turn = r.turn
           /\ \A v : /\ Resolved(r, v).status = "resolved" /\ Resolved(r, v).base = r.base
                     /\ Resolved(r, v).outcome = "resolved" /\ Resolved(r, v).version = v
                     /\ Resolved(r, v).turn = r.turn
  BY DEF ReceiptType, Touched, Failed, Resolved

\* A fresh receipt.
LEMMA ReceivedType ==
    ASSUME NEW t \in Turns, NEW v \in Versions, NEW q \in Texts
    PROVE  Received(t, v, q) \in ReceiptType
  BY TurnAssumption DEF ReceiptType, Received

\* A receipt that is closed carries an outcome to replay.
Settled(r) == r # NoReceipt /\ r.status # "processing" => r.outcome \in Outcomes

ClosedHaveOutcome == \A c \in Commands : Settled(row[c])

\* The rows after some of them were failed (beginReferenceCommand()).
LEMMA ExpiredRows ==
    ASSUME NEW rows \in [Commands -> ReceiptType \cup {NoReceipt}], NEW cs \in SUBSET Commands,
           \A c \in cs : rows[c] # NoReceipt
    PROVE  Expired(rows, cs) \in [Commands -> ReceiptType \cup {NoReceipt}]
<1>1. ASSUME NEW c \in cs
      PROVE  Failed(rows[c], "uncertain") \in ReceiptType
  <2>1. rows[c] \in ReceiptType /\ "uncertain" \in Outcomes
    BY DEF Outcomes
  <2> QED
    BY <2>1, ReceiptUpdates
<1> QED
  BY <1>1 DEF Expired

\* The state of a turn after each thing that can happen to it.
LEMMA TurnUpdates ==
    ASSUME NEW r \in TurnType
    PROVE  /\ \A p \in Phases : [r EXCEPT !.phase = p] \in TurnType
           /\ [r EXCEPT !.phase = "tool", !.calls = @ + 1] \in TurnType
           /\ [r EXCEPT !.calls = @ + 1] \in TurnType
           /\ [r EXCEPT !.recovering = FALSE, !.warned = TRUE] \in TurnType
           /\ \A v \in Nat : [r EXCEPT !.phase = "session", !.version = v] \in TurnType
           /\ \A k : Accepted(r, k) \in TurnType
           /\ \A k \in Keys : Refused(r, k) \in TurnType
<1>1. \A k : Accepted(r, k) \in TurnType
  BY DEF TurnType, Accepted
<1>2. \A k \in Keys : Refused(r, k) \in TurnType
  BY DEF TurnType, Refused
<1>3. \A p \in Phases : [r EXCEPT !.phase = p] \in TurnType
  BY DEF TurnType
<1>4. "tool" \in Phases /\ "session" \in Phases
  BY DEF Phases
<1>5. ASSUME NEW n \in Nat
      PROVE  /\ [r EXCEPT !.phase = "tool", !.calls = n] \in TurnType
             /\ [r EXCEPT !.calls = n] \in TurnType
  BY <1>4 DEF TurnType
<1>6. [r EXCEPT !.recovering = FALSE, !.warned = TRUE] \in TurnType
  BY DEF TurnType
<1>8. r.calls + 1 \in Nat
  BY DEF TurnType
<1>7. \A v \in Nat : [r EXCEPT !.phase = "session", !.version = v] \in TurnType
  BY <1>4 DEF TurnType
<1> QED
  BY <1>1, <1>2, <1>3, <1>5, <1>6, <1>7, <1>8

\* A turn that is not there.
LEMMA NoTurnType == NoTurn \in TurnType
  BY DEF NoTurn, TurnType, Phases

\* The transcript keeps to its cap and loses only its oldest messages
\* (appendLogMessages()).
LEMMA LastOfProperties ==
    ASSUME NEW S, NEW s \in Seq(S)
    PROVE  /\ LastOf(s) \in Seq(S)
           /\ Len(LastOf(s)) = IF Len(s) > LogCap THEN LogCap ELSE Len(s)
           /\ \A i \in 1..Len(LastOf(s)) :
                 LastOf(s)[i] = s[i + (IF Len(s) > LogCap THEN Len(s) - LogCap ELSE 0)]
<1>1. Len(s) \in Nat /\ LogCap \in Nat \ {0}
  BY TurnAssumption
<1> DEFINE from == IF Len(s) > LogCap THEN Len(s) - LogCap + 1 ELSE 1
<1>2. from \in Int /\ from >= 1 /\ from <= Len(s) + 1
  BY <1>1
<1>3. \A i \in from..Len(s) : s[i] \in S
  BY <1>1, <1>2, ElementOfSeq
<1> HIDE DEF from
<1>4. /\ SubSeq(s, from, Len(s)) \in Seq(S)
      /\ Len(SubSeq(s, from, Len(s))) = IF from <= Len(s) THEN Len(s) - from + 1 ELSE 0
      /\ \A i \in 1..(Len(s) - from + 1) : SubSeq(s, from, Len(s))[i] = s[from + i - 1]
  <2>1. from \in Int /\ Len(s) \in Int
    BY <1>1, <1>2
  <2> QED
    BY <1>3, <2>1, SubSeqProperties
<1>5. LastOf(s) = SubSeq(s, from, Len(s))
  BY DEF LastOf, from
<1>6. /\ LastOf(s) \in Seq(S)
      /\ Len(LastOf(s)) = Len(s) - from + 1
      /\ \A i \in 1..(Len(s) - from + 1) : LastOf(s)[i] = s[from + i - 1]
  BY <1>1, <1>2, <1>4, <1>5
<1>7. CASE Len(s) > LogCap
  <2>1. from = Len(s) - LogCap + 1
    BY <1>7 DEF from
  <2>2. \A i \in 1..LogCap : from + i - 1 = i + (Len(s) - LogCap)
    BY <1>1, <2>1
  <2> QED
    BY <1>1, <1>6, <1>7, <2>1, <2>2
<1>8. CASE ~(Len(s) > LogCap)
  BY <1>1, <1>6, <1>8 DEF from
<1> QED
  BY <1>7, <1>8

---------------------------------------------------------------------------
(* The types.                                                              *)

RowsOK == row \in [Commands -> ReceiptType \cup {NoReceipt}] /\ ClosedHaveOutcome

\* The types, and that a closed receipt has the outcome Replay() tells.
TypeInv == TypeOK /\ ClosedHaveOutcome

LEMMA UpdateKeepsRows ==
    ASSUME RowsOK, NEW c \in Commands, NEW r \in ReceiptType, Settled(r), Update(c, r)
    PROVE  RowsOK'
  BY DEF RowsOK, ClosedHaveOutcome, Update

\* Touching a receipt (touchReferenceCommand()).
LEMMA TouchKeepsRows ==
    ASSUME RowsOK, NEW c \in Commands, Touch(c)
    PROVE  RowsOK'
<1>1. CASE Processing(c)
  <2>1. Touched(row[c]) \in ReceiptType /\ Settled(Touched(row[c]))
    <3>1. row[c] \in ReceiptType
      BY <1>1 DEF RowsOK, Processing
    <3>2. Settled(Touched(row[c]))
      BY <1>1, <3>1 DEF Processing, Settled, Touched, ReceiptType
    <3> QED
      BY <3>1, <3>2, ReceiptUpdates
  <2> QED
    BY <2>1, UpdateKeepsRows DEF Touch
<1>2. CASE ~Processing(c)
  BY <1>2 DEF Touch, Update, RowsOK, ClosedHaveOutcome
<1> QED
  BY <1>1, <1>2

\* Failing lapsed receipts (beginReferenceCommand()).
LEMMA ExpiredKeepsRows ==
    ASSUME RowsOK, NEW cs \in SUBSET Commands, \A c \in cs : Processing(c)
    PROVE  /\ Expired(row, cs) \in [Commands -> ReceiptType \cup {NoReceipt}]
           /\ \A c \in Commands : Settled(Expired(row, cs)[c])
<1>1. Expired(row, cs) \in [Commands -> ReceiptType \cup {NoReceipt}]
  BY ExpiredRows DEF RowsOK, Processing
<1>2. ASSUME NEW c \in cs
      PROVE  Settled(Failed(row[c], "uncertain"))
  BY <1>2 DEF Settled, Failed, Outcomes, RowsOK, Processing, ReceiptType
<1>3. ASSUME NEW c \in Commands
      PROVE  Settled(Expired(row, cs)[c])
  BY <1>2 DEF Expired, RowsOK, ClosedHaveOutcome
<1> QED
  BY <1>1, <1>3

\* A turn that ends without a reply (failTurn()).
LEMMA FailTurnKeepsTypes ==
    ASSUME TypeInv, NEW t \in Turns, FailTurn(t)
    PROVE  RowsOK' /\ turn' \in [Turns -> TurnType] /\ told' \in [Turns -> SUBSET Outcomes]
<1>1. CommitStatus(t) \in Outcomes
  BY DEF CommitStatus, Outcomes
<1>2. RowsOK
  BY DEF TypeInv, TypeOK, RowsOK
<1>3. RowsOK'
  <2>0. CommandOf[t] \in Commands
    BY TurnAssumption
  <2>1. CASE Processing(CommandOf[t])
    <3>1. row[CommandOf[t]] \in ReceiptType
      BY <1>2, <2>0, <2>1 DEF RowsOK, Processing
    <3>2. Failed(row[CommandOf[t]], CommitStatus(t)) \in ReceiptType
      BY <1>1, <3>1, ReceiptUpdates
    <3>3. Settled(Failed(row[CommandOf[t]], CommitStatus(t)))
      BY <1>1, <3>1 DEF Settled, Failed, ReceiptType
    <3> QED
      BY <1>2, <2>0, <3>2, <3>3, UpdateKeepsRows DEF FailTurn
  <2>2. CASE ~Processing(CommandOf[t])
    BY <1>2, <2>2 DEF FailTurn, Update, RowsOK, ClosedHaveOutcome
  <2> QED
    BY <2>1, <2>2
<1> QED
  BY <1>1, <1>3, NoTurnType DEF FailTurn, Tell, Become, TypeInv, TypeOK

\* What every action has to show of the records it writes.
TypedRest ==
    /\ routed \in BOOLEAN
    /\ version \in Nat
    /\ log \in Seq(MessageType) /\ Len(log) <= LogCap
    /\ wire \in [Turns -> [state : {"idle", "sent", "applied", "refused"}, key : Keys \cup {ReadOnly}]]
    /\ standing \in [Turns -> Standings]
    /\ changed \in [Turns -> BOOLEAN]

TypedTurns == turn \in [Turns -> TurnType]

TypedTold == told \in [Turns -> SUBSET Outcomes]

LEMMA TypeParts == TypeInv <=> RowsOK /\ TypedRest /\ TypedTurns /\ TypedTold
  BY DEF TypeInv, TypeOK, RowsOK, TypedRest, TypedTurns, TypedTold

LEMMA InitTypes == Init => TypeInv
<1> SUFFICES ASSUME Init PROVE TypeInv
  OBVIOUS
<1>1. RowsOK
  BY DEF Init, RowsOK, ClosedHaveOutcome, Settled
<1>2. TypedRest
  BY TurnAssumption DEF Init, TypedRest, NoCall, Standings
<1>3. TypedTurns /\ TypedTold
  BY NoTurnType DEF Init, TypedTurns, TypedTold
<1> QED
  BY <1>1, <1>2, <1>3, TypeParts

LEMMA NextTypes ==
    ASSUME TypeInv, [Next]_vars
    PROVE  TypeInv'
<1>0. RowsOK /\ TypedRest /\ TypedTurns /\ TypedTold
  BY TypeParts
<1> SUFFICES RowsOK' /\ TypedRest' /\ TypedTurns' /\ TypedTold'
  BY TypeParts, PTL
<1> USE DEF campaignVars, ghostVars
<1>1. ASSUME NEW c \in Commands, NEW q, Retry(c, q) \/ Poll(c)
      PROVE  RowsOK' /\ TypedRest' /\ TypedTurns' /\ TypedTold'
  <2>1. TypedRest' /\ TypedTurns'
    BY <1>0, <1>1 DEF Retry, Poll, TypedRest, TypedTurns
  <2>2. CASE Replay(c)
    <3>1. row[c].outcome \in Outcomes
      BY <1>0, <1>1, <2>2 DEF Retry, Poll, Replay, RowsOK, ClosedHaveOutcome, Settled
    <3>2. told' \in [Turns -> SUBSET Outcomes]
      BY <1>0, <2>2, <3>1 DEF Replay, Tell, TypedTold
    <3> QED
      BY <1>0, <2>1, <2>2, <3>2 DEF Replay, RowsOK, ClosedHaveOutcome, TypedTold
  <2>3. CASE Recover(c)
    <3>1. Processing(c) /\ row' = Expired(row, {c}) /\ Tell(row[c].turn, "uncertain")
      BY <2>3 DEF Recover
    <3>2. RowsOK'
      BY <1>0, <3>1, ExpiredKeepsRows DEF RowsOK, ClosedHaveOutcome
    <3> QED
      BY <1>0, <2>1, <3>1, <3>2 DEF Tell, TypedTold, Outcomes
  <2> QED
    BY <1>1, <2>2, <2>3 DEF Retry, Poll
<1>2. ASSUME NEW c \in Commands, NEW v \in Versions, Blocked(c, v)
      PROVE  RowsOK' /\ TypedRest' /\ TypedTurns' /\ TypedTold'
  <2>1. PICK cs \in SUBSET {d \in ActiveAt(v) : row[d].lapsed} : row' = Expired(row, cs)
    BY <1>2 DEF Blocked
  <2>2. cs \in SUBSET Commands /\ \A d \in cs : Processing(d)
    BY DEF ActiveAt
  <2>3. RowsOK'
    BY <1>0, <2>1, <2>2, ExpiredKeepsRows DEF RowsOK, ClosedHaveOutcome
  <2> QED
    BY <1>0, <1>2, <2>3 DEF Blocked, TypedRest, TypedTurns, TypedTold
<1>3. ASSUME NEW t \in Turns, NEW v \in Versions, NEW q \in Texts,
             BeginAdmitted(t, v, q) \/ BeginRefused(t, v, q)
      PROVE  RowsOK' /\ TypedRest' /\ TypedTurns' /\ TypedTold'
  <2>1. TypedRest'
    BY <1>0, <1>3 DEF BeginAdmitted, BeginRefused, Begin, TypedRest, Standings
  <2>2. TypedTurns' /\ TypedTold'
    <3>1. [NoTurn EXCEPT !.phase = "context"] \in TurnType
      BY NoTurnType, TurnUpdates DEF Phases
    <3> QED
      BY <1>0, <1>3, <3>1 DEF BeginAdmitted, BeginRefused, Tell, TypedTurns, TypedTold, Outcomes
  <2>3. PICK r \in ReceiptType :
            Settled(r) /\ row' = Inserted(t, v, r)
    <3>1. Received(t, v, q) \in ReceiptType /\ Settled(Received(t, v, q))
      BY ReceivedType DEF Settled, Received
    <3>2. /\ Failed(Received(t, v, q), "not_committed") \in ReceiptType
          /\ Settled(Failed(Received(t, v, q), "not_committed"))
      BY ReceivedType, ReceiptUpdates DEF Settled, Failed, Received, Outcomes
    <3> QED
      BY <1>3, <3>1, <3>2 DEF BeginAdmitted, BeginRefused
  <2>4. ActiveAt(v) \in SUBSET Commands /\ \A c \in ActiveAt(v) : Processing(c)
    BY DEF ActiveAt
  <2>5. RowsOK'
    BY <1>0, <2>3, <2>4, ExpiredKeepsRows DEF RowsOK, ClosedHaveOutcome, Inserted
  <2> QED
    BY <2>1, <2>2, <2>5
<1>4. ASSUME NEW t \in Turns, ContextRead(t) \/ RenewLease(t) \/ DraftWithheld(t)
      PROVE  RowsOK' /\ TypedRest' /\ TypedTurns' /\ TypedTold'
  <2>1. Touch(CommandOf[t]) /\ CommandOf[t] \in Commands
    BY <1>4, TurnAssumption DEF ContextRead, RenewLease, DraftWithheld
  <2>2. TypedTurns'
    <3>1. turn' = turn \/ \E x \in TurnType : turn' = [turn EXCEPT ![t] = x]
      BY <1>0, <1>4, TurnUpdates
         DEF ContextRead, RenewLease, DraftWithheld, Become, TypedTurns, Phases
    <3> QED
      BY <1>0, <3>1 DEF TypedTurns
  <2>3. TypedRest' /\ TypedTold'
    BY <1>0, <1>4 DEF ContextRead, RenewLease, DraftWithheld, TypedRest, TypedTold
  <2> QED
    BY <1>0, <2>1, <2>2, <2>3, TouchKeepsRows
<1>5. ASSUME NEW t \in Turns, TurnFails(t) \/ NarrationMissing(t)
      PROVE  RowsOK' /\ TypedRest' /\ TypedTurns' /\ TypedTold'
  <2>1. FailTurn(t)
    BY <1>5 DEF TurnFails, NarrationMissing
  <2>2. TypedRest'
    BY <1>0, <1>5 DEF TurnFails, NarrationMissing, TypedRest
  <2> QED
    BY <2>1, <2>2, FailTurnKeepsTypes DEF TypedTurns, TypedTold
<1>6. ASSUME NEW t \in Turns, NEW k \in Keys \cup {ReadOnly}, CallEngine(t, k)
      PROVE  RowsOK' /\ TypedRest' /\ TypedTurns' /\ TypedTold'
  <2>1. TypedTurns'
    BY <1>0, <1>6, TurnUpdates DEF CallEngine, Become, TypedTurns
  <2> QED
    BY <1>0, <1>6, <2>1 DEF CallEngine, TypedRest, TypedTold, RowsOK, ClosedHaveOutcome
<1>7. ASSUME NEW t \in Turns, WriteDocket(t)
      PROVE  RowsOK' /\ TypedRest' /\ TypedTurns' /\ TypedTold'
  <2>1. TypedTurns'
    <3>1. [turn[t] EXCEPT !.calls = @ + 1] \in TurnType
      BY <1>0, TurnUpdates DEF TypedTurns
    <3>2. Accepted([turn[t] EXCEPT !.calls = @ + 1], ReadOnly) \in TurnType
      BY <3>1, TurnUpdates
    <3> QED
      BY <1>0, <1>7, <3>2 DEF WriteDocket, Become, TypedTurns
  <2>2. TypedRest' /\ TypedTold'
    BY <1>0, <1>7 DEF WriteDocket, TypedRest, TypedTold
  <2> QED
    BY <1>0, <1>7, <2>1, <2>2, TouchKeepsRows, TurnAssumption DEF WriteDocket
<1>8. ASSUME NEW t \in Turns, ToolReturns(t)
      PROVE  RowsOK' /\ TypedRest' /\ TypedTurns' /\ TypedTold'
  <2> DEFINE r == [turn[t] EXCEPT !.phase = "completion"]
  <2>1. r \in TurnType
    BY <1>0, TurnUpdates DEF TypedTurns, Phases
  <2>2. wire[t].key # ReadOnly => wire[t].key \in Keys
    BY <1>0 DEF TypedRest
  <2> HIDE DEF r
  <2>3. Accepted(r, wire[t].key) \in TurnType /\ (wire[t].key # ReadOnly => Refused(r, wire[t].key) \in TurnType)
    BY <2>1, <2>2, TurnUpdates
  <2>4. TypedTurns'
    <3>1. \E x \in TurnType : turn' = [turn EXCEPT ![t] = x]
      BY <1>8, <2>1, <2>3 DEF ToolReturns, Become, r
    <3> QED
      BY <1>0, <3>1 DEF TypedTurns
  <2>5. NoCall \in [state : {"idle", "sent", "applied", "refused"}, key : Keys \cup {ReadOnly}]
    BY DEF NoCall
  <2>6. TypedRest' /\ TypedTold'
    BY <1>0, <1>8, <2>5 DEF ToolReturns, TypedRest, TypedTold
  <2> QED
    BY <1>0, <1>8, <2>4, <2>6, TouchKeepsRows, TurnAssumption DEF ToolReturns
<1>9. ASSUME NEW t \in Turns, Narrate(t)
      PROVE  RowsOK' /\ TypedRest' /\ TypedTurns' /\ TypedTold'
  <2>1. TypedTurns'
    BY <1>0, <1>9, TurnUpdates DEF Narrate, Become, TypedTurns, Phases
  <2> QED
    BY <1>0, <1>9, <2>1 DEF Narrate, TypedRest, TypedTold, RowsOK, ClosedHaveOutcome
<1>10. ASSUME NEW t \in Turns, Commit(t)
       PROVE  RowsOK' /\ TypedRest' /\ TypedTurns' /\ TypedTold'
  <2>1. version' \in Nat
    BY <1>0, <1>10 DEF Commit, TypedRest
  <2>2. Messages(t) \in Seq(MessageType)
    BY DEF Messages, MessageType
  <2>3. log \o Messages(t) \in Seq(MessageType)
    BY <1>0, <2>2, ConcatProperties DEF TypedRest
  <2>4. log' \in Seq(MessageType) /\ Len(log') <= LogCap
    <3> DEFINE s == log \o Messages(t)
    <3>1. log' = log \/ log' = LastOf(s)
      BY <1>10 DEF Commit
    <3>2. s \in Seq(MessageType)
      BY <2>3
    <3> HIDE DEF s
    <3>3. LogCap \in Nat /\ Len(s) \in Nat
      BY <3>2, TurnAssumption
    <3>4. LastOf(s) \in Seq(MessageType) /\ Len(LastOf(s)) <= LogCap
      BY <3>2, <3>3, LastOfProperties
    <3> QED
      BY <1>0, <3>1, <3>4 DEF TypedRest
  <2>5. TypedTurns'
    BY <1>0, <1>10, <2>1, TurnUpdates DEF Commit, Become, TypedTurns
  <2> QED
    BY <1>0, <1>10, <2>1, <2>4, <2>5
       DEF Commit, TypedRest, TypedTold, RowsOK, ClosedHaveOutcome
<1>11. ASSUME NEW t \in Turns, Resolve(t)
       PROVE  RowsOK' /\ TypedRest' /\ TypedTurns' /\ TypedTold'
  <2>1. RowsOK'
    <3>0. CommandOf[t] \in Commands
      BY TurnAssumption
    <3>1. CASE Processing(CommandOf[t])
      <4>1. row[CommandOf[t]] \in ReceiptType /\ turn[t].version \in Nat
        BY <1>0, <3>0, <3>1 DEF RowsOK, Processing, TypedTurns, TurnType
      <4>2. Resolved(row[CommandOf[t]], turn[t].version) \in ReceiptType
        BY <4>1, ReceiptUpdates
      <4>3. Settled(Resolved(row[CommandOf[t]], turn[t].version))
        BY <4>1 DEF Settled, Resolved, ReceiptType, Outcomes
      <4> QED
        BY <1>0, <1>11, <3>0, <4>2, <4>3, UpdateKeepsRows DEF Resolve
    <3>2. CASE ~Processing(CommandOf[t])
      BY <1>0, <1>11, <3>2 DEF Resolve, Update, RowsOK, ClosedHaveOutcome
    <3> QED
      BY <3>1, <3>2
  <2>2. TypedRest'
    BY <1>0, <1>11 DEF Resolve, TypedRest
  <2>3. TypedTurns' /\ TypedTold'
    BY <1>0, <1>11, NoTurnType DEF Resolve, Become, Tell, TypedTurns, TypedTold, Outcomes
  <2> QED
    BY <2>1, <2>2, <2>3
<1>12. ASSUME NEW t \in Turns, EngineExecutes(t)
       PROVE  RowsOK' /\ TypedRest' /\ TypedTurns' /\ TypedTold'
  <2>1. RowsOK' /\ TypedTurns' /\ TypedTold'
    BY <1>0, <1>12 DEF EngineExecutes, TypedTurns, TypedTold, RowsOK, ClosedHaveOutcome
  <2>2. changed' \in [Turns -> BOOLEAN]
    BY <1>0, <1>12 DEF EngineExecutes, TypedRest
  <2>3. wire' \in [Turns -> [state : {"idle", "sent", "applied", "refused"}, key : Keys \cup {ReadOnly}]]
    <3> DEFINE WireRows == [state : {"idle", "sent", "applied", "refused"}, key : Keys \cup {ReadOnly}]
    <3>1. PICK s \in {"applied", "refused"} : wire' = [wire EXCEPT ![t] = [wire[t] EXCEPT !.state = s]]
      BY <1>12 DEF EngineExecutes
    <3>2. wire \in [Turns -> WireRows]
      BY <1>0 DEF TypedRest
    <3>3. PICK w : w = [wire[t] EXCEPT !.state = s]
      OBVIOUS
    <3>4. w \in WireRows
      BY <3>2, <3>3
    <3> HIDE DEF WireRows
    <3>5. wire' \in [Turns -> WireRows]
      BY <3>1, <3>2, <3>3, <3>4
    <3> QED
      BY <3>5 DEF WireRows
  <2> QED
    BY <1>0, <1>12, <2>1, <2>2, <2>3 DEF EngineExecutes, TypedRest
<1>13. ASSUME NEW c \in Commands, Lapse(c)
       PROVE  RowsOK' /\ TypedRest' /\ TypedTurns' /\ TypedTold'
  <2>1. Processing(c) /\ row' = [row EXCEPT ![c] = [row[c] EXCEPT !.lapsed = TRUE]]
    BY <1>13 DEF Lapse, MayLapse
  <2>2. row[c] \in ReceiptType
    BY <1>0, <2>1 DEF RowsOK, Processing
  <2>3. [row[c] EXCEPT !.lapsed = TRUE] \in ReceiptType /\ Settled([row[c] EXCEPT !.lapsed = TRUE])
    BY <2>1, <2>2, ReceiptUpdates DEF Settled, Processing, ReceiptType
  <2>4. RowsOK'
    BY <1>0, <2>1, <2>3 DEF RowsOK, ClosedHaveOutcome
  <2> QED
    BY <1>0, <1>13, <2>4 DEF Lapse, TypedRest, TypedTurns, TypedTold
<1>14. ASSUME AdapterBump \/ Crash \/ UNCHANGED vars
       PROVE  RowsOK' /\ TypedRest' /\ TypedTurns' /\ TypedTold'
  <2>1. RowsOK' /\ TypedTold'
    BY <1>0, <1>14 DEF AdapterBump, Crash, vars, TypedTold, RowsOK, ClosedHaveOutcome
  <2>2. TypedTurns'
    BY <1>0, <1>14, NoTurnType DEF AdapterBump, Crash, vars, TypedTurns
  <2>3. version' \in Nat
    BY <1>0, <1>14 DEF AdapterBump, Crash, vars, TypedRest
  <2>4. TypedRest'
    BY <1>0, <1>14, <2>3 DEF AdapterBump, Crash, vars, TypedRest
  <2> QED
    BY <2>1, <2>2, <2>4
<1>15. ASSUME DeleteRouting
       PROVE  RowsOK' /\ TypedRest' /\ TypedTurns' /\ TypedTold'
  <2>1. RowsOK'
    BY <1>15 DEF DeleteRouting, RowsOK, ClosedHaveOutcome, Settled
  <2>2. log' \in Seq(MessageType) /\ Len(log') <= LogCap
    <3>1. LogCap \in Nat /\ log' = <<>> /\ Len(<<>>) = 0
      BY <1>15, TurnAssumption DEF DeleteRouting
    <3> QED
      BY <3>1
  <2>3. TypedRest'
    BY <1>0, <1>15, <2>2 DEF DeleteRouting, TypedRest, Standings
  <2> QED
    BY <1>0, <1>15, <2>1, <2>3 DEF DeleteRouting, TypedTurns, TypedTold
<1>18. ASSUME Rebind
       PROVE  RowsOK' /\ TypedRest' /\ TypedTurns' /\ TypedTold'
  <2>1. log' \in Seq(MessageType) /\ Len(log') <= LogCap
    <3>1. LogCap \in Nat /\ log' = <<>> /\ Len(<<>>) = 0
      BY <1>18, TurnAssumption DEF Rebind
    <3> QED
      BY <3>1
  <2> QED
    BY <1>0, <1>18, <2>1
       DEF Rebind, RowsOK, ClosedHaveOutcome, TypedRest, TypedTurns, TypedTold
<1>16. ASSUME NEW c \in Commands, Request(c) \/ Poll(c) \/ Lapse(c)
       PROVE  RowsOK' /\ TypedRest' /\ TypedTurns' /\ TypedTold'
  BY <1>1, <1>2, <1>13, <1>16 DEF Request
<1>17. ASSUME NEW t \in Turns, StartTurn(t) \/ RunTurn(t)
       PROVE  RowsOK' /\ TypedRest' /\ TypedTurns' /\ TypedTold'
  BY <1>3, <1>4, <1>5, <1>6, <1>7, <1>8, <1>9, <1>10, <1>11, <1>17 DEF StartTurn, RunTurn
<1> QED
  BY <1>12, <1>14, <1>15, <1>16, <1>17, <1>18 DEF Next

\* Every variable keeps its type, and a closed receipt its outcome, for any
\* lease and any number of turns.
THEOREM TypeCorrect == Spec => []TypeOK
<1>1. Init => TypeInv
  BY InitTypes
<1>2. TypeInv /\ [Next]_vars => TypeInv'
  BY NextTypes
<1>3. TypeInv => TypeOK
  BY DEF TypeInv
<1> QED
  BY <1>1, <1>2, <1>3, PTL DEF Spec

---------------------------------------------------------------------------
(* Turns keep apart, provided the lease covers the phases without a timer. *)

LEMMA CommandType ==
    ASSUME NEW t \in Turns
    PROVE  CommandOf[t] \in Commands
  BY TurnAssumption

\* Deleting the campaign takes every receipt with it, and none comes back
\* before it is bound again.
GoneTogether == ~routed => \A c \in Commands : row[c] = NoReceipt

\* A receipt is of its own command ID, and was inserted since the last
\* deletion.
HeldByOwn ==
    \A c \in Commands : row[c] # NoReceipt =>
       CommandOf[row[c].turn] = c /\ standing[row[c].turn] \in {"alone", "beside"}

\* A call alone on its command ID has the receipt it inserted.
AloneHolds == \A t \in Turns : Alone(t) => Holds(t) /\ Fellows(t) = {}

NewIdle == \A t \in Turns : standing[t] = "new" => ~Running(t)

\* How calls, receipts and command IDs belong together.
Kin == GoneTogether /\ HeldByOwn /\ AloneHolds /\ NewIdle

ApartInv == TypeInv /\ TurnsKeepApart /\ Kin

\* A step that starts no turn and leaves the receipts of those that go on.
Calm ==
    /\ standing' = standing
    /\ \A u \in Turns : Running(u)' => Running(u)
    /\ \A u \in Turns : LET c == CommandOf[u]
                        IN  Alone(u) /\ Running(u)' /\ Processing(c) /\ ~row[c].lapsed =>
                               Processing(c)' /\ row'[c].base = row[c].base /\ ~row'[c].lapsed

\* A step after which every receipt is there that was, and of the same call.
Steady ==
    /\ routed' = routed
    /\ \A c \in Commands : /\ row'[c] = NoReceipt <=> row[c] = NoReceipt
                           /\ row[c] # NoReceipt => row'[c].turn = row[c].turn

\* Nobody else is at work on the command ID of a call that is alone.
LEMMA OthersElsewhere ==
    ASSUME Kin, NEW t \in Turns, NEW u \in Turns, t # u, Alone(u), Running(t)
    PROVE  CommandOf[u] # CommandOf[t]
  BY DEF Kin, AloneHolds, Fellows

LEMMA CalmKeepsApart ==
    ASSUME ApartInv, Calm, AloneHolds'
    PROVE  TurnsKeepApart'
<1>1. \A u \in Turns : LET c == CommandOf[u]
                       IN  Running(u)' /\ Alone(u)' =>
                             /\ Running(u) /\ Alone(u)
                             /\ Processing(c)' /\ row'[c].base = row[c].base /\ ~row'[c].lapsed
  BY DEF Calm, ApartInv, TurnsKeepApart, LiveTurnKeepsReceipt, Alone
<1>2. LiveTurnKeepsReceipt'
  BY <1>1 DEF LiveTurnKeepsReceipt, AloneHolds
<1>3. OneTurnPerVersion'
  BY <1>1 DEF OneTurnPerVersion, ApartInv, TurnsKeepApart
<1> QED
  BY <1>2, <1>3 DEF TurnsKeepApart

LEMMA SteadyKeepsKin ==
    ASSUME TypeInv, Kin, Calm, Steady
    PROVE  Kin'
<1>1. GoneTogether'
  BY DEF Kin, GoneTogether, Steady
<1>2. HeldByOwn'
  BY DEF Kin, HeldByOwn, Steady, Calm
<1>3. AloneHolds'
  BY CommandType DEF Kin, AloneHolds, Steady, Calm, Alone, Holds, Fellows
<1>4. NewIdle'
  BY DEF Kin, NewIdle, Calm
<1> QED
  BY <1>1, <1>2, <1>3, <1>4 DEF Kin

\* Writing over the receipt a call finds under its command ID leaves every
\* receipt there, of the same call.
LEMMA UpdateIsSteady ==
    ASSUME RowsOK, NEW c \in Commands, NEW r, Update(c, r), routed' = routed,
           Processing(c) => r # NoReceipt /\ r.turn = row[c].turn
    PROVE  Steady
  BY DEF Steady, Update, Processing, RowsOK

\* A receipt written over is still a receipt of the same call.
LEMMA SameCall ==
    ASSUME NEW r \in ReceiptType
    PROVE  /\ Touched(r) # NoReceipt /\ Touched(r).turn = r.turn
           /\ \A o \in Outcomes : Failed(r, o) # NoReceipt /\ Failed(r, o).turn = r.turn
           /\ \A v \in Nat : Resolved(r, v) # NoReceipt /\ Resolved(r, v).turn = r.turn
<1>1. /\ Touched(r) \in ReceiptType
      /\ \A o \in Outcomes : Failed(r, o) \in ReceiptType
      /\ \A v \in Nat : Resolved(r, v) \in ReceiptType
  BY ReceiptUpdates
<1>2. /\ Touched(r) # NoReceipt
      /\ \A o \in Outcomes : Failed(r, o) # NoReceipt
      /\ \A v \in Nat : Resolved(r, v) # NoReceipt
  BY <1>1, TurnAssumption
<1>3. /\ Touched(r).turn = r.turn
      /\ \A o : Failed(r, o).turn = r.turn
      /\ \A v : Resolved(r, v).turn = r.turn
  BY ReceiptFields
<1> QED
  BY <1>2, <1>3

\* Touching a receipt changes nothing the others see.
LEMMA TouchIsCalm ==
    ASSUME RowsOK, NEW c \in Commands, Touch(c), routed' = routed, standing' = standing,
           \A u \in Turns : Running(u)' => Running(u)
    PROVE  Calm /\ Steady
<1>1. CASE Processing(c)
  <2>1. row[c] \in ReceiptType /\ row[c] # NoReceipt
    BY <1>1 DEF RowsOK, Processing
  <2>2. /\ Touched(row[c]) # NoReceipt
        /\ Touched(row[c]).status = row[c].status
        /\ Touched(row[c]).base = row[c].base
        /\ Touched(row[c]).turn = row[c].turn
        /\ ~Touched(row[c]).lapsed
    BY <2>1, ReceiptUpdates, ReceiptFields
  <2>3. row' = [row EXCEPT ![c] = Touched(row[c])]
    BY <1>1 DEF Touch, Update
  <2>4. Calm
    BY <1>1, <2>1, <2>2, <2>3 DEF Calm, Processing, RowsOK
  <2> QED
    BY <2>2, <2>4, UpdateIsSteady DEF Touch
<1>2. CASE ~Processing(c)
  <2>1. row' = row
    BY <1>2 DEF Touch, Update
  <2> QED
    BY <2>1 DEF Calm, Steady, Processing
<1> QED
  BY <1>1, <1>2

\* Failing lapsed receipts does not touch a live turn.
LEMMA ExpiryIsCalm ==
    ASSUME RowsOK, NEW cs \in SUBSET Commands, \A c \in cs : Processing(c) /\ row[c].lapsed,
           row' = Expired(row, cs), turn' = turn, routed' = routed, standing' = standing
    PROVE  Calm /\ Steady
<1>1. \A c \in Commands \ cs : row'[c] = row[c]
  BY DEF Expired
<1>2. \A c \in cs : row'[c] # NoReceipt /\ row'[c].turn = row[c].turn /\ row[c] # NoReceipt
  <2> SUFFICES ASSUME NEW c \in cs
               PROVE  row'[c] # NoReceipt /\ row'[c].turn = row[c].turn /\ row[c] # NoReceipt
    OBVIOUS
  <2>1. row'[c] = Failed(row[c], "uncertain") /\ row[c] \in ReceiptType /\ row[c] # NoReceipt
    BY DEF Expired, RowsOK, Processing
  <2>2. "uncertain" \in Outcomes
    BY DEF Outcomes
  <2> QED
    BY <2>1, <2>2, SameCall
<1> QED
  BY <1>1, <1>2, CommandType DEF Calm, Steady, Processing, Running

\* The end of a turn, with whatever its receipt says then.
LEMMA EndIsCalm ==
    ASSUME ApartInv, NEW t \in Turns, Running(t), NEW r, Update(CommandOf[t], r), Become(t, NoTurn),
           routed' = routed, standing' = standing,
           Processing(CommandOf[t]) => r # NoReceipt /\ r.turn = row[CommandOf[t]].turn
    PROVE  Calm /\ Steady
<1>1. ~Running(t)' /\ \A u \in Turns \ {t} : turn'[u] = turn[u]
  BY DEF Become, NoTurn, Running, ApartInv, TypeInv, TypeOK
<1>2. RowsOK
  BY TypeParts DEF ApartInv
<1>3. Steady
  BY <1>2, CommandType, UpdateIsSteady
<1>4. ASSUME NEW u \in Turns, Alone(u), Running(u)'
      PROVE  row'[CommandOf[u]] = row[CommandOf[u]]
  <2>1. CommandOf[u] # CommandOf[t]
    BY <1>1, <1>4, OthersElsewhere DEF ApartInv
  <2> QED
    BY <1>2, <2>1, CommandType DEF Update, RowsOK
<1>5. \A u \in Turns : Running(u)' => Running(u)
  BY <1>1 DEF Running
<1>6. Calm
  BY <1>4, <1>5 DEF Calm, Processing
<1> QED
  BY <1>3, <1>6

LEMMA InitApart == Init => ApartInv
<1> SUFFICES ASSUME Init PROVE ApartInv
  OBVIOUS
<1>1. \A t \in Turns : ~Running(t) /\ ~Alone(t)
  BY DEF Init, Running, NoTurn, Alone
<1>2. TurnsKeepApart
  BY <1>1 DEF TurnsKeepApart, LiveTurnKeepsReceipt, OneTurnPerVersion
<1>3. Kin
  BY <1>1 DEF Kin, GoneTogether, HeldByOwn, AloneHolds, NewIdle, Init
<1> QED
  BY <1>2, <1>3, InitTypes DEF ApartInv

\* What the rows are once a turn has begun.
LEMMA InsertedRows ==
    ASSUME RowsOK, NEW t \in Turns, NEW v \in Versions, NEW r \in ReceiptType, r.turn = t,
           row' = Inserted(t, v, r)
    PROVE  /\ row'[CommandOf[t]] = r
           /\ \A c \in Commands \ {CommandOf[t]} :
                 /\ c \notin ActiveAt(v) => row'[c] = row[c]
                 /\ row'[c] = NoReceipt <=> row[c] = NoReceipt
                 /\ row[c] # NoReceipt => row'[c].turn = row[c].turn
<1>1. \A c \in Commands \ {CommandOf[t]} :
        row'[c] = IF c \in ActiveAt(v) THEN Failed(row[c], "uncertain") ELSE row[c]
  BY DEF Inserted, Expired
<1>2. row'[CommandOf[t]] = r
  BY CommandType DEF Inserted, Expired
<1>3. ASSUME NEW c \in ActiveAt(v)
      PROVE  /\ row[c] # NoReceipt /\ Failed(row[c], "uncertain") # NoReceipt
             /\ Failed(row[c], "uncertain").turn = row[c].turn
  <2>1. row[c] \in ReceiptType /\ row[c] # NoReceipt /\ "uncertain" \in Outcomes
    BY <1>3 DEF ActiveAt, Processing, RowsOK, Outcomes
  <2> QED
    BY <2>1, SameCall
<1> QED
  BY <1>1, <1>2, <1>3

LEMMA BeginKeepsApart ==
    ASSUME ApartInv, NEW t \in Turns, NEW v \in Versions, NEW q \in Texts,
           BeginAdmitted(t, v, q) \/ BeginRefused(t, v, q)
    PROVE  TurnsKeepApart' /\ Kin'
<1> DEFINE c == CommandOf[t]
<1> USE CommandType
<1>0. RowsOK /\ TypedTurns /\ TurnsKeepApart /\ Kin /\ standing \in [Turns -> Standings]
  BY TypeParts DEF ApartInv, TypedRest
<1>1. /\ routed /\ routed' /\ row[c] = NoReceipt /\ standing[t] = "new" /\ ~Running(t)
      /\ \A d \in ActiveAt(v) : row[d].lapsed
      /\ standing' = [standing EXCEPT ![t] = IF Fellows(t) = {} THEN "alone" ELSE "beside"]
  BY <1>0 DEF BeginAdmitted, BeginRefused, Begin, MayStart, campaignVars, Kin, NewIdle
<1>2. PICK r \in ReceiptType :
         /\ row' = Inserted(t, v, r) /\ r.turn = t
         /\ Running(t)' => r = Received(t, v, q)
  <2>1. CASE BeginAdmitted(t, v, q)
    BY <2>1, ReceivedType DEF BeginAdmitted, Received
  <2>2. CASE BeginRefused(t, v, q)
    <3>1. ~Running(t)'
      BY <1>1, <2>2 DEF BeginRefused, Running
    <3>2. Failed(Received(t, v, q), "not_committed") \in ReceiptType
      BY ReceivedType, ReceiptUpdates DEF Outcomes
    <3>3. Failed(Received(t, v, q), "not_committed").turn = t
      BY ReceivedType, ReceiptFields DEF Received
    <3> QED
      BY <2>2, <3>1, <3>2, <3>3 DEF BeginRefused
  <2> QED
    BY <2>1, <2>2
<1>3. r # NoReceipt
  BY ReceiptUpdates
<1>4. /\ row'[c] = r
      /\ \A d \in Commands \ {c} :
            /\ d \notin ActiveAt(v) => row'[d] = row[d]
            /\ row'[d] = NoReceipt <=> row[d] = NoReceipt
            /\ row[d] # NoReceipt => row'[d].turn = row[d].turn
  BY <1>0, <1>2, InsertedRows
<1> HIDE DEF c
<1>c. c = CommandOf[t]
  BY DEF c
<1>5. \A u \in Turns \ {t} : turn'[u] = turn[u] /\ standing'[u] = standing[u]
  BY <1>0, <1>1 DEF BeginAdmitted, BeginRefused, TypedTurns
<1>6. \A u \in Turns : Alone(u) => CommandOf[u] # c
  BY <1>0, <1>1 DEF Kin, AloneHolds, Holds
<1>7. standing'[t] = IF Fellows(t) = {} THEN "alone" ELSE "beside"
  BY <1>0, <1>1
<1>8. AloneHolds'
  <2>1. ASSUME NEW u \in Turns, u # t, Alone(u)'
        PROVE  Holds(u)' /\ (Fellows(u) = {})'
    <3>1. Alone(u) /\ Holds(u) /\ Fellows(u) = {} /\ CommandOf[u] # c
      BY <1>0, <1>5, <1>6, <2>1 DEF Alone, Kin, AloneHolds
    <3>2. Holds(u)'
      BY <1>4, <3>1 DEF Holds
    <3>3. (Fellows(u) = {})'
      BY <1>5, <1>c, <3>1 DEF Fellows, Running
    <3> QED
      BY <3>2, <3>3
  <2>2. ASSUME Alone(t)'
        PROVE  Holds(t)' /\ (Fellows(t) = {})'
    <3>1. Fellows(t) = {}
      BY <1>7, <2>2 DEF Alone
    <3> QED
      BY <1>2, <1>3, <1>4, <1>5, <1>c, <3>1 DEF Holds, Fellows, Running
  <2> QED
    BY <2>1, <2>2 DEF AloneHolds
<1>9. Kin'
  <2>1. GoneTogether'
    BY <1>1 DEF GoneTogether
  <2>2. HeldByOwn'
    <3>1. \A d \in Commands : row[d] # NoReceipt => row[d].turn # t
      BY <1>0, <1>1 DEF Kin, HeldByOwn
    <3>2. ASSUME NEW d \in Commands, d # c, row'[d] # NoReceipt
          PROVE  /\ CommandOf[row'[d].turn] = d
                 /\ standing'[row'[d].turn] \in {"alone", "beside"}
      <4>1. row[d] # NoReceipt /\ row'[d].turn = row[d].turn /\ row[d].turn \in Turns \ {t}
        BY <1>0, <1>4, <3>1, <3>2 DEF RowsOK, ReceiptType
      <4> QED
        BY <1>0, <1>5, <4>1 DEF Kin, HeldByOwn
    <3>3. row'[c].turn = t /\ standing'[t] \in {"alone", "beside"}
      BY <1>2, <1>4, <1>7
    <3> QED
      BY <1>c, <3>2, <3>3 DEF HeldByOwn
  <2>3. NewIdle'
    BY <1>0, <1>5, <1>7 DEF NewIdle, Kin, Running
  <2> QED
    BY <1>8, <2>1, <2>2, <2>3 DEF Kin
<1>10. ASSUME NEW u \in Turns, u # t, Running(u)', Alone(u)'
       PROVE  /\ Running(u) /\ Alone(u) /\ CommandOf[u] # c
              /\ row'[CommandOf[u]] = row[CommandOf[u]]
              /\ Processing(CommandOf[u]) /\ ~row[CommandOf[u]].lapsed /\ row[CommandOf[u]].base # v
  <2>1. Running(u) /\ Alone(u) /\ CommandOf[u] # c
    BY <1>5, <1>6, <1>10 DEF Running, Alone
  <2>2. Processing(CommandOf[u]) /\ ~row[CommandOf[u]].lapsed
    BY <1>0, <2>1 DEF TurnsKeepApart, LiveTurnKeepsReceipt
  <2>3. CommandOf[u] \notin ActiveAt(v)
    BY <1>1, <2>2
  <2> QED
    BY <1>4, <2>1, <2>2, <2>3 DEF ActiveAt
<1>11. ASSUME Running(t)'
       PROVE  Processing(c)' /\ ~row'[c].lapsed /\ row'[c].base = v
  <2>1. row'[c] = Received(t, v, q) /\ row'[c] # NoReceipt
    BY <1>2, <1>3, <1>4, <1>11
  <2> QED
    BY <2>1 DEF Received, Processing
<1>12. LiveTurnKeepsReceipt'
  BY <1>8, <1>10, <1>11, <1>c DEF LiveTurnKeepsReceipt, AloneHolds, Processing
<1>13. OneTurnPerVersion'
  BY <1>0, <1>10, <1>11, <1>c DEF OneTurnPerVersion, TurnsKeepApart
<1> QED
  BY <1>9, <1>12, <1>13 DEF TurnsKeepApart

LEMMA DeletionKeepsApart ==
    ASSUME ApartInv, DeleteRouting
    PROVE  TurnsKeepApart' /\ Kin'
<1>1. \A u \in Turns : ~Alone(u)'
  BY DEF DeleteRouting, Alone
<1>2. TurnsKeepApart'
  BY <1>1 DEF TurnsKeepApart, LiveTurnKeepsReceipt, OneTurnPerVersion
<1>3. GoneTogether' /\ HeldByOwn'
  BY DEF DeleteRouting, GoneTogether, HeldByOwn
<1>4. AloneHolds'
  BY <1>1 DEF AloneHolds
<1>5. NewIdle'
  BY DEF ApartInv, Kin, NewIdle, DeleteRouting, Running
<1> QED
  BY <1>2, <1>3, <1>4, <1>5 DEF Kin

LEMMA RebindKeepsApart ==
    ASSUME ApartInv, Rebind
    PROVE  TurnsKeepApart' /\ Kin'
<1>1. row' = row /\ turn' = turn /\ standing' = standing /\ routed'
  BY DEF Rebind, ghostVars
<1>2. TurnsKeepApart'
  BY <1>1 DEF ApartInv, TurnsKeepApart, LiveTurnKeepsReceipt, OneTurnPerVersion, Running, Alone, Holds, Processing
<1>3. GoneTogether' /\ HeldByOwn'
  BY <1>1 DEF ApartInv, Kin, GoneTogether, HeldByOwn
<1>4. AloneHolds' /\ NewIdle'
  BY <1>1 DEF ApartInv, Kin, AloneHolds, NewIdle, Alone, Holds, Fellows, Running
<1> QED
  BY <1>2, <1>3, <1>4 DEF Kin

LEMMA NextApart ==
    ASSUME LeaseCovers, ApartInv, [Next]_vars
    PROVE  ApartInv'
<1> USE DEF campaignVars, ghostVars
<1>0. TypeInv /\ RowsOK /\ TypedTurns /\ TurnsKeepApart /\ Kin
  BY TypeParts DEF ApartInv
<1>1. TypeInv'
  BY <1>0, NextTypes
<1> SUFFICES TurnsKeepApart' /\ Kin'
  BY <1>1 DEF ApartInv
<1>2. ASSUME Calm, Steady
      PROVE  TurnsKeepApart' /\ Kin'
  <2>1. Kin'
    BY <1>0, <1>2, SteadyKeepsKin
  <2> QED
    BY <1>2, <2>1, CalmKeepsApart DEF Kin
<1>3. ASSUME NEW c \in Commands, NEW q, Retry(c, q) \/ Poll(c)
      PROVE  TurnsKeepApart' /\ Kin'
  <2>1. turn' = turn /\ routed' = routed /\ standing' = standing
    BY <1>3 DEF Retry, Poll
  <2>2. CASE Replay(c)
    BY <1>2, <2>1, <2>2 DEF Replay, Calm, Steady, Processing, Running
  <2>3. CASE Recover(c)
    BY <1>0, <1>2, <2>1, <2>3, ExpiryIsCalm DEF Recover
  <2> QED
    BY <1>3, <2>2, <2>3 DEF Retry, Poll
<1>4. ASSUME NEW c \in Commands, NEW v \in Versions, Blocked(c, v)
      PROVE  TurnsKeepApart' /\ Kin'
  <2>1. PICK cs \in SUBSET {d \in ActiveAt(v) : row[d].lapsed} : row' = Expired(row, cs)
    BY <1>4 DEF Blocked
  <2>2. cs \in SUBSET Commands /\ \A d \in cs : Processing(d) /\ row[d].lapsed
    BY DEF ActiveAt
  <2>3. turn' = turn /\ routed' = routed /\ standing' = standing
    BY <1>4 DEF Blocked
  <2> QED
    BY <1>0, <1>2, <2>1, <2>2, <2>3, ExpiryIsCalm
<1>5. ASSUME NEW t \in Turns, StartTurn(t)
      PROVE  TurnsKeepApart' /\ Kin'
  BY <1>5, BeginKeepsApart DEF StartTurn
<1>6. ASSUME NEW t \in Turns,
             ContextRead(t) \/ RenewLease(t) \/ DraftWithheld(t) \/ WriteDocket(t) \/ ToolReturns(t)
      PROVE  TurnsKeepApart' /\ Kin'
  <2>1. Touch(CommandOf[t]) /\ routed' = routed /\ standing' = standing /\ turn[t].phase # "off"
    BY <1>6 DEF ContextRead, RenewLease, DraftWithheld, WriteDocket, ToolReturns, Renewing
  <2>2. \A u \in Turns \ {t} : turn'[u] = turn[u]
    BY <1>0, <1>6 DEF ContextRead, RenewLease, DraftWithheld, WriteDocket, ToolReturns, Become, TypedTurns
  <2> QED
    BY <1>0, <1>2, <2>1, <2>2, CommandType, TouchIsCalm DEF Running
<1>7. ASSUME NEW t \in Turns, TurnFails(t) \/ NarrationMissing(t) \/ Resolve(t)
      PROVE  TurnsKeepApart' /\ Kin'
  <2> DEFINE c == CommandOf[t]
  <2>1. Running(t) /\ Become(t, NoTurn) /\ routed' = routed /\ standing' = standing
    BY <1>7 DEF TurnFails, NarrationMissing, Resolve, FailTurn, Running
  <2>2. PICK r : Update(c, r) /\ (r = Failed(row[c], CommitStatus(t)) \/ r = Resolved(row[c], turn[t].version))
    BY <1>7 DEF TurnFails, NarrationMissing, Resolve, FailTurn
  <2>3. ASSUME Processing(c)
        PROVE  r # NoReceipt /\ r.turn = row[c].turn
    <3>1. row[c] \in ReceiptType
      BY <1>0, <2>3, CommandType DEF RowsOK, Processing
    <3>2. CommitStatus(t) \in Outcomes /\ turn[t].version \in Nat
      BY <1>0 DEF CommitStatus, Outcomes, TypedTurns, TurnType
    <3> QED
      BY <2>2, <3>1, <3>2, SameCall
  <2> QED
    BY <1>2, <2>1, <2>2, <2>3, EndIsCalm
<1>8. ASSUME NEW t \in Turns, Narrate(t) \/ Commit(t) \/ \E k \in Keys \cup {ReadOnly} : CallEngine(t, k)
      PROVE  TurnsKeepApart' /\ Kin'
  <2>1. row' = row /\ routed' = routed /\ standing' = standing /\ turn[t].phase # "off"
    BY <1>8 DEF Narrate, Commit, CallEngine
  <2>2. \A u \in Turns \ {t} : turn'[u] = turn[u]
    BY <1>0, <1>8 DEF Narrate, Commit, CallEngine, Become, TypedTurns
  <2> QED
    BY <1>2, <2>1, <2>2 DEF Calm, Steady, Running, Processing
<1>9. ASSUME NEW c \in Commands, Lapse(c)
      PROVE  TurnsKeepApart' /\ Kin'
  <2>1. /\ Processing(c) /\ turn' = turn /\ routed' = routed /\ standing' = standing
        /\ \A t \in Turns : CommandOf[t] = c => ~Running(t)
        /\ row' = [row EXCEPT ![c] = [row[c] EXCEPT !.lapsed = TRUE]]
    BY <1>9 DEF Lapse, MayLapse, Running
  <2>2. row[c] \in ReceiptType /\ row[c] # NoReceipt
    BY <1>0, <2>1 DEF RowsOK, Processing
  <2>3. row'[c] # NoReceipt /\ row'[c].turn = row[c].turn
    <3>1. [row[c] EXCEPT !.lapsed = TRUE] \in ReceiptType /\ [row[c] EXCEPT !.lapsed = TRUE] # NoReceipt
      BY <2>2, ReceiptUpdates
    <3>2. [row[c] EXCEPT !.lapsed = TRUE].turn = row[c].turn
      BY <2>2 DEF ReceiptType
    <3>3. row'[c] = [row[c] EXCEPT !.lapsed = TRUE]
      BY <1>0, <2>1 DEF RowsOK
    <3> QED
      BY <3>1, <3>2, <3>3
  <2>4. \A d \in Commands \ {c} : row'[d] = row[d]
    BY <1>0, <2>1 DEF RowsOK
  <2> QED
    BY <1>2, <2>1, <2>2, <2>3, <2>4, CommandType DEF Calm, Steady, Running, Processing
<1>10. ASSUME Crash
       PROVE  TurnsKeepApart' /\ Kin'
  BY <1>2, <1>10 DEF Crash, Calm, Steady, Running, Processing, NoTurn
<1>11. ASSUME DeleteRouting \/ Rebind
       PROVE  TurnsKeepApart' /\ Kin'
  BY <1>11, DeletionKeepsApart, RebindKeepsApart
<1>12. ASSUME AdapterBump \/ UNCHANGED vars \/ \E t \in Turns : EngineExecutes(t)
       PROVE  TurnsKeepApart' /\ Kin'
  <2>1. row' = row /\ turn' = turn /\ routed' = routed /\ standing' = standing
    BY <1>12 DEF AdapterBump, vars, EngineExecutes
  <2> QED
    BY <1>2, <2>1 DEF Calm, Steady, Running, Processing
<1>13. ASSUME NEW c \in Commands, Request(c) \/ Poll(c) \/ Lapse(c)
       PROVE  TurnsKeepApart' /\ Kin'
  BY <1>3, <1>4, <1>9, <1>13 DEF Request
<1>14. ASSUME NEW t \in Turns, RunTurn(t)
       PROVE  TurnsKeepApart' /\ Kin'
  BY <1>6, <1>7, <1>8, <1>14 DEF RunTurn
<1> QED
  BY <1>5, <1>10, <1>11, <1>12, <1>13, <1>14 DEF Next

\* Where the phases without a renewal timer end within the lease, no rival, no
\* retry, no expired lease and no turn from before a deletion takes the receipt
\* or the version of a turn that is alone on its command ID, whatever the
\* number of command IDs and calls (beginReferenceCommand(), resolveTurn()).
THEOREM LiveTurnsKeepApart ==
    ASSUME LeaseCovers
    PROVE  Spec => []TurnsKeepApart
<1>1. Init => ApartInv
  BY InitApart
<1>2. ApartInv /\ [Next]_vars => ApartInv'
  BY NextApart
<1>3. ApartInv => TurnsKeepApart
  BY DEF ApartInv
<1> QED
  BY <1>1, <1>2, <1>3, PTL DEF Spec

---------------------------------------------------------------------------
(* Nothing is narrated over a rejection the model was not told of.         *)

\* A turn that is free to narrate has no rejection left, or has been warned.
Answered(r) == r.recovering \/ r.rejected = {} \/ r.warned

DraftInv ==
    /\ TypedTurns
    /\ \A t \in Turns : Answered(turn[t]) /\ (turn[t].phase = "choices" => ~turn[t].recovering)

LEMMA AnsweredKept ==
    ASSUME NEW r \in TurnType, NEW k
    PROVE  Answered(Accepted(r, k)) /\ Answered(Refused(r, k))
           /\ Accepted(r, k).phase = r.phase /\ Refused(r, k).phase = r.phase
  BY DEF Answered, Accepted, Refused, TurnType

\* Neither does going on to another phase answer or forget a rejection.
LEMMA AnsweredAtPhase ==
    ASSUME NEW r \in TurnType, NEW p \in Phases, Answered(r)
    PROVE  /\ [r EXCEPT !.phase = p] \in TurnType
           /\ [r EXCEPT !.phase = p].phase = p
           /\ [r EXCEPT !.phase = p].recovering = r.recovering
           /\ Answered([r EXCEPT !.phase = p])
  BY DEF Answered, TurnType

\* No turn but t, and what becomes of it.
LEMMA OneTurnKeepsDraft ==
    ASSUME DraftInv, TypedTurns', NEW t \in Turns, NEW r, Become(t, r),
           Answered(r), r.phase = "choices" => ~r.recovering
    PROVE  DraftInv'
  BY DEF DraftInv, Become, TypedTurns

LEMMA NextDraft ==
    ASSUME TypeInv, DraftInv, [Next]_vars
    PROVE  DraftInv'
<1>0. TypedTurns /\ TypedTurns' /\ TypedRest
  BY NextTypes, TypeParts, PTL
<1>1. ASSUME UNCHANGED turn
      PROVE  DraftInv'
  BY <1>0, <1>1 DEF DraftInv
<1>2. Answered(NoTurn) /\ NoTurn.phase # "choices"
  BY DEF Answered, NoTurn
<1>3. ASSUME NEW t \in Turns, Become(t, NoTurn)
      PROVE  DraftInv'
  BY <1>0, <1>2, <1>3, OneTurnKeepsDraft
<1>4. ASSUME NEW t \in Turns, StartTurn(t)
      PROVE  DraftInv'
  <2>1. CASE \E q \in Texts, v \in Versions : BeginAdmitted(t, v, q)
    <3>1. Become(t, [NoTurn EXCEPT !.phase = "context"])
      BY <2>1 DEF BeginAdmitted, Become
    <3>2. /\ Answered([NoTurn EXCEPT !.phase = "context"])
          /\ [NoTurn EXCEPT !.phase = "context"].phase # "choices"
      BY DEF Answered, NoTurn
    <3> QED
      BY <1>0, <3>1, <3>2, OneTurnKeepsDraft
  <2>2. CASE UNCHANGED turn
    BY <1>1, <2>2
  <2> QED
    BY <1>4, <2>1, <2>2 DEF StartTurn, BeginRefused
<1>5. ASSUME NEW t \in Turns, ContextRead(t) \/ Narrate(t) \/ Commit(t) \/ DraftWithheld(t)
                                \/ \E k \in Keys \cup {ReadOnly} : CallEngine(t, k)
      PROVE  DraftInv'
  <2>1. turn[t] \in TurnType /\ Answered(turn[t])
    BY DEF DraftInv, TypedTurns
  <2>2. CASE ContextRead(t)
    <3>1. Become(t, [turn[t] EXCEPT !.phase = "completion"]) /\ "completion" \in Phases
      BY <2>2 DEF ContextRead, Phases
    <3> QED
      BY <1>0, <2>1, <3>1, AnsweredAtPhase, OneTurnKeepsDraft
  <2>3. CASE Narrate(t)
    <3> DEFINE r == [turn[t] EXCEPT !.phase = "choices"]
    <3>1. Become(t, r) /\ "choices" \in Phases /\ ~turn[t].recovering
      BY <2>3 DEF Narrate, Phases
    <3>2. Answered(r) /\ ~r.recovering
      BY <2>1, <3>1, AnsweredAtPhase
    <3> HIDE DEF r
    <3> QED
      BY <1>0, <3>1, <3>2, OneTurnKeepsDraft
  <2>4. CASE DraftWithheld(t)
    <3> DEFINE r == [turn[t] EXCEPT !.recovering = FALSE, !.warned = TRUE]
    <3>1. Become(t, r)
      BY <2>4 DEF DraftWithheld
    <3>2. r.warned /\ ~r.recovering
      BY <2>1 DEF TurnType
    <3> HIDE DEF r
    <3> QED
      BY <1>0, <3>1, <3>2, OneTurnKeepsDraft DEF Answered
  <2>5. CASE Commit(t)
    <3>1. PICK v : Become(t, [turn[t] EXCEPT !.phase = "session", !.version = v])
      BY <2>5 DEF Commit
    <3> DEFINE r == [turn[t] EXCEPT !.phase = "session", !.version = v]
    <3>2. r.phase = "session" /\ Answered(r)
      BY <2>1 DEF Answered, TurnType
    <3> HIDE DEF r
    <3> QED
      BY <1>0, <3>1, <3>2, OneTurnKeepsDraft DEF r
  <2>6. CASE \E k \in Keys \cup {ReadOnly} : CallEngine(t, k)
    <3> DEFINE r == [turn[t] EXCEPT !.phase = "tool", !.calls = @ + 1]
    <3>1. Become(t, r)
      BY <2>6 DEF CallEngine
    <3>2. r.phase = "tool" /\ Answered(r)
      BY <2>1 DEF Answered, TurnType
    <3> HIDE DEF r
    <3> QED
      BY <1>0, <3>1, <3>2, OneTurnKeepsDraft
  <2> QED
    BY <1>5, <2>2, <2>3, <2>4, <2>5, <2>6
<1>6. ASSUME NEW t \in Turns, WriteDocket(t)
      PROVE  DraftInv'
  <2> DEFINE r == [turn[t] EXCEPT !.calls = @ + 1]
  <2>1. r \in TurnType /\ r.phase = "completion"
    <3>1. turn[t] \in TurnType /\ turn[t].phase = "completion"
      BY <1>0, <1>6 DEF WriteDocket, TypedTurns
    <3>2. r \in TurnType
      BY <3>1, TurnUpdates
    <3>3. r.phase = turn[t].phase
      BY <3>1 DEF TurnType
    <3> QED
      BY <3>1, <3>2, <3>3
  <2>2. Become(t, Accepted(r, ReadOnly))
    BY <1>6 DEF WriteDocket
  <2> HIDE DEF r
  <2> QED
    BY <1>0, <2>1, <2>2, AnsweredKept, OneTurnKeepsDraft
<1>7. ASSUME NEW t \in Turns, ToolReturns(t)
      PROVE  DraftInv'
  <2> DEFINE r == [turn[t] EXCEPT !.phase = "completion"]
  <2>1. r \in TurnType /\ r.phase = "completion" /\ Answered(r)
    <3>1. turn[t] \in TurnType /\ Answered(turn[t]) /\ "completion" \in Phases
      BY <1>0 DEF DraftInv, TypedTurns, Phases
    <3> QED
      BY <3>1, AnsweredAtPhase
  <2>2. \/ Become(t, r)
        \/ Become(t, Accepted(r, wire[t].key))
        \/ Become(t, Refused(r, wire[t].key))
    BY <1>7 DEF ToolReturns
  <2> HIDE DEF r
  <2> QED
    BY <1>0, <2>1, <2>2, AnsweredKept, OneTurnKeepsDraft
<1>8. ASSUME NEW t \in Turns, TurnFails(t) \/ NarrationMissing(t) \/ Resolve(t)
      PROVE  DraftInv'
  BY <1>3, <1>8 DEF TurnFails, NarrationMissing, Resolve, FailTurn
<1>9. ASSUME NEW t \in Turns, RunTurn(t)
      PROVE  DraftInv'
  BY <1>1, <1>5, <1>6, <1>7, <1>8, <1>9 DEF RunTurn, RenewLease
<1>10. ASSUME \/ AdapterBump \/ DeleteRouting \/ Rebind \/ UNCHANGED vars
              \/ \E c \in Commands : Request(c) \/ Poll(c) \/ Lapse(c)
              \/ \E t \in Turns : EngineExecutes(t)
       PROVE  DraftInv'
  BY <1>1, <1>10
     DEF AdapterBump, DeleteRouting, Rebind, vars, Request, Retry, Poll, Blocked, Lapse, EngineExecutes
<1>11. ASSUME Crash
       PROVE  DraftInv'
  BY <1>0, <1>2, <1>11 DEF Crash, DraftInv
<1> QED
  BY <1>4, <1>9, <1>10, <1>11 DEF Next

\* A narration drafted over a rejected state change is never published unless
\* the model was told of it and drafted again, whatever calls come in between
\* and however the lease compares with the turn's phases (resolveTurn()).
THEOREM NarrationIsWarned == Spec => []NoUnwarnedNarration
<1>1. Init => TypeInv /\ DraftInv
  <2>1. Answered(NoTurn) /\ NoTurn.phase # "choices"
    BY DEF Answered, NoTurn
  <2> QED
    BY <2>1, InitTypes, TypeParts DEF Init, DraftInv
<1>2. TypeInv /\ DraftInv /\ [Next]_vars => TypeInv' /\ DraftInv'
  BY NextTypes, NextDraft
<1>3. DraftInv => NoUnwarnedNarration
  BY DEF DraftInv, Answered, NoUnwarnedNarration
<1> QED
  BY <1>1, <1>2, <1>3, PTL DEF Spec

---------------------------------------------------------------------------
(* The receipts implement TurnReceipts.                                    *)

\* What TurnReceipts keeps of a receipt.
View(r) == IF r = NoReceipt THEN NoReceipt ELSE [status |-> r.status, base |-> r.base]

ReceiptView == [c \in Commands |-> View(row[c])]

LEMMA ViewIsReceipt ==
    ASSUME NEW r \in ReceiptType
    PROVE  /\ View(r) = [status |-> r.status, base |-> r.base] /\ View(r) # NoReceipt
           /\ View(r).status = r.status /\ View(r).base = r.base
<1>1. [status |-> r.status, base |-> r.base]
         \in [status : {"processing", "resolved", "failed"}, base : Versions]
  BY DEF ReceiptType
<1> QED
  BY <1>1, ReceiptUpdates, TurnAssumption DEF View

\* The open receipts are the processing ones.
LEMMA OpenIsProcessing ==
    ASSUME RowsOK
    PROVE  /\ Receipts!Open = {c \in Commands : Processing(c)}
           /\ \A v : Receipts!OpenAt(v) = ActiveAt(v)
<1>1. ASSUME NEW c \in Commands
      PROVE  /\ (View(row[c]) # NoReceipt /\ View(row[c]).status = "processing") <=> Processing(c)
             /\ Processing(c) => View(row[c]).base = row[c].base
  <2>1. CASE row[c] = NoReceipt
    BY <2>1 DEF View, Processing
  <2>2. CASE row[c] \in ReceiptType
    BY <2>2, ViewIsReceipt, ReceiptUpdates DEF Processing
  <2> QED
    BY <2>1, <2>2 DEF RowsOK
<1>2. Receipts!Open = {c \in Commands : Processing(c)}
  BY <1>1 DEF Receipts!Open, View
<1>3. ASSUME NEW v
      PROVE  Receipts!OpenAt(v) = ActiveAt(v)
  BY <1>1, <1>2 DEF Receipts!OpenAt, ActiveAt, View
<1> QED
  BY <1>2, <1>3

\* Closing an open receipt.
LEMMA ClosedView ==
    ASSUME NEW r \in ReceiptType, NEW q \in ReceiptType, q.base = r.base
    PROVE  View(q) = Receipts!Closed(View(r), q.status)
  BY ViewIsReceipt DEF Receipts!Closed, ReceiptType

\* Commands whose receipts are closed as they are, and the others left alone.
LEMMA FailIsAbstract ==
    ASSUME RowsOK, NEW cs \in SUBSET Commands, \A c \in cs : Processing(c),
           row' \in [Commands -> ReceiptType \cup {NoReceipt}],
           \A c \in cs : row'[c] # NoReceipt /\ row'[c].status = "failed" /\ row'[c].base = row[c].base,
           \A c \in Commands \ cs : row'[c] = row[c]
    PROVE  Receipts!Fail(cs)
<1>1. cs \subseteq Receipts!Open
  BY OpenIsProcessing
<1>2. ASSUME NEW c \in cs
      PROVE  View(row'[c]) = Receipts!Closed(View(row[c]), "failed")
  <2>1. row[c] \in ReceiptType /\ row'[c] \in ReceiptType
    BY DEF RowsOK, Processing
  <2> QED
    BY <2>1, ClosedView
<1>3. ReceiptView' = [c \in Commands |-> IF c \in cs THEN Receipts!Closed(ReceiptView[c], "failed")
                                      ELSE ReceiptView[c]]
  BY <1>2 DEF ReceiptView
<1> QED
  BY <1>1, <1>3 DEF Receipts!Fail, ReceiptView, View

\* A step that changes no status and no base is none of the receipts'.
LEMMA StutterIsAbstract ==
    ASSUME RowsOK, RowsOK',
           \A c \in Commands : row'[c] # row[c] =>
              /\ row[c] # NoReceipt /\ row'[c] # NoReceipt
              /\ row'[c].status = row[c].status /\ row'[c].base = row[c].base
    PROVE  UNCHANGED ReceiptView
<1>1. \A c \in Commands : View(row'[c]) = View(row[c])
  BY DEF View
<1>2. ReceiptView' = ReceiptView
  BY <1>1 DEF ReceiptView
<1> QED
  BY <1>2 DEF ReceiptView, ReceiptView, View

\* touchReferenceCommand() is not seen.
LEMMA TouchIsAbstract ==
    ASSUME RowsOK, NEW c \in Commands, Touch(c)
    PROVE  UNCHANGED ReceiptView
<1>1. RowsOK'
  BY TouchKeepsRows
<1>2. CASE Processing(c)
  <2>1. row[c] \in ReceiptType /\ row' = [row EXCEPT ![c] = Touched(row[c])]
    BY <1>2 DEF RowsOK, Processing, Touch, Update
  <2>2. /\ Touched(row[c]) # NoReceipt /\ row[c] # NoReceipt
        /\ Touched(row[c]).status = row[c].status /\ Touched(row[c]).base = row[c].base
    BY <2>1, ReceiptUpdates, ReceiptFields
  <2> QED
    BY <1>1, <2>1, <2>2, StutterIsAbstract DEF RowsOK
<1>3. CASE ~Processing(c)
  BY <1>1, <1>3, StutterIsAbstract DEF Touch, Update
<1> QED
  BY <1>2, <1>3

LEMMA ExpiryIsAbstract ==
    ASSUME RowsOK, NEW cs \in SUBSET Commands, \A c \in cs : Processing(c),
           row' = Expired(row, cs)
    PROVE  Receipts!Fail(cs)
<1>1. row' \in [Commands -> ReceiptType \cup {NoReceipt}]
  BY ExpiredKeepsRows
<1>2. ASSUME NEW c \in cs
      PROVE  row'[c] # NoReceipt /\ row'[c].status = "failed" /\ row'[c].base = row[c].base
  <2>1. row[c] \in ReceiptType /\ row'[c] = Failed(row[c], "uncertain") /\ "uncertain" \in Outcomes
    BY DEF RowsOK, Processing, Expired, Outcomes
  <2>2. row'[c] \in ReceiptType
    BY <2>1, ReceiptUpdates
  <2> QED
    <3>1. Failed(row[c], "uncertain").status = "failed" /\ Failed(row[c], "uncertain").base = row[c].base
      BY <2>1, ReceiptFields
    <3>2. row'[c] # NoReceipt
      BY <2>2, ReceiptUpdates
    <3> QED
      BY <2>1, <3>1, <3>2
<1>3. \A c \in Commands \ cs : row'[c] = row[c]
  BY DEF Expired, RowsOK
<1> QED
  BY <1>1, <1>2, <1>3, FailIsAbstract

\* failTurn() fails the receipt it finds, or finds it closed.
LEMMA FailTurnIsAbstract ==
    ASSUME TypeInv, NEW t \in Turns, FailTurn(t)
    PROVE  Receipts!Fail({CommandOf[t]}) \/ UNCHANGED ReceiptView
<1> DEFINE c == CommandOf[t]
<1>0. c \in Commands
  BY CommandType
<1>1. RowsOK /\ RowsOK' /\ Update(c, Failed(row[c], CommitStatus(t)))
  BY FailTurnKeepsTypes, TypeParts DEF FailTurn
<1> HIDE DEF c
<1>2. CASE Processing(c)
  <2>1. row[c] \in ReceiptType /\ CommitStatus(t) \in Outcomes
    BY <1>0, <1>1, <1>2 DEF RowsOK, Processing, CommitStatus, Outcomes
  <2>2. row' = [row EXCEPT ![c] = Failed(row[c], CommitStatus(t))]
    BY <1>1, <1>2 DEF Update
  <2>3. /\ Failed(row[c], CommitStatus(t)) # NoReceipt
        /\ Failed(row[c], CommitStatus(t)).status = "failed"
        /\ Failed(row[c], CommitStatus(t)).base = row[c].base
    BY <2>1, SameCall, ReceiptFields
  <2>4. row'[c] = Failed(row[c], CommitStatus(t)) /\ \A d \in Commands \ {c} : row'[d] = row[d]
    BY <1>0, <1>1, <2>2 DEF RowsOK
  <2>5. Receipts!Fail({c})
    BY <1>0, <1>1, <1>2, <2>3, <2>4, FailIsAbstract DEF RowsOK
  <2> QED
    BY <2>5 DEF c
<1>3. CASE ~Processing(c)
  BY <1>1, <1>3, StutterIsAbstract DEF Update
<1> QED
  BY <1>2, <1>3

LEMMA ResolveIsAbstract ==
    ASSUME TypeInv, NEW t \in Turns, Resolve(t)
    PROVE  Receipts!Resolve(CommandOf[t]) \/ UNCHANGED ReceiptView
<1> DEFINE c == CommandOf[t]
<1>0. c \in Commands
  BY CommandType
<1>1. RowsOK /\ turn[t].version \in Nat /\ Update(c, Resolved(row[c], turn[t].version))
  BY TypeParts DEF Resolve, TypedTurns, TurnType
<1> HIDE DEF c
<1>2. CASE Processing(c)
  <2>1. row[c] \in ReceiptType /\ row' = [row EXCEPT ![c] = Resolved(row[c], turn[t].version)]
    BY <1>0, <1>1, <1>2 DEF RowsOK, Processing, Update
  <2>7. Resolved(row[c], turn[t].version) \in ReceiptType
    BY <1>1, <2>1, ReceiptUpdates
  <2>2. /\ Resolved(row[c], turn[t].version) \in ReceiptType
        /\ Resolved(row[c], turn[t].version).status = "resolved"
        /\ Resolved(row[c], turn[t].version).base = row[c].base
    BY <2>1, <2>7, ReceiptFields
  <2>3. View(Resolved(row[c], turn[t].version)) = Receipts!Closed(View(row[c]), "resolved")
    BY <2>1, <2>2, ClosedView
  <2>4. ReceiptView' = [ReceiptView EXCEPT ![c] = Receipts!Closed(@, "resolved")]
    BY <1>0, <1>1, <2>1, <2>3 DEF ReceiptView, RowsOK
  <2>5. c \in Receipts!Open
    BY <1>0, <1>1, <1>2, OpenIsProcessing
  <2>6. Receipts!Resolve(c)
    BY <1>1, <2>4, <2>5 DEF Receipts!Resolve, ReceiptView, View
  <2> QED
    BY <2>6 DEF c
<1>3. CASE ~Processing(c)
  <2>1. row' = row
    BY <1>1, <1>3 DEF Update
  <2> QED
    BY <1>1, <2>1, StutterIsAbstract DEF RowsOK, ClosedHaveOutcome
<1> QED
  BY <1>2, <1>3

\* beginReferenceCommand() of a command ID without a receipt.
LEMMA BeginIsAbstract ==
    ASSUME TypeInv, NEW t \in Turns, NEW v \in Versions, NEW q \in Texts,
           BeginAdmitted(t, v, q) \/ BeginRefused(t, v, q)
    PROVE  \E status \in {"processing", "failed"} : Receipts!Start(CommandOf[t], v, status)
<1> DEFINE c == CommandOf[t]
<1>0. c \in Commands
  BY CommandType
<1>1. RowsOK /\ row[c] = NoReceipt
  BY TypeParts DEF BeginAdmitted, BeginRefused, Begin, MayStart
<1>2. PICK r \in ReceiptType :
         /\ row' = [Expired(row, ActiveAt(v)) EXCEPT ![c] = r]
         /\ r.base = v /\ r.status \in {"processing", "failed"}
  <2>1. /\ Received(t, v, q) \in ReceiptType
        /\ Received(t, v, q).base = v /\ Received(t, v, q).status = "processing"
    BY ReceivedType DEF Received
  <2>2. /\ Failed(Received(t, v, q), "not_committed") \in ReceiptType
        /\ Failed(Received(t, v, q), "not_committed").base = v
        /\ Failed(Received(t, v, q), "not_committed").status = "failed"
    BY <2>1, ReceiptUpdates DEF Failed, Received, Outcomes
  <2> QED
    BY <2>1, <2>2 DEF BeginAdmitted, BeginRefused, Inserted
<1> HIDE DEF c
<1>3. c \notin ActiveAt(v) /\ ActiveAt(v) \in SUBSET Commands
  BY <1>1 DEF ActiveAt, Processing
<1>4. row'[c] = r /\ \A d \in Commands \ {c} : row'[d] = IF d \in ActiveAt(v) THEN Failed(row[d], "uncertain") ELSE row[d]
  BY <1>0, <1>2 DEF Expired
<1>5. View(r) = [status |-> r.status, base |-> v]
  BY <1>2, ViewIsReceipt
<1>6. ASSUME NEW d \in ActiveAt(v)
      PROVE  View(Failed(row[d], "uncertain")) = Receipts!Closed(View(row[d]), "failed")
  <2>1. row[d] \in ReceiptType
    BY <1>1 DEF RowsOK, ActiveAt, Processing
  <2>2. /\ Failed(row[d], "uncertain") \in ReceiptType
        /\ Failed(row[d], "uncertain").status = "failed"
        /\ Failed(row[d], "uncertain").base = row[d].base
    <3>1. "uncertain" \in Outcomes
      BY DEF Outcomes
    <3>2. Failed(row[d], "uncertain") \in ReceiptType
      BY <2>1, <3>1, ReceiptUpdates
    <3> QED
      BY <2>1, <3>2, ReceiptFields
  <2> QED
    BY <2>1, <2>2, ClosedView
<1>7. ReceiptView' = [d \in Commands |->
         CASE d = c -> [status |-> r.status, base |-> v]
           [] d \in ActiveAt(v) \ {c} -> Receipts!Closed(ReceiptView[d], "failed")
           [] OTHER -> ReceiptView[d]]
  BY <1>3, <1>4, <1>5, <1>6 DEF ReceiptView
<1>8. Receipts!OpenAt(v) = ActiveAt(v)
  BY <1>1, OpenIsProcessing
<1>9. ReceiptView[c] = NoReceipt
  BY <1>0, <1>1 DEF ReceiptView, View
<1>10. Receipts!Start(c, v, r.status)
  BY <1>7, <1>8, <1>9 DEF Receipts!Start, ReceiptView, View
<1> QED
  BY <1>2, <1>10 DEF c

\* Every step of a turn is a step of the receipts, or none.
LEMMA StepIsAbstract ==
    ASSUME TypeInv, [Next]_vars
    PROVE  [Receipts!Next]_ReceiptView
<1> USE DEF campaignVars, ghostVars
<1>0. TypeInv /\ RowsOK /\ RowsOK'
  BY NextTypes, TypeParts, PTL
<1>1. ASSUME row' = row
      PROVE  UNCHANGED ReceiptView
  BY <1>0, <1>1, StutterIsAbstract
<1>2. ASSUME NEW cs \in SUBSET Commands, Receipts!Fail(cs)
      PROVE  Receipts!Next
  BY <1>2 DEF Receipts!Next
<1>3. ASSUME NEW c \in Commands, NEW q, Retry(c, q) \/ Poll(c)
      PROVE  [Receipts!Next]_ReceiptView
  <2>1. CASE Replay(c)
    BY <1>1, <2>1 DEF Replay
  <2>2. CASE Recover(c)
    <3>1. Receipts!Fail({c})
      BY <1>0, <2>2, ExpiryIsAbstract DEF Recover
    <3> QED
      BY <1>2, <3>1
  <2> QED
    BY <1>3, <2>1, <2>2 DEF Retry, Poll
<1>4. ASSUME NEW c \in Commands, NEW v \in Versions, Blocked(c, v)
      PROVE  Receipts!Next
  <2>1. PICK cs \in SUBSET {d \in ActiveAt(v) : row[d].lapsed} : row' = Expired(row, cs)
    BY <1>4 DEF Blocked
  <2>2. cs \in SUBSET Commands /\ \A d \in cs : Processing(d)
    BY DEF ActiveAt
  <2>3. Receipts!Fail(cs)
    BY <1>0, <2>1, <2>2, ExpiryIsAbstract
  <2> QED
    BY <1>2, <2>2, <2>3
<1>5. ASSUME NEW t \in Turns, StartTurn(t)
      PROVE  Receipts!Next
  BY <1>0, <1>5, BeginIsAbstract, CommandType DEF StartTurn, Receipts!Next
<1>6. ASSUME NEW t \in Turns,
             ContextRead(t) \/ RenewLease(t) \/ DraftWithheld(t) \/ WriteDocket(t) \/ ToolReturns(t)
      PROVE  UNCHANGED ReceiptView
  BY <1>0, <1>6, TouchIsAbstract, CommandType
     DEF ContextRead, RenewLease, DraftWithheld, WriteDocket, ToolReturns
<1>7. ASSUME NEW t \in Turns, TurnFails(t) \/ NarrationMissing(t)
      PROVE  [Receipts!Next]_ReceiptView
  <2>1. FailTurn(t) /\ {CommandOf[t]} \in SUBSET Commands
    BY <1>7, CommandType DEF TurnFails, NarrationMissing
  <2> QED
    BY <1>0, <1>2, <2>1, FailTurnIsAbstract
<1>8. ASSUME NEW t \in Turns, Resolve(t)
      PROVE  [Receipts!Next]_ReceiptView
  BY <1>0, <1>8, ResolveIsAbstract, CommandType DEF Receipts!Next
<1>9. ASSUME NEW t \in Turns, Narrate(t) \/ Commit(t) \/ EngineExecutes(t)
                                \/ \E k \in Keys \cup {ReadOnly} : CallEngine(t, k)
      PROVE  UNCHANGED ReceiptView
  BY <1>1, <1>9 DEF Narrate, Commit, EngineExecutes, CallEngine
<1>10. ASSUME NEW c \in Commands, Lapse(c)
       PROVE  UNCHANGED ReceiptView
  <2>1. /\ Processing(c)
        /\ row' = [row EXCEPT ![c] = [row[c] EXCEPT !.lapsed = TRUE]]
    BY <1>10 DEF Lapse, MayLapse
  <2>2. row[c] \in ReceiptType
    BY <1>0, <2>1 DEF RowsOK, Processing
  <2>3. /\ [row[c] EXCEPT !.lapsed = TRUE].status = row[c].status
        /\ [row[c] EXCEPT !.lapsed = TRUE].base = row[c].base
    BY <2>2 DEF ReceiptType
  <2>4. /\ row'[c] = [row[c] EXCEPT !.lapsed = TRUE]
        /\ \A d \in Commands \ {c} : row'[d] = row[d]
    BY <1>0, <2>1 DEF RowsOK
  <2>5. row'[c] # NoReceipt /\ row[c] # NoReceipt
    BY <1>0, <2>1, <2>2, <2>4, TurnAssumption, ReceiptUpdates
  <2> QED
    BY <1>0, <2>1, <2>3, <2>4, <2>5, StutterIsAbstract
<1>11. ASSUME DeleteRouting
       PROVE  Receipts!Next
  <2>1. ReceiptView' = [c \in Commands |-> NoReceipt]
    BY <1>11 DEF DeleteRouting, ReceiptView, View
  <2>2. Receipts!Erase
    BY <2>1 DEF Receipts!Erase, ReceiptView, View
  <2> QED
    BY <2>2 DEF Receipts!Next
<1>12. ASSUME AdapterBump \/ Rebind \/ Crash \/ UNCHANGED vars
       PROVE  UNCHANGED ReceiptView
  BY <1>1, <1>12 DEF AdapterBump, Rebind, Crash, vars
<1>13. ASSUME NEW c \in Commands, Request(c) \/ Poll(c) \/ Lapse(c)
       PROVE  [Receipts!Next]_ReceiptView
  BY <1>3, <1>4, <1>10, <1>13 DEF Request
<1>14. ASSUME NEW t \in Turns, RunTurn(t)
       PROVE  [Receipts!Next]_ReceiptView
  BY <1>6, <1>7, <1>8, <1>9, <1>14 DEF RunTurn
<1> QED
  BY <1>5, <1>9, <1>11, <1>12, <1>13, <1>14 DEF Next

\* The receipts keep the promise of TurnReceipts for any number of command IDs,
\* calls and versions, across deletions and new bindings of the campaign with
\* calls left over from before, and whether or not the lease can run out under
\* a live turn: until the campaign is deleted a command ID has one start and
\* its outcome does not change, and there is one open turn per version
\* (ReferenceEngineStore).
THEOREM ReceiptsImplemented == Spec => ReceiptsSpec
<1>1. Init => TypeInv /\ Receipts!Init
  <2> SUFFICES ASSUME Init PROVE TypeInv /\ Receipts!Init
    OBVIOUS
  <2>1. TypeInv
    BY InitTypes
  <2>2. Receipts!Init
    BY DEF Init, Receipts!Init
  <2> QED
    BY <2>1, <2>2
<1>2. TypeInv /\ [Next]_vars => TypeInv' /\ [Receipts!Next]_Receipts!vars
  BY NextTypes, StepIsAbstract DEF Receipts!vars, ReceiptView, View
<1> QED
  BY <1>1, <1>2, PTL DEF Spec, ReceiptsSpec, Receipts!Spec

---------------------------------------------------------------------------
(* One outcome is told.                                                    *)

\* What clients have been told of a call that is alone is the outcome of its
\* receipt, and nothing while the call or the receipt is open. When the
\* campaign is deleted they can be told what such a call ends with, once.
ToldOf(t) ==
    standing[t] # "beside" =>
       /\ Running(t) \/ standing[t] = "new" \/ (Alone(t) /\ Processing(CommandOf[t])) => told[t] = {}
       /\ Alone(t) => told[t] \subseteq {row[CommandOf[t]].outcome}
       /\ \E o \in Outcomes : told[t] \subseteq {o}

ToldInv == ApartInv /\ \A t \in Turns : ToldOf(t)

\* A step that tells nobody anything of t keeps it, if it starts nothing and
\* neither opens the receipt of t nor changes its outcome.
LEMMA SilenceKeepsTold ==
    ASSUME NEW t, ToldOf(t), told'[t] = told[t], standing'[t] = standing[t],
           Running(t)' => Running(t),
           Alone(t) => /\ Processing(CommandOf[t])' => Processing(CommandOf[t])
                       /\ row'[CommandOf[t]].outcome = row[CommandOf[t]].outcome
    PROVE  ToldOf(t)'
  BY DEF ToldOf, Alone

\* The first thing said about t is said as its turn ends.
LEMMA FirstWordKeepsTold ==
    ASSUME NEW t, NEW o \in Outcomes, told[t] = {}, told'[t] = {o} \/ told'[t] = {},
           ~Running(t)', standing'[t] # "new",
           Alone(t)' => ~Processing(CommandOf[t])' /\ row'[CommandOf[t]].outcome = o
    PROVE  ToldOf(t)'
  BY DEF ToldOf

LEMMA InitTold == Init => ToldInv
<1> SUFFICES ASSUME Init PROVE ToldInv
  OBVIOUS
<1>1. \A t \in Turns : ToldOf(t)
  BY DEF Init, ToldOf, Outcomes
<1> QED
  BY <1>1, InitApart DEF ToldInv

\* A receipt after it was failed by a rival or a client's request.
LEMMA ExpiredReceipt ==
    ASSUME RowsOK, NEW c \in Commands, Processing(c)
    PROVE  LET r == Failed(row[c], "uncertain")
           IN  r # NoReceipt /\ r.outcome = "uncertain" /\ r.status = "failed" /\ r.turn = row[c].turn
<1>1. row[c] \in ReceiptType /\ "uncertain" \in Outcomes
  BY DEF RowsOK, Processing, Outcomes
<1>2. Failed(row[c], "uncertain") # NoReceipt
  BY <1>1, SameCall
<1> QED
  BY <1>1, <1>2, ReceiptFields

\* The receipts of dead turns are failed before anything was said of them.
LEMMA ExpiryKeepsTold ==
    ASSUME ToldInv, NEW cs \in SUBSET Commands, \A c \in cs : Processing(c) /\ row[c].lapsed,
           NEW u \in Turns, turn'[u] = turn[u], standing'[u] = standing[u],
           Alone(u) => row'[CommandOf[u]] = Expired(row, cs)[CommandOf[u]],
           \/ told'[u] = told[u]
           \/ /\ standing[u] \in {"alone", "beside"} /\ CommandOf[u] \in cs
              /\ told'[u] = told[u] \cup {"uncertain"}
    PROVE  ToldOf(u)'
<1> DEFINE c == CommandOf[u]
<1>1. RowsOK /\ ToldOf(u) /\ LiveTurnKeepsReceipt /\ c \in Commands
  BY TypeParts, CommandType DEF ToldInv, ApartInv, TurnsKeepApart
<1>2. CASE Alone(u) /\ c \in cs
  <2>1. told[u] = {} /\ Processing(c) /\ ~Running(u)
    BY <1>1, <1>2 DEF ToldOf, Alone, LiveTurnKeepsReceipt
  <2>2. row'[c] = Failed(row[c], "uncertain") /\ "uncertain" \in Outcomes
    BY <1>1, <1>2 DEF Expired, Outcomes
  <2>3. row'[c].outcome = "uncertain" /\ row'[c].status = "failed"
    BY <1>1, <2>1, <2>2, ExpiredReceipt
  <2>4. ~Running(u)' /\ ~Processing(c)' /\ standing'[u] # "new"
    BY <1>2, <2>1, <2>3 DEF Running, Processing, Alone
  <2>5. told'[u] = {"uncertain"} \/ told'[u] = {}
    BY <2>1
  <2> QED
    BY <2>1, <2>2, <2>3, <2>4, <2>5, FirstWordKeepsTold
<1>3. CASE Alone(u) /\ c \notin cs
  <2>1. row'[c] = row[c] /\ told'[u] = told[u]
    BY <1>1, <1>3 DEF Expired
  <2> QED
    BY <1>1, <2>1, SilenceKeepsTold DEF Running, Processing
<1>4. CASE standing[u] = "beside"
  BY <1>4 DEF ToldOf
<1>5. CASE ~Alone(u) /\ standing[u] # "beside"
  <2>1. told'[u] = told[u]
    BY <1>5 DEF Alone
  <2> QED
    BY <1>1, <1>5, <2>1, SilenceKeepsTold DEF Running
<1> QED
  BY <1>2, <1>3, <1>4, <1>5

\* beginReferenceCommand() speaks of no other call than the one it starts.
LEMMA BeginKeepsTold ==
    ASSUME ToldInv, NEW t \in Turns, NEW v \in Versions, NEW q \in Texts,
           BeginAdmitted(t, v, q) \/ BeginRefused(t, v, q), NEW u \in Turns
    PROVE  ToldOf(u)'
<1> DEFINE c == CommandOf[t]
<1> USE CommandType
<1>0. /\ RowsOK /\ TypedTurns /\ TypedTold /\ Kin /\ ToldOf(t) /\ ToldOf(u)
      /\ standing \in [Turns -> Standings]
  BY TypeParts DEF ToldInv, ApartInv, TypedRest
<1>1. /\ row[c] = NoReceipt /\ standing[t] = "new" /\ ~Running(t)
      /\ \A d \in ActiveAt(v) : row[d].lapsed
      /\ standing' = [standing EXCEPT ![t] = IF Fellows(t) = {} THEN "alone" ELSE "beside"]
  BY <1>0 DEF BeginAdmitted, BeginRefused, Begin, MayStart, Kin, NewIdle
<1>2. told[t] = {} /\ standing'[t] \in {"alone", "beside"}
  BY <1>0, <1>1 DEF ToldOf
<1>3. CASE u = t /\ BeginAdmitted(t, v, q)
  <2>1. told'[t] = {}
    BY <1>2, <1>3 DEF BeginAdmitted
  <2> QED
    BY <1>3, <2>1 DEF ToldOf, Outcomes
<1>4. CASE u = t /\ BeginRefused(t, v, q)
  <2>1. row'[c] = Failed(Received(t, v, q), "not_committed") /\ told'[t] = {"not_committed"}
    BY <1>0, <1>2, <1>4 DEF BeginRefused, Inserted, Expired, Tell, TypedTold
  <2>2. Received(t, v, q) \in ReceiptType /\ "not_committed" \in Outcomes
    BY ReceivedType DEF Outcomes
  <2>3. row'[c].outcome = "not_committed" /\ row'[c].status = "failed"
    BY <2>1, <2>2, ReceiptFields
  <2>4. ~Running(t)' /\ ~Processing(c)'
    BY <1>1, <1>4, <2>3 DEF BeginRefused, Processing, Running
  <2> QED
    BY <1>2, <1>4, <2>1, <2>2, <2>3, <2>4, FirstWordKeepsTold
<1>5. CASE u # t
  <2>1. turn'[u] = turn[u] /\ standing'[u] = standing[u] /\ told'[u] = told[u]
    BY <1>0, <1>1, <1>5 DEF BeginAdmitted, BeginRefused, Tell, TypedTurns, TypedTold
  <2>2. Alone(u) => row'[CommandOf[u]] = Expired(row, ActiveAt(v))[CommandOf[u]]
    <3>1. Alone(u) => CommandOf[u] # c
      BY <1>0, <1>1 DEF Kin, AloneHolds, Holds
    <3> QED
      BY <3>1 DEF BeginAdmitted, BeginRefused, Inserted, Expired
  <2>3. ActiveAt(v) \in SUBSET Commands /\ \A d \in ActiveAt(v) : Processing(d) /\ row[d].lapsed
    BY <1>1 DEF ActiveAt
  <2> QED
    BY <2>1, <2>2, <2>3, ExpiryKeepsTold
<1> QED
  BY <1>3, <1>4, <1>5

\* The outcome a turn ends with, and what it leaves in the receipt it finds.
LEMMA EndWrites ==
    ASSUME TypeInv, NEW t \in Turns, TurnFails(t) \/ NarrationMissing(t) \/ Resolve(t)
    PROVE  /\ Running(t) /\ Become(t, NoTurn)
           /\ routed' = routed /\ standing' = standing /\ version' = version /\ log' = log
           /\ \E o \in Outcomes : \E r :
                 /\ Update(CommandOf[t], r) /\ Tell(t, o)
                 /\ Processing(CommandOf[t]) =>
                       /\ r \in ReceiptType /\ r # NoReceipt
                       /\ r.outcome = o /\ r.status # "processing" /\ r.base = row[CommandOf[t]].base
                       /\ r.turn = row[CommandOf[t]].turn
                       /\ o = "resolved" => r.version = turn[t].version /\ turn[t].phase = "session"
                       /\ o = "resolved" <=> r.status = "resolved"
<1> DEFINE c == CommandOf[t]
<1>0. RowsOK /\ TypedTurns /\ c \in Commands
  BY TypeParts, CommandType
<1>1. /\ Running(t) /\ Become(t, NoTurn)
      /\ routed' = routed /\ standing' = standing /\ version' = version /\ log' = log
  BY DEF TurnFails, NarrationMissing, Resolve, Running, FailTurn, campaignVars
<1>2. Processing(c) => row[c] \in ReceiptType
  BY <1>0 DEF RowsOK, Processing
<1>3. CASE FailTurn(t)
  <2>1. CommitStatus(t) \in Outcomes \ {"resolved"}
    BY DEF CommitStatus, Outcomes
  <2> DEFINE r == Failed(row[c], CommitStatus(t))
  <2>2. Processing(c) => r \in ReceiptType
    BY <1>2, <2>1, ReceiptUpdates
  <2>3. Processing(c) => r # NoReceipt
    BY <1>2, <2>1, SameCall
  <2>4. Processing(c) => /\ r.outcome = CommitStatus(t) /\ r.status = "failed"
                         /\ r.base = row[c].base /\ r.turn = row[c].turn
    BY <1>2, ReceiptFields
  <2>5. Update(c, r) /\ Tell(t, CommitStatus(t))
    BY <1>3 DEF FailTurn
  <2> HIDE DEF r, c
  <2>6. \E o \in Outcomes : \E s :
           /\ Update(c, s) /\ Tell(t, o)
           /\ Processing(c) =>
                 /\ s \in ReceiptType /\ s # NoReceipt
                 /\ s.outcome = o /\ s.status # "processing" /\ s.base = row[c].base
                 /\ s.turn = row[c].turn
                 /\ o = "resolved" => s.version = turn[t].version /\ turn[t].phase = "session"
                 /\ o = "resolved" <=> s.status = "resolved"
    BY <2>1, <2>2, <2>3, <2>4, <2>5
  <2> QED
    BY <1>1, <2>6 DEF c
<1>4. CASE Resolve(t)
  <2> DEFINE r == Resolved(row[c], turn[t].version)
  <2>1. turn[t].version \in Nat /\ "resolved" \in Outcomes /\ turn[t].phase = "session"
    BY <1>0, <1>4 DEF TypedTurns, TurnType, Outcomes, Resolve
  <2>2. Processing(c) => r \in ReceiptType
    BY <1>2, <2>1, ReceiptUpdates
  <2>3. Processing(c) => r # NoReceipt
    BY <1>2, <2>1, SameCall
  <2>4. Processing(c) => /\ r.outcome = "resolved" /\ r.status = "resolved"
                         /\ r.base = row[c].base /\ r.turn = row[c].turn
                         /\ r.version = turn[t].version
    BY <1>2, ReceiptFields
  <2>5. Update(c, r) /\ Tell(t, "resolved")
    BY <1>4 DEF Resolve
  <2> HIDE DEF r, c
  <2>6. \E o \in Outcomes : \E s :
           /\ Update(c, s) /\ Tell(t, o)
           /\ Processing(c) =>
                 /\ s \in ReceiptType /\ s # NoReceipt
                 /\ s.outcome = o /\ s.status # "processing" /\ s.base = row[c].base
                 /\ s.turn = row[c].turn
                 /\ o = "resolved" => s.version = turn[t].version /\ turn[t].phase = "session"
                 /\ o = "resolved" <=> s.status = "resolved"
    BY <2>1, <2>2, <2>3, <2>4, <2>5
  <2> QED
    BY <1>1, <2>6 DEF c
<1> QED
  BY <1>3, <1>4 DEF TurnFails, NarrationMissing

LEMMA EndKeepsTold ==
    ASSUME ToldInv, NEW t \in Turns, TurnFails(t) \/ NarrationMissing(t) \/ Resolve(t), NEW u \in Turns
    PROVE  ToldOf(u)'
<1> DEFINE c == CommandOf[t]
<1>0. /\ TypeInv /\ RowsOK /\ TypedTurns /\ TypedTold /\ Kin /\ LiveTurnKeepsReceipt
      /\ ToldOf(t) /\ ToldOf(u) /\ c \in Commands
  BY TypeParts, CommandType DEF ToldInv, ApartInv, TurnsKeepApart
<1>1. Running(t) /\ Become(t, NoTurn) /\ standing' = standing
  BY <1>0, EndWrites
<1>2. PICK o, r :
         /\ o \in Outcomes /\ Update(c, r) /\ Tell(t, o)
         /\ Processing(c) => r.outcome = o /\ r.status # "processing"
  BY <1>0, EndWrites
<1>3. ~Running(t)' /\ told'[t] = told[t] \cup {o}
  BY <1>0, <1>1, <1>2 DEF Become, NoTurn, Running, TypedTurns, TypedTold, Tell
<1>4. CASE u = t /\ standing[t] # "beside"
  <2>1. told[t] = {} /\ standing'[t] # "new"
    BY <1>0, <1>1, <1>4 DEF ToldOf, Kin, NewIdle
  <2>2. ASSUME Alone(t)'
        PROVE  ~Processing(c)' /\ row'[c].outcome = o
    <3>1. Processing(c)
      BY <1>0, <1>1, <2>2 DEF LiveTurnKeepsReceipt, Alone
    <3>2. row'[c] = r
      BY <1>0, <1>2, <3>1 DEF Update, RowsOK
    <3> QED
      BY <1>2, <3>1, <3>2 DEF Processing
  <2>3. told'[t] = {o}
    BY <1>3, <2>1
  <2> QED
    BY <1>2, <1>3, <1>4, <2>1, <2>2, <2>3, FirstWordKeepsTold
<1>5. CASE u # t
  <2>1. turn'[u] = turn[u] /\ told'[u] = told[u]
    BY <1>0, <1>1, <1>2, <1>5 DEF Become, TypedTurns, TypedTold, Tell
  <2>2. Alone(u) => row'[CommandOf[u]] = row[CommandOf[u]]
    <3>1. Alone(u) => CommandOf[u] # c
      BY <1>0, <1>1, <1>5, OthersElsewhere
    <3> QED
      BY <1>2, <3>1 DEF Update
  <2> QED
    BY <1>0, <1>1, <2>1, <2>2, SilenceKeepsTold DEF Running, Processing
<1>6. CASE standing[u] = "beside"
  BY <1>1, <1>6 DEF ToldOf
<1> QED
  BY <1>4, <1>5, <1>6

LEMMA NextTold ==
    ASSUME LeaseCovers, ToldInv, [Next]_vars
    PROVE  ToldInv'
<1> USE DEF campaignVars, ghostVars
<1>0. /\ ApartInv /\ TypeInv /\ RowsOK /\ TypedTurns /\ TypedTold
      /\ LiveTurnKeepsReceipt /\ Kin /\ \A t \in Turns : ToldOf(t)
  BY TypeParts DEF ToldInv, ApartInv, TurnsKeepApart
<1>1. ApartInv' /\ RowsOK'
  BY <1>0, NextApart, TypeParts, PTL DEF ApartInv
<1> SUFFICES \A u \in Turns : ToldOf(u)'
  BY <1>1 DEF ToldInv
<1>2. ASSUME row' = row, told' = told, standing' = standing, \A u \in Turns : Running(u)' => Running(u)
      PROVE  \A u \in Turns : ToldOf(u)'
  BY <1>0, <1>2, SilenceKeepsTold DEF Processing
<1>3. ASSUME NEW c \in Commands, NEW q, Retry(c, q) \/ Poll(c)
      PROVE  \A u \in Turns : ToldOf(u)'
  <2>1. turn' = turn /\ standing' = standing /\ row[c] # NoReceipt
    BY <1>3 DEF Retry, Poll
  <2>2. PICK t \in Turns : t = row[c].turn /\ CommandOf[t] = c /\ standing[t] \in {"alone", "beside"}
    BY <1>0, <2>1 DEF Kin, HeldByOwn, RowsOK, ReceiptType
  <2>3. CASE Replay(c)
    <3>1. row' = row /\ ~Processing(c) /\ told' = [told EXCEPT ![t] = @ \cup {row[c].outcome}]
      BY <2>2, <2>3 DEF Replay, Tell, Processing
    <3>2. ASSUME NEW u \in Turns, u # t
          PROVE  ToldOf(u)'
      <4>1. told'[u] = told[u]
        BY <1>0, <3>1, <3>2 DEF TypedTold
      <4> QED
        BY <1>0, <2>1, <3>1, <4>1, SilenceKeepsTold DEF Running, Processing
    <3>3. CASE standing[t] = "beside"
      BY <2>1, <3>2, <3>3 DEF ToldOf
    <3>4. CASE Alone(t)
      <4>1. ~Running(t)
        BY <1>0, <2>2, <3>1, <3>4 DEF LiveTurnKeepsReceipt
      <4>2. told'[t] \subseteq {row[c].outcome} /\ row[c].outcome \in Outcomes
        BY <1>0, <2>1, <2>2, <3>1, <3>4
           DEF ToldOf, Alone, RowsOK, ClosedHaveOutcome, Settled, Processing, TypedTold
      <4>3. /\ ~Running(t)' /\ standing'[t] = "alone" /\ ~Processing(CommandOf[t])'
            /\ told'[t] \subseteq {row'[CommandOf[t]].outcome} /\ row'[CommandOf[t]].outcome \in Outcomes
        BY <2>1, <2>2, <3>1, <3>4, <4>1, <4>2 DEF Running, Processing, Alone
      <4>4. ToldOf(t)'
        BY <4>3 DEF ToldOf
      <4> QED
        BY <3>2, <4>4
    <3> QED
      BY <2>2, <3>3, <3>4 DEF Alone
  <2>4. CASE Recover(c)
    <3>1. /\ Processing(c) /\ row[c].lapsed /\ row' = Expired(row, {c})
          /\ told' = [told EXCEPT ![t] = @ \cup {"uncertain"}]
      BY <2>2, <2>4 DEF Recover, Tell
    <3>2. told'[t] = told[t] \cup {"uncertain"} /\ \A u \in Turns \ {t} : told'[u] = told[u]
      BY <1>0, <2>2, <3>1 DEF TypedTold
    <3>3. ASSUME NEW u \in Turns
          PROVE  ToldOf(u)'
      <4>1. \/ told'[u] = told[u]
            \/ /\ standing[u] \in {"alone", "beside"} /\ CommandOf[u] \in {c}
               /\ told'[u] = told[u] \cup {"uncertain"}
        BY <2>2, <3>2
      <4>2. turn'[u] = turn[u] /\ standing'[u] = standing[u] /\ {c} \in SUBSET Commands
        BY <2>1
      <4> QED
        BY <3>1, <4>1, <4>2, ExpiryKeepsTold
    <3> QED
      BY <3>3
  <2> QED
    BY <1>3, <2>3, <2>4 DEF Retry, Poll
<1>4. ASSUME NEW c \in Commands, NEW v \in Versions, Blocked(c, v)
      PROVE  \A u \in Turns : ToldOf(u)'
  <2>1. PICK cs \in SUBSET {d \in ActiveAt(v) : row[d].lapsed} : row' = Expired(row, cs)
    BY <1>4 DEF Blocked
  <2>2. cs \in SUBSET Commands /\ \A d \in cs : Processing(d) /\ row[d].lapsed
    BY DEF ActiveAt
  <2>3. turn' = turn /\ standing' = standing /\ told' = told
    BY <1>4 DEF Blocked
  <2> QED
    BY <2>1, <2>2, <2>3, ExpiryKeepsTold
<1>5. ASSUME NEW t \in Turns, StartTurn(t)
      PROVE  \A u \in Turns : ToldOf(u)'
  BY <1>5, BeginKeepsTold DEF StartTurn
<1>6. ASSUME NEW t \in Turns,
             ContextRead(t) \/ RenewLease(t) \/ DraftWithheld(t) \/ WriteDocket(t) \/ ToolReturns(t)
      PROVE  \A u \in Turns : ToldOf(u)'
  <2> DEFINE c == CommandOf[t]
  <2>1. Touch(c) /\ standing' = standing /\ told' = told /\ Running(t) /\ c \in Commands
    BY <1>6, CommandType
       DEF ContextRead, RenewLease, DraftWithheld, WriteDocket, ToolReturns, Renewing, Running
  <2>2. \A u \in Turns \ {t} : turn'[u] = turn[u]
    BY <1>0, <1>6 DEF ContextRead, RenewLease, DraftWithheld, WriteDocket, ToolReturns, Become, TypedTurns
  <2>3. \A d \in Commands : (Processing(d)' => Processing(d)) /\ row'[d].outcome = row[d].outcome
    <3>1. CASE Processing(c)
      <4>1. row[c] \in ReceiptType /\ row' = [row EXCEPT ![c] = Touched(row[c])]
        BY <1>0, <2>1, <3>1 DEF RowsOK, Processing, Touch, Update
      <4>2. Touched(row[c]).outcome = row[c].outcome
        BY <4>1, ReceiptFields
      <4> HIDE DEF c
      <4> QED
        BY <1>0, <2>1, <3>1, <4>1, <4>2 DEF Processing, RowsOK
    <3>2. CASE ~Processing(c)
      BY <2>1, <3>2 DEF Touch, Update, Processing
    <3> QED
      BY <3>1, <3>2
  <2> QED
    BY <1>0, <2>1, <2>2, <2>3, CommandType, SilenceKeepsTold DEF Running
<1>7. ASSUME NEW t \in Turns, TurnFails(t) \/ NarrationMissing(t) \/ Resolve(t)
      PROVE  \A u \in Turns : ToldOf(u)'
  BY <1>7, EndKeepsTold
<1>8. ASSUME NEW t \in Turns, Narrate(t) \/ Commit(t) \/ \E k \in Keys \cup {ReadOnly} : CallEngine(t, k)
      PROVE  \A u \in Turns : ToldOf(u)'
  <2>1. row' = row /\ standing' = standing /\ told' = told /\ Running(t)
    BY <1>8 DEF Narrate, Commit, CallEngine, Running
  <2>2. \A u \in Turns \ {t} : turn'[u] = turn[u]
    BY <1>0, <1>8 DEF Narrate, Commit, CallEngine, Become, TypedTurns
  <2> QED
    BY <1>2, <2>1, <2>2 DEF Running
<1>9. ASSUME NEW c \in Commands, Lapse(c)
      PROVE  \A u \in Turns : ToldOf(u)'
  <2>1. /\ Processing(c) /\ turn' = turn /\ standing' = standing /\ told' = told
        /\ row' = [row EXCEPT ![c] = [row[c] EXCEPT !.lapsed = TRUE]]
    BY <1>9 DEF Lapse, MayLapse
  <2>2. row[c] \in ReceiptType
    BY <1>0, <2>1 DEF RowsOK, Processing
  <2>3. [row[c] EXCEPT !.lapsed = TRUE].outcome = row[c].outcome
    BY <2>2 DEF ReceiptType
  <2>4. \A d \in Commands : (Processing(d)' => Processing(d)) /\ row'[d].outcome = row[d].outcome
    BY <1>0, <2>1, <2>3 DEF Processing, RowsOK
  <2> QED
    BY <1>0, <2>1, <2>4, CommandType, SilenceKeepsTold DEF Running
<1>10. ASSUME Crash
       PROVE  \A u \in Turns : ToldOf(u)'
  BY <1>2, <1>10 DEF Crash, Running, NoTurn
<1>11. ASSUME DeleteRouting
       PROVE  \A u \in Turns : ToldOf(u)'
  <2>1. turn' = turn /\ told' = told
    BY <1>11 DEF DeleteRouting
  <2>2. \A u \in Turns : /\ ~Alone(u)'
                         /\ standing'[u] = "beside" <=> standing[u] = "beside"
                         /\ standing'[u] = "new" <=> standing[u] = "new"
    BY <1>11 DEF DeleteRouting, Alone
  <2> QED
    BY <1>0, <2>1, <2>2 DEF ToldOf, Running
<1>12. ASSUME AdapterBump \/ Rebind \/ UNCHANGED vars \/ \E t \in Turns : EngineExecutes(t)
       PROVE  \A u \in Turns : ToldOf(u)'
  <2>1. row' = row /\ turn' = turn /\ standing' = standing /\ told' = told
    BY <1>12 DEF AdapterBump, Rebind, vars, EngineExecutes
  <2> QED
    BY <1>2, <2>1 DEF Running
<1>13. ASSUME NEW c \in Commands, Request(c) \/ Poll(c) \/ Lapse(c)
       PROVE  \A u \in Turns : ToldOf(u)'
  BY <1>3, <1>4, <1>9, <1>13 DEF Request
<1>14. ASSUME NEW t \in Turns, RunTurn(t)
       PROVE  \A u \in Turns : ToldOf(u)'
  BY <1>6, <1>7, <1>8, <1>14 DEF RunTurn
<1> QED
  BY <1>5, <1>10, <1>11, <1>12, <1>13, <1>14 DEF Next

\* One outcome for each call, and one call for each command ID.
LEMMA ToldIsOne ==
    ASSUME ToldInv
    PROVE  OneOutcomeTold
<1>1. ASSUME NEW t \in Turns, standing[t] # "beside"
      PROVE  Cardinality(told[t]) <= 1
  <2>1. PICK o \in Outcomes : told[t] \subseteq {o}
    BY <1>1 DEF ToldInv, ToldOf
  <2>2. told[t] = {} \/ told[t] = {o}
    BY <2>1
  <2>3. Cardinality({}) = 0 /\ Cardinality({o}) = 1
    BY FS_EmptySet, FS_Singleton
  <2> QED
    BY <2>2, <2>3
<1>2. ASSUME NEW t \in Turns, NEW u \in Turns, Alone(t), Alone(u), CommandOf[t] = CommandOf[u]
      PROVE  t = u
  BY <1>2 DEF ToldInv, ApartInv, Kin, AloneHolds, Holds
<1> QED
  BY <1>1, <1>2 DEF OneOutcomeTold

---------------------------------------------------------------------------
(* The transcript agrees with the receipts.                                *)

Player(t) == [turn |-> t, kind |-> "player"]

Narration(t) == [turn |-> t, kind |-> "narration"]

Unlogged(t) == \A i \in 1..Len(log) : log[i].turn # t

\* A call that has not come, or not to its commit.
Unsaid(t) == standing[t] = "new" \/ (Running(t) /\ turn[t].phase # "session")

\* A call, alone on its command ID, that is resolved or, its narration stored,
\* about to be.
Committed(t) == Alone(t) /\ (row[CommandOf[t]].status = "resolved" \/ turn[t].phase = "session")

\* The version its commit made.
Stamp(t) == IF turn[t].phase = "session" THEN turn[t].version ELSE row[CommandOf[t]].version

BasesBehind == \A c \in Commands : row[c] # NoReceipt => row[c].base <= version

UnsaidUnlogged == \A t \in Turns : Unsaid(t) => Unlogged(t)

NoMessageTwice == \A i, j \in 1..Len(log) : log[i] = log[j] => i = j

Stamped(t) ==
    /\ row[CommandOf[t]].base < Stamp(t) /\ Stamp(t) <= version
    /\ Logged(Narration(t)) \/ Len(log) = LogCap

CommittedAreStamped == \A t \in Turns : Committed(t) => Stamped(t)

StampsInOrder ==
    \A i, j \in 1..Len(log) : \A t, u \in Turns :
       Committed(t) /\ Committed(u) /\ log[i] = Narration(t) /\ log[j] = Narration(u) /\ i < j
          => Stamp(t) < Stamp(u)

LogFacts == BasesBehind /\ UnsaidUnlogged /\ NoMessageTwice /\ CommittedAreStamped /\ StampsInOrder

LogInv == ToldInv /\ LogFacts

\* A call alone on its ID whose receipt is closed does not run.
LEMMA ClosedIsDead ==
    ASSUME ApartInv, NEW t \in Turns, Alone(t), row[CommandOf[t]].status # "processing"
    PROVE  ~Running(t)
  BY DEF ApartInv, TurnsKeepApart, LiveTurnKeepsReceipt, Processing

LEMMA StampIsVersion ==
    ASSUME ApartInv, NEW t \in Turns, Committed(t)
    PROVE  Stamp(t) \in Nat /\ row[CommandOf[t]] \in ReceiptType /\ row[CommandOf[t]].base \in Nat
<1>1. RowsOK /\ TypedTurns
  BY TypeParts DEF ApartInv
<1>2. row[CommandOf[t]] \in ReceiptType
  BY <1>1, CommandType DEF ApartInv, Kin, AloneHolds, Holds, Committed, RowsOK
<1>3. Stamp(t) \in Nat
  BY <1>1, <1>2 DEF Stamp, TypedTurns, TurnType, ReceiptType
<1>4. row[CommandOf[t]].base \in Nat
  BY <1>2, TurnAssumption DEF ReceiptType
<1> QED
  BY <1>2, <1>3, <1>4

\* What a step that leaves the transcript alone may do to a turn.
Quiet(t) ==
    /\ Unsaid(t)' => Unsaid(t)
    /\ Committed(t)' => /\ Committed(t) /\ Stamp(t)' = Stamp(t)
                        /\ row'[CommandOf[t]].base = row[CommandOf[t]].base

LEMMA QuietKeepsLog ==
    ASSUME ApartInv, LogFacts, log' = log, BasesBehind', version' \in Nat, version' >= version,
           \A t \in Turns : Quiet(t)
    PROVE  LogFacts'
<1>1. version \in Nat
  BY DEF ApartInv, TypeInv, TypeOK
<1>2. UnsaidUnlogged' /\ NoMessageTwice'
  BY DEF LogFacts, UnsaidUnlogged, NoMessageTwice, Quiet, Unlogged
<1>3. CommittedAreStamped'
  <2> SUFFICES ASSUME NEW t \in Turns, Committed(t)' PROVE Stamped(t)'
    BY DEF CommittedAreStamped
  <2>1. Committed(t) /\ Stamp(t)' = Stamp(t) /\ row'[CommandOf[t]].base = row[CommandOf[t]].base
    BY DEF Quiet
  <2>2. Stamped(t) /\ Stamp(t) \in Nat
    BY <2>1, StampIsVersion DEF LogFacts, CommittedAreStamped
  <2>3. row'[CommandOf[t]].base < Stamp(t)' /\ Stamp(t)' <= version'
    BY <1>1, <2>1, <2>2 DEF Stamped
  <2>4. Logged(Narration(t))' \/ Len(log') = LogCap
    BY <2>2 DEF Stamped, Logged, Narration
  <2> QED
    BY <2>3, <2>4 DEF Stamped
<1>4. StampsInOrder'
  BY DEF LogFacts, StampsInOrder, Quiet, Narration
<1> QED
  BY <1>2, <1>3, <1>4 DEF LogFacts

LEMMA SameIsQuiet ==
    ASSUME NEW t \in Turns, turn'[t] = turn[t], standing'[t] = standing[t],
           Alone(t) => row'[CommandOf[t]] = row[CommandOf[t]]
    PROVE  Quiet(t)
  BY DEF Quiet, Unsaid, Committed, Stamp, Running, Alone

LEMMA ExpiryIsQuiet ==
    ASSUME ApartInv, NEW cs \in SUBSET Commands, \A c \in cs : Processing(c) /\ row[c].lapsed,
           NEW t \in Turns, turn'[t] = turn[t], standing'[t] = standing[t],
           Alone(t) => row'[CommandOf[t]] = Expired(row, cs)[CommandOf[t]]
    PROVE  Quiet(t)
<1> DEFINE c == CommandOf[t]
<1>0. RowsOK /\ LiveTurnKeepsReceipt /\ c \in Commands
  BY TypeParts, CommandType DEF ApartInv, TurnsKeepApart
<1>1. CASE ~Alone(t) \/ c \notin cs
  BY <1>0, <1>1, SameIsQuiet DEF Expired
<1>2. CASE Alone(t) /\ c \in cs
  <2>1. ~Running(t) /\ row'[c].status = "failed"
    <3>1. row'[c] = Failed(row[c], "uncertain")
      BY <1>0, <1>2 DEF Expired
    <3>2. Failed(row[c], "uncertain").status = "failed"
      BY <1>0, <1>2, ExpiredReceipt
    <3> QED
      BY <1>0, <1>2, <3>1, <3>2 DEF LiveTurnKeepsReceipt
  <2>2. ~Committed(t)' /\ ~Unsaid(t)'
    BY <1>2, <2>1 DEF Committed, Unsaid, Running, Alone
  <2> QED
    BY <2>2 DEF Quiet
<1> QED
  BY <1>1, <1>2

\* Where receipts keep their bases, those stay behind the version.
LEMMA BasesKept ==
    ASSUME RowsOK, BasesBehind, version \in Nat, version' \in Nat, version' >= version,
           \A c \in Commands : row'[c] # NoReceipt => row[c] # NoReceipt /\ row'[c].base = row[c].base
    PROVE  BasesBehind'
<1>1. \A c \in Commands : row[c] # NoReceipt => row[c].base \in Nat
  BY TurnAssumption DEF RowsOK, ReceiptType
<1> QED
  BY <1>1 DEF BasesBehind

LEMMA ExpiryKeepsBases ==
    ASSUME RowsOK, NEW cs \in SUBSET Commands, \A c \in cs : Processing(c),
           NEW d \in Commands
    PROVE  Expired(row, cs)[d] # NoReceipt =>
              row[d] # NoReceipt /\ Expired(row, cs)[d].base = row[d].base
<1>1. CASE d \in cs
  <2>1. row[d] \in ReceiptType /\ row[d] # NoReceipt /\ Expired(row, cs)[d] = Failed(row[d], "uncertain")
    BY <1>1 DEF RowsOK, Processing, Expired
  <2> QED
    BY <2>1, ReceiptFields
<1>2. CASE d \notin cs
  BY <1>2 DEF Expired
<1> QED
  BY <1>1, <1>2

\* The transcript after a commit: two new messages, and the oldest may go.
LEMMA LogGrows ==
    ASSUME NEW t \in Turns, log \in Seq(MessageType), Len(log) <= LogCap,
           log' = LastOf(log \o Messages(t))
    PROVE  \E off \in Nat :
              /\ Len(log') \in Nat \ {0} /\ Len(log') + off = Len(log) + 2
              /\ off > 0 => Len(log') = LogCap
              /\ Len(log) = LogCap => Len(log') = LogCap
              /\ \A i \in 1..Len(log') :
                    /\ i + off <= Len(log) => log'[i] = log[i + off]
                    /\ i + off = Len(log) + 1 => log'[i] = Player(t)
                    /\ i + off = Len(log) + 2 => log'[i] = Narration(t)
<1>0. LogCap \in Nat \ {0} /\ Len(log) \in Nat
  BY TurnAssumption
<1>1. /\ Messages(t) \in Seq(MessageType) /\ Len(Messages(t)) = 2
      /\ Messages(t)[1] = Player(t) /\ Messages(t)[2] = Narration(t)
  BY DEF Messages, MessageType, Player, Narration
<1> DEFINE s == log \o Messages(t)
<1>2. /\ s \in Seq(MessageType) /\ Len(s) = Len(log) + 2
      /\ \A i \in 1..Len(log) + 2 : s[i] = IF i <= Len(log) THEN log[i] ELSE Messages(t)[i - Len(log)]
  <2>1. /\ s \in Seq(MessageType) /\ Len(s) = Len(log) + Len(Messages(t))
        /\ \A i \in 1..Len(log) + Len(Messages(t)) :
              s[i] = IF i <= Len(log) THEN log[i] ELSE Messages(t)[i - Len(log)]
    BY <1>1, ConcatProperties
  <2> HIDE DEF s
  <2> QED
    BY <1>1, <2>1
<1>3. /\ \A i \in 1..Len(log) : s[i] = log[i]
      /\ s[Len(log) + 1] = Player(t) /\ s[Len(log) + 2] = Narration(t)
  BY <1>0, <1>1, <1>2
<1> HIDE DEF s
<1> DEFINE off == IF Len(s) > LogCap THEN Len(s) - LogCap ELSE 0
<1>4. /\ Len(LastOf(s)) = IF Len(s) > LogCap THEN LogCap ELSE Len(s)
      /\ \A i \in 1..Len(LastOf(s)) : LastOf(s)[i] = s[i + off]
  BY <1>2, LastOfProperties
<1>5. /\ off \in Nat /\ Len(LastOf(s)) \in Nat \ {0} /\ Len(LastOf(s)) + off = Len(log) + 2
      /\ (off > 0 => Len(LastOf(s)) = LogCap)
      /\ (Len(log) = LogCap => Len(LastOf(s)) = LogCap)
  BY <1>0, <1>2, <1>4
<1>6. LastOf(s) = log'
  BY DEF s
<1> HIDE DEF off
<1>7. \A i \in 1..Len(log') :
         /\ i + off <= Len(log) => log'[i] = log[i + off]
         /\ i + off = Len(log) + 1 => log'[i] = Player(t)
         /\ i + off = Len(log) + 2 => log'[i] = Narration(t)
  <2> SUFFICES ASSUME NEW i \in 1..Len(log')
               PROVE  /\ i + off <= Len(log) => log'[i] = log[i + off]
                      /\ i + off = Len(log) + 1 => log'[i] = Player(t)
                      /\ i + off = Len(log) + 2 => log'[i] = Narration(t)
    OBVIOUS
  <2>1. log'[i] = s[i + off]
    BY <1>4, <1>6
  <2>2. i \in Nat \ {0} /\ i + off \in Nat \ {0}
    BY <1>5, <1>6
  <2>3. i + off <= Len(log) => s[i + off] = log[i + off]
    BY <1>0, <1>3, <2>2
  <2> QED
    BY <1>3, <2>1, <2>3
<1> QED
  BY <1>5, <1>6, <1>7

\* A commit puts the newest stamp at the end. (A turn from before a deletion,
\* or beside another on its ID, writes there too, and has no stamp.)
LEMMA CommitKeepsLog ==
    ASSUME ApartInv, LogFacts, NEW t \in Turns, Commit(t), routed
    PROVE  LogFacts'
<1>0. /\ RowsOK /\ TypedTurns /\ log \in Seq(MessageType) /\ Len(log) <= LogCap
      /\ version \in Nat /\ LogCap \in Nat \ {0} /\ Len(log) \in Nat
      /\ LiveTurnKeepsReceipt /\ NewIdle
  BY TypeParts, TurnAssumption DEF ApartInv, TurnsKeepApart, TypedRest, Kin
<1>1. /\ turn[t].phase = "choices" /\ row' = row /\ version' = version + 1 /\ standing' = standing
      /\ log' = LastOf(log \o Messages(t))
      /\ turn'[t].phase = "session" /\ turn'[t].version = version'
      /\ \A u \in Turns \ {t} : turn'[u] = turn[u]
  BY <1>0 DEF Commit, Become, TypedTurns, TurnType, ghostVars
<1>2. Running(t) /\ Running(t)' /\ standing[t] # "new"
  BY <1>0, <1>1 DEF Running, NewIdle
<1>3. Unlogged(t)
  BY <1>1, <1>2 DEF LogFacts, UnsaidUnlogged, Unsaid
<1>4. PICK off \in Nat :
         /\ Len(log') \in Nat \ {0} /\ Len(log') + off = Len(log) + 2
         /\ off > 0 => Len(log') = LogCap
         /\ Len(log) = LogCap => Len(log') = LogCap
         /\ \A i \in 1..Len(log') :
               /\ i + off <= Len(log) => log'[i] = log[i + off]
               /\ i + off = Len(log) + 1 => log'[i] = Player(t)
               /\ i + off = Len(log) + 2 => log'[i] = Narration(t)
  BY <1>0, <1>1, LogGrows
<1>5. \A i \in 1..Len(log') :
         \/ i + off \in 1..Len(log) /\ log'[i] = log[i + off] /\ log'[i].turn # t
         \/ i + off = Len(log) + 1 /\ log'[i] = Player(t)
         \/ i + off = Len(log) + 2 /\ i = Len(log') /\ log'[i] = Narration(t)
  <2> SUFFICES ASSUME NEW i \in 1..Len(log')
               PROVE  \/ i + off \in 1..Len(log) /\ log'[i] = log[i + off] /\ log'[i].turn # t
                      \/ i + off = Len(log) + 1 /\ log'[i] = Player(t)
                      \/ i + off = Len(log) + 2 /\ i = Len(log') /\ log'[i] = Narration(t)
    OBVIOUS
  <2>1. /\ i \in Nat /\ i >= 1 /\ i <= Len(log') /\ off \in Nat /\ Len(log) \in Nat
        /\ Len(log') \in Nat /\ Len(log') + off = Len(log) + 2
    BY <1>0, <1>4
  <2>2. \/ i + off \in 1..Len(log)
        \/ i + off = Len(log) + 1
        \/ i + off = Len(log) + 2 /\ i = Len(log')
    BY ONLY <2>1
  <2>3. CASE i + off \in 1..Len(log)
    <3>1. log'[i] = log[i + off]
      BY <1>0, <1>4, <2>3
    <3>2. log[i + off].turn # t
      BY <1>3, <2>3 DEF Unlogged
    <3> QED
      BY ONLY <2>3, <3>1, <3>2
  <2>4. CASE i + off = Len(log) + 1
    BY <1>4, <2>4
  <2>5. CASE i + off = Len(log) + 2 /\ i = Len(log')
    BY <1>4, <2>5
  <2> QED
    BY ONLY <2>2, <2>3, <2>4, <2>5
<1>6. \A u \in Turns \ {t} :
         /\ Unsaid(u)' => Unsaid(u)
         /\ Committed(u)' => Committed(u) /\ Stamp(u)' = Stamp(u)
  BY <1>1 DEF Unsaid, Committed, Stamp, Running, Alone
<1>7. BasesBehind'
  BY <1>0, <1>1, BasesKept DEF LogFacts
<1>8. UnsaidUnlogged'
  <2> SUFFICES ASSUME NEW u \in Turns, Unsaid(u)', NEW i \in 1..Len(log') PROVE log'[i].turn # u
    BY DEF UnsaidUnlogged, Unlogged
  <2>1. u # t
    BY <1>1, <1>2 DEF Unsaid
  <2>2. Unlogged(u)
    BY <1>6, <2>1 DEF LogFacts, UnsaidUnlogged
  <2> QED
    BY <1>5, <2>1, <2>2 DEF Unlogged, Player, Narration
<1>9. NoMessageTwice'
  <2> SUFFICES ASSUME NEW i \in 1..Len(log'), NEW j \in 1..Len(log'), log'[i] = log'[j] PROVE i = j
    BY DEF NoMessageTwice
  <2>1. Player(t).turn = t /\ Narration(t).turn = t /\ Player(t) # Narration(t)
    BY DEF Player, Narration
  <2>2. CASE i + off \in 1..Len(log)
    <3>1. j + off \in 1..Len(log) /\ log[i + off] = log[j + off]
      BY <1>0, <1>5, <2>1, <2>2
    <3>2. i + off = j + off
      BY <2>2, <3>1 DEF LogFacts, NoMessageTwice
    <3> QED
      BY <3>2
  <2>3. CASE ~(i + off \in 1..Len(log))
    <3>1. ~(j + off \in 1..Len(log))
      BY <1>0, <1>5, <2>1, <2>3
    <3> QED
      BY <1>0, <1>5, <2>1, <2>3, <3>1
  <2> QED
    BY <2>2, <2>3
<1>10. CommittedAreStamped'
  <2> SUFFICES ASSUME NEW u \in Turns, Committed(u)' PROVE Stamped(u)'
    BY DEF CommittedAreStamped
  <2>1. CASE u = t
    <3> DEFINE c == CommandOf[t]
    <3>1. Stamp(t)' = version + 1 /\ version' = version + 1 /\ row'[c] = row[c]
      BY <1>1 DEF Stamp
    <3>2. row[c] \in ReceiptType /\ row[c].base <= version
      <4>1. Alone(t) /\ c \in Commands
        BY <1>1, <2>1, CommandType DEF Committed, Alone
      <4>2. row[c] \in ReceiptType /\ row[c] # NoReceipt
        BY <1>0, <1>2, <4>1 DEF LiveTurnKeepsReceipt, Processing, RowsOK
      <4> QED
        BY <4>1, <4>2 DEF LogFacts, BasesBehind
    <3>3. Logged(Narration(t))'
      <4>1. Len(log') \in 1..Len(log') /\ log'[Len(log')] = Narration(t)
        BY <1>4
      <4> QED
        BY <4>1 DEF Logged, Narration
    <3>4. row[c].base \in Nat
      BY <3>2, TurnAssumption DEF ReceiptType
    <3>5. row'[c].base < Stamp(t)' /\ Stamp(t)' <= version'
      BY <1>0, <3>1, <3>2, <3>4
    <3> QED
      BY <2>1, <3>3, <3>5 DEF Stamped
  <2>2. CASE u # t
    <3>1. Committed(u) /\ Stamp(u)' = Stamp(u) /\ row' = row
      BY <1>1, <1>6, <2>2
    <3>2. Stamped(u) /\ Stamp(u) \in Nat
      BY <3>1, StampIsVersion DEF LogFacts, CommittedAreStamped
    <3>3. row'[CommandOf[u]].base < Stamp(u)' /\ Stamp(u)' <= version'
      BY <1>0, <1>1, <3>1, <3>2 DEF Stamped
    <3>4. ASSUME NEW i \in 1..Len(log), log[i] = Narration(u)
          PROVE  Logged(Narration(u))' \/ Len(log') = LogCap
      <4>1. CASE i <= off
        BY <1>4, <4>1
      <4>2. CASE i > off
        <5>1. i - off \in 1..Len(log') /\ (i - off) + off = i
          BY <1>0, <1>4, <4>2
        <5>2. log'[i - off] = Narration(u)
          BY <1>0, <1>4, <3>4, <5>1
        <5> QED
          BY <5>1, <5>2 DEF Logged, Narration
      <4> QED
        BY <1>4, <4>1, <4>2
    <3>5. Logged(Narration(u))' \/ Len(log') = LogCap
      BY <1>4, <3>2, <3>4 DEF Stamped, Logged
    <3> QED
      BY <3>3, <3>5 DEF Stamped
  <2> QED
    BY <2>1, <2>2
<1>11. StampsInOrder'
  <2> SUFFICES ASSUME NEW i \in 1..Len(log'), NEW j \in 1..Len(log'), NEW v \in Turns, NEW u \in Turns,
                      Committed(v)', Committed(u)', log'[i] = Narration(v), log'[j] = Narration(u), i < j
               PROVE  Stamp(v)' < Stamp(u)'
    BY DEF StampsInOrder, Narration
  <2>1. /\ \A w : Narration(w).turn = w /\ Narration(w).kind = "narration"
        /\ Player(t).kind = "player"
    BY DEF Narration, Player
  <2>2. i + off \in 1..Len(log) /\ log'[i] = log[i + off] /\ v # t
    BY <1>0, <1>5, <2>1
  <2>3. Committed(v) /\ Stamp(v)' = Stamp(v) /\ Stamp(v) \in Nat /\ Stamp(v) <= version
    BY <1>6, <2>2, StampIsVersion DEF LogFacts, CommittedAreStamped, Stamped
  <2>4. CASE u = t
    <3>1. Stamp(u)' = version + 1
      BY <1>1, <2>4 DEF Stamp
    <3> QED
      BY <1>0, <2>3, <3>1
  <2>5. CASE u # t
    <3>1. j + off \in 1..Len(log) /\ log'[j] = log[j + off] /\ i + off < j + off
      BY <1>0, <1>5, <2>1, <2>5
    <3>2. Committed(u) /\ Stamp(u)' = Stamp(u)
      BY <1>6, <2>5
    <3>3. log[i + off] = Narration(v) /\ log[j + off] = Narration(u) /\ StampsInOrder
      BY <2>2, <3>1 DEF LogFacts
    <3>4. Stamp(v) < Stamp(u)
      BY <2>2, <2>3, <3>1, <3>2, <3>3 DEF StampsInOrder
    <3> QED
      BY <2>3, <3>2, <3>4
  <2> QED
    BY <2>4, <2>5
<1> QED
  BY <1>7, <1>8, <1>9, <1>10, <1>11 DEF LogFacts

LEMMA InitLog == Init => LogInv
<1> SUFFICES ASSUME Init PROVE LogInv
  OBVIOUS
<1>1. Len(log) = 0 /\ \A c \in Commands : row[c] = NoReceipt
  BY DEF Init
<1>2. \A t \in Turns : ~Committed(t)
  BY DEF Init, Committed, Alone
<1> QED
  BY <1>1, <1>2, InitTold
     DEF LogInv, LogFacts, BasesBehind, UnsaidUnlogged, Unlogged, NoMessageTwice,
         CommittedAreStamped, StampsInOrder

\* beginReferenceCommand() leaves the turns that are under way as they are.
LEMMA BeginKeepsLog ==
    ASSUME ApartInv, LogFacts, NEW t \in Turns, NEW v \in Versions, NEW q \in Texts,
           BeginAdmitted(t, v, q) \/ BeginRefused(t, v, q)
    PROVE  LogFacts'
<1> DEFINE c == CommandOf[t]
<1> USE CommandType
<1>0. /\ RowsOK /\ TypedTurns /\ Kin /\ BasesBehind /\ version \in Nat
      /\ standing \in [Turns -> Standings]
  BY TypeParts DEF ApartInv, TypedRest, LogFacts
<1>1. /\ row[c] = NoReceipt /\ standing[t] = "new" /\ ~Running(t) /\ v = version
      /\ \A d \in ActiveAt(v) : row[d].lapsed
      /\ standing' = [standing EXCEPT ![t] = IF Fellows(t) = {} THEN "alone" ELSE "beside"]
      /\ version' = version /\ log' = log
  BY <1>0 DEF BeginAdmitted, BeginRefused, Begin, MayStart, Kin, NewIdle, campaignVars
<1>2. PICK r \in ReceiptType : row' = Inserted(t, v, r) /\ r.base = v /\ r.status # "resolved"
  <2>1. Received(t, v, q) \in ReceiptType /\ "not_committed" \in Outcomes
    BY ReceivedType DEF Outcomes
  <2>2. Received(t, v, q).base = v /\ Received(t, v, q).status = "processing"
    BY DEF Received
  <2>3. Failed(Received(t, v, q), "not_committed") \in ReceiptType
    BY <2>1, ReceiptUpdates
  <2>4. /\ Failed(Received(t, v, q), "not_committed").base = v
        /\ Failed(Received(t, v, q), "not_committed").status = "failed"
    BY <2>1, <2>2, ReceiptFields
  <2> QED
    BY <2>1, <2>2, <2>3, <2>4 DEF BeginAdmitted, BeginRefused
<1>3. row'[c] = r /\ \A d \in Commands \ {c} : row'[d] = Expired(row, ActiveAt(v))[d]
  BY <1>2 DEF Inserted, Expired
<1>4. ActiveAt(v) \in SUBSET Commands /\ \A d \in ActiveAt(v) : Processing(d) /\ row[d].lapsed
  BY <1>1 DEF ActiveAt
<1>5. BasesBehind'
  <2> SUFFICES ASSUME NEW d \in Commands, row'[d] # NoReceipt PROVE row'[d].base <= version
    BY <1>1 DEF BasesBehind
  <2>1. CASE d = c
    BY <1>0, <1>1, <1>2, <1>3, <2>1
  <2>2. CASE d # c
    <3>1. row[d] # NoReceipt /\ row'[d].base = row[d].base
      BY <1>0, <1>3, <1>4, <2>2, ExpiryKeepsBases
    <3> QED
      BY <1>0, <3>1 DEF BasesBehind
  <2> QED
    BY <2>1, <2>2
<1>6. Quiet(t)
  <2>1. turn'[t].phase # "session"
    BY <1>0, <1>1 DEF BeginAdmitted, BeginRefused, NoTurn, Running, TypedTurns
  <2> QED
    BY <1>1, <1>2, <1>3, <2>1 DEF Quiet, Unsaid, Committed
<1>7. ASSUME NEW u \in Turns, u # t
      PROVE  Quiet(u)
  <2>1. turn'[u] = turn[u] /\ standing'[u] = standing[u]
    BY <1>0, <1>1, <1>7 DEF BeginAdmitted, BeginRefused, TypedTurns
  <2>2. Alone(u) => CommandOf[u] # c
    BY <1>0, <1>1 DEF Kin, AloneHolds, Holds
  <2>3. Alone(u) => row'[CommandOf[u]] = Expired(row, ActiveAt(v))[CommandOf[u]]
    BY <1>3, <2>2
  <2> QED
    BY <1>4, <2>1, <2>3, ExpiryIsQuiet
<1> QED
  BY <1>0, <1>1, <1>5, <1>6, <1>7, QuietKeepsLog

\* The end of a turn leaves the transcript, and stamps its receipt with the
\* version of its commit.
LEMMA EndKeepsLog ==
    ASSUME ApartInv, LogFacts, NEW t \in Turns, TurnFails(t) \/ NarrationMissing(t) \/ Resolve(t)
    PROVE  LogFacts'
<1> DEFINE c == CommandOf[t]
<1>0. /\ TypeInv /\ RowsOK /\ TypedTurns /\ Kin /\ LiveTurnKeepsReceipt /\ BasesBehind
      /\ version \in Nat /\ c \in Commands
  BY TypeParts, CommandType DEF ApartInv, TypedRest, LogFacts, TurnsKeepApart
<1>1. Running(t) /\ Become(t, NoTurn) /\ standing' = standing /\ version' = version /\ log' = log
  BY <1>0, EndWrites
<1>2. PICK o, r :
         /\ o \in Outcomes /\ Update(c, r)
         /\ Processing(c) =>
               /\ r # NoReceipt /\ r.base = row[c].base
               /\ o = "resolved" => r.version = turn[t].version /\ turn[t].phase = "session"
               /\ o = "resolved" <=> r.status = "resolved"
  BY <1>0, EndWrites
<1>3. /\ turn'[t].phase = "off" /\ ~Running(t)'
      /\ \A u \in Turns \ {t} : turn'[u] = turn[u]
  BY <1>0, <1>1 DEF Become, NoTurn, Running, TypedTurns
<1>4. BasesBehind'
  <2>1. \A d \in Commands : row'[d] # NoReceipt => row[d] # NoReceipt /\ row'[d].base = row[d].base
    <3>1. CASE Processing(c)
      <4>1. row' = [row EXCEPT ![c] = r] /\ row[c] # NoReceipt
        BY <1>2, <3>1 DEF Update, Processing
      <4> HIDE DEF c
      <4> QED
        BY <1>0, <1>2, <3>1, <4>1 DEF RowsOK
    <3>2. CASE ~Processing(c)
      BY <1>2, <3>2 DEF Update
    <3> QED
      BY <3>1, <3>2
  <2> QED
    BY <1>0, <1>1, <2>1, BasesKept
<1>5. Quiet(t)
  <2>1. ~Unsaid(t)'
    BY <1>0, <1>1, <1>3 DEF Unsaid, Kin, NewIdle
  <2>2. ASSUME Committed(t)'
        PROVE  Committed(t) /\ Stamp(t)' = Stamp(t) /\ row'[c].base = row[c].base
    <3>1. Alone(t) /\ row'[c].status = "resolved"
      BY <1>1, <1>3, <2>2 DEF Committed, Alone
    <3>2. Processing(c)
      BY <1>0, <1>1, <3>1 DEF LiveTurnKeepsReceipt
    <3>3. row'[c] = r
      BY <1>0, <1>2, <3>2 DEF Update, RowsOK
    <3>4. turn[t].phase = "session" /\ r.version = turn[t].version
      BY <1>2, <3>1, <3>2, <3>3
    <3> QED
      BY <1>2, <1>3, <3>1, <3>2, <3>3, <3>4 DEF Committed, Stamp
  <2> QED
    BY <2>1, <2>2 DEF Quiet
<1>6. ASSUME NEW u \in Turns, u # t
      PROVE  Quiet(u)
  <2>1. Alone(u) => row'[CommandOf[u]] = row[CommandOf[u]]
    <3>1. Alone(u) => CommandOf[u] # c
      BY <1>0, <1>1, <1>6, OthersElsewhere
    <3> QED
      BY <1>2, <3>1 DEF Update
  <2> QED
    BY <1>1, <1>3, <1>6, <2>1, SameIsQuiet
<1> QED
  BY <1>0, <1>1, <1>4, <1>5, <1>6, QuietKeepsLog

LEMMA TouchKeepsLog ==
    ASSUME ApartInv, LogFacts, NEW t \in Turns,
           ContextRead(t) \/ RenewLease(t) \/ DraftWithheld(t) \/ WriteDocket(t) \/ ToolReturns(t)
    PROVE  LogFacts'
<1> DEFINE c == CommandOf[t]
<1>0. /\ RowsOK /\ TypedTurns /\ Kin /\ LiveTurnKeepsReceipt /\ BasesBehind
      /\ version \in Nat /\ c \in Commands
  BY TypeParts, CommandType DEF ApartInv, TypedRest, LogFacts, TurnsKeepApart
<1>1. /\ Touch(c) /\ standing' = standing /\ version' = version /\ log' = log
      /\ Running(t) /\ turn[t].phase # "session" /\ \A u \in Turns \ {t} : turn'[u] = turn[u]
  BY <1>0 DEF ContextRead, RenewLease, DraftWithheld, WriteDocket, ToolReturns, Renewing, Running,
              Become, TypedTurns, campaignVars, ghostVars
<1>2. turn'[t].phase # "session"
  <2>1. turn[t] \in TurnType
    BY <1>0 DEF TypedTurns
  <2>2. CASE ContextRead(t) \/ RenewLease(t) \/ DraftWithheld(t)
    BY <1>0, <1>1, <2>1, <2>2
       DEF ContextRead, RenewLease, DraftWithheld, Become, TypedTurns, TurnType
  <2>3. CASE WriteDocket(t)
    BY <1>0, <2>1, <2>3 DEF WriteDocket, Become, TypedTurns, TurnType, Accepted
  <2>4. CASE ToolReturns(t)
    BY <1>0, <2>1, <2>4 DEF ToolReturns, Become, TypedTurns, TurnType, Accepted, Refused
  <2> QED
    BY <2>2, <2>3, <2>4
<1>3. Processing(c) =>
         /\ row' = [row EXCEPT ![c] = Touched(row[c])] /\ row[c] # NoReceipt
         /\ Touched(row[c]).base = row[c].base /\ Touched(row[c]).status = "processing"
  <2> SUFFICES ASSUME Processing(c)
               PROVE  /\ row' = [row EXCEPT ![c] = Touched(row[c])] /\ row[c] # NoReceipt
                      /\ Touched(row[c]).base = row[c].base /\ Touched(row[c]).status = "processing"
    OBVIOUS
  <2>1. row[c] \in ReceiptType /\ row[c] # NoReceipt /\ row[c].status = "processing"
    BY <1>0 DEF RowsOK, Processing
  <2> QED
    BY <1>1, <2>1, ReceiptFields DEF Touch, Update
<1>4. ~Processing(c) => row' = row
  BY <1>1 DEF Touch, Update
<1>5. BasesBehind'
  <2>1. \A d \in Commands : row'[d] # NoReceipt => row[d] # NoReceipt /\ row'[d].base = row[d].base
    <3> HIDE DEF c
    <3> QED
      BY <1>0, <1>3, <1>4 DEF RowsOK
  <2> QED
    BY <1>0, <1>1, <2>1, BasesKept
<1>6. Quiet(t)
  <2>1. Unsaid(t)
    BY <1>1 DEF Unsaid
  <2>2. ~Committed(t)'
    <3> SUFFICES ASSUME Alone(t)' PROVE row'[c].status # "resolved"
      BY <1>2 DEF Committed
    <3>1. Processing(c)
      BY <1>0, <1>1 DEF LiveTurnKeepsReceipt, Alone
    <3> QED
      BY <1>0, <1>3, <3>1 DEF RowsOK
  <2> QED
    BY <2>1, <2>2 DEF Quiet
<1>7. ASSUME NEW u \in Turns, u # t
      PROVE  Quiet(u)
  <2>1. Alone(u) => row'[CommandOf[u]] = row[CommandOf[u]]
    <3>1. Alone(u) => CommandOf[u] # c
      BY <1>0, <1>1, <1>7, OthersElsewhere
    <3> HIDE DEF c
    <3> QED
      BY <1>0, <1>3, <1>4, <3>1, CommandType DEF RowsOK
  <2> QED
    BY <1>1, <1>7, <2>1, SameIsQuiet
<1> QED
  BY <1>0, <1>1, <1>5, <1>6, <1>7, QuietKeepsLog

LEMMA NextLog ==
    ASSUME LeaseCovers, LogInv, [Next]_vars
    PROVE  LogInv'
<1> USE DEF campaignVars, ghostVars
<1>0. /\ ToldInv /\ ApartInv /\ TypeInv /\ RowsOK /\ TypedTurns /\ version \in Nat
      /\ LiveTurnKeepsReceipt /\ Kin /\ LogFacts /\ BasesBehind
  BY TypeParts DEF LogInv, ToldInv, ApartInv, TurnsKeepApart, TypedRest, LogFacts
<1>1. ToldInv'
  BY <1>0, NextTold
<1> SUFFICES LogFacts'
  BY <1>1 DEF LogInv
<1>2. ASSUME log' = log, version' = version, BasesBehind', \A u \in Turns : Quiet(u)
      PROVE  LogFacts'
  <2>1. version' \in Nat /\ version' >= version
    BY <1>0, <1>2
  <2> QED
    BY <1>0, <1>2, <2>1, QuietKeepsLog
<1>3. ASSUME row' = row, version' = version
      PROVE  BasesBehind'
  BY <1>0, <1>3 DEF BasesBehind
<1>4. ASSUME NEW cs \in SUBSET Commands, \A c \in cs : Processing(c) /\ row[c].lapsed,
             row' = Expired(row, cs), turn' = turn, standing' = standing, version' = version, log' = log
      PROVE  LogFacts'
  <2>1. \A u \in Turns : Quiet(u)
    BY <1>0, <1>4, ExpiryIsQuiet
  <2>2. \A d \in Commands : row'[d] # NoReceipt => row[d] # NoReceipt /\ row'[d].base = row[d].base
    BY <1>0, <1>4, ExpiryKeepsBases
  <2>3. BasesBehind'
    BY <1>0, <1>4, <2>2, BasesKept
  <2> QED
    BY <1>2, <1>4, <2>1, <2>3
<1>5. ASSUME NEW c \in Commands, NEW q, Retry(c, q) \/ Poll(c)
      PROVE  LogFacts'
  <2>1. turn' = turn /\ standing' = standing /\ version' = version /\ log' = log
    BY <1>5 DEF Retry, Poll
  <2>2. CASE Replay(c)
    BY <1>2, <1>3, <2>1, <2>2, SameIsQuiet DEF Replay
  <2>3. CASE Recover(c)
    BY <1>4, <2>1, <2>3 DEF Recover
  <2> QED
    BY <1>5, <2>2, <2>3 DEF Retry, Poll
<1>6. ASSUME NEW c \in Commands, NEW v \in Versions, Blocked(c, v)
      PROVE  LogFacts'
  <2>1. PICK cs \in SUBSET {d \in ActiveAt(v) : row[d].lapsed} : row' = Expired(row, cs)
    BY <1>6 DEF Blocked
  <2>2. cs \in SUBSET Commands /\ \A d \in cs : Processing(d) /\ row[d].lapsed
    BY DEF ActiveAt
  <2>3. turn' = turn /\ standing' = standing /\ version' = version /\ log' = log
    BY <1>6 DEF Blocked
  <2> QED
    BY <1>4, <2>1, <2>2, <2>3
<1>7. ASSUME NEW t \in Turns, StartTurn(t)
      PROVE  LogFacts'
  BY <1>0, <1>7, BeginKeepsLog DEF StartTurn
<1>8. ASSUME NEW t \in Turns, Narrate(t) \/ \E k \in Keys \cup {ReadOnly} : CallEngine(t, k)
      PROVE  LogFacts'
  <2>1. /\ row' = row /\ standing' = standing /\ version' = version /\ log' = log
        /\ turn[t].phase = "completion" /\ turn'[t].phase # "session"
        /\ \A u \in Turns \ {t} : turn'[u] = turn[u]
    BY <1>0, <1>8 DEF Narrate, CallEngine, Become, TypedTurns, TurnType
  <2>2. Quiet(t)
    BY <2>1 DEF Quiet, Unsaid, Committed, Running, Stamp, Alone
  <2> QED
    BY <1>2, <1>3, <2>1, <2>2, SameIsQuiet
<1>9. ASSUME NEW t \in Turns, Commit(t)
      PROVE  LogFacts'
  <2>1. CASE routed
    BY <1>0, <1>9, <2>1, CommitKeepsLog
  <2>2. CASE ~routed
    <3>1. /\ row' = row /\ standing' = standing /\ version' = version /\ log' = log
          /\ turn'[t].phase = "session" /\ Running(t) /\ \A u \in Turns \ {t} : turn'[u] = turn[u]
      BY <1>0, <1>9, <2>2 DEF Commit, Become, TypedTurns, TurnType, Running
    <3>2. ~Alone(t) /\ standing[t] # "new"
      BY <1>0, <2>2, <3>1, CommandType DEF Kin, GoneTogether, AloneHolds, Holds, NewIdle
    <3>3. Quiet(t)
      BY <3>1, <3>2 DEF Quiet, Unsaid, Committed, Alone
    <3> QED
      BY <1>2, <1>3, <3>1, <3>3, SameIsQuiet
  <2> QED
    BY <2>1, <2>2
<1>10. ASSUME NEW c \in Commands, Lapse(c)
       PROVE  LogFacts'
  <2>1. /\ Processing(c) /\ turn' = turn /\ standing' = standing /\ version' = version /\ log' = log
        /\ row' = [row EXCEPT ![c] = [row[c] EXCEPT !.lapsed = TRUE]]
    BY <1>10 DEF Lapse, MayLapse
  <2>2. row[c] \in ReceiptType /\ row[c] # NoReceipt
    BY <1>0, <2>1 DEF RowsOK, Processing
  <2>3. /\ row'[c].base = row[c].base /\ row'[c].status = row[c].status /\ row'[c].version = row[c].version
        /\ \A d \in Commands \ {c} : row'[d] = row[d]
    BY <1>0, <2>1, <2>2 DEF RowsOK, ReceiptType
  <2>4. \A u \in Turns : Quiet(u)
    BY <2>1, <2>3, CommandType DEF Quiet, Unsaid, Committed, Stamp, Running, Alone
  <2>5. \A d \in Commands : row'[d] # NoReceipt => row[d] # NoReceipt /\ row'[d].base = row[d].base
    BY <2>2, <2>3
  <2>6. BasesBehind'
    BY <1>0, <2>1, <2>5, BasesKept
  <2> QED
    BY <1>2, <2>1, <2>4, <2>6
<1>11. ASSUME Crash
       PROVE  LogFacts'
  <2>1. row' = row /\ standing' = standing /\ version' = version /\ log' = log
    BY <1>11 DEF Crash
  <2>2. \A u \in Turns : turn'[u].phase = "off"
    BY <1>11 DEF Crash, NoTurn
  <2>3. ASSUME NEW u \in Turns
        PROVE  Quiet(u)
    <3>1. ASSUME Committed(u)'
          PROVE  Committed(u) /\ Stamp(u)' = Stamp(u)
      <4>1. Alone(u) /\ row[CommandOf[u]].status = "resolved"
        BY <2>1, <2>2, <3>1 DEF Committed, Alone
      <4>2. ~Running(u)
        BY <1>0, <4>1, ClosedIsDead
      <4> QED
        BY <2>1, <2>2, <4>1, <4>2 DEF Committed, Stamp, Running
    <3> QED
      BY <2>1, <2>2, <3>1 DEF Quiet, Unsaid, Running
  <2> QED
    BY <1>2, <1>3, <2>1, <2>3
<1>12. ASSUME DeleteRouting \/ Rebind
       PROVE  LogFacts'
  <2>1. Len(log') = 0 /\ \A c \in Commands : row'[c] = NoReceipt
    <3>1. log' = <<>>
      BY <1>12 DEF DeleteRouting, Rebind
    <3>2. \A c \in Commands : row'[c] = NoReceipt
      BY <1>0, <1>12 DEF DeleteRouting, Rebind, Kin, GoneTogether
    <3> QED
      BY <3>1, <3>2
  <2>2. \A u \in Turns : ~Alone(u)'
    <3>1. CASE DeleteRouting
      BY <3>1 DEF DeleteRouting, Alone
    <3>2. CASE Rebind
      BY <1>0, <3>2, CommandType DEF Rebind, Kin, GoneTogether, AloneHolds, Holds, Alone
    <3> QED
      BY <1>12, <3>1, <3>2
  <2> QED
    BY <2>1, <2>2 DEF LogFacts, BasesBehind, UnsaidUnlogged, Unlogged, NoMessageTwice,
                      CommittedAreStamped, StampsInOrder, Committed
<1>13. ASSUME AdapterBump
       PROVE  LogFacts'
  <2>1. /\ row' = row /\ turn' = turn /\ standing' = standing /\ log' = log
        /\ version' \in Nat /\ version' >= version
    BY <1>0, <1>13 DEF AdapterBump
  <2>2. BasesBehind'
    BY <1>0, <2>1, BasesKept
  <2>3. \A u \in Turns : Quiet(u)
    BY <2>1, SameIsQuiet
  <2> QED
    BY <1>0, <2>1, <2>2, <2>3, QuietKeepsLog
<1>14. ASSUME UNCHANGED vars \/ \E t \in Turns : EngineExecutes(t)
       PROVE  LogFacts'
  <2>1. row' = row /\ turn' = turn /\ standing' = standing /\ version' = version /\ log' = log
    BY <1>14 DEF vars, EngineExecutes
  <2> QED
    BY <1>2, <1>3, <2>1, SameIsQuiet
<1>15. ASSUME NEW c \in Commands, Request(c) \/ Poll(c) \/ Lapse(c)
       PROVE  LogFacts'
  BY <1>5, <1>6, <1>10, <1>15 DEF Request
<1>16. ASSUME NEW t \in Turns, RunTurn(t)
       PROVE  LogFacts'
  BY <1>0, <1>8, <1>9, <1>16, EndKeepsLog, TouchKeepsLog DEF RunTurn
<1> QED
  BY <1>7, <1>11, <1>12, <1>13, <1>14, <1>15, <1>16 DEF Next

\* What the invariant says of the resolved turns.
LEMMA ResolvedAreCommitted ==
    ASSUME LogInv
    PROVE  ResolvedTurnsInLog
<1> DEFINE Done == {t \in Turns : Alone(t) /\ row[CommandOf[t]].status = "resolved"}
<1>0. ApartInv /\ LogFacts
  BY DEF LogInv, ToldInv
<1>1. ASSUME NEW t \in Done
      PROVE  Committed(t) /\ Stamp(t) = row[CommandOf[t]].version /\ Stamped(t)
  <2>1. ~Running(t)
    BY <1>0, ClosedIsDead
  <2>2. Committed(t)
    BY DEF Committed
  <2> QED
    BY <1>0, <2>1, <2>2 DEF Running, Stamp, LogFacts, CommittedAreStamped
<1>2. \A i, j \in 1..Len(log) : log[i] = log[j] => i = j
  BY <1>0 DEF LogFacts, NoMessageTwice
<1>3. \A i, j \in 1..Len(log) : \A t, u \in Done :
         log[i] = Narration(t) /\ log[j] = Narration(u) /\ i < j
           => row[CommandOf[t]].version < row[CommandOf[u]].version
  BY <1>0, <1>1 DEF LogFacts, StampsInOrder
<1>4. \A t \in Done :
         /\ Logged(Narration(t)) \/ Len(log) = LogCap
         /\ row[CommandOf[t]].base < row[CommandOf[t]].version
         /\ row[CommandOf[t]].version <= version
  BY <1>1 DEF Stamped
<1> QED
  BY <1>2, <1>3, <1>4 DEF ResolvedTurnsInLog, Narration

\* What clients were told is what the transcript shows, for any number of
\* command IDs and calls and any cap of the transcript, across deletions and
\* new bindings of the campaign with calls left over from before, provided no
\* lease runs out under a live turn: one outcome of each turn and one turn of
\* each command ID until the campaign is deleted, and the resolved turns in the
\* transcript once, in the order of their versions (resolveTurn(),
\* bumpVersion()).
THEOREM OutcomesStayKept ==
    ASSUME LeaseCovers
    PROVE  Spec => []OutcomesKept
<1>1. Init => LogInv
  BY InitLog
<1>2. LogInv /\ [Next]_vars => LogInv'
  BY NextLog
<1>3. LogInv => OutcomesKept
  BY ToldIsOne, ResolvedAreCommitted DEF LogInv, OutcomesKept
<1> QED
  BY <1>1, <1>2, <1>3, PTL DEF Spec
============================================================================
