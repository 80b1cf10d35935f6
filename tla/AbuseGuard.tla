------------------------------ MODULE AbuseGuard ------------------------------
(***************************************************************************)
(* The abuse controls beside the cost ledger (src/abuse-guard.ts): a sliding*)
(* window on turn attempts, the free accounts that one origin may register, *)
(* and the list of blocked accounts. Every operation is one synchronous     *)
(* pass over its tables.                                                    *)
(*                                                                         *)
(* An operator named X_Y is X with a deliberate fault: it is never part of  *)
(* the specification, and only shows that a property can fail.              *)
(***************************************************************************)
EXTENDS Naturals, FiniteSets, FiniteSetsExt

CONSTANTS
    Accounts,
    Origins,               \* what normaliseOrigin() tells apart
    TurnWindow,            \* turnWindowMs
    MaxTurnsPerWindow,
    OriginWindow,          \* originWindowMs
    MaxAccountsPerOrigin,
    MaxTime                \* bound: the last tick

VARIABLES
    now,
    attempts,  \* abuse_turn_attempts, by account and tick: how many
    origin,    \* abuse_account_origins: the first origin and when, or none
    blocks,    \* abuse_blocks
    paid,      \* the accounts that are entitled
    history,   \* ghost: every attempt admitted, the deleted rows, too
    signups    \* ghost: the free accounts admitted, and when

vars == <<now, attempts, origin, blocks, paid, history, signups>>

Times == 0..MaxTime
NoOrigin == "none"
Unseen == [at |-> 0, from |-> NoOrigin]

Init ==
    /\ now = 0
    /\ attempts = [a \in Accounts |-> [t \in Times |-> 0]]
    /\ origin = [a \in Accounts |-> Unseen]
    /\ blocks = {}
    /\ paid = {}
    /\ history = [a \in Accounts |-> [t \in Times |-> 0]]
    /\ signups = {}

Started(window) == IF now > window THEN now - window ELSE 0

\* Attempts at the very start of the window are forgotten.
Kept_Exclusive(table) ==
    [a \in Accounts |-> [t \in Times |-> IF t <= Started(TurnWindow) /\ now >= TurnWindow THEN 0 ELSE table[a][t]]]

\* DELETE of what is older than the window, for every account.
Kept(table) == [a \in Accounts |-> [t \in Times |-> IF t < Started(TurnWindow) THEN 0 ELSE table[a][t]]]

Count(table, a, from, to) == MapThenSumSet(LAMBDA t : table[a][t], from..to)

\* admitTurn(): blocked accounts are refused before the table is touched; the
\* sweep stays when the burst is refused.
AdmitTurn(a) ==
    LET kept == Kept(attempts)
        admitted == Count(kept, a, 0, MaxTime) < MaxTurnsPerWindow
    IN  /\ a \notin blocks
        /\ attempts' = IF admitted THEN [kept EXCEPT ![a][now] = @ + 1] ELSE kept
        /\ history' = IF admitted THEN [history EXCEPT ![a][now] = @ + 1] ELSE history
        /\ UNCHANGED <<now, origin, blocks, paid, signups>>

\* countAccountsForOrigin()
From(o) == {a \in Accounts : origin[a].from = o /\ origin[a].at >= Started(OriginWindow)}

\* recordAccountOrigin(): only the first origin is kept.
Bound(a, o) == origin' = IF origin[a] = Unseen THEN [origin EXCEPT ![a] = [at |-> now, from |-> o]] ELSE origin

\* The limit is one too high.
AdmitSignup_OneMore(a, o) ==
    /\ a \notin blocks \cup paid
    /\ origin[a] = Unseen
    /\ Cardinality(From(o)) <= MaxAccountsPerOrigin
    /\ Bound(a, o)
    /\ signups' = signups \cup {[account |-> a, from |-> o, at |-> now]}
    /\ UNCHANGED <<now, attempts, blocks, paid, history>>

\* admitFreeTierSignup() that succeeds: of a paying account, of a known one, and
\* of a new free one as long as its origin has room.
AdmitSignup(a, o) ==
    /\ a \notin blocks
    /\ \/ a \in paid /\ Bound(a, o) /\ UNCHANGED signups
       \/ a \notin paid /\ origin[a] # Unseen /\ UNCHANGED <<origin, signups>>
       \/ /\ a \notin paid /\ origin[a] = Unseen
          /\ Cardinality(From(o)) < MaxAccountsPerOrigin
          /\ Bound(a, o)
          /\ signups' = signups \cup {[account |-> a, from |-> o, at |-> now]}
    /\ UNCHANGED <<now, attempts, blocks, paid, history>>

\* block() and unblock()
Block(a) == a \notin blocks /\ blocks' = blocks \cup {a} /\ UNCHANGED <<now, attempts, origin, paid, history, signups>>
Unblock(a) == a \in blocks /\ blocks' = blocks \ {a} /\ UNCHANGED <<now, attempts, origin, paid, history, signups>>

Pay(a) == a \notin paid /\ paid' = paid \cup {a} /\ UNCHANGED <<now, attempts, origin, blocks, history, signups>>

Tick == now < MaxTime /\ now' = now + 1 /\ UNCHANGED <<attempts, origin, blocks, paid, history, signups>>

Next ==
    \/ \E a \in Accounts : AdmitTurn(a) \/ Block(a) \/ Unblock(a) \/ Pay(a) \/ \E o \in Origins : AdmitSignup(a, o)
    \/ Tick

Spec == Init /\ [][Next]_vars

-----------------------------------------------------------------------------
(* Properties.                                                              *)

TypeOK ==
    /\ now \in Times
    /\ attempts \in [Accounts -> [Times -> 0..MaxTurnsPerWindow]]
    /\ history \in [Accounts -> [Times -> Nat]]
    /\ origin \in [Accounts -> [at : Times, from : Origins \cup {NoOrigin}]]
    /\ blocks \subseteq Accounts /\ paid \subseteq Accounts

\* Slide the window as one likes: it never holds more admitted turns than the
\* limit, although attempts of other accounts sweep the table.
BurstBounded ==
    \A a \in Accounts, t \in Times :
        Count(history, a, t, IF t + TurnWindow > MaxTime THEN MaxTime ELSE t + TurnWindow) <= MaxTurnsPerWindow

\* Wherever the accounts connect from later, no window has more new free accounts
\* of one origin than the limit, whatever signs up, pays or returns in between.
ClusterBounded ==
    \A s \in signups :
        Cardinality({x \in signups : x.from = s.from /\ x.at \in s.at..(s.at + OriginWindow)}) <= MaxAccountsPerOrigin
=============================================================================
