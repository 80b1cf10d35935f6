--------------------------- MODULE TurnReceipts ---------------------------
(***************************************************************************)
(* What the table reference_engine_commands promises its clients, with      *)
(* nothing of the turn itself: a client command ID opens at most one turn   *)
(* and a turn that has an outcome keeps it, until the campaign is deleted   *)
(* and takes all its receipts with it; and no two open turns were started   *)
(* from one campaign version. ReferenceTurn implements this specification.  *)
(***************************************************************************)
CONSTANTS
    Commands,   \* the client command IDs
    Versions,   \* the campaign versions a request can be based on
    NoReceipt

VARIABLE
    receipt     \* per command ID: NoReceipt or [status, base]

vars == <<receipt>>

Open == {c \in Commands : receipt[c] # NoReceipt /\ receipt[c].status = "processing"}

OpenAt(base) == {c \in Open : receipt[c].base = base}

Closed(r, outcome) == [r EXCEPT !.status = outcome]

Init == receipt = [c \in Commands |-> NoReceipt]

\* A first request: the turns left open at the same version are failed, and
\* the new one is open, or refused admission and failed at once.
Start(c, base, status) ==
    /\ receipt[c] = NoReceipt
    /\ receipt' = [d \in Commands |->
                     CASE d = c -> [status |-> status, base |-> base]
                       [] d \in OpenAt(base) \ {c} -> Closed(receipt[d], "failed")
                       [] OTHER -> receipt[d]]

Resolve(c) ==
    /\ c \in Open
    /\ receipt' = [receipt EXCEPT ![c] = Closed(@, "resolved")]

Fail(cs) ==
    /\ cs \subseteq Open
    /\ receipt' = [c \in Commands |-> IF c \in cs THEN Closed(receipt[c], "failed") ELSE receipt[c]]

\* The campaign is deleted. Receipts go all together or not at all.
Erase == receipt' = [c \in Commands |-> NoReceipt]

Next ==
    \/ \E c \in Commands, base \in Versions, status \in {"processing", "failed"} : Start(c, base, status)
    \/ \E c \in Commands : Resolve(c)
    \/ \E cs \in SUBSET Commands : Fail(cs)
    \/ Erase

Spec == Init /\ [][Next]_vars
===========================================================================
