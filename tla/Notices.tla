-------------------------------- MODULE Notices --------------------------------
(***************************************************************************)
(* Sealed notices (resolveProceduralNotice() of src/engine-domain.ts): their  *)
(* terms are authorized, delivered and resolved step by step. The list keeps  *)
(* its youngest entries. Copies and clarifications, which change nothing but  *)
(* the list of requests, are left out.                                       *)
(*                                                                         *)
(* An operator named X_Y is X with a deliberate fault: it is never part of   *)
(* the specification, and only shows that a property can fail.               *)
(***************************************************************************)
EXTENDS Naturals, Sequences

CONSTANTS
    Names, Terms,
    MaxNotices   \* the notices kept, 20 in the code

VARIABLES
    notices,     \* proceduralNotices, oldest first
    authorized   \* ghost: the terms a listed notice was authorized with

vars == <<notices, authorized>>
None == "none"
Entries == {notices[i] : i \in DOMAIN notices}

Init == notices = <<>> /\ authorized = [n \in Names |-> None]

At(n) == CHOOSE i \in DOMAIN notices : notices[i].id = n
Listed(n) == n \in {x.id : x \in Entries}
Kept(s) == IF Len(s) > MaxNotices THEN Tail(s) ELSE s

\* The terms may still change once the notice is authorized.
Sealed_OrAuthorized(n) == notices[At(n)].status \in {"sealed", "authorized"}

Sealed(n) == notices[At(n)].status = "sealed"

\* "upsert": a new notice may push the oldest one out, whatever its status.
Upsert(n, terms) ==
    /\ IF Listed(n)
       THEN Sealed(n) /\ notices' = [notices EXCEPT ![At(n)].terms = terms]
       ELSE notices' = Kept(Append(notices, [id |-> n, status |-> "sealed", terms |-> terms]))
    /\ authorized' = [x \in Names |->
           IF \E i \in DOMAIN notices' : notices'[i].id = x THEN authorized[x] ELSE None]

Moves(n, from, to) ==
    /\ Listed(n)
    /\ notices[At(n)].status = from
    /\ notices' = [notices EXCEPT ![At(n)].status = to]
    /\ authorized' = IF to = "authorized" THEN [authorized EXCEPT ![n] = notices[At(n)].terms] ELSE authorized

ProceduralNotice(n) ==
    \/ \E t \in Terms : Upsert(n, t)
    \/ Moves(n, "sealed", "authorized") \/ Moves(n, "authorized", "delivered")
    \/ Moves(n, "delivered", "resolved") \/ Moves(n, "sealed", "withdrawn")

Next == \E n \in Names : ProceduralNotice(n)

Spec == Init /\ [][Next]_vars

-----------------------------------------------------------------------------
TypeOK ==
    /\ Len(notices) <= MaxNotices
    /\ \A x \in Entries : x.id \in Names /\ x.terms \in Terms

\* The terms that are delivered are those that were authorized, as long as the
\* notice is listed, through pushing out and entering again.
TermsAsAuthorized ==
    \A x \in Entries : x.status \in {"authorized", "delivered", "resolved"} => x.terms = authorized[x.id]
=============================================================================
