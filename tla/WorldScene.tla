----------------------------- MODULE WorldScene -----------------------------
(***************************************************************************)
(* The scene the world_context command writes (src/engine-domain.ts): facts,   *)
(* objects, and the characters and merchants in it, each as a patch of entries   *)
(* to put in and ids to take out. One command carries patches of every kind and   *)
(* is refused as a whole. What play has done to a character, and what an object    *)
(* has become, is the engine's and no patch writes it.                            *)
(*                                                                         *)
(* Merchants are patched as characters are. What a fact means to those who know   *)
(* it is module Situations'; how an object is used is module Possessions'.        *)
(*                                                                         *)
(* An operator named X_Y is X with a deliberate fault: it is never part of   *)
(* the specification, and only shows that a property can fail.               *)
(***************************************************************************)
EXTENDS Naturals, FiniteSets

CONSTANTS
    Facts, Objects, Npcs,
    Boxes,        \* objects tagged "container"
    Critical,     \* objects whose loss the policy forbids
    FactLimit, ObjectLimit, NpcLimit,  \* 40, 40, 20 in the code
    MaxPlay       \* bound: what play has done to a character

VARIABLES
    facts,     \* worldFacts: "none", "active" or "inactive"
    objects,   \* worldContext.objects: "none", "scene", or the box it is in
    worn,      \* objects play has changed: opened, damaged, moved
    npcs,      \* worldContext.npcs: -1, or relationshipScore and custody as one number
    open       \* worldContext is there

vars == <<facts, objects, worn, npcs, open>>

Init ==
    /\ facts = [f \in Facts |-> "none"]
    /\ objects = [o \in Objects |-> "none"]
    /\ worn = {}
    /\ npcs = [n \in Npcs |-> 0]
    /\ open = FALSE

Standing(n) == npcs[n] # 0
Established == {o \in Objects : objects[o] # "none"}
Active == {f \in Facts : facts[f] = "active"}

-----------------------------------------------------------------------------
(* A patch: up is what it puts in, out is what it takes out                   *)

\* validateWorldFactPatch(): only facts that were never there count as added
FactsFit(up, out) ==
    /\ up \cap out = {}
    /\ \A f \in out : facts[f] # "none"
    /\ Cardinality(Active) - Cardinality(out \cap Active)
        + Cardinality({f \in up : facts[f] = "none"}) <= FactLimit

\* applyWorldFactPatch()
FactsPatched(up, out) ==
    [f \in Facts |-> IF f \in up THEN "active" ELSE IF f \in out THEN "inactive" ELSE facts[f]]

\* Only the size and the critical objects are looked at.
ObjectsFit_Sizes(up, out, patched) ==
    /\ DOMAIN up \cap out = {} /\ out \subseteq Established
    /\ out \cap Critical = {}

\* validateWorldObjectPatch(), worldObjectTopologyValidation(): what is there
\* stays as it is, whatever a box holds is in a box that is there
ObjectsFit(up, out, patched) ==
    /\ DOMAIN up \cap out = {} /\ out \subseteq Established
    /\ \A o \in DOMAIN up \cap Established : up[o] = objects[o]
    /\ Cardinality(Established) - Cardinality(out)
        + Cardinality(DOMAIN up \ Established) <= ObjectLimit
    /\ out \cap Critical = {}
    /\ \A o \in Objects : patched[o] \notin {"none", "scene"} =>
        patched[o] \in Boxes \ {o} /\ patched[patched[o]] # "none"

\* applyWorldObjectPatch()
ObjectsPatched(up, out) ==
    [o \in Objects |-> IF o \in out THEN "none"
                       ELSE IF o \in DOMAIN up \ Established THEN up[o] ELSE objects[o]]

\* validateEntityPatchOperations()
NpcsFit(up, out) ==
    /\ up \cap out = {}
    /\ \A n \in out : Standing(n)
    /\ Cardinality({n \in Npcs : Standing(n)}) - Cardinality(out)
        + Cardinality({n \in up : ~Standing(n)}) <= NpcLimit

\* The patch is the whole character.
Merged_Afresh(n, up) == IF n \in up THEN 1 ELSE npcs[n]

\* mergeNpcPatch(): what is not the patch's to write stays; a new one starts
Merged(n, up) == IF n \in up /\ ~Standing(n) THEN 1 ELSE npcs[n]

\* applyNpcPatch(), applyMerchantPatch()
NpcsPatched(up, out) == [n \in Npcs |-> IF n \in out THEN 0 ELSE Merged(n, up)]

\* resolveWorldContext(): refused as a whole or done as a whole
Patch(upF, outF, upO, outO, upN, outN) ==
    /\ FactsFit(upF, outF)
    /\ ObjectsFit(upO, outO, ObjectsPatched(upO, outO))
    /\ NpcsFit(upN, outN)
    /\ facts' = FactsPatched(upF, outF)
    /\ objects' = ObjectsPatched(upO, outO)
    /\ worn' = worn \ outO
    /\ npcs' = NpcsPatched(upN, outN)
    /\ open' = TRUE

-----------------------------------------------------------------------------
(* Play                                                                     *)

\* A social check, a surrender: play changes what a character is to the hero.
Meet(n) ==
    /\ npcs[n] \in 1..MaxPlay
    /\ npcs' = [npcs EXCEPT ![n] = @ + 1]
    /\ UNCHANGED <<facts, objects, worn, open>>

\* An affordance changes an object's state.
Use(o) ==
    /\ o \in Established \ worn
    /\ worn' = worn \cup {o}
    /\ UNCHANGED <<facts, objects, npcs, open>>

-----------------------------------------------------------------------------

Small(S) == {s \in SUBSET S : Cardinality(s) <= 2}

Next ==
    \/ \E upF, outF \in Small(Facts) : Patch(upF, outF, <<>>, {}, {}, {})
    \/ \E upN, outN \in Small(Npcs) : Patch({}, {}, <<>>, {}, upN, outN)
    \/ \E outO \in Small(Objects), names \in Small(Objects) :
        \E upO \in [names -> {"scene"} \cup Objects] : Patch({}, {}, upO, outO, {}, {})
    \/ \E n \in Npcs : Meet(n)
    \/ \E o \in Objects : Use(o)

Spec == Init /\ [][Next]_vars

-----------------------------------------------------------------------------
(* Properties                                                               *)

TypeOK ==
    /\ facts \in [Facts -> {"none", "active", "inactive"}]
    /\ objects \in [Objects -> {"none", "scene"} \cup Objects]
    /\ worn \subseteq Established
    /\ npcs \in [Npcs -> 0..(MaxPlay + 1)] /\ open \in BOOLEAN

\* Nothing lies in a box that is not there: a box goes only when what it holds
\* goes with it, over any sequence of commands.
ContentsHeld ==
    \A o \in Objects : objects[o] \in Objects => objects[objects[o]] # "none"

\* What play did to a character is lost only when the character is taken out of
\* the scene; no rewriting of it by the narrator undoes a feud or a surrender.
EditsKeepStanding ==
    \A n \in Npcs : Standing(n) /\ npcs'[n] # 0 => npcs'[n] >= npcs[n]

=============================================================================
