---------------------------- MODULE RuntimeItems ----------------------------
(***************************************************************************)
(* Items made in play (src/engine-domain.ts, src/content/runtime-compiler.ts): *)
(* content_compile gives the hero a new item, or puts an item the story has     *)
(* shown into the scene, and every commit brings the canonical instance into     *)
(* line with the inventory, as far as the commit says it changed it.             *)
(*                                                                         *)
(* An instance is a single unit. Names, weights, capacity and provenance are     *)
(* left out, and so is the scene's own handling of an object once it is there.    *)
(*                                                                         *)
(* An operator named X_Y is X with a deliberate fault: it is never part of   *)
(* the specification, and only shows that a property can fail.               *)
(***************************************************************************)
EXTENDS Naturals, FiniteSets

CONSTANTS
    Kinds,      \* what an item can be: definitions with the same meaning
    Keys,       \* definition keys a proposal may use
    Copies      \* instance keys

Instances == Keys \X Copies

VARIABLES
    defs,       \* runtimeContent.definitions: the kind of each key, or "none"
    made,       \* runtimeContent.instances: the key each is defined by, or "none"
    status,     \* state.status of each instance
    place,      \* where the item is
    sold,       \* ghost: it went to a merchant
    shown       \* ghost: kinds the released story has named

vars == <<defs, made, status, place, sold, shown>>

Init ==
    /\ defs = [k \in Keys |-> "none"]
    /\ made = [i \in Instances |-> "none"]
    /\ status = [i \in Instances |-> "none"]
    /\ place = [i \in Instances |-> "nowhere"]
    /\ sold = {}
    /\ shown = {}

Carried(p) == {i \in Instances : p[i] = "hero"}

\* Items that are gone are not looked for.
Synced_Linked(before, after) ==
    [i \in Instances |-> IF i \in Carried(after) THEN "available" ELSE status[i]]

\* syncRuntimeItemInventoryState(): what the hero carries is available, what the
\* commit took from the inventory it names is merely known
Synced(before, after) ==
    [i \in Instances |-> IF i \in Carried(after) THEN "available"
                         ELSE IF i \in Carried(before) THEN "known" ELSE status[i]]

-----------------------------------------------------------------------------
(* Compiling items                                                          *)

\* resolveContentCompile(), validateRuntimeItemDerivation(): a new definition,
\* its sources known, and the hero carries the instance, which is a new one too
CompileItem(k, c, kind, sources, instance) ==
    /\ defs[k] = "none"
    /\ \A s \in sources : made[s] # "none"
    /\ instance => made[<<k, c>>] = "none"
    /\ defs' = [defs EXCEPT ![k] = kind]
    /\ IF instance
       THEN /\ made' = [made EXCEPT ![<<k, c>>] = k]
            /\ place' = [place EXCEPT ![<<k, c>>] = "hero"]
            /\ status' = [status EXCEPT ![<<k, c>>] = "available"]
       ELSE UNCHANGED <<made, place, status>>
    /\ UNCHANGED <<sold, shown>>

\* The story names it and its holder.
Evident_Anything(kind) == TRUE

\* resolveContentMaterializationEvidence()
Evident(kind) == kind \in shown

\* Every proposal gets a definition of its own.
Definition_Own(k, kind) == k

\* sameRuntimeDefinition(), sameRuntimeItemSemantics(): the definition of the
\* key, or of another key that means the same
Definition(k, kind) ==
    IF defs[k] # "none" \/ \A other \in Keys : defs[other] # kind THEN k
    ELSE CHOOSE other \in Keys : defs[other] = kind

\* resolveContentCompile() with materialization
Materialize(k, c, kind) ==
    /\ Evident(kind)
    /\ defs[k] \in {"none", kind}
    /\ made[<<k, c>>] = "none"
    /\ defs' = [defs EXCEPT ![Definition(k, kind)] = kind]
    /\ made' = [made EXCEPT ![<<k, c>>] = Definition(k, kind)]
    /\ place' = [place EXCEPT ![<<k, c>>] = "scene"]
    /\ status' = [status EXCEPT ![<<k, c>>] = "available"]
    /\ UNCHANGED <<sold, shown>>

\* A narration, the scene's description or a known fact names the thing.
Tell(kind) ==
    /\ kind \notin shown
    /\ shown' = shown \cup {kind}
    /\ UNCHANGED <<defs, made, status, place, sold>>

-----------------------------------------------------------------------------
(* What becomes of an item                                                  *)

\* Commands whose change names the inventory: drop and use, the party's shared
\* container, the hero's death and what is looted afterwards
Handle(i, to) ==
    /\ <<place[i], to>> \in {<<"hero", "gone">>, <<"hero", "shared">>, <<"shared", "hero">>,
                             <<"hero", "remains">>, <<"remains", "hero">>}
    /\ place' = [place EXCEPT ![i] = to]
    /\ status' = Synced(place, place')
    /\ UNCHANGED <<defs, made, sold, shown>>

\* resolveMerchantTrade(): the change names the character, so the inventory
\* before it is taken to be the one after it
Sell(i) ==
    /\ place[i] = "hero"
    /\ place' = [place EXCEPT ![i] = "merchant"]
    /\ status' = Synced(place', place')
    /\ sold' = sold \cup {i}
    /\ UNCHANGED <<defs, made, shown>>

-----------------------------------------------------------------------------

Next ==
    \/ \E kind \in Kinds : Tell(kind)
        \/ \E k \in Keys, c \in Copies :
            Materialize(k, c, kind)
            \/ \E sources \in {{}} \cup {{i} : i \in Instances}, instance \in BOOLEAN :
                CompileItem(k, c, kind, sources, instance)
    \/ \E i \in Instances : Sell(i) \/ \E to \in {"gone", "shared", "hero", "remains"} : Handle(i, to)

Spec == Init /\ [][Next]_vars

-----------------------------------------------------------------------------
(* Properties                                                               *)

TypeOK ==
    /\ defs \in [Keys -> Kinds \cup {"none"}]
    /\ made \in [Instances -> Keys \cup {"none"}]
    /\ status \in [Instances -> {"none", "available", "known"}]
    /\ sold \subseteq Instances /\ shown \subseteq Kinds

\* A canonical instance tells what the inventory tells: available while the hero
\* carries it, merely known once it is dropped, used, put away or lost in death,
\* however it comes and goes. An item sold to a merchant is the exception.
MirrorsInventory ==
    \A i \in Instances \ sold : place[i] \notin {"nowhere", "scene"} =>
        (status[i] = "available" <=> place[i] = "hero")

\* What stands in the scene was told first, so no proposal puts there what the
\* story never mentioned.
SceneIsTold == \A i \in Instances : place[i] = "scene" => defs[made[i]] \in shown

\* A thing told of again under another key is an instance of the definition that
\* is there: only content_compile without evidence makes a second one.
MeansTheSame ==
    \A k \in Keys : defs[k] = "none" /\ defs'[k] # "none" /\ (\E i \in Instances : place[i] = "nowhere" /\ place'[i] = "scene")
     => \A other \in Keys : defs[other] # defs'[k]

=============================================================================
