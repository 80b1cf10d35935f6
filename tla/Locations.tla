----------------------------- MODULE Locations -----------------------------
(***************************************************************************)
(* The canonical places of a campaign (src/engine-domain.ts): content_compile  *)
(* makes a place from a key, with a parent, exits and occupants that must be     *)
(* there already, an exit patch opens, shuts, hides or reveals an exit, and      *)
(* move takes the hero through one. Nothing takes a place away, and a key is     *)
(* compiled once.                                                               *)
(*                                                                         *)
(* A place is its key: a key has at most one instance. Two exits between the     *)
(* same places are one here. Parents and exits are what topology checks read;     *)
(* names, descriptions and objects are left out.                                *)
(*                                                                         *)
(* An operator named X_Y is X with a deliberate fault: it is never part of   *)
(* the specification, and only shows that a property can fail.               *)
(***************************************************************************)
EXTENDS Naturals, FiniteSets

CONSTANTS
    Keys,      \* keys a proposal may use
    Npcs       \* ids of characters the world context may establish

VARIABLES
    compiled,  \* runtimeContent.definitions, as keys
    placed,    \* runtimeContent.instances of locations, as keys
    inside,    \* located_in between places
    exits,     \* connects_to, with the state of the exit
    at,        \* located_in of actors
    people,    \* worldContext.npcs
    left       \* ghost: places the hero went away from

vars == <<compiled, placed, inside, exits, at, people, left>>

Hero == "hero"
Actors == Npcs \cup {Hero}
ExitStates == [passable : BOOLEAN, visible : BOOLEAN]

Init ==
    /\ compiled = {} /\ placed = {} /\ inside = {} /\ exits = {} /\ at = {}
    /\ people = {} /\ left = {}

-----------------------------------------------------------------------------
(* Compiling a place                                                        *)

\* A known key may be compiled again.
New_Again(k) == TRUE

\* "content_already_exists", and "content_instance_already_exists"
New(k) == k \notin compiled

\* A place may also lead to itself.
Reachable_Itself(k) == placed \cup {k}

\* What a parent or an exit may name: a place that is there already. The place
\* itself is a cycle, another key is not found.
Reachable(k) == placed \ {k}

\* Nobody asks where the occupants are.
Homeless_Any == people \cup {Hero}

\* Occupants a place may claim: established, and in no other place.
Homeless == {a \in people \cup {Hero} : \A p \in placed : <<a, p>> \notin at}

\* resolveContentCompile() of a place: without an instance it names nothing
CompilePlace(k, instance, parents, doors, occupants) ==
    /\ New(k)
    /\ ~instance => parents = {} /\ DOMAIN doors = {} /\ occupants = {}
    /\ parents \cup DOMAIN doors \subseteq Reachable(k)
    /\ occupants \subseteq Homeless
    /\ compiled' = compiled \cup {k}
    /\ placed' = IF instance THEN placed \cup {k} ELSE placed
    /\ inside' = inside \cup {<<k, p>> : p \in parents}
    /\ exits' = exits \cup {[from |-> k, to |-> t, state |-> doors[t]] : t \in DOMAIN doors}
    /\ at' = at \cup {<<a, k>> : a \in occupants}
    /\ UNCHANGED <<people, left>>

\* resolveRuntimeLocationExitPatch()
PatchExit(e, state) ==
    /\ e \in exits /\ state # e.state
    /\ exits' = (exits \ {e}) \cup {[e EXCEPT !.state = state]}
    /\ UNCHANGED <<compiled, placed, inside, at, people, left>>

-----------------------------------------------------------------------------
(* Moving                                                                   *)

HeroAt == {p \in placed : <<Hero, p>> \in at}

\* resolveMove() from a canonical place: through an exit the hero has found and
\* that is open
Move(e) ==
    /\ HeroAt = {e.from}
    /\ e.state = [passable |-> TRUE, visible |-> TRUE]
    /\ at' = (at \ {<<Hero, e.from>>}) \cup {<<Hero, e.to>>}
    /\ left' = left \cup {e.from}
    /\ UNCHANGED <<compiled, placed, inside, exits, people>>

\* resolveWorldContext(): characters come and go, their place stays on record
Establish(n) ==
    /\ n \notin people
    /\ people' = people \cup {n}
    /\ UNCHANGED <<compiled, placed, inside, exits, at, left>>

Retire(n) ==
    /\ n \in people
    /\ people' = people \ {n}
    /\ UNCHANGED <<compiled, placed, inside, exits, at, left>>

-----------------------------------------------------------------------------

\* Exits a proposal may author: a plain one, or a locked secret one.
Authored == {[passable |-> TRUE, visible |-> TRUE], [passable |-> FALSE, visible |-> FALSE]}

Next ==
    \/ \E k \in Keys : New(k) /\
        \/ CompilePlace(k, FALSE, {}, <<>>, {})
        \/ \E parents \in {{}} \cup {{p} : p \in Reachable(k)}, occupants \in SUBSET Homeless,
             tos \in SUBSET Reachable(k) :
            \E doors \in [tos -> Authored] : CompilePlace(k, TRUE, parents, doors, occupants)
    \/ \E e \in exits : Move(e) \/ \E state \in ExitStates : PatchExit(e, state)
    \/ \E n \in Npcs : Establish(n) \/ Retire(n)

Spec == Init /\ [][Next]_vars

-----------------------------------------------------------------------------
(* Properties                                                               *)

TypeOK ==
    /\ placed \subseteq compiled /\ compiled \subseteq Keys
    /\ inside \subseteq placed \X placed
    /\ \A e \in exits : e.from \in placed /\ e.to \in placed /\ e.state \in ExitStates
    /\ at \subseteq Actors \X placed /\ people \subseteq Npcs /\ left \subseteq placed

\* Nobody is in two places, also one who went away and is established again:
\* a second place would refuse every move for good ("location_ambiguous").
OnePlaceEach == \A a \in Actors : Cardinality({p \in placed : <<a, p>> \in at}) <= 1

\* Some place of every set of places lies inside none of them: containment has
\* no cycle.
ContainmentEnds ==
    \A s \in (SUBSET placed) \ {{}} : \E p \in s : \A q \in s : <<p, q>> \notin inside

\* The way through the canonical places leads to older ones only, so the hero
\* never comes back to a place it left.
NeverBack == HeroAt \cap left = {}

=============================================================================
