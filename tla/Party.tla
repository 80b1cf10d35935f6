------------------------------- MODULE Party --------------------------------
(***************************************************************************)
(* The party of a hero and the companions under the hero's control           *)
(* (src/engine-domain.ts): who belongs to it, whose eyes the player sees      *)
(* with, which scene each member is in, the shared container, and the group    *)
(* check, whose helpers pay with their action during a fight. Every command    *)
(* reads the campaign through normalizeCampaignState(), which takes active      *)
(* companions into the party: the state here is the one a command reads.        *)
(*                                                                         *)
(* Things are units of one item. The fight is a turn of the hero or not the     *)
(* hero's; what happens in it is module GuardEncounter's.                      *)
(*                                                                         *)
(* An operator named X_Y is X with a deliberate fault: it is never part of   *)
(* the specification, and only shows that a property can fail.               *)
(***************************************************************************)
EXTENDS Naturals, FiniteSets, FiniteSetsExt

CONSTANTS
    Companions,   \* the companions that may be created, each at most once
    Summons,      \* those of the profile that expires
    Scenes,       \* the scenes a member may be sent to
    Units,        \* what the hero owns at first
    MaxTime       \* bound: minutes, in lifetimes of a summon

VARIABLES
    status,    \* controlledActors[].status
    until,     \* expiresAtMinutes
    party,     \* members, viewpoint, mode, scene of each member; or none
    stock,     \* inventories, and the shared container
    world,     \* worldContext.id
    now,       \* gameTime
    fight,     \* whose turn, who spent the action, who was commanded
    acted      \* ghost: actions taken since the hero's turn began

vars == <<status, until, party, stock, world, now, fight, acted>>

Hero == "hero"
Shared == "shared"
Actors == Companions \cup {Hero}
Nowhere == "nowhere"
Campaign == "campaign"       \* the scene while the world has no context yet
Established == "world"       \* the scene of the one world context
NoParty == [formed |-> FALSE, members |-> {}, viewpoint |-> Hero, mode |-> "together",
            scene |-> [a \in Actors |-> Nowhere]]

Init ==
    /\ status = [c \in Companions |-> "none"]
    /\ until = [c \in Companions |-> 0]
    /\ party = NoParty
    /\ stock = [h \in Actors \cup {Shared} |-> IF h = Hero THEN Units ELSE 0]
    /\ world = Campaign
    /\ now = 0
    /\ fight = [turn |-> "none", spent |-> {}, commanded |-> {}]
    /\ acted = [a \in Actors |-> 0]

Active(s) == {c \in Companions : s[c] = "active"}

\* Companions who come later are not taken in.
Loaded_Founders(p, s, w) == p

\* normalizePartyState(): every active companion belongs to the party, and a
\* new one stands in the scene of the world
Loaded(p, s, w) ==
    IF ~p.formed THEN p
    ELSE [p EXCEPT !.members = @ \cup Active(s),
                   !.scene = [a \in Actors |-> IF a \in Active(s) \ p.members THEN w ELSE @[a]]]

-----------------------------------------------------------------------------
(* Controlled actors                                                        *)

\* resolveControlledActorCreate(): one active companion of each profile
Create(c) ==
    /\ status[c] = "none"
    /\ \A d \in Active(status) : (d \in Summons) # (c \in Summons)
    /\ status' = [status EXCEPT ![c] = "active"]
    /\ until' = [until EXCEPT ![c] = IF c \in Summons THEN now + 1 ELSE 0]
    /\ party' = Loaded(party, status', world)
    /\ UNCHANGED <<stock, world, now, fight, acted>>

\* resolveControlledActorDismiss(): it keeps its place and what it carries
Dismiss(c) ==
    /\ status[c] = "active"
    /\ status' = [status EXCEPT ![c] = "dismissed"]
    /\ fight' = [fight EXCEPT !.commanded = @ \ {c}]
    /\ UNCHANGED <<until, party, stock, world, now, acted>>

\* applyControlledActorDamage(): the hero's own spell kills it
Slain(c) ==
    /\ fight.turn = Hero /\ Hero \notin fight.spent
    /\ status[c] = "active"
    /\ status' = [status EXCEPT ![c] = "dead"]
    /\ fight' = [fight EXCEPT !.commanded = @ \ {c}, !.spent = @ \cup {Hero}]
    /\ acted' = [acted EXCEPT ![Hero] = @ + 1]
    /\ UNCHANGED <<until, party, stock, world, now>>

\* advanceGameTime(): summons whose time has come expire
Pass ==
    /\ fight.turn = "none" /\ now < MaxTime
    /\ now' = now + 1
    /\ status' = [c \in Companions |->
                    IF status[c] = "active" /\ c \in Summons /\ until[c] <= now' THEN "expired" ELSE status[c]]
    /\ fight' = [fight EXCEPT !.commanded = @ \cap Active(status')]
    /\ UNCHANGED <<until, party, stock, world, acted>>

\* resolveWorldContext(): the first context gives the world its scene for good,
\* and the members stay where they were
Establish ==
    /\ fight.turn = "none" /\ world = Campaign
    /\ world' = Established
    /\ UNCHANGED <<status, until, party, stock, now, fight, acted>>

-----------------------------------------------------------------------------
(* The party                                                                *)

\* resolvePartyCreate()
Form ==
    /\ ~party.formed /\ Active(status) # {}
    /\ party' = [formed |-> TRUE, members |-> {Hero} \cup Active(status), viewpoint |-> Hero,
                 mode |-> "together",
                 scene |-> [a \in Actors |-> IF a \in {Hero} \cup Active(status) THEN world ELSE Nowhere]]
    /\ UNCHANGED <<status, until, stock, world, now, fight, acted>>

\* Members who can be addressed: the hero, and those still under control.
Able(a) == a \in party.members \cap ({Hero} \cup Active(status))

\* resolvePartySetViewpoint()
SetViewpoint(a) ==
    /\ party.formed /\ Able(a) /\ a # party.viewpoint
    /\ party' = [party EXCEPT !.viewpoint = a]
    /\ UNCHANGED <<status, until, stock, world, now, fight, acted>>

\* resolvePartySplit(): the leader is the anchor
Split(c, w) ==
    /\ party.formed /\ c # Hero /\ Able(c) /\ party.scene[c] # w
    /\ party' = [party EXCEPT !.scene[c] = w, !.mode = "split"]
    /\ UNCHANGED <<status, until, stock, world, now, fight, acted>>

\* Only those who can be addressed come along.
Reunited_Able(p) ==
    [p EXCEPT !.mode = "together", !.scene = [a \in Actors |-> IF Able(a) THEN world ELSE @[a]]]

Reunited(p) ==
    [p EXCEPT !.mode = "together", !.scene = [a \in Actors |-> IF a \in p.members THEN world ELSE @[a]]]

\* resolvePartyRejoin()
Rejoin ==
    /\ party.formed
    /\ party.mode = "together" => \E a \in party.members : party.scene[a] # world
    /\ party' = Reunited(party)
    /\ UNCHANGED <<status, until, stock, world, now, fight, acted>>

\* The receiver gets the units, the giver keeps them.
Moved_Copied(from, to, n) == [stock EXCEPT ![to] = @ + n]

Moved(from, to, n) == [stock EXCEPT ![from] = @ - n, ![to] = @ + n]

\* resolvePartySharedTransfer()
Transfer(a, n, toShared) ==
    LET from == IF toShared THEN a ELSE Shared
        to == IF toShared THEN Shared ELSE a
    IN /\ party.formed /\ Able(a) /\ n \in 1..stock[from]
       /\ stock' = Moved(from, to, n)
       /\ UNCHANGED <<status, until, party, world, now, fight, acted>>

-----------------------------------------------------------------------------
(* Acting in a fight                                                        *)

Unspent(helpers) == ({Hero} \cup helpers) \cap fight.spent = {}

\* resolvePartyGroupCheck(): free of charge outside a fight
GroupCheck(helpers) ==
    /\ party.formed /\ \A c \in helpers : Able(c)
    /\ fight.turn # "none" =>
        fight.turn = Hero /\ Unspent(helpers)
    /\ IF fight.turn = "none" THEN UNCHANGED <<fight, acted>>
       ELSE /\ fight' = [fight EXCEPT !.spent = @ \cup {Hero} \cup helpers]
            /\ acted' = [a \in Actors |-> IF a \in {Hero} \cup helpers THEN acted[a] + 1 ELSE acted[a]]
    /\ UNCHANGED <<status, until, party, stock, world, now>>

\* resolveControlledActorCommand(): an attack or a guard
Command(c) ==
    /\ fight.turn = Hero /\ status[c] = "active" /\ {Hero, c} \cap fight.spent = {}
    /\ fight' = [fight EXCEPT !.spent = @ \cup {Hero, c}, !.commanded = @ \cup {c}]
    /\ acted' = [acted EXCEPT ![c] = @ + 1]
    /\ UNCHANGED <<status, until, party, stock, world, now>>

\* resolveCombatStart(): the hero's budget is new, the companions' is not
Fight(turn) ==
    /\ fight.turn = "none"
    /\ fight' = [fight EXCEPT !.turn = turn, !.spent = @ \ {Hero}]
    /\ acted' = [a \in Actors |-> 0]
    /\ UNCHANGED <<status, until, party, stock, world, now>>

\* Idle companions guard, whether they have acted or not.
Idle_Uncommanded == Active(status) \ fight.commanded

\* applyControlledActorFallback(): those who were not commanded, and have an
\* action left, guard
Idle == Active(status) \ (fight.commanded \cup fight.spent)

\* resolvePlayerEndTurn()
EndTurn ==
    /\ fight.turn = Hero
    /\ fight' = [turn |-> "foe", spent |-> fight.spent \cup Idle,
                 commanded |-> fight.commanded \cup Active(status)]
    /\ acted' = [a \in Actors |-> IF a \in Idle THEN acted[a] + 1 ELSE acted[a]]
    /\ UNCHANGED <<status, until, party, stock, world, now>>

\* resolveAdvanceTurn(): back to the hero, resetControlledActorTurns()
NextTurn ==
    /\ fight.turn = "foe"
    /\ fight' = [turn |-> Hero, spent |-> fight.spent \ ({Hero} \cup Active(status)),
                 commanded |-> fight.commanded \ Active(status)]
    /\ acted' = [a \in Actors |-> 0]
    /\ UNCHANGED <<status, until, party, stock, world, now>>

\* The last foe falls or surrenders: budgets stay as they are
FightEnds ==
    /\ fight.turn # "none"
    /\ fight' = [fight EXCEPT !.turn = "none"]
    /\ UNCHANGED <<status, until, party, stock, world, now, acted>>

-----------------------------------------------------------------------------

Next ==
    \/ \E c \in Companions :
        Create(c) \/ Command(c) \/ Dismiss(c) \/ Slain(c)
        \/ \E w \in Scenes \cup {world} : Split(c, w)
    \/ Pass \/ Establish \/ Form \/ Rejoin \/ EndTurn \/ NextTurn \/ FightEnds
    \/ \E a \in Actors : SetViewpoint(a) \/ \E n \in 1..Units, toShared \in BOOLEAN : Transfer(a, n, toShared)
    \/ \E helpers \in SUBSET Companions : GroupCheck(helpers)
    \/ \E turn \in {Hero, "foe"} : Fight(turn)

Spec == Init /\ [][Next]_vars

-----------------------------------------------------------------------------
(* Properties                                                               *)

TypeOK ==
    /\ status \in [Companions -> {"none", "active", "dismissed", "dead", "expired"}]
    /\ party.members \subseteq Actors /\ party.mode \in {"together", "split"}
    /\ stock \in [Actors \cup {Shared} -> 0..Units]
    /\ fight.spent \subseteq Actors /\ fight.commanded \subseteq Companions

\* Between two turns of the hero nobody acts twice, whether commanded, helping
\* in a group check, or guarding for want of a command.
OneActionEach == \A a \in Actors : acted[a] <= 1

\* Units that change hands are neither lost nor made, also when the companion
\* who carries them is gone.
UnitsKept == MapThenSumSet(LAMBDA h : stock[h], Actors \cup {Shared}) = Units

\* Whoever is under control now, or was when the party formed, belongs to it,
\* and the player sees through the eyes of a member.
EveryoneCounted ==
    party.formed => Active(status) \cup {Hero, party.viewpoint} \subseteq party.members

\* A split party that is together again is in one scene: nobody is left behind,
\* not even a member who went away or died while the party was apart.
ReunionsAreWhole ==
    party.formed /\ party.mode = "split" /\ party'.mode = "together" =>
     \A a, b \in party'.members : party'.scene[a] = party'.scene[b]

=============================================================================
