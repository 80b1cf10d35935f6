------------------------------- MODULE Tactical -------------------------------
(***************************************************************************)
(* The tactical grid of an encounter (src/engine-domain.ts): walking, the    *)
(* opportunity attacks a walk provokes and the reaction that interrupts it,   *)
(* area spells, and zones whose effects lie on whoever stands in them.        *)
(*                                                                         *)
(* Distances are in cells of five feet. Attack rolls hit or miss at will and  *)
(* a hit costs one hit point; the rest of the turn is in BossEncounter. The    *)
(* route the engine finds itself is one a caller may supply, so Move takes     *)
(* any. Bounds, obstacles and the places of the foes do not change.           *)
(*                                                                         *)
(* An operator named X_Y is X with a deliberate fault: it is never part of   *)
(* the specification, and only shows that a property can fail.               *)
(***************************************************************************)
EXTENDS Integers, Sequences, FiniteSets

CONSTANTS
    Width, Height,      \* the cells are 0..Width-1 by 0..Height-1
    Walls,              \* cells of the obstacles
    Mud,                \* cells that cost two
    Foes,
    FoeAt, FoeSize,     \* foe -> cell, foe -> side of its footprint
    Melee,              \* foes with an attack of reach one
    Speed,              \* cells per turn
    Radius, Rounds,     \* of the reviewed zones
    Aims,               \* bound: cells that zones and areas are aimed at
    MaxHp, MaxRound     \* bounds: hit points, rounds of the encounter

VARIABLES
    at,          \* tactical.actorPosition
    spent,       \* turnBudget.movementFeet.spent
    acted,       \* turnBudget.action.spent
    shield,      \* an incoming-hit reaction is eligible
    pending,     \* pendingReaction: the attacker, or None
    hp,          \* of the hero
    dead,        \* lifecycleState = "dead"
    fighting,    \* combat.status = "active"
    mine,        \* it is the hero's turn
    round,
    alive,       \* foes alive
    reacted,     \* foes whose reaction is spent
    ally,        \* the controlled actor: its cell and whether it is active
    zones,       \* definition -> status, centre, first round, effects on whom
    walked       \* ghost: the last move: from, the foe that stopped it

hero == <<at, spent, acted, shield, pending, hp, dead>>
vars == <<at, spent, acted, shield, pending, hp, dead, fighting, mine, round, alive, reacted, ally, zones, walked>>

None == "none"
Cells == (0..Width - 1) \X (0..Height - 1)

-----------------------------------------------------------------------------
(* Geometry                                                                 *)

Abs(n) == IF n < 0 THEN -n ELSE n
Larger(a, b) == IF a > b THEN a ELSE b

\* fiveESimpleDistanceFeet()
Distance(p, q) == Larger(Abs(p[1] - q[1]), Abs(p[2] - q[2]))

\* positionCells()
Footprint(p, side) == {<<p[1] + i, p[2] + j>> : i, j \in 0..side - 1}

\* footprintDistanceFeet() to the hero, who takes one cell
Gap(p, f) == LET ds == {Distance(p, c) : c \in Footprint(FoeAt[f], FoeSize[f])}
             IN  CHOOSE d \in ds : \A x \in ds : d <= x

Reaches(f, p) == Gap(p, f) <= 1

\* positionFitsGeometry(): dead foes still take their cells.
Fits(p) == p \in Cells \ Walls /\ \A f \in Foes : p \notin Footprint(FoeAt[f], FoeSize[f])

\* diagonalCornerIssue()
CornerClear(p, q) == (p[1] # q[1] /\ p[2] # q[2]) => Fits(<<q[1], p[2]>>) /\ Fits(<<p[1], q[2]>>)

\* terrainCostFeet(): a step into mud costs two
Fare(path) == Len(path) + Cardinality({i \in DOMAIN path : path[i] \in Mud})

\* The next cells of a walk, as findTacticalPath() and validateProvidedTacticalPath()
\* agree on them.
Steps(p) == {q \in Cells : Distance(p, q) = 1 /\ Fits(q) /\ CornerClear(p, q)}

\* The walks from a cell that end elsewhere, by what is left of the speed.
Walks ==
    [p \in Cells |-> [left \in 0..Speed |->
        {w \in UNION {[1..n -> Cells] : n \in 1..left} :
            /\ \A i \in DOMAIN w : w[i] \in Steps(IF i = 1 THEN p ELSE w[i - 1])
            /\ Fare(w) <= left /\ w[Len(w)] # p}]]

\* Every move of the turn has the whole speed.
Routes_WholeSpeed(p) == Walks[p][Speed]

Routes(p) == Walks[p][Speed - spent]

\* segmentIntersectsObstacleInterior(), for a wall that takes one cell: the
\* corners of the wall lie on both sides of the segment, and their shadows on
\* the axes overlap.
Crosses(a, b, w) ==
    LET side(c) == (b[1] - a[1]) * (c[2] - a[2]) - (b[2] - a[2]) * (c[1] - a[1])
        corners == Footprint(w, 2)
        over(i) == Larger(a[i], b[i]) > w[i] /\ -Larger(-a[i], -b[i]) < w[i] + 1
    IN  /\ over(1) /\ over(2)
        /\ \E c \in corners : side(c) > 0
        /\ \E c \in corners : side(c) < 0

Corners(p, side) == {p, <<p[1] + side, p[2]>>, <<p[1], p[2] + side>>, <<p[1] + side, p[2] + side>>}

\* deriveTacticalCover() is "total": from the best corner of the foe all four
\* corners of the target are hidden.
Hidden ==
    [f \in Foes, p \in Cells |->
        \A a \in Corners(FoeAt[f], FoeSize[f]) : \A b \in Corners(p, 1) : \E w \in Walls : Crosses(a, b, w)]

TotalCover(f, p) == Hidden[f, p]

-----------------------------------------------------------------------------
(* resolveCombatMove()                                                      *)

\* The cell the hero is in before step i of the walk.
Before(path, i) == IF i = 1 THEN at ELSE path[i - 1]

\* The first step of the walk provokes nobody.
Leaves_AfterFirst(f, path) ==
    {i \in DOMAIN path \ {1} : Reaches(f, Before(path, i)) /\ ~Reaches(f, path[i])}

\* movementTriggers() of kind "leaving-reach"
Leaves(f, path) == {i \in DOMAIN path : Reaches(f, Before(path, i)) /\ ~Reaches(f, path[i])}

\* The steps at which the foe can answer: it lives, it has a melee attack and
\* its reaction, and it sees the hero.
Answers(f, path) ==
    IF f \in alive /\ f \in Melee /\ f \notin reacted
    THEN {i \in Leaves(f, path) : ~TotalCover(f, Before(path, i))} ELSE {}

First(s) == CHOOSE i \in s : \A j \in s : i <= j

\* Foes are asked in the order of the encounter.
Order == CHOOSE o \in [Foes -> 1..Cardinality(Foes)] : \A f, g \in Foes : f # g => o[f] # o[g]

Sooner(f, g, path) ==
    LET i == First(Answers(f, path)) j == First(Answers(g, path))
    IN  i < j \/ (i = j /\ Order[f] <= Order[g])

\* The walk takes the step that was interrupted.
Walked_IntoBoundary(path, i) == SubSeq(path, 1, i)

\* An interrupted walk ends before the step that provoked.
Walked(path, i) == SubSeq(path, 1, i - 1)

Stopped(path, hits) ==
    LET asked == {f \in Foes : Answers(f, path) # {}}
        wounds(f) == Cardinality({g \in hits : Sooner(g, f, path)})
        ends == {f \in hits : shield \/ wounds(f) = hp}
        stop == CHOOSE f \in ends : \A g \in ends : Sooner(f, g, path)
        done == IF ends = {} THEN path ELSE Walked(path, First(Answers(stop, path)))
    IN  /\ hits \subseteq asked
        /\ reacted' = reacted \cup {f \in asked : ends = {} \/ Sooner(f, stop, path)}
        /\ pending' = IF ends # {} /\ shield THEN stop ELSE None
        /\ hp' = IF shield THEN hp ELSE hp - (IF ends = {} THEN Cardinality(hits) ELSE wounds(stop))
        /\ at' = IF done = <<>> THEN at ELSE done[Len(done)]
        /\ spent' = spent + Fare(done)
        /\ walked' = [from |-> at, by |-> IF ends = {} THEN None ELSE stop]

-----------------------------------------------------------------------------
(* Zones                                                                    *)

Kinds == {"hindering circle", "guiding aura"}
NoZone == [status |-> None, centre |-> <<0, 0>>, since |-> 0, effects |-> {}]

\* tacticalActorIdsInCells() of deriveTacticalCircleCells(), once the command is done
Inside(centre) ==
    (IF ~dead' /\ Distance(centre, at') <= Radius THEN {"hero"} ELSE {})
    \cup {f \in alive' : \E c \in Footprint(FoeAt[f], FoeSize[f]) \cap Cells : Distance(centre, c) <= Radius}
    \cup (IF ally'.active /\ Distance(centre, ally'.at) <= Radius THEN {"ally"} ELSE {})

\* reconcileTacticalZones() of a zone that lasts
Followed(k, z) ==
    LET centre == IF k = "guiding aura" THEN at' ELSE z.centre
    IN  [z EXCEPT !.centre = centre, !.effects = Inside(centre)]

\* An expired zone is only noticed a round later.
Over_Late(z) == dead' \/ ~fighting' \/ round' > z.since + Rounds

\* The zone has ended: source dead, encounter ended or expired.
Over(z) == dead' \/ ~fighting' \/ round' >= z.since + Rounds

\* reconcileZonesInResolution(), after every accepted command
Reconciled(before) ==
    zones' = [k \in Kinds |->
        IF before[k].status # "active" THEN before[k]
        ELSE IF Over(before[k]) THEN [NoZone EXCEPT !.status = "over"]
        ELSE Followed(k, before[k])]

\* What the integrity checks ask of a zone. They guard every command, but the
\* model states them as the invariant NeverRefused instead.

\* tacticalZoneStateIssue()
Sound(z) ==
    /\ z.status = "active" => fighting /\ ~dead /\ z.since <= round /\ z.centre \in Cells
    /\ z.status # "active" => z.effects = {}

\* tacticalZoneEffectStateIssue()
EffectsMatch(k, z) ==
    z.status = "active" =>
        /\ round < z.since + Rounds
        /\ k = "guiding aura" => z.centre = at
        /\ "hero" \in z.effects <=> Distance(z.centre, at) <= Radius
        /\ "ally" \in z.effects <=> ally.active /\ Distance(z.centre, ally.at) <= Radius
        /\ \A f \in Foes : f \in z.effects <=>
              f \in alive /\ \E c \in Footprint(FoeAt[f], FoeSize[f]) : Distance(z.centre, c) <= Radius

\* normalizeTacticalZones()
Loads(z) ==
    z.status = "active" => ~dead /\ fighting /\ z.since <= round /\ round < z.since + Rounds

-----------------------------------------------------------------------------
Ready == fighting /\ mine /\ pending = None /\ hp > 0

Init ==
    /\ at \in {c \in Cells : Fits(c)}
    /\ spent = 0 /\ acted = FALSE /\ shield \in BOOLEAN /\ pending = None
    /\ hp = MaxHp /\ dead = FALSE
    /\ fighting = TRUE /\ mine = TRUE /\ round = 1
    /\ alive = Foes /\ reacted = {}
    /\ ally \in {[at |-> at, active |-> TRUE], [at |-> at, active |-> FALSE]}
    /\ zones = [k \in Kinds |-> NoZone]
    /\ walked = [from |-> at, by |-> None]

Move(path, hits) ==
    /\ Ready
    /\ Stopped(path, hits)
    /\ UNCHANGED <<acted, shield, dead, fighting, mine, round, alive, ally>>
    /\ Reconciled(zones)

\* resolveReactionResponse(): the hero takes the damage, or the reaction is spent
\* on a shield, which the attack may still get through.
Answer(shielded, hits) ==
    /\ pending # None
    /\ shielded \/ hits
    /\ pending' = None
    /\ shield' = IF shielded THEN FALSE ELSE shield
    /\ hp' = IF hits THEN hp - 1 ELSE hp
    /\ UNCHANGED <<at, spent, acted, dead, fighting, mine, round, alive, reacted, ally, walked>>
    /\ Reconciled(zones)

\* resolveTacticalZoneCreate(): one active zone of each definition
ZoneCreate(k, centre) ==
    /\ Ready /\ ~acted
    /\ zones[k].status # "active"
    /\ acted' = TRUE
    /\ UNCHANGED <<at, spent, shield, pending, hp, dead, fighting, mine, round, alive, reacted, ally, walked>>
    /\ Reconciled([zones EXCEPT ![k] = [status |-> "active", centre |-> centre, since |-> round, effects |-> {}]])

\* deriveTacticalAreaSnapshot(): a sphere about the aim, or a line or a cone in
\* one of eight directions from the hero
Area(shape, aim) ==
    LET x == aim[1] - at[1]
        y == aim[2] - at[2]
        sign(n) == IF n > 0 THEN 1 ELSE IF n < 0 THEN -1 ELSE 0
        forward(c) == (c[1] - at[1]) * sign(x) + (c[2] - at[2]) * sign(y)
        lateral(c) == Abs((c[1] - at[1]) * sign(y) - (c[2] - at[2]) * sign(x))
    IN  IF shape = "sphere" THEN {c \in Cells : Distance(aim, c) <= 1}
        ELSE IF aim = at \/ ~(x = 0 \/ y = 0 \/ Abs(x) = Abs(y)) THEN {}
        ELSE {c \in Cells : /\ forward(c) > 0 /\ Distance(at, c) <= 2
                            /\ IF shape = "line" THEN lateral(c) = 0 ELSE 2 * lateral(c) <= forward(c) + 1}

\* A spell with an area: whoever is hit may fall, and the last foe ends the fight.
CastArea(shape, aim, fallen) ==
    /\ Ready /\ ~acted
    /\ Area(shape, aim) # {}
    /\ fallen \subseteq {f \in alive : Footprint(FoeAt[f], FoeSize[f]) \cap Area(shape, aim) # {}}
    /\ acted' = TRUE
    /\ alive' = alive \ fallen
    /\ fighting' = (alive' # {})
    /\ hp' = IF at \in Area(shape, aim) THEN hp - 1 ELSE hp
    /\ UNCHANGED <<at, spent, shield, pending, dead, mine, round, reacted, ally, walked>>
    /\ Reconciled(zones)

\* resolveControlledActorCommand() "follow": the ally comes to the hero's cell.
AllyFollows ==
    /\ Ready /\ ally.active
    /\ ally' = [ally EXCEPT !.at = at]
    /\ UNCHANGED <<at, spent, acted, shield, pending, hp, dead, fighting, mine, round, alive, reacted, walked>>
    /\ Reconciled(zones)

EndTurn ==
    /\ fighting /\ mine /\ pending = None
    /\ mine' = FALSE
    /\ UNCHANGED <<at, spent, acted, shield, pending, hp, dead, fighting, round, alive, reacted, ally, walked>>
    /\ Reconciled(zones)

\* The foes' turns: the hero, or the ally, may be struck down, and a hero who
\* lies at zero may die. Then the hero's turn begins with a fresh budget.
FoesTurn(wound, down) ==
    /\ fighting /\ ~mine
    /\ round < MaxRound
    /\ hp' = IF wound /\ hp > 0 THEN hp - 1 ELSE hp
    /\ dead' = (wound /\ hp = 0)
    /\ ally' = [ally EXCEPT !.active = @ /\ ~down]
    /\ fighting' = ~dead'
    /\ mine' = TRUE /\ round' = round + 1
    /\ spent' = 0 /\ acted' = FALSE /\ reacted' = {}
    /\ UNCHANGED <<at, shield, pending, alive, walked>>
    /\ Reconciled(zones)

Next ==
    \/ \E path \in Routes(at) : \E hits \in SUBSET Foes : Move(path, hits)
    \/ \E shielded, hits \in BOOLEAN : Answer(shielded, hits)
    \/ \E c \in Aims : ZoneCreate("hindering circle", c)
    \/ ZoneCreate("guiding aura", at)
    \/ \E s \in {"sphere", "line", "cone"}, c \in Aims, fallen \in SUBSET Foes : CastArea(s, c, fallen)
    \/ AllyFollows \/ EndTurn
    \/ \E w, d \in BOOLEAN : FoesTurn(w, d)

Spec == Init /\ [][Next]_vars

-----------------------------------------------------------------------------
\* The walk that stops for a reaction is charged for the cells it covered.
TypeOK ==
    /\ Fits(at)
    /\ spent \in 0..Speed
    /\ hp \in 0..MaxHp
    /\ pending \in Foes \cup {None}
    /\ reacted \subseteq Foes /\ alive \subseteq Foes
    /\ \A k \in Kinds : zones[k].status \in {None, "active", "over"}

\* The checks before and after every command, and those of a load, never find
\* fault with what the commands themselves made of the zones: a campaign is
\* never left in a state in which every later command is refused.
NeverRefused == \A k \in Kinds : Sound(zones[k]) /\ EffectsMatch(k, zones[k]) /\ Loads(zones[k])

\* A foe that interrupts a walk, with a hit that fells or that waits for the
\* hero's reaction, still reaches the hero where the walk stopped.
InterruptedInReach == walked.by # None => Reaches(walked.by, at)

\* Nobody walks out of the reach of a living foe that sees every cell about
\* it without the foe's reaction being spent, by whatever route.
NoEscape ==
    \A f \in Melee \cap alive :
       /\ f \notin reacted /\ Reaches(f, at) /\ ~Reaches(f, at')
       /\ \A c \in Cells : Fits(c) /\ Reaches(f, c) => ~TotalCover(f, c)
       => f \in reacted'
=============================================================================
