----------------------------- MODULE Possessions ------------------------------
(***************************************************************************)
(* What the hero owns (src/engine-domain.ts): the inventory with its bags   *)
(* and equipment, the shared container of the party, a merchant's stock and *)
(* the stolen pieces it keeps, and the objects of the scene that may be     *)
(* carried. A command runs alone on the stored state, and every load of     *)
(* that state first reconciles carried objects with the inventory.          *)
(*                                                                         *)
(* Every unit weighs one. Hit points, money and prices are left out: a      *)
(* purchase may be affordable or not, a potion needed or not.               *)
(*                                                                         *)
(* An operator named X_Y is X with a deliberate fault: it is never part of  *)
(* the specification, and only shows that a property can fail.              *)
(***************************************************************************)
EXTENDS Naturals, Sequences, FiniteSetsExt, SequencesExt

CONSTANTS
    Kits,          \* the possible starts: units by item, the objects in the
                   \* scene, the merchant's stock, and whether there is loot
    Ids,           \* the ids of items; carried objects share theirs
    Containers, Potions, Wards, TwoHanded,
    SlotsOf,       \* the slots an item may be worn in; {} for no equipment
    SplitOf,       \* the id a split stack gets (randomUUID), by the item split
    Reward,        \* the item that the defeated encounter leaves
    Listed,        \* what the merchant trades in
    Objects,       \* the ids of the scene's objects, and by affordance:
    Portable, Ropes, Arms, Breakable, Flammable, Openable, Levers,
    CarryLimit, BagLimit,
    MaxUnits       \* bound: units of one item

VARIABLES
    inv,       \* character.inventory: for each id its entries, in order
    shared,    \* party.shared.container.inventory
    party,     \* there is a party
    stock,     \* worldContext.merchants: listing.stock
    acquired,  \* merchant.acquiredItems: units of the stolen stack it keeps
    fence,     \* merchant.stolenGoodsPolicy = "fence"
    charge,    \* the charges left in each ward
    shining,   \* the wards whose runtime effect is active
    objects,   \* worldContext.objects: who owns each and its state
    life,      \* "alive", or "dead" with everything in the remains
    remains,   \* corpse.inventory
    looted,    \* combat.lootClaimed
    spent,     \* ghost: units drunk, dropped or destroyed
    tampered   \* ghost: shared storage has torn a bag or doubled an entry

vars == <<inv, shared, party, stock, acquired, fence, charge, shining, objects,
          life, remains, looted, spent, tampered>>

None == "none"
Piece(n, hot) == [n |-> n, worn |-> None, within |-> None, hot |-> hot]
Units(pile, i) == MapThenSumSet(LAMBDA k : pile[i][k].n, DOMAIN pile[i])
Owned(pile) == {i \in Ids : pile[i] # <<>>}
Worn(pile, s) == {i \in Ids : \E k \in DOMAIN pile[i] : pile[i][k].worn = s}
WornAtAll(pile) == {i \in Ids : \E k \in DOMAIN pile[i] : pile[i][k].worn # None}
Children(pile, c) == {i \in Owned(pile) : \E k \in DOMAIN pile[i] : pile[i][k].within = c}

\* isDescendantOf(): c is among the containers around i.
Inside(pile, i, c) ==
    LET up[k \in 0..Cardinality(Containers) + 1] ==
            IF k = 0 THEN i
            ELSE IF up[k - 1] = None \/ (up[k - 1] # None /\ pile[up[k - 1]] = <<>>) THEN None
            ELSE pile[up[k - 1]][1].within
    IN  \E k \in 1..Cardinality(Containers) + 1 : up[k] = c

\* inventoryTopologyIssue() finds nothing.
Whole(pile) ==
    /\ \A i \in Ids : Len(pile[i]) <= 1
    /\ \A i \in Owned(pile) :
        LET e == pile[i][1]
        IN  e.within # None =>
                /\ e.worn = None
                /\ e.within \in Containers
                /\ pile[e.within] # <<>>
                /\ ~Inside(pile, i, i)

\* inventoryCapacityIssue() finds nothing.
Fits(pile) ==
    /\ Whole(pile)
    /\ MapThenSumSet(LAMBDA i : Units(pile, i), Ids) <= CarryLimit
    /\ \A c \in Containers :
        MapThenSumSet(LAMBDA i : Units(pile, i), {i \in Ids \ {c} : Inside(pile, i, c)}) <= BagLimit

\* addInventory(): units join the first entry of their id that is not worn.
Put(pile, i, e) ==
    LET loose == {k \in DOMAIN pile[i] : pile[i][k].worn = None}
    IN  IF loose = {} THEN [pile EXCEPT ![i] = Append(@, e)]
        ELSE [pile EXCEPT ![i][Min(loose)].n = @ + e.n]

Less(pile, i, n) ==
    LET q == pile[i]
    IN  [pile EXCEPT ![i] = IF q[1].n = n THEN Tail(q) ELSE [q EXCEPT ![1].n = @ - n]]

\* A sale or a use takes the units from the first entry of the id too, and with
\* its last unit filters out every entry of that id.
Used(pile, i, n) ==
    LET q == pile[i]
    IN  [pile EXCEPT ![i] = IF q[1].n = n THEN <<>> ELSE [q EXCEPT ![1].n = @ - n]]

\* reconcileWorldObjectInventory(), on every load: an object that the hero
\* carries is in the inventory again.
Loaded(pile, objs) ==
    [i \in Ids |->
        IF i \in Objects /\ pile[i] = <<>> /\ objs[i].mine /\ objs[i].state \in {"carried", "equipped"}
        THEN <<Piece(1, FALSE)>> ELSE pile[i]]

InitPile(kit) == [i \in Ids |-> IF kit[i] > 0 THEN <<Piece(kit[i], FALSE)>> ELSE <<>>]
Nothing == [i \in Ids |-> <<>>]

Init ==
    /\ \E kit \in Kits :
        /\ inv = InitPile(kit.units)
        /\ objects = [o \in Objects |->
               [mine |-> FALSE,
                state |-> IF o \notin kit.scene THEN "destroyed" ELSE IF o \in Openable THEN "closed" ELSE "intact"]]
        /\ stock = [i \in Listed |-> kit.stock]
        /\ looted = ~kit.loot
    /\ shared = Nothing
    /\ party = FALSE
    /\ acquired = [i \in Listed |-> 0]
    /\ fence \in BOOLEAN
    /\ charge = [w \in Wards |-> 1]
    /\ shining = {}
    /\ life = "alive"
    /\ remains = Nothing
    /\ spent = [i \in Ids |-> 0]
    /\ tampered = FALSE

\* commit(), then the next load.
CommitWith(pile, objs) == inv' = Loaded(pile, objs)
Commit(pile) == CommitWith(pile, objects)
Gone(i, n) == spent' = [spent EXCEPT ![i] = @ + n]

-----------------------------------------------------------------------------
(* The merchant                                                             *)

\* There is stock, no instance of the id is in the inventory, and a preserved
\* stack is bought whole. A listing of unlimited stock (-1) is one of more
\* units than the bound lets anyone buy: it never runs out.
Purchasable(i, n) ==
    /\ stock[i] >= n
    /\ inv[i] = <<>>
    /\ acquired[i] \in {0, n}

\* resolveMerchantTrade(), buying.
Buy(i, n) ==
    /\ Purchasable(i, n)
    /\ LET pile == Put(inv, i, Piece(n, acquired[i] > 0))
       IN  Fits(pile) /\ Commit(pile)
    /\ stock' = [stock EXCEPT ![i] = @ - n]
    /\ acquired' = [acquired EXCEPT ![i] = 0]
    /\ UNCHANGED <<shared, party, fence, charge, shining, objects, life, remains, looted, spent, tampered>>

\* Nothing worn, no filled container, and a stolen stack only whole and to a
\* fence that does not hold the same instance.
Sellable(i, n) ==
    /\ inv[i] # <<>>
    /\ LET e == inv[i][1]
       IN  /\ e.n >= n
           /\ e.worn = None
           /\ i \in Containers => Children(inv, i) = {}
           /\ e.hot => e.n = n /\ fence /\ acquired[i] = 0

\* resolveMerchantTrade(), selling.
Sell(i, n) ==
    /\ Sellable(i, n)
    /\ stock[i] + n <= MaxUnits
    /\ Commit(Used(inv, i, n))
    /\ stock' = [stock EXCEPT ![i] = @ + n]
    /\ acquired' = [acquired EXCEPT ![i] = IF inv[i][1].hot THEN n ELSE @]
    /\ UNCHANGED <<shared, party, fence, charge, shining, objects, life, remains, looted, spent, tampered>>

\* resolveSocialAction("theft"): only the last unit of a listing.
Steal(i) ==
    /\ stock[i] = 1
    /\ inv[i] = <<>>
    /\ LET pile == Put(inv, i, Piece(1, TRUE))
       IN  Fits(pile) /\ Commit(pile)
    /\ stock' = [stock EXCEPT ![i] = 0]
    /\ UNCHANGED <<shared, party, acquired, fence, charge, shining, objects, life, remains, looted, spent, tampered>>

-----------------------------------------------------------------------------
(* The inventory                                                            *)

MayMove(i, c) ==
    /\ inv[i][1].worn = None
    /\ inv[i][1].within # c
    /\ c # None =>
        /\ inv[c] # <<>>
        /\ inv[c][1].worn = None
        /\ c # i
        /\ ~Inside(inv, c, i)

\* The stack or the part of it that moves; a part gets an id of its own.
Moved(i, n, c) ==
    IF n = inv[i][1].n THEN [inv EXCEPT ![i][1].within = c]
    ELSE Put(Less(inv, i, n), SplitOf[i], [inv[i][1] EXCEPT !.n = n, !.within = c])

\* resolveInventoryTransfer()
InventoryTransfer(i, n, c) ==
    /\ inv[i] # <<>>
    /\ n <= inv[i][1].n
    /\ MayMove(i, c)
    /\ n < inv[i][1].n =>
        /\ i \in DOMAIN SplitOf /\ inv[SplitOf[i]] = <<>> /\ shared[SplitOf[i]] = <<>>
        /\ i \in Containers => Children(inv, i) = {}
    /\ Fits(Moved(i, n, c))
    /\ Commit(Moved(i, n, c))
    /\ UNCHANGED <<shared, party, stock, acquired, fence, charge, shining, objects, life, remains, looted, spent, tampered>>

\* A two-handed weapon leaves room for the other hand.
HandsFree_MainOnly(i, s) == TRUE

\* equipmentConflict() finds nothing.
HandsFree(i, s) ==
    /\ s = "mainhand" /\ i \in TwoHanded => Worn(inv, "offhand") \subseteq {i}
    /\ s = "offhand" => Worn(inv, "mainhand") \cap TwoHanded \subseteq {i}

\* What the new item displaces keeps its effect.
Undisplaced_Kept(i, s) == shining

\* removeRuntimeSource() for what the slot held.
Undisplaced(i, s) == shining \ (Worn(inv, s) \ {i})

\* resolveEquipItem()
EquipItem(i, s) ==
    /\ inv[i] # <<>>
    /\ inv[i][1].within = None
    /\ s \in SlotsOf[i]
    /\ i \in Wards => charge[i] > 0
    /\ HandsFree(i, s)
    /\ Commit([j \in Ids |->
           [k \in DOMAIN inv[j] |->
               IF j = i /\ k = 1 THEN [inv[j][k] EXCEPT !.worn = s]
               ELSE IF inv[j][k].worn = s THEN [inv[j][k] EXCEPT !.worn = None]
               ELSE inv[j][k]]])
    /\ shining' = Undisplaced(i, s) \cup ({i} \cap Wards)
    /\ UNCHANGED <<shared, party, stock, acquired, fence, charge, objects, life, remains, looted, spent, tampered>>

\* resolveUnequipItem()
UnequipItem(i) ==
    /\ inv[i] # <<>>
    /\ inv[i][1].worn # None
    /\ Commit([inv EXCEPT ![i][1].worn = None])
    /\ shining' = shining \ {i}
    /\ UNCHANGED <<shared, party, stock, acquired, fence, charge, objects, life, remains, looted, spent, tampered>>

\* A filled container may be dropped.
Droppable_Filled(i, n) == inv[i] # <<>> /\ inv[i][1].n >= n /\ (inv[i][1].worn # None => n < inv[i][1].n)

Droppable(i, n) ==
    /\ inv[i] # <<>>
    /\ inv[i][1].n >= n
    /\ inv[i][1].worn # None => n < inv[i][1].n
    /\ i \in Containers => Children(inv, i) = {}

\* resolveDropItem(): the units are gone; an object of the scene stays the
\* hero's, and the next load brings it back.
DropItem(i, n) ==
    /\ Droppable(i, n)
    /\ spent[i] + n <= MaxUnits
    /\ Commit(Less(inv, i, n))
    /\ Gone(i, n)
    /\ UNCHANGED <<shared, party, stock, acquired, fence, charge, shining, objects, life, remains, looted, tampered>>

\* resolveUseItem(), a potion.
Drink(i) ==
    /\ i \in Potions
    /\ inv[i] # <<>>
    /\ Commit(Used(inv, i, 1))
    /\ Gone(i, 1)
    /\ UNCHANGED <<shared, party, stock, acquired, fence, charge, shining, objects, life, remains, looted, tampered>>

AfterCharge(w) == IF charge[w] = 1 THEN shining \ {w} ELSE shining

\* resolveUseItem(), the ward.
SpendCharge(w) ==
    /\ w \in Wards
    /\ inv[w] # <<>>
    /\ inv[w][1].worn # None
    /\ charge[w] > 0
    /\ charge' = [charge EXCEPT ![w] = @ - 1]
    /\ shining' = AfterCharge(w)
    /\ UNCHANGED <<inv, shared, party, stock, acquired, fence, objects, life, remains, looted, spent, tampered>>

\* The area may be searched again.
Searchable_Again == inv[Reward] = <<>>

Searchable == ~looted /\ inv[Reward] = <<>>

\* resolveLoot(), once in an encounter.
Loot ==
    /\ Searchable
    /\ LET pile == Put(inv, Reward, Piece(1, FALSE))
       IN  Fits(pile) /\ Commit(pile)
    /\ looted' = TRUE
    /\ UNCHANGED <<shared, party, stock, acquired, fence, charge, shining, objects, life, remains, spent, tampered>>

-----------------------------------------------------------------------------
(* The party's container                                                    *)

\* resolvePartyCreate()
PartyCreate ==
    /\ ~party
    /\ party' = TRUE
    /\ UNCHANGED <<inv, shared, stock, acquired, fence, charge, shining, objects, life, remains, looted, spent, tampered>>

\* The source keeps what has moved.
Left_Kept(pile, i, n) == pile

Left(pile, i, n) == Less(pile, i, n)

\* resolvePartySharedTransfer(), to the container: what the item holds is
\* not looked at.
ToShared(i, n) ==
    /\ party
    /\ inv[i] # <<>>
    /\ inv[i][1].n >= n
    /\ inv[i][1].worn = None
    /\ Units(shared, i) + n <= MaxUnits
    /\ Commit(Left(inv, i, n))
    /\ shared' = Put(shared, i, Piece(n, inv[i][1].hot))
    /\ tampered' = (tampered \/ Children(inv, i) # {})
    /\ UNCHANGED <<party, stock, acquired, fence, charge, shining, objects, life, remains, looted, spent>>

\* The same, from the container: neither the load nor a worn namesake is
\* looked at.
FromShared(i, n) ==
    /\ party
    /\ shared[i] # <<>>
    /\ shared[i][1].n >= n
    /\ Commit(Put(inv, i, Piece(n, shared[i][1].hot)))
    /\ shared' = Left(shared, i, n)
    /\ tampered' = (tampered \/ i \in WornAtAll(inv))
    /\ UNCHANGED <<party, stock, acquired, fence, charge, shining, objects, life, remains, looted, spent>>

-----------------------------------------------------------------------------
(* Objects of the scene: resolveWorldObjectAffordance()                     *)

\* syncWorldObjectInventory() when the hero owns the object, and its removal
\* when it was dropped or destroyed.
Synced(o, new) ==
    IF new.state = "destroyed" \/ (objects[o].mine /\ ~new.mine /\ new.state = "intact") THEN [inv EXCEPT ![o] = <<>>]
    ELSE IF ~new.mine THEN inv
    ELSE IF inv[o] = <<>> THEN [inv EXCEPT ![o] = <<Piece(1, FALSE)>>]
    ELSE [inv EXCEPT ![o][1].within = None, ![o][1].worn = IF new.state = "equipped" THEN "loose" ELSE None]

Change(o, new) ==
    /\ objects[o].state # "destroyed"
    /\ objects' = [objects EXCEPT ![o] = new]
    /\ new.mine /\ new.state # "destroyed" => Fits(Synced(o, new))
    /\ CommitWith(Synced(o, new), [objects EXCEPT ![o] = new])
    /\ spent' = IF new.state = "destroyed" /\ inv[o] # <<>> THEN [spent EXCEPT ![o] = 1] ELSE spent
    /\ UNCHANGED <<shared, party, stock, acquired, fence, charge, shining, life, remains, looted, tampered>>

Becomes(o, s) == Change(o, [objects[o] EXCEPT !.state = s])

Operate(o) ==
    /\ o \in Openable
    /\ \/ objects[o].state \in {"closed", "unlocked"} /\ \E s \in {"open", "locked"} : Becomes(o, s)
       \/ objects[o].state = "open" /\ Becomes(o, "closed")
       \/ objects[o].state = "locked" /\ Becomes(o, "unlocked")

\* carry, take and steal.
TakeObject(o) ==
    /\ o \in Portable
    /\ Change(o, [mine |-> TRUE, state |-> "carried"])

\* The hero lays the object down.
DropObject(o) ==
    /\ objects[o].mine
    /\ Change(o, [mine |-> FALSE, state |-> "intact"])

EquipObject(o) ==
    /\ objects[o].mine
    /\ o \in Arms
    /\ Becomes(o, "equipped")

Ignite(o) == o \in Flammable /\ objects[o].state # "lit" /\ Becomes(o, "lit")
Extinguish(o) == objects[o].state = "lit" /\ Becomes(o, "unlit")
Break(o) == o \in Breakable /\ Becomes(o, "destroyed")
Damage(o) == o \in Breakable /\ Becomes(o, IF objects[o].state = "damaged" THEN "destroyed" ELSE "damaged")

\* attach: the rope goes to the owner of what it is tied to; the inventory is
\* not looked at unless the hero owns that object.
Attach(o, rope) ==
    /\ rope \in Ropes /\ rope # o
    /\ objects[o].state # "destroyed" /\ objects[rope].state # "destroyed"
    /\ LET new == [mine |-> objects[o].mine, state |-> "attached"]
           pile == Synced(o, new)
       IN  /\ objects' = [objects EXCEPT ![o] = new, ![rope] = new]
           /\ new.mine => Fits(pile)
           /\ CommitWith(pile, [objects EXCEPT ![o] = new, ![rope] = new])
    /\ UNCHANGED <<shared, party, stock, acquired, fence, charge, shining, life, remains, looted, spent, tampered>>

\* activate: a lever sets what it opens, whoever holds that.
Activate(o) ==
    /\ o \in Levers
    /\ objects[o].state \notin {"active", "destroyed"}
    /\ \A t \in Openable : objects[t].state # "destroyed"
    /\ LET opened == [t \in Objects |->
               IF t = o THEN [objects[t] EXCEPT !.state = "active"]
               ELSE IF t \in Openable THEN [objects[t] EXCEPT !.state = "open"] ELSE objects[t]]
       IN  objects' = opened /\ CommitWith(inv, opened)
    /\ UNCHANGED <<shared, party, stock, acquired, fence, charge, shining, life, remains, looted, spent, tampered>>

-----------------------------------------------------------------------------

\* transitionActorToDead() removes the effect of every item.
AtDeath == shining \ Owned(inv)

\* transitionActorToDead(): all that the hero holds is in the remains, and
\* transferWorldObjectsToRemains() gives its objects to the scene.
Die ==
    /\ life' = "dead"
    /\ remains' = [i \in Ids |-> [k \in DOMAIN inv[i] |-> [inv[i][k] EXCEPT !.worn = None]]]
    /\ inv' = Nothing
    /\ shining' = AtDeath
    /\ objects' = [o \in Objects |-> IF inv[o] = <<>> THEN objects[o] ELSE [mine |-> FALSE, state |-> "hidden"]]
    /\ UNCHANGED <<shared, party, stock, acquired, fence, charge, looted, spent, tampered>>

Trade == \E i \in Listed : Steal(i) \/ \E n \in 1..MaxUnits : Buy(i, n) \/ Sell(i, n)
Arrange ==
    \/ \E i \in Ids, n \in 1..MaxUnits, c \in Containers \cup {None} : InventoryTransfer(i, n, c)
    \/ \E i \in Ids : UnequipItem(i) \/ Drink(i) \/ \E s \in SlotsOf[i] : EquipItem(i, s)
    \/ \E i \in Ids, n \in 1..MaxUnits : DropItem(i, n)
    \/ \E w \in Wards : SpendCharge(w)
    \/ Loot
Share == PartyCreate \/ \E i \in Ids, n \in 1..MaxUnits : ToShared(i, n) \/ FromShared(i, n)
Interact ==
    \/ \E o \in Objects : Operate(o) \/ TakeObject(o) \/ DropObject(o) \/ EquipObject(o)
                          \/ Ignite(o) \/ Extinguish(o) \/ Break(o) \/ Damage(o) \/ Activate(o)
    \/ \E o \in Objects, rope \in Ropes : Attach(o, rope)

\* resolveEngineCommandCore(): a dead hero acts no more.
Next == life = "alive" /\ (Trade \/ Arrange \/ Share \/ Interact \/ Die)

Spec == Init /\ [][Next]_vars

-----------------------------------------------------------------------------

TypeOK ==
    /\ \A i \in Ids, pile \in {inv, shared, remains} :
        \A k \in DOMAIN pile[i] :
            /\ pile[i][k].n \in 1..2 * MaxUnits
            /\ pile[i][k].within \in Containers \cup {None}
    /\ stock \in [Listed -> 0..MaxUnits] /\ acquired \in [Listed -> 0..MaxUnits]
    /\ charge \in [Wards -> 0..1]
    /\ shining \subseteq Wards
    /\ spent \in [Ids -> 0..MaxUnits + 1]
    /\ life \in {"alive", "dead"}

\* The units of an item and of the stack split from it, wherever they are.
Family(i) == {i} \cup (IF i \in DOMAIN SplitOf THEN {SplitOf[i]} ELSE {})
Counted(i) ==
    MapThenSumSet(LAMBDA j : Units(inv, j) + Units(shared, j) + Units(remains, j) + spent[j]
                             + (IF j \in Listed THEN stock[j] ELSE 0)
                             + (IF j = Reward /\ ~looted THEN 1 ELSE 0), Family(i))

\* The step takes every entry of a doubled id, and counts only the first.
Swept(i, j) ==
    /\ j \in Listed \cup Potions
    /\ Len(inv[j]) > 1
    /\ inv'[j] = <<>>
    /\ Counted(i)' = Counted(i) - (Units(inv, j) - inv[j][1].n)

Conserving(i) == Counted(i)' = Counted(i) \/ \E j \in Family(i) : Swept(i, j)

\* No command makes a unit of an item that is not an object of the scene, and
\* trade, theft, splitting, sharing, loot, use and death lose none but those in
\* the second entry of an id that shared storage had doubled: the sale or the
\* use of the last unit of the first entry takes them along.
UnitsConserved == \A i \in Ids \ (Objects \cup Range(SplitOf)) : Conserving(i)

\* docs/ADR-H32-inventory-instance-ownership.md:16: "`EngineInventoryItem.id`
\* remains the campaign-local instance/stack identity", which the engine itself
\* asks of an inventory (inventoryTopologyIssue(): duplicate_item_instance). A
\* unit taken back from shared storage while its namesake is worn becomes a
\* second entry of the same id.
IdsAreInstances == \A i \in Ids : Len(inv[i]) <= 1

\* A ward protects exactly while it is worn with a charge left, through
\* displacement, unequipping, the last charge and the hero's death.
WardShinesWhileWorn == shining = {w \in WornAtAll(inv) \cap Wards : charge[w] > 0}

\* No slot holds two items, and a two-handed weapon leaves the offhand empty.
OneItemPerSlot ==
    /\ \A s \in UNION {SlotsOf[i] : i \in Ids} : Cardinality(Worn(inv, s)) <= 1
    /\ Worn(inv, "mainhand") \cap TwoHanded # {} => Worn(inv, "offhand") = {}

\* Bags hold their contents: no item is in a missing bag, in itself or in a
\* bag it contains, unless the shared container has torn the inventory.
BagsWhole == Whole(inv) \/ tampered

\* An item instance is in one place: in the inventory, in the shared
\* container, kept by the merchant, or lying in the scene.
OneLocation ==
    \A i \in Ids :
        Cardinality({p \in {"inv", "shared", "merchant", "scene"} :
            \/ p = "inv" /\ inv[i] # <<>>
            \/ p = "shared" /\ shared[i] # <<>> /\ i \in Objects
            \/ p = "merchant" /\ i \in Listed /\ acquired[i] > 0
            \/ p = "scene" /\ i \in Objects /\ ~objects[i].mine /\ life = "alive"}) <= 1
=============================================================================
