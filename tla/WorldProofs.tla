----------------------------- MODULE WorldProofs -----------------------------
(*****************************************************************************)
(* Proofs about the world: its places, items and scenes, and its fights.     *)
(*                                                                           *)
(* Of the canonical places the proof needs that there is an order in which   *)
(* they came to be, that every way leads back in it, and that the hero went  *)
(* along it (LocationsInv). Of the items made in play it needs that what     *)
(* stands in the scene has a definition of its own (ItemsInv), and of the    *)
(* scene's objects only their type (SceneInv).                               *)
(*                                                                           *)
(* Of the map it needs that zones are as the load check asks (MapInv), of    *)
(* the guards that the turn is with one who can take it (WatchInv), and of   *)
(* the conditions that what ends with the hero's next turn was begun in this *)
(* round (EffectsInv).                                                       *)
(*****************************************************************************)
EXTENDS MCWorld, FiniteSetTheorems, FunctionTheorems, SequenceTheorems, NaturalsInduction, TLAPS

-----------------------------------------------------------------------------
(* The inductive invariant.                                                  *)

PlaceExits == [from : placed, to : placed, state : Locations!ExitStates]

\* What is recorded of places, people and exits is of places that are there.
PlacesTyped ==
    /\ placed \subseteq compiled /\ compiled \subseteq PlaceKeys
    /\ inside \subseteq placed \X placed
    /\ exits \subseteq PlaceExits
    /\ placeAt \subseteq Locations!Actors \X placed
    /\ people \subseteq Residents
    /\ left \subseteq placed

\* Nobody is in two places.
Settled == \A a \in Locations!Actors : \A p, q \in placed :
    <<a, p>> \in placeAt /\ <<a, q>> \in placeAt => p = q

\* A strict partial order of places.
Order(places, older) ==
    /\ \A p \in places : <<p, p>> \notin older
    /\ \A p, q, r \in places : <<p, q>> \in older /\ <<q, r>> \in older => <<p, r>> \in older

\* Exits lead to older places, and the hero came from younger ones.
Descends(ways, here, gone, older) ==
    /\ \A e \in ways : <<e.to, e.from>> \in older
    /\ \A h \in here : \A l \in gone : <<h, l>> \in older

\* There is an order of the places, that of their making, along which exits and
\* the hero descend; the hero has left no place before it was in one.
WaysLeadBack ==
    /\ \E older \in SUBSET (placed \X placed) :
          Order(placed, older) /\ Descends(exits, Locations!HeroAt, left, older)
    /\ Locations!HeroAt = {} => left = {}

LocationsInv == PlacesTyped /\ Settled /\ Locations!ContainmentEnds /\ WaysLeadBack

ItemPlaces == {"nowhere", "scene", "hero", "gone", "shared", "remains", "merchant"}

\* What stands in the scene is defined by a key, whose definition the story told.
ItemsInv ==
    /\ RuntimeItems!TypeOK
    /\ place \in [RuntimeItems!Instances -> ItemPlaces]
    /\ \A i \in RuntimeItems!Instances : place[i] = "scene" => made[i] \in ItemKeys
    /\ RuntimeItems!MirrorsInventory
    /\ RuntimeItems!SceneIsTold

SceneInv ==
    /\ objects \in [Objects -> {"none", "scene"} \cup Objects]
    /\ WorldScene!ContentsHeld

ZoneRows == [status : {"none", "active", "over"}, since : Nat,
             centre : Tactical!Cells \cup {<<0, 0>>},
             effects : SUBSET (Foes \cup {"hero", "ally"})]

\* The hero stands on the map and has life left while an attack waits for the answer;
\* zones are as the load asks, and whoever stopped a walk reaches the hero.
MapTyped ==
    /\ Tactical!TypeOK
    /\ acted \in BOOLEAN /\ shield \in BOOLEAN /\ dead \in BOOLEAN
    /\ fighting \in BOOLEAN /\ mine \in BOOLEAN
    /\ round \in Nat
    /\ zones \in [Tactical!Kinds -> ZoneRows]

MapInv ==
    /\ MapTyped
    /\ pending # "none" => mine /\ hp > 0
    /\ Tactical!NeverRefused /\ Tactical!InterruptedInReach

Offers == [target : Watch, status : {"offered", "accepted", "captured", "pursued", "rejected"}]
FightRows ==
    [status : {"idle", "active", "ended"}, phase : {"active", "resolving", "terminal"},
     outcome : {"none", "killed", "escaped", "surrendered", "captured", "player_surrendered"},
     order : Seq(Watch \cup {"hero"}), active : Watch \cup {"hero", "none"},
     action : BOOLEAN, bonus : BOOLEAN, offers : Seq(Offers), left : BOOLEAN, hidden : SUBSET Watch]
Companions ==
    [status : {"none", "active", "dismissed"}, action : BOOLEAN, bonus : BOOLEAN, acted : BOOLEAN]

WatchTyped ==
    /\ fight \in FightRows
    /\ guardHp \in [Watch -> 0..2] /\ captured \subseteq Watch
    /\ wolf \in Companions
    /\ held \in [{"hero", "wolf"} -> 0..MaxGroups]
    /\ bounds \in [fights : Nat, groups : 0..MaxGroups]
    /\ strikes \in 0..1

\* While a fight goes on, the turn is with somebody who can take it, a decision has an
\* offer, and nobody has struck unless the hero's action is spent.
TurnsTaken ==
    GuardEncounter!Going =>
        /\ fight.order \in Orders
        /\ fight.active \in GuardEncounter!Living \cup {"hero"}
        /\ fight.outcome = "none"
        /\ fight.phase = "resolving" => \E g \in Watch : GuardEncounter!Open(fight, g)
        /\ ~fight.action => strikes = 0

WatchInv ==
    /\ WatchTyped /\ TurnsTaken
    /\ GuardEncounter!OneOfferEach
    /\ GuardEncounter!CustodyOutsideCombat
    /\ GuardEncounter!FreedTogether

\* What ends with the hero's next turn was begun in this round, and on his own turn with
\* his action: so no fight ends before it does.
GuardsUp ==
    \A e \in effects : e.kind = "targetStart" =>
        /\ Conditions!Fighting /\ e.round = boutRound
        /\ active = "hero" => "action" \in boutSpent

EffectsInv == Conditions!TypeOK /\ Conditions!SavesStayOpen /\ GuardsUp

FightsInv ==
    /\ part = "Tactical" => MapInv
    /\ part = "GuardEncounter" => WatchInv
    /\ part = "Conditions" => EffectsInv
    /\ part = "WorldScene" => WorldScene!TypeOK

PlacesInv ==
    /\ part \in Parts
    /\ part = "Locations" => LocationsInv
    /\ part = "RuntimeItems" => ItemsInv
    /\ part = "WorldScene" => SceneInv

-----------------------------------------------------------------------------
(* Locations.                                                                *)

LEMMA AuthoredStates == Locations!Authored \subseteq Locations!ExitStates
<1>1. [passable |-> TRUE, visible |-> TRUE] \in Locations!ExitStates
  BY DEF Locations!ExitStates
<1>2. [passable |-> FALSE, visible |-> FALSE] \in Locations!ExitStates
  BY DEF Locations!ExitStates
<1> QED
  BY <1>1, <1>2 DEF Locations!Authored

\* Without a new place nothing is said of the places there are.
LEMMA SamePlaces ==
    ASSUME LocationsInv, compiled \subseteq compiled', compiled' \subseteq PlaceKeys,
           people' \subseteq Residents,
           UNCHANGED <<placed, inside, exits, placeAt, left>>
    PROVE  LocationsInv'
<1>1. PlacesTyped'
  BY DEF LocationsInv, PlacesTyped, PlaceExits
<1>2. Settled'
  BY DEF LocationsInv, Settled
<1>3. Locations!ContainmentEnds'
  BY DEF LocationsInv, Locations!ContainmentEnds
<1>4. WaysLeadBack'
  BY DEF LocationsInv, WaysLeadBack, Order, Descends, Locations!HeroAt
<1> QED
  BY <1>1, <1>2, <1>3, <1>4 DEF LocationsInv

\* A new place with its parent, its exits and those found in it: it is younger than
\* whatever it is bound to.
LEMMA NewPlace ==
    ASSUME LocationsInv, NEW k \in PlaceKeys, k \notin compiled,
           NEW parents \in SUBSET placed, NEW doors, NEW occupants \in SUBSET Locations!Homeless,
           DOMAIN doors \subseteq placed,
           \A t \in DOMAIN doors : doors[t] \in Locations!Authored,
           compiled' = compiled \cup {k},
           placed' = placed \cup {k},
           inside' = inside \cup {<<k, p>> : p \in parents},
           exits' = exits \cup {[from |-> k, to |-> t, state |-> doors[t]] : t \in DOMAIN doors},
           placeAt' = placeAt \cup {<<a, k>> : a \in occupants},
           UNCHANGED <<people, left>>
    PROVE  LocationsInv'
<1> USE DEF LocationsInv
<1>1. k \notin placed
  BY DEF PlacesTyped
<1>2. occupants \subseteq Locations!Actors
  BY DEF PlacesTyped, Locations!Homeless, Locations!Actors
<1>3. PlacesTyped'
  <2>1. exits' \subseteq PlaceExits'
    <3>1. exits \subseteq PlaceExits'
      BY DEF PlacesTyped, PlaceExits
    <3>2. \A t \in DOMAIN doors : [from |-> k, to |-> t, state |-> doors[t]] \in PlaceExits'
      <4> SUFFICES ASSUME NEW t \in DOMAIN doors
                   PROVE  [from |-> k, to |-> t, state |-> doors[t]] \in PlaceExits'
        OBVIOUS
      <4>1. doors[t] \in Locations!ExitStates
        BY AuthoredStates
      <4>2. k \in placed' /\ t \in placed'
        OBVIOUS
      <4> QED
        BY <4>1, <4>2 DEF PlaceExits, Locations!ExitStates
    <3> QED
      BY <3>1, <3>2
  <2>2. placeAt' \subseteq (Locations!Actors \X placed)'
    BY <1>2 DEF PlacesTyped, Locations!Actors
  <2>3. inside' \subseteq placed' \X placed'
    BY DEF PlacesTyped
  <2> QED
    BY <2>1, <2>2, <2>3 DEF PlacesTyped
<1>4. Settled'
  <2> SUFFICES ASSUME NEW a \in Locations!Actors, NEW p \in placed', NEW q \in placed',
                      <<a, p>> \in placeAt', <<a, q>> \in placeAt'
               PROVE  p = q
    BY DEF Settled, Locations!Actors
  <2>1. \A x \in placed : <<a, x>> \in placeAt' => <<a, x>> \in placeAt
    BY <1>1
  <2>2. <<a, k>> \in placeAt' => a \in occupants
    BY <1>1 DEF PlacesTyped
  <2>3. a \in occupants => \A x \in placed : <<a, x>> \notin placeAt
    BY DEF Locations!Homeless
  <2> QED
    BY <2>1, <2>2, <2>3 DEF Settled
<1>5. Locations!ContainmentEnds'
  <2> SUFFICES ASSUME NEW s \in SUBSET placed', s # {}
               PROVE  \E p \in s : \A q \in s : <<p, q>> \notin inside'
    BY DEF Locations!ContainmentEnds
  <2>1. \A p \in placed : \A q : <<p, q>> \in inside' => <<p, q>> \in inside /\ q # k
    BY <1>1 DEF PlacesTyped
  <2>2. CASE s = {k}
    <3>1. <<k, k>> \notin inside'
      BY <1>1 DEF PlacesTyped
    <3> QED
      BY <2>2, <3>1
  <2>3. CASE s # {k}
    <3>1. s \ {k} \in SUBSET placed /\ s \ {k} # {}
      BY <2>3
    <3>2. PICK p \in s \ {k} : \A q \in s \ {k} : <<p, q>> \notin inside
      BY <3>1 DEF Locations!ContainmentEnds
    <3> QED
      BY <2>1, <3>1, <3>2
  <2> QED
    BY <2>2, <2>3
<1>6. WaysLeadBack'
  <2>1. PICK older \in SUBSET (placed \X placed) :
               Order(placed, older) /\ Descends(exits, Locations!HeroAt, left, older)
    BY DEF WaysLeadBack
  <2> DEFINE longer == older \cup {<<p, k>> : p \in placed}
  <2>2. longer \in SUBSET (placed' \X placed')
    OBVIOUS
  <2>3. \A p, q : <<p, q>> \in longer <=> (<<p, q>> \in older \/ (p \in placed /\ q = k))
    OBVIOUS
  <2>4. \A p, q : <<p, q>> \in older => p \in placed /\ q \in placed
    BY <2>1
  <2> HIDE DEF longer
  <2>5. Order(placed', longer)
    BY <1>1, <2>1, <2>3, <2>4 DEF Order
  <2>6. Locations!HeroAt = {} => left = {}
    BY DEF WaysLeadBack
  <2>7. Locations!HeroAt' \in {Locations!HeroAt, {k}} /\ (Locations!HeroAt # {} => Locations!HeroAt' = Locations!HeroAt)
    <3>1. \A x \in placed : <<"hero", x>> \in placeAt' <=> <<"hero", x>> \in placeAt
      BY <1>1
    <3>2. <<"hero", k>> \in placeAt' <=> "hero" \in occupants
      BY <1>1 DEF PlacesTyped
    <3>3. "hero" \in occupants => \A x \in placed : <<"hero", x>> \notin placeAt
      BY DEF Locations!Homeless
    <3> QED
      BY <3>1, <3>2, <3>3 DEF Locations!HeroAt, Locations!Hero
  <2>8. Descends(exits', Locations!HeroAt', left', longer)
    <3>1. \A e \in exits' : <<e.to, e.from>> \in longer
      <4>1. \A e \in exits : <<e.to, e.from>> \in longer
        BY <2>1, <2>3 DEF Descends
      <4>2. \A t \in DOMAIN doors : <<t, k>> \in longer
        BY <2>3
      <4> SUFFICES ASSUME NEW e \in exits', e \notin exits
                   PROVE  <<e.to, e.from>> \in longer
        BY <4>1
      <4>3. PICK t \in DOMAIN doors : e = [from |-> k, to |-> t, state |-> doors[t]]
        OBVIOUS
      <4> QED
        BY <4>2, <4>3
    <3>2. \A h \in Locations!HeroAt' : \A l \in left' : <<h, l>> \in longer
      BY <2>1, <2>3, <2>6, <2>7 DEF Descends
    <3> QED
      BY <3>1, <3>2 DEF Descends
  <2>9. Locations!HeroAt' = {} => left' = {}
    BY <2>6, <2>7
  <2> QED
    BY <2>2, <2>5, <2>8, <2>9 DEF WaysLeadBack
<1> QED
  BY <1>3, <1>4, <1>5, <1>6

\* A patch opens, shuts, hides or reveals an exit, which leads where it led.
LEMMA PatchExitKeeps ==
    ASSUME LocationsInv, NEW e \in exits, NEW state \in Locations!ExitStates,
           Locations!PatchExit(e, state)
    PROVE  LocationsInv'
<1> USE DEF LocationsInv, Locations!PatchExit
<1>1. e \in PlaceExits
  BY DEF PlacesTyped
<1>2. /\ [e EXCEPT !.state = state] \in PlaceExits
      /\ [e EXCEPT !.state = state].from = e.from
      /\ [e EXCEPT !.state = state].to = e.to
  BY <1>1 DEF PlaceExits
<1> DEFINE patched == [e EXCEPT !.state = state]
<1>3. exits' = (exits \ {e}) \cup {patched}
  OBVIOUS
<1> HIDE DEF patched
<1>4. PlacesTyped'
  BY <1>2, <1>3 DEF PlacesTyped, PlaceExits, patched
<1>5. Settled'
  BY DEF Settled
<1>6. Locations!ContainmentEnds'
  BY DEF Locations!ContainmentEnds
<1>7. WaysLeadBack'
  <2>1. PICK older \in SUBSET (placed \X placed) :
               Order(placed, older) /\ Descends(exits, Locations!HeroAt, left, older)
    BY DEF WaysLeadBack
  <2>2. Descends(exits', Locations!HeroAt, left, older)
    BY <2>1, <1>2, <1>3 DEF Descends, patched
  <2>3. Locations!HeroAt' = Locations!HeroAt /\ left' = left /\ placed' = placed
    BY DEF Locations!HeroAt
  <2>4. Locations!HeroAt = {} => left = {}
    BY DEF WaysLeadBack
  <2> QED
    BY <2>1, <2>2, <2>3, <2>4 DEF WaysLeadBack
<1> QED
  BY <1>4, <1>5, <1>6, <1>7

\* The hero goes through an exit, to an older place.
LEMMA MoveKeeps ==
    ASSUME LocationsInv, NEW e \in exits, Locations!Move(e)
    PROVE  LocationsInv'
<1> USE DEF LocationsInv, Locations!Move
<1>1. e.from \in placed /\ e.to \in placed
  BY DEF PlacesTyped, PlaceExits
<1>2. PlacesTyped'
  <2>1. <<"hero", e.to>> \in Locations!Actors \X placed
    BY <1>1 DEF Locations!Actors, Locations!Hero
  <2>2. placeAt' \subseteq Locations!Actors \X placed
    BY <2>1 DEF PlacesTyped, Locations!Hero
  <2> QED
    BY <1>1, <2>2 DEF PlacesTyped, PlaceExits, Locations!Actors
<1>3. \A x \in placed : <<"hero", x>> \in placeAt <=> x = e.from
  BY DEF Locations!HeroAt, Locations!Hero
<1>4. \A x \in placed : <<"hero", x>> \in placeAt' <=> x = e.to
  BY <1>1, <1>3 DEF Locations!Hero
<1>5. \A a : a # "hero" => \A x : <<a, x>> \in placeAt' <=> <<a, x>> \in placeAt
  BY DEF Locations!Hero
<1>6. Settled'
  BY <1>4, <1>5 DEF Settled, Locations!Actors
<1>7. Locations!ContainmentEnds'
  BY DEF Locations!ContainmentEnds
<1>8. WaysLeadBack'
  <2>1. PICK older \in SUBSET (placed \X placed) :
               Order(placed, older) /\ Descends(exits, Locations!HeroAt, left, older)
    BY DEF WaysLeadBack
  <2>2. Locations!HeroAt' = {e.to}
    BY <1>1, <1>4 DEF Locations!HeroAt, Locations!Hero
  <2>3. \A l \in left' : <<e.to, l>> \in older
    <3>1. <<e.to, e.from>> \in older
      BY <2>1 DEF Descends
    <3>2. \A l \in left : <<e.from, l>> \in older /\ l \in placed
      BY <2>1 DEF Descends, PlacesTyped
    <3> QED
      BY <1>1, <2>1, <3>1, <3>2 DEF Order
  <2>4. Descends(exits', Locations!HeroAt', left', older)
    BY <2>1, <2>2, <2>3 DEF Descends
  <2> QED
    BY <2>1, <2>2, <2>4 DEF WaysLeadBack
<1> QED
  BY <1>2, <1>6, <1>7, <1>8

\* Every step of the places keeps the invariant.
LEMMA NextLocations ==
    ASSUME LocationsInv, Locations!Next
    PROVE  LocationsInv'
<1>1. ASSUME NEW k \in PlaceKeys, Locations!New(k),
             Locations!CompilePlace(k, FALSE, {}, <<>>, {})
      PROVE  LocationsInv'
  <2>1. compiled \subseteq compiled' /\ compiled' \subseteq PlaceKeys
    BY <1>1 DEF Locations!CompilePlace, LocationsInv, PlacesTyped
  <2>2. UNCHANGED <<placed, inside, exits, placeAt, people, left>>
    BY <1>1 DEF Locations!CompilePlace
  <2> QED
    BY <2>1, <2>2, SamePlaces DEF LocationsInv, PlacesTyped
<1>2. ASSUME NEW k \in PlaceKeys, Locations!New(k),
             NEW parents \in {{}} \cup {{p} : p \in Locations!Reachable(k)},
             NEW occupants \in SUBSET Locations!Homeless,
             NEW tos \in SUBSET Locations!Reachable(k),
             NEW doors \in [tos -> Locations!Authored],
             Locations!CompilePlace(k, TRUE, parents, doors, occupants)
      PROVE  LocationsInv'
  <2>1. /\ k \notin compiled
        /\ parents \in SUBSET placed
        /\ DOMAIN doors \subseteq placed
        /\ \A t \in DOMAIN doors : doors[t] \in Locations!Authored
    BY <1>2 DEF Locations!New, Locations!Reachable
  <2>2. /\ compiled' = compiled \cup {k}
        /\ placed' = placed \cup {k}
        /\ inside' = inside \cup {<<k, p>> : p \in parents}
        /\ exits' = exits \cup {[from |-> k, to |-> t, state |-> doors[t]] : t \in DOMAIN doors}
        /\ placeAt' = placeAt \cup {<<a, k>> : a \in occupants}
        /\ UNCHANGED <<people, left>>
    BY <1>2 DEF Locations!CompilePlace
  <2> QED
    BY <2>1, <2>2, NewPlace
<1>3. ASSUME NEW n \in Residents, Locations!Establish(n) \/ Locations!Retire(n)
      PROVE  LocationsInv'
  <2>1. /\ compiled \subseteq compiled' /\ compiled' \subseteq PlaceKeys
        /\ people' \subseteq Residents
        /\ UNCHANGED <<placed, inside, exits, placeAt, left>>
    BY <1>3 DEF Locations!Establish, Locations!Retire, LocationsInv, PlacesTyped
  <2> QED
    BY <2>1, SamePlaces
<1> QED
  BY <1>1, <1>2, <1>3, MoveKeeps, PatchExitKeeps DEF Locations!Next

\* No places, no order to keep.
LEMMA InitLocations == Locations!Init => LocationsInv
<1> SUFFICES ASSUME Locations!Init PROVE LocationsInv
  OBVIOUS
<1> USE DEF Locations!Init
<1>1. PlacesTyped
  BY DEF PlacesTyped
<1>2. Settled
  BY DEF Settled
<1>5. Locations!ContainmentEnds
  <2>1. \A s \in SUBSET placed : s = {}
    OBVIOUS
  <2> QED
    BY <2>1 DEF Locations!ContainmentEnds
<1>3. Order(placed, {}) /\ Descends(exits, Locations!HeroAt, left, {})
  BY DEF Order, Descends
<1>4. WaysLeadBack
  BY <1>3 DEF WaysLeadBack
<1> QED
  BY <1>1, <1>2, <1>4, <1>5 DEF LocationsInv

\* The invariant gives what is checked of the places.
LEMMA LocationsHold ==
    ASSUME LocationsInv
    PROVE  Locations!OnePlaceEach /\ Locations!ContainmentEnds /\ Locations!NeverBack
<1>1. Locations!OnePlaceEach
  <2> SUFFICES ASSUME NEW a \in Locations!Actors
               PROVE  Locations!Cardinality({p \in placed : <<a, p>> \in placeAt}) <= 1
    BY DEF Locations!OnePlaceEach
  <2> DEFINE home == {p \in placed : <<a, p>> \in placeAt}
  <2>1. home = {} \/ \E p : home = {p}
    BY DEF LocationsInv, Settled
  <2>2. Cardinality(home) <= 1
    <3>1. Cardinality({}) = 0
      BY FS_EmptySet
    <3>2. \A p : Cardinality({p}) = 1
      BY FS_Singleton
    <3> HIDE DEF home
    <3>3. Cardinality(home) = 0 \/ Cardinality(home) = 1
      BY <2>1, <3>1, <3>2
    <3> QED
      BY <3>3
  <2> QED
    BY <2>2 DEF Locations!Cardinality, Cardinality
<1>2. Locations!NeverBack
  <2>1. PICK older \in SUBSET (placed \X placed) :
               Order(placed, older) /\ Descends(exits, Locations!HeroAt, left, older)
    BY DEF LocationsInv, WaysLeadBack
  <2>2. \A h \in Locations!HeroAt : h \in placed
    BY DEF Locations!HeroAt
  <2> QED
    BY <2>1, <2>2 DEF Order, Descends, Locations!NeverBack
<1> QED
  BY <1>1, <1>2 DEF LocationsInv

-----------------------------------------------------------------------------
(* Runtime items.                                                            *)

Items == RuntimeItems!Instances

\* What becomes of an item in play: its definition stays, and the sync tells of
\* whatever went out of the hero's hands.
LEMMA HandleKeeps ==
    ASSUME ItemsInv, NEW i \in Items, NEW to \in {"gone", "shared", "hero", "remains"},
           RuntimeItems!Handle(i, to)
    PROVE  ItemsInv'
<1> USE DEF ItemsInv, Items
<1>1. /\ place' = [place EXCEPT ![i] = to]
      /\ status' = RuntimeItems!Synced(place, place')
      /\ UNCHANGED <<defs, made, sold, runtimeShown>>
      /\ place[i] # "scene"
      /\ place[i] = "hero" \/ to = "hero"
      /\ place[i] # "nowhere"
  BY DEF RuntimeItems!Handle
<1>2. place' \in [Items -> ItemPlaces]
  BY <1>1 DEF ItemPlaces
<1>3. status' = [x \in Items |-> IF place'[x] = "hero" THEN "available"
                                 ELSE IF place[x] = "hero" THEN "known" ELSE status[x]]
  BY <1>1 DEF RuntimeItems!Synced, RuntimeItems!Carried
<1>4. RuntimeItems!TypeOK'
  BY <1>1, <1>3 DEF RuntimeItems!TypeOK
<1>5. \A x \in Items : place'[x] = "scene" => place[x] = "scene" /\ made'[x] = made[x]
  BY <1>1
<1>6. RuntimeItems!MirrorsInventory'
  BY <1>1, <1>3 DEF RuntimeItems!MirrorsInventory
<1>7. RuntimeItems!SceneIsTold'
  BY <1>1, <1>5 DEF RuntimeItems!SceneIsTold
<1> QED
  BY <1>1, <1>2, <1>4, <1>5, <1>6, <1>7

\* A sale: the ghost remembers the item, and no other leaves the hero's hands.
LEMMA SellKeeps ==
    ASSUME ItemsInv, NEW i \in Items, RuntimeItems!Sell(i)
    PROVE  ItemsInv'
<1> USE DEF ItemsInv, Items
<1>1. /\ place[i] = "hero"
      /\ place' = [place EXCEPT ![i] = "merchant"]
      /\ status' = RuntimeItems!Synced(place', place')
      /\ sold' = sold \cup {i}
      /\ UNCHANGED <<defs, made, runtimeShown>>
  BY DEF RuntimeItems!Sell
<1>2. place' \in [Items -> ItemPlaces]
  BY <1>1 DEF ItemPlaces
<1>3. status' = [x \in Items |-> IF place'[x] = "hero" THEN "available" ELSE status[x]]
  BY <1>1 DEF RuntimeItems!Synced, RuntimeItems!Carried
<1>4. RuntimeItems!TypeOK'
  BY <1>1, <1>3 DEF RuntimeItems!TypeOK
<1>5. \A x \in Items : place'[x] = "scene" => place[x] = "scene" /\ made'[x] = made[x]
  BY <1>1
<1>6. RuntimeItems!MirrorsInventory'
  BY <1>1, <1>3 DEF RuntimeItems!MirrorsInventory
<1>7. RuntimeItems!SceneIsTold'
  BY <1>1, <1>5 DEF RuntimeItems!SceneIsTold
<1> QED
  BY <1>1, <1>2, <1>4, <1>5, <1>6, <1>7

\* The story only adds to what was told.
LEMMA TellKeeps ==
    ASSUME ItemsInv, NEW kind \in ItemKinds, RuntimeItems!Tell(kind)
    PROVE  ItemsInv'
<1> USE DEF ItemsInv, RuntimeItems!Tell
<1>1. RuntimeItems!TypeOK'
  BY DEF RuntimeItems!TypeOK
<1>2. RuntimeItems!MirrorsInventory' /\ RuntimeItems!SceneIsTold'
  BY DEF RuntimeItems!MirrorsInventory, RuntimeItems!SceneIsTold
<1> QED
  BY <1>1, <1>2

\* A new definition takes a key that had none, so none of what stands in the scene
\* changes its meaning.
LEMMA CompileItemKeeps ==
    ASSUME ItemsInv, NEW k \in ItemKeys, NEW c \in Copies, NEW kind \in ItemKinds, NEW sources,
           NEW instance \in BOOLEAN, RuntimeItems!CompileItem(k, c, kind, sources, instance)
    PROVE  ItemsInv'
<1> USE DEF ItemsInv, Items
<1> DEFINE new == <<k, c>>
<1>1. new \in Items
  BY DEF RuntimeItems!Instances
<1>2. /\ defs[k] = "none"
      /\ defs' = [defs EXCEPT ![k] = kind]
      /\ UNCHANGED <<sold, runtimeShown>>
  BY DEF RuntimeItems!CompileItem
<1>3. \/ /\ made' = [made EXCEPT ![new] = k]
         /\ place' = [place EXCEPT ![new] = "hero"]
         /\ status' = [status EXCEPT ![new] = "available"]
      \/ UNCHANGED <<made, place, status>>
  BY DEF RuntimeItems!CompileItem
<1> HIDE DEF new
<1>4. RuntimeItems!TypeOK'
  <2>1. defs' \in [ItemKeys -> ItemKinds \cup {"none"}]
    BY <1>2 DEF RuntimeItems!TypeOK
  <2>2. made' \in [Items -> ItemKeys \cup {"none"}]
    BY <1>1, <1>3 DEF RuntimeItems!TypeOK
  <2>3. status' \in [Items -> {"none", "available", "known"}]
    BY <1>1, <1>3 DEF RuntimeItems!TypeOK
  <2> QED
    BY <2>1, <2>2, <2>3, <1>2 DEF RuntimeItems!TypeOK
<1>5. place' \in [Items -> ItemPlaces]
  BY <1>1, <1>3 DEF ItemPlaces
<1>6. \A x \in Items : place'[x] = "scene" => place[x] = "scene" /\ made'[x] = made[x]
  BY <1>1, <1>3 DEF RuntimeItems!TypeOK
<1>7. RuntimeItems!MirrorsInventory'
  BY <1>1, <1>2, <1>3 DEF RuntimeItems!MirrorsInventory, RuntimeItems!TypeOK
<1>8. RuntimeItems!SceneIsTold'
  <2> SUFFICES ASSUME NEW x \in Items, place'[x] = "scene"
               PROVE  defs'[made'[x]] \in runtimeShown
    BY <1>2 DEF RuntimeItems!SceneIsTold
  <2>1. made[x] \in ItemKeys /\ defs[made[x]] \in runtimeShown
    BY <1>6 DEF RuntimeItems!SceneIsTold
  <2>2. runtimeShown \subseteq ItemKinds
    BY DEF RuntimeItems!TypeOK
  <2>3. made[x] # k
    BY <1>2, <2>1, <2>2, WorldAssumption
  <2> QED
    BY <1>2, <1>6, <2>1, <2>3 DEF RuntimeItems!TypeOK
<1> QED
  BY <1>2, <1>4, <1>5, <1>6, <1>7, <1>8

\* What the story has shown gets an instance of the definition that means it, and
\* whatever else stands in the scene keeps its own.
LEMMA MaterializeKeeps ==
    ASSUME ItemsInv, NEW k \in ItemKeys, NEW c \in Copies, NEW kind \in ItemKinds,
           RuntimeItems!Materialize(k, c, kind)
    PROVE  ItemsInv'
<1> USE DEF ItemsInv, Items
<1> DEFINE new == <<k, c>>
           key == RuntimeItems!Definition(k, kind)
<1>1. new \in Items
  BY DEF RuntimeItems!Instances
<1>2. /\ kind \in runtimeShown
      /\ defs[k] \in {"none", kind}
      /\ defs' = [defs EXCEPT ![key] = kind]
      /\ made' = [made EXCEPT ![new] = key]
      /\ place' = [place EXCEPT ![new] = "scene"]
      /\ status' = [status EXCEPT ![new] = "available"]
      /\ UNCHANGED <<sold, runtimeShown>>
  BY DEF RuntimeItems!Materialize, RuntimeItems!Evident
<1>3. key \in ItemKeys /\ defs[key] \in {"none", kind}
  BY <1>2 DEF RuntimeItems!Definition
<1> HIDE DEF new, key
<1>4. RuntimeItems!TypeOK'
  <2>1. defs' \in [ItemKeys -> ItemKinds \cup {"none"}]
    BY <1>2, <1>3 DEF RuntimeItems!TypeOK
  <2>2. made' \in [Items -> ItemKeys \cup {"none"}]
    BY <1>1, <1>2, <1>3 DEF RuntimeItems!TypeOK
  <2>3. status' \in [Items -> {"none", "available", "known"}]
    BY <1>1, <1>2 DEF RuntimeItems!TypeOK
  <2> QED
    BY <2>1, <2>2, <2>3, <1>2 DEF RuntimeItems!TypeOK
<1>5. place' \in [Items -> ItemPlaces]
  BY <1>1, <1>2 DEF ItemPlaces
<1>6. \A x \in Items : place'[x] = "scene" => made'[x] \in ItemKeys
  BY <1>1, <1>2, <1>3 DEF RuntimeItems!TypeOK
<1>7. RuntimeItems!MirrorsInventory'
  BY <1>1, <1>2 DEF RuntimeItems!MirrorsInventory, RuntimeItems!TypeOK
<1>8. RuntimeItems!SceneIsTold'
  <2> SUFFICES ASSUME NEW x \in Items, place'[x] = "scene"
               PROVE  defs'[made'[x]] \in runtimeShown
    BY <1>2 DEF RuntimeItems!SceneIsTold
  <2>1. CASE made'[x] = key
    BY <1>2, <1>3, <2>1 DEF RuntimeItems!TypeOK
  <2>2. CASE made'[x] # key
    <3>1. x # new /\ made'[x] = made[x] /\ place[x] = "scene"
      BY <1>1, <1>2, <2>2 DEF RuntimeItems!TypeOK
    <3>2. made[x] \in ItemKeys /\ defs[made[x]] \in runtimeShown
      BY <3>1 DEF RuntimeItems!SceneIsTold
    <3> QED
      BY <1>2, <2>2, <3>1, <3>2 DEF RuntimeItems!TypeOK
  <2> QED
    BY <2>1, <2>2
<1> QED
  BY <1>2, <1>4, <1>5, <1>6, <1>7, <1>8

\* Every step of the items keeps the invariant.
LEMMA NextItems ==
    ASSUME ItemsInv, RuntimeItems!Next
    PROVE  ItemsInv'
<1>1. ASSUME NEW i \in Items, RuntimeItems!Sell(i) PROVE ItemsInv'
  BY <1>1, SellKeeps
<1>2. ASSUME NEW i \in Items, NEW to \in {"gone", "shared", "hero", "remains"},
             RuntimeItems!Handle(i, to)
      PROVE  ItemsInv'
  BY <1>2, HandleKeeps
<1>3. ASSUME NEW kind \in ItemKinds, RuntimeItems!Tell(kind) PROVE ItemsInv'
  BY <1>3, TellKeeps
<1>4. ASSUME NEW kind \in ItemKinds, NEW k \in ItemKeys, NEW c \in Copies,
             RuntimeItems!Materialize(k, c, kind)
      PROVE  ItemsInv'
  BY <1>4, MaterializeKeeps
<1>5. ASSUME NEW kind \in ItemKinds, NEW k \in ItemKeys, NEW c \in Copies, NEW sources,
             NEW instance \in BOOLEAN, RuntimeItems!CompileItem(k, c, kind, sources, instance)
      PROVE  ItemsInv'
  BY <1>5, CompileItemKeeps
<1> QED
  BY <1>1, <1>2, <1>3, <1>4, <1>5 DEF RuntimeItems!Next, Items

LEMMA InitItems == RuntimeItems!Init => ItemsInv
<1> SUFFICES ASSUME RuntimeItems!Init PROVE ItemsInv
  OBVIOUS
<1> USE DEF RuntimeItems!Init
<1>1. RuntimeItems!TypeOK
  BY DEF RuntimeItems!TypeOK
<1>2. place \in [RuntimeItems!Instances -> ItemPlaces]
  BY DEF ItemPlaces
<1>3. RuntimeItems!MirrorsInventory /\ RuntimeItems!SceneIsTold
  BY DEF RuntimeItems!MirrorsInventory, RuntimeItems!SceneIsTold
<1> QED
  BY <1>1, <1>2, <1>3 DEF ItemsInv

-----------------------------------------------------------------------------
(* The objects of a scene.                                                   *)

\* A patch is refused unless what it leaves in a box leaves the box, too.
LEMMA PatchKeeps ==
    ASSUME SceneInv, NEW upF, NEW outF, NEW names, NEW upO \in [names -> {"scene"} \cup Objects],
           NEW outO, NEW upN, NEW outN,
           WorldScene!Patch(upF, outF, upO, outO, upN, outN)
    PROVE  SceneInv'
<1>1. /\ objects' = WorldScene!ObjectsPatched(upO, outO)
      /\ WorldScene!ObjectsFit(upO, outO, objects')
  BY DEF WorldScene!Patch
<1>2. objects' \in [Objects -> {"none", "scene"} \cup Objects]
  BY <1>1 DEF SceneInv, WorldScene!ObjectsPatched, WorldScene!Established
<1>3. WorldScene!ContentsHeld'
  BY <1>1, WorldAssumption DEF WorldScene!ContentsHeld, WorldScene!ObjectsFit
<1> QED
  BY <1>2, <1>3 DEF SceneInv

LEMMA NextScene ==
    ASSUME SceneInv, WorldScene!Next
    PROVE  SceneInv'
<1>1. ASSUME NEW upF, NEW outF, NEW upN, NEW outN,
             WorldScene!Patch(upF, outF, <<>>, {}, upN, outN)
      PROVE  SceneInv'
  <2>1. <<>> \in [{} -> {"scene"} \cup Objects]
    OBVIOUS
  <2> QED
    BY <1>1, <2>1, PatchKeeps
<1>2. ASSUME NEW outO, NEW names, NEW upO \in [names -> {"scene"} \cup Objects],
             WorldScene!Patch({}, {}, upO, outO, {}, {})
      PROVE  SceneInv'
  BY <1>2, PatchKeeps
<1>3. ASSUME UNCHANGED objects PROVE SceneInv'
  BY <1>3 DEF SceneInv, WorldScene!ContentsHeld
<1>4. ASSUME NEW n \in Npcs, WorldScene!Meet(n) PROVE SceneInv'
  BY <1>3, <1>4 DEF WorldScene!Meet
<1>5. ASSUME NEW o \in Objects, WorldScene!Use(o) PROVE SceneInv'
  BY <1>3, <1>5 DEF WorldScene!Use
<1> QED
  BY <1>1, <1>2, <1>4, <1>5 DEF WorldScene!Next

LEMMA InitScene == WorldScene!Init => SceneInv
BY WorldAssumption DEF WorldScene!Init, SceneInv, WorldScene!ContentsHeld

\* What is told of a scene keeps its type: play changes only what is there, and a patch
\* leaves nothing worn that it takes out.
LEMMA PatchKeepsTypes ==
    ASSUME WorldScene!TypeOK, NEW upF, NEW outF, NEW names,
           NEW upO \in [names -> {"scene"} \cup Objects], NEW outO, NEW upN, NEW outN,
           WorldScene!Patch(upF, outF, upO, outO, upN, outN)
    PROVE  WorldScene!TypeOK' /\ WorldScene!EditsKeepStanding
<1> USE DEF WorldScene!TypeOK, WorldScene!Patch
<1>1. facts' \in [Facts -> {"none", "active", "inactive"}]
  BY DEF WorldScene!FactsPatched
<1>2. objects' \in [Objects -> {"none", "scene"} \cup Objects]
  BY DEF WorldScene!ObjectsPatched, WorldScene!Established
<1>3. worn' \subseteq WorldScene!Established'
  BY DEF WorldScene!ObjectsPatched, WorldScene!Established
<1>4. /\ npcs' = [n \in Npcs |-> IF n \in outN THEN 0 ELSE WorldScene!Merged(n, upN)]
      /\ \A n \in Npcs : WorldScene!Merged(n, upN) \in {1, npcs[n]}
      /\ \A n \in Npcs : npcs[n] # 0 => WorldScene!Merged(n, upN) = npcs[n]
  BY DEF WorldScene!NpcsPatched, WorldScene!Merged, WorldScene!Standing
<1>5. npcs' \in [Npcs -> 0..(MaxPlay + 1)]
  BY <1>4, WorldAssumption
<1>6. WorldScene!EditsKeepStanding
  BY <1>4, WorldAssumption DEF WorldScene!EditsKeepStanding, WorldScene!Standing
<1> QED
  BY <1>1, <1>2, <1>3, <1>5, <1>6

LEMMA NextSceneKeepsTypes ==
    ASSUME WorldScene!TypeOK, WorldScene!Next
    PROVE  WorldScene!TypeOK' /\ WorldScene!EditsKeepStanding
<1>1. ASSUME NEW upF, NEW outF, NEW upN, NEW outN,
             WorldScene!Patch(upF, outF, <<>>, {}, upN, outN)
      PROVE  WorldScene!TypeOK' /\ WorldScene!EditsKeepStanding
  <2>1. <<>> \in [{} -> {"scene"} \cup Objects]
    OBVIOUS
  <2> QED
    BY <1>1, <2>1, PatchKeepsTypes
<1>2. ASSUME NEW outO, NEW names, NEW upO \in [names -> {"scene"} \cup Objects],
             WorldScene!Patch({}, {}, upO, outO, {}, {})
      PROVE  WorldScene!TypeOK' /\ WorldScene!EditsKeepStanding
  BY <1>2, PatchKeepsTypes
<1>3. ASSUME NEW n \in Npcs, WorldScene!Meet(n)
      PROVE  WorldScene!TypeOK' /\ WorldScene!EditsKeepStanding
  BY <1>3, WorldAssumption DEF WorldScene!Meet, WorldScene!TypeOK, WorldScene!EditsKeepStanding,
        WorldScene!Established, WorldScene!Standing
<1>4. ASSUME NEW o \in Objects, WorldScene!Use(o)
      PROVE  WorldScene!TypeOK' /\ WorldScene!EditsKeepStanding
  BY <1>4, WorldAssumption DEF WorldScene!Use, WorldScene!TypeOK, WorldScene!EditsKeepStanding,
        WorldScene!Established, WorldScene!Standing
<1> QED
  BY <1>1, <1>2, <1>3, <1>4 DEF WorldScene!Next

LEMMA InitSceneTypes == WorldScene!Init => WorldScene!TypeOK
<1> SUFFICES ASSUME WorldScene!Init PROVE WorldScene!TypeOK
  OBVIOUS
<1>1. npcs \in [Npcs -> 0..(MaxPlay + 1)]
  BY WorldAssumption DEF WorldScene!Init
<1>2. /\ facts \in [Facts -> {"none", "active", "inactive"}]
      /\ objects \in [Objects -> {"none", "scene"} \cup Objects]
      /\ worn \subseteq WorldScene!Established /\ open \in BOOLEAN
  BY DEF WorldScene!Init
<1> QED
  BY <1>1, <1>2 DEF WorldScene!TypeOK

\* Only what is told is made without a definition of its own.
LEMMA MaterializedMeansTheSame ==
    ASSUME ItemsInv, NEW k \in ItemKeys, NEW c \in Copies, NEW kind \in ItemKinds,
           RuntimeItems!Materialize(k, c, kind)
    PROVE  RuntimeItems!MeansTheSame
<1> DEFINE key == RuntimeItems!Definition(k, kind)
<1>1. defs' = [defs EXCEPT ![key] = kind] /\ defs \in [ItemKeys -> ItemKinds \cup {"none"}]
  BY DEF RuntimeItems!Materialize, ItemsInv, RuntimeItems!TypeOK
<1>2. key \in ItemKeys /\ (defs[key] = "none" => \A other \in ItemKeys : defs[other] # kind)
  <2>1. CASE defs[k] # "none" \/ \A other \in ItemKeys : defs[other] # kind
    BY <2>1 DEF RuntimeItems!Definition
  <2>2. CASE \E other \in ItemKeys : defs[other] = kind
    BY <2>1, <2>2, WorldAssumption DEF RuntimeItems!Definition
  <2> QED
    BY <2>1, <2>2
<1> HIDE DEF key
<1> QED
  BY <1>1, <1>2 DEF RuntimeItems!MeansTheSame

LEMMA NextItemsMeanTheSame ==
    ASSUME ItemsInv, RuntimeItems!Next
    PROVE  RuntimeItems!MeansTheSame
<1>1. ASSUME UNCHANGED defs PROVE RuntimeItems!MeansTheSame
  BY <1>1 DEF RuntimeItems!MeansTheSame
<1>2. ASSUME NEW kind \in ItemKinds, RuntimeItems!Tell(kind) PROVE UNCHANGED defs
  BY <1>2 DEF RuntimeItems!Tell
<1>3. ASSUME NEW i \in Items, RuntimeItems!Sell(i) PROVE UNCHANGED defs
  BY <1>3 DEF RuntimeItems!Sell
<1>4. ASSUME NEW i \in Items, NEW to, RuntimeItems!Handle(i, to) PROVE UNCHANGED defs
  BY <1>4 DEF RuntimeItems!Handle
<1>5. ASSUME NEW k \in ItemKeys, NEW c \in Copies, NEW kind \in ItemKinds, NEW sources,
             NEW instance \in BOOLEAN, RuntimeItems!CompileItem(k, c, kind, sources, instance)
      PROVE  RuntimeItems!MeansTheSame
  BY <1>5 DEF RuntimeItems!CompileItem, RuntimeItems!MeansTheSame, ItemsInv
<1> QED
  BY <1>1, <1>2, <1>3, <1>4, <1>5, MaterializedMeansTheSame DEF RuntimeItems!Next, Items

-----------------------------------------------------------------------------
(* Numbers.                                                                  *)

LEMMA LeastNumber ==
    ASSUME NEW S \in SUBSET Nat, S # {}
    PROVE  \E m \in S : \A n \in S : m <= n
<1> DEFINE Less == OpToRel(<, Nat)
<1>1. IsWellFoundedOn(Less, Nat)
  BY NatLessThanWellFounded
<1>2. PICK m \in S : \A n \in S : <<n, m>> \notin Less
  <2> HIDE DEF Less
  <2> QED
    BY <1>1, WFMin
<1>3. \A n \in S : ~(n < m)
  BY <1>2 DEF OpToRel
<1> QED
  BY <1>3

-----------------------------------------------------------------------------
(* Conditions.                                                               *)

\* Effects and the list of those that can be saved against.
Kept(es, ls) ==
    /\ es \subseteq Conditions!Effects /\ ls \subseteq Conditions!Effects
    /\ \A e \in es : e.source \in Creatures /\ e.repeat => e \in ls

\* What ends with the hero's next turn was begun in this round.
OfThisRound(es) == \A e \in es : e.kind = "targetStart" => Conditions!Fighting /\ e.round = boutRound

LEMMA CommitKeeps ==
    ASSUME NEW es, NEW ls, Kept(es, ls), Conditions!Commit(es, ls)
    PROVE  /\ effects' = es /\ effects' \subseteq Conditions!Effects
           /\ listed' \subseteq Conditions!Effects /\ shown' \subseteq Conditions!Names
           /\ Conditions!SavesStayOpen'
<1> USE DEF Conditions!Commit, Conditions!Current, Kept
<1>1. shown' \subseteq Conditions!Names
  BY DEF Conditions!ShownBy, Conditions!Effects
<1>2. Conditions!SavesStayOpen'
  BY DEF Conditions!SavesStayOpen
<1> QED
  BY <1>1, <1>2

\* What a load makes of a bare name lasts, and nobody saves against it.
LEMMA LoadedKept ==
    ASSUME EffectsInv
    PROVE  /\ Kept(Conditions!Loaded, listed) /\ OfThisRound(Conditions!Loaded)
           /\ \A e \in Conditions!Loaded : e \in effects \/ e.kind = "persistent"
<1> DEFINE new == {Conditions!Legacy(n) : n \in shown \ Conditions!ShownBy(effects)}
<1> USE DEF EffectsInv
<1>1. ASSUME NEW e \in new
      PROVE  e \in Conditions!Effects /\ e.source = "legacy" /\ e.kind = "persistent"
  <2>1. PICK n \in shown : e = Conditions!Legacy(n)
    BY <1>1
  <2>2. n \in Conditions!Names /\ boutRound \in 0..BoutRounds /\ 0 \in 0..MaxMinutes
    BY ProgramAssumption DEF Conditions!TypeOK
  <2> QED
    BY <2>1, <2>2 DEF Conditions!Legacy, Conditions!Effects, Conditions!Kinds
<1>2. Conditions!Loaded = effects \cup new
  BY DEF Conditions!Loaded
<1> HIDE DEF new
<1>3. Kept(Conditions!Loaded, listed)
  BY <1>1, <1>2, ProgramAssumption DEF Kept, Conditions!TypeOK, Conditions!SavesStayOpen
<1>4. OfThisRound(Conditions!Loaded)
  BY <1>1, <1>2 DEF OfThisRound, GuardsUp
<1> QED
  BY <1>1, <1>2, <1>3, <1>4

LEMMA FewerKept ==
    ASSUME NEW es, NEW ls, NEW fewer \in SUBSET es, Kept(es, ls)
    PROVE  Kept(fewer, ls)
BY DEF Kept

\* An effect that nobody saves against.
LEMMA AppliedKept ==
    ASSUME NEW es, NEW ls, Kept(es, ls), NEW e \in Conditions!Effects, e.source \notin Creatures
    PROVE  Kept(Conditions!Applied(e, es), ls)
BY DEF Kept, Conditions!Applied

LEMMA AfterActionKeeps ==
    ASSUME NEW es, NEW ls, Kept(es, ls), Conditions!AfterAction(es, ls)
    PROVE  /\ effects' \subseteq es /\ effects' \subseteq Conditions!Effects
           /\ listed' \subseteq Conditions!Effects /\ shown' \subseteq Conditions!Names
           /\ Conditions!SavesStayOpen'
<1>1. PICK rest \in SUBSET es : Conditions!Commit(rest, ls)
  <2>1. PICK saved : Conditions!Commit({e \in es \ (saved \cup {e \in ls : e.kind = "targetEnd"}) :
                                          ~Conditions!EndsAt(e, "targetEnd", boutRound)}, ls)
    BY DEF Conditions!AfterAction
  <2> QED
    BY <2>1
<1>2. Kept(rest, ls)
  BY FewerKept
<1> QED
  BY <1>1, <1>2, CommitKeeps

\* There is a first of those that live, and the next of them.
LEMMA LiveOne ==
    ASSUME EffectsInv, NEW i, NEW k \in Conditions!LiveAfter(i)
    PROVE  enemies[Conditions!Min(Conditions!LiveAfter(i))] \in boutAlive
<1>1. DOMAIN enemies \subseteq Nat
  BY DEF EffectsInv, Conditions!TypeOK
<1>2. Conditions!LiveAfter(i) \in SUBSET Nat /\ Conditions!LiveAfter(i) # {}
  BY <1>1 DEF Conditions!LiveAfter
<1>3. \E m \in Conditions!LiveAfter(i) : \A n \in Conditions!LiveAfter(i) : m <= n
  BY <1>2, LeastNumber
<1>4. Conditions!Min(Conditions!LiveAfter(i)) \in Conditions!LiveAfter(i)
  BY <1>3 DEF Conditions!Min
<1> QED
  BY <1>4 DEF Conditions!LiveAfter

LEMMA FirstLives ==
    ASSUME EffectsInv, Conditions!Fighting
    PROVE  Conditions!FirstLive \in boutAlive
<1>1. boutAlive # {} /\ boutAlive \subseteq Conditions!Range(enemies) /\ enemies \in Seq(Creatures)
  BY DEF EffectsInv, Conditions!TypeOK, Conditions!Fighting
<1>2. PICK k \in DOMAIN enemies : enemies[k] \in boutAlive
  BY <1>1 DEF Conditions!Range
<1>3. k \in Conditions!LiveAfter(0)
  BY <1>1, <1>2 DEF Conditions!LiveAfter
<1> QED
  BY <1>3, LiveOne DEF Conditions!FirstLive

LEMMA AfterLives ==
    ASSUME EffectsInv, NEW f
    PROVE  Conditions!After(f) \in boutAlive \cup {"hero"}
BY LiveOne DEF Conditions!After, Conditions!Hero

\* The turn is handed on; a new round begins with what is not over.
LEMMA NextTurnKeeps ==
    ASSUME EffectsInv, Conditions!Fighting, NEW f, NEW es, NEW ls, NEW rs,
           Kept(es, ls), OfThisRound(es),
           rs \in [Creatures -> {"ready", "spent", "tried"}],
           Conditions!NextTurn(f, es, ls, rs), UNCHANGED <<enemies, boutAlive, minutes>>
    PROVE  EffectsInv' /\ Conditions!TurnsBeginClean
<1> USE DEF Conditions!NextTurn
<1>1. active' \in boutAlive \cup {"hero"} /\ active' = Conditions!After(f)
  BY AfterLives
<1>2. /\ boutAlive # {} /\ boutAlive \subseteq Creatures /\ boutRound \in 0..BoutRounds
      /\ boutAlive \subseteq Conditions!Range(enemies) /\ enemies \in Seq(Creatures)
      /\ minutes \in 0..MaxMinutes /\ boutSpent \subseteq {"action", "bonus"}
  BY DEF EffectsInv, Conditions!TypeOK, Conditions!Fighting, Conditions!Range
<1>3. active' # "none" /\ (active' \in Creatures => active' \in boutAlive)
  BY <1>1, <1>2, ProgramAssumption
<1>4. CASE active' = "hero"
  <2> DEFINE rest == Conditions!AtTurnStart(es, ls, boutRound + 1)
  <2>1. /\ boutRound < BoutRounds /\ boutRound' = boutRound + 1 /\ boutSpent' = {}
        /\ resource' = [g \in Creatures |-> IF rs[g] = "tried" THEN "spent" ELSE rs[g]]
        /\ Conditions!Commit(rest, ls)
    BY <1>1, <1>4 DEF Conditions!Hero
  <2>2. rest \in SUBSET es
    BY DEF Conditions!AtTurnStart
  <2>3. \A e \in rest : /\ e.source \notin Conditions!DeadSources
                        /\ ~Conditions!FixedOver(e, boutRound + 1)
                        /\ ~(e.kind = "targetStart" /\ boutRound + 1 >= e.round + 1)
    BY DEF Conditions!AtTurnStart, Conditions!EndsAt
  <2>4. \A e \in rest : e.kind # "targetStart"
    BY <1>2, <2>2, <2>3 DEF OfThisRound
  <2> HIDE DEF rest
  <2>5. Kept(rest, ls)
    BY <2>2, FewerKept
  <2>6. /\ effects' = rest /\ effects' \subseteq Conditions!Effects
        /\ listed' \subseteq Conditions!Effects /\ shown' \subseteq Conditions!Names
        /\ Conditions!SavesStayOpen'
    BY <2>1, <2>5, CommitKeeps
  <2>7. boutRound' \in 0..BoutRounds /\ resource' \in [Creatures -> {"ready", "spent", "tried"}]
    BY <1>2, <2>1, ProgramAssumption
  <2>8. Conditions!TypeOK'
    BY <1>2, <1>3, <1>4, <2>1, <2>6, <2>7 DEF Conditions!TypeOK, Conditions!Hero, Conditions!Range
  <2>9. GuardsUp'
    BY <2>4, <2>6 DEF GuardsUp
  <2>10. Conditions!TurnsBeginClean
    BY <2>1, <2>3, <2>4, <2>6 DEF Conditions!TurnsBeginClean, Conditions!DeadSources
  <2> QED
    BY <2>6, <2>8, <2>9, <2>10 DEF EffectsInv
<1>5. CASE active' # "hero"
  <2>1. resource' = rs /\ boutRound' = boutRound /\ boutSpent' = boutSpent /\ Conditions!Commit(es, ls)
    BY <1>1, <1>5 DEF Conditions!Hero
  <2>2. /\ effects' = es /\ effects' \subseteq Conditions!Effects
        /\ listed' \subseteq Conditions!Effects /\ shown' \subseteq Conditions!Names
        /\ Conditions!SavesStayOpen'
    BY <2>1, CommitKeeps
  <2>3. Conditions!TypeOK'
    BY <1>1, <1>2, <1>3, <2>1, <2>2 DEF Conditions!TypeOK, Conditions!Hero, Conditions!Range
  <2>4. GuardsUp'
    BY <1>3, <1>5, <2>1, <2>2 DEF GuardsUp, OfThisRound, Conditions!Fighting
  <2>5. Conditions!TurnsBeginClean
    BY <1>2, <2>1 DEF Conditions!TurnsBeginClean
  <2> QED
    BY <2>2, <2>3, <2>4, <2>5 DEF EffectsInv
<1> QED
  BY <1>4, <1>5

\* Within a round: the hero acts, strikes, or hands the turn over.
LEMMA SameRoundKeeps ==
    ASSUME EffectsInv,
           effects' \subseteq Conditions!Effects, listed' \subseteq Conditions!Effects,
           shown' \subseteq Conditions!Names, Conditions!SavesStayOpen',
           \A e \in effects' : e.kind = "targetStart" =>
               e \in effects \/ (Conditions!Fighting /\ e.round = boutRound /\ "action" \in boutSpent'),
           boutSpent \subseteq boutSpent', boutSpent' \subseteq {"action", "bonus"},
           UNCHANGED <<enemies, boutRound>>,
           resource' \in [Creatures -> {"ready", "spent", "tried"}], minutes' \in 0..MaxMinutes,
           \/ UNCHANGED <<active, boutAlive>>
           \/ Conditions!Fighting /\ active' \in boutAlive /\ UNCHANGED boutAlive
           \/ /\ active = "hero" /\ "action" \notin boutSpent
              /\ \A e \in effects' : e.kind = "targetStart" => e \in effects
              /\ \E f \in boutAlive : Conditions!Strike(f)
    PROVE  EffectsInv' /\ Conditions!TurnsBeginClean
<1>1. /\ boutAlive \subseteq Conditions!Range(enemies) /\ enemies \in Seq(Creatures)
      /\ boutAlive \subseteq Creatures
      /\ active \in {"hero", "none"} \cup Creatures /\ (active \in Creatures => active \in boutAlive)
      /\ (active = "none") = (boutAlive = {}) /\ boutRound \in 0..BoutRounds
  BY DEF EffectsInv, Conditions!TypeOK, Conditions!Range, Conditions!Hero
<1>2. Conditions!TurnsBeginClean
  BY <1>1, ProgramAssumption DEF Conditions!TurnsBeginClean
<1>3. CASE UNCHANGED <<active, boutAlive>>
  <2>1. Conditions!TypeOK'
    BY <1>1, <1>3 DEF Conditions!TypeOK, Conditions!Range, Conditions!Hero
  <2>2. GuardsUp'
    BY <1>3 DEF EffectsInv, GuardsUp, Conditions!Fighting
  <2> QED
    BY <1>2, <2>1, <2>2 DEF EffectsInv
<1>4. CASE Conditions!Fighting /\ active' \in boutAlive /\ UNCHANGED boutAlive
  <2>1. active' \in Creatures /\ active' \notin {"hero", "none"}
    BY <1>1, <1>4, ProgramAssumption
  <2>2. Conditions!TypeOK'
    BY <1>1, <1>4, <2>1 DEF Conditions!TypeOK, Conditions!Range, Conditions!Hero
  <2>3. GuardsUp'
    BY <1>4, <2>1 DEF EffectsInv, GuardsUp, Conditions!Fighting
  <2> QED
    BY <1>2, <2>2, <2>3 DEF EffectsInv
<1>5. CASE /\ active = "hero" /\ "action" \notin boutSpent
           /\ \A e \in effects' : e.kind = "targetStart" => e \in effects
           /\ \E f \in boutAlive : Conditions!Strike(f)
  <2>1. PICK f \in boutAlive : /\ boutAlive' = boutAlive \ {f}
                               /\ active' = IF boutAlive = {f} THEN "none" ELSE "hero"
    BY <1>5 DEF Conditions!Strike, Conditions!Hero
  <2>2. active' \in {"hero", "none"} /\ ((active' = "none") = (boutAlive' = {}))
        /\ active' \notin Creatures /\ boutAlive' \subseteq boutAlive
    BY <2>1, ProgramAssumption
  <2>3. Conditions!TypeOK'
    BY <1>1, <2>2 DEF Conditions!TypeOK, Conditions!Range, Conditions!Hero
  <2>4. \A e \in effects' : e.kind # "targetStart"
    BY <1>5 DEF EffectsInv, GuardsUp
  <2>5. GuardsUp'
    BY <2>4 DEF GuardsUp
  <2> QED
    BY <1>2, <2>3, <2>5 DEF EffectsInv
<1> QED
  BY <1>3, <1>4, <1>5

LEMMA LastingTyped ==
    ASSUME EffectsInv, NEW n \in Conditions!Names, NEW from \in Creatures \cup {"hero"},
           NEW kind \in Conditions!Kinds, NEW amount \in Nat, NEW again \in BOOLEAN
    PROVE  /\ Conditions!Lasting(n, from, kind, amount, again) \in Conditions!Effects
           /\ Conditions!Lasting(n, from, kind, amount, again).source = from
           /\ Conditions!Lasting(n, from, kind, amount, again).kind = kind
           /\ Conditions!Lasting(n, from, kind, amount, again).name = n
           /\ Conditions!Lasting(n, from, kind, amount, again).round = boutRound
BY ProgramAssumption DEF EffectsInv, Conditions!TypeOK, Conditions!Lasting, Conditions!Effects,
      Conditions!Hero

LEMMA ActKeeps ==
    ASSUME EffectsInv, Conditions!Act
    PROVE  EffectsInv' /\ Conditions!TurnsBeginClean
<1> DEFINE dodge == Conditions!Lasting("dodging", "hero", "targetStart", 1, FALSE)
<1>1. /\ active = "hero" /\ Conditions!Fighting /\ "action" \notin boutSpent
      /\ boutSpent' = boutSpent \cup {"action"} /\ boutSpent \subseteq {"action", "bonus"}
      /\ UNCHANGED <<enemies, boutRound, resource, minutes>>
      /\ resource \in [Creatures -> {"ready", "spent", "tried"}] /\ minutes \in 0..MaxMinutes
  BY DEF Conditions!Act, Conditions!Hero, Conditions!Fighting, EffectsInv, Conditions!TypeOK
<1>2. dodge \in Conditions!Effects /\ dodge.source = "hero" /\ dodge.round = boutRound
  <2>1. "dodging" \in Conditions!Names /\ "targetStart" \in Conditions!Kinds
    BY DEF Conditions!Names, Conditions!Kinds
  <2> QED
    BY <2>1, ProgramAssumption DEF Conditions!Lasting, Conditions!Effects, Conditions!Hero,
          EffectsInv, Conditions!TypeOK
<1> HIDE DEF dodge
<1>3. \A e \in Conditions!Loaded : e.kind = "targetStart" => e \in effects
  BY LoadedKept
<1>4. CASE Conditions!AfterAction(Conditions!Loaded, listed)
           /\ (UNCHANGED <<active, boutAlive>> \/ \E f \in boutAlive : Conditions!Strike(f))
  <2>1. /\ effects' \subseteq Conditions!Loaded /\ effects' \subseteq Conditions!Effects
        /\ listed' \subseteq Conditions!Effects /\ shown' \subseteq Conditions!Names
        /\ Conditions!SavesStayOpen'
    BY <1>4, LoadedKept, AfterActionKeeps
  <2>2. \A e \in effects' : e.kind = "targetStart" => e \in effects
    BY <1>3, <2>1
  <2> QED
    BY <1>1, <1>4, <2>1, <2>2, SameRoundKeeps
<1>5. CASE Conditions!AfterAction(Conditions!Applied(dodge, Conditions!Loaded), listed)
           /\ UNCHANGED <<active, boutAlive>>
  <2>1. dodge.source \notin Creatures
    BY <1>2, ProgramAssumption
  <2>2. Kept(Conditions!Applied(dodge, Conditions!Loaded), listed)
    BY <1>2, <2>1, LoadedKept, AppliedKept
  <2>3. /\ effects' \subseteq Conditions!Applied(dodge, Conditions!Loaded)
        /\ effects' \subseteq Conditions!Effects
        /\ listed' \subseteq Conditions!Effects /\ shown' \subseteq Conditions!Names
        /\ Conditions!SavesStayOpen'
    BY <1>5, <2>2, AfterActionKeeps
  <2>4. effects' \subseteq Conditions!Loaded \cup {dodge}
    BY <2>3 DEF Conditions!Applied
  <2>5. \A e \in effects' : e.kind = "targetStart" => e \in effects \/ e.round = boutRound
    BY <1>2, <1>3, <2>4
  <2> QED
    BY <1>1, <1>5, <2>3, <2>5, SameRoundKeeps
<1> QED
  BY <1>4, <1>5 DEF Conditions!Act, dodge, Conditions!Hero

\* The hero's other steps: what is on him fades, if it changes.
LEMMA HeroStepKeeps ==
    ASSUME EffectsInv,
           \/ Conditions!ActAgain \/ Conditions!CommandCompanion
           \/ Conditions!EndTurn \/ Conditions!Skip
    PROVE  EffectsInv' /\ Conditions!TurnsBeginClean
<1>1. /\ active = "hero" /\ Conditions!Fighting
      /\ boutSpent \subseteq {"action", "bonus"}
      /\ UNCHANGED <<enemies, boutRound, resource, minutes>>
      /\ resource \in [Creatures -> {"ready", "spent", "tried"}] /\ minutes \in 0..MaxMinutes
  BY DEF Conditions!ActAgain, Conditions!CommandCompanion, Conditions!EndTurn, Conditions!Skip,
        Conditions!Hero, Conditions!Fighting, EffectsInv, Conditions!TypeOK
<1>2. Conditions!AfterAction(Conditions!Loaded, listed) \/ Conditions!Commit(Conditions!Loaded, listed)
  BY DEF Conditions!ActAgain, Conditions!CommandCompanion, Conditions!EndTurn, Conditions!Skip
<1>3. /\ effects' \subseteq Conditions!Loaded /\ effects' \subseteq Conditions!Effects
      /\ listed' \subseteq Conditions!Effects /\ shown' \subseteq Conditions!Names
      /\ Conditions!SavesStayOpen'
  BY <1>2, LoadedKept, AfterActionKeeps, CommitKeeps
<1>4. \A e \in effects' : e.kind = "targetStart" => e \in effects
  BY <1>3, LoadedKept
<1>5. /\ boutSpent' \in {boutSpent, boutSpent \cup {"action"}, boutSpent \cup {"bonus"}}
      /\ \/ UNCHANGED <<active, boutAlive>>
         \/ active' \in boutAlive /\ UNCHANGED boutAlive
         \/ "action" \notin boutSpent /\ \E f \in boutAlive : Conditions!Strike(f)
  BY <1>1, FirstLives DEF Conditions!ActAgain, Conditions!CommandCompanion, Conditions!EndTurn,
        Conditions!Skip
<1>6. boutSpent \subseteq boutSpent' /\ boutSpent' \subseteq {"action", "bonus"}
  BY <1>1, <1>5
<1> QED
  BY <1>1, <1>3, <1>4, <1>5, <1>6, SameRoundKeeps

\* A creature's program, with its resource as prepared.
LEMMA UseProgramKeeps ==
    ASSUME EffectsInv, Conditions!Fighting, NEW f \in Creatures, NEW rs,
           rs \in [Creatures -> {"ready", "spent", "tried"}],
           Conditions!UseProgram(f, rs), UNCHANGED <<enemies, boutAlive, minutes>>
    PROVE  EffectsInv' /\ Conditions!TurnsBeginClean
<1> DEFINE p == Program[f]
           e == Conditions!Lasting(p.name, f, p.kind, p.amount, p.repeat)
           used == Conditions!Used(f, rs)
<1>1. used \in [Creatures -> {"ready", "spent", "tried"}]
  BY DEF Conditions!Used
<1>2. e \in Conditions!Effects /\ e.source = f /\ e.name = p.name /\ e.round = boutRound
  <2>1. p.name \in Conditions!Names /\ p.kind \in Conditions!Kinds /\ p.amount \in Nat
        /\ p.repeat \in BOOLEAN
    BY ProgramAssumption DEF Conditions!Names
  <2> QED
    BY <2>1, LastingTyped
<1>3. PICK es, ls : Conditions!Finish(f, es, ls, used) /\ Kept(es, ls) /\ OfThisRound(es)
  <2>1. CASE Conditions!Finish(f, Conditions!Loaded, listed, used)
    BY <2>1, LoadedKept
  <2>2. CASE /\ ~Conditions!Known(e, Conditions!Loaded)
             /\ Conditions!Finish(f, Conditions!Applied(e, Conditions!Loaded),
                                  Conditions!Unlisted(e, listed) \cup {e}, used)
    <3>1. Conditions!Applied(e, Conditions!Loaded) = Conditions!Loaded \cup {e}
      BY <2>2 DEF Conditions!Applied
    <3>2. \A x \in Conditions!Loaded : x \in listed => x \in Conditions!Unlisted(e, listed)
      BY <2>2 DEF Conditions!Known, Conditions!Unlisted
    <3> HIDE DEF e
    <3>3. Kept(Conditions!Loaded \cup {e}, Conditions!Unlisted(e, listed) \cup {e})
      BY <1>2, <3>2, LoadedKept DEF Kept, Conditions!Unlisted
    <3>4. OfThisRound(Conditions!Loaded \cup {e})
      BY <1>2, LoadedKept DEF OfThisRound
    <3> QED
      BY <2>2, <3>1, <3>3, <3>4
  <2> QED
    BY <2>1, <2>2 DEF Conditions!UseProgram, Conditions!Multiattack, Conditions!SaveDamage,
          Conditions!SaveCondition
<1> HIDE DEF used
<1>4. Conditions!AtSourceEnd(f, es, ls) \in SUBSET es
  BY DEF Conditions!AtSourceEnd
<1>5. Kept(Conditions!AtSourceEnd(f, es, ls), ls) /\ OfThisRound(Conditions!AtSourceEnd(f, es, ls))
  BY <1>3, <1>4, FewerKept DEF OfThisRound
<1> QED
  BY <1>1, <1>3, <1>5, NextTurnKeeps DEF Conditions!Finish

LEMMA PerformKeeps ==
    ASSUME EffectsInv, Conditions!Perform
    PROVE  EffectsInv' /\ Conditions!TurnsBeginClean
<1> DEFINE f == Conditions!Acting
<1>1. Conditions!Fighting /\ UNCHANGED <<enemies, boutAlive, minutes>>
  BY DEF Conditions!Perform, Conditions!MayAdvance
<1>2. f \in boutAlive /\ f \in Creatures
  BY <1>1, FirstLives DEF Conditions!Acting, Conditions!Hero, Conditions!Fighting, EffectsInv,
        Conditions!TypeOK, Conditions!Range
<1>3. /\ resource \in [Creatures -> {"ready", "spent", "tried"}] /\ minutes \in 0..MaxMinutes
      /\ boutSpent \subseteq {"action", "bonus"}
  BY DEF EffectsInv, Conditions!TypeOK
<1> HIDE DEF f
<1>4. CASE Conditions!UseProgram(f, resource)
  BY <1>1, <1>2, <1>3, <1>4, UseProgramKeeps
<1>5. CASE Conditions!UseProgram(f, [resource EXCEPT ![f] = "ready"])
  <2>1. [resource EXCEPT ![f] = "ready"] \in [Creatures -> {"ready", "spent", "tried"}]
    BY <1>3
  <2> QED
    BY <1>1, <1>2, <1>5, <2>1, UseProgramKeeps
<1>6. CASE /\ resource' = [resource EXCEPT ![f] = "tried"] /\ active' = f
           /\ Conditions!Commit(Conditions!Loaded, listed)
           /\ UNCHANGED <<boutRound, boutSpent>>
  <2>1. /\ effects' = Conditions!Loaded /\ effects' \subseteq Conditions!Effects
        /\ listed' \subseteq Conditions!Effects /\ shown' \subseteq Conditions!Names
        /\ Conditions!SavesStayOpen'
    BY <1>6, LoadedKept, CommitKeeps
  <2>2. \A e \in effects' : e.kind = "targetStart" => e \in effects
    BY <2>1, LoadedKept
  <2>3. resource' \in [Creatures -> {"ready", "spent", "tried"}]
    BY <1>3, <1>6
  <2> QED
    BY <1>1, <1>2, <1>3, <1>6, <2>1, <2>2, <2>3, SameRoundKeeps
<1> QED
  BY <1>4, <1>5, <1>6 DEF Conditions!Perform, f

LEMMA AttackKeeps ==
    ASSUME EffectsInv, Conditions!Attack
    PROVE  EffectsInv' /\ Conditions!TurnsBeginClean
<1>1. /\ Conditions!Fighting /\ UNCHANGED <<enemies, boutAlive, minutes>>
      /\ Conditions!NextTurn(Conditions!Acting, Conditions!Loaded, listed, resource)
  BY DEF Conditions!Attack, Conditions!MayAdvance
<1>2. resource \in [Creatures -> {"ready", "spent", "tried"}]
  BY DEF EffectsInv, Conditions!TypeOK
<1> QED
  BY <1>1, <1>2, LoadedKept, NextTurnKeeps

\* A fight starts with nothing on the hero that ends with his next turn.
LEMMA StartBoutKeeps ==
    ASSUME EffectsInv, NEW fs \in Encounters, Conditions!Start(fs)
    PROVE  EffectsInv' /\ Conditions!TurnsBeginClean
<1>1. /\ ~Conditions!Fighting /\ Conditions!Commit(Conditions!Loaded, listed)
      /\ enemies' = fs /\ boutAlive' = Conditions!Range(fs) /\ active' = "hero"
      /\ boutRound' = 1 /\ boutSpent' = {} /\ resource' = [f \in Creatures |-> "ready"]
      /\ UNCHANGED minutes
  BY DEF Conditions!Start, Conditions!Hero
<1>2. /\ effects' = Conditions!Loaded /\ effects' \subseteq Conditions!Effects
      /\ listed' \subseteq Conditions!Effects /\ shown' \subseteq Conditions!Names
      /\ Conditions!SavesStayOpen'
  BY <1>1, LoadedKept, CommitKeeps
<1>3. fs \in Seq(Creatures) /\ Conditions!Range(fs) # {}
  <2>1. fs \in Seq(Creatures) /\ fs # <<>>
    BY ProgramAssumption
  <2>2. 1 \in DOMAIN fs
    BY <2>1
  <2> QED
    BY <2>1, <2>2 DEF Conditions!Range
<1>4. Conditions!TypeOK'
  <2>1. enemies' \in Seq(Creatures) /\ boutAlive' \subseteq Conditions!Range(enemies')
    BY <1>1, <1>3
  <2>2. (active' = "none") = (boutAlive' = {}) /\ "hero" \notin Creatures
    BY <1>1, <1>3, ProgramAssumption
  <2>3. boutRound' \in 0..BoutRounds
    BY <1>1, ProgramAssumption
  <2> QED
    BY <1>1, <1>2, <2>1, <2>2, <2>3 DEF EffectsInv, Conditions!TypeOK, Conditions!Hero,
          Conditions!Range
<1>5. GuardsUp'
  BY <1>1, <1>2, LoadedKept DEF GuardsUp, OfThisRound
<1> QED
  BY <1>1, <1>2, <1>4, <1>5 DEF EffectsInv, Conditions!TurnsBeginClean

LEMMA ImproviseKeeps ==
    ASSUME EffectsInv, NEW n \in Improvised, NEW k \in {"rounds", "persistent"},
           Conditions!Improvise(n, k)
    PROVE  EffectsInv' /\ Conditions!TurnsBeginClean
<1> DEFINE e == Conditions!Lasting(n, "hero", k, 1, FALSE)
<1>1. e \in Conditions!Effects /\ e.source \notin Creatures /\ e.kind # "targetStart"
  <2>1. n \in Conditions!Names /\ k \in Conditions!Kinds
    BY DEF Conditions!Names, Conditions!Kinds
  <2> QED
    BY <2>1, ProgramAssumption DEF Conditions!Lasting, Conditions!Effects, Conditions!Hero,
          EffectsInv, Conditions!TypeOK
<1>2. /\ Conditions!Commit(Conditions!Applied(e, Conditions!Loaded), listed)
      /\ UNCHANGED <<enemies, boutAlive, active, boutRound, boutSpent, resource, minutes>>
  BY DEF Conditions!Improvise, Conditions!Hero
<1> HIDE DEF e
<1>3. Kept(Conditions!Applied(e, Conditions!Loaded), listed)
  BY <1>1, LoadedKept, AppliedKept
<1>4. /\ effects' = Conditions!Applied(e, Conditions!Loaded) /\ effects' \subseteq Conditions!Effects
      /\ listed' \subseteq Conditions!Effects /\ shown' \subseteq Conditions!Names
      /\ Conditions!SavesStayOpen'
  BY <1>2, <1>3, CommitKeeps
<1>5. \A x \in effects' : x.kind = "targetStart" => x \in effects
  BY <1>1, <1>4, LoadedKept DEF Conditions!Applied
<1>6. /\ resource \in [Creatures -> {"ready", "spent", "tried"}] /\ minutes \in 0..MaxMinutes
      /\ boutSpent \subseteq {"action", "bonus"}
  BY DEF EffectsInv, Conditions!TypeOK
<1> QED
  BY <1>2, <1>4, <1>5, <1>6, SameRoundKeeps

\* Time passes, and what it makes due ends.
LEMMA TimeKeeps ==
    ASSUME EffectsInv, Conditions!PassTime(1) \/ Conditions!Rest(1)
    PROVE  EffectsInv' /\ Conditions!TurnsBeginClean
<1>1. /\ minutes' = minutes + 1 /\ minutes + 1 <= MaxMinutes
      /\ UNCHANGED <<enemies, boutAlive, active, boutRound, boutSpent, resource>>
  BY DEF Conditions!PassTime, Conditions!Rest
<1>2. /\ resource \in [Creatures -> {"ready", "spent", "tried"}] /\ minutes \in 0..MaxMinutes
      /\ boutSpent \subseteq {"action", "bonus"}
  BY DEF EffectsInv, Conditions!TypeOK
<1>3. minutes' \in 0..MaxMinutes
  BY <1>1, <1>2, ProgramAssumption
<1>4. Conditions!Pass(1) \in SUBSET Conditions!Loaded
  BY DEF Conditions!Pass
<1>5. Kept(Conditions!Pass(1), listed) /\ Kept(Conditions!Loaded, listed)
  BY <1>4, LoadedKept, FewerKept
<1>6. /\ effects' = Conditions!Pass(1) /\ effects' \subseteq Conditions!Effects
      /\ listed' \subseteq Conditions!Effects /\ shown' \subseteq Conditions!Names
      /\ Conditions!SavesStayOpen'
  <2>1. CASE Conditions!Rest(1)
    BY <1>5, <2>1, CommitKeeps DEF Conditions!Rest
  <2>2. CASE Conditions!PassTime(1)
    <3>1. effects' = Conditions!Pass(1) /\ listed' = listed \cap Conditions!Loaded
          /\ shown' = Conditions!ShownBy(Conditions!Loaded)
      BY <2>2 DEF Conditions!PassTime, Conditions!Current
    <3>2. shown' \subseteq Conditions!Names
      BY <1>5, <3>1 DEF Conditions!ShownBy, Kept, Conditions!Effects
    <3>3. Conditions!SavesStayOpen'
      BY <1>4, <1>5, <3>1 DEF Conditions!SavesStayOpen, Kept
    <3> QED
      BY <1>5, <3>1, <3>2, <3>3 DEF Kept
  <2> QED
    BY <2>1, <2>2
<1>7. \A x \in effects' : x.kind = "targetStart" => x \in effects
  BY <1>4, <1>6, LoadedKept
<1> QED
  BY <1>1, <1>2, <1>3, <1>6, <1>7, SameRoundKeeps

LEMMA NextEffects ==
    ASSUME EffectsInv, Conditions!Next
    PROVE  EffectsInv' /\ Conditions!TurnsBeginClean
BY ActKeeps, HeroStepKeeps, PerformKeeps, AttackKeeps, StartBoutKeeps, ImproviseKeeps, TimeKeeps
   DEF Conditions!Next

LEMMA InitEffects == Conditions!Init => EffectsInv
<1> SUFFICES ASSUME Conditions!Init PROVE EffectsInv
  OBVIOUS
<1> USE DEF Conditions!Init
<1>1. Conditions!TypeOK
  <2>1. 0 \in 0..BoutRounds /\ 0 \in 0..MaxMinutes /\ "none" \notin Creatures
    BY ProgramAssumption
  <2>2. enemies \in Seq(Creatures) /\ boutAlive \subseteq Conditions!Range(enemies)
    OBVIOUS
  <2> QED
    BY <2>1, <2>2 DEF Conditions!TypeOK
<1>2. Conditions!SavesStayOpen /\ GuardsUp
  BY DEF Conditions!SavesStayOpen, GuardsUp
<1> QED
  BY <1>1, <1>2 DEF EffectsInv

-----------------------------------------------------------------------------
(* Guards and their surrender.                                               *)

\* Finitely many can be put in an order.
LEMMA Numbered ==
    ASSUME NEW S, IsFiniteSet(S)
    PROVE  /\ Cardinality(S) \in Nat
           /\ \E r \in [S -> 1..Cardinality(S)] :
                /\ r \in Injection(S, 1..Cardinality(S))
                /\ \A f, g \in S : f # g => r[f] # r[g]
<1>1. Cardinality(S) \in Nat /\ ExistsBijection(1..Cardinality(S), S)
  BY FS_CardinalityType
<1>2. PICK b \in Bijection(1..Cardinality(S), S) : TRUE
  BY <1>1 DEF ExistsBijection
<1>3. Inverse(b, 1..Cardinality(S), S) \in Bijection(S, 1..Cardinality(S))
  BY <1>2, Fun_BijInverse
<1>4. PICK r : r = Inverse(b, 1..Cardinality(S), S)
  OBVIOUS
<1>5. r \in Injection(S, 1..Cardinality(S))
  BY <1>3, <1>4 DEF Bijection
<1>6. r \in [S -> 1..Cardinality(S)] /\ \A f, g \in S : f # g => r[f] # r[g]
  BY <1>5 DEF Injection, IsInjective
<1> QED
  BY <1>1, <1>5, <1>6

\* There is a first of any guards.
LEMMA FirstGuard ==
    ASSUME NEW S \in SUBSET Watch, S # {}
    PROVE  GuardEncounter!First(S) \in S
<1>1. PICK n : n = Cardinality(Watch)
  OBVIOUS
<1>2. GuardEncounter!Rank \in [Watch -> Nat]
  <2>1. n \in Nat /\ \E r \in [Watch -> 1..n] : r \in Injection(Watch, 1..n)
    BY <1>1, WatchAssumption, Numbered
  <2>2. PICK ranks : ranks = GuardEncounter!Injection(Watch, 1..n)
    OBVIOUS
  <2>3. ranks = Injection(Watch, 1..n)
    BY <2>2 DEF GuardEncounter!Injection, GuardEncounter!IsInjective, Injection, IsInjective
  <2>4. GuardEncounter!Rank = CHOOSE r \in ranks : TRUE
    <3>1. GuardEncounter!Cardinality(Watch) = n
      BY <1>1 DEF GuardEncounter!Cardinality, Cardinality
    <3> QED
      BY <2>2, <3>1 DEF GuardEncounter!Rank
  <2>5. GuardEncounter!Rank \in Injection(Watch, 1..n)
    BY <2>1, <2>3, <2>4
  <2>6. Injection(Watch, 1..n) \subseteq [Watch -> Nat]
    BY <2>1 DEF Injection
  <2> QED
    BY <2>5, <2>6
<1>3. PICK r \in [Watch -> Nat] : r = GuardEncounter!Rank
  BY <1>2
<1>4. PICK m \in {r[g] : g \in S} : \A k \in {r[g] : g \in S} : m <= k
  <2>1. {r[g] : g \in S} \in SUBSET Nat /\ {r[g] : g \in S} # {}
    OBVIOUS
  <2> QED
    BY <2>1, LeastNumber
<1>5. PICK g \in S : \A h \in S : r[g] <= r[h]
  BY <1>4
<1> QED
  BY <1>3, <1>5 DEF GuardEncounter!First

LEMMA Remainders ==
    ASSUME NEW n \in Nat \ {0}, NEW x \in 0..n - 1
    PROVE  x % n = x /\ (x + n) % n = x
<1>1. x % n = x
  BY SMT
<1>2. (x + n) % n = x
  BY SMT
<1> QED
  BY <1>1, <1>2

LEMMA AroundTheOrder ==
    ASSUME NEW n \in Nat, NEW a \in 1..n, NEW h \in 1..n
    PROVE  \E k \in 1..n : ((a - 1 + k) % n) + 1 = h
<1>1. PICK x \in 0..n - 1 : x = h - 1
  OBVIOUS
<1>2. n \in Nat \ {0}
  OBVIOUS
<1>3. x % n = x /\ (x + n) % n = x
  BY <1>2, Remainders
<1>4. PICK k \in 1..n : a - 1 + k = x \/ a - 1 + k = x + n
  <2>1. CASE h > a
    <3>1. h - a \in 1..n /\ a - 1 + (h - a) = x
      BY <1>1, <2>1
    <3> QED
      BY <3>1
  <2>2. CASE ~(h > a)
    <3>1. h - a + n \in 1..n /\ a - 1 + (h - a + n) = x + n
      BY <1>1, <2>2
    <3> QED
      BY <3>1
  <2> QED
    BY <2>1, <2>2
<1>5. (a - 1 + k) % n = x
  <2>1. PICK y : y = a - 1 + k
    OBVIOUS
  <2>2. CASE y = x
    BY <1>3, <2>1, <2>2
  <2>3. CASE y = x + n
    BY <1>3, <2>1, <2>3
  <2> QED
    BY <1>4, <2>1, <2>2, <2>3
<1>6. ((a - 1 + k) % n) + 1 = h
  <2>1. PICK y : y = (a - 1 + k) % n
    OBVIOUS
  <2> QED
    BY <1>1, <1>5, <2>1
<1> QED
  BY <1>6

\* The turn goes to one who is there, or to the hero.
LEMMA NextActorLives ==
    ASSUME NEW f, f.order \in Orders, NEW from \in Watch \cup {"hero"}, NEW here
    PROVE  GuardEncounter!NextActor(f, from, here) \in here \cup {"hero"}
<1> DEFINE o == f.order
           n == Len(o)
           a == CHOOSE i \in 1..n : o[i] = from
           Here(k) == o[((a - 1 + k) % n) + 1] \in here \cup {"hero"}
           first == CHOOSE k \in 1..n : Here(k) /\ \A j \in 1..(k - 1) : ~Here(j)
           Ks == {k \in 1..n : Here(k)}
<1>1. GuardEncounter!NextActor(f, from, here) = o[((a - 1 + first) % n) + 1]
  BY Zenon DEF GuardEncounter!NextActor, GuardEncounter!Hero
<1> HIDE DEF first, o
<1>2. /\ o \in Seq(Watch \cup {"hero"})
      /\ \A x \in Watch \cup {"hero"} : \E i \in DOMAIN o : o[i] = x
  BY WatchAssumption DEF o
<1>3. n \in Nat /\ DOMAIN o = 1..n
  BY <1>2
<1> HIDE DEF n
<1>4. a \in 1..n
  BY <1>2, <1>3
<1> HIDE DEF a
<1>5. PICK h \in 1..n : o[h] = "hero"
  BY <1>2, <1>3
<1>6. \E k \in 1..n : Here(k)
  <2>1. PICK k \in 1..n : ((a - 1 + k) % n) + 1 = h
    BY <1>3, <1>4, AroundTheOrder
  <2> QED
    BY <1>5, <2>1
<1>7. PICK m \in Ks : \A k \in Ks : m <= k
  <2>1. Ks \in SUBSET Nat /\ Ks # {}
    BY <1>6
  <2> HIDE DEF Ks
  <2> QED
    BY <2>1, LeastNumber
<1>8. m \in 1..n /\ Here(m) /\ \A j \in 1..(m - 1) : ~Here(j)
  BY <1>3, <1>7
<1>9. Here(first)
  <2> HIDE DEF Here
  <2>1. \E k \in 1..n : Here(k) /\ \A j \in 1..(k - 1) : ~Here(j)
    BY <1>8
  <2> QED
    BY <2>1, Zenon DEF first
<1> QED
  BY <1>1, <1>9

\* A step of a fight that goes on: the hero is free, and no outcome stands yet.
LEMMA FightKeeps ==
    ASSUME WatchInv, GuardEncounter!Going, UNCHANGED <<held, fled>>,
           WatchTyped', TurnsTaken', GuardEncounter!OneOfferEach'
    PROVE  WatchInv' /\ GuardEncounter!OutcomeStands
<1>1. fight.outcome = "none" /\ held["hero"] = 0
  BY DEF WatchInv, TurnsTaken, GuardEncounter!CustodyOutsideCombat, GuardEncounter!Free,
         GuardEncounter!Hero
<1>2. GuardEncounter!CustodyOutsideCombat' /\ GuardEncounter!FreedTogether'
  BY <1>1 DEF WatchInv, GuardEncounter!CustodyOutsideCombat, GuardEncounter!Free,
              GuardEncounter!FreedTogether, GuardEncounter!Hero, GuardEncounter!Wolf
<1>3. GuardEncounter!OutcomeStands
  BY <1>1 DEF GuardEncounter!OutcomeStands, GuardEncounter!NoOne
<1> QED
  BY <1>2, <1>3 DEF WatchInv

\* The offer of a guard who made none before.
LEMMA OfferedOnce ==
    ASSUME WatchInv, NEW g \in Watch, ~GuardEncounter!Offered(fight, g),
           fight'.offers = Append(fight.offers, [target |-> g, status |-> "offered"])
    PROVE  fight'.offers \in Seq(Offers) /\ GuardEncounter!OneOfferEach' /\ GuardEncounter!Open(fight, g)'
<1> DEFINE offer == [target |-> g, status |-> "offered"]
<1>1. PICK os \in Seq(Offers) : os = fight.offers
  BY DEF WatchInv, WatchTyped, FightRows
<1>2. offer \in Offers /\ offer.target = g
  BY DEF Offers
<1> HIDE DEF offer
<1>3. PICK n \in Nat : n = Len(os) /\ DOMAIN os = 1..n
  BY <1>1
<1>4. PICK new : new = Append(os, offer)
  OBVIOUS
<1>5. /\ new \in Seq(Offers) /\ DOMAIN new = 1..(n + 1)
      /\ \A i \in 1..n : new[i] = os[i]
      /\ new[n + 1] = offer
  BY <1>1, <1>2, <1>3, <1>4, AppendProperties
<1>6. fight'.offers = new
  BY <1>1, <1>4 DEF offer
<1>7. \A i \in 1..n : os[i].target # g
  BY <1>1, <1>3 DEF GuardEncounter!Offered
<1>8. \A i, j \in 1..n : os[i].target = os[j].target => i = j
  BY <1>1, <1>3 DEF WatchInv, GuardEncounter!OneOfferEach
<1>9. \A i, j \in 1..(n + 1) : new[i].target = new[j].target => i = j
  BY <1>2, <1>5, <1>7, <1>8
<1>10. n + 1 \in 1..(n + 1)
  OBVIOUS
<1> QED
  BY <1>5, <1>6, <1>9, <1>10 DEF GuardEncounter!OneOfferEach, GuardEncounter!Open, offer

\* A blow, before anything follows from it.
LEMMA StruckTyped ==
    ASSUME WatchInv, NEW g \in Watch, NEW d \in 0..2
    PROVE  GuardEncounter!Struck(g, d) \in [Watch -> 0..2]
BY DEF WatchInv, WatchTyped, GuardEncounter!Struck

LEMMA GuardAttackKeeps ==
    ASSUME WatchInv, NEW g \in Watch, NEW d \in 0..2, GuardEncounter!Attack(g, d)
    PROVE  WatchInv' /\ GuardEncounter!OutcomeStands
<1> USE DEF GuardEncounter!Attack, GuardEncounter!MayAttack, GuardEncounter!HeroTurn,
            GuardEncounter!Hero, GuardEncounter!NoOne
<1> DEFINE f == [fight EXCEPT !.action = TRUE]
<1>1. /\ GuardEncounter!Going /\ fight \in FightRows /\ fight.active = "hero"
      /\ fight.phase # "resolving" /\ ~fight.action
      /\ fight.order \in Orders /\ fight.outcome = "none" /\ strikes = 0
  BY DEF WatchInv, WatchTyped, TurnsTaken
<1>2. guardHp' \in [Watch -> 0..2] /\ UNCHANGED <<captured, wolf, held, source, bounds, fled>>
      /\ strikes' = 1
  BY <1>1, StruckTyped
<1>3. /\ f \in FightRows /\ f.action /\ f.active = "hero" /\ f.phase = fight.phase
      /\ f.order = fight.order /\ f.outcome = "none" /\ f.offers = fight.offers
      /\ f.status = "active"
  BY <1>1 DEF FightRows, GuardEncounter!Going
<1> HIDE DEF f
<1>4. CASE fight' = f
  <2>1. WatchTyped'
    <3>1. fight' \in FightRows
      BY <1>3, <1>4
    <3> QED
      BY <1>2, <3>1 DEF WatchInv, WatchTyped
  <2>2. TurnsTaken'
    BY <1>1, <1>3, <1>4 DEF TurnsTaken
  <2>3. GuardEncounter!OneOfferEach'
    BY <1>3, <1>4 DEF WatchInv, GuardEncounter!OneOfferEach
  <2> QED
    BY <1>1, <1>2, <2>1, <2>2, <2>3, FightKeeps
<1>5. CASE fight' = [f EXCEPT !.status = "ended", !.active = "none", !.phase = "terminal",
                              !.outcome = "killed"]
  <2>1. fight' \in FightRows /\ fight'.status = "ended" /\ fight'.offers = fight.offers
    BY <1>3, <1>5 DEF FightRows
  <2>2. WatchTyped'
    BY <1>2, <2>1 DEF WatchInv, WatchTyped
  <2>3. TurnsTaken'
    BY <2>1 DEF TurnsTaken, GuardEncounter!Going
  <2>4. GuardEncounter!OneOfferEach'
    BY <2>1 DEF WatchInv, GuardEncounter!OneOfferEach
  <2> QED
    BY <1>1, <1>2, <2>2, <2>3, <2>4, FightKeeps
<1>6. ASSUME NEW h \in Watch, ~GuardEncounter!Offered(f, h),
             fight' = [f EXCEPT !.phase = "resolving",
                                !.offers = Append(@, [target |-> h, status |-> "offered"])]
      PROVE  WatchInv' /\ GuardEncounter!OutcomeStands
  <2>1. fight'.offers = Append(fight.offers, [target |-> h, status |-> "offered"])
    BY <1>3, <1>6 DEF FightRows
  <2>2. ~GuardEncounter!Offered(fight, h)
    BY <1>3, <1>6 DEF GuardEncounter!Offered
  <2>3. fight'.offers \in Seq(Offers) /\ GuardEncounter!OneOfferEach' /\ GuardEncounter!Open(fight, h)'
    BY <2>1, <2>2, OfferedOnce
  <2>4. /\ fight' \in FightRows /\ fight'.action /\ fight'.active = "hero"
        /\ fight'.order = fight.order /\ fight'.outcome = "none"
    BY <1>3, <1>6, <2>1, <2>3 DEF FightRows
  <2>5. WatchTyped'
    BY <1>2, <2>4 DEF WatchInv, WatchTyped
  <2>6. TurnsTaken'
    BY <1>1, <2>3, <2>4 DEF TurnsTaken
  <2> QED
    BY <1>1, <1>2, <2>3, <2>5, <2>6, FightKeeps
<1>7. fight' = IF guardHp'[g] = 0 THEN GuardEncounter!Defeated(f, guardHp') ELSE f
  BY DEF f
<1>8. CASE fight' = GuardEncounter!Defeated(f, guardHp')
  <2> DEFINE some == GuardEncounter!Wavering(f, guardHp', captured)
             h == GuardEncounter!First(some)
  <2>1. CASE GuardEncounter!Alive(guardHp', captured) = {}
    BY <1>5, <1>8, <2>1 DEF GuardEncounter!Defeated
  <2>2. CASE GuardEncounter!Alive(guardHp', captured) # {} /\ some = {}
    BY <1>4, <1>8, <2>2 DEF GuardEncounter!Defeated
  <2>3. CASE GuardEncounter!Alive(guardHp', captured) # {} /\ some # {}
    <3>1. some \in SUBSET Watch /\ \A x \in some : ~GuardEncounter!Offered(f, x)
      BY DEF GuardEncounter!Wavering, GuardEncounter!Alive
    <3>2. h \in some
      <4> HIDE DEF some
      <4> QED
        BY <2>3, <3>1, FirstGuard
    <3>3. fight' = [f EXCEPT !.phase = "resolving",
                             !.offers = Append(@, [target |-> h, status |-> "offered"])]
      BY <1>8, <2>3 DEF GuardEncounter!Defeated
    <3>4. h \in Watch /\ ~GuardEncounter!Offered(f, h)
      BY <3>1, <3>2
    <3> HIDE DEF h, some
    <3> QED
      BY <1>6, <3>3, <3>4
  <2> QED
    BY <2>1, <2>2, <2>3
<1> QED
  BY <1>4, <1>7, <1>8

LEMMA CastKeeps ==
    ASSUME WatchInv, NEW g \in Watch, NEW d \in 0..2, GuardEncounter!Cast(g, d)
    PROVE  WatchInv' /\ GuardEncounter!OutcomeStands
<1> USE DEF GuardEncounter!Cast, GuardEncounter!HeroTurn, GuardEncounter!Hero, GuardEncounter!NoOne
<1> DEFINE f == [fight EXCEPT !.action = TRUE]
           next == GuardEncounter!NextActor(f, "hero", GuardEncounter!Alive(guardHp', captured))
<1>1. /\ GuardEncounter!Going /\ fight \in FightRows /\ fight.active = "hero"
      /\ ~fight.action /\ fight.order \in Orders /\ fight.outcome = "none" /\ strikes = 0
  BY DEF WatchInv, WatchTyped, TurnsTaken
<1>2. guardHp' \in [Watch -> 0..2] /\ UNCHANGED <<captured, wolf, held, source, bounds, fled>>
      /\ strikes' = 1
  BY <1>1, StruckTyped
<1>3. /\ f \in FightRows /\ f.action /\ f.phase = fight.phase /\ f.status = "active"
      /\ f.order \in Orders /\ f.order = fight.order /\ f.outcome = "none" /\ f.offers = fight.offers
  BY <1>1 DEF FightRows, GuardEncounter!Going
<1>4. next \in GuardEncounter!Alive(guardHp', captured) \cup {"hero"}
  <2> HIDE DEF f
  <2> QED
    BY <1>3, NextActorLives
<1> HIDE DEF next
<1>5. \/ fight' = [f EXCEPT !.status = "ended", !.active = "none"]
      \/ fight' = [f EXCEPT !.active = next]
  BY DEF f, next
<1> HIDE DEF f
<1>6. GuardEncounter!Alive(guardHp', captured) = GuardEncounter!Living'
  BY <1>2 DEF GuardEncounter!Living, GuardEncounter!Alive
<1>7. GuardEncounter!Living' \subseteq Watch
  BY DEF GuardEncounter!Living, GuardEncounter!Alive
<1>8. /\ fight' \in FightRows /\ fight'.action /\ fight'.phase = fight.phase
      /\ fight'.order = fight.order /\ fight'.outcome = "none" /\ fight'.offers = fight.offers
      /\ fight'.status = "active" => fight'.active = next
  <2>1. next \in Watch \cup {"hero"}
    BY ONLY <1>4, <1>6, <1>7
  <2>2. CASE fight' = [f EXCEPT !.status = "ended", !.active = "none"]
    <3>1. PICK y : y = [f EXCEPT !.status = "ended", !.active = "none"]
      OBVIOUS
    <3>2. y \in FightRows
      BY <1>3, <3>1 DEF FightRows
    <3>3. /\ y.action /\ y.phase = fight.phase /\ y.order = fight.order /\ y.outcome = "none"
          /\ y.offers = fight.offers /\ y.status = "ended"
      BY <1>3, <3>1 DEF FightRows
    <3>4. fight' = y
      BY <2>2, <3>1
    <3> QED
      BY ONLY <3>2, <3>3, <3>4
  <2>3. CASE fight' = [f EXCEPT !.active = next]
    <3>1. PICK y : y = [f EXCEPT !.active = next]
      OBVIOUS
    <3>2. y \in FightRows
      BY <1>3, <2>1, <3>1 DEF FightRows
    <3>3. /\ y.action /\ y.phase = fight.phase /\ y.order = fight.order /\ y.outcome = "none"
          /\ y.offers = fight.offers /\ y.active = next
      BY <1>3, <3>1 DEF FightRows
    <3>4. fight' = y
      BY <2>3, <3>1
    <3> QED
      BY ONLY <3>2, <3>3, <3>4
  <2> QED
    BY <1>5, <2>2, <2>3
<1>9. WatchTyped'
  BY <1>2, <1>8 DEF WatchInv, WatchTyped
<1>10. TurnsTaken'
  BY <1>1, <1>3, <1>4, <1>6, <1>8 DEF WatchInv, TurnsTaken, GuardEncounter!Going, GuardEncounter!Open
<1>11. GuardEncounter!OneOfferEach'
  BY <1>8 DEF WatchInv, GuardEncounter!OneOfferEach
<1> QED
  BY <1>1, <1>2, <1>9, <1>10, <1>11, FightKeeps

\* Nothing but the turn's budget changes, or the fight ends.
LEMMA BudgetKeeps ==
    ASSUME WatchInv, GuardEncounter!Going, fight' \in FightRows,
           UNCHANGED <<guardHp, captured, held, bounds, fled>>,
           wolf' \in Companions, strikes' \in 0..1,
           fight'.order = fight.order, fight'.phase = fight.phase,
           fight'.offers = fight.offers, fight'.outcome = fight.outcome,
           fight'.status = "active" => fight'.active \in GuardEncounter!Living \cup {"hero"},
           ~fight'.action => strikes' = 0
    PROVE  WatchInv' /\ GuardEncounter!OutcomeStands
<1>1. WatchTyped'
  BY DEF WatchInv, WatchTyped
<1>2. GuardEncounter!Living' = GuardEncounter!Living
  BY DEF GuardEncounter!Living, GuardEncounter!Alive
<1>3. TurnsTaken'
  BY <1>2 DEF WatchInv, TurnsTaken, GuardEncounter!Going, GuardEncounter!Open
<1>4. GuardEncounter!OneOfferEach'
  BY DEF WatchInv, GuardEncounter!OneOfferEach
<1> QED
  BY <1>1, <1>3, <1>4, FightKeeps

LEMMA HeroMovesKeep ==
    ASSUME WatchInv,
           \/ \E away \in BOOLEAN, hidden \in SUBSET Watch : GuardEncounter!Move(away, hidden)
           \/ GuardEncounter!CommandGuard \/ GuardEncounter!CommandFollow
    PROVE  WatchInv' /\ GuardEncounter!OutcomeStands
<1> USE DEF GuardEncounter!HeroTurn, GuardEncounter!Hero
<1>1. /\ GuardEncounter!Going /\ fight \in FightRows /\ fight.active = "hero"
      /\ ~fight.action => strikes = 0
      /\ strikes \in 0..1 /\ wolf \in Companions
      /\ UNCHANGED <<guardHp, captured, held, bounds, fled, strikes>>
  BY DEF WatchInv, WatchTyped, TurnsTaken, GuardEncounter!Move, GuardEncounter!CommandGuard,
         GuardEncounter!CommandFollow, GuardEncounter!Commandable
<1>2. wolf' \in Companions
  BY <1>1 DEF Companions, GuardEncounter!Move, GuardEncounter!CommandGuard, GuardEncounter!CommandFollow
<1>3. /\ fight' \in FightRows /\ fight'.order = fight.order /\ fight'.phase = fight.phase
      /\ fight'.offers = fight.offers /\ fight'.outcome = fight.outcome
      /\ fight'.active = "hero" /\ (~fight'.action => ~fight.action)
  <2>1. CASE \E away \in BOOLEAN, hidden \in SUBSET Watch : GuardEncounter!Move(away, hidden)
    <3>1. PICK away \in BOOLEAN, hidden \in SUBSET Watch :
             fight' = [fight EXCEPT !.left = away, !.hidden = hidden]
      BY <2>1 DEF GuardEncounter!Move
    <3> QED
      BY <1>1, <3>1 DEF FightRows
  <2>2. CASE GuardEncounter!CommandGuard
    <3>1. fight' = [fight EXCEPT !.action = TRUE]
      BY <2>2 DEF GuardEncounter!CommandGuard, GuardEncounter!Spending
    <3> QED
      BY <1>1, <3>1 DEF FightRows
  <2>3. CASE GuardEncounter!CommandFollow
    <3>1. fight' = [fight EXCEPT !.bonus = TRUE]
      BY <2>3 DEF GuardEncounter!CommandFollow, GuardEncounter!Spending
    <3> QED
      BY <1>1, <3>1 DEF FightRows
  <2> QED
    BY <2>1, <2>2, <2>3
<1> QED
  BY <1>1, <1>2, <1>3, BudgetKeeps

LEMMA CommandAttackKeeps ==
    ASSUME WatchInv, NEW g \in Watch, NEW d \in 0..2, GuardEncounter!CommandAttack(g, d)
    PROVE  WatchInv' /\ GuardEncounter!OutcomeStands
<1> USE DEF GuardEncounter!CommandAttack, GuardEncounter!Commandable, GuardEncounter!HeroTurn,
            GuardEncounter!Hero, GuardEncounter!NoOne
<1>1. /\ GuardEncounter!Going /\ fight \in FightRows /\ fight.active = "hero"
      /\ fight.phase # "resolving" /\ ~fight.action
      /\ fight.order \in Orders /\ fight.outcome = "none" /\ strikes = 0 /\ wolf \in Companions
  BY DEF WatchInv, WatchTyped, TurnsTaken
<1>2. guardHp' \in [Watch -> 0..2] /\ UNCHANGED <<captured, held, source, bounds, fled>>
      /\ strikes' = 1
  BY <1>1, StruckTyped
<1>3. wolf' \in Companions
  BY <1>1 DEF Companions
<1>4. \/ fight' = [[fight EXCEPT !.action = TRUE] EXCEPT !.status = "ended", !.active = "none"]
      \/ fight' = [fight EXCEPT !.action = TRUE]
  BY DEF GuardEncounter!Spending
<1>5. /\ fight' \in FightRows /\ fight'.action /\ fight'.phase = fight.phase
      /\ fight'.order = fight.order /\ fight'.outcome = "none" /\ fight'.offers = fight.offers
      /\ fight'.status = "active" => fight'.active = "hero"
  BY <1>1, <1>4 DEF FightRows
<1>6. WatchTyped'
  BY <1>2, <1>3, <1>5 DEF WatchInv, WatchTyped
<1>7. TurnsTaken'
  BY <1>1, <1>5 DEF TurnsTaken, GuardEncounter!Going
<1>8. GuardEncounter!OneOfferEach'
  BY <1>5 DEF WatchInv, GuardEncounter!OneOfferEach
<1> QED
  BY <1>1, <1>2, <1>6, <1>7, <1>8, FightKeeps

\* An answer to an offer is an offer to the same guard.
LEMMA AnsweredTyped ==
    ASSUME WatchInv, NEW g \in Watch,
           NEW answer \in {"accepted", "captured", "pursued", "rejected"}
    PROVE  \E new \in Seq(Offers) :
              /\ GuardEncounter!Answered(fight, g, answer) = [fight EXCEPT !.offers = new]
              /\ DOMAIN new = DOMAIN fight.offers
              /\ \A i \in DOMAIN new : new[i].target = fight.offers[i].target
<1>1. PICK os \in Seq(Offers) : os = fight.offers
  BY DEF WatchInv, WatchTyped, FightRows
<1>2. PICK n \in Nat : DOMAIN os = 1..n
  BY <1>1
<1> DEFINE Told(o) == IF o.target = g /\ o.status = "offered"
                      THEN [o EXCEPT !.status = answer] ELSE o
           new == [i \in DOMAIN os |-> Told(os[i])]
<1>3. \A i \in 1..n : os[i] \in Offers
  BY <1>1, <1>2
<1>4. \A o \in Offers : Told(o) \in Offers /\ Told(o).target = o.target
  BY DEF Offers
<1>5. GuardEncounter!Answered(fight, g, answer) = [fight EXCEPT !.offers = new]
  BY <1>1 DEF GuardEncounter!Answered, WatchInv, WatchTyped, FightRows
<1> HIDE DEF Told
<1>6. \A i \in 1..n : new[i] \in Offers /\ new[i].target = os[i].target
  BY <1>2, <1>3, <1>4
<1>7. new \in [1..n -> Offers]
  BY <1>2, <1>6
<1>8. new \in Seq(Offers) /\ DOMAIN new = 1..n
  BY <1>7
<1> HIDE DEF new
<1> QED
  BY <1>1, <1>2, <1>5, <1>6, <1>8

LEMMA DecisionKeeps ==
    ASSUME WatchInv,
           \/ GuardEncounter!Retreat
           \/ \E g \in Watch : \/ GuardEncounter!Accept(g) \/ GuardEncounter!Capture(g)
                               \/ \E answer \in {"pursued", "rejected"} : GuardEncounter!Refuse(g, answer)
    PROVE  WatchInv' /\ GuardEncounter!OutcomeStands
<1> USE DEF GuardEncounter!HeroTurn, GuardEncounter!Hero, GuardEncounter!NoOne
<1>1. /\ GuardEncounter!Going /\ fight \in FightRows /\ fight.active = "hero"
      /\ fight.order \in Orders /\ fight.outcome = "none" /\ (~fight.action => strikes = 0)
      /\ UNCHANGED <<guardHp, wolf, held, bounds, fled, strikes>>
  BY DEF WatchInv, WatchTyped, TurnsTaken, GuardEncounter!Retreat, GuardEncounter!Accept,
         GuardEncounter!Capture, GuardEncounter!Refuse, GuardEncounter!Decidable
<1>2. captured' \subseteq Watch
  BY DEF WatchInv, WatchTyped, GuardEncounter!Retreat, GuardEncounter!Accept,
         GuardEncounter!Capture, GuardEncounter!Refuse
<1>3. ASSUME NEW f \in FightRows, NEW outcome \in {"escaped", "surrendered", "captured"},
             DOMAIN f.offers = DOMAIN fight.offers,
             \A i \in DOMAIN f.offers : f.offers[i].target = fight.offers[i].target,
             fight' = GuardEncounter!Ended(f, outcome)
      PROVE  WatchInv' /\ GuardEncounter!OutcomeStands
  <2>1. fight' \in FightRows /\ fight'.status = "ended" /\ fight'.offers = f.offers
    BY <1>3 DEF GuardEncounter!Ended, FightRows
  <2>2. WatchTyped'
    BY <1>1, <1>2, <2>1 DEF WatchInv, WatchTyped
  <2>3. TurnsTaken'
    BY <2>1 DEF TurnsTaken, GuardEncounter!Going
  <2>4. GuardEncounter!OneOfferEach'
    BY <1>3, <2>1 DEF WatchInv, GuardEncounter!OneOfferEach
  <2> QED
    BY <1>1, <2>2, <2>3, <2>4, FightKeeps
<1>4. CASE GuardEncounter!Retreat
  BY <1>1, <1>3, <1>4 DEF GuardEncounter!Retreat
<1>5. ASSUME NEW g \in Watch, NEW outcome \in {"surrendered", "captured"},
             NEW answer \in {"accepted", "captured"},
             fight' = GuardEncounter!Ended(GuardEncounter!Answered(fight, g, answer), outcome)
      PROVE  WatchInv' /\ GuardEncounter!OutcomeStands
  <2>1. PICK new \in Seq(Offers) :
              /\ GuardEncounter!Answered(fight, g, answer) = [fight EXCEPT !.offers = new]
              /\ DOMAIN new = DOMAIN fight.offers
              /\ \A i \in DOMAIN new : new[i].target = fight.offers[i].target
    BY AnsweredTyped
  <2>2. PICK f : f = [fight EXCEPT !.offers = new]
    OBVIOUS
  <2>3. f \in FightRows /\ f.offers = new
    BY <1>1, <2>2 DEF FightRows
  <2> QED
    BY <1>3, <1>5, <2>1, <2>2, <2>3
<1>6. ASSUME NEW g \in Watch, NEW answer \in {"pursued", "rejected"}, GuardEncounter!Refuse(g, answer)
      PROVE  WatchInv' /\ GuardEncounter!OutcomeStands
  <2>1. PICK new \in Seq(Offers) :
              /\ GuardEncounter!Answered(fight, g, answer) = [fight EXCEPT !.offers = new]
              /\ DOMAIN new = DOMAIN fight.offers
              /\ \A i \in DOMAIN new : new[i].target = fight.offers[i].target
    BY AnsweredTyped
  <2>2. fight' = [[fight EXCEPT !.offers = new] EXCEPT !.phase = "active"]
    BY <1>6, <2>1 DEF GuardEncounter!Refuse
  <2>3. /\ fight' \in FightRows /\ fight'.active = "hero" /\ fight'.offers = new
        /\ fight'.order = fight.order /\ fight'.outcome = "none" /\ fight'.phase = "active"
        /\ fight'.action = fight.action
    BY <1>1, <2>2 DEF FightRows
  <2>4. WatchTyped'
    BY <1>1, <1>2, <2>3 DEF WatchInv, WatchTyped
  <2>5. TurnsTaken'
    BY <1>1, <2>3 DEF TurnsTaken
  <2>6. GuardEncounter!OneOfferEach'
    BY <2>1, <2>3 DEF WatchInv, GuardEncounter!OneOfferEach
  <2> QED
    BY <1>1, <2>4, <2>5, <2>6, FightKeeps
<1>7. ASSUME NEW g \in Watch, GuardEncounter!Accept(g) \/ GuardEncounter!Capture(g)
      PROVE  WatchInv' /\ GuardEncounter!OutcomeStands
  BY <1>5, <1>7 DEF GuardEncounter!Accept, GuardEncounter!Capture
<1> QED
  BY <1>4, <1>6, <1>7

LEMMA TurnsKeep ==
    ASSUME WatchInv,
           \/ \E skipped \in BOOLEAN : GuardEncounter!EndTurn(skipped)
           \/ \E kills \in BOOLEAN : GuardEncounter!FoeActs(kills) \/ GuardEncounter!Advance(kills)
    PROVE  WatchInv' /\ GuardEncounter!OutcomeStands
<1> USE DEF GuardEncounter!HeroTurn, GuardEncounter!Hero, GuardEncounter!NoOne
<1>1. /\ GuardEncounter!Going /\ fight \in FightRows /\ fight.order \in Orders
      /\ (~fight.action => strikes = 0) /\ strikes \in 0..1 /\ wolf \in Companions
      /\ UNCHANGED <<guardHp, captured, held, bounds, fled>>
  BY DEF WatchInv, WatchTyped, TurnsTaken, GuardEncounter!EndTurn, GuardEncounter!FoeActs,
         GuardEncounter!Advance, GuardEncounter!FoesTurn
<1>2. GuardEncounter!Living \subseteq Watch
  BY DEF GuardEncounter!Living, GuardEncounter!Alive
<1>3. ASSUME NEW skipped \in BOOLEAN, GuardEncounter!EndTurn(skipped)
      PROVE  WatchInv' /\ GuardEncounter!OutcomeStands
  <2>1. PICK next : next = GuardEncounter!NextActor(fight, "hero", GuardEncounter!Living)
    OBVIOUS
  <2>2. next \in GuardEncounter!Living \cup {"hero"}
    BY <1>1, <2>1, NextActorLives
  <2>3. fight' = [fight EXCEPT !.active = next, !.action = @ \/ skipped] /\ strikes' = strikes
    BY <1>3, <2>1 DEF GuardEncounter!EndTurn
  <2>4. /\ fight' \in FightRows /\ fight'.order = fight.order /\ fight'.phase = fight.phase
        /\ fight'.offers = fight.offers /\ fight'.outcome = fight.outcome
        /\ fight'.active = next /\ (~fight'.action => ~fight.action)
    BY <1>1, <1>2, <2>2, <2>3 DEF FightRows
  <2>5. wolf' \in Companions
    BY <1>1, <1>3 DEF GuardEncounter!EndTurn, GuardEncounter!Guarding, Companions
  <2> QED
    BY <1>1, <2>2, <2>3, <2>4, <2>5, BudgetKeeps
<1>4. ASSUME NEW foe \in Watch, NEW kills \in BOOLEAN, GuardEncounter!FoeTurn(fight, foe, kills)
      PROVE  WatchInv' /\ GuardEncounter!OutcomeStands
  <2>1. PICK next : next = GuardEncounter!NextActor(fight, foe, GuardEncounter!Living)
    OBVIOUS
  <2>2. next \in GuardEncounter!Living \cup {"hero"}
    BY <1>1, <2>1, NextActorLives
  <2>3. \/ /\ fight' = [fight EXCEPT !.status = "ended", !.active = "none"]
           /\ UNCHANGED <<wolf, strikes>>
        \/ fight' = [fight EXCEPT !.active = next] /\ UNCHANGED <<wolf, strikes>>
        \/ /\ fight' = [fight EXCEPT !.active = "hero", !.action = FALSE, !.bonus = FALSE]
           /\ wolf' = GuardEncounter!Fresh(wolf) /\ strikes' = 0
    BY <1>4, <2>1 DEF GuardEncounter!FoeTurn
  <2>4. /\ fight' \in FightRows /\ fight'.order = fight.order /\ fight'.phase = fight.phase
        /\ fight'.offers = fight.offers /\ fight'.outcome = fight.outcome
        /\ fight'.status = "active" => fight'.active \in GuardEncounter!Living \cup {"hero"}
        /\ (~fight'.action => ~fight.action) \/ strikes' = 0
    <3>1. CASE fight' = [fight EXCEPT !.status = "ended", !.active = "none"]
      BY <1>1, <3>1 DEF FightRows
    <3>2. CASE fight' = [fight EXCEPT !.active = next]
      BY <1>1, <1>2, <2>2, <3>2 DEF FightRows
    <3>3. CASE fight' = [fight EXCEPT !.active = "hero", !.action = FALSE, !.bonus = FALSE] /\ strikes' = 0
      BY <1>1, <3>3 DEF FightRows
    <3> QED
      BY <2>3, <3>1, <3>2, <3>3
  <2>5. wolf' \in Companions /\ strikes' \in 0..1 /\ (strikes' = strikes \/ strikes' = 0)
    <3>1. GuardEncounter!Fresh(wolf) \in Companions
      <4>1. CASE wolf.status = "active"
        BY <1>1, <4>1 DEF GuardEncounter!Fresh, Companions
      <4>2. CASE wolf.status # "active"
        BY <1>1, <4>2 DEF GuardEncounter!Fresh
      <4> QED
        BY <4>1, <4>2
    <3> QED
      BY <1>1, <2>3, <3>1
  <2>6. ~fight'.action => strikes' = 0
    BY <1>1, <2>4, <2>5
  <2> QED
    BY <1>1, <2>4, <2>5, <2>6, BudgetKeeps
<1>5. ASSUME NEW kills \in BOOLEAN, GuardEncounter!FoeActs(kills)
      PROVE  WatchInv' /\ GuardEncounter!OutcomeStands
  BY <1>2, <1>4, <1>5 DEF GuardEncounter!FoeActs, GuardEncounter!FoesTurn
<1>6. ASSUME NEW kills \in BOOLEAN, GuardEncounter!Advance(kills)
      PROVE  WatchInv' /\ GuardEncounter!OutcomeStands
  BY <1>2, <1>4, <1>6, FirstGuard DEF GuardEncounter!Advance
<1> QED
  BY <1>3, <1>5, <1>6

\* A new fight: everybody lives and has a turn.
LEMMA StartKeeps ==
    ASSUME WatchInv, NEW order \in Orders, NEW hidden \in SUBSET Watch, GuardEncounter!Start(order, hidden)
    PROVE  WatchInv' /\ GuardEncounter!OutcomeStands
<1> USE DEF GuardEncounter!Start, GuardEncounter!NoFight, GuardEncounter!NoOne, GuardEncounter!Hero
<1>1. order \in Seq(Watch \cup {"hero"}) /\ order[1] \in Watch \cup {"hero"}
  <2>1. order \in Seq(Watch \cup {"hero"}) /\ \E i \in DOMAIN order : order[i] = "hero"
    BY WatchAssumption
  <2>2. 1 \in DOMAIN order
    BY <2>1
  <2> QED
    BY <2>1, <2>2
<1>2. /\ fight'.status = "active" /\ fight'.order = order /\ fight'.active = order[1]
      /\ fight'.phase = "active" /\ fight'.outcome = "none" /\ fight'.offers = <<>>
  OBVIOUS
<1>3. fight' \in FightRows
  <2>1. fight' = [status |-> "active", phase |-> "active", outcome |-> "none", order |-> order,
                  active |-> order[1], action |-> FALSE, bonus |-> FALSE, offers |-> <<>>,
                  left |-> FALSE, hidden |-> hidden]
    OBVIOUS
  <2>2. <<>> \in Seq(Offers)
    OBVIOUS
  <2> QED
    BY <1>1, <2>1, <2>2 DEF FightRows
<1>4. guardHp' = [g \in Watch |-> 2] /\ captured' = {} /\ strikes' = 0 /\ UNCHANGED <<wolf, held, fled>>
  OBVIOUS
<1>5. bounds' \in [fights : Nat, groups : 0..MaxGroups] /\ bounds'.fights = bounds.fights + 1
      /\ bounds.fights \in Nat
  BY DEF WatchInv, WatchTyped
<1>6. WatchTyped'
  BY <1>3, <1>4, <1>5 DEF WatchInv, WatchTyped
<1>7. GuardEncounter!Living' = Watch
  BY <1>4 DEF GuardEncounter!Living, GuardEncounter!Alive
<1>8. TurnsTaken'
  BY <1>1, <1>2, <1>4, <1>7 DEF TurnsTaken
<1>9. GuardEncounter!OneOfferEach'
  BY <1>2 DEF GuardEncounter!OneOfferEach
<1>10. GuardEncounter!CustodyOutsideCombat' /\ GuardEncounter!FreedTogether'
  BY <1>4 DEF WatchInv, GuardEncounter!CustodyOutsideCombat, GuardEncounter!FreedTogether,
              GuardEncounter!Free
<1>11. GuardEncounter!OutcomeStands
  BY <1>5 DEF GuardEncounter!OutcomeStands
<1> QED
  BY <1>6, <1>8, <1>9, <1>10, <1>11 DEF WatchInv

\* The companion joins or is dismissed; nobody's turn is changed by it.
LEMMA CompanionKeeps ==
    ASSUME WatchInv, GuardEncounter!Join \/ GuardEncounter!Dismiss
    PROVE  WatchInv' /\ GuardEncounter!OutcomeStands
<1> USE DEF GuardEncounter!Join, GuardEncounter!Dismiss, GuardEncounter!Hero, GuardEncounter!Wolf
<1>1. UNCHANGED <<fight, guardHp, captured, bounds, strikes, fled>>
  OBVIOUS
<1>2. /\ held' \in [{"hero", "wolf"} -> 0..MaxGroups] /\ held'["hero"] = held["hero"]
      /\ held'["wolf"] \in {0, held["wolf"]}
  <2>1. held \in [{"hero", "wolf"} -> 0..MaxGroups] /\ 0 \in 0..MaxGroups
    BY WatchAssumption DEF WatchInv, WatchTyped
  <2>2. held' = [held EXCEPT !["wolf"] = 0] \/ held' = held
    OBVIOUS
  <2> QED
    BY <2>1, <2>2
<1>3. wolf' \in Companions
  <2>1. CASE GuardEncounter!Join
    BY <2>1 DEF Companions
  <2>2. CASE GuardEncounter!Dismiss
    BY <2>2 DEF WatchInv, WatchTyped, Companions
  <2> QED
    BY <2>1, <2>2
<1>4. WatchTyped'
  BY <1>1, <1>2, <1>3 DEF WatchInv, WatchTyped
<1>5. GuardEncounter!Living' = GuardEncounter!Living
  BY <1>1 DEF GuardEncounter!Living, GuardEncounter!Alive
<1>6. TurnsTaken' /\ GuardEncounter!OneOfferEach'
  BY <1>1, <1>5 DEF WatchInv, TurnsTaken, GuardEncounter!Going, GuardEncounter!Open,
                    GuardEncounter!OneOfferEach
<1>7. GuardEncounter!CustodyOutsideCombat' /\ GuardEncounter!FreedTogether'
  BY <1>1, <1>2 DEF WatchInv, GuardEncounter!CustodyOutsideCombat, GuardEncounter!FreedTogether,
                    GuardEncounter!Free, GuardEncounter!Going
<1>8. GuardEncounter!OutcomeStands
  BY <1>1 DEF GuardEncounter!OutcomeStands
<1> QED
  BY <1>4, <1>6, <1>7, <1>8 DEF WatchInv

LEMMA GuardSurrenderKeeps ==
    ASSUME WatchInv, NEW guard, NEW others \in SUBSET {"hero", "wolf"},
           GuardEncounter!Surrender(guard, others)
    PROVE  WatchInv' /\ GuardEncounter!OutcomeStands
<1> USE DEF GuardEncounter!Surrender, GuardEncounter!Surrendered, GuardEncounter!Hero,
            GuardEncounter!Wolf, GuardEncounter!NoOne
<1>1. /\ UNCHANGED <<guardHp, captured, wolf, strikes, fled>>
      /\ bounds \in [fights : Nat, groups : 0..MaxGroups] /\ bounds.groups < MaxGroups
      /\ fight \in FightRows /\ MaxGroups \in Nat /\ held["hero"] = 0
  BY WatchAssumption DEF WatchInv, WatchTyped, GuardEncounter!Free
<1>2. PICK n : n = bounds.groups + 1
  OBVIOUS
<1>3. n \in 1..MaxGroups /\ bounds' \in [fights : Nat, groups : 0..MaxGroups]
  BY <1>1, <1>2
<1>4. held' = [a \in {"hero", "wolf"} |-> IF a \in others \cup {"hero"} THEN n ELSE held[a]]
  BY <1>2
<1>5. /\ held' \in [{"hero", "wolf"} -> 0..MaxGroups] /\ held'["hero"] = n
      /\ held'["wolf"] \in {n, held["wolf"]}
  BY <1>3, <1>4 DEF WatchInv, WatchTyped
<1>6. /\ fight' \in FightRows /\ fight'.status # "active" /\ fight'.offers = fight.offers
      /\ fight.status # "active" => fight' = fight
  BY <1>1 DEF GuardEncounter!Ended, FightRows
<1>7. WatchTyped'
  BY <1>1, <1>3, <1>5, <1>6 DEF WatchInv, WatchTyped
<1>8. TurnsTaken' /\ GuardEncounter!CustodyOutsideCombat'
  BY <1>6 DEF TurnsTaken, GuardEncounter!CustodyOutsideCombat, GuardEncounter!Going
<1>9. GuardEncounter!OneOfferEach'
  BY <1>6 DEF WatchInv, GuardEncounter!OneOfferEach
<1>10. GuardEncounter!FreedTogether'
  BY <1>1, <1>5 DEF WatchInv, GuardEncounter!FreedTogether
<1>11. GuardEncounter!OutcomeStands
  BY <1>1, <1>6 DEF WatchInv, TurnsTaken, GuardEncounter!OutcomeStands, GuardEncounter!Going
<1> QED
  BY <1>7, <1>8, <1>9, <1>10, <1>11 DEF WatchInv

\* A group goes free together; who escapes leaves the others behind.
LEMMA ReleaseKeeps ==
    ASSUME WatchInv,
           \/ \E guard \in Watch \cup {"warden"}, others \in SUBSET {"hero", "wolf"} :
                 GuardEncounter!Release(guard, others)
           \/ GuardEncounter!Escape
    PROVE  WatchInv' /\ GuardEncounter!OutcomeStands
<1> USE DEF GuardEncounter!Hero, GuardEncounter!Wolf
<1>1. UNCHANGED <<fight, guardHp, captured, wolf, bounds, strikes>>
  BY DEF GuardEncounter!Release, GuardEncounter!Escape
<1>2. /\ held' \in [{"hero", "wolf"} -> 0..MaxGroups] /\ held'["hero"] \in {0, held["hero"]}
      /\ GuardEncounter!FreedTogether'
  <2>1. held \in [{"hero", "wolf"} -> 0..MaxGroups] /\ 0 \in 0..MaxGroups
    BY WatchAssumption DEF WatchInv, WatchTyped
  <2>2. CASE GuardEncounter!Escape
    <3>1. held' = [held EXCEPT !["hero"] = 0] /\ fled' = fled \cup {held["hero"]}
      BY <2>2 DEF GuardEncounter!Escape
    <3> QED
      BY <2>1, <3>1 DEF WatchInv, GuardEncounter!FreedTogether
  <2>3. CASE \E guard \in Watch \cup {"warden"}, others \in SUBSET {"hero", "wolf"} :
                 GuardEncounter!Release(guard, others)
    <3>1. PICK guard, others : GuardEncounter!Release(guard, others)
      BY <2>3
    <3>2. UNCHANGED fled
      BY <3>1 DEF GuardEncounter!Release
    <3>3. PICK n : held' = GuardEncounter!Released(n, others)
      BY <3>1, Zenon DEF GuardEncounter!Release
    <3>4. held' = [a \in {"hero", "wolf"} |-> IF held[a] = n THEN 0 ELSE held[a]]
      BY <3>3 DEF GuardEncounter!Released
    <3> QED
      BY <2>1, <3>2, <3>4 DEF WatchInv, GuardEncounter!FreedTogether
  <2> QED
    BY <2>2, <2>3
<1>3. WatchTyped'
  BY <1>1, <1>2 DEF WatchInv, WatchTyped
<1>4. GuardEncounter!Living' = GuardEncounter!Living
  BY <1>1 DEF GuardEncounter!Living, GuardEncounter!Alive
<1>5. TurnsTaken' /\ GuardEncounter!OneOfferEach'
  BY <1>1, <1>4 DEF WatchInv, TurnsTaken, GuardEncounter!Going, GuardEncounter!Open,
                    GuardEncounter!OneOfferEach
<1>6. GuardEncounter!CustodyOutsideCombat'
  BY <1>1, <1>2 DEF WatchInv, GuardEncounter!CustodyOutsideCombat, GuardEncounter!Free,
                    GuardEncounter!Going
<1>7. GuardEncounter!OutcomeStands
  BY <1>1 DEF GuardEncounter!OutcomeStands
<1> QED
  BY <1>2, <1>3, <1>5, <1>6, <1>7 DEF WatchInv

LEMMA NextWatch ==
    ASSUME WatchInv, GuardEncounter!Next
    PROVE  WatchInv' /\ GuardEncounter!OutcomeStands
BY StartKeeps, GuardAttackKeeps, CastKeeps, CommandAttackKeeps, HeroMovesKeep, DecisionKeeps,
   TurnsKeep, CompanionKeeps, GuardSurrenderKeeps, ReleaseKeeps
   DEF GuardEncounter!Next, GuardEncounter!Hero, GuardEncounter!Wolf, GuardEncounter!Warden

LEMMA InitWatch == GuardEncounter!Init => WatchInv
<1> SUFFICES ASSUME GuardEncounter!Init PROVE WatchInv
  OBVIOUS
<1> USE DEF GuardEncounter!Init, GuardEncounter!NoFight, GuardEncounter!NoOne, GuardEncounter!Hero,
            GuardEncounter!Wolf
<1>1. fight \in FightRows
  BY DEF FightRows
<1>2. /\ wolf \in Companions /\ guardHp \in [Watch -> 0..2]
      /\ held \in [{"hero", "wolf"} -> 0..MaxGroups] /\ held["wolf"] = 0
      /\ bounds \in [fights : Nat, groups : 0..MaxGroups]
  BY WatchAssumption DEF Companions
<1>3. WatchTyped
  BY <1>1, <1>2 DEF WatchTyped
<1>4. fight.status = "idle" /\ fight.offers = <<>>
  OBVIOUS
<1>5. TurnsTaken /\ GuardEncounter!CustodyOutsideCombat /\ GuardEncounter!OneOfferEach
  BY <1>4 DEF TurnsTaken, GuardEncounter!Going, GuardEncounter!CustodyOutsideCombat,
              GuardEncounter!OneOfferEach
<1>6. GuardEncounter!FreedTogether
  BY <1>2 DEF GuardEncounter!FreedTogether
<1> QED
  BY <1>3, <1>5, <1>6 DEF WatchInv

\* The turn is somebody's who can take it, and the hero strikes once a turn.
LEMMA WatchHolds ==
    ASSUME WatchInv
    PROVE  /\ GuardEncounter!TypeOK
           /\ GuardEncounter!OneOfferEach /\ GuardEncounter!OneStrikePerTurn
           /\ GuardEncounter!CustodyOutsideCombat /\ GuardEncounter!FreedTogether
           /\ GuardEncounter!TurnRests
<1> USE DEF GuardEncounter!Hero, GuardEncounter!Wolf, GuardEncounter!NoOne
<1>1. /\ fight.status \in {"idle", "active", "ended"}
      /\ fight.phase \in {"active", "resolving", "terminal"}
      /\ fight.active \in Watch \cup {"hero", "none"} /\ fight.hidden \subseteq Watch
  BY DEF WatchInv, WatchTyped, FightRows
<1>2. GuardEncounter!Going =>
         /\ fight.active \in GuardEncounter!Living \cup {"hero"} /\ GuardEncounter!Free
         /\ fight.outcome = "none"
         /\ fight.phase = "resolving" => \E g \in Watch : GuardEncounter!Open(fight, g)
  BY DEF WatchInv, TurnsTaken, GuardEncounter!CustodyOutsideCombat
<1>3. GuardEncounter!Living \subseteq Watch /\ "none" \notin Watch
  BY WatchAssumption DEF GuardEncounter!Living, GuardEncounter!Alive
<1>4. GuardEncounter!TypeOK
  BY <1>1, <1>2, <1>3 DEF WatchInv, WatchTyped, Companions, GuardEncounter!TypeOK, GuardEncounter!Actors
<1>5. GuardEncounter!OneStrikePerTurn
  BY DEF WatchInv, WatchTyped, GuardEncounter!OneStrikePerTurn
<1>6. ~GuardEncounter!Free => ~GuardEncounter!Going
  BY <1>2
<1>7. ASSUME GuardEncounter!HeroTurn
      PROVE  /\ GuardEncounter!Free /\ GuardEncounter!Decidable
             /\ fight.phase = "resolving" => \E g \in Watch : GuardEncounter!Open(fight, g)
  BY <1>2, <1>7 DEF GuardEncounter!HeroTurn, GuardEncounter!Decidable
<1>9. ASSUME GuardEncounter!Going
      PROVE  fight.active \in fight.hidden
             \/ \E offer \in GuardEncounter!Offers : GuardEncounter!Takeable(offer)
  <2>1. CASE GuardEncounter!HeroTurn /\ fight.phase = "resolving"
    <3>1. "answer" \in GuardEncounter!Offers
      BY <1>9, <2>1 DEF GuardEncounter!Offers
    <3>2. GuardEncounter!Takeable("answer")
      BY <1>2, <1>7, <1>9, <2>1 DEF GuardEncounter!Takeable
    <3> QED
      BY <3>1, <3>2
  <2>2. CASE GuardEncounter!HeroTurn /\ fight.phase # "resolving"
    <3>1. "end_turn" \in GuardEncounter!Offers
      BY <1>9, <2>2 DEF GuardEncounter!Offers
    <3>2. GuardEncounter!Takeable("end_turn")
      BY <1>7, <2>2 DEF GuardEncounter!Takeable, GuardEncounter!MayEnd
    <3> QED
      BY <3>1, <3>2
  <2>3. CASE ~GuardEncounter!HeroTurn
    <3>1. "advance_turn" \in GuardEncounter!Offers
      BY <1>9, <2>3 DEF GuardEncounter!Offers
    <3>2. GuardEncounter!FoesTurn
      BY <1>2, <1>9, <2>3 DEF GuardEncounter!FoesTurn, GuardEncounter!HeroTurn
    <3>3. fight.active \notin fight.hidden => GuardEncounter!Takeable("advance_turn")
      BY <3>2 DEF GuardEncounter!Takeable
    <3> QED
      BY <3>1, <3>3
  <2> QED
    BY <2>1, <2>2, <2>3
<1>8. GuardEncounter!TurnRests
  BY <1>2, <1>7, <1>9 DEF GuardEncounter!TurnRests, GuardEncounter!Legal, GuardEncounter!Commandable
<1> QED
  BY <1>4, <1>5, <1>8 DEF WatchInv

-----------------------------------------------------------------------------
(* The tactical map.                                                         *)

\* R puts the members of S in a line.
Line(S, R) ==
    /\ IsFiniteSet(S)
    /\ \A a, b \in S : <<a, b>> \in R \/ <<b, a>> \in R
    /\ \A a, b \in S : <<a, b>> \in R /\ <<b, a>> \in R => a = b
    /\ \A a, b, c \in S : <<a, b>> \in R /\ <<b, c>> \in R => <<a, c>> \in R

UpTo(S, R, a) == {b \in S : <<b, a>> \in R}

\* Whoever stands earlier has fewer before him.
LEMMA FewerBefore ==
    ASSUME NEW S, NEW R, Line(S, R), NEW a \in S, NEW b \in S, <<a, b>> \in R, a # b
    PROVE  /\ Cardinality(UpTo(S, R, a)) \in Nat /\ Cardinality(UpTo(S, R, b)) \in Nat
           /\ Cardinality(UpTo(S, R, a)) < Cardinality(UpTo(S, R, b))
<1>1. IsFiniteSet(UpTo(S, R, b)) /\ IsFiniteSet(UpTo(S, R, a))
  <2>1. UpTo(S, R, b) \in SUBSET S /\ UpTo(S, R, a) \in SUBSET S /\ IsFiniteSet(S)
    BY DEF UpTo, Line
  <2> QED
    BY <2>1, FS_Subset
<1>2. UpTo(S, R, a) \in SUBSET UpTo(S, R, b)
  BY DEF UpTo, Line
<1>3. b \in UpTo(S, R, b) /\ b \notin UpTo(S, R, a)
  BY DEF UpTo, Line
<1>4. PICK A, B : A = UpTo(S, R, a) /\ B = UpTo(S, R, b)
  OBVIOUS
<1>5. Cardinality(A) <= Cardinality(B) /\ (Cardinality(B) = Cardinality(A) => A = B)
  BY <1>1, <1>2, <1>4, FS_Subset
<1>6. Cardinality(A) \in Nat /\ Cardinality(B) \in Nat
  BY <1>1, <1>4, FS_CardinalityType
<1>7. A # B
  BY <1>3, <1>4
<1> QED
  BY <1>4, <1>5, <1>6, <1>7

LEMMA FirstInLine ==
    ASSUME NEW S, NEW R, Line(S, R), NEW T \in SUBSET S, T # {}
    PROVE  \E m \in T : \A t \in T : <<m, t>> \in R
<1> DEFINE rank(t) == Cardinality(UpTo(S, R, t))
           Ns == {rank(t) : t \in T}
<1>1. \A t \in T : rank(t) \in Nat
  <2>1. SUFFICES ASSUME NEW t \in T PROVE rank(t) \in Nat
    OBVIOUS
  <2>2. IsFiniteSet(UpTo(S, R, t))
    <3>1. UpTo(S, R, t) \in SUBSET S /\ IsFiniteSet(S)
      BY DEF UpTo, Line
    <3> QED
      BY <3>1, FS_Subset
  <2> QED
    BY <2>2, FS_CardinalityType
<1>2. PICK n \in Ns : \A k \in Ns : n <= k
  <2>1. Ns \in SUBSET Nat /\ Ns # {}
    BY <1>1
  <2> HIDE DEF Ns
  <2> QED
    BY <2>1, LeastNumber
<1>3. PICK m \in T : \A t \in T : rank(m) <= rank(t)
  BY <1>2
<1>4. ASSUME NEW t \in T, <<m, t>> \notin R
      PROVE  FALSE
  <2>1. <<t, m>> \in R /\ t # m
    BY <1>4 DEF Line
  <2>2. rank(t) < rank(m)
    BY <2>1, FewerBefore
  <2>3. rank(m) <= rank(t) /\ rank(m) \in Nat /\ rank(t) \in Nat
    BY <1>1, <1>3
  <2> HIDE DEF rank
  <2> QED
    BY <2>2, <2>3
<1> QED
  BY <1>4

LEMMA LastInLine ==
    ASSUME NEW S, NEW R, Line(S, R), NEW T \in SUBSET S, T # {}
    PROVE  \E m \in T : \A t \in T : <<t, m>> \in R
<1>1. PICK Q : Q = {p \in S \X S : <<p[2], p[1]>> \in R}
  OBVIOUS
<1>2. \A a, b \in S : <<a, b>> \in Q <=> <<b, a>> \in R
  BY <1>1
<1>3. Line(S, Q)
  BY <1>2 DEF Line
<1>4. PICK m \in T : \A t \in T : <<m, t>> \in Q
  BY <1>3, FirstInLine
<1> QED
  BY <1>2, <1>4

\* In a line of at least h somebody is the h-th.
LEMMA SomebodyIsThere ==
    ASSUME NEW S, NEW R, Line(S, R), NEW h \in Nat \ {0}, h <= Cardinality(S)
    PROVE  \E a \in S : Cardinality(UpTo(S, R, a)) = h
<1> DEFINE rank(t) == Cardinality(UpTo(S, R, t))
           T == {a \in S : rank(a) >= h}
<1>1. \A t \in S : IsFiniteSet(UpTo(S, R, t)) /\ rank(t) \in Nat
  <2>1. SUFFICES ASSUME NEW t \in S PROVE IsFiniteSet(UpTo(S, R, t)) /\ rank(t) \in Nat
    OBVIOUS
  <2>2. IsFiniteSet(UpTo(S, R, t))
    <3>1. UpTo(S, R, t) \in SUBSET S /\ IsFiniteSet(S)
      BY DEF UpTo, Line
    <3> QED
      BY <3>1, FS_Subset
  <2> QED
    BY <2>2, FS_CardinalityType
<1>2. T # {}
  <2>1. S # {}
    BY FS_EmptySet
  <2>2. PICK m \in S : \A t \in S : <<t, m>> \in R
    BY <2>1, LastInLine
  <2>3. UpTo(S, R, m) = S
    BY <2>2 DEF UpTo
  <2> QED
    BY <2>3
<1>3. PICK a \in T : \A t \in T : <<a, t>> \in R
  <2>1. T \in SUBSET S
    OBVIOUS
  <2> HIDE DEF T
  <2> QED
    BY <1>2, <2>1, FirstInLine
<1>4. CASE rank(a) > h
  <2>1. PICK U : U = UpTo(S, R, a) \ {a}
    OBVIOUS
  <2>2. a \in UpTo(S, R, a)
    BY DEF UpTo, Line
  <2>3. Cardinality(U) = rank(a) - 1 /\ IsFiniteSet(U)
    BY <1>1, <2>1, <2>2, FS_RemoveElement
  <2>4. U # {}
    BY <1>1, <1>4, <2>3, FS_EmptySet
  <2>5. U \in SUBSET S
    BY <2>1 DEF UpTo
  <2>6. PICK b \in U : \A t \in U : <<t, b>> \in R
    BY <2>4, <2>5, LastInLine
  <2>7. UpTo(S, R, b) = U
    BY <2>1, <2>5, <2>6 DEF UpTo, Line
  <2>8. rank(b) >= h
    BY <1>1, <1>4, <2>3, <2>7
  <2>9. b \in T
    BY <2>5, <2>6, <2>8
  <2>10. <<a, b>> \in R /\ <<b, a>> \in R /\ a # b
    BY <1>3, <2>1, <2>6, <2>9 DEF UpTo
  <2> QED
    BY <2>5, <2>6, <2>10 DEF Line
<1>5. CASE ~(rank(a) > h)
  BY <1>1, <1>5
<1> QED
  BY <1>4, <1>5

LEMMA SameCount == \A S : Tactical!Cardinality(S) = Cardinality(S)
BY DEF Tactical!Cardinality, Cardinality

LEMMA FirstStep ==
    ASSUME NEW S \in SUBSET Nat, S # {}
    PROVE  /\ Tactical!First(S) \in S
           /\ \A i \in S : Tactical!First(S) <= i
<1>1. \E i \in S : \A j \in S : i <= j
  BY LeastNumber
<1> QED
  BY <1>1 DEF Tactical!First

\* Part of a walk costs no more than the walk.
LEMMA PartFare ==
    ASSUME NEW S, NEW path \in Seq(S), NEW done \in Seq(S), Len(done) <= Len(path),
           \A i \in 1..Len(done) : done[i] = path[i]
    PROVE  /\ Tactical!Fare(done) \in Nat /\ Tactical!Fare(path) \in Nat
           /\ Tactical!Fare(done) <= Tactical!Fare(path)
<1>1. PICK m \in Nat, n \in Nat : m = Len(done) /\ n = Len(path)
  OBVIOUS
<1>2. PICK A, B : A = {i \in DOMAIN done : done[i] \in Mud} /\ B = {i \in DOMAIN path : path[i] \in Mud}
  OBVIOUS
<1>3. B \in SUBSET (1..n) /\ A \in SUBSET B
  BY <1>1, <1>2
<1>4. IsFiniteSet(1..n)
  BY FS_Interval
<1>5. IsFiniteSet(B)
  BY <1>3, <1>4, FS_Subset
<1>6. IsFiniteSet(A) /\ Cardinality(A) <= Cardinality(B)
  BY <1>3, <1>5, FS_Subset
<1>7. Cardinality(A) \in Nat /\ Cardinality(B) \in Nat
  BY <1>5, <1>6, FS_CardinalityType
<1>8. Tactical!Fare(done) = m + Cardinality(A) /\ Tactical!Fare(path) = n + Cardinality(B)
  BY <1>1, <1>2, SameCount DEF Tactical!Fare
<1> QED
  BY <1>1, <1>6, <1>7, <1>8

\* The foes who answer are asked one after the other.
LEMMA AskedInLine ==
    ASSUME NEW path, DOMAIN path \in SUBSET Nat,
           NEW hits \in SUBSET {f \in Foes : Tactical!Answers(f, path) # {}},
           NEW R, R = {p \in Foes \X Foes : Tactical!Sooner(p[1], p[2], path)}
    PROVE  Line(hits, R)
<1>1. PICK o \in [Foes -> Nat] : o = Tactical!Order /\ \A f, g \in Foes : f # g => o[f] # o[g]
  <2>1. PICK n : n = Cardinality(Foes)
    OBVIOUS
  <2>2. IsFiniteSet(Foes)
    BY MapAssumption
  <2>3. n \in Nat /\ \E r \in [Foes -> 1..n] : \A f, g \in Foes : f # g => r[f] # r[g]
    BY <2>1, <2>2, Numbered
  <2>4. Tactical!Order = CHOOSE r \in [Foes -> 1..n] : \A f, g \in Foes : f # g => r[f] # r[g]
    BY <2>1, SameCount DEF Tactical!Order
  <2>5. PICK o : o = CHOOSE r \in [Foes -> 1..n] : \A f, g \in Foes : f # g => r[f] # r[g]
    OBVIOUS
  <2>6. o \in [Foes -> 1..n] /\ \A f, g \in Foes : f # g => o[f] # o[g]
    BY <2>3, <2>5
  <2>7. o \in [Foes -> Nat] /\ o = Tactical!Order
    BY <2>3, <2>4, <2>5, <2>6
  <2> QED
    BY <2>6, <2>7
<1>2. PICK at1 : at1 = [f \in hits |-> Tactical!First(Tactical!Answers(f, path))]
  OBVIOUS
<1>3. \A f \in hits : at1[f] \in Nat
  <2>1. SUFFICES ASSUME NEW f \in hits PROVE at1[f] \in Nat
    OBVIOUS
  <2>2. Tactical!Answers(f, path) \in SUBSET Nat /\ Tactical!Answers(f, path) # {}
    BY DEF Tactical!Answers, Tactical!Leaves
  <2>3. Tactical!First(Tactical!Answers(f, path)) \in Tactical!Answers(f, path)
    BY <2>2, FirstStep
  <2> QED
    BY <1>2, <2>2, <2>3
<1>4. \A f, g \in hits : <<f, g>> \in R <=> at1[f] < at1[g] \/ (at1[f] = at1[g] /\ o[f] <= o[g])
  BY <1>1, <1>2 DEF Tactical!Sooner
<1>5. IsFiniteSet(hits)
  <2>1. hits \in SUBSET Foes /\ IsFiniteSet(Foes)
    BY MapAssumption
  <2> QED
    BY <2>1, FS_Subset
<1>6. \A f, g \in hits : <<f, g>> \in R \/ <<g, f>> \in R
  <2>1. SUFFICES ASSUME NEW f \in hits, NEW g \in hits PROVE <<f, g>> \in R \/ <<g, f>> \in R
    OBVIOUS
  <2>2. at1[f] \in Nat /\ at1[g] \in Nat /\ o[f] \in Nat /\ o[g] \in Nat
    BY <1>1, <1>3
  <2> QED
    BY <1>4, <2>2
<1>7. \A f, g \in hits : <<f, g>> \in R /\ <<g, f>> \in R => f = g
  BY <1>1, <1>3, <1>4
<1>8. \A f, g, h \in hits : <<f, g>> \in R /\ <<g, h>> \in R => <<f, h>> \in R
  BY <1>1, <1>3, <1>4
<1> QED
  BY <1>5, <1>6, <1>7, <1>8 DEF Line

\* What reconciling makes of zones that hold for the world before it holds for the one
\* after it: those over end, the others lie on whoever stands in them.
LEMMA ReconciledKeeps ==
    ASSUME NEW before \in [Tactical!Kinds -> ZoneRows], Tactical!Reconciled(before),
           \A k \in Tactical!Kinds :
              /\ before[k].status = "active" => before[k].since <= round' /\ before[k].centre \in Tactical!Cells
              /\ before[k].status # "active" => before[k].effects = {},
           Tactical!Fits(at)', alive' \subseteq Foes, round' \in Nat
    PROVE  zones' \in [Tactical!Kinds -> ZoneRows] /\ Tactical!NeverRefused'
<1>1. \A f \in Foes : f # "hero" /\ f # "ally"
  BY MapAssumption
<1>2. ASSUME NEW k \in Tactical!Kinds
      PROVE  /\ zones'[k] \in ZoneRows
             /\ Tactical!Sound(zones[k])' /\ Tactical!EffectsMatch(k, zones[k])' /\ Tactical!Loads(zones[k])'
  <2>1. PICK z \in ZoneRows : z = before[k]
    OBVIOUS
  <2>2. /\ z.status = "active" => z.since <= round' /\ z.centre \in Tactical!Cells
        /\ z.status # "active" => z.effects = {}
    BY <2>1
  <2>3. CASE z.status # "active"
    <3>1. zones'[k] = z
      BY <2>1, <2>3 DEF Tactical!Reconciled
    <3> QED
      BY <2>2, <2>3, <3>1 DEF Tactical!Sound, Tactical!EffectsMatch, Tactical!Loads
  <2>4. CASE z.status = "active" /\ Tactical!Over(z)
    <3>1. zones'[k] = [status |-> "over", centre |-> <<0, 0>>, since |-> 0, effects |-> {}]
      BY <2>1, <2>4 DEF Tactical!Reconciled, Tactical!NoZone, Tactical!None
    <3>2. zones'[k] \in ZoneRows
      BY <3>1 DEF ZoneRows
    <3> QED
      BY <3>1, <3>2 DEF Tactical!Sound, Tactical!EffectsMatch, Tactical!Loads
  <2>5. CASE z.status = "active" /\ ~Tactical!Over(z)
    <3>1. PICK c : c = IF k = "guiding aura" THEN at' ELSE z.centre
      OBVIOUS
    <3>2. zones'[k] = [z EXCEPT !.centre = c, !.effects = Tactical!Inside(c)]
      BY <2>1, <2>5, <3>1 DEF Tactical!Reconciled, Tactical!Followed
    <3>3. c \in Tactical!Cells
      BY <2>2, <2>5, <3>1 DEF Tactical!Fits
    <3>4. /\ ~dead' /\ fighting' /\ z.since <= round' /\ round' < z.since + Rounds
      <4>1. Rounds \in Nat
        BY MapAssumption
      <4>2. z.since \in Nat
        BY DEF ZoneRows
      <4> QED
        BY <2>2, <2>5, <4>1, <4>2 DEF Tactical!Over
    <3>5. PICK E : E = Tactical!Inside(c)
      OBVIOUS
    <3>6. /\ E \subseteq Foes \cup {"hero", "ally"}
          /\ "hero" \in E <=> Tactical!Distance(c, at') <= Radius
          /\ "ally" \in E <=> ally'.active /\ Tactical!Distance(c, ally'.at) <= Radius
          /\ \A f \in Foes : f \in E <=>
                f \in alive' /\ \E x \in Tactical!Footprint(FoeAt[f], FoeSize[f]) : Tactical!Distance(c, x) <= Radius
      <4>1. \A f \in Foes : Tactical!Footprint(FoeAt[f], FoeSize[f]) \subseteq Tactical!Cells
        BY MapAssumption
      <4> QED
        BY <1>1, <3>4, <3>5, <4>1 DEF Tactical!Inside
    <3>7. /\ zones'[k] \in ZoneRows /\ zones'[k].status = "active" /\ zones'[k].since = z.since
          /\ zones'[k].centre = c /\ zones'[k].effects = E
      <4>1. PICK y : y = [z EXCEPT !.centre = c, !.effects = E]
        OBVIOUS
      <4>2. y \in ZoneRows /\ y.status = z.status /\ y.since = z.since /\ y.centre = c /\ y.effects = E
        BY <3>3, <3>6, <4>1 DEF ZoneRows
      <4>3. zones'[k] = y
        BY <3>2, <3>5, <4>1
      <4> QED
        BY <2>5, <4>2, <4>3
    <3>8. Tactical!Sound(zones[k])'
      BY <3>3, <3>4, <3>7 DEF Tactical!Sound
    <3>9. Tactical!Loads(zones[k])'
      BY <3>4, <3>7 DEF Tactical!Loads
    <3>10. Tactical!EffectsMatch(k, zones[k])'
      BY <3>1, <3>4, <3>6, <3>7 DEF Tactical!EffectsMatch
    <3> QED
      BY <3>7, <3>8, <3>9, <3>10
  <2> QED
    BY <2>3, <2>4, <2>5
<1>3. zones' = [k \in Tactical!Kinds |-> zones'[k]]
  BY DEF Tactical!Reconciled
<1> QED
  BY <1>2, <1>3 DEF Tactical!NeverRefused

\* The zones of before a step are as the step's reconciling needs them.
ZonesReady(before) ==
    /\ before \in [Tactical!Kinds -> ZoneRows]
    /\ \A k \in Tactical!Kinds :
          /\ before[k].status = "active" => before[k].since <= round /\ before[k].centre \in Tactical!Cells
          /\ before[k].status # "active" => before[k].effects = {}

LEMMA ZonesAreReady == MapInv => ZonesReady(zones)
BY DEF MapInv, MapTyped, ZonesReady, Tactical!NeverRefused, Tactical!Sound

\* A step after which the hero stands where he stood.
LEMMA StandingKeeps ==
    ASSUME MapInv, UNCHANGED <<at, walked>>,
           NEW before, ZonesReady(before), Tactical!Reconciled(before),
           spent' \in 0..Speed, hp' \in 0..MaxHp, pending' \in Foes \cup {"none"},
           pending' # "none" => mine' /\ hp' > 0,
           reacted' \subseteq Foes, alive' \subseteq Foes, round' \in Nat, round <= round',
           acted' \in BOOLEAN, shield' \in BOOLEAN, dead' \in BOOLEAN,
           fighting' \in BOOLEAN, mine' \in BOOLEAN
    PROVE  MapInv' /\ Tactical!NoEscape
<1>1. Tactical!Fits(at) /\ round \in Nat
  BY DEF MapInv, MapTyped, Tactical!TypeOK
<1>2. Tactical!Fits(at)'
  BY <1>1 DEF Tactical!Fits
<1>3. /\ before \in [Tactical!Kinds -> ZoneRows]
      /\ \A k \in Tactical!Kinds :
          /\ before[k].status = "active" => before[k].since <= round' /\ before[k].centre \in Tactical!Cells
          /\ before[k].status # "active" => before[k].effects = {}
  <2>1. \A k \in Tactical!Kinds : before[k].since \in Nat
    BY DEF ZonesReady, ZoneRows
  <2> QED
    BY <1>1, <2>1 DEF ZonesReady
<1>4. zones' \in [Tactical!Kinds -> ZoneRows] /\ Tactical!NeverRefused'
  BY <1>2, <1>3, ReconciledKeeps
<1>5. \A k \in Tactical!Kinds : zones'[k].status \in {"none", "active", "over"}
  BY <1>4 DEF ZoneRows
<1>6. Tactical!TypeOK' /\ MapTyped'
  BY <1>2, <1>4, <1>5 DEF MapTyped, Tactical!TypeOK, Tactical!None
<1>7. Tactical!InterruptedInReach'
  BY DEF MapInv, Tactical!InterruptedInReach
<1>8. Tactical!NoEscape
  BY DEF Tactical!NoEscape
<1> QED
  BY <1>4, <1>6, <1>7, <1>8 DEF MapInv

LEMMA StandingStepsKeep ==
    ASSUME MapInv,
           \/ \E p, h \in BOOLEAN : Tactical!Answer(p, h)
           \/ \E s \in {"sphere", "line", "cone"}, c \in Aims, fallen \in SUBSET Foes :
                 Tactical!CastArea(s, c, fallen)
           \/ Tactical!AllyFollows \/ Tactical!EndTurn
           \/ \E w, d \in BOOLEAN : Tactical!FoesTurn(w, d)
    PROVE  MapInv' /\ Tactical!NoEscape
<1> USE DEF Tactical!None
<1>1. /\ spent \in 0..Speed /\ hp \in 0..MaxHp /\ pending \in Foes \cup {"none"}
      /\ pending # "none" => mine /\ hp > 0
      /\ reacted \subseteq Foes /\ alive \subseteq Foes /\ round \in Nat
      /\ acted \in BOOLEAN /\ shield \in BOOLEAN /\ dead \in BOOLEAN
      /\ fighting \in BOOLEAN /\ mine \in BOOLEAN
  BY DEF MapInv, MapTyped, Tactical!TypeOK
<1>2. ZonesReady(zones) /\ round <= round
  BY <1>1, ZonesAreReady
<1>3. MaxHp \in Nat /\ Speed \in Nat /\ 0 \in 0..Speed /\ 0 \in 0..MaxHp /\ (hp > 0 => hp - 1 \in 0..MaxHp)
  <2>1. MaxHp \in Nat /\ Speed \in Nat
    BY MapAssumption
  <2> QED
    BY <1>1, <2>1
<1>4. ASSUME NEW p \in BOOLEAN, NEW h \in BOOLEAN, Tactical!Answer(p, h)
      PROVE  MapInv' /\ Tactical!NoEscape
  <2>1. /\ UNCHANGED <<at, walked, spent, acted, dead, fighting, mine, round, alive, reacted>>
        /\ pending' = "none" /\ shield' \in BOOLEAN /\ hp' \in 0..MaxHp /\ Tactical!Reconciled(zones)
    BY <1>1, <1>3, <1>4 DEF Tactical!Answer
  <2> QED
    BY <1>1, <1>2, <2>1, StandingKeeps
<1>5. ASSUME NEW s, NEW c, NEW fallen, Tactical!CastArea(s, c, fallen)
      PROVE  MapInv' /\ Tactical!NoEscape
  <2>1. /\ UNCHANGED <<at, walked, spent, shield, pending, dead, mine, round, reacted>>
        /\ pending = "none" /\ acted' = TRUE /\ alive' = alive \ fallen /\ fighting' \in BOOLEAN
        /\ hp' \in {hp, hp - 1} /\ hp > 0 /\ Tactical!Reconciled(zones)
    BY <1>5 DEF Tactical!CastArea, Tactical!Ready
  <2>2. hp' \in 0..MaxHp /\ alive' \subseteq Foes
    BY <1>1, <1>3, <2>1
  <2> QED
    BY <1>1, <1>2, <2>1, <2>2, StandingKeeps
<1>6. CASE Tactical!AllyFollows
  <2>1. /\ UNCHANGED <<at, walked, spent, acted, shield, pending, hp, dead, fighting, mine, round, alive, reacted>>
        /\ Tactical!Reconciled(zones)
    BY <1>6 DEF Tactical!AllyFollows
  <2> QED
    BY <1>1, <1>2, <2>1, StandingKeeps
<1>7. CASE Tactical!EndTurn
  <2>1. /\ UNCHANGED <<at, walked, spent, acted, shield, pending, hp, dead, fighting, round, alive, reacted>>
        /\ pending = "none" /\ mine' = FALSE /\ Tactical!Reconciled(zones)
    BY <1>7 DEF Tactical!EndTurn
  <2> QED
    BY <1>1, <1>2, <2>1, StandingKeeps
<1>8. ASSUME NEW w \in BOOLEAN, NEW d \in BOOLEAN, Tactical!FoesTurn(w, d)
      PROVE  MapInv' /\ Tactical!NoEscape
  <2>1. /\ UNCHANGED <<at, walked, shield, pending, alive>>
        /\ ~mine /\ mine' = TRUE /\ round' = round + 1 /\ spent' = 0 /\ acted' = FALSE /\ reacted' = {}
        /\ dead' \in BOOLEAN /\ fighting' \in BOOLEAN /\ Tactical!Reconciled(zones)
    BY <1>8 DEF Tactical!FoesTurn
  <2>2. pending' = "none"
    BY <1>1, <2>1
  <2>3. hp' \in 0..MaxHp
    BY <1>1, <1>3, <1>8 DEF Tactical!FoesTurn
  <2>4. round' \in Nat /\ round <= round'
    BY <1>1, <2>1
  <2> QED
    BY <1>1, <1>2, <1>3, <2>1, <2>2, <2>3, <2>4, StandingKeeps
<1> QED
  BY <1>4, <1>5, <1>6, <1>7, <1>8

LEMMA ZoneCreateKeeps ==
    ASSUME MapInv, NEW k \in Tactical!Kinds, NEW centre \in Tactical!Cells, Tactical!ZoneCreate(k, centre)
    PROVE  MapInv' /\ Tactical!NoEscape
<1> USE DEF Tactical!None
<1>1. /\ spent \in 0..Speed /\ hp \in 0..MaxHp /\ pending \in Foes \cup {"none"}
      /\ pending # "none" => mine /\ hp > 0
      /\ reacted \subseteq Foes /\ alive \subseteq Foes /\ round \in Nat
      /\ acted \in BOOLEAN /\ shield \in BOOLEAN /\ dead \in BOOLEAN
      /\ fighting \in BOOLEAN /\ mine \in BOOLEAN
  BY DEF MapInv, MapTyped, Tactical!TypeOK
<1>2. PICK z : z = [status |-> "active", centre |-> centre, since |-> round, effects |-> {}]
  OBVIOUS
<1>3. z \in ZoneRows /\ z.status = "active" /\ z.centre = centre /\ z.since = round
  BY <1>1, <1>2 DEF ZoneRows
<1>4. PICK before : before = [zones EXCEPT ![k] = z]
  OBVIOUS
<1>5. ZonesReady(before)
  BY <1>1, <1>3, <1>4, ZonesAreReady DEF ZonesReady
<1>6. /\ UNCHANGED <<at, walked, spent, shield, pending, hp, dead, fighting, mine, round, alive, reacted>>
      /\ acted' = TRUE /\ Tactical!Reconciled(before)
  BY <1>2, <1>4 DEF Tactical!ZoneCreate
<1> QED
  BY <1>1, <1>5, <1>6, StandingKeeps

LEMMA RouteIsWalk ==
    ASSUME MapInv, NEW path \in Tactical!Routes(at)
    PROVE  /\ path \in Seq(Tactical!Cells) /\ Len(path) # 0
           /\ \A i \in 1..Len(path) : Tactical!Fits(path[i])
           /\ Tactical!Fare(path) <= Speed - spent
<1>1. spent \in 0..Speed /\ at \in Tactical!Cells /\ Speed \in Nat
  BY MapAssumption DEF MapInv, MapTyped, Tactical!TypeOK, Tactical!Fits
<1>2. PICK rest \in 0..Speed : rest = Speed - spent
  BY <1>1
<1>3. path \in {w \in UNION {[1..n -> Tactical!Cells] : n \in 1..rest} :
                  /\ \A i \in DOMAIN w : w[i] \in Tactical!Steps(IF i = 1 THEN at ELSE w[i - 1])
                  /\ Tactical!Fare(w) <= rest /\ w[Len(w)] # at}
  BY <1>1, <1>2 DEF Tactical!Routes, Tactical!Walks
<1>4. PICK n \in 1..rest : path \in [1..n -> Tactical!Cells]
  BY <1>3
<1>5. path \in Seq(Tactical!Cells) /\ Len(path) = n /\ n # 0
  BY <1>4
<1>6. \A i \in 1..n : Tactical!Fits(path[i])
  BY <1>3, <1>4 DEF Tactical!Steps
<1> QED
  BY <1>2, <1>3, <1>5, <1>6

\* The part of the walk that is walked, and who stopped it.
LEMMA StoppedMeans ==
    ASSUME MapInv, NEW path \in Tactical!Routes(at), NEW hits, Tactical!Stopped(path, hits), hp > 0
    PROVE  \E m \in 0..Len(path) : \E by :
             /\ at' = IF m = 0 THEN at ELSE path[m]
             /\ spent' = spent + Tactical!Fare(SubSeq(path, 1, m))
             /\ walked'.by = by
             /\ by = "none" => m = Len(path)
             /\ by # "none" =>
                  by \in Foes /\ m + 1 \in Tactical!Answers(by, path)
             /\ \A f \in Foes : \A i \in Tactical!Answers(f, path) : i <= m => f \in reacted'
             /\ reacted' \subseteq Foes
             /\ pending' \in Foes \cup {"none"}
             /\ hp' \in 0..hp /\ (pending' # "none" => hp' = hp)
<1>1. /\ path \in Seq(Tactical!Cells) /\ Len(path) # 0 /\ DOMAIN path = 1..Len(path)
      /\ hp \in Nat /\ reacted \subseteq Foes /\ "none" \notin Foes /\ shield \in BOOLEAN
  <2>1. "none" \notin Foes /\ MaxHp \in Nat
    BY MapAssumption
  <2> QED
    BY <2>1, RouteIsWalk DEF MapInv, MapTyped, Tactical!TypeOK
<1>2. PICK n \in Nat \ {0} : n = Len(path)
  <2>1. path \in Seq(Tactical!Cells) /\ Len(path) # 0
    BY RouteIsWalk
  <2> QED
    BY <2>1
<1> DEFINE asked == {f \in Foes : Tactical!Answers(f, path) # {}}
           Wounds(f) == Tactical!Cardinality({g \in hits : Tactical!Sooner(g, f, path)})
           ends == {f \in hits : shield \/ Wounds(f) = hp}
           stop == CHOOSE f \in ends : \A g \in ends : Tactical!Sooner(f, g, path)
           done == IF ends = {} THEN path
                   ELSE Tactical!Walked(path, Tactical!First(Tactical!Answers(stop, path)))
<1>3. /\ hits \subseteq asked
      /\ reacted' = reacted \cup {f \in asked : ends = {} \/ Tactical!Sooner(f, stop, path)}
      /\ pending' = IF ends # {} /\ shield THEN stop ELSE "none"
      /\ hp' = IF shield THEN hp ELSE hp - (IF ends = {} THEN Tactical!Cardinality(hits) ELSE Wounds(stop))
      /\ at' = IF done = <<>> THEN at ELSE done[Len(done)]
      /\ spent' = spent + Tactical!Fare(done)
      /\ walked' = [from |-> at, by |-> IF ends = {} THEN "none" ELSE stop]
  BY Zenon DEF Tactical!Stopped, Tactical!None
<1>4. PICK R : R = {p \in Foes \X Foes : Tactical!Sooner(p[1], p[2], path)}
  OBVIOUS
<1>5. hits \in SUBSET Foes /\ Line(hits, R)
  <2>1. hits \in SUBSET {f \in Foes : Tactical!Answers(f, path) # {}}
    BY <1>3
  <2>2. DOMAIN path \in SUBSET Nat
    BY <1>1, <1>2
  <2> HIDE DEF asked
  <2> QED
    BY <1>4, <2>1, <2>2, AskedInLine
<1>6. \A f \in Foes : Tactical!Answers(f, path) \subseteq 1..n
  BY <1>1, <1>2 DEF Tactical!Answers, Tactical!Leaves
<1>7. CASE ends = {}
  <2>1. hp' \in 0..hp
    <3>1. CASE shield
      BY <1>1, <1>3, <3>1
    <3>2. CASE ~shield
      <4>1. hp' = hp - Cardinality(hits) /\ IsFiniteSet(hits)
        BY <1>3, <1>5, <1>7, <3>2, SameCount DEF Line
      <4>2. Cardinality(hits) \in Nat
        BY <4>1, FS_CardinalityType
      <4>3. ~(hp <= Cardinality(hits))
        <5>1. SUFFICES ASSUME hp <= Cardinality(hits) PROVE FALSE
          OBVIOUS
        <5>2. PICK f \in hits : Cardinality(UpTo(hits, R, f)) = hp
          BY <1>1, <1>5, <5>1, SomebodyIsThere
        <5>3. UpTo(hits, R, f) = {g \in hits : Tactical!Sooner(g, f, path)}
          BY <1>4, <1>5 DEF UpTo
        <5>4. Wounds(f) = hp
          BY <5>2, <5>3, SameCount
        <5> QED
          BY <1>7, <5>4
      <4> QED
        BY <1>1, <4>1, <4>2, <4>3
    <3> QED
      BY <1>1, <3>1, <3>2
  <2>2. done = path /\ pending' = "none" /\ walked'.by = "none" /\ reacted' = reacted \cup asked
    BY <1>3, <1>7
  <2>3. at' = path[n] /\ spent' = spent + Tactical!Fare(SubSeq(path, 1, n))
    <3>1. SubSeq(path, 1, n) = path /\ path # <<>>
      BY <1>1, <1>2
    <3> QED
      BY <1>2, <1>3, <2>2, <3>1
  <2>4. \A f \in Foes : \A i \in Tactical!Answers(f, path) : f \in reacted'
    BY <2>2
  <2>5. reacted' \subseteq Foes
    BY <1>1, <2>2
  <2> HIDE DEF asked, ends, stop, done, Wounds
  <2> QED
    BY <1>2, <2>1, <2>2, <2>3, <2>4, <2>5
<1>8. CASE ends # {}
  <2>1. PICK f \in ends : \A g \in ends : Tactical!Sooner(f, g, path)
    <3>1. ends \in SUBSET hits
      OBVIOUS
    <3>2. PICK f \in ends : \A g \in ends : <<f, g>> \in R
      <4> HIDE DEF ends
      <4> QED
        BY <1>5, <1>8, <3>1, FirstInLine
    <3> QED
      BY <1>4, <3>2
  <2>2. stop \in ends
    <3> HIDE DEF ends
    <3> QED
      BY <2>1
  <2>3. stop \in Foes /\ stop \in hits /\ Tactical!Answers(stop, path) # {} /\ (shield \/ Wounds(stop) = hp)
    BY <1>3, <1>5, <2>2
  <2>4. PICK by : /\ by = stop /\ by \in Foes /\ Tactical!Answers(by, path) # {}
                  /\ walked'.by = by
                  /\ reacted' = reacted \cup {g \in asked : Tactical!Sooner(g, by, path)}
                  /\ done = Tactical!Walked(path, Tactical!First(Tactical!Answers(by, path)))
    <3>1. walked'.by = stop
      BY <1>3, <1>8
    <3>2. reacted' = reacted \cup {g \in asked : Tactical!Sooner(g, stop, path)}
      BY <1>3, <1>8
    <3>3. done = Tactical!Walked(path, Tactical!First(Tactical!Answers(stop, path)))
      BY <1>8
    <3> HIDE DEF stop, done, ends, asked, Wounds
    <3> QED
      BY <2>3, <3>1, <3>2, <3>3
  <2>5. PICK e : e = Tactical!First(Tactical!Answers(by, path))
    OBVIOUS
  <2>6. e \in Tactical!Answers(by, path) /\ e \in 1..n
    <3>1. Tactical!Answers(by, path) \in SUBSET Nat /\ Tactical!Answers(by, path) # {}
      <4> HIDE DEF stop, done, ends, asked, Wounds
      <4> QED
        BY <1>6, <2>4
    <3>2. e \in Tactical!Answers(by, path)
      BY <2>5, <3>1, FirstStep
    <3> HIDE DEF stop, done, ends, asked, Wounds
    <3> QED
      BY <1>6, <2>4, <3>2
  <2>7. hp' \in 0..hp /\ (pending' # "none" => hp' = hp) /\ pending' \in Foes \cup {"none"}
    <3>1. CASE shield
      BY <1>1, <1>3, <2>3, <3>1
    <3>2. CASE ~shield
      <4>1. hp' = hp - Wounds(stop) /\ Wounds(stop) = hp /\ pending' = "none"
        BY <1>3, <1>8, <2>3, <3>2
      <4> HIDE DEF stop, Wounds
      <4> QED
        BY <1>1, <4>1
    <3> QED
      BY <1>1, <3>1, <3>2
  <2>8. done = SubSeq(path, 1, e - 1)
    <3> HIDE DEF stop, done, ends, asked, Wounds
    <3> QED
      BY <2>4, <2>5 DEF Tactical!Walked
  <2>9. PICK m \in 0..n : m = e - 1
    BY <2>6
  <2>10. /\ at' = (IF m = 0 THEN at ELSE path[m])
         /\ spent' = spent + Tactical!Fare(SubSeq(path, 1, m))
    <3>1. PICK part1 : part1 = SubSeq(path, 1, m)
      OBVIOUS
    <3>2. Len(part1) = m /\ (m = 0 <=> part1 = <<>>) /\ (m # 0 => part1[m] = path[m])
      BY <1>1, <1>2, <3>1
    <3>3. done = part1
      BY <2>8, <2>9, <3>1
    <3>4. at' = (IF part1 = <<>> THEN at ELSE part1[Len(part1)])
          /\ spent' = spent + Tactical!Fare(part1)
      <4> HIDE DEF stop, done, ends, asked, Wounds
      <4> QED
        BY <1>3, <3>3
    <3> HIDE DEF stop, done, ends, asked, Wounds
    <3> QED
      BY <3>1, <3>2, <3>4
  <2>11. ASSUME NEW g \in Foes, NEW i \in Tactical!Answers(g, path), i <= m
         PROVE  g \in reacted'
    <3>1. g \in asked
      OBVIOUS
    <3>2. Tactical!Answers(g, path) \in SUBSET Nat /\ Tactical!Answers(g, path) # {}
      BY <1>6
    <3>3. PICK j : j = Tactical!First(Tactical!Answers(g, path))
      OBVIOUS
    <3>4. j \in Nat /\ j <= i /\ i \in Nat
      BY <3>2, <3>3, FirstStep
    <3>5. j < e
      BY <2>6, <2>9, <2>11, <3>4
    <3>6. Tactical!Sooner(g, by, path)
      BY <2>5, <3>3, <3>5 DEF Tactical!Sooner
    <3> QED
      BY <2>4, <3>1, <3>6
  <2>12. reacted' \subseteq Foes
    <3> HIDE DEF stop, done, ends, Wounds
    <3> QED
      BY <1>1, <2>4
  <2>13. m \in 0..Len(path) /\ m + 1 = e /\ by \in Foes /\ by # "none"
    <3> HIDE DEF stop, done, ends, asked, Wounds
    <3> QED
      BY <1>1, <1>2, <2>4, <2>6, <2>9
  <2> HIDE DEF asked, ends, stop, done, Wounds
  <2> QED
    BY <2>4, <2>6, <2>7, <2>10, <2>11, <2>12, <2>13
<1> QED
  BY <1>7, <1>8

LEMMA MoveOnMapKeeps ==
    ASSUME MapInv, NEW path \in Tactical!Routes(at), NEW hits, Tactical!Move(path, hits)
    PROVE  MapInv' /\ Tactical!NoEscape
<1> USE DEF Tactical!None
<1>1. /\ spent \in 0..Speed /\ hp \in 0..MaxHp /\ hp > 0 /\ mine
      /\ alive \subseteq Foes /\ round \in Nat
      /\ acted \in BOOLEAN /\ shield \in BOOLEAN /\ dead \in BOOLEAN
      /\ fighting \in BOOLEAN /\ mine \in BOOLEAN /\ Tactical!Fits(at)
  BY DEF MapInv, MapTyped, Tactical!TypeOK, Tactical!Move, Tactical!Ready
<1>2. /\ UNCHANGED <<acted, shield, dead, fighting, mine, round, alive>>
      /\ Tactical!Stopped(path, hits) /\ Tactical!Reconciled(zones)
  BY DEF Tactical!Move
<1>3. PICK n \in Nat \ {0} : /\ n = Len(path) /\ path \in Seq(Tactical!Cells)
                             /\ \A i \in 1..n : Tactical!Fits(path[i])
                             /\ Tactical!Fare(path) <= Speed - spent
  <2>1. path \in Seq(Tactical!Cells) /\ Len(path) # 0
    BY RouteIsWalk
  <2> QED
    BY <2>1, RouteIsWalk
<1>4. PICK m \in 0..n : \E by :
             /\ at' = IF m = 0 THEN at ELSE path[m]
             /\ spent' = spent + Tactical!Fare(SubSeq(path, 1, m))
             /\ walked'.by = by
             /\ by = "none" => m = n
             /\ by # "none" =>
                  by \in Foes /\ m + 1 \in Tactical!Answers(by, path)
             /\ \A f \in Foes : \A i \in Tactical!Answers(f, path) : i <= m => f \in reacted'
             /\ reacted' \subseteq Foes
             /\ pending' \in Foes \cup {"none"}
             /\ hp' \in 0..hp /\ (pending' # "none" => hp' = hp)
  BY <1>1, <1>2, <1>3, StoppedMeans
<1>5. /\ at' = IF m = 0 THEN at ELSE path[m]
      /\ spent' = spent + Tactical!Fare(SubSeq(path, 1, m))
      /\ walked'.by # "none" => m + 1 \in Tactical!Answers(walked'.by, path)
      /\ \A f \in Foes : \A i \in Tactical!Answers(f, path) : i <= m => f \in reacted'
      /\ reacted' \subseteq Foes
      /\ pending' \in Foes \cup {"none"}
      /\ hp' \in 0..hp /\ (pending' # "none" => hp' = hp)
  BY <1>4
<1>6. PICK here : here = at'
  OBVIOUS
<1>7. Tactical!Fits(here)
  BY <1>1, <1>3, <1>5, <1>6
<1>8. Tactical!Fits(at)'
  BY <1>6, <1>7 DEF Tactical!Fits
<1>9. spent' \in 0..Speed
  <2>1. PICK part1 : part1 = SubSeq(path, 1, m)
    OBVIOUS
  <2>2. part1 \in Seq(Tactical!Cells) /\ Len(part1) = m /\ \A i \in 1..m : part1[i] = path[i]
    BY <1>3, <2>1
  <2>3. /\ Tactical!Fare(part1) \in Nat /\ Tactical!Fare(path) \in Nat
        /\ Tactical!Fare(part1) <= Tactical!Fare(path)
    BY <1>3, <2>2, PartFare
  <2>4. Speed \in Nat /\ spent' = spent + Tactical!Fare(part1)
    BY <1>5, <2>1, MapAssumption
  <2> QED
    BY <1>1, <1>3, <2>3, <2>4
<1>10. hp' \in 0..MaxHp /\ (pending' # "none" => mine' /\ hp' > 0)
  <2>1. MaxHp \in Nat
    BY MapAssumption
  <2> QED
    BY <1>1, <1>2, <1>5, <2>1
<1>11. zones' \in [Tactical!Kinds -> ZoneRows] /\ Tactical!NeverRefused'
  <2>1. ZonesReady(zones) /\ round' = round
    BY <1>2, ZonesAreReady
  <2>2. alive' \subseteq Foes /\ round' \in Nat
    BY <1>1, <1>2
  <2> QED
    BY <1>2, <1>8, <2>1, <2>2, ReconciledKeeps DEF ZonesReady
<1>12. Tactical!TypeOK' /\ MapTyped'
  <2>1. \A k \in Tactical!Kinds : zones'[k].status \in {"none", "active", "over"}
    BY <1>11 DEF ZoneRows
  <2> QED
    BY <1>1, <1>2, <1>5, <1>8, <1>9, <1>10, <1>11, <2>1 DEF MapTyped, Tactical!TypeOK
<1>13. Tactical!Before(path, m + 1) = at'
  BY <1>5 DEF Tactical!Before
<1>14. Tactical!InterruptedInReach'
  <2>1. PICK by : by = walked'.by
    OBVIOUS
  <2>2. by # "none" => Tactical!Reaches(by, here)
    BY <1>5, <1>6, <1>13, <2>1 DEF Tactical!Answers, Tactical!Leaves
  <2> QED
    BY <1>6, <2>1, <2>2 DEF Tactical!InterruptedInReach
<1>15. Tactical!NoEscape
  <2>1. SUFFICES ASSUME NEW f \in Melee \cap alive,
                        f \notin reacted, Tactical!Reaches(f, at), ~Tactical!Reaches(f, here),
                        \A c \in Tactical!Cells : Tactical!Fits(c) /\ Tactical!Reaches(f, c) => ~Tactical!TotalCover(f, c)
                 PROVE  f \in reacted'
    BY <1>6 DEF Tactical!NoEscape
  <2> DEFINE Out == {i \in 1..m : ~Tactical!Reaches(f, path[i])}
  <2>2. m # 0
    BY <1>5, <1>6, <2>1
  <2>3. m \in Out
    BY <1>5, <1>6, <2>1, <2>2
  <2>4. PICK i \in Out : \A j \in Out : i <= j
    <3>1. Out \in SUBSET Nat /\ Out # {}
      BY <2>3
    <3> HIDE DEF Out
    <3> QED
      BY <3>1, LeastNumber
  <2>5. i \in 1..m /\ ~Tactical!Reaches(f, path[i]) /\ i \in DOMAIN path
    BY <1>3
  <2>6. PICK c : c = Tactical!Before(path, i)
    OBVIOUS
  <2>7. Tactical!Reaches(f, c) /\ Tactical!Fits(c)
    <3>1. CASE i = 1
      BY <1>1, <2>1, <2>6, <3>1 DEF Tactical!Before
    <3>2. CASE i # 1
      <4>1. i - 1 \in 1..m /\ i - 1 \notin Out /\ c = path[i - 1]
        BY <2>4, <2>5, <2>6, <3>2 DEF Tactical!Before
      <4> QED
        BY <1>3, <4>1
    <3> QED
      BY <3>1, <3>2
  <2>8. ~Tactical!TotalCover(f, c)
    BY <2>1, <2>7 DEF Tactical!Fits
  <2>9. i \in Tactical!Leaves(f, path)
    BY <2>5, <2>6, <2>7 DEF Tactical!Leaves
  <2>10. i \in Tactical!Answers(f, path)
    BY <2>1, <2>6, <2>8, <2>9 DEF Tactical!Answers
  <2> QED
    BY <1>1, <1>5, <2>5, <2>10
<1> QED
  BY <1>10, <1>11, <1>12, <1>14, <1>15 DEF MapInv

LEMMA NextMap ==
    ASSUME MapInv, Tactical!Next
    PROVE  MapInv' /\ Tactical!NoEscape
<1>1. Aims \subseteq Tactical!Cells /\ at \in Tactical!Cells
  BY MapAssumption DEF MapInv, MapTyped, Tactical!TypeOK, Tactical!Fits
<1>2. "hindering circle" \in Tactical!Kinds /\ "guiding aura" \in Tactical!Kinds
  BY DEF Tactical!Kinds
<1>3. ASSUME NEW k \in Tactical!Kinds, NEW c \in Tactical!Cells, Tactical!ZoneCreate(k, c)
      PROVE  MapInv' /\ Tactical!NoEscape
  BY <1>3, ZoneCreateKeeps
<1>4. ASSUME NEW path \in Tactical!Routes(at), NEW hits, Tactical!Move(path, hits)
      PROVE  MapInv' /\ Tactical!NoEscape
  BY <1>4, MoveOnMapKeeps
<1> QED
  BY <1>1, <1>2, <1>3, <1>4, StandingStepsKeep DEF Tactical!Next

LEMMA InitMap == Tactical!Init => MapInv
<1> SUFFICES ASSUME Tactical!Init PROVE MapInv
  OBVIOUS
<1> USE DEF Tactical!Init, Tactical!None
<1>1. MaxHp \in Nat /\ Speed \in Nat
  BY MapAssumption
<1>2. Tactical!Fits(at) /\ hp \in 0..MaxHp /\ spent \in 0..Speed /\ pending = "none"
  BY <1>1
<1>3. /\ zones \in [Tactical!Kinds -> ZoneRows]
      /\ \A k \in Tactical!Kinds : zones[k].status = "none" /\ zones[k].effects = {}
  BY DEF ZoneRows, Tactical!NoZone
<1>4. Tactical!TypeOK /\ MapTyped
  BY <1>2, <1>3 DEF MapTyped, Tactical!TypeOK
<1>5. Tactical!NeverRefused
  BY <1>3 DEF Tactical!NeverRefused, Tactical!Sound, Tactical!EffectsMatch, Tactical!Loads
<1>6. Tactical!InterruptedInReach
  BY DEF Tactical!InterruptedInReach
<1> QED
  BY <1>2, <1>4, <1>5, <1>6 DEF MapInv

-----------------------------------------------------------------------------
(* The theorems.                                                             *)

LEMMA InitPlaces == Init => PlacesInv
BY InitLocations, InitItems, InitScene DEF Init, PlacesInv

LEMMA NextPlaces == PlacesInv /\ [Next]_allVars => PlacesInv'
<1> SUFFICES ASSUME PlacesInv, [Next]_allVars PROVE PlacesInv'
  OBVIOUS
<1> USE DEF PlacesInv
<1>1. part' = part
  BY DEF Next, allVars
<1>2. CASE part = "Locations"
  <2>1. CASE Locations!Next
    BY <1>1, <1>2, <2>1, NextLocations
  <2>2. CASE UNCHANGED allVars
    <3>1. compiled \subseteq compiled' /\ compiled' \subseteq PlaceKeys /\ people' \subseteq Residents
          /\ UNCHANGED <<placed, inside, exits, placeAt, left>>
      BY <1>2, <2>2 DEF allVars, LocationsInv, PlacesTyped
    <3> QED
      BY <1>1, <1>2, <3>1, SamePlaces
  <2> QED
    BY <1>2, <2>1, <2>2 DEF Next
<1>3. CASE part = "RuntimeItems"
  <2>1. CASE RuntimeItems!Next
    BY <1>1, <1>3, <2>1, NextItems
  <2>2. CASE UNCHANGED allVars
    BY <1>1, <1>3, <2>2 DEF allVars, ItemsInv, RuntimeItems!TypeOK,
          RuntimeItems!MirrorsInventory, RuntimeItems!SceneIsTold
  <2> QED
    BY <1>3, <2>1, <2>2 DEF Next
<1>4. CASE part = "WorldScene"
  <2>1. CASE WorldScene!Next
    BY <1>1, <1>4, <2>1, NextScene
  <2>2. CASE UNCHANGED allVars
    BY <1>1, <1>4, <2>2 DEF allVars, SceneInv, WorldScene!ContentsHeld
  <2> QED
    BY <1>4, <2>1, <2>2 DEF Next
<1> QED
  BY <1>1, <1>2, <1>3, <1>4

\* Every reachable state of the places, items and objects satisfies the inductive
\* invariant (resolveContentCompile(), resolveMove(), syncRuntimeItemInventoryState(),
\* resolveWorldContext()).
THEOREM PlacesInvariant == Spec => []PlacesInv
<1>1. Init => PlacesInv
  BY InitPlaces
<1>2. PlacesInv /\ [Next]_allVars => PlacesInv'
  BY NextPlaces
<1> QED
  BY <1>1, <1>2, PTL DEF Spec

\* Nobody is in two places, no place contains itself and no way leads back to a place
\* the hero left; an item's status tells of the inventory and nothing untold stands in
\* the scene; nothing lies in a box that is not there (engine-domain.ts).
THEOREM PlacesStay == Spec => []PlacesHold
<1>1. PlacesInv => PlacesHold
  BY LocationsHold DEF PlacesInv, PlacesHold, ItemsInv, SceneInv
<1> QED
  BY <1>1, PlacesInvariant, PTL

\* Everything a component keeps is kept while nothing happens.
LEMMA QuietFights == FightsInv /\ UNCHANGED allVars => FightsInv'
<1> SUFFICES ASSUME FightsInv, UNCHANGED allVars PROVE FightsInv'
  OBVIOUS
<1> USE DEF FightsInv, allVars
<1>1. part' = part
  OBVIOUS
<1>2. CASE part = "Tactical"
  <2>1. MapTyped'
    BY <1>2 DEF MapInv, MapTyped, Tactical!TypeOK, Tactical!Fits
  <2>2. Tactical!NeverRefused' /\ Tactical!InterruptedInReach' /\ (pending' # "none" => mine' /\ hp' > 0)
    BY <1>2 DEF MapInv, Tactical!NeverRefused, Tactical!Sound, Tactical!EffectsMatch,
                Tactical!Loads, Tactical!InterruptedInReach
  <2> QED
    BY <1>1, <1>2, <2>1, <2>2 DEF MapInv
<1>3. CASE part = "GuardEncounter"
  <2>1. WatchTyped' /\ TurnsTaken'
    BY <1>3 DEF WatchInv, WatchTyped, TurnsTaken, GuardEncounter!Going, GuardEncounter!Living,
                GuardEncounter!Alive, GuardEncounter!Open
  <2>2. /\ GuardEncounter!OneOfferEach' /\ GuardEncounter!CustodyOutsideCombat'
        /\ GuardEncounter!FreedTogether'
    BY <1>3 DEF WatchInv, GuardEncounter!OneOfferEach, GuardEncounter!CustodyOutsideCombat,
                GuardEncounter!FreedTogether, GuardEncounter!Free, GuardEncounter!Going
  <2> QED
    BY <1>1, <1>3, <2>1, <2>2 DEF WatchInv
<1>4. CASE part = "Conditions"
  <2>1. Conditions!TypeOK'
    BY <1>4 DEF EffectsInv, Conditions!TypeOK
  <2>2. Conditions!SavesStayOpen' /\ GuardsUp'
    BY <1>4 DEF EffectsInv, Conditions!SavesStayOpen, GuardsUp, Conditions!Fighting
  <2> QED
    BY <1>1, <1>4, <2>1, <2>2 DEF EffectsInv
<1>5. CASE part = "WorldScene"
  BY <1>1, <1>5 DEF WorldScene!TypeOK, WorldScene!Established
<1> QED
  BY <1>1, <1>2, <1>3, <1>4, <1>5

LEMMA InitFights == Init => FightsInv
BY InitMap, InitWatch, InitEffects, InitSceneTypes DEF Init, FightsInv

LEMMA NextFights ==
    ASSUME FightsInv, PlacesInv, Next
    PROVE  /\ FightsInv'
           /\ part = "Tactical" => Tactical!NoEscape
           /\ part = "GuardEncounter" => GuardEncounter!OutcomeStands
           /\ part = "Conditions" => Conditions!TurnsBeginClean
           /\ part = "RuntimeItems" => RuntimeItems!MeansTheSame
           /\ part = "WorldScene" => WorldScene!EditsKeepStanding
<1> USE DEF FightsInv, PlacesInv, Next
<1>1. part' = part
  OBVIOUS
<1>2. CASE part = "Tactical"
  BY <1>1, <1>2, NextMap
<1>3. CASE part = "GuardEncounter"
  BY <1>1, <1>3, NextWatch
<1>4. CASE part = "Conditions"
  BY <1>1, <1>4, NextEffects
<1>5. CASE part = "RuntimeItems"
  BY <1>1, <1>5, NextItemsMeanTheSame
<1>6. CASE part = "WorldScene"
  BY <1>1, <1>6, NextSceneKeepsTypes
<1> QED
  BY <1>1, <1>2, <1>3, <1>4, <1>5, <1>6

\* Every reachable state of the map, the guards and the conditions satisfies the inductive
\* invariant (resolveCombatMove(), reconcileTacticalZones(), resolveEncounterDecision(),
\* resolveAdvanceTurn(), resolveCustodyAction()).
THEOREM FightsInvariant == Spec => []FightsInv
<1>1. Init => FightsInv
  BY InitFights
<1>2. FightsInv /\ PlacesInv /\ [Next]_allVars => FightsInv'
  BY NextFights, QuietFights
<1> QED
  BY <1>1, <1>2, PlacesInvariant, PTL DEF Spec

\* Every component of the world keeps its types, for any map, any guards and any
\* conditions (engine-domain.ts).
THEOREM WorldTypesCorrect == Spec => []TypeOK
<1>1. FightsInv /\ PlacesInv => TypeOK
  <2> SUFFICES ASSUME FightsInv, PlacesInv PROVE TypeOK
    OBVIOUS
  <2>1. part = "Locations" => Locations!TypeOK
    BY DEF PlacesInv, LocationsInv, PlacesTyped, PlaceExits, Locations!TypeOK
  <2>2. part = "RuntimeItems" => RuntimeItems!TypeOK
    BY DEF PlacesInv, ItemsInv
  <2>3. part = "GuardEncounter" => GuardEncounter!TypeOK
    BY WatchHolds DEF FightsInv
  <2>4. part = "Tactical" => Tactical!TypeOK
    BY DEF FightsInv, MapInv, MapTyped
  <2>5. part = "Conditions" => Conditions!TypeOK
    BY DEF FightsInv, EffectsInv
  <2>6. part = "WorldScene" => WorldScene!TypeOK
    BY DEF FightsInv
  <2> QED
    BY <2>1, <2>2, <2>3, <2>4, <2>5, <2>6 DEF TypeOK
<1> QED
  BY <1>1, FightsInvariant, PlacesInvariant, PTL

\* On any map with any foes the checks of a load find no fault with the zones, and a foe
\* that interrupts a walk reaches the hero; with any guards each offers its surrender once,
\* the hero strikes once a turn, captives go free together and the turn is with somebody who
\* can take it; what a creature did can be saved against (assertCampaignEngineIntegrity(),
\* maybeOfferSurrender(), deriveActionOffers(), resolveRepeatSaves()).
THEOREM FightsStaySound == Spec => []FightsHold
<1>1. FightsInv => FightsHold
  BY WatchHolds DEF FightsInv, FightsHold, MapInv, EffectsInv
<1> QED
  BY <1>1, FightsInvariant, PTL

\* No step walks the hero out of a seeing foe's reach without its reaction, changes how a
\* fight ended, begins a turn under what is over, gives an old item a second meaning or
\* undoes a feud by an edit (movementTriggers(), resolveEncounterDecision(),
\* reconcileTurnStart(), materializeItem(), resolveWorldContext()).
THEOREM WorldStepsEarned == Spec => StepsEarned
<1>1. FightsInv /\ PlacesInv /\ [Next]_allVars =>
        [/\ part = "Tactical" => Tactical!NoEscape
         /\ part = "GuardEncounter" => GuardEncounter!OutcomeStands
         /\ part = "Conditions" => Conditions!TurnsBeginClean
         /\ part = "RuntimeItems" => RuntimeItems!MeansTheSame
         /\ part = "WorldScene" => WorldScene!EditsKeepStanding]_allVars
  BY NextFights
<1> QED
  BY <1>1, FightsInvariant, PlacesInvariant, PTL DEF Spec, StepsEarned
=============================================================================
