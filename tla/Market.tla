------------------------------- MODULE Market -------------------------------
(***************************************************************************)
(* Theft, trade and standing (src/engine-domain.ts): resolveSocialAction(), *)
(* resolveSocialCheck(), resolveMerchantTrade() and the scores they change. *)
(*                                                                         *)
(* There is one kind of thing to trade, one item id, which the merchants    *)
(* list and one NPC owns. A stack of it is a quantity and the thefts on     *)
(* record for it, oldest first. Money is left out: whether the hero can     *)
(* pay is any answer. So are rumours: the one of a crime goes to a guard    *)
(* (module Chronicle passes its time), and one the DM starts names its own  *)
(* source, so none ever tells a merchant of a theft.                        *)
(*                                                                         *)
(* An operator named X_Y is X with a deliberate fault: it is never part of   *)
(* the specification, and only shows that a property can fail.               *)
(***************************************************************************)
EXTENDS Integers, FiniteSets, Sequences, Functions

CONSTANTS
    Merchants,   \* worldContext.merchants
    Fences,      \* those with stolenGoodsPolicy "fence"
    Stock,       \* what a merchant has to sell at first
    MaxCrimes,   \* bound: crimes on record
    MaxSales,    \* bound: sales to a fence
    MaxChecks    \* bound: social checks

VARIABLES
    stock,     \* listing.stock of each merchant
    acquired,  \* merchant.acquiredItems: at most the one instance
    owned,     \* agency.resources.inventory of the NPC: how many
    hero,      \* the hero's stack of it
    crimes,    \* social.crimes, oldest first
    trust,     \* social.relationships: towards the hero
    repute,    \* social.reputations: the hero's in the community
    heat,      \* social.heat
    promise,   \* social.obligations: the one promise
    fenced,    \* ghost: how often stolen goods went to a fence
    checks     \* ghost: social checks so far

vars == <<stock, acquired, owned, hero, crimes, trust, repute, heat, promise, fenced, checks>>

Npc == "npc"
People == Merchants \cup {Npc}
Nobody == "nobody"
Kinds == {"theft", "promise-breach"}
Nothing == [quantity |-> 0, thefts |-> <<>>]

Init ==
    /\ stock = [m \in Merchants |-> Stock]
    /\ acquired = [m \in Merchants |-> Nothing]
    /\ owned = 1 /\ hero = Nothing
    /\ crimes = <<>>
    /\ trust = [p \in People |-> 0]
    /\ repute = 0 /\ heat = 0
    /\ promise = [status |-> "none", to |-> Nobody]
    /\ fenced = 0 /\ checks = 0

-----------------------------------------------------------------------------
(* Scores                                                                   *)

Within(low, high, n) == IF n < low THEN low ELSE IF n > high THEN high ELSE n

Clamped(n) == Within(-100, 100, n)

\* adjustSocialRelationship(), adjustSocialReputation(), adjustSocialHeat()
Warmer(p, delta) == trust' = [trust EXCEPT ![p] = Clamped(@ + delta)]
Renowned(delta) == repute' = Clamped(repute + delta)
Hotter(delta) == heat' = Within(0, 100, heat + delta)

\* Half the reputation, cut towards zero, on top of the trust.
Standing(m) == Clamped(trust[m] + (IF repute < 0 THEN -((-repute) \div 2) ELSE repute \div 2))

ServedBy(m) == Standing(m) > -75

-----------------------------------------------------------------------------
(* Promises and checks                                                      *)

Crime(kind, victim, witness) == [kind |-> kind, victim |-> victim, witness |-> witness]

Promise(p) ==
    /\ promise.status = "none"
    /\ promise' = [status |-> "open", to |-> p]
    /\ Warmer(p, 5)
    /\ UNCHANGED <<stock, acquired, owned, hero, crimes, repute, heat, fenced, checks>>

\* A promise already resolved is resolved again.
Resolvable_Again == promise.status # "none"

Resolvable == promise.status = "open"

FulfillPromise ==
    /\ Resolvable
    /\ promise' = [promise EXCEPT !.status = "fulfilled"]
    /\ Warmer(promise.to, 8) /\ Renowned(5)
    /\ UNCHANGED <<stock, acquired, owned, hero, crimes, heat, fenced, checks>>

BreachPromise(witness) ==
    /\ Resolvable
    /\ Len(crimes) < MaxCrimes
    /\ promise' = [promise EXCEPT !.status = "breached"]
    /\ Warmer(promise.to, -20)
    /\ IF witness = Nobody THEN UNCHANGED repute ELSE Renowned(-15)
    /\ crimes' = Append(crimes, Crime("promise-breach", promise.to, witness))
    /\ UNCHANGED <<stock, acquired, owned, hero, heat, fenced, checks>>

SocialCheck ==
    /\ checks < MaxChecks /\ checks' = checks + 1
    /\ \E delta \in {5, -2} : Warmer(Npc, delta)
    /\ UNCHANGED <<stock, acquired, owned, hero, crimes, repute, heat, promise, fenced>>

-----------------------------------------------------------------------------
(* Theft                                                                    *)

\* How many of the thing the victim has: only one that is the last is marked.
Has(victim) == IF victim = Npc THEN owned ELSE stock[victim]

\* The hero may come to hold the same instance twice.
Stealable_Again(victim) == Has(victim) = 1

Stealable(victim) == Has(victim) = 1 /\ hero = Nothing

\* A theft nobody saw counts as much.
Shame_Always(victim, witness) ==
    /\ Warmer(victim, -25) /\ Renowned(-20) /\ Hotter(20)

Shame(victim, witness) ==
    IF witness = Nobody THEN Warmer(victim, -10) /\ UNCHANGED <<repute, heat>>
    ELSE Warmer(victim, -25) /\ Renowned(-20) /\ Hotter(20)

Take(victim) ==
    IF victim = Npc THEN owned' = owned - 1 /\ UNCHANGED stock
    ELSE stock' = [stock EXCEPT ![victim] = @ - 1] /\ UNCHANGED owned

\* The stolen instance is the one listed: it has no earlier thefts on record.
Theft(victim, witness) ==
    /\ Len(crimes) < MaxCrimes
    /\ Stealable(victim)
    /\ crimes' = Append(crimes, Crime("theft", victim, witness))
    /\ hero' = [quantity |-> 1, thefts |-> <<Len(crimes) + 1>>]
    /\ Take(victim)
    /\ Shame(victim, witness)
    /\ UNCHANGED <<acquired, promise, fenced, checks>>

\* A theft of something the victim is not known to have is recorded all the same.
Alleged(victim, witness) ==
    /\ Len(crimes) < MaxCrimes
    /\ crimes' = Append(crimes, Crime("theft", victim, witness))
    /\ Shame(victim, witness)
    /\ UNCHANGED <<stock, acquired, owned, hero, promise, fenced, checks>>

-----------------------------------------------------------------------------
(* Trade                                                                    *)

Stolen(stack) == stack.thefts # <<>>
Latest(stack) == crimes[stack.thefts[Len(stack.thefts)]]

\* merchantTheftRecognition()
Recognizes_Victim(m) == Stolen(hero) /\ m = Latest(hero).victim

Recognizes(m) == Stolen(hero) /\ m \in {Latest(hero).victim, Latest(hero).witness}

Handed(m) == acquired' = [acquired EXCEPT ![m] = Nothing]

Buy(m, quantity) ==
    /\ ServedBy(m)
    /\ stock[m] >= quantity
    /\ hero = Nothing
    /\ acquired[m] # Nothing => acquired[m].quantity = quantity
    /\ hero' = [quantity |-> quantity, thefts |-> acquired[m].thefts]
    /\ Handed(m)
    /\ stock' = [stock EXCEPT ![m] = @ - quantity]
    /\ UNCHANGED <<owned, crimes, trust, repute, heat, promise, fenced, checks>>

Sold(quantity) ==
    hero' = IF hero.quantity = quantity THEN Nothing ELSE [hero EXCEPT !.quantity = @ - quantity]

SellOwn(m, quantity) ==
    /\ ServedBy(m)
    /\ ~Stolen(hero) /\ hero.quantity >= quantity
    /\ Sold(quantity)
    /\ stock' = [stock EXCEPT ![m] = @ + quantity]
    /\ UNCHANGED <<acquired, owned, crimes, trust, repute, heat, promise, fenced, checks>>

SellStolen(m) ==
    /\ ServedBy(m)
    /\ Stolen(hero)
    /\ m \in Fences \/ ~Recognizes(m)
    /\ acquired[m] = Nothing
    /\ m \in Fences => fenced < MaxSales
    /\ acquired' = [acquired EXCEPT ![m] = hero]
    /\ Sold(hero.quantity)
    /\ stock' = [stock EXCEPT ![m] = @ + hero.quantity]
    /\ IF m \in Fences THEN Hotter(5) /\ fenced' = fenced + 1 ELSE UNCHANGED <<heat, fenced, checks>>
    /\ UNCHANGED <<owned, crimes, trust, repute, promise, checks>>

-----------------------------------------------------------------------------
Next ==
    \/ \E p \in People : Promise(p)
    \/ FulfillPromise \/ SocialCheck
    \/ \E w \in People \cup {Nobody} : BreachPromise(w)
    \/ \E v \in People, w \in People \cup {Nobody} : Theft(v, w) \/ Alleged(v, w)
    \/ \E m \in Merchants, q \in 1..2 : Buy(m, q) \/ SellOwn(m, q)
    \/ \E m \in Merchants : SellStolen(m)

Spec == Init /\ [][Next]_vars

-----------------------------------------------------------------------------
(* Properties                                                               *)

Stacks == [quantity : 0..4, thefts : {<<>>} \cup {<<i>> : i \in 1..MaxCrimes}]
Score == -100..100

TypeOK ==
    /\ stock \in [Merchants -> Nat] /\ owned \in {0, 1}
    /\ acquired \in [Merchants -> Stacks] /\ hero \in Stacks
    /\ crimes \in Seq([kind : Kinds, victim : People, witness : People \cup {Nobody}])
    /\ trust \in [People -> Score] /\ repute \in Score /\ heat \in 0..100
    /\ promise \in [status : {"none", "open", "fulfilled", "breached"}, to : People \cup {Nobody}]
    /\ fenced \in 0..MaxSales /\ checks \in 0..MaxChecks

\* The thing is never in two hands: whoever is robbed, sells or buys, as many
\* of it are in the world as there were (theft_item_not_unique,
\* item_instance_conflict, insufficient_stock).
UnitsKept ==
    owned + hero.quantity + FoldFunction(+, 0, stock) = 1 + Stock * Cardinality(Merchants)

\* A merchant who was robbed of the instance, or saw it stolen, never takes it
\* in, except as a fence (refuse-known).
NoKnownStolenGoods ==
    \A m \in Merchants \ Fences :
      acquired'[m] \notin {acquired[m], Nothing} =>
        \A i \in {acquired'[m].thefts[j] : j \in 1..Len(acquired'[m].thefts)} :
          m \notin {crimes[i].victim, crimes[i].witness}

\* The law's heat is the thefts somebody saw and the goods a fence took, and
\* nothing else: an allegation never makes the hero wanted.
Witnessed == {i \in DOMAIN crimes : crimes[i].kind = "theft" /\ crimes[i].witness # Nobody}

HeatEarned == heat = Within(0, 100, 20 * Cardinality(Witnessed) + 5 * fenced)

\* Breaking the promise is on record once, and only while the promise is not
\* kept (promise_already_resolved).
BreachedOnce ==
    Cardinality({i \in DOMAIN crimes : crimes[i].kind = "promise-breach"}) =
      (IF promise.status = "breached" THEN 1 ELSE 0)
=============================================================================
