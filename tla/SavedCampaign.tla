--------------------------- MODULE SavedCampaign ---------------------------
(***************************************************************************)
(* Reading a saved campaign (normalizeCampaignState in engine-domain.ts).  *)
(* Every command starts from a campaign that was written by an earlier     *)
(* command, possibly of an earlier version of the program, and is brought  *)
(* into a consistent form first: companions before the party they are in,  *)
(* time and weather before the remains that decay by them, the hero before *)
(* his fight, his conditions before his state of life.  What the load      *)
(* derives is saved by the next command.  A value an old version did not   *)
(* write is "absent", one it wrote otherwise is "odd".                     *)
(* The reviewed boss fight has its own module (BossEncounter).             *)
(***************************************************************************)
EXTENDS Integers, FiniteSets

CONSTANTS
    Companions,   \* ids of companions and summons
    MaxMinutes,   \* bound: game time
    DecayIn       \* minutes until remains decay, by weather

VARIABLES
    hero,      \* life, hit points, conditions, death saves
    fight,     \* status, geometry, zones, pending reaction
    clock,     \* minutes and weather
    events,    \* scheduled events: what they are for, and their status
    actors,    \* the controlled actors: status and hit points, by id
    sustained, \* companions whose source still has an active effect
    party,     \* members, leader and viewpoint, or "absent"
    remains,   \* one corpse, or "absent"
    quest,     \* the graph of the current quest, or "absent"
    advance,   \* the pending advancement
    loaded     \* whether the campaign has been loaded since it was written

parts == <<hero, fight, clock, events, actors, sustained, party, remains,
           quest, advance>>
vars == <<parts, loaded>>

Hero == "hero"
Weathers == {"clear", "rain", "storm"}
Terminal == {"dead", "dismissed", "expired", "incapacitated"}

-----------------------------------------------------------------------------
(* Time *)

\* normalizeTimeState: negative time is none, unknown weather is clear,
\* events of an unknown kind are dropped.
Clock(c) ==
    [minutes |-> IF c.minutes < 0 THEN 0 ELSE c.minutes,
     weather |-> IF c.weather \in {"rain", "storm"} THEN c.weather
                 ELSE "clear"]

Known(es) ==
    {[e EXCEPT !.status = IF @ = "processed" THEN @ ELSE "pending"] :
        e \in {x \in es : x.kind # "odd"}}

-----------------------------------------------------------------------------
(* Companions and the party *)

\* normalizeControlledActors: an active companion without hit points is dead.
Actor(a) ==
    LET asked == IF a.status \in Terminal THEN a.status ELSE "active"
    IN  [a EXCEPT !.status = IF asked = "active" /\ a.hp = 0 THEN "dead"
                             ELSE asked]

Actors == [i \in DOMAIN actors |-> Actor(actors[i])]

Gone_AsSaved == {i \in DOMAIN actors : actors[i].status \in Terminal}

\* Who is gone, after the companions themselves have been read.
Gone == {i \in DOMAIN actors : Actors[i].status # "active"}

Present == DOMAIN actors \ Gone

\* What awaits a companion that is gone is dropped with its source.
Events == {e \in Known(events) : ~(e.status = "pending" /\ e.for \in Gone)}

Members_Listed(p) == (p.members \cap ({Hero} \cup DOMAIN actors)) \cup {Hero}

\* normalizePartyState: of the members those that exist, the hero, and every
\* companion that is present.
Members(p) ==
    (p.members \cap ({Hero} \cup DOMAIN actors)) \cup {Hero} \cup Present

Party ==
    IF party.id = "absent" THEN party
    ELSE LET ms == Members(party)
             first == IF party.leader \in ms THEN party.leader ELSE Hero
         IN  [party EXCEPT !.members = ms, !.leader = first,
                !.viewpoint = IF @ \in ms THEN @ ELSE first,
                !.mode = IF @ = "split" THEN @ ELSE "together"]

-----------------------------------------------------------------------------
(* Remains *)

Recorded_Today(r) == FALSE

\* A decay the reviewed profile recorded is kept; any other starts now.
Recorded(r) == r.profile = "reviewed"

\* normalizeCorpses.
Corpse(r) ==
    LET place == IF r.environment \in Weathers THEN r.environment
                 ELSE Clock(clock).weather
        since == IF Recorded(r) THEN r.created ELSE Clock(clock).minutes
        due == IF Recorded(r) /\ r.due >= since THEN r.due
               ELSE since + DecayIn[place]
        state == IF Recorded(r) /\ r.state = "decayed" THEN "decayed"
                 ELSE "fresh"
    IN  [r EXCEPT !.profile = "reviewed", !.environment = place,
            !.created = since, !.due = due, !.state = state,
            !.removed = @ /\ state = "decayed",
            !.harvested = @ /\ r.species = "dragonborn"]

Remains == IF remains.profile = "absent" THEN remains ELSE Corpse(remains)

-----------------------------------------------------------------------------
(* The hero *)

\* normalizeCharacter, normalizeLifecycleStateValue: a life that was not
\* recorded is read from the conditions, the death saves and the hit points.
LifeRead(h) ==
    IF h.life \in {"conscious", "dying", "stable", "dead"} THEN h.life
    ELSE IF "dead" \in h.conditions THEN "dead"
    ELSE IF "stable" \in h.conditions \/ h.successes >= 3 THEN "stable"
    ELSE IF "unconscious" \in h.conditions \/ h.hp = 0 THEN "dying"
    ELSE "conscious"

Consistent_HitPointsFirst(h) ==
    LET awake == h.conditions \ {"unconscious", "stable"}
    IN  IF h.hp > 0
        THEN [h EXCEPT !.life = "conscious", !.successes = 0,
                       !.conditions = awake]
        ELSE IF h.life = "dead" \/ "dead" \in h.conditions
        THEN [h EXCEPT !.life = "dead", !.hp = 0, !.conditions = awake]
        ELSE IF "stable" \in h.conditions \/ h.successes >= 3
        THEN [h EXCEPT !.life = "stable"]
        ELSE [h EXCEPT !.life = "dying"]

\* normalizeLifecycleConsistency: the dead first, then whoever has hit
\* points, then the stable; all others are dying.
Consistent(h) ==
    LET awake == h.conditions \ {"unconscious", "stable"}
    IN  IF h.life = "dead" \/ "dead" \in h.conditions
        THEN [h EXCEPT !.life = "dead", !.hp = 0, !.conditions = awake]
        ELSE IF h.hp > 0
        THEN [h EXCEPT !.life = "conscious", !.successes = 0,
                       !.conditions = awake]
        ELSE IF "stable" \in h.conditions \/ h.successes >= 3
        THEN [h EXCEPT !.life = "stable"]
        ELSE [h EXCEPT !.life = "dying"]

Revived == Consistent([hero EXCEPT !.life = LifeRead(hero)])

-----------------------------------------------------------------------------
(* The fight, the quest and the advancement *)

\* normalizePendingReaction: one that is not whole is none.
Reaction(r) == IF r = "odd" THEN "none" ELSE r

Alerted_Persisted(f, kept) == f.issue

\* Zones that cannot be kept leave an integrity issue behind; an issue stays.
Alerted(f, kept) == f.issue \/ (f.zones # "none" /\ ~kept)

\* normalizeCombatTactical: with unsound geometry, or the hero out of place,
\* the empty map; zones in force need a living hero and a running fight.
Fight ==
    LET sound == fight.geometry = "sound"
        living == LifeRead(hero) # "dead"
        kept == /\ sound /\ fight.zones # "odd"
                /\ fight.zones = "active" => living /\ fight.status = "active"
    IN  [fight EXCEPT
            !.geometry = "sound",
            !.zones = IF kept THEN @ ELSE "none",
            !.issue = Alerted(fight, kept),
            !.reaction = Reaction(@)]

Least(a, b) == IF a < b THEN a ELSE b

\* normalizeQuest, normalizeQuestGraph: a graph that no longer parses is
\* dropped whole; quest and graph share the deadline either of them has.
Quest ==
    IF quest.graph # "whole"
    THEN [quest EXCEPT !.graph = "none", !.done = FALSE, !.current = 0,
                       !.graphDue = -1]
    ELSE LET due == IF quest.due # -1 THEN quest.due ELSE quest.graphDue
         IN  [quest EXCEPT !.current = Least(@, quest.max), !.due = due,
                           !.graphDue = IF @ # -1 THEN @ ELSE due,
                           !.found = @ \/ ~quest.hidden]

\* normalizePendingAdvancement: all or nothing.
Advance == IF advance = "odd" THEN "none" ELSE advance

-----------------------------------------------------------------------------
\* normalizeCampaignState, in the order of the code: the fight is read before
\* the hero's conditions decide whether he lives.
Load ==
    /\ clock' = Clock(clock)
    /\ events' = Events
    /\ actors' = Actors
    /\ sustained' = sustained \ Gone
    /\ party' = Party
    /\ remains' = Remains
    /\ hero' = Revived
    /\ fight' = Fight
    /\ quest' = Quest
    /\ advance' = Advance
    /\ loaded' = TRUE

\* What the commands between two loads may do to what they loaded: time
\* passes in another weather, and remains decay on the way.
Travel ==
    /\ loaded /\ clock.minutes < MaxMinutes
    /\ \E w \in Weathers :
          clock' = [minutes |-> clock.minutes + 1, weather |-> w]
    /\ remains' = IF remains.profile # "absent" /\ remains.state = "fresh"
                     /\ remains.due <= clock.minutes + 1
                  THEN [remains EXCEPT !.state = "decayed"]
                  ELSE remains
    /\ loaded' = FALSE
    /\ UNCHANGED <<hero, fight, events, actors, sustained, party, quest,
                   advance>>

\* applyControlledActorDamage: a companion falls, its source and what is
\* scheduled for it go with it.
Fall(i) ==
    /\ loaded /\ i \in Present
    /\ actors' = [actors EXCEPT ![i].hp = 0, ![i].status = "dead"]
    /\ sustained' = sustained \ {i}
    /\ events' = {e \in events : e.for # i \/ e.status # "pending"}
    /\ loaded' = FALSE
    /\ UNCHANGED <<hero, fight, clock, party, remains, quest, advance>>

\* An improvised condition: the words are the Dungeon Master's.
Improvise(c) ==
    /\ loaded
    /\ hero' = [hero EXCEPT !.conditions = @ \cup {c}]
    /\ loaded' = FALSE
    /\ UNCHANGED <<fight, clock, events, actors, sustained, party, remains,
                   quest, advance>>

-----------------------------------------------------------------------------
Heroes == [life : {"absent", "conscious", "dying", "stable", "dead"},
           hp : 0 .. 1, successes : {0, 3},
           conditions : SUBSET {"dead", "stable", "unconscious"}]
Well == [life |-> "conscious", hp |-> 1, successes |-> 0, conditions |-> {}]

Fights == [status : {"active", "ended"}, zones : {"none", "active", "over", "odd"},
           geometry : {"sound", "odd"}, issue : BOOLEAN,
           reaction : {"none", "offered", "odd"}]
Peace == [status |-> "ended", zones |-> "none", geometry |-> "sound",
          issue |-> FALSE, reaction |-> "none"]

Clocks == [minutes : -1 .. MaxMinutes, weather : Weathers \cup {"odd"}]
Dawn == [minutes |-> 0, weather |-> "clear"]

Due == {[kind |-> "controlled-actor-expiry", for |-> i, status |-> "pending"] :
            i \in Companions}
EventSets == SUBSET (Due \cup {[kind |-> "odd", for |-> Hero,
                               status |-> "pending"]})

ActorTables ==
    UNION {[is -> [status : {"active", "odd", "dead", "dismissed"}, hp : 0 .. 1]] :
              is \in SUBSET Companions}

Parties == [id : {"p"}, members : SUBSET (Companions \cup {Hero}),
            leader : Companions \cup {Hero},
            viewpoint : Companions \cup {"odd"},
            mode : {"together"}]
NoParty == [id |-> "absent", members |-> {}, leader |-> Hero,
            viewpoint |-> Hero, mode |-> "together"]

Corpses == [profile : {"reviewed", "odd"}, environment : Weathers \cup {"odd"},
            created : 0 .. 1, due : 0 .. 2, state : {"fresh", "decayed"},
            removed : BOOLEAN, harvested : BOOLEAN,
            species : {"dragonborn", "human"}]
NoRemains == [profile |-> "absent"]

Quests == [graph : {"whole", "odd"}, done : BOOLEAN, current : 0 .. 2,
           max : 1 .. 1, due : -1 .. 1, graphDue : -1 .. 1,
           hidden : BOOLEAN, found : BOOLEAN]
NoQuest == [graph |-> "none", done |-> FALSE, current |-> 0, max |-> 1,
            due |-> -1, graphDue |-> -1, hidden |-> FALSE, found |-> FALSE]

\* Old saves: the parts that are read together take every value together.
OldSave ==
    \/ /\ hero \in Heroes /\ fight \in Fights
       /\ clock = Dawn /\ events = {} /\ actors = <<>> /\ sustained = {}
       /\ party = NoParty /\ remains = NoRemains /\ quest = NoQuest
       /\ advance = "none"
    \/ /\ actors \in ActorTables
       /\ sustained \in SUBSET DOMAIN actors
       /\ \E es \in EventSets : events = {e \in es : e.for \in DOMAIN actors}
       /\ party \in {NoParty} \cup Parties
       /\ clock = Dawn /\ hero = Well /\ fight = Peace /\ remains = NoRemains
       /\ quest = NoQuest /\ advance = "none"
    \/ /\ clock \in Clocks /\ remains \in Corpses
       /\ events = {} /\ actors = <<>> /\ sustained = {} /\ hero = Well
       /\ party = NoParty /\ fight = Peace /\ quest = NoQuest
       /\ advance = "none"
    \/ /\ quest \in Quests /\ advance \in {"none", "pending", "consumed", "odd"}
       /\ clock = Dawn /\ remains = NoRemains
       /\ events = {} /\ actors = <<>> /\ sustained = {} /\ hero = Well
       /\ party = NoParty /\ fight = Peace

Init == OldSave /\ loaded = FALSE

Next ==
    \/ Load
    \/ Travel
    \/ \E i \in Companions : Fall(i)
    \/ \E c \in {"dead", "stable", "unconscious"} : Improvise(c)

Spec == Init /\ [][Next]_vars

-----------------------------------------------------------------------------
TypeOK ==
    /\ hero \in Heroes
    /\ fight \in Fights
    /\ clock \in Clocks
    /\ actors \in ActorTables
    /\ sustained \subseteq DOMAIN actors
    /\ party = NoParty \/ party.members \subseteq Companions \cup {Hero}
    /\ loaded \in BOOLEAN

\* Loading what has just been loaded changes nothing, but for a hero whose
\* conditions have just been read as his death: his fight follows one load
\* later.
LoadsOnce ==
    loaded /\ Load =>
      /\ UNCHANGED <<hero, clock, events, actors, sustained, party,
                     remains, quest, advance>>
      /\ fight' # fight => hero.life = "dead"

\* A loaded campaign is whole: every companion that is present is in the
\* party, the party is led and seen through somebody in it, and nothing is
\* scheduled for, or sustained by, a companion that is gone.
EveryoneAccounted ==
    loaded =>
        /\ party.id # "absent" =>
              /\ {i \in DOMAIN actors : actors[i].status = "active"}
                    \subseteq party.members
              /\ {party.leader, party.viewpoint} \subseteq party.members
        /\ \A i \in DOMAIN actors : actors[i].status # "active" =>
              /\ i \notin sustained
              /\ \A e \in events : e.for = i => e.status = "processed"

\* A loaded hero is in one piece: he has hit points exactly while conscious,
\* and nobody comes back from the dead by being read.
HeroWhole ==
    loaded => /\ (hero.hp > 0) = (hero.life = "conscious")
              /\ hero.life = "dead" => "stable" \notin hero.conditions
              /\ "dead" \in hero.conditions => hero.life = "dead"

\* Once remains carry a reviewed decay its deadline no longer moves, however
\* the time and the weather change between two loads.
DecayIsSettled ==
    remains.profile = "reviewed" /\ remains.due >= remains.created =>
      remains'.due = remains.due

\* Zones never vanish from a map without an integrity issue that says so, and
\* the issue survives every later load.
ZonesLeaveAnIssue ==
    /\ fight.issue => fight'.issue
    /\ fight.zones # "none" /\ fight'.zones = "none" => fight'.issue
=============================================================================
