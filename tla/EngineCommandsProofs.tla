------------------------ MODULE EngineCommandsProofs ------------------------
(***************************************************************************)
(* For any number of commands, triggers, versions and restarts, the         *)
(* campaign engine's ledger keeps its types, a reservation has its handler, *)
(* a trigger asks the provider once, the events are the history of the      *)
(* stored results, a result is final, and the players' lines stay.          *)
(***************************************************************************)
EXTENDS EngineCommands, SequenceTheorems, FiniteSetTheorems, WellFoundedInduction, TLAPS

---------------------------------------------------------------------------
(* The last player message of a transcript.                                *)

\* A set of indices that is not empty has a largest.
LEMMA LargestIndex ==
    ASSUME NEW n \in Nat, NEW I \in SUBSET (1..n), I # {}
    PROVE  Max(I) \in I /\ \A i \in I : i <= Max(I)
<1> DEFINE T == {k \in Nat : \E i \in I : k = n - i}
           Less == OpToRel(<, Nat)
<1>1. IsWellFoundedOn(Less, Nat)
  BY NatLessThanWellFounded
<1>2. T \subseteq Nat /\ T # {}
  <2>1. PICK i \in I : TRUE
    OBVIOUS
  <2>2. n - i \in Nat
    OBVIOUS
  <2> QED
    BY <2>2
<1>3. PICK k \in T : \A j \in T : <<j, k>> \notin Less
  <2> HIDE DEF T, Less
  <2> QED
    BY <1>1, <1>2, WFMin
<1>4. PICK m \in I : k = n - m
  OBVIOUS
<1>5. \A i \in I : i <= m
  <2> SUFFICES ASSUME NEW i \in I PROVE i <= m
    OBVIOUS
  <2>1. n - i \in T
    OBVIOUS
  <2>2. ~(n - i < k)
    BY <1>3, <2>1 DEF OpToRel
  <2> QED
    BY <1>4, <2>2
<1>6. Max(I) \in I /\ \A i \in I : Max(I) >= i
  BY <1>5 DEF Max
<1> QED
  BY <1>6

\* The index of the last player message, or 0.
LastPlayer(l) == SelectLastInSeq(l, IsPlayer)

LEMMA LastPlayerIsLast ==
    ASSUME NEW S, NEW l \in Seq(S)
    PROVE  /\ LastPlayer(l) \in 0..Len(l)
           /\ LastPlayer(l) # 0 => l[LastPlayer(l)].kind = "player"
           /\ \A i \in 1..Len(l) : l[i].kind = "player" => i <= LastPlayer(l)
<1> DEFINE I == {i \in 1..Len(l) : IsPlayer(l[i])}
<1>1. LastPlayer(l) = IF I # {} THEN Max(I) ELSE 0
  BY DEF LastPlayer, SelectLastInSeq
<1>2. Len(l) \in Nat
  OBVIOUS
<1>3. \A i \in 1..Len(l) : i \in I <=> l[i].kind = "player"
  BY DEF IsPlayer
<1>4. I \in SUBSET (1..Len(l))
  OBVIOUS
<1> HIDE DEF I
<1>5. CASE I # {}
  <2>1. Max(I) \in I /\ \A i \in I : i <= Max(I)
    BY <1>2, <1>4, <1>5, LargestIndex
  <2>2. LastPlayer(l) = Max(I) /\ Max(I) \in 1..Len(l)
    BY <1>1, <1>4, <1>5, <2>1
  <2> QED
    BY <1>2, <1>3, <2>1, <2>2
<1>6. CASE I = {}
  BY <1>1, <1>2, <1>3, <1>6
<1> QED
  BY <1>5, <1>6

\* The players' messages of a transcript, by their places.
PlayersOf(l) == {i \in 1..Len(l) : l[i].kind = "player"}

\* l2 has the players' messages of l, those in its first k places gone and the
\* others moved down by as many.
Carries(l, l2, k) ==
    /\ k \in Nat
    /\ \A i \in Nat \ {0} : i \in PlayersOf(l2) <=> i + k \in PlayersOf(l)
    /\ \A i \in PlayersOf(l2) : l2[i] = l[i + k]

\* The cap takes away the oldest messages, as many as are above it.
LEMMA NewestCarries ==
    ASSUME NEW S, NEW l \in Seq(S)
    PROVE  /\ Newest(l) \in Seq(S) /\ Len(Newest(l)) <= LogCap
           /\ \E k \in Nat :
                 /\ Carries(l, Newest(l), k)
                 /\ Len(Newest(l)) + k = Len(l) /\ (k > 0 => Len(Newest(l)) = LogCap)
                 /\ \A i \in 1..Len(Newest(l)) : Newest(l)[i] = l[i + k]
<1>0. LogCap \in Nat /\ LogCap >= 2 /\ Len(l) \in Nat
  BY EngineAssumption
<1>1. CASE Len(l) <= LogCap
  <2>1. Newest(l) = l /\ \A i \in Nat : i + 0 = i
    BY <1>0, <1>1 DEF Newest
  <2>2. Carries(l, l, 0)
    BY DEF Carries, PlayersOf
  <2> QED
    BY <1>0, <1>1, <2>1, <2>2
<1>2. CASE Len(l) > LogCap
  <2> DEFINE k == Len(l) - LogCap
             n == SubSeq(l, k + 1, Len(l))
  <2>1. Newest(l) = n /\ k \in Nat /\ k > 0 /\ k + LogCap = Len(l)
    BY <1>0, <1>2 DEF Newest
  <2>2. \A i \in k + 1..Len(l) : l[i] \in S
    BY <1>0, <2>1, ElementOfSeq
  <2>3. /\ n \in Seq(S) /\ Len(n) = LogCap
        /\ \A i \in 1..LogCap : n[i] = l[i + k]
    <3> HIDE DEF k
    <3>1. /\ n \in Seq(S)
          /\ Len(n) = IF k + 1 <= Len(l) THEN Len(l) - (k + 1) + 1 ELSE 0
          /\ \A i \in 1..(Len(l) - (k + 1) + 1) : n[i] = l[(k + 1) + i - 1]
      BY <1>0, <2>1, <2>2, SubSeqProperties
    <3>2. Len(l) - (k + 1) + 1 = LogCap /\ k + 1 <= Len(l)
      BY <1>0, <2>1
    <3>3. \A i \in 1..LogCap : (k + 1) + i - 1 = i + k
      BY <1>0, <2>1
    <3> QED
      BY <3>1, <3>2, <3>3
  <2> HIDE DEF n, k
  <2>4. Carries(l, n, k)
    <3>1. \A i \in Nat \ {0} : i \in 1..LogCap <=> i + k \in 1..Len(l)
      BY <1>0, <2>1
    <3> QED
      BY <1>0, <2>1, <2>3, <3>1 DEF Carries, PlayersOf
  <2>5. LogCap <= LogCap /\ LogCap + k = Len(l)
    BY <1>0, <2>1
  <2> QED
    BY <2>1, <2>3, <2>4, <2>5
<1> QED
  BY <1>0, <1>1, <1>2

\* Two writes in a row.
LEMMA CarriesOn ==
    ASSUME NEW l1, NEW l2, NEW l3, NEW k, NEW m, Carries(l1, l2, k), Carries(l2, l3, m)
    PROVE  Carries(l1, l3, k + m)
<1>1. k \in Nat /\ m \in Nat /\ k + m \in Nat
  BY DEF Carries
<1>2. \A i \in Nat \ {0} : i + m \in Nat \ {0} /\ (i + m) + k = i + (k + m)
  BY <1>1
<1>3. \A i \in PlayersOf(l3) : l3[i] = l1[i + (k + m)]
  <2> SUFFICES ASSUME NEW i \in PlayersOf(l3) PROVE l3[i] = l1[i + (k + m)]
    OBVIOUS
  <2>1. i \in Nat \ {0}
    BY DEF PlayersOf
  <2>2. i + m \in PlayersOf(l2) /\ l3[i] = l2[i + m]
    BY <2>1 DEF Carries
  <2>3. l2[i + m] = l1[(i + m) + k]
    BY <2>2 DEF Carries
  <2> QED
    BY <1>2, <2>1, <2>2, <2>3
<1>4. \A i \in Nat \ {0} : i \in PlayersOf(l3) <=> i + (k + m) \in PlayersOf(l1)
  BY <1>2 DEF Carries
<1> QED
  BY <1>1, <1>3, <1>4 DEF Carries

\* Narration gives way and is put last: of the players' messages only the
\* oldest one can go, and only when the transcript is full to its last line.
LEMMA NarratedCarries ==
    ASSUME NEW S, NEW l \in Seq(S), Len(l) <= LogCap, NEW m \in S, m.kind # "player"
    PROVE  /\ Narrated(l, m) \in Seq(S) /\ Len(Narrated(l, m)) <= LogCap
           /\ \E k \in {0, 1} :
                 /\ Carries(l, Narrated(l, m), k)
                 /\ k = 1 => Len(l) = LogCap /\ (PlayersOf(l) = {} \/ Len(l) \in PlayersOf(l))
<1> DEFINE last == LastPlayer(l)
           kept == IF last = 0 THEN l ELSE SubSeq(l, 1, last)
           told == Append(kept, m)
<1>0. LogCap \in Nat /\ Len(l) \in Nat
  BY EngineAssumption
<1>1. Narrated(l, m) = Newest(told)
  BY DEF Narrated, LastPlayer
<1>2. /\ last \in 0..Len(l) /\ \A i \in PlayersOf(l) : i <= last
      /\ last # 0 => last \in PlayersOf(l)
  BY <1>0, LastPlayerIsLast DEF PlayersOf
<1>3. /\ kept \in Seq(S) /\ Len(kept) \in Nat /\ Len(kept) <= Len(l)
      /\ (last # 0 => Len(kept) = last) /\ (last = 0 => kept = l)
      /\ \A i \in 1..Len(kept) : kept[i] = l[i]
  <2>1. CASE last = 0
    BY <1>0, <2>1
  <2>2. CASE last # 0
    <3>1. \A i \in 1..last : l[i] \in S
      BY <1>0, <1>2, ElementOfSeq
    <3>2. /\ SubSeq(l, 1, last) \in Seq(S) /\ Len(SubSeq(l, 1, last)) = last
          /\ \A i \in 1..last : SubSeq(l, 1, last)[i] = l[i]
      BY <1>0, <1>2, <2>2, <3>1, SubSeqProperties
    <3> QED
      BY <1>0, <1>2, <2>2, <3>2
  <2> QED
    BY <2>1, <2>2
<1> HIDE DEF kept, last
<1>4. /\ told \in Seq(S) /\ Len(told) = Len(kept) + 1
      /\ \A i \in 1..Len(kept) : told[i] = kept[i]
      /\ told[Len(kept) + 1] = m
  BY <1>3, AppendProperties
<1> HIDE DEF told
<1>5. PlayersOf(told) = PlayersOf(l)
  <2>1. \A i \in 1..Len(kept) + 1 : told[i].kind = "player" => i \in 1..Len(kept)
    BY <1>3, <1>4
  <2>2. PlayersOf(told) = PlayersOf(kept)
    BY <1>3, <1>4, <2>1 DEF PlayersOf
  <2> QED
    BY <1>0, <1>2, <1>3, <2>2 DEF PlayersOf
<1>6. \A i \in PlayersOf(l) : i \in 1..Len(kept)
  BY <1>0, <1>2, <1>3 DEF PlayersOf
<1>7. Carries(l, told, 0)
  BY <1>3, <1>4, <1>5, <1>6 DEF Carries, PlayersOf
<1>8. /\ Newest(told) \in Seq(S) /\ Len(Newest(told)) <= LogCap
      /\ \E k \in Nat : /\ Carries(told, Newest(told), k)
                        /\ Len(Newest(told)) + k = Len(told) /\ (k > 0 => Len(Newest(told)) = LogCap)
  BY <1>4, NewestCarries
<1>9. PICK k \in Nat : /\ Carries(told, Newest(told), k)
                       /\ Len(Newest(told)) + k = Len(told) /\ (k > 0 => Len(Newest(told)) = LogCap)
  BY <1>8
<1>10. k \in {0, 1} /\ (k = 1 => Len(kept) = LogCap)
  BY <1>0, <1>3, <1>4, <1>9
<1>11. k = 1 => Len(l) = LogCap /\ (PlayersOf(l) = {} \/ Len(l) \in PlayersOf(l))
  <2> SUFFICES ASSUME k = 1 PROVE Len(l) = LogCap /\ (PlayersOf(l) = {} \/ Len(l) \in PlayersOf(l))
    OBVIOUS
  <2>1. Len(kept) = Len(l) /\ Len(l) = LogCap
    BY <1>0, <1>3, <1>10
  <2>2. last = 0 => PlayersOf(l) = {}
    BY <1>2 DEF PlayersOf
  <2> QED
    BY <1>2, <1>3, <2>1, <2>2
<1>12. Carries(l, Newest(told), k)
  <2>1. Carries(l, Newest(told), 0 + k)
    BY <1>7, <1>9, CarriesOn
  <2> QED
    BY <1>9, <2>1
<1> QED
  BY <1>1, <1>8, <1>10, <1>11, <1>12

---------------------------------------------------------------------------
(* The types.                                                              *)

MessageType == [about : Commands, kind : {"player", "rules", "prose"}]

CampaignTyped ==
    /\ exists \in BOOLEAN
    /\ version \in Versions
    /\ log \in Seq(MessageType) /\ Len(log) <= LogCap
    /\ room \in SUBSET Texts
    /\ events \in Seq([command : Commands, version : Versions])

RowTyped == row \in [Commands -> RowType]

TriggerType ==
    {NoTrigger} \cup [state : {"reserved", "consumed"}, owner : Nat, command : Ticks]

TriggerTyped == trigger \in [Triggers -> TriggerType]

WorkType ==
    [phase : {"off", "planning", "narrating", "asking"}, base : Versions, room : SUBSET Texts]

\* A turn is planned and narrated, a tick asks.
InRole(c, w) ==
    /\ w.phase \in {"planning", "narrating"} => c \in Texts
    /\ w.phase = "asking" => c \in Ticks

WorkTyped == work \in [Commands -> WorkType] /\ \A c \in Commands : InRole(c, work[c])

RestTyped == owner \in 0..MaxRestarts /\ asked \in [Triggers -> Nat]

TypeInv == CampaignTyped /\ RowTyped /\ TriggerTyped /\ WorkTyped /\ RestTyped

LEMMA TypesTyped == TypeInv => TypeOK
  BY DEF TypeInv, TypeOK, CampaignTyped, RowTyped, TriggerTyped, WorkTyped, RestTyped,
         MessageType, TriggerType, WorkType

LEMMA RowTypes ==
    /\ NoRow \in RowType
    /\ \A o \in Nat, v \in Versions : Reservation(o, v) \in RowType
    /\ \A e \in Effects, v \in Versions : Result(e, v, "rules") \in RowType
    /\ \A r \in RowType, source \in {"rules", "llm"} :
          r.state = "resolved" => [r EXCEPT !.source = source] \in RowType
<1>1. NoRow \in RowType /\ \A o \in Nat, v \in Versions : Reservation(o, v) \in RowType
  BY DEF RowType, NoRow, Reservation
<1>2. \A e \in Effects, v \in Versions : Result(e, v, "rules") \in RowType
  BY DEF RowType, Result
<1>3. ASSUME NEW r \in RowType, NEW source \in {"rules", "llm"}, r.state = "resolved"
      PROVE  [r EXCEPT !.source = source] \in RowType
  <2>1. r \in [state : {"resolved"}, effect : Effects, version : Versions, source : {"rules", "llm"}]
    BY <1>3 DEF RowType, NoRow
  <2> QED
    BY <2>1 DEF RowType
<1> QED
  BY <1>1, <1>2, <1>3

LEMMA VersionFacts ==
    /\ MaxVersion \in Nat /\ 0 \in Versions
    /\ \A v \in Versions : v \in Nat /\ (v < MaxVersion => v + 1 \in Versions)
  BY EngineAssumption DEF Versions

LEMMA WorkUpdates ==
    /\ \A c : NoWork \in WorkType /\ InRole(c, NoWork)
    /\ CampaignTyped => \A v \in Versions : /\ Working("planning", v) \in WorkType
                                            /\ Working("asking", v) \in WorkType
    /\ \A w \in WorkType : [w EXCEPT !.phase = "narrating"] \in WorkType
<1>1. \A c : NoWork \in WorkType /\ InRole(c, NoWork)
  BY VersionFacts DEF NoWork, WorkType, InRole
<1>2. CampaignTyped => \A v \in Versions : /\ Working("planning", v) \in WorkType
                                           /\ Working("asking", v) \in WorkType
  BY DEF CampaignTyped, Working, WorkType
<1>3. \A w \in WorkType : [w EXCEPT !.phase = "narrating"] \in WorkType
  BY DEF WorkType
<1> QED
  BY <1>1, <1>2, <1>3

LEMMA TranscriptType ==
    ASSUME NEW c \in Commands, NEW effect
    PROVE  /\ Transcript(c, effect) \in Seq(MessageType)
           /\ \A kind \in {"rules", "prose"} : Message(c, kind) \in MessageType
           /\ \A source : Message(c, Kind(source)) \in MessageType
<1>1. \A kind \in {"player", "rules", "prose"} : Message(c, kind) \in MessageType
  BY DEF Message, MessageType
<1>2. \A source : Kind(source) \in {"rules", "prose"}
  BY DEF Kind
<1>3. /\ <<>> \in Seq(MessageType)
      /\ <<Message(c, "rules")>> \in Seq(MessageType)
      /\ <<Message(c, "player"), Message(c, "rules")>> \in Seq(MessageType)
  <2> HIDE DEF Message, MessageType
  <2> QED
    BY <1>1
<1>4. Transcript(c, effect) \in Seq(MessageType)
  BY <1>3 DEF Transcript
<1> QED
  BY <1>1, <1>2, <1>4

\* A resolution, whatever becomes of the transcript.
LEMMA ResolutionTypes ==
    ASSUME TypeInv, NEW c \in Commands, NEW effect \in Effects,
           effect = "commit" => version < MaxVersion,
           version' = VersionAfter(effect), events' = EventsAfter(c, effect), Resolve(c, effect)
    PROVE  /\ version' \in Versions
           /\ events' \in Seq([command : Commands, version : Versions])
           /\ RowTyped'
<1>1. version \in Versions /\ VersionAfter(effect) \in Versions
  BY VersionFacts DEF TypeInv, CampaignTyped, VersionAfter
<1>2. EventsAfter(c, effect) \in Seq([command : Commands, version : Versions])
  <2>1. events \in Seq([command : Commands, version : Versions])
    BY DEF TypeInv, CampaignTyped
  <2>2. ASSUME effect = "commit"
        PROVE  [command |-> c, version |-> version + 1] \in [command : Commands, version : Versions]
    BY <1>1, <2>2 DEF VersionAfter
  <2> QED
    BY <2>1, <2>2, AppendProperties DEF EventsAfter
<1>3. Result(effect, VersionAfter(effect), "rules") \in RowType
  BY <1>1, RowTypes
<1> QED
  BY <1>1, <1>2, <1>3 DEF TypeInv, RowTyped, Resolve

LEMMA ExecuteTypes ==
    ASSUME TypeInv, NEW c \in Commands, NEW effect \in Effects, NEW r \in SUBSET Texts,
           Execute(c, effect, r)
    PROVE  CampaignTyped' /\ RowTyped'
<1>1. /\ version' \in Versions
      /\ events' \in Seq([command : Commands, version : Versions])
      /\ RowTyped'
  BY ResolutionTypes DEF Execute
<1>2. log' \in Seq(MessageType) /\ Len(log') <= LogCap
  <2>1. log \in Seq(MessageType) /\ Transcript(c, effect) \in Seq(MessageType)
    BY TranscriptType DEF TypeInv, CampaignTyped
  <2>2. log \o Transcript(c, effect) \in Seq(MessageType)
    BY <2>1, ConcatProperties
  <2> QED
    BY <2>2, NewestCarries DEF Execute
<1>3. exists' \in BOOLEAN /\ room' \in SUBSET Texts
  BY DEF Execute, TypeInv, CampaignTyped
<1> QED
  BY <1>1, <1>2, <1>3 DEF CampaignTyped

LEMMA ReleaseTypes ==
    ASSUME TypeInv, NEW c \in Texts, NEW source \in {"rules", "llm"}, Release(c, source)
    PROVE  CampaignTyped' /\ RowTyped'
<1>0. c \in Commands /\ row[c] \in RowType
  BY DEF Commands, TypeInv, RowTyped
<1>1. CASE row[c].state = "resolved"
  <2>1. row' = [row EXCEPT ![c] = [row[c] EXCEPT !.source = source]]
    BY <1>1 DEF Release
  <2>2. RowTyped'
    BY <1>0, <1>1, <2>1, RowTypes DEF TypeInv, RowTyped
  <2>3. /\ Narrated(log, Message(c, Kind(source))) \in Seq(MessageType)
        /\ Len(Narrated(log, Message(c, Kind(source)))) <= LogCap
    <3>1. /\ log \in Seq(MessageType) /\ Len(log) <= LogCap
          /\ Message(c, Kind(source)) \in MessageType
          /\ Message(c, Kind(source)).kind # "player"
      BY <1>0, TranscriptType DEF TypeInv, CampaignTyped, Message, Kind
    <3> QED
      BY <3>1, NarratedCarries
  <2>4. CampaignTyped'
    BY <1>1, <2>3 DEF Release, TypeInv, CampaignTyped
  <2> QED
    BY <2>2, <2>4
<1>2. CASE row[c].state # "resolved"
  BY <1>2 DEF Release, TypeInv, campaignVars, CampaignTyped, RowTyped
<1> QED
  BY <1>1, <1>2

LEMMA DropTypes ==
    ASSUME RowTyped, NEW c \in Commands, NEW v, DropStale(c, v)
    PROVE  RowTyped'
  BY RowTypes DEF DropStale, RowTyped

LEMMA MarkTypes ==
    ASSUME TriggerTyped, NEW c \in Ticks, MarkAttempted(c)
    PROVE  TriggerTyped'
<1>1. TriggerOf[c] \in Triggers
  BY EngineAssumption
<1>2. ASSUME NEW g \in Triggers, trigger[g].state # "absent"
      PROVE  [trigger[g] EXCEPT !.state = "consumed"] \in TriggerType
  BY <1>2 DEF TriggerTyped, TriggerType, NoTrigger
<1> QED
  BY <1>1, <1>2 DEF MarkAttempted, TriggerTyped

LEMMA InitTypes == Init => TypeInv
<1> SUFFICES ASSUME Init PROVE TypeInv
  OBVIOUS
<1>1. CampaignTyped
  <2>1. Len(log) <= LogCap /\ log \in Seq(MessageType)
    BY EngineAssumption DEF Init
  <2> QED
    BY <2>1, VersionFacts DEF Init, CampaignTyped
<1>2. RowTyped /\ TriggerTyped
  BY RowTypes DEF Init, RowTyped, TriggerTyped, TriggerType
<1>3. WorkTyped
  BY WorkUpdates DEF Init, WorkTyped
<1>4. RestTyped
  BY EngineAssumption DEF Init, RestTyped
<1> QED
  BY <1>1, <1>2, <1>3, <1>4 DEF TypeInv

LEMMA NextTypes ==
    ASSUME TypeInv, [Next]_vars
    PROVE  TypeInv'
<1> USE DEF campaignVars
<1>0. CampaignTyped /\ RowTyped /\ TriggerTyped /\ WorkTyped /\ RestTyped /\ owner \in Nat
  BY EngineAssumption DEF TypeInv, RestTyped
<1>e. "commit" \in Effects /\ "none" \in Effects /\ "blocked" \in Effects
  BY DEF Effects
<1>1. ASSUME NEW c \in Commands, NEW v \in Versions, ReserveTurn(c, v) \/ TakeOverTurn(c, v)
      PROVE  TypeInv'
  <2>1. RowTyped'
    BY <1>0, <1>1, RowTypes DEF ReserveTurn, TakeOverTurn, RowTyped
  <2>2. WorkTyped'
    <3>1. Working("planning", v) \in WorkType /\ InRole(c, Working("planning", v))
      BY <1>0, <1>1, WorkUpdates DEF ReserveTurn, TakeOverTurn, InRole, Working
    <3> HIDE DEF Working
    <3> QED
      BY <1>0, <1>1, <3>1 DEF ReserveTurn, TakeOverTurn, WorkTyped
  <2>3. CampaignTyped' /\ TriggerTyped' /\ RestTyped'
    BY <1>0, <1>1 DEF ReserveTurn, TakeOverTurn, CampaignTyped, TriggerTyped, RestTyped
  <2> QED
    BY <2>1, <2>2, <2>3 DEF TypeInv
<1>2. ASSUME NEW c \in Commands, NEW v \in Versions, AskProvider(c, v)
      PROVE  TypeInv'
  <2>0. c \in Ticks /\ TriggerOf[c] \in Triggers
    BY <1>2, EngineAssumption DEF AskProvider
  <2>1. RowTyped'
    BY <1>0, <1>2, RowTypes DEF AskProvider, RowTyped
  <2>2. WorkTyped'
    <3>1. Working("asking", v) \in WorkType /\ InRole(c, Working("asking", v))
      BY <1>0, <2>0, WorkUpdates DEF InRole, Working
    <3> QED
      BY <1>0, <1>2, <3>1 DEF AskProvider, WorkTyped
  <2>3. TriggerTyped'
    <3>1. Trigger("reserved", owner, c) \in TriggerType
      BY <1>0, <2>0 DEF Trigger, TriggerType
    <3> QED
      BY <1>0, <1>2, <3>1 DEF AskProvider, TriggerTyped
  <2>4. asked' \in [Triggers -> Nat]
    <3>1. asked[TriggerOf[c]] + 1 \in Nat
      BY <1>0, <2>0 DEF RestTyped
    <3> QED
      BY <1>0, <1>2, <3>1 DEF AskProvider, RestTyped
  <2>5. CampaignTyped' /\ RestTyped'
    BY <1>0, <1>2, <2>4 DEF AskProvider, CampaignTyped, RestTyped
  <2> QED
    BY <2>1, <2>2, <2>3, <2>5 DEF TypeInv
<1>3. ASSUME NEW c \in Commands, NEW v \in Versions, NEW effect \in {"commit", "none"},
             TickWithoutProvider(c, v, effect)
      PROVE  TypeInv'
  <2>0. c \in Ticks /\ TriggerOf[c] \in Triggers /\ room \in SUBSET Texts
    BY <1>0, <1>3, EngineAssumption DEF TickWithoutProvider, CampaignTyped
  <2>1. CampaignTyped' /\ RowTyped'
    BY <1>e, <1>3, <2>0, ExecuteTypes DEF TickWithoutProvider
  <2>2. TriggerTyped'
    <3>1. Trigger("consumed", owner, c) \in TriggerType
      BY <1>0, <2>0 DEF Trigger, TriggerType
    <3> QED
      BY <1>0, <1>3, <3>1 DEF TickWithoutProvider, TriggerTyped
  <2>3. WorkTyped' /\ RestTyped'
    BY <1>0, <1>3 DEF TickWithoutProvider, WorkTyped, RestTyped
  <2> QED
    BY <2>1, <2>2, <2>3 DEF TypeInv
<1>4. ASSUME NEW c \in Commands, NEW effect \in {"commit", "none"}, TakeOverTick(c, effect)
      PROVE  TypeInv'
  <2>0. c \in Ticks /\ room \in SUBSET Texts
    BY <1>0, <1>4 DEF TakeOverTick, CampaignTyped
  <2>1. CampaignTyped' /\ RowTyped'
    <3>1. CASE version = row[c].base
      BY <1>e, <1>4, <2>0, <3>1, ExecuteTypes DEF TakeOverTick
    <3>2. CASE version # row[c].base
      BY <1>0, <1>4, <3>2, RowTypes DEF TakeOverTick, CampaignTyped, RowTyped
    <3> QED
      BY <3>1, <3>2
  <2>2. TriggerTyped'
    BY <1>0, <1>4, <2>0, MarkTypes DEF TakeOverTick
  <2>3. WorkTyped' /\ RestTyped'
    BY <1>0, <1>4 DEF TakeOverTick, WorkTyped, RestTyped
  <2> QED
    BY <2>1, <2>2, <2>3 DEF TypeInv
<1>5. ASSUME NEW c \in Commands, NEW v \in Versions, NEW effect \in Effects, RunCommand(c, v, effect)
      PROVE  TypeInv'
  <2>1. CampaignTyped' /\ RowTyped'
    BY <1>0, <1>5, ExecuteTypes DEF RunCommand, CampaignTyped
  <2>2. TriggerTyped' /\ WorkTyped' /\ RestTyped'
    BY <1>0, <1>5 DEF RunCommand, TriggerTyped, WorkTyped, RestTyped
  <2> QED
    BY <2>1, <2>2 DEF TypeInv
<1>6. ASSUME NEW c \in Commands, RetryDropsTick(c)
      PROVE  TypeInv'
  <2>1. RowTyped'
    BY <1>0, <1>6, DropTypes DEF RetryDropsTick
  <2>2. CampaignTyped' /\ TriggerTyped' /\ WorkTyped' /\ RestTyped'
    BY <1>0, <1>6 DEF RetryDropsTick, CampaignTyped, TriggerTyped, WorkTyped, RestTyped
  <2> QED
    BY <2>1, <2>2 DEF TypeInv
<1>7. ASSUME NEW c \in Commands, Finish(c)
      PROVE  WorkTyped'
  BY <1>0, <1>7, WorkUpdates DEF Finish, WorkTyped
<1>8. ASSUME NEW c \in Commands, CommitPlan(c) \/ \E effect \in Effects : CommitDeclaration(c, effect)
      PROVE  TypeInv'
  <2>0. c \in Texts /\ work[c] \in WorkType /\ work[c].room \in SUBSET Texts /\ room \in SUBSET Texts
    BY <1>0, <1>8 DEF CommitPlan, CommitDeclaration, Planning, WorkTyped, InRole, WorkType, CampaignTyped
  <2>1. CampaignTyped' /\ RowTyped'
    BY <1>e, <1>8, <2>0, ExecuteTypes DEF CommitPlan, CommitDeclaration
  <2>2. WorkTyped'
    <3>1. work' = [work EXCEPT ![c] = [work[c] EXCEPT !.phase = "narrating"]]
      BY <1>8 DEF CommitPlan, CommitDeclaration, Await
    <3>2. [work[c] EXCEPT !.phase = "narrating"] \in WorkType
      BY <2>0, WorkUpdates
    <3>3. InRole(c, [work[c] EXCEPT !.phase = "narrating"])
      BY <2>0 DEF InRole, WorkType
    <3> QED
      BY <1>0, <3>1, <3>2, <3>3 DEF WorkTyped
  <2>3. TriggerTyped' /\ RestTyped'
    BY <1>0, <1>8 DEF CommitPlan, CommitDeclaration, TriggerTyped, RestTyped
  <2> QED
    BY <2>1, <2>2, <2>3 DEF TypeInv
<1>9. ASSUME NEW c \in Commands, NEW effect \in Effects, Fallback(c, effect)
      PROVE  TypeInv'
  <2>1. /\ version' \in Versions
        /\ events' \in Seq([command : Commands, version : Versions])
        /\ RowTyped'
    BY <1>9, ResolutionTypes DEF Fallback
  <2>2. log' \in Seq(MessageType) /\ Len(log') <= LogCap
    <3>1. log \in Seq(MessageType) /\ Transcript(c, effect) \in Seq(MessageType)
      BY <1>0, TranscriptType DEF CampaignTyped
    <3>2. log \o Transcript(c, effect) \in Seq(MessageType)
      BY <3>1, ConcatProperties
    <3>3. Message(c, "rules") \in MessageType /\ Message(c, "rules").kind # "player"
      BY TranscriptType DEF Message
    <3>4. /\ Newest(log \o Transcript(c, effect)) \in Seq(MessageType)
          /\ Len(Newest(log \o Transcript(c, effect))) <= LogCap
      BY <3>2, NewestCarries
    <3> QED
      BY <1>9, <3>3, <3>4, NarratedCarries DEF Fallback
  <2>3. CampaignTyped'
    BY <1>0, <1>9, <2>1, <2>2 DEF Fallback, CampaignTyped
  <2>4. WorkTyped' /\ TriggerTyped' /\ RestTyped'
    BY <1>0, <1>7, <1>9 DEF Fallback, TriggerTyped, RestTyped
  <2> QED
    BY <2>1, <2>3, <2>4 DEF TypeInv
<1>10. ASSUME NEW c \in Commands, TurnConflicts(c)
       PROVE  TypeInv'
  <2>1. RowTyped'
    BY <1>0, <1>10, DropTypes DEF TurnConflicts
  <2>2. CampaignTyped' /\ TriggerTyped' /\ WorkTyped' /\ RestTyped'
    BY <1>0, <1>7, <1>10 DEF TurnConflicts, CampaignTyped, TriggerTyped, RestTyped
  <2> QED
    BY <2>1, <2>2 DEF TypeInv
<1>11. ASSUME NEW c \in Commands, NEW source \in {"llm", "rules"}, ReleaseNarration(c, source)
       PROVE  TypeInv'
  <2>1. c \in Texts
    BY <1>0, <1>11 DEF ReleaseNarration, WorkTyped, InRole
  <2>2. CampaignTyped' /\ RowTyped'
    BY <1>11, <2>1, ReleaseTypes DEF ReleaseNarration
  <2>3. TriggerTyped' /\ WorkTyped' /\ RestTyped'
    BY <1>0, <1>7, <1>11 DEF ReleaseNarration, TriggerTyped, RestTyped
  <2> QED
    BY <2>2, <2>3 DEF TypeInv
<1>12. ASSUME NEW c \in Commands, NEW effect \in {"commit", "none"}, TickAnswered(c, effect)
       PROVE  TypeInv'
  <2>0. c \in Ticks /\ room \in SUBSET Texts
    BY <1>0, <1>12 DEF TickAnswered, WorkTyped, InRole, CampaignTyped
  <2>1. CampaignTyped' /\ RowTyped'
    <3>1. CASE Current(c)
      BY <1>e, <1>12, <2>0, <3>1, ExecuteTypes DEF TickAnswered
    <3>2. CASE ~Current(c)
      <4>1. RowTyped'
        BY <1>0, <1>12, <3>2, DropTypes DEF TickAnswered
      <4> QED
        BY <1>0, <1>12, <3>2, <4>1 DEF TickAnswered, CampaignTyped
    <3> QED
      BY <3>1, <3>2
  <2>2. TriggerTyped'
    BY <1>0, <1>12, <2>0, MarkTypes DEF TickAnswered
  <2>3. WorkTyped' /\ RestTyped'
    BY <1>0, <1>7, <1>12 DEF TickAnswered, RestTyped
  <2> QED
    BY <2>1, <2>2, <2>3 DEF TypeInv
<1>13. ASSUME NEW v \in Versions, DeleteCampaign(v)
       PROVE  TypeInv'
  <2>1. CampaignTyped'
    <3>1. log' = <<>> /\ events' = <<>> /\ room' = {} /\ version' = 0 /\ exists' = FALSE
      BY <1>13 DEF DeleteCampaign
    <3>2. log' \in Seq(MessageType) /\ Len(log') <= LogCap /\ events' \in Seq([command : Commands, version : Versions])
      BY <3>1, EngineAssumption
    <3> QED
      BY <3>1, <3>2, VersionFacts DEF CampaignTyped
  <2>2. RowTyped' /\ TriggerTyped'
    BY <1>13, RowTypes DEF DeleteCampaign, RowTyped, TriggerTyped, TriggerType
  <2>3. WorkTyped' /\ RestTyped'
    BY <1>0, <1>13 DEF DeleteCampaign, WorkTyped, RestTyped
  <2> QED
    BY <2>1, <2>2, <2>3 DEF TypeInv
<1>14. ASSUME Restart
       PROVE  TypeInv'
  <2>1. WorkTyped'
    BY <1>14, WorkUpdates DEF Restart, WorkTyped
  <2>2. RestTyped'
    BY <1>0, <1>14, EngineAssumption DEF Restart, RestTyped
  <2>3. CampaignTyped' /\ RowTyped' /\ TriggerTyped'
    BY <1>0, <1>14 DEF Restart, CampaignTyped, RowTyped, TriggerTyped
  <2> QED
    BY <2>1, <2>2, <2>3 DEF TypeInv
<1>15. ASSUME UNCHANGED vars
       PROVE  TypeInv'
  BY <1>0, <1>15 DEF vars, TypeInv, CampaignTyped, RowTyped, TriggerTyped, WorkTyped, RestTyped
<1>16. ASSUME NEW c \in Commands, Submit(c)
       PROVE  TypeInv'
  BY <1>1, <1>2, <1>3, <1>4, <1>5, <1>6, <1>16 DEF Submit
<1>17. ASSUME NEW c \in Commands, Handle(c)
       PROVE  TypeInv'
  BY <1>8, <1>9, <1>10, <1>11, <1>12, <1>17 DEF Handle
<1> QED
  BY <1>13, <1>14, <1>15, <1>16, <1>17 DEF Next

\* Every variable keeps its type, and a handler its role (EngineStore's tables
\* and the handlers of engine-dm.ts).
THEOREM TypeCorrect == Spec => []TypeOK
<1>1. Init => TypeInv
  BY InitTypes
<1>2. TypeInv /\ [Next]_vars => TypeInv'
  BY NextTypes
<1> QED
  BY <1>1, <1>2, TypesTyped, PTL DEF Spec

---------------------------------------------------------------------------
(* Reservations and their handlers.                                        *)

\* A reservation of this process has its handler. A handler that is current
\* still holds its reservation; one that is not never will be again. A turn
\* that is narrating has not been given its prose.
Kept(c) ==
    /\ row[c].state = "reserved" => row[c].owner <= owner
    /\ row[c].state = "reserved" /\ row[c].owner = owner =>
          work[c].phase \in {"planning", "asking"} /\ work[c].base = row[c].base
    /\ exists /\ work[c].phase \in {"planning", "asking"} =>
          \/ work[c].base = version /\ row[c] = Reservation(owner, version)
          \/ work[c].base < version
    /\ work[c].phase = "narrating" /\ row[c].state = "resolved" => row[c].source = "rules"

\* A trigger the provider was asked for has its record, or the campaign is
\* gone for good.
AskedIsRecorded(g) ==
    asked[g] = 0 \/ (asked[g] = 1 /\ (trigger[g].state # "absent" \/ ~exists))

KeptInv ==
    /\ TypeInv
    /\ \A c \in Commands : Kept(c)
    /\ \A g \in Triggers : AskedIsRecorded(g)

LEMMA RowFields ==
    /\ NoRow.state = "absent"
    /\ \A o, v : /\ Reservation(o, v).state = "reserved" /\ Reservation(o, v).owner = o
                 /\ Reservation(o, v).base = v
    /\ \A e, v, s : /\ Result(e, v, s).state = "resolved" /\ Result(e, v, s).effect = e
                    /\ Result(e, v, s).version = v /\ Result(e, v, s).source = s
    /\ \A r \in RowType : r.state = "reserved" => r = Reservation(r.owner, r.base) /\ r.base \in Versions
    /\ \A r \in RowType : r.state = "resolved" =>
          /\ r = Result(r.effect, r.version, r.source) /\ r.version \in Versions
          /\ r.effect \in Effects /\ r.source \in {"rules", "llm"}
<1>1. /\ NoRow.state = "absent"
      /\ \A o, v : /\ Reservation(o, v).state = "reserved" /\ Reservation(o, v).owner = o
                   /\ Reservation(o, v).base = v
      /\ \A e, v, s : /\ Result(e, v, s).state = "resolved" /\ Result(e, v, s).effect = e
                      /\ Result(e, v, s).version = v /\ Result(e, v, s).source = s
  BY DEF NoRow, Reservation, Result
<1>2. ASSUME NEW r \in RowType, r.state = "reserved"
      PROVE  r = Reservation(r.owner, r.base) /\ r.base \in Versions
  BY <1>2 DEF RowType, NoRow, Reservation
<1>3. ASSUME NEW r \in RowType, r.state = "resolved"
      PROVE  /\ r = Result(r.effect, r.version, r.source) /\ r.version \in Versions
             /\ r.effect \in Effects /\ r.source \in {"rules", "llm"}
  BY <1>3 DEF RowType, NoRow, Result
<1> QED
  BY <1>1, <1>2, <1>3

\* What a step does to the commands it is not about.
LEMMA OthersKept ==
    ASSUME NEW d, Kept(d), version \in Nat, version' \in Nat, version' >= version, work[d].base \in Nat,
           row'[d] = row[d], work'[d] = work[d], owner' = owner, exists' => exists
    PROVE  Kept(d)'
<1>1. CASE version' = version
  BY <1>1 DEF Kept, Reservation
<1>2. CASE version' > version
  BY <1>2 DEF Kept
<1> QED
  BY <1>1, <1>2

\* A command with a stored result, and no handler that could still write it.
LEMMA ResolvedIsKept ==
    ASSUME NEW c, row'[c].state = "resolved",
           /\ work'[c].phase \in {"planning", "asking"} =>
                 work[c].phase = work'[c].phase /\ work[c].base = work'[c].base /\ ~(exists /\ version = work[c].base)
           /\ work'[c].phase = "narrating" => row'[c].source = "rules",
           Kept(c), exists' => exists, version \in Nat, version' \in Nat, version' >= version,
           work[c].base \in Nat
    PROVE  Kept(c)'
  BY DEF Kept

LEMMA InitKept == Init => KeptInv
<1> SUFFICES ASSUME Init PROVE KeptInv
  OBVIOUS
<1>1. \A c \in Commands : row[c].state = "absent" /\ work[c].phase = "off"
  BY RowFields DEF Init, NoWork
<1> QED
  BY <1>1, InitTypes DEF KeptInv, Kept, AskedIsRecorded, Init

LEMMA NextKept ==
    ASSUME KeptInv, [Next]_vars
    PROVE  KeptInv'
<1> USE DEF campaignVars
<1>0. /\ TypeInv /\ RowTyped /\ WorkTyped /\ TriggerTyped /\ RestTyped
      /\ owner \in Nat /\ version \in Nat /\ (exists \in BOOLEAN)
      /\ \A c \in Commands : work[c].base \in Nat /\ row[c] \in RowType /\ Kept(c) /\ InRole(c, work[c])
  BY VersionFacts, EngineAssumption
     DEF KeptInv, TypeInv, CampaignTyped, RestTyped, WorkTyped, WorkType, RowTyped
<1>t. TypeInv' /\ version' \in Nat
  <2>1. TypeInv'
    BY <1>0, NextTypes
  <2> QED
    BY <2>1, VersionFacts DEF TypeInv, CampaignTyped, Versions
<1> DEFINE Goal == (\A c \in Commands : Kept(c)') /\ \A g \in Triggers : AskedIsRecorded(g)'
<1> SUFFICES Goal
  BY <1>t DEF KeptInv
<1>1. ASSUME asked' = asked, exists' => exists,
             \A g \in Triggers : trigger[g].state # "absent" => trigger'[g].state # "absent"
      PROVE  \A g \in Triggers : AskedIsRecorded(g)'
  BY <1>1 DEF KeptInv, AskedIsRecorded
<1>2. ASSUME NEW c \in Commands, version' >= version, owner' = owner, exists' = exists,
             \A d \in Commands \ {c} : row'[d] = row[d] /\ work'[d] = work[d], Kept(c)'
      PROVE  \A d \in Commands : Kept(d)'
  BY <1>0, <1>t, <1>2, OthersKept
<1>v. \A effect : VersionAfter(effect) >= version
  BY <1>0 DEF VersionAfter
<1>x. ASSUME NEW c \in Commands, NEW effect, NEW r, Execute(c, effect, r)
      PROVE  /\ version' >= version /\ exists' = exists /\ row'[c].state = "resolved"
             /\ row'[c].source = "rules" /\ \A d \in Commands \ {c} : row'[d] = row[d]
  BY <1>0, <1>v, <1>x, RowFields DEF Execute, Resolve, RowTyped
<1>m. ASSUME NEW c \in Ticks, MarkAttempted(c)
      PROVE  \A g \in Triggers : trigger[g].state # "absent" => trigger'[g].state # "absent"
  BY <1>0, <1>m DEF MarkAttempted, TriggerTyped, TriggerType, NoTrigger
<1>f. ASSUME NEW c \in Commands, Finish(c)
      PROVE  work'[c].phase = "off" /\ \A d \in Commands \ {c} : work'[d] = work[d]
  BY <1>0, <1>f DEF Finish, NoWork, WorkTyped
<1>3. ASSUME NEW c \in Commands, NEW v \in Versions, ReserveTurn(c, v) \/ TakeOverTurn(c, v)
      PROVE  Goal
  <2>1. /\ row'[c] = Reservation(owner, v) /\ work'[c] = Working("planning", v) /\ v <= version
        /\ version' = version /\ exists' = exists /\ owner' = owner
        /\ \A d \in Commands \ {c} : row'[d] = row[d] /\ work'[d] = work[d]
    BY <1>0, <1>3 DEF ReserveTurn, TakeOverTurn, RowTyped, WorkTyped
  <2>2. work'[c].phase = "planning" /\ work'[c].base = v /\ v \in Nat
    BY <2>1, VersionFacts DEF Working
  <2>3. Kept(c)'
    BY <1>0, <2>1, <2>2, RowFields DEF Kept
  <2>4. asked' = asked /\ trigger' = trigger
    BY <1>3 DEF ReserveTurn, TakeOverTurn
  <2> QED
    BY <1>0, <1>1, <1>2, <2>1, <2>3, <2>4
<1>4. ASSUME NEW c \in Commands, NEW v \in Versions, AskProvider(c, v)
      PROVE  Goal
  <2>1. /\ row'[c] = Reservation(owner, v) /\ work'[c] = Working("asking", v) /\ v = version
        /\ version' = version /\ exists' = exists /\ exists /\ owner' = owner
        /\ \A d \in Commands \ {c} : row'[d] = row[d] /\ work'[d] = work[d]
    BY <1>0, <1>4 DEF AskProvider, RowTyped, WorkTyped
  <2>2. work'[c].phase = "asking" /\ work'[c].base = v
    BY <2>1 DEF Working
  <2>3. Kept(c)'
    BY <1>0, <2>1, <2>2, RowFields DEF Kept
  <2>4. ASSUME NEW g \in Triggers
        PROVE  AskedIsRecorded(g)'
    <3>1. CASE g = TriggerOf[c]
      <4>1. asked[g] = 0
        BY <1>4, <2>1, <3>1 DEF AskProvider, MayAsk, KeptInv, AskedIsRecorded
      <4>2. asked'[g] = 1 /\ trigger'[g].state = "reserved"
        BY <1>0, <1>4, <3>1, <4>1 DEF AskProvider, RestTyped, TriggerTyped, Trigger
      <4> QED
        BY <4>2 DEF AskedIsRecorded
    <3>2. CASE g # TriggerOf[c]
      <4>1. asked'[g] = asked[g] /\ trigger'[g] = trigger[g]
        BY <1>0, <1>4, <3>2 DEF AskProvider, RestTyped, TriggerTyped
      <4> QED
        BY <2>1, <4>1 DEF KeptInv, AskedIsRecorded
    <3> QED
      BY <3>1, <3>2
  <2> QED
    BY <1>0, <1>2, <2>1, <2>3, <2>4
<1>5. ASSUME NEW c \in Commands, NEW v \in Versions, NEW effect, TickWithoutProvider(c, v, effect)
      PROVE  Goal
  <2>1. /\ Execute(c, effect, room) /\ work' = work /\ owner' = owner /\ asked' = asked /\ Unknown(c) /\ exists
        /\ c \in Ticks /\ trigger' = [trigger EXCEPT ![TriggerOf[c]] = Trigger("consumed", owner, c)]
    BY <1>5 DEF TickWithoutProvider
  <2>2. work[c].phase # "narrating" /\ row[c] # Reservation(owner, version)
    BY <1>0, <2>1, RowFields, EngineAssumption DEF InRole, Unknown
  <2>5. work[c].phase \in {"planning", "asking"} => ~(exists /\ version = work[c].base)
    BY <1>0, <2>2 DEF Kept
  <2>6. version' >= version /\ exists' = exists /\ row'[c].state = "resolved"
    BY <1>x, <2>1
  <2>3. Kept(c)'
    BY <1>0, <1>t, <2>1, <2>2, <2>5, <2>6, ResolvedIsKept
  <2>4. \A g \in Triggers : trigger[g].state # "absent" => trigger'[g].state # "absent"
    BY <1>0, <2>1 DEF TriggerTyped, Trigger
  <2> QED
    BY <1>1, <1>2, <1>x, <2>1, <2>3, <2>4
<1>6. ASSUME NEW c \in Commands, NEW effect, TakeOverTick(c, effect)
      PROVE  Goal
  <2>1. /\ work' = work /\ owner' = owner /\ asked' = asked /\ c \in Ticks /\ exists /\ Abandoned(c)
        /\ MarkAttempted(c)
    BY <1>6 DEF TakeOverTick
  <2>2. work[c].phase # "narrating" /\ row[c] # Reservation(owner, version)
    BY <1>0, <2>1, RowFields, EngineAssumption DEF InRole, Abandoned
  <2>3. CASE version = row[c].base
    <3>1. Execute(c, effect, room)
      BY <1>6, <2>3 DEF TakeOverTick
    <3>2. work[c].phase \in {"planning", "asking"} => ~(exists /\ version = work[c].base)
      BY <1>0, <2>2 DEF Kept
    <3>3. version' >= version /\ exists' = exists /\ row'[c].state = "resolved"
      BY <1>x, <3>1
    <3>4. Kept(c)'
      BY <1>0, <1>t, <2>1, <2>2, <3>2, <3>3, ResolvedIsKept
    <3> QED
      BY <1>1, <1>2, <1>m, <1>x, <2>1, <3>1, <3>4
  <2>4. CASE version # row[c].base
    <3>1. /\ row'[c] = NoRow /\ version' = version /\ exists' = exists
          /\ \A d \in Commands \ {c} : row'[d] = row[d]
      BY <1>0, <1>6, <2>4 DEF TakeOverTick, RowTyped
    <3>2. Kept(c)'
      BY <1>0, <2>1, <2>2, <3>1, RowFields DEF Kept
    <3> QED
      BY <1>0, <1>1, <1>2, <1>m, <2>1, <3>1, <3>2
  <2> QED
    BY <2>3, <2>4
<1>7. ASSUME NEW c \in Commands, NEW v \in Versions, NEW effect, RunCommand(c, v, effect)
      PROVE  Goal
  <2>1. /\ Execute(c, effect, room) /\ work' = work /\ owner' = owner /\ asked' = asked /\ trigger' = trigger
        /\ Unknown(c)
    BY <1>7 DEF RunCommand
  <2>2. row'[c].source = "rules" /\ row[c] # Reservation(owner, version)
    BY <1>0, <2>1, RowFields DEF Execute, Resolve, RowTyped, Unknown
  <2>3. Kept(c)'
    BY <1>0, <1>t, <1>x, <2>1, <2>2, ResolvedIsKept DEF Kept
  <2> QED
    BY <1>1, <1>2, <1>x, <2>1, <2>3
<1>d. ASSUME NEW c \in Commands, NEW v, DropStale(c, v)
      PROVE  (row'[c] = NoRow \/ (row'[c] = row[c] /\ row[c] # Reservation(owner, v)))
             /\ \A d \in Commands \ {c} : row'[d] = row[d]
  BY <1>0, <1>d DEF DropStale, RowTyped
<1>8. ASSUME NEW c \in Commands, RetryDropsTick(c)
      PROVE  Goal
  <2>1. /\ DropStale(c, row[c].base) /\ work' = work /\ owner' = owner /\ asked' = asked /\ trigger' = trigger
        /\ version' = version /\ exists' = exists /\ row[c].state = "reserved" /\ row[c].owner = owner
        /\ row[c].base # version
    BY <1>8 DEF RetryDropsTick
  <2>2. row[c] = Reservation(owner, row[c].base) /\ row[c] # Reservation(owner, version)
    BY <1>0, <2>1, RowFields
  <2>3. row'[c] = NoRow
    BY <1>d, <2>1, <2>2
  <2>4. Kept(c)'
    BY <1>0, <2>1, <2>2, <2>3, RowFields DEF Kept
  <2> QED
    BY <1>0, <1>1, <1>2, <1>d, <2>1, <2>4
<1>9. ASSUME NEW c \in Commands, CommitPlan(c) \/ \E effect \in Effects : CommitDeclaration(c, effect)
      PROVE  Goal
  <2>1. PICK effect, r : Execute(c, effect, r)
    BY <1>9 DEF CommitPlan, CommitDeclaration
  <2>2. /\ Await(c, "narrating") /\ owner' = owner /\ asked' = asked /\ trigger' = trigger
    BY <1>9 DEF CommitPlan, CommitDeclaration
  <2>3. work'[c].phase = "narrating" /\ \A d \in Commands \ {c} : work'[d] = work[d]
    BY <1>0, <2>2 DEF Await, WorkTyped, WorkType
  <2>4. Kept(c)'
    BY <1>0, <1>t, <1>x, <2>1, <2>3, ResolvedIsKept
  <2> QED
    BY <1>1, <1>2, <1>x, <2>1, <2>2, <2>3, <2>4
<1>10. ASSUME NEW c \in Commands, NEW effect, Fallback(c, effect)
       PROVE  Goal
  <2>1. /\ row'[c].state = "resolved" /\ version' >= version /\ exists' = exists
        /\ owner' = owner /\ asked' = asked /\ trigger' = trigger /\ Finish(c)
        /\ \A d \in Commands \ {c} : row'[d] = row[d]
    BY <1>0, <1>v, <1>10, RowFields DEF Fallback, Resolve, RowTyped
  <2>2. Kept(c)'
    BY <1>0, <1>t, <1>f, <2>1, ResolvedIsKept
  <2> QED
    BY <1>1, <1>2, <1>f, <2>1, <2>2
<1>11. ASSUME NEW c \in Commands, TurnConflicts(c)
       PROVE  Goal
  <2>1. /\ DropStale(c, work[c].base) /\ Finish(c) /\ owner' = owner /\ asked' = asked /\ trigger' = trigger
        /\ version' = version /\ exists' = exists
    BY <1>11 DEF TurnConflicts
  <2>2. ~(row'[c].state = "reserved" /\ row'[c].owner = owner)
    BY <1>0, <1>d, <2>1, RowFields DEF Kept
  <2>3. Kept(c)'
    BY <1>0, <1>d, <1>f, <2>1, <2>2, RowFields DEF Kept
  <2> QED
    BY <1>0, <1>1, <1>2, <1>d, <1>f, <2>1, <2>3
<1>12. ASSUME NEW c \in Commands, NEW source, ReleaseNarration(c, source)
       PROVE  Goal
  <2>1. /\ work[c].phase = "narrating" /\ Finish(c) /\ owner' = owner /\ asked' = asked /\ trigger' = trigger
        /\ version' = version /\ exists' = exists /\ Release(c, source)
    BY <1>12 DEF ReleaseNarration, Release
  <2>2. \A d \in Commands \ {c} : row'[d] = row[d]
    BY <1>0, <2>1 DEF Release, RowTyped
  <2>3. row'[c].state = row[c].state /\ (row[c].state # "resolved" => row'[c] = row[c])
    <3>1. CASE row[c].state = "resolved"
      <4>1. row'[c] = [row[c] EXCEPT !.source = source]
        BY <1>0, <2>1, <3>1 DEF Release, RowTyped
      <4> QED
        BY <1>0, <3>1, <4>1 DEF RowType, NoRow
    <3>2. CASE row[c].state # "resolved"
      BY <2>1, <3>2 DEF Release
    <3> QED
      BY <3>1, <3>2
  <2>4. Kept(c)'
    BY <1>0, <1>f, <2>1, <2>3 DEF Kept
  <2> QED
    BY <1>0, <1>1, <1>2, <1>f, <2>1, <2>2, <2>4
<1>13. ASSUME NEW c \in Commands, NEW effect, TickAnswered(c, effect)
       PROVE  Goal
  <2>1. /\ MarkAttempted(c) /\ Finish(c) /\ owner' = owner /\ asked' = asked /\ c \in Ticks
    BY <1>0, <1>13 DEF TickAnswered, InRole
  <2>2. CASE Current(c)
    <3>1. Execute(c, effect, room)
      BY <1>13, <2>2 DEF TickAnswered
    <3>2. Kept(c)'
      BY <1>0, <1>t, <1>f, <1>x, <2>1, <3>1, ResolvedIsKept
    <3> QED
      BY <1>1, <1>2, <1>m, <1>f, <1>x, <2>1, <3>1, <3>2
  <2>3. CASE ~Current(c)
    <3>1. DropStale(c, work[c].base) /\ version' = version /\ exists' = exists
      BY <1>13, <2>3 DEF TickAnswered
    <3>2. ~(row'[c].state = "reserved" /\ row'[c].owner = owner)
      BY <1>0, <1>d, <3>1, RowFields DEF Kept
    <3>3. Kept(c)'
      BY <1>0, <1>d, <1>f, <2>1, <3>1, <3>2, RowFields DEF Kept
    <3> QED
      BY <1>0, <1>1, <1>2, <1>m, <1>d, <1>f, <2>1, <3>1, <3>3
  <2> QED
    BY <2>2, <2>3
<1>14. ASSUME NEW v \in Versions, DeleteCampaign(v)
       PROVE  Goal
  <2>1. ~exists' /\ asked' = asked /\ \A c \in Commands : row'[c].state = "absent"
    BY <1>14, RowFields DEF DeleteCampaign
  <2> QED
    BY <2>1 DEF Kept, KeptInv, AskedIsRecorded
<1>15. ASSUME Restart
       PROVE  Goal
  <2>1. /\ row' = row /\ exists' = exists /\ owner' = owner + 1 /\ asked' = asked /\ trigger' = trigger
        /\ \A c \in Commands : work'[c].phase = "off"
    BY <1>15 DEF Restart, NoWork
  <2>2. \A c \in Commands : row[c].state = "reserved" => row[c].owner \in Nat
    BY <1>0 DEF RowType, NoRow
  <2>3. \A c \in Commands : Kept(c)'
    BY <1>0, <2>1, <2>2 DEF Kept
  <2> QED
    BY <1>1, <2>1, <2>3
<1>16. ASSUME UNCHANGED vars
       PROVE  Goal
  BY <1>0, <1>1, <1>16, OthersKept DEF vars
<1>17. ASSUME NEW c \in Commands, Submit(c)
       PROVE  Goal
  BY <1>3, <1>4, <1>5, <1>6, <1>7, <1>8, <1>17 DEF Submit
<1>18. ASSUME NEW c \in Commands, Handle(c)
       PROVE  Goal
  BY <1>9, <1>10, <1>11, <1>12, <1>13, <1>18 DEF Handle
<1> QED
  BY <1>14, <1>15, <1>16, <1>17, <1>18 DEF Next

\* A reservation is kept by whoever works on it, and a trigger asks its
\* provider once, whatever restarts and retries lie between
\* (reservePlayerTurn(), reserveNpcAgencyCommand()).
THEOREM ReservationsStayKept == Spec => []ReservationsKept
<1>1. Init => KeptInv
  BY InitKept
<1>2. KeptInv /\ [Next]_vars => KeptInv'
  BY NextKept
<1>3. KeptInv => ReservationsKept
  BY DEF KeptInv, Kept, AskedIsRecorded, ReservationsKept, ReservedMeansHandled, AskedOnce
<1> QED
  BY <1>1, <1>2, <1>3, PTL DEF Spec

---------------------------------------------------------------------------
(* What a step does to the ledger, the events and the transcript.          *)

\* A command without a result gets one.
Settles(c, effect) ==
    /\ row[c].state # "resolved" /\ exists /\ exists' = exists
    /\ effect = "commit" => version < MaxVersion
    /\ Resolve(c, effect)
    /\ version' = VersionAfter(effect)
    /\ events' = EventsAfter(c, effect)
    /\ \/ log' = Newest(log \o Transcript(c, effect))
       \/ log' = Narrated(Newest(log \o Transcript(c, effect)), Message(c, "rules"))

\* A reservation comes or goes.
Reserves(c) ==
    /\ row[c].state # "resolved" /\ row'[c].state # "resolved"
    /\ \A d \in Commands \ {c} : row'[d] = row[d]
    /\ UNCHANGED <<exists, version, events, log>>

\* The result of a command is narrated.
Rewords(c, source) ==
    /\ row[c].state = "resolved" /\ row[c].source = "rules"
    /\ row' = [row EXCEPT ![c] = [row[c] EXCEPT !.source = source]]
    /\ log' = Narrated(log, Message(c, Kind(source)))
    /\ UNCHANGED <<exists, version, events>>

LedgerStep ==
    \/ ~exists'
    \/ UNCHANGED <<exists, version, events, log, row>>
    \/ \E c \in Commands :
          \/ \E effect \in Effects : Settles(c, effect)
          \/ Reserves(c)
          \/ \E source \in {"rules", "llm"} : Rewords(c, source)

\* A handler writes a result only while its command still has none.
LEMMA StepIsLedgerStep ==
    ASSUME KeptInv, [Next]_vars
    PROVE  LedgerStep
<1> USE DEF campaignVars
<1>0. /\ RowTyped /\ WorkTyped /\ version \in Nat
      /\ \A c \in Commands : row[c] \in RowType /\ Kept(c)
  BY VersionFacts DEF KeptInv, TypeInv, RowTyped, CampaignTyped
<1>e. "commit" \in Effects /\ "none" \in Effects
  BY DEF Effects
<1>1. ASSUME NEW c \in Commands, work[c].phase \in {"planning", "asking"}, Current(c)
      PROVE  row[c].state # "resolved" /\ exists
  BY <1>0, <1>1, RowFields DEF Kept, Current
<1>2. ASSUME NEW c \in Commands, NEW effect \in Effects, NEW r, Execute(c, effect, r),
             row[c].state # "resolved", exists
      PROVE  LedgerStep
  <2>1. Settles(c, effect)
    BY <1>2 DEF Execute, Settles
  <2> QED
    BY <2>1 DEF LedgerStep
<1>3. ASSUME NEW c \in Commands, NEW v,
             ReserveTurn(c, v) \/ TakeOverTurn(c, v) \/ AskProvider(c, v)
      PROVE  LedgerStep
  <2>1. /\ row[c].state # "resolved" /\ row' = [row EXCEPT ![c] = Reservation(owner, v)]
        /\ UNCHANGED <<exists, version, events, log>>
    BY <1>3 DEF ReserveTurn, TakeOverTurn, AskProvider, Unknown, Abandoned
  <2>2. Reserves(c)
    BY <1>0, <2>1, RowFields DEF Reserves, RowTyped
  <2> QED
    BY <2>2 DEF LedgerStep
<1>4. ASSUME NEW c \in Commands, NEW v, NEW effect \in {"commit", "none"}, TickWithoutProvider(c, v, effect)
      PROVE  LedgerStep
  BY <1>e, <1>2, <1>4 DEF TickWithoutProvider, Unknown
<1>5. ASSUME NEW c \in Commands, NEW effect \in {"commit", "none"}, TakeOverTick(c, effect)
      PROVE  LedgerStep
  <2>1. CASE version = row[c].base
    BY <1>e, <1>2, <1>5, <2>1 DEF TakeOverTick, Abandoned
  <2>2. CASE version # row[c].base
    <3>1. /\ row' = [row EXCEPT ![c] = NoRow] /\ row[c].state # "resolved"
          /\ UNCHANGED <<exists, version, events, log>>
      BY <1>5, <2>2 DEF TakeOverTick, Abandoned
    <3>2. Reserves(c)
      BY <1>0, <3>1, RowFields DEF Reserves, RowTyped
    <3> QED
      BY <3>2 DEF LedgerStep
  <2> QED
    BY <2>1, <2>2
<1>6. ASSUME NEW c \in Commands, NEW v, NEW effect \in Effects, RunCommand(c, v, effect)
      PROVE  LedgerStep
  BY <1>2, <1>6 DEF RunCommand, Unknown
<1>7. ASSUME NEW c \in Commands, NEW v, DropStale(c, v), UNCHANGED <<exists, version, events, log>>
      PROVE  LedgerStep
  <2>1. CASE row[c] = Reservation(owner, v)
    <3>1. Reserves(c)
      BY <1>0, <1>7, <2>1, RowFields DEF DropStale, Reserves, RowTyped
    <3> QED
      BY <3>1 DEF LedgerStep
  <2>2. CASE row[c] # Reservation(owner, v)
    BY <1>7, <2>2 DEF DropStale, LedgerStep
  <2> QED
    BY <2>1, <2>2
<1>8. ASSUME NEW c \in Commands, RetryDropsTick(c) \/ TurnConflicts(c)
      PROVE  LedgerStep
  BY <1>7, <1>8 DEF RetryDropsTick, TurnConflicts
<1>9. ASSUME NEW c \in Commands, NEW effect \in Effects, CommitPlan(c) \/ CommitDeclaration(c, effect)
      PROVE  LedgerStep
  BY <1>e, <1>1, <1>2, <1>9 DEF CommitPlan, CommitDeclaration, Planning
<1>10. ASSUME NEW c \in Commands, NEW effect \in Effects, Fallback(c, effect)
       PROVE  LedgerStep
  <2>1. row[c].state # "resolved" /\ exists
    BY <1>1, <1>10 DEF Fallback, Planning
  <2>2. Settles(c, effect)
    BY <1>10, <2>1 DEF Fallback, Settles
  <2> QED
    BY <2>2 DEF LedgerStep
<1>11. ASSUME NEW c \in Commands, NEW source \in {"llm", "rules"}, ReleaseNarration(c, source)
       PROVE  LedgerStep
  <2>1. CASE row[c].state = "resolved"
    <3>1. row[c].source = "rules"
      BY <1>0, <1>11, <2>1 DEF ReleaseNarration, Kept
    <3>2. Rewords(c, source)
      BY <1>11, <2>1, <3>1 DEF ReleaseNarration, Release, Rewords
    <3> QED
      BY <3>2 DEF LedgerStep
  <2>2. CASE row[c].state # "resolved"
    BY <1>11, <2>2 DEF ReleaseNarration, Release, LedgerStep
  <2> QED
    BY <2>1, <2>2
<1>12. ASSUME NEW c \in Commands, NEW effect \in {"commit", "none"}, TickAnswered(c, effect)
       PROVE  LedgerStep
  <2>1. CASE Current(c)
    BY <1>e, <1>1, <1>2, <1>12, <2>1 DEF TickAnswered
  <2>2. CASE ~Current(c)
    BY <1>7, <1>12, <2>2 DEF TickAnswered
  <2> QED
    BY <2>1, <2>2
<1>13. ASSUME NEW v, DeleteCampaign(v)
       PROVE  LedgerStep
  BY <1>13 DEF DeleteCampaign, LedgerStep
<1>14. ASSUME Restart \/ UNCHANGED vars
       PROVE  LedgerStep
  BY <1>14 DEF Restart, vars, LedgerStep
<1>15. ASSUME NEW c \in Commands, Submit(c)
       PROVE  LedgerStep
  BY <1>3, <1>4, <1>5, <1>6, <1>8, <1>15 DEF Submit
<1>16. ASSUME NEW c \in Commands, Handle(c)
       PROVE  LedgerStep
  BY <1>e, <1>8, <1>9, <1>10, <1>11, <1>12, <1>16 DEF Handle
<1> QED
  BY <1>13, <1>14, <1>15, <1>16 DEF Next

---------------------------------------------------------------------------
(* A stored result is final.                                               *)

FinalStep ==
    \A c \in Commands : row[c].state = "resolved" /\ exists' =>
       /\ row'[c].state = "resolved"
       /\ row'[c].effect = row[c].effect /\ row'[c].version = row[c].version
       /\ row[c].source = "llm" => row'[c].source = "llm"

LEMMA LedgerStepIsFinal ==
    ASSUME RowTyped, LedgerStep
    PROVE  FinalStep
<1>1. CASE ~exists' \/ UNCHANGED <<exists, version, events, log, row>>
  BY <1>1 DEF FinalStep
<1>2. ASSUME NEW c \in Commands, NEW effect, Settles(c, effect)
      PROVE  FinalStep
  BY <1>2 DEF Settles, Resolve, RowTyped, FinalStep
<1>3. ASSUME NEW c \in Commands, Reserves(c)
      PROVE  FinalStep
  BY <1>3 DEF Reserves, FinalStep
<1>4. ASSUME NEW c \in Commands, NEW source, Rewords(c, source)
      PROVE  FinalStep
  <2>1. row[c] \in RowType /\ row[c].state = "resolved" /\ row[c].source = "rules"
    BY <1>4 DEF Rewords, RowTyped
  <2>2. row'[c] = [row[c] EXCEPT !.source = source] /\ \A d \in Commands \ {c} : row'[d] = row[d]
    BY <1>4 DEF Rewords, RowTyped
  <2>3. row'[c].state = "resolved" /\ row'[c].effect = row[c].effect /\ row'[c].version = row[c].version
    BY <2>1, <2>2 DEF RowType, NoRow
  <2> QED
    BY <2>1, <2>2, <2>3 DEF FinalStep
<1> QED
  BY <1>1, <1>2, <1>3, <1>4 DEF LedgerStep

\* The result a command has been given is the one every retry is given:
\* nothing but its narration changes, and that once, from the rules' words to
\* prose (executeCommand(), updateCommandNarration()).
THEOREM ResultsStayFinal == Spec => ResultsAreFinal
<1>1. Init => KeptInv
  BY InitKept
<1>2. KeptInv /\ [Next]_vars => KeptInv'
  BY NextKept
<1>3. KeptInv /\ [Next]_vars => [FinalStep]_vars
  BY StepIsLedgerStep, LedgerStepIsFinal DEF KeptInv, TypeInv
<1>4. KeptInv /\ [Next]_vars =>
         [\A c \in Commands : row[c].state = "resolved" /\ exists' =>
             /\ row'[c].state = "resolved"
             /\ row'[c].effect = row[c].effect /\ row'[c].version = row[c].version
             /\ row[c].source = "llm" => row'[c].source = "llm"]_vars
  BY <1>3 DEF FinalStep
<1> QED
  BY <1>1, <1>2, <1>4, PTL DEF Spec, ResultsAreFinal

---------------------------------------------------------------------------
(* The events are the history of the stored results.                       *)

EventAt(i) ==
    /\ events[i].version = i
    /\ row[events[i].command] \in {Result("commit", i, source) : source \in {"rules", "llm"}}

\* A step that adds no event and leaves every commit a commit.
LEMMA SameEventsKeepHistory ==
    ASSUME EventsAreHistory, events' = events, version' = version, exists' = exists,
           events \in Seq([command : Commands, version : Versions]),
           \A c \in Commands :
              /\ \A i \in Versions :
                    row[c] \in {Result("commit", i, source) : source \in {"rules", "llm"}}
                       => row'[c] \in {Result("commit", i, source) : source \in {"rules", "llm"}}
              /\ row'[c].state = "resolved" /\ row'[c].effect = "commit" =>
                    row[c].state = "resolved" /\ row[c].effect = "commit",
           version \in Versions
    PROVE  EventsAreHistory'
<1> SUFFICES ASSUME exists PROVE EventsAreHistory'
  BY DEF EventsAreHistory
<1>1. \A i \in 1..Len(events) : events[i].command \in Commands /\ i \in Versions
  <2>1. \A i \in 1..Len(events) : events[i] \in [command : Commands, version : Versions]
    BY ElementOfSeq
  <2> QED
    BY <2>1, EngineAssumption DEF EventsAreHistory, Versions
<1>2. \A i \in 1..Len(events) : EventAt(i)'
  BY <1>1 DEF EventsAreHistory, EventAt
<1>3. \A c \in Commands : row'[c].state = "resolved" /\ row'[c].effect = "commit" =>
         \E i \in 1..Len(events) : events[i].command = c
  BY DEF EventsAreHistory
<1> QED
  BY <1>2, <1>3 DEF EventsAreHistory, EventAt

LEMMA CommitKeepsHistory ==
    ASSUME TypeInv, EventsAreHistory, NEW c \in Commands, Settles(c, "commit")
    PROVE  EventsAreHistory'
<1>1. /\ exists /\ exists' = exists /\ version \in Nat /\ version' = version + 1
      /\ row[c].state # "resolved" /\ row' = [row EXCEPT ![c] = Result("commit", version + 1, "rules")]
      /\ events' = Append(events, [command |-> c, version |-> version + 1])
      /\ RowTyped /\ events \in Seq([command : Commands, version : Versions])
  BY VersionFacts DEF Settles, TypeInv, CampaignTyped, VersionAfter, EventsAfter, Resolve
<1>2. Len(events) = version /\ \A i \in 1..Len(events) : EventAt(i)
  BY <1>1 DEF EventsAreHistory, EventAt
<1> DEFINE e == [command |-> c, version |-> version + 1]
<1>3. e.command = c /\ e.version = version + 1
  OBVIOUS
<1> HIDE DEF e
<1>4. /\ Len(events') = version + 1 /\ events'[version + 1] = e
      /\ \A i \in 1..version : events'[i] = events[i]
  <2>1. events' = Append(events, e)
    BY <1>1 DEF e
  <2> QED
    BY <1>1, <1>2, <2>1, AppendProperties
<1>5. \A i \in 1..version : events[i].command \in Commands \ {c}
  <2>1. \A i \in 1..version : events[i] \in [command : Commands, version : Versions]
    BY <1>1, <1>2, ElementOfSeq
  <2>2. \A i \in 1..version : row[events[i].command].state = "resolved"
    BY <1>2, RowFields DEF EventAt
  <2> QED
    BY <1>1, <2>1, <2>2
<1>6. row'[c] = Result("commit", version + 1, "rules") /\ \A d \in Commands \ {c} : row'[d] = row[d]
  BY <1>1 DEF RowTyped
<1>7. \A i \in 1..Len(events') : EventAt(i)'
  <2> SUFFICES ASSUME NEW i \in 1..version + 1 PROVE EventAt(i)'
    BY <1>4
  <2>1. CASE i = version + 1
    BY <1>3, <1>4, <1>6, <2>1 DEF EventAt
  <2>2. CASE i # version + 1
    <3>1. i \in 1..version
      BY <1>1, <2>2
    <3>2. EventAt(i) /\ events'[i] = events[i] /\ row'[events[i].command] = row[events[i].command]
      BY <1>2, <1>4, <1>5, <1>6, <3>1
    <3> QED
      BY <3>2 DEF EventAt
  <2> QED
    BY <2>1, <2>2
<1>8. ASSUME NEW d \in Commands, row'[d].state = "resolved", row'[d].effect = "commit"
      PROVE  \E i \in 1..Len(events') : events'[i].command = d
  <2>1. CASE d = c
    <3>1. version + 1 \in 1..Len(events')
      BY <1>1, <1>4
    <3> QED
      BY <1>3, <1>4, <2>1, <3>1
  <2>2. CASE d # c
    <3>1. PICK i \in 1..version : events[i].command = d
      BY <1>1, <1>2, <1>6, <1>8, <2>2 DEF EventsAreHistory
    <3>2. i \in 1..Len(events') /\ events'[i] = events[i]
      BY <1>1, <1>4
    <3> QED
      BY <3>1, <3>2
  <2> QED
    BY <2>1, <2>2
<1>9. ASSUME NEW i \in 1..Len(events'), NEW j \in 1..Len(events'),
             events'[i].command = events'[j].command
      PROVE  i = j
  <2>1. CASE i \in 1..version /\ j \in 1..version
    BY <1>1, <1>2, <1>4, <1>9, <2>1 DEF EventsAreHistory
  <2>2. CASE ~(i \in 1..version /\ j \in 1..version)
    BY <1>1, <1>3, <1>4, <1>5, <1>9, <2>2
  <2> QED
    BY <2>1, <2>2
<1> QED
  BY <1>1, <1>4, <1>7, <1>8, <1>9 DEF EventsAreHistory, EventAt

LEMMA LedgerStepKeepsHistory ==
    ASSUME TypeInv, EventsAreHistory, LedgerStep
    PROVE  EventsAreHistory'
<1>0. /\ RowTyped /\ version \in Versions /\ events \in Seq([command : Commands, version : Versions])
      /\ \A c \in Commands : row[c] \in RowType
  BY DEF TypeInv, CampaignTyped, RowTyped
<1>1. CASE ~exists'
  BY <1>1 DEF EventsAreHistory
<1>2. CASE UNCHANGED <<exists, version, events, log, row>>
  BY <1>2 DEF EventsAreHistory
<1>3. ASSUME NEW c \in Commands, Settles(c, "commit")
      PROVE  EventsAreHistory'
  BY <1>3, CommitKeepsHistory
<1>4. ASSUME NEW c \in Commands, NEW effect \in Effects \ {"commit"}, Settles(c, effect)
      PROVE  EventsAreHistory'
  <2>1. /\ events' = events /\ version' = version /\ exists' = exists /\ row[c].state # "resolved"
        /\ row'[c] = Result(effect, version, "rules") /\ \A d \in Commands \ {c} : row'[d] = row[d]
    BY <1>0, <1>4 DEF Settles, VersionAfter, EventsAfter, Resolve, RowTyped
  <2>2. row'[c].effect # "commit"
    BY <2>1, RowFields
  <2> QED
    BY <1>0, <2>1, <2>2, RowFields, SameEventsKeepHistory
<1>5. ASSUME NEW c \in Commands, Reserves(c)
      PROVE  EventsAreHistory'
  <2>1. /\ events' = events /\ version' = version /\ exists' = exists /\ row[c].state # "resolved"
        /\ row'[c].state # "resolved" /\ \A d \in Commands \ {c} : row'[d] = row[d]
    BY <1>5 DEF Reserves
  <2> QED
    BY <1>0, <2>1, RowFields, SameEventsKeepHistory
<1>6. ASSUME NEW c \in Commands, NEW source \in {"rules", "llm"}, Rewords(c, source)
      PROVE  EventsAreHistory'
  <2>1. /\ events' = events /\ version' = version /\ exists' = exists /\ row[c].state = "resolved"
        /\ row'[c] = [row[c] EXCEPT !.source = source] /\ \A d \in Commands \ {c} : row'[d] = row[d]
    BY <1>0, <1>6 DEF Rewords, RowTyped
  <2>2. row[c] = Result(row[c].effect, row[c].version, row[c].source)
    BY <1>0, <2>1, RowFields
  <2>3. \A e, v, s : [Result(e, v, s) EXCEPT !.source = source] = Result(e, v, source)
    BY DEF Result
  <2>4. row'[c] = Result(row[c].effect, row[c].version, source)
    BY <2>1, <2>2, <2>3
  <2>5. \A i : row[c] \in {Result("commit", i, s) : s \in {"rules", "llm"}} =>
           row[c].effect = "commit" /\ row[c].version = i
    BY RowFields
  <2>6. row'[c].effect = row[c].effect
    BY <2>4, RowFields
  <2>7. \A i : row[c] \in {Result("commit", i, s) : s \in {"rules", "llm"}} =>
           row'[c] \in {Result("commit", i, s) : s \in {"rules", "llm"}}
    BY <2>4, <2>5
  <2>8. \A d \in Commands :
           /\ \A i \in Versions :
                 row[d] \in {Result("commit", i, s) : s \in {"rules", "llm"}}
                    => row'[d] \in {Result("commit", i, s) : s \in {"rules", "llm"}}
           /\ row'[d].state = "resolved" /\ row'[d].effect = "commit" =>
                 row[d].state = "resolved" /\ row[d].effect = "commit"
    <3>1. \A d \in Commands \ {c} : row'[d] = row[d]
      BY <2>1
    <3>2. row[c].state = "resolved" /\ row'[c].effect = row[c].effect
      BY <2>1, <2>6
    <3> QED
      BY <2>7, <3>1, <3>2
  <2>9. events' = events /\ version' = version /\ exists' = exists
    BY <2>1
  <2> QED
    BY <1>0, <2>8, <2>9, SameEventsKeepHistory
<1> QED
  BY <1>1, <1>2, <1>3, <1>4, <1>5, <1>6 DEF LedgerStep

HistoryInv == KeptInv /\ EventsAreHistory

LEMMA InitHistory == Init => HistoryInv
<1> SUFFICES ASSUME Init PROVE HistoryInv
  OBVIOUS
<1>1. Len(events) = 0 /\ version = 0 /\ \A c \in Commands : row[c].state = "absent"
  BY RowFields DEF Init
<1> QED
  BY <1>1, InitKept DEF HistoryInv, EventsAreHistory

LEMMA NextHistory ==
    ASSUME HistoryInv, [Next]_vars
    PROVE  HistoryInv'
  BY NextKept, StepIsLedgerStep, LedgerStepKeepsHistory DEF HistoryInv, KeptInv

\* The event table and the stored results tell one history, without gap or
\* repetition, for any number of commands, retries and restarts
\* (EngineStore.executeCommand()).
THEOREM EventsStayHistory == Spec => []EventsAreHistory
<1>1. Init => HistoryInv
  BY InitHistory
<1>2. HistoryInv /\ [Next]_vars => HistoryInv'
  BY NextHistory
<1>3. HistoryInv => EventsAreHistory
  BY DEF HistoryInv
<1> QED
  BY <1>1, <1>2, <1>3, PTL DEF Spec

---------------------------------------------------------------------------
(* The players' lines stay as long as the transcript reaches back.         *)

LinesIn(l, c) == {i \in 1..Len(l) : l[i] = Message(c, "player")}

HasLine(c) == row[c].state = "resolved" /\ row[c].effect # "blocked"

LineKept(c) == LinesOf(c) = {} \/ (HasLine(c) /\ \E i : LinesOf(c) = {i})

InOrder(c, d) ==
    Committed(c) /\ Committed(d) /\ row[c].version < row[d].version =>
       /\ \A i \in LinesOf(c), j \in LinesOf(d) : i < j
       /\ LinesOf(d) = {} => LinesOf(c) = {}

LinesKept ==
    exists => /\ \A c \in Texts \cup Actions : LineKept(c)
              /\ \A c, d \in Texts \cup Actions : InOrder(c, d)

LinesInv == HistoryInv /\ LinesKept

\* The places I after the k oldest messages are gone.
Faded(I, k) == {i \in Nat \ {0} : i + k \in I}

LEMMA CarriedLines ==
    ASSUME NEW l1, NEW l2, NEW k, Carries(l1, l2, k), NEW c
    PROVE  LinesIn(l2, c) = Faded(LinesIn(l1, c), k)
<1>1. \A l : LinesIn(l, c) = {i \in PlayersOf(l) : l[i] = Message(c, "player")}
  BY DEF LinesIn, PlayersOf, Message
<1>2. \A i \in Nat \ {0} : i \in LinesIn(l2, c) <=> i + k \in LinesIn(l1, c)
  BY <1>1 DEF Carries
<1>3. \A i \in LinesIn(l2, c) : i \in Nat \ {0}
  BY DEF LinesIn
<1> QED
  BY <1>2, <1>3 DEF Faded

\* What a resolution adds to the transcript.
LEMMA TranscriptLines ==
    ASSUME NEW l \in Seq(MessageType), NEW c \in Commands, NEW effect, NEW d
    PROVE  /\ d # c => LinesIn(l \o Transcript(c, effect), d) = LinesIn(l, d)
           /\ c \in Texts \cup Actions /\ effect = "blocked" =>
                 LinesIn(l \o Transcript(c, effect), c) = LinesIn(l, c)
           /\ c \in Texts \cup Actions /\ effect # "blocked" =>
                 LinesIn(l \o Transcript(c, effect), c) = LinesIn(l, c) \cup {Len(l) + 1}
<1> DEFINE t == Transcript(c, effect)
<1>1. t \in Seq(MessageType) /\ Len(t) \in Nat /\ Len(l) \in Nat
  BY TranscriptType
<1>2. /\ l \o t \in Seq(MessageType) /\ Len(l \o t) = Len(l) + Len(t)
      /\ \A i \in 1..Len(l) + Len(t) : (l \o t)[i] = IF i <= Len(l) THEN l[i] ELSE t[i - Len(l)]
  <2> HIDE DEF t
  <2> QED
    BY <1>1, ConcatProperties
<1>3. \A k1, k2 : Message(c, k1) = Message(d, k2) => c = d /\ k1 = k2
  BY DEF Message
<1>4. \A k1, k2 : Message(c, k1) = Message(c, k2) => k1 = k2
  BY DEF Message
<1>5. \A i \in 1..Len(t) : t[i] \in {Message(c, "player"), Message(c, "rules")}
  BY DEF Transcript
<1>6. c \in Texts \cup Actions => c \notin Ticks
  BY EngineAssumption
<1>7. c \in Texts \cup Actions /\ effect = "blocked" => Len(t) = 0
  BY DEF Transcript
<1>8. c \in Texts \cup Actions /\ effect # "blocked" =>
         Len(t) = 2 /\ t[1] = Message(c, "player") /\ t[2] = Message(c, "rules")
  BY <1>6 DEF Transcript
<1>9. \A x : LinesIn(l \o t, x) = LinesIn(l, x) \cup {Len(l) + i : i \in LinesIn(t, x)}
  <2> HIDE DEF t
  <2> SUFFICES ASSUME NEW x
               PROVE  LinesIn(l \o t, x) = LinesIn(l, x) \cup {Len(l) + i : i \in LinesIn(t, x)}
    OBVIOUS
  <2>1. ASSUME NEW i \in LinesIn(l \o t, x)
        PROVE  i \in LinesIn(l, x) \cup {Len(l) + k : k \in LinesIn(t, x)}
    <3>1. i \in 1..Len(l) + Len(t) /\ (l \o t)[i] = Message(x, "player")
      BY <1>2 DEF LinesIn
    <3>2. CASE i <= Len(l)
      BY <1>1, <1>2, <3>1, <3>2 DEF LinesIn
    <3>3. CASE i > Len(l)
      <4>1. i - Len(l) \in 1..Len(t) /\ t[i - Len(l)] = Message(x, "player")
        BY <1>1, <1>2, <3>1, <3>3
      <4>2. i - Len(l) \in LinesIn(t, x) /\ i = Len(l) + (i - Len(l))
        BY <1>1, <3>1, <4>1 DEF LinesIn
      <4> QED
        BY <4>2
    <3> QED
      BY <1>1, <3>1, <3>2, <3>3
  <2>2. ASSUME NEW i \in LinesIn(l, x)
        PROVE  i \in LinesIn(l \o t, x)
    BY <1>1, <1>2 DEF LinesIn
  <2>3. ASSUME NEW k \in LinesIn(t, x)
        PROVE  Len(l) + k \in LinesIn(l \o t, x)
    <3>1. k \in 1..Len(t) /\ t[k] = Message(x, "player")
      BY DEF LinesIn
    <3>2. Len(l) + k \in 1..Len(l) + Len(t) /\ (Len(l) + k) - Len(l) = k /\ ~(Len(l) + k <= Len(l))
      BY <1>1, <3>1
    <3>3. (l \o t)[Len(l) + k] = t[k]
      BY <1>2, <3>2
    <3> QED
      BY <1>2, <3>1, <3>2, <3>3 DEF LinesIn
  <2> QED
    BY <2>1, <2>2, <2>3
<1>10. d # c => LinesIn(t, d) = {}
  <2> HIDE DEF t
  <2> QED
    BY <1>3, <1>5 DEF LinesIn
<1>11. c \in Texts \cup Actions /\ effect = "blocked" => LinesIn(t, c) = {}
  <2> HIDE DEF t
  <2> QED
    BY <1>7 DEF LinesIn
<1>12. c \in Texts \cup Actions /\ effect # "blocked" => LinesIn(t, c) = {1}
  <2> HIDE DEF t
  <2> QED
    BY <1>4, <1>8 DEF LinesIn
<1> QED
  <2> HIDE DEF t
  <2>1. \A x : LinesIn(t, x) = {} => LinesIn(l \o t, x) = LinesIn(l, x)
    BY <1>9
  <2>2. \A x : LinesIn(t, x) = {1} => LinesIn(l \o t, x) = LinesIn(l, x) \cup {Len(l) + 1}
    BY <1>9
  <2>3. /\ d # c => LinesIn(l \o t, d) = LinesIn(l, d)
        /\ c \in Texts \cup Actions /\ effect = "blocked" => LinesIn(l \o t, c) = LinesIn(l, c)
        /\ c \in Texts \cup Actions /\ effect # "blocked" =>
              LinesIn(l \o t, c) = LinesIn(l, c) \cup {Len(l) + 1}
    BY <1>10, <1>11, <1>12, <2>1, <2>2
  <2> QED
    BY <2>3 DEF t

\* L messages, T more, N left after the first write and k2 gone with the second.
LEMMA CapLeaves ==
    ASSUME NEW L \in Nat, NEW T \in 0..2, NEW N \in Nat, NEW k1 \in Nat, NEW k2 \in {0, 1},
           L <= LogCap, N <= LogCap, N + k1 = L + T, k1 > 0 => N = LogCap,
           k2 = 1 => N = LogCap /\ T # 2
    PROVE  k1 + k2 \in 0..L /\ (k1 + k2 > 0 => (k1 + k2) + LogCap <= L + 2)
  BY EngineAssumption

\* What the cap took away when the transcript of a resolution was written,
\* whether the rules have narrated it or not.
LEMMA SettledLog ==
    ASSUME TypeInv, NEW c \in Commands, NEW effect, Settles(c, effect)
    PROVE  \E k \in 0..Len(log) : /\ k > 0 => k + LogCap <= Len(log) + 2
                                  /\ Carries(log \o Transcript(c, effect), log', k)
<1> DEFINE t == Transcript(c, effect)
           l == log \o t
           m == Message(c, "rules")
<1>0. LogCap \in Nat /\ LogCap >= 2 /\ Len(log) \in Nat /\ Len(log) <= LogCap
  BY EngineAssumption DEF TypeInv, CampaignTyped
<1>1. log \in Seq(MessageType) /\ t \in Seq(MessageType)
  BY TranscriptType DEF TypeInv, CampaignTyped
<1>2. /\ t = <<>> \/ t = <<m>> \/ t = <<Message(c, "player"), m>>
      /\ m.kind # "player" /\ Message(c, "player").kind = "player" /\ m \in MessageType
  BY TranscriptType DEF Transcript, Message
<1>3. log' = Newest(l) \/ log' = Narrated(Newest(l), m)
  BY DEF Settles
<1> HIDE DEF t, m
<1>4. /\ l \in Seq(MessageType) /\ Len(l) = Len(log) + Len(t) /\ Len(t) \in 0..2
      /\ \A i \in 1..Len(t) : l[Len(log) + i] = t[i]
  <2>1. Len(t) \in 0..2
    BY <1>2
  <2>2. /\ l \in Seq(MessageType) /\ Len(l) = Len(log) + Len(t)
        /\ \A i \in 1..Len(log) + Len(t) : l[i] = IF i <= Len(log) THEN log[i] ELSE t[i - Len(log)]
    BY <1>1, ConcatProperties
  <2>3. \A i \in 1..Len(t) : /\ Len(log) + i \in 1..Len(log) + Len(t)
                             /\ ~(Len(log) + i <= Len(log)) /\ (Len(log) + i) - Len(log) = i
    BY <1>0, <2>1
  <2> QED
    BY <2>1, <2>2, <2>3
<1> HIDE DEF l
<1>5. PICK k1 \in Nat : /\ Carries(l, Newest(l), k1)
                        /\ Len(Newest(l)) + k1 = Len(l) /\ (k1 > 0 => Len(Newest(l)) = LogCap)
                        /\ \A i \in 1..Len(Newest(l)) : Newest(l)[i] = l[i + k1]
  BY <1>4, NewestCarries
<1>6. Newest(l) \in Seq(MessageType) /\ Len(Newest(l)) <= LogCap /\ Len(Newest(l)) \in Nat
  BY <1>4, NewestCarries
<1>a. Len(Newest(l)) + k1 = Len(log) + Len(t)
  BY <1>4, <1>5
<1>b. m \in MessageType /\ m.kind # "player"
  BY <1>2
<1>7. CASE log' = Newest(l)
  <2>1. k1 + 0 \in 0..Len(log) /\ (k1 + 0 > 0 => (k1 + 0) + LogCap <= Len(log) + 2)
    <3>1. k1 > 0 => Len(Newest(l)) = LogCap
      BY <1>5
    <3>2. Len(t) \in 0..2 /\ 0 \in {0, 1} /\ 0 # 1
      BY <1>4
    <3> QED
      BY <1>0, <1>6, <1>a, <3>1, <3>2, CapLeaves
  <2>2. k1 + 0 = k1
    BY <1>5
  <2> QED
    BY <1>5, <1>7, <2>1, <2>2 DEF l, t
<1>8. CASE log' = Narrated(Newest(l), m)
  <2> DEFINE n == Newest(l)
  <2>1. PICK k2 \in {0, 1} :
           /\ Carries(n, Narrated(n, m), k2)
           /\ k2 = 1 => Len(n) = LogCap /\ (PlayersOf(n) = {} \/ Len(n) \in PlayersOf(n))
    <3>1. n \in Seq(MessageType) /\ Len(n) <= LogCap
      BY <1>6
    <3> HIDE DEF n
    <3>2. \E k \in {0, 1} :
             /\ Carries(n, Narrated(n, m), k)
             /\ k = 1 => Len(n) = LogCap /\ (PlayersOf(n) = {} \/ Len(n) \in PlayersOf(n))
      BY <1>b, <3>1, NarratedCarries
    <3> QED
      BY <3>2
  <2>2. ASSUME Len(t) = 2, k2 = 1 PROVE FALSE
    <3>1. t[1] = Message(c, "player") /\ t[2] = m
      <4> DEFINE p == Message(c, "player")
      <4>1. t = <<>> \/ t = <<m>> \/ t = <<p, m>>
        BY <1>2
      <4> HIDE DEF p
      <4>2. Len(t) # 0 /\ Len(t) # 1
        BY <2>2
      <4>3. t # <<>> /\ t # <<m>>
        BY <4>2
      <4>4. t = <<p, m>>
        BY <4>1, <4>3
      <4>5. t[1] = p /\ t[2] = m
        BY <4>4
      <4> QED
        BY <4>5 DEF p
    <3>2. Len(n) = LogCap /\ Len(n) \in 1..Len(n) /\ Len(n) - 1 \in 1..Len(n)
      BY <1>0, <1>6, <2>1, <2>2
    <3>3. Len(n) + k1 = Len(log) + 2 /\ (Len(n) - 1) + k1 = Len(log) + 1
      BY <1>0, <1>4, <1>5, <1>6, <2>2
    <3>4. n[Len(n)] = l[Len(n) + k1] /\ n[Len(n) - 1] = l[(Len(n) - 1) + k1]
      BY <1>5, <3>2
    <3>5. l[Len(log) + 2] = m /\ l[Len(log) + 1] = Message(c, "player")
      BY <1>4, <2>2, <3>1
    <3>6. n[Len(n)] = m /\ n[Len(n) - 1] = Message(c, "player")
      BY <3>3, <3>4, <3>5
    <3>7. Len(n) \notin PlayersOf(n) /\ Len(n) - 1 \in PlayersOf(n)
      <4> HIDE DEF n
      <4> QED
        BY <1>2, <3>2, <3>6 DEF PlayersOf
    <3> QED
      BY <2>1, <2>2, <3>7
  <2>3. Carries(l, log', k1 + k2)
    BY <1>5, <1>8, <2>1, CarriesOn
  <2>4. k1 + k2 \in 0..Len(log) /\ (k1 + k2 > 0 => (k1 + k2) + LogCap <= Len(log) + 2)
    <3>1. k2 = 1 => Len(n) = LogCap /\ Len(t) # 2
      BY <2>1, <2>2
    <3> QED
      BY <1>0, <1>4, <1>5, <1>6, <1>a, <2>1, <3>1, CapLeaves
  <2> QED
    BY <2>3, <2>4 DEF l, t
<1> QED
  BY <1>3, <1>7, <1>8

\* The lines after a resolution.
LEMMA SettledLines ==
    ASSUME TypeInv, NEW c \in Commands, NEW effect, Settles(c, effect)
    PROVE  \E k \in 0..Len(log) :
              /\ k > 0 => k + LogCap <= Len(log) + 2
              /\ Carries(log \o Transcript(c, effect), log', k)
              /\ \A d : d # c => LinesOf(d)' = Faded(LinesOf(d), k)
              /\ c \in Texts \cup Actions =>
                    LinesOf(c)' = Faded(IF effect = "blocked" THEN LinesOf(c)
                                        ELSE LinesOf(c) \cup {Len(log) + 1}, k)
<1> DEFINE l == log \o Transcript(c, effect)
<1>1. log \in Seq(MessageType)
  BY DEF TypeInv, CampaignTyped
<1>2. PICK k \in 0..Len(log) : (k > 0 => k + LogCap <= Len(log) + 2) /\ Carries(l, log', k)
  BY SettledLog
<1>3. \A d : /\ d # c => LinesIn(l, d) = LinesIn(log, d)
             /\ c \in Texts \cup Actions /\ effect = "blocked" => LinesIn(l, c) = LinesIn(log, c)
             /\ c \in Texts \cup Actions /\ effect # "blocked" =>
                   LinesIn(l, c) = LinesIn(log, c) \cup {Len(log) + 1}
  BY <1>1, TranscriptLines
<1> HIDE DEF l
<1>4. \A d : LinesIn(log', d) = Faded(LinesIn(l, d), k)
  BY <1>2, CarriedLines
<1>5. \A x : LinesOf(x)' = LinesIn(log', x) /\ LinesOf(x) = LinesIn(log, x)
  BY DEF LinesOf, LinesIn, Message
<1>6. \A d : d # c => LinesOf(d)' = Faded(LinesOf(d), k)
  BY <1>3, <1>4, <1>5
<1>7. c \in Texts \cup Actions =>
         LinesOf(c)' = Faded(IF effect = "blocked" THEN LinesOf(c) ELSE LinesOf(c) \cup {Len(log) + 1}, k)
  BY <1>3, <1>4, <1>5
<1> QED
  BY <1>2, <1>6, <1>7 DEF l

LEMMA FadedFacts ==
    ASSUME NEW k \in Nat
    PROVE  /\ Faded({}, k) = {}
           /\ \A i \in Nat : i > k => Faded({i}, k) = {i - k}
           /\ \A i \in Nat : i <= k => Faded({i}, k) = {}
<1>1. \A i \in Nat : i > k => i - k \in Nat \ {0} /\ (i - k) + k = i
  OBVIOUS
<1>2. \A i \in Nat, j \in Nat \ {0} : j + k = i => i > k /\ j = i - k
  OBVIOUS
<1> QED
  BY <1>1, <1>2 DEF Faded

\* A line stays a line or goes.
LEMMA FadedLine ==
    ASSUME NEW k \in Nat, NEW I \in SUBSET Nat, I = {} \/ \E i : I = {i}
    PROVE  Faded(I, k) = {} \/ \E i : Faded(I, k) = {i}
<1>1. CASE I = {}
  BY <1>1, FadedFacts
<1>2. ASSUME NEW i, I = {i}
      PROVE  Faded(I, k) = {} \/ \E j : Faded(I, k) = {j}
  <2>1. i \in Nat
    BY <1>2
  <2>2. CASE i > k
    BY <1>2, <2>1, <2>2, FadedFacts
  <2>3. CASE i <= k
    BY <1>2, <2>1, <2>3, FadedFacts
  <2> QED
    BY <2>1, <2>2, <2>3
<1> QED
  BY <1>1, <1>2

\* The older line goes before the newer.
LEMMA FadedOrder ==
    ASSUME NEW k \in Nat, NEW I \in SUBSET Nat, NEW J \in SUBSET Nat,
           \A i \in I, j \in J : i < j, J = {} => I = {}
    PROVE  /\ \A i \in Faded(I, k), j \in Faded(J, k) : i < j
           /\ Faded(J, k) = {} => Faded(I, k) = {}
<1>1. ASSUME NEW i \in Faded(I, k), NEW j \in Faded(J, k)
      PROVE  i < j
  <2>1. i \in Nat /\ j \in Nat /\ i + k \in I /\ j + k \in J
    BY DEF Faded
  <2>2. i + k < j + k
    BY <2>1
  <2> QED
    BY <2>1, <2>2
<1>2. ASSUME NEW i \in Faded(I, k)
      PROVE  Faded(J, k) # {}
  <2>1. i \in Nat \ {0} /\ i + k \in I
    BY DEF Faded
  <2>2. PICK j \in J : TRUE
    BY <2>1
  <2>3. j \in Nat /\ i + k < j
    BY <2>1
  <2>4. j - k \in Nat \ {0} /\ (j - k) + k = j
    BY <2>1, <2>3
  <2> QED
    BY <2>4 DEF Faded
<1> QED
  BY <1>1, <1>2

LEMMA LinesAreNumbers ==
    ASSUME NEW l \in Seq(MessageType), NEW c
    PROVE  LinesIn(l, c) \in SUBSET Nat
  BY DEF LinesIn

\* The same lines, the oldest perhaps gone, and no result that asks for another.
LEMMA FadingKeepsLines ==
    ASSUME LinesKept, log \in Seq(MessageType), exists' => exists, NEW k \in Nat,
           \A c \in Texts \cup Actions :
              /\ LinesOf(c)' = Faded(LinesOf(c), k) /\ HasLine(c)' = HasLine(c)
              /\ Committed(c)' => Committed(c) /\ row'[c].version = row[c].version
    PROVE  LinesKept'
<1> SUFFICES ASSUME exists' PROVE LinesKept'
  BY DEF LinesKept
<1>0. \A c : LinesOf(c) \in SUBSET Nat
  BY LinesAreNumbers DEF LinesOf, LinesIn
<1>1. ASSUME NEW c \in Texts \cup Actions
      PROVE  LineKept(c)'
  <2>1. LineKept(c)
    BY DEF LinesKept
  <2>2. LinesOf(c) = {} => LinesOf(c)' = {}
    BY FadedFacts
  <2>3. (\E i : LinesOf(c) = {i}) => LinesOf(c)' = {} \/ \E i : LinesOf(c)' = {i}
    BY <1>0, FadedLine
  <2> QED
    BY <2>1, <2>2, <2>3 DEF LineKept
<1>2. ASSUME NEW c \in Texts \cup Actions, NEW d \in Texts \cup Actions
      PROVE  InOrder(c, d)'
  <2> SUFFICES ASSUME Committed(c)', Committed(d)', row'[c].version < row'[d].version
               PROVE  /\ \A i \in LinesOf(c)', j \in LinesOf(d)' : i < j
                      /\ LinesOf(d)' = {} => LinesOf(c)' = {}
    BY DEF InOrder
  <2>1. /\ \A i \in LinesOf(c), j \in LinesOf(d) : i < j
        /\ LinesOf(d) = {} => LinesOf(c) = {}
    BY DEF LinesKept, InOrder
  <2> QED
    BY <1>0, <2>1, FadedOrder
<1> QED
  BY <1>1, <1>2 DEF LinesKept

\* A committed result has an event, so that no version is above the campaign's.
LEMMA CommittedVersions ==
    ASSUME TypeInv, EventsAreHistory, exists, NEW c \in Commands, Committed(c)
    PROVE  row[c].version \in Nat /\ row[c].version <= version
<1>1. version \in Nat /\ row[c] \in RowType /\ Len(events) = version
  BY VersionFacts DEF TypeInv, CampaignTyped, RowTyped, EventsAreHistory
<1>2. PICK i \in 1..Len(events) : events[i].command = c
  BY DEF EventsAreHistory, Committed
<1>3. row[c] \in {Result("commit", i, source) : source \in {"rules", "llm"}}
  BY <1>2 DEF EventsAreHistory
<1>4. row[c].version = i
  BY <1>3, RowFields
<1> QED
  BY <1>1, <1>4

LEMMA SettlingKeepsLines ==
    ASSUME TypeInv, EventsAreHistory, LinesKept, NEW c \in Commands, NEW effect \in Effects, Settles(c, effect)
    PROVE  LinesKept'
<1> DEFINE Players == Texts \cup Actions
<1>0. /\ exists /\ version \in Nat /\ RowTyped /\ Len(log) \in Nat /\ row[c].state # "resolved"
      /\ Players \subseteq Commands /\ log \in Seq(MessageType)
  BY VersionFacts DEF Settles, TypeInv, CampaignTyped, Commands
<1>1. row'[c] = Result(effect, VersionAfter(effect), "rules") /\ \A d \in Commands \ {c} : row'[d] = row[d]
  BY <1>0 DEF Settles, Resolve, RowTyped
<1>2. /\ row'[c].state = "resolved" /\ row'[c].effect = effect
      /\ row'[c].version = VersionAfter(effect)
  BY <1>1, RowFields
<1>n. \A x : LinesOf(x) \in SUBSET Nat /\ \A i \in LinesOf(x) : i <= Len(log)
  BY <1>0, LinesAreNumbers DEF LinesOf, LinesIn
<1>k. PICK k \in 0..Len(log) :
         /\ \A d : d # c => LinesOf(d)' = Faded(LinesOf(d), k)
         /\ c \in Players => LinesOf(c)' = Faded(IF effect = "blocked" THEN LinesOf(c)
                                                ELSE LinesOf(c) \cup {Len(log) + 1}, k)
  BY SettledLines
<1>m. k \in Nat /\ Len(log) + 1 > k /\ Len(log) + 1 \in Nat
  BY <1>0
<1>3. \A d \in Players \ {c} :
         /\ LinesOf(d)' = Faded(LinesOf(d), k) /\ HasLine(d)' = HasLine(d)
         /\ Committed(d)' = Committed(d) /\ row'[d] = row[d]
  BY <1>0, <1>1, <1>k DEF HasLine, Committed
<1>4. c \in Players => LinesOf(c)' = IF effect = "blocked" THEN {} ELSE {Len(log) + 1 - k}
  <2>1. c \in Players => LinesOf(c) = {}
    BY <1>0 DEF LinesKept, LineKept, HasLine
  <2>2. Faded({}, k) = {} /\ Faded({Len(log) + 1}, k) = {Len(log) + 1 - k}
    BY <1>m, FadedFacts
  <2>3. {} \cup {Len(log) + 1} = {Len(log) + 1}
    OBVIOUS
  <2> QED
    BY <1>k, <2>1, <2>2, <2>3
<1>5. \A d \in Players : LineKept(d)'
  <2> SUFFICES ASSUME NEW d \in Players PROVE LineKept(d)'
    OBVIOUS
  <2>1. CASE d = c
    BY <1>2, <1>4, <2>1 DEF LineKept, HasLine
  <2>2. CASE d # c
    <3>1. LineKept(d) /\ LinesOf(d)' = Faded(LinesOf(d), k) /\ HasLine(d)' = HasLine(d)
      BY <1>0, <1>3, <2>2 DEF LinesKept
    <3>2. LinesOf(d) = {} => LinesOf(d)' = {}
      BY <1>m, <3>1, FadedFacts
    <3>3. (\E i : LinesOf(d) = {i}) => LinesOf(d)' = {} \/ \E i : LinesOf(d)' = {i}
      BY <1>m, <1>n, <3>1, FadedLine
    <3> QED
      BY <3>1, <3>2, <3>3 DEF LineKept
  <2> QED
    BY <2>1, <2>2
<1>6. ASSUME NEW a \in Players, NEW b \in Players
      PROVE  InOrder(a, b)'
  <2> SUFFICES ASSUME Committed(a)', Committed(b)', row'[a].version < row'[b].version
               PROVE  /\ \A i \in LinesOf(a)', j \in LinesOf(b)' : i < j
                      /\ LinesOf(b)' = {} => LinesOf(a)' = {}
    BY DEF InOrder
  <2>1. \A d \in Players \ {c} : Committed(d)' =>
           row'[d].version \in Nat /\ row'[d].version <= version
    BY <1>0, <1>3, CommittedVersions
  <2>2. effect = "commit" => VersionAfter(effect) = version + 1
    BY DEF VersionAfter
  <2>3. CASE a = c
    <3>1. effect = "commit" /\ row'[a].version = version + 1 /\ b # c
      BY <1>0, <1>2, <2>2, <2>3 DEF Committed
    <3>2. row'[b].version \in Nat /\ row'[b].version <= version
      BY <2>1, <3>1
    <3> QED
      BY <1>0, <3>1, <3>2
  <2>4. CASE a # c /\ b = c
    <3>1. LinesOf(b)' = {Len(log) + 1 - k}
      BY <1>2, <1>4, <2>4 DEF Committed
    <3>2. ASSUME NEW i \in LinesOf(a)' PROVE i < Len(log) + 1 - k
      <4>1. i \in Nat /\ i + k \in LinesOf(a)
        BY <1>3, <2>4 DEF Faded
      <4>2. i + k <= Len(log)
        BY <1>n, <4>1
      <4> QED
        BY <1>0, <1>m, <4>1, <4>2
    <3> QED
      BY <3>1, <3>2
  <2>5. CASE a # c /\ b # c
    <3>1. InOrder(a, b) /\ Committed(a) /\ Committed(b) /\ row[a].version < row[b].version
      BY <1>0, <1>3, <2>5 DEF LinesKept
    <3>2. /\ \A i \in LinesOf(a), j \in LinesOf(b) : i < j
          /\ LinesOf(b) = {} => LinesOf(a) = {}
      BY <3>1 DEF InOrder
    <3>3. LinesOf(a)' = Faded(LinesOf(a), k) /\ LinesOf(b)' = Faded(LinesOf(b), k)
      BY <1>3, <2>5
    <3> QED
      BY <1>m, <1>n, <3>2, <3>3, FadedOrder
  <2> QED
    BY <2>3, <2>4, <2>5
<1> QED
  BY <1>5, <1>6 DEF LinesKept

\* A late narration: what the cap takes, and nothing else.
LEMMA RewordedLog ==
    ASSUME TypeInv, NEW c \in Commands, NEW source, Rewords(c, source)
    PROVE  \E k \in {0, 1} : Carries(log, log', k) /\ (k = 1 => Len(log) = LogCap)
<1>1. /\ log \in Seq(MessageType) /\ Len(log) <= LogCap /\ Message(c, Kind(source)) \in MessageType
      /\ Message(c, Kind(source)).kind # "player" /\ log' = Narrated(log, Message(c, Kind(source)))
  BY TranscriptType DEF TypeInv, CampaignTyped, Rewords, Message, Kind
<1> QED
  BY <1>1, NarratedCarries

LEMMA LedgerStepKeepsLines ==
    ASSUME TypeInv, EventsAreHistory, LinesKept, LedgerStep
    PROVE  LinesKept'
<1>0. RowTyped /\ log \in Seq(MessageType) /\ Texts \cup Actions \subseteq Commands
  BY DEF TypeInv, CampaignTyped, Commands
<1>1. CASE ~exists'
  BY <1>1 DEF LinesKept
<1>l. \A x : LinesOf(x)' = LinesIn(log', x) /\ LinesOf(x) = LinesIn(log, x)
  BY DEF LinesOf, LinesIn, Message
<1>s. log' = log => \A x : LinesOf(x)' = Faded(LinesOf(x), 0)
  <2>1. Carries(log, log, 0)
    BY DEF Carries, PlayersOf
  <2> QED
    BY <1>l, <2>1, CarriedLines
<1>2. CASE UNCHANGED <<exists, version, events, log, row>>
  BY <1>0, <1>s, <1>2, FadingKeepsLines DEF HasLine, Committed
<1>3. ASSUME NEW c \in Commands, NEW effect \in Effects, Settles(c, effect)
      PROVE  LinesKept'
  BY <1>3, SettlingKeepsLines
<1>4. ASSUME NEW c \in Commands, Reserves(c)
      PROVE  LinesKept'
  <2>1. /\ log' = log /\ exists' = exists /\ row[c].state # "resolved" /\ row'[c].state # "resolved"
        /\ \A d \in Commands \ {c} : row'[d] = row[d]
    BY <1>4 DEF Reserves
  <2>2. \A d \in Texts \cup Actions :
           /\ LinesOf(d)' = Faded(LinesOf(d), 0) /\ HasLine(d)' = HasLine(d)
           /\ Committed(d)' => Committed(d) /\ row'[d].version = row[d].version
    BY <1>0, <1>s, <2>1 DEF HasLine, Committed
  <2> QED
    BY <1>0, <2>1, <2>2, FadingKeepsLines
<1>5. ASSUME NEW c \in Commands, NEW source, Rewords(c, source)
      PROVE  LinesKept'
  <2>1. /\ exists' = exists
        /\ row'[c] = [row[c] EXCEPT !.source = source] /\ \A d \in Commands \ {c} : row'[d] = row[d]
        /\ row[c].state = "resolved" /\ row[c] \in RowType
    BY <1>0, <1>5 DEF Rewords, RowTyped
  <2>2. /\ row'[c].state = "resolved" /\ row'[c].effect = row[c].effect
        /\ row'[c].version = row[c].version
    BY <2>1 DEF RowType, NoRow
  <2>3. PICK k \in {0, 1} : Carries(log, log', k)
    BY <1>5, RewordedLog
  <2>4. \A x : LinesOf(x)' = Faded(LinesOf(x), k)
    BY <1>l, <2>3, CarriedLines
  <2>5. \A d \in Texts \cup Actions :
           /\ HasLine(d)' = HasLine(d)
           /\ Committed(d)' => Committed(d) /\ row'[d].version = row[d].version
    BY <1>0, <2>1, <2>2 DEF HasLine, Committed
  <2> QED
    BY <1>0, <2>1, <2>4, <2>5, FadingKeepsLines
<1> QED
  BY <1>1, <1>2, <1>3, <1>4, <1>5 DEF LedgerStep

\* LinesFade, of one step.
FadeStep ==
    exists /\ exists' =>
       /\ \E k \in 0..Len(log) :
             /\ k > 0 => k + LogCap <= Len(log) + 2
             /\ \A i \in k + 1..Len(log) :
                   IsPlayer(log[i]) => i - k \in 1..Len(log') /\ log'[i - k] = log[i]
       /\ \A c \in Texts \cup Actions :
             row[c].state # "resolved" /\ row'[c].state = "resolved" /\ row'[c].effect # "blocked"
                => LinesOf(c)' # {}

LEMMA CarriedFade ==
    ASSUME NEW l \in Seq(MessageType), NEW l2, NEW k, Carries(l, l2, k),
           NEW i \in k + 1..Len(l), IsPlayer(l[i])
    PROVE  i - k \in 1..Len(l2) /\ l2[i - k] = l[i]
<1>1. k \in Nat /\ i \in Nat /\ i - k \in Nat \ {0} /\ (i - k) + k = i
  BY DEF Carries
<1>2. i \in PlayersOf(l)
  BY <1>1 DEF PlayersOf, IsPlayer
<1>3. i - k \in PlayersOf(l2)
  BY <1>1, <1>2 DEF Carries
<1> QED
  BY <1>1, <1>3 DEF Carries, PlayersOf

LEMMA LedgerStepFades ==
    ASSUME TypeInv, LedgerStep
    PROVE  FadeStep
<1>0. /\ RowTyped /\ log \in Seq(MessageType) /\ Len(log) \in Nat /\ Texts \cup Actions \subseteq Commands
      /\ LogCap \in Nat
  BY EngineAssumption DEF TypeInv, CampaignTyped, Commands
<1>s. log' = log => \E k \in 0..Len(log) :
         /\ k > 0 => k + LogCap <= Len(log) + 2
         /\ \A i \in k + 1..Len(log) :
               IsPlayer(log[i]) => i - k \in 1..Len(log') /\ log'[i - k] = log[i]
  <2>1. \A i \in 0 + 1..Len(log) : i - 0 = i /\ i \in 1..Len(log)
    BY <1>0
  <2>2. 0 \in 0..Len(log) /\ ~(0 > 0)
    BY <1>0
  <2> QED
    BY <2>1, <2>2
<1>1. CASE ~exists'
  BY <1>1 DEF FadeStep
<1>2. CASE UNCHANGED <<exists, version, events, log, row>>
  BY <1>s, <1>2 DEF FadeStep
<1>3. ASSUME NEW c \in Commands, NEW effect \in Effects, Settles(c, effect)
      PROVE  FadeStep
  <2> DEFINE l == log \o Transcript(c, effect)
  <2>1. PICK k \in 0..Len(log) :
           /\ k > 0 => k + LogCap <= Len(log) + 2
           /\ Carries(l, log', k)
           /\ c \in Texts \cup Actions =>
                 LinesOf(c)' = Faded(IF effect = "blocked" THEN LinesOf(c)
                                     ELSE LinesOf(c) \cup {Len(log) + 1}, k)
    BY <1>3, SettledLines
  <2>2. /\ l \in Seq(MessageType) /\ Len(log) <= Len(l) /\ Len(l) \in Nat
        /\ \A i \in 1..Len(log) : l[i] = log[i]
    <3>1. Transcript(c, effect) \in Seq(MessageType) /\ Len(Transcript(c, effect)) \in Nat
      BY TranscriptType
    <3> QED
      BY <1>0, <3>1, ConcatProperties
  <2> HIDE DEF l
  <2>3. ASSUME NEW i \in k + 1..Len(log), IsPlayer(log[i])
        PROVE  i - k \in 1..Len(log') /\ log'[i - k] = log[i]
    <3>1. k \in Nat /\ i \in 1..Len(log) /\ i \in k + 1..Len(l)
      BY <1>0, <2>2
    <3>2. l[i] = log[i] /\ IsPlayer(l[i])
      BY <2>2, <2>3, <3>1
    <3> QED
      BY <2>1, <2>2, <3>1, <3>2, CarriedFade
  <2>4. ASSUME NEW d \in Texts \cup Actions, row[d].state # "resolved", row'[d].state = "resolved",
               row'[d].effect # "blocked"
        PROVE  LinesOf(d)' # {}
    <3>1. row'[c] = Result(effect, VersionAfter(effect), "rules") /\ \A e \in Commands \ {c} : row'[e] = row[e]
      BY <1>0, <1>3 DEF Settles, Resolve, RowTyped
    <3>2. d = c /\ effect # "blocked"
      BY <1>0, <2>4, <3>1, RowFields
    <3>3. LinesOf(c)' = Faded(LinesOf(c) \cup {Len(log) + 1}, k)
      BY <2>1, <2>4, <3>2
    <3>4. Len(log) + 1 - k \in Nat \ {0} /\ (Len(log) + 1 - k) + k = Len(log) + 1
      BY <1>0
    <3>5. Len(log) + 1 - k \in LinesOf(c)'
      BY <3>3, <3>4 DEF Faded
    <3> QED
      BY <3>2, <3>5
  <2> QED
    BY <2>1, <2>3, <2>4 DEF FadeStep
<1>4. ASSUME NEW c \in Commands, Reserves(c)
      PROVE  FadeStep
  <2>1. log' = log /\ \A d \in Commands : row'[d].state = "resolved" => row[d].state = "resolved"
    BY <1>0, <1>4 DEF Reserves
  <2> QED
    BY <1>0, <1>s, <2>1 DEF FadeStep
<1>5. ASSUME NEW c \in Commands, NEW source, Rewords(c, source)
      PROVE  FadeStep
  <2>1. \A d \in Commands : row'[d].state = "resolved" => row[d].state = "resolved"
    BY <1>0, <1>5 DEF Rewords, RowTyped
  <2>2. PICK k \in {0, 1} : Carries(log, log', k) /\ (k = 1 => Len(log) = LogCap)
    BY <1>5, RewordedLog
  <2>3. k \in 0..Len(log) /\ (k > 0 => k + LogCap <= Len(log) + 2)
    BY <1>0, <2>2, EngineAssumption
  <2>4. \A i \in k + 1..Len(log) :
           IsPlayer(log[i]) => i - k \in 1..Len(log') /\ log'[i - k] = log[i]
    BY <1>0, <2>2, CarriedFade
  <2> QED
    BY <1>0, <2>1, <2>3, <2>4 DEF FadeStep
<1> QED
  BY <1>1, <1>2, <1>3, <1>4, <1>5 DEF LedgerStep

LEMMA LinesAreOnce ==
    ASSUME LinesInv
    PROVE  LinesInOrder
<1> SUFFICES ASSUME exists PROVE LinesInOrder
  BY DEF LinesInOrder
<1>1. ASSUME NEW c \in Texts \cup Actions
      PROVE  Cardinality(LinesOf(c)) <=
                IF row[c].state = "resolved" /\ row[c].effect # "blocked" THEN 1 ELSE 0
  <2>1. LineKept(c)
    BY DEF LinesInv, LinesKept
  <2>2. CASE LinesOf(c) = {}
    BY <2>2, FS_EmptySet
  <2>3. CASE LinesOf(c) # {}
    <3>1. PICK i : LinesOf(c) = {i}
      BY <2>1, <2>3 DEF LineKept
    <3>2. Cardinality({i}) = 1
      BY FS_Singleton
    <3>3. HasLine(c)
      BY <2>1, <2>3 DEF LineKept
    <3> QED
      BY <3>1, <3>2, <3>3 DEF HasLine
  <2> QED
    BY <2>2, <2>3
<1>2. \A c, d \in Texts \cup Actions : InOrder(c, d)
  BY DEF LinesInv, LinesKept
<1> QED
  BY <1>1, <1>2 DEF LinesInOrder, InOrder

\* What the players said stays until the cap of the transcript takes it, the
\* oldest first, and reads in the order of the events, for any number of
\* commands, narrations, retries and restarts and any cap of two messages or
\* more (appendPlayerTurn(), updateCommandNarration()).
THEOREM PlayerLinesStay == Spec => PlayerLinesKept
<1>1. Init => LinesInv
  <2> SUFFICES ASSUME Init PROVE LinesInv
    OBVIOUS
  <2>1. Len(log) = 0 /\ \A c \in Commands : row[c].state = "absent"
    BY RowFields DEF Init
  <2>2. \A c \in Texts \cup Actions : ~HasLine(c) /\ ~Committed(c) /\ LinesOf(c) = {}
    BY <2>1 DEF HasLine, Committed, LinesOf, Commands
  <2>3. LinesKept
    BY <2>2 DEF LinesKept, LineKept, InOrder
  <2> QED
    BY <2>3, InitHistory DEF LinesInv
<1>2. LinesInv /\ [Next]_vars => LinesInv'
  BY NextHistory, StepIsLedgerStep, LedgerStepKeepsLines DEF LinesInv, HistoryInv, KeptInv
<1>3. LinesInv => LinesInOrder
  BY LinesAreOnce
<1>4. LinesInv /\ [Next]_vars => FadeStep
  BY StepIsLedgerStep, LedgerStepFades DEF LinesInv, HistoryInv, KeptInv
<1>5. LinesInv /\ [Next]_vars => [exists /\ exists' =>
          /\ \E k \in 0..Len(log) :
                /\ k > 0 => k + LogCap <= Len(log) + 2
                /\ \A i \in k + 1..Len(log) :
                      IsPlayer(log[i]) => i - k \in 1..Len(log') /\ log'[i - k] = log[i]
          /\ \A c \in Texts \cup Actions :
                row[c].state # "resolved" /\ row'[c].state = "resolved" /\ row'[c].effect # "blocked"
                   => LinesOf(c)' # {}]_vars
  BY <1>4 DEF FadeStep
<1> QED
  BY <1>1, <1>2, <1>3, <1>5, PTL DEF Spec, PlayerLinesKept, LinesFade

=============================================================================
