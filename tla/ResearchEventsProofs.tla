------------------------ MODULE ResearchEventsProofs ------------------------
(***************************************************************************)
(* What one admissible append preserves of a ledger, for every number of   *)
(* events, identifiers, costs and every budget.  These are facts about the *)
(* operators of ResearchEvents alone; ResearchLedgerProofs lifts them to   *)
(* the concurrent system.                                                  *)
(***************************************************************************)
EXTENDS ResearchEvents, FiniteSetTheorems, SequenceTheorems, TLAPS

\* What the ledger file must satisfy for the next append to be checked
\* correctly: the three properties, and a charged set that can be counted.
Kept(l) ==
    /\ l \in Seq(Event)
    /\ l # <<>>
    /\ IsFiniteSet(CostUnits(l))
    /\ BudgetKept(l)
    /\ IdsUnique(l)
    /\ StopLast(l)

\* A request is one event, or an action followed by the stop it requires
\* (the additions the append functions hand to _append_events_locked).
LEMMA RequestShape ==
    ASSUME NEW r \in AppendRequest
    PROVE  /\ r \in Seq(Event)
           /\ r # <<>>
           /\ r[1] \in Event
           /\ r[1].kind # "objective_registered"
           /\ \/ Len(r) = 1
              \/ /\ Len(r) = 2
                 /\ r[1].kind = "action_recorded"
                 /\ r[2] = Stop
<1> USE BudgetAssumption DEF Event, AllIds, Kinds
<1>1. CASE \E i \in HypothesisIds : r = <<Hypothesis(i)>>
  BY <1>1 DEF Hypothesis
<1>2. CASE \E i \in EvidenceIds : r = <<Evidence(i)>>
  BY <1>2 DEF Evidence
<1>3. CASE \E i \in ActionIds, k \in Costs : r = <<Action(i, k)>>
  BY <1>3 DEF Action
<1>4. CASE \E i \in ActionIds, k \in Costs : r = <<Action(i, k), Stop>>
  <2>1. PICK i \in ActionIds, k \in Costs : r = <<Action(i, k), Stop>>
    BY <1>4
  <2>2. Action(i, k) \in Event /\ Stop \in Event
    BY DEF Action, Stop
  <2>3. r \in Seq(Event) /\ Len(r) = 2 /\ r[1] = Action(i, k) /\ r[2] = Stop
    BY <2>1, <2>2
  <2>4. r # <<>>
    BY <2>3
  <2>5. r[1].kind = "action_recorded"
    BY <2>3 DEF Action
  <2> QED
    BY <2>2, <2>3, <2>4, <2>5
<1>5. CASE r = <<Stop>>
  BY <1>5 DEF Stop
<1> QED
  BY <1>1, <1>2, <1>3, <1>4, <1>5 DEF AppendRequest

\* The positions of a list that one or two events are added to.
LEMMA PositionSplit ==
    ASSUME NEW a \in Nat, NEW b, b = 1 \/ b = 2
    PROVE  /\ 1 .. a \subseteq 1 .. a + b
           /\ a + 1 \in 1 .. a + b
           /\ \A n \in 1 .. a + b :
                  n \in 1 .. a \/ n = a + 1 \/ (b = 2 /\ n = a + 2)
  OBVIOUS

\* Where the events of a request end up in the longer ledger.
LEMMA AppendedEntries ==
    ASSUME NEW l \in Seq(Event), l # <<>>, NEW r \in AppendRequest
    PROVE  /\ l \o r \in Seq(Event)
           /\ l \o r # <<>>
           /\ DOMAIN l = 1 .. Len(l)
           /\ DOMAIN (l \o r) = 1 .. Len(l) + Len(r)
           /\ Len(l \o r) = Len(l) + Len(r)
           /\ \A n \in DOMAIN l : (l \o r)[n] = l[n]
           /\ (l \o r)[Len(l) + 1] = r[1]
           /\ Len(r) = 2 => (l \o r)[Len(l) + 2] = Stop
<1>1. /\ r \in Seq(Event)
      /\ Len(r) = 1 \/ (Len(r) = 2 /\ r[2] = Stop)
  BY RequestShape
<1>2. /\ l \o r \in Seq(Event)
      /\ Len(l \o r) = Len(l) + Len(r)
      /\ \A i \in 1 .. Len(l) + Len(r) :
             (l \o r)[i] = IF i <= Len(l) THEN l[i] ELSE r[i - Len(l)]
  BY <1>1, ConcatProperties
<1>3. Len(l) \in Nat /\ Len(l) > 0 /\ DOMAIN l = 1 .. Len(l)
  BY EmptySeq, LenProperties
<1>4. DOMAIN (l \o r) = 1 .. Len(l) + Len(r) /\ l \o r # <<>>
  BY <1>1, <1>2, <1>3, LenProperties, EmptySeq
<1>5. (l \o r)[Len(l) + 1] = r[1]
  BY <1>1, <1>2, <1>3
<1>6. Len(r) = 2 => (l \o r)[Len(l) + 2] = Stop
  BY <1>1, <1>2, <1>3
<1>7. \A n \in DOMAIN l : (l \o r)[n] = l[n]
  <2> SUFFICES ASSUME NEW n \in 1 .. Len(l)
               PROVE  (l \o r)[n] = l[n]
    BY <1>3
  <2>1. n \in 1 .. Len(l) + Len(r) /\ n <= Len(l)
    BY <1>1, <1>3, PositionSplit
  <2> QED
    BY <1>2, <2>1
<1> QED
  BY <1>2, <1>3, <1>4, <1>5, <1>6, <1>7

\* The actions of the longer ledger are those of the shorter one and the new
\* one, if the request records one.
LEMMA AppendedActions ==
    ASSUME NEW l \in Seq(Event), l # <<>>, NEW r \in AppendRequest
    PROVE  Entries(l \o r, "action_recorded") =
               IF r[1].kind = "action_recorded"
               THEN Entries(l, "action_recorded") \cup {Len(l) + 1}
               ELSE Entries(l, "action_recorded")
<1>1. Len(l) \in Nat
  BY LenProperties
<1>2. Len(r) = 1 \/ Len(r) = 2
  BY RequestShape
<1>3. Stop.kind # "action_recorded"
  BY DEF Stop
<1>4. \A n \in 1 .. Len(l) + Len(r) :
          n \in 1 .. Len(l) \/ n = Len(l) + 1 \/ (Len(r) = 2 /\ n = Len(l) + 2)
  BY <1>1, <1>2, PositionSplit
<1>5. Len(l) + 1 \in 1 .. Len(l) + Len(r)
  BY <1>1, <1>2, PositionSplit
<1>6. 1 .. Len(l) \subseteq 1 .. Len(l) + Len(r)
  BY <1>1, <1>2, PositionSplit
<1> QED
  BY <1>1, <1>3, <1>4, <1>5, <1>6, AppendedEntries DEF Entries

\* An identifier is not registered twice: the append was checked against the
\* very ledger it extends.
LEMMA AppendKeepsIds ==
    ASSUME NEW l, Kept(l), NEW r \in AppendRequest, Admissible(l, r)
    PROVE  IdsUnique(l \o r)
<1>1. l \in Seq(Event) /\ l # <<>> /\ Len(l) \in Nat
  BY LenProperties DEF Kept
<1>2. Len(r) = 1 \/ (Len(r) = 2 /\ r[1].kind = "action_recorded")
  BY RequestShape
<1>3. \A n \in DOMAIN l :
          l[n].kind # "research_stopped"
          /\ ~(l[n].kind = r[1].kind /\ l[n].id = r[1].id)
  BY DEF Admissible, Stopped, Entries, EventIds
<1>4. \A m, n \in DOMAIN l :
          (l[m].kind = l[n].kind /\ l[m].id = l[n].id) => m = n
  BY DEF Kept, IdsUnique
<1>5. Stop.kind = "research_stopped"
  BY DEF Stop
<1>6. \A n \in 1 .. Len(l) + Len(r) :
          n \in 1 .. Len(l) \/ n = Len(l) + 1 \/ (Len(r) = 2 /\ n = Len(l) + 2)
  BY <1>1, <1>2, PositionSplit
<1> QED
  BY <1>1, <1>2, <1>3, <1>4, <1>5, <1>6, AppendedEntries DEF IdsUnique

\* A stop is only ever the last event.
LEMMA AppendKeepsStop ==
    ASSUME NEW l, Kept(l), NEW r \in AppendRequest, Admissible(l, r)
    PROVE  StopLast(l \o r)
<1>1. l \in Seq(Event) /\ l # <<>> /\ Len(l) \in Nat
  BY LenProperties DEF Kept
<1>2. Len(r) = 1 \/ (Len(r) = 2 /\ r[1].kind = "action_recorded")
  BY RequestShape
<1>3. \A n \in DOMAIN l : l[n].kind # "research_stopped"
  BY DEF Admissible, Stopped, Entries
<1>4. \A n \in 1 .. Len(l) + Len(r) :
          n \in 1 .. Len(l) \/ n = Len(l) + 1 \/ (Len(r) = 2 /\ n = Len(l) + 2)
  BY <1>1, <1>2, PositionSplit
<1> QED
  BY <1>1, <1>2, <1>3, <1>4, AppendedEntries DEF StopLast

\* The budget: one more action, and exactly the cost units it was checked for.
LEMMA AppendKeepsBudget ==
    ASSUME NEW l, Kept(l), NEW r \in AppendRequest, Admissible(l, r)
    PROVE  IsFiniteSet(CostUnits(l \o r)) /\ BudgetKept(l \o r)
<1> DEFINE k == r[1].cost
           new == {Len(l) + 1} \X (1 .. k)
<1>1. l \in Seq(Event) /\ l # <<>> /\ Len(l) \in Nat /\ DOMAIN l = 1 .. Len(l)
  BY LenProperties DEF Kept
<1>2. k \in Nat
  BY RequestShape DEF Event
<1>3. \A n \in DOMAIN l : (l \o r)[n] = l[n]
  BY <1>1, AppendedEntries
<1>4. (l \o r)[Len(l) + 1] = r[1]
  BY <1>1, AppendedEntries
<1>5. IsFiniteSet(Entries(l, "action_recorded"))
  <2>1. IsFiniteSet(1 .. Len(l))
    BY <1>1, FS_Interval
  <2> QED
    BY <1>1, <2>1, FS_Subset DEF Entries
<1>6. ActionsUsed(l) \in Nat /\ CostUsed(l) \in Nat
  BY <1>5, FS_CardinalityType DEF Kept, ActionsUsed, CostUsed
<1>7. ActionsUsed(l) <= MaxActions /\ CostUsed(l) <= MaxCost
  BY DEF Kept, BudgetKept
<1>8. CASE r[1].kind # "action_recorded"
  <2>1. Entries(l \o r, "action_recorded") = Entries(l, "action_recorded")
    BY <1>1, <1>8, AppendedActions
  <2>2. CostUnits(l \o r) = CostUnits(l)
    BY <1>3, <2>1 DEF CostUnits, Entries
  <2> QED
    BY <1>7, <2>1, <2>2 DEF Kept, BudgetKept, ActionsUsed, CostUsed
<1>9. CASE r[1].kind = "action_recorded"
  <2>1. /\ Entries(l \o r, "action_recorded") =
               Entries(l, "action_recorded") \cup {Len(l) + 1}
        /\ Len(l) + 1 \notin Entries(l, "action_recorded")
    BY <1>1, <1>9, AppendedActions DEF Entries
  <2>2. ActionsUsed(l \o r) = ActionsUsed(l) + 1
    BY <1>5, <2>1, FS_AddElement DEF ActionsUsed
  <2>3. CostUnits(l \o r) = CostUnits(l) \cup new
    BY <1>3, <1>4, <2>1 DEF CostUnits, Entries
  <2>4. CostUnits(l) \cap new = {}
    BY <2>1 DEF CostUnits
  <2>5. IsFiniteSet(new) /\ Cardinality(new) = k
    <3>1. IsFiniteSet(1 .. k) /\ Cardinality(1 .. k) = k
      <4> HIDE DEF k
      <4> QED
        BY <1>2, FS_Interval
    <3>2. IsFiniteSet({Len(l) + 1}) /\ Cardinality({Len(l) + 1}) = 1
      BY FS_Singleton
    <3>3. /\ IsFiniteSet(new)
          /\ Cardinality(new) = Cardinality({Len(l) + 1}) * Cardinality(1 .. k)
      BY <3>1, <3>2, FS_Product
    <3> QED
      BY <1>2, <3>1, <3>2, <3>3
  <2>6. IsFiniteSet(CostUnits(l))
    BY DEF Kept
  <2>7. /\ IsFiniteSet(CostUnits(l \o r))
        /\ CostUsed(l \o r) = CostUsed(l) + k
    <3>1. /\ IsFiniteSet(CostUnits(l) \cup new)
          /\ Cardinality(CostUnits(l) \cup new) =
                 Cardinality(CostUnits(l)) + Cardinality(new)
                 - Cardinality(CostUnits(l) \cap new)
      BY <2>5, <2>6, FS_Union
    <3>2. Cardinality(CostUnits(l) \cap new) = 0
      BY <2>4, FS_EmptySet
    <3> HIDE DEF new, k
    <3> QED
      BY <1>2, <1>6, <2>3, <2>5, <3>1, <3>2 DEF CostUsed
  <2>8. ActionsUsed(l) < MaxActions /\ CostUsed(l) + k <= MaxCost
    BY <1>9 DEF Admissible
  <2> HIDE DEF k
  <2> QED
    BY <1>2, <1>6, <2>2, <2>7, <2>8, BudgetAssumption DEF BudgetKept
<1> QED
  BY <1>8, <1>9

\* One append, checked against the ledger it extends, keeps everything.
THEOREM AppendKeeps ==
    ASSUME NEW l, Kept(l), NEW r \in AppendRequest, Admissible(l, r)
    PROVE  Kept(l \o r)
<1>1. l \in Seq(Event) /\ l # <<>>
  BY DEF Kept
<1> QED
  BY <1>1, AppendedEntries, AppendKeepsIds, AppendKeepsStop, AppendKeepsBudget
     DEF Kept
=============================================================================
