-------------------------- MODULE ClosedLoopProofs --------------------------
(***************************************************************************)
(* Proofs about ClosedLoop, for every set of requests, queue and gate.     *)
(***************************************************************************)
EXTENDS ClosedLoop, TLAPS

-----------------------------------------------------------------------------
(***************************************************************************)
(* Sequences.                                                              *)
(***************************************************************************)
LEMMA AppendFacts ==
    ASSUME NEW S, NEW s \in Seq(S), NEW e \in S
    PROVE  /\ Append(s, e) \in Seq(S)
           /\ Len(Append(s, e)) = Len(s) + 1
           /\ DOMAIN Append(s, e) = 1 .. Len(s) + 1
           /\ \A i \in 1 .. Len(s) : Append(s, e)[i] = s[i]
           /\ Append(s, e)[Len(s) + 1] = e
OBVIOUS

-----------------------------------------------------------------------------
(***************************************************************************)
(* The graphs that exist are well formed, and the current graph of an      *)
(* invocation is one of them.                                              *)
(***************************************************************************)
WellFormed(g) == g.edges \in Seq(Edges) /\ g.lineage \in Seq(Entries)

Working == pc \notin {"idle", "returned"}

GraphsOK ==
    /\ \A g \in disk : WellFormed(g)
    /\ Working => graph \in disk
    /\ pc = "manifest" =>
           Request \notin Ids(graph) /\ Successor(Request) \in disk

\* What is known of the request in hand.
InHand ==
    /\ pc = "append" => journal[Request] # "none" /\ ~Ledgered(Request)
    /\ pc \in {"finish", "record", "manifest"} => Ledgered(Request)

IInv == TypeOK /\ GraphsOK /\ InHand /\ ExecutedOnce /\ LineageIsLedgered

-----------------------------------------------------------------------------
\* A request in hand is a request.
LEMMA RequestInHand ==
    ASSUME TypeOK, Acting
    PROVE  Request \in Requests
<1>1. queue \in Seq(Requests) /\ next \in 1 .. Len(queue)
  <2>1. next \in 1 .. Len(queue) /\ queue # <<>>
    BY DEF TypeOK, Acting
  <2> QED
    BY <2>1, ClosedLoopAssumption DEF TypeOK
<1> QED
  BY <1>1 DEF Request

-----------------------------------------------------------------------------
\* Every step keeps the types.
LEMMA TypeNext ==
    ASSUME TypeOK, InHand, [Next]_vars
    PROVE  TypeOK'
<1> USE ClosedLoopAssumption
    DEF TypeOK, vars, world, memory, counters, prints, Verdicts, Stages, Acting
<1>1. CASE \E g \in disk, q \in Queues : Start(g, q)
  <2> PICK g \in disk, q \in Queues : Start(g, q)
    BY <1>1
  <2>1. Len(ledger) \in Nat
    OBVIOUS
  <2> QED
    BY <2>1 DEF Start
<1>2. CASE Evaluate
  BY <1>2 DEF Evaluate, Return
<1>3. CASE Probe
  BY <1>3 DEF Probe, Return
<1>4. CASE AuthorizationDenied
  BY <1>4 DEF AuthorizationDenied, Return
<1>5. CASE Recover
  BY <1>5 DEF Recover
<1>6. CASE Execute
  BY <1>6 DEF Execute, Return
<1>7. CASE AppendToLedger
  <2>1. Request \in Requests /\ journal[Request] \in {"completed", "failed"}
    BY <1>7, RequestInHand DEF AppendToLedger, Acting, InHand
  <2>2. ledger' \in Seq(Entries)
    BY <1>7, <2>1, AppendFacts DEF AppendToLedger, LedgerAppend, Entries
  <2> QED
    BY <1>7, <2>2 DEF AppendToLedger, LedgerAppend
<1>8. CASE Finish
  BY <1>8 DEF Finish
<1>9. CASE RecordGraph \/ RecordManifest \/ RecordFails
  BY <1>9 DEF RecordGraph, RecordManifest, RecordFails, Return
<1>10. CASE Advance
  BY <1>10 DEF Advance, Return, LimitReached, CycleStart
<1>11. CASE Leave
  BY <1>11 DEF Leave
<1>12. CASE Interrupt
  BY <1>12 DEF Interrupt, Return
<1>13. CASE Edit
  BY <1>13 DEF Edit, Around
<1>14. CASE \E r \in Requests : OtherExecutes(r)
  <2> PICK r \in Requests, s \in {"completed", "failed"} :
           OtherExecutes(r) /\ LedgerAppend(r, s)
    BY <1>14 DEF OtherExecutes
  <2>2. ledger' \in Seq(Entries)
    BY AppendFacts DEF LedgerAppend, Entries
  <2> QED
    BY <2>2 DEF OtherExecutes, Around, LedgerAppend, LockIsFree
<1>15. CASE \E r \in Requests : OtherRecovers(r)
  <2> PICK r \in Requests : OtherRecovers(r)
    BY <1>15
  <2>1. ledger' \in Seq(Entries) /\ verdict' \in Verdicts
    <3>1. CASE Ledgered(r)
      BY <3>1 DEF OtherRecovers
    <3>2. CASE ~Ledgered(r)
      <4>1. [node |-> r, status |-> journal[r]] \in Entries
        BY DEF OtherRecovers, Entries
      <4>2. /\ ledger' = Append(ledger, [node |-> r, status |-> journal[r]])
            /\ verdict' \in Verdicts
        BY <3>2 DEF OtherRecovers, LedgerAppend
      <4> QED
        BY <4>1, <4>2, AppendFacts
    <3> QED
      BY <3>1, <3>2
  <2> QED
    BY <2>1 DEF OtherRecovers, Around, LockIsFree
<1>16. CASE \E g \in disk, n \in Reviewed, review \in ReviewedAs :
               Review(g, n, review)
  BY <1>16 DEF Review, Around
<1>17. CASE UNCHANGED vars
  BY <1>17
<1> QED
  BY <1>1, <1>2, <1>3, <1>4, <1>5, <1>6, <1>7, <1>8, <1>9, <1>10, <1>11,
     <1>12, <1>13, <1>14, <1>15, <1>16, <1>17 DEF Next, Loop

-----------------------------------------------------------------------------
\* The ledger only grows, by the entry of an action that is not in it.
LedgerStep ==
    \/ ledger' = ledger
    \/ \E r \in Requests, s \in {"completed", "failed"} :
           /\ ~Ledgered(r)
           /\ ledger' = Append(ledger, [node |-> r, status |-> s])

LEMMA LedgerGrows ==
    ASSUME TypeOK, InHand, [Next]_vars
    PROVE  LedgerStep
<1>1. CASE AppendToLedger
  <2>1. /\ Request \in Requests /\ ~Ledgered(Request)
        /\ journal[Request] \in {"completed", "failed"}
    BY <1>1, RequestInHand DEF AppendToLedger, Acting, InHand, TypeOK
  <2> QED
    BY <1>1, <2>1 DEF AppendToLedger, LedgerAppend, LedgerStep
<1>2. CASE \E r \in Requests : OtherExecutes(r)
  BY <1>2 DEF OtherExecutes, LedgerAppend, LedgerStep
<1>3. CASE \E r \in Requests : OtherRecovers(r)
  <2> PICK r \in Requests : OtherRecovers(r)
    BY <1>3
  <2>1. journal[r] \in {"completed", "failed"}
    BY DEF OtherRecovers, TypeOK
  <2> QED
    BY <2>1 DEF OtherRecovers, LedgerAppend, LedgerStep
<1>4. CASE ~AppendToLedger /\ ~(\E r \in Requests : OtherExecutes(r))
           /\ ~(\E r \in Requests : OtherRecovers(r))
  BY <1>4 DEF Next, Loop, vars, world, LedgerStep, Start, Evaluate, Probe,
              AuthorizationDenied, Recover, Execute, Finish, RecordGraph,
              RecordManifest, RecordFails, Advance, Leave, Interrupt, Edit,
              Review
<1> QED
  BY <1>1, <1>2, <1>3, <1>4

LEMMA ExecutedOnceNext ==
    ASSUME TypeOK, ExecutedOnce, LedgerStep
    PROVE  ExecutedOnce'
<1>1. CASE ledger' = ledger
  BY <1>1 DEF ExecutedOnce
<1>2. CASE \E r \in Requests, s \in {"completed", "failed"} :
           /\ ~Ledgered(r)
           /\ ledger' = Append(ledger, [node |-> r, status |-> s])
  <2> PICK r \in Requests, s \in {"completed", "failed"} :
           /\ ~Ledgered(r)
           /\ ledger' = Append(ledger, [node |-> r, status |-> s])
    BY <1>2
  <2> DEFINE e == [node |-> r, status |-> s]
  <2>1. e \in Entries /\ ledger \in Seq(Entries)
    BY DEF Entries, TypeOK
  <2>2. /\ DOMAIN ledger' = 1 .. Len(ledger) + 1
        /\ \A i \in 1 .. Len(ledger) : ledger'[i] = ledger[i]
        /\ ledger'[Len(ledger) + 1] = e
    BY <2>1, AppendFacts
  <2>3. Len(ledger) \in Nat /\ DOMAIN ledger = 1 .. Len(ledger)
    BY <2>1
  <2>4. \A i \in 1 .. Len(ledger) : ledger[i].node # r
    BY <2>3 DEF Ledgered
  <2>5. e.node = r
    OBVIOUS
  <2> HIDE DEF e
  <2> QED
    BY <2>2, <2>3, <2>4, <2>5 DEF ExecutedOnce
<1> QED
  BY <1>1, <1>2 DEF LedgerStep

\* What is in the ledger stays there.
LEMMA LedgerKept ==
    ASSUME TypeOK, LedgerStep
    PROVE  /\ \A i \in DOMAIN ledger : i \in DOMAIN ledger' /\ ledger'[i] = ledger[i]
           /\ \A r : Ledgered(r) => Ledgered(r)'
<1>1. \A i \in DOMAIN ledger : i \in DOMAIN ledger' /\ ledger'[i] = ledger[i]
  <2>1. CASE ledger' = ledger
    BY <2>1
  <2>2. ASSUME NEW e \in Entries, ledger' = Append(ledger, e)
        PROVE  \A i \in DOMAIN ledger : i \in DOMAIN ledger' /\ ledger'[i] = ledger[i]
    <3>1. ledger \in Seq(Entries) /\ Len(ledger) \in Nat
      BY DEF TypeOK
    <3> QED
      BY <2>2, <3>1, AppendFacts
  <2> QED
    BY <2>1, <2>2 DEF LedgerStep, Entries
<1> QED
  BY <1>1 DEF Ledgered

LEMMA InHandNext ==
    ASSUME TypeOK, InHand, [Next]_vars
    PROVE  InHand'
<1> USE DEF InHand, Request, Ledgered
<1>1. CASE Execute
  <2>1. CASE Ledgered(Request) \/ Type(Request) # verdict
    BY <1>1, <2>1 DEF Execute, Return
  <2>2. CASE ~(Ledgered(Request) \/ Type(Request) # verdict)
    <3> PICK s \in {"completed", "failed"} :
             journal' = [journal EXCEPT ![Request] = s]
      BY <1>1, <2>2 DEF Execute
    <3>1. Request \in Requests
      BY <1>1, RequestInHand DEF Execute, Acting
    <3>2. /\ journal'[Request] = s /\ pc' = "append"
          /\ UNCHANGED <<queue, next, ledger>>
      BY <1>1, <2>2, <3>1 DEF Execute, TypeOK, memory
    <3> QED
      BY <2>2, <3>2
  <2> QED
    BY <2>1, <2>2
<1>2. CASE Recover
  BY <1>2 DEF Recover, world, memory
<1>3. CASE AppendToLedger
  <2>1. /\ Request \in Requests
        /\ journal[Request] \in {"completed", "failed"}
    BY <1>3, RequestInHand DEF AppendToLedger, Acting, TypeOK
  <2> DEFINE e == [node |-> Request, status |-> journal[Request]]
  <2>2. /\ ledger' = Append(ledger, e) /\ pc' = "finish"
        /\ UNCHANGED <<queue, next>>
    BY <1>3 DEF AppendToLedger, LedgerAppend, memory
  <2>3. e \in Entries /\ ledger \in Seq(Entries) /\ Len(ledger) \in Nat
    BY <2>1 DEF Entries, TypeOK
  <2>4. Len(ledger) + 1 \in DOMAIN ledger' /\ ledger'[Len(ledger) + 1] = e
    BY <2>2, <2>3, AppendFacts
  <2>5. e.node = Request
    OBVIOUS
  <2> HIDE DEF e
  <2> QED
    BY <2>2, <2>4, <2>5
<1>4. CASE Finish
  BY <1>4 DEF Finish, memory
<1>5. CASE /\ ~Execute /\ ~Recover /\ ~AppendToLedger /\ ~Finish
           /\ [Next]_vars
  BY <1>5 DEF Next, Loop, vars, world, memory, Around, LockIsFree, Start,
      Evaluate, Probe, AuthorizationDenied, RecordGraph, RecordManifest,
      RecordFails, Advance, CycleStart, Leave, Interrupt, Edit, Review, OtherExecutes, OtherRecovers, Return
<1> QED
  BY <1>1, <1>2, <1>3, <1>4, <1>5

-----------------------------------------------------------------------------
LEMMA RecordedFacts ==
    ASSUME NEW g, WellFormed(g), NEW r \in Requests,
           NEW s \in {"completed", "failed"}
    PROVE  WellFormed(Recorded(g, r, Target, s))
<1>1. Edge(r, Target, "tests", "proposal") \in Edges
  BY ClosedLoopAssumption
     DEF Edge, Edges, Relations, ProvenanceRelations, Levels
<1>2. [node |-> r, status |-> s] \in Entries
  BY DEF Entries
<1> QED
  BY <1>1, <1>2, AppendFacts DEF WellFormed, Recorded

LEMMA TransitionFacts ==
    ASSUME NEW g, WellFormed(g), NEW n \in Reviewed, NEW v \in ReviewedAs
    PROVE  WellFormed(Transition(g, n, Target, v.relation, v.verified))
<1>1. /\ Edge(n, Target, "tests", "proposal") \in Edges
      /\ \A level \in Levels : Edge(n, Target, v.relation, level) \in Edges
  BY ClosedLoopAssumption
     DEF Edge, Edges, Relations, ProvenanceRelations, InferenceRelations, Levels
<1>2. (IF v.verified THEN "domain_verified" ELSE "proposal") \in Levels
  BY DEF Levels
<1> DEFINE two == <<Edge(n, Target, "tests", "proposal"),
                    Edge(n, Target, v.relation,
                     IF v.verified THEN "domain_verified" ELSE "proposal")>>
<1>3. two \in Seq(Edges)
  BY <1>1, <1>2
<1>4. g.edges \o two \in Seq(Edges)
  BY <1>3 DEF WellFormed
<1> QED
  BY <1>4 DEF WellFormed, Transition

\* The status taken from the ledger is one.
LEMMA OutcomeFacts ==
    ASSUME TypeOK, NEW r, Ledgered(r)
    PROVE  /\ Outcome(r) \in {"completed", "failed"}
           /\ \E j \in DOMAIN ledger :
                  ledger[j] = [node |-> r, status |-> Outcome(r)]
<1> DEFINE i == CHOOSE i \in DOMAIN ledger : ledger[i].node = r
<1>1. i \in DOMAIN ledger /\ ledger[i].node = r
  BY DEF Ledgered
<1>2. ledger[i] \in Entries
  BY <1>1 DEF TypeOK
<1>3. Outcome(r) = ledger[i].status
  BY DEF Outcome
<1> HIDE DEF i
<1>4. ledger[i] = [node |-> r, status |-> Outcome(r)]
  BY <1>1, <1>2, <1>3 DEF Entries
<1> QED
  BY <1>1, <1>2, <1>3, <1>4 DEF Entries

\* The node of a request is one of its successor.
LEMMA SuccessorHasNode ==
    Request \in Ids(Successor(Request))
BY DEF Successor, Recorded, WithNode, Ids

\* What a step does to the graphs: nothing, a record, its withdrawal or a
\* review.
DiskStep ==
    \/ disk' = disk
    \/ /\ pc = "manifest" /\ pc' = "returned"
       /\ disk' = disk \ {Successor(Request)}
    \/ /\ pc = "record" /\ pc' = "manifest"
       /\ UNCHANGED <<journal, ledger, graph, queue, next>>
       /\ graph \in disk /\ Ledgered(Request)
       /\ Request \in Requests /\ Request \notin Ids(graph)
       /\ disk' = disk \cup {Successor(Request)}
    \/ \E g \in disk, n \in Reviewed, v \in ReviewedAs :
           /\ n \notin Ids(g)
           /\ UNCHANGED <<pc, ledger, graph, queue, next>>
           /\ disk' = disk \cup {Transition(g, n, Target, v.relation, v.verified)}

LEMMA DiskSteps ==
    ASSUME TypeOK, InHand, GraphsOK, [Next]_vars
    PROVE  DiskStep
<1>1. CASE RecordGraph
  <2>1. Request \in Requests /\ Ledgered(Request) /\ graph \in disk
    BY <1>1, RequestInHand DEF RecordGraph, Acting, InHand, GraphsOK, Working
  <2> QED
    BY <1>1, <2>1 DEF RecordGraph, DiskStep, memory
<1>2. CASE \E g \in disk, n \in Reviewed, review \in ReviewedAs :
               Review(g, n, review)
  BY <1>2 DEF Review, DiskStep, Around, memory
<1>3. CASE RecordFails
  BY <1>3 DEF RecordFails, DiskStep, Return
<1>4. CASE /\ ~RecordGraph /\ ~RecordFails
           /\ ~\E g \in disk, n \in Reviewed, review \in ReviewedAs :
                   Review(g, n, review)
  BY <1>4 DEF Next, Loop, vars, world, DiskStep, Start, Evaluate, Probe,
              AuthorizationDenied, Recover, Execute, AppendToLedger, Finish,
              RecordManifest, Advance, Leave, Interrupt, Edit, OtherExecutes,
              OtherRecovers
<1> QED
  BY <1>1, <1>2, <1>3, <1>4

LEMMA GraphsOKNext ==
    ASSUME TypeOK, InHand, GraphsOK, [Next]_vars
    PROVE  GraphsOK'
<1>1. \A g \in disk' : WellFormed(g)
  BY DiskSteps, RecordedFacts, TransitionFacts, OutcomeFacts
     DEF DiskStep, GraphsOK, Successor
<1>2. disk \subseteq disk' \/ pc' = "returned"
  BY DiskSteps DEF DiskStep
<1>3. Working' => graph' \in disk'
  <2>1. CASE RecordManifest
    BY <2>1 DEF RecordManifest, GraphsOK, world
  <2>2. CASE \E g \in disk, q \in Queues : Start(g, q)
    BY <2>2 DEF Start, world
  <2>3. CASE /\ ~RecordManifest
             /\ ~\E g \in disk, q \in Queues : Start(g, q)
    <3>1. Working' => Working /\ graph' = graph
      BY <2>3 DEF Next, Loop, vars, Working, Evaluate, Probe, Recover, Around,
          AuthorizationDenied, Execute, AppendToLedger, Finish, RecordGraph,
          RecordFails, Advance, Leave, Interrupt, Edit, OtherExecutes,
          OtherRecovers, Review, Return, CycleStart, LockIsFree
    <3> QED
      BY <3>1, <1>2 DEF GraphsOK, Working
  <2> QED
    BY <2>1, <2>2, <2>3
<1>4. (\A g \in disk : WellFormed(g))'
  BY <1>1 DEF WellFormed
<1>5. pc' = "manifest" =>
          (Request \notin Ids(graph) /\ Successor(Request) \in disk)'
  <2> SUFFICES ASSUME pc' = "manifest"
               PROVE  (Request \notin Ids(graph) /\ Successor(Request) \in disk)'
    OBVIOUS
  <2>1. /\ UNCHANGED <<ledger, graph, queue, next>>
        /\ RecordGraph \/ pc = "manifest"
    BY DEF Next, Loop, vars, world, memory, Start, Evaluate, Probe, Recover,
        Around, AuthorizationDenied, Execute, AppendToLedger, Finish,
        RecordGraph, RecordManifest, RecordFails, Advance, Leave, Interrupt,
        Edit, OtherExecutes, OtherRecovers, Review, Return, CycleStart,
        LockIsFree
  <2>2. (Successor(Request))' = Successor(Request) /\ Request' = Request
        /\ Ids(graph)' = Ids(graph)
    BY <2>1 DEF Successor, Outcome, Request
  <2>3. CASE RecordGraph
    <3>1. Request \notin Ids(graph) /\ Successor(Request) \in disk'
      BY <2>3 DEF RecordGraph, Return
    <3> QED
      BY <3>1, <2>2
  <2>4. CASE pc = "manifest"
    <3>1. Request \notin Ids(graph) /\ Successor(Request) \in disk'
      BY <2>4, <1>2 DEF GraphsOK
    <3> QED
      BY <3>1, <2>2
  <2> QED
    BY <2>1, <2>3, <2>4
<1> QED
  BY <1>3, <1>4, <1>5 DEF GraphsOK

LEMMA LineageNext ==
    ASSUME IInv, [Next]_vars
    PROVE  LineageIsLedgered'
<1> USE DEF IInv
<1> DEFINE Held(g) == \A i \in DOMAIN g.lineage :
                         \E j \in DOMAIN ledger : ledger[j] = g.lineage[i]
           HeldNow(g) == \A i \in DOMAIN g.lineage :
                         \E j \in DOMAIN ledger' : ledger'[j] = g.lineage[i]
<1>1. \A g : Held(g) => HeldNow(g)
  BY LedgerGrows, LedgerKept
<1>2. \A g \in disk : HeldNow(g)
  BY <1>1 DEF LineageIsLedgered
<1>3. ASSUME pc = "record", graph \in disk, Ledgered(Request),
             Request \in Requests
      PROVE  HeldNow(Successor(Request))
  <2> DEFINE e == [node |-> Request, status |-> Outcome(Request)]
             l == graph.lineage
  <2>1. /\ e \in Entries /\ l \in Seq(Entries)
        /\ \E j \in DOMAIN ledger : ledger[j] = e
    BY <1>3, OutcomeFacts DEF Entries, GraphsOK, WellFormed
  <2>2. Successor(Request).lineage = Append(l, e)
    BY DEF Successor, Recorded
  <2>3. /\ DOMAIN Append(l, e) = 1 .. Len(l) + 1
        /\ \A i \in 1 .. Len(l) : Append(l, e)[i] = l[i]
        /\ Append(l, e)[Len(l) + 1] = e
        /\ Len(l) \in Nat /\ DOMAIN l = 1 .. Len(l)
    BY <2>1, AppendFacts
  <2> HIDE DEF e, l
  <2>4. \A i \in DOMAIN Append(l, e) :
            \E j \in DOMAIN ledger : ledger[j] = Append(l, e)[i]
    <3> SUFFICES ASSUME NEW i \in 1 .. Len(l) + 1
                 PROVE  \E j \in DOMAIN ledger : ledger[j] = Append(l, e)[i]
      BY <2>3
    <3>1. CASE i = Len(l) + 1
      BY <3>1, <2>1, <2>3
    <3>2. CASE i \in 1 .. Len(l)
      <4>1. \E j \in DOMAIN ledger : ledger[j] = l[i]
        BY <3>2, <2>3, <1>3 DEF LineageIsLedgered, l
      <4> QED
        BY <4>1, <3>2, <2>3
    <3> QED
      BY <3>1, <3>2, <2>3
  <2>5. Held(Successor(Request))
    BY <2>2, <2>4
  <2> QED
    BY <2>5, <1>1
<1>4. ASSUME NEW g \in disk, NEW n, NEW v
      PROVE  HeldNow(Transition(g, n, Target, v.relation, v.verified))
  <2>1. Transition(g, n, Target, v.relation, v.verified).lineage = g.lineage
    BY DEF Transition
  <2> QED
    BY <2>1, <1>2
<1>5. \A g \in disk' : HeldNow(g)
  <2> HIDE DEF HeldNow
  <2> QED
    BY <1>2, <1>3, <1>4, DiskSteps DEF DiskStep
<1> QED
  BY <1>5 DEF LineageIsLedgered

-----------------------------------------------------------------------------
LEMMA InitIInv == Init => IInv
<1> SUFFICES ASSUME Init PROVE IInv
  OBVIOUS
<1>1. TypeOK
  BY ClosedLoopAssumption DEF Init, TypeOK, Verdicts, Stages, Acting
<1>2. GraphsOK
  <2>1. PICK g \in InitialGraphs : disk = {g}
    BY DEF Init
  <2>2. g.edges \in Seq(Edges) /\ g.lineage = <<>>
    BY ClosedLoopAssumption
  <2>3. <<>> \in Seq(Entries)
    OBVIOUS
  <2>4. ~Working /\ pc # "manifest"
    BY DEF Init, Working
  <2> HIDE DEF Init
  <2> QED
    BY <2>1, <2>2, <2>3, <2>4 DEF GraphsOK, WellFormed
<1>3. LineageIsLedgered
  BY ClosedLoopAssumption DEF Init, LineageIsLedgered
<1> QED
  BY <1>1, <1>2, <1>3 DEF Init, IInv, InHand, ExecutedOnce

LEMMA NextIInv == IInv /\ [Next]_vars => IInv'
BY TypeNext, InHandNext, GraphsOKNext, LedgerGrows, ExecutedOnceNext,
   LineageNext DEF IInv

\* The state of the loop is typed: its queue, its position in it, the ledger
\* and the open transactions.
THEOREM LoopTypes == Spec => []TypeOK
<1>1. IInv => TypeOK
  BY DEF IInv
<1> QED
  BY <1>1, InitIInv, NextIInv, PTL DEF Spec

\* No action is executed twice.
THEOREM LoopExecutesOnce == Spec => []ExecutedOnce
<1>1. IInv => ExecutedOnce
  BY DEF IInv
<1> QED
  BY <1>1, InitIInv, NextIInv, PTL DEF Spec

\* Whatever a graph on disk records is in the ledger, with that outcome.
THEOREM LoopRecordsTheLedger == Spec => []LineageIsLedgered
<1>1. IInv => LineageIsLedgered
  BY DEF IInv
<1> QED
  BY <1>1, InitIInv, NextIInv, PTL DEF Spec

-----------------------------------------------------------------------------
(***************************************************************************)
(* An invocation acts under the gate.                                      *)
(***************************************************************************)
Gated ==
    Acting \/ pc = "probe" =>
        gated = graph /\ Gate(graph) = "continue_discriminating_research"

LEMMA GatedNext ==
    ASSUME Gated, [Next]_vars
    PROVE  Gated'
<1>1. CASE Evaluate
  BY <1>1 DEF Evaluate, Gated, Acting, Return
<1>2. CASE UNCHANGED vars
  BY <1>2 DEF Gated, Acting, vars
<1>3. CASE Next /\ ~Evaluate
  BY <1>3 DEF Next, Loop, Gated, Acting, Start, Probe, AuthorizationDenied,
      Recover, Execute, AppendToLedger, Finish, RecordGraph, RecordManifest,
      RecordFails, Advance, CycleStart, Leave, Interrupt, Edit, Review,
      OtherExecutes, OtherRecovers, Around, Return, LockIsFree
<1> QED
  BY <1>1, <1>2, <1>3

\* Every cycle acts under a gate evaluated on the graph of the cycle before,
\* whatever the gate computes.
THEOREM LoopIsGated == Spec => []ActsOnGatedGraph
<1>1. Init => Gated
  BY DEF Init, Gated, Acting
<1>2. Gated /\ [Next]_vars => Gated'
  BY GatedNext
<1>3. Gated => ActsOnGatedGraph
  BY DEF Gated, ActsOnGatedGraph
<1> QED
  BY <1>1, <1>2, <1>3, PTL DEF Spec

-----------------------------------------------------------------------------
(***************************************************************************)
(* A record or a review makes a later version of a graph.                  *)
(***************************************************************************)
\* A node that is new extends the nodes.
LEMMA NewNode ==
    ASSUME NEW g, NEW n, NEW v, NEW h, h.nodes = WithNode(g, n, v)
    PROVE  /\ Ids(h) = Ids(g) \cup {n}
           /\ \A m \in Ids(g) : h.nodes[m] = g.nodes[m]
<1>1. DOMAIN h.nodes = Ids(g) \cup {n}
  BY DEF WithNode
<1>2. \A m \in Ids(g) : h.nodes[m] = g.nodes[m]
  BY DEF WithNode
<1> QED
  BY <1>1, <1>2 DEF Ids

Later(g, parent, n) ==
    Extends(g, parent) /\ Ids(g) = Ids(parent) \cup {n} /\ n \notin Ids(parent)

LEMMA RecordedIsLater ==
    ASSUME NEW g, WellFormed(g), NEW r, r \notin Ids(g), NEW t, NEW s
    PROVE  Later(Recorded(g, r, t, s), g, r)
<1> DEFINE h == Recorded(g, r, t, s)
<1>1. /\ Ids(h) = Ids(g) \cup {r}
      /\ \A m \in Ids(g) : h.nodes[m] = g.nodes[m]
  <2> DEFINE v == Node("analysis", "none", s = "completed")
  <2>1. h.nodes = WithNode(g, r, v)
    BY DEF Recorded
  <2> HIDE DEF h, v
  <2> QED
    BY <2>1, NewNode
<1>2. /\ Len(g.edges) <= Len(h.edges)
      /\ \A i \in DOMAIN g.edges : h.edges[i] = g.edges[i]
  BY DEF Recorded, WellFormed
<1>3. /\ Len(g.lineage) <= Len(h.lineage)
      /\ \A i \in DOMAIN g.lineage : h.lineage[i] = g.lineage[i]
  BY DEF Recorded, WellFormed
<1> SUFFICES Later(h, g, r)
  OBVIOUS
<1> HIDE DEF h
<1> QED
  BY <1>1, <1>2, <1>3 DEF Later, Extends

LEMMA TransitionIsLater ==
    ASSUME NEW g, WellFormed(g), NEW n, n \notin Ids(g), NEW t, NEW rel, NEW b
    PROVE  Later(Transition(g, n, t, rel, b), g, n)
<1> DEFINE h == Transition(g, n, t, rel, b)
           two == <<Edge(n, t, "tests", "proposal"),
                    Edge(n, t, rel, IF b THEN "domain_verified" ELSE "proposal")>>
<1>1. /\ Ids(h) = Ids(g) \cup {n}
      /\ \A m \in Ids(g) : h.nodes[m] = g.nodes[m]
  <2> DEFINE v == Node("analysis", "none", TRUE)
  <2>1. h.nodes = WithNode(g, n, v)
    BY DEF Transition
  <2> HIDE DEF h, v
  <2> QED
    BY <2>1, NewNode
<1>2. h.edges = g.edges \o two /\ h.lineage = g.lineage
  BY DEF Transition
<1>3. g.edges \in Seq(Edges) /\ Len(g.edges) \in Nat /\ two \in Seq({two[1], two[2]})
      /\ Len(two) \in Nat
  BY DEF WellFormed
<1>4. /\ Len(g.edges) <= Len(h.edges)
      /\ \A i \in DOMAIN g.edges : h.edges[i] = g.edges[i]
  <2> HIDE DEF two
  <2> QED
    BY <1>2, <1>3
<1>5. /\ Len(g.lineage) <= Len(h.lineage)
      /\ \A i \in DOMAIN g.lineage : h.lineage[i] = g.lineage[i]
  BY <1>2 DEF WellFormed
<1> SUFFICES Later(h, g, n)
  OBVIOUS
<1> HIDE DEF h
<1> QED
  BY <1>1, <1>4, <1>5 DEF Later, Extends

-----------------------------------------------------------------------------
(***************************************************************************)
(* What an invocation executed is in the graph it returns.                 *)
(***************************************************************************)
InLineage(i) == \E j \in DOMAIN graph.lineage : graph.lineage[j] = ledger[i]

Accounted == \A i \in base + 1 .. Len(ledger) : InLineage(i)

AccountedButRequest ==
    \A i \in base + 1 .. Len(ledger) :
        InLineage(i) \/ ledger[i].node = Request

Accounts ==
    /\ pc \in {"gate", "probe", "execute", "append", "advance"} => Accounted
    /\ pc \in {"finish", "record", "manifest"} => AccountedButRequest
    /\ status \in Ended => Accounted
    /\ pc # "returned" => status = "none"

LEMMA NotEnded == {"none", "raised", "interrupted"} \cap Ended = {}
BY ClosedLoopAssumption DEF Ended

LEMMA AccountsNext ==
    ASSUME IInv, Accounts, [Next]_vars
    PROVE  Accounts'
<1> USE NotEnded DEF IInv
<1>1. CASE \E g \in disk, q \in Queues : Start(g, q)
  <2>1. base' = Len(ledger) /\ ledger' = ledger /\ Len(ledger) \in Nat
        /\ pc' = "gate" /\ status' = "none"
    BY <1>1 DEF Start, world, Accounts, TypeOK
  <2>2. Accounted'
    BY <2>1 DEF Accounted
  <2> QED
    BY <2>1, <2>2 DEF Accounts
<1>2. CASE AppendToLedger
  <2> DEFINE e == [node |-> Request, status |-> journal[Request]]
  <2>1. e \in Entries /\ ledger \in Seq(Entries) /\ base \in Nat
    BY <1>2, RequestInHand DEF AppendToLedger, Acting, InHand, TypeOK, Entries
  <2>2. /\ ledger' = Append(ledger, e) /\ pc' = "finish"
        /\ UNCHANGED <<queue, next, base, graph, status>>
    BY <1>2 DEF AppendToLedger, LedgerAppend, memory
  <2>3. /\ Len(ledger') = Len(ledger) + 1 /\ Len(ledger) \in Nat
        /\ \A i \in 1 .. Len(ledger) : ledger'[i] = ledger[i]
        /\ ledger'[Len(ledger) + 1].node = Request
    BY <2>1, <2>2, AppendFacts
  <2> HIDE DEF e
  <2>4. Accounted /\ pc = "append"
    BY <1>2 DEF AppendToLedger, Accounts
  <2>5. AccountedButRequest'
    BY <2>1, <2>2, <2>3, <2>4 DEF AccountedButRequest, Accounted, InLineage, Request
  <2>6. status' = "none"
    BY <2>2, <2>4 DEF Accounts
  <2> QED
    BY <2>2, <2>5, <2>6 DEF Accounts
<1>3. CASE RecordManifest
  <2> DEFINE e == [node |-> Request, status |-> Outcome(Request)]
             l == graph.lineage
  <2>1. Request \in Requests /\ Ledgered(Request) /\ graph \in disk
    BY <1>3, RequestInHand DEF RecordManifest, Acting, InHand, GraphsOK, Working
  <2>2. /\ l \in Seq(Entries) /\ e \in Entries
        /\ \E j \in DOMAIN ledger : ledger[j] = e
    BY <2>1, OutcomeFacts DEF GraphsOK, WellFormed, Entries
  <2>3. /\ graph'.lineage = Append(l, e) /\ ledger' = ledger /\ base' = base
        /\ status' = status /\ pc' = "advance"
    BY <1>3 DEF RecordManifest, Successor, Recorded, memory, world
  <2>4. /\ DOMAIN Append(l, e) = 1 .. Len(l) + 1
        /\ \A i \in 1 .. Len(l) : Append(l, e)[i] = l[i]
        /\ Append(l, e)[Len(l) + 1] = e
        /\ Len(l) \in Nat /\ DOMAIN l = 1 .. Len(l)
    BY <2>2, AppendFacts
  <2>5. \A i \in DOMAIN ledger : ledger[i].node = Request => ledger[i] = e
    BY <2>2 DEF ExecutedOnce
  <2>6. AccountedButRequest /\ pc = "manifest" /\ base \in Nat
        /\ DOMAIN ledger = 1 .. Len(ledger)
    BY <1>3 DEF RecordManifest, Accounts, TypeOK
  <2> HIDE DEF e
  <2>7. \A i \in base + 1 .. Len(ledger) :
           \E j \in DOMAIN Append(l, e) : Append(l, e)[j] = ledger[i]
    <3> SUFFICES ASSUME NEW i \in base + 1 .. Len(ledger)
                 PROVE  \E j \in DOMAIN Append(l, e) : Append(l, e)[j] = ledger[i]
      OBVIOUS
    <3>1. CASE InLineage(i)
      BY <3>1, <2>4 DEF InLineage
    <3>2. CASE ledger[i].node = Request
      <4>1. i \in DOMAIN ledger
        BY <2>6
      <4>2. ledger[i] = e
        BY <3>2, <4>1, <2>5
      <4>3. Len(l) + 1 \in DOMAIN Append(l, e)
        BY <2>4
      <4> QED
        BY <4>2, <4>3, <2>4
    <3> QED
      BY <3>1, <3>2, <2>6 DEF AccountedButRequest
  <2>8. Accounted'
    BY <2>3, <2>7 DEF Accounted, InLineage
  <2> QED
    BY <2>3, <2>6, <2>8 DEF Accounts
<1>4. CASE /\ ~\E g \in disk, q \in Queues : Start(g, q)
           /\ ~AppendToLedger /\ ~RecordManifest
  <2>1. CASE pc # "idle" /\ ~Leave
    <3>1. UNCHANGED <<ledger, base, graph, queue, next>>
      BY <1>4, <2>1 DEF Next, Loop, vars, world, memory, Around, LockIsFree,
         Start, Evaluate, Probe, AuthorizationDenied, Recover, Execute, Finish,
         RecordGraph, RecordFails, Advance, Interrupt, Edit, OtherExecutes, OtherRecovers, Review
    <3>2. /\ Accounted' <=> Accounted
          /\ AccountedButRequest' <=> AccountedButRequest
      BY <3>1 DEF Accounted, AccountedButRequest, InLineage, Request
    <3>3. \/ pc' = pc /\ status' = status
          \/ pc' = "returned" /\ Accounted
          \/ pc' = "returned" /\ status' \in {"raised", "interrupted"}
          \/ status' = status /\ pc' \in {"probe", "execute", "append", "gate"}
                /\ Accounted
          \/ status' = status /\ pc' \in {"finish", "record", "manifest"}
                /\ (Accounted \/ AccountedButRequest)
      BY <1>4, <2>1 DEF Next, Loop, vars, Around, LockIsFree,
         Evaluate, Probe, AuthorizationDenied, Recover, Execute, Finish,
         RecordGraph, RecordFails, Advance, CycleStart, Interrupt, Edit, OtherExecutes, OtherRecovers,
         Review, Return, Accounts
    <3>4. pc \notin {"returned"} \/ pc' = pc
      BY <1>4, <2>1 DEF Next, Loop, vars, Around, LockIsFree,
         Evaluate, Probe, AuthorizationDenied, Recover, Execute, Finish,
         RecordGraph, RecordFails, Advance, Interrupt, Edit, OtherExecutes, OtherRecovers, Review
    <3>5. Accounted => AccountedButRequest
      BY DEF Accounted, AccountedButRequest
    <3> HIDE DEF IInv
    <3> QED
      BY <3>2, <3>3, <3>4, <3>5 DEF Accounts
  <2>2. CASE pc = "idle" \/ Leave
    <3>1. pc' = "idle" /\ status' = "none"
      BY <1>4, <2>2 DEF Next, Loop, vars, Around,
         Evaluate, Probe, AuthorizationDenied, Recover, Execute, Finish,
         RecordGraph, RecordFails, Advance, Leave, Interrupt, Edit, OtherExecutes, OtherRecovers,
         Review, Accounts
    <3> QED
      BY <3>1 DEF Accounts
  <2> QED
    BY <2>1, <2>2
<1> QED
  BY <1>1, <1>2, <1>3, <1>4

\* When an invocation returns, every action the ledger gained since it began is
\* recorded in the graph it returns.
THEOREM LoopReturnAccounts == Spec => []ReturnAccountsForActions
<1>1. Init => Accounts
  BY NotEnded DEF Init, Accounts
<1>2. IInv /\ Accounts /\ [Next]_vars => Accounts'
  BY AccountsNext
<1>3. Accounts => ReturnAccountsForActions
  BY DEF Accounts, Accounted, InLineage, ReturnAccountsForActions
<1> QED
  BY <1>1, <1>2, <1>3, InitIInv, NextIInv, PTL DEF Spec

-----------------------------------------------------------------------------
(***************************************************************************)
(* Stopping for want of progress.  The length of the ledger in a           *)
(* fingerprint grows with every execution, so a fingerprint repeats only   *)
(* in a cycle that settled an execution; and that one the ledger had       *)
(* before the invocation, whose own executions are nodes of the graph.     *)
(***************************************************************************)
LineageIsNodes ==
    \A g \in disk : \A i \in DOMAIN g.lineage : g.lineage[i].node \in Ids(g)

LEMMA LineageIsNodesNext ==
    ASSUME IInv, LineageIsNodes, [Next]_vars
    PROVE  LineageIsNodes'
<1> DEFINE Named(g) == \A i \in DOMAIN g.lineage : g.lineage[i].node \in Ids(g)
<1>1. ASSUME NEW parent \in disk, NEW n \in Reviewed, NEW v \in ReviewedAs,
             n \notin Ids(parent)
      PROVE  Named(Transition(parent, n, Target, v.relation, v.verified))
  <2> DEFINE h == Transition(parent, n, Target, v.relation, v.verified)
  <2>1. Later(h, parent, n)
    BY <1>1, TransitionIsLater DEF IInv, GraphsOK
  <2>2. h.lineage = parent.lineage
    BY DEF Transition
  <2> HIDE DEF h
  <2>3. Named(h)
    BY <2>1, <2>2 DEF Later, LineageIsNodes
  <2> QED
    BY <2>3 DEF h
<1>2. ASSUME graph \in disk, Request \notin Ids(graph)
      PROVE  Named(Successor(Request))
  <2> DEFINE h == Successor(Request)
             e == [node |-> Request, status |-> Outcome(Request)]
  <2>1. Later(h, graph, Request)
    BY <1>2, RecordedIsLater DEF IInv, GraphsOK, Successor
  <2>2. h.lineage = Append(graph.lineage, e) /\ e.node = Request
    BY DEF Successor, Recorded
  <2>3. graph.lineage \in Seq(Entries)
    BY <1>2 DEF IInv, GraphsOK, WellFormed
  <2> HIDE DEF h, e
  <2>4. \A i \in DOMAIN h.lineage :
            h.lineage[i] = e
            \/ (i \in DOMAIN graph.lineage /\ h.lineage[i] = graph.lineage[i])
    BY <2>2, <2>3
  <2>5. Named(h)
    BY <2>1, <2>2, <2>4, <1>2 DEF Later, LineageIsNodes
  <2> QED
    BY <2>5 DEF h
<1>3. \A g \in disk : Named(g)
  BY DEF LineageIsNodes
<1>4. \A g \in disk' : Named(g)
  <2> HIDE DEF Named
  <2> QED
    BY <1>1, <1>2, <1>3, DiskSteps DEF DiskStep, IInv
<1> QED
  BY <1>4 DEF LineageIsNodes, Ids

LastWasLedgered ==
    \E i \in 1 .. base : ledger[i] = graph.lineage[Len(graph.lineage)]

SeenUpTo(n) == \A p \in seen : p[2] \in Nat /\ p[2] <= n

Progress ==
    /\ pc \notin {"idle", "returned"} => base <= Len(ledger)
    /\ pc \in {"gate", "probe"} => SeenUpTo(Len(ledger))
    /\ pc \in {"execute", "append"} => before[2] = Len(ledger)
    /\ Acting \/ pc = "advance" =>
           before[2] \in Nat /\ before[2] <= Len(ledger) /\ SeenUpTo(before[2])
    /\ pc \in {"finish", "record", "manifest"} /\ before[2] = Len(ledger) =>
           Accounted
    /\ pc \in {"record", "manifest", "advance"} => after[2] = Len(ledger)
    /\ pc = "advance" /\ before[2] = Len(ledger) => LastWasLedgered
    /\ status = "stopped_no_verified_planning_progress" => LastWasLedgered
    /\ pc = "idle" => seen = {}

LEMMA RecordedWasLedgered ==
    ASSUME IInv, LineageIsNodes, Accounts, Progress, RecordManifest,
           before[2] = Len(ledger)
    PROVE  LastWasLedgered'
<1> DEFINE e == [node |-> Request, status |-> Outcome(Request)]
           l == graph.lineage
<1>1. Ledgered(Request) /\ graph \in disk /\ Request \notin Ids(graph)
  BY DEF RecordManifest, IInv, InHand, GraphsOK, Working
<1>2. PICK j \in DOMAIN ledger : ledger[j] = e
  BY <1>1, OutcomeFacts DEF IInv
<1>3. l \in Seq(Entries) /\ base \in Nat /\ DOMAIN ledger = 1 .. Len(ledger)
      /\ Len(ledger) \in Nat
  BY <1>1 DEF IInv, GraphsOK, WellFormed, TypeOK
<1>4. ~InLineage(j)
  <2>1. e.node = Request
    OBVIOUS
  <2> QED
    BY <1>1, <1>2, <2>1 DEF LineageIsNodes, InLineage
<1>5. Accounted
  BY DEF Progress, RecordManifest
<1>6. j \in 1 .. base
  BY <1>3, <1>4, <1>5 DEF Accounted
<1>7. graph'.lineage = Append(l, e) /\ ledger' = ledger /\ base' = base
  BY DEF RecordManifest, Successor, Recorded, memory, world
<1>8. graph'.lineage[Len(graph'.lineage)] = e
  BY <1>3, <1>7
<1> HIDE DEF e
<1> QED
  BY <1>2, <1>6, <1>7, <1>8 DEF LastWasLedgered

LEMMA ProgressNext ==
    ASSUME IInv, LineageIsNodes, Accounts, Progress, [Next]_vars
    PROVE  Progress'
<1>0. Len(ledger) \in Nat /\ base \in Nat
  BY DEF IInv, TypeOK
<1>1. "stopped_no_verified_planning_progress" \notin
          Refusals \cup {"none", "raised", "interrupted"}
  BY ClosedLoopAssumption
<1>2. CASE \E g \in disk, q \in Queues : Start(g, q)
  <2>1. /\ pc = "idle" /\ pc' = "gate" /\ base' = Len(ledger)
        /\ seen' = seen /\ ledger' = ledger /\ status' = "none"
    BY <1>2 DEF Start, prints, world, Accounts
  <2> QED
    BY <2>1, <1>0 DEF Progress, SeenUpTo, Acting
<1>3. CASE Probe
  <2>1. /\ pc = "probe" /\ before'[2] = Len(ledger) /\ pc' \in {"returned", "execute"}
        /\ UNCHANGED <<ledger, base, seen, graph>>
        /\ status' \in Refusals \cup {"none", "raised", "predeclared_request_required"}
    BY <1>3 DEF Probe, Return, world, memory, Fingerprint, Accounts
  <2> QED
    BY <2>1, <1>0, <1>1 DEF Progress, SeenUpTo, Acting
<1>4. CASE AppendToLedger
  <2> DEFINE e == [node |-> Request, status |-> journal[Request]]
  <2>1. e \in Entries /\ ledger \in Seq(Entries)
    BY <1>4, RequestInHand
       DEF AppendToLedger, Acting, IInv, InHand, TypeOK, Entries
  <2>2. /\ ledger' = Append(ledger, e) /\ pc = "append" /\ pc' = "finish"
        /\ UNCHANGED <<base, seen, before, status>>
        /\ status' = "none"
    BY <1>4 DEF AppendToLedger, LedgerAppend, memory, prints, Accounts
  <2>3. Len(ledger') = Len(ledger) + 1
    BY <2>1, <2>2
  <2> HIDE DEF e
  <2> QED
    BY <2>2, <2>3, <1>0 DEF Progress, SeenUpTo, Acting
<1>5. CASE Recover
  <2>1. /\ pc = "execute" /\ pc' \in {"append", "finish"}
        /\ UNCHANGED <<ledger, base, graph, seen, before, status>>
        /\ status' = "none"
    BY <1>5 DEF Recover, world, memory, prints, Accounts
  <2>2. Accounted'
    BY <2>1 DEF Accounts, Accounted, InLineage
  <2> QED
    BY <2>1, <2>2, <1>0 DEF Progress, SeenUpTo, Acting
<1>6. CASE Finish
  <2>1. /\ pc = "finish" /\ pc' = "record" /\ after'[2] = Len(ledger)
        /\ UNCHANGED <<ledger, base, graph, seen, before>>
        /\ status' = "none"
    BY <1>6 DEF Finish, memory, Fingerprint, Accounts
  <2>2. Accounted' <=> Accounted
    BY <2>1 DEF Accounted, InLineage
  <2> QED
    BY <2>1, <2>2, <1>0 DEF Progress, SeenUpTo, Acting
<1>7. CASE RecordGraph \/ RecordManifest
  <2>1. CASE RecordGraph
    <3>1. /\ pc = "record" /\ UNCHANGED <<ledger, base, graph, seen, before, after>>
          /\ \/ pc' = "returned" /\ status' = "raised"
             \/ pc' = "manifest" /\ status' = "none"
      BY <2>1 DEF RecordGraph, Return, memory, prints, Accounts
    <3>2. Accounted' <=> Accounted
      BY <3>1 DEF Accounted, InLineage
    <3> QED
      BY <3>1, <3>2, <1>0 DEF Progress, SeenUpTo, Acting
  <2>2. CASE RecordManifest
    <3>1. /\ pc = "manifest" /\ pc' = "advance" /\ status' = "none"
          /\ UNCHANGED <<ledger, base, seen, before, after>>
      BY <2>2 DEF RecordManifest, world, memory, prints, Accounts
    <3>2. before[2] = Len(ledger) => LastWasLedgered'
      BY <2>2, RecordedWasLedgered
    <3> QED
      BY <3>1, <3>2, <1>0 DEF Progress, SeenUpTo, Acting
  <2> QED
    BY <1>7, <2>1, <2>2
<1>8. CASE Advance
  <2>1. /\ pc = "advance" /\ UNCHANGED <<ledger, base, graph, before, after>>
        /\ seen' = seen \cup {after}
        /\ \/ /\ pc' = "returned" /\ (after = before \/ after \in seen)
              /\ status' = "stopped_no_verified_planning_progress"
           \/ /\ pc' = "returned"
              /\ status' \in Refusals \cup {"cycle_limit_reached"}
           \/ pc' = "gate" /\ status' = "none"
    BY <1>8 DEF Advance, Return, CycleStart, world, Accounts
  <2>2. after = before \/ after \in seen => before[2] = Len(ledger)
    BY <2>1, <1>0 DEF Progress, SeenUpTo, Acting
  <2>3. after = before \/ after \in seen => LastWasLedgered'
    BY <2>1, <2>2 DEF Progress, Acting, LastWasLedgered
  <2>4. base' <= Len(ledger') /\ \A p \in seen' : p[2] \in Nat /\ p[2] <= Len(ledger')
    BY <2>1, <1>0 DEF Progress, SeenUpTo, Acting
  <2>5. CASE pc' = "gate"
    BY <2>1, <2>4, <2>5 DEF Progress, SeenUpTo, Acting
  <2>6. CASE pc' = "returned"
    BY <2>1, <2>3, <2>6, <1>1 DEF Progress, Acting
  <2> QED
    BY <2>1, <2>5, <2>6
<1>9. CASE Evaluate \/ AuthorizationDenied \/ Interrupt \/ RecordFails
  <2>1. /\ UNCHANGED <<ledger, base, graph, seen, before, after>>
        /\ \/ /\ pc' = "returned"
              /\ status' # "stopped_no_verified_planning_progress"
           \/ pc = "gate" /\ pc' = "probe" /\ status' = "none"
    <3>1. CASE Evaluate
      <4>1. Stop(Gate(graph)) # "stopped_no_verified_planning_progress"
        BY DEF Stop
      <4> QED
        BY <3>1, <4>1 DEF Evaluate, Return, world, memory, prints, Accounts
    <3>2. CASE AuthorizationDenied
      BY <3>2 DEF AuthorizationDenied, Return, world, memory, prints
    <3>3. CASE Interrupt
      BY <3>3 DEF Interrupt, Return, world, memory, prints
    <3>4. CASE RecordFails
      BY <3>4 DEF RecordFails, Return, memory, prints
    <3> QED
      BY <1>9, <3>1, <3>2, <3>3, <3>4
  <2> QED
    BY <2>1, <1>0 DEF Progress, SeenUpTo, Acting
<1>10. CASE Leave
  <2>1. pc' = "idle" /\ status' = "none" /\ seen' = {}
    BY <1>10 DEF Leave
  <2> QED
    BY <2>1 DEF Progress, Acting
<1>11. CASE Execute
  <2>1. /\ pc = "execute" /\ UNCHANGED <<ledger, base, graph, seen, before>>
        /\ \/ pc' = "append" /\ status' = "none"
           \/ pc' = "returned" /\ status' = "raised"
    BY <1>11 DEF Execute, Return, memory, prints, Accounts
  <2> QED
    BY <2>1, <1>0 DEF Progress, SeenUpTo, Acting
<1>12. CASE \/ Edit \/ UNCHANGED vars
            \/ \E r \in Requests : OtherExecutes(r) \/ OtherRecovers(r)
            \/ \E g \in disk, n \in Reviewed, review \in ReviewedAs :
                   Review(g, n, review)
  <2>1. /\ UNCHANGED <<pc, base, graph, seen, before, after, status>>
        /\ ledger' = ledger \/ pc = "idle"
    BY <1>12 DEF Edit, OtherExecutes, OtherRecovers, Review, Around, LockIsFree,
                 vars, world, memory, prints
  <2>2. CASE ledger' = ledger
    BY <2>1, <2>2
       DEF Progress, Acting, SeenUpTo, Accounted, InLineage, LastWasLedgered
  <2>3. CASE pc = "idle"
    BY <2>1, <2>3 DEF Progress, Acting, Accounts
  <2> QED
    BY <2>1, <2>2, <2>3
<1> QED
  BY <1>2, <1>3, <1>4, <1>5, <1>6, <1>7, <1>8, <1>9, <1>10, <1>11, <1>12
     DEF Next, Loop

\* The loop stops for want of progress only after a cycle that settled an
\* execution which the ledger had before the invocation began.
THEOREM LoopStopsWithoutProgress == Spec => []NoProgressIsRecovery
<1> DEFINE I == IInv /\ Accounts /\ LineageIsNodes /\ Progress
<1>1. Init => I
  <2> SUFFICES ASSUME Init PROVE I
    OBVIOUS
  <2>1. IInv /\ Accounts
    BY InitIInv, NotEnded DEF Init, Accounts
  <2>2. LineageIsNodes
    BY ClosedLoopAssumption DEF Init, LineageIsNodes
  <2> QED
    BY <2>1, <2>2 DEF Init, Progress, Acting
<1>2. I /\ [Next]_vars => I'
  BY NextIInv, AccountsNext, LineageIsNodesNext, ProgressNext
<1>3. I => NoProgressIsRecovery
  BY DEF Progress, LastWasLedgered, NoProgressIsRecovery
<1> QED
  BY <1>1, <1>2, <1>3, PTL DEF Spec

-----------------------------------------------------------------------------
(***************************************************************************)
(* The protocol of an action.                                              *)
(***************************************************************************)
StatusIn(l, r) ==
    IF \E i \in DOMAIN l : l[i].node = r
    THEN l[CHOOSE i \in DOMAIN l : l[i].node = r].status ELSE "none"

InLedger == [r \in Requests |-> IF Ledgered(r) THEN Outcome(r) ELSE "none"]

LEMMA InLedgerIs ==
    /\ InLedger = [r \in Requests |-> StatusIn(ledger, r)]
    /\ InLedger' = [r \in Requests |-> StatusIn(ledger', r)]
BY DEF InLedger, StatusIn, Ledgered, Outcome

Grown(l, e, m) == m = Append(l, e)

\* An entry of an action that is not in the ledger changes its status only.
LEMMA StatusAppended ==
    ASSUME NEW l \in Seq(Entries), NEW e \in Entries,
           NEW r, r = e.node, NEW s, s = e.status,
           NEW m, Grown(l, e, m),
           \A i \in DOMAIN l : l[i].node # r,
           \A i, j \in DOMAIN l : l[i].node = l[j].node => i = j
    PROVE  /\ StatusIn(l, r) = "none"
           /\ StatusIn(m, r) = s
           /\ \A b : b # r => StatusIn(m, b) = StatusIn(l, b)
<1>1. e \in Entries /\ e.node = r /\ e.status = s
  OBVIOUS
<1>2. /\ DOMAIN m = 1 .. Len(l) + 1 /\ DOMAIN l = 1 .. Len(l)
      /\ \A i \in 1 .. Len(l) : m[i] = l[i]
      /\ m[Len(l) + 1] = e /\ Len(l) \in Nat
  BY AppendFacts DEF Grown
<1>3. StatusIn(l, r) = "none"
  BY DEF StatusIn
<1>4. StatusIn(m, r) = s
  <2> DEFINE i == CHOOSE i \in DOMAIN m : m[i].node = r
  <2>1. Len(l) + 1 \in DOMAIN m /\ m[Len(l) + 1].node = r
    BY <1>1, <1>2
  <2>2. i \in DOMAIN m /\ m[i].node = r
    BY <2>1
  <2>3. i = Len(l) + 1
    BY <1>2, <2>2
  <2>4. StatusIn(m, r) = m[i].status
    BY <2>1 DEF StatusIn
  <2> HIDE DEF i
  <2> QED
    BY <1>1, <1>2, <2>3, <2>4
<1>5. ASSUME NEW b, b # r PROVE StatusIn(m, b) = StatusIn(l, b)
  <2> DEFINE i == CHOOSE i \in DOMAIN m : m[i].node = b
             j == CHOOSE j \in DOMAIN l : l[j].node = b
  <2>1. \A k \in DOMAIN m :
            m[k].node = b => k \in DOMAIN l /\ l[k].node = b /\ m[k] = l[k]
    BY <1>1, <1>2, <1>5
  <2>2. \A k \in DOMAIN l : k \in DOMAIN m /\ m[k] = l[k]
    BY <1>2
  <2>3. CASE \E k \in DOMAIN l : l[k].node = b
    <3>1. j \in DOMAIN l /\ l[j].node = b
      BY <2>3
    <3>2. i \in DOMAIN m /\ m[i].node = b
      BY <2>2, <2>3
    <3>3. StatusIn(m, b) = m[i].status /\ StatusIn(l, b) = l[j].status
      BY <2>2, <2>3 DEF StatusIn
    <3> HIDE DEF i, j
    <3>4. i = j
      BY <2>1, <3>1, <3>2
    <3> QED
      BY <2>2, <3>1, <3>3, <3>4
  <2>4. CASE ~\E k \in DOMAIN l : l[k].node = b
    BY <2>1, <2>4 DEF StatusIn
  <2> QED
    BY <2>3, <2>4
<1> QED
  BY <1>3, <1>4, <1>5

LEMMA InLedgerAppended ==
    ASSUME TypeOK, ExecutedOnce, NEW r \in Requests, ~Ledgered(r),
           NEW s \in {"completed", "failed"},
           ledger' = Append(ledger, [node |-> r, status |-> s])
    PROVE  InLedger[r] = "none" /\ InLedger' = [InLedger EXCEPT ![r] = s]
<1>1. /\ StatusIn(ledger, r) = "none" /\ StatusIn(ledger', r) = s
      /\ \A b : b # r => StatusIn(ledger', b) = StatusIn(ledger, b)
  <2>1. ledger \in Seq(Entries)
    BY DEF TypeOK
  <2>2. \A i, j \in DOMAIN ledger : ledger[i].node = ledger[j].node => i = j
    BY DEF ExecutedOnce
  <2>3. \A i \in DOMAIN ledger : ledger[i].node # r
    BY DEF Ledgered
  <2>4. PICK e \in Entries :
            e.node = r /\ e.status = s /\ ledger' = Append(ledger, e)
    BY DEF Entries
  <2>5. Grown(ledger, e, ledger')
    BY <2>4 DEF Grown
  <2> QED
    BY <2>1, <2>2, <2>3, <2>4, <2>5, StatusAppended
<1> QED
  BY <1>1, InLedgerIs

\* An open transaction whose action is in the ledger was published with the
\* status the ledger has.
OpenAgrees ==
    /\ \A r \in Requests : Ledgered(r) =>
           journal[r] \in {"none", InLedger[r]}
    /\ pc = "finish" => journal[Request] # "none"

\* What a step does to the journals and the ledger.
ProtocolStep ==
    \/ UNCHANGED <<journal, ledger>>
    \/ \E r \in Requests, s \in {"completed", "failed"} :
           \/ /\ ~Ledgered(r) /\ journal[r] = "none" /\ ledger' = ledger
              /\ journal' = [journal EXCEPT ![r] = s]
           \/ /\ ~Ledgered(r) /\ journal[r] \in {"none", s}
              /\ journal' = journal
              /\ ledger' = Append(ledger, [node |-> r, status |-> s])
           \/ /\ ~Ledgered(r) /\ journal[r] = s
              /\ journal' = [journal EXCEPT ![r] = "none"]
              /\ ledger' = Append(ledger, [node |-> r, status |-> s])
           \/ /\ Ledgered(r) /\ journal[r] # "none" /\ ledger' = ledger
              /\ journal' = [journal EXCEPT ![r] = "none"]

LEMMA ProtocolSteps ==
    ASSUME TypeOK, InHand, OpenAgrees, [Next]_vars
    PROVE  ProtocolStep
<1>1. CASE Execute
  <2>1. Request \in Requests
    BY <1>1, RequestInHand DEF Execute, Acting
  <2> QED
    BY <1>1, <2>1 DEF Execute, ProtocolStep
<1>2. CASE AppendToLedger
  <2>1. /\ Request \in Requests /\ ~Ledgered(Request)
        /\ journal[Request] \in {"completed", "failed"}
    BY <1>2, RequestInHand DEF AppendToLedger, Acting, InHand, TypeOK
  <2> QED
    BY <1>2, <2>1 DEF AppendToLedger, LedgerAppend, ProtocolStep
<1>3. CASE Finish
  <2>1. /\ Request \in Requests /\ Ledgered(Request)
        /\ journal[Request] # "none"
    BY <1>3, RequestInHand DEF Finish, Acting, InHand, OpenAgrees
  <2> QED
    BY <1>3, <2>1 DEF Finish, ProtocolStep
<1>4. CASE \E r \in Requests : OtherExecutes(r)
  BY <1>4 DEF OtherExecutes, LedgerAppend, ProtocolStep
<1>5. CASE \E r \in Requests : OtherRecovers(r)
  <2> PICK r \in Requests : OtherRecovers(r)
    BY <1>5
  <2>1. journal[r] \in {"completed", "failed"}
    BY DEF OtherRecovers, TypeOK
  <2> QED
    BY <2>1 DEF OtherRecovers, LedgerAppend, ProtocolStep
<1>6. CASE /\ ~Execute /\ ~AppendToLedger /\ ~Finish
           /\ ~\E r \in Requests : OtherExecutes(r) \/ OtherRecovers(r)
  BY <1>6 DEF Next, Loop, vars, world, ProtocolStep, Start, Evaluate, Probe,
              AuthorizationDenied, Recover, RecordGraph, RecordManifest,
              RecordFails, Advance, Leave, Interrupt, Edit, Review
<1> QED
  BY <1>1, <1>2, <1>3, <1>4, <1>5, <1>6

LEMMA OpenAgreesNext ==
    ASSUME IInv, OpenAgrees, [Next]_vars
    PROVE  OpenAgrees'
<1> DEFINE Agree == \A r \in Requests :
                      journal[r] \in {"none", InLedger[r]} \/ ~Ledgered(r)
<1>1. TypeOK /\ ExecutedOnce /\ InHand
  BY DEF IInv
<1>2. \A r \in Requests : InLedger[r] = "none" <=> ~Ledgered(r)
  BY <1>1, OutcomeFacts DEF InLedger
<1>3. \A r \in Requests : InLedger'[r] = "none" <=> ~Ledgered(r)'
  <2>1. TypeOK' /\ \A r : Ledgered(r)' => Outcome(r)' # "none"
    <3>1. TypeOK'
      BY NextIInv DEF IInv
    <3>2. \A i \in DOMAIN ledger' : ledger'[i].status # "none"
      <4>1. ledger' \in Seq(Entries)
        BY <3>1 DEF TypeOK
      <4>2. \A i \in DOMAIN ledger' : ledger'[i] \in Entries
        BY <4>1
      <4>3. \A e \in Entries : e.status # "none"
        BY DEF Entries
      <4> QED
        BY <4>2, <4>3
    <3>3. ASSUME NEW r, Ledgered(r)' PROVE Outcome(r)' # "none"
      <4> DEFINE k == CHOOSE i \in DOMAIN ledger' : ledger'[i].node = r
      <4>1. k \in DOMAIN ledger'
        BY <3>3 DEF Ledgered
      <4>2. Outcome(r)' = ledger'[k].status
        BY DEF Outcome
      <4> HIDE DEF k
      <4> QED
        BY <3>2, <4>1, <4>2
    <3> QED
      BY <3>1, <3>3
  <2> QED
    BY <2>1 DEF InLedger
<1>4. \A r \in Requests :
          InLedger'[r] # "none" => journal'[r] \in {"none", InLedger'[r]}
  <2>1. \A r \in Requests :
            InLedger[r] # "none" => journal[r] \in {"none", InLedger[r]}
    BY <1>2 DEF OpenAgrees
  <2>2. CASE UNCHANGED <<journal, ledger>>
    BY <2>1, <2>2, InLedgerIs
  <2>3. ASSUME NEW r \in Requests, NEW s \in {"completed", "failed"},
               ~Ledgered(r), ledger' = Append(ledger, [node |-> r, status |-> s]),
               \/ journal' = journal /\ journal[r] \in {"none", s}
               \/ journal' = [journal EXCEPT ![r] = "none"]
        PROVE  \A b \in Requests :
                   InLedger'[b] # "none" => journal'[b] \in {"none", InLedger'[b]}
    <3>1. InLedger' = [InLedger EXCEPT ![r] = s]
      BY <1>1, <2>3, InLedgerAppended
    <3>2. DOMAIN InLedger = Requests
      BY DEF InLedger
    <3> QED
      BY <1>1, <2>1, <2>3, <3>1, <3>2 DEF TypeOK
  <2>4. ASSUME NEW r \in Requests, NEW s, ledger' = ledger,
               journal' = [journal EXCEPT ![r] = s],
               s = "none" \/ InLedger[r] = "none"
        PROVE  \A b \in Requests :
                   InLedger'[b] # "none" => journal'[b] \in {"none", InLedger'[b]}
    <3>1. InLedger' = InLedger
      BY <2>4, InLedgerIs
    <3> QED
      BY <1>1, <2>1, <2>4, <3>1 DEF TypeOK
  <2> QED
    BY <1>1, <1>2, <2>2, <2>3, <2>4, ProtocolSteps DEF ProtocolStep
<1>5. pc' = "finish" => (journal[Request] # "none")'
  <2>1. pc' = "finish" => \/ AppendToLedger \/ Recover
                          \/ /\ pc = "finish"
                             /\ UNCHANGED <<journal, queue, next>>
    BY DEF Next, Loop, vars, world, memory, Around, LockIsFree, Start, Evaluate,
        Probe, AuthorizationDenied, Execute, Finish, RecordGraph,
        RecordManifest, RecordFails, Advance, CycleStart, Leave, Interrupt, Edit, OtherExecutes, OtherRecovers,
        Review, Return
  <2>2. CASE AppendToLedger
    BY <1>1, <2>2 DEF AppendToLedger, InHand, Request, memory
  <2>3. CASE Recover
    BY <2>3 DEF Recover, Request, world, memory
  <2>4. CASE pc = "finish" /\ UNCHANGED <<journal, queue, next>>
    BY <2>4 DEF OpenAgrees, Request
  <2> QED
    BY <2>1, <2>2, <2>3, <2>4
<1> QED
  BY <1>3, <1>4, <1>5 DEF OpenAgrees

LEMMA StepKeepsProtocol ==
    ASSUME IInv, OpenAgrees, [Next]_vars
    PROVE  [Protocol!ProtocolNext]_(Protocol!protocolVars)
<1>1. TypeOK /\ ExecutedOnce /\ InHand
  BY DEF IInv
<1>2. CASE UNCHANGED <<journal, ledger>>
  <2>1. InLedger' = InLedger
    BY <1>2, InLedgerIs
  <2> QED
    BY <1>2, <2>1 DEF Protocol!protocolVars, InLedger
<1>3. ASSUME NEW r \in Requests, NEW s \in {"completed", "failed"},
             ~Ledgered(r), journal[r] = "none", ledger' = ledger,
             journal' = [journal EXCEPT ![r] = s]
      PROVE  Protocol!Publish(r, s)
  <2>1. InLedger' = InLedger /\ InLedger[r] = "none"
    BY <1>3, InLedgerIs DEF InLedger
  <2> QED
    BY <1>3, <2>1 DEF Protocol!Publish, InLedger
<1>4. ASSUME NEW r \in Requests, NEW s \in {"completed", "failed"},
             ~Ledgered(r), journal[r] \in {"none", s}, journal' = journal,
             ledger' = Append(ledger, [node |-> r, status |-> s])
      PROVE  Protocol!Execute(r, s) \/ Protocol!Commit(r)
  <2>1. InLedger[r] = "none" /\ InLedger' = [InLedger EXCEPT ![r] = s]
    BY <1>1, <1>4, InLedgerAppended
  <2> QED
    BY <1>4, <2>1 DEF Protocol!Execute, Protocol!Commit, InLedger
<1>5. ASSUME NEW r \in Requests, NEW s \in {"completed", "failed"},
             ~Ledgered(r), journal[r] = s,
             journal' = [journal EXCEPT ![r] = "none"],
             ledger' = Append(ledger, [node |-> r, status |-> s])
      PROVE  Protocol!Settle(r)
  <2>1. InLedger[r] = "none" /\ InLedger' = [InLedger EXCEPT ![r] = s]
    BY <1>1, <1>5, InLedgerAppended
  <2> QED
    BY <1>5, <2>1 DEF Protocol!Settle, InLedger
<1>6. ASSUME NEW r \in Requests, Ledgered(r), journal[r] # "none",
             ledger' = ledger, journal' = [journal EXCEPT ![r] = "none"]
      PROVE  Protocol!Close(r)
  <2>1. InLedger' = InLedger /\ InLedger[r] = journal[r]
    BY <1>6, InLedgerIs DEF OpenAgrees
  <2> QED
    BY <1>6, <2>1 DEF Protocol!Close, InLedger
<1> QED
  BY <1>1, <1>2, <1>3, <1>4, <1>5, <1>6, ProtocolSteps
     DEF ProtocolStep, Protocol!ProtocolNext, Protocol!Outcomes

\* The loop and the executors around it keep the protocol that
\* ActionTransaction keeps: what the loop reduces the transaction to is sound.
THEOREM LoopKeepsProtocol == Spec => RefinesProtocol
<1>1. Init => Protocol!ProtocolInit /\ OpenAgrees
  <2> SUFFICES ASSUME Init PROVE Protocol!ProtocolInit /\ OpenAgrees
    OBVIOUS
  <2>1. \A r : ~Ledgered(r)
    BY DEF Init, Ledgered
  <2> QED
    BY <2>1 DEF Init, Protocol!ProtocolInit, OpenAgrees
<1>2. IInv /\ OpenAgrees /\ [Next]_vars
          => [Protocol!ProtocolNext]_(Protocol!protocolVars)
  BY StepKeepsProtocol
<1>3. IInv /\ OpenAgrees /\ [Next]_vars => OpenAgrees'
  BY OpenAgreesNext
<1> QED
  BY <1>1, <1>2, <1>3, InitIInv, NextIInv, PTL
     DEF Spec, RefinesProtocol, Protocol!ProtocolSpec

-----------------------------------------------------------------------------
(***************************************************************************)
(* The graphs evolve as GraphHistory says.  A request is recorded once at  *)
(* most, for its transaction is open until just before; so a graph that    *)
(* is written is new, and only a new one is ever withdrawn.                *)
(***************************************************************************)
NotRecorded(r) ==
    \A g \in disk : \A i \in DOMAIN g.lineage : g.lineage[i].node # r

Fresh ==
    /\ \A r \in Requests : journal[r] # "none" => NotRecorded(r)
    /\ pc = "record" => NotRecorded(Request) /\ journal[Request] = "none"

\* A step records one request at most, the one in hand.
LEMMA RecordsRequest ==
    ASSUME IInv, [Next]_vars, NEW r, NotRecorded(r)
    PROVE  \/ NotRecorded(r)'
           \/ /\ pc = "record" /\ pc' = "manifest" /\ r = Request
              /\ journal' = journal
<1> DEFINE Free(g) == \A i \in DOMAIN g.lineage : g.lineage[i].node # r
<1>1. \A g \in disk : Free(g)
  BY DEF NotRecorded
<1>2. \A g \in disk : \A n, v :
          Free(Transition(g, n, Target, v.relation, v.verified))
  BY <1>1 DEF Transition
<1>3. ASSUME graph \in disk, r # Request PROVE Free(Successor(Request))
  <2> DEFINE e == [node |-> Request, status |-> Outcome(Request)]
             h == Successor(Request)
  <2>1. h.lineage = Append(graph.lineage, e) /\ e.node = Request
    BY DEF Successor, Recorded
  <2>2. graph.lineage \in Seq(Entries)
    BY <1>3 DEF IInv, GraphsOK, WellFormed
  <2> HIDE DEF h, e
  <2>3. \A i \in DOMAIN h.lineage :
            h.lineage[i] = e
            \/ (i \in DOMAIN graph.lineage /\ h.lineage[i] = graph.lineage[i])
    BY <2>1, <2>2
  <2>4. Free(h)
    BY <2>1, <2>3, <1>1, <1>3
  <2> QED
    BY <2>4 DEF h
<1>4. (\A g \in disk' : Free(g)) => NotRecorded(r)'
  BY DEF NotRecorded
<1> HIDE DEF Free
<1> QED
  BY <1>1, <1>2, <1>3, <1>4, DiskSteps DEF DiskStep, IInv

LEMMA FreshNext ==
    ASSUME IInv, OpenAgrees, Fresh, [Next]_vars
    PROVE  Fresh'
<1>1. TypeOK /\ InHand
  BY DEF IInv
<1>2. ASSUME NEW r \in Requests, journal'[r] # "none"
      PROVE  NotRecorded(r)'
  <2>1. journal[r] # "none" \/ ~Ledgered(r)
    BY <1>1, <1>2, ProtocolSteps DEF ProtocolStep, TypeOK
  <2>2. ~Ledgered(r) => NotRecorded(r)
    BY DEF IInv, LineageIsLedgered, NotRecorded, Ledgered
  <2>3. NotRecorded(r)
    BY <2>1, <2>2 DEF Fresh
  <2> QED
    BY <2>3, <1>2, RecordsRequest DEF Fresh
<1>3. ASSUME pc' = "record"
      PROVE  NotRecorded(Request)' /\ journal'[Request'] = "none"
  <2>1. /\ Request' = Request
        /\ Finish \/ (pc = "record" /\ journal' = journal)
    BY <1>3 DEF Next, Loop, vars, world, memory, Around, LockIsFree, Start,
        Evaluate, Probe, AuthorizationDenied, Recover, Execute, AppendToLedger,
        Finish, RecordGraph, RecordManifest, RecordFails, Advance, CycleStart,
        Leave, Interrupt, Edit, OtherExecutes, OtherRecovers, Review, Return,
        Request
  <2>2. NotRecorded(Request) /\ journal'[Request] = "none"
    <3>1. CASE Finish
      <4>1. Request \in Requests /\ journal[Request] # "none"
        BY <1>1, <3>1, RequestInHand DEF Finish, Acting, OpenAgrees
      <4> QED
        BY <1>1, <3>1, <4>1 DEF Finish, Fresh, TypeOK
    <3>2. CASE pc = "record" /\ journal' = journal
      BY <3>2 DEF Fresh
    <3> QED
      BY <2>1, <3>1, <3>2
  <2>3. (\A g \in disk' : \A i \in DOMAIN g.lineage : g.lineage[i].node # Request)
            => NotRecorded(Request)'
    BY <2>1 DEF NotRecorded
  <2>4. \A g \in disk' : \A i \in DOMAIN g.lineage : g.lineage[i].node # Request
    BY <1>3, <2>2, RecordsRequest DEF NotRecorded
  <2> QED
    BY <2>1, <2>2, <2>3, <2>4
<1> QED
  BY <1>2, <1>3 DEF Fresh

Pending == IF pc = "manifest" THEN {Successor(Request)} ELSE {}

LEMMA HistoryStep ==
    ASSUME IInv, Fresh, [Next]_vars
    PROVE  [History!Next]_<<disk, Pending>>
<1>1. ASSUME NEW parent, NEW g, NEW n, Later(g, parent, n)
      PROVE  History!NextVersion(g, parent)
  <2>1. /\ History!Extends(g, parent)
        /\ n \in History!Ids(g) \ History!Ids(parent)
        /\ History!Ids(g) = History!Ids(parent) \cup {n}
    BY <1>1 DEF Later, Extends, History!Extends, Ids, History!Ids
  <2> QED
    BY <2>1 DEF History!NextVersion
<1>2. DiskStep
  BY DiskSteps DEF IInv
<1>3. ASSUME UNCHANGED <<pc, ledger, graph, queue, next>>
      PROVE  Pending' = Pending
  BY <1>3 DEF Pending, Successor, Outcome, Request
<1>4. CASE /\ pc = "record" /\ pc' = "manifest" /\ graph \in disk
           /\ Request \notin Ids(graph) /\ Ledgered(Request)
           /\ UNCHANGED <<ledger, graph, queue, next>>
           /\ disk' = disk \cup {Successor(Request)}
  <2>1. Later(Successor(Request), graph, Request)
    BY <1>4, RecordedIsLater DEF IInv, GraphsOK, Successor
  <2>2. Successor(Request) \notin disk
    <3> DEFINE e == [node |-> Request, status |-> Outcome(Request)]
               h == Successor(Request)
    <3>1. h.lineage = Append(graph.lineage, e) /\ e.node = Request
      BY DEF Successor, Recorded
    <3>2. graph.lineage \in Seq(Entries)
      BY <1>4 DEF IInv, GraphsOK, WellFormed
    <3> HIDE DEF h, e
    <3>3. \E i \in DOMAIN h.lineage : h.lineage[i].node = Request
      BY <3>1, <3>2
    <3>4. h \notin disk
      BY <1>4, <3>3 DEF Fresh, NotRecorded
    <3> QED
      BY <3>4 DEF h
  <2>3. Pending = {} /\ Pending' = {Successor(Request)}
    BY <1>4 DEF Pending, Successor, Outcome, Request
  <2>4. History!NextVersion(Successor(Request), graph)
    BY <1>1, <2>1
  <2>5. History!PublishVersion
    BY <1>4, <2>2, <2>3, <2>4 DEF History!PublishVersion, Pending
  <2> QED
    BY <2>5 DEF History!Next
<1>5. CASE \E g \in disk, n \in Reviewed, v \in ReviewedAs :
           /\ n \notin Ids(g)
           /\ UNCHANGED <<pc, ledger, graph, queue, next>>
           /\ disk' = disk \cup {Transition(g, n, Target, v.relation, v.verified)}
  <2> PICK g \in disk, n \in Reviewed, v \in ReviewedAs :
           /\ n \notin Ids(g)
           /\ UNCHANGED <<pc, ledger, graph, queue, next>>
           /\ disk' = disk \cup {Transition(g, n, Target, v.relation, v.verified)}
    BY <1>5
  <2>1. Later(Transition(g, n, Target, v.relation, v.verified), g, n)
    BY TransitionIsLater DEF IInv, GraphsOK
  <2>2. History!NextVersion(Transition(g, n, Target, v.relation, v.verified), g)
    BY <1>1, <2>1
  <2>3. Pending' = Pending
    BY <1>3
  <2>4. History!AddVersion
    BY <2>2, <2>3 DEF History!AddVersion, Pending
  <2> QED
    BY <2>4 DEF History!Next
<1>6. CASE /\ pc = "manifest" /\ pc' = "returned"
           /\ disk' = disk \ {Successor(Request)}
  <2>1. Pending = {Successor(Request)} /\ Pending' = {}
    BY <1>6 DEF Pending
  <2> QED
    BY <1>6, <2>1 DEF History!Next, History!Withdraw, Pending
<1>7. CASE disk' = disk
  <2>1. CASE pc' = "manifest"
    <3>1. UNCHANGED <<pc, ledger, graph, queue, next>> \/ RecordGraph
      BY <2>1 DEF Next, Loop, vars, world, memory, Around, LockIsFree, Start,
        Evaluate, Probe, AuthorizationDenied, Recover, Execute, AppendToLedger,
        Finish, RecordGraph, RecordManifest, RecordFails, Advance, CycleStart,
        Leave, Interrupt, Edit, OtherExecutes, OtherRecovers, Review, Return
    <3>2. CASE RecordGraph
      <4>1. /\ pc = "record" /\ Request \notin Ids(graph)
            /\ UNCHANGED <<ledger, graph, queue, next>>
            /\ disk' = disk \cup {Successor(Request)}
        BY <2>1, <3>2 DEF RecordGraph, Return, memory
      <4>2. graph \in disk /\ Ledgered(Request)
        BY <4>1 DEF IInv, GraphsOK, Working, InHand
      <4> QED
        BY <2>1, <4>1, <4>2, <1>4
    <3>3. CASE UNCHANGED <<pc, ledger, graph, queue, next>>
      BY <1>3, <1>7, <3>3
    <3> QED
      BY <3>1, <3>2, <3>3
  <2>2. CASE pc' # "manifest"
    <3>1. Pending' = {}
      BY <2>2 DEF Pending
    <3> QED
      BY <1>7, <3>1 DEF History!Next, History!Settle, Pending
  <2> QED
    BY <2>1, <2>2
<1> QED
  BY <1>2, <1>4, <1>5, <1>6, <1>7 DEF DiskStep

\* Records and reviews only ever add a later version of a graph, and a record
\* that fails takes nothing back but the version it added: recorded history is
\* not rewritten.
THEOREM LoopImplementsHistory == Spec => RefinesHistory
<1> DEFINE I == IInv /\ OpenAgrees /\ Fresh
<1>1. Init => I /\ History!Init
  <2> SUFFICES ASSUME Init PROVE I /\ History!Init
    OBVIOUS
  <2>1. OpenAgrees /\ Fresh
    BY DEF Init, OpenAgrees, Ledgered, Fresh
  <2>2. History!Init
    BY DEF Init, History!Init
  <2> QED
    BY <2>1, <2>2, InitIInv
<1>2. I /\ [Next]_vars => I'
  BY NextIInv, OpenAgreesNext, FreshNext
<1>3. I /\ [Next]_vars => [History!Next]_<<disk, Pending>>
  BY HistoryStep
<1> QED
  BY <1>1, <1>2, <1>3, PTL DEF Spec, RefinesHistory, History!Spec, Pending

-----------------------------------------------------------------------------
(***************************************************************************)
(* How long an invocation is.                                              *)
(***************************************************************************)
\* Loop steps count down, the others do not count up.
LEMMA Countdown ==
    ASSUME TypeOK, TypeOK', [Next]_vars
    PROVE  /\ StepsLeft \in 0 .. 8 * MaxCycles + 1
           /\ Loop => StepsLeft' < StepsLeft
           /\ pc # "idle" => StepsLeft' <= StepsLeft
<1>1. /\ MaxCycles \in Nat \ {0} /\ cycle \in 1 .. MaxCycles
      /\ cycle' \in 1 .. MaxCycles /\ pc \in Stages /\ pc' \in Stages
  BY ClosedLoopAssumption DEF TypeOK
<1>2. StepsLeft \in 0 .. 8 * MaxCycles + 1
  BY <1>1 DEF StepsLeft, Stages
<1>3. pc' = "returned" /\ Working => StepsLeft' < StepsLeft
  BY <1>1 DEF StepsLeft, Stages, Working
<1>4. ASSUME Evaluate PROVE StepsLeft' < StepsLeft
  BY <1>1, <1>3, <1>4 DEF Evaluate, Return, Working, StepsLeft, memory
<1>5. ASSUME Probe PROVE StepsLeft' < StepsLeft
  BY <1>1, <1>3, <1>5 DEF Probe, Return, Working, StepsLeft, memory
<1>6. ASSUME AuthorizationDenied PROVE StepsLeft' < StepsLeft
  BY <1>3, <1>6 DEF AuthorizationDenied, Return, Working
<1>7. ASSUME Recover PROVE StepsLeft' < StepsLeft
  BY <1>1, <1>7 DEF Recover, StepsLeft, memory
<1>8. ASSUME Execute PROVE StepsLeft' < StepsLeft
  BY <1>1, <1>3, <1>8 DEF Execute, Return, Working, StepsLeft, memory
<1>9. ASSUME AppendToLedger PROVE StepsLeft' < StepsLeft
  BY <1>1, <1>9 DEF AppendToLedger, StepsLeft, memory
<1>10. ASSUME Finish PROVE StepsLeft' < StepsLeft
  BY <1>1, <1>10 DEF Finish, StepsLeft, memory
<1>11. ASSUME RecordGraph \/ RecordManifest PROVE StepsLeft' < StepsLeft
  BY <1>1, <1>3, <1>11
     DEF RecordGraph, RecordManifest, Return, Working, StepsLeft, memory
<1>12. ASSUME Advance PROVE StepsLeft' < StepsLeft
  BY <1>1, <1>3, <1>12 DEF Advance, Return, Working, StepsLeft, CycleStart
<1>13. ASSUME Leave PROVE StepsLeft' < StepsLeft
  BY <1>13 DEF Leave, StepsLeft
<1>14. CASE Loop
  <2>1. StepsLeft \in Nat /\ StepsLeft' \in Nat
    BY <1>1 DEF StepsLeft, Stages
  <2> QED
    BY <1>2, <1>4, <1>5, <1>6, <1>7, <1>8, <1>9, <1>10, <1>11, <1>12, <1>13,
       <1>14, <2>1 DEF Loop
<1>15. CASE [Next]_vars /\ ~Loop
  <2>1. \/ pc = "idle"
        \/ pc' = pc /\ cycle' = cycle
        \/ pc' = "returned" /\ Working
    BY <1>15 DEF Next, vars, memory, Start, Interrupt, RecordFails, Return, Working,
        Edit, OtherExecutes, OtherRecovers, Review, Around
  <2>2. StepsLeft \in Nat /\ StepsLeft' \in Nat
    BY <1>1 DEF StepsLeft, Stages
  <2>3. pc' = pc /\ cycle' = cycle => StepsLeft' = StepsLeft
    BY DEF StepsLeft
  <2> QED
    BY <1>2, <1>3, <1>15, <2>1, <2>2, <2>3
<1> QED
  BY <1>2, <1>14, <1>15

\* An invocation takes at most 8 * MaxCycles + 1 steps, and each brings it
\* nearer to its end, whatever everybody else does meanwhile.
THEOREM LoopIsBounded ==
    Spec => [](StepsLeft \in 0 .. 8 * MaxCycles + 1) /\ EndIsNearer
<1>1. IInv => TypeOK
  BY DEF IInv
<1>2. IInv => StepsLeft \in 0 .. 8 * MaxCycles + 1
  BY ClosedLoopAssumption DEF IInv, TypeOK, StepsLeft, Stages
<1>3. IInv /\ IInv' /\ [Next]_vars =>
          /\ Loop => StepsLeft' < StepsLeft
          /\ pc # "idle" => StepsLeft' <= StepsLeft
  BY <1>1, Countdown DEF IInv
<1> QED
  BY <1>2, <1>3, InitIInv, NextIInv, PTL DEF Spec, EndIsNearer
=============================================================================
