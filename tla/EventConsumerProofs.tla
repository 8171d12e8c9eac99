------------------------- MODULE EventConsumerProofs -------------------------
(***************************************************************************)
(* Proofs about EventConsumer, for every set of events, partitions and     *)
(* consumers. The invariant says what a position means: everything before  *)
(* it has been handed to a handler, but for the message its owner is       *)
(* working on.                                                             *)
(***************************************************************************)
EXTENDS EventConsumer, TLAPS

\* A position lies between the committed offset and the end of the log.
PositionsBounded ==
  \A p \in Partition : committed[p] <= position[p] /\ position[p] <= Len(log[p])

\* What an owner has been handed is handled, but for what it is handling.
PositionMeansHanded ==
  \A p \in Partition : owner[p] # None =>
    \A i \in 1..position[p] :
      \/ At(p, i) \in handed
      \/ pc[owner[p]] = "handling" /\ msg[owner[p]] = At(p, i)

\* A message that is being handled has its predecessors behind it.
InFlightInOrder ==
  \A c \in Consumer : pc[c] = "handling" =>
    /\ msg[c] \in Place
    /\ msg[c].offset > 1 => At(msg[c].partition, msg[c].offset - 1) \in handed

Inv == /\ TypeOK /\ PositionsBounded /\ PositionMeansHanded
       /\ CommitCoversHandled /\ InFlightInOrder /\ HandedInOrder

-----------------------------------------------------------------------------
LEMMA InitInv == Init => Inv
  <1> SUFFICES ASSUME Init PROVE Inv
    OBVIOUS
  <1> USE HomeAssumption, NobodyAssumption DEF Init
  <1>1. TypeOK
    <2>1. log \in [Partition -> Seq(Event)]
      OBVIOUS
    <2> QED
      BY <2>1 DEF TypeOK
  <1>2. PositionsBounded
    BY DEF PositionsBounded
  <1>3. PositionMeansHanded
    BY DEF PositionMeansHanded
  <1>4. CommitCoversHandled
    BY DEF CommitCoversHandled
  <1>5. InFlightInOrder /\ HandedInOrder
    BY DEF InFlightInOrder, HandedInOrder
  <1> QED
    BY <1>1, <1>2, <1>3, <1>4, <1>5 DEF Inv

\* What every step that leaves the handlers alone and reassigns the
\* partitions keeps.
LEMMA AssignInv ==
  ASSUME Inv, NEW G \in SUBSET Consumer, Assign(G), UNCHANGED <<log, committed, handed>>
  PROVE  PositionsBounded' /\ PositionMeansHanded' /\ CommitCoversHandled'
  <1> USE DEF Inv
  <1>1. PositionsBounded'
    BY DEF PositionsBounded, Assign, TypeOK
  <1>2. PositionMeansHanded'
    BY DEF PositionMeansHanded, CommitCoversHandled, Assign, TypeOK, At
  <1>3. CommitCoversHandled'
    BY DEF CommitCoversHandled, At
  <1> QED
    BY <1>1, <1>2, <1>3

\* What a commit of the current assignment by a member that is not handling
\* a message covers.
LEMMA CommitPositionsInv ==
  ASSUME Inv, NEW c \in Consumer, pc[c] = "handled", CommitPositions(c),
         UNCHANGED handed
  PROVE  /\ CommitCoversHandled'
         /\ committed' \in [Partition -> Nat]
         /\ \A p \in Partition : /\ committed[p] <= committed'[p]
                                 /\ committed'[p] <= position[p]
  <1> USE DEF Inv
  <1>1. committed' \in [Partition -> Nat]
    BY DEF CommitPositions, TypeOK
  <1>2. \A p \in Partition : committed[p] <= committed'[p] /\ committed'[p] <= position[p]
    BY DEF CommitPositions, TypeOK, PositionsBounded
  <1>3. ASSUME NEW p \in Partition, NEW i \in 1..committed'[p]
        PROVE  At(p, i) \in handed
    <2>1. CASE owner[p] = c
      <3>1. c # None /\ committed'[p] = position[p]
        BY <2>1, NobodyAssumption DEF CommitPositions
      <3> QED
        BY <2>1, <3>1, <1>3 DEF PositionMeansHanded
    <2>2. CASE owner[p] # c
      <3>1. committed'[p] = committed[p]
        BY <2>2 DEF CommitPositions
      <3> QED
        BY <3>1, <1>3 DEF CommitCoversHandled
    <2> QED
      BY <2>1, <2>2
  <1>4. CommitCoversHandled'
    BY <1>3 DEF CommitCoversHandled, At
  <1> QED
    BY <1>1, <1>2, <1>4

\* A member that leaves gives its partitions back at the committed offset.
LEMMA LeaveInv ==
  ASSUME Inv, NEW c \in Consumer, Leave(c),
         CommitCoversHandled', committed' \in [Partition -> Nat],
         \A p \in Partition : committed[p] <= committed'[p] /\ committed'[p] <= position[p],
         \A p \in Partition : owner[p] # c => committed'[p] = committed[p]
  PROVE  Inv'
  <1> USE DEF Inv
  <1>1. TypeOK'
    BY NobodyAssumption DEF TypeOK, Leave
  <1>2. PositionsBounded'
    BY DEF PositionsBounded, Leave, TypeOK
  <1>3. PositionMeansHanded'
    <2> SUFFICES ASSUME NEW p \in Partition, owner'[p] # None, NEW i \in 1..position'[p],
                        At(p, i) \notin handed
                 PROVE  pc'[owner'[p]] = "handling" /\ msg'[owner'[p]] = At(p, i)
      BY DEF PositionMeansHanded, Leave, At
    <2>1. owner[p] # c /\ owner'[p] = owner[p] /\ position'[p] = position[p]
      BY DEF Leave, TypeOK
    <2>2. pc[owner[p]] = "handling" /\ msg[owner[p]] = At(p, i)
      BY <2>1 DEF PositionMeansHanded
    <2>3. owner[p] \in Consumer
      BY <2>1 DEF TypeOK
    <2> QED
      BY <2>1, <2>2, <2>3 DEF Leave, TypeOK
  <1>4. InFlightInOrder'
    <2> SUFFICES ASSUME NEW d \in Consumer, pc'[d] = "handling"
                 PROVE  /\ msg'[d] \in Place
                        /\ msg'[d].offset > 1
                             => At(msg'[d].partition, msg'[d].offset - 1) \in handed'
      BY DEF InFlightInOrder, At
    <2>1. d # c /\ pc[d] = "handling" /\ msg'[d] = msg[d] /\ handed' = handed
      BY DEF Leave, TypeOK
    <2> QED
      BY <2>1 DEF InFlightInOrder
  <1>5. HandedInOrder'
    BY DEF HandedInOrder, Leave, At
  <1> QED
    BY <1>1, <1>2, <1>3, <1>4, <1>5

LEMMA UnansweredLeaveInv ==
  ASSUME Inv, NEW c \in Consumer, Leave(c), UNCHANGED committed
  PROVE  Inv'
  <1>1. CommitCoversHandled' /\ handed' = handed
    BY DEF Inv, Leave, CommitCoversHandled, At
  <1>2. \A p \in Partition : committed[p] <= committed'[p] /\ committed'[p] <= position[p]
    BY DEF Inv, TypeOK, PositionsBounded
  <1>3. committed' \in [Partition -> Nat]
    BY DEF Inv, TypeOK
  <1> QED
    BY <1>1, <1>2, <1>3, LeaveInv

\* The end of a handler, whichever way, hands the message over for good.
LEMMA HandlerEndInv ==
  ASSUME Inv, NEW c \in Consumer, pc[c] = "handling", TypeOK',
         handed' = handed \cup {msg[c]},
         UNCHANGED <<log, committed, owner, position>>,
         pc'[c] # "handling",
         \A d \in Consumer \ {c} : pc'[d] = pc[d] /\ msg'[d] = msg[d]
  PROVE  Inv'
  <1> USE DEF Inv
  <1>1. PositionsBounded'
    BY DEF PositionsBounded
  <1>2. PositionMeansHanded'
    <2> SUFFICES ASSUME NEW p \in Partition, owner[p] # None, NEW i \in 1..position[p],
                        At(p, i) \notin handed'
                 PROVE  pc'[owner[p]] = "handling" /\ msg'[owner[p]] = At(p, i)
      BY DEF PositionMeansHanded, At
    <2>1. pc[owner[p]] = "handling" /\ msg[owner[p]] = At(p, i)
      BY DEF PositionMeansHanded
    <2>2. owner[p] \in Consumer \ {c}
      BY <2>1 DEF TypeOK
    <2> QED
      BY <2>1, <2>2
  <1>3. CommitCoversHandled'
    BY DEF CommitCoversHandled, At
  <1>4. InFlightInOrder'
    <2> SUFFICES ASSUME NEW d \in Consumer, pc'[d] = "handling"
                 PROVE  /\ msg'[d] \in Place
                        /\ msg'[d].offset > 1
                             => At(msg'[d].partition, msg'[d].offset - 1) \in handed'
      BY DEF InFlightInOrder, At
    <2>1. pc[d] = "handling" /\ msg'[d] = msg[d]
      OBVIOUS
    <2> QED
      BY <2>1 DEF InFlightInOrder
  <1>5. HandedInOrder'
    <2> SUFFICES ASSUME NEW m \in handed', m.offset > 1
                 PROVE  At(m.partition, m.offset - 1) \in handed'
      BY DEF HandedInOrder, At
    <2>1. CASE m \in handed
      BY <2>1 DEF HandedInOrder
    <2>2. CASE m = msg[c]
      BY <2>2 DEF InFlightInOrder
    <2> QED
      BY <2>1, <2>2
  <1> QED
    BY <1>1, <1>2, <1>3, <1>4, <1>5

-----------------------------------------------------------------------------
LEMMA NextInv == Inv /\ [Next]_vars => Inv'
  <1> SUFFICES ASSUME Inv, [Next]_vars PROVE Inv'
    OBVIOUS
  <1> USE DEF Inv
  <1>1. ASSUME NEW e \in Event, Produce(e) PROVE Inv'
    <2>1. Home[e] \in Partition
      BY HomeAssumption
    <2>2. log' \in [Partition -> Seq(Event)]
      BY <1>1, <2>1 DEF Produce, TypeOK
    <2>3. \A p \in Partition : Len(log[p]) <= Len(log'[p])
      BY <1>1, <2>1 DEF Produce, TypeOK
    <2>4. TypeOK'
      BY <1>1, <2>2 DEF Produce, TypeOK, groupVars, handlerVars
    <2>5. PositionsBounded'
      <3> SUFFICES ASSUME NEW p \in Partition
                   PROVE  committed[p] <= position[p] /\ position[p] <= Len(log'[p])
        BY <1>1 DEF PositionsBounded, Produce, groupVars
      <3>1. Len(log[p]) \in Nat /\ Len(log'[p]) \in Nat
        BY <2>2 DEF TypeOK
      <3> QED
        BY <2>3, <3>1 DEF PositionsBounded, TypeOK
    <2> QED
      BY <1>1, <2>4, <2>5 DEF Produce, groupVars, handlerVars, PositionMeansHanded,
         CommitCoversHandled, InFlightInOrder, HandedInOrder, At
  <1>2. ASSUME NEW c \in Consumer, Start(c) PROVE Inv'
    <2>1. Live \cup {c} \in SUBSET Consumer
      BY DEF Live
    <2>2. PositionsBounded' /\ PositionMeansHanded' /\ CommitCoversHandled'
      BY <1>2, <2>1, AssignInv DEF Start
    <2>3. TypeOK'
      BY <1>2, <2>1 DEF Start, TypeOK, Assign
    <2>4. InFlightInOrder' /\ HandedInOrder'
      BY <1>2 DEF Start, InFlightInOrder, HandedInOrder, TypeOK, At
    <2> QED
      BY <2>2, <2>3, <2>4
  <1>3. CASE Rebalance
    <2>1. Live \in SUBSET Consumer
      BY DEF Live
    <2>2. PositionsBounded' /\ PositionMeansHanded' /\ CommitCoversHandled'
      BY <1>3, <2>1, AssignInv DEF Rebalance, handlerVars
    <2>3. TypeOK'
      BY <1>3, <2>1 DEF Rebalance, TypeOK, Assign, handlerVars
    <2>4. InFlightInOrder' /\ HandedInOrder'
      BY <1>3 DEF Rebalance, handlerVars, InFlightInOrder, HandedInOrder, At
    <2> QED
      BY <2>2, <2>3, <2>4
  <1>4. ASSUME NEW c \in Consumer, NEW p \in Partition, Deliver(c, p) PROVE Inv'
    <2> USE <1>4 DEF Deliver
    <2>0. position[p] \in Nat /\ Len(log[p]) \in Nat /\ At(p, position[p] + 1) \in Place
      BY DEF TypeOK, At, Place
    <2>1. TypeOK'
      <3>1. At(p, position[p] + 1) # None
        BY <2>0, NobodyAssumption
      <3> QED
        BY <2>0, <3>1 DEF TypeOK
    <2>2. PositionsBounded'
      BY <2>0 DEF PositionsBounded, TypeOK
    <2>3. \A i \in 1..position[p] : At(p, i) \in handed
      BY NobodyAssumption DEF PositionMeansHanded
    <2>4. PositionMeansHanded'
      <3> SUFFICES ASSUME NEW q \in Partition, owner[q] # None, NEW i \in 1..position'[q],
                          At(q, i) \notin handed
                   PROVE  pc'[owner[q]] = "handling" /\ msg'[owner[q]] = At(q, i)
        BY DEF PositionMeansHanded, At
      <3>0. owner[q] \in Consumer
        BY DEF TypeOK
      <3>1. CASE q = p
        <4>1. i = position[p] + 1
          BY <2>0, <2>3, <3>1 DEF TypeOK
        <4> QED
          BY <3>0, <3>1, <4>1 DEF TypeOK
      <3>2. CASE q # p
        <4>1. position'[q] = position[q]
          BY <3>2 DEF TypeOK
        <4>2. pc[owner[q]] = "handling" /\ msg[owner[q]] = At(q, i)
          BY <4>1 DEF PositionMeansHanded
        <4> QED
          BY <3>0, <4>2 DEF TypeOK
      <3> QED
        BY <3>1, <3>2
    <2>5. CommitCoversHandled' /\ HandedInOrder'
      BY DEF CommitCoversHandled, HandedInOrder, At
    <2>6. InFlightInOrder'
      <3> SUFFICES ASSUME NEW d \in Consumer, pc'[d] = "handling"
                   PROVE  /\ msg'[d] \in Place
                          /\ msg'[d].offset > 1
                               => At(msg'[d].partition, msg'[d].offset - 1) \in handed'
        BY DEF InFlightInOrder, At
      <3>1. CASE d = c
        <4>1. msg'[d] = At(p, position[p] + 1) /\ handed' = handed
          BY <3>1 DEF TypeOK
        <4>2. At(p, position[p] + 1).offset = position[p] + 1
              /\ At(p, position[p] + 1).partition = p
          BY DEF At
        <4>3. position[p] + 1 > 1 => position[p] \in 1..position[p]
          BY <2>0
        <4> QED
          BY <2>0, <2>3, <4>1, <4>2, <4>3
      <3>2. CASE d # c
        <4>1. pc[d] = "handling" /\ msg'[d] = msg[d] /\ handed' = handed
          BY <3>2 DEF TypeOK
        <4> QED
          BY <4>1 DEF InFlightInOrder
      <3> QED
        BY <3>1, <3>2
    <2> QED
      BY <2>1, <2>2, <2>4, <2>5, <2>6
  <1>5. ASSUME NEW c \in Consumer, HandlerReturns(c) PROVE Inv'
    <2>1. msg[c] \in Place
      BY <1>5 DEF HandlerReturns, InFlightInOrder
    <2>2. TypeOK'
      BY <1>5, <2>1 DEF HandlerReturns, TypeOK, groupVars
    <2> QED
      BY <1>5, <2>2, HandlerEndInv DEF HandlerReturns, TypeOK, groupVars
  <1>6. ASSUME NEW c \in Consumer, HandlerRaises(c) PROVE Inv'
    <2>1. msg[c] \in Place
      BY <1>6 DEF HandlerRaises, InFlightInOrder
    <2>2. raised' \subseteq handed' /\ handed' \subseteq Place
      BY <1>6, <2>1 DEF HandlerRaises, TypeOK
    <2>3. TypeOK'
      BY <1>6, <2>2 DEF HandlerRaises, TypeOK, groupVars
    <2> QED
      BY <1>6, <2>3, HandlerEndInv DEF HandlerRaises, TypeOK, groupVars
  <1>7. ASSUME NEW c \in Consumer, Commit(c) PROVE Inv'
    <2>1. /\ CommitCoversHandled'
          /\ committed' \in [Partition -> Nat]
          /\ \A p \in Partition : committed[p] <= committed'[p] /\ committed'[p] <= position[p]
      BY <1>7, CommitPositionsInv DEF Commit
    <2>2. TypeOK'
      BY <1>7, <2>1 DEF Commit, TypeOK, groupVars
    <2>3. PositionsBounded'
      BY <1>7, <2>1 DEF Commit, PositionsBounded, groupVars
    <2>4. PositionMeansHanded' /\ HandedInOrder'
      <3>1. \A d \in Consumer : pc[d] = "handling" => pc'[d] = "handling" /\ msg'[d] = msg[d]
        BY <1>7 DEF Commit, TypeOK
      <3> QED
        BY <1>7, <3>1 DEF Commit, groupVars, PositionMeansHanded, HandedInOrder, TypeOK, At
    <2>5. InFlightInOrder'
      <3>1. \A d \in Consumer : pc'[d] = "handling" => pc[d] = "handling" /\ msg'[d] = msg[d]
        BY <1>7 DEF Commit, TypeOK
      <3> QED
        BY <1>7, <3>1 DEF Commit, InFlightInOrder, At
    <2> QED
      BY <2>1, <2>2, <2>3, <2>4, <2>5
  <1>8. ASSUME NEW c \in Consumer, CommitFails(c) PROVE Inv'
    <2>1. CASE CommitPositions(c)
      <3>1. /\ CommitCoversHandled'
            /\ committed' \in [Partition -> Nat]
            /\ \A p \in Partition : committed[p] <= committed'[p] /\ committed'[p] <= position[p]
        BY <1>8, <2>1, CommitPositionsInv DEF CommitFails, Leave
      <3>2. \A p \in Partition : owner[p] # c => committed'[p] = committed[p]
        BY <2>1 DEF CommitPositions
      <3> QED
        BY <1>8, <3>1, <3>2, LeaveInv DEF CommitFails
    <2>2. CASE UNCHANGED committed
      <3>1. Leave(c)
        BY <1>8 DEF CommitFails
      <3> QED
        BY <2>2, <3>1, UnansweredLeaveInv
    <2> QED
      BY <1>8, <2>1, <2>2 DEF CommitFails
  <1>9. ASSUME NEW c \in Consumer, Crash(c) PROVE Inv'
    BY <1>9, UnansweredLeaveInv DEF Crash
  <1>10. CASE CalmDown \/ UNCHANGED vars
    BY <1>10 DEF CalmDown, vars, groupVars, handlerVars, TypeOK, PositionsBounded,
       PositionMeansHanded, CommitCoversHandled, InFlightInOrder, HandedInOrder, At
  <1> QED
    BY <1>1, <1>2, <1>3, <1>4, <1>5, <1>6, <1>7, <1>8, <1>9, <1>10
    DEF Next, ConsumerStep

\* The strengthening holds in every reachable state of every group.
THEOREM InvCorrect == Safety => []Inv
  BY InitInv, NextInv, PTL DEF Safety

\* The variables of consume and of the group stay within their types.
THEOREM TypeCorrect == Safety => []TypeOK
  <1>1. Inv => TypeOK
    BY DEF Inv
  <1> QED
    BY <1>1, InvCorrect, PTL

\* However the group is rebalanced under running handlers, a message is
\* committed only after its handler has ended (commit after handler).
THEOREM CommitCoversHandledCorrect == Safety => []CommitCoversHandled
  <1>1. Inv => CommitCoversHandled
    BY DEF Inv
  <1> QED
    BY <1>1, InvCorrect, PTL

\* Messages are handed over for the first time in the order of the partition.
THEOREM HandedInOrderCorrect == Safety => []HandedInOrder
  <1>1. Inv => HandedInOrder
    BY DEF Inv
  <1> QED
    BY <1>1, InvCorrect, PTL

LEMMA NextNeverRetreats ==
  Inv /\ [Next]_vars => [\A p \in Partition : committed'[p] >= committed[p]]_committed
  <1> SUFFICES ASSUME Inv, [Next]_vars, committed' # committed
               PROVE  \A p \in Partition : committed'[p] >= committed[p]
    OBVIOUS
  <1>1. PICK c \in Consumer : CommitPositions(c) /\ pc[c] = "handled"
    BY DEF Next, ConsumerStep, Produce, Start, Rebalance, Deliver, HandlerReturns,
       HandlerRaises, Commit, CommitFails, Crash, CalmDown, vars, groupVars, handlerVars
  <1> QED
    BY <1>1 DEF CommitPositions, Inv, TypeOK, PositionsBounded

\* No commit takes back another: offsets only grow, whoever commits.
THEOREM CommitsNeverRetreatCorrect == Safety => CommitsNeverRetreat
  <1>1. Inv /\ [Next]_vars => [\A p \in Partition : committed'[p] >= committed[p]]_committed
    BY NextNeverRetreats
  <1> QED
    BY <1>1, InvCorrect, PTL DEF Safety, CommitsNeverRetreat
=============================================================================
