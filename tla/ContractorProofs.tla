-------------------------- MODULE ContractorProofs --------------------------
(***************************************************************************)
(* Theorems about the client of Contractor, for every set of tasks,        *)
(* attempts, bids and scores.                                              *)
(***************************************************************************)
EXTENDS Contractor, SequenceTheorems, TLAPS

\* Which suspension point the session loop may be at, given what it still has
\* to write or to save.
LoopShape ==
  /\ registered => pc \in {"select", "respond", "flush", "save"}
  /\ pc \in {"respond", "flush"} => registered
  /\ pc = "respond" <=> responses # {}
  /\ pc = "flush" => outbox # <<>>
  /\ pc = "save" => learningDirty

TypeInv == TypeOK /\ LoopShape

USE DEF GoOn, AfterBranch

\* Removing the element at k shifts the later ones down by one.
LEMMA RemoveAtProperties ==
  ASSUME NEW S, NEW s \in Seq(S), NEW k \in 1..Len(s)
  PROVE  /\ RemoveAt(s, k) \in Seq(S)
         /\ Len(RemoveAt(s, k)) = Len(s) - 1
         /\ \A j \in 1..(Len(s) - 1) :
              RemoveAt(s, k)[j] = IF j < k THEN s[j] ELSE s[j + 1]
<1> DEFINE a == SubSeq(s, 1, k - 1)
           b == SubSeq(s, k + 1, Len(s))
<1>1. a \in Seq(S) /\ Len(a) = k - 1 /\ \A j \in 1..(k - 1) : a[j] = s[j]
  BY SubSeqProperties, LenProperties
<1>2. b \in Seq(S) /\ Len(b) = Len(s) - k
                   /\ \A j \in 1..(Len(s) - k) : b[j] = s[k + j]
  BY SubSeqProperties, LenProperties
<1>3. /\ a \o b \in Seq(S)
      /\ Len(a \o b) = Len(a) + Len(b)
      /\ \A j \in 1..(Len(a) + Len(b)) :
           (a \o b)[j] = IF j <= Len(a) THEN a[j] ELSE b[j - Len(a)]
  <2> HIDE DEF a, b
  <2> QED BY <1>1, <1>2, ConcatProperties
<1>4. RemoveAt(s, k) = a \o b
  BY DEF RemoveAt
<1>5. ASSUME NEW j \in 1..(Len(s) - 1)
      PROVE  (a \o b)[j] = IF j < k THEN s[j] ELSE s[j + 1]
  <2> HIDE DEF a, b
  <2>1. CASE j < k
    BY <2>1, <1>1, <1>2, <1>3, LenProperties
  <2>2. CASE ~(j < k)
    <3>1. j - (k - 1) \in 1..(Len(s) - k)
      BY <2>2, LenProperties
    <3>2. b[j - (k - 1)] = s[k + (j - (k - 1))]
      BY <3>1, <1>2
    <3>3. k + (j - (k - 1)) = j + 1
      BY LenProperties
    <3> QED BY <2>2, <3>2, <3>3, <1>1, <1>2, <1>3, LenProperties
  <2> QED BY <2>1, <2>2
<1> HIDE DEF a, b
<1> QED BY <1>1, <1>2, <1>3, <1>4, <1>5, LenProperties

-----------------------------------------------------------------------------
(* Types.                                                                  *)

LEMMA WithoutType ==
  ASSUME NEW S, NEW s \in Seq(S), NEW K \in SUBSET DOMAIN s
  PROVE  Without(s, K) \in Seq(S)
<1>1. CASE K = {}
  BY <1>1 DEF Without
<1>2. CASE K # {}
  <2>1. (CHOOSE k \in K : TRUE) \in 1..Len(s)
    BY <1>2, LenProperties
  <2> QED BY <1>2, <2>1, RemoveAtProperties DEF Without
<1> QED BY <1>1, <1>2

LEMMA StartNextType ==
  ASSUME NEW c \in [Ids -> Commitments \cup {None}],
         NEW q \in Seq(Ids),
         NEW w \in Work \cup {None},
         StartNext(c, q, w)
  PROVE  /\ commitments' \in [Ids -> Commitments \cup {None}]
         /\ queue' \in Seq(Ids)
         /\ active' \in Work \cup {None}
<1>1. CASE w # None
  BY <1>1 DEF StartNext
<1>2. CASE w = None /\ \A k \in DOMAIN q : c[q[k]] = None
  <2>1. commitments' = c /\ queue' = <<>> /\ active' = None
    BY <1>2 DEF StartNext
  <2> QED BY <2>1, EmptySeq
<1>3. CASE w = None /\ \E k \in DOMAIN q : c[q[k]] # None
  <2>1. PICK k \in DOMAIN q :
          /\ c[q[k]] # None
          /\ commitments' = [c EXCEPT ![q[k]].stage = "Running"]
          /\ queue' = SubSeq(q, k + 1, Len(q))
          /\ active' = [id |-> q[k], attempt |-> c[q[k]].attempt]
    BY <1>3 DEF StartNext
  <2>2. k \in 1..Len(q) /\ q[k] \in Ids
    BY LenProperties
  <2>3. c[q[k]] \in Commitments
    BY <2>1, <2>2
  <2>4. [c[q[k]] EXCEPT !.stage = "Running"] \in Commitments
    BY <2>3 DEF Commitments, Stages
  <2>5. commitments' \in [Ids -> Commitments \cup {None}]
    BY <2>1, <2>2, <2>4
  <2>6. queue' \in Seq(Ids)
    BY <2>1, <2>2, SubSeqProperties, LenProperties
  <2>7. active' \in Work
    BY <2>1, <2>2, <2>3 DEF Work, Commitments
  <2> QED BY <2>5, <2>6, <2>7
<1> QED BY <1>1, <1>2, <1>3
LEMMA ProposedType ==
  ASSUME TypeOK, NEW offers \in Offers, NEW choice \in Decisions
  PROVE  /\ Proposed(commitments, offers, choice) \in [Ids -> Commitments \cup {None}]
         /\ Replies(commitments, offers, choice) \subseteq Responses
<1>1. PICK S \in SUBSET Ids : offers \in [S -> Attempts]
  BY DEF Offers
<1>2. \A i \in Considered(commitments, offers) : i \in Ids /\ offers[i] \in Attempts
  BY <1>1 DEF Considered
<1>3. \A i \in Ids : choice[i] \in Bids \cup {None}
  BY DEF Decisions
<1>4. market # None => \A i \in Ids : market[i] \in Scores \cup {NoScore}
  BY DEF TypeOK, Snapshots
<1>5. \A i \in Ids : (IF market = None THEN NoScore ELSE market[i]) \in Scores \cup {NoScore}
  BY <1>4
<1>6. ASSUME NEW i \in Ids, i \in Considered(commitments, offers), choice[i] # None
      PROVE  [attempt |-> offers[i], bid |-> choice[i],
              score |-> IF market = None THEN NoScore ELSE market[i],
              timed |-> FALSE, stage |-> "Pending"] \in Commitments
  BY <1>2, <1>3, <1>5, <1>6 DEF Commitments, Stages
<1>7. \A i \in Ids : commitments[i] \in Commitments \cup {None}
  BY DEF TypeOK
<1>8. Proposed(commitments, offers, choice) \in [Ids -> Commitments \cup {None}]
  BY <1>6, <1>7 DEF Proposed
<1>9. \A i \in Considered(commitments, offers) : Reply(i, choice[i]) \in Responses
  BY <1>2, <1>3 DEF Reply, Responses
<1> QED BY <1>8, <1>9 DEF Replies

LEMMA RepricedType ==
  ASSUME TypeOK, NEW s \in Snapshots \cup {None}, NEW choice \in Decisions
  PROVE  /\ Repriced(commitments, s, choice) \in [Ids -> Commitments \cup {None}]
         /\ Revisions(commitments, s, choice) \subseteq Responses
<1>1. \A i \in Ids : choice[i] \in Bids \cup {None} /\ commitments[i] \in Commitments \cup {None}
  BY DEF Decisions, TypeOK
<1>2. \A i \in Moved(commitments, s) : /\ i \in Ids
                                       /\ commitments[i] \in Commitments
                                       /\ s[i] \in Scores \cup {NoScore}
  BY <1>1 DEF Moved, In, Snapshots
<1>3. ASSUME NEW i \in Moved(commitments, s), choice[i] # None
      PROVE  [commitments[i] EXCEPT !.bid = choice[i], !.score = s[i]] \in Commitments
  BY <1>1, <1>2, <1>3 DEF Commitments
<1>4. Repriced(commitments, s, choice) \in [Ids -> Commitments \cup {None}]
  BY <1>1, <1>3 DEF Repriced
<1>5. \A i \in Moved(commitments, s) : choice[i] # None => Reply(i, choice[i]) \in Responses
  BY <1>1, <1>2 DEF Reply, Responses
<1> QED BY <1>4, <1>5 DEF Revisions

LEMMA InitType == Init => TypeInv
  BY EmptySeq DEF Init, NoCommitments, TypeInv, TypeOK, LoopShape, PCs, Waits

\* Every step that goes through the end of the session loop's body has the
\* loop's shape again.
LEMMA GoOnShape ==
  ASSUME GoOn, registered', learningDirty' \in BOOLEAN
  PROVE  LoopShape' /\ pc' \in PCs
  BY DEF LoopShape, PCs, Waits

LEMMA StepType == TypeInv /\ [Next]_vars => TypeInv'
<1> SUFFICES ASSUME TypeInv, [Next]_vars PROVE TypeInv'
  OBVIOUS
<1> USE DEF TypeInv
<1>1. CASE Launch
  BY <1>1 DEF Launch, TypeOK, LoopShape, PCs, Waits
<1>2. ASSUME Exit PROVE TypeInv'
  BY <1>2, EmptySeq DEF Exit, NoCommitments, TypeOK, LoopShape, PCs, Waits
<1>3. CASE Interrupt \/ Evicted
  BY <1>2, <1>3 DEF Interrupt, Evicted
<1>4. CASE Connect
  BY <1>4 DEF Connect, TypeOK, LoopShape, PCs, Waits
<1>5. CASE Retry
  BY <1>5 DEF Retry, TypeOK, LoopShape, PCs, Waits
<1>6. CASE Disconnect \/ SendFails
  <2>1. EndSession
    BY <1>6 DEF Disconnect, SendFails
  <2>2. commitments' \in [Ids -> Commitments \cup {None}]
    BY <2>1 DEF EndSession, ContractsOnly, TypeOK
  <2> QED BY <2>1, <2>2 DEF EndSession, TypeOK, LoopShape, PCs, Waits
<1>7. CASE SendRegister
  BY <1>7 DEF SendRegister, TypeOK, LoopShape, PCs, Waits
<1>8. CASE SendResult
  <2>1. outbox' \in Seq(Results)
    BY <1>8, HeadTailProperties DEF SendResult, TypeOK, LoopShape
  <2>2. LoopShape' /\ pc' \in PCs
    BY <1>8, GoOnShape DEF SendResult, TypeOK, LoopShape
  <2> QED BY <1>8, <2>1, <2>2 DEF SendResult, TypeOK
<1>9. CASE SaveLearning
  BY <1>9 DEF SaveLearning, TypeOK, LoopShape, PCs, Waits
<1>10. ASSUME NEW m \in responses, SendResponse(m) PROVE TypeInv'
  <2>1. LoopShape' /\ pc' \in PCs
    BY <1>10, GoOnShape DEF SendResponse, TypeOK, LoopShape
  <2> QED BY <1>10, <2>1 DEF SendResponse, TypeOK
<1>11. ASSUME NEW offers \in Offers, NEW choice \in Decisions, registered',
              UNCHANGED registered \/ registered' = TRUE,
              Consider(offers, choice)
       PROVE  TypeInv'
  <2>1. LoopShape' /\ pc' \in PCs
    BY <1>11, GoOnShape DEF Consider, TypeOK
  <2>2. registered' \in BOOLEAN
    BY <1>11 DEF TypeOK
  <2> QED BY <1>11, <2>1, <2>2, ProposedType DEF Consider, TypeOK
<1>12. ASSUME NEW offers \in Offers, NEW choice \in Decisions, Registered(offers, choice)
       PROVE  TypeInv'
  BY <1>12, <1>11 DEF Registered
<1>13. ASSUME NEW i \in Ids, NEW a \in Attempts, NEW choice \in Decisions, Cfp(i, a, choice)
       PROVE  TypeInv'
  <2>1. [j \in {i} |-> a] \in Offers
    <3>1. {i} \in SUBSET Ids /\ [j \in {i} |-> a] \in [{i} -> Attempts]
      OBVIOUS
    <3> QED BY <3>1 DEF Offers
  <2> QED BY <1>13, <1>11, <2>1 DEF Cfp
<1>14. ASSUME NEW i \in Ids, AcceptProposal(i) PROVE TypeInv'
  <2> DEFINE c == [commitments EXCEPT ![i].stage = "Awarded"]
  <2>1. c \in [Ids -> Commitments \cup {None}]
    BY <1>14 DEF AcceptProposal, In, TypeOK, Commitments, Stages
  <2>2. Append(queue, i) \in Seq(Ids)
    BY AppendProperties DEF TypeOK
  <2>3. StartNext(c, Append(queue, i), active)
    BY <1>14 DEF AcceptProposal
  <2>4. /\ commitments' \in [Ids -> Commitments \cup {None}]
        /\ queue' \in Seq(Ids)
        /\ active' \in Work \cup {None}
    <3> HIDE DEF c
    <3> QED BY <2>1, <2>2, <2>3, StartNextType DEF TypeOK
  <2>5. LoopShape' /\ pc' \in PCs
    BY <1>14, GoOnShape DEF AcceptProposal, TypeOK
  <2> QED BY <1>14, <2>4, <2>5 DEF AcceptProposal, TypeOK
<1>15. ASSUME NEW i \in Ids, BidDeclined(i) PROVE TypeInv'
  <2>1. LoopShape' /\ pc' \in PCs
    BY <1>15, GoOnShape DEF BidDeclined, TypeOK
  <2> QED BY <1>15, <2>1 DEF BidDeclined, TypeOK
<1>16. ASSUME NEW i \in Ids, NEW graded \in BOOLEAN, Settled(i, graded) PROVE TypeInv'
  <2>1. LoopShape' /\ pc' \in PCs
    BY <1>16, GoOnShape DEF Settled, TypeOK
  <2>2. queue' \in Seq(Ids) /\ outbox' \in Seq(Results)
    BY <1>16, WithoutType DEF Settled, TypeOK, QueuedAt, PostedAt
  <2>3. closed' \subseteq Ids \X Attempts
    BY <1>16 DEF Settled, TypeOK, Commitments
  <2> QED BY <1>16, <2>1, <2>2, <2>3 DEF Settled, TypeOK
<1>17. ASSUME Continue, pc \in Waits, UNCHANGED <<registered, learningDirty>>,
              UNCHANGED responses \/ (pc = "select" /\ registered)
       PROVE  LoopShape' /\ pc' \in PCs
  <2>1. CASE pc = "select" /\ registered
    BY <1>17, <2>1, GoOnShape DEF Continue, TypeOK
  <2>2. CASE pc = "select" /\ ~registered
    BY <1>17, <2>2 DEF Continue, LoopShape, PCs, Waits, TypeOK
  <2>3. CASE pc # "select"
    BY <1>17, <2>3 DEF Continue, LoopShape, PCs, Waits, TypeOK
  <2> QED BY <2>1, <2>2, <2>3 DEF TypeOK
<1>18. ASSUME NEW type \in {"INFORM", "FAILURE"}, FinishWork(type) PROVE TypeInv'
  <2>1. LoopShape' /\ pc' \in PCs
    BY <1>18, <1>17 DEF FinishWork
  <2>2. active \in Work /\ active.id \in Ids /\ active.attempt \in Attempts
    BY <1>18 DEF FinishWork, TypeOK, Work
  <2>3. CASE Ours(active)
    <3> DEFINE c == Completed(commitments, active.id, type)
               m == [type |-> type, id |-> active.id, attempt |-> active.attempt]
    <3>1. commitments[active.id] \in Commitments
      BY <2>2, <2>3 DEF Ours, TypeOK
    <3>2. c \in [Ids -> Commitments \cup {None}]
      BY <2>2, <3>1 DEF TypeOK, Commitments, Stages, Completed
    <3>3. StartNext(c, queue, None) /\ outbox' = Append(outbox, m)
      BY <1>18, <2>3 DEF FinishWork
    <3>4. m \in Results
      BY <2>2 DEF Results
    <3>5. /\ commitments' \in [Ids -> Commitments \cup {None}]
          /\ queue' \in Seq(Ids)
          /\ active' \in Work \cup {None}
          /\ outbox' \in Seq(Results)
      <4> HIDE DEF c, m
      <4> QED BY <3>2, <3>3, <3>4, StartNextType, AppendProperties DEF TypeOK
    <3> QED BY <1>18, <2>1, <3>5 DEF FinishWork, TypeOK
  <2>4. CASE ~Ours(active)
    BY <1>18, <2>1, <2>4, StartNextType DEF FinishWork, TypeOK
  <2> QED BY <2>3, <2>4
<1>19. CASE WorkerStops
  <2>1. LoopShape' /\ pc' \in PCs
    BY <1>19, <1>17 DEF WorkerStops
  <2> QED BY <1>19, <2>1, StartNextType DEF WorkerStops, TypeOK
<1>20. ASSUME NEW s \in Snapshots \cup {None}, NEW choice \in Decisions,
              MarketChanges(s, choice)
       PROVE  TypeInv'
  <2>1. LoopShape' /\ pc' \in PCs
    BY <1>20, <1>17 DEF MarketChanges
  <2> QED BY <1>20, <2>1, RepricedType DEF MarketChanges, TypeOK
<1>21. CASE MarketExpires
  BY <1>21 DEF MarketExpires, TypeOK, LoopShape, PCs, Waits
<1>22. CASE UNCHANGED vars
  BY <1>22 DEF vars, TypeOK, LoopShape, PCs, Waits
<1> QED
  BY <1>1, <1>3, <1>4, <1>5, <1>6, <1>7, <1>8, <1>9, <1>10, <1>12, <1>13, <1>14,
     <1>15, <1>16, <1>18, <1>19, <1>20, <1>21, <1>22
     DEF Next, RunLoop, Writes, Receives, Background

\* Every state the client reaches has the right types: in particular the
\* outbox is not empty when its front is written and removed.
THEOREM TypeCorrect == Spec => []TypeOK
<1>1. TypeInv => TypeOK
  BY DEF TypeInv
<1> QED BY <1>1, InitType, StepType, PTL DEF Spec
-----------------------------------------------------------------------------
(* The queue and the worker.                                               *)

LEMMA QueuedAreAwarded ==
  ASSUME NEW c, NEW q \in Seq(Ids), QueueMatches(c, q), NEW k \in DOMAIN q
  PROVE  k \in 1..Len(q) /\ q[k] \in Ids /\ In(c, q[k], {"Awarded"})
<1>1. k \in 1..Len(q) /\ q[k] \in Ids
  BY LenProperties
<1> QED BY <1>1 DEF QueueMatches

LEMMA EmptyQueueMatches ==
  ASSUME NEW c, NEW q \in Seq(Ids), QueueMatches(c, q), \A k \in DOMAIN q : c[q[k]] = None
  PROVE  q = <<>> /\ \A i \in Ids : ~In(c, i, {"Awarded"})
<1>1. \A k \in DOMAIN q : FALSE
  BY QueuedAreAwarded DEF In
<1>2. q = <<>>
  BY <1>1, LenProperties, EmptySeq
<1> QED BY <1>1, <1>2 DEF QueueMatches

\* Starting the next task takes the first of the queue, and leaves the worker
\* idle only if there is none.
LEMMA StartNextContracts ==
  ASSUME NEW c \in [Ids -> Commitments \cup {None}],
         NEW q \in Seq(Ids),
         NEW w \in Work \cup {None},
         QueueMatches(c, q),
         StartNext(c, q, w)
  PROVE  /\ QueueMatches(commitments', queue')
         /\ w = None /\ active' = None => queue' = <<>>
         /\ w # None => commitments' = c /\ queue' = q /\ active' = w
         /\ w = None => \/ commitments' = c /\ active' = None
                        \/ \E i \in Ids :
                             /\ In(c, i, {"Awarded"})
                             /\ commitments' = [c EXCEPT ![i] = [c[i] EXCEPT !.stage = "Running"]]
                             /\ active' = [id |-> i, attempt |-> c[i].attempt]
<1>1. CASE w # None
  BY <1>1 DEF StartNext
<1>2. CASE w = None /\ \A k \in DOMAIN q : c[q[k]] = None
  <2>1. q = <<>> /\ \A i \in Ids : ~In(c, i, {"Awarded"})
    BY <1>2, EmptyQueueMatches
  <2>2. commitments' = c /\ queue' = q /\ active' = None
    BY <1>2, <2>1 DEF StartNext
  <2> QED BY <1>2, <2>1, <2>2
<1>3. CASE w = None /\ \E k \in DOMAIN q : c[q[k]] # None
  <2>1. PICK k \in DOMAIN q :
          /\ \A j \in 1..(k - 1) : c[q[j]] = None
          /\ commitments' = [c EXCEPT ![q[k]].stage = "Running"]
          /\ queue' = SubSeq(q, k + 1, Len(q))
          /\ active' = [id |-> q[k], attempt |-> c[q[k]].attempt]
    BY <1>3 DEF StartNext
  <2>2. DOMAIN q = 1..Len(q) /\ Len(q) \in Nat
    BY LenProperties
  <2>3. k = 1
    <3>1. CASE k > 1
      <4>1. 1 \in DOMAIN q /\ 1 \in 1..(k - 1)
        BY <2>2, <3>1
      <4> QED BY <2>1, <4>1, QueuedAreAwarded DEF In
    <3> QED BY <3>1, <2>2
  <2> DEFINE i == q[1]
  <2>4. i \in Ids /\ In(c, i, {"Awarded"})
    BY <2>3, QueuedAreAwarded
  <2>5. commitments' = [c EXCEPT ![i] = [c[i] EXCEPT !.stage = "Running"]]
    BY <2>1, <2>3
  <2>6. /\ queue' \in Seq(Ids)
        /\ Len(queue') = Len(q) - 1
        /\ \A j \in 1..(Len(q) - 1) : queue'[j] = q[j + 1]
    <3>1. queue' = SubSeq(q, 2, Len(q))
      BY <2>1, <2>3
    <3> QED BY <2>2, <2>3, <3>1, SubSeqProperties
  <2>7. DOMAIN queue' = 1..(Len(q) - 1)
    BY <2>6, LenProperties
  <2>8. \A j, k2 \in DOMAIN queue' : queue'[j] = queue'[k2] => j = k2
    <3> SUFFICES ASSUME NEW j \in DOMAIN queue', NEW k2 \in DOMAIN queue', queue'[j] = queue'[k2]
                 PROVE  j = k2
      OBVIOUS
    <3>1. q[j + 1] = q[k2 + 1] /\ j + 1 \in DOMAIN q /\ k2 + 1 \in DOMAIN q
      BY <2>2, <2>6, <2>7
    <3>2. j + 1 = k2 + 1
      BY <3>1 DEF QueueMatches
    <3> QED BY <3>2, <2>2, <2>7
  <2>9. ASSUME NEW t \in Ids
        PROVE  In(commitments', t, {"Awarded"}) <=> \E j \in DOMAIN queue' : queue'[j] = t
    <3>1. CASE t = i
      <4>1. ~In(commitments', t, {"Awarded"})
        BY <2>4, <2>5, <3>1 DEF In, Commitments
      <4>2. \A j \in DOMAIN queue' : queue'[j] # t
        <5> SUFFICES ASSUME NEW j \in DOMAIN queue', queue'[j] = t PROVE FALSE
          OBVIOUS
        <5>1. q[j + 1] = q[1] /\ j + 1 \in DOMAIN q /\ 1 \in DOMAIN q
          BY <2>2, <2>3, <2>6, <2>7, <3>1
        <5>2. j + 1 = 1
          BY <5>1 DEF QueueMatches
        <5> QED BY <5>2, <2>7, <2>2
      <4> QED BY <4>1, <4>2
    <3>2. CASE t # i
      <4>1. In(commitments', t, {"Awarded"}) <=> In(c, t, {"Awarded"})
        BY <2>4, <2>5, <3>2 DEF In
      <4>2. (\E j \in DOMAIN queue' : queue'[j] = t) <=> \E j \in DOMAIN q : q[j] = t
        <5>1. ASSUME NEW j \in DOMAIN queue', queue'[j] = t PROVE \E l \in DOMAIN q : q[l] = t
          <6>1. j + 1 \in DOMAIN q /\ q[j + 1] = t
            BY <2>2, <2>6, <2>7, <5>1
          <6> QED BY <6>1
        <5>2. ASSUME NEW j \in DOMAIN q, q[j] = t PROVE \E l \in DOMAIN queue' : queue'[l] = t
          <6>1. j # 1
            BY <3>2, <5>2
          <6>2. j - 1 \in DOMAIN queue' /\ queue'[j - 1] = q[(j - 1) + 1] /\ (j - 1) + 1 = j
            BY <2>2, <2>6, <2>7, <6>1
          <6> QED BY <6>2, <5>2
        <5> QED BY <5>1, <5>2
      <4> QED BY <4>1, <4>2 DEF QueueMatches
    <3> QED BY <3>1, <3>2
  <2>10. QueueMatches(commitments', queue')
    BY <2>8, <2>9 DEF QueueMatches
  <2>11. active' = [id |-> i, attempt |-> c[i].attempt] /\ active' # None
    <3>1. active' \in Work
      BY <2>1, <2>3, <2>4 DEF Work, Commitments, In
    <3> QED BY <2>1, <2>3, <3>1, NoneAssumption
  <2> QED BY <1>3, <2>4, <2>5, <2>10, <2>11
<1> QED BY <1>1, <1>2, <1>3
\* An award appends its task to the queue.
LEMMA AppendMatches ==
  ASSUME NEW c \in [Ids -> Commitments \cup {None}],
         NEW q \in Seq(Ids),
         QueueMatches(c, q),
         NEW i \in Ids, In(c, i, {"Pending"})
  PROVE  QueueMatches([c EXCEPT ![i].stage = "Awarded"], Append(q, i))
<1> DEFINE c2 == [c EXCEPT ![i].stage = "Awarded"]
           q2 == Append(q, i)
<1>1. /\ DOMAIN q = 1..Len(q) /\ Len(q) \in Nat
      /\ DOMAIN q2 = 1..(Len(q) + 1)
      /\ q2[Len(q) + 1] = i
      /\ \A k \in 1..Len(q) : q2[k] = q[k]
  BY AppendProperties, LenProperties
<1>2. \A k \in DOMAIN q : q[k] # i
  BY QueuedAreAwarded DEF In
<1>3. \A t \in Ids : In(c2, t, {"Awarded"}) <=> In(c, t, {"Awarded"}) \/ t = i
  <2>1. c[i] \in Commitments
    BY DEF In
  <2>2. c2[i] \in Commitments /\ c2[i].stage = "Awarded"
    BY <2>1 DEF Commitments, Stages
  <2>3. c2[i] # None
    BY <2>2, NoneAssumption
  <2> QED BY <2>2, <2>3 DEF In
<1> HIDE DEF c2, q2
<1>4. \A j, k \in DOMAIN q2 : q2[j] = q2[k] => j = k
  <2> SUFFICES ASSUME NEW j \in DOMAIN q2, NEW k \in DOMAIN q2, q2[j] = q2[k] PROVE j = k
    OBVIOUS
  <2>1. CASE j \in DOMAIN q /\ k \in DOMAIN q
    BY <1>1, <2>1 DEF QueueMatches
  <2>2. CASE ~(j \in DOMAIN q /\ k \in DOMAIN q)
    BY <1>1, <1>2, <2>2
  <2> QED BY <2>1, <2>2
<1>5. ASSUME NEW t \in Ids
      PROVE  (\E k \in DOMAIN q2 : q2[k] = t) <=> (\E k \in DOMAIN q : q[k] = t) \/ t = i
  <2>1. ASSUME NEW k \in DOMAIN q2, q2[k] = t, t # i PROVE k \in DOMAIN q /\ q[k] = t
    BY <1>1, <2>1
  <2>2. ASSUME NEW k \in DOMAIN q, q[k] = t PROVE k \in DOMAIN q2 /\ q2[k] = t
    BY <1>1, <2>2
  <2>3. Len(q) + 1 \in DOMAIN q2 /\ q2[Len(q) + 1] = i
    BY <1>1
  <2> QED BY <2>1, <2>2, <2>3
<1>6. QueueMatches(c2, q2)
  BY <1>3, <1>4, <1>5 DEF QueueMatches
<1> QED BY <1>6 DEF c2, q2

\* A settlement takes its task out of the queue.
LEMMA WithoutMatches ==
  ASSUME NEW c \in [Ids -> Commitments \cup {None}],
         NEW q \in Seq(Ids),
         QueueMatches(c, q),
         NEW i \in Ids
  PROVE  QueueMatches([c EXCEPT ![i] = None], Without(q, QueuedAt(q, i)))
<1> DEFINE c2 == [c EXCEPT ![i] = None]
           K == QueuedAt(q, i)
           q2 == Without(q, K)
<1>1. DOMAIN q = 1..Len(q) /\ Len(q) \in Nat
  BY LenProperties
<1>2. \A t \in Ids : In(c2, t, {"Awarded"}) <=> In(c, t, {"Awarded"}) /\ t # i
  BY DEF In
<1>3. CASE K = {}
  <2>1. q2 = q /\ \A k \in DOMAIN q : q[k] # i
    BY <1>3 DEF Without, QueuedAt
  <2> HIDE DEF c2, q2, K
  <2>2. QueueMatches(c2, q2)
    BY <2>1, <1>2 DEF QueueMatches
  <2> QED BY <2>2 DEF c2, q2, K
<1>4. CASE K # {}
  <2> DEFINE k == CHOOSE k \in K : TRUE
  <2>1. k \in DOMAIN q /\ q[k] = i /\ q2 = RemoveAt(q, k)
    BY <1>4 DEF QueuedAt, Without
  <2> HIDE DEF c2, q2, K, k
  <2>2. /\ q2 \in Seq(Ids)
        /\ Len(q2) = Len(q) - 1
        /\ \A j \in 1..(Len(q) - 1) : q2[j] = IF j < k THEN q[j] ELSE q[j + 1]
    BY <1>1, <2>1, RemoveAtProperties
  <2>3. DOMAIN q2 = 1..(Len(q) - 1)
    BY <2>2, LenProperties
  <2> DEFINE from(j) == IF j < k THEN j ELSE j + 1
  <2>4. \A j \in DOMAIN q2 : from(j) \in DOMAIN q /\ from(j) # k /\ q2[j] = q[from(j)]
    BY <1>1, <2>1, <2>2, <2>3
  <2>5. \A j, l \in DOMAIN q2 : from(j) = from(l) => j = l
    BY <1>1, <2>1, <2>3
  <2>6. \A l \in DOMAIN q : l # k => \E j \in DOMAIN q2 : from(j) = l
    <3> SUFFICES ASSUME NEW l \in DOMAIN q, l # k PROVE \E j \in DOMAIN q2 : from(j) = l
      OBVIOUS
    <3>1. CASE l < k
      <4>1. l \in DOMAIN q2 /\ from(l) = l
        BY <1>1, <2>1, <2>3, <3>1
      <4> QED BY <4>1
    <3>2. CASE l > k
      <4>1. l - 1 \in DOMAIN q2 /\ from(l - 1) = l
        BY <1>1, <2>1, <2>3, <3>2
      <4> QED BY <4>1
    <3> QED BY <1>1, <2>1, <3>1, <3>2
  <2> HIDE DEF from
  <2>7. \A j, l \in DOMAIN q2 : q2[j] = q2[l] => j = l
    BY <2>4, <2>5 DEF QueueMatches
  <2>8. ASSUME NEW t \in Ids
        PROVE  (\E j \in DOMAIN q2 : q2[j] = t) <=> (\E l \in DOMAIN q : q[l] = t) /\ t # i
    <3>1. ASSUME NEW j \in DOMAIN q2, q2[j] = t PROVE from(j) \in DOMAIN q /\ q[from(j)] = t /\ t # i
      BY <2>1, <2>4, <3>1 DEF QueueMatches
    <3>2. ASSUME NEW l \in DOMAIN q, q[l] = t, t # i PROVE \E j \in DOMAIN q2 : q2[j] = t
      BY <2>1, <2>4, <2>6, <3>2
    <3> QED BY <3>1, <3>2
  <2>9. QueueMatches(c2, q2)
    BY <1>2, <2>7, <2>8 DEF QueueMatches
  <2> QED BY <2>9 DEF c2, q2, K
<1> QED BY <1>3, <1>4
-----------------------------------------------------------------------------
(* The contracts.  The inductive invariant adds to the safety properties   *)
(* that a commitment is never about a closed (task, attempt): so a worker  *)
(* whose contract was settled cannot be mistaken for a later one's.        *)

OpenContracts ==
  \A i \in Ids : commitments[i] # None => <<i, commitments[i].attempt>> \notin closed

ContractInv ==
  /\ QueueIsAwards /\ WorkConserving /\ WorkerHasContract
  /\ ResultsBacked /\ OpenContracts

SessionInv ==
  /\ FlushedBeforeListening /\ NothingUnsaved
  /\ BidsNeedSession /\ ResponsesCurrent

Inv == TypeInv /\ ContractInv /\ SessionInv

LEMMA ResultOfOutbox ==
  ASSUME NEW o \in Seq(Results), NEW k \in DOMAIN o
  PROVE  o[k] \in Results /\ o[k].id \in Ids
<1>1. k \in 1..Len(o) /\ o[k] \in Results
  BY LenProperties
<1> QED BY <1>1 DEF Results

Idle(c, i) == c[i] = None \/ In(c, i, {"Pending"})

\* Bidding, and forgetting bids, disturbs no contract.
LEMMA BiddingKeepsContracts ==
  ASSUME TypeOK, ContractInv, OpenContracts',
         UNCHANGED <<queue, active, outbox, closed>>,
         \A i \in Ids : \/ commitments'[i] = commitments[i]
                        \/ Idle(commitments, i) /\ Idle(commitments', i)
  PROVE  ContractInv'
<1>1. \A i \in Ids, S \in {{"Awarded"}, {"Running"}, {"Complete"}} :
        In(commitments', i, S) <=> In(commitments, i, S)
  BY DEF Idle, In
<1>2. \A i \in Ids : In(commitments, i, {"Running", "Complete"}) =>
                       commitments'[i] = commitments[i]
  BY DEF Idle, In
<1>3. QueueIsAwards' /\ WorkConserving'
  BY <1>1 DEF ContractInv, QueueIsAwards, QueueMatches, WorkConserving
<1>4. WorkerHasContract'
  <2>1. active # None => active.id \in Ids
    BY DEF TypeOK, Work
  <2>2. \A i \in Ids : In(commitments, i, {"Running"}) => commitments'[i] = commitments[i]
    BY <1>2 DEF In
  <2> QED BY <1>1, <2>1, <2>2 DEF ContractInv, WorkerHasContract
<1>5. ResultsBacked'
  <2>1. \A k \in DOMAIN outbox : outbox[k].id \in Ids
    BY ResultOfOutbox DEF TypeOK
  <2>2. \A i \in Ids : In(commitments, i, {"Complete"}) => commitments'[i] = commitments[i]
    BY <1>2 DEF In
  <2> QED BY <1>1, <2>1, <2>2 DEF ContractInv, ResultsBacked
<1> QED BY <1>3, <1>4, <1>5 DEF ContractInv

\* The worker's commitment is Running when it is still ours.
LEMMA OursIsRunning ==
  ASSUME TypeOK, ContractInv, active # None, Ours(active)
  PROVE  active.id \in Ids /\ In(commitments, active.id, {"Running"})
<1>1. active.id \in Ids
  BY DEF TypeOK, Work
<1>2. <<active.id, active.attempt>> \notin closed
  BY <1>1 DEF ContractInv, OpenContracts, Ours
<1> QED BY <1>1, <1>2 DEF ContractInv, WorkerHasContract

\* start_next() on commitments that agree with the queue, the worker, the
\* outbox and the closed contracts gives a state where all of them agree.
LEMMA StartNextInv ==
  ASSUME NEW c \in [Ids -> Commitments \cup {None}],
         NEW q \in Seq(Ids),
         NEW w \in Work \cup {None},
         StartNext(c, q, w),
         QueueMatches(c, q),
         w # None => \/ In(c, w.id, {"Running"}) /\ c[w.id].attempt = w.attempt
                     \/ <<w.id, w.attempt>> \in closed,
         \A i \in Ids : In(c, i, {"Running"}) =>
                          w = [id |-> i, attempt |-> c[i].attempt] \/ WorkerCanStop,
         \A i \in Ids : c[i] # None => <<i, c[i].attempt>> \notin closed,
         outbox' \in Seq(Results),
         \A j, k \in DOMAIN outbox' : outbox'[j].id = outbox'[k].id => j = k,
         \A k \in DOMAIN outbox' : /\ In(c, outbox'[k].id, {"Complete"})
                                   /\ c[outbox'[k].id].attempt = outbox'[k].attempt,
         UNCHANGED closed
  PROVE  ContractInv'
<1>1. QueueIsAwards'
  BY StartNextContracts DEF QueueIsAwards
<1>2. CASE w # None
  <2>1. commitments' = c /\ queue' = q /\ active' = w
    BY <1>2, StartNextContracts
  <2> QED BY <1>1, <1>2, <2>1 DEF ContractInv, WorkConserving, WorkerHasContract, ResultsBacked, OpenContracts
<1>3. CASE w = None
  <2>1. WorkConserving'
    BY <1>3, StartNextContracts DEF WorkConserving
  <2>2. CASE commitments' = c /\ active' = None
    BY <1>1, <1>3, <2>1, <2>2 DEF ContractInv, WorkerHasContract, ResultsBacked, OpenContracts
  <2>3. ASSUME NEW i \in Ids,
               In(c, i, {"Awarded"}),
               commitments' = [c EXCEPT ![i] = [c[i] EXCEPT !.stage = "Running"]],
               active' = [id |-> i, attempt |-> c[i].attempt]
        PROVE  ContractInv'
    <3>1. c[i] \in Commitments /\ c[i].stage = "Awarded"
      BY <2>3 DEF In
    <3>2. /\ commitments'[i] \in Commitments
          /\ commitments'[i].stage = "Running"
          /\ commitments'[i].attempt = c[i].attempt
      BY <2>3, <3>1 DEF Commitments, Stages
    <3>3. commitments'[i] # None
      BY <3>2, NoneAssumption
    <3>4. \A t \in Ids : t # i => commitments'[t] = c[t]
      BY <2>3
    <3>5. WorkerHasContract'
      <4>1. \A t \in Ids : In(c, t, {"Running"}) => WorkerCanStop
        <5> SUFFICES ASSUME NEW t \in Ids, In(c, t, {"Running"}), ~WorkerCanStop PROVE FALSE
          BY FlagAssumption
        <5>1. c[t] \in Commitments
          BY DEF In
        <5>2. [id |-> t, attempt |-> c[t].attempt] \in Work
          BY <5>1 DEF Work, Commitments
        <5> QED BY <1>3, <5>2, NoneAssumption
      <4>2. In(commitments', i, {"Running"})
        BY <3>2, <3>3 DEF In
      <4>3. \A t \in Ids : t # i /\ In(commitments', t, {"Running"}) => WorkerCanStop
        BY <3>4, <4>1 DEF In
      <4>4. active'.id = i /\ active'.attempt = commitments'[i].attempt
        BY <2>3, <3>2
      <4>5. active' = [id |-> i, attempt |-> commitments'[i].attempt]
        BY <2>3, <3>2
      <4> QED BY <4>2, <4>3, <4>4, <4>5 DEF WorkerHasContract
    <3>6. ResultsBacked'
      <4>1. \A k \in DOMAIN outbox' : outbox'[k].id \in Ids /\ outbox'[k].id # i
        BY <3>1, ResultOfOutbox DEF In
      <4> QED BY <3>4, <4>1 DEF ResultsBacked, In
    <3>7. OpenContracts'
      BY <3>1, <3>2, <3>4, NoneAssumption DEF OpenContracts
    <3> QED BY <1>1, <2>1, <3>5, <3>6, <3>7 DEF ContractInv
  <2> QED BY <1>3, <2>2, <2>3, StartNextContracts
<1> QED BY <1>2, <1>3
LEMMA ConsiderOpens ==
  ASSUME TypeOK, ContractInv, LoopingRoom = FALSE \/ OpenContracts',
         NEW offers \in Offers, NEW choice \in Decisions, Consider(offers, choice)
  PROVE  ContractInv'
<1>1. PICK S \in SUBSET Ids : offers \in [S -> Attempts]
  BY DEF Offers
<1>2. ASSUME NEW i \in Ids
      PROVE  /\ \/ commitments'[i] = commitments[i]
                \/ Idle(commitments, i) /\ Idle(commitments', i)
             /\ commitments'[i] # None => <<i, commitments'[i].attempt>> \notin closed
  <2> DEFINE new == [attempt |-> offers[i], bid |-> choice[i],
                     score |-> IF market = None THEN NoScore ELSE market[i],
                     timed |-> FALSE, stage |-> "Pending"]
  <2>1. commitments'[i] = IF i \notin Considered(commitments, offers) THEN commitments[i]
                          ELSE IF choice[i] = None THEN None ELSE new
    BY DEF Consider, Proposed
  <2>2. CASE i \notin Considered(commitments, offers)
    BY <2>1, <2>2 DEF ContractInv, OpenContracts
  <2>3. CASE i \in Considered(commitments, offers)
    <3>1. Idle(commitments, i) /\ i \in DOMAIN offers
      BY <2>3 DEF Considered, Idle
    <3>2. LoopingRoom = FALSE => <<i, offers[i]>> \notin closed
      BY <3>1 DEF Consider, Offerable
    <3>3. new.stage = "Pending" /\ new.attempt = offers[i]
      OBVIOUS
    <3> HIDE DEF new
    <3>4. Idle(commitments', i)
      BY <2>1, <2>3, <3>3 DEF Idle, In
    <3>5. LoopingRoom = FALSE => (commitments'[i] # None => <<i, commitments'[i].attempt>> \notin closed)
      BY <2>1, <2>3, <3>2, <3>3
    <3>6. OpenContracts' => (commitments'[i] # None => <<i, commitments'[i].attempt>> \notin closed)
      BY DEF OpenContracts, Consider
    <3> QED BY <3>1, <3>4, <3>5, <3>6
  <2> QED BY <2>2, <2>3
<1>3. OpenContracts' /\ UNCHANGED <<queue, active, outbox, closed>>
  BY <1>2 DEF OpenContracts, Consider
<1> QED BY <1>2, <1>3, BiddingKeepsContracts

LEMMA ContractStep ==
  ASSUME Inv, LoopingRoom = FALSE \/ OpenContracts', [Next]_vars
  PROVE  ContractInv'
<1> USE DEF Inv, TypeInv
<1>1. ASSUME UNCHANGED <<commitments, queue, active, outbox, closed>> PROVE ContractInv'
  BY <1>1 DEF ContractInv, QueueIsAwards, QueueMatches, WorkConserving,
              WorkerHasContract, ResultsBacked, OpenContracts, In
<1>2. CASE Launch \/ Connect \/ Retry \/ SendRegister \/ SaveLearning \/ MarketExpires
  BY <1>1, <1>2 DEF Launch, Connect, Retry, SendRegister, SaveLearning, MarketExpires
<1>3. CASE Interrupt \/ Evicted
  <2>1. Exit
    BY <1>3 DEF Interrupt, Evicted
  <2> QED BY <2>1 DEF Exit, NoCommitments, ContractInv, QueueIsAwards, QueueMatches,
                      WorkConserving, WorkerHasContract, ResultsBacked, OpenContracts, In
<1>4. CASE Disconnect \/ SendFails
  <2>1. EndSession
    BY <1>4 DEF Disconnect, SendFails
  <2>2. \A i \in Ids : \/ commitments'[i] = commitments[i]
                       \/ Idle(commitments, i) /\ Idle(commitments', i)
    BY <2>1 DEF EndSession, ContractsOnly, Idle
  <2>3. OpenContracts' /\ UNCHANGED <<queue, active, outbox, closed>>
    BY <2>1 DEF EndSession, ContractsOnly, ContractInv, OpenContracts
  <2> QED BY <2>2, <2>3, BiddingKeepsContracts
<1>5. ASSUME NEW m \in responses, SendResponse(m) PROVE ContractInv'
  BY <1>1, <1>5 DEF SendResponse
<1>6. CASE SendResult
  <2>1. outbox # <<>> /\ outbox \in Seq(Results)
    BY <1>6 DEF SendResult, LoopShape, TypeOK
  <2>2. /\ outbox' = Tail(outbox)
        /\ UNCHANGED <<commitments, queue, active, closed>>
    BY <1>6 DEF SendResult
  <2>3. /\ outbox' \in Seq(Results)
        /\ Len(outbox') = Len(outbox) - 1
        /\ \A k \in 1..Len(outbox') : outbox'[k] = outbox[k + 1]
    BY <2>1, <2>2, HeadTailProperties
  <2>4. \A k \in DOMAIN outbox' : k + 1 \in DOMAIN outbox /\ outbox'[k] = outbox[k + 1] /\ k \in Nat
    BY <2>1, <2>3, LenProperties
  <2>5. \A j, k \in DOMAIN outbox' : outbox'[j].id = outbox'[k].id => j = k
    <3> SUFFICES ASSUME NEW j \in DOMAIN outbox', NEW k \in DOMAIN outbox', outbox'[j].id = outbox'[k].id
                 PROVE  j = k
      OBVIOUS
    <3>1. j + 1 = k + 1
      BY <2>4 DEF ContractInv, ResultsBacked
    <3> QED BY <2>4, <3>1
  <2>6. ResultsBacked'
    BY <2>2, <2>4, <2>5 DEF ContractInv, ResultsBacked
  <2> QED BY <2>2, <2>6 DEF ContractInv, QueueIsAwards, QueueMatches, WorkConserving,
                            WorkerHasContract, OpenContracts
<1>7. ASSUME NEW offers \in Offers, NEW choice \in Decisions, Registered(offers, choice)
      PROVE  ContractInv'
  BY <1>7, ConsiderOpens DEF Registered
<1>8. ASSUME NEW i \in Ids, NEW a \in Attempts, NEW choice \in Decisions, Cfp(i, a, choice)
      PROVE  ContractInv'
  <2>1. {i} \in SUBSET Ids /\ [j \in {i} |-> a] \in [{i} -> Attempts]
    OBVIOUS
  <2>2. [j \in {i} |-> a] \in Offers
    BY <2>1 DEF Offers
  <2> QED BY <1>8, <2>2, ConsiderOpens DEF Cfp
<1>9. ASSUME NEW i \in Ids, AcceptProposal(i) PROVE ContractInv'
  <2> DEFINE c == [commitments EXCEPT ![i].stage = "Awarded"]
             q == Append(queue, i)
  <2>1. In(commitments, i, {"Pending"}) /\ StartNext(c, q, active)
    BY <1>9 DEF AcceptProposal
  <2>2. commitments[i] \in Commitments /\ commitments[i].stage = "Pending"
    BY <2>1 DEF In, TypeOK
  <2>3. c \in [Ids -> Commitments \cup {None}] /\ q \in Seq(Ids)
    BY <2>2, AppendProperties DEF TypeOK, Commitments, Stages
  <2>4. QueueMatches(c, q)
    BY <2>1, AppendMatches DEF ContractInv, QueueIsAwards, TypeOK
  <2>5. /\ c[i].stage = "Awarded" /\ c[i].attempt = commitments[i].attempt
        /\ \A t \in Ids : t # i => c[t] = commitments[t]
    BY <2>2 DEF Commitments, TypeOK
  <2> HIDE DEF c, q
  <2>6. \A t \in Ids : In(c, t, {"Running"}) <=> In(commitments, t, {"Running"})
    BY <2>2, <2>5 DEF In
  <2>7. \A t \in Ids : In(commitments, t, {"Complete"}) => c[t] = commitments[t]
    BY <2>2, <2>5 DEF In
  <2>8. active # None => \/ In(c, active.id, {"Running"}) /\ c[active.id].attempt = active.attempt
                         \/ <<active.id, active.attempt>> \in closed
    <3>1. active # None => active.id \in Ids
      BY DEF TypeOK, Work
    <3> QED BY <3>1, <2>5, <2>6 DEF ContractInv, WorkerHasContract, In
  <2>9. \A t \in Ids : In(c, t, {"Running"}) =>
                         active = [id |-> t, attempt |-> c[t].attempt] \/ WorkerCanStop
    BY <2>5, <2>6 DEF ContractInv, WorkerHasContract, In
  <2>10. \A t \in Ids : c[t] # None => <<t, c[t].attempt>> \notin closed
    BY <2>1, <2>5 DEF ContractInv, OpenContracts, In
  <2>11. /\ outbox' \in Seq(Results)
         /\ \A j, k \in DOMAIN outbox' : outbox'[j].id = outbox'[k].id => j = k
         /\ UNCHANGED <<outbox, closed>>
    BY <1>9 DEF AcceptProposal, TypeOK, ContractInv, ResultsBacked
  <2>12. \A k \in DOMAIN outbox' : /\ In(c, outbox'[k].id, {"Complete"})
                                   /\ c[outbox'[k].id].attempt = outbox'[k].attempt
    <3>1. \A k \in DOMAIN outbox' : outbox'[k].id \in Ids
      BY <2>11, ResultOfOutbox
    <3> QED BY <3>1, <2>7, <2>11 DEF ContractInv, ResultsBacked, In
  <2>13. active \in Work \cup {None}
    BY DEF TypeOK
  <2> QED BY <2>1, <2>3, <2>4, <2>8, <2>9, <2>10, <2>11, <2>12, <2>13, StartNextInv
<1>10. ASSUME NEW i \in Ids, BidDeclined(i) PROVE ContractInv'
  <2>1. \A t \in Ids : \/ commitments'[t] = commitments[t]
                       \/ Idle(commitments, t) /\ Idle(commitments', t)
    BY <1>10 DEF BidDeclined, Idle, TypeOK
  <2>2. OpenContracts' /\ UNCHANGED <<queue, active, outbox, closed>>
    BY <1>10 DEF BidDeclined, ContractInv, OpenContracts, TypeOK
  <2> QED BY <2>1, <2>2, BiddingKeepsContracts
<1>11. ASSUME NEW i \in Ids, NEW graded \in BOOLEAN, Settled(i, graded) PROVE ContractInv'
  <2>1. commitments' = [commitments EXCEPT ![i] = None]
    BY <1>11 DEF Settled
  <2>2. \A t \in Ids : commitments'[t] = IF t = i THEN None ELSE commitments[t]
    BY <2>1 DEF TypeOK
  <2>3. QueueIsAwards'
    <3>1. /\ QueueMatches(commitments, queue) /\ queue \in Seq(Ids)
          /\ commitments \in [Ids -> Commitments \cup {None}]
      BY DEF ContractInv, QueueIsAwards, TypeOK
    <3>2. queue' = Without(queue, QueuedAt(queue, i))
      BY <1>11 DEF Settled
    <3>3. QueueMatches([commitments EXCEPT ![i] = None], Without(queue, QueuedAt(queue, i)))
      BY <3>1, WithoutMatches
    <3> QED BY <2>1, <3>2, <3>3 DEF QueueIsAwards
  <2>4. WorkConserving'
    <3>1. queue = <<>> => QueuedAt(queue, i) = {}
      BY DEF QueuedAt
    <3> QED BY <1>11, <3>1 DEF Settled, ContractInv, WorkConserving, Without
  <2>5. outbox' = <<>>
    BY <1>11 DEF Settled, SessionInv, FlushedBeforeListening, Without, PostedAt
  <2>6. closed' = IF commitments[i] = None THEN closed
                  ELSE closed \cup {<<i, commitments[i].attempt>>}
    BY <1>11 DEF Settled
  <2>7. WorkerHasContract'
    <3>1. active' = active /\ (active # None => active.id \in Ids)
      BY <1>11 DEF Settled, TypeOK, Work
    <3> QED BY <2>2, <2>6, <3>1 DEF ContractInv, WorkerHasContract, In
  <2>8. ResultsBacked'
    BY <2>5 DEF ResultsBacked
  <2>9. OpenContracts'
    BY <2>2, <2>6 DEF ContractInv, OpenContracts
  <2> QED BY <2>3, <2>4, <2>7, <2>8, <2>9 DEF ContractInv
<1>12. ASSUME NEW type \in {"INFORM", "FAILURE"}, FinishWork(type) PROVE ContractInv'
  <2>1. active \in Work /\ active # None /\ UNCHANGED closed
    BY <1>12 DEF FinishWork, TypeOK
  <2>2. CASE Ours(active)
    <3> DEFINE i == active.id
               c == Completed(commitments, i, type)
               m == [type |-> type, id |-> i, attempt |-> active.attempt]
    <3>1. i \in Ids /\ In(commitments, i, {"Running"}) /\ commitments[i].attempt = active.attempt
      BY <2>1, <2>2, OursIsRunning DEF Ours
    <3>2. StartNext(c, queue, None) /\ outbox' = Append(outbox, m)
      BY <1>12, <2>2 DEF FinishWork
    <3>3. commitments[i] \in Commitments /\ commitments[i].stage = "Running"
      BY <3>1 DEF In, TypeOK
    <3>4. /\ c \in [Ids -> Commitments \cup {None}]
          /\ c[i] \in Commitments /\ c[i].stage = "Complete"
          /\ c[i].attempt = commitments[i].attempt
          /\ \A t \in Ids : t # i => c[t] = commitments[t]
      BY <3>1, <3>3 DEF TypeOK, Completed, Commitments, Stages
    <3>5. m \in Results /\ m.id = i /\ m.attempt = active.attempt
      BY <2>1, <3>1 DEF Results, Work
    <3> HIDE DEF c, m
    <3>6. c[i] # None
      BY <3>4, NoneAssumption
    <3>7. \A t \in Ids : In(c, t, {"Awarded"}) <=> In(commitments, t, {"Awarded"})
      BY <3>3, <3>4 DEF In
    <3>8. QueueMatches(c, queue)
      BY <3>7 DEF ContractInv, QueueIsAwards, QueueMatches
    <3>9. \A t \in Ids : In(c, t, {"Running"}) => WorkerCanStop
      <4> SUFFICES ASSUME NEW t \in Ids, In(c, t, {"Running"}), ~WorkerCanStop PROVE FALSE
        BY FlagAssumption
      <4>1. t # i /\ In(commitments, t, {"Running"})
        BY <3>4 DEF In
      <4>2. active.id = t
        BY <4>1 DEF ContractInv, WorkerHasContract
      <4> QED BY <4>1, <4>2
    <3>10. \A t \in Ids : c[t] # None => <<t, c[t].attempt>> \notin closed
      BY <3>3, <3>4, NoneAssumption DEF ContractInv, OpenContracts
    <3>11. /\ outbox' \in Seq(Results)
           /\ DOMAIN outbox' = 1..(Len(outbox) + 1)
           /\ DOMAIN outbox = 1..Len(outbox) /\ Len(outbox) \in Nat
           /\ outbox'[Len(outbox) + 1] = m
           /\ \A k \in DOMAIN outbox : outbox'[k] = outbox[k]
      BY <3>2, <3>5, AppendProperties, LenProperties DEF TypeOK
    <3>12. \A k \in DOMAIN outbox : /\ outbox[k].id \in Ids /\ outbox[k].id # i
                                    /\ In(commitments, outbox[k].id, {"Complete"})
                                    /\ commitments[outbox[k].id].attempt = outbox[k].attempt
      BY <3>3, ResultOfOutbox DEF TypeOK, ContractInv, ResultsBacked, In
    <3>13. \A j, k \in DOMAIN outbox' : outbox'[j].id = outbox'[k].id => j = k
      <4> SUFFICES ASSUME NEW j \in DOMAIN outbox', NEW k \in DOMAIN outbox',
                          outbox'[j].id = outbox'[k].id
                   PROVE  j = k
        OBVIOUS
      <4>1. CASE j \in DOMAIN outbox /\ k \in DOMAIN outbox
        BY <3>11, <4>1 DEF ContractInv, ResultsBacked
      <4>2. CASE ~(j \in DOMAIN outbox /\ k \in DOMAIN outbox)
        BY <3>5, <3>11, <3>12, <4>2
      <4> QED BY <4>1, <4>2
    <3>14. \A k \in DOMAIN outbox' : /\ In(c, outbox'[k].id, {"Complete"})
                                     /\ c[outbox'[k].id].attempt = outbox'[k].attempt
      <4> SUFFICES ASSUME NEW k \in DOMAIN outbox'
                   PROVE  /\ In(c, outbox'[k].id, {"Complete"})
                          /\ c[outbox'[k].id].attempt = outbox'[k].attempt
        OBVIOUS
      <4>1. CASE k \in DOMAIN outbox
        BY <3>4, <3>11, <3>12, <4>1 DEF In
      <4>2. CASE k \notin DOMAIN outbox
        <5>1. outbox'[k] = m
          BY <3>11, <4>2
        <5> QED BY <3>1, <3>4, <3>5, <3>6, <5>1 DEF In
      <4> QED BY <4>1, <4>2
    <3>15. None \in Work \cup {None} /\ queue \in Seq(Ids)
      BY DEF TypeOK
    <3> QED BY <2>1, <3>2, <3>4, <3>8, <3>9, <3>10, <3>11, <3>13, <3>14, <3>15, StartNextInv
  <2>3. CASE ~Ours(active)
    <3>1. StartNext(commitments, queue, None) /\ outbox' = outbox
      BY <1>12, <2>3 DEF FinishWork
    <3>2. \A t \in Ids : In(commitments, t, {"Running"}) => WorkerCanStop
      BY <2>3, FlagAssumption DEF ContractInv, WorkerHasContract, Ours, In
    <3> QED BY <2>1, <3>1, <3>2, StartNextInv
            DEF TypeOK, ContractInv, QueueIsAwards, ResultsBacked, OpenContracts
  <2> QED BY <2>2, <2>3
<1>13. CASE WorkerStops
  <2>1. /\ StartNext(commitments, queue, None) /\ WorkerCanStop
        /\ UNCHANGED <<outbox, closed>>
    BY <1>13 DEF WorkerStops
  <2> QED BY <2>1, StartNextInv
          DEF TypeOK, ContractInv, QueueIsAwards, ResultsBacked, OpenContracts
<1>14. ASSUME NEW s \in Snapshots \cup {None}, NEW choice \in Decisions,
              MarketChanges(s, choice)
       PROVE  ContractInv'
  <2>1. UNCHANGED <<queue, active, outbox, closed>>
    BY <1>14 DEF MarketChanges
  <2>2. CASE commitments' = commitments
    BY <1>1, <2>1, <2>2
  <2>3. CASE commitments' = Repriced(commitments, s, choice)
    <3>1. ASSUME NEW i \in Ids
          PROVE  /\ \/ commitments'[i] = commitments[i]
                    \/ Idle(commitments, i) /\ Idle(commitments', i)
                 /\ commitments'[i] # None => <<i, commitments'[i].attempt>> \notin closed
      <4>1. CASE i \in Moved(commitments, s) /\ choice[i] # None
        <5>1. commitments[i] \in Commitments /\ In(commitments, i, {"Pending"})
          BY <4>1 DEF Moved, In, TypeOK
        <5>2. commitments'[i] = [commitments[i] EXCEPT !.bid = choice[i], !.score = s[i]]
          BY <2>3, <4>1 DEF Repriced
        <5>3. commitments'[i].stage = "Pending" /\ commitments'[i].attempt = commitments[i].attempt
          BY <5>1, <5>2 DEF Commitments, In
        <5>4. Idle(commitments, i) /\ Idle(commitments', i)
          BY <5>1, <5>3 DEF Idle, In
        <5> QED BY <5>1, <5>3, <5>4 DEF ContractInv, OpenContracts, In
      <4>2. CASE ~(i \in Moved(commitments, s) /\ choice[i] # None)
        BY <2>3, <4>2 DEF Repriced, ContractInv, OpenContracts
      <4> QED BY <4>1, <4>2
    <3>2. OpenContracts'
      BY <2>1, <3>1 DEF OpenContracts
    <3> QED BY <2>1, <3>1, <3>2, BiddingKeepsContracts
  <2> QED BY <1>14, <2>2, <2>3 DEF MarketChanges
<1>15. CASE UNCHANGED vars
  BY <1>1, <1>15 DEF vars
<1> QED
  BY <1>2, <1>3, <1>4, <1>5, <1>6, <1>7, <1>8, <1>9, <1>10, <1>11, <1>12, <1>13,
     <1>14, <1>15
     DEF Next, RunLoop, Writes, Receives, Background
-----------------------------------------------------------------------------
(* The session.                                                            *)

\* start_next() makes no bid and touches none.
LEMMA StartNextBids ==
  ASSUME NEW c \in [Ids -> Commitments \cup {None}],
         NEW q \in Seq(Ids),
         NEW w \in Work \cup {None},
         QueueMatches(c, q),
         StartNext(c, q, w)
  PROVE  \A i \in Ids : In(commitments', i, {"Pending"}) => In(c, i, {"Pending"})
<1> SUFFICES ASSUME NEW i \in Ids, In(commitments', i, {"Pending"})
             PROVE  In(c, i, {"Pending"})
  OBVIOUS
<1>1. CASE commitments' = c
  BY <1>1
<1>2. ASSUME NEW t \in Ids, In(c, t, {"Awarded"}),
             commitments' = [c EXCEPT ![t] = [c[t] EXCEPT !.stage = "Running"]]
      PROVE  In(c, i, {"Pending"})
  <2>1. c[t] \in Commitments
    BY <1>2 DEF In
  <2>2. i # t
    BY <1>2, <2>1 DEF In, Commitments
  <2> QED BY <1>2, <2>2 DEF In
<1> QED BY <1>1, <1>2, StartNextContracts

\* With no reply waiting, the client either writes results or listens, and an
\* unsaved observation is saved as soon as no result is waiting.
LEMMA QuietStep ==
  ASSUME Inv, GoOn, responses' = {}, registered' \in BOOLEAN, learningDirty' \in BOOLEAN,
         learningDirty' => ~(registered' /\ outbox' # <<>>),
         ~registered' => \A i \in Ids : ~In(commitments', i, {"Pending"})
  PROVE  SessionInv'
<1>1. FlushedBeforeListening' /\ NothingUnsaved'
  BY DEF FlushedBeforeListening, NothingUnsaved
<1>2. BidsNeedSession' /\ ResponsesCurrent'
  BY DEF BidsNeedSession, ResponsesCurrent
<1> QED BY <1>1, <1>2 DEF SessionInv

LEMMA SelectIsClean ==
  ASSUME Inv, pc = "select"
  PROVE  /\ responses = {} /\ learningDirty = FALSE
         /\ registered => outbox = <<>>
  BY DEF Inv, TypeInv, TypeOK, LoopShape, SessionInv, NothingUnsaved, FlushedBeforeListening

\* Whatever follows a batch of replies, they agree with the bids tracked.
LEMMA RepliesStep ==
  ASSUME Inv, GoOn, pc = "select", registered' = TRUE, UNCHANGED learningDirty,
         ResponsesCurrent'
  PROVE  SessionInv'
<1>1. learningDirty' = FALSE
  BY SelectIsClean
<1> QED BY <1>1 DEF SessionInv, FlushedBeforeListening, NothingUnsaved, BidsNeedSession

LEMMA ConsiderReplies ==
  ASSUME Inv, pc = "select", registered' = TRUE,
         NEW offers \in Offers, NEW choice \in Decisions, Consider(offers, choice)
  PROVE  SessionInv'
<1>1. PICK S \in SUBSET Ids : offers \in [S -> Attempts]
  BY DEF Offers
<1>2. ASSUME NEW i \in Considered(commitments, offers)
      PROVE  LET m == Reply(i, choice[i])
             IN  IF m.type = "PROPOSE"
                 THEN In(commitments', m.id, {"Pending"}) /\ commitments'[m.id].bid = m.bid
                 ELSE commitments'[m.id] = None
  <2> DEFINE new == [attempt |-> offers[i], bid |-> choice[i],
                     score |-> IF market = None THEN NoScore ELSE market[i],
                     timed |-> FALSE, stage |-> "Pending"]
  <2>1. i \in Ids
    BY <1>1 DEF Considered
  <2>2. commitments'[i] = IF choice[i] = None THEN None ELSE new
    BY <1>2, <2>1 DEF Consider, Proposed
  <2>3. new.stage = "Pending" /\ new.bid = choice[i]
    OBVIOUS
  <2>4. choice[i] # None => new # None
    <3>1. SUFFICES ASSUME choice[i] # None PROVE new \in Commitments
      BY NoneAssumption
    <3>2. offers[i] \in Attempts /\ choice[i] \in Bids
      BY <1>1, <2>1, <3>1 DEF Considered, Decisions
    <3>3. (IF market = None THEN NoScore ELSE market[i]) \in Scores \cup {NoScore}
      BY <2>1 DEF Inv, TypeInv, TypeOK, Snapshots
    <3> QED BY <3>2, <3>3 DEF Commitments, Stages
  <2> HIDE DEF new
  <2>5. CASE choice[i] = None
    BY <2>2, <2>5 DEF Reply
  <2>6. CASE choice[i] # None
    BY <2>2, <2>3, <2>4, <2>6 DEF Reply, In
  <2> QED BY <2>5, <2>6
<1>3. ResponsesCurrent'
  BY <1>2 DEF Consider, Replies, ResponsesCurrent
<1> QED BY <1>3, RepliesStep DEF Consider

LEMMA SessionStep ==
  ASSUME Inv, [Next]_vars
  PROVE  SessionInv'
<1> USE DEF Inv, TypeInv
<1>1. CASE Launch \/ Connect \/ Retry \/ SendRegister
  BY <1>1 DEF Launch, Connect, Retry, SendRegister, TypeOK, LoopShape, SessionInv,
       FlushedBeforeListening, NothingUnsaved, BidsNeedSession, ResponsesCurrent, In
<1>2. CASE Interrupt \/ Evicted
  <2>1. Exit
    BY <1>2 DEF Interrupt, Evicted
  <2> QED BY <2>1 DEF Exit, NoCommitments, SessionInv, FlushedBeforeListening,
       NothingUnsaved, BidsNeedSession, ResponsesCurrent, In
<1>3. CASE Disconnect \/ SendFails
  <2>1. EndSession /\ pc # "save"
    BY <1>3 DEF Disconnect, SendFails
  <2> QED BY <2>1 DEF EndSession, ContractsOnly, SessionInv, FlushedBeforeListening,
       NothingUnsaved, BidsNeedSession, ResponsesCurrent, In
<1>4. ASSUME NEW m \in responses, SendResponse(m) PROVE SessionInv'
  <2>1. /\ pc = "respond" /\ registered /\ ~learningDirty
        /\ UNCHANGED <<registered, learningDirty, commitments>>
        /\ responses' \subseteq responses
    BY <1>4 DEF SendResponse, LoopShape, SessionInv, NothingUnsaved
  <2>2. FlushedBeforeListening' /\ NothingUnsaved'
    BY <1>4, <2>1 DEF SendResponse, FlushedBeforeListening, NothingUnsaved
  <2>3. BidsNeedSession' /\ ResponsesCurrent'
    BY <2>1 DEF SessionInv, BidsNeedSession, ResponsesCurrent, In
  <2> QED BY <2>2, <2>3 DEF SessionInv
<1>5. CASE SendResult
  <2>1. /\ registered /\ ~learningDirty /\ responses = {}
        /\ GoOn /\ UNCHANGED <<registered, learningDirty, responses>>
    BY <1>5 DEF SendResult, LoopShape, SessionInv, NothingUnsaved
  <2> QED BY <2>1, QuietStep DEF TypeOK
<1>6. CASE SaveLearning
  BY <1>6 DEF SaveLearning, TypeOK, LoopShape, SessionInv, FlushedBeforeListening,
       NothingUnsaved, BidsNeedSession, ResponsesCurrent, In
<1>7. ASSUME NEW offers \in Offers, NEW choice \in Decisions, Registered(offers, choice)
      PROVE  SessionInv'
  BY <1>7, ConsiderReplies DEF Registered
<1>8. ASSUME NEW i \in Ids, NEW a \in Attempts, NEW choice \in Decisions, Cfp(i, a, choice)
      PROVE  SessionInv'
  <2>1. {i} \in SUBSET Ids /\ [j \in {i} |-> a] \in [{i} -> Attempts]
    OBVIOUS
  <2>2. [j \in {i} |-> a] \in Offers
    BY <2>1 DEF Offers
  <2> QED BY <1>8, <2>2, ConsiderReplies DEF Cfp, TypeOK
<1>9. ASSUME NEW i \in Ids, AcceptProposal(i) \/ BidDeclined(i) PROVE SessionInv'
  <2>1. /\ GoOn /\ responses' = {} /\ registered' = TRUE /\ learningDirty' = FALSE
    BY <1>9, SelectIsClean DEF AcceptProposal, BidDeclined, TypeOK
  <2> QED BY <2>1, QuietStep
<1>10. ASSUME NEW i \in Ids, NEW graded \in BOOLEAN, Settled(i, graded) PROVE SessionInv'
  <2>1. /\ GoOn /\ responses' = {} /\ registered' = TRUE /\ learningDirty' \in BOOLEAN
        /\ outbox = <<>>
    BY <1>10, SelectIsClean DEF Settled, TypeOK
  <2>2. outbox' = <<>>
    BY <1>10, <2>1 DEF Settled, Without, PostedAt
  <2> QED BY <2>1, <2>2, QuietStep
<1>11. ASSUME Continue, pc \in Waits, UNCHANGED <<registered, responses, learningDirty>>,
              ~registered => \A i \in Ids : ~In(commitments', i, {"Pending"})
       PROVE  SessionInv'
  <2>1. responses = {} /\ learningDirty = FALSE
    BY <1>11 DEF Waits, TypeOK, LoopShape, SessionInv, NothingUnsaved
  <2>2. CASE pc = "select"
    BY <1>11, <2>1, <2>2, QuietStep DEF Continue, TypeOK
  <2>3. CASE pc # "select"
    BY <1>11, <2>1, <2>3 DEF Continue, Waits, SessionInv, FlushedBeforeListening,
       NothingUnsaved, BidsNeedSession, ResponsesCurrent, LoopShape
  <2> QED BY <2>2, <2>3
<1>12. ASSUME NEW type \in {"INFORM", "FAILURE"}, FinishWork(type) PROVE SessionInv'
  <2>1. /\ Continue /\ pc \in Waits
        /\ UNCHANGED <<registered, responses, learningDirty>>
        /\ active # None /\ active \in Work
    BY <1>12 DEF FinishWork, TypeOK
  <2>2. QueueMatches(commitments, queue) /\ queue \in Seq(Ids) /\ None \in Work \cup {None}
    BY DEF ContractInv, QueueIsAwards, TypeOK
  <2>3. \A i \in Ids : In(commitments', i, {"Pending"}) => In(commitments, i, {"Pending"})
    <3>1. CASE Ours(active)
      <4> DEFINE c == Completed(commitments, active.id, type)
      <4>1. active.id \in Ids /\ In(commitments, active.id, {"Running"})
        BY <2>1, <3>1, OursIsRunning
      <4>2. StartNext(c, queue, None)
        BY <1>12, <3>1 DEF FinishWork
      <4>3. commitments[active.id] \in Commitments
        BY <4>1 DEF In, TypeOK
      <4>4. /\ c \in [Ids -> Commitments \cup {None}]
            /\ c[active.id].stage = "Complete"
            /\ \A t \in Ids : t # active.id => c[t] = commitments[t]
        BY <4>1, <4>3 DEF TypeOK, Completed, Commitments, Stages
      <4> HIDE DEF c
      <4>5. QueueMatches(c, queue)
        <5>1. \A t \in Ids : In(c, t, {"Awarded"}) <=> In(commitments, t, {"Awarded"})
          BY <4>1, <4>4 DEF In
        <5> QED BY <2>2, <5>1 DEF QueueMatches
      <4>6. \A i \in Ids : In(commitments', i, {"Pending"}) => In(c, i, {"Pending"})
        BY <2>2, <4>2, <4>4, <4>5, StartNextBids
      <4> QED BY <4>4, <4>6 DEF In
    <3>2. CASE ~Ours(active)
      BY <1>12, <2>2, <3>2, StartNextBids DEF FinishWork, TypeOK
    <3> QED BY <3>1, <3>2
  <2> QED BY <2>1, <2>3, <1>11 DEF SessionInv, BidsNeedSession
<1>13. CASE WorkerStops
  <2>1. /\ Continue /\ pc \in Waits /\ StartNext(commitments, queue, None)
        /\ UNCHANGED <<registered, responses, learningDirty>>
    BY <1>13 DEF WorkerStops
  <2>2. QueueMatches(commitments, queue) /\ queue \in Seq(Ids) /\ None \in Work \cup {None}
        /\ commitments \in [Ids -> Commitments \cup {None}]
    BY DEF ContractInv, QueueIsAwards, TypeOK
  <2>3. \A i \in Ids : In(commitments', i, {"Pending"}) => In(commitments, i, {"Pending"})
    BY <2>1, <2>2, StartNextBids
  <2> QED BY <2>1, <2>3, <1>11 DEF SessionInv, BidsNeedSession
<1>14. ASSUME NEW s \in Snapshots \cup {None}, NEW choice \in Decisions,
              MarketChanges(s, choice)
       PROVE  SessionInv'
  <2>1. Continue /\ pc \in Waits /\ UNCHANGED <<registered, learningDirty>>
    BY <1>14 DEF MarketChanges
  <2>2. CASE pc = "select" /\ registered
    <3>1. /\ commitments' = Repriced(commitments, s, choice)
          /\ responses' = Revisions(commitments, s, choice)
      BY <1>14, <2>2 DEF MarketChanges
    <3>2. ASSUME NEW i \in Moved(commitments, s), choice[i] # None
          PROVE  /\ Reply(i, choice[i]) = [type |-> "PROPOSE", id |-> i, bid |-> choice[i]]
                 /\ In(commitments', i, {"Pending"})
                 /\ commitments'[i].bid = choice[i]
      <4>1. i \in Ids /\ commitments[i] \in Commitments /\ commitments[i].stage = "Pending"
        BY <3>2 DEF Moved, In, TypeOK
      <4>2. commitments'[i] = [commitments[i] EXCEPT !.bid = choice[i], !.score = s[i]]
        BY <3>1, <3>2, <4>1 DEF Repriced
      <4>3. commitments'[i].stage = "Pending" /\ commitments'[i].bid = choice[i]
        BY <4>1, <4>2 DEF Commitments
      <4>4. commitments'[i] # None
        <5>1. choice[i] \in Bids /\ s[i] \in Scores \cup {NoScore}
          BY <3>2, <4>1 DEF Decisions, Moved, Snapshots
        <5>2. commitments'[i] \in Commitments
          BY <4>1, <4>2, <5>1 DEF Commitments
        <5> QED BY <5>2, NoneAssumption
      <4> QED BY <3>2, <4>3, <4>4 DEF Reply, In
    <3>3. ResponsesCurrent'
      <4> SUFFICES ASSUME NEW m \in responses'
                   PROVE  /\ m.type = "PROPOSE"
                          /\ In(commitments', m.id, {"Pending"})
                          /\ commitments'[m.id].bid = m.bid
        BY DEF ResponsesCurrent
      <4>1. PICK i \in Moved(commitments, s) : choice[i] # None /\ m = Reply(i, choice[i])
        BY <3>1 DEF Revisions
      <4>2. m.type = "PROPOSE" /\ m.id = i /\ m.bid = choice[i]
        BY <4>1 DEF Reply
      <4> QED BY <3>2, <4>1, <4>2
    <3> QED BY <2>1, <2>2, <3>3, RepliesStep DEF Continue, TypeOK
  <2>3. CASE ~(pc = "select" /\ registered)
    <3>1. UNCHANGED <<commitments, responses>>
      BY <1>14, <2>3 DEF MarketChanges
    <3>2. \A i \in Ids : In(commitments', i, {"Pending"}) => In(commitments, i, {"Pending"})
      BY <3>1 DEF In
    <3> QED BY <2>1, <3>1, <3>2, <1>11 DEF SessionInv, BidsNeedSession
  <2> QED BY <2>2, <2>3
<1>15. CASE MarketExpires \/ UNCHANGED vars
  BY <1>15 DEF MarketExpires, vars, SessionInv, FlushedBeforeListening, NothingUnsaved,
       BidsNeedSession, ResponsesCurrent, In
<1> QED
  BY <1>1, <1>2, <1>3, <1>4, <1>5, <1>6, <1>7, <1>8, <1>9, <1>10, <1>12, <1>13,
     <1>14, <1>15
     DEF Next, RunLoop, Writes, Receives, Background

-----------------------------------------------------------------------------
(* The theorems.                                                           *)

LEMMA InitInv == Init => Inv
<1> SUFFICES ASSUME Init PROVE Inv
  OBVIOUS
<1>1. TypeInv
  BY InitType
<1>2. ContractInv
  BY DEF Init, NoCommitments, ContractInv, QueueIsAwards, QueueMatches, WorkConserving,
         WorkerHasContract, ResultsBacked, OpenContracts, In
<1>3. SessionInv
  BY DEF Init, NoCommitments, SessionInv, FlushedBeforeListening, NothingUnsaved,
         BidsNeedSession, ResponsesCurrent, In
<1> QED BY <1>1, <1>2, <1>3 DEF Inv

\* In a room that does not offer a closed attempt again, the client's queue,
\* worker, commitments, outbox and session agree with each other in every
\* reachable state, whatever the manager sends and however connections fail.
THEOREM Invariance == ASSUME LoopingRoom = FALSE PROVE Spec => []Inv
<1>1. Inv /\ [Next]_vars => Inv'
  BY StepType, ContractStep, SessionStep DEF Inv
<1> QED BY <1>1, InitInv, PTL DEF Spec

\* The queue of the worker is the set of awards, each queued once.
THEOREM QueueCorrect == ASSUME LoopingRoom = FALSE PROVE Spec => []QueueIsAwards
<1>1. Inv => QueueIsAwards
  BY DEF Inv, ContractInv
<1> QED BY <1>1, Invariance, PTL

\* The worker is never idle while an award waits for it.
THEOREM WorkerBusy == ASSUME LoopingRoom = FALSE PROVE Spec => []WorkConserving
<1>1. Inv => WorkConserving
  BY DEF Inv, ContractInv
<1> QED BY <1>1, Invariance, PTL

\* The worker computes the running contract or one already settled.
THEOREM WorkerCorrect == ASSUME LoopingRoom = FALSE PROVE Spec => []WorkerHasContract
<1>1. Inv => WorkerHasContract
  BY DEF Inv, ContractInv
<1> QED BY <1>1, Invariance, PTL

\* Every result kept for delivery belongs to the attempt it was computed for.
THEOREM OutboxCorrect == ASSUME LoopingRoom = FALSE PROVE Spec => []ResultsBacked
<1>1. Inv => ResultsBacked
  BY DEF Inv, ContractInv
<1> QED BY <1>1, Invariance, PTL

\* A registered client reads the next message only with an empty outbox.
THEOREM Flushed == ASSUME LoopingRoom = FALSE PROVE Spec => []FlushedBeforeListening
<1>1. Inv => FlushedBeforeListening
  BY DEF Inv, SessionInv
<1> QED BY <1>1, Invariance, PTL

\* No failed write can come between recording an observation and saving it.
THEOREM Saved == ASSUME LoopingRoom = FALSE PROVE Spec => []NothingUnsaved
<1>1. Inv => NothingUnsaved
  BY DEF Inv, SessionInv
<1> QED BY <1>1, Invariance, PTL

\* No bid outlives the session that made it.
THEOREM BidsOfSession == ASSUME LoopingRoom = FALSE PROVE Spec => []BidsNeedSession
<1>1. Inv => BidsNeedSession
  BY DEF Inv, SessionInv
<1> QED BY <1>1, Invariance, PTL

\* Every reply still to be written agrees with the bids the client tracks.
THEOREM RepliesCorrect == ASSUME LoopingRoom = FALSE PROVE Spec => []ResponsesCurrent
<1>1. Inv => ResponsesCurrent
  BY DEF Inv, SessionInv
<1> QED BY <1>1, Invariance, PTL

-----------------------------------------------------------------------------
(* Completion.                                                             *)

\* The worker starting its next task completes nothing.
LEMMA StartNextCompletes ==
  ASSUME NEW c \in [Ids -> Commitments \cup {None}],
         NEW q \in Seq(Ids),
         NEW w \in Work \cup {None},
         QueueMatches(c, q),
         StartNext(c, q, w)
  PROVE  \A i \in Ids : In(commitments', i, {"Complete"}) => In(c, i, {"Complete"})
<1> SUFFICES ASSUME NEW i \in Ids, In(commitments', i, {"Complete"})
             PROVE  In(c, i, {"Complete"})
  OBVIOUS
<1>1. CASE commitments' = c
  BY <1>1
<1>2. CASE commitments' # c
  <2>1. PICK j \in Ids : /\ In(c, j, {"Awarded"})
                         /\ commitments' = [c EXCEPT ![j] = [c[j] EXCEPT !.stage = "Running"]]
    BY <1>2, StartNextContracts
  <2>2. c[j] \in Commitments
    BY <2>1 DEF In
  <2>3. j # i
    BY <2>1, <2>2 DEF In, Commitments
  <2> QED BY <2>1, <2>3 DEF In
<1> QED BY <1>1, <1>2

LEMMA CompletionStep ==
  ASSUME Inv, [Next]_vars, NEW i \in Ids, In(commitments', i, {"Complete"})
  PROVE  In(commitments, i, {"Running", "Complete"})
<1> USE DEF Inv, TypeInv
<1>1. ASSUME commitments'[i] = commitments[i] PROVE In(commitments, i, {"Running", "Complete"})
  BY <1>1 DEF In
<1>2. CASE \/ Launch \/ Connect \/ Retry \/ SendRegister \/ SendResult \/ SaveLearning
           \/ MarketExpires \/ UNCHANGED vars
  BY <1>1, <1>2 DEF Launch, Connect, Retry, SendRegister, SendResult, SaveLearning,
                    MarketExpires, vars
<1>3. CASE Interrupt \/ Evicted
  BY <1>3 DEF Interrupt, Evicted, Exit, NoCommitments, In
<1>4. CASE Disconnect \/ SendFails
  BY <1>1, <1>4 DEF Disconnect, SendFails, EndSession, ContractsOnly, In
<1>5. ASSUME NEW m \in responses, SendResponse(m) PROVE In(commitments, i, {"Running", "Complete"})
  BY <1>1, <1>5 DEF SendResponse
<1>6. ASSUME NEW offers \in Offers, NEW choice \in Decisions, Consider(offers, choice)
      PROVE  In(commitments, i, {"Running", "Complete"})
  <2>1. \/ commitments'[i] \in {commitments[i], None}
        \/ commitments'[i] = [attempt |-> offers[i], bid |-> choice[i],
                              score |-> IF market = None THEN NoScore ELSE market[i],
                              timed |-> FALSE, stage |-> "Pending"]
    BY <1>6 DEF Consider, Proposed
  <2> QED BY <2>1, <1>1 DEF In
<1>7. ASSUME NEW t \in Ids, NEW a \in Attempts, NEW choice \in Decisions, Cfp(t, a, choice)
      PROVE  In(commitments, i, {"Running", "Complete"})
  <2>1. {t} \in SUBSET Ids /\ [j \in {t} |-> a] \in [{t} -> Attempts]
    OBVIOUS
  <2>2. [j \in {t} |-> a] \in Offers
    BY <2>1 DEF Offers
  <2> QED BY <1>6, <1>7, <2>2 DEF Cfp
<1>8. ASSUME NEW t \in Ids, AcceptProposal(t) PROVE In(commitments, i, {"Running", "Complete"})
  <2> DEFINE c == [commitments EXCEPT ![t].stage = "Awarded"]
             q == Append(queue, t)
  <2>1. In(commitments, t, {"Pending"}) /\ StartNext(c, q, active)
    BY <1>8 DEF AcceptProposal
  <2>2. commitments[t] \in Commitments
    BY <2>1 DEF In, TypeOK
  <2>3. c \in [Ids -> Commitments \cup {None}] /\ q \in Seq(Ids) /\ active \in Work \cup {None}
    BY <2>2, AppendProperties DEF TypeOK, Commitments, Stages
  <2>4. QueueMatches(c, q)
    BY <2>1, AppendMatches DEF ContractInv, QueueIsAwards, TypeOK
  <2>5. c[t].stage = "Awarded" /\ (i # t => c[i] = commitments[i])
    BY <2>2 DEF Commitments, TypeOK
  <2> HIDE DEF c, q
  <2>6. In(c, i, {"Complete"})
    BY <2>1, <2>3, <2>4, StartNextCompletes
  <2> QED BY <2>5, <2>6 DEF In
<1>9. ASSUME NEW t \in Ids, BidDeclined(t) \/ \E graded \in BOOLEAN : Settled(t, graded)
      PROVE  In(commitments, i, {"Running", "Complete"})
  <2>1. commitments' = [commitments EXCEPT ![t] = None]
    BY <1>9 DEF BidDeclined, Settled
  <2> QED BY <2>1, <1>1 DEF In, TypeOK
<1>10. QueueMatches(commitments, queue) /\ queue \in Seq(Ids) /\ None \in Work \cup {None}
       /\ commitments \in [Ids -> Commitments \cup {None}]
  BY DEF ContractInv, QueueIsAwards, TypeOK
<1>11. ASSUME StartNext(commitments, queue, None) PROVE In(commitments, i, {"Running", "Complete"})
  BY <1>10, <1>11, StartNextCompletes DEF In
<1>12. ASSUME NEW type \in {"INFORM", "FAILURE"}, FinishWork(type)
       PROVE  In(commitments, i, {"Running", "Complete"})
  <2>1. CASE Ours(active)
    <3> DEFINE c == Completed(commitments, active.id, type)
    <3>1. active # None /\ active \in Work /\ StartNext(c, queue, None)
      BY <1>12, <2>1 DEF FinishWork, TypeOK
    <3>2. active.id \in Ids /\ In(commitments, active.id, {"Running"})
      BY <2>1, <3>1, OursIsRunning
    <3>3. commitments[active.id] \in Commitments /\ commitments[active.id].stage = "Running"
      BY <3>2 DEF In, TypeOK
    <3>4. /\ c \in [Ids -> Commitments \cup {None}]
          /\ c[active.id].stage = "Complete"
          /\ \A t \in Ids : t # active.id => c[t] = commitments[t]
      BY <3>2, <3>3 DEF TypeOK, Completed, Commitments, Stages
    <3> HIDE DEF c
    <3>5. QueueMatches(c, queue)
      <4>1. \A t \in Ids : In(c, t, {"Awarded"}) <=> In(commitments, t, {"Awarded"})
        BY <3>3, <3>4 DEF In
      <4> QED BY <1>10, <4>1 DEF QueueMatches
    <3>6. In(c, i, {"Complete"})
      BY <3>1, <3>4, <3>5, <1>10, StartNextCompletes
    <3>7. CASE i = active.id
      BY <3>2, <3>7 DEF In
    <3>8. CASE i # active.id
      BY <3>4, <3>6, <3>8 DEF In
    <3> QED BY <3>7, <3>8
  <2>2. CASE ~Ours(active)
    BY <1>11, <1>12, <2>2 DEF FinishWork
  <2> QED BY <2>1, <2>2
<1>13. CASE WorkerStops
  BY <1>11, <1>13 DEF WorkerStops
<1>14. ASSUME NEW s \in Snapshots \cup {None}, NEW choice \in Decisions, MarketChanges(s, choice)
       PROVE  In(commitments, i, {"Running", "Complete"})
  <2>1. CASE commitments' = commitments
    BY <1>1, <2>1
  <2>2. CASE commitments' = Repriced(commitments, s, choice)
    <3>1. CASE i \in Moved(commitments, s)
      <4>1. commitments[i] \in Commitments /\ commitments[i].stage = "Pending"
        BY <3>1 DEF Moved, In, TypeOK
      <4>2. commitments'[i].stage = "Pending"
        BY <2>2, <4>1 DEF Repriced, Commitments
      <4> QED BY <4>2 DEF In
    <3>2. CASE i \notin Moved(commitments, s)
      BY <1>1, <2>2, <3>2 DEF Repriced
    <3> QED BY <3>1, <3>2
  <2> QED BY <1>14, <2>1, <2>2 DEF MarketChanges
<1>15. ASSUME NEW offers \in Offers, NEW choice \in Decisions, Registered(offers, choice)
       PROVE  In(commitments, i, {"Running", "Complete"})
  BY <1>6, <1>15 DEF Registered
<1> QED
  BY <1>2, <1>3, <1>4, <1>5, <1>7, <1>8, <1>9, <1>12, <1>13, <1>14, <1>15
     DEF Next, RunLoop, Writes, Receives, Background

\* A result is posted only for the contract that was being computed: never for
\* a new award of the same task and attempt.
THEOREM OnlyRunningCompletes == ASSUME LoopingRoom = FALSE PROVE Spec => CompletesOnlyRunning
<1>1. Inv /\ [Next]_vars =>
        [\A i \in Ids : In(commitments, i, {"Complete"})' =>
            In(commitments, i, {"Running", "Complete"})]_vars
  <2> SUFFICES ASSUME Inv, [Next]_vars, NEW i \in Ids, In(commitments', i, {"Complete"})
               PROVE  In(commitments, i, {"Running", "Complete"})
    BY DEF In
  <2> QED BY CompletionStep
<1> QED BY <1>1, Invariance, PTL DEF Spec, CompletesOnlyRunning

-----------------------------------------------------------------------------
(* The client implements the ledger of contracts.                          *)

\* How one step may change the commitment on one task.
Advanced(c, d, i, from, to) == /\ In(c, i, from) /\ In(d, i, to)
                               /\ d[i].attempt = c[i].attempt
Moves(i) ==
  \/ commitments'[i] = commitments[i]
  \/ Idle(commitments, i) /\ Idle(commitments', i)
  \/ Advanced(commitments, commitments', i, {"Pending"}, {"Awarded", "Running"})
  \/ Advanced(commitments, commitments', i, {"Awarded"}, {"Running"})
  \/ Advanced(commitments, commitments', i, {"Running"}, {"Complete"})
  \/ /\ commitments[i] # None /\ commitments'[i] = None
     /\ <<i, commitments[i].attempt>> \in closed'

SettledNow == {i \in Ids : /\ commitments[i] # None /\ commitments'[i] = None
                           /\ <<i, commitments[i].attempt>> \in closed'}

LEMMA MovesStep ==
  ASSUME TypeOK, TypeOK', ContractInv', WorkerCanStop = FALSE,
         \A i \in Ids : Moves(i),
         closed \subseteq closed',
         closed' \ closed \subseteq {<<i, commitments[i].attempt>> : i \in SettledNow}
  PROVE  Ledger!Step
<1> DEFINE View(c) == [i \in Ids |-> IF c[i] = None THEN None
                                     ELSE [attempt |-> c[i].attempt, stage |-> c[i].stage]]
           k == View(commitments)
           k2 == View(commitments')
<1>1. ASSUME NEW c \in [Ids -> Commitments \cup {None}], NEW i \in Ids
      PROVE  /\ c[i] = None => View(c)[i] = None
             /\ c[i] # None => /\ View(c)[i] # None
                               /\ View(c)[i].attempt = c[i].attempt
                               /\ View(c)[i].stage = c[i].stage
  <2>1. c[i] # None => c[i] \in Commitments
    BY <1>1
  <2>2. c[i] # None => [attempt |-> c[i].attempt, stage |-> c[i].stage] # None
    BY <2>1, NoneAssumption DEF Commitments
  <2> QED BY <2>2
<1>2. ASSUME NEW i \in Ids
      PROVE  /\ commitments[i] = None => k[i] = None
             /\ commitments[i] # None => /\ k[i] # None
                                         /\ k[i].attempt = commitments[i].attempt
                                         /\ k[i].stage = commitments[i].stage
  <2>1. commitments \in [Ids -> Commitments \cup {None}]
    BY DEF TypeOK
  <2> QED BY <1>1, <2>1
<1>3. ASSUME NEW i \in Ids
      PROVE  /\ commitments'[i] = None => k2[i] = None
             /\ commitments'[i] # None => /\ k2[i] # None
                                          /\ k2[i].attempt = commitments'[i].attempt
                                          /\ k2[i].stage = commitments'[i].stage
  <2>1. commitments' \in [Ids -> Commitments \cup {None}]
    BY DEF TypeOK
  <2> QED BY <1>1, <2>1
<1>4. ASSUME NEW i \in Ids, commitments'[i] = commitments[i] PROVE k2[i] = k[i]
  BY <1>4
<1> HIDE DEF View, k, k2
<1> DEFINE Same(i) == k2[i] = k[i]
           Bid(i) == /\ Ledger!Stage(k[i]) \in {"None", "Pending"}
                     /\ Ledger!Stage(k2[i]) \in {"None", "Pending"}
           Advance(i) == /\ <<Ledger!Stage(k[i]), Ledger!Stage(k2[i])>> \in
                               {<<"Pending", "Awarded">>, <<"Pending", "Running">>,
                                <<"Awarded", "Running">>, <<"Running", "Complete">>}
                         /\ k2[i].attempt = k[i].attempt
           Close(i) == /\ k[i] # None /\ k2[i] = None
                       /\ <<i, k[i].attempt>> \in closed'
<1>5. ASSUME NEW i \in Ids PROVE Same(i) \/ Bid(i) \/ Advance(i) \/ Close(i)
  <2>1. CASE commitments'[i] = commitments[i]
    BY <2>1, <1>4
  <2>2. CASE Idle(commitments, i) /\ Idle(commitments', i)
    <3>1. Bid(i)
      BY <2>2, <1>2, <1>3 DEF Idle, In, Ledger!Stage
    <3> QED BY <3>1
  <2>3. ASSUME NEW from, NEW to, Advanced(commitments, commitments', i, from, to)
        PROVE  /\ Ledger!Stage(k[i]) \in from /\ Ledger!Stage(k2[i]) \in to
               /\ k2[i].attempt = k[i].attempt
    BY <2>3, <1>2, <1>3 DEF Advanced, In, Ledger!Stage
  <2>4. CASE \/ Advanced(commitments, commitments', i, {"Pending"}, {"Awarded", "Running"})
             \/ Advanced(commitments, commitments', i, {"Awarded"}, {"Running"})
             \/ Advanced(commitments, commitments', i, {"Running"}, {"Complete"})
    <3> HIDE DEF Same, Bid, Close
    <3>1. Advance(i)
      BY <2>3, <2>4
    <3> QED BY <3>1
  <2>5. CASE /\ commitments[i] # None /\ commitments'[i] = None
             /\ <<i, commitments[i].attempt>> \in closed'
    <3>1. Close(i)
      BY <2>5, <1>2, <1>3
    <3> QED BY <3>1
  <2> HIDE DEF Same, Bid, Advance, Close
  <2> QED BY <2>1, <2>2, <2>4, <2>5 DEF Moves
<1>6. \A i, j \in Ids : k2[i] # None /\ k2[j] # None =>
        (k2[i].stage = "Running" /\ k2[j].stage = "Running" => i = j)
  <2> SUFFICES ASSUME NEW i \in Ids, NEW j \in Ids, k2[i] # None, k2[j] # None,
                      k2[i].stage = "Running", k2[j].stage = "Running"
               PROVE  i = j
    OBVIOUS
  <2>1. In(commitments', i, {"Running"}) /\ In(commitments', j, {"Running"})
    BY <1>3 DEF In
  <2>2. active'.id = i /\ active'.id = j
    BY <2>1 DEF ContractInv, WorkerHasContract
  <2> QED BY <2>2
<1>7. closed' \ closed \subseteq {<<i, k[i].attempt>> : i \in {j \in Ids : Close(j)}}
  <2> SUFFICES ASSUME NEW x \in closed' \ closed
               PROVE  \E i \in Ids : Close(i) /\ x = <<i, k[i].attempt>>
    OBVIOUS
  <2>1. PICK i \in SettledNow : x = <<i, commitments[i].attempt>>
    OBVIOUS
  <2>2. /\ i \in Ids /\ commitments[i] # None /\ commitments'[i] = None
        /\ <<i, commitments[i].attempt>> \in closed'
    BY <2>1 DEF SettledNow
  <2>3. Close(i) /\ x = <<i, k[i].attempt>>
    BY <2>1, <2>2, <1>2, <1>3
  <2> QED BY <2>2, <2>3
<1> QED BY <1>5, <1>6, <1>7 DEF View, k, k2, Ledger!Step, Ledger!Bids, Ledger!Advances,
                                Ledger!Closes, Ledger!OneAtATime

\* A step that only bids, and forgets bids, moves no contract.
LEMMA QuietMoves ==
  ASSUME TypeOK, TypeOK', ContractInv', WorkerCanStop = FALSE, UNCHANGED closed,
         \A i \in Ids : Moves(i)
  PROVE  Ledger!Step
<1>1. closed \subseteq closed' /\ closed' \ closed = {}
  OBVIOUS
<1> QED BY <1>1, MovesStep

\* The worker starting its next task moves that task's contract only.
LEMMA StartNextMoves ==
  ASSUME NEW c \in [Ids -> Commitments \cup {None}],
         NEW q \in Seq(Ids),
         NEW w \in Work \cup {None},
         QueueMatches(c, q),
         StartNext(c, q, w)
  PROVE  \A i \in Ids : \/ commitments'[i] = c[i]
                        \/ Advanced(c, commitments', i, {"Awarded"}, {"Running"})
<1> SUFFICES ASSUME NEW i \in Ids, commitments'[i] # c[i]
             PROVE  Advanced(c, commitments', i, {"Awarded"}, {"Running"})
  OBVIOUS
<1>1. PICK j \in Ids : /\ In(c, j, {"Awarded"})
                       /\ commitments' = [c EXCEPT ![j] = [c[j] EXCEPT !.stage = "Running"]]
  BY StartNextContracts
<1>2. j = i /\ c[i] \in Commitments
  BY <1>1 DEF In
<1>3. commitments'[i] = [c[i] EXCEPT !.stage = "Running"]
  BY <1>1, <1>2
<1>4. commitments'[i] \in Commitments /\ commitments'[i].stage = "Running"
      /\ commitments'[i].attempt = c[i].attempt
  BY <1>2, <1>3 DEF Commitments, Stages
<1> QED BY <1>1, <1>2, <1>4, NoneAssumption DEF Advanced, In

LEMMA LedgerStep ==
  ASSUME Inv, Inv', WorkerCanStop = FALSE, [Next]_vars
  PROVE  Ledger!Next \/ UNCHANGED Ledger!vars
<1> USE DEF Inv, TypeInv
<1>1. ASSUME UNCHANGED <<commitments, closed>> PROVE UNCHANGED Ledger!vars
  BY <1>1 DEF Ledger!vars
<1>2. CASE \/ Launch \/ Connect \/ Retry \/ SendRegister \/ SendResult \/ SaveLearning
           \/ MarketExpires \/ UNCHANGED vars
  BY <1>1, <1>2 DEF Launch, Connect, Retry, SendRegister, SendResult, SaveLearning,
                    MarketExpires, vars
<1>3. CASE Interrupt \/ Evicted
  <2>1. commitments' = [i \in Ids |-> None] /\ closed' = closed
    BY <1>3 DEF Interrupt, Evicted, Exit, NoCommitments
  <2>2. Ledger!Exit
    BY <2>1 DEF Ledger!Exit
  <2> QED BY <2>2 DEF Ledger!Next
<1>4. ASSUME Ledger!Step PROVE Ledger!Next
  BY <1>4 DEF Ledger!Next
<1>5. CASE Disconnect \/ SendFails
  <2>1. \A i \in Ids : Moves(i)
    BY <1>5 DEF Disconnect, SendFails, EndSession, ContractsOnly, Moves, Idle
  <2>2. UNCHANGED closed
    BY <1>5 DEF Disconnect, SendFails, EndSession
  <2> QED BY <1>4, <2>1, <2>2, QuietMoves
<1>6. ASSUME NEW m \in responses, SendResponse(m) PROVE UNCHANGED Ledger!vars
  BY <1>1, <1>6 DEF SendResponse
<1>7. ASSUME NEW offers \in Offers, NEW choice \in Decisions, Consider(offers, choice)
      PROVE  Ledger!Next
  <2>1. commitments' = Proposed(commitments, offers, choice) /\ UNCHANGED closed
    BY <1>7 DEF Consider
  <2>2. ASSUME NEW i \in Ids PROVE Moves(i)
    <3>1. CASE i \notin Considered(commitments, offers)
      BY <2>1, <3>1 DEF Proposed, Moves
    <3>2. CASE i \in Considered(commitments, offers)
      <4>1. Idle(commitments, i)
        BY <3>2 DEF Considered, Idle
      <4>2. commitments'[i] = None \/ commitments'[i].stage = "Pending"
        BY <2>1, <3>2 DEF Proposed
      <4> QED BY <4>1, <4>2 DEF Moves, Idle, In
    <3> QED BY <3>1, <3>2
  <2> QED BY <1>4, <2>1, <2>2, QuietMoves
<1>8. ASSUME NEW i \in Ids, NEW a \in Attempts, NEW choice \in Decisions, Cfp(i, a, choice)
      PROVE  Ledger!Next
  <2>1. {i} \in SUBSET Ids /\ [j \in {i} |-> a] \in [{i} -> Attempts]
    OBVIOUS
  <2>2. [j \in {i} |-> a] \in Offers
    BY <2>1 DEF Offers
  <2> QED BY <1>7, <1>8, <2>2 DEF Cfp
<1>9. ASSUME NEW i \in Ids, AcceptProposal(i) PROVE Ledger!Next
  <2> DEFINE c == [commitments EXCEPT ![i].stage = "Awarded"]
             q == Append(queue, i)
  <2>1. In(commitments, i, {"Pending"}) /\ StartNext(c, q, active) /\ UNCHANGED closed
    BY <1>9 DEF AcceptProposal
  <2>2. commitments[i] \in Commitments
    BY <2>1 DEF In, TypeOK
  <2>3. c \in [Ids -> Commitments \cup {None}] /\ q \in Seq(Ids) /\ active \in Work \cup {None}
    BY <2>2, AppendProperties DEF TypeOK, Commitments, Stages
  <2>4. QueueMatches(c, q)
    BY <2>1, AppendMatches DEF ContractInv, QueueIsAwards, TypeOK
  <2>5. /\ c[i].stage = "Awarded" /\ c[i].attempt = commitments[i].attempt
        /\ c[i] \in Commitments
        /\ \A t \in Ids : t # i => c[t] = commitments[t]
    BY <2>2 DEF Commitments, Stages, TypeOK
  <2> HIDE DEF c, q
  <2>6. ASSUME NEW t \in Ids PROVE Moves(t)
    <3>1. \/ commitments'[t] = c[t]
          \/ Advanced(c, commitments', t, {"Awarded"}, {"Running"})
      BY <2>1, <2>3, <2>4, StartNextMoves
    <3>2. CASE t # i
      <4>1. c[t] = commitments[t]
        BY <2>5, <3>2
      <4> QED BY <3>1, <4>1 DEF Moves, Advanced, In
    <3>3. CASE t = i
      <4>1. /\ In(commitments', i, {"Awarded", "Running"})
            /\ commitments'[i].attempt = commitments[i].attempt
        BY <3>1, <3>3, <2>5, NoneAssumption DEF Advanced, In
      <4> QED BY <2>1, <3>3, <4>1 DEF Moves, Advanced
    <3> QED BY <3>2, <3>3
  <2> QED BY <1>4, <2>1, <2>6, QuietMoves
<1>10. ASSUME NEW i \in Ids, BidDeclined(i) PROVE Ledger!Next
  <2>1. \A t \in Ids : Moves(t)
    BY <1>10 DEF BidDeclined, Moves, Idle, TypeOK
  <2> QED BY <1>4, <1>10, <2>1, QuietMoves DEF BidDeclined
<1>11. ASSUME NEW i \in Ids, NEW graded \in BOOLEAN, Settled(i, graded) PROVE Ledger!Next
  <2>1. /\ commitments' = [commitments EXCEPT ![i] = None]
        /\ closed' = IF commitments[i] = None THEN closed
                     ELSE closed \cup {<<i, commitments[i].attempt>>}
    BY <1>11 DEF Settled
  <2>2. /\ commitments'[i] = None
        /\ \A t \in Ids : t # i => commitments'[t] = commitments[t]
    BY <2>1 DEF TypeOK
  <2>3. \A t \in Ids : Moves(t)
    BY <2>1, <2>2 DEF Moves
  <2>4. closed' \ closed \subseteq {<<t, commitments[t].attempt>> : t \in SettledNow}
    BY <2>1, <2>2 DEF SettledNow
  <2>5. closed \subseteq closed'
    BY <2>1
  <2> QED BY <1>4, <2>3, <2>4, <2>5, MovesStep
<1>12. /\ QueueMatches(commitments, queue) /\ queue \in Seq(Ids) /\ None \in Work \cup {None}
       /\ commitments \in [Ids -> Commitments \cup {None}]
  BY DEF ContractInv, QueueIsAwards, TypeOK
<1>13. ASSUME NEW type \in {"INFORM", "FAILURE"}, FinishWork(type) PROVE Ledger!Next
  <2>1. UNCHANGED closed /\ active # None /\ active \in Work
    BY <1>13 DEF FinishWork, TypeOK
  <2>2. CASE Ours(active)
    <3> DEFINE c == Completed(commitments, active.id, type)
    <3>1. StartNext(c, queue, None)
      BY <1>13, <2>2 DEF FinishWork
    <3>2. active.id \in Ids /\ In(commitments, active.id, {"Running"})
      BY <2>1, <2>2, OursIsRunning
    <3>3. commitments[active.id] \in Commitments /\ commitments[active.id].stage = "Running"
      BY <3>2 DEF In, TypeOK
    <3>4. /\ c \in [Ids -> Commitments \cup {None}]
          /\ c[active.id].stage = "Complete" /\ c[active.id] \in Commitments
          /\ c[active.id].attempt = commitments[active.id].attempt
          /\ \A t \in Ids : t # active.id => c[t] = commitments[t]
      BY <3>2, <3>3 DEF TypeOK, Completed, Commitments, Stages
    <3> HIDE DEF c
    <3>5. QueueMatches(c, queue)
      <4>1. \A t \in Ids : In(c, t, {"Awarded"}) <=> In(commitments, t, {"Awarded"})
        BY <3>3, <3>4 DEF In
      <4> QED BY <1>12, <4>1 DEF QueueMatches
    <3>6. ASSUME NEW t \in Ids PROVE Moves(t)
      <4>1. \/ commitments'[t] = c[t]
            \/ Advanced(c, commitments', t, {"Awarded"}, {"Running"})
        BY <3>1, <3>4, <3>5, <1>12, StartNextMoves
      <4>2. CASE t # active.id
        <5>1. c[t] = commitments[t]
          BY <3>4, <4>2
        <5> QED BY <4>1, <5>1 DEF Moves, Advanced, In
      <4>3. CASE t = active.id
        <5>1. commitments'[t] = c[t]
          BY <3>4, <4>1, <4>3 DEF Advanced, In
        <5> QED BY <3>2, <3>4, <4>3, <5>1, NoneAssumption DEF Moves, Advanced, In
      <4> QED BY <4>2, <4>3
    <3> QED BY <1>4, <2>1, <3>6, QuietMoves
  <2>3. CASE ~Ours(active)
    <3>1. StartNext(commitments, queue, None)
      BY <1>13, <2>3 DEF FinishWork
    <3>2. \A t \in Ids : Moves(t)
      BY <3>1, <1>12, StartNextMoves DEF Moves
    <3> QED BY <1>4, <2>1, <3>2, QuietMoves
  <2> QED BY <2>2, <2>3
<1>14. ~WorkerStops
  BY DEF WorkerStops
<1>15. ASSUME NEW s \in Snapshots \cup {None}, NEW choice \in Decisions, MarketChanges(s, choice)
       PROVE  Ledger!Next
  <2>1. \A i \in Ids : Moves(i)
    <3>1. CASE commitments' = commitments
      BY <3>1 DEF Moves
    <3>2. CASE commitments' = Repriced(commitments, s, choice)
      <4> SUFFICES ASSUME NEW i \in Ids, i \in Moved(commitments, s) PROVE Moves(i)
        BY <3>2 DEF Repriced, Moves
      <4>1. Idle(commitments, i) /\ commitments[i] \in Commitments
            /\ commitments[i].stage = "Pending"
        BY DEF Moved, Idle, In, TypeOK
      <4>2. commitments'[i].stage = "Pending"
        BY <3>2, <4>1 DEF Repriced, Commitments
      <4> QED BY <4>1, <4>2 DEF Moves, Idle, In
    <3> QED BY <1>15, <3>1, <3>2 DEF MarketChanges
  <2>2. UNCHANGED closed
    BY <1>15 DEF MarketChanges
  <2> QED BY <1>4, <2>1, <2>2, QuietMoves
<1>16. ASSUME NEW offers \in Offers, NEW choice \in Decisions, Registered(offers, choice)
       PROVE  Ledger!Next
  BY <1>7, <1>16 DEF Registered
<1> QED
  BY <1>2, <1>3, <1>5, <1>6, <1>8, <1>9, <1>10, <1>11, <1>13, <1>14, <1>15, <1>16
     DEF Next, RunLoop, Writes, Receives, Background

\* In a room that never offers a settled attempt again, with a worker that is
\* never torn down, the client implements the ledger: one contract computed at
\* a time, no stage skipped, none forgotten before it is settled.
THEOREM Refinement ==
  ASSUME LoopingRoom = FALSE, WorkerCanStop = FALSE
  PROVE  Spec => KeepsLedger
<1>1. Init => Ledger!Init
  BY DEF Init, NoCommitments, Ledger!Init
<1>2. Inv /\ Inv' /\ [Next]_vars => [Ledger!Next]_Ledger!vars
  BY LedgerStep
<1> QED BY <1>1, <1>2, Invariance, PTL DEF Spec, KeepsLedger, Ledger!Spec

=============================================================================
