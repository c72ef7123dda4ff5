-------------------------- MODULE ContractNetProofs --------------------------
(***************************************************************************)
(* Theorems about the client joined to the manager by ContractNet, for     *)
(* every set of tasks and attempts, every buffer and any number of failing *)
(* connections.                                                            *)
(***************************************************************************)
EXTENDS ContractNet, ContractorProofs

-----------------------------------------------------------------------------
(* The inductive invariant.                                                *)

UpMessages == {Register} \cup Responses \cup Results
DownMessages == [type: {"REGISTERED"}, open: Offers] \cup
                [type: {"CFP"}, id: Ids, attempt: Attempts] \cup
                [type: {"ACCEPT", "REJECT", "ERROR"}, id: Ids] \cup
                [type: {"SETTLED"}, id: Ids, graded: BOOLEAN]

\* The attempt announced, or the next one to announce, is one of the task's.
RoundsExist ==
  \A i \in Ids : IF auction[i] = "idle" THEN round[i] + 1 \in Attempts
                                        ELSE round[i] \in Attempts

NetTypeInv == /\ TypeInv /\ NetTypeOK /\ RoundsExist
              /\ up \in Seq(UpMessages) /\ down \in Seq(DownMessages)

\* Message m announces task i, as attempt AttemptIn(m, i).
Mentions(m, i) == \/ m.type = "CFP" /\ m.id = i
                  \/ m.type = "REGISTERED" /\ i \in DOMAIN m.open
AttemptIn(m, i) == IF m.type = "CFP" THEN m.attempt ELSE m.open[i]

\* If the client with commitments c, after reading the messages before the k-th
\* of d, has a bid pending on task i, it is for attempt a.
Tracks(c, d, k, i, a) ==
  /\ \A j \in 1..(k - 1) :
       Mentions(d[j], i) /\ (\A l \in (j + 1)..(k - 1) : ~Mentions(d[l], i))
         => AttemptIn(d[j], i) = a
  /\ (\A j \in 1..(k - 1) : ~Mentions(d[j], i)) /\ In(c, i, {"Pending"})
       => c[i].attempt = a

\* Every ACCEPT on its way is read while a bid on the awarded attempt, or none,
\* is pending; a bid made on the messages so far is for the attempt announced.
AcceptsMatch(c, d) ==
  \A k \in 1..Len(d) : d[k].type = "ACCEPT" =>
    \E a \in Attempts : <<d[k].id, a>> \in awards /\ Tracks(c, d, k, d[k].id, a)
OpensMatch(c, d) ==
  \A i \in Ids : auction[i] = "open" => Tracks(c, d, Len(d) + 1, i, round[i])

LinkInv == /\ ~known => down = <<>>
           /\ AcceptsMatch(commitments, down)
           /\ known => OpensMatch(commitments, down)

\* What is queued is held, once.
QueueHeld(c, q) == /\ \A j, k \in DOMAIN q : q[j] = q[k] => j = k
                   /\ \A k \in DOMAIN q : In(c, q[k], Held)

Awarded(c) == \A i \in Ids : In(c, i, Held) => <<i, c[i].attempt>> \in awards

BooksInv == /\ Awarded(commitments)
            /\ QueueHeld(commitments, queue)
            /\ active # None => <<active.id, active.attempt>> \in awards

NetInv == NetTypeInv /\ LinkInv /\ BooksInv

-----------------------------------------------------------------------------
(* The client in the network is the client of Contractor.                  *)

LEMMA OfferedInRange ==
  ASSUME NetTypeInv
  PROVE  OpenCfps \in Offers
<1> DEFINE S == {j \in Ids : auction[j] = "open"}
<1>1. \A i \in S : round[i] \in Attempts
  BY DEF NetTypeInv, RoundsExist
<1>2. OpenCfps \in [S -> Attempts]
  BY <1>1 DEF OpenCfps
<1>3. S \in SUBSET Ids
  OBVIOUS
<1> QED BY <1>2, <1>3 DEF Offers

LEMMA HeadIn ==
  ASSUME NEW S, NEW s \in Seq(S), s # <<>>
  PROVE  Head(s) \in S /\ Tail(s) \in Seq(S)
  BY HeadTailProperties

LEMMA ReceiveIsNext ==
  ASSUME NEW m \in DownMessages, pc = "select", Receive(m)
  PROVE  [Next]_vars
<1>1. CASE m.type = "REGISTERED"
  <2>1. PICK choice \in Decisions : Registered(m.open, choice)
    BY <1>1 DEF Receive
  <2>2. m.open \in Offers
    BY <1>1 DEF DownMessages
  <2> QED BY <2>1, <2>2 DEF Next, Receives
<1>2. CASE m.type = "CFP"
  <2>1. PICK choice \in Decisions : Cfp(m.id, m.attempt, choice)
    BY <1>2 DEF Receive
  <2>2. m.id \in Ids /\ m.attempt \in Attempts
    BY <1>2 DEF DownMessages
  <2> QED BY <2>1, <2>2 DEF Next, Receives
<1>3. CASE m.type \in {"ACCEPT", "REJECT", "ERROR"}
  <2>1. m.id \in Ids
    BY <1>3 DEF DownMessages
  <2>2. AcceptProposal(m.id) \/ BidDeclined(m.id) \/ UNCHANGED vars
    BY <1>3 DEF Receive
  <2> QED BY <2>1, <2>2 DEF Next, Receives
<1>4. CASE m.type = "SETTLED"
  <2>1. Settled(m.id, m.graded)
    BY <1>4 DEF Receive
  <2>2. m.id \in Ids /\ m.graded \in BOOLEAN
    BY <1>4 DEF DownMessages
  <2> QED BY <2>1, <2>2 DEF Next, Receives
<1>5. m.type \in {"REGISTERED", "CFP", "ACCEPT", "REJECT", "ERROR", "SETTLED"}
  BY DEF DownMessages
<1> QED BY <1>1, <1>2, <1>3, <1>4, <1>5

LEMMA ClientStep ==
  ASSUME NetTypeInv, [NetNext]_allVars
  PROVE  [Next]_vars
<1>1. CASE NetLocal
  BY <1>1 DEF NetLocal, Local, Next, RunLoop, Writes, Background
<1>2. CASE NetSendRegister \/ NetSendResponse \/ NetSendResult
  BY <1>2 DEF NetSendRegister, NetSendResponse, NetSendResult, Next, Writes
<1>3. CASE Drop
  BY <1>3 DEF Drop, Next, RunLoop
<1>4. CASE NetReceive
  <2>1. Head(down) \in DownMessages
    BY <1>4, HeadIn DEF NetReceive, NetTypeInv
  <2> QED BY <1>4, <2>1, ReceiveIsNext DEF NetReceive
<1>5. CASE NetTake \/ UNCHANGED allVars
  BY <1>5 DEF NetTake, allVars
<1>6. ASSUME NEW i \in Ids,
             \/ NetAnnounce(i) \/ NetAward(i) \/ NetAwardRival(i)
             \/ NetRivalEnds(i) \/ NetTimeout(i)
      PROVE  UNCHANGED vars
  BY <1>6 DEF NetAnnounce, NetAward, NetAwardRival, NetRivalEnds, NetTimeout
<1> QED BY <1>1, <1>2, <1>3, <1>4, <1>5, <1>6 DEF NetNext

-----------------------------------------------------------------------------
(* Types.                                                                  *)

\* A message the manager sends leaves the channel typed.
LEMMA TellType ==
  ASSUME NEW m \in DownMessages, down \in Seq(DownMessages), Tell(m)
  PROVE  down' \in Seq(DownMessages)
  BY AppendProperties DEF Tell

LEMMA HalfWrittenType ==
  ASSUME TypeInv, NEW tail \in HalfWritten \cup {<<>>}
  PROVE  tail \in Seq(UpMessages)
<1>1. CASE tail = <<>>
  BY <1>1, EmptySeq
<1>2. CASE pc = "respond" /\ tail # <<>>
  <2>1. PICK m \in responses : tail = <<m>>
    BY <1>2 DEF HalfWritten
  <2>2. m \in UpMessages
    BY <2>1 DEF TypeInv, TypeOK, UpMessages
  <2> QED BY <2>1, <2>2
<1>3. CASE pc = "flush" /\ tail # <<>>
  <2>1. tail = <<Head(outbox)>>
    BY <1>3 DEF HalfWritten
  <2>2. Head(outbox) \in Results
    BY <1>3, HeadIn DEF TypeInv, TypeOK, LoopShape
  <2>3. Head(outbox) \in UpMessages
    BY <2>2 DEF UpMessages
  <2> QED BY <2>1, <2>3
<1>4. CASE pc \notin {"respond", "flush"}
  BY <1>1, <1>4 DEF HalfWritten
<1> QED BY <1>1, <1>2, <1>3, <1>4

LEMMA DropType ==
  ASSUME NetTypeInv, Drop
  PROVE  up' \in Seq(UpMessages) /\ down' \in Seq(DownMessages)
<1>1. PICK tail \in HalfWritten \cup {<<>>} :
        \E k \in 0..Len(Without(up, RegisterAt) \o tail) :
           up' = SubSeq(Without(up, RegisterAt) \o tail, 1, k)
  BY DEF Drop
<1> DEFINE w == Without(up, RegisterAt) \o tail
<1>2. tail \in Seq(UpMessages)
  BY HalfWrittenType DEF NetTypeInv
<1>3. Without(up, RegisterAt) \in Seq(UpMessages)
  BY WithoutType DEF RegisterAt, NetTypeInv
<1>4. w \in Seq(UpMessages)
  BY <1>2, <1>3
<1> HIDE DEF w
<1>5. PICK k \in 0..Len(w) : up' = SubSeq(w, 1, k)
  BY <1>1 DEF w
<1>6. up' \in Seq(UpMessages)
  BY <1>4, <1>5, SubSeqProperties, LenProperties
<1>7. down' = <<>>
  BY DEF Drop
<1> QED BY <1>6, <1>7, EmptySeq

\* What the client writes is a message.
LEMMA WrittenType ==
  ASSUME NetTypeInv, NEW m \in UpMessages, Written(m)
  PROVE  up' \in Seq(UpMessages) /\ UNCHANGED <<mgrVars, down, known, drops>>
  BY AppendProperties DEF Written, NetTypeInv

LEMMA TakeType ==
  ASSUME NetTypeInv, NetTake
  PROVE  /\ up' \in Seq(UpMessages) /\ down' \in Seq(DownMessages)
         /\ auction' \in [Ids -> Auctions] /\ offer' \in [Ids -> Bids \cup {None}]
         /\ RoundsExist' /\ known' \in BOOLEAN /\ UNCHANGED <<round, awards, drops>>
<1> DEFINE m == Head(up)
<1>1. m \in UpMessages /\ up' \in Seq(UpMessages)
  BY HeadIn DEF NetTake, NetTypeInv
<1>2. /\ auction \in [Ids -> Auctions] /\ round \in [Ids -> Attempts \cup {0}]
      /\ offer \in [Ids -> Bids \cup {None}] /\ known \in BOOLEAN
      /\ down \in Seq(DownMessages) /\ RoundsExist
  BY DEF NetTypeInv, NetTypeOK
<1>3. UNCHANGED drops
  BY DEF NetTake
<1> HIDE DEF m
<1>4. CASE m.type = "REGISTER"
  <2>1. TakeRegister
    BY <1>4 DEF NetTake, m
  <2>2. [type |-> "REGISTERED", open |-> OpenCfps] \in DownMessages
    BY OfferedInRange DEF DownMessages
  <2>3. down' \in Seq(DownMessages)
    BY <1>2, <2>1, <2>2, AppendProperties DEF TakeRegister
  <2> QED BY <1>1, <1>2, <1>3, <2>1, <2>3 DEF TakeRegister, mgrVars, RoundsExist
<1>5. CASE m.type \in {"PROPOSE", "REFUSE"}
  <2>1. TakeBid(m)
    BY <1>5 DEF NetTake, m
  <2>2. m.id \in Ids /\ (m.type = "PROPOSE" => m.bid \in Bids)
    BY <1>1, <1>5 DEF UpMessages, Register, Responses, Results
  <2>3. [type |-> "ERROR", id |-> m.id] \in DownMessages
    BY <2>2 DEF DownMessages
  <2>4. down' \in Seq(DownMessages)
    BY <1>2, <2>1, <2>3, TellType DEF TakeBid
  <2>5. UNCHANGED <<auction, round, awards, known>>
    BY <2>1 DEF TakeBid, TakeProposal, mgrVars
  <2>6. offer' \in [Ids -> Bids \cup {None}]
    BY <1>2, <2>1, <2>2 DEF TakeBid, TakeProposal, mgrVars
  <2> QED BY <1>1, <1>2, <1>3, <2>4, <2>5, <2>6 DEF RoundsExist
<1>6. CASE m.type \notin {"REGISTER", "PROPOSE", "REFUSE"}
  <2>1. TakeResult(m) /\ m.id \in Ids
    <3>1. TakeResult(m)
      BY <1>6 DEF NetTake, m
    <3>2. m \in Results
      BY <1>1, <1>6 DEF UpMessages, Register, Responses
    <3> QED BY <3>1, <3>2 DEF Results
  <2>2. CASE auction[m.id] = "ours"
    <3>1. PICK correct \in BOOLEAN, graded \in BOOLEAN :
            Settle(m.id, correct) /\ Tell(Books(m.id, graded))
      BY <2>1, <2>2 DEF TakeResult
    <3>2. down' \in Seq(DownMessages)
      BY <1>2, <2>1, <3>1, TellType DEF Books, DownMessages
    <3>3. UNCHANGED <<round, offer, awards, known>>
      BY <2>1, <3>1 DEF Settle, TakeResult
    <3>4. auction' \in [Ids -> Auctions] /\ RoundsExist'
      BY <1>2, <2>1, <2>2, <3>1, <3>3
         DEF Settle, AfterFailure, Reopens, Auctions, RoundsExist
    <3> QED BY <1>1, <1>2, <1>3, <3>2, <3>3, <3>4
  <2>3. CASE auction[m.id] # "ours"
    BY <1>1, <1>2, <1>3, <2>1, <2>3 DEF TakeResult, mgrVars, RoundsExist
  <2> QED BY <2>2, <2>3
<1> QED BY <1>4, <1>5, <1>6

LEMMA ManagerType ==
  ASSUME NetTypeInv, NEW i \in Ids,
         \/ NetAnnounce(i) \/ NetAward(i) \/ NetAwardRival(i)
         \/ NetRivalEnds(i) \/ NetTimeout(i)
  PROVE  /\ down' \in Seq(DownMessages)
         /\ auction' \in [Ids -> Auctions] /\ round' \in [Ids -> Attempts \cup {0}]
         /\ offer' \in [Ids -> Bids \cup {None}] /\ awards' \subseteq Ids \X Attempts
         /\ RoundsExist' /\ UNCHANGED <<up, known, drops>>
<1>1. /\ auction \in [Ids -> Auctions] /\ round \in [Ids -> Attempts \cup {0}]
      /\ offer \in [Ids -> Bids \cup {None}] /\ awards \subseteq Ids \X Attempts
      /\ down \in Seq(DownMessages) /\ RoundsExist /\ Attempts \subseteq Nat
  BY AttemptAssumption DEF NetTypeInv, NetTypeOK
<1>2. CASE NetAnnounce(i)
  <2>1. Announce(i) /\ UNCHANGED <<up, known, drops>>
    BY <1>2 DEF NetAnnounce
  <2>2. round[i] + 1 \in Attempts /\ round' = [round EXCEPT ![i] = round[i] + 1]
    BY <1>1, <2>1 DEF Announce, RoundsExist
  <2>3. [type |-> "CFP", id |-> i, attempt |-> round'[i]] \in DownMessages
    BY <1>1, <2>2 DEF DownMessages
  <2>4. down' \in Seq(DownMessages)
    BY <1>1, <1>2, <2>3, TellType DEF NetAnnounce
  <2>5. RoundsExist'
    BY <1>1, <2>1, <2>2 DEF Announce, RoundsExist
  <2> QED BY <1>1, <2>1, <2>2, <2>4, <2>5 DEF Announce, Auctions
<1>3. CASE NetAward(i)
  <2>1. Award(i) /\ UNCHANGED <<up, known, drops>>
    BY <1>3 DEF NetAward
  <2>2. down' \in Seq(DownMessages)
    BY <1>1, <1>3, TellType DEF NetAward, DownMessages
  <2>3. round[i] \in Attempts
    BY <1>1, <2>1 DEF Award, RoundsExist
  <2>4. RoundsExist'
    BY <1>1, <2>1, <2>3 DEF Award, RoundsExist
  <2> QED BY <1>1, <2>1, <2>2, <2>3, <2>4 DEF Award, Auctions
<1>4. CASE NetAwardRival(i)
  <2>1. AwardRival(i) /\ UNCHANGED <<up, known, drops>>
    BY <1>4 DEF NetAwardRival
  <2>2. down' \in Seq(DownMessages)
    BY <1>1, <1>4, TellType DEF NetAwardRival, DownMessages
  <2>3. round[i] \in Attempts
    BY <1>1, <2>1 DEF AwardRival, RoundsExist
  <2>4. RoundsExist'
    BY <1>1, <2>1, <2>3 DEF AwardRival, RoundsExist
  <2> QED BY <1>1, <2>1, <2>2, <2>4 DEF AwardRival, Auctions
<1>5. CASE NetRivalEnds(i)
  <2>1. RivalEnds(i) /\ UNCHANGED netVars
    BY <1>5 DEF NetRivalEnds
  <2>2. auction' \in [Ids -> Auctions] /\ RoundsExist'
    BY <1>1, <2>1 DEF RivalEnds, AfterFailure, Reopens, Auctions, RoundsExist
  <2> QED BY <1>1, <2>1, <2>2 DEF RivalEnds, netVars
<1>6. CASE NetTimeout(i)
  <2>1. Settle(i, FALSE) /\ UNCHANGED <<up, known, drops>>
    BY <1>6 DEF NetTimeout
  <2>2. down' \in Seq(DownMessages)
    BY <1>1, <1>6, TellType DEF NetTimeout, Books, DownMessages
  <2>3. auction' \in [Ids -> Auctions] /\ RoundsExist'
    BY <1>1, <2>1 DEF Settle, AfterFailure, Reopens, Auctions, RoundsExist
  <2> QED BY <1>1, <2>1, <2>2, <2>3 DEF Settle
<1> QED BY <1>2, <1>3, <1>4, <1>5, <1>6

LEMMA NetTypeStep == NetTypeInv /\ [NetNext]_allVars => NetTypeInv'
<1> SUFFICES ASSUME NetTypeInv, [NetNext]_allVars PROVE NetTypeInv'
  OBVIOUS
<1>1. TypeInv'
  BY ClientStep, StepType DEF NetTypeInv
<1> DEFINE Rest == /\ auction \in [Ids -> Auctions] /\ round \in [Ids -> Attempts \cup {0}]
                   /\ offer \in [Ids -> Bids \cup {None}] /\ awards \subseteq Ids \X Attempts
                   /\ known \in BOOLEAN /\ drops \in 0..MaxDrops /\ RoundsExist
                   /\ up \in Seq(UpMessages) /\ down \in Seq(DownMessages)
<1>2. Rest /\ (TypeInv' /\ Rest' => NetTypeInv')
  BY DEF NetTypeInv, NetTypeOK, TypeInv
<1>3. CASE NetLocal \/ UNCHANGED allVars
  <2>1. UNCHANGED <<mgrVars, netVars>>
    BY <1>3 DEF NetLocal, allVars
  <2> QED BY <1>1, <1>2, <2>1 DEF mgrVars, netVars, RoundsExist
<1>4. CASE NetSendRegister \/ NetSendResponse \/ NetSendResult
  <2>1. PICK m \in UpMessages : Written(m)
    <3>1. CASE NetSendRegister
      BY <3>1 DEF NetSendRegister, UpMessages
    <3>2. CASE NetSendResponse
      BY <3>2 DEF NetSendResponse, UpMessages, NetTypeInv, TypeInv, TypeOK
    <3>3. CASE NetSendResult
      <4>1. Head(outbox) \in Results
        BY <3>3, HeadIn DEF NetSendResult, SendResult, NetTypeInv, TypeInv, TypeOK, LoopShape
      <4> QED BY <3>3, <4>1 DEF NetSendResult, UpMessages
    <3> QED BY <1>4, <3>1, <3>2, <3>3
  <2>2. Rest'
    BY <1>2, <2>1, WrittenType DEF mgrVars, RoundsExist
  <2> QED BY <1>1, <1>2, <2>2
<1>5. CASE Drop
  <2>1. up' \in Seq(UpMessages) /\ down' \in Seq(DownMessages)
    BY <1>5, DropType
  <2>2. drops' \in 0..MaxDrops
    BY <1>2, <1>5, NetAssumption DEF Drop
  <2>3. known' = FALSE /\ offer' = [i \in Ids |-> None] /\ UNCHANGED <<auction, round, awards>>
    BY <1>5 DEF Drop, ForgetOffers
  <2> QED BY <1>1, <1>2, <2>1, <2>2, <2>3 DEF RoundsExist
<1>6. CASE NetReceive
  <2>1. down' \in Seq(DownMessages) /\ UNCHANGED <<mgrVars, up, known, drops>>
    BY <1>2, <1>6, HeadIn DEF NetReceive
  <2> QED BY <1>1, <1>2, <2>1 DEF mgrVars, RoundsExist
<1>7. CASE NetTake
  <2>1. Rest'
    BY <1>2, <1>7, TakeType
  <2> QED BY <1>1, <1>2, <2>1
<1>8. ASSUME NEW i \in Ids,
             \/ NetAnnounce(i) \/ NetAward(i) \/ NetAwardRival(i)
             \/ NetRivalEnds(i) \/ NetTimeout(i)
      PROVE  NetTypeInv'
  <2>1. Rest'
    BY <1>2, <1>8, ManagerType
  <2> QED BY <1>1, <1>2, <2>1
<1> QED BY <1>3, <1>4, <1>5, <1>6, <1>7, <1>8 DEF NetNext

LEMMA NetInitType == NetInit => NetTypeInv
<1> SUFFICES ASSUME NetInit PROVE NetTypeInv
  OBVIOUS
<1>1. TypeInv
  BY InitType DEF NetInit
<1>2. 0 + 1 \in Attempts /\ 0 \in 0..MaxDrops
  BY NetAssumption, AttemptAssumption
<1> QED BY <1>1, <1>2, EmptySeq
        DEF NetInit, MgrInit, NetTypeInv, NetTypeOK, TypeInv, RoundsExist, Auctions

\* The client, the manager's books and both channels stay in range.
THEOREM NetTypes == NetSpec => []NetTypeOK
<1>1. NetTypeInv => NetTypeOK
  BY DEF NetTypeInv
<1> QED BY <1>1, NetInitType, NetTypeStep, PTL DEF NetSpec

\* Joined to the manager, however messages and failures interleave, the client takes
\* only steps of Contractor: what is proved of Contractor holds in the network.
THEOREM ClientInNetwork == NetSpec => Spec
<1>1. NetInit => Init
  BY DEF NetInit
<1>2. NetTypeInv /\ [NetNext]_allVars => [Next]_vars
  BY ClientStep
<1> QED BY <1>1, <1>2, NetInitType, NetTypeStep, PTL DEF NetSpec, Spec

-----------------------------------------------------------------------------
(* Announcements and bids.                                                 *)

\* What is appended does not change what comes before it.
LEMMA TracksEarlier ==
  ASSUME NEW S, NEW d \in Seq(S), NEW m \in S, NEW c, NEW i, NEW a,
         NEW k \in 1..(Len(d) + 1)
  PROVE  Tracks(c, Append(d, m), k, i, a) <=> Tracks(c, d, k, i, a)
<1>1. \A j \in 1..(k - 1) : Append(d, m)[j] = d[j]
  BY AppendProperties
<1>2. \A j \in 1..(k - 1) : \A l \in (j + 1)..(k - 1) : l \in 1..(k - 1)
  OBVIOUS
<1> QED BY <1>1, <1>2 DEF Tracks

\* A message that does not announce the task changes nothing for it.
LEMMA TracksPast ==
  ASSUME NEW S, NEW d \in Seq(S), NEW m \in S, NEW c, NEW i, NEW a,
         ~Mentions(m, i), Tracks(c, d, Len(d) + 1, i, a)
  PROVE  Tracks(c, Append(d, m), Len(Append(d, m)) + 1, i, a)
<1> DEFINE e == Append(d, m)
           n == Len(d)
<1>1. /\ n \in Nat /\ Len(e) = n + 1 /\ e[n + 1] = m
      /\ \A j \in 1..n : e[j] = d[j]
  BY AppendProperties
<1> HIDE DEF e, n
<1>2. /\ \A j \in 1..n :
           Mentions(d[j], i) /\ (\A l \in (j + 1)..n : ~Mentions(d[l], i))
             => AttemptIn(d[j], i) = a
      /\ (\A j \in 1..n : ~Mentions(d[j], i)) /\ In(c, i, {"Pending"}) => c[i].attempt = a
  BY <1>1 DEF Tracks, n
<1>3. ASSUME NEW j \in 1..(n + 1), Mentions(e[j], i),
             \A l \in (j + 1)..(n + 1) : ~Mentions(e[l], i)
      PROVE  AttemptIn(e[j], i) = a
  <2>1. j \in 1..n /\ e[j] = d[j]
    BY <1>1, <1>3
  <2>2. \A l \in (j + 1)..n : ~Mentions(d[l], i)
    BY <1>1, <1>3, <2>1
  <2> QED BY <1>2, <1>3, <2>1, <2>2
<1>4. (\A j \in 1..(n + 1) : ~Mentions(e[j], i)) => \A j \in 1..n : ~Mentions(d[j], i)
  BY <1>1
<1>5. Tracks(c, e, n + 2, i, a)
  BY <1>1, <1>2, <1>3, <1>4 DEF Tracks
<1> QED BY <1>1, <1>5 DEF e

\* After an announcement of the task a bid can only be for the attempt announced.
LEMMA TracksAnnounced ==
  ASSUME NEW S, NEW d \in Seq(S), NEW m \in S, NEW c, NEW i, Mentions(m, i)
  PROVE  Tracks(c, Append(d, m), Len(Append(d, m)) + 1, i, AttemptIn(m, i))
<1> DEFINE e == Append(d, m)
           n == Len(d)
<1>1. n \in Nat /\ Len(e) = n + 1 /\ e[n + 1] = m
  BY AppendProperties
<1> HIDE DEF e, n
<1>2. ASSUME NEW j \in 1..(n + 1), \A l \in (j + 1)..(n + 1) : ~Mentions(e[l], i)
      PROVE  AttemptIn(e[j], i) = AttemptIn(m, i)
  <2>1. j = n + 1
    BY <1>1, <1>2
  <2> QED BY <1>1, <2>1
<1>3. ~\A j \in 1..(n + 1) : ~Mentions(e[j], i)
  BY <1>1
<1>4. Tracks(c, e, n + 2, i, AttemptIn(m, i))
  BY <1>1, <1>2, <1>3 DEF Tracks
<1> QED BY <1>1, <1>4 DEF e

\* A step of the client that makes no bid keeps the attempts of what it has.
AttemptKept(c, e, i) ==
  e[i] # None => /\ c[i] # None /\ e[i].attempt = c[i].attempt
                 /\ In(e, i, {"Pending"}) => In(c, i, {"Pending"})

LEMMA TracksQuiet ==
  ASSUME NEW c, NEW e, NEW d, NEW k, NEW i, NEW a,
         AttemptKept(c, e, i), Tracks(c, d, k, i, a)
  PROVE  Tracks(e, d, k, i, a)
  BY DEF AttemptKept, Tracks, In

\* Reading the first message, and bidding for what it announces.
LEMMA TracksRead ==
  ASSUME NEW S, NEW d \in Seq(S), d # <<>>, NEW c, NEW e, NEW i, NEW a,
         NEW k \in 2..(Len(d) + 1), Tracks(c, d, k, i, a),
         IF Mentions(Head(d), i)
         THEN In(e, i, {"Pending"}) => e[i].attempt = AttemptIn(Head(d), i)
         ELSE AttemptKept(c, e, i)
  PROVE  Tracks(e, Tail(d), k - 1, i, a)
<1> DEFINE g == Tail(d)
<1>1. /\ Len(d) \in Nat /\ Len(g) = Len(d) - 1 /\ Head(d) = d[1]
      /\ \A j \in 1..(Len(d) - 1) : g[j] = d[j + 1]
  BY HeadTailProperties
<1> HIDE DEF g
<1>2. \A j \in 1..(k - 2) : j + 1 \in 1..(k - 1) /\ g[j] = d[j + 1]
  BY <1>1
<1>3. ASSUME NEW j \in 1..(k - 2), Mentions(g[j], i),
             \A l \in (j + 1)..(k - 2) : ~Mentions(g[l], i)
      PROVE  AttemptIn(g[j], i) = a
  <2>1. ASSUME NEW l \in (j + 2)..(k - 1) PROVE ~Mentions(d[l], i)
    <3>1. l - 1 \in (j + 1)..(k - 2) /\ l - 1 \in 1..(k - 2) /\ (l - 1) + 1 = l
      OBVIOUS
    <3>2. g[l - 1] = d[l]
      BY <1>2, <3>1
    <3> QED BY <1>3, <3>1, <3>2
  <2>2. j + 1 \in 1..(k - 1) /\ g[j] = d[j + 1] /\ (j + 1) + 1 = j + 2
    BY <1>2
  <2> QED BY <1>3, <2>1, <2>2 DEF Tracks
<1>4. ASSUME \A j \in 1..(k - 2) : ~Mentions(g[j], i), In(e, i, {"Pending"})
      PROVE  e[i].attempt = a
  <2>1. ASSUME NEW l \in 2..(k - 1) PROVE ~Mentions(d[l], i)
    <3>1. l - 1 \in 1..(k - 2) /\ (l - 1) + 1 = l
      OBVIOUS
    <3>2. g[l - 1] = d[l]
      BY <1>2, <3>1
    <3> QED BY <1>4, <3>1, <3>2
  <2>2. CASE Mentions(Head(d), i)
    <3>1. AttemptIn(d[1], i) = a
      BY <1>1, <2>1, <2>2 DEF Tracks
    <3> QED BY <1>1, <1>4, <2>2, <3>1
  <2>3. CASE ~Mentions(Head(d), i)
    <3>1. \A j \in 1..(k - 1) : ~Mentions(d[j], i)
      BY <1>1, <2>1, <2>3
    <3> QED BY <1>4, <2>3, <3>1 DEF AttemptKept, Tracks, In
  <2> QED BY <2>2, <2>3
<1>5. k - 1 - 1 = k - 2
  OBVIOUS
<1>6. Tracks(e, g, k - 1, i, a)
  BY <1>3, <1>4, <1>5 DEF Tracks
<1> QED BY <1>6 DEF g

-----------------------------------------------------------------------------
(* The client's books.                                                     *)

LEMMA StartNextBooks ==
  ASSUME NEW c \in [Ids -> Commitments \cup {None}], NEW q \in Seq(Ids),
         NEW w \in Work \cup {None}, StartNext(c, q, w),
         Awarded(c), QueueHeld(c, q), w # None => <<w.id, w.attempt>> \in awards
  PROVE  /\ Awarded(commitments') /\ QueueHeld(commitments', queue')
         /\ active' # None => <<active'.id, active'.attempt>> \in awards
         /\ \A i \in Ids : AttemptKept(c, commitments', i)
<1>1. CASE w # None
  BY <1>1 DEF StartNext, AttemptKept
<1>2. CASE w = None /\ \A k \in DOMAIN q : c[q[k]] = None
  BY <1>2 DEF StartNext, AttemptKept, QueueHeld
<1>3. CASE w = None /\ ~\A k \in DOMAIN q : c[q[k]] = None
  <2>1. PICK k \in DOMAIN q :
          /\ c[q[k]] # None
          /\ commitments' = [c EXCEPT ![q[k]].stage = "Running"]
          /\ queue' = SubSeq(q, k + 1, Len(q))
          /\ active' = [id |-> q[k], attempt |-> c[q[k]].attempt]
    BY <1>3 DEF StartNext
  <2> DEFINE i == q[k]
             e == [c EXCEPT ![i].stage = "Running"]
  <2>2. k \in 1..Len(q) /\ Len(q) \in Nat /\ DOMAIN q = 1..Len(q) /\ i \in Ids
    BY LenProperties
  <2>3. In(c, i, Held) /\ c[i] \in Commitments
    BY <2>1, <2>2 DEF QueueHeld
  <2>4. /\ e[i].stage = "Running" /\ e[i].attempt = c[i].attempt /\ e[i] # None
        /\ \A j \in Ids : j # i => e[j] = c[j]
    <3>1. e[i] = [c[i] EXCEPT !.stage = "Running"] /\ \A j \in Ids : j # i => e[j] = c[j]
      BY <2>2
    <3>2. e[i] \in Commitments
      BY <2>3, <3>1 DEF Commitments, Stages
    <3> QED BY <2>3, <3>1, <3>2, NoneAssumption DEF Commitments
  <2> HIDE DEF i, e
  <2>5. \A j \in Ids : (In(e, j, Held) <=> In(c, j, Held)) /\ AttemptKept(c, e, j)
                       /\ (In(e, j, Held) => e[j].attempt = c[j].attempt)
    BY <2>2, <2>3, <2>4 DEF In, Held, AttemptKept
  <2>6. Awarded(e)
    BY <2>5 DEF Awarded
  <2>7. /\ Len(queue') = Len(q) - k
        /\ \A j \in 1..(Len(q) - k) : queue'[j] = q[k + j] /\ k + j \in DOMAIN q
    BY <2>1, <2>2, SubSeqProperties
  <2>8. DOMAIN queue' = 1..(Len(q) - k)
    <3>1. queue' \in Seq(Ids)
      BY <2>1, <2>2, SubSeqProperties
    <3> QED BY <2>7, <3>1, LenProperties
  <2>9. \A j \in DOMAIN q : q[j] \in Ids
    BY <2>2
  <2>10. QueueHeld(e, queue')
    BY <2>2, <2>5, <2>7, <2>8, <2>9 DEF QueueHeld
  <2>11. <<i, c[i].attempt>> \in awards
    BY <2>2, <2>3 DEF Awarded
  <2> QED BY <2>1, <2>5, <2>6, <2>10, <2>11 DEF e, i
<1> QED BY <1>1, <1>2, <1>3

\* What every step of the client that bids for nothing new leaves.
BooksKept == BooksInv' /\ \A i \in Ids : AttemptKept(commitments, commitments', i)

\* Commitments and bids of a step after which the queue and the worker are as before.
LEMMA QuietBooks ==
  ASSUME BooksInv, TypeInv, UNCHANGED <<awards, queue, active>>,
         \A i \in Ids : /\ In(commitments, i, Held) => commitments'[i] = commitments[i]
                        /\ In(commitments', i, Held) => In(commitments, i, Held)
  PROVE  BooksInv'
<1>1. /\ Awarded(commitments) /\ QueueHeld(commitments, queue)
      /\ active # None => <<active.id, active.attempt>> \in awards
      /\ \A k \in DOMAIN queue : queue[k] \in Ids
  BY LenProperties DEF BooksInv, TypeInv, TypeOK
<1>2. Awarded(commitments)'
  BY <1>1 DEF Awarded
<1>3. QueueHeld(commitments, queue)'
  BY <1>1 DEF QueueHeld, In
<1> QED BY <1>1, <1>2, <1>3 DEF BooksInv

LEMMA ConsiderBooks ==
  ASSUME BooksInv, TypeInv, UNCHANGED awards,
         NEW offers \in Offers, NEW choice \in Decisions, Consider(offers, choice)
  PROVE  /\ BooksInv'
         /\ \A i \in Ids : IF i \in DOMAIN offers
                           THEN In(commitments', i, {"Pending"})
                                  => commitments'[i].attempt = offers[i]
                           ELSE AttemptKept(commitments, commitments', i)
<1> DEFINE c == commitments
           e == Proposed(c, offers, choice)
           made(i) == [attempt |-> offers[i], bid |-> choice[i],
                       score |-> IF market = None THEN NoScore ELSE market[i],
                       timed |-> FALSE, stage |-> "Pending"]
<1>1. commitments' = e /\ UNCHANGED <<queue, active>>
  BY DEF Consider
<1>2. \A i \in Ids : e[i] = IF i \notin Considered(c, offers) THEN c[i]
                            ELSE IF choice[i] = None THEN None ELSE made(i)
  BY DEF Proposed
<1>3. \A i : made(i).stage = "Pending" /\ made(i).attempt = offers[i]
  OBVIOUS
<1>4. \A i \in Ids : i \in Considered(c, offers) <=>
                       i \in DOMAIN offers /\ (c[i] = None \/ In(c, i, {"Pending"}))
  BY DEF Considered
<1> HIDE DEF c, e, made
<1>5. \A i \in Ids : i \notin Considered(c, offers) => e[i] = c[i]
  BY <1>2
<1>6. \A i \in Ids : i \in Considered(c, offers) => e[i] = None \/ e[i] = made(i)
  BY <1>2
<1>7. \A i \in Ids : /\ In(c, i, Held) => e[i] = c[i]
                     /\ In(e, i, Held) => In(c, i, Held)
  BY <1>3, <1>4, <1>5, <1>6 DEF In, Held
<1>8. BooksInv'
  BY <1>1, <1>7, QuietBooks DEF c
<1>9. ASSUME NEW i \in Ids, i \in DOMAIN offers, In(e, i, {"Pending"})
      PROVE  e[i].attempt = offers[i]
  BY <1>3, <1>4, <1>5, <1>6, <1>9 DEF In
<1>10. ASSUME NEW i \in Ids, i \notin DOMAIN offers PROVE AttemptKept(c, e, i)
  BY <1>4, <1>5, <1>10 DEF AttemptKept, In
<1> QED BY <1>1, <1>8, <1>9, <1>10 DEF c

LEMMA AcceptBooks ==
  ASSUME BooksInv, TypeInv, UNCHANGED awards, NEW i \in Ids, AcceptProposal(i),
         <<i, commitments[i].attempt>> \in awards
  PROVE  BooksKept
<1> DEFINE c == [commitments EXCEPT ![i].stage = "Awarded"]
           q == Append(queue, i)
<1>1. /\ commitments \in [Ids -> Commitments \cup {None}] /\ queue \in Seq(Ids)
      /\ active \in Work \cup {None} /\ commitments[i] \in Commitments
      /\ In(commitments, i, {"Pending"}) /\ StartNext(c, q, active)
  BY DEF TypeInv, TypeOK, AcceptProposal, In
<1>2. /\ c \in [Ids -> Commitments \cup {None}] /\ c[i].stage = "Awarded"
      /\ c[i].attempt = commitments[i].attempt /\ c[i] # None
      /\ \A j \in Ids : j # i => c[j] = commitments[j]
  <2>1. c[i] = [commitments[i] EXCEPT !.stage = "Awarded"]
        /\ \A j \in Ids : j # i => c[j] = commitments[j]
    BY <1>1
  <2>2. c[i] \in Commitments
    BY <1>1, <2>1 DEF Commitments, Stages
  <2> QED BY <1>1, <2>1, <2>2, NoneAssumption DEF Commitments
<1>3. /\ q \in Seq(Ids) /\ DOMAIN q = 1..(Len(queue) + 1) /\ q[Len(queue) + 1] = i
      /\ Len(queue) \in Nat /\ DOMAIN queue = 1..Len(queue)
      /\ \A k \in 1..Len(queue) : q[k] = queue[k] /\ queue[k] \in Ids
  BY <1>1, AppendProperties, LenProperties
<1> HIDE DEF c, q
<1>4. Awarded(c)
  BY <1>2 DEF Awarded, In, Held, BooksInv
<1>5. \A k \in 1..Len(queue) : queue[k] # i
  BY <1>1, <1>3 DEF BooksInv, QueueHeld, In, Held
<1>6. \A j \in Ids : AttemptKept(commitments, c, j)
  BY <1>1, <1>2 DEF AttemptKept, In
<1>7. QueueHeld(c, q)
  <2>1. \A k \in 1..Len(queue) : In(c, q[k], Held)
    BY <1>2, <1>3, <1>5 DEF BooksInv, QueueHeld, In
  <2>2. In(c, q[Len(queue) + 1], Held)
    BY <1>2, <1>3 DEF In, Held
  <2>3. \A j, k \in DOMAIN q : q[j] = q[k] => j = k
    BY <1>3, <1>5 DEF BooksInv, QueueHeld
  <2> QED BY <1>3, <2>1, <2>2, <2>3 DEF QueueHeld
<1>8. active # None => <<active.id, active.attempt>> \in awards
  BY DEF BooksInv
<1>9. /\ Awarded(commitments') /\ QueueHeld(commitments', queue')
      /\ active' # None => <<active'.id, active'.attempt>> \in awards
      /\ \A j \in Ids : AttemptKept(c, commitments', j)
  BY <1>1, <1>2, <1>3, <1>4, <1>7, <1>8, StartNextBooks
<1>10. BooksInv'
  BY <1>9 DEF BooksInv, Awarded
<1>11. \A j \in Ids : AttemptKept(commitments, commitments', j)
  BY <1>6, <1>9 DEF AttemptKept
<1> QED BY <1>10, <1>11 DEF BooksKept

LEMMA DeclinedBooks ==
  ASSUME BooksInv, TypeInv, UNCHANGED awards, NEW i \in Ids, BidDeclined(i)
  PROVE  BooksKept
<1>1. /\ In(commitments, i, {"Pending"}) /\ UNCHANGED <<queue, active>>
      /\ commitments' = [commitments EXCEPT ![i] = None]
      /\ commitments \in [Ids -> Commitments \cup {None}]
  BY DEF BidDeclined, TypeInv, TypeOK
<1>2. commitments'[i] = None /\ \A j \in Ids : j # i => commitments'[j] = commitments[j]
  BY <1>1
<1>3. \A j \in Ids : /\ In(commitments, j, Held) => commitments'[j] = commitments[j]
                     /\ In(commitments', j, Held) => In(commitments, j, Held)
                     /\ AttemptKept(commitments, commitments', j)
  BY <1>1, <1>2 DEF In, Held, AttemptKept
<1> QED BY <1>1, <1>3, QuietBooks DEF BooksKept

\* A settlement takes its task out of the queue.
LEMMA WithoutHeld ==
  ASSUME NEW c, NEW e, NEW q \in Seq(Ids), QueueHeld(c, q), NEW i \in Ids,
         \A j \in Ids : j # i => e[j] = c[j]
  PROVE  QueueHeld(e, Without(q, QueuedAt(q, i)))
<1> DEFINE K == QueuedAt(q, i)
           p == Without(q, K)
<1>1. DOMAIN q = 1..Len(q) /\ Len(q) \in Nat /\ \A k \in DOMAIN q : q[k] \in Ids
  BY LenProperties
<1>2. CASE K = {}
  <2>1. p = q /\ \A k \in DOMAIN q : q[k] # i
    BY <1>2 DEF Without, QueuedAt
  <2>2. \A k \in DOMAIN q : In(e, q[k], Held)
    BY <1>1, <2>1 DEF QueueHeld, In
  <2>3. QueueHeld(e, q)
    BY <2>2 DEF QueueHeld
  <2> QED BY <2>1, <2>3
<1>3. CASE K # {}
  <2> DEFINE k == CHOOSE k \in K : TRUE
  <2>1. k \in 1..Len(q) /\ q[k] = i /\ p = RemoveAt(q, k)
    BY <1>1, <1>3 DEF QueuedAt, Without
  <2> HIDE DEF k, p, K
  <2>2. /\ p \in Seq(Ids) /\ Len(p) = Len(q) - 1
        /\ \A j \in 1..(Len(q) - 1) : p[j] = IF j < k THEN q[j] ELSE q[j + 1]
    BY <2>1, RemoveAtProperties
  <2>3. DOMAIN p = 1..(Len(q) - 1)
    BY <2>2, LenProperties
  <2> DEFINE from(j) == IF j < k THEN j ELSE j + 1
  <2>4. \A j \in DOMAIN p : from(j) \in DOMAIN q /\ from(j) # k /\ p[j] = q[from(j)]
    BY <1>1, <2>1, <2>2, <2>3
  <2>5. \A j, l \in DOMAIN p : from(j) = from(l) => j = l
    BY <1>1, <2>1, <2>3
  <2> HIDE DEF from
  <2>6. \A j, l \in DOMAIN p : p[j] = p[l] => j = l
    BY <2>4, <2>5 DEF QueueHeld
  <2>7. ASSUME NEW j \in DOMAIN p PROVE In(e, p[j], Held)
    <3>1. from(j) \in DOMAIN q /\ p[j] = q[from(j)] /\ q[from(j)] # i /\ q[from(j)] \in Ids
      BY <1>1, <2>1, <2>4 DEF QueueHeld
    <3>2. In(c, q[from(j)], Held)
      BY <3>1 DEF QueueHeld
    <3> QED BY <3>1, <3>2 DEF In
  <2>8. QueueHeld(e, p)
    BY <2>6, <2>7 DEF QueueHeld
  <2> QED BY <2>8 DEF p, K
<1> QED BY <1>2, <1>3

LEMMA SettledBooks ==
  ASSUME BooksInv, TypeInv, UNCHANGED awards, NEW i \in Ids, NEW graded, Settled(i, graded)
  PROVE  BooksKept
<1>1. /\ commitments' = [commitments EXCEPT ![i] = None] /\ UNCHANGED active
      /\ queue' = Without(queue, QueuedAt(queue, i)) /\ queue \in Seq(Ids)
      /\ commitments \in [Ids -> Commitments \cup {None}]
  BY DEF Settled, TypeInv, TypeOK
<1>2. commitments'[i] = None /\ \A j \in Ids : j # i => commitments'[j] = commitments[j]
  BY <1>1
<1>3. QueueHeld(commitments', queue')
  BY <1>1, <1>2, WithoutHeld DEF BooksInv
<1>4. Awarded(commitments)'
  BY <1>2 DEF Awarded, In, BooksInv
<1>5. \A j \in Ids : AttemptKept(commitments, commitments', j)
  BY <1>2 DEF AttemptKept, In
<1> QED BY <1>1, <1>3, <1>4, <1>5 DEF BooksKept, BooksInv

LEMMA FinishBooks ==
  ASSUME BooksInv, TypeInv, UNCHANGED awards, NEW type \in {"INFORM", "FAILURE"},
         FinishWork(type)
  PROVE  BooksKept
<1>1. /\ commitments \in [Ids -> Commitments \cup {None}] /\ queue \in Seq(Ids)
      /\ active # None /\ active \in Work /\ None \in Work \cup {None}
      /\ Awarded(commitments) /\ QueueHeld(commitments, queue)
      /\ <<active.id, active.attempt>> \in awards
  BY DEF TypeInv, TypeOK, FinishWork, BooksInv
<1>2. \A k \in DOMAIN queue : queue[k] \in Ids
  BY <1>1, LenProperties
<1>3. CASE Ours(active) /\ StartNext(Completed(commitments, active.id, type), queue, None)
  <2> DEFINE i == active.id
             c == Completed(commitments, i, type)
  <2>1. i \in Ids /\ commitments[i] \in Commitments /\ commitments[i].attempt = active.attempt
    BY <1>1, <1>3 DEF Ours, Work
  <2>2. /\ c \in [Ids -> Commitments \cup {None}]
        /\ \A j \in Ids : j # i => c[j] = commitments[j]
        /\ c[i] # None /\ c[i].stage = "Complete" /\ c[i].attempt = commitments[i].attempt
    <3>1. /\ c[i] = [commitments[i] EXCEPT !.stage = "Complete",
                                           !.timed = commitments[i].timed \/ type = "INFORM"]
          /\ \A j \in Ids : j # i => c[j] = commitments[j]
          /\ DOMAIN c = Ids
      BY <1>1, <2>1 DEF Completed
    <3>2. c[i] \in Commitments
      <4> DEFINE t == commitments[i].timed \/ type = "INFORM"
      <4>1. t \in BOOLEAN
        OBVIOUS
      <4>2. c[i] = [commitments[i] EXCEPT !.stage = "Complete", !.timed = t]
        BY <3>1
      <4> HIDE DEF t
      <4> QED BY <2>1, <4>1, <4>2 DEF Commitments, Stages
    <3>3. c[i].stage = "Complete" /\ c[i].attempt = commitments[i].attempt
      BY <2>1, <3>1 DEF Commitments
    <3>4. c \in [Ids -> Commitments \cup {None}]
      BY <1>1, <3>1, <3>2 DEF Completed
    <3> QED BY <3>1, <3>2, <3>3, <3>4, NoneAssumption
  <2>3. StartNext(c, queue, None)
    BY <1>3
  <2> HIDE DEF c, i
  <2>4. Awarded(c)
    BY <1>1, <2>1, <2>2 DEF Awarded, In, Held, i
  <2>5. QueueHeld(c, queue)
    BY <1>1, <1>2, <2>2 DEF QueueHeld, In, Held
  <2>6. \A j \in Ids : AttemptKept(commitments, c, j)
    BY <2>1, <2>2, NoneAssumption DEF AttemptKept, In
  <2>7. /\ Awarded(commitments') /\ QueueHeld(commitments', queue')
        /\ active' # None => <<active'.id, active'.attempt>> \in awards
        /\ \A j \in Ids : AttemptKept(c, commitments', j)
    BY <1>1, <2>2, <2>3, <2>4, <2>5, StartNextBooks
  <2>8. BooksInv'
    BY <2>7 DEF BooksInv, Awarded
  <2>9. \A j \in Ids : AttemptKept(commitments, commitments', j)
    BY <2>6, <2>7 DEF AttemptKept
  <2> QED BY <2>8, <2>9 DEF BooksKept
<1>4. CASE StartNext(commitments, queue, None)
  <2>1. /\ Awarded(commitments') /\ QueueHeld(commitments', queue')
        /\ active' # None => <<active'.id, active'.attempt>> \in awards
        /\ \A j \in Ids : AttemptKept(commitments, commitments', j)
    BY <1>1, <1>4, StartNextBooks
  <2> QED BY <2>1 DEF BooksInv, Awarded, BooksKept
<1> QED BY <1>3, <1>4 DEF FinishWork

LEMMA MarketBooks ==
  ASSUME BooksInv, TypeInv, UNCHANGED awards,
         NEW s \in Snapshots \cup {None}, NEW choice \in Decisions, MarketChanges(s, choice)
  PROVE  BooksKept
<1>1. UNCHANGED <<queue, active>> /\ commitments \in [Ids -> Commitments \cup {None}]
  BY DEF MarketChanges, TypeInv, TypeOK
<1>2. CASE commitments' = Repriced(commitments, s, choice)
  <2> DEFINE c == commitments
             e == Repriced(c, s, choice)
  <2>1. \A i \in Ids : i \in Moved(c, s) => In(c, i, {"Pending"})
    BY DEF Moved
  <2>2. ASSUME NEW i \in Ids, i \in Moved(c, s), choice[i] # None
        PROVE  e[i].stage = c[i].stage /\ e[i].attempt = c[i].attempt /\ e[i] # None
    <3>1. c[i] \in Commitments
      BY <1>1, <2>1, <2>2 DEF In
    <3>2. e[i] = [c[i] EXCEPT !.bid = choice[i], !.score = s[i]]
      BY <2>2 DEF Repriced
    <3>3. e[i] = [attempt |-> c[i].attempt, bid |-> choice[i], score |-> s[i],
                  timed |-> c[i].timed, stage |-> c[i].stage]
      BY <3>1, <3>2 DEF Commitments
    <3>4. choice[i] \in Bids
      BY <2>2 DEF Decisions
    <3>5. s[i] \in Scores \cup {NoScore}
      <4>1. s \in Snapshots
        BY <2>2 DEF Moved
      <4>2. s \in [Ids -> Scores \cup {NoScore}]
        BY <4>1 DEF Snapshots
      <4> QED BY <4>2
    <3>6. c[i].attempt \in Attempts /\ c[i].timed \in BOOLEAN /\ c[i].stage \in Stages
      BY <3>1 DEF Commitments
    <3>7. e[i] \in Commitments
      BY <3>3, <3>4, <3>5, <3>6 DEF Commitments
    <3> QED BY <3>3, <3>7, NoneAssumption
  <2>3. \A i \in Ids : ~(i \in Moved(c, s) /\ choice[i] # None) => e[i] = c[i]
    BY DEF Repriced
  <2> HIDE DEF e
  <2>4. \A i \in Ids : /\ In(c, i, Held) => e[i] = c[i]
                       /\ In(e, i, Held) => In(c, i, Held)
                       /\ AttemptKept(c, e, i)
    BY <2>1, <2>2, <2>3 DEF In, Held, AttemptKept
  <2> QED BY <1>1, <1>2, <2>4, QuietBooks DEF BooksKept, e
<1>3. CASE UNCHANGED commitments
  <2>1. \A i \in Ids : AttemptKept(commitments, commitments', i)
    BY <1>3 DEF AttemptKept
  <2> QED BY <1>1, <1>3, <2>1, QuietBooks DEF BooksKept
<1> QED BY <1>2, <1>3 DEF MarketChanges

\* The end of a session, or of the process, leaves no bid.
LEMMA EndBooks ==
  ASSUME BooksInv, TypeInv, UNCHANGED awards, EndSession \/ Exit
  PROVE  BooksInv' /\ \A i \in Ids : ~In(commitments', i, {"Pending"})
<1>1. CASE EndSession
  <2>1. UNCHANGED <<queue, active>> /\ commitments' = ContractsOnly(commitments)
    BY <1>1 DEF EndSession
  <2>2. \A i \in Ids : commitments'[i] = IF In(commitments, i, {"Pending"}) THEN None
                                         ELSE commitments[i]
    BY <2>1 DEF ContractsOnly
  <2>3. \A i \in Ids : /\ In(commitments, i, Held) => commitments'[i] = commitments[i]
                       /\ In(commitments', i, Held) => In(commitments, i, Held)
                       /\ ~In(commitments', i, {"Pending"})
    BY <2>2 DEF In, Held
  <2> QED BY <2>1, <2>3, QuietBooks
<1>2. CASE Exit
  <2>1. /\ \A i \in Ids : commitments'[i] = None
        /\ queue' = <<>> /\ active' = None
    BY <1>2 DEF Exit, NoCommitments
  <2>2. \A i \in Ids, S \in {Held, {"Pending"}} : ~In(commitments', i, S)
    BY <2>1 DEF In
  <2>3. DOMAIN queue' = {}
    BY <2>1, EmptySeq
  <2> QED BY <2>1, <2>2, <2>3 DEF BooksInv, Awarded, QueueHeld
<1> QED BY <1>1, <1>2

\* A step that changes no commitment.
LEMMA StillBooks ==
  ASSUME BooksInv, UNCHANGED <<awards, commitments, queue, active>>
  PROVE  BooksKept
<1>1. BooksInv'
  BY DEF BooksInv, Awarded, QueueHeld, In
<1>2. \A i \in Ids : AttemptKept(commitments, commitments', i)
  BY DEF AttemptKept
<1> QED BY <1>1, <1>2 DEF BooksKept

LEMMA LocalBooks ==
  ASSUME BooksInv, TypeInv, NetLocal
  PROVE  BooksKept /\ UNCHANGED <<mgrVars, netVars>>
<1>1. UNCHANGED <<mgrVars, netVars>> /\ UNCHANGED awards
  BY DEF NetLocal, mgrVars
<1>2. CASE Launch \/ Connect \/ Retry \/ SaveLearning \/ MarketExpires
  <2>1. UNCHANGED <<commitments, queue, active>>
    BY <1>2 DEF Launch, Connect, Retry, SaveLearning, MarketExpires
  <2> QED BY <1>1, <2>1, StillBooks
<1> QED BY <1>1, <1>2, FinishBooks, MarketBooks DEF NetLocal, Local

-----------------------------------------------------------------------------
(* The channel to the client.                                              *)

LEMMA AcceptId ==
  ASSUME NEW d \in Seq(DownMessages), NEW k \in 1..Len(d), d[k].type = "ACCEPT"
  PROVE  d[k].id \in Ids
<1>1. d[k] \in DownMessages
  OBVIOUS
<1> QED BY <1>1 DEF DownMessages

\* The client does something else than to read.
LEMMA QuietLink ==
  ASSUME NetTypeInv, LinkInv, UNCHANGED <<mgrVars, down, known>>,
         \A i \in Ids : AttemptKept(commitments, commitments', i)
  PROVE  LinkInv'
<1>1. /\ down \in Seq(DownMessages) /\ UNCHANGED <<auction, round, awards, down, known>>
  BY DEF NetTypeInv, mgrVars
<1>2. AcceptsMatch(commitments', down)
  <2> SUFFICES ASSUME NEW k \in 1..Len(down), down[k].type = "ACCEPT"
               PROVE  \E a \in Attempts : /\ <<down[k].id, a>> \in awards
                                          /\ Tracks(commitments', down, k, down[k].id, a)
    BY DEF AcceptsMatch
  <2>1. PICK a \in Attempts : /\ <<down[k].id, a>> \in awards
                              /\ Tracks(commitments, down, k, down[k].id, a)
    BY DEF LinkInv, AcceptsMatch
  <2>2. AttemptKept(commitments, commitments', down[k].id)
    BY <1>1, AcceptId
  <2>3. Tracks(commitments', down, k, down[k].id, a)
    BY <2>1, <2>2, TracksQuiet
  <2> QED BY <2>1, <2>3
<1>3. known => OpensMatch(commitments', down)
  BY TracksQuiet DEF LinkInv, OpensMatch
<1>4. AcceptsMatch(commitments, down)' /\ (known => OpensMatch(commitments, down))'
  BY <1>1, <1>2, <1>3 DEF AcceptsMatch, OpensMatch
<1> QED BY <1>1, <1>4 DEF LinkInv

\* Awards already made are matched whatever is appended.
LEMMA AppendAccepts ==
  ASSUME NetTypeInv, LinkInv, NEW m \in DownMessages, down' = Append(down, m),
         UNCHANGED commitments, awards \subseteq awards',
         m.type = "ACCEPT" => \E a \in Attempts : /\ <<m.id, a>> \in awards'
                                                  /\ Tracks(commitments, down, Len(down) + 1, m.id, a)
  PROVE  AcceptsMatch(commitments, down)'
<1>1. /\ down \in Seq(DownMessages) /\ Len(down) \in Nat /\ Len(down') = Len(down) + 1
      /\ down'[Len(down) + 1] = m /\ \A k \in 1..Len(down) : down'[k] = down[k]
  BY AppendProperties, LenProperties DEF NetTypeInv
<1>2. ASSUME NEW k \in 1..Len(down'), down'[k].type = "ACCEPT"
      PROVE  \E a \in Attempts : /\ <<down'[k].id, a>> \in awards'
                                 /\ Tracks(commitments, down', k, down'[k].id, a)
  <2>1. k \in 1..(Len(down) + 1)
    BY <1>1
  <2>2. \E a \in Attempts : /\ <<down'[k].id, a>> \in awards'
                            /\ Tracks(commitments, down, k, down'[k].id, a)
    <3>1. CASE k \in 1..Len(down)
      BY <1>1, <1>2, <3>1 DEF LinkInv, AcceptsMatch
    <3>2. CASE k = Len(down) + 1
      BY <1>1, <1>2, <3>2
    <3>3. k \in 1..Len(down) \/ k = Len(down) + 1
      BY <1>1, <2>1
    <3> QED BY <3>1, <3>2, <3>3
  <2>3. ASSUME NEW i, NEW a, Tracks(commitments, down, k, i, a)
        PROVE  Tracks(commitments, down', k, i, a)
    <3>1. Tracks(commitments, Append(down, m), k, i, a)
      BY <1>1, <2>1, <2>3, TracksEarlier
    <3> QED BY <3>1
  <2> QED BY <2>2, <2>3
<1> QED BY <1>2 DEF AcceptsMatch

\* A message that announces nothing and awards nothing.
LEMMA TellLink ==
  ASSUME NetTypeInv, LinkInv, NEW m \in DownMessages, Tell(m),
         m.type \in {"REJECT", "ERROR", "SETTLED"},
         UNCHANGED <<commitments, awards, round, known>>,
         \A i \in Ids : auction'[i] = "open" => auction[i] = "open"
  PROVE  LinkInv'
<1>1. CASE ~known
  BY <1>1 DEF Tell, LinkInv, AcceptsMatch
<1>2. CASE known
  <2>1. down' = Append(down, m) /\ down \in Seq(DownMessages)
    BY <1>2 DEF Tell, NetTypeInv
  <2>2. AcceptsMatch(commitments, down)'
    BY <2>1, AppendAccepts
  <2>3. ASSUME NEW i \in Ids, auction'[i] = "open"
        PROVE  Tracks(commitments, down', Len(down') + 1, i, round[i])
    <3>1. ~Mentions(m, i)
      BY DEF Mentions
    <3>2. Tracks(commitments, down, Len(down) + 1, i, round[i])
      BY <1>2, <2>3 DEF LinkInv, OpensMatch
    <3> QED BY <2>1, <3>1, <3>2, TracksPast
  <2>4. OpensMatch(commitments, down)'
    BY <2>3 DEF OpensMatch
  <2> QED BY <1>2, <2>2, <2>4 DEF LinkInv
<1> QED BY <1>1, <1>2 DEF NetTypeInv, NetTypeOK

LEMMA AnnounceLink ==
  ASSUME NetTypeInv, LinkInv, NEW i \in Ids, NetAnnounce(i)
  PROVE  LinkInv'
<1> DEFINE m == [type |-> "CFP", id |-> i, attempt |-> round'[i]]
<1>1. /\ UNCHANGED <<commitments, awards, known>> /\ Tell(m)
      /\ \A j \in Ids : j # i => auction'[j] = auction[j] /\ round'[j] = round[j]
  BY DEF NetAnnounce, Announce, vars, NetTypeInv, NetTypeOK
<1>2. m \in DownMessages
  <2>1. auction[i] = "idle" /\ round' = [round EXCEPT ![i] = round[i] + 1]
    BY DEF NetAnnounce, Announce
  <2>2. round'[i] \in Attempts
    BY <2>1 DEF NetTypeInv, NetTypeOK, RoundsExist
  <2> QED BY <2>2 DEF DownMessages
<1>3. Mentions(m, i) /\ AttemptIn(m, i) = round'[i] /\ \A j : j # i => ~Mentions(m, j)
  BY DEF Mentions, AttemptIn
<1>4. m.type # "ACCEPT"
  OBVIOUS
<1> HIDE DEF m
<1>5. CASE ~known
  BY <1>1, <1>5 DEF Tell, LinkInv, AcceptsMatch
<1>6. CASE known
  <2>1. down' = Append(down, m) /\ down \in Seq(DownMessages)
    BY <1>1, <1>6 DEF Tell, NetTypeInv
  <2>2. AcceptsMatch(commitments, down)'
    BY <1>1, <1>2, <1>4, <2>1, AppendAccepts
  <2>3. ASSUME NEW j \in Ids, auction'[j] = "open"
        PROVE  Tracks(commitments, down', Len(down') + 1, j, round'[j])
    <3>1. CASE j = i
      BY <1>2, <1>3, <2>1, <3>1, TracksAnnounced
    <3>2. CASE j # i
      <4>1. Tracks(commitments, down, Len(down) + 1, j, round'[j])
        BY <1>1, <1>6, <2>3, <3>2 DEF LinkInv, OpensMatch
      <4> QED BY <1>2, <1>3, <2>1, <3>2, <4>1, TracksPast
    <3> QED BY <3>1, <3>2
  <2>4. OpensMatch(commitments, down)'
    BY <1>1, <2>3 DEF OpensMatch
  <2> QED BY <1>1, <1>6, <2>2, <2>4 DEF LinkInv
<1> QED BY <1>5, <1>6 DEF NetTypeInv, NetTypeOK

LEMMA AwardLink ==
  ASSUME NetTypeInv, LinkInv, NEW i \in Ids, NetAward(i)
  PROVE  LinkInv'
<1> DEFINE m == [type |-> "ACCEPT", id |-> i]
<1>1. /\ UNCHANGED <<commitments, round, known>> /\ known /\ auction[i] = "open"
      /\ awards' = awards \cup {<<i, round[i]>>}
      /\ \A j \in Ids : auction'[j] = "open" => auction[j] = "open"
      /\ round[i] \in Attempts
  BY DEF NetAward, Award, vars, NetTypeInv, NetTypeOK, RoundsExist
<1>2. m \in DownMessages /\ down' = Append(down, m) /\ down \in Seq(DownMessages)
  BY DEF NetAward, Tell, DownMessages, NetTypeInv
<1>3. m.type = "ACCEPT" /\ m.id = i /\ \A j : ~Mentions(m, j)
  BY DEF Mentions
<1> HIDE DEF m
<1>4. Tracks(commitments, down, Len(down) + 1, i, round[i])
  BY <1>1 DEF LinkInv, OpensMatch
<1>5. AcceptsMatch(commitments, down)'
  BY <1>1, <1>2, <1>3, <1>4, AppendAccepts
<1>6. ASSUME NEW j \in Ids, auction'[j] = "open"
      PROVE  Tracks(commitments, down', Len(down') + 1, j, round[j])
  <2>1. Tracks(commitments, down, Len(down) + 1, j, round[j])
    BY <1>1, <1>6 DEF LinkInv, OpensMatch
  <2> QED BY <1>2, <1>3, <2>1, TracksPast
<1>7. OpensMatch(commitments, down)'
  BY <1>1, <1>6 DEF OpensMatch
<1> QED BY <1>1, <1>5, <1>7 DEF LinkInv

LEMMA RegisterLink ==
  ASSUME NetTypeInv, LinkInv, TakeRegister, UNCHANGED vars
  PROVE  LinkInv'
<1> DEFINE m == [type |-> "REGISTERED", open |-> OpenCfps]
<1>1. UNCHANGED <<commitments, auction, round, awards>> /\ known'
  BY DEF TakeRegister, vars, mgrVars
<1>2. m \in DownMessages /\ down' = Append(down, m) /\ down \in Seq(DownMessages)
  BY OfferedInRange DEF TakeRegister, DownMessages, NetTypeInv
<1>3. m.type # "ACCEPT" /\ \A i \in Ids : auction[i] = "open" =>
        Mentions(m, i) /\ AttemptIn(m, i) = round[i]
  BY DEF Mentions, AttemptIn, OpenCfps
<1> HIDE DEF m
<1>4. AcceptsMatch(commitments, down)'
  BY <1>1, <1>2, <1>3, AppendAccepts
<1>5. ASSUME NEW i \in Ids, auction[i] = "open"
      PROVE  Tracks(commitments, down', Len(down') + 1, i, round[i])
  BY <1>2, <1>3, <1>5, TracksAnnounced
<1>6. OpensMatch(commitments, down)'
  BY <1>1, <1>5 DEF OpensMatch
<1> QED BY <1>1, <1>4, <1>6 DEF LinkInv

\* The manager decides something and tells the client nothing.
LEMMA SilentLink ==
  ASSUME LinkInv, UNCHANGED <<commitments, awards, round, known, down>>,
         \A i \in Ids : auction'[i] = "open" => auction[i] = "open"
  PROVE  LinkInv'
<1>1. AcceptsMatch(commitments, down)'
  BY DEF LinkInv, AcceptsMatch
<1>2. known => OpensMatch(commitments, down)'
  BY DEF LinkInv, OpensMatch
<1> QED BY <1>1, <1>2 DEF LinkInv

LEMMA TakeLink ==
  ASSUME NetTypeInv, LinkInv, NetTake
  PROVE  LinkInv'
<1> DEFINE m == Head(up)
<1>1. m \in UpMessages /\ UNCHANGED vars
  BY HeadIn DEF NetTake, NetTypeInv
<1>2. UNCHANGED commitments
  BY <1>1 DEF vars
<1> HIDE DEF m
<1>3. CASE m.type = "REGISTER"
  BY <1>1, <1>3, RegisterLink DEF NetTake, m
<1>4. CASE m.type \in {"PROPOSE", "REFUSE"}
  <2>1. TakeBid(m)
    BY <1>4 DEF NetTake, m
  <2>2. UNCHANGED <<awards, round, auction, known>>
    BY <2>1 DEF TakeBid, TakeProposal, mgrVars
  <2>3. m.id \in Ids
    BY <1>1, <1>4 DEF UpMessages, Register, Responses, Results
  <2>4. [type |-> "ERROR", id |-> m.id] \in DownMessages
    BY <2>3 DEF DownMessages
  <2>5. Tell([type |-> "ERROR", id |-> m.id]) \/ UNCHANGED down
    BY <2>1 DEF TakeBid
  <2> QED BY <1>2, <2>2, <2>4, <2>5, TellLink, SilentLink
<1>5. CASE m.type \notin {"REGISTER", "PROPOSE", "REFUSE"}
  <2>1. TakeResult(m)
    BY <1>5 DEF NetTake, m
  <2>2. m.id \in Ids
    BY <1>1, <1>5 DEF UpMessages, Register, Responses, Results
  <2>3. CASE auction[m.id] = "ours"
    <3>1. PICK correct \in BOOLEAN, graded \in BOOLEAN :
            Settle(m.id, correct) /\ Tell(Books(m.id, graded))
      BY <2>1, <2>3 DEF TakeResult
    <3>2. Books(m.id, graded) \in DownMessages /\ Books(m.id, graded).type = "SETTLED"
      BY <2>2 DEF Books, DownMessages
    <3>3. UNCHANGED <<awards, round, known>>
          /\ \A i \in Ids : auction'[i] = "open" => auction[i] = "open"
      BY <2>1, <2>2, <3>1
         DEF Settle, AfterFailure, Reopens, TakeResult, NetTypeInv, NetTypeOK
    <3> QED BY <1>2, <3>1, <3>2, <3>3, TellLink
  <2>4. CASE auction[m.id] # "ours"
    BY <1>2, <2>1, <2>4, SilentLink DEF TakeResult, mgrVars
  <2> QED BY <2>3, <2>4
<1> QED BY <1>3, <1>4, <1>5

LEMMA ManagerLink ==
  ASSUME NetTypeInv, LinkInv, NEW i \in Ids,
         \/ NetAnnounce(i) \/ NetAward(i) \/ NetAwardRival(i)
         \/ NetRivalEnds(i) \/ NetTimeout(i)
  PROVE  LinkInv' /\ UNCHANGED vars /\ awards \subseteq awards'
<1>1. UNCHANGED vars /\ UNCHANGED <<commitments, known>>
  BY DEF NetAnnounce, NetAward, NetAwardRival, NetRivalEnds, NetTimeout, netVars, vars
<1>2. CASE NetAnnounce(i)
  BY <1>1, <1>2, AnnounceLink DEF NetAnnounce, Announce
<1>3. CASE NetAward(i)
  BY <1>1, <1>3, AwardLink DEF NetAward, Award
<1>4. ASSUME UNCHANGED <<awards, round>>,
             \A j \in Ids : auction'[j] = "open" => auction[j] = "open",
             \/ UNCHANGED down
             \/ \E m \in DownMessages : m.type \in {"REJECT", "ERROR", "SETTLED"} /\ Tell(m)
      PROVE  LinkInv'
  BY <1>1, <1>4, TellLink, SilentLink
<1>5. auction \in [Ids -> Auctions]
  BY DEF NetTypeInv, NetTypeOK
<1>6. CASE NetAwardRival(i)
  <2>1. AwardRival(i) /\ (Tell([type |-> "REJECT", id |-> i]) \/ UNCHANGED down)
    BY <1>6 DEF NetAwardRival
  <2>2. [type |-> "REJECT", id |-> i] \in DownMessages
    BY DEF DownMessages
  <2> QED BY <1>1, <1>4, <1>5, <2>1, <2>2 DEF AwardRival
<1>7. CASE NetRivalEnds(i)
  BY <1>1, <1>4, <1>5, <1>7 DEF NetRivalEnds, RivalEnds, AfterFailure, netVars
<1>8. CASE NetTimeout(i)
  <2>1. Settle(i, FALSE) /\ Tell(Books(i, FALSE))
    BY <1>8 DEF NetTimeout
  <2>2. Books(i, FALSE) \in DownMessages /\ Books(i, FALSE).type = "SETTLED"
    BY DEF Books, DownMessages
  <2> QED BY <1>1, <1>4, <1>5, <2>1, <2>2 DEF Settle, AfterFailure
<1> QED BY <1>1, <1>2, <1>3, <1>6, <1>7, <1>8

\* Reading the first message, given what it does to the bids.
LEMMA ReadLink ==
  ASSUME NetTypeInv, LinkInv, down # <<>>, down' = Tail(down),
         UNCHANGED <<mgrVars, known>>,
         \A i \in Ids : IF Mentions(Head(down), i)
                        THEN In(commitments', i, {"Pending"})
                               => commitments'[i].attempt = AttemptIn(Head(down), i)
                        ELSE AttemptKept(commitments, commitments', i)
  PROVE  LinkInv'
<1>1. /\ down \in Seq(DownMessages) /\ Len(down) \in Nat \ {0}
      /\ Len(down') = Len(down) - 1 /\ down' \in Seq(DownMessages)
      /\ \A k \in 1..(Len(down) - 1) : down'[k] = down[k + 1]
      /\ known /\ UNCHANGED <<auction, round, awards, known>>
  BY HeadTailProperties, LenProperties, EmptySeq DEF NetTypeInv, NetTypeOK, LinkInv, mgrVars
<1>2. ASSUME NEW i \in Ids, NEW a, NEW k \in 2..(Len(down) + 1),
             Tracks(commitments, down, k, i, a)
      PROVE  Tracks(commitments', down', k - 1, i, a)
  <2>1. Tracks(commitments', Tail(down), k - 1, i, a)
    BY <1>1, <1>2, TracksRead
  <2> QED BY <2>1
<1>3. ASSUME NEW k \in 1..Len(down'), down'[k].type = "ACCEPT"
      PROVE  \E a \in Attempts : /\ <<down'[k].id, a>> \in awards'
                                 /\ Tracks(commitments', down', k, down'[k].id, a)
  <2>1. /\ k \in 1..(Len(down) - 1) /\ k + 1 \in 1..Len(down) /\ k + 1 \in 2..(Len(down) + 1)
        /\ (k + 1) - 1 = k /\ down'[k] = down[k + 1]
    BY <1>1
  <2>2. down'[k].id \in Ids
    BY <1>1, <1>3, AcceptId
  <2>3. PICK a \in Attempts : /\ <<down'[k].id, a>> \in awards
                              /\ Tracks(commitments, down, k + 1, down'[k].id, a)
    BY <1>3, <2>1 DEF LinkInv, AcceptsMatch
  <2>4. Tracks(commitments', down', (k + 1) - 1, down'[k].id, a)
    BY <1>2, <2>1, <2>2, <2>3
  <2>5. Tracks(commitments', down', k, down'[k].id, a)
    BY <2>1, <2>4
  <2> QED BY <1>1, <2>3, <2>5
<1>4. ASSUME NEW i \in Ids, auction[i] = "open"
      PROVE  Tracks(commitments', down', Len(down') + 1, i, round[i])
  <2>1. Tracks(commitments, down, Len(down) + 1, i, round[i])
    BY <1>1, <1>4 DEF LinkInv, OpensMatch
  <2>2. Len(down) + 1 \in 2..(Len(down) + 1) /\ (Len(down) + 1) - 1 = Len(down') + 1
    BY <1>1
  <2>3. Tracks(commitments', down', (Len(down) + 1) - 1, i, round[i])
    BY <1>2, <2>1, <2>2
  <2> QED BY <2>2, <2>3
<1>5. AcceptsMatch(commitments, down)'
  BY <1>3 DEF AcceptsMatch
<1>6. OpensMatch(commitments, down)'
  BY <1>1, <1>4 DEF OpensMatch
<1> QED BY <1>1, <1>5, <1>6 DEF LinkInv

LEMMA ReceiveStep ==
  ASSUME NetInv, NetReceive
  PROVE  BooksInv' /\ LinkInv'
<1> DEFINE m == Head(down)
<1>1. /\ NetTypeInv /\ LinkInv /\ BooksInv /\ TypeInv
      /\ down # <<>> /\ down' = Tail(down) /\ UNCHANGED <<mgrVars, known>> /\ UNCHANGED awards
  BY DEF NetInv, NetTypeInv, NetReceive, mgrVars
<1>2. m \in DownMessages /\ m = down[1] /\ 1 \in 1..Len(down)
  <2>1. down \in Seq(DownMessages) /\ Len(down) \in Nat \ {0}
    BY <1>1, LenProperties, EmptySeq DEF NetTypeInv
  <2> QED BY <1>1, <2>1, HeadTailProperties
<1>3. Receive(m)
  BY DEF NetReceive
<1> HIDE DEF m
<1>4. ASSUME BooksKept, \A i : ~Mentions(m, i) PROVE BooksInv' /\ LinkInv'
  BY <1>1, <1>4, ReadLink DEF BooksKept, m
<1>5. ASSUME NEW offers \in Offers, NEW choice \in Decisions, Consider(offers, choice),
             \A i \in Ids : /\ Mentions(m, i) <=> i \in DOMAIN offers
                            /\ i \in DOMAIN offers => AttemptIn(m, i) = offers[i]
      PROVE  BooksInv' /\ LinkInv'
  <2>1. /\ BooksInv'
        /\ \A i \in Ids : IF i \in DOMAIN offers
                          THEN In(commitments', i, {"Pending"})
                                 => commitments'[i].attempt = offers[i]
                          ELSE AttemptKept(commitments, commitments', i)
    BY <1>1, <1>5, ConsiderBooks
  <2>2. \A i \in Ids : IF Mentions(Head(down), i)
                       THEN In(commitments', i, {"Pending"})
                              => commitments'[i].attempt = AttemptIn(Head(down), i)
                       ELSE AttemptKept(commitments, commitments', i)
    BY <1>5, <2>1 DEF m
  <2> QED BY <1>1, <2>1, <2>2, ReadLink
<1>6. CASE m.type = "REGISTERED"
  <2>1. PICK choice \in Decisions : Consider(m.open, choice)
    BY <1>3, <1>6 DEF Receive, Registered
  <2>2. m.open \in Offers
    BY <1>2, <1>6 DEF DownMessages
  <2>3. \A i \in Ids : /\ Mentions(m, i) <=> i \in DOMAIN m.open
                       /\ AttemptIn(m, i) = m.open[i]
    BY <1>6 DEF Mentions, AttemptIn
  <2> QED BY <1>5, <2>1, <2>2, <2>3
<1>7. CASE m.type = "CFP"
  <2> DEFINE offers == [j \in {m.id} |-> m.attempt]
  <2>1. PICK choice \in Decisions : Consider(offers, choice)
    BY <1>3, <1>7 DEF Receive, Cfp
  <2>2. offers \in Offers
    <3>1. m.id \in Ids /\ m.attempt \in Attempts
      BY <1>2, <1>7 DEF DownMessages
    <3>2. {m.id} \in SUBSET Ids /\ offers \in [{m.id} -> Attempts]
      BY <3>1
    <3> QED BY <3>2 DEF Offers
  <2>3. \A i \in Ids : /\ Mentions(m, i) <=> i \in DOMAIN offers
                       /\ i \in DOMAIN offers => AttemptIn(m, i) = offers[i]
    BY <1>7 DEF Mentions, AttemptIn
  <2> QED BY <1>5, <2>1, <2>2, <2>3
<1>8. CASE m.type \in {"ACCEPT", "REJECT", "ERROR", "SETTLED"}
  <2>1. \A i : ~Mentions(m, i)
    BY <1>8 DEF Mentions
  <2>2. m.id \in Ids
    BY <1>2, <1>8 DEF DownMessages
  <2>3. CASE m.type = "ACCEPT" /\ AcceptProposal(m.id)
    <3>1. PICK a \in Attempts : <<m.id, a>> \in awards /\ Tracks(commitments, down, 1, m.id, a)
      BY <1>1, <1>2, <2>3 DEF LinkInv, AcceptsMatch
    <3>2. In(commitments, m.id, {"Pending"})
      BY <2>3 DEF AcceptProposal
    <3>3. \A j \in 1..(1 - 1) : FALSE
      OBVIOUS
    <3>4. commitments[m.id].attempt = a
      BY <3>1, <3>2, <3>3 DEF Tracks
    <3>5. BooksKept
      BY <1>1, <2>2, <2>3, <3>1, <3>4, AcceptBooks
    <3> QED BY <1>4, <2>1, <3>5
  <2>4. CASE UNCHANGED vars
    BY <1>1, <1>4, <2>1, <2>4, StillBooks DEF vars
  <2>5. CASE BidDeclined(m.id)
    BY <1>1, <1>4, <2>1, <2>2, <2>5, DeclinedBooks
  <2>6. CASE m.type = "SETTLED" /\ Settled(m.id, m.graded)
    BY <1>1, <1>4, <2>1, <2>2, <2>6, SettledBooks
  <2> QED BY <1>3, <1>8, <2>3, <2>4, <2>5, <2>6 DEF Receive
<1>9. m.type \in {"REGISTERED", "CFP", "ACCEPT", "REJECT", "ERROR", "SETTLED"}
  BY <1>2 DEF DownMessages
<1> QED BY <1>6, <1>7, <1>8, <1>9

LEMMA DropStep ==
  ASSUME NetInv, Drop
  PROVE  BooksInv' /\ LinkInv'
<1>1. /\ NetTypeInv /\ BooksInv /\ TypeInv /\ down' = <<>> /\ known' = FALSE
      /\ UNCHANGED awards
  BY DEF NetInv, NetTypeInv, Drop, ForgetOffers
<1>2. EndSession \/ Exit
  BY DEF Drop, Disconnect, SendFails, Interrupt
<1>3. BooksInv'
  BY <1>1, <1>2, EndBooks
<1>4. Len(down') = 0
  BY <1>1, EmptySeq
<1>5. LinkInv'
  BY <1>1, <1>4 DEF LinkInv, AcceptsMatch
<1> QED BY <1>3, <1>5

LEMMA WriteStep ==
  ASSUME NetInv, NetSendRegister \/ NetSendResponse \/ NetSendResult
  PROVE  BooksInv' /\ LinkInv'
<1>1. UNCHANGED <<mgrVars, down, known>> /\ UNCHANGED awards
  BY DEF NetSendRegister, NetSendResponse, NetSendResult, Written, mgrVars
<1>2. UNCHANGED <<commitments, queue, active>>
  BY DEF NetSendRegister, NetSendResponse, NetSendResult, SendRegister, SendResponse, SendResult
<1>3. BooksKept
  BY <1>1, <1>2, StillBooks DEF NetInv
<1> QED BY <1>1, <1>3, QuietLink DEF BooksKept, NetInv

LEMMA NetStep == NetInv /\ [NetNext]_allVars => NetInv'
<1> SUFFICES ASSUME NetInv, [NetNext]_allVars PROVE NetInv'
  OBVIOUS
<1>1. /\ NetTypeInv' /\ NetTypeInv /\ LinkInv /\ BooksInv /\ TypeInv
  BY NetTypeStep DEF NetInv, NetTypeInv
<1>2. CASE NetLocal
  <2>1. BooksKept /\ UNCHANGED <<mgrVars, netVars>>
    BY <1>1, <1>2, LocalBooks
  <2>2. UNCHANGED <<mgrVars, down, known>>
    BY <2>1 DEF netVars
  <2>3. LinkInv'
    BY <1>1, <2>1, <2>2, QuietLink DEF BooksKept
  <2> QED BY <1>1, <2>1, <2>3 DEF NetInv, BooksKept
<1>3. CASE NetSendRegister \/ NetSendResponse \/ NetSendResult
  BY <1>1, <1>3, WriteStep DEF NetInv
<1>4. CASE Drop
  BY <1>1, <1>4, DropStep DEF NetInv
<1>5. CASE NetReceive
  BY <1>1, <1>5, ReceiveStep DEF NetInv
<1>6. CASE NetTake
  <2>1. UNCHANGED <<commitments, queue, active>> /\ UNCHANGED awards
    BY <1>1, <1>6, TakeType DEF NetTake, vars
  <2>2. BooksInv'
    BY <1>1, <2>1, StillBooks DEF BooksKept
  <2> QED BY <1>1, <1>6, <2>2, TakeLink DEF NetInv
<1>7. ASSUME NEW i \in Ids,
             \/ NetAnnounce(i) \/ NetAward(i) \/ NetAwardRival(i)
             \/ NetRivalEnds(i) \/ NetTimeout(i)
      PROVE  NetInv'
  <2>1. LinkInv' /\ UNCHANGED vars /\ awards \subseteq awards'
    BY <1>1, <1>7, ManagerLink
  <2>2. UNCHANGED <<commitments, queue, active>>
    BY <2>1 DEF vars
  <2>3. BooksInv'
    BY <1>1, <2>1, <2>2 DEF BooksInv, Awarded, QueueHeld, In
  <2> QED BY <1>1, <2>1, <2>3 DEF NetInv
<1>8. CASE UNCHANGED allVars
  <2>1. UNCHANGED <<commitments, queue, active>> /\ UNCHANGED <<mgrVars, down, known>>
        /\ UNCHANGED awards
    BY <1>8 DEF allVars, vars, netVars, mgrVars
  <2>2. BooksKept
    BY <1>1, <2>1, StillBooks
  <2> QED BY <1>1, <2>1, <2>2, QuietLink DEF NetInv, BooksKept
<1> QED BY <1>2, <1>3, <1>4, <1>5, <1>6, <1>7, <1>8 DEF NetNext

LEMMA NetInitInv == NetInit => NetInv
<1> SUFFICES ASSUME NetInit PROVE NetInv
  OBVIOUS
<1>1. NetTypeInv
  BY NetInitType
<1>2. /\ \A i \in Ids : commitments[i] = None
      /\ queue = <<>> /\ active = None /\ down = <<>> /\ known = FALSE
  BY DEF NetInit, Init, NoCommitments
<1>3. DOMAIN queue = {} /\ Len(down) = 0
  BY <1>2, EmptySeq
<1>4. BooksInv
  BY <1>2, <1>3 DEF BooksInv, Awarded, QueueHeld, In
<1>5. LinkInv
  BY <1>2, <1>3 DEF LinkInv, AcceptsMatch
<1> QED BY <1>1, <1>4, <1>5 DEF NetInv

THEOREM NetInvariance == NetSpec => []NetInv
  BY NetInitInv, NetStep, PTL DEF NetSpec

\* The client holds a contract only if the manager awarded that very attempt to it,
\* although ACCEPT_PROPOSAL names no attempt and the connection may fail at any step.
THEOREM HeldContracts == NetSpec => []HeldWereAwarded
<1>1. NetInv => HeldWereAwarded
  BY DEF NetInv, BooksInv, Awarded, HeldWereAwarded
<1> QED BY <1>1, NetInvariance, PTL

-----------------------------------------------------------------------------
(* The manager offers a settled attempt never again: the assumption under  *)
(* which the client is correct holds of this manager, whatever is on its   *)
(* way when a connection fails.                                            *)

\* The bidding on attempt a of task i has closed.
Over(i, a) == a <= round[i] /\ (auction[i] = "open" => a < round[i])

\* The k-th message of d announces an attempt of i that is not settled, and newer
\* than the client's, and older than those that follow.
Newer(c, d, k, i) ==
  LET a == AttemptIn(d[k], i)
  IN  /\ a <= round[i] /\ <<i, a>> \notin closed
      /\ c[i] # None => c[i].attempt < a
      /\ \A l \in (k + 1)..Len(d) : Mentions(d[l], i) => a < AttemptIn(d[l], i)

\* The k-th message of d settles an attempt of i that is over: neither the client's
\* nor those it reads about before are newer, and those after it are.
Settles(c, d, k, i) ==
  \E r \in Nat :
    /\ Over(i, r)
    /\ c[i] # None => c[i].attempt <= r
    /\ \A l \in 1..(k - 1) : Mentions(d[l], i) => AttemptIn(d[l], i) <= r
    /\ \A l \in (k + 1)..Len(d) : Mentions(d[l], i) => r < AttemptIn(d[l], i)

PastInv == \A i \in Ids, a \in Attempts : <<i, a>> \in closed \cup awards => Over(i, a)

OrderInv ==
  /\ PastInv
  /\ OpenContracts
  /\ \A i \in Ids : commitments[i] # None => commitments[i].attempt <= round[i]
  /\ \A k \in 1..Len(down), i \in Ids : Mentions(down[k], i) => Newer(commitments, down, k, i)
  /\ \A k \in 1..Len(down) : down[k].type = "SETTLED" => Settles(commitments, down, k, down[k].id)

\* A connection carries one REGISTER, and a client that is not yet registered has
\* no bid.
SignOnInv ==
  /\ \A j, k \in RegisterAt : j = k
  /\ RegisterAt # {} => ~known
  /\ pc \in {"connect", "register", "backoff", "exited"} => ~known /\ RegisterAt = {}
  /\ ~known => \A i \in Ids : ~In(commitments, i, {"Pending"})

LEMMA MentionedAttempt ==
  ASSUME NEW d \in Seq(DownMessages), NEW k \in 1..Len(d), NEW i \in Ids, Mentions(d[k], i)
  PROVE  AttemptIn(d[k], i) \in Attempts /\ AttemptIn(d[k], i) \in Nat
<1>1. d[k] \in DownMessages /\ Attempts \subseteq Nat
  BY AttemptAssumption
<1>2. CASE d[k].type = "CFP"
  BY <1>1, <1>2 DEF DownMessages, AttemptIn
<1>3. CASE d[k].type = "REGISTERED"
  <2>1. d[k].open \in Offers /\ i \in DOMAIN d[k].open
    BY <1>1, <1>3 DEF DownMessages, Mentions
  <2>2. PICK S \in SUBSET Ids : d[k].open \in [S -> Attempts]
    BY <2>1 DEF Offers
  <2> QED BY <1>1, <1>3, <2>1, <2>2 DEF AttemptIn
<1> QED BY <1>2, <1>3 DEF Mentions

LEMMA OrderTypes ==
  ASSUME NetTypeInv
  PROVE  /\ down \in Seq(DownMessages) /\ Len(down) \in Nat /\ Attempts \subseteq Nat
         /\ \A i \in Ids : round[i] \in Nat
         /\ \A i \in Ids : commitments[i] # None => commitments[i].attempt \in Attempts
<1>1. /\ down \in Seq(DownMessages) /\ round \in [Ids -> Attempts \cup {0}]
      /\ commitments \in [Ids -> Commitments \cup {None}] /\ Attempts \subseteq Nat
  BY AttemptAssumption DEF NetTypeInv, NetTypeOK, TypeOK
<1>2. \A i \in Ids : commitments[i] # None => commitments[i] \in Commitments
  BY <1>1
<1>3. \A x \in Commitments : x.attempt \in Attempts
  BY DEF Commitments
<1>4. ASSUME NEW i \in Ids PROVE round[i] \in Nat
  <2>1. round[i] \in Attempts \cup {0} /\ \A a \in Attempts : a \in Nat
    BY <1>1
  <2>2. 0 \in Nat
    OBVIOUS
  <2> QED BY <2>1, <2>2
<1>5. Len(down) \in Nat
  BY <1>1, LenProperties
<1> QED BY <1>1, <1>2, <1>3, <1>4, <1>5

\* The client neither reads nor closes anything.
LEMMA QuietOrder ==
  ASSUME NetTypeInv, OrderInv, UNCHANGED <<mgrVars, down, closed>>,
         \A i \in Ids : AttemptKept(commitments, commitments', i)
  PROVE  OrderInv'
<1>1. UNCHANGED <<auction, round, awards, down, closed>>
  BY DEF mgrVars
<1>2. PastInv' /\ OpenContracts'
  BY <1>1 DEF OrderInv, PastInv, Over, OpenContracts, AttemptKept
<1>3. \A i \in Ids : commitments'[i] # None => commitments'[i].attempt <= round[i]
  BY DEF OrderInv, AttemptKept
<1>4. ASSUME NEW k \in 1..Len(down), NEW i \in Ids, Mentions(down[k], i)
      PROVE  Newer(commitments, down, k, i)'
  <2>1. Newer(commitments, down, k, i)
    BY <1>4 DEF OrderInv
  <2> QED BY <1>1, <2>1 DEF Newer, AttemptKept
<1>5. ASSUME NEW k \in 1..Len(down), down[k].type = "SETTLED"
      PROVE  Settles(commitments, down, k, down[k].id)'
  <2>1. Settles(commitments, down, k, down[k].id)
    BY <1>5 DEF OrderInv
  <2>2. down[k].id \in Ids
    <3>1. down[k] \in DownMessages
      BY OrderTypes
    <3> QED BY <1>5, <3>1 DEF DownMessages
  <2>3. AttemptKept(commitments, commitments', down[k].id)
    BY <2>2
  <2>4. \A i, r : Over(i, r)' <=> Over(i, r)
    BY <1>1 DEF Over
  <2> QED BY <1>1, <2>1, <2>3, <2>4 DEF Settles, AttemptKept
<1> QED BY <1>1, <1>2, <1>3, <1>4, <1>5 DEF OrderInv

\* The client reads the first message.  A commitment then is one it had, or a bid on
\* what the message announces; only a settlement closes one.
LEMMA ReadOrder ==
  ASSUME NetTypeInv, OrderInv, down # <<>>, down' = Tail(down), UNCHANGED mgrVars,
         \A i \in Ids : commitments'[i] # None =>
           \/ commitments[i] # None /\ commitments'[i].attempt = commitments[i].attempt
           \/ Mentions(Head(down), i) /\ commitments'[i].attempt = AttemptIn(Head(down), i),
         \A i \in Ids, a \in Attempts : <<i, a>> \in closed' =>
           \/ <<i, a>> \in closed
           \/ /\ Head(down).type = "SETTLED" /\ Head(down).id = i
              /\ commitments[i] # None /\ a = commitments[i].attempt /\ commitments'[i] = None
  PROVE  OrderInv'
<1> DEFINE m == down[1]
<1>1. /\ down \in Seq(DownMessages) /\ Len(down) \in Nat \ {0} /\ Attempts \subseteq Nat
      /\ Len(down') = Len(down) - 1 /\ Head(down) = m /\ 1 \in 1..Len(down)
      /\ \A k \in 1..(Len(down) - 1) : down'[k] = down[k + 1] /\ k + 1 \in 1..Len(down)
      /\ UNCHANGED <<auction, round, awards>> /\ \A i \in Ids : round[i] \in Nat
      /\ \A i \in Ids : commitments[i] # None => commitments[i].attempt \in Attempts
  BY OrderTypes, HeadTailProperties, LenProperties, EmptySeq DEF mgrVars
<1>2. \A i \in Ids : commitments'[i] # None =>
        \/ commitments[i] # None /\ commitments'[i].attempt = commitments[i].attempt
        \/ Mentions(m, i) /\ commitments'[i].attempt = AttemptIn(m, i)
  BY <1>1
<1>3. \A i \in Ids, a \in Attempts : <<i, a>> \in closed' =>
        \/ <<i, a>> \in closed
        \/ /\ m.type = "SETTLED" /\ m.id = i
           /\ commitments[i] # None /\ a = commitments[i].attempt /\ commitments'[i] = None
  <2> SUFFICES ASSUME NEW i \in Ids, NEW a \in Attempts,
                      <<i, a>> \in closed', <<i, a>> \notin closed
               PROVE  /\ m.type = "SETTLED" /\ m.id = i /\ commitments[i] # None
                      /\ a = commitments[i].attempt /\ commitments'[i] = None
    OBVIOUS
  <2>1. Head(down) = m
    BY <1>1
  <2> HIDE DEF m
  <2> QED BY <2>1
<1>4. \A i : Mentions(m, i) => m.type # "SETTLED"
  BY DEF Mentions
<1>5. \A i \in Ids : Mentions(m, i) => /\ Newer(commitments, down, 1, i)
                                       /\ AttemptIn(m, i) \in Attempts
  BY <1>1, MentionedAttempt DEF OrderInv
<1>6. ASSUME NEW i \in Ids, m.type = "SETTLED", m.id = i, commitments[i] # None
      PROVE  Over(i, commitments[i].attempt)
  <2>1. PICK r \in Nat : Over(i, r) /\ commitments[i].attempt <= r
    BY <1>1, <1>6 DEF OrderInv, Settles
  <2>2. commitments[i].attempt \in Nat /\ round[i] \in Nat
    BY <1>1, <1>6
  <2> QED BY <2>1, <2>2 DEF Over
<1>7. \A i, r : Over(i, r)' <=> Over(i, r)
  BY <1>1 DEF Over
<1> HIDE DEF m
<1>8. PastInv'
  BY <1>1, <1>3, <1>6, <1>7 DEF OrderInv, PastInv
<1>9. ASSUME NEW i \in Ids, commitments'[i] # None
      PROVE  /\ commitments'[i].attempt \in Attempts /\ commitments'[i].attempt <= round[i]
             /\ <<i, commitments'[i].attempt>> \notin closed'
  <2>1. CASE commitments[i] # None /\ commitments'[i].attempt = commitments[i].attempt
    BY <1>1, <1>3, <1>9, <2>1 DEF OrderInv, OpenContracts
  <2>2. CASE Mentions(m, i) /\ commitments'[i].attempt = AttemptIn(m, i)
    <3>1. Newer(commitments, down, 1, i) /\ AttemptIn(m, i) \in Attempts /\ m = down[1]
      BY <1>5, <2>2 DEF m
    <3>2. AttemptIn(m, i) <= round[i] /\ <<i, AttemptIn(m, i)>> \notin closed
      BY <3>1 DEF Newer
    <3> QED BY <1>3, <1>4, <2>2, <3>1, <3>2
  <2> QED BY <1>2, <1>9, <2>1, <2>2
<1>10. ASSUME NEW k \in 1..Len(down'), NEW i \in Ids, Mentions(down'[k], i)
       PROVE  Newer(commitments, down, k, i)'
  <2> DEFINE a == AttemptIn(down'[k], i)
  <2>1. k \in 1..(Len(down) - 1) /\ k + 1 \in 1..Len(down) /\ down'[k] = down[k + 1]
    BY <1>1
  <2>2. Newer(commitments, down, k + 1, i) /\ a \in Attempts
    BY <1>1, <1>10, <2>1, MentionedAttempt DEF OrderInv
  <2>3. /\ a <= round[i] /\ <<i, a>> \notin closed /\ (commitments[i] # None => commitments[i].attempt < a)
        /\ \A l \in (k + 2)..Len(down) : Mentions(down[l], i) => a < AttemptIn(down[l], i)
    <3>1. (k + 1) + 1 = k + 2
      BY <2>1
    <3> QED BY <2>1, <2>2, <3>1 DEF Newer
  <2>4. <<i, a>> \notin closed'
    <3>1. commitments[i] # None => a # commitments[i].attempt
      <4>1. a \in Nat /\ (commitments[i] # None => commitments[i].attempt \in Nat)
        BY <1>1, <2>2
      <4> QED BY <2>3, <4>1
    <3> QED BY <1>3, <2>2, <2>3, <3>1
  <2>5. commitments'[i] # None => commitments'[i].attempt < a
    <3>1. ASSUME Mentions(m, i) PROVE AttemptIn(m, i) < a
      <4>1. Newer(commitments, down, 1, i) /\ m = down[1] /\ k + 1 \in (1 + 1)..Len(down)
        BY <1>5, <2>1, <3>1 DEF m
      <4> QED BY <1>10, <2>1, <4>1 DEF Newer
    <3> QED BY <1>2, <2>3, <3>1
  <2>6. ASSUME NEW l \in (k + 1)..Len(down'), Mentions(down'[l], i)
        PROVE  a < AttemptIn(down'[l], i)
    <3>1. l \in 1..(Len(down) - 1) /\ l + 1 \in (k + 2)..Len(down) /\ down'[l] = down[l + 1]
      BY <1>1, <2>1
    <3> QED BY <2>3, <2>6, <3>1
  <2> QED BY <1>1, <2>3, <2>4, <2>5, <2>6 DEF Newer
<1>11. ASSUME NEW k \in 1..Len(down'), down'[k].type = "SETTLED"
       PROVE  Settles(commitments, down, k, down[k].id)'
  <2> DEFINE i == down'[k].id
  <2>1. k \in 1..(Len(down) - 1) /\ k + 1 \in 1..Len(down) /\ down'[k] = down[k + 1]
    BY <1>1
  <2>2. i \in Ids
    <3>1. down[k + 1] \in DownMessages
      BY <1>1, <2>1
    <3> QED BY <1>11, <2>1, <3>1 DEF DownMessages
  <2>3. Settles(commitments, down, k + 1, i)
    BY <1>11, <2>1 DEF OrderInv
  <2> HIDE DEF i
  <2>4. PICK r \in Nat :
          /\ Over(i, r)
          /\ commitments[i] # None => commitments[i].attempt <= r
          /\ \A l \in 1..k : Mentions(down[l], i) => AttemptIn(down[l], i) <= r
          /\ \A l \in (k + 2)..Len(down) : Mentions(down[l], i) => r < AttemptIn(down[l], i)
    <3>1. (k + 1) - 1 = k /\ (k + 1) + 1 = k + 2
      BY <2>1
    <3> QED BY <2>3, <3>1 DEF Settles
  <2>5. commitments'[i] # None => commitments'[i].attempt <= r
    <3>1. Mentions(m, i) => AttemptIn(m, i) <= r
      BY <2>1, <2>4 DEF m
    <3> QED BY <1>2, <2>2, <2>4, <3>1
  <2>6. ASSUME NEW l \in 1..(k - 1), Mentions(down'[l], i) PROVE AttemptIn(down'[l], i) <= r
    <3>1. l + 1 \in 1..k /\ down'[l] = down[l + 1]
      BY <1>1, <2>1
    <3> QED BY <2>4, <2>6, <3>1
  <2>7. ASSUME NEW l \in (k + 1)..Len(down'), Mentions(down'[l], i)
        PROVE  r < AttemptIn(down'[l], i)
    <3>1. l + 1 \in (k + 2)..Len(down) /\ down'[l] = down[l + 1]
      BY <1>1, <2>1
    <3> QED BY <2>4, <2>7, <3>1
  <2>8. r <= round'[i] /\ (auction'[i] = "open" => r < round'[i])
    BY <1>1, <2>4 DEF Over
  <2>9. i = down'[k].id
    BY DEF i
  <2> QED BY <2>4, <2>5, <2>6, <2>7, <2>8, <2>9 DEF Settles, Over
<1>12. OpenContracts'
  BY <1>9 DEF OpenContracts
<1>13. \A i \in Ids : commitments'[i] # None => commitments'[i].attempt <= round'[i]
  BY <1>1, <1>9
<1> QED BY <1>8, <1>10, <1>11, <1>12, <1>13 DEF OrderInv

\* A step of the manager that opens no bidding on an attempt it has announced.
Advances ==
  /\ UNCHANGED <<commitments, closed>>
  /\ \A i \in Ids : /\ round'[i] \in Nat /\ round[i] <= round'[i]
                    /\ auction'[i] = "open" => auction[i] = "open" \/ round[i] < round'[i]
  /\ \A i \in Ids, a \in Attempts : <<i, a>> \in awards' => <<i, a>> \in awards \/ Over(i, a)'

LEMMA AdvancesPast ==
  ASSUME NetTypeInv, OrderInv, Advances
  PROVE  /\ PastInv' /\ OpenContracts'
         /\ \A i \in Ids : commitments'[i] # None => commitments'[i].attempt <= round'[i]
<1>1. \A i \in Ids : round[i] \in Nat /\ round'[i] \in Nat
  BY OrderTypes DEF Advances
<1>2. \A i \in Ids, a \in Nat : Over(i, a) => Over(i, a)'
  BY <1>1 DEF Over, Advances
<1>3. PastInv'
  <2> SUFFICES ASSUME NEW i \in Ids, NEW a \in Attempts, <<i, a>> \in closed' \cup awards'
               PROVE  Over(i, a)'
    BY DEF PastInv
  <2>1. a \in Nat
    BY AttemptAssumption
  <2> QED BY <1>2, <2>1 DEF OrderInv, PastInv, Advances
<1>4. OpenContracts'
  BY DEF OrderInv, OpenContracts, Advances
<1>5. ASSUME NEW i \in Ids, commitments'[i] # None
      PROVE  commitments'[i].attempt <= round'[i]
  <2>1. commitments[i].attempt \in Nat /\ commitments[i].attempt <= round[i]
        /\ commitments'[i] = commitments[i] /\ round[i] <= round'[i]
    BY <1>5, OrderTypes DEF OrderInv, Advances
  <2> QED BY <1>1, <2>1
<1> QED BY <1>3, <1>4, <1>5

\* What is on its way keeps its meaning.
LEMMA AdvancesKept ==
  ASSUME NetTypeInv, OrderInv, Advances, NEW k \in 1..Len(down), NEW d,
         Len(d) \in Nat, Len(down) <= Len(d), \A l \in 1..Len(down) : d[l] = down[l],
         \A i \in Ids, l \in (Len(down) + 1)..Len(d) :
            Mentions(d[l], i) => round[i] < AttemptIn(d[l], i) /\ AttemptIn(d[l], i) \in Nat
  PROVE  /\ \A i \in Ids : Mentions(down[k], i) =>
              /\ AttemptIn(down[k], i) <= round'[i] /\ <<i, AttemptIn(down[k], i)>> \notin closed'
              /\ commitments'[i] # None => commitments'[i].attempt < AttemptIn(down[k], i)
              /\ \A l \in (k + 1)..Len(d) : Mentions(d[l], i) => AttemptIn(down[k], i) < AttemptIn(d[l], i)
         /\ down[k].type = "SETTLED" =>
              \E r \in Nat :
                /\ r <= round'[down[k].id]
                /\ auction'[down[k].id] = "open" => r < round'[down[k].id]
                /\ commitments'[down[k].id] # None => commitments'[down[k].id].attempt <= r
                /\ \A l \in 1..(k - 1) : Mentions(d[l], down[k].id) => AttemptIn(d[l], down[k].id) <= r
                /\ \A l \in (k + 1)..Len(d) : Mentions(d[l], down[k].id) => r < AttemptIn(d[l], down[k].id)
<1>1. /\ down \in Seq(DownMessages) /\ Len(down) \in Nat
      /\ \A i \in Ids : round[i] \in Nat /\ round'[i] \in Nat /\ round[i] <= round'[i]
      /\ UNCHANGED <<commitments, closed>>
  BY OrderTypes DEF Advances
<1>2. \A l \in (k + 1)..Len(d) : l \in (k + 1)..Len(down) \/ l \in (Len(down) + 1)..Len(d)
  BY <1>1
<1>3. \A l \in (k + 1)..Len(down) : l \in 1..Len(down)
  BY <1>1
<1>4. ASSUME NEW i \in Ids, Mentions(down[k], i)
      PROVE  /\ AttemptIn(down[k], i) <= round'[i] /\ <<i, AttemptIn(down[k], i)>> \notin closed'
             /\ commitments'[i] # None => commitments'[i].attempt < AttemptIn(down[k], i)
             /\ \A l \in (k + 1)..Len(d) : Mentions(d[l], i) => AttemptIn(down[k], i) < AttemptIn(d[l], i)
  <2> DEFINE a == AttemptIn(down[k], i)
  <2>1. Newer(commitments, down, k, i) /\ a \in Nat
    BY <1>1, <1>4, MentionedAttempt DEF OrderInv
  <2>2. /\ a <= round[i] /\ <<i, a>> \notin closed
        /\ commitments[i] # None => commitments[i].attempt < a
        /\ \A l \in (k + 1)..Len(down) : Mentions(down[l], i) => a < AttemptIn(down[l], i)
    BY <2>1 DEF Newer
  <2> HIDE DEF a
  <2>3. ASSUME NEW l \in (k + 1)..Len(d), Mentions(d[l], i) PROVE a < AttemptIn(d[l], i)
    <3>1. CASE l \in (k + 1)..Len(down)
      BY <1>3, <2>2, <2>3, <3>1
    <3>2. CASE l \in (Len(down) + 1)..Len(d)
      <4>1. round[i] < AttemptIn(d[l], i) /\ AttemptIn(d[l], i) \in Nat
        BY <2>3, <3>2
      <4> QED BY <1>1, <2>1, <2>2, <4>1
    <3> QED BY <1>2, <3>1, <3>2
  <2>4. a <= round'[i]
    BY <1>1, <2>1, <2>2
  <2> QED BY <1>1, <2>2, <2>3, <2>4 DEF a
<1>5. ASSUME down[k].type = "SETTLED"
      PROVE  \E r \in Nat :
                /\ r <= round'[down[k].id]
                /\ auction'[down[k].id] = "open" => r < round'[down[k].id]
                /\ commitments'[down[k].id] # None => commitments'[down[k].id].attempt <= r
                /\ \A l \in 1..(k - 1) : Mentions(d[l], down[k].id) => AttemptIn(d[l], down[k].id) <= r
                /\ \A l \in (k + 1)..Len(d) : Mentions(d[l], down[k].id) => r < AttemptIn(d[l], down[k].id)
  <2> DEFINE i == down[k].id
  <2>1. i \in Ids
    <3>1. down[k] \in DownMessages
      BY <1>1
    <3> QED BY <1>5, <3>1 DEF DownMessages
  <2>2. Settles(commitments, down, k, i)
    BY <1>5 DEF OrderInv
  <2> HIDE DEF i
  <2>3. PICK r \in Nat :
          /\ Over(i, r)
          /\ commitments[i] # None => commitments[i].attempt <= r
          /\ \A l \in 1..(k - 1) : Mentions(down[l], i) => AttemptIn(down[l], i) <= r
          /\ \A l \in (k + 1)..Len(down) : Mentions(down[l], i) => r < AttemptIn(down[l], i)
    BY <2>2 DEF Settles
  <2>4. /\ r <= round'[i] /\ r <= round[i]
        /\ auction'[i] = "open" => r < round'[i]
    <3>1. /\ round[i] \in Nat /\ round'[i] \in Nat /\ round[i] <= round'[i]
          /\ auction'[i] = "open" => auction[i] = "open" \/ round[i] < round'[i]
      BY <1>1, <2>1 DEF Advances
    <3> QED BY <2>3, <3>1 DEF Over
  <2>5. \A l \in 1..(k - 1) : l \in 1..Len(down)
    BY <1>1
  <2>6. \A l \in 1..(k - 1) : Mentions(d[l], i) => AttemptIn(d[l], i) <= r
    BY <2>3, <2>5
  <2>7. ASSUME NEW l \in (k + 1)..Len(d), Mentions(d[l], i) PROVE r < AttemptIn(d[l], i)
    <3>1. CASE l \in (k + 1)..Len(down)
      BY <1>3, <2>3, <2>7, <3>1
    <3>2. CASE l \in (Len(down) + 1)..Len(d)
      <4>1. round[i] < AttemptIn(d[l], i) /\ AttemptIn(d[l], i) \in Nat
        BY <2>1, <2>7, <3>2
      <4>2. round[i] \in Nat
        BY <1>1, <2>1
      <4> QED BY <2>4, <4>1, <4>2
    <3> QED BY <1>2, <3>1, <3>2
  <2>8. commitments'[i] # None => commitments'[i].attempt <= r
    BY <1>1, <2>3
  <2> QED BY <2>3, <2>4, <2>6, <2>7, <2>8 DEF i
<1> QED BY <1>4, <1>5

\* The manager tells the client nothing.
LEMMA SilentOrder ==
  ASSUME NetTypeInv, OrderInv, Advances, UNCHANGED down
  PROVE  OrderInv'
<1>1. /\ PastInv' /\ OpenContracts'
      /\ \A i \in Ids : commitments'[i] # None => commitments'[i].attempt <= round'[i]
  BY AdvancesPast
<1>2. Len(down) \in Nat
  BY OrderTypes
<1>3. /\ Len(down) <= Len(down) /\ \A i \in (Len(down) + 1)..Len(down) : FALSE
  BY <1>2
<1>4. ASSUME NEW k \in 1..Len(down)
      PROVE  /\ \A i \in Ids : Mentions(down[k], i) => Newer(commitments, down, k, i)'
             /\ down[k].type = "SETTLED" => Settles(commitments, down, k, down[k].id)'
  BY <1>2, <1>3, AdvancesKept DEF Newer, Settles, Over
<1> QED BY <1>1, <1>4 DEF OrderInv

\* What the manager may tell the client: an announcement of a newer attempt than the
\* client's, and than those on their way, or a settlement of one that is over.
Timely(m) ==
  /\ \A i \in Ids : Mentions(m, i) =>
       LET a == AttemptIn(m, i)
       IN  /\ a \in Attempts /\ a <= round'[i] /\ <<i, a>> \notin closed
           /\ commitments[i] # None => commitments[i].attempt < a
           /\ down # <<>> => round[i] < a
  /\ m.type = "SETTLED" => m.id \in Ids /\ auction'[m.id] # "open"

LEMMA AppendOrder ==
  ASSUME NetTypeInv, OrderInv, Advances, NEW m \in DownMessages, down' = Append(down, m), Timely(m)
  PROVE  OrderInv'
<1>0. PICK n \in Nat : n = Len(down)
  BY OrderTypes
<1>1. /\ down \in Seq(DownMessages) /\ Attempts \subseteq Nat
      /\ \A i \in Ids : round[i] \in Nat /\ UNCHANGED <<commitments, closed>>
      /\ \A i \in Ids : commitments[i] # None =>
           commitments[i].attempt \in Nat /\ commitments[i].attempt <= round[i]
  BY OrderTypes DEF Advances, OrderInv
<1>2. /\ Len(down') = n + 1 /\ down'[n + 1] = m /\ \A l \in 1..n : down'[l] = down[l]
  BY <1>0, <1>1, AppendProperties
<1>3. /\ PastInv' /\ OpenContracts'
      /\ \A i \in Ids : commitments'[i] # None => commitments'[i].attempt <= round'[i]
  BY AdvancesPast
<1>4. n > 0 => down # <<>>
  BY <1>0, EmptySeq
<1>5. ASSUME NEW k \in 1..n
      PROVE  /\ \A i \in Ids : Mentions(down'[k], i) => Newer(commitments, down, k, i)'
             /\ down'[k].type = "SETTLED" => Settles(commitments, down, k, down[k].id)'
  <2>1. ASSUME NEW i \in Ids, NEW l \in (n + 1)..Len(down'), Mentions(down'[l], i)
        PROVE  round[i] < AttemptIn(down'[l], i) /\ AttemptIn(down'[l], i) \in Nat
    <3>1. l = n + 1 /\ down'[l] = m /\ n > 0
      BY <1>1, <1>2
    <3> QED BY <1>1, <1>4, <2>1, <3>1 DEF Timely
  <2>2. Len(down') \in Nat /\ n <= Len(down')
    BY <1>1, <1>2
  <2>3. down'[k] = down[k]
    BY <1>2
  <2> DEFINE a(i) == AttemptIn(down[k], i)
             j == down[k].id
  <2>4. /\ \A i \in Ids : Mentions(down[k], i) =>
             /\ a(i) <= round'[i] /\ <<i, a(i)>> \notin closed'
             /\ commitments'[i] # None => commitments'[i].attempt < a(i)
             /\ \A l \in (k + 1)..Len(down') : Mentions(down'[l], i) => a(i) < AttemptIn(down'[l], i)
        /\ down[k].type = "SETTLED" =>
             \E r \in Nat :
               /\ r <= round'[j] /\ (auction'[j] = "open" => r < round'[j])
               /\ commitments'[j] # None => commitments'[j].attempt <= r
               /\ \A l \in 1..(k - 1) : Mentions(down'[l], j) => AttemptIn(down'[l], j) <= r
               /\ \A l \in (k + 1)..Len(down') : Mentions(down'[l], j) => r < AttemptIn(down'[l], j)
    BY <1>0, <1>2, <2>1, <2>2, AdvancesKept
  <2> QED BY <2>3, <2>4 DEF Newer, Settles, Over
<1>6. \A l \in ((n + 1) + 1)..(n + 1) : FALSE
  BY <1>1
<1>7. ASSUME NEW i \in Ids, Mentions(m, i) PROVE Newer(commitments, down, n + 1, i)'
  <2>1. /\ AttemptIn(m, i) <= round'[i] /\ <<i, AttemptIn(m, i)>> \notin closed'
        /\ commitments'[i] # None => commitments'[i].attempt < AttemptIn(m, i)
    BY <1>1, <1>7 DEF Timely
  <2> QED BY <1>2, <1>6, <2>1 DEF Newer
<1>8. ASSUME m.type = "SETTLED" PROVE Settles(commitments, down, n + 1, m.id)'
  <2>1. m.id \in Ids /\ round[m.id] \in Nat /\ auction'[m.id] # "open"
    BY <1>1, <1>8 DEF Timely
  <2>2. commitments'[m.id] # None => commitments'[m.id].attempt <= round[m.id]
    BY <1>1, <2>1
  <2>3. ASSUME NEW l \in 1..((n + 1) - 1), Mentions(down'[l], m.id)
        PROVE  AttemptIn(down'[l], m.id) <= round[m.id]
    <3>1. l \in 1..Len(down) /\ down'[l] = down[l]
      BY <1>0, <1>1, <1>2
    <3> QED BY <2>1, <2>3, <3>1 DEF OrderInv, Newer
  <2>4. round[m.id] <= round'[m.id]
    BY <2>1 DEF Advances
  <2> QED BY <1>2, <1>6, <2>1, <2>2, <2>3, <2>4 DEF Settles, Over
<1>9. ASSUME NEW k \in 1..(n + 1)
      PROVE  /\ \A i \in Ids : Mentions(down'[k], i) => Newer(commitments, down, k, i)'
             /\ down'[k].type = "SETTLED" => Settles(commitments, down, k, down[k].id)'
  <2>1. CASE k \in 1..n
    BY <1>5, <2>1
  <2>2. CASE k = n + 1
    BY <1>2, <1>7, <1>8, <2>2
  <2> QED BY <1>0, <2>1, <2>2
<1> QED BY <1>2, <1>3, <1>9 DEF OrderInv

LEMMA TellOrder ==
  ASSUME NetTypeInv, OrderInv, Advances, NEW m \in DownMessages, Tell(m), Timely(m)
  PROVE  OrderInv'
  BY AppendOrder, SilentOrder DEF Tell

\* Bidding closes, or nothing changes.
LEMMA ClosingAdvances ==
  ASSUME NetTypeInv, UNCHANGED vars, UNCHANGED <<round, awards>>,
         \A i \in Ids : auction'[i] = "open" => auction[i] = "open"
  PROVE  Advances
<1>1. \A i \in Ids : round[i] \in Nat
  BY OrderTypes
<1> QED BY <1>1 DEF Advances, vars

LEMMA AnnounceOrder ==
  ASSUME NetTypeInv, OrderInv, NEW i \in Ids, NetAnnounce(i)
  PROVE  OrderInv'
<1> DEFINE m == [type |-> "CFP", id |-> i, attempt |-> round'[i]]
<1>1. /\ UNCHANGED <<commitments, closed, awards>> /\ Tell(m) /\ auction[i] = "idle"
      /\ round'[i] = round[i] + 1 /\ round[i] \in Nat /\ round'[i] \in Attempts
      /\ \A j \in Ids : j # i => auction'[j] = auction[j] /\ round'[j] = round[j]
      /\ \A j \in Ids : round[j] \in Nat
  <2>1. /\ auction[i] = "idle" /\ auction' = [auction EXCEPT ![i] = "open"]
        /\ round' = [round EXCEPT ![i] = round[i] + 1] /\ Tell(m)
        /\ UNCHANGED <<commitments, closed, awards>>
    BY DEF NetAnnounce, Announce, vars
  <2>2. \A j \in Ids : round[j] \in Nat
    BY OrderTypes
  <2> QED BY <2>1, <2>2 DEF NetTypeInv, NetTypeOK, RoundsExist
<1>2. Advances
  <2>1. \A j \in Ids : /\ round'[j] \in Nat /\ round[j] <= round'[j]
                       /\ auction'[j] = "open" => auction[j] = "open" \/ round[j] < round'[j]
    BY <1>1
  <2> QED BY <1>1, <2>1 DEF Advances
<1>3. m \in DownMessages
  BY <1>1 DEF DownMessages
<1>4. Timely(m)
  <2>1. <<i, round'[i]>> \notin closed
    BY <1>1 DEF OrderInv, PastInv, Over
  <2>2. commitments[i] # None => commitments[i].attempt < round'[i]
    BY <1>1, OrderTypes DEF OrderInv
  <2>3. m.type # "SETTLED" /\ \A j : Mentions(m, j) => j = i /\ AttemptIn(m, j) = round'[i]
    BY DEF Mentions, AttemptIn
  <2>4. round'[i] <= round'[i] /\ round[i] < round'[i]
    BY <1>1
  <2> QED BY <1>1, <2>1, <2>2, <2>3, <2>4 DEF Timely
<1> HIDE DEF m
<1> QED BY <1>1, <1>2, <1>3, <1>4, TellOrder

\* A message that announces nothing, and settles only what is over.
LEMMA TimelyOther ==
  ASSUME NEW m, m.type \in {"ACCEPT", "REJECT", "ERROR", "SETTLED"},
         m.type = "SETTLED" => m.id \in Ids /\ auction'[m.id] # "open"
  PROVE  Timely(m)
  BY DEF Timely, Mentions

LEMMA AwardOrder ==
  ASSUME NetTypeInv, OrderInv, NEW i \in Ids, NetAward(i)
  PROVE  OrderInv'
<1> DEFINE m == [type |-> "ACCEPT", id |-> i]
<1>1. /\ UNCHANGED <<commitments, closed, round>> /\ Tell(m)
      /\ awards' = awards \cup {<<i, round[i]>>} /\ auction'[i] = "ours"
      /\ \A j \in Ids : auction'[j] = "open" => auction[j] = "open"
  BY DEF NetAward, Award, vars, NetTypeInv, NetTypeOK
<1>2. \A j \in Ids : round[j] \in Nat
  BY OrderTypes
<1>3. Over(i, round[i])'
  BY <1>1, <1>2 DEF Over
<1>4. \A j \in Ids, a \in Attempts : <<j, a>> \in awards' => <<j, a>> \in awards \/ Over(j, a)'
  BY <1>1, <1>3 DEF Over
<1>5. Advances
  BY <1>1, <1>2, <1>4 DEF Advances
<1>6. m \in DownMessages /\ Timely(m)
  BY TimelyOther DEF DownMessages
<1> HIDE DEF m
<1> QED BY <1>1, <1>5, <1>6, TellOrder

\* The manager concludes our contract, or one of the others.
LEMMA SettleOrder ==
  ASSUME NetTypeInv, OrderInv, UNCHANGED vars, NEW i \in Ids,
         NEW correct \in BOOLEAN, NEW graded \in BOOLEAN,
         Settle(i, correct), Tell(Books(i, graded))
  PROVE  OrderInv'
<1>1. /\ UNCHANGED <<round, awards>> /\ auction'[i] # "open"
      /\ \A j \in Ids : auction'[j] = "open" => auction[j] = "open"
  BY DEF Settle, AfterFailure, Reopens, NetTypeInv, NetTypeOK
<1>2. Books(i, graded) \in DownMessages /\ Timely(Books(i, graded))
  BY <1>1, TimelyOther DEF DownMessages, Books
<1> QED BY <1>1, <1>2, ClosingAdvances, TellOrder

LEMMA ManagerOrder ==
  ASSUME NetTypeInv, OrderInv, NEW i \in Ids,
         \/ NetAnnounce(i) \/ NetAward(i) \/ NetAwardRival(i)
         \/ NetRivalEnds(i) \/ NetTimeout(i)
  PROVE  OrderInv'
<1>1. CASE NetAwardRival(i)
  <2>1. /\ UNCHANGED vars /\ UNCHANGED <<round, awards>>
        /\ \A j \in Ids : auction'[j] = "open" => auction[j] = "open"
        /\ Tell([type |-> "REJECT", id |-> i]) \/ UNCHANGED down
    BY <1>1 DEF NetAwardRival, AwardRival, NetTypeInv, NetTypeOK
  <2>2. [type |-> "REJECT", id |-> i] \in DownMessages /\ Timely([type |-> "REJECT", id |-> i])
    BY TimelyOther DEF DownMessages
  <2> QED BY <2>1, <2>2, ClosingAdvances, TellOrder, SilentOrder
<1>2. CASE NetRivalEnds(i)
  <2>1. /\ UNCHANGED vars /\ UNCHANGED <<round, awards>> /\ UNCHANGED down
        /\ \A j \in Ids : auction'[j] = "open" => auction[j] = "open"
    BY <1>2 DEF NetRivalEnds, RivalEnds, AfterFailure, netVars, NetTypeInv, NetTypeOK
  <2> QED BY <2>1, ClosingAdvances, SilentOrder
<1>3. CASE NetTimeout(i)
  BY <1>3, SettleOrder DEF NetTimeout
<1> QED BY <1>1, <1>2, <1>3, AnnounceOrder, AwardOrder

\* The client does something else than to read, on a connection that stays.
LEMMA ClientOrder ==
  ASSUME NetTypeInv, OrderInv, BooksInv,
         NetLocal \/ NetSendRegister \/ NetSendResponse \/ NetSendResult
  PROVE  OrderInv' /\ BooksKept
<1>1. TypeInv
  BY DEF NetTypeInv
<1>2. CASE NetLocal
  <2>1. BooksKept /\ UNCHANGED <<mgrVars, down>>
    BY <1>1, <1>2, LocalBooks DEF netVars
  <2>2. UNCHANGED closed
    BY <1>2 DEF NetLocal, Local, Launch, Connect, Retry, SaveLearning, MarketExpires,
                FinishWork, MarketChanges
  <2> QED BY <2>1, <2>2, QuietOrder DEF BooksKept
<1>3. CASE NetSendRegister \/ NetSendResponse \/ NetSendResult
  <2>1. UNCHANGED <<mgrVars, down>> /\ UNCHANGED awards
    BY <1>3 DEF NetSendRegister, NetSendResponse, NetSendResult, Written, mgrVars
  <2>2. UNCHANGED <<commitments, queue, active, closed>>
    BY <1>3 DEF NetSendRegister, NetSendResponse, NetSendResult,
                SendRegister, SendResponse, SendResult
  <2>3. BooksKept
    BY <2>1, <2>2, StillBooks
  <2> QED BY <2>1, <2>2, <2>3, QuietOrder DEF BooksKept
<1> QED BY <1>2, <1>3

LEMMA DropOrder ==
  ASSUME NetTypeInv, OrderInv, Drop
  PROVE  OrderInv'
<1>1. /\ UNCHANGED <<auction, round, awards>> /\ Len(down') = 0
      /\ EndSession \/ Exit
  BY EmptySeq DEF Drop, ForgetOffers, Disconnect, SendFails, Interrupt
<1>2. UNCHANGED closed /\ \A i \in Ids : commitments'[i] \in {None, commitments[i]}
  <2>1. CASE EndSession
    BY <2>1 DEF EndSession, ContractsOnly
  <2>2. CASE Exit
    BY <2>2 DEF Exit, NoCommitments
  <2> QED BY <1>1, <2>1, <2>2
<1>3. PastInv'
  BY <1>1, <1>2 DEF OrderInv, PastInv, Over
<1>4. OpenContracts' /\ \A i \in Ids : commitments'[i] # None => commitments'[i].attempt <= round'[i]
  BY <1>1, <1>2 DEF OrderInv, OpenContracts
<1> QED BY <1>1, <1>3, <1>4 DEF OrderInv

\* Every commitment after considering offers is one the client had, or a bid on one.
LEMMA ConsiderAttempts ==
  ASSUME NEW offers \in Offers, NEW choice \in Decisions, Consider(offers, choice)
  PROVE  \A i \in Ids : commitments'[i] # None =>
           \/ commitments[i] # None /\ commitments'[i].attempt = commitments[i].attempt
           \/ i \in DOMAIN offers /\ commitments'[i].attempt = offers[i]
<1> SUFFICES ASSUME NEW i \in Ids, commitments'[i] # None
             PROVE  \/ commitments[i] # None /\ commitments'[i].attempt = commitments[i].attempt
                    \/ i \in DOMAIN offers /\ commitments'[i].attempt = offers[i]
  OBVIOUS
<1> DEFINE made == [attempt |-> offers[i], bid |-> choice[i],
                    score |-> IF market = None THEN NoScore ELSE market[i],
                    timed |-> FALSE, stage |-> "Pending"]
<1>1. commitments'[i] = IF i \notin Considered(commitments, offers) THEN commitments[i]
                        ELSE IF choice[i] = None THEN None ELSE made
  BY DEF Consider, Proposed
<1>2. made.attempt = offers[i]
  OBVIOUS
<1> HIDE DEF made
<1> QED BY <1>1, <1>2 DEF Considered

LEMMA ReceiveOrder ==
  ASSUME NetInv, OrderInv, NetReceive
  PROVE  OrderInv'
<1> DEFINE m == Head(down)
<1>1. /\ NetTypeInv /\ LinkInv /\ BooksInv /\ TypeInv
      /\ down # <<>> /\ down' = Tail(down) /\ UNCHANGED mgrVars /\ UNCHANGED awards
  BY DEF NetInv, NetTypeInv, NetReceive, mgrVars
<1>2. m \in DownMessages /\ m = down[1] /\ 1 \in 1..Len(down)
  <2>1. down \in Seq(DownMessages) /\ Len(down) \in Nat \ {0}
    BY <1>1, LenProperties, EmptySeq DEF NetTypeInv
  <2> QED BY <1>1, <2>1, HeadTailProperties
<1>3. Receive(m)
  BY DEF NetReceive
<1> HIDE DEF m
<1>4. ASSUME UNCHANGED closed, \A i \in Ids : AttemptKept(commitments, commitments', i)
      PROVE  OrderInv'
  BY <1>1, <1>4, ReadOrder DEF AttemptKept
<1>5. ASSUME NEW offers \in Offers, NEW choice \in Decisions, Consider(offers, choice),
             \A i \in DOMAIN offers : Mentions(m, i) /\ AttemptIn(m, i) = offers[i]
      PROVE  OrderInv'
  <2>1. \A i \in Ids : commitments'[i] # None =>
           \/ commitments[i] # None /\ commitments'[i].attempt = commitments[i].attempt
           \/ Mentions(m, i) /\ commitments'[i].attempt = AttemptIn(m, i)
    BY <1>5, ConsiderAttempts
  <2>2. UNCHANGED closed
    BY <1>5 DEF Consider
  <2> QED BY <1>1, <2>1, <2>2, ReadOrder DEF m
<1>6. CASE m.type = "REGISTERED"
  <2>1. PICK choice \in Decisions : Consider(m.open, choice)
    BY <1>3, <1>6 DEF Receive, Registered
  <2>2. m.open \in Offers
    BY <1>2, <1>6 DEF DownMessages
  <2>3. \A i \in DOMAIN m.open : Mentions(m, i) /\ AttemptIn(m, i) = m.open[i]
    BY <1>6 DEF Mentions, AttemptIn
  <2> QED BY <1>5, <2>1, <2>2, <2>3
<1>7. CASE m.type = "CFP"
  <2> DEFINE offers == [j \in {m.id} |-> m.attempt]
  <2>1. PICK choice \in Decisions : Consider(offers, choice)
    BY <1>3, <1>7 DEF Receive, Cfp
  <2>2. offers \in Offers
    <3>1. m.id \in Ids /\ m.attempt \in Attempts
      BY <1>2, <1>7 DEF DownMessages
    <3>2. {m.id} \in SUBSET Ids /\ offers \in [{m.id} -> Attempts]
      BY <3>1
    <3> QED BY <3>2 DEF Offers
  <2>3. \A i \in DOMAIN offers : Mentions(m, i) /\ AttemptIn(m, i) = offers[i]
    BY <1>7 DEF Mentions, AttemptIn
  <2> QED BY <1>5, <2>1, <2>2, <2>3
<1>8. CASE m.type \in {"ACCEPT", "REJECT", "ERROR"}
  <2>1. m.id \in Ids
    BY <1>2, <1>8 DEF DownMessages
  <2>2. CASE m.type = "ACCEPT" /\ AcceptProposal(m.id)
    <3>1. PICK a \in Attempts : <<m.id, a>> \in awards /\ Tracks(commitments, down, 1, m.id, a)
      BY <1>1, <1>2, <2>2 DEF LinkInv, AcceptsMatch
    <3>2. In(commitments, m.id, {"Pending"})
      BY <2>2 DEF AcceptProposal
    <3>3. \A j \in 1..(1 - 1) : FALSE
      OBVIOUS
    <3>4. commitments[m.id].attempt = a
      BY <3>1, <3>2, <3>3 DEF Tracks
    <3>5. BooksKept /\ UNCHANGED closed
      BY <1>1, <2>1, <2>2, <3>1, <3>4, AcceptBooks DEF AcceptProposal
    <3> QED BY <1>4, <3>5 DEF BooksKept
  <2>3. CASE UNCHANGED vars
    BY <1>1, <1>4, <2>3 DEF vars, AttemptKept
  <2>4. CASE BidDeclined(m.id)
    <3>1. BooksKept /\ UNCHANGED closed
      BY <1>1, <2>1, <2>4, DeclinedBooks DEF BidDeclined
    <3> QED BY <1>4, <3>1 DEF BooksKept
  <2> QED BY <1>3, <1>8, <2>2, <2>3, <2>4 DEF Receive
<1>9. CASE m.type = "SETTLED"
  <2>1. m.id \in Ids /\ Settled(m.id, m.graded)
    BY <1>2, <1>3, <1>9 DEF DownMessages, Receive
  <2>2. /\ commitments'[m.id] = None
        /\ \A i \in Ids : i # m.id => commitments'[i] = commitments[i]
    BY <1>1, <2>1 DEF Settled, TypeInv, TypeOK
  <2>3. \A i \in Ids, a \in Attempts : <<i, a>> \in closed' =>
          \/ <<i, a>> \in closed
          \/ i = m.id /\ commitments[i] # None /\ a = commitments[i].attempt
    BY <2>1 DEF Settled
  <2>4. \A i \in Ids : commitments'[i] # None => commitments'[i] = commitments[i]
    BY <2>2
  <2> QED BY <1>1, <1>9, <2>2, <2>3, <2>4, ReadOrder DEF m
<1>10. m.type \in {"REGISTERED", "CFP", "ACCEPT", "REJECT", "ERROR", "SETTLED"}
  BY <1>2 DEF DownMessages
<1> QED BY <1>6, <1>7, <1>8, <1>9, <1>10

\* The client that signs on has only contracts: the auctions still open are newer.
LEMMA RegisterOrder ==
  ASSUME NetInv, OrderInv, UNCHANGED vars, TakeRegister,
         ~known, \A i \in Ids : ~In(commitments, i, {"Pending"})
  PROVE  OrderInv'
<1> DEFINE m == [type |-> "REGISTERED", open |-> OpenCfps]
<1>1. /\ NetTypeInv /\ down = <<>> /\ Awarded(commitments) /\ UNCHANGED mgrVars
      /\ UNCHANGED <<auction, round, awards>>
      /\ commitments \in [Ids -> Commitments \cup {None}]
  BY DEF NetInv, NetTypeInv, TypeInv, TypeOK, LinkInv, BooksInv, TakeRegister, mgrVars
<1>2. Advances
  BY <1>1, ClosingAdvances
<1>3. m \in DownMessages /\ down' = Append(down, m)
  BY <1>1, OfferedInRange DEF TakeRegister, DownMessages
<1>4. \A i : Mentions(m, i) => i \in Ids /\ auction[i] = "open" /\ AttemptIn(m, i) = round[i]
  BY DEF Mentions, AttemptIn, OpenCfps
<1>5. ASSUME NEW i \in Ids, auction[i] = "open"
      PROVE  /\ round[i] \in Attempts /\ round[i] <= round'[i] /\ <<i, round[i]>> \notin closed
             /\ commitments[i] # None => commitments[i].attempt < round[i]
  <2>1. round[i] \in Attempts /\ round[i] \in Nat
    BY <1>1, <1>5, AttemptAssumption DEF NetTypeInv, RoundsExist
  <2>2. \A a \in Attempts : <<i, a>> \in closed \cup awards => a < round[i]
    BY <1>5 DEF OrderInv, PastInv, Over
  <2>3. ASSUME commitments[i] # None
        PROVE  <<i, commitments[i].attempt>> \in awards /\ commitments[i].attempt \in Attempts
    <3>1. commitments[i] \in Commitments
      BY <1>1, <2>3
    <3>2. In(commitments, i, Held)
      BY <2>3, <3>1 DEF In, Held, Commitments, Stages
    <3> QED BY <1>1, <3>1, <3>2 DEF Awarded, Commitments
  <2> QED BY <1>1, <2>1, <2>2, <2>3
<1>6. m.type # "SETTLED"
  OBVIOUS
<1> HIDE DEF m
<1>7. Timely(m)
  BY <1>1, <1>4, <1>5, <1>6 DEF Timely
<1> QED BY <1>1, <1>2, <1>3, <1>7, AppendOrder

LEMMA TakeOrder ==
  ASSUME NetInv, OrderInv, SignOnInv, NetTake
  PROVE  OrderInv'
<1> DEFINE m == Head(up)
<1>1. /\ m \in UpMessages /\ UNCHANGED vars /\ NetTypeInv
      /\ up \in Seq(UpMessages) /\ up # <<>>
  BY HeadIn DEF NetTake, NetInv, NetTypeInv
<1> HIDE DEF m
<1>2. CASE m.type = "REGISTER"
  <2>1. 1 \in DOMAIN up /\ up[1] = m
    BY <1>1, HeadTailProperties, LenProperties, EmptySeq DEF m
  <2>2. ~known
    BY <1>2, <2>1 DEF SignOnInv, RegisterAt
  <2>3. TakeRegister
    BY <1>2 DEF NetTake, m
  <2> QED BY <1>1, <2>2, <2>3, RegisterOrder DEF SignOnInv
<1>3. CASE m.type \in {"PROPOSE", "REFUSE"}
  <2>1. TakeBid(m)
    BY <1>3 DEF NetTake, m
  <2>2. UNCHANGED <<awards, round, auction>>
    BY <2>1 DEF TakeBid, TakeProposal, mgrVars
  <2>3. m.id \in Ids
    BY <1>1, <1>3 DEF UpMessages, Register, Responses, Results
  <2> DEFINE e == [type |-> "ERROR", id |-> m.id]
  <2>4. e \in DownMessages /\ Timely(e)
    BY <2>3, TimelyOther DEF DownMessages
  <2>5. Tell(e) \/ UNCHANGED down
    BY <2>1 DEF TakeBid
  <2> HIDE DEF e
  <2> QED BY <1>1, <2>2, <2>4, <2>5, ClosingAdvances, TellOrder, SilentOrder
<1>4. CASE m.type \notin {"REGISTER", "PROPOSE", "REFUSE"}
  <2>1. TakeResult(m)
    BY <1>4 DEF NetTake, m
  <2>2. m.id \in Ids
    BY <1>1, <1>4 DEF UpMessages, Register, Responses, Results
  <2>3. CASE auction[m.id] = "ours"
    BY <1>1, <2>1, <2>2, <2>3, SettleOrder DEF TakeResult
  <2>4. CASE auction[m.id] # "ours"
    <3>1. UNCHANGED <<auction, round, awards, down>>
      BY <2>1, <2>4 DEF TakeResult, mgrVars
    <3> QED BY <1>1, <3>1, ClosingAdvances, SilentOrder
  <2> QED BY <2>3, <2>4
<1> QED BY <1>2, <1>3, <1>4

-----------------------------------------------------------------------------
(* Signing on.                                                             *)

LEMMA SignOnWrites ==
  ASSUME NetTypeInv, SignOnInv, NetSendRegister \/ NetSendResponse \/ NetSendResult
  PROVE  SignOnInv'
<1>1. UNCHANGED <<known, commitments>>
  BY DEF NetSendRegister, NetSendResponse, NetSendResult, Written,
         SendRegister, SendResponse, SendResult
<1>2. pc' \notin {"connect", "register", "backoff", "exited"}
  BY DEF NetSendRegister, NetSendResponse, NetSendResult, SendRegister, SendResponse, SendResult,
         GoOn, AfterBranch
<1>3. PICK m \in UpMessages :
        /\ up' = Append(up, m)
        /\ m.type = "REGISTER" => pc = "register"
  <2>1. CASE NetSendRegister
    BY <2>1 DEF NetSendRegister, SendRegister, Written, UpMessages
  <2>2. CASE NetSendResponse
    <3>1. PICK m \in responses : Written(m)
      BY <2>2 DEF NetSendResponse
    <3>2. m \in Responses
      BY DEF NetTypeInv, TypeInv, TypeOK
    <3> QED BY <3>1, <3>2 DEF Written, UpMessages, Responses
  <2>3. CASE NetSendResult
    <3>1. Head(outbox) \in Results
      BY <2>3, HeadIn DEF NetSendResult, SendResult, NetTypeInv, TypeInv, TypeOK, LoopShape
    <3> QED BY <2>3, <3>1 DEF NetSendResult, Written, UpMessages, Results
  <2> QED BY <2>1, <2>2, <2>3
<1>4. /\ up \in Seq(UpMessages) /\ Len(up) \in Nat /\ DOMAIN up = 1..Len(up)
      /\ DOMAIN up' = 1..(Len(up) + 1) /\ up'[Len(up) + 1] = m
      /\ \A k \in 1..Len(up) : up'[k] = up[k]
  BY <1>3, AppendProperties, LenProperties DEF NetTypeInv
<1>5. \A k \in RegisterAt' : k \in RegisterAt \/ (k = Len(up) + 1 /\ pc = "register")
  BY <1>3, <1>4 DEF RegisterAt
<1>6. pc = "register" => ~known /\ RegisterAt = {}
  BY DEF SignOnInv
<1>7. (RegisterAt # {} => ~known)' /\ (\A j, k \in RegisterAt : j = k)'
  BY <1>1, <1>5, <1>6 DEF SignOnInv
<1> QED BY <1>1, <1>2, <1>7 DEF SignOnInv, In

LEMMA SignOnDrop ==
  ASSUME NetTypeInv, BooksInv, SignOnInv, Drop
  PROVE  SignOnInv'
<1>1. PICK tail \in HalfWritten \cup {<<>>} :
        \E k \in 0..Len(Without(up, RegisterAt) \o tail) :
           up' = SubSeq(Without(up, RegisterAt) \o tail, 1, k)
  BY DEF Drop
<1> DEFINE u == Without(up, RegisterAt)
           w == u \o tail
           Plain == {x \in UpMessages : x.type # "REGISTER"}
<1>2. tail \in Seq(Plain)
  <2>1. CASE tail = <<>>
    BY <2>1, EmptySeq
  <2>2. CASE pc = "respond" /\ tail # <<>>
    <3>1. PICK x \in responses : tail = <<x>>
      BY <2>2 DEF HalfWritten
    <3>2. x \in Plain
      BY <3>1 DEF NetTypeInv, TypeInv, TypeOK, UpMessages, Responses
    <3> QED BY <3>1, <3>2
  <2>3. CASE pc = "flush" /\ tail # <<>>
    <3>1. tail = <<Head(outbox)>>
      BY <2>3 DEF HalfWritten
    <3>2. Head(outbox) \in Results
      BY <2>3, HeadIn DEF NetTypeInv, TypeInv, TypeOK, LoopShape
    <3>3. Head(outbox) \in Plain
      BY <3>2 DEF UpMessages, Results
    <3> QED BY <3>1, <3>3
  <2>4. CASE pc \notin {"respond", "flush"}
    BY <2>1, <2>4 DEF HalfWritten
  <2> QED BY <2>1, <2>2, <2>3, <2>4
<1>3. u \in Seq(Plain)
  <2>1. up \in Seq(UpMessages) /\ DOMAIN up = 1..Len(up) /\ Len(up) \in Nat
    BY LenProperties DEF NetTypeInv
  <2>2. CASE RegisterAt = {}
    <3>1. u = up /\ \A k \in 1..Len(up) : up[k] \in Plain
      BY <2>1, <2>2 DEF Without, RegisterAt
    <3> QED BY <2>1, <3>1
  <2>3. CASE RegisterAt # {}
    <3> DEFINE r == CHOOSE r \in RegisterAt : TRUE
    <3>1. r \in RegisterAt /\ u = RemoveAt(up, r) /\ r \in 1..Len(up)
      BY <2>1, <2>3 DEF Without, RegisterAt
    <3>2. \A k \in 1..Len(up) : k # r => up[k] \in Plain
      BY <2>1, <3>1 DEF SignOnInv, RegisterAt
    <3> HIDE DEF r, u, Plain
    <3>3. /\ u \in Seq(UpMessages) /\ Len(u) = Len(up) - 1
          /\ \A k \in 1..(Len(up) - 1) : u[k] = IF k < r THEN up[k] ELSE up[k + 1]
      BY <2>1, <3>1, RemoveAtProperties
    <3>4. ASSUME NEW k \in 1..Len(u) PROVE u[k] \in Plain
      <4>1. /\ k \in 1..Len(up) /\ k + 1 \in 1..Len(up) /\ (k < r => k # r)
            /\ (~(k < r) => k + 1 # r)
        BY <2>1, <3>1, <3>3
      <4> QED BY <2>1, <3>2, <3>3, <4>1
    <3> QED BY <3>3, <3>4
  <2> QED BY <2>2, <2>3
<1>4. w \in Seq(Plain)
  BY <1>2, <1>3
<1> HIDE DEF u, Plain
<1>5. PICK n \in 0..Len(w) : up' = SubSeq(w, 1, n)
  BY <1>1 DEF u
<1> HIDE DEF w
<1>6. up' \in Seq(Plain)
  BY <1>4, <1>5, SubSeqProperties, LenProperties
<1>7. \A k \in DOMAIN up' : up'[k] \in Plain
  BY <1>6, LenProperties
<1>8. RegisterAt' = {}
  BY <1>7 DEF RegisterAt, Plain
<1>9. known' = FALSE /\ \A i \in Ids : ~In(commitments', i, {"Pending"})
  <2>1. UNCHANGED awards /\ (EndSession \/ Exit) /\ TypeInv /\ known' = FALSE
    BY DEF Drop, ForgetOffers, Disconnect, SendFails, Interrupt, NetTypeInv
  <2> QED BY <2>1, EndBooks
<1> QED BY <1>8, <1>9 DEF SignOnInv, In

LEMMA SignOnTake ==
  ASSUME NetTypeInv, SignOnInv, NetTake
  PROVE  SignOnInv'
<1> DEFINE m == Head(up)
<1>1. /\ UNCHANGED <<pc, commitments>> /\ up' = Tail(up) /\ up # <<>>
      /\ up \in Seq(UpMessages)
  BY DEF NetTake, vars, NetTypeInv
<1>2. /\ Len(up) \in Nat \ {0} /\ DOMAIN up = 1..Len(up) /\ up[1] = m
      /\ DOMAIN up' = 1..(Len(up) - 1)
      /\ \A k \in 1..(Len(up) - 1) : up'[k] = up[k + 1] /\ k + 1 \in 1..Len(up)
  BY <1>1, HeadTailProperties, LenProperties, EmptySeq
<1>3. known' = (known \/ m.type = "REGISTER")
  BY DEF NetTake, TakeRegister, TakeBid, TakeResult, NetTypeInv, NetTypeOK
<1> HIDE DEF m
<1>4. \A k \in RegisterAt' : k \in Nat \ {0} /\ k + 1 \in RegisterAt
  BY <1>2 DEF RegisterAt
<1>5. m.type = "REGISTER" => 1 \in RegisterAt
  BY <1>2 DEF RegisterAt
<1>6. m.type = "REGISTER" => RegisterAt' = {}
  <2> SUFFICES ASSUME m.type = "REGISTER", NEW k \in RegisterAt' PROVE FALSE
    OBVIOUS
  <2>1. k + 1 = 1 /\ k \in Nat \ {0}
    BY <1>4, <1>5 DEF SignOnInv
  <2> QED BY <2>1
<1>7. (\A j, k \in RegisterAt : j = k)'
  <2> SUFFICES ASSUME NEW j \in RegisterAt', NEW k \in RegisterAt' PROVE j = k
    OBVIOUS
  <2>1. j + 1 = k + 1 /\ j \in Nat /\ k \in Nat
    BY <1>4 DEF SignOnInv
  <2> QED BY <2>1
<1>8. /\ RegisterAt' # {} => RegisterAt # {}
      /\ m.type = "REGISTER" => RegisterAt # {}
  BY <1>4, <1>5
<1>9. (RegisterAt # {} => ~known)'
  BY <1>3, <1>6, <1>8 DEF SignOnInv
<1>10. (pc \in {"connect", "register", "backoff", "exited"} => ~known /\ RegisterAt = {})'
  BY <1>1, <1>3, <1>8 DEF SignOnInv
<1> QED BY <1>1, <1>3, <1>7, <1>9, <1>10 DEF SignOnInv, In

LEMMA SignOnReceive ==
  ASSUME LinkInv, SignOnInv, NetReceive
  PROVE  SignOnInv'
<1>1. known /\ UNCHANGED <<up, known>>
  BY DEF LinkInv, NetReceive
<1>2. pc' \notin {"connect", "register", "backoff", "exited"}
  BY DEF NetReceive, Receive, Registered, Cfp, Consider, AcceptProposal, BidDeclined, Settled,
         GoOn, AfterBranch, vars
<1> QED BY <1>1, <1>2 DEF SignOnInv, RegisterAt

\* A step that leaves the connection alone and makes no bid.
LEMMA SignOnQuiet ==
  ASSUME SignOnInv, UNCHANGED <<up, known>>,
         \A i \in Ids : AttemptKept(commitments, commitments', i),
         pc' \in {"connect", "register", "backoff", "exited"}
           => pc \in {"connect", "register", "backoff", "exited"}
  PROVE  SignOnInv'
<1>1. RegisterAt' = RegisterAt
  BY DEF RegisterAt
<1>2. \A i \in Ids : In(commitments', i, {"Pending"}) => In(commitments, i, {"Pending"})
  BY DEF AttemptKept, In
<1> QED BY <1>1, <1>2 DEF SignOnInv, In

LEMMA SignOnStep ==
  ASSUME NetInv, OrderInv, SignOnInv, [NetNext]_allVars
  PROVE  SignOnInv'
<1>1. NetTypeInv /\ LinkInv /\ BooksInv
  BY DEF NetInv
<1>2. CASE NetLocal
  <2>1. BooksKept /\ UNCHANGED <<up, known>>
    BY <1>1, <1>2, ClientOrder DEF NetLocal, netVars
  <2>2. pc' \in {"connect", "register", "backoff", "exited"}
          => pc \in {"connect", "register", "backoff", "exited"}
    BY <1>2 DEF NetLocal, Local, Launch, Connect, Retry, SaveLearning, MarketExpires, FinishWork,
                MarketChanges, Continue, GoOn, AfterBranch
  <2> QED BY <2>1, <2>2, SignOnQuiet DEF BooksKept
<1>3. CASE UNCHANGED allVars \/ \E i \in Ids : \/ NetAnnounce(i) \/ NetAward(i) \/ NetAwardRival(i)
                                               \/ NetRivalEnds(i) \/ NetTimeout(i)
  <2>1. UNCHANGED <<pc, commitments, up, known>>
    BY <1>3 DEF allVars, vars, netVars, NetAnnounce, NetAward, NetAwardRival, NetRivalEnds, NetTimeout
  <2> QED BY <2>1, SignOnQuiet DEF AttemptKept
<1> QED BY <1>1, <1>2, <1>3, SignOnWrites, SignOnDrop, SignOnTake, SignOnReceive DEF NetNext

-----------------------------------------------------------------------------
(* The client is correct in this network.                                  *)

CorrectInv == NetInv /\ Inv /\ OrderInv /\ SignOnInv

LEMMA OrderStep ==
  ASSUME NetInv, OrderInv, SignOnInv, [NetNext]_allVars
  PROVE  OrderInv'
<1>1. NetTypeInv /\ LinkInv /\ BooksInv
  BY DEF NetInv
<1>2. CASE UNCHANGED allVars
  <2>1. UNCHANGED <<mgrVars, down, closed, commitments>>
    BY <1>2 DEF allVars, vars, netVars
  <2> QED BY <1>1, <2>1, QuietOrder DEF AttemptKept
<1> QED BY <1>1, <1>2, ClientOrder, DropOrder, ReceiveOrder, TakeOrder, ManagerOrder DEF NetNext

LEMMA CorrectStep == CorrectInv /\ [NetNext]_allVars => CorrectInv'
<1> SUFFICES ASSUME CorrectInv, [NetNext]_allVars PROVE CorrectInv'
  OBVIOUS
<1>1. NetInv' /\ OrderInv' /\ SignOnInv'
  BY NetStep, OrderStep, SignOnStep DEF CorrectInv
<1>2. [Next]_vars /\ OpenContracts'
  BY <1>1, ClientStep DEF CorrectInv, NetInv, OrderInv
<1>3. Inv'
  BY <1>2, StepType, ContractStep, SessionStep DEF CorrectInv, Inv
<1> QED BY <1>1, <1>3 DEF CorrectInv

LEMMA NetInitCorrect == NetInit => CorrectInv
<1> SUFFICES ASSUME NetInit PROVE CorrectInv
  OBVIOUS
<1>1. /\ Init /\ MgrInit /\ Len(down) = 0 /\ DOMAIN up = {} /\ known = FALSE
      /\ closed = {} /\ awards = {} /\ \A i \in Ids : commitments[i] = None
  BY EmptySeq DEF NetInit, Init, MgrInit, NoCommitments
<1>2. NetInv /\ Inv
  BY <1>1, NetInitInv, InitInv
<1>3. OrderInv
  BY <1>1 DEF OrderInv, PastInv, OpenContracts
<1>4. SignOnInv
  BY <1>1 DEF SignOnInv, RegisterAt, In
<1> QED BY <1>2, <1>3, <1>4 DEF CorrectInv

THEOREM NetCorrectness == NetSpec => []CorrectInv
  BY NetInitCorrect, CorrectStep, PTL DEF NetSpec

\* Joined to this manager, the client's queue, worker, books, outbox and session agree
\* in every reachable state, without the assumption about the room: what is on its way
\* when a connection fails never brings back an attempt that is settled.
THEOREM ClientCorrectInNetwork == NetSpec => []Inv
<1>1. CorrectInv => Inv
  BY DEF CorrectInv
<1> QED BY <1>1, NetCorrectness, PTL

\* Joined to this manager, a client whose worker is never torn down implements the
\* ledger of contracts.
THEOREM LedgerInNetwork ==
  ASSUME WorkerCanStop = FALSE
  PROVE  NetSpec => KeepsLedger
<1>1. NetInit => Ledger!Init
  BY DEF NetInit, Init, NoCommitments, Ledger!Init
<1>2. CorrectInv /\ CorrectInv' /\ [NetNext]_allVars => [Ledger!Next]_Ledger!vars
  <2> SUFFICES ASSUME CorrectInv, CorrectInv', [NetNext]_allVars
               PROVE  [Ledger!Next]_Ledger!vars
    OBVIOUS
  <2>1. Inv /\ Inv' /\ [Next]_vars
    BY ClientStep DEF CorrectInv, NetInv
  <2> QED BY <2>1, LedgerStep
<1> QED BY <1>1, <1>2, NetCorrectness, PTL DEF NetSpec, KeepsLedger, Ledger!Spec
=============================================================================
