--------------------------- MODULE ClientClockProofs --------------------------
(***************************************************************************)
(* Theorems about ClientClock, for all constants: how old a snapshot can   *)
(* be, what is forgotten with the feed, and how long a dead link can go    *)
(* unnoticed.                                                              *)
(***************************************************************************)
EXTENDS ClientClock, SequenceTheorems, TLAPS

\* The longest the client can be away from the feed.
Away == IF MaxBusy > IoTimeout THEN MaxBusy ELSE IoTimeout

LEMMA AwayType == Away \in Nat
  BY TimerAssumption DEF Away

-----------------------------------------------------------------------------
(* The inductive invariant.                                                *)

\* The clocks, and which of them run where.
Clocks ==
  /\ phase \in {"connect", "register", "session", "backoff", "ended"}
  /\ left \in 0..IoTimeout /\ (phase # "register" => left = 0)
  /\ busy \in 0..MaxBusy /\ (phase # "session" => busy = 0)
  /\ pingLeft \in 0..PingEvery
  /\ sincePong \in Nat

\* What waits in the channel is not older than the client's present absence
\* permits: it is away for busy or left ticks more.
SlotYoung ==
  \/ slot \in {<<>>, <<None>>}
  \/ \E age \in Nat : /\ slot = <<age>>
                      /\ age + busy + left <= Away
                      /\ phase = "connect" => age = 0

\* A snapshot in use was received less than Fresh ticks ago.
MarketYoung ==
  market = None \/ (/\ market \in [age : Nat, held : Nat]
                    /\ market.held < Fresh
                    /\ market.age <= market.held + Away)

\* Between two connections of the feed its loss is in the channel, or known.
LossTold ==
  feed \in {"pause", "connect"} => slot = <<None>> \/ (slot = <<>> /\ market = None)

\* The last pong was less than three intervals old at the last check, and the time
\* since then is what has passed of the interval, or of the client's absence after it.
PongChecked ==
  IF pingLeft > 0 THEN sincePong + pingLeft <= 4 * PingEvery - 1
  ELSE sincePong + busy <= 4 * PingEvery + MaxBusy - 2

Inv == Clocks /\ SlotYoung /\ MarketYoung /\ LossTold /\ PongChecked

\* The invariant implies the properties.
LEMMA InvImplies == Inv => SnapshotYoung /\ LossForgotten /\ DeadLinkNoticed
<1> SUFFICES ASSUME Inv PROVE SnapshotYoung /\ LossForgotten /\ DeadLinkNoticed
  OBVIOUS
<1> USE TimerAssumption, FreshAssumption DEF Inv
<1>1. SnapshotYoung
  BY DEF MarketYoung, SnapshotYoung, Away
<1>2. LossForgotten
  BY DEF LossTold, LossForgotten
<1>3. DeadLinkNoticed
  BY DEF PongChecked, DeadLinkNoticed, Clocks
<1> QED BY <1>1, <1>2, <1>3

LEMMA InitInv == Init => Inv
  BY TimerAssumption, FreshAssumption
     DEF Init, TimerInit, FeedInit, Inv, Clocks, SlotYoung, MarketYoung, LossTold, PongChecked

-----------------------------------------------------------------------------
(* Every step keeps it.                                                    *)

\* The state that only the client's timers change.
LEMMA LeaveStep ==
  ASSUME Inv, NEW to \in {"connect", "backoff", "ended"}, Leave(to),
         to = "connect" => slot = <<>>, UNCHANGED <<feedVars, market>>
  PROVE  Inv'
<1> USE TimerAssumption DEF Inv, Leave, feedVars
<1>1. Clocks' /\ PongChecked'
  BY DEF Clocks, PongChecked
<1>2. SlotYoung'
  BY DEF SlotYoung, Clocks, Away
<1>3. MarketYoung' /\ LossTold'
  BY DEF MarketYoung, LossTold
<1> QED BY <1>1, <1>2, <1>3

\* The client is away from select! for a time that it knows to be bounded only when
\* nothing waits in the channel.
LEMMA ServeStep ==
  ASSUME Inv, NEW time \in 0..MaxBusy, Ping(time) \/ (time > 0 /\ Work(time)),
         slot # <<>> => time = 0, UNCHANGED <<feedVars, market>>
  PROVE  Inv'
<1> USE TimerAssumption DEF Inv, feedVars
<1>1. Clocks' /\ PongChecked'
  <2>1. CASE Ping(time)
    BY <2>1 DEF Ping, Listening, Silent, Clocks, PongChecked
  <2>2. CASE time > 0 /\ Work(time)
    <3>1. pingLeft > 0
      BY <2>2 DEF Work, Listening, Ready, Clocks
    <3> QED BY <2>2, <3>1 DEF Work, Listening, Clocks, PongChecked
  <2> QED BY <2>1, <2>2
<1>2. SlotYoung'
  <2>1. busy' = time /\ left' = left /\ phase' = phase /\ phase = "session"
    BY DEF Ping, Work, Listening
  <2>2. CASE slot = <<>>
    BY <2>2 DEF SlotYoung
  <2>3. CASE slot # <<>>
    BY <2>1, <2>3, AwayType DEF SlotYoung, Clocks
  <2> QED BY <2>2, <2>3
<1>3. MarketYoung' /\ LossTold'
  BY DEF MarketYoung, LossTold
<1> QED BY <1>1, <1>2, <1>3

LEMMA ClientStep ==
  ASSUME Inv, Client(TimersNext(Takes /\ slot # <<>>))
  PROVE  Inv'
<1> DEFINE waiting == Takes /\ slot # <<>>
<1>0. TimersNext(waiting) /\ UNCHANGED <<feedVars, market>>
  BY DEF Client
<1>1. CASE Opened
  <2>1. Clocks' /\ PongChecked'
    BY <1>1, TimerAssumption DEF Inv, Opened, Clocks, PongChecked
  <2>2. SlotYoung'
    BY <1>0, <1>1, TimerAssumption DEF Inv, Opened, Clocks, SlotYoung, Away, feedVars
  <2>3. MarketYoung' /\ LossTold'
    BY <1>0, <1>1 DEF Inv, MarketYoung, LossTold, feedVars
  <2> QED BY <2>1, <2>2, <2>3 DEF Inv
<1>2. CASE NotOpened \/ WriteFails \/ Closed \/ RegistrationTimesOut \/ KeepaliveFails
  <2>1. Leave("backoff")
    BY <1>2 DEF NotOpened, WriteFails, Closed, RegistrationTimesOut, KeepaliveFails
  <2> QED BY <1>0, <2>1, LeaveStep
<1>3. CASE Evicted
  BY <1>0, <1>3, LeaveStep DEF Evicted
<1>4. CASE ~waiting /\ Retry
  <2>1. slot = <<>>
    BY <1>4 DEF Retry, Takes, Serving, Waiting
  <2> QED BY <1>0, <1>4, <2>1, LeaveStep DEF Retry
<1>5. CASE RegisterSent
  <2>1. Clocks' /\ PongChecked'
    BY <1>5, TimerAssumption DEF Inv, RegisterSent, Clocks, PongChecked
  <2>2. SlotYoung'
    BY <1>0, <1>5, AwayType, TimerAssumption DEF Inv, RegisterSent, Clocks, SlotYoung, feedVars
  <2>3. MarketYoung' /\ LossTold'
    BY <1>0 DEF Inv, MarketYoung, LossTold, feedVars
  <2> QED BY <2>1, <2>2, <2>3 DEF Inv
<1>6. CASE Read \/ Silenced \/ Recovers
  <2>1. /\ UNCHANGED <<phase, left, busy, pingLeft, feed, slot, market>>
        /\ sincePong' \in {0, sincePong}
    BY <1>0, <1>6 DEF Read, Silenced, Recovers, feedVars
  <2>2. Clocks' /\ PongChecked'
    BY <2>1, TimerAssumption DEF Inv, Clocks, PongChecked
  <2>3. SlotYoung' /\ MarketYoung' /\ LossTold'
    BY <2>1 DEF Inv, SlotYoung, MarketYoung, LossTold
  <2> QED BY <2>2, <2>3 DEF Inv
<1>7. CASE \E time \in 0..(IF waiting THEN 0 ELSE MaxBusy) : Ping(time) \/ (time > 0 /\ Work(time))
  <2>1. PICK time \in 0..(IF waiting THEN 0 ELSE MaxBusy) : Ping(time) \/ (time > 0 /\ Work(time))
    BY <1>7
  <2>2. time \in 0..MaxBusy
    BY <2>1, TimerAssumption
  <2>3. slot # <<>> => time = 0
    BY <2>1 DEF Ping, Work, Takes, Serving
  <2> QED BY <1>0, <2>1, <2>2, <2>3, ServeStep
<1> QED BY <1>0, <1>1, <1>2, <1>3, <1>4, <1>5, <1>6, <1>7 DEF TimersNext

LEMMA SubscriberStep ==
  ASSUME Inv, NEW closed \in BOOLEAN, Subscriber(FeedNext(closed))
  PROVE  Inv'
<1> USE DEF Inv, timerVars
<1>0. FeedNext(closed) /\ UNCHANGED <<timerVars, market>>
  BY DEF Subscriber
<1>1. Clocks' /\ PongChecked' /\ MarketYoung'
  BY <1>0 DEF Clocks, PongChecked, MarketYoung
<1>2. slot' \in {slot, <<None>>, <<0>>}
  BY <1>0 DEF FeedNext, FeedOpens, FeedNotOpened, Snapshot, PingFrame, Flushed, FeedEnds,
              FeedRetries, Stops, Forget
<1>3. SlotYoung'
  <2>1. CASE slot' \in {slot, <<None>>}
    BY <1>0, <2>1 DEF SlotYoung
  <2>2. CASE slot' = <<0>>
    <3>1. 0 + busy + left <= Away
      BY TimerAssumption DEF Clocks, Away
    <3> QED BY <1>0, <2>2, <3>1 DEF SlotYoung
  <2> QED BY <1>2, <2>1, <2>2
<1>4. LossTold'
  BY <1>0 DEF LossTold, FeedNext, FeedOpens, FeedNotOpened, Snapshot, PingFrame, Flushed, FeedEnds,
              FeedRetries, Stops, Forget
<1> QED BY <1>1, <1>3, <1>4

LEMMA ReceiveStep ==
  ASSUME Inv, NEW time \in 0..MaxBusy, Receive(time)
  PROVE  Inv'
<1> USE TimerAssumption, FreshAssumption DEF Inv
<1>1. Clocks' /\ PongChecked'
  <2>1. CASE UNCHANGED timerVars
    BY <2>1 DEF Clocks, PongChecked, timerVars
  <2>2. CASE time > 0 /\ Work(time)
    <3>1. pingLeft > 0
      BY <2>2 DEF Work, Listening, Ready, Clocks
    <3> QED BY <2>2, <3>1 DEF Work, Listening, Clocks, PongChecked
  <2> QED BY <2>1, <2>2 DEF Receive
<1>2. SlotYoung'
  BY DEF Receive, SlotYoung
<1>3. MarketYoung'
  <2>1. CASE slot = <<None>>
    BY <2>1 DEF Receive, MarketYoung
  <2>2. CASE slot # <<None>>
    <3>1. PICK age \in Nat : slot = <<age>> /\ age + busy + left <= Away
      BY <2>2 DEF Receive, SlotYoung
    <3>2. market' = [age |-> age, held |-> 0] /\ age <= Away
      BY <2>2, <3>1 DEF Receive, Clocks, Away
    <3> QED BY <3>2, AwayType DEF MarketYoung
  <2> QED BY <2>1, <2>2
<1>4. LossTold'
  BY DEF Receive, LossTold
<1> QED BY <1>1, <1>2, <1>3, <1>4

LEMMA TickStep ==
  ASSUME Inv, Tick
  PROVE  Inv'
<1> USE TimerAssumption, FreshAssumption DEF Inv
<1>1. Clocks'
  <2>1. /\ phase' = phase
        /\ left' = Less(left) /\ busy' = Less(busy) /\ pingLeft' = Less(pingLeft)
        /\ sincePong' = IF phase = "session" THEN sincePong + 1 ELSE 0
    BY DEF Tick, TimersTick
  <2>2. /\ phase \in {"connect", "register", "session", "backoff", "ended"}
        /\ left \in 0..IoTimeout /\ (phase # "register" => left = 0)
        /\ busy \in 0..MaxBusy /\ (phase # "session" => busy = 0)
        /\ pingLeft \in 0..PingEvery /\ sincePong \in Nat
    BY DEF Clocks
  <2>3. IoTimeout \in Nat /\ MaxBusy \in Nat /\ PingEvery \in Nat
    OBVIOUS
  <2>4. ASSUME NEW n \in Nat, NEW x \in 0..n
        PROVE  Less(x) \in 0..n /\ (x = 0 => Less(x) = 0)
    BY DEF Less
  <2>5. /\ Less(left) \in 0..IoTimeout /\ (left = 0 => Less(left) = 0)
        /\ Less(busy) \in 0..MaxBusy /\ (busy = 0 => Less(busy) = 0)
        /\ Less(pingLeft) \in 0..PingEvery
    BY ONLY <2>2, <2>3, <2>4
  <2>6. sincePong' \in Nat
    BY ONLY <2>1, <2>2
  <2> QED BY ONLY <2>1, <2>2, <2>5, <2>6 DEF Clocks
<1>2. PongChecked'
  <2>1. CASE phase = "session"
    <3>1. pingLeft = 0 => busy > 0
      BY <2>1 DEF Tick, TimersTick, Ready, Listening, Clocks
    <3>2. /\ sincePong' = sincePong + 1
          /\ pingLeft' = IF pingLeft > 0 THEN pingLeft - 1 ELSE 0
          /\ busy' = IF busy > 0 THEN busy - 1 ELSE 0
      BY <2>1 DEF Tick, TimersTick, Less
    <3>3. PingEvery \in Nat \ {0} /\ MaxBusy \in Nat \ {0}
      OBVIOUS
    <3> QED BY ONLY <3>1, <3>2, <3>3, Clocks, PongChecked DEF Clocks, PongChecked
  <2>2. CASE phase # "session"
    BY <2>2 DEF Tick, TimersTick, Less, Clocks, PongChecked
  <2> QED BY <2>1, <2>2
<1>3. SlotYoung'
  <2>1. CASE slot \in {<<>>, <<None>>}
    BY <2>1 DEF Tick, FeedTick, SlotYoung
  <2>2. CASE slot \notin {<<>>, <<None>>}
    <3>1. PICK age \in Nat : slot = <<age>> /\ age + busy + left <= Away
      BY <2>2 DEF SlotYoung
    <3>2. ~Serving
      BY <2>2 DEF Tick, Takes
    <3>3. phase' = phase /\ phase # "connect"
      BY <3>2 DEF Tick, TimersTick, Serving, Waiting
    <3>4. busy > 0 \/ left > 0
      BY <3>2 DEF Tick, TimersTick, Serving, Waiting, Listening, Ready, Clocks
    <3>5. age + 1 + busy' + left' <= Away
      BY <3>1, <3>4 DEF Tick, TimersTick, Less, Clocks, Away
    <3>6. slot' = <<age + 1>>
      BY <2>2, <3>1 DEF Tick, FeedTick
    <3> QED BY <3>3, <3>5, <3>6 DEF SlotYoung
  <2> QED BY <2>1, <2>2
<1>4. MarketYoung'
  BY DEF Tick, MarketYoung, Away
<1>5. LossTold'
  BY DEF Tick, FeedTick, LossTold
<1> QED BY <1>1, <1>2, <1>3, <1>4, <1>5

LEMMA NextInv == Inv /\ [Next]_vars => Inv'
<1> SUFFICES ASSUME Inv, [Next]_vars PROVE Inv'
  OBVIOUS
<1>1. CASE UNCHANGED vars
  BY <1>1 DEF vars, timerVars, feedVars, Inv, Clocks, SlotYoung, MarketYoung, LossTold, PongChecked
<1>2. CASE Next
  BY <1>2, TickStep, ClientStep, SubscriberStep, ReceiveStep DEF Next
<1> QED BY <1>1, <1>2

-----------------------------------------------------------------------------

\* The inductive invariant holds.
THEOREM ClockInvariance == Spec => []Inv
<1> QED BY InitInv, NextInv, PTL DEF Spec

\* However long snapshots wait in the channel, one that a bid is based on was
\* published less than Fresh and one absence ago (client.rs:312, 165).
THEOREM SnapshotsYoung == Spec => []SnapshotYoung
<1> QED BY ClockInvariance, InvImplies, PTL

\* A client does not go on bidding on what a lost feed said (market.rs:158).
THEOREM LossIsForgotten == Spec => []LossForgotten
<1> QED BY ClockInvariance, InvImplies, PTL

\* A silent connection is given up in time (client.rs:318).
THEOREM DeadLinksNoticed == Spec => []DeadLinkNoticed
<1> QED BY ClockInvariance, InvImplies, PTL

-----------------------------------------------------------------------------
(* A manager that answers is not given up.                                 *)

\* Two absences and a round trip fit into two intervals.  TLC finds a live connection
\* given up as soon as they do not (PingEvery = 2, MaxBusy = 2, RoundTrip = 2).
AnswersInTime == 2 * MaxBusy + RoundTrip <= 2 * PingEvery + 1

Message == [what: {"REGISTERED", "pong"}, in: 0..RoundTrip]

\* What is sent first arrives first.
InOrder ==
  /\ inbox \in Seq(Message)
  /\ phase # "session" => inbox = <<>>
  /\ \A j, k \in 1..Len(inbox) : j < k => inbox[j].in <= inbox[k].in

Unread(k) == k \in 1..Len(inbox) /\ inbox[k].what = "pong"

\* Every ping is answered and the answer read: the last pong is not older than the
\* last ping.
PongRead ==
  IF pingLeft > 0 THEN sincePong + pingLeft <= PingEvery
  ELSE sincePong + busy <= PingEvery + MaxBusy - 1

\* The answer to a ping is on its way, or waits for a client that left its select!
\* before it was here; every ping before that one has been answered.
PongDue(k) ==
  IF inbox[k].in > 0 THEN sincePong + inbox[k].in <= RoundTrip + PingEvery + MaxBusy - 1
  ELSE sincePong + busy <= RoundTrip + PingEvery + 2 * MaxBusy - 2

PongsInv ==
  phase = "session" /\ answering =>
    \/ PongRead /\ \A k \in 1..Len(inbox) : ~Unread(k)
    \/ \E k \in 1..Len(inbox) : Unread(k) /\ PongDue(k)

AnswersInv == InOrder /\ PongsInv

LEMMA EmptyInbox == <<>> \in Seq(Message) /\ Len(<<>>) = 0
  OBVIOUS

\* Without a session nothing is on its way.
LEMMA NoSession ==
  ASSUME phase' # "session", inbox' = <<>>
  PROVE  AnswersInv'
  BY EmptyInbox DEF AnswersInv, InOrder, PongsInv

\* A step that leaves the session's clocks and its connection alone.
LEMMA SameAnswers ==
  ASSUME AnswersInv, UNCHANGED <<phase, busy, pingLeft, sincePong, inbox>>,
         answering' => answering \/ phase # "session"
  PROVE  AnswersInv'
  BY DEF AnswersInv, InOrder, PongsInv, PongRead, PongDue, Unread

\* The head of the inbox is the first to be here.
LEMMA HeadFirst ==
  ASSUME AnswersInv, NEW k \in 1..Len(inbox), inbox[k].in = 0
  PROVE  Arrived
<1>1. /\ inbox \in Seq(Message) /\ inbox # <<>> /\ Head(inbox) = inbox[1] /\ 1 \in 1..Len(inbox)
  BY HeadTailProperties, EmptyInbox DEF AnswersInv, InOrder
<1>2. inbox[1] \in Message
  BY <1>1
<1>3. inbox[1].in <= inbox[k].in
  BY <1>1, <1>2 DEF AnswersInv, InOrder, Message
<1> QED BY <1>1, <1>2, <1>3, TimerAssumption DEF Arrived, Message

LEMMA RegisterAnswers ==
  ASSUME Inv, AnswersInv, RegisterSent
  PROVE  AnswersInv'
<1>1. /\ inbox = <<>> /\ phase' = "session" /\ sincePong' = 0 /\ pingLeft' = PingEvery
      /\ inbox' = Answer("REGISTERED") /\ PingEvery \in Nat \ {0} /\ RoundTrip \in Nat \ {0}
  BY TimerAssumption DEF RegisterSent, AnswersInv, InOrder
<1> DEFINE m == [what |-> "REGISTERED", in |-> RoundTrip]
<1>2. m \in Message /\ m.what # "pong"
  BY <1>1 DEF Message
<1>3. inbox' = <<>> \/ inbox' = <<m>>
  BY <1>1 DEF Answer
<1> HIDE DEF m
<1>4. /\ inbox' \in Seq(Message) /\ Len(inbox') \in {0, 1}
      /\ \A k \in 1..Len(inbox') : inbox'[k] = m
  <2>1. CASE inbox' = <<>>
    BY <2>1, EmptyInbox
  <2>2. CASE inbox' = <<m>>
    <3>1. <<m>> \in Seq(Message) /\ Len(<<m>>) = 1 /\ <<m>>[1] = m
      BY <1>2
    <3>2. \A k \in 1..1 : k = 1
      OBVIOUS
    <3> QED BY <2>2, <3>1, <3>2
  <2> QED BY <1>3, <2>1, <2>2
<1>5. InOrder'
  BY <1>1, <1>4 DEF InOrder
<1>6. PongRead'
  BY <1>1 DEF PongRead
<1>7. \A k \in 1..Len(inbox') : inbox'[k].what # "pong"
  BY <1>2, <1>4
<1> QED BY <1>5, <1>6, <1>7 DEF AnswersInv, PongsInv, Unread

LEMMA ReadAnswers ==
  ASSUME Inv, AnswersInv, Read
  PROVE  AnswersInv'
<1>1. /\ inbox \in Seq(Message) /\ inbox # <<>> /\ inbox' = Tail(inbox) /\ Head(inbox).in = 0
      /\ UNCHANGED <<phase, busy, pingLeft, answering>> /\ phase = "session" /\ busy = 0
      /\ sincePong' = IF Head(inbox).what = "pong" THEN 0 ELSE sincePong
  BY DEF Read, Arrived, Listening, AnswersInv, InOrder
<1>2. /\ Len(inbox) \in Nat \ {0} /\ Len(inbox') = Len(inbox) - 1 /\ inbox' \in Seq(Message)
      /\ \A k \in 1..Len(inbox') : inbox'[k] = inbox[k + 1] /\ k + 1 \in 1..Len(inbox)
      /\ Head(inbox) = inbox[1] /\ 1 \in 1..Len(inbox)
  BY <1>1, HeadTailProperties, LenProperties, EmptyInbox
<1>3. InOrder'
  BY <1>1, <1>2 DEF AnswersInv, InOrder
<1>4. /\ pingLeft \in 0..PingEvery /\ sincePong \in Nat /\ PingEvery \in Nat \ {0}
      /\ MaxBusy \in Nat \ {0} /\ RoundTrip \in Nat \ {0}
      /\ \A k \in 1..Len(inbox) : inbox[k].in \in 0..RoundTrip
  <2>1. \A k \in 1..Len(inbox) : inbox[k] \in Message
    BY <1>1
  <2> QED BY <2>1, TimerAssumption DEF Inv, Clocks, Message
<1>5. CASE Head(inbox).what = "pong"
  <2>1. sincePong' = 0 /\ PongRead'
    BY <1>1, <1>4, <1>5 DEF PongRead
  <2>2. \A k \in 1..Len(inbox') : Unread(k)' => PongDue(k)'
    BY <1>1, <1>2, <1>4, <2>1 DEF PongDue
  <2> QED BY <1>3, <2>1, <2>2 DEF AnswersInv, PongsInv
<1>6. CASE Head(inbox).what # "pong"
  <2>1. UNCHANGED sincePong
    BY <1>1, <1>6
  <2>2. CASE PongRead /\ \A k \in 1..Len(inbox) : ~Unread(k)
    <3>1. PongRead' /\ \A k \in 1..Len(inbox') : ~Unread(k)'
      BY <1>1, <1>2, <2>1, <2>2 DEF PongRead, Unread
    <3> QED BY <1>3, <3>1 DEF AnswersInv, PongsInv
  <2>3. ASSUME NEW k \in 1..Len(inbox), Unread(k), PongDue(k) PROVE AnswersInv'
    <3>1. PICK l \in 1..Len(inbox') : inbox'[l] = inbox[k]
      <4>1. k # 1
        BY <1>2, <1>6, <2>3 DEF Unread
      <4>2. k - 1 \in 1..Len(inbox') /\ (k - 1) + 1 = k
        BY <1>2, <4>1
      <4> QED BY <1>2, <4>2
    <3>2. Unread(l)' /\ PongDue(l)'
      BY <1>1, <2>1, <2>3, <3>1 DEF Unread, PongDue
    <3> QED BY <1>3, <3>2 DEF AnswersInv, PongsInv
  <2>4. CASE ~answering
    BY <1>1, <1>3, <2>4 DEF AnswersInv, PongsInv
  <2> QED BY <1>1, <2>2, <2>3, <2>4 DEF AnswersInv, PongsInv
<1> QED BY <1>5, <1>6

\* The client leaves its select! only when nothing is here to be read.
LEMMA WorkAnswers ==
  ASSUME Inv, AnswersInv, NEW time \in 0..MaxBusy, time > 0, Work(time)
  PROVE  AnswersInv'
<1>1. /\ UNCHANGED <<phase, pingLeft, sincePong, inbox, answering>> /\ pingLeft > 0 /\ ~Arrived
  BY DEF Work, Ready, Inv, Clocks
<1>2. InOrder'
  BY <1>1 DEF AnswersInv, InOrder
<1>3. PongRead => PongRead'
  BY <1>1 DEF PongRead
<1>4. ASSUME NEW k \in 1..Len(inbox), PongDue(k) PROVE PongDue(k)'
  <2>1. inbox[k].in > 0
    <3>1. inbox[k].in # 0 /\ inbox[k] \in Message
      BY <1>1, HeadFirst DEF AnswersInv, InOrder
    <3> QED BY <3>1, TimerAssumption DEF Message
  <2> QED BY <1>1, <1>4, <2>1 DEF PongDue
<1> QED BY <1>1, <1>2, <1>3, <1>4 DEF AnswersInv, PongsInv, Unread

LEMMA PingAnswers ==
  ASSUME Inv, AnswersInv, NEW time \in 0..MaxBusy, Ping(time)
  PROVE  AnswersInv'
<1>1. /\ phase = "session" /\ busy = 0 /\ pingLeft = 0 /\ pingLeft' = PingEvery /\ busy' = time
      /\ UNCHANGED <<phase, sincePong, answering>> /\ inbox' = Answer("pong")
      /\ time > 0 => ~Arrived
      /\ PingEvery \in Nat \ {0} /\ RoundTrip \in Nat \ {0} /\ MaxBusy \in Nat \ {0}
      /\ sincePong \in Nat /\ inbox \in Seq(Message) /\ Len(inbox) \in Nat
  BY TimerAssumption, LenProperties DEF Ping, Listening, Inv, Clocks, AnswersInv, InOrder
<1>2. CASE ~answering
  <2>1. inbox' = inbox
    BY <1>1, <1>2 DEF Answer
  <2> QED BY <1>1, <1>2, <2>1 DEF AnswersInv, InOrder, PongsInv
<1>3. CASE answering
  <2> DEFINE m == [what |-> "pong", in |-> RoundTrip]
  <2>0. PICK n \in Nat : n = Len(inbox) + 1
    BY <1>1
  <2>1. m \in Message /\ m.what = "pong" /\ m.in = RoundTrip
    BY <1>1 DEF Message
  <2>2. inbox' = Append(inbox, m)
    BY <1>1, <1>3 DEF Answer
  <2> HIDE DEF m
  <2>3. /\ inbox' \in Seq(Message) /\ Len(inbox') = n /\ inbox'[n] = m
        /\ \A k \in 1..Len(inbox) : inbox'[k] = inbox[k] /\ k \in 1..Len(inbox')
        /\ \A k \in 1..Len(inbox') : k # n => k \in 1..Len(inbox)
        /\ n \in 1..Len(inbox')
    BY <1>1, <2>0, <2>1, <2>2, AppendProperties
  <2>4. InOrder'
    <3>1. \A k \in 1..Len(inbox) : inbox[k].in <= RoundTrip
      <4>1. \A k \in 1..Len(inbox) : inbox[k] \in Message
        BY <1>1
      <4> QED BY <1>1, <4>1 DEF Message
    <3>2. ASSUME NEW j \in 1..Len(inbox'), NEW k \in 1..Len(inbox'), j < k
          PROVE  inbox'[j].in <= inbox'[k].in
      <4>1. j \in 1..Len(inbox)
        BY <1>1, <2>0, <2>3, <3>2
      <4>2. CASE k = n
        BY <2>1, <2>3, <3>1, <4>1, <4>2
      <4>3. CASE k # n
        BY <2>3, <3>2, <4>1, <4>3 DEF AnswersInv, InOrder
      <4> QED BY <4>2, <4>3
    <3> QED BY <1>1, <2>3, <3>2 DEF InOrder
  <2>5. CASE PongRead
    <3>1. Unread(n)' /\ PongDue(n)'
      BY <1>1, <2>1, <2>3, <2>5 DEF PongRead, Unread, PongDue
    <3> QED BY <2>3, <2>4, <3>1 DEF AnswersInv, PongsInv
  <2>6. ASSUME NEW k \in 1..Len(inbox), Unread(k), PongDue(k) PROVE AnswersInv'
    <3>1. time > 0 => inbox[k].in > 0
      <4>1. inbox[k] \in Message /\ time \in Nat
        BY <1>1
      <4> QED BY <1>1, <4>1, HeadFirst DEF Message
    <3>2. Unread(k)' /\ PongDue(k)'
      BY <1>1, <2>3, <2>6, <3>1 DEF Unread, PongDue
    <3> QED BY <2>3, <2>4, <2>6, <3>2 DEF AnswersInv, PongsInv
  <2> QED BY <1>1, <1>3, <2>5, <2>6 DEF AnswersInv, PongsInv
<1> QED BY <1>2, <1>3

\* Time passes only while nothing is ready: what is here waits for a client that is away.
LEMMA TickAnswers ==
  ASSUME Inv, AnswersInv, TimersTick
  PROVE  AnswersInv'
<1>1. /\ UNCHANGED <<phase, answering>> /\ ~Ready /\ busy' = Less(busy) /\ pingLeft' = Less(pingLeft)
      /\ inbox' = [k \in DOMAIN inbox |-> [inbox[k] EXCEPT !.in = Less(inbox[k].in)]]
      /\ phase = "session" => sincePong' = sincePong + 1
      /\ inbox \in Seq(Message) /\ Len(inbox) \in Nat /\ DOMAIN inbox = 1..Len(inbox)
      /\ PingEvery \in Nat \ {0} /\ RoundTrip \in Nat \ {0} /\ MaxBusy \in Nat \ {0}
      /\ busy \in 0..MaxBusy /\ pingLeft \in 0..PingEvery /\ sincePong \in Nat
  BY TimerAssumption, LenProperties DEF TimersTick, AnswersInv, InOrder, Inv, Clocks
<1>2. \A k \in 1..Len(inbox) : inbox[k] \in Message /\ inbox[k].in \in Nat /\ inbox[k].in <= RoundTrip
  <2>1. \A k \in 1..Len(inbox) : inbox[k] \in Message
    BY <1>1
  <2> QED BY <1>1, <2>1 DEF Message
<1>3. ASSUME NEW k \in 1..Len(inbox)
      PROVE  /\ inbox'[k] \in Message /\ inbox'[k].what = inbox[k].what
             /\ inbox'[k].in = IF inbox[k].in > 0 THEN inbox[k].in - 1 ELSE 0
  <2>1. inbox[k] \in Message /\ inbox'[k] = [inbox[k] EXCEPT !.in = Less(inbox[k].in)]
    BY <1>1, <1>2
  <2>2. Less(inbox[k].in) \in 0..RoundTrip
    BY <1>1, <1>2 DEF Less
  <2> QED BY <2>1, <2>2 DEF Message, Less
<1>4. inbox' \in Seq(Message) /\ Len(inbox') = Len(inbox)
  <2>1. inbox' \in [1..Len(inbox) -> Message]
    BY <1>1, <1>3
  <2> QED BY <1>1, <2>1, SeqDef, LenProperties
<1>5. InOrder'
  <2>1. phase # "session" => inbox' = <<>>
    <3>1. phase # "session" => Len(inbox) = 0
      BY EmptyInbox DEF AnswersInv, InOrder
    <3> QED BY <1>4, <3>1, EmptySeq
  <2>2. \A j, k \in 1..Len(inbox) : j < k => inbox'[j].in <= inbox'[k].in
    BY <1>2, <1>3 DEF AnswersInv, InOrder
  <2> QED BY <1>1, <1>4, <2>1, <2>2 DEF InOrder
<1>6. CASE ~(phase = "session" /\ answering)
  BY <1>1, <1>5, <1>6 DEF AnswersInv, PongsInv
<1>7. CASE phase = "session" /\ answering
  <2>1. pingLeft = 0 => busy > 0
    BY <1>1, <1>7 DEF Ready, Listening
  <2>2. CASE PongRead /\ \A k \in 1..Len(inbox) : ~Unread(k)
    <3>1. PongRead'
      BY <1>1, <1>7, <2>1, <2>2 DEF PongRead, Less
    <3>2. \A k \in 1..Len(inbox') : ~Unread(k)'
      BY <1>3, <1>4, <2>2 DEF Unread
    <3> QED BY <1>5, <3>1, <3>2 DEF AnswersInv, PongsInv
  <2>3. ASSUME NEW k \in 1..Len(inbox), Unread(k), PongDue(k) PROVE AnswersInv'
    <3>1. inbox[k].in = 0 => busy > 0
      <4>1. inbox[k].in = 0 => Arrived
        BY HeadFirst
      <4> QED BY <1>1, <1>7, <4>1 DEF Ready, Listening
    <3>2. PongDue(k)'
      <4>1. PICK n \in Nat : n = inbox[k].in
        BY <1>2
      <4>2. inbox'[k].in = IF n > 0 THEN n - 1 ELSE 0
        BY <1>3, <4>1
      <4>3. /\ sincePong' = sincePong + 1 /\ sincePong \in Nat
            /\ busy' = IF busy > 0 THEN busy - 1 ELSE 0
            /\ busy \in Nat /\ busy <= MaxBusy
        BY <1>1, <1>7 DEF Less
      <4>4. CASE n > 1
        BY <1>1, <2>3, <4>1, <4>2, <4>3, <4>4 DEF PongDue
      <4>5. CASE n = 1
        <5>1. busy' \in Nat /\ busy' <= MaxBusy - 1 /\ inbox'[k].in = 0 /\ inbox[k].in = 1
          BY <1>1, <4>1, <4>2, <4>3, <4>5
        <5>2. sincePong' <= RoundTrip + PingEvery + MaxBusy - 1
          BY <2>3, <4>3, <5>1 DEF PongDue
        <5>3. sincePong' + busy' <= RoundTrip + PingEvery + 2 * MaxBusy - 2
          <6>1. PICK b \in Nat, p \in Nat : b = busy' /\ p = sincePong'
            BY <4>3, <5>1
          <6>2. RoundTrip \in Nat /\ PingEvery \in Nat /\ MaxBusy \in Nat
            BY <1>1
          <6>3. p + b <= RoundTrip + PingEvery + 2 * MaxBusy - 2
            <7>1. b <= MaxBusy - 1 /\ p <= RoundTrip + PingEvery + MaxBusy - 1
              BY <5>1, <5>2, <6>1
            <7> QED BY <6>2, <7>1
          <6> QED BY <6>1, <6>3
        <5> QED BY <5>1, <5>3 DEF PongDue
      <4>6. CASE n = 0
        BY <1>1, <2>3, <3>1, <4>1, <4>2, <4>3, <4>6 DEF PongDue
      <4> QED BY <4>1, <4>4, <4>5, <4>6
    <3>3. Unread(k)' /\ k \in 1..Len(inbox')
      BY <1>3, <1>4, <2>3 DEF Unread
    <3> QED BY <1>5, <3>2, <3>3 DEF AnswersInv, PongsInv
  <2> QED BY <1>7, <2>2, <2>3 DEF AnswersInv, PongsInv
<1> QED BY <1>6, <1>7

LEMMA AnswersStep == Inv /\ AnswersInv /\ [Next]_vars => AnswersInv'
<1> SUFFICES ASSUME Inv, AnswersInv, [Next]_vars PROVE AnswersInv'
  OBVIOUS
<1>1. ASSUME UNCHANGED timerVars PROVE AnswersInv'
  BY <1>1, SameAnswers DEF timerVars
<1>2. ASSUME NEW to \in {"connect", "backoff", "ended"}, Leave(to) PROVE AnswersInv'
  BY <1>2, NoSession DEF Leave
<1>3. ASSUME NEW waiting \in BOOLEAN, TimersNext(waiting) PROVE AnswersInv'
  <2>1. CASE Opened
    BY <2>1, NoSession DEF Opened, AnswersInv, InOrder
  <2>2. CASE NotOpened \/ Retry \/ WriteFails \/ Closed \/ Evicted \/ RegistrationTimesOut \/ KeepaliveFails
    BY <1>2, <2>2 DEF NotOpened, Retry, WriteFails, Closed, Evicted, RegistrationTimesOut, KeepaliveFails
  <2>3. CASE Silenced \/ Recovers
    BY <2>3, SameAnswers DEF Silenced, Recovers
  <2>4. ASSUME NEW time \in 0..(IF waiting THEN 0 ELSE MaxBusy), Ping(time) \/ (time > 0 /\ Work(time))
        PROVE  AnswersInv'
    <3>1. time \in 0..MaxBusy
      BY TimerAssumption
    <3> QED BY <2>4, <3>1, PingAnswers, WorkAnswers
  <2> QED BY <1>3, <2>1, <2>2, <2>3, <2>4, RegisterAnswers, ReadAnswers DEF TimersNext
<1>4. ASSUME NEW time \in 0..MaxBusy, Receive(time) PROVE AnswersInv'
  BY <1>1, <1>4, WorkAnswers DEF Receive
<1>5. (Takes /\ slot # <<>>) \in BOOLEAN
  OBVIOUS
<1> QED BY <1>1, <1>3, <1>4, <1>5, TickAnswers DEF Next, Tick, Client, Subscriber, vars

\* A manager that answers every ping in time is never given up for silence, however the
\* client's absences from select! fall between pings and answers (client.rs:318).
THEOREM AnsweringIsKept == ASSUME AnswersInTime PROVE Spec => []AnsweringKept
<1>1. Init => AnswersInv
  BY EmptyInbox DEF Init, TimerInit, AnswersInv, InOrder, PongsInv
<1>2. Inv /\ AnswersInv => AnsweringKept
  <2> SUFFICES ASSUME Inv, AnswersInv, Listening, pingLeft = 0, answering PROVE ~Silent
    BY DEF AnsweringKept
  <2>1. /\ PingEvery \in Nat \ {0} /\ RoundTrip \in Nat \ {0} /\ MaxBusy \in Nat \ {0}
        /\ sincePong \in Nat /\ busy = 0 /\ phase = "session"
    BY TimerAssumption DEF Inv, Clocks, Listening
  <2>2. CASE PongRead
    BY <2>1, <2>2 DEF PongRead, AnswersInTime, Silent
  <2>3. ASSUME NEW k \in 1..Len(inbox), PongDue(k) PROVE ~Silent
    <3>1. inbox[k] \in Message
      BY DEF AnswersInv, InOrder
    <3> QED BY <2>1, <2>3, <3>1 DEF PongDue, Message, AnswersInTime, Silent
  <2> QED BY <2>1, <2>2, <2>3 DEF AnswersInv, PongsInv
<1> QED BY <1>1, <1>2, AnswersStep, ClockInvariance, PTL DEF Spec

=============================================================================
