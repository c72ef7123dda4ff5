---------------------------- MODULE ClientClock -------------------------------
(***************************************************************************)
(* The session's timers and the market feed on one clock: the client takes *)
(* a snapshot out of the channel whenever it serves what is ready, stamps  *)
(* it with the time at which it does so (client.rs:244, 312), and uses it  *)
(* while that stamp is less than Fresh ticks old (client.rs:170).          *)
(***************************************************************************)
EXTENDS SessionTimers, MarketFeed

CONSTANT Fresh   \* two seconds

ASSUME FreshAssumption == Fresh \in Nat \ {0}

VARIABLE market  \* None, or [age |-> since it was published, held |-> since received]

vars == <<timerVars, feedVars, market>>

Init == TimerInit /\ FeedInit /\ market = None

\* (Fault: the feed is served in a session only.)
TakesListening == Listening

Takes == Serving

\* receive_market(), and in a session the writes of reprice_pending().
Receive(time) ==
  /\ Takes /\ slot # <<>>
  /\ market' = IF slot = <<None>> THEN None ELSE [age |-> Head(slot), held |-> 0]
  /\ slot' = <<>>
  /\ IF Listening /\ registered /\ time > 0 THEN Work(time) ELSE UNCHANGED timerVars
  /\ UNCHANGED feed

Tick ==
  /\ phase # "ended"
  /\ ~(Takes /\ slot # <<>>)
  /\ TimersTick
  /\ FeedTick
  /\ market' = IF market = None \/ market.held + 1 >= Fresh THEN None
               ELSE [age |-> market.age + 1, held |-> market.held + 1]

Client(action) == action /\ UNCHANGED <<feedVars, market>>
Subscriber(action) == action /\ UNCHANGED <<timerVars, market>>

Next ==
  \/ Tick
  \/ Client(TimersNext(Takes /\ slot # <<>>))
  \/ Subscriber(FeedNext(phase = "ended"))
  \/ \E time \in 0..MaxBusy : Receive(time)

Spec == Init /\ [][Next]_vars

\* Time passes; a client in select! handles what is ready; connections, flushes
\* and pauses end.
Fairness ==
  /\ SF_vars(Tick)
  /\ WF_vars(Client(Opened \/ NotOpened)) /\ WF_vars(Client(Retry))
  /\ WF_vars(Client(RegisterSent \/ WriteFails))
  /\ WF_vars(Client(Read)) /\ WF_vars(Client(RegistrationTimesOut))
  /\ WF_vars(Client(KeepaliveFails)) /\ WF_vars(Client(\E time \in 0..MaxBusy : Ping(time)))
  /\ WF_vars(\E time \in 0..MaxBusy : Receive(time))
  /\ WF_vars(Subscriber(FeedOpens \/ FeedNotOpened)) /\ WF_vars(Subscriber(Flushed \/ FeedEnds))
  /\ WF_vars(Subscriber(FeedRetries(phase = "ended")))
  /\ SF_vars(Subscriber(phase = "ended" /\ Stops))

LiveSpec == Spec /\ Fairness

-----------------------------------------------------------------------------
(* Properties.                                                             *)

\* A snapshot a bid is based on was published less than Fresh and one absence from
\* the feed ago: the longest are a session's writes and the write of REGISTER.
SnapshotYoung ==
  market # None => market.age < Fresh + (IF MaxBusy > IoTimeout THEN MaxBusy ELSE IoTimeout)

\* While the feed is away the client does not bid on what it said.
LossForgotten ==
  feed \in {"pause", "connect"} /\ Serving /\ slot = <<>> => market = None

\* Once failures end, the client gives up what is dead, connects again and stays
\* registered with a manager that answers, unless it was evicted: the keepalive ends
\* every dead session, and no timer keeps ending a good one.
ServiceReturns == <>[]healthy => <>[]((registered /\ answering) \/ phase = "ended")

\* When the client has ended, the subscriber stops: its task does not outlive it.
SubscriberStops == phase = "ended" ~> feed = "stopped"
=============================================================================
