--------------------------- MODULE SessionTimers -----------------------------
(***************************************************************************)
(* The clocks of Contractor::session in src/src/client.rs: the ping        *)
(* interval, the last pong and the registration deadline, for a client     *)
(* that looks at them only when it is back in its select!.  Time is        *)
(* counted in ticks.  Connecting and backing off take any time.            *)
(*                                                                         *)
(* select! picks at random among ready branches, and each may write and    *)
(* save before the next is served: MaxBusy bounds all of that together, so *)
(* the last of the branches that are ready at a time is the one that takes *)
(* time.                                                                   *)
(***************************************************************************)
EXTENDS Integers, Sequences

CONSTANTS PingEvery,   \* APP_PING_INTERVAL
          IoTimeout,   \* IO_TIMEOUT
          MaxBusy,     \* the longest a ready branch of select! waits for the client
          RoundTrip    \* the longest a manager that answers takes

ASSUME TimerAssumption ==
  {PingEvery, IoTimeout, MaxBusy, RoundTrip} \subseteq Nat \ {0}

VARIABLES phase,       \* where run is
          left,        \* "register": until the write of REGISTER times out
          busy,        \* "session": until the client is back in select!
          registered,
          regLeft,     \* until the registration deadline
          pingLeft,    \* until the ping interval fires
          sincePong,   \* last_pong.elapsed()
          inbox,       \* answers of the manager: what, and how long until it is here
          answering,   \* the manager of this connection answers
          healthy      \* connections are accepted, answered and do not fail any more

timerVars == <<phase, left, busy, registered, regLeft, pingLeft, sincePong, inbox,
               answering, healthy>>

Listening == phase = "session" /\ busy = 0
Waiting == phase \in {"connect", "backoff"}

\* In wait_with_work and in select! the client serves what is ready.
Serving == Waiting \/ Listening

Answer(what) == IF answering THEN Append(inbox, [what |-> what, in |-> RoundTrip]) ELSE inbox
Arrived == inbox # <<>> /\ Head(inbox).in = 0

\* A branch of the select! is ready, or a write has timed out: no time passes.
Ready == \/ phase = "register" /\ left = 0
         \/ Listening /\ (pingLeft = 0 \/ Arrived \/ (~registered /\ regLeft = 0))

TimerInit ==
  /\ phase = "connect"
  /\ left = 0 /\ busy = 0
  /\ registered = FALSE
  /\ regLeft = 0 /\ pingLeft = 0 /\ sincePong = 0
  /\ inbox = <<>>
  /\ answering = FALSE
  /\ healthy = FALSE

-----------------------------------------------------------------------------

\* What is over is forgotten: the session's clocks belong to session().
Leave(to) ==
  /\ phase' = to
  /\ left' = 0 /\ busy' = 0
  /\ registered' = FALSE
  /\ regLeft' = 0 /\ pingLeft' = 0 /\ sincePong' = 0
  /\ inbox' = <<>>
  /\ answering' = FALSE
  /\ UNCHANGED healthy

\* The connection is open and REGISTER is being written.
Opened ==
  /\ phase = "connect"
  /\ phase' = "register"
  /\ left' = IoTimeout
  /\ answering' \in {TRUE, healthy}
  /\ UNCHANGED <<busy, registered, regLeft, pingLeft, sincePong, inbox, healthy>>

\* The attempt fails or times out.
NotOpened == phase = "connect" /\ ~healthy /\ Leave("backoff")

Retry == phase = "backoff" /\ Leave("connect")

\* REGISTER is written, and the clocks of the session start.
RegisterSent ==
  /\ phase = "register"
  /\ phase' = "session"
  /\ left' = 0
  /\ regLeft' = IoTimeout
  /\ pingLeft' = PingEvery
  /\ sincePong' = 0
  /\ inbox' = Answer("REGISTERED")
  /\ UNCHANGED <<busy, registered, answering, healthy>>

\* A write fails, or times out.
WriteFails ==
  /\ phase = "register" \/ (phase = "session" /\ busy > 0)
  /\ ~healthy \/ ~answering
  /\ Leave("backoff")

\* The end of the stream, a close frame or a read error.
Closed == Listening /\ (~healthy \/ ~answering) /\ Leave("backoff")

\* Close code 4001, or an ERROR that ends run.
Evicted == Listening /\ Leave("ended")

RegistrationTimesOut ==
  /\ Listening /\ ~registered /\ regLeft = 0
  /\ Leave("backoff")

\* (Fault: a pong does not count.)
ReadUncounted ==
  /\ Listening /\ Arrived
  /\ inbox' = Tail(inbox)
  /\ registered' = (registered \/ Head(inbox).what = "REGISTERED")
  /\ UNCHANGED <<phase, left, busy, regLeft, pingLeft, sincePong, answering, healthy>>

\* last_pong is the time at which a pong is read.
Read ==
  /\ Listening /\ Arrived
  /\ inbox' = Tail(inbox)
  /\ registered' = (registered \/ Head(inbox).what = "REGISTERED")
  /\ sincePong' = IF Head(inbox).what = "pong" THEN 0 ELSE sincePong
  /\ UNCHANGED <<phase, left, busy, regLeft, pingLeft, answering, healthy>>

\* Another branch of the select!, with the writes and the save that follow it.
Work(time) ==
  /\ Listening /\ ~Ready
  /\ busy' = time
  /\ UNCHANGED <<phase, left, registered, regLeft, pingLeft, sincePong, inbox, answering, healthy>>

\* (Fault: the last pong may be three intervals old.)
SilentStrict == sincePong > 3 * PingEvery

Silent == sincePong >= 3 * PingEvery

\* The ping interval fires; after a late tick the next is a whole interval away
\* (MissedTickBehavior::Delay).
KeepaliveFails == Listening /\ pingLeft = 0 /\ Silent /\ Leave("backoff")

\* (Fault: sending a ping counts as a sign of life.)
PingCounts(time) ==
  /\ Listening /\ pingLeft = 0 /\ ~Silent
  /\ time > 0 => ~Arrived /\ (registered \/ regLeft > 0)
  /\ pingLeft' = PingEvery
  /\ sincePong' = 0
  /\ busy' = time
  /\ inbox' = Answer("pong")
  /\ UNCHANGED <<phase, left, registered, regLeft, answering, healthy>>

Ping(time) ==
  /\ Listening /\ pingLeft = 0 /\ ~Silent
  /\ time > 0 => ~Arrived /\ (registered \/ regLeft > 0)
  /\ pingLeft' = PingEvery
  /\ busy' = time
  /\ inbox' = Answer("pong")
  /\ UNCHANGED <<phase, left, registered, regLeft, sincePong, answering, healthy>>

\* The environment: the other end goes silent; failures end for good.
Silenced ==
  /\ answering /\ ~healthy
  /\ answering' = FALSE
  /\ UNCHANGED <<phase, left, busy, registered, regLeft, pingLeft, sincePong, inbox, healthy>>

Recovers ==
  /\ ~healthy
  /\ healthy' = TRUE
  /\ UNCHANGED <<phase, left, busy, registered, regLeft, pingLeft, sincePong, inbox, answering>>

Less(n) == IF n > 0 THEN n - 1 ELSE 0

TimersTick ==
  /\ ~Ready
  /\ left' = Less(left) /\ busy' = Less(busy)
  /\ regLeft' = IF registered THEN 0 ELSE Less(regLeft)
  /\ pingLeft' = Less(pingLeft)
  /\ sincePong' = IF phase = "session" THEN sincePong + 1 ELSE 0
  /\ inbox' = [k \in DOMAIN inbox |-> [inbox[k] EXCEPT !.in = Less(@)]]
  /\ UNCHANGED <<phase, registered, answering, healthy>>

\* waiting: a branch is ready that is not one of the timers' own.  A sleep of the
\* backoff is long enough to serve it.
TimersNext(waiting) ==
  \/ Opened \/ NotOpened \/ (~waiting /\ Retry) \/ RegisterSent \/ WriteFails \/ Closed \/ Evicted
  \/ RegistrationTimesOut \/ Read \/ KeepaliveFails \/ Silenced \/ Recovers
  \/ \E time \in 0..(IF waiting THEN 0 ELSE MaxBusy) : Ping(time) \/ (time > 0 /\ Work(time))

-----------------------------------------------------------------------------
(* Properties.                                                             *)

\* A connection whose other end is silent is given up: the last pong is less than
\* three intervals old at the check before the last, the next check is due an interval
\* later, and the client that left its select! before that is back in time.
DeadLinkNoticed == sincePong <= (3 * PingEvery - 1) + (PingEvery - 1) + MaxBusy

\* While the other end answers, the keepalive never fails: the pong is read before
\* the third interval is over although the client is away from select! at times.
AnsweringKept == Listening /\ pingLeft = 0 /\ answering => ~Silent
=============================================================================
