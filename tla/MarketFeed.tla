----------------------------- MODULE MarketFeed -------------------------------
(***************************************************************************)
(* The subscriber of src/src/market.rs, a task of its own that keeps a     *)
(* connection to the spectator feed and puts its last snapshot into a      *)
(* watch channel.  How long a connection, a silence or a pause may last is *)
(* bounded by the code (10, 45 and 3 seconds); here it ends at some time.  *)
(***************************************************************************)
EXTENDS Naturals, Sequences

VARIABLES feed,    \* "connect", "read", "flush", "pause" or "stopped"
          slot     \* the watch channel, if it has changed: <<age>> or <<None>>

CONSTANT None

feedVars == <<feed, slot>>

FeedInit == feed = "connect" /\ slot = <<>>

\* (Fault: the last snapshot is left in the channel.)
ForgetNothing ==
  /\ feed' = "pause"
  /\ UNCHANGED slot

\* send_replace(None), and a pause of three seconds.
Forget ==
  /\ feed' = "pause"
  /\ slot' = <<None>>

FeedOpens == feed = "connect" /\ feed' = "read" /\ UNCHANGED slot
FeedNotOpened == feed = "connect" /\ Forget

\* A text frame that parses replaces what has not been seen.
Snapshot == feed = "read" /\ slot' = <<0>> /\ UNCHANGED feed

\* A ping frame is answered by a flush, which no timeout bounds.
PingFrame == feed = "read" /\ feed' = "flush" /\ UNCHANGED slot
Flushed == feed = "flush" /\ feed' = "read" /\ UNCHANGED slot

\* A close frame, an error, the end of the stream, or 45 seconds of silence.
FeedEnds == feed \in {"read", "flush"} /\ Forget

FeedRetries(closed) ==
  /\ feed = "pause"
  /\ feed' = IF closed THEN "stopped" ELSE "connect"
  /\ UNCHANGED slot

\* (Fault: the receiver is looked at between connections only.)
StopsBetween == feed = "pause" /\ feed' = "stopped" /\ UNCHANGED slot

\* sender.closed() in either select!.
Stops == feed \in {"read", "pause"} /\ feed' = "stopped" /\ UNCHANGED slot

FeedNext(closed) ==
  \/ FeedOpens \/ FeedNotOpened \/ Snapshot \/ PingFrame \/ Flushed \/ FeedEnds
  \/ FeedRetries(closed) \/ (closed /\ Stops)

\* A snapshot that waits grows old.
FeedTick ==
  /\ slot' = IF slot \in {<<>>, <<None>>} THEN slot ELSE <<Head(slot) + 1>>
  /\ UNCHANGED feed
=============================================================================
