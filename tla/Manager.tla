------------------------------ MODULE Manager ------------------------------
(***************************************************************************)
(* The auction manager, which is not part of this repository: what the     *)
(* client relies on, from docs/PROTOCOL.md and the messages that           *)
(* src/src/protocol.rs and src/src/client.rs exchange with it.  It sees    *)
(* one contractor, ours; the others are the choice of who wins.            *)
(***************************************************************************)
EXTENDS Naturals

CONSTANTS Ids, Attempts, None

VARIABLES auction,   \* task -> idle, open, ours, rival or done
          round,     \* task -> the attempt last announced, 0 before the first
          offer,     \* task -> our standing proposal, or None
          awards     \* history: (task, attempt) pairs awarded to us

Auctions == {"idle", "open", "ours", "rival", "done"}

MgrInit ==
  /\ auction = [i \in Ids |-> "idle"]
  /\ round = [i \in Ids |-> 0]
  /\ offer = [i \in Ids |-> None]
  /\ awards = {}

\* The auctions that REGISTERED lists: task -> attempt.
OpenCfps == [i \in {j \in Ids : auction[j] = "open"} |-> round[i]]

\* A settled task that was not delivered correctly goes back on the market.
Reopens(i) == round[i] + 1 \in Attempts
AfterFailure(i) == [auction EXCEPT ![i] = IF Reopens(i) THEN "idle" ELSE "done"]

Announce(i) ==
  /\ auction[i] = "idle"
  /\ auction' = [auction EXCEPT ![i] = "open"]
  /\ round' = [round EXCEPT ![i] = @ + 1]
  /\ UNCHANGED <<offer, awards>>

\* A second proposal replaces the first while the bidding is open; a later one
\* is answered with ERROR bidding_closed.
TakeProposal(i, bid) ==
  /\ offer' = IF auction[i] = "open" THEN [offer EXCEPT ![i] = bid] ELSE offer
  /\ UNCHANGED <<auction, round, awards>>

Award(i) ==
  /\ auction[i] = "open" /\ offer[i] # None
  /\ auction' = [auction EXCEPT ![i] = "ours"]
  /\ offer' = [offer EXCEPT ![i] = None]
  /\ awards' = awards \cup {<<i, round[i]>>}
  /\ UNCHANGED round

AwardRival(i) ==
  /\ auction[i] = "open"
  /\ auction' = [auction EXCEPT ![i] = "rival"]
  /\ offer' = [offer EXCEPT ![i] = None]
  /\ UNCHANGED <<round, awards>>

\* The rival delivers, or its contract goes back on the market.
RivalEnds(i) ==
  /\ auction[i] = "rival"
  /\ \/ auction' = [auction EXCEPT ![i] = "done"]
     \/ auction' = AfterFailure(i)
  /\ UNCHANGED <<round, offer, awards>>

\* SETTLED on our contract: paid in full, or back on the market.
Settle(i, correct) ==
  /\ auction[i] = "ours"
  /\ auction' = IF correct THEN [auction EXCEPT ![i] = "done"] ELSE AfterFailure(i)
  /\ UNCHANGED <<round, offer, awards>>

\* Proposals do not outlive the connection they came over.
ForgetOffers ==
  /\ offer' = [i \in Ids |-> None]
  /\ UNCHANGED <<auction, round, awards>>
=============================================================================
