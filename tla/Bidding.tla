------------------------------- MODULE Bidding --------------------------------
(***************************************************************************)
(* A room in which several contractors run the strategy of Pricing against *)
(* each other: calls for proposals, the queue of each contractor           *)
(* (Contractor::queue_seconds), snapshots of the room's live bids that     *)
(* reach a contractor late or not at all (market.rs), and                  *)
(* Contractor::reprice_pending.                                            *)
(*                                                                         *)
(* A bid is in the room as soon as it is made and an award is known as     *)
(* soon as it is made; messages on their way are the subject of            *)
(* ContractNet.  Auctions are short: nothing is computed while they run.   *)
(* Deciding is Pricing's; which estimates it starts from is Forecast's.    *)
(***************************************************************************)
EXTENDS Pricing, Sequences, FiniteSets, FiniteSetsExt

CONSTANTS Contractors,
          LastTask,     \* tasks are 1..LastTask, called in this order
          Reserve,      \* compute_reserve of a contractor for a task
          Expected,     \* expected_compute_seconds
          Delivery,     \* delivery_seconds
          InOrder       \* auctions close in the order of their calls

Tasks == 1..LastTask

ASSUME BiddingAssumption ==
  /\ LastTask \in Nat /\ Delivery \in Nat /\ InOrder \in BOOLEAN
  /\ {Reserve, Expected} \subseteq [Contractors -> [Tasks -> Nat]]

VARIABLES bids,       \* contractor -> task -> its pending bid, or None
          contracts,  \* contractor -> the [task, price] it was awarded, in order
          auction,    \* task -> "bidding", "closing" (200 ms left), "closed"
          called,     \* contractor -> how many calls it has handled
          published,  \* the last snapshot of the room, waiting in the watch channels
          market      \* contractor -> the snapshot it uses, or None

vars == <<bids, contracts, auction, called, published, market>>

-----------------------------------------------------------------------------
(* What a contractor reads and decides.                                    *)

\* The public state: who bids what, and which auctions can still be answered.
Shown(bid) == IF bid = None THEN None ELSE [price |-> bid.price, est |-> bid.est]
Public == [live |-> [c \in Contractors |-> [t \in Tasks |-> Shown(bids[c][t])]],
           open |-> {t \in Tasks : auction[t] = "bidding"}]

Pending(c) == {t \in Tasks : bids[c][t] # None}
Held(c) == {contracts[c][k].task : k \in DOMAIN contracts[c]}

\* (Fault: a bid that is not awarded does not count.)
WaitHeld(c, t) == MapThenSumSet(LAMBDA u : Reserve[c][u], Held(c))

\* queue_seconds() for a bid on t, whose own commitment has been removed.
Wait(c, t) == MapThenSumSet(LAMBDA u : Reserve[c][u], Held(c) \cup (Pending(c) \ {t}))

\* Snapshot::competing_score: the best score of the others in an auction that
\* has more than 200 ms left.
Competing(snapshot, c, t) ==
  IF snapshot = None THEN None
  ELSE LET others == {d \in Contractors \ {c} : snapshot.live[d][t] # None}
           scores == {Score(snapshot.live[d][t].price, snapshot.live[d][t].est) : d \in others}
       IN  IF t \in snapshot.open /\ others # {} THEN Min(scores) ELSE None

Finish(c, t) == Wait(c, t) + Expected[c][t] + Delivery
Reserved(c, t) == Wait(c, t) + Reserve[c][t] + Delivery

\* propose() against a competing score: a bid that remembers it, or None.
Proposal(competing, c, t) ==
  LET finish == Finish(c, t)
      price == Price(finish, Reserved(c, t), competing)
  IN  IF price = None \/ price > Budget \/ finish > Deadline THEN None
      ELSE [price |-> price, est |-> finish, seen |-> competing]

\* (Fault: a snapshot without a competing bid reprices as well.)
RepricedAlways(snapshot, c, t) ==
  LET competing == Competing(snapshot, c, t)
      proposal == Proposal(competing, c, t)
  IN  IF bids[c][t] = None \/ competing = bids[c][t].seen \/ proposal = None
      THEN bids[c][t] ELSE proposal

\* (Fault: a refusal counts as an answer to the score.)
RepricedSeen(snapshot, c, t) ==
  LET competing == Competing(snapshot, c, t)
      proposal == Proposal(competing, c, t)
  IN  IF bids[c][t] = None \/ competing \in {None, bids[c][t].seen} THEN bids[c][t]
      ELSE IF proposal = None THEN [bids[c][t] EXCEPT !.seen = competing] ELSE proposal

\* reprice_pending(): only a competing score that changed is answered, and a bid
\* that cannot be replaced at a profit is kept as it was.
Repriced(snapshot, c, t) ==
  LET competing == Competing(snapshot, c, t)
      proposal == Proposal(competing, c, t)
  IN  IF bids[c][t] = None \/ competing \in {None, bids[c][t].seen} \/ proposal = None
      THEN bids[c][t] ELSE proposal

-----------------------------------------------------------------------------

Init ==
  /\ bids = [c \in Contractors |-> [t \in Tasks |-> None]]
  /\ contracts = [c \in Contractors |-> <<>>]
  /\ auction = [t \in Tasks |-> "bidding"]
  /\ called = [c \in Contractors |-> 0]
  /\ published = None
  /\ market = [c \in Contractors |-> None]

\* A call reaches a contractor after the calls before it.  One that comes after the
\* auction has closed is not answered in time.
Cfp(c, t) ==
  /\ t = called[c] + 1
  /\ called' = [called EXCEPT ![c] = t]
  /\ bids' = [bids EXCEPT ![c][t] =
       IF auction[t] = "closed" THEN None ELSE Proposal(Competing(market[c], c, t), c, t)]
  /\ UNCHANGED <<contracts, auction, published, market>>

Publish ==
  /\ published' = Public
  /\ UNCHANGED <<bids, contracts, auction, called, market>>

\* The select! branch of the feed, with reprice_pending(): the last snapshot, or
\* None when the feed was lost.
See(c, snapshot) ==
  /\ market' = [market EXCEPT ![c] = snapshot]
  /\ bids' = [bids EXCEPT ![c] = [t \in Tasks |-> Repriced(snapshot, c, t)]]
  /\ UNCHANGED <<contracts, auction, called, published>>

\* Two seconds without a snapshot.
Expire(c) ==
  /\ market[c] # None
  /\ market' = [market EXCEPT ![c] = None]
  /\ UNCHANGED <<bids, contracts, auction, called, published>>

Closing(t) ==
  /\ auction[t] = "bidding"
  /\ auction' = [auction EXCEPT ![t] = "closing"]
  /\ UNCHANGED <<bids, contracts, called, published, market>>

Best(c, t) == /\ bids[c][t] # None
              /\ \A d \in Contractors : bids[d][t] # None =>
                   Score(bids[c][t].price, bids[c][t].est) <= Score(bids[d][t].price, bids[d][t].est)

\* The best score is awarded the task; ACCEPT and REJECT end every pending bid on it.
Close(t) ==
  /\ auction[t] = "closing"
  /\ InOrder => \A u \in 1..(t - 1) : auction[u] = "closed"
  /\ auction' = [auction EXCEPT ![t] = "closed"]
  /\ bids' = [c \in Contractors |-> [bids[c] EXCEPT ![t] = None]]
  /\ IF \A c \in Contractors : bids[c][t] = None THEN UNCHANGED contracts
     ELSE \E c \in Contractors :
            /\ Best(c, t)
            /\ contracts' = [contracts EXCEPT ![c] = Append(@, [task |-> t, price |-> bids[c][t].price])]
  /\ UNCHANGED <<called, published, market>>

Next ==
  \/ \E t \in Tasks : Closing(t) \/ Close(t)
  \/ \E c \in Contractors, t \in Tasks : Cfp(c, t)
  \/ Publish
  \/ \E c \in Contractors : See(c, published) \/ See(c, None) \/ Expire(c)

Spec == Init /\ [][Next]_vars

\* The room publishes again and again, and a contractor sees what it publishes:
\* the client returns to select!, and a loss of the feed is not the last event.
Feeds == WF_vars(Publish) /\ \A c \in Contractors : WF_vars(See(c, published))

LiveSpec == Spec /\ Feeds

-----------------------------------------------------------------------------
(* Properties.                                                             *)

\* The sum of what a contractor holds up to its k-th contract: when that is done.
DoneAfter(c, k) ==
  MapThenSumSet(LAMBDA j : Reserve[c][contracts[c][j].task], 1..k) + Delivery

\* With work that takes no longer than reserved, every contract is finished
\* within its deadline and paid at least 20 % more than it costs, although it was
\* priced before the contracts ahead of it in the queue were known: bids still
\* pending count as if they were won.
ReservesHold ==
  \A c \in Contractors : \A k \in DOMAIN contracts[c] :
    /\ DoneAfter(c, k) <= Deadline
    /\ 100 * contracts[c][k].price >= 120 * CostRate * DoneAfter(c, k)

\* Revisions of revisions come to an end, however late the snapshots are and
\* however often the feed is lost: nobody's bid is changed forever.
Revised == \E c \in Contractors, t \in Tasks :
             None \notin {bids[c][t], bids'[c][t]} /\ bids'[c][t] # bids[c][t]
WarEnds == <>[][~Revised]_vars

\* Where bidding stays open and the feed keeps coming, the bids settle: whoever
\* is not the best could not undercut the best of the others by 2 % at a profit.
Outbid(c, t) ==
  LET competing == Competing(Public, c, t)
  IN  /\ competing # None
      /\ Score(bids[c][t].price, bids[c][t].est) > competing
      /\ Price(Finish(c, t), Reserved(c, t), competing) # None
BestCanWin == <>[]\A c \in Contractors, t \in Tasks : bids[c][t] # None => ~Outbid(c, t)
=============================================================================
