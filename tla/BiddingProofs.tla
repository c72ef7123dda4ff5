---------------------------- MODULE BiddingProofs -----------------------------
(***************************************************************************)
(* What a price of MyContractor::on_cfp promises, for every budget,        *)
(* deadline, rate and weight, and what the prices of a contractor promise  *)
(* together: ReservesHold of Bidding, for any number of contractors and    *)
(* tasks.                                                                  *)
(***************************************************************************)
EXTENDS Bidding, SequenceTheorems, SumTheorems

\* A whole tick is at most what it is rounded down from, and more than a tick less.
LEMMA TickDown ==
  ASSUME NEW x \in Int
  PROVE  x \div 100 \in Int /\ 100 * (x \div 100) <= x /\ x < 100 * (x \div 100) + 100
  OBVIOUS

LEMMA CeilingType ==
  ASSUME NEW finish \in Nat, NEW reserved \in Nat, NEW competing \in Int \cup {None}
  PROVE  /\ Ceiling(finish, reserved, competing) \in Int
         /\ Ceiling(finish, reserved, competing) <= 98 * Budget
         /\ competing # None =>
              Ceiling(finish, reserved, competing) <= 98 * competing - 100 * Score(0, finish)
<1>1. /\ TimeWeight * finish \in Nat /\ 160 * reserved * CostRate \in Nat
      /\ 8 * Budget \in Nat /\ 98 * Budget \in Nat
  BY PricingAssumption
<1> QED BY <1>1 DEF Ceiling, Larger, Smaller, Score

LEMMA FloorType ==
  ASSUME NEW reserved \in Nat
  PROVE  /\ Floor(reserved) \in Nat
         /\ Floor(reserved) >= 100
         /\ Floor(reserved) >= 120 * reserved * CostRate + Extra
<1>1. 120 * reserved * CostRate \in Nat /\ Extra \in Nat
  BY PricingAssumption
<1> QED BY <1>1 DEF Floor, Larger

\* A price that is offered, although it is rounded down after the floor was computed:
\* is at least a tick, covers 120 % of the cautious cost and the extra amount, stays
\* within 98 % of the budget, and undercuts the competing score by 2 % (strategy.rs:79-92).
THEOREM OfferPays ==
  ASSUME NEW finish \in Nat, NEW reserved \in Nat, NEW competing \in Int \cup {None},
         Price(finish, reserved, competing) # None
  PROVE  LET price == Price(finish, reserved, competing)
         IN  /\ price \in Nat \ {0}
             /\ 100 * price >= 120 * reserved * CostRate + Extra
             /\ 100 * price <= 98 * Budget
             /\ competing # None => 100 * Score(price, finish) <= 98 * competing
             /\ 100 * reserved <= 98 * Deadline
<1> DEFINE ceiling == Ceiling(finish, reserved, competing)
           price == ceiling \div 100
<1>1. Price(finish, reserved, competing) = price /\ 100 * price >= Floor(reserved) /\ Admitted(reserved)
  BY DEF Price
<1>2. price \in Int /\ 100 * price <= ceiling /\ ceiling \in Int
  BY CeilingType, TickDown
<1>3. 100 * price >= 100 /\ 100 * price >= 120 * reserved * CostRate + Extra
  <2>1. 120 * reserved * CostRate + Extra \in Nat
    BY PricingAssumption
  <2> HIDE DEF price
  <2> QED BY <1>1, <1>2, <2>1, FloorType
<1>4. price \in Nat \ {0}
  BY ONLY <1>2, <1>3
<1>5. 100 * price <= 98 * Budget
  <2>1. ceiling <= 98 * Budget
    BY CeilingType
  <2>2. Budget \in Nat
    BY PricingAssumption
  <2> HIDE DEF price, ceiling
  <2> QED BY <1>2, <2>1, <2>2
<1>6. competing # None => 100 * Score(price, finish) <= 98 * competing
  <2> HAVE competing # None
  <2>1. TimeWeight * finish \in Nat
    BY PricingAssumption
  <2>2. ceiling <= 98 * competing - 100 * (TimeWeight * finish)
    BY <2>1, CeilingType DEF Score
  <2> HIDE DEF price, ceiling
  <2> QED BY <1>2, <2>1, <2>2 DEF Score
<1>7. 100 * reserved <= 98 * Deadline
  BY <1>1 DEF Admitted
<1> HIDE DEF price
<1> QED BY <1>1, <1>3, <1>4, <1>5, <1>6, <1>7

\* A contractor that refuses against a competing score could not have undercut it by
\* 2 % with any whole tick that covers the floor and the budget: none is given away.
THEOREM RefusalIsForced ==
  ASSUME NEW finish \in Nat \ {0}, NEW reserved \in Nat, NEW competing \in Int,
         competing # None, Admitted(reserved), Price(finish, reserved, competing) = None,
         None \notin Int, NEW price \in Int, 100 * price <= 98 * Budget,
         100 * Score(price, finish) <= 98 * competing
  PROVE  100 * price < Floor(reserved)
<1> DEFINE ceiling == Ceiling(finish, reserved, competing)
<1>1. TimeWeight * finish \in Nat /\ Budget \in Nat
  BY PricingAssumption
<1>2. 100 * price <= ceiling
  BY <1>1 DEF Ceiling, Smaller, Score
<1>3. ceiling \in Int /\ ceiling \div 100 \in Int /\ ceiling < 100 * (ceiling \div 100) + 100
  BY CeilingType, TickDown
<1>4. 100 * (ceiling \div 100) < Floor(reserved)
  <2>1. ~(100 * (ceiling \div 100) >= Floor(reserved))
    BY <1>3 DEF Price
  <2> HIDE DEF ceiling
  <2> QED BY <2>1, <1>3, FloorType
<1>5. price <= ceiling \div 100
  <2> HIDE DEF ceiling
  <2> QED BY <1>2, <1>3
<1> HIDE DEF ceiling
<1> QED BY <1>3, <1>4, <1>5, FloorType
-----------------------------------------------------------------------------
(* The room of Bidding.                                                    *)

Bid == [price : Nat, est : Nat, seen : Int \cup {None}]
Snapshot == [live : [Contractors -> [Tasks -> [price : Nat, est : Nat] \cup {None}]],
             open : SUBSET Tasks]

BiddingTypeOK ==
  /\ bids \in [Contractors -> [Tasks -> Bid \cup {None}]]
  /\ contracts \in [Contractors -> Seq([task : Tasks, price : Nat])]
  /\ auction \in [Tasks -> {"bidding", "closing", "closed"}]
  /\ called \in [Contractors -> Nat]
  /\ published \in Snapshot \cup {None}
  /\ market \in [Contractors -> Snapshot \cup {None}]

\* What is computed before t if every bid that is pending is won.
Ahead(c, t) == (Held(c) \cup Pending(c)) \cap 1..(t - 1)

\* A price and a deadline that are kept if the task is done after `work`.
Kept(price, work) == work <= Deadline /\ 100 * price >= 120 * CostRate * work

InOrderClosed == \A t, u \in Tasks : u < t /\ auction[t] = "closed" => auction[u] = "closed"
PendingOpen == \A c \in Contractors, t \in Tasks :
                 bids[c][t] # None => t <= called[c] /\ auction[t] # "closed"
HeldClosed == \A c \in Contractors : \A k \in DOMAIN contracts[c] :
                auction[contracts[c][k].task] = "closed"
HeldOnce == \A c \in Contractors : \A j, k \in DOMAIN contracts[c] :
              contracts[c][j].task = contracts[c][k].task => j = k
PricedAhead == \A c \in Contractors, t \in Tasks :
  bids[c][t] # None =>
    Kept(bids[c][t].price, SumOver(Reserve[c], Ahead(c, t)) + Reserve[c][t] + Delivery)

BiddingInv ==
  BiddingTypeOK /\ InOrderClosed /\ PendingOpen /\ HeldClosed /\ HeldOnce
    /\ PricedAhead /\ ReservesHold

LEMMA BiddingConstants ==
  /\ LastTask \in Nat /\ Delivery \in Nat /\ CostRate \in Nat /\ TimeWeight \in Nat
  /\ Deadline \in Nat /\ Budget \in Nat /\ Extra \in Nat
  /\ \A c \in Contractors, t \in Tasks : Reserve[c][t] \in Nat /\ Expected[c][t] \in Nat
  BY BiddingAssumption, PricingAssumption

LEMMA TasksFinite ==
  ASSUME NEW S \in SUBSET Tasks
  PROVE  IsFiniteSet(S)
<1>1. IsFiniteSet(Tasks)
  BY BiddingConstants, FS_Interval DEF Tasks
<1> QED BY <1>1, FS_Subset

\* The work of a set of tasks is a natural number and at most that of a larger set.
LEMMA WorkGrows ==
  ASSUME NEW c \in Contractors, NEW S \in SUBSET Tasks, NEW T \in SUBSET S
  PROVE  /\ SumOver(Reserve[c], S) \in Nat /\ SumOver(Reserve[c], T) \in Nat
         /\ SumOver(Reserve[c], T) <= SumOver(Reserve[c], S)
<1>1. IsFiniteSet(S) /\ \A x \in S : Reserve[c][x] \in Nat
  BY TasksFinite, BiddingConstants
<1> QED BY <1>1, SumMonotone

LEMMA WaitIs ==
  ASSUME NEW c, NEW t
  PROVE  Wait(c, t) = SumOver(Reserve[c], Held(c) \cup (Pending(c) \ {t}))
  BY DEF Wait, SumOver

\* What is kept after some work is kept after less.
LEMMA KeptEarlier ==
  ASSUME NEW price \in Nat, NEW work \in Nat, NEW less \in Nat, less <= work, Kept(price, work)
  PROVE  Kept(price, less)
<1>1. CostRate \in Nat /\ Deadline \in Nat
  BY BiddingConstants
<1>2. CostRate * less <= CostRate * work /\ CostRate * less \in Nat /\ CostRate * work \in Nat
  BY <1>1
<1>3. 120 * CostRate * less = 120 * (CostRate * less) /\ 120 * CostRate * work = 120 * (CostRate * work)
  BY <1>1
<1> QED BY <1>1, <1>2, <1>3 DEF Kept

-----------------------------------------------------------------------------
(* What a contractor decides.                                              *)

LEMMA ScoreType ==
  ASSUME NEW price \in Nat, NEW est \in Nat
  PROVE  Score(price, est) \in Nat
<1>1. TimeWeight * est \in Nat
  BY BiddingConstants
<1> QED BY <1>1 DEF Score

LEMMA CompetingType ==
  ASSUME NEW snapshot \in Snapshot \cup {None}, NEW c \in Contractors, NEW t \in Tasks
  PROVE  Competing(snapshot, c, t) \in Nat \cup {None}
<1> DEFINE others == {d \in Contractors \ {c} : snapshot.live[d][t] # None}
           scores == {Score(snapshot.live[d][t].price, snapshot.live[d][t].est) : d \in others}
<1> SUFFICES ASSUME snapshot # None, others # {} PROVE Min(scores) \in Nat
  BY DEF Competing
<1>1. scores \in SUBSET Nat /\ scores # {}
  BY ScoreType DEF Snapshot
<1> HIDE DEF scores
<1> QED BY <1>1, LeastExists DEF Min

LEMMA HeldTasks ==
  ASSUME BiddingTypeOK, NEW c \in Contractors
  PROVE  /\ contracts[c] \in Seq([task : Tasks, price : Nat])
         /\ \A k \in DOMAIN contracts[c] : contracts[c][k] \in [task : Tasks, price : Nat]
         /\ Held(c) \subseteq Tasks
<1>1. contracts[c] \in Seq([task : Tasks, price : Nat])
  BY DEF BiddingTypeOK
<1>2. \A k \in DOMAIN contracts[c] : contracts[c][k] \in [task : Tasks, price : Nat]
  <2> DEFINE s == contracts[c]
  <2> HIDE DEF s
  <2>1. s \in Seq([task : Tasks, price : Nat])
    BY <1>1 DEF s
  <2>2. DOMAIN s = 1..Len(s)
    BY <2>1
  <2>3. \A k \in 1..Len(s) : s[k] \in [task : Tasks, price : Nat]
    BY ONLY <2>1, ElementOfSeq
  <2> QED BY <2>2, <2>3 DEF s
<1> QED BY <1>1, <1>2 DEF Held

\* An offer: its price covers everything the contractor may have to do before it.
LEMMA ProposalKept ==
  ASSUME BiddingTypeOK, NEW c \in Contractors, NEW t \in Tasks,
         NEW competing \in Int \cup {None}, Proposal(competing, c, t) # None
  PROVE  /\ Proposal(competing, c, t) \in Bid
         /\ Wait(c, t) \in Nat
         /\ Kept(Proposal(competing, c, t).price, Wait(c, t) + Reserve[c][t] + Delivery)
<1> DEFINE wait == Wait(c, t)
           reserved == wait + Reserve[c][t] + Delivery
           finish == wait + Expected[c][t] + Delivery
           price == Price(finish, reserved, competing)
<1>1. Held(c) \cup (Pending(c) \ {t}) \in SUBSET Tasks
  <2> QED BY HeldTasks DEF Pending
<1>2. wait \in Nat
  BY <1>1, WorkGrows, WaitIs
<1> HIDE DEF wait
<1>3. reserved \in Nat /\ finish \in Nat
  BY <1>2, BiddingConstants
<1>4. price # None /\ Proposal(competing, c, t) = [price |-> price, est |-> finish, seen |-> competing]
  BY DEF Proposal, Finish, Reserved, wait
<1> HIDE DEF reserved, finish, price
<1>5. /\ price \in Nat \ {0}
      /\ 100 * price >= 120 * reserved * CostRate + Extra
      /\ 100 * reserved <= 98 * Deadline
  BY <1>3, <1>4, OfferPays DEF price
<1>6. Kept(price, reserved)
  <2>1. CostRate \in Nat /\ Deadline \in Nat /\ Extra \in Nat
    BY BiddingConstants
  <2>2. 120 * reserved * CostRate = 120 * CostRate * reserved /\ 120 * CostRate * reserved \in Nat
    BY <1>3, <2>1
  <2>3. reserved <= Deadline
    BY <1>3, <1>5, <2>1
  <2> QED BY <1>5, <2>1, <2>2, <2>3 DEF Kept
<1> QED BY <1>2, <1>3, <1>4, <1>5, <1>6 DEF Bid, wait, reserved

-----------------------------------------------------------------------------
(* The steps.                                                              *)

LEMMA RepricedType ==
  ASSUME BiddingTypeOK, NEW c \in Contractors, NEW t \in Tasks, NEW snapshot \in Snapshot \cup {None}
  PROVE  /\ Repriced(snapshot, c, t) \in Bid \cup {None}
         /\ Repriced(snapshot, c, t) = None <=> bids[c][t] = None
<1>1. bids[c][t] \in Bid \cup {None} /\ Competing(snapshot, c, t) \in Int \cup {None}
  BY CompetingType DEF BiddingTypeOK
<1>2. Proposal(Competing(snapshot, c, t), c, t) # None =>
        Proposal(Competing(snapshot, c, t), c, t) \in Bid
  BY <1>1, ProposalKept
<1> QED BY <1>1, <1>2 DEF Repriced

LEMMA PublicType ==
  ASSUME BiddingTypeOK
  PROVE  Public \in Snapshot
<1>1. \A c \in Contractors, t \in Tasks : Shown(bids[c][t]) \in [price : Nat, est : Nat] \cup {None}
  BY DEF BiddingTypeOK, Shown, Bid
<1> QED BY <1>1 DEF Public, Snapshot

LEMMA BiddingTypeStep ==
  ASSUME BiddingTypeOK, [Next]_vars
  PROVE  BiddingTypeOK'
<1>1. CASE \E c \in Contractors, t \in Tasks : Cfp(c, t)
  <2>1. PICK c \in Contractors, t \in Tasks : Cfp(c, t)
    BY <1>1
  <2>2. Competing(market[c], c, t) \in Int \cup {None}
    <3>1. market[c] \in Snapshot \cup {None}
      BY DEF BiddingTypeOK
    <3>2. Competing(market[c], c, t) \in Nat \cup {None}
      BY <3>1, CompetingType
    <3> QED BY <3>2
  <2>3. Proposal(Competing(market[c], c, t), c, t) \in Bid \cup {None}
    BY <2>2, ProposalKept
  <2>4. called[c] + 1 = t /\ called'[c] \in Nat
    BY <2>1 DEF Cfp, BiddingTypeOK, Tasks
  <2>5. called' \in [Contractors -> Nat]
    BY <2>1, <2>4 DEF Cfp, BiddingTypeOK
  <2>6. bids' \in [Contractors -> [Tasks -> Bid \cup {None}]]
    BY <2>1, <2>3 DEF Cfp, BiddingTypeOK
  <2> QED BY <2>1, <2>5, <2>6 DEF Cfp, BiddingTypeOK
<1>2. CASE Publish
  BY <1>2, PublicType DEF Publish, BiddingTypeOK
<1>3. ASSUME NEW c \in Contractors, NEW snapshot \in Snapshot \cup {None}, See(c, snapshot)
      PROVE  BiddingTypeOK'
  <2>1. [t \in Tasks |-> Repriced(snapshot, c, t)] \in [Tasks -> Bid \cup {None}]
    BY RepricedType
  <2> QED BY <1>3, <2>1 DEF See, BiddingTypeOK
<1>4. CASE \E c \in Contractors : Expire(c)
  BY <1>4 DEF Expire, BiddingTypeOK
<1>5. CASE \E t \in Tasks : Closing(t)
  BY <1>5 DEF Closing, BiddingTypeOK
<1>6. CASE \E t \in Tasks : Close(t)
  <2>1. PICK t \in Tasks : Close(t)
    BY <1>6
  <2>2. bids' \in [Contractors -> [Tasks -> Bid \cup {None}]]
    BY <2>1 DEF Close, BiddingTypeOK
  <2>3. auction' \in [Tasks -> {"bidding", "closing", "closed"}]
    BY <2>1 DEF Close, BiddingTypeOK
  <2>4. contracts' \in [Contractors -> Seq([task : Tasks, price : Nat])]
    <3>1. CASE UNCHANGED contracts
      BY <3>1 DEF BiddingTypeOK
    <3>2. ASSUME NEW c \in Contractors, Best(c, t),
                 contracts' = [contracts EXCEPT ![c] = Append(@, [task |-> t, price |-> bids[c][t].price])]
          PROVE  contracts' \in [Contractors -> Seq([task : Tasks, price : Nat])]
      <4>1. [task |-> t, price |-> bids[c][t].price] \in [task : Tasks, price : Nat]
        BY <3>2 DEF Best, BiddingTypeOK, Bid
      <4>2. Append(contracts[c], [task |-> t, price |-> bids[c][t].price]) \in Seq([task : Tasks, price : Nat])
        BY <4>1, HeldTasks, AppendProperties
      <4> QED BY <3>2, <4>2 DEF BiddingTypeOK
    <3> QED BY <2>1, <3>1, <3>2 DEF Close
  <2> QED BY <2>1, <2>2, <2>3, <2>4 DEF Close, BiddingTypeOK
<1>7. CASE UNCHANGED vars
  BY <1>7 DEF vars, BiddingTypeOK
<1>8. published \in Snapshot \cup {None}
  BY DEF BiddingTypeOK
<1> QED BY <1>1, <1>2, <1>3, <1>4, <1>5, <1>6, <1>7, <1>8 DEF Next

\* A price that covers the work ahead of a task covers a part of it.
LEMMA StillKept ==
  ASSUME NEW c \in Contractors, NEW t \in Tasks, NEW S \in SUBSET Tasks, NEW T \in SUBSET S,
         NEW price \in Nat, Kept(price, SumOver(Reserve[c], S) + Reserve[c][t] + Delivery)
  PROVE  Kept(price, SumOver(Reserve[c], T) + Reserve[c][t] + Delivery)
<1> DEFINE more == SumOver(Reserve[c], S)
           less == SumOver(Reserve[c], T)
<1>1. more \in Nat /\ less \in Nat /\ less <= more
  BY WorkGrows
<1>2. Reserve[c][t] \in Nat /\ Delivery \in Nat
  BY BiddingConstants
<1> HIDE DEF more, less
<1>3. /\ more + Reserve[c][t] + Delivery \in Nat /\ less + Reserve[c][t] + Delivery \in Nat
      /\ less + Reserve[c][t] + Delivery <= more + Reserve[c][t] + Delivery
  BY <1>1, <1>2
<1> QED BY <1>3, KeptEarlier DEF more, less

\* Nothing but the bids changes, none is made or withdrawn, and whatever changes is
\* priced against the queue as it is.
LEMMA AheadUnchanged ==
  ASSUME NEW c, UNCHANGED contracts, \A u \in Tasks : bids'[c][u] = None <=> bids[c][u] = None
  PROVE  /\ Held(c)' = Held(c) /\ Pending(c)' = Pending(c)
         /\ \A t : Ahead(c, t)' = Ahead(c, t)
  BY DEF Held, Pending, Ahead

LEMMA ProposalAhead ==
  ASSUME BiddingTypeOK, NEW c \in Contractors, NEW t \in Tasks, NEW competing \in Int \cup {None},
         NEW A \in SUBSET (Held(c) \cup (Pending(c) \ {t})), Proposal(competing, c, t) # None
  PROVE  Kept(Proposal(competing, c, t).price, SumOver(Reserve[c], A) + Reserve[c][t] + Delivery)
<1> DEFINE S == Held(c) \cup (Pending(c) \ {t})
<1>1. S \in SUBSET Tasks
  BY HeldTasks DEF Pending
<1>2. Wait(c, t) = SumOver(Reserve[c], S)
  BY WaitIs
<1>3. /\ Kept(Proposal(competing, c, t).price, SumOver(Reserve[c], S) + Reserve[c][t] + Delivery)
      /\ Proposal(competing, c, t).price \in Nat
  BY <1>2, ProposalKept DEF Bid
<1>4. A \in SUBSET S
  OBVIOUS
<1> HIDE DEF S
<1> QED BY <1>1, <1>3, <1>4, StillKept

LEMMA RepricedKept ==
  ASSUME BiddingTypeOK, PricedAhead, NEW c \in Contractors, NEW t \in Tasks,
         NEW snapshot \in Snapshot \cup {None}, Repriced(snapshot, c, t) # None
  PROVE  Kept(Repriced(snapshot, c, t).price,
              SumOver(Reserve[c], Ahead(c, t)) + Reserve[c][t] + Delivery)
<1>1. bids[c][t] # None
  BY RepricedType
<1>2. CASE Repriced(snapshot, c, t) = bids[c][t]
  BY <1>1, <1>2 DEF PricedAhead
<1>3. CASE Repriced(snapshot, c, t) # bids[c][t]
  <2> DEFINE competing == Competing(snapshot, c, t)
  <2>1. Repriced(snapshot, c, t) = Proposal(competing, c, t)
    BY <1>3 DEF Repriced
  <2>2. competing \in Int \cup {None}
    <3>1. competing \in Nat \cup {None}
      BY CompetingType
    <3> QED BY <3>1
  <2>3. Ahead(c, t) \in SUBSET (Held(c) \cup (Pending(c) \ {t}))
    BY DEF Ahead, Tasks
  <2> HIDE DEF competing
  <2> QED BY <2>1, <2>2, <2>3, ProposalAhead
<1> QED BY <1>2, <1>3

LEMMA PricedStep ==
  ASSUME BiddingInv, BiddingTypeOK', [Next]_vars
  PROVE  PricedAhead'
<1> USE DEF BiddingInv
<1>1. ASSUME NEW c \in Contractors, NEW t \in Tasks, Cfp(c, t)
      PROVE  PricedAhead'
  <2> SUFFICES ASSUME NEW d \in Contractors, NEW u \in Tasks, bids'[d][u] # None
               PROVE  Kept(bids'[d][u].price,
                           SumOver(Reserve[d], Ahead(d, u)') + Reserve[d][u] + Delivery)
    BY DEF PricedAhead
  <2>1. t = called[c] + 1 /\ UNCHANGED contracts
    BY <1>1 DEF Cfp
  <2>2. \A w \in Tasks : d # c \/ w # t => bids'[d][w] = bids[d][w]
    BY <1>1 DEF Cfp, BiddingTypeOK
  <2>3. Held(d)' = Held(d)
    BY <2>1 DEF Held
  <2>4. CASE d = c /\ u = t
    <3> DEFINE competing == Competing(market[c], c, t)
    <3>1. bids'[c][t] = Proposal(competing, c, t)
      BY <1>1, <2>4 DEF Cfp, BiddingTypeOK
    <3>2. competing \in Int \cup {None}
      <4>1. market[c] \in Snapshot \cup {None}
        BY DEF BiddingTypeOK
      <4>2. competing \in Nat \cup {None}
        BY <4>1, CompetingType
      <4> QED BY <4>2
    <3>3. Ahead(c, t)' \in SUBSET (Held(c) \cup (Pending(c) \ {t}))
      BY <2>2, <2>3, <2>4 DEF Ahead, Pending, Tasks
    <3> HIDE DEF competing
    <3> QED BY <2>4, <3>1, <3>2, <3>3, ProposalAhead
  <2>5. CASE ~(d = c /\ u = t)
    <3>1. bids'[d][u] = bids[d][u] /\ u <= called[d]
      BY <2>2, <2>5 DEF PendingOpen
    <3>2. \A w \in Tasks : w < u => bids'[d][w] = bids[d][w]
      <4> TAKE w \in Tasks
      <4> HAVE w < u
      <4>1. d = c => w # t
        BY <2>1, <3>1 DEF Tasks, BiddingTypeOK
      <4> QED BY <2>2, <4>1
    <3>3. Ahead(d, u)' = Ahead(d, u)
      BY <2>3, <3>2 DEF Ahead, Pending, Tasks
    <3> QED BY <3>1, <3>3 DEF PricedAhead
  <2> QED BY <2>4, <2>5
<1>2. ASSUME NEW c \in Contractors, NEW snapshot \in Snapshot \cup {None}, See(c, snapshot)
      PROVE  PricedAhead'
  <2> SUFFICES ASSUME NEW d \in Contractors, NEW u \in Tasks, bids'[d][u] # None
               PROVE  Kept(bids'[d][u].price,
                           SumOver(Reserve[d], Ahead(d, u)') + Reserve[d][u] + Delivery)
    BY DEF PricedAhead
  <2>1. UNCHANGED contracts
    BY <1>2 DEF See
  <2>2. \A w \in Tasks : bids'[d][w] = IF d = c THEN Repriced(snapshot, c, w) ELSE bids[d][w]
    BY <1>2 DEF See, BiddingTypeOK
  <2>3. \A w \in Tasks : bids'[d][w] = None <=> bids[d][w] = None
    BY <2>2, RepricedType
  <2>4. Ahead(d, u)' = Ahead(d, u)
    BY <2>1, <2>3, AheadUnchanged
  <2> QED BY <2>2, <2>4, RepricedKept DEF PricedAhead
<1>3. ASSUME NEW t \in Tasks, Close(t)
      PROVE  PricedAhead'
  <2> SUFFICES ASSUME NEW d \in Contractors, NEW u \in Tasks, bids'[d][u] # None
               PROVE  Kept(bids'[d][u].price,
                           SumOver(Reserve[d], Ahead(d, u)') + Reserve[d][u] + Delivery)
    BY DEF PricedAhead
  <2>1. \A w \in Tasks : bids'[d][w] = IF w = t THEN None ELSE bids[d][w]
    BY <1>3 DEF Close, BiddingTypeOK
  <2>2. Held(d)' \subseteq Held(d) \cup (Pending(d) \cap {t})
    <3>1. CASE UNCHANGED contracts
      BY <3>1 DEF Held
    <3>2. ASSUME NEW c \in Contractors, Best(c, t),
                 contracts' = [contracts EXCEPT ![c] = Append(@, [task |-> t, price |-> bids[c][t].price])]
          PROVE  Held(d)' \subseteq Held(d) \cup (Pending(d) \cap {t})
      <4>1. CASE d # c
        <5>1. contracts'[d] = contracts[d]
          BY <3>2, <4>1 DEF BiddingTypeOK
        <5> QED BY <5>1 DEF Held
      <4>2. CASE d = c
        <5> DEFINE s == contracts[c]
                   x == [task |-> t, price |-> bids[c][t].price]
        <5>1. contracts'[d] = Append(s, x) /\ t \in Pending(d)
          BY <3>2, <4>2 DEF BiddingTypeOK, Best, Pending
        <5>2. s \in Seq([task : Tasks, price : Nat])
          BY HeldTasks
        <5>3. x.task = t
          OBVIOUS
        <5> HIDE DEF s, x
        <5>4. \A k \in DOMAIN Append(s, x) :
                (k \in DOMAIN s /\ Append(s, x)[k] = s[k]) \/ Append(s, x)[k] = x
          BY <5>2
        <5> QED BY <4>2, <5>1, <5>3, <5>4 DEF Held, s
      <4> QED BY <4>1, <4>2
    <3> QED BY <1>3, <3>1, <3>2 DEF Close
  <2>3. Pending(d)' \subseteq Pending(d)
    BY <2>1 DEF Pending
  <2>4. Ahead(d, u)' \in SUBSET Ahead(d, u) /\ Ahead(d, u) \in SUBSET Tasks
    BY <2>2, <2>3, HeldTasks DEF Ahead, Pending
  <2>5. bids[d][u] # None /\ bids'[d][u] = bids[d][u] /\ bids[d][u].price \in Nat
    BY <2>1 DEF BiddingTypeOK, Bid
  <2> QED BY <2>4, <2>5, StillKept DEF PricedAhead
<1>4. ASSUME UNCHANGED <<bids, contracts>>
      PROVE  PricedAhead'
  BY <1>4, AheadUnchanged DEF PricedAhead
<1>5. published \in Snapshot \cup {None}
  BY DEF BiddingTypeOK
<1> QED BY <1>1, <1>2, <1>3, <1>4, <1>5 DEF Next, vars, Publish, Expire, Closing

LEMMA OpenStep ==
  ASSUME InOrder, BiddingInv, [Next]_vars
  PROVE  InOrderClosed' /\ PendingOpen'
<1> USE DEF BiddingInv
<1>1. ASSUME NEW c \in Contractors, NEW t \in Tasks, Cfp(c, t)
      PROVE  InOrderClosed' /\ PendingOpen'
  <2>1. InOrderClosed'
    BY <1>1 DEF Cfp, InOrderClosed
  <2>2. ASSUME NEW d \in Contractors, NEW u \in Tasks, bids'[d][u] # None
        PROVE  u <= called'[d] /\ auction'[u] # "closed"
    <3>1. called'[d] = (IF d = c THEN t ELSE called[d]) /\ t = called[c] + 1 /\ called[d] \in Nat
      BY <1>1 DEF Cfp, BiddingTypeOK
    <3>2. CASE d = c /\ u = t
      <4>1. bids'[c][t] = IF auction[t] = "closed" THEN None
                          ELSE Proposal(Competing(market[c], c, t), c, t)
        BY <1>1 DEF Cfp, BiddingTypeOK
      <4>2. auction' = auction
        BY <1>1 DEF Cfp
      <4> QED BY <2>2, <3>1, <3>2, <4>1, <4>2 DEF Tasks
    <3>3. CASE ~(d = c /\ u = t)
      <4>1. bids'[d][u] = bids[d][u] /\ auction' = auction
        BY <1>1, <3>3 DEF Cfp, BiddingTypeOK
      <4>2. u <= called[d] /\ auction[u] # "closed"
        BY <2>2, <4>1 DEF PendingOpen
      <4> QED BY <3>1, <4>1, <4>2 DEF Tasks
    <3> QED BY <3>2, <3>3
  <2> QED BY <2>1, <2>2 DEF PendingOpen
<1>2. ASSUME NEW c \in Contractors, NEW snapshot \in Snapshot \cup {None}, See(c, snapshot)
      PROVE  InOrderClosed' /\ PendingOpen'
  <2>1. \A d \in Contractors, w \in Tasks : bids'[d][w] # None => bids[d][w] # None
    BY <1>2, RepricedType DEF See, BiddingTypeOK
  <2> QED BY <1>2, <2>1 DEF See, InOrderClosed, PendingOpen
<1>3. ASSUME NEW t \in Tasks, Close(t)
      PROVE  InOrderClosed' /\ PendingOpen'
  <2>1. \A u \in Tasks : auction'[u] = IF u = t THEN "closed" ELSE auction[u]
    BY <1>3 DEF Close, BiddingTypeOK
  <2>2. \A u \in 1..(t - 1) : auction[u] = "closed"
    BY <1>3 DEF Close
  <2>3. InOrderClosed'
    <3> SUFFICES ASSUME NEW v \in Tasks, NEW u \in Tasks, u < v, auction'[v] = "closed"
                 PROVE  auction'[u] = "closed"
      BY DEF InOrderClosed
    <3>1. CASE v = t
      BY <2>1, <2>2, <3>1 DEF Tasks
    <3>2. CASE v # t
      BY <2>1, <3>2 DEF InOrderClosed
    <3> QED BY <3>1, <3>2
  <2>4. PendingOpen'
    BY <1>3, <2>1 DEF Close, PendingOpen, BiddingTypeOK
  <2> QED BY <2>3, <2>4
<1>4. ASSUME NEW t \in Tasks, Closing(t)
      PROVE  InOrderClosed' /\ PendingOpen'
  BY <1>4 DEF Closing, InOrderClosed, PendingOpen, BiddingTypeOK
<1>5. ASSUME UNCHANGED <<bids, auction, called>>
      PROVE  InOrderClosed' /\ PendingOpen'
  BY <1>5 DEF InOrderClosed, PendingOpen
<1>6. published \in Snapshot \cup {None}
  BY DEF BiddingTypeOK
<1> QED BY <1>1, <1>2, <1>3, <1>4, <1>5, <1>6 DEF Next, vars, Publish, Expire

\* The contracts of a contractor: nothing, or one more for a bid that was pending.
LEMMA ContractsStep ==
  ASSUME BiddingInv, [Next]_vars, NEW d \in Contractors
  PROVE  /\ \A u \in Tasks : auction[u] = "closed" => auction'[u] = "closed"
         /\ \/ contracts'[d] = contracts[d]
            \/ \E t \in Tasks :
                 /\ bids[d][t] # None /\ auction'[t] = "closed" /\ Close(t)
                 /\ contracts'[d] = Append(contracts[d], [task |-> t, price |-> bids[d][t].price])
<1> USE DEF BiddingInv
<1>1. ASSUME NEW t \in Tasks, Close(t)
      PROVE  /\ \A u \in Tasks : auction[u] = "closed" => auction'[u] = "closed"
             /\ \/ contracts'[d] = contracts[d]
                \/ /\ bids[d][t] # None /\ auction'[t] = "closed" /\ Close(t)
                   /\ contracts'[d] = Append(contracts[d], [task |-> t, price |-> bids[d][t].price])
  <2>1. \A u \in Tasks : auction'[u] = IF u = t THEN "closed" ELSE auction[u]
    BY <1>1 DEF Close, BiddingTypeOK
  <2>2. CASE UNCHANGED contracts
    BY <2>1, <2>2
  <2>3. ASSUME NEW c \in Contractors, Best(c, t),
               contracts' = [contracts EXCEPT ![c] = Append(@, [task |-> t, price |-> bids[c][t].price])]
        PROVE  \/ contracts'[d] = contracts[d]
               \/ /\ bids[d][t] # None
                  /\ contracts'[d] = Append(contracts[d], [task |-> t, price |-> bids[d][t].price])
    BY <2>3 DEF BiddingTypeOK, Best
  <2> QED BY <1>1, <2>1, <2>2, <2>3 DEF Close
<1>2. CASE \E t \in Tasks : Close(t)
  BY <1>1, <1>2
<1>3. CASE \E t \in Tasks : Closing(t)
  BY <1>3 DEF Closing, BiddingTypeOK
<1>4. CASE UNCHANGED <<auction, contracts>>
  BY <1>4
<1> QED BY <1>2, <1>3, <1>4 DEF Next, vars, Cfp, Publish, See, Expire

LEMMA HeldStep ==
  ASSUME BiddingInv, [Next]_vars
  PROVE  HeldClosed' /\ HeldOnce'
<1> USE DEF BiddingInv
<1> SUFFICES ASSUME NEW d \in Contractors
             PROVE  /\ \A k \in DOMAIN contracts'[d] : auction'[contracts'[d][k].task] = "closed"
                    /\ \A j, k \in DOMAIN contracts'[d] :
                         contracts'[d][j].task = contracts'[d][k].task => j = k
  BY DEF HeldClosed, HeldOnce
<1> DEFINE s == contracts[d]
<1>1. /\ s \in Seq([task : Tasks, price : Nat])
      /\ \A k \in DOMAIN s : s[k].task \in Tasks /\ auction[s[k].task] = "closed"
      /\ \A j, k \in DOMAIN s : s[j].task = s[k].task => j = k
  BY HeldTasks DEF HeldClosed, HeldOnce
<1>2. CASE contracts'[d] = s
  BY <1>1, <1>2, ContractsStep
<1>3. ASSUME NEW t \in Tasks, bids[d][t] # None, auction'[t] = "closed",
             contracts'[d] = Append(s, [task |-> t, price |-> bids[d][t].price])
      PROVE  /\ \A k \in DOMAIN contracts'[d] : auction'[contracts'[d][k].task] = "closed"
             /\ \A j, k \in DOMAIN contracts'[d] :
                  contracts'[d][j].task = contracts'[d][k].task => j = k
  <2> DEFINE x == [task |-> t, price |-> bids[d][t].price]
  <2>1. x.task = t /\ auction[t] # "closed"
    BY <1>3 DEF PendingOpen
  <2> HIDE DEF s, x
  <2>2. DOMAIN Append(s, x) = 1..(Len(s) + 1) /\ DOMAIN s = 1..Len(s) /\ Len(s) \in Nat
    BY <1>1
  <2>3. \A k \in DOMAIN Append(s, x) :
          (k \in DOMAIN s /\ Append(s, x)[k] = s[k]) \/ (k = Len(s) + 1 /\ Append(s, x)[k] = x)
    BY <1>1
  <2>4. \A u \in Tasks : auction[u] = "closed" => auction'[u] = "closed"
    BY ContractsStep
  <2>5. contracts'[d] = Append(s, x)
    BY <1>3 DEF x
  <2>6. ASSUME NEW k \in DOMAIN Append(s, x)
        PROVE  auction'[Append(s, x)[k].task] = "closed"
    BY <1>1, <1>3, <2>1, <2>3, <2>4
  <2>7. ASSUME NEW j \in DOMAIN Append(s, x), NEW k \in DOMAIN Append(s, x),
               Append(s, x)[j].task = Append(s, x)[k].task
        PROVE  j = k
    <3>1. \A i \in DOMAIN s : s[i].task # t
      BY <1>1, <2>1
    <3> QED BY <1>1, <2>1, <2>3, <2>7, <3>1
  <2> QED BY <2>5, <2>6, <2>7
<1> QED BY <1>2, <1>3, ContractsStep

-----------------------------------------------------------------------------
(* When a contract is done.                                                *)

\* What the first k of the contracts s reserve of the time r.
Done(r, s, k) == MapThenSumSet(LAMBDA j : r[s[j].task], 1..k)

\* What the first k contracts reserve is the work of their tasks, which differ.
LEMMA DoneIs ==
  ASSUME NEW r, NEW s, NEW k \in Nat, \A j \in 1..k : r[s[j].task] \in Int,
         \A i, j \in 1..k : s[i].task = s[j].task => i = j
  PROVE  Done(r, s, k) = SumOver(r, {s[j].task : j \in 1..k})
<1> DEFINE h == [j \in 1..k |-> r[s[j].task]]
           task == [j \in 1..k |-> s[j].task]
           Is(g) == g = [u \in SUBSET (1..k) |->
                           IF u = {} THEN 0 ELSE r[s[Chosen(u)].task] + g[u \ {Chosen(u)}]]
           c == CHOOSE g : Is(g)
<1>1. IsFiniteSet(1..k)
  BY FS_Interval
<1>2. \A u \in SUBSET (1..k) : u # {} => h[Chosen(u)] = r[s[Chosen(u)].task]
  BY DEF Chosen
<1>3. ASSUME NEW g PROVE Is(g) <=> Sums(h, SUBSET (1..k), g)
  <2> DEFINE A(u) == IF u = {} THEN 0 ELSE r[s[Chosen(u)].task] + g[u \ {Chosen(u)}]
             B(u) == IF u = {} THEN 0 ELSE h[Chosen(u)] + g[u \ {Chosen(u)}]
  <2>1. \A u \in SUBSET (1..k) : A(u) = B(u)
    BY <1>2
  <2>2. Is(g) <=> g = [u \in SUBSET (1..k) |-> A(u)]
    OBVIOUS
  <2>3. Sums(h, SUBSET (1..k), g) <=> g = [u \in SUBSET (1..k) |-> B(u)]
    BY DEF Sums
  <2>4. [u \in SUBSET (1..k) |-> A(u)] = [u \in SUBSET (1..k) |-> B(u)]
    <3> HIDE DEF A, B
    <3> QED BY <2>1
  <2> HIDE DEF A, B, Is, h
  <2> QED BY <2>2, <2>3, <2>4
<1>4. PICK g : Sums(h, SUBSET (1..k), g) /\ SumOver(h, 1..k) = g[1..k]
  BY <1>1, SumIs
<1>5. Sums(h, SUBSET (1..k), c)
  <2>1. Is(g)
    BY <1>3, <1>4
  <2>2. Is(c)
    <3> HIDE DEF Is
    <3> QED BY <2>1
  <2> HIDE DEF c, Is, h
  <2> QED BY <1>3, <2>2
<1>6. Done(r, s, k) = c[1..k]
  BY DEF Done, MapThenSumSet, MapThenFoldSet, Chosen
<1>7. g[1..k] = c[1..k]
  <2> DEFINE S == 1..k
  <2> HIDE DEF h, c
  <2>1. IsFiniteSet(S) /\ Sums(h, SUBSET S, g) /\ Sums(h, SUBSET S, c)
    BY <1>1, <1>4, <1>5
  <2> HIDE DEF S
  <2>2. g[S] = c[S]
    <3>1. S \in SUBSET S
      OBVIOUS
    <3> QED BY ONLY <2>1, <3>1, SumsAgree
  <2> QED BY <2>2 DEF S
<1>8. SumOver(h, 1..k) = SumOver(r, {task[j] : j \in 1..k})
  <2>1. \A i, j \in 1..k : task[i] = task[j] => i = j
    OBVIOUS
  <2>2. \A j \in 1..k : r[task[j]] \in Int /\ h[j] = r[task[j]]
    OBVIOUS
  <2> DEFINE S == 1..k
  <2> HIDE DEF h, task, S
  <2> SUFFICES SumOver(h, S) = SumOver(r, {task[j] : j \in S})
    BY DEF S
  <2>3. IsFiniteSet(S)
    BY <1>1 DEF S
  <2>4. \A i, j \in S : task[i] = task[j] => i = j
    BY <2>1 DEF S
  <2>5. \A j \in S : r[task[j]] \in Int /\ h[j] = r[task[j]]
    BY <2>2 DEF S
  <2> QED BY ONLY <2>3, <2>4, <2>5, SumImage
<1>9. {task[j] : j \in 1..k} = {s[j].task : j \in 1..k}
  OBVIOUS
<1> HIDE DEF c, h, task
<1> QED BY <1>4, <1>6, <1>7, <1>8, <1>9

Distinct(s) == \A i, j \in DOMAIN s : s[i].task = s[j].task => i = j

\* The last of the contracts s is the task t, done after everything awarded before it.
LEMMA DoneLast ==
  ASSUME NEW c \in Contractors, NEW s \in Seq([task : Tasks, price : Nat]), NEW k \in 1..Len(s),
         Distinct(s)
  PROVE  /\ {s[j].task : j \in 1..k} \in SUBSET Tasks
         /\ Done(Reserve[c], s, k) = SumOver(Reserve[c], {s[j].task : j \in 1..k})
         /\ SumOver(Reserve[c], {s[j].task : j \in 1..k})
              = Reserve[c][s[k].task] + SumOver(Reserve[c], {s[j].task : j \in 1..(k - 1)})
<1> DEFINE Before(n) == {s[j].task : j \in 1..n}
<1>1. \A j \in 1..k : j \in DOMAIN s /\ s[j].task \in Tasks
  <2>1. \A j \in 1..Len(s) : s[j] \in [task : Tasks, price : Nat]
    BY ElementOfSeq
  <2>2. DOMAIN s = 1..Len(s) /\ \A j \in 1..k : j \in 1..Len(s)
    OBVIOUS
  <2> QED BY <2>1, <2>2
<1>2. k \in Nat /\ \A j \in 1..k : Reserve[c][s[j].task] \in Int
  <2>1. \A t \in Tasks : Reserve[c][t] \in Int
    BY BiddingConstants
  <2> QED BY <1>1, <2>1
<1>3. \A i, j \in 1..k : s[i].task = s[j].task => i = j
  BY <1>1 DEF Distinct
<1>4. Done(Reserve[c], s, k) = SumOver(Reserve[c], Before(k))
  BY <1>2, <1>3, DoneIs
<1>5. Before(k) = Before(k - 1) \cup {s[k].task} /\ s[k].task \notin Before(k - 1)
  <2>1. 1..k = 1..(k - 1) \cup {k} /\ \A j \in 1..(k - 1) : j \in 1..k /\ j # k
    OBVIOUS
  <2> QED BY <1>3, <2>1
<1>6. Before(k) \in SUBSET Tasks /\ Before(k - 1) \in SUBSET Tasks
  <2>1. \A j \in 1..(k - 1) : j \in 1..k
    OBVIOUS
  <2> QED BY <1>1, <2>1
<1>7. SumOver(Reserve[c], Before(k)) = Reserve[c][s[k].task] + SumOver(Reserve[c], Before(k - 1))
  <2> HIDE DEF Before
  <2>1. IsFiniteSet(Before(k - 1)) /\ \A x \in Before(k - 1) \cup {s[k].task} : Reserve[c][x] \in Int
    BY <1>5, <1>6, TasksFinite, BiddingConstants
  <2> QED BY <1>5, <2>1, SumInsert
<1> QED BY <1>4, <1>6, <1>7

Honoured(c, s) == \A k \in DOMAIN s : Kept(s[k].price, Done(Reserve[c], s, k) + Delivery)

LEMMA ReservesAre ==
  ASSUME ReservesHold, NEW c \in Contractors
  PROVE  Honoured(c, contracts[c])
<1>1. \A k \in DOMAIN contracts[c] : DoneAfter(c, k) = Done(Reserve[c], contracts[c], k) + Delivery
  BY DEF DoneAfter, Done
<1>2. \A k \in DOMAIN contracts[c] : Kept(contracts[c][k].price, DoneAfter(c, k))
  BY DEF ReservesHold, Kept
<1> QED BY <1>1, <1>2 DEF Honoured

LEMMA ReservesStep ==
  ASSUME BiddingInv, BiddingTypeOK', HeldOnce', [Next]_vars
  PROVE  ReservesHold'
<1> USE DEF BiddingInv
<1> SUFFICES ASSUME NEW d \in Contractors PROVE Honoured(d, contracts'[d])
  <2>1. ASSUME NEW c, NEW k PROVE DoneAfter(c, k)' = Done(Reserve[c], contracts'[c], k) + Delivery
    BY DEF DoneAfter, Done, MapThenSumSet, MapThenFoldSet
  <2>2. ASSUME NEW c \in Contractors, Honoured(c, contracts'[c]), NEW k \in DOMAIN contracts'[c]
        PROVE  Kept(contracts'[c][k].price, DoneAfter(c, k)')
    BY <2>1, <2>2 DEF Honoured
  <2> QED BY <2>2 DEF ReservesHold, Kept
<1> DEFINE s == contracts[d]
<1>1. Honoured(d, s) /\ s \in Seq([task : Tasks, price : Nat])
  BY ReservesAre, HeldTasks
<1>2. ASSUME NEW t \in Tasks, bids[d][t] # None,
             contracts'[d] = Append(s, [task |-> t, price |-> bids[d][t].price])
      PROVE  Honoured(d, contracts'[d])
  <2> DEFINE x == [task |-> t, price |-> bids[d][t].price]
             after == Append(s, x)
             Before(q, n) == {q[j].task : j \in 1..n}
  <2>1. x \in [task : Tasks, price : Nat] /\ x.task = t /\ x.price = bids[d][t].price
    BY <1>2 DEF BiddingTypeOK, Bid
  <2>2. Distinct(s) /\ Distinct(after)
    BY <1>2 DEF HeldOnce, Distinct
  <2>3. Held(d) = Before(s, Len(s)) /\ Held(d) \in SUBSET Ahead(d, t) /\ Ahead(d, t) \in SUBSET Tasks
    <3>1. DOMAIN s = 1..Len(s)
      BY <1>1
    <3>2. Held(d) \subseteq 1..(t - 1)
      <4> SUFFICES ASSUME NEW k \in DOMAIN contracts[d] PROVE contracts[d][k].task \in 1..(t - 1)
        BY DEF Held
      <4>1. contracts[d][k].task \in Tasks /\ auction[contracts[d][k].task] = "closed"
        BY HeldTasks DEF HeldClosed
      <4>2. auction[t] # "closed"
        BY <1>2 DEF PendingOpen
      <4>3. ~(t < contracts[d][k].task)
        BY <4>1, <4>2 DEF InOrderClosed
      <4>4. contracts[d][k].task # t
        BY <4>1, <4>2
      <4> QED BY <4>1, <4>3, <4>4 DEF Tasks
    <3>3. Held(d) = Before(s, Len(s))
      BY <3>1 DEF Held
    <3>4. Held(d) \in SUBSET Ahead(d, t)
      BY <3>2 DEF Ahead
    <3>5. Ahead(d, t) \in SUBSET Tasks
      BY HeldTasks DEF Ahead, Pending
    <3> QED BY <3>3, <3>4, <3>5
  <2>4. Kept(x.price, SumOver(Reserve[d], Held(d)) + Reserve[d][t] + Delivery)
    <3>1. Kept(x.price, SumOver(Reserve[d], Ahead(d, t)) + Reserve[d][t] + Delivery) /\ x.price \in Nat
      BY <1>2, <2>1 DEF PricedAhead
    <3> HIDE DEF x
    <3> QED BY <2>3, <3>1, StillKept
  <2> HIDE DEF s, x
  <2>5. /\ after \in Seq([task : Tasks, price : Nat]) /\ Len(after) = Len(s) + 1 /\ Len(s) \in Nat
        /\ DOMAIN after = 1..(Len(s) + 1) /\ DOMAIN s = 1..Len(s)
        /\ \A k \in 1..Len(s) : after[k] = s[k]
        /\ after[Len(s) + 1] = x
    BY <1>1, <2>1
  <2> HIDE DEF after
  <2>6. \A n \in 0..Len(s) : Before(after, n) = Before(s, n)
    <3> TAKE n \in 0..Len(s)
    <3>1. \A j \in 1..n : j \in 1..Len(s)
      BY <2>5
    <3> QED BY <2>5, <3>1
  <2>7. ASSUME NEW k \in 1..Len(s) PROVE Kept(after[k].price, Done(Reserve[d], after, k) + Delivery)
    <3>1. k \in 1..Len(after) /\ k \in DOMAIN s /\ k \in 0..Len(s)
      BY <2>5
    <3>2. Done(Reserve[d], s, k) = SumOver(Reserve[d], Before(s, k))
      BY <1>1, <2>2, <2>5, DoneLast
    <3>3. Done(Reserve[d], after, k) = SumOver(Reserve[d], Before(after, k))
      BY <2>2, <2>5, <3>1, DoneLast
    <3>4. Done(Reserve[d], after, k) = Done(Reserve[d], s, k) /\ after[k] = s[k]
      BY <2>5, <2>6, <3>1, <3>2, <3>3
    <3> QED BY <1>1, <3>1, <3>4 DEF Honoured
  <2>8. Kept(after[Len(s) + 1].price, Done(Reserve[d], after, Len(s) + 1) + Delivery)
    <3> DEFINE n == Len(s) + 1
    <3>1. n \in 1..Len(after) /\ n - 1 = Len(s) /\ after[n].task = t
      BY <2>1, <2>5
    <3> HIDE DEF n
    <3>2. /\ Done(Reserve[d], after, n) = SumOver(Reserve[d], Before(after, n))
          /\ SumOver(Reserve[d], Before(after, n))
               = Reserve[d][after[n].task] + SumOver(Reserve[d], Before(after, n - 1))
      BY <2>2, <2>5, <3>1, DoneLast
    <3>3. Before(after, n - 1) = Held(d)
      BY <2>3, <2>5, <2>6, <3>1 DEF s
    <3>4. SumOver(Reserve[d], Held(d)) \in Nat /\ Reserve[d][t] \in Nat /\ Delivery \in Nat
      BY <2>3, WorkGrows, BiddingConstants
    <3>5. Done(Reserve[d], after, n) + Delivery = SumOver(Reserve[d], Held(d)) + Reserve[d][t] + Delivery
      <4>1. Done(Reserve[d], after, n) = Reserve[d][t] + SumOver(Reserve[d], Held(d))
        BY <3>1, <3>2, <3>3
      <4> QED BY <3>4, <4>1
    <3> QED BY <2>4, <2>5, <3>5 DEF n
  <2>9. Honoured(d, after)
    BY <2>5, <2>7, <2>8 DEF Honoured
  <2> QED BY <1>2, <2>9 DEF after, x
<1>3. CASE contracts'[d] = s
  BY <1>1, <1>3
<1> QED BY <1>2, <1>3, ContractsStep

-----------------------------------------------------------------------------

LEMMA BiddingInit ==
  ASSUME Init
  PROVE  BiddingInv
<1> USE DEF Init
<1>1. BiddingTypeOK
  <2>1. \A c \in Contractors : contracts[c] \in Seq([task : Tasks, price : Nat])
    BY EmptySeq
  <2> QED BY <2>1 DEF BiddingTypeOK
<1>2. InOrderClosed /\ PendingOpen /\ PricedAhead
  BY DEF InOrderClosed, PendingOpen, PricedAhead
<1>3. \A c \in Contractors : DOMAIN contracts[c] = {}
  OBVIOUS
<1>4. HeldClosed /\ HeldOnce /\ ReservesHold
  BY <1>3 DEF HeldClosed, HeldOnce, ReservesHold
<1> QED BY <1>1, <1>2, <1>4 DEF BiddingInv

\* However many contractors bid on however many tasks, against snapshots of whatever
\* age, whatever is repriced and whichever contracts are won (Contractor::reprice_pending,
\* queue_seconds, MyContractor::on_cfp): every contract is done within its deadline and
\* at a price of at least 120 % of its cost, as long as nothing takes longer than
\* reserved and auctions close in the order of their calls.
THEOREM ReservesAreEnough ==
  ASSUME InOrder
  PROVE  Spec => []ReservesHold
<1>1. Init => BiddingInv
  BY BiddingInit
<1>2. BiddingInv /\ [Next]_vars => BiddingInv'
  <2> SUFFICES ASSUME BiddingInv, [Next]_vars PROVE BiddingInv'
    OBVIOUS
  <2>1. BiddingTypeOK'
    BY BiddingTypeStep DEF BiddingInv
  <2>2. InOrderClosed' /\ PendingOpen' /\ HeldClosed' /\ HeldOnce' /\ PricedAhead'
    BY <2>1, OpenStep, HeldStep, PricedStep
  <2>3. ReservesHold'
    BY <2>1, <2>2, ReservesStep
  <2> QED BY <2>1, <2>2, <2>3 DEF BiddingInv
<1>3. BiddingInv => ReservesHold
  BY DEF BiddingInv
<1> QED BY <1>1, <1>2, <1>3, PTL DEF Spec

=============================================================================
