--------------------------- MODULE ExchangeProofs ---------------------------
(***************************************************************************)
(* Theorems about what client and manager agree on although PROPOSE,       *)
(* INFORM, FAILURE and ACCEPT_PROPOSAL name no attempt: offers, awards and *)
(* results, for every set of tasks and any number of failing connections.  *)
(***************************************************************************)
EXTENDS ContractNetProofs

\* PROPOSE names no attempt: a revision that is still on its way when a task is
\* called again counts for the new attempt.  Bids are revised only with a feed.
NoLateRevision == HasFeed => Attempts = {1}

\* A change of the estimate below the announcing step is tracked and not sent.
ChangesAnnounced == HasFeed => \A b, c \in Bids : b # c => Announced(b, c)

-----------------------------------------------------------------------------
(* The channels, message by message.                                       *)

LEMMA WrittenAt ==
  ASSUME NetTypeInv, NEW m \in UpMessages, Written(m)
  PROVE  /\ up' = Append(up, m) /\ Len(up) \in Nat /\ Len(up') = Len(up) + 1
         /\ DOMAIN up = 1..Len(up) /\ DOMAIN up' = 1..(Len(up) + 1)
         /\ up'[Len(up) + 1] = m /\ \A k \in 1..Len(up) : up'[k] = up[k]
         /\ UNCHANGED <<auction, round, offer, awards, down, known, drops>>
<1>1. up \in Seq(UpMessages) /\ up' = Append(up, m) /\ up' \in Seq(UpMessages)
  BY WrittenType DEF Written, NetTypeInv
<1>2. UNCHANGED <<auction, round, offer, awards, down, known, drops>>
  BY DEF Written, mgrVars
<1> QED BY <1>1, <1>2, AppendProperties, LenProperties

LEMMA TakenAt ==
  ASSUME NetTypeInv, NetTake
  PROVE  /\ Head(up) \in UpMessages /\ Head(up) = up[1] /\ 1 \in DOMAIN up
         /\ Len(up) \in Nat \ {0} /\ Len(up') = Len(up) - 1
         /\ DOMAIN up = 1..Len(up) /\ DOMAIN up' = 1..(Len(up) - 1)
         /\ \A k \in 1..(Len(up) - 1) : up'[k] = up[k + 1] /\ k + 1 \in 1..Len(up)
         /\ UNCHANGED vars /\ UNCHANGED drops
<1>1. up \in Seq(UpMessages) /\ up # <<>> /\ up' = Tail(up) /\ UNCHANGED vars /\ UNCHANGED drops
  BY DEF NetTake, NetTypeInv
<1>2. Len(up) \in Nat \ {0} /\ DOMAIN up = 1..Len(up)
  BY <1>1, LenProperties, EmptySeq
<1>3. Tail(up) \in Seq(UpMessages) /\ Head(up) \in UpMessages
  BY <1>1, HeadIn
<1> QED BY <1>1, <1>2, <1>3, HeadTailProperties, LenProperties

LEMMA ReadAt ==
  ASSUME NetTypeInv, NetReceive
  PROVE  /\ Head(down) \in DownMessages /\ Head(down) = down[1] /\ 1 \in DOMAIN down
         /\ Len(down) \in Nat \ {0} /\ Len(down') = Len(down) - 1
         /\ DOMAIN down = 1..Len(down) /\ DOMAIN down' = 1..(Len(down) - 1)
         /\ \A k \in 1..(Len(down) - 1) : down'[k] = down[k + 1] /\ k + 1 \in 1..Len(down)
         /\ UNCHANGED <<auction, round, offer, awards, up, known, drops>>
         /\ pc = "select" /\ Receive(Head(down))
<1>1. /\ down \in Seq(DownMessages) /\ down # <<>> /\ down' = Tail(down)
      /\ UNCHANGED <<auction, round, offer, awards, up, known, drops>>
      /\ pc = "select" /\ Receive(Head(down))
  BY DEF NetReceive, NetTypeInv, mgrVars
<1>2. Len(down) \in Nat \ {0} /\ DOMAIN down = 1..Len(down)
  BY <1>1, LenProperties, EmptySeq
<1>3. Tail(down) \in Seq(DownMessages) /\ Head(down) \in DownMessages
  BY <1>1, HeadIn
<1> QED BY <1>1, <1>2, <1>3, HeadTailProperties, LenProperties

LEMMA AppendedAt ==
  ASSUME NetTypeInv, NEW m \in DownMessages, down' = Append(down, m)
  PROVE  /\ Len(down) \in Nat /\ Len(down') = Len(down) + 1
         /\ DOMAIN down = 1..Len(down) /\ DOMAIN down' = 1..(Len(down) + 1)
         /\ down'[Len(down) + 1] = m /\ \A k \in 1..Len(down) : down'[k] = down[k]
<1>1. down \in Seq(DownMessages) /\ down' \in Seq(DownMessages)
  BY AppendProperties DEF NetTypeInv
<1> QED BY <1>1, AppendProperties, LenProperties

\* The client writes its REGISTER, a reply to what it read, or the oldest result.
LEMMA WhatIsWritten ==
  ASSUME NetTypeInv, NetSendRegister \/ NetSendResponse \/ NetSendResult
  PROVE  \E m \in UpMessages :
           /\ Written(m)
           /\ \/ m = Register /\ pc = "register" /\ UNCHANGED responses
              \/ m \in responses /\ registered /\ responses' = responses \ {m}
              \/ /\ m = Head(outbox) /\ m \in Results /\ registered /\ 1 \in DOMAIN outbox
                 /\ m = outbox[1] /\ UNCHANGED responses
<1>1. CASE NetSendRegister
  BY <1>1 DEF NetSendRegister, SendRegister, UpMessages
<1>2. CASE NetSendResponse
  <2>1. PICK m \in responses : SendResponse(m) /\ Written(m)
    BY <1>2 DEF NetSendResponse
  <2>2. m \in UpMessages /\ registered
    BY <2>1 DEF UpMessages, NetTypeInv, TypeInv, TypeOK, LoopShape, SendResponse
  <2> QED BY <2>1, <2>2 DEF SendResponse
<1>3. CASE NetSendResult
  <2>1. /\ outbox \in Seq(Results) /\ outbox # <<>> /\ registered /\ UNCHANGED responses
        /\ Written(Head(outbox))
    BY <1>3 DEF NetSendResult, SendResult, NetTypeInv, TypeInv, TypeOK, LoopShape
  <2>2. Head(outbox) \in Results /\ Head(outbox) = outbox[1] /\ 1 \in DOMAIN outbox
    BY <2>1, HeadIn, HeadTailProperties, LenProperties, EmptySeq
  <2> QED BY <2>1, <2>2 DEF UpMessages
<1> QED BY <1>1, <1>2, <1>3

-----------------------------------------------------------------------------
(* What the client's steps do to its bids.                                 *)

HasBid(i) == In(commitments, i, {"Pending"})
SameBid(i) == HasBid(i) \/ HasBid(i)' => commitments'[i] = commitments[i]

\* start_next() starts an awarded task or none.
LEMMA StartNextSameBid ==
  ASSUME NEW c \in [Ids -> Commitments \cup {None}], NEW q \in Seq(Ids),
         NEW w \in Work \cup {None}, QueueMatches(c, q), StartNext(c, q, w)
  PROVE  \A i \in Ids : \/ commitments'[i] = c[i]
                        \/ In(c, i, {"Awarded"}) /\ In(commitments', i, {"Running"})
<1>1. CASE commitments' = c
  BY <1>1
<1>2. CASE commitments' # c
  <2>1. PICK t \in Ids : /\ In(c, t, {"Awarded"})
                         /\ commitments' = [c EXCEPT ![t] = [c[t] EXCEPT !.stage = "Running"]]
    BY <1>2, StartNextContracts
  <2>2. c[t] \in Commitments
    BY <2>1 DEF In
  <2>3. /\ commitments'[t] = [c[t] EXCEPT !.stage = "Running"]
        /\ \A i \in Ids : i # t => commitments'[i] = c[i]
    BY <2>1
  <2>4. commitments'[t].stage = "Running" /\ commitments'[t] \in Commitments
    BY <2>2, <2>3 DEF Commitments, Stages
  <2>5. In(commitments', t, {"Running"})
    BY <2>4, NoneAssumption DEF In
  <2> QED BY <2>1, <2>3, <2>5
<1> QED BY <1>1, <1>2

LEMMA CompletedMatches ==
  ASSUME Inv, active # None, Ours(active), NEW type
  PROVE  LET c == Completed(commitments, active.id, type)
         IN  /\ active.id \in Ids /\ In(commitments, active.id, {"Running"})
             /\ c \in [Ids -> Commitments \cup {None}] /\ QueueMatches(c, queue)
             /\ c[active.id].stage = "Complete"
             /\ \A t \in Ids : t # active.id => c[t] = commitments[t]
<1> DEFINE c == Completed(commitments, active.id, type)
<1>1. /\ QueueMatches(commitments, queue) /\ TypeOK /\ ContractInv
      /\ commitments \in [Ids -> Commitments \cup {None}]
  BY DEF Inv, ContractInv, QueueIsAwards, TypeInv, TypeOK
<1>2. active.id \in Ids /\ In(commitments, active.id, {"Running"})
  BY <1>1, OursIsRunning
<1>3. commitments[active.id] \in Commitments /\ commitments[active.id].stage = "Running"
  BY <1>1, <1>2 DEF In
<1>4. /\ c \in [Ids -> Commitments \cup {None}]
      /\ c[active.id].stage = "Complete"
      /\ \A t \in Ids : t # active.id => c[t] = commitments[t]
  BY <1>1, <1>2, <1>3 DEF Completed, Commitments, Stages
<1> HIDE DEF c
<1>5. QueueMatches(c, queue)
  <2>1. \A t \in Ids : In(c, t, {"Awarded"}) <=> In(commitments, t, {"Awarded"})
    BY <1>2, <1>3, <1>4 DEF In
  <2> QED BY <1>1, <2>1 DEF QueueMatches
<1> QED BY <1>2, <1>4, <1>5 DEF c

LEMMA FinishSameBid ==
  ASSUME Inv, NEW type \in {"INFORM", "FAILURE"}, FinishWork(type)
  PROVE  \A i \in Ids : SameBid(i)
<1>1. /\ QueueMatches(commitments, queue) /\ queue \in Seq(Ids) /\ None \in Work \cup {None}
      /\ commitments \in [Ids -> Commitments \cup {None}] /\ active # None
  BY DEF Inv, ContractInv, QueueIsAwards, TypeInv, TypeOK, FinishWork
<1>2. CASE StartNext(commitments, queue, None)
  BY <1>1, <1>2, StartNextSameBid DEF SameBid, HasBid, In
<1>3. CASE Ours(active) /\ StartNext(Completed(commitments, active.id, type), queue, None)
  <2> DEFINE c == Completed(commitments, active.id, type)
  <2>1. /\ active.id \in Ids /\ In(commitments, active.id, {"Running"})
        /\ c \in [Ids -> Commitments \cup {None}] /\ QueueMatches(c, queue)
        /\ c[active.id].stage = "Complete"
        /\ \A t \in Ids : t # active.id => c[t] = commitments[t]
    BY <1>1, <1>3, CompletedMatches
  <2>2. StartNext(c, queue, None)
    BY <1>3
  <2> HIDE DEF c
  <2>3. \A i \in Ids : \/ commitments'[i] = c[i]
                       \/ In(c, i, {"Awarded"}) /\ In(commitments', i, {"Running"})
    BY <1>1, <2>1, <2>2, StartNextSameBid
  <2> QED BY <2>1, <2>3 DEF SameBid, HasBid, In
<1> QED BY <1>2, <1>3 DEF FinishWork

\* Away from the messages of the manager and of the feed, bids stay as they are.
LEMMA LocalSameBid ==
  ASSUME CorrectInv, NetLocal,
         ~ \E s \in Snapshots \cup {None}, choice \in Decisions : MarketChanges(s, choice)
  PROVE  \A i \in Ids : SameBid(i) /\ AttemptKept(commitments, commitments', i)
<1>1. NetTypeInv /\ BooksInv /\ TypeInv /\ Inv
  BY DEF CorrectInv, NetInv, NetTypeInv
<1>2. \A i \in Ids : AttemptKept(commitments, commitments', i)
  BY <1>1, LocalBooks DEF BooksKept
<1>3. CASE \E type \in {"INFORM", "FAILURE"} : FinishWork(type)
  BY <1>1, <1>2, <1>3, FinishSameBid
<1>4. CASE Launch \/ Connect \/ Retry \/ SaveLearning \/ MarketExpires
  <2>1. UNCHANGED commitments
    BY <1>4 DEF Launch, Connect, Retry, SaveLearning, MarketExpires
  <2> QED BY <1>2, <2>1 DEF SameBid
<1> QED BY <1>3, <1>4 DEF NetLocal, Local

LEMMA LocalResponses ==
  ASSUME NetLocal,
         ~ \E s \in Snapshots \cup {None}, choice \in Decisions : MarketChanges(s, choice)
  PROVE  UNCHANGED responses
  BY DEF NetLocal, Local, Launch, Connect, Retry, SaveLearning, MarketExpires, FinishWork

\* A new snapshot changes bids and announces the changes; it makes and drops none.
LEMMA MarketBids ==
  ASSUME CorrectInv, NEW s \in Snapshots \cup {None}, NEW choice \in Decisions,
         MarketChanges(s, choice)
  PROVE  /\ HasFeed
         /\ \A m \in responses' : m \in responses \/ (m.type = "PROPOSE" /\ m.id \in Ids /\ HasBid(m.id))
         /\ \A i \in Ids : AttemptKept(commitments, commitments', i)
         /\ \A i \in Ids : HasBid(i) => HasBid(i)' /\ commitments'[i].attempt = commitments[i].attempt
         /\ ChangesAnnounced => \A i \in Ids :
              /\ HasBid(i) /\ commitments'[i].bid # commitments[i].bid
              => \E m \in responses' : m.type = "PROPOSE" /\ m.id = i
         /\ UNCHANGED responses \/ responses = {}
<1>1. /\ TypeInv /\ BooksInv /\ Inv /\ HasFeed
      /\ commitments \in [Ids -> Commitments \cup {None}]
  BY DEF CorrectInv, NetInv, NetTypeInv, TypeInv, TypeOK, MarketChanges
<1>2. \A i \in Ids : AttemptKept(commitments, commitments', i)
  <2>1. QueueHeld(commitments, queue) /\ UNCHANGED <<queue, active>>
    BY <1>1 DEF BooksInv, MarketChanges
  <2>2. CASE UNCHANGED commitments
    BY <2>2 DEF AttemptKept
  <2>3. CASE commitments' = Repriced(commitments, s, choice)
    <3> SUFFICES ASSUME NEW i \in Ids PROVE AttemptKept(commitments, commitments', i)
      OBVIOUS
    <3>1. CASE i \in Moved(commitments, s) /\ choice[i] # None
      <4>1. HasBid(i) /\ commitments[i] \in Commitments
        BY <1>1, <3>1 DEF Moved, HasBid, In
      <4>2. commitments'[i] = [commitments[i] EXCEPT !.bid = choice[i], !.score = s[i]]
        BY <2>3, <3>1 DEF Repriced
      <4> QED BY <4>1, <4>2 DEF AttemptKept, HasBid, In, Commitments
    <3>2. CASE ~(i \in Moved(commitments, s) /\ choice[i] # None)
      <4>1. commitments'[i] = commitments[i]
        BY <2>3, <3>2 DEF Repriced
      <4> QED BY <4>1 DEF AttemptKept, In
    <3> QED BY <3>1, <3>2
  <2> QED BY <2>2, <2>3 DEF MarketChanges
<1>3. CASE UNCHANGED <<commitments, responses>>
  BY <1>1, <1>2, <1>3 DEF HasBid
<1>4. CASE /\ pc = "select" /\ commitments' = Repriced(commitments, s, choice)
           /\ responses' = Revisions(commitments, s, choice)
  <2>1. responses = {}
    BY <1>1, <1>4, SelectIsClean
  <2>2. ASSUME NEW m \in responses'
        PROVE  m.type = "PROPOSE" /\ m.id \in Ids /\ HasBid(m.id)
    <3>1. PICK i \in Moved(commitments, s) : choice[i] # None /\ m = Reply(i, choice[i])
      BY <1>4 DEF Revisions
    <3>2. i \in Ids /\ HasBid(i)
      BY <3>1 DEF Moved, HasBid
    <3> QED BY <3>1, <3>2 DEF Reply
  <2>3. ASSUME NEW i \in Ids, HasBid(i)
        PROVE  /\ HasBid(i)' /\ commitments'[i].attempt = commitments[i].attempt
               /\ ChangesAnnounced /\ commitments'[i].bid # commitments[i].bid
                    => \E m \in responses' : m.type = "PROPOSE" /\ m.id = i
    <3>1. commitments[i] \in Commitments
      BY <1>1, <2>3 DEF HasBid, In
    <3>2. CASE i \in Moved(commitments, s) /\ choice[i] # None
      <4>1. commitments'[i] = [commitments[i] EXCEPT !.bid = choice[i], !.score = s[i]]
        BY <1>4, <3>2 DEF Repriced
      <4>2. commitments'[i] \in Commitments
        <5>1. choice[i] \in Bids
          BY <3>2 DEF Decisions
        <5>2. s[i] \in Scores \cup {NoScore}
          <6>1. s \in Snapshots
            BY <3>2 DEF Moved
          <6>2. s \in [Ids -> Scores \cup {NoScore}]
            BY <6>1 DEF Snapshots
          <6> QED BY <6>2
        <5> QED BY <3>1, <4>1, <5>1, <5>2 DEF Commitments
      <4>3. /\ commitments'[i].stage = commitments[i].stage
            /\ commitments'[i].attempt = commitments[i].attempt /\ commitments'[i].bid = choice[i]
        BY <3>1, <4>1 DEF Commitments
      <4>4. HasBid(i)'
        BY <2>3, <4>2, <4>3, NoneAssumption DEF HasBid, In
      <4>5. ASSUME ChangesAnnounced, commitments'[i].bid # commitments[i].bid
            PROVE  \E m \in responses' : m.type = "PROPOSE" /\ m.id = i
        <5>1. choice[i] \in Bids /\ commitments[i].bid \in Bids
          BY <3>1, <3>2 DEF Decisions, Commitments
        <5>2. Announced(commitments[i].bid, choice[i])
          BY <1>1, <4>3, <4>5, <5>1 DEF ChangesAnnounced
        <5>3. Reply(i, choice[i]) \in responses'
          BY <1>4, <3>2, <5>2 DEF Revisions
        <5>4. Reply(i, choice[i]).type = "PROPOSE" /\ Reply(i, choice[i]).id = i
          BY <3>2 DEF Reply
        <5> QED BY <5>3, <5>4
      <4> QED BY <4>3, <4>4, <4>5
    <3>3. CASE ~(i \in Moved(commitments, s) /\ choice[i] # None)
      <4>1. commitments'[i] = commitments[i]
        BY <1>4, <3>3 DEF Repriced
      <4> QED BY <2>3, <4>1 DEF HasBid, In
    <3> QED BY <3>2, <3>3
  <2> QED BY <1>1, <1>2, <2>1, <2>2, <2>3
<1> QED BY <1>3, <1>4 DEF MarketChanges

-----------------------------------------------------------------------------
(* The inductive invariant.                                                *)

\* Message m tells the client something that changes what it bids on task i.
About(m, i) == \/ Mentions(m, i)
               \/ m.type \in {"ACCEPT", "REJECT", "SETTLED"} /\ m.id = i

IsBid(m, i) == m.type = "PROPOSE" /\ m.id = i
IsResult(m, i) == m.type \in {"INFORM", "FAILURE"} /\ m.id = i

BidToSend(i) == \E m \in responses : IsBid(m, i)
BidSent(i) == \E k \in 1..Len(up) : IsBid(up[k], i)
LastBid(k, i) == IsBid(up[k], i) /\ \A l \in (k + 1)..Len(up) : ~IsBid(up[l], i)

\* The client has still something to say about task i, or it has bid on it.
Voice(i) == BidSent(i) \/ \E m \in responses : m.id = i
Asked(i) == BidToSend(i) \/ BidSent(i) \/ offer[i] # None

\* The client tracks a bid for the attempt last announced; it tracks the bid b.
Bidding(i) == HasBid(i) /\ commitments[i].attempt = round[i]
Tracked(i, b) == HasBid(i) /\ commitments[i].bid = b

\* What the client writes before its REGISTER is read is not of this connection.
ConnectionInv ==
  /\ \A k \in RegisterAt : k = Len(up)
  /\ registered => known
  /\ ~known => \A i \in Ids : offer[i] = None

\* A task is announced while the bidding on it is open, and nothing follows the
\* announcement before the bidding closes.
CallsInv ==
  /\ \A i \in Ids : auction[i] # "open" =>
       offer[i] = None /\ \A k \in 1..Len(down) : ~Mentions(down[k], i)
  /\ \A i \in Ids, j, l \in 1..Len(down) : j < l /\ Mentions(down[j], i) => ~About(down[l], i)

\* What the manager has of us for an open auction is backed by a bid on that very
\* attempt, and while we have one the manager has nothing to tell us.
BidsInv ==
  /\ \A i \in Ids : auction[i] # "open" /\ (HasFeed => auction[i] = "idle") => ~Voice(i)
  /\ known => \A i \in Ids : auction[i] = "open" /\ Asked(i) => Bidding(i)
  /\ \A i \in Ids : auction[i] = "open" /\ Bidding(i)
                      => \A k \in 1..Len(down) : ~About(down[k], i)

\* The last bid written, and then the standing offer, is the bid tracked.
OffersInv ==
  ChangesAnnounced =>
    /\ known => \A i \in Ids, k \in 1..Len(up) :
         auction[i] = "open" /\ ~BidToSend(i) /\ LastBid(k, i) => Tracked(i, up[k].bid)
    /\ \A i \in Ids : offer[i] # None /\ ~BidToSend(i) /\ ~BidSent(i) => Tracked(i, offer[i])

\* An award on its way finds the bid, whatever is read before it.
AcceptsInv ==
  \A k \in 1..Len(down) : down[k].type = "ACCEPT" =>
    HasBid(down[k].id) /\ \A j \in 1..(k - 1) : ~About(down[j], down[k].id)

\* A result is of the attempt the manager awarded last, and is never followed by
\* an offer of the same connection.
ResultsInv ==
  ~HasFeed =>
    /\ \A i \in Ids, k \in 1..Len(up) :
         IsResult(up[k], i) /\ auction[i] = "ours" => up[k].attempt = round[i]
    /\ known => \A i \in Ids, j, k \in 1..Len(up) :
                  j < k /\ IsBid(up[j], i) => ~IsResult(up[k], i)
    /\ \A i \in Ids, k \in 1..Len(up) : offer[i] # None => ~IsResult(up[k], i)
    /\ \A i \in Ids : auction[i] = "ours" /\ commitments[i] # None
                        => commitments[i].attempt = round[i]

ExchangeInv == ConnectionInv /\ CallsInv /\ BidsInv /\ OffersInv /\ AcceptsInv /\ ResultsInv

-----------------------------------------------------------------------------
(* What reading a message does to the bids.                                *)

ReadsAs(m, i) ==
  /\ ~About(m, i) => SameBid(i)
  /\ IF Mentions(m, i)
     THEN HasBid(i)' => commitments'[i].attempt = AttemptIn(m, i)
     ELSE AttemptKept(commitments, commitments', i)
  /\ About(m, i) /\ ~Mentions(m, i) => ~HasBid(i)'
  /\ \A r \in responses' : r.id = i => Mentions(m, i)

LEMMA ConsiderReads ==
  ASSUME BooksInv, TypeInv, UNCHANGED awards, NEW m,
         NEW offers \in Offers, NEW choice \in Decisions, Consider(offers, choice),
         m.type \in {"REGISTERED", "CFP"},
         \A i \in Ids : /\ Mentions(m, i) <=> i \in DOMAIN offers
                        /\ i \in DOMAIN offers => AttemptIn(m, i) = offers[i],
         NEW i \in Ids
  PROVE  ReadsAs(m, i)
<1>1. IF i \in DOMAIN offers
      THEN In(commitments', i, {"Pending"}) => commitments'[i].attempt = offers[i]
      ELSE AttemptKept(commitments, commitments', i)
  BY ConsiderBooks
<1>2. ~About(m, i) => SameBid(i)
  <2> SUFFICES ASSUME i \notin DOMAIN offers PROVE SameBid(i)
    BY DEF About
  <2>1. commitments'[i] = commitments[i]
    BY DEF Consider, Proposed, Considered
  <2> QED BY <2>1 DEF SameBid
<1>3. \A r \in responses' : r.id = i => Mentions(m, i)
  <2> SUFFICES ASSUME NEW r \in responses', r.id = i PROVE i \in DOMAIN offers
    OBVIOUS
  <2>1. PICK j \in Considered(commitments, offers) : r = Reply(j, choice[j])
    BY DEF Consider, Replies
  <2> QED BY <2>1 DEF Reply, Considered
<1>4. ~(About(m, i) /\ ~Mentions(m, i))
  BY DEF About
<1> QED BY <1>1, <1>2, <1>3, <1>4 DEF ReadsAs, HasBid

\* A step that touches commitment j alone, and leaves no bid there.
LEMMA EndsBidReads ==
  ASSUME NEW m, NEW j \in Ids, m.type \in {"ACCEPT", "REJECT", "SETTLED"}, m.id = j,
         \A i \in Ids : i # j => SameBid(i), ~HasBid(j)',
         \A i \in Ids : AttemptKept(commitments, commitments', i), responses' = {},
         NEW i \in Ids
  PROVE  ReadsAs(m, i)
<1>1. ~Mentions(m, i)
  BY DEF Mentions
<1> QED BY <1>1 DEF ReadsAs, About

LEMMA AcceptSameBid ==
  ASSUME Inv, NEW j \in Ids, AcceptProposal(j)
  PROVE  ~HasBid(j)' /\ \A i \in Ids : i # j => SameBid(i)
<1> DEFINE c == [commitments EXCEPT ![j].stage = "Awarded"]
           q == Append(queue, j)
<1>1. /\ In(commitments, j, {"Pending"}) /\ StartNext(c, q, active)
      /\ TypeOK /\ ContractInv
  BY DEF AcceptProposal, Inv, TypeInv
<1>2. commitments[j] \in Commitments
  BY <1>1 DEF In, TypeOK
<1>3. c \in [Ids -> Commitments \cup {None}] /\ q \in Seq(Ids) /\ active \in Work \cup {None}
  BY <1>1, <1>2, AppendProperties DEF TypeOK, Commitments, Stages
<1>4. QueueMatches(c, q)
  BY <1>1, AppendMatches DEF ContractInv, QueueIsAwards, TypeOK
<1>5. c[j].stage = "Awarded" /\ \A i \in Ids : i # j => c[i] = commitments[i]
  BY <1>1, <1>2 DEF Commitments, TypeOK
<1> HIDE DEF c, q
<1>6. \A i \in Ids : \/ commitments'[i] = c[i]
                     \/ In(c, i, {"Awarded"}) /\ In(commitments', i, {"Running"})
  BY <1>1, <1>3, <1>4, StartNextSameBid
<1> QED BY <1>5, <1>6 DEF SameBid, HasBid, In

LEMMA ReadEffect ==
  ASSUME CorrectInv, NetReceive, NEW i \in Ids
  PROVE  ReadsAs(Head(down), i)
<1>1. /\ NetTypeInv /\ LinkInv /\ BooksInv /\ TypeInv /\ Inv
      /\ UNCHANGED awards /\ responses = {}
  BY ReadAt, SelectIsClean DEF CorrectInv, NetInv, NetTypeInv
<1>2. PICK m \in DownMessages : m = Head(down) /\ m = down[1] /\ 1 \in 1..Len(down) /\ Receive(m)
  BY <1>1, ReadAt
<1> SUFFICES ReadsAs(m, i)
  BY <1>2
<1>3. CASE m.type = "REGISTERED"
  <2>1. PICK choice \in Decisions : Consider(m.open, choice)
    BY <1>2, <1>3 DEF Receive, Registered
  <2>2. m.open \in Offers
    BY <1>2, <1>3 DEF DownMessages
  <2>3. \A t \in Ids : /\ Mentions(m, t) <=> t \in DOMAIN m.open
                       /\ AttemptIn(m, t) = m.open[t]
    BY <1>3 DEF Mentions, AttemptIn
  <2> QED BY <1>1, <1>3, <2>1, <2>2, <2>3, ConsiderReads
<1>4. CASE m.type = "CFP"
  <2> DEFINE offers == [j \in {m.id} |-> m.attempt]
  <2>1. PICK choice \in Decisions : Consider(offers, choice)
    BY <1>2, <1>4 DEF Receive, Cfp
  <2>2. offers \in Offers
    <3>1. m.id \in Ids /\ m.attempt \in Attempts
      BY <1>2, <1>4 DEF DownMessages
    <3>2. {m.id} \in SUBSET Ids /\ offers \in [{m.id} -> Attempts]
      BY <3>1
    <3> QED BY <3>2 DEF Offers
  <2>3. \A t \in Ids : /\ Mentions(m, t) <=> t \in DOMAIN offers
                       /\ t \in DOMAIN offers => AttemptIn(m, t) = offers[t]
    BY <1>4 DEF Mentions, AttemptIn
  <2> HIDE DEF offers
  <2> QED BY <1>1, <1>4, <2>1, <2>2, <2>3, ConsiderReads
<1>5. ASSUME UNCHANGED <<commitments, responses>>,
             About(m, i) => ~Mentions(m, i) /\ ~HasBid(i), ~Mentions(m, i)
      PROVE  ReadsAs(m, i)
  BY <1>1, <1>5 DEF ReadsAs, SameBid, AttemptKept, HasBid, In
<1>6. CASE m.type \in {"ACCEPT", "REJECT", "ERROR", "SETTLED"}
  <2>1. m.id \in Ids
    BY <1>2, <1>6 DEF DownMessages
  <2>2. CASE m.type = "ACCEPT" /\ AcceptProposal(m.id)
    <3>1. PICK a \in Attempts : <<m.id, a>> \in awards /\ Tracks(commitments, down, 1, m.id, a)
      BY <1>1, <1>2, <2>2 DEF LinkInv, AcceptsMatch
    <3>2. In(commitments, m.id, {"Pending"}) /\ responses' = {}
      BY <1>1, <2>2 DEF AcceptProposal
    <3>3. \A j \in 1..(1 - 1) : FALSE
      OBVIOUS
    <3>4. commitments[m.id].attempt = a
      BY <3>1, <3>2, <3>3 DEF Tracks
    <3>5. BooksKept
      BY <1>1, <2>1, <2>2, <3>1, <3>4, AcceptBooks
    <3>6. ~HasBid(m.id)' /\ \A t \in Ids : t # m.id => SameBid(t)
      BY <1>1, <2>1, <2>2, AcceptSameBid
    <3> QED BY <2>1, <2>2, <3>2, <3>5, <3>6, EndsBidReads DEF BooksKept
  <2>3. CASE m.type \in {"ACCEPT", "REJECT"} /\ ~In(commitments, m.id, {"Pending"}) /\ UNCHANGED vars
    BY <1>5, <2>3 DEF vars, HasBid, About, Mentions
  <2>4. CASE m.type = "ERROR" /\ UNCHANGED vars
    BY <1>5, <2>4 DEF vars, About, Mentions
  <2>5. CASE m.type = "REJECT" /\ BidDeclined(m.id)
    <3>1. BooksKept
      BY <1>1, <2>1, <2>5, DeclinedBooks
    <3>2. /\ commitments'[m.id] = None /\ responses' = {}
          /\ \A t \in Ids : t # m.id => commitments'[t] = commitments[t]
      BY <1>1, <2>1, <2>5 DEF BidDeclined, TypeInv, TypeOK
    <3>3. ~HasBid(m.id)' /\ \A t \in Ids : t # m.id => SameBid(t)
      BY <3>2 DEF HasBid, In, SameBid
    <3> QED BY <2>1, <2>5, <3>1, <3>2, <3>3, EndsBidReads DEF BooksKept
  <2>6. CASE m.type = "SETTLED" /\ Settled(m.id, m.graded)
    <3>1. BooksKept
      BY <1>1, <2>1, <2>6, SettledBooks
    <3>2. /\ commitments'[m.id] = None /\ responses' = {}
          /\ \A t \in Ids : t # m.id => commitments'[t] = commitments[t]
      BY <1>1, <2>1, <2>6 DEF Settled, TypeInv, TypeOK
    <3>3. ~HasBid(m.id)' /\ \A t \in Ids : t # m.id => SameBid(t)
      BY <3>2 DEF HasBid, In, SameBid
    <3> QED BY <2>1, <2>6, <3>1, <3>2, <3>3, EndsBidReads DEF BooksKept
  <2> QED BY <1>2, <1>6, <2>2, <2>3, <2>4, <2>5, <2>6 DEF Receive
<1>7. m.type \in {"REGISTERED", "CFP", "ACCEPT", "REJECT", "ERROR", "SETTLED"}
  BY <1>2 DEF DownMessages
<1> QED BY <1>3, <1>4, <1>6, <1>7

-----------------------------------------------------------------------------
(* What is left of a connection.                                           *)

\* Nothing arrives that was neither written nor being written.
LEMMA DroppedUp ==
  ASSUME NetTypeInv, Drop, NEW S, up \in Seq(S), responses \subseteq S,
         pc = "flush" => Head(outbox) \in S
  PROVE  up' \in Seq(S)
<1>1. PICK tail \in HalfWritten \cup {<<>>} :
        \E k \in 0..Len(Without(up, RegisterAt) \o tail) :
           up' = SubSeq(Without(up, RegisterAt) \o tail, 1, k)
  BY DEF Drop
<1> DEFINE w == Without(up, RegisterAt) \o tail
<1>2. tail \in Seq(S)
  <2>1. CASE tail = <<>>
    BY <2>1, EmptySeq
  <2>2. CASE tail # <<>>
    <3>1. PICK x : tail = <<x>> /\ (x \in responses \/ (pc = "flush" /\ x = Head(outbox)))
      BY <2>2 DEF HalfWritten
    <3>2. x \in S
      BY <3>1
    <3> QED BY <3>1, <3>2
  <2> QED BY <2>1, <2>2
<1>3. Without(up, RegisterAt) \in Seq(S)
  BY WithoutType DEF RegisterAt
<1>4. w \in Seq(S)
  BY <1>2, <1>3
<1> HIDE DEF w
<1>5. PICK k \in 0..Len(w) : up' = SubSeq(w, 1, k)
  BY <1>1 DEF w
<1> QED BY <1>4, <1>5, SubSeqProperties, LenProperties

LEMMA DropEffect ==
  ASSUME CorrectInv, Drop
  PROVE  /\ \A k \in 1..Len(up') : \/ \E j \in 1..Len(up) : up'[k] = up[j]
                                   \/ up'[k] \in responses
                                   \/ /\ pc = "flush" /\ up'[k] = outbox[1]
                                      /\ 1 \in DOMAIN outbox /\ registered
         /\ RegisterAt' = {} /\ down' = <<>> /\ Len(down') = 0 /\ known' = FALSE
         /\ registered' = FALSE /\ responses' = {}
         /\ \A i \in Ids : /\ offer'[i] = None /\ ~HasBid(i)'
                           /\ commitments'[i] \in {None, commitments[i]}
         /\ UNCHANGED <<auction, round, awards>>
<1>1. NetTypeInv /\ TypeInv /\ BooksInv /\ SignOnInv
  BY DEF CorrectInv, NetInv, NetTypeInv
<1>2. /\ down' = <<>> /\ known' = FALSE /\ UNCHANGED <<auction, round, awards>>
      /\ \A i \in Ids : offer'[i] = None
      /\ EndSession \/ Exit
  BY DEF Drop, ForgetOffers, Disconnect, SendFails, Interrupt
<1>3. /\ registered' = FALSE /\ responses' = {} /\ pc' \in {"backoff", "exited"}
      /\ \A i \in Ids : commitments'[i] \in {None, commitments[i]}
  <2>1. CASE EndSession
    BY <2>1 DEF EndSession, ContractsOnly
  <2>2. CASE Exit
    BY <2>2 DEF Exit, NoCommitments
  <2> QED BY <1>2, <2>1, <2>2
<1>4. \A i \in Ids : ~HasBid(i)'
  BY <1>1, <1>2, EndBooks DEF HasBid
<1>5. RegisterAt' = {}
  BY <1>1, <1>3, SignOnDrop DEF SignOnInv
<1>6. pc = "flush" => outbox # <<>> /\ outbox \in Seq(Results) /\ registered
  BY <1>1 DEF TypeInv, TypeOK, LoopShape
<1>7. pc = "flush" => Head(outbox) = outbox[1] /\ 1 \in DOMAIN outbox
  BY <1>6, HeadTailProperties, LenProperties, EmptySeq
<1> DEFINE S == {up[j] : j \in 1..Len(up)} \cup responses \cup {x \in {Head(outbox)} : pc = "flush"}
<1>8. up \in Seq(S)
  <2>1. up \in Seq(UpMessages) /\ \A j \in 1..Len(up) : up[j] \in S
    BY <1>1 DEF NetTypeInv
  <2> HIDE DEF S
  <2> QED BY <2>1
<1>9. responses \subseteq S /\ (pc = "flush" => Head(outbox) \in S)
  OBVIOUS
<1>10. \A x \in S : \/ \E j \in 1..Len(up) : x = up[j]
                    \/ x \in responses
                    \/ pc = "flush" /\ x = Head(outbox)
  OBVIOUS
<1> HIDE DEF S
<1>11. up' \in Seq(S)
  BY <1>1, <1>8, <1>9, DroppedUp
<1>12. \A k \in 1..Len(up') : up'[k] \in S
  BY <1>11
<1> QED BY <1>2, <1>3, <1>4, <1>5, <1>6, <1>7, <1>10, <1>12, EmptySeq

-----------------------------------------------------------------------------
(* The manager closes an auction, or a contract, and tells the client.     *)

LEMMA Lengths ==
  ASSUME NetTypeInv
  PROVE  /\ DOMAIN up = 1..Len(up) /\ Len(up) \in Nat
         /\ Len(down) \in Nat /\ \A k \in 1..Len(down) : down[k] \in DownMessages
         /\ \A k \in 1..Len(up) : up[k] \in UpMessages
  BY LenProperties DEF NetTypeInv

\* The messages on their way to the manager are those of before from the s-th on.
UpShifted(s) == /\ Len(up') = Len(up) - s
                /\ \A k \in 1..Len(up') : up'[k] = up[k + s] /\ k + s \in 1..Len(up)

\* Nothing is told, or a message of one of these types about task i.
Told(i, types) ==
  \/ UNCHANGED down
  \/ \E m \in DownMessages : down' = Append(down, m) /\ m.id = i /\ m.type \in types

LEMMA ToldAt ==
  ASSUME NetTypeInv, NEW i \in Ids, NEW types, "REGISTERED" \notin types, "CFP" \notin types,
         Told(i, types)
  PROVE  /\ Len(down') \in Nat
         /\ \A k \in 1..Len(down) : k \in 1..Len(down') /\ down'[k] = down[k]
         /\ \A k \in 1..Len(down') :
              \/ k \in 1..Len(down) /\ down'[k] = down[k]
              \/ /\ k = Len(down) + 1 /\ down'[k].type \in types /\ down'[k].id = i
                 /\ \A j : ~Mentions(down'[k], j)
                 /\ \A j \in Ids : j # i => ~About(down'[k], j)
<1>1. CASE UNCHANGED down
  BY <1>1, Lengths
<1>2. CASE ~UNCHANGED down
  <2>1. PICK m \in DownMessages : down' = Append(down, m) /\ m.id = i /\ m.type \in types
    BY <1>2 DEF Told
  <2>2. /\ Len(down) \in Nat /\ Len(down') = Len(down) + 1
        /\ down'[Len(down) + 1] = m /\ \A k \in 1..Len(down) : down'[k] = down[k]
    BY <2>1, AppendedAt
  <2>3. \A j : ~Mentions(m, j)
    BY <2>1 DEF Mentions
  <2>4. \A j \in Ids : j # i => ~About(m, j)
    BY <2>1, <2>3 DEF About
  <2> QED BY <2>1, <2>2, <2>3, <2>4
<1> QED BY <1>1, <1>2

\* The bids on their way when the manager does not change what it offers to hear.
LEMMA ShiftedBids ==
  ASSUME NetTypeInv, NetTypeInv', NEW s \in {0, 1}, UpShifted(s), UNCHANGED vars
  PROVE  /\ \A i : BidSent(i)' => BidSent(i)
         /\ \A i : BidToSend(i)' <=> BidToSend(i)
         /\ \A i : Voice(i)' => Voice(i)
         /\ \A i : \A k \in 1..Len(up') : LastBid(k, i)' <=> LastBid(k + s, i)
         /\ \A k \in RegisterAt' : k + s \in RegisterAt
         /\ \A i : ~(s = 1 /\ IsBid(up[1], i)) => (BidSent(i) => BidSent(i)')
<1>1. /\ Len(up) \in Nat /\ Len(up') \in Nat /\ Len(up') = Len(up) - s
      /\ DOMAIN up = 1..Len(up) /\ DOMAIN up' = 1..Len(up')
      /\ \A k \in 1..Len(up') : up'[k] = up[k + s] /\ k + s \in 1..Len(up)
      /\ UNCHANGED responses
  BY Lengths DEF UpShifted, vars
<1>2. ASSUME NEW i PROVE BidSent(i)' => BidSent(i)
  BY <1>1 DEF BidSent
<1>3. ASSUME NEW i PROVE BidToSend(i)' <=> BidToSend(i)
  BY <1>1 DEF BidToSend
<1>4. ASSUME NEW i PROVE Voice(i)' => Voice(i)
  BY <1>1, <1>2 DEF Voice
<1>5. ASSUME NEW i, NEW k \in 1..Len(up') PROVE LastBid(k, i)' <=> LastBid(k + s, i)
  <2>1. ASSUME NEW l \in (k + s + 1)..Len(up)
        PROVE  l - s \in (k + 1)..Len(up') /\ up'[l - s] = up[l]
    <3>1. l - s \in (k + 1)..Len(up') /\ l - s \in 1..Len(up') /\ (l - s) + s = l
      BY <1>1
    <3> QED BY <1>1, <3>1
  <2>2. ASSUME NEW l \in (k + 1)..Len(up')
        PROVE  l + s \in (k + s + 1)..Len(up) /\ up'[l] = up[l + s]
    <3>1. l + s \in (k + s + 1)..Len(up) /\ l \in 1..Len(up')
      BY <1>1
    <3> QED BY <1>1, <3>1
  <2>3. up'[k] = up[k + s]
    BY <1>1
  <2> QED BY <2>1, <2>2, <2>3 DEF LastBid
<1>6. \A k \in RegisterAt' : k + s \in RegisterAt
  BY <1>1 DEF RegisterAt
<1>7. ASSUME NEW i, ~(s = 1 /\ IsBid(up[1], i)), BidSent(i) PROVE BidSent(i)'
  <2>1. PICK k \in 1..Len(up) : IsBid(up[k], i)
    BY <1>7 DEF BidSent
  <2>2. k - s \in 1..Len(up') /\ (k - s) + s = k
    BY <1>1, <1>7, <2>1
  <2> QED BY <1>1, <2>1, <2>2 DEF BidSent
<1> QED BY <1>2, <1>3, <1>4, <1>5, <1>6, <1>7

LEMMA ClosingExchange ==
  ASSUME NetTypeInv, NetTypeInv', ExchangeInv, UNCHANGED vars, UNCHANGED <<round, known>>,
         NEW i \in Ids, NEW s \in {0, 1}, UpShifted(s), s = 1 => \A j : ~IsBid(up[1], j),
         auction'[i] # "open", offer'[i] = None,
         \A j \in Ids : j # i => auction'[j] = auction[j] /\ offer'[j] = offer[j],
         \A k \in 1..Len(down) : ~Mentions(down[k], i),
         (HasFeed => auction'[i] = "idle") => ~Voice(i),
         Told(i, {"ACCEPT", "REJECT", "SETTLED", "ERROR"}),
         \/ Told(i, {"REJECT", "SETTLED", "ERROR"})
         \/ HasBid(i) /\ \A k \in 1..Len(down) : ~About(down[k], i),
         auction'[i] = "ours" =>
           \/ auction[i] = "ours"
           \/ /\ ~HasFeed => \A k \in 1..Len(up) : ~IsResult(up[k], i)
              /\ commitments[i] # None => commitments[i].attempt = round[i]
  PROVE  ExchangeInv'
<1>1. /\ Len(up) \in Nat /\ Len(up') \in Nat /\ Len(up') = Len(up) - s
      /\ Len(down) \in Nat /\ Len(down') \in Nat
      /\ \A k \in 1..Len(up') : up'[k] = up[k + s] /\ k + s \in 1..Len(up)
      /\ UNCHANGED <<commitments, responses, registered>>
  BY Lengths DEF UpShifted, vars
<1>2. /\ \A k \in 1..Len(down) : k \in 1..Len(down') /\ down'[k] = down[k]
      /\ \A k \in 1..Len(down') :
           \/ k \in 1..Len(down) /\ down'[k] = down[k]
           \/ /\ k = Len(down) + 1 /\ down'[k].id = i
              /\ \A j : ~Mentions(down'[k], j)
              /\ \A j \in Ids : j # i => ~About(down'[k], j)
  BY ToldAt
<1>3. /\ \A j : BidSent(j)' <=> BidSent(j)
      /\ \A j : BidToSend(j)' <=> BidToSend(j)
      /\ \A j : Voice(j)' => Voice(j)
      /\ \A j : \A k \in 1..Len(up') : LastBid(k, j)' <=> LastBid(k + s, j)
      /\ \A k \in RegisterAt' : k + s \in RegisterAt
  BY ShiftedBids
<1>4. /\ ConnectionInv /\ CallsInv /\ BidsInv /\ OffersInv /\ AcceptsInv /\ ResultsInv
  BY DEF ExchangeInv
<1>5. ConnectionInv'
  <2>1. ASSUME NEW k \in RegisterAt' PROVE k = Len(up')
    <3>1. k + s = Len(up)
      BY <1>3, <1>4 DEF ConnectionInv
    <3>2. k \in Nat
      BY <1>1, Lengths DEF RegisterAt
    <3> QED BY <1>1, <3>1, <3>2
  <2>2. ~known => \A j \in Ids : offer'[j] = None
    BY <1>4 DEF ConnectionInv
  <2> QED BY <1>1, <1>4, <2>1, <2>2 DEF ConnectionInv
<1>6. CallsInv'
  <2>1. ASSUME NEW j \in Ids, auction'[j] # "open"
        PROVE  offer'[j] = None /\ \A k \in 1..Len(down') : ~Mentions(down'[k], j)
    BY <1>2, <1>4, <2>1 DEF CallsInv
  <2>2. ASSUME NEW j \in Ids, NEW k \in 1..Len(down'), NEW l \in 1..Len(down'),
               k < l, Mentions(down'[k], j)
        PROVE  ~About(down'[l], j)
    <3>1. k \in 1..Len(down) /\ down'[k] = down[k]
      BY <1>2, <2>2
    <3>2. j # i
      BY <2>2, <3>1
    <3> QED BY <1>2, <1>4, <2>2, <3>1, <3>2 DEF CallsInv
  <2> QED BY <2>1, <2>2 DEF CallsInv
<1>7. BidsInv'
  <2>1. ASSUME NEW j \in Ids, auction'[j] # "open", HasFeed => auction'[j] = "idle"
        PROVE  ~Voice(j)'
    BY <1>3, <1>4, <2>1 DEF BidsInv
  <2>2. ASSUME known, NEW j \in Ids, auction'[j] = "open", Asked(j)'
        PROVE  Bidding(j)'
    <3>1. Asked(j) /\ auction[j] = "open"
      BY <1>3, <2>2 DEF Asked
    <3>2. Bidding(j)
      BY <1>4, <2>2, <3>1 DEF BidsInv
    <3> QED BY <1>1, <3>2 DEF Bidding, HasBid, In
  <2>3. ASSUME NEW j \in Ids, auction'[j] = "open", Bidding(j)', NEW k \in 1..Len(down')
        PROVE  ~About(down'[k], j)
    <3>1. Bidding(j) /\ auction[j] = "open" /\ j # i
      BY <1>1, <2>3 DEF Bidding, HasBid, In
    <3> QED BY <1>2, <1>4, <3>1 DEF BidsInv
  <2> QED BY <2>1, <2>2, <2>3 DEF BidsInv
<1>8. OffersInv'
  <2>1. ASSUME ChangesAnnounced, known, NEW j \in Ids, NEW k \in 1..Len(up'),
               auction'[j] = "open", ~BidToSend(j)', LastBid(k, j)'
        PROVE  Tracked(j, up[k].bid)'
    <3>1. auction[j] = "open" /\ ~BidToSend(j) /\ LastBid(k + s, j) /\ k + s \in 1..Len(up)
      BY <1>1, <1>3, <2>1
    <3>2. Tracked(j, up[k + s].bid)
      BY <1>4, <2>1, <3>1 DEF OffersInv
    <3> QED BY <1>1, <3>2 DEF Tracked, HasBid, In
  <2>2. ASSUME ChangesAnnounced, NEW j \in Ids, offer'[j] # None, ~BidToSend(j)', ~BidSent(j)'
        PROVE  Tracked(j, offer[j])'
    <3>1. j # i /\ offer'[j] = offer[j] /\ ~BidToSend(j) /\ ~BidSent(j)
      BY <1>3, <2>2
    <3>2. Tracked(j, offer[j])
      BY <1>4, <2>2, <3>1 DEF OffersInv
    <3> QED BY <1>1, <3>1, <3>2 DEF Tracked, HasBid, In
  <2> QED BY <1>4, <2>1, <2>2 DEF OffersInv
<1>9. AcceptsInv'
  <2> SUFFICES ASSUME NEW k \in 1..Len(down'), down'[k].type = "ACCEPT"
               PROVE  /\ HasBid(down[k].id)'
                      /\ \A j \in 1..(k - 1) : ~About(down'[j], down'[k].id)
    BY DEF AcceptsInv
  <2>1. CASE k \in 1..Len(down) /\ down'[k] = down[k]
    <3>1. \A j \in 1..(k - 1) : j \in 1..Len(down) /\ down'[j] = down[j]
      BY <1>1, <1>2, <2>1
    <3>2. HasBid(down[k].id) /\ \A j \in 1..(k - 1) : ~About(down[j], down[k].id)
      BY <1>4, <2>1 DEF AcceptsInv
    <3> QED BY <1>1, <2>1, <3>1, <3>2 DEF HasBid, In
  <2>2. CASE k = Len(down) + 1 /\ down'[k].id = i
    <3>1. ~Told(i, {"REJECT", "SETTLED", "ERROR"})
      <4> SUFFICES ASSUME Told(i, {"REJECT", "SETTLED", "ERROR"}) PROVE FALSE
        OBVIOUS
      <4>1. down'[k].type \in {"REJECT", "SETTLED", "ERROR"}
        <5>1. \A l \in 1..Len(down') :
                l \in 1..Len(down) \/ down'[l].type \in {"REJECT", "SETTLED", "ERROR"}
          BY ToldAt
        <5>2. k \notin 1..Len(down)
          BY <1>1, <2>2
        <5> QED BY <5>1, <5>2
      <4> QED BY <4>1
    <3>2. HasBid(i) /\ \A j \in 1..Len(down) : ~About(down[j], i)
      BY <3>1
    <3>3. \A j \in 1..(k - 1) : j \in 1..Len(down) /\ down'[j] = down[j]
      BY <1>1, <1>2, <2>2
    <3> QED BY <1>1, <2>2, <3>2, <3>3 DEF HasBid, In
  <2> QED BY <1>2, <2>1, <2>2
<1>10. ResultsInv'
  <2> SUFFICES ASSUME ~HasFeed PROVE ResultsInv'
    BY DEF ResultsInv
  <2>1. ASSUME NEW j \in Ids, NEW k \in 1..Len(up'), IsResult(up'[k], j), auction'[j] = "ours"
        PROVE  up'[k].attempt = round'[j]
    <3>1. k + s \in 1..Len(up) /\ IsResult(up[k + s], j)
      BY <1>1, <2>1
    <3>2. auction[j] = "ours"
      BY <2>1, <3>1
    <3>3. up[k + s].attempt = round[j]
      BY <1>4, <3>1, <3>2 DEF ResultsInv
    <3> QED BY <1>1, <3>3
  <2>2. ASSUME known, NEW j \in Ids, NEW l \in 1..Len(up'), NEW k \in 1..Len(up'),
               l < k, IsBid(up'[l], j)
        PROVE  ~IsResult(up'[k], j)
    <3>1. l + s < k + s /\ up'[l] = up[l + s] /\ up'[k] = up[k + s]
          /\ l + s \in 1..Len(up) /\ k + s \in 1..Len(up)
      BY <1>1, <2>2
    <3> QED BY <1>4, <2>2, <3>1 DEF ResultsInv
  <2>3. ASSUME NEW j \in Ids, NEW k \in 1..Len(up'), offer'[j] # None
        PROVE  ~IsResult(up'[k], j)
    BY <1>1, <1>4, <2>3 DEF ResultsInv
  <2>4. ASSUME NEW j \in Ids, auction'[j] = "ours", commitments[j] # None
        PROVE  commitments[j].attempt = round[j]
    BY <1>4, <2>4 DEF ResultsInv
  <2> QED BY <1>1, <2>1, <2>2, <2>3, <2>4 DEF ResultsInv
<1> QED BY <1>5, <1>6, <1>7, <1>8, <1>9, <1>10 DEF ExchangeInv

\* The manager takes a message that closes nothing.
LEMMA HeardExchange ==
  ASSUME NetTypeInv, NetTypeInv', ExchangeInv, UNCHANGED vars,
         UNCHANGED <<auction, round, known>>, UpShifted(1), NEW i \in Ids, Told(i, {"ERROR"}),
         \A j \in Ids : j # i => offer'[j] = offer[j],
         \/ /\ offer'[i] = offer[i]
            /\ \/ \A j : ~IsBid(up[1], j)
               \/ ~known
               \/ auction[i] # "open" /\ \A j : IsBid(up[1], j) => j = i
         \/ /\ IsBid(up[1], i) /\ known /\ auction[i] = "open" /\ offer'[i] = up[1].bid
            /\ 1 \in 1..Len(up)
  PROVE  ExchangeInv'
<1>1. /\ Len(up) \in Nat /\ Len(up') \in Nat /\ Len(up') = Len(up) - 1
      /\ Len(down) \in Nat /\ Len(down') \in Nat
      /\ \A k \in 1..Len(up') : up'[k] = up[k + 1] /\ k + 1 \in 1..Len(up)
      /\ UNCHANGED <<commitments, responses, registered>>
  BY Lengths DEF UpShifted, vars
<1>2. /\ \A k \in 1..Len(down) : k \in 1..Len(down') /\ down'[k] = down[k]
      /\ \A k \in 1..Len(down') :
           \/ k \in 1..Len(down) /\ down'[k] = down[k]
           \/ k = Len(down) + 1 /\ down'[k].type = "ERROR" /\ \A j \in Ids : ~About(down'[k], j)
  <2>1. \A k \in 1..Len(down') :
           \/ k \in 1..Len(down) /\ down'[k] = down[k]
           \/ k = Len(down) + 1 /\ down'[k].type \in {"ERROR"} /\ \A j : ~Mentions(down'[k], j)
    BY ToldAt
  <2>2. \A k \in 1..Len(down) : k \in 1..Len(down') /\ down'[k] = down[k]
    BY ToldAt
  <2> QED BY <2>1, <2>2 DEF About
<1>3. /\ \A j : BidSent(j)' => BidSent(j)
      /\ \A j : BidToSend(j)' <=> BidToSend(j)
      /\ \A j : Voice(j)' => Voice(j)
      /\ \A j : \A k \in 1..Len(up') : LastBid(k, j)' <=> LastBid(k + 1, j)
      /\ \A k \in RegisterAt' : k + 1 \in RegisterAt
      /\ \A j : ~IsBid(up[1], j) => (BidSent(j) => BidSent(j)')
  BY ShiftedBids
<1>4. /\ ConnectionInv /\ CallsInv /\ BidsInv /\ OffersInv /\ AcceptsInv /\ ResultsInv
  BY DEF ExchangeInv
<1>5. ConnectionInv'
  <2>1. ASSUME NEW k \in RegisterAt' PROVE k = Len(up')
    <3>1. k + 1 = Len(up)
      BY <1>3, <1>4 DEF ConnectionInv
    <3>2. k \in Nat
      BY <1>1, Lengths DEF RegisterAt
    <3> QED BY <1>1, <3>1, <3>2
  <2>2. ~known => \A j \in Ids : offer'[j] = None
    BY <1>4 DEF ConnectionInv
  <2> QED BY <1>1, <1>4, <2>1, <2>2 DEF ConnectionInv
<1>6. CallsInv'
  <2>1. ASSUME NEW j \in Ids, auction[j] # "open"
        PROVE  offer'[j] = None /\ \A k \in 1..Len(down') : ~Mentions(down'[k], j)
    BY <1>2, <1>4, <2>1 DEF CallsInv, About
  <2>2. ASSUME NEW j \in Ids, NEW k \in 1..Len(down'), NEW l \in 1..Len(down'),
               k < l, Mentions(down'[k], j)
        PROVE  ~About(down'[l], j)
    <3>1. k \in 1..Len(down) /\ down'[k] = down[k]
      BY <1>2, <2>2 DEF About
    <3> QED BY <1>2, <1>4, <2>2, <3>1 DEF CallsInv
  <2> QED BY <2>1, <2>2 DEF CallsInv
<1>7. BidsInv'
  <2>1. ASSUME NEW j \in Ids, auction[j] # "open", HasFeed => auction[j] = "idle"
        PROVE  ~Voice(j)'
    BY <1>3, <1>4, <2>1 DEF BidsInv
  <2>2. ASSUME known, NEW j \in Ids, auction[j] = "open", Asked(j)'
        PROVE  Bidding(j)'
    <3>1. Asked(j)
      <4>1. IsBid(up[1], i) /\ 1 \in 1..Len(up) => BidSent(i)
        BY DEF BidSent
      <4> QED BY <1>3, <2>2, <4>1 DEF Asked
    <3>2. Bidding(j)
      BY <1>4, <2>2, <3>1 DEF BidsInv
    <3> QED BY <1>1, <3>2 DEF Bidding, HasBid, In
  <2>3. ASSUME NEW j \in Ids, auction[j] = "open", Bidding(j)', NEW k \in 1..Len(down')
        PROVE  ~About(down'[k], j)
    <3>1. Bidding(j)
      BY <1>1, <2>3 DEF Bidding, HasBid, In
    <3> QED BY <1>2, <1>4, <2>3, <3>1 DEF BidsInv
  <2> QED BY <2>1, <2>2, <2>3 DEF BidsInv
<1>8. OffersInv'
  <2>1. ASSUME ChangesAnnounced, known, NEW j \in Ids, NEW k \in 1..Len(up'),
               auction[j] = "open", ~BidToSend(j)', LastBid(k, j)'
        PROVE  Tracked(j, up[k].bid)'
    <3>1. ~BidToSend(j) /\ LastBid(k + 1, j) /\ k + 1 \in 1..Len(up)
      BY <1>1, <1>3, <2>1
    <3>2. Tracked(j, up[k + 1].bid)
      BY <1>4, <2>1, <3>1 DEF OffersInv
    <3> QED BY <1>1, <3>2 DEF Tracked, HasBid, In
  <2>2. ASSUME ChangesAnnounced, NEW j \in Ids, offer'[j] # None, ~BidToSend(j)', ~BidSent(j)'
        PROVE  Tracked(j, offer[j])'
    <3>1. CASE offer'[j] = offer[j] /\ ~BidSent(j)
      <4>1. Tracked(j, offer[j])
        BY <1>3, <1>4, <2>2, <3>1 DEF OffersInv
      <4> QED BY <1>1, <3>1, <4>1 DEF Tracked, HasBid, In
    <3>2. CASE offer'[j] = offer[j] /\ BidSent(j)
      <4>1. IsBid(up[1], j)
        BY <1>3, <2>2, <3>2
      <4>2. known /\ auction[j] = "open"
        BY <1>4, <2>2, <3>2 DEF ConnectionInv, CallsInv
      <4>3. j = i /\ offer'[j] = up[1].bid /\ 1 \in 1..Len(up)
        BY <4>1, <4>2 DEF IsBid
      <4>4. LastBid(1, j)
        <5>1. ASSUME NEW l \in (1 + 1)..Len(up) PROVE ~IsBid(up[l], j)
          <6>1. l - 1 \in 1..Len(up') /\ (l - 1) + 1 = l
            BY <1>1
          <6> QED BY <1>1, <2>2, <6>1 DEF BidSent
        <5> QED BY <4>1, <5>1 DEF LastBid
      <4>5. Tracked(j, up[1].bid)
        BY <1>3, <1>4, <2>2, <4>2, <4>3, <4>4 DEF OffersInv
      <4> QED BY <1>1, <4>3, <4>5 DEF Tracked, HasBid, In
    <3>3. CASE offer'[j] # offer[j]
      <4>1. /\ j = i /\ IsBid(up[1], j) /\ known /\ auction[j] = "open" /\ offer'[j] = up[1].bid
            /\ 1 \in 1..Len(up)
        BY <3>3
      <4>2. LastBid(1, j)
        <5>1. ASSUME NEW l \in (1 + 1)..Len(up) PROVE ~IsBid(up[l], j)
          <6>1. l - 1 \in 1..Len(up') /\ (l - 1) + 1 = l
            BY <1>1
          <6> QED BY <1>1, <2>2, <6>1 DEF BidSent
        <5> QED BY <4>1, <5>1 DEF LastBid
      <4>3. Tracked(j, up[1].bid)
        BY <1>3, <1>4, <2>2, <4>1, <4>2 DEF OffersInv
      <4> QED BY <1>1, <4>1, <4>3 DEF Tracked, HasBid, In
    <3> QED BY <3>1, <3>2, <3>3
  <2> QED BY <1>4, <2>1, <2>2 DEF OffersInv
<1>9. AcceptsInv'
  <2> SUFFICES ASSUME NEW k \in 1..Len(down'), down'[k].type = "ACCEPT"
               PROVE  /\ HasBid(down[k].id)'
                      /\ \A j \in 1..(k - 1) : ~About(down'[j], down'[k].id)
    BY DEF AcceptsInv
  <2>1. k \in 1..Len(down) /\ down'[k] = down[k]
    BY <1>2
  <2>2. \A j \in 1..(k - 1) : j \in 1..Len(down) /\ down'[j] = down[j]
    BY <1>1, <1>2, <2>1
  <2>3. HasBid(down[k].id) /\ \A j \in 1..(k - 1) : ~About(down[j], down[k].id)
    BY <1>4, <2>1 DEF AcceptsInv
  <2> QED BY <1>1, <2>1, <2>2, <2>3 DEF HasBid, In
<1>10. ResultsInv'
  <2> SUFFICES ASSUME ~HasFeed PROVE ResultsInv'
    BY DEF ResultsInv
  <2>1. ASSUME NEW j \in Ids, NEW k \in 1..Len(up'), IsResult(up'[k], j), auction[j] = "ours"
        PROVE  up'[k].attempt = round[j]
    BY <1>1, <1>4, <2>1 DEF ResultsInv
  <2>2. ASSUME known, NEW j \in Ids, NEW l \in 1..Len(up'), NEW k \in 1..Len(up'),
               l < k, IsBid(up'[l], j)
        PROVE  ~IsResult(up'[k], j)
    <3>1. l + 1 < k + 1 /\ up'[l] = up[l + 1] /\ up'[k] = up[k + 1]
          /\ l + 1 \in 1..Len(up) /\ k + 1 \in 1..Len(up)
      BY <1>1, <2>2
    <3> QED BY <1>4, <2>2, <3>1 DEF ResultsInv
  <2>3. ASSUME NEW j \in Ids, NEW k \in 1..Len(up'), offer'[j] # None
        PROVE  ~IsResult(up'[k], j)
    <3>1. k + 1 \in 1..Len(up) /\ 1 < k + 1 /\ up'[k] = up[k + 1]
      BY <1>1
    <3> QED BY <1>4, <2>3, <3>1 DEF ResultsInv
  <2> QED BY <1>1, <1>4, <2>1, <2>2, <2>3 DEF ResultsInv
<1> QED BY <1>5, <1>6, <1>7, <1>8, <1>9, <1>10 DEF ExchangeInv

LEMMA Unshifted == UNCHANGED up /\ NetTypeInv => UpShifted(0)
  BY Lengths DEF UpShifted

\* With a feed each task has one attempt, and a contract that ends is not offered again.
LEMMA NeverAgain ==
  ASSUME NetTypeInv, NoLateRevision, HasFeed, NEW i \in Ids, auction[i] # "idle",
         auction' = AfterFailure(i)
  PROVE  auction'[i] = "done"
<1>1. Attempts = {1} /\ auction \in [Ids -> Auctions] /\ round[i] = 1
  BY DEF NoLateRevision, NetTypeInv, NetTypeOK, RoundsExist
<1>2. ~Reopens(i)
  BY <1>1 DEF Reopens
<1> QED BY <1>1, <1>2 DEF AfterFailure

\* A contract ends: ours when the manager settles it, or a rival's.
LEMMA EndExchange ==
  ASSUME NetTypeInv, NetTypeInv', ExchangeInv, NoLateRevision,
         UNCHANGED vars, UNCHANGED <<round, known, offer>>,
         NEW i \in Ids, NEW s \in {0, 1}, UpShifted(s), s = 1 => \A j : ~IsBid(up[1], j),
         auction[i] \in {"ours", "rival"},
         auction' = [auction EXCEPT ![i] = "done"] \/ auction' = AfterFailure(i),
         Told(i, {"REJECT", "SETTLED", "ERROR"})
  PROVE  ExchangeInv'
<1>1. CallsInv /\ BidsInv /\ auction \in [Ids -> Auctions]
  BY DEF ExchangeInv, NetTypeInv, NetTypeOK
<1>2. /\ auction'[i] \in {"idle", "done"}
      /\ \A j \in Ids : j # i => auction'[j] = auction[j]
      /\ HasFeed => auction'[i] = "done"
  <2>1. CASE auction' = [auction EXCEPT ![i] = "done"]
    BY <1>1, <2>1
  <2>2. CASE auction' = AfterFailure(i)
    BY <1>1, <2>2, NeverAgain DEF AfterFailure
  <2> QED BY <2>1, <2>2
<1>3. offer[i] = None /\ \A k \in 1..Len(down) : ~Mentions(down[k], i)
  BY <1>1 DEF CallsInv
<1>4. (HasFeed => auction'[i] = "idle") => ~Voice(i)
  BY <1>1, <1>2 DEF BidsInv
<1>5. Told(i, {"ACCEPT", "REJECT", "SETTLED", "ERROR"})
  BY DEF Told
<1> QED BY <1>2, <1>3, <1>4, <1>5, ClosingExchange

LEMMA AwardExchange ==
  ASSUME CorrectInv, NetTypeInv', ExchangeInv, PromptBidding, NEW i \in Ids,
         NetAward(i) \/ NetAwardRival(i)
  PROVE  ExchangeInv'
<1>1. /\ NetTypeInv /\ CallsInv /\ BidsInv /\ ResultsInv
      /\ auction \in [Ids -> Auctions] /\ offer \in [Ids -> Bids \cup {None}]
  BY DEF CorrectInv, NetInv, ExchangeInv, NetTypeInv, NetTypeOK
<1>2. /\ UNCHANGED vars /\ UNCHANGED <<round, known>> /\ UNCHANGED up
      /\ ~Undecided(i) /\ auction[i] = "open"
      /\ auction' \in {[auction EXCEPT ![i] = "ours"], [auction EXCEPT ![i] = "rival"]}
      /\ offer' = [offer EXCEPT ![i] = None]
  BY DEF NetAward, NetAwardRival, Award, AwardRival
<1>3. /\ auction'[i] \in {"ours", "rival"} /\ offer'[i] = None
      /\ \A j \in Ids : j # i => auction'[j] = auction[j] /\ offer'[j] = offer[j]
  BY <1>1, <1>2
<1>4. /\ \A k \in 1..Len(down) : ~Mentions(down[k], i)
      /\ ~Voice(i)
  BY <1>1, <1>2, Lengths, LenProperties DEF Undecided, Mentions, Voice, BidSent, IsBid, NetTypeInv
<1>5. UpShifted(0)
  BY <1>1, <1>2, Unshifted
<1>6. CASE NetAward(i)
  <2>1. known /\ offer[i] # None
    BY <1>6 DEF NetAward, Award
  <2>2. Bidding(i)
    BY <1>1, <1>2, <2>1 DEF BidsInv, Asked
  <2>3. \A k \in 1..Len(down) : ~About(down[k], i)
    BY <1>1, <1>2, <2>2 DEF BidsInv
  <2>4. ~HasFeed => \A k \in 1..Len(up) : ~IsResult(up[k], i)
    BY <1>1, <2>1 DEF ResultsInv
  <2>5. Told(i, {"ACCEPT", "REJECT", "SETTLED", "ERROR"})
    <3>1. [type |-> "ACCEPT", id |-> i] \in DownMessages
      BY DEF DownMessages
    <3> QED BY <1>6, <3>1 DEF NetAward, Tell, Told
  <2> QED BY <1>1, <1>2, <1>3, <1>4, <1>5, <2>2, <2>3, <2>4, <2>5, ClosingExchange DEF Bidding
<1>7. CASE NetAwardRival(i)
  <2>1. Told(i, {"REJECT", "SETTLED", "ERROR"})
    <3>1. [type |-> "REJECT", id |-> i] \in DownMessages
      BY DEF DownMessages
    <3> QED BY <1>7, <3>1 DEF NetAwardRival, Tell, Told
  <2>2. Told(i, {"ACCEPT", "REJECT", "SETTLED", "ERROR"})
    BY <2>1 DEF Told
  <2>3. auction'[i] = "rival"
    BY <1>1, <1>7 DEF NetAwardRival, AwardRival
  <2> QED BY <1>1, <1>2, <1>3, <1>4, <1>5, <2>1, <2>2, <2>3, ClosingExchange
<1> QED BY <1>6, <1>7

LEMMA ContractEndExchange ==
  ASSUME CorrectInv, NetTypeInv', ExchangeInv, NoLateRevision, NEW i \in Ids,
         NetRivalEnds(i) \/ NetTimeout(i)
  PROVE  ExchangeInv'
<1>1. NetTypeInv
  BY DEF CorrectInv, NetInv
<1>2. /\ UNCHANGED vars /\ UNCHANGED <<round, known, offer>> /\ UNCHANGED up
      /\ auction[i] \in {"ours", "rival"}
      /\ auction' = [auction EXCEPT ![i] = "done"] \/ auction' = AfterFailure(i)
  BY DEF NetRivalEnds, NetTimeout, RivalEnds, Settle, netVars
<1>3. Told(i, {"REJECT", "SETTLED", "ERROR"})
  <2>1. Books(i, FALSE) \in DownMessages /\ Books(i, FALSE).id = i /\ Books(i, FALSE).type = "SETTLED"
    BY DEF Books, DownMessages
  <2> QED BY <2>1 DEF NetRivalEnds, NetTimeout, Tell, Told, netVars
<1>4. UpShifted(0)
  BY <1>1, <1>2, Unshifted
<1> QED BY <1>1, <1>2, <1>3, <1>4, EndExchange

LEMMA AnnounceExchange ==
  ASSUME CorrectInv, NetTypeInv', ExchangeInv, NEW i \in Ids, NetAnnounce(i)
  PROVE  ExchangeInv'
<1> DEFINE m == [type |-> "CFP", id |-> i, attempt |-> round[i] + 1]
<1>1. /\ NetTypeInv /\ LinkInv /\ OrderInv
      /\ ConnectionInv /\ CallsInv /\ BidsInv /\ OffersInv /\ AcceptsInv /\ ResultsInv
      /\ auction \in [Ids -> Auctions] /\ round \in [Ids -> Attempts \cup {0}]
  BY DEF CorrectInv, NetInv, ExchangeInv, NetTypeInv, NetTypeOK
<1>2. /\ UNCHANGED <<pc, registered, commitments, responses, up, known, offer>> /\ auction[i] = "idle"
      /\ auction'[i] = "open" /\ round'[i] = round[i] + 1
      /\ \A j \in Ids : j # i => auction'[j] = auction[j] /\ round'[j] = round[j]
      /\ Tell(m)
  BY <1>1 DEF NetAnnounce, Announce, vars
<1>3. m \in DownMessages
  BY <1>1, <1>2, AttemptAssumption DEF DownMessages, RoundsExist, NetTypeInv
<1>4. /\ Mentions(m, i) /\ m.type = "CFP" /\ \A j \in Ids : j # i => ~About(m, j)
  BY DEF Mentions, About
<1> HIDE DEF m
<1>5. /\ Len(down) \in Nat /\ Len(down') \in Nat
      /\ \A k \in 1..Len(down) : k \in 1..Len(down') /\ down'[k] = down[k]
      /\ \A k \in 1..Len(down') : \/ k \in 1..Len(down) /\ down'[k] = down[k]
                                  \/ k = Len(down) + 1 /\ down'[k] = m
  <2>1. Len(down) \in Nat
    BY <1>1, Lengths
  <2>2. CASE known
    <3>1. down' = Append(down, m)
      BY <1>2, <2>2 DEF Tell
    <3> QED BY <1>1, <1>3, <3>1, AppendedAt
  <2>3. CASE ~known
    BY <1>2, <2>1, <2>3 DEF Tell
  <2> QED BY <2>2, <2>3
<1>6. /\ offer[i] = None /\ ~Voice(i) /\ \A k \in 1..Len(down) : ~Mentions(down[k], i)
  BY <1>1, <1>2 DEF CallsInv, BidsInv
<1>7. ConnectionInv'
  BY <1>1, <1>2 DEF ConnectionInv, RegisterAt
<1>8. CallsInv'
  <2>1. ASSUME NEW j \in Ids, auction'[j] # "open"
        PROVE  offer'[j] = None /\ \A k \in 1..Len(down') : ~Mentions(down'[k], j)
    BY <1>1, <1>2, <1>4, <1>5, <2>1 DEF CallsInv, About
  <2>2. ASSUME NEW j \in Ids, NEW k \in 1..Len(down'), NEW l \in 1..Len(down'),
               k < l, Mentions(down'[k], j)
        PROVE  ~About(down'[l], j)
    <3>1. k \in 1..Len(down) /\ down'[k] = down[k]
      BY <1>5, <2>2
    <3>2. j # i
      BY <1>6, <2>2, <3>1
    <3> QED BY <1>1, <1>4, <1>5, <2>2, <3>1, <3>2 DEF CallsInv
  <2> QED BY <2>1, <2>2 DEF CallsInv
<1>9. BidsInv'
  <2>1. ASSUME NEW j \in Ids, auction'[j] # "open", HasFeed => auction'[j] = "idle"
        PROVE  ~Voice(j)'
    BY <1>1, <1>2, <2>1 DEF BidsInv, Voice, BidSent
  <2>2. ASSUME known, NEW j \in Ids, auction'[j] = "open", Asked(j)'
        PROVE  Bidding(j)'
    <3>1. Asked(j)
      BY <1>2, <2>2 DEF Asked, BidSent, BidToSend
    <3>2. j # i
      BY <1>6, <3>1 DEF Asked, Voice, BidToSend, IsBid
    <3>3. Bidding(j)
      BY <1>1, <1>2, <2>2, <3>1, <3>2 DEF BidsInv
    <3> QED BY <1>2, <3>2, <3>3 DEF Bidding, HasBid, In
  <2>3. ASSUME NEW j \in Ids, auction'[j] = "open", Bidding(j)', NEW k \in 1..Len(down')
        PROVE  ~About(down'[k], j)
    <3>1. j # i
      <4> SUFFICES ASSUME j = i PROVE FALSE
        OBVIOUS
      <4>1. commitments[i] # None /\ commitments[i].attempt = round[i] + 1
        BY <1>2, <2>3 DEF Bidding, HasBid, In
      <4>2. commitments[i].attempt <= round[i] /\ round[i] \in Nat
        BY <1>1, <4>1, OrderTypes DEF OrderInv
      <4> QED BY <4>1, <4>2
    <3>2. Bidding(j) /\ auction[j] = "open"
      BY <1>2, <2>3, <3>1 DEF Bidding, HasBid, In
    <3> QED BY <1>1, <1>4, <1>5, <3>1, <3>2 DEF BidsInv
  <2> QED BY <1>2, <2>1, <2>2, <2>3 DEF BidsInv
<1>10. OffersInv'
  <2>1. ASSUME ChangesAnnounced, known, NEW j \in Ids, NEW k \in 1..Len(up'),
               auction'[j] = "open", ~BidToSend(j)', LastBid(k, j)'
        PROVE  Tracked(j, up[k].bid)'
    <3>1. ~BidToSend(j) /\ LastBid(k, j) /\ k \in 1..Len(up)
      BY <1>2, <2>1 DEF BidToSend, LastBid
    <3>2. j # i
      BY <1>6, <3>1 DEF LastBid, Voice, BidSent
    <3>3. Tracked(j, up[k].bid)
      BY <1>1, <1>2, <2>1, <3>1, <3>2 DEF OffersInv
    <3> QED BY <1>2, <3>3 DEF Tracked, HasBid, In
  <2>2. ASSUME ChangesAnnounced, NEW j \in Ids, offer'[j] # None, ~BidToSend(j)', ~BidSent(j)'
        PROVE  Tracked(j, offer[j])'
    <3>1. ~BidToSend(j) /\ ~BidSent(j)
      BY <1>2, <2>2 DEF BidToSend, BidSent
    <3>2. Tracked(j, offer[j])
      BY <1>1, <1>2, <2>2, <3>1 DEF OffersInv
    <3> QED BY <1>2, <3>2 DEF Tracked, HasBid, In
  <2> QED BY <1>2, <2>1, <2>2 DEF OffersInv
<1>11. AcceptsInv'
  <2> SUFFICES ASSUME NEW k \in 1..Len(down'), down'[k].type = "ACCEPT"
               PROVE  /\ HasBid(down[k].id)'
                      /\ \A j \in 1..(k - 1) : ~About(down'[j], down'[k].id)
    BY DEF AcceptsInv
  <2>1. k \in 1..Len(down) /\ down'[k] = down[k]
    BY <1>4, <1>5
  <2>2. \A j \in 1..(k - 1) : j \in 1..Len(down) /\ down'[j] = down[j]
    BY <1>5, <2>1
  <2>3. HasBid(down[k].id) /\ \A j \in 1..(k - 1) : ~About(down[j], down[k].id)
    BY <1>1, <2>1 DEF AcceptsInv
  <2> QED BY <1>2, <2>1, <2>2, <2>3 DEF HasBid, In
<1>12. ResultsInv'
  <2> SUFFICES ASSUME ~HasFeed PROVE ResultsInv'
    BY DEF ResultsInv
  <2>1. \A j \in Ids : auction'[j] = "ours" => auction[j] = "ours" /\ round'[j] = round[j]
    BY <1>2
  <2> QED BY <1>1, <1>2, <2>1 DEF ResultsInv
<1> QED BY <1>7, <1>8, <1>9, <1>10, <1>11, <1>12 DEF ExchangeInv

-----------------------------------------------------------------------------
(* The manager reads.                                                      *)

\* A REGISTER is all that is left of the connection before, and nothing has been
\* said on the new one.
LEMMA RegisterExchange ==
  ASSUME CorrectInv, CorrectInv', ExchangeInv, NetTake, Head(up).type = "REGISTER"
  PROVE  ExchangeInv'
<1> DEFINE m == [type |-> "REGISTERED", open |-> OpenCfps]
<1>1. /\ NetTypeInv /\ NetTypeInv' /\ LinkInv /\ SignOnInv /\ BidsNeedSession /\ ConnectionInv /\ ResultsInv
  BY DEF CorrectInv, NetInv, ExchangeInv, Inv, SessionInv
<1>2. /\ TakeRegister /\ UNCHANGED vars /\ Head(up) = up[1] /\ 1 \in DOMAIN up
      /\ Len(up') = Len(up) - 1 /\ Len(up) \in Nat
  BY <1>1, TakenAt DEF NetTake
<1>3. 1 \in RegisterAt /\ ~known
  BY <1>1, <1>2 DEF RegisterAt, SignOnInv
<1>4. Len(up') = 0 /\ Len(down) = 0
  BY <1>1, <1>2, <1>3, EmptySeq DEF ConnectionInv, LinkInv
<1>5. registered = FALSE /\ responses = {} /\ \A i \in Ids : offer[i] = None /\ ~HasBid(i)
  BY <1>1, <1>3 DEF ConnectionInv, BidsNeedSession, HasBid, NetTypeInv, TypeInv, TypeOK
<1>6. /\ UNCHANGED <<registered, responses, commitments, auction, round, offer>>
  BY <1>2 DEF vars, TakeRegister, mgrVars
<1>7. m \in DownMessages /\ down' = Append(down, m)
  BY <1>1, <1>2, OfferedInRange DEF TakeRegister, DownMessages
<1>8. /\ Len(down') = 1 /\ down'[1] = m
  BY <1>1, <1>4, <1>7, AppendedAt
<1>9. \A i \in Ids : Mentions(m, i) => auction[i] = "open"
  BY DEF Mentions, OpenCfps
<1>10. m.type = "REGISTERED"
  OBVIOUS
<1> HIDE DEF m
<1>11. ConnectionInv'
  <2>1. RegisterAt' = {}
    BY <1>1, <1>4, Lengths DEF RegisterAt
  <2> QED BY <1>5, <1>6, <2>1 DEF ConnectionInv
<1>12. CallsInv'
  BY <1>5, <1>6, <1>8, <1>9 DEF CallsInv
<1>13. \A i \in Ids : ~Voice(i)' /\ ~Asked(i)' /\ ~HasBid(i)' /\ ~BidSent(i)'
  BY <1>4, <1>5, <1>6 DEF Voice, Asked, HasBid, BidSent, BidToSend, In
<1>14. BidsInv'
  BY <1>13 DEF BidsInv, Bidding
<1>15. OffersInv'
  BY <1>4, <1>5, <1>6 DEF OffersInv
<1>16. AcceptsInv'
  BY <1>8, <1>10 DEF AcceptsInv
<1>17. ResultsInv'
  BY <1>1, <1>4, <1>6 DEF ResultsInv
<1> QED BY <1>11, <1>12, <1>14, <1>15, <1>16, <1>17 DEF ExchangeInv

LEMMA TakeExchange ==
  ASSUME CorrectInv, CorrectInv', ExchangeInv, NoLateRevision, NetTake
  PROVE  ExchangeInv'
<1>1. /\ NetTypeInv /\ NetTypeInv'
      /\ auction \in [Ids -> Auctions] /\ offer \in [Ids -> Bids \cup {None}]
  BY DEF CorrectInv, NetInv, NetTypeInv, NetTypeOK
<1>2. PICK m \in UpMessages :
        /\ m = Head(up) /\ m = up[1] /\ 1 \in 1..Len(up) /\ UpShifted(1) /\ UNCHANGED vars
  BY <1>1, TakenAt DEF UpShifted
<1>3. CASE m.type = "REGISTER"
  BY <1>2, <1>3, RegisterExchange
<1>4. CASE m.type \in {"PROPOSE", "REFUSE"}
  <2>1. TakeBid(m) /\ m.id \in Ids
    BY <1>2, <1>4 DEF NetTake, UpMessages, Register, Responses, Results
  <2>2. UNCHANGED <<auction, round, known>> /\ Told(m.id, {"ERROR"})
    <3>1. UNCHANGED <<auction, round, known>>
      BY <2>1 DEF TakeBid, TakeProposal, mgrVars
    <3>2. [type |-> "ERROR", id |-> m.id] \in DownMessages
      BY <2>1 DEF DownMessages
    <3> QED BY <2>1, <3>1, <3>2 DEF TakeBid, Tell, Told
  <2>3. CASE m.type = "PROPOSE" /\ known /\ auction[m.id] = "open"
    <3>1. offer' = [offer EXCEPT ![m.id] = m.bid]
      BY <2>1, <2>3 DEF TakeBid, TakeProposal
    <3>2. offer'[m.id] = m.bid /\ \A j \in Ids : j # m.id => offer'[j] = offer[j]
      BY <1>1, <2>1, <3>1
    <3> QED BY <1>1, <1>2, <2>1, <2>2, <2>3, <3>2, HeardExchange DEF IsBid
  <2>4. CASE ~(m.type = "PROPOSE" /\ known /\ auction[m.id] = "open")
    <3>1. UNCHANGED offer
      BY <2>1, <2>4 DEF TakeBid, TakeProposal, mgrVars
    <3>2. \/ \A j : ~IsBid(up[1], j)
          \/ ~known
          \/ auction[m.id] # "open" /\ \A j : IsBid(up[1], j) => j = m.id
      BY <1>2, <2>4 DEF IsBid
    <3> QED BY <1>1, <1>2, <2>1, <2>2, <3>1, <3>2, HeardExchange
  <2> QED BY <2>3, <2>4
<1>5. CASE m.type \notin {"REGISTER", "PROPOSE", "REFUSE"}
  <2>1. TakeResult(m) /\ m.id \in Ids
    BY <1>2, <1>5 DEF NetTake, UpMessages, Register, Responses, Results
  <2>2. \A j : ~IsBid(up[1], j)
    BY <1>2, <1>5 DEF IsBid
  <2>3. CASE auction[m.id] = "ours"
    <3>1. PICK correct \in BOOLEAN, graded \in BOOLEAN :
            Settle(m.id, correct) /\ Tell(Books(m.id, graded))
      BY <2>1, <2>3 DEF TakeResult
    <3>2. Told(m.id, {"REJECT", "SETTLED", "ERROR"})
      <4>1. /\ Books(m.id, graded) \in DownMessages /\ Books(m.id, graded).id = m.id
            /\ Books(m.id, graded).type = "SETTLED"
        BY <2>1 DEF Books, DownMessages
      <4> QED BY <3>1, <4>1 DEF Tell, Told
    <3>3. /\ UNCHANGED <<round, known, offer>>
          /\ auction' = [auction EXCEPT ![m.id] = "done"] \/ auction' = AfterFailure(m.id)
      BY <2>1, <3>1 DEF Settle, TakeResult
    <3> QED BY <1>1, <1>2, <2>1, <2>2, <2>3, <3>2, <3>3, EndExchange
  <2>4. CASE auction[m.id] # "ours"
    <3>1. UNCHANGED <<auction, round, known, offer, down>>
      BY <2>1, <2>4 DEF TakeResult, mgrVars
    <3>2. Told(m.id, {"ERROR"})
      BY <3>1 DEF Told
    <3> QED BY <1>1, <1>2, <2>1, <2>2, <3>1, <3>2, HeardExchange
  <2> QED BY <2>3, <2>4
<1> QED BY <1>3, <1>4, <1>5

-----------------------------------------------------------------------------
(* The client acts.                                                        *)

\* A task that is not called has no bid, and with a feed a bid is for the only attempt.
LEMMA OneAttempt ==
  ASSUME NetTypeInv, OrderInv, NoLateRevision, HasFeed, NEW i \in Ids, HasBid(i)
  PROVE  auction[i] # "idle" /\ Bidding(i)
<1>1. Attempts = {1} /\ commitments[i].attempt = 1 /\ commitments[i].attempt <= round[i]
      /\ round[i] \in {0, 1}
  BY OrderTypes DEF NoLateRevision, HasBid, In, OrderInv, NetTypeInv, NetTypeOK
<1>2. round[i] = 1
  BY <1>1
<1> QED BY <1>1, <1>2 DEF NetTypeInv, RoundsExist, Bidding

\* The client keeps its bids, and revises some of them when it has a feed.
LEMMA KeptExchange ==
  ASSUME NetTypeInv, OrderInv, ExchangeInv, NoLateRevision,
         UNCHANGED <<mgrVars, netVars, registered>>,
         \A i \in Ids : AttemptKept(commitments, commitments', i) /\ (HasBid(i) => HasBid(i)'),
         \A m \in responses' : \/ m \in responses
                               \/ HasFeed /\ m.id \in Ids /\ HasBid(m.id),
         ChangesAnnounced => \A i \in Ids :
            ~BidToSend(i)' => /\ ~BidToSend(i)
                              /\ HasBid(i) => commitments'[i].bid = commitments[i].bid
  PROVE  ExchangeInv'
<1>1. /\ ConnectionInv /\ CallsInv /\ BidsInv /\ OffersInv /\ AcceptsInv /\ ResultsInv
      /\ UNCHANGED <<auction, round, offer, up, down, known, registered>>
  BY DEF ExchangeInv, mgrVars, netVars
<1>2. \A i \in Ids : /\ HasBid(i) <=> HasBid(i)'
                     /\ Bidding(i) <=> Bidding(i)'
  BY <1>1 DEF AttemptKept, HasBid, Bidding, In
<1>3. ConnectionInv' /\ CallsInv'
  BY <1>1 DEF ConnectionInv, CallsInv, RegisterAt
<1>4. BidsInv'
  <2>1. ASSUME NEW i \in Ids, auction[i] # "open", HasFeed => auction[i] = "idle", Voice(i)'
        PROVE  FALSE
    <3>1. ~Voice(i)
      BY <1>1, <2>1 DEF BidsInv
    <3>2. HasFeed /\ HasBid(i)
      BY <1>1, <2>1, <3>1 DEF Voice, BidSent
    <3> QED BY <2>1, <3>2, OneAttempt
  <2>2. ASSUME known, NEW i \in Ids, auction[i] = "open", Asked(i)'
        PROVE  Bidding(i)'
    <3>1. CASE Asked(i)
      BY <1>1, <1>2, <2>2, <3>1 DEF BidsInv
    <3>2. CASE ~Asked(i)
      <4>1. HasFeed /\ HasBid(i)
        BY <1>1, <2>2, <3>2 DEF Asked, BidSent, BidToSend, IsBid
      <4> QED BY <1>2, <4>1, OneAttempt
    <3> QED BY <3>1, <3>2
  <2> QED BY <1>1, <1>2, <2>1, <2>2 DEF BidsInv
<1>5. OffersInv'
  <2>1. ASSUME ChangesAnnounced, NEW i \in Ids, NEW b, ~BidToSend(i)',
               ~BidToSend(i) => Tracked(i, b)
        PROVE  HasBid(i)' /\ commitments'[i].bid = b
    BY <1>2, <2>1 DEF Tracked
  <2>2. ASSUME ChangesAnnounced, known, NEW i \in Ids, NEW k \in 1..Len(up),
               auction[i] = "open", ~BidToSend(i)', LastBid(k, i)'
        PROVE  Tracked(i, up[k].bid)'
    <3>1. ~BidToSend(i) => Tracked(i, up[k].bid)
      BY <1>1, <2>2 DEF OffersInv, LastBid
    <3>2. HasBid(i)' /\ commitments'[i].bid = up[k].bid
      BY <2>1, <2>2, <3>1
    <3> QED BY <1>1, <3>2 DEF Tracked
  <2>3. ASSUME ChangesAnnounced, NEW i \in Ids, offer[i] # None, ~BidToSend(i)', ~BidSent(i)'
        PROVE  Tracked(i, offer[i])'
    <3>1. ~BidToSend(i) => Tracked(i, offer[i])
      BY <1>1, <2>3 DEF OffersInv, BidSent
    <3>2. HasBid(i)' /\ commitments'[i].bid = offer[i]
      BY <2>1, <2>3, <3>1
    <3> QED BY <1>1, <3>2 DEF Tracked
  <2> QED BY <1>1, <2>2, <2>3 DEF OffersInv
<1>6. AcceptsInv'
  <2> SUFFICES ASSUME NEW k \in 1..Len(down), down[k].type = "ACCEPT"
               PROVE  /\ HasBid(down[k].id)'
                      /\ \A j \in 1..(k - 1) : ~About(down[j], down[k].id)
    BY <1>1 DEF AcceptsInv
  <2>1. down[k].id \in Ids
    BY AcceptId DEF NetTypeInv
  <2>2. HasBid(down[k].id) /\ \A j \in 1..(k - 1) : ~About(down[j], down[k].id)
    BY <1>1 DEF AcceptsInv
  <2>3. PICK i \in Ids : i = down[k].id
    BY <2>1
  <2>4. HasBid(i)'
    BY <1>2, <2>2, <2>3
  <2> QED BY <1>1, <2>2, <2>3, <2>4 DEF HasBid
<1>7. ResultsInv'
  BY <1>1 DEF ResultsInv, AttemptKept
<1> QED BY <1>3, <1>4, <1>5, <1>6, <1>7 DEF ExchangeInv

LEMMA LocalExchange ==
  ASSUME CorrectInv, ExchangeInv, NoLateRevision, NetLocal
  PROVE  ExchangeInv'
<1>1. NetTypeInv /\ OrderInv /\ UNCHANGED <<mgrVars, netVars>>
  BY DEF CorrectInv, NetInv, NetLocal
<1>2. CASE \E s \in Snapshots \cup {None}, choice \in Decisions : MarketChanges(s, choice)
  <2>1. PICK s \in Snapshots \cup {None}, choice \in Decisions : MarketChanges(s, choice)
    BY <1>2
  <2>2. /\ HasFeed
        /\ \A m \in responses' : m \in responses \/ (m.id \in Ids /\ HasBid(m.id))
        /\ \A i \in Ids : AttemptKept(commitments, commitments', i)
        /\ \A i \in Ids : HasBid(i) => HasBid(i)'
        /\ ChangesAnnounced => \A i \in Ids :
              HasBid(i) /\ commitments'[i].bid # commitments[i].bid
              => \E m \in responses' : m.type = "PROPOSE" /\ m.id = i
        /\ UNCHANGED responses \/ responses = {}
    BY <2>1, MarketBids
  <2>3. UNCHANGED registered
    BY <2>1 DEF MarketChanges
  <2>4. ASSUME ChangesAnnounced, NEW i \in Ids, ~BidToSend(i)'
        PROVE  /\ ~BidToSend(i)
               /\ HasBid(i) => commitments'[i].bid = commitments[i].bid
    BY <2>2, <2>4 DEF BidToSend, IsBid
  <2> QED BY <1>1, <2>2, <2>3, <2>4, KeptExchange
<1>3. CASE ~\E s \in Snapshots \cup {None}, choice \in Decisions : MarketChanges(s, choice)
  <2>1. \A i \in Ids : SameBid(i) /\ AttemptKept(commitments, commitments', i)
    BY <1>3, LocalSameBid
  <2>2. UNCHANGED responses
    BY <1>3, LocalResponses
  <2>3. UNCHANGED registered
    BY <1>3 DEF NetLocal, Local, Launch, Connect, Retry, SaveLearning, MarketExpires, FinishWork
  <2>4. \A i \in Ids : /\ HasBid(i) => HasBid(i)'
                       /\ HasBid(i) => commitments'[i].bid = commitments[i].bid
                       /\ ~BidToSend(i)' => ~BidToSend(i)
    BY <2>1, <2>2 DEF SameBid, HasBid, In, BidToSend
  <2> QED BY <1>1, <2>1, <2>2, <2>3, <2>4, KeptExchange
<1> QED BY <1>2, <1>3

\* A result to be sent is of a contract, so no bid of the same task is on its way.
LEMMA ResultNow ==
  ASSUME CorrectInv, ExchangeInv, NEW i \in Ids, known, 1 \in DOMAIN outbox, outbox[1].id = i,
         ~HasFeed
  PROVE  /\ ~BidSent(i) /\ offer[i] = None
         /\ auction[i] = "ours" => outbox[1].attempt = round[i]
<1>1. /\ CallsInv /\ BidsInv /\ ResultsInv /\ ResultsBacked
  BY DEF ExchangeInv, CorrectInv, Inv, ContractInv
<1>2. In(commitments, i, {"Complete"}) /\ commitments[i].attempt = outbox[1].attempt
  BY <1>1 DEF ResultsBacked
<1>3. ~HasBid(i) /\ commitments[i] # None
  BY <1>2 DEF HasBid, In
<1>4. CASE auction[i] = "open"
  BY <1>1, <1>3, <1>4 DEF BidsInv, Asked, Bidding
<1>5. CASE auction[i] # "open"
  BY <1>1, <1>2, <1>3, <1>5 DEF BidsInv, CallsInv, Voice, ResultsInv
<1> QED BY <1>4, <1>5

LEMMA WriteExchange ==
  ASSUME CorrectInv, CorrectInv', ExchangeInv,
         NetSendRegister \/ NetSendResponse \/ NetSendResult
  PROVE  ExchangeInv'
<1>1. /\ NetTypeInv /\ NetTypeInv' /\ SignOnInv /\ ResponsesCurrent
      /\ ConnectionInv /\ CallsInv /\ BidsInv /\ OffersInv /\ AcceptsInv /\ ResultsInv
  BY DEF CorrectInv, NetInv, ExchangeInv, Inv, SessionInv
<1>2. PICK m \in UpMessages :
        /\ Written(m)
        /\ \/ m = Register /\ pc = "register" /\ UNCHANGED responses
           \/ m \in responses /\ registered /\ responses' = responses \ {m}
           \/ /\ m = Head(outbox) /\ m \in Results /\ registered /\ 1 \in DOMAIN outbox
              /\ m = outbox[1] /\ UNCHANGED responses
  BY <1>1, WhatIsWritten
<1>3. /\ Len(up) \in Nat /\ Len(up') = Len(up) + 1 /\ up'[Len(up) + 1] = m
      /\ DOMAIN up = 1..Len(up) /\ DOMAIN up' = 1..(Len(up) + 1)
      /\ \A k \in 1..Len(up) : up'[k] = up[k]
      /\ UNCHANGED <<auction, round, offer, down, known>>
  BY <1>1, <1>2, WrittenAt
<1>4. UNCHANGED <<commitments, registered>>
  BY DEF NetSendRegister, NetSendResponse, NetSendResult, SendRegister, SendResponse, SendResult
<1>5. \A k \in 1..Len(up') : \/ k \in 1..Len(up) /\ up'[k] = up[k]
                             \/ k = Len(up) + 1 /\ up'[k] = m
  BY <1>3
<1>6. \A i : IsBid(m, i) => m \in responses /\ responses' = responses \ {m}
  BY <1>2 DEF IsBid, Register, Results
<1>7. \A i \in Ids : IsResult(m, i) => /\ m = outbox[1] /\ 1 \in DOMAIN outbox /\ registered
                                       /\ m.id = i
  <2>1. \A r \in responses : r.type \in {"PROPOSE", "REFUSE"}
    BY <1>1 DEF Responses, NetTypeInv, TypeInv, TypeOK
  <2>2. Register.type = "REGISTER"
    BY DEF Register
  <2> QED BY <1>2, <2>1, <2>2 DEF IsResult
<1>8. ASSUME NEW i \in Ids, ~HasFeed, IsResult(m, i)
      PROVE  /\ ~BidSent(i) /\ offer[i] = None
             /\ auction[i] = "ours" => m.attempt = round[i]
  BY <1>1, <1>7, <1>8, ResultNow DEF ConnectionInv
<1>9. \A i : Voice(i)' => Voice(i)
  BY <1>2, <1>5, <1>6 DEF Voice, BidSent, IsBid
<1>10. \A i : Asked(i)' => Asked(i)
  BY <1>2, <1>3, <1>5, <1>6 DEF Asked, BidSent, BidToSend
<1>11. ConnectionInv'
  <2>1. ASSUME NEW k \in RegisterAt' PROVE k = Len(up')
    <3>1. registered => RegisterAt = {}
      BY <1>1 DEF ConnectionInv, SignOnInv
    <3>2. pc = "register" => RegisterAt = {}
      BY <1>1 DEF SignOnInv
    <3>3. k \notin RegisterAt
      BY <1>2, <3>1, <3>2
    <3>4. k \in 1..Len(up') /\ up'[k].type = "REGISTER"
      BY <1>3 DEF RegisterAt
    <3> QED BY <1>3, <1>5, <3>3, <3>4 DEF RegisterAt
  <2> QED BY <1>1, <1>3, <1>4, <2>1 DEF ConnectionInv
<1>12. CallsInv'
  BY <1>1, <1>3 DEF CallsInv
<1>13. BidsInv'
  BY <1>1, <1>3, <1>4, <1>9, <1>10 DEF BidsInv, Bidding, HasBid, In
<1>14. OffersInv'
  <2>1. \A i : BidToSend(i) => BidToSend(i)' \/ IsBid(m, i)
    BY <1>2 DEF BidToSend
  <2>2. \A i : BidSent(i) \/ IsBid(m, i) => BidSent(i)'
    BY <1>3, <1>5 DEF BidSent
  <2>3. ASSUME ChangesAnnounced, known, NEW i \in Ids, NEW k \in 1..Len(up'),
               auction[i] = "open", ~BidToSend(i)', LastBid(k, i)'
        PROVE  HasBid(i) /\ commitments[i].bid = up'[k].bid
    <3>1. CASE IsBid(m, i)
      <4>1. k = Len(up) + 1 /\ up'[k] = m
        <5>1. ~(Len(up) + 1 \in (k + 1)..Len(up'))
          BY <1>3, <2>3, <3>1 DEF LastBid
        <5> QED BY <1>3, <1>5, <5>1
      <4>2. HasBid(i) /\ commitments[i].bid = m.bid
        BY <1>1, <1>6, <3>1 DEF ResponsesCurrent, IsBid, HasBid
      <4> QED BY <4>1, <4>2
    <3>2. CASE ~IsBid(m, i)
      <4>1. k \in 1..Len(up) /\ up'[k] = up[k]
        BY <1>5, <2>3, <3>2 DEF LastBid
      <4>2. LastBid(k, i)
        <5>1. IsBid(up[k], i)
          BY <2>3, <4>1 DEF LastBid
        <5>2. ASSUME NEW l \in (k + 1)..Len(up) PROVE ~IsBid(up[l], i)
          <6>1. l \in 1..Len(up) /\ l \in (k + 1)..Len(up')
            BY <1>3, <4>1
          <6> QED BY <1>3, <2>3, <6>1 DEF LastBid
        <5> QED BY <5>1, <5>2 DEF LastBid
      <4>3. ~BidToSend(i)
        BY <2>1, <2>3, <3>2
      <4> QED BY <1>1, <2>3, <4>1, <4>2, <4>3 DEF OffersInv, Tracked
    <3> QED BY <3>1, <3>2
  <2>4. ASSUME ChangesAnnounced, NEW i \in Ids, offer[i] # None, ~BidToSend(i)', ~BidSent(i)'
        PROVE  Tracked(i, offer[i])
    <3>1. ~BidToSend(i) /\ ~BidSent(i)
      BY <2>1, <2>2, <2>4
    <3> QED BY <1>1, <2>4, <3>1 DEF OffersInv
  <2>5. ASSUME NEW i \in Ids, Tracked(i, offer[i]) PROVE Tracked(i, offer[i])'
    BY <1>3, <1>4, <2>5 DEF Tracked, HasBid, In
  <2>6. ASSUME NEW i \in Ids, NEW k, HasBid(i), commitments[i].bid = up'[k].bid
        PROVE  Tracked(i, up[k].bid)'
    BY <1>4, <2>6 DEF Tracked, HasBid, In
  <2> QED BY <1>3, <2>3, <2>4, <2>5, <2>6 DEF OffersInv
<1>15. AcceptsInv'
  BY <1>1, <1>3, <1>4 DEF AcceptsInv, HasBid, In
<1>16. ResultsInv'
  <2> SUFFICES ASSUME ~HasFeed PROVE ResultsInv'
    BY DEF ResultsInv
  <2>1. ASSUME NEW i \in Ids, NEW k \in 1..Len(up'), IsResult(up'[k], i), auction[i] = "ours"
        PROVE  up'[k].attempt = round[i]
    BY <1>1, <1>5, <1>8, <2>1 DEF ResultsInv
  <2>2. ASSUME known, NEW i \in Ids, NEW j \in 1..Len(up'), NEW k \in 1..Len(up'),
               j < k, IsBid(up'[j], i)
        PROVE  ~IsResult(up'[k], i)
    <3>1. j \in 1..Len(up) /\ IsBid(up[j], i)
      BY <1>3, <1>5, <2>2
    <3>2. BidSent(i)
      BY <3>1 DEF BidSent
    <3> QED BY <1>1, <1>5, <1>8, <2>2, <3>1, <3>2 DEF ResultsInv
  <2>3. ASSUME NEW i \in Ids, NEW k \in 1..Len(up'), offer[i] # None
        PROVE  ~IsResult(up'[k], i)
    BY <1>1, <1>5, <1>8, <2>3 DEF ResultsInv
  <2> QED BY <1>1, <1>3, <1>4, <2>1, <2>2, <2>3 DEF ResultsInv
<1> QED BY <1>11, <1>12, <1>13, <1>14, <1>15, <1>16 DEF ExchangeInv

LEMMA DropExchange ==
  ASSUME CorrectInv, ExchangeInv, Drop
  PROVE  ExchangeInv'
<1>1. /\ NetTypeInv /\ CallsInv /\ BidsInv /\ ResultsInv /\ ResultsBacked
  BY DEF CorrectInv, NetInv, ExchangeInv, Inv, ContractInv
<1>2. /\ \A k \in 1..Len(up') : \/ \E j \in 1..Len(up) : up'[k] = up[j]
                                \/ up'[k] \in responses
                                \/ /\ pc = "flush" /\ up'[k] = outbox[1]
                                   /\ 1 \in DOMAIN outbox /\ registered
      /\ RegisterAt' = {} /\ Len(down') = 0 /\ known' = FALSE
      /\ registered' = FALSE /\ responses' = {}
      /\ \A i \in Ids : /\ offer'[i] = None /\ ~HasBid(i)'
                        /\ commitments'[i] \in {None, commitments[i]}
      /\ UNCHANGED <<auction, round, awards>>
  BY DropEffect
<1>3. /\ outbox \in Seq(Results) /\ \A r \in responses : r.type \in {"PROPOSE", "REFUSE"}
      /\ 1 \in DOMAIN outbox => outbox[1] \in Results
  BY <1>1, LenProperties DEF NetTypeInv, TypeInv, TypeOK, Responses
<1>4. ConnectionInv'
  BY <1>2 DEF ConnectionInv
<1>5. CallsInv'
  BY <1>1, <1>2 DEF CallsInv
<1>6. BidsInv'
  <2>1. ASSUME NEW i \in Ids, Voice(i)' PROVE Voice(i)
    <3>1. PICK k \in 1..Len(up') : IsBid(up'[k], i)
      BY <1>2, <2>1 DEF Voice, BidSent
    <3>2. CASE \E j \in 1..Len(up) : up'[k] = up[j]
      BY <3>1, <3>2 DEF Voice, BidSent
    <3>3. CASE up'[k] \in responses
      BY <3>1, <3>3 DEF Voice, IsBid
    <3>4. CASE up'[k] = outbox[1] /\ 1 \in DOMAIN outbox
      BY <1>3, <3>1, <3>4 DEF IsBid, Results
    <3> QED BY <1>2, <3>2, <3>3, <3>4
  <2> QED BY <1>1, <1>2, <2>1 DEF BidsInv, Bidding
<1>7. OffersInv'
  BY <1>2 DEF OffersInv
<1>8. AcceptsInv'
  BY <1>2 DEF AcceptsInv
<1>9. ResultsInv'
  <2> SUFFICES ASSUME ~HasFeed PROVE ResultsInv'
    BY DEF ResultsInv
  <2>1. ASSUME NEW i \in Ids, NEW k \in 1..Len(up'), IsResult(up'[k], i), auction[i] = "ours"
        PROVE  up'[k].attempt = round[i]
    <3>1. CASE \E j \in 1..Len(up) : up'[k] = up[j]
      BY <1>1, <2>1, <3>1 DEF ResultsInv
    <3>2. CASE up'[k] \in responses
      BY <1>3, <2>1, <3>2 DEF IsResult
    <3>3. CASE up'[k] = outbox[1] /\ 1 \in DOMAIN outbox
      <4>1. outbox[1].id = i
        BY <2>1, <3>3 DEF IsResult
      <4>2. commitments[i] # None /\ commitments[i].attempt = outbox[1].attempt
        BY <1>1, <3>3, <4>1 DEF ResultsBacked, In
      <4> QED BY <1>1, <2>1, <3>3, <4>2 DEF ResultsInv
    <3> QED BY <1>2, <3>1, <3>2, <3>3
  <2>2. ASSUME NEW i \in Ids, auction[i] = "ours", commitments'[i] # None
        PROVE  commitments'[i].attempt = round[i]
    BY <1>1, <1>2, <2>2 DEF ResultsInv
  <2> QED BY <1>2, <2>1, <2>2 DEF ResultsInv
<1> QED BY <1>4, <1>5, <1>6, <1>7, <1>8, <1>9 DEF ExchangeInv

\* An announcement that is read is of the attempt last announced.
LEMMA ReadsLast ==
  ASSUME NetTypeInv, LinkInv, CallsInv, known, NEW i \in Ids, auction[i] = "open",
         1 \in 1..Len(down), Mentions(down[1], i)
  PROVE  AttemptIn(down[1], i) = round[i]
<1>1. Len(down) \in Nat /\ Tracks(commitments, down, Len(down) + 1, i, round[i])
  BY Lengths DEF LinkInv, OpensMatch
<1>2. \A l \in (1 + 1)..((Len(down) + 1) - 1) : ~Mentions(down[l], i)
  <2> SUFFICES ASSUME NEW l \in 2..Len(down) PROVE ~Mentions(down[l], i)
    BY <1>1
  <2>1. l \in 1..Len(down) /\ 1 < l
    OBVIOUS
  <2> QED BY <2>1 DEF CallsInv, About
<1>3. 1 \in 1..((Len(down) + 1) - 1)
  BY <1>1
<1> QED BY <1>1, <1>2, <1>3 DEF Tracks

LEMMA ReceiveExchange ==
  ASSUME CorrectInv, CorrectInv', ExchangeInv, NetReceive
  PROVE  ExchangeInv'
<1>1. /\ NetTypeInv /\ LinkInv /\ Inv /\ ResponsesCurrent'
      /\ ConnectionInv /\ CallsInv /\ BidsInv /\ OffersInv /\ AcceptsInv /\ ResultsInv
  BY DEF CorrectInv, NetInv, ExchangeInv, Inv, SessionInv
<1>2. /\ Len(down) \in Nat \ {0} /\ Len(down') = Len(down) - 1 /\ 1 \in 1..Len(down)
      /\ \A k \in 1..Len(down') : down'[k] = down[k + 1] /\ k + 1 \in 1..Len(down)
      /\ UNCHANGED <<auction, round, offer, up, known>> /\ pc = "select"
      /\ Head(down) = down[1] /\ down # <<>>
  BY <1>1, ReadAt
<1> DEFINE m == down[1]
<1>3. known /\ responses = {} /\ m = Head(down)
  BY <1>1, <1>2, SelectIsClean DEF LinkInv
<1>4. \A i \in Ids : ReadsAs(m, i)
  BY <1>2, ReadEffect
<1>5. \A i \in Ids : About(m, i) /\ auction[i] = "open" => ~Bidding(i) /\ ~Asked(i)
  BY <1>1, <1>2, <1>3 DEF BidsInv
<1>6. \A i \in Ids : Mentions(m, i) => auction[i] = "open" /\ AttemptIn(m, i) = round[i]
  <2> SUFFICES ASSUME NEW i \in Ids, Mentions(m, i)
               PROVE  auction[i] = "open" /\ AttemptIn(m, i) = round[i]
    OBVIOUS
  <2>1. auction[i] = "open"
    BY <1>1, <1>2 DEF CallsInv
  <2> QED BY <1>1, <1>2, <1>3, <2>1, ReadsLast
<1>7. ASSUME NEW i \in Ids, ~About(m, i)
      PROVE  /\ HasBid(i)' <=> HasBid(i)
             /\ (HasBid(i) => commitments'[i] = commitments[i])
             /\ \A r \in responses' : r.id # i
  BY <1>4, <1>7 DEF ReadsAs, SameBid, HasBid, In, About
<1>8. ASSUME NEW i \in Ids, ~About(m, i) PROVE Asked(i)' => Asked(i)
  BY <1>2, <1>7, <1>8 DEF Asked, BidSent, BidToSend, IsBid
<1> HIDE DEF m
<1>9. ConnectionInv'
  <2>1. RegisterAt' = RegisterAt
    BY <1>2 DEF RegisterAt
  <2> QED BY <1>1, <1>2, <1>3, <2>1 DEF ConnectionInv
<1>10. CallsInv'
  <2>1. ASSUME NEW i \in Ids, NEW j \in 1..Len(down'), NEW l \in 1..Len(down'),
               j < l, Mentions(down'[j], i)
        PROVE  ~About(down'[l], i)
    <3>1. j + 1 < l + 1
      BY <1>2, <2>1
    <3> QED BY <1>1, <1>2, <2>1, <3>1 DEF CallsInv
  <2>2. ASSUME NEW i \in Ids, auction[i] # "open"
        PROVE  offer[i] = None /\ \A k \in 1..Len(down') : ~Mentions(down'[k], i)
    BY <1>1, <1>2, <2>2 DEF CallsInv
  <2> QED BY <1>2, <2>1, <2>2 DEF CallsInv
<1>11. BidsInv'
  <2>1. ASSUME NEW i \in Ids, auction[i] # "open", HasFeed => auction[i] = "idle", Voice(i)'
        PROVE  FALSE
    <3>1. ~Voice(i)
      BY <1>1, <2>1 DEF BidsInv
    <3>2. Mentions(m, i)
      BY <1>2, <1>4, <2>1, <3>1 DEF Voice, BidSent, ReadsAs
    <3> QED BY <1>6, <2>1, <3>2
  <2>2. ASSUME NEW i \in Ids, auction[i] = "open", Asked(i)' PROVE Bidding(i)'
    <3>1. CASE ~About(m, i)
      <4>1. Bidding(i)
        BY <1>1, <1>3, <1>8, <2>2, <3>1 DEF BidsInv
      <4> QED BY <1>2, <1>7, <3>1, <4>1 DEF Bidding
    <3>2. CASE About(m, i)
      <4>1. BidToSend(i)'
        BY <1>2, <1>5, <2>2, <3>2 DEF Asked, BidSent
      <4>2. HasBid(i)' /\ Mentions(m, i)
        BY <1>1, <1>4, <4>1 DEF ResponsesCurrent, BidToSend, IsBid, HasBid, ReadsAs
      <4>3. commitments'[i].attempt = round[i]
        BY <1>4, <1>6, <4>2 DEF ReadsAs
      <4> QED BY <1>2, <4>2, <4>3 DEF Bidding
    <3> QED BY <3>1, <3>2
  <2>3. ASSUME NEW i \in Ids, auction[i] = "open", Bidding(i)', NEW k \in 1..Len(down')
        PROVE  ~About(down'[k], i)
    <3>1. k + 1 \in 1..Len(down) /\ 1 < k + 1 /\ down'[k] = down[k + 1]
      BY <1>2
    <3>2. CASE ~About(m, i)
      <4>1. Bidding(i)
        BY <1>2, <1>7, <2>3, <3>2 DEF Bidding
      <4> QED BY <1>1, <2>3, <3>1, <4>1 DEF BidsInv
    <3>3. CASE About(m, i)
      <4>1. Mentions(m, i)
        BY <1>4, <2>3, <3>3 DEF ReadsAs, Bidding
      <4> QED BY <1>1, <1>2, <3>1, <4>1 DEF CallsInv, m
    <3> QED BY <3>2, <3>3
  <2> QED BY <1>2, <2>1, <2>2, <2>3 DEF BidsInv
<1>12. OffersInv'
  <2>1. \A i : ~BidToSend(i)
    BY <1>3 DEF BidToSend
  <2>2. ASSUME ChangesAnnounced, NEW i \in Ids, NEW k \in 1..Len(up),
               auction[i] = "open", LastBid(k, i)
        PROVE  ~About(m, i) /\ Tracked(i, up[k].bid)
    <3>1. Asked(i)
      BY <2>2 DEF Asked, BidSent, LastBid
    <3> QED BY <1>1, <1>3, <1>5, <2>1, <2>2, <3>1 DEF OffersInv
  <2>3. ASSUME ChangesAnnounced, NEW i \in Ids, offer[i] # None, ~BidSent(i)
        PROVE  ~About(m, i) /\ Tracked(i, offer[i])
    <3>1. Asked(i) /\ auction[i] = "open"
      BY <1>1, <2>3 DEF Asked, CallsInv
    <3> QED BY <1>1, <1>5, <2>1, <2>3, <3>1 DEF OffersInv
  <2>4. ASSUME NEW i \in Ids, NEW b, ~About(m, i), Tracked(i, b)
        PROVE  HasBid(i)' /\ commitments'[i].bid = b
    BY <1>7, <2>4 DEF Tracked
  <2>5. ASSUME ChangesAnnounced, NEW i \in Ids, NEW k \in 1..Len(up),
               auction[i] = "open", LastBid(k, i)'
        PROVE  Tracked(i, up[k].bid)'
    <3>1. LastBid(k, i)
      BY <1>2, <2>5 DEF LastBid
    <3>2. HasBid(i)' /\ commitments'[i].bid = up[k].bid
      BY <2>2, <2>4, <2>5, <3>1
    <3> QED BY <1>2, <3>2 DEF Tracked
  <2>6. ASSUME ChangesAnnounced, NEW i \in Ids, offer[i] # None, ~BidSent(i)'
        PROVE  Tracked(i, offer[i])'
    <3>1. ~BidSent(i)
      BY <1>2, <2>6 DEF BidSent
    <3>2. HasBid(i)' /\ commitments'[i].bid = offer[i]
      BY <2>3, <2>4, <2>6, <3>1
    <3> QED BY <1>2, <3>2 DEF Tracked
  <2> QED BY <1>2, <2>5, <2>6 DEF OffersInv
<1>13. AcceptsInv'
  <2> SUFFICES ASSUME NEW k \in 1..Len(down'), down'[k].type = "ACCEPT"
               PROVE  /\ HasBid(down[k].id)'
                      /\ \A j \in 1..(k - 1) : ~About(down'[j], down'[k].id)
    BY DEF AcceptsInv
  <2>1. k + 1 \in 1..Len(down) /\ down'[k] = down[k + 1] /\ 1 \in 1..((k + 1) - 1)
    BY <1>2
  <2>2. PICK i \in Ids : i = down[k + 1].id
    BY <1>1, <2>1, AcceptId DEF NetTypeInv
  <2>3. HasBid(i) /\ \A j \in 1..((k + 1) - 1) : ~About(down[j], i)
    BY <1>1, <2>1, <2>2 DEF AcceptsInv
  <2>4. HasBid(i)'
    BY <1>7, <2>1, <2>3 DEF m
  <2>5. ASSUME NEW j \in 1..(k - 1) PROVE ~About(down'[j], i)
    <3>1. j \in 1..Len(down') /\ j + 1 \in 1..((k + 1) - 1)
      BY <1>2
    <3> QED BY <1>2, <2>3, <3>1
  <2> QED BY <2>1, <2>2, <2>4, <2>5 DEF HasBid
<1>14. ResultsInv'
  <2> SUFFICES ASSUME ~HasFeed PROVE ResultsInv'
    BY DEF ResultsInv
  <2>1. ASSUME NEW i \in Ids, auction[i] = "ours", commitments'[i] # None
        PROVE  commitments'[i].attempt = round[i]
    <3>1. AttemptKept(commitments, commitments', i)
      BY <1>4, <1>6, <2>1 DEF ReadsAs
    <3> QED BY <1>1, <2>1, <3>1 DEF AttemptKept, ResultsInv
  <2> QED BY <1>1, <1>2, <2>1 DEF ResultsInv
<1> QED BY <1>9, <1>10, <1>11, <1>12, <1>13, <1>14 DEF ExchangeInv

-----------------------------------------------------------------------------
(* The theorems.                                                           *)

LEMMA ExchangeStep ==
  ASSUME PromptBidding, NoLateRevision
  PROVE  CorrectInv /\ ExchangeInv /\ [NetNext]_allVars => ExchangeInv'
<1> SUFFICES ASSUME CorrectInv, ExchangeInv, [NetNext]_allVars PROVE ExchangeInv'
  OBVIOUS
<1>1. CorrectInv' /\ NetTypeInv' /\ NetTypeInv /\ OrderInv
  <2>1. CorrectInv'
    BY CorrectStep
  <2> QED BY <2>1 DEF CorrectInv, NetInv
<1>2. CASE UNCHANGED allVars
  <2>1. UNCHANGED <<mgrVars, netVars, registered, commitments, responses>>
    BY <1>2 DEF allVars, vars
  <2>2. \A i \in Ids : AttemptKept(commitments, commitments', i) /\ (HasBid(i) => HasBid(i)')
    BY <2>1 DEF AttemptKept, HasBid, In
  <2>3. \A i \in Ids : ~BidToSend(i)' => ~BidToSend(i)
    BY <2>1 DEF BidToSend
  <2> QED BY <1>1, <2>1, <2>2, <2>3, KeptExchange
<1> QED BY <1>1, <1>2, LocalExchange, WriteExchange, DropExchange, ReceiveExchange, TakeExchange,
           AnnounceExchange, AwardExchange, ContractEndExchange DEF NetNext

LEMMA InitExchange == NetInit => ExchangeInv
<1> SUFFICES ASSUME NetInit PROVE ExchangeInv
  OBVIOUS
<1>1. /\ DOMAIN up = {} /\ Len(up) = 0 /\ Len(down) = 0 /\ known = FALSE /\ registered = FALSE
      /\ responses = {}
      /\ \A i \in Ids : commitments[i] = None /\ offer[i] = None /\ auction[i] = "idle"
  BY EmptySeq DEF NetInit, Init, MgrInit, NoCommitments
<1>2. ConnectionInv
  BY <1>1 DEF ConnectionInv, RegisterAt
<1>3. CallsInv /\ AcceptsInv /\ OffersInv /\ ResultsInv
  BY <1>1 DEF CallsInv, AcceptsInv, OffersInv, ResultsInv
<1>4. BidsInv
  BY <1>1 DEF BidsInv, Voice, BidSent
<1> QED BY <1>2, <1>3, <1>4 DEF ExchangeInv

THEOREM ExchangeCorrect ==
  ASSUME PromptBidding, NoLateRevision
  PROVE  NetSpec => []ExchangeInv
  BY InitExchange, ExchangeStep, NetCorrectness, PTL DEF NetSpec

\* An award finds the bid it was made on: whatever the client reads, revises, finishes
\* or loses between PROPOSE and ACCEPT_PROPOSAL, it is still tracking a bid for the very
\* attempt awarded when it reads the award, however many connections have failed.
THEOREM AwardsAreHandled ==
  ASSUME PromptBidding, NoLateRevision
  PROVE  NetSpec => []AwardsHandled
<1>1. CorrectInv /\ ExchangeInv => AwardsHandled
  <2> SUFFICES ASSUME CorrectInv, ExchangeInv, down # <<>>, Head(down).type = "ACCEPT"
               PROVE  /\ In(commitments, Head(down).id, {"Pending"})
                      /\ <<Head(down).id, commitments[Head(down).id].attempt>> \in awards
    BY DEF AwardsHandled
  <2>1. /\ down \in Seq(DownMessages) /\ LinkInv /\ AcceptsInv
    BY DEF CorrectInv, NetInv, NetTypeInv, ExchangeInv
  <2>2. 1 \in 1..Len(down) /\ Head(down) = down[1]
    BY <2>1, HeadTailProperties, LenProperties, EmptySeq
  <2>3. HasBid(down[1].id)
    BY <2>1, <2>2 DEF AcceptsInv
  <2>4. PICK a \in Attempts : /\ <<down[1].id, a>> \in awards
                              /\ Tracks(commitments, down, 1, down[1].id, a)
    BY <2>1, <2>2 DEF LinkInv, AcceptsMatch
  <2>5. \A j \in 1..(1 - 1) : FALSE
    OBVIOUS
  <2>6. commitments[down[1].id].attempt = a
    BY <2>3, <2>4, <2>5 DEF Tracks, HasBid
  <2> QED BY <2>2, <2>3, <2>4, <2>6 DEF HasBid
<1> QED BY <1>1, ExchangeCorrect, NetCorrectness, PTL

\* The offer the manager would award is the bid the client will be held to: while
\* nothing about the task is on its way, the standing proposal is the bid tracked.
THEOREM OffersAgree ==
  ASSUME PromptBidding, NoLateRevision, ChangesAnnounced
  PROVE  NetSpec => []OfferAgreed
<1>1. CorrectInv /\ ExchangeInv => OfferAgreed
  <2> SUFFICES ASSUME CorrectInv, ExchangeInv, NEW i \in Ids, offer[i] # None, ~Undecided(i)
               PROVE  In(commitments, i, {"Pending"}) /\ commitments[i].bid = offer[i]
    BY DEF OfferAgreed
  <2>1. NetTypeInv /\ OffersInv
    BY DEF CorrectInv, NetInv, ExchangeInv
  <2>2. ~BidToSend(i) /\ ~BidSent(i)
    BY <2>1, Lengths DEF Undecided, BidToSend, BidSent, IsBid
  <2> QED BY <2>1, <2>2 DEF OffersInv, Tracked, HasBid
<1> QED BY <1>1, ExchangeCorrect, NetCorrectness, PTL

\* INFORM and FAILURE name no attempt, yet the manager never settles one attempt of a
\* task by the result of another, whatever failed connections leave on the wire.
THEOREM ResultsMatch ==
  ASSUME PromptBidding, NoLateRevision
  PROVE  NetSpec => []ResultsForThisAttempt
<1>1. CorrectInv /\ ExchangeInv => ResultsForThisAttempt
  <2> SUFFICES ASSUME CorrectInv, ExchangeInv, NEW k \in DOMAIN up,
                      up[k].type \in {"INFORM", "FAILURE"}, auction[up[k].id] = "ours"
               PROVE  up[k].attempt = round[up[k].id]
    BY DEF ResultsForThisAttempt
  <2>1. NetTypeInv /\ ResultsInv
    BY DEF CorrectInv, NetInv, ExchangeInv
  <2>2. k \in 1..Len(up) /\ up[k] \in Results
    <3>1. k \in 1..Len(up) /\ up[k] \in UpMessages
      BY <2>1, Lengths
    <3> QED BY <3>1 DEF UpMessages, Register, Responses
  <2>3. up[k].id \in Ids /\ up[k].attempt \in Attempts
    BY <2>2 DEF Results
  <2>4. CASE HasFeed
    <3>1. Attempts = {1} /\ round[up[k].id] \in Attempts
      BY <2>1, <2>3, <2>4 DEF NoLateRevision, NetTypeInv, RoundsExist
    <3> QED BY <2>3, <3>1
  <2>5. CASE ~HasFeed
    BY <2>1, <2>2, <2>3, <2>5 DEF ResultsInv, IsResult
  <2> QED BY <2>4, <2>5
<1> QED BY <1>1, ExchangeCorrect, NetCorrectness, PTL

-----------------------------------------------------------------------------
(* No completed result is merely lost while the connection stays up.       *)

\* After the step, a completed task has its result in the outbox, unless it was
\* completed before and its result had already left.
ResultKept(i) ==
  In(commitments', i, {"Complete"}) =>
    \/ PostedAt(outbox, i)' # {}
    \/ commitments'[i] = commitments[i] /\ PostedAt(outbox, i) = {}

LEMMA UnpostedKept ==
  ASSUME UNCHANGED outbox, NEW i \in Ids,
         In(commitments', i, {"Complete"}) => commitments'[i] = commitments[i]
  PROVE  ResultKept(i)
  BY DEF ResultKept, PostedAt

LEMMA WithoutPosted ==
  ASSUME NEW o \in Seq(Results), NEW i \in Ids, NEW j \in Ids, i # j, PostedAt(o, i) # {}
  PROVE  PostedAt(Without(o, PostedAt(o, j)), i) # {}
<1> DEFINE K == PostedAt(o, j)
           p == Without(o, K)
<1>1. PICK l \in 1..Len(o) : o[l].id = i
  BY LenProperties DEF PostedAt
<1>2. CASE K = {}
  BY <1>2 DEF Without
<1>3. CASE K # {}
  <2>1. PICK k \in 1..Len(o) : o[k].id = j /\ p = RemoveAt(o, k)
    <3>1. K \subseteq 1..Len(o)
      BY LenProperties DEF PostedAt
    <3> QED BY <1>3, <3>1 DEF Without, PostedAt
  <2> HIDE DEF p
  <2>2. /\ p \in Seq(Results) /\ Len(p) = Len(o) - 1
        /\ \A x \in 1..(Len(o) - 1) : p[x] = IF x < k THEN o[x] ELSE o[x + 1]
    BY <2>1, RemoveAtProperties
  <2>3. DOMAIN p = 1..(Len(o) - 1) /\ l # k /\ Len(o) \in Nat
    BY <1>1, <2>1, <2>2, LenProperties
  <2>4. PICK x \in DOMAIN p : p[x] = o[l]
    <3>1. CASE l < k
      <4>1. l \in DOMAIN p /\ p[l] = o[l]
        BY <2>2, <2>3, <3>1
      <4> QED BY <4>1
    <3>2. CASE k < l
      <4>1. l - 1 \in DOMAIN p /\ ~(l - 1 < k) /\ (l - 1) + 1 = l
        BY <2>3, <3>2
      <4>2. p[l - 1] = o[l]
        BY <2>2, <2>3, <4>1
      <4> QED BY <4>1, <4>2
    <3> QED BY <2>3, <3>1, <3>2
  <2>5. x \in PostedAt(p, i)
    BY <1>1, <2>4 DEF PostedAt
  <2> QED BY <2>5 DEF p
<1> QED BY <1>2, <1>3

LEMMA ConsiderResults ==
  ASSUME TypeInv, NEW offers, NEW choice, Consider(offers, choice), NEW i \in Ids
  PROVE  ResultKept(i)
<1>1. commitments' = Proposed(commitments, offers, choice) /\ UNCHANGED outbox
  BY DEF Consider
<1>2. CASE i \notin Considered(commitments, offers)
  BY <1>1, <1>2, UnpostedKept DEF Proposed
<1>3. CASE i \in Considered(commitments, offers)
  <2>1. \/ commitments'[i] = None
        \/ commitments'[i].stage = "Pending"
    BY <1>1, <1>3 DEF Proposed
  <2> QED BY <1>1, <2>1, UnpostedKept DEF In
<1> QED BY <1>2, <1>3

LEMMA FinishResults ==
  ASSUME Inv, NEW type \in {"INFORM", "FAILURE"}, FinishWork(type), NEW i \in Ids
  PROVE  ResultKept(i)
<1>1. /\ commitments \in [Ids -> Commitments \cup {None}] /\ queue \in Seq(Ids)
      /\ QueueMatches(commitments, queue) /\ outbox \in Seq(Results)
      /\ active # None /\ active \in Work /\ None \in Work \cup {None}
      /\ TypeOK /\ ContractInv
  BY DEF Inv, TypeInv, TypeOK, ContractInv, QueueIsAwards, FinishWork
<1>2. CASE Ours(active) /\ StartNext(Completed(commitments, active.id, type), queue, None)
            /\ outbox' = Append(outbox, [type |-> type, id |-> active.id,
                                          attempt |-> active.attempt])
  <2> DEFINE t == active.id
             c == Completed(commitments, t, type)
             r == [type |-> type, id |-> t, attempt |-> active.attempt]
  <2>1. /\ t \in Ids /\ c \in [Ids -> Commitments \cup {None}] /\ QueueMatches(c, queue)
        /\ \A j \in Ids : j # t => c[j] = commitments[j]
    BY <1>1, <1>2, CompletedMatches
  <2>2. r \in Results /\ outbox' = Append(outbox, r)
    BY <1>1, <1>2, <2>1 DEF Work, Results
  <2>4. StartNext(c, queue, None)
    BY <1>2
  <2> HIDE DEF c, r, t
  <2>5. commitments'[i] = c[i] \/ In(commitments', i, {"Running"})
    BY <1>1, <2>1, <2>4, StartNextSameBid
  <2>6. CASE i = t
    <3>1. Len(outbox) + 1 \in DOMAIN outbox' /\ outbox'[Len(outbox) + 1] = r
      BY <1>1, <2>2, AppendProperties, LenProperties
    <3>2. Len(outbox) + 1 \in PostedAt(outbox, i)'
      BY <2>6, <3>1 DEF PostedAt, r
    <3> QED BY <3>2 DEF ResultKept
  <2>7. CASE i # t
    <3>1. In(commitments', i, {"Complete"}) => commitments'[i] = commitments[i]
      BY <2>1, <2>5, <2>7 DEF In
    <3>2. ASSUME PostedAt(outbox, i) # {} PROVE PostedAt(outbox, i)' # {}
      <4>1. PICK k \in DOMAIN outbox : outbox[k].id = i
        BY <3>2 DEF PostedAt
      <4>2. k \in DOMAIN outbox' /\ outbox'[k] = outbox[k]
        BY <1>1, <2>2, <4>1, AppendProperties, LenProperties
      <4> QED BY <4>1, <4>2 DEF PostedAt
    <3> QED BY <3>1, <3>2 DEF ResultKept
  <2> QED BY <2>6, <2>7
<1>3. CASE StartNext(commitments, queue, None) /\ UNCHANGED outbox
  <2>1. commitments'[i] = commitments[i] \/ In(commitments', i, {"Running"})
    BY <1>1, <1>3, StartNextSameBid
  <2> QED BY <1>3, <2>1, UnpostedKept DEF In
<1> QED BY <1>2, <1>3 DEF FinishWork

LEMMA LocalResults ==
  ASSUME CorrectInv, NetLocal, NEW i \in Ids
  PROVE  ResultKept(i)
<1>1. Inv /\ commitments \in [Ids -> Commitments \cup {None}]
  BY DEF CorrectInv, Inv, TypeInv, TypeOK
<1>2. ASSUME NEW type \in {"INFORM", "FAILURE"}, FinishWork(type) PROVE ResultKept(i)
  BY <1>1, <1>2, FinishResults
<1>3. ASSUME NEW s \in Snapshots \cup {None}, NEW choice \in Decisions, MarketChanges(s, choice)
      PROVE  ResultKept(i)
  <2>1. /\ UNCHANGED outbox
        /\ commitments' = Repriced(commitments, s, choice) \/ UNCHANGED commitments
    BY <1>3 DEF MarketChanges
  <2>2. CASE i \in Moved(commitments, s) /\ choice[i] # None /\ commitments' = Repriced(commitments, s, choice)
    <3>1. commitments[i] \in Commitments /\ commitments[i].stage = "Pending"
      BY <1>1, <2>2 DEF Moved, In
    <3>2. commitments'[i] = [commitments[i] EXCEPT !.bid = choice[i], !.score = s[i]]
      BY <2>2 DEF Repriced
    <3>3. commitments'[i].stage = "Pending"
      BY <3>1, <3>2 DEF Commitments
    <3> QED BY <2>1, <3>3, UnpostedKept DEF In
  <2>3. CASE ~(i \in Moved(commitments, s) /\ choice[i] # None /\ commitments' = Repriced(commitments, s, choice))
    <3>1. commitments'[i] = commitments[i]
      BY <2>1, <2>3 DEF Repriced
    <3> QED BY <2>1, <3>1, UnpostedKept
  <2> QED BY <2>2, <2>3
<1>4. CASE Launch \/ Connect \/ Retry \/ SaveLearning \/ MarketExpires
  <2>1. UNCHANGED <<commitments, outbox>>
    BY <1>4 DEF Launch, Connect, Retry, SaveLearning, MarketExpires
  <2> QED BY <2>1, UnpostedKept
<1> QED BY <1>2, <1>3, <1>4 DEF NetLocal, Local

LEMMA ReadResults ==
  ASSUME CorrectInv, NetReceive, NEW i \in Ids
  PROVE  ResultKept(i)
<1>1. /\ TypeInv /\ Inv /\ commitments \in [Ids -> Commitments \cup {None}]
      /\ outbox \in Seq(Results)
  BY DEF CorrectInv, Inv, TypeInv, TypeOK
<1>2. PICK m \in DownMessages : Receive(m)
  BY ReadAt DEF CorrectInv, NetInv
<1>3. CASE UNCHANGED vars
  <2>1. UNCHANGED <<commitments, outbox>>
    BY <1>3 DEF vars
  <2> QED BY <2>1, UnpostedKept
<1>4. ASSUME NEW offers, NEW choice, Consider(offers, choice) PROVE ResultKept(i)
  BY <1>1, <1>4, ConsiderResults
<1>5. CASE m.type = "ACCEPT" /\ AcceptProposal(m.id)
  <2> DEFINE c == [commitments EXCEPT ![m.id].stage = "Awarded"]
             q == Append(queue, m.id)
  <2>1. m.id \in Ids /\ In(commitments, m.id, {"Pending"}) /\ UNCHANGED outbox
    BY <1>2, <1>5 DEF DownMessages, AcceptProposal
  <2>2. /\ StartNext(c, q, active) /\ TypeOK /\ ContractInv
        /\ commitments[m.id] \in Commitments /\ active \in Work \cup {None}
    BY <1>1, <1>5, <2>1 DEF AcceptProposal, Inv, TypeInv, TypeOK, In
  <2>3. /\ c \in [Ids -> Commitments \cup {None}] /\ q \in Seq(Ids)
        /\ c[m.id].stage = "Awarded" /\ \A t \in Ids : t # m.id => c[t] = commitments[t]
    BY <1>1, <2>1, <2>2, AppendProperties DEF TypeOK, Commitments, Stages
  <2>4. QueueMatches(c, q)
    BY <2>1, <2>2, AppendMatches DEF ContractInv, QueueIsAwards, TypeOK
  <2> HIDE DEF c, q
  <2>5. commitments'[i] = c[i] \/ In(commitments', i, {"Running"})
    BY <2>2, <2>3, <2>4, StartNextSameBid
  <2>6. In(commitments', i, {"Complete"}) => commitments'[i] = commitments[i]
    BY <2>3, <2>5 DEF In
  <2> QED BY <2>1, <2>6, UnpostedKept
<1>6. CASE m.type = "REJECT" /\ BidDeclined(m.id)
  <2>1. commitments' = [commitments EXCEPT ![m.id] = None] /\ UNCHANGED outbox
    BY <1>6 DEF BidDeclined
  <2>2. commitments'[i] = None \/ commitments'[i] = commitments[i]
    BY <1>1, <2>1
  <2> QED BY <2>1, <2>2, UnpostedKept DEF In
<1>7. CASE m.type = "SETTLED" /\ Settled(m.id, m.graded)
  <2>1. /\ commitments' = [commitments EXCEPT ![m.id] = None] /\ m.id \in Ids
        /\ outbox' = Without(outbox, PostedAt(outbox, m.id))
    BY <1>2, <1>7 DEF Settled, DownMessages
  <2>2. CASE i = m.id
    BY <1>1, <2>1, <2>2 DEF ResultKept, In
  <2>3. CASE i # m.id
    <3>1. commitments'[i] = commitments[i]
      BY <1>1, <2>1, <2>3
    <3>2. PostedAt(outbox, i) # {} => PostedAt(outbox', i) # {}
      BY <1>1, <2>1, <2>3, WithoutPosted
    <3>3. PostedAt(outbox, i)' = PostedAt(outbox', i)
      BY DEF PostedAt
    <3> QED BY <3>1, <3>2, <3>3 DEF ResultKept
  <2> QED BY <2>2, <2>3
<1> QED BY <1>2, <1>3, <1>4, <1>5, <1>6, <1>7 DEF Receive, Registered, Cfp

\* ResultsSafe, said of one task.
Safe(i) ==
  Outstanding(i) /\ In(commitments, i, {"Complete"}) =>
    PostedAt(outbox, i) # {} \/ \E k \in DOMAIN up : IsResult(up[k], i)

LEMMA KeptSafe ==
  ASSUME NEW i \in Ids, Safe(i), ResultKept(i), UNCHANGED <<auction, round, up>>
  PROVE  Safe(i)'
<1> SUFFICES ASSUME Outstanding(i)', In(commitments', i, {"Complete"}), PostedAt(outbox, i)' = {}
             PROVE  \E k \in DOMAIN up' : IsResult(up'[k], i)
  BY DEF Safe, In
<1>1. commitments'[i] = commitments[i] /\ PostedAt(outbox, i) = {}
  BY DEF ResultKept
<1>2. Outstanding(i) /\ In(commitments, i, {"Complete"})
  BY <1>1 DEF Outstanding, In
<1> QED BY <1>1, <1>2 DEF Safe

\* The manager awards an attempt only once: the client cannot have completed it before.
LEMMA AwardSafe ==
  ASSUME CorrectInv, NEW i \in Ids, NetAward(i), NEW j \in Ids, Safe(j)
  PROVE  Safe(j)'
<1>1. /\ UNCHANGED <<commitments, outbox, up, round>> /\ auction[i] = "open"
      /\ \A t \in Ids : t # i => auction'[t] = auction[t]
      /\ round[i] \in Attempts
  BY DEF NetAward, Award, vars, CorrectInv, NetInv, NetTypeInv, NetTypeOK, RoundsExist
<1>2. CASE j # i
  BY <1>1, <1>2 DEF Safe, Outstanding, In, PostedAt
<1>3. CASE j = i
  <2> SUFFICES ASSUME commitments[i] # None, commitments[i].attempt = round[i],
                      In(commitments, i, {"Complete"})
               PROVE  FALSE
    BY <1>1, <1>3 DEF Safe, Outstanding, In
  <2>1. <<i, round[i]>> \in awards
    BY DEF CorrectInv, NetInv, BooksInv, Awarded, In, Held
  <2>2. Over(i, round[i])
    BY <1>1, <2>1 DEF CorrectInv, OrderInv, PastInv
  <2>3. round[i] \in Nat
    BY <1>1, AttemptAssumption
  <2> QED BY <1>1, <2>2, <2>3 DEF Over
<1> QED BY <1>2, <1>3

\* A step of the manager that makes no contract.
LEMMA EndsSafe ==
  ASSUME UNCHANGED vars, UNCHANGED up, NEW j \in Ids, Safe(j),
         auction'[j] = "ours" => auction[j] = "ours" /\ round'[j] = round[j]
  PROVE  Safe(j)'
<1>1. UNCHANGED <<commitments, outbox>>
  BY DEF vars
<1> QED BY <1>1 DEF Safe, Outstanding, In, PostedAt

\* The manager reads a result that counts only by settling the contract.
LEMMA TakeSafe ==
  ASSUME CorrectInv, NetTake, NEW i \in Ids, Safe(i)
  PROVE  Safe(i)'
<1>1. NetTypeInv /\ auction \in [Ids -> Auctions]
  BY DEF CorrectInv, NetInv, NetTypeInv, NetTypeOK
<1>2. PICK m \in UpMessages :
        /\ m = Head(up) /\ m = up[1] /\ DOMAIN up = 1..Len(up) /\ Len(up) \in Nat
        /\ DOMAIN up' = 1..(Len(up) - 1) /\ \A k \in 1..(Len(up) - 1) : up'[k] = up[k + 1]
        /\ UNCHANGED <<commitments, outbox>>
  BY <1>1, TakenAt DEF vars
<1>3. /\ auction' = auction \/ auction' = [auction EXCEPT ![m.id] = "done"] \/ auction' = AfterFailure(m.id)
      /\ UNCHANGED round
      /\ IsResult(m, i) /\ auction[i] = "ours" => auction'[i] # "ours"
  <2>1. CASE m.type = "REGISTER"
    BY <1>2, <2>1 DEF NetTake, TakeRegister, mgrVars, IsResult
  <2>2. CASE m.type \in {"PROPOSE", "REFUSE"}
    BY <1>2, <2>2 DEF NetTake, TakeBid, TakeProposal, mgrVars, IsResult
  <2>3. CASE m.type \notin {"REGISTER", "PROPOSE", "REFUSE"}
    <3>1. TakeResult(m)
      BY <1>2, <2>3 DEF NetTake
    <3>2. CASE auction[m.id] # "ours"
      BY <3>1, <3>2 DEF TakeResult, mgrVars, IsResult
    <3>3. CASE auction[m.id] = "ours"
      <4>1. /\ auction' = [auction EXCEPT ![m.id] = "done"] \/ auction' = AfterFailure(m.id)
            /\ UNCHANGED round
        BY <3>1, <3>3 DEF TakeResult, Settle
      <4>2. IsResult(m, i) => auction'[i] # "ours"
        BY <1>1, <4>1 DEF AfterFailure, IsResult
      <4> QED BY <4>1, <4>2
    <3> QED BY <3>2, <3>3
  <2> QED BY <2>1, <2>2, <2>3
<1>4. auction'[i] = "ours" => auction[i] = "ours" /\ ~IsResult(m, i)
  BY <1>1, <1>3 DEF AfterFailure
<1> SUFFICES ASSUME Outstanding(i)', In(commitments', i, {"Complete"}), PostedAt(outbox, i)' = {}
             PROVE  \E k \in DOMAIN up' : IsResult(up'[k], i)
  BY DEF Safe, In
<1>5. Outstanding(i) /\ In(commitments, i, {"Complete"}) /\ PostedAt(outbox, i) = {}
  BY <1>2, <1>3, <1>4 DEF Outstanding, In, PostedAt
<1>6. PICK k \in DOMAIN up : IsResult(up[k], i)
  BY <1>5 DEF Safe
<1>7. k # 1
  BY <1>2, <1>4, <1>6 DEF Outstanding
<1>8. k - 1 \in 1..(Len(up) - 1) /\ (k - 1) + 1 = k
  BY <1>2, <1>7
<1>9. k - 1 \in DOMAIN up' /\ up'[k - 1] = up[k]
  BY <1>2, <1>8
<1> QED BY <1>6, <1>9

\* A result leaves the outbox for the wire.
LEMMA WriteSafe ==
  ASSUME CorrectInv, NetSendRegister \/ NetSendResponse \/ NetSendResult, NEW i \in Ids, Safe(i)
  PROVE  Safe(i)'
<1>1. NetTypeInv /\ outbox \in Seq(Results)
  BY DEF CorrectInv, NetInv, NetTypeInv, TypeInv, TypeOK
<1>2. UNCHANGED <<commitments, auction, round>>
  BY DEF NetSendRegister, NetSendResponse, NetSendResult, Written, SendRegister, SendResponse,
         SendResult, mgrVars
<1>3. PICK m : Written(m) /\ m \in UpMessages
  BY <1>1, WhatIsWritten
<1>4. /\ \A k \in DOMAIN up : k \in DOMAIN up' /\ up'[k] = up[k]
      /\ Len(up) + 1 \in DOMAIN up' /\ up'[Len(up) + 1] = m
  BY <1>1, <1>3, WrittenAt
<1> SUFFICES ASSUME Outstanding(i)', In(commitments', i, {"Complete"}), PostedAt(outbox, i)' = {}
             PROVE  \E k \in DOMAIN up' : IsResult(up'[k], i)
  BY DEF Safe, In
<1>5. Outstanding(i) /\ In(commitments, i, {"Complete"})
  BY <1>2 DEF Outstanding, In
<1>6. CASE PostedAt(outbox, i) = {}
  <2>1. PICK k \in DOMAIN up : IsResult(up[k], i)
    BY <1>5, <1>6 DEF Safe
  <2> QED BY <1>4, <2>1
<1>7. CASE PostedAt(outbox, i) # {}
  <2>1. outbox' # outbox
    BY <1>7 DEF PostedAt
  <2>2. NetSendResult
    BY <2>1 DEF NetSendRegister, NetSendResponse, SendRegister, SendResponse
  <2>3. outbox' = Tail(outbox) /\ up' = Append(up, Head(outbox))
    BY <2>2 DEF NetSendResult, SendResult, Written
  <2>4. PICK k \in 1..Len(outbox) : outbox[k].id = i
    BY <1>1, <1>7, LenProperties DEF PostedAt
  <2>5. outbox # <<>> /\ Head(outbox) \in Results /\ Head(outbox) = outbox[1] /\ Len(outbox) \in Nat
    BY <1>1, <2>4, HeadTailProperties, LenProperties, EmptySeq
  <2>6. CASE k = 1
    <3>1. IsResult(Head(outbox), i)
      BY <2>4, <2>5, <2>6 DEF Results, IsResult
    <3>2. Head(outbox) \in UpMessages /\ up \in Seq(UpMessages)
      BY <1>1, <2>5 DEF UpMessages, NetTypeInv
    <3>3. up'[Len(up) + 1] = Head(outbox)
      BY <2>3, <3>2, AppendProperties
    <3> QED BY <1>4, <3>1, <3>3
  <2>7. CASE k # 1
    <3>1. k - 1 \in 1..(Len(outbox) - 1) /\ (k - 1) + 1 = k
      BY <2>4, <2>5, <2>7
    <3>2. k - 1 \in DOMAIN outbox' /\ outbox'[k - 1] = outbox[k]
      BY <1>1, <2>3, <2>5, <3>1, HeadTailProperties, LenProperties
    <3>3. k - 1 \in PostedAt(outbox, i)'
      BY <2>4, <3>2 DEF PostedAt
    <3> QED BY <3>3
  <2> QED BY <2>6, <2>7
<1> QED BY <1>6, <1>7

LEMMA SafeStep ==
  ASSUME CorrectInv, [NetNext]_allVars, drops' = 0, NEW j \in Ids, drops = 0 => Safe(j)
  PROVE  Safe(j)'
<1>1. drops \in Nat /\ auction \in [Ids -> Auctions]
  BY NetAssumption DEF CorrectInv, NetInv, NetTypeInv, NetTypeOK
<1>2. ~Drop
  BY <1>1 DEF Drop
<1>3. drops = 0
  BY <1>2 DEF NetNext, allVars, netVars, NetLocal, NetSendRegister, NetSendResponse, NetSendResult,
       Written, NetReceive, NetTake, NetAnnounce, NetAward, NetAwardRival, NetRivalEnds, NetTimeout
<1>4. CASE UNCHANGED allVars
  BY <1>3, <1>4, EndsSafe DEF allVars, netVars, mgrVars
<1>5. CASE NetLocal
  <2>1. UNCHANGED <<auction, round, up>>
    BY <1>5 DEF NetLocal, mgrVars, netVars
  <2> QED BY <1>3, <1>5, <2>1, LocalResults, KeptSafe
<1>6. CASE NetReceive
  <2>1. UNCHANGED <<auction, round, up>>
    BY <1>6 DEF NetReceive, mgrVars
  <2> QED BY <1>3, <1>6, <2>1, ReadResults, KeptSafe
<1>7. CASE NetTake
  BY <1>3, <1>7, TakeSafe
<1>8. CASE NetSendRegister \/ NetSendResponse \/ NetSendResult
  BY <1>3, <1>8, WriteSafe
<1>9. ASSUME NEW i \in Ids, NetAward(i) PROVE Safe(j)'
  BY <1>3, <1>9, AwardSafe
<1>10. ASSUME NEW i \in Ids, NetAnnounce(i) \/ NetAwardRival(i) \/ NetRivalEnds(i) \/ NetTimeout(i)
       PROVE  Safe(j)'
  <2>1. /\ UNCHANGED vars /\ UNCHANGED up
        /\ auction'[j] = "ours" => auction[j] = "ours" /\ round'[j] = round[j]
    <3>1. CASE NetAnnounce(i)
      BY <1>1, <3>1 DEF NetAnnounce, Announce
    <3>2. CASE NetAwardRival(i)
      BY <1>1, <3>2 DEF NetAwardRival, AwardRival
    <3>3. CASE NetRivalEnds(i)
      BY <1>1, <3>3 DEF NetRivalEnds, RivalEnds, AfterFailure, netVars
    <3>4. CASE NetTimeout(i)
      BY <1>1, <3>4 DEF NetTimeout, Settle, AfterFailure
    <3> QED BY <1>10, <3>1, <3>2, <3>3, <3>4
  <2> QED BY <1>3, <2>1, EndsSafe
<1> QED BY <1>2, <1>4, <1>5, <1>6, <1>7, <1>8, <1>9, <1>10 DEF NetNext

\* Only a failing connection can lose a completed result: as long as none has failed, a
\* result the manager still waits for is in the outbox or on its way, whatever is
\* settled, awarded or computed meanwhile.
THEOREM ResultsDelivered == NetSpec => [](drops = 0 => ResultsSafe)
<1> DEFINE AllSafe == drops = 0 => \A i \in Ids : Safe(i)
<1>1. NetInit => AllSafe
  <2>1. NetInit => \A i \in Ids : commitments[i] = None
    BY DEF NetInit, Init, NoCommitments
  <2> QED BY <2>1 DEF Safe, In
<1>2. CorrectInv /\ AllSafe /\ [NetNext]_allVars => AllSafe'
  BY SafeStep
<1>3. AllSafe => (drops = 0 => ResultsSafe)
  BY DEF Safe, ResultsSafe, IsResult
<1> QED BY <1>1, <1>2, <1>3, NetCorrectness, PTL DEF NetSpec

=============================================================================
