---------------------------- MODULE ContractNet ----------------------------
(***************************************************************************)
(* The client and the manager joined by a WebSocket: two FIFO channels     *)
(* that live as long as one connection.  When a connection ends, what is   *)
(* on its way to the client is lost; of what the client has written, a     *)
(* prefix still arrives.                                                   *)
(***************************************************************************)
EXTENDS Contractor

CONSTANTS MaxDrops,        \* connections that fail, and processes killed
          Buffer,          \* messages a connection holds before a writer waits
          PromptBidding    \* a bidding window outlasts the exchange of call and bid

ASSUME NetAssumption == /\ MaxDrops \in Nat /\ Buffer \in Nat \ {0}
                        /\ PromptBidding \in BOOLEAN

ASSUME AttemptAssumption == Attempts \subseteq Nat /\ 1 \in Attempts

VARIABLES auction, round, offer, awards   \* the manager's (Manager.tla)

INSTANCE Manager

VARIABLES up,      \* written by the client, not yet read by the manager
          down,    \* sent by the manager, not yet read by the client
          known,   \* the manager has registered the present connection
          drops    \* connections that have failed

mgrVars == <<auction, round, offer, awards>>
netVars == <<up, down, known, drops>>
allVars == <<vars, mgrVars, netVars>>

NetInit == Init /\ MgrInit /\ up = <<>> /\ down = <<>> /\ known = FALSE /\ drops = 0

-----------------------------------------------------------------------------
(* The client's steps.                                                     *)

\* A step that touches no connection.
Local == \/ Launch \/ Connect \/ Retry \/ SaveLearning \/ MarketExpires
         \/ \E type \in {"INFORM", "FAILURE"} : FinishWork(type)
         \/ \E s \in Snapshots \cup {None}, choice \in Decisions : MarketChanges(s, choice)

NetLocal == Local /\ UNCHANGED <<mgrVars, netVars>>

Register == [type |-> "REGISTER"]

Written(m) ==
  /\ Len(up) < Buffer
  /\ up' = Append(up, m)
  /\ UNCHANGED <<mgrVars, down, known, drops>>

NetSendRegister == SendRegister /\ Written(Register)
NetSendResponse == \E m \in responses : SendResponse(m) /\ Written(m)
\* (Fault: a result is removed without being written.)
NetSendResultLost == SendResult /\ UNCHANGED <<mgrVars, up, down, known, drops>>

NetSendResult == SendResult /\ Written(Head(outbox))

\* What a failed write may have put on the wire nevertheless.
HalfWritten == CASE pc = "respond" -> {<<m>> : m \in responses}
                 [] pc = "flush"   -> {<<Head(outbox)>>}
                 [] OTHER          -> {<<>>}

\* The REGISTER not yet read: a connection carries one, as its first message.
RegisterAt == {k \in DOMAIN up : up[k].type = "REGISTER"}

\* The manager never answers a REGISTER of a connection that has ended.
Drop ==
  /\ drops < MaxDrops
  /\ drops' = drops + 1
  /\ Disconnect \/ SendFails \/ (Interrupt /\ pc # "connect")
  /\ \E tail \in HalfWritten \cup {<<>>} :
       LET written == Without(up, RegisterAt) \o tail
       IN  \E k \in 0..Len(written) : up' = SubSeq(written, 1, k)
  /\ down' = <<>>
  /\ known' = FALSE
  /\ ForgetOffers

Receive(m) ==
  \/ m.type = "REGISTERED" /\ \E choice \in Decisions : Registered(m.open, choice)
  \/ m.type = "CFP" /\ \E choice \in Decisions : Cfp(m.id, m.attempt, choice)
  \/ m.type = "ACCEPT" /\ AcceptProposal(m.id)
  \/ m.type = "REJECT" /\ BidDeclined(m.id)
  \/ m.type \in {"ACCEPT", "REJECT"} /\ ~In(commitments, m.id, {"Pending"}) /\ UNCHANGED vars
  \/ m.type = "ERROR" /\ UNCHANGED vars
  \/ m.type = "SETTLED" /\ Settled(m.id, m.graded)

NetReceive ==
  /\ pc = "select"
  /\ down # <<>>
  /\ Receive(Head(down))
  /\ down' = Tail(down)
  /\ UNCHANGED <<mgrVars, up, known, drops>>

-----------------------------------------------------------------------------
(* The manager's steps.                                                    *)

\* A message to a contractor without a registered connection is lost.
Tell(m) == down' = IF known THEN Append(down, m) ELSE down

NetAnnounce(i) ==
  /\ Announce(i)
  /\ Tell([type |-> "CFP", id |-> i, attempt |-> round'[i]])
  /\ UNCHANGED <<vars, up, known, drops>>

\* The client has still to read the call, or its bid has still to arrive.
Undecided(i) ==
  \/ \E k \in DOMAIN down : \/ down[k].type = "CFP" /\ down[k].id = i
                            \/ down[k].type = "REGISTERED" /\ i \in DOMAIN down[k].open
  \/ \E m \in responses : m.id = i
  \/ \E k \in DOMAIN up : up[k].type = "PROPOSE" /\ up[k].id = i

NetAward(i) ==
  /\ PromptBidding => ~Undecided(i)
  /\ known
  /\ Award(i)
  /\ Tell([type |-> "ACCEPT", id |-> i])
  /\ UNCHANGED <<vars, up, known, drops>>

NetAwardRival(i) ==
  /\ PromptBidding => ~Undecided(i)
  /\ AwardRival(i)
  /\ IF offer[i] # None THEN Tell([type |-> "REJECT", id |-> i]) ELSE UNCHANGED down
  /\ UNCHANGED <<vars, up, known, drops>>

NetRivalEnds(i) == RivalEnds(i) /\ UNCHANGED <<vars, netVars>>

Books(i, graded) == [type |-> "SETTLED", id |-> i, graded |-> graded]

\* Nothing arrived before the deadline plus grace.
NetTimeout(i) ==
  /\ Settle(i, FALSE)
  /\ Tell(Books(i, FALSE))
  /\ UNCHANGED <<vars, up, known, drops>>

\* The manager reads the next message of the client.
TakeRegister ==
  /\ known' = TRUE
  /\ down' = Append(down, [type |-> "REGISTERED", open |-> OpenCfps])
  /\ UNCHANGED mgrVars

\* A bid after the bidding has closed is answered with ERROR bidding_closed.
TakeBid(m) ==
  /\ IF m.type = "PROPOSE" /\ known THEN TakeProposal(m.id, m.bid) ELSE UNCHANGED mgrVars
  /\ IF m.type = "PROPOSE" /\ auction[m.id] # "open"
     THEN Tell([type |-> "ERROR", id |-> m.id]) ELSE UNCHANGED down
  /\ UNCHANGED known

\* INFORM is correct, late or wrong; FAILURE is a failure.  A result for a
\* contract we do not hold is answered with ERROR not_your_contract.
TakeResult(m) ==
  /\ IF auction[m.id] = "ours"
     THEN \E correct, graded \in BOOLEAN :
            /\ m.type = "FAILURE" => ~graded
            /\ correct => graded
            /\ Settle(m.id, correct)
            /\ Tell(Books(m.id, graded))
     ELSE UNCHANGED <<mgrVars, down>>
  /\ UNCHANGED known

NetTake ==
  /\ up # <<>> /\ Len(down) < Buffer
  /\ LET m == Head(up)
     IN  CASE m.type = "REGISTER"              -> TakeRegister
           [] m.type \in {"PROPOSE", "REFUSE"} -> TakeBid(m)
           [] OTHER                            -> TakeResult(m)
  /\ up' = Tail(up)
  /\ UNCHANGED <<vars, drops>>

-----------------------------------------------------------------------------

NetNext ==
  \/ NetLocal \/ NetSendRegister \/ NetSendResponse \/ NetSendResult
  \/ Drop \/ NetReceive \/ NetTake
  \/ \E i \in Ids : \/ NetAnnounce(i) \/ NetAward(i) \/ NetAwardRival(i)
                    \/ NetRivalEnds(i) \/ NetTimeout(i)

NetSpec == NetInit /\ [][NetNext]_allVars

\* Client: as Progress of Contractor.  Network: what is written is read, and
\* connection attempts do not fail forever.  Manager: bidding windows close;
\* nothing is assumed about its timeouts.
NetFairness ==
  /\ SF_allVars(NetLocal /\ \E type \in {"INFORM", "FAILURE"} : FinishWork(type))
  /\ SF_allVars(NetLocal /\ Connect /\ pc' = "register")
  /\ WF_allVars(NetLocal /\ (Retry \/ SaveLearning \/ Connect \/ Launch))
  /\ WF_allVars(NetSendRegister) /\ WF_allVars(NetSendResponse) /\ WF_allVars(NetSendResult)
  /\ SF_allVars(NetReceive) /\ WF_allVars(NetTake)
  /\ \A i \in Ids : WF_allVars(NetAward(i) \/ NetAwardRival(i))

LiveNetSpec == NetSpec /\ NetFairness

-----------------------------------------------------------------------------
(* Properties.                                                             *)

NetTypeOK ==
  /\ TypeOK
  /\ auction \in [Ids -> Auctions]
  /\ round \in [Ids -> Attempts \cup {0}]
  /\ offer \in [Ids -> Bids \cup {None}]
  /\ awards \subseteq Ids \X Attempts
  /\ known \in BOOLEAN
  /\ drops \in 0..MaxDrops

\* The client holds a contract only if the manager awarded that attempt to it.
HeldWereAwarded ==
  \A i \in Ids : In(commitments, i, Held) => <<i, commitments[i].attempt>> \in awards

\* The manager's contract with us and a result on its way to it are about the
\* same attempt, although neither INFORM nor ACCEPT_PROPOSAL names one.
ResultsForThisAttempt ==
  \A k \in DOMAIN up :
    up[k].type \in {"INFORM", "FAILURE"} /\ auction[up[k].id] = "ours"
      => up[k].attempt = round[up[k].id]

\* An award finds the client still tracking the bid, for the attempt awarded.
AwardsHandled ==
  pc = "select" /\ down # <<>> /\ Head(down).type = "ACCEPT" =>
    /\ In(commitments, Head(down).id, {"Pending"})
    /\ <<Head(down).id, commitments[Head(down).id].attempt>> \in awards

\* While nothing about a task is on its way, the offer the manager would award
\* is the bid the client tracks and will be held to.
OfferAgreed ==
  \A i \in Ids : offer[i] # None /\ ~Undecided(i) =>
    In(commitments, i, {"Pending"}) /\ commitments[i].bid = offer[i]

\* While the manager still has our contract, a completed result is in the
\* outbox or on its way: it is never merely lost.
Outstanding(i) == auction[i] = "ours" /\ commitments[i] # None
                    /\ commitments[i].attempt = round[i]
ResultsSafe ==
  \A i \in Ids : Outstanding(i) /\ In(commitments, i, {"Complete"}) =>
    \/ PostedAt(outbox, i) # {}
    \/ \E k \in DOMAIN up : up[k].type \in {"INFORM", "FAILURE"} /\ up[k].id = i

\* A contract is concluded by its result, without help from the deadline.
ContractsConclude == \A i \in Ids : auction[i] = "ours" ~> auction[i] # "ours"

\* A bid does not stay pending, and counted in queue_seconds, for ever.
BidsResolve == \A i \in Ids : In(commitments, i, {"Pending"}) ~> ~In(commitments, i, {"Pending"})
=============================================================================
