----------------------------- MODULE Contractor -----------------------------
(***************************************************************************)
(* The client of src/src/client.rs: struct Contractor, its run loop, its   *)
(* session loop, and its one serial worker.  The manager, the network and  *)
(* the bidding strategy are the environment: a handler takes the message   *)
(* it receives, and the strategy's decision, as parameters.                *)
(*                                                                         *)
(* The client is one asynchronous task.  pc names the await it is          *)
(* suspended at; everything between two awaits is one step.                *)
(*   connect   run, waiting for the TCP/WebSocket connection               *)
(*   register  session, writing REGISTER                                   *)
(*   select    session, in the select!                                     *)
(*   respond   session, writing the responses of one handler               *)
(*   flush     session, writing the outbox, front first                    *)
(*   save      session, waiting for the learning file to be written        *)
(*   backoff   run, sleeping before the next connection                    *)
(*   exited    the process is gone (ctrl-c, eviction or bad credentials)   *)
(***************************************************************************)
EXTENDS Naturals, Sequences, SequencesExt

CONSTANTS Ids,            \* task numbers
          Attempts,       \* attempt numbers of a task
          Prices, Ests,   \* prices and delivery estimates of a bid, in ticks
          EstStep,        \* the change of estimate worth announcing (0.0001 s)
          Scores,         \* values of a competitor's best score
          NoScore,        \* a snapshot has no valid competing bid for a task
          None,           \* an absent Option
          HasFeed,        \* a public market feed is configured
          LoopingRoom,    \* the room offers a closed (task, attempt) again
          WorkerCanStop   \* the worker's join handle can fail

Bids == [price: Prices, est: Ests]
Decisions == [Ids -> Bids \cup {None}]
Snapshots == IF HasFeed THEN [Ids -> Scores \cup {NoScore}] ELSE {}

Stages == {"Pending", "Awarded", "Running", "Complete"}
Commitments == [attempt: Attempts, bid: Bids, score: Scores \cup {NoScore},
                timed: BOOLEAN, stage: Stages]
Work == [id: Ids, attempt: Attempts]

\* The attempt of an INFORM or FAILURE is not on the wire: it records which
\* award the worker computed for.
Results == [type: {"INFORM", "FAILURE"}, id: Ids, attempt: Attempts]
Responses == [type: {"PROPOSE"}, id: Ids, bid: Bids] \cup
             [type: {"REFUSE"}, id: Ids]

Waits == {"connect", "select", "backoff"}
PCs == Waits \cup {"register", "respond", "flush", "save", "exited"}

ASSUME BidAssumption == Prices \subseteq Nat /\ Ests \subseteq Nat
ASSUME FlagAssumption == {HasFeed, LoopingRoom, WorkerCanStop} \subseteq BOOLEAN
ASSUME NoneAssumption == /\ None \notin Commitments
                         /\ None \notin Work
                         /\ None \notin Bids
                         /\ None \notin Snapshots
                         /\ None \notin [attempt: Attempts, stage: Stages]

VARIABLES pc,             \* where the client is suspended
          registered,     \* the session has received REGISTERED
          commitments,    \* task -> Commitment, or None
          queue,          \* awarded tasks waiting for the worker
          active,         \* what the worker computes, or None
          outbox,         \* results not yet written to a connection
          responses,      \* replies of the last handler not yet written
          market,         \* the latest snapshot while it is fresh, or None
          learningDirty,  \* an observation is not yet saved
          closed          \* history: (task, attempt) pairs settled with us

vars == <<pc, registered, commitments, queue, active, outbox, responses,
          market, learningDirty, closed>>

-----------------------------------------------------------------------------
(* Commitments.                                                            *)

In(c, i, stages) == c[i] # None /\ c[i].stage \in stages
Held == {"Awarded", "Running", "Complete"}

\* The positions of a sequence of task numbers, or of results, that name task i.
QueuedAt(q, i) == {k \in DOMAIN q : q[k] = i}
PostedAt(o, i) == {k \in DOMAIN o : o[k].id = i}

\* (Fault: nothing is removed.)
WithoutNothing(s, K) == s

\* retain(|x| not at a position of K); a task is queued and posted at most
\* once (QueueIsAwards, ResultsBacked), so K has at most one element.
Without(s, K) == IF K = {} THEN s ELSE RemoveAt(s, CHOOSE k \in K : TRUE)

\* (Faults: a pending bid is not considered again; the stage is not looked at.)
ConsideredOnce(c, offers) == {i \in DOMAIN offers : c[i] = None}
ConsideredAll(c, offers) == DOMAIN offers

\* propose() for every task of offers (a partial function from tasks to
\* attempts), deciding each by choice: only a task without a commitment, or
\* with a pending one, is considered; a refusal forgets the pending one.
Considered(c, offers) == {i \in DOMAIN offers : c[i] = None \/ In(c, i, {"Pending"})}

Proposed(c, offers, choice) ==
  [i \in Ids |->
     IF i \notin Considered(c, offers) THEN c[i]
     ELSE IF choice[i] = None THEN None
     ELSE [attempt |-> offers[i], bid |-> choice[i],
           score |-> IF market = None THEN NoScore ELSE market[i],
           timed |-> FALSE, stage |-> "Pending"]]

\* (Fault: a refusal is written as a proposal.)
ReplyProposes(i, bid) == [type |-> "PROPOSE", id |-> i, bid |-> bid]

Reply(i, bid) == IF bid = None THEN [type |-> "REFUSE", id |-> i]
                 ELSE [type |-> "PROPOSE", id |-> i, bid |-> bid]

Replies(c, offers, choice) == {Reply(i, choice[i]) : i \in Considered(c, offers)}

\* reprice_pending(): the pending bids whose valid competing score changed.
\* A refusal keeps the bid already sent; a change too small to announce
\* replaces the bid that is tracked and sends nothing.
Moved(c, s) == {i \in Ids : /\ In(c, i, {"Pending"})
                            /\ s # None
                            /\ s[i] \notin {NoScore, c[i].score}}

\* (Faults: a refusal forgets the bid already sent; the revised bid is sent and
\* the old one tracked.)
RepricedAway(c, s, choice) ==
  [i \in Ids |-> IF i \notin Moved(c, s) THEN c[i]
                 ELSE IF choice[i] = None THEN None
                 ELSE [c[i] EXCEPT !.bid = choice[i], !.score = s[i]]]
RepricedScore(c, s, choice) ==
  [i \in Ids |-> IF i \in Moved(c, s) THEN [c[i] EXCEPT !.score = s[i]] ELSE c[i]]

Repriced(c, s, choice) ==
  [i \in Ids |-> IF i \in Moved(c, s) /\ choice[i] # None
                 THEN [c[i] EXCEPT !.bid = choice[i], !.score = s[i]]
                 ELSE c[i]]

Distance(x, y) == IF x < y THEN y - x ELSE x - y

\* (Fault: a change of the estimate alone is not announced.)
AnnouncedPrice(old, new) == new.price # old.price

Announced(old, new) == \/ new.price # old.price
                       \/ Distance(new.est, old.est) >= EstStep

Revisions(c, s, choice) ==
  {Reply(i, choice[i]) : i \in {j \in Moved(c, s) : /\ choice[j] # None
                                                    /\ Announced(c[j].bid, choice[j])}}

\* (Fault: the retain() after a session is missing.)
EverythingKept(c) == c

\* After a session only contracts survive.
ContractsOnly(c) == [i \in Ids |-> IF In(c, i, {"Pending"}) THEN None ELSE c[i]]

-----------------------------------------------------------------------------
(* The worker.                                                             *)

\* (Fault: start_next() is not called.)
StartNextLater(c, q, w) == commitments' = c /\ queue' = q /\ active' = w

\* start_next() on commitments c, queue q and worker w: skip queued tasks
\* without a commitment, run the first one that has one.
StartNext(c, q, w) ==
  \/ /\ w # None
     /\ commitments' = c /\ queue' = q /\ active' = w
  \/ /\ w = None
     /\ \A k \in DOMAIN q : c[q[k]] = None
     /\ commitments' = c /\ queue' = <<>> /\ active' = None
  \/ /\ w = None
     /\ \E k \in DOMAIN q :
          /\ c[q[k]] # None
          /\ \A j \in 1..(k - 1) : c[q[j]] = None
          /\ commitments' = [c EXCEPT ![q[k]].stage = "Running"]
          /\ queue' = SubSeq(q, k + 1, Len(q))
          /\ active' = [id |-> q[k], attempt |-> c[q[k]].attempt]

\* (Faults: the observation, or the outbox, is left for later.)
AfterBranchUnsaved(reg, resp, out, dirty) ==
  IF resp # {} THEN "respond" ELSE IF reg /\ out # <<>> THEN "flush" ELSE "select"
AfterBranchUnsent(reg, resp, out, dirty) ==
  IF resp # {} THEN "respond" ELSE IF dirty THEN "save" ELSE "select"

\* The rest of an iteration of the session loop after a branch of the select!:
\* write the responses, then the outbox once registered, then save.
AfterBranch(reg, resp, out, dirty) ==
  IF resp # {} THEN "respond"
  ELSE IF reg /\ out # <<>> THEN "flush"
  ELSE IF dirty THEN "save"
  ELSE "select"

GoOn == pc' = AfterBranch(registered', responses', outbox', learningDirty')

-----------------------------------------------------------------------------
(* The run loop: a new process, connections, sessions, the end.            *)

NoCommitments == [i \in Ids |-> None]

\* Contractor::new, then run up to its first await.
Init ==
  /\ pc = "connect"
  /\ registered = FALSE
  /\ commitments = NoCommitments
  /\ queue = <<>>
  /\ active = None
  /\ outbox = <<>>
  /\ responses = {}
  /\ market = None
  /\ learningDirty = FALSE
  /\ closed = {}

\* The process ends and its memory with it; nothing waits for the worker.
Exit ==
  /\ pc' = "exited"
  /\ registered' = FALSE
  /\ commitments' = NoCommitments
  /\ queue' = <<>>
  /\ active' = None
  /\ outbox' = <<>>
  /\ responses' = {}
  /\ market' = None
  /\ learningDirty' = FALSE
  /\ UNCHANGED closed

Launch ==
  /\ pc = "exited"
  /\ pc' = "connect"
  /\ UNCHANGED <<registered, commitments, queue, active, outbox, responses,
                 market, learningDirty, closed>>

Interrupt == pc # "exited" /\ Exit

\* wait_with_work around connect: a socket, an error or a timeout.
Connect ==
  /\ pc = "connect"
  /\ pc' \in {"register", "backoff"}
  /\ UNCHANGED <<registered, commitments, queue, active, outbox, responses,
                 market, learningDirty, closed>>

Retry ==
  /\ pc = "backoff"
  /\ pc' = "connect"
  /\ UNCHANGED <<registered, commitments, queue, active, outbox, responses,
                 market, learningDirty, closed>>

\* session returns Disconnected or an error.
EndSession ==
  /\ pc' = "backoff"
  /\ registered' = FALSE
  /\ responses' = {}
  /\ commitments' = ContractsOnly(commitments)
  /\ UNCHANGED <<queue, active, outbox, market, learningDirty, closed>>

\* Close, a read error, the registration deadline or the keepalive.
Disconnect == pc = "select" /\ EndSession

\* A write fails or times out.
SendFails == pc \in {"register", "respond", "flush"} /\ EndSession

\* Close code 4001, or an ERROR with bad_token or bad_name: run returns.
Evicted == pc = "select" /\ Exit

SendRegister ==
  /\ pc = "register"
  /\ pc' = "select"
  /\ UNCHANGED <<registered, commitments, queue, active, outbox, responses,
                 market, learningDirty, closed>>

SendResponse(m) ==
  /\ pc = "respond"
  /\ m \in responses
  /\ responses' = responses \ {m}
  /\ UNCHANGED <<registered, commitments, queue, active, outbox, market,
                 learningDirty, closed>>
  /\ GoOn

\* The front result is removed only after its write succeeded.
SendResult ==
  /\ pc = "flush"
  /\ outbox' = Tail(outbox)
  /\ UNCHANGED <<registered, commitments, queue, active, responses, market,
                 learningDirty, closed>>
  /\ GoOn

\* The flag is cleared whether or not the file could be written.
SaveLearning ==
  /\ pc = "save"
  /\ pc' = "select"
  /\ learningDirty' = FALSE
  /\ UNCHANGED <<registered, commitments, queue, active, outbox, responses,
                 market, closed>>

-----------------------------------------------------------------------------
(* dispatch(): one action per kind of message.  REGISTERED makes the       *)
(* session registered; every other message is dropped before that.         *)

Offers == UNION {[S -> Attempts] : S \in SUBSET Ids}

\* A room that does not loop offers a settled attempt of a task never again.
Offerable(offers) ==
  LoopingRoom \/ \A i \in DOMAIN offers : <<i, offers[i]>> \notin closed

Consider(offers, choice) ==
  /\ Offerable(offers)
  /\ commitments' = Proposed(commitments, offers, choice)
  /\ responses' = Replies(commitments, offers, choice)
  /\ UNCHANGED <<queue, active, outbox, market, learningDirty, closed>>
  /\ GoOn

Registered(offers, choice) ==
  /\ pc = "select"
  /\ registered' = TRUE
  /\ Consider(offers, choice)

Cfp(i, attempt, choice) ==
  /\ pc = "select" /\ registered
  /\ UNCHANGED registered
  /\ Consider([j \in {i} |-> attempt], choice)

AcceptProposal(i) ==
  /\ pc = "select" /\ registered
  /\ In(commitments, i, {"Pending"})
  /\ StartNext([commitments EXCEPT ![i].stage = "Awarded"], Append(queue, i), active)
  /\ UNCHANGED <<registered, outbox, responses, market, learningDirty, closed>>
  /\ GoOn

\* (Fault: the rejected bid is kept.)
BidKept(i) == pc = "select" /\ registered /\ UNCHANGED vars

\* REJECT_PROPOSAL and BID_INVALID: remove_pending().
BidDeclined(i) ==
  /\ pc = "select" /\ registered
  /\ In(commitments, i, {"Pending"})
  /\ commitments' = [commitments EXCEPT ![i] = None]
  /\ UNCHANGED <<registered, queue, active, outbox, responses, market,
                 learningDirty, closed>>
  /\ GoOn

\* graded: the verdict is correct or late and the settlement has a runtime.
Settled(i, graded) ==
  /\ pc = "select" /\ registered
  /\ commitments' = [commitments EXCEPT ![i] = None]
  /\ learningDirty' = (learningDirty \/ (/\ commitments[i] # None
                                         /\ commitments[i].timed
                                         /\ graded))
  /\ closed' = IF commitments[i] = None THEN closed
               ELSE closed \cup {<<i, commitments[i].attempt>>}
  /\ queue' = Without(queue, QueuedAt(queue, i))
  /\ outbox' = Without(outbox, PostedAt(outbox, i))
  /\ UNCHANGED <<registered, active, responses, market>>
  /\ GoOn

-----------------------------------------------------------------------------
(* The worker and the market feed, served by wait_with_work and by the     *)
(* select! alike.                                                          *)

Continue == IF pc = "select" THEN GoOn ELSE pc' = pc

\* (Fault: the attempt of a finished task is not compared.)
OursById(w) == commitments[w.id] # None

Ours(w) == commitments[w.id] # None /\ commitments[w.id].attempt = w.attempt

\* (Fault: a failure leaves the contract running.)
CompletedResult(c, i, type) ==
  IF type = "INFORM" THEN [c EXCEPT ![i].stage = "Complete", ![i].timed = TRUE] ELSE c

Completed(c, i, type) ==
  [c EXCEPT ![i].stage = "Complete", ![i].timed = @ \/ type = "INFORM"]

FinishWork(type) ==
  /\ pc \in Waits
  /\ active # None
  /\ \/ /\ Ours(active)
        /\ StartNext(Completed(commitments, active.id, type), queue, None)
        /\ outbox' = Append(outbox, [type |-> type, id |-> active.id,
                                     attempt |-> active.attempt])
     \/ /\ ~Ours(active)
        /\ StartNext(commitments, queue, None)
        /\ UNCHANGED outbox
  /\ UNCHANGED <<registered, responses, market, learningDirty, closed>>
  /\ Continue

\* The join handle fails: the commitment stays Running.  A computation returns its
\* errors and the runtime outlives the client, so this is a precaution.
WorkerStops ==
  /\ WorkerCanStop
  /\ pc \in Waits
  /\ active # None
  /\ StartNext(commitments, queue, None)
  /\ UNCHANGED <<registered, outbox, responses, market, learningDirty, closed>>
  /\ Continue

MarketChanges(s, choice) ==
  /\ HasFeed
  /\ pc \in Waits
  /\ market' = s
  /\ \/ /\ pc = "select" /\ registered
        /\ commitments' = Repriced(commitments, s, choice)
        /\ responses' = Revisions(commitments, s, choice)
     \/ /\ ~(pc = "select" /\ registered)
        /\ UNCHANGED <<commitments, responses>>
  /\ UNCHANGED <<registered, queue, active, outbox, learningDirty, closed>>
  /\ Continue

\* A snapshot received two seconds ago is no longer used.
MarketExpires ==
  /\ market # None
  /\ market' = None
  /\ UNCHANGED <<pc, registered, commitments, queue, active, outbox, responses,
                 learningDirty, closed>>

-----------------------------------------------------------------------------

RunLoop == Launch \/ Interrupt \/ Connect \/ Retry \/ Disconnect \/ SendFails \/ Evicted

Writes == \/ SendRegister \/ SendResult \/ SaveLearning
          \/ \E m \in responses : SendResponse(m)

Receives ==
  \/ \E offers \in Offers, choice \in Decisions : Registered(offers, choice)
  \/ \E i \in Ids, a \in Attempts, choice \in Decisions : Cfp(i, a, choice)
  \/ \E i \in Ids : AcceptProposal(i) \/ BidDeclined(i)
  \/ \E i \in Ids, graded \in BOOLEAN : Settled(i, graded)

Background ==
  \/ \E type \in {"INFORM", "FAILURE"} : FinishWork(type)
  \/ WorkerStops
  \/ \E s \in Snapshots \cup {None}, choice \in Decisions : MarketChanges(s, choice)
  \/ MarketExpires

Next == RunLoop \/ Writes \/ Receives \/ Background

Spec == Init /\ [][Next]_vars

\* Code: the worker terminates, an await on a write, a save, a connection or a
\* sleep ends (each has a timeout), and select! chooses at random among the
\* branches that are ready, so a finished worker is not passed over forever.
Progress ==
  /\ SF_vars(\E type \in {"INFORM", "FAILURE"} : FinishWork(type))
  /\ WF_vars(Connect) /\ WF_vars(Retry)
  /\ WF_vars(SendRegister \/ SendResult \/ (\E m \in responses : SendResponse(m)) \/ SendFails)
  /\ WF_vars(SaveLearning)

\* Manager: a session that stays open is answered with REGISTERED.
Answers == WF_vars(~registered /\ \E offers \in Offers, choice \in Decisions :
                                    Registered(offers, choice))

LiveSpec == Spec /\ Progress /\ Answers

-----------------------------------------------------------------------------
(* Properties.                                                             *)

TypeOK ==
  /\ pc \in PCs
  /\ registered \in BOOLEAN
  /\ commitments \in [Ids -> Commitments \cup {None}]
  /\ queue \in Seq(Ids)
  /\ active \in Work \cup {None}
  /\ outbox \in Seq(Results)
  /\ responses \subseteq Responses
  /\ market \in Snapshots \cup {None}
  /\ learningDirty \in BOOLEAN
  /\ closed \subseteq Ids \X Attempts

\* The queue holds exactly the awarded tasks, each once: no award is lost
\* from it or run twice, and start_next never meets a task it must skip.
QueueMatches(c, q) ==
  /\ \A j, k \in DOMAIN q : q[j] = q[k] => j = k
  /\ \A i \in Ids : In(c, i, {"Awarded"}) <=> \E k \in DOMAIN q : q[k] = i

QueueIsAwards == QueueMatches(commitments, queue)

\* An idle worker means an empty queue: every path that frees the worker or
\* adds an award starts the next one.
WorkConserving == active = None => queue = <<>>

\* What the worker computes is the contract that is Running, or a contract
\* settled while it was being computed; and a Running contract is computed.
WorkerHasContract ==
  /\ active # None => \/ /\ In(commitments, active.id, {"Running"})
                         /\ commitments[active.id].attempt = active.attempt
                      \/ <<active.id, active.attempt>> \in closed
  /\ \A i \in Ids : In(commitments, i, {"Running"}) =>
       \/ active = [id |-> i, attempt |-> commitments[i].attempt]
       \/ WorkerCanStop

\* Every result kept for delivery is the one result of a contract that is
\* Complete and still on the books, computed for that very attempt.
ResultsBacked ==
  /\ \A j, k \in DOMAIN outbox : outbox[j].id = outbox[k].id => j = k
  /\ \A k \in DOMAIN outbox :
       /\ In(commitments, outbox[k].id, {"Complete"})
       /\ commitments[outbox[k].id].attempt = outbox[k].attempt

\* A registered client listens for the manager again only after every result
\* has been written, so no message overtakes a result that is ready.
FlushedBeforeListening == pc \in {"select", "save"} /\ registered => outbox = <<>>

\* An observation that is not on disk is being saved now: no failed write can
\* come between recording and saving it.
NothingUnsaved == learningDirty => pc = "save"

\* Bids live only in the session that made them.
BidsNeedSession ==
  ~registered => /\ responses = {}
                 /\ \A i \in Ids : ~In(commitments, i, {"Pending"})

\* A proposal still to be written is the bid the client tracks, and a refusal
\* still to be written is about a task with no bid: the manager is never sent
\* an offer the client has already dropped or replaced.
ResponsesCurrent ==
  \A m \in responses :
    IF m.type = "PROPOSE"
    THEN In(commitments, m.id, {"Pending"}) /\ commitments[m.id].bid = m.bid
    ELSE commitments[m.id] = None

\* The client implements the ledger of contracts.
Ledger == INSTANCE ContractLedger WITH
  contract <- [i \in Ids |-> IF commitments[i] = None THEN None
                             ELSE [attempt |-> commitments[i].attempt,
                                   stage |-> commitments[i].stage]],
  settled <- closed

KeepsLedger == Ledger!Spec

\* A result is posted, and a contract completed, only for a contract that was
\* being computed: never for a new award of the same task and attempt.
CompletesOnlyRunning ==
  [][\A i \in Ids : In(commitments, i, {"Complete"})' =>
        In(commitments, i, {"Running", "Complete"})]_vars

\* Every award is started or leaves the books.
AwardsStart == \A i \in Ids : In(commitments, i, {"Awarded"}) ~> ~In(commitments, i, {"Awarded"})

\* Once connections stay up, every result is written or its contract settled.
Stable == <>[][~(Disconnect \/ SendFails \/ (Connect /\ pc' = "backoff"))]_vars
ResultsWritten == Stable => \A i \in Ids : PostedAt(outbox, i) # {} ~> PostedAt(outbox, i) = {}
=============================================================================
