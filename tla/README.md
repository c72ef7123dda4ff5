# contract-net: specifications, model checking and proofs

`contract-net` is a contractor for a Contract Net auction room. It connects to a
manager over a WebSocket, bids on announced tasks, computes the tasks it is
awarded on one serial worker, reports the results, and learns from the
settlements how long work takes. This directory holds TLA+ specifications of the
program, TLC configurations that check them on small instances, and proofs that
TLAPS checks for all instances.

Paths such as `client.rs:604` are relative to `src/src/`.

## 1. Inventory

| Component | State | Operations | Hard behaviour |
|---|---|---|---|
| **Client** (`client.rs`, `Contractor`) | `commitments` (task → Pending, Awarded, Running, Complete), `queue`, `active` (the worker's handle), `outbox`, `market`, `learning_dirty`; `registered` in `session` | `run`, `session`, `dispatch` (REGISTERED, CFP, ACCEPT_PROPOSAL, REJECT_PROPOSAL, BID_INVALID, SETTLED, ERROR), `propose`, `reprice_pending`, `start_next`, `finish_work` | one asynchronous task suspended at awaits; the worker and the feed go on meanwhile; any write can fail, any await can be the last |
| **Worker** (`spawn_blocking` in `start_next`) | the task and attempt it computes | start, finish, fail, handle lost | cannot be cancelled: outlives its contract and its session |
| **Session timers** (`client.rs:201-320`) | last pong, ping interval, registration deadline, backoff | tick, pong, deadline | looked at only in `select!`, which the client is away from while it writes and saves |
| **Market feed** (`market.rs`) | watch channel with the last snapshot | subscribe, reconnect, replace, stop; `competing_score` | a receiver that is busy sees only the last value, and late; a task of its own |
| **Learning store** (`bidder.rs`: `record`, `load`, `save`) | history in memory, state file, temporary file | load at start, record and save after a settlement | crash between file operations, failing operation, two processes with one name |
| **Forecast** (`bidder.rs`), **pricing** (`strategy.rs`) | none | `forecast`, `quantile`, `on_cfp` | boundary arithmetic; bids that answer each other |
| **Executors** (`tasks.rs`), **random** (`random.rs`) | position of a loop | `prime_count`, `matmul_mod`, `below_u64`, `below_big` | ends of segments and of words |
| **Calibration** (`benchmark.rs`), **harnesses**, **command line** | none | timing, replay, parsing | none of ordering |
| **Wire protocol** (`protocol.rs`) | messages | encode, decode | PROPOSE and INFORM do not name the attempt they are about |
| **Manager** (not in the repository) | auctions, contracts, proposals of the present connection | announce, award, reject, settle, time out | known only from `docs/PROTOCOL.md` and from how the client uses it |

How they interact: `main` runs the client and ctrl-c in one `select!`. The client
calls the strategy (inside `catch_unwind`) synchronously, and through it the
forecast; it shares nothing with the worker but the join handle; it reads the feed
through a watch channel; it writes the state file through a blocking task that it
awaits. Client and manager exchange messages over one connection at a time.
Contractors influence each other through the public bids of the room.

What makes each component correct:

* client: queue, worker and outbox agree with the commitments at every await;
  results survive reconnects and are delivered for the attempt they were computed
  for; bids do not survive; at most one task is computed and the worker never idles
  while something is queued; what the manager would award is what the client tracks;
* store: the state file is always a complete document, and an observation leaves it
  only when newer ones replace it;
* forecast and pricing: a reserve covers the observed runs; what is won can be
  delivered in time and at a profit; wars of revisions end;
* timers and feed: a dead link is noticed, a live one kept, a snapshot in use is
  young, a lost feed is not bid on, the subscriber does not outlive the client;
* executors: the sieve counts primes, the factorised sum is the sum, nothing
  leaves its word, draws are unbiased.

The hazards behind these, each at its line, are in `PROJECT.json`.

## 2. Modules

| Module | Content | Builds on |
|---|---|---|
| `ContractLedger` | abstract specification: the life of a contract, seen from outside | |
| `Contractor` | the client; room, network, strategy and worker are its environment | `ContractLedger` (refinement) |
| `Manager` | the manager's auctions (external) | |
| `ContractNet` | client and manager joined by two channels that live as long as one connection | `Contractor`, `Manager` |
| `LearningStore` | saving and loading observations | |
| `Forecast` | `forecast` and `quantile` over the histories the store can be left with | `LearningStore` |
| `Pricing` | `on_cfp`: the price of a bid, or a refusal | |
| `Bidding` | several contractors with this strategy in one room | `Pricing` |
| `SessionTimers` | ping, pong, registration deadline and write timeouts | |
| `MarketFeed` | the subscriber and its watch channel | |
| `ClientClock` | both on one clock, with the client's receipt and use of a snapshot | `SessionTimers`, `MarketFeed` |
| `PrimeCount`, `MatrixSum`, `RandomDraws` | two executors and the draws one of them uses | |
| `RunTask` | one call of an executor | the three above |
| `MC...` | symmetry sets and inputs for TLC | |
| `ContractorProofs`, `ContractNetProofs`, `ClientClockProofs` | theorems | the module they name |
| `ExchangeProofs` | theorems about bids, awards and results on their way | `ContractNetProofs` |
| `LearningStoreProofs` | theorems about the store and the forecasts made from it | `Forecast` |
| `BiddingProofs` | theorems about one price and about a room of contractors | `Bidding` |
| `RunTaskProofs` | theorems about the executors and the draws | `RunTask` |
| `SumTheorems` | induction, recursion, sums over finite sets | |

### Contractor

`pc` names the await at which the client is suspended; everything between two
awaits is one action, because the client is one asynchronous task and nothing
else changes its fields.

| Code | Specification |
|---|---|
| `run`: connect, wait, sleep | `Connect`, `Retry`, `Disconnect`, `SendFails`, `Evicted` |
| `commitments.retain(...)` after a session (215) | `ContractsOnly` in `EndSession` |
| process end, process start | `Interrupt`, `Evicted` (both `Exit`), `Launch` |
| `session`: REGISTER, responses, outbox, save | `SendRegister`, `SendResponse`, `SendResult`, `SaveLearning`; the order is `AfterBranch` |
| `dispatch` | `Registered`, `Cfp`, `AcceptProposal`, `BidDeclined`, `Settled` |
| `propose` | `Considered`, `Proposed`, `Reply` |
| `reprice_pending` | `Moved`, `Repriced`, `Announced`, `Revisions` in `MarketChanges` |
| `start_next`, `finish_work` | `StartNext`, `FinishWork`, `WorkerStops` |
| `context`: a snapshot older than two seconds is ignored | `MarketExpires` |

Abstractions: the strategy's decision is a parameter (any bid or none; `Bidding`
has the decision); times and prices are small integers; the score of a task is a
value of the snapshot; ERROR, unknown and undecodable messages and dropped messages
change nothing and are not actions of this module. The responses of one handler are
a set: the client may write them in any order, a superset of the order of the code.
A keepalive or registration timeout is a `Disconnect` that may happen at any time
in `select!` (`SessionTimers` has the clocks). `closed` and the attempt inside a
result are history: the code has neither.

### ContractNet

`up` and `down` are FIFO. A failing connection loses `down` and any suffix of `up`;
a write that fails may nevertheless have put its frame on the wire
(`HalfWritten`). The manager may read messages of the old connection after it
ended but forgets the proposals made over it. INFORM and ACCEPT_PROPOSAL carry
no attempt that anyone reads: the model records it in order to state properties.
`PromptBidding` says that the manager's bidding window outlasts one exchange of
call and bid, which is what the protocol document's windows intend; runs that do
not need it set it to FALSE. `Buffer` is the number of frames a connection holds
before a writer waits.

### LearningStore and Forecast

`Create` and `Write` are the two halves of `fs::write`; `Rename` is `fs::rename`.
`Stop` is a crash or an exit before any of them. A document records who is
writing it, because a rename moves the document with its writer. An observation
is its number. `SaveFails` is an error of any of the operations: the client logs it
and goes on. `Forecast` gives the numbers their clocks (`Sample`) and translates
`forecast`: exact and type matches (`Ratios`), the nearest-rank `Quantile`, cold
factors, the margins of 10 and 5 %, the delivery allowance. The sorted list is
modelled by what is looked up in it: `Ranked` is the value at a rank, the one with fewer
than `rank` values below it and at least `rank` values up to it.
Times are integers and ratios hundredths rounded down, where the code has `f64`.

### Pricing and Bidding

`Price` is the body of `on_cfp` in whole ticks of 0.0001, with the factors 0.98,
1.2, 1.6 and 0.08 in hundredths, so that only the final tick is rounded, as in the
code. Values that are not finite, a negative `cost_rate` (`strategy.rs:65-68`: every task is
refused) and tasks without a score are left out.

| Code | Specification |
|---|---|
| `on_cfp` | `Admitted`, `Floor`, `Ceiling`, `Price` |
| `queue_seconds` | `Wait`: every contract held and every other bid pending, in full |
| `competing_score` | `Competing` |
| `propose`, `reprice_pending` | `Proposal`, `Repriced` |
| CFP, market branch, two seconds without a snapshot | `Cfp`, `See`, `Expire` |
| the room: public state, 200 ms before the end, award | `Publish`, `Closing`, `Close` (external) |

A snapshot waits in `published` until a contractor sees it, as late as it likes, or
never. Nothing is computed while the auctions run, so what is held is reserved in
full; a bid is in the room as soon as it is made (`ContractNet` has the messages).

### SessionTimers, MarketFeed, ClientClock

Time is counted in ticks and passes only in `Tick`, which waits for whatever
`select!` or the wait before a session could serve at once. `Work` and `Ping` take
the client away for up to `MaxBusy` ticks. `select!` picks at random among ready
branches and each may write and save before the next is served, so `MaxBusy` is
the bound of all branches that are ready at one time together, and only the last of
them takes time. A write of REGISTER has its own timeout (`left`). Connecting and
backing off take any time, as do the subscriber's connection, silence and pause
(10, 45 and 3 s in the code). The flush that answers the feed's ping frame is a wait
of its own without a timeout, as at `market.rs:149`. A snapshot carries its age since it was
published (history) and since it was received (the code's `Instant`).

### Executors

The allocations that the code checks (`zeros`, and an n or a table size beyond usize)
may fail before the first step: `NoTable` and `NoColumns` are outcomes of `PrimeInit`
and `MatrixInit` for every non-empty task. `PrimeCount` takes one segment per step and
keeps the code's split between integers of any size (parameters), double words (`First`)
and words (`Stop`). `MatrixSum` takes one draw per step: elements of A go to column
sums, elements of B to the sum of a row, which is multiplied when it is complete;
`Reduced` is the reduction of the native path and nothing on the other. `RandomDraws`
turns any stream of words into candidates; the width of a word is a parameter
(`WordBits` in `MatrixSum`, each of `Widths` in `DrawsUnbiased`), so that 32, 33 and 64
bits have their counterparts at small widths. Powers of two and the sieve of the base
primes are recursive functions on the natural numbers, which the proofs can unfold.

## 3. What is checked

Twelve runs. Unless noted, deadlock is checked.

| Run | Specification and bounds | Shows |
|---|---|---|
| `contractor` | `Spec`; 3 tasks × 2 attempts, symmetry; no feed | `TypeOK`, `QueueIsAwards`, `WorkConserving`, `WorkerHasContract`, `ResultsBacked`, `FlushedBeforeListening`, `NothingUnsaved`, `BidsNeedSession`, and that the client implements `ContractLedger` (`KeepsLedger`); 33,557 states |
| `contractor_feed` | `LiveSpec`; 1 task × 2 attempts, 2 scores, 3 estimates with an announcing step of 2, worker handle may fail | `ResponsesCurrent`, `CompletesOnlyRunning`, `ResultsWritten`; 5,200 states |
| `net` | `NetSpec`; 2 tasks × 2 attempts, 1 failing connection, buffers of 4, looping room, no assumption about bidding windows, symmetry | `NetTypeOK`, `HeldWereAwarded`, `KeepsLedger`; 485,126 states |
| `net_feed` | `NetSpec`; 1 task, 1 attempt, feed, 2 failing connections, buffers of 2 | `OfferAgreed`, `AwardsHandled`; 18,356 states |
| `net_live` | `LiveNetSpec`; 2 tasks × 2 attempts, no failing connection | `ResultsSafe`, `ResultsForThisAttempt`, `AwardsStart`, `BidsResolve`, `ContractsConclude`; 32,174 states |
| `learning` | `Spec`; 1 process, history of 5, 7 observations, failing operations | `TypeOK`, `FileWhole`, `NothingForgotten`, `ForecastCovers`, `QuoteWithinReserve`; 8,620 states |
| `bidding` | `LiveSpec`; a fast and a slow contractor, 2 tasks, budget 11 and deadline 9 | `ReservesHold`, `WarEnds`, `BestCanWin`; 116,429 states |
| `executors` | `Spec`; words up to 255, segments of 20, random words of 1 bit (draws also of 2 and 3), ranges around squares of primes, ends of segments and of words, allocations that fail | `PrimesCounted`, `ChecksumCorrect`, `InRange`, `DrawsUnbiased`; 101,992 states |
| `timed` | `LiveSpec`; a tick is 2 s: pings every 10, timeouts of 5, absences up to 4; snapshots last 2 | `DeadLinkNoticed`, `AnsweringKept`, `SnapshotYoung`, `LossForgotten`, `ServiceReturns`, `SubscriberStops`; 320,648 states |
| `looping` | as `contractor`, 2 tasks, a room that repeats attempts | `CompletesOnlyRunning` is violated |
| `net_lost` | as `net`, 1 task, 2 failing connections | `ResultsSafe` is violated |
| `learning_shared` | 2 processes, one name, history of 2, 3 observations | `FileWhole` is violated |

Why the bounds are enough:

* three tasks give a worker, a queue of two and the choice which of them is
  settled; two attempts give a result that arrives in a later attempt. Safety for more
  of either is proved (section 4);
* one task suffices where the property is about one task's bid and the feed,
  because `reprice_pending` and `propose` treat tasks independently. Two scores and
  three estimates give a change below, at and above the announcing step;
* two failing connections give a result repeated after a reconnect that fails too;
* seven observations overflow a history of five, which is where the margin changes
  (fewer than five samples), and leave histories with gaps and reloads in between;
* two contractors and two tasks give a bid priced while another is pending, won or
  lost, and revisions that answer revisions; a budget of 11 leaves a range of prices
  in which both can undercut each other several times before one refuses;
* the values of `Lows` and `Highs` meet every boundary the sieve has: empty and negative
  ranges, p² at and beyond a segment's end, a first multiple beyond the word, the last
  word, ranges that do not fit;
* 20 and 10 s in the code keep their proportion (10 : 5); a snapshot lasts two ticks instead
  of one, so that it is seen at an age between new and expired;
* three runs are weaker than the theorem about the same property. Five observations never
  reach the sample sizes (20 and more) at which the 95 % rank is not the last
  (`ForecastIsCautious`). Deadline 9 lets both contractors of `bidding` hold both tasks,
  which `BestCanWin` needs (the bid that wins one task outbids the loser on the other), so
  only the price half of `ReservesHold` can fail there (`ReservesAreEnough`; with deadline 7
  TLC also finds the other half true, and false when only held contracts count). `net_live`
  has no failing connection and so no result that is sent again (`ResultsMatch`).

`CHECK_DEADLOCK FALSE`, because the system may really stop: `net*` (all tasks are done,
connections no longer fail and the client waits in `select!`), `timed` (the client
has ended and the subscriber has stopped), `executors` (the call has returned). `bidding` and
`learning*` never stop. The other bounds are `Buffer` (a guard of the writers), `MaxDrops`,
`MaxObs`, `Attempts` and `LastTask`.

`net_feed` has one attempt on purpose: PROPOSE names no attempt, so a revision
that was on its way when one round closed counts as a bid in the next round of
the same task. With two attempts TLC shows that the manager then holds an offer the
client has dropped or replaced; an award of it finds nothing pending and is ignored.
The hazard list has it, and the theorems about the exchange state it as their
hypothesis (`NoLateRevision`).

`ResultsForThisAttempt` is in `net_live` because it needs `PromptBidding`: INFORM
names no attempt either, and a bid that arrives after its window, in the next round,
can be awarded there while the result of the first round is on its way. Failing
connections do not endanger it: with `PromptBidding`, TLC finds no violation with
2 tasks, 3 attempts and 1 failing connection (1,461,813 states) nor with 1 task,
3 attempts and 2 (9,679 states), and `ResultsMatch` proves it for all numbers.

Each property of a passing run has a mutant: a plausible fault written next to the
definition it replaces (comments "Fault"), with which TLC finds the property violated.

### Where code and documentation disagree

* `looping`: a finished computation is matched by task and attempt only
  (`client.rs:604`). If the contract was settled meanwhile and the room repeats the
  pair, as `bidder.rs:61` says rooms do, the old result completes the new
  commitment, even a pending bid; the award that follows is then ignored. With
  the manager of `ContractNet`, which counts attempts up, it cannot happen: theorem
  `ClientCorrectInNetwork`.
* `net_lost`: a result is forgotten after a local write (`client.rs:326`), so
  "reconnect-safe results" (`client.rs:1`) holds for results not yet written only.
* `learning_shared`: the temporary name is fixed (`bidder.rs:162`); two processes with one
  URL and name can publish a half-written state file, against `docs/changes/03-bidding.md:32`.

### What else TLC shows when a constant is changed

| Change | Then | Because |
|---|---|---|
| `PromptBidding = FALSE` in `net_live` | `BidsResolve` fails | a late bid is answered with an ERROR that is only logged (`client.rs:427`) |
| `PromptBidding = FALSE` in `net_feed`, with two attempts | `AwardsHandled` fails | a bid that arrives in the next round counts there, although the client refused that round and forgot the bid |
| `PromptBidding = FALSE` and three attempts in `net_live` | `ResultsForThisAttempt` fails | a late bid is awarded in the next round, and the result computed for the earlier one settles it |
| two attempts in `net_feed` | `OfferAgreed` and `ResultsForThisAttempt` fail | a late revision counts in the next round (`protocol.rs:156`) |
| `EstStep = 2` in `net_feed` | `OfferAgreed` fails, `AwardsHandled` holds | an estimate that changes by less than the announcing step is tracked and not sent (`client.rs:539`) |
| `LoadCanFail = TRUE` in `learning` | `NothingForgotten` fails | a state file that cannot be read is replaced by the next save (`client.rs:191`) |
| `InOrder = FALSE` in `bidding` | `ReservesHold` fails | an award can come after one for a task called later, which the price did not count |
| `MaxBusy = 5` (`IoTimeout`) in `timed` | `ServiceReturns` fails | a client that is away that long can find its registration deadline passed although REGISTERED is waiting (`client.rs:270`) |
| `MaxBusy = 11` in `timed` | `AnsweringKept` fails; up to `PingEvery` it holds | the pong that would keep the session is read after the check |
| no fairness for `Flushed` and `FeedEnds` in `timed` | `SubscriberStops` fails | the flush has no timeout and does not see that the receiver is gone (`market.rs:149`) |

One behaviour is in the models without a claim: the remaining time of a computation whose
contract was settled is in no bid's waiting time (`client.rs:146`), because the wait
is derived from commitments. `WorkerHasContract` allows such a worker by its second case.

### Fairness

* `Progress` (client): the worker terminates; awaits on writes, saves, sleeps and
  connections end, each having a timeout or being finite; a finished worker is
  served in the end because `select!` picks at random among ready branches and all
  waits serve it (strong fairness: the wait may be left and entered again).
* `Answers` (room): a session that stays open is answered with REGISTERED. `Stable`, a
  premise of `ResultsWritten`, says that connections eventually stop failing; the code
  cannot promise delivery otherwise.
* `NetFairness`: the network moves messages, connection attempts do not fail forever,
  and bidding windows close (award or reject). Nothing is assumed about the manager's
  deadline, so `ContractsConclude` shows that results conclude contracts.
* `Feeds` (bidding): the room publishes again and again, and a contractor sees what is
  published. Auctions need not close: `WarEnds` must not depend on the end of time.
* `Fairness` (clock): time passes, and a client in `select!` handles what is ready.
  `Tick` and the subscriber's `Stops` need strong fairness: `Tick` waits while a branch
  is ready, and the subscriber leaves and enters its waits while the receiver is gone.

## 4. What is proved

All constants are arbitrary, subject to the named assumptions of the modules.

| Theorem | Statement | Extra assumption |
|---|---|---|
| `TypeCorrect` | `Spec => []TypeOK` of the client | none |
| `Invariance` | `Spec => []Inv` of the client | `LoopingRoom = FALSE` |
| `QueueCorrect`, `WorkerBusy`, `WorkerCorrect`, `OutboxCorrect`, `Flushed`, `Saved`, `BidsOfSession`, `RepliesCorrect` | the invariants of runs `contractor` and `contractor_feed` | `LoopingRoom = FALSE` |
| `OnlyRunningCompletes` | `Spec => CompletesOnlyRunning` | `LoopingRoom = FALSE` |
| `Refinement` | `Spec => KeepsLedger` | `LoopingRoom = FALSE`, `WorkerCanStop = FALSE` |
| `NetTypes` | `NetSpec => []NetTypeOK` | none |
| `ClientInNetwork` | `NetSpec => Spec`: the joined client is a client | none |
| `HeldContracts` | `NetSpec => []HeldWereAwarded` | none |
| `NetCorrectness` | `NetSpec => []CorrectInv`, the invariant of client, channels and manager | none |
| `ClientCorrectInNetwork` | `NetSpec => []Inv` | none: `LoopingRoom` may be TRUE |
| `LedgerInNetwork` | `NetSpec => KeepsLedger` | `WorkerCanStop = FALSE` |
| `StoreTypes` | `Spec => []TypeOK` of the store, any number of processes | none |
| `StateFileWhole` | `Spec => []FileWhole` | one process |
| `NothingIsForgotten` | `Spec => NothingForgotten` | one process, `LoadCanFail = FALSE` |
| `ClockInvariance`, `SnapshotsYoung`, `LossIsForgotten`, `DeadLinksNoticed` | the invariants of run `timed` but `AnsweringKept` | none |
| `AnsweringIsKept` | `Spec => []AnsweringKept` | `AnswersInTime`: `2 * MaxBusy + RoundTrip <= 2 * PingEvery + 1` |
| `ExchangeCorrect` | `NetSpec => []ExchangeInv`, the invariant of what is on its way about one task | `PromptBidding`, `NoLateRevision` |
| `AwardsAreHandled` | `NetSpec => []AwardsHandled` | the same |
| `ResultsMatch` | `NetSpec => []ResultsForThisAttempt` | the same |
| `OffersAgree` | `NetSpec => []OfferAgreed` | the same and `ChangesAnnounced` |
| `ResultsDelivered` | `NetSpec => [](drops = 0 => ResultsSafe)` | none |
| `OfferPays` | a price offered is at least a tick, pays the cautious cost and its margin, is within the budget and undercuts the competing score | none |
| `RefusalIsForced` | a call that fits is refused against a competing score only when no whole tick both undercuts it and pays | none |
| `ReservesAreEnough` | `Spec => []ReservesHold` of any number of contractors and tasks | `InOrder` |
| `ForecastIsCautious`, `QuoteIsCautious` | `Spec => []ForecastCovers`, `Spec => []QuoteWithinReserve` | none |
| `ProductsFit`, `FactorisationCorrect` | `Spec => []InRange`, `Spec => []ChecksumCorrect` | none |
| `PrimesAreCounted` | `Spec => []PrimesCounted` | none |
| `DrawsAreUnbiased` | `Spec => []DrawsUnbiased` | none |

**The client.** None of the properties is inductive alone. `Inv` joins
them, adding `LoopShape` (which await goes with what is still to be written) and
`OpenContracts` (no commitment is about a closed pair): a queued task is awarded and
an awarded task queued, so `start_next` never skips; the worker's task is the one
Running, or its (task, attempt) is in `closed`; and a commitment is never made for a
pair in `closed`. The last conjunct is what lets `finish_work` identify a contract by
(task, attempt): it is the room's promise (`Offerable`) and it is false in a
looping room, where run `looping` shows the consequence. `FlushedBeforeListening` and
`NothingUnsaved` need each other's place in the loop: nothing is appended to the outbox
or recorded outside `select!` and the waits before a session, which `AfterBranch`
empties in order. `Refinement` uses the invariant in every step that starts or
completes work; with a lost worker handle a second contract may be Running on
the books, which is why it assumes `WorkerCanStop = FALSE`. The handle cannot really fail while
the client runs (a computation returns its errors, and the runtime outlives the client);
`WorkerStops` is there because `finish_work` has a branch for it (`client.rs:614`).

**The network.** Here the promise is not assumed (`LoopingRoom` may be TRUE) but proved
from the manager. `CorrectInv` is the conjunction of `NetTypeInv` (types; the rounds
announced exist), `LinkInv` (if a bid is pending when an ACCEPT is read, it is for the attempt
that was awarded, and while an auction is open, a bid made on the calls so far is for its
round), `BooksInv` (what is held, queued and computed was awarded), `OrderInv` (what is
on its way is read in the order the manager wrote it: announcements are of attempts newer
than the client's commitment and not over, settlements of attempts that are over, and
attempts only count up), `SignOnInv` (one REGISTER per connection, and no pending
bid before it is answered) and the client's `Inv`. From `OrderInv`, a call or a
REGISTERED that the client reads is for a pair that is not `closed`, which is what
`OpenContracts` needs; so the client's `Inv` holds, and with it the refinement of the
ledger. `HeldContracts` needs `LinkInv` and `BooksInv` only: ACCEPT_PROPOSAL names no attempt,
so the proof is that the bid the client finds pending is of the attempt that was awarded.

**The exchange.** `ExchangeInv` (in `ExchangeProofs`, on top of `CorrectInv`) is about
one task and both channels, message by message. `CallsInv`: a task is announced while
its auction is open, and nothing follows the announcement before it closes. `BidsInv`:
what the manager or the upward channel has of us for an open auction is backed by a
pending bid, and while there is one nothing about the task is on its way down.
`OffersInv`: the last bid written, and then the standing offer, is the bid tracked.
`AcceptsInv`: an award on its way finds its bid whatever is read before it. `ResultsInv`:
a result on its way is of the attempt awarded last, and no offer of the same connection
follows it. The hypotheses exclude cases in which the properties fail, each shown by TLC
(section 3): `PromptBidding` is the room's promise; `NoLateRevision` says
`HasFeed => Attempts = {1}`, because a revision on its way when a round closes counts in
the next, and only a feed causes revisions; `ChangesAnnounced` excludes changes of an
estimate below the announcing step, which are tracked and never sent
(`client.rs:539`). Without a feed the attempts are unlimited, with one the revisions.
`ResultsDelivered` needs none of this: as long as no connection has failed, a
contract's result is traced from the worker to the outbox, the channel and the manager
by the books of `CorrectInv`. `drops = 0` is essential, as `net_lost` shows.

**The store.** With one process the temporary file is written by nobody but the
process in phase "write" and complete, with its history, in phase "rename"; so what
`Rename` publishes is whole. For `NothingForgotten`, the file is always covered by the
memory (`Covered`: what the memory lacks is older than a full history) and numbers are
ordered (`Ordered`), so that a rename replaces an observation only by newer ones.

**The forecast.** What is proved holds of every function from finitely many positions to
numbers, so of every history. The value at a rank exists (`Ranked` is not an empty
choice: the least value that enough others do not exceed), it grows with the rank, and
`Rank(percent, n)`, with its rounding up and its minimum of 1, is the least rank that covers
`percent` % of n. So the reserve covers 95 % and no smaller value does, and the median is at
most the 95th percentile, from which `QuoteIsCautious` follows, with the cold factors and
both margins. Baselines and clocks are natural numbers (`SampleAssumption`), which
`Observation::valid` guarantees.

**The clock.** `Inv` bounds every clock while something is on its way: `SlotYoung`
and `MarketYoung` (a snapshot ages in the channel only while the client is away, and
then in its hands for less than `Fresh`), `LossTold` (while the feed is away the
channel holds None or the client has read it), `PongChecked` (the time since the last
pong against what is left to the next check).

`AnsweringKept` needs `PongsInv` too: either every ping so far is answered and the answer
read (`PongRead`), or the answer to the last is on its way, or waits for a client that left
`select!` just before it came (`PongDue`). A ping may be sent at the end of one absence and its
answer read at the end of the next: hence two absences and a round trip, against two
ping intervals. The bound cannot be weakened by a tick: TLC
finds `AnsweringKept` violated for (`PingEvery`, `MaxBusy`, `RoundTrip`) = (2, 2, 2), (3, 3, 2),
(2, 3, 1) and true for (2, 2, 1), (3, 3, 1), (4, 2, 5). In the code a ping is sent every 20 s
(`client.rs:30`) and a write may take 15 s (`client.rs:31`): absences of one slow write leave
11 s for the round trip; absences of two slow writes (30 s) are beyond the bound.

**Pricing.** `OfferPays` splits the rounding (`TickDown`) from the order of the
comparisons; `RefusalIsForced` is its converse and needs that the ceiling is the largest
price that undercuts.

**Bidding.** `ReservesHold` adds up what is held and pending over all tasks; the
invariant `BiddingInv` adds `PricedAhead`: price and deadline of a pending bid are kept even if
everything called before it that is held or still pending (`Ahead`) is computed first. A bid
counts every pending bid in full, an award turns pending into held, a refusal only
removes; so nothing comes ahead of a bid after it was priced, provided that auctions
close in the order of their calls. That is `InOrder`, a promise of the room: without it TLC finds
`ReservesHold` violated.

**Executors.** `MatrixInv` says what the code's partial sums stand for after any number of
draws: column k holds the sum of the elements drawn for it, the row the sum of its
elements so far, the total the products of the complete rows, each reduced on the native
path. A step preserves this because reduction may be done early or late (`KeptIs`), and
when all elements are drawn, exchanging the sums (`SumSwap`) turns the products of
column and row sums into the sum of the elements of the matrix product (`Factorised`). From
the same invariant, both factors of a product on the native path are below a modulus of two
words, so the product fits four (`ProductsFit`). `PrimeInv` says that `count` is the number of primes
between `lo` and `start`. A segment is counted completely because the base primes up to the
root are all there (`BaseIs`, by induction on the sieve's outer loop), a composite has
a divisor among them (`SmallDivisor`), and the first multiple to be crossed out is neither
too late nor the prime itself (`FirstIs`).

**Draws.** A candidate is a numeral with the words as digits, the last one without its
spare bits. Every number below `TwoTo(w * n)` has digits, and only one at every place
(`LowExists`, `LowUnique`), so the streams for one value correspond one to one to the values
of the spare bits (`StreamsFor`): each number below the modulus has equally many. With at most
two words the numeral is `below_u64`'s expression.

**Induction.** The library's induction theorems take an operator as a parameter, which the
installed provers cannot instantiate. `SumTheorems` states induction for sets instead
(`SetInduction`: a set of natural numbers that has 0 and, with every n, n + 1, is `Nat`;
`FiniteInduction` the same for finite subsets), proved from the well-foundedness of `Nat`,
and from it that recursive functions and folds are what their equations say
(`RecursionOnNat`, `SumIs`). The properties of sums, powers and the sieve follow.

Only model-checked: all liveness, because TLAPS does not handle ENABLED and so not
fairness. Every invariant and every action property of a passing run is stated by a theorem,
some under the hypotheses of the table.

## 5. Not modelled, and plan

* `hash_search` and `monte_carlo_pi` are a loop around a hash and a generator, and
  `sort_checksum` is a library sort and a fold: a model would restate them.
* MT19937 has 624 words of state, out of TLC's reach; the tests compare it with
  recorded reference output. `RandomDraws` is checked for every stream instead.
* Calibration (`benchmark.rs`) measures wall-clock time. JSON (`protocol.rs`), argument
  parsing and logging are formatting; the offline benchmark and verification
  tools replay recorded data and share no state with the client.
* A failing join handle of the save (`client.rs:334`): like the worker's, it cannot fail
  while the runtime lives, and it would end the session.
* Memory that runs out where the code does not ask whether it did: a segment of
  `prime_count` (`vec!`) and its list of primes (`collect`) abort the process.
* The length of the exponential backoff: no property depends on it (`client.rs:234`,
  in the hazard list).

Next, in this order: the theorems about the exchange for a room that discards late
revisions, so that a feed and several attempts go together; `Refinement` with a worker
handle that can fail, against a ledger that may lose work; the backoff's length and the
connection timeout on the clock of `SessionTimers`.

## 6. Running

    tlc -workers 2 -config Contractor.cfg MCContractor
    tlapm ContractorProofs.tla

`ContractNetProofs` and `ExchangeProofs` take several minutes, `bidding` and `timed` about a minute each,
the other runs less. `PROJECT.json` lists every run with its module and configuration,
every mutant, the source lines each definition stands for, the findings and the hazards.
