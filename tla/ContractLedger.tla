--------------------------- MODULE ContractLedger ---------------------------
(***************************************************************************)
(* What the client promises about its contracts, whatever the network, the *)
(* manager's messages, the strategy and the worker do: every task moves    *)
(* through bid, award, execution and completion in that order, a contract  *)
(* leaves the books only when the manager settles it or the process ends,  *)
(* and at most one contract is being computed.                             *)
(***************************************************************************)
EXTENDS Naturals

CONSTANTS Ids, Attempts, None

VARIABLES contract,   \* task -> [attempt, stage], or None
          settled     \* the (task, attempt) pairs the manager has settled

vars == <<contract, settled>>

Stage(c) == IF c = None THEN "None" ELSE c.stage

Init == contract = [i \in Ids |-> None] /\ settled = {}

\* Between contracts a task may be bid on, bid on again, or forgotten.
Bids(i) == /\ Stage(contract[i]) \in {"None", "Pending"}
           /\ Stage(contract'[i]) \in {"None", "Pending"}

\* The order of a contract's stages; an award may start the worker at once.
Advances(i) ==
  /\ <<Stage(contract[i]), Stage(contract'[i])>> \in
       {<<"Pending", "Awarded">>, <<"Pending", "Running">>,
        <<"Awarded", "Running">>, <<"Running", "Complete">>}
  /\ contract'[i].attempt = contract[i].attempt

Closes(i) == /\ contract[i] # None /\ contract'[i] = None
             /\ <<i, contract[i].attempt>> \in settled'

OneAtATime == \A i, j \in Ids : contract[i] # None /\ contract[j] # None =>
                (contract[i].stage = "Running" /\ contract[j].stage = "Running" => i = j)

Step == /\ \A i \in Ids : \/ contract'[i] = contract[i]
                          \/ Bids(i) \/ Advances(i) \/ Closes(i)
        /\ settled' \ settled \subseteq
             {<<i, contract[i].attempt>> : i \in {j \in Ids : Closes(j)}}
        /\ settled \subseteq settled'
        /\ OneAtATime'

\* The process ends: nothing is left of any contract.
Exit == contract' = [i \in Ids |-> None] /\ settled' = settled

Next == Step \/ Exit

Spec == Init /\ [][Next]_vars
=============================================================================
