---------------------------- MODULE LearningStore ----------------------------
(***************************************************************************)
(* The saved observations of src/src/bidder.rs: Learning::record, load and *)
(* save, called by client.rs when it starts and after a settlement.  A     *)
(* save is two file operations with a crash possible before, between and   *)
(* after them; two clients started with the same URL and name (the second  *)
(* evicts the first) have the same state file and the same temporary file. *)
(*                                                                         *)
(* A file that is being written follows a rename: the writer holds the     *)
(* document, not its name.                                                 *)
(***************************************************************************)
EXTENDS Naturals, Sequences, FiniteSets, Functions

CONSTANTS Procs,         \* client processes
          HistoryLimit,  \* HISTORY_LIMIT
          MaxObs,        \* observations recorded in a behaviour
          WriteCanFail,  \* a file operation of save can fail
          LoadCanFail,   \* an intact state file can fail to load
          None, Torn     \* no such file; a document not written to its end

ASSUME StoreAssumption == /\ HistoryLimit \in Nat \ {0} /\ MaxObs \in Nat
                          /\ {WriteCanFail, LoadCanFail} \subseteq BOOLEAN

Obs == 1..MaxObs
Histories == UNION {[1..n -> Obs] : n \in 0..HistoryLimit}

Names == {"state", "temp"}
Documents == [data: Histories \cup {Torn}, writers: SUBSET Procs, mixed: BOOLEAN]

ASSUME NoneAssumption == None \notin Documents /\ Torn \notin Histories

Phases == {"off", "idle", "create", "write", "rename"}

VARIABLES phase,    \* process -> where it is in the save
          memory,   \* process -> its Learning.observations
          disk,     \* file name -> document, or None
          count     \* observations recorded so far, which numbers them

vars == <<phase, memory, disk, count>>

-----------------------------------------------------------------------------

\* (Fault: the oldest observation is not dropped.)
RecordedAll(h, o) == Append(h, o)

\* Learning::record of a valid observation.
Recorded(h, o) == IF Len(h) < HistoryLimit THEN Append(h, o)
                  ELSE Append(Tail(h), o)

Parses(doc) == doc # None /\ doc.data # Torn

\* What load may find: the document's history, and the empty one when there is
\* no file, when it does not parse and when it cannot be read.
Loads(doc) == (IF Parses(doc) THEN {doc.data} ELSE {<<>>})
              \cup (IF LoadCanFail THEN {<<>>} ELSE {})

Init ==
  /\ phase = [p \in Procs |-> "off"]
  /\ memory = [p \in Procs |-> <<>>]
  /\ disk = [n \in Names |-> None]
  /\ count = 0

\* (Fault: the saved history is not read.)
LoadNothing(p) ==
  /\ phase[p] = "off"
  /\ phase' = [phase EXCEPT ![p] = "idle"]
  /\ UNCHANGED <<memory, disk, count>>

\* run: a file that does not load leaves the default, empty, history.
Load(p) ==
  /\ phase[p] = "off"
  /\ phase' = [phase EXCEPT ![p] = "idle"]
  /\ \E h \in Loads(disk["state"]) : memory' = [memory EXCEPT ![p] = h]
  /\ UNCHANGED <<disk, count>>

\* A settlement.  An observation that is not valid is not recorded, but the
\* history is saved all the same.
Settle(p) ==
  /\ phase[p] = "idle"
  /\ phase' = [phase EXCEPT ![p] = "create"]
  /\ \/ /\ count < MaxObs
        /\ count' = count + 1
        /\ memory' = [memory EXCEPT ![p] = Recorded(@, count')]
     \/ UNCHANGED <<count, memory>>
  /\ UNCHANGED disk

\* (Fault: the rename does not wait for the write.)
CreateOnly(p) ==
  /\ phase[p] = "create"
  /\ disk' = [disk EXCEPT !["temp"] = [data |-> Torn, writers |-> {}, mixed |-> FALSE]]
  /\ phase' = [phase EXCEPT ![p] = "rename"]
  /\ UNCHANGED <<memory, count>>

\* fs::write creates the temporary file, or truncates the one that is there.
Create(p) ==
  /\ phase[p] = "create"
  /\ LET others == IF disk["temp"] = None THEN {} ELSE disk["temp"].writers
     IN  disk' = [disk EXCEPT !["temp"] = [data |-> Torn, writers |-> others \cup {p},
                                           mixed |-> others # {}]]
  /\ phase' = [phase EXCEPT ![p] = "write"]
  /\ UNCHANGED <<memory, count>>

\* What p's last byte leaves in a document: p's history, unless other writers
\* have put theirs into it or are still doing so.
Outcomes(p, doc) == CASE doc.writers # {p} -> {Torn}
                      [] doc.mixed         -> {Torn, memory[p]}
                      [] OTHER             -> {memory[p]}

WrittenBy(p) == {n \in Names : disk[n] # None /\ p \in disk[n].writers}

LeftBy(p, data) ==
  [n \in Names |-> IF n \in WrittenBy(p)
                   THEN [disk[n] EXCEPT !.data = data, !.writers = @ \ {p}]
                   ELSE disk[n]]

Write(p) ==
  /\ phase[p] = "write"
  /\ IF WrittenBy(p) = {} THEN UNCHANGED disk
     ELSE \E n \in WrittenBy(p), data \in Histories \cup {Torn} :
            data \in Outcomes(p, disk[n]) /\ disk' = LeftBy(p, data)
  /\ phase' = [phase EXCEPT ![p] = "rename"]
  /\ UNCHANGED <<memory, count>>

\* fs::rename fails when another process has taken the temporary file.
Rename(p) ==
  /\ phase[p] = "rename"
  /\ disk' = IF disk["temp"] = None THEN disk
             ELSE [disk EXCEPT !["state"] = disk["temp"], !["temp"] = None]
  /\ phase' = [phase EXCEPT ![p] = "idle"]
  /\ UNCHANGED <<memory, count>>

\* The error is logged; nothing tries again before the next settlement.
SaveFails(p) ==
  /\ WriteCanFail
  /\ phase[p] \in {"create", "write", "rename"}
  /\ disk' = LeftBy(p, Torn)
  /\ phase' = [phase EXCEPT ![p] = "idle"]
  /\ UNCHANGED <<memory, count>>

\* Ctrl-C, eviction or a kill, between any two steps.
Stop(p) ==
  /\ phase[p] # "off"
  /\ disk' = LeftBy(p, Torn)
  /\ phase' = [phase EXCEPT ![p] = "off"]
  /\ memory' = [memory EXCEPT ![p] = <<>>]
  /\ UNCHANGED count

Next == \E p \in Procs : \/ Load(p) \/ Settle(p) \/ Create(p) \/ Write(p) \/ Rename(p)
                         \/ SaveFails(p) \/ Stop(p)

Spec == Init /\ [][Next]_vars

-----------------------------------------------------------------------------
(* Properties.                                                             *)

TypeOK ==
  /\ phase \in [Procs -> Phases]
  /\ memory \in [Procs -> Histories]
  /\ disk \in [Names -> Documents \cup {None}]
  /\ count \in 0..MaxObs

\* The state file is never a half-written document, whatever crashes.
FileWhole == disk["state"] # None => Parses(disk["state"])

\* A saved observation leaves the state file only when as many newer ones as
\* the history holds have replaced it: neither a crash between two steps of a
\* save, nor a failed save, nor a restart forgets it.
Saved == IF Parses(disk["state"]) THEN Range(disk["state"].data) ELSE {}
NothingForgotten ==
  [][\A o \in Saved \ Saved' : Cardinality({n \in Saved' : n > o}) = HistoryLimit]_vars
=============================================================================
