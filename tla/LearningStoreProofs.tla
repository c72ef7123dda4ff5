------------------------- MODULE LearningStoreProofs -------------------------
(***************************************************************************)
(* Theorems about the state file of one client process, for every history  *)
(* limit and every number of observations, crashes and failed saves: it is *)
(* whole, it forgets nothing but what newer observations replace, and the  *)
(* forecasts made from any history it leaves cover what was observed.      *)
(***************************************************************************)
EXTENDS Forecast, SequenceTheorems, SumTheorems

\* A history is a sequence of observations within the limit.
LEMMA HistoryIsSeq ==
  ASSUME NEW h \in Histories
  PROVE  h \in Seq(Obs) /\ Len(h) \in Nat /\ Len(h) <= HistoryLimit
<1>1. HistoryLimit \in Nat
  BY StoreAssumption
<1>2. PICK n \in 0..HistoryLimit : h \in [1..n -> Obs]
  BY DEF Histories
<1>3. h \in Seq(Obs) /\ Len(h) = n
  BY <1>1, <1>2
<1> QED BY <1>1, <1>2, <1>3

LEMMA HistoryValues ==
  ASSUME NEW h \in Histories
  PROVE  h \in Seq(Obs) /\ Len(h) \in Nat /\ \A i \in 1..Len(h) : h[i] \in Nat
<1>1. h \in Seq(Obs) /\ Len(h) \in Nat
  BY HistoryIsSeq
<1>2. \A i \in 1..Len(h) : h[i] \in Obs
  BY <1>1
<1>3. Obs \subseteq Nat
  BY DEF Obs
<1> QED BY <1>1, <1>2, <1>3

LEMMA SeqIsHistory ==
  ASSUME NEW h \in Seq(Obs), Len(h) <= HistoryLimit
  PROVE  h \in Histories
<1>1. Len(h) \in 0..HistoryLimit /\ h \in [1..Len(h) -> Obs]
  BY StoreAssumption, LenProperties
<1> QED BY <1>1 DEF Histories

\* Recording keeps a history within its limit.
LEMMA RecordedType ==
  ASSUME NEW h \in Histories, NEW o \in Obs
  PROVE  Recorded(h, o) \in Histories
<1>1. h \in Seq(Obs) /\ Len(h) <= HistoryLimit /\ Len(h) \in Nat
  BY HistoryIsSeq
<1>2. HistoryLimit \in Nat /\ HistoryLimit >= 1
  BY StoreAssumption
<1>3. CASE Len(h) < HistoryLimit
  <2>1. Append(h, o) \in Seq(Obs) /\ Len(Append(h, o)) = Len(h) + 1
    BY <1>1, AppendProperties
  <2>2. Len(Append(h, o)) <= HistoryLimit
    BY <1>1, <1>2, <1>3, <2>1
  <2>3. Append(h, o) \in Histories
    BY <2>1, <2>2, SeqIsHistory
  <2> QED BY <1>3, <2>3 DEF Recorded
<1>4. CASE ~(Len(h) < HistoryLimit)
  <2>1. h # <<>> /\ Len(h) = HistoryLimit
    BY <1>1, <1>2, <1>4
  <2>2. Tail(h) \in Seq(Obs) /\ Len(Tail(h)) = Len(h) - 1
    BY <1>1, <2>1, HeadTailProperties
  <2>3. /\ Append(Tail(h), o) \in Seq(Obs)
        /\ Len(Append(Tail(h), o)) = Len(Tail(h)) + 1
    BY <2>2, AppendProperties
  <2>4. Len(Append(Tail(h), o)) <= HistoryLimit
    BY <1>2, <2>1, <2>2, <2>3
  <2>5. Append(Tail(h), o) \in Histories
    BY <2>3, <2>4, SeqIsHistory
  <2> QED BY <1>4, <2>5 DEF Recorded
<1> QED BY <1>3, <1>4

LEMMA NoHistory == <<>> \in Histories
<1>1. <<>> \in Seq(Obs) /\ Len(<<>>) = 0
  BY EmptySeq
<1>2. Len(<<>>) <= HistoryLimit
  BY <1>1, StoreAssumption
<1> QED BY <1>1, <1>2, SeqIsHistory

LEMMA LeftByType ==
  ASSUME TypeOK, NEW p \in Procs, NEW data \in Histories \cup {Torn}
  PROVE  LeftBy(p, data) \in [Names -> Documents \cup {None}]
  BY DEF LeftBy, WrittenBy, TypeOK, Documents

LEMMA TypeStep == TypeOK /\ [Next]_vars => TypeOK'
<1> SUFFICES ASSUME TypeOK, [Next]_vars PROVE TypeOK'
  OBVIOUS
<1> USE DEF TypeOK, Phases, Names
<1>1. ASSUME NEW p \in Procs, Load(p) PROVE TypeOK'
  <2>1. Loads(disk["state"]) \subseteq Histories
    BY NoHistory DEF Loads, Parses, Documents
  <2> QED BY <1>1, <2>1 DEF Load
<1>2. ASSUME NEW p \in Procs, Settle(p) PROVE TypeOK'
  <2>1. MaxObs \in Nat /\ count \in 0..MaxObs
    BY StoreAssumption
  <2>2. count < MaxObs => count + 1 \in Obs /\ count + 1 \in 0..MaxObs
    BY <2>1 DEF Obs
  <2>3. count < MaxObs => Recorded(memory[p], count + 1) \in Histories
    BY <2>2, RecordedType
  <2> QED BY <1>2, <2>2, <2>3 DEF Settle
<1>3. ASSUME NEW p \in Procs, Create(p) PROVE TypeOK'
  <2> DEFINE others == IF disk["temp"] = None THEN {} ELSE disk["temp"].writers
  <2>1. others \in SUBSET Procs
    BY DEF Documents
  <2>2. [data |-> Torn, writers |-> others \cup {p}, mixed |-> others # {}] \in Documents
    BY <2>1 DEF Documents
  <2> QED BY <1>3, <2>2 DEF Create
<1>4. ASSUME NEW p \in Procs, Write(p) PROVE TypeOK'
  BY <1>4, LeftByType DEF Write
<1>5. ASSUME NEW p \in Procs, Rename(p) PROVE TypeOK'
  BY <1>5 DEF Rename
<1>6. ASSUME NEW p \in Procs, SaveFails(p) PROVE TypeOK'
  BY <1>6, LeftByType DEF SaveFails
<1>7. ASSUME NEW p \in Procs, Stop(p) PROVE TypeOK'
  BY <1>7, LeftByType, NoHistory DEF Stop
<1>8. CASE UNCHANGED vars
  BY <1>8 DEF vars
<1> QED BY <1>1, <1>2, <1>3, <1>4, <1>5, <1>6, <1>7, <1>8 DEF Next

\* Every history, in memory and on disk, stays within HISTORY_LIMIT.
THEOREM StoreTypes == Spec => []TypeOK
<1>1. Init => TypeOK
  BY NoHistory, StoreAssumption DEF Init, TypeOK, Phases, Names
<1> QED BY <1>1, TypeStep, PTL DEF Spec

-----------------------------------------------------------------------------
(* One process.                                                            *)

\* Nothing is being written to the state file; the temporary file is being
\* written exactly during the write, and whole between the write and the
\* rename.
WholeInv ==
  /\ disk["state"] # None => disk["state"].data # Torn /\ disk["state"].writers = {}
  /\ \A p \in Procs :
       /\ disk["temp"] # None =>
            disk["temp"].writers = IF phase[p] = "write" THEN {p} ELSE {}
       /\ phase[p] \in {"write", "rename"} => disk["temp"] # None
       /\ phase[p] = "write" => ~disk["temp"].mixed
       /\ phase[p] = "rename" => disk["temp"].data # Torn

LEMMA WholeStep ==
  ASSUME NEW p, Procs = {p}, TypeOK, WholeInv, [Next]_vars
  PROVE  WholeInv'
<1> USE DEF WholeInv
<1>1. p \in Procs /\ \A q \in Procs : q = p
  OBVIOUS
<1>2. phase \in [Procs -> Phases] /\ disk \in [Names -> Documents \cup {None}]
      /\ memory[p] # Torn /\ "state" \in Names /\ "temp" \in Names
      /\ \A n \in Names : n \in {"state", "temp"}
  BY <1>1, NoneAssumption DEF TypeOK, Names
<1>3. ASSUME NEW n \in Names, p \in (IF disk[n] = None THEN {} ELSE disk[n].writers)
      PROVE  n = "temp" /\ phase[p] = "write"
  BY <1>1, <1>2, <1>3 DEF Names
<1>4. CASE Load(p) \/ Settle(p) \/ UNCHANGED vars
  BY <1>1, <1>2, <1>4 DEF Load, Settle, vars
<1>5. CASE Create(p)
  <2> DEFINE others == IF disk["temp"] = None THEN {} ELSE disk["temp"].writers
             d == [data |-> Torn, writers |-> others \cup {p}, mixed |-> others # {}]
  <2>1. others = {} /\ phase'[p] = "write"
    BY <1>1, <1>2, <1>5 DEF Create
  <2>2. d = [data |-> Torn, writers |-> {p}, mixed |-> FALSE]
    BY <2>1
  <2>3. [data |-> Torn, writers |-> {p}, mixed |-> FALSE] \in Documents
    BY <1>1 DEF Documents
  <2>4. d # None
    BY <2>2, <2>3, NoneAssumption
  <2>5. disk'["temp"] = d /\ disk'["state"] = disk["state"]
    BY <1>2, <1>5 DEF Create
  <2>6. ~disk'["temp"].mixed /\ disk'["temp"].writers = {p}
    BY <2>2, <2>5
  <2> QED BY <1>1, <2>1, <2>4, <2>5, <2>6
<1>6. WrittenBy(p) = IF phase[p] = "write" THEN {"temp"} ELSE {}
  BY <1>1, <1>2, <1>3 DEF WrittenBy
<1>7. CASE Write(p)
  <2>1. phase[p] = "write" /\ phase'[p] = "rename"
    BY <1>1, <1>2, <1>7 DEF Write
  <2>2. PICK data \in Outcomes(p, disk["temp"]) : disk' = LeftBy(p, data)
    BY <1>6, <1>7, <2>1 DEF Write
  <2>3. data = memory[p]
    BY <1>1, <2>1, <2>2 DEF Outcomes
  <2>4. /\ disk'["state"] = disk["state"]
        /\ disk'["temp"] = [disk["temp"] EXCEPT !.data = memory[p], !.writers = @ \ {p}]
    BY <1>2, <1>6, <2>1, <2>2, <2>3 DEF LeftBy
  <2>5. disk["temp"] \in Documents /\ disk["temp"].writers = {p}
    BY <1>1, <1>2, <2>1
  <2>6. disk'["temp"].data = memory[p] /\ disk'["temp"].writers = {}
    BY <2>4, <2>5 DEF Documents
  <2>7. memory[p] \in Histories
    BY <1>1 DEF TypeOK
  <2>8. disk'["temp"] \in Documents
    <3> DEFINE d == disk["temp"]
    <3>1. d \in Documents /\ disk'["temp"] = [d EXCEPT !.data = memory[p], !.writers = @ \ {p}]
      BY <2>4, <2>5
    <3> HIDE DEF d
    <3>2. disk'["temp"] = [data |-> memory[p], writers |-> d.writers \ {p}, mixed |-> d.mixed]
      BY <3>1 DEF Documents
    <3>3. d.writers \ {p} \in SUBSET Procs /\ d.mixed \in BOOLEAN
      BY <3>1 DEF Documents
    <3> QED BY <2>7, <3>2, <3>3 DEF Documents
  <2>9. disk'["temp"] # None
    BY <2>8, NoneAssumption
  <2> QED BY <1>1, <1>2, <2>1, <2>4, <2>6, <2>9
<1>8. CASE Rename(p)
  <2>1. disk' = [disk EXCEPT !["state"] = disk["temp"], !["temp"] = None]
    BY <1>1, <1>8 DEF Rename
  <2>2. disk'["state"] = disk["temp"] /\ disk'["temp"] = None
    BY <1>2, <2>1 DEF Names
  <2>3. phase[p] = "rename" /\ phase'[p] = "idle"
    BY <1>1, <1>2, <1>8 DEF Rename
  <2> QED BY <1>1, <2>2, <2>3
<1>9. CASE SaveFails(p) \/ Stop(p)
  <2>1. disk' = LeftBy(p, Torn) /\ phase'[p] \in {"idle", "off"}
    BY <1>1, <1>2, <1>9 DEF SaveFails, Stop
  <2>2. disk'["state"] = disk["state"]
    BY <1>2, <1>6, <2>1 DEF LeftBy
  <2>3. disk'["temp"] # None => disk'["temp"].writers = {}
    <3>1. CASE phase[p] = "write"
      <4>1. disk'["temp"] = [disk["temp"] EXCEPT !.data = Torn, !.writers = @ \ {p}]
        BY <1>2, <1>6, <2>1, <3>1 DEF LeftBy
      <4>2. disk["temp"] \in Documents /\ disk["temp"].writers = {p}
        BY <1>1, <1>2, <3>1
      <4> QED BY <4>1, <4>2 DEF Documents
    <3>2. CASE phase[p] # "write"
      <4>1. disk'["temp"] = disk["temp"]
        BY <1>2, <1>6, <2>1, <3>2 DEF LeftBy
      <4> QED BY <1>1, <3>2, <4>1
    <3> QED BY <3>1, <3>2
  <2> QED BY <1>1, <2>1, <2>2, <2>3
<1> QED BY <1>1, <1>4, <1>5, <1>7, <1>8, <1>9 DEF Next

\* One client process never leaves, or shows, a half-written state file,
\* wherever it is stopped and whatever fails.
THEOREM StateFileWhole ==
  ASSUME NEW p, Procs = {p}
  PROVE  Spec => []FileWhole
<1>1. Init => WholeInv
  BY DEF Init, WholeInv, Names
<1>2. TypeOK /\ WholeInv /\ [Next]_vars => WholeInv'
  BY WholeStep
<1>3. WholeInv => FileWhole
  BY DEF WholeInv, FileWhole, Parses
<1> QED BY <1>1, <1>2, <1>3, StoreTypes, PTL DEF Spec

-----------------------------------------------------------------------------
(* What is forgotten.                                                      *)

\* Observations are in the order in which they were recorded.
InOrder(h, last) == /\ \A i, j \in 1..Len(h) : i < j => h[i] < h[j]
                    /\ \A i \in 1..Len(h) : h[i] <= last
Ordered(h) == InOrder(h, count)

\* Whatever of h is not in g is older than all of g, and g is full.
Covered(h, g) == \A i \in 1..Len(h) :
  \/ \E j \in 1..Len(g) : g[j] = h[i]
  \/ Len(g) = HistoryLimit /\ \A j \in 1..Len(g) : h[i] < g[j]

\* The history in memory misses nothing of the state file but what it is too full for.
KeptInv ==
  /\ disk["state"] # None => Ordered(disk["state"].data)
  /\ \A p \in Procs : phase[p] # "off" =>
       /\ Ordered(memory[p])
       /\ phase[p] = "rename" => disk["temp"].data = memory[p]
       /\ disk["state"] # None => Covered(disk["state"].data, memory[p])

\* What recording does to a history, place by place.
LEMMA RecordedPlaces ==
  ASSUME NEW h \in Histories, NEW o \in Obs
  PROVE  LET r == Recorded(h, o)
         IN  IF Len(h) < HistoryLimit
             THEN /\ Len(r) = Len(h) + 1 /\ r[Len(h) + 1] = o
                  /\ \A i \in 1..Len(h) : r[i] = h[i]
             ELSE /\ Len(h) = HistoryLimit /\ Len(r) = HistoryLimit /\ r[HistoryLimit] = o
                  /\ \A i \in 1..(HistoryLimit - 1) : r[i] = h[i + 1]
<1>1. h \in Seq(Obs) /\ Len(h) <= HistoryLimit /\ Len(h) \in Nat
  BY HistoryIsSeq
<1>2. HistoryLimit \in Nat /\ HistoryLimit >= 1
  BY StoreAssumption
<1>3. CASE Len(h) < HistoryLimit
  <2>1. /\ Len(Append(h, o)) = Len(h) + 1 /\ Append(h, o)[Len(h) + 1] = o
        /\ \A i \in 1..Len(h) : Append(h, o)[i] = h[i]
    BY <1>1, AppendProperties
  <2> QED BY <1>3, <2>1 DEF Recorded
<1>4. CASE ~(Len(h) < HistoryLimit)
  <2>1. h # <<>> /\ Len(h) = HistoryLimit
    BY <1>1, <1>2, <1>4
  <2> DEFINE g == Tail(h)
  <2>2. g \in Seq(Obs) /\ Len(g) = HistoryLimit - 1
        /\ \A i \in 1..(HistoryLimit - 1) : g[i] = h[i + 1]
    BY <1>1, <1>2, <2>1, HeadTailProperties
  <2> HIDE DEF g
  <2>3. /\ Len(Append(g, o)) = HistoryLimit /\ Append(g, o)[HistoryLimit] = o
        /\ \A i \in 1..(HistoryLimit - 1) : Append(g, o)[i] = g[i]
    BY <1>2, <2>2, AppendProperties
  <2>4. Recorded(h, o) = Append(g, o)
    BY <1>4 DEF Recorded, g
  <2> QED BY <1>4, <2>1, <2>2, <2>3, <2>4
<1> QED BY <1>3, <1>4

\* Recording the next observation keeps the order, and covers what was covered.
LEMMA RecordedCovers ==
  ASSUME NEW h \in Histories, NEW s \in Histories, count \in Nat, count + 1 \in Obs,
         Ordered(h)
  PROVE  /\ InOrder(Recorded(h, count + 1), count + 1)
         /\ Ordered(s) /\ Covered(s, h) => Covered(s, Recorded(h, count + 1))
<1> DEFINE r == Recorded(h, count + 1)
<1>1. /\ HistoryLimit \in Nat \ {0} /\ Len(h) \in Nat /\ Len(s) \in Nat
      /\ \A i \in 1..Len(h) : h[i] \in Nat
      /\ \A i \in 1..Len(s) : s[i] \in Nat
  BY HistoryIsSeq, StoreAssumption DEF Obs
<1>2. IF Len(h) < HistoryLimit
      THEN /\ Len(r) = Len(h) + 1 /\ r[Len(h) + 1] = count + 1
           /\ \A i \in 1..Len(h) : r[i] = h[i]
      ELSE /\ Len(h) = HistoryLimit /\ Len(r) = HistoryLimit /\ r[HistoryLimit] = count + 1
           /\ \A i \in 1..(HistoryLimit - 1) : r[i] = h[i + 1]
  BY RecordedPlaces
<1> HIDE DEF r
<1>3. /\ \A i, j \in 1..Len(r) : i < j => r[i] < r[j]
      /\ \A i \in 1..Len(r) : r[i] <= count + 1
  <2>1. /\ \A i, j \in 1..Len(h) : i < j => h[i] < h[j]
        /\ \A i \in 1..Len(h) : h[i] <= count
    BY DEF Ordered, InOrder
  <2>2. CASE Len(h) < HistoryLimit
    <3>1. \A i \in 1..Len(r) : r[i] = IF i <= Len(h) THEN h[i] ELSE count + 1
      BY <1>1, <1>2, <2>2
    <3>2. Len(r) = Len(h) + 1
      BY <1>2, <2>2
    <3> QED BY <1>1, <2>1, <3>1, <3>2
  <2>3. CASE ~(Len(h) < HistoryLimit)
    <3>1. \A i \in 1..Len(r) : r[i] = IF i < HistoryLimit THEN h[i + 1] ELSE count + 1
      BY <1>1, <1>2, <2>3
    <3>2. Len(r) = HistoryLimit /\ Len(h) = HistoryLimit
      BY <1>2, <2>3
    <3>3. ASSUME NEW i \in 1..Len(r) PROVE r[i] <= count + 1
      <4>1. CASE i < HistoryLimit
        <5>1. i + 1 \in 1..Len(h) /\ r[i] = h[i + 1]
          BY <1>1, <3>1, <3>2, <4>1
        <5> QED BY <1>1, <2>1, <5>1
      <4>2. CASE ~(i < HistoryLimit)
        BY <1>1, <3>1, <3>2, <4>2
      <4> QED BY <4>1, <4>2
    <3>4. ASSUME NEW i \in 1..Len(r), NEW j \in 1..Len(r), i < j PROVE r[i] < r[j]
      <4>1. i + 1 \in 1..Len(h) /\ r[i] = h[i + 1]
        BY <1>1, <3>1, <3>2, <3>4
      <4>2. CASE j < HistoryLimit
        <5>1. j + 1 \in 1..Len(h) /\ r[j] = h[j + 1]
          BY <1>1, <3>1, <3>2, <4>2
        <5> QED BY <1>1, <2>1, <3>4, <4>1, <5>1
      <4>3. CASE ~(j < HistoryLimit)
        BY <1>1, <2>1, <3>1, <3>2, <4>1, <4>3
      <4> QED BY <4>2, <4>3
    <3> QED BY <3>3, <3>4
  <2> QED BY <2>2, <2>3
<1>4. ASSUME Ordered(s), Covered(s, h), NEW i \in 1..Len(s)
      PROVE  \/ \E j \in 1..Len(r) : r[j] = s[i]
             \/ Len(r) = HistoryLimit /\ \A j \in 1..Len(r) : s[i] < r[j]
  <2>1. s[i] <= count
    BY <1>4 DEF Ordered, InOrder
  <2>2. CASE Len(h) < HistoryLimit
    <3>1. PICK j \in 1..Len(h) : h[j] = s[i]
      BY <1>1, <1>4, <2>2 DEF Covered
    <3>2. j \in 1..Len(r) /\ r[j] = s[i]
      BY <1>1, <1>2, <2>2, <3>1
    <3> QED BY <3>2
  <2>3. CASE ~(Len(h) < HistoryLimit)
    <3>1. \A j \in 1..Len(r) : r[j] = IF j < HistoryLimit THEN h[j + 1] ELSE count + 1
      BY <1>1, <1>2, <2>3
    <3>2. CASE \E j \in 1..Len(h) : h[j] = s[i]
      <4>1. PICK j \in 1..Len(h) : h[j] = s[i]
        BY <3>2
      <4>2. CASE j = 1
        <5>1. \A k \in 2..Len(h) : s[i] < h[k]
          BY <1>1, <4>1, <4>2 DEF Ordered, InOrder
        <5>2. \A k \in 1..Len(r) : s[i] < r[k]
          <6> TAKE k \in 1..Len(r)
          <6>1. CASE k < HistoryLimit
            BY <1>1, <1>2, <2>3, <3>1, <5>1, <6>1
          <6>2. CASE ~(k < HistoryLimit)
            BY <1>1, <2>1, <3>1, <6>2
          <6> QED BY <6>1, <6>2
        <5> QED BY <1>2, <2>3, <5>2
      <4>3. CASE j # 1
        <5>1. j - 1 \in 1..Len(r) /\ r[j - 1] = s[i]
          BY <1>1, <1>2, <2>3, <3>1, <4>1, <4>3
        <5> QED BY <5>1
      <4> QED BY <4>2, <4>3
    <3>3. CASE ~\E j \in 1..Len(h) : h[j] = s[i]
      <4>1. \A k \in 1..Len(h) : s[i] < h[k]
        BY <1>4, <3>3 DEF Covered
      <4>2. \A k \in 1..Len(r) : s[i] < r[k]
        <5> TAKE k \in 1..Len(r)
        <5>1. CASE k < HistoryLimit
          <6>1. k + 1 \in 1..Len(h) /\ r[k] = h[k + 1]
            BY <1>1, <1>2, <2>3, <3>1, <5>1
          <6> QED BY <4>1, <6>1
        <5>2. CASE ~(k < HistoryLimit)
          BY <1>1, <2>1, <3>1, <5>2
        <5> QED BY <5>1, <5>2
      <4> QED BY <1>2, <2>3, <4>2
    <3> QED BY <3>2, <3>3
  <2> QED BY <2>2, <2>3
<1>5. InOrder(r, count + 1)
  BY <1>3 DEF InOrder
<1>6. Ordered(s) /\ Covered(s, h) => Covered(s, r)
  BY <1>4 DEF Covered
<1> QED BY <1>5, <1>6 DEF r

\* A history in order holds as many observations as it is long.
LEMMA OrderedCount ==
  ASSUME NEW h \in Histories, Ordered(h)
  PROVE  Cardinality(Range(h)) = Len(h)
<1>1. h \in Seq(Obs) /\ Len(h) \in Nat /\ \A i \in 1..Len(h) : h[i] \in Nat
  BY HistoryValues
<1>2. DOMAIN h = 1..Len(h) /\ Range(h) = {h[i] : i \in 1..Len(h)}
  BY <1>1 DEF Range
<1>3. h \in Bijection(1..Len(h), Range(h))
  <2>1. \A i, j \in 1..Len(h) : h[i] = h[j] => i = j
    BY <1>1 DEF Ordered, InOrder
  <2>2. h \in [1..Len(h) -> Range(h)]
    BY <1>1, <1>2
  <2>3. \A t \in Range(h) : \E i \in 1..Len(h) : h[i] = t
    BY <1>2
  <2> QED BY <2>1, <2>2, <2>3 DEF Bijection, Injection, Surjection, IsInjective
<1>4. IsFiniteSet(1..Len(h)) /\ Cardinality(1..Len(h)) = Len(h)
  BY <1>1, FS_Interval
<1>5. ExistsBijection(1..Len(h), Range(h))
  BY <1>3 DEF ExistsBijection
<1> QED BY <1>4, <1>5, FS_Bijection

\* Only a rename changes the state file.
LEMMA StateKept ==
  ASSUME NEW p, Procs = {p}, TypeOK, WholeInv,
         \/ Load(p) \/ Settle(p) \/ Create(p) \/ Write(p) \/ SaveFails(p) \/ Stop(p)
  PROVE  disk'["state"] = disk["state"]
<1>1. /\ p \in Procs /\ "state" \in Names /\ "temp" \in Names
      /\ disk \in [Names -> Documents \cup {None}]
  BY DEF TypeOK, Names
<1>2. "state" \notin WrittenBy(p)
  BY DEF WrittenBy, WholeInv
<1>3. \A data : LeftBy(p, data)["state"] = disk["state"]
  BY <1>1, <1>2 DEF LeftBy
<1>4. CASE Load(p) \/ Settle(p)
  BY <1>4 DEF Load, Settle
<1>5. CASE Create(p)
  BY <1>1, <1>5 DEF Create
<1>6. CASE Write(p) \/ SaveFails(p) \/ Stop(p)
  BY <1>3, <1>6 DEF Write, SaveFails, Stop
<1> QED BY <1>4, <1>5, <1>6

\* What is renamed is the history in memory.
LEMMA WritesMemory ==
  ASSUME NEW p, Procs = {p}, TypeOK, WholeInv, Write(p)
  PROVE  disk'["temp"].data = memory[p] /\ memory' = memory /\ count' = count
<1>1. /\ \A n \in Names : n \in {"state", "temp"}
      /\ "state" \in Names /\ "temp" \in Names /\ disk \in [Names -> Documents \cup {None}]
      /\ phase[p] = "write" /\ memory' = memory /\ count' = count
  BY DEF TypeOK, Names, Write
<1>2. disk["temp"] # None /\ disk["temp"].writers = {p} /\ ~disk["temp"].mixed
  BY <1>1 DEF WholeInv
<1>3. WrittenBy(p) = {"temp"}
  BY <1>1, <1>2 DEF WrittenBy, WholeInv
<1>4. PICK data \in Outcomes(p, disk["temp"]) : disk' = LeftBy(p, data)
  BY <1>3 DEF Write
<1>5. data = memory[p]
  BY <1>2, <1>4 DEF Outcomes
<1>6. disk'["temp"] = [disk["temp"] EXCEPT !.data = memory[p], !.writers = @ \ {p}]
  BY <1>1, <1>3, <1>4, <1>5 DEF LeftBy
<1>7. disk["temp"] \in Documents
  BY <1>1, <1>2
<1> QED BY <1>1, <1>6, <1>7 DEF Documents

LEMMA KeptStep ==
  ASSUME NEW p, Procs = {p}, LoadCanFail = FALSE, TypeOK, WholeInv, KeptInv, Next
  PROVE  KeptInv'
<1> DEFINE s == disk["state"]
<1>1. /\ p \in Procs /\ \A q \in Procs : q = p
      /\ phase \in [Procs -> Phases] /\ memory \in [Procs -> Histories] /\ count \in 0..MaxObs
      /\ disk \in [Names -> Documents \cup {None}] /\ "state" \in Names /\ "temp" \in Names
      /\ MaxObs \in Nat
  BY StoreAssumption DEF TypeOK, Names
<1>2. s # None => s.data # Torn /\ s \in Documents /\ s.data \in Histories
  BY <1>1 DEF WholeInv, Documents
<1>3. CASE Load(p)
  <2>1. /\ disk' = disk /\ count' = count /\ phase'[p] = "idle"
        /\ memory'[p] = IF s # None THEN s.data ELSE <<>>
    BY <1>1, <1>2, <1>3 DEF Load, Loads, Parses
  <2>2. Ordered(<<>>)' /\ (s # None => Ordered(s.data)')
    BY <2>1 DEF KeptInv, Ordered, InOrder
  <2>3. s # None => Covered(s.data, s.data)
    BY DEF Covered
  <2> QED BY <1>1, <2>1, <2>2, <2>3 DEF KeptInv
<1>4. CASE Settle(p)
  <2>1. disk' = disk /\ phase[p] = "idle" /\ phase'[p] = "create"
    BY <1>1, <1>4 DEF Settle
  <2>2. Ordered(memory[p]) /\ (s # None => Ordered(s.data) /\ Covered(s.data, memory[p]))
    BY <1>1, <2>1 DEF KeptInv
  <2>3. CASE UNCHANGED <<count, memory>>
    BY <1>1, <2>1, <2>2, <2>3 DEF KeptInv, Ordered
  <2>4. CASE /\ count < MaxObs /\ count' = count + 1
             /\ memory' = [memory EXCEPT ![p] = Recorded(@, count')]
    <3>1. count \in Nat /\ count + 1 \in Obs /\ memory[p] \in Histories
      BY <1>1, <2>4 DEF Obs
    <3>2. memory'[p] = Recorded(memory[p], count + 1)
      BY <1>1, <2>4
    <3>3. Ordered(memory[p])'
      BY <2>2, <2>4, <3>1, <3>2, RecordedCovers, <1>1, NoHistory DEF Ordered
    <3>4. s # None => Covered(s.data, memory'[p])
      BY <1>2, <2>2, <3>1, <3>2, RecordedCovers
    <3>5. s # None => Ordered(s.data)'
      <4> HAVE s # None
      <4>1. Len(s.data) \in Nat /\ \A i \in 1..Len(s.data) : s.data[i] \in Nat
        BY <1>2, HistoryValues
      <4>2. InOrder(s.data, count)
        BY <2>2 DEF Ordered
      <4>3. InOrder(s.data, count + 1)
        BY <3>1, <4>1, <4>2 DEF InOrder
      <4> QED BY <2>1, <2>4, <4>3 DEF Ordered
    <3> QED BY <1>1, <2>1, <3>3, <3>4, <3>5 DEF KeptInv
  <2> QED BY <1>4, <2>3, <2>4 DEF Settle
<1>5. CASE Create(p)
  <2>1. /\ UNCHANGED <<memory, count>> /\ phase[p] = "create" /\ phase'[p] = "write"
        /\ disk'["state"] = s
    BY <1>1, <1>5 DEF Create
  <2> QED BY <1>1, <2>1 DEF KeptInv, Ordered
<1>6. CASE Write(p)
  <2>1. /\ memory' = memory /\ count' = count /\ phase[p] = "write"
        /\ disk'["temp"].data = memory[p] /\ disk'["state"] = s
    BY <1>6, StateKept, WritesMemory DEF Write
  <2> QED BY <1>1, <2>1 DEF KeptInv, Ordered
<1>7. CASE Rename(p)
  <2>1. /\ UNCHANGED <<memory, count>> /\ phase[p] = "rename" /\ phase'[p] = "idle"
        /\ disk'["state"] = disk["temp"]
    BY <1>1, <1>7 DEF Rename, WholeInv, Names
  <2>2. disk["temp"].data = memory[p] /\ Ordered(memory[p])
    BY <1>1, <2>1 DEF KeptInv
  <2>3. Covered(memory[p], memory[p])
    BY DEF Covered
  <2> QED BY <1>1, <2>1, <2>2, <2>3 DEF KeptInv, Ordered
<1>8. CASE SaveFails(p) \/ Stop(p)
  <2>2. disk'["state"] = s /\ count' = count
    BY <1>8, StateKept DEF SaveFails, Stop
  <2>3. CASE SaveFails(p)
    BY <1>1, <2>2, <2>3 DEF SaveFails, KeptInv, Ordered
  <2>4. CASE Stop(p)
    BY <1>1, <2>2, <2>4 DEF Stop, KeptInv, Ordered
  <2> QED BY <1>8, <2>3, <2>4
<1> QED BY <1>1, <1>3, <1>4, <1>5, <1>6, <1>7, <1>8 DEF Next

LEMMA ForgetsNothing ==
  ASSUME NEW p, Procs = {p}, TypeOK, WholeInv, KeptInv, Next,
         NEW o \in Saved \ Saved'
  PROVE  Cardinality({n \in Saved' : n > o}) = HistoryLimit
<1>1. /\ p \in Procs /\ \A q \in Procs : q = p
      /\ memory[p] \in Histories
      /\ disk \in [Names -> Documents \cup {None}] /\ "state" \in Names /\ "temp" \in Names
  BY DEF TypeOK, Names
<1>2. Parses(disk["state"]) /\ disk["state"].data \in Histories
  BY <1>1 DEF Saved, Parses, Documents
<1>3. Rename(p)
  BY StateKept DEF Saved, Parses, Next
<1>4. /\ phase[p] = "rename" /\ disk'["state"] = disk["temp"] /\ disk["temp"] # None
  BY <1>1, <1>3 DEF Rename, WholeInv, Names
<1>5. /\ disk["temp"].data = memory[p] /\ Ordered(memory[p])
      /\ Covered(disk["state"].data, memory[p]) /\ disk["temp"].data # Torn
  BY <1>1, <1>2, <1>4 DEF KeptInv, WholeInv, Parses
<1>6. Saved' = Range(memory[p])
  BY <1>4, <1>5 DEF Saved, Parses
<1> DEFINE h == disk["state"].data
           m == memory[p]
<1>7. /\ m \in Seq(Obs) /\ h \in Seq(Obs)
      /\ Range(m) = {m[j] : j \in 1..Len(m)} /\ Range(h) = {h[i] : i \in 1..Len(h)}
  BY <1>1, <1>2, HistoryIsSeq DEF Range
<1>8. PICK i \in 1..Len(h) : o = h[i]
  BY <1>2, <1>7 DEF Saved
<1>9. ~\E j \in 1..Len(m) : m[j] = h[i]
  BY <1>6, <1>7, <1>8
<1>10. Len(m) = HistoryLimit /\ \A j \in 1..Len(m) : o < m[j]
  BY <1>5, <1>8, <1>9 DEF Covered
<1>11. {n \in Saved' : n > o} = Range(m)
  <2>1. \A n \in Range(m) : n > o
    BY <1>1, <1>7, <1>8, <1>10 DEF Obs
  <2> QED BY <1>6, <2>1
<1> QED BY <1>1, <1>5, <1>10, <1>11, OrderedCount

\* An observation leaves the state file of one client only when a full history of newer
\* ones replaces it, whatever fails and wherever the process is stopped; a state file
\* that cannot be read is the one exception (client.rs:191).
THEOREM NothingIsForgotten ==
  ASSUME NEW p, Procs = {p}, LoadCanFail = FALSE
  PROVE  Spec => NothingForgotten
<1>1. Init => WholeInv /\ KeptInv
  BY DEF Init, WholeInv, KeptInv, Names
<1>2. TypeOK /\ WholeInv /\ KeptInv /\ [Next]_vars => WholeInv' /\ KeptInv'
  <2> SUFFICES ASSUME TypeOK, WholeInv, KeptInv, [Next]_vars PROVE WholeInv' /\ KeptInv'
    OBVIOUS
  <2>1. WholeInv'
    BY WholeStep
  <2>2. CASE UNCHANGED vars
    BY <2>1, <2>2 DEF vars, KeptInv, Ordered
  <2>3. CASE Next
    BY <2>1, <2>3, KeptStep
  <2> QED BY <2>1, <2>2, <2>3
<1>3. TypeOK /\ WholeInv /\ KeptInv /\ [Next]_vars
        => [\A o \in Saved \ Saved' : Cardinality({n \in Saved' : n > o}) = HistoryLimit]_vars
  BY ForgetsNothing
<1> QED BY <1>1, <1>2, <1>3, StoreTypes, PTL DEF Spec, NothingForgotten

-----------------------------------------------------------------------------
(* The forecast made from a history.                                       *)

\* A rank from 1 to the number of the values is that of one of them.
LEMMA RankedIs ==
  ASSUME NEW D, IsFiniteSet(D), NEW values \in [D -> Nat], NEW rank \in 1..Cardinality(D)
  PROVE  /\ Ranked(values, rank) \in Range(values)
         /\ Cardinality({k \in D : values[k] < Ranked(values, rank)}) < rank
         /\ Cardinality({k \in D : values[k] <= Ranked(values, rank)}) >= rank
<1> DEFINE Below(x) == {k \in D : values[k] < x}
           UpTo(x) == {k \in D : values[k] <= x}
           Is(q) == Cardinality(Below(q)) < rank /\ Cardinality(UpTo(q)) >= rank
           Enough == {x \in Range(values) : Cardinality(UpTo(x)) >= rank}
<1>1. \A x \in Range(values) : x \in Nat
  BY DEF Range
<1>2. \A T \in SUBSET D : IsFiniteSet(T) /\ Cardinality(T) \in Nat /\ Cardinality(T) <= Cardinality(D)
  BY FS_Subset, FS_CardinalityType
<1>3. Enough # {}
  <2>1. D # {}
    BY FS_EmptySet
  <2>2. Range(values) = {values[k] : k \in D}
    BY DEF Range
  <2>3. Range(values) \in SUBSET Int /\ Range(values) # {}
    BY <1>1, <2>1, <2>2
  <2>4. IsFiniteSet(Range(values))
    <3>1. values \in Surjection(D, Range(values))
      BY <2>2 DEF Surjection
    <3> QED BY <3>1, FS_Surjection
  <2>5. PICK x \in Range(values) : \A y \in Range(values) : y <= x
    BY <2>3, <2>4, GreatestExists
  <2>6. UpTo(x) = D
    BY <2>2, <2>5
  <2>7. Cardinality(D) >= rank
    BY <1>2
  <2> QED BY <2>5, <2>6, <2>7
<1>4. PICK q \in Enough : \A x \in Enough : q <= x
  <2>1. Enough \in SUBSET Nat
    BY <1>1
  <2> HIDE DEF Enough
  <2> QED BY <1>3, <2>1, LeastExists
<1>5. Cardinality(Below(q)) < rank
  <2>1. CASE Below(q) = {}
    BY <2>1, FS_EmptySet
  <2>2. CASE Below(q) # {}
    <3> DEFINE V == {values[k] : k \in Below(q)}
    <3>1. V \in SUBSET Int /\ V # {}
      BY <2>2
    <3>2. IsFiniteSet(V)
      <4> DEFINE f == [k \in Below(q) |-> values[k]]
      <4>1. f \in Surjection(Below(q), V)
        BY DEF Surjection
      <4>2. IsFiniteSet(Below(q))
        BY <1>2
      <4> HIDE DEF f, V, Below
      <4> QED BY <4>1, <4>2, FS_Surjection
    <3>3. PICK x \in V : \A y \in V : y <= x
      BY <3>1, <3>2, GreatestExists
    <3>4. x \in Range(values) /\ x \in Nat /\ x < q
      BY <1>1, <3>3 DEF Range
    <3>5. UpTo(x) = Below(q)
      <4>1. \A k \in D : values[k] <= x => values[k] < q
        <5>1. \A k \in D : values[k] \in Nat
          OBVIOUS
        <5>2. x < q /\ x \in Nat /\ q \in Nat
          BY <1>1, <1>4, <3>4
        <5> QED BY <5>1, <5>2
      <4> QED BY <3>3, <4>1
    <3>6. x \notin Enough
      <4>1. x < q /\ x \in Nat /\ q \in Nat /\ \A y \in Enough : q <= y
        BY <1>1, <1>4, <3>4
      <4> HIDE DEF Enough
      <4> QED BY <4>1
    <3>7. Cardinality(Below(q)) \in Nat
      BY <1>2
    <3> QED BY <3>4, <3>5, <3>6, <3>7
  <2> QED BY <2>1, <2>2
<1>6. q \in Range(values) /\ Is(q)
  BY <1>5
<1>7. Ranked(values, rank) = CHOOSE x \in Range(values) : Is(x)
  BY DEF Ranked
<1>8. Ranked(values, rank) \in Range(values) /\ Is(Ranked(values, rank))
  <2> HIDE DEF Is
  <2> QED BY <1>6, <1>7
<1> QED BY <1>8

LEMMA RankIs ==
  ASSUME NEW percent \in {50, 95}, NEW n \in Nat \ {0}
  PROVE  /\ Rank(percent, n) \in 1..n
         /\ 100 * Rank(percent, n) >= percent * n
         /\ 100 * (Rank(percent, n) - 1) < percent * n
<1>1. CASE percent = 50
  <2>1. (50 * n + 99) \div 100 \in Int
    OBVIOUS
  <2> QED BY <1>1, <2>1, MaxOfTwo DEF Rank
<1>2. CASE percent = 95
  <2>1. (95 * n + 99) \div 100 \in Int
    OBVIOUS
  <2> QED BY <1>2, <2>1, MaxOfTwo DEF Rank
<1> QED BY <1>1, <1>2

LEMMA RanksGrow ==
  ASSUME NEW n \in Nat \ {0}
  PROVE  Rank(50, n) <= Rank(95, n)
<1>1. (50 * n + 99) \div 100 \in Int /\ (95 * n + 99) \div 100 \in Int
  OBVIOUS
<1>2. (50 * n + 99) \div 100 <= (95 * n + 99) \div 100
  OBVIOUS
<1> QED BY <1>1, <1>2, MaxOfTwo DEF Rank

Below(values, x) == {k \in DOMAIN values : values[k] < x}
UpTo(values, x) == {k \in DOMAIN values : values[k] <= x}

LEMMA QuantileIs ==
  ASSUME NEW D, IsFiniteSet(D), D # {}, NEW values \in [D -> Nat], NEW percent \in {50, 95}
  PROVE  /\ Cardinality(D) \in Nat \ {0} /\ Samples(values) = Cardinality(D)
         /\ Rank(percent, Cardinality(D)) \in 1..Cardinality(D)
         /\ Quantile(values, percent) \in Range(values) /\ Quantile(values, percent) \in Nat
         /\ Cardinality(Below(values, Quantile(values, percent))) < Rank(percent, Cardinality(D))
         /\ Cardinality(UpTo(values, Quantile(values, percent))) >= Rank(percent, Cardinality(D))
<1>1. Cardinality(D) \in Nat \ {0} /\ Samples(values) = Cardinality(D)
  BY FS_EmptySet, FS_CardinalityType DEF Samples
<1>2. Rank(percent, Cardinality(D)) \in 1..Cardinality(D)
  BY <1>1, RankIs
<1>3. Quantile(values, percent) = Ranked(values, Rank(percent, Cardinality(D)))
  BY <1>1 DEF Quantile
<1>4. \A x \in Range(values) : x \in Nat
  BY DEF Range
<1> QED BY <1>1, <1>2, <1>3, <1>4, RankedIs DEF Below, UpTo

LEMMA QuantileCovers ==
  ASSUME NEW D, IsFiniteSet(D), D # {}, NEW values \in [D -> Nat], NEW percent \in {50, 95}
  PROVE  Covers(Quantile(values, percent), values, percent)
<1> DEFINE n == Cardinality(D)
           q == Quantile(values, percent)
           rank == Rank(percent, n)
<1>1. n \in Nat \ {0} /\ Samples(values) = n /\ q \in Nat /\ q \in Range(values)
  BY QuantileIs
<1>2. rank \in Nat /\ 100 * rank >= percent * n /\ 100 * (rank - 1) < percent * n
  BY <1>1, RankIs
<1>3. Cardinality(Below(values, q)) < rank /\ Cardinality(UpTo(values, q)) >= rank
  BY QuantileIs
<1>4. \A T \in SUBSET D : Cardinality(T) \in Nat
  BY FS_Subset, FS_CardinalityType
<1>5. 100 * Cardinality(UpTo(values, q)) >= percent * n
  <2>1. Cardinality(UpTo(values, q)) \in Nat /\ percent * n \in Nat
    BY <1>1, <1>4 DEF UpTo
  <2> HIDE DEF n, q, rank
  <2> QED BY <1>2, <1>3, <2>1
<1>6. ASSUME NEW x \in Range(values), x < q PROVE ~(100 * Cardinality(UpTo(values, x)) >= percent * n)
  <2>1. x \in Nat /\ \A k \in D : values[k] \in Nat
    BY <1>6 DEF Range
  <2>2. UpTo(values, x) \subseteq Below(values, q)
    BY <1>1, <1>6, <2>1 DEF Below, UpTo
  <2>3. Cardinality(UpTo(values, x)) <= Cardinality(Below(values, q))
    <3>1. IsFiniteSet(Below(values, q))
      BY FS_Subset DEF Below
    <3> HIDE DEF q
    <3> QED BY <2>2, <3>1, FS_Subset
  <2>4. /\ Cardinality(UpTo(values, x)) \in Nat /\ Cardinality(Below(values, q)) \in Nat
        /\ percent * n \in Nat
    BY <1>1, <1>4 DEF Below, UpTo
  <2> HIDE DEF n, q, rank
  <2> QED BY <1>2, <1>3, <2>3, <2>4
<1>7. \A x : {k \in DOMAIN values : values[k] <= x} = UpTo(values, x)
  BY DEF UpTo
<1> HIDE DEF n, q
<1> QED BY <1>1, <1>5, <1>6, <1>7 DEF Covers, q

LEMMA QuantilesGrow ==
  ASSUME NEW D, IsFiniteSet(D), D # {}, NEW values \in [D -> Nat]
  PROVE  Quantile(values, 50) <= Quantile(values, 95)
<1> DEFINE low == Quantile(values, 50)
           high == Quantile(values, 95)
           n == Cardinality(D)
<1>1. /\ low \in Nat /\ high \in Nat /\ n \in Nat \ {0}
      /\ Rank(50, n) \in Nat /\ Rank(95, n) \in Nat
      /\ Cardinality(Below(values, low)) < Rank(50, n)
      /\ Cardinality(UpTo(values, high)) >= Rank(95, n)
  BY QuantileIs
<1>2. Rank(50, n) <= Rank(95, n)
  BY <1>1, RanksGrow
<1> SUFFICES ASSUME high < low PROVE FALSE
  BY <1>1
<1>3. UpTo(values, high) \subseteq Below(values, low)
  <2>1. \A k \in D : values[k] \in Nat
    OBVIOUS
  <2> QED BY <1>1, <2>1 DEF Below, UpTo
<1>4. /\ IsFiniteSet(Below(values, low)) /\ Cardinality(Below(values, low)) \in Nat /\ Cardinality(UpTo(values, high)) \in Nat
  BY FS_Subset, FS_CardinalityType DEF Below, UpTo
<1>5. Cardinality(UpTo(values, high)) <= Cardinality(Below(values, low))
  <2> QED BY <1>3, <1>4, FS_Subset
<1> HIDE DEF n, low, high
<1> QED BY <1>1, <1>2, <1>4, <1>5

LEMMA DivType ==
  ASSUME NEW a \in Nat, NEW b \in Nat \ {0}
  PROVE  a \div b \in Nat
  OBVIOUS

LEMMA RatioType ==
  ASSUME NEW o \in Obs
  PROVE  Ratio(o) \in Nat /\ Overhead(o) \in Nat
<1>1. /\ Sample[o].baseline \in Nat \ {0} /\ Sample[o].local \in Nat /\ Sample[o].queue \in Nat
      /\ Sample[o].manager \in Nat /\ Sample[o].billed \in Nat
  BY SampleAssumption
<1>2. Ratio(o) \in Nat
  <2>1. 100 * Sample[o].local \in Nat
    BY <1>1
  <2> QED BY <1>1, <2>1, DivType DEF Ratio
<1>3. Max({Sample[o].manager, Sample[o].billed}) - Sample[o].local - Sample[o].queue \in Int
  BY <1>1, MaxOfTwo
<1>4. Overhead(o) \in Nat
  BY <1>3, MaxOfTwo DEF Overhead
<1> QED BY <1>2, <1>4

\* The values of a history are natural numbers at finitely many places.
LEMMA ObservedType ==
  ASSUME NEW h \in Histories, NEW task
  PROVE  LET ratios == Ratios(h, task)
             all == Observed(h, LAMBDA o : TRUE, Overhead)
         IN  /\ IsFiniteSet(DOMAIN ratios) /\ ratios \in [DOMAIN ratios -> Nat]
             /\ IsFiniteSet(DOMAIN all) /\ all \in [DOMAIN all -> Nat]
<1>1. \A k \in DOMAIN h : h[k] \in Obs
  BY DEF Histories
<1>2. \A S \in SUBSET DOMAIN h : IsFiniteSet(S)
  <2>1. PICK n \in 0..HistoryLimit : h \in [1..n -> Obs]
    BY DEF Histories
  <2>2. n \in Int /\ DOMAIN h = 1..n
    BY <2>1, StoreAssumption
  <2>3. IsFiniteSet(DOMAIN h)
    BY <2>2, FS_Interval
  <2> QED BY <2>3, FS_Subset
<1>3. /\ IsFiniteSet(DOMAIN Ratios(h, task))
      /\ Ratios(h, task) \in [DOMAIN Ratios(h, task) -> Nat]
  <2> DEFINE E == {k \in DOMAIN h : Sample[h[k]].key = task.key}
             T == {k \in DOMAIN h : Sample[h[k]].type = task.type}
             Of(S) == [k \in S |-> Ratio(h[k])]
  <2>1. Ratios(h, task) = Of(E) \/ Ratios(h, task) = Of(T)
    BY DEF Ratios, Observed
  <2>2. \A S \in SUBSET DOMAIN h : Of(S) \in [S -> Nat]
    BY <1>1, RatioType
  <2>3. E \in SUBSET DOMAIN h /\ T \in SUBSET DOMAIN h /\ \A S : DOMAIN Of(S) = S
    OBVIOUS
  <2> HIDE DEF E, T, Of
  <2> QED BY <1>2, <2>1, <2>2, <2>3
<1>4. LET all == Observed(h, LAMBDA o : TRUE, Overhead)
      IN  IsFiniteSet(DOMAIN all) /\ all \in [DOMAIN all -> Nat]
  <2> DEFINE Of == [k \in DOMAIN h |-> Overhead(h[k])]
  <2>1. Observed(h, LAMBDA o : TRUE, Overhead) = Of
    <3>1. {i \in DOMAIN h : TRUE} = DOMAIN h
      OBVIOUS
    <3> QED BY <3>1 DEF Observed
  <2>2. Of \in [DOMAIN h -> Nat] /\ IsFiniteSet(DOMAIN h)
    BY <1>1, <1>2, RatioType
  <2> HIDE DEF Of
  <2> QED BY <2>1, <2>2
<1> QED BY <1>3, <1>4

\* No operator is applied to operators from here on.
Overheads(h) == Observed(h, LAMBDA o : TRUE, Overhead)

LEMMA DeliveryIs ==
  ASSUME NEW h \in Histories, Samples(Overheads(h)) > 0
  PROVE  \E q \in Range(Overheads(h)) : Covers(q, Overheads(h), 95) /\ Delivery(h) >= q + 5
<1> DEFINE all == Overheads(h)
           q == Quantile(all, 95)
<1>1. IsFiniteSet(DOMAIN all) /\ all \in [DOMAIN all -> Nat]
  BY ObservedType DEF Overheads
<1>2. DOMAIN all # {}
  BY FS_EmptySet DEF Samples
<1>3. Delivery(h) = Max({5, Factor(all, 95, 50)}) + 5
  BY DEF Delivery, Overheads
<1> HIDE DEF all
<1>4. q \in Range(all) /\ q \in Nat /\ Covers(q, all, 95)
  BY <1>1, <1>2, QuantileIs, QuantileCovers
<1>5. Factor(all, 95, 50) = q
  BY DEF Factor, all
<1> HIDE DEF q
<1>6. Max({5, q}) \in Int /\ Max({5, q}) >= q
  BY <1>4, MaxOfTwo
<1> QED BY <1>3, <1>4, <1>5, <1>6 DEF all

LEMMA ReserveIs ==
  ASSUME NEW h \in Histories, NEW task, Samples(Ratios(h, task)) > 0
  PROVE  LET ratios == Ratios(h, task)
             q == Quantile(ratios, 95)
         IN  /\ q \in Range(ratios) /\ q \in Nat /\ Covers(q, ratios, 95)
             /\ Reserve(h, task) = Baseline * q * Margin(Samples(ratios))
             /\ Quantile(ratios, 50) \in Nat /\ Quantile(ratios, 50) <= q
             /\ Expected(h, task) = Baseline * Quantile(ratios, 50) * 105
<1> DEFINE ratios == Ratios(h, task)
<1>1. IsFiniteSet(DOMAIN ratios) /\ ratios \in [DOMAIN ratios -> Nat]
  BY ObservedType
<1>2. DOMAIN ratios # {}
  BY FS_EmptySet DEF Samples
<1>3. /\ Reserve(h, task) = Baseline * Factor(ratios, 95, ColdFactor(task)) * Margin(Samples(ratios))
      /\ Expected(h, task) = Baseline * Factor(ratios, 50, 100) * 105
  BY DEF Reserve, Expected
<1>4. /\ Factor(ratios, 95, ColdFactor(task)) = Quantile(ratios, 95)
      /\ Factor(ratios, 50, 100) = Quantile(ratios, 50)
  BY DEF Factor
<1> HIDE DEF ratios
<1>5. /\ Quantile(ratios, 95) \in Range(ratios) /\ Quantile(ratios, 95) \in Nat
      /\ Covers(Quantile(ratios, 95), ratios, 95)
      /\ Quantile(ratios, 50) \in Nat /\ Quantile(ratios, 50) <= Quantile(ratios, 95)
  BY <1>1, <1>2, QuantileIs, QuantileCovers, QuantilesGrow
<1> QED BY <1>3, <1>4, <1>5 DEF ratios

\* Whatever history of valid observations the crashes, the failed saves and the restarts
\* leave, the reserve is the least observed ratio that covers 95 % of the observed runs,
\* with its margin, and the delivery allowance covers 95 % of the overheads
\* (Learning::forecast and quantile, bidder.rs:73-143).
THEOREM ForecastIsCautious == Spec => []ForecastCovers
<1>1. TypeOK => ForecastCovers
  <2> SUFFICES ASSUME TypeOK, NEW p \in Procs
               PROVE  /\ \A task \in Tasks : Samples(Ratios(memory[p], task)) > 0 =>
                           \E q \in Range(Ratios(memory[p], task)) :
                             /\ Reserve(memory[p], task)
                                  = Baseline * q * Margin(Samples(Ratios(memory[p], task)))
                             /\ Covers(q, Ratios(memory[p], task), 95)
                      /\ Samples(Overheads(memory[p])) > 0 =>
                           \E q \in Range(Overheads(memory[p])) :
                             Covers(q, Overheads(memory[p]), 95) /\ Delivery(memory[p]) >= q + 5
    BY DEF ForecastCovers, Overheads
  <2>1. memory[p] \in Histories
    BY DEF TypeOK
  <2> QED BY <2>1, DeliveryIs, ReserveIs
<1> QED BY <1>1, StoreTypes, PTL

\* Whatever that history is, the empty one included, the time quoted to the manager is
\* within the time reserved for the deadline and the price: the median of the observed
\* ratios is below their 95th percentile, and every margin and cold factor keeps to it
\* (bidder.rs:115-139).
THEOREM QuoteIsCautious == Spec => []QuoteWithinReserve
<1>1. TypeOK => QuoteWithinReserve
  <2> SUFFICES ASSUME TypeOK, NEW p \in Procs, NEW task \in Tasks
               PROVE  Expected(memory[p], task) <= Reserve(memory[p], task)
    BY DEF QuoteWithinReserve
  <2> DEFINE h == memory[p]
             ratios == Ratios(h, task)
  <2>1. h \in Histories
    BY DEF TypeOK
  <2>2. Baseline \in Nat
    BY SampleAssumption
  <2> HIDE DEF h
  <2>3. CASE Samples(ratios) > 0
    <3> DEFINE low == Quantile(ratios, 50)
               high == Quantile(ratios, 95)
    <3>1. /\ low \in Nat /\ high \in Nat /\ low <= high
          /\ Expected(h, task) = Baseline * low * 105
          /\ Reserve(h, task) = Baseline * high * Margin(Samples(ratios))
      BY <2>1, <2>3, ReserveIs
    <3>2. Margin(Samples(ratios)) \in {105, 110}
      BY DEF Margin
    <3> HIDE DEF low, high, ratios
    <3>3. Baseline * low \in Nat /\ Baseline * high \in Nat /\ Baseline * low <= Baseline * high
      BY <2>2, <3>1
    <3>4. Baseline * low * 105 <= Baseline * high * Margin(Samples(ratios))
      BY <3>2, <3>3
    <3> QED BY <3>1, <3>4 DEF h
  <2>4. CASE ~(Samples(ratios) > 0)
    <3>1. IsFiniteSet(DOMAIN ratios)
      BY <2>1, ObservedType
    <3>2. Samples(ratios) \in Nat
      BY <3>1, FS_CardinalityType DEF Samples
    <3>3. Samples(ratios) = 0
      BY <2>4, <3>2
    <3>4. /\ Expected(h, task) = Baseline * 100 * 105
          /\ Reserve(h, task) = Baseline * ColdFactor(task) * 110
      BY <3>3 DEF Expected, Reserve, Factor, Margin
    <3>5. ColdFactor(task) \in {120, 300}
      BY DEF ColdFactor
    <3>6. Baseline * 100 * 105 <= Baseline * ColdFactor(task) * 110
      BY <2>2, <3>5
    <3> QED BY <3>4, <3>6 DEF h
  <2> QED BY <2>3, <2>4
<1> QED BY <1>1, StoreTypes, PTL

=============================================================================
