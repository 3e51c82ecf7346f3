--------------------------- MODULE StateTraceProofs ---------------------------
(***************************************************************************)
(* What a replay of the trace finds, for any number of snapshots, decisions*)
(* and restarts: which faults can hide a record, what the query for a time *)
(* answers, and that the state_id of a decision leads to the WorldState it *)
(* rests on.                                                               *)
(***************************************************************************)
EXTENDS StateTrace, SequenceTheorems, FiniteSetTheorems, WellFoundedInduction, TLAPS

Chunks == Records \cup {Torn}

(* Every line holds something; without a fault in writing it holds one     *)
(* record, and the next one starts a new line.                             *)
LinesInv ==
  /\ \A i \in 1..Len(lines) : Len(lines[i]) >= 1
  /\ unfinished => Len(lines) >= 1
  /\ "cut" \notin faults => ~unfinished /\ \A i \in 1..Len(lines) : IsRecord(i)

(* No more is appended to line i. *)
Complete(i) == i < Len(lines) \/ ~unfinished

(* Nothing is, or is yet to be, appended behind a record that is older.    *)
Ordered ==
  /\ \A i \in 1..Len(lines) : IsRecord(i) => RecordAt(i).at <= clock
  /\ \A w \in Writers : draft[w] # None => draft[w].at <= clock
  /\ \A w \in Writers : draft[w] # None =>
       \A i \in 1..Len(lines) : IsRecord(i) /\ Complete(i) => RecordAt(i).at <= draft[w].at
  /\ \A i, j \in 1..Len(lines) : i < j /\ IsRecord(i) =>
       \A k \in 1..Len(lines[j]) : lines[j][k] # Torn => RecordAt(i).at <= lines[j][k].at

InOrderOfTime == faults \cap {"clockStep", "overtaken"} = {}
FileInv == LinesInv /\ (InOrderOfTime => Ordered)

-----------------------------------------------------------------------------
LEMMA FirstIsLeast ==
  ASSUME NEW n \in Nat, NEW S, S \subseteq 1..n, S # {}
  PROVE  FirstOf(S) \in S /\ \A j \in S : FirstOf(S) <= j
<1> DEFINE R == StrictSubsetOrdering(1..n)
           T == {1..i : i \in S}
<1>1. T \subseteq SUBSET (1..n) /\ T # {}
  <2>1. \A i \in S : i \in 1..n /\ 1..i \subseteq 1..n
    OBVIOUS
  <2>2. PICK i \in S : TRUE
    OBVIOUS
  <2>3. 1..i \in T
    OBVIOUS
  <2>4. \A u \in T : u \in SUBSET (1..n)
    BY <2>1
  <2>5. QED
    BY <2>3, <2>4
<1>2. IsFiniteSet(1..n)
  BY FS_Interval
<1>3. IsWellFoundedOn(R, SUBSET (1..n))
  BY <1>2, FS_StrictSubsetOrderingWellFounded, FS_FiniteSubsetsOfFinite
<1>4. PICK t \in T : \A u \in T : <<u, t>> \notin R
  <2> HIDE DEF R, T
  <2> QED BY <1>1, <1>3, WFMin
<1>5. PICK x \in S : t = 1..x
  OBVIOUS
<1>6. ASSUME NEW y \in S, y < x PROVE FALSE
  <2>1. 1..y \subseteq t /\ 1..y # t /\ 1..y \in T
    BY <1>5, <1>6
  <2>2. <<1..y, t>> \in R
    BY <1>1, <2>1 DEF StrictSubsetOrdering
  <2>3. QED
    BY <1>4, <2>1, <2>2
<1>7. \A y \in S : x <= y
  BY <1>6
<1>8. QED
  BY <1>7 DEF FirstOf

(* A write at the end of the file starts a line or continues the last one. *)
LEMMA AppendedLines ==
  ASSUME lines \in Seq(Seq(Chunks)), unfinished \in BOOLEAN, unfinished => Len(lines) >= 1,
         NEW chunk \in Chunks, NEW L, L = Appended(chunk)
  PROVE  /\ L \in Seq(Seq(Chunks)) /\ Len(L) \in Nat /\ Len(L) >= 1
         /\ \A i \in 1..Len(L) : i # Len(L) => i \in 1..Len(lines) /\ L[i] = lines[i]
         /\ ~unfinished => Len(L) = Len(lines) + 1 /\ L[Len(L)] = <<chunk>>
         /\ unfinished => Len(L) = Len(lines) /\ L[Len(L)] = Append(lines[Len(L)], chunk)
<1>1. Len(lines) \in Nat
  OBVIOUS
<1>2. CASE unfinished
  <2> DEFINE n == Len(lines)
             e == Append(lines[n], chunk)
  <2>1. n \in 1..n /\ lines[n] \in Seq(Chunks)
    BY <1>1, <1>2
  <2>2. e \in Seq(Chunks)
    BY <2>1
  <2>3. L = [lines EXCEPT ![n] = e]
    BY <1>2 DEF Appended
  <2>4. /\ L \in Seq(Seq(Chunks)) /\ Len(L) = n
        /\ \A j \in 1..n : L[j] = IF j = n THEN e ELSE lines[j]
    <3> HIDE DEF e
    <3>1. QED
      BY <2>1, <2>2, <2>3, ExceptSeq
  <2>5. QED
    BY <1>1, <1>2, <2>1, <2>4
<1>3. CASE ~unfinished
  <2> DEFINE e == <<chunk>>
  <2>1. L = Append(lines, e) /\ e \in Seq(Chunks)
    BY <1>3 DEF Appended
  <2>2. /\ L \in Seq(Seq(Chunks)) /\ Len(L) = Len(lines) + 1 /\ L[Len(lines) + 1] = e
        /\ \A i \in 1..Len(lines) : L[i] = lines[i]
    <3> HIDE DEF e
    <3>1. QED
      BY <1>1, <2>1, AppendProperties
  <2>3. \A i \in 1..Len(L) : i # Len(L) => i \in 1..Len(lines)
    BY <1>1, <2>2
  <2>4. QED
    BY <1>1, <1>3, <2>2, <2>3
<1>4. QED
  BY <1>2, <1>3

(* The lines L hold what the file holds, and at their end one chunk more.  *)
HoldsAlso(L, chunk) ==
  /\ \A i \in 1..Len(L) : Len(L[i]) >= 1
  /\ \A i \in 1..Len(L) : \A k \in 1..Len(L[i]) :
       \/ i \in 1..Len(lines) /\ k \in 1..Len(lines[i]) /\ L[i][k] = lines[i][k]
       \/ i = Len(L) /\ k = Len(L[i]) /\ L[i][k] = chunk
  /\ \A i \in 1..Len(lines) : \A k \in 1..Len(lines[i]) :
       i \in 1..Len(L) /\ k \in 1..Len(L[i]) /\ L[i][k] = lines[i][k]
  /\ Len(L) \in 1..Len(L) /\ \E k \in 1..Len(L[Len(L)]) : L[Len(L)][k] = chunk
  /\ unfinished => Len(L[Len(L)]) >= 2

LEMMA AppendedChunks ==
  ASSUME lines \in Seq(Seq(Chunks)), unfinished \in BOOLEAN, LinesInv,
         NEW chunk \in Chunks, NEW L, L = Appended(chunk)
  PROVE  HoldsAlso(L, chunk)
<1> DEFINE n == Len(L)
<1>1. /\ L \in Seq(Seq(Chunks)) /\ n \in Nat /\ n >= 1
      /\ \A i \in 1..n : i # n => i \in 1..Len(lines) /\ L[i] = lines[i]
      /\ ~unfinished => n = Len(lines) + 1 /\ L[n] = <<chunk>>
      /\ unfinished => n = Len(lines) /\ L[n] = Append(lines[n], chunk)
  BY AppendedLines DEF LinesInv
<1>2. Len(lines) \in Nat /\ \A i \in 1..Len(lines) : lines[i] \in Seq(Chunks) /\ Len(lines[i]) >= 1
  BY DEF LinesInv
<1>4. CASE unfinished
  <2> DEFINE old == lines[n]
  <2>1. n \in 1..Len(lines) /\ old \in Seq(Chunks) /\ Len(old) \in Nat /\ Len(old) >= 1
    BY <1>1, <1>2, <1>4
  <2>2. /\ Len(L[n]) = Len(old) + 1 /\ L[n][Len(old) + 1] = chunk
        /\ \A k \in 1..Len(old) : L[n][k] = old[k]
    <3> HIDE DEF old
    <3>1. L[n] = Append(old, chunk)
      BY <1>1, <1>4 DEF old
    <3>2. QED
      BY <2>1, <3>1
  <2>3. n = Len(lines)
    BY <1>1, <1>4
  <2>4. Len(L[n]) >= 2 /\ Len(L[n]) \in Nat /\ (\E k \in 1..Len(L[n]) : L[n][k] = chunk)
    BY <2>1, <2>2
  <2>5. \A k \in 1..Len(L[n]) : k \in 1..Len(old) \/ k = Len(L[n])
    BY <2>1, <2>2
  <2>6. \A k \in 1..Len(old) : k \in 1..Len(L[n])
    BY <2>1, <2>2
  <2>7. ASSUME NEW i \in 1..n PROVE Len(L[i]) >= 1
    <3>1. CASE i = n
      BY <2>4, <3>1
    <3>2. CASE i # n
      BY <1>1, <1>2, <3>2
    <3>3. QED
      BY <3>1, <3>2
  <2>8. \A i \in 1..n : \A k \in 1..Len(L[i]) :
          \/ i \in 1..Len(lines) /\ k \in 1..Len(lines[i]) /\ L[i][k] = lines[i][k]
          \/ i = n /\ k = Len(L[i]) /\ L[i][k] = chunk
    BY <1>1, <2>1, <2>2, <2>5
  <2>9. \A i \in 1..Len(lines) : \A k \in 1..Len(lines[i]) :
          i \in 1..n /\ k \in 1..Len(L[i]) /\ L[i][k] = lines[i][k]
    BY <1>1, <2>2, <2>3, <2>6
  <2>10. QED
    BY <1>4, <2>1, <2>3, <2>4, <2>7, <2>8, <2>9 DEF HoldsAlso
<1>5. CASE ~unfinished
  <2>1. Len(<<chunk>>) = 1 /\ <<chunk>>[1] = chunk
    OBVIOUS
  <2>2. Len(L[n]) = 1 /\ L[n][1] = chunk /\ n = Len(lines) + 1
    BY <1>1, <1>5, <2>1
  <2>3. \A i \in 1..Len(lines) : i # n /\ i \in 1..n
    BY <1>2, <2>2
  <2>4. ASSUME NEW i \in 1..n PROVE Len(L[i]) >= 1
    <3>1. CASE i = n
      BY <2>2, <3>1
    <3>2. CASE i # n
      BY <1>1, <1>2, <3>2
    <3>3. QED
      BY <3>1, <3>2
  <2>5. \A i \in 1..n : \A k \in 1..Len(L[i]) :
          \/ i \in 1..Len(lines) /\ k \in 1..Len(lines[i]) /\ L[i][k] = lines[i][k]
          \/ i = n /\ k = Len(L[i]) /\ L[i][k] = chunk
    <3> SUFFICES ASSUME NEW i \in 1..n, NEW k \in 1..Len(L[i])
                 PROVE  \/ i \in 1..Len(lines) /\ k \in 1..Len(lines[i]) /\ L[i][k] = lines[i][k]
                        \/ i = n /\ k = Len(L[i]) /\ L[i][k] = chunk
      OBVIOUS
    <3>1. CASE i = n
      <4>0. Len(L[i]) = 1
        BY <2>2, <3>1
      <4>1. k = 1
        BY <4>0
      <4>2. QED
        BY <2>2, <3>1, <4>1
    <3>2. CASE i # n
      BY <1>1, <3>2
    <3>3. QED
      BY <3>1, <3>2
  <2>6. n \in 1..n /\ 1 \in 1..Len(L[n])
    BY <1>1, <2>2
  <2>7. QED
    BY <1>1, <1>5, <2>2, <2>3, <2>4, <2>5, <2>6 DEF HoldsAlso
<1>6. QED
  BY <1>4, <1>5

LEMMA TraceConstants ==
  /\ None \notin Records /\ None \notin Contents /\ None \notin Nat
  /\ Torn \notin Records /\ Torn # None
  /\ \A r \in Records : r.at \in Nat /\ r.says \in Contents
BY TraceAssumption DEF Records

(* A writer's record reaches the file, whole or in part. *)
LEMMA WriteKeepsOrder ==
  ASSUME TraceTypeOK, FileInv, NEW w \in Writers, draft[w] # None,
         NEW chunk \in {Torn, draft[w]}, lines' = Appended(chunk), UNCHANGED clock,
         draft' \in [Writers -> Records \cup {None}],
         \A x \in Writers : draft'[x] # None => x # w /\ draft'[x] = draft[x],
         \/ /\ chunk = draft[w] /\ unfinished' = FALSE
            /\ faults' = IF Overtakes(w) THEN faults \cup {"overtaken"} ELSE faults
         \/ unfinished' = TRUE /\ faults' = faults \cup {"cut"}
  PROVE  TraceTypeOK' /\ FileInv'
<1>1. PICK L : L = lines'
  OBVIOUS
<1>d. draft[w] \in Records /\ chunk \in Chunks
  BY TraceConstants DEF TraceTypeOK, Chunks
<1>2. lines \in Seq(Seq(Chunks)) /\ unfinished \in BOOLEAN
  BY DEF TraceTypeOK, Chunks
<1>3. /\ L \in Seq(Seq(Chunks)) /\ Len(L) \in Nat /\ Len(L) >= 1
      /\ \A i \in 1..Len(L) : i # Len(L) => i \in 1..Len(lines) /\ L[i] = lines[i]
      /\ ~unfinished => Len(L) = Len(lines) + 1 /\ L[Len(L)] = <<chunk>>
      /\ unfinished => Len(L) = Len(lines) /\ L[Len(L)] = Append(lines[Len(L)], chunk)
  BY <1>1, <1>d, <1>2, AppendedLines DEF FileInv, LinesInv
<1>4. /\ \A i \in 1..Len(L) : Len(L[i]) >= 1
      /\ \A i \in 1..Len(L) : \A k \in 1..Len(L[i]) :
           \/ i \in 1..Len(lines) /\ k \in 1..Len(lines[i]) /\ L[i][k] = lines[i][k]
           \/ i = Len(L) /\ k = Len(L[i]) /\ L[i][k] = chunk
      /\ unfinished => Len(L[Len(L)]) >= 2
  <2>1. LinesInv
    BY DEF FileInv
  <2>2. L = Appended(chunk)
    BY <1>1
  <2>3. HoldsAlso(L, chunk)
    BY <1>d, <1>2, <2>1, <2>2, AppendedChunks
  <2>4. QED
    BY <2>3 DEF HoldsAlso
<1>5. TraceTypeOK'
  <2>1. faults' \subseteq Faults /\ clock' \in Nat
    BY DEF TraceTypeOK, Faults
  <2>2. unfinished' \in BOOLEAN
    OBVIOUS
  <2>3. lines' \in Seq(Seq(Records \cup {Torn}))
    BY <1>1, <1>3 DEF Chunks
  <2>4. QED
    BY <2>1, <2>2, <2>3 DEF TraceTypeOK
<1>6. ASSUME NEW i \in 1..Len(L), i # Len(L), Len(L[i]) = 1, L[i][1] # Torn
      PROVE  i \in 1..Len(lines) /\ L[i] = lines[i] /\ IsRecord(i) /\ Complete(i)
  BY <1>2, <1>3, <1>6 DEF IsRecord, Complete
<1>7. ASSUME Len(L[Len(L)]) = 1, L[Len(L)][1] # Torn
      PROVE  L[Len(L)][1] = draft[w]
  <2>1. <<chunk>>[1] = chunk
    OBVIOUS
  <2>2. ~unfinished
    BY <1>4, <1>7
  <2>3. QED
    BY <1>3, <1>7, <2>1, <2>2
<1>8. LinesInv'
  <2>1. ASSUME "cut" \notin faults'
        PROVE  ~unfinished' /\ \A i \in 1..Len(L) : Len(L[i]) = 1 /\ L[i][1] # Torn
    <3>1. chunk = draft[w] /\ unfinished' = FALSE /\ "cut" \notin faults
      BY <2>1
    <3>2. ~unfinished /\ \A i \in 1..Len(lines) : IsRecord(i)
      BY <3>1 DEF FileInv, LinesInv
    <3>3. Len(<<chunk>>) = 1 /\ <<chunk>>[1] = chunk /\ chunk # Torn
      BY <1>d, <3>1, TraceConstants
    <3>4. ASSUME NEW i \in 1..Len(L) PROVE Len(L[i]) = 1 /\ L[i][1] # Torn
      <4>1. CASE i = Len(L)
        BY <1>3, <3>2, <3>3, <4>1
      <4>2. CASE i # Len(L)
        BY <1>3, <3>2, <4>2 DEF IsRecord
      <4>3. QED
        BY <4>1, <4>2
    <3>5. QED
      BY <3>1, <3>4
  <2>2. QED
    BY <1>1, <1>3, <1>4, <2>1 DEF LinesInv, IsRecord
<1>9. ASSUME InOrderOfTime' PROVE Ordered'
  <2>1. Ordered
    BY <1>9 DEF FileInv, InOrderOfTime
  <2>2. ASSUME NEW i \in 1..Len(L), Len(L[i]) = 1, L[i][1] # Torn
        PROVE  L[i][1].at <= clock
    <3>1. CASE i = Len(L)
      BY <1>7, <2>1, <2>2, <3>1 DEF Ordered
    <3>2. CASE i # Len(L)
      BY <1>6, <2>1, <2>2, <3>2 DEF Ordered, RecordAt
    <3>3. QED
      BY <3>1, <3>2
  <2>3. ASSUME NEW x \in Writers, draft'[x] # None
        PROVE  draft'[x].at <= clock
    BY <2>1, <2>3 DEF Ordered
  <2>4. ASSUME NEW x \in Writers, draft'[x] # None, NEW i \in 1..Len(L), Len(L[i]) = 1, L[i][1] # Torn,
               i < Len(L) \/ ~unfinished'
        PROVE  L[i][1].at <= draft'[x].at
    <3>1. CASE i = Len(L)
      <4>1. L[i][1] = draft[w]
        BY <1>7, <2>4, <3>1
      <4>2. ~Overtakes(w)
        <5>1. "overtaken" \notin faults'
          BY <1>9 DEF InOrderOfTime
        <5>2. ASSUME unfinished' = TRUE PROVE FALSE
          BY <2>4, <3>1, <5>2
        <5>3. faults' = IF Overtakes(w) THEN faults \cup {"overtaken"} ELSE faults
          BY <5>2
        <5>4. QED
          <6> HIDE DEF Overtakes
          <6> QED BY <5>1, <5>3
      <4>3. x # w /\ draft'[x] = draft[x] /\ draft[x] \in Records
        BY <2>4 DEF TraceTypeOK
      <4>4. draft[x].at \in Nat /\ draft[w].at \in Nat /\ ~(draft[x].at < draft[w].at)
        BY <1>d, <2>4, <4>2, <4>3, TraceConstants DEF Overtakes
      <4>5. QED
        BY <4>1, <4>3, <4>4
    <3>2. CASE i # Len(L)
      BY <1>6, <2>1, <2>4, <3>2 DEF Ordered, RecordAt
    <3>3. QED
      BY <3>1, <3>2
  <2>5. ASSUME NEW i \in 1..Len(L), NEW j \in 1..Len(L), i < j, Len(L[i]) = 1, L[i][1] # Torn,
               NEW k \in 1..Len(L[j]), L[j][k] # Torn
        PROVE  L[i][1].at <= L[j][k].at
    <3>1. i \in 1..Len(lines) /\ L[i] = lines[i] /\ IsRecord(i) /\ Complete(i)
      BY <1>3, <1>6, <2>5
    <3>2. CASE j \in 1..Len(lines) /\ k \in 1..Len(lines[j]) /\ L[j][k] = lines[j][k]
      BY <2>1, <2>5, <3>1, <3>2 DEF Ordered, RecordAt
    <3>3. CASE L[j][k] = chunk
      <4>1. chunk = draft[w]
        BY <2>5, <3>3
      <4>2. QED
        BY <2>1, <3>1, <3>3, <4>1 DEF Ordered, RecordAt
    <3>4. QED
      BY <1>4, <3>2, <3>3
  <2>6. QED
    BY <1>1, <2>2, <2>3, <2>4, <2>5 DEF Ordered, IsRecord, RecordAt, Complete
<1>10. QED
  BY <1>5, <1>8, <1>9 DEF FileInv

(* Nothing else changes the file, the clock may only be set back as a      *)
(* fault, and a new record has the time of the clock.                      *)
LEMMA OthersKeepOrder ==
  ASSUME TraceTypeOK, FileInv, UNCHANGED fileVars, faults \subseteq faults', faults' \subseteq Faults,
         "cut" \in faults' => "cut" \in faults, clock' \in Nat,
         clock' < clock => "clockStep" \in faults',
         draft' \in [Writers -> Records \cup {None}],
         \A x \in Writers : draft'[x] \in {None, draft[x]} \/ draft'[x].at = clock
  PROVE  TraceTypeOK' /\ FileInv'
<1>1. TraceTypeOK'
  BY DEF TraceTypeOK, fileVars
<1>2. LinesInv'
  BY DEF FileInv, LinesInv, fileVars, IsRecord
<1>3. ASSUME InOrderOfTime' PROVE Ordered'
  <2>1. Ordered /\ ~(clock' < clock)
    BY <1>3 DEF FileInv, InOrderOfTime
  <2>2. clock \in Nat /\ clock <= clock'
    BY <2>1 DEF TraceTypeOK
  <2>3. ASSUME NEW i \in 1..Len(lines), IsRecord(i) PROVE RecordAt(i) \in Records /\ RecordAt(i).at \in Nat
    <3>1. lines[i] \in Seq(Records \cup {Torn})
      BY DEF TraceTypeOK
    <3>2. QED
      BY <2>3, <3>1, TraceConstants DEF IsRecord, RecordAt
  <2>4. ASSUME NEW i \in 1..Len(lines), IsRecord(i) PROVE RecordAt(i).at <= clock'
    BY <2>1, <2>2, <2>3, <2>4 DEF Ordered
  <2>5. ASSUME NEW x \in Writers, draft'[x] # None
        PROVE  /\ draft'[x].at <= clock'
               /\ \A i \in 1..Len(lines) : IsRecord(i) /\ Complete(i) => RecordAt(i).at <= draft'[x].at
    <3>1. draft'[x] \in Records /\ draft'[x].at \in Nat
      BY <2>5, TraceConstants
    <3>2. CASE draft'[x] = draft[x]
      BY <2>1, <2>2, <2>5, <3>1, <3>2 DEF Ordered
    <3>3. CASE draft'[x].at = clock
      BY <2>1, <2>2, <3>3 DEF Ordered
    <3>4. QED
      BY <2>5, <3>2, <3>3
  <2>6. QED
    BY <2>1, <2>4, <2>5 DEF Ordered, fileVars, IsRecord, RecordAt, Complete
<1>4. QED
  BY <1>1, <1>2, <1>3 DEF FileInv

-----------------------------------------------------------------------------
StateOf(d) == [d EXCEPT !.type = "world_state"]
Recorded(c) == \E r \in Written : r.says = c
Accounted(s) == Recorded(s) \/ s \in Unwritten \/ s.birth \in lost

(* A published WorldState is in the file, on its way there, or lost, and so*)
(* is what every decision rests on, made just now or recorded long ago.    *)
NameInv ==
  /\ todo[adapter] # None => todo[adapter].type = "world_state"
  /\ draft[adapter] # None => draft[adapter].says.type = "world_state"
  /\ latest # None => latest.type = "world_state" /\ Accounted(latest)
  /\ todo[gate] # None => Accounted(StateOf(todo[gate]))
  /\ draft[gate] # None => Accounted(StateOf(draft[gate].says))
  /\ \A d \in Written : d.says.type = "safety_decision" => Accounted(StateOf(d.says))

(* What was ever made and is still somewhere. *)
Known(c) ==
  \/ Recorded(c)
  \/ c # None /\ (c = latest \/ \E w \in Writers : c = todo[w])
  \/ \E w \in Writers : draft[w] # None /\ c = draft[w].says

(* The next snapshot's id is new: its source timestamp is beyond those of  *)
(* earlier starts of the process, and its number beyond those of this one. *)
IdInv ==
  /\ px4Time >= 1 /\ (~heard => source = 0)
  /\ crashes = 0 /\ ~heard => \A c \in Contents : ~Known(c)
  /\ ~rebooted => source <= px4Time /\ \A c \in Contents : Known(c) => c.state[1] <= px4Time
  /\ ~(rebooted /\ crashes > 0) =>
       /\ \A c, d \in Contents : Known(c) /\ Known(d) /\ c.state = d.state => c.birth = d.birth
       /\ \A c \in Contents : Known(c) =>
            IF heard THEN c.state[1] < source \/ c.state[2] <= sequence
                     ELSE c.state[1] < px4Time

TraceInv == StateTypeOK /\ FileInv /\ NameInv /\ IdInv

-----------------------------------------------------------------------------
(* The records on the lines L. *)
RecordsOn(L) == (UNION {{L[i][k] : k \in 1..Len(L[i])} : i \in 1..Len(L)}) \ {Torn}

LEMMA LinesHold ==
  ASSUME NEW L, NEW r
  PROVE  r \in RecordsOn(L) <=> r # Torn /\ \E i \in 1..Len(L) : \E k \in 1..Len(L[i]) : r = L[i][k]
<1> DEFINE On(i) == {L[i][k] : k \in 1..Len(L[i])}
           All == {On(i) : i \in 1..Len(L)}
<1>1. RecordsOn(L) = (UNION All) \ {Torn}
  BY DEF RecordsOn
<1>2. ASSUME r \in RecordsOn(L)
      PROVE  r # Torn /\ \E i \in 1..Len(L) : \E k \in 1..Len(L[i]) : r = L[i][k]
  <2>1. PICK s \in All : r \in s
    <3> HIDE DEF All
    <3> QED BY <1>1, <1>2
  <2>2. PICK i \in 1..Len(L) : s = On(i)
    OBVIOUS
  <2>3. PICK k \in 1..Len(L[i]) : r = L[i][k]
    BY <2>1, <2>2
  <2>4. r # Torn
    <3> HIDE DEF All
    <3> QED BY <1>1, <1>2
  <2>5. QED
    BY <2>3, <2>4
<1>3. ASSUME r # Torn, NEW i \in 1..Len(L), NEW k \in 1..Len(L[i]), r = L[i][k]
      PROVE  r \in RecordsOn(L)
  <2>1. r \in On(i) /\ On(i) \in All
    BY <1>3
  <2>2. PICK s \in All : r \in s
    BY <2>1
  <2>3. r \in UNION All
    <3> HIDE DEF All
    <3> QED BY <2>2
  <2>4. QED
    <3> HIDE DEF All
    <3> QED BY <1>1, <1>3, <2>3
<1>4. QED
  BY <1>2, <1>3

LEMMA WrittenLines ==
  ASSUME TraceTypeOK
  PROVE  /\ Written \subseteq Records
         /\ \A r : r \in Written <=> r # Torn /\ \E i \in 1..Len(lines) : \E k \in 1..Len(lines[i]) : r = lines[i][k]
<1>1. \A r : r \in Written <=> r # Torn /\ \E i \in 1..Len(lines) : \E k \in 1..Len(lines[i]) : r = lines[i][k]
  <2>1. Written = RecordsOn(lines)
    BY DEF Written, RecordsOn
  <2>2. QED
    BY <2>1, LinesHold
<1>2. \A i \in 1..Len(lines) : \A k \in 1..Len(lines[i]) : lines[i][k] \in Records \cup {Torn}
  <2>1. \A i \in 1..Len(lines) : lines[i] \in Seq(Records \cup {Torn})
    BY DEF TraceTypeOK
  <2>2. QED
    BY <2>1
<1>3. QED
  BY <1>1, <1>2

LEMMA WrittenGrows ==
  ASSUME TraceTypeOK, TraceTypeOK', FileInv, NEW chunk \in Chunks, lines' = Appended(chunk)
  PROVE  Written' = Written \cup ({chunk} \ {Torn})
<1>1. PICK L : L = lines'
  OBVIOUS
<1>2. /\ \A i \in 1..Len(L) : \A k \in 1..Len(L[i]) :
           \/ i \in 1..Len(lines) /\ k \in 1..Len(lines[i]) /\ L[i][k] = lines[i][k]
           \/ i = Len(L) /\ k = Len(L[i]) /\ L[i][k] = chunk
      /\ \A i \in 1..Len(lines) : \A k \in 1..Len(lines[i]) :
           i \in 1..Len(L) /\ k \in 1..Len(L[i]) /\ L[i][k] = lines[i][k]
      /\ Len(L) \in 1..Len(L) /\ \E k \in 1..Len(L[Len(L)]) : L[Len(L)][k] = chunk
  <2>1. lines \in Seq(Seq(Chunks)) /\ unfinished \in BOOLEAN
    BY DEF TraceTypeOK, Chunks
  <2>2. LinesInv
    BY DEF FileInv
  <2>3. L = Appended(chunk)
    BY <1>1
  <2>4. HoldsAlso(L, chunk)
    BY <2>1, <2>2, <2>3, AppendedChunks
  <2>5. QED
    BY <2>4 DEF HoldsAlso
<1>3. \A r : r \in Written' <=> r # Torn /\ \E i \in 1..Len(L) : \E k \in 1..Len(L[i]) : r = L[i][k]
  <2>1. Written' = RecordsOn(L)
    BY <1>1 DEF Written, RecordsOn
  <2>2. QED
    BY <2>1, LinesHold
<1>4. \A r : r \in Written <=> r # Torn /\ \E i \in 1..Len(lines) : \E k \in 1..Len(lines[i]) : r = lines[i][k]
  BY WrittenLines
<1>5. ASSUME NEW r \in Written' PROVE r \in Written \cup ({chunk} \ {Torn})
  <2>1. r # Torn /\ \E i \in 1..Len(L) : \E k \in 1..Len(L[i]) : r = L[i][k]
    BY <1>3
  <2>2. PICK i \in 1..Len(L) : \E k \in 1..Len(L[i]) : r = L[i][k]
    BY <2>1
  <2>3. PICK k \in 1..Len(L[i]) : r = L[i][k]
    BY <2>2
  <2>4. QED
    BY <1>2, <1>4, <2>1, <2>3
<1>6. ASSUME NEW r \in Written PROVE r \in Written'
  <2>1. r # Torn /\ \E i \in 1..Len(lines) : \E k \in 1..Len(lines[i]) : r = lines[i][k]
    BY <1>4, <1>6
  <2>2. PICK i \in 1..Len(lines) : \E k \in 1..Len(lines[i]) : r = lines[i][k]
    BY <2>1
  <2>3. PICK k \in 1..Len(lines[i]) : r = lines[i][k]
    BY <2>2
  <2>4. i \in 1..Len(L) /\ k \in 1..Len(L[i]) /\ L[i][k] = r
    BY <1>2, <2>3
  <2>5. QED
    BY <1>3, <2>1, <2>4
<1>7. ASSUME chunk # Torn PROVE chunk \in Written'
  <2>1. PICK k \in 1..Len(L[Len(L)]) : L[Len(L)][k] = chunk
    BY <1>2
  <2>2. QED
    BY <1>2, <1>3, <1>7, <2>1
<1>8. QED
  BY <1>5, <1>6, <1>7

(* One of the two writers, or the other. *)
LEMMA TheWriters ==
  /\ adapter \in Writers /\ gate \in Writers /\ adapter # gate
  /\ \A w \in Writers : w = adapter \/ w = gate
BY StateTraceAssumption

(* What the end of an append does to the file. *)
LEMMA AppendEnds ==
  ASSUME StateTypeOK, FileInv, NEW w \in Writers, FinishAppend(w) \/ AppendFails(w)
  PROVE  /\ TraceTypeOK' /\ FileInv'
         /\ draft[w] \in Records /\ draft' = [draft EXCEPT ![w] = None]
         /\ Written \subseteq Written' /\ Written' \subseteq Written \cup {draft[w]}
         /\ FinishAppend(w) => draft[w] \in Written'
         /\ UNCHANGED <<feedVars, latest, todo, births, decisions, crashes, rebooted>>
         /\ lost \subseteq lost' /\ lost' \subseteq lost \cup {draft[w].says.birth}
         /\ AppendFails(w) /\ w = adapter => draft[w].says.birth \in lost'
<1>0. TraceTypeOK
  BY DEF StateTypeOK
<1>1. draft[w] # None /\ draft[w] \in Records /\ draft \in [Writers -> Records \cup {None}]
  BY <1>0 DEF FinishAppend, AppendFails, Write, WriteFails, TraceTypeOK
<1>2. draft' = [draft EXCEPT ![w] = None]
  BY <1>1 DEF FinishAppend, AppendFails, Write, Forget
<1>3. /\ draft' \in [Writers -> Records \cup {None}]
      /\ \A x \in Writers : draft'[x] # None => x # w /\ draft'[x] = draft[x]
  BY <1>1, <1>2
<1>4. /\ UNCHANGED <<clock, feedVars, latest, todo, births, decisions, crashes, rebooted>>
      /\ lost \subseteq lost' /\ lost' \subseteq lost \cup {draft[w].says.birth}
      /\ AppendFails(w) /\ w = adapter => draft[w].says.birth \in lost'
  BY DEF FinishAppend, AppendFails, stateVars, countVars
<1>5. draft[w] # Torn
  BY <1>1, TraceConstants
<1>6. CASE FinishAppend(w)
  <2>1. /\ lines' = Appended(draft[w]) /\ unfinished' = FALSE
        /\ faults' = IF Overtakes(w) THEN faults \cup {"overtaken"} ELSE faults
    BY <1>6 DEF FinishAppend, Write
  <2>2. TraceTypeOK' /\ FileInv'
    BY <1>0, <1>1, <1>3, <1>4, <2>1, WriteKeepsOrder
  <2>3. Written' = Written \cup ({draft[w]} \ {Torn})
    BY <1>0, <1>1, <2>1, <2>2, WrittenGrows DEF Chunks
  <2>4. QED
    BY <1>1, <1>2, <1>4, <1>5, <2>2, <2>3
<1>7. CASE ~FinishAppend(w)
  <2>1. CASE UNCHANGED <<fileVars, faults>>
    <3>1. TraceTypeOK' /\ FileInv'
      BY <1>0, <1>3, <1>4, <2>1, OthersKeepOrder DEF TraceTypeOK
    <3>2. Written' = Written
      BY <2>1 DEF Written, fileVars
    <3>3. QED
      BY <1>1, <1>2, <1>4, <1>7, <3>1, <3>2
  <2>2. CASE ~UNCHANGED <<fileVars, faults>>
    <3>1. PICK chunk \in {Torn, draft[w]} :
            lines' = Appended(chunk) /\ unfinished' = TRUE /\ faults' = faults \cup {"cut"}
      BY <1>7, <2>2 DEF AppendFails, WriteFails
    <3>2. TraceTypeOK' /\ FileInv'
      BY <1>0, <1>1, <1>3, <1>4, <3>1, WriteKeepsOrder
    <3>3. Written' = Written \cup ({chunk} \ {Torn})
      BY <1>0, <1>1, <3>1, <3>2, WrittenGrows DEF Chunks
    <3>4. QED
      BY <1>1, <1>2, <1>4, <1>7, <3>1, <3>2, <3>3
  <2>3. QED
    BY <2>1, <2>2
<1>8. QED
  BY <1>6, <1>7

-----------------------------------------------------------------------------
LEMMA InitTrace == Init => TraceInv
<1> SUFFICES ASSUME Init PROVE TraceInv
  OBVIOUS
<1>1. TraceTypeOK
  <2>1. lines \in Seq(Seq(Records \cup {Torn}))
    BY EmptySeq DEF Init, TraceInit
  <2>2. unfinished \in BOOLEAN /\ faults \subseteq Faults
    BY DEF Init, TraceInit
  <2>3. QED
    BY <2>1, <2>2 DEF Init, TraceInit, TraceTypeOK
<1>2. StateTypeOK
  BY <1>1 DEF Init, StateTypeOK
<1>3. FileInv
  BY DEF Init, TraceInit, FileInv, LinesInv, Ordered
<1>4. \A c : ~Recorded(c)
  BY <1>1, WrittenLines DEF Init, TraceInit, Recorded
<1>5. NameInv
  BY <1>4, TheWriters DEF Init, TraceInit, NameInv, Recorded, Written
<1>6. \A c \in Contents : ~Known(c)
  BY <1>4 DEF Init, TraceInit, Known
<1>7. IdInv
  BY <1>6 DEF Init, IdInv
<1>8. QED
  BY <1>2, <1>3, <1>5, <1>7 DEF TraceInv

LEMMA FileStep == TraceInv /\ [Next]_allVars => TraceTypeOK' /\ FileInv'
<1> SUFFICES ASSUME TraceInv, [Next]_allVars PROVE TraceTypeOK' /\ FileInv'
  OBVIOUS
<1>0. StateTypeOK /\ TraceTypeOK /\ FileInv
  BY DEF TraceInv, StateTypeOK
<1>1. ASSUME NEW w \in Writers, FinishAppend(w) \/ AppendFails(w) PROVE TraceTypeOK' /\ FileInv'
  BY <1>0, <1>1, AppendEnds
<1>2. ASSUME NEW w \in Writers, BeginAppend(w) PROVE TraceTypeOK' /\ FileInv'
  <2>1. PICK r : r = [at |-> clock, says |-> todo[w]]
    OBVIOUS
  <2>2. r \in Records /\ r.at = clock
    <3>1. todo[w] \in Contents /\ clock \in Nat
      BY <1>0, <1>2 DEF StateTypeOK, TraceTypeOK, BeginAppend
    <3>2. QED
      BY <2>1, <3>1 DEF Records
  <2>3. draft' = [draft EXCEPT ![w] = r] /\ UNCHANGED <<clock, fileVars, faults>>
    BY <1>2, <2>1 DEF BeginAppend, Stamp
  <2>4. /\ draft' \in [Writers -> Records \cup {None}]
        /\ \A x \in Writers : draft'[x] \in {None, draft[x]} \/ draft'[x].at = clock
    BY <1>0, <2>2, <2>3 DEF TraceTypeOK
  <2>5. QED
    BY <1>0, <2>3, <2>4, OthersKeepOrder DEF TraceTypeOK
<1>3. CASE WallClock
  <2>1. UNCHANGED <<fileVars, draft>> /\ clock' \in Nat /\ faults \subseteq faults' /\ faults' \subseteq faults \cup {"clockStep"}
        /\ (clock' < clock => "clockStep" \in faults')
    <3>1. CASE ClockTicks
      BY <1>0, <3>1 DEF ClockTicks, TraceTypeOK
    <3>2. CASE ClockStepsBack
      BY <1>0, <3>2 DEF ClockStepsBack, TraceTypeOK
    <3>3. QED
      BY <1>3, <3>1, <3>2 DEF WallClock
  <2>2. faults' \subseteq Faults
    BY <1>0, <2>1 DEF TraceTypeOK, Faults
  <2>3. QED
    BY <1>0, <2>1, <2>2, OthersKeepOrder DEF TraceTypeOK
<1>4. CASE Restart
  <2>1. UNCHANGED <<clock, fileVars, faults>> /\ draft' = [w \in Writers |-> None]
    BY <1>4 DEF Restart, Forget
  <2>2. QED
    BY <1>0, <2>1, OthersKeepOrder DEF TraceTypeOK
<1>5. CASE UNCHANGED traceVars
  BY <1>0, <1>5, OthersKeepOrder DEF traceVars, TraceTypeOK
<1>6. QED
  BY <1>1, <1>2, <1>3, <1>4, <1>5 DEF Next, allVars, Hear, RecordSnapshot, Decide, Px4TimePasses, Px4Reboots

LEMMA TypeStep == TraceInv /\ [Next]_allVars => StateTypeOK'
<1> SUFFICES ASSUME TraceInv, [Next]_allVars PROVE StateTypeOK'
  OBVIOUS
<1>0. StateTypeOK /\ FileInv
  BY DEF TraceInv
<1>f. TraceTypeOK'
  BY FileStep
<1>1. ASSUME NEW w \in Writers, FinishAppend(w) \/ AppendFails(w) PROVE StateTypeOK'
  <2>1. draft[w] \in Records /\ draft[w].says.birth \in Nat
    <3>1. draft[w] \in Records
      BY <1>0, <1>1, AppendEnds
    <3>2. QED
      BY <3>1 DEF Records, Contents
  <2>2. UNCHANGED <<feedVars, latest, todo, births, decisions, crashes, rebooted>> /\ lost' \subseteq Nat
    BY <1>0, <1>1, <2>1, AppendEnds DEF StateTypeOK
  <2>3. spinning' \in BOOLEAN
    BY <1>0, <1>1 DEF FinishAppend, AppendFails, stateVars, StateTypeOK
  <2>4. QED
    BY <1>0, <1>f, <2>2, <2>3 DEF StateTypeOK, feedVars
<1>2. ASSUME NEW w \in Writers, BeginAppend(w) PROVE StateTypeOK'
  BY <1>0, <1>f, <1>2 DEF StateTypeOK, BeginAppend, feedVars, countVars
<1>3. CASE WallClock \/ UNCHANGED allVars
  BY <1>0, <1>f, <1>3 DEF StateTypeOK, WallClock, allVars, stateVars, feedVars, countVars
<1>4. CASE Restart
  <2>1. ASSUME NEW s \in Unwritten PROVE s.birth \in Nat
    BY <1>0, TheWriters DEF Unwritten, StateTypeOK, TraceTypeOK, Records, Contents
  <2>2. lost' \subseteq Nat
    BY <1>0, <1>4, <2>1 DEF Restart, StateTypeOK
  <2>3. spinning' \in BOOLEAN /\ heard' \in BOOLEAN /\ rebooted' \in BOOLEAN
    BY <1>0, <1>4 DEF Restart, StateTypeOK
  <2>4. QED
    BY <1>0, <1>f, <1>4, <2>2, <2>3 DEF StateTypeOK, Restart
<1>5. CASE Hear
  <2>1. heard' \in BOOLEAN
    BY <1>5 DEF Hear
  <2>2. QED
    BY <1>0, <1>f, <1>5, <2>1 DEF StateTypeOK, Hear, countVars
<1>6. CASE RecordSnapshot
  <2>1. latest' \in Contents /\ births' \in Nat /\ sequence' \in Nat
    BY <1>0, <1>6 DEF StateTypeOK, RecordSnapshot, Snapshot, SnapshotId, Contents
  <2>2. QED
    BY <1>0, <1>f, <1>6, <2>1 DEF StateTypeOK, RecordSnapshot
<1>7. CASE Decide
  <2>1. DecisionOn(latest) \in Contents
    BY <1>0, <1>7 DEF StateTypeOK, Decide, DecisionOn, Contents
  <2>2. todo' \in [Writers -> Contents \cup {None}]
    BY <1>0, <1>7, <2>1 DEF StateTypeOK, Decide
  <2>3. QED
    BY <1>0, <1>f, <1>7, <2>2 DEF StateTypeOK, Decide, feedVars
<1>8. CASE Px4TimePasses
  BY <1>0, <1>f, <1>8 DEF StateTypeOK, Px4TimePasses, countVars
<1>9. CASE Px4Reboots
  <2>1. rebooted' \in BOOLEAN
    BY <1>9 DEF Px4Reboots
  <2>2. QED
    BY <1>0, <1>f, <1>9, <2>1 DEF StateTypeOK, Px4Reboots
<1>10. QED
  BY <1>1, <1>2, <1>3, <1>4, <1>5, <1>6, <1>7, <1>8, <1>9 DEF Next

(* What is in the file, on its way there or lost stays so. *)
LEMMA StillAccounted ==
  ASSUME Written \subseteq Written', lost \subseteq lost', \A s \in Unwritten : Accounted(s)', NEW s, Accounted(s)
  PROVE  Accounted(s)'
<1>1. CASE Recorded(s)
  <2>1. PICK r \in Written : r.says = s
    BY <1>1 DEF Recorded
  <2>2. r \in Written'
    BY <2>1
  <2>3. Recorded(s)'
    BY <2>1, <2>2 DEF Recorded
  <2>4. QED
    BY <2>3 DEF Accounted
<1>2. CASE s \in Unwritten
  BY <1>2
<1>3. CASE s.birth \in lost
  <2>1. s.birth \in lost'
    BY <1>3
  <2>2. QED
    BY <2>1 DEF Accounted
<1>4. QED
  BY <1>1, <1>2, <1>3 DEF Accounted

LEMMA UnwrittenIs ==
  \A s : s \in Unwritten <=>
    \/ s = todo[adapter] /\ s # None
    \/ draft[adapter] # None /\ s = draft[adapter].says
BY DEF Unwritten

LEMMA NameStep == TraceInv /\ [Next]_allVars => NameInv'
<1> SUFFICES ASSUME TraceInv, [Next]_allVars PROVE NameInv'
  OBVIOUS
<1>0. StateTypeOK /\ TraceTypeOK /\ FileInv /\ NameInv
  BY DEF TraceInv, StateTypeOK
<1>k. None \notin Contents /\ todo \in [Writers -> Contents \cup {None}] /\ draft \in [Writers -> Records \cup {None}]
  BY <1>0, TraceConstants DEF StateTypeOK, TraceTypeOK
<1>1. ASSUME NEW w \in Writers, FinishAppend(w) \/ AppendFails(w) PROVE NameInv'
  <2>1. /\ draft[w] \in Records /\ draft' = [draft EXCEPT ![w] = None]
        /\ Written \subseteq Written' /\ Written' \subseteq Written \cup {draft[w]}
        /\ FinishAppend(w) => draft[w] \in Written'
        /\ UNCHANGED <<latest, todo>> /\ lost \subseteq lost'
        /\ AppendFails(w) /\ w = adapter => draft[w].says.birth \in lost'
    BY <1>0, <1>1, AppendEnds
  <2>2. ASSUME NEW s \in Unwritten PROVE Accounted(s)'
    <3>1. CASE s = todo[adapter] /\ s # None
      <4>1. s \in Unwritten'
        BY <2>1, <3>1 DEF Unwritten
      <4>2. QED
        BY <4>1 DEF Accounted
    <3>2. CASE draft[adapter] # None /\ s = draft[adapter].says /\ w # adapter
      <4>1. draft'[adapter] = draft[adapter]
        BY <1>k, <2>1, <3>2, TheWriters
      <4>2. s \in Unwritten'
        BY <3>2, <4>1 DEF Unwritten
      <4>3. QED
        BY <4>2 DEF Accounted
    <3>3. CASE draft[adapter] # None /\ s = draft[adapter].says /\ w = adapter
      <4>1. CASE draft[w] \in Written'
        <5>1. Recorded(s)'
          BY <3>3, <4>1 DEF Recorded
        <5>2. QED
          BY <5>1 DEF Accounted
      <4>2. CASE s.birth \in lost'
        BY <4>2 DEF Accounted
      <4>3. QED
        BY <1>1, <2>1, <3>3, <4>1, <4>2
    <3>4. QED
      BY <3>1, <3>2, <3>3, UnwrittenIs
  <2>3. \A s : Accounted(s) => Accounted(s)'
    BY <2>1, <2>2, StillAccounted
  <2>4. ASSUME NEW d \in Written', d.says.type = "safety_decision" PROVE Accounted(StateOf(d.says))'
    <3>1. CASE d \in Written
      <4>1. Accounted(StateOf(d.says))
        BY <1>0, <2>4, <3>1 DEF NameInv
      <4>2. PICK s : s = StateOf(d.says)
        OBVIOUS
      <4>3. QED
        BY <2>3, <4>1, <4>2
    <3>2. CASE d = draft[w]
      <4>1. draft[w] # None /\ w = gate
        BY <1>0, <2>1, <2>4, <3>2, TheWriters, TraceConstants DEF NameInv
      <4>2. Accounted(StateOf(d.says))
        BY <1>0, <3>2, <4>1 DEF NameInv
      <4>3. PICK s : s = StateOf(d.says)
        OBVIOUS
      <4>4. QED
        BY <2>3, <4>2, <4>3
    <3>3. QED
      BY <2>1, <3>1, <3>2
  <2>5. \A x \in Writers : draft'[x] \in {draft[x], None}
    BY <1>k, <2>1
  <2>6. latest' # None => latest'.type = "world_state" /\ Accounted(latest)'
    <3>1. PICK l : l = latest /\ l = latest'
      BY <2>1
    <3>2. l # None => l.type = "world_state" /\ Accounted(l)'
      BY <1>0, <2>3, <3>1 DEF NameInv
    <3>3. QED
      BY <3>1, <3>2
  <2>7. /\ todo'[gate] # None => Accounted(StateOf(todo[gate]))'
        /\ draft'[gate] # None => Accounted(StateOf(draft[gate].says))'
    <3>1. PICK t : t = StateOf(todo[gate]) /\ t = StateOf(todo'[gate])
      BY <2>1
    <3>2. todo'[gate] # None => Accounted(t)'
      BY <1>0, <2>1, <2>3, <3>1 DEF NameInv
    <3>3. PICK d : d = draft'[gate]
      OBVIOUS
    <3>4. d # None => d = draft[gate]
      BY <2>5, <3>3, TheWriters
    <3>5. PICK u : u = StateOf(d.says)
      OBVIOUS
    <3>6. d # None => Accounted(u)'
      BY <1>0, <2>3, <3>4, <3>5 DEF NameInv
    <3>7. QED
      BY <3>1, <3>2, <3>3, <3>5, <3>6
  <2>8. QED
    BY <1>0, <2>1, <2>4, <2>5, <2>6, <2>7, TheWriters DEF NameInv
<1>2. ASSUME NEW w \in Writers, BeginAppend(w) PROVE NameInv'
  <2>1. /\ todo[w] # None /\ draft[w] = None
        /\ todo' = [todo EXCEPT ![w] = None] /\ draft' = [draft EXCEPT ![w] = [at |-> clock, says |-> todo[w]]]
        /\ UNCHANGED <<latest, lost, lines>>
    BY <1>2 DEF BeginAppend, Stamp, fileVars, countVars
  <2>2. /\ todo'[w] = None /\ draft'[w].says = todo[w] /\ draft'[w] # None
        /\ \A x \in Writers : x # w => todo'[x] = todo[x] /\ draft'[x] = draft[x]
    <3>1. [at |-> clock, says |-> todo[w]] \in Records
      BY <1>0, <1>k, <2>1 DEF Records, TraceTypeOK
    <3>2. QED
      BY <1>k, <2>1, <3>1, TraceConstants
  <2>3. Unwritten' = Unwritten
    BY <2>1, <2>2, TheWriters DEF Unwritten
  <2>4. Written' = Written /\ lost' = lost
    BY <2>1 DEF Written
  <2>5. \A s : Accounted(s) <=> Accounted(s)'
    BY <2>3, <2>4 DEF Accounted, Recorded
  <2>6. QED
    BY <1>0, <2>1, <2>2, <2>4, <2>5, TheWriters DEF NameInv
<1>3. CASE UNCHANGED <<lines, draft, latest, todo, lost>>
  BY <1>0, <1>3 DEF NameInv, Accounted, Recorded, Unwritten, Written
<1>4. CASE Restart
  <2>1. /\ latest' = None /\ lines' = lines
        /\ todo' = [w \in Writers |-> None] /\ draft' = [w \in Writers |-> None]
        /\ lost' = lost \cup {s.birth : s \in Unwritten}
    BY <1>4 DEF Restart, Forget, fileVars
  <2>2. Written' = Written /\ lost \subseteq lost'
    BY <2>1 DEF Written
  <2>3. \A s \in Unwritten : Accounted(s)'
    <3> SUFFICES ASSUME NEW s \in Unwritten PROVE Accounted(s)'
      OBVIOUS
    <3>1. s.birth \in lost'
      BY <2>1
    <3>2. QED
      BY <3>1 DEF Accounted
  <2>4. \A s : Accounted(s) => Accounted(s)'
    BY <2>2, <2>3, StillAccounted
  <2>5. QED
    BY <1>0, <2>1, <2>2, <2>4, TheWriters DEF NameInv
<1>5. CASE RecordSnapshot
  <2>1. /\ todo[adapter] = None /\ draft[adapter] = None
        /\ latest' = Snapshot(SnapshotId, births') /\ todo' = [todo EXCEPT ![adapter] = latest']
        /\ UNCHANGED <<lines, draft, lost>>
    BY <1>5 DEF RecordSnapshot, Idle, traceVars, fileVars
  <2>2. latest' \in Contents /\ latest' # None /\ latest'.type = "world_state"
    BY <1>0, <1>5, <1>k DEF StateTypeOK, RecordSnapshot, Snapshot, SnapshotId, Contents
  <2>3. todo'[adapter] = latest' /\ todo'[gate] = todo[gate]
    BY <1>k, <2>1, TheWriters
  <2>4. latest' \in Unwritten'
    BY <2>2, <2>3 DEF Unwritten
  <2>5. Unwritten = {} /\ Written' = Written
    BY <2>1 DEF Unwritten, Written
  <2>6. \A s : Accounted(s) => Accounted(s)'
    BY <2>1, <2>5, StillAccounted
  <2>7. QED
    BY <1>0, <2>1, <2>2, <2>3, <2>4, <2>5, <2>6 DEF NameInv, Accounted
<1>6. CASE Decide
  <2>1. /\ latest # None /\ todo' = [todo EXCEPT ![gate] = DecisionOn(latest)]
        /\ UNCHANGED <<lines, draft, latest, lost>>
    BY <1>6 DEF Decide, traceVars, fileVars
  <2>2. todo'[gate] = DecisionOn(latest) /\ todo'[adapter] = todo[adapter]
    BY <1>k, <2>1, TheWriters
  <2>3. \A s : Accounted(s) <=> Accounted(s)'
    BY <2>1, <2>2 DEF Accounted, Recorded, Written, Unwritten
  <2>4. StateOf(DecisionOn(latest)) = latest
    BY <1>0, <2>1 DEF NameInv, StateOf, DecisionOn, StateTypeOK, Contents
  <2>5. PICK l : l = latest /\ l = latest'
    BY <2>1
  <2>6. l.type = "world_state" /\ Accounted(l)'
    BY <1>0, <2>1, <2>3, <2>5 DEF NameInv
  <2>7. PICK t : t = todo'[gate]
    OBVIOUS
  <2>8. StateOf(t) = l
    BY <2>2, <2>4, <2>5, <2>7
  <2>9. PICK d : d = draft[gate] /\ d = draft'[gate]
    BY <2>1
  <2>10. d # None => Accounted(StateOf(d.says))'
    BY <1>0, <2>3, <2>9 DEF NameInv
  <2>11. \A r \in Written' : r.says.type = "safety_decision" => Accounted(StateOf(r.says))'
    BY <1>0, <2>1, <2>3 DEF NameInv, Written
  <2>12. QED
    BY <1>0, <2>1, <2>2, <2>5, <2>6, <2>7, <2>8, <2>9, <2>10, <2>11 DEF NameInv
<1>7. QED
  BY <1>1, <1>2, <1>3, <1>4, <1>5, <1>6
  DEF Next, allVars, traceVars, stateVars, fileVars, countVars, Hear, Px4TimePasses, Px4Reboots, WallClock, ClockTicks, ClockStepsBack

(* Steps that make nothing new. *)
LEMMA NothingNew ==
  ASSUME IdInv, UNCHANGED <<source, heard, sequence, px4Time, crashes, rebooted>>,
         \A c \in Contents : Known(c)' => Known(c)
  PROVE  IdInv'
BY DEF IdInv

LEMMA IdStep == TraceInv /\ [Next]_allVars => IdInv'
<1> SUFFICES ASSUME TraceInv, [Next]_allVars PROVE IdInv'
  OBVIOUS
<1>0. StateTypeOK /\ TraceTypeOK /\ FileInv /\ IdInv
  BY DEF TraceInv, StateTypeOK
<1>k. /\ None \notin Contents /\ todo \in [Writers -> Contents \cup {None}]
      /\ draft \in [Writers -> Records \cup {None}]
      /\ source \in Nat /\ sequence \in Nat /\ px4Time \in Nat /\ crashes \in Nat /\ births \in Nat
      /\ heard \in BOOLEAN /\ rebooted \in BOOLEAN
  BY <1>0, TraceConstants DEF StateTypeOK, TraceTypeOK
<1>s. \A c \in Contents : c.state[1] \in Nat /\ c.state[2] \in Nat
  BY DEF Contents
<1>1. ASSUME NEW w \in Writers, FinishAppend(w) \/ AppendFails(w) PROVE IdInv'
  <2>1. /\ draft[w] \in Records /\ draft' = [draft EXCEPT ![w] = None]
        /\ Written' \subseteq Written \cup {draft[w]}
        /\ UNCHANGED <<feedVars, latest, todo, crashes, rebooted>>
    BY <1>0, <1>1, AppendEnds
  <2>2. ASSUME NEW c \in Contents, Known(c)' PROVE Known(c)
    <3>1. CASE Recorded(c)'
      <4>1. PICK r \in Written' : r.says = c
        BY <3>1 DEF Recorded
      <4>2. CASE r \in Written
        BY <4>1, <4>2 DEF Recorded, Known
      <4>3. CASE r = draft[w]
        BY <2>1, <4>1, <4>3, TraceConstants DEF Known
      <4>4. QED
        BY <2>1, <4>2, <4>3
    <3>2. CASE c # None /\ (c = latest' \/ \E x \in Writers : c = todo'[x])
      BY <2>1, <3>2 DEF Known
    <3>3. CASE \E x \in Writers : draft'[x] # None /\ c = draft'[x].says
      <4>1. PICK x \in Writers : draft'[x] # None /\ c = draft'[x].says
        BY <3>3
      <4>2. draft'[x] = draft[x]
        BY <1>k, <2>1, <4>1
      <4>3. QED
        BY <4>1, <4>2 DEF Known
    <3>4. QED
      BY <2>2, <3>1, <3>2, <3>3 DEF Known
  <2>3. QED
    BY <1>0, <2>1, <2>2, NothingNew DEF feedVars
<1>2. ASSUME NEW w \in Writers, BeginAppend(w) PROVE IdInv'
  <2>1. /\ todo[w] # None
        /\ todo' = [todo EXCEPT ![w] = None] /\ draft' = [draft EXCEPT ![w] = [at |-> clock, says |-> todo[w]]]
        /\ UNCHANGED <<latest, lines, feedVars, crashes, rebooted>>
    BY <1>2 DEF BeginAppend, Stamp, fileVars, countVars
  <2>2. ASSUME NEW c \in Contents, Known(c)' PROVE Known(c)
    <3>1. CASE Recorded(c)'
      BY <2>1, <3>1 DEF Recorded, Written, Known
    <3>2. CASE c # None /\ (c = latest' \/ \E x \in Writers : c = todo'[x])
      BY <1>k, <2>1, <3>2 DEF Known
    <3>3. CASE \E x \in Writers : draft'[x] # None /\ c = draft'[x].says
      <4>1. PICK x \in Writers : draft'[x] # None /\ c = draft'[x].says
        BY <3>3
      <4>2. CASE x = w
        <5>1. c = todo[w]
          BY <1>k, <2>1, <4>1, <4>2
        <5>2. QED
          BY <2>1, <5>1 DEF Known
      <4>3. CASE x # w
        <5>1. draft'[x] = draft[x]
          BY <1>k, <2>1, <4>3
        <5>2. QED
          BY <4>1, <5>1 DEF Known
      <4>4. QED
        BY <4>2, <4>3
    <3>4. QED
      BY <2>2, <3>1, <3>2, <3>3 DEF Known
  <2>3. QED
    BY <1>0, <2>1, <2>2, NothingNew DEF feedVars
<1>3. ASSUME UNCHANGED <<lines, draft, latest, todo>> PROVE \A c : Known(c)' <=> Known(c)
  BY <1>3 DEF Known, Recorded, Written
<1>4. CASE UNCHANGED <<lines, draft, latest, todo, feedVars, crashes, rebooted>>
  BY <1>0, <1>3, <1>4, NothingNew DEF feedVars
<1>5. CASE Hear
  <2>1. /\ heard' = TRUE /\ source' \in Nat /\ source' >= source /\ source' >= px4Time
        /\ source' \in {source, px4Time} /\ UNCHANGED <<px4Time, sequence, crashes, rebooted>>
    BY <1>k, <1>5 DEF Hear, countVars
  <2>2. \A c : Known(c)' <=> Known(c)
    BY <1>3, <1>5 DEF Hear, traceVars, fileVars
  <2>3. ~heard => px4Time = source'
    BY <1>0, <1>k, <2>1 DEF IdInv
  <2>4. ~rebooted' => source' <= px4Time'
    BY <1>0, <1>k, <2>1 DEF IdInv
  <2>5. ASSUME ~(rebooted' /\ crashes' > 0), NEW c \in Contents, Known(c)'
        PROVE  c.state[1] < source' \/ c.state[2] <= sequence'
    <3>1. IF heard THEN c.state[1] < source \/ c.state[2] <= sequence ELSE c.state[1] < px4Time
      BY <1>0, <2>1, <2>2, <2>5 DEF IdInv
    <3>2. QED
      BY <1>k, <1>s, <2>1, <2>3, <3>1
  <2>6. QED
    BY <1>0, <2>1, <2>2, <2>4, <2>5 DEF IdInv
<1>6. CASE RecordSnapshot
  <2>1. /\ heard /\ UNCHANGED <<px4Time, source, heard, crashes, rebooted, lines, draft>>
        /\ sequence' = sequence + 1 /\ todo' = [todo EXCEPT ![adapter] = latest']
        /\ latest' = [type |-> "world_state", state |-> <<source, sequence + 1>>, birth |-> births']
    BY <1>6 DEF RecordSnapshot, Snapshot, SnapshotId, traceVars, fileVars
  <2>2. latest'.state[1] = source /\ latest'.state[2] = sequence + 1
    BY <2>1
  <2>3. \A c \in Contents : Known(c)' => Known(c) \/ c = latest'
    BY <1>k, <2>1 DEF Known, Recorded, Written
  <2>4. ASSUME ~(rebooted' /\ crashes' > 0), NEW c \in Contents, Known(c)
        PROVE  (c.state[1] < source \/ c.state[2] <= sequence) /\ c.state # latest'.state
    <3>1. c.state[1] < source \/ c.state[2] <= sequence
      BY <1>0, <2>1, <2>4 DEF IdInv
    <3>2. QED
      BY <1>k, <1>s, <2>2, <3>1
  <2>5. ASSUME ~(rebooted' /\ crashes' > 0), NEW c \in Contents, Known(c)'
        PROVE  c.state[1] < source' \/ c.state[2] <= sequence'
    BY <1>k, <1>s, <2>1, <2>2, <2>3, <2>4, <2>5
  <2>6. ASSUME ~(rebooted' /\ crashes' > 0), NEW c \in Contents, NEW d \in Contents,
               Known(c)', Known(d)', c.state = d.state
        PROVE  c.birth = d.birth
    <3>1. CASE c = latest' \/ d = latest'
      BY <2>3, <2>4, <2>6, <3>1
    <3>2. CASE Known(c) /\ Known(d)
      BY <1>0, <2>1, <2>6, <3>2 DEF IdInv
    <3>3. QED
      BY <2>3, <2>6, <3>1, <3>2
  <2>7. ~rebooted' => \A c \in Contents : Known(c)' => c.state[1] <= px4Time'
    BY <1>0, <2>1, <2>2, <2>3 DEF IdInv
  <2>8. QED
    BY <1>0, <2>1, <2>5, <2>6, <2>7 DEF IdInv
<1>7. CASE Decide
  <2>1. /\ latest # None /\ todo' = [todo EXCEPT ![gate] = DecisionOn(latest)]
        /\ UNCHANGED <<lines, draft, latest, feedVars, crashes, rebooted>>
    BY <1>7 DEF Decide, traceVars, fileVars
  <2>2. latest \in Contents /\ DecisionOn(latest).state = latest.state /\ DecisionOn(latest).birth = latest.birth
    BY <1>0, <2>1 DEF StateTypeOK, DecisionOn, Contents
  <2>3. \A c \in Contents : Known(c)' => Known(c) \/ c = DecisionOn(latest)
    BY <1>k, <2>1 DEF Known, Recorded, Written
  <2>4. Known(latest)
    BY <2>1 DEF Known
  <2>5. PICK l \in Contents : l = latest
    BY <2>2
  <2>6. ASSUME NEW c \in Contents, Known(c)'
        PROVE  \E k \in Contents : Known(k) /\ k.state = c.state /\ k.birth = c.birth
    BY <2>2, <2>3, <2>4, <2>5, <2>6
  <2>7. ~(crashes' = 0 /\ ~heard')
    BY <1>0, <2>1, <2>2, <2>4 DEF IdInv, feedVars
  <2>8. QED
    BY <1>0, <2>1, <2>6, <2>7 DEF IdInv, feedVars
<1>8. CASE Restart
  <2>1. /\ px4Time' = px4Time + 1 /\ source' = 0 /\ heard' = FALSE /\ crashes' = crashes + 1
        /\ latest' = None /\ todo' = [w \in Writers |-> None] /\ draft' = [w \in Writers |-> None]
        /\ UNCHANGED <<lines, rebooted>>
    BY <1>8 DEF Restart, Forget, fileVars
  <2>2. ASSUME NEW c \in Contents, Known(c)' PROVE Known(c)
    BY <1>k, <2>1, <2>2 DEF Known, Recorded, Written
  <2>3. crashes' # 0 /\ crashes' > 0 /\ px4Time' >= 1 /\ source' <= px4Time'
    BY <1>k, <2>1
  <2>4. ASSUME ~rebooted, NEW c \in Contents, Known(c)
        PROVE  c.state[1] < px4Time' /\ c.state[1] <= px4Time'
    <3>1. c.state[1] <= px4Time
      BY <1>0, <2>4 DEF IdInv
    <3>2. QED
      BY <1>k, <1>s, <2>1, <3>1
  <2>5. QED
    BY <1>0, <2>1, <2>2, <2>3, <2>4 DEF IdInv
<1>9. CASE Px4TimePasses
  <2>1. px4Time' = px4Time + 1 /\ UNCHANGED <<source, heard, sequence, crashes, rebooted>>
    BY <1>9 DEF Px4TimePasses, countVars
  <2>2. \A c : Known(c)' <=> Known(c)
    BY <1>3, <1>9 DEF Px4TimePasses, traceVars, fileVars
  <2>3. ASSUME NEW n \in Nat PROVE (n <= px4Time => n <= px4Time') /\ (n < px4Time => n < px4Time')
    BY <1>k, <2>1
  <2>4. px4Time' >= 1
    BY <1>0, <1>k, <2>1
  <2>5. QED
    BY <1>0, <1>k, <1>s, <2>1, <2>2, <2>3, <2>4 DEF IdInv
<1>10. CASE Px4Reboots
  <2>1. px4Time' = 1 /\ rebooted' = TRUE /\ UNCHANGED <<source, heard, sequence, crashes>>
    BY <1>10 DEF Px4Reboots
  <2>2. \A c : Known(c)' <=> Known(c)
    BY <1>3, <1>10 DEF Px4Reboots, traceVars, fileVars
  <2>3. ~(crashes' > 0) => crashes = 0
    BY <1>k, <2>1
  <2>4. ~(rebooted' /\ crashes' > 0) => ~(rebooted /\ crashes > 0) /\ (heard \/ \A c \in Contents : ~Known(c))
    BY <1>0, <2>1, <2>3 DEF IdInv
  <2>5. QED
    BY <1>0, <2>1, <2>2, <2>4 DEF IdInv
<1>11. QED
  BY <1>1, <1>2, <1>4, <1>5, <1>6, <1>7, <1>8, <1>9, <1>10
  DEF Next, allVars, traceVars, stateVars, fileVars, countVars, WallClock, ClockTicks, ClockStepsBack

LEMMA TraceInvariant == Spec => []TraceInv
<1>1. TraceInv /\ [Next]_allVars => TraceInv'
  BY FileStep, TypeStep, NameStep, IdStep DEF TraceInv
<1>2. QED
  BY <1>1, InitTrace, PTL DEF Spec

-----------------------------------------------------------------------------
(* The state is well formed.                                               *)
THEOREM TraceTypes == Spec => []StateTypeOK
<1>1. TraceInv => StateTypeOK
  BY DEF TraceInv
<1>2. QED
  BY <1>1, TraceInvariant, PTL

(* A replay stops early only at a line that was cut short, or where the    *)
(* wall clock or overlapping appends broke the order of recorded_at.       *)
THEOREM ReplayHidesOnlyFaults == Spec => []OnlyFaultsHideRecords
<1>1. ASSUME TraceInv PROVE OnlyFaultsHideRecords
  <2>0. TraceTypeOK /\ LinesInv
    BY <1>1 DEF TraceInv, StateTypeOK, FileInv
  <2>1. "cut" \notin faults => \A i \in 1..Len(lines) : IsRecord(i)
    BY <2>0 DEF LinesInv
  <2>2. ASSUME InOrderOfTime, NEW i \in 1..Len(lines), NEW j \in 1..Len(lines), i <= j, IsRecord(i), IsRecord(j)
        PROVE  RecordAt(i).at <= RecordAt(j).at
    <3>1. CASE i = j
      <4>1. lines[i] \in Seq(Records \cup {Torn})
        BY <2>0 DEF TraceTypeOK
      <4>2. RecordAt(i).at \in Nat
        BY <2>2, <4>1, TraceConstants DEF IsRecord, RecordAt
      <4>3. QED
        BY <3>1, <4>2
    <3>2. CASE i < j
      <4>1. Ordered
        BY <1>1, <2>2 DEF TraceInv, FileInv
      <4>2. 1 \in 1..Len(lines[j]) /\ lines[j][1] # Torn
        BY <2>2 DEF IsRecord
      <4>3. QED
        BY <2>2, <3>2, <4>1, <4>2 DEF Ordered, RecordAt
    <3>3. QED
      BY <2>2, <3>1, <3>2
  <2>3. QED
    BY <2>1, <2>2 DEF OnlyFaultsHideRecords, InOrderOfTime
<1>2. QED
  BY <1>1, TraceInvariant, PTL

(* A decision in the file rests on a WorldState that is in the file, on its*)
(* way there, or lost.                                                     *)
THEOREM DecisionsRestOnRecords == Spec => []DecisionsNameRecordedStates
<1>1. ASSUME TraceInv PROVE DecisionsNameRecordedStates
  <2> SUFFICES ASSUME NEW d \in Written, d.says.type = "safety_decision"
               PROVE  \/ \E r \in Written : r.says = [d.says EXCEPT !.type = "world_state"]
                      \/ [d.says EXCEPT !.type = "world_state"] \in Unwritten
                      \/ d.says.birth \in lost
    BY DEF DecisionsNameRecordedStates
  <2>1. Accounted(StateOf(d.says))
    BY <1>1 DEF TraceInv, NameInv
  <2>2. d.says \in Contents
    BY <1>1, WrittenLines, TraceConstants DEF TraceInv, StateTypeOK
  <2>3. StateOf(d.says).birth = d.says.birth
    BY <2>2 DEF StateOf, Contents
  <2>4. QED
    BY <2>1, <2>3 DEF Accounted, Recorded, StateOf
<1>2. QED
  BY <1>1, TraceInvariant, PTL

(* The state_id of a decision leads to the WorldState it rests on, unless  *)
(* both the process and PX4 were restarted.                                *)
THEOREM DecisionsFindTheirState == Spec => []DecisionFindsItsState
<1>1. ASSUME TraceInv PROVE DecisionFindsItsState
  <2> SUFFICES ASSUME ~(rebooted /\ crashes > 0), NEW i \in Yielded,
                      Found(RecordAt(i).says.state) \notin {0, None}
               PROVE  RecordAt(Found(RecordAt(i).says.state)).says.birth = RecordAt(i).says.birth
    BY DEF DecisionFindsItsState
  <2>0. TraceTypeOK /\ Len(lines) \in Nat
    BY <1>1 DEF TraceInv, StateTypeOK, TraceTypeOK
  <2>1. ASSUME NEW n \in Yielded
        PROVE  n \in 1..Len(lines) /\ RecordAt(n).says \in Contents /\ Known(RecordAt(n).says)
    <3>1. n \in 1..Len(lines) /\ IsRecord(n)
      BY <2>0 DEF Yielded, ReadUpTo, Good
    <3>2. lines[n] \in Seq(Records \cup {Torn}) /\ 1 \in 1..Len(lines[n]) /\ lines[n][1] # Torn
      BY <2>0, <3>1 DEF TraceTypeOK, IsRecord
    <3>3. RecordAt(n) \in Written /\ RecordAt(n) \in Records
      BY <2>0, <3>1, <3>2, WrittenLines DEF RecordAt
    <3>4. QED
      BY <3>1, <3>3, TraceConstants DEF Known, Recorded
  <2> DEFINE id == RecordAt(i).says.state
             matches == {k \in StateLines : RecordAt(k).says.state = id}
  <2>2. matches # {} /\ Found(id) = FirstOf(matches)
    BY DEF Found
  <2>3. matches \subseteq 1..Len(lines) /\ matches \subseteq Yielded
    BY <2>1 DEF StateLines
  <2>4. Found(id) \in matches
    <3> HIDE DEF matches
    <3> QED BY <2>0, <2>2, <2>3, FirstIsLeast
  <2>5. PICK k : k = Found(id)
    OBVIOUS
  <2>6. k \in Yielded /\ RecordAt(k).says.state = id
    BY <2>3, <2>4, <2>5
  <2>7. RecordAt(k).says.birth = RecordAt(i).says.birth
    BY <1>1, <2>1, <2>6 DEF TraceInv, IdInv
  <2>8. QED
    BY <2>5, <2>7
<1>2. QED
  BY <1>1, TraceInvariant, PTL

(* As long as recorded_at is in order, a query for a time that is answered *)
(* is answered with the last WorldState recorded by then.                  *)
THEOREM TimeQueriesAreRight == Spec => []TimeQueryRight
<1>1. ASSUME TraceInv PROVE TimeQueryRight
  <2> SUFFICES ASSUME InOrderOfTime, NEW t \in 0..clock, AtOrBefore(t) # None
               PROVE  LET written == {i \in 1..Len(lines) : \E k \in 1..Len(lines[i]) :
                                        /\ lines[i][k] # Torn
                                        /\ lines[i][k].says.type = "world_state" /\ lines[i][k].at <= t}
                      IN AtOrBefore(t) = IF written = {} THEN 0 ELSE LastOf(written)
    BY DEF TimeQueryRight, InOrderOfTime
  <2> DEFINE written == {i \in 1..Len(lines) : \E k \in 1..Len(lines[i]) :
                           /\ lines[i][k] # Torn
                           /\ lines[i][k].says.type = "world_state" /\ lines[i][k].at <= t}
             later == {i \in StateLines : RecordAt(i).at > t}
             earlier == IF later = {} THEN StateLines ELSE {i \in StateLines : i < FirstOf(later)}
  <2>0. TraceTypeOK /\ Len(lines) \in Nat /\ Ordered /\ t \in Nat
    BY <1>1 DEF TraceInv, StateTypeOK, TraceTypeOK, FileInv
  <2>1. /\ ~(later = {} /\ ~ReadsAll)
        /\ AtOrBefore(t) = IF earlier = {} THEN 0 ELSE LastOf(earlier)
    BY DEF AtOrBefore
  <2>2. ASSUME NEW i \in 1..Len(lines), NEW k \in 1..Len(lines[i]), lines[i][k] # Torn
        PROVE  lines[i][k] \in Records /\ lines[i][k].at \in Nat
    <3>1. lines[i] \in Seq(Records \cup {Torn})
      BY <2>0 DEF TraceTypeOK
    <3>2. QED
      BY <2>2, <3>1, TraceConstants
  <2>3. ASSUME NEW i \in 1..Len(lines), IsRecord(i)
        PROVE  /\ RecordAt(i).at \in Nat
               /\ i \in written <=> RecordAt(i).says.type = "world_state" /\ RecordAt(i).at <= t
    <3>1. 1 \in 1..Len(lines[i]) /\ lines[i][1] # Torn /\ \A k \in 1..Len(lines[i]) : k = 1
      BY <2>3 DEF IsRecord
    <3>2. QED
      BY <2>2, <3>1 DEF RecordAt
  <2>4. ASSUME NEW i \in Yielded PROVE IsRecord(i) /\ i \in 1..Len(lines)
    BY <2>0 DEF Yielded, ReadUpTo, Good
  <2>5. earlier = written
    <3>1. CASE later = {}
      <4>1. \A i \in 1..Len(lines) : i \in Yielded
        BY <2>0, <2>1, <3>1 DEF ReadsAll, Yielded, ReadUpTo
      <4>2. ASSUME NEW i \in 1..Len(lines) PROVE i \in StateLines <=> i \in written
        <5>1. IsRecord(i) /\ (i \in StateLines <=> RecordAt(i).says.type = "world_state")
          BY <2>4, <4>1 DEF StateLines
        <5>2. i \in StateLines => RecordAt(i).at <= t
          BY <2>0, <2>3, <3>1, <5>1
        <5>3. QED
          BY <2>3, <5>1, <5>2
      <4>3. StateLines \subseteq 1..Len(lines) /\ written \subseteq 1..Len(lines)
        BY <2>4 DEF StateLines
      <4>4. QED
        BY <3>1, <4>2, <4>3
    <3>2. CASE later # {}
      <4>1. StateLines \subseteq 1..Len(lines) /\ later \subseteq 1..Len(lines)
        BY <2>4 DEF StateLines
      <4>2. FirstOf(later) \in later /\ \A j \in later : FirstOf(later) <= j
        <5> HIDE DEF later
        <5> QED BY <2>0, <3>2, <4>1, FirstIsLeast
      <4>3. PICK f \in later : f = FirstOf(later) /\ \A j \in later : f <= j
        BY <4>2
      <4>4. f \in 1..Len(lines) /\ IsRecord(f) /\ f \in Yielded /\ RecordAt(f).at > t /\ RecordAt(f).at \in Nat
        BY <2>3, <2>4, <4>1, <4>3 DEF StateLines
      <4>5. \A i \in 1..Len(lines) : i < f => i \in Yielded
        BY <2>0, <4>4 DEF Yielded, ReadUpTo
      <4>6. ASSUME NEW i \in written PROVE i < f
        <5>1. PICK k \in 1..Len(lines[i]) : lines[i][k] # Torn /\ lines[i][k].at <= t
          OBVIOUS
        <5>2. i # f
          BY <2>0, <2>3, <4>4
        <5>3. ~(f < i)
          <6>1. f < i => RecordAt(f).at <= lines[i][k].at
            BY <2>0, <4>4, <5>1 DEF Ordered
          <6>2. QED
            BY <2>0, <2>2, <4>4, <5>1, <6>1
        <5>4. QED
          BY <2>0, <4>4, <5>2, <5>3
      <4>7. ASSUME NEW i \in 1..Len(lines), i < f
            PROVE  i \in StateLines <=> i \in written
        <5>1. IsRecord(i) /\ i \in Yielded /\ (i \in StateLines <=> RecordAt(i).says.type = "world_state")
          BY <2>4, <4>5, <4>7 DEF StateLines
        <5>2. i \in StateLines => RecordAt(i).at <= t
          <6>1. i \notin later
            BY <2>0, <4>3, <4>4, <4>7
          <6>2. QED
            BY <2>0, <2>3, <5>1, <6>1
        <5>3. QED
          BY <2>3, <5>1, <5>2
      <4>8. earlier = {i \in StateLines : i < f}
        BY <3>2, <4>3
      <4>9. written \subseteq 1..Len(lines)
        OBVIOUS
      <4>10. QED
        <5> HIDE DEF written, earlier
        <5> QED BY <4>1, <4>6, <4>7, <4>8, <4>9
    <3>3. QED
      BY <3>1, <3>2
  <2>6. AtOrBefore(t) = IF written = {} THEN 0 ELSE LastOf(written)
    <3> HIDE DEF written, earlier
    <3> QED BY <2>1, <2>5
  <2>7. QED
    BY <2>6
<1>2. QED
  BY <1>1, TraceInvariant, PTL
=============================================================================
