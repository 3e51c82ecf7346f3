----------------------------- MODULE TraceFile ------------------------------
(***************************************************************************)
(* A JSON Lines trace: TraceRecorder appends a record per line, TraceReplay*)
(* reads them back.  Several writers may share the file.  A record gets    *)
(* its recorded_at before the file is opened, the file is only ever        *)
(* appended to, and nothing repairs a line that was cut short: the next    *)
(* record then continues that line.                                        *)
(***************************************************************************)
EXTENDS Naturals, Sequences, FiniteSets

CONSTANTS
  Writers,   \* the threads that append to the file
  MaxClock,  \* bound: the wall clock
  Torn,      \* the beginning of a record whose write was cut short
  None

(* Of what a record says, what queries and properties tell apart: whether  *)
(* it is a WorldState or a decision, and the WorldState it holds or rests  *)
(* on, by its state_id and by its number (history, which no query reads).  *)
Contents == [type : {"world_state", "safety_decision"}, state : Nat \X Nat, birth : Nat]
Records == [at : Nat, says : Contents]

ASSUME TraceAssumption ==
  /\ MaxClock \in Nat
  /\ None \notin Records \cup Contents \cup Nat
  /\ Torn \notin Records \cup {None}

VARIABLES
  clock,       \* datetime.now(UTC)
  lines,       \* what was written on each line of the file, in order
  unfinished,  \* the last line lacks its newline
  draft,       \* the record each writer has stamped and not yet written
  faults       \* history: what has gone wrong so far

fileVars == <<lines, unfinished>>
traceVars == <<clock, fileVars, draft, faults>>

Faults == {"cut", "clockStep", "overtaken"}

TraceTypeOK ==
  /\ clock \in Nat
  /\ lines \in Seq(Seq(Records \cup {Torn}))
  /\ unfinished \in BOOLEAN
  /\ draft \in [Writers -> Records \cup {None}]
  /\ faults \subseteq Faults

TraceInit ==
  /\ clock = 0
  /\ lines = <<>> /\ unfinished = FALSE
  /\ draft = [w \in Writers |-> None]
  /\ faults = {}

-----------------------------------------------------------------------------
(* The file after a write at its end. *)
Appended(chunk) ==
  IF unfinished THEN [lines EXCEPT ![Len(lines)] = Append(@, chunk)]
                ELSE Append(lines, <<chunk>>)

(* Mutant: a record is written without its recorded_at. *)
StampBare(w, says) ==
  /\ draft[w] = None
  /\ draft' = [draft EXCEPT ![w] = says]

(* A record method builds its payload: recorded_at is taken here. *)
Stamp(w, says) ==
  /\ draft[w] = None
  /\ draft' = [draft EXCEPT ![w] = [at |-> clock, says |-> says]]

(* Another writer holds an older recorded_at while w writes. *)
Overtakes(w) == \E v \in Writers \ {w} : draft[v] # None /\ draft[v].at < draft[w].at

(* Mutant: the newline is left out. *)
WriteUnended(w) ==
  /\ draft[w] # None
  /\ lines' = Appended(draft[w])
  /\ unfinished' = TRUE
  /\ draft' = [draft EXCEPT ![w] = None]
  /\ faults' = IF Overtakes(w) THEN faults \cup {"overtaken"} ELSE faults

(* _append() writes the line with its newline. *)
Write(w) ==
  /\ draft[w] # None
  /\ lines' = Appended(draft[w])
  /\ unfinished' = FALSE
  /\ draft' = [draft EXCEPT ![w] = None]
  /\ faults' = IF Overtakes(w) THEN faults \cup {"overtaken"} ELSE faults

(* The file cannot be opened, or the disk is full or the process killed    *)
(* in the middle: nothing, a part, or all but the newline is written.      *)
WriteFails(w) ==
  /\ draft[w] # None
  /\ \/ UNCHANGED <<fileVars, faults>>
     \/ \E chunk \in {Torn, draft[w]} :
          /\ lines' = Appended(chunk)
          /\ unfinished' = TRUE
          /\ faults' = faults \cup {"cut"}

Forget(ws) == draft' = [w \in Writers |-> IF w \in ws THEN None ELSE draft[w]]

(* The wall clock goes on; it may also be set back. *)
ClockTicks ==
  /\ clock < MaxClock
  /\ clock' = clock + 1
  /\ UNCHANGED <<fileVars, draft, faults>>

ClockStepsBack ==
  /\ clock > 0 /\ "clockStep" \notin faults
  /\ clock' \in 0..(clock - 1)
  /\ faults' = faults \cup {"clockStep"}
  /\ UNCHANGED <<fileVars, draft>>

-----------------------------------------------------------------------------
(* TraceReplay.  A line is a record if it holds one and nothing else.      *)
IsRecord(i) == Len(lines[i]) = 1 /\ lines[i][1] # Torn
RecordAt(i) == lines[i][1]

(* _iter_records() goes past line i. *)
Good(i) ==
  /\ IsRecord(i)
  /\ i > 1 /\ IsRecord(i - 1) => RecordAt(i - 1).at <= RecordAt(i).at

(* It yields the records before the first bad line and then raises. *)
ReadUpTo(n) == \A i \in 1..n : Good(i)
ReadsAll == ReadUpTo(Len(lines))
Yielded == {i \in 1..Len(lines) : ReadUpTo(i)}

(* iter_world_state_records() and the queries on it, given which lines     *)
(* hold WorldStates.  A query that stops before the bad line is answered.  *)
StateLines == {i \in Yielded : RecordAt(i).says.type = "world_state"}
FirstOf(S) == CHOOSE i \in S : \A j \in S : i <= j
LastOf(S) == CHOOSE i \in S : \A j \in S : j <= i

(* find_world_state(): the line of the first WorldState with this id. *)
Found(id) ==
  LET matches == {i \in StateLines : RecordAt(i).says.state = id} IN
    IF matches # {} THEN FirstOf(matches)
    ELSE IF ReadsAll THEN 0 ELSE None

(* Mutant: the search ends at a WorldState of the very time asked for. *)
AtOrBeforeStrictly(t) ==
  LET later == {i \in StateLines : RecordAt(i).at >= t}
      earlier == IF later = {} THEN StateLines ELSE {i \in StateLines : i < FirstOf(later)}
  IN IF later = {} /\ ~ReadsAll THEN None
     ELSE IF earlier = {} THEN 0 ELSE LastOf(earlier)

(* world_state_at_or_before(): it stops at the first later WorldState. *)
AtOrBefore(t) ==
  LET later == {i \in StateLines : RecordAt(i).at > t}
      earlier == IF later = {} THEN StateLines ELSE {i \in StateLines : i < FirstOf(later)}
  IN IF later = {} /\ ~ReadsAll THEN None
     ELSE IF earlier = {} THEN 0 ELSE LastOf(earlier)

-----------------------------------------------------------------------------
(* A replay stops early only at a line that was cut short, or where the    *)
(* order of recorded_at was broken by the wall clock or by two writers     *)
(* whose appends overlapped: recorded_at is taken before the write, without*)
(* a lock.  Without any of these everything recorded is replayed.          *)
OnlyFaultsHideRecords ==
  /\ "cut" \notin faults => \A i \in 1..Len(lines) : IsRecord(i)
  /\ faults \cap {"clockStep", "overtaken"} = {} =>
       \A i, j \in 1..Len(lines) :
         i <= j /\ IsRecord(i) /\ IsRecord(j) => RecordAt(i).at <= RecordAt(j).at

(* As long as recorded_at is in order, world_state_at_or_before() answers  *)
(* with the last WorldState recorded by then, if it answers at all: what   *)
(* follows in the file, damaged lines included, could not change it.       *)
TimeQueryRight ==
  faults \cap {"clockStep", "overtaken"} = {} =>
    \A t \in 0..clock :
      LET written == {i \in 1..Len(lines) : \E k \in 1..Len(lines[i]) :
                        /\ lines[i][k] # Torn
                        /\ lines[i][k].says.type = "world_state" /\ lines[i][k].at <= t}
      IN AtOrBefore(t) # None =>
           AtOrBefore(t) = IF written = {} THEN 0 ELSE LastOf(written)
=============================================================================
