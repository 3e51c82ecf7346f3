----------------------------- MODULE StateTrace -----------------------------
(***************************************************************************)
(* Px4WorldStateAdapter and SafetyExecutionGate on one trace file.  The    *)
(* adapter's timer numbers a snapshot, publishes it to the other threads   *)
(* and then records it; the gate records decisions that rest on published  *)
(* snapshots.  Both live in one process, which may end at any moment and   *)
(* is started again on the same file.                                      *)
(***************************************************************************)
EXTENDS TraceFile

CONSTANTS
  adapter, gate,  \* the two writers
  MaxPx4Time,     \* bound: PX4's time since boot
  MaxSnapshots,   \* bound: snapshots, over all starts of the process
  MaxDecisions,   \* bound: decisions
  MaxCrashes      \* bound: ends of the process

ASSUME StateTraceAssumption ==
  /\ Writers = {adapter, gate} /\ adapter # gate
  /\ {MaxPx4Time, MaxSnapshots, MaxDecisions, MaxCrashes} \subseteq Nat

VARIABLES
  px4Time,    \* the timestamp PX4 puts on its messages
  source,     \* _source_timestamp_us
  heard,      \* has_samples
  sequence,   \* _snapshot_sequence
  latest,     \* _latest_state: what read_world_state() returns, or None
  todo,       \* what each writer goes on to record
  spinning,   \* the process's executor runs callbacks
  births,     \* history: snapshots made, over all starts
  decisions,  \* history: decisions made
  crashes,    \* history: ends of the process
  rebooted,   \* history: PX4 has been rebooted
  lost        \* history: snapshots whose record was not written

feedVars == <<px4Time, source, heard, sequence>>
countVars == <<births, decisions, crashes, rebooted, lost>>
stateVars == <<feedVars, latest, todo, spinning, countVars>>
allVars == <<traceVars, stateVars>>

Snapshot(id, birth) == [type |-> "world_state", state |-> id, birth |-> birth]
DecisionOn(s) == [s EXCEPT !.type = "safety_decision"]

StateTypeOK ==
  /\ TraceTypeOK
  /\ px4Time \in Nat /\ source \in Nat /\ heard \in BOOLEAN /\ sequence \in Nat
  /\ latest \in Contents \cup {None}
  /\ todo \in [Writers -> Contents \cup {None}]
  /\ spinning \in BOOLEAN
  /\ births \in Nat /\ decisions \in Nat /\ crashes \in Nat /\ rebooted \in BOOLEAN
  /\ lost \subseteq Nat

Init ==
  /\ TraceInit
  /\ px4Time = 1 /\ source = 0 /\ heard = FALSE /\ sequence = 0
  /\ latest = None
  /\ todo = [w \in Writers |-> None]
  /\ spinning = TRUE
  /\ births = 0 /\ decisions = 0 /\ crashes = 0 /\ rebooted = FALSE
  /\ lost = {}

-----------------------------------------------------------------------------
(* One of the six update_*() callbacks: the source timestamp only grows.   *)
Hear ==
  /\ spinning
  /\ heard' = TRUE
  /\ source' = IF px4Time > source THEN px4Time ELSE source
  /\ UNCHANGED <<traceVars, px4Time, sequence, latest, todo, spinning, countVars>>

Idle(w) == todo[w] = None /\ draft[w] = None

(* Mutant: the number of a snapshot is not part of its identity. *)
SnapshotIdUnnumbered == <<source, 0>>

(* state_id is made of the source timestamp and the snapshot's number. *)
SnapshotId == <<source, sequence + 1>>

(* Mutant: a snapshot without new samples is published, but not recorded. *)
RecordSnapshotOnChange ==
  /\ spinning /\ heard /\ Idle(adapter) /\ births < MaxSnapshots
  /\ sequence' = sequence + 1
  /\ births' = births + 1
  /\ latest' = Snapshot(SnapshotId, births')
  /\ todo' = IF latest # None /\ latest.state[1] = source
               THEN todo ELSE [todo EXCEPT ![adapter] = latest']
  /\ UNCHANGED <<traceVars, px4Time, source, heard, spinning, decisions, crashes, rebooted, lost>>

(* _record_snapshot(): it is published before it is recorded. *)
RecordSnapshot ==
  /\ spinning /\ heard /\ Idle(adapter) /\ births < MaxSnapshots
  /\ sequence' = sequence + 1
  /\ births' = births + 1
  /\ latest' = Snapshot(SnapshotId, births')
  /\ todo' = [todo EXCEPT ![adapter] = latest']
  /\ UNCHANGED <<traceVars, px4Time, source, heard, spinning, decisions, crashes, rebooted, lost>>

(* submit(): a decision on the state read_world_state() returned. *)
Decide ==
  /\ spinning /\ latest # None /\ Idle(gate) /\ decisions < MaxDecisions
  /\ decisions' = decisions + 1
  /\ todo' = [todo EXCEPT ![gate] = DecisionOn(latest)]
  /\ UNCHANGED <<traceVars, feedVars, latest, spinning, births, crashes, rebooted, lost>>

(* _append(), up to its recorded_at and from there on. *)
BeginAppend(w) ==
  /\ todo[w] # None
  /\ Stamp(w, todo[w])
  /\ todo' = [todo EXCEPT ![w] = None]
  /\ UNCHANGED <<clock, fileVars, faults, feedVars, latest, spinning, countVars>>

FinishAppend(w) ==
  /\ Write(w)
  /\ UNCHANGED <<clock, stateVars>>

(* A failed write ends the adapter's timer callback and with it spin();    *)
(* the gate reports it to its client and goes on.                          *)
AppendFails(w) ==
  /\ WriteFails(w)
  /\ Forget({w})
  /\ spinning' = (spinning /\ w # adapter)
  /\ lost' = IF w = adapter THEN lost \cup {draft[w].says.birth} ELSE lost
  /\ UNCHANGED <<clock, feedVars, latest, todo, births, decisions, crashes, rebooted>>

Unwritten == {s \in {todo[adapter]} : s # None}
             \cup {r.says : r \in {x \in {draft[adapter]} : x # None}}

(* The process ends and is started again, which takes PX4 some time. *)
Restart ==
  /\ crashes < MaxCrashes /\ px4Time < MaxPx4Time
  /\ crashes' = crashes + 1
  /\ px4Time' = px4Time + 1
  /\ source' = 0 /\ heard' = FALSE /\ sequence' = 0
  /\ latest' = None
  /\ todo' = [w \in Writers |-> None]
  /\ Forget(Writers)
  /\ spinning' = TRUE
  /\ lost' = lost \cup {s.birth : s \in Unwritten}
  /\ UNCHANGED <<clock, fileVars, faults, births, decisions, rebooted>>

Px4TimePasses ==
  /\ px4Time < MaxPx4Time
  /\ px4Time' = px4Time + 1
  /\ UNCHANGED <<traceVars, source, heard, sequence, latest, todo, spinning, countVars>>

Px4Reboots ==
  /\ ~rebooted
  /\ rebooted' = TRUE
  /\ px4Time' = 1
  /\ UNCHANGED <<traceVars, source, heard, sequence, latest, todo, spinning,
                 births, decisions, crashes, lost>>

WallClock == (ClockTicks \/ ClockStepsBack) /\ UNCHANGED stateVars

Next ==
  \/ Hear \/ RecordSnapshot \/ Decide
  \/ \E w \in Writers : BeginAppend(w) \/ FinishAppend(w) \/ AppendFails(w)
  \/ Restart \/ Px4TimePasses \/ Px4Reboots
  \/ WallClock

Spec == Init /\ [][Next]_allVars

-----------------------------------------------------------------------------
Written == (UNION {{lines[i][k] : k \in 1..Len(lines[i])} : i \in 1..Len(lines)}) \ {Torn}

(* A decision in the file rests on a WorldState that is in the file, or is *)
(* just being recorded (it is published first, so the decision's line may  *)
(* come before it), or whose recording failed or was cut off by the end of *)
(* the process.                                                            *)
DecisionsNameRecordedStates ==
  \A d \in Written : d.says.type = "safety_decision" =>
    \/ \E r \in Written : r.says = [d.says EXCEPT !.type = "world_state"]
    \/ [d.says EXCEPT !.type = "world_state"] \in Unwritten
    \/ d.says.birth \in lost

(* Looking up the state_id of a replayed decision finds the WorldState it  *)
(* rests on and no other one, whatever restarts of the process or of PX4   *)
(* lie between; only when both were restarted may an old WorldState have   *)
(* the same id.                                                            *)
DecisionFindsItsState ==
  ~(rebooted /\ crashes > 0) =>
    \A i \in Yielded : LET d == RecordAt(i).says IN
      d.type = "safety_decision" /\ Found(d.state) \notin {0, None} =>
        RecordAt(Found(d.state)).says.birth = d.birth
=============================================================================
