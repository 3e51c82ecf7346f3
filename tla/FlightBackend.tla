--------------------------- MODULE FlightBackend ----------------------------
(***************************************************************************)
(* Px4Ros2FlightExecutionBackend with its plan executor and the Offboard   *)
(* target stream, on top of the command transport.  Flights are executed   *)
(* one after the other; each may be cancelled by other tasks meanwhile.    *)
(*                                                                         *)
(* All tasks share one asyncio loop.  `running' is the task that has been  *)
(* resumed and has not reached its next await: until it does no other task *)
(* and no callback of the loop runs, while PX4 and the ROS threads go on.  *)
(***************************************************************************)
EXTENDS CommandTransport

CONSTANTS
  Flights,      \* execution ids of the ApprovedSkillCommands
  SkillOf,      \* the skill of each flight
  After,        \* the flights whose end the client of each flight awaits
  CancelsOf,    \* bound: how often cancel() is called for each flight
  TheLoop,
  None

Offboard == {f \in Flights : SkillOf[f] \in {"goto", "hold"}}

(* build_px4_command_plan() and the two mode plans. *)
PlanOf(f) == CASE SkillOf[f] = "takeoff" -> <<"takeoff", "arm">>
               [] SkillOf[f] \in {"rtl", "land"} -> <<SkillOf[f]>>
               [] OTHER -> <<>>

OffboardCall(f) == <<f, "offboard", 0>>
TimeoutCall(f) == <<f, "timeout", 0>>
CancelCall(f, k) == <<f, "cancel", k>>
PlanCalls(f) == {<<f, PlanOf(f)[i], 0>> : i \in 1..Len(PlanOf(f))}

FlightCalls(f) ==
  IF f \in Offboard
    THEN {OffboardCall(f), TimeoutCall(f)} \cup {CancelCall(f, k) : k \in 1..CancelsOf[f]}
    ELSE PlanCalls(f)

(* A handover is made for the execution id `f:cancel' or `f:timeout'.      *)
(* Entering Offboard and entering Auto Loiter are the same PX4 command.    *)
RunId(f) == <<f, "run">>
ExecId(c) == IF c[2] \in {"cancel", "timeout"} THEN <<c[1], c[2]>> ELSE RunId(c[1])
CommandId(c) == IF c[2] \in {"offboard", "cancel", "timeout"} THEN "set_mode" ELSE c[2]

Statuses == {"SUCCEEDED", "FAILED", "TIMED_OUT", "CANCELLED", "REJECTED_BY_PX4"}

(* The cancellations: the k-th call of cancel() for flight f is <<f, k>>. *)
Cancels == UNION {{f} \X (1..CancelsOf[f]) : f \in Flights}

ASSUME BackendAssumption ==
  /\ SkillOf \in [Flights -> {"takeoff", "goto", "hold", "rtl", "land"}]
  /\ CancelsOf \in [Flights -> Nat]
  /\ Calls = UNION {FlightCalls(f) : f \in Flights}
  /\ Loops = {TheLoop}
  /\ Executions = {ExecId(c) : c \in Calls}
  /\ \A c \in Calls : ExecOf[c] = ExecId(c) /\ KindOf[c] = CommandId(c)
  /\ None \notin Flights \cup Statuses /\ (Flights \cup {None}) \cap Cancels = {}
  /\ After \in [Flights -> SUBSET Flights]

VARIABLES
  active,     \* _active_execution_ids
  offboard,   \* the keys of _offboard_execution_skills
  cancelled,  \* _cancelled_execution_ids
  stream,     \* the flight whose target the Offboard stream publishes, or None
  at,         \* where execute() of each flight is
  status,     \* what it returned
  cancelAt,   \* where each cancel() is
  running,
  mode,       \* PX4's flight mode
  seen,       \* the flight mode of the latest WorldState
  recent,     \* PX4 still counts the targets it got as recent
  asked,      \* history: flights cancelled while they were in flight
  cut         \* history: flights left without the targets they were to enter Offboard with

backendVars == <<active, offboard, cancelled, stream, at, status, cancelAt, running, asked, cut>>
px4Vars == <<mode, seen, recent>>
allVars == <<vars, backendVars, px4Vars>>

Modes == {"other", "OFFBOARD", "LOITER", "takeoff", "rtl", "land"}

BackendTypeOK ==
  /\ TypeOK
  /\ active \subseteq Flights /\ offboard \subseteq Flights
  /\ cancelled \subseteq Flights /\ asked \subseteq Flights
  /\ stream \in Flights \cup {None}
  /\ at \in [Flights -> {"new", "warming", "warmed", "ready", "entering", "planning", "submitted",
                         "polling", "handover", "done"}]
  /\ status \in [Flights -> Statuses \cup {None}]
  /\ cancelAt \in [Cancels -> {"new", "begun", "handover", "done"}]
  /\ running \in Flights \cup Cancels \cup {None}
  /\ mode \in Modes /\ seen \in Modes
  /\ recent \in BOOLEAN
  /\ cut \subseteq Flights

BackendInit ==
  /\ Init
  /\ active = {} /\ offboard = {} /\ cancelled = {} /\ asked = {}
  /\ stream = None
  /\ at = [f \in Flights |-> "new"]
  /\ status = [f \in Flights |-> None]
  /\ cancelAt = [x \in Cancels |-> "new"]
  /\ running = None
  /\ mode = "other" /\ seen = "other"
  /\ recent = FALSE
  /\ cut = {}

-----------------------------------------------------------------------------
(* submit_and_wait() returns to its caller with a verdict or a time-out. *)
Answered(c) == Wake(c) \/ TimeOut(c)

(* Mutant: the ACK's own vocabulary leaks into the result. *)
StatusForRaw(verdict) == verdict

(* Mutant: a time-out is reported like a cancellation. *)
StatusForStopped(verdict) == CASE verdict = "REJECTED" -> "REJECTED_BY_PX4"
                               [] verdict = "TIMED_OUT" -> "CANCELLED"
                               [] OTHER -> verdict

StatusFor(verdict) == IF verdict = "REJECTED" THEN "REJECTED_BY_PX4" ELSE verdict

(* execute() goes on, or suspends, at another place. *)
Continue(f, place) == at' = [at EXCEPT ![f] = place] /\ running' = f
Suspend(f, place) == at' = [at EXCEPT ![f] = place] /\ running' = None

(* Mutant: a failure leaves the cancellation mark behind. *)
FinishMarked(f, s) ==
  /\ at' = [at EXCEPT ![f] = "done"]
  /\ status' = [status EXCEPT ![f] = s]
  /\ active' = active \ {f}
  /\ offboard' = offboard \ {f}
  /\ cancelled' = IF s = "CANCELLED" THEN cancelled \ {f} ELSE cancelled
  /\ running' = None

(* execute() returns: its `finally' clauses clear the three registers. *)
Finish(f, s) ==
  /\ at' = [at EXCEPT ![f] = "done"]
  /\ status' = [status EXCEPT ![f] = s]
  /\ active' = active \ {f}
  /\ offboard' = offboard \ {f}
  /\ cancelled' = cancelled \ {f}
  /\ running' = None

NotFinished == UNCHANGED <<active, offboard, cancelled, status>>

(* The server executes one flight at a time. *)
MayStart(f) ==
  /\ running = None /\ at[f] = "new"
  /\ \A g \in Flights : at[g] \in {"new", "done"}
  /\ \A g \in After[f] : at[g] = "done"

(* No Home to plan the flight with, or no local position to hold. *)
StartFails(f) ==
  /\ SkillOf[f] \in {"takeoff", "rtl", "hold"}
  /\ MayStart(f)
  /\ Finish(f, "FAILED")
  /\ UNCHANGED <<vars, stream, cancelAt, asked, cut, px4Vars>>

(* execute() up to its first await. *)
Start(f) ==
  /\ MayStart(f)
  /\ active' = active \cup {f}
  /\ IF f \in Offboard
       THEN /\ offboard' = offboard \cup {f}
            /\ stream' = f
            /\ IF stream = None THEN Suspend(f, "warming") ELSE Continue(f, "ready")
       ELSE /\ Continue(f, "planning")
            /\ UNCHANGED <<offboard, stream>>
  /\ recent' = (recent \/ f \in Offboard)
  /\ UNCHANGED <<vars, cancelled, status, cancelAt, asked, cut, mode, seen>>

WarmedUp(f) ==
  /\ running = None /\ at[f] = "warming"
  /\ Continue(f, "warmed")
  /\ NotFinished
  /\ UNCHANGED <<vars, stream, cancelAt, asked, cut, px4Vars>>

(* _execute_offboard() between the warm-up and the mode request. *)
EnterOffboard(f) ==
  /\ running = f /\ at[f] \in {"ready", "warmed"}
  /\ \/ f \in cancelled /\ Finish(f, "CANCELLED") /\ UNCHANGED <<vars, stream, cut>>
     \/ /\ f \notin cancelled /\ seen = "OFFBOARD"
        /\ Continue(f, "polling") /\ NotFinished /\ UNCHANGED <<vars, stream, cut>>
     \/ /\ f \notin cancelled /\ seen # "OFFBOARD"
        /\ Submit(OffboardCall(f))
        /\ Suspend(f, "entering") /\ NotFinished /\ UNCHANGED <<stream, cut>>
     \/ /\ f \notin cancelled /\ seen # "OFFBOARD"      \* the skill's budget is used up
        /\ stream' = None
        /\ cut' = IF at[f] = "ready" THEN cut \cup {f} ELSE cut
        /\ Finish(f, "TIMED_OUT") /\ UNCHANGED vars
  /\ UNCHANGED <<cancelAt, asked, px4Vars>>

OffboardAnswered(f) ==
  /\ running = None /\ at[f] = "entering"
  /\ Answered(OffboardCall(f))
  /\ IF result'[OffboardCall(f)] = "ACCEPTED"
       THEN Continue(f, "polling") /\ NotFinished /\ UNCHANGED stream
       ELSE Finish(f, StatusFor(result'[OffboardCall(f)])) /\ stream' = None
  /\ UNCHANGED <<cancelAt, asked, cut, px4Vars>>

(* Px4CommandPlanExecutor.execute(): the commands in order, each only after *)
(* the one before was accepted and within the plan's budget.                *)
UnsentSteps(f) == {i \in 1..Len(PlanOf(f)) : pc[<<f, PlanOf(f)[i], 0>>] = "new"}
NextStep(f) == CHOOSE i \in UnsentSteps(f) : \A j \in UnsentSteps(f) : i <= j

SubmitStep(f) ==
  /\ running = f /\ at[f] = "planning"
  /\ \/ /\ Submit(<<f, PlanOf(f)[NextStep(f)], 0>>)
        /\ Suspend(f, "submitted") /\ NotFinished
     \/ Finish(f, "TIMED_OUT") /\ UNCHANGED vars     \* the budget is used up
  /\ UNCHANGED <<stream, cancelAt, asked, cut, px4Vars>>

(* Mutant: an RTL does not end the target stream. *)
StreamAfterPlanKept(f, verdict) == stream

(* Accepted RTL and LAND plans end the target stream of an earlier flight. *)
StreamAfterPlan(f, verdict) ==
  IF verdict = "ACCEPTED" /\ SkillOf[f] \in {"rtl", "land"} THEN None ELSE stream

(* Mutant: the plan goes on after a command PX4 did not accept. *)
PlanGoesOnAlways(f, verdict) == UnsentSteps(f) # {}

PlanGoesOn(f, verdict) == verdict = "ACCEPTED" /\ UnsentSteps(f) # {}

StepAnswered(f) ==
  /\ running = None /\ at[f] = "submitted"
  /\ \E c \in PlanCalls(f) :
       /\ Answered(c)
       /\ IF PlanGoesOn(f, result'[c])
            THEN Continue(f, "planning") /\ NotFinished /\ UNCHANGED stream
            ELSE /\ stream' = StreamAfterPlan(f, result'[c])
                 /\ IF result'[c] = "ACCEPTED"
                      THEN Continue(f, "polling") /\ NotFinished
                      ELSE Finish(f, StatusFor(result'[c]))
  /\ UNCHANGED <<cancelAt, asked, cut, px4Vars>>

(* _wait_for_completion(): one round of its loop.  A Goto or Hold counts as *)
(* complete only while the vehicle is seen in Offboard mode.                *)
Polls(f) == at[f] = "polling" /\ running \in {None, f}

PollCancelled(f) ==
  /\ Polls(f)
  /\ f \in cancelled
  /\ Finish(f, "CANCELLED")
  /\ UNCHANGED <<vars, stream, cancelAt, asked, cut, px4Vars>>

(* Mutant: completion is tested before cancellation. *)
PollCompletedFirst(f) ==
  /\ Polls(f)
  /\ f \in Offboard => seen = "OFFBOARD"
  /\ Finish(f, "SUCCEEDED")
  /\ UNCHANGED <<vars, stream, cancelAt, asked, cut, px4Vars>>

PollCompleted(f) ==
  /\ Polls(f)
  /\ f \notin cancelled
  /\ f \in Offboard => seen = "OFFBOARD"
  /\ Finish(f, "SUCCEEDED")
  /\ UNCHANGED <<vars, stream, cancelAt, asked, cut, px4Vars>>

(* Mutant: the deadline counts only while the vehicle is in Offboard mode. *)
PollTimedOutInOffboard(f) ==
  /\ Polls(f)
  /\ f \notin cancelled /\ seen = "OFFBOARD"
  /\ IF f \in Offboard
       THEN Submit(TimeoutCall(f)) /\ Suspend(f, "handover") /\ NotFinished
       ELSE Finish(f, "TIMED_OUT") /\ UNCHANGED vars
  /\ UNCHANGED <<stream, cancelAt, asked, cut, px4Vars>>

PollTimedOut(f) ==
  /\ Polls(f)
  /\ f \notin cancelled
  /\ IF f \in Offboard
       THEN Submit(TimeoutCall(f)) /\ Suspend(f, "handover") /\ NotFinished
       ELSE Finish(f, "TIMED_OUT") /\ UNCHANGED vars
  /\ UNCHANGED <<stream, cancelAt, asked, cut, px4Vars>>

PollSleeps(f) ==
  /\ Polls(f) /\ running = f
  /\ f \notin cancelled
  /\ Suspend(f, "polling") /\ NotFinished
  /\ UNCHANGED <<vars, stream, cancelAt, asked, cut, px4Vars>>

(* Mutant: a handover PX4 did not accept stops the stream as well. *)
StreamAfterAlways(c) == None

(* _handover_from_offboard(): only an accepted handover stops the stream,   *)
(* whatever flight it then serves.                                          *)
StreamAfter(c) == IF result'[c] = "ACCEPTED" THEN None ELSE stream

(* The flights that are still to enter Offboard with the targets streamed. *)
ToEnter == {g \in Offboard :
  at[g] = "entering" \/ (at[g] \in {"warming", "warmed", "ready"} /\ g \notin cancelled)}

HandedOver(c) ==
  /\ stream' = StreamAfter(c)
  /\ cut' = IF result'[c] = "ACCEPTED" THEN cut \cup ToEnter ELSE cut

TimeoutHandedOver(f) ==
  /\ running = None /\ at[f] = "handover"
  /\ Answered(TimeoutCall(f))
  /\ HandedOver(TimeoutCall(f))
  /\ Finish(f, "TIMED_OUT")
  /\ UNCHANGED <<cancelAt, asked, px4Vars>>

-----------------------------------------------------------------------------
(* cancel() of a flight in flight (of any other it returns at once): mark  *)
(* it, end its local ACK wait, and for Goto and Hold hand over to Loiter.  *)
CancelFlight(f, k) ==
  /\ running = None /\ cancelAt[<<f, k>>] = "new"
  /\ f \in active
  /\ cancelled' = cancelled \cup {f}
  /\ asked' = asked \cup {f}
  /\ Cancel(TheLoop, RunId(f))
  /\ cancelAt' = [cancelAt EXCEPT ![<<f, k>>] = IF f \in offboard THEN "begun" ELSE "done"]
  /\ running' = IF f \in offboard THEN <<f, k>> ELSE None
  /\ UNCHANGED <<active, offboard, stream, at, status, cut, px4Vars>>

CancelHandover(f, k) ==
  /\ running = <<f, k>>
  /\ Submit(CancelCall(f, k))
  /\ cancelAt' = [cancelAt EXCEPT ![<<f, k>>] = "handover"]
  /\ running' = None
  /\ UNCHANGED <<active, offboard, cancelled, stream, at, status, asked, cut, px4Vars>>

CancelHandedOver(f, k) ==
  /\ running = None /\ cancelAt[<<f, k>>] = "handover"
  /\ Answered(CancelCall(f, k))
  /\ HandedOver(CancelCall(f, k))
  /\ cancelAt' = [cancelAt EXCEPT ![<<f, k>>] = "done"]
  /\ UNCHANGED <<active, offboard, cancelled, at, status, running, asked, px4Vars>>

-----------------------------------------------------------------------------
(* PX4 takes the mode of the command it accepts; it enters Offboard only   *)
(* while the targets it got are recent, and does not refuse a mode it is   *)
(* already in.  What another client, a ground station say, asks of it is   *)
(* never Offboard.                                                         *)
ModesAfter(c) ==
  IF c \in Others THEN {mode, "other"}
  ELSE CASE c[2] = "offboard" -> {"OFFBOARD"}
         [] c[2] \in {"cancel", "timeout"} -> {"LOITER"}
         [] c[2] = "arm" -> {mode}
         [] OTHER -> {c[2]}

RequestsOffboard(c) == c \in Calls /\ c[2] = "offboard"

Px4Decides(c) ==
  /\ Px4Answer(c)
  /\ LET accepts == [call |-> c, verdict |-> "ACCEPTED"] \in wire' IN
       /\ mode' \in IF accepts THEN ModesAfter(c) ELSE {mode}
       /\ RequestsOffboard(c) => IF accepts THEN recent ELSE mode # "OFFBOARD"
  /\ UNCHANGED <<seen, recent, backendVars>>

(* The pilot or a failsafe takes PX4 out of Offboard. *)
Px4LeavesOffboard ==
  /\ mode = "OFFBOARD"
  /\ mode' = "other"
  /\ UNCHANGED <<vars, seen, recent, backendVars>>

(* Some time after the last target PX4 no longer counts on them. *)
TargetsLapse ==
  /\ recent /\ stream = None
  /\ recent' = FALSE
  /\ mode' = IF mode = "OFFBOARD" THEN "other" ELSE mode
  /\ UNCHANGED <<vars, seen, backendVars>>

SeeMode ==
  /\ seen # mode
  /\ seen' = mode
  /\ UNCHANGED <<vars, mode, recent, backendVars>>

(* The transport's own callbacks: the lock's waiter and the ACKs. *)
TransportStep ==
  /\ \/ running = None /\ \E c \in Calls : Acquire(c)
     \/ running = None /\ ResolveAck(TheLoop)
     \/ \E a \in wire : HandleAck(a)
  /\ UNCHANGED <<backendVars, px4Vars>>

(* What the loop does by itself; completion is up to the vehicle. *)
ProgressStep(f) ==
  \/ WarmedUp(f) \/ EnterOffboard(f) \/ OffboardAnswered(f)
  \/ SubmitStep(f) \/ StepAnswered(f)
  \/ PollCancelled(f) \/ PollTimedOut(f) \/ PollSleeps(f)
  \/ TimeoutHandedOver(f)

ExecuteStep(f) == ProgressStep(f) \/ PollCompleted(f)

BackendNext ==
  \/ \E f \in Flights : Start(f) \/ StartFails(f) \/ ExecuteStep(f)
  \/ \E f \in Flights : \E k \in 1..CancelsOf[f] :
       CancelFlight(f, k) \/ CancelHandover(f, k) \/ CancelHandedOver(f, k)
  \/ \E c \in Commands : Px4Decides(c)
  \/ TransportStep \/ Px4LeavesOffboard \/ TargetsLapse \/ SeeMode

(* The loop resumes what is ready and its timers and deadlines expire; no   *)
(* help of PX4, of the vehicle or of the network is assumed.                *)
BackendFairness ==
  /\ \A f \in Flights : WF_allVars(ProgressStep(f))
  /\ \A f \in Flights : \A k \in 1..CancelsOf[f] :
       WF_allVars(CancelHandover(f, k) \/ CancelHandedOver(f, k))
  /\ WF_allVars(\E c \in Calls : Acquire(c) /\ running = None /\ UNCHANGED <<backendVars, px4Vars>>)

BackendSpec == BackendInit /\ [][BackendNext]_allVars
FairBackendSpec == BackendSpec /\ BackendFairness
-----------------------------------------------------------------------------
(* Execution ids are registered exactly while execute() runs, whichever    *)
(* way it ends and whenever cancel() comes: a mark left behind would        *)
(* never be cleared.                                                        *)
RegistersMatchFlights ==
  /\ active = {f \in Flights : at[f] \notin {"new", "done"}}
  /\ offboard = active \cap Offboard
  /\ cancelled = active \cap asked

(* A flight that was cancelled while in flight is never reported a success, *)
(* whatever its ACKs and the vehicle state say in the meantime.             *)
CancelledNeverSucceeds == \A f \in asked : status[f] # "SUCCEEDED"

(* PX4 is never in Offboard mode without the target stream it depends on,  *)
(* as long as no command was abandoned to a time-out or a cancellation or  *)
(* returned with the answer to another client's command, and no flight     *)
(* lost the targets it was to enter Offboard with to a handover or to its  *)
(* budget.                                                                 *)
Quiet == \A c \in Calls :
  ~Abandoned(c) /\ (pc[c] = "returned" => credited[c] \notin Others)
Undisturbed == Quiet /\ cut = {}
HeartbeatWhileOffboard == Undisturbed /\ mode = "OFFBOARD" => stream # None

(* While PX4 returns or lands on its own, no target of an earlier flight is *)
(* published any more.                                                      *)
NoTargetsWhileLanding ==
  \A f \in Flights : SkillOf[f] \in {"rtl", "land"} /\ at[f] = "polling" => stream = None

(* The vehicle is armed only after PX4 accepted the take-off target, and a  *)
(* flight by PX4 mode succeeds only if every command of its plan has been   *)
(* accepted.                                                                *)
PlanInOrder ==
  \A f \in Flights : \A i, j \in 1..Len(PlanOf(f)) :
    \/ j < i /\ px4[<<f, PlanOf(f)[i], 0>>] # "unpublished"
    \/ status[f] = "SUCCEEDED"
    => result[<<f, PlanOf(f)[j], 0>>] = "ACCEPTED"

(* The backend is a flight service: flights one at a time, each with one    *)
(* result, a success only when its cancellation was not asked for and       *)
(* CANCELLED only when it was.                                              *)
StageOf(f) ==
  IF at[f] = "new" THEN "waiting"
  ELSE IF at[f] = "done" THEN "over"
  ELSE IF f \in cancelled THEN "stopping" ELSE "flying"

Service == INSTANCE FlightService
  WITH Tasks <- Flights, stage <- [f \in Flights |-> StageOf(f)], verdict <- status

ServesFlights == Service!Spec

(* Every execution and every cancellation comes to an end. *)
EveryFlightEnds ==
  /\ \A f \in Flights : f \in active ~> at[f] = "done"
  /\ \A x \in Cancels : cancelAt[x] # "new" ~> cancelAt[x] = "done"

(* contracts/skill_contract.md:84: cancelling repeatedly has no additional  *)
(* side effect.  The code refutes it: a second cancel() of a flight that    *)
(* has not noticed the first one sends PX4 another mode command.            *)
RepeatedCancelSendsNothing ==
  \A f \in Flights : Cardinality({k \in 1..CancelsOf[f] :
    f \in Offboard /\ px4[CancelCall(f, k)] # "unpublished"}) <= 1

(* _handover_from_offboard(): "Enter Auto Loiter before stopping an active  *)
(* Offboard target stream".  The code refutes it: the late ACK of an        *)
(* abandoned Offboard command passes for the handover's.                    *)
LoiterBeforeStop ==
  [][\A c \in Calls :
       /\ c[2] \in {"cancel", "timeout"}
       /\ pc[c] = "waiting" /\ result'[c] = "ACCEPTED"
       /\ stream # None
       => mode # "OFFBOARD"]_allVars
=============================================================================
