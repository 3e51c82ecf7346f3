------------------------- MODULE FlightBackendProofs --------------------------
(***************************************************************************)
(* The flight execution backend for any number of flights and of           *)
(* cancellations: it uses the command adapter as the adapter's own         *)
(* specification describes, so that what is proved of the adapter holds of *)
(* the backend, and its registers always tell the flights in flight.       *)
(***************************************************************************)
EXTENDS FlightBackend, CommandTransportProofs

FlightPlaces == {"new", "warming", "warmed", "ready", "entering", "planning", "submitted",
                 "polling", "handover", "done"}
ByTargets == {"warming", "warmed", "ready", "entering", "handover"}
ByMode == {"planning", "submitted"}

FlightTypes ==
  /\ active \subseteq Flights /\ offboard \subseteq Flights
  /\ cancelled \subseteq Flights /\ asked \subseteq Flights
  /\ stream \in Flights \cup {None}
  /\ at \in [Flights -> FlightPlaces]
  /\ status \in [Flights -> Statuses \cup {None}]
  /\ cancelAt \in [Cancels -> {"new", "begun", "handover", "done"}]
  /\ running \in Flights \cup Cancels \cup {None}
  /\ mode \in Modes /\ seen \in Modes

(* Only Goto and Hold request Offboard and hand over; the others follow a  *)
(* plan of commands.                                                       *)
RightPlaces ==
  /\ \A f \in Flights : at[f] \in ByTargets => f \in Offboard
  /\ \A f \in Flights : at[f] \in ByMode => f \notin Offboard
  /\ \A f \in Flights : \A k \in 1..CancelsOf[f] :
       cancelAt[<<f, k>>] \in {"begun", "handover"} => f \in Offboard
  /\ running \in Cancels => cancelAt[running] = "begun"
  /\ \A f \in Flights : at[f] # "done" => status[f] = None
  /\ \A f \in asked : at[f] # "new"

FlightInv == FlightTypes /\ RegistersMatchFlights /\ RightPlaces /\ CancelledNeverSucceeds

-----------------------------------------------------------------------------
LEMMA BackendConstants ==
  /\ TheLoop \in Loops /\ \A c \in Calls : LoopOf[c] = TheLoop
  /\ \A f \in Offboard : OffboardCall(f) \in Calls /\ TimeoutCall(f) \in Calls
  /\ \A f \in Offboard : \A k \in 1..CancelsOf[f] : CancelCall(f, k) \in Calls
  /\ \A f \in Flights \ Offboard : PlanCalls(f) \subseteq Calls
  /\ \A f \in Flights \ Offboard : \A i \in 1..Len(PlanOf(f)) : <<f, PlanOf(f)[i], 0>> \in PlanCalls(f)
  /\ \A f \in Flights \ Offboard : PlanOf(f) \in {<<"takeoff", "arm">>, <<"rtl">>, <<"land">>}
  /\ \A f \in Flights : RunId(f) \in Executions
<1>1. \A f \in Flights : \A c \in FlightCalls(f) : c \in Calls
  BY BackendAssumption
<1>2. \A f \in Offboard : f \in Flights
  BY DEF Offboard
<1>3. TheLoop \in Loops /\ \A c \in Calls : LoopOf[c] = TheLoop
  BY BackendAssumption, TransportAssumption
<1>4. \A f \in Flights \ Offboard : PlanOf(f) \in {<<"takeoff", "arm">>, <<"rtl">>, <<"land">>}
  BY BackendAssumption DEF PlanOf, Offboard
<1>5. \A f \in Flights \ Offboard : PlanCalls(f) \subseteq Calls
  BY <1>1 DEF FlightCalls
<1>6. \A f \in Flights : RunId(f) \in Executions
  <2> SUFFICES ASSUME NEW f \in Flights PROVE RunId(f) \in Executions
    OBVIOUS
  <2>1. CASE f \in Offboard
    <3>1. OffboardCall(f) \in Calls
      BY <1>1, <2>1 DEF FlightCalls
    <3>2. ExecId(OffboardCall(f)) = RunId(f)
      BY DEF ExecId, OffboardCall
    <3>3. QED
      BY <3>1, <3>2, BackendAssumption
  <2>2. CASE f \notin Offboard
    <3>1. PICK s \in {"takeoff", "rtl", "land"} : <<f, s, 0>> \in PlanCalls(f)
      <4>1. 1 \in 1..Len(PlanOf(f)) /\ PlanOf(f)[1] \in {"takeoff", "rtl", "land"}
        BY <1>4, <2>2
      <4>2. QED
        BY <4>1 DEF PlanCalls
    <3>2. <<f, s, 0>> \in Calls
      BY <1>5, <2>2, <3>1
    <3>3. ExecId(<<f, s, 0>>) = RunId(f)
      BY DEF ExecId
    <3>4. QED
      BY <3>2, <3>3, BackendAssumption
  <2>3. QED
    BY <2>1, <2>2
<1>7. QED
  BY <1>1, <1>2, <1>3, <1>4, <1>5, <1>6 DEF FlightCalls, PlanCalls

LEMMA CallNames ==
  \A c \in Calls : c[2] \in {"offboard", "timeout", "cancel", "takeoff", "arm", "rtl", "land"}
<1> SUFFICES ASSUME NEW c \in Calls
             PROVE  c[2] \in {"offboard", "timeout", "cancel", "takeoff", "arm", "rtl", "land"}
  OBVIOUS
<1>1. PICK f \in Flights : c \in FlightCalls(f)
  BY BackendAssumption
<1>2. CASE f \in Offboard
  BY <1>1, <1>2 DEF FlightCalls, OffboardCall, TimeoutCall, CancelCall
<1>3. CASE f \notin Offboard
  <2>1. PICK i \in 1..Len(PlanOf(f)) : c = <<f, PlanOf(f)[i], 0>>
    BY <1>1, <1>3 DEF FlightCalls, PlanCalls
  <2>2. PlanOf(f)[i] \in {"takeoff", "arm", "rtl", "land"}
    BY <1>3, BackendConstants
  <2>3. QED
    BY <2>1, <2>2
<1>4. QED
  BY <1>2, <1>3

LEMMA AnswerIsVerdict ==
  ASSUME TypeOK, NEW c \in Calls, Answered(c)
  PROVE  /\ result' = [result EXCEPT ![c] = result'[c]]
         /\ result'[c] \in Outcomes \cup {"TIMED_OUT"}
         /\ StatusFor(result'[c]) \in Statuses \cup {"ACCEPTED"}
         /\ result'[c] # "ACCEPTED" => StatusFor(result'[c]) \in Statuses \ {"SUCCEEDED"}
         /\ pc[c] = "waiting" /\ pc' = [pc EXCEPT ![c] = "returned"]
<1>1. /\ pc[c] = "waiting" /\ pc' = [pc EXCEPT ![c] = "returned"]
      /\ result \in [Calls -> Results \cup {"none"}]
      /\ \E r \in Outcomes \cup {"TIMED_OUT"} : result' = [result EXCEPT ![c] = r]
  BY DEF Answered, Wake, TimeOut, ReturnWith, TypeOK
<1>2. QED
  BY <1>1 DEF StatusFor, Statuses, Outcomes, FinalVerdicts

-----------------------------------------------------------------------------
(* execute() of a flight goes on, or ends. *)
LEMMA GoingOnKeeps ==
  ASSUME FlightInv, NEW f \in Flights, NEW p \in FlightPlaces \ {"new", "done"},
         at[f] \notin {"new", "done"},
         p \in ByTargets => f \in Offboard, p \in ByMode => f \notin Offboard,
         Continue(f, p) \/ Suspend(f, p), NotFinished,
         stream' \in Flights \cup {None}, UNCHANGED <<cancelAt, asked, px4Vars>>
  PROVE  FlightInv'
<1>1. /\ at' = [at EXCEPT ![f] = p] /\ at \in [Flights -> FlightPlaces]
      /\ running' \in {f, None} /\ UNCHANGED <<active, offboard, cancelled, status, cancelAt, asked, mode, seen>>
  BY DEF Continue, Suspend, NotFinished, FlightInv, FlightTypes, px4Vars
<1>2. FlightTypes'
  BY <1>1 DEF FlightInv, FlightTypes
<1>3. RegistersMatchFlights'
  BY <1>1 DEF FlightInv, RegistersMatchFlights
<1>4. RightPlaces'
  BY <1>1, BackendAssumption DEF FlightInv, RightPlaces
<1>5. CancelledNeverSucceeds'
  BY <1>1 DEF FlightInv, CancelledNeverSucceeds
<1>6. QED
  BY <1>2, <1>3, <1>4, <1>5 DEF FlightInv

LEMMA EndingKeeps ==
  ASSUME FlightInv, NEW f \in Flights, NEW s \in Statuses,
         at[f] # "done", s = "SUCCEEDED" => f \in active \ cancelled,
         Finish(f, s), stream' \in Flights \cup {None}, UNCHANGED <<cancelAt, asked, px4Vars>>
  PROVE  FlightInv'
<1>1. /\ at' = [at EXCEPT ![f] = "done"] /\ at \in [Flights -> FlightPlaces]
      /\ status' = [status EXCEPT ![f] = s] /\ status \in [Flights -> Statuses \cup {None}]
      /\ active' = active \ {f} /\ offboard' = offboard \ {f} /\ cancelled' = cancelled \ {f}
      /\ running' = None /\ UNCHANGED <<cancelAt, asked, mode, seen>>
  BY DEF Finish, FlightInv, FlightTypes, px4Vars
<1>2. FlightTypes'
  BY <1>1 DEF FlightInv, FlightTypes, FlightPlaces
<1>3. RegistersMatchFlights'
  BY <1>1 DEF FlightInv, RegistersMatchFlights
<1>4. RightPlaces'
  BY <1>1, BackendAssumption DEF FlightInv, RightPlaces, ByTargets, ByMode
<1>5. CancelledNeverSucceeds'
  BY <1>1 DEF FlightInv, CancelledNeverSucceeds, RegistersMatchFlights
<1>6. QED
  BY <1>2, <1>3, <1>4, <1>5 DEF FlightInv

(* Callbacks, PX4 and the pilot leave the flights where they are. *)
LEMMA SameFlightsKeep ==
  ASSUME FlightInv, UNCHANGED backendVars, mode' \in Modes, seen' \in Modes
  PROVE  FlightInv'
  BY DEF FlightInv, FlightTypes, RegistersMatchFlights, RightPlaces, CancelledNeverSucceeds, backendVars

-----------------------------------------------------------------------------
(* One round of execute(): what it asks of the adapter is a step of the    *)
(* adapter's specification.                                                *)
LEMMA StartSteps ==
  ASSUME FlightInv, NEW f \in Flights, Start(f) \/ StartFails(f)
  PROVE  FlightInv' /\ UNCHANGED vars
<1>1. CASE StartFails(f)
  <2>1. /\ at[f] = "new" /\ Finish(f, "FAILED")
        /\ UNCHANGED <<vars, stream, cancelAt, asked, px4Vars>>
    BY <1>1 DEF StartFails, MayStart
  <2>2. "FAILED" \in Statuses /\ stream' \in Flights \cup {None}
    BY <2>1 DEF Statuses, FlightInv, FlightTypes
  <2>3. QED
    BY <2>1, <2>2, EndingKeeps
<1>2. CASE Start(f)
  <2>1. /\ at[f] = "new" /\ at \in [Flights -> FlightPlaces]
        /\ \E p \in {"warming", "ready", "planning"} :
             /\ at' = [at EXCEPT ![f] = p]
             /\ (p = "planning") <=> (f \notin Offboard)
        /\ running' \in {f, None}
        /\ active' = active \cup {f}
        /\ offboard' = IF f \in Offboard THEN offboard \cup {f} ELSE offboard
        /\ stream' \in {stream, f}
        /\ UNCHANGED <<cancelled, status, cancelAt, asked, mode, seen>>
    <3>1. CASE f \in Offboard
      BY <1>2, <3>1 DEF Start, MayStart, Continue, Suspend, FlightInv, FlightTypes, px4Vars
    <3>2. CASE f \notin Offboard
      BY <1>2, <3>2 DEF Start, MayStart, Continue, Suspend, FlightInv, FlightTypes, px4Vars
    <3>3. QED
      BY <3>1, <3>2
  <2>2. UNCHANGED vars
    BY <1>2 DEF Start
  <2>3. FlightTypes'
    BY <2>1 DEF FlightInv, FlightTypes, FlightPlaces
  <2>4. f \notin asked /\ f \notin active
    BY <2>1 DEF FlightInv, RegistersMatchFlights, RightPlaces
  <2>5. RegistersMatchFlights'
    BY <2>1, <2>4 DEF FlightInv, RegistersMatchFlights
  <2>6. RightPlaces'
    BY <2>1, BackendAssumption DEF FlightInv, RightPlaces, ByTargets, ByMode
  <2>7. CancelledNeverSucceeds'
    BY <2>1 DEF FlightInv, CancelledNeverSucceeds
  <2>8. QED
    BY <2>2, <2>3, <2>5, <2>6, <2>7 DEF FlightInv
<1>3. QED
  BY <1>1, <1>2

LEMMA OffboardSteps ==
  ASSUME FlightInv, TypeOK, NEW f \in Flights,
         WarmedUp(f) \/ EnterOffboard(f) \/ OffboardAnswered(f)
  PROVE  FlightInv' /\ (Next \/ UNCHANGED vars)
<1>f. stream \in Flights \cup {None} /\ f \in Offboard /\ OffboardCall(f) \in Calls
  <2>1. at[f] \in ByTargets
    BY DEF WarmedUp, EnterOffboard, OffboardAnswered, ByTargets
  <2>2. QED
    BY <2>1, BackendConstants DEF FlightInv, RightPlaces, FlightTypes
<1>1. CASE WarmedUp(f)
  <2>1. /\ at[f] = "warming" /\ Continue(f, "warmed") /\ NotFinished
        /\ UNCHANGED <<vars, stream, cancelAt, asked, px4Vars>>
    BY <1>1 DEF WarmedUp
  <2>2. QED
    BY <1>f, <2>1, GoingOnKeeps DEF FlightPlaces, ByMode
<1>2. CASE EnterOffboard(f)
  <2>0. at[f] \in {"ready", "warmed"} /\ UNCHANGED <<cancelAt, asked, px4Vars>>
    BY <1>2 DEF EnterOffboard
  <2>1. CASE Finish(f, "CANCELLED") /\ UNCHANGED <<vars, stream>>
    BY <1>f, <2>0, <2>1, EndingKeeps DEF Statuses
  <2>2. CASE Continue(f, "polling") /\ NotFinished /\ UNCHANGED <<vars, stream>>
    BY <1>f, <2>0, <2>2, GoingOnKeeps DEF FlightPlaces, ByMode, ByTargets
  <2>3. CASE Submit(OffboardCall(f)) /\ Suspend(f, "entering") /\ NotFinished /\ UNCHANGED stream
    <3>1. Next
      BY <1>f, <2>3 DEF Next, CallStep
    <3>2. QED
      BY <1>f, <2>0, <2>3, <3>1, GoingOnKeeps DEF FlightPlaces, ByMode, ByTargets
  <2>4. CASE stream' = None /\ Finish(f, "TIMED_OUT") /\ UNCHANGED vars
    BY <2>0, <2>4, EndingKeeps DEF Statuses
  <2>5. QED
    BY <1>2, <2>1, <2>2, <2>3, <2>4 DEF EnterOffboard
<1>3. CASE OffboardAnswered(f)
  <2>0. /\ at[f] = "entering" /\ Answered(OffboardCall(f)) /\ UNCHANGED <<cancelAt, asked, px4Vars>>
    BY <1>3 DEF OffboardAnswered
  <2>1. Next
    BY <1>f, <2>0 DEF Answered, Next, CallStep
  <2>2. CASE Continue(f, "polling") /\ NotFinished /\ UNCHANGED stream
    BY <1>f, <2>0, <2>1, <2>2, GoingOnKeeps DEF FlightPlaces, ByMode, ByTargets
  <2>3. CASE /\ result'[OffboardCall(f)] # "ACCEPTED"
             /\ Finish(f, StatusFor(result'[OffboardCall(f)])) /\ stream' = None
    <3>1. PICK s \in Statuses \ {"SUCCEEDED"} : s = StatusFor(result'[OffboardCall(f)])
      BY <1>f, <2>0, <2>3, AnswerIsVerdict
    <3>2. QED
      BY <2>0, <2>1, <2>3, <3>1, EndingKeeps
  <2>4. QED
    BY <1>3, <2>2, <2>3 DEF OffboardAnswered
<1>4. QED
  BY <1>1, <1>2, <1>3

LEMMA PollSteps ==
  ASSUME FlightInv, TypeOK, NEW f \in Flights,
         PollCancelled(f) \/ PollCompleted(f) \/ PollTimedOut(f) \/ PollSleeps(f) \/ TimeoutHandedOver(f)
  PROVE  FlightInv' /\ (Next \/ UNCHANGED vars)
<1>s. stream \in Flights \cup {None} /\ Statuses \cap {"CANCELLED", "SUCCEEDED", "TIMED_OUT"} = {"CANCELLED", "SUCCEEDED", "TIMED_OUT"}
  BY DEF FlightInv, FlightTypes, Statuses
<1>1. CASE PollCancelled(f)
  BY <1>1, <1>s, EndingKeeps DEF PollCancelled, Polls
<1>2. CASE PollCompleted(f)
  <2>1. f \in active \ cancelled
    BY <1>2 DEF PollCompleted, Polls, FlightInv, RegistersMatchFlights
  <2>2. QED
    BY <1>2, <1>s, <2>1, EndingKeeps DEF PollCompleted, Polls
<1>3. CASE PollSleeps(f)
  BY <1>3, <1>s, GoingOnKeeps DEF PollSleeps, Polls, FlightPlaces, ByMode, ByTargets
<1>4. CASE PollTimedOut(f)
  <2>1. CASE f \in Offboard
    <3>1. Submit(TimeoutCall(f)) /\ Suspend(f, "handover") /\ NotFinished
      BY <1>4, <2>1 DEF PollTimedOut
    <3>2. Next
      BY <2>1, <3>1, BackendConstants DEF Next, CallStep
    <3>3. QED
      BY <1>4, <1>s, <2>1, <3>1, <3>2, GoingOnKeeps DEF PollTimedOut, Polls, FlightPlaces, ByMode
  <2>2. CASE f \notin Offboard
    BY <1>4, <1>s, <2>2, EndingKeeps DEF PollTimedOut, Polls
  <2>3. QED
    BY <2>1, <2>2
<1>5. CASE TimeoutHandedOver(f)
  <2>1. f \in Offboard
    BY <1>5 DEF TimeoutHandedOver, FlightInv, RightPlaces, ByTargets
  <2>2. Next
    BY <1>5, <2>1, BackendConstants DEF TimeoutHandedOver, Answered, Next, CallStep
  <2>3. stream' \in Flights \cup {None}
    BY <1>5, <1>s DEF TimeoutHandedOver, HandedOver, StreamAfter
  <2>4. QED
    BY <1>5, <1>s, <2>2, <2>3, EndingKeeps DEF TimeoutHandedOver
<1>6. QED
  BY <1>1, <1>2, <1>3, <1>4, <1>5

LEMMA CancelSteps ==
  ASSUME FlightInv, TypeOK, NEW f \in Flights, NEW k \in 1..CancelsOf[f],
         CancelFlight(f, k) \/ CancelHandover(f, k) \/ CancelHandedOver(f, k)
  PROVE  FlightInv' /\ (Next \/ UNCHANGED vars)
<1>c. <<f, k>> \in Cancels /\ <<f, k>> \notin Flights /\ <<f, k>> # None
  BY BackendAssumption DEF Cancels
<1>1. CASE CancelFlight(f, k)
  <2>1. /\ f \in active /\ cancelled' = cancelled \cup {f} /\ asked' = asked \cup {f}
        /\ cancelAt' = [cancelAt EXCEPT ![<<f, k>>] = IF f \in offboard THEN "begun" ELSE "done"]
        /\ running' = IF f \in offboard THEN <<f, k>> ELSE None
        /\ UNCHANGED <<active, offboard, stream, at, status, mode, seen>>
        /\ cancelAt \in [Cancels -> {"new", "begun", "handover", "done"}]
    BY <1>1 DEF CancelFlight, px4Vars, FlightInv, FlightTypes
  <2>2. Next
    BY <1>1, BackendConstants DEF CancelFlight, Next
  <2>3. FlightTypes'
    BY <1>c, <2>1 DEF FlightInv, FlightTypes
  <2>4. RegistersMatchFlights'
    BY <2>1 DEF FlightInv, RegistersMatchFlights
  <2>5. RightPlaces'
    BY <1>c, <2>1, BackendAssumption DEF FlightInv, RightPlaces, RegistersMatchFlights
  <2>6. CancelledNeverSucceeds'
    <3>1. None # "SUCCEEDED"
      BY BackendAssumption DEF Statuses
    <3>2. at[f] # "done"
      BY <2>1 DEF FlightInv, RegistersMatchFlights
    <3>3. QED
      BY <2>1, <3>1, <3>2 DEF FlightInv, CancelledNeverSucceeds, RightPlaces
  <2>7. QED
    BY <2>2, <2>3, <2>4, <2>5, <2>6 DEF FlightInv
<1>2. CASE CancelHandover(f, k)
  <2>1. /\ running = <<f, k>> /\ running' = None
        /\ cancelAt' = [cancelAt EXCEPT ![<<f, k>>] = "handover"]
        /\ UNCHANGED <<active, offboard, cancelled, stream, at, status, asked, mode, seen>>
        /\ cancelAt \in [Cancels -> {"new", "begun", "handover", "done"}]
    BY <1>2 DEF CancelHandover, px4Vars, FlightInv, FlightTypes
  <2>2. f \in Offboard
    BY <1>c, <2>1 DEF FlightInv, RightPlaces
  <2>3. Next
    BY <1>2, <2>2, BackendConstants DEF CancelHandover, Next, CallStep
  <2>4. FlightTypes' /\ RegistersMatchFlights' /\ CancelledNeverSucceeds'
    BY <1>c, <2>1 DEF FlightInv, FlightTypes, RegistersMatchFlights, CancelledNeverSucceeds
  <2>5. RightPlaces'
    BY <1>c, <2>1, <2>2, BackendAssumption DEF FlightInv, RightPlaces
  <2>6. QED
    BY <2>3, <2>4, <2>5 DEF FlightInv
<1>3. CASE CancelHandedOver(f, k)
  <2>1. /\ cancelAt[<<f, k>>] = "handover" /\ running = None
        /\ cancelAt' = [cancelAt EXCEPT ![<<f, k>>] = "done"]
        /\ stream' \in {stream, None}
        /\ UNCHANGED <<active, offboard, cancelled, at, status, running, asked, mode, seen>>
        /\ cancelAt \in [Cancels -> {"new", "begun", "handover", "done"}]
    BY <1>3 DEF CancelHandedOver, HandedOver, StreamAfter, px4Vars, FlightInv, FlightTypes
  <2>2. f \in Offboard
    BY <2>1 DEF FlightInv, RightPlaces
  <2>3. Next
    BY <1>3, <2>2, BackendConstants DEF CancelHandedOver, Answered, Next, CallStep
  <2>4. FlightTypes' /\ RegistersMatchFlights' /\ CancelledNeverSucceeds'
    BY <1>c, <2>1 DEF FlightInv, FlightTypes, RegistersMatchFlights, CancelledNeverSucceeds
  <2>5. RightPlaces'
    BY <1>c, <2>1, BackendAssumption DEF FlightInv, RightPlaces
  <2>6. QED
    BY <2>3, <2>4, <2>5 DEF FlightInv
<1>4. QED
  BY <1>1, <1>2, <1>3

LEMMA OtherSteps ==
  ASSUME FlightInv, TypeOK,
         TransportStep \/ Px4LeavesOffboard \/ TargetsLapse \/ SeeMode \/ \E c \in Commands : Px4Decides(c)
  PROVE  FlightInv' /\ (Next \/ UNCHANGED vars)
<1>m. mode \in Modes /\ seen \in Modes
  BY DEF FlightInv, FlightTypes
<1>1. CASE TransportStep
  <2>1. UNCHANGED <<backendVars, px4Vars>>
    BY <1>1 DEF TransportStep
  <2>2. Next
    BY <1>1, BackendConstants DEF TransportStep, Next, CallStep
  <2>3. QED
    BY <1>m, <2>1, <2>2, SameFlightsKeep DEF px4Vars
<1>2. CASE Px4LeavesOffboard \/ TargetsLapse
  BY <1>2, <1>m, SameFlightsKeep DEF Px4LeavesOffboard, TargetsLapse, Modes
<1>3. CASE SeeMode
  BY <1>3, <1>m, SameFlightsKeep DEF SeeMode
<1>4. CASE \E c \in Commands : Px4Decides(c)
  <2>1. PICK c \in Commands : Px4Decides(c)
    BY <1>4
  <2>2. ModesAfter(c) \subseteq Modes
    BY <1>m, CallNames DEF ModesAfter, Modes, Commands
  <2>3. mode' \in Modes /\ seen' = seen /\ UNCHANGED backendVars
    BY <1>m, <2>1, <2>2 DEF Px4Decides
  <2>4. Next
    BY <2>1 DEF Px4Decides, Next
  <2>5. QED
    BY <1>m, <2>3, <2>4, SameFlightsKeep
<1>5. QED
  BY <1>1, <1>2, <1>3, <1>4

-----------------------------------------------------------------------------
(* The plans of commands.  A step of a plan is sent only when those before *)
(* it have been accepted, and the flight goes on to wait for completion    *)
(* only when all of them have.                                              *)
CommandOf(f, i) == <<f, PlanOf(f)[i], 0>>
Steps(f) == 1..Len(PlanOf(f))

PlanKeptOf(f) ==
  /\ at[f] = "new" => \A i \in Steps(f) : pc[CommandOf(f, i)] = "new"
  /\ at[f] = "planning" =>
       /\ UnsentSteps(f) # {}
       /\ \A i \in Steps(f) : pc[CommandOf(f, i)] = "new" \/ result[CommandOf(f, i)] = "ACCEPTED"
  /\ at[f] = "submitted" =>
       \A i \in Steps(f) : pc[CommandOf(f, i)] \in {"new", "queued", "waiting"}
                           \/ result[CommandOf(f, i)] = "ACCEPTED"
  /\ at[f] = "polling" \/ status[f] = "SUCCEEDED" =>
       \A i \in Steps(f) : result[CommandOf(f, i)] = "ACCEPTED"
  /\ \A i, j \in Steps(f) : j < i /\ pc[CommandOf(f, i)] # "new" => result[CommandOf(f, j)] = "ACCEPTED"

PlanKept == \A f \in Flights \ Offboard : PlanKeptOf(f)

LEMMA CommandsOfPlan ==
  ASSUME NEW f \in Flights \ Offboard
  PROVE  /\ Steps(f) \subseteq 1..2
         /\ \A i \in Steps(f) : CommandOf(f, i) \in Calls
         /\ \A i, j \in Steps(f) : CommandOf(f, i) = CommandOf(f, j) => i = j
         /\ \A g, i, j : CommandOf(f, i) = CommandOf(g, j) => f = g
         /\ \A g, k, i : i \in Steps(f) => CommandOf(f, i) \notin {OffboardCall(g), TimeoutCall(g), CancelCall(g, k)}
<1>1. PlanOf(f) \in {<<"takeoff", "arm">>, <<"rtl">>, <<"land">>}
  BY BackendConstants
<1>2. Steps(f) \subseteq 1..2 /\ \A i, j \in Steps(f) : PlanOf(f)[i] = PlanOf(f)[j] => i = j
  <2>1. CASE PlanOf(f) = <<"takeoff", "arm">>
    <3>1. Len(<<"takeoff", "arm">>) = 2 /\ <<"takeoff", "arm">>[1] # <<"takeoff", "arm">>[2]
      OBVIOUS
    <3>2. Steps(f) = 1..2 /\ PlanOf(f)[1] # PlanOf(f)[2]
      BY <2>1, <3>1 DEF Steps
    <3>3. QED
      BY <3>2
  <2>2. CASE PlanOf(f) = <<"rtl">> \/ PlanOf(f) = <<"land">>
    <3>1. Steps(f) = 1..1
      BY <2>2 DEF Steps
    <3>2. QED
      BY <3>1
  <2>3. QED
    BY <1>1, <2>1, <2>2
<1>3. \A i \in Steps(f) : PlanOf(f)[i] \in {"takeoff", "arm", "rtl", "land"}
  BY <1>1 DEF Steps
<1>4. \A i \in Steps(f) : CommandOf(f, i) \in Calls
  BY BackendConstants DEF CommandOf, Steps
<1>5. QED
  BY <1>2, <1>3, <1>4 DEF CommandOf, OffboardCall, TimeoutCall, CancelCall

LEMMA NextStepIsFirst ==
  ASSUME NEW f \in Flights \ Offboard, UnsentSteps(f) # {}
  PROVE  /\ NextStep(f) \in UnsentSteps(f)
         /\ \A j \in UnsentSteps(f) : NextStep(f) <= j
<1>1. UnsentSteps(f) \subseteq 1..2
  BY CommandsOfPlan DEF UnsentSteps, Steps
<1>2. \E i \in UnsentSteps(f) : \A j \in UnsentSteps(f) : i <= j
  <2>1. CASE 1 \in UnsentSteps(f)
    BY <1>1, <2>1
  <2>2. CASE 1 \notin UnsentSteps(f)
    BY <1>1, <2>2
  <2>3. QED
    BY <2>1, <2>2
<1>3. QED
  BY <1>2 DEF NextStep

(* The backend's one loop is never refused by the adapter. *)
LEMMA NeverRefused ==
  ASSUME AdapterInv, NEW c \in Calls, Submit(c)
  PROVE  /\ pc[c] = "new" /\ result' = result
         /\ \E s \in {"queued", "waiting"} : pc' = [pc EXCEPT ![c] = s]
<1>1. MayEnter(TheLoop)
  <2>1. CASE \E d \in Calls : InFlight(d)
    BY <2>1, BackendConstants DEF AdapterInv, LifecycleAccounted, MayEnter
  <2>2. CASE \A d \in Calls : ~InFlight(d)
    <3>1. {d \in Calls : InFlight(d)} = {}
      BY <2>2
    <3>2. QED
      BY <3>1, FS_EmptySet DEF AdapterInv, LifecycleAccounted, MayEnter
  <2>3. QED
    BY <2>1, <2>2
<1>2. SubmitAtOnce(c) \/ SubmitQueued(c)
  BY <1>1, BackendConstants DEF Submit, SubmitRefused
<1>3. QED
  BY <1>2 DEF SubmitAtOnce, SubmitQueued, Publish

LEMMA PlanFrame ==
  ASSUME NEW f \in Flights \ Offboard, PlanKeptOf(f),
         at'[f] \in {at[f], "done"},
         status'[f] = "SUCCEEDED" => status[f] = "SUCCEEDED" \/ at[f] = "polling",
         \A i \in Steps(f) :
           /\ result'[CommandOf(f, i)] = result[CommandOf(f, i)]
           /\ \/ pc'[CommandOf(f, i)] = pc[CommandOf(f, i)]
              \/ pc[CommandOf(f, i)] = "queued" /\ pc'[CommandOf(f, i)] = "waiting"
  PROVE  PlanKeptOf(f)'
<1>1. at[f] = "planning" => UnsentSteps(f)' = UnsentSteps(f)
  BY DEF PlanKeptOf, UnsentSteps, CommandOf, Steps
<1>2. QED
  BY <1>1 DEF PlanKeptOf, Steps, CommandOf

LEMMA PlanSteps ==
  ASSUME FlightInv, AdapterInv, AckInv, PlanKept, NEW f \in Flights, SubmitStep(f) \/ StepAnswered(f)
  PROVE  FlightInv' /\ PlanKept' /\ (Next \/ UNCHANGED vars)
<1>f. f \in Flights \ Offboard /\ PlanKeptOf(f)
  BY DEF SubmitStep, StepAnswered, FlightInv, RightPlaces, ByMode, PlanKept
<1>t. /\ at \in [Flights -> FlightPlaces] /\ status \in [Flights -> Statuses \cup {None}]
      /\ stream \in Flights \cup {None}
      /\ pc \in [Calls -> {"new", "queued", "waiting", "returned"}]
      /\ result \in [Calls -> Results \cup {"none"}]
      /\ TypeOK
      /\ \A d \in Calls : pc[d] # "returned" => result[d] = "none"
  BY DEF FlightInv, FlightTypes, AdapterInv, TypeOK, AckInv, CallsSettled
<1>o. ASSUME \A g \in Flights \ {f} : at'[g] = at[g] /\ status'[g] = status[g],
             \A g \in Flights \ Offboard : \A i \in Steps(g) :
               g # f => /\ pc'[CommandOf(g, i)] = pc[CommandOf(g, i)]
                        /\ result'[CommandOf(g, i)] = result[CommandOf(g, i)],
             PlanKeptOf(f)'
      PROVE  PlanKept'
  <2> SUFFICES ASSUME NEW g \in Flights \ Offboard, g # f PROVE PlanKeptOf(g)'
    BY <1>o DEF PlanKept
  <2>1. PlanKeptOf(g)
    BY DEF PlanKept
  <2>2. QED
    BY <1>o, <2>1, PlanFrame
<1>1. CASE Finish(f, "TIMED_OUT") /\ UNCHANGED vars /\ SubmitStep(f)
  <2>1. FlightInv'
    BY <1>1, <1>t, EndingKeeps DEF SubmitStep, Statuses
  <2>2. /\ at' = [at EXCEPT ![f] = "done"] /\ status' = [status EXCEPT ![f] = "TIMED_OUT"]
        /\ UNCHANGED <<pc, result>>
    BY <1>1 DEF Finish, vars, adapterVars
  <2>3. PlanKeptOf(f)'
    BY <1>f, <1>t, <2>2, PlanFrame
  <2>4. QED
    BY <1>1, <1>o, <1>t, <2>1, <2>2, <2>3
<1>2. CASE SubmitStep(f) /\ ~(Finish(f, "TIMED_OUT") /\ UNCHANGED vars)
  <2> DEFINE n == NextStep(f)
             c == CommandOf(f, n)
  <2>1. /\ at[f] = "planning" /\ Submit(c) /\ Suspend(f, "submitted") /\ NotFinished
        /\ UNCHANGED <<stream, cancelAt, asked, px4Vars>>
    BY <1>2 DEF SubmitStep, CommandOf
  <2>2. n \in UnsentSteps(f) /\ \A j \in UnsentSteps(f) : n <= j
    BY <1>f, <2>1, NextStepIsFirst DEF PlanKeptOf
  <2>3. n \in Steps(f) /\ c \in Calls /\ pc[c] = "new"
    BY <1>f, <2>2, CommandsOfPlan DEF UnsentSteps, Steps, CommandOf
  <2>4. /\ result' = result
        /\ \E s \in {"queued", "waiting"} : pc' = [pc EXCEPT ![c] = s]
    BY <2>1, <2>3, NeverRefused
  <2>5. FlightInv'
    BY <1>f, <1>t, <2>1, GoingOnKeeps DEF ByTargets, FlightPlaces
  <2>6. Next
    BY <2>1, <2>3 DEF Next, CallStep
  <2>7. at' = [at EXCEPT ![f] = "submitted"] /\ status' = status
    BY <2>1 DEF Suspend, NotFinished
  <2>8. \A g \in Flights \ Offboard : \A i \in Steps(g) :
          CommandOf(g, i) # c => pc'[CommandOf(g, i)] = pc[CommandOf(g, i)]
    BY <1>t, <2>4, CommandsOfPlan
  <2>9. PlanKeptOf(f)'
    <3>1. \A i \in Steps(f) : i < n => result[CommandOf(f, i)] = "ACCEPTED"
      <4> SUFFICES ASSUME NEW i \in Steps(f), i < n PROVE result[CommandOf(f, i)] = "ACCEPTED"
        OBVIOUS
      <4>1. i \notin UnsentSteps(f)
        BY <1>f, <2>2, <2>3, CommandsOfPlan
      <4>2. pc[CommandOf(f, i)] # "new"
        BY <4>1 DEF UnsentSteps, Steps, CommandOf
      <4>3. QED
        BY <1>f, <2>1, <4>2 DEF PlanKeptOf
    <3>2. \A i \in Steps(f) : pc'[CommandOf(f, i)] \in {"new", "queued", "waiting"} \/ result'[CommandOf(f, i)] = "ACCEPTED"
      <4> SUFFICES ASSUME NEW i \in Steps(f)
                   PROVE  pc'[CommandOf(f, i)] \in {"new", "queued", "waiting"} \/ result'[CommandOf(f, i)] = "ACCEPTED"
        OBVIOUS
      <4>1. CASE CommandOf(f, i) = c
        BY <1>t, <2>3, <2>4, <4>1
      <4>2. CASE CommandOf(f, i) # c
        BY <1>f, <2>1, <2>4, <2>8, <4>2 DEF PlanKeptOf
      <4>3. QED
        BY <4>1, <4>2
    <3>3. \A i, j \in Steps(f) : j < i /\ pc'[CommandOf(f, i)] # "new" => result'[CommandOf(f, j)] = "ACCEPTED"
      <4> SUFFICES ASSUME NEW i \in Steps(f), NEW j \in Steps(f), j < i, pc'[CommandOf(f, i)] # "new"
                   PROVE  result'[CommandOf(f, j)] = "ACCEPTED"
        OBVIOUS
      <4>1. CASE i = n
        BY <2>4, <3>1, <4>1
      <4>2. CASE i # n
        <5>1. CommandOf(f, i) # c
          BY <1>f, <2>3, <4>2, CommandsOfPlan
        <5>2. QED
          BY <1>f, <2>4, <2>8, <5>1 DEF PlanKeptOf
      <4>3. QED
        BY <4>1, <4>2
    <3>4. at'[f] = "submitted" /\ status'[f] # "SUCCEEDED"
      BY <1>t, <2>1, <2>7, BackendAssumption DEF FlightInv, RightPlaces, Statuses
    <3>5. QED
      BY <3>2, <3>3, <3>4 DEF PlanKeptOf, CommandOf, Steps
  <2>10. \A g \in Flights \ Offboard : \A i \in Steps(g) : g # f => CommandOf(g, i) # c
    BY <1>f, CommandsOfPlan
  <2>11. PlanKept'
    BY <1>o, <1>t, <2>4, <2>7, <2>8, <2>9, <2>10
  <2>12. QED
    BY <2>5, <2>6, <2>11
<1>3. CASE StepAnswered(f)
  <2>1. PICK m \in Steps(f) : Answered(CommandOf(f, m)) /\ at[f] = "submitted" /\
          IF PlanGoesOn(f, result'[CommandOf(f, m)])
            THEN Continue(f, "planning") /\ NotFinished /\ UNCHANGED stream
            ELSE /\ stream' = StreamAfterPlan(f, result'[CommandOf(f, m)])
                 /\ IF result'[CommandOf(f, m)] = "ACCEPTED"
                      THEN Continue(f, "polling") /\ NotFinished
                      ELSE Finish(f, StatusFor(result'[CommandOf(f, m)]))
    BY <1>3 DEF StepAnswered, PlanCalls, Steps, CommandOf
  <2> DEFINE c == CommandOf(f, m)
             v == result'[c]
  <2>u. UNCHANGED <<cancelAt, asked, px4Vars>>
    BY <1>3 DEF StepAnswered
  <2>2. c \in Calls
    BY <1>f, CommandsOfPlan
  <2>3. /\ pc[c] = "waiting" /\ pc' = [pc EXCEPT ![c] = "returned"]
        /\ result' = [result EXCEPT ![c] = v]
        /\ v # "ACCEPTED" => StatusFor(v) \in Statuses \ {"SUCCEEDED"}
    BY <1>t, <2>1, <2>2, AnswerIsVerdict
  <2>4. Next
    BY <2>1, <2>2 DEF Next, CallStep, Answered
  <2>5. stream' \in Flights \cup {None}
    BY <1>t, <2>1 DEF StreamAfterPlan
  <2>6. \A g \in Flights \ Offboard : \A i \in Steps(g) : CommandOf(g, i) # c =>
          /\ pc'[CommandOf(g, i)] = pc[CommandOf(g, i)]
          /\ result'[CommandOf(g, i)] = result[CommandOf(g, i)]
    BY <1>t, <2>3, CommandsOfPlan
  <2>7. \A i \in Steps(f) : i # m => CommandOf(f, i) # c
    BY <1>f, CommandsOfPlan
  (* the answered step is the only one in flight *)
  <2>8. \A i \in Steps(f) : i # m => pc[CommandOf(f, i)] = "new" \/ result[CommandOf(f, i)] = "ACCEPTED"
    <3> SUFFICES ASSUME NEW i \in Steps(f), i # m, pc[CommandOf(f, i)] # "new"
                 PROVE  result[CommandOf(f, i)] = "ACCEPTED"
      OBVIOUS
    <3>1. i < m \/ m < i
      BY <1>f, CommandsOfPlan
    <3>2. result[c] # "ACCEPTED"
      BY <1>t, <2>2, <2>3
    <3>3. QED
      BY <1>f, <2>3, <3>1, <3>2 DEF PlanKeptOf
  <2>9. v = "ACCEPTED" => \A i, j \in Steps(f) :
          j < i /\ pc'[CommandOf(f, i)] # "new" => result'[CommandOf(f, j)] = "ACCEPTED"
    <3> SUFFICES ASSUME v = "ACCEPTED", NEW i \in Steps(f), NEW j \in Steps(f), j < i,
                        pc'[CommandOf(f, i)] # "new"
                 PROVE  result'[CommandOf(f, j)] = "ACCEPTED"
      OBVIOUS
    <3>1. pc[CommandOf(f, i)] # "new"
      BY <1>f, <2>3, <2>6, <2>7
    <3>2. result[CommandOf(f, j)] = "ACCEPTED"
      BY <1>f, <3>1 DEF PlanKeptOf
    <3>3. QED
      BY <1>f, <2>6, <2>7, <3>2
  <2>10. CASE PlanGoesOn(f, v)
    <3>1. /\ at' = [at EXCEPT ![f] = "planning"] /\ status' = status /\ v = "ACCEPTED"
          /\ UnsentSteps(f) # {}
      BY <2>1, <2>10 DEF PlanGoesOn, Continue, NotFinished
    <3>2. UnsentSteps(f)' = UnsentSteps(f)
      BY <1>f, <1>t, <2>2, <2>3, <2>6, <2>7 DEF UnsentSteps, Steps, CommandOf
    <3>3. \A i \in Steps(f) : pc'[CommandOf(f, i)] = "new" \/ result'[CommandOf(f, i)] = "ACCEPTED"
      BY <1>f, <1>t, <2>2, <2>3, <2>6, <2>7, <2>8, <3>1
    <3>4. at'[f] = "planning" /\ status'[f] # "SUCCEEDED"
      BY <1>t, <2>1, <3>1, BackendAssumption DEF FlightInv, RightPlaces, Statuses
    <3>5. PlanKeptOf(f)'
      BY <2>9, <3>1, <3>2, <3>3, <3>4 DEF PlanKeptOf, CommandOf, Steps
    <3>6. FlightInv'
      BY <1>f, <2>1, <2>5, <2>10, <2>u, GoingOnKeeps DEF ByTargets, FlightPlaces
    <3>7. QED
      BY <1>o, <1>t, <2>4, <2>6, <3>1, <3>5, <3>6, <1>f, CommandsOfPlan
  <2>11. CASE ~PlanGoesOn(f, v) /\ v = "ACCEPTED"
    <3>1. /\ at' = [at EXCEPT ![f] = "polling"] /\ status' = status
          /\ UnsentSteps(f) = {}
      BY <2>1, <2>11 DEF PlanGoesOn, Continue, NotFinished
    <3>2. \A i \in Steps(f) : result'[CommandOf(f, i)] = "ACCEPTED"
      <4> SUFFICES ASSUME NEW i \in Steps(f) PROVE result'[CommandOf(f, i)] = "ACCEPTED"
        OBVIOUS
      <4>1. pc[CommandOf(f, i)] # "new"
        BY <3>1 DEF UnsentSteps, Steps, CommandOf
      <4>2. QED
        BY <1>f, <2>6, <2>7, <2>8, <2>11, <4>1
    <3>3. at'[f] = "polling"
      BY <1>t, <3>1
    <3>4. PlanKeptOf(f)'
      BY <3>2, <3>3 DEF PlanKeptOf, CommandOf, Steps
    <3>5. FlightInv'
      BY <1>f, <2>1, <2>5, <2>11, <2>u, GoingOnKeeps DEF ByTargets, ByMode, FlightPlaces
    <3>6. QED
      BY <1>o, <1>t, <2>4, <2>6, <3>1, <3>4, <3>5, <1>f, CommandsOfPlan
  <2>12. CASE ~PlanGoesOn(f, v) /\ v # "ACCEPTED"
    <3>1. PICK s \in Statuses \ {"SUCCEEDED"} : s = StatusFor(v)
      BY <2>3, <2>12
    <3>2. /\ Finish(f, s) /\ at' = [at EXCEPT ![f] = "done"] /\ status' = [status EXCEPT ![f] = s]
      BY <2>1, <2>12, <3>1 DEF Finish
    <3>3. at'[f] = "done" /\ status'[f] # "SUCCEEDED"
      BY <1>t, <3>1, <3>2
    <3>4. \A i, j \in Steps(f) :
            j < i /\ pc'[CommandOf(f, i)] # "new" => result'[CommandOf(f, j)] = "ACCEPTED"
      <4> SUFFICES ASSUME NEW i \in Steps(f), NEW j \in Steps(f), j < i, pc'[CommandOf(f, i)] # "new"
                   PROVE  result'[CommandOf(f, j)] = "ACCEPTED"
        OBVIOUS
      <4>1. pc[CommandOf(f, i)] # "new"
        BY <1>f, <2>3, <2>6, <2>7
      <4>2. result[CommandOf(f, j)] = "ACCEPTED"
        BY <1>f, <4>1 DEF PlanKeptOf
      <4>3. j # m
        BY <1>t, <2>2, <2>3, <4>2
      <4>4. QED
        BY <1>f, <2>6, <2>7, <4>2, <4>3
    <3>5. PlanKeptOf(f)'
      BY <3>3, <3>4 DEF PlanKeptOf, CommandOf, Steps
    <3>6. FlightInv'
      BY <2>1, <2>5, <2>u, <3>1, <3>2, EndingKeeps
    <3>7. QED
      BY <1>o, <1>t, <2>4, <2>6, <3>2, <3>5, <3>6, <1>f, CommandsOfPlan
  <2>13. QED
    BY <2>10, <2>11, <2>12
<1>4. QED
  BY <1>1, <1>2, <1>3

(* Every other step leaves the plans alone: its command, if it has one, is *)
(* no step of a plan.                                                       *)
ModeRequest(c) == c[2] \in {"offboard", "timeout", "cancel"}

LEMMA OtherCallKeeps ==
  ASSUME AdapterInv, PlanKept, NEW c \in Calls, ModeRequest(c),
         Submit(c) \/ Answered(c),
         \A f \in Flights \ Offboard : at'[f] = at[f] /\ status'[f] = status[f]
  PROVE  PlanKept'
<1> SUFFICES ASSUME NEW f \in Flights \ Offboard PROVE PlanKeptOf(f)'
  BY DEF PlanKept
<1>1. \A i \in Steps(f) : CommandOf(f, i) # c /\ CommandOf(f, i) \in Calls
  <2>1. \A i \in Steps(f) : CommandOf(f, i)[2] \in {"takeoff", "arm", "rtl", "land"}
    BY BackendConstants DEF CommandOf, Steps
  <2>2. QED
    BY <2>1, CommandsOfPlan DEF ModeRequest
<1>2. /\ pc \in [Calls -> {"new", "queued", "waiting", "returned"}]
      /\ result \in [Calls -> Results \cup {"none"}]
      /\ TypeOK
  BY DEF AdapterInv, TypeOK
<1>3. /\ \E s : pc' = [pc EXCEPT ![c] = s]
      /\ \E s : result' = [result EXCEPT ![c] = s]
  <2>1. CASE Submit(c)
    <3>1. result' = [result EXCEPT ![c] = result[c]] /\ \E s : pc' = [pc EXCEPT ![c] = s]
      BY <1>2, <2>1, NeverRefused
    <3>2. QED
      BY <3>1
  <2>2. CASE Answered(c)
    BY <1>2, <2>2, AnswerIsVerdict
  <2>3. QED
    BY <2>1, <2>2
<1>4. \A i \in Steps(f) : /\ pc'[CommandOf(f, i)] = pc[CommandOf(f, i)]
                          /\ result'[CommandOf(f, i)] = result[CommandOf(f, i)]
  BY <1>1, <1>2, <1>3
<1>5. PlanKeptOf(f)
  BY DEF PlanKept
<1>6. QED
  BY <1>4, <1>5, PlanFrame

LEMMA NoCallKeeps ==
  ASSUME PlanKept, UNCHANGED result,
         UNCHANGED pc \/ \E c \in Calls : TypeOK /\ pc[c] = "queued" /\ pc' = [pc EXCEPT ![c] = "waiting"],
         \A f \in Flights \ Offboard :
           /\ at'[f] \in {at[f], "done"}
           /\ status'[f] = "SUCCEEDED" => status[f] = "SUCCEEDED" \/ at[f] = "polling"
  PROVE  PlanKept'
<1> SUFFICES ASSUME NEW f \in Flights \ Offboard PROVE PlanKeptOf(f)'
  BY DEF PlanKept
<1>1. \A i \in Steps(f) :
        \/ pc'[CommandOf(f, i)] = pc[CommandOf(f, i)]
        \/ pc[CommandOf(f, i)] = "queued" /\ pc'[CommandOf(f, i)] = "waiting"
  BY CommandsOfPlan DEF TypeOK
<1>2. PlanKeptOf(f)
  BY DEF PlanKept
<1>3. QED
  BY <1>1, <1>2, PlanFrame

LEMMA RestKeepsPlans ==
  ASSUME FlightInv, AdapterInv, AckInv, PlanKept, BackendNext,
         ~ \E f \in Flights : SubmitStep(f) \/ StepAnswered(f)
  PROVE  PlanKept'
<1>t. /\ at \in [Flights -> FlightPlaces] /\ status \in [Flights -> Statuses \cup {None}]
      /\ Offboard \subseteq Flights /\ TypeOK
      /\ \A f \in Offboard : ModeRequest(OffboardCall(f)) /\ ModeRequest(TimeoutCall(f))
      /\ \A f, k : ModeRequest(CancelCall(f, k))
  BY DEF FlightInv, FlightTypes, Offboard, AdapterInv, ModeRequest, OffboardCall, TimeoutCall, CancelCall
<1>v. UNCHANGED vars => UNCHANGED <<pc, result>>
  BY DEF vars, adapterVars
<1>1. ASSUME NEW f \in Flights, Start(f) PROVE PlanKept'
  <2>1. CASE f \in Offboard
    <3>1. UNCHANGED <<pc, result, status>> /\ \A g \in Flights \ {f} : at'[g] = at[g]
      BY <1>1, <1>t, <1>v DEF Start, Continue, Suspend
    <3>2. QED
      BY <2>1, <3>1, NoCallKeeps
  <2>2. CASE f \notin Offboard
    <3>1. /\ at[f] = "new" /\ at' = [at EXCEPT ![f] = "planning"] /\ UNCHANGED <<pc, result, status>>
      BY <1>1, <2>2, <1>v DEF Start, MayStart, Continue
    <3>2. status'[f] # "SUCCEEDED"
      BY <1>t, <3>1, BackendAssumption DEF FlightInv, RightPlaces, Statuses
    <3>3. PlanKeptOf(f) /\ \A i \in Steps(f) : pc'[CommandOf(f, i)] = "new"
      BY <2>2, <3>1 DEF PlanKept, PlanKeptOf
    <3>4. UnsentSteps(f)' # {}
      <4>1. 1 \in Steps(f)
        BY <2>2, BackendConstants DEF Steps
      <4>2. QED
        BY <3>3, <4>1 DEF UnsentSteps, Steps, CommandOf
    <3>5. PlanKeptOf(f)'
      BY <1>t, <3>1, <3>2, <3>3, <3>4 DEF PlanKeptOf, CommandOf, Steps
    <3>6. ASSUME NEW g \in Flights \ Offboard, g # f PROVE PlanKeptOf(g)'
      BY <1>t, <3>1, <3>6, PlanFrame DEF PlanKept
    <3>7. QED
      BY <3>5, <3>6 DEF PlanKept
  <2>3. QED
    BY <2>1, <2>2
<1>2. ASSUME NEW f \in Flights,
             \/ StartFails(f) \/ WarmedUp(f) \/ PollCancelled(f) \/ PollCompleted(f) \/ PollSleeps(f)
      PROVE PlanKept'
  <2>1. UNCHANGED <<pc, result>>
    BY <1>2, <1>v DEF StartFails, WarmedUp, PollCancelled, PollCompleted, PollSleeps
  <2>2. CASE StartFails(f) \/ PollCancelled(f) \/ PollCompleted(f)
    <3>1. \A g \in Flights : at'[g] \in {at[g], "done"}
      BY <1>t, <2>2 DEF StartFails, PollCancelled, PollCompleted, Finish
    <3>2. \A g \in Flights : status'[g] = "SUCCEEDED" => status[g] = "SUCCEEDED" \/ at[g] = "polling"
      BY <1>t, <2>2 DEF StartFails, PollCancelled, PollCompleted, Polls, Finish
    <3>3. QED
      BY <2>1, <3>1, <3>2, NoCallKeeps
  <2>3. CASE PollSleeps(f)
    <3>1. at' = [at EXCEPT ![f] = "polling"] /\ at[f] = "polling" /\ status' = status
      BY <2>3 DEF PollSleeps, Polls, Suspend, NotFinished
    <3>2. QED
      BY <1>t, <2>1, <3>1, NoCallKeeps
  <2>4. CASE WarmedUp(f)
    <3>1. f \in Offboard
      BY <2>4 DEF WarmedUp, FlightInv, RightPlaces, ByTargets
    <3>2. status' = status /\ \A g \in Flights \ {f} : at'[g] = at[g]
      BY <1>t, <2>4 DEF WarmedUp, Continue, NotFinished
    <3>3. QED
      BY <2>1, <3>1, <3>2, NoCallKeeps
  <2>5. QED
    BY <1>2, <2>2, <2>3, <2>4
<1>3. ASSUME NEW f \in Flights, EnterOffboard(f) \/ OffboardAnswered(f) \/ PollTimedOut(f) \/ TimeoutHandedOver(f)
      PROVE  PlanKept'
  <2>1. CASE f \notin Offboard
    <3>1. PollTimedOut(f) /\ at[f] = "polling" /\ Finish(f, "TIMED_OUT") /\ UNCHANGED vars
      BY <1>3, <2>1 DEF EnterOffboard, OffboardAnswered, PollTimedOut, Polls, TimeoutHandedOver,
                        FlightInv, RightPlaces, ByTargets
    <3>2. QED
      BY <1>t, <1>v, <3>1, NoCallKeeps DEF Finish
  <2>2. CASE f \in Offboard
    <3>1. \A g \in Flights \ Offboard : at'[g] = at[g] /\ status'[g] = status[g]
      BY <1>3, <1>t, <2>2 DEF EnterOffboard, OffboardAnswered, PollTimedOut, TimeoutHandedOver,
                              Finish, Continue, Suspend, NotFinished
    <3>2. \/ UNCHANGED vars
          \/ \E c \in Calls : ModeRequest(c) /\ (Submit(c) \/ Answered(c))
      BY <1>3, <1>t, <2>2, BackendConstants
         DEF EnterOffboard, OffboardAnswered, PollTimedOut, TimeoutHandedOver
    <3>3. QED
      BY <1>v, <3>1, <3>2, NoCallKeeps, OtherCallKeeps
  <2>3. QED
    BY <2>1, <2>2
<1>4. ASSUME NEW f \in Flights, NEW k \in 1..CancelsOf[f],
             CancelFlight(f, k) \/ CancelHandover(f, k) \/ CancelHandedOver(f, k)
      PROVE  PlanKept'
  <2>1. at' = at /\ status' = status
    BY <1>4 DEF CancelFlight, CancelHandover, CancelHandedOver
  <2>2. CASE CancelFlight(f, k)
    BY <2>1, <2>2, NoCallKeeps DEF CancelFlight, Cancel
  <2>3. CASE CancelHandover(f, k) \/ CancelHandedOver(f, k)
    <3>1. f \in Offboard
      <4>1. cancelAt[<<f, k>>] \in {"begun", "handover"}
        <5>1. <<f, k>> \in Cancels
          BY BackendAssumption DEF Cancels
        <5>2. QED
          BY <2>3, <5>1 DEF CancelHandover, CancelHandedOver, FlightInv, RightPlaces
      <4>2. QED
        BY <4>1 DEF FlightInv, RightPlaces
    <3>2. CancelCall(f, k) \in Calls
      BY <3>1, BackendConstants
    <3>3. QED
      BY <1>t, <2>1, <2>3, <3>2, OtherCallKeeps DEF CancelHandover, CancelHandedOver
  <2>4. QED
    BY <1>4, <2>2, <2>3
<1>5. CASE TransportStep \/ Px4LeavesOffboard \/ TargetsLapse \/ SeeMode \/ \E c \in Commands : Px4Decides(c)
  <2>1. at' = at /\ status' = status
    BY <1>5 DEF TransportStep, Px4LeavesOffboard, TargetsLapse, SeeMode, Px4Decides, backendVars
  <2>2. /\ result' = result
        /\ \/ pc' = pc
           \/ \E c \in Calls : pc[c] = "queued" /\ pc' = [pc EXCEPT ![c] = "waiting"]
    BY <1>5 DEF TransportStep, Px4LeavesOffboard, TargetsLapse, SeeMode, Px4Decides, Acquire, Publish, ResolveAck,
                HandleAck, Px4Answer, vars, adapterVars
  <2>3. QED
    BY <1>t, <2>1, <2>2, NoCallKeeps
<1>6. QED
  BY <1>1, <1>2, <1>3, <1>4, <1>5 DEF BackendNext, ExecuteStep, ProgressStep

-----------------------------------------------------------------------------
LEMMA BackendStep ==
  FlightInv /\ TypeOK /\ AdapterInv /\ AckInv /\ PlanKept /\ [BackendNext]_allVars => FlightInv' /\ [Next]_vars
<1> SUFFICES ASSUME FlightInv, TypeOK, AdapterInv, AckInv, PlanKept, [BackendNext]_allVars
             PROVE  FlightInv' /\ [Next]_vars
  OBVIOUS
<1>1. CASE UNCHANGED allVars
  <2>1. UNCHANGED <<vars, backendVars, px4Vars>>
    BY <1>1 DEF allVars
  <2>2. mode' \in Modes /\ seen' \in Modes
    BY <2>1 DEF px4Vars, FlightInv, FlightTypes
  <2>3. QED
    BY <2>1, <2>2, SameFlightsKeep
<1>2. ASSUME NEW f \in Flights, Start(f) \/ StartFails(f) \/ ExecuteStep(f)
      PROVE  FlightInv' /\ [Next]_vars
  <2>1. CASE SubmitStep(f) \/ StepAnswered(f)
    BY <2>1, PlanSteps
  <2>2. QED
    BY <1>2, <2>1, StartSteps, OffboardSteps, PollSteps DEF ExecuteStep, ProgressStep
<1>3. ASSUME NEW f \in Flights, NEW k \in 1..CancelsOf[f],
             CancelFlight(f, k) \/ CancelHandover(f, k) \/ CancelHandedOver(f, k)
      PROVE  FlightInv' /\ [Next]_vars
  BY <1>3, CancelSteps
<1>4. CASE TransportStep \/ Px4LeavesOffboard \/ TargetsLapse \/ SeeMode \/ \E c \in Commands : Px4Decides(c)
  BY <1>4, OtherSteps
<1>5. QED
  BY <1>1, <1>2, <1>3, <1>4 DEF BackendNext

-----------------------------------------------------------------------------
(* The target stream of an earlier flight. *)
Descending(f) == SkillOf[f] \in {"rtl", "land"}

LEMMA LandingKeeps ==
  ASSUME FlightInv, NoTargetsWhileLanding, [BackendNext]_allVars
  PROVE  NoTargetsWhileLanding'
<1> SUFFICES ASSUME NEW g \in Flights, Descending(g), at'[g] = "polling" PROVE stream' = None
  BY DEF NoTargetsWhileLanding, Descending
<1>t. /\ at \in [Flights -> FlightPlaces]
      /\ g \notin Offboard
      /\ at[g] = "polling" => stream = None
  BY DEF FlightInv, FlightTypes, Offboard, Descending, NoTargetsWhileLanding
<1>k. ASSUME at'[g] = at[g], stream' \in {stream, None} PROVE stream' = None
  BY <1>t, <1>k
<1>1. CASE UNCHANGED allVars
  BY <1>1, <1>k DEF allVars, backendVars
<1>2. ASSUME NEW f \in Flights, Start(f) \/ StartFails(f) PROVE stream' = None
  <2>1. \A h \in Flights : at[h] \in {"new", "done"}
    BY <1>2 DEF Start, StartFails, MayStart
  <2>2. at'[g] # "polling"
    BY <1>2, <1>t, <2>1 DEF Start, StartFails, Finish, Continue, Suspend
  <2>3. QED
    BY <2>2
<1>3. ASSUME NEW f \in Flights, ExecuteStep(f) PROVE stream' = None
  <2>1. CASE StepAnswered(f) /\ f = g
    <3>1. PICK c \in PlanCalls(f) :
            /\ stream' = StreamAfterPlan(f, result'[c])
            /\ result'[c] = "ACCEPTED"
      BY <1>t, <2>1 DEF StepAnswered, Continue, Finish
    <3>2. QED
      BY <2>1, <3>1 DEF StreamAfterPlan, Descending
  <2>2. CASE StepAnswered(f) /\ f # g
    <3>1. at'[g] = at[g]
      BY <1>t, <2>2 DEF StepAnswered, Continue, Finish
    <3>2. stream' \in {stream, None}
      BY <2>2 DEF StepAnswered, StreamAfterPlan
    <3>3. QED
      BY <1>k, <3>1, <3>2
  <2>3. CASE WarmedUp(f) \/ EnterOffboard(f) \/ OffboardAnswered(f)
    <3>1. f # g
      BY <1>t, <2>3 DEF WarmedUp, EnterOffboard, OffboardAnswered, FlightInv, RightPlaces, ByTargets
    <3>2. at'[g] = at[g] /\ stream' \in {stream, None}
      BY <1>t, <2>3, <3>1 DEF WarmedUp, EnterOffboard, OffboardAnswered, Continue, Suspend, Finish
    <3>3. QED
      BY <1>k, <3>2
  <2>4. CASE SubmitStep(f)
    <3>1. f # g
      BY <1>t, <2>4 DEF SubmitStep, Suspend, Finish
    <3>2. at'[g] = at[g] /\ stream' \in {stream, None}
      BY <1>t, <2>4, <3>1 DEF SubmitStep, Suspend, Finish
    <3>3. QED
      BY <1>k, <3>2
  <2>5. CASE PollCancelled(f) \/ PollCompleted(f) \/ PollTimedOut(f) \/ PollSleeps(f) \/ TimeoutHandedOver(f)
    <3>1. at'[g] = at[g]
      BY <1>t, <2>5 DEF PollCancelled, PollCompleted, PollTimedOut, PollSleeps, TimeoutHandedOver,
                        Polls, Suspend, Finish
    <3>2. stream' \in {stream, None}
      BY <2>5 DEF PollCancelled, PollCompleted, PollTimedOut, PollSleeps, TimeoutHandedOver, HandedOver, StreamAfter
    <3>3. QED
      BY <1>k, <3>1, <3>2
  <2>6. QED
    BY <1>3, <2>1, <2>2, <2>3, <2>4, <2>5 DEF ExecuteStep, ProgressStep
<1>4. ASSUME NEW f \in Flights, NEW k \in 1..CancelsOf[f],
             CancelFlight(f, k) \/ CancelHandover(f, k) \/ CancelHandedOver(f, k)
      PROVE  stream' = None
  <2>1. at' = at /\ stream' \in {stream, None}
    BY <1>4 DEF CancelFlight, CancelHandover, CancelHandedOver, HandedOver, StreamAfter
  <2>2. QED
    BY <1>k, <2>1
<1>5. CASE TransportStep \/ Px4LeavesOffboard \/ TargetsLapse \/ SeeMode \/ \E c \in Commands : Px4Decides(c)
  BY <1>5, <1>k DEF TransportStep, Px4LeavesOffboard, TargetsLapse, SeeMode, Px4Decides, backendVars
<1>6. QED
  BY <1>1, <1>2, <1>3, <1>4, <1>5 DEF BackendNext

-----------------------------------------------------------------------------
BackendInv == AdapterInv /\ AckInv /\ FlightInv /\ PlanKept /\ NoTargetsWhileLanding

LEMMA InitBackend == BackendInit => BackendInv /\ Init
<1> SUFFICES ASSUME BackendInit PROVE BackendInv /\ Init
  OBVIOUS
<1>1. Init /\ AdapterInv /\ AckInv
  BY InitAdapter, InitAcks DEF BackendInit
<1>2. FlightTypes
  BY DEF BackendInit, FlightTypes, FlightPlaces, Modes
<1>3. RegistersMatchFlights
  BY DEF BackendInit, RegistersMatchFlights
<1>4. RightPlaces
  <2>1. \A f \in Flights : \A k \in 1..CancelsOf[f] : <<f, k>> \in Cancels
    BY DEF Cancels
  <2>2. QED
    BY <2>1, BackendAssumption DEF BackendInit, RightPlaces, ByTargets, ByMode
<1>5. CancelledNeverSucceeds /\ NoTargetsWhileLanding
  BY DEF BackendInit, CancelledNeverSucceeds, NoTargetsWhileLanding
<1>6. PlanKept
  <2> SUFFICES ASSUME NEW f \in Flights \ Offboard PROVE PlanKeptOf(f)
    BY DEF PlanKept
  <2>1. at[f] = "new" /\ status[f] = None /\ None # "SUCCEEDED"
    BY BackendAssumption DEF BackendInit, Statuses
  <2>2. \A i \in Steps(f) : pc[CommandOf(f, i)] = "new"
    BY CommandsOfPlan DEF BackendInit, Init
  <2>3. QED
    BY <2>1, <2>2 DEF PlanKeptOf
<1>7. QED
  BY <1>1, <1>2, <1>3, <1>4, <1>5, <1>6 DEF BackendInv, FlightInv

LEMMA NextBackend == BackendInv /\ [BackendNext]_allVars => BackendInv' /\ [Next]_vars
<1> SUFFICES ASSUME BackendInv, [BackendNext]_allVars PROVE BackendInv' /\ [Next]_vars
  OBVIOUS
<1>0. AdapterInv /\ AckInv /\ FlightInv /\ PlanKept /\ NoTargetsWhileLanding /\ TypeOK
  BY DEF BackendInv, AdapterInv
<1>1. FlightInv' /\ [Next]_vars
  BY <1>0, BackendStep
<1>2. AdapterInv' /\ AckInv'
  BY <1>0, <1>1, NextAdapter, NextAcks
<1>3. PlanKept'
  <2>1. CASE UNCHANGED allVars
    BY <1>0, <2>1, NoCallKeeps DEF allVars, vars, adapterVars, backendVars
  <2>2. CASE \E f \in Flights : SubmitStep(f) \/ StepAnswered(f)
    BY <1>0, <2>2, PlanSteps
  <2>3. QED
    BY <1>0, <2>1, <2>2, RestKeepsPlans
<1>4. NoTargetsWhileLanding'
  BY <1>0, LandingKeeps
<1>5. QED
  BY <1>1, <1>2, <1>3, <1>4 DEF BackendInv

LEMMA BackendInvariant == BackendSpec => []BackendInv
  BY InitBackend, NextBackend, PTL DEF BackendSpec

-----------------------------------------------------------------------------
(* The backend, its plan executor and its handovers drive the command      *)
(* adapter as its own specification says: everything proved of the adapter *)
(* holds when Px4Ros2FlightExecutionBackend is what uses it.               *)
THEOREM BackendUsesAdapter == BackendSpec => Spec
<1>1. BackendSpec => Init
  BY InitBackend DEF BackendSpec
<1>2. BackendSpec => [][Next]_vars
  BY BackendInvariant, NextBackend, PTL DEF BackendSpec
<1>3. QED
  BY <1>1, <1>2 DEF Spec

(* What becomes of the targets, and of the flights that lose them. *)
TargetTypes == recent \in BOOLEAN /\ cut \subseteq Flights

LEMMA TargetTypesKept == TargetTypes /\ [BackendNext]_allVars => TargetTypes'
<1> SUFFICES ASSUME TargetTypes, [BackendNext]_allVars PROVE TargetTypes'
  OBVIOUS
<1>k. ASSUME recent' = recent, cut' = cut PROVE TargetTypes'
  BY <1>k DEF TargetTypes
<1>c. ASSUME NEW c, HandedOver(c) \/ cut' = cut PROVE cut' \subseteq Flights
  BY <1>c DEF HandedOver, TargetTypes, ToEnter, Offboard
<1>1. ASSUME NEW f \in Flights, Start(f) PROVE TargetTypes'
  <2>1. recent' = (recent \/ f \in Offboard) /\ cut' = cut
    BY <1>1 DEF Start
  <2>2. recent' \in BOOLEAN
    BY <2>1, Zenon
  <2>3. QED
    BY <2>1, <2>2 DEF TargetTypes
<1>2. ASSUME NEW f \in Flights, EnterOffboard(f) PROVE TargetTypes'
  <2>1. recent' = recent /\ cut' \in {cut, cut \cup {f}}
    BY <1>2 DEF EnterOffboard, px4Vars
  <2>2. QED
    BY <2>1 DEF TargetTypes
<1>3. ASSUME NEW f \in Flights,
             \/ StartFails(f) \/ WarmedUp(f) \/ OffboardAnswered(f) \/ SubmitStep(f) \/ StepAnswered(f)
             \/ PollCancelled(f) \/ PollCompleted(f) \/ PollTimedOut(f) \/ PollSleeps(f)
      PROVE  TargetTypes'
  BY <1>3, <1>k DEF StartFails, WarmedUp, OffboardAnswered, SubmitStep, StepAnswered, PollCancelled,
                    PollCompleted, PollTimedOut, PollSleeps, px4Vars
<1>4. ASSUME NEW f \in Flights, TimeoutHandedOver(f) PROVE TargetTypes'
  <2>1. recent' = recent /\ HandedOver(TimeoutCall(f))
    BY <1>4 DEF TimeoutHandedOver, px4Vars
  <2>2. QED
    BY <1>c, <2>1 DEF TargetTypes
<1>5. ASSUME NEW f \in Flights, NEW k \in 1..CancelsOf[f],
             CancelFlight(f, k) \/ CancelHandover(f, k) \/ CancelHandedOver(f, k)
      PROVE  TargetTypes'
  <2>1. recent' = recent /\ (cut' = cut \/ HandedOver(CancelCall(f, k)))
    BY <1>5 DEF CancelFlight, CancelHandover, CancelHandedOver, px4Vars
  <2>2. QED
    BY <1>c, <2>1 DEF TargetTypes
<1>6. CASE TargetsLapse
  BY <1>6 DEF TargetsLapse, TargetTypes, backendVars
<1>7. CASE TransportStep \/ Px4LeavesOffboard \/ SeeMode \/ (\E c \in Commands : Px4Decides(c)) \/ UNCHANGED allVars
  BY <1>7, <1>k DEF TransportStep, Px4LeavesOffboard, SeeMode, Px4Decides, allVars, backendVars, px4Vars
<1>8. QED
  BY <1>1, <1>2, <1>3, <1>4, <1>5, <1>6, <1>7 DEF BackendNext, ExecuteStep, ProgressStep

(* The state of the backend is well formed. *)
THEOREM BackendTypes == BackendSpec => []BackendTypeOK
<1>1. BackendInit => TargetTypes
  BY DEF BackendInit, TargetTypes
<1>2. BackendInv /\ TargetTypes => BackendTypeOK
  BY DEF BackendInv, AdapterInv, FlightInv, FlightTypes, BackendTypeOK, FlightPlaces, TargetTypes
<1>3. QED
  BY <1>1, <1>2, TargetTypesKept, BackendInvariant, PTL DEF BackendSpec

(* The three registers of execution ids hold exactly what the flights in   *)
(* flight account for, whenever cancel() comes and however execute() ends. *)
THEOREM RegistersFollowFlights == BackendSpec => []RegistersMatchFlights
<1>1. BackendInv => RegistersMatchFlights
  BY DEF BackendInv, FlightInv
<1>2. QED
  BY <1>1, BackendInvariant, PTL

(* execute() never reports SUCCEEDED for a flight cancelled in flight.     *)
THEOREM CancelledFlightsFail == BackendSpec => []CancelledNeverSucceeds
<1>1. BackendInv => CancelledNeverSucceeds
  BY DEF BackendInv, FlightInv
<1>2. QED
  BY <1>1, BackendInvariant, PTL

(* The stream is stopped before execute() waits for an RTL or a landing.   *)
THEOREM LandingStopsTargets == BackendSpec => []NoTargetsWhileLanding
<1>1. BackendInv => NoTargetsWhileLanding
  BY DEF BackendInv
<1>2. QED
  BY <1>1, BackendInvariant, PTL

(* Px4CommandPlanExecutor sends a command only after PX4 accepted those    *)
(* before it, and a flight succeeds only when all of them were.            *)
THEOREM PlansInOrder == BackendSpec => []PlanInOrder
<1>1. ASSUME BackendInv PROVE PlanInOrder
  <2> SUFFICES ASSUME NEW f \in Flights, NEW i \in Steps(f), NEW j \in Steps(f),
                      \/ j < i /\ px4[CommandOf(f, i)] # "unpublished"
                      \/ status[f] = "SUCCEEDED"
               PROVE  result[CommandOf(f, j)] = "ACCEPTED"
    BY DEF PlanInOrder, Steps, CommandOf
  <2>1. f \in Flights \ Offboard
    BY BackendAssumption DEF Offboard, Steps, PlanOf
  <2>2. PlanKeptOf(f) /\ CommandOf(f, i) \in Calls
    BY <1>1, <2>1, CommandsOfPlan DEF BackendInv, PlanKept
  <2>3. px4[CommandOf(f, i)] # "unpublished" => pc[CommandOf(f, i)] # "new"
    BY <1>1, <2>2 DEF BackendInv, AckInv, CallsSettled
  <2>4. QED
    BY <2>2, <2>3 DEF PlanKeptOf
<1>2. QED
  BY <1>1, BackendInvariant, PTL
=============================================================================
