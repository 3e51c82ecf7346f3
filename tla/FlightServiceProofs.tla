------------------------- MODULE FlightServiceProofs --------------------------
(***************************************************************************)
(* What the flight execution backend is to its clients and to PX4, for any *)
(* number of flights and cancellations, however the ACKs are delayed and   *)
(* wherever the pilot takes over: it implements FlightService; and while   *)
(* no command is abandoned, PX4 is never in Offboard mode without targets, *)
(* and has left Offboard when a handover stops them.                       *)
(***************************************************************************)
EXTENDS FlightBackendProofs

(* The local wait of a call is ended only by a cancellation of its flight. *)
CancelsAsked == \A c \in Calls : outcome[c] = "CANCELLED" => c[1] \in asked

LEMMA RunCalls == \A c \in Calls, f \in Flights : ExecOf[c] = RunId(f) => c[1] = f
<1> SUFFICES ASSUME NEW c \in Calls, NEW f \in Flights, ExecId(c) = RunId(f) PROVE c[1] = f
  BY BackendAssumption
<1>1. CASE c[2] \in {"cancel", "timeout"}
  BY <1>1 DEF ExecId, RunId
<1>2. CASE c[2] \notin {"cancel", "timeout"}
  BY <1>2 DEF ExecId, RunId
<1>3. QED
  BY <1>1, <1>2

LEMMA AskedKept ==
  ASSUME BackendInv, CancelsAsked, [BackendNext]_allVars
  PROVE  CancelsAsked'
<1>t. /\ TypeOK /\ outcome \in [Calls -> Outcomes \cup {"none"}]
      /\ pending \in Calls \cup {NoCall}
  BY DEF BackendInv, AdapterInv, TypeOK
<1>k. ASSUME outcome' = outcome, asked' = asked PROVE CancelsAsked'
  BY <1>k DEF CancelsAsked
<1>c. ASSUME NEW c, Submit(c) \/ Answered(c) \/ Acquire(c) PROVE outcome' = outcome
  BY <1>c DEF Submit, SubmitRefused, SubmitAtOnce, SubmitQueued, Answered, Wake, TimeOut, Acquire
<1>1. ASSUME NEW f \in Flights, Start(f) \/ StartFails(f) PROVE CancelsAsked'
  BY <1>1, <1>k DEF Start, StartFails, vars, adapterVars
<1>2. ASSUME NEW f \in Flights, ExecuteStep(f) PROVE CancelsAsked'
  <2>1. CASE WarmedUp(f) \/ EnterOffboard(f) \/ OffboardAnswered(f) \/ SubmitStep(f)
    BY <2>1, <1>c, <1>k DEF WarmedUp, EnterOffboard, OffboardAnswered, SubmitStep, vars, adapterVars
  <2>2. CASE StepAnswered(f) \/ PollTimedOut(f) \/ TimeoutHandedOver(f)
    BY <2>2, <1>c, <1>k DEF StepAnswered, PollTimedOut, TimeoutHandedOver, vars, adapterVars
  <2>3. CASE PollCancelled(f) \/ PollCompleted(f) \/ PollSleeps(f)
    BY <2>3, <1>k DEF PollCancelled, PollCompleted, PollSleeps, vars, adapterVars
  <2>4. QED
    BY <1>2, <2>1, <2>2, <2>3 DEF ExecuteStep, ProgressStep
<1>3. ASSUME NEW f \in Flights, NEW k \in 1..CancelsOf[f], CancelFlight(f, k) PROVE CancelsAsked'
  <2>1. asked' = asked \cup {f}
    BY <1>3 DEF CancelFlight
  <2>2. \A c \in Calls : outcome'[c] = "CANCELLED" => outcome[c] = "CANCELLED" \/ ExecOf[c] = RunId(f)
    BY <1>3, <1>t DEF CancelFlight, Cancel, Cancellable
  <2>3. QED
    BY <2>1, <2>2, RunCalls DEF CancelsAsked
<1>4. ASSUME NEW f \in Flights, NEW k \in 1..CancelsOf[f], CancelHandover(f, k) \/ CancelHandedOver(f, k)
      PROVE  CancelsAsked'
  BY <1>4, <1>c, <1>k DEF CancelHandover, CancelHandedOver
<1>5. CASE TransportStep
  <2>1. asked' = asked
    BY <1>5 DEF TransportStep, backendVars
  <2>2. \A c \in Calls : outcome'[c] = "CANCELLED" => outcome[c] = "CANCELLED"
    <3>1. CASE ResolveAck(TheLoop)
      <4> DEFINE a == Head(loopAcks[TheLoop])
      <4>1. loopAcks[TheLoop] \in Seq(Acks) /\ loopAcks[TheLoop] # <<>>
        BY <3>1, <1>t, BackendConstants DEF ResolveAck, TypeOK
      <4>2. a.verdict \in FinalVerdicts \cup {"IN_PROGRESS"}
        <5>1. a \in Acks
          BY <4>1
        <5>2. QED
          BY <5>1 DEF Acks
      <4>3. \A c \in Calls : outcome'[c] \in {outcome[c], a.verdict}
        BY <3>1, <1>t DEF ResolveAck
      <4>4. QED
        BY <4>2, <4>3 DEF FinalVerdicts
    <3>2. CASE (\E c \in Calls : Acquire(c)) \/ \E a \in wire : HandleAck(a)
      BY <3>2, <1>c DEF HandleAck, adapterVars
    <3>3. QED
      BY <1>5, <3>1, <3>2 DEF TransportStep
  <2>3. QED
    BY <2>1, <2>2 DEF CancelsAsked
<1>6. CASE Px4LeavesOffboard \/ TargetsLapse \/ SeeMode \/ (\E c \in Commands : Px4Decides(c)) \/ UNCHANGED allVars
  BY <1>6, <1>k DEF Px4LeavesOffboard, TargetsLapse, SeeMode, Px4Decides, Px4Answer, allVars, vars, adapterVars, backendVars
<1>7. QED
  BY <1>1, <1>2, <1>3, <1>4, <1>5, <1>6 DEF BackendNext

(* What execute() may report when a command was not accepted. *)
LEMMA AnswerServes ==
  ASSUME BackendInv, CancelsAsked, NEW f \in Flights, at[f] \notin {"new", "done"},
         NEW c \in Calls, c[1] = f, Answered(c), result'[c] # "ACCEPTED"
  PROVE  \/ StatusFor(result'[c]) \in {"TIMED_OUT", "REJECTED_BY_PX4"}
         \/ StatusFor(result'[c]) = "CANCELLED" /\ f \in cancelled
<1>1. result'[c] \in Outcomes \cup {"TIMED_OUT"} /\ TypeOK
  BY AnswerIsVerdict DEF BackendInv, AdapterInv
<1>2. CASE result'[c] = "CANCELLED"
  <2>1. outcome[c] = "CANCELLED"
    BY <1>1, <1>2 DEF Answered, Wake, TimeOut, ReturnWith, TypeOK
  <2>2. f \in active \cap asked
    BY <2>1 DEF CancelsAsked, BackendInv, FlightInv, RegistersMatchFlights
  <2>3. QED
    BY <1>2, <2>2 DEF StatusFor, BackendInv, FlightInv, RegistersMatchFlights
<1>3. CASE result'[c] # "CANCELLED"
  BY <1>1, <1>3 DEF Outcomes, FinalVerdicts, StatusFor
<1>4. QED
  BY <1>2, <1>3

-----------------------------------------------------------------------------
(* The stages of all flights, as the service sees them. *)
stages == [f \in Flights |-> StageOf(f)]

LEMMA StageMoves ==
  ASSUME NEW f \in Flights, NEW s, StageOf(f)' = s,
         \A g \in Flights \ {f} : StageOf(g)' = StageOf(g)
  PROVE  stages' = [stages EXCEPT ![f] = s]
  BY DEF stages

LEMMA StagesStay ==
  ASSUME \A g \in Flights : StageOf(g)' = StageOf(g), status' = status
  PROVE  UNCHANGED <<stages, status>>
  BY DEF stages

(* A flight under way that goes on does not change for its clients. *)
LEMMA GoingOnServes ==
  ASSUME FlightInv, NEW f \in Flights, NEW p, p \notin {"new", "done"}, at[f] \notin {"new", "done"},
         Continue(f, p) \/ Suspend(f, p), NotFinished
  PROVE  UNCHANGED <<stages, status>>
<1>1. at' = [at EXCEPT ![f] = p] /\ at \in [Flights -> FlightPlaces] /\ UNCHANGED <<cancelled, status>>
  BY DEF Continue, Suspend, NotFinished, FlightInv, FlightTypes
<1>2. \A g \in Flights : StageOf(g)' = StageOf(g)
  BY <1>1 DEF StageOf
<1>3. QED
  BY <1>1, <1>2, StagesStay

LEMMA EndingServes ==
  ASSUME FlightInv, NEW f \in Flights, NEW s, at[f] \notin {"new", "done"}, Finish(f, s),
         \/ s = "SUCCEEDED" /\ f \notin cancelled
         \/ s = "CANCELLED" /\ f \in cancelled
         \/ s \in {"TIMED_OUT", "REJECTED_BY_PX4"}
  PROVE  Service!Next
<1>1. /\ at' = [at EXCEPT ![f] = "done"] /\ at \in [Flights -> FlightPlaces]
      /\ cancelled' = cancelled \ {f} /\ status' = [status EXCEPT ![f] = s]
  BY DEF Finish, FlightInv, FlightTypes
<1>2. StageOf(f)' = "over" /\ \A g \in Flights \ {f} : StageOf(g)' = StageOf(g)
  BY <1>1 DEF StageOf
<1>3. stages' = [stages EXCEPT ![f] = "over"]
  BY <1>2, StageMoves
<1>4. stages[f] = IF f \in cancelled THEN "stopping" ELSE "flying"
  BY DEF stages, StageOf
<1>5. Service!Succeed(f) \/ Service!GiveUp(f) \/ Service!Fail(f)
  BY <1>1, <1>3, <1>4 DEF Service!Succeed, Service!GiveUp, Service!Fail, Service!Ends, Service!Goes, stages
<1>6. QED
  BY <1>5 DEF Service!Next

LEMMA StartServes ==
  ASSUME FlightInv, NEW f \in Flights, Start(f) \/ StartFails(f)
  PROVE  Service!Next
<1>1. /\ at[f] = "new" /\ at \in [Flights -> FlightPlaces]
      /\ \A g \in Flights : at[g] \in {"new", "done"}
      /\ f \notin cancelled
  BY DEF Start, StartFails, MayStart, FlightInv, FlightTypes, RegistersMatchFlights
<1>2. Service!NoneUnderWay /\ stages[f] = "waiting"
  BY <1>1 DEF Service!NoneUnderWay, StageOf, stages
<1>3. CASE Start(f)
  <2>1. PICK p \in {"warming", "ready", "planning"} : at' = [at EXCEPT ![f] = p]
    BY <1>3 DEF Start, Continue, Suspend
  <2>2. cancelled' = cancelled /\ status' = status
    BY <1>3 DEF Start
  <2>3. StageOf(f)' = "flying" /\ \A g \in Flights \ {f} : StageOf(g)' = StageOf(g)
    BY <1>1, <2>1, <2>2 DEF StageOf
  <2>4. Service!Begin(f)
    BY <1>2, <2>2, <2>3, StageMoves DEF Service!Begin, Service!Goes, stages
  <2>5. QED
    BY <2>4 DEF Service!Next
<1>4. CASE StartFails(f)
  <2>1. /\ at' = [at EXCEPT ![f] = "done"] /\ cancelled' = cancelled \ {f}
        /\ status' = [status EXCEPT ![f] = "FAILED"]
    BY <1>4 DEF StartFails, Finish
  <2>2. StageOf(f)' = "over" /\ \A g \in Flights \ {f} : StageOf(g)' = StageOf(g)
    BY <1>1, <2>1 DEF StageOf
  <2>3. Service!Refuse(f)
    BY <1>2, <2>1, <2>2, StageMoves DEF Service!Refuse, Service!Ends, Service!Goes, stages
  <2>4. QED
    BY <2>3 DEF Service!Next
<1>5. QED
  BY <1>3, <1>4

LEMMA ExecuteServes ==
  ASSUME BackendInv, CancelsAsked, NEW f \in Flights, ExecuteStep(f)
  PROVE  [Service!Next]_<<stages, status>>
<1>i. FlightInv
  BY DEF BackendInv
<1>1. CASE WarmedUp(f)
  BY <1>i, <1>1, GoingOnServes DEF WarmedUp
<1>2. CASE EnterOffboard(f)
  BY <1>i, <1>2, GoingOnServes, EndingServes DEF EnterOffboard
<1>3. CASE OffboardAnswered(f)
  <2>1. f \in Offboard /\ at[f] = "entering"
    BY <1>3 DEF OffboardAnswered, BackendInv, FlightInv, RightPlaces, ByTargets
  <2>2. OffboardCall(f) \in Calls /\ OffboardCall(f)[1] = f
    BY <2>1, BackendConstants DEF OffboardCall
  <2>3. CASE result'[OffboardCall(f)] = "ACCEPTED"
    BY <1>i, <1>3, <2>1, <2>3, GoingOnServes DEF OffboardAnswered
  <2>4. CASE result'[OffboardCall(f)] # "ACCEPTED"
    BY <1>i, <1>3, <2>1, <2>2, <2>4, AnswerServes, EndingServes DEF OffboardAnswered
  <2>5. QED
    BY <2>3, <2>4
<1>4. CASE SubmitStep(f)
  BY <1>i, <1>4, GoingOnServes, EndingServes DEF SubmitStep
<1>5. CASE StepAnswered(f)
  <2>1. f \in Flights \ Offboard /\ at[f] = "submitted"
    BY <1>5 DEF StepAnswered, BackendInv, FlightInv, RightPlaces, ByMode
  <2>2. PICK c \in PlanCalls(f) :
          /\ Answered(c)
          /\ \/ Continue(f, "planning") /\ NotFinished
             \/ Continue(f, "polling") /\ NotFinished
             \/ result'[c] # "ACCEPTED" /\ Finish(f, StatusFor(result'[c]))
    BY <1>5 DEF StepAnswered
  <2>3. c \in Calls /\ c[1] = f
    BY <2>1, <2>2, BackendConstants DEF PlanCalls
  <2>4. QED
    BY <1>i, <2>1, <2>2, <2>3, AnswerServes, EndingServes, GoingOnServes
<1>6. CASE PollCancelled(f) \/ PollCompleted(f) \/ PollSleeps(f)
  BY <1>i, <1>6, GoingOnServes, EndingServes DEF PollCancelled, PollCompleted, PollSleeps, Polls
<1>7. CASE PollTimedOut(f) \/ TimeoutHandedOver(f)
  BY <1>i, <1>7, GoingOnServes, EndingServes DEF PollTimedOut, TimeoutHandedOver, Polls
<1>8. QED
  BY <1>1, <1>2, <1>3, <1>4, <1>5, <1>6, <1>7 DEF ExecuteStep, ProgressStep

LEMMA CancelServes ==
  ASSUME FlightInv, NEW f \in Flights, NEW k \in 1..CancelsOf[f], CancelFlight(f, k)
  PROVE  [Service!Next]_<<stages, status>>
<1>1. /\ at' = at /\ status' = status /\ cancelled' = cancelled \cup {f}
      /\ at[f] \notin {"new", "done"}
  BY DEF CancelFlight, FlightInv, RegistersMatchFlights
<1>2. StageOf(f)' = "stopping" /\ \A g \in Flights \ {f} : StageOf(g)' = StageOf(g)
  BY <1>1 DEF StageOf
<1>3. CASE f \in cancelled
  <2>1. \A g \in Flights : StageOf(g)' = StageOf(g)
    BY <1>1, <1>2, <1>3 DEF StageOf
  <2>2. QED
    BY <1>1, <2>1, StagesStay
<1>4. CASE f \notin cancelled
  <2>1. Service!Stop(f)
    <3>1. stages[f] = "flying"
      BY <1>1, <1>4 DEF StageOf, stages
    <3>2. QED
      BY <1>1, <1>2, <3>1, StageMoves DEF Service!Stop, Service!Goes, stages
  <2>2. QED
    BY <2>1 DEF Service!Next
<1>5. QED
  BY <1>3, <1>4

LEMMA StepServes ==
  ASSUME BackendInv, CancelsAsked, [BackendNext]_allVars
  PROVE  [Service!Next]_<<stages, status>>
<1>k. ASSUME UNCHANGED <<at, cancelled, status>> PROVE UNCHANGED <<stages, status>>
  BY <1>k, StagesStay DEF StageOf
<1>1. ASSUME NEW f \in Flights, Start(f) \/ StartFails(f) PROVE Service!Next
  BY <1>1, StartServes DEF BackendInv
<1>2. ASSUME NEW f \in Flights, ExecuteStep(f) PROVE [Service!Next]_<<stages, status>>
  BY <1>2, ExecuteServes
<1>3. ASSUME NEW f \in Flights, NEW k \in 1..CancelsOf[f], CancelFlight(f, k)
      PROVE  [Service!Next]_<<stages, status>>
  BY <1>3, CancelServes DEF BackendInv
<1>4. ASSUME NEW f \in Flights, NEW k \in 1..CancelsOf[f], CancelHandover(f, k) \/ CancelHandedOver(f, k)
      PROVE  UNCHANGED <<stages, status>>
  BY <1>4, <1>k DEF CancelHandover, CancelHandedOver
<1>5. CASE TransportStep \/ Px4LeavesOffboard \/ TargetsLapse \/ SeeMode \/ (\E c \in Commands : Px4Decides(c)) \/ UNCHANGED allVars
  BY <1>5, <1>k DEF TransportStep, Px4LeavesOffboard, TargetsLapse, SeeMode, Px4Decides, allVars, backendVars
<1>6. QED
  BY <1>1, <1>2, <1>3, <1>4, <1>5 DEF BackendNext

(* Whatever PX4, the network and cancel() do, in whatever order, clients   *)
(* of Px4Ros2FlightExecutionBackend find the service FlightService         *)
(* describes: it succeeds only uncancelled and reports CANCELLED only when *)
(* asked, once per flight and one flight at a time.                        *)
THEOREM BackendServes == BackendSpec => ServesFlights
<1>1. BackendInit => CancelsAsked
  BY DEF BackendInit, Init, CancelsAsked
<1>2. BackendInit => Service!Init
  BY DEF BackendInit, Service!Init, StageOf
<1>3. BackendSpec => []CancelsAsked
  BY <1>1, AskedKept, BackendInvariant, PTL DEF BackendSpec
<1>4. BackendInv /\ CancelsAsked /\ [BackendNext]_allVars => [Service!Next]_<<stages, status>>
  BY StepServes
<1>5. [Service!Next]_<<stages, status>> => [Service!Next]_Service!serviceVars
  BY DEF Service!serviceVars, stages
<1>6. QED
  BY <1>2, <1>3, <1>4, <1>5, BackendInvariant, PTL DEF BackendSpec, ServesFlights, Service!Spec

-----------------------------------------------------------------------------
(* PX4's final verdict of a command, as far as the adapter has it: on the  *)
(* wire, scheduled on the loop, or taken for the call that waits.          *)
Verdict(c, v) ==
  \/ \E a \in OnWire : a.call = c /\ a.verdict = v
  \/ \E p \in Places : AckAt(p).call = c /\ AckAt(p).verdict = v
  \/ outcome[c] = v /\ credited[c] = c

LeavesOffboard == {"cancel", "timeout", "rtl", "land"}

(* The server executes one flight at a time, and a request for Offboard is *)
(* in the adapter only while its flight waits for it.                      *)
OneFlight ==
  \A f, g \in Flights : at[f] \notin {"new", "done"} /\ at[g] \notin {"new", "done"} => f = g
EnteringCalls ==
  \A f \in Offboard : InFlight(OffboardCall(f)) => at[f] = "entering"

(* A flight that is still to enter Offboard has targets streamed for it,   *)
(* unless a handover or its budget stopped them.                           *)
TargetsReady == cut = {} /\ ToEnter # {} => stream # None

(* While its answers are its own, PX4 is out of Offboard once it accepted  *)
(* a command that leaves it, and once it refused Offboard.                 *)
PublishedWaits == \A c \in Calls : px4[c] \in {"published", "working"} => pc[c] = "waiting"
VerdictsTell ==
  \A c \in Calls : pc[c] = "waiting" =>
    /\ c[2] \in LeavesOffboard /\ Verdict(c, "ACCEPTED") => mode # "OFFBOARD"
    /\ c[2] = "offboard" /\ Verdict(c, "REJECTED") => mode # "OFFBOARD"
AnswersInv == PublishedWaits /\ VerdictsTell

(* The stream runs in Offboard mode, which PX4 is out of during a warm-up. *)
HeartbeatInv ==
  /\ mode = "OFFBOARD" => stream # None
  /\ \A f \in Flights : at[f] \in {"warming", "warmed"} => mode # "OFFBOARD"

QuietInv ==
  /\ OneFlight /\ EnteringCalls /\ TargetsReady
  /\ Quiet => AnswersInv
  /\ Undisturbed => HeartbeatInv

-----------------------------------------------------------------------------
(* A step of one call moves no other call. *)
LEMMA OneCallMoves ==
  ASSUME TypeOK, NEW c \in Calls, CallStep(c)
  PROVE  /\ \A d \in Calls \ {c} : pc'[d] = pc[d] /\ px4'[d] = px4[d] /\ result'[d] = result[d]
         /\ pc[c] # "returned"
         /\ pc'[c] = "waiting" => px4'[c] = "published" /\ pc[c] \in {"new", "queued"}
         /\ pc'[c] # "waiting" => px4'[c] = px4[c]
         /\ pc'[c] # "returned" => result'[c] = result[c]
<1>1. /\ pc \in [Calls -> {"new", "queued", "waiting", "returned"}]
      /\ result \in [Calls -> Results \cup {"none"}]
      /\ px4 \in [Commands -> {"unpublished", "published", "working", "answered"}]
  BY DEF TypeOK
<1>2. QED
  BY <1>1, CallMoves DEF Commands

(* The other steps of the adapter move no call. *)
LEMMA OnlyCallsMove ==
  ASSUME TypeOK, [Next]_vars
  PROVE  \/ UNCHANGED <<pc, result>>
         \/ \E c \in Calls : CallStep(c)
<1>1. CASE UNCHANGED vars
  BY <1>1 DEF vars, adapterVars
<1>2. CASE \E l \in Loops, e \in Executions : Cancel(l, e)
  BY <1>2 DEF Cancel
<1>3. CASE \E a \in wire : HandleAck(a)
  BY <1>3 DEF HandleAck, adapterVars
<1>4. CASE \E l \in Loops : ResolveAck(l) \/ CloseLoop(l)
  BY <1>4 DEF ResolveAck, CloseLoop
<1>5. CASE \E c \in Commands : Px4Progress(c) \/ Px4Answer(c)
  BY <1>5 DEF Px4Progress, Px4Answer, adapterVars
<1>6. QED
  BY <1>1, <1>2, <1>3, <1>4, <1>5 DEF Next

(* Only the call that waits is credited with an ACK. *)
LEMMA ReturnedCredit ==
  ASSUME AdapterInv, [Next]_vars, NEW c \in Calls, pc[c] = "returned"
  PROVE  credited'[c] = credited[c]
<1>1. CASE \E l \in Loops : ResolveAck(l)
  <2>1. pending # c
    BY DEF AdapterInv, OneCommandInFlight
  <2>2. QED
    BY <1>1, <2>1 DEF ResolveAck, AdapterInv, TypeOK
<1>2. CASE credited' = credited
  BY <1>2
<1>3. CASE \E d \in Calls : CallStep(d)
  BY <1>2, <1>3, CallMoves DEF AdapterInv
<1>4. QED
  BY <1>1, <1>2, <1>3 DEF Next, Cancel, HandleAck, CloseLoop, Px4Progress, Px4Answer, vars, historyVars

(* A call returns once, and what it returned stays. *)
LEMMA QuietBefore ==
  ASSUME AdapterInv, AckInv, [Next]_vars
  PROVE  /\ Quiet' => Quiet
         /\ \A c \in Calls : pc[c] = "returned" => pc'[c] = "returned"
<1>t. TypeOK
  BY DEF AdapterInv
<1>1. ASSUME NEW d \in Calls, pc[d] = "returned" PROVE pc'[d] = "returned" /\ result'[d] = result[d]
  BY <1>1, <1>t, OnlyCallsMove, OneCallMoves
<1>2. ASSUME NEW d \in Calls, Abandoned(d) PROVE Abandoned(d)'
  <2>1. pc[d] = "returned"
    BY <1>2 DEF Abandoned, AckInv, CallsSettled
  <2>2. QED
    BY <1>1, <1>2, <2>1 DEF Abandoned
<1>3. QED
  BY <1>1, <1>2, ReturnedCredit DEF Quiet

-----------------------------------------------------------------------------
LEMMA VerdictAnswered ==
  ASSUME AckInv, NEW c \in Calls, NEW v \in FinalVerdicts, Verdict(c, v)
  PROVE  px4[c] = "answered"
<1>1. CASE OnItsWay(c)
  BY <1>1 DEF AckInv, AcksSent, Commands
<1>2. CASE credited[c] = c
  BY <1>2 DEF AckInv, AcksSent, Commands
<1>3. QED
  BY <1>1, <1>2 DEF Verdict, OnItsWay

(* A verdict the adapter did not have before comes from PX4. *)
LEMMA VerdictKept ==
  ASSUME AdapterInv, AdapterInv', [Next]_vars,
         NEW c \in Calls, NEW v \in FinalVerdicts, Verdict(c, v)'
  PROVE  Verdict(c, v) \/ [call |-> c, verdict |-> v] \in wire' \ wire
<1>t. /\ TypeOK /\ wire \subseteq Acks /\ outcome \in [Calls -> Outcomes \cup {"none"}]
      /\ credited \in [Calls -> Commands \cup {NoCall}]
  BY DEF AdapterInv, TypeOK
<1>s. ASSUME UNCHANGED <<wire, loopAcks, credited>>, outcome'[c] = v => outcome[c] = v
      PROVE  Verdict(c, v)
  BY <1>s, SameAcks DEF Verdict
<1>1. CASE UNCHANGED vars
  BY <1>1, <1>s DEF vars, adapterVars, ackVars, historyVars
<1>2. CASE \E d \in Calls : CallStep(d)
  BY <1>2, <1>t, <1>s, CallMoves
<1>3. CASE \E l \in Loops, e \in Executions : Cancel(l, e)
  <2>1. UNCHANGED <<wire, loopAcks, credited>>
    BY <1>3 DEF Cancel, ackVars
  <2>2. outcome'[c] = v => outcome[c] = v
    BY <1>3, <1>t DEF Cancel, FinalVerdicts
  <2>3. QED
    BY <1>s, <2>1, <2>2
<1>4. ASSUME NEW a \in wire, HandleAck(a) PROVE Verdict(c, v)
  <2>1. wire' = wire \ {a} /\ UNCHANGED <<outcome, credited>>
    BY <1>4 DEF HandleAck, adapterVars, historyVars
  <2>2. \A b \in OnWire' : b \in OnWire
    BY <2>1 DEF OnWire, Final
  <2>3. \A p \in Places' : \/ p \in Places /\ AckAt(p)' = AckAt(p)
                           \/ AckAt(p)' = a /\ Final(a)
    <3>1. CASE loopAcks' = loopAcks
      BY <3>1 DEF Places, AckAt, Final
    <3>2. CASE loopAcks' # loopAcks
      <4>1. /\ boundLoop \in Loops
            /\ loopAcks' = [loopAcks EXCEPT ![boundLoop] = Append(@, a)]
        BY <1>4, <1>t, <3>2 DEF HandleAck, TypeOK
      <4>2. QED
        BY <1>t, <4>1, BackAdded
    <3>3. QED
      BY <3>1, <3>2
  <2>4. QED
    BY <2>1, <2>2, <2>3 DEF Verdict, OnWire
<1>5. ASSUME NEW l \in Loops, ResolveAck(l) PROVE Verdict(c, v)
  <2>h. /\ loopAcks[l] \in Seq(Acks) /\ loopAcks[l] # <<>>
        /\ loopAcks' = [loopAcks EXCEPT ![l] = Tail(@)] /\ wire' = wire
    BY <1>5, <1>t DEF TypeOK, ResolveAck
  <2>1. \A p \in Places' : \E q \in Places : AckAt(p)' = AckAt(q)
    BY <1>t, <2>h, FrontRemoved
  <2>2. OnWire' = OnWire
    BY <2>h DEF OnWire, Final
  <2>3. CASE ~(outcome'[c] = v /\ credited'[c] = c) \/ (outcome'[c] = outcome[c] /\ credited'[c] = credited[c])
    BY <2>1, <2>2, <2>3 DEF Verdict
  <2>4. CASE outcome'[c] = v /\ credited'[c] = c /\ ~(outcome'[c] = outcome[c] /\ credited'[c] = credited[c])
    <3> DEFINE a == Head(loopAcks[l])
    <3>a. a \in Acks /\ a = loopAcks[l][1] /\ 1 \in 1..Len(loopAcks[l])
      BY <2>h
    <3>1. a.verdict = v /\ a.call = c
      BY <1>5, <1>t, <2>4 DEF ResolveAck, TypeOK
    <3>2. <<l, 1>> \in Places /\ AckAt(<<l, 1>>) = a
      BY <3>a, <3>1 DEF Places, AckAt, Final
    <3>3. QED
      BY <3>1, <3>2 DEF Verdict
  <2>5. QED
    BY <2>3, <2>4
<1>6. ASSUME NEW l \in Loops, CloseLoop(l) PROVE Verdict(c, v)
  <2>1. /\ wire' = wire /\ UNCHANGED <<outcome, credited>>
        /\ loopAcks' = [loopAcks EXCEPT ![l] = <<>>]
    BY <1>6 DEF CloseLoop, historyVars
  <2>2. \A p \in Places' : p \in Places /\ AckAt(p)' = AckAt(p)
    BY <2>1, <1>t DEF Places, AckAt, Final, TypeOK
  <2>3. OnWire' = OnWire
    BY <2>1 DEF OnWire, Final
  <2>4. QED
    BY <2>1, <2>2, <2>3 DEF Verdict
<1>7. ASSUME NEW d \in Commands, Px4Progress(d) \/ Px4Answer(d)
      PROVE  Verdict(c, v) \/ [call |-> c, verdict |-> v] \in wire' \ wire
  <2>1. UNCHANGED <<loopAcks, outcome, credited>>
    BY <1>7 DEF Px4Progress, Px4Answer, adapterVars, historyVars
  <2>2. Places' = Places /\ \A p \in Places : AckAt(p)' = AckAt(p)
    BY <2>1 DEF Places, AckAt, Final
  <2>3. CASE \E p \in Places : AckAt(p).call = c /\ AckAt(p).verdict = v
    BY <2>3 DEF Verdict
  <2>4. CASE outcome[c] = v /\ credited[c] = c
    BY <2>4 DEF Verdict
  <2>5. CASE \E b \in OnWire' : b.call = c /\ b.verdict = v
    <3>1. PICK b \in OnWire' : b.call = c /\ b.verdict = v
      BY <2>5
    <3>2. wire' \subseteq Acks
      BY DEF AdapterInv, TypeOK
    <3>3. b = [call |-> c, verdict |-> v] /\ b \in wire'
      BY <3>1, <3>2 DEF OnWire, Acks
    <3>4. b \in wire => Verdict(c, v)
      BY <3>1 DEF Verdict, OnWire, Final
    <3>5. QED
      BY <3>3, <3>4
  <2>6. QED
    BY <2>1, <2>2, <2>3, <2>4, <2>5 DEF Verdict
<1>8. QED
  BY <1>1, <1>2, <1>3, <1>4, <1>5, <1>6, <1>7 DEF Next

(* What submit_and_wait() returns while all is quiet. *)
LEMMA QuietAnswer ==
  ASSUME AdapterInv, AckInv, AckInv', NEW c \in Calls, Answered(c), Quiet'
  PROVE  /\ result'[c] \in FinalVerdicts
         /\ pc[c] = "waiting"
         /\ Verdict(c, result'[c])
<1>1. /\ result \in [Calls -> Results \cup {"none"}]
      /\ outcome \in [Calls -> Outcomes \cup {"none"}] /\ TypeOK
  BY DEF AdapterInv, TypeOK
<1>2. result'[c] \notin {"TIMED_OUT", "CANCELLED"}
  BY DEF Quiet, Abandoned
<1>3. ~TimeOut(c)
  BY <1>1, <1>2 DEF TimeOut, ReturnWith
<1>4. pc[c] = "waiting" /\ outcome[c] # "none" /\ result'[c] = outcome[c]
  BY <1>1, <1>3 DEF Answered, Wake, ReturnWith
<1>5. outcome[c] \in FinalVerdicts
  BY <1>1, <1>2, <1>4 DEF Outcomes, FinalVerdicts
<1>6. credited'[c] = credited[c] /\ pc'[c] = "returned"
  <2>1. CallStep(c)
    BY DEF Answered, CallStep
  <2>2. QED
    BY <1>1, <2>1, CallMoves, AnswerIsVerdict DEF TypeOK
<1>7. credited[c] = c
  <2>1. \A e \in Calls : ~CauseFor(c, e)'
    BY <1>6 DEF Quiet, CauseFor
  <2>2. credited'[c] \in {c, NoCall}
    BY <2>1 DEF AckInv, ForeignAckHasCause, Mistaken
  <2>3. QED
    BY <1>5, <1>6, <2>2 DEF AckInv, CallsSettled
<1>8. QED
  BY <1>4, <1>5, <1>7 DEF Verdict

-----------------------------------------------------------------------------
(* What the steps of the backend do to the flights and to the calls. *)
Underway(f) == at[f] \notin {"new", "done"}

LEMMA ExecuteMoves ==
  ASSUME FlightInv, NEW f \in Flights, ExecuteStep(f)
  PROVE  /\ Underway(f)
         /\ \E p \in FlightPlaces \ {"new", "warming"} :
              /\ at' = [at EXCEPT ![f] = p]
              /\ p = "warmed" => at[f] = "warming"
<1>1. at[f] \in FlightPlaces
  BY DEF FlightInv, FlightTypes
<1>2. CASE WarmedUp(f) \/ EnterOffboard(f) \/ OffboardAnswered(f)
  BY <1>2 DEF WarmedUp, EnterOffboard, OffboardAnswered, Underway, FlightPlaces, Continue, Suspend, Finish
<1>3. CASE SubmitStep(f) \/ StepAnswered(f)
  BY <1>3 DEF SubmitStep, StepAnswered, Underway, FlightPlaces, Continue, Suspend, Finish
<1>4. CASE PollCancelled(f) \/ PollCompleted(f) \/ PollTimedOut(f) \/ PollSleeps(f) \/ TimeoutHandedOver(f)
  BY <1>4 DEF PollCancelled, PollCompleted, PollTimedOut, PollSleeps, TimeoutHandedOver, Polls,
              Underway, FlightPlaces, Suspend, Finish
<1>5. QED
  BY <1>2, <1>3, <1>4 DEF ExecuteStep, ProgressStep

LEMMA StartMoves ==
  ASSUME FlightInv, NEW f \in Flights, Start(f) \/ StartFails(f)
  PROVE  /\ \A g \in Flights : ~Underway(g)
         /\ \E p \in FlightPlaces \ {"new", "warmed"} :
              /\ at' = [at EXCEPT ![f] = p]
              /\ p = "warming" => stream = None
         /\ mode' = mode /\ (stream' = None => stream = None)
<1>1. None \notin Flights
  BY BackendAssumption
<1>2. QED
  BY <1>1 DEF Start, StartFails, MayStart, Underway, FlightPlaces, Continue, Suspend, Finish, px4Vars

LEMMA OthersStay ==
  ASSUME \/ TransportStep \/ Px4LeavesOffboard \/ TargetsLapse \/ SeeMode \/ \E c \in Commands : Px4Decides(c)
         \/ UNCHANGED allVars
         \/ \E f \in Flights : \E k \in 1..CancelsOf[f] :
              CancelFlight(f, k) \/ CancelHandover(f, k) \/ CancelHandedOver(f, k)
  PROVE  at' = at
  BY DEF TransportStep, Px4LeavesOffboard, TargetsLapse, SeeMode, Px4Decides, CancelFlight, CancelHandover,
         CancelHandedOver, allVars, backendVars

LEMMA OneFlightKept ==
  ASSUME FlightInv, OneFlight, [BackendNext]_allVars
  PROVE  OneFlight'
<1>t. at \in [Flights -> FlightPlaces]
  BY DEF FlightInv, FlightTypes
<1>1. ASSUME NEW f \in Flights, ExecuteStep(f) PROVE OneFlight'
  <2>1. \A g \in Flights : Underway(g)' => Underway(g)
    BY <1>t, <1>1, ExecuteMoves DEF Underway
  <2>2. QED
    BY <2>1 DEF OneFlight, Underway
<1>2. ASSUME NEW f \in Flights, Start(f) \/ StartFails(f) PROVE OneFlight'
  <2>1. \A g \in Flights : Underway(g)' => g = f
    BY <1>t, <1>2, StartMoves DEF Underway
  <2>2. QED
    BY <2>1 DEF OneFlight, Underway
<1>3. CASE at' = at
  BY <1>3 DEF OneFlight
<1>4. QED
  BY <1>1, <1>2, <1>3, OthersStay DEF BackendNext

LEMMA SubmitsAStep ==
  ASSUME PlanKept, NEW f \in Flights \ Offboard, at[f] = "planning"
  PROVE  NextStep(f) \in Steps(f)
<1>1. UnsentSteps(f) # {}
  BY DEF PlanKept, PlanKeptOf
<1>2. QED
  BY <1>1, NextStepIsFirst DEF UnsentSteps, Steps

(* Only a flight about to enter Offboard makes its request. *)
LEMMA RequestEnters ==
  ASSUME BackendInv, [BackendNext]_allVars, NEW f \in Offboard,
         pc[OffboardCall(f)] = "new", InFlight(OffboardCall(f))'
  PROVE  at'[f] = "entering"
<1> DEFINE c == OffboardCall(f)
<1>t. /\ TypeOK /\ c \in Calls /\ c = <<f, "offboard", 0>> /\ f \in Flights
      /\ at \in [Flights -> FlightPlaces]
  BY BackendConstants DEF BackendInv, AdapterInv, FlightInv, FlightTypes, OffboardCall, Offboard
<1> HIDE DEF c
<1>m. /\ pc'[c] # pc[c]
      /\ \A d \in Calls : CallStep(d) => d = c /\ pc[d] = "new"
  <2>1. pc'[c] # pc[c]
    BY DEF InFlight, c
  <2>2. QED
    BY <1>t, <2>1, OneCallMoves DEF c
<1>a. ~\E d \in Calls : Answered(d) \/ Acquire(d)
  BY <1>m DEF Answered, CallStep, Wake, TimeOut, Acquire
<1>v. ~UNCHANGED pc
  BY <1>m
<1>1. ASSUME NEW g \in Flights, Start(g) \/ StartFails(g) PROVE FALSE
  BY <1>1, <1>v DEF Start, StartFails, vars, adapterVars
<1>2. ASSUME NEW g \in Flights, EnterOffboard(g) PROVE at'[f] = "entering"
  <2>1. Submit(OffboardCall(g)) /\ Suspend(g, "entering")
    BY <1>2, <1>v DEF EnterOffboard, vars, adapterVars
  <2>2. g \in Offboard
    BY <1>2 DEF EnterOffboard, BackendInv, FlightInv, RightPlaces, ByTargets
  <2>3. OffboardCall(g) = c
    BY <1>m, <2>1, <2>2, BackendConstants DEF CallStep
  <2>4. g = f
    BY <1>t, <2>3 DEF OffboardCall
  <2>5. QED
    BY <1>t, <2>1, <2>4 DEF Suspend
<1>3. ASSUME NEW g \in Flights, SubmitStep(g) \/ PollTimedOut(g) PROVE FALSE
  <2>1. PICK d : Submit(d) /\ d[2] # "offboard" /\ d \in Calls
    <3>1. CASE SubmitStep(g)
      <4>1. Submit(<<g, PlanOf(g)[NextStep(g)], 0>>) /\ g \in Flights \ Offboard
        BY <1>3, <3>1, <1>v DEF SubmitStep, vars, adapterVars, BackendInv, FlightInv, RightPlaces, ByMode
      <4>2. NextStep(g) \in Steps(g)
        BY <3>1, <4>1, SubmitsAStep DEF BackendInv, SubmitStep
      <4>3. QED
        BY <4>1, <4>2, BackendConstants DEF Steps
    <3>2. CASE PollTimedOut(g)
      <4>1. g \in Offboard /\ Submit(TimeoutCall(g))
        BY <1>3, <3>2, <1>v DEF PollTimedOut, vars, adapterVars
      <4>2. QED
        BY <4>1, BackendConstants DEF TimeoutCall
    <3>3. QED
      BY <1>3, <3>1, <3>2
  <2>2. QED
    BY <1>t, <1>m, <2>1 DEF CallStep
<1>4. ASSUME NEW g \in Flights, ExecuteStep(g), ~EnterOffboard(g), ~SubmitStep(g), ~PollTimedOut(g)
      PROVE  FALSE
  <2>1. CASE WarmedUp(g) \/ PollCancelled(g) \/ PollSleeps(g) \/ PollCompleted(g)
    BY <2>1, <1>v DEF WarmedUp, PollCancelled, PollSleeps, PollCompleted, vars, adapterVars
  <2>2. CASE OffboardAnswered(g) \/ TimeoutHandedOver(g)
    <3>1. g \in Offboard
      BY <2>2 DEF OffboardAnswered, TimeoutHandedOver, BackendInv, FlightInv, RightPlaces, ByTargets
    <3>2. QED
      BY <2>2, <3>1, <1>a, BackendConstants DEF OffboardAnswered, TimeoutHandedOver
  <2>3. CASE StepAnswered(g)
    <3>1. g \in Flights \ Offboard
      BY <2>3 DEF StepAnswered, BackendInv, FlightInv, RightPlaces, ByMode
    <3>2. QED
      BY <2>3, <3>1, <1>a, BackendConstants DEF StepAnswered
  <2>4. QED
    BY <1>4, <2>1, <2>2, <2>3 DEF ExecuteStep, ProgressStep
<1>5. ASSUME NEW g \in Flights, NEW k \in 1..CancelsOf[g],
             CancelFlight(g, k) \/ CancelHandover(g, k) \/ CancelHandedOver(g, k)
      PROVE  FALSE
  <2>1. CASE CancelFlight(g, k)
    BY <2>1, <1>v DEF CancelFlight, Cancel
  <2>2. CASE CancelHandover(g, k) \/ CancelHandedOver(g, k)
    <3>1. g \in Offboard
      <4>1. <<g, k>> \in Cancels
        BY DEF Cancels
      <4>2. cancelAt[<<g, k>>] \in {"begun", "handover"}
        BY <2>2, <4>1 DEF CancelHandover, CancelHandedOver, BackendInv, FlightInv, RightPlaces
      <4>3. QED
        BY <4>2 DEF BackendInv, FlightInv, RightPlaces
    <3>2. CancelCall(g, k) \in Calls /\ CancelCall(g, k)[2] = "cancel"
      BY <3>1, BackendConstants DEF CancelCall
    <3>3. QED
      BY <2>2, <3>2, <1>a, <1>t, <1>m DEF CancelHandover, CancelHandedOver, CallStep
  <2>3. QED
    BY <1>5, <2>1, <2>2
<1>6. CASE TransportStep \/ Px4LeavesOffboard \/ TargetsLapse \/ SeeMode \/ (\E d \in Commands : Px4Decides(d)) \/ UNCHANGED allVars
  BY <1>6, <1>v, <1>a DEF TransportStep, Px4LeavesOffboard, TargetsLapse, SeeMode, Px4Decides, Px4Answer, ResolveAck,
                     HandleAck, allVars, vars, adapterVars
<1>7. QED
  BY <1>1, <1>2, <1>3, <1>4, <1>5, <1>6 DEF BackendNext, ExecuteStep, ProgressStep

LEMMA EnteringKept ==
  ASSUME BackendInv, BackendInv', EnteringCalls, [BackendNext]_allVars
  PROVE  EnteringCalls'
<1> SUFFICES ASSUME NEW f \in Offboard, InFlight(OffboardCall(f))' PROVE at'[f] = "entering"
  BY DEF EnteringCalls
<1>t. /\ TypeOK /\ OffboardCall(f) \in Calls /\ f \in Flights /\ [Next]_vars
      /\ pc \in [Calls -> {"new", "queued", "waiting", "returned"}]
      /\ at \in [Flights -> FlightPlaces] /\ AdapterInv /\ AckInv /\ FlightInv
  BY BackendConstants, NextBackend DEF BackendInv, AdapterInv, TypeOK, FlightInv, FlightTypes, Offboard
<1>1. pc[OffboardCall(f)] # "returned"
  BY <1>t, QuietBefore DEF InFlight
<1>2. CASE pc[OffboardCall(f)] = "new"
  BY <1>2, RequestEnters
<1>3. CASE InFlight(OffboardCall(f)) /\ at'[f] # "entering"
  <2>1. at[f] = "entering"
    BY <1>3 DEF EnteringCalls
  <2>2. OffboardAnswered(f)
    <3>1. ~\E g \in Flights : Start(g) \/ StartFails(g)
      BY <2>1, <1>t, StartMoves DEF Underway
    <3>2. \E g \in Flights : ExecuteStep(g)
      BY <1>3, <2>1, <3>1, OthersStay DEF BackendNext
    <3>3. ExecuteStep(f)
      BY <1>t, <1>3, <2>1, <3>2, ExecuteMoves
    <3>4. QED
      BY <2>1, <3>3 DEF ExecuteStep, ProgressStep, WarmedUp, EnterOffboard, SubmitStep, StepAnswered,
                        PollCancelled, PollCompleted, PollTimedOut, PollSleeps, TimeoutHandedOver, Polls
  <2>3. pc'[OffboardCall(f)] = "returned"
    BY <1>t, <2>2, AnswerIsVerdict DEF OffboardAnswered
  <2>4. QED
    BY <2>3 DEF InFlight
<1>4. QED
  BY <1>t, <1>1, <1>2, <1>3 DEF InFlight

-----------------------------------------------------------------------------
(* Only PX4's own steps change its mode or put ACKs on the wire. *)
LEMMA OnlyPx4Decides ==
  ASSUME [BackendNext]_allVars
  PROVE  \/ \E c \in Commands : Px4Decides(c)
         \/ wire' \subseteq wire /\ mode' \in {mode, "other"}
<1>1. ASSUME NEW f \in Flights, Start(f) \/ StartFails(f) PROVE wire' = wire /\ mode' = mode
  BY <1>1 DEF Start, StartFails, vars, ackVars, px4Vars
<1>2. ASSUME NEW c, Submit(c) \/ Answered(c) \/ Acquire(c) PROVE wire' = wire
  BY <1>2 DEF Submit, SubmitRefused, SubmitAtOnce, SubmitQueued, Acquire, Answered, Wake, TimeOut, ackVars
<1>3. ASSUME NEW f \in Flights, ExecuteStep(f) PROVE wire' = wire /\ mode' = mode
  <2>1. CASE WarmedUp(f) \/ EnterOffboard(f) \/ OffboardAnswered(f) \/ SubmitStep(f)
    BY <2>1, <1>2 DEF WarmedUp, EnterOffboard, OffboardAnswered, SubmitStep, vars, ackVars, px4Vars
  <2>2. CASE StepAnswered(f) \/ PollTimedOut(f) \/ TimeoutHandedOver(f)
    BY <2>2, <1>2 DEF StepAnswered, PollTimedOut, TimeoutHandedOver, vars, ackVars, px4Vars
  <2>3. CASE PollCancelled(f) \/ PollCompleted(f) \/ PollSleeps(f)
    BY <2>3 DEF PollCancelled, PollCompleted, PollSleeps, vars, ackVars, px4Vars
  <2>4. QED
    BY <1>3, <2>1, <2>2, <2>3 DEF ExecuteStep, ProgressStep
<1>4. ASSUME NEW f \in Flights, NEW k \in 1..CancelsOf[f],
             CancelFlight(f, k) \/ CancelHandover(f, k) \/ CancelHandedOver(f, k)
      PROVE  wire' = wire /\ mode' = mode
  BY <1>4, <1>2 DEF CancelFlight, CancelHandover, CancelHandedOver, Cancel, ackVars, px4Vars
<1>5. CASE TransportStep
  BY <1>5, <1>2 DEF TransportStep, ResolveAck, HandleAck, px4Vars
<1>6. CASE Px4LeavesOffboard \/ TargetsLapse \/ SeeMode \/ UNCHANGED allVars
  BY <1>6 DEF Px4LeavesOffboard, TargetsLapse, SeeMode, allVars, vars, ackVars, px4Vars
<1>7. QED
  BY <1>1, <1>3, <1>4, <1>5, <1>6 DEF BackendNext

(* What takes the targets from flights that are to enter Offboard is noted. *)
LEMMA CutGrows ==
  ASSUME [BackendNext]_allVars
  PROVE  cut \subseteq cut'
<1>1. ASSUME NEW f \in Flights, ExecuteStep(f) PROVE cut \subseteq cut'
  BY <1>1 DEF ExecuteStep, ProgressStep, WarmedUp, EnterOffboard, OffboardAnswered, SubmitStep, StepAnswered,
              PollCancelled, PollCompleted, PollTimedOut, PollSleeps, TimeoutHandedOver, HandedOver
<1>2. ASSUME NEW f \in Flights, NEW k \in 1..CancelsOf[f],
             CancelFlight(f, k) \/ CancelHandover(f, k) \/ CancelHandedOver(f, k)
      PROVE  cut \subseteq cut'
  BY <1>2 DEF CancelFlight, CancelHandover, CancelHandedOver, HandedOver
<1>3. CASE TransportStep \/ Px4LeavesOffboard \/ TargetsLapse \/ SeeMode \/ (\E c \in Commands : Px4Decides(c))
  BY <1>3 DEF TransportStep, Px4LeavesOffboard, TargetsLapse, SeeMode, Px4Decides, backendVars
<1>4. QED
  BY <1>1, <1>2, <1>3 DEF BackendNext, Start, StartFails, allVars, backendVars

LEMMA TargetsReadyKept ==
  ASSUME FlightInv, OneFlight, TargetsReady, [BackendNext]_allVars
  PROVE  TargetsReady'
<1> SUFFICES ASSUME cut' = {}, NEW g \in ToEnter' PROVE stream' # None
  BY DEF TargetsReady
<1>t. /\ at \in [Flights -> FlightPlaces] /\ g \in Offboard /\ g \in Flights /\ None \notin Flights
      /\ Underway(g)' /\ cut = {}
  BY CutGrows, BackendAssumption DEF FlightInv, FlightTypes, ToEnter, Offboard, Underway
<1>k. ASSUME g \in ToEnter, stream' = stream PROVE stream' # None
  BY <1>k, <1>t DEF TargetsReady
<1>s. ASSUME at'[g] = at[g], cancelled \subseteq cancelled' \/ at[g] = "entering" PROVE g \in ToEnter
  BY <1>s DEF ToEnter
<1>h. ASSUME NEW c, HandedOver(c), g \in ToEnter PROVE stream' # None
  <2>1. cut' = cut /\ stream' = stream
    BY <1>h, <1>t DEF HandedOver, StreamAfter
  <2>2. QED
    BY <1>h, <1>k, <2>1
<1>1. ASSUME NEW f \in Flights, Start(f) \/ StartFails(f) PROVE stream' # None
  <2>1. \A h \in Flights : at[h] \in {"new", "done"}
    BY <1>1 DEF Start, StartFails, MayStart
  <2>2. Start(f) /\ f = g
    BY <1>1, <1>t, <2>1 DEF Start, StartFails, Finish, Continue, Suspend, Underway
  <2>3. QED
    BY <1>t, <2>2 DEF Start
<1>2. ASSUME NEW f \in Flights, ExecuteStep(f) PROVE stream' # None
  <2>1. f = g
    <3>1. Underway(f)
      BY <1>2, ExecuteMoves
    <3>2. Underway(g)
      BY <1>t, <1>2, <3>1, ExecuteMoves DEF Underway
    <3>3. QED
      BY <1>t, <3>1, <3>2 DEF OneFlight, Underway
  <2>2. at'[g] # "done" /\ at'[g] # "polling" /\ at'[g] # "handover"
        /\ at'[g] # "planning" /\ at'[g] # "submitted"
    BY DEF ToEnter
  <2>3. WarmedUp(g) \/ EnterOffboard(g)
    BY <1>2, <1>t, <2>1, <2>2
       DEF ExecuteStep, ProgressStep, OffboardAnswered, SubmitStep, StepAnswered, PollCancelled, PollCompleted,
           PollTimedOut, PollSleeps, TimeoutHandedOver, Polls, Continue, Suspend, Finish
  <2>4. CASE WarmedUp(g)
    <3>1. g \in ToEnter /\ stream' = stream
      BY <1>t, <2>4 DEF WarmedUp, NotFinished, Continue, ToEnter
    <3>2. QED
      BY <1>k, <3>1
  <2>5. CASE EnterOffboard(g)
    <3>1. g \in ToEnter /\ stream' = stream
      BY <1>t, <2>2, <2>5 DEF EnterOffboard, Finish, Continue, Suspend, ToEnter
    <3>2. QED
      BY <1>k, <3>1
  <2>6. QED
    BY <2>3, <2>4, <2>5
<1>3. ASSUME NEW f \in Flights, NEW k \in 1..CancelsOf[f],
             CancelFlight(f, k) \/ CancelHandover(f, k) \/ CancelHandedOver(f, k)
      PROVE  stream' # None
  <2>1. g \in ToEnter
    BY <1>3, <1>s DEF CancelFlight, CancelHandover, CancelHandedOver
  <2>2. QED
    BY <1>3, <1>k, <1>h, <2>1 DEF CancelFlight, CancelHandover, CancelHandedOver
<1>4. CASE \/ TransportStep \/ Px4LeavesOffboard \/ TargetsLapse \/ SeeMode
           \/ (\E c \in Commands : Px4Decides(c)) \/ UNCHANGED allVars
  <2>1. UNCHANGED <<at, cancelled, stream>>
    BY <1>4 DEF TransportStep, Px4LeavesOffboard, TargetsLapse, SeeMode, Px4Decides, allVars, backendVars
  <2>2. QED
    BY <1>k, <1>s, <2>1
<1>5. QED
  BY <1>1, <1>2, <1>3, <1>4 DEF BackendNext

(* The stream is not stopped under PX4 in Offboard mode. *)
LEMMA StreamKept ==
  ASSUME BackendInv, AckInv', AnswersInv, HeartbeatInv, [BackendNext]_allVars, Undisturbed', mode = "OFFBOARD"
  PROVE  stream' # None
<1>t. /\ AdapterInv /\ AckInv /\ TypeOK /\ stream # None /\ FlightInv /\ None \notin Flights
      /\ Quiet' /\ cut' = {}
  BY BackendAssumption DEF BackendInv, AdapterInv, HeartbeatInv, Undisturbed
<1> SUFFICES ASSUME stream' = None PROVE FALSE
  OBVIOUS
<1>k. stream' # stream
  BY <1>t
<1>v. ASSUME NEW c \in Calls, Answered(c) PROVE ~(c[2] \in LeavesOffboard /\ result'[c] = "ACCEPTED")
  BY <1>t, <1>v, QuietAnswer DEF AnswersInv, VerdictsTell
<1>1. ASSUME NEW f \in Flights, Start(f) \/ StartFails(f) PROVE FALSE
  BY <1>t, <1>1, StartMoves
<1>2. ASSUME NEW f \in Flights, EnterOffboard(f) PROVE FALSE
  <2>1. at[f] = "ready" /\ cut' = cut \cup {f}
    BY <1>2, <1>k DEF EnterOffboard, HeartbeatInv
  <2>2. QED
    BY <1>t, <2>1
<1>3. ASSUME NEW f \in Flights, OffboardAnswered(f) PROVE FALSE
  <2> DEFINE c == OffboardCall(f)
  <2>1. f \in Offboard
    BY <1>3 DEF OffboardAnswered, BackendInv, FlightInv, RightPlaces, ByTargets
  <2>2. c \in Calls /\ c[2] = "offboard"
    BY <2>1, BackendConstants DEF OffboardCall
  <2>3. Answered(c) /\ result'[c] # "ACCEPTED"
    BY <1>3, <1>k DEF OffboardAnswered
  <2>4. result'[c] = "REJECTED" /\ pc[c] = "waiting" /\ Verdict(c, "REJECTED")
    BY <1>t, <2>2, <2>3, QuietAnswer DEF FinalVerdicts
  <2>5. QED
    BY <2>2, <2>4 DEF AnswersInv, VerdictsTell
<1>4. ASSUME NEW f \in Flights, StepAnswered(f) PROVE FALSE
  <2>1. f \in Flights \ Offboard
    BY <1>4 DEF StepAnswered, BackendInv, FlightInv, RightPlaces, ByMode
  <2>2. PICK c \in PlanCalls(f) : Answered(c) /\ result'[c] = "ACCEPTED" /\ Descending(f)
    BY <1>4, <1>k DEF StepAnswered, StreamAfterPlan, Descending
  <2>3. c \in Calls
    BY <2>1, <2>2, BackendConstants
  <2>4. c[2] \in LeavesOffboard
    <3>1. PlanOf(f) = <<SkillOf[f]>>
      BY <2>2 DEF PlanOf, Descending
    <3>2. QED
      BY <2>2, <3>1 DEF PlanCalls, Descending, LeavesOffboard
  <2>5. QED
    BY <1>v, <2>2, <2>3, <2>4
<1>5. ASSUME NEW f \in Flights, TimeoutHandedOver(f) PROVE FALSE
  <2>1. f \in Offboard
    BY <1>5 DEF TimeoutHandedOver, BackendInv, FlightInv, RightPlaces, ByTargets
  <2>2. TimeoutCall(f) \in Calls /\ TimeoutCall(f)[2] \in LeavesOffboard
    BY <2>1, BackendConstants DEF TimeoutCall, LeavesOffboard
  <2>3. QED
    BY <1>5, <1>k, <1>v, <2>2 DEF TimeoutHandedOver, HandedOver, StreamAfter
<1>6. ASSUME NEW f \in Flights, NEW k \in 1..CancelsOf[f], CancelHandedOver(f, k) PROVE FALSE
  <2>1. f \in Offboard
    BY <1>6 DEF CancelHandedOver, BackendInv, FlightInv, RightPlaces
  <2>2. CancelCall(f, k) \in Calls /\ CancelCall(f, k)[2] \in LeavesOffboard
    BY <2>1, BackendConstants DEF CancelCall, LeavesOffboard
  <2>3. QED
    BY <1>6, <1>k, <1>v, <2>2 DEF CancelHandedOver, HandedOver, StreamAfter
<1>7. ASSUME NEW f \in Flights,
             \/ WarmedUp(f) \/ SubmitStep(f) \/ PollCancelled(f) \/ PollCompleted(f)
             \/ PollTimedOut(f) \/ PollSleeps(f)
      PROVE  FALSE
  BY <1>7, <1>k DEF WarmedUp, SubmitStep, PollCancelled, PollCompleted, PollTimedOut, PollSleeps
<1>8. ASSUME NEW f \in Flights, NEW k \in 1..CancelsOf[f], CancelFlight(f, k) \/ CancelHandover(f, k)
      PROVE  FALSE
  BY <1>8, <1>k DEF CancelFlight, CancelHandover
<1>9. CASE TransportStep \/ Px4LeavesOffboard \/ TargetsLapse \/ SeeMode \/ (\E c \in Commands : Px4Decides(c)) \/ UNCHANGED allVars
  BY <1>9, <1>k DEF TransportStep, Px4LeavesOffboard, TargetsLapse, SeeMode, Px4Decides, allVars, backendVars
<1>10. QED
  BY <1>1, <1>2, <1>3, <1>4, <1>5, <1>6, <1>7, <1>8, <1>9 DEF BackendNext, ExecuteStep, ProgressStep

(* A warm-up begins only where no target was streamed. *)
LEMMA WarmUpKept ==
  ASSUME BackendInv, HeartbeatInv, [BackendNext]_allVars,
         NEW f \in Flights, at'[f] \in {"warming", "warmed"}
  PROVE  mode # "OFFBOARD"
<1>t. FlightInv /\ at \in [Flights -> FlightPlaces]
  BY DEF BackendInv, FlightInv, FlightTypes
<1>k. ASSUME at'[f] = at[f] PROVE mode # "OFFBOARD"
  BY <1>k DEF HeartbeatInv
<1>1. ASSUME NEW g \in Flights, ExecuteStep(g) PROVE mode # "OFFBOARD"
  BY <1>t, <1>k, <1>1, ExecuteMoves DEF HeartbeatInv
<1>2. ASSUME NEW g \in Flights, Start(g) \/ StartFails(g) PROVE mode # "OFFBOARD"
  BY <1>t, <1>k, <1>2, StartMoves DEF HeartbeatInv
<1>3. QED
  BY <1>1, <1>2, <1>k, OthersStay DEF BackendNext

LEMMA PublishedKeptByPx4 ==
  ASSUME TypeOK, PublishedWaits, NEW c \in Commands, Px4Progress(c) \/ Px4Answer(c)
  PROVE  PublishedWaits'
  BY DEF Commands, TypeOK, Px4Progress, Px4Answer, adapterVars, PublishedWaits

LEMMA RequestNames == \A c \in Calls : c[2] = "offboard" => \E f \in Offboard : c = OffboardCall(f)
<1> SUFFICES ASSUME NEW c \in Calls, c[2] = "offboard" PROVE \E f \in Offboard : c = OffboardCall(f)
  OBVIOUS
<1>1. PICK f \in Flights : c \in FlightCalls(f)
  BY BackendAssumption
<1>2. CASE f \in Offboard
  BY <1>1, <1>2 DEF FlightCalls, OffboardCall, TimeoutCall, CancelCall
<1>3. CASE f \notin Offboard
  <2>1. PICK i \in 1..Len(PlanOf(f)) : c = <<f, PlanOf(f)[i], 0>>
    BY <1>1, <1>3 DEF FlightCalls, PlanCalls
  <2>2. PlanOf(f)[i] \in {"takeoff", "arm", "rtl", "land"}
    BY <1>3, BackendConstants
  <2>3. QED
    BY <2>1, <2>2
<1>4. QED
  BY <1>2, <1>3

LEMMA PublishedKept ==
  ASSUME BackendInv, AckInv', PublishedWaits, [BackendNext]_allVars, [Next]_vars, Quiet'
  PROVE  PublishedWaits'
<1>t. AdapterInv /\ AckInv /\ TypeOK
  BY DEF BackendInv, AdapterInv
<1>1. CASE \E c \in Calls : CallStep(c)
  <2>1. PICK c \in Calls : CallStep(c)
    BY <1>1
  <2>2. \A d \in Calls \ {c} : pc'[d] = pc[d] /\ px4'[d] = px4[d]
    BY <1>t, <2>1, OneCallMoves
  <2>3. CASE pc'[c] = "waiting"
    BY <2>2, <2>3 DEF PublishedWaits
  <2>4. CASE pc'[c] # "waiting"
    <3>1. px4'[c] = px4[c]
      BY <1>t, <2>1, <2>4, OneCallMoves
    <3>2. CASE Answered(c)
      <4>1. px4[c] = "answered"
        BY <1>t, <3>2, QuietAnswer, VerdictAnswered
      <4>2. QED
        BY <2>2, <3>1, <4>1 DEF PublishedWaits
    <3>3. CASE pc[c] # "waiting"
      BY <2>2, <3>1, <3>3 DEF PublishedWaits
    <3>4. QED
      BY <2>1, <3>2, <3>3 DEF CallStep, Answered, Submit, SubmitRefused, SubmitAtOnce, SubmitQueued, Acquire
  <2>5. QED
    BY <2>3, <2>4
<1>2. CASE \E c \in Commands : Px4Progress(c) \/ Px4Answer(c)
  BY <1>2, <1>t, PublishedKeptByPx4
<1>3. CASE UNCHANGED <<pc, px4>>
  BY <1>3 DEF PublishedWaits
<1>4. QED
  BY <1>1, <1>2, <1>3 DEF Next, Cancel, HandleAck, ResolveAck, CloseLoop, adapterVars, ackVars, vars

(* A call that waits either waited before or has just been published, and  *)
(* then PX4 has said nothing of it yet.                                    *)
LEMMA VerdictOfWaiting ==
  ASSUME AdapterInv, AckInv, [Next]_vars,
         NEW c \in Calls, NEW v \in FinalVerdicts, pc'[c] = "waiting", Verdict(c, v)
  PROVE  pc[c] = "waiting"
<1>1. px4[c] = "answered"
  BY VerdictAnswered
<1>2. pc[c] \in {"waiting", "returned"}
  BY <1>1 DEF AckInv, CallsSettled
<1>3. QED
  BY <1>2, QuietBefore

(* What PX4 decides of a call is of the one that is waited for.            *)
LEMMA DecidedWaits ==
  ASSUME BackendInv, PublishedWaits, NEW d \in Calls, Px4Decides(d)
  PROVE  pc[d] = "waiting" /\ \A c \in Calls : pc[c] = "waiting" => c = d
<1>1. pc[d] = "waiting"
  BY DEF Px4Decides, Px4Answer, PublishedWaits
<1>2. QED
  BY <1>1 DEF BackendInv, AdapterInv, OneCommandInFlight

(* Its verdict is new, and it is what becomes of the mode.                 *)
LEMMA DecisionIs ==
  ASSUME BackendInv, NEW d \in Calls, Px4Decides(d)
  PROVE  \E v \in FinalVerdicts :
           /\ wire' = wire \cup {[call |-> d, verdict |-> v]}
           /\ mode' \in IF v = "ACCEPTED" THEN ModesAfter(d) ELSE {mode}
           /\ d[2] = "offboard" /\ v = "REJECTED" => mode # "OFFBOARD"
<1>t. AdapterInv /\ AckInv
  BY DEF BackendInv
<1>a. PICK v \in FinalVerdicts : wire' = wire \cup {[call |-> d, verdict |-> v]}
  BY DEF Px4Decides, Px4Answer
<1>n. [call |-> d, verdict |-> "ACCEPTED"] \notin wire
  <2>1. px4[d] # "answered"
    BY DEF Px4Decides, Px4Answer
  <2>2. ~Verdict(d, "ACCEPTED")
    BY <1>t, <2>1, VerdictAnswered DEF FinalVerdicts
  <2>3. QED
    BY <2>2 DEF Verdict, OnWire, Final, FinalVerdicts
<1>1. [call |-> d, verdict |-> "ACCEPTED"] \in wire' <=> v = "ACCEPTED"
  BY <1>a, <1>n DEF FinalVerdicts
<1>2. QED
  BY <1>a, <1>1 DEF Px4Decides, RequestsOffboard, FinalVerdicts

(* Of another client's command no call learns anything.                    *)
LEMMA ForeignDecision ==
  ASSUME NEW d \in Others, Px4Decides(d)
  PROVE  mode' \in {mode, "other"}
  BY DEF Px4Decides, ModesAfter

LEMMA AnswersKept ==
  ASSUME BackendInv, BackendInv', AnswersInv, [BackendNext]_allVars, [Next]_vars, Quiet'
  PROVE  AnswersInv'
<1>t. AdapterInv /\ AckInv /\ AdapterInv' /\ AckInv'
  BY DEF BackendInv
<1>p. PublishedWaits'
  BY <1>t, PublishedKept DEF AnswersInv
<1> SUFFICES ASSUME NEW c \in Calls, pc'[c] = "waiting",
                    NEW x \in FinalVerdicts, Verdict(c, x)',
                    \/ c[2] \in LeavesOffboard /\ x = "ACCEPTED"
                    \/ c[2] = "offboard" /\ x = "REJECTED"
             PROVE  mode' # "OFFBOARD"
  BY <1>p DEF AnswersInv, VerdictsTell, FinalVerdicts
<1>k. ASSUME Verdict(c, x), mode' \in {mode, "other"} PROVE mode' # "OFFBOARD"
  <2>1. pc[c] = "waiting"
    BY <1>t, <1>k, VerdictOfWaiting
  <2>2. QED
    BY <1>k, <2>1 DEF AnswersInv, VerdictsTell
<1>1. ASSUME NEW d \in Calls, Px4Decides(d) PROVE mode' # "OFFBOARD"
  <2>1. PICK v \in FinalVerdicts :
          /\ wire' = wire \cup {[call |-> d, verdict |-> v]}
          /\ mode' \in IF v = "ACCEPTED" THEN ModesAfter(d) ELSE {mode}
          /\ d[2] = "offboard" /\ v = "REJECTED" => mode # "OFFBOARD"
    BY <1>1, DecisionIs
  <2>2. pc' = pc
    BY <1>1 DEF Px4Decides, Px4Answer, adapterVars
  <2>3. c = d
    BY <1>1, <2>2, DecidedWaits DEF AnswersInv
  <2>4. ~Verdict(c, x)
    <3>1. px4[d] # "answered"
      BY <1>1 DEF Px4Decides, Px4Answer
    <3>2. QED
      BY <1>t, <2>3, <3>1, VerdictAnswered
  <2>5. [call |-> c, verdict |-> x] \in wire' \ wire
    BY <1>t, <2>4, VerdictKept
  <2>6. x = v
    BY <2>1, <2>5
  <2>7. CASE c[2] = "offboard" /\ x = "REJECTED"
    BY <2>1, <2>3, <2>6, <2>7
  <2>8. CASE c[2] \in LeavesOffboard /\ x = "ACCEPTED"
    <3>1. mode' \in ModesAfter(c) /\ c \notin Others
      BY <2>1, <2>3, <2>6, <2>8, TransportAssumption
    <3>2. QED
      BY <3>1, <2>8 DEF ModesAfter, LeavesOffboard
  <2>9. QED
    BY <2>7, <2>8
<1>2. ASSUME NEW d \in Others, Px4Decides(d) PROVE mode' # "OFFBOARD"
  <2>1. PICK v : wire' = wire \cup {[call |-> d, verdict |-> v]}
    BY <1>2 DEF Px4Decides, Px4Answer
  <2>2. [call |-> c, verdict |-> x] \notin wire' \ wire
    BY <2>1, TransportAssumption
  <2>3. Verdict(c, x)
    BY <1>t, <2>2, VerdictKept
  <2>4. QED
    BY <1>k, <1>2, <2>3, ForeignDecision
<1>3. CASE wire' \subseteq wire /\ mode' \in {mode, "other"}
  BY <1>t, <1>k, <1>3, VerdictKept
<1>4. QED
  BY <1>1, <1>2, <1>3, OnlyPx4Decides DEF Commands

(* PX4 enters Offboard for a flight that is to enter it with its targets.  *)
LEMMA DecisionTells ==
  ASSUME BackendInv, OneFlight, EnteringCalls, TargetsReady, AnswersInv, HeartbeatInv,
         cut = {}, NEW d \in Calls, Px4Decides(d)
  PROVE  HeartbeatInv'
<1>t. stream' = stream /\ at' = at
  BY DEF Px4Decides, backendVars
<1>m. mode' = "OFFBOARD" => mode = "OFFBOARD" \/ d[2] = "offboard"
  <2>1. mode' \in ModesAfter(d) \cup {mode} /\ d \notin Others
    BY TransportAssumption DEF Px4Decides
  <2>2. QED
    BY <2>1, CallNames DEF ModesAfter
<1>1. CASE d[2] # "offboard"
  BY <1>1, <1>t, <1>m DEF HeartbeatInv
<1>2. CASE d[2] = "offboard"
  <2>1. PICK g \in Offboard : d = OffboardCall(g)
    BY <1>2, RequestNames
  <2>2. at[g] = "entering" /\ g \in Flights
    BY <2>1, DecidedWaits DEF EnteringCalls, InFlight, Offboard, AnswersInv
  <2>3. stream # None
    BY <2>2 DEF TargetsReady, ToEnter
  <2>4. \A f \in Flights : at[f] \notin {"warming", "warmed"}
    BY <2>2 DEF OneFlight
  <2>5. QED
    BY <1>t, <2>3, <2>4 DEF HeartbeatInv
<1>3. QED
  BY <1>1, <1>2

LEMMA HeartbeatKept ==
  ASSUME BackendInv, BackendInv', OneFlight, EnteringCalls, TargetsReady, AnswersInv, HeartbeatInv,
         [BackendNext]_allVars, Undisturbed, Undisturbed'
  PROVE  HeartbeatInv'
<1>1. ASSUME NEW d \in Calls, Px4Decides(d) PROVE HeartbeatInv'
  BY <1>1, DecisionTells DEF Undisturbed
<1>2. CASE mode' \in {mode, "other"}
  <2>1. mode' = "OFFBOARD" => stream' # None
    BY <1>2, StreamKept DEF BackendInv
  <2>2. \A f \in Flights : at'[f] \in {"warming", "warmed"} => mode' # "OFFBOARD"
    BY <1>2, WarmUpKept
  <2>3. QED
    BY <2>1, <2>2 DEF HeartbeatInv
<1>3. QED
  BY <1>1, <1>2, OnlyPx4Decides, ForeignDecision DEF Commands

-----------------------------------------------------------------------------
LEMMA InitQuiet == BackendInit => QuietInv
<1> SUFFICES ASSUME BackendInit PROVE QuietInv
  OBVIOUS
<1>1. OneFlight /\ TargetsReady
  BY DEF BackendInit, OneFlight, TargetsReady, ToEnter, Offboard
<1>2. EnteringCalls
  BY BackendConstants DEF BackendInit, Init, EnteringCalls, InFlight
<1>3. AnswersInv /\ HeartbeatInv
  BY TransportAssumption DEF BackendInit, Init, AnswersInv, HeartbeatInv, PublishedWaits, VerdictsTell, Commands
<1>4. QED
  BY <1>1, <1>2, <1>3 DEF QuietInv

LEMMA NextQuiet == BackendInv /\ BackendInv' /\ QuietInv /\ [BackendNext]_allVars => QuietInv'
<1> SUFFICES ASSUME BackendInv, BackendInv', QuietInv, [BackendNext]_allVars PROVE QuietInv'
  OBVIOUS
<1>q. [Next]_vars /\ (Quiet' => Quiet)
  BY NextBackend, QuietBefore DEF BackendInv
<1>1. OneFlight' /\ TargetsReady'
  BY OneFlightKept, TargetsReadyKept DEF QuietInv, BackendInv
<1>2. EnteringCalls'
  BY EnteringKept DEF QuietInv
<1>3. ASSUME Quiet' PROVE AnswersInv'
  BY <1>q, <1>3, AnswersKept DEF QuietInv
<1>4. ASSUME Undisturbed' PROVE HeartbeatInv'
  <2>1. Undisturbed /\ Quiet
    BY <1>q, <1>4, CutGrows DEF Undisturbed
  <2>2. QED
    BY <1>4, <2>1, HeartbeatKept DEF QuietInv
<1>5. QED
  BY <1>1, <1>2, <1>3, <1>4 DEF QuietInv

LEMMA QuietInvariant == BackendSpec => []QuietInv
<1>1. BackendInv /\ [BackendNext]_allVars => BackendInv'
  BY NextBackend
<1>2. QED
  BY <1>1, InitQuiet, NextQuiet, BackendInvariant, PTL DEF BackendSpec

(* _execute_offboard() starts the target stream before it requests         *)
(* Offboard, and its paths out of it stop the stream only when PX4 has     *)
(* left Offboard or refused it.  So PX4 never flies Offboard without       *)
(* targets, as long as no call is abandoned or returns with another        *)
(* client's answer, and no handover and no used-up budget stops the        *)
(* targets of a flight that is to enter Offboard with them.                *)
THEOREM TargetsWhileOffboard == BackendSpec => []HeartbeatWhileOffboard
<1>1. QuietInv => HeartbeatWhileOffboard
  BY DEF QuietInv, HeartbeatInv, HeartbeatWhileOffboard
<1>2. QED
  BY <1>1, QuietInvariant, PTL

(* "Enter Auto Loiter before stopping an active Offboard target stream":   *)
(* what _handover_from_offboard() states of itself holds of every handover *)
(* taken for accepted, as long as no call was abandoned to a time-out or a *)
(* cancellation, whose late ACK could be taken for the handover's, and     *)
(* none returned with the answer to another client's command.              *)
THEOREM HandoversLeaveOffboard ==
  BackendSpec =>
    [][Quiet' => \A c \in Calls :
         /\ c[2] \in {"cancel", "timeout"}
         /\ pc[c] = "waiting" /\ result'[c] = "ACCEPTED"
         => mode # "OFFBOARD"]_allVars
<1>1. ASSUME BackendInv, BackendInv', QuietInv, [BackendNext]_allVars, Quiet', NEW c \in Calls,
             c[2] \in {"cancel", "timeout"}, pc[c] = "waiting", result'[c] = "ACCEPTED"
      PROVE  mode # "OFFBOARD"
  <2>1. AdapterInv /\ AckInv /\ AckInv' /\ TypeOK /\ [Next]_vars
    BY <1>1, NextBackend DEF BackendInv, AdapterInv
  <2>2. AnswersInv
    BY <1>1, <2>1, QuietBefore DEF QuietInv
  <2>3. result[c] = "none"
    BY <1>1, <2>1 DEF AckInv, CallsSettled
  <2>4. CallStep(c)
    <3>1. PICK d \in Calls : CallStep(d)
      BY <1>1, <2>1, <2>3, OnlyCallsMove
    <3>2. QED
      BY <1>1, <2>1, <2>3, <3>1, OneCallMoves
  <2>5. Answered(c)
    BY <1>1, <2>4 DEF CallStep, Answered, Submit, SubmitRefused, SubmitAtOnce, SubmitQueued, Acquire
  <2>6. Verdict(c, "ACCEPTED")
    BY <1>1, <2>1, <2>5, QuietAnswer
  <2>7. QED
    BY <1>1, <2>2, <2>6 DEF AnswersInv, VerdictsTell, LeavesOffboard
<1>2. BackendInv /\ BackendInv' /\ QuietInv /\ [BackendNext]_allVars =>
        [Quiet' => \A c \in Calls :
           /\ c[2] \in {"cancel", "timeout"}
           /\ pc[c] = "waiting" /\ result'[c] = "ACCEPTED"
           => mode # "OFFBOARD"]_allVars
  BY <1>1
<1>3. QED
  BY <1>2, BackendInvariant, QuietInvariant, PTL DEF BackendSpec
=============================================================================
