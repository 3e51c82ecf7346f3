----------------------------- MODULE SafetyGate -----------------------------
(***************************************************************************)
(* The path of an action request through FlightAtomicActionServer,         *)
(* SafetyExecutionGate and SafetySupervisor to the flight backend.         *)
(*                                                                         *)
(* Requests are served one at a time (one mutually exclusive callback      *)
(* group), while other threads replace the latest WorldState, change who   *)
(* holds control, and time passes.  The trace file survives a crash.       *)
(***************************************************************************)
EXTENDS SafetyChecks, Sequences

CONSTANTS
  Requests,      \* the requests clients may send
  Bodies,        \* the vehicle states a snapshot may carry
  Authorities,   \* what the authority reader may return
  SpeedReadings, \* what reading MPC_XY_VEL_MAX may return
  Limits,        \* the MissionConstraints the server was started with
  MaxServed,     \* bound: requests served
  MaxTime,       \* bound: the clock
  MaxSnapshots,  \* bound: WorldState snapshots
  MaxCrashes,    \* bound: process crashes
  None

Proposals == 1..MaxServed
FinalStatuses == {"SUCCEEDED", "FAILED", "TIMED_OUT", "CANCELLED", "REJECTED_BY_PX4"}
Verdicts == {"APPROVE", "REJECT"}

Replies == {"success", "failure", "INVALID_INPUT", "SERVICE_ERROR", "lost"}

ASSUME GateAssumption ==
  /\ MaxServed \in Nat /\ MaxTime \in Nat /\ MaxSnapshots \in Nat /\ MaxCrashes \in Nat
  /\ None \notin Replies \cup Verdicts \cup FinalStatuses
  /\ SpeedReadings \subseteq Int \cup {Unknown}

(* Where the code computes with a number, it is one. *)
Point(x) == x.north \in Int /\ x.east \in Int
BodyFields == {"id", "received", "ageAtSnapshot", "landed", "mode", "positionValid",
               "position", "homeNed"}

ASSUME DataAssumption ==
  /\ \A r \in Requests : r.skill = "goto" => Point(r.target)
  /\ \A b \in Bodies :
       /\ BodyFields \subseteq DOMAIN b
       /\ b.landed \in BOOLEAN \cup {Unknown}
       /\ b.position = Unknown \/ Point(b.position)
       /\ b.homeNed = Unknown \/ Point(b.homeNed)
  /\ Limits.maxAge \in Nat /\ Limits.maxSpeed \in Nat /\ Limits.maxRadius \in Nat
  /\ \A field \in {"northMin", "northMax", "eastMin", "eastMax", "margin"} :
       Limits.fence[field] \in Int

VARIABLES
  now,          \* the wall clock
  latest,       \* the WorldState read_world_state() returns, or None
  snapshots,    \* snapshots published so far
  authority,    \* what the authority reader returns
  served,       \* requests taken from the service queue so far
  request,      \* the request being served
  pc,           \* where its handler is
  basedOn,      \* proposal.based_on_state_id
  checked,      \* the WorldState the gate read
  decision,     \* the supervisor's decision on it
  status,       \* what the backend returned
  trace,        \* the JSONL trace
  crashes,
  dispatches,   \* history: commands given to the backend, per proposal
  evidence,     \* history: what each decision rested on, per proposal
  replies       \* history: the response to each request

environmentVars == <<now, latest, snapshots, authority>>
handlerVars == <<request, pc, basedOn, checked, decision, status>>
historyVars == <<dispatches, evidence, replies>>
vars == <<environmentVars, served, handlerVars, trace, crashes, historyVars>>

Current == served   \* the proposal being served: its id is fresh per request

Entries == [proposal : Proposals, kind : Verdicts \cup FinalStatuses \cup {"ERROR"}]
Record(kind) == trace' = Append(trace, [proposal |-> Current, kind |-> kind])
Recorded(p, kind) == \E i \in DOMAIN trace : trace[i] = [proposal |-> p, kind |-> kind]

Stages == {"idle", "received", "proposed", "readingLimit", "decided",
           "approved", "executing", "returned", "raised"}

(* The snapshots there may be, and what an approval may rest on. *)
Snapshot(b, i, t, age) == [b EXCEPT !.id = i, !.received = t, !.ageAtSnapshot = age]
States == {Snapshot(b, i, t, age) :
             b \in Bodies, i \in 1..MaxSnapshots, t \in (-1)..MaxTime, age \in 0..1}
Evidence == [request : Requests, state : States, basedOn : 1..MaxSnapshots,
             limit : SpeedReadings, decidedAt : 0..MaxTime]

HandlerTypes ==
  /\ now \in 0..MaxTime
  /\ snapshots \in 0..MaxSnapshots
  /\ served \in 0..MaxServed
  /\ authority \in Authorities
  /\ request \in Requests \cup {None}
  /\ pc \in Stages
  /\ decision \in Verdicts \cup {None}
  /\ status \in FinalStatuses \cup {None}
  /\ trace \in Seq(Entries)
  /\ crashes \in 0..MaxCrashes
  /\ dispatches \in [Proposals -> Nat]
  /\ replies \in [Proposals -> Replies \cup {None}]

EvidenceTypes ==
  /\ latest \in States \cup {None}
  /\ checked \in States \cup {None}
  /\ basedOn \in (1..MaxSnapshots) \cup {None}
  /\ evidence \in [Proposals -> Evidence \cup {None}]

TypeOK == HandlerTypes /\ EvidenceTypes

Init ==
  /\ now = 0
  /\ latest = None
  /\ snapshots = 0
  /\ authority \in Authorities
  /\ served = 0
  /\ request = None
  /\ pc = "idle"
  /\ basedOn = None
  /\ checked = None
  /\ decision = None
  /\ status = None
  /\ trace = <<>>
  /\ crashes = 0
  /\ dispatches = [p \in Proposals |-> 0]
  /\ evidence = [p \in Proposals |-> None]
  /\ replies = [p \in Proposals |-> None]

-----------------------------------------------------------------------------
(* The other threads. *)
Tick ==
  /\ now < MaxTime
  /\ now' = now + 1
  /\ UNCHANGED <<latest, snapshots, authority, served, handlerVars, trace, crashes, historyVars>>

(* A snapshot is made from samples received now or a little earlier. *)
PublishSnapshot ==
  /\ snapshots < MaxSnapshots
  /\ snapshots' = snapshots + 1
  /\ \E b \in Bodies, age \in 0..1 :
       latest' = Snapshot(b, snapshots + 1, now - age, age)
  /\ UNCHANGED <<now, authority, served, handlerVars, trace, crashes, historyVars>>

ChangeAuthority ==
  /\ authority' \in Authorities \ {authority}
  /\ UNCHANGED <<now, latest, snapshots, served, handlerVars, trace, crashes, historyVars>>

-----------------------------------------------------------------------------
(* Handler steps leave the environment alone. *)
Go(stage) == pc' = stage /\ UNCHANGED <<environmentVars, served, request, crashes>>

(* _handle_action() returns its response; the request is done with. *)
Reply(r) ==
  /\ replies' = [replies EXCEPT ![Current] = r]
  /\ pc' = "idle"
  /\ request' = None /\ basedOn' = None /\ checked' = None
  /\ decision' = None /\ status' = None
  /\ UNCHANGED <<environmentVars, served, crashes>>

(* A request whose input is not an object, or a hold without a positive    *)
(* finite duration, is answered at once; any other becomes a proposal.     *)
Receive ==
  /\ pc = "idle"
  /\ served < MaxServed
  /\ served' = served + 1
  /\ \E r \in Requests :
       IF r.validInput
         THEN /\ request' = r
              /\ pc' = "received"
              /\ UNCHANGED replies
         ELSE /\ replies' = [replies EXCEPT ![served + 1] = "INVALID_INPUT"]
              /\ UNCHANGED <<request, pc>>
  /\ UNCHANGED <<environmentVars, basedOn, checked, decision, status, trace, crashes,
                 dispatches, evidence>>

(* _submit_action() reads the state the proposal is based on ... *)
ReadForProposal ==
  /\ pc = "received" /\ latest # None
  /\ basedOn' = latest.id
  /\ Go("proposed")
  /\ UNCHANGED <<checked, decision, status, trace, historyVars>>

(* Mutant: the handler waits for a first snapshot instead of failing. *)
StateUnavailableWaits ==
  /\ pc = "received" /\ latest = None
  /\ UNCHANGED vars

StateUnavailable ==
  /\ pc = "received" /\ latest = None
  /\ Reply("SERVICE_ERROR")
  /\ UNCHANGED <<trace, dispatches, evidence>>

(* ... and the gate reads it again, with the authority; evaluate() runs to *)
(* its first suspension.  Only a proposal nothing speaks against makes it  *)
(* read PX4's speed limit, which may take seconds.                         *)
ReadForGate ==
  /\ pc = "proposed"
  /\ checked' = latest
  /\ IF EarlyReasons(request, basedOn, latest, Limits, authority, now) = {}
       THEN Go("readingLimit") /\ UNCHANGED decision
       ELSE Go("decided") /\ decision' = "REJECT"
  /\ UNCHANGED <<basedOn, status, trace, historyVars>>

(* Mutant: the state's freshness is not checked again after the read. *)
LateReasonsNone(limit) == SpeedReasons(limit, Limits)

LateReasons(limit) ==
  SpeedReasons(limit, Limits) \cup StateReasons(basedOn, Limits, checked, now)

ReadLimit ==
  /\ pc = "readingLimit"
  /\ \E limit \in SpeedReadings :
       IF LateReasons(limit) = {}
         THEN /\ decision' = "APPROVE"
              /\ evidence' = [evidence EXCEPT ![Current] =
                   [request |-> request, state |-> checked, basedOn |-> basedOn,
                    limit |-> limit, decidedAt |-> now]]
         ELSE decision' = "REJECT" /\ UNCHANGED evidence
  /\ Go("decided")
  /\ UNCHANGED <<basedOn, checked, status, trace, dispatches, replies>>

(* Px4ParameterReadError: SYSTEM_UNHEALTHY. *)
LimitUnavailable ==
  /\ pc = "readingLimit"
  /\ decision' = "REJECT"
  /\ Go("decided")
  /\ UNCHANGED <<basedOn, checked, status, trace, historyVars>>

(* Any other exception of the read ends the request. *)
LimitReadRaises ==
  /\ pc = "readingLimit"
  /\ Reply("SERVICE_ERROR")
  /\ UNCHANGED <<trace, dispatches, evidence>>

(* record_safety_decision(), then return the rejection or go on. *)
RecordRejection ==
  /\ pc = "decided" /\ decision = "REJECT"
  /\ Record("REJECT")
  /\ Reply("failure")
  /\ UNCHANGED <<dispatches, evidence>>

RecordApproval ==
  /\ pc = "decided" /\ decision = "APPROVE"
  /\ Record("APPROVE")
  /\ Go("approved")
  /\ UNCHANGED <<basedOn, checked, decision, status, historyVars>>

(* Mutant: a decision that cannot be traced is dispatched all the same. *)
DecisionTraceFailsOpen ==
  /\ pc = "decided"
  /\ IF decision = "APPROVE"
       THEN Go("approved") /\ UNCHANGED <<basedOn, checked, decision, status, historyVars>>
       ELSE Reply("SERVICE_ERROR") /\ UNCHANGED <<dispatches, evidence>>
  /\ UNCHANGED trace

DecisionTraceFails ==
  /\ pc = "decided"
  /\ Reply("SERVICE_ERROR")
  /\ UNCHANGED <<trace, dispatches, evidence>>

(* Create the ApprovedSkillCommand and give it to backend.execute(). *)
Dispatch ==
  /\ pc = "approved"
  /\ dispatches' = [dispatches EXCEPT ![Current] = @ + 1]
  /\ Go("executing")
  /\ UNCHANGED <<basedOn, checked, decision, status, trace, evidence, replies>>

BackendReturns ==
  /\ pc = "executing"
  /\ status' \in FinalStatuses
  /\ Go("returned")
  /\ UNCHANGED <<basedOn, checked, decision, trace, historyVars>>

BackendRaises ==
  /\ pc = "executing"
  /\ Go("raised")
  /\ UNCHANGED <<basedOn, checked, decision, status, trace, historyVars>>

(* Mutant: the response carries the backend's status. *)
RecordResultRaw ==
  /\ pc = "returned"
  /\ Record(status)
  /\ Reply(status)
  /\ UNCHANGED <<dispatches, evidence>>

RecordResult ==
  /\ pc = "returned"
  /\ Record(status)
  /\ Reply(IF status = "SUCCEEDED" THEN "success" ELSE "failure")
  /\ UNCHANGED <<dispatches, evidence>>

(* Mutant: a result that cannot be traced sends the command again. *)
ResultTraceFailsRetry ==
  /\ pc = "returned"
  /\ Go("approved")
  /\ UNCHANGED <<basedOn, checked, decision, status, trace, historyVars>>

(* Mutant: a result that cannot be traced is reported all the same. *)
ResultTraceFailsQuietly ==
  /\ pc = "returned"
  /\ Reply(IF status = "SUCCEEDED" THEN "success" ELSE "failure")
  /\ UNCHANGED <<trace, dispatches, evidence>>

(* The action may have been executed: a RuntimeError, and no retry. *)
ResultTraceFails ==
  /\ pc = "returned"
  /\ Reply("SERVICE_ERROR")
  /\ UNCHANGED <<trace, dispatches, evidence>>

(* Mutant: after tracing the backend's exception a failed result follows. *)
RecordErrorFallsThrough ==
  /\ pc = "raised"
  /\ Record("ERROR")
  /\ status' = "FAILED"
  /\ Go("returned")
  /\ UNCHANGED <<basedOn, checked, decision, historyVars>>

(* The backend's own exception is traced if possible and raised again. *)
RecordError ==
  /\ pc = "raised"
  /\ Record("ERROR")
  /\ Reply("SERVICE_ERROR")
  /\ UNCHANGED <<dispatches, evidence>>

ErrorTraceFails ==
  /\ pc = "raised"
  /\ Reply("SERVICE_ERROR")
  /\ UNCHANGED <<trace, dispatches, evidence>>

-----------------------------------------------------------------------------
(* The process dies and is started again: only the trace file is left. *)
Crash ==
  /\ crashes < MaxCrashes
  /\ crashes' = crashes + 1
  /\ latest' = None
  /\ pc' = "idle"
  /\ request' = None /\ basedOn' = None /\ checked' = None
  /\ decision' = None /\ status' = None
  /\ replies' = IF pc = "idle" THEN replies ELSE [replies EXCEPT ![Current] = "lost"]
  /\ UNCHANGED <<now, snapshots, authority, served, trace, dispatches, evidence>>

Environment == Tick \/ PublishSnapshot \/ ChangeAuthority \/ Crash

Decide == \/ ReadForProposal \/ StateUnavailable \/ ReadForGate
          \/ ReadLimit \/ LimitUnavailable \/ LimitReadRaises
          \/ RecordRejection \/ RecordApproval \/ DecisionTraceFails

Execute == \/ Dispatch \/ BackendReturns \/ BackendRaises
           \/ RecordResult \/ ResultTraceFails \/ RecordError \/ ErrorTraceFails

Next == Environment \/ Receive \/ Decide \/ Execute

(* A handler that can run does: its thread is scheduled, the speed-limit   *)
(* read has a time-out, and backend.execute() has a deadline.              *)
Spec == Init /\ [][Next]_vars
FairSpec == Spec /\ WF_vars(Decide) /\ WF_vars(Execute)

-----------------------------------------------------------------------------
(* A command reaches the backend only after its approval is in the trace   *)
(* file, so that a crash at any point leaves no untraced flight.           *)
DecisionWrittenAhead ==
  \A p \in Proposals : dispatches[p] > 0 => Recorded(p, "APPROVE")

(* No failure after the dispatch makes the command fly a second time. *)
DispatchedOnce == \A p \in Proposals : dispatches[p] <= 1

(* A command flies on evidence that is current when the decision is made,  *)
(* after the slow speed-limit read: the state the proposal was based on,   *)
(* younger than the limit, and a speed limit within the envelope.          *)
DispatchRestsOnCurrentEvidence ==
  \A p \in Proposals : dispatches[p] > 0 =>
    LET e == evidence[p] IN
      /\ e.basedOn = e.state.id
      /\ e.decidedAt - e.state.received <= Limits.maxAge
      /\ e.limit \in 1..Limits.maxSpeed

Span(x, y) == IF x <= y THEN x..y ELSE y..x

(* Every point of the rectangle spanned by two points, hence of the        *)
(* straight path between them, keeps the margin to the fence.              *)
RouteInside(a, b, fence) ==
  \A n \in Span(a.north, b.north), e \in Span(a.east, b.east) :
    /\ n - fence.northMin >= fence.margin /\ fence.northMax - n >= fence.margin
    /\ e - fence.eastMin >= fence.margin /\ fence.eastMax - e >= fence.margin

(* contracts/safety_contract.md:110: a command flies only from a lifecycle *)
(* phase its skill may start in, never into an automatic transition.       *)
FlightFitsPhase ==
  \A p \in Proposals : dispatches[p] > 0 =>
    LET r == evidence[p].request
        s == evidence[p].state IN
      /\ r.skill \in Limits.allowed
      /\ s.mode \notin TransitionModes
      /\ s.landed = (r.skill = "takeoff")

(* contracts/safety_contract.md:118-127: a Goto flies only along a path    *)
(* inside the fence and to a target within the radius of the local Home.   *)
GotoStaysInside ==
  \A p \in Proposals :
    dispatches[p] > 0 /\ evidence[p].request.skill = "goto" =>
      LET r == evidence[p].request
          s == evidence[p].state IN
        /\ s.positionValid
        /\ RouteInside(s.position, r.target, Limits.fence)
        /\ SquaredDistance(r.target, s.homeNed) <= Limits.maxRadius * Limits.maxRadius

(* A client that reads success can find approval and success in the trace; *)
(* failure says the same of a rejection or of an unsuccessful execution.   *)
RepliesMatchTrace ==
  \A p \in Proposals :
    /\ replies[p] = "success" => Recorded(p, "APPROVE") /\ Recorded(p, "SUCCEEDED")
    /\ replies[p] = "failure" =>
         \/ Recorded(p, "REJECT") /\ dispatches[p] = 0
         \/ Recorded(p, "APPROVE") /\ \E k \in FinalStatuses \ {"SUCCEEDED"} : Recorded(p, k)

(* In the trace the entries of a proposal are one verdict, then, if it was *)
(* approved and flown, at most one outcome.                                *)
TraceWellFormed ==
  \A i, j \in DOMAIN trace : i < j /\ trace[i].proposal = trace[j].proposal =>
    /\ trace[i].kind = "APPROVE"
    /\ trace[j].kind \notin Verdicts
    /\ dispatches[trace[i].proposal] > 0

(* The gate implements the abstract promise: a proposal's stage is read    *)
(* off the trace, the dispatches and the handler.                          *)
StageOf(p) ==
  IF dispatches[p] > 0
    THEN IF pc = "executing" /\ p = Current THEN "flying" ELSE "over"
  ELSE IF Recorded(p, "APPROVE")
    THEN IF pc = "approved" /\ p = Current THEN "approved" ELSE "dropped"
  ELSE IF Recorded(p, "REJECT") THEN "refused" ELSE "open"

Promise == INSTANCE GatedExecution WITH stage <- [p \in Proposals |-> StageOf(p)]

KeepsPromise == Promise!Spec

(* Every request that enters the handler is answered. *)
EveryRequestAnswered == pc # "idle" ~> pc = "idle"
=============================================================================
