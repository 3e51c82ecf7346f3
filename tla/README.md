# Formal model of the flight agent

The repository lets an LLM agent fly a PX4 vehicle through a small set of
skills (takeoff, goto, hold, rtl, land). This directory holds TLA+ models of
its flight path: the safety gate that decides whether a request may fly, the
backend that flies it, the transport of commands to PX4, the agents and
the sequence executor in front of them, what the program knows of the vehicle,
and the trace it leaves. TLC checks them on small instances; TLAPS proves nearly
all of their safety properties for every instance. Paths below are relative to the repository;
`adapters/` is `ros2_ws/src/flight_agent_ros/flight_agent_ros/adapters/` and
`safety/` is `src/flight_agent/components/safety/`.

## The system

```
agent_comm (LLM loop) -> behavior_executor -> flight_atomic_action_server
   -> SafetyExecutionGate -> SafetySupervisor + TraceRecorder
   -> Px4Ros2FlightExecutionBackend -> Px4CommandPlanExecutor
                                    -> Px4OffboardSetpointAdapter
   -> Px4VehicleCommandAdapter -> PX4        PX4 -> Px4WorldStateAdapter
```

| component | state it keeps | operations | what makes it correct |
|---|---|---|---|
| `adapters/px4_vehicle_command_adapter.py` | bound event loop, submission lock, active calls, the pending command | `submit_and_wait`, `cancel`, ACK callback | one command in flight, every call returns, an outcome belongs to its command |
| `adapters/flight_execution_backend.py`, plan executor and mapper, Offboard stream | registers of active, Offboard and cancelled executions; the active target | `execute`, `cancel`, handover to Auto Loiter | registers exact, cancelled flights never succeed, no Offboard mode without a target stream, every flight ends |
| `safety/supervisor.py` and the checks | none; reads state, limits, authority, speed limit | `evaluate` | decisions rest on current evidence, flights fit phase and fence |
| `safety/execution_gate.py` | none of its own; the trace file | `submit` | nothing flies unapproved or untraced, nothing flies twice |
| `flight_atomic_action_server.py` | the request in progress | five services, served one at a time | every request is answered, truthfully |
| trace recorder and replay | an append-only JSONL file | append, read back | survives failures and crashes in an order that can be read |
| world-state adapter and aggregator | latest samples and snapshot | topic callbacks, 10 Hz snapshot | freshness is not overstated |
| human approval | one state machine per request | submit, transition | one decision, never after the deadline |
| behaviour executor | the running sequence | `execute_behavior` | stops at the first failure, its answer is true, its threads come free again |
| agent loop, observation manager | last observation | observe, ask, execute | plans from an observation made after the last behaviour, never while one runs |
| `m3_scripted_flight.py` | the step it is at | wait until ready, four skills in a row | launches on fresh state, a success has really happened, it ends |
| parameter adapter | none | read the speed limit over MAVLink | a late or foreign answer is not used |
| mock backend, registry, configuration, contracts, benchmarks, manifests, scripts, vendored ROS packages | see `PROJECT.json` | | |

How they interact: the server runs one `asyncio.run()` per request, so each
request has an event loop of its own, while one command adapter serves them
all. ACKs, world-state snapshots and the target stream live on other threads
of a `MultiThreadedExecutor`. What is hard in this code is listed in
`PROJECT.json` under `hazards`: ACKs without an identity on a best-effort
topic, cancellation racing with answers and time-outs, a stream shared by
successive flights, state that ages while a decision is being made, threads
that block in calls whose replies need a thread, and failures or crashes between deciding, flying and recording.

## The modules

| module | models |
|---|---|
| `CommandTransport` | `px4_vehicle_command_adapter.py`, with PX4 and its topics as the environment |
| `FlightBackend` (extends `CommandTransport`) | the backend, the command plans and the target stream on top of the transport |
| `SafetyChecks` | the checks of `safety/`, as operators that return sets of reason codes |
| `SafetyGate` (extends `SafetyChecks`) | server handler, gate, supervisor and trace of one request after the other |
| `GatedExecution` | what the gate promises of each proposal, as six stages; `SafetyGate` refines it |
| `FlightService` | what the backend promises of each flight: four stages and one result; `FlightBackend` refines it |
| `BehaviorExecution` | the agents' main loop, the sequence executor's thread pool and the flight server's queue |
| `WorldStateFeed` | the aggregator and its adapter: what each topic reports, when, and how old it is |
| `ScriptedFlight` (extends `WorldStateFeed`) | `m3_scripted_flight.py` and the completion rules of the backend, on that feed |
| `TraceFile` | recorder and replay: a JSONL file several writers append to |
| `StateTrace` (extends `TraceFile`) | the world-state adapter and the gate on one trace file, with restarts |
| `HumanApproval` | the approval registry and its state machines, with their proofs |
| `CommandTransportProofs`, `FlightBackendProofs`, `FlightServiceProofs`, `SafetyGateProofs`, `BehaviorExecutionProofs`, `StateTraceProofs`, `ScriptedFlightProofs` | the proofs |
| `MC*` | the instances TLC checks |

**CommandTransport.** Variables have the names of the adapter's fields
(`boundLoop` is `_bound_loop`, `lock` is `_submission_lock` with its FIFO,
`pending`, `outcome` and so on). One action is one stretch of a coroutine
between two awaits. `SubmitRefused`, `SubmitAtOnce` and `SubmitQueued` are the
three ways into `submit_and_wait()`; `Wake` and `TimeOut` are its ways out, both
through `ReturnWith`, which stands for the two `finally` clauses and the lock's
release. `TimeOut` may discard an outcome already set, as `asyncio.wait_for`
does in Python 3.12. An ACK takes three steps: PX4 sends it (`wire`, unordered,
since the topic is best effort), the ROS thread schedules it on the bound loop
(`HandleAck`), and the loop runs it (`ResolveAck`). The topic of the ACKs is PX4's
for all its clients, and the adapter looks at the command id alone
(`px4_vehicle_command_adapter.py:196-222`; the ACK's target fields are not read), so `Others`
are the commands of other clients, a ground station say, whose ACKs reach the adapter in the same way.
An IN_PROGRESS ACK (`Px4Progress`, for the commands in `Reporting`) is handled and changes nothing, as the
code returns on it without touching the wait. A lost ACK is one that is
never handled; ACKs published twice are not modelled.

**FlightBackend.** `at` is the place of each `execute()`, `cancelAt` that of
each `cancel()`. All tasks share one loop: `running` names the task that has been
resumed and has not reached its next await, and until it does no other task or
callback of the loop runs, while PX4, the ROS thread and the snapshots go on.
Commands are tuples `<<flight, step, k>>`; `CommandId` maps both mode requests
to the same PX4 command, which is what makes their ACKs interchangeable.
`mode` is PX4's flight mode, `seen` that of the latest snapshot. PX4 accepts Offboard
while the targets it got are `recent`, which outlasts the stream until `TargetsLapse`, and then falls back
from Offboard; so a request that was queued while the stream ran may be accepted after it was stopped. Other
clients may have PX4 change its mode, but are taken never to ask for Offboard, since the stream is the agent's. The completion
test is left to the vehicle: a flight may be complete at any poll, but a Goto
or Hold only while the vehicle is seen in Offboard mode. `ServesFlights` maps places and registers to the
stages of `FlightService`: waiting, flying, stopping once `cancel()` has marked the flight, over. Flights are executed
one after the other, as the server does; `cancel()` comes from other tasks of
the same loop, as in the backend's tests and the scripted flight.

**SafetyGate.** `pc` is the place of the handler between its awaits and writes;
`checked` and `basedOn` are the two separate reads of the world state. Snapshots,
the clock and the authority change at any step. Every write of the trace may
fail, the speed-limit read may fail in the expected and in an unexpected way,
the backend may return any status or raise. `Crash` keeps the trace and
loses the rest. `TypeOK` covers every variable: `States` are the snapshots there can be,
`Evidence` what an approval can rest on. `dispatches`, `evidence` and `replies` are history variables. A
request is well formed or not, its numbers are integers; `Unknown` stands for
None and for numbers that are not finite. HUMAN_APPROVAL is not a verdict
because `evaluate()` never returns it.

**BehaviorExecution.** `agentAt` is the place of each agent's main loop
(`ros_agent_srv.py`), `place` that of each `execute_behavior()`
(`sequence_executor.py`): waiting for a thread (`queued`), in
`wait_for_service()` (`finding`), in `client.call()` (`calling`). A behaviour holds
its thread in the last two, and `Deliver` needs another one, as the client's
response callback does. `fate` follows each action through the flight server,
whose five services share one mutually exclusive group: `Fly` takes any queued
request, since the order between services is the executor's choice. A reply counts
only for the call it answers. Time is discrete (`left`, `patience`, `air`);
`Tick` waits for everything that can happen at once, so scheduling and network
delays are taken to be small against the seconds of the time-outs. What an action
does is abstracted to at most `FlightTime` and a good or bad end; that
`FlightTime < Timeout` is the code's own budget (RTL's 120 s and 3 s for the
speed limit against 150 s). A crash of the flight server loses its requests.
`info` keeps apart a success, a time-out and every other failure: an invalid text, a missing server, a failed action and a
`client.call()` that raises (`CallRaises`, which may be at sending or at taking the reply) all end the behaviour as failed, though with different
codes. Several agents are
several `ros_agent_srv` processes; the deployed system starts one.

**WorldStateFeed.** `vehicle` is the vehicle itself, `heard` the aggregator's
fields and `latest` the published WorldState. Each topic reports its own part of the
vehicle's state at a moment of its own (`Hear`), so `latest` may combine facts that
never held together. A message that is never sent, or lost, is a `Hear` that does
not happen; a stalled timer is a `TakeSnapshot` that does not. `age` is what the wall
clock says of a topic's last sample and `really` what a steady clock would;
`ClockSetBack` makes them differ. `recorded` is the age a snapshot had when it was made,
as `WorldState.age_ms()` takes the larger of that and of what the clock says now.

**ScriptedFlight.** `place` is where the script is: waiting for a ready vehicle
without and then with Home, or in a skill (`start`, `warming` up the target stream,
`sending` its commands, `polling` for completion, in the `handover` after a
time-out). `Completed` is the test of one round of `_wait_for_completion()`,
`RoundGoesOn` what a round leaves behind (`rtl_started`, `hold_reached_at`). A command
is accepted, refused or times out, and PX4 may have executed one that timed out; that is
all that is left of the transport here. Positions are on the ground, aloft or at the
target. `StartsAloft` says whether the script may also find the vehicle armed and in the air: `_vehicle_is_ready()` asks only that
the landed flag is known (`m3_scripted_flight.py:192-206`). `been` and `steady` are history. Three reductions: ages are followed only
until the flight begins, since nothing reads them afterwards (`plans/M3.md:119` lists
that as open); the vehicle stays where it is until it is commanded;
and a deadline may pass at any round, since timeouts are configured.

**TraceFile** and **StateTrace.** A line of the file is the sequence of what was
written on it: a record, or `Torn`, the beginning of one whose write was cut
short, after which the next record continues the same line. `Stamp` takes
`recorded_at`, `Write` opens and appends, and between the two another writer may
append (`Overtakes`); there is no lock. `ReadUpTo`, `Found` and `AtOrBefore`
are the replay's iteration and its queries. In `StateTrace` the adapter numbers
a snapshot, publishes it (`latest`) and then records it, while the gate decides on published
snapshots; a failed write ends the adapter's timer and with it `spin()`. By default
the program gives the adapter, the gate and the agent files of their own
(`artifacts/world_state.jsonl`, `artifacts/flight_trace.jsonl`, one per agent run);
the shared file is what the recorder's and the replay's docstrings speak of and
what a user gets who names one path for all. With separate files `overtaken` does not occur
between them and the lookup across them is the user's.

**HumanApproval.** `machines` holds the submitted requests, `status` their state,
`results` what was returned, in order. The caller supplies the time of an event, so it may
go backwards from one event to the next. Calls that raise change nothing and are no actions.

## What is checked

| run | instance | shows |
|---|---|---|
| `TwoLoops` | 2 calls on one loop, a third on another and another client's command, all of one command id; per loop 1 ACK scheduled, 1 on the wire | `OneCommandInFlight`, `LifecycleAccounted`, `ForeignAckHasCause` |
| `Flow` | 2 requests, 1 body, clock, snapshots, 1 crash | write-ahead, single dispatch, current evidence, truthful replies, well-formed trace, refinement of `GatedExecution`, every request answered |
| `Policy` | 8 requests against 9 vehicle states | `FlightFitsPhase`, `GotoStaysInside` |
| `Goto` | a takeoff, then a goto cancelled at most once | registers, lock queue and plans exact; refinement of `FlightService`; flights, cancellations and calls end |
| `Modes` | a goto cancelled at most once, a second goto, a land, in this order | cancelled flights never succeed, targets in Offboard mode where nothing was abandoned or cut off, no targets while landing |
| `Pair` | 2 agents with 1 behaviour of up to 2 actions each, 2 threads, 1 crash of the flight server | order of actions, true outcomes (also where a call raises), no time-out of a lone behaviour, budget of the agent, every behaviour answered |
| `Crowd` | 3 agents with 1 behaviour of 1 action each, 2 threads, 1 crash | `OnlyTimeoutsLeaveActions`, also of behaviours whose agent gave up |
| `Trace` | 3 snapshots and 1 decision on one file, 1 restart, 1 reboot of PX4, wall clock 0..2 | what a replay shows: records hidden only by faults, right answers by time, decisions that find their WorldState |
| `Script` | the four skills, vehicle on the ground, wall clock set back once, 1 trouble, Hold of 2 rounds | fresh launch, Hold really held, successes really happened, the script ends |
| `CancelOverwritten`, `RepeatedCancel`, `LateAck` | as small as shows it | three statements of the documents that the code refutes |

Bounds and why they suffice. Two calls of one command id are what it takes to
mistake an ACK, and one command of another client is the other way to; two loops are what it takes to replace the lock; a third call lets one wait for the lock
while another loop asks for it. In `TwoLoops` the two calls of one loop are interchangeable
(`SYMMETRY OneLoopCalls`: safety only, nothing tells them apart), and `CONSTRAINT FewScheduled`
leaves at most `MaxScheduled` ACKs on a loop: an old and a new one can still follow each
other, one scheduled and one on the wire. `Reporting` names the one call PX4 reports as in progress. The backend's runs have
`Others = {}` and `Reporting = {}` to stay small; what is proved of the backend holds for any. The bound on ACKs on
the wire (`MaxUnread`) is 2 where an old and a new one are to overtake each other, and 1 in the
larger runs, where ACKs still overtake calls. `After` fixes which flights come before which, as
the server's serial group does. One cancelled goto gives a handover that may still be under
way when the next flight starts; a second goto of the same stream lets it end in the wrong flight,
and a land ends the stream. `Modes` leaves what is over and read by nothing out of its
states (`VIEW WithoutPast`): the outcome of a call that has returned, and of results, statuses and cut flights what the invariants
do not distinguish. Of the transport's history only `Quiet` reads a part, whether a call
took another client's answer, which is the same in all states of an instance without other clients.
In the gate two requests let one trace entry meet another's, one crash falls at
every point of a request, and the clock reaches beyond the age limit. The fence
is 9 by 9 with a margin of 1, with positions on, inside and outside its
boundary. Two behaviours fill the executor's two threads, a third waits for one;
`Timeout` 2 and `FlightTime` 1 let one flight end within a call but two in a row
reach its time-out, as 120 of 150 seconds do; two actions are what it takes to get
an order wrong. `Crowd` is symmetric in its agents and leaves `seenAt` and `disturbed` out of its states (`VIEW WithoutHistory`), which no
action and not its invariant reads; `Pair` is not reduced because it checks
liveness. Three snapshots put one before, one at and one after the WorldState of a decision; one restart
repeats their numbers, one reboot PX4's timestamps. In `Script` the age limit is 0 and ages
saturate two ticks above it, where a sample is stale whatever the clock still does;
`MaxTroubles` counts messages that report a failsafe or no fix or Home, and mode changes nobody
commanded; one of them can break any step. A Hold of 2 rounds can be interrupted between its first and
last. The bounds on snapshots, crashes, clocks and troubles are in guards; everything proved holds for any
value of them. All runs switch deadlock checking off: calls, flights, requests,
behaviours, snapshots and the script are finite, and when they are over nothing is left to do.

Fairness. `SafetyGate` assumes weak fairness of the handler's steps, in two
conjuncts (before and after the dispatch): its thread is scheduled, the
speed-limit read has a time-out (`px4_parameter_adapter.py:50`), and
`backend.execute()` has a deadline, which is what `EveryFlightEnds` shows of the
backend. `FlightBackend` assumes that the event loop resumes what is ready and
that its timers expire; nothing is assumed of PX4, of the network or of the
vehicle: completion (`PollCompleted`), ACKs and mode changes are not fair.
`BehaviorExecution` assumes that time passes, that threads are scheduled and that
flights end; neither the human, nor the LLM, nor a restart of the server is fair.
`ScriptedFlight` assumes weak fairness of the script's own steps (`Startup`, `Flying`): the loop
runs, deadlines pass, commands are answered or time out. Neither the vehicle, nor its messages, nor
the snapshots are fair: the script ends though nothing is ever heard. `StateTrace` states safety only.
`CommandTransport` alone assumes none; that its calls return is checked of the
backend (`EveryCallReturns`), whose loop drives them.

## What the code does differently from its documents

* `CancelOverwritten`: `cancel()` returned True, and still an ACK handled before
  the waiter resumes decides the command (`px4_vehicle_command_adapter.py:232`);
  `contracts/skill_contract.md:85` says it ends CANCELLED.
* `RepeatedCancel`: a second `cancel()` of the backend sends a second Auto Loiter
  command (`flight_execution_backend.py:147`); `contracts/skill_contract.md:84`
  excludes additional side effects.
* `LateAck`: the late ACK of an abandoned Offboard request passes for that of
  the handover, and the stream stops in Offboard mode
  (`flight_execution_backend.py:249`), against its docstring and `plans/M3.md:48`.

What holds in spite of this is stated with its conditions. An outcome is settled by an ACK meant for another
command (`ForeignAckHasCause`) only if that ACK answers another client's command of the same id, or a call
that had returned without its own answer; and at the root there is always an earlier call abandoned to a time-out or a
cancellation, or another client. `HeartbeatWhileOffboard`
says that PX4 is never in Offboard mode without its stream under two conditions:

* *Quiet*: no command was abandoned, and none returned with another client's answer. Without it `LateAck` is one
  counterexample; another is a cancellation during the Offboard request, after which `execute()` stops the stream
  before the handover is answered (`flight_execution_backend.py:214`).
* *Nothing cut*: no flight lost the targets it was to enter Offboard with. That happens with every
  command answered: the handover of a cancelled flight is accepted and stops the one stream
  (`flight_execution_backend.py:249`) while the next Goto's Offboard request is queued behind it; the request is then published with no stream
  behind it (`:207-214`), and PX4 may accept it on the targets it still counts as recent. It leaves Offboard when they lapse, and the
  Goto runs into its time-out. The guard at `:199-206` could in principle do the same, if a flight that found the stream active had
  used up its budget before its first await. `cut` marks these flights.

The trace is not shown to differ from a document, but two of its limits are built into the
properties, which hold only outside them. `recorded_at` is taken before the write and without a
lock, so appends that overlap, like a clock that steps back, make a replay stop with an error at the
second of them (`OnlyFaultsHideRecords`, `TimeQueryRight`). And a `state_id` is unique only as long
as not both PX4 and the process are restarted (`DecisionFindsItsState`): it is made of PX4's time since boot and
a number that starts again with the process. Freshness (`LaunchedFresh`) is understated by as much as the wall clock
is set back, and speaks of the four required topics; Home, which is not one of them, may be of any age.

## What is proved

Each proof module builds on one or two inductive invariants, with one lemma per action or group of actions, and short
theorems that draw the run's properties from it.

`CommandTransportProofs`, from `TransportAssumption` (finitely many calls, typed
constants): `TypeOK`, `OneCommandInFlight`, `QueueSound`,
`LifecycleAccounted` and `ForeignAckHasCause` are invariants for any calls, loops, command ids and other clients.
None of them is inductive alone. That the count of calls stays a natural number
needs its exactness; that a command in flight holds the lock survives a change of
loops only because the lock is replaced when no call is active, which
needs the exact count of active calls; the count goes down only for a call
that is inside, which needs the pending command; and a waiter that
takes the lock leaves the queue only if it is there once. So the inductive
invariant `AdapterInv` is the conjunction of the four, with one step per action.
`ForeignAcksHaveCauses` needs `AckInv` besides: each command is answered once, and its final ACK is in one place at a time, on the wire,
on a loop or taken (`AcksOnce`, `AcksSent`). An ACK of another of the adapter's calls can therefore settle the pending one only if its own
call is over and had not got it, so that call was abandoned or had itself been settled by mistake. The second part is carried along that chain: the call
settled by mistake before has a cause in turn, and its cause is one of the new mistake as well.

`FlightBackendProofs`, from the assumptions of `FlightBackend`, for any flights, skills, orders and numbers of cancellations.
`BackendUsesAdapter` shows that the backend's steps are steps of the transport, so the
invariants above hold of it. `RegistersMatchFlights`, `CancelledNeverSucceeds`, `NoTargetsWhileLanding` and `PlanInOrder` then
follow from what each place of `execute()` implies for registers, stream, calls and results: a plan's command is published only
from the place that follows the acceptance of the one before, a cancellation marks a flight before
any later poll, and a PX4-mode flight begins to poll only after the stream was stopped.

`FlightServiceProofs` goes on from there. `BackendServes` is the refinement of `FlightService`: each step of `execute()` or `cancel()` is one
move of one flight or none. It needs `CancelsAsked`: the local wait of a command is ended only by a
cancellation of its own flight, so CANCELLED is reported only of flights that were marked; an ACK that overwrites the outcome
can turn CANCELLED into REJECTED_BY_PX4 but nothing into a success.

`TargetsWhileOffboard` (`HeartbeatWhileOffboard`) rests on `QuietInv`, whose parts need fewer or more of the conditions above.
`TargetsReady` needs only the second: while nothing was cut and a flight is on its way into Offboard, the stream is active. `AnswersInv` needs *Quiet*: then no
outcome was settled by a foreign ACK (`ForeignAcksHaveCauses`), so a verdict the adapter has of a command, on the wire, scheduled on the loop
or taken, is PX4's own answer to it, and it tells of PX4's mode: a command
that leaves Offboard and was accepted has left it, and PX4 stays out of it as long as that call waits, because no other command of the agent is
in PX4's hands then and other clients ask for other modes; a refused request for Offboard found PX4 elsewhere. `HeartbeatInv` needs both conditions: PX4 in Offboard has its
stream, and during a warm-up it is elsewhere. An accepted request for Offboard finds the stream active, by `TargetsReady`, not by what PX4 checks; every
path that stops the stream for good is one where `AnswersInv` has PX4 out of Offboard. `HandoversLeaveOffboard` follows from `AnswersInv` alone: what the
`LateAck` run refutes of `_handover_from_offboard()` is true of every handover as long as the transport is *Quiet*.

`SafetyGateProofs`, from `GateAssumption` and `DataAssumption` (the bounds are
naturals, `None` is none of the codes, coordinates and limits are integers),
for any number of requests, snapshots and crashes. `GateTypes` types every variable, with the snapshots the handler and the gate hold and the evidence
kept of each decision.

* `GateInv` joins `HandlerInv`, what each place of the handler implies for the
  trace, the dispatches and the replies of the current and of later proposals,
  with the write-ahead, single-dispatch, trace and reply properties. None of
  these is inductive without `HandlerInv`: that a trace entry may be added is
  known from where the handler is. `GateKeepsPromise`, the refinement of
  `GatedExecution`, uses it to map each action to a move of one
  proposal or to a stutter; a crash maps to dropping an approved proposal or to
  finishing a flying one.
* `EvidenceInv` carries what the checks found from the gate's read to the
  decision and on to the dispatch; `EvidenceIsCurrent`, `OnlyFittingSkillsFly`
  and `GotosStayInside` follow. The last uses `FenceIsConvex`: the code tests only
  start and target, and every point between them is inside because the fence is a
  rectangle.

`BehaviorExecutionProofs`, from the module's assumption, for any number of agents, behaviours, threads and
crashes: what the place of a behaviour implies for the fates of its actions (before its step all are flown well, after it
all are unsent) gives `InOrder`, `SuccessMeansFlown` and `OnlyTimeoutsLeaveActions`.

Its second half counts time. `LoneBehaviorsEnd` assumes at least two threads (`num_threads=2` in the
code; with one the property is false, the reply has no thread to come through). `LoneInv`: while a behaviour has pool and server to itself, what
is left of its call is the whole time-out until its action flies, and then what the flight has used up is what the call has lost (`CallOnTime`), so
`FlightTime < Timeout` ends the flight first; `Tick` waits for the reply. `AgentsPlanAfterBehaviors` and `NoAgentGivesUp` assume finitely many agents. Their
`AgentInv` bounds the time a behaviour can still take by the patience its agent has left; that a submitted behaviour finds a thread
at once when there are no more agents than threads is a counting argument (`ThreadForQueued`): each busy thread
belongs to another agent's behaviour.

`StateTraceProofs`, from `TraceAssumption` and `StateTraceAssumption`, for any number of snapshots, decisions,
restarts and clock values. `OnlyFaultsHideRecords` needs that a draft never carries a time before the last record's, unless
overtaken or the clock stepped; `TimeQueryRight` needs that what follows the first later record could only be later;
`DecisionsNameRecordedStates` follows each published snapshot through publication, stamping and writing; and
`DecisionFindsItsState` needs that ids are ordered like births: within a start by their number, and across
starts by PX4's time, which a start takes some of.

`ScriptedFlightProofs`, from `FeedAssumption` and `ScriptAssumption`, for any age limit, Hold duration and number of troubles.
`FlowInv` is types, control (`ControlInv`: steps come in order, each after the success of the one before) and ages (`AgeInv`: a
wall clock that was set back hides no more of an age than that). `FreshLaunches` reads the last conjunct at
the launch. `HoldInv` bounds the Hold's count by the time since it was last seen off
its target. `SuccessesHappened` rests on `HistoryInv` (whatever `heard` and `latest` say of mode and place has been) and, for the RTL,
on `ArmedInv`: the vehicle is armed once, by the first skill, so that from the moment it was seen armed
whoever believes it disarmed is right, however old the sample. The theorem is for both values of `StartsAloft`; that the vehicle is
back on the ground is claimed of scripts that began there, since one that found it armed may hear of the arming only after it was undone.

`HumanApproval`, without assumptions: `DecidedOnce` (a proposal is decided at most once), `DecidedInTime` (strictly before the
deadline, for the submitted contents) and `DecisionsStand`. No run checks this module; it has no concurrency to explore.

Every safety property that a passing run checks is also proved. Only model-checked: all liveness (`EveryRequestAnswered`,
`EveryFlightEnds`, `EveryCallReturns`, `EveryBehaviorAnswered`, `ScriptEnds`), since fairness and ENABLED are beyond the prover,
and the three statements that the code refutes.

## What is not modelled

Numbers other than by their order (floating-point rounding of the distance and
age tests), message contents, the identity hash of a decision, the order of
reason codes, pydantic's field validation, ROS start-up and shutdown, and the
case of ROS callbacks that raise other than in a trace write. Battery values, health flags and the last ACK
of the aggregator are left to the gate's inputs in `SafetyGate`. Not modelled as components: the MAVLink exchange of the parameter
adapter (its outcomes are), the mock backend (a test double with a virtual clock and injected outcomes), the skill registry,
configuration, benchmark and manifest validators (constant tables and loaders without state), and the vendored ROS packages.

## What could be added

1. The parameter adapter's request, answer and time-out, with late and foreign `PARAM_VALUE` messages.
2. `SafetyGate` on top of `StateTrace`, so that the gate's entries share the file with the snapshots'.
