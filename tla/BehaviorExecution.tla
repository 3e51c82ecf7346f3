-------------------------- MODULE BehaviorExecution --------------------------
(***************************************************************************)
(* Agents (ros_agent_srv) that plan and submit behaviors, the              *)
(* SequenceExecutor that runs a behavior's actions one by one in a pool of *)
(* Threads, and the queue of the serial flight server.  A thread that      *)
(* executes a behavior blocks in client.call(); the reply to that call     *)
(* needs another thread of the same pool to be delivered.                  *)
(*                                                                         *)
(* What an approved action does is GatedExecution's business: here it is   *)
(* flown for at most FlightTime and ends well or not.  Time passes in      *)
(* ticks; what a process can do at once it does before the next tick.      *)
(***************************************************************************)
EXTENDS Integers, FiniteSets

CONSTANTS
  Agents,
  RoundsOf,     \* bound: behaviors each agent submits
  MaxActions,   \* _MAX_ACTIONS
  Threads,      \* num_threads of the MultiThreadedExecutor
  Timeout,      \* _DEFAULT_TIMEOUT_S of a call and of a service discovery
  Slack,        \* _SERVICE_TIMEOUT_S, added to the agent's budget
  FlightTime,   \* the longest an action takes in the flight server
  MaxCrashes,   \* bound: crashes of the flight server
  None

ASSUME ExecutionAssumption ==
  /\ RoundsOf \in [Agents -> Nat] /\ MaxCrashes \in Nat
  /\ MaxActions \in Nat \ {0} /\ Threads \in Nat \ {0}
  /\ Timeout \in Nat /\ Slack \in Nat \ {0}
  /\ FlightTime \in Nat /\ FlightTime < Timeout
  /\ None \notin {"ok", "failed", "timeout"}

(* A behavior is known by its agent and the number of its round. *)
Behaviors == UNION {{a} \X (1..RoundsOf[a]) : a \in Agents}
Actions == Behaviors \X (1..MaxActions)

(* Mutant: the agent's budget forgets that each action is discovered first. *)
BudgetWithoutDiscovery == MaxActions * Timeout + Slack

Budget == MaxActions * (Timeout + Timeout) + Slack

VARIABLES
  agentAt,    \* where the agent's main loop is
  round,      \* behaviors the agent has submitted
  seenAt,     \* history: the round after which it was observed
  patience,   \* what is left of the agent's budget for execute_behavior
  place,      \* where execute_behavior() of each behavior is
  length,     \* how many actions the behavior's text has
  step,       \* the action it is at
  left,       \* what is left of the present wait
  reply,      \* the flight server's reply, arrived but not delivered
  info,       \* the outcome the behavior reported: well, timed out, or any other failure
  fate,       \* what became of each action in the flight server
  air,        \* for how long the action there has been flown
  up, crashes,
  disturbed   \* history: behaviors that did not have the server to themselves

agentVars == <<agentAt, round, seenAt, patience>>
executorVars == <<place, length, step, left, reply, info>>
serverVars == <<fate, air, up, crashes>>
vars == <<agentVars, executorVars, serverVars, disturbed>>

TypeOK ==
  /\ agentAt \in [Agents -> {"observe", "human", "executing", "after", "stopped"}]
  /\ round \in [Agents -> Nat] /\ seenAt \in [Agents -> Nat]
  /\ patience \in [Agents -> 0..Budget]
  /\ place \in [Behaviors -> {"new", "queued", "finding", "calling", "done"}]
  /\ length \in [Behaviors -> 0..(MaxActions + 1)]
  /\ step \in [Behaviors -> 1..MaxActions]
  /\ left \in [Behaviors -> 0..Timeout]
  /\ reply \in [Behaviors -> {"ok", "failed", None}]
  /\ info \in [Behaviors -> {"ok", "failed", "timeout", None}]
  /\ fate \in [Actions -> {"unsent", "queued", "flying", "ok", "failed"}]
  /\ air \in 0..FlightTime
  /\ up \in BOOLEAN /\ crashes \in 0..MaxCrashes
  /\ disturbed \subseteq Behaviors

Init ==
  /\ agentAt = [a \in Agents |-> "observe"]
  /\ round = [a \in Agents |-> 0] /\ seenAt = [a \in Agents |-> 0]
  /\ patience = [a \in Agents |-> 0]
  /\ place = [b \in Behaviors |-> "new"]
  /\ length = [b \in Behaviors |-> 0]
  /\ step = [b \in Behaviors |-> 1]
  /\ left = [b \in Behaviors |-> 0]
  /\ reply = [b \in Behaviors |-> None]
  /\ info = [b \in Behaviors |-> None]
  /\ fate = [x \in Actions |-> "unsent"]
  /\ air = 0
  /\ up = TRUE /\ crashes = 0
  /\ disturbed = {}

-----------------------------------------------------------------------------
(* The agent's main loop. *)
Latest(a) == <<a, round[a]>>
Goes(a, where) == agentAt' = [agentAt EXCEPT ![a] = where]

(* get_obs().  A failed observation cannot become a flight plan: whatever   *)
(* the human says then, the loop observes again, and so is at "observe".    *)
(* Without an answer step() leaves one more try to the loop; one that fails *)
(* there, like a trace that cannot be written, ends the agent.              *)
Observe(a) ==
  /\ agentAt[a] \in {"observe", "after"}
  /\ \/ Goes(a, "human") /\ seenAt' = [seenAt EXCEPT ![a] = round[a]]
     \/ Goes(a, "observe") /\ agentAt[a] = "after" /\ UNCHANGED seenAt
     \/ Goes(a, "stopped") /\ UNCHANGED seenAt
  /\ UNCHANGED <<round, patience, executorVars, serverVars>>

(* No plan when call_llm fails, refuses or returns none, or when            *)
(* execute_behavior is absent: the loop observes again.  The agent ends     *)
(* with its input, or when the trace cannot be written.                     *)
NoBehavior(a) ==
  /\ agentAt[a] = "human"
  /\ Goes(a, "observe") \/ Goes(a, "stopped")
  /\ UNCHANGED <<round, seenAt, patience, executorVars, serverVars>>

(* A task, the plan call_llm makes of it, and the call of execute_behavior. *)
SubmitBehavior(a) ==
  /\ agentAt[a] = "human" /\ round[a] < RoundsOf[a]
  /\ Goes(a, "executing")
  /\ round' = [round EXCEPT ![a] = @ + 1]
  /\ patience' = [patience EXCEPT ![a] = Budget]
  /\ \E n \in 1..(MaxActions + 1) : length' = [length EXCEPT ![Latest(a)'] = n]
  /\ place' = [place EXCEPT ![Latest(a)'] = "queued"]
  /\ UNCHANGED <<seenAt, step, left, reply, info, serverVars>>

Told(a) == agentAt[a] = "executing" /\ place[Latest(a)] = "done"

BehaviorAnswered(a) ==
  /\ Told(a)
  /\ Goes(a, "after")
  /\ UNCHANGED <<round, seenAt, patience, executorVars, serverVars>>

(* SERVICE_CALL_FAILED: the behavior goes on without its agent. *)
GiveUp(a) ==
  /\ agentAt[a] = "executing" /\ patience[a] = 0
  /\ Goes(a, "observe")
  /\ UNCHANGED <<round, seenAt, patience, executorVars, serverVars>>

-----------------------------------------------------------------------------
(* The SequenceExecutor. *)
Serving == {b \in Behaviors : place[b] \in {"finding", "calling"}}
FreeThread == Cardinality(Serving) < Threads

(* Mutant: a text may have any number of actions. *)
ValidAny(n) == n >= 1

Valid(n) == n \in 1..MaxActions

Report(b, outcome) ==
  /\ place' = [place EXCEPT ![b] = "done"]
  /\ info' = [info EXCEPT ![b] = outcome]
  /\ left' = [left EXCEPT ![b] = 0]
  /\ reply' = [reply EXCEPT ![b] = None]
  /\ UNCHANGED step

(* wait_for_service() for action i. *)
LookFor(b, i) ==
  /\ place' = [place EXCEPT ![b] = "finding"]
  /\ step' = [step EXCEPT ![b] = i]
  /\ left' = [left EXCEPT ![b] = Timeout]
  /\ reply' = [reply EXCEPT ![b] = None]
  /\ UNCHANGED info

CanAccept(b) == place[b] = "queued" /\ FreeThread

(* _parse() checks the whole text before anything is sent. *)
Accept(b) ==
  /\ CanAccept(b)
  /\ IF Valid(length[b]) THEN LookFor(b, 1) ELSE Report(b, "failed")
  /\ UNCHANGED <<length, agentVars, serverVars>>

Found(b) == place[b] = "finding" /\ up

Call(b) ==
  /\ Found(b)
  /\ place' = [place EXCEPT ![b] = "calling"]
  /\ left' = [left EXCEPT ![b] = Timeout]
  /\ fate' = [fate EXCEPT ![<<b, step[b]>>] = "queued"]
  /\ UNCHANGED <<length, step, reply, info, agentVars, air, up, crashes>>

Unavailable(b) ==
  /\ place[b] = "finding" /\ left[b] = 0
  /\ Report(b, "failed")
  /\ UNCHANGED <<length, agentVars, serverVars>>

(* Mutant: service and clients share a mutually exclusive callback group. *)
CanDeliverAlone(b) == place[b] = "calling" /\ reply[b] # None /\ Serving = {}

(* A reply reaches the blocked call through another thread of the pool. *)
CanDeliver(b) == place[b] = "calling" /\ reply[b] # None /\ FreeThread

(* Mutant: the last action is dropped. *)
IsLastEarly(b) == step[b] + 1 >= length[b]

IsLast(b) == step[b] = length[b]

(* Mutant: a failed action does not stop the sequence. *)
DeliverAny(b) ==
  /\ CanDeliver(b)
  /\ IF IsLast(b) THEN Report(b, reply[b]) ELSE LookFor(b, step[b] + 1)
  /\ UNCHANGED <<length, agentVars, serverVars>>

Deliver(b) ==
  /\ CanDeliver(b)
  /\ IF reply[b] = "failed" \/ IsLast(b)
       THEN Report(b, reply[b])
       ELSE LookFor(b, step[b] + 1)
  /\ UNCHANGED <<length, agentVars, serverVars>>

(* Mutant: the time-out is a timer of the executor and needs a thread. *)
CallTimesOutByTimer(b) ==
  /\ place[b] = "calling" /\ left[b] = 0 /\ FreeThread
  /\ Report(b, "timeout")
  /\ UNCHANGED <<length, agentVars, serverVars>>

(* Mutant: a time-out is reported like a failed action. *)
CallTimesOutAsFailure(b) ==
  /\ place[b] = "calling" /\ left[b] = 0
  /\ Report(b, "failed")
  /\ UNCHANGED <<length, agentVars, serverVars>>

(* The call's own wait ends; the request stays with the flight server. *)
CallTimesOut(b) ==
  /\ place[b] = "calling" /\ left[b] = 0
  /\ Report(b, "timeout")
  /\ UNCHANGED <<length, agentVars, serverVars>>

(* client.call() raises: the request could not be sent, or its reply not   *)
(* be read.                                                                *)
CallRaises(b) ==
  /\ Found(b) \/ CanDeliver(b)
  /\ Report(b, "failed")
  /\ UNCHANGED <<length, agentVars, serverVars>>

-----------------------------------------------------------------------------
(* The flight server: five services in one mutually exclusive group, so    *)
(* one action at a time, in the order its executor finds them.             *)
Flying == {x \in Actions : fate[x] = "flying"}

CanFly(x) == up /\ Flying = {} /\ fate[x] = "queued"

Fly(x) ==
  /\ CanFly(x)
  /\ fate' = [fate EXCEPT ![x] = "flying"]
  /\ air' = 0
  /\ UNCHANGED <<up, crashes, agentVars, executorVars>>

(* The reply counts only for the call it answers, if that still waits. *)
Land(x) ==
  /\ x \in Flying
  /\ \E outcome \in {"ok", "failed"} :
       /\ fate' = [fate EXCEPT ![x] = outcome]
       /\ reply' = IF place[x[1]] = "calling" /\ step[x[1]] = x[2]
                     THEN [reply EXCEPT ![x[1]] = outcome] ELSE reply
  /\ air' = 0
  /\ UNCHANGED <<up, crashes, agentVars, place, length, step, left, info>>

Crash ==
  /\ up /\ crashes < MaxCrashes
  /\ up' = FALSE /\ crashes' = crashes + 1
  /\ fate' = [x \in Actions |-> IF fate[x] \in {"queued", "flying"} THEN "failed" ELSE fate[x]]
  /\ air' = 0
  /\ UNCHANGED <<agentVars, executorVars>>

Restart ==
  /\ ~up
  /\ up' = TRUE
  /\ UNCHANGED <<fate, air, crashes, agentVars, executorVars>>

-----------------------------------------------------------------------------
(* Nothing that can be done at once waits for the clock, and no wait lasts *)
(* longer than it was set for.                                             *)
AtOnce ==
  \/ \E b \in Behaviors : CanAccept(b) \/ Found(b) \/ CanDeliver(b)
  \/ \E a \in Agents : Told(a)
  \/ \E x \in Actions : CanFly(x)

Due ==
  \/ \E b \in Serving : left[b] = 0
  \/ \E a \in Agents : agentAt[a] = "executing" /\ patience[a] = 0
  \/ Flying # {} /\ air = FlightTime

Less(n) == IF n > 0 THEN n - 1 ELSE 0

Tick ==
  /\ ~AtOnce /\ ~Due
  /\ left' = [b \in Behaviors |-> Less(left[b])]
  /\ patience' = [a \in Agents |-> IF agentAt[a] = "executing" THEN patience[a] - 1 ELSE 0]
  /\ air' = IF Flying # {} THEN air + 1 ELSE air
  /\ UNCHANGED <<agentAt, round, seenAt, place, length, step, reply, info,
                 fate, up, crashes>>

(* History: who shares the server or the pool with b, or misses the server. *)
Contested(b) ==
  /\ b \in Serving
  /\ \/ Serving # {b}
     \/ ~up
     \/ \E x \in Actions : x[1] # b /\ fate[x] \in {"queued", "flying"}

Note == disturbed' = disturbed \cup {b \in Behaviors : Contested(b)'}

ExecutorStep(b) ==
  \/ Accept(b) \/ Call(b) \/ Unavailable(b) \/ Deliver(b) \/ CallTimesOut(b) \/ CallRaises(b)

AgentStep(a) ==
  \/ Observe(a) \/ NoBehavior(a) \/ SubmitBehavior(a)
  \/ BehaviorAnswered(a) \/ GiveUp(a)

Next ==
  /\ \/ \E b \in Behaviors : ExecutorStep(b)
     \/ \E a \in Agents : AgentStep(a)
     \/ \E x \in Actions : Fly(x) \/ Land(x)
     \/ Crash \/ Restart \/ Tick
  /\ Note

(* Time passes, threads are scheduled, the agent's client gives up, and a   *)
(* flight has an end.  The human, the LLM and a restart may never come.     *)
Progress ==
  /\ \/ \E b \in Behaviors : ExecutorStep(b)
     \/ \E a \in Agents : BehaviorAnswered(a) \/ GiveUp(a)
     \/ \E x \in Actions : Fly(x) \/ Land(x)
     \/ Tick
  /\ Note

Spec == Init /\ [][Next]_vars
FairSpec == Spec /\ WF_vars(Progress)
-----------------------------------------------------------------------------
(* The first failure stops a sequence: an action reaches the flight server *)
(* only after all actions before it were flown well, whatever times out,   *)
(* is lost, or is still queued for another behavior.                       *)
InOrder ==
  \A b \in Behaviors : \A i \in 1..MaxActions :
    fate[<<b, i>>] # "unsent" => \A j \in 1..(i - 1) : fate[<<b, j>>] = "ok"

(* execute_behavior() reports success only when every action of the text   *)
(* was flown well: no late reply of another call is taken for its own.     *)
SuccessMeansFlown ==
  \A b \in Behaviors : info[b] = "ok" =>
    Valid(length[b]) /\ \A i \in 1..length[b] : fate[<<b, i>>] = "ok"

(* Of a behavior that was answered, only an action whose call timed out    *)
(* can still be flown later, and only that one; every other answer means   *)
(* that nothing of it is left in the server.                               *)
OnlyTimeoutsLeaveActions ==
  \A b \in Behaviors : \A i \in 1..MaxActions :
    place[b] = "done" /\ fate[<<b, i>>] \in {"queued", "flying"} =>
      info[b] = "timeout" /\ i = step[b]

(* The 150 seconds of a call cover the longest flight, and the second      *)
(* thread delivers every reply: a behavior that has pool and server to     *)
(* itself never times out.                                                 *)
LoneBehaviorNeverTimesOut ==
  \A b \in Behaviors : info[b] = "timeout" => b \in disturbed

(* With no more agents than threads, the agent's budget covers whatever    *)
(* happens to its behavior: it never plans while one of its own is still   *)
(* executed, and only from an observation made after its latest one.       *)
PlansAfterBehavior ==
  Cardinality(Agents) <= Threads =>
    \A a \in Agents : agentAt[a] = "human" =>
      /\ seenAt[a] = round[a]
      /\ \A r \in 1..round[a] : place[<<a, r>>] = "done"

(* Every submitted behavior is answered, and the pool comes to rest, even  *)
(* while all its threads are blocked in calls whose replies have no thread *)
(* to come through.                                                        *)
EveryBehaviorAnswered ==
  []<>(\A b \in Behaviors : place[b] \in {"new", "done"})
=============================================================================
