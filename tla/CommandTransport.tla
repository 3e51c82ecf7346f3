-------------------------- MODULE CommandTransport --------------------------
(***************************************************************************)
(* The PX4 command adapter: submit_and_wait() publishes one VehicleCommand *)
(* at a time and waits for its ACK; cancel() ends the local wait of one    *)
(* execution.  ACKs arrive on a ROS thread and are handed to the asyncio   *)
(* loop the adapter is bound to; several loops may use the adapter in      *)
(* turn (the action server runs one asyncio.run() per request).            *)
(*                                                                         *)
(* Every step of a coroutine between two awaits is one action.  `credited' *)
(* and `ended' are history variables: no action reads them.                *)
(***************************************************************************)
EXTENDS Naturals, Sequences, FiniteSets

CONSTANTS
  Calls,       \* calls of submit_and_wait(), each made at most once
  Others,      \* commands other clients of PX4 publish, each once
  Loops,       \* asyncio event loops
  Executions,  \* execution ids
  Kinds,       \* PX4 command ids
  LoopOf,      \* the loop a call runs on
  ExecOf,      \* the execution id a call is made for
  KindOf,      \* the command id a call, or another client, publishes
  Reporting,   \* bound: the commands PX4 reports as in progress before it answers
  MaxUnread,   \* bound: ACKs on the wire at once (the topic's depth is 10)
  NoCall, NoLoop

(* All commands PX4 may answer: the topic of their ACKs is a global one. *)
Commands == Calls \cup Others

ASSUME TransportAssumption ==
  /\ IsFiniteSet(Calls)
  /\ LoopOf \in [Calls -> Loops]
  /\ ExecOf \in [Calls -> Executions]
  /\ KindOf \in [Commands -> Kinds]
  /\ MaxUnread \in Nat
  /\ NoCall \notin Calls /\ NoCall \notin Others /\ Calls \cap Others = {}
  /\ NoLoop \notin Loops

VARIABLES
  boundLoop,    \* _bound_loop
  closed,       \* loops whose asyncio.run() has returned
  activeCalls,  \* _active_calls
  lock,         \* _submission_lock: its holder and its FIFO of waiters
  pending,      \* the call _pending belongs to
  pc,           \* where each call is
  outcome,      \* _PendingCommand.outcome (its event is set iff this is set)
  result,       \* what submit_and_wait() returned or raised
  px4,          \* what PX4 has done with each command
  wire,         \* ACKs PX4 has sent and the ROS thread has not yet handled
  loopAcks,     \* ACK callbacks scheduled on each loop, in order
  credited,     \* history: the command whose ACK settled the outcome
  ended         \* history: the calls for which cancel() returned True

adapterVars == <<boundLoop, closed, activeCalls, lock, pending, pc, outcome, result>>
ackVars == <<px4, wire, loopAcks>>
historyVars == <<credited, ended>>
vars == <<adapterVars, ackVars, historyVars>>

FinalVerdicts == {"ACCEPTED", "REJECTED"}
Acks == [call : Commands, verdict : FinalVerdicts \cup {"IN_PROGRESS"}]
Outcomes == FinalVerdicts \cup {"CANCELLED"}
Results == Outcomes \cup {"TIMED_OUT", "LIFECYCLE_ERROR"}
FreeLock == [holder |-> NoCall, waiters |-> <<>>]

TypeOK ==
  /\ boundLoop \in Loops \cup {NoLoop}
  /\ closed \subseteq Loops
  /\ activeCalls \in Nat
  /\ lock \in [holder : Calls \cup {NoCall}, waiters : Seq(Calls)]
  /\ pending \in Calls \cup {NoCall}
  /\ pc \in [Calls -> {"new", "queued", "waiting", "returned"}]
  /\ outcome \in [Calls -> Outcomes \cup {"none"}]
  /\ result \in [Calls -> Results \cup {"none"}]
  /\ px4 \in [Commands -> {"unpublished", "published", "working", "answered"}]
  /\ wire \subseteq Acks
  /\ loopAcks \in [Loops -> Seq(Acks)]
  /\ credited \in [Calls -> Commands \cup {NoCall}]
  /\ ended \subseteq Calls

Init ==
  /\ boundLoop = NoLoop
  /\ closed = {}
  /\ activeCalls = 0
  /\ lock = FreeLock
  /\ pending = NoCall
  /\ pc = [c \in Calls |-> "new"]
  /\ outcome = [c \in Calls |-> "none"]
  /\ result = [c \in Calls |-> "none"]
  /\ px4 = [c \in Commands |-> IF c \in Others THEN "published" ELSE "unpublished"]
  /\ wire = {}
  /\ loopAcks = [l \in Loops |-> <<>>]
  /\ credited = [c \in Calls |-> NoCall]
  /\ ended = {}

-----------------------------------------------------------------------------
(* _command_lifecycle(): a loop may enter when the adapter is already bound *)
(* to it, or is idle; binding to another loop replaces the lock.            *)

(* Mutant: the busy adapter is not protected from another loop. *)
MayEnterAlways(l) == TRUE

MayEnter(l) == boundLoop = l \/ activeCalls = 0

LockOnEntry(l) == IF boundLoop = l THEN lock ELSE FreeLock

EnterLifecycle(l) == MayEnter(l) /\ boundLoop' = l

(* Inside the lock: create the pending command and publish it. *)
Publish(c) ==
  /\ pending' = c
  /\ pc' = [pc EXCEPT ![c] = "waiting"]
  /\ px4' = [px4 EXCEPT ![c] = "published"]

(* Mutant: an ACK timeout leaves without decrementing _active_calls. *)
ReturnWithUncounted(c, r) ==
  /\ pc' = [pc EXCEPT ![c] = "returned"]
  /\ result' = [result EXCEPT ![c] = r]
  /\ pending' = IF pending = c THEN NoCall ELSE pending
  /\ lock' = [lock EXCEPT !.holder = NoCall]
  /\ activeCalls' = IF r = "TIMED_OUT" THEN activeCalls ELSE activeCalls - 1

(* Mutant: the lock is not released on the timeout path. *)
ReturnWithLocked(c, r) ==
  /\ pc' = [pc EXCEPT ![c] = "returned"]
  /\ result' = [result EXCEPT ![c] = r]
  /\ pending' = IF pending = c THEN NoCall ELSE pending
  /\ lock' = [lock EXCEPT !.holder = IF r = "TIMED_OUT" THEN c ELSE NoCall]
  /\ activeCalls' = activeCalls - 1

(* Leave submit_and_wait(): both `finally' clauses and the lock's release. *)
ReturnWith(c, r) ==
  /\ pc' = [pc EXCEPT ![c] = "returned"]
  /\ result' = [result EXCEPT ![c] = r]
  /\ pending' = IF pending = c THEN NoCall ELSE pending
  /\ lock' = [lock EXCEPT !.holder = NoCall]
  /\ activeCalls' = activeCalls - 1

-----------------------------------------------------------------------------
(* submit_and_wait() on an adapter another loop is using: RuntimeError. *)
SubmitRefused(c) ==
  /\ pc[c] = "new"
  /\ LoopOf[c] \notin closed
  /\ ~MayEnter(LoopOf[c])
  /\ pc' = [pc EXCEPT ![c] = "returned"]
  /\ result' = [result EXCEPT ![c] = "LIFECYCLE_ERROR"]
  /\ UNCHANGED <<boundLoop, closed, activeCalls, lock, pending, outcome,
                 ackVars, historyVars>>

(* asyncio.Lock is taken without suspending when it is free and unqueued. *)
SubmitAtOnce(c) ==
  /\ pc[c] = "new"
  /\ LoopOf[c] \notin closed
  /\ EnterLifecycle(LoopOf[c])
  /\ LockOnEntry(LoopOf[c]) = FreeLock
  /\ lock' = [FreeLock EXCEPT !.holder = c]
  /\ activeCalls' = activeCalls + 1
  /\ Publish(c)
  /\ UNCHANGED <<closed, outcome, result, wire, loopAcks, historyVars>>

SubmitQueued(c) ==
  /\ pc[c] = "new"
  /\ LoopOf[c] \notin closed
  /\ EnterLifecycle(LoopOf[c])
  /\ LockOnEntry(LoopOf[c]) # FreeLock
  /\ lock' = [lock EXCEPT !.waiters = Append(@, c)]
  /\ activeCalls' = activeCalls + 1
  /\ pc' = [pc EXCEPT ![c] = "queued"]
  /\ UNCHANGED <<closed, pending, outcome, result, ackVars, historyVars>>

Submit(c) == SubmitRefused(c) \/ SubmitAtOnce(c) \/ SubmitQueued(c)

(* Mutant: the woken waiter stays in the lock's queue. *)
AcquireKeepsWaiter(c) ==
  /\ pc[c] = "queued"
  /\ lock.holder = NoCall
  /\ lock.waiters # <<>> /\ Head(lock.waiters) = c
  /\ lock' = [lock EXCEPT !.holder = c]
  /\ Publish(c)
  /\ UNCHANGED <<boundLoop, closed, activeCalls, outcome, result,
                 wire, loopAcks, historyVars>>

(* The released lock wakes its first waiter. *)
Acquire(c) ==
  /\ pc[c] = "queued"
  /\ lock.holder = NoCall
  /\ lock.waiters # <<>> /\ Head(lock.waiters) = c
  /\ lock' = [holder |-> c, waiters |-> Tail(lock.waiters)]
  /\ Publish(c)
  /\ UNCHANGED <<boundLoop, closed, activeCalls, outcome, result,
                 wire, loopAcks, historyVars>>

(* The waiter resumes after its event was set. *)
Wake(c) ==
  /\ pc[c] = "waiting"
  /\ outcome[c] # "none"
  /\ ReturnWith(c, outcome[c])
  /\ UNCHANGED <<boundLoop, closed, outcome, ackVars, historyVars>>

(* wait_for() expires.  In Python 3.12 the expiry wins even when the event *)
(* was set but the waiter has not resumed: the outcome is discarded.       *)
TimeOut(c) ==
  /\ pc[c] = "waiting"
  /\ ReturnWith(c, "TIMED_OUT")
  /\ UNCHANGED <<boundLoop, closed, outcome, ackVars, historyVars>>

(* cancel(e) called on loop l; it never suspends. *)
Cancellable(e) ==
  /\ pending # NoCall
  /\ ExecOf[pending] = e
  /\ outcome[pending] = "none"

Cancel(l, e) ==
  /\ l \notin closed
  /\ EnterLifecycle(l)
  /\ lock' = LockOnEntry(l)
  /\ IF Cancellable(e)
       THEN /\ outcome' = [outcome EXCEPT ![pending] = "CANCELLED"]
            /\ ended' = ended \cup {pending}
       ELSE UNCHANGED <<outcome, ended>>
  /\ UNCHANGED <<closed, activeCalls, pending, pc, result, ackVars, credited>>

-----------------------------------------------------------------------------
(* _handle_command_ack(), on the ROS thread: schedule the ACK on the bound *)
(* loop; without one, or when it is closed, the ACK is dropped.            *)
HandleAck(a) ==
  /\ a \in wire
  /\ wire' = wire \ {a}
  /\ loopAcks' = IF boundLoop = NoLoop \/ boundLoop \in closed
                   THEN loopAcks
                   ELSE [loopAcks EXCEPT ![boundLoop] = Append(@, a)]
  /\ UNCHANGED <<adapterVars, px4, historyVars>>

(* _resolve_command_ack(): matched by command id only, whoever published   *)
(* the command; an outcome already set is overwritten.                     *)
Settles(a) ==
  /\ pending # NoCall
  /\ KindOf[a.call] = KindOf[pending]
  /\ a.verdict # "IN_PROGRESS"

ResolveAck(l) ==
  /\ loopAcks[l] # <<>>
  /\ loopAcks' = [loopAcks EXCEPT ![l] = Tail(@)]
  /\ LET a == Head(loopAcks[l]) IN
       IF Settles(a)
         THEN /\ outcome' = [outcome EXCEPT ![pending] = a.verdict]
              /\ credited' = [credited EXCEPT ![pending] = a.call]
         ELSE UNCHANGED <<outcome, credited>>
  /\ UNCHANGED <<boundLoop, closed, activeCalls, lock, pending, pc, result,
                 px4, wire, ended>>

(* asyncio.run() returns: the loop closes and its callbacks are lost. *)
CloseLoop(l) ==
  /\ l \notin closed
  /\ \A c \in Calls : LoopOf[c] = l => pc[c] = "returned"
  /\ closed' = closed \cup {l}
  /\ loopAcks' = [loopAcks EXCEPT ![l] = <<>>]
  /\ UNCHANGED <<boundLoop, activeCalls, lock, pending, pc, outcome, result,
                 px4, wire, historyVars>>

(* PX4 and its best-effort topics: a command, a call's or another client's,  *)
(* may be acknowledged late, after an IN_PROGRESS, or never; ACKs may be     *)
(* delayed for ever and overtake.  When another client publishes makes no    *)
(* difference to the adapter, so its commands are published from the start.  *)
Px4Progress(c) ==
  /\ c \in Reporting /\ px4[c] = "published"
  /\ Cardinality(wire) < MaxUnread
  /\ px4' = [px4 EXCEPT ![c] = "working"]
  /\ wire' = wire \cup {[call |-> c, verdict |-> "IN_PROGRESS"]}
  /\ UNCHANGED <<adapterVars, loopAcks, historyVars>>

Px4Answer(c) ==
  /\ px4[c] \in {"published", "working"}
  /\ Cardinality(wire) < MaxUnread
  /\ px4' = [px4 EXCEPT ![c] = "answered"]
  /\ \E v \in FinalVerdicts : wire' = wire \cup {[call |-> c, verdict |-> v]}
  /\ UNCHANGED <<adapterVars, loopAcks, historyVars>>

-----------------------------------------------------------------------------
CallStep(c) == Submit(c) \/ Acquire(c) \/ Wake(c) \/ TimeOut(c)

Next ==
  \/ \E c \in Calls : CallStep(c)
  \/ \E l \in Loops, e \in Executions : Cancel(l, e)
  \/ \E a \in wire : HandleAck(a)
  \/ \E l \in Loops : ResolveAck(l) \/ CloseLoop(l)
  \/ \E c \in Commands : Px4Progress(c) \/ Px4Answer(c)

Spec == Init /\ [][Next]_vars

-----------------------------------------------------------------------------
InFlight(c) == pc[c] \in {"queued", "waiting"}
Abandoned(c) == result[c] \in {"TIMED_OUT", "CANCELLED"}

(* A command waits for its ACK exactly while it is the pending command and *)
(* holds the submission lock: two commands are never in flight together,   *)
(* although the lock object itself is replaced when the loop changes.      *)
OneCommandInFlight ==
  \A c \in Calls : (pc[c] = "waiting" <=> pending = c)
                /\ (pc[c] = "waiting" <=> lock.holder = c)

(* _active_calls counts the calls inside the adapter on every path out of  *)
(* it, and those calls all live on the bound, open loop: so a call from    *)
(* another loop is refused exactly while someone really is inside.         *)
LifecycleAccounted ==
  /\ activeCalls = Cardinality({c \in Calls : InFlight(c)})
  /\ \A c \in Calls : InFlight(c) => LoopOf[c] = boundLoop /\ boundLoop \notin closed

(* The lock's queue holds exactly the queued calls, each once. *)
QueueSound ==
  /\ \A c \in Calls : pc[c] = "queued" <=>
       \E i \in 1..Len(lock.waiters) : lock.waiters[i] = c
  /\ \A i, j \in 1..Len(lock.waiters) : lock.waiters[i] = lock.waiters[j] => i = j

(* A call's outcome is settled by an ACK that is not its own only when that *)
(* ACK answers another client's command of the same id, or a call that had  *)
(* already returned without its own ACK, timed out, cancelled or settled by *)
(* mistake itself.  At the root there is always another client, or an       *)
(* earlier call abandoned to a time-out or a cancellation.                  *)
Mistaken(c) == credited[c] \notin {c, NoCall}
Unanswered(d) == pc[d] = "returned" /\ credited[d] # d /\ (Abandoned(d) \/ Mistaken(d))
CauseFor(c, e) == \/ e # c /\ Abandoned(e)
                  \/ (e = c \/ pc[e] = "returned") /\ credited[e] \in Others
ForeignAckHasCause ==
  \A c \in Calls : Mistaken(c) =>
    /\ KindOf[credited[c]] = KindOf[c]
    /\ credited[c] \in Others \/ Unanswered(credited[c])
    /\ \E e \in Calls : KindOf[e] = KindOf[c] /\ CauseFor(c, e)

(* contracts/skill_contract.md:85: an in-flight task that was cancelled     *)
(* successfully ends CANCELLED; so once cancel() returned True for a wait,  *)
(* no ACK decides it any more.  The code refutes it: an ACK handled between *)
(* cancel() and the waiter's resumption overwrites the CANCELLED outcome.   *)
CancelledWaitIgnoresAcks == \A c \in ended : result[c] \notin FinalVerdicts

(* Whatever PX4 does, a call that entered the adapter returns: no path out *)
(* of submit_and_wait() keeps the submission lock.  Checked of the backend *)
(* that makes the calls, whose event loop is what drives them.             *)
EveryCallReturns == \A c \in Calls : InFlight(c) ~> pc[c] = "returned"
=============================================================================
