----------------------- MODULE BehaviorExecutionProofs ------------------------
(***************************************************************************)
(* What the SequenceExecutor's replies say of the flight server's work,    *)
(* for any number of agents, threads and actions, and however long calls   *)
(* and flights take; then what its time-outs and the agent's budget are    *)
(* worth, where the proofs count the ticks of a wait.                      *)
(***************************************************************************)
EXTENDS BehaviorExecution, FiniteSetTheorems, TLAPS

Indices == 1..MaxActions
Fate(b, i) == fate[<<b, i>>]
NothingSent(b) == \A i \in Indices : Fate(b, i) = "unsent"
FlownBefore(b, n) == \A j \in Indices : j < n => Fate(b, j) = "ok"
UnsentAfter(b, n) == \A j \in Indices : j > n => Fate(b, j) = "unsent"

(* A behavior that is served is at one action: those before it were flown  *)
(* well, those after it are not sent.                                      *)
AtOneAction(b) ==
  /\ step[b] <= length[b] /\ length[b] <= MaxActions
  /\ FlownBefore(b, step[b]) /\ UnsentAfter(b, step[b])

(* What is left of it once it was answered. *)
Answer(b) ==
  /\ FlownBefore(b, step[b]) /\ UnsentAfter(b, step[b])
  /\ Fate(b, step[b]) \in {"queued", "flying"} => info[b] = "timeout"
  /\ info[b] = "ok" => Valid(length[b]) /\ step[b] = length[b] /\ Fate(b, step[b]) = "ok"

BehaviorInv(b) ==
  /\ place[b] \in {"new", "queued"} => NothingSent(b) /\ step[b] = 1
  /\ place[b] = "finding" => AtOneAction(b) /\ Fate(b, step[b]) = "unsent"
  /\ place[b] = "calling" => AtOneAction(b) /\ Fate(b, step[b]) # "unsent"
  /\ reply[b] # None => place[b] = "calling" /\ Fate(b, step[b]) = reply[b]
  /\ place[b] = "done" => Answer(b)
  /\ place[b] # "done" => info[b] = None
  /\ b[2] > round[b[1]] => place[b] = "new"

SequenceInv == TypeOK /\ \A b \in Behaviors : BehaviorInv(b)

-----------------------------------------------------------------------------
LEMMA BehaviorIds ==
  /\ \A b \in Behaviors : b = <<b[1], b[2]>> /\ b[1] \in Agents /\ b[2] \in 1..RoundsOf[b[1]]
  /\ \A a \in Agents : \A n \in 1..RoundsOf[a] : <<a, n>> \in Behaviors
  /\ \A b \in Behaviors : \A i \in Indices : <<b, i>> \in Actions
  /\ \A x \in Actions : x = <<x[1], x[2]>> /\ x[1] \in Behaviors /\ x[2] \in Indices
  /\ None \notin {"ok", "failed", "timeout"}
  /\ MaxActions \in Nat \ {0} /\ Indices \subseteq Nat /\ 1 \in Indices
<1>1. \A b \in Behaviors : b = <<b[1], b[2]>> /\ b[1] \in Agents /\ b[2] \in 1..RoundsOf[b[1]]
  <2> SUFFICES ASSUME NEW b \in Behaviors
               PROVE  b = <<b[1], b[2]>> /\ b[1] \in Agents /\ b[2] \in 1..RoundsOf[b[1]]
    OBVIOUS
  <2>1. PICK a \in Agents : b \in {a} \X (1..RoundsOf[a])
    BY DEF Behaviors
  <2>2. QED
    BY <2>1
<1>2. \A a \in Agents : \A n \in 1..RoundsOf[a] : <<a, n>> \in Behaviors
  BY DEF Behaviors
<1>3. /\ \A b \in Behaviors : \A i \in Indices : <<b, i>> \in Actions
      /\ \A x \in Actions : x = <<x[1], x[2]>> /\ x[1] \in Behaviors /\ x[2] \in Indices
  <2>1. \A x \in Behaviors \X Indices : x = <<x[1], x[2]>> /\ x[1] \in Behaviors /\ x[2] \in Indices
    OBVIOUS
  <2>2. Actions = Behaviors \X Indices
    BY DEF Actions, Indices
  <2>3. QED
    BY <2>1, <2>2
<1>4. None \notin {"ok", "failed", "timeout"}
  BY ExecutionAssumption
<1>5. MaxActions \in Nat \ {0} /\ Indices \subseteq Nat /\ 1 \in Indices
  BY ExecutionAssumption DEF Indices
<1>6. QED
  BY <1>1, <1>2, <1>3, <1>4, <1>5

LEMMA InitSequence == Init => SequenceInv
<1> SUFFICES ASSUME Init PROVE SequenceInv
  OBVIOUS
<1>1. TypeOK
  <2>1. Budget \in Nat
    BY ExecutionAssumption DEF Budget
  <2>2. QED
    BY <2>1, ExecutionAssumption DEF Init, TypeOK
<1>2. ASSUME NEW b \in Behaviors PROVE BehaviorInv(b)
  BY BehaviorIds DEF Init, BehaviorInv, NothingSent, Fate
<1>3. QED
  BY <1>1, <1>2 DEF SequenceInv

(* A behavior no step touches. *)
LEMMA OthersKeep ==
  ASSUME NEW b \in Behaviors, BehaviorInv(b),
         place'[b] = place[b], length'[b] = length[b], step'[b] = step[b],
         reply'[b] = reply[b], info'[b] = info[b],
         \A i \in Indices : Fate(b, i)' = Fate(b, i),
         step[b] \in Indices,
         b[2] > round'[b[1]] => b[2] > round[b[1]]
  PROVE  BehaviorInv(b)'
  BY DEF BehaviorInv, NothingSent, AtOneAction, FlownBefore, UnsentAfter, Answer, Valid

(* A behavior is answered at its present action, or looks for its next one. *)
LEMMA ReportKeeps ==
  ASSUME SequenceInv, NEW b \in Behaviors, NEW r \in {"ok", "failed", "timeout"},
         Report(b, r), UNCHANGED <<length, fate, round>>,
         b[2] <= round[b[1]],
         FlownBefore(b, step[b]) /\ UnsentAfter(b, step[b]),
         Fate(b, step[b]) \in {"queued", "flying"} => r = "timeout",
         r = "ok" => Valid(length[b]) /\ step[b] = length[b] /\ Fate(b, step[b]) = "ok"
  PROVE  \A c \in Behaviors : BehaviorInv(c)'
<1> SUFFICES ASSUME NEW c \in Behaviors PROVE BehaviorInv(c)'
  OBVIOUS
<1>t. /\ place \in [Behaviors -> {"new", "queued", "finding", "calling", "done"}]
      /\ info \in [Behaviors -> {"ok", "failed", "timeout", None}]
      /\ reply \in [Behaviors -> {"ok", "failed", None}]
      /\ step \in [Behaviors -> Indices]
      /\ round \in [Agents -> Nat]
  BY DEF SequenceInv, TypeOK, Indices
<1>1. CASE c # b
  BY <1>1, <1>t, OthersKeep DEF Report, SequenceInv, Fate
<1>2. CASE c = b
  <2>1. place'[b] = "done" /\ info'[b] = r /\ reply'[b] = None /\ step'[b] = step[b]
    BY <1>t DEF Report
  <2>2. Answer(b)'
    BY <2>1 DEF Answer, FlownBefore, UnsentAfter, Fate, Valid
  <2>3. ~(b[2] > round'[b[1]])
    BY <1>t, BehaviorIds
  <2>4. QED
    BY <1>2, <2>1, <2>2, <2>3 DEF BehaviorInv
<1>3. QED
  BY <1>1, <1>2

LEMMA LookForKeeps ==
  ASSUME SequenceInv, NEW b \in Behaviors, NEW n \in Indices,
         LookFor(b, n), UNCHANGED <<length, fate, round>>,
         place[b] \in {"queued", "calling"},
         n <= length[b], length[b] <= MaxActions,
         FlownBefore(b, n), UnsentAfter(b, n), Fate(b, n) = "unsent"
  PROVE  \A c \in Behaviors : BehaviorInv(c)'
<1> SUFFICES ASSUME NEW c \in Behaviors PROVE BehaviorInv(c)'
  OBVIOUS
<1>t. /\ place \in [Behaviors -> {"new", "queued", "finding", "calling", "done"}]
      /\ reply \in [Behaviors -> {"ok", "failed", None}]
      /\ step \in [Behaviors -> Indices]
  BY DEF SequenceInv, TypeOK, Indices
<1>1. CASE c # b
  BY <1>1, <1>t, OthersKeep DEF LookFor, SequenceInv, Fate
<1>2. CASE c = b
  <2>1. place'[b] = "finding" /\ info'[b] = info[b] /\ reply'[b] = None /\ step'[b] = n
    BY <1>t DEF LookFor
  <2>2. info[b] = None /\ ~(b[2] > round[b[1]])
    BY DEF SequenceInv, BehaviorInv
  <2>3. AtOneAction(b)' /\ Fate(b, step[b])' = "unsent"
    BY <2>1 DEF AtOneAction, FlownBefore, UnsentAfter, Fate
  <2>4. QED
    BY <1>2, <2>1, <2>2, <2>3 DEF BehaviorInv
<1>3. QED
  BY <1>1, <1>2

-----------------------------------------------------------------------------
LEMMA ExecutorSteps ==
  ASSUME SequenceInv, NEW b \in Behaviors, ExecutorStep(b)
  PROVE  \A c \in Behaviors : BehaviorInv(c)'
<1>t. /\ place \in [Behaviors -> {"new", "queued", "finding", "calling", "done"}]
      /\ reply \in [Behaviors -> {"ok", "failed", None}]
      /\ info \in [Behaviors -> {"ok", "failed", "timeout", None}]
      /\ step \in [Behaviors -> Indices]
      /\ length \in [Behaviors -> 0..(MaxActions + 1)]
      /\ fate \in [Actions -> {"unsent", "queued", "flying", "ok", "failed"}]
      /\ round \in [Agents -> Nat]
      /\ BehaviorInv(b)
      /\ UNCHANGED <<length, round>>
  BY DEF SequenceInv, TypeOK, Indices, ExecutorStep, Accept, Call, Unavailable, Deliver, CallTimesOut, CallRaises, agentVars
<1>i. MaxActions \in Nat \ {0} /\ Indices = 1..MaxActions /\ step[b] \in Indices
  BY <1>t, BehaviorIds DEF Indices
<1>r. place[b] # "new" => b[2] <= round[b[1]]
  BY <1>t, BehaviorIds DEF BehaviorInv
<1>1. CASE Accept(b)
  <2>1. place[b] = "queued" /\ NothingSent(b) /\ step[b] = 1 /\ UNCHANGED fate
    BY <1>1, <1>t DEF Accept, CanAccept, BehaviorInv, serverVars
  <2>2. FlownBefore(b, 1) /\ UnsentAfter(b, 1) /\ Fate(b, 1) = "unsent" /\ 1 \in Indices
    BY <1>i, <2>1 DEF FlownBefore, UnsentAfter, NothingSent
  <2>3. CASE Valid(length[b])
    <3>1. LookFor(b, 1) /\ 1 <= length[b] /\ length[b] <= MaxActions
      BY <1>1, <1>i, <2>3 DEF Accept, Valid
    <3>2. QED
      BY <1>t, <2>1, <2>2, <3>1, LookForKeeps
  <2>4. CASE ~Valid(length[b])
    <3>1. Report(b, "failed")
      BY <1>1, <2>4 DEF Accept
    <3>2. QED
      BY <1>t, <1>r, <2>1, <2>2, <3>1, ReportKeeps
  <2>5. QED
    BY <2>3, <2>4
<1>2. CASE Call(b)
  <2>1. /\ place[b] = "finding" /\ AtOneAction(b) /\ info[b] = None /\ reply[b] = None
        /\ place' = [place EXCEPT ![b] = "calling"]
        /\ fate' = [fate EXCEPT ![<<b, step[b]>>] = "queued"]
        /\ UNCHANGED <<step, reply, info>>
    BY <1>2, <1>t DEF Call, Found, BehaviorInv
  <2>2. \A c \in Behaviors : \A i \in Indices :
          Fate(c, i)' = IF c = b /\ i = step[b] THEN "queued" ELSE Fate(c, i)
    BY <1>t, <2>1, BehaviorIds DEF Fate
  <2>3. ASSUME NEW c \in Behaviors, c # b PROVE BehaviorInv(c)'
    BY <1>t, <2>1, <2>2, <2>3, OthersKeep DEF SequenceInv
  <2>4. AtOneAction(b)' /\ Fate(b, step[b])' = "queued"
    <3>1. Fate(b, step[b])' = "queued"
      BY <1>i, <2>1, <2>2 DEF Fate
    <3>2. AtOneAction(b)'
      BY <1>t, <1>i, <2>1, <2>2 DEF AtOneAction, FlownBefore, UnsentAfter
    <3>3. QED
      BY <3>1, <3>2
  <2>5. BehaviorInv(b)'
    BY <1>t, <1>r, <2>1, <2>4, BehaviorIds DEF BehaviorInv
  <2>6. QED
    BY <2>3, <2>5
<1>3. CASE Unavailable(b)
  BY <1>3, <1>t, <1>r, ReportKeeps DEF Unavailable, BehaviorInv, AtOneAction, serverVars
<1>4. CASE CallTimesOut(b)
  BY <1>4, <1>t, <1>r, ReportKeeps DEF CallTimesOut, BehaviorInv, AtOneAction, serverVars
<1>5. CASE Deliver(b)
  <2>1. /\ place[b] = "calling" /\ reply[b] \in {"ok", "failed"} /\ AtOneAction(b)
        /\ Fate(b, step[b]) = reply[b] /\ UNCHANGED fate
    BY <1>5, <1>t DEF Deliver, CanDeliver, BehaviorInv, serverVars
  <2>2. CASE reply[b] = "failed" \/ IsLast(b)
    <3>1. Report(b, reply[b])
      BY <1>5, <2>2 DEF Deliver
    <3>2. reply[b] = "ok" => Valid(length[b]) /\ step[b] = length[b]
      BY <1>i, <2>1, <2>2 DEF IsLast, Valid, AtOneAction
    <3>3. QED
      BY <1>t, <1>r, <2>1, <3>1, <3>2, ReportKeeps DEF AtOneAction
  <2>3. CASE reply[b] # "failed" /\ ~IsLast(b)
    <3>1. LookFor(b, step[b] + 1) /\ Fate(b, step[b]) = "ok"
      BY <1>5, <2>1, <2>3 DEF Deliver
    <3>2. step[b] + 1 \in Indices /\ step[b] + 1 <= length[b]
      BY <1>t, <1>i, <2>1, <2>3 DEF IsLast, AtOneAction
    <3>3. FlownBefore(b, step[b] + 1) /\ UnsentAfter(b, step[b] + 1) /\ Fate(b, step[b] + 1) = "unsent"
      BY <1>i, <2>1, <3>1, <3>2 DEF AtOneAction, FlownBefore, UnsentAfter
    <3>4. QED
      BY <1>t, <2>1, <3>1, <3>2, <3>3, LookForKeeps DEF AtOneAction
  <2>4. QED
    BY <2>2, <2>3
<1>6. CASE CallRaises(b)
  <2>1. place[b] \in {"finding", "calling"} /\ AtOneAction(b) /\ UNCHANGED fate
    BY <1>6, <1>t DEF CallRaises, Found, CanDeliver, BehaviorInv, serverVars
  <2>2. Fate(b, step[b]) \notin {"queued", "flying"}
    BY <1>6, <1>t DEF CallRaises, Found, CanDeliver, BehaviorInv
  <2>3. Report(b, "failed")
    BY <1>6 DEF CallRaises
  <2>4. QED
    BY <1>t, <1>r, <2>1, <2>2, <2>3, ReportKeeps DEF AtOneAction
<1>7. QED
  BY <1>1, <1>2, <1>3, <1>4, <1>5, <1>6 DEF ExecutorStep

LEMMA AgentSteps ==
  ASSUME SequenceInv, NEW a \in Agents, AgentStep(a)
  PROVE  \A c \in Behaviors : BehaviorInv(c)'
<1>t. /\ place \in [Behaviors -> {"new", "queued", "finding", "calling", "done"}]
      /\ step \in [Behaviors -> Indices]
      /\ length \in [Behaviors -> 0..(MaxActions + 1)]
      /\ round \in [Agents -> Nat]
      /\ RoundsOf[a] \in Nat
  BY ExecutionAssumption DEF SequenceInv, TypeOK, Indices
<1>1. CASE ~SubmitBehavior(a)
  <2>1. UNCHANGED <<round, executorVars, serverVars>>
    BY <1>1 DEF AgentStep, Observe, NoBehavior, BehaviorAnswered, GiveUp
  <2>2. QED
    BY <1>t, <2>1, OthersKeep DEF SequenceInv, executorVars, serverVars, Fate
<1>2. CASE SubmitBehavior(a)
  <2>0. round[a] < RoundsOf[a] /\ round' = [round EXCEPT ![a] = round[a] + 1]
    BY <1>2 DEF SubmitBehavior
  <2>b. PICK b \in Behaviors : b = <<a, round[a] + 1>> /\ b = Latest(a)'
    <3>1. round[a] + 1 \in 1..RoundsOf[a] /\ round'[a] = round[a] + 1
      BY <1>t, <2>0
    <3>2. <<a, round[a] + 1>> \in Behaviors
      BY <3>1, BehaviorIds
    <3>3. QED
      BY <3>1, <3>2 DEF Latest
  <2>1. /\ round' = [round EXCEPT ![a] = round[a] + 1]
        /\ \E n \in 1..(MaxActions + 1) : length' = [length EXCEPT ![b] = n]
        /\ place' = [place EXCEPT ![b] = "queued"]
        /\ UNCHANGED <<step, reply, info, fate>>
    BY <1>2, <2>b DEF SubmitBehavior, serverVars
  <2>2. b[1] = a /\ b[2] = round[a] + 1
    BY <2>b
  <2>3. place[b] = "new" /\ BehaviorInv(b)
    BY <1>t, <2>2 DEF SequenceInv, BehaviorInv
  <2>4. BehaviorInv(b)'
    <3>1. place'[b] = "queued" /\ ~(b[2] > round'[b[1]])
      BY <1>t, <2>1, <2>2
    <3>2. NothingSent(b)' /\ step'[b] = 1
      BY <2>1, <2>3 DEF BehaviorInv, NothingSent, Fate
    <3>3. reply'[b] = None /\ info'[b] = None
      BY <2>1, <2>3 DEF BehaviorInv
    <3>4. QED
      BY <3>1, <3>2, <3>3 DEF BehaviorInv
  <2>5. ASSUME NEW c \in Behaviors, c # b PROVE BehaviorInv(c)'
    <3>1. c[2] > round'[c[1]] => c[2] > round[c[1]]
      BY <1>t, <2>1, BehaviorIds
    <3>2. QED
      BY <1>t, <2>1, <2>5, <3>1, OthersKeep DEF SequenceInv, Fate
  <2>6. QED
    BY <2>4, <2>5
<1>3. QED
  BY <1>1, <1>2

LEMMA ServerSteps ==
  ASSUME SequenceInv, (\E x \in Actions : Fly(x) \/ Land(x)) \/ Crash \/ Restart \/ Tick
  PROVE  \A c \in Behaviors : BehaviorInv(c)'
<1>t. /\ step \in [Behaviors -> Indices]
      /\ reply \in [Behaviors -> {"ok", "failed", None}]
      /\ fate \in [Actions -> {"unsent", "queued", "flying", "ok", "failed"}]
  BY DEF SequenceInv, TypeOK, Indices
<1>u. UNCHANGED <<round, place, length, step, info>>
  BY DEF Fly, Land, Crash, Restart, Tick, agentVars, executorVars
<1>1. CASE Restart \/ Tick
  BY <1>1, <1>t, <1>u, OthersKeep DEF Restart, Tick, executorVars, SequenceInv, Fate
<1>2. CASE Crash
  <2> SUFFICES ASSUME NEW c \in Behaviors PROVE BehaviorInv(c)'
    OBVIOUS
  <2>1. /\ reply' = reply
        /\ \A i \in Indices : Fate(c, i)' = IF Fate(c, i) \in {"queued", "flying"} THEN "failed" ELSE Fate(c, i)
    BY <1>2, BehaviorIds DEF Crash, executorVars, Fate
  <2>2. BehaviorInv(c) /\ step[c] \in Indices /\ step'[c] = step[c]
    BY <1>t, <1>u DEF SequenceInv
  <2>3. Fate(c, step[c])' = IF Fate(c, step[c]) \in {"queued", "flying"} THEN "failed" ELSE Fate(c, step[c])
    BY <2>1, <2>2 DEF Fate
  <2>4. \A n : (FlownBefore(c, n) => FlownBefore(c, n)') /\ (UnsentAfter(c, n) => UnsentAfter(c, n)')
    BY <2>1 DEF FlownBefore, UnsentAfter
  <2>5. reply[c] # None => Fate(c, step[c])' = Fate(c, step[c])
    BY <1>t, <2>2, <2>3 DEF BehaviorInv
  <2>6. NothingSent(c) => NothingSent(c)'
    BY <2>1 DEF NothingSent
  <2>7. AtOneAction(c) => AtOneAction(c)'
    BY <1>u, <2>4 DEF AtOneAction
  <2>8. Answer(c) => Answer(c)'
    BY <1>u, <2>3, <2>4 DEF Answer, Valid
  <2>9. QED
    BY <1>u, <2>1, <2>2, <2>3, <2>5, <2>6, <2>7, <2>8 DEF BehaviorInv
<1>3. ASSUME NEW x \in Actions, Fly(x) \/ Land(x) PROVE \A c \in Behaviors : BehaviorInv(c)'
  <2>x. x = <<x[1], x[2]>> /\ x[1] \in Behaviors /\ x[2] \in Indices
    BY BehaviorIds
  <2>1. PICK v \in {"flying", "ok", "failed"} :
          /\ fate' = [fate EXCEPT ![x] = v]
          /\ fate[x] \in {"queued", "flying"}
          /\ v = "flying" => reply' = reply /\ fate[x] = "queued"
          /\ v # "flying" => reply' = IF place[x[1]] = "calling" /\ step[x[1]] = x[2]
                                        THEN [reply EXCEPT ![x[1]] = v] ELSE reply
    <3>1. CASE Fly(x)
      BY <3>1 DEF Fly, CanFly, executorVars
    <3>2. CASE Land(x)
      BY <3>2 DEF Land, Flying
    <3>3. QED
      BY <1>3, <3>1, <3>2
  <2> DEFINE b == x[1]
             i == x[2]
  <2>2. \A c \in Behaviors : \A j \in Indices : Fate(c, j)' = IF c = b /\ j = i THEN v ELSE Fate(c, j)
    BY <1>t, <2>x, <2>1, BehaviorIds DEF Fate
  <2>3. ASSUME NEW c \in Behaviors, c # b PROVE BehaviorInv(c)'
    <3>1. reply'[c] = reply[c]
      BY <1>t, <2>1, <2>3
    <3>2. QED
      BY <1>t, <1>u, <2>2, <2>3, <3>1, OthersKeep DEF SequenceInv
  <2>4. Fate(b, i) \in {"queued", "flying"} /\ BehaviorInv(b) /\ step[b] \in Indices
    BY <1>t, <2>x, <2>1 DEF Fate, SequenceInv
  <2>5. place[b] \in {"calling", "done"} /\ i = step[b] /\ (place[b] = "done" => info[b] = "timeout")
    <3>1. place[b] \notin {"new", "queued", "finding"}
      BY <2>x, <2>4, BehaviorIds DEF BehaviorInv, NothingSent, AtOneAction, FlownBefore, UnsentAfter
    <3>2. place[b] \in {"calling", "done"}
      BY <2>x, <3>1 DEF SequenceInv, TypeOK
    <3>3. FlownBefore(b, step[b]) /\ UnsentAfter(b, step[b])
      BY <2>4, <3>2 DEF BehaviorInv, AtOneAction, Answer
    <3>4. i = step[b]
      BY <2>x, <2>4, <3>3, BehaviorIds DEF FlownBefore, UnsentAfter
    <3>5. QED
      BY <2>4, <3>2, <3>4 DEF BehaviorInv, Answer
  <2>6. /\ FlownBefore(b, step[b])' /\ UnsentAfter(b, step[b])' /\ Fate(b, step[b])' = v
    <3>1. FlownBefore(b, step[b]) /\ UnsentAfter(b, step[b])
      BY <2>4, <2>5 DEF BehaviorInv, AtOneAction, Answer
    <3>2. Fate(b, step[b])' = v
      BY <1>u, <2>x, <2>2, <2>5 DEF Fate
    <3>3. QED
      BY <1>u, <2>x, <2>2, <2>5, <3>1, <3>2, BehaviorIds DEF FlownBefore, UnsentAfter
  <2>7. BehaviorInv(b)'
    <3>1. CASE place[b] = "calling"
      <4>1. AtOneAction(b)'
        BY <1>u, <2>4, <2>6, <3>1 DEF BehaviorInv, AtOneAction
      <4>2. reply[b] = None
        BY <1>t, <2>x, <2>4, <2>5 DEF BehaviorInv
      <4>3. reply'[b] \in {None, v}
        BY <1>t, <2>x, <2>1, <4>2
      <4>4. QED
        BY <1>u, <2>4, <2>6, <3>1, <4>1, <4>3 DEF BehaviorInv
    <3>2. CASE place[b] = "done"
      <4>1. reply'[b] = None
        BY <1>t, <2>x, <2>1, <2>4, <3>2 DEF BehaviorInv
      <4>2. Answer(b)'
        BY <1>u, <2>5, <2>6, <3>2 DEF Answer
      <4>3. QED
        BY <1>u, <2>4, <3>2, <4>1, <4>2 DEF BehaviorInv
    <3>3. QED
      BY <2>5, <3>1, <3>2
  <2>8. QED
    BY <2>3, <2>7
<1>4. QED
  BY <1>1, <1>2, <1>3

-----------------------------------------------------------------------------
LEMMA SequenceTypes == SequenceInv /\ [Next]_vars => TypeOK'
<1> SUFFICES ASSUME SequenceInv, [Next]_vars PROVE TypeOK'
  OBVIOUS
<1>0. TypeOK /\ \A b \in Behaviors : BehaviorInv(b)
  BY DEF SequenceInv
<1>n. Budget \in Nat /\ MaxActions \in Nat \ {0} /\ Timeout \in Nat /\ FlightTime \in Nat /\ MaxCrashes \in Nat
  BY ExecutionAssumption DEF Budget
<1>1. CASE UNCHANGED vars
  BY <1>0, <1>1 DEF TypeOK, vars, agentVars, executorVars, serverVars
<1>d. CASE Next
  <2>d. disturbed' \subseteq Behaviors
    BY <1>0, <1>d DEF Next, Note, TypeOK
  <2>1. ASSUME NEW b \in Behaviors, ExecutorStep(b) PROVE TypeOK'
    <3>1. UNCHANGED <<agentVars, length, air, up, crashes>>
      BY <2>1 DEF ExecutorStep, Accept, Call, Unavailable, Deliver, CallTimesOut, CallRaises, serverVars
    <3>2. fate' \in [Actions -> {"unsent", "queued", "flying", "ok", "failed"}]
      BY <1>0, <2>1 DEF TypeOK, ExecutorStep, Accept, Call, Unavailable, Deliver, CallTimesOut, CallRaises, serverVars
    <3>3. \/ \E r \in {"ok", "failed", "timeout"} : Report(b, r)
          \/ \E n \in 1..MaxActions : LookFor(b, n)
          \/ /\ place' = [place EXCEPT ![b] = "calling"] /\ left' = [left EXCEPT ![b] = Timeout]
             /\ UNCHANGED <<step, reply, info>>
      <4>1. CASE Accept(b)
        BY <1>n, <4>1 DEF Accept
      <4>2. CASE Deliver(b)
        <5>1. reply[b] \in {"ok", "failed"} /\ AtOneAction(b) /\ step[b] \in 1..MaxActions
              /\ length[b] \in 0..(MaxActions + 1)
          BY <1>0, <4>2 DEF TypeOK, Deliver, CanDeliver, BehaviorInv
        <5>2. ~IsLast(b) => step[b] + 1 \in 1..MaxActions
          BY <1>n, <5>1 DEF AtOneAction, IsLast
        <5>3. QED
          BY <4>2, <5>1, <5>2 DEF Deliver
      <4>3. QED
        BY <2>1, <4>1, <4>2 DEF ExecutorStep, Call, Unavailable, CallTimesOut, CallRaises
    <3>4. /\ place' \in [Behaviors -> {"new", "queued", "finding", "calling", "done"}]
          /\ step' \in [Behaviors -> 1..MaxActions]
          /\ left' \in [Behaviors -> 0..Timeout]
          /\ reply' \in [Behaviors -> {"ok", "failed", None}]
          /\ info' \in [Behaviors -> {"ok", "failed", "timeout", None}]
      <4>1. CASE \E r \in {"ok", "failed", "timeout"} : Report(b, r)
        BY <1>0, <1>n, <4>1 DEF TypeOK, Report
      <4>2. CASE \E n \in 1..MaxActions : LookFor(b, n)
        BY <1>0, <1>n, <4>2 DEF TypeOK, LookFor
      <4>3. CASE /\ place' = [place EXCEPT ![b] = "calling"] /\ left' = [left EXCEPT ![b] = Timeout]
                 /\ UNCHANGED <<step, reply, info>>
        BY <1>0, <1>n, <4>3 DEF TypeOK
      <4>4. QED
        BY <3>3, <4>1, <4>2, <4>3
    <3>5. QED
      BY <1>0, <2>d, <3>1, <3>2, <3>4 DEF TypeOK, agentVars
  <2>2. ASSUME NEW a \in Agents, AgentStep(a) PROVE TypeOK'
    <3>1. /\ agentAt' \in [Agents -> {"observe", "human", "executing", "after", "stopped"}]
          /\ round' \in [Agents -> Nat] /\ seenAt' \in [Agents -> Nat]
          /\ patience' \in [Agents -> 0..Budget]
      BY <1>0, <1>n, <2>2 DEF TypeOK, AgentStep, Observe, NoBehavior, SubmitBehavior, BehaviorAnswered, GiveUp, Goes
    <3>2. /\ place' \in [Behaviors -> {"new", "queued", "finding", "calling", "done"}]
          /\ length' \in [Behaviors -> 0..(MaxActions + 1)]
          /\ UNCHANGED <<step, left, reply, info, serverVars>>
      <4>1. CASE SubmitBehavior(a)
        <5>1. PICK L : L = Latest(a)'
          OBVIOUS
        <5>2. PICK n \in 1..(MaxActions + 1) : length' = [length EXCEPT ![L] = n]
          BY <4>1, <5>1 DEF SubmitBehavior
        <5>3. place' = [place EXCEPT ![L] = "queued"]
          BY <4>1, <5>1 DEF SubmitBehavior
        <5>4. UNCHANGED <<step, left, reply, info, serverVars>>
          BY <4>1 DEF SubmitBehavior
        <5>5. n \in 0..(MaxActions + 1)
          BY <1>n, <5>2
        <5>6. QED
          BY <1>0, <5>2, <5>3, <5>4, <5>5 DEF TypeOK
      <4>2. CASE ~SubmitBehavior(a)
        BY <1>0, <2>2, <4>2 DEF TypeOK, AgentStep, Observe, NoBehavior, BehaviorAnswered, GiveUp, executorVars
      <4>3. QED
        BY <4>1, <4>2
    <3>3. QED
      BY <1>0, <2>d, <3>1, <3>2 DEF TypeOK, serverVars
  <2>3. ASSUME NEW x \in Actions, Fly(x) \/ Land(x) PROVE TypeOK'
    <3>1. /\ fate' \in [Actions -> {"unsent", "queued", "flying", "ok", "failed"}]
          /\ reply' \in [Behaviors -> {"ok", "failed", None}]
          /\ air' \in 0..FlightTime
      BY <1>0, <1>n, <2>3 DEF TypeOK, Fly, Land, executorVars
    <3>2. QED
      BY <1>0, <2>3, <2>d, <3>1 DEF TypeOK, Fly, Land, agentVars, executorVars
  <2>4. CASE Crash \/ Restart
    <3>1. /\ fate' \in [Actions -> {"unsent", "queued", "flying", "ok", "failed"}]
          /\ air' \in 0..FlightTime /\ up' \in BOOLEAN /\ crashes' \in 0..MaxCrashes
      <4>1. CASE Crash
        <5>1. fate' \in [Actions -> {"unsent", "queued", "flying", "ok", "failed"}]
          BY <1>0, <4>1 DEF TypeOK, Crash
        <5>2. up' \in BOOLEAN
          BY <4>1 DEF Crash
        <5>3. crashes \in 0..MaxCrashes /\ crashes < MaxCrashes /\ crashes' = crashes + 1 /\ air' = 0
          BY <1>0, <4>1 DEF TypeOK, Crash
        <5>4. air' \in 0..FlightTime /\ crashes' \in 0..MaxCrashes
          BY <1>n, <5>3
        <5>5. QED
          BY <5>1, <5>2, <5>4
      <4>2. CASE Restart
        BY <1>0, <4>2 DEF TypeOK, Restart
      <4>3. QED
        BY <2>4, <4>1, <4>2
    <3>2. QED
      BY <1>0, <2>4, <2>d, <3>1 DEF TypeOK, Crash, Restart, agentVars, executorVars
  <2>5. CASE Tick
    <3>1. left' \in [Behaviors -> 0..Timeout]
      BY <1>0, <1>n, <2>5 DEF TypeOK, Tick, Less
    <3>2. patience' \in [Agents -> 0..Budget]
      <4>1. \A a \in Agents : agentAt[a] = "executing" => patience[a] # 0
        BY <2>5 DEF Tick, Due
      <4>2. QED
        BY <1>0, <1>n, <2>5, <4>1 DEF TypeOK, Tick
    <3>3. air' \in 0..FlightTime
      BY <1>0, <1>n, <2>5 DEF TypeOK, Tick, Due
    <3>4. QED
      BY <1>0, <2>5, <2>d, <3>1, <3>2, <3>3 DEF TypeOK, Tick
  <2>6. QED
    BY <1>d, <2>1, <2>2, <2>3, <2>4, <2>5 DEF Next
<1>2. QED
  BY <1>1, <1>d

LEMMA NextSequence == SequenceInv /\ [Next]_vars => SequenceInv'
<1> SUFFICES ASSUME SequenceInv, [Next]_vars PROVE SequenceInv'
  OBVIOUS
<1>1. CASE UNCHANGED vars
  <2>1. \A c \in Behaviors : BehaviorInv(c)'
    BY <1>1, OthersKeep DEF vars, agentVars, executorVars, serverVars, SequenceInv, TypeOK, Indices, Fate
  <2>2. QED
    BY <2>1, SequenceTypes DEF SequenceInv
<1>2. CASE Next
  BY <1>2, SequenceTypes, ExecutorSteps, AgentSteps, ServerSteps DEF Next, SequenceInv
<1>3. QED
  BY <1>1, <1>2

LEMMA SequenceInvariant == Spec => []SequenceInv
  BY InitSequence, NextSequence, PTL DEF Spec

-----------------------------------------------------------------------------
(* The state is well formed: no wait outlasts its time-out, and no behavior*)
(* goes on to an action its text does not have.                            *)
THEOREM ExecutionTypes == Spec => []TypeOK
<1>1. SequenceInv => TypeOK
  BY DEF SequenceInv
<1>2. QED
  BY <1>1, SequenceInvariant, PTL

(* SequenceExecutor stops at the first action that is not flown well.      *)
THEOREM ActionsInOrder == Spec => []InOrder
<1>1. ASSUME SequenceInv PROVE InOrder
  <2> SUFFICES ASSUME NEW b \in Behaviors, NEW i \in Indices, NEW j \in 1..(i - 1), fate[<<b, i>>] # "unsent"
               PROVE  fate[<<b, j>>] = "ok"
    BY DEF InOrder, Indices
  <2>1. j \in Indices /\ j < i /\ i \in Nat /\ step[b] \in Indices /\ step[b] \in Nat
    BY <1>1, BehaviorIds DEF SequenceInv, TypeOK, Indices
  <2>2. BehaviorInv(b) /\ ~NothingSent(b)
    BY <1>1 DEF SequenceInv, NothingSent, Fate
  <2>3. FlownBefore(b, step[b]) /\ UnsentAfter(b, step[b])
    BY <1>1, <2>2 DEF SequenceInv, TypeOK, BehaviorInv, AtOneAction, Answer
  <2>4. QED
    BY <2>1, <2>3 DEF FlownBefore, UnsentAfter, Fate
<1>2. QED
  BY <1>1, SequenceInvariant, PTL

(* execute_behavior() reports success only for what was flown.             *)
THEOREM SuccessIsFlown == Spec => []SuccessMeansFlown
<1>1. ASSUME SequenceInv PROVE SuccessMeansFlown
  <2> SUFFICES ASSUME NEW b \in Behaviors, info[b] = "ok"
               PROVE  Valid(length[b]) /\ \A i \in 1..length[b] : fate[<<b, i>>] = "ok"
    BY DEF SuccessMeansFlown
  <2>1. Answer(b)
    BY <1>1, BehaviorIds DEF SequenceInv, BehaviorInv
  <2>2. QED
    BY <2>1, BehaviorIds DEF Answer, FlownBefore, Fate, Valid, Indices
<1>2. QED
  BY <1>1, SequenceInvariant, PTL

(* Once execute_behavior() has answered, only an action whose call timed   *)
(* out can still be waiting for or holding the flight server.              *)
THEOREM TimeoutsLeaveOneAction == Spec => []OnlyTimeoutsLeaveActions
<1>1. ASSUME SequenceInv PROVE OnlyTimeoutsLeaveActions
  <2> SUFFICES ASSUME NEW b \in Behaviors, NEW i \in Indices,
                      place[b] = "done", fate[<<b, i>>] \in {"queued", "flying"}
               PROVE  info[b] = "timeout" /\ i = step[b]
    BY DEF OnlyTimeoutsLeaveActions, Indices
  <2>1. Answer(b) /\ step[b] \in Nat /\ i \in Nat
    BY <1>1, BehaviorIds DEF SequenceInv, BehaviorInv, TypeOK, Indices
  <2>2. i = step[b]
    BY <2>1 DEF Answer, FlownBefore, UnsentAfter, Fate
  <2>3. QED
    BY <2>1, <2>2 DEF Answer, Fate
<1>2. QED
  BY <1>1, SequenceInvariant, PTL

-----------------------------------------------------------------------------
(* A call that has pool and server to itself: until its action flies no    *)
(* time passes, then as much as it flies, and none after its reply.        *)
CallOnTime(b) ==
  /\ left[b] > 0
  /\ reply[b] = None => Fate(b, step[b]) \in {"queued", "flying"}
  /\ Fate(b, step[b]) = "queued" => left[b] = Timeout
  /\ Fate(b, step[b]) = "flying" => left[b] + air = Timeout

HasServer(b) ==
  /\ Serving = {b} /\ up
  /\ \A x \in Actions : x[1] # b => fate[x] \notin {"queued", "flying"}

LoneInv(b) ==
  /\ info[b] = "timeout" => b \in disturbed
  /\ b \in Serving /\ b \notin disturbed =>
       HasServer(b) /\ (place[b] = "calling" => CallOnTime(b))

LoneInvAll == \A b \in Behaviors : LoneInv(b)

LEMMA InitLone == Init => LoneInvAll
<1>1. ASSUME Init PROVE LoneInvAll
  BY <1>1, BehaviorIds DEF Init, LoneInvAll, LoneInv, Serving
<1>2. QED
  BY <1>1

(* A time-out is reported by a call whose time has run out.                *)
LEMMA TimeoutsReported ==
  ASSUME SequenceInv, LoneInvAll, Next, NEW b \in Behaviors, info'[b] = "timeout"
  PROVE  b \in disturbed'
<1>1. disturbed \subseteq disturbed'
  BY DEF Next, Note
<1>2. CASE info[b] = "timeout"
  BY <1>1, <1>2 DEF LoneInvAll, LoneInv
<1>3. CASE info[b] # "timeout"
  <2>1. info \in [Behaviors -> {"ok", "failed", "timeout", None}]
    BY DEF SequenceInv, TypeOK
  <2>2. PICK c \in Behaviors : ExecutorStep(c)
    BY <1>3 DEF Next, AgentStep, Observe, NoBehavior, SubmitBehavior, BehaviorAnswered, GiveUp,
               Fly, Land, Crash, Restart, Tick, executorVars
  <2>3. CallTimesOut(c) /\ c = b
    <3>1. CASE Accept(c)
      BY <1>3, <2>1, <3>1 DEF Accept, Report, LookFor
    <3>2. CASE Call(c)
      BY <1>3, <3>2 DEF Call
    <3>3. CASE Unavailable(c)
      BY <1>3, <2>1, <3>3 DEF Unavailable, Report
    <3>4. CASE Deliver(c)
      <4>1. reply[c] \in {"ok", "failed"}
        BY <3>4 DEF Deliver, CanDeliver, SequenceInv, TypeOK
      <4>2. QED
        BY <1>3, <2>1, <3>4, <4>1 DEF Deliver, Report, LookFor
    <3>5. CASE CallTimesOut(c)
      BY <1>3, <2>1, <3>5 DEF CallTimesOut, Report
    <3>6. CASE CallRaises(c)
      BY <1>3, <2>1, <3>6 DEF CallRaises, Report
    <3>7. QED
      BY <2>2, <3>1, <3>2, <3>3, <3>4, <3>5, <3>6 DEF ExecutorStep
  <2>4. b \in Serving /\ place[b] = "calling" /\ ~(left[b] > 0)
    BY <2>3 DEF CallTimesOut, Serving
  <2>5. b \in disturbed
    BY <2>4 DEF LoneInvAll, LoneInv, CallOnTime
  <2>6. QED
    BY <1>1, <2>5
<1>4. QED
  BY <1>2, <1>3

(* The steps that leave a call where it is. *)
LEMMA CallKept ==
  ASSUME NEW b \in Behaviors, CallOnTime(b), step[b] \in Indices,
         left'[b] = left[b], reply'[b] = reply[b], step'[b] = step[b], air' = air,
         \A i \in Indices : Fate(b, i)' = Fate(b, i)
  PROVE  CallOnTime(b)'
  BY DEF CallOnTime, Fate

(* The one action of a served behavior that the flight server can have. *)
LEMMA ActionOfCall ==
  ASSUME SequenceInv, NEW b \in Behaviors, b \in Serving,
         NEW x \in Actions, x[1] = b, fate[x] \in {"queued", "flying"}
  PROVE  x = <<b, step[b]>> /\ place[b] = "calling"
<1>1. BehaviorInv(b) /\ x = <<b, x[2]>> /\ x[2] \in Indices /\ step[b] \in Indices
  BY BehaviorIds DEF SequenceInv, TypeOK, Indices
<1>2. FlownBefore(b, step[b]) /\ UnsentAfter(b, step[b])
  BY <1>1 DEF BehaviorInv, AtOneAction, Serving
<1>3. x[2] = step[b]
  BY <1>1, <1>2, BehaviorIds DEF FlownBefore, UnsentAfter, Fate
<1>4. QED
  BY <1>1, <1>3 DEF BehaviorInv, Serving, Fate

LEMMA LoneCalls ==
  ASSUME Threads >= 2, SequenceInv, LoneInvAll, Next, NEW b \in Behaviors,
         b \in Serving', b \notin disturbed', place'[b] = "calling"
  PROVE  CallOnTime(b)'
<1>n. Timeout \in Nat /\ FlightTime \in Nat /\ FlightTime < Timeout /\ Threads \in Nat
  BY ExecutionAssumption
<1>t. /\ place \in [Behaviors -> {"new", "queued", "finding", "calling", "done"}]
      /\ left \in [Behaviors -> 0..Timeout]
      /\ reply \in [Behaviors -> {"ok", "failed", None}]
      /\ step \in [Behaviors -> Indices]
      /\ fate \in [Actions -> {"unsent", "queued", "flying", "ok", "failed"}]
      /\ air \in 0..FlightTime
      /\ BehaviorInv(b)
  BY DEF SequenceInv, TypeOK, Indices
<1>x. <<b, step[b]>> \in Actions /\ Fate(b, step[b]) = fate[<<b, step[b]>>]
  BY <1>t, BehaviorIds DEF Fate
<1>a. \A y \in Actions : y = <<y[1], y[2]>> /\ y[1] \in Behaviors /\ y[2] \in Indices
  BY BehaviorIds
<1>d. b \notin disturbed /\ ~Contested(b)'
  BY DEF Next, Note
<1>e. Serving' = {b} /\ up' /\ \A x \in Actions : x[1] # b => fate'[x] \notin {"queued", "flying"}
  BY <1>d DEF Contested
<1>f. ASSUME place[b] = "calling" PROVE b \in Serving /\ HasServer(b) /\ CallOnTime(b)
  BY <1>d, <1>f DEF LoneInvAll, LoneInv, Serving
<1>1. ASSUME NEW c \in Behaviors, ExecutorStep(c) PROVE CallOnTime(b)'
  <2>1. CASE c = b
    <3>1. Call(b)
      BY <1>1, <1>t, <2>1 DEF ExecutorStep, Accept, Unavailable, Deliver, CallTimesOut, CallRaises,
                              Report, LookFor
    <3>2. /\ left'[b] = Timeout /\ reply'[b] = None /\ step'[b] = step[b]
          /\ fate'[<<b, step[b]>>] = "queued"
      BY <1>t, <1>x, <3>1 DEF Call, Found, BehaviorInv
    <3>3. QED
      BY <1>n, <3>2 DEF CallOnTime, Fate
  <2>2. CASE c # b
    <3>1. /\ place'[b] = place[b] /\ left'[b] = left[b] /\ reply'[b] = reply[b]
          /\ step'[b] = step[b] /\ air' = air
      BY <1>1, <1>t, <2>2 DEF ExecutorStep, Accept, Call, Unavailable, Deliver, CallTimesOut, CallRaises,
                              Report, LookFor, serverVars
    <3>2. \A i \in Indices : Fate(b, i)' = Fate(b, i)
      <4>1. CASE Call(c)
        <5>1. fate' = [fate EXCEPT ![<<c, step[c]>>] = "queued"]
          BY <4>1 DEF Call
        <5>2. QED
          BY <1>t, <2>2, <5>1, BehaviorIds DEF Fate
      <4>2. CASE ~Call(c)
        BY <1>1, <4>2 DEF ExecutorStep, Accept, Unavailable, Deliver, CallTimesOut, CallRaises, serverVars, Fate
      <4>3. QED
        BY <4>1, <4>2
    <3>3. QED
      BY <1>f, <1>t, <3>1, <3>2, CallKept
  <2>3. QED
    BY <2>1, <2>2
<1>2. ASSUME NEW a \in Agents, AgentStep(a) PROVE CallOnTime(b)'
  <2>1. UNCHANGED <<left, reply, step, fate, air>>
    BY <1>2 DEF AgentStep, Observe, NoBehavior, SubmitBehavior, BehaviorAnswered, GiveUp,
                executorVars, serverVars
  <2>2. place'[b] = place[b] \/ place'[b] = "queued"
    <3>1. CASE SubmitBehavior(a)
      <4>1. PICK L : L = Latest(a)'
        OBVIOUS
      <4>2. place' = [place EXCEPT ![L] = "queued"]
        BY <3>1, <4>1 DEF SubmitBehavior
      <4>3. QED
        BY <1>t, <4>2
    <3>2. CASE ~SubmitBehavior(a)
      BY <1>2, <3>2 DEF AgentStep, Observe, NoBehavior, BehaviorAnswered, GiveUp, executorVars
    <3>3. QED
      BY <3>1, <3>2
  <2>3. QED
    BY <1>f, <1>t, <2>1, <2>2, CallKept DEF Fate
<1>3. ASSUME NEW x \in Actions, Fly(x) \/ Land(x) PROVE CallOnTime(b)'
  <2>1. UNCHANGED <<place, left, step>> /\ fate[x] \in {"queued", "flying"} /\ air' = 0
    BY <1>3 DEF Fly, CanFly, Land, Flying, executorVars
  <2>2. b \in Serving /\ HasServer(b) /\ CallOnTime(b)
    BY <1>f, <2>1
  <2>3. x = <<b, step[b]>>
    BY <2>1, <2>2, ActionOfCall DEF HasServer
  <2>4. CASE Fly(x)
    <3>1. fate[x] = "queued" /\ reply' = reply /\ fate' = [fate EXCEPT ![x] = "flying"]
      BY <2>4 DEF Fly, CanFly, executorVars
    <3>2. Fate(b, step[b])' = "flying" /\ left'[b] = Timeout
      BY <1>t, <1>x, <2>1, <2>2, <2>3, <3>1 DEF Fate, CallOnTime
    <3>3. QED
      BY <1>n, <2>1, <3>2 DEF CallOnTime
  <2>5. CASE Land(x)
    <3>1. PICK v \in {"ok", "failed"} :
            fate' = [fate EXCEPT ![x] = v] /\ reply' = [reply EXCEPT ![b] = v]
      BY <1>3, <2>1, <2>3, <2>5 DEF Land
    <3>2. Fate(b, step[b])' = v /\ reply'[b] = v
      BY <1>t, <1>x, <2>1, <2>3, <3>1 DEF Fate
    <3>3. QED
      BY <2>1, <2>2, <3>2, BehaviorIds DEF CallOnTime
  <2>6. QED
    BY <1>3, <2>4, <2>5
<1>4. CASE Crash
  BY <1>4, <1>e DEF Crash
<1>5. CASE Restart
  <2>1. place' = place /\ ~up
    BY <1>5 DEF Restart, executorVars
  <2>2. QED
    BY <1>f, <2>1 DEF HasServer
<1>6. CASE Tick
  <2>1. UNCHANGED <<place, step, reply, fate>> /\ left'[b] = Less(left[b]) /\ ~AtOnce /\ ~Due
    BY <1>6 DEF Tick
  <2>2. b \in Serving /\ Serving = {b} /\ up /\ HasServer(b) /\ CallOnTime(b) /\ place[b] = "calling"
    BY <1>f, <2>1 DEF HasServer
  <2>3. reply[b] = None
    <3>1. Cardinality(Serving) = 1
      BY <2>2, FS_Singleton
    <3>2. FreeThread
      BY <1>n, <3>1 DEF FreeThread
    <3>3. QED
      BY <2>1, <2>2, <3>2 DEF AtOnce, CanDeliver
  <2>4. fate[<<b, step[b]>>] = "flying"
    <3>1. fate[<<b, step[b]>>] \in {"queued", "flying"}
      BY <1>x, <2>2, <2>3 DEF CallOnTime
    <3>2. ASSUME fate[<<b, step[b]>>] = "queued" PROVE FALSE
      <4>1. ASSUME NEW y \in Flying PROVE FALSE
        <5>1. y \in Actions /\ fate[y] = "flying"
          BY <4>1 DEF Flying
        <5>2. y[1] = b
          BY <2>2, <5>1 DEF HasServer
        <5>3. y = <<b, step[b]>>
          BY <2>2, <5>1, <5>2, ActionOfCall
        <5>4. QED
          BY <3>2, <5>1, <5>3
      <4>2. CanFly(<<b, step[b]>>)
        BY <2>2, <3>2, <4>1 DEF CanFly
      <4>3. QED
        BY <1>x, <2>1, <4>2 DEF AtOnce
    <3>3. QED
      BY <3>1, <3>2
  <2>5. Flying # {} /\ air < FlightTime /\ air' = air + 1
    <3>1. Flying # {}
      BY <1>x, <2>4 DEF Flying
    <3>2. air # FlightTime /\ air' = air + 1
      BY <1>6, <2>1, <3>1 DEF Due, Tick
    <3>3. QED
      BY <1>n, <1>t, <3>1, <3>2
  <2>6. left[b] + air = Timeout /\ left[b] > 0
    BY <1>x, <2>2, <2>4 DEF CallOnTime
  <2>7. left'[b] + air' = Timeout /\ left'[b] > 0
    BY <1>n, <1>t, <2>1, <2>5, <2>6 DEF Less
  <2>8. Fate(b, step[b])' = "flying"
    BY <2>1, <2>4 DEF Fate
  <2>9. QED
    BY <2>7, <2>8 DEF CallOnTime
<1>7. QED
  BY <1>1, <1>2, <1>3, <1>4, <1>5, <1>6 DEF Next

LEMMA NextLone ==
  ASSUME Threads >= 2, SequenceInv, LoneInvAll, [Next]_vars
  PROVE  LoneInvAll'
<1>1. CASE UNCHANGED vars
  BY <1>1 DEF vars, agentVars, executorVars, serverVars, LoneInvAll, LoneInv, HasServer,
              CallOnTime, Serving, Fate
<1>2. CASE Next
  <2>1. ASSUME NEW b \in Behaviors, b \in Serving', b \notin disturbed' PROVE HasServer(b)'
    <3>1. ~Contested(b)'
      BY <1>2, <2>1 DEF Next, Note
    <3>2. QED
      BY <2>1, <3>1 DEF Contested, HasServer
  <2>2. QED
    BY <1>2, <2>1, LoneCalls, TimeoutsReported DEF LoneInvAll, LoneInv
<1>3. QED
  BY <1>1, <1>2

(* execute_behavior() answers EXECUTION_TIMEOUT only to a behavior that    *)
(* shared the pool or the flight server, or lost it: _DEFAULT_TIMEOUT_S    *)
(* covers the longest flight, and with a second thread (num_threads=2) the *)
(* reply of the call that blocks the first one is always delivered.        *)
THEOREM LoneBehaviorsEnd ==
  ASSUME Threads >= 2
  PROVE  Spec => []LoneBehaviorNeverTimesOut
<1>1. Init => LoneInvAll
  BY InitLone
<1>2. SequenceInv /\ LoneInvAll /\ [Next]_vars => LoneInvAll'
  BY NextLone
<1>3. LoneInvAll => LoneBehaviorNeverTimesOut
  BY DEF LoneInvAll, LoneInv, LoneBehaviorNeverTimesOut
<1>4. QED
  BY <1>1, <1>2, <1>3, SequenceInvariant, PTL DEF Spec


-----------------------------------------------------------------------------
(* What is left for the actions after the i-th, and for the answer. *)
Spare(i) == (MaxActions - i) * (Timeout + Timeout) + Slack

DoneUpTo(a, n) == \A r \in 1..n : place[<<a, r>>] = "done"

(* An agent that waits has more patience than its behavior can still use. *)
Covered(a) ==
  LET b == Latest(a) IN
  /\ place[b] = "queued" => patience[a] = Budget
  /\ place[b] = "finding" => patience[a] >= left[b] + Timeout + Spare(step[b])
  /\ place[b] = "calling" => patience[a] >= left[b] + Spare(step[b])
  /\ place[b] = "done" => patience[a] > 0

AgentInv(a) ==
  /\ round[a] <= RoundsOf[a]
  /\ agentAt[a] # "executing" => DoneUpTo(a, round[a])
  /\ agentAt[a] = "executing" =>
       /\ round[a] >= 1 /\ DoneUpTo(a, round[a] - 1)
       /\ place[Latest(a)] # "new" /\ Covered(a)
  /\ agentAt[a] = "human" => seenAt[a] = round[a]

AgentInvAll == \A a \in Agents : AgentInv(a)

Fits == IsFiniteSet(Agents) /\ Cardinality(Agents) <= Threads

LEMMA Product ==
  ASSUME NEW m \in Nat, NEW d \in Nat
  PROVE  m * d \in Nat /\ (m + 1) * d = m * d + d
  OBVIOUS

(* The budget is made of as much as each action can take, and a rest. *)
LEMMA BudgetCovers ==
  /\ \A i \in Indices : Spare(i) \in Nat /\ Spare(i) > 0
  /\ \A i \in Indices : i + 1 \in Indices => Spare(i) = Timeout + Timeout + Spare(i + 1)
  /\ Budget = Timeout + Timeout + Spare(1) /\ Budget > 0 /\ Budget \in Nat
<1>n. /\ MaxActions \in Nat \ {0} /\ Timeout \in Nat /\ Slack \in Nat \ {0}
      /\ Timeout + Timeout \in Nat
  BY ExecutionAssumption
<1>1. ASSUME NEW i \in Indices PROVE Spare(i) \in Nat /\ Spare(i) > 0
  <2>1. MaxActions - i \in Nat
    BY <1>n DEF Indices
  <2>2. (MaxActions - i) * (Timeout + Timeout) \in Nat
    BY <1>n, <2>1, Product
  <2>3. QED
    BY <1>n, <2>2 DEF Spare
<1>2. ASSUME NEW i \in Indices, i + 1 \in Indices PROVE Spare(i) = Timeout + Timeout + Spare(i + 1)
  <2>1. PICK m \in Nat : m = MaxActions - (i + 1) /\ MaxActions - i = m + 1
    BY <1>n, <1>2 DEF Indices
  <2>2. m * (Timeout + Timeout) \in Nat
        /\ (m + 1) * (Timeout + Timeout) = m * (Timeout + Timeout) + (Timeout + Timeout)
    BY <1>n, Product
  <2>3. QED
    BY <1>n, <2>1, <2>2 DEF Spare
<1>3. Budget = Timeout + Timeout + Spare(1)
  <2>1. PICK m \in Nat : m = MaxActions - 1 /\ MaxActions = m + 1
    BY <1>n
  <2>2. m * (Timeout + Timeout) \in Nat
        /\ (m + 1) * (Timeout + Timeout) = m * (Timeout + Timeout) + (Timeout + Timeout)
    BY <1>n, Product
  <2>3. QED
    BY <1>n, <2>1, <2>2 DEF Spare, Budget
<1>4. Budget > 0 /\ Budget \in Nat
  BY <1>n, <1>1, <1>3, BehaviorIds
<1>5. QED
  BY <1>1, <1>2, <1>3, <1>4

LEMMA AgentTypes ==
  ASSUME SequenceInv
  PROVE  /\ agentAt \in [Agents -> {"observe", "human", "executing", "after", "stopped"}]
         /\ round \in [Agents -> Nat] /\ seenAt \in [Agents -> Nat]
         /\ patience \in [Agents -> Nat] /\ RoundsOf \in [Agents -> Nat]
         /\ place \in [Behaviors -> {"new", "queued", "finding", "calling", "done"}]
         /\ left \in [Behaviors -> Nat] /\ step \in [Behaviors -> Indices]
  BY BudgetCovers, ExecutionAssumption DEF SequenceInv, TypeOK, Indices

LEMMA LatestBehavior ==
  ASSUME SequenceInv, AgentInvAll, NEW a \in Agents
  PROVE  /\ round[a] \in Nat
         /\ \A r \in 1..round[a] : <<a, r>> \in Behaviors
         /\ agentAt[a] = "executing" => Latest(a) \in Behaviors
<1>1. round[a] \in Nat /\ RoundsOf[a] \in Nat /\ round[a] <= RoundsOf[a]
  BY AgentTypes DEF AgentInvAll, AgentInv
<1>2. \A r \in 1..round[a] : <<a, r>> \in Behaviors
  BY <1>1, BehaviorIds
<1>3. agentAt[a] = "executing" => round[a] \in 1..round[a]
  BY <1>1 DEF AgentInvAll, AgentInv
<1>4. QED
  BY <1>1, <1>2, <1>3 DEF Latest

(* A behavior in the executor is the latest one of an agent that waits. *)
LEMMA OnlyLatestServed ==
  ASSUME SequenceInv, AgentInvAll, NEW b \in Behaviors, place[b] \notin {"new", "done"}
  PROVE  b[1] \in Agents /\ agentAt[b[1]] = "executing" /\ b = Latest(b[1])
<1>1. b = <<b[1], b[2]>> /\ b[1] \in Agents /\ b[2] \in Nat /\ b[2] >= 1 /\ RoundsOf[b[1]] \in Nat
  BY BehaviorIds, AgentTypes
<1>2. AgentInv(b[1]) /\ BehaviorInv(b) /\ round[b[1]] \in Nat
  BY <1>1, AgentTypes DEF AgentInvAll, SequenceInv
<1>3. b[2] <= round[b[1]]
  BY <1>1, <1>2 DEF BehaviorInv
<1>4. \A n \in Nat : DoneUpTo(b[1], n) => b[2] > n
  BY <1>1 DEF DoneUpTo
<1>5. agentAt[b[1]] = "executing"
  BY <1>1, <1>2, <1>3, <1>4 DEF AgentInv
<1>6. round[b[1]] - 1 \in Nat /\ DoneUpTo(b[1], round[b[1]] - 1)
  BY <1>2, <1>5 DEF AgentInv
<1>7. b[2] = round[b[1]]
  BY <1>1, <1>2, <1>3, <1>4, <1>6
<1>8. QED
  BY <1>1, <1>5, <1>7 DEF Latest

(* With no more agents than threads, a queued behavior finds one free: the *)
(* others are blocked at most by the behaviors of the other agents.        *)
LEMMA ThreadForQueued ==
  ASSUME Fits, SequenceInv, AgentInvAll, NEW b \in Behaviors, place[b] = "queued"
  PROVE  FreeThread
<1> DEFINE others == Agents \ {b[1]}
           owner == [c \in Serving |-> c[1]]
<1>1. \A c \in Serving : c[1] \in Agents /\ c = Latest(c[1]) /\ c # b
  BY OnlyLatestServed DEF Serving
<1>2. b[1] \in Agents /\ b = Latest(b[1])
  BY OnlyLatestServed
<1>3. \A c \in Serving : c[1] \in others
  BY <1>1, <1>2
<1>4. \A c, d \in Serving : c[1] = d[1] => c = d
  BY <1>1 DEF Latest
<1>5. owner \in Injection(Serving, others)
  BY <1>3, <1>4 DEF Injection, IsInjective
<1>6. IsFiniteSet(others) /\ Cardinality(others) = Cardinality(Agents) - 1 /\ Cardinality(Agents) \in Nat
  BY <1>2, FS_RemoveElement, FS_CardinalityType DEF Fits
<1>7. IsFiniteSet(Serving) /\ Cardinality(Serving) <= Cardinality(others)
  BY <1>5, <1>6, FS_Injection
<1>8. Cardinality(Serving) \in Nat /\ Threads \in Nat
  BY <1>7, FS_CardinalityType, ExecutionAssumption
<1>9. QED
  BY <1>6, <1>7, <1>8 DEF Fits, FreeThread

-----------------------------------------------------------------------------
LEMMA InitAgents == Init => AgentInvAll
<1>1. ASSUME Init, NEW a \in Agents PROVE AgentInv(a)
  BY <1>1, ExecutionAssumption DEF Init, AgentInv, DoneUpTo
<1>2. QED
  BY <1>1 DEF AgentInvAll

(* An agent whose behaviors no step touches. *)
LEMMA AgentKept ==
  ASSUME SequenceInv, AgentInvAll, NEW a \in Agents,
         agentAt'[a] = agentAt[a], round'[a] = round[a],
         seenAt'[a] = seenAt[a], patience'[a] = patience[a],
         \A c \in Behaviors : c[1] = a =>
           place'[c] = place[c] /\ left'[c] = left[c] /\ step'[c] = step[c]
  PROVE  AgentInv(a)'
<1>1. AgentInv(a) /\ round[a] \in Nat
  BY AgentTypes DEF AgentInvAll
<1>2. \A r \in 1..round[a] : place'[<<a, r>>] = place[<<a, r>>]
  BY LatestBehavior
<1>3. \A n \in {round[a], round[a] - 1} : DoneUpTo(a, n) => DoneUpTo(a, n)'
  BY <1>1, <1>2 DEF DoneUpTo
<1>4. Latest(a)' = Latest(a) /\ Latest(a)[1] = a
  BY DEF Latest
<1>5. agentAt[a] = "executing" =>
        /\ place'[Latest(a)] = place[Latest(a)]
        /\ left'[Latest(a)] = left[Latest(a)] /\ step'[Latest(a)] = step[Latest(a)]
  BY <1>4, LatestBehavior
<1>6. agentAt[a] = "executing" /\ Covered(a) => Covered(a)'
  BY <1>4, <1>5 DEF Covered, Spare
<1>7. QED
  BY <1>1, <1>3, <1>4, <1>5, <1>6 DEF AgentInv

LEMMA ExecutorPatience ==
  ASSUME SequenceInv, AgentInvAll, NEW b \in Behaviors, ExecutorStep(b)
  PROVE  AgentInvAll'
<1>t. /\ place \in [Behaviors -> {"new", "queued", "finding", "calling", "done"}]
      /\ left \in [Behaviors -> Nat] /\ step \in [Behaviors -> Indices]
      /\ patience \in [Agents -> Nat] /\ round \in [Agents -> Nat]
      /\ Timeout \in Nat /\ Indices \subseteq Nat
  BY AgentTypes, BehaviorIds, ExecutionAssumption
<1>u. UNCHANGED <<agentAt, round, seenAt, patience>>
  BY DEF ExecutorStep, Accept, Call, Unavailable, Deliver, CallTimesOut, CallRaises, agentVars
<1>p. place[b] \in {"queued", "finding", "calling"}
  BY DEF ExecutorStep, Accept, CanAccept, Call, Found, Unavailable, Deliver, CanDeliver, CallTimesOut, CallRaises
<1>o. \A c \in Behaviors : c # b => place'[c] = place[c] /\ left'[c] = left[c] /\ step'[c] = step[c]
  BY <1>t DEF ExecutorStep, Accept, Call, Unavailable, Deliver, CallTimesOut, CallRaises, Report, LookFor
<1>a. PICK a \in Agents : a = b[1] /\ agentAt[a] = "executing" /\ b = Latest(a)
  BY <1>p, OnlyLatestServed
<1>1. ASSUME NEW d \in Agents, d # a PROVE AgentInv(d)'
  BY <1>1, <1>a, <1>o, <1>u, AgentKept
<1>2. place'[b] # "new" /\ Covered(a)'
  <2>1. /\ Covered(a) /\ patience'[a] = patience[a] /\ patience[a] \in Nat
        /\ left[b] \in Nat /\ step[b] \in Indices /\ Latest(a)' = b
    BY <1>a, <1>t, <1>u DEF AgentInvAll, AgentInv, Latest
  <2>2. /\ Budget = Timeout + Timeout + Spare(1) /\ Budget > 0
        /\ \A i \in Indices : Spare(i) \in Nat /\ Spare(i) > 0 /\ Spare(i)' = Spare(i)
    BY BudgetCovers DEF Spare
  <2>s. Spare(step[b]) \in Nat /\ Spare(step[b]) > 0
    BY <2>1, <2>2
  <2>3. ASSUME NEW r, Report(b, r), patience[a] > 0 PROVE place'[b] # "new" /\ Covered(a)'
    <3>1. place'[b] = "done"
      BY <1>t, <2>3 DEF Report
    <3>2. QED
      BY <2>1, <2>3, <3>1 DEF Covered
  <2>4. ASSUME NEW i \in Indices, LookFor(b, i), patience[a] >= Timeout + Timeout + Spare(i)
        PROVE  place'[b] # "new" /\ Covered(a)'
    <3>1. place'[b] = "finding" /\ left'[b] = Timeout /\ step'[b] = i
      BY <1>t, <2>4 DEF LookFor
    <3>2. Spare(step[b])' = Spare(i)
      BY <3>1 DEF Spare
    <3>3. QED
      BY <1>t, <2>1, <2>2, <2>4, <3>1, <3>2 DEF Covered
  <2>5. place[b] = "calling" => patience[a] >= left[b] + Spare(step[b])
    BY <1>a, <2>1 DEF Covered
  <2>6. CASE Accept(b)
    <3>1. patience[a] = Budget /\ 1 \in Indices
      BY <1>a, <2>1, <2>6, BehaviorIds DEF Covered, Accept, CanAccept
    <3>2. QED
      BY <1>t, <2>2, <2>3, <2>4, <2>6, <3>1 DEF Accept
  <2>7. CASE Call(b)
    <3>1. place[b] = "finding" /\ place'[b] = "calling" /\ left'[b] = Timeout /\ step'[b] = step[b]
      BY <1>t, <2>7 DEF Call, Found
    <3>2. patience[a] >= left[b] + Timeout + Spare(step[b])
      BY <1>a, <2>1, <3>1 DEF Covered
    <3>3. Spare(step[b])' = Spare(step[b]) /\ Spare(step[b]) \in Nat
      BY <2>1, <2>2, <3>1 DEF Spare
    <3>4. patience[a] >= Timeout + Spare(step[b])
      BY <1>t, <2>1, <3>2, <3>3
    <3>5. QED
      BY <2>1, <3>1, <3>3, <3>4 DEF Covered
  <2>8. CASE Unavailable(b)
    <3>1. patience[a] >= left[b] + Timeout + Spare(step[b])
      BY <1>a, <2>1, <2>8 DEF Covered, Unavailable
    <3>2. patience[a] > 0
      BY <1>t, <2>1, <2>s, <3>1
    <3>3. QED
      BY <2>3, <2>8, <3>2 DEF Unavailable
  <2>9. CASE CallTimesOut(b)
    <3>1. patience[a] > 0
      BY <1>t, <2>1, <2>s, <2>5, <2>9 DEF CallTimesOut
    <3>2. QED
      BY <2>3, <2>9, <3>1 DEF CallTimesOut
  <2>10. CASE Deliver(b)
    <3>1. patience[a] > 0 /\ patience[a] >= Spare(step[b]) /\ place[b] = "calling"
      BY <1>t, <2>1, <2>s, <2>5, <2>10 DEF Deliver, CanDeliver
    <3>2. CASE Report(b, reply[b])
      BY <2>3, <3>1, <3>2
    <3>3. CASE ~IsLast(b) /\ LookFor(b, step[b] + 1)
      <4>1. AtOneAction(b) /\ length[b] \in Nat /\ MaxActions \in Nat
        BY <3>1, ExecutionAssumption DEF SequenceInv, TypeOK, BehaviorInv
      <4>2. step[b] + 1 \in Indices
        BY <2>1, <3>3, <4>1 DEF IsLast, AtOneAction, Indices
      <4>3. Spare(step[b]) = Timeout + Timeout + Spare(step[b] + 1)
        BY <2>1, <4>2, BudgetCovers
      <4>4. QED
        BY <2>4, <3>1, <3>3, <4>2, <4>3
    <3>4. QED
      BY <2>10, <3>2, <3>3 DEF Deliver
  <2>11. CASE CallRaises(b)
    <3>1. patience[a] > 0
      <4>1. CASE place[b] = "finding"
        <5>1. patience[a] >= left[b] + Timeout + Spare(step[b])
          BY <1>a, <2>1, <4>1 DEF Covered
        <5>2. QED
          BY <1>t, <2>1, <2>s, <5>1
      <4>2. CASE place[b] = "calling"
        BY <1>t, <2>1, <2>s, <2>5, <4>2
      <4>3. QED
        BY <2>11, <4>1, <4>2 DEF CallRaises, Found, CanDeliver
    <3>2. QED
      BY <2>3, <2>11, <3>1 DEF CallRaises
  <2>12. QED
    BY <2>6, <2>7, <2>8, <2>9, <2>10, <2>11 DEF ExecutorStep
<1>3. AgentInv(a)'
  <2>1. AgentInv(a) /\ round[a] \in Nat
    BY <1>t DEF AgentInvAll
  <2>2. \A r \in 1..(round[a] - 1) : place'[<<a, r>>] = place[<<a, r>>]
    <3>1. \A r \in 1..(round[a] - 1) : <<a, r>> \in Behaviors /\ r # round[a]
      BY <2>1, LatestBehavior
    <3>2. QED
      BY <1>a, <1>o, <3>1 DEF Latest
  <2>3. DoneUpTo(a, round[a] - 1)'
    BY <1>a, <1>u, <2>1, <2>2 DEF AgentInv, DoneUpTo
  <2>4. Latest(a)' = b
    BY <1>a, <1>u DEF Latest
  <2>5. QED
    BY <1>a, <1>u, <1>2, <2>1, <2>3, <2>4 DEF AgentInv
<1>4. QED
  BY <1>1, <1>3 DEF AgentInvAll

LEMMA SubmitPatience ==
  ASSUME SequenceInv, AgentInvAll, NEW a \in Agents, SubmitBehavior(a)
  PROVE  AgentInvAll'
<1>t. /\ place \in [Behaviors -> {"new", "queued", "finding", "calling", "done"}]
      /\ round \in [Agents -> Nat] /\ patience \in [Agents -> Nat] /\ RoundsOf \in [Agents -> Nat]
      /\ agentAt \in [Agents -> {"observe", "human", "executing", "after", "stopped"}]
  BY AgentTypes
<1>1. PICK b : b = <<a, round[a] + 1>> /\ b = Latest(a)' /\ b \in Behaviors
  <2>1. round'[a] = round[a] + 1 /\ round[a] + 1 \in 1..RoundsOf[a]
    BY <1>t DEF SubmitBehavior
  <2>2. <<a, round[a] + 1>> \in Behaviors
    BY <2>1, BehaviorIds
  <2>3. QED
    BY <2>1, <2>2 DEF Latest
<1>2. /\ agentAt[a] = "human" /\ round[a] < RoundsOf[a]
      /\ agentAt' = [agentAt EXCEPT ![a] = "executing"]
      /\ round' = [round EXCEPT ![a] = round[a] + 1]
      /\ patience' = [patience EXCEPT ![a] = Budget]
      /\ place' = [place EXCEPT ![b] = "queued"]
      /\ UNCHANGED <<seenAt, step, left>>
  BY <1>1 DEF SubmitBehavior, Goes
<1>3. ASSUME NEW d \in Agents, d # a PROVE AgentInv(d)'
  <2>1. \A c \in Behaviors : c[1] = d => c # b
    BY <1>1, <1>3
  <2>2. \A c \in Behaviors : c[1] = d =>
          place'[c] = place[c] /\ left'[c] = left[c] /\ step'[c] = step[c]
    BY <1>2, <1>t, <2>1
  <2>3. QED
    BY <1>t, <1>2, <1>3, <2>2, AgentKept
<1>4. AgentInv(a)'
  <2>1. AgentInv(a) /\ DoneUpTo(a, round[a]) /\ round[a] \in Nat /\ RoundsOf[a] \in Nat
    BY <1>t, <1>2 DEF AgentInvAll, AgentInv
  <2>2. round'[a] = round[a] + 1 /\ agentAt'[a] = "executing" /\ patience'[a] = Budget
    BY <1>t, <1>2
  <2>3. place'[b] = "queued"
    BY <1>t, <1>1, <1>2
  <2>4. DoneUpTo(a, round[a] - 1)'
    <3>1. \A r \in 1..round[a] : <<a, r>> # b
      BY <1>1, <2>1
    <3>2. \A r \in 1..round[a] : <<a, r>> \in Behaviors
      BY LatestBehavior
    <3>3. \A r \in 1..round[a] : place'[<<a, r>>] = "done"
      BY <1>t, <1>2, <2>1, <3>1, <3>2 DEF DoneUpTo
    <3>4. \A r \in 1..(round'[a] - 1) : place'[<<a, r>>] = "done"
      BY <2>1, <2>2, <3>3
    <3>5. QED
      BY <2>1, <2>2, <3>4 DEF DoneUpTo
  <2>5. Covered(a)'
    BY <1>1, <2>2, <2>3 DEF Covered, Budget
  <2>6. round'[a] <= RoundsOf[a] /\ round'[a] >= 1
    BY <1>2, <2>1, <2>2
  <2>7. QED
    BY <1>1, <2>2, <2>3, <2>4, <2>5, <2>6 DEF AgentInv
<1>5. QED
  BY <1>3, <1>4 DEF AgentInvAll

(* An agent that waits always has some patience left. *)
LEMMA PatienceLeft ==
  ASSUME SequenceInv, AgentInvAll, NEW a \in Agents, agentAt[a] = "executing"
  PROVE  patience[a] # 0
<1>1. place[Latest(a)] # "new" /\ Covered(a) /\ patience[a] \in Nat
  BY AgentTypes DEF AgentInvAll, AgentInv
<1>2. /\ place[Latest(a)] \in {"new", "queued", "finding", "calling", "done"}
      /\ left[Latest(a)] \in Nat /\ step[Latest(a)] \in Indices /\ Timeout \in Nat
  BY LatestBehavior, AgentTypes, ExecutionAssumption
<1>3. Spare(step[Latest(a)]) \in Nat /\ Spare(step[Latest(a)]) > 0 /\ Budget > 0
  BY <1>2, BudgetCovers
<1>4. QED
  BY <1>1, <1>2, <1>3 DEF Covered

(* The agent's own steps: none of them gives up. *)
LEMMA AgentPatience ==
  ASSUME SequenceInv, AgentInvAll, NEW a \in Agents, AgentStep(a)
  PROVE  AgentInvAll'
<1>1. CASE SubmitBehavior(a)
  BY <1>1, SubmitPatience
<1>2. CASE Observe(a) \/ NoBehavior(a) \/ BehaviorAnswered(a) \/ GiveUp(a)
  <2>t. /\ agentAt \in [Agents -> {"observe", "human", "executing", "after", "stopped"}]
        /\ round \in [Agents -> Nat] /\ seenAt \in [Agents -> Nat]
    BY AgentTypes
  <2>1. PICK p \in {"observe", "human", "after", "stopped"} :
          /\ agentAt' = [agentAt EXCEPT ![a] = p]
          /\ p = "human" => seenAt'[a] = round[a]
    BY <1>2, <2>t DEF Observe, NoBehavior, BehaviorAnswered, GiveUp, Goes
  <2>2. /\ UNCHANGED <<round, patience, place, left, step>>
        /\ \A d \in Agents : d # a => seenAt'[d] = seenAt[d]
    BY <1>2, <2>t DEF Observe, NoBehavior, BehaviorAnswered, GiveUp, executorVars
  <2>3. ASSUME NEW d \in Agents, d # a PROVE AgentInv(d)'
    BY <2>t, <2>1, <2>2, <2>3, AgentKept
  <2>4. AgentInv(a) /\ round[a] \in Nat
    BY <2>t DEF AgentInvAll
  <2>5. ~GiveUp(a)
    BY PatienceLeft DEF GiveUp
  <2>6. DoneUpTo(a, round[a])
    <3>1. CASE agentAt[a] # "executing"
      BY <2>4, <3>1 DEF AgentInv
    <3>2. CASE agentAt[a] = "executing"
      <4>1. place[Latest(a)] = "done"
        BY <1>2, <2>5, <3>2 DEF Observe, NoBehavior, BehaviorAnswered, Told
      <4>2. DoneUpTo(a, round[a] - 1) /\ round[a] >= 1
        BY <2>4, <3>2 DEF AgentInv
      <4>3. QED
        BY <2>4, <4>1, <4>2 DEF DoneUpTo, Latest
    <3>3. QED
      BY <3>1, <3>2
  <2>7. DoneUpTo(a, round[a])'
    BY <2>2, <2>6 DEF DoneUpTo
  <2>8. agentAt'[a] = p
    BY <2>t, <2>1
  <2>9. AgentInv(a)'
    BY <2>1, <2>2, <2>4, <2>7, <2>8 DEF AgentInv
  <2>10. QED
    BY <2>3, <2>9 DEF AgentInvAll
<1>3. QED
  BY <1>1, <1>2 DEF AgentStep

(* No time passes while a behavior is queued or its answer is under way;   *)
(* otherwise the behavior's wait gets shorter with the agent's.            *)
LEMMA TickPatience ==
  ASSUME Fits, SequenceInv, AgentInvAll, Tick
  PROVE  AgentInvAll'
<1> SUFFICES ASSUME NEW a \in Agents PROVE AgentInv(a)'
  BY DEF AgentInvAll
<1>t. /\ round[a] \in Nat /\ patience[a] \in Nat /\ AgentInv(a) /\ Timeout \in Nat
  BY AgentTypes, ExecutionAssumption DEF AgentInvAll
<1>1. /\ UNCHANGED <<agentAt, round, seenAt, place, step>> /\ ~AtOnce /\ ~Due
      /\ \A c \in Behaviors : left'[c] = Less(left[c])
      /\ agentAt[a] = "executing" => patience'[a] = patience[a] - 1
  BY DEF Tick
<1>2. \A n : DoneUpTo(a, n) => DoneUpTo(a, n)'
  BY <1>1 DEF DoneUpTo
<1>3. ASSUME agentAt[a] = "executing" PROVE Covered(a)'
  <2>b. PICK b \in Behaviors : b = Latest(a) /\ b = Latest(a)'
    BY <1>1, <1>3, LatestBehavior DEF Latest
  <2>1. Covered(a) /\ patience'[a] = patience[a] - 1 /\ left'[b] = Less(left[b])
    BY <1>t, <1>1, <1>3 DEF AgentInv
  <2>2. left[b] \in Nat /\ Spare(step[b]) \in Nat /\ Spare(step[b])' = Spare(step[b])
    BY <1>1, AgentTypes, BudgetCovers DEF Spare
  <2>3. place[b] # "queued"
    BY <1>1, ThreadForQueued DEF AtOnce, CanAccept
  <2>4. place[b] # "done"
    BY <1>1, <1>3, <2>b DEF AtOnce, Told
  <2>5. place[b] \in {"finding", "calling"} => left[b] # 0 /\ left'[b] = left[b] - 1
    <3>1. place[b] \in {"finding", "calling"} => left[b] # 0
      BY <1>1 DEF Due, Serving
    <3>2. QED
      BY <2>1, <2>2, <3>1 DEF Less
  <2>6. place[b] = "finding" => patience'[a] >= left'[b] + Timeout + Spare(step[b])
    <3>1. place[b] = "finding" => patience[a] >= left[b] + Timeout + Spare(step[b])
      BY <2>b, <2>1 DEF Covered
    <3>2. QED
      BY <1>t, <2>1, <2>2, <2>5, <3>1
  <2>7. place[b] = "calling" => patience'[a] >= left'[b] + Spare(step[b])
    <3>1. place[b] = "calling" => patience[a] >= left[b] + Spare(step[b])
      BY <2>b, <2>1 DEF Covered
    <3>2. QED
      BY <1>t, <2>1, <2>2, <2>5, <3>1
  <2>8. QED
    BY <1>1, <2>b, <2>2, <2>3, <2>4, <2>6, <2>7 DEF Covered
<1>4. QED
  BY <1>t, <1>1, <1>2, <1>3 DEF AgentInv, Latest

LEMMA NextAgents ==
  ASSUME Fits, SequenceInv, AgentInvAll, [Next]_vars
  PROVE  AgentInvAll'
<1>1. CASE UNCHANGED <<agentVars, place, left, step>>
  BY <1>1, AgentKept DEF agentVars, AgentInvAll
<1>2. CASE UNCHANGED vars
  BY <1>1, <1>2 DEF vars, executorVars
<1>3. CASE \E b \in Behaviors : ExecutorStep(b)
  BY <1>3, ExecutorPatience
<1>4. CASE \E a \in Agents : AgentStep(a)
  BY <1>4, AgentPatience
<1>5. CASE (\E x \in Actions : Fly(x) \/ Land(x)) \/ Crash \/ Restart
  BY <1>1, <1>5 DEF Fly, Land, Crash, Restart, executorVars
<1>6. CASE Tick
  BY <1>6, TickPatience
<1>7. QED
  BY <1>2, <1>3, <1>4, <1>5, <1>6 DEF Next

LEMMA AgentInvariant ==
  ASSUME Fits
  PROVE  Spec => []AgentInvAll
<1>1. Init => AgentInvAll
  BY InitAgents
<1>2. SequenceInv /\ AgentInvAll /\ [Next]_vars => AgentInvAll'
  BY NextAgents
<1>3. QED
  BY <1>1, <1>2, SequenceInvariant, PTL DEF Spec

(* The budget of execute_behavior() in ros_agent_srv, one discovery and    *)
(* one call per possible action and a rest, covers whatever happens to the *)
(* behavior.  So step() plans only when all behaviors of its agent have    *)
(* been answered, from an observation made after the last of them.         *)
THEOREM AgentsPlanAfterBehaviors ==
  ASSUME IsFiniteSet(Agents)
  PROVE  Spec => []PlansAfterBehavior
<1>1. CASE Cardinality(Agents) <= Threads
  <2>1. Fits
    BY <1>1 DEF Fits
  <2>2. AgentInvAll => PlansAfterBehavior
    BY DEF AgentInvAll, AgentInv, DoneUpTo, PlansAfterBehavior
  <2>3. QED
    BY <2>1, <2>2, AgentInvariant, PTL
<1>2. CASE ~(Cardinality(Agents) <= Threads)
  <2>1. PlansAfterBehavior
    BY <1>2 DEF PlansAfterBehavior
  <2>2. QED
    BY <2>1, PTL
<1>3. QED
  BY <1>1, <1>2

(* As long as there are no more agents than threads, no call of            *)
(* execute_behavior ends in SERVICE_CALL_FAILED for want of an answer: no  *)
(* behavior goes on without its agent.                                     *)
THEOREM NoAgentGivesUp ==
  ASSUME IsFiniteSet(Agents), Cardinality(Agents) <= Threads
  PROVE  Spec => [][\A a \in Agents : ~GiveUp(a)]_vars
<1>1. Fits
  BY DEF Fits
<1>2. SequenceInv /\ AgentInvAll => \A a \in Agents : ~GiveUp(a)
  BY PatienceLeft DEF GiveUp
<1>3. QED
  BY <1>1, <1>2, AgentInvariant, SequenceInvariant, PTL
=============================================================================
