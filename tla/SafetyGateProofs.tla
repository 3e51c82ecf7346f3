-------------------------- MODULE SafetyGateProofs --------------------------
(***************************************************************************)
(* What the safety gate guarantees for any number of requests, whatever    *)
(* the vehicle, the clock, the pilot, the backend and the trace file do,   *)
(* and wherever the process crashes.                                       *)
(***************************************************************************)
EXTENDS SafetyGate, SequenceTheorems, TLAPS

Deciding == {"received", "proposed", "readingLimit", "decided"}
Flown == {"executing", "returned", "raised"}

Untouched(p) == dispatches[p] = 0 /\ \A i \in DOMAIN trace : trace[i].proposal # p

(* What the place of the handler says of the proposal being served: until   *)
(* its verdict is written nothing is, from then on only the approval is,    *)
(* and the backend has the command once from the dispatch on.               *)
HandlerInv ==
  /\ pc # "idle" => Current \in Proposals
  /\ pc = "returned" => status \in FinalStatuses
  /\ \A p \in Proposals : p > served \/ (p = served /\ pc \in Deciding) => Untouched(p)
  /\ pc = "approved" => Recorded(Current, "APPROVE") /\ dispatches[Current] = 0
  /\ pc \in Flown => Recorded(Current, "APPROVE") /\ dispatches[Current] = 1
  /\ pc \in Flown \cup {"approved"} =>
       \A i \in DOMAIN trace : trace[i].proposal = Current => trace[i].kind = "APPROVE"
  /\ \A p \in Proposals : replies[p] # None => p < served \/ (p = served /\ pc = "idle")

GateInv ==
  /\ HandlerTypes /\ HandlerInv
  /\ DecisionWrittenAhead /\ DispatchedOnce /\ TraceWellFormed /\ RepliesMatchTrace

-----------------------------------------------------------------------------
(* Appending an entry keeps the others and adds exactly that one. *)
LEMMA Recording ==
  ASSUME HandlerTypes, Current \in Proposals,
         NEW k \in Verdicts \cup FinalStatuses \cup {"ERROR"}, Record(k)
  PROVE  /\ trace' \in Seq(Entries)
         /\ DOMAIN trace = 1..Len(trace) /\ DOMAIN trace' = 1..(Len(trace) + 1)
         /\ Len(trace) \in Nat
         /\ \A i \in 1..Len(trace) : trace'[i] = trace[i]
         /\ trace'[Len(trace) + 1] = [proposal |-> Current, kind |-> k]
         /\ \A p, kind : Recorded(p, kind)' <=> Recorded(p, kind) \/ (p = Current /\ kind = k)
<1> DEFINE e == [proposal |-> Current, kind |-> k]
<1>1. e \in Entries /\ trace \in Seq(Entries) /\ trace' = Append(trace, e)
  BY DEF Entries, HandlerTypes, Record
<1>2. /\ trace' \in Seq(Entries)
      /\ DOMAIN trace = 1..Len(trace) /\ DOMAIN trace' = 1..(Len(trace) + 1)
      /\ Len(trace) \in Nat
      /\ \A i \in 1..Len(trace) : trace'[i] = trace[i]
      /\ trace'[Len(trace) + 1] = e
  BY <1>1
<1>3. ASSUME NEW p, NEW kind
      PROVE  Recorded(p, kind)' <=> Recorded(p, kind) \/ (p = Current /\ kind = k)
  <2> DEFINE x == [proposal |-> p, kind |-> kind]
  <2>1. Recorded(p, kind) <=> \E i \in 1..Len(trace) : trace[i] = x
    BY <1>2 DEF Recorded
  <2>2. Recorded(p, kind)' <=> \E i \in 1..(Len(trace) + 1) : trace'[i] = x
    BY <1>2 DEF Recorded
  <2>3. e = x <=> p = Current /\ kind = k
    OBVIOUS
  <2> HIDE DEF e, x
  <2>4. (\E i \in 1..(Len(trace) + 1) : trace'[i] = x) <=> (\E i \in 1..Len(trace) : trace[i] = x) \/ e = x
    BY <1>2
  <2>5. QED
    BY <2>1, <2>2, <2>3, <2>4
<1>4. QED
  BY <1>2, <1>3

LEMMA TraceKept ==
  ASSUME trace' = trace
  PROVE  \A p, k : Recorded(p, k)' <=> Recorded(p, k)
BY DEF Recorded

-----------------------------------------------------------------------------
LEMMA InitGate == Init => GateInv
<1> SUFFICES ASSUME Init PROVE GateInv
  OBVIOUS
<1>1. HandlerTypes
  BY GateAssumption DEF Init, HandlerTypes, Stages
<1>2. HandlerInv
  BY DEF Init, HandlerInv, Untouched, Deciding, Flown, Proposals
<1>3. DecisionWrittenAhead /\ DispatchedOnce
  BY DEF Init, DecisionWrittenAhead, DispatchedOnce
<1>4. TraceWellFormed
  BY DEF Init, TraceWellFormed
<1>5. RepliesMatchTrace
  BY GateAssumption DEF Init, RepliesMatchTrace, Replies
<1>6. QED
  BY <1>1, <1>2, <1>3, <1>4, <1>5 DEF GateInv

(* Steps of the other threads, and stuttering. *)
LEMMA QuietKeeps ==
  ASSUME GateInv, HandlerTypes', UNCHANGED <<served, pc, status, trace, dispatches, replies>>
  PROVE  GateInv'
BY DEF GateInv, HandlerInv, DecisionWrittenAhead, DispatchedOnce, TraceWellFormed,
       RepliesMatchTrace, Untouched, Recorded, Current, Deciding, Flown

(* The handler goes on deciding. *)
LEMMA DecidingKeeps ==
  ASSUME GateInv, HandlerTypes', pc \in Deciding, pc' \in Deciding,
         UNCHANGED <<served, trace, dispatches, replies>>
  PROVE  GateInv'
BY DEF GateInv, HandlerInv, DecisionWrittenAhead, DispatchedOnce, TraceWellFormed,
       RepliesMatchTrace, Untouched, Recorded, Current, Deciding, Flown

(* The handler gives up without writing to the trace. *)
LEMMA GivingUpKeeps ==
  ASSUME GateInv, HandlerTypes', pc # "idle", pc' = "idle", UNCHANGED <<served, trace, dispatches>>,
         NEW r \in Replies \ {"success", "failure"}, replies' = [replies EXCEPT ![Current] = r]
  PROVE  GateInv'
<1>1. /\ Current \in Proposals
      /\ \A p \in Proposals : replies'[p] = IF p = Current THEN r ELSE replies[p]
  BY DEF GateInv, HandlerInv, HandlerTypes
<1>2. HandlerInv'
  BY <1>1 DEF GateInv, HandlerInv, Untouched, Recorded, Current, Deciding, Flown, Proposals
<1>3. DecisionWrittenAhead' /\ DispatchedOnce' /\ TraceWellFormed'
  BY DEF GateInv, DecisionWrittenAhead, DispatchedOnce, TraceWellFormed, Recorded
<1>4. RepliesMatchTrace'
  BY <1>1 DEF GateInv, RepliesMatchTrace, Recorded
<1>5. QED
  BY <1>2, <1>3, <1>4 DEF GateInv

-----------------------------------------------------------------------------
(* A step of the handler never breaks the types. *)
LEMMA EnvironmentTypes ==
  ASSUME GateInv, Environment
  PROVE  HandlerTypes'
<1>1. CASE Tick
  BY <1>1, GateAssumption DEF Tick, GateInv, HandlerTypes, handlerVars, historyVars
<1>2. CASE PublishSnapshot
  BY <1>2, GateAssumption DEF PublishSnapshot, GateInv, HandlerTypes, handlerVars, historyVars
<1>3. CASE ChangeAuthority
  BY <1>3 DEF ChangeAuthority, GateInv, HandlerTypes, handlerVars, historyVars
<1>4. CASE Crash
  <2>1. replies' \in [Proposals -> Replies \cup {None}]
    BY <1>4 DEF Crash, GateInv, HandlerTypes, Replies
  <2>2. QED
    BY <1>4, <2>1, GateAssumption DEF Crash, GateInv, HandlerTypes, Stages
<1>5. QED
  BY <1>1, <1>2, <1>3, <1>4 DEF Environment

LEMMA GoTypes ==
  ASSUME HandlerTypes, NEW stage \in Stages, Go(stage),
         status' \in FinalStatuses \cup {None}, decision' \in Verdicts \cup {None},
         trace' \in Seq(Entries), dispatches' \in [Proposals -> Nat], UNCHANGED replies
  PROVE  HandlerTypes'
BY DEF Go, HandlerTypes, environmentVars

LEMMA ReplyTypes ==
  ASSUME HandlerTypes, NEW r \in Replies, Reply(r), trace' \in Seq(Entries), UNCHANGED dispatches
  PROVE  HandlerTypes'
<1>1. replies' \in [Proposals -> Replies \cup {None}]
  BY DEF Reply, HandlerTypes
<1>2. QED
  BY <1>1 DEF Reply, HandlerTypes, environmentVars, Stages

-----------------------------------------------------------------------------
LEMMA EnvironmentKeeps ==
  ASSUME GateInv, Environment
  PROVE  GateInv'
<1>t. HandlerTypes'
  BY EnvironmentTypes
<1>1. CASE Tick \/ PublishSnapshot \/ ChangeAuthority
  BY <1>t, <1>1, QuietKeeps DEF Tick, PublishSnapshot, ChangeAuthority, handlerVars, historyVars
<1>2. CASE Crash /\ pc # "idle"
  BY <1>t, <1>2, GivingUpKeeps DEF Crash, Replies
<1>3. CASE Crash /\ pc = "idle"
  BY <1>t, <1>3 DEF Crash, GateInv, HandlerInv, DecisionWrittenAhead, DispatchedOnce, TraceWellFormed,
       RepliesMatchTrace, Untouched, Recorded, Current, Deciding, Flown
<1>4. QED
  BY <1>1, <1>2, <1>3 DEF Environment

LEMMA ReceiveKeeps ==
  ASSUME GateInv, Receive
  PROVE  GateInv'
<1>1. /\ pc = "idle" /\ served' = served + 1 /\ served' \in Proposals /\ served \in Nat
      /\ pc' \in {"idle", "received"}
      /\ UNCHANGED <<status, trace, dispatches>>
      /\ \/ replies' = replies
         \/ pc' = "idle" /\ replies' = [replies EXCEPT ![served'] = "INVALID_INPUT"]
  <2>1. /\ pc = "idle" /\ served' = served + 1 /\ served < MaxServed /\ served \in 0..MaxServed
        /\ UNCHANGED <<status, trace, dispatches>>
    BY DEF Receive, GateInv, HandlerTypes
  <2>2. served' \in Proposals /\ served \in Nat
    BY <2>1, GateAssumption DEF Proposals
  <2>3. \/ pc' = "received" /\ replies' = replies
        \/ pc' = pc /\ replies' = [replies EXCEPT ![served'] = "INVALID_INPUT"]
    BY <2>1 DEF Receive
  <2>4. QED
    BY <2>1, <2>2, <2>3
<1>2. HandlerTypes'
  <2>1. replies' \in [Proposals -> Replies \cup {None}]
    BY <1>1 DEF GateInv, HandlerTypes, Replies
  <2>2. pc' \in Stages /\ request' \in Requests \cup {None} /\ served' \in 0..MaxServed
    BY <1>1 DEF Receive, GateInv, HandlerTypes, Stages, Proposals
  <2>3. QED
    BY <1>1, <2>1, <2>2 DEF Receive, GateInv, HandlerTypes, environmentVars
<1>3. \A p \in Proposals :
        replies'[p] = replies[p] \/ (p = served' /\ pc' = "idle" /\ replies'[p] = "INVALID_INPUT")
  BY <1>1 DEF GateInv, HandlerTypes
<1>4. HandlerInv'
  BY <1>1, <1>3 DEF GateInv, HandlerInv, Untouched, Recorded, Current, Deciding, Flown, Proposals
<1>5. DecisionWrittenAhead' /\ DispatchedOnce' /\ TraceWellFormed'
  BY <1>1 DEF GateInv, DecisionWrittenAhead, DispatchedOnce, TraceWellFormed, Recorded
<1>6. RepliesMatchTrace'
  BY <1>1, <1>3 DEF GateInv, RepliesMatchTrace, Recorded
<1>7. QED
  BY <1>2, <1>4, <1>5, <1>6 DEF GateInv

LEMMA RejectionKeeps ==
  ASSUME GateInv, RecordRejection
  PROVE  GateInv'
<1>1. /\ pc = "decided" /\ pc' = "idle" /\ Current \in Proposals /\ Current' = Current
      /\ UNCHANGED <<served, dispatches>>
      /\ replies' = [replies EXCEPT ![Current] = "failure"]
      /\ dispatches[Current] = 0 /\ \A i \in DOMAIN trace : trace[i].proposal # Current
  BY DEF RecordRejection, Reply, GateInv, HandlerInv, Untouched, Deciding, Current
<1> DEFINE n == Len(trace) + 1
<1>2. /\ trace' \in Seq(Entries) /\ n \in Nat
      /\ DOMAIN trace = 1..(n - 1) /\ DOMAIN trace' = 1..n
      /\ \A i \in 1..(n - 1) : trace'[i] = trace[i]
      /\ trace'[n] = [proposal |-> Current, kind |-> "REJECT"]
      /\ \A p, k : Recorded(p, k)' <=> Recorded(p, k) \/ (p = Current /\ k = "REJECT")
  BY <1>1, Recording DEF RecordRejection, GateInv, Verdicts
<1>3. HandlerTypes'
  BY <1>2, ReplyTypes DEF RecordRejection, GateInv, Replies
<1>4. \A p \in Proposals : replies'[p] = IF p = Current THEN "failure" ELSE replies[p]
  BY <1>1 DEF GateInv, HandlerTypes
<1> HIDE DEF n
<1>5. HandlerInv'
  BY <1>1, <1>2, <1>4 DEF GateInv, HandlerInv, Untouched, Current, Deciding, Flown, Proposals
<1>6. DecisionWrittenAhead' /\ DispatchedOnce'
  BY <1>1, <1>2 DEF GateInv, DecisionWrittenAhead, DispatchedOnce
<1>7. TraceWellFormed'
  BY <1>1, <1>2 DEF GateInv, TraceWellFormed
<1>8. RepliesMatchTrace'
  BY <1>1, <1>2, <1>4 DEF GateInv, RepliesMatchTrace
<1>9. QED
  BY <1>3, <1>5, <1>6, <1>7, <1>8 DEF GateInv

LEMMA ApprovalKeeps ==
  ASSUME GateInv, RecordApproval
  PROVE  GateInv'
<1>1. /\ pc = "decided" /\ pc' = "approved" /\ Current \in Proposals /\ Current' = Current
      /\ UNCHANGED <<served, dispatches, replies, status, decision>>
      /\ dispatches[Current] = 0 /\ \A i \in DOMAIN trace : trace[i].proposal # Current
  BY DEF RecordApproval, Go, historyVars, GateInv, HandlerInv, Untouched, Deciding, Current
<1> DEFINE n == Len(trace) + 1
<1>2. /\ trace' \in Seq(Entries) /\ n \in Nat
      /\ DOMAIN trace = 1..(n - 1) /\ DOMAIN trace' = 1..n
      /\ \A i \in 1..(n - 1) : trace'[i] = trace[i]
      /\ trace'[n] = [proposal |-> Current, kind |-> "APPROVE"]
      /\ \A p, k : Recorded(p, k)' <=> Recorded(p, k) \/ (p = Current /\ k = "APPROVE")
  BY <1>1, Recording DEF RecordApproval, GateInv, Verdicts
<1>3. HandlerTypes'
  BY <1>1, <1>2, GoTypes DEF RecordApproval, GateInv, HandlerTypes, Stages
<1> HIDE DEF n
<1>4. HandlerInv'
  BY <1>1, <1>2 DEF GateInv, HandlerInv, Untouched, Current, Deciding, Flown, Proposals
<1>5. DecisionWrittenAhead' /\ DispatchedOnce'
  BY <1>1, <1>2 DEF GateInv, DecisionWrittenAhead, DispatchedOnce
<1>6. TraceWellFormed'
  BY <1>1, <1>2 DEF GateInv, TraceWellFormed
<1>7. RepliesMatchTrace'
  BY <1>1, <1>2 DEF GateInv, RepliesMatchTrace
<1>8. QED
  BY <1>3, <1>4, <1>5, <1>6, <1>7 DEF GateInv

LEMMA DispatchKeeps ==
  ASSUME GateInv, Dispatch
  PROVE  GateInv'
<1>1. /\ pc = "approved" /\ pc' = "executing" /\ Current \in Proposals /\ Current' = Current
      /\ UNCHANGED <<served, trace, replies, status, decision>>
      /\ dispatches[Current] = 0 /\ Recorded(Current, "APPROVE")
  BY DEF Dispatch, Go, GateInv, HandlerInv, Current
<1>2. /\ \A p \in Proposals : dispatches'[p] = IF p = Current THEN 1 ELSE dispatches[p]
      /\ dispatches' \in [Proposals -> Nat]
  BY <1>1 DEF Dispatch, GateInv, HandlerTypes
<1>3. HandlerTypes'
  BY <1>1, <1>2, GoTypes DEF Dispatch, GateInv, HandlerTypes, Stages
<1>4. HandlerInv'
  BY <1>1, <1>2 DEF GateInv, HandlerInv, Untouched, Recorded, Current, Deciding, Flown, Proposals
<1>5. DecisionWrittenAhead' /\ DispatchedOnce'
  BY <1>1, <1>2 DEF GateInv, DecisionWrittenAhead, DispatchedOnce, Recorded
<1>6. TraceWellFormed'
  <2> SUFFICES ASSUME NEW i \in DOMAIN trace, NEW j \in DOMAIN trace,
                      i < j, trace[i].proposal = trace[j].proposal
               PROVE  /\ trace[i].kind = "APPROVE" /\ trace[j].kind \notin Verdicts
                      /\ dispatches'[trace[i].proposal] > 0
    BY <1>1 DEF TraceWellFormed
  <2>1. trace[i].proposal \in Proposals
    <3>1. trace \in Seq(Entries)
      BY DEF GateInv, HandlerTypes
    <3>2. trace[i] \in Entries
      BY <3>1
    <3>3. QED
      BY <3>2 DEF Entries
  <2>2. QED
    BY <1>2, <2>1 DEF GateInv, TraceWellFormed
<1>7. RepliesMatchTrace'
  BY <1>1, <1>2 DEF GateInv, HandlerInv, RepliesMatchTrace, Recorded, Current
<1>8. QED
  BY <1>3, <1>4, <1>5, <1>6, <1>7 DEF GateInv

LEMMA BackendKeeps ==
  ASSUME GateInv, BackendReturns \/ BackendRaises
  PROVE  GateInv'
<1>1. /\ pc = "executing" /\ pc' \in {"returned", "raised"}
      /\ pc' = "returned" => status' \in FinalStatuses
      /\ UNCHANGED <<served, trace, replies, dispatches>>
  BY DEF BackendReturns, BackendRaises, Go, historyVars
<1>2. HandlerTypes'
  BY <1>1, GoTypes DEF BackendReturns, BackendRaises, historyVars, GateInv, HandlerTypes, Stages
<1>3. QED
  BY <1>1, <1>2 DEF GateInv, HandlerInv, DecisionWrittenAhead, DispatchedOnce, TraceWellFormed,
       RepliesMatchTrace, Untouched, Recorded, Current, Deciding, Flown

(* The outcome of a flight is written: RecordResult or RecordError. *)
LEMMA OutcomeKeeps ==
  ASSUME GateInv, HandlerTypes', pc \in {"returned", "raised"}, pc' = "idle",
         UNCHANGED <<served, dispatches>>,
         NEW k \in FinalStatuses \cup {"ERROR"}, Record(k),
         NEW r \in Replies, replies' = [replies EXCEPT ![Current] = r],
         r = "success" => k = "SUCCEEDED",
         r = "failure" => k \in FinalStatuses \ {"SUCCEEDED"}
  PROVE  GateInv'
<1>1. /\ Current \in Proposals /\ Current' = Current
      /\ dispatches[Current] = 1 /\ Recorded(Current, "APPROVE")
      /\ \A i \in DOMAIN trace : trace[i].proposal = Current => trace[i].kind = "APPROVE"
  BY DEF GateInv, HandlerInv, Flown, Current
<1> DEFINE n == Len(trace) + 1
<1>2. /\ trace' \in Seq(Entries) /\ n \in Nat
      /\ DOMAIN trace = 1..(n - 1) /\ DOMAIN trace' = 1..n
      /\ \A i \in 1..(n - 1) : trace'[i] = trace[i]
      /\ trace'[n] = [proposal |-> Current, kind |-> k]
      /\ \A p, kind : Recorded(p, kind)' <=> Recorded(p, kind) \/ (p = Current /\ kind = k)
  BY <1>1, Recording DEF GateInv
<1>3. k \notin Verdicts
  BY DEF Verdicts, FinalStatuses
<1>4. \A p \in Proposals : replies'[p] = IF p = Current THEN r ELSE replies[p]
  BY <1>1 DEF GateInv, HandlerTypes
<1> HIDE DEF n
<1>5. HandlerInv'
  BY <1>1, <1>2, <1>4 DEF GateInv, HandlerInv, Untouched, Current, Deciding, Flown, Proposals
<1>6. DecisionWrittenAhead' /\ DispatchedOnce'
  BY <1>1, <1>2 DEF GateInv, DecisionWrittenAhead, DispatchedOnce
<1>7. TraceWellFormed'
  BY <1>1, <1>2, <1>3 DEF GateInv, TraceWellFormed
<1>8. RepliesMatchTrace'
  BY <1>1, <1>2, <1>4 DEF GateInv, RepliesMatchTrace
<1>9. QED
  BY <1>5, <1>6, <1>7, <1>8 DEF GateInv

-----------------------------------------------------------------------------
LEMMA DecideKeeps ==
  ASSUME GateInv, Decide
  PROVE  GateInv'
<1>1. CASE ReadForProposal \/ ReadForGate \/ ReadLimit \/ LimitUnavailable
  <2>1. /\ pc \in Deciding /\ pc' \in Deciding /\ UNCHANGED <<served, trace, dispatches, replies, status>>
        /\ decision' \in Verdicts \cup {None} /\ Go(pc')
    BY <1>1 DEF ReadForProposal, ReadForGate, ReadLimit, LimitUnavailable, Go, Deciding, historyVars,
                GateInv, HandlerTypes, Verdicts
  <2>2. HandlerTypes'
    BY <2>1, GoTypes DEF GateInv, HandlerTypes, Stages, Deciding
  <2>3. QED
    BY <2>1, <2>2, DecidingKeeps
<1>2. CASE StateUnavailable \/ LimitReadRaises \/ DecisionTraceFails
  <2>1. /\ pc # "idle" /\ Reply("SERVICE_ERROR") /\ UNCHANGED <<trace, dispatches>>
        /\ "SERVICE_ERROR" \in Replies \ {"success", "failure"}
    BY <1>2 DEF StateUnavailable, LimitReadRaises, DecisionTraceFails, Replies
  <2>2. HandlerTypes'
    BY <2>1, ReplyTypes DEF GateInv, HandlerTypes
  <2>3. QED
    BY <2>1, <2>2, GivingUpKeeps DEF Reply
<1>3. QED
  BY <1>1, <1>2, RejectionKeeps, ApprovalKeeps DEF Decide

LEMMA ExecuteKeeps ==
  ASSUME GateInv, Execute
  PROVE  GateInv'
<1>1. CASE ResultTraceFails \/ ErrorTraceFails
  <2>1. /\ pc # "idle" /\ Reply("SERVICE_ERROR") /\ UNCHANGED <<trace, dispatches>>
        /\ "SERVICE_ERROR" \in Replies \ {"success", "failure"}
    BY <1>1 DEF ResultTraceFails, ErrorTraceFails, Replies
  <2>2. HandlerTypes'
    BY <2>1, ReplyTypes DEF GateInv, HandlerTypes
  <2>3. QED
    BY <2>1, <2>2, GivingUpKeeps DEF Reply
<1>2. CASE RecordResult
  <2> DEFINE r == IF status = "SUCCEEDED" THEN "success" ELSE "failure"
  <2>1. /\ pc = "returned" /\ status \in FinalStatuses /\ Current \in Proposals
        /\ Record(status) /\ Reply(r) /\ UNCHANGED dispatches /\ r \in Replies
        /\ r = "success" => status = "SUCCEEDED"
        /\ r = "failure" => status \in FinalStatuses \ {"SUCCEEDED"}
    BY <1>2 DEF RecordResult, GateInv, HandlerInv, Current, Replies
  <2> HIDE DEF r
  <2>2. trace' \in Seq(Entries)
    BY <2>1, Recording DEF GateInv
  <2>3. HandlerTypes'
    BY <2>1, <2>2, ReplyTypes DEF GateInv
  <2>4. QED
    BY <2>1, <2>3, OutcomeKeeps DEF Reply
<1>3. CASE RecordError
  <2>1. /\ pc = "raised" /\ Current \in Proposals
        /\ Record("ERROR") /\ Reply("SERVICE_ERROR") /\ UNCHANGED dispatches
        /\ "SERVICE_ERROR" \in Replies
    BY <1>3 DEF RecordError, GateInv, HandlerInv, Current, Replies
  <2>2. trace' \in Seq(Entries)
    BY <2>1, Recording DEF GateInv
  <2>3. HandlerTypes'
    BY <2>1, <2>2, ReplyTypes DEF GateInv
  <2>4. QED
    BY <2>1, <2>3, OutcomeKeeps DEF Reply
<1>4. QED
  BY <1>1, <1>2, <1>3, DispatchKeeps, BackendKeeps DEF Execute

LEMMA NextGate == GateInv /\ [Next]_vars => GateInv'
<1> SUFFICES ASSUME GateInv, [Next]_vars PROVE GateInv'
  OBVIOUS
<1>1. CASE UNCHANGED vars
  <2>1. HandlerTypes'
    BY <1>1 DEF GateInv, HandlerTypes, vars, environmentVars, handlerVars, historyVars
  <2>2. QED
    BY <1>1, <2>1, QuietKeeps DEF vars, environmentVars, handlerVars, historyVars
<1>2. QED
  BY <1>1, EnvironmentKeeps, ReceiveKeeps, DecideKeeps, ExecuteKeeps DEF Next

LEMMA GateInvariant == Spec => []GateInv
  BY InitGate, NextGate, PTL DEF Spec

(* A command reaches the backend only after its approval is in the trace   *)
(* file, wherever submit() fails or the process dies.                      *)
THEOREM ApprovalWrittenAhead == Spec => []DecisionWrittenAhead
<1>1. GateInv => DecisionWrittenAhead
  BY DEF GateInv
<1>2. QED
  BY <1>1, GateInvariant, PTL

(* submit() gives the backend each approved command at most once, whatever *)
(* fails after the dispatch.                                               *)
THEOREM CommandsFlyOnce == Spec => []DispatchedOnce
<1>1. GateInv => DispatchedOnce
  BY DEF GateInv
<1>2. QED
  BY <1>1, GateInvariant, PTL

(* The JSONL trace holds, per proposal, one verdict and then at most one   *)
(* outcome, and outcomes only of approved and dispatched commands.         *)
THEOREM TraceStaysWellFormed == Spec => []TraceWellFormed
<1>1. GateInv => TraceWellFormed
  BY DEF GateInv
<1>2. QED
  BY <1>1, GateInvariant, PTL

(* What _handle_action() answers is what the trace file says. *)
THEOREM RepliesAreTraced == Spec => []RepliesMatchTrace
<1>1. GateInv => RepliesMatchTrace
  BY DEF GateInv
<1>2. QED
  BY <1>1, GateInvariant, PTL

-----------------------------------------------------------------------------
(* The gate implements GatedExecution: every step moves at most the        *)
(* proposal being served, along one of the promised moves.                 *)
LEMMA StageKept ==
  ASSUME \A p \in Proposals : StageOf(p)' = StageOf(p)
  PROVE  UNCHANGED [p \in Proposals |-> StageOf(p)]
OBVIOUS

LEMMA StageMoved ==
  ASSUME NEW c \in Proposals, NEW from, NEW to,
         StageOf(c) = from, StageOf(c)' = to,
         \A p \in Proposals \ {c} : StageOf(p)' = StageOf(p)
  PROVE  Promise!Move(c, from, to)
BY DEF Promise!Move

(* Only the proposal being served is approved or flying, and only while    *)
(* its handler is about to dispatch it or waits for the backend.           *)
LEMMA StageOfServed ==
  ASSUME GateInv
  PROVE  /\ \A p \in Proposals : StageOf(p) = "flying" => p = Current /\ pc = "executing"
         /\ pc = "executing" => StageOf(Current) = "flying"
         /\ pc = "approved" => StageOf(Current) = "approved"
         /\ pc \in Deciding => StageOf(Current) = "open"
<1>1. \A p \in Proposals : StageOf(p) = "flying" => p = Current /\ pc = "executing"
  BY DEF StageOf
<1>2. pc = "executing" => StageOf(Current) = "flying"
  BY DEF StageOf, GateInv, HandlerInv, Flown
<1>3. pc = "approved" => StageOf(Current) = "approved"
  BY DEF StageOf, GateInv, HandlerInv
<1>4. ASSUME pc \in Deciding PROVE StageOf(Current) = "open"
  <2>1. Untouched(Current)
    BY <1>4 DEF GateInv, HandlerInv, Current, Deciding
  <2>2. dispatches[Current] = 0 /\ ~Recorded(Current, "APPROVE") /\ ~Recorded(Current, "REJECT")
    BY <2>1 DEF Untouched, Recorded
  <2>3. QED
    BY <2>2 DEF StageOf
<1>5. QED
  BY <1>1, <1>2, <1>3, <1>4

(* Steps that neither dispatch nor write a verdict, and at whose ends the  *)
(* handler is not between the approval and the backend's return.           *)
LEMMA StagesUnmoved ==
  ASSUME UNCHANGED dispatches,
         \A p \in Proposals, k \in Verdicts : Recorded(p, k)' <=> Recorded(p, k),
         \/ pc \notin {"approved", "executing"} /\ pc' \notin {"approved", "executing"}
         \/ pc' = pc /\ Current' = Current
  PROVE  UNCHANGED [p \in Proposals |-> StageOf(p)]
<1>1. ASSUME NEW p \in Proposals PROVE StageOf(p)' = StageOf(p)
  BY DEF StageOf, Verdicts
<1>2. QED
  BY <1>1, StageKept

LEMMA InitPromise == Init => Promise!Init
BY DEF Init, Promise!Init, StageOf, Recorded

LEMMA StepPromise == GateInv /\ [Next]_vars => [Promise!Next]_([p \in Proposals |-> StageOf(p)])
<1> SUFFICES ASSUME GateInv, [Next]_vars
             PROVE  Promise!Next \/ UNCHANGED [p \in Proposals |-> StageOf(p)]
  OBVIOUS
<1>1. CASE UNCHANGED vars \/ Tick \/ PublishSnapshot \/ ChangeAuthority
  BY <1>1, TraceKept, StagesUnmoved
     DEF Tick, PublishSnapshot, ChangeAuthority, vars, handlerVars, historyVars, Current
<1>2. CASE Crash
  <2>1. pc' = "idle" /\ UNCHANGED <<served, trace, dispatches>> /\ Current' = Current
    BY <1>2 DEF Crash, Current
  <2>2. CASE pc \notin {"approved", "executing"}
    BY <2>1, <2>2, TraceKept, StagesUnmoved
  <2>3. CASE pc \in {"approved", "executing"}
    <3>1. Current \in Proposals
      BY <2>3 DEF GateInv, HandlerInv
    <3>2. \A p \in Proposals \ {Current} : StageOf(p)' = StageOf(p)
      BY <2>1, TraceKept DEF StageOf, Current
    <3>3. CASE pc = "approved"
      <4>1. StageOf(Current) = "approved" /\ StageOf(Current)' = "dropped"
        BY <2>1, <3>1, <3>3, TraceKept, StageOfServed DEF StageOf, Current, GateInv, HandlerInv
      <4>2. Promise!Drop(Current)
        BY <2>1, <3>1, <3>2, <4>1, StageMoved DEF Promise!Drop
      <4>3. QED
        BY <3>1, <4>2 DEF Promise!Next
    <3>4. CASE pc = "executing"
      <4>1. StageOf(Current) = "flying" /\ StageOf(Current)' = "over"
        BY <2>1, <3>1, <3>4, TraceKept, StageOfServed DEF StageOf, Current, GateInv, HandlerInv, Flown
      <4>2. Promise!Finish(Current)
        BY <2>1, <3>1, <3>2, <4>1, StageMoved DEF Promise!Finish
      <4>3. QED
        BY <3>1, <4>2 DEF Promise!Next
    <3>5. QED
      BY <2>3, <3>3, <3>4
  <2>4. QED
    BY <2>2, <2>3
<1>3. CASE Receive
  <2>1. pc = "idle" /\ pc' \in {"idle", "received"} /\ UNCHANGED <<trace, dispatches>>
    BY <1>3 DEF Receive
  <2>2. QED
    BY <2>1, TraceKept, StagesUnmoved
<1>4. CASE ReadForProposal \/ StateUnavailable \/ ReadForGate \/ ReadLimit \/ LimitUnavailable
             \/ LimitReadRaises \/ DecisionTraceFails \/ ResultTraceFails \/ ErrorTraceFails
  <2>1. /\ pc \notin {"approved", "executing"} /\ pc' \notin {"approved", "executing"}
        /\ UNCHANGED <<trace, dispatches>>
    BY <1>4 DEF ReadForProposal, StateUnavailable, ReadForGate, ReadLimit, LimitUnavailable,
         LimitReadRaises, DecisionTraceFails, ResultTraceFails, ErrorTraceFails, Go, Reply, historyVars
  <2>2. QED
    BY <2>1, TraceKept, StagesUnmoved
<1>5. CASE RecordRejection \/ RecordApproval
  <2>1. /\ pc = "decided" /\ Current \in Proposals /\ Current' = Current /\ UNCHANGED dispatches
        /\ pc' = IF decision = "REJECT" THEN "idle" ELSE "approved"
        /\ decision \in Verdicts /\ Record(decision)
        /\ Untouched(Current)
    BY <1>5 DEF RecordRejection, RecordApproval, Go, Reply, historyVars, Verdicts, GateInv, HandlerInv,
                Current, Deciding
  <2>2. \A p, k : Recorded(p, k)' <=> Recorded(p, k) \/ (p = Current /\ k = decision)
    BY <2>1, Recording DEF GateInv
  <2>3. /\ StageOf(Current) = "open"
        /\ StageOf(Current)' = IF decision = "REJECT" THEN "refused" ELSE "approved"
    <3>1. ~Recorded(Current, "APPROVE") /\ ~Recorded(Current, "REJECT") /\ dispatches[Current] = 0
      BY <2>1 DEF Untouched, Recorded
    <3>2. QED
      BY <2>1, <2>2, <3>1 DEF StageOf, Verdicts
  <2>4. \A p \in Proposals \ {Current} : StageOf(p)' = StageOf(p)
    BY <2>1, <2>2 DEF StageOf
  <2>5. QED
    BY <2>1, <2>3, <2>4, StageMoved DEF Promise!Next, Promise!Refuse, Promise!Approve
<1>6. CASE Dispatch
  <2>1. /\ pc = "approved" /\ pc' = "executing" /\ Current \in Proposals /\ Current' = Current
        /\ UNCHANGED trace
        /\ dispatches[Current] = 0 /\ dispatches' = [dispatches EXCEPT ![Current] = @ + 1]
        /\ dispatches \in [Proposals -> Nat]
    BY <1>6 DEF Dispatch, Go, GateInv, HandlerInv, HandlerTypes, Current
  <2>2. /\ dispatches'[Current] = 1
        /\ \A p \in Proposals \ {Current} : dispatches'[p] = dispatches[p]
    BY <2>1
  <2>3. StageOf(Current) = "approved" /\ StageOf(Current)' = "flying"
    BY <2>1, <2>2, StageOfServed DEF StageOf
  <2>4. \A p \in Proposals \ {Current} : StageOf(p)' = StageOf(p)
    BY <2>1, <2>2, TraceKept DEF StageOf
  <2>5. \A q \in Proposals : StageOf(q) # "flying"
    BY <2>1, StageOfServed
  <2>6. Promise!Launch(Current)
    BY <2>1, <2>3, <2>4, <2>5, StageMoved DEF Promise!Launch
  <2>7. QED
    BY <2>1, <2>6 DEF Promise!Next
<1>7. CASE BackendReturns \/ BackendRaises
  <2>1. /\ pc = "executing" /\ pc' \in {"returned", "raised"} /\ Current \in Proposals
        /\ Current' = Current /\ UNCHANGED <<trace, dispatches>> /\ dispatches[Current] = 1
    BY <1>7 DEF BackendReturns, BackendRaises, Go, historyVars, GateInv, HandlerInv, Current, Flown
  <2>2. StageOf(Current) = "flying" /\ StageOf(Current)' = "over"
    BY <2>1, StageOfServed DEF StageOf
  <2>3. \A p \in Proposals \ {Current} : StageOf(p)' = StageOf(p)
    BY <2>1, TraceKept DEF StageOf
  <2>4. QED
    BY <2>1, <2>2, <2>3, StageMoved DEF Promise!Next, Promise!Finish
<1>8. CASE RecordResult \/ RecordError
  <2>1. PICK k \in FinalStatuses \cup {"ERROR"} : Record(k)
    BY <1>8 DEF RecordResult, RecordError, GateInv, HandlerInv
  <2>2. /\ pc \in {"returned", "raised"} /\ pc' = "idle" /\ Current \in Proposals
        /\ UNCHANGED dispatches
    BY <1>8 DEF RecordResult, RecordError, Reply, GateInv, HandlerInv, Current
  <2>3. \A p \in Proposals, v \in Verdicts : Recorded(p, v)' <=> Recorded(p, v)
    BY <2>1, <2>2, Recording DEF GateInv, Verdicts, FinalStatuses
  <2>4. QED
    BY <2>2, <2>3, StagesUnmoved
<1>9. QED
  BY <1>1, <1>2, <1>3, <1>4, <1>5, <1>6, <1>7, <1>8 DEF Next, Environment, Decide, Execute

(* Whatever fails, the gate keeps the promise GatedExecution states: each  *)
(* proposal flies at most once, only approved, and never beside another.   *)
THEOREM GateKeepsPromise == Spec => KeepsPromise
<1>1. Init => Promise!Init
  BY InitPromise
<1>2. GateInv /\ [Next]_vars => [Promise!Next]_([p \in Proposals |-> StageOf(p)])
  BY StepPromise
<1>3. QED
  BY <1>1, <1>2, GateInvariant, PTL DEF Spec, KeepsPromise, Promise!Spec

-----------------------------------------------------------------------------
(* The snapshots and the evidence taken from them are of their types.      *)
DataInv ==
  /\ EvidenceTypes
  /\ pc # "idle" => request \in Requests
  /\ pc = "proposed" => latest \in States
  /\ pc = "readingLimit" => checked \in States
  /\ pc \in {"proposed", "readingLimit"} => basedOn \in 1..MaxSnapshots

LEMMA SnapshotTypes ==
  /\ \A b \in Bodies, i \in 1..MaxSnapshots, t \in (-1)..MaxTime, age \in 0..1 :
       Snapshot(b, i, t, age) \in States
  /\ \A x \in States : x.id \in 1..MaxSnapshots
<1>1. \A b \in Bodies : "id" \in DOMAIN b
  BY DataAssumption DEF BodyFields
<1>2. \A b \in Bodies, i \in 1..MaxSnapshots, t \in (-1)..MaxTime, age \in 0..1 :
        Snapshot(b, i, t, age) \in States
  BY DEF States
<1>3. ASSUME NEW x \in States
      PROVE  x.id \in 1..MaxSnapshots
  <2>1. PICK b \in Bodies, i \in 1..MaxSnapshots, t \in (-1)..MaxTime, age \in 0..1 :
          x = Snapshot(b, i, t, age)
    BY DEF States
  <2>2. x.id = i
    BY <1>1, <2>1 DEF Snapshot
  <2>3. QED
    BY <2>2
<1>4. QED
  BY <1>2, <1>3

LEMMA NextData == HandlerTypes /\ HandlerInv /\ DataInv /\ [Next]_vars => DataInv'
<1> SUFFICES ASSUME HandlerTypes, HandlerInv, DataInv, [Next]_vars PROVE DataInv'
  OBVIOUS
<1>1. CASE UNCHANGED vars \/ Tick \/ ChangeAuthority
  BY <1>1 DEF Tick, ChangeAuthority, vars, environmentVars, handlerVars, historyVars, DataInv, EvidenceTypes
<1>2. CASE PublishSnapshot
  <2>1. PICK b \in Bodies, age \in 0..1 :
          latest' = Snapshot(b, snapshots + 1, now - age, age)
    BY <1>2 DEF PublishSnapshot
  <2>2. snapshots + 1 \in 1..MaxSnapshots /\ now - age \in (-1)..MaxTime
    BY <1>2, GateAssumption DEF PublishSnapshot, HandlerTypes
  <2>3. latest' \in States
    BY <2>1, <2>2, SnapshotTypes
  <2>4. QED
    BY <1>2, <2>3 DEF PublishSnapshot, handlerVars, historyVars, DataInv, EvidenceTypes
<1>3. CASE Crash
  BY <1>3 DEF Crash, DataInv, EvidenceTypes
<1>4. CASE Receive
  <2>1. /\ pc = "idle" /\ pc' \in {"idle", "received"}
        /\ pc' # "idle" => request' \in Requests
        /\ UNCHANGED <<latest, checked, basedOn, evidence>>
    BY <1>4 DEF Receive, environmentVars
  <2>2. QED
    BY <2>1 DEF DataInv, EvidenceTypes
<1>5. CASE ReadForProposal
  <2>1. /\ pc = "received" /\ pc' = "proposed" /\ latest \in States /\ basedOn' = latest.id
        /\ UNCHANGED <<latest, request, checked, evidence>>
    BY <1>5 DEF ReadForProposal, Go, environmentVars, historyVars, DataInv, EvidenceTypes
  <2>2. QED
    BY <2>1, SnapshotTypes DEF DataInv, EvidenceTypes
<1>6. CASE ReadForGate
  BY <1>6 DEF ReadForGate, Go, environmentVars, historyVars, DataInv, EvidenceTypes
<1>7. CASE ReadLimit
  <2>1. /\ pc = "readingLimit" /\ pc' = "decided"
        /\ UNCHANGED <<latest, request, checked, basedOn>>
    BY <1>7 DEF ReadLimit, Go, environmentVars
  <2>2. evidence' \in [Proposals -> Evidence \cup {None}]
    <3>1. PICK limit \in SpeedReadings :
            \/ evidence' = evidence
            \/ evidence' = [evidence EXCEPT ![Current] =
                 [request |-> request, state |-> checked, basedOn |-> basedOn,
                  limit |-> limit, decidedAt |-> now]]
      BY <1>7 DEF ReadLimit
    <3>2. [request |-> request, state |-> checked, basedOn |-> basedOn,
           limit |-> limit, decidedAt |-> now] \in Evidence
      BY <2>1 DEF DataInv, HandlerTypes, Evidence
    <3>3. QED
      BY <3>1, <3>2 DEF DataInv, EvidenceTypes
  <2>3. QED
    BY <2>1, <2>2 DEF DataInv, EvidenceTypes
<1>8. CASE LimitUnavailable \/ RecordApproval \/ BackendReturns \/ BackendRaises \/ Dispatch
  BY <1>8 DEF LimitUnavailable, RecordApproval, BackendReturns, BackendRaises, Dispatch, Go, environmentVars,
              historyVars, DataInv, EvidenceTypes
<1>9. CASE StateUnavailable \/ LimitReadRaises \/ DecisionTraceFails \/ ResultTraceFails
             \/ ErrorTraceFails \/ RecordRejection \/ RecordResult \/ RecordError
  BY <1>9 DEF StateUnavailable, LimitReadRaises, DecisionTraceFails, ResultTraceFails, ErrorTraceFails,
              RecordRejection, RecordResult, RecordError, Reply, environmentVars, DataInv, EvidenceTypes
<1>10. QED
  BY <1>1, <1>2, <1>3, <1>4, <1>5, <1>6, <1>7, <1>8, <1>9 DEF Next, Environment, Decide, Execute

(* Every variable is of its type: the handler's state, the trace and the   *)
(* replies, and also the snapshots the server and the gate read and the    *)
(* evidence the approvals rest on.                                         *)
THEOREM GateTypes == Spec => []TypeOK
<1>1. Init => DataInv
  BY DEF Init, DataInv, EvidenceTypes
<1>2. GateInv /\ DataInv => TypeOK
  BY DEF GateInv, DataInv, TypeOK
<1>3. GateInv => HandlerTypes /\ HandlerInv
  BY DEF GateInv
<1>4. QED
  BY <1>1, <1>2, <1>3, NextData, GateInvariant, PTL DEF Spec

-----------------------------------------------------------------------------
(* The evidence of a decision is fixed in the step that makes it: the      *)
(* command that flies later is still the one it was gathered for.  The     *)
(* checks made before the speed-limit read hold of the very request and    *)
(* state the decision is about.                                            *)
Sampled(s) ==
  /\ s.received \in Int /\ s.ageAtSnapshot \in Int
  /\ s.landed \in BOOLEAN \cup {Unknown}
  /\ s.position = Unknown \/ Point(s.position)
  /\ s.homeNed = Unknown \/ Point(s.homeNed)

Passed(r, s) ==
  /\ r \in Requests /\ Sampled(s)
  /\ SchemaReasons(r, Limits) = {} /\ SkillReasons(r, s, Limits) = {}

Sound(e) ==
  /\ Passed(e.request, e.state)
  /\ e.basedOn = e.state.id
  /\ e.decidedAt - e.state.received <= Limits.maxAge
  /\ e.limit \in 1..Limits.maxSpeed

EvidenceInv ==
  /\ evidence = [p \in Proposals |-> evidence[p]]
  /\ latest # None \/ pc = "proposed" => Sampled(latest)
  /\ pc # "idle" => request \in Requests
  /\ pc = "readingLimit" => Passed(request, checked)
  /\ (pc = "decided" /\ decision = "APPROVE") \/ pc = "approved" => Sound(evidence[Current])
  /\ \A p \in Proposals : dispatches[p] > 0 => Sound(evidence[p])

LEMMA NoReasonsLeft ==
  ASSUME NEW limit \in SpeedReadings, now \in Int, Sampled(checked), LateReasons(limit) = {}
  PROVE  /\ basedOn = checked.id /\ limit \in 1..Limits.maxSpeed
         /\ now - checked.received <= Limits.maxAge
<1>1. SpeedReasons(limit, Limits) = {} /\ StateReasons(basedOn, Limits, checked, now) = {}
  BY DEF LateReasons
<1>2. limit \in 1..Limits.maxSpeed
  BY <1>1, GateAssumption, DataAssumption DEF SpeedReasons
<1>3. basedOn = checked.id /\ ~(AgeAt(checked, now) > Limits.maxAge)
  BY <1>1 DEF StateReasons
<1>4. now - checked.received <= Limits.maxAge
  BY <1>3, DataAssumption DEF AgeAt, Sampled
<1>5. QED
  BY <1>2, <1>3, <1>4

LEMMA NextEvidence == GateInv /\ EvidenceInv /\ [Next]_vars => EvidenceInv'
<1> SUFFICES ASSUME GateInv, EvidenceInv, [Next]_vars PROVE EvidenceInv'
  OBVIOUS
<1>1. CASE UNCHANGED vars \/ Tick \/ ChangeAuthority
  BY <1>1 DEF Tick, ChangeAuthority, vars, environmentVars, handlerVars, historyVars, EvidenceInv,
              Current
<1>2. CASE PublishSnapshot
  <2>1. Sampled(latest')
    <3>1. PICK b \in Bodies, age \in 0..1 :
            latest' = Snapshot(b, snapshots + 1, now - age, age)
      BY <1>2 DEF PublishSnapshot
    <3>2. now \in Int /\ BodyFields \subseteq DOMAIN b
      BY DataAssumption DEF GateInv, HandlerTypes
    <3>3. /\ latest'.received = now - age /\ latest'.ageAtSnapshot = age
          /\ latest'.landed = b.landed /\ latest'.position = b.position /\ latest'.homeNed = b.homeNed
      BY <3>1, <3>2 DEF BodyFields, Snapshot
    <3>4. QED
      BY <3>2, <3>3, DataAssumption DEF Sampled
  <2>2. QED
    BY <1>2, <2>1 DEF PublishSnapshot, handlerVars, historyVars, EvidenceInv, Current
<1>3. CASE Crash
  BY <1>3 DEF Crash, EvidenceInv, Current
<1>4. CASE Receive
  <2>1. /\ pc = "idle" /\ pc' \in {"idle", "received"}
        /\ pc' # "idle" => request' \in Requests
        /\ UNCHANGED <<latest, dispatches, evidence>>
    BY <1>4 DEF Receive, environmentVars
  <2>2. QED
    BY <2>1 DEF EvidenceInv
<1>5a. CASE ReadForGate
  <2>1. /\ pc = "proposed" /\ checked' = latest /\ UNCHANGED <<request, latest, dispatches, evidence>>
        /\ pc' \in {"readingLimit", "decided"}
        /\ pc' = "decided" => decision' = "REJECT"
        /\ pc' = "readingLimit" => EarlyReasons(request, basedOn, latest, Limits, authority, now) = {}
    BY <1>5a DEF ReadForGate, Go, environmentVars, historyVars
  <2>2. pc' = "readingLimit" => SchemaReasons(request, Limits) = {} /\ SkillReasons(request, latest, Limits) = {}
    BY <2>1 DEF EarlyReasons
  <2>3. request \in Requests /\ Sampled(latest)
    BY <2>1 DEF EvidenceInv
  <2>4. pc' = "readingLimit" => Passed(request', checked')
    BY <2>1, <2>2, <2>3 DEF Passed
  <2>5. QED
    BY <2>1, <2>3, <2>4 DEF EvidenceInv
<1>5. CASE ReadForProposal \/ LimitUnavailable
  BY <1>5 DEF ReadForProposal, LimitUnavailable, Go, environmentVars, historyVars,
              EvidenceInv, Current
<1>6. CASE ReadLimit
  <2>1. /\ pc = "readingLimit" /\ pc' = "decided" /\ Current' = Current /\ Current \in Proposals
        /\ UNCHANGED <<latest, dispatches>> /\ dispatches[Current] = 0 /\ now \in Int
    BY <1>6 DEF ReadLimit, Go, environmentVars, GateInv, HandlerInv, HandlerTypes, Untouched, Deciding, Current
  <2>2. \/ decision' = "REJECT" /\ evidence' = evidence
        \/ \E e : evidence' = [evidence EXCEPT ![Current] = e] /\ Sound(e)
    <3>1. PICK limit \in SpeedReadings :
            \/ decision' = "REJECT" /\ evidence' = evidence
            \/ /\ LateReasons(limit) = {}
               /\ evidence' = [evidence EXCEPT ![Current] =
                    [request |-> request, state |-> checked, basedOn |-> basedOn,
                     limit |-> limit, decidedAt |-> now]]
      BY <1>6 DEF ReadLimit
    <3>2. CASE decision' = "REJECT" /\ evidence' = evidence
      BY <3>2
    <3>3. CASE LateReasons(limit) = {} /\
               evidence' = [evidence EXCEPT ![Current] =
                    [request |-> request, state |-> checked, basedOn |-> basedOn,
                     limit |-> limit, decidedAt |-> now]]
      <4>1. Passed(request, checked) /\ Sampled(checked)
        BY <2>1 DEF EvidenceInv, Passed
      <4>2. Sound([request |-> request, state |-> checked, basedOn |-> basedOn,
                   limit |-> limit, decidedAt |-> now])
        BY <2>1, <3>3, <4>1, NoReasonsLeft DEF Sound
      <4>3. QED
        BY <3>3, <4>2
    <3>4. QED
      BY <3>1, <3>2, <3>3
  <2>3. evidence' = [p \in Proposals |-> evidence'[p]]
    BY <2>2 DEF EvidenceInv
  <2>4. decision' = "APPROVE" => Sound(evidence'[Current])
    BY <2>1, <2>2 DEF EvidenceInv
  <2>5a. UNCHANGED request
    BY <1>6 DEF ReadLimit, Go
  <2>5. \A p \in Proposals : p # Current => evidence'[p] = evidence[p]
    BY <2>1, <2>2 DEF EvidenceInv
  <2>6. QED
    BY <2>1, <2>3, <2>4, <2>5, <2>5a DEF EvidenceInv
<1>7. CASE StateUnavailable \/ LimitReadRaises \/ DecisionTraceFails \/ ResultTraceFails
             \/ ErrorTraceFails \/ RecordRejection \/ RecordResult \/ RecordError
  <2>1. pc' = "idle" /\ pc # "idle" /\ UNCHANGED <<latest, dispatches, evidence>>
    BY <1>7 DEF StateUnavailable, LimitReadRaises, DecisionTraceFails, ResultTraceFails,
                ErrorTraceFails, RecordRejection, RecordResult, RecordError, Reply, environmentVars
  <2>2. QED
    BY <2>1 DEF EvidenceInv
<1>8. CASE RecordApproval \/ BackendReturns \/ BackendRaises
  BY <1>8 DEF RecordApproval, BackendReturns, BackendRaises, Go, environmentVars, historyVars,
              EvidenceInv, Current
<1>9. CASE Dispatch
  <2>1. /\ pc = "approved" /\ pc' = "executing" /\ UNCHANGED <<latest, request, evidence>>
        /\ \A p \in Proposals : p # Current => dispatches'[p] = dispatches[p]
    BY <1>9 DEF Dispatch, Go, environmentVars, GateInv, HandlerTypes
  <2>2. QED
    BY <2>1 DEF EvidenceInv, Current
<1>10. QED
  BY <1>1, <1>2, <1>3, <1>4, <1>5, <1>5a, <1>6, <1>7, <1>8, <1>9 DEF Next, Environment, Decide, Execute

LEMMA EvidenceInvariant == Spec => []EvidenceInv
<1>1. Init => EvidenceInv
  BY DEF Init, EvidenceInv
<1>2. QED
  BY <1>1, NextEvidence, GateInvariant, PTL DEF Spec

(* A dispatched command was approved on the very state its proposal was    *)
(* based on, young enough when evaluate() returned, and on a speed limit   *)
(* within the envelope, however long reading that limit took.              *)
THEOREM EvidenceIsCurrent == Spec => []DispatchRestsOnCurrentEvidence
<1>1. EvidenceInv => DispatchRestsOnCurrentEvidence
  BY DEF EvidenceInv, Sound, DispatchRestsOnCurrentEvidence
<1>2. QED
  BY <1>1, EvidenceInvariant, PTL

(* The supervisor's sequence policy, of the state and the skill alone. *)
LEMMA PassedFitsPhase ==
  ASSUME NEW r, NEW s, Passed(r, s)
  PROVE  /\ r.skill \in Limits.allowed
         /\ s.mode \notin TransitionModes
         /\ s.landed = (r.skill = "takeoff")
<1>1. r.skill \in Skills /\ r.skill \in Limits.allowed
  BY DEF Passed, SchemaReasons
<1>2. SequenceReasons(r.skill, s) = {}
  BY DEF Passed, SkillReasons
<1>3. s.landed # Unknown /\ s.mode \notin TransitionModes
  BY <1>2 DEF SequenceReasons
<1>4. s.landed \in BOOLEAN
  BY <1>3 DEF Passed, Sampled
<1>5. ASSUME s.landed = TRUE PROVE r.skill = "takeoff"
  BY <1>2, <1>3, <1>5 DEF SequenceReasons
<1>6. ASSUME s.landed = FALSE PROVE r.skill # "takeoff"
  BY <1>2, <1>3, <1>6 DEF SequenceReasons, Airborne
<1>7. s.landed = (r.skill = "takeoff")
  BY <1>4, <1>5, <1>6
<1>8. QED
  BY <1>1, <1>3, <1>7

(* A fence is convex: a straight path between two points inside it stays   *)
(* inside, so checking its two ends is enough.                             *)
LEMMA FenceIsConvex ==
  ASSUME NEW a, NEW b, NEW fence, Point(a), Point(b),
         \A field \in {"northMin", "northMax", "eastMin", "eastMax", "margin"} : fence[field] \in Int,
         Inside(fence, a), Inside(fence, b)
  PROVE  RouteInside(a, b, fence)
<1> SUFFICES ASSUME NEW n \in Span(a.north, b.north), NEW e \in Span(a.east, b.east)
             PROVE  /\ n - fence.northMin >= fence.margin /\ fence.northMax - n >= fence.margin
                    /\ e - fence.eastMin >= fence.margin /\ fence.eastMax - e >= fence.margin
  BY DEF RouteInside
<1>1. n \in Int /\ (a.north <= n \/ b.north <= n) /\ (n <= a.north \/ n <= b.north)
  BY DEF Span, Point
<1>2. e \in Int /\ (a.east <= e \/ b.east <= e) /\ (e <= a.east \/ e <= b.east)
  BY DEF Span, Point
<1>3. QED
  BY <1>1, <1>2 DEF Inside, Point

LEMMA PassedStaysInside ==
  ASSUME NEW r, NEW s, Passed(r, s), r.skill = "goto"
  PROVE  /\ s.positionValid
         /\ RouteInside(s.position, r.target, Limits.fence)
         /\ SquaredDistance(r.target, s.homeNed) <= Limits.maxRadius * Limits.maxRadius
<1>1. GeofenceReasons(r, s, Limits) = {} /\ RadiusReasons(r, s, Limits) = {}
  BY DEF Passed, SkillReasons
<1>2. Point(r.target)
  BY DataAssumption DEF Passed
<1>3. /\ s.positionValid /\ s.position # Unknown
      /\ Inside(Limits.fence, r.target) /\ Inside(Limits.fence, s.position)
  BY <1>1 DEF GeofenceReasons
<1>4. RouteInside(s.position, r.target, Limits.fence)
  BY <1>2, <1>3, FenceIsConvex, DataAssumption DEF Passed, Sampled
<1>5. s.homeNed # Unknown /\ ~(SquaredDistance(r.target, s.homeNed) > Limits.maxRadius * Limits.maxRadius)
  BY <1>1 DEF RadiusReasons
<1>6. SquaredDistance(r.target, s.homeNed) \in Int
  BY <1>2, <1>5 DEF Passed, Sampled, Point, SquaredDistance
<1>7. QED
  BY <1>3, <1>4, <1>5, <1>6, DataAssumption

(* A command flies only in a phase of flight its skill may start in. *)
THEOREM OnlyFittingSkillsFly == Spec => []FlightFitsPhase
<1>1. EvidenceInv => FlightFitsPhase
  BY PassedFitsPhase DEF EvidenceInv, Sound, FlightFitsPhase
<1>2. QED
  BY <1>1, EvidenceInvariant, PTL

(* A Goto flies only along a path inside the fence, whatever the fence. *)
THEOREM GotosStayInside == Spec => []GotoStaysInside
<1>1. EvidenceInv => GotoStaysInside
  BY PassedStaysInside DEF EvidenceInv, Sound, GotoStaysInside
<1>2. QED
  BY <1>1, EvidenceInvariant, PTL
=============================================================================
