---------------------------- MODULE HumanApproval ----------------------------
(***************************************************************************)
(* HumanApprovalRegistry and its state machines: one request of approval   *)
(* per proposal, and one decision per request.  The caller supplies the    *)
(* time of each event; calls that raise change nothing.                    *)
(***************************************************************************)
EXTENDS Integers, Sequences, SequenceTheorems, TLAPS

CONSTANTS
  Approvals,  \* approval ids
  Proposals,  \* proposal ids
  Digests     \* proposal_digest() of a proposal's contents

VARIABLES
  machines,     \* the requests of the values of _machines
  proposalIds,  \* _proposal_ids
  status,       \* _status, by approval id
  results       \* history: the results returned, with the time given

vars == <<machines, proposalIds, status, results>>

Statuses == {"PENDING", "APPROVED", "REJECTED", "TIMED_OUT"}
Events == {"APPROVE", "REJECT", "TIMEOUT"}
Requests == [approval : Approvals, proposal : Proposals, digest : Digests,
             requested_at : Int, timeout : Nat]
Results == [approval : Approvals, proposal : Proposals, digest : Digests, status : Statuses, at : Int]
Deadline(m) == m.requested_at + m.timeout

TypeOK ==
  /\ machines \subseteq Requests /\ proposalIds \subseteq Proposals
  /\ status \in [Approvals -> Statuses]
  /\ results \in Seq(Results)

Init == machines = {} /\ proposalIds = {} /\ status = [a \in Approvals |-> "PENDING"] /\ results = <<>>

(* submit(): an approval id or a proposal that is already known is refused.*)
Submit(r) ==
  /\ \A m \in machines : m.approval # r.approval
  /\ r.proposal \notin proposalIds
  /\ machines' = machines \cup {r}
  /\ proposalIds' = proposalIds \cup {r.proposal}
  /\ UNCHANGED <<status, results>>

(* The status an event leads to; the deadline itself is too late. *)
NextStatus(m, event, now) ==
  IF event = "TIMEOUT" \/ now >= Deadline(m) THEN "TIMED_OUT"
  ELSE IF event = "APPROVE" THEN "APPROVED" ELSE "REJECTED"

(* transition() *)
Transition(m, event, proposal, now) ==
  /\ status[m.approval] = "PENDING"
  /\ now >= m.requested_at
  /\ IF event = "TIMEOUT" THEN now >= Deadline(m) ELSE proposal = m.proposal
  /\ status' = [status EXCEPT ![m.approval] = NextStatus(m, event, now)]
  /\ results' = Append(results, [approval |-> m.approval, proposal |-> m.proposal, digest |-> m.digest,
                                 status |-> NextStatus(m, event, now), at |-> now])
  /\ UNCHANGED <<machines, proposalIds>>

Next ==
  \/ \E r \in Requests : Submit(r)
  \/ \E m \in machines, event \in Events, proposal \in Proposals, now \in Int :
       Transition(m, event, proposal, now)

Spec == Init /\ [][Next]_vars

-----------------------------------------------------------------------------
(* A proposal is decided once, under whatever approval ids it is submitted *)
(* and however often decisions and time-outs are delivered.                *)
DecidedOnce ==
  \A i, j \in 1..Len(results) : results[i].proposal = results[j].proposal => i = j

(* A decision speaks of the contents that were submitted, and is a human's *)
(* only if it was made before the deadline and not before the request.     *)
DecidedInTime ==
  \A i \in 1..Len(results) :
    \E m \in machines :
      /\ m.approval = results[i].approval /\ m.proposal = results[i].proposal
      /\ m.digest = results[i].digest
      /\ results[i].status \in {"APPROVED", "REJECTED"}
           => results[i].at \in m.requested_at..(Deadline(m) - 1)
      /\ results[i].status = "TIMED_OUT" => results[i].at >= Deadline(m)

(* What was decided stays decided. *)
DecisionsStand == [][\A a \in Approvals : status[a] # "PENDING" => status'[a] = status[a]]_vars

-----------------------------------------------------------------------------
(* Approval ids and proposals belong to one request each, and a request    *)
(* with a result is not pending any more.                                  *)
RegistryInv ==
  /\ \A m \in machines : m.proposal \in proposalIds
  /\ \A m, n \in machines : m.approval = n.approval \/ m.proposal = n.proposal => m = n
  /\ \A i \in 1..Len(results) : status[results[i].approval] # "PENDING"

IInv == TypeOK /\ RegistryInv /\ DecidedInTime /\ DecidedOnce

LEMMA InitIInv == Init => IInv
<1> SUFFICES ASSUME Init PROVE IInv
  OBVIOUS
<1>1. results = <<>> /\ results \in Seq(Results) /\ 1..Len(results) = {}
  BY DEF Init
<1>2. status \in [Approvals -> Statuses]
  BY DEF Init, Statuses
<1>3. QED
  BY <1>1, <1>2 DEF Init, IInv, TypeOK, RegistryInv, DecidedInTime, DecidedOnce

LEMMA SubmitKeeps ==
  ASSUME IInv, NEW r \in Requests, Submit(r)
  PROVE  IInv'
<1>1. TypeOK'
  BY DEF IInv, TypeOK, Submit, Requests
<1>2. RegistryInv'
  BY DEF IInv, RegistryInv, Submit
<1>3. DecidedInTime'
  <2> SUFFICES ASSUME NEW i \in 1..Len(results)
               PROVE  \E m \in machines' :
                        /\ m.approval = results[i].approval /\ m.proposal = results[i].proposal
                        /\ m.digest = results[i].digest
                        /\ results[i].status \in {"APPROVED", "REJECTED"}
                             => results[i].at \in m.requested_at..(Deadline(m) - 1)
                        /\ results[i].status = "TIMED_OUT" => results[i].at >= Deadline(m)
    BY DEF Submit, DecidedInTime, Deadline
  <2>1. machines \subseteq machines'
    BY DEF Submit
  <2>2. QED
    BY <2>1 DEF IInv, DecidedInTime
<1>4. DecidedOnce'
  BY DEF IInv, DecidedOnce, Submit
<1>5. QED
  BY <1>1, <1>2, <1>3, <1>4 DEF IInv

LEMMA TransitionKeeps ==
  ASSUME IInv, NEW m \in machines, NEW event \in Events, NEW proposal \in Proposals, NEW now \in Int,
         Transition(m, event, proposal, now)
  PROVE  IInv'
<1> DEFINE s == NextStatus(m, event, now)
           result == [approval |-> m.approval, proposal |-> m.proposal, digest |-> m.digest,
                      status |-> s, at |-> now]
<1>1. /\ m \in Requests /\ results \in Seq(Results) /\ Len(results) \in Nat
      /\ status \in [Approvals -> Statuses] /\ machines' = machines /\ proposalIds' = proposalIds
  BY DEF IInv, TypeOK, Transition
<1>2. s \in Statuses /\ s # "PENDING"
  BY DEF NextStatus, Statuses
<1>3. result \in Results
  BY <1>1, <1>2 DEF Requests, Results
<1>4. /\ results' \in Seq(Results) /\ Len(results') = Len(results) + 1
      /\ results'[Len(results) + 1] = result /\ \A i \in 1..Len(results) : results'[i] = results[i]
  <2>1. results' = Append(results, result)
    BY DEF Transition
  <2> HIDE DEF result
  <2>2. QED
    BY <1>1, <1>3, <2>1, AppendProperties
<1>5. status' = [status EXCEPT ![m.approval] = s] /\ m.approval \in Approvals
  BY <1>1 DEF Transition, Requests
<1>6. TypeOK'
  BY <1>1, <1>2, <1>4, <1>5 DEF IInv, TypeOK
<1>7. \A i \in 1..Len(results') : i \in 1..Len(results) \/ i = Len(results) + 1
  BY <1>1, <1>4
<1>8. RegistryInv'
  <2>1. ASSUME NEW i \in 1..Len(results') PROVE status'[results'[i].approval] # "PENDING"
    <3>1. CASE i \in 1..Len(results)
      <4>0. results[i] \in Results
        BY <1>1, <3>1
      <4>1. results[i].approval \in Approvals
        BY <4>0 DEF Results
      <4>2. status[results[i].approval] # "PENDING" /\ results'[i] = results[i]
        BY <1>4, <3>1 DEF IInv, RegistryInv
      <4>3. QED
        BY <1>1, <1>2, <1>5, <4>1, <4>2
    <3>2. CASE i = Len(results) + 1
      BY <1>1, <1>2, <1>4, <1>5, <3>2
    <3>3. QED
      BY <1>7, <3>1, <3>2
  <2>2. QED
    BY <1>1, <2>1 DEF IInv, RegistryInv
<1>9. DecidedInTime'
  <2> SUFFICES ASSUME NEW i \in 1..Len(results')
               PROVE  \E n \in machines :
                        /\ n.approval = results'[i].approval /\ n.proposal = results'[i].proposal
                        /\ n.digest = results'[i].digest
                        /\ results'[i].status \in {"APPROVED", "REJECTED"}
                             => results'[i].at \in n.requested_at..(Deadline(n) - 1)
                        /\ results'[i].status = "TIMED_OUT" => results'[i].at >= Deadline(n)
    BY <1>1 DEF DecidedInTime, Deadline
  <2>1. CASE i \in 1..Len(results)
    BY <1>4, <2>1 DEF IInv, DecidedInTime
  <2>2. CASE i = Len(results) + 1
    <3>1. results'[i] = result
      BY <1>4, <2>2
    <3>2. m.requested_at \in Int /\ Deadline(m) \in Int /\ now >= m.requested_at
      BY <1>1 DEF Requests, Deadline, Transition
    <3>3. s \in {"APPROVED", "REJECTED"} => now \in m.requested_at..(Deadline(m) - 1)
      <4>1. now >= Deadline(m) => s = "TIMED_OUT"
        BY DEF NextStatus
      <4>2. s \in {"APPROVED", "REJECTED"} => ~(now >= Deadline(m))
        BY <4>1
      <4> HIDE DEF s
      <4>3. QED
        BY <3>2, <4>2
    <3>4. s = "TIMED_OUT" => now >= Deadline(m)
      BY <3>2 DEF NextStatus, Transition
    <3>5. QED
      BY <3>1, <3>3, <3>4
  <2>3. QED
    BY <1>7, <2>1, <2>2
<1>10. DecidedOnce'
  <2>1. ASSUME NEW i \in 1..Len(results) PROVE results[i].proposal # m.proposal
    <3>1. PICK n \in machines : n.approval = results[i].approval /\ n.proposal = results[i].proposal
      BY DEF IInv, DecidedInTime
    <3>2. n # m
      BY <3>1 DEF IInv, RegistryInv, Transition
    <3>3. QED
      BY <3>1, <3>2 DEF IInv, RegistryInv
  <2>2. result.proposal = m.proposal
    OBVIOUS
  <2> HIDE DEF result
  <2>3. ASSUME NEW i \in 1..Len(results'), NEW j \in 1..Len(results'),
               results'[i].proposal = results'[j].proposal
        PROVE  i = j
    BY <1>4, <1>7, <2>1, <2>2, <2>3 DEF IInv, DecidedOnce
  <2>4. QED
    BY <2>3 DEF DecidedOnce
<1>11. QED
  BY <1>6, <1>8, <1>9, <1>10 DEF IInv

LEMMA IInvStep == IInv /\ [Next]_vars => IInv'
<1>1. CASE UNCHANGED vars
  BY <1>1 DEF vars, IInv, TypeOK, RegistryInv, DecidedInTime, DecidedOnce
<1>2. QED
  BY <1>1, SubmitKeeps, TransitionKeeps DEF Next

LEMMA IInvAlways == Spec => []IInv
BY InitIInv, IInvStep, PTL DEF Spec

(* HumanApprovalRegistry.submit() with the state machine's guard: neither a*)
(* repeated request nor a repeated event decides a proposal again.         *)
THEOREM ProposalsDecidedOnce == Spec => []DecidedOnce
<1>1. IInv => DecidedOnce
  BY DEF IInv
<1>2. QED
  BY <1>1, IInvAlways, PTL

(* transition(): an approval was given for the submitted contents, after   *)
(* the request and strictly before its deadline.                           *)
THEOREM DecisionsInTime == Spec => []DecidedInTime
<1>1. IInv => DecidedInTime
  BY DEF IInv
<1>2. QED
  BY <1>1, IInvAlways, PTL

(* A decision is final: no later event changes it. *)
THEOREM DecisionsAreFinal == Spec => DecisionsStand
<1>1. IInv /\ [Next]_vars => [\A a \in Approvals : status[a] # "PENDING" => status'[a] = status[a]]_vars
  BY DEF Next, Submit, Transition, IInv, TypeOK, Requests
<1>2. QED
  BY <1>1, IInvAlways, PTL DEF DecisionsStand, Spec
=============================================================================
