---------------------------- MODULE FlightService -----------------------------
(***************************************************************************)
(* What the flight execution backend promises of each flight, whatever PX4,*)
(* the network and the cancellations do: flights are executed one at a     *)
(* time and end once; a flight is reported a success only if nobody asked  *)
(* for its cancellation, and CANCELLED only if somebody did.               *)
(***************************************************************************)
CONSTANTS Tasks, None

VARIABLES
  stage,     \* of each flight
  verdict    \* what execute() returned, None before

Stages == {"waiting", "flying", "stopping", "over"}
serviceVars == <<stage, verdict>>

Init ==
  /\ stage = [t \in Tasks |-> "waiting"]
  /\ verdict = [t \in Tasks |-> None]

NoneUnderWay == \A t \in Tasks : stage[t] \in {"waiting", "over"}

Goes(t, from, to) ==
  /\ stage[t] \in from
  /\ stage' = [stage EXCEPT ![t] = to]

Ends(t, from, s) ==
  /\ Goes(t, from, "over")
  /\ verdict' = [verdict EXCEPT ![t] = s]

Refuse(t) == NoneUnderWay /\ Ends(t, {"waiting"}, "FAILED")
Begin(t) == NoneUnderWay /\ Goes(t, {"waiting"}, "flying") /\ UNCHANGED verdict
Stop(t) == Goes(t, {"flying"}, "stopping") /\ UNCHANGED verdict

Succeed(t) == Ends(t, {"flying"}, "SUCCEEDED")
GiveUp(t) == Ends(t, {"stopping"}, "CANCELLED")
Fail(t) == \E s \in {"TIMED_OUT", "REJECTED_BY_PX4"} : Ends(t, {"flying", "stopping"}, s)

Next == \E t \in Tasks : Refuse(t) \/ Begin(t) \/ Stop(t) \/ Succeed(t) \/ GiveUp(t) \/ Fail(t)

Spec == Init /\ [][Next]_serviceVars
=============================================================================
