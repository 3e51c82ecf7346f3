-------------------------- MODULE MCFlightBackend ---------------------------
(* Instances of the backend: which flights there are, in which skill and   *)
(* order, and how often each may be cancelled.                             *)
EXTENDS FlightBackend, TLC
CONSTANTS f1, f2, f3, l1

MCCalls == UNION {FlightCalls(f) : f \in Flights}
MCExecOf == [c \in Calls |-> ExecId(c)]
MCKindOf == [c \in Calls |-> CommandId(c)]
MCLoopOf == [c \in Calls |-> TheLoop]
MCExecutions == {ExecId(c) : c \in Calls}
MCKinds == {CommandId(c) : c \in Calls}

OneGoto == f1 :> "goto"
TwoCancels == f1 :> 2
NoOrder == f1 :> {}

(* A flight by PX4 mode, then one by Offboard targets. *)
TakeoffGoto == (f1 :> "takeoff") @@ (f2 :> "goto")
CancelGoto == (f1 :> 0) @@ (f2 :> 1)
OneByOne == (f1 :> {}) @@ (f2 :> {f1})

TwoGotos == (f1 :> "goto") @@ (f2 :> "goto")
CancelFirstOfTwo == (f1 :> 1) @@ (f2 :> 0)

(* Two flights of one target stream, and a landing that ends it. *)
GotoGotoLand == (f1 :> "goto") @@ (f2 :> "goto") @@ (f3 :> "land")
CancelFirst == (f1 :> 1) @@ (f2 :> 0) @@ (f3 :> 0)
InOrder == (f1 :> {}) @@ (f2 :> {f1}) @@ (f3 :> {f1, f2})

(* What no action and no invariant of the run with this view reads is left  *)
(* out of the states: the history of the transport, the outcome of a call   *)
(* that has returned and of its result all but Abandoned, of a status all   *)
(* but a success, and which flights were cut.  Quiet reads `credited' too,  *)
(* but with Others = {} there is nothing there for it to find.              *)
WithoutPast == <<boundLoop, closed, lock, pending, pc, ackVars,
  {c \in Calls : Abandoned(c)},
  [c \in Calls |-> IF pc[c] = "waiting" THEN outcome[c] ELSE "none"],
  {f \in Flights : status[f] = "SUCCEEDED"}, cut = {},
  active, offboard, cancelled, stream, at, cancelAt, running, asked, px4Vars>>
=============================================================================
