--------------------------- MODULE GatedExecution ---------------------------
(***************************************************************************)
(* What the safety gate promises of each action proposal, whatever fails:  *)
(* it flies at most once, only after it was approved, and never while      *)
(* another one flies.                                                      *)
(***************************************************************************)
CONSTANT Proposals

VARIABLE stage   \* of each proposal

Stages == {"open", "refused", "approved", "dropped", "flying", "over"}

Init == stage = [p \in Proposals |-> "open"]

Move(p, from, to) == stage[p] = from /\ stage' = [stage EXCEPT ![p] = to]

Refuse(p) == Move(p, "open", "refused")
Approve(p) == Move(p, "open", "approved")
Drop(p) == Move(p, "approved", "dropped")
Launch(p) == Move(p, "approved", "flying") /\ \A q \in Proposals : stage[q] # "flying"
Finish(p) == Move(p, "flying", "over")

Next == \E p \in Proposals : Refuse(p) \/ Approve(p) \/ Drop(p) \/ Launch(p) \/ Finish(p)

Spec == Init /\ [][Next]_stage
=============================================================================
