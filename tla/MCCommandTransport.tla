------------------------- MODULE MCCommandTransport -------------------------
(* Instances of the adapter's callers, all with one command id.  TwoLoops: *)
(* two calls of one execution on one loop, which queue for the lock, and a *)
(* third call on another loop, as the action server's successive           *)
(* asyncio.run() calls use the adapter; the two are interchangeable.       *)
(* Pair: two calls of two executions on one loop.                          *)
(* MaxScheduled bounds the ACKs scheduled on a loop and not yet run.       *)
EXTENDS CommandTransport, TLC
CONSTANTS c1, c2, c3, o1, l1, l2, e1, e2, mode, MaxScheduled

PairLoopOf == [c \in {c1, c2} |-> l1]
TwoLoopsOf == (c1 :> l1) @@ (c2 :> l1) @@ (c3 :> l2)
BothExecOf == (c1 :> e1) @@ (c2 :> e2)
ThreeExecOf == (c1 :> e1) @@ (c2 :> e1) @@ (c3 :> e2)
OneKind == [c \in Commands |-> mode]

OneLoopCalls == Permutations({c1, c2})
FewScheduled == \A l \in Loops : Len(loopAcks[l]) <= MaxScheduled
=============================================================================
