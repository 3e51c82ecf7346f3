----------------------- MODULE CommandTransportProofs -----------------------
(***************************************************************************)
(* The command adapter's safety for any number of calls, loops, executions *)
(* and command ids: what its lock, its pending command and its counter of  *)
(* calls say of the calls inside it.                                       *)
(***************************************************************************)
EXTENDS CommandTransport, FiniteSetTheorems, TLAPS

(* The four invariants hold each other up: the counter tells the loop that *)
(* enters whether the lock may be replaced, and the lock keeps the pending *)
(* command of the call that holds it from being overwritten.               *)
AdapterInv == TypeOK /\ OneCommandInFlight /\ QueueSound /\ LifecycleAccounted

Inside == {c \in Calls : InFlight(c)}

LEMMA InsideFinite == IsFiniteSet(Inside) /\ Cardinality(Inside) \in Nat
  BY TransportAssumption, FS_Subset, FS_CardinalityType DEF Inside

(* An adapter that counts no call has none inside: its lock is free. *)
LEMMA IdleAdapter ==
  ASSUME AdapterInv, activeCalls = 0
  PROVE  /\ \A c \in Calls : ~InFlight(c)
         /\ pending = NoCall
<1>1. Inside = {}
  BY InsideFinite, FS_EmptySet DEF AdapterInv, LifecycleAccounted, Inside
<1>2. \A c \in Calls : ~InFlight(c)
  BY <1>1 DEF Inside
<1>3. pending = NoCall
  BY <1>2 DEF AdapterInv, TypeOK, OneCommandInFlight, InFlight
<1>4. QED
  BY <1>2, <1>3

(* A call inside the adapter is counted. *)
LEMMA CountedAdapter ==
  ASSUME AdapterInv, NEW c \in Calls, InFlight(c)
  PROVE  activeCalls \in Nat \ {0}
<1>1. Inside # {}
  BY DEF Inside
<1>2. QED
  BY <1>1, InsideFinite, FS_EmptySet DEF AdapterInv, LifecycleAccounted, Inside

(* Only an idle adapter is bound to another loop. *)
LEMMA EnteringKeeps ==
  ASSUME AdapterInv, NEW l \in Loops, MayEnter(l)
  PROVE  /\ boundLoop # l => \A c \in Calls : ~InFlight(c)
         /\ LockOnEntry(l) # FreeLock => boundLoop = l /\ LockOnEntry(l) = lock
  BY IdleAdapter DEF MayEnter, LockOnEntry

-----------------------------------------------------------------------------
LEMMA InitAdapter == Init => AdapterInv
<1> SUFFICES ASSUME Init PROVE AdapterInv
  OBVIOUS
<1>1. TypeOK
  BY TransportAssumption DEF Init, TypeOK, FreeLock
<1>2. OneCommandInFlight
  BY TransportAssumption DEF Init, OneCommandInFlight, FreeLock
<1>3. QueueSound
  BY DEF Init, QueueSound, FreeLock
<1>4. LifecycleAccounted
  <2>1. {c \in Calls : InFlight(c)} = {}
    BY DEF Init, InFlight
  <2>2. QED
    BY <2>1, FS_EmptySet DEF Init, LifecycleAccounted, InFlight
<1>5. QED
  BY <1>1, <1>2, <1>3, <1>4 DEF AdapterInv

LEMMA AtOnceKeeps ==
  ASSUME AdapterInv, NEW c \in Calls, SubmitAtOnce(c)
  PROVE  AdapterInv'
<1>l. LoopOf[c] \in Loops
  BY TransportAssumption
<1>f. /\ \A d \in Calls : ~InFlight(d)
      /\ pending = NoCall /\ pc[c] = "new"
  <2>1. CASE boundLoop = LoopOf[c]
    <3>1. lock = FreeLock
      BY <2>1 DEF SubmitAtOnce, LockOnEntry
    <3>2. \A d \in Calls : ~InFlight(d)
      BY <3>1, TransportAssumption DEF AdapterInv, OneCommandInFlight, QueueSound, InFlight, FreeLock
    <3>3. QED
      BY <3>2 DEF AdapterInv, TypeOK, OneCommandInFlight, InFlight, SubmitAtOnce
  <2>2. CASE boundLoop # LoopOf[c]
    BY <2>2, IdleAdapter DEF SubmitAtOnce, EnterLifecycle, MayEnter
  <2>3. QED
    BY <2>1, <2>2
<1>p. pc' = [pc EXCEPT ![c] = "waiting"] /\ pc \in [Calls -> {"new", "queued", "waiting", "returned"}]
  BY DEF SubmitAtOnce, Publish, AdapterInv, TypeOK
<1>q. lock' = [holder |-> c, waiters |-> <<>>] /\ pending' = c
  BY DEF SubmitAtOnce, Publish, FreeLock
<1>1. TypeOK'
  <2>1. lock' \in [holder : Calls \cup {NoCall}, waiters : Seq(Calls)]
    BY <1>q
  <2>2. UNCHANGED <<closed, outcome, result, wire, loopAcks, credited, ended>>
    BY DEF SubmitAtOnce, historyVars
  <2>3. /\ boundLoop' \in Loops
        /\ activeCalls' \in Nat
        /\ px4' \in [Commands -> {"unpublished", "published", "working", "answered"}]
    BY <1>l DEF SubmitAtOnce, EnterLifecycle, Publish, AdapterInv, TypeOK, Commands
  <2>4. pc' \in [Calls -> {"new", "queued", "waiting", "returned"}] /\ pending' \in Calls
    BY <1>p, <1>q
  <2>5. QED
    BY <2>1, <2>2, <2>3, <2>4 DEF AdapterInv, TypeOK
<1>2. OneCommandInFlight'
  BY <1>f, <1>p, <1>q DEF OneCommandInFlight, InFlight
<1>3. QueueSound'
  BY <1>f, <1>p, <1>q DEF QueueSound, InFlight
<1>4. LifecycleAccounted'
  <2>1. Inside' = Inside \cup {c} /\ c \notin Inside
    BY <1>f, <1>p DEF Inside, InFlight
  <2>2. activeCalls' = Cardinality(Inside')
    BY <2>1, InsideFinite, FS_AddElement DEF AdapterInv, LifecycleAccounted, Inside, SubmitAtOnce
  <2>3. \A d \in Calls : InFlight(d)' => LoopOf[d] = boundLoop' /\ boundLoop' \notin closed'
    BY <1>f, <1>p DEF InFlight, SubmitAtOnce, EnterLifecycle
  <2>4. QED
    BY <2>2, <2>3 DEF LifecycleAccounted, Inside
<1>5. QED
  BY <1>1, <1>2, <1>3, <1>4 DEF AdapterInv

LEMMA QueuedKeeps ==
  ASSUME AdapterInv, NEW c \in Calls, SubmitQueued(c)
  PROVE  AdapterInv'
<1>l. LoopOf[c] \in Loops
  BY TransportAssumption
<1>b. boundLoop = LoopOf[c] /\ boundLoop' = boundLoop /\ LoopOf[c] \notin closed /\ closed' = closed
  BY <1>l, EnteringKeeps DEF SubmitQueued, EnterLifecycle
<1>p. /\ pc' = [pc EXCEPT ![c] = "queued"] /\ pc \in [Calls -> {"new", "queued", "waiting", "returned"}]
      /\ pc[c] = "new" /\ pending' = pending
  BY DEF SubmitQueued, AdapterInv, TypeOK
<1>w. /\ lock.waiters \in Seq(Calls)
      /\ lock'.waiters = Append(lock.waiters, c)
      /\ lock'.holder = lock.holder
      /\ lock' \in [holder : Calls \cup {NoCall}, waiters : Seq(Calls)]
  <2>1. lock \in [holder : Calls \cup {NoCall}, waiters : Seq(Calls)]
    BY DEF AdapterInv, TypeOK
  <2>2. lock' = [lock EXCEPT !.waiters = Append(lock.waiters, c)]
    BY DEF SubmitQueued
  <2>3. Append(lock.waiters, c) \in Seq(Calls)
    BY <2>1
  <2>4. QED
    BY <2>1, <2>2, <2>3
<1>1. TypeOK'
  BY <1>b, <1>p, <1>w DEF AdapterInv, TypeOK, SubmitQueued, ackVars, historyVars
<1>2. OneCommandInFlight'
  BY <1>p, <1>w DEF AdapterInv, OneCommandInFlight
<1>3. QueueSound'
  <2> DEFINE q == lock.waiters
             r == lock'.waiters
             n == Len(lock.waiters)
  <2>1. /\ \A i \in 1..n : q[i] # c
        /\ \A d \in Calls : pc[d] = "queued" <=> \E i \in 1..n : q[i] = d
        /\ \A i, j \in 1..n : q[i] = q[j] => i = j
    BY <1>p DEF AdapterInv, QueueSound
  <2>2. /\ Len(r) = n + 1 /\ n \in Nat
        /\ \A i \in 1..n : r[i] = q[i]
        /\ r[n + 1] = c
    BY <1>w
  <2>3. ASSUME NEW d \in Calls PROVE pc'[d] = "queued" <=> \E i \in 1..Len(r) : r[i] = d
    <3>1. CASE d = c
      <4>1. n + 1 \in 1..Len(r)
        BY <2>2
      <4>2. QED
        BY <3>1, <4>1, <2>2, <1>p
    <3>2. CASE d # c
      <4>1. (\E i \in 1..Len(r) : r[i] = d) <=> \E i \in 1..n : q[i] = d
        <5> HIDE DEF q, r, n
        <5>1. \A i \in 1..Len(r) : i \in 1..n \/ i = n + 1
          BY <2>2
        <5>2. \A i \in 1..n : i \in 1..Len(r)
          BY <2>2
        <5>3. QED
          BY <3>2, <5>1, <5>2, <2>2
      <4>2. QED
        BY <3>2, <4>1, <2>1, <1>p
    <3>3. QED
      BY <3>1, <3>2
  <2>4. \A i, j \in 1..Len(r) : r[i] = r[j] => i = j
    <3> HIDE DEF q, r, n
    <3>1. \A i \in 1..Len(r) : i \in 1..n \/ i = n + 1
      BY <2>2
    <3>2. QED
      BY <2>1, <2>2, <3>1
  <2>5. QED
    BY <2>3, <2>4 DEF QueueSound
<1>4. LifecycleAccounted'
  <2>1. Inside' = Inside \cup {c} /\ c \notin Inside
    BY <1>p DEF Inside, InFlight
  <2>2. activeCalls' = Cardinality(Inside')
    BY <2>1, InsideFinite, FS_AddElement DEF AdapterInv, LifecycleAccounted, Inside, SubmitQueued
  <2>3. \A d \in Calls : InFlight(d)' => LoopOf[d] = boundLoop' /\ boundLoop' \notin closed'
    BY <1>b, <1>p DEF AdapterInv, LifecycleAccounted, InFlight
  <2>4. QED
    BY <2>2, <2>3 DEF LifecycleAccounted, Inside
<1>5. QED
  BY <1>1, <1>2, <1>3, <1>4 DEF AdapterInv

LEMMA AcquireKeeps ==
  ASSUME AdapterInv, NEW c \in Calls, Acquire(c)
  PROVE  AdapterInv'
<1>p. /\ pc' = [pc EXCEPT ![c] = "waiting"] /\ pc \in [Calls -> {"new", "queued", "waiting", "returned"}]
      /\ pc[c] = "queued" /\ pending' = c
  BY DEF Acquire, Publish, AdapterInv, TypeOK
<1>w. /\ lock.waiters \in Seq(Calls) /\ lock.waiters # <<>>
      /\ lock.waiters[1] = c
      /\ lock' = [holder |-> c, waiters |-> Tail(lock.waiters)]
      /\ Tail(lock.waiters) \in Seq(Calls)
  BY DEF Acquire, AdapterInv, TypeOK
<1>n. \A d \in Calls : pc[d] # "waiting"
  BY TransportAssumption DEF Acquire, AdapterInv, OneCommandInFlight
<1>1. TypeOK'
  BY <1>p, <1>w DEF AdapterInv, TypeOK, Acquire, Publish, historyVars, Commands
<1>2. OneCommandInFlight'
  BY <1>p, <1>w, <1>n DEF OneCommandInFlight
<1>3. QueueSound'
  <2>1. /\ Len(lock.waiters) \in Nat \ {0}
        /\ Len(lock'.waiters) = Len(lock.waiters) - 1
        /\ \A i \in 1..Len(lock'.waiters) : lock'.waiters[i] = lock.waiters[i + 1]
    BY <1>w
  <2>2. \A d \in Calls : pc'[d] = "queued" <=> \E i \in 1..Len(lock'.waiters) : lock'.waiters[i] = d
    <3> SUFFICES ASSUME NEW d \in Calls
                 PROVE  pc'[d] = "queued" <=> \E i \in 1..Len(lock'.waiters) : lock'.waiters[i] = d
      OBVIOUS
    <3>1. CASE d = c
      BY <3>1, <1>p, <1>w, <2>1 DEF AdapterInv, QueueSound
    <3>2. CASE d # c
      <4>1. ASSUME pc[d] = "queued"
            PROVE  \E i \in 1..Len(lock'.waiters) : lock'.waiters[i] = d
        <5>1. PICK i \in 1..Len(lock.waiters) : lock.waiters[i] = d
          BY <4>1 DEF AdapterInv, QueueSound
        <5>2. i - 1 \in 1..Len(lock'.waiters) /\ lock'.waiters[i - 1] = d
          BY <5>1, <3>2, <1>w, <2>1
        <5>3. QED
          BY <5>2
      <4>2. ASSUME NEW i \in 1..Len(lock'.waiters), lock'.waiters[i] = d
            PROVE  pc[d] = "queued"
        BY <4>2, <2>1 DEF AdapterInv, QueueSound
      <4>3. QED
        BY <3>2, <4>1, <4>2, <1>p
    <3>3. QED
      BY <3>1, <3>2
  <2>3. \A i, j \in 1..Len(lock'.waiters) : lock'.waiters[i] = lock'.waiters[j] => i = j
    BY <2>1 DEF AdapterInv, QueueSound
  <2>4. QED
    BY <2>2, <2>3 DEF QueueSound
<1>4. LifecycleAccounted'
  <2>1. Inside' = Inside /\ \A d \in Calls : InFlight(d)' <=> InFlight(d)
    BY <1>p DEF Inside, InFlight
  <2>2. QED
    BY <2>1 DEF AdapterInv, LifecycleAccounted, Inside, Acquire
<1>5. QED
  BY <1>1, <1>2, <1>3, <1>4 DEF AdapterInv

LEMMA ReturnKeeps ==
  ASSUME AdapterInv, NEW c \in Calls, Wake(c) \/ TimeOut(c)
  PROVE  AdapterInv'
<1>r. PICK r \in Results : ReturnWith(c, r)
  <2>1. CASE Wake(c)
    BY <2>1 DEF Wake, AdapterInv, TypeOK, Results
  <2>2. CASE TimeOut(c)
    BY <2>2 DEF TimeOut, Results
  <2>3. QED
    BY <2>1, <2>2
<1>u. UNCHANGED <<boundLoop, closed, outcome, px4, wire, loopAcks, credited, ended>>
  BY DEF Wake, TimeOut, ackVars, historyVars
<1>p. /\ pc' = [pc EXCEPT ![c] = "returned"] /\ pc \in [Calls -> {"new", "queued", "waiting", "returned"}]
      /\ pc[c] = "waiting" /\ pending = c /\ lock.holder = c
      /\ pending' = NoCall
  BY <1>r DEF Wake, TimeOut, ReturnWith, AdapterInv, TypeOK, OneCommandInFlight
<1>w. /\ lock' \in [holder : Calls \cup {NoCall}, waiters : Seq(Calls)]
      /\ lock'.holder = NoCall /\ lock'.waiters = lock.waiters
  BY <1>r DEF ReturnWith, AdapterInv, TypeOK
<1>a. activeCalls' = activeCalls - 1 /\ activeCalls \in Nat \ {0}
  BY <1>r, <1>p, CountedAdapter DEF ReturnWith, InFlight
<1>1. TypeOK'
  BY <1>r, <1>u, <1>p, <1>w, <1>a DEF AdapterInv, TypeOK, ReturnWith
<1>2. OneCommandInFlight'
  BY <1>p, <1>w, TransportAssumption DEF AdapterInv, OneCommandInFlight
<1>3. QueueSound'
  BY <1>p, <1>w DEF AdapterInv, QueueSound
<1>4. LifecycleAccounted'
  <2>1. Inside' = Inside \ {c} /\ c \in Inside
    BY <1>p DEF Inside, InFlight
  <2>2. activeCalls' = Cardinality(Inside')
    BY <2>1, <1>a, InsideFinite, FS_RemoveElement DEF AdapterInv, LifecycleAccounted, Inside
  <2>3. \A d \in Calls : InFlight(d)' => LoopOf[d] = boundLoop' /\ boundLoop' \notin closed'
    BY <1>u, <1>p DEF AdapterInv, LifecycleAccounted, InFlight
  <2>4. QED
    BY <2>2, <2>3 DEF LifecycleAccounted, Inside
<1>5. QED
  BY <1>1, <1>2, <1>3, <1>4 DEF AdapterInv

LEMMA CancelKeeps ==
  ASSUME AdapterInv, NEW l \in Loops, NEW e \in Executions, Cancel(l, e)
  PROVE  AdapterInv'
<1>u. UNCHANGED <<closed, activeCalls, pending, pc, result, px4, wire, loopAcks, credited>>
  BY DEF Cancel, ackVars
<1>o. outcome' \in [Calls -> Outcomes \cup {"none"}] /\ ended' \subseteq Calls
  BY DEF Cancel, Cancellable, AdapterInv, TypeOK, Outcomes
<1>b. /\ boundLoop' = l /\ l \notin closed
      /\ boundLoop # l => /\ \A c \in Calls : ~InFlight(c)
                          /\ lock' = FreeLock /\ pending = NoCall
      /\ boundLoop = l => lock' = lock
  BY IdleAdapter DEF Cancel, EnterLifecycle, MayEnter, LockOnEntry
<1>1. TypeOK'
  <2>1. lock' \in [holder : Calls \cup {NoCall}, waiters : Seq(Calls)]
    <3>1. CASE boundLoop = l
      BY <3>1, <1>b DEF AdapterInv, TypeOK
    <3>2. CASE boundLoop # l
      <4>1. lock' = [holder |-> NoCall, waiters |-> <<>>]
        BY <3>2, <1>b DEF FreeLock
      <4>2. <<>> \in Seq(Calls)
        OBVIOUS
      <4>3. QED
        BY <4>1, <4>2
    <3>3. QED
      BY <3>1, <3>2
  <2>2. QED
    BY <1>u, <1>o, <1>b, <2>1 DEF AdapterInv, TypeOK
<1>2. OneCommandInFlight'
  BY <1>u, <1>b, TransportAssumption DEF AdapterInv, OneCommandInFlight, FreeLock, InFlight
<1>3. QueueSound'
  <2>1. CASE boundLoop # l
    BY <2>1, <1>u, <1>b DEF QueueSound, FreeLock, InFlight
  <2>2. CASE boundLoop = l
    BY <2>2, <1>u, <1>b DEF AdapterInv, QueueSound
  <2>3. QED
    BY <2>1, <2>2
<1>4. LifecycleAccounted'
  BY <1>u, <1>b DEF AdapterInv, LifecycleAccounted, InFlight
<1>5. QED
  BY <1>1, <1>2, <1>3, <1>4 DEF AdapterInv

(* The other steps leave the lock, the counter and the pending command     *)
(* alone; the calls they touch stay inside or outside the adapter.         *)
LEMMA RefusedKeeps ==
  ASSUME AdapterInv, NEW c \in Calls, SubmitRefused(c)
  PROVE  AdapterInv'
<1>p. /\ pc' = [pc EXCEPT ![c] = "returned"] /\ pc \in [Calls -> {"new", "queued", "waiting", "returned"}]
      /\ pc[c] = "new"
      /\ UNCHANGED <<boundLoop, closed, activeCalls, lock, pending>>
  BY DEF SubmitRefused, AdapterInv, TypeOK
<1>1. TypeOK'
  BY <1>p DEF SubmitRefused, AdapterInv, TypeOK, Results, ackVars, historyVars
<1>2. OneCommandInFlight'
  BY <1>p DEF AdapterInv, OneCommandInFlight
<1>3. QueueSound'
  BY <1>p DEF AdapterInv, QueueSound
<1>4. LifecycleAccounted'
  <2>1. Inside' = Inside /\ \A d \in Calls : InFlight(d)' <=> InFlight(d)
    BY <1>p DEF Inside, InFlight
  <2>2. QED
    BY <2>1, <1>p DEF AdapterInv, LifecycleAccounted, Inside
<1>5. QED
  BY <1>1, <1>2, <1>3, <1>4 DEF AdapterInv

LEMMA SameCallsKeep ==
  ASSUME AdapterInv, TypeOK',
         UNCHANGED <<boundLoop, activeCalls, lock, pending, pc>>,
         \A c \in Calls : InFlight(c) => boundLoop \notin closed'
  PROVE  AdapterInv'
  BY DEF AdapterInv, OneCommandInFlight, QueueSound, LifecycleAccounted, InFlight

LEMMA AckStepKeeps ==
  ASSUME AdapterInv,
         \/ \E a \in wire : HandleAck(a)
         \/ \E l \in Loops : ResolveAck(l) \/ CloseLoop(l)
         \/ \E c \in Commands : Px4Progress(c) \/ Px4Answer(c)
  PROVE  AdapterInv'
<1>1. CASE \E a \in wire : HandleAck(a)
  <2>1. PICK a \in wire : HandleAck(a)
    BY <1>1
  <2>2. loopAcks' \in [Loops -> Seq(Acks)] /\ wire' \subseteq Acks
    BY <2>1 DEF HandleAck, AdapterInv, TypeOK
  <2>3. TypeOK'
    BY <2>1, <2>2 DEF HandleAck, AdapterInv, TypeOK, adapterVars, historyVars
  <2>4. QED
    BY <2>1, <2>3, SameCallsKeep DEF HandleAck, adapterVars, AdapterInv, LifecycleAccounted
<1>2. ASSUME NEW l \in Loops, ResolveAck(l) PROVE AdapterInv'
  <2>1. loopAcks[l] \in Seq(Acks) /\ loopAcks[l] # <<>>
    BY <1>2 DEF ResolveAck, AdapterInv, TypeOK
  <2>2. Head(loopAcks[l]) \in Acks /\ Tail(loopAcks[l]) \in Seq(Acks)
    BY <2>1
  <2>3. /\ outcome' \in [Calls -> Outcomes \cup {"none"}]
        /\ credited' \in [Calls -> Commands \cup {NoCall}]
    BY <1>2, <2>2 DEF ResolveAck, Settles, AdapterInv, TypeOK, Acks, Outcomes, FinalVerdicts
  <2>4. TypeOK'
    BY <1>2, <2>2, <2>3 DEF ResolveAck, AdapterInv, TypeOK
  <2>5. QED
    BY <1>2, <2>4, SameCallsKeep DEF ResolveAck, AdapterInv, LifecycleAccounted
<1>3. ASSUME NEW l \in Loops, CloseLoop(l) PROVE AdapterInv'
  <2>1. TypeOK'
    BY <1>3 DEF CloseLoop, AdapterInv, TypeOK, historyVars
  <2>2. \A c \in Calls : InFlight(c) => boundLoop \notin closed'
    BY <1>3 DEF CloseLoop, InFlight, AdapterInv, LifecycleAccounted
  <2>3. QED
    BY <1>3, <2>1, <2>2, SameCallsKeep DEF CloseLoop
<1>4. ASSUME NEW c \in Commands, Px4Progress(c) \/ Px4Answer(c) PROVE AdapterInv'
  <2>1. TypeOK'
    <3>1. px4' \in [Commands -> {"unpublished", "published", "working", "answered"}]
      BY <1>4 DEF Px4Progress, Px4Answer, AdapterInv, TypeOK
    <3>2. \A v \in FinalVerdicts \cup {"IN_PROGRESS"} : [call |-> c, verdict |-> v] \in Acks
      BY DEF Acks
    <3>3. wire' \subseteq Acks
      BY <1>4, <3>2 DEF Px4Progress, Px4Answer, AdapterInv, TypeOK
    <3>4. UNCHANGED <<adapterVars, loopAcks, historyVars>>
      BY <1>4 DEF Px4Progress, Px4Answer
    <3>5. QED
      BY <3>1, <3>3, <3>4 DEF AdapterInv, TypeOK, adapterVars, historyVars
  <2>2. UNCHANGED <<boundLoop, closed, activeCalls, lock, pending, pc>>
    BY <1>4 DEF Px4Progress, Px4Answer, adapterVars
  <2>3. QED
    BY <2>1, <2>2, SameCallsKeep DEF AdapterInv, LifecycleAccounted
<1>5. QED
  BY <1>1, <1>2, <1>3, <1>4

LEMMA NextAdapter == AdapterInv /\ [Next]_vars => AdapterInv'
<1> SUFFICES ASSUME AdapterInv, [Next]_vars PROVE AdapterInv'
  OBVIOUS
<1>1. ASSUME NEW c \in Calls, CallStep(c) PROVE AdapterInv'
  BY <1>1, RefusedKeeps, AtOnceKeeps, QueuedKeeps, AcquireKeeps, ReturnKeeps DEF CallStep, Submit
<1>2. ASSUME NEW l \in Loops, NEW e \in Executions, Cancel(l, e) PROVE AdapterInv'
  BY <1>2, CancelKeeps
<1>3. CASE UNCHANGED vars
  <2>1. TypeOK'
    BY <1>3 DEF AdapterInv, TypeOK, vars, adapterVars, ackVars, historyVars
  <2>2. QED
    BY <1>3, <2>1, SameCallsKeep DEF vars, adapterVars, AdapterInv, LifecycleAccounted
<1>4. QED
  BY <1>1, <1>2, <1>3, AckStepKeeps DEF Next

LEMMA AdapterInvariant == Spec => []AdapterInv
  BY InitAdapter, NextAdapter, PTL DEF Spec

-----------------------------------------------------------------------------
(* The adapter's state is well formed; in particular _active_calls is      *)
(* never decremented below zero by _command_lifecycle().                   *)
THEOREM AdapterTypes == Spec => []TypeOK
<1>1. AdapterInv => TypeOK
  BY DEF AdapterInv
<1>2. QED
  BY <1>1, AdapterInvariant, PTL

(* At most one command waits for its ACK, although _command_lifecycle()    *)
(* replaces the lock object when the adapter is used from another loop.    *)
THEOREM CommandsTakeTurns == Spec => []OneCommandInFlight
<1>1. AdapterInv => OneCommandInFlight
  BY DEF AdapterInv
<1>2. QED
  BY <1>1, AdapterInvariant, PTL

(* The submission lock's queue holds exactly the queued calls, each once.  *)
THEOREM QueueHoldsWaiters == Spec => []QueueSound
<1>1. AdapterInv => QueueSound
  BY DEF AdapterInv
<1>2. QED
  BY <1>1, AdapterInvariant, PTL

(* _active_calls counts the calls inside the adapter, and all of them live *)
(* on the one bound loop, which is open.                                   *)
THEOREM CallsAccounted == Spec => []LifecycleAccounted
<1>1. AdapterInv => LifecycleAccounted
  BY DEF AdapterInv
<1>2. QED
  BY <1>1, AdapterInvariant, PTL
-----------------------------------------------------------------------------
(* Where a final ACK is: on the wire, or at a place of a loop's queue.     *)
Final(a) == a.verdict \in FinalVerdicts
Places == {p \in Loops \X Nat : p[2] \in 1..Len(loopAcks[p[1]]) /\ Final(loopAcks[p[1]][p[2]])}
AckAt(p) == loopAcks[p[1]][p[2]]
OnWire == {a \in wire : Final(a)}

(* PX4 answers a command once, so there is at most one final ACK of it.    *)
AcksOnce ==
  /\ \A a, b \in OnWire : a.call = b.call => a = b
  /\ \A a \in OnWire : \A p \in Places : a.call # AckAt(p).call
  /\ \A p, q \in Places : AckAt(p).call = AckAt(q).call => p = q

(* The commands whose final ACK is on its way or has been used.               *)
OnItsWay(d) == (\E a \in OnWire : a.call = d) \/ (\E p \in Places : AckAt(p).call = d)

AcksSent ==
  /\ \A d \in Commands : OnItsWay(d) => px4[d] = "answered"
  /\ \A c \in Calls, d \in Commands : credited[c] = d => px4[d] = "answered" /\ ~OnItsWay(d)

(* A published command has been waited for, and a verdict came by an ACK.  *)
CallsSettled ==
  /\ \A d \in Calls : px4[d] # "unpublished" =>
       pc[d] = "waiting" \/ (pc[d] = "returned" /\ result[d] \in Outcomes \cup {"TIMED_OUT"})
  /\ \A d \in Calls : pc[d] # "returned" => result[d] = "none"
  /\ \A d \in Calls : outcome[d] \in FinalVerdicts \/ result[d] \in FinalVerdicts
                        => credited[d] # NoCall

AckInv == AcksOnce /\ AcksSent /\ CallsSettled /\ ForeignAckHasCause

LEMMA InitAcks == Init => AckInv
<1> SUFFICES ASSUME Init PROVE AckInv
  OBVIOUS
<1>1. OnWire = {} /\ Places = {}
  BY DEF Init, OnWire, Places
<1>2. \A d \in Commands : ~OnItsWay(d)
  BY <1>1 DEF OnItsWay
<1>3. AcksOnce
  BY <1>1 DEF AcksOnce
<1>4. AcksSent
  BY <1>2, TransportAssumption DEF AcksSent, Init, Commands
<1>5. CallsSettled
  BY TransportAssumption DEF CallsSettled, Init, FinalVerdicts, Commands
<1>6. ForeignAckHasCause
  BY DEF ForeignAckHasCause, Mistaken, Init
<1>7. QED
  BY <1>3, <1>4, <1>5, <1>6 DEF AckInv

(* Steps that leave the ACKs where they are. *)
LEMMA SameAcks ==
  ASSUME UNCHANGED <<wire, loopAcks>>
  PROVE  /\ OnWire' = OnWire /\ Places' = Places
         /\ \A p \in Places : AckAt(p)' = AckAt(p)
         /\ \A d \in Commands : OnItsWay(d)' <=> OnItsWay(d)
         /\ AcksOnce => AcksOnce'
<1>1. OnWire' = OnWire /\ Places' = Places
  BY DEF OnWire, Places, Final
<1>2. \A p \in Places : AckAt(p)' = AckAt(p)
  BY DEF AckAt
<1>3. QED
  BY <1>1, <1>2 DEF OnItsWay, AcksOnce

(* What a call that enters, goes on in or leaves the adapter changes. *)
LEMMA CallMoves ==
  ASSUME TypeOK, NEW c \in Calls, CallStep(c)
  PROVE  /\ UNCHANGED <<wire, loopAcks, credited, outcome>>
         /\ \/ /\ pc[c] \in {"new", "queued"} /\ pc' = [pc EXCEPT ![c] = "waiting"]
               /\ px4' = [px4 EXCEPT ![c] = "published"] /\ result' = result
            \/ /\ pc[c] = "new" /\ pc' = [pc EXCEPT ![c] = "queued"]
               /\ px4' = px4 /\ result' = result
            \/ /\ pc[c] = "new" /\ pc' = [pc EXCEPT ![c] = "returned"]
               /\ px4' = px4 /\ result' = [result EXCEPT ![c] = "LIFECYCLE_ERROR"]
            \/ /\ pc[c] = "waiting" /\ pc' = [pc EXCEPT ![c] = "returned"]
               /\ px4' = px4
               /\ \E r \in Outcomes \cup {"TIMED_OUT"} :
                    /\ result' = [result EXCEPT ![c] = r]
                    /\ r \in FinalVerdicts => outcome[c] = r
<1>t. outcome \in [Calls -> Outcomes \cup {"none"}]
  BY DEF TypeOK
<1>u. UNCHANGED <<wire, loopAcks, credited, outcome>>
  BY DEF CallStep, Submit, SubmitRefused, SubmitAtOnce, SubmitQueued, Acquire, Wake, TimeOut,
         ackVars, historyVars
<1> SUFFICES
       \/ /\ pc[c] \in {"new", "queued"} /\ pc' = [pc EXCEPT ![c] = "waiting"]
          /\ px4' = [px4 EXCEPT ![c] = "published"] /\ result' = result
       \/ /\ pc[c] = "new" /\ pc' = [pc EXCEPT ![c] = "queued"]
          /\ px4' = px4 /\ result' = result
       \/ /\ pc[c] = "new" /\ pc' = [pc EXCEPT ![c] = "returned"]
          /\ px4' = px4 /\ result' = [result EXCEPT ![c] = "LIFECYCLE_ERROR"]
       \/ /\ pc[c] = "waiting" /\ pc' = [pc EXCEPT ![c] = "returned"]
          /\ px4' = px4
          /\ \E r \in Outcomes \cup {"TIMED_OUT"} :
               /\ result' = [result EXCEPT ![c] = r]
               /\ r \in FinalVerdicts => outcome[c] = r
  BY <1>u
<1>1. CASE SubmitRefused(c)
  BY <1>1 DEF SubmitRefused, ackVars
<1>2. CASE SubmitAtOnce(c)
  BY <1>2 DEF SubmitAtOnce, Publish
<1>3. CASE SubmitQueued(c)
  BY <1>3 DEF SubmitQueued, ackVars
<1>4. CASE Acquire(c)
  BY <1>4 DEF Acquire, Publish
<1>5. CASE Wake(c)
  BY <1>5, <1>t DEF Wake, ReturnWith, ackVars
<1>6. CASE TimeOut(c)
  <2>1. /\ pc[c] = "waiting" /\ pc' = [pc EXCEPT ![c] = "returned"]
        /\ px4' = px4 /\ result' = [result EXCEPT ![c] = "TIMED_OUT"]
    BY <1>6 DEF TimeOut, ReturnWith, ackVars
  <2>2. "TIMED_OUT" \in Outcomes \cup {"TIMED_OUT"} /\ "TIMED_OUT" \notin FinalVerdicts
    BY DEF FinalVerdicts
  <2>3. QED
    BY <2>1, <2>2
<1>7. QED
  BY <1>1, <1>2, <1>3, <1>4, <1>5, <1>6 DEF CallStep, Submit

(* A call that leaves or enters the adapter. *)
LEMMA CallStepAcks ==
  ASSUME AdapterInv, AckInv, NEW c \in Calls, CallStep(c)
  PROVE  AckInv'
<1>t. /\ pc \in [Calls -> {"new", "queued", "waiting", "returned"}]
      /\ result \in [Calls -> Results \cup {"none"}]
      /\ outcome \in [Calls -> Outcomes \cup {"none"}]
      /\ px4 \in [Commands -> {"unpublished", "published", "working", "answered"}]
      /\ credited \in [Calls -> Commands \cup {NoCall}]
  BY DEF AdapterInv, TypeOK
<1>u. UNCHANGED <<wire, loopAcks, credited, outcome>>
  BY CallMoves DEF AdapterInv
<1>c. \/ /\ pc[c] \in {"new", "queued"} /\ pc' = [pc EXCEPT ![c] = "waiting"]
         /\ px4' = [px4 EXCEPT ![c] = "published"] /\ result' = result
      \/ /\ pc[c] = "new" /\ pc' = [pc EXCEPT ![c] = "queued"]
         /\ px4' = px4 /\ result' = result
      \/ /\ pc[c] = "new" /\ pc' = [pc EXCEPT ![c] = "returned"]
         /\ px4' = px4 /\ result' = [result EXCEPT ![c] = "LIFECYCLE_ERROR"]
      \/ /\ pc[c] = "waiting" /\ pc' = [pc EXCEPT ![c] = "returned"]
         /\ px4' = px4
         /\ \E r \in Outcomes \cup {"TIMED_OUT"} :
              /\ result' = [result EXCEPT ![c] = r]
              /\ r \in FinalVerdicts => outcome[c] = r
  BY CallMoves DEF AdapterInv
<1>1. AcksOnce'
  BY <1>u, SameAcks DEF AckInv
<1>2. \A d \in Commands : px4[d] = "answered" => px4'[d] = "answered"
  BY <1>c, <1>t DEF AckInv, CallsSettled
<1>3. AcksSent'
  BY <1>u, <1>2, SameAcks DEF AckInv, AcksSent
<1>4. CallsSettled'
  BY <1>c, <1>t, <1>u DEF AckInv, CallsSettled, FinalVerdicts, Commands
<1>5. \A d \in Calls : Abandoned(d) => Abandoned(d)'
  BY <1>c, <1>t DEF AckInv, CallsSettled, Abandoned
<1>r. \A d \in Calls : pc[d] = "returned" => pc'[d] = "returned"
  BY <1>c, <1>t
<1>6. ForeignAckHasCause'
  <2> SUFFICES ASSUME NEW d \in Calls, Mistaken(d)'
               PROVE  (/\ KindOf[credited[d]] = KindOf[d]
                       /\ credited[d] \in Others \/ Unanswered(credited[d])
                       /\ \E e \in Calls : KindOf[e] = KindOf[d] /\ CauseFor(d, e))'
    BY DEF ForeignAckHasCause
  <2>1. Mistaken(d) /\ credited'[d] = credited[d] /\ credited[d] \in Commands
    BY <1>u, <1>t DEF Mistaken
  <2>2. /\ KindOf[credited[d]] = KindOf[d]
        /\ credited[d] \in Others \/ Unanswered(credited[d])
        /\ \E e \in Calls : KindOf[e] = KindOf[d] /\ CauseFor(d, e)
    BY <2>1 DEF AckInv, ForeignAckHasCause
  <2>3. ASSUME NEW e \in Calls, Unanswered(e) PROVE Unanswered(e)'
    BY <1>u, <1>5, <1>r, <2>3 DEF Unanswered, Mistaken
  <2>4. ASSUME NEW e \in Calls, CauseFor(d, e) PROVE CauseFor(d, e)'
    BY <1>u, <1>5, <1>r, <2>4 DEF CauseFor
  <2>5. \E e \in Calls : KindOf[e] = KindOf[d] /\ CauseFor(d, e)'
    BY <2>2, <2>4
  <2>6. credited'[d] \in Others \/ (credited[d] \in Calls /\ Unanswered(credited[d])')
    BY <2>1, <2>2, <2>3, TransportAssumption DEF Commands, Mistaken
  <2>7. QED
    BY <1>u, <2>1, <2>2, <2>5, <2>6
<1>7. QED
  BY <1>1, <1>3, <1>4, <1>6 DEF AckInv

LEMMA CancelAcks ==
  ASSUME AdapterInv, AckInv, NEW l \in Loops, NEW e \in Executions, Cancel(l, e)
  PROVE  AckInv'
<1>1. UNCHANGED <<wire, loopAcks, credited, px4, pc, result>>
  BY DEF Cancel, ackVars
<1>2. \A d \in Calls : outcome'[d] \in FinalVerdicts => outcome[d] \in FinalVerdicts
  BY DEF Cancel, AdapterInv, TypeOK, FinalVerdicts
<1>3. AcksOnce' /\ AcksSent'
  BY <1>1, SameAcks DEF AckInv, AcksSent
<1>4. CallsSettled'
  BY <1>1, <1>2 DEF AckInv, CallsSettled
<1>5. ForeignAckHasCause'
  BY <1>1 DEF AckInv, ForeignAckHasCause, Mistaken, Unanswered, CauseFor, Abandoned
<1>6. QED
  BY <1>3, <1>4, <1>5 DEF AckInv

(* An ACK handed to the loop takes the place after the last of its queue. *)
LEMMA BackAdded ==
  ASSUME TypeOK, NEW a \in wire, boundLoop \in Loops,
         loopAcks' = [loopAcks EXCEPT ![boundLoop] = Append(@, a)]
  PROVE  \A p \in Places' :
           \/ p \in Places /\ AckAt(p)' = AckAt(p)
           \/ p = <<boundLoop, Len(loopAcks[boundLoop]) + 1>> /\ AckAt(p)' = a /\ Final(a)
<1> DEFINE new == <<boundLoop, Len(loopAcks[boundLoop]) + 1>>
<1>t. loopAcks \in [Loops -> Seq(Acks)] /\ wire \subseteq Acks
  BY DEF TypeOK
<1>q. loopAcks[boundLoop] \in Seq(Acks) /\ a \in Acks
  BY <1>t
<1>a. /\ Len(loopAcks'[boundLoop]) = Len(loopAcks[boundLoop]) + 1
      /\ \A i \in 1..Len(loopAcks[boundLoop]) : loopAcks'[boundLoop][i] = loopAcks[boundLoop][i]
      /\ loopAcks'[boundLoop][Len(loopAcks[boundLoop]) + 1] = a
      /\ \A l \in Loops : l # boundLoop => loopAcks'[l] = loopAcks[l]
  BY <1>t, <1>q
<1> SUFFICES ASSUME NEW l \in Loops, NEW i \in Nat, <<l, i>> \in Places'
             PROVE  \/ <<l, i>> \in Places /\ loopAcks'[l][i] = loopAcks[l][i]
                    \/ <<l, i>> = new /\ loopAcks'[l][i] = a /\ Final(a)
  BY DEF Places, AckAt
<1>1. i \in 1..Len(loopAcks'[l]) /\ Final(loopAcks'[l][i])
  BY DEF Places, Final
<1>2. Len(loopAcks[l]) \in Nat
  BY <1>t
<1>3. CASE l # boundLoop
  BY <1>a, <1>1, <1>3 DEF Places
<1>4. CASE l = boundLoop /\ i \in 1..Len(loopAcks[l])
  BY <1>a, <1>1, <1>4 DEF Places
<1>5. CASE l = boundLoop /\ i = Len(loopAcks[l]) + 1
  BY <1>a, <1>1, <1>5
<1>6. QED
  BY <1>1, <1>2, <1>3, <1>4, <1>5, <1>a

(* The ROS thread hands an ACK over, or drops it. *)
LEMMA HandleAcks ==
  ASSUME AdapterInv, AckInv, NEW a \in wire, HandleAck(a)
  PROVE  AckInv'
<1>u. UNCHANGED <<px4, pc, result, outcome, credited>>
  BY DEF HandleAck, adapterVars, historyVars
<1>w. wire' = wire \ {a}
  BY DEF HandleAck
<1>t. loopAcks \in [Loops -> Seq(Acks)] /\ wire \subseteq Acks /\ boundLoop \in Loops \cup {NoLoop}
  BY DEF AdapterInv, TypeOK
<1>1. OnWire' = OnWire \ {a}
  BY <1>w DEF OnWire, Final
<1>2. CASE loopAcks' = loopAcks
  <2>1. Places' = Places /\ \A p \in Places : AckAt(p)' = AckAt(p)
    BY <1>2 DEF Places, AckAt, Final
  <2>2. AcksOnce'
    BY <1>1, <2>1 DEF AckInv, AcksOnce
  <2>3. \A d \in Commands : OnItsWay(d)' => OnItsWay(d)
    BY <1>1, <2>1 DEF OnItsWay
  <2>4. QED
    BY <1>u, <2>2, <2>3 DEF AckInv, AcksSent, CallsSettled, ForeignAckHasCause, Mistaken, Unanswered, CauseFor, Abandoned
<1>3. CASE /\ boundLoop \in Loops
           /\ loopAcks' = [loopAcks EXCEPT ![boundLoop] = Append(@, a)]
  <2> DEFINE new == <<boundLoop, Len(loopAcks[boundLoop]) + 1>>
  <2>1. \A p \in Places' : (p \in Places /\ AckAt(p)' = AckAt(p)) \/ (p = new /\ AckAt(p)' = a /\ Final(a))
    BY <1>3, BackAdded DEF AdapterInv
  <2>2. Final(a) => a \in OnWire
    BY DEF OnWire
  <2>3. AcksOnce'
    BY <1>1, <2>1, <2>2 DEF AckInv, AcksOnce
  <2>4. \A d \in Commands : OnItsWay(d)' => OnItsWay(d)
    BY <1>1, <2>1, <2>2 DEF OnItsWay
  <2>5. QED
    BY <1>u, <2>3, <2>4 DEF AckInv, AcksSent, CallsSettled, ForeignAckHasCause, Mistaken, Unanswered, CauseFor, Abandoned
<1>4. QED
  BY <1>2, <1>3, <1>t DEF HandleAck

(* The first place of a loop's queue is emptied; the others move up. *)
LEMMA FrontRemoved ==
  ASSUME TypeOK, NEW l \in Loops, loopAcks[l] # <<>>,
         loopAcks' = [loopAcks EXCEPT ![l] = Tail(@)]
  PROVE  \A p \in Places' : \E q \in Places :
           /\ AckAt(p)' = AckAt(q)
           /\ q = (IF p[1] = l THEN <<l, p[2] + 1>> ELSE p)
<1> SUFFICES ASSUME NEW p \in Places'
             PROVE  LET q == IF p[1] = l THEN <<l, p[2] + 1>> ELSE p IN
                      q \in Places /\ AckAt(p)' = AckAt(q)
  OBVIOUS
<1> DEFINE m == p[1]
           i == p[2]
<1>p. p = <<m, i>> /\ m \in Loops /\ i \in Nat /\ AckAt(p)' = loopAcks'[m][i]
  BY DEF Places, AckAt
<1> HIDE DEF m, i
<1>1. i \in 1..Len(loopAcks'[m]) /\ Final(loopAcks'[m][i])
  BY DEF Places, Final, m, i
<1>2. loopAcks[l] \in Seq(Acks) /\ loopAcks \in [Loops -> Seq(Acks)]
  BY DEF TypeOK
<1>3. CASE m # l
  BY <1>p, <1>1, <1>2, <1>3 DEF Places, AckAt
<1>4. CASE m = l
  <2>1. /\ Len(Tail(loopAcks[l])) = Len(loopAcks[l]) - 1
        /\ \A k \in 1..(Len(loopAcks[l]) - 1) : Tail(loopAcks[l])[k] = loopAcks[l][k + 1]
    BY <1>2
  <2>2. loopAcks'[m] = Tail(loopAcks[l])
    BY <1>2, <1>4
  <2>3. i + 1 \in 1..Len(loopAcks[l]) /\ loopAcks'[m][i] = loopAcks[l][i + 1]
    <3>1. Len(loopAcks[l]) \in Nat /\ i \in 1..(Len(loopAcks[l]) - 1)
      BY <1>1, <1>2, <2>1, <2>2
    <3>2. i + 1 \in 1..Len(loopAcks[l]) /\ Tail(loopAcks[l])[i] = loopAcks[l][i + 1]
      BY <3>1, <2>1
    <3>3. QED
      BY <3>2, <2>2
  <2>4. QED
    <3>1. <<l, i + 1>> \in Places /\ AckAt(<<l, i + 1>>) = loopAcks'[m][i]
      <4>1. Final(loopAcks[l][i + 1]) /\ <<l, i + 1>> \in Loops \X Nat
        BY <1>p, <1>1, <2>3 DEF Final
      <4>2. QED
        BY <2>3, <4>1 DEF Places, AckAt
    <3>2. p[1] = l /\ p[2] = i
      BY <1>4 DEF m, i
    <3>3. QED
      BY <1>p, <3>1, <3>2
<1>5. QED
  BY <1>3, <1>4

LEMMA ResolveAcks ==
  ASSUME AdapterInv, AckInv, NEW l \in Loops, ResolveAck(l)
  PROVE  AckInv'
<1>h. /\ TypeOK /\ loopAcks[l] \in Seq(Acks) /\ loopAcks[l] # <<>>
      /\ loopAcks' = [loopAcks EXCEPT ![l] = Tail(@)]
      /\ Head(loopAcks[l]) \in Acks
  BY DEF AdapterInv, TypeOK, ResolveAck
<1>a. PICK a \in Acks : a = Head(loopAcks[l])
  BY <1>h
<1>t. a = loopAcks[l][1] /\ 1 \in 1..Len(loopAcks[l])
  BY <1>h, <1>a
<1>u. UNCHANGED <<wire, px4, pc, result, pending>>
  BY DEF ResolveAck
<1>1. OnWire' = OnWire
  BY <1>u DEF OnWire, Final
<1>2. \A p \in Places' : \E q \in Places :
        AckAt(p)' = AckAt(q) /\ q = (IF p[1] = l THEN <<l, p[2] + 1>> ELSE p)
  BY <1>h, FrontRemoved
<1>p. \A p \in Places' : p \in Loops \X Nat /\ p[2] >= 1
  BY DEF Places
<1>3. AcksOnce'
  <2>1. \A x \in OnWire' : \A p \in Places' : x.call # AckAt(p)'.call
    BY <1>1, <1>2 DEF AckInv, AcksOnce
  <2>2. ASSUME NEW p \in Places', NEW q \in Places', AckAt(p)'.call = AckAt(q)'.call
        PROVE  p = q
    <3>1. (IF p[1] = l THEN <<l, p[2] + 1>> ELSE p) = (IF q[1] = l THEN <<l, q[2] + 1>> ELSE q)
      BY <1>2, <2>2 DEF AckInv, AcksOnce
    <3>2. QED
      BY <3>1, <1>p
  <2>3. QED
    BY <1>1, <2>1, <2>2 DEF AckInv, AcksOnce
<1>4. \A d \in Commands : OnItsWay(d)' => OnItsWay(d)
  BY <1>1, <1>2 DEF OnItsWay
<1>5. CASE ~Settles(a)
  <2>1. UNCHANGED <<outcome, credited>>
    BY <1>5, <1>a DEF ResolveAck
  <2>2. QED
    BY <1>u, <1>3, <1>4, <2>1 DEF AckInv, AcksSent, CallsSettled, ForeignAckHasCause, Mistaken, Unanswered, CauseFor, Abandoned
<1>6. CASE Settles(a)
  <2>p. PICK c \in Calls : c = pending
    BY <1>6, <1>h DEF Settles, TypeOK
  <2>c. /\ pc[c] = "waiting" /\ a.call \in Commands /\ KindOf[a.call] = KindOf[c] /\ Final(a)
    BY <1>6, <2>p DEF Settles, AdapterInv, TypeOK, OneCommandInFlight, Acks, Final
  <2>o. /\ outcome' = [outcome EXCEPT ![c] = a.verdict]
        /\ credited' = [credited EXCEPT ![c] = a.call]
        /\ credited \in [Calls -> Commands \cup {NoCall}]
        /\ outcome \in [Calls -> Outcomes \cup {"none"}]
    BY <1>6, <1>a, <2>p DEF ResolveAck, AdapterInv, TypeOK
  <2>f. <<l, 1>> \in Places /\ AckAt(<<l, 1>>) = a
    BY <1>t, <2>c DEF Places, AckAt
  <2>1. OnItsWay(a.call)
    BY <2>f DEF OnItsWay
  <2>2. ~OnItsWay(a.call)'
    <3>1. \A x \in OnWire' : x.call # a.call
      BY <1>1, <2>f DEF AckInv, AcksOnce
    <3>2. ASSUME NEW p \in Places', AckAt(p)'.call = a.call PROVE FALSE
      <4>1. (IF p[1] = l THEN <<l, p[2] + 1>> ELSE p) = <<l, 1>>
        BY <1>2, <2>f, <3>2 DEF AckInv, AcksOnce
      <4>2. QED
        BY <4>1, <1>p
    <3>3. QED
      BY <3>1, <3>2 DEF OnItsWay
  <2>3. AcksSent'
    <3>1. \A d \in Commands : OnItsWay(d)' => px4'[d] = "answered"
      BY <1>u, <1>4 DEF AckInv, AcksSent
    <3>2. px4[a.call] = "answered"
      BY <2>1, <2>c DEF AckInv, AcksSent
    <3>3. ASSUME NEW b \in Calls, NEW d \in Commands, credited'[b] = d
          PROVE  px4'[d] = "answered" /\ ~OnItsWay(d)'
      <4>1. d = a.call \/ credited[b] = d
        BY <3>3, <2>o
      <4>2. QED
        BY <4>1, <1>u, <1>4, <2>2, <3>2 DEF AckInv, AcksSent
    <3>4. QED
      BY <3>1, <3>3 DEF AcksSent
  <2>4. CallsSettled'
    BY <1>u, <2>c, <2>o, TransportAssumption DEF AckInv, CallsSettled, Commands
  <2>n. ~Abandoned(c) /\ (a.call \in Calls => credited[a.call] # a.call)
    BY <2>c, <2>1 DEF Abandoned, AckInv, AcksSent, CallsSettled
  <2>5. ASSUME a.call \in Calls, a.call # c
        PROVE  pc[a.call] = "returned" /\ (Abandoned(a.call) \/ Mistaken(a.call))
    <3>1. px4[a.call] = "answered"
      BY <2>1, <2>c DEF AckInv, AcksSent
    <3>2. pc[a.call] # "waiting"
      BY <2>c, <2>5 DEF AdapterInv, OneCommandInFlight
    <3>3. pc[a.call] = "returned" /\ result[a.call] \in Outcomes \cup {"TIMED_OUT"}
      BY <2>5, <3>1, <3>2 DEF AckInv, CallsSettled
    <3>4. CASE ~Abandoned(a.call)
      <4>1. credited[a.call] # NoCall
        BY <2>5, <3>3, <3>4 DEF AckInv, CallsSettled, Abandoned, Outcomes
      <4>2. QED
        BY <2>5, <3>3, <4>1, <2>n DEF Mistaken
    <3>5. QED
      BY <3>3, <3>4
  <2>6. ForeignAckHasCause'
    <3> SUFFICES ASSUME NEW b \in Calls, Mistaken(b)'
                 PROVE  /\ KindOf[credited[b]'] = KindOf[b]
                        /\ credited[b]' \in Others \/ Unanswered(credited[b])'
                        /\ \E e \in Calls : KindOf[e] = KindOf[b] /\ CauseFor(b, e)'
      BY DEF ForeignAckHasCause
    <3>a. \A e \in Calls : Abandoned(e)' <=> Abandoned(e)
      BY <1>u DEF Abandoned
    <3>k. \A e \in Calls : pc[e] = "returned" => credited'[e] = credited[e]
      BY <2>c, <2>o
    <3>m. \A e \in Calls : e # c => credited'[e] = credited[e]
      BY <2>o
    <3>1. CASE b = c
      <4>1. credited'[c] = a.call /\ a.call # c
        BY <2>o, <3>1 DEF Mistaken
      <4>2. CASE a.call \in Others
        BY <1>u, <2>c, <3>1, <4>1, <4>2, TransportAssumption DEF CauseFor
      <4>3. CASE a.call \in Calls
        <5>1. pc[a.call] = "returned" /\ (Abandoned(a.call) \/ Mistaken(a.call))
          BY <2>5, <4>1, <4>3
        <5>2. \E e \in Calls : KindOf[e] = KindOf[c] /\ CauseFor(c, e)'
          <6>1. CASE Abandoned(a.call)
            BY <2>c, <3>a, <4>1, <4>3, <6>1 DEF CauseFor
          <6>2. CASE Mistaken(a.call)
            <7>1. PICK e \in Calls : KindOf[e] = KindOf[a.call] /\ CauseFor(a.call, e)
              BY <4>3, <6>2 DEF AckInv, ForeignAckHasCause
            <7>2. pc[e] = "returned" /\ e # c
              BY <2>c, <5>1, <7>1 DEF CauseFor, Abandoned, AckInv, CallsSettled
            <7>3. CauseFor(c, e)'
              BY <1>u, <3>a, <3>m, <7>1, <7>2 DEF CauseFor
            <7>4. QED
              BY <2>c, <7>1, <7>3
          <6>3. QED
            BY <5>1, <6>1, <6>2
        <5>3. Unanswered(credited[b])'
          BY <1>u, <2>n, <3>1, <3>a, <3>k, <4>1, <4>3, <5>1 DEF Mistaken, Unanswered
        <5>4. QED
          BY <2>c, <3>1, <4>1, <5>2, <5>3
      <4>4. QED
        BY <2>c, <4>2, <4>3 DEF Commands
    <3>2. CASE b # c
      <4>1. Mistaken(b) /\ credited'[b] = credited[b]
        BY <3>2, <3>m DEF Mistaken
      <4>2. PICK e \in Calls : KindOf[e] = KindOf[b] /\ CauseFor(b, e)
        BY <4>1 DEF AckInv, ForeignAckHasCause
      <4>3. e = b \/ pc[e] = "returned" \/ Abandoned(e)
        BY <4>2 DEF CauseFor
      <4>4. CauseFor(b, e)'
        BY <1>u, <3>2, <3>a, <3>k, <3>m, <4>2, <4>3 DEF CauseFor
      <4>5. credited[b] \in Others \/ Unanswered(credited[b])
        BY <4>1 DEF AckInv, ForeignAckHasCause
      <4>6. KindOf[credited[b]] = KindOf[b] /\ credited[b] \in Commands
        BY <4>1, <2>o DEF AckInv, ForeignAckHasCause, Mistaken
      <4>7. credited[b] \in Others \/ Unanswered(credited[b])'
        BY <1>u, <3>a, <3>k, <4>1, <4>5, <4>6 DEF Unanswered, Mistaken, Commands
      <4>8. QED
        BY <4>1, <4>2, <4>4, <4>6, <4>7
    <3>3. QED
      BY <3>1, <3>2
  <2>7. QED
    BY <1>3, <2>3, <2>4, <2>6 DEF AckInv
<1>7. QED
  BY <1>5, <1>6

(* The closing loop loses its ACKs. *)
LEMMA CloseAcks ==
  ASSUME AdapterInv, AckInv, NEW l \in Loops, CloseLoop(l)
  PROVE  AckInv'
<1>u. /\ UNCHANGED <<wire, px4, pc, result, outcome, credited>>
      /\ loopAcks' = [loopAcks EXCEPT ![l] = <<>>]
  BY DEF CloseLoop, historyVars
<1>1. OnWire' = OnWire
  BY <1>u DEF OnWire, Final
<1>2. \A p \in Places' : p \in Places /\ AckAt(p)' = AckAt(p)
  BY <1>u DEF AdapterInv, TypeOK, Places, AckAt, Final
<1>3. AcksOnce'
  BY <1>1, <1>2 DEF AckInv, AcksOnce
<1>4. \A d \in Commands : OnItsWay(d)' => OnItsWay(d)
  BY <1>1, <1>2 DEF OnItsWay
<1>5. QED
  BY <1>u, <1>3, <1>4 DEF AckInv, AcksSent, CallsSettled, ForeignAckHasCause, Mistaken, Unanswered, CauseFor, Abandoned

(* PX4 sends an ACK. *)
LEMMA Px4Acks ==
  ASSUME AdapterInv, AckInv, NEW c \in Commands, Px4Progress(c) \/ Px4Answer(c)
  PROVE  AckInv'
<1>u. UNCHANGED <<loopAcks, pc, result, outcome, credited>>
  BY DEF Px4Progress, Px4Answer, adapterVars, historyVars
<1>t. px4 \in [Commands -> {"unpublished", "published", "working", "answered"}]
  BY DEF AdapterInv, TypeOK
<1>1. Places' = Places /\ \A p \in Places : AckAt(p)' = AckAt(p)
  BY <1>u DEF Places, AckAt, Final
<1>2. CASE Px4Progress(c)
  <2>1. OnWire' = OnWire
    BY <1>2 DEF Px4Progress, OnWire, Final, FinalVerdicts
  <2>2. AcksOnce' /\ \A d \in Commands : OnItsWay(d)' <=> OnItsWay(d)
    BY <1>1, <2>1 DEF AckInv, AcksOnce, OnItsWay
  <2>3. /\ \A d \in Commands : px4[d] = "answered" => px4'[d] = "answered"
        /\ \A d \in Calls : px4'[d] # "unpublished" => px4[d] # "unpublished"
    BY <1>2, <1>t DEF Px4Progress
  <2>4. QED
    BY <1>u, <2>2, <2>3 DEF AckInv, AcksSent, CallsSettled, ForeignAckHasCause, Mistaken, Unanswered, CauseFor, Abandoned
<1>3. CASE Px4Answer(c)
  <2>1. PICK v \in FinalVerdicts : wire' = wire \cup {[call |-> c, verdict |-> v]}
    BY <1>3 DEF Px4Answer
  <2>2. OnWire' = OnWire \cup {[call |-> c, verdict |-> v]}
    BY <2>1 DEF OnWire, Final
  <2>3. ~OnItsWay(c) /\ \A d \in Calls : credited[d] # c
    BY <1>3 DEF Px4Answer, AckInv, AcksSent
  <2>4. AcksOnce'
    BY <1>1, <2>2, <2>3 DEF AckInv, AcksOnce, OnItsWay
  <2>5. \A d \in Commands : OnItsWay(d)' => OnItsWay(d) \/ d = c
    BY <1>1, <2>2 DEF OnItsWay
  <2>6. px4' = [px4 EXCEPT ![c] = "answered"] /\ px4[c] # "unpublished"
    BY <1>3 DEF Px4Answer
  <2>7. QED
    BY <1>u, <1>t, <2>3, <2>4, <2>5, <2>6 DEF AckInv, AcksSent, CallsSettled, ForeignAckHasCause, Mistaken, Unanswered, CauseFor, Abandoned
<1>4. QED
  BY <1>2, <1>3

LEMMA NextAcks == AdapterInv /\ AckInv /\ [Next]_vars => AckInv'
<1> SUFFICES ASSUME AdapterInv, AckInv, [Next]_vars PROVE AckInv'
  OBVIOUS
<1>1. CASE UNCHANGED vars
  <2>1. UNCHANGED <<wire, loopAcks, px4, pc, result, outcome, credited>>
    BY <1>1 DEF vars, adapterVars, ackVars, historyVars
  <2>2. QED
    BY <2>1, SameAcks DEF AckInv, AcksSent, CallsSettled, ForeignAckHasCause, Mistaken, Unanswered, CauseFor, Abandoned
<1>2. QED
  BY <1>1, CallStepAcks, CancelAcks, HandleAcks, ResolveAcks, CloseAcks, Px4Acks DEF Next

(* _resolve_command_ack() matches by command id only, so an ACK may settle *)
(* another command than its own.  It does so only for an ACK of another    *)
(* client's command, or of a call that had returned without it; and then   *)
(* some call was abandoned or took another client's ACK.                   *)
THEOREM ForeignAcksHaveCauses == Spec => []ForeignAckHasCause
<1>1. AckInv => ForeignAckHasCause
  BY DEF AckInv
<1>2. Spec => []AckInv
  BY InitAcks, NextAcks, AdapterInvariant, PTL DEF Spec
<1>3. QED
  BY <1>1, <1>2, PTL
=============================================================================
