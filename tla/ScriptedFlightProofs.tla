------------------------- MODULE ScriptedFlightProofs -------------------------
(***************************************************************************)
(* The scripted flight for every freshness limit, every duration of the    *)
(* Hold, and however often the wall clock is set back or the vehicle       *)
(* changes its mode: what a success claims has happened, and the flight    *)
(* begins on a fresh WorldState.                                           *)
(***************************************************************************)
EXTENDS ScriptedFlight, SequenceTheorems, FiniteSetTheorems, WellFoundedInduction, TLAPS

AtRest == {"waitReady", "syncing", "waitHome"}
Places == AtRest \cup {"start", "warming", "sending", "polling", "handover", "over"}
N == Len(results)

(* The commands of a skill's plan that may be left. *)
Plans ==
  CASE N = 0 -> {<<"takeoff", "arm">>, <<"arm">>}
    [] N = 3 -> {<<"AUTO_RTL">>}
    [] OTHER -> {<<"OFFBOARD">>}

(* The steps come in their order, each after the success of the one before.*)
ControlInv ==
  /\ place \in AtRest => N = 0 /\ tracking
  /\ place \notin AtRest \cup {"over"} => N < 4 /\ latest # None
  /\ \A i \in 1..N : i < N \/ place # "over" => results[i] = "SUCCEEDED"
  /\ place = "sending" => todo \in Plans
  /\ place \notin {"sending"} => todo = <<>>
  /\ place \in {"warming", "handover"} => N \in {1, 2}

(* A wall clock that was set back hides no more of an age than that.       *)
HidesAtMost(hidden, wall, real) ==
  /\ wall \in (-hidden)..(Cap - hidden) /\ real \in 0..Cap
  /\ real <= wall + hidden

AgeInv ==
  /\ \A t \in Required : age[t] = None <=> really[t] = None
  /\ \A t \in Required : age[t] # None => HidesAtMost(back, age[t], really[t])
  /\ latestAge # None => HidesAtMost(back, latestAge.wall, latestAge.really)
  /\ tracking /\ latest # None => latestAge # None

FlowInv == ScriptTypeOK /\ ControlInv /\ AgeInv

-----------------------------------------------------------------------------
LEMMA TheSteps ==
  /\ Len(Steps) = 4
  /\ Steps[1] = "takeoff" /\ Steps[2] = "goto" /\ Steps[3] = "hold" /\ Steps[4] = "rtl"
BY DEF Steps

(* Which skill is executed after how many results. *)
LEMMA TheSkill ==
  /\ N = 0 => Skill = "takeoff"
  /\ N = 1 => Skill = "goto"
  /\ N = 2 => Skill = "hold"
  /\ N = 3 => Skill = "rtl"
  /\ N \in {0, 1, 2, 3} =>
       /\ Skill = "takeoff" <=> N = 0
       /\ Skill = "goto" <=> N = 1
       /\ Skill = "hold" <=> N = 2
       /\ Skill = "rtl" <=> N = 3
<1>1. Skill = Steps[N + 1]
  BY DEF Skill, N
<1>2. (N = 0 => N + 1 = 1) /\ (N = 1 => N + 1 = 2) /\ (N = 2 => N + 1 = 3) /\ (N = 3 => N + 1 = 4)
  OBVIOUS
<1>3. /\ N = 0 => Skill = "takeoff"
      /\ N = 1 => Skill = "goto"
      /\ N = 2 => Skill = "hold"
      /\ N = 3 => Skill = "rtl"
  BY <1>1, <1>2, TheSteps
<1>4. QED
  BY <1>3

LEMMA FeedConstants ==
  /\ MaxAge \in Nat /\ MaxBack \in Nat /\ MaxTroubles \in Nat /\ Cap \in Nat /\ HoldFor \in Nat \ {0}
  /\ None \notin Int /\ None \notin BOOLEAN /\ None \notin Modes /\ None \notin Spots /\ None \notin Facts /\ None \notin SnapshotAges
BY FeedAssumption, ScriptAssumption DEF Cap

(* execute() returns. *)
LEMMA EndOfStep ==
  ASSUME ScriptTypeOK, N < 4, NEW s \in Statuses, StepEnds(s)
  PROVE  /\ results' \in Seq(Statuses) /\ Len(results') = N + 1 /\ N + 1 \in 1..4
         /\ results'[N + 1] = s /\ \A i \in 1..N : results'[i] = results[i]
         /\ place' \in {"start", "over"}
         /\ place' = "start" => s = "SUCCEEDED" /\ N + 1 < 4
         /\ todo' = <<>> /\ rtlStarted' = FALSE /\ holdSpot' = None /\ held' = None /\ steady' = 0
<1>1. results \in Seq(Statuses) /\ N \in Nat
  BY DEF ScriptTypeOK, N
<1>2. results' = Append(results, s)
  BY DEF StepEnds
<1>3. /\ results' \in Seq(Statuses) /\ Len(results') = N + 1
      /\ results'[N + 1] = s /\ \A i \in 1..N : results'[i] = results[i]
  BY <1>1, <1>2, AppendProperties DEF N
<1>4. QED
  BY <1>1, <1>3, TheSteps DEF StepEnds, GoTo

LEMMA InitFlow == Init => FlowInv
<1> SUFFICES ASSUME Init PROVE FlowInv
  OBVIOUS
<1>1. FeedTypeOK
  <2>1. tracking \in BOOLEAN /\ heard \in Facts /\ vehicle \in [mode : Modes, armed : BOOLEAN, spot : Spots]
    BY FeedAssumption DEF Init, FeedInit, Facts, Modes, Spots
  <2>2. QED
    BY <2>1, FeedConstants DEF Init, FeedInit, FeedTypeOK
<1>2. rtlStarted \in BOOLEAN
  BY DEF Init
<1>3. N = 0 /\ results \in Seq(Statuses) /\ todo \in Seq(Commands)
  BY DEF Init, N
<1>4. ScriptTypeOK
  <2>1. been \subseteq Deeds
    BY DEF Init, Did
  <2>2. QED
    BY <1>1, <1>2, <1>3, <2>1, FeedConstants, TheSteps DEF Init, ScriptTypeOK, N
<1>5. tracking
  BY DEF Init, FeedInit
<1>6. ControlInv
  BY <1>3, <1>5 DEF Init, ControlInv, AtRest
<1>7. AgeInv
  BY DEF Init, FeedInit, AgeInv
<1>8. QED
  BY <1>4, <1>6, <1>7 DEF FlowInv

-----------------------------------------------------------------------------
LEMMA LargestIsIn ==
  ASSUME NEW a \in Int, NEW b \in Int, NEW S, S \subseteq a..b, S # {}
  PROVE  LargestOf(S) \in S /\ \A y \in S : y <= LargestOf(S)
<1> DEFINE R == StrictSubsetOrdering(a..b)
           T == {i..b : i \in S}
<1>1. T \subseteq SUBSET (a..b) /\ T # {}
  <2>1. \A i \in S : i \in a..b /\ i..b \subseteq a..b
    OBVIOUS
  <2>2. PICK i \in S : TRUE
    OBVIOUS
  <2>3. i..b \in T
    OBVIOUS
  <2>4. \A u \in T : u \in SUBSET (a..b)
    BY <2>1
  <2>5. QED
    BY <2>3, <2>4
<1>2. IsFiniteSet(a..b)
  BY FS_Interval
<1>3. IsWellFoundedOn(R, SUBSET (a..b))
  BY <1>2, FS_StrictSubsetOrderingWellFounded, FS_FiniteSubsetsOfFinite
<1>4. PICK t \in T : \A u \in T : <<u, t>> \notin R
  <2> HIDE DEF R, T
  <2> QED BY <1>1, <1>3, WFMin
<1>5. PICK x \in S : t = x..b
  OBVIOUS
<1>6. ASSUME NEW y \in S, x < y PROVE FALSE
  <2>1. y..b \subseteq t /\ y..b # t /\ y..b \in T
    BY <1>5, <1>6
  <2>2. <<y..b, t>> \in R
    BY <1>1, <2>1 DEF StrictSubsetOrdering
  <2>3. QED
    BY <1>4, <2>1, <2>2
<1>7. \A y \in S : y <= x
  BY <1>6
<1>8. QED
  BY <1>7 DEF LargestOf

(* What the oldest sample says of the others. *)
LEMMA AgesOfSnapshot ==
  ASSUME FeedTypeOK, AgeInv
  PROVE  AgesNow \in SnapshotAges /\ HidesAtMost(back, AgesNow.wall, AgesNow.really)
<1> DEFINE walls == {age[t] : t \in Received} \cup {IF Received = {} THEN 0 ELSE -MaxBack}
           reals == {really[t] : t \in Received} \cup {0}
           oldest == LargestOf(walls)
           real == LargestOf(reals)
<1>k. back \in 0..MaxBack /\ MaxBack \in Nat /\ Cap \in Nat /\ Cap >= MaxBack + 1 /\ None \notin Int
  BY FeedAssumption DEF FeedTypeOK, Cap
<1>1. \A t \in Received : t \in Required /\ HidesAtMost(back, age[t], really[t])
  BY DEF Received, AgeInv
<1>2. \A t \in Received : age[t] \in (-back)..(Cap - back) /\ really[t] \in 0..Cap /\ really[t] <= age[t] + back
  BY <1>1 DEF HidesAtMost
<1>3. oldest \in walls /\ (\A y \in walls : y <= oldest) /\ walls \subseteq (-MaxBack)..Cap
  <2>1. walls \subseteq (-MaxBack)..Cap /\ walls # {}
    BY <1>k, <1>2
  <2>2. -MaxBack \in Int /\ Cap \in Int
    BY <1>k
  <2>3. LargestOf(walls) \in walls /\ \A y \in walls : y <= LargestOf(walls)
    <3> HIDE DEF walls
    <3> QED BY <2>1, <2>2, LargestIsIn
  <2>4. QED
    BY <2>1, <2>3
<1>4. real \in reals /\ (\A y \in reals : y <= real) /\ reals \subseteq 0..Cap
  <2>1. reals \subseteq 0..Cap /\ reals # {}
    BY <1>k, <1>2
  <2>2. 0 \in Int /\ Cap \in Int
    BY <1>k
  <2>3. LargestOf(reals) \in reals /\ \A y \in reals : y <= LargestOf(reals)
    <3> HIDE DEF reals
    <3> QED BY <2>1, <2>2, LargestIsIn
  <2>4. QED
    BY <2>1, <2>3
<1>5. oldest \in (-back)..(Cap - back)
  <2>1. CASE Received = {}
    BY <1>k, <1>3, <2>1
  <2>2. CASE Received # {}
    <3>1. PICK t \in Received : TRUE
      BY <2>2
    <3>2. age[t] <= oldest /\ age[t] \in (-back)..(Cap - back)
      BY <1>2, <1>3
    <3>3. CASE oldest = -MaxBack
      BY <1>k, <3>2, <3>3
    <3>4. CASE oldest # -MaxBack
      <4>1. PICK u \in Received : oldest = age[u]
        BY <1>3, <2>2, <3>4
      <4>2. QED
        BY <1>2, <4>1
    <3>5. QED
      BY <3>3, <3>4
  <2>3. QED
    BY <2>1, <2>2
<1>6. real \in 0..Cap /\ real <= oldest + back
  <2>1. CASE real = 0
    BY <1>k, <1>5, <2>1
  <2>2. CASE real # 0
    <3>1. PICK t \in Received : real = really[t]
      BY <1>4, <2>2
    <3>2. age[t] <= oldest
      BY <1>3
    <3>3. QED
      BY <1>k, <1>2, <1>5, <3>1, <3>2
  <2>3. QED
    BY <2>1, <2>2
<1>7. AgesNow = [link |-> \A t \in Required : IsFresh(t), recorded |-> Elapsed(oldest), wall |-> oldest, really |-> real]
  BY DEF AgesNow
<1>8. Elapsed(oldest) \in 0..Cap /\ oldest \in (-MaxBack)..Cap
  <2> HIDE DEF oldest
  <2> QED BY <1>k, <1>5 DEF Elapsed
<1>9. QED
  <2> HIDE DEF oldest, real
  <2>1. AgesNow.wall = oldest /\ AgesNow.really = real
    BY <1>7
  <2>2. AgesNow \in SnapshotAges
    <3>1. PICK l \in BOOLEAN : l = (\A t \in Required : IsFresh(t))
      OBVIOUS
    <3>2. AgesNow = [link |-> l, recorded |-> Elapsed(oldest), wall |-> oldest, really |-> real]
      BY <1>7, <3>1
    <3>3. QED
      BY <1>6, <1>8, <3>2 DEF SnapshotAges
  <2>3. QED
    BY <1>5, <1>6, <2>1, <2>2 DEF HidesAtMost

LEMMA HearKeeps ==
  ASSUME FeedTypeOK, AgeInv, NEW t \in Topics, Hear(t)
  PROVE  FeedTypeOK' /\ AgeInv'
<1>1. PICK bad \in BOOLEAN :
        /\ bad => troubles < MaxTroubles
        /\ troubles' = IF bad THEN troubles + 1 ELSE troubles
        /\ heard' = After(t, bad)
  BY DEF Hear
<1>2. troubles' \in 0..MaxTroubles
  BY <1>1, FeedConstants DEF FeedTypeOK
<1>3. heard' \in Facts
  <2>1. heard \in Facts /\ vehicle.mode \in Modes /\ vehicle.armed \in BOOLEAN /\ vehicle.spot \in Spots
    BY DEF FeedTypeOK
  <2>2. [heard EXCEPT !.spot = vehicle.spot, !.fix = ~bad] \in Facts
    BY <2>1 DEF Facts
  <2>3. [heard EXCEPT !.mode = vehicle.mode, !.armed = vehicle.armed, !.failsafe = bad] \in Facts
    BY <2>1 DEF Facts
  <2>4. [heard EXCEPT !.landed = vehicle.spot = "ground"] \in Facts
    BY <2>1 DEF Facts
  <2>5. [heard EXCEPT !.home = ~bad] \in Facts
    BY <2>1 DEF Facts
  <2>6. QED
    BY <1>1, <2>1, <2>2, <2>3, <2>4, <2>5 DEF After
<1>4. UNCHANGED <<vehicle, latest, latestAge, back, tracking>>
  BY DEF Hear
<1>5. CASE tracking /\ t \in Required
  <2>1. age' = [age EXCEPT ![t] = 0] /\ really' = [really EXCEPT ![t] = 0]
    BY <1>5 DEF Hear
  <2>2. back \in Nat /\ 0 \in (-back)..(Cap - back) /\ 0 \in 0..Cap /\ 0 <= 0 + back /\ 0 # None /\ 0 \in (-MaxBack)..Cap
    BY FeedAssumption DEF FeedTypeOK, Cap
  <2>3. HidesAtMost(back, 0, 0)
    BY <2>2 DEF HidesAtMost
  <2>4. FeedTypeOK'
    BY <1>2, <1>3, <1>4, <2>1, <2>2 DEF FeedTypeOK
  <2>5. ASSUME NEW u \in Required
        PROVE  /\ age'[u] = None <=> really'[u] = None
               /\ age'[u] # None => HidesAtMost(back, age'[u], really'[u])
    BY <2>1, <2>2, <2>3 DEF FeedTypeOK, AgeInv
  <2>6. AgeInv'
    BY <1>4, <2>5 DEF AgeInv, HidesAtMost
  <2>7. QED
    BY <2>4, <2>6
<1>6. CASE ~(tracking /\ t \in Required)
  <2>1. UNCHANGED <<age, really>>
    BY <1>6 DEF Hear
  <2>2. QED
    BY <1>2, <1>3, <1>4, <2>1 DEF FeedTypeOK, AgeInv, HidesAtMost
<1>7. QED
  BY <1>5, <1>6

LEMMA SnapshotKeeps ==
  ASSUME FeedTypeOK, AgeInv, TakeSnapshot
  PROVE  FeedTypeOK' /\ AgeInv' /\ latest' # None
<1>1. /\ latest' = heard /\ latestAge' = IF tracking THEN AgesNow ELSE latestAge
      /\ UNCHANGED <<vehicle, heard, age, really, back, troubles, tracking>>
  BY DEF TakeSnapshot
<1>2. AgesNow \in SnapshotAges /\ HidesAtMost(back, AgesNow.wall, AgesNow.really) /\ AgesNow # None
  BY AgesOfSnapshot, FeedConstants
<1>3. heard \in Facts /\ heard # None
  BY FeedConstants DEF FeedTypeOK
<1>4. latestAge' \in SnapshotAges \cup {None}
  BY <1>1, <1>2 DEF FeedTypeOK
<1>5. FeedTypeOK'
  BY <1>1, <1>3, <1>4 DEF FeedTypeOK
<1>6. AgeInv'
  <2>1. latestAge' # None => HidesAtMost(back, latestAge'.wall, latestAge'.really)
    BY <1>1, <1>2 DEF AgeInv
  <2>2. tracking' => latestAge' # None
    BY <1>1, <1>2
  <2>3. QED
    BY <1>1, <2>1, <2>2 DEF AgeInv, HidesAtMost
<1>7. QED
  BY <1>1, <1>3, <1>5, <1>6

(* The ages of the latest snapshot, one field of which changes. *)
LEMMA OtherAges ==
  ASSUME NEW a \in SnapshotAges, NEW w \in (-MaxBack)..Cap
  PROVE  /\ [a EXCEPT !.wall = w] \in SnapshotAges
         /\ [a EXCEPT !.wall = w].wall = w /\ [a EXCEPT !.wall = w].really = a.really
BY DEF SnapshotAges

LEMMA SetBackKeeps ==
  ASSUME FeedTypeOK, AgeInv, ClockSetBack
  PROVE  FeedTypeOK' /\ AgeInv'
<1>1. /\ tracking /\ back < MaxBack /\ back' = back + 1
      /\ age' = [t \in Required |-> Earlier(age[t])]
      /\ latestAge' = IF latestAge = None THEN None ELSE [latestAge EXCEPT !.wall = Earlier(latestAge.wall)]
      /\ UNCHANGED <<vehicle, really, knowledge, troubles, tracking>>
  BY DEF ClockSetBack
<1>k. back \in 0..MaxBack /\ back' \in 0..MaxBack /\ MaxBack \in Nat /\ Cap \in Nat /\ None \notin Int
  BY <1>1, FeedConstants DEF FeedTypeOK
<1>2. ASSUME NEW w, NEW r, HidesAtMost(back, w, r)
      PROVE  w # None /\ Earlier(w) \in (-MaxBack)..Cap /\ Earlier(w) # None /\ HidesAtMost(back', Earlier(w), r)
  <2>1. w \in Int /\ w # None
    BY <1>k, <1>2 DEF HidesAtMost
  <2>2. Earlier(w) = w - 1
    BY <2>1 DEF Earlier
  <2>3. QED
    BY <1>1, <1>k, <1>2, <2>1, <2>2 DEF HidesAtMost
<1>3. ASSUME NEW t \in Required
      PROVE  /\ age'[t] \in (-MaxBack)..Cap \cup {None} /\ (age'[t] = None <=> really'[t] = None)
             /\ age'[t] # None => HidesAtMost(back', age'[t], really'[t])
  <2>1. age'[t] = Earlier(age[t]) /\ really'[t] = really[t]
    BY <1>1
  <2>2. CASE age[t] = None
    BY <2>1, <2>2 DEF Earlier, AgeInv
  <2>3. CASE age[t] # None
    BY <1>2, <2>1, <2>3 DEF AgeInv
  <2>4. QED
    BY <2>2, <2>3
<1>4. /\ latestAge' \in SnapshotAges \cup {None}
      /\ latestAge' # None => HidesAtMost(back', latestAge'.wall, latestAge'.really)
      /\ latestAge # None => latestAge' # None
  <2>1. CASE latestAge = None
    BY <1>1, <2>1
  <2>2. CASE latestAge # None
    <3>1. PICK a \in SnapshotAges : a = latestAge
      BY <2>2 DEF FeedTypeOK
    <3>2. HidesAtMost(back, a.wall, a.really) /\ a.really \in 0..Cap
      BY <2>2, <3>1 DEF AgeInv, HidesAtMost
    <3>3. PICK w \in (-MaxBack)..Cap : w = Earlier(a.wall)
      BY <1>2, <3>2
    <3>4. latestAge' = [a EXCEPT !.wall = w]
      BY <1>1, <2>2, <3>1, <3>3
    <3>5. latestAge' \in SnapshotAges /\ latestAge'.wall = w /\ latestAge'.really = a.really
      BY <3>2, <3>4, OtherAges
    <3>6. QED
      BY <1>2, <3>2, <3>3, <3>5, FeedConstants
  <2>3. QED
    BY <2>1, <2>2
<1>5. FeedTypeOK'
  <2>1. age' \in [Required -> (-MaxBack)..Cap \cup {None}]
    BY <1>1, <1>3
  <2>2. QED
    BY <1>1, <1>k, <1>4, <2>1 DEF FeedTypeOK, knowledge
<1>6. AgeInv'
  BY <1>1, <1>3, <1>4 DEF AgeInv, HidesAtMost, knowledge
<1>7. QED
  BY <1>5, <1>6

LEMMA GrowingKeeps ==
  ASSUME FeedTypeOK, AgeInv, AgesGrow, UNCHANGED <<vehicle, knowledge, back, troubles, tracking>>
  PROVE  FeedTypeOK' /\ AgeInv'
<1>1. CASE ~tracking
  BY <1>1 DEF AgesGrow, FeedTypeOK, AgeInv, HidesAtMost, knowledge
<1>2. CASE tracking
  <2>1. /\ age' = [t \in Required |-> Later(age[t], Cap - back)]
        /\ really' = [t \in Required |-> Later(really[t], Cap)]
        /\ latestAge' = IF latestAge = None THEN None
                        ELSE [latestAge EXCEPT !.wall = Later(latestAge.wall, Cap - back),
                                             !.really = Later(latestAge.really, Cap)]
    BY <1>2 DEF AgesGrow, WallCap
  <2>k. back \in 0..MaxBack /\ MaxBack \in Nat /\ Cap \in Nat /\ None \notin Int
    BY FeedConstants DEF FeedTypeOK
  <2>2. ASSUME NEW w, NEW r, HidesAtMost(back, w, r)
        PROVE  /\ w # None /\ r # None /\ Later(w, Cap - back) # None /\ Later(r, Cap) # None
               /\ Later(w, Cap - back) \in (-MaxBack)..Cap /\ Later(r, Cap) \in 0..Cap
               /\ HidesAtMost(back, Later(w, Cap - back), Later(r, Cap))
    <3>1. w \in Int /\ w # None /\ r \in Int /\ r # None
      BY <2>k, <2>2 DEF HidesAtMost
    <3>2. /\ Later(w, Cap - back) = IF w = Cap - back THEN w ELSE w + 1
          /\ Later(r, Cap) = IF r = Cap THEN r ELSE r + 1
      BY <3>1 DEF Later
    <3>3. QED
      BY <2>k, <2>2, <3>1, <3>2 DEF HidesAtMost
  <2>3. ASSUME NEW t \in Required
        PROVE  /\ age'[t] \in (-MaxBack)..Cap \cup {None} /\ really'[t] \in 0..Cap \cup {None}
               /\ age'[t] = None <=> really'[t] = None
               /\ age'[t] # None => HidesAtMost(back, age'[t], really'[t])
    <3>1. age'[t] = Later(age[t], Cap - back) /\ really'[t] = Later(really[t], Cap)
      BY <2>1
    <3>2. CASE age[t] = None
      BY <3>1, <3>2 DEF Later, AgeInv
    <3>3. CASE age[t] # None
      BY <2>2, <3>1, <3>3 DEF AgeInv
    <3>4. QED
      BY <3>2, <3>3
  <2>4. /\ latestAge' \in SnapshotAges \cup {None}
        /\ latestAge' # None => HidesAtMost(back, latestAge'.wall, latestAge'.really)
        /\ latestAge # None => latestAge' # None
    <3>1. CASE latestAge = None
      BY <2>1, <3>1
    <3>2. CASE latestAge # None
      <4>1. PICK a \in SnapshotAges : a = latestAge
        BY <3>2 DEF FeedTypeOK
      <4>2. HidesAtMost(back, a.wall, a.really)
        BY <3>2, <4>1 DEF AgeInv
      <4>3. PICK w \in (-MaxBack)..Cap : w = Later(a.wall, Cap - back)
        BY <2>2, <4>2
      <4>4. PICK r \in 0..Cap : r = Later(a.really, Cap)
        BY <2>2, <4>2
      <4>5. latestAge' = [a EXCEPT !.wall = w, !.really = r]
        BY <2>1, <3>2, <4>1, <4>3, <4>4
      <4>6. latestAge' \in SnapshotAges /\ latestAge'.wall = w /\ latestAge'.really = r
        BY <4>5 DEF SnapshotAges
      <4>7. QED
        BY <2>2, <4>2, <4>3, <4>4, <4>6, FeedConstants
    <3>3. QED
      BY <3>1, <3>2
  <2>5. FeedTypeOK'
    <3>1. age' \in [Required -> (-MaxBack)..Cap \cup {None}] /\ really' \in [Required -> 0..Cap \cup {None}]
      BY <2>1, <2>3
    <3>2. QED
      BY <2>4, <3>1 DEF FeedTypeOK, knowledge
  <2>6. AgeInv'
    BY <2>3, <2>4 DEF AgeInv, HidesAtMost, knowledge
  <2>7. QED
    BY <2>5, <2>6
<1>3. QED
  BY <1>1, <1>2

LEMMA ForgettingKeeps ==
  ASSUME FeedTypeOK, AgeInv, ForgetAges, UNCHANGED <<vehicle, knowledge, troubles>>
  PROVE  FeedTypeOK' /\ AgeInv'
<1>1. tracking' = FALSE /\ tracking' \in BOOLEAN
  BY DEF ForgetAges
<1>2. QED
  BY <1>1, FeedConstants DEF ForgetAges, FeedTypeOK, AgeInv, knowledge

LEMMA VehicleKeeps ==
  ASSUME FeedTypeOK, AgeInv, UNCHANGED <<knowledge, ages>>, troubles' \in 0..MaxTroubles,
         vehicle' \in [mode : Modes, armed : BOOLEAN, spot : Spots]
  PROVE  FeedTypeOK' /\ AgeInv'
BY DEF FeedTypeOK, AgeInv, HidesAtMost, knowledge, ages

-----------------------------------------------------------------------------
(* The parts of the script that a step of execute() may leave alone. *)
controlVars == <<place, results, todo>>

LEMMA ExecutedTypes ==
  ASSUME FeedTypeOK, NEW c \in Commands
  PROVE  Executed(c) \in [mode : Modes, armed : BOOLEAN, spot : Spots]
BY DEF FeedTypeOK, Executed, Commands, Modes

LEMMA PlanFacts ==
  /\ <<"takeoff", "arm">> \in Seq(Commands) /\ <<"arm">> \in Seq(Commands)
  /\ <<"OFFBOARD">> \in Seq(Commands) /\ <<"AUTO_RTL">> \in Seq(Commands) /\ <<>> \in Seq(Commands)
  /\ Head(<<"takeoff", "arm">>) = "takeoff" /\ Tail(<<"takeoff", "arm">>) = <<"arm">>
  /\ Head(<<"arm">>) = "arm" /\ Tail(<<"arm">>) = <<>>
  /\ Head(<<"OFFBOARD">>) = "OFFBOARD" /\ Tail(<<"OFFBOARD">>) = <<>>
  /\ Head(<<"AUTO_RTL">>) = "AUTO_RTL" /\ Tail(<<"AUTO_RTL">>) = <<>>
  /\ <<"takeoff", "arm">> # <<>> /\ <<"arm">> # <<>> /\ <<"OFFBOARD">> # <<>> /\ <<"AUTO_RTL">> # <<>>
BY DEF Commands

LEMMA PlansAre ==
  /\ Plans \subseteq Seq(Commands)
  /\ \A p \in Plans : p # <<>> /\ Head(p) \in Commands /\ (Tail(p) = <<>> \/ Tail(p) \in Plans)
  /\ N # 0 => \A p \in Plans : Head(p) \in {"OFFBOARD", "AUTO_RTL"} /\ Tail(p) = <<>>
  /\ \A p \in Plans : Head(p) = "arm" => Tail(p) = <<>>
  /\ N = 0 => \A p \in Plans : Head(p) \in {"takeoff", "arm"} /\ (Head(p) = "takeoff" => Tail(p) # <<>>)
<1>1. CASE N = 0
  <2>1. Plans = {<<"takeoff", "arm">>, <<"arm">>}
    BY <1>1 DEF Plans
  <2>2. ASSUME NEW p \in Plans
        PROVE  /\ p \in Seq(Commands) /\ p # <<>> /\ Head(p) \in {"takeoff", "arm"}
               /\ Tail(p) = <<>> \/ Tail(p) \in Plans
               /\ Head(p) = "arm" => Tail(p) = <<>>
               /\ Head(p) = "takeoff" => Tail(p) # <<>>
    <3>1. CASE p = <<"takeoff", "arm">>
      BY <2>1, <3>1, PlanFacts
    <3>2. CASE p = <<"arm">>
      BY <2>1, <3>2, PlanFacts
    <3>3. QED
      BY <2>1, <3>1, <3>2
  <2>3. QED
    BY <1>1, <2>2 DEF Commands
<1>2. CASE N # 0
  <2>1. PICK c \in {"OFFBOARD", "AUTO_RTL"} : Plans = {<<c>>}
    <3>1. CASE N = 3
      BY <1>2, <3>1 DEF Plans
    <3>2. CASE N # 3
      BY <1>2, <3>2 DEF Plans
    <3>3. QED
      BY <3>1, <3>2
  <2>2. <<c>> \in Seq(Commands) /\ <<c>> # <<>> /\ Head(<<c>>) = c /\ Tail(<<c>>) = <<>>
    BY DEF Commands
  <2>3. QED
    BY <1>2, <2>1, <2>2 DEF Commands
<1>3. QED
  BY <1>1, <1>2

(* Where execute() leaves off, the plan of the next skill is not begun. *)
LEMMA ControlAfterStep ==
  ASSUME FlowInv, N < 4, place \notin AtRest \cup {"over"}, NEW s \in Statuses, StepEnds(s),
         FeedTypeOK', AgeInv', latest' = latest, been' \subseteq Deeds
  PROVE  FlowInv'
<1>1. ScriptTypeOK /\ ControlInv
  BY DEF FlowInv
<1>2. /\ results' \in Seq(Statuses) /\ Len(results') = N + 1 /\ N + 1 \in 1..4
      /\ results'[N + 1] = s /\ \A i \in 1..N : results'[i] = results[i]
      /\ place' \in {"start", "over"}
      /\ place' = "start" => s = "SUCCEEDED" /\ N + 1 < 4
      /\ todo' = <<>> /\ rtlStarted' = FALSE /\ holdSpot' = None /\ held' = None /\ steady' = 0
  BY <1>1, EndOfStep
<1>3. N \in Nat /\ N' = N + 1
  BY <1>1, <1>2 DEF N, ScriptTypeOK
<1>4. ScriptTypeOK'
  <2>1. Len(results') <= Len(Steps) /\ steady' \in 0..HoldFor
    BY <1>2, TheSteps, FeedConstants
  <2>2. rtlStarted' \in BOOLEAN
    BY <1>2
  <2>3. QED
    BY <1>2, <2>1, <2>2, PlanFacts DEF ScriptTypeOK
<1>5. ControlInv'
  <2>1. \A i \in 1..N : results'[i] = "SUCCEEDED"
    BY <1>1, <1>2 DEF ControlInv
  <2>2. \A i \in 1..(N + 1) : i < N + 1 \/ place' # "over" => results'[i] = "SUCCEEDED"
    BY <1>2, <1>3, <2>1
  <2>3. latest' # None
    BY <1>1 DEF ControlInv
  <2>4. QED
    BY <1>2, <1>3, <2>2, <2>3 DEF ControlInv, AtRest
<1>6. QED
  BY <1>4, <1>5 DEF FlowInv

(* The script goes on with the same skill. *)
LEMMA ControlDuringStep ==
  ASSUME FlowInv, place \notin AtRest \cup {"over"}, FeedTypeOK', AgeInv', results' = results,
         latest' = latest, been' \subseteq Deeds,
         rtlStarted' \in BOOLEAN, holdSpot' \in Spots \cup {None},
         held' \in 0..HoldFor \cup {None}, steady' \in 0..HoldFor,
         \/ place' = "sending" /\ todo' \in Plans
         \/ place' = "polling" /\ todo' = <<>>
         \/ place' \in {"warming", "handover"} /\ N \in {1, 2} /\ todo' = <<>>
  PROVE  FlowInv'
<1>1. ScriptTypeOK /\ ControlInv /\ N' = N
  BY DEF FlowInv, N
<1>2. ScriptTypeOK'
  BY <1>1, PlansAre, PlanFacts DEF ScriptTypeOK
<1>3. Plans' = Plans
  BY <1>1 DEF Plans
<1>4. ControlInv'
  BY <1>1, <1>3 DEF ControlInv, AtRest
<1>5. QED
  BY <1>2, <1>4 DEF FlowInv

(* Before the flight begins. *)
LEMMA ControlBefore ==
  ASSUME FlowInv, place \in AtRest, FeedTypeOK', AgeInv', Idle,
         \/ place' \in AtRest /\ tracking' = tracking
         \/ place' = "start" /\ latest' # None
         \/ place' = "over"
  PROVE  FlowInv'
<1>1. ScriptTypeOK /\ ControlInv
  BY DEF FlowInv
<1>2. N' = N /\ N = 0 /\ todo = <<>>
  BY <1>1 DEF ControlInv, Idle, N, AtRest
<1>3. ScriptTypeOK'
  BY <1>1 DEF ScriptTypeOK, Idle, AtRest
<1>4. ControlInv'
  BY <1>1, <1>2 DEF ControlInv, Idle, AtRest
<1>5. QED
  BY <1>3, <1>4 DEF FlowInv

(* Only the feed or the vehicle changes, or the counts of the Hold. *)
LEMMA ControlElsewhere ==
  ASSUME FlowInv, FeedTypeOK', AgeInv', UNCHANGED <<place, results, todo, rtlStarted, holdSpot, tracking>>,
         latest # None => latest' # None, been' \subseteq Deeds,
         held' \in 0..HoldFor \cup {None}, steady' \in 0..HoldFor
  PROVE  FlowInv'
<1>1. ScriptTypeOK /\ ControlInv /\ N' = N
  BY DEF FlowInv, N
<1>2. ScriptTypeOK'
  BY <1>1 DEF ScriptTypeOK
<1>3. Plans' = Plans
  BY <1>1 DEF Plans
<1>4. ControlInv'
  BY <1>1, <1>3 DEF ControlInv
<1>5. QED
  BY <1>2, <1>4 DEF FlowInv

-----------------------------------------------------------------------------
(* One step of the script, of the feed, of the vehicle or of the clock. *)
LEMMA StartupKeeps ==
  ASSUME FlowInv, Startup
  PROVE  FlowInv'
<1>0. FeedTypeOK /\ AgeInv
  BY DEF FlowInv, ScriptTypeOK
<1>1. ASSUME UNCHANGED feedVars PROVE FeedTypeOK' /\ AgeInv' /\ latest' = latest /\ tracking' = tracking
  BY <1>0, <1>1 DEF feedVars, knowledge, ages, FeedTypeOK, AgeInv, HidesAtMost
<1>2. CASE VehicleReady
  BY <1>1, <1>2, ControlBefore DEF VehicleReady, GoTo, AtRest
<1>3. CASE HomeSynced
  BY <1>1, <1>3, ControlBefore DEF HomeSynced, GoTo, AtRest
<1>4. CASE Launch
  <2>1. FeedTypeOK' /\ AgeInv'
    BY <1>0, <1>4, ForgettingKeeps DEF Launch
  <2>2. latest' # None /\ place \in AtRest /\ place' = "start" /\ Idle
    BY <1>4 DEF Launch, VehicleIsReady, GoTo, AtRest, knowledge
  <2>3. QED
    BY <2>1, <2>2, ControlBefore
<1>5. CASE StartupTimesOut
  BY <1>1, <1>5, ControlBefore DEF StartupTimesOut, GoTo, AtRest
<1>6. QED
  BY <1>2, <1>3, <1>4, <1>5 DEF Startup

LEMMA ModePlanIs == ModePlan = <<>> \/ ModePlan = <<"OFFBOARD">>
BY DEF ModePlan

LEMMA FlyingKeeps ==
  ASSUME FlowInv, Flying
  PROVE  FlowInv'
<1>0. FeedTypeOK /\ AgeInv /\ ScriptTypeOK /\ ControlInv
  BY DEF FlowInv, ScriptTypeOK
<1>1. place \notin AtRest \cup {"over"} /\ N < 4 /\ N \in Nat /\ latest # None
  <2>1. place \notin AtRest \cup {"over"}
    BY DEF Flying, StepStarts, WarmedUp, CommandAnswered, RoundSucceeds, RoundTimesOut, HandedOver, AtRest
  <2>2. QED
    BY <1>0, <2>1 DEF ControlInv, ScriptTypeOK, N
<1>2. ASSUME UNCHANGED feedVars PROVE FeedTypeOK' /\ AgeInv' /\ latest' = latest
  BY <1>0, <1>2 DEF feedVars, knowledge, ages, FeedTypeOK, AgeInv, HidesAtMost
<1>t. /\ rtlStarted \in BOOLEAN /\ holdSpot \in Spots \cup {None} /\ been \subseteq Deeds
      /\ held \in 0..HoldFor \cup {None} /\ steady \in 0..HoldFor
  BY <1>0 DEF ScriptTypeOK
<1>s. {"FAILED", "TIMED_OUT", "SUCCEEDED", "REJECTED_BY_PX4"} \subseteq Statuses
  BY DEF Statuses
<1>3. CASE StepStarts
  <2>1. FeedTypeOK' /\ AgeInv' /\ latest' = latest /\ been' \subseteq Deeds
    BY <1>2, <1>3, <1>t DEF StepStarts
  <2>2. CASE ~CanStart
    BY <1>1, <1>3, <1>s, <2>1, <2>2, ControlAfterStep DEF StepStarts
  <2>3. CASE CanStart
    <3>1. /\ CASE Skill = "takeoff" -> Proceed(<<"takeoff", "arm">>)
               [] Skill = "goto" -> GoTo("warming") /\ UNCHANGED todo
               [] Skill = "hold" -> Proceed(ModePlan)
               [] OTHER -> Proceed(<<"AUTO_RTL">>)
          /\ holdSpot' = IF Skill = "hold" THEN latest.spot ELSE None
          /\ UNCHANGED <<results, rtlStarted, held, steady>>
          /\ place = "start"
      BY <1>3, <2>3 DEF StepStarts
    <3>2. holdSpot' \in Spots \cup {None}
      BY <1>0, <1>1, <3>1 DEF FeedTypeOK, Facts
    <3>3. \/ place' = "sending" /\ todo' \in Plans
          \/ place' = "polling" /\ todo' = <<>>
          \/ place' = "warming" /\ N = 1 /\ todo' = <<>>
      <4>1. CASE N = 0
        <5>1. Proceed(<<"takeoff", "arm">>)
          BY <3>1, <4>1, TheSkill
        <5>2. QED
          BY <4>1, <5>1, PlanFacts DEF Proceed, GoTo, Plans
      <4>2. CASE N = 1
        <5>1. GoTo("warming") /\ UNCHANGED todo
          BY <3>1, <4>2, TheSkill
        <5>2. QED
          BY <1>0, <3>1, <4>2, <5>1 DEF GoTo, ControlInv
      <4>3. CASE N = 2
        <5>1. Proceed(ModePlan)
          BY <3>1, <4>3, TheSkill
        <5>2. QED
          BY <4>3, <5>1, PlanFacts, ModePlanIs DEF Proceed, GoTo, Plans
      <4>4. CASE N = 3
        <5>1. Proceed(<<"AUTO_RTL">>)
          BY <3>1, <4>4, TheSkill
        <5>2. QED
          BY <4>4, <5>1, PlanFacts DEF Proceed, GoTo, Plans
      <4>5. QED
        BY <1>1, <4>1, <4>2, <4>3, <4>4
    <3>5. rtlStarted' \in BOOLEAN /\ held' \in 0..HoldFor \cup {None} /\ steady' \in 0..HoldFor
      BY <1>t, <3>1
    <3>4. QED
      BY <1>1, <2>1, <3>1, <3>2, <3>3, <3>5, ControlDuringStep
  <2>4. QED
    BY <2>2, <2>3
<1>4. CASE WarmedUp
  <2>1. FeedTypeOK' /\ AgeInv' /\ latest' = latest /\ been' \subseteq Deeds
    BY <1>2, <1>4, <1>t DEF WarmedUp
  <2>2. N \in {1, 2}
    BY <1>0, <1>4 DEF ControlInv, WarmedUp
  <2>3. CASE Proceed(ModePlan) /\ UNCHANGED <<results, rtlStarted, holdSpot, held, steady>>
    <3>1. \/ place' = "sending" /\ todo' \in Plans
          \/ place' = "polling" /\ todo' = <<>>
      BY <2>2, <2>3, PlanFacts, ModePlanIs DEF Proceed, GoTo, Plans
    <3>2. QED
      BY <1>1, <1>t, <2>1, <2>3, <3>1, ControlDuringStep
  <2>4. CASE StepEnds("TIMED_OUT")
    BY <1>1, <1>s, <2>1, <2>4, ControlAfterStep
  <2>5. QED
    BY <1>4, <2>3, <2>4 DEF WarmedUp
<1>5. CASE CommandAnswered
  <2>1. PICK status \in {"ACCEPTED", "REJECTED_BY_PX4", "TIMED_OUT"} :
          /\ vehicle' \in CASE status = "ACCEPTED" -> {Executed(Head(todo))}
                            [] status = "TIMED_OUT" -> {vehicle, Executed(Head(todo))}
                            [] OTHER -> {vehicle}
          /\ been' = been \cup Did(vehicle')
          /\ IF status = "ACCEPTED"
               THEN /\ Proceed(Tail(todo))
                    /\ UNCHANGED <<results, rtlStarted, holdSpot, held, steady>>
               ELSE StepEnds(status)
    BY <1>5 DEF CommandAnswered
  <2>2. todo \in Plans /\ Head(todo) \in Commands /\ (Tail(todo) = <<>> \/ Tail(todo) \in Plans)
    BY <1>0, <1>5, PlansAre DEF CommandAnswered, ControlInv
  <2>3. vehicle' \in [mode : Modes, armed : BOOLEAN, spot : Spots]
    <3>1. Executed(Head(todo)) \in [mode : Modes, armed : BOOLEAN, spot : Spots]
      BY <1>0, <2>2, ExecutedTypes
    <3>2. vehicle \in [mode : Modes, armed : BOOLEAN, spot : Spots]
      BY <1>0 DEF FeedTypeOK
    <3>3. vehicle' \in {vehicle, Executed(Head(todo))}
      BY <2>1
    <3>4. QED
      BY <3>1, <3>2, <3>3
  <2>4. UNCHANGED <<knowledge, ages>> /\ troubles' \in 0..MaxTroubles /\ latest' = latest
    BY <1>0, <1>5 DEF CommandAnswered, FeedTypeOK, knowledge
  <2>5. FeedTypeOK' /\ AgeInv'
    BY <1>0, <2>3, <2>4, VehicleKeeps
  <2>6. been' \subseteq Deeds
    BY <1>t, <2>1 DEF Did
  <2>7. CASE status = "ACCEPTED"
    <3>1. /\ UNCHANGED <<results, rtlStarted, holdSpot, held, steady>>
          /\ (place' = "sending" /\ todo' \in Plans) \/ (place' = "polling" /\ todo' = <<>>)
      BY <2>1, <2>2, <2>7 DEF Proceed, GoTo
    <3>2. QED
      BY <1>1, <1>t, <2>4, <2>5, <2>6, <3>1, ControlDuringStep
  <2>8. CASE status # "ACCEPTED"
    BY <1>1, <1>s, <2>1, <2>4, <2>5, <2>6, <2>8, ControlAfterStep
  <2>9. QED
    BY <2>7, <2>8
<1>6. CASE RoundSucceeds
  BY <1>1, <1>2, <1>6, <1>s, <1>t, ControlAfterStep DEF RoundSucceeds
<1>7. CASE RoundTimesOut
  <2>1. FeedTypeOK' /\ AgeInv' /\ latest' = latest /\ been' \subseteq Deeds
    BY <1>2, <1>7, <1>t DEF RoundTimesOut
  <2>2. CASE Skill \in {"goto", "hold"}
    <3>1. N \in {1, 2}
      <4>1. N \in {0, 1, 2, 3}
        BY <1>1
      <4>2. QED
        BY <2>2, <4>1, TheSkill
    <3>2. /\ place' = "handover" /\ todo' = <<>>
          /\ UNCHANGED <<results, rtlStarted, holdSpot, held, steady>>
      BY <1>0, <1>7, <2>2 DEF RoundTimesOut, GoTo, ControlInv
    <3>3. QED
      BY <1>1, <1>t, <2>1, <3>1, <3>2, ControlDuringStep
  <2>3. CASE Skill \notin {"goto", "hold"}
    BY <1>1, <1>7, <1>s, <2>1, <2>3, ControlAfterStep DEF RoundTimesOut
  <2>4. QED
    BY <2>2, <2>3
<1>8. CASE HandedOver
  <2>1. vehicle' \in [mode : Modes, armed : BOOLEAN, spot : Spots]
    <3>1. vehicle \in [mode : Modes, armed : BOOLEAN, spot : Spots]
      BY <1>0 DEF FeedTypeOK
    <3>2. [vehicle EXCEPT !.mode = "other"] \in [mode : Modes, armed : BOOLEAN, spot : Spots]
      BY <3>1 DEF Modes
    <3>3. QED
      BY <1>8, <3>1, <3>2 DEF HandedOver
  <2>2. UNCHANGED <<knowledge, ages>> /\ troubles' \in 0..MaxTroubles /\ latest' = latest /\ been' = been
    BY <1>0, <1>8 DEF HandedOver, FeedTypeOK, knowledge
  <2>3. FeedTypeOK' /\ AgeInv'
    BY <1>0, <2>1, <2>2, VehicleKeeps
  <2>4. QED
    BY <1>1, <1>8, <1>s, <1>t, <2>2, <2>3, ControlAfterStep DEF HandedOver
<1>9. QED
  BY <1>3, <1>4, <1>5, <1>6, <1>7, <1>8 DEF Flying

LEMMA FlowStep == FlowInv /\ [Next]_allVars => FlowInv'
<1> SUFFICES ASSUME FlowInv, [Next]_allVars PROVE FlowInv'
  OBVIOUS
<1>0. FeedTypeOK /\ AgeInv /\ ScriptTypeOK /\ ControlInv
  BY DEF FlowInv, ScriptTypeOK
<1>t. /\ rtlStarted \in BOOLEAN /\ holdSpot \in Spots \cup {None} /\ been \subseteq Deeds
      /\ held \in 0..HoldFor \cup {None} /\ steady \in 0..HoldFor
      /\ HoldFor \in Nat \ {0} /\ None \notin Int
  BY <1>0, FeedConstants DEF ScriptTypeOK
<1>1. CASE Startup
  BY <1>1, StartupKeeps
<1>2. CASE Flying
  BY <1>2, FlyingKeeps
<1>3. CASE RoundGoesOn
  <2>1. UNCHANGED feedVars /\ place = "polling" /\ UNCHANGED <<place, results, todo, holdSpot, been>>
    BY <1>3 DEF RoundGoesOn
  <2>2. FeedTypeOK' /\ AgeInv' /\ latest' = latest
    BY <1>0, <2>1 DEF feedVars, knowledge, ages, FeedTypeOK, AgeInv, HidesAtMost
  <2>3. held' \in {None, 0, held} /\ steady' \in {0, steady}
    BY <1>3 DEF RoundGoesOn, HeldByNow
  <2>4. held' \in 0..HoldFor \cup {None} /\ steady' \in 0..HoldFor
    BY <1>t, <2>3
  <2>5. rtlStarted' \in BOOLEAN
    BY <1>3 DEF RoundGoesOn
  <2>6. N < 4 /\ place' = "polling" /\ todo' = <<>> /\ place \notin AtRest \cup {"over"}
    BY <1>0, <2>1 DEF ControlInv, AtRest
  <2>7. holdSpot' \in Spots \cup {None} /\ been' \subseteq Deeds
    BY <1>t, <2>1
  <2>8. QED
    BY <2>1, <2>2, <2>4, <2>5, <2>6, <2>7, ControlDuringStep
<1>4. ASSUME UNCHANGED <<knowledge, ages>>, troubles' \in 0..MaxTroubles, been' = been \cup Did(vehicle'),
             vehicle' \in [mode : Modes, armed : BOOLEAN, spot : Spots],
             UNCHANGED <<place, results, todo, rtlStarted, holdSpot, held, steady>>
      PROVE  FlowInv'
  <2>1. FeedTypeOK' /\ AgeInv'
    BY <1>0, <1>4, VehicleKeeps
  <2>2. been' \subseteq Deeds /\ latest' = latest /\ tracking' = tracking
    BY <1>4, <1>t DEF Did, knowledge, ages
  <2>3. QED
    BY <1>4, <1>t, <2>1, <2>2, ControlElsewhere
<1>5. CASE VehicleMoves
  <2>1. vehicle' \in [mode : Modes, armed : BOOLEAN, spot : Spots]
    <3>1. vehicle \in [mode : Modes, armed : BOOLEAN, spot : Spots] /\ "aloft" \in Spots
      BY <1>0 DEF FeedTypeOK, Spots
    <3>2. QED
      BY <1>5, <3>1 DEF VehicleMoves
  <2>2. troubles' \in 0..MaxTroubles
    BY <1>0, <1>5 DEF VehicleMoves, FeedTypeOK
  <2>3. QED
    BY <1>4, <1>5, <2>1, <2>2 DEF VehicleMoves
<1>6. CASE ModeChanges
  <2>1. vehicle' \in [mode : Modes, armed : BOOLEAN, spot : Spots]
    BY <1>0, <1>6 DEF ModeChanges, FeedTypeOK
  <2>2. troubles' \in 0..MaxTroubles /\ UNCHANGED <<knowledge, ages>>
    BY <1>0, <1>6, FeedConstants DEF ModeChanges, FeedTypeOK
  <2>3. QED
    BY <1>4, <1>6, <2>1, <2>2 DEF ModeChanges
<1>7. CASE FeedStep
  <2>1. UNCHANGED scriptVars
    BY <1>7 DEF FeedStep
  <2>2. FeedTypeOK' /\ AgeInv' /\ (latest # None => latest' # None) /\ tracking' = tracking
    <3>1. CASE TakeSnapshot
      BY <1>0, <3>1, SnapshotKeeps DEF TakeSnapshot
    <3>2. ASSUME NEW t \in Topics, Hear(t)
          PROVE  FeedTypeOK' /\ AgeInv' /\ latest' = latest /\ tracking' = tracking
      BY <1>0, <3>2, HearKeeps DEF Hear
    <3>3. CASE ClockSetBack
      BY <1>0, <3>3, SetBackKeeps DEF ClockSetBack, knowledge
    <3>4. QED
      BY <1>7, <3>1, <3>2, <3>3 DEF FeedStep
  <2>3. QED
    BY <1>t, <2>1, <2>2, ControlElsewhere DEF scriptVars
<1>8. CASE TimePasses
  <2>1. /\ AgesGrow /\ UNCHANGED <<vehicle, knowledge, back, troubles, tracking>>
        /\ UNCHANGED <<place, results, todo, rtlStarted, holdSpot, been>>
        /\ held' = IF held = None THEN None ELSE OneMore(held)
        /\ steady' = IF place = "polling" /\ Skill = "hold" THEN OneMore(steady) ELSE steady
    BY <1>8 DEF TimePasses
  <2>2. FeedTypeOK' /\ AgeInv' /\ latest' = latest /\ tracking' = tracking
    BY <1>0, <2>1, GrowingKeeps DEF knowledge
  <2>3. \A n \in 0..HoldFor : OneMore(n) \in 0..HoldFor
    BY <1>t DEF OneMore
  <2>4. steady' \in 0..HoldFor
    BY <1>t, <2>1, <2>3
  <2>5. held' \in 0..HoldFor \cup {None}
    BY <1>t, <2>1, <2>3
  <2>6. been' \subseteq Deeds
    BY <1>t, <2>1
  <2>7. QED
    BY <2>1, <2>2, <2>4, <2>5, <2>6, ControlElsewhere
<1>9. CASE UNCHANGED allVars
  <2>1. UNCHANGED feedVars /\ UNCHANGED scriptVars
    BY <1>9 DEF allVars
  <2>2. FeedTypeOK' /\ AgeInv' /\ latest' = latest /\ tracking' = tracking
    BY <1>0, <2>1 DEF feedVars, knowledge, ages, FeedTypeOK, AgeInv, HidesAtMost
  <2>3. QED
    BY <1>t, <2>1, <2>2, ControlElsewhere DEF scriptVars
<1>10. QED
  BY <1>1, <1>2, <1>3, <1>5, <1>6, <1>7, <1>8, <1>9 DEF Next

LEMMA FlowAlways == Spec => []FlowInv
<1>1. QED
  BY InitFlow, FlowStep, PTL DEF Spec

-----------------------------------------------------------------------------
(* Every variable of the script and of the feed keeps to its values: the   *)
(* ages stay within what a wall clock set back this often can hide.        *)
THEOREM ScriptTypes == Spec => []ScriptTypeOK
<1>1. FlowInv => ScriptTypeOK
  BY DEF FlowInv
<1>2. QED
  BY <1>1, FlowAlways, PTL

(* _vehicle_is_ready(): however often the wall clock was set back while    *)
(* the vehicle was waited for, the samples that let the flight begin are   *)
(* older than the limit by no more than that.                              *)
THEOREM FreshLaunches == Spec => LaunchedFresh
<1>1. FlowInv /\ [Next]_allVars => [Launch => latestAge.really <= MaxAge + back]_allVars
  <2> SUFFICES ASSUME FlowInv, Launch PROVE latestAge.really <= MaxAge + back
    OBVIOUS
  <2>1. place = "waitHome" /\ latest # None /\ AgeOf <= MaxAge
    BY DEF Launch, VehicleIsReady
  <2>2. latestAge # None /\ HidesAtMost(back, latestAge.wall, latestAge.really)
    BY <2>1 DEF FlowInv, ControlInv, AgeInv, AtRest
  <2>3. PICK a \in SnapshotAges : a = latestAge
    BY <2>2 DEF FlowInv, ScriptTypeOK, FeedTypeOK
  <2>4. /\ a.recorded \in 0..Cap /\ a.wall \in (-MaxBack)..Cap /\ MaxAge \in Nat /\ back \in Nat
        /\ Cap \in Nat /\ MaxBack \in Nat
    BY FeedConstants DEF SnapshotAges, FlowInv, ScriptTypeOK, FeedTypeOK
  <2>5. Elapsed(a.wall) \in 0..Cap /\ a.wall <= Elapsed(a.wall)
    BY <2>4 DEF Elapsed
  <2>6. /\ LargestOf({a.recorded, Elapsed(a.wall)}) \in {a.recorded, Elapsed(a.wall)}
        /\ \A y \in {a.recorded, Elapsed(a.wall)} : y <= LargestOf({a.recorded, Elapsed(a.wall)})
    <3>1. {a.recorded, Elapsed(a.wall)} \subseteq 0..Cap /\ {a.recorded, Elapsed(a.wall)} # {}
      BY <2>4, <2>5
    <3>2. 0 \in Int /\ Cap \in Int
      BY <2>4
    <3>3. QED
      BY <3>1, <3>2, LargestIsIn
  <2>7. Elapsed(a.wall) <= MaxAge
    <3>1. PICK m : m = LargestOf({a.recorded, Elapsed(a.wall)})
      OBVIOUS
    <3>2. m \in 0..Cap /\ Elapsed(a.wall) <= m
      BY <2>4, <2>5, <2>6, <3>1
    <3>3. m <= MaxAge
      BY <2>1, <2>3, <3>1 DEF AgeOf
    <3>4. QED
      BY <2>4, <2>5, <3>2, <3>3
  <2>8. QED
    BY <2>2, <2>3, <2>4, <2>5, <2>7 DEF HidesAtMost
<1>2. QED
  BY <1>1, FlowAlways, PTL DEF LaunchedFresh, Spec

-----------------------------------------------------------------------------
(* The time of the Hold counts only in its own rounds, and no faster than  *)
(* the time since a round saw the vehicle off its target.                  *)
HoldInv ==
  /\ held # None => N = 2 /\ place \in {"polling", "handover"}
  /\ place = "polling" /\ held # None => held <= steady

LEMMA InitHold == Init => HoldInv
BY DEF Init, HoldInv

LEMMA HoldStep == FlowInv /\ HoldInv /\ [Next]_allVars => HoldInv'
<1> SUFFICES ASSUME FlowInv, HoldInv, [Next]_allVars PROVE HoldInv'
  OBVIOUS
<1>0. ScriptTypeOK /\ ControlInv
  BY DEF FlowInv
<1>t. held \in 0..HoldFor \cup {None} /\ steady \in 0..HoldFor /\ HoldFor \in Nat \ {0} /\ None \notin Int
  BY <1>0, FeedConstants DEF ScriptTypeOK
<1>1. ASSUME NEW s, StepEnds(s) PROVE HoldInv'
  BY <1>1 DEF StepEnds, HoldInv
<1>2. ASSUME place \notin {"polling", "handover"}, held' = held PROVE HoldInv'
  BY <1>2 DEF HoldInv
<1>3. ASSUME UNCHANGED <<results, held>>, place' # "polling", place' = place \/ place' = "handover" PROVE HoldInv'
  BY <1>3 DEF HoldInv, N
<1>4. ASSUME UNCHANGED <<place, results, held, steady>> PROVE HoldInv'
  BY <1>4 DEF HoldInv, N
<1>5. CASE Startup
  BY <1>2, <1>5 DEF Startup, VehicleReady, HomeSynced, Launch, StartupTimesOut, Idle
<1>6. CASE StepStarts
  BY <1>1, <1>2, <1>6 DEF StepStarts
<1>7. CASE WarmedUp
  BY <1>1, <1>2, <1>7 DEF WarmedUp
<1>8. CASE CommandAnswered
  <2>1. PICK status \in {"ACCEPTED", "REJECTED_BY_PX4", "TIMED_OUT"} : held' = held \/ StepEnds(status)
    BY <1>8 DEF CommandAnswered
  <2>2. QED
    BY <1>1, <1>2, <1>8, <2>1 DEF CommandAnswered
<1>9. CASE RoundSucceeds
  BY <1>1, <1>9 DEF RoundSucceeds
<1>10. CASE RoundTimesOut
  <2>1. CASE StepEnds("TIMED_OUT")
    BY <1>1, <2>1
  <2>2. CASE GoTo("handover") /\ UNCHANGED <<results, held>>
    BY <1>3, <2>2 DEF GoTo
  <2>3. QED
    BY <1>10, <2>1, <2>2 DEF RoundTimesOut
<1>11. CASE HandedOver
  BY <1>1, <1>11 DEF HandedOver
<1>12. CASE RoundGoesOn
  <2>1. /\ place = "polling" /\ UNCHANGED <<place, results>>
        /\ held' = IF Skill = "hold" THEN HeldByNow ELSE None
        /\ steady' = IF Skill = "hold" /\ OnHoldSpot THEN steady ELSE 0
    BY <1>12 DEF RoundGoesOn
  <2>2. CASE Skill # "hold" \/ ~OnHoldSpot
    BY <2>1, <2>2 DEF HoldInv, HeldByNow
  <2>3. CASE Skill = "hold" /\ OnHoldSpot
    <3>1. held' = (IF held = None THEN 0 ELSE held) /\ steady' = steady
      BY <2>1, <2>3 DEF HeldByNow
    <3>2. N' = 2
      <4>1. N < 4 /\ N \in Nat /\ N' = N
        BY <1>0, <2>1 DEF ControlInv, AtRest, ScriptTypeOK, N
      <4>2. N \in {0, 1, 2, 3}
        BY <4>1
      <4>3. QED
        BY <2>3, <4>1, <4>2, TheSkill
    <3>3. held' <= steady'
      <4>1. CASE held = None
        BY <1>t, <3>1, <4>1
      <4>2. CASE held # None
        BY <2>1, <3>1, <4>2 DEF HoldInv
      <4>3. QED
        BY <4>1, <4>2
    <3>4. QED
      BY <2>1, <3>2, <3>3 DEF HoldInv
  <2>4. QED
    BY <2>2, <2>3
<1>13. CASE TimePasses
  <2>1. /\ UNCHANGED <<place, results>>
        /\ held' = IF held = None THEN None ELSE OneMore(held)
        /\ steady' = IF place = "polling" /\ Skill = "hold" THEN OneMore(steady) ELSE steady
    BY <1>13 DEF TimePasses
  <2>2. held' # None => held # None
    BY <2>1
  <2>3. ASSUME place = "polling", held # None PROVE held' <= steady'
    <3>1. Skill = "hold"
      BY <2>3, TheSkill DEF HoldInv
    <3>2. held' = OneMore(held) /\ steady' = OneMore(steady) /\ held <= steady
      BY <2>1, <2>3, <3>1 DEF HoldInv
    <3>3. QED
      BY <1>t, <2>3, <3>2 DEF OneMore
  <2>4. QED
    BY <2>1, <2>2, <2>3 DEF HoldInv, N
<1>14. CASE VehicleMoves
  BY <1>4, <1>14 DEF VehicleMoves
<1>15. CASE ModeChanges
  BY <1>4, <1>15 DEF ModeChanges
<1>16. CASE FeedStep
  BY <1>4, <1>16 DEF FeedStep, scriptVars
<1>17. CASE UNCHANGED allVars
  BY <1>4, <1>17 DEF allVars, scriptVars
<1>18. QED
  BY <1>5, <1>6, <1>7, <1>8, <1>9, <1>10, <1>11, <1>12, <1>13, <1>14, <1>15, <1>16, <1>17 DEF Next, Flying

(* A step with which a skill ends: only a completed round says SUCCEEDED.  *)
LEMMA OnlyRoundsSucceed ==
  ASSUME FlowInv, [Next]_allVars, results' # results
  PROVE  /\ place \notin AtRest \cup {"over"} /\ N < 4
         /\ \E s \in Statuses : StepEnds(s) /\ (s = "SUCCEEDED" => RoundSucceeds)
<1>1. \E s \in Statuses : StepEnds(s) /\ (s = "SUCCEEDED" => RoundSucceeds)
  <2>1. CASE StepStarts
    <3>1. StepEnds("FAILED")
      BY <2>1 DEF StepStarts
    <3>2. QED
      BY <3>1 DEF Statuses
  <2>2. CASE WarmedUp
    <3>1. StepEnds("TIMED_OUT")
      BY <2>2 DEF WarmedUp
    <3>2. QED
      BY <3>1 DEF Statuses
  <2>3. CASE CommandAnswered
    <3>1. PICK status \in {"ACCEPTED", "REJECTED_BY_PX4", "TIMED_OUT"} :
            IF status = "ACCEPTED" THEN UNCHANGED results ELSE StepEnds(status)
      BY <2>3 DEF CommandAnswered
    <3>2. QED
      BY <3>1 DEF Statuses
  <2>4. CASE RoundSucceeds
    <3>1. StepEnds("SUCCEEDED")
      BY <2>4 DEF RoundSucceeds
    <3>2. QED
      BY <2>4, <3>1 DEF Statuses
  <2>5. CASE RoundTimesOut
    <3>1. StepEnds("TIMED_OUT")
      BY <2>5 DEF RoundTimesOut
    <3>2. QED
      BY <3>1 DEF Statuses
  <2>6. CASE HandedOver
    <3>1. StepEnds("TIMED_OUT")
      BY <2>6 DEF HandedOver
    <3>2. QED
      BY <3>1 DEF Statuses
  <2>7. QED
    BY <2>1, <2>2, <2>3, <2>4, <2>5, <2>6 DEF Next, Flying, Startup, VehicleReady, HomeSynced, Launch,
       StartupTimesOut, Idle, RoundGoesOn, VehicleMoves, ModeChanges, FeedStep, TimePasses, allVars, scriptVars
<1>2. place \notin AtRest \cup {"over"}
  BY DEF Next, Flying, StepStarts, WarmedUp, CommandAnswered, RoundSucceeds, RoundTimesOut, HandedOver,
     Startup, VehicleReady, HomeSynced, Launch, StartupTimesOut, Idle, RoundGoesOn, VehicleMoves, ModeChanges,
     FeedStep, TimePasses, allVars, scriptVars, AtRest
<1>3. QED
  BY <1>1, <1>2 DEF FlowInv, ControlInv

(* _offboard_completion_reached(): a Hold that succeeds was seen on its    *)
(* target in every round for as long as it had to last.                    *)
THEOREM HoldsDwell == Spec => HoldMeansDwell
<1>1. FlowInv /\ HoldInv /\ [Next]_allVars
        => [Len(results') = 3 /\ Len(results) = 2 /\ results'[3] = "SUCCEEDED" => steady >= HoldFor]_allVars
  <2> SUFFICES ASSUME FlowInv, HoldInv, [Next]_allVars, Len(results') = 3, N = 2, results'[3] = "SUCCEEDED"
               PROVE  steady >= HoldFor
    BY DEF N
  <2>1. PICK s \in Statuses : StepEnds(s) /\ (s = "SUCCEEDED" => RoundSucceeds)
    BY OnlyRoundsSucceed DEF N
  <2>2. results'[N + 1] = s
    <3>1. ScriptTypeOK /\ N < 4 /\ StepEnds(s)
      BY <2>1 DEF FlowInv
    <3>2. QED
      BY <3>1, EndOfStep
  <2>3. RoundSucceeds
    BY <2>1, <2>2
  <2>4. Completed /\ place = "polling" /\ Skill = "hold"
    BY <2>3, TheSkill DEF RoundSucceeds
  <2>5. HeldByNow # None /\ HeldByNow >= HoldFor
    BY <2>4 DEF Completed
  <2>6. /\ held \in 0..HoldFor \cup {None} /\ steady \in 0..HoldFor /\ HoldFor \in Nat \ {0} /\ None \notin Int
    BY FeedConstants DEF FlowInv, ScriptTypeOK
  <2>7. held # None /\ HeldByNow = held
    BY <2>5, <2>6 DEF HeldByNow
  <2>8. QED
    BY <2>4, <2>5, <2>6, <2>7 DEF HoldInv
<1>2. QED
  BY <1>1, InitFlow, FlowStep, InitHold, HoldStep, PTL DEF HoldMeansDwell, Spec

-----------------------------------------------------------------------------
(* What anybody knows of the vehicle's mode and place has really been. *)
Tells(k) ==
  /\ k.mode \in {"OFFBOARD", "AUTO_RTL"} => k.mode \in been
  /\ k.spot \in {"aloft", "target"} => k.spot \in been

HistoryInv ==
  /\ Tells(vehicle) /\ Tells(heard)
  /\ latest # None => Tells(latest)
  /\ rtlStarted => "AUTO_RTL" \in been

LEMMA InitHistory == Init => HistoryInv
<1> SUFFICES ASSUME Init PROVE HistoryInv
  OBVIOUS
<1>1. Tells(vehicle)
  BY DEF Init, Tells, Did, Deeds
<1>2. heard.mode = None /\ heard.spot = None /\ latest = None
  BY DEF Init, FeedInit
<1>3. Tells(heard)
  <2>1. None \notin {"OFFBOARD", "AUTO_RTL", "aloft", "target"}
    BY FeedConstants DEF Modes, Spots
  <2>2. QED
    BY <1>2, <2>1 DEF Tells
<1>4. QED
  BY <1>1, <1>2, <1>3 DEF Init, HistoryInv

(* Steps that say nothing of the vehicle. *)
LEMMA QuietHistory ==
  ASSUME HistoryInv, UNCHANGED <<vehicle, knowledge, been>>, rtlStarted' => rtlStarted \/ "AUTO_RTL" \in been
  PROVE  HistoryInv'
BY DEF HistoryInv, Tells, knowledge

LEMMA VehicleHistory ==
  ASSUME HistoryInv, UNCHANGED knowledge, been \subseteq been', rtlStarted' => rtlStarted,
         Tells(vehicle)'
  PROVE  HistoryInv'
BY DEF HistoryInv, Tells, knowledge

LEMMA DoneIsTold ==
  ASSUME been' = been \cup Did(vehicle')
  PROVE  been \subseteq been' /\ Tells(vehicle)'
BY DEF Tells, Did, Deeds

LEMMA HearTells ==
  ASSUME FlowInv, HistoryInv, NEW t \in Topics, Hear(t), UNCHANGED scriptVars
  PROVE  HistoryInv'
<1>1. PICK bad \in BOOLEAN : heard' = After(t, bad)
  BY DEF Hear
<1>2. heard \in Facts
  BY DEF FlowInv, ScriptTypeOK, FeedTypeOK
<1>3. /\ heard'.mode = heard.mode \/ heard'.mode = vehicle.mode
      /\ heard'.spot = heard.spot \/ heard'.spot = vehicle.spot
  BY <1>1, <1>2 DEF After, Facts
<1>4. UNCHANGED <<vehicle, latest, been, rtlStarted>>
  BY DEF Hear, scriptVars
<1>5. Tells(heard)'
  BY <1>3, <1>4 DEF HistoryInv, Tells
<1>6. QED
  BY <1>4, <1>5 DEF HistoryInv, Tells

LEMMA HistoryStep == FlowInv /\ HistoryInv /\ [Next]_allVars => HistoryInv'
<1> SUFFICES ASSUME FlowInv, HistoryInv, [Next]_allVars PROVE HistoryInv'
  OBVIOUS
<1>1. ASSUME NEW s, StepEnds(s) PROVE rtlStarted' = FALSE
  BY <1>1 DEF StepEnds
<1>2. CASE Startup
  <2>1. UNCHANGED <<vehicle, knowledge, been, rtlStarted>>
    BY <1>2 DEF Startup, VehicleReady, HomeSynced, Launch, StartupTimesOut, Idle, feedVars
  <2>2. QED
    BY <2>1, QuietHistory
<1>3. CASE StepStarts \/ WarmedUp \/ RoundSucceeds \/ RoundTimesOut
  <2>1. UNCHANGED <<vehicle, knowledge, been>> /\ (rtlStarted' => rtlStarted)
    BY <1>1, <1>3 DEF StepStarts, WarmedUp, RoundSucceeds, RoundTimesOut, feedVars
  <2>2. QED
    BY <2>1, QuietHistory
<1>4. CASE CommandAnswered
  <2>1. been' = been \cup Did(vehicle') /\ UNCHANGED knowledge /\ (rtlStarted' => rtlStarted)
    BY <1>1, <1>4 DEF CommandAnswered
  <2>2. QED
    BY <2>1, DoneIsTold, VehicleHistory
<1>5. CASE HandedOver
  <2>1. been' = been /\ UNCHANGED knowledge /\ (rtlStarted' => rtlStarted)
    BY <1>1, <1>5 DEF HandedOver
  <2>2. vehicle'.spot = vehicle.spot /\ vehicle'.mode \in {vehicle.mode, "other"}
    BY <1>5 DEF HandedOver, FlowInv, ScriptTypeOK, FeedTypeOK
  <2>3. Tells(vehicle)'
    BY <2>1, <2>2 DEF HistoryInv, Tells
  <2>4. QED
    BY <2>1, <2>3, VehicleHistory
<1>6. CASE RoundGoesOn
  <2>1. UNCHANGED <<vehicle, knowledge, been>> /\ (rtlStarted' => SeenReturning)
    BY <1>6 DEF RoundGoesOn, feedVars
  <2>2. latest # None
    BY <1>6 DEF RoundGoesOn, FlowInv, ControlInv, AtRest
  <2>3. SeenReturning => rtlStarted \/ "AUTO_RTL" \in been
    BY <2>2 DEF SeenReturning, HistoryInv, Tells
  <2>4. QED
    BY <2>1, <2>3, QuietHistory
<1>7. CASE VehicleMoves \/ ModeChanges
  <2>1. been' = been \cup Did(vehicle') /\ UNCHANGED <<knowledge, rtlStarted>>
    BY <1>7 DEF VehicleMoves, ModeChanges
  <2>2. QED
    BY <2>1, DoneIsTold, VehicleHistory
<1>8. CASE FeedStep
  <2>1. UNCHANGED scriptVars
    BY <1>8 DEF FeedStep
  <2>2. CASE TakeSnapshot
    BY <2>1, <2>2 DEF TakeSnapshot, scriptVars, HistoryInv, Tells
  <2>3. ASSUME NEW t \in Topics, Hear(t) PROVE HistoryInv'
    BY <2>1, <2>3, HearTells
  <2>4. CASE ClockSetBack
    <3>1. UNCHANGED <<vehicle, knowledge, been, rtlStarted>>
      BY <2>1, <2>4 DEF ClockSetBack, scriptVars
    <3>2. QED
      BY <3>1, QuietHistory
  <2>5. QED
    BY <1>8, <2>2, <2>3, <2>4 DEF FeedStep
<1>9. CASE TimePasses
  BY <1>9, QuietHistory DEF TimePasses
<1>10. CASE UNCHANGED allVars
  BY <1>10, QuietHistory DEF allVars, feedVars, scriptVars
<1>11. QED
  BY <1>2, <1>3, <1>4, <1>5, <1>6, <1>7, <1>8, <1>9, <1>10 DEF Next, Flying

-----------------------------------------------------------------------------
(* The vehicle is armed once, on the ground, by the Takeoff's last command:*)
(* once that has been seen, whoever knows it as disarmed is right.         *)
Unarmed == place \in AtRest \/ (N = 0 /\ place \in {"start", "warming", "sending"})
KnownDisarmed(k) == ~k.armed => ~vehicle.armed

ArmedInv ==
  /\ ~vehicle.armed => vehicle.spot = "ground"
  /\ Unarmed => ~vehicle.armed /\ ~heard.armed
  /\ Unarmed /\ latest # None => ~latest.armed
  /\ latest # None /\ latest.armed => KnownDisarmed(heard)
  /\ N > 0 /\ place # "over" => KnownDisarmed(heard) /\ KnownDisarmed(latest)

LEMMA InitArmed == Init => StartsAloft \/ ArmedInv
BY FeedAssumption DEF Init, FeedInit, ArmedInv, N

(* Steps during which the vehicle is not armed, nor anything heard of it.  *)
LEMMA QuietArmed ==
  ASSUME FlowInv, ArmedInv, UNCHANGED knowledge, UNCHANGED results,
         vehicle'.spot = vehicle.spot, vehicle'.armed = vehicle.armed,
         Unarmed' => Unarmed, place = "over" => place' = "over"
  PROVE  ArmedInv'
<1>1. N' = N /\ latest' = latest /\ heard' = heard
  BY DEF N, knowledge
<1>2. KnownDisarmed(heard)' <=> KnownDisarmed(heard)
  BY <1>1 DEF KnownDisarmed
<1>3. KnownDisarmed(latest)' <=> KnownDisarmed(latest)
  BY <1>1 DEF KnownDisarmed
<1>4. QED
  BY <1>1, <1>2, <1>3 DEF ArmedInv

(* A skill ends without success. *)
LEMMA FailedArmed ==
  ASSUME FlowInv, ArmedInv, NEW s, s # "SUCCEEDED", StepEnds(s), UNCHANGED knowledge,
         ~vehicle'.armed => vehicle'.spot = "ground",
         latest # None /\ latest.armed => (~heard.armed => ~vehicle'.armed)
  PROVE  ArmedInv'
<1>1. place' = "over" /\ latest' = latest /\ heard' = heard
  BY DEF StepEnds, GoTo, knowledge
<1>2. ~Unarmed'
  BY <1>1 DEF Unarmed, AtRest
<1>3. latest' # None /\ latest'.armed => KnownDisarmed(heard)'
  BY <1>1 DEF KnownDisarmed
<1>4. QED
  BY <1>1, <1>2, <1>3 DEF ArmedInv

LEMMA FlyingArmed ==
  ASSUME FlowInv, ArmedInv, Flying
  PROVE  ArmedInv'
<1>0. place \notin AtRest \cup {"over"} /\ N < 4 /\ N \in Nat /\ latest # None
  <2>1. place \notin AtRest \cup {"over"}
    BY DEF Flying, StepStarts, WarmedUp, CommandAnswered, RoundSucceeds, RoundTimesOut, HandedOver, AtRest
  <2>2. QED
    BY <2>1 DEF FlowInv, ControlInv, ScriptTypeOK, N
<1>1. ASSUME NEW s, s # "SUCCEEDED", StepEnds(s), UNCHANGED <<vehicle, knowledge>> PROVE ArmedInv'
  BY <1>1, FailedArmed DEF ArmedInv, KnownDisarmed
<1>2. ASSUME UNCHANGED <<vehicle, knowledge, results>>, Unarmed' => Unarmed PROVE ArmedInv'
  BY <1>0, <1>2, QuietArmed
<1>3. CASE StepStarts
  <2>1. UNCHANGED <<vehicle, knowledge>> /\ place = "start"
    BY <1>3 DEF StepStarts, feedVars
  <2>2. CASE StepEnds("FAILED")
    BY <1>1, <2>1, <2>2
  <2>3. CASE CanStart
    <3>1. results' = results
      BY <1>3, <2>3 DEF StepStarts
    <3>2. place' \in {"warming", "sending", "polling"}
      BY <1>3, <2>3 DEF StepStarts, Proceed, GoTo
    <3>3. QED
      BY <1>2, <2>1, <3>1, <3>2 DEF Unarmed, N, AtRest
  <2>4. QED
    BY <1>3, <2>2, <2>3 DEF StepStarts
<1>4. CASE WarmedUp
  <2>1. UNCHANGED <<vehicle, knowledge>> /\ place = "warming"
    BY <1>4 DEF WarmedUp, feedVars
  <2>2. CASE StepEnds("TIMED_OUT")
    BY <1>1, <2>1, <2>2
  <2>3. CASE Proceed(ModePlan) /\ results' = results
    BY <1>2, <2>1, <2>3 DEF Unarmed, Proceed, GoTo, N, AtRest
  <2>4. QED
    BY <1>4, <2>2, <2>3 DEF WarmedUp
<1>5. CASE CommandAnswered
  <2>1. PICK status \in {"ACCEPTED", "REJECTED_BY_PX4", "TIMED_OUT"} :
          /\ vehicle' \in {vehicle, Executed(Head(todo))}
          /\ IF status = "ACCEPTED"
               THEN Proceed(Tail(todo)) /\ UNCHANGED results
               ELSE StepEnds(status)
    BY <1>5 DEF CommandAnswered
  <2>2. todo \in Plans /\ place = "sending" /\ UNCHANGED knowledge
    BY <1>5 DEF CommandAnswered, FlowInv, ControlInv
  <2>3. vehicle'.spot = vehicle.spot /\ (vehicle.armed => vehicle'.armed)
    BY <2>1 DEF Executed, FlowInv, ScriptTypeOK, FeedTypeOK
  <2>4. ~vehicle'.armed => vehicle'.spot = "ground"
    BY <2>3 DEF ArmedInv
  <2>5. CASE Head(todo) = "arm"
    <3>1. N = 0 /\ Tail(todo) = <<>>
      BY <2>2, <2>5, PlansAre
    <3>2. Unarmed /\ ~latest.armed
      BY <1>0, <2>2, <3>1 DEF Unarmed, ArmedInv
    <3>3. CASE status = "ACCEPTED"
      <4>1. place' = "polling" /\ results' = results
        BY <2>1, <3>1, <3>3 DEF Proceed, GoTo
      <4>2. ~Unarmed' /\ N' = 0 /\ latest' = latest
        BY <2>2, <3>1, <4>1 DEF Unarmed, AtRest, N, knowledge
      <4>3. QED
        BY <2>4, <3>2, <4>2 DEF ArmedInv
    <3>4. CASE status # "ACCEPTED"
      BY <2>1, <2>2, <2>4, <3>2, <3>4, FailedArmed
    <3>5. QED
      BY <3>3, <3>4
  <2>6. CASE Head(todo) # "arm"
    <3>1. vehicle'.armed = vehicle.armed
      BY <2>1, <2>6 DEF Executed, FlowInv, ScriptTypeOK, FeedTypeOK
    <3>2. CASE status = "ACCEPTED"
      <4>1. results' = results /\ (Unarmed' => Unarmed)
        BY <2>1, <2>2, <3>2 DEF Proceed, GoTo, Unarmed, N, AtRest
      <4>2. QED
        BY <1>0, <2>2, <2>3, <3>1, <4>1, QuietArmed
    <3>3. CASE status # "ACCEPTED"
      <4>1. latest # None /\ latest.armed => (~heard.armed => ~vehicle'.armed)
        BY <3>1 DEF ArmedInv, KnownDisarmed
      <4>2. QED
        BY <2>1, <2>2, <2>4, <3>3, <4>1, FailedArmed
    <3>4. QED
      BY <3>2, <3>3
  <2>7. QED
    BY <2>5, <2>6
<1>6. CASE RoundSucceeds
  <2>1. UNCHANGED <<vehicle, knowledge>> /\ place = "polling" /\ Completed /\ StepEnds("SUCCEEDED")
    BY <1>6 DEF RoundSucceeds, feedVars
  <2>2. N' = N + 1 /\ place' \in {"start", "over"}
    <3>1. ScriptTypeOK /\ "SUCCEEDED" \in Statuses
      BY DEF FlowInv, Statuses
    <3>2. QED
      BY <1>0, <2>1, <3>1, EndOfStep DEF N
  <2>3. ~Unarmed'
    BY <1>0, <2>2 DEF Unarmed, AtRest
  <2>4. KnownDisarmed(heard) /\ KnownDisarmed(latest)
    <3>1. CASE N = 0
      <4>1. latest.armed
        BY <2>1, <3>1, TheSkill DEF Completed
      <4>2. QED
        BY <1>0, <4>1 DEF ArmedInv, KnownDisarmed
    <3>2. CASE N > 0
      BY <1>0, <3>2 DEF ArmedInv
    <3>3. QED
      BY <1>0, <3>1, <3>2
  <2>5. KnownDisarmed(heard)' /\ KnownDisarmed(latest)'
    BY <2>1, <2>4 DEF KnownDisarmed, knowledge
  <2>6. QED
    BY <2>1, <2>3, <2>5 DEF ArmedInv
<1>7. CASE RoundTimesOut
  <2>1. UNCHANGED <<vehicle, knowledge>> /\ place = "polling"
    BY <1>7 DEF RoundTimesOut, feedVars
  <2>2. CASE StepEnds("TIMED_OUT")
    BY <1>1, <2>1, <2>2
  <2>3. CASE GoTo("handover") /\ results' = results
    BY <1>2, <2>1, <2>3 DEF Unarmed, GoTo, N, AtRest
  <2>4. QED
    BY <1>7, <2>2, <2>3 DEF RoundTimesOut
<1>8. CASE HandedOver
  <2>1. StepEnds("TIMED_OUT") /\ UNCHANGED knowledge
    BY <1>8 DEF HandedOver
  <2>2. vehicle'.armed = vehicle.armed /\ vehicle'.spot = vehicle.spot
    BY <1>8 DEF HandedOver, FlowInv, ScriptTypeOK, FeedTypeOK
  <2>3. QED
    BY <2>1, <2>2, FailedArmed DEF ArmedInv, KnownDisarmed
<1>9. QED
  BY <1>3, <1>4, <1>5, <1>6, <1>7, <1>8 DEF Flying

LEMMA HearArmed ==
  ASSUME FlowInv, ArmedInv, NEW t \in Topics, Hear(t), UNCHANGED scriptVars
  PROVE  ArmedInv'
<1>1. PICK bad \in BOOLEAN : heard' = After(t, bad)
  BY DEF Hear
<1>2. heard \in Facts
  BY DEF FlowInv, ScriptTypeOK, FeedTypeOK
<1>3. heard'.armed = heard.armed \/ heard'.armed = vehicle.armed
  BY <1>1, <1>2 DEF After, Facts
<1>4. UNCHANGED <<vehicle, latest, place, results>>
  BY DEF Hear, scriptVars
<1>5. N' = N /\ (Unarmed' <=> Unarmed)
  BY <1>4 DEF N, Unarmed
<1>6. KnownDisarmed(heard) => KnownDisarmed(heard)'
  BY <1>3, <1>4 DEF KnownDisarmed
<1>7. KnownDisarmed(latest)' <=> KnownDisarmed(latest)
  BY <1>4 DEF KnownDisarmed
<1>8. Unarmed => ~heard'.armed
  BY <1>3 DEF ArmedInv
<1>9. QED
  BY <1>4, <1>5, <1>6, <1>7, <1>8 DEF ArmedInv

LEMMA SnapshotArmed ==
  ASSUME FlowInv, ArmedInv, TakeSnapshot, UNCHANGED scriptVars
  PROVE  ArmedInv'
<1>1. UNCHANGED <<vehicle, heard, place, results>> /\ latest' = heard
  BY DEF TakeSnapshot, scriptVars
<1>2. N' = N /\ (Unarmed' <=> Unarmed)
  BY <1>1 DEF N, Unarmed
<1>3. KnownDisarmed(heard)' <=> KnownDisarmed(heard)
  BY <1>1 DEF KnownDisarmed
<1>4. KnownDisarmed(latest)' <=> KnownDisarmed(heard)
  BY <1>1 DEF KnownDisarmed
<1>5. latest'.armed => KnownDisarmed(heard)'
  BY <1>1 DEF KnownDisarmed
<1>6. QED
  BY <1>1, <1>2, <1>3, <1>4, <1>5 DEF ArmedInv

(* An unarmed vehicle is on the ground and stays there. *)
LEMMA MovesArmed ==
  ASSUME FlowInv, ArmedInv, VehicleMoves
  PROVE  ArmedInv'
<1>1. /\ vehicle \in [mode : Modes, armed : BOOLEAN, spot : Spots]
      /\ UNCHANGED <<heard, latest, place, results>>
  BY DEF VehicleMoves, FlowInv, ScriptTypeOK, FeedTypeOK, knowledge
<1>2. vehicle.armed
  BY DEF VehicleMoves, ArmedInv
<1>3. ~vehicle'.armed => vehicle'.spot = "ground"
  <2>1. CASE \E s \in Spots \ {vehicle.spot} : vehicle' = [vehicle EXCEPT !.spot = s]
    BY <1>1, <1>2, <2>1
  <2>2. CASE vehicle' = [vehicle EXCEPT !.spot = "aloft"]
    BY <1>1, <1>2, <2>2
  <2>3. CASE vehicle.spot = "ground" /\ vehicle' = [vehicle EXCEPT !.armed = FALSE]
    BY <1>1, <2>3
  <2>4. QED
    BY <2>1, <2>2, <2>3 DEF VehicleMoves
<1>4. N' = N /\ ~Unarmed /\ ~Unarmed'
  BY <1>1, <1>2 DEF N, Unarmed, ArmedInv
<1>5. KnownDisarmed(heard) => KnownDisarmed(heard)'
  BY <1>1, <1>2 DEF KnownDisarmed
<1>6. KnownDisarmed(latest) => KnownDisarmed(latest)'
  BY <1>1, <1>2 DEF KnownDisarmed
<1>7. QED
  BY <1>1, <1>3, <1>4, <1>5, <1>6 DEF ArmedInv

LEMMA ArmedStep == FlowInv /\ ArmedInv /\ [Next]_allVars => ArmedInv'
<1> SUFFICES ASSUME FlowInv, ArmedInv, [Next]_allVars PROVE ArmedInv'
  OBVIOUS
<1>1. ASSUME UNCHANGED <<vehicle, knowledge, place, results>> PROVE ArmedInv'
  BY <1>1, QuietArmed DEF Unarmed, N
<1>2. CASE Startup
  <2>1. place \in AtRest /\ UNCHANGED <<vehicle, knowledge, results>>
    BY <1>2 DEF Startup, VehicleReady, HomeSynced, Launch, StartupTimesOut, Idle, feedVars, AtRest
  <2>2. Unarmed /\ place # "over"
    BY <2>1 DEF Unarmed, AtRest
  <2>3. QED
    BY <2>1, <2>2, QuietArmed
<1>3. CASE Flying
  BY <1>3, FlyingArmed
<1>4. CASE RoundGoesOn
  BY <1>1, <1>4 DEF RoundGoesOn, feedVars
<1>5. CASE VehicleMoves
  BY <1>5, MovesArmed
<1>6. CASE ModeChanges
  <2>1. vehicle'.armed = vehicle.armed /\ vehicle'.spot = vehicle.spot
    BY <1>6 DEF ModeChanges, FlowInv, ScriptTypeOK, FeedTypeOK
  <2>2. UNCHANGED <<knowledge, place, results>>
    BY <1>6 DEF ModeChanges
  <2>3. QED
    BY <2>1, <2>2, QuietArmed DEF Unarmed, N
<1>7. CASE FeedStep
  <2>1. UNCHANGED scriptVars
    BY <1>7 DEF FeedStep
  <2>2. CASE ClockSetBack
    BY <1>1, <2>1, <2>2 DEF ClockSetBack, scriptVars
  <2>3. QED
    BY <1>7, <2>1, <2>2, HearArmed, SnapshotArmed DEF FeedStep
<1>8. CASE TimePasses
  BY <1>1, <1>8 DEF TimePasses
<1>9. CASE UNCHANGED allVars
  BY <1>1, <1>9 DEF allVars, feedVars, scriptVars
<1>10. QED
  BY <1>2, <1>3, <1>4, <1>5, <1>6, <1>7, <1>8, <1>9 DEF Next

-----------------------------------------------------------------------------
LEMMA InitSuccesses == Init => SuccessesAreReal
<1>1. ASSUME Init PROVE 1..Len(results) = {}
  BY <1>1 DEF Init
<1>2. QED
  BY <1>1 DEF SuccessesAreReal

(* What has been stays so, and nothing moves once the script is over. *)
LEMMA NothingIsUndone ==
  ASSUME FlowInv, [Next]_allVars
  PROVE  /\ been \subseteq been'
         /\ N = 4 => vehicle' = vehicle
         /\ place = "over" => vehicle' = vehicle
<1>1. been \subseteq been'
  BY DEF Next, Flying, StepStarts, WarmedUp, CommandAnswered, RoundSucceeds, RoundTimesOut, HandedOver,
     Startup, VehicleReady, HomeSynced, Launch, StartupTimesOut, Idle, RoundGoesOn, VehicleMoves, ModeChanges,
     FeedStep, TimePasses, allVars, scriptVars
<1>2. place = "over" => vehicle' = vehicle
  BY DEF Next, Flying, StepStarts, WarmedUp, CommandAnswered, RoundSucceeds, RoundTimesOut, HandedOver,
     Startup, VehicleReady, HomeSynced, Launch, StartupTimesOut, Idle, RoundGoesOn, VehicleMoves, ModeChanges,
     FeedStep, TimePasses, allVars, feedVars
<1>3. N = 4 => place = "over"
  BY DEF FlowInv, ControlInv
<1>4. QED
  BY <1>1, <1>2, <1>3

(* What the round that completes a skill has seen. *)
LEMMA CompletedIsReal ==
  ASSUME FlowInv, HistoryInv, StartsAloft \/ ArmedInv, RoundSucceeds
  PROVE  /\ N = 0 => been \cap {"aloft", "target"} # {}
         /\ N = 1 => {"OFFBOARD", "target"} \subseteq been
         /\ N = 2 => "OFFBOARD" \in been
         /\ N = 3 => "AUTO_RTL" \in been /\ (StartsAloft \/ Parked)
<1>1. Completed /\ place = "polling" /\ latest # None /\ Tells(latest)
  BY DEF RoundSucceeds, FlowInv, ControlInv, AtRest, HistoryInv
<1>2. ASSUME N = 0 PROVE been \cap {"aloft", "target"} # {}
  <2>1. latest.spot \in {"aloft", "target"}
    BY <1>1, <1>2, TheSkill DEF Completed
  <2>2. QED
    BY <1>1, <2>1 DEF Tells
<1>3. ASSUME N = 1 PROVE {"OFFBOARD", "target"} \subseteq been
  <2>1. InOffboard /\ latest.spot = "target"
    BY <1>1, <1>3, TheSkill DEF Completed
  <2>2. QED
    BY <1>1, <2>1 DEF Tells, InOffboard
<1>4. ASSUME N = 2 PROVE "OFFBOARD" \in been
  <2>1. HeldByNow # None
    BY <1>1, <1>4, TheSkill DEF Completed
  <2>2. latest.mode = "OFFBOARD"
    BY <2>1 DEF HeldByNow, OnHoldSpot, InOffboard
  <2>3. QED
    BY <1>1, <2>2 DEF Tells
<1>5. ASSUME N = 3 PROVE "AUTO_RTL" \in been /\ (StartsAloft \/ Parked)
  <2>1. SeenReturning /\ ~latest.armed
    BY <1>1, <1>5, TheSkill DEF Completed
  <2>2. "AUTO_RTL" \in been
    BY <1>1, <2>1 DEF SeenReturning, Tells, HistoryInv
  <2>3. ASSUME ~StartsAloft PROVE Parked
    <3>1. ~vehicle.armed
      BY <1>1, <1>5, <2>1, <2>3 DEF ArmedInv, KnownDisarmed
    <3>2. QED
      BY <2>3, <3>1 DEF ArmedInv, Parked
  <2>4. QED
    BY <2>2, <2>3
<1>6. QED
  BY <1>2, <1>3, <1>4, <1>5

Claims(i) ==
  CASE Steps[i] = "takeoff" -> been \cap {"aloft", "target"} # {}
    [] Steps[i] = "goto" -> {"OFFBOARD", "target"} \subseteq been
    [] Steps[i] = "hold" -> "OFFBOARD" \in been
    [] OTHER -> "AUTO_RTL" \in been /\ (StartsAloft \/ Parked)

LEMMA TheClaims ==
  /\ Claims(1) <=> been \cap {"aloft", "target"} # {}
  /\ Claims(2) <=> {"OFFBOARD", "target"} \subseteq been
  /\ Claims(3) <=> "OFFBOARD" \in been
  /\ Claims(4) <=> "AUTO_RTL" \in been /\ (StartsAloft \/ Parked)
BY TheSteps DEF Claims

LEMMA ClaimsLast ==
  ASSUME been \subseteq been', NEW i \in 1..4, Claims(i), i = 4 => vehicle' = vehicle
  PROVE  Claims(i)'
<1>1. CASE i = 1
  BY <1>1, TheClaims, TheSteps DEF Claims
<1>2. CASE i = 2
  BY <1>2, TheClaims, TheSteps DEF Claims
<1>3. CASE i = 3
  BY <1>3, TheClaims, TheSteps DEF Claims
<1>4. CASE i = 4
  BY <1>4, TheClaims, TheSteps DEF Claims, Parked
<1>5. QED
  BY <1>1, <1>2, <1>3, <1>4

LEMMA SuccessStep ==
  FlowInv /\ HistoryInv /\ (StartsAloft \/ ArmedInv) /\ SuccessesAreReal /\ [Next]_allVars
    => SuccessesAreReal'
<1> SUFFICES ASSUME FlowInv, HistoryInv, StartsAloft \/ ArmedInv, SuccessesAreReal, [Next]_allVars,
                    NEW i \in 1..Len(results'), results'[i] = "SUCCEEDED"
             PROVE  Claims(i)'
  BY DEF SuccessesAreReal, Claims
<1>0. ScriptTypeOK /\ N \in Nat /\ N <= 4 /\ been \subseteq been'
  BY NothingIsUndone, TheSteps DEF FlowInv, ScriptTypeOK, N
<1>1. \A j \in 1..N : results[j] = "SUCCEEDED" => Claims(j)
  BY DEF SuccessesAreReal, Claims, N
<1>2. CASE results' = results
  <2>1. i \in 1..4 /\ i \in 1..N /\ Claims(i)
    BY <1>0, <1>1, <1>2 DEF N
  <2>2. i = 4 => vehicle' = vehicle
    <3>1. i = 4 => N = 4
      BY <1>0, <2>1
    <3>2. QED
      BY <3>1, NothingIsUndone
  <2>3. QED
    BY <1>0, <2>1, <2>2, ClaimsLast
<1>3. CASE results' # results
  <2>1. PICK s \in Statuses : StepEnds(s) /\ (s = "SUCCEEDED" => RoundSucceeds)
    BY <1>3, OnlyRoundsSucceed
  <2>2. N < 4
    BY <1>3, OnlyRoundsSucceed
  <2>3. /\ Len(results') = N + 1 /\ N + 1 \in 1..4
        /\ results'[N + 1] = s /\ \A j \in 1..N : results'[j] = results[j]
    BY <1>0, <2>1, <2>2, EndOfStep
  <2>4. CASE i \in 1..N
    <3>1. i \in 1..4 /\ i # 4 /\ Claims(i)
      BY <1>0, <1>1, <2>2, <2>3, <2>4
    <3>2. QED
      BY <1>0, <3>1, ClaimsLast
  <2>5. CASE i \notin 1..N
    <3>1. i = N + 1 /\ i \in 1..4
      BY <1>0, <2>3, <2>5
    <3>2. RoundSucceeds
      BY <2>1, <2>3, <3>1
    <3>3. UNCHANGED vehicle
      BY <3>2 DEF RoundSucceeds, feedVars
    <3>4. Claims(i)
      <4>1. /\ N = 0 => Claims(1)
            /\ N = 1 => Claims(2)
            /\ N = 2 => Claims(3)
            /\ N = 3 => Claims(4)
        BY <3>2, CompletedIsReal, TheClaims
      <4>2. CASE N = 0
        BY <3>1, <4>1, <4>2
      <4>3. CASE N = 1
        BY <3>1, <4>1, <4>3
      <4>4. CASE N = 2
        BY <3>1, <4>1, <4>4
      <4>5. CASE N = 3
        BY <3>1, <4>1, <4>5
      <4>6. QED
        BY <1>0, <2>2, <4>2, <4>3, <4>4, <4>5
    <3>5. QED
      BY <1>0, <3>1, <3>3, <3>4, ClaimsLast
  <2>6. QED
    BY <2>4, <2>5
<1>4. QED
  BY <1>2, <1>3

(* The completion rules: although a round decides on samples of different  *)
(* ages, what the success of a skill claims has really happened, and after *)
(* an RTL the vehicle is on the ground and disarmed, if the script began   *)
(* with it there.                                                          *)
THEOREM SuccessesHappened == Spec => []SuccessesAreReal
<1>1. Init => FlowInv /\ HistoryInv /\ (StartsAloft \/ ArmedInv) /\ SuccessesAreReal
  BY InitFlow, InitHistory, InitArmed, InitSuccesses
<1>2. FlowInv /\ HistoryInv /\ (StartsAloft \/ ArmedInv) /\ SuccessesAreReal /\ [Next]_allVars
        => (FlowInv /\ HistoryInv /\ (StartsAloft \/ ArmedInv) /\ SuccessesAreReal)'
  BY FlowStep, HistoryStep, ArmedStep, SuccessStep
<1>3. QED
  BY <1>1, <1>2, PTL DEF Spec
=============================================================================
