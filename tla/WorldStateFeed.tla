--------------------------- MODULE WorldStateFeed ---------------------------
(***************************************************************************)
(* WorldStateAggregator and Px4WorldStateAdapter: what the program knows   *)
(* of the vehicle.  Each topic reports a part of its state, at moments of  *)
(* its own; messages are lost; a timer makes snapshots of what was last    *)
(* heard, on a thread that may stall; the wall clock, by which ages are    *)
(* measured, may be set back.                                              *)
(***************************************************************************)
EXTENDS Integers, FiniteSets

CONSTANTS
  MaxAge,       \* max_state_age_ms, and the freshness the script asks for
  MaxBack,      \* bound: by how much the wall clock is set back altogether
  MaxTroubles,  \* bound: mode changes nobody commanded, and messages that
                \* report a failsafe, no fix or no Home
  StartsAloft,  \* the vehicle is flying already when the program starts
  None

Required == {"local_position", "status", "land_detected", "battery"}
Topics == Required \cup {"home_position"}

(* Ages from here on are stale whatever the wall clock still does. *)
Cap == MaxAge + MaxBack + 1

Modes == {"other", "takeoff", "OFFBOARD", "AUTO_RTL"}
Spots == {"ground", "aloft", "target"}
Facts == [mode : Modes \cup {None}, armed : BOOLEAN, landed : BOOLEAN \cup {None},
          spot : Spots \cup {None}, fix : BOOLEAN, failsafe : BOOLEAN, home : BOOLEAN]
SnapshotAges == [link : BOOLEAN, recorded : 0..Cap, wall : -MaxBack..Cap, really : 0..Cap]

ASSUME FeedAssumption ==
  /\ MaxAge \in Nat /\ MaxBack \in Nat /\ MaxTroubles \in Nat /\ StartsAloft \in BOOLEAN
  /\ None \notin Int \cup BOOLEAN \cup Modes \cup Spots \cup Facts \cup SnapshotAges

VARIABLES
  vehicle,   \* the vehicle itself
  heard,     \* the fields of the aggregator: what each topic last reported
  age,       \* the time since _last_received_at of a topic, by the wall clock
  really,    \* history: that time by a steady clock
  latest,    \* the fields of _latest_state
  latestAge, \* its ages: as recorded, by the wall clock now, and really
  back,      \* by how much the wall clock has been set back
  troubles,
  tracking   \* ages are followed as long as anything reads them

knowledge == <<heard, latest>>
ages == <<age, really, latestAge, back, tracking>>
feedVars == <<vehicle, knowledge, ages, troubles>>

(* The same by a wall clock that was set back. *)
WallCap == Cap - back

FeedTypeOK ==
  /\ vehicle \in [mode : Modes, armed : BOOLEAN, spot : Spots]
  /\ heard \in Facts /\ latest \in Facts \cup {None}
  /\ age \in [Required -> (-MaxBack..Cap) \cup {None}]
  /\ really \in [Required -> 0..Cap \cup {None}]
  /\ latestAge \in SnapshotAges \cup {None}
  /\ back \in 0..MaxBack /\ troubles \in 0..MaxTroubles /\ tracking \in BOOLEAN

FeedInit ==
  /\ vehicle = [mode |-> "other", armed |-> StartsAloft,
                spot |-> IF StartsAloft THEN "aloft" ELSE "ground"]
  /\ heard = [mode |-> None, armed |-> FALSE, landed |-> None, spot |-> None,
              fix |-> FALSE, failsafe |-> FALSE, home |-> FALSE]
  /\ age = [t \in Required |-> None] /\ really = age
  /\ latest = None /\ latestAge = None
  /\ back = 0 /\ troubles = 0 /\ tracking = TRUE

-----------------------------------------------------------------------------
(* What the aggregator holds after a message of this topic.  What PX4      *)
(* reports of its own condition is up to it.                               *)
After(t, bad) ==
  CASE t = "local_position" -> [heard EXCEPT !.spot = vehicle.spot, !.fix = ~bad]
    [] t = "status" ->
         [heard EXCEPT !.mode = vehicle.mode, !.armed = vehicle.armed, !.failsafe = bad]
    [] t = "land_detected" -> [heard EXCEPT !.landed = vehicle.spot = "ground"]
    [] t = "home_position" -> [heard EXCEPT !.home = ~bad]
    [] OTHER -> heard

(* The update_*() callback of a topic. *)
Hear(t) ==
  \E bad \in BOOLEAN :
    /\ bad => t \in {"local_position", "status", "home_position"} /\ troubles < MaxTroubles
    /\ troubles' = IF bad THEN troubles + 1 ELSE troubles
    /\ heard' = After(t, bad)
    /\ IF tracking /\ t \in Required
         THEN age' = [age EXCEPT ![t] = 0] /\ really' = [really EXCEPT ![t] = 0]
         ELSE UNCHANGED <<age, really>>
    /\ UNCHANGED <<vehicle, latest, latestAge, back, tracking>>

(* Mutant: a time in the future has a negative age. *)
ElapsedSigned(a) == a

(* _elapsed_ms() *)
Elapsed(a) == IF a > 0 THEN a ELSE 0
LargestOf(S) == CHOOSE x \in S : \A y \in S : y <= x
Received == {t \in Required : age[t] # None}
IsFresh(t) == t \in Received /\ Elapsed(age[t]) <= MaxAge

(* snapshot(): received_at is that of the oldest required sample. *)
AgesNow ==
  LET oldest == LargestOf({age[t] : t \in Received} \cup {IF Received = {} THEN 0 ELSE -MaxBack})
  IN [link |-> \A t \in Required : IsFresh(t),
      recorded |-> Elapsed(oldest), wall |-> oldest,
      really |-> LargestOf({really[t] : t \in Received} \cup {0})]

(* _record_snapshot(), once anything has been heard; a command's ACK, which *)
(* no field here keeps, is enough.                                         *)
TakeSnapshot ==
  /\ latest' = heard
  /\ latestAge' = IF tracking THEN AgesNow ELSE latestAge
  /\ UNCHANGED <<vehicle, heard, age, really, back, troubles, tracking>>

(* Mutant: the age of a WorldState is the one it had when it was made. *)
AgeOfRecorded == latestAge.recorded

(* WorldState.age_ms(), of the latest one. *)
AgeOf == LargestOf({latestAge.recorded, Elapsed(latestAge.wall)})

-----------------------------------------------------------------------------
Later(a, cap) == IF a = None \/ a = cap THEN a ELSE a + 1
Earlier(a) == IF a = None THEN a ELSE a - 1

(* Time passes by every clock. *)
AgesGrow ==
  IF tracking
    THEN /\ age' = [t \in Required |-> Later(age[t], WallCap)]
         /\ really' = [t \in Required |-> Later(really[t], Cap)]
         /\ latestAge' = IF latestAge = None THEN None
                         ELSE [latestAge EXCEPT !.wall = Later(@, WallCap),
                                              !.really = Later(@, Cap)]
    ELSE UNCHANGED <<age, really, latestAge>>

ClockSetBack ==
  /\ tracking /\ back < MaxBack
  /\ back' = back + 1
  /\ age' = [t \in Required |-> Earlier(age[t])]
  /\ latestAge' = IF latestAge = None THEN None ELSE [latestAge EXCEPT !.wall = Earlier(@)]
  /\ UNCHANGED <<vehicle, really, knowledge, troubles, tracking>>

(* Nothing reads an age any more. *)
ForgetAges ==
  /\ age' = [t \in Required |-> None] /\ really' = [t \in Required |-> None]
  /\ latestAge' = None
  /\ back' = 0
  /\ tracking' = FALSE
=============================================================================
