--------------------------- MODULE ScriptedFlight ---------------------------
(***************************************************************************)
(* m3_scripted_flight: wait until the vehicle is ready, then Takeoff, Goto,*)
(* Hold and RTL through the flight execution backend, whose completion     *)
(* rules decide on what the world state feed shows.  PX4's answers to      *)
(* commands are those of submit_and_wait(); nothing cancels the script.    *)
(***************************************************************************)
EXTENDS WorldStateFeed, Sequences

CONSTANTS
  HoldFor,   \* duration_s of the Hold, in polling rounds
  SyncHome   \* --set-home-to-current

ASSUME ScriptAssumption == HoldFor \in Nat \ {0} /\ SyncHome \in BOOLEAN

VARIABLES
  place,      \* where the script is
  results,    \* the statuses of the skills executed
  todo,       \* the commands of the skill's plan that are not yet accepted
  rtlStarted, \* rtl_started
  holdSpot,   \* the target of the Hold
  held,       \* the time since hold_reached_at, or None
  steady,     \* history: the time since the Hold was last seen off its target
  been        \* history: what the vehicle has really done

scriptVars == <<place, results, todo, rtlStarted, holdSpot, held, steady, been>>
allVars == <<feedVars, scriptVars>>

Steps == <<"takeoff", "goto", "hold", "rtl">>
Skill == Steps[Len(results) + 1]
Statuses == {"SUCCEEDED", "FAILED", "TIMED_OUT", "REJECTED_BY_PX4"}
Commands == {"takeoff", "arm", "OFFBOARD", "AUTO_RTL"}
Deeds == {"aloft", "target", "OFFBOARD", "AUTO_RTL"}
Did(v) == {d \in Deeds : d \in {v.mode, v.spot}}

ScriptTypeOK ==
  /\ FeedTypeOK
  /\ place \in {"waitReady", "syncing", "waitHome", "start", "warming", "sending", "polling",
                "handover", "over"}
  /\ results \in Seq(Statuses) /\ Len(results) <= Len(Steps)
  /\ todo \in Seq(Commands)
  /\ rtlStarted \in BOOLEAN
  /\ holdSpot \in Spots \cup {None}
  /\ held \in 0..HoldFor \cup {None} /\ steady \in 0..HoldFor
  /\ been \subseteq Deeds

Init ==
  /\ FeedInit
  /\ place = "waitReady" /\ results = <<>> /\ todo = <<>>
  /\ rtlStarted = FALSE
  /\ holdSpot = None /\ held = None /\ steady = 0
  /\ been = Did(vehicle)

-----------------------------------------------------------------------------
(* _vehicle_is_ready() *)
VehicleIsReady(requireHome) ==
  /\ latest # None
  /\ AgeOf <= MaxAge /\ latestAge.link
  /\ latest.fix /\ latest.spot # None
  /\ requireHome => latest.home
  /\ latest.landed # None
  /\ ~latest.failsafe

GoTo(p) == place' = p
Idle == UNCHANGED <<results, todo, rtlStarted, holdSpot, held, steady, been>>

(* The first wait of _run_when_vehicle_ready(), without Home. *)
VehicleReady ==
  /\ place = "waitReady" /\ VehicleIsReady(FALSE)
  /\ GoTo(IF ~latest.home /\ SyncHome THEN "syncing" ELSE "waitHome")
  /\ Idle /\ UNCHANGED feedVars

(* Home is set to the current position; anything but an accepted command   *)
(* ends the script.                                                        *)
HomeSynced ==
  /\ place = "syncing"
  /\ GoTo("waitHome") \/ GoTo("over")
  /\ Idle /\ UNCHANGED feedVars

(* The second wait, with Home; the flight begins. *)
Launch ==
  /\ place = "waitHome" /\ VehicleIsReady(TRUE)
  /\ GoTo("start")
  /\ ForgetAges
  /\ Idle /\ UNCHANGED <<vehicle, knowledge, troubles>>

(* The deadline of a wait passes. *)
StartupTimesOut ==
  /\ place \in {"waitReady", "waitHome"}
  /\ GoTo("over")
  /\ Idle /\ UNCHANGED feedVars

-----------------------------------------------------------------------------
(* execute() returns; the script goes on only after a success. *)
StepEnds(status) ==
  /\ results' = Append(results, status)
  /\ GoTo(IF status = "SUCCEEDED" /\ Len(results') < Len(Steps) THEN "start" ELSE "over")
  /\ todo' = <<>> /\ rtlStarted' = FALSE /\ holdSpot' = None /\ held' = None /\ steady' = 0

(* execute() up to its first await, with the state it reads first: the      *)
(* plans of Takeoff and RTL need Home, the target of a Hold the position.   *)
HasPlan == Skill \in {"takeoff", "rtl"} => latest.home
HasTarget == Skill = "hold" => latest.fix /\ latest.spot # None
CanStart == HasPlan /\ HasTarget

ModePlan == IF latest.mode = "OFFBOARD" THEN <<>> ELSE <<"OFFBOARD">>

Proceed(commands) == todo' = commands /\ GoTo(IF commands = <<>> THEN "polling" ELSE "sending")

StepStarts ==
  /\ place = "start"
  /\ IF ~CanStart THEN StepEnds("FAILED")
     ELSE /\ CASE Skill = "takeoff" -> Proceed(<<"takeoff", "arm">>)
               [] Skill = "goto" -> GoTo("warming") /\ UNCHANGED todo
               [] Skill = "hold" -> Proceed(ModePlan)
               [] OTHER -> Proceed(<<"AUTO_RTL">>)
          /\ holdSpot' = IF Skill = "hold" THEN latest.spot ELSE None
          /\ UNCHANGED <<results, rtlStarted, held, steady>>
  /\ UNCHANGED <<feedVars, been>>

(* The Offboard stream was started for the Goto; the warm-up is over. *)
WarmedUp ==
  /\ place = "warming"
  /\ \/ /\ Proceed(ModePlan)
        /\ UNCHANGED <<results, rtlStarted, holdSpot, held, steady>>
     \/ ModePlan # <<>> /\ StepEnds("TIMED_OUT")     \* the skill's budget is used up
  /\ UNCHANGED <<feedVars, been>>

(* What PX4 does when it executes a command. *)
Executed(c) == IF c = "arm" THEN [vehicle EXCEPT !.armed = TRUE] ELSE [vehicle EXCEPT !.mode = c]

(* A command of the plan is answered or times out; PX4 executes what it    *)
(* accepts, and may have executed what was not answered.                   *)
CommandAnswered ==
  /\ place = "sending"
  /\ \E status \in {"ACCEPTED", "REJECTED_BY_PX4", "TIMED_OUT"} :
       /\ vehicle' \in CASE status = "ACCEPTED" -> {Executed(Head(todo))}
                         [] status = "TIMED_OUT" -> {vehicle, Executed(Head(todo))}
                         [] OTHER -> {vehicle}
       /\ been' = been \cup Did(vehicle')
       /\ IF status = "ACCEPTED"
            THEN /\ Proceed(Tail(todo))
                 /\ UNCHANGED <<results, rtlStarted, holdSpot, held, steady>>
            ELSE StepEnds(status)
  /\ UNCHANGED <<knowledge, ages, troubles>>

-----------------------------------------------------------------------------
(* _px4_mode_completion_reached() and _offboard_completion_reached().      *)
SeenReturning == rtlStarted \/ latest.mode = "AUTO_RTL"
InOffboard == latest.mode = "OFFBOARD" /\ latest.fix /\ latest.spot # None
OnHoldSpot == InOffboard /\ latest.spot = holdSpot

(* Mutant: the Hold counts from the first time its target was reached. *)
HeldByNowKept == IF held # None THEN held ELSE IF OnHoldSpot THEN 0 ELSE None

(* The time on the Hold's target, with this round; off it the count ends. *)
HeldByNow == IF ~OnHoldSpot THEN None ELSE IF held = None THEN 0 ELSE held

(* Mutant: an RTL is complete when the vehicle has landed. *)
CompletedOnceLanded ==
  CASE Skill = "takeoff" -> latest.armed /\ latest.landed = FALSE /\ latest.spot \in {"aloft", "target"}
    [] Skill = "goto" -> InOffboard /\ latest.spot = "target"
    [] Skill = "hold" -> HeldByNow # None /\ HeldByNow >= HoldFor
    [] OTHER -> SeenReturning /\ latest.landed = TRUE

Completed ==
  CASE Skill = "takeoff" -> latest.armed /\ latest.landed = FALSE /\ latest.spot \in {"aloft", "target"}
    [] Skill = "goto" -> InOffboard /\ latest.spot = "target"
    [] Skill = "hold" -> HeldByNow # None /\ HeldByNow >= HoldFor
    [] OTHER -> SeenReturning /\ latest.landed = TRUE /\ ~latest.armed

(* _wait_for_completion(): one round of its loop. *)
RoundSucceeds ==
  /\ place = "polling" /\ Completed
  /\ StepEnds("SUCCEEDED")
  /\ UNCHANGED <<feedVars, been>>

RoundGoesOn ==
  /\ place = "polling" /\ ~Completed
  /\ rtlStarted' = (Skill = "rtl" /\ SeenReturning)
  /\ held' = IF Skill = "hold" THEN HeldByNow ELSE None
  /\ steady' = IF Skill = "hold" /\ OnHoldSpot THEN steady ELSE 0
  /\ UNCHANGED <<feedVars, place, results, todo, holdSpot, been>>

(* Mutant: the deadline is not looked at while the vehicle is in Offboard. *)
RoundTimesOutElsewhere ==
  /\ place = "polling" /\ ~Completed /\ ~InOffboard
  /\ IF Skill \in {"goto", "hold"}
       THEN GoTo("handover") /\ UNCHANGED <<results, todo, rtlStarted, holdSpot, held, steady>>
       ELSE StepEnds("TIMED_OUT")
  /\ UNCHANGED <<feedVars, been>>

(* The deadline has passed; a Goto or Hold is handed over to Auto Loiter.  *)
RoundTimesOut ==
  /\ place = "polling" /\ ~Completed
  /\ IF Skill \in {"goto", "hold"}
       THEN GoTo("handover") /\ UNCHANGED <<results, todo, rtlStarted, holdSpot, held, steady>>
       ELSE StepEnds("TIMED_OUT")
  /\ UNCHANGED <<feedVars, been>>

HandedOver ==
  /\ place = "handover"
  /\ StepEnds("TIMED_OUT")
  /\ vehicle' \in {vehicle, [vehicle EXCEPT !.mode = "other"]}
  /\ UNCHANGED <<knowledge, ages, troubles, been>>

-----------------------------------------------------------------------------
(* The vehicle takes off, flies about, lands and disarms by itself.  Until *)
(* the script commands it, it stays where it is.                           *)
VehicleMoves ==
  /\ place \notin {"waitReady", "syncing", "waitHome", "over"}
  /\ \/ /\ vehicle.armed /\ vehicle.spot = "ground" /\ vehicle.mode \in {"takeoff", "OFFBOARD"}
        /\ vehicle' = [vehicle EXCEPT !.spot = "aloft"]
     \/ /\ vehicle.spot # "ground"
        /\ \E s \in Spots \ {vehicle.spot} : vehicle' = [vehicle EXCEPT !.spot = s]
     \/ /\ vehicle.armed /\ vehicle.spot = "ground"
        /\ vehicle' = [vehicle EXCEPT !.armed = FALSE]
  /\ been' = been \cup Did(vehicle')
  /\ UNCHANGED <<knowledge, ages, troubles>>
  /\ UNCHANGED <<place, results, todo, rtlStarted, holdSpot, held, steady>>

(* PX4, a failsafe or the pilot changes its mode. *)
ModeChanges ==
  /\ place \notin {"waitReady", "syncing", "waitHome", "over"}
  /\ troubles < MaxTroubles
  /\ troubles' = troubles + 1
  /\ \E m \in Modes \ {"takeoff", vehicle.mode} : vehicle' = [vehicle EXCEPT !.mode = m]
  /\ been' = been \cup Did(vehicle')
  /\ UNCHANGED <<knowledge, ages>>
  /\ UNCHANGED <<place, results, todo, rtlStarted, holdSpot, held, steady>>

FeedStep ==
  /\ place # "over"
  /\ TakeSnapshot \/ (\E t \in Topics : Hear(t)) \/ ClockSetBack
  /\ UNCHANGED scriptVars

OneMore(n) == IF n = HoldFor THEN n ELSE n + 1

TimePasses ==
  /\ place # "over"
  /\ AgesGrow
  /\ held' = IF held = None THEN None ELSE OneMore(held)
  /\ steady' = IF place = "polling" /\ Skill = "hold" THEN OneMore(steady) ELSE steady
  /\ UNCHANGED <<vehicle, knowledge, back, troubles, tracking>>
  /\ UNCHANGED <<place, results, todo, rtlStarted, holdSpot, been>>

Startup == VehicleReady \/ HomeSynced \/ Launch \/ StartupTimesOut
Flying == StepStarts \/ WarmedUp \/ CommandAnswered \/ RoundSucceeds \/ RoundTimesOut \/ HandedOver

Next ==
  \/ Startup \/ Flying \/ RoundGoesOn
  \/ VehicleMoves \/ ModeChanges \/ FeedStep \/ TimePasses

(* The event loop runs its tasks and timers, deadlines pass, and commands  *)
(* are answered or time out.  Nothing is assumed of the vehicle, of its    *)
(* messages or of the snapshots.                                           *)
Fairness == WF_allVars(Startup \/ Flying)

Spec == Init /\ [][Next]_allVars
FairSpec == Spec /\ Fairness

-----------------------------------------------------------------------------
(* The flight begins only on a WorldState none of whose required samples   *)
(* is really older than the limit, by more than the wall clock was set     *)
(* back: whichever topic fell silent, and also if snapshots stopped.       *)
LaunchedFresh == [][Launch => latestAge.really <= MaxAge + back]_allVars

(* A Hold succeeds only if for its whole duration no round has seen the    *)
(* vehicle off its target or out of Offboard mode.                         *)
HoldMeansDwell == [][Len(results') = 3 /\ Len(results) = 2 /\ results'[3] = "SUCCEEDED"
                     => steady >= HoldFor]_allVars

Parked == vehicle.spot = "ground" /\ ~vehicle.armed

(* Completion is decided on samples of different ages, yet what a success  *)
(* claims has really happened: the vehicle has been in the air, in Offboard*)
(* mode and at the target, and has been returning; after an RTL it is on   *)
(* the ground and disarmed, if the script began with it there (which       *)
(* _vehicle_is_ready() does not ask for).                                  *)
SuccessesAreReal ==
  \A i \in 1..Len(results) : results[i] = "SUCCEEDED" =>
    CASE Steps[i] = "takeoff" -> been \cap {"aloft", "target"} # {}
      [] Steps[i] = "goto" -> {"OFFBOARD", "target"} \subseteq been
      [] Steps[i] = "hold" -> "OFFBOARD" \in been
      [] OTHER -> /\ "AUTO_RTL" \in been
                  /\ StartsAloft \/ Parked

(* The script always comes to its end. *)
ScriptEnds == <>(place = "over")
=============================================================================
