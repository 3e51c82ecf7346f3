---------------------------- MODULE MCSafetyGate ----------------------------
(* Small instances of the gate: a fence of 9 by 9 with a margin of 1, one  *)
(* vehicle state on the ground and airborne states in and outside of it.   *)
EXTENDS SafetyGate

MCLimits == [maxAge |-> 1, maxSpeed |-> 5, maxAltitude |-> 20, maxRadius |-> 4,
             minBattery |-> 30, allowed |-> Skills, requiresHome |-> TRUE,
             fence |-> [northMin |-> -4, northMax |-> 4, eastMin |-> -4, eastMax |-> 4,
                        margin |-> 1]]

At(n, e) == [north |-> n, east |-> e]

Flying == [id |-> 0, received |-> 0, ageAtSnapshot |-> 0, landed |-> FALSE, armed |-> TRUE,
           mode |-> "OFFBOARD", positionValid |-> TRUE, position |-> At(1, 1),
           homeNed |-> At(0, 0), homeGlobal |-> TRUE, battery |-> 80, batteryOk |-> TRUE,
           linkHealthy |-> TRUE, failsafe |-> FALSE, detectorClear |-> TRUE,
           preflightOk |-> TRUE]
Ground == [Flying EXCEPT !.landed = TRUE, !.armed = FALSE, !.mode = "AUTO_LOITER"]
Landing == [Flying EXCEPT !.mode = "AUTO_LAND"]
Strayed == [Flying EXCEPT !.position = At(4, 1)]

Goto(n, e) == [validInput |-> TRUE, skill |-> "goto", wellFormed |-> TRUE,
               target |-> At(n, e), altitude |-> 10]
Takeoff == [validInput |-> TRUE, skill |-> "takeoff", wellFormed |-> TRUE,
            target |-> Unknown, altitude |-> 10]
BadInput == [validInput |-> FALSE, skill |-> "hold", wellFormed |-> FALSE,
             target |-> Unknown, altitude |-> 0]

(* "Flow": what happens to a request, whatever it asks for. *)
FlowRequests == {Goto(3, 1), BadInput}
FlowBodies == {Flying}
FlowReadings == {5, 6}

(* "Policy": which requests pass in which state. *)
PolicyRequests == {Takeoff, Goto(3, 2), Goto(-3, -3), Goto(4, 0), [Goto(0, 1) EXCEPT !.altitude = 21],
                   [Goto(0, 1) EXCEPT !.skill = "land"], [Goto(0, 1) EXCEPT !.wellFormed = FALSE],
                   [Goto(0, 1) EXCEPT !.skill = "loop"]}
PolicyBodies == {Flying, Ground, Landing, Strayed,
                 [Flying EXCEPT !.homeNed = Unknown], [Flying EXCEPT !.landed = Unknown],
                 [Flying EXCEPT !.positionValid = FALSE], [Flying EXCEPT !.battery = 29],
                 [Ground EXCEPT !.preflightOk = FALSE]}
PolicyReadings == {5, Unknown, 0}
=============================================================================
