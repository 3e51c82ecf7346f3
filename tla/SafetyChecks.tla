---------------------------- MODULE SafetyChecks ----------------------------
(***************************************************************************)
(* The deterministic checks the Safety Supervisor combines.  Each returns  *)
(* the set of reason codes it raises; a proposal passes a check when the   *)
(* set is empty.  Coordinates, altitudes, speeds and times are integers;   *)
(* a missing or non-finite reading is `Unknown'.                           *)
(***************************************************************************)
EXTENDS Integers

CONSTANT Unknown   \* None, NaN or infinity where the code tests for them

Skills == {"takeoff", "goto", "hold", "rtl", "land"}
Airborne == Skills \ {"takeoff"}
TransitionModes == {"AUTO_TAKEOFF", "AUTO_RTL", "AUTO_LAND"}

AGENT == "agent_allowed"

-----------------------------------------------------------------------------
(* A proposal p has skill, wellFormed (its arguments parse), target and    *)
(* altitude; a state s is a WorldState; m is a MissionConstraints.         *)

SchemaReasons(p, m) ==
  IF p.skill \notin Skills THEN {"SKILL_NOT_ALLOWED"}
  ELSE {r \in {"INVALID_SCHEMA"} : ~p.wellFormed}
         \cup {r \in {"SKILL_NOT_ALLOWED"} : p.skill \notin m.allowed}

(* age_ms(): the age recorded with the snapshot is a lower bound. *)
AgeAt(s, now) ==
  IF now - s.received > s.ageAtSnapshot THEN now - s.received ELSE s.ageAtSnapshot

StateReasons(basedOn, m, s, now) ==
  {r \in {"STALE_STATE"} : AgeAt(s, now) > m.maxAge}
    \cup {r \in {"STATE_ID_MISMATCH"} : basedOn # s.id}

AuthorityReasons(authority) == {r \in {"AUTHORITY_NOT_GRANTED"} : authority # AGENT}

VehicleStateReasons(skill, s) ==
  {r \in {"INVALID_VEHICLE_STATE"} :
     \/ s.landed = Unknown
     \/ s.landed = FALSE /\ ~s.armed
     \/ skill \in {"goto", "hold", "land"} /\ ~s.positionValid}

(* Mutant: an automatic transition in progress does not block a new skill. *)
SequenceReasonsAnyMode(skill, s) ==
  IF s.landed = Unknown THEN {"INVALID_VEHICLE_STATE"}
  ELSE {r \in {"INVALID_COMMAND_SEQUENCE"} :
          IF s.landed THEN skill # "takeoff" ELSE skill \notin Airborne}

SequenceReasons(skill, s) ==
  IF s.landed = Unknown THEN {"INVALID_VEHICLE_STATE"}
  ELSE {r \in {"INVALID_COMMAND_SEQUENCE"} :
          \/ s.mode \in TransitionModes
          \/ IF s.landed THEN skill # "takeoff" ELSE skill \notin Airborne}

Inside(fence, point) ==
  /\ fence.northMin + fence.margin <= point.north
  /\ point.north <= fence.northMax - fence.margin
  /\ fence.eastMin + fence.margin <= point.east
  /\ point.east <= fence.eastMax - fence.margin

(* Mutant: only the target is checked, not where the vehicle starts. *)
GeofenceReasonsTargetOnly(p, s, m) ==
  IF p.skill # "goto" THEN {}
  ELSE {r \in {"WAYPOINT_OUTSIDE_GEOFENCE"} : ~Inside(m.fence, p.target)}

GeofenceReasons(p, s, m) ==
  IF p.skill # "goto" THEN {}
  ELSE IF ~Inside(m.fence, p.target) THEN {"WAYPOINT_OUTSIDE_GEOFENCE"}
  ELSE IF ~s.positionValid \/ s.position = Unknown THEN {"INVALID_VEHICLE_STATE"}
  ELSE {r \in {"ROUTE_OUTSIDE_GEOFENCE"} : ~Inside(m.fence, s.position)}

EnvelopeReasons(p, m) ==
  {r \in {"ALTITUDE_ABOVE_ENVELOPE"} :
     p.skill \in {"takeoff", "goto"} /\ p.altitude > m.maxAltitude}

SquaredDistance(a, b) ==
  (a.north - b.north) * (a.north - b.north) + (a.east - b.east) * (a.east - b.east)

RadiusReasons(p, s, m) ==
  IF p.skill # "goto" THEN {}
  ELSE IF s.homeNed = Unknown THEN {"HOME_REFERENCE_UNAVAILABLE"}
  ELSE {r \in {"MISSION_RADIUS_EXCEEDED"} :
          SquaredDistance(p.target, s.homeNed) > m.maxRadius * m.maxRadius}

(* batteryOk: the connected, valid and fault-free flags are all True. *)
BatteryReasons(s, m) ==
  IF s.battery = Unknown \/ ~s.batteryOk THEN {"SYSTEM_UNHEALTHY"}
  ELSE {r \in {"INSUFFICIENT_BATTERY"} : s.battery < m.minBattery}

HealthReasons(skill, s) ==
  {r \in {"SYSTEM_UNHEALTHY"} :
     \/ ~s.linkHealthy
     \/ s.failsafe
     \/ ~s.detectorClear
     \/ skill = "takeoff" /\ ~s.preflightOk}

(* homeGlobal: home_valid and a WGS84 home position. *)
HomeReasons(skill, s, m) ==
  {r \in {"HOME_REFERENCE_UNAVAILABLE"} :
     (skill = "rtl" \/ m.requiresHome) /\ ~s.homeGlobal}

SpeedReasons(limit, m) ==
  IF limit = Unknown \/ limit <= 0 THEN {"SYSTEM_UNHEALTHY"}
  ELSE {r \in {"SPEED_ABOVE_ENVELOPE"} : limit > m.maxSpeed}

(* Everything evaluate() computes before it reads the speed limit: the     *)
(* skill's own checks run only on a proposal whose schema is valid.        *)
SkillReasons(p, s, m) ==
  UNION {VehicleStateReasons(p.skill, s), SequenceReasons(p.skill, s),
         GeofenceReasons(p, s, m), EnvelopeReasons(p, m), RadiusReasons(p, s, m),
         BatteryReasons(s, m), HealthReasons(p.skill, s), HomeReasons(p.skill, s, m)}

EarlyReasons(p, basedOn, s, m, authority, now) ==
  SchemaReasons(p, m) \cup StateReasons(basedOn, m, s, now) \cup AuthorityReasons(authority)
    \cup (IF SchemaReasons(p, m) = {} THEN SkillReasons(p, s, m) ELSE {})
=============================================================================
