-------------------------------- MODULE Fleet --------------------------------
(***************************************************************************)
(* The two ways into the fleet together: registration tokens and           *)
(* enrollment requests write the same devices table, under the operator's  *)
(* actions and the heartbeats.  The agent router (fleet/agent_router.py)   *)
(* and the organization's router (fleet/router.py) expose the steps of     *)
(* both services; nothing orders them.                                     *)
(***************************************************************************)
EXTENDS Registration, Enrollment

fleetVars == <<registrationVars, enrollVars>>

FleetInit == RegistrationInit /\ EnrollmentInit

FleetNext ==
    \/ RegistrationStep /\ UNCHANGED enrollVars
    \/ EnrollmentStep /\ UNCHANGED tokenVars
    \/ DevicesStep /\ UNCHANGED tokenVars

FleetSpec == FleetInit /\ [][FleetNext]_fleetVars
=============================================================================
