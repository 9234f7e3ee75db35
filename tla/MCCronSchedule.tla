---------------------------- MODULE MCCronSchedule ----------------------------
(* Three replicas and the default entry, once a minute with a ttl of 55    *)
(* seconds, in units of five seconds: one replica is on time, one up to    *)
(* ten seconds late and one behind by half a minute.                       *)
EXTENDS CronSchedule, TLC

CONSTANTS r1, r2, r3

Offsets == r1 :> 0 @@ r2 :> 1 @@ r3 :> 6
=============================================================================
