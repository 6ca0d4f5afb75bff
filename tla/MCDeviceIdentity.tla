-------------------------- MODULE MCDeviceIdentity --------------------------
(* A small instance of DeviceIdentity: two names for three disks, two of     *)
(* which have identifiers that begin alike.                                  *)
EXTENDS DeviceIdentity
CONSTANTS d1, d2, v1, v2, v3
MCCut == [v \in Volumes |-> IF v = v3 THEN "cut3" ELSE "cut12"]
=============================================================================
