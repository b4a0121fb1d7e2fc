---------------------------- MODULE MCOperations ----------------------------
(* Small instances of Operations for TLC.                                  *)
EXTENDS Operations, TLC

CONSTANTS acme, zeta, s1, s2

TwoOrgs == {acme, zeta}
OneFounded == s1 :> acme
RoomForTwo == [g \in TwoOrgs |-> 2]
Tight == [g \in TwoOrgs |-> 1]
=============================================================================
