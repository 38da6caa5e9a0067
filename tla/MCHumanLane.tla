---------------------------- MODULE MCHumanLane ----------------------------
(* Instances of HumanLane for TLC.  The people on shift are interchangeable. *)
EXTENDS HumanLane, TLC

CONSTANTS e1, alice, bob

OwnerSymmetry == Permutations(Owner)
=============================================================================
