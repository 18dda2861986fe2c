--------------------------- MODULE MCDeviceOnboarding ---------------------------
(***************************************************************************)
(* DeviceOnboarding with the symmetry of its calls.                        *)
(***************************************************************************)
EXTENDS DeviceOnboarding, TLC

Symmetry == Permutations(Ops)

===============================================================================
