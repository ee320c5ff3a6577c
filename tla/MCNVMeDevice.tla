---------------------------- MODULE MCNVMeDevice ----------------------------
(* Instances of NVMeDevice for TLC.                                        *)
EXTENDS NVMeDevice, TLC

HandleSymmetry == Permutations(Handles)
=============================================================================
