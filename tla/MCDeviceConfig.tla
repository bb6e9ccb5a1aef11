---------------------------- MODULE MCDeviceConfig ----------------------------
(* DeviceConfig, and with it RemoteManagement, with two calling threads and *)
(* one that receives.                                                       *)
EXTENDS DeviceConfig, TLC

Symmetry == Permutations(Parameter) \cup Permutations(Rpc)
=============================================================================
