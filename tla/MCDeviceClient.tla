---------------------------- MODULE MCDeviceClient ----------------------------
(* Instances of DeviceClient for TLC: the calls are alike.                   *)
EXTENDS DeviceClient, TLC

DeviceSymmetry == Permutations(Calls)
==============================================================================
