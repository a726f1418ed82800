------------------------------ MODULE MCMaster ------------------------------
(* Small instances of FpmMaster.                                           *)
EXTENDS FpmMaster, TLC

CONSTANTS web, api, p1, p2

(* two pools of one worker *)
TwoPools     == {web, api}
OneEach      == (web :> 1) @@ (api :> 1)

(* one pool of two *)
OnePool      == {web}
OnePoolLimit == (web :> 2)

TwoProcesses == {p1, p2}

Interchangeable == Permutations(Pid)
=============================================================================
