------------------------ MODULE MCLaunchReservation ------------------------
(* Two VMs on the same GDB port and disk, under QMP paths of their own.    *)
EXTENDS LaunchReservation

CONSTANTS a, b, pathA, pathB, port, disk

TwoWrappers == {a, b}
AllLocks    == {pathA, pathB, port, disk}

(* The order of the script: paths first, then the port, then the disk. *)
MCWants ==
  [w \in TwoWrappers |-> <<IF w = a THEN pathA ELSE pathB, port, disk>>]
=============================================================================
