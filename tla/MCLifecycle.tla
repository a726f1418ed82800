----------------------------- MODULE MCLifecycle ------------------------------
(* A daemon with a user by name; users and groups by number, of which one  *)
(* leaves the group to root; a user that does not exist.                   *)
EXTENDS Lifecycle, TLC

CONSTANTS p1, p2, p3

C(daemonize, chroot, user, group) ==
    [daemonize |-> daemonize, chroot |-> chroot, user |-> user, group |-> group]

ByName     == [kind |-> "name", uid |-> 33, gid |-> 33]
ByNumber   == [kind |-> "number", uid |-> 33, gid |-> 0]
Unknown    == [kind |-> "unknown", uid |-> 0, gid |-> 0]
NoGroup    == [kind |-> "unset", gid |-> 0]
SomeGroup  == [kind |-> "number", gid |-> 33]

SomeConfigs ==
    {C(TRUE, FALSE, ByName, NoGroup),
     C(FALSE, TRUE, ByNumber, SomeGroup),
     C(FALSE, FALSE, ByNumber, NoGroup),
     C(TRUE, FALSE, Unknown, SomeGroup)}

Symmetry == Permutations(Pid)
=============================================================================
