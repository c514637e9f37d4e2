--------------------------- MODULE MC_VirtFsLocal ---------------------------
(* Two paths (so that rename has a source and a target), QEMU running as   *)
(* root, and three FsCred shapes: a create with every field set, a chmod   *)
(* (mode only) and a chown of the uid only.                                *)
EXTENDS VirtFsLocal, TLC

CONSTANTS p1, p2

MCCreds ==
    { [uid |-> 1, gid |-> 1, mode |-> 1, rdev |-> 5],
      [uid |-> -1, gid |-> -1, mode |-> 2, rdev |-> -1],
      [uid |-> 2, gid |-> -1, mode |-> -1, rdev |-> -1] }

MCSymmetry == Permutations({p1, p2})
=============================================================================
