----------------------------- MODULE MCBackend -----------------------------
(***************************************************************************)
(* Backend with two calls over two partitions, one of them btrfs.          *)
(***************************************************************************)
EXTENDS Backend

CONSTANTS c1, c2, plain, btrfs

MCPartition == {plain, btrfs}

=============================================================================
