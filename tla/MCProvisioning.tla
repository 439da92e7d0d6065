--------------------------- MODULE MCProvisioning ---------------------------
(***************************************************************************)
(* Provisioning of two disk paths and three drives.  "whole" puts all on   *)
(* one disk, needs exactly one, and cuts partitions to the size of the     *)
(* drive; "spread" puts the root on one of two disks and the boot          *)
(* partition on the other, and can do so in two ways unless one of the     *)
(* drives is too small for the root.                                       *)
(***************************************************************************)
EXTENDS Provisioning

CONSTANTS sda, sdb, big, small, spare

MCDisk == {sda, sdb}
MCDrive == {big, small, spare}

\* Every table has a first partition; only a layout with a root has a second.
MCPartsOf(t) ==
    CASE t \in {"full", "compact", "old"} -> {1, 2}
      [] t \in {"root", "boot"}           -> {1}
      [] t = "torn"                       -> {}

Part(d, n) == [disk |-> d, part |-> n]

MCPlansOf(strategy, view) ==
    IF strategy = "whole"
    THEN {[layouts |-> [x \in {d} |-> IF view[d] = small THEN "compact" ELSE "full"],
           formats |-> <<Part(d, 1), Part(d, 2)>>]
            : d \in {x \in DOMAIN view : DOMAIN view = {x}}}
    ELSE {[layouts |-> [x \in {r, b} |-> IF x = r THEN "root" ELSE "boot"],
           formats |-> <<Part(b, 1), Part(r, 1)>>]
            : <<r, b>> \in {y \in (DOMAIN view) \X (DOMAIN view) : y[1] # y[2] /\ view[y[1]] # small}}

MCSelections == {<<>>, <<sda>>, <<sdb>>, <<sda, sda>>, <<sda, sdb>>}

=============================================================================
