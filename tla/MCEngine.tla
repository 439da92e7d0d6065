------------------------------ MODULE MCEngine ------------------------------
(***************************************************************************)
(* Engine on a machine with the disk the running system is on, a disk with *)
(* ESP, XBOOTLDR and a system partition, and a disk with an ESP alone.     *)
(***************************************************************************)
EXTENDS Engine, TLC

CONSTANTS liveRoot, esp1, xboot1, root1, esp2, tmpfs

MCPartition == {liveRoot, esp1, xboot1, root1, esp2}

MCDiskOf ==
    (liveRoot :> "live") @@ (esp1 :> "first") @@ (xboot1 :> "first") @@ (root1 :> "first")
      @@ (esp2 :> "second")

MCKindOf ==
    (liveRoot :> "regular") @@ (esp1 :> "esp") @@ (xboot1 :> "xbootldr") @@ (root1 :> "regular")
      @@ (esp2 :> "esp")

\* Of the five directories, the first and one below it.
MCBinds == <<"/dev", "/dev/pts">>

MCAbove ==
    {<<"/", p>> : p \in Paths \ {"/"}} \cup {<<"/dev", "/dev/pts">>}

=============================================================================
