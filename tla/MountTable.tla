----------------------------- MODULE MountTable -----------------------------
(***************************************************************************)
(* The Linux mount table, as far as mount(8) and umount(8) are used by the *)
(* backend.  A table is the sequence of live mounts in the order they were *)
(* made; an entry is [dev, sub, at]: the filesystem, the subvol= option    *)
(* ("none" if there is none) and the directory it covers, as a path below  *)
(* the target root.  This module is external to the repository: it states  *)
(* what the kernel does with the commands the repository runs.             *)
(***************************************************************************)
EXTENDS Integers, Sequences, SequencesExt

CONSTANT Above  \* the pairs <<p, q>> of paths with p a proper ancestor of q

\* A mount at p hides or serves everything at and below p.
Covers(p, q) == p = q \/ <<p, q>> \in Above

\* Mount i is the one a lookup of path ends in: no later mount covers it.
Serves(table, i, path) ==
    /\ Covers(table[i].at, path)
    /\ \A j \in DOMAIN table : j > i => ~Covers(table[j].at, path)

\* umount(8) of path detaches mount i: it is the visible mount at exactly that
\* path, and nothing is mounted on top of it (EBUSY otherwise).
Detaches(table, i, path) ==
    /\ table[i].at = path
    /\ \A j \in DOMAIN table : j > i => ~Covers(table[j].at, path) /\ ~Covers(path, table[j].at)

\* Mounting stacks a new entry; it never fails because something is there already.
Attach(table, entry) == Append(table, entry)

Detach(table, i) == RemoveAt(table, i)

\* The filesystem is live somewhere: mkfs refuses to touch it.
IsMounted(table, dev) == \E i \in DOMAIN table : table[i].dev = dev

=============================================================================
