------------------------------ MODULE Backend ------------------------------
(***************************************************************************)
(* The backend process: its calls, which share two fixed mount directories *)
(* and nothing else, and its end.  WriteSystemModel, DiscoverSystemModels  *)
(* and InstallSystem run side by side whenever their callers want it; the  *)
(* first two block a thread of the runtime, which waits for them, the last *)
(* goes on in a detached thread, which the runtime does not know.          *)
(* Shutdown and the signals end the process: it answers the calls that     *)
(* still have a client and dies with whatever else is going on.  What a    *)
(* single call does to its target is InstallTarget's subject: here a       *)
(* writing call mounts its root partition, writes, and unmounts it.        *)
(***************************************************************************)
EXTENDS MountTable, FiniteSets

CONSTANTS
    Call,       \* the calls of a behaviour
    Partition,  \* the partitions of the machine
    Carriers,   \* those that carry a model of their own at the start
    Mixable,    \* those whose filesystem may be mounted ro and rw at once (btrfs)
    MaxStarts   \* bound on the times the backend is started

None == "none"
Kind == {"discover", "write", "install", "shutdown"}
Writing == {"write", "install"}
Directory == {"probe", "target"}
Mode(at) == IF at = "probe" THEN "ro" ELSE "rw"
Ended == {"answered", "failed", "refused", "panicked", "cancelled", "dead"}
Step == {"unborn", "arrived", "probe", "read", "unprobe", "mount", "work", "unmount"} \cup Ended

ASSUME BackendAssumption ==
    /\ Call \cap Partition = {} /\ None \notin Call \cup Partition
    /\ Carriers \subseteq Partition /\ Mixable \subseteq Partition
    \* "/run/lichen/probe" and "/run/lichen/target" do not lie below one another.
    /\ {<<"probe", "target">>, <<"target", "probe">>} \cap Above = {}
    /\ MaxStarts \in Nat \ {0}

VARIABLES
    table,     \* the mounts at the probe and the target directory
    crossed,   \* history: the <<call, partition>> a call was using below its mount
               \* directory when another call mounted or unmounted there
    stays,     \* history: the mounts left behind at each directory, by an umount
               \* that failed or by a call that died
    contents,  \* the model each partition carries: its own old one, a call's, none
    had,       \* every model each partition has carried
    kind,      \* what each call is
    pc,        \* where each call is
    client,    \* whether the caller still waits for it
    dev,       \* a discovery's current partition, a writing call's root
    mountedAt, \* a discovery's reading of /proc/self/mounts
    todo,      \* the partitions a discovery has still to look at
    found,     \* the models a discovery has collected, as <<partition, model>>
    process,   \* the backend: serving, stopping or exited
    asked,     \* Shutdown has sent its message, or a signal has come
    starts     \* how often the backend has been started

mounts == <<table, crossed, stays>>
data == <<contents, had>>
call == <<kind, pc, client, dev, mountedAt, todo, found>>
proc == <<process, asked, starts>>
vars == <<mounts, data, call, proc>>

Init ==
    /\ table = <<>>
    /\ crossed = {}
    /\ stays = [at \in Directory |-> 0]
    /\ contents = [p \in Partition |-> IF p \in Carriers THEN p ELSE None]
    /\ had = [p \in Partition |-> {contents[p]}]
    /\ kind = [c \in Call |-> "discover"]
    /\ pc = [c \in Call |-> "unborn"]
    /\ client = [c \in Call |-> FALSE]
    /\ dev = [c \in Call |-> None]
    /\ mountedAt = [c \in Call |-> {}]
    /\ todo = [c \in Call |-> {}]
    /\ found = [c \in Call |-> {}]
    /\ process = "serving"
    /\ asked = FALSE
    /\ starts = 1

Active(c) == pc[c] \notin {"unborn"} \cup Ended
Alive == {c \in Call : Active(c)}

\* The partition a lookup below a mount directory ends in.
Top(at) == {table[i].dev : i \in {j \in DOMAIN table : Serves(table, j, at)}}

Mounted == {table[i].dev : i \in DOMAIN table}

-----------------------------------------------------------------------------
(***************************************************************************)
(* Calls come and go.                                                      *)
(***************************************************************************)

\* A call reaches its handler; a writing call names its root partition.
Arrive(c, k, root) ==
    /\ process = "serving"
    /\ pc[c] = "unborn"
    /\ (k \in Writing) <=> (root # None)
    /\ kind' = [kind EXCEPT ![c] = k]
    /\ pc' = [pc EXCEPT ![c] = "arrived"]
    /\ client' = [client EXCEPT ![c] = TRUE]
    /\ dev' = [dev EXCEPT ![c] = root]
    /\ UNCHANGED <<mounts, data, mountedAt, todo, found, proc>>

\* The interceptor or verify_request finds no peer credentials.
RefuseUnidentified(c) ==
    /\ process = "serving"
    /\ pc[c] = "unborn"
    /\ pc' = [pc EXCEPT ![c] = "refused"]
    /\ UNCHANGED <<mounts, data, kind, client, dev, mountedAt, todo, found, proc>>

\* The caller goes away: Ctrl-C, or its connection breaks.  A handler that has
\* not begun to block is dropped; one that has does not notice.
Leave(c) ==
    /\ Active(c)
    /\ client[c]
    /\ client' = [client EXCEPT ![c] = FALSE]
    /\ pc' = [pc EXCEPT ![c] = IF @ = "arrived" THEN "cancelled" ELSE @]
    /\ UNCHANGED <<mounts, data, kind, dev, mountedAt, todo, found, proc>>

\* One step of call c from one control point to the next; nobody waits for a call
\* that has ended.
Moves(c, from, to) ==
    /\ pc[c] = from
    /\ pc' = [pc EXCEPT ![c] = to]
    /\ client' = [client EXCEPT ![c] = @ /\ to \notin Ended]
    /\ UNCHANGED <<kind, proc>>

-----------------------------------------------------------------------------
(***************************************************************************)
(* The kernel.                                                             *)
(***************************************************************************)

\* The same filesystem is not mounted ro and rw at once, unless it is mixable.
Mountable(d, at) ==
    d \in Mixable \/ \A i \in DOMAIN table : table[i].dev = d => Mode(table[i].at) = Mode(at)

\* Where a call has something mounted at a directory.
Holding(at) == IF at = "probe" THEN {"read", "unprobe"} ELSE {"work", "unmount"}

\* Where a call reads or writes below its mount directory.
Use(at) == IF at = "probe" THEN "read" ELSE "work"

\* Whoever else is using the directory does not notice what call c does to it.
Crosses(c, at) ==
    crossed' = crossed \cup {<<b, dev[b]>> : b \in {a \in Call \ {c} : pc[a] = Use(at)}}

MountsAt(c, d, at) ==
    /\ Mountable(d, at)
    /\ table' = Attach(table, [dev |-> d, at |-> at])
    /\ Crosses(c, at)
    /\ UNCHANGED stays

\* umount(8) takes the topmost mount of the directory, whoever made it, or fails:
\* EBUSY while any process, of a rival or a stray one, has a file open in it.
Unmounts(c, at) ==
    \/ /\ \E i \in DOMAIN table : Detaches(table, i, at) /\ table' = Detach(table, i)
       /\ Crosses(c, at)
       /\ UNCHANGED stays
    \/ /\ stays' = [stays EXCEPT ![at] = @ + 1]
       /\ UNCHANGED <<table, crossed>>

-----------------------------------------------------------------------------
(***************************************************************************)
(* discover_models.                                                        *)
(***************************************************************************)

\* The mounts are read once, and taken to be none if they cannot be; the directory
\* is made and the partitions are listed, either of which may fail.
BeginDiscover(c) ==
    /\ kind[c] = "discover"
    /\ \/ Moves(c, "arrived", "failed") /\ UNCHANGED <<mountedAt, todo>>
       \/ /\ Moves(c, "arrived", "probe")
          /\ \E seen \in {Mounted, {}} : mountedAt' = [mountedAt EXCEPT ![c] = seen]
          /\ todo' = [todo EXCEPT ![c] = Partition]
    /\ UNCHANGED <<mounts, data, dev, found>>

\* variant: a partition that does not mount is looked into all the same
ProbeBlindly(c) ==
    \E p \in todo[c] \ mountedAt[c] :
        /\ todo' = [todo EXCEPT ![c] = @ \ {p}]
        /\ Moves(c, "probe", "read")
        /\ dev' = [dev EXCEPT ![c] = p]
        /\ MountsAt(c, p, "probe") \/ UNCHANGED mounts
        /\ UNCHANGED <<data, mountedAt, found>>

\* The next partition is skipped if it was mounted then or does not mount now,
\* and looked into otherwise.
Probe(c) ==
    \E p \in todo[c] :
        /\ todo' = [todo EXCEPT ![c] = @ \ {p}]
        /\ \/ Moves(c, "probe", "probe") /\ UNCHANGED <<mounts, dev>>
           \/ /\ p \notin mountedAt[c]
              /\ Moves(c, "probe", "read")
              /\ dev' = [dev EXCEPT ![c] = p]
              /\ MountsAt(c, p, "probe")
        /\ UNCHANGED <<data, mountedAt, found>>

\* variant: a partition without a model is reported too
ReadEvenNothing(c) ==
    /\ Moves(c, "read", "unprobe")
    /\ found' = [found EXCEPT ![c] = @ \cup {<<dev[c], contents[p]>> : p \in Top("probe")}]
    /\ UNCHANGED <<mounts, data, dev, mountedAt, todo>>

\* What is read is whatever is on top; it is reported under the partition's name.
Read(c) ==
    /\ Moves(c, "read", "unprobe")
    /\ found' = [found EXCEPT ![c] =
          @ \cup {<<dev[c], contents[p]>> : p \in {q \in Top("probe") : contents[q] # None}}]
    /\ UNCHANGED <<mounts, data, dev, mountedAt, todo>>

\* variant: a model that was found is returned with its partition still mounted
UnprobeUnlessFound(c) ==
    /\ Moves(c, "unprobe", "probe")
    /\ IF \E m \in Call \cup Partition : <<dev[c], m>> \in found[c]
       THEN UNCHANGED mounts ELSE Unmounts(c, "probe")
    /\ dev' = [dev EXCEPT ![c] = None]
    /\ UNCHANGED <<data, mountedAt, todo, found>>

\* The result of umount is ignored.
Unprobe(c) ==
    /\ Moves(c, "unprobe", "probe")
    /\ Unmounts(c, "probe")
    /\ dev' = [dev EXCEPT ![c] = None]
    /\ UNCHANGED <<data, mountedAt, todo, found>>

EndDiscover(c) ==
    /\ kind[c] = "discover"
    /\ todo[c] = {}
    /\ Moves(c, "probe", "answered")
    /\ mountedAt' = [mountedAt EXCEPT ![c] = {}]
    /\ UNCHANGED <<mounts, data, dev, todo, found>>

-----------------------------------------------------------------------------
(***************************************************************************)
(* write_to_target and install_target.                                     *)
(***************************************************************************)

\* blkid, or the creation of the directory, may fail first.
BeginWriting(c) ==
    /\ kind[c] \in Writing
    /\ Moves(c, "arrived", "mount") \/ Moves(c, "arrived", "failed")
    /\ UNCHANGED <<mounts, data, dev, mountedAt, todo, found>>

\* variant: the result of mount is not looked at
MountBlindly(c) ==
    /\ Moves(c, "mount", "work")
    /\ MountsAt(c, dev[c], "target") \/ UNCHANGED mounts
    /\ UNCHANGED <<data, dev, mountedAt, todo, found>>

MountTarget(c) ==
    /\ \/ Moves(c, "mount", "work") /\ MountsAt(c, dev[c], "target")
       \/ Moves(c, "mount", "failed") /\ UNCHANGED mounts
    /\ UNCHANGED <<data, dev, mountedAt, todo, found>>

\* What is written lands on whatever is on top of the target directory.
Lands(c) ==
    /\ contents' = [p \in Partition |-> IF p \in Top("target") THEN c ELSE contents[p]]
    /\ had' = [p \in Partition |-> had[p] \cup {contents'[p]}]

Work(c) ==
    /\ Moves(c, "work", "unmount")
    /\ Lands(c)
    /\ UNCHANGED <<mounts, dev, mountedAt, todo, found>>

\* A command fails before or after part of the writing; umount comes all the same.
WorkFails(c) ==
    /\ Moves(c, "work", "failed")
    /\ Lands(c) \/ UNCHANGED data
    /\ Unmounts(c, "target")
    /\ UNCHANGED <<dev, mountedAt, todo, found>>

\* WriteSystemModel reports an umount that failed, an installation ignores it.
UnmountTarget(c) ==
    /\ Unmounts(c, "target")
    /\ Moves(c, "unmount",
             IF kind[c] = "write" /\ table' = table THEN "failed" ELSE "answered")
    /\ UNCHANGED <<data, dev, mountedAt, todo, found>>

-----------------------------------------------------------------------------
(***************************************************************************)
(* The end of the process.                                                 *)
(***************************************************************************)

\* Shutdown's send needs signal_handler's receiver; unwrap panics without it.
Shutdown(c) ==
    /\ kind[c] = "shutdown"
    /\ pc[c] = "arrived"
    /\ \/ process = "serving" /\ asked' = TRUE /\ pc' = [pc EXCEPT ![c] = "answered"]
       \/ process = "stopping" /\ UNCHANGED asked /\ pc' = [pc EXCEPT ![c] = "panicked"]
    /\ client' = [client EXCEPT ![c] = FALSE]
    /\ UNCHANGED <<mounts, data, kind, dev, mountedAt, todo, found, process, starts>>

\* SIGTERM or SIGINT.
Signal ==
    /\ process = "serving"
    /\ asked' = TRUE
    /\ UNCHANGED <<mounts, data, call, process, starts>>

\* signal_handler returns and drops the receiver; the server takes no new calls.
SignalHandler ==
    /\ process = "serving"
    /\ asked
    /\ process' = "stopping"
    /\ UNCHANGED <<mounts, data, call, asked, starts>>

\* variant: main joins the installation threads
WaitedForAll(c) == TRUE

\* variant: main returns without the graceful shutdown
WaitedForNone(c) == kind[c] \in {"discover", "write"} /\ pc[c] # "arrived"

\* What main waits for: a call whose client is connected, and one that blocks a
\* thread of the runtime.
WaitedFor(c) == client[c] \/ kind[c] \in {"discover", "write"}

\* The process exits; what is left of its threads dies with it.
Exit ==
    /\ process = "stopping"
    /\ \A c \in Alive : ~WaitedFor(c)
    /\ process' = "exited"
    /\ pc' = [c \in Call |-> IF Active(c) THEN "dead" ELSE pc[c]]
    /\ stays' = [stays EXCEPT !["target"] =
          @ + Cardinality({c \in Call : pc[c] \in Holding("target")})]
    /\ UNCHANGED <<table, crossed, data, kind, client, dev, mountedAt, todo, found, asked, starts>>

\* A new backend removes the old socket and serves in its place.
Start ==
    /\ process = "exited"
    /\ starts < MaxStarts
    /\ process' = "serving"
    /\ asked' = FALSE
    /\ starts' = starts + 1
    /\ UNCHANGED <<mounts, data, call>>

-----------------------------------------------------------------------------

Discover(c) == BeginDiscover(c) \/ Probe(c) \/ Read(c) \/ Unprobe(c) \/ EndDiscover(c)

Write(c) ==
    BeginWriting(c) \/ MountTarget(c) \/ Work(c) \/ WorkFails(c) \/ UnmountTarget(c)

Next ==
    \/ \E c \in Call :
          \/ \E k \in Kind, root \in Partition \cup {None} : Arrive(c, k, root)
          \/ RefuseUnidentified(c) \/ Leave(c)
          \/ Discover(c) \/ Write(c) \/ Shutdown(c)
    \/ Signal \/ SignalHandler \/ Exit \/ Start

Spec == Init /\ [][Next]_vars

\* The runtime polls its tasks, and short commands end.  Nothing is assumed of an
\* installation, which may hang, or of its client, which may wait for ever.
Fairness ==
    /\ \A c \in Call :
          WF_vars(Discover(c)) /\ WF_vars(kind[c] = "write" /\ Write(c)) /\ WF_vars(Shutdown(c))
    /\ WF_vars(SignalHandler)
    /\ WF_vars(Exit)

LiveSpec == Spec /\ Fairness

-----------------------------------------------------------------------------
(***************************************************************************)
(* Properties.                                                             *)
(***************************************************************************)

TypeOK ==
    /\ table \in Seq([dev : Partition, at : Directory])
    /\ crossed \subseteq Call \X (Partition \cup {None})
    /\ stays \in [Directory -> Nat]
    /\ contents \in [Partition -> Partition \cup Call \cup {None}]
    /\ had \in [Partition -> SUBSET (Partition \cup Call \cup {None})]
    /\ kind \in [Call -> Kind]
    /\ pc \in [Call -> Step]
    /\ client \in [Call -> BOOLEAN]
    /\ dev \in [Call -> Partition \cup {None}]
    /\ mountedAt \in [Call -> SUBSET Partition]
    /\ todo \in [Call -> SUBSET Partition]
    /\ found \in [Call -> SUBSET (Partition \X (Partition \cup Call))]
    /\ process \in {"serving", "stopping", "exited"}
    /\ asked \in BOOLEAN
    /\ starts \in 1..MaxStarts

\* "Partition device the model was found on": a discovery reports a model only
\* under a partition that carried it, whatever is still mounted at the directory and
\* whatever happens beside it, unless another call mounts or unmounts there
\* between its own mount and its reading.
Attributed ==
    \A c \in Call : \A x \in found[c] : <<c, x[1]>> \notin crossed => x[2] \in had[x[1]]

\* "an install that reports success and leaves the disk untouched" is what the
\* root check is there to prevent: a writing call that succeeds has written to its
\* own root partition, unless another call mounted or unmounted below it.
SuccessIsOnDisk ==
    \A c \in Call : kind[c] \in Writing /\ pc[c] = "answered" /\ <<c, dev[c]>> \notin crossed =>
        c \in had[dev[c]]

\* And it has written nowhere else, whether it succeeds or fails.
WritesAtHome ==
    \A c \in Call, p \in Partition : c \in had[p] /\ <<c, dev[c]>> \notin crossed => p = dev[c]

\* Mounts are neither lost nor left by a call that ends, however calls interleave:
\* each directory has one for each call at work there, one for each umount that
\* failed, and one for each installation that died with the process.
MountsOwned ==
    \A at \in Directory :
        Cardinality({i \in DOMAIN table : table[i].at = at})
            = Cardinality({c \in Call : pc[c] \in Holding(at)}) + stays[at]

\* A state is well typed, and its mounts are accounted for.
MountsOK == TypeOK /\ MountsOwned

\* The process never exits on a caller that still waits for an answer: what dies
\* with it is an installation whose client has gone.
NoCallerAbandoned ==
    \A c \in Call : pc[c] = "dead" => kind[c] = "install" /\ ~client[c]

\* No caller is let down: a call that is answered has done its work and nobody
\* else's partition has suffered from it, and one that is waited for is answered.
CallersServed == SuccessIsOnDisk /\ WritesAtHome /\ NoCallerAbandoned

\* A shutdown completes, even while a detached installation hangs: only a client
\* that still follows its installation holds it up.
ShutdownCompletes ==
    []<>(process # "stopping" \/ \E c \in Alive : kind[c] = "install" /\ client[c])

=============================================================================
