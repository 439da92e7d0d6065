--------------------------- MODULE InstallStream ---------------------------
(***************************************************************************)
(* How an installation talks to its client: the threads behind the         *)
(* InstallSystem stream.  A detached worker runs install_target and sends  *)
(* progress through a bounded channel; a ticker thread sends keep-alives   *)
(* through the same channel; run_streaming reads the stdout of moss in the *)
(* worker and its stderr in a thread of its own; the client reads the      *)
(* stream, or goes away.  What the commands do to the machine is           *)
(* InstallTarget's subject: here a command is silent or talks, succeeds or *)
(* fails, or hangs.                                                        *)
(***************************************************************************)
EXTENDS Integers, Sequences, SequencesExt

CONSTANTS
    Capacity,  \* messages the channel holds (64 in the code)
    PipeSize,  \* lines a pipe holds before its writer blocks (the kernel's)
    TailSize,  \* lines kept for the error detail (30 in the code)
    MaxLines,  \* bound on the lines a child writes
    Commands   \* the commands of an installation: "run" or "stream"

ASSUME StreamAssumption ==
    /\ Capacity \in Nat \ {0}
    /\ PipeSize \in Nat \ {0}
    /\ TailSize \in Nat \ {0}
    /\ MaxLines \in Nat
    /\ Commands \in Seq({"run", "stream"}) /\ Commands # <<>>

Pipe == {"out", "err"}
\* A line is text, cleans to nothing, or is not UTF-8.
Line == {"text", "blank", "binary"}
Message == {"tick", "line", "finished", "error"}

VARIABLES
    channel,    \* the messages in the mpsc channel
    client,     \* reading; ok or failed, its verdict; left
    worker,     \* where the worker thread is
    current,    \* the command the worker is at
    result,     \* what install_target returns
    done,       \* the flag that stops the ticker
    ticker,     \* where the ticker thread is
    child,      \* the streamed command: none, running, success, failure
    heir,       \* a process the child started outlives it and holds its pipes
    want,       \* the pipe the child is about to write a line to, or "none"
    pipe,       \* the lines in each pipe
    reader,     \* each pipe's reader: reading, closed at its end, broken by a bad line
    written,    \* how many lines the child has written to each pipe
    recorded,   \* how many of them have been recorded
    tail,       \* the last lines recorded, as <<pipe, number>>
    succeeded,  \* how many commands have succeeded
    beat        \* flips with every message the client receives

run == <<child, heir, want, pipe, reader, written, recorded, tail>>
vars == <<channel, client, worker, current, result, done, ticker, run, succeeded, beat>>

Init ==
    /\ channel = <<>>
    /\ client = "reading"
    /\ worker = "report"
    /\ current = 1
    /\ result = "ok"
    /\ done = FALSE
    /\ ticker = "check"
    /\ child = "none"
    /\ heir = FALSE
    /\ want = "none"
    /\ pipe = [p \in Pipe |-> <<>>]
    /\ reader = [p \in Pipe |-> "closed"]
    /\ written = [p \in Pipe |-> 0]
    /\ recorded = [p \in Pipe |-> 0]
    /\ tail = <<>>
    /\ succeeded = 0
    /\ beat = FALSE

\* variant: a send waits for a client that has gone
SendWaits(message) ==
    client = "reading" /\ Len(channel) < Capacity /\ channel' = Append(channel, message)

\* blocking_send: waits while the channel is full; once the receiver is dropped
\* it fails at once, which every caller but the ticker ignores.
Send(message) ==
    \/ client = "reading" /\ Len(channel) < Capacity /\ channel' = Append(channel, message)
    \/ client # "reading" /\ UNCHANGED channel

-----------------------------------------------------------------------------
(***************************************************************************)
(* The worker.                                                             *)
(***************************************************************************)

\* A progress line announces each command.
Report ==
    /\ worker = "report"
    /\ Send("line")
    /\ worker' = "command"
    /\ UNCHANGED <<client, current, result, done, ticker, run, succeeded, beat>>

\* After a command: the next one, or, at the end or on an error, the unmounting.
Continue(good) ==
    IF good /\ current < Len(Commands)
    THEN worker' = "report" /\ current' = current + 1 /\ UNCHANGED result
    ELSE worker' = "unmount" /\ result' = (IF good THEN "ok" ELSE "error") /\ UNCHANGED current

\* A silent command runs to its end (run), or a streamed one cannot be spawned.
CommandEnds ==
    /\ worker = "command"
    /\ \/ Commands[current] = "run" /\ succeeded' = succeeded + 1 /\ Continue(TRUE)
       \/ UNCHANGED succeeded /\ Continue(FALSE)
    /\ UNCHANGED <<channel, client, done, ticker, run, beat>>

\* run_streaming spawns the child with both pipes.
Spawn ==
    /\ worker = "command"
    /\ Commands[current] = "stream"
    /\ worker' = "reading"
    /\ child' = "running"
    /\ heir' = FALSE
    /\ want' = "none"
    /\ pipe' = [p \in Pipe |-> <<>>]
    /\ reader' = [p \in Pipe |-> "reading"]
    /\ written' = [p \in Pipe |-> 0]
    /\ recorded' = [p \in Pipe |-> 0]
    /\ tail' = <<>>
    /\ UNCHANGED <<channel, client, current, result, done, ticker, succeeded, beat>>

\* variant: the length of the tail is tested with > instead of >=
ReadsOneMore(p) ==
    /\ reader[p] = "reading"
    /\ pipe[p] # <<>>
    /\ Head(pipe[p]) # "binary"
    /\ pipe' = [pipe EXCEPT ![p] = Tail(@)]
    /\ recorded' = [recorded EXCEPT ![p] = @ + 1]
    /\ tail' = Append(IF Len(tail) > TailSize THEN Tail(tail) ELSE tail, <<p, recorded[p] + 1>>)
    /\ UNCHANGED <<child, heir, want, written, reader>>

\* A reader takes the next line of its pipe and records it, dropping the oldest
\* of the tail; lines().map_while(Result::ok) stops at a line that is not UTF-8.
Reads(p) ==
    /\ reader[p] = "reading"
    /\ pipe[p] # <<>>
    /\ IF Head(pipe[p]) = "binary"
       THEN /\ reader' = [reader EXCEPT ![p] = "broken"]
            /\ pipe' = [pipe EXCEPT ![p] = <<>>]
            /\ UNCHANGED <<recorded, tail>>
       ELSE LET entry == <<p, recorded[p] + 1>>
            IN  /\ pipe' = [pipe EXCEPT ![p] = Tail(@)]
                /\ recorded' = [recorded EXCEPT ![p] = @ + 1]
                /\ tail' = Append(IF Len(tail) >= TailSize THEN Tail(tail) ELSE tail, entry)
                /\ UNCHANGED reader
    /\ UNCHANGED <<child, heir, want, written>>

\* The end of a pipe: it is empty and all its writers have gone.
ReachesEnd(p) ==
    /\ reader[p] = "reading"
    /\ pipe[p] = <<>>
    /\ child # "running"
    /\ ~heir
    /\ reader' = [reader EXCEPT ![p] = "closed"]
    /\ UNCHANGED <<child, heir, want, pipe, written, recorded, tail>>

\* The worker reads stdout itself; a line with text in it becomes a message.
ReadStdout ==
    /\ worker = "reading"
    /\ \/ /\ Reads("out")
          /\ worker' = CASE Head(pipe["out"]) = "text"   -> "sending"
                         [] Head(pipe["out"]) = "blank"  -> "reading"
                         [] Head(pipe["out"]) = "binary" -> "joining"
       \/ ReachesEnd("out") /\ worker' = "joining"
    /\ UNCHANGED <<channel, client, current, result, done, ticker, succeeded, beat>>

ForwardLine ==
    /\ worker = "sending"
    /\ Send("line")
    /\ worker' = "reading"
    /\ UNCHANGED <<client, current, result, done, ticker, run, succeeded, beat>>

\* variant: the child's end is awaited without the stderr thread
JoinNothing ==
    /\ worker = "joining"
    /\ worker' = "waiting"
    /\ UNCHANGED <<channel, client, current, result, done, ticker, run, succeeded, beat>>

\* The thread scope ends when the stderr reader has returned.
Join ==
    /\ worker = "joining"
    /\ reader["err"] # "reading"
    /\ worker' = "waiting"
    /\ UNCHANGED <<channel, client, current, result, done, ticker, run, succeeded, beat>>

\* variant: the exit status is not looked at
WaitIgnoresStatus ==
    /\ worker = "waiting"
    /\ child # "running"
    /\ Continue(TRUE)
    /\ UNCHANGED <<channel, client, done, ticker, run, succeeded, beat>>

\* child.wait(): an unsuccessful status fails the installation, with the tail.
Wait ==
    /\ worker = "waiting"
    /\ child # "running"
    /\ Continue(child = "success")
    /\ UNCHANGED <<channel, client, done, ticker, run, succeeded, beat>>

\* The unwinding is announced, whatever happened before it.
Unmount ==
    /\ worker = "unmount"
    /\ Send("line")
    /\ worker' = "finish"
    /\ UNCHANGED <<client, current, result, done, ticker, run, succeeded, beat>>

\* The ticker is told to stop before the last message is sent.
Finish ==
    /\ worker = "finish"
    /\ done' = TRUE
    /\ worker' = "verdict"
    /\ UNCHANGED <<channel, client, current, result, ticker, run, succeeded, beat>>

\* The last message; the worker's end of the channel is dropped with it.
Verdict ==
    /\ worker = "verdict"
    /\ Send(IF result = "ok" THEN "finished" ELSE "error")
    /\ worker' = "gone"
    /\ UNCHANGED <<client, current, result, done, ticker, run, succeeded, beat>>

Worker ==
    \/ Report \/ Spawn \/ ReadStdout \/ ForwardLine \/ Join \/ Wait
    \/ Unmount \/ Finish \/ Verdict

-----------------------------------------------------------------------------
(***************************************************************************)
(* The stderr thread, the ticker, the child and the client.                *)
(***************************************************************************)

\* variant: stderr is read only after stdout has ended
ReadStderrLast ==
    /\ reader["out"] # "reading"
    /\ Reads("err") \/ ReachesEnd("err")
    /\ UNCHANGED <<channel, client, worker, current, result, done, ticker, succeeded, beat>>

ReadStderr ==
    /\ Reads("err") \/ ReachesEnd("err")
    /\ UNCHANGED <<channel, client, worker, current, result, done, ticker, succeeded, beat>>

\* The ticker looks at the flag, sleeps, and sends without a second look.
CheckDone ==
    /\ ticker = "check"
    /\ ticker' = IF done THEN "gone" ELSE "asleep"
    /\ UNCHANGED <<channel, client, worker, current, result, done, run, succeeded, beat>>

WakeUp ==
    /\ ticker = "asleep"
    /\ ticker' = "sending"
    /\ UNCHANGED <<channel, client, worker, current, result, done, run, succeeded, beat>>

\* variant: try_send, where a full channel ends the ticker
TickOrGiveUp ==
    /\ ticker = "sending"
    /\ \/ Send("tick") /\ ticker' = IF client = "reading" THEN "check" ELSE "gone"
       \/ Len(channel) = Capacity /\ ticker' = "gone" /\ UNCHANGED channel
    /\ UNCHANGED <<client, worker, current, result, done, run, succeeded, beat>>

\* variant: the result of the send is ignored, as everywhere else
TickRegardless ==
    /\ ticker = "sending"
    /\ Send("tick")
    /\ ticker' = "check"
    /\ UNCHANGED <<client, worker, current, result, done, run, succeeded, beat>>

\* A failed send ends the ticker.
Tick ==
    /\ ticker = "sending"
    /\ Send("tick")
    /\ ticker' = IF client = "reading" THEN "check" ELSE "gone"
    /\ UNCHANGED <<client, worker, current, result, done, run, succeeded, beat>>

Ticker == CheckDone \/ WakeUp \/ Tick

\* The child decides to write another line.
ChildWants(p) ==
    /\ child = "running"
    /\ want = "none"
    /\ written["out"] + written["err"] < MaxLines
    /\ want' = p
    /\ UNCHANGED <<channel, client, worker, current, result, done, ticker, child, heir, pipe, reader,
                   written, recorded, tail, succeeded, beat>>

\* It blocks on a full pipe; a pipe nobody reads fails the write, which may end it.
ChildWrites ==
    /\ child = "running"
    /\ want # "none"
    /\ want' = "none"
    /\ IF reader[want] = "reading"
       THEN /\ Len(pipe[want]) < PipeSize
            /\ \E line \in Line : pipe' = [pipe EXCEPT ![want] = Append(@, line)]
            /\ UNCHANGED child
       ELSE child' \in {"running", "failure"} /\ UNCHANGED pipe
    /\ written' = [written EXCEPT ![want] = @ + 1]
    /\ UNCHANGED <<channel, client, worker, current, result, done, ticker, heir, reader, recorded,
                   tail, succeeded, beat>>

ChildExits ==
    /\ child = "running"
    /\ want = "none"
    /\ \/ child' = "success" /\ succeeded' = succeeded + 1
       \/ child' = "failure" /\ UNCHANGED succeeded
    /\ heir' \in BOOLEAN
    /\ UNCHANGED <<channel, client, worker, current, result, done, ticker, want, pipe, reader,
                   written, recorded, tail, beat>>

HeirEnds ==
    /\ heir
    /\ heir' = FALSE
    /\ UNCHANGED <<channel, client, worker, current, result, done, ticker, child, want, pipe, reader,
                   written, recorded, tail, succeeded, beat>>

\* The summary step reads messages until one of them ends the installation.
ClientReads ==
    /\ client = "reading"
    /\ channel # <<>>
    /\ client' = CASE Head(channel) \in {"tick", "line"} -> "reading"
                   [] Head(channel) = "finished"         -> "ok"
                   [] Head(channel) = "error"            -> "failed"
    /\ channel' = Tail(channel)
    /\ beat' = ~beat
    /\ UNCHANGED <<worker, current, result, done, ticker, run, succeeded>>

\* The CLI is killed or its connection breaks; the receiver is dropped.
ClientLeaves ==
    /\ client = "reading"
    /\ client' = "left"
    /\ UNCHANGED <<channel, worker, current, result, done, ticker, run, succeeded, beat>>

Next ==
    \/ Worker \/ CommandEnds \/ ReadStderr \/ Ticker
    \/ (\E p \in Pipe : ChildWants(p)) \/ ChildWrites \/ ChildExits \/ HeirEnds
    \/ ClientReads \/ ClientLeaves

Spec == Init /\ [][Next]_vars

\* Threads are scheduled, and the channel admits blocked senders in the order
\* they came (tokio's semaphore is a queue): a sender that finds room again and
\* again gets in.  The client reads what there is.
ThreadFairness ==
    /\ SF_vars(Worker)
    /\ SF_vars(Ticker)
    /\ WF_vars(ReadStderr)
    /\ WF_vars(ClientReads)

\* Commands end and a child goes on writing; it does not sleep for ever, and
\* neither does what it leaves behind.  No part of LiveSpec: a hypothesis of the
\* properties that need it.
CommandFairness ==
    WF_vars(CommandEnds) /\ WF_vars(ChildWrites) /\ WF_vars(ChildExits) /\ WF_vars(HeirEnds)

\* Commands may hang for ever: what needs them to end says so.
LiveSpec == Spec /\ ThreadFairness

-----------------------------------------------------------------------------
(***************************************************************************)
(* Properties.                                                             *)
(***************************************************************************)

TypeOK ==
    /\ channel \in Seq(Message) /\ Len(channel) <= Capacity
    /\ client \in {"reading", "ok", "failed", "left"}
    /\ worker \in {"report", "command", "reading", "sending", "joining", "waiting",
                   "unmount", "finish", "verdict", "gone"}
    /\ current \in DOMAIN Commands
    /\ result \in {"ok", "error"}
    /\ done \in BOOLEAN
    /\ ticker \in {"check", "asleep", "sending", "gone"}
    /\ child \in {"none", "running", "success", "failure"}
    /\ heir \in BOOLEAN
    /\ want \in Pipe \cup {"none"}
    /\ pipe \in [Pipe -> Seq(Line)] /\ \A p \in Pipe : Len(pipe[p]) <= PipeSize
    /\ reader \in [Pipe -> {"reading", "closed", "broken"}]
    /\ written \in [Pipe -> 0..MaxLines]
    /\ recorded \in [Pipe -> 0..MaxLines]
    /\ tail \in Seq(Pipe \X (1..MaxLines)) /\ Len(tail) <= TailSize
    /\ succeeded \in 0..Len(Commands)
    /\ beat \in BOOLEAN

\* "AerynOS installed" is shown only when every command has exited with success,
\* and a client that kept reading is told of a failure only when one of them has
\* not.
TruthfulVerdict ==
    /\ client = "ok" => succeeded = Len(Commands)
    /\ client = "failed" => succeeded < Len(Commands)

\* The error detail of a failed child is the end of what it printed: of each pipe
\* the latest lines, and all of them as long as the tail is not full.  Only a
\* line that is not UTF-8 cuts a pipe short.
ErrorDetailComplete ==
    result = "error" /\ child = "failure" =>
        \A p \in {q \in Pipe : reader[q] # "broken"} :
            LET kept == {k \in 1..MaxLines : Contains(tail, <<p, k>>)}
            IN  /\ \A k \in kept : k..written[p] \subseteq kept
                /\ Len(tail) < TailSize => 1..written[p] \subseteq kept

\* A client that keeps reading gets a verdict once the commands have ended: the two
\* pipes and the full channel cannot block one another, and the senders never all
\* leave without one ("install stream ended without completing" is not reached).
ClientAnswered == CommandFairness => <>(client # "reading")

\* No thread is left behind: an installation whose commands end comes to its end,
\* whether or not its client still listens, and the ticker does not outlive its
\* client, not even when a command hangs.
ThreadsEnd ==
    /\ CommandFairness => <>(worker = "gone")
    /\ client # "reading" ~> ticker = "gone"

\* "Keep-alive ticks so the stream never idles, even while moss is quiet": a
\* reading client receives one message after another, even when a command hangs.
StreamNeverIdles ==
    \A b \in BOOLEAN :
        (client = "reading" /\ beat = b) ~> (client # "reading" \/ beat # b)

\* The other half of what InstallTarget promises: how the verdict travels.  The
\* client has been told when it has read the verdict, and the target carries the
\* system when every command has succeeded.
P == INSTANCE Promise WITH
        told    <- CASE client = "ok"     -> "installed"
                     [] client = "failed" -> "nothing"
                     [] OTHER             -> "written",
        carried <- IF succeeded = Len(Commands) THEN "system" ELSE "model",
        call    <- IF client \in {"ok", "failed"} THEN "none" ELSE "install"

\* The channel between the worker and the client implements the steps of Promise:
\* no message is taken for the verdict before the installation has one, and the
\* verdict is the last thing that is told.
TellsAsPromised == [][P!Next]_(P!promised)

=============================================================================
