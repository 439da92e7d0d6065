------------------------ MODULE InstallStream_proofs ------------------------
(***************************************************************************)
(* The stream tells the truth for any channel, pipes, tail and sequence of *)
(* commands, and implements the steps of Promise.  The invariant has three *)
(* parts: what is in the channel agrees with where the worker is, where    *)
(* the worker is agrees with how many commands have succeeded, and each    *)
(* pipe holds what has been written to it and not been recorded.           *)
(***************************************************************************)
EXTENDS InstallStream, TLAPS

\* No verdict is sent before the worker's last step, and only the right one.
ChannelInv ==
    /\ channel \in Seq(Message)
    /\ Len(channel) <= Capacity
    /\ client \in {"reading", "ok", "failed", "left"}
    /\ \A i \in 1..Len(channel) :
          /\ channel[i] = "finished" => worker = "gone" /\ result = "ok"
          /\ channel[i] = "error" => worker = "gone" /\ result = "error"
    /\ client = "ok" => worker = "gone" /\ result = "ok"
    /\ client = "failed" => worker = "gone" /\ result = "error"

Streaming == {"reading", "sending", "joining", "waiting"}
Ending == {"unmount", "finish", "verdict", "gone"}

\* Before a command all the earlier ones have succeeded; while a child is
\* streamed, it has or has not; at the end the result says if all have.
WorkerInv ==
    /\ worker \in {"report", "command"} \cup Streaming \cup Ending
    /\ current \in 1..Len(Commands)
    /\ result \in {"ok", "error"}
    /\ child \in {"none", "running", "success", "failure"}
    /\ succeeded \in Nat
    /\ child = "running" => worker \in Streaming
    /\ worker \in {"report", "command"} => succeeded = current - 1
    /\ worker \in Streaming =>
          /\ child # "none"
          /\ child = "success" => succeeded = current
          /\ child # "success" => succeeded = current - 1
    /\ worker \notin Ending => result = "ok"
    /\ worker \in Ending =>
          /\ result = "ok" => succeeded = Len(Commands)
          /\ result = "error" => succeeded < Len(Commands)

FlagsInv ==
    /\ done \in BOOLEAN
    /\ ticker \in {"check", "asleep", "sending", "gone"}
    /\ heir \in BOOLEAN
    /\ beat \in BOOLEAN

\* A line is written, in its pipe, or recorded; a closed pipe has been recorded
\* to its end.
PipeInv ==
    /\ want \in Pipe \cup {"none"}
    /\ pipe \in [Pipe -> Seq(Line)]
    /\ reader \in [Pipe -> {"reading", "closed", "broken"}]
    /\ written \in [Pipe -> Nat]
    /\ recorded \in [Pipe -> Nat]
    /\ written["out"] + written["err"] <= MaxLines
    /\ want # "none" => written["out"] + written["err"] < MaxLines
    /\ \A p \in Pipe :
          /\ Len(pipe[p]) <= PipeSize
          /\ recorded[p] + Len(pipe[p]) <= written[p]
          /\ reader[p] = "reading" => recorded[p] + Len(pipe[p]) = written[p]
          /\ reader[p] = "closed" => child # "running" /\ recorded[p] = written[p]

\* The worker leaves a pipe only at its end, and a child only with both read.
ReaderInv ==
    /\ worker \notin {"reading", "sending"} => reader["out"] # "reading"
    /\ worker \notin {"reading", "sending", "joining"} => reader["err"] # "reading"

\* Of each pipe a tail holds, in their order, the lines recorded last.
HoldsLast(s, counts) ==
    /\ s \in Seq(Pipe \X Nat)
    /\ \A i \in 1..Len(s) : s[i][2] \in 1..counts[s[i][1]]
    /\ \A i, j \in 1..Len(s) : i < j /\ s[i][1] = s[j][1] => s[i][2] < s[j][2]
    /\ \A i \in 1..Len(s) : \A k \in Nat :
          s[i][2] <= k /\ k <= counts[s[i][1]] =>
              \E j \in 1..Len(s) : s[j] = <<s[i][1], k>>

\* It holds all of them.
HoldsAll(s, counts) ==
    \A p \in Pipe : \A k \in 1..counts[p] : \E j \in 1..Len(s) : s[j] = <<p, k>>

TailInv ==
    /\ HoldsLast(tail, recorded)
    /\ Len(tail) <= TailSize
    /\ Len(tail) < TailSize => HoldsAll(tail, recorded)

IInv == ChannelInv /\ WorkerInv /\ FlagsInv /\ PipeInv /\ ReaderInv /\ TailInv

-----------------------------------------------------------------------------

LEMMA InitInv == Init => IInv
<1> SUFFICES ASSUME Init PROVE IInv
  OBVIOUS
<1> USE StreamAssumption
<1>1. ChannelInv
  BY DEF Init, ChannelInv
<1>2. WorkerInv
  BY DEF Init, WorkerInv, Streaming, Ending
<1>3. FlagsInv
  BY DEF Init, FlagsInv
<1>4. PipeInv
  BY DEF Init, PipeInv, Pipe
<1>5. ReaderInv
  BY DEF Init, ReaderInv, Pipe
<1>6. TailInv
  BY DEF Init, TailInv, HoldsLast, HoldsAll, Pipe
<1> QED BY <1>1, <1>2, <1>3, <1>4, <1>5, <1>6 DEF IInv

\* A message that is no verdict leaves the channel as good as it was.
LEMMA SendKeeps ==
    ASSUME ChannelInv, NEW message \in Message, Send(message),
           message = "finished" => worker' = "gone" /\ result' = "ok",
           message = "error" => worker' = "gone" /\ result' = "error",
           UNCHANGED client, worker # "gone" \/ UNCHANGED <<worker, result>>
    PROVE  ChannelInv'
<1>1. CASE UNCHANGED channel
  BY <1>1 DEF ChannelInv
<1>2. CASE client = "reading" /\ Len(channel) < Capacity /\ channel' = Append(channel, message)
  <2>1. channel' \in Seq(Message) /\ Len(channel') = Len(channel) + 1 /\ Len(channel) \in Nat
    BY <1>2 DEF ChannelInv
  <2>2. Len(channel') <= Capacity
    BY <1>2, <2>1, StreamAssumption
  <2>3. ASSUME NEW i \in 1..Len(channel')
        PROVE  /\ channel'[i] = "finished" => worker' = "gone" /\ result' = "ok"
               /\ channel'[i] = "error" => worker' = "gone" /\ result' = "error"
    <3>1. CASE i \in 1..Len(channel)
      <4>1. channel'[i] = channel[i]
        BY <1>2, <2>1, <3>1 DEF ChannelInv
      <4> QED BY <3>1, <4>1 DEF ChannelInv
    <3>2. CASE i = Len(channel) + 1
      <4>1. channel'[i] = message
        BY <1>2, <3>2 DEF ChannelInv
      <4> QED BY <4>1
    <3> QED BY <2>1, <2>3, <3>1, <3>2
  <2> QED BY <1>2, <2>1, <2>2, <2>3 DEF ChannelInv
<1> QED BY <1>1, <1>2 DEF Send

\* The first of a tail is the oldest of its pipe: a tail can lose it.
LEMMA DropKeeps ==
    ASSUME NEW c, NEW s, HoldsLast(s, c), s # <<>>
    PROVE  HoldsLast(Tail(s), c) /\ Len(Tail(s)) = Len(s) - 1
<1>1. s \in Seq(Pipe \X Nat)
  BY DEF HoldsLast
<1>2. PICK t : t = Tail(s)
  OBVIOUS
<1>3. /\ t \in Seq(Pipe \X Nat) /\ Len(t) = Len(s) - 1 /\ Len(s) \in Nat
      /\ \A i \in 1..Len(t) : t[i] = s[i + 1]
  BY <1>1, <1>2
<1>4. \A i \in 1..Len(t) : i + 1 \in 1..Len(s) /\ t[i] = s[i + 1]
  BY <1>3
<1>5. \A i \in 1..Len(t) : t[i][2] \in 1..c[t[i][1]]
  BY <1>4 DEF HoldsLast
<1>6. ASSUME NEW i \in 1..Len(t), NEW j \in 1..Len(t), i < j, t[i][1] = t[j][1]
      PROVE  t[i][2] < t[j][2]
  <2>1. i + 1 < j + 1
    BY <1>3, <1>6
  <2> QED BY <1>4, <1>6, <2>1, ZenonT(30) DEF HoldsLast
<1>7. ASSUME NEW i \in 1..Len(t), NEW k \in Nat, t[i][2] <= k, k <= c[t[i][1]]
      PROVE  \E j \in 1..Len(t) : t[j] = <<t[i][1], k>>
  <2>1. PICK j \in 1..Len(s) : s[j] = <<s[i + 1][1], k>>
    BY <1>4, <1>7 DEF HoldsLast
  <2>2. j # 1
    <3> SUFFICES ASSUME j = 1 PROVE FALSE
      OBVIOUS
    <3>1. 1 < i + 1 /\ i + 1 \in 1..Len(s) /\ 1 \in 1..Len(s)
      BY <1>3, <1>4
    <3>2. s[1][2] < s[i + 1][2]
      BY <2>1, <3>1 DEF HoldsLast
    <3>3. s[1][2] = k /\ s[i + 1][2] <= k /\ s[i + 1][2] \in Nat
      BY <1>1, <1>4, <1>7, <2>1, <3>1
    <3> QED BY <3>2, <3>3
  <2>3. j - 1 \in 1..Len(t) /\ (j - 1) + 1 = j
    BY <1>3, <2>2
  <2>4. t[j - 1] = <<t[i][1], k>>
    BY <1>4, <2>1, <2>3
  <2> QED BY <2>3, <2>4
<1>8. HoldsLast(t, c)
  BY <1>3, <1>5, <1>6, <1>7 DEF HoldsLast
<1> QED BY <1>2, <1>3, <1>8

\* The next line of a pipe goes to the end of the tail.
LEMMA AppendKeeps ==
    ASSUME NEW c, NEW s, HoldsLast(s, c), c \in [Pipe -> Nat], NEW p \in Pipe
    PROVE  /\ HoldsLast(Append(s, <<p, c[p] + 1>>), [c EXCEPT ![p] = @ + 1])
           /\ Len(Append(s, <<p, c[p] + 1>>)) = Len(s) + 1
           /\ HoldsAll(s, c) =>
                 HoldsAll(Append(s, <<p, c[p] + 1>>), [c EXCEPT ![p] = @ + 1])
<1> DEFINE n == Len(s)
<1>18. PICK b : b = [c EXCEPT ![p] = @ + 1]
  OBVIOUS
<1>19. PICK t : t = Append(s, <<p, c[p] + 1>>)
  OBVIOUS
<1>1. s \in Seq(Pipe \X Nat)
  BY DEF HoldsLast
<1>2. <<p, c[p] + 1>> \in Pipe \X Nat
  OBVIOUS
<1>3. /\ t \in Seq(Pipe \X Nat) /\ Len(t) = Len(s) + 1
      /\ \A i \in 1..Len(s) : t[i] = s[i]
      /\ t[Len(s) + 1] = <<p, c[p] + 1>>
  BY <1>1, <1>2, <1>19
<1>4. b \in [Pipe -> Nat] /\ b[p] = c[p] + 1 /\ \A q \in Pipe : q # p => b[q] = c[q]
  BY <1>18
<1>5. n \in Nat /\ Len(t) = n + 1
  BY <1>1, <1>3
<1>6. t[n + 1][1] = p /\ t[n + 1][2] = c[p] + 1 /\ t[n + 1] = <<p, c[p] + 1>>
  BY <1>3
<1>7. ASSUME NEW i \in 1..n
      PROVE  /\ t[i] = s[i] /\ s[i] \in Pipe \X Nat
             /\ s[i][1] \in Pipe /\ s[i][2] \in Nat /\ s[i][2] \in 1..c[s[i][1]]
  <2>1. t[i] = s[i] /\ s[i] \in Pipe \X Nat
    BY <1>1, <1>3
  <2>2. s[i][2] \in 1..c[s[i][1]]
    BY DEF HoldsLast
  <2> QED BY <2>1, <2>2
<1>8. \A i \in 1..Len(t) : i = n + 1 \/ i \in 1..n
  BY <1>5
<1>9. n + 1 \in 1..Len(t) /\ \A i \in 1..n : i \in 1..Len(t)
  BY <1>5
<1>10. \A i, j \in 1..n : i < j /\ s[i][1] = s[j][1] => s[i][2] < s[j][2]
  BY DEF HoldsLast
<1>11. \A i \in 1..n : \A k \in Nat : s[i][2] <= k /\ k <= c[s[i][1]] =>
              \E j \in 1..n : s[j] = <<s[i][1], k>>
  BY DEF HoldsLast
<1> HIDE DEF n
<1>12. ASSUME NEW i \in 1..Len(t) PROVE t[i][2] \in 1..b[t[i][1]]
  <2>1. CASE i = n + 1
    BY <1>4, <1>6, <2>1
  <2>2. CASE i \in 1..n
    <3>1. CASE s[i][1] = p
      BY <1>4, <1>7, <2>2, <3>1
    <3>2. CASE s[i][1] # p
      BY <1>4, <1>7, <2>2, <3>2
    <3> QED BY <3>1, <3>2
  <2> QED BY <1>8, <2>1, <2>2
<1>13. ASSUME NEW i \in 1..Len(t), NEW j \in 1..Len(t), i < j, t[i][1] = t[j][1]
       PROVE  t[i][2] < t[j][2]
  <2>1. i \in 1..n
    BY <1>5, <1>13
  <2>2. CASE j = n + 1
    <3>1. s[i][1] = p /\ t[i][2] = s[i][2]
      BY <1>6, <1>7, <1>13, <2>1, <2>2
    <3>2. s[i][2] \in 1..c[p]
      BY <1>7, <2>1, <3>1
    <3> QED BY <1>6, <2>2, <3>1, <3>2
  <2>3. CASE j \in 1..n
    BY <1>7, <1>10, <1>13, <2>1, <2>3
  <2> QED BY <1>8, <2>2, <2>3
<1>14. ASSUME NEW i \in 1..Len(t), NEW k \in Nat, t[i][2] <= k, k <= b[t[i][1]]
       PROVE  \E j \in 1..Len(t) : t[j] = <<t[i][1], k>>
  <2>1. CASE t[i][1] = p /\ k = c[p] + 1
    BY <1>6, <1>9, <2>1
  <2>2. CASE ~(t[i][1] = p /\ k = c[p] + 1)
    <3>1. i \in 1..n
      <4> SUFFICES ASSUME i = n + 1 PROVE FALSE
        BY <1>8
      <4> QED BY <1>4, <1>6, <1>14, <2>2
    <3>2. s[i][2] <= k /\ k <= c[s[i][1]]
      <4>1. CASE s[i][1] = p
        BY <1>4, <1>7, <1>14, <2>2, <3>1, <4>1
      <4>2. CASE s[i][1] # p
        BY <1>4, <1>7, <1>14, <3>1, <4>2
      <4> QED BY <4>1, <4>2
    <3>3. PICK j \in 1..n : s[j] = <<s[i][1], k>>
      BY <1>11, <3>1, <3>2
    <3> QED BY <1>7, <1>9, <3>1, <3>3
  <2> QED BY <2>1, <2>2
<1>15. ASSUME HoldsAll(s, c), NEW q \in Pipe, NEW k \in 1..b[q]
       PROVE  \E j \in 1..Len(t) : t[j] = <<q, k>>
  <2>1. CASE q = p /\ k = c[p] + 1
    BY <1>6, <1>9, <2>1
  <2>2. CASE ~(q = p /\ k = c[p] + 1)
    <3>1. k \in 1..c[q]
      BY <1>4, <2>2
    <3>2. PICK j \in 1..n : s[j] = <<q, k>>
      BY <1>15, <3>1 DEF HoldsAll, n
    <3> QED BY <1>7, <1>9, <3>2
  <2> QED BY <2>1, <2>2
<1>16. HoldsLast(t, b)
  BY <1>3, <1>12, <1>13, <1>14 DEF HoldsLast
<1>17. HoldsAll(s, c) => HoldsAll(t, b)
  BY <1>15 DEF HoldsAll
<1> QED BY <1>3, <1>16, <1>17, <1>18, <1>19

\* Recording a line drops the oldest one when the tail is full.
LEMMA RecordingKeeps ==
    ASSUME TailInv, recorded \in [Pipe -> Nat], NEW p \in Pipe,
           recorded' = [recorded EXCEPT ![p] = @ + 1],
           tail' = Append(IF Len(tail) >= TailSize THEN Tail(tail) ELSE tail, <<p, recorded[p] + 1>>)
    PROVE  TailInv'
<1>1. /\ HoldsLast(tail, recorded) /\ Len(tail) <= TailSize /\ Len(tail) \in Nat
      /\ Len(tail) < TailSize => HoldsAll(tail, recorded)
  <2>1. tail \in Seq(Pipe \X Nat)
    BY DEF TailInv, HoldsLast
  <2>2. Len(tail) \in Nat
    BY <2>1
  <2> QED BY <2>2, Zenon DEF TailInv
<1>2. TailSize \in Nat \ {0}
  BY StreamAssumption
<1>3. CASE Len(tail) >= TailSize
  <2>1. tail # <<>>
    BY <1>2, <1>3
  <2>2. PICK t : t = Tail(tail) /\ HoldsLast(t, recorded) /\ Len(t) = Len(tail) - 1
    BY <1>1, <2>1, DropKeeps
  <2>5. tail' = Append(t, <<p, recorded[p] + 1>>)
    BY <1>3, <2>2, Zenon
  <2>3. HoldsLast(tail', recorded') /\ Len(tail') = Len(t) + 1
    <3>1. /\ HoldsLast(Append(t, <<p, recorded[p] + 1>>), [recorded EXCEPT ![p] = @ + 1])
          /\ Len(Append(t, <<p, recorded[p] + 1>>)) = Len(t) + 1
      BY <2>2, AppendKeeps
    <3> QED BY <2>5, <3>1
  <2>4. Len(tail') = TailSize
    BY <1>1, <1>2, <1>3, <2>2, <2>3
  <2> QED BY <1>2, <2>3, <2>4 DEF TailInv
<1>4. CASE Len(tail) < TailSize
  <2>1. tail' = Append(tail, <<p, recorded[p] + 1>>)
    BY <1>1, <1>2, <1>4
  <2>2. /\ HoldsLast(tail', recorded') /\ Len(tail') = Len(tail) + 1
        /\ HoldsAll(tail', recorded')
    <3>1. /\ HoldsLast(Append(tail, <<p, recorded[p] + 1>>), [recorded EXCEPT ![p] = @ + 1])
          /\ Len(Append(tail, <<p, recorded[p] + 1>>)) = Len(tail) + 1
          /\ HoldsAll(Append(tail, <<p, recorded[p] + 1>>), [recorded EXCEPT ![p] = @ + 1])
      BY <1>1, <1>4, AppendKeeps
    <3> QED BY <2>1, <3>1
  <2>3. Len(tail') <= TailSize
    BY <1>1, <1>2, <1>4, <2>2
  <2> QED BY <2>2, <2>3 DEF TailInv
<1> QED BY <1>1, <1>2, <1>3, <1>4

\* A reader that takes a line, breaks at one or reaches the end of its pipe.
LEMMA ReadingKeeps ==
    ASSUME PipeInv, TailInv, NEW p \in Pipe, Reads(p) \/ ReachesEnd(p)
    PROVE  /\ PipeInv' /\ TailInv'
           /\ \A q \in Pipe : q # p => reader'[q] = reader[q]
           /\ Reads(p) => Head(pipe[p]) \in Line
           /\ Reads(p) /\ Head(pipe[p]) = "binary" => reader'[p] = "broken"
           /\ ReachesEnd(p) => reader'[p] = "closed"
<1>1. /\ pipe \in [Pipe -> Seq(Line)] /\ reader \in [Pipe -> {"reading", "closed", "broken"}]
      /\ written \in [Pipe -> Nat] /\ recorded \in [Pipe -> Nat]
  BY DEF PipeInv
<1>2. PICK l : l = pipe[p] /\ l \in Seq(Line)
  BY <1>1
<1>3. CASE Reads(p) /\ Head(l) = "binary"
  <2>1. /\ reader' = [reader EXCEPT ![p] = "broken"] /\ pipe' = [pipe EXCEPT ![p] = <<>>]
        /\ UNCHANGED <<recorded, tail, child, heir, want, written>>
    BY <1>2, <1>3 DEF Reads
  <2>2. TailInv'
    BY <2>1 DEF TailInv
  <2>3. /\ pipe' \in [Pipe -> Seq(Line)] /\ reader' \in [Pipe -> {"reading", "closed", "broken"}]
        /\ reader'[p] = "broken" /\ Len(pipe'[p]) = 0
        /\ \A q \in Pipe : q # p => reader'[q] = reader[q] /\ pipe'[q] = pipe[q]
    BY <1>1, <2>1
  <2>4. ASSUME NEW q \in Pipe
        PROVE  /\ Len(pipe'[q]) <= PipeSize
               /\ recorded'[q] + Len(pipe'[q]) <= written'[q]
               /\ reader'[q] = "reading" => recorded'[q] + Len(pipe'[q]) = written'[q]
               /\ reader'[q] = "closed" => child' # "running" /\ recorded'[q] = written'[q]
    <3>1. CASE q # p
      BY <2>1, <2>3, <3>1 DEF PipeInv
    <3>2. CASE q = p
      <4>1. recorded[p] + Len(l) <= written[p] /\ Len(l) \in Nat
        BY <1>2 DEF PipeInv
      <4> QED BY <1>1, <2>1, <2>3, <3>2, <4>1, StreamAssumption
    <3> QED BY <3>1, <3>2
  <2>5. PipeInv'
    <3>1. /\ want' \in Pipe \cup {"none"} /\ written' \in [Pipe -> Nat] /\ recorded' \in [Pipe -> Nat]
          /\ written'["out"] + written'["err"] <= MaxLines
          /\ want' # "none" => written'["out"] + written'["err"] < MaxLines
      BY <2>1 DEF PipeInv
    <3> QED BY <2>3, <2>4, <3>1 DEF PipeInv
  <2> QED BY <1>2, <1>3, <2>2, <2>3, <2>5 DEF Line, Reads, ReachesEnd
<1>4. CASE Reads(p) /\ Head(l) # "binary"
  <2>1. /\ l # <<>> /\ reader[p] = "reading"
        /\ pipe' = [pipe EXCEPT ![p] = Tail(l)]
        /\ recorded' = [recorded EXCEPT ![p] = @ + 1]
        /\ tail' = Append(IF Len(tail) >= TailSize THEN Tail(tail) ELSE tail, <<p, recorded[p] + 1>>)
        /\ UNCHANGED <<reader, child, heir, want, written>>
    BY <1>2, <1>4 DEF Reads
  <2>2. TailInv'
    BY <1>1, <2>1, RecordingKeeps
  <2>3. Tail(l) \in Seq(Line) /\ Len(Tail(l)) = Len(l) - 1 /\ Len(l) \in Nat \ {0} /\ Head(l) \in Line
    BY <1>2, <2>1
  <2>4. /\ pipe' \in [Pipe -> Seq(Line)] /\ recorded' \in [Pipe -> Nat]
        /\ recorded'[p] = recorded[p] + 1 /\ Len(pipe'[p]) = Len(l) - 1
        /\ \A q \in Pipe : q # p => recorded'[q] = recorded[q] /\ pipe'[q] = pipe[q]
    BY <1>1, <2>1, <2>3
  <2>5. ASSUME NEW q \in Pipe
        PROVE  /\ Len(pipe'[q]) <= PipeSize
               /\ recorded'[q] + Len(pipe'[q]) <= written'[q]
               /\ reader'[q] = "reading" => recorded'[q] + Len(pipe'[q]) = written'[q]
               /\ reader'[q] = "closed" => child' # "running" /\ recorded'[q] = written'[q]
    <3>1. CASE q # p
      BY <2>1, <2>4, <3>1 DEF PipeInv
    <3>2. CASE q = p
      <4>1. recorded[p] + Len(l) = written[p] /\ Len(l) <= PipeSize
        BY <1>2, <2>1 DEF PipeInv
      <4> QED BY <1>1, <2>1, <2>3, <2>4, <3>2, <4>1, StreamAssumption, SMTT(30)
    <3> QED BY <3>1, <3>2
  <2>6. PipeInv'
    <3>1. /\ want' \in Pipe \cup {"none"} /\ written' \in [Pipe -> Nat]
          /\ reader' \in [Pipe -> {"reading", "closed", "broken"}]
          /\ written'["out"] + written'["err"] <= MaxLines
          /\ want' # "none" => written'["out"] + written'["err"] < MaxLines
      BY <2>1 DEF PipeInv
    <3> QED BY <2>4, <2>5, <3>1 DEF PipeInv
  <2>7. ~ReachesEnd(p)
    BY <1>2, <2>1 DEF ReachesEnd
  <2> QED BY <1>2, <1>4, <2>1, <2>2, <2>3, <2>6, <2>7
<1>5. CASE ReachesEnd(p)
  <2>1. /\ l = <<>> /\ reader[p] = "reading" /\ child # "running"
        /\ reader' = [reader EXCEPT ![p] = "closed"]
        /\ UNCHANGED <<child, heir, want, pipe, written, recorded, tail>>
    BY <1>2, <1>5 DEF ReachesEnd
  <2>2. TailInv'
    BY <2>1 DEF TailInv
  <2>3. /\ reader' \in [Pipe -> {"reading", "closed", "broken"}] /\ reader'[p] = "closed"
        /\ \A q \in Pipe : q # p => reader'[q] = reader[q]
    BY <1>1, <2>1
  <2>4. ASSUME NEW q \in Pipe
        PROVE  /\ Len(pipe'[q]) <= PipeSize
               /\ recorded'[q] + Len(pipe'[q]) <= written'[q]
               /\ reader'[q] = "reading" => recorded'[q] + Len(pipe'[q]) = written'[q]
               /\ reader'[q] = "closed" => child' # "running" /\ recorded'[q] = written'[q]
    <3>1. CASE q # p
      BY <2>1, <2>3, <3>1 DEF PipeInv
    <3>2. CASE q = p
      <4>1. recorded[p] + Len(pipe[p]) = written[p] /\ Len(pipe[p]) <= PipeSize
        BY <2>1 DEF PipeInv
      <4>2. Len(pipe[p]) = 0
        BY <1>2, <2>1
      <4> QED BY <1>1, <2>1, <2>3, <3>2, <4>1, <4>2
    <3> QED BY <3>1, <3>2
  <2>5. PipeInv'
    <3>1. /\ want' \in Pipe \cup {"none"} /\ written' \in [Pipe -> Nat]
          /\ pipe' \in [Pipe -> Seq(Line)] /\ recorded' \in [Pipe -> Nat]
          /\ written'["out"] + written'["err"] <= MaxLines
          /\ want' # "none" => written'["out"] + written'["err"] < MaxLines
      BY <2>1 DEF PipeInv
    <3> QED BY <2>3, <2>4, <3>1 DEF PipeInv
  <2>6. ~Reads(p)
    BY <1>2, <2>1 DEF Reads
  <2> QED BY <2>2, <2>3, <2>5, <2>6
<1> QED BY <1>2, <1>3, <1>4, <1>5

-----------------------------------------------------------------------------
(***************************************************************************)
(* What each part of the invariant needs of a step that leaves it alone.   *)
(***************************************************************************)

LEMMA ChannelFrame ==
    ASSUME ChannelInv, UNCHANGED <<channel, client>>, worker # "gone" \/ UNCHANGED <<worker, result>>
    PROVE  ChannelInv'
BY DEF ChannelInv

LEMMA PipeFrame ==
    ASSUME PipeInv, TailInv, UNCHANGED <<child, want, pipe, reader, written, recorded, tail>>
    PROVE  PipeInv' /\ TailInv'
<1>1. PipeInv'
  BY DEF PipeInv
<1>2. TailInv'
  BY DEF TailInv
<1> QED BY <1>1, <1>2

LEMMA ReaderFrame ==
    ASSUME ReaderInv, UNCHANGED reader,
           worker' \notin {"reading", "sending"} => worker \notin {"reading", "sending"} \/ reader["out"] # "reading",
           worker' \notin {"reading", "sending", "joining"} =>
               worker \notin {"reading", "sending", "joining"} \/ reader["err"] # "reading"
    PROVE  ReaderInv'
BY DEF ReaderInv

\* A step of the worker that only sends and moves on.
LEMMA SendingStep ==
    ASSUME IInv, NEW message \in {"line"}, Send(message),
           UNCHANGED <<client, current, result, done, ticker, run, succeeded, beat>>,
           \/ worker = "report" /\ worker' = "command"
           \/ worker = "sending" /\ worker' = "reading"
           \/ worker = "unmount" /\ worker' = "finish"
    PROVE  IInv'
<1>1. ChannelInv'
  <2>1. message \in Message /\ message # "finished" /\ message # "error" /\ worker # "gone"
    BY DEF Message
  <2> QED BY <2>1, SendKeeps DEF IInv
<1>2. WorkerInv'
  BY DEF IInv, WorkerInv, Streaming, Ending, run
<1>3. FlagsInv'
  BY DEF IInv, FlagsInv, run
<1>4. PipeInv' /\ TailInv'
  BY PipeFrame DEF IInv, run
<1>5. ReaderInv'
  BY ReaderFrame DEF IInv, run
<1> QED BY <1>1, <1>2, <1>3, <1>4, <1>5 DEF IInv

\* A step of the worker that neither sends nor reads.
LEMMA InnerStep ==
    ASSUME IInv, WorkerInv', UNCHANGED <<channel, client, ticker, run, beat>>, done' \in BOOLEAN,
           \/ worker = "command" /\ worker' \in {"report", "unmount"}
           \/ worker = "joining" /\ worker' = "waiting" /\ reader["err"] # "reading"
           \/ worker = "waiting" /\ worker' \in {"report", "unmount"}
           \/ worker = "finish" /\ worker' = "verdict"
    PROVE  IInv'
<1>1. ChannelInv'
  BY ChannelFrame DEF IInv
<1>2. FlagsInv'
  BY DEF IInv, FlagsInv, run
<1>3. PipeInv' /\ TailInv'
  BY PipeFrame DEF IInv, run
<1>4. ReaderInv'
  BY DEF IInv, ReaderInv, run
<1> QED BY <1>1, <1>2, <1>3, <1>4 DEF IInv

\* A step of the ticker, the child or the client that leaves the worker where it is.
LEMMA OuterStep ==
    ASSUME IInv, ChannelInv', FlagsInv', PipeInv', TailInv',
           UNCHANGED <<worker, current, result>>,
           UNCHANGED <<child, succeeded>> \/ WorkerInv',
           \A p \in Pipe : reader'[p] = reader[p] \/ reader'[p] # "reading"
    PROVE  IInv'
<1>1. WorkerInv'
  BY DEF IInv, WorkerInv
<1>2. ReaderInv'
  BY DEF IInv, ReaderInv, Pipe
<1> QED BY <1>1, <1>2 DEF IInv

-----------------------------------------------------------------------------

LEMMA WorkerStep == IInv /\ Worker => IInv'
<1> SUFFICES ASSUME IInv, Worker PROVE IInv'
  OBVIOUS
<1>1. CASE Report
  BY <1>1, SendingStep DEF Report
<1>2. CASE Spawn
  <2>1. ChannelInv'
    BY <1>2, ChannelFrame DEF Spawn, IInv
  <2>2. WorkerInv'
    BY <1>2 DEF Spawn, IInv, WorkerInv, Streaming, Ending
  <2>3. FlagsInv'
    BY <1>2 DEF Spawn, IInv, FlagsInv
  <2>4. PipeInv'
    BY <1>2, StreamAssumption DEF Spawn, PipeInv, Pipe
  <2>5. ReaderInv'
    BY <1>2 DEF Spawn, ReaderInv
  <2>6. TailInv'
    BY <1>2, StreamAssumption DEF Spawn, TailInv, HoldsLast, HoldsAll
  <2> QED BY <2>1, <2>2, <2>3, <2>4, <2>5, <2>6 DEF IInv
<1>3. CASE ReadStdout
  <2>1. /\ worker = "reading"
        /\ worker' \in {"sending", "reading", "joining"}
        /\ worker' = "joining" => reader'["out"] # "reading"
        /\ reader'["err"] = reader["err"]
        /\ PipeInv' /\ TailInv'
    BY <1>3, ReadingKeeps DEF ReadStdout, IInv, Pipe, Line
  <2>2. UNCHANGED <<channel, client, current, result, done, ticker, succeeded, beat, child, heir>>
    BY <1>3 DEF ReadStdout, Reads, ReachesEnd
  <2>3. ChannelInv'
    BY <2>1, <2>2, ChannelFrame DEF IInv
  <2>4. WorkerInv'
    BY <2>1, <2>2 DEF IInv, WorkerInv, Streaming, Ending
  <2>5. FlagsInv'
    BY <2>2 DEF IInv, FlagsInv
  <2>6. ReaderInv'
    BY <2>1 DEF ReaderInv
  <2> QED BY <2>1, <2>3, <2>4, <2>5, <2>6 DEF IInv
<1>4. CASE ForwardLine
  BY <1>4, SendingStep DEF ForwardLine
<1>5. CASE Join
  <2>1. WorkerInv'
    BY <1>5 DEF Join, IInv, WorkerInv, Streaming, Ending, run
  <2> QED BY <1>5, <2>1, InnerStep DEF Join, IInv, FlagsInv
<1>6. CASE Wait
  <2>1. WorkerInv'
    BY <1>6 DEF Wait, Continue, IInv, WorkerInv, Streaming, Ending, run
  <2>2. worker = "waiting" /\ worker' \in {"report", "unmount"}
    BY <1>6 DEF Wait, Continue
  <2> QED BY <1>6, <2>1, <2>2, InnerStep DEF Wait, IInv, FlagsInv
<1>7. CASE Unmount
  BY <1>7, SendingStep DEF Unmount
<1>8. CASE Finish
  <2>1. WorkerInv'
    BY <1>8 DEF Finish, IInv, WorkerInv, Streaming, Ending, run
  <2> QED BY <1>8, <2>1, InnerStep DEF Finish
<1>9. CASE Verdict
  <2>1. ChannelInv'
    <3>1. (IF result = "ok" THEN "finished" ELSE "error") \in Message
      BY DEF Message
    <3>2. result \in {"ok", "error"}
      BY DEF IInv, WorkerInv
    <3>3. CASE result = "ok"
      BY <1>9, <3>1, <3>3, SendKeeps DEF Verdict, IInv
    <3>4. CASE result = "error"
      BY <1>9, <3>1, <3>4, SendKeeps DEF Verdict, IInv
    <3> QED BY <3>2, <3>3, <3>4
  <2>2. WorkerInv'
    BY <1>9 DEF Verdict, IInv, WorkerInv, Streaming, Ending, run
  <2>3. FlagsInv'
    BY <1>9 DEF Verdict, IInv, FlagsInv, run
  <2>4. PipeInv' /\ TailInv'
    BY <1>9, PipeFrame DEF Verdict, IInv, run
  <2>5. ReaderInv'
    BY <1>9 DEF Verdict, IInv, ReaderInv, run
  <2> QED BY <2>1, <2>2, <2>3, <2>4, <2>5 DEF IInv
<1> QED BY <1>1, <1>2, <1>3, <1>4, <1>5, <1>6, <1>7, <1>8, <1>9 DEF Worker

LEMMA CommandStep == IInv /\ CommandEnds => IInv'
<1> SUFFICES ASSUME IInv, CommandEnds PROVE IInv'
  OBVIOUS
<1>1. WorkerInv'
  BY DEF CommandEnds, Continue, IInv, WorkerInv, Streaming, Ending, run
<1>2. worker = "command" /\ worker' \in {"report", "unmount"}
  BY DEF CommandEnds, Continue
<1> QED BY <1>1, <1>2, InnerStep DEF CommandEnds, IInv, FlagsInv

LEMMA TickerStep == IInv /\ Ticker => IInv'
<1> SUFFICES ASSUME IInv, Ticker PROVE IInv'
  OBVIOUS
<1>1. UNCHANGED <<client, worker, current, result, done, run, succeeded, beat>>
  BY DEF Ticker, CheckDone, WakeUp, Tick
<1>2. ChannelInv'
  <2>1. CASE Send("tick")
    BY <1>1, <2>1, SendKeeps DEF IInv, Message
  <2>2. CASE UNCHANGED channel
    BY <1>1, <2>2, ChannelFrame DEF IInv
  <2> QED BY <2>1, <2>2 DEF Ticker, CheckDone, WakeUp, Tick
<1>3. FlagsInv'
  BY <1>1 DEF IInv, FlagsInv, Ticker, CheckDone, WakeUp, Tick, run
<1>4. PipeInv' /\ TailInv'
  BY <1>1, PipeFrame DEF IInv, run
<1> QED BY <1>1, <1>2, <1>3, <1>4, OuterStep DEF run

LEMMA ChildStep ==
    ASSUME IInv, (\E p \in Pipe : ChildWants(p)) \/ ChildWrites \/ ChildExits \/ HeirEnds
    PROVE  IInv'
<1>1. UNCHANGED <<channel, client, worker, current, result, done, ticker, reader, recorded, tail, beat>>
  BY DEF ChildWants, ChildWrites, ChildExits, HeirEnds
<1>2. ChannelInv'
  BY <1>1, ChannelFrame DEF IInv
<1>3. TailInv'
  BY <1>1 DEF IInv, TailInv
<1>4. CASE \E p \in Pipe : ChildWants(p)
  <2>1. FlagsInv'
    BY <1>4 DEF IInv, FlagsInv, ChildWants
  <2>2. PipeInv'
    BY <1>4 DEF IInv, PipeInv, ChildWants
  <2> QED BY <1>1, <1>2, <1>3, <1>4, <2>1, <2>2, OuterStep DEF ChildWants
<1>5. CASE ChildWrites
  <2>1. FlagsInv'
    BY <1>5 DEF IInv, FlagsInv, ChildWrites
  <2>2. WorkerInv'
    <3>1. child = "running" /\ child' \in {"running", "failure"} /\ UNCHANGED succeeded
      BY <1>5 DEF ChildWrites
    <3> QED BY <1>1, <3>1 DEF IInv, WorkerInv, Streaming, Ending
  <2>3. PipeInv'
    <3>1. /\ pipe \in [Pipe -> Seq(Line)] /\ reader \in [Pipe -> {"reading", "closed", "broken"}]
          /\ written \in [Pipe -> Nat] /\ recorded \in [Pipe -> Nat]
          /\ written["out"] + written["err"] < MaxLines
          /\ want \in Pipe /\ child = "running" /\ want' = "none"
          /\ written' = [written EXCEPT ![want] = @ + 1]
      BY <1>5 DEF ChildWrites, IInv, PipeInv
    <3>2. /\ written' \in [Pipe -> Nat]
          /\ written'["out"] + written'["err"] <= MaxLines
          /\ written'[want] = written[want] + 1
          /\ \A q \in Pipe : q # want => written'[q] = written[q]
      BY <3>1, StreamAssumption DEF Pipe
    <3>3. CASE reader[want] = "reading"
      <4>1. PICK line \in Line : pipe' = [pipe EXCEPT ![want] = Append(@, line)]
        BY <1>5, <3>3 DEF ChildWrites
      <4>2. Len(pipe[want]) < PipeSize /\ UNCHANGED child
        BY <1>5, <3>3 DEF ChildWrites
      <4>3. PICK l \in Seq(Line) : l = pipe[want]
        BY <3>1
      <4>4. Append(l, line) \in Seq(Line) /\ Len(Append(l, line)) = Len(l) + 1 /\ Len(l) \in Nat
        OBVIOUS
      <4>5. /\ pipe' \in [Pipe -> Seq(Line)] /\ Len(pipe'[want]) = Len(l) + 1
            /\ \A q \in Pipe : q # want => pipe'[q] = pipe[q]
        BY <3>1, <4>1, <4>3, <4>4
      <4>6. ASSUME NEW q \in Pipe
            PROVE  /\ Len(pipe'[q]) <= PipeSize
                   /\ recorded'[q] + Len(pipe'[q]) <= written'[q]
                   /\ reader'[q] = "reading" => recorded'[q] + Len(pipe'[q]) = written'[q]
                   /\ reader'[q] = "closed" => child' # "running" /\ recorded'[q] = written'[q]
        <5>1. CASE q # want
          BY <1>1, <3>2, <4>2, <4>5, <5>1 DEF IInv, PipeInv
        <5>2. CASE q = want
          <6>1. recorded[want] + Len(pipe[want]) = written[want]
            BY <3>1, <3>3 DEF IInv, PipeInv
          <6> QED BY <1>1, <3>1, <3>2, <3>3, <4>2, <4>3, <4>4, <4>5, <5>2, <6>1, StreamAssumption, SMTT(30)
        <5> QED BY <5>1, <5>2
      <4> QED BY <1>1, <3>1, <3>2, <4>5, <4>6 DEF PipeInv
    <3>4. CASE reader[want] # "reading"
      <4>1. UNCHANGED pipe
        BY <1>5, <3>4 DEF ChildWrites
      <4>2. ASSUME NEW q \in Pipe
            PROVE  /\ Len(pipe'[q]) <= PipeSize
                   /\ recorded'[q] + Len(pipe'[q]) <= written'[q]
                   /\ reader'[q] = "reading" => recorded'[q] + Len(pipe'[q]) = written'[q]
                   /\ reader'[q] = "closed" => child' # "running" /\ recorded'[q] = written'[q]
        <5>1. /\ Len(pipe[q]) <= PipeSize
              /\ recorded[q] + Len(pipe[q]) <= written[q]
              /\ reader[q] = "reading" => recorded[q] + Len(pipe[q]) = written[q]
              /\ reader[q] # "closed"
          BY <3>1 DEF IInv, PipeInv
        <5>2. Len(pipe[q]) \in Nat /\ recorded[q] \in Nat /\ written[q] \in Nat
          BY <3>1
        <5>3. CASE q = want
          BY <1>1, <3>2, <3>4, <4>1, <5>1, <5>2, <5>3
        <5>4. CASE q # want
          BY <1>1, <3>2, <4>1, <5>1, <5>2, <5>4
        <5> QED BY <5>3, <5>4
      <4> QED BY <1>1, <3>1, <3>2, <4>1, <4>2 DEF PipeInv
    <3> QED BY <3>3, <3>4
  <2> QED BY <1>1, <1>2, <1>3, <2>1, <2>2, <2>3, OuterStep
<1>6. CASE ChildExits
  <2>1. FlagsInv'
    BY <1>6 DEF IInv, FlagsInv, ChildExits
  <2>2. WorkerInv'
    BY <1>1, <1>6 DEF ChildExits, IInv, WorkerInv, Streaming, Ending
  <2>3. PipeInv'
    BY <1>6 DEF ChildExits, IInv, PipeInv
  <2> QED BY <1>1, <1>2, <1>3, <2>1, <2>2, <2>3, OuterStep
<1>7. CASE HeirEnds
  <2>1. FlagsInv'
    BY <1>7 DEF IInv, FlagsInv, HeirEnds
  <2>2. PipeInv'
    BY <1>7 DEF HeirEnds, IInv, PipeInv
  <2> QED BY <1>1, <1>2, <1>3, <1>7, <2>1, <2>2, OuterStep DEF HeirEnds
<1> QED BY <1>4, <1>5, <1>6, <1>7

LEMMA ClientStep == IInv /\ (ClientReads \/ ClientLeaves) => IInv'
<1> SUFFICES ASSUME IInv, ClientReads \/ ClientLeaves PROVE IInv'
  OBVIOUS
<1>1. UNCHANGED <<worker, current, result, done, ticker, run, succeeded>>
  BY DEF ClientReads, ClientLeaves
<1>2. FlagsInv'
  BY <1>1 DEF IInv, FlagsInv, ClientReads, ClientLeaves, run
<1>3. PipeInv' /\ TailInv'
  BY <1>1, PipeFrame DEF IInv, run
<1>4. ChannelInv'
  <2>1. CASE ClientReads
    <3>1. channel # <<>> /\ channel \in Seq(Message) /\ channel' = Tail(channel)
      BY <2>1 DEF ClientReads, IInv, ChannelInv
    <3>2. /\ channel' \in Seq(Message) /\ Len(channel') = Len(channel) - 1 /\ Len(channel) \in Nat
          /\ \A i \in 1..Len(channel') : channel'[i] = channel[i + 1] /\ i + 1 \in 1..Len(channel)
          /\ 1 \in 1..Len(channel) /\ Head(channel) = channel[1] /\ channel[1] \in Message
      BY <3>1
    <3>3. Len(channel') <= Capacity
      BY <3>2, StreamAssumption DEF IInv, ChannelInv
    <3>4. /\ channel[1] = "finished" => worker = "gone" /\ result = "ok"
          /\ channel[1] = "error" => worker = "gone" /\ result = "error"
      BY <3>2 DEF IInv, ChannelInv
    <3>5. /\ client' \in {"reading", "ok", "failed"}
          /\ client' = "ok" => channel[1] = "finished"
          /\ client' = "failed" => channel[1] = "error"
      BY <2>1, <3>2 DEF ClientReads, Message
    <3>6. \A i \in 1..Len(channel') :
             /\ channel'[i] = "finished" => worker = "gone" /\ result = "ok"
             /\ channel'[i] = "error" => worker = "gone" /\ result = "error"
      BY <3>2 DEF IInv, ChannelInv
    <3> QED BY <1>1, <3>2, <3>3, <3>4, <3>5, <3>6 DEF ChannelInv
  <2>2. CASE ClientLeaves
    BY <1>1, <2>2 DEF ClientLeaves, IInv, ChannelInv
  <2> QED BY <2>1, <2>2
<1> QED BY <1>1, <1>2, <1>3, <1>4, OuterStep DEF run

LEMMA NextInv == IInv /\ [Next]_vars => IInv'
<1> SUFFICES ASSUME IInv, [Next]_vars PROVE IInv'
  OBVIOUS
<1>1. CASE Worker
  BY <1>1, WorkerStep
<1>2. CASE CommandEnds
  BY <1>2, CommandStep
<1>3. CASE ReadStderr
  <2>1. /\ UNCHANGED <<channel, client, worker, current, result, done, ticker, succeeded, beat>>
        /\ UNCHANGED <<child, heir>>
    BY <1>3 DEF ReadStderr, Reads, ReachesEnd
  <2>2. PipeInv' /\ TailInv' /\ \A p \in Pipe : reader'[p] = reader[p] \/ reader'[p] # "reading"
    <3>1. /\ PipeInv' /\ TailInv' /\ reader'["out"] = reader["out"]
          /\ Reads("err") \/ ReachesEnd("err")
      BY <1>3, ReadingKeeps DEF ReadStderr, IInv, Pipe
    <3>2. reader["err"] = "reading"
      BY <3>1 DEF Reads, ReachesEnd
    <3> QED BY <3>1, <3>2 DEF Pipe
  <2>3. ChannelInv'
    BY <2>1, ChannelFrame DEF IInv
  <2>4. FlagsInv'
    BY <2>1 DEF IInv, FlagsInv
  <2> QED BY <2>1, <2>2, <2>3, <2>4, OuterStep
<1>4. CASE Ticker
  BY <1>4, TickerStep
<1>5. CASE (\E p \in Pipe : ChildWants(p)) \/ ChildWrites \/ ChildExits \/ HeirEnds
  BY <1>5, ChildStep
<1>6. CASE ClientReads \/ ClientLeaves
  BY <1>6, ClientStep
<1>7. CASE UNCHANGED vars
  <2>1. ChannelInv'
    BY <1>7, ChannelFrame DEF IInv, vars
  <2>2. PipeInv' /\ TailInv'
    BY <1>7, PipeFrame DEF IInv, vars, run
  <2>3. FlagsInv'
    BY <1>7 DEF IInv, FlagsInv, vars, run
  <2> QED BY <1>7, <2>1, <2>2, <2>3, OuterStep DEF vars, run
<1> QED BY <1>1, <1>2, <1>3, <1>4, <1>5, <1>6, <1>7 DEF Next

-----------------------------------------------------------------------------
(***************************************************************************)
(* What follows from the invariant.                                        *)
(***************************************************************************)

\* In every reachable state the channel, the worker and the pipes agree.
THEOREM Invariant == Spec => []IInv
<1>1. Init => IInv
  BY InitInv
<1>2. IInv /\ [Next]_vars => IInv'
  BY NextInv
<1> QED BY <1>1, <1>2, PTL DEF Spec

\* Every reachable state is well typed: no pipe, tail or channel outgrows its
\* bound, whatever its readers and writers do.
THEOREM TypeCorrect == Spec => []TypeOK
<1>1. IInv => TypeOK
  <2> SUFFICES ASSUME IInv PROVE TypeOK
    OBVIOUS
  <2>1. channel \in Seq(Message) /\ Len(channel) <= Capacity
        /\ client \in {"reading", "ok", "failed", "left"}
    BY DEF IInv, ChannelInv
  <2>2. /\ worker \in {"report", "command", "reading", "sending", "joining", "waiting",
                       "unmount", "finish", "verdict", "gone"}
        /\ current \in DOMAIN Commands /\ result \in {"ok", "error"}
        /\ child \in {"none", "running", "success", "failure"}
        /\ succeeded \in 0..Len(Commands)
    BY StreamAssumption DEF IInv, WorkerInv, Streaming, Ending
  <2>3. /\ done \in BOOLEAN /\ ticker \in {"check", "asleep", "sending", "gone"}
        /\ heir \in BOOLEAN /\ beat \in BOOLEAN
    BY DEF IInv, FlagsInv
  <2>4. /\ want \in Pipe \cup {"none"}
        /\ pipe \in [Pipe -> Seq(Line)] /\ \A p \in Pipe : Len(pipe[p]) <= PipeSize
        /\ reader \in [Pipe -> {"reading", "closed", "broken"}]
    BY DEF IInv, PipeInv
  <2>5. /\ written \in [Pipe -> Nat] /\ recorded \in [Pipe -> Nat]
        /\ \A p \in Pipe : written[p] \in 0..MaxLines /\ recorded[p] \in 0..MaxLines
    <3>1. /\ written \in [Pipe -> Nat] /\ recorded \in [Pipe -> Nat] /\ pipe \in [Pipe -> Seq(Line)]
          /\ written["out"] + written["err"] <= MaxLines
          /\ \A p \in Pipe : recorded[p] + Len(pipe[p]) <= written[p]
      BY DEF IInv, PipeInv
    <3>2. \A p \in Pipe : written[p] <= MaxLines
      BY <3>1, StreamAssumption DEF Pipe
    <3>3. \A p \in Pipe : Len(pipe[p]) \in Nat
      BY <3>1
    <3> QED BY <3>1, <3>2, <3>3, StreamAssumption
  <2>6. written \in [Pipe -> 0..MaxLines] /\ recorded \in [Pipe -> 0..MaxLines]
    BY <2>5
  <2>7. tail \in Seq(Pipe \X (1..MaxLines)) /\ Len(tail) <= TailSize
    <3>1. /\ tail \in Seq(Pipe \X Nat) /\ Len(tail) <= TailSize
          /\ \A i \in 1..Len(tail) : tail[i][2] \in 1..recorded[tail[i][1]]
      BY DEF IInv, TailInv, HoldsLast
    <3>2. \A i \in 1..Len(tail) : tail[i] \in Pipe \X (1..MaxLines)
      <4> SUFFICES ASSUME NEW i \in 1..Len(tail) PROVE tail[i] \in Pipe \X (1..MaxLines)
        OBVIOUS
      <4>1. tail[i] \in Pipe \X Nat /\ tail[i][2] \in 1..recorded[tail[i][1]]
        BY <3>1
      <4>2. tail[i][1] \in Pipe /\ recorded[tail[i][1]] \in 0..MaxLines
        BY <2>5, <4>1
      <4>3. tail[i][2] \in 1..MaxLines
        BY <4>1, <4>2, StreamAssumption
      <4> QED BY <4>1, <4>3
    <3> QED BY <3>1, <3>2, SMTT(30)
  <2> QED BY <2>1, <2>2, <2>3, <2>4, <2>6, <2>7 DEF TypeOK
<1> QED BY <1>1, Invariant, PTL

\* A client is told "installed" only when every command has succeeded, and
\* "failed" only when one has not, however messages, ticks and pipes interleave.
THEOREM TruthfulVerdictAlways == Spec => []TruthfulVerdict
<1>1. IInv => TruthfulVerdict
  BY DEF IInv, ChannelInv, WorkerInv, Ending, TruthfulVerdict
<1> QED BY <1>1, Invariant, PTL

\* The detail of an error is the end of what the failed child printed.
THEOREM ErrorDetailCompleteAlways == Spec => []ErrorDetailComplete
<1>1. IInv => ErrorDetailComplete
  <2> SUFFICES ASSUME IInv, result = "error", child = "failure",
                      NEW p \in Pipe, reader[p] # "broken"
               PROVE  LET kept == {k \in 1..MaxLines : Contains(tail, <<p, k>>)}
                      IN  /\ \A k \in kept : k..written[p] \subseteq kept
                          /\ Len(tail) < TailSize => 1..written[p] \subseteq kept
    BY DEF ErrorDetailComplete
  <2> DEFINE kept == {k \in 1..MaxLines : Contains(tail, <<p, k>>)}
  <2>1. recorded[p] = written[p] /\ written[p] \in Nat /\ written[p] <= MaxLines
    <3>1. worker \in Ending
      BY DEF IInv, WorkerInv
    <3>2. reader[p] = "closed"
      BY <3>1 DEF IInv, ReaderInv, PipeInv, Ending, Pipe
    <3>3. recorded[p] = written[p]
      BY <3>2 DEF IInv, PipeInv
    <3>4. written["out"] \in Nat /\ written["err"] \in Nat /\ written["out"] + written["err"] <= MaxLines
      BY DEF IInv, PipeInv, Pipe
    <3> QED BY <3>3, <3>4, StreamAssumption DEF Pipe
  <2>2. \A k \in kept : k \in 1..MaxLines /\ \E i \in 1..Len(tail) : tail[i] = <<p, k>>
    BY DEF Contains
  <2>3. ASSUME NEW k \in 1..written[p], \E i \in 1..Len(tail) : tail[i] = <<p, k>>
        PROVE  k \in kept
    BY <2>1, <2>3, StreamAssumption DEF Contains
  <2> HIDE DEF kept
  <2>4. ASSUME NEW k \in kept, NEW l \in k..written[p] PROVE l \in kept
    <3>1. PICK i \in 1..Len(tail) : tail[i] = <<p, k>>
      BY <2>2
    <3>2. k \in 1..MaxLines /\ tail[i][1] = p /\ tail[i][2] = k
      BY <2>2, <3>1
    <3>3. l \in Nat /\ k <= l /\ l <= recorded[p] /\ l \in 1..written[p]
      BY <2>1, <3>2
    <3>4. \E j \in 1..Len(tail) : tail[j] = <<p, l>>
      BY <3>2, <3>3 DEF IInv, TailInv, HoldsLast
    <3> QED BY <2>3, <3>3, <3>4
  <2>5. ASSUME Len(tail) < TailSize, NEW k \in 1..written[p] PROVE k \in kept
    <3>1. \E j \in 1..Len(tail) : tail[j] = <<p, k>>
      BY <2>1, <2>5 DEF IInv, TailInv, HoldsAll
    <3> QED BY <2>3, <3>1
  <2> QED BY <2>4, <2>5 DEF kept
<1> QED BY <1>1, Invariant, PTL

\* A step gives the client its verdict, or one more command succeeds, or neither.
LEMMA OneThingAtATime ==
    ASSUME IInv, [Next]_vars
    PROVE  \/ UNCHANGED <<client, succeeded>>
           \/ client = "reading" /\ client' \in {"ok", "failed", "left"} /\ UNCHANGED succeeded
           \/ worker # "gone" /\ succeeded' = succeeded + 1 /\ UNCHANGED client
<1>1. CASE Worker \/ ReadStderr \/ Ticker
  BY <1>1 DEF Worker, Report, Spawn, ReadStdout, ForwardLine, Join, Wait, Unmount, Finish, Verdict,
       ReadStderr, Ticker, CheckDone, WakeUp, Tick
<1>2. CASE (\E p \in Pipe : ChildWants(p)) \/ ChildWrites \/ HeirEnds
  BY <1>2 DEF ChildWants, ChildWrites, HeirEnds
<1>3. CASE CommandEnds
  BY <1>3 DEF CommandEnds
<1>4. CASE ChildExits
  BY <1>4 DEF ChildExits, IInv, WorkerInv, Streaming
<1>5. CASE ClientReads
  <2>1. channel # <<>> /\ channel \in Seq(Message)
    BY <1>5 DEF ClientReads, IInv, ChannelInv
  <2>2. Head(channel) \in Message
    BY <2>1
  <2> QED BY <1>5, <2>2 DEF ClientReads, Message
<1>6. CASE ClientLeaves
  BY <1>6 DEF ClientLeaves
<1>7. CASE UNCHANGED vars
  BY <1>7 DEF vars
<1> QED BY <1>1, <1>2, <1>3, <1>4, <1>5, <1>6, <1>7 DEF Next

\* The stream implements the steps of Promise: what travels from the worker to
\* the client is one verdict, told once, and told of what is there.
THEOREM TellsAsPromisedAlways == Spec => TellsAsPromised
<1>1. IInv /\ IInv' /\ [Next]_vars => [P!Next]_(P!promised)
  <2> SUFFICES ASSUME IInv, IInv', [Next]_vars PROVE [P!Next]_(P!promised)
    OBVIOUS
  <2>1. CASE UNCHANGED <<client, succeeded>>
    BY <2>1 DEF P!promised
  <2>2. CASE client = "reading" /\ client' = "ok" /\ UNCHANGED succeeded
    <3>1. succeeded = Len(Commands)
      BY <2>2 DEF IInv, ChannelInv, WorkerInv, Ending
    <3>2. P!Succeed
      BY <2>2, <3>1 DEF P!Succeed
    <3> QED BY <3>2 DEF P!Next
  <2>3. CASE client = "reading" /\ client' = "failed" /\ UNCHANGED succeeded
    <3>1. P!Fail
      BY <2>3 DEF P!Fail
    <3> QED BY <3>1 DEF P!Next
  <2>4. CASE client = "reading" /\ client' = "left" /\ UNCHANGED succeeded
    BY <2>4 DEF P!promised
  <2>5. CASE worker # "gone" /\ succeeded' = succeeded + 1 /\ UNCHANGED client
    <3>1. client \notin {"ok", "failed"}
      BY <2>5 DEF IInv, ChannelInv
    <3>2. succeeded \in Nat /\ succeeded' <= Len(Commands) /\ Len(Commands) \in Nat
      <4>1. Len(Commands) \in Nat
        BY StreamAssumption
      <4>2. /\ worker' \in {"report", "command"} \cup Streaming \cup Ending /\ current' \in 1..Len(Commands)
            /\ result' \in {"ok", "error"} /\ succeeded' \in Nat
            /\ worker' \in {"report", "command"} => succeeded' = current' - 1
            /\ worker' \in Streaming => succeeded' = current' \/ succeeded' = current' - 1
            /\ worker' \in Ending => succeeded' = Len(Commands) \/ succeeded' < Len(Commands)
        BY DEF IInv, WorkerInv
      <4>3. current' <= Len(Commands) /\ current' \in Nat
        BY <4>1, <4>2
      <4>4. \/ succeeded' = current' - 1 \/ succeeded' = current'
            \/ succeeded' = Len(Commands) \/ succeeded' < Len(Commands)
        BY <4>2, Zenon
      <4>5. succeeded' \in Nat
        BY <4>2
      <4>6. PICK n \in Nat, c \in Nat, a \in Nat : n = Len(Commands) /\ c = current' /\ a = succeeded'
        BY <4>1, <4>3, <4>5, Zenon
      <4>7. c <= n /\ (a = c - 1 \/ a = c \/ a = n \/ a < n)
        BY <4>3, <4>4, <4>6, Zenon
      <4>8. a <= n
        BY <4>7
      <4>9. succeeded' <= Len(Commands)
        BY <4>6, <4>8, Zenon
      <4> QED BY <4>1, <4>9 DEF IInv, WorkerInv
    <3>3. succeeded # Len(Commands)
      BY <2>5, <3>2
    <3>4. CASE succeeded' = Len(Commands)
      <4>1. P!Advance
        BY <2>5, <3>1, <3>3, <3>4 DEF P!Advance
      <4> QED BY <4>1 DEF P!Next
    <3>5. CASE succeeded' # Len(Commands)
      BY <2>5, <3>3, <3>5 DEF P!promised
    <3> QED BY <3>4, <3>5
  <2> QED BY <2>1, <2>2, <2>3, <2>4, <2>5, OneThingAtATime
<1> QED BY <1>1, Invariant, PTL DEF Spec, TellsAsPromised

=============================================================================
