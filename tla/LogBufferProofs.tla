--------------------------- MODULE LogBufferProofs ---------------------------
(***************************************************************************)
(* Proofs about LogBuffer, for any number of pipes and lines, any size of  *)
(* the buffer and any number of transactions that fail.                    *)
(***************************************************************************)
EXTENDS LogBuffer, FiniteSetTheorems, TLAPS

(* The fairness-free next-state relation of the specification. *)
Step == BufferNext \/ BufferOver

(* An entry of a sequence of lines is a line. *)
LEMMA RangeOfLines ==
  ASSUME NEW rows \in Seq(Line)
  PROVE  Range(rows) \subseteq Line
  BY DEF Range

(* The effect of _RunLogBuffer.add, whichever thread calls it, on the      *)
(* variables it changes.                                                   *)
LEMMA AddPreservesType ==
  ASSUME BufferTypeOK, NEW w \in Writers, Add(w)
  PROVE  /\ logged' \in [Writers -> Nat]
         /\ pc' \in [Writers -> {"idle", "write", "publish"}]
         /\ batch' \in [Writers -> Seq(Line)]
         /\ buf' \in Seq(Line) /\ Len(buf') < FlushLines
         /\ timer' \in {"none", "armed", "fired"}
<1> DEFINE full == Append(buf, <<w, logged[w] + 1>>)
<1>1. full \in Seq(Line) BY DEF BufferTypeOK, Line
<1>2. logged' \in [Writers -> Nat] BY DEF Add, BufferTypeOK
<1>3. FlushLines \in Nat \ {0} BY FlushAssumption
<1>4. Len(full) \in Nat BY <1>1
<1>5. CASE Len(full) >= FlushLines
  <2>1. /\ buf' = <<>> /\ batch' = [batch EXCEPT ![w] = full]
        /\ pc' = [pc EXCEPT ![w] = "write"] /\ timer' = timer
    BY <1>5 DEF Add
  <2> QED BY <1>1, <1>2, <1>3, <2>1 DEF BufferTypeOK
<1>6. CASE ~(Len(full) >= FlushLines)
  <2>1. /\ buf' = full /\ batch' = batch
        /\ pc' = [pc EXCEPT ![w] = "publish"]
        /\ timer' = IF timer = "none" THEN "armed" ELSE timer
    BY <1>6 DEF Add
  <2>2. Len(full) < FlushLines BY <1>3, <1>4, <1>6
  <2> HIDE DEF full
  <2> QED BY <1>1, <1>2, <2>1, <2>2 DEF BufferTypeOK
<1> QED BY <1>5, <1>6

LEMMA WritePreservesType ==
  ASSUME BufferTypeOK, NEW rows \in Seq(Line), WriteRows(rows)
  PROVE  /\ table' \in Seq(Line) /\ lost' \subseteq Line
         /\ faults' \in 0..MaxDbFaults
<1>1. Range(rows) \subseteq Line BY RangeOfLines
<1>2. faults \in 0..MaxDbFaults /\ table \in Seq(Line) /\ lost \subseteq Line
  BY DEF BufferTypeOK
<1>3. CASE table' = table \o rows /\ UNCHANGED <<lost, faults>>
  <2>1. table \o rows \in Seq(Line) BY <1>2
  <2> QED BY <1>2, <1>3, <2>1
<1>4. CASE /\ faults > 0 /\ faults' = faults - 1
           /\ lost' = lost \cup Range(rows) /\ UNCHANGED table
  BY <1>1, <1>2, <1>4, FaultsAssumption
<1> QED BY <1>3, <1>4 DEF WriteRows

LEMMA InitType == BufferInit => BufferTypeOK
<1> SUFFICES ASSUME BufferInit PROVE BufferTypeOK
  OBVIOUS
<1>1. <<>> \in Seq(Line) /\ Len(<<>>) < FlushLines BY FlushAssumption
<1>2. /\ logged \in [Writers -> Nat] /\ pc \in [Writers -> {"idle", "write", "publish"}]
      /\ batch \in [Writers -> Seq(Line)]
  BY DEF BufferInit
<1>3. faults \in 0..MaxDbFaults BY FaultsAssumption DEF BufferInit
<1> QED BY <1>1, <1>2, <1>3 DEF BufferInit, BufferTypeOK

LEMMA StepType ==
  ASSUME BufferTypeOK, [Step]_bufferVars
  PROVE  BufferTypeOK'
<1> USE FlushAssumption, FaultsAssumption
<1>1. ASSUME NEW w \in Writers, Write(w) PROVE BufferTypeOK'
  <2>1. batch[w] \in Seq(Line) BY DEF BufferTypeOK
  <2>2. table' \in Seq(Line) /\ lost' \subseteq Line /\ faults' \in 0..MaxDbFaults
    BY <1>1, <2>1, WritePreservesType DEF Write
  <2> QED BY <1>1, <2>2 DEF Write, BufferTypeOK
<1>2. ASSUME NEW w \in Writers, Read(w) PROVE BufferTypeOK'
  BY <1>2, AddPreservesType DEF Read, Add, BufferTypeOK
<1>3. ASSUME NEW w \in Writers, EndOfFile(w) PROVE BufferTypeOK'
  BY <1>3 DEF EndOfFile, BufferTypeOK
<1>4. ASSUME NEW w \in Writers, Publish(w) PROVE BufferTypeOK'
  BY <1>4 DEF Publish, BufferTypeOK
<1>5. CASE TimerFires BY <1>5 DEF TimerFires, BufferTypeOK
<1>6. CASE TimedFlush BY <1>6 DEF TimedFlush, BufferTypeOK
<1>7. CASE TimedWrite
  <2>1. PICK rows \in flushing : WriteRows(rows) /\ flushing' = flushing \ {rows}
    BY <1>7 DEF TimedWrite
  <2>2. rows \in Seq(Line) BY <2>1 DEF BufferTypeOK
  <2>3. table' \in Seq(Line) /\ lost' \subseteq Line /\ faults' \in 0..MaxDbFaults
    BY <2>1, <2>2, WritePreservesType
  <2> QED BY <1>7, <2>1, <2>3 DEF TimedWrite, BufferTypeOK
<1>8. CASE SpawnFails BY <1>8 DEF SpawnFails, EndRun, BufferTypeOK
<1>9. CASE Joined BY <1>9 DEF Joined, EndRun, BufferTypeOK
<1>10. CASE TimedOut BY <1>10 DEF TimedOut, EndRun, BufferTypeOK
<1>11. CASE LogEnding
  <2>1. "main" \in Writers BY DEF Writers
  <2> QED BY <1>11, <2>1, AddPreservesType DEF LogEnding, Add, BufferTypeOK
<1>12. CASE Close BY <1>12 DEF Close, BufferTypeOK, Writers
<1>13. CASE Finish
  <2>1. finished' \in BOOLEAN
    <3>1. finished' = TRUE \/ finished' = finished BY <1>13, Zenon DEF Finish
    <3> QED BY <3>1 DEF BufferTypeOK
  <2>2. faults' \in 0..MaxDbFaults
    BY <1>13 DEF Finish, EndRun, BufferTypeOK
  <2>3. /\ main' \in {"run", "log", "close", "finish", "done", "returned"}
        /\ how' \in {"none", "exit", "cancelled", "timeout", "error"}
    BY <1>13 DEF Finish, EndRun, BufferTypeOK
  <2>4. UNCHANGED <<logged, eof, pc, batch, buf, timer, stray, waking, flushing, table, lost>>
    BY <1>13 DEF Finish
  <2> QED BY <2>1, <2>2, <2>3, <2>4 DEF BufferTypeOK
<1>14. CASE PublishDone BY <1>14 DEF PublishDone, BufferTypeOK
<1>15. CASE UNCHANGED bufferVars BY <1>15 DEF bufferVars, BufferTypeOK
<1> QED
  BY <1>1, <1>2, <1>3, <1>4, <1>5, <1>6, <1>7, <1>8, <1>9, <1>10, <1>11, <1>12, <1>13, <1>14, <1>15
  DEF Step, BufferNext, BufferOver, Silent

(* Every reachable state of the log buffer has the declared shape; above   *)
(* all, the buffer holds less than FlushLines lines when its lock is free. *)
THEOREM BufferTypeCorrect == BufferSpec => []BufferTypeOK
<1>1. BufferInit => BufferTypeOK BY InitType
<1>2. BufferTypeOK /\ [BufferNext \/ BufferOver]_bufferVars => BufferTypeOK'
  BY StepType DEF Step
<1> QED BY <1>1, <1>2, PTL DEF BufferSpec

-----------------------------------------------------------------------------
(* The lines in the buffer are watched by a timer *)

LEMMA InitWatched == BufferInit => BufferWatched
  BY DEF BufferInit, BufferWatched

LEMMA AddPreservesWatched ==
  ASSUME BufferTypeOK, BufferWatched, NEW w \in Writers, Add(w)
  PROVE  BufferWatched'
<1> DEFINE full == Append(buf, <<w, logged[w] + 1>>)
<1>1. waking' = waking \/ UNCHANGED waking BY DEF Add
<1>2. CASE Len(full) >= FlushLines
  BY <1>2 DEF Add, BufferWatched
<1>3. CASE ~(Len(full) >= FlushLines)
  <2>1. timer' = (IF timer = "none" THEN "armed" ELSE timer) /\ waking' = waking
    BY <1>3 DEF Add
  <2> QED BY <2>1 DEF BufferWatched, BufferTypeOK
<1> QED BY <1>2, <1>3

LEMMA StepWatched ==
  ASSUME BufferTypeOK, BufferWatched, [Step]_bufferVars
  PROVE  BufferWatched'
<1>1. ASSUME NEW w \in Writers, Write(w) \/ EndOfFile(w) \/ Publish(w) PROVE BufferWatched'
  BY <1>1 DEF Write, EndOfFile, Publish, BufferWatched
<1>2. ASSUME NEW w \in Writers, Read(w) PROVE BufferWatched'
  BY <1>2, AddPreservesWatched DEF Read
<1>3. CASE TimerFires BY <1>3 DEF TimerFires, BufferWatched, BufferTypeOK
<1>4. CASE TimedFlush BY <1>4 DEF TimedFlush, BufferWatched
<1>5. CASE TimedWrite BY <1>5 DEF TimedWrite, BufferWatched
<1>6. CASE SpawnFails \/ Joined \/ TimedOut
  BY <1>6 DEF SpawnFails, Joined, TimedOut, BufferWatched
<1>7. CASE LogEnding
  <2>1. "main" \in Writers BY DEF Writers
  <2> QED BY <1>7, <2>1, AddPreservesWatched DEF LogEnding
<1>8. CASE Close BY <1>8 DEF Close, BufferWatched
<1>9. CASE Finish \/ PublishDone BY <1>9 DEF Finish, PublishDone, BufferWatched
<1>10. CASE UNCHANGED bufferVars BY <1>10 DEF bufferVars, BufferWatched
<1> QED
  BY <1>1, <1>2, <1>3, <1>4, <1>5, <1>6, <1>7, <1>8, <1>9, <1>10
  DEF Step, BufferNext, BufferOver, Silent

(* Whatever the timers, the readers and close() do, a line in the buffer   *)
(* has a timer that will flush it; this is why lines that readers log      *)
(* after close() are not stuck.                                            *)
THEOREM LinesAreWatched == BufferSpec => []BufferWatched
<1>1. BufferInit => BufferTypeOK /\ BufferWatched BY InitType, InitWatched
<1>2. BufferTypeOK /\ BufferWatched /\ [BufferNext \/ BufferOver]_bufferVars
        => (BufferTypeOK /\ BufferWatched)'
  BY StepType, StepWatched DEF Step
<1> QED BY <1>1, <1>2, PTL DEF BufferSpec

-----------------------------------------------------------------------------
(* Sequences of lines, and of messages *)

LEMMA EmptySequence == Range(<<>>) = {} /\ IsInjective(<<>>)
  BY DEF Range, IsInjective

LEMMA AppendRange ==
  ASSUME NEW S, NEW s \in Seq(S), NEW line \in S
  PROVE  /\ Range(Append(s, line)) = Range(s) \cup {line}
         /\ IsInjective(s) /\ line \notin Range(s) => IsInjective(Append(s, line))
<1> DEFINE t == Append(s, line)
<1>1. /\ DOMAIN t = 1..Len(s) + 1 /\ DOMAIN s = 1..Len(s) /\ Len(s) \in Nat
      /\ t[Len(s) + 1] = line
      /\ \A i \in 1..Len(s) : t[i] = s[i]
  OBVIOUS
<1> HIDE DEF t
<1>2. Range(t) = Range(s) \cup {line}
  <2>1. \A x \in Range(t) : x \in Range(s) \cup {line} BY <1>1 DEF Range
  <2>2. \A x \in Range(s) : x \in Range(t) BY <1>1 DEF Range
  <2>3. line \in Range(t)
    <3>1. Len(s) + 1 \in DOMAIN t BY <1>1
    <3> QED BY <1>1, <3>1 DEF Range
  <2> QED BY <2>1, <2>2, <2>3
<1>3. ASSUME IsInjective(s), line \notin Range(s) PROVE IsInjective(t)
  BY <1>1, <1>3 DEF IsInjective, Range
<1> QED BY <1>2, <1>3 DEF t

LEMMA ConcatRange ==
  ASSUME NEW s \in Seq(Line), NEW t \in Seq(Line)
  PROVE  /\ Range(s \o t) = Range(s) \cup Range(t)
         /\ IsInjective(s) /\ IsInjective(t) /\ Apart(Range(s), Range(t)) => IsInjective(s \o t)
<1> DEFINE u == s \o t
<1>1. /\ DOMAIN u = 1..Len(s) + Len(t)
      /\ DOMAIN s = 1..Len(s) /\ DOMAIN t = 1..Len(t) /\ Len(s) \in Nat /\ Len(t) \in Nat
      /\ \A i \in 1..Len(s) : u[i] = s[i]
      /\ \A i \in Len(s) + 1 .. Len(s) + Len(t) : u[i] = t[i - Len(s)]
  OBVIOUS
<1> HIDE DEF u
<1>2. \A i \in DOMAIN t : i + Len(s) \in DOMAIN u /\ u[i + Len(s)] = t[i]
  BY <1>1
<1>3. \A i \in DOMAIN u : \/ i \in DOMAIN s /\ u[i] = s[i]
                          \/ i - Len(s) \in DOMAIN t /\ u[i] = t[i - Len(s)]
  BY <1>1
<1>4. Range(u) = Range(s) \cup Range(t)
  <2>1. \A x \in Range(u) : x \in Range(s) \cup Range(t) BY <1>3 DEF Range
  <2>2. \A x \in Range(s) : x \in Range(u) BY <1>1 DEF Range
  <2>3. \A x \in Range(t) : x \in Range(u) BY <1>2 DEF Range
  <2> QED BY <2>1, <2>2, <2>3
<1>5. ASSUME IsInjective(s), IsInjective(t), Apart(Range(s), Range(t)) PROVE IsInjective(u)
  <2>1. \A i \in DOMAIN s, j \in DOMAIN t : s[i] # t[j] BY <1>5 DEF Apart, Range
  <2> SUFFICES ASSUME NEW i \in DOMAIN u, NEW j \in DOMAIN u, u[i] = u[j] PROVE i = j
    BY DEF IsInjective
  <2>2. CASE i \in 1..Len(s) /\ j \in 1..Len(s) BY <1>1, <1>5, <2>2 DEF IsInjective
  <2>3. CASE i \notin 1..Len(s) /\ j \notin 1..Len(s)
    <3>1. /\ i - Len(s) \in DOMAIN t /\ j - Len(s) \in DOMAIN t
          /\ t[i - Len(s)] = t[j - Len(s)]
      BY <1>1, <2>3
    <3>2. i - Len(s) = j - Len(s) BY <1>5, <3>1 DEF IsInjective
    <3> QED BY <1>1, <3>2
  <2>4. CASE i \in 1..Len(s) <=> j \notin 1..Len(s) BY <1>1, <1>3, <2>1, <2>4
  <2> QED BY <2>2, <2>3, <2>4
<1> QED BY <1>4, <1>5 DEF u

-----------------------------------------------------------------------------
(* Where the threads are *)

LEMMA InitThreads == BufferInit => ThreadInv
  BY StreamsAssumption DEF BufferInit, ThreadInv, Writers

LEMMA AddPreservesBatches ==
  ASSUME BufferTypeOK, ThreadInv, NEW w \in Writers, pc[w] = "idle", Add(w)
  PROVE  /\ pc'[w] \in {"write", "publish"} /\ logged'[w] # 0
         /\ \A v \in Writers \ {w} : pc'[v] = pc[v] /\ logged'[v] = logged[v]
         /\ \A v \in Writers : pc'[v] # "write" => batch'[v] = <<>>
<1> DEFINE full == Append(buf, <<w, logged[w] + 1>>)
<1>1. logged' = [logged EXCEPT ![w] = logged[w] + 1] /\ logged[w] \in Nat
  BY DEF Add, BufferTypeOK
<1>2. CASE Len(full) >= FlushLines
  <2>1. batch' = [batch EXCEPT ![w] = full] /\ pc' = [pc EXCEPT ![w] = "write"]
    BY <1>2 DEF Add
  <2> HIDE DEF full
  <2> QED BY <1>1, <2>1 DEF BufferTypeOK, ThreadInv
<1>3. CASE ~(Len(full) >= FlushLines)
  <2>1. batch' = batch /\ pc' = [pc EXCEPT ![w] = "publish"] BY <1>3 DEF Add
  <2> HIDE DEF full
  <2> QED BY <1>1, <2>1 DEF BufferTypeOK, ThreadInv
<1> QED BY <1>2, <1>3

LEMMA StepThreads ==
  ASSUME BufferTypeOK, ThreadInv, [Step]_bufferVars
  PROVE  ThreadInv'
<1> USE StreamsAssumption
<1>1. ASSUME NEW w \in Writers, Write(w) PROVE ThreadInv'
  <2>1. /\ pc[w] = "write" /\ batch' = [batch EXCEPT ![w] = <<>>]
        /\ pc' = [pc EXCEPT ![w] = IF w = "main" /\ main = "finish" THEN "idle" ELSE "publish"]
        /\ UNCHANGED <<logged, eof, main, how>>
    BY <1>1 DEF Write
  <2>2. pc'[w] \in {"idle", "publish"} /\ \A v \in Writers \ {w} : pc'[v] = pc[v]
    BY <2>1 DEF BufferTypeOK
  <2>3. \A v \in Writers : pc'[v] # "write" => batch'[v] = <<>>
    BY <2>1 DEF BufferTypeOK, ThreadInv
  <2>4. w = "main" => /\ main \notin {"run", "log", "done", "returned"}
                      /\ main = "finish" => pc'["main"] = "idle"
    BY <2>1 DEF ThreadInv, BufferTypeOK
  <2>5. w \in Streams => logged[w] # 0 /\ w \notin eof BY <2>1 DEF ThreadInv
  <2>6. "main" \in Writers BY DEF Writers
  <2>7. \A v \in Streams : v \in Writers BY DEF Writers
  <2> QED BY <2>1, <2>2, <2>3, <2>4, <2>5, <2>6, <2>7 DEF ThreadInv
<1>2. ASSUME NEW w \in Writers, Read(w) PROVE ThreadInv'
  <2>1. /\ w \in Streams \ eof /\ pc[w] = "idle" /\ Add(w) /\ UNCHANGED <<eof, main, how>>
    BY <1>2 DEF Read
  <2>2. w # "main" /\ "main" \in Writers BY <2>1 DEF Writers
  <2>3. \A v \in Streams : v \in Writers BY DEF Writers
  <2> QED BY <2>1, <2>2, <2>3, AddPreservesBatches DEF ThreadInv
<1>3. ASSUME NEW w \in Writers, EndOfFile(w) PROVE ThreadInv'
  BY <1>3 DEF EndOfFile, ThreadInv
<1>4. ASSUME NEW w \in Writers, Publish(w) PROVE ThreadInv'
  <2>1. /\ pc[w] = "publish" /\ pc' = [pc EXCEPT ![w] = "idle"]
        /\ UNCHANGED <<logged, eof, batch, main, how>>
    BY <1>4 DEF Publish
  <2>2. pc'[w] = "idle" /\ \A v \in Writers \ {w} : pc'[v] = pc[v]
    BY <2>1 DEF BufferTypeOK
  <2>3. "main" \in Writers /\ \A v \in Streams : v \in Writers BY DEF Writers
  <2> QED BY <2>1, <2>2, <2>3 DEF ThreadInv
<1>5. CASE TimerFires \/ TimedFlush \/ TimedWrite
  BY <1>5 DEF TimerFires, TimedFlush, TimedWrite, ThreadInv
<1>6. CASE SpawnFails
  <2>1. /\ main = "run" /\ \A w \in Writers : logged[w] = 0
        /\ eof' = Streams /\ how' = "error" /\ main' = "log"
        /\ UNCHANGED <<logged, pc, batch>>
    BY <1>6 DEF SpawnFails, EndRun
  <2>2. \A v \in Streams : v \in Writers BY DEF Writers
  <2> QED BY <2>1, <2>2 DEF ThreadInv
<1>7. CASE Joined BY <1>7 DEF Joined, EndRun, ThreadInv
<1>8. CASE TimedOut BY <1>8 DEF TimedOut, EndRun, ThreadInv
<1>9. CASE LogEnding
  <2>1. "main" \in Writers /\ \A v \in Streams : v \in Writers /\ v # "main" BY DEF Writers
  <2>2. /\ main = "log" /\ main' = "close" /\ Add("main") /\ UNCHANGED <<eof, how>>
        /\ pc["main"] = "idle"
    BY <1>9 DEF LogEnding, ThreadInv
  <2> QED BY <2>1, <2>2, AddPreservesBatches DEF ThreadInv
<1>10. CASE Close
  <2>1. "main" \in Writers /\ \A v \in Streams : v \in Writers /\ v # "main" BY DEF Writers
  <2>2. /\ main = "close" /\ main' = "finish" /\ UNCHANGED <<logged, eof, how>>
        /\ batch' = [batch EXCEPT !["main"] = buf]
        /\ pc' = [pc EXCEPT !["main"] = IF buf = <<>> THEN "idle" ELSE "write"]
    BY <1>10 DEF Close
  <2>3. /\ pc'["main"] = IF buf = <<>> THEN "idle" ELSE "write"
        /\ batch'["main"] = buf
        /\ \A v \in Writers \ {"main"} : pc'[v] = pc[v] /\ batch'[v] = batch[v]
    BY <2>1, <2>2 DEF BufferTypeOK
  <2> QED BY <2>1, <2>2, <2>3 DEF ThreadInv
<1>11. CASE Finish
  <2>1. /\ pc["main"] = "idle" /\ main = "finish" /\ UNCHANGED <<logged, eof, pc, batch>>
    BY <1>11 DEF Finish
  <2>2. \/ how' = how /\ main' \in {"done", "returned"}
        \/ how' = "error" /\ main' = "log"
    BY <1>11 DEF Finish, EndRun
  <2> QED BY <2>1, <2>2 DEF ThreadInv
<1>12. CASE PublishDone BY <1>12 DEF PublishDone, ThreadInv
<1>13. CASE UNCHANGED bufferVars BY <1>13 DEF bufferVars, ThreadInv
<1> QED
  BY <1>1, <1>2, <1>3, <1>4, <1>5, <1>6, <1>7, <1>8, <1>9, <1>10, <1>11, <1>12, <1>13
  DEF Step, BufferNext, BufferOver, Silent

-----------------------------------------------------------------------------
(* Where the lines are *)

LEMMA InitLines == ASSUME BufferInit PROVE LinesInv
<1>1. /\ \A w \in Writers : logged[w] = 0 /\ batch[w] = <<>>
      /\ buf = <<>> /\ table = <<>> /\ flushing = {} /\ lost = {}
  BY DEF BufferInit
<1>2. Held = {} BY <1>1, EmptySequence DEF Held
<1>3. LoggedLines = {} BY <1>1 DEF LoggedLines
<1>4. NoRepeats BY <1>1, EmptySequence DEF NoRepeats
<1>5. AllApart BY <1>1, EmptySequence DEF AllApart, Apart
<1> QED BY <1>2, <1>3, <1>4, <1>5 DEF LinesInv

LEMMA LinesApart == ASSUME LinesInv PROVE AllApart
  BY DEF LinesInv

LEMMA SameLines ==
  ASSUME LinesInv, UNCHANGED <<logged, batch, buf, flushing, table, lost>>
  PROVE  LinesInv'
<1>1. Held' = Held /\ LoggedLines' = LoggedLines BY DEF Held, LoggedLines
<1>2. NoRepeats' BY DEF LinesInv, NoRepeats
<1>3. AllApart' BY DEF LinesInv, AllApart
<1> QED BY <1>1, <1>2, <1>3 DEF LinesInv

(* A line that is in the batch of a thread, or of a timer, or in the buffer, *)
(* is nowhere else; this is what AllApart says of one line.                  *)
LEMMA TakenRows ==
  ASSUME LinesInv, BufferTypeOK
  PROVE  /\ \A w \in Writers : batch[w] \in Seq(Line)
         /\ \A rows \in flushing : rows \in Seq(Line)
         /\ buf \in Seq(Line) /\ table \in Seq(Line)
         /\ NoRepeats /\ AllApart /\ Held = LoggedLines
  BY DEF LinesInv, BufferTypeOK

(* add: the new line, which is nowhere, joins the buffer, or the lines of   *)
(* the buffer and itself become the batch of the thread.                    *)
LEMMA AddLines ==
  ASSUME BufferTypeOK, LinesInv, NEW w \in Writers, batch[w] = <<>>, Add(w)
  PROVE  LinesInv'
<1> DEFINE line == <<w, logged[w] + 1>>
           full == Append(buf, line)
<1>1. /\ logged' = [logged EXCEPT ![w] = logged[w] + 1] /\ logged[w] \in Nat
      /\ UNCHANGED <<flushing, table, lost>>
  BY DEF Add, BufferTypeOK
<1>2. line \in Line /\ line \notin LoggedLines BY <1>1 DEF Line, LoggedLines
<1>3. LoggedLines' = LoggedLines \cup {line}
  <2>1. \A v \in Writers : logged'[v] = IF v = w THEN logged[w] + 1 ELSE logged[v]
    BY <1>1 DEF BufferTypeOK
  <2>2. 1..logged[w] + 1 = 1..logged[w] \cup {logged[w] + 1} BY <1>1
  <2>3. \A x : x \in LoggedLines' <=> \E v \in Writers : x \in {v} \X (1..logged'[v])
    BY DEF LoggedLines
  <2>4. \A x : x \in LoggedLines <=> \E v \in Writers : x \in {v} \X (1..logged[v])
    BY DEF LoggedLines
  <2>5. \A x \in LoggedLines' : x \in LoggedLines \/ x = line BY <2>1, <2>2, <2>3, <2>4
  <2>6. \A x \in LoggedLines : x \in LoggedLines'
    BY <2>1, <2>2, <2>3, <2>4
  <2>7. line \in LoggedLines' BY <2>1, <2>2, <2>3
  <2> QED BY <2>5, <2>6, <2>7
<1>4. /\ line \notin Range(buf) /\ line \notin Range(table) /\ line \notin lost
      /\ \A v \in Writers : line \notin Range(batch[v])
      /\ \A rows \in flushing : line \notin Range(rows)
  <2> HIDE DEF line
  <2> QED BY <1>2, TakenRows DEF Held
<1>5. Range(full) = Range(buf) \cup {line} /\ IsInjective(full)
  <2>1. IsInjective(buf) BY TakenRows DEF NoRepeats
  <2> HIDE DEF line
  <2> QED BY <1>2, <1>4, <2>1, AppendRange, TakenRows
<1>6. Range(batch[w]) = {} BY EmptySequence
<1>7. CASE buf' = <<>> /\ batch' = [batch EXCEPT ![w] = full]
  <2>1. /\ \A v \in Writers : batch'[v] = IF v = w THEN full ELSE batch[v]
        /\ buf' = <<>> /\ Range(buf') = {} /\ IsInjective(buf')
    BY <1>7, EmptySequence DEF BufferTypeOK
  <2> HIDE DEF line, full
  <2>2. Held' = Held \cup {line} BY <1>1, <1>5, <1>6, <2>1 DEF Held
  <2>3. NoRepeats' BY <1>1, <1>5, <2>1, TakenRows DEF NoRepeats
  <2>4. AllApart'
    <3>1. (Apart(Range(buf), Range(table)) /\ Apart(Range(buf), lost) /\ Apart(Range(table), lost))'
      BY <1>1, <1>4, <1>5, <2>1, LinesApart DEF AllApart, Apart
    <3>2. \A v \in Writers : /\ Apart(Range(batch'[v]), Range(buf'))
                            /\ Apart(Range(batch'[v]), Range(table'))
                            /\ Apart(Range(batch'[v]), lost')
      BY <1>1, <1>4, <1>5, <2>1, LinesApart DEF AllApart, Apart
    <3>3. \A v \in Writers : \A u \in Writers \ {v} : Apart(Range(batch'[v]), Range(batch'[u]))
      BY <1>1, <1>4, <1>5, <2>1, LinesApart DEF AllApart, Apart
    <3>4. \A v \in Writers : \A rows \in flushing' : Apart(Range(batch'[v]), Range(rows))
      BY <1>1, <1>4, <1>5, <2>1, LinesApart DEF AllApart, Apart
    <3>5. \A rows \in flushing' : /\ Apart(Range(rows), Range(buf'))
                                 /\ Apart(Range(rows), Range(table'))
                                 /\ Apart(Range(rows), lost')
                                 /\ \A other \in flushing' \ {rows} : Apart(Range(rows), Range(other))
      BY <1>1, <1>4, <1>5, <2>1, LinesApart DEF AllApart, Apart
    <3> QED BY <3>1, <3>2, <3>3, <3>4, <3>5 DEF AllApart
  <2> QED BY <1>3, <2>2, <2>3, <2>4, TakenRows DEF LinesInv
<1>8. CASE buf' = full /\ batch' = batch
  <2> HIDE DEF line, full
  <2>1. Held' = Held \cup {line} BY <1>1, <1>5, <1>8 DEF Held
  <2>2. NoRepeats' BY <1>1, <1>5, <1>8, TakenRows DEF NoRepeats
  <2>3. AllApart'
    <3>1. (Apart(Range(buf), Range(table)) /\ Apart(Range(buf), lost) /\ Apart(Range(table), lost))'
      BY <1>1, <1>4, <1>5, <1>8, LinesApart DEF AllApart, Apart
    <3>2. \A v \in Writers : /\ Apart(Range(batch'[v]), Range(buf'))
                            /\ Apart(Range(batch'[v]), Range(table'))
                            /\ Apart(Range(batch'[v]), lost')
      BY <1>1, <1>4, <1>5, <1>8, LinesApart DEF AllApart, Apart
    <3>3. \A v \in Writers : \A u \in Writers \ {v} : Apart(Range(batch'[v]), Range(batch'[u]))
      BY <1>1, <1>4, <1>5, <1>8, LinesApart DEF AllApart, Apart
    <3>4. \A v \in Writers : \A rows \in flushing' : Apart(Range(batch'[v]), Range(rows))
      BY <1>1, <1>4, <1>5, <1>8, LinesApart DEF AllApart, Apart
    <3>5. \A rows \in flushing' : /\ Apart(Range(rows), Range(buf'))
                                 /\ Apart(Range(rows), Range(table'))
                                 /\ Apart(Range(rows), lost')
                                 /\ \A other \in flushing' \ {rows} : Apart(Range(rows), Range(other))
      BY <1>1, <1>4, <1>5, <1>8, LinesApart DEF AllApart, Apart
    <3> QED BY <3>1, <3>2, <3>3, <3>4, <3>5 DEF AllApart
  <2> QED BY <1>3, <2>1, <2>2, <2>3, TakenRows DEF LinesInv
<1>9. \/ buf' = <<>> /\ batch' = [batch EXCEPT ![w] = full]
      \/ buf' = full /\ batch' = batch
  BY DEF Add
<1> QED BY <1>7, <1>8, <1>9

(* _write: the rows go to the end of the table, or are lost. *)
LEMMA WriteMovesRows ==
  ASSUME BufferTypeOK, LinesInv, NEW rows \in Seq(Line), IsInjective(rows), WriteRows(rows),
         Apart(Range(rows), Range(table))
  PROVE  \/ lost' = lost /\ Range(table') = Range(table) \cup Range(rows) /\ IsInjective(table')
         \/ table' = table /\ lost' = lost \cup Range(rows)
<1>1. CASE table' = table \o rows /\ UNCHANGED lost
  <2>1. IsInjective(table) /\ table \in Seq(Line) BY TakenRows DEF NoRepeats
  <2>2. Apart(Range(table), Range(rows)) BY DEF Apart
  <2> QED BY <1>1, <2>1, <2>2, ConcatRange
<1>2. CASE lost' = lost \cup Range(rows) /\ UNCHANGED table BY <1>2
<1> QED BY <1>1, <1>2 DEF WriteRows

LEMMA WriteLines ==
  ASSUME BufferTypeOK, LinesInv, NEW w \in Writers, Write(w)
  PROVE  LinesInv'
<1>1. /\ WriteRows(batch[w]) /\ batch' = [batch EXCEPT ![w] = <<>>]
      /\ UNCHANGED <<logged, buf, flushing>>
  BY DEF Write
<1>2. \/ /\ lost' = lost /\ Range(table') = Range(table) \cup Range(batch[w])
         /\ IsInjective(table')
      \/ table' = table /\ lost' = lost \cup Range(batch[w])
  BY <1>1, TakenRows, WriteMovesRows DEF NoRepeats, AllApart
<1>3. \A v \in Writers : batch'[v] = IF v = w THEN <<>> ELSE batch[v]
  BY <1>1 DEF BufferTypeOK
<1>4. \A v \in Writers : Range(batch'[v]) = IF v = w THEN {} ELSE Range(batch[v])
  BY <1>3, EmptySequence
<1>5. Held' = Held BY <1>1, <1>2, <1>4 DEF Held
<1>6. LoggedLines' = LoggedLines BY <1>1 DEF LoggedLines
<1>7. NoRepeats' BY <1>1, <1>2, <1>3, EmptySequence, TakenRows DEF NoRepeats
<1>8. AllApart'
  <2>1. (Apart(Range(buf), Range(table)) /\ Apart(Range(buf), lost) /\ Apart(Range(table), lost))'
    BY <1>1, <1>2, <1>4, LinesApart DEF AllApart, Apart
  <2>2. \A v \in Writers : /\ Apart(Range(batch'[v]), Range(buf'))
                            /\ Apart(Range(batch'[v]), Range(table'))
                            /\ Apart(Range(batch'[v]), lost')
    BY <1>1, <1>2, <1>4, LinesApart DEF AllApart, Apart
  <2>3. \A v \in Writers : \A u \in Writers \ {v} : Apart(Range(batch'[v]), Range(batch'[u]))
    BY <1>1, <1>2, <1>4, LinesApart DEF AllApart, Apart
  <2>4. \A v \in Writers : \A rows \in flushing' : Apart(Range(batch'[v]), Range(rows))
    BY <1>1, <1>2, <1>4, LinesApart DEF AllApart, Apart
  <2>5. \A rows \in flushing' : /\ Apart(Range(rows), Range(buf'))
                                 /\ Apart(Range(rows), Range(table'))
                                 /\ Apart(Range(rows), lost')
                                 /\ \A other \in flushing' \ {rows} : Apart(Range(rows), Range(other))
    BY <1>1, <1>2, <1>4, LinesApart DEF AllApart, Apart
  <2> QED BY <2>1, <2>2, <2>3, <2>4, <2>5 DEF AllApart
<1> QED BY <1>5, <1>6, <1>7, <1>8 DEF LinesInv

LEMMA TimedWriteLines ==
  ASSUME BufferTypeOK, LinesInv, TimedWrite
  PROVE  LinesInv'
<1>1. PICK rows \in flushing : WriteRows(rows) /\ flushing' = flushing \ {rows}
  BY DEF TimedWrite
<1>2. UNCHANGED <<logged, buf, batch>> BY DEF TimedWrite
<1>3. \/ /\ lost' = lost /\ Range(table') = Range(table) \cup Range(rows)
         /\ IsInjective(table')
      \/ table' = table /\ lost' = lost \cup Range(rows)
  BY <1>1, TakenRows, WriteMovesRows DEF NoRepeats, AllApart
<1>4. Held' = Held BY <1>1, <1>2, <1>3 DEF Held
<1>5. LoggedLines' = LoggedLines BY <1>2 DEF LoggedLines
<1>6. NoRepeats' BY <1>1, <1>2, <1>3, TakenRows DEF NoRepeats
<1>7. AllApart' BY <1>1, <1>2, <1>3, LinesApart DEF AllApart, Apart
<1> QED BY <1>4, <1>5, <1>6, <1>7 DEF LinesInv

(* A timer takes what the buffer holds. *)
LEMMA TimedFlushLines ==
  ASSUME BufferTypeOK, LinesInv, TimedFlush
  PROVE  LinesInv'
<1>1. /\ flushing' = IF buf = <<>> THEN flushing ELSE flushing \cup {buf}
      /\ buf' = <<>> /\ UNCHANGED <<logged, batch, table, lost>>
  BY DEF TimedFlush
<1>2. Range(buf') = {} /\ IsInjective(buf') BY <1>1, EmptySequence
<1>3. buf = <<>> => Range(buf) = {} BY EmptySequence
<1>4. Held' = Held BY <1>1, <1>2, <1>3 DEF Held
<1>5. LoggedLines' = LoggedLines BY <1>1 DEF LoggedLines
<1>6. NoRepeats' BY <1>1, <1>2, TakenRows DEF NoRepeats
<1>7. AllApart' BY <1>1, <1>2, LinesApart DEF AllApart, Apart
<1> QED BY <1>4, <1>5, <1>6, <1>7 DEF LinesInv

(* close() makes what the buffer holds the batch of its thread. *)
LEMMA CloseLines ==
  ASSUME BufferTypeOK, LinesInv, ThreadInv, Close
  PROVE  LinesInv'
<1>1. "main" \in Writers BY DEF Writers
<1>2. /\ buf' = <<>> /\ batch' = [batch EXCEPT !["main"] = buf]
      /\ UNCHANGED <<logged, flushing, table, lost>> /\ pc["main"] = "idle"
  BY DEF Close
<1>3. \A v \in Writers : batch'[v] = IF v = "main" THEN buf ELSE batch[v]
  BY <1>1, <1>2 DEF BufferTypeOK
<1>4. Range(buf') = {} /\ IsInjective(buf') BY <1>2, EmptySequence
<1>5. Range(batch["main"]) = {}
  <2>1. batch["main"] = <<>> BY <1>1, <1>2 DEF ThreadInv
  <2> QED BY <2>1, EmptySequence
<1>6. Held' = Held BY <1>1, <1>2, <1>3, <1>4, <1>5 DEF Held
<1>7. LoggedLines' = LoggedLines BY <1>2 DEF LoggedLines
<1>8. NoRepeats' BY <1>2, <1>3, <1>4, TakenRows DEF NoRepeats
<1>9. AllApart' BY <1>2, <1>3, <1>4, LinesApart DEF AllApart, Apart
<1> QED BY <1>6, <1>7, <1>8, <1>9 DEF LinesInv

LEMMA StepLines ==
  ASSUME BufferTypeOK, ThreadInv, LinesInv, [Step]_bufferVars
  PROVE  LinesInv'
<1>1. ASSUME NEW w \in Writers, Write(w) PROVE LinesInv' BY <1>1, WriteLines
<1>2. ASSUME NEW w \in Writers, Read(w) PROVE LinesInv'
  <2>1. Add(w) /\ batch[w] = <<>> BY <1>2 DEF Read, ThreadInv
  <2> QED BY <2>1, AddLines
<1>3. ASSUME NEW w \in Writers, EndOfFile(w) \/ Publish(w) PROVE LinesInv'
  BY <1>3, SameLines DEF EndOfFile, Publish
<1>4. CASE TimerFires \/ SpawnFails \/ Joined \/ TimedOut \/ Finish \/ PublishDone
  BY <1>4, SameLines DEF TimerFires, SpawnFails, Joined, TimedOut, Finish, PublishDone
<1>5. CASE TimedFlush BY <1>5, TimedFlushLines
<1>6. CASE TimedWrite BY <1>6, TimedWriteLines
<1>7. CASE LogEnding
  <2>1. "main" \in Writers BY DEF Writers
  <2>2. Add("main") /\ batch["main"] = <<>> BY <1>7, <2>1 DEF LogEnding, ThreadInv
  <2> QED BY <2>1, <2>2, AddLines
<1>8. CASE Close BY <1>8, CloseLines
<1>9. CASE UNCHANGED bufferVars BY <1>9, SameLines DEF bufferVars
<1> QED
  BY <1>1, <1>2, <1>3, <1>4, <1>5, <1>6, <1>7, <1>8, <1>9
  DEF Step, BufferNext, BufferOver, Silent

(* The threads of the log are where the end of the run expects them, and the *)
(* lines held in the buffer, the batches and the table are kept apart.       *)
THEOREM BufferInvariant == BufferSpec => [](BufferTypeOK /\ ThreadInv /\ LinesInv)
<1>1. BufferInit => BufferTypeOK /\ ThreadInv /\ LinesInv BY InitType, InitThreads, InitLines
<1>2. BufferTypeOK /\ ThreadInv /\ LinesInv /\ [BufferNext \/ BufferOver]_bufferVars
        => (BufferTypeOK /\ ThreadInv /\ LinesInv)'
  BY StepType, StepThreads, StepLines DEF Step
<1> QED BY <1>1, <1>2, PTL DEF BufferSpec

(* A sequence without repetitions has a line once or not at all. *)
LEMMA OnceInSequence ==
  ASSUME NEW line, NEW s, IsInjective(s)
  PROVE  Cardinality(At(line, s)) = IF line \in Range(s) THEN 1 ELSE 0
<1>1. CASE line \in Range(s)
  <2>1. PICK i \in DOMAIN s : s[i] = line BY <1>1 DEF Range
  <2>2. At(line, s) = {i} BY <2>1 DEF At, IsInjective
  <2> QED BY <1>1, <2>2, FS_Singleton
<1>2. CASE line \notin Range(s)
  <2>1. At(line, s) = {} BY <1>2 DEF At, Range
  <2> QED BY <1>2, <2>1, FS_EmptySet
<1> QED BY <1>1, <1>2

LEMMA OnceAmong ==
  ASSUME NEW S, \A x, y \in S : x = y
  PROVE  Cardinality(S) = IF S = {} THEN 0 ELSE 1
<1>1. CASE S = {} BY <1>1, FS_EmptySet
<1>2. CASE S # {}
  <2>1. PICK x \in S : TRUE BY <1>2
  <2>2. S = {x} BY <2>1
  <2> QED BY <1>2, <2>2, FS_Singleton
<1> QED BY <1>1, <1>2

LEMMA HeldIsOnce ==
  ASSUME LinesInv, NEW line \in Held
  PROVE  Copies(line) = 1
<1> DEFINE W == {w \in Writers : line \in Range(batch[w])}
           F == {rows \in flushing : line \in Range(rows)}
           b == Cardinality(At(line, buf))
           t == Cardinality(At(line, table))
           k == Cardinality(W)
           f == Cardinality(F)
           x == IF line \in lost THEN 1 ELSE 0
<1>1. NoRepeats /\ AllApart BY DEF LinesInv
<1>2. b = (IF line \in Range(buf) THEN 1 ELSE 0) /\ t = (IF line \in Range(table) THEN 1 ELSE 0)
  BY <1>1, OnceInSequence DEF NoRepeats
<1>3. k = IF W = {} THEN 0 ELSE 1
  <2>1. \A w, v \in W : w = v BY <1>1 DEF AllApart, Apart
  <2> HIDE DEF W
  <2> QED BY <2>1, OnceAmong
<1>4. f = IF F = {} THEN 0 ELSE 1
  <2>1. \A r, s \in F : r = s BY <1>1 DEF AllApart, Apart
  <2> HIDE DEF F
  <2> QED BY <2>1, OnceAmong
<1>5. line \in Range(buf) \/ line \in Range(table) \/ line \in lost \/ W # {} \/ F # {}
  BY DEF Held
<1>6. Copies(line) = b + t + k + f + x BY DEF Copies
<1>7. /\ line \in Range(buf) => line \notin Range(table) /\ line \notin lost /\ W = {} /\ F = {}
      /\ line \in Range(table) => line \notin lost /\ W = {} /\ F = {}
      /\ line \in lost => W = {} /\ F = {}
      /\ W # {} => F = {}
  BY <1>1 DEF AllApart, Apart
<1> HIDE DEF W, F, b, t, k, f
<1> QED BY <1>2, <1>3, <1>4, <1>5, <1>6, <1>7

(* No line of a run is lost from sight or stored twice, however many pipes  *)
(* there are, and whatever the order in which the readers, the timers and   *)
(* close() take and write the batches.                                      *)
THEOREM LinesAreHeldOnce == BufferSpec => []EachLineOnce
<1>1. LinesInv => EachLineOnce
  <2> SUFFICES ASSUME LinesInv, NEW w \in Writers, NEW i \in 1..logged[w]
               PROVE  Copies(<<w, i>>) = 1
    BY DEF EachLineOnce
  <2>1. <<w, i>> \in LoggedLines BY DEF LoggedLines
  <2>2. <<w, i>> \in Held BY <2>1 DEF LinesInv
  <2> QED BY <2>2, HeldIsOnce
<1> QED BY <1>1, BufferInvariant, PTL
=============================================================================
