------------------------------ MODULE LogBuffer ------------------------------
(***************************************************************************)
(* The log of one run: the two reader threads of the script's pipes and    *)
(* the thread of execute_script, which log lines, the buffer _RunLogBuffer *)
(* with its timer threads, and the table "run_logs".                       *)
(*                                                                         *)
(* A batch is taken out of the buffer under its lock, and written to the   *)
(* table after the lock was released.  A line is the pair of the thread    *)
(* that logs it and its number.                                            *)
(*                                                                         *)
(* A definition named A_Slip is the definition A that follows it with a    *)
(* plausible slip in the code; no action uses it.                          *)
(***************************************************************************)
EXTENDS Naturals, FiniteSets, Sequences, Functions

CONSTANTS Streams,      \* the pipes: stdout and stderr
          Lines,        \* the lines a script may write to each of them
          FlushLines,   \* FLUSH_LINES: 50 in the code
          MaxDbFaults   \* bound on the transactions that fail

ASSUME StreamsAssumption == "main" \notin Streams /\ Lines \in [Streams -> Nat]
ASSUME FlushAssumption == FlushLines \in Nat \ {0}
ASSUME FaultsAssumption == MaxDbFaults \in Nat

VARIABLES
  logged,    \* how many lines each thread has logged
  eof,       \* the pipes whose reader has ended
  pc,        \* where each thread is in _log, or in close()
  batch,     \* the batch each of them has taken out of the buffer
  buf,       \* _buf
  timer,     \* what _timer refers to
  stray,     \* timers that wait, but that _timer does not refer to
  waking,    \* timer threads that wait for the lock
  flushing,  \* batches that timer threads have taken
  table,     \* rows of run_logs in the order of their ids
  lost,      \* lines whose batch could not be written
  main,      \* where the thread of execute_script is
  how,       \* how the run ends
  finished,  \* the row of the run has its outcome
  faults     \* transactions that may still fail

bufferVars == <<logged, eof, pc, batch, buf, timer, stray, waking, flushing, table, lost,
                main, how, finished, faults>>

Writers == Streams \cup {"main"}
Line    == Writers \X (Nat \ {0})

BufferInit ==
  /\ logged = [w \in Writers |-> 0]
  /\ eof = {}
  /\ pc = [w \in Writers |-> "idle"]
  /\ batch = [w \in Writers |-> <<>>]
  /\ buf = <<>>
  /\ timer = "none" /\ stray = 0 /\ waking = 0
  /\ flushing = {}
  /\ table = <<>> /\ lost = {}
  /\ main = "run" /\ how = "none" /\ finished = FALSE
  /\ faults = MaxDbFaults

-----------------------------------------------------------------------------
(* The buffer *)

Add_FlushesLate(w) ==
  LET full == Append(buf, <<w, logged[w] + 1>>) IN
  /\ logged' = [logged EXCEPT ![w] = @ + 1]
  /\ IF Len(full) > FlushLines
     THEN /\ buf' = <<>>
          /\ batch' = [batch EXCEPT ![w] = full]
          /\ pc' = [pc EXCEPT ![w] = "write"]
          /\ UNCHANGED timer
     ELSE /\ buf' = full
          /\ timer' = IF timer = "none" THEN "armed" ELSE timer
          /\ pc' = [pc EXCEPT ![w] = "publish"]
          /\ UNCHANGED batch
  /\ UNCHANGED <<stray, waking, flushing, table, lost, finished, faults>>

(* add: the thread that fills the buffer takes it and will write it, the   *)
(* one that finds no timer starts one.                                     *)
Add(w) ==
  LET full == Append(buf, <<w, logged[w] + 1>>) IN
  /\ logged' = [logged EXCEPT ![w] = @ + 1]
  /\ IF Len(full) >= FlushLines
     THEN /\ buf' = <<>>
          /\ batch' = [batch EXCEPT ![w] = full]
          /\ pc' = [pc EXCEPT ![w] = "write"]
          /\ UNCHANGED timer
     ELSE /\ buf' = full
          /\ timer' = IF timer = "none" THEN "armed" ELSE timer
          /\ pc' = [pc EXCEPT ![w] = "publish"]
          /\ UNCHANGED batch
  /\ UNCHANGED <<stray, waking, flushing, table, lost, finished, faults>>

(* _write commits a batch, or logs a warning and forgets it. *)
WriteRows(rows) ==
  \/ table' = table \o rows /\ UNCHANGED <<lost, faults>>
  \/ faults > 0 /\ faults' = faults - 1 /\ lost' = lost \cup Range(rows) /\ UNCHANGED table

Write(w) ==
  /\ pc[w] = "write"
  /\ WriteRows(batch[w])
  /\ batch' = [batch EXCEPT ![w] = <<>>]
  /\ pc' = [pc EXCEPT ![w] = IF w = "main" /\ main = "finish" THEN "idle" ELSE "publish"]
  /\ UNCHANGED <<logged, eof, buf, timer, stray, waking, flushing, main, how, finished>>

(* The line is handed to the log hub after the buffer has it. *)
Publish(w) ==
  /\ pc[w] = "publish"
  /\ pc' = [pc EXCEPT ![w] = "idle"]
  /\ UNCHANGED <<logged, eof, batch, buf, timer, stray, waking, flushing, table, lost,
                 main, how, finished, faults>>

(* A timer's interval is over: from now on it can not be cancelled. *)
TimerFires ==
  /\ \/ timer = "armed" /\ timer' = "fired" /\ UNCHANGED stray
     \/ stray > 0 /\ stray' = stray - 1 /\ UNCHANGED timer
  /\ waking' = waking + 1
  /\ UNCHANGED <<logged, eof, pc, batch, buf, flushing, table, lost, main, how, finished, faults>>

TimedFlush_KeepsBuffer ==
  /\ waking > 0 /\ waking' = waking - 1
  /\ timer' = "none"
  /\ stray' = IF timer = "armed" THEN stray + 1 ELSE stray
  /\ flushing' = IF buf = <<>> THEN flushing ELSE flushing \cup {buf}
  /\ UNCHANGED <<logged, eof, pc, batch, buf, table, lost, main, how, finished, faults>>

TimedFlush_KeepsTimer ==
  /\ waking > 0 /\ waking' = waking - 1
  /\ flushing' = IF buf = <<>> THEN flushing ELSE flushing \cup {buf}
  /\ buf' = <<>>
  /\ UNCHANGED <<logged, eof, pc, batch, timer, stray, table, lost, main, how, finished, faults>>

(* _timed_flush resets _timer, whichever timer that refers to. *)
TimedFlush ==
  /\ waking > 0 /\ waking' = waking - 1
  /\ timer' = "none"
  /\ stray' = IF timer = "armed" THEN stray + 1 ELSE stray
  /\ flushing' = IF buf = <<>> THEN flushing ELSE flushing \cup {buf}
  /\ buf' = <<>>
  /\ UNCHANGED <<logged, eof, pc, batch, table, lost, main, how, finished, faults>>

TimedWrite ==
  /\ \E rows \in flushing : WriteRows(rows) /\ flushing' = flushing \ {rows}
  /\ UNCHANGED <<logged, eof, pc, batch, buf, timer, stray, waking, main, how, finished>>

Close_KeepsTimer ==
  /\ main = "close" /\ pc["main"] = "idle"
  /\ main' = "finish"
  /\ timer' = IF timer = "armed" THEN "cancelled" ELSE timer
  /\ buf' = <<>>
  /\ batch' = [batch EXCEPT !["main"] = buf]
  /\ pc' = [pc EXCEPT !["main"] = IF buf = <<>> THEN "idle" ELSE "write"]
  /\ UNCHANGED <<logged, eof, stray, waking, flushing, table, lost, how, finished, faults>>

(* close: cancelling has no effect on a timer that has fired. *)
Close ==
  /\ main = "close" /\ pc["main"] = "idle"
  /\ main' = "finish"
  /\ timer' = "none"
  /\ buf' = <<>>
  /\ batch' = [batch EXCEPT !["main"] = buf]
  /\ pc' = [pc EXCEPT !["main"] = IF buf = <<>> THEN "idle" ELSE "write"]
  /\ UNCHANGED <<logged, eof, stray, waking, flushing, table, lost, how, finished, faults>>

-----------------------------------------------------------------------------
(* The readers *)

Read(w) ==
  /\ w \in Streams \ eof /\ pc[w] = "idle" /\ logged[w] < Lines[w]
  /\ Add(w)
  /\ UNCHANGED <<eof, main, how>>

EndOfFile(w) ==
  /\ w \in Streams \ eof /\ pc[w] = "idle"
  /\ eof' = eof \cup {w}
  /\ UNCHANGED <<logged, pc, batch, buf, timer, stray, waking, flushing, table, lost,
                 main, how, finished, faults>>

-----------------------------------------------------------------------------
(* The thread of execute_script *)

EndRun(ending) == how' = ending /\ main' = IF ending = "exit" THEN "close" ELSE "log"

(* Popen raises: there are no readers. *)
SpawnFails ==
  /\ main = "run" /\ eof = {} /\ \A w \in Writers : logged[w] = 0
  /\ eof' = Streams
  /\ EndRun("error")
  /\ UNCHANGED <<logged, pc, batch, buf, timer, stray, waking, flushing, table, lost, finished, faults>>

Joined_NotWaiting ==
  /\ main = "run"
  /\ \/ \E ending \in {"exit", "cancelled"} : EndRun(ending) /\ UNCHANGED faults
     \/ faults > 0 /\ faults' = faults - 1 /\ EndRun("error")
  /\ UNCHANGED <<logged, eof, pc, batch, buf, timer, stray, waking, flushing, table, lost, finished>>

(* The script has ended and both readers are joined; the status is read,   *)
(* which may fail.                                                         *)
Joined ==
  /\ main = "run" /\ eof = Streams
  /\ \/ \E ending \in {"exit", "cancelled"} : EndRun(ending) /\ UNCHANGED faults
     \/ faults > 0 /\ faults' = faults - 1 /\ EndRun("error")
  /\ UNCHANGED <<logged, eof, pc, batch, buf, timer, stray, waking, flushing, table, lost, finished>>

(* The script is killed; nobody waits for its readers. *)
TimedOut ==
  /\ main = "run"
  /\ EndRun("timeout")
  /\ UNCHANGED <<logged, eof, pc, batch, buf, timer, stray, waking, flushing, table, lost, finished, faults>>

(* The line about a timeout, a cancel or an error *)
LogEnding ==
  /\ main = "log" /\ main' = "close"
  /\ Add("main")
  /\ UNCHANGED <<eof, how>>

(* _finish_run; when it fails after a timeout or a cancel, that is handled *)
(* as an error of the execution, otherwise the task raises.                *)
Finish ==
  /\ main = "finish" /\ pc["main"] = "idle"
  /\ \/ /\ finished' = TRUE
        /\ main' = IF how \in {"exit", "error"} THEN "done" ELSE "returned"
        /\ UNCHANGED <<how, faults>>
     \/ /\ faults > 0 /\ faults' = faults - 1
        /\ IF how \in {"exit", "error"} THEN main' = "returned" /\ UNCHANGED how
                                        ELSE EndRun("error")
        /\ UNCHANGED finished
  /\ UNCHANGED <<logged, eof, pc, batch, buf, timer, stray, waking, flushing, table, lost>>

PublishDone ==
  /\ main = "done" /\ main' = "returned"
  /\ UNCHANGED <<logged, eof, pc, batch, buf, timer, stray, waking, flushing, table, lost,
                 how, finished, faults>>

(* The steps that hand nothing to the log hub *)
Silent ==
  \/ TimerFires \/ TimedFlush \/ TimedWrite
  \/ SpawnFails \/ Joined \/ TimedOut \/ LogEnding \/ Close \/ Finish
  \/ \E w \in Writers : Write(w) \/ Read(w) \/ EndOfFile(w)

BufferNext == Silent \/ PublishDone \/ \E w \in Writers : Publish(w)

BufferOver == main = "returned" /\ UNCHANGED bufferVars

BufferSpec == BufferInit /\ [][BufferNext \/ BufferOver]_bufferVars

(* Timer threads and transactions go on. *)
BufferFairness == /\ \A w \in Writers : WF_bufferVars(Write(w)) /\ WF_bufferVars(Publish(w))
                  /\ WF_bufferVars(Joined) /\ WF_bufferVars(LogEnding)
                  /\ WF_bufferVars(Close) /\ WF_bufferVars(Finish)
                  /\ WF_bufferVars(TimerFires) /\ WF_bufferVars(TimedFlush)
                  /\ WF_bufferVars(TimedWrite)

BufferFairSpec == BufferSpec /\ BufferFairness

-----------------------------------------------------------------------------
(* Invariants *)

BufferTypeOK ==
  /\ logged \in [Writers -> Nat]
  /\ eof \subseteq Streams
  /\ pc \in [Writers -> {"idle", "write", "publish"}]
  /\ batch \in [Writers -> Seq(Line)]
  /\ buf \in Seq(Line) /\ Len(buf) < FlushLines
  /\ timer \in {"none", "armed", "fired"}
  /\ stray \in Nat /\ waking \in Nat
  /\ flushing \subseteq Seq(Line)
  /\ table \in Seq(Line) /\ lost \subseteq Line
  /\ main \in {"run", "log", "close", "finish", "done", "returned"}
  /\ how \in {"none", "exit", "cancelled", "timeout", "error"}
  /\ finished \in BOOLEAN
  /\ faults \in 0..MaxDbFaults

(* A line that was logged is in exactly one place: the buffer, the batch   *)
(* of one thread, one row of the table, or a batch that failed; however    *)
(* the timers, the readers and close() take turns.                         *)
At(line, s) == {i \in DOMAIN s : s[i] = line}

Copies(line) ==
  Cardinality(At(line, buf)) + Cardinality(At(line, table))
    + Cardinality({w \in Writers : line \in Range(batch[w])})
    + Cardinality({rows \in flushing : line \in Range(rows)})
    + (IF line \in lost THEN 1 ELSE 0)

EachLineOnce == \A w \in Writers : \A i \in 1..logged[w] : Copies(<<w, i>>) = 1

(* Lines in the buffer are never forgotten: a timer that will flush them   *)
(* waits, or has fired and waits for the lock.                             *)
BufferWatched ==
  /\ buf # <<>> => timer # "none"
  /\ timer = "fired" => waking > 0

(* The inductive invariants behind EachLineOnce.  Where the threads are:   *)
(* one that holds a batch is about to write it, and the thread of          *)
(* execute_script logs and closes only when it is not inside _log; the     *)
(* readers of a script that exited have ended.                             *)
ThreadInv ==
  /\ \A w \in Writers : pc[w] # "write" => batch[w] = <<>>
  /\ main \in {"run", "log", "done", "returned"} => pc["main"] = "idle"
  /\ main = "close" /\ logged["main"] = 0 => pc["main"] = "idle"
  /\ main = "finish" => pc["main"] # "publish"
  /\ \A w \in Streams : logged[w] = 0 \/ w \in eof => pc[w] = "idle"
  /\ main = "run" => how = "none"
  /\ how = "exit" => eof = Streams /\ main \in {"close", "finish", "done", "returned"}

(* Where the lines are: the logged ones and no others are somewhere, no    *)
(* sequence repeats a line and no two of them share one.                   *)
LoggedLines == UNION {{w} \X (1..logged[w]) : w \in Writers}

Held == Range(buf) \cup Range(table) \cup lost
          \cup (UNION {Range(batch[w]) : w \in Writers})
          \cup (UNION {Range(rows) : rows \in flushing})

NoRepeats ==
  /\ IsInjective(buf) /\ IsInjective(table)
  /\ \A w \in Writers : IsInjective(batch[w])
  /\ \A rows \in flushing : IsInjective(rows)

Apart(S, T) == S \cap T = {}

AllApart ==
  /\ Apart(Range(buf), Range(table)) /\ Apart(Range(buf), lost) /\ Apart(Range(table), lost)
  /\ \A w \in Writers : /\ Apart(Range(batch[w]), Range(buf))
                        /\ Apart(Range(batch[w]), Range(table))
                        /\ Apart(Range(batch[w]), lost)
                        /\ \A v \in Writers \ {w} : Apart(Range(batch[w]), Range(batch[v]))
                        /\ \A rows \in flushing : Apart(Range(batch[w]), Range(rows))
  /\ \A rows \in flushing : /\ Apart(Range(rows), Range(buf))
                             /\ Apart(Range(rows), Range(table))
                             /\ Apart(Range(rows), lost)
                             /\ \A other \in flushing \ {rows} : Apart(Range(rows), Range(other))

LinesInv ==
  /\ Held = LoggedLines
  /\ NoRepeats
  /\ AllApart

-----------------------------------------------------------------------------
(* Every line that is logged is written, or its transaction fails: also    *)
(* the lines that readers log after close(), when a run has timed out.     *)
LinesWritten ==
  []<>(\A w \in Writers : \A i \in 1..logged[w] : <<w, i>> \in Range(table) \cup lost)
=============================================================================
