------------------------------ MODULE TaskPool ------------------------------
(***************************************************************************)
(* What a ThreadPoolExecutor with Concurrency threads promises to the code *)
(* that submits tasks to it: tasks start in the order of submission, each  *)
(* at most once, and at most Concurrency of them execute at a time.  A     *)
(* crash of the process loses every task that has not ended.               *)
(***************************************************************************)
EXTENDS Naturals, FiniteSets, Sequences, Functions

CONSTANTS Tasks, Concurrency

VARIABLES pending,    \* submitted tasks that have not started, oldest first
          executing,  \* tasks a thread executes
          ended       \* tasks that returned, raised or were lost

vars == <<pending, executing, ended>>

Init == pending = <<>> /\ executing = {} /\ ended = {}

Submit(t) ==
  /\ t \notin Range(pending) \cup executing \cup ended
  /\ pending' = Append(pending, t)
  /\ UNCHANGED <<executing, ended>>

Start ==
  /\ pending # <<>> /\ Cardinality(executing) < Concurrency
  /\ executing' = executing \cup {Head(pending)}
  /\ pending' = Tail(pending)
  /\ UNCHANGED ended

End(t) ==
  /\ t \in executing
  /\ executing' = executing \ {t}
  /\ ended' = ended \cup {t}
  /\ UNCHANGED pending

(* Tasks that were about to be submitted are lost, too. *)
Crash ==
  \E lost \in SUBSET Tasks :
    /\ Range(pending) \cup executing \subseteq lost
    /\ pending' = <<>>
    /\ executing' = {}
    /\ ended' = ended \cup lost

Next == Start \/ Crash \/ \E t \in Tasks : Submit(t) \/ End(t)

Spec == Init /\ [][Next]_vars
=============================================================================
