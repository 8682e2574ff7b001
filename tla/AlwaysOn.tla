------------------------------ MODULE AlwaysOn ------------------------------
(***************************************************************************)
(* Always-on services: a generated wrapper keeps a script running and      *)
(* posts heartbeats; the server marks the service's row; the page shows    *)
(* the service alive while the mark is younger than a fixed limit.         *)
(*                                                                         *)
(* Time is discrete.  Timers count down and ages count up to the value     *)
(* from which they no longer matter, so that time itself has no bound.  A  *)
(* request reads its row as it arrives and marks it by id when it commits. *)
(* A definition named A_Slip is the definition A that follows it with a    *)
(* plausible slip in the code; no action uses it.                          *)
(***************************************************************************)
EXTENDS Naturals

CONSTANTS
  Names,      \* service names
  Wrapped,    \* those a wrapper is ever installed for
  MaxId,      \* bound on the ids of rows
  Intervals,  \* the heartbeat intervals a wrapper can be generated with; 0 for a negative one
  Timeout,    \* the time a wrapper waits for the answer to a heartbeat
  Slow,       \* the time within which a server that is up commits a heartbeat
  Limit,      \* the age from which the page calls a mark stale
  None        \* no name

ASSUME NamesAssumption == /\ Wrapped \subseteq Names
                          /\ None \notin Names
                          /\ MaxId \in Nat \ {0}
ASSUME TimesAssumption == /\ Intervals \subseteq Nat
                          /\ Timeout \in Nat \ {0}
                          /\ Slow \in Nat \ {0}
                          /\ Limit \in Nat \ {0}

VARIABLES
  server,    \* whether the API server is up
  wrapper,   \* each wrapper: its main loop, its heartbeat thread and that thread's timer
  rows,      \* the table "services"; "by" is the service whose heartbeat marked the row last
  requests,  \* the heartbeats the server is handling, with the time each has left
  calm,      \* how long each wrapper, its row and the server have all been there
  gone       \* how long no main loop has tended each service

vars == <<server, wrapper, rows, requests, calm, gone>>

Ids  == 1..MaxId
Rows == [name: Names, age: 0..Limit, by: Wrapped \cup {None}]
NoRow == [name |-> None, age |-> Limit, by |-> None]

\* the longest time a wrapper that beats every e lets pass between two marks
Round(e) == e + Timeout + Slow

Tended(n)     == wrapper[n].main \in {"next", "script", "backoff"}
Registered(n) == \E i \in Ids : rows[i].name = n

\* what the page shows; a row that was never marked has the age Limit
Alive(i) == rows[i].name # None /\ rows[i].age < Limit

Init ==
  /\ server = "up"
  /\ wrapper = [n \in Wrapped |-> [main |-> "absent", beat |-> "off", left |-> 0, every |-> 0]]
  /\ rows = [i \in Ids |-> NoRow]
  /\ requests = {}
  /\ calm = [n \in Names |-> 0]
  /\ gone = [n \in Names |-> 0]

-----------------------------------------------------------------------------
(* The wrapper *)

Begin(n, e) ==
  /\ wrapper' = [wrapper EXCEPT ![n] = [main |-> "next", beat |-> "send", left |-> 0,
                                        every |-> e]]
  /\ calm' = [calm EXCEPT ![n] = 0]
  /\ gone' = [gone EXCEPT ![n] = 0]
  /\ UNCHANGED <<server, rows, requests>>

(* The generated script installs the wrapper as a service and starts it.   *)
Install(n) == wrapper[n].main = "absent" /\ \E e \in Intervals : Begin(n, e)

(* The service starts by itself at boot and is restarted by NSSM.          *)
Boot(n) == wrapper[n].main = "off" /\ Begin(n, wrapper[n].every)

Over(n, w) ==
  /\ Tended(n)
  /\ wrapper' = [wrapper EXCEPT ![n] = w]
  /\ calm' = [calm EXCEPT ![n] = 0]
  /\ UNCHANGED <<server, rows, requests, gone>>

\* the wrapper w after its process died
Dead(w) == [w EXCEPT !.main = "off", !.beat = "off", !.left = 0]

\* and after its main thread ended: the heartbeat thread, a daemon, dies with it
Ended_NotDaemon(w) == [w EXCEPT !.main = "off"]
Ended(w) == Dead(w)

Crash(n) == Over(n, Dead(wrapper[n]))

Turn(n, from, to) ==
  /\ wrapper[n].main = from
  /\ wrapper' = [wrapper EXCEPT ![n].main = to]
  /\ UNCHANGED <<server, rows, requests, calm, gone>>

(* subprocess.run raises where the interpreter cannot be started, and the  *)
(* main loop does not catch it.                                            *)
Launch(n)     == Turn(n, "next", "script")
LaunchFail(n) == wrapper[n].main = "next" /\ Over(n, Ended(wrapper[n]))
ScriptOk(n)   == Turn(n, "script", "next")
ScriptFail(n) == Turn(n, "script", "backoff")
Retry(n)      == Turn(n, "backoff", "next")

(* The wrapper w after a heartbeat, however it ended: every exception is    *)
(* swallowed.  But time.sleep refuses a negative interval, and there the    *)
(* thread ends, while the main loop goes on.                                *)
Asleep_Milliseconds(w) == [w EXCEPT !.beat = "sleep", !.left = 1000 * w.every]
Asleep(w) == IF w.every = 0 THEN [w EXCEPT !.beat = "off", !.left = 0]
             ELSE [w EXCEPT !.beat = "sleep", !.left = w.every]

(* A heartbeat is posted.  No server, or no row of that name: it fails at  *)
(* once.  In the slip the failure is not caught and ends the thread.       *)
Post_Uncaught(n) ==
  /\ wrapper[n].beat = "send"
  /\ \/ /\ server = "down" \/ ~Registered(n)
        /\ wrapper' = [wrapper EXCEPT ![n].beat = "off"]
        /\ UNCHANGED requests
     \/ \E i \in Ids :
          /\ server = "up" /\ rows[i].name = n
          /\ requests' = requests \cup {[of |-> n, id |-> i, left |-> Slow]}
          /\ wrapper' = [wrapper EXCEPT ![n].beat = "wait", ![n].left = Timeout]
  /\ UNCHANGED <<server, rows, calm, gone>>
Post(n) ==
  /\ wrapper[n].beat = "send"
  /\ \/ /\ server = "down" \/ ~Registered(n)
        /\ wrapper' = [wrapper EXCEPT ![n] = Asleep(@)]
        /\ UNCHANGED requests
     \/ \E i \in Ids :
          /\ server = "up" /\ rows[i].name = n
          /\ requests' = requests \cup {[of |-> n, id |-> i, left |-> Slow]}
          /\ wrapper' = [wrapper EXCEPT ![n].beat = "wait", ![n].left = Timeout]
  /\ UNCHANGED <<server, rows, calm, gone>>

(* The answer does not come in time; the server goes on with the request.  *)
GiveUp(n) ==
  /\ wrapper[n].beat = "wait" /\ wrapper[n].left = 0
  /\ wrapper' = [wrapper EXCEPT ![n] = Asleep(@)]
  /\ UNCHANGED <<server, rows, requests, calm, gone>>

Awake(n) ==
  /\ wrapper[n].beat = "sleep" /\ wrapper[n].left = 0
  /\ wrapper' = [wrapper EXCEPT ![n].beat = "send"]
  /\ UNCHANGED <<server, rows, requests, calm, gone>>

-----------------------------------------------------------------------------
(* The server *)

(* heartbeat commits: it marks whatever row now has the id it had read, or *)
(* fails where there is none.  The wrapper that still waits is answered    *)
(* either way.                                                             *)
Mark(q) ==
  rows' = IF rows[q.id].name = None THEN rows
          ELSE [rows EXCEPT ![q.id].age = 0, ![q.id].by = q.of]

\* the request q is the one its wrapper waits for, and not one it gave up
Awaited(q) == wrapper[q.of].beat = "wait" /\ wrapper[q.of].left + Slow = q.left + Timeout

Heartbeat(q) ==
  /\ Mark(q)
  /\ requests' = requests \ {q}
  /\ wrapper' = IF Awaited(q) THEN [wrapper EXCEPT ![q.of] = Asleep(@)] ELSE wrapper
  /\ UNCHANGED <<server, calm, gone>>

(* The server stops: its requests are cut off, and so are those who wait.  *)
Stop ==
  /\ server = "up"
  /\ server' = "down"
  /\ requests' = {}
  /\ wrapper' = [n \in Wrapped |-> IF wrapper[n].beat = "wait" THEN Asleep(wrapper[n])
                                   ELSE wrapper[n]]
  /\ calm' = [n \in Names |-> 0]
  /\ UNCHANGED <<rows, gone>>

Start ==
  /\ server = "down"
  /\ server' = "up"
  /\ UNCHANGED <<wrapper, rows, requests, calm, gone>>

(* services_create; a name is unique, and SQLite gives a new row the id    *)
(* after the largest one, also where a smaller one is free.                *)
Register(n) ==
  /\ server = "up" /\ ~Registered(n)
  /\ \E i \in Ids :
       /\ \A j \in i..MaxId : rows[j].name = None
       /\ \A j \in Ids : j = i - 1 => rows[j].name # None
       /\ rows' = [rows EXCEPT ![i] = [name |-> n, age |-> Limit, by |-> None]]
  /\ UNCHANGED <<server, wrapper, requests, calm, gone>>

(* services_delete *)
Delete(i) ==
  /\ server = "up" /\ rows[i].name # None
  /\ rows' = [rows EXCEPT ![i] = NoRow]
  /\ calm' = [calm EXCEPT ![rows[i].name] = 0]
  /\ UNCHANGED <<server, wrapper, requests, gone>>

-----------------------------------------------------------------------------
(* Time passes unless something is due. *)

Due == \/ \E n \in Wrapped : \/ wrapper[n].beat = "send"
                             \/ wrapper[n].beat \in {"wait", "sleep"} /\ wrapper[n].left = 0
       \/ \E q \in requests : q.left = 0

Older(a, top) == IF a < top THEN a + 1 ELSE a
Down(w) == IF w.beat \in {"wait", "sleep"} THEN [w EXCEPT !.left = @ - 1] ELSE w

Settled(n) == n \in Wrapped /\ Tended(n) /\ Registered(n) /\ server = "up"

Tick ==
  /\ ~Due
  /\ wrapper' = [n \in Wrapped |-> Down(wrapper[n])]
  /\ rows' = [i \in Ids |-> [rows[i] EXCEPT !.age = Older(@, Limit)]]
  /\ requests' = {[q EXCEPT !.left = @ - 1] : q \in requests}
  /\ calm' = [n \in Names |-> IF Settled(n) THEN Older(calm[n], Limit) ELSE 0]
  /\ gone' = [n \in Names |-> IF n \in Wrapped /\ Tended(n) THEN 0
                              ELSE Older(gone[n], Limit + Slow)]
  /\ UNCHANGED server

Next ==
  \/ \E n \in Wrapped : \/ Install(n) \/ Boot(n) \/ Crash(n)
                        \/ Launch(n) \/ LaunchFail(n)
                        \/ ScriptOk(n) \/ ScriptFail(n) \/ Retry(n)
                        \/ Post(n) \/ GiveUp(n) \/ Awake(n)
  \/ \E q \in requests : Heartbeat(q)
  \/ Stop \/ Start
  \/ \E n \in Names : Register(n)
  \/ \E i \in Ids : Delete(i)
  \/ Tick

Spec == Init /\ [][Next]_vars

-----------------------------------------------------------------------------
(* What must hold *)

(* Every variable keeps to its domain: a wrapper's timer never exceeds its *)
(* own interval or the timeout (always_on.py _heartbeat), a request in the *)
(* server is one of an installed wrapper, and an age stops at the limit.   *)
TypeOK ==
  /\ server \in {"up", "down"}
  /\ wrapper \in [Wrapped -> [main: {"absent", "off", "next", "script", "backoff"},
                              beat: {"off", "send", "wait", "sleep"},
                              left: Nat, every: Intervals \cup {0}]]
  /\ \A n \in Wrapped : wrapper[n].left <= wrapper[n].every + Timeout
  /\ rows \in [Ids -> Rows \cup {NoRow}]
  /\ requests \subseteq [of: Wrapped, id: Ids, left: 0..Slow]
  /\ calm \in [Names -> 0..Limit]
  /\ gone \in [Names -> 0..(Limit + Slow)]

(* A service whose wrapper, row and server have been there for longer than *)
(* a round of heartbeats is shown alive, whatever failed before: a server  *)
(* that was away, a row that was missing or replaced, a request that was   *)
(* given up or cut off.  Only a wrapper whose round is shorter than the    *)
(* limit of the page has this: the limit does not know the interval.  Nor  *)
(* has one that was generated with a negative interval, which nothing      *)
(* checks: it sends one heartbeat (always_on.py _heartbeat, services.py    *)
(* heartbeat, services.html).                                              *)
AliveShown ==
  \A n \in Wrapped :
    /\ wrapper[n].every # 0
    /\ Round(wrapper[n].every) < Limit
    /\ calm[n] > Round(wrapper[n].every)
    => \E i \in Ids : rows[i].name = n /\ Alive(i)

(* A service that nothing tends is shown stale once its last heartbeats    *)
(* have come in and aged: the heartbeat thread does not outlive the loop   *)
(* that keeps the script running.  The exception is a row that took the id *)
(* of a deleted one while a heartbeat for that one was being handled: it   *)
(* bears another service's mark (always_on.py _heartbeat, services.py      *)
(* heartbeat).                                                             *)
StaleShown ==
  \A i \in Ids : \A n \in Names :
    /\ rows[i].name = n /\ rows[i].by = n
    /\ gone[n] >= Limit + Slow
    => ~Alive(i)
=============================================================================
