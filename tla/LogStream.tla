------------------------------ MODULE LogStream ------------------------------
(***************************************************************************)
(* The live log of one run: the threads and the buffer of LogBuffer, the   *)
(* log hub, which hands every line to the event loop for each subscriber,  *)
(* and the handlers of the WebSocket endpoint, which replay the stored     *)
(* lines and then forward those that arrive.                               *)
(*                                                                         *)
(* log_hub.publish is one step: the copy of the subscribers under the lock *)
(* and the calls of call_soon_threadsafe.  A subscription between the two  *)
(* is one after both, and a subscriber that leaves between them ignores    *)
(* what is put into its queue.                                             *)
(*                                                                         *)
(* A definition named A_Slip is the definition A that follows it with a    *)
(* plausible slip in the code; no action uses it.                          *)
(***************************************************************************)
EXTENDS LogBuffer

CONSTANTS Clients,       \* connections to /ws/runs/{id}/logs
          QueueSize,     \* of a subscriber's asyncio.Queue: 10000 in the code
          BacklogLimit,  \* BACKLOG_LIMIT: 1000 in the code
          Sayable        \* bound on the lines a script may write as "__done__"

ASSUME ClientsAssumption == IsFiniteSet(Clients)
ASSUME StreamAssumption == QueueSize \in Nat \ {0} /\ BacklogLimit \in Nat \ {0}
ASSUME SayableAssumption == Sayable \subseteq Streams \X Nat

VARIABLES
  subs,      \* the subscribers of the run, _subs[run_id]
  loop,      \* the callbacks on the event loop: pairs of a client and a message
  queue,     \* the queue of each client
  client,    \* where the handler of each client is
  gone,      \* clients that have left, which the handler notices when it sends
  sent,      \* the messages each client has received
  replayed,  \* how many of them were stored lines
  since,     \* how many lines each thread had logged when the client subscribed
  dropped,   \* clients whose queue was full once
  says       \* the lines of the script whose text is "__done__"

streamVars == <<subs, loop, queue, client, gone, sent, replayed, since, dropped, says>>
vars == <<bufferVars, streamVars>>

Done     == <<"main", 0>>   \* "__done__" of the runner; lines are numbered from 1
Message  == Line \cup {Done}

(* The end is recognised by its text, whoever wrote it.                    *)
IsEnd(m) == m = Done \/ m \in says

Init ==
  /\ BufferInit
  /\ subs = {}
  /\ loop = <<>>
  /\ queue = [c \in Clients |-> <<>>]
  /\ client = [c \in Clients |-> "idle"]
  /\ gone = {}
  /\ sent = [c \in Clients |-> <<>>]
  /\ replayed = [c \in Clients |-> 0]
  /\ since = [c \in Clients |-> logged]
  /\ dropped = {}
  /\ says \in SUBSET Sayable

-----------------------------------------------------------------------------
(* The hub *)

(* One callback for every subscriber, in any order *)
Broadcast(message) ==
  /\ \E order \in Bijection(1..Cardinality(subs), subs) :
       loop' = loop \o [i \in 1..Cardinality(subs) |-> <<order[i], message>>]
  /\ UNCHANGED <<subs, queue, client, gone, sent, replayed, since, dropped, says>>

PublishLine(w) == Publish(w) /\ Broadcast(<<w, logged[w]>>)

PublishEnd == PublishDone /\ Broadcast(Done)

Unsubscribe_Never(c) == UNCHANGED subs

Unsubscribe(c) == subs' = subs \ {c}

Deliver_Unbounded ==
  /\ loop # <<>>
  /\ loop' = Tail(loop)
  /\ queue' = [queue EXCEPT ![Head(loop)[1]] = Append(@, Head(loop)[2])]
  /\ UNCHANGED <<bufferVars, subs, client, gone, sent, replayed, since, dropped, says>>

(* _safe_put: a message for a full queue is dropped. *)
Deliver ==
  /\ loop # <<>>
  /\ loop' = Tail(loop)
  /\ LET c == Head(loop)[1] IN
       IF Len(queue[c]) < QueueSize
       THEN queue' = [queue EXCEPT ![c] = Append(@, Head(loop)[2])] /\ UNCHANGED dropped
       ELSE dropped' = dropped \cup {c} /\ UNCHANGED queue
  /\ UNCHANGED <<bufferVars, subs, client, gone, sent, replayed, since, says>>

-----------------------------------------------------------------------------
(* The handler of a connection *)

Connect(c) ==
  /\ client[c] = "idle"
  /\ client' = [client EXCEPT ![c] = "backlog"]
  /\ subs' = subs \cup {c}
  /\ since' = [since EXCEPT ![c] = logged]
  /\ UNCHANGED <<bufferVars, loop, queue, gone, sent, replayed, dropped, says>>

Stored == SubSeq(table, IF Len(table) > BacklogLimit THEN Len(table) - BacklogLimit + 1 ELSE 1,
                 Len(table))

SendBacklog_ClearsQueue(c) ==
  /\ client[c] = "backlog"
  /\ client' = [client EXCEPT ![c] = "live"]
  /\ sent' = [sent EXCEPT ![c] = Stored]
  /\ replayed' = [replayed EXCEPT ![c] = Len(Stored)]
  /\ queue' = [queue EXCEPT ![c] = <<>>]
  /\ UNCHANGED <<bufferVars, subs, loop, gone, since, dropped, says>>

(* _send_backlog; sending to a client that has left raises. *)
SendBacklog(c) ==
  /\ client[c] = "backlog"
  /\ IF c \in gone /\ table # <<>>
     THEN /\ client' = [client EXCEPT ![c] = "closed"]
          /\ Unsubscribe(c)
          /\ UNCHANGED <<sent, replayed>>
     ELSE /\ client' = [client EXCEPT ![c] = "live"]
          /\ sent' = [sent EXCEPT ![c] = Stored]
          /\ replayed' = [replayed EXCEPT ![c] = Len(Stored)]
          /\ UNCHANGED subs
  /\ UNCHANGED <<bufferVars, loop, queue, gone, since, dropped, says>>

(* The loop over q.get(), which ends with "__done__".  That need not be the *)
(* end of the run: a line of the script that reads so ends it too.          *)
Forward(c) ==
  /\ client[c] = "live" /\ queue[c] # <<>>
  /\ queue' = [queue EXCEPT ![c] = Tail(@)]
  /\ sent' = IF c \in gone THEN sent ELSE [sent EXCEPT ![c] = Append(@, Head(queue[c]))]
  /\ IF c \in gone \/ IsEnd(Head(queue[c]))
     THEN client' = [client EXCEPT ![c] = "closed"] /\ Unsubscribe(c)
     ELSE UNCHANGED <<client, subs>>
  /\ UNCHANGED <<bufferVars, loop, gone, replayed, since, dropped, says>>

Leave(c) ==
  /\ client[c] \in {"backlog", "live"} /\ c \notin gone
  /\ gone' = gone \cup {c}
  /\ UNCHANGED <<bufferVars, subs, loop, queue, client, sent, replayed, since, dropped, says>>

-----------------------------------------------------------------------------

ClientStep(c) == SendBacklog(c) \/ Forward(c)

(* The run is over, and what is left to do waits for clients that have not *)
(* come, or that wait for a message that does not come.                    *)
Over == main = "returned" /\ UNCHANGED vars

Next ==
  \/ Silent /\ UNCHANGED streamVars
  \/ \E w \in Writers : PublishLine(w)
  \/ PublishEnd
  \/ Deliver
  \/ \E c \in Clients : Connect(c) \/ ClientStep(c) \/ Leave(c)
  \/ Over

Spec == Init /\ [][Next]_vars

WriterStep(w) == \/ (Write(w) \/ EndOfFile(w)) /\ UNCHANGED streamVars
                 \/ PublishLine(w)

MainStep == \/ (Joined \/ LogEnding \/ Close \/ Finish) /\ UNCHANGED streamVars
            \/ PublishEnd

TimerStep == (TimerFires \/ TimedFlush \/ TimedWrite) /\ UNCHANGED streamVars

(* The event loop is scheduled, and so are the handlers on it and a thread *)
(* that is about to publish the end.                                       *)
LoopFairness ==
  /\ WF_vars(PublishEnd)
  /\ WF_vars(Deliver)
  /\ \A c \in Clients : WF_vars(ClientStep(c))

LoopFairSpec == Spec /\ LoopFairness

-----------------------------------------------------------------------------
(* Properties *)

TypeOK ==
  /\ BufferTypeOK
  /\ subs \subseteq Clients
  /\ loop \in Seq(Clients \X Message)
  /\ queue \in [Clients -> Seq(Message)] /\ \A c \in Clients : Len(queue[c]) <= QueueSize
  /\ client \in [Clients -> {"idle", "backlog", "live", "closed"}]
  /\ gone \subseteq Clients
  /\ sent \in [Clients -> Seq(Message)]
  /\ replayed \in [Clients -> Nat]
  /\ since \in [Clients -> [Writers -> Nat]]
  /\ dropped \subseteq Clients
  /\ says \subseteq Sayable

Live(c) == SubSeq(sent[c], replayed[c] + 1, Len(sent[c]))

(* Message a is handed to the hub before message b: the lines of a thread  *)
(* are numbered, and the end of a script that exited follows all of them.  *)
Precedes(a, b) ==
  /\ a # Done /\ b # Done /\ a[1] = b[1] => a[2] < b[2]
  /\ how = "exit" => a # Done

Ordered(s) == \A i, j \in DOMAIN s : i < j => Precedes(s[i], s[j])

(* No line is missing between the subscription of a client and a line that *)
(* it has received.                                                        *)
NoGap(c) ==
  \A m \in Range(Live(c)) \ {Done} : \A i \in since[c][m[1]] + 1 .. m[2] :
    <<m[1], i>> \in Range(Live(c))

(* After the stored lines a client receives the lines of each pipe in the  *)
(* order they were written, none of them twice; and none is missing        *)
(* between its subscription and the last it has received, unless its queue *)
(* was full.  A line that was logged but not yet handed to the hub when it *)
(* subscribed is the first of them.                                        *)
LiveInOrder ==
  \A c \in Clients :
    /\ Ordered(Live(c))
    /\ \A m \in Range(Live(c)) \ {Done} : m[2] >= since[c][m[1]]
    /\ c \notin dropped => NoGap(c)

EndedAt(c) == Live(c)[Len(Live(c))]

(* A client whose handler ended by itself in the run of a script that       *)
(* exited has received every line that was logged after it subscribed,      *)
(* unless its queue was full; or the last it received is a line of the      *)
(* script that reads "__done__", and what follows that line is lost to it.  *)
LiveComplete ==
  \A c \in Clients :
    how = "exit" /\ client[c] = "closed" /\ c \notin gone \cup dropped =>
      \/ EndedAt(c) \in says
      \/ \A w \in Writers : \A i \in since[c][w] + 1 .. logged[w] : <<w, i>> \in Range(Live(c))

(* A client whose handler forwards when a script exits gets the end of the *)
(* stream, unless its queue was full; and a client that left is forgotten  *)
(* when there is a message for it.                                         *)
StreamEnds ==
  \A c \in Clients :
    (client[c] = "live" /\ \/ main = "done"
                           \/ c \in gone /\ queue[c] # <<>>)
      ~> (c \in dropped \/ c \notin subs)

-----------------------------------------------------------------------------
(* The inductive invariant behind LiveInOrder and LiveComplete.  The        *)
(* messages on their way to a client pass from the event loop to its queue  *)
(* and from there to the client; what is further along was published        *)
(* earlier, and together they are all that was published since the client   *)
(* subscribed, if its queue was never full.                                 *)
Waiting(c) == {k \in DOMAIN loop : loop[k][1] = c}
InLoop(c)  == {loop[k][2] : k \in Waiting(c)}
InPipe(c)  == Range(Live(c)) \cup Range(queue[c]) \cup InLoop(c)

AllPrecede(S, T) == \A a \in S, b \in T : Precedes(a, b)

PipeOrdered(c) ==
  /\ Ordered(Live(c)) /\ Ordered(queue[c])
  /\ \A i, j \in Waiting(c) : i < j => Precedes(loop[i][2], loop[j][2])
  /\ AllPrecede(Range(Live(c)), Range(queue[c]) \cup InLoop(c))
  /\ AllPrecede(Range(queue[c]), InLoop(c))

(* The number of the last line of a thread that was handed to the hub: one *)
(* that is being logged was not yet.                                       *)
InLog(w) == pc[w] = "publish" \/ (pc[w] = "write" /\ ~(w = "main" /\ main = "finish"))

Published(w) == IF InLog(w) THEN logged[w] - 1 ELSE logged[w]

PipeBounds(c) ==
  /\ \A w \in Writers : since[c][w] <= logged[w]
  /\ \A m \in InPipe(c) \ {Done} : since[c][m[1]] <= m[2] /\ m[2] <= Published(m[1])
  /\ Done \in InPipe(c) => main = "returned"

PipeComplete(c) ==
  /\ c \in subs \ dropped =>
       \A w \in Writers : \A i \in since[c][w] + 1 .. Published(w) : <<w, i>> \in InPipe(c)
  /\ c \notin dropped => NoGap(c)
  /\ how = "exit" /\ Done \in Range(Live(c)) /\ c \notin dropped =>
       \A w \in Writers : \A i \in since[c][w] + 1 .. logged[w] : <<w, i>> \in Range(Live(c))

Session(c) ==
  /\ c \in subs <=> client[c] \in {"backlog", "live"}
  /\ client[c] \in {"idle", "backlog"} => sent[c] = <<>> /\ replayed[c] = 0
  /\ client[c] = "idle" => queue[c] = <<>> /\ Waiting(c) = {}
  /\ replayed[c] <= Len(sent[c])
  /\ client[c] = "closed" /\ c \notin gone => Live(c) # <<>> /\ IsEnd(EndedAt(c))

ClientInv(c) == PipeOrdered(c) /\ PipeBounds(c) /\ PipeComplete(c) /\ Session(c)

StreamInv == \A c \in Clients : ClientInv(c)
=============================================================================
