-------------------------- MODULE LogStreamProofs --------------------------
(***************************************************************************)
(* Proofs about LogStream, for every finite set of clients, any number of  *)
(* pipes and lines, any size of the queues and of the replayed log, and    *)
(* whichever lines of the script read "__done__".  The log of a run with   *)
(* its subscribers implements the log buffer, so that the invariants of    *)
(* LogBufferProofs hold of it too.                                         *)
(***************************************************************************)
EXTENDS LogStream, LogBufferProofs, SequenceTheorems

(* The steps of the buffer that a step of the log stream takes *)

LEMMA StepsOfBuffer == [Next]_vars => [BufferNext \/ BufferOver]_bufferVars
<1> SUFFICES ASSUME [Next]_vars PROVE [BufferNext \/ BufferOver]_bufferVars
  OBVIOUS
<1>1. CASE Silent BY <1>1 DEF BufferNext
<1>2. ASSUME NEW w \in Writers, PublishLine(w) PROVE BufferNext
  BY <1>2 DEF PublishLine, BufferNext
<1>3. CASE PublishEnd BY <1>3 DEF PublishEnd, BufferNext
<1>4. CASE Deliver BY <1>4 DEF Deliver
<1>5. ASSUME NEW c \in Clients, Connect(c) \/ ClientStep(c) \/ Leave(c) PROVE UNCHANGED bufferVars
  BY <1>5 DEF Connect, ClientStep, SendBacklog, Forward, Leave
<1>6. CASE Over BY <1>6 DEF Over, vars
<1>7. CASE UNCHANGED vars BY <1>7 DEF vars
<1> QED BY <1>1, <1>2, <1>3, <1>4, <1>5, <1>6, <1>7 DEF Next

(* The log hub and its clients never disturb the buffer: the log of a run  *)
(* with any number of subscribers is an execution of the buffer alone.     *)
THEOREM BufferIsImplemented == Spec => BufferSpec
<1>1. Init => BufferInit BY DEF Init
<1>2. [Next]_vars => [BufferNext \/ BufferOver]_bufferVars BY StepsOfBuffer
<1> QED BY <1>1, <1>2, PTL DEF Spec, BufferSpec

(* What is proved of the buffer alone holds of the buffer with subscribers.  *)
THEOREM StreamBuffer == Spec => [](BufferTypeOK /\ ThreadInv)
<1> QED BY BufferIsImplemented, BufferInvariant, PTL

-----------------------------------------------------------------------------
(* Sequences of messages *)

LEMMA TailFacts ==
  ASSUME NEW S, NEW s \in Seq(S), s # <<>>
  PROVE  /\ Tail(s) \in Seq(S) /\ Head(s) \in S /\ Head(s) = s[1]
         /\ Len(s) \in Nat \ {0} /\ Len(Tail(s)) = Len(s) - 1
         /\ DOMAIN s = 1..Len(s) /\ DOMAIN Tail(s) = 1..Len(s) - 1
         /\ \A i \in 1..Len(s) - 1 : Tail(s)[i] = s[i + 1]
         /\ \A i \in 2..Len(s) : i - 1 \in DOMAIN Tail(s) /\ Tail(s)[i - 1] = s[i]
  OBVIOUS

LEMMA TailRange ==
  ASSUME NEW S, NEW s \in Seq(S), s # <<>>
  PROVE  Range(s) = {Head(s)} \cup Range(Tail(s))
<1> DEFINE t == Tail(s)
           h == Head(s)
<1>1. /\ h = s[1] /\ Len(s) \in Nat \ {0} /\ DOMAIN s = 1..Len(s) /\ DOMAIN t = 1..Len(s) - 1
      /\ \A i \in 1..Len(s) - 1 : t[i] = s[i + 1]
      /\ \A i \in 2..Len(s) : i - 1 \in DOMAIN t /\ t[i - 1] = s[i]
  BY TailFacts
<1> HIDE DEF t, h
<1>2. \A x \in Range(s) : x = h \/ x \in Range(t)
  <2> SUFFICES ASSUME NEW i \in DOMAIN s PROVE s[i] = h \/ s[i] \in Range(t)
    BY DEF Range
  <2>1. CASE i = 1 BY <1>1, <2>1
  <2>2. CASE i # 1
    <3>1. i \in 2..Len(s) BY <1>1, <2>2
    <3> QED BY <1>1, <3>1 DEF Range
  <2> QED BY <2>1, <2>2
<1>3. \A x \in Range(t) : x \in Range(s)
  <2> SUFFICES ASSUME NEW i \in DOMAIN t PROVE t[i] \in Range(s)
    BY DEF Range
  <2>1. i + 1 \in DOMAIN s /\ t[i] = s[i + 1] BY <1>1
  <2> QED BY <2>1 DEF Range
<1>4. h \in Range(s) BY <1>1 DEF Range
<1> QED BY <1>2, <1>3, <1>4 DEF t, h

(* The first of an ordered sequence precedes what follows it. *)
LEMMA TailOrdered ==
  ASSUME NEW S, NEW s \in Seq(S), s # <<>>, Ordered(s)
  PROVE  Ordered(Tail(s)) /\ AllPrecede({Head(s)}, Range(Tail(s)))
<1> DEFINE t == Tail(s)
           h == Head(s)
<1>1. /\ h = s[1] /\ Len(s) \in Nat \ {0} /\ DOMAIN s = 1..Len(s) /\ DOMAIN t = 1..Len(s) - 1
      /\ \A i \in 1..Len(s) - 1 : t[i] = s[i + 1]
  BY TailFacts
<1> HIDE DEF t, h
<1>2. Ordered(t)
  <2> SUFFICES ASSUME NEW i \in DOMAIN t, NEW j \in DOMAIN t, i < j PROVE Precedes(t[i], t[j])
    BY DEF Ordered
  <2>1. /\ i + 1 \in DOMAIN s /\ j + 1 \in DOMAIN s /\ i + 1 < j + 1
        /\ t[i] = s[i + 1] /\ t[j] = s[j + 1]
    BY <1>1
  <2> QED BY <2>1 DEF Ordered
<1>3. AllPrecede({h}, Range(t))
  <2> SUFFICES ASSUME NEW i \in DOMAIN t PROVE Precedes(h, t[i])
    BY DEF AllPrecede, Range
  <2>1. 1 \in DOMAIN s /\ i + 1 \in DOMAIN s /\ 1 < i + 1 /\ t[i] = s[i + 1] BY <1>1
  <2> QED BY <1>1, <2>1 DEF Ordered
<1> QED BY <1>2, <1>3 DEF t, h

LEMMA AppendOrdered ==
  ASSUME NEW S, NEW s \in Seq(S), NEW m \in S, Ordered(s), AllPrecede(Range(s), {m})
  PROVE  Ordered(Append(s, m))
<1> DEFINE t == Append(s, m)
<1>1. /\ DOMAIN t = 1..Len(s) + 1 /\ DOMAIN s = 1..Len(s) /\ Len(s) \in Nat
      /\ t[Len(s) + 1] = m
      /\ \A i \in 1..Len(s) : t[i] = s[i]
  OBVIOUS
<1> HIDE DEF t
<1> SUFFICES ASSUME NEW i \in DOMAIN t, NEW j \in DOMAIN t, i < j PROVE Precedes(t[i], t[j])
  BY DEF Ordered, t
<1>2. i \in 1..Len(s) /\ t[i] = s[i] BY <1>1
<1>3. CASE j \in 1..Len(s) BY <1>1, <1>2, <1>3 DEF Ordered
<1>4. CASE j = Len(s) + 1
  <2>1. s[i] \in Range(s) BY <1>1, <1>2 DEF Range
  <2> QED BY <1>1, <1>2, <1>4, <2>1 DEF AllPrecede
<1> QED BY <1>1, <1>3, <1>4

(* What is left of a sequence after its first k elements. *)
LEMMA SubSeqFacts ==
  ASSUME NEW s \in Seq(Message), NEW k \in Nat, k <= Len(s)
  PROVE  /\ SubSeq(s, k + 1, Len(s)) \in Seq(Message)
         /\ Len(SubSeq(s, k + 1, Len(s))) = Len(s) - k
         /\ \A j \in 1..Len(s) - k : SubSeq(s, k + 1, Len(s))[j] = s[k + j]
<1>1. Len(s) \in Nat OBVIOUS
<1> DEFINE n == Len(s)
<1> HIDE DEF n
<1>2. n \in Nat /\ k + 1 \in Int /\ n \in Int /\ k <= n BY <1>1 DEF n
<1>3. \A i \in k + 1 .. n : s[i] \in Message BY <1>2 DEF n
<1>4. /\ SubSeq(s, k + 1, n) \in Seq(Message)
      /\ Len(SubSeq(s, k + 1, n)) = IF k + 1 <= n THEN n - (k + 1) + 1 ELSE 0
      /\ \A i \in 1 .. n - (k + 1) + 1 : SubSeq(s, k + 1, n)[i] = s[k + 1 + i - 1]
  BY <1>2, <1>3, SubSeqProperties
<1>5. Len(SubSeq(s, k + 1, n)) = n - k BY <1>2, <1>4
<1>6. ASSUME NEW j \in 1 .. n - k PROVE SubSeq(s, k + 1, n)[j] = s[k + j]
  <2>1. j \in 1 .. n - (k + 1) + 1 /\ k + 1 + j - 1 = k + j BY <1>2
  <2> QED BY <1>4, <2>1
<1> QED BY <1>4, <1>5, <1>6 DEF n

(* The live lines of a client grow with what it receives. *)
LEMMA SubSeqOfAppend ==
  ASSUME NEW s \in Seq(Message), NEW m \in Message, NEW k \in Nat, k <= Len(s)
  PROVE  /\ SubSeq(s, k + 1, Len(s)) \in Seq(Message)
         /\ SubSeq(Append(s, m), k + 1, Len(Append(s, m)))
              = Append(SubSeq(s, k + 1, Len(s)), m)
<1> DEFINE u == SubSeq(Append(s, m), k + 1, Len(s) + 1)
           v == Append(SubSeq(s, k + 1, Len(s)), m)
<1>1. Len(s) \in Nat /\ Append(s, m) \in Seq(Message) /\ Len(Append(s, m)) = Len(s) + 1
  OBVIOUS
<1>2. /\ SubSeq(s, k + 1, Len(s)) \in Seq(Message)
      /\ Len(SubSeq(s, k + 1, Len(s))) = Len(s) - k
      /\ \A i \in 1..Len(s) - k : SubSeq(s, k + 1, Len(s))[i] = s[k + i]
  BY SubSeqFacts
<1>3. /\ u \in Seq(Message) /\ Len(u) = Len(s) + 1 - k
      /\ \A i \in 1..Len(s) + 1 - k : u[i] = Append(s, m)[k + i]
  <2>1. k <= Len(Append(s, m)) BY <1>1
  <2> QED BY <1>1, <2>1, SubSeqFacts
<1>4. /\ v \in Seq(Message) /\ Len(v) = Len(s) + 1 - k
      /\ \A i \in 1..Len(s) - k : v[i] = s[k + i]
      /\ v[Len(s) + 1 - k] = m
  BY <1>1, <1>2
<1>5. \A i \in 1..Len(s) + 1 - k : u[i] = v[i]
  <2> SUFFICES ASSUME NEW i \in 1..Len(s) + 1 - k PROVE u[i] = v[i]
    OBVIOUS
  <2>1. CASE i \in 1..Len(s) - k
    <3>1. Append(s, m)[k + i] = s[k + i] BY <1>1, <2>1
    <3> QED BY <1>3, <1>4, <2>1, <3>1
  <2>2. CASE i = Len(s) + 1 - k
    <3>1. Append(s, m)[k + i] = m BY <1>1, <2>2
    <3> QED BY <1>3, <1>4, <2>2, <3>1
  <2> QED BY <1>1, <2>1, <2>2
<1>6. u = v
  <2> HIDE DEF u, v
  <2> QED BY <1>1, <1>3, <1>4, <1>5, SeqEqual
<1> QED BY <1>1, <1>2, <1>6

-----------------------------------------------------------------------------
(* The event loop *)

(* A broadcast adds one callback for every subscriber, behind the others. *)
LEMMA BroadcastFacts ==
  ASSUME TypeOK, NEW m \in Message, Broadcast(m)
  PROVE  /\ loop' \in Seq(Clients \X Message)
         /\ DOMAIN loop \subseteq DOMAIN loop'
         /\ \A k \in DOMAIN loop : loop'[k] = loop[k]
         /\ \A k \in DOMAIN loop' \ DOMAIN loop :
              /\ loop'[k][1] \in subs /\ loop'[k][2] = m
              /\ \A j \in DOMAIN loop : j < k
              /\ \A j \in DOMAIN loop' \ DOMAIN loop : loop'[j][1] = loop'[k][1] => j = k
         /\ \A c \in subs : \E k \in DOMAIN loop' \ DOMAIN loop : loop'[k][1] = c
<1> DEFINE n == Cardinality(subs)
<1>1. n \in Nat
  <2>1. IsFiniteSet(subs) BY ClientsAssumption, FS_Subset DEF TypeOK
  <2> QED BY <2>1, FS_CardinalityType
<1> HIDE DEF n
<1>2. PICK order \in Bijection(1..n, subs) :
        loop' = loop \o [i \in 1..n |-> <<order[i], m>>]
  BY DEF Broadcast, n
<1> DEFINE new == [i \in 1..n |-> <<order[i], m>>]
<1>3. /\ order \in [1..n -> subs]
      /\ \A i, j \in 1..n : order[i] = order[j] => i = j
      /\ \A c \in subs : \E i \in 1..n : order[i] = c
  BY DEF Bijection, Injection, Surjection, IsInjective
<1>4. /\ new \in Seq(Clients \X Message) /\ Len(new) = n
      /\ \A i \in 1..n : new[i] = <<order[i], m>>
  <2>1. \A i \in 1..n : <<order[i], m>> \in Clients \X Message BY <1>3 DEF TypeOK
  <2>2. new \in [1..n -> Clients \X Message] BY <2>1
  <2>3. new \in Seq(Clients \X Message) BY <1>1, <2>2, SeqDef
  <2> QED BY <1>1, <2>3
<1>5. loop' = loop \o new BY <1>2
<1>6. loop \in Seq(Clients \X Message) BY DEF TypeOK
<1> HIDE DEF new
<1>7. /\ loop' \in Seq(Clients \X Message)
      /\ Len(loop) \in Nat
      /\ DOMAIN loop = 1..Len(loop) /\ DOMAIN loop' = 1..Len(loop) + n
      /\ \A k \in 1..Len(loop) : loop'[k] = loop[k]
      /\ \A k \in Len(loop) + 1 .. Len(loop) + n : loop'[k] = new[k - Len(loop)]
  <2>1. /\ loop \o new \in Seq(Clients \X Message)
        /\ Len(loop \o new) = Len(loop) + n
        /\ \A k \in 1 .. Len(loop) + n :
             (loop \o new)[k] = IF k <= Len(loop) THEN loop[k] ELSE new[k - Len(loop)]
    BY <1>4, <1>6, ConcatProperties
  <2>2. Len(loop) \in Nat /\ DOMAIN loop = 1..Len(loop) BY <1>6
  <2>3. DOMAIN loop' = 1..Len(loop) + n BY <1>1, <1>5, <2>1, LenProperties
  <2>4. \A k \in 1..Len(loop) : loop'[k] = loop[k] BY <1>1, <1>5, <2>1, <2>2
  <2>5. \A k \in Len(loop) + 1 .. Len(loop) + n : loop'[k] = new[k - Len(loop)]
    BY <1>1, <1>5, <2>1, <2>2
  <2> QED BY <1>5, <2>1, <2>2, <2>3, <2>4, <2>5
<1>8. \A k \in DOMAIN loop' \ DOMAIN loop :
        /\ k - Len(loop) \in 1..n
        /\ loop'[k] = <<order[k - Len(loop)], m>>
  <2> SUFFICES ASSUME NEW k \in DOMAIN loop' \ DOMAIN loop
               PROVE  /\ k - Len(loop) \in 1..n
                      /\ loop'[k] = <<order[k - Len(loop)], m>>
    OBVIOUS
  <2>1. k \in Len(loop) + 1 .. Len(loop) + n BY <1>1, <1>7
  <2>2. k - Len(loop) \in 1..n BY <1>1, <1>7, <2>1
  <2> QED BY <1>4, <1>7, <2>1, <2>2
<1>9. \A i \in 1..n : i + Len(loop) \in DOMAIN loop' \ DOMAIN loop
  BY <1>1, <1>7
<1>10. \A k \in DOMAIN loop' \ DOMAIN loop :
         /\ loop'[k][1] \in subs /\ loop'[k][2] = m
         /\ \A j \in DOMAIN loop : j < k
  BY <1>1, <1>3, <1>7, <1>8
<1>11. ASSUME NEW k \in DOMAIN loop' \ DOMAIN loop, NEW j \in DOMAIN loop' \ DOMAIN loop,
              loop'[j][1] = loop'[k][1]
       PROVE  j = k
  <2>1. order[j - Len(loop)] = order[k - Len(loop)] BY <1>8, <1>11
  <2>2. j - Len(loop) = k - Len(loop) BY <1>3, <1>8, <2>1
  <2> QED BY <1>7, <2>2
<1>12. ASSUME NEW c \in subs PROVE \E k \in DOMAIN loop' \ DOMAIN loop : loop'[k][1] = c
  <2>1. PICK i \in 1..n : order[i] = c BY <1>3
  <2>2. /\ i + Len(loop) \in DOMAIN loop' \ DOMAIN loop
        /\ i + Len(loop) - Len(loop) = i
    BY <1>7, <1>9
  <2>3. loop'[i + Len(loop)] = <<order[i], m>> BY <1>8, <2>2
  <2> QED BY <2>1, <2>2, <2>3
<1>13. DOMAIN loop \subseteq DOMAIN loop' BY <1>1, <1>7
<1> QED BY <1>7, <1>10, <1>11, <1>12, <1>13

(* What waits on the event loop for client c when the first callback has   *)
(* been run.                                                               *)
LEMMA DeliverFacts ==
  ASSUME TypeOK, loop # <<>>, loop' = Tail(loop), NEW c \in Clients,
         \A i, j \in Waiting(c) : i < j => Precedes(loop[i][2], loop[j][2]),
         UNCHANGED how
  PROVE  /\ Head(loop) \in Clients \X Message /\ loop' \in Seq(Clients \X Message)
         /\ InLoop(c) = InLoop(c)' \cup (IF c = Head(loop)[1] THEN {Head(loop)[2]} ELSE {})
         /\ c = Head(loop)[1] => AllPrecede({Head(loop)[2]}, InLoop(c)')
         /\ (\A i, j \in Waiting(c) : i < j => Precedes(loop[i][2], loop[j][2]))'
         /\ Waiting(c) = {} => Waiting(c)' = {} /\ c # Head(loop)[1]
<1> DEFINE t == Tail(loop)
           h == Head(loop)
<1>1. loop \in Seq(Clients \X Message) BY DEF TypeOK
<1>2. /\ h = loop[1] /\ Len(loop) \in Nat \ {0} /\ DOMAIN loop = 1..Len(loop)
      /\ DOMAIN t = 1..Len(loop) - 1
      /\ \A i \in 1..Len(loop) - 1 : t[i] = loop[i + 1]
      /\ \A i \in 2..Len(loop) : i - 1 \in DOMAIN t /\ t[i - 1] = loop[i]
      /\ h \in Clients \X Message /\ t \in Seq(Clients \X Message)
  BY <1>1, TailFacts
<1>3. loop' = t OBVIOUS
<1> HIDE DEF t, h
<1>4. Waiting(c)' = {k \in DOMAIN t : t[k][1] = c} BY <1>3 DEF Waiting
<1>5. \A k \in Waiting(c)' : k + 1 \in Waiting(c) /\ k + 1 # 1 /\ loop[k + 1] = t[k]
  BY <1>2, <1>4 DEF Waiting
<1>6. \A k \in Waiting(c) : \/ k = 1 /\ c = h[1]
                            \/ k - 1 \in Waiting(c)' /\ t[k - 1] = loop[k]
  <2> SUFFICES ASSUME NEW k \in Waiting(c), k # 1
               PROVE  k - 1 \in Waiting(c)' /\ t[k - 1] = loop[k]
    BY <1>2 DEF Waiting
  <2>1. k \in 2..Len(loop) /\ loop[k][1] = c BY <1>2 DEF Waiting
  <2> QED BY <1>2, <1>4, <2>1
<1>7. c = h[1] => 1 \in Waiting(c) BY <1>2 DEF Waiting
<1>8. InLoop(c) = {loop[k][2] : k \in Waiting(c)} /\ InLoop(c)' = {t[k][2] : k \in Waiting(c)'}
  BY <1>3 DEF InLoop
<1>9. InLoop(c) = InLoop(c)' \cup (IF c = h[1] THEN {h[2]} ELSE {})
  <2>1. \A x \in InLoop(c) : x \in InLoop(c)' \/ (c = h[1] /\ x = h[2])
    <3> SUFFICES ASSUME NEW k \in Waiting(c)
                 PROVE  loop[k][2] \in InLoop(c)' \/ (c = h[1] /\ loop[k][2] = h[2])
      BY <1>8
    <3> QED BY <1>2, <1>6, <1>8
  <2>2. \A x \in InLoop(c)' : x \in InLoop(c) BY <1>5, <1>8
  <2>3. c = h[1] => h[2] \in InLoop(c) BY <1>2, <1>7, <1>8
  <2> QED BY <2>1, <2>2, <2>3
<1>10. c = h[1] => AllPrecede({h[2]}, InLoop(c)')
  <2> SUFFICES ASSUME c = h[1], NEW k \in Waiting(c)' PROVE Precedes(h[2], t[k][2])
    BY <1>8 DEF AllPrecede
  <2>1. k \in Nat /\ k > 0 BY <1>2, <1>4
  <2>2. 1 < k + 1 BY <2>1
  <2> QED BY <1>2, <1>5, <1>7, <2>2
<1>11. \A i, j \in Waiting(c)' : i < j => Precedes(t[i][2], t[j][2])
  <2> SUFFICES ASSUME NEW i \in Waiting(c)', NEW j \in Waiting(c)', i < j
               PROVE  Precedes(t[i][2], t[j][2])
    OBVIOUS
  <2>1. i + 1 < j + 1 BY <1>2, <1>4
  <2> QED BY <1>5, <2>1
<1>12. (\A i, j \in Waiting(c) : i < j => Precedes(loop[i][2], loop[j][2]))'
  BY <1>3, <1>11 DEF Precedes
<1>13. Waiting(c) = {} => Waiting(c)' = {} /\ c # h[1] BY <1>5, <1>7
<1> QED BY <1>2, <1>3, <1>9, <1>10, <1>12, <1>13 DEF h

-----------------------------------------------------------------------------
(* Type correctness *)

LEMMA InitStreamType == ASSUME Init PROVE TypeOK
<1>1. BufferTypeOK BY InitType DEF Init
<1>2. logged \in [Writers -> Nat] BY <1>1 DEF BufferTypeOK
<1>3. QueueSize \in Nat BY StreamAssumption
<1> QED BY <1>1, <1>2, <1>3 DEF Init, TypeOK

LEMMA StepStreamType == ASSUME TypeOK, ThreadInv, [Next]_vars PROVE TypeOK'
<1>1. BufferTypeOK'
  BY StepsOfBuffer, StepType DEF TypeOK, Step
<1>2. StreamAssumption BY StreamAssumption
<1>3. ASSUME UNCHANGED streamVars PROVE TypeOK'
  BY <1>1, <1>3 DEF streamVars, TypeOK
<1>4. ASSUME NEW m \in Message, Broadcast(m) PROVE TypeOK'
  <2>1. loop' \in Seq(Clients \X Message) BY <1>4, BroadcastFacts
  <2> QED BY <1>1, <1>4, <2>1 DEF Broadcast, TypeOK
<1>5. ASSUME NEW w \in Writers, PublishLine(w) PROVE TypeOK'
  <2>1. pc[w] = "publish" /\ Broadcast(<<w, logged[w]>>) BY <1>5 DEF PublishLine, Publish
  <2>2. logged[w] # 0 BY <2>1 DEF ThreadInv, Writers, TypeOK, BufferTypeOK
  <2>3. <<w, logged[w]>> \in Message BY <2>2 DEF Message, Line, TypeOK, BufferTypeOK
  <2> QED BY <1>4, <2>1, <2>3
<1>6. CASE PublishEnd BY <1>4, <1>6 DEF PublishEnd, Message
<1>7. CASE Deliver
  <2>1. loop \in Seq(Clients \X Message) /\ loop # <<>> BY <1>7 DEF Deliver, TypeOK
  <2>2. Head(loop) \in Clients \X Message /\ Tail(loop) \in Seq(Clients \X Message)
    BY <2>1, TailFacts
  <2> DEFINE c == Head(loop)[1]
  <2>3. c \in Clients /\ Head(loop)[2] \in Message BY <2>2
  <2>4. /\ loop' = Tail(loop)
        /\ UNCHANGED <<subs, client, gone, sent, replayed, since, says>>
        /\ \/ Len(queue[c]) < QueueSize /\ UNCHANGED dropped
              /\ queue' = [queue EXCEPT ![c] = Append(queue[c], Head(loop)[2])]
           \/ dropped' = dropped \cup {c} /\ UNCHANGED queue
    BY <1>7 DEF Deliver, TypeOK
  <2> HIDE DEF c
  <2>5. queue' \in [Clients -> Seq(Message)] /\ \A d \in Clients : Len(queue'[d]) <= QueueSize
    <3>1. CASE UNCHANGED queue BY <3>1 DEF TypeOK
    <3>2. CASE /\ Len(queue[c]) < QueueSize
               /\ queue' = [queue EXCEPT ![c] = Append(queue[c], Head(loop)[2])]
      <4>1. queue[c] \in Seq(Message) BY <2>3 DEF TypeOK
      <4>2. /\ Append(queue[c], Head(loop)[2]) \in Seq(Message)
            /\ Len(Append(queue[c], Head(loop)[2])) = Len(queue[c]) + 1
            /\ Len(queue[c]) \in Nat
        BY <2>3, <4>1
      <4>3. Len(queue[c]) + 1 <= QueueSize BY <1>2, <3>2, <4>2 DEF StreamAssumption
      <4> QED BY <2>3, <3>2, <4>2, <4>3 DEF TypeOK
    <3> QED BY <2>4, <3>1, <3>2
  <2> QED BY <1>1, <2>2, <2>3, <2>4, <2>5 DEF TypeOK
<1>8. ASSUME NEW c \in Clients, Connect(c) PROVE TypeOK'
  BY <1>1, <1>8 DEF Connect, TypeOK, BufferTypeOK
<1>9. ASSUME NEW c \in Clients, SendBacklog(c) PROVE TypeOK'
  <2>1. /\ Stored \in Seq(Message) /\ Len(Stored) \in Nat
    <3>1. table \in Seq(Line) /\ BacklogLimit \in Nat BY <1>2 DEF TypeOK, BufferTypeOK, StreamAssumption
    <3>2. table \in Seq(Message) BY <3>1, SeqMonotonic DEF Message
    <3> QED BY <3>1, <3>2 DEF Stored
  <2>2. client' \in [Clients -> {"idle", "backlog", "live", "closed"}] /\ subs' \subseteq Clients
    BY <1>9 DEF SendBacklog, Unsubscribe, TypeOK
  <2>3. sent' \in [Clients -> Seq(Message)] /\ replayed' \in [Clients -> Nat]
    BY <1>9, <2>1 DEF SendBacklog, TypeOK
  <2> QED BY <1>1, <1>9, <2>2, <2>3 DEF SendBacklog, TypeOK
<1>10. ASSUME NEW c \in Clients, Forward(c) PROVE TypeOK'
  <2>1. queue[c] \in Seq(Message) /\ queue[c] # <<>> BY <1>10 DEF Forward, TypeOK
  <2>2. /\ Tail(queue[c]) \in Seq(Message) /\ Head(queue[c]) \in Message
        /\ Len(Tail(queue[c])) = Len(queue[c]) - 1 /\ Len(queue[c]) \in Nat
    BY <2>1, TailFacts
  <2>3. queue' = [queue EXCEPT ![c] = Tail(queue[c])] BY <1>10 DEF Forward, TypeOK
  <2>4. queue' \in [Clients -> Seq(Message)] BY <2>2, <2>3 DEF TypeOK
  <2>5. \A d \in Clients : Len(queue'[d]) <= QueueSize
    <3>1. Len(queue[c]) - 1 <= QueueSize BY <1>2, <2>2 DEF TypeOK, StreamAssumption
    <3> QED BY <2>2, <2>3, <3>1 DEF TypeOK
  <2>6. sent' \in [Clients -> Seq(Message)]
    <3>1. sent' = sent \/ sent' = [sent EXCEPT ![c] = Append(sent[c], Head(queue[c]))]
      BY <1>10 DEF Forward, TypeOK
    <3>2. sent[c] \in Seq(Message) BY DEF TypeOK
    <3>3. Append(sent[c], Head(queue[c])) \in Seq(Message) BY <2>2, <3>2
    <3> QED BY <3>1, <3>3 DEF TypeOK
  <2>7. client' \in [Clients -> {"idle", "backlog", "live", "closed"}] /\ subs' \subseteq Clients
    BY <1>10 DEF Forward, Unsubscribe, TypeOK
  <2> QED BY <1>1, <1>10, <2>4, <2>5, <2>6, <2>7 DEF Forward, TypeOK
<1>11. ASSUME NEW c \in Clients, Leave(c) PROVE TypeOK'
  BY <1>1, <1>11 DEF Leave, TypeOK
<1>12. CASE UNCHANGED vars BY <1>3, <1>12 DEF vars
<1> QED
  BY <1>3, <1>5, <1>6, <1>7, <1>8, <1>9, <1>10, <1>11, <1>12 DEF Next, ClientStep, Over

(* Every reachable state of the log stream has the declared shape: above    *)
(* all, a queue never holds more than its size, whoever fills it.           *)
THEOREM StreamTypeCorrect == Spec => []TypeOK
<1>1. Init => TypeOK BY InitStreamType
<1>2. TypeOK /\ ThreadInv /\ [Next]_vars => TypeOK' BY StepStreamType
<1> QED BY <1>1, <1>2, StreamBuffer, PTL DEF Spec

-----------------------------------------------------------------------------
(* What the steps of the buffer mean for the log hub *)

(* A line that a thread starts to log is not published yet. *)
LEMMA AddPublishesNothing ==
  ASSUME BufferTypeOK, NEW w \in Writers, pc[w] = "idle", Add(w),
         ~(w = "main" /\ main' = "finish"),
         \A v \in Writers \ {w} : pc'[v] = pc[v] /\ logged'[v] = logged[v]
                                  /\ (v = "main" => main' = main)
  PROVE  \A v \in Writers : Published(v)' = Published(v) /\ logged[v] <= logged'[v]
<1>1. logged' = [logged EXCEPT ![w] = logged[w] + 1] /\ logged[w] \in Nat
  BY DEF Add, BufferTypeOK
<1>2. logged'[w] = logged[w] + 1 BY <1>1 DEF BufferTypeOK
<1>3. pc'[w] = "write" \/ pc'[w] = "publish" BY DEF Add, BufferTypeOK
<1>4. Published(w) = logged[w] BY DEF Published, InLog
<1>5. Published(w)' = logged[w] BY <1>1, <1>2, <1>3 DEF Published, InLog
<1>6. \A v \in Writers \ {w} : Published(v)' = Published(v) BY DEF Published, InLog
<1>7. \A v \in Writers : logged[v] <= logged'[v] BY <1>1 DEF BufferTypeOK
<1> QED BY <1>4, <1>5, <1>6, <1>7

(* The steps that hand nothing to the hub publish nothing; a script exits   *)
(* once, before the end is published, and logs nothing after it.            *)
LEMMA SilentFacts ==
  ASSUME BufferTypeOK, ThreadInv, Silent
  PROVE  /\ \A w \in Writers : Published(w)' = Published(w) /\ logged[w] <= logged'[w]
         /\ how' = "exit" => how = "exit" \/ main = "run"
         /\ main = "returned" => main' = "returned" /\ how' = how
         /\ how = "exit" => UNCHANGED logged
<1> DEFINE Goal ==
      /\ \A w \in Writers : Published(w)' = Published(w) /\ logged[w] <= logged'[w]
      /\ how' = "exit" => how = "exit" \/ main = "run"
      /\ main = "returned" => main' = "returned" /\ how' = how
      /\ how = "exit" => UNCHANGED logged
<1> SUFFICES Goal
  OBVIOUS
<1> USE StreamsAssumption
<1>1. "main" \in Writers /\ (\A w \in Streams : w \in Writers) /\ (\A w \in Writers : logged[w] \in Nat)
  BY DEF Writers, BufferTypeOK
<1>2. ASSUME NEW w \in Writers, Write(w) PROVE Goal
  <2>1. /\ pc[w] = "write"
        /\ pc' = [pc EXCEPT ![w] = IF w = "main" /\ main = "finish" THEN "idle" ELSE "publish"]
        /\ UNCHANGED <<logged, main, how>>
    BY <1>2 DEF Write
  <2>2. /\ pc'[w] = IF w = "main" /\ main = "finish" THEN "idle" ELSE "publish"
        /\ \A v \in Writers \ {w} : pc'[v] = pc[v]
    BY <2>1 DEF BufferTypeOK
  <2>3. \A v \in Writers : InLog(v)' <=> InLog(v) BY <2>1, <2>2 DEF InLog
  <2>4. \A v \in Writers : Published(v)' = Published(v) BY <2>1, <2>3 DEF Published
  <2> QED BY <1>1, <2>1, <2>4
<1>3. ASSUME NEW w \in Writers, Read(w) PROVE Goal
  <2>1. /\ w \in Streams \ eof /\ pc[w] = "idle" /\ Add(w) /\ UNCHANGED <<eof, main, how>>
    BY <1>3 DEF Read
  <2>2. \A v \in Writers \ {w} : pc'[v] = pc[v] /\ logged'[v] = logged[v]
    BY <2>1, AddPreservesBatches
  <2>3. how # "exit" BY <2>1 DEF ThreadInv
  <2>4. ~(w = "main" /\ main' = "finish") BY <2>1
  <2> QED BY <2>1, <2>2, <2>3, <2>4, AddPublishesNothing
<1>4. ASSUME NEW w \in Writers, EndOfFile(w) PROVE Goal
  BY <1>1, <1>4 DEF EndOfFile, Published, InLog
<1>5. CASE TimerFires \/ TimedFlush \/ TimedWrite
  BY <1>1, <1>5 DEF TimerFires, TimedFlush, TimedWrite, Published, InLog
<1>6. ASSUME pc["main"] = "idle", UNCHANGED <<logged, pc>>
      PROVE  \A w \in Writers : Published(w)' = Published(w) /\ logged[w] <= logged'[w]
  BY <1>1, <1>6 DEF Published, InLog
<1>7. CASE SpawnFails \/ Joined \/ TimedOut
  <2>1. main = "run" /\ UNCHANGED <<logged, pc>> BY <1>7 DEF SpawnFails, Joined, TimedOut
  <2>2. pc["main"] = "idle" /\ main # "returned" BY <2>1 DEF ThreadInv
  <2> QED BY <1>6, <2>1, <2>2
<1>8. CASE LogEnding
  <2>1. /\ main = "log" /\ main' = "close" /\ Add("main") /\ UNCHANGED how
        /\ pc["main"] = "idle" /\ how # "exit"
    BY <1>8 DEF LogEnding, ThreadInv
  <2>2. \A v \in Writers \ {"main"} : pc'[v] = pc[v] /\ logged'[v] = logged[v]
    BY <1>1, <2>1, AddPreservesBatches
  <2> QED BY <1>1, <2>1, <2>2, AddPublishesNothing
<1>9. CASE Close
  <2>1. /\ main = "close" /\ main' = "finish" /\ pc["main"] = "idle" /\ UNCHANGED <<logged, how>>
        /\ pc' = [pc EXCEPT !["main"] = IF buf = <<>> THEN "idle" ELSE "write"]
    BY <1>9 DEF Close
  <2>2. /\ pc'["main"] \in {"idle", "write"}
        /\ \A v \in Writers \ {"main"} : pc'[v] = pc[v]
    BY <1>1, <2>1 DEF BufferTypeOK
  <2>3. \A v \in Writers : InLog(v)' <=> InLog(v) BY <2>1, <2>2 DEF InLog
  <2>4. \A v \in Writers : Published(v)' = Published(v) BY <2>1, <2>3 DEF Published
  <2> QED BY <1>1, <2>1, <2>4
<1>10. CASE Finish
  <2>1. pc["main"] = "idle" /\ main = "finish" /\ UNCHANGED <<logged, pc>>
    BY <1>10 DEF Finish
  <2>2. how' = how \/ how' = "error" BY <1>10 DEF Finish, EndRun
  <2> QED BY <1>6, <2>1, <2>2
<1> HIDE DEF Goal
<1> QED BY <1>2, <1>3, <1>4, <1>5, <1>7, <1>8, <1>9, <1>10 DEF Silent

(* When the end of a script that exited is published, all its lines are.    *)
LEMMA AllPublished ==
  ASSUME BufferTypeOK, ThreadInv, how = "exit", main = "returned", NEW w \in Writers
  PROVE  Published(w) = logged[w]
<1>1. pc[w] = "idle" BY DEF ThreadInv, Writers
<1> QED BY <1>1 DEF Published, InLog

-----------------------------------------------------------------------------
(* The invariant of a client *)

LEMMA InitStream == ASSUME Init PROVE StreamInv
<1> SUFFICES ASSUME NEW c \in Clients PROVE ClientInv(c)
  BY DEF StreamInv
<1>1. /\ sent[c] = <<>> /\ replayed[c] = 0 /\ queue[c] = <<>> /\ loop = <<>>
      /\ client[c] = "idle" /\ c \notin subs /\ how = "none" /\ since[c] = logged
      /\ \A w \in Writers : logged[w] = 0 /\ pc[w] = "idle"
  BY DEF Init, BufferInit
<1>2. Waiting(c) = {} /\ InLoop(c) = {} BY <1>1 DEF Waiting, InLoop
<1>3. Live(c) = <<>> BY <1>1 DEF Live
<1>4. Range(Live(c)) = {} /\ Range(queue[c]) = {} BY <1>1, <1>3, EmptySequence
<1>5. Ordered(<<>>) BY DEF Ordered
<1>6. PipeOrdered(c) BY <1>1, <1>2, <1>3, <1>4, <1>5 DEF PipeOrdered, AllPrecede
<1>7. InPipe(c) = {} BY <1>2, <1>4 DEF InPipe
<1>8. PipeBounds(c) BY <1>1, <1>7 DEF PipeBounds
<1>9. PipeComplete(c) BY <1>1, <1>4 DEF PipeComplete, NoGap
<1>10. Session(c) BY <1>1, <1>2 DEF Session
<1> QED BY <1>6, <1>8, <1>9, <1>10 DEF ClientInv

(* A pipe that does not change stays ordered, also when the script is seen  *)
(* to have exited: its end is in no pipe then.                              *)
LEMMA OrderKept ==
  ASSUME NEW c, PipeOrdered(c), how' = "exit" => how = "exit" \/ Done \notin InPipe(c),
         sent'[c] = sent[c], replayed'[c] = replayed[c], queue'[c] = queue[c], UNCHANGED loop
  PROVE  PipeOrdered(c)'
<1>1. Live(c)' = Live(c) /\ Waiting(c)' = Waiting(c) /\ InLoop(c)' = InLoop(c)
  BY DEF Live, Waiting, InLoop
<1>2. \A a \in InPipe(c) : \A b : Precedes(a, b) => Precedes(a, b)' BY DEF Precedes
<1>3. Ordered(Live(c))'
  BY <1>1, <1>2 DEF PipeOrdered, Ordered, InPipe, Range
<1>4. Ordered(queue[c])'
  BY <1>2 DEF PipeOrdered, Ordered, InPipe, Range
<1>5. (\A i, j \in Waiting(c) : i < j => Precedes(loop[i][2], loop[j][2]))'
  <2>1. \A i \in Waiting(c) : loop[i][2] \in InPipe(c) BY DEF InLoop, InPipe
  <2> QED BY <1>1, <1>2, <2>1 DEF PipeOrdered
<1>6. AllPrecede(Range(Live(c)), Range(queue[c]) \cup InLoop(c))'
  BY <1>1, <1>2 DEF PipeOrdered, AllPrecede, InPipe
<1>7. AllPrecede(Range(queue[c]), InLoop(c))'
  BY <1>1, <1>2 DEF PipeOrdered, AllPrecede, InPipe
<1> QED BY <1>3, <1>4, <1>5, <1>6, <1>7 DEF PipeOrdered

LEMMA PipeIsOfMessages ==
  ASSUME TypeOK, NEW c \in Clients, Session(c)
  PROVE  /\ Live(c) \in Seq(Message) /\ InPipe(c) \subseteq Message
         /\ sent[c] \in Seq(Message) /\ queue[c] \in Seq(Message) /\ replayed[c] \in Nat
<1>1. sent[c] \in Seq(Message) /\ queue[c] \in Seq(Message) /\ replayed[c] \in Nat
  BY DEF TypeOK
<1>2. Live(c) \in Seq(Message) BY <1>1, SubSeqOfAppend DEF Live, Session, Message
<1>3. Range(Live(c)) \subseteq Message /\ Range(queue[c]) \subseteq Message
  BY <1>1, <1>2 DEF Range
<1>4. InLoop(c) \subseteq Message BY DEF InLoop, Waiting, TypeOK
<1> QED BY <1>1, <1>2, <1>3, <1>4 DEF InPipe

(* A client that a step does not touch, while nothing is published. *)
LEMMA ClientKept ==
  ASSUME TypeOK, NEW c \in Clients, ClientInv(c),
         sent'[c] = sent[c], replayed'[c] = replayed[c], queue'[c] = queue[c], UNCHANGED loop,
         since'[c] = since[c], client'[c] = client[c], c \in subs' <=> c \in subs,
         UNCHANGED <<dropped, says>>, gone \subseteq gone',
         \A w \in Writers : Published(w)' = Published(w) /\ logged[w] <= logged'[w],
         how' = "exit" => how = "exit" \/ main = "run",
         main = "returned" => main' = "returned" /\ how' = how,
         how = "exit" => UNCHANGED logged,
         logged' \in [Writers -> Nat]
  PROVE  ClientInv(c)'
<1>1. Live(c)' = Live(c) /\ InPipe(c)' = InPipe(c) /\ Waiting(c)' = Waiting(c)
  BY DEF Live, InPipe, Waiting, InLoop
<1>2. PipeOrdered(c)'
  <2>1. Done \in InPipe(c) => main = "returned" BY DEF ClientInv, PipeBounds
  <2> QED BY <2>1, OrderKept DEF ClientInv
<1>3. PipeBounds(c)'
  <2>1. \A w \in Writers : since'[c][w] <= logged'[w]
    <3>1. \A w \in Writers : since[c][w] \in Nat /\ logged[w] \in Nat /\ logged'[w] \in Nat
      BY DEF TypeOK, BufferTypeOK
    <3>2. \A w \in Writers : since[c][w] <= logged[w] BY DEF ClientInv, PipeBounds
    <3> QED BY <3>1, <3>2
  <2>2. \A m \in InPipe(c) \ {Done} : m[1] \in Writers
    <3>1. InPipe(c) \subseteq Message BY PipeIsOfMessages DEF ClientInv
    <3> QED BY <3>1 DEF Message, Line
  <2>3. \A m \in InPipe(c)' \ {Done} : since'[c][m[1]] <= m[2] /\ m[2] <= Published(m[1])'
    BY <1>1, <2>2 DEF ClientInv, PipeBounds
  <2>4. Done \in InPipe(c)' => main' = "returned" BY <1>1 DEF ClientInv, PipeBounds
  <2> QED BY <2>1, <2>3, <2>4 DEF PipeBounds
<1>4. PipeComplete(c)'
  <2>1. NoGap(c)' <=> NoGap(c) BY <1>1 DEF NoGap
  <2>2. how' = "exit" /\ Done \in Range(Live(c)) => how = "exit"
    <3>1. Done \in Range(Live(c)) => main = "returned" BY DEF ClientInv, PipeBounds, InPipe
    <3> QED BY <3>1
  <2>3. ClientInv(c) => PipeComplete(c) BY DEF ClientInv
  <2> QED BY <1>1, <2>1, <2>2, <2>3 DEF PipeComplete
<1>5. Session(c)' BY <1>1 DEF ClientInv, Session, EndedAt, IsEnd
<1> QED BY <1>2, <1>3, <1>4, <1>5 DEF ClientInv

(* What a broadcast does to the pipe of a client *)
LEMMA BroadcastPipe ==
  ASSUME TypeOK, NEW m \in Message, Broadcast(m), NEW c \in Clients
  PROVE  /\ InLoop(c)' = InLoop(c) \cup (IF c \in subs THEN {m} ELSE {})
         /\ c \notin subs => Waiting(c)' = Waiting(c)
         /\ Waiting(c) \subseteq Waiting(c)'
         /\ \A k \in Waiting(c)' \ Waiting(c) :
              /\ loop'[k][2] = m /\ c \in subs
              /\ \A j \in Waiting(c) : j < k
              /\ \A j \in Waiting(c)' \ Waiting(c) : j = k
         /\ InPipe(c)' = InPipe(c) \cup (IF c \in subs THEN {m} ELSE {})
         /\ Live(c)' = Live(c)
         /\ UNCHANGED <<sent, replayed, queue, since, client, subs, dropped, gone, says>>
<1> DEFINE old == DOMAIN loop
           new == DOMAIN loop' \ DOMAIN loop
<1>1. /\ old \subseteq DOMAIN loop'
      /\ \A k \in old : loop'[k] = loop[k]
      /\ \A k \in new : /\ loop'[k][1] \in subs /\ loop'[k][2] = m
                        /\ \A j \in old : j < k
                        /\ \A j \in new : loop'[j][1] = loop'[k][1] => j = k
      /\ \A d \in subs : \E k \in new : loop'[k][1] = d
  BY BroadcastFacts
<1>2. Waiting(c) = {k \in old : loop[k][1] = c} /\ Waiting(c)' = {k \in DOMAIN loop' : loop'[k][1] = c}
  BY DEF Waiting
<1>3. Waiting(c) \subseteq Waiting(c)' /\ \A k \in Waiting(c)' \ Waiting(c) : k \in new /\ loop'[k][1] = c
  BY <1>1, <1>2
<1>4. \A k \in Waiting(c)' \ Waiting(c) :
        /\ loop'[k][2] = m /\ c \in subs
        /\ \A j \in Waiting(c) : j < k
        /\ \A j \in Waiting(c)' \ Waiting(c) : j = k
  BY <1>1, <1>2, <1>3
<1>5. c \in subs => \E k \in Waiting(c)' : loop'[k][2] = m BY <1>1, <1>2
<1>6. InLoop(c)' = {loop'[k][2] : k \in Waiting(c)'} /\ InLoop(c) = {loop[k][2] : k \in Waiting(c)}
  BY DEF InLoop
<1>7. \A k \in Waiting(c) : loop'[k] = loop[k] BY <1>1, <1>2
<1>8. InLoop(c)' = InLoop(c) \cup (IF c \in subs THEN {m} ELSE {})
  BY <1>3, <1>4, <1>5, <1>6, <1>7
<1>9. /\ UNCHANGED <<sent, replayed, queue, since, client, subs, dropped, gone, says>>
      /\ Live(c)' = Live(c)
  BY DEF Broadcast, Live
<1>10. InPipe(c)' = InPipe(c) \cup (IF c \in subs THEN {m} ELSE {})
  BY <1>8, <1>9 DEF InPipe
<1> QED BY <1>3, <1>4, <1>8, <1>9, <1>10

(* The pipe stays ordered if what it holds precedes the new message. *)
LEMMA BroadcastOrdered ==
  ASSUME TypeOK, NEW m \in Message, Broadcast(m), NEW c \in Clients, PipeOrdered(c),
         UNCHANGED how, c \in subs => AllPrecede(InPipe(c), {m})
  PROVE  PipeOrdered(c)'
<1>1. /\ InLoop(c)' = InLoop(c) \cup (IF c \in subs THEN {m} ELSE {})
      /\ Waiting(c) \subseteq Waiting(c)'
      /\ \A k \in Waiting(c)' \ Waiting(c) :
           /\ loop'[k][2] = m /\ c \in subs
           /\ \A j \in Waiting(c) : j < k
           /\ \A j \in Waiting(c)' \ Waiting(c) : j = k
      /\ Live(c)' = Live(c) /\ UNCHANGED <<sent, replayed, queue>>
  BY BroadcastPipe
<1>2. \A a, b : Precedes(a, b)' <=> Precedes(a, b) BY DEF Precedes
<1>3. Ordered(Live(c))' /\ Ordered(queue[c])' BY <1>1, <1>2 DEF PipeOrdered, Ordered
<1>4. c \in subs => AllPrecede(Range(Live(c)) \cup Range(queue[c]) \cup InLoop(c), {m})
  BY DEF InPipe
<1>5. AllPrecede(Range(Live(c)), Range(queue[c]) \cup InLoop(c))'
  BY <1>1, <1>2, <1>4 DEF PipeOrdered, AllPrecede
<1>6. AllPrecede(Range(queue[c]), InLoop(c))'
  BY <1>1, <1>2, <1>4 DEF PipeOrdered, AllPrecede
<1>7. (\A i, j \in Waiting(c) : i < j => Precedes(loop[i][2], loop[j][2]))'
  <2> SUFFICES ASSUME NEW i \in Waiting(c)', NEW j \in Waiting(c)', i < j
               PROVE  Precedes(loop'[i][2], loop'[j][2])
    BY <1>2
  <2>1. \A k \in Waiting(c) : loop'[k] = loop[k] BY BroadcastFacts DEF Waiting
  <2>2. i \in Nat /\ j \in Nat
    <3>1. loop' \in Seq(Clients \X Message) BY BroadcastFacts
    <3> QED BY <3>1 DEF Waiting
  <2>3. CASE i \in Waiting(c) /\ j \in Waiting(c) BY <2>1, <2>3 DEF PipeOrdered
  <2>4. CASE i \in Waiting(c) /\ j \notin Waiting(c)
    <3>1. c \in subs /\ loop'[j][2] = m BY <1>1, <2>4
    <3>2. loop'[i][2] \in InLoop(c) BY <2>1, <2>4 DEF InLoop
    <3> QED BY <1>4, <3>1, <3>2 DEF AllPrecede
  <2>5. CASE i \notin Waiting(c)
    <3>1. j \in Waiting(c) => j < i BY <1>1, <2>5
    <3>2. j \notin Waiting(c) => j = i BY <1>1, <2>5
    <3> QED BY <2>2, <3>1, <3>2
  <2> QED BY <2>3, <2>4, <2>5
<1> QED BY <1>3, <1>5, <1>6, <1>7 DEF PipeOrdered

(* A thread hands the line it has logged to the hub: it follows the lines   *)
(* of the thread that are on their way, and comes next after them.          *)
LEMMA PublishLineKeeps ==
  ASSUME TypeOK, ThreadInv, NEW c \in Clients, ClientInv(c),
         NEW w \in Writers, PublishLine(w)
  PROVE  ClientInv(c)'
<1> DEFINE m == <<w, logged[w]>>
<1>1. /\ pc[w] = "publish" /\ pc' = [pc EXCEPT ![w] = "idle"] /\ Broadcast(m)
      /\ UNCHANGED <<logged, main, how>>
  BY DEF PublishLine, Publish
<1>2. logged[w] \in Nat \ {0} BY <1>1 DEF ThreadInv, Writers, TypeOK, BufferTypeOK
<1>3. m \in Message /\ m # Done /\ m[1] = w /\ m[2] = logged[w]
  BY <1>2 DEF Message, Line, Done
<1>4. /\ Published(w) = logged[w] - 1 /\ Published(w)' = logged[w]
      /\ \A v \in Writers \ {w} : Published(v)' = Published(v)
  BY <1>1 DEF Published, InLog, TypeOK, BufferTypeOK
<1>5. \A v \in Writers : logged[v] \in Nat /\ since[c][v] \in Nat /\ Published(v) \in Int
  BY DEF TypeOK, BufferTypeOK, Published
<1>6. \A a \in InPipe(c) : a = Done \/ (a[1] \in Writers /\ a[2] \in Nat)
  <2>1. InPipe(c) \subseteq Message BY PipeIsOfMessages DEF ClientInv
  <2> QED BY <2>1 DEF Message, Line
<1>7. main # "returned" \/ how # "exit"
  BY <1>1, <1>3, AllPublished, <1>4, <1>2 DEF TypeOK
<1>8. c \in subs => AllPrecede(InPipe(c), {m})
  <2> SUFFICES ASSUME NEW a \in InPipe(c) PROVE Precedes(a, m)
    BY DEF AllPrecede
  <2>1. how = "exit" => a # Done BY <1>7 DEF ClientInv, PipeBounds
  <2>2. a # Done /\ a[1] = w => a[2] < logged[w]
    <3>1. a # Done /\ a[1] = w => a[2] <= logged[w] - 1 BY <1>4 DEF ClientInv, PipeBounds
    <3> QED BY <1>2, <1>6, <3>1
  <2> QED BY <1>3, <2>1, <2>2 DEF Precedes
<1>9. /\ InPipe(c)' = InPipe(c) \cup (IF c \in subs THEN {m} ELSE {})
      /\ Live(c)' = Live(c)
      /\ UNCHANGED <<sent, replayed, queue, since, client, subs, dropped, gone, says>>
      /\ c \notin subs => Waiting(c)' = Waiting(c)
  BY <1>1, <1>3, BroadcastPipe
<1> HIDE DEF m
<1>10. PipeOrdered(c)' BY <1>1, <1>3, <1>8, BroadcastOrdered DEF ClientInv
<1>11. PipeBounds(c)'
  <2>1. \A v \in Writers : since'[c][v] <= logged'[v] BY <1>1, <1>9 DEF ClientInv, PipeBounds
  <2>2. \A a \in InPipe(c) \ {Done} : since[c][a[1]] <= a[2] /\ a[2] <= Published(a[1])'
    <3> SUFFICES ASSUME NEW a \in InPipe(c) \ {Done}
                 PROVE  since[c][a[1]] <= a[2] /\ a[2] <= Published(a[1])'
      OBVIOUS
    <3>1. since[c][a[1]] <= a[2] /\ a[2] <= Published(a[1]) BY DEF ClientInv, PipeBounds
    <3>2. CASE a[1] = w BY <1>2, <1>4, <1>6, <3>1, <3>2
    <3>3. CASE a[1] # w BY <1>4, <1>6, <3>1, <3>3
    <3> QED BY <3>2, <3>3
  <2>3. since[c][w] <= logged[w] /\ logged[w] <= Published(w)'
    <3>1. since[c][w] <= logged[w] BY DEF ClientInv, PipeBounds
    <3> QED BY <1>2, <1>4, <3>1
  <2>4. Done \in InPipe(c)' => main' = "returned"
    BY <1>1, <1>3, <1>9 DEF ClientInv, PipeBounds
  <2>5. \A a \in InPipe(c)' \ {Done} : since'[c][a[1]] <= a[2] /\ a[2] <= Published(a[1])'
    <3> SUFFICES ASSUME NEW a \in InPipe(c)' \ {Done}
                 PROVE  since[c][a[1]] <= a[2] /\ a[2] <= Published(a[1])'
      BY <1>9
    <3>1. CASE a \in InPipe(c) BY <2>2, <3>1
    <3>2. CASE a = m
      <4>1. a[1] = w /\ a[2] = logged[w] BY <1>3, <3>2
      <4> QED BY <2>3, <4>1
    <3> QED BY <1>9, <3>1, <3>2
  <2> QED BY <2>1, <2>4, <2>5 DEF PipeBounds
<1>12. PipeComplete(c)'
  <2>1. ASSUME c \in subs \ dropped, NEW v \in Writers, NEW i \in since[c][v] + 1 .. Published(v)'
        PROVE  <<v, i>> \in InPipe(c)'
    <3>1. CASE v = w /\ i = logged[w] BY <1>3, <1>9, <2>1, <3>1 DEF m
    <3>2. CASE ~(v = w /\ i = logged[w])
      <4>1. i \in since[c][v] + 1 .. Published(v)
        <5>1. CASE v = w BY <1>2, <1>4, <1>5, <3>2, <5>1
        <5>2. CASE v # w BY <1>4, <5>2
        <5> QED BY <5>1, <5>2
      <4> QED BY <1>9, <2>1, <4>1 DEF ClientInv, PipeComplete
    <3> QED BY <3>1, <3>2
  <2>2. NoGap(c)' <=> NoGap(c) BY <1>9 DEF NoGap
  <2> QED BY <1>1, <1>9, <2>1, <2>2 DEF ClientInv, PipeComplete
<1>13. Session(c)' BY <1>9 DEF ClientInv, Session, EndedAt, IsEnd
<1> QED BY <1>10, <1>11, <1>12, <1>13 DEF ClientInv

(* The end is published once, and behind everything. *)
LEMMA PublishEndKeeps ==
  ASSUME TypeOK, ThreadInv, NEW c \in Clients, ClientInv(c), PublishEnd
  PROVE  ClientInv(c)'
<1>1. /\ main = "done" /\ main' = "returned" /\ Broadcast(Done)
      /\ UNCHANGED <<logged, pc, how>>
  BY DEF PublishEnd, PublishDone
<1>2. Done \in Message BY DEF Message
<1>3. \A w \in Writers : Published(w)' = Published(w) BY <1>1 DEF Published, InLog
<1>4. Done \notin InPipe(c) BY <1>1 DEF ClientInv, PipeBounds
<1>5. /\ InPipe(c)' = InPipe(c) \cup (IF c \in subs THEN {Done} ELSE {})
      /\ Live(c)' = Live(c)
      /\ UNCHANGED <<sent, replayed, queue, since, client, subs, dropped, gone, says>>
      /\ c \notin subs => Waiting(c)' = Waiting(c)
  BY <1>1, <1>2, BroadcastPipe
<1>6. AllPrecede(InPipe(c), {Done}) BY <1>4 DEF AllPrecede, Precedes
<1>7. PipeOrdered(c)' BY <1>1, <1>2, <1>6, BroadcastOrdered DEF ClientInv
<1>8. PipeBounds(c)'
  <2>1. \A m \in InPipe(c) \ {Done} : m[1] \in Writers
    <3>1. InPipe(c) \subseteq Message BY PipeIsOfMessages DEF ClientInv
    <3> QED BY <3>1 DEF Message, Line
  <2>2. \A m \in InPipe(c)' \ {Done} : since'[c][m[1]] <= m[2] /\ m[2] <= Published(m[1])'
    BY <1>3, <1>5, <2>1 DEF ClientInv, PipeBounds
  <2>3. \A w \in Writers : since'[c][w] <= logged'[w] BY <1>1, <1>5 DEF ClientInv, PipeBounds
  <2> QED BY <1>1, <2>2, <2>3 DEF PipeBounds
<1>9. PipeComplete(c)'
  <2>1. NoGap(c)' <=> NoGap(c) BY <1>5 DEF NoGap
  <2>2. Done \notin Range(Live(c)) BY <1>4 DEF InPipe
  <2> QED BY <1>1, <1>3, <1>5, <2>1, <2>2 DEF ClientInv, PipeComplete
<1>10. Session(c)' BY <1>5 DEF ClientInv, Session, EndedAt, IsEnd
<1> QED BY <1>7, <1>8, <1>9, <1>10 DEF ClientInv

(* The steps of the event loop and of the handlers leave the buffer alone.  *)
LEMMA BoundsKept ==
  ASSUME NEW c, PipeBounds(c), UNCHANGED bufferVars, since'[c] = since[c],
         InPipe(c)' \subseteq InPipe(c)
  PROVE  PipeBounds(c)'
<1>1. UNCHANGED <<logged, main, pc>> BY DEF bufferVars
<1>2. \A w : Published(w)' = Published(w) BY <1>1 DEF Published, InLog
<1> QED BY <1>1, <1>2 DEF PipeBounds

(* The first callback of the loop puts its message behind what the queue    *)
(* holds, or drops it.                                                      *)
LEMMA DeliverKeeps ==
  ASSUME TypeOK, NEW c \in Clients, ClientInv(c), Deliver
  PROVE  ClientInv(c)'
<1> DEFINE d == Head(loop)[1]
           m == Head(loop)[2]
<1>1. /\ loop # <<>> /\ loop' = Tail(loop)
      /\ UNCHANGED <<subs, client, gone, sent, replayed, since, says>> /\ UNCHANGED bufferVars
      /\ \/ Len(queue[d]) < QueueSize /\ UNCHANGED dropped
            /\ queue' = [queue EXCEPT ![d] = Append(queue[d], m)]
         \/ dropped' = dropped \cup {d} /\ UNCHANGED queue
  BY DEF Deliver, TypeOK
<1>2. UNCHANGED <<how, pc, main, logged>> BY <1>1 DEF bufferVars
<1>3. /\ Head(loop) \in Clients \X Message
      /\ InLoop(c) = InLoop(c)' \cup (IF c = d THEN {m} ELSE {})
      /\ c = d => AllPrecede({m}, InLoop(c)')
      /\ (\A i, j \in Waiting(c) : i < j => Precedes(loop[i][2], loop[j][2]))'
      /\ Waiting(c) = {} => Waiting(c)' = {} /\ c # d
  BY <1>1, <1>2, DeliverFacts DEF ClientInv, PipeOrdered
<1>4. d \in Clients /\ m \in Message BY <1>3
<1>5. queue[c] \in Seq(Message) BY DEF TypeOK
<1> HIDE DEF d, m
<1>6. Live(c)' = Live(c) BY <1>1 DEF Live
<1>7. \A a, b : Precedes(a, b)' <=> Precedes(a, b) BY <1>2 DEF Precedes
<1>8. Ordered(Live(c))' BY <1>6, <1>7 DEF ClientInv, PipeOrdered, Ordered
<1>9. \A v : Published(v)' = Published(v) BY <1>2 DEF Published, InLog
<1>10. NoGap(c)' <=> NoGap(c) BY <1>1, <1>6 DEF NoGap
<1>11. CASE queue'[c] = queue[c]
  <2>1. c # d \/ c \in dropped'
    <3>1. ASSUME c = d, queue' = [queue EXCEPT ![d] = Append(queue[d], m)] PROVE FALSE
      <4>1. queue'[c] = Append(queue[c], m) BY <1>4, <3>1 DEF TypeOK
      <4>2. Len(Append(queue[c], m)) = Len(queue[c]) + 1 /\ Len(queue[c]) \in Nat
        BY <1>4, <1>5
      <4> QED BY <1>11, <4>1, <4>2
    <3> QED BY <1>1, <3>1
  <2>2. InPipe(c)' \subseteq InPipe(c) /\ (c # d => InPipe(c)' = InPipe(c))
    BY <1>3, <1>6, <1>11 DEF InPipe
  <2>3. c \notin dropped' => c \notin dropped BY <1>1
  <2>4. PipeOrdered(c)'
    <3>1. Ordered(queue[c])' BY <1>7, <1>11 DEF ClientInv, PipeOrdered, Ordered
    <3>2. InLoop(c)' \subseteq InLoop(c) BY <1>3
    <3>3. /\ AllPrecede(Range(Live(c)), Range(queue[c]) \cup InLoop(c))'
          /\ AllPrecede(Range(queue[c]), InLoop(c))'
      BY <1>6, <1>7, <1>11, <3>2 DEF ClientInv, PipeOrdered, AllPrecede
    <3> QED BY <1>3, <1>8, <3>1, <3>3 DEF PipeOrdered
  <2>5. PipeBounds(c)' BY <1>1, <2>2, BoundsKept DEF ClientInv
  <2>6. PipeComplete(c)'
    BY <1>1, <1>2, <1>6, <1>9, <1>10, <2>1, <2>2, <2>3 DEF ClientInv, PipeComplete
  <2>7. Session(c)' BY <1>1, <1>3, <1>6, <1>11 DEF ClientInv, Session, EndedAt, IsEnd
  <2> QED BY <2>4, <2>5, <2>6, <2>7 DEF ClientInv
<1>12. CASE queue'[c] # queue[c]
  <2>1. c = d /\ UNCHANGED dropped /\ queue'[c] = Append(queue[c], m)
    BY <1>1, <1>4, <1>12 DEF TypeOK
  <2>2. Range(Append(queue[c], m)) = Range(queue[c]) \cup {m}
    BY <1>4, <1>5, AppendRange
  <2>3. InPipe(c)' = InPipe(c) BY <1>3, <1>6, <2>1, <2>2 DEF InPipe
  <2>4. m \in InLoop(c) /\ InLoop(c)' \subseteq InLoop(c) BY <1>3, <2>1
  <2>5. PipeOrdered(c)'
    <3>1. Ordered(queue[c]) /\ AllPrecede(Range(queue[c]), {m})
      BY <2>4 DEF ClientInv, PipeOrdered, AllPrecede
    <3>2. Ordered(Append(queue[c], m)) BY <1>4, <1>5, <3>1, AppendOrdered
    <3>3. Ordered(queue[c])' BY <1>7, <2>1, <3>2 DEF Ordered
    <3>4. AllPrecede(Range(Live(c)), Range(queue[c]) \cup InLoop(c))'
      BY <1>6, <1>7, <2>1, <2>2, <2>4 DEF ClientInv, PipeOrdered, AllPrecede
    <3>5. AllPrecede(Range(queue[c]), InLoop(c))'
      BY <1>3, <1>7, <2>1, <2>2, <2>4 DEF ClientInv, PipeOrdered, AllPrecede
    <3> QED BY <1>3, <1>8, <3>3, <3>4, <3>5 DEF PipeOrdered
  <2>6. PipeBounds(c)' BY <1>1, <2>3, BoundsKept DEF ClientInv
  <2>7. PipeComplete(c)'
    BY <1>1, <1>2, <1>6, <1>9, <1>10, <2>1, <2>3 DEF ClientInv, PipeComplete
  <2>8. client[c] # "idle" BY <1>3, <2>1 DEF ClientInv, Session
  <2>9. Session(c)' BY <1>1, <1>6, <2>8 DEF ClientInv, Session, EndedAt, IsEnd
  <2> QED BY <2>5, <2>6, <2>7, <2>9 DEF ClientInv
<1> QED BY <1>11, <1>12

(* A client that connects has nothing in its pipe, and everything published *)
(* so far is from before its subscription.                                  *)
LEMMA ConnectKeeps ==
  ASSUME TypeOK, NEW c \in Clients, ClientInv(c), Connect(c)
  PROVE  ClientInv(c)'
<1>1. /\ client[c] = "idle" /\ client'[c] = "backlog" /\ c \in subs' /\ since'[c] = logged
      /\ UNCHANGED <<loop, queue, sent, replayed, dropped>> /\ UNCHANGED bufferVars
  BY DEF Connect, TypeOK
<1>2. UNCHANGED <<how, pc, main, logged>> BY <1>1 DEF bufferVars
<1>3. sent[c] = <<>> /\ replayed[c] = 0 /\ queue[c] = <<>> /\ Waiting(c) = {}
  BY <1>1 DEF ClientInv, Session
<1>4. Live(c)' = <<>> /\ Live(c) = <<>> BY <1>1, <1>3 DEF Live
<1>5. InLoop(c)' = {} BY <1>1, <1>3 DEF InLoop, Waiting
<1>6. InPipe(c)' = {} BY <1>1, <1>3, <1>4, <1>5, EmptySequence DEF InPipe
<1>7. InPipe(c) = {} BY <1>3, <1>4, EmptySequence DEF InPipe, InLoop
<1>8. PipeOrdered(c)' BY <1>1, <1>2, OrderKept DEF ClientInv
<1>9. logged \in [Writers -> Nat] BY DEF TypeOK, BufferTypeOK
<1>10. PipeBounds(c)'
  <2>1. \A w \in Writers : since'[c][w] <= logged'[w] BY <1>1, <1>2, <1>9
  <2> QED BY <1>6, <2>1 DEF PipeBounds
<1>11. PipeComplete(c)'
  <2>1. \A w \in Writers : Published(w)' <= logged[w] BY <1>2, <1>9 DEF Published
  <2>2. \A w \in Writers : Published(w)' \in Int BY <1>2, <1>9 DEF Published
  <2>3. \A w \in Writers : since'[c][w] + 1 .. Published(w)' = {}
    <3> SUFFICES ASSUME NEW w \in Writers PROVE logged[w] + 1 .. Published(w)' = {}
      BY <1>1
    <3>1. logged[w] \in Nat /\ Published(w)' <= logged[w] /\ Published(w)' \in Int
      BY <1>9, <2>1, <2>2
    <3> HIDE DEF Published
    <3> QED BY <3>1
  <2>4. NoGap(c)' BY <1>4, EmptySequence DEF NoGap
  <2>5. Done \notin Range(Live(c))' BY <1>4, EmptySequence
  <2> QED BY <2>3, <2>4, <2>5 DEF PipeComplete
<1>12. Session(c)'
  <2>1. sent'[c] = <<>> /\ replayed'[c] = 0 /\ Len(<<>>) = 0 BY <1>1, <1>3
  <2> QED BY <1>1, <2>1 DEF Session
<1> QED BY <1>8, <1>10, <1>11, <1>12 DEF ClientInv

(* The replayed lines are not live ones. *)
LEMMA SendBacklogKeeps ==
  ASSUME TypeOK, NEW c \in Clients, ClientInv(c), SendBacklog(c)
  PROVE  ClientInv(c)'
<1>1. /\ client[c] = "backlog"
      /\ UNCHANGED <<loop, queue, since, dropped, gone>> /\ UNCHANGED bufferVars
  BY DEF SendBacklog
<1>2. UNCHANGED <<how, pc, main, logged>> BY <1>1 DEF bufferVars
<1>3. sent[c] = <<>> /\ replayed[c] = 0 /\ c \in subs BY <1>1 DEF ClientInv, Session
<1>4. Live(c) = <<>> BY <1>3 DEF Live
<1>5. table \in Seq(Line) /\ BacklogLimit \in Nat
  BY StreamAssumption DEF TypeOK, BufferTypeOK
<1>6. Stored \in Seq(Line) BY <1>5 DEF Stored
<1>7. Len(Stored) \in Nat BY <1>6
<1>8. \/ client'[c] = "closed" /\ c \in gone /\ c \notin subs' /\ UNCHANGED <<sent, replayed>>
      \/ client'[c] = "live" /\ c \in subs' /\ sent'[c] = Stored /\ replayed'[c] = Len(Stored)
  BY <1>3 DEF SendBacklog, Unsubscribe, TypeOK
<1>9. Live(c)' = <<>>
  <2>1. CASE UNCHANGED <<sent, replayed>> BY <1>4, <2>1 DEF Live
  <2>2. CASE sent'[c] = Stored /\ replayed'[c] = Len(Stored)
    <3>1. Live(c)' = SubSeq(Stored, Len(Stored) + 1, Len(Stored)) BY <2>2 DEF Live
    <3> QED BY <1>6, <1>7, <3>1
  <2> QED BY <1>8, <2>1, <2>2
<1>10. InPipe(c)' = InPipe(c) BY <1>1, <1>4, <1>9 DEF InPipe, InLoop, Waiting
<1>11. \A a, b : Precedes(a, b)' <=> Precedes(a, b) BY <1>2 DEF Precedes
<1>12. PipeOrdered(c)'
  <2>1. Ordered(Live(c))' BY <1>9 DEF Ordered
  <2>2. Ordered(queue[c])' BY <1>1, <1>11 DEF ClientInv, PipeOrdered, Ordered
  <2>3. (\A i, j \in Waiting(c) : i < j => Precedes(loop[i][2], loop[j][2]))'
    BY <1>1, <1>11 DEF ClientInv, PipeOrdered, Waiting
  <2>4. AllPrecede(Range(Live(c)), Range(queue[c]) \cup InLoop(c))'
    BY <1>9, EmptySequence DEF AllPrecede
  <2>5. AllPrecede(Range(queue[c]), InLoop(c))'
    BY <1>1, <1>11 DEF ClientInv, PipeOrdered, AllPrecede, InLoop, Waiting
  <2> QED BY <2>1, <2>2, <2>3, <2>4, <2>5 DEF PipeOrdered
<1>13. PipeBounds(c)' BY <1>1, <1>10, BoundsKept DEF ClientInv
<1>14. PipeComplete(c)'
  <2>1. \A v : Published(v)' = Published(v) BY <1>2 DEF Published, InLog
  <2>2. NoGap(c)' BY <1>9, EmptySequence DEF NoGap
  <2>3. Done \notin Range(Live(c))' BY <1>9, EmptySequence
  <2> QED BY <1>1, <1>3, <1>10, <2>1, <2>2, <2>3 DEF ClientInv, PipeComplete
<1>15. Session(c)' BY <1>1, <1>3, <1>7, <1>8 DEF ClientInv, Session
<1> QED BY <1>12, <1>13, <1>14, <1>15 DEF ClientInv

(* A client that has received the end of a script that exited, or a line,   *)
(* has everything that precedes it: what is left in the pipe follows it.    *)
LEMMA ForwardKeeps ==
  ASSUME TypeOK, ThreadInv, NEW c \in Clients, ClientInv(c), Forward(c)
  PROVE  ClientInv(c)'
<1> DEFINE h == Head(queue[c])
           t == Tail(queue[c])
<1>1. /\ client[c] = "live" /\ queue[c] # <<>> /\ queue'[c] = t
      /\ UNCHANGED <<loop, since, dropped, replayed, gone, says>> /\ UNCHANGED bufferVars
      /\ \/ c \in gone /\ UNCHANGED sent
         \/ c \notin gone /\ sent'[c] = Append(sent[c], h)
      /\ \/ (c \in gone \/ IsEnd(h)) /\ client'[c] = "closed" /\ c \notin subs'
         \/ ~(c \in gone \/ IsEnd(h)) /\ UNCHANGED <<client, subs>>
  BY DEF Forward, Unsubscribe, TypeOK
<1>2. UNCHANGED <<how, pc, main, logged>> BY <1>1 DEF bufferVars
<1>3. /\ Live(c) \in Seq(Message) /\ sent[c] \in Seq(Message) /\ queue[c] \in Seq(Message)
      /\ replayed[c] \in Nat /\ replayed[c] <= Len(sent[c]) /\ c \in subs
      /\ InPipe(c) \subseteq Message
  BY <1>1, PipeIsOfMessages DEF ClientInv, Session
<1>4. h \in Message /\ t \in Seq(Message) /\ Range(queue[c]) = {h} \cup Range(t)
  BY <1>1, <1>3, TailFacts, TailRange
<1>5. Ordered(t) /\ AllPrecede({h}, Range(t))
  BY <1>1, <1>3, TailOrdered DEF ClientInv, PipeOrdered
<1> HIDE DEF h, t
<1>6. AllPrecede({h}, Range(t) \cup InLoop(c))
  BY <1>4, <1>5 DEF ClientInv, PipeOrdered, AllPrecede
<1>7. AllPrecede(Range(Live(c)), {h} \cup Range(t) \cup InLoop(c))
  BY <1>4 DEF ClientInv, PipeOrdered
<1>8. InLoop(c)' = InLoop(c) /\ Waiting(c)' = Waiting(c) BY <1>1 DEF InLoop, Waiting
<1>9. \A a, b : Precedes(a, b)' <=> Precedes(a, b) BY <1>2 DEF Precedes
<1>10. \A v : Published(v)' = Published(v) BY <1>2 DEF Published, InLog
<1>11. \/ c \in gone /\ Live(c)' = Live(c)
       \/ c \notin gone /\ Live(c)' = Append(Live(c), h)
  <2>1. CASE c \in gone /\ UNCHANGED sent BY <1>1, <2>1 DEF Live
  <2>2. CASE c \notin gone /\ sent'[c] = Append(sent[c], h)
    <3>1. Live(c)' = SubSeq(Append(sent[c], h), replayed[c] + 1, Len(Append(sent[c], h)))
      BY <1>1, <2>2 DEF Live
    <3> QED BY <1>3, <1>4, <2>2, <3>1, SubSeqOfAppend DEF Live
  <2> QED BY <1>1, <2>1, <2>2
<1>12. Range(Append(Live(c), h)) = Range(Live(c)) \cup {h} BY <1>3, <1>4, AppendRange
<1>13. Range(Live(c))' \subseteq Range(Live(c)) \cup {h} BY <1>11, <1>12
<1>14. InPipe(c)' \subseteq InPipe(c) /\ (c \notin gone => InPipe(c)' = InPipe(c))
  BY <1>1, <1>4, <1>8, <1>11, <1>12 DEF InPipe
<1>15. PipeOrdered(c)'
  <2>1. Ordered(Live(c))'
    <3>1. Ordered(Live(c)) /\ AllPrecede(Range(Live(c)), {h})
      BY <1>7 DEF ClientInv, PipeOrdered, AllPrecede
    <3>2. Ordered(Append(Live(c), h)) BY <1>3, <1>4, <3>1, AppendOrdered
    <3> QED BY <1>9, <1>11, <3>1, <3>2 DEF Ordered
  <2>2. Ordered(queue[c])' BY <1>1, <1>5, <1>9 DEF Ordered
  <2>3. (\A i, j \in Waiting(c) : i < j => Precedes(loop[i][2], loop[j][2]))'
    BY <1>1, <1>8, <1>9 DEF ClientInv, PipeOrdered
  <2>4. AllPrecede(Range(Live(c)), Range(queue[c]) \cup InLoop(c))'
    BY <1>1, <1>6, <1>7, <1>8, <1>9, <1>13 DEF AllPrecede
  <2>5. AllPrecede(Range(queue[c]), InLoop(c))'
    BY <1>1, <1>4, <1>8, <1>9 DEF ClientInv, PipeOrdered, AllPrecede
  <2> QED BY <2>1, <2>2, <2>3, <2>4, <2>5 DEF PipeOrdered
<1>16. PipeBounds(c)' BY <1>1, <1>14, BoundsKept DEF ClientInv
<1>17. PipeComplete(c)'
  <2>1. ASSUME c \in subs' \ dropped', NEW w \in Writers, NEW i \in since'[c][w] + 1 .. Published(w)'
        PROVE  <<w, i>> \in InPipe(c)'
    <3>1. c \notin gone BY <1>1, <2>1
    <3> QED BY <1>1, <1>3, <1>10, <1>14, <2>1, <3>1 DEF ClientInv, PipeComplete
  <2>2. ASSUME c \notin dropped, NEW w \in Writers, NEW i \in since[c][w] + 1 .. Published(w)
        PROVE  <<w, i>> \in Range(Live(c)) \cup {h} \cup Range(t) \cup InLoop(c)
    BY <1>3, <1>4, <2>2 DEF ClientInv, PipeComplete, InPipe
  <2>3. ASSUME c \notin dropped', c \notin gone PROVE NoGap(c)'
    <3> SUFFICES ASSUME NEW m \in Range(Live(c))' \ {Done}, NEW i \in since[c][m[1]] + 1 .. m[2]
                 PROVE  <<m[1], i>> \in Range(Live(c))'
      BY <1>1 DEF NoGap
    <3>1. Range(Live(c))' = Range(Live(c)) \cup {h} BY <1>11, <1>12, <2>3
    <3>2. CASE m \in Range(Live(c))
      <4>1. NoGap(c) BY <1>1, <2>3 DEF ClientInv, PipeComplete
      <4> QED BY <3>1, <3>2, <4>1 DEF NoGap
    <3>3. CASE m = h
      <4>1. h \in InPipe(c) /\ h # Done BY <1>4, <3>3 DEF InPipe
      <4>2. /\ h[1] \in Writers /\ h[2] \in Nat /\ h[2] <= Published(h[1])
            /\ since[c][h[1]] \in Nat /\ Published(h[1]) \in Int
        <5>1. h[1] \in Writers /\ h[2] \in Nat BY <1>4, <4>1 DEF Message, Line
        <5>2. h[2] <= Published(h[1]) BY <4>1 DEF ClientInv, PipeBounds
        <5> QED BY <5>1, <5>2 DEF TypeOK, BufferTypeOK, Published
      <4>3. i \in Nat \ {0} /\ i <= h[2] /\ i \in since[c][h[1]] + 1 .. Published(h[1])
        BY <3>3, <4>2
      <4> DEFINE x == <<h[1], i>>
      <4>4. x \in Range(Live(c)) \cup {h} \cup Range(t) \cup InLoop(c)
        BY <1>1, <2>2, <2>3, <4>2, <4>3
      <4>5. x \notin Range(t) \cup InLoop(c)
        <5>1. x # Done /\ x[1] = h[1] /\ x[2] = i BY <4>3 DEF Done
        <5>2. ~(h[2] < i) BY <4>2, <4>3
        <5>3. ~Precedes(h, x) BY <4>1, <5>1, <5>2 DEF Precedes
        <5> QED BY <1>6, <5>3 DEF AllPrecede
      <4> QED BY <3>1, <3>3, <4>4, <4>5
    <3> QED BY <3>1, <3>2, <3>3
  <2>4. ASSUME how' = "exit", Done \in Range(Live(c))', c \notin dropped',
               NEW w \in Writers, NEW i \in since'[c][w] + 1 .. logged'[w]
        PROVE  <<w, i>> \in Range(Live(c))'
    <3>1. CASE Done \in Range(Live(c))
      <4>1. <<w, i>> \in Range(Live(c)) BY <1>1, <1>2, <2>4, <3>1 DEF ClientInv, PipeComplete
      <4> QED BY <1>11, <1>12, <4>1
    <3>2. CASE Done \notin Range(Live(c))
      <4>1. h = Done /\ Range(Live(c))' = Range(Live(c)) \cup {h}
        BY <1>11, <1>12, <1>13, <2>4, <3>2
      <4>2. main = "returned" BY <1>4, <4>1 DEF ClientInv, PipeBounds, InPipe
      <4>3. Published(w) = logged[w] BY <1>2, <2>4, <4>2, AllPublished DEF TypeOK
      <4>4. <<w, i>> \in Range(Live(c)) \cup {h} \cup Range(t) \cup InLoop(c)
        BY <1>1, <1>2, <2>2, <2>4, <4>3
      <4>5. \A x : ~Precedes(h, x) BY <1>2, <2>4, <4>1 DEF Precedes
      <4> QED BY <1>6, <4>1, <4>4, <4>5 DEF AllPrecede
    <3> QED BY <3>1, <3>2
  <2>5. c \notin dropped' => NoGap(c)'
    <3>1. CASE c \in gone
      <4>1. Live(c)' = Live(c) BY <1>11, <3>1
      <4> QED BY <1>1, <4>1 DEF ClientInv, PipeComplete, NoGap
    <3> QED BY <2>3, <3>1
  <2> QED BY <2>1, <2>4, <2>5 DEF PipeComplete
<1>18. Session(c)'
  <2>1. /\ sent'[c] = sent[c] \/ sent'[c] = Append(sent[c], h)
        /\ client'[c] \in {"live", "closed"}
    BY <1>1
  <2>2. replayed'[c] <= Len(sent'[c])
    <3>1. Len(sent[c]) \in Nat /\ Len(Append(sent[c], h)) = Len(sent[c]) + 1 BY <1>3, <1>4
    <3> QED BY <1>1, <1>3, <2>1, <3>1
  <2>3. ASSUME client'[c] = "closed", c \notin gone'
        PROVE  Live(c)' # <<>> /\ IsEnd(EndedAt(c))'
    <3>1. IsEnd(h) /\ Live(c)' = Append(Live(c), h) BY <1>1, <1>11, <2>3
    <3>2. /\ Append(Live(c), h) # <<>>
          /\ Append(Live(c), h)[Len(Append(Live(c), h))] = h
      BY <1>3, <1>4
    <3>3. Live(c)' # <<>> /\ EndedAt(c)' = h BY <3>1, <3>2 DEF EndedAt
    <3> QED BY <1>1, <3>1, <3>3 DEF IsEnd
  <2>4. c \in subs' <=> client'[c] \in {"backlog", "live"} BY <1>1, <1>3
  <2> QED BY <2>1, <2>2, <2>3, <2>4 DEF Session
<1> QED BY <1>15, <1>16, <1>17, <1>18 DEF ClientInv

-----------------------------------------------------------------------------
(* Every step keeps the invariant of every client *)

(* A step of the event loop or of a handler that leaves client c alone. *)
LEMMA OtherClient ==
  ASSUME TypeOK, NEW c \in Clients, ClientInv(c), UNCHANGED bufferVars,
         sent'[c] = sent[c], replayed'[c] = replayed[c], queue'[c] = queue[c], UNCHANGED loop,
         since'[c] = since[c], client'[c] = client[c], c \in subs' <=> c \in subs,
         UNCHANGED <<dropped, says>>, gone \subseteq gone'
  PROVE  ClientInv(c)'
<1>1. UNCHANGED <<logged, pc, main, how>> BY DEF bufferVars
<1>2. logged \in [Writers -> Nat] BY DEF TypeOK, BufferTypeOK
<1>3. \A w \in Writers : Published(w)' = Published(w) /\ logged[w] <= logged'[w]
  BY <1>1, <1>2 DEF Published, InLog
<1> QED BY <1>1, <1>2, <1>3, ClientKept

LEMMA StepStream ==
  ASSUME TypeOK, ThreadInv, StreamInv, [Next]_vars
  PROVE  StreamInv'
<1> SUFFICES ASSUME NEW c \in Clients, ClientInv(c) PROVE ClientInv(c)'
  BY DEF StreamInv
<1>1. CASE Silent /\ UNCHANGED streamVars
  <2>1. BufferTypeOK BY DEF TypeOK
  <2>2. BufferTypeOK' BY <1>1, <2>1, StepType DEF Step, BufferNext
  <2>3. logged' \in [Writers -> Nat] BY <2>2 DEF BufferTypeOK
  <2>4. UNCHANGED <<sent, replayed, queue, loop, since, client, subs, dropped, gone, says>>
    BY <1>1 DEF streamVars
  <2> QED BY <1>1, <2>1, <2>3, <2>4, SilentFacts, ClientKept
<1>2. ASSUME NEW w \in Writers, PublishLine(w) PROVE ClientInv(c)'
  BY <1>2, PublishLineKeeps
<1>3. CASE PublishEnd BY <1>3, PublishEndKeeps
<1>4. CASE Deliver BY <1>4, DeliverKeeps
<1>5. ASSUME NEW d \in Clients, Connect(d) PROVE ClientInv(c)'
  <2>1. CASE d = c BY <1>5, <2>1, ConnectKeeps
  <2>2. CASE d # c BY <1>5, <2>2, OtherClient DEF Connect, TypeOK
  <2> QED BY <2>1, <2>2
<1>6. ASSUME NEW d \in Clients, SendBacklog(d) PROVE ClientInv(c)'
  <2>1. CASE d = c BY <1>6, <2>1, SendBacklogKeeps
  <2>2. CASE d # c
    <3>1. /\ sent'[c] = sent[c] /\ replayed'[c] = replayed[c] /\ client'[c] = client[c]
          /\ c \in subs' <=> c \in subs
      BY <1>6, <2>2 DEF SendBacklog, Unsubscribe, TypeOK
    <3> QED BY <1>6, <3>1, OtherClient DEF SendBacklog
  <2> QED BY <2>1, <2>2
<1>7. ASSUME NEW d \in Clients, Forward(d) PROVE ClientInv(c)'
  <2>1. CASE d = c BY <1>7, <2>1, ForwardKeeps
  <2>2. CASE d # c
    <3>1. /\ sent'[c] = sent[c] /\ queue'[c] = queue[c] /\ client'[c] = client[c]
          /\ c \in subs' <=> c \in subs
      BY <1>7, <2>2 DEF Forward, Unsubscribe, TypeOK
    <3> QED BY <1>7, <3>1, OtherClient DEF Forward
  <2> QED BY <2>1, <2>2
<1>8. ASSUME NEW d \in Clients, Leave(d) PROVE ClientInv(c)'
  BY <1>8, OtherClient DEF Leave
<1>9. CASE UNCHANGED vars BY <1>9, OtherClient DEF vars, streamVars
<1> QED
  BY <1>1, <1>2, <1>3, <1>4, <1>5, <1>6, <1>7, <1>8, <1>9 DEF Next, ClientStep, Over

(* The invariant of the way from publish over the event loop and the queue   *)
(* to a client holds in every reachable state, for every client.             *)
THEOREM StreamInvariant == Spec => []StreamInv
<1>1. Init => StreamInv BY InitStream
<1>2. TypeOK /\ ThreadInv /\ StreamInv /\ [Next]_vars => StreamInv' BY StepStream
<1> QED BY <1>1, <1>2, StreamBuffer, StreamTypeCorrect, PTL DEF Spec

(* Each client receives the lines of a pipe in the order in which they were *)
(* written, once, and without a gap unless its queue was full: for any      *)
(* number of clients that come and go while the threads log.                *)
THEOREM LinesComeInOrder == Spec => []LiveInOrder
<1>1. StreamInv => LiveInOrder
  <2> SUFFICES ASSUME NEW c \in Clients, ClientInv(c)
               PROVE  /\ Ordered(Live(c))
                      /\ \A m \in Range(Live(c)) \ {Done} : m[2] >= since[c][m[1]]
                      /\ c \notin dropped => NoGap(c)
    BY DEF StreamInv, LiveInOrder
  <2>1. Ordered(Live(c)) BY DEF ClientInv, PipeOrdered
  <2>2. \A m \in Range(Live(c)) \ {Done} : since[c][m[1]] <= m[2]
    BY DEF ClientInv, PipeBounds, InPipe
  <2>3. c \notin dropped => NoGap(c) BY DEF ClientInv, PipeComplete
  <2> QED BY <2>1, <2>2, <2>3
<1> QED BY <1>1, StreamInvariant, PTL

(* A client whose handler ended in the run of a script that exited has      *)
(* received all lines that were logged after it subscribed, unless a line   *)
(* of the script that reads "__done__" ended it.                            *)
THEOREM LinesAreComplete == Spec => []LiveComplete
<1>1. TypeOK /\ StreamInv => LiveComplete
  <2> SUFFICES ASSUME TypeOK, NEW c \in Clients, ClientInv(c),
                      how = "exit", client[c] = "closed", c \notin gone \cup dropped,
                      EndedAt(c) \notin says,
                      NEW w \in Writers, NEW i \in since[c][w] + 1 .. logged[w]
               PROVE  <<w, i>> \in Range(Live(c))
    BY DEF StreamInv, LiveComplete
  <2>1. Live(c) # <<>> /\ EndedAt(c) = Done BY DEF ClientInv, Session, IsEnd
  <2>2. Live(c) \in Seq(Message) BY PipeIsOfMessages DEF ClientInv
  <2>3. Len(Live(c)) \in DOMAIN Live(c) BY <2>1, <2>2
  <2>4. Done \in Range(Live(c)) BY <2>1, <2>3 DEF Range, EndedAt
  <2> QED BY <2>4 DEF ClientInv, PipeComplete
<1> QED BY <1>1, StreamInvariant, StreamTypeCorrect, PTL
=============================================================================
