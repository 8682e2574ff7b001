--------------------------- MODULE AlwaysOnProofs ---------------------------
(***************************************************************************)
(* What is proved of the module AlwaysOn, for any services, any intervals  *)
(* of theirs and any values of the timeout, of the delay of the server and *)
(* of the limit of the page.                                               *)
(***************************************************************************)
EXTENDS AlwaysOn, TLAPS

(* The heartbeat thread lives as long as the main loop, unless its interval *)
(* is negative, and its timer starts from the interval or from the timeout. *)
Timers ==
  \A n \in Wrapped :
    /\ wrapper[n].beat # "off" => Tended(n)
    /\ Tended(n) /\ wrapper[n].every # 0 => wrapper[n].beat # "off"
    /\ Tended(n) \/ wrapper[n].main = "off" => wrapper[n].every \in Intervals
    /\ wrapper[n].beat = "wait" => wrapper[n].left <= Timeout
    /\ wrapper[n].beat \in {"off", "sleep", "send"} => wrapper[n].left <= wrapper[n].every

(* A service is calm for as long as all that it needs is there.            *)
Calm == \A n \in Names : calm[n] # 0 => Settled(n)

(* A service is gone only while its main loop is.                          *)
Gone == \A n \in Wrapped : Tended(n) => gone[n] = 0

(* A heartbeat in the server was posted before its loop was gone, and a    *)
(* row's own mark is hardly younger than that.                             *)
LateBeats ==
  /\ \A q \in requests : gone[q.of] + q.left <= Slow
  /\ \A i \in Ids : LET n == rows[i].by
                    IN  n # None /\ rows[i].age < Limit => gone[n] <= rows[i].age + Slow

(* A name has one row.                                                     *)
OneRow == \A i, j \in Ids : rows[i].name = rows[j].name /\ rows[i].name # None => i = j

(* The time left until the server has committed the next heartbeat that    *)
(* the wrapper w has not posted yet.                                       *)
Ahead(w) == CASE w.beat = "wait"  -> w.left + w.every + Slow
              [] w.beat = "sleep" -> w.left + Slow
              [] OTHER            -> Slow

(* In the time x from now, a service that has been calm for c and whose    *)
(* row was marked a ago will not have gone without a mark for more than r. *)
Within(c, a, r, x) == \/ c + x <= r
                      \/ a < Limit /\ a + x <= r

(* The row of a settled service gets its next mark in time.                *)
OnTheWay ==
  \A n \in Wrapped, i \in Ids :
    LET r == Round(wrapper[n].every)
    IN  Settled(n) /\ rows[i].name = n /\ wrapper[n].every # 0 /\ r < Limit
        => \/ Within(calm[n], rows[i].age, r, Ahead(wrapper[n]))
           \/ \E q \in requests :
                q.of = n /\ q.id = i /\ Within(calm[n], rows[i].age, r, q.left)

(* The inductive invariant.                                                *)
IInv == TypeOK /\ Timers /\ Calm /\ Gone /\ LateBeats /\ OneRow /\ OnTheWay

-----------------------------------------------------------------------------
(* Types and steps *)

LEMMA Times ==
  /\ Limit \in Nat \ {0} /\ Slow \in Nat \ {0} /\ Timeout \in Nat \ {0}
  /\ 0 \in 0..Limit /\ Limit \in 0..Limit /\ 0 \in 0..(Limit + Slow)
  /\ Slow \in 0..Slow /\ Intervals \subseteq Nat
  /\ Wrapped \subseteq Names /\ None \notin Names /\ None \notin Wrapped
  BY NamesAssumption, TimesAssumption

LEMMA WrapperTypes ==
  ASSUME TypeOK, NEW n \in Wrapped
  PROVE  /\ wrapper[n].main \in {"absent", "off", "next", "script", "backoff"}
         /\ wrapper[n].beat \in {"off", "send", "wait", "sleep"}
         /\ wrapper[n].left \in Nat /\ wrapper[n].every \in Intervals \cup {0}
         /\ wrapper[n].every \in Nat /\ wrapper[n].left <= wrapper[n].every + Timeout
         /\ wrapper[n] = [main |-> wrapper[n].main, beat |-> wrapper[n].beat,
                          left |-> wrapper[n].left, every |-> wrapper[n].every]
<1>1. /\ wrapper[n] \in [main: {"absent", "off", "next", "script", "backoff"},
                         beat: {"off", "send", "wait", "sleep"},
                         left: Nat, every: Intervals \cup {0}]
      /\ wrapper[n].left <= wrapper[n].every + Timeout
  BY DEF TypeOK
<1>2. Intervals \cup {0} \subseteq Nat
  BY Times
<1>. QED
  BY <1>1, <1>2

LEMMA RowTypes ==
  ASSUME TypeOK, NEW i \in Ids
  PROVE  /\ rows[i].name \in Names \cup {None} /\ rows[i].age \in 0..Limit
         /\ rows[i].by \in Wrapped \cup {None}
         /\ rows[i] = [name |-> rows[i].name, age |-> rows[i].age, by |-> rows[i].by]
  BY Times DEF TypeOK, Rows, NoRow

LEMMA RequestTypes ==
  ASSUME TypeOK, NEW q \in requests
  PROVE  /\ q.of \in Wrapped /\ q.id \in Ids /\ q.left \in 0..Slow
         /\ q = [of |-> q.of, id |-> q.id, left |-> q.left]
  BY DEF TypeOK

LEMMA MaxIdNat == MaxId \in Nat \ {0}
  BY NamesAssumption

(* The wrappers after a step of the wrapper n, which becomes w.            *)
LEMMA OneWrapper ==
  ASSUME TypeOK, NEW n \in Wrapped, NEW w, wrapper' = [wrapper EXCEPT ![n] = w]
  PROVE  wrapper'[n] = w /\ \A m \in Wrapped : m # n => wrapper'[m] = wrapper[m]
  BY DEF TypeOK

(* The actions in the terms that the proofs need.                          *)
LEMMA Steps ==
  ASSUME TypeOK, Timers, Next
  PROVE  \/ \E n \in Wrapped : \/ \E e \in Intervals : Begin(n, e)
                               \/ Over(n, Dead(wrapper[n]))
                               \/ \E from, to \in {"next", "script", "backoff"} : Turn(n, from, to)
                               \/ Post(n) \/ GiveUp(n) \/ Awake(n)
         \/ \E q \in requests : Heartbeat(q)
         \/ Stop \/ Start
         \/ \E n \in Names : Register(n)
         \/ \E i \in Ids : Delete(i)
         \/ Tick
  BY DEF Next, Install, Boot, Crash, Launch, LaunchFail, ScriptOk, ScriptFail, Retry, Timers,
         Ended

-----------------------------------------------------------------------------
(* The wrappers *)

(* What a step makes of one wrapper.                                       *)
LEMMA WrapperSteps ==
  ASSUME TypeOK, Timers, Next, NEW n \in Wrapped
  PROVE  LET v == wrapper[n]  w == wrapper'[n]
         IN  \/ w = v
             \/ \E e \in Intervals :
                  w = [main |-> "next", beat |-> "send", left |-> 0, every |-> e]
             \/ Tended(n) /\ w = Dead(v)
             \/ Tended(n) /\ \E to \in {"next", "script", "backoff"} : w = [v EXCEPT !.main = to]
             \/ v.beat \in {"send", "wait"} /\ w = Asleep(v)
             \/ v.beat = "send" /\ w = [v EXCEPT !.beat = "wait", !.left = Timeout]
             \/ v.beat = "sleep" /\ v.left = 0 /\ w = [v EXCEPT !.beat = "send"]
             \/ ~Due /\ w = Down(v)
<1>1. CASE \E m \in Wrapped, e \in Intervals : Begin(m, e)
  <2>. PICK m \in Wrapped, e \in Intervals : Begin(m, e)
    BY <1>1
  <2>. QED
    BY OneWrapper DEF Begin
<1>2. CASE \E m \in Wrapped : Over(m, Dead(wrapper[m]))
  <2>. PICK m \in Wrapped : Over(m, Dead(wrapper[m]))
    BY <1>2
  <2>1. wrapper' = [wrapper EXCEPT ![m] = Dead(wrapper[m])] /\ Tended(m)
    BY DEF Over
  <2>. QED
    BY <2>1, OneWrapper
<1>3. CASE \E m \in Wrapped : \E from, to \in {"next", "script", "backoff"} : Turn(m, from, to)
  <2>. PICK m \in Wrapped, from \in {"next", "script", "backoff"},
            to \in {"next", "script", "backoff"} : Turn(m, from, to)
    BY <1>3
  <2>1. /\ wrapper' = [wrapper EXCEPT ![m] = [wrapper[m] EXCEPT !.main = to]]
        /\ Tended(m)
    BY DEF Turn, Tended, TypeOK
  <2>. QED
    BY <2>1, OneWrapper
<1>4. CASE \E m \in Wrapped : Post(m)
  <2>. PICK m \in Wrapped : Post(m)
    BY <1>4
  <2>1. wrapper[m].beat = "send"
    BY DEF Post
  <2>2. CASE wrapper' = [wrapper EXCEPT ![m] = Asleep(@)]
    <3>1. wrapper' = [wrapper EXCEPT ![m] = Asleep(wrapper[m])]
      BY <2>2 DEF TypeOK
    <3>. QED
      BY <3>1, <2>1, OneWrapper
  <2>3. CASE wrapper' = [wrapper EXCEPT ![m].beat = "wait", ![m].left = Timeout]
    <3>1. wrapper' = [wrapper EXCEPT
                        ![m] = [wrapper[m] EXCEPT !.beat = "wait", !.left = Timeout]]
      BY <2>3 DEF TypeOK
    <3>. QED
      BY <3>1, <2>1, OneWrapper
  <2>. QED
    BY <2>2, <2>3 DEF Post
<1>5. CASE \E m \in Wrapped : GiveUp(m)
  <2>. PICK m \in Wrapped : GiveUp(m)
    BY <1>5
  <2>1. wrapper' = [wrapper EXCEPT ![m] = Asleep(wrapper[m])] /\ wrapper[m].beat = "wait"
    BY DEF GiveUp, TypeOK
  <2>. QED
    BY <2>1, OneWrapper
<1>6. CASE \E m \in Wrapped : Awake(m)
  <2>. PICK m \in Wrapped : Awake(m)
    BY <1>6
  <2>1. /\ wrapper' = [wrapper EXCEPT ![m] = [wrapper[m] EXCEPT !.beat = "send"]]
        /\ wrapper[m].beat = "sleep" /\ wrapper[m].left = 0
    BY DEF Awake, TypeOK
  <2>. QED
    BY <2>1, OneWrapper
<1>7. CASE \E q \in requests : Heartbeat(q)
  <2>. PICK q \in requests : Heartbeat(q)
    BY <1>7
  <2>0. q.of \in Wrapped
    BY RequestTypes
  <2>1. CASE Awaited(q)
    <3>1. wrapper' = [wrapper EXCEPT ![q.of] = Asleep(wrapper[q.of])]
          /\ wrapper[q.of].beat = "wait"
      BY <2>0, <2>1 DEF Heartbeat, Awaited, TypeOK
    <3>. QED
      BY <3>1, <2>0, OneWrapper
  <2>2. CASE ~Awaited(q)
    BY <2>2 DEF Heartbeat
  <2>. QED
    BY <2>1, <2>2
<1>8. CASE Stop
  BY <1>8 DEF Stop
<1>9. CASE Start \/ (\E m \in Names : Register(m)) \/ (\E i \in Ids : Delete(i))
  BY <1>9 DEF Start, Register, Delete
<1>10. CASE Tick
  BY <1>10 DEF Tick
<1>. QED
  BY <1>1, <1>2, <1>3, <1>4, <1>5, <1>6, <1>7, <1>8, <1>9, <1>10, Steps

(* A step keeps the wrappers a function of the same services.              *)
LEMMA WrapperDomain ==
  ASSUME TypeOK, Timers, Next
  PROVE  wrapper' = [n \in Wrapped |-> wrapper'[n]]
<1>. USE DEF TypeOK
<1>1. CASE \E m \in Wrapped, e \in Intervals : Begin(m, e)
  BY <1>1 DEF Begin
<1>2. CASE \E m \in Wrapped : Over(m, Dead(wrapper[m]))
  BY <1>2 DEF Over
<1>3. CASE \E m \in Wrapped : \E from, to \in {"next", "script", "backoff"} : Turn(m, from, to)
  BY <1>3 DEF Turn
<1>4. CASE \E m \in Wrapped : Post(m) \/ GiveUp(m) \/ Awake(m)
  BY <1>4 DEF Post, GiveUp, Awake
<1>5. CASE \E q \in requests : Heartbeat(q)
  BY <1>5 DEF Heartbeat
<1>6. CASE Stop \/ Tick
  BY <1>6 DEF Stop, Tick
<1>7. CASE Start \/ (\E m \in Names : Register(m)) \/ (\E i \in Ids : Delete(i))
  BY <1>7 DEF Start, Register, Delete
<1>. QED
  BY <1>1, <1>2, <1>3, <1>4, <1>5, <1>6, <1>7, Steps

(* The timers and the types of the wrappers are kept.                      *)
LEMMA TimersStep ==
  ASSUME TypeOK, Timers, Next
  PROVE  /\ Timers'
         /\ wrapper' \in [Wrapped -> [main: {"absent", "off", "next", "script", "backoff"},
                                      beat: {"off", "send", "wait", "sleep"},
                                      left: Nat, every: Intervals \cup {0}]]
         /\ \A n \in Wrapped : wrapper'[n].left <= wrapper'[n].every + Timeout
<1>. DEFINE W == [main: {"absent", "off", "next", "script", "backoff"},
                  beat: {"off", "send", "wait", "sleep"}, left: Nat, every: Intervals \cup {0}]
            T(w) == /\ w.beat # "off" => w.main \in {"next", "script", "backoff"}
                    /\ w.main \in {"next", "script", "backoff"} /\ w.every # 0 => w.beat # "off"
                    /\ w.main \in {"next", "script", "backoff", "off"} => w.every \in Intervals
                    /\ w.beat = "wait" => w.left <= Timeout
                    /\ w.beat \in {"off", "sleep", "send"} => w.left <= w.every
<1>1. ASSUME NEW n \in Wrapped
      PROVE  wrapper'[n] \in W /\ T(wrapper'[n])
  <2>. DEFINE v == wrapper[n]  w == wrapper'[n]
  <2>1. /\ v \in W /\ v = [main |-> v.main, beat |-> v.beat, left |-> v.left, every |-> v.every]
        /\ v.left \in Nat /\ v.every \in Nat
    BY <1>1, WrapperTypes
  <2>2. T(v)
    BY <1>1 DEF Timers, Tended
  <2>3. Timeout \in Nat /\ Intervals \subseteq Nat
    BY Times
  <2>4. CASE w = v
    BY <2>1, <2>2, <2>4
  <2>5. CASE \E e \in Intervals : w = [main |-> "next", beat |-> "send", left |-> 0, every |-> e]
    BY <2>3, <2>5
  <2>6. CASE Tended(n) /\ w = Dead(v)
    <3>1. w = [main |-> "off", beat |-> "off", left |-> 0, every |-> v.every]
      BY <2>1, <2>6 DEF Dead
    <3>2. v.every \in Intervals
      BY <2>2, <2>6 DEF Tended
    <3>3. v.every \in Nat
      BY <2>1
    <3>4. /\ w.main = "off" /\ w.beat = "off" /\ w.left = 0 /\ w.every = v.every
          /\ w \in W
      BY <3>1, <3>2
    <3>. QED
      BY <3>2, <3>3, <3>4
  <2>7. CASE Tended(n) /\ \E to \in {"next", "script", "backoff"} : w = [v EXCEPT !.main = to]
    BY <2>1, <2>2, <2>7 DEF Tended
  <2>8. CASE v.beat \in {"send", "wait"} /\ w = Asleep(v)
    <3>1. \/ /\ v.every # 0
             /\ w = [main |-> v.main, beat |-> "sleep", left |-> v.every, every |-> v.every]
          \/ /\ v.every = 0
             /\ w = [main |-> v.main, beat |-> "off", left |-> 0, every |-> v.every]
      BY <2>1, <2>8 DEF Asleep
    <3>2. v.every \in Intervals /\ v.main \in {"next", "script", "backoff"}
      BY <2>2, <2>8
    <3>3. w \in W
      BY <2>1, <3>1
    <3>. QED
      BY <2>1, <3>1, <3>2, <3>3
  <2>9. CASE v.beat = "send" /\ w = [v EXCEPT !.beat = "wait", !.left = Timeout]
    <3>1. w = [main |-> v.main, beat |-> "wait", left |-> Timeout, every |-> v.every]
      BY <2>1, <2>9
    <3>. QED
      BY <2>1, <2>2, <2>3, <2>9, <3>1
  <2>10. CASE v.beat = "sleep" /\ v.left = 0 /\ w = [v EXCEPT !.beat = "send"]
    BY <2>1, <2>2, <2>10
  <2>11. CASE ~Due /\ w = Down(v)
    <3>1. CASE v.beat \in {"wait", "sleep"}
      <4>1. v.left # 0
        BY <1>1, <2>11, <3>1 DEF Due
      <4>2. w = [v EXCEPT !.left = v.left - 1]
        BY <2>11, <3>1 DEF Down
      <4>. QED
        BY <2>1, <2>2, <2>3, <3>1, <4>1, <4>2
    <3>2. CASE v.beat \notin {"wait", "sleep"}
      BY <2>1, <2>2, <2>11, <3>2 DEF Down
    <3>. QED
      BY <3>1, <3>2
  <2>. QED
    BY <1>1, <2>4, <2>5, <2>6, <2>7, <2>8, <2>9, <2>10, <2>11, WrapperSteps
<1>2. wrapper' \in [Wrapped -> W]
  BY <1>1, WrapperDomain
<1>3. Timers'
  BY <1>1 DEF Timers, Tended
<1>4. ASSUME NEW n \in Wrapped
      PROVE  wrapper'[n].left <= wrapper'[n].every + Timeout
  <2>1. wrapper'[n] \in W /\ T(wrapper'[n])
    BY <1>1
  <2>2. wrapper'[n].left \in Nat /\ wrapper'[n].every \in Nat /\ Timeout \in Nat
    <3>1. Intervals \cup {0} \subseteq Nat /\ Timeout \in Nat
      BY Times
    <3>2. /\ wrapper'[n].left \in Nat /\ wrapper'[n].every \in Intervals \cup {0}
          /\ wrapper'[n].beat \in {"off", "send", "wait", "sleep"}
      BY <2>1
    <3>. QED
      BY <3>1, <3>2
  <2>3. wrapper'[n].beat \in {"off", "send", "wait", "sleep"}
    BY <2>1
  <2>. QED
    BY <2>1, <2>2, <2>3
<1>. QED
  BY <1>2, <1>3, <1>4

-----------------------------------------------------------------------------
(* The other variables *)

(* What a step makes of the rows.                                          *)
LEMMA RowSteps ==
  ASSUME TypeOK, Next, Timers, NEW i \in Ids
  PROVE  \/ rows'[i] = rows[i]
         \/ \E q \in requests : /\ q.id = i /\ Heartbeat(q) /\ rows[i].name # None
                                /\ rows'[i] = [rows[i] EXCEPT !.age = 0, !.by = q.of]
         \/ \E n \in Names : Register(n) /\ rows'[i] = [name |-> n, age |-> Limit, by |-> None]
         \/ rows'[i] = NoRow
         \/ Tick /\ rows'[i] = [rows[i] EXCEPT !.age = Older(@, Limit)]
<1>. USE DEF TypeOK
<1>1. CASE \E n \in Wrapped : \/ \E e \in Intervals : Begin(n, e)
                              \/ Over(n, Dead(wrapper[n]))
                              \/ \E from, to \in {"next", "script", "backoff"} : Turn(n, from, to)
                              \/ Post(n) \/ GiveUp(n) \/ Awake(n)
  BY <1>1 DEF Begin, Over, Turn, Post, GiveUp, Awake
<1>2. CASE \E q \in requests : Heartbeat(q)
  <2>. PICK q \in requests : Heartbeat(q)
    BY <1>2
  <2>. QED
    BY DEF Heartbeat, Mark
<1>3. CASE Stop \/ Start
  BY <1>3 DEF Stop, Start
<1>4. CASE \E n \in Names : Register(n)
  BY <1>4 DEF Register
<1>5. CASE \E j \in Ids : Delete(j)
  BY <1>5 DEF Delete
<1>6. CASE Tick
  BY <1>6 DEF Tick
<1>. QED
  BY <1>1, <1>2, <1>3, <1>4, <1>5, <1>6, Steps

(* The types of the other variables are kept.                              *)
LEMMA TypeStep ==
  ASSUME TypeOK, Timers, Next
  PROVE  TypeOK'
<1>1. server' \in {"up", "down"}
  BY Steps DEF TypeOK, Begin, Over, Turn, Post, GiveUp, Awake, Heartbeat, Stop, Start,
               Register, Delete, Tick
<1>2. rows' \in [Ids -> Rows \cup {NoRow}]
  <2>1. rows' = [i \in Ids |-> rows'[i]]
    BY Steps DEF TypeOK, Begin, Over, Turn, Post, GiveUp, Awake, Heartbeat, Mark, Stop, Start,
                 Register, Delete, Tick
  <2>2. ASSUME NEW i \in Ids
        PROVE  rows'[i] \in Rows \cup {NoRow}
    <3>1. /\ rows[i].name \in Names \cup {None} /\ rows[i].age \in 0..Limit
          /\ rows[i].by \in Wrapped \cup {None}
          /\ rows[i] = [name |-> rows[i].name, age |-> rows[i].age, by |-> rows[i].by]
          /\ rows[i] \in Rows \cup {NoRow}
      BY <2>2, RowTypes DEF TypeOK
    <3>2. CASE \E q \in requests : /\ q.id = i /\ Heartbeat(q) /\ rows[i].name # None
                                   /\ rows'[i] = [rows[i] EXCEPT !.age = 0, !.by = q.of]
      <4>. PICK q \in requests : /\ rows[i].name # None
                                 /\ rows'[i] = [rows[i] EXCEPT !.age = 0, !.by = q.of]
        BY <3>2
      <4>1. rows'[i] = [name |-> rows[i].name, age |-> 0, by |-> q.of]
        BY <3>1
      <4>. QED
        BY <3>1, <4>1, RequestTypes, Times DEF Rows
    <3>3. CASE \E n \in Names : rows'[i] = [name |-> n, age |-> Limit, by |-> None]
      BY <3>3, Times DEF Rows
    <3>4. CASE rows'[i] = [rows[i] EXCEPT !.age = Older(@, Limit)]
      <4>1. /\ rows'[i] = [name |-> rows[i].name, age |-> Older(rows[i].age, Limit),
                           by |-> rows[i].by]
            /\ Older(rows[i].age, Limit) \in 0..Limit
            /\ rows[i].age = Limit => Older(rows[i].age, Limit) = Limit
        BY <3>1, <3>4, Times DEF Older
      <4>. QED
        BY <3>1, <4>1 DEF Rows, NoRow
    <3>. QED
      BY <2>2, <3>1, <3>2, <3>3, <3>4, RowSteps
  <2>. QED
    BY <2>1, <2>2
<1>3. requests' \subseteq [of: Wrapped, id: Ids, left: 0..Slow]
  <2>1. CASE \E n \in Wrapped : Post(n)
    BY <2>1, Times DEF Post, TypeOK
  <2>2. CASE Tick
    <3>1. ASSUME NEW q \in requests
          PROVE  [q EXCEPT !.left = @ - 1] \in [of: Wrapped, id: Ids, left: 0..Slow]
      <4>1. q.left # 0
        BY <2>2, <3>1 DEF Tick, Due
      <4>2. q.left - 1 \in 0..Slow
        BY <3>1, <4>1, RequestTypes, Times
      <4>. QED
        BY <3>1, <4>2, RequestTypes
    <3>. QED
      BY <2>2, <3>1 DEF Tick
  <2>3. CASE ~(Tick \/ \E n \in Wrapped : Post(n))
    BY <2>3, Steps DEF TypeOK, Begin, Over, Turn, GiveUp, Awake, Heartbeat, Stop, Start,
                       Register, Delete
  <2>. QED
    BY <2>1, <2>2, <2>3
<1>4. calm' \in [Names -> 0..Limit] /\ gone' \in [Names -> 0..(Limit + Slow)]
  <2>1. CASE Tick
    <3>1. \A n \in Names : Older(calm[n], Limit) \in 0..Limit
      BY Times DEF TypeOK, Older
    <3>2. \A n \in Names : Older(gone[n], Limit + Slow) \in 0..(Limit + Slow)
      BY Times DEF TypeOK, Older
    <3>. QED
      BY <2>1, <3>1, <3>2, Times DEF Tick
  <2>2. CASE ~Tick
    <3>1. 0 \in 0..Limit /\ 0 \in 0..(Limit + Slow)
      BY Times
    <3>2. calm' \in [Names -> 0..Limit]
      BY <2>2, <3>1, Steps DEF TypeOK, Begin, Over, Turn, Post, GiveUp, Awake, Heartbeat, Stop,
                               Start, Register, Delete
    <3>3. gone' \in [Names -> 0..(Limit + Slow)]
      BY <2>2, <3>1, Steps DEF TypeOK, Begin, Over, Turn, Post, GiveUp, Awake, Heartbeat, Stop,
                               Start, Register, Delete
    <3>. QED
      BY <3>2, <3>3
  <2>. QED
    BY <2>1, <2>2
<1>. QED
  BY <1>1, <1>2, <1>3, <1>4, TimersStep DEF TypeOK

-----------------------------------------------------------------------------
(* What a step leaves alone *)

(* Only two kinds of step begin or end a main loop.                        *)
LEMMA TendedKept ==
  ASSUME TypeOK, Timers, Next, NEW n \in Wrapped
  PROVE  \/ \E e \in Intervals : Begin(n, e)
         \/ Over(n, Dead(wrapper[n]))
         \/ Tended(n)' <=> Tended(n)
<1>. USE DEF TypeOK
<1>1. CASE \E m \in Wrapped, e \in Intervals : Begin(m, e)
  BY <1>1 DEF Begin, Tended
<1>2. CASE \E m \in Wrapped : Over(m, Dead(wrapper[m]))
  BY <1>2 DEF Over, Tended
<1>3. CASE \E m \in Wrapped : \E from, to \in {"next", "script", "backoff"} : Turn(m, from, to)
  BY <1>3 DEF Turn, Tended
<1>4. CASE \E m \in Wrapped : Post(m) \/ GiveUp(m) \/ Awake(m)
  <2>. PICK m \in Wrapped : Post(m) \/ GiveUp(m) \/ Awake(m)
    BY <1>4
  <2>0. Asleep(wrapper[m]).main = wrapper[m].main
    BY WrapperTypes DEF Asleep
  <2>1. wrapper'[n].main = wrapper[n].main
    <3>1. CASE wrapper' = [wrapper EXCEPT ![m] = Asleep(@)]
      <4>1. wrapper' = [wrapper EXCEPT ![m] = Asleep(wrapper[m])]
        BY <3>1 DEF TypeOK
      <4>. QED
        BY <2>0, <4>1, OneWrapper
    <3>2. CASE \/ wrapper' = [wrapper EXCEPT ![m].beat = "wait", ![m].left = Timeout]
               \/ wrapper' = [wrapper EXCEPT ![m].beat = "send"]
      BY <3>2, WrapperTypes DEF TypeOK
    <3>. QED
      BY <3>1, <3>2 DEF Post, GiveUp, Awake
  <2>. QED
    BY <2>1 DEF Tended
<1>5. CASE \E q \in requests : Heartbeat(q)
  <2>. PICK q \in requests : Heartbeat(q)
    BY <1>5
  <2>1. wrapper'[n].main = wrapper[n].main
    BY DEF Heartbeat, Asleep
  <2>. QED
    BY <2>1 DEF Tended
<1>6. CASE Stop
  <2>1. wrapper'[n].main = wrapper[n].main
    BY <1>6 DEF Stop, Asleep
  <2>. QED
    BY <2>1 DEF Tended
<1>7. CASE Tick
  <2>1. wrapper'[n].main = wrapper[n].main
    BY <1>7 DEF Tick, Down
  <2>. QED
    BY <2>1 DEF Tended
<1>8. CASE Start \/ (\E m \in Names : Register(m)) \/ (\E i \in Ids : Delete(i))
  BY <1>8 DEF Start, Register, Delete, Tended
<1>. QED
  BY <1>1, <1>2, <1>3, <1>4, <1>5, <1>6, <1>7, <1>8, Steps

(* A wrapper keeps its interval until it is installed anew.                *)
LEMMA EveryKept ==
  ASSUME TypeOK, Timers, Next, NEW n \in Wrapped
  PROVE  \/ \E e \in Intervals : Begin(n, e)
         \/ wrapper'[n].every = wrapper[n].every
<1>. USE DEF TypeOK
<1>1. CASE \E m \in Wrapped, e \in Intervals : Begin(m, e)
  BY <1>1 DEF Begin
<1>2. CASE \E m \in Wrapped : Over(m, Dead(wrapper[m]))
  BY <1>2, WrapperTypes DEF Over, Dead
<1>3. CASE \E m \in Wrapped : \E from, to \in {"next", "script", "backoff"} : Turn(m, from, to)
  BY <1>3, WrapperTypes DEF Turn
<1>4. CASE \E m \in Wrapped : Post(m) \/ GiveUp(m) \/ Awake(m)
  <2>. PICK m \in Wrapped : Post(m) \/ GiveUp(m) \/ Awake(m)
    BY <1>4
  <2>1. Asleep(wrapper[m]).every = wrapper[m].every
    BY WrapperTypes DEF Asleep
  <2>2. CASE wrapper' = [wrapper EXCEPT ![m] = Asleep(@)]
    <3>1. wrapper' = [wrapper EXCEPT ![m] = Asleep(wrapper[m])]
      BY <2>2
    <3>. QED
      BY <2>1, <3>1, OneWrapper
  <2>3. CASE \/ wrapper' = [wrapper EXCEPT ![m].beat = "wait", ![m].left = Timeout]
             \/ wrapper' = [wrapper EXCEPT ![m].beat = "send"]
    BY <2>3, WrapperTypes
  <2>. QED
    BY <2>2, <2>3 DEF Post, GiveUp, Awake
<1>5. CASE \E q \in requests : Heartbeat(q)
  BY <1>5, WrapperTypes DEF Heartbeat, Asleep
<1>6. CASE Stop
  BY <1>6, WrapperTypes DEF Stop, Asleep
<1>7. CASE Tick
  BY <1>7, WrapperTypes DEF Tick, Down
<1>8. CASE Start \/ (\E m \in Names : Register(m)) \/ (\E i \in Ids : Delete(i))
  BY <1>8 DEF Start, Register, Delete
<1>. QED
  BY <1>1, <1>2, <1>3, <1>4, <1>5, <1>6, <1>7, <1>8, Steps

(* A name is taken out of the table by services_delete only.               *)
LEMMA NamesKept ==
  ASSUME TypeOK, Timers, Next, NEW n \in Names, Registered(n)
  PROVE  Registered(n)' \/ \E i \in Ids : Delete(i) /\ rows[i].name = n
<1>. PICK i \in Ids : rows[i].name = n
  BY DEF Registered
<1>. n # None
  BY Times
<1>1. CASE \E m \in Names : Register(m)
  <2>. PICK m \in Names : Register(m)
    BY <1>1
  <2>. PICK j \in Ids : /\ \A k \in j..MaxId : rows[k].name = None
                        /\ rows' = [rows EXCEPT ![j] = [name |-> m, age |-> Limit, by |-> None]]
    BY DEF Register
  <2>1. j \in j..MaxId
    BY MaxIdNat DEF Ids
  <2>2. rows[j].name = None
    BY <2>1
  <2>3. rows'[i] = rows[i]
    BY <2>2 DEF TypeOK
  <2>. QED
    BY <2>3 DEF Registered
<1>2. CASE \E j \in Ids : Delete(j)
  <2>. PICK j \in Ids : Delete(j)
    BY <1>2
  <2>. QED
    BY DEF Delete, Registered, TypeOK
<1>3. CASE ~((\E m \in Names : Register(m)) \/ \E j \in Ids : Delete(j))
  <2>1. rows'[i].name = rows[i].name
    <3>1. CASE \E q \in requests : Heartbeat(q)
      BY <3>1, RowTypes, RequestTypes DEF TypeOK, Heartbeat, Mark
    <3>2. CASE Tick
      <4>1. rows'[i] = [rows[i] EXCEPT !.age = Older(@, Limit)]
        BY <3>2 DEF Tick
      <4>. QED
        BY <4>1, RowTypes
    <3>3. CASE ~(Tick \/ \E q \in requests : Heartbeat(q))
      BY <1>3, <3>3, Steps DEF Begin, Over, Turn, Post, GiveUp, Awake, Stop, Start
    <3>. QED
      BY <3>1, <3>2, <3>3
  <2>. QED
    BY <2>1 DEF Registered
<1>. QED
  BY <1>1, <1>2, <1>3

LEMMA CalmStep ==
  ASSUME TypeOK, Timers, Calm, Next
  PROVE  Calm'
<1>. SUFFICES ASSUME NEW n \in Names, calm'[n] # 0
              PROVE  Settled(n)'
  BY DEF Calm
<1>1. Settled(n)
  BY Steps DEF Calm, TypeOK, Begin, Over, Turn, Post, GiveUp, Awake, Heartbeat, Stop, Start,
               Register, Delete, Tick
<1>2. n \in Wrapped /\ server = "up"
  BY <1>1 DEF Settled
<1>3. server' = "up"
  <2>1. ~Stop
    BY DEF Stop
  <2>. QED
    BY <1>2, <2>1, Steps DEF Begin, Over, Turn, Post, GiveUp, Awake, Heartbeat, Start,
                             Register, Delete, Tick
<1>4. Tended(n)'
  <2>1. ~(\E e \in Intervals : Begin(n, e)) /\ ~Over(n, Dead(wrapper[n]))
    BY DEF Begin, Over, TypeOK
  <2>. QED
    BY <1>1, <1>2, <2>1, TendedKept DEF Settled
<1>5. Registered(n)'
  <2>1. ~\E i \in Ids : Delete(i) /\ rows[i].name = n
    BY DEF Delete, TypeOK
  <2>. QED
    BY <1>1, <2>1, NamesKept DEF Settled
<1>. QED
  BY <1>2, <1>3, <1>4, <1>5 DEF Settled

LEMMA GoneStep ==
  ASSUME TypeOK, Timers, Gone, Next
  PROVE  Gone'
<1>. SUFFICES ASSUME NEW n \in Wrapped, Tended(n)'
              PROVE  gone'[n] = 0
  BY DEF Gone
<1>. n \in Names
  BY Times
<1>1. CASE \E e \in Intervals : Begin(n, e)
  BY <1>1 DEF Begin, TypeOK
<1>2. CASE Over(n, Dead(wrapper[n]))
  BY <1>2 DEF Over, Dead, Tended, TypeOK
<1>3. CASE Tended(n)
  <2>1. gone[n] = 0
    BY <1>3 DEF Gone
  <2>. QED
    BY <1>3, <2>1, Steps DEF TypeOK, Begin, Over, Turn, Post, GiveUp, Awake, Heartbeat, Stop,
                             Start, Register, Delete, Tick
<1>. QED
  BY <1>1, <1>2, <1>3, TendedKept

-----------------------------------------------------------------------------
(* Late heartbeats *)

LEMMA LateStep ==
  ASSUME TypeOK, Timers, Gone, LateBeats, Next
  PROVE  LateBeats'
<1>. Wrapped \subseteq Names /\ Slow \in Nat /\ Limit \in Nat /\ None \notin Wrapped
  BY Times
<1>1. ASSUME NEW n \in Names, ~Tick
      PROVE  gone'[n] = gone[n] \/ gone'[n] = 0
  BY <1>1, Steps DEF TypeOK, Begin, Over, Turn, Post, GiveUp, Awake, Heartbeat, Stop, Start,
                     Register, Delete
<1>2. \A n \in Names : gone[n] \in Nat /\ gone'[n] \in Nat
  BY TypeStep DEF TypeOK
<1>3. ASSUME NEW q \in requests'
      PROVE  gone'[q.of] + q.left <= Slow
  <2>1. CASE Tick
    <3>. PICK p \in requests : q = [p EXCEPT !.left = @ - 1]
      BY <1>3, <2>1 DEF Tick
    <3>1. p.of \in Wrapped /\ p.left \in 0..Slow /\ q.of = p.of /\ q.left = p.left - 1
      BY RequestTypes
    <3>2. gone[p.of] + p.left <= Slow
      BY DEF LateBeats
    <3>3. gone'[p.of] \in {0, gone[p.of], gone[p.of] + 1}
      BY <2>1, <3>1 DEF Tick, Older
    <3>4. gone[p.of] \in Nat /\ gone'[p.of] \in Nat
      BY <1>2, <3>1
    <3>. QED
      BY <3>1, <3>2, <3>3, <3>4
  <2>2. CASE q \in requests /\ ~Tick
    <3>1. q.of \in Wrapped /\ q.left \in 0..Slow
      BY <2>2, RequestTypes
    <3>. QED
      BY <1>1, <1>2, <2>2, <3>1 DEF LateBeats
  <2>3. CASE q \notin requests /\ ~Tick
    <3>1. \E n \in Wrapped : Post(n)
      BY <1>3, <2>3, Steps DEF Begin, Over, Turn, GiveUp, Awake, Heartbeat, Stop, Start,
                               Register, Delete
    <3>. PICK n \in Wrapped : Post(n)
      BY <3>1
    <3>2. q.of = n /\ q.left = Slow /\ wrapper[n].beat = "send" /\ gone' = gone
      BY <1>3, <2>3 DEF Post
    <3>3. gone[n] = 0
      BY <3>2 DEF Timers, Gone
    <3>. QED
      BY <3>2, <3>3
  <2>. QED
    BY <2>1, <2>2, <2>3
<1>4. ASSUME NEW i \in Ids, NEW n \in Wrapped, rows'[i].by = n, rows'[i].age < Limit
      PROVE  gone'[n] <= rows'[i].age + Slow
  <2>0. gone[n] \in Nat /\ gone'[n] \in Nat /\ rows[i].age \in 0..Limit
    BY <1>2, RowTypes
  <2>1. CASE rows'[i] = rows[i] /\ ~Tick
    BY <1>1, <1>4, <2>0, <2>1 DEF LateBeats
  <2>2. CASE \E q \in requests : /\ q.id = i /\ Heartbeat(q) /\ rows[i].name # None
                                 /\ rows'[i] = [rows[i] EXCEPT !.age = 0, !.by = q.of]
    <3>. PICK q \in requests : /\ Heartbeat(q)
                               /\ rows'[i] = [rows[i] EXCEPT !.age = 0, !.by = q.of]
      BY <2>2
    <3>1. rows'[i].age = 0 /\ q.of = n /\ q.left \in 0..Slow /\ gone' = gone
      BY <1>4, RowTypes, RequestTypes DEF Heartbeat
    <3>. QED
      BY <2>0, <3>1 DEF LateBeats
  <2>3. CASE Tick
    <3>1. rows'[i] = [rows[i] EXCEPT !.age = Older(@, Limit)]
      BY <2>3 DEF Tick
    <3>2. rows'[i].by = rows[i].by /\ rows'[i].age = Older(rows[i].age, Limit)
      BY <3>1, RowTypes
    <3>3. rows[i].age < Limit /\ rows'[i].age = rows[i].age + 1
      BY <1>4, <2>0, <3>2 DEF Older
    <3>4. gone'[n] \in {0, gone[n], gone[n] + 1}
      BY <2>3 DEF Tick, Older
    <3>5. gone[n] <= rows[i].age + Slow
      BY <1>4, <3>2, <3>3 DEF LateBeats
    <3>. QED
      BY <2>0, <3>3, <3>4, <3>5
  <2>4. CASE rows'[i] = NoRow
    BY <1>4, <2>4 DEF NoRow
  <2>5. CASE \E m \in Names : /\ Register(m)
                              /\ rows'[i] = [name |-> m, age |-> Limit, by |-> None]
    BY <1>4, <2>5
  <2>. QED
    BY <2>1, <2>2, <2>3, <2>4, <2>5, RowSteps
<1>5. \A i \in Ids : rows'[i].by \in Wrapped \cup {None}
  <2>1. rows' \in [Ids -> Rows \cup {NoRow}]
    BY TypeStep DEF TypeOK
  <2>. QED
    BY <2>1 DEF Rows, NoRow
<1>. QED
  BY <1>3, <1>4, <1>5 DEF LateBeats

-----------------------------------------------------------------------------
(* The next mark *)

LEMMA OneRowStep ==
  ASSUME TypeOK, Timers, OneRow, Next
  PROVE  OneRow'
<1>. SUFFICES ASSUME NEW i \in Ids, NEW j \in Ids, i # j,
                     rows'[i].name = rows'[j].name, rows'[i].name # None
              PROVE  FALSE
  BY DEF OneRow
<1>1. CASE \E n \in Names : Register(n)
  <2>. PICK n \in Names : Register(n)
    BY <1>1
  <2>. PICK k \in Ids : rows' = [rows EXCEPT ![k] = [name |-> n, age |-> Limit, by |-> None]]
    BY DEF Register
  <2>1. \A m \in Ids : rows[m].name # n
    BY DEF Register, Registered
  <2>. QED
    BY <2>1 DEF OneRow, TypeOK
<1>2. ASSUME NEW k \in Ids, ~\E n \in Names : Register(n)
      PROVE  rows'[k].name = rows[k].name \/ rows'[k].name = None
  <2>1. rows[k].name \in Names \cup {None} /\ rows[k].age \in 0..Limit
        /\ rows[k] = [name |-> rows[k].name, age |-> rows[k].age, by |-> rows[k].by]
    BY RowTypes
  <2>2. CASE rows'[k] = [rows[k] EXCEPT !.age = Older(@, Limit)]
    BY <2>1, <2>2
  <2>3. CASE \E q \in requests : rows'[k] = [rows[k] EXCEPT !.age = 0, !.by = q.of]
    BY <2>1, <2>3
  <2>4. CASE rows'[k] = NoRow
    BY <2>4 DEF NoRow
  <2>5. CASE rows'[k] = rows[k]
    BY <2>5
  <2>. QED
    BY <1>2, <2>2, <2>3, <2>4, <2>5, RowSteps
<1>. QED
  BY <1>1, <1>2 DEF OneRow

(* The next heartbeat is never further away than a round.                  *)
LEMMA AheadBound ==
  ASSUME NEW w, w.beat \in {"send", "wait", "sleep"}, w.left \in Nat, w.every \in Nat,
         w.beat = "wait" => w.left <= Timeout, w.beat = "sleep" => w.left <= w.every
  PROVE  /\ Ahead(w) \in Nat /\ Ahead(w) >= Slow /\ Slow \in Nat \ {0}
         /\ Round(w.every) \in Nat /\ Ahead(w) <= Round(w.every)
  BY Times DEF Ahead, Round

LEMMA OnTheWayStep ==
  ASSUME TypeOK, Timers, Calm, OneRow, OnTheWay, Next
  PROVE  OnTheWay'
<1>. DEFINE r(n) == Round(wrapper[n].every)
<1>. SUFFICES ASSUME NEW n \in Wrapped, NEW i \in Ids,
                     Settled(n)', rows'[i].name = n, wrapper'[n].every # 0, r(n)' < Limit
              PROVE  \/ Within(calm'[n], rows'[i].age, r(n)', Ahead(wrapper'[n]))
                     \/ \E q \in requests' : /\ q.of = n /\ q.id = i
                                             /\ Within(calm'[n], rows'[i].age, r(n)', q.left)
  BY DEF OnTheWay
<1>1. /\ n \in Names /\ n # None
      /\ Slow \in Nat \ {0} /\ Limit \in Nat \ {0} /\ Timeout \in Nat \ {0}
  BY Times
<1>2. /\ calm[n] \in 0..Limit /\ calm'[n] \in 0..Limit
      /\ rows[i].age \in 0..Limit /\ rows'[i].age \in 0..Limit
  <2>1. calm[n] \in 0..Limit /\ calm'[n] \in 0..Limit
    BY <1>1, TypeStep DEF TypeOK
  <2>2. rows'[i] \in Rows \cup {NoRow}
    BY TypeStep DEF TypeOK
  <2>3. rows'[i].age \in 0..Limit
    BY <2>2, Times DEF Rows, NoRow
  <2>. QED
    BY <2>1, <2>3, RowTypes
<1>3. /\ wrapper[n].left \in Nat /\ wrapper[n].every \in Nat
      /\ wrapper[n].beat \in {"off", "send", "wait", "sleep"}
      /\ wrapper[n] = [main |-> wrapper[n].main, beat |-> wrapper[n].beat,
                       left |-> wrapper[n].left, every |-> wrapper[n].every]
  BY WrapperTypes
<1>4. /\ Ahead(wrapper'[n]) \in Nat /\ Ahead(wrapper'[n]) >= Slow
      /\ r(n)' \in Nat /\ Ahead(wrapper'[n]) <= r(n)'
  <2>1. /\ wrapper'[n].left \in Nat /\ wrapper'[n].every \in Intervals \cup {0}
        /\ wrapper'[n].beat \in {"off", "send", "wait", "sleep"}
    BY TimersStep
  <2>2. wrapper'[n].every \in Nat
    <3>1. Intervals \cup {0} \subseteq Nat
      BY Times
    <3>. QED
      BY <2>1, <3>1
  <2>3. wrapper'[n].beat # "off"
    BY TimersStep DEF Settled, Timers
  <2>4. /\ wrapper'[n].beat = "wait" => wrapper'[n].left <= Timeout
        /\ wrapper'[n].beat = "sleep" => wrapper'[n].left <= wrapper'[n].every
    BY TimersStep DEF Timers
  <2>. QED
    BY <2>1, <2>2, <2>3, <2>4, AheadBound
<1>5. CASE calm'[n] = 0
  BY <1>4, <1>5 DEF Within
<1>6. CASE rows'[i].age = 0
  BY <1>1, <1>4, <1>6 DEF Within
<1>7. ASSUME calm'[n] # 0, rows'[i].age # 0
      PROVE  \/ Within(calm'[n], rows'[i].age, r(n)', Ahead(wrapper'[n]))
             \/ \E q \in requests' : /\ q.of = n /\ q.id = i
                                     /\ Within(calm'[n], rows'[i].age, r(n)', q.left)
  <2>1. Settled(n)
    BY <1>1, <1>7, Steps DEF Calm, TypeOK, Begin, Over, Turn, Post, GiveUp, Awake, Heartbeat,
                             Stop, Start, Register, Delete, Tick
  <2>2. ~Stop /\ ~Start /\ ~\E e \in Intervals : Begin(n, e)
    BY <1>1, <1>7, <2>1 DEF Stop, Start, Settled, Begin, TypeOK
  <2>3. ~Over(n, Dead(wrapper[n]))
    BY <1>1, <1>7 DEF Over, TypeOK
  <2>0. wrapper[n].every # 0
    BY <2>2, EveryKept
  <2>4. wrapper[n].beat # "off"
    BY <2>0, <2>1 DEF Settled, Timers
  <2>5. ASSUME r(n) < Limit, rows[i].name = n
        PROVE  \/ Within(calm[n], rows[i].age, r(n), Ahead(wrapper[n]))
               \/ \E q \in requests : /\ q.of = n /\ q.id = i
                                      /\ Within(calm[n], rows[i].age, r(n), q.left)
    BY <2>0, <2>1, <2>5 DEF OnTheWay
  <2>6. CASE Tick
    <3>1. wrapper'[n] = Down(wrapper[n]) /\ wrapper[n].beat # "send"
      BY <2>6 DEF Tick, Due
    <3>2. wrapper[n].beat \in {"wait", "sleep"}
      BY <1>3, <2>4, <3>1
    <3>3. wrapper[n].left # 0
      BY <2>6, <3>2 DEF Tick, Due
    <3>4. wrapper'[n] = [main |-> wrapper[n].main, beat |-> wrapper[n].beat,
                         left |-> wrapper[n].left - 1, every |-> wrapper[n].every]
      BY <1>3, <3>1, <3>2 DEF Down
    <3>5. /\ Ahead(wrapper[n]) \in Nat
          /\ Ahead(wrapper'[n]) = Ahead(wrapper[n]) - 1
      BY <1>1, <1>3, <3>2, <3>3, <3>4 DEF Ahead
    <3>6. r(n)' = r(n)
      BY <3>4
    <3>7. calm'[n] \in {calm[n], calm[n] + 1}
      BY <1>1, <2>1, <2>6 DEF Tick, Older
    <3>8. /\ rows'[i].name = rows[i].name
          /\ rows[i].age < Limit => rows'[i].age = rows[i].age + 1
      <4>1. rows'[i] = [rows[i] EXCEPT !.age = Older(@, Limit)]
        BY <2>6 DEF Tick
      <4>. QED
        BY <4>1, RowTypes DEF Older
    <3>9. ASSUME NEW x \in Nat, x # 0, Within(calm[n], rows[i].age, r(n), x)
          PROVE  Within(calm'[n], rows'[i].age, r(n)', x - 1)
      BY <1>1, <1>2, <1>4, <3>6, <3>7, <3>8, <3>9 DEF Within
    <3>10. CASE Within(calm[n], rows[i].age, r(n), Ahead(wrapper[n]))
      <4>1. Ahead(wrapper[n]) # 0
        BY <1>1, <1>4, <3>5
      <4>. QED
        BY <3>5, <3>9, <3>10, <4>1
    <3>11. CASE \E q \in requests : /\ q.of = n /\ q.id = i
                                    /\ Within(calm[n], rows[i].age, r(n), q.left)
      <4>. PICK q \in requests : /\ q.of = n /\ q.id = i
                                 /\ Within(calm[n], rows[i].age, r(n), q.left)
        BY <3>11
      <4>. DEFINE p == [q EXCEPT !.left = @ - 1]
      <4>1. p \in requests' /\ q.left # 0
        BY <2>6 DEF Tick, Due
      <4>2. q.left \in Nat /\ p.of = n /\ p.id = i /\ p.left = q.left - 1
        BY RequestTypes
      <4>3. Within(calm'[n], rows'[i].age, r(n)', q.left - 1)
        BY <3>9, <4>1, <4>2
      <4>. QED
        BY <4>1, <4>2, <4>3
    <3>. QED
      BY <2>5, <3>6, <3>8, <3>10, <3>11
  <2>7. CASE ~Tick
    <3>1. calm'[n] = calm[n]
      BY <1>1, <1>7, <2>2, <2>7, Steps
         DEF TypeOK, Begin, Over, Turn, Post, GiveUp, Awake, Heartbeat, Register, Delete
    <3>2. rows'[i] = rows[i]
      <4>1. ~(\E q \in requests : /\ rows'[i] = [rows[i] EXCEPT !.age = 0, !.by = q.of])
        BY <1>7, RowTypes
      <4>2. rows'[i] # NoRow
        BY <1>1 DEF NoRow
      <4>3. ASSUME NEW m \in Names, Register(m),
                   rows'[i] = [name |-> m, age |-> Limit, by |-> None]
            PROVE  FALSE
        <5>1. m = n
          BY <4>3
        <5>. QED
          BY <2>1, <4>3, <5>1 DEF Register, Settled
      <4>. QED
        BY <2>7, <4>1, <4>2, <4>3, RowSteps
    <3>3. ASSUME wrapper'[n].every = wrapper[n].every,
                 Ahead(wrapper'[n]) <= Ahead(wrapper[n]), Ahead(wrapper[n]) \in Nat,
                 \A q \in requests : q.id = i => q \in requests'
          PROVE  \/ Within(calm'[n], rows'[i].age, r(n)', Ahead(wrapper'[n]))
                 \/ \E q \in requests' : /\ q.of = n /\ q.id = i
                                         /\ Within(calm'[n], rows'[i].age, r(n)', q.left)
      <4>1. r(n)' = r(n)
        BY <3>3
      <4>2. CASE Within(calm[n], rows[i].age, r(n), Ahead(wrapper[n]))
        BY <1>2, <1>4, <3>1, <3>2, <3>3, <4>1, <4>2 DEF Within
      <4>3. CASE \E q \in requests : /\ q.of = n /\ q.id = i
                                     /\ Within(calm[n], rows[i].age, r(n), q.left)
        BY <3>1, <3>2, <3>3, <4>1, <4>3
      <4>. QED
        BY <2>5, <3>2, <4>1, <4>2, <4>3
    <3>4. Ahead(wrapper[n]) \in Nat
      BY <1>1, <1>3 DEF Ahead
    <3>5. CASE \E m \in Wrapped : \/ \E e \in Intervals : Begin(m, e)
                                  \/ Over(m, Dead(wrapper[m]))
      <4>1. wrapper'[n] = wrapper[n] /\ requests' = requests
        BY <2>2, <2>3, <3>5 DEF Begin, Over, TypeOK
      <4>. QED
        BY <3>3, <3>4, <4>1
    <3>6. CASE \E m \in Wrapped : \E from, to \in {"next", "script", "backoff"} : Turn(m, from, to)
      <4>1. /\ wrapper'[n].every = wrapper[n].every /\ wrapper'[n].left = wrapper[n].left
            /\ wrapper'[n].beat = wrapper[n].beat /\ requests' = requests
        BY <1>3, <3>6 DEF Turn, TypeOK
      <4>2. Ahead(wrapper'[n]) = Ahead(wrapper[n])
        BY <4>1 DEF Ahead
      <4>. QED
        BY <3>3, <3>4, <4>1, <4>2
    <3>7. CASE \E m \in Wrapped : Post(m)
      <4>. PICK m \in Wrapped : Post(m)
        BY <3>7
      <4>1. requests \subseteq requests'
        BY DEF Post
      <4>2. CASE m # n
        <5>1. wrapper'[n] = wrapper[n]
          BY <4>2 DEF Post, TypeOK
        <5>. QED
          BY <3>3, <3>4, <4>1, <5>1
      <4>3. CASE m = n
        <5>1. wrapper[n].beat = "send" /\ server = "up" /\ Registered(n)
          BY <2>1, <4>3 DEF Post, Settled
        <5>. PICK j \in Ids :
               /\ rows[j].name = n
               /\ requests' = requests \cup {[of |-> n, id |-> j, left |-> Slow]}
               /\ wrapper' = [wrapper EXCEPT ![n].beat = "wait", ![n].left = Timeout]
          BY <4>3, <5>1 DEF Post
        <5>2. j = i
          BY <1>1, <3>2 DEF OneRow
        <5>3. r(n)' = r(n) /\ Ahead(wrapper[n]) = Slow
          BY <1>3, <5>1 DEF TypeOK, Ahead
        <5>4. CASE Within(calm[n], rows[i].age, r(n), Ahead(wrapper[n]))
          <6>. DEFINE q == [of |-> n, id |-> i, left |-> Slow]
          <6>1. q \in requests' /\ q.of = n /\ q.id = i
            BY <5>2
          <6>2. Within(calm'[n], rows'[i].age, r(n)', q.left)
            BY <3>1, <3>2, <5>3, <5>4
          <6>. QED
            BY <6>1, <6>2
        <5>5. CASE \E q \in requests : /\ q.of = n /\ q.id = i
                                       /\ Within(calm[n], rows[i].age, r(n), q.left)
          BY <3>1, <3>2, <4>1, <5>3, <5>5
        <5>. QED
          BY <2>5, <3>2, <5>3, <5>4, <5>5
      <4>. QED
        BY <4>2, <4>3
    <3>8. CASE \E m \in Wrapped : GiveUp(m) \/ Awake(m)
      <4>. PICK m \in Wrapped : GiveUp(m) \/ Awake(m)
        BY <3>8
      <4>1. requests' = requests
        BY DEF GiveUp, Awake
      <4>2. CASE m # n
        <5>1. wrapper'[n] = wrapper[n]
          BY <4>2 DEF GiveUp, Awake, TypeOK
        <5>. QED
          BY <3>3, <3>4, <4>1, <5>1
      <4>3. CASE m = n /\ GiveUp(n)
        <5>1. /\ wrapper'[n] = Asleep(wrapper[n])
              /\ wrapper[n].beat = "wait" /\ wrapper[n].left = 0
          BY <4>3 DEF GiveUp, TypeOK
        <5>2. wrapper'[n] = [main |-> wrapper[n].main, beat |-> "sleep",
                             left |-> wrapper[n].every, every |-> wrapper[n].every]
          BY <1>3, <2>0, <5>1 DEF Asleep
        <5>3. Ahead(wrapper'[n]) = Ahead(wrapper[n])
          BY <1>1, <1>3, <5>1, <5>2 DEF Ahead
        <5>. QED
          BY <3>3, <3>4, <4>1, <5>2, <5>3
      <4>4. CASE m = n /\ Awake(n)
        <5>1. /\ wrapper'[n] = [wrapper[n] EXCEPT !.beat = "send"]
              /\ wrapper[n].beat = "sleep" /\ wrapper[n].left = 0
          BY <4>4 DEF Awake, TypeOK
        <5>2. wrapper'[n] = [main |-> wrapper[n].main, beat |-> "send",
                             left |-> wrapper[n].left, every |-> wrapper[n].every]
          BY <1>3, <5>1
        <5>3. Ahead(wrapper'[n]) = Ahead(wrapper[n])
          BY <1>1, <1>3, <5>1, <5>2 DEF Ahead
        <5>. QED
          BY <3>3, <3>4, <4>1, <5>2, <5>3
      <4>. QED
        BY <4>2, <4>3, <4>4
    <3>9. CASE \E q \in requests : Heartbeat(q)
      <4>. PICK q \in requests : Heartbeat(q)
        BY <3>9
      <4>1. q.id # i
        BY <1>1, <1>7, <3>2, RowTypes DEF Heartbeat, Mark, TypeOK
      <4>2. \A p \in requests : p.id = i => p \in requests'
        BY <4>1 DEF Heartbeat
      <4>3. CASE wrapper'[n] = wrapper[n]
        BY <3>3, <3>4, <4>2, <4>3
      <4>4. CASE wrapper'[n] # wrapper[n]
        <5>1. /\ wrapper'[n] = Asleep(wrapper[n]) /\ wrapper[n].beat = "wait"
          BY <4>4 DEF Heartbeat, Awaited, TypeOK
        <5>2. wrapper'[n] = [main |-> wrapper[n].main, beat |-> "sleep",
                             left |-> wrapper[n].every, every |-> wrapper[n].every]
          BY <1>3, <2>0, <5>1 DEF Asleep
        <5>3. Ahead(wrapper'[n]) <= Ahead(wrapper[n])
          BY <1>1, <1>3, <5>1, <5>2 DEF Ahead
        <5>. QED
          BY <3>3, <3>4, <4>2, <5>2, <5>3
      <4>. QED
        BY <4>3, <4>4
    <3>10. CASE (\E m \in Names : Register(m)) \/ (\E j \in Ids : Delete(j))
      <4>1. wrapper' = wrapper /\ requests' = requests
        BY <3>10 DEF Register, Delete
      <4>. QED
        BY <3>3, <3>4, <4>1
    <3>. QED
      BY <2>2, <2>7, <3>5, <3>6, <3>7, <3>8, <3>9, <3>10, Steps
  <2>. QED
    BY <2>6, <2>7
<1>. QED
  BY <1>5, <1>6, <1>7

-----------------------------------------------------------------------------
(* The theorems *)

LEMMA Invariance == Spec => []IInv
<1>1. Init => IInv
  <2>. SUFFICES ASSUME Init PROVE IInv
    OBVIOUS
  <2>1. /\ \A n \in Wrapped : wrapper[n] = [main |-> "absent", beat |-> "off", left |-> 0,
                                            every |-> 0]
        /\ \A i \in Ids : rows[i] = NoRow
        /\ requests = {} /\ \A n \in Names : calm[n] = 0 /\ gone[n] = 0
    BY DEF Init
  <2>2. TypeOK
    <3>1. NoRow \in Rows \cup {NoRow} /\ Timeout \in Nat /\ 0 \in 0..Limit
          /\ 0 \in 0..(Limit + Slow)
      BY Times
    <3>2. ASSUME NEW n \in Wrapped
          PROVE  wrapper[n].left <= wrapper[n].every + Timeout
      <4>1. wrapper[n].left = 0 /\ wrapper[n].every = 0
        BY <2>1
      <4>2. Timeout \in Nat
        BY Times
      <4>. QED
        BY <4>1, <4>2
    <3>. QED
      BY <3>1, <3>2 DEF Init, TypeOK
  <2>3. Timers /\ Calm /\ Gone /\ LateBeats /\ OneRow
    BY <2>1, Times DEF Timers, Tended, Calm, Gone, LateBeats, OneRow, NoRow
  <2>4. OnTheWay
    BY <2>1, Times DEF OnTheWay, Settled, Tended
  <2>. QED
    BY <2>2, <2>3, <2>4 DEF IInv
<1>2. IInv /\ [Next]_vars => IInv'
  <2>. SUFFICES ASSUME IInv, [Next]_vars PROVE IInv'
    OBVIOUS
  <2>1. CASE Next
    BY <2>1, TypeStep, TimersStep, CalmStep, GoneStep, LateStep, OneRowStep, OnTheWayStep
       DEF IInv
  <2>2. CASE UNCHANGED vars
    <3>. USE <2>2 DEF vars
    <3>1. TypeOK' /\ LateBeats' /\ OneRow'
      BY DEF IInv, TypeOK, LateBeats, OneRow
    <3>2. Timers' /\ Calm' /\ Gone'
      BY DEF IInv, Timers, Calm, Gone, Tended, Settled, Registered
    <3>3. OnTheWay'
      BY DEF IInv, OnTheWay, Tended, Settled, Registered
    <3>. QED
      BY <3>1, <3>2, <3>3 DEF IInv
  <2>. QED
    BY <2>1, <2>2
<1>. QED
  BY <1>1, <1>2, PTL DEF Spec

(* Every variable keeps to its domain, for any services and intervals:     *)
(* always_on.py _heartbeat, services.py heartbeat.                         *)
THEOREM TypeCorrect == Spec => []TypeOK
<1>1. IInv => TypeOK
  BY DEF IInv
<1>. QED
  BY <1>1, Invariance, PTL

(* Whatever failed before, a service whose wrapper, row and server have    *)
(* been there for longer than a round of heartbeats is shown alive, for    *)
(* every interval that leaves the page's limit room: always_on.py          *)
(* _heartbeat, services.py heartbeat.                                      *)
THEOREM AliveInTime == Spec => []AliveShown
<1>1. IInv => AliveShown
  <2>. SUFFICES ASSUME IInv, NEW n \in Wrapped, wrapper[n].every # 0, Round(wrapper[n].every) < Limit,
                       calm[n] > Round(wrapper[n].every)
                PROVE  \E i \in Ids : rows[i].name = n /\ Alive(i)
    BY DEF AliveShown
  <2>0. TypeOK /\ Timers
    BY DEF IInv
  <2>1. /\ n \in Names /\ n # None /\ Round(wrapper[n].every) \in Nat /\ calm[n] \in 0..Limit
        /\ Slow \in Nat /\ Limit \in Nat
    BY <2>0, Times, WrapperTypes DEF TypeOK, Round
  <2>2. Settled(n)
    BY <2>1 DEF IInv, Calm
  <2>. PICK i \in Ids : rows[i].name = n
    BY <2>2 DEF Settled, Registered
  <2>3. rows[i].age \in 0..Limit
    BY <2>0, RowTypes
  <2>4. PICK x \in Nat : Within(calm[n], rows[i].age, Round(wrapper[n].every), x)
    <3>1. Ahead(wrapper[n]) \in Nat
      <4>1. wrapper[n].left \in Nat /\ wrapper[n].every \in Nat
        BY <2>0, WrapperTypes
      <4>. QED
        BY <2>1, <4>1 DEF Ahead
    <3>2. \A q \in requests : q.left \in Nat
      BY <2>0, RequestTypes
    <3>. QED
      BY <2>2, <3>1, <3>2 DEF IInv, OnTheWay
  <2>5. rows[i].age < Limit
    BY <2>1, <2>3, <2>4 DEF Within
  <2>. QED
    BY <2>1, <2>5 DEF Alive
<1>. QED
  BY <1>1, Invariance, PTL

(* A service that nothing tends is shown stale once its late heartbeats    *)
(* have aged, unless its row bears another one's mark: always_on.py        *)
(* _heartbeat, services.py heartbeat.                                      *)
THEOREM StaleInTime == Spec => []StaleShown
<1>1. IInv => StaleShown
  <2>. SUFFICES ASSUME IInv, NEW i \in Ids, NEW n \in Names,
                       rows[i].name = n, rows[i].by = n, gone[n] >= Limit + Slow
                PROVE  ~(rows[i].age < Limit)
    BY DEF StaleShown, Alive
  <2>1. TypeOK
    BY DEF IInv
  <2>2. /\ rows[i].age \in 0..Limit /\ gone[n] \in Nat /\ Slow \in Nat /\ Limit \in Nat
        /\ n # None
    BY <2>1, RowTypes, Times DEF TypeOK
  <2>3. rows[i].age < Limit => gone[n] <= rows[i].age + Slow
    BY <2>2 DEF IInv, LateBeats
  <2>. QED
    BY <2>2, <2>3
<1>. QED
  BY <1>1, Invariance, PTL
=============================================================================
