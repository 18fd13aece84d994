----------------------- MODULE WebhookDelivery_proof ------------------------
(***************************************************************************)
(* Theorems about WebhookDelivery for any number of subscribers and        *)
(* deliveries, any limit, any number of concurrent tasks and attempts.     *)
(***************************************************************************)
EXTENDS WebhookDelivery, SequenceTheorems, TLAPS

\* A row is in the due list at most once.
OneEach ==
  \A a, b \in 1 .. Len(dueQueue) : dueQueue[a] = dueQueue[b] => a = b

\* Taking a row out of the due list leaves the others in it.
LEMMA LeaveEffect ==
  ASSUME dueQueue \in Seq(Deliveries), OneEach, NEW d \in Deliveries, Leave(d)
  PROVE  /\ dueQueue' \in Seq(Deliveries)
         /\ OneEach'
         /\ \A e \in Deliveries : InQueue(e)' => InQueue(e) /\ e # d
  <1> DEFINE q == dueQueue
             n == Len(dueQueue)
  <1>1. n \in Nat /\ \A a \in 1 .. n : q[a] \in Deliveries
    BY ElementOfSeq
  <1>2. CASE ~InQueue(d)
    BY <1>2 DEF Leave, InQueue, OneEach
  <1>3. CASE InQueue(d)
    <2>1. PICK k \in 1 .. n : q[k] = d /\ dueQueue' = RemoveAt(q, k)
      BY <1>3 DEF Leave, InQueue
    <2> DEFINE r == dueQueue'
    <2>2. /\ r \in Seq(Deliveries) /\ Len(r) = n - 1
          /\ \A a \in 1 .. n - 1 : r[a] = IF a < k THEN q[a] ELSE q[a + 1]
      <3> DEFINE s1 == SubSeq(q, 1, k - 1)
                 s2 == SubSeq(q, k + 1, n)
      <3>1. s1 \in Seq(Deliveries) /\ Len(s1) = k - 1 /\ \A a \in 1 .. k - 1 : s1[a] = q[a]
        BY <1>1
      <3>2. s2 \in Seq(Deliveries) /\ Len(s2) = n - k /\ \A a \in 1 .. n - k : s2[a] = q[a + k]
        BY <1>1
      <3>3. r = s1 \o s2
        BY <2>1 DEF RemoveAt
      <3> HIDE DEF s1, s2, r
      <3>4. /\ r \in Seq(Deliveries) /\ Len(r) = (k - 1) + (n - k)
            /\ \A a \in 1 .. (k - 1) + (n - k) :
                 r[a] = IF a <= k - 1 THEN s1[a] ELSE s2[a - (k - 1)]
        <4>1. s1 \in Seq(Deliveries) /\ s2 \in Seq(Deliveries)
          BY <3>1, <3>2
        <4>2. /\ s1 \o s2 \in Seq(Deliveries)
              /\ Len(s1 \o s2) = Len(s1) + Len(s2)
              /\ \A a \in 1 .. Len(s1) + Len(s2) :
                   (s1 \o s2)[a] = IF a <= Len(s1) THEN s1[a] ELSE s2[a - Len(s1)]
          BY ONLY <4>1, ConcatProperties, Zenon
        <4>3. Len(s1) = k - 1 /\ Len(s2) = n - k
          BY <3>1, <3>2
        <4> QED
          BY ONLY <3>3, <4>2, <4>3, Zenon
      <3>5. (k - 1) + (n - k) = n - 1
        BY <1>1
      <3>6. ASSUME NEW a \in 1 .. n - 1  PROVE r[a] = IF a < k THEN q[a] ELSE q[a + 1]
        <4>1. CASE a < k
          <5>1. a \in 1 .. k - 1 /\ a <= k - 1
            BY <1>1, <4>1
          <5> QED
            BY <3>1, <3>4, <3>5, <4>1, <5>1
        <4>2. CASE ~(a < k)
          <5>1. a - (k - 1) \in 1 .. n - k /\ ~(a <= k - 1) /\ a - (k - 1) + k = a + 1
            BY <1>1, <4>2
          <5> QED
            BY <3>2, <3>4, <3>5, <4>2, <5>1
        <4> QED
          BY <4>1, <4>2
      <3> QED
        BY <3>4, <3>5, <3>6
    <2>4. \A a \in 1 .. n - 1 :
            \E m \in 1 .. n : m # k /\ r[a] = q[m] /\ m = IF a < k THEN a ELSE a + 1
      BY <1>1, <2>1, <2>2
    <2>5. OneEach'
      <3> SUFFICES ASSUME NEW a \in 1 .. n - 1, NEW b \in 1 .. n - 1, r[a] = r[b]
                   PROVE  a = b
        BY <2>2 DEF OneEach
      <3>1. PICK m \in 1 .. n : r[a] = q[m] /\ m = IF a < k THEN a ELSE a + 1
        BY <2>4
      <3>2. PICK l \in 1 .. n : r[b] = q[l] /\ l = IF b < k THEN b ELSE b + 1
        BY <2>4
      <3>3. m = l
        BY <3>1, <3>2 DEF OneEach
      <3> HIDE DEF r
      <3> QED
        BY <1>1, <3>1, <3>2, <3>3
    <2>6. ASSUME NEW e \in Deliveries, InQueue(e)'  PROVE InQueue(e) /\ e # d
      <3>1. PICK a \in 1 .. n - 1 : r[a] = e
        BY <2>2, <2>6 DEF InQueue
      <3>2. PICK m \in 1 .. n : m # k /\ r[a] = q[m]
        BY <2>4
      <3>3. q[m] = e /\ InQueue(e)
        BY <3>1, <3>2 DEF InQueue
      <3>4. e # d
        BY <2>1, <3>2, <3>3 DEF OneEach
      <3> QED
        BY <3>3, <3>4
    <2> QED
      BY <2>2, <2>5, <2>6
  <1> QED
    BY <1>2, <1>3

\* Joining the due list.
LEMMA JoinEffect ==
  ASSUME dueQueue \in Seq(Deliveries), OneEach, NEW d \in Deliveries, ~InQueue(d),
         dueQueue' = Append(dueQueue, d)
  PROVE  /\ dueQueue' \in Seq(Deliveries)
         /\ OneEach'
         /\ \A e \in Deliveries : InQueue(e)' => InQueue(e) \/ e = d
  <1> DEFINE n == Len(dueQueue)
             r == Append(dueQueue, d)
  <1>1. /\ r \in Seq(Deliveries) /\ n \in Nat /\ Len(r) = n + 1 /\ r[n + 1] = d
        /\ \A a \in 1 .. n : r[a] = dueQueue[a]
    BY AppendProperties
  <1>2. \A a \in 1 .. n : dueQueue[a] # d
    BY DEF InQueue
  <1>3. OneEach'
    <2> SUFFICES ASSUME NEW a \in 1 .. n + 1, NEW b \in 1 .. n + 1, r[a] = r[b]
                 PROVE  a = b
      BY <1>1 DEF OneEach
    <2> HIDE DEF r
    <2>1. CASE a \in 1 .. n /\ b \in 1 .. n
      BY <1>1, <2>1 DEF OneEach
    <2>2. CASE a = n + 1 \/ b = n + 1
      BY <1>1, <1>2, <2>2
    <2> QED
      BY <1>1, <2>1, <2>2
  <1>4. ASSUME NEW e \in Deliveries, InQueue(e)'  PROVE InQueue(e) \/ e = d
    <2>1. PICK a \in 1 .. n + 1 : r[a] = e
      BY <1>1, <1>4 DEF InQueue
    <2> HIDE DEF r
    <2> QED
      BY <1>1, <2>1 DEF InQueue
  <1> QED
    BY <1>1, <1>3, <1>4

\* The deliveries of a poll are due.
LEMMA DueInQueue ==
  ASSUME dueQueue \in Seq(Deliveries), NEW d \in ToSet(Due)
  PROVE  InQueue(d)
  <1> DEFINE n == Len(dueQueue)
             m == IF n < Limit THEN n ELSE Limit
  <1>1. n \in Nat /\ m \in Nat /\ m <= n
    BY WebhookAssumption
  <1>2. Len(Due) = m /\ \A a \in 1 .. m : Due[a] = dueQueue[a]
    BY <1>1 DEF Due
  <1>3. PICK a \in 1 .. m : Due[a] = d
    BY <1>2 DEF ToSet
  <1> QED
    BY <1>1, <1>2, <1>3 DEF InQueue

-----------------------------------------------------------------------------
(* The invariant *)

\* Rows and tasks: due rows are pending, only enqueued rows are worked on or
\* received.
RowInv ==
  /\ OneEach
  /\ \A d \in Deliveries :
       /\ InQueue(d) => status[d] = "pending"
       /\ status[d] = "none" => received[d] = 0 /\ \A i \in Polls : task[i][d] = "none"

\* Requests that may still reach the subscriber without another poll: one for a
\* task that is posting or can be, one for a pending row that no task works on.
Weight(stage, ok) == IF stage = "posting" \/ (stage = "queued" /\ ok) THEN 1 ELSE 0

Tasks(d) == Weight(task[0][d], Deliverable(d)) + Weight(task[1][d], Deliverable(d))

Idle(d) ==
  IF status[d] = "pending" /\ Deliverable(d) /\ \A i \in Polls : task[i][d] = "none" THEN 1 ELSE 0

\* Requests accepted and to come are covered by the first one, the faults and the
\* polls that overlapped.
Account(d) == received[d] + Tasks(d) + Idle(d) <= 1 + faults + overlaps[d]

Inv == TypeOK /\ RowInv /\ \A d \in Deliveries : Account(d)

\* Deliverable(d) is a truth value.
LEMMA WeightType ==
  ASSUME NEW d \in Deliveries
  PROVE  /\ Tasks(d) \in Nat /\ Idle(d) \in {0, 1}
         /\ Tasks(d)' \in Nat /\ Idle(d)' \in {0, 1}
  BY DEF Weight, Tasks, Idle

\* The account of d after a step, from what the step does to its parts.
LEMMA AccountKept ==
  ASSUME Inv, TypeOK', NEW d \in Deliveries,
         NEW paid \in {0, 1},
         received'[d] + Tasks(d)' + Idle(d)' <= received[d] + Tasks(d) + Idle(d) + paid,
         faults' + overlaps'[d] = faults + overlaps[d] + paid
  PROVE  Account(d)'
  <1>1. /\ received[d] \in Nat /\ faults \in Nat /\ overlaps[d] \in Nat
        /\ received'[d] \in Nat /\ faults' \in Nat /\ overlaps'[d] \in Nat
    BY DEF Inv, TypeOK
  <1>2. received[d] + Tasks(d) + Idle(d) <= 1 + faults + overlaps[d]
    BY DEF Inv, Account
  <1>3. received'[d] + Tasks(d)' + Idle(d)' <= 1 + faults' + overlaps'[d]
    BY <1>1, <1>2, WeightType
  <1> QED
    BY <1>3 DEF Account

\* The initial state.
LEMMA InvInit ==
  ASSUME Init  PROVE Inv
  <1>1. TypeOK
    BY WebhookAssumption DEF Init, TypeOK, NoTasks, Polls
  <1>2. RowInv
    BY DEF Init, RowInv, OneEach, InQueue, NoTasks
  <1>3. ASSUME NEW d \in Deliveries  PROVE Account(d)
    <2>1. Tasks(d) = 0 /\ Idle(d) = 0
      BY DEF Init, Tasks, Weight, Idle, NoTasks, Polls
    <2> QED
      BY <2>1 DEF Init, Account
  <1> QED
    BY <1>1, <1>2, <1>3 DEF Inv

\* A step that leaves rows, due list, tasks and counters alone, and makes no
\* subscriber deliverable that was not.
LEMMA FrameStep ==
  ASSUME Inv, TypeOK',
         UNCHANGED <<status, dueQueue, task, received, faults, overlaps>>,
         active' \ unreadable' \subseteq active \ unreadable
  PROVE  Inv'
  <1>1. RowInv'
    BY DEF Inv, RowInv, OneEach, InQueue
  <1>2. ASSUME NEW d \in Deliveries  PROVE Account(d)'
    <2>1. Deliverable(d)' => Deliverable(d)
      BY DEF Deliverable
    <2>2. Tasks(d)' <= Tasks(d) /\ Idle(d)' <= Idle(d)
      BY <2>1 DEF Tasks, Weight, Idle
    <2>3. received[d] \in Nat /\ faults \in Nat /\ overlaps[d] \in Nat
      BY DEF Inv, TypeOK
    <2>4. received'[d] + Tasks(d)' + Idle(d)' <= received[d] + Tasks(d) + Idle(d) + 0
      BY <2>2, <2>3, WeightType
    <2> QED
      BY <2>3, <2>4, AccountKept
  <1> QED
    BY <1>1, <1>2 DEF Inv

\* Enqueue and the end of a backoff: a pending row joins the due list.
LEMMA JoinStep ==
  ASSUME Inv, NEW d \in Deliveries, Enqueue(d) \/ BackoffElapses(d)
  PROVE  Inv'
  <1>1. ~InQueue(d) /\ dueQueue' = Append(dueQueue, d) /\ dueQueue \in Seq(Deliveries)
        /\ OneEach
    BY DEF Inv, RowInv, Enqueue, BackoffElapses, TypeOK
  <1>2. /\ dueQueue' \in Seq(Deliveries) /\ OneEach'
        /\ \A e \in Deliveries : InQueue(e)' => InQueue(e) \/ e = d
    BY <1>1, JoinEffect
  <1>3. /\ status' = [status EXCEPT ![d] = "pending"]
        /\ UNCHANGED <<task, active, unreadable, received, faults, overlaps>>
        /\ status[d] \in {"none", "pending"}
    BY DEF Inv, TypeOK, Enqueue, BackoffElapses
  <1>4. TypeOK'
    BY <1>2, <1>3 DEF Inv, TypeOK, Enqueue, BackoffElapses
  <1>5. RowInv'
    BY <1>2, <1>3 DEF Inv, RowInv, TypeOK
  <1>6. ASSUME NEW e \in Deliveries  PROVE Account(e)'
    <2>1. /\ Tasks(e)' = Tasks(e)
          /\ status'[e] = status[e] => Idle(e)' = Idle(e)
      BY <1>3 DEF Tasks, Weight, Idle, Deliverable
    <2>2. received[e] \in Nat /\ faults \in Nat /\ overlaps[e] \in Nat
      BY DEF Inv, TypeOK
    <2>3. CASE status'[e] = status[e]
      <3>1. received'[e] + Tasks(e)' + Idle(e)' = received[e] + Tasks(e) + Idle(e)
        BY <1>3, <2>1, <2>3
      <3> QED
        BY <1>3, <3>1 DEF Inv, Account
    <2>4. CASE status'[e] # status[e]
      <3>1. status[e] = "none"
        BY <1>3, <2>4 DEF Inv, TypeOK
      <3>2. received[e] = 0 /\ Tasks(e) = 0
        BY <3>1 DEF Inv, RowInv, Tasks, Weight, Polls
      <3> QED
        BY <1>3, <2>1, <2>2, <3>2, WeightType DEF Account
    <2> QED  BY <2>3, <2>4
  <1> QED
    BY <1>4, <1>5, <1>6 DEF Inv

\* A poll starts tasks for due rows only; where a task is at the row already, the
\* poll is counted.
LEMMA PollStep ==
  ASSUME Inv, Poll
  PROVE  Inv'
  <1>0. PICK i \in Polls : i = 1 - poll
    BY DEF Inv, TypeOK, Polls
  <1> DEFINE k == 1 - i
             new == [d \in Deliveries |-> IF d \in ToSet(Due) THEN "queued" ELSE "none"]
  <1>1. i \in {0, 1} /\ k \in {0, 1} /\ i # k /\ poll = k /\ Polls = {i, k}
    BY <1>0 DEF Inv, TypeOK, Polls
  <1>2. /\ task' = [task EXCEPT ![i] = new] /\ poll' = i /\ waiting' = TRUE
        /\ Running(i) = {}
        /\ overlaps' = [d \in Deliveries |->
                          IF d \in ToSet(Due) /\ d \in Running(k) /\ Deliverable(d)
                          THEN overlaps[d] + 1 ELSE overlaps[d]]
        /\ UNCHANGED <<status, attempts, dueQueue, active, unreadable, received, faults>>
    BY <1>0, <1>1 DEF Poll
  <1>3. \A d \in Deliveries : new[d] = "none" \/ (new[d] = "queued" /\ d \in ToSet(Due) /\ InQueue(d))
    BY DueInQueue DEF Inv, TypeOK
  <1>4. new \in [Deliveries -> {"none", "queued", "posting", "accepted"}]
    OBVIOUS
  <1> HIDE DEF new
  <1>5. task'[i] = new /\ task'[k] = task[k] /\ \A d \in Deliveries : task[i][d] = "none"
    BY <1>1, <1>2 DEF Inv, TypeOK, Running
  <1>6. TypeOK'
    <2>1. task' \in [Polls -> [Deliveries -> {"none", "queued", "posting", "accepted"}]]
      BY <1>1, <1>2, <1>4 DEF Inv, TypeOK
    <2>2. overlaps' \in [Deliveries -> Nat]
      BY <1>2 DEF Inv, TypeOK
    <2>3. waiting' \in BOOLEAN
      BY <1>2
    <2> QED
      BY <1>0, <1>2, <2>1, <2>2, <2>3 DEF Inv, TypeOK
  <1>7. \A d \in Deliveries : InQueue(d)' <=> InQueue(d)
    BY <1>2 DEF InQueue
  <1>8. RowInv'
    <2>1. OneEach'
      BY <1>2 DEF Inv, RowInv, OneEach
    <2> SUFFICES ASSUME NEW d \in Deliveries
                 PROVE  /\ InQueue(d) => status[d] = "pending"
                        /\ status[d] = "none" =>
                             received[d] = 0 /\ \A j \in Polls : task'[j][d] = "none"
      BY <1>2, <1>7, <2>1 DEF RowInv
    <2> QED
      BY <1>1, <1>3, <1>5 DEF Inv, RowInv
  <1>9. ASSUME NEW d \in Deliveries  PROVE Account(d)'
    <2> DEFINE ok == Deliverable(d)
    <2>1. received[d] \in Nat /\ faults \in Nat /\ overlaps[d] \in Nat
      BY DEF Inv, TypeOK
    <2>2. Deliverable(d)' <=> Deliverable(d)
      BY <1>2 DEF Deliverable
    <2>3. /\ Tasks(d) = Weight(task[k][d], ok)
          /\ Tasks(d)' = Weight(task[k][d], ok) + Weight(new[d], ok)
      BY <1>1, <1>5, <2>2 DEF Tasks, Weight
    <2>4. CASE new[d] = "queued" /\ ok
      <3>1. InQueue(d) /\ status[d] = "pending" /\ Weight(new[d], ok) = 1 /\ d \in ToSet(Due)
        BY <1>3, <2>4 DEF Inv, RowInv, Weight
      <3>2. Idle(d)' = 0
        BY <1>1, <1>5, <2>4 DEF Idle
      <3>3. CASE task[k][d] = "none"
        <4>1. Idle(d) = 1
          BY <1>1, <1>5, <2>4, <3>1, <3>3 DEF Idle
        <4>2. overlaps'[d] = overlaps[d]
          BY <1>2, <3>3 DEF Running
        <4>3. received'[d] + Tasks(d)' + Idle(d)' <= received[d] + Tasks(d) + Idle(d) + 0
          BY <1>2, <2>1, <2>3, <3>1, <3>2, <4>1, WeightType
        <4> QED
          BY <1>2, <1>6, <2>1, <4>2, <4>3, AccountKept
      <3>4. CASE task[k][d] # "none"
        <4>1. overlaps'[d] = overlaps[d] + 1
          BY <1>2, <2>4, <3>1, <3>4 DEF Running
        <4>2. received'[d] + Tasks(d)' + Idle(d)' <= received[d] + Tasks(d) + Idle(d) + 1
          BY <1>2, <2>1, <2>3, <3>1, <3>2, WeightType
        <4> QED
          BY <1>2, <1>6, <2>1, <4>1, <4>2, AccountKept
      <3> QED  BY <3>3, <3>4
    <2>5. CASE ~(new[d] = "queued" /\ ok)
      <3>1. Weight(new[d], ok) = 0 /\ overlaps'[d] = overlaps[d]
        <4>1. d \in ToSet(Due) => new[d] = "queued"
          BY DEF new
        <4> QED
          BY <1>2, <1>3, <2>5, <4>1 DEF Weight
      <3>2. Idle(d)' <= Idle(d)
        BY <1>1, <1>2, <1>5, <2>2 DEF Idle
      <3>3. received'[d] + Tasks(d)' + Idle(d)' <= received[d] + Tasks(d) + Idle(d) + 0
        BY <1>2, <2>1, <2>3, <3>1, <3>2, WeightType
      <3> QED
        BY <1>2, <1>6, <2>1, <3>1, <3>3, AccountKept
    <2> QED  BY <2>4, <2>5
  <1> QED
    BY <1>6, <1>8, <1>9 DEF Inv

\* A crash takes the tasks and is counted as a fault.
LEMMA CrashStep ==
  ASSUME Inv, Crash
  PROVE  Inv'
  <1>1. /\ task' = [i \in Polls |-> NoTasks] /\ faults' = faults + 1 /\ waiting' = FALSE
        /\ UNCHANGED <<status, attempts, dueQueue, active, unreadable, poll, received, overlaps>>
    BY DEF Crash
  <1>2. \A i \in Polls, d \in Deliveries : task'[i][d] = "none"
    BY <1>1 DEF NoTasks
  <1>3. \A d \in Deliveries : InQueue(d)' <=> InQueue(d)
    BY <1>1 DEF InQueue
  <1>4. TypeOK'
    <2>1. NoTasks \in [Deliveries -> {"none", "queued", "posting", "accepted"}]
      BY DEF NoTasks
    <2>2. task' \in [Polls -> [Deliveries -> {"none", "queued", "posting", "accepted"}]]
      BY <1>1, <2>1
    <2>3. faults' \in Nat
      BY <1>1 DEF Inv, TypeOK
    <2>4. waiting' \in BOOLEAN
      BY <1>1
    <2> QED
      BY <1>1, <2>2, <2>3, <2>4 DEF Inv, TypeOK
  <1>5. RowInv'
    BY <1>1, <1>2, <1>3 DEF Inv, RowInv, OneEach
  <1>6. ASSUME NEW d \in Deliveries  PROVE Account(d)'
    <2>1. received[d] \in Nat /\ faults \in Nat /\ overlaps[d] \in Nat
      BY DEF Inv, TypeOK
    <2>2. Tasks(d)' = 0
      BY <1>2 DEF Tasks, Weight, Polls
    <2>3. received'[d] + Tasks(d)' + Idle(d)' <= received[d] + Tasks(d) + Idle(d) + 1
      BY <1>1, <2>1, <2>2, WeightType
    <2> QED
      BY <1>1, <1>4, <2>1, <2>3, AccountKept
  <1> QED
    BY <1>4, <1>5, <1>6 DEF Inv

\* What a step of a task does to rows, requests and faults.
LEMMA TaskEffect ==
  ASSUME Inv, NEW i \in Polls, NEW d \in Deliveries, TaskStep(i, d)
  PROVE  /\ UNCHANGED <<active, unreadable, overlaps>>
         /\ \/ /\ Step(i, d, "queued", "none") /\ ~Deliverable(d)
               /\ UNCHANGED <<status, dueQueue, received, faults>>
            \/ /\ Step(i, d, "queued", "posting") /\ Deliverable(d)
               /\ UNCHANGED <<status, dueQueue, received, faults>>
            \/ /\ Step(i, d, "posting", "accepted")
               /\ received' = [received EXCEPT ![d] = @ + 1]
               /\ UNCHANGED <<status, dueQueue, faults>>
            \/ /\ Step(i, d, "accepted", "none")
               /\ status' = [status EXCEPT ![d] = "delivered"] /\ Leave(d)
               /\ UNCHANGED <<received, faults>>
            \/ /\ Step(i, d, "accepted", "none")
               /\ \E v \in {"pending", "dead"} : status' = [status EXCEPT ![d] = v]
               /\ Leave(d) /\ faults' = faults + 1
               /\ UNCHANGED received
            \/ /\ Step(i, d, "posting", "none")
               /\ \E v \in {"pending", "dead"} : status' = [status EXCEPT ![d] = v]
               /\ Leave(d)
               /\ UNCHANGED <<received, faults>>
  BY DEF TaskStep, TaskSkips, TaskRaises, TaskPosts, Accepted, Acknowledged, AnswerLost,
         Refused, mark_delivered, mark_failed, Deliverable

\* A task's step keeps every type.
LEMMA TaskType ==
  ASSUME Inv, NEW i \in Polls, NEW d \in Deliveries, TaskStep(i, d)
  PROVE  TypeOK'
  <1> USE DEF Inv, TypeOK
  <1>1. Leave(d) => dueQueue' \in Seq(Deliveries)
    BY LeaveEffect DEF RowInv
  <1>a. mark_failed(d) => /\ attempts' \in [Deliveries -> Nat]
                          /\ status' \in [Deliveries -> {"none", "pending", "delivered", "dead"}]
                          /\ dueQueue' \in Seq(Deliveries)
    BY <1>1 DEF mark_failed
  <1>b. ASSUME NEW to \in {"none", "posting", "accepted"}, task' = [task EXCEPT ![i][d] = to]
        PROVE  task' \in [Polls -> [Deliveries -> {"none", "queued", "posting", "accepted"}]]
    BY <1>b
  <1>2. CASE TaskSkips(i, d) \/ TaskRaises(i, d) \/ TaskPosts(i, d)
    <2>1. waiting' \in BOOLEAN
      <3>1. waiting' = waiting \/ waiting' = FALSE
        BY <1>2 DEF TaskSkips, TaskRaises, TaskPosts
      <3> QED
        BY <3>1
    <2>2. task' \in [Polls -> [Deliveries -> {"none", "queued", "posting", "accepted"}]]
      <3>1. \E to \in {"none", "posting"} : task' = [task EXCEPT ![i][d] = to]
        BY <1>2 DEF TaskSkips, TaskRaises, TaskPosts, Step
      <3> QED
        BY <3>1
    <2> QED
      BY <1>2, <2>1, <2>2 DEF TaskSkips, TaskRaises, TaskPosts
  <1>3. CASE Accepted(i, d)
    BY <1>3 DEF Accepted, Step
  <1>4. CASE Acknowledged(i, d)
    BY <1>1, <1>4 DEF Acknowledged, Step, mark_delivered
  <1>5. CASE AnswerLost(i, d)
    <2>1. task' = [task EXCEPT ![i][d] = "none"] /\ mark_failed(d) /\ faults' \in Nat
      BY <1>5 DEF AnswerLost, Step
    <2> QED
      BY <1>5, <1>a, <1>b, <2>1 DEF AnswerLost
  <1>6. CASE Refused(i, d)
    <2>1. task' = [task EXCEPT ![i][d] = "none"] /\ mark_failed(d)
      BY <1>6 DEF Refused, Step
    <2> QED
      BY <1>6, <1>a, <1>b, <2>1 DEF Refused
  <1> QED
    BY <1>2, <1>3, <1>4, <1>5, <1>6 DEF TaskStep

\* A task's step keeps rows and due list in order.
LEMMA TaskRows ==
  ASSUME Inv, NEW i \in Polls, NEW d \in Deliveries, TaskStep(i, d)
  PROVE  RowInv'
  <1> USE DEF Inv
  <1>1. /\ task[i][d] # "none"
        /\ \E to \in {"none", "posting", "accepted"} : task' = [task EXCEPT ![i][d] = to]
    BY TaskEffect DEF Step
  <1>2. status[d] # "none"
    BY <1>1 DEF RowInv
  <1>3. \A j \in Polls, e \in Deliveries : <<j, e>> # <<i, d>> => task'[j][e] = task[j][e]
    BY <1>1 DEF TypeOK
  <1>4. /\ OneEach'
        /\ \A e \in Deliveries : InQueue(e)' => InQueue(e)
        /\ (dueQueue' = dueQueue /\ status' = status) \/ ~InQueue(d)'
    <2>1. CASE dueQueue' = dueQueue /\ status' = status
      BY <2>1 DEF RowInv, OneEach, InQueue
    <2>2. CASE Leave(d)
      BY <2>2, LeaveEffect DEF RowInv, TypeOK
    <2> QED
      BY <2>1, <2>2, TaskEffect
  <1>5. /\ \A e \in Deliveries : e # d => status'[e] = status[e] /\ received'[e] = received[e]
        /\ status'[d] # "none"
    <2>1. status' = status
          \/ \E v \in {"delivered", "pending", "dead"} : status' = [status EXCEPT ![d] = v]
      BY TaskEffect
    <2>2. received' = received \/ received' = [received EXCEPT ![d] = received[d] + 1]
      BY TaskEffect
    <2> QED
      BY <1>2, <2>1, <2>2 DEF TypeOK
  <1> SUFFICES ASSUME NEW e \in Deliveries
               PROVE  /\ InQueue(e)' => status'[e] = "pending"
                      /\ status'[e] = "none" =>
                           received'[e] = 0 /\ \A j \in Polls : task'[j][e] = "none"
    BY <1>4 DEF RowInv
  <1>6. CASE e = d
    BY <1>4, <1>5, <1>6 DEF RowInv
  <1>7. CASE e # d
    BY <1>3, <1>4, <1>5, <1>7 DEF RowInv
  <1> QED
    BY <1>6, <1>7

\* A task's step keeps the account of requests.
LEMMA TaskAccount ==
  ASSUME Inv, NEW i \in Polls, NEW d \in Deliveries, TaskStep(i, d), TypeOK',
         NEW e \in Deliveries
  PROVE  Account(e)'
  <1> DEFINE k == 1 - i
             ok == Deliverable(e)
             w == Weight(task[k][e], ok)
  <1>1. i \in {0, 1} /\ k \in {0, 1} /\ i # k /\ Polls = {i, k}
    BY DEF Polls
  <1>2. /\ received[e] \in Nat /\ faults \in Nat /\ overlaps[e] \in Nat
        /\ faults' \in Nat /\ w \in {0, 1}
    BY DEF Inv, TypeOK, Weight
  <1>3. (Deliverable(e)' <=> ok) /\ overlaps'[e] = overlaps[e]
    BY TaskEffect DEF Deliverable
  <1>a. \E to \in {"none", "posting", "accepted"} : task' = [task EXCEPT ![i][d] = to]
    BY TaskEffect DEF Step
  <1>4. task'[k] = task[k]
    BY <1>1, <1>a DEF Inv, TypeOK
  <1>5. /\ Tasks(e) = Weight(task[i][e], ok) + w
        /\ Tasks(e)' = Weight(task'[i][e], ok) + w
    BY <1>1, <1>3, <1>4 DEF Tasks, Weight
  <1>6. CASE e # d
    <2>1. task'[i][e] = task[i][e]
      BY <1>6, <1>a DEF Inv, TypeOK
    <2>2. status'[e] = status[e] /\ received'[e] = received[e]
      <3>1. status' = status
            \/ \E v \in {"delivered", "pending", "dead"} : status' = [status EXCEPT ![d] = v]
        BY TaskEffect
      <3>2. received' = received \/ received' = [received EXCEPT ![d] = received[d] + 1]
        BY TaskEffect
      <3> QED
        BY <1>6, <3>1, <3>2 DEF Inv, TypeOK
    <2>3. Idle(e)' = Idle(e) /\ Tasks(e)' = Tasks(e)
      BY <1>1, <1>3, <1>4, <1>5, <2>1, <2>2 DEF Idle
    <2>4. faults' = faults \/ faults' = faults + 1
      BY TaskEffect
    <2>5. received[e] + Tasks(e) + Idle(e) <= 1 + faults + overlaps[e]
      BY DEF Inv, Account
    <2>6. received'[e] + Tasks(e)' + Idle(e)' <= 1 + faults' + overlaps'[e]
      BY <1>2, <1>3, <2>2, <2>3, <2>4, <2>5, WeightType
    <2> QED
      BY <2>6 DEF Account
  <1>7. CASE e = d
    <2>0. \A from, to : Step(i, d, from, to) => task[i][e] = from /\ task'[i][e] = to
      BY <1>7 DEF Step, Inv, TypeOK
    <2>a. \A from, to : Step(i, d, from, to) /\ from # "none" => Idle(e) = 0
      BY <2>0 DEF Idle
    <2>1. CASE /\ Step(i, d, "queued", "none") /\ ~Deliverable(d)
               /\ UNCHANGED <<status, dueQueue, received, faults>>
      <3>1. Tasks(e)' = Tasks(e) /\ Idle(e)' = 0
        BY <1>3, <1>5, <1>7, <2>0, <2>1 DEF Weight, Idle
      <3>2. received'[e] + Tasks(e)' + Idle(e)' <= received[e] + Tasks(e) + Idle(e) + 0
        BY <1>2, <2>1, <3>1, WeightType
      <3> QED
        BY <1>2, <1>3, <2>1, <3>2, AccountKept
    <2>2. CASE /\ Step(i, d, "queued", "posting") /\ Deliverable(d)
               /\ UNCHANGED <<status, dueQueue, received, faults>>
      <3>1. Tasks(e)' = Tasks(e) /\ Idle(e)' = 0
        BY <1>5, <1>7, <2>0, <2>2 DEF Weight, Idle
      <3>2. received'[e] + Tasks(e)' + Idle(e)' <= received[e] + Tasks(e) + Idle(e) + 0
        BY <1>2, <2>2, <3>1, WeightType
      <3> QED
        BY <1>2, <1>3, <2>2, <3>2, AccountKept
    <2>3. CASE /\ Step(i, d, "posting", "accepted")
               /\ received' = [received EXCEPT ![d] = @ + 1]
               /\ UNCHANGED <<status, dueQueue, faults>>
      <3>1. Tasks(e)' = Tasks(e) - 1 /\ Idle(e)' = 0
        BY <1>2, <1>5, <2>0, <2>3 DEF Weight, Idle
      <3>2. received'[e] = received[e] + 1
        BY <1>7, <2>3 DEF Inv, TypeOK
      <3>3. received'[e] + Tasks(e)' + Idle(e)' <= received[e] + Tasks(e) + Idle(e) + 0
        BY <1>2, <3>1, <3>2, WeightType
      <3> QED
        BY <1>2, <1>3, <2>3, <3>3, AccountKept
    <2>4. CASE /\ Step(i, d, "accepted", "none")
               /\ status' = [status EXCEPT ![d] = "delivered"] /\ Leave(d)
               /\ UNCHANGED <<received, faults>>
      <3>1. Tasks(e)' = Tasks(e)
        BY <1>5, <2>0, <2>4 DEF Weight
      <3>2. Idle(e)' = 0
        BY <1>7, <2>4 DEF Idle, Inv, TypeOK
      <3>3. received'[e] + Tasks(e)' + Idle(e)' <= received[e] + Tasks(e) + Idle(e) + 0
        BY <1>2, <2>4, <3>1, <3>2, WeightType
      <3> QED
        BY <1>2, <1>3, <2>4, <3>3, AccountKept
    <2>5. CASE /\ Step(i, d, "accepted", "none")
               /\ \E v \in {"pending", "dead"} : status' = [status EXCEPT ![d] = v]
               /\ Leave(d) /\ faults' = faults + 1
               /\ UNCHANGED received
      <3>1. Tasks(e)' = Tasks(e)
        BY <1>5, <2>0, <2>5 DEF Weight
      <3>2. received'[e] + Tasks(e)' + Idle(e)' <= received[e] + Tasks(e) + Idle(e) + 1
        BY <1>2, <2>5, <3>1, WeightType
      <3> QED
        BY <1>2, <1>3, <2>5, <3>2, AccountKept
    <2>6. CASE /\ Step(i, d, "posting", "none")
               /\ \E v \in {"pending", "dead"} : status' = [status EXCEPT ![d] = v]
               /\ Leave(d)
               /\ UNCHANGED <<received, faults>>
      <3>1. Tasks(e)' = Tasks(e) - 1
        BY <1>2, <1>5, <2>0, <2>6 DEF Weight
      <3>2. received'[e] + Tasks(e)' + Idle(e)' <= received[e] + Tasks(e) + Idle(e) + 0
        BY <1>2, <2>6, <3>1, WeightType
      <3> QED
        BY <1>2, <1>3, <2>6, <3>2, AccountKept
    <2> QED
      BY <2>1, <2>2, <2>3, <2>4, <2>5, <2>6, TaskEffect
  <1> QED
    BY <1>6, <1>7

\* The invariant is kept by every step.
LEMMA InvStep ==
  ASSUME Inv, [Next]_vars
  PROVE  Inv'
  <1>1. CASE \E d \in Deliveries : Enqueue(d) \/ BackoffElapses(d)
    BY <1>1, JoinStep
  <1>2. CASE \E s \in Subscribers : deactivate_subscriber(s) \/ KeyLost(s)
    <2>1. TypeOK'
      BY <1>2 DEF Inv, TypeOK, deactivate_subscriber, KeyLost
    <2> QED
      BY <1>2, <2>1, FrameStep DEF deactivate_subscriber, KeyLost
  <1>3. CASE GatherDone
    <2>1. TypeOK'
      BY <1>3 DEF Inv, TypeOK, GatherDone
    <2> QED
      BY <1>3, <2>1, FrameStep DEF GatherDone
  <1>4. CASE Poll \/ Crash
    BY <1>4, PollStep, CrashStep
  <1>5. CASE \E i \in Polls, d \in Deliveries : TaskStep(i, d)
    BY <1>5, TaskType, TaskRows, TaskAccount DEF Inv
  <1>6. CASE UNCHANGED vars
    <2>1. TypeOK'
      BY <1>6 DEF Inv, TypeOK, vars
    <2> QED
      BY <1>6, <2>1, FrameStep DEF vars
  <1> QED
    BY <1>1, <1>2, <1>3, <1>4, <1>5, <1>6 DEF Next

\* The invariant holds throughout.
LEMMA Invariance == Spec => []Inv
  <1>1. Init => Inv
    BY InvInit
  <1>2. Inv /\ [Next]_vars => Inv'
    BY InvStep
  <1> QED
    BY <1>1, <1>2, PTL DEF Spec

\* Rows, due list, tasks and counters stay well typed, through overlapping polls
\* and crashes.
THEOREM TypeCorrect == Spec => []TypeOK
  <1>1. Inv => TypeOK
    BY DEF Inv
  <1> QED
    BY <1>1, Invariance, PTL

\* The due list never holds a row twice, although get_due_deliveries leaves rows in
\* it while their tasks run: a poll starts at most one task for each delivery.
THEOREM DueOnce == Spec => []OneEach
  <1>1. Inv => OneEach
    BY DEF Inv, RowInv
  <1> QED
    BY <1>1, Invariance, PTL

\* A subscriber gets an alert at most once more than there were crashes, lost answers
\* and polls that took it up while a task was at it, however often it is retried,
\* skipped or found undecryptable, and in whatever order overlapping polls end.
THEOREM RequestsAccounted == Spec => []DuplicatesAccounted
  <1>1. ASSUME Inv, NEW d \in Deliveries  PROVE received[d] <= 1 + faults + overlaps[d]
    <2>1. received[d] + Tasks(d) + Idle(d) <= 1 + faults + overlaps[d]
      BY <1>1 DEF Inv, Account
    <2>2. received[d] \in Nat /\ faults \in Nat /\ overlaps[d] \in Nat
      BY <1>1 DEF Inv, TypeOK
    <2> QED
      BY <2>1, <2>2, WeightType
  <1>2. Inv => DuplicatesAccounted
    BY <1>1 DEF DuplicatesAccounted
  <1> QED
    BY <1>2, Invariance, PTL
=============================================================================
