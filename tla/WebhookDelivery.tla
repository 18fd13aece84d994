--------------------------- MODULE WebhookDelivery ---------------------------
(***************************************************************************)
(* Webhook alerts: the delivery queue (detection/webhook_queue.py), the    *)
(* subscriber registry (webhook_registry.py) and the polling worker        *)
(* (webhook_worker.py) of packages/core.                                   *)
(*                                                                         *)
(* A poll starts one task per due delivery and waits for all of them with  *)
(* asyncio.gather.  A task that raises ends the wait, not the other tasks: *)
(* they run on while the next poll starts its own.                         *)
(*                                                                         *)
(* dueQueue lists the pending deliveries with next_attempt_at <= now in    *)
(* the order of next_attempt_at: a delivery joins it at the moment its     *)
(* time comes, so the order of joining is that order.                      *)
(***************************************************************************)
EXTENDS Integers, FiniteSets, Sequences, SequencesExt

CONSTANTS Subscribers,    \* names that deliveries are addressed to
          Registered,     \* those with a row in the registry
          Deliveries,     \* ids of queue rows
          SubscriberOf,   \* the subscriber of a delivery
          Limit,          \* limit of get_due_deliveries
          MAX_CONCURRENT, \* tasks of a poll that may be under way
          MAX_ATTEMPTS,
          MaxFaults       \* bound: crashes, and answers lost after acceptance

ASSUME WebhookAssumption ==
  /\ Registered \subseteq Subscribers
  /\ SubscriberOf \in [Deliveries -> Subscribers]
  /\ Limit \in Nat \ {0}
  /\ MAX_CONCURRENT \in Nat \ {0}
  /\ MAX_ATTEMPTS \in Nat \ {0}
  /\ MaxFaults \in Nat

\* Bound: tasks of at most two polls are under way at the same time.
Polls == {0, 1}

VARIABLES
  status,      \* webhook_delivery_queue.status, "none" for no row
  attempts,    \* attempt_count
  dueQueue,    \* pending and due deliveries, oldest next_attempt_at first
  active,      \* subscribers with active = 1
  unreadable,  \* subscribers whose secret no configured key decrypts
  task,        \* task[i][d]: the task of poll i for d
  poll,        \* the poll the worker made last
  waiting,     \* the worker awaits gather
  received,    \* history: requests the subscriber accepted, per delivery
  faults,      \* history: crashes and lost answers
  overlaps     \* history: polls that took a delivery up while its task ran

vars == <<status, attempts, dueQueue, active, unreadable, task, poll, waiting,
          received, faults, overlaps>>

TypeOK ==
  /\ status \in [Deliveries -> {"none", "pending", "delivered", "dead"}]
  /\ attempts \in [Deliveries -> Nat]
  /\ dueQueue \in Seq(Deliveries)
  /\ active \in SUBSET Subscribers
  /\ unreadable \in SUBSET Subscribers
  /\ task \in [Polls -> [Deliveries -> {"none", "queued", "posting", "accepted"}]]
  /\ poll \in Polls
  /\ waiting \in BOOLEAN
  /\ received \in [Deliveries -> Nat]
  /\ faults \in Nat
  /\ overlaps \in [Deliveries -> Nat]

NoTasks == [d \in Deliveries |-> "none"]

Init ==
  /\ status = [d \in Deliveries |-> "none"]
  /\ attempts = [d \in Deliveries |-> 0]
  /\ dueQueue = <<>>
  /\ active = Registered
  /\ unreadable = {}
  /\ task = [i \in Polls |-> NoTasks]
  /\ poll = 0
  /\ waiting = FALSE
  /\ received = [d \in Deliveries |-> 0]
  /\ faults = 0
  /\ overlaps = [d \in Deliveries |-> 0]

-----------------------------------------------------------------------------
(* The queue and the registry                                                *)

InQueue(d) == \E k \in 1 .. Len(dueQueue) : dueQueue[k] = d

\* get_matching_subscribers decrypts every active subscriber and raises if it
\* cannot; then enqueue, due at once.  The bridge loader enqueues its rejected
\* events for a name that is not registered.
Enqueue(d) ==
  /\ status[d] = "none"
  /\ \/ SubscriberOf[d] \in active /\ active \cap unreadable = {}
     \/ SubscriberOf[d] \notin Registered
  /\ status' = [status EXCEPT ![d] = "pending"]
  /\ dueQueue' = Append(dueQueue, d)
  /\ UNCHANGED <<attempts, active, unreadable, task, poll, waiting, received,
                 faults, overlaps>>

\* next_attempt_at of a failed delivery has come.
BackoffElapses(d) ==
  /\ status[d] = "pending"
  /\ ~InQueue(d)
  /\ dueQueue' = Append(dueQueue, d)
  /\ UNCHANGED <<status, attempts, active, unreadable, task, poll, waiting, received,
                 faults, overlaps>>

deactivate_subscriber(s) ==
  /\ s \in active
  /\ active' = active \ {s}
  /\ UNCHANGED <<status, attempts, dueQueue, unreadable, task, poll, waiting,
                 received, faults, overlaps>>

\* The key that encrypted the secret is rotated out of both variables.
KeyLost(s) ==
  /\ s \in Registered \ unreadable
  /\ unreadable' = unreadable \cup {s}
  /\ UNCHANGED <<status, attempts, dueQueue, active, task, poll, waiting, received,
                 faults, overlaps>>

\* What an UPDATE of status or next_attempt_at does to the due list, which has a
\* row at most once.
Leave(d) ==
  dueQueue' = IF InQueue(d)
              THEN RemoveAt(dueQueue, CHOOSE k \in 1 .. Len(dueQueue) : dueQueue[k] = d)
              ELSE dueQueue

\* Fault: get_due_deliveries looks at the time and not at the status.
MarkDeliveredStaysDue(d) ==
  /\ status' = [status EXCEPT ![d] = "delivered"]
  /\ UNCHANGED <<dueQueue, attempts>>

mark_delivered(d) ==
  /\ status' = [status EXCEPT ![d] = "delivered"]
  /\ Leave(d)
  /\ UNCHANGED attempts

\* Fault: the attempt is not counted.
MarkFailedUncounted(d) ==
  /\ status' = [status EXCEPT ![d] = IF attempts[d] >= MAX_ATTEMPTS THEN "dead" ELSE "pending"]
  /\ Leave(d)
  /\ UNCHANGED attempts

\* A delivery that is not dead yet is due again after a delay.
mark_failed(d) ==
  /\ attempts' = [attempts EXCEPT ![d] = @ + 1]
  /\ status' = [status EXCEPT ![d] =
                  IF attempts[d] + 1 >= MAX_ATTEMPTS THEN "dead" ELSE "pending"]
  /\ Leave(d)

-----------------------------------------------------------------------------
(* run_delivery_worker                                                       *)

\* get_subscriber returns the subscriber of d, and it is active.
Deliverable(d) == SubscriberOf[d] \in active \ unreadable

Running(i) == {d \in Deliveries : task[i][d] # "none"}

\* get_due_deliveries
Due == SubSeq(dueQueue, 1, IF Len(dueQueue) < Limit THEN Len(dueQueue) ELSE Limit)

Poll ==
  LET i == 1 - poll IN
  /\ ~waiting
  /\ Len(dueQueue) > 0
  /\ Running(i) = {}
  /\ task' = [task EXCEPT ![i] = [d \in Deliveries |->
                IF d \in ToSet(Due) THEN "queued" ELSE "none"]]
  /\ poll' = i
  /\ waiting' = TRUE
  /\ overlaps' = [d \in Deliveries |->
                    IF d \in ToSet(Due) /\ d \in Running(poll) /\ Deliverable(d)
                    THEN overlaps[d] + 1 ELSE overlaps[d]]
  /\ UNCHANGED <<status, attempts, dueQueue, active, unreadable, received, faults>>

\* gather returns; the worker sleeps and polls again.
GatherDone ==
  /\ waiting
  /\ Running(poll) = {}
  /\ waiting' = FALSE
  /\ UNCHANGED <<status, attempts, dueQueue, active, unreadable, task, poll, received,
                 faults, overlaps>>

Step(i, d, from, to) ==
  /\ task[i][d] = from
  /\ task' = [task EXCEPT ![i][d] = to]

\* Inside the semaphore.
Admitted(i) == Cardinality({d \in Deliveries : task[i][d] \in {"posting", "accepted"}}) < MAX_CONCURRENT

\* get_subscriber finds the subscriber inactive, or none: the task ends, the row stays.
TaskSkips(i, d) ==
  /\ Admitted(i)
  /\ SubscriberOf[d] \notin active \cup unreadable
  /\ Step(i, d, "queued", "none")
  /\ UNCHANGED <<status, attempts, dueQueue, active, unreadable, poll, waiting,
                 received, faults, overlaps>>

\* get_subscriber raises; gather raises with it if it is this poll's.
TaskRaises(i, d) ==
  /\ Admitted(i)
  /\ SubscriberOf[d] \in unreadable
  /\ Step(i, d, "queued", "none")
  /\ waiting' = IF i = poll THEN FALSE ELSE waiting
  /\ UNCHANGED <<status, attempts, dueQueue, active, unreadable, poll, received,
                 faults, overlaps>>

TaskPosts(i, d) ==
  /\ Admitted(i)
  /\ Deliverable(d)
  /\ Step(i, d, "queued", "posting")
  /\ UNCHANGED <<status, attempts, dueQueue, active, unreadable, poll, waiting,
                 received, faults, overlaps>>

\* The subscriber accepts the request ...
Accepted(i, d) ==
  /\ Step(i, d, "posting", "accepted")
  /\ received' = [received EXCEPT ![d] = @ + 1]
  /\ UNCHANGED <<status, attempts, dueQueue, active, unreadable, poll, waiting,
                 faults, overlaps>>

\* ... and its answer arrives,
Acknowledged(i, d) ==
  /\ Step(i, d, "accepted", "none")
  /\ mark_delivered(d)
  /\ UNCHANGED <<active, unreadable, poll, waiting, received, faults, overlaps>>

\* or is lost on the way (timeout).
AnswerLost(i, d) ==
  /\ faults < MaxFaults
  /\ faults' = faults + 1
  /\ Step(i, d, "accepted", "none")
  /\ mark_failed(d)
  /\ UNCHANGED <<active, unreadable, poll, waiting, received, overlaps>>

\* The subscriber refuses the request or cannot be reached.
Refused(i, d) ==
  /\ Step(i, d, "posting", "none")
  /\ mark_failed(d)
  /\ UNCHANGED <<active, unreadable, poll, waiting, received, faults, overlaps>>

\* The process ends and starts again: tasks are gone, rows stay.
Crash ==
  /\ faults < MaxFaults
  /\ \E i \in Polls : Running(i) # {}
  /\ faults' = faults + 1
  /\ task' = [i \in Polls |-> NoTasks]
  /\ waiting' = FALSE
  /\ UNCHANGED <<status, attempts, dueQueue, active, unreadable, poll, received, overlaps>>

TaskStep(i, d) ==
  \/ TaskSkips(i, d) \/ TaskRaises(i, d) \/ TaskPosts(i, d)
  \/ Accepted(i, d) \/ Acknowledged(i, d) \/ AnswerLost(i, d) \/ Refused(i, d)

Next ==
  \/ \E d \in Deliveries : Enqueue(d) \/ BackoffElapses(d)
  \/ \E s \in Subscribers : deactivate_subscriber(s) \/ KeyLost(s)
  \/ Poll \/ GatherDone \/ Crash
  \/ \E i \in Polls, d \in Deliveries : TaskStep(i, d)

Spec == Init /\ [][Next]_vars

\* The worker's loop goes on, every task is scheduled and its request is bounded
\* by REQUEST_TIMEOUT, and time passes.
Fairness ==
  /\ WF_vars(Poll) /\ WF_vars(GatherDone)
  /\ \A i \in Polls, d \in Deliveries : WF_vars(TaskStep(i, d))
  /\ \A d \in Deliveries : WF_vars(BackoffElapses(d))

FairSpec == Spec /\ Fairness

-----------------------------------------------------------------------------
(* Properties                                                                *)

\* A subscriber gets an alert once, and once more for each crash, each lost answer
\* and each poll that took the alert up while a task of the poll before was still
\* at it: whatever order the tasks of two polls write their results in, a request
\* too many has one of these to answer for it.
DuplicatesAccounted ==
  \A d \in Deliveries : received[d] <= 1 + faults + overlaps[d]

\* Deliveries the worker cannot work on: they stay pending and due.
Stuck == {d \in Deliveries : status[d] = "pending" /\ ~Deliverable(d)}

\* "Items stay pending until acknowledged", failed ones are retried: an alert for
\* a registered subscriber is delivered, dead after its last attempt, or stuck
\* with that subscriber, as long as the stuck ones never fill a whole poll.
AlertsSettle ==
  [](Cardinality(Stuck) < Limit) =>
    \A d \in {e \in Deliveries : SubscriberOf[e] \in Registered} :
      status[d] = "pending" ~> status[d] \in {"delivered", "dead"} \/ d \in Stuck
=============================================================================
