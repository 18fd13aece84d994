------------------------ MODULE ChainSubmissionQueue ------------------------
(***************************************************************************)
(* The durable queue of writes owed to the on-chain score registry         *)
(* (packages/core/detection/chain_submission_queue.py), its workers, and   *)
(* the transactions a worker's publisher sends (soroban_publisher.py).     *)
(*                                                                         *)
(* A row of pending_chain_submissions is a record of its status, the       *)
(* attempts column, whether next_attempt_at has passed, and whether        *)
(* leased_until has.  Time only ever matters to the code through those two *)
(* comparisons, so it is modelled by the steps that turn them.             *)
(*                                                                         *)
(* Nothing in the repository calls run_worker: whoever deploys the queue   *)
(* starts its workers, starts them again when they end, and decides        *)
(* whether they are given a callback.                                      *)
(***************************************************************************)
EXTENDS Integers, FiniteSets

CONSTANTS Overrides,    \* override ids, one row of the queue each
          Workers,      \* worker loops, in any number of processes
          OnSubmitted,  \* the workers are given apply_submission_result
          MaxAttempts,  \* max_attempts of every row
          MaxCrashes,   \* bound: worker crashes
          MaxSteals,    \* bound: leases that run out under a live worker
          NULL

ASSUME QueueAssumption ==
  /\ IsFiniteSet(Workers)
  /\ OnSubmitted \in BOOLEAN
  /\ MaxAttempts \in Nat \ {0}
  /\ MaxCrashes \in Nat
  /\ MaxSteals \in Nat
  /\ NULL \notin Overrides

VARIABLES
  row,      \* pending_chain_submissions
  mirror,   \* score_overrides.status of the override is 'submitted'
  pc,       \* where each worker is
  claim,    \* the row a worker claimed, NULL if none
  seen,     \* the attempts column as the worker read it when it claimed
  tries,    \* transactions sent for the current claim
  chain,    \* history: zero-score writes the contract accepted, per row
  orphans,  \* transactions of the row that were sent and that nobody polls
  crashes,  \* history: worker crashes so far
  steals,   \* history: leases that ran out under a live worker
  slips     \* history: per row, leases lost and outcomes of a send lost

queueVars == <<row, mirror, pc, claim, seen, tries, chain, orphans,
               crashes, steals, slips>>

Statuses == {"none", "pending", "in_flight", "submitted", "abandoned"}
Terminal == {"submitted", "abandoned"}

Rows == [status : Statuses, attempts : 0 .. MaxAttempts + 1,
         due : BOOLEAN, lease : {"none", "held", "expired"}]

QueueTypeOK ==
  /\ row \in [Overrides -> Rows]
  /\ mirror \in [Overrides -> BOOLEAN]
  /\ pc \in [Workers -> {"down", "idle", "ready", "sent", "landed", "failed", "marked"}]
  /\ claim \in [Workers -> Overrides \cup {NULL}]
  /\ seen \in [Workers -> 0 .. MaxAttempts - 1]
  /\ tries \in [Workers -> 0 .. 2]
  /\ chain \in [Overrides -> Nat]
  /\ orphans \in [Overrides -> Nat]
  /\ crashes \in Nat
  /\ steals \in Nat
  /\ slips \in [Overrides -> Nat]

Row(status, attempts, due, lease) ==
  [status |-> status, attempts |-> attempts, due |-> due, lease |-> lease]

NoRow == Row("none", 0, FALSE, "none")

QueueInit ==
  /\ row = [o \in Overrides |-> NoRow]
  /\ mirror = [o \in Overrides |-> FALSE]
  /\ pc = [w \in Workers |-> "down"]
  /\ claim = [w \in Workers |-> NULL]
  /\ seen = [w \in Workers |-> 0]
  /\ tries = [w \in Workers |-> 0]
  /\ chain = [o \in Overrides |-> 0]
  /\ orphans = [o \in Overrides |-> 0]
  /\ crashes = 0
  /\ steals = 0
  /\ slips = [o \in Overrides |-> 0]

-----------------------------------------------------------------------------
(* The rows                                                                  *)

\* enqueue_override_submission: INSERT OR IGNORE under the caller's
\* transaction, due at once.
Enqueue(o) ==
  /\ row[o].status = "none"
  /\ row' = [row EXCEPT ![o] = Row("pending", 0, TRUE, "none")]
  /\ UNCHANGED <<mirror, pc, claim, seen, tries, chain, orphans, crashes,
                 steals, slips>>

\* next_attempt_at <= now becomes true.
BackoffElapses(o) ==
  /\ row[o].status = "pending"
  /\ ~row[o].due
  /\ row' = [row EXCEPT ![o] = Row("pending", @.attempts, TRUE, @.lease)]
  /\ UNCHANGED <<mirror, pc, claim, seen, tries, chain, orphans, crashes,
                 steals, slips>>

\* A worker that has claimed the row and has not recorded an outcome.
Working(w, o) == claim[w] = o /\ pc[w] \in {"ready", "sent", "landed", "failed"}

ExpireLease(o) ==
  /\ row[o].status = "in_flight"
  /\ row[o].lease = "held"
  /\ row' = [row EXCEPT ![o] = Row("in_flight", @.attempts, @.due, "expired")]
  /\ UNCHANGED <<mirror, pc, claim, seen, tries, chain, orphans, crashes>>

\* leased_until <= now becomes true: nobody works on the row any more ...
LeaseExpires(o) ==
  /\ \A w \in Workers : ~Working(w, o)
  /\ ExpireLease(o)
  /\ UNCHANGED <<steals, slips>>

\* ... or its worker is slower than LEASE_SECONDS.
LeaseStolen(o) ==
  /\ \E w \in Workers : Working(w, o)
  /\ steals < MaxSteals
  /\ ExpireLease(o)
  /\ steals' = steals + 1
  /\ slips' = [slips EXCEPT ![o] = @ + 1]

-----------------------------------------------------------------------------
(* The workers                                                               *)

\* run_worker is called; its loop has no bound.
Start(w) ==
  /\ pc[w] = "down"
  /\ pc' = [pc EXCEPT ![w] = "idle"]
  /\ UNCHANGED <<row, mirror, claim, seen, tries, chain, orphans, crashes, steals, slips>>

\* Fault: the lease of an in-flight row is not looked at.
ClaimableIgnoresLease(o) == row[o].due /\ row[o].status \in {"pending", "in_flight"}

\* Fault: only pending rows are looked for.
ClaimablePendingOnly(o) == row[o].due /\ row[o].status = "pending"

\* Fault: a row without a lease is taken to be free, whatever its status.
ClaimableUnleased(o) == row[o].due /\ row[o].status # "none" /\ row[o].lease # "held"

Claimable(o) ==
  /\ row[o].due
  /\ \/ row[o].status = "pending"
     \/ row[o].status = "in_flight" /\ row[o].lease # "held"

\* claim_next_due: one BEGIN IMMEDIATE transaction.  The column attempts is
\* read here and used when the attempt has ended.
Claim(w, o) ==
  /\ pc[w] = "idle"
  /\ Claimable(o)
  /\ row' = [row EXCEPT ![o] = Row("in_flight", @.attempts, @.due, "held")]
  /\ pc' = [pc EXCEPT ![w] = "ready"]
  /\ claim' = [claim EXCEPT ![w] = o]
  /\ seen' = [seen EXCEPT ![w] = row[o].attempts]
  /\ UNCHANGED <<mirror, tries, chain, orphans, crashes, steals, slips>>

At(w, from, to) == pc[w] = from /\ pc' = [pc EXCEPT ![w] = to]

\* The job dictionary goes out of scope.
Done(w) ==
  /\ claim' = [claim EXCEPT ![w] = NULL]
  /\ seen' = [seen EXCEPT ![w] = 0]
  /\ tries' = [tries EXCEPT ![w] = 0]

\* submit_score gives up before a transaction is sent: no submission lease,
\* circuit open, load or simulation failed.
Refused(w) ==
  /\ At(w, "ready", "failed")
  /\ UNCHANGED <<row, mirror, claim, seen, tries, chain, orphans, crashes,
                 steals, slips>>

\* _submit_once: the transaction is signed and sent.
Send(w) ==
  /\ tries[w] < 2
  /\ At(w, "ready", "sent")
  /\ tries' = [tries EXCEPT ![w] = @ + 1]
  /\ UNCHANGED <<row, mirror, claim, seen, chain, orphans, crashes, steals, slips>>

\* The network applies the transaction the worker is polling for.
Land(w) ==
  /\ At(w, "sent", "landed")
  /\ chain' = [chain EXCEPT ![claim[w]] = @ + 1]
  /\ UNCHANGED <<row, mirror, claim, seen, tries, orphans, crashes, steals, slips>>

\* The network applies, or drops, a transaction nobody polls for.
OrphanLands(o) ==
  /\ orphans[o] > 0
  /\ orphans' = [orphans EXCEPT ![o] = @ - 1]
  /\ chain' = [chain EXCEPT ![o] = @ + 1]
  /\ UNCHANGED <<row, mirror, pc, claim, seen, tries, crashes, steals, slips>>

OrphanDropped(o) ==
  /\ orphans[o] > 0
  /\ orphans' = [orphans EXCEPT ![o] = @ - 1]
  /\ UNCHANGED <<row, mirror, pc, claim, seen, tries, chain, crashes, steals, slips>>

\* _execute_with_retries: the first error may be one it retries.
AfterError(w) == IF tries[w] < 2 THEN {"ready", "failed"} ELSE {"failed"}

\* The transaction is reported as failed.
Rejected(w) ==
  /\ \E to \in AfterError(w) : At(w, "sent", to)
  /\ UNCHANGED <<row, mirror, claim, seen, tries, chain, orphans, crashes,
                 steals, slips>>

\* Polling ends without an answer (30 polls, or an error of the RPC node):
\* the transaction may have been applied or may still be.
OutcomeLost(w) ==
  /\ \E from \in {"sent", "landed"}, to \in AfterError(w) :
       /\ At(w, from, to)
       /\ orphans' = IF from = "sent" THEN [orphans EXCEPT ![claim[w]] = @ + 1]
                                      ELSE orphans
  /\ slips' = [slips EXCEPT ![claim[w]] = @ + 1]
  /\ UNCHANGED <<row, mirror, claim, seen, tries, chain, crashes, steals>>

\* Fault: an attempt without a transaction hash closes the row.
MarkSubmittedUnconfirmed(w) ==
  /\ \E from \in {"landed", "failed"} : At(w, from, "marked")
  /\ row' = [row EXCEPT ![claim[w]] = Row("submitted", @.attempts, @.due, "none")]
  /\ UNCHANGED <<mirror, claim, seen, tries, chain, orphans, crashes, steals, slips>>

\* _mark_submitted: polling saw SUCCESS.  Without a callback that is all.
MarkSubmitted(w) ==
  /\ \/ OnSubmitted /\ At(w, "landed", "marked") /\ UNCHANGED <<claim, seen, tries>>
     \/ ~OnSubmitted /\ At(w, "landed", "idle") /\ Done(w)
  /\ row' = IF row[claim[w]].status = "submitted" THEN row
            ELSE [row EXCEPT ![claim[w]] = Row("submitted", @.attempts + 1, @.due, "none")]
  /\ UNCHANGED <<mirror, chain, orphans, crashes, steals, slips>>

\* Fault: an error of the callback is logged and dropped.
MirrorErrorDropped(w) ==
  /\ At(w, "marked", "idle")
  /\ \E told \in BOOLEAN : mirror' = [mirror EXCEPT ![claim[w]] = @ \/ told]
  /\ Done(w)
  /\ UNCHANGED <<row, chain, orphans, crashes, steals, slips>>

\* on_submitted, which is apply_submission_result.
MirrorSubmitted(w) ==
  /\ At(w, "marked", "idle")
  /\ mirror' = [mirror EXCEPT ![claim[w]] = TRUE]
  /\ Done(w)
  /\ UNCHANGED <<row, chain, orphans, crashes, steals, slips>>

\* _mark_retry: counts from the attempts the worker saw, whatever the row has
\* become in the meantime.
MarkRetry(w) ==
  LET o == claim[w]  attempts == seen[w] + 1 IN
  /\ At(w, "failed", "idle")
  /\ row' = IF attempts >= MaxAttempts
            THEN [row EXCEPT ![o] = Row("abandoned", attempts, @.due, "none")]
            ELSE [row EXCEPT ![o] = Row("pending", attempts, FALSE, "none")]
  /\ Done(w)
  /\ UNCHANGED <<mirror, chain, orphans, crashes, steals, slips>>

\* The loop ends: its process dies, or claiming a row, recording an outcome or
\* the callback raises, which nothing catches.  The row keeps its lease.
Crash(w) ==
  /\ pc[w] # "down"
  /\ crashes < MaxCrashes
  /\ crashes' = crashes + 1
  /\ pc' = [pc EXCEPT ![w] = "down"]
  /\ Done(w)
  /\ orphans' = IF pc[w] = "sent" THEN [orphans EXCEPT ![claim[w]] = @ + 1] ELSE orphans
  /\ slips' = IF pc[w] \in {"sent", "landed"} THEN [slips EXCEPT ![claim[w]] = @ + 1]
                                              ELSE slips
  /\ UNCHANGED <<row, mirror, chain, steals>>

\* What the loop of run_worker does by itself.
WorkerStep(w) ==
  \/ \E o \in Overrides : Claim(w, o)
  \/ Refused(w) \/ Send(w) \/ Land(w) \/ Rejected(w) \/ OutcomeLost(w)
  \/ MarkSubmitted(w) \/ MirrorSubmitted(w) \/ MarkRetry(w)

QueueStep ==
  \/ \E w \in Workers : Start(w) \/ WorkerStep(w) \/ Crash(w)
  \/ \E o \in Overrides : \/ BackoffElapses(o) \/ LeaseExpires(o) \/ LeaseStolen(o)
                          \/ OrphanLands(o) \/ OrphanDropped(o)

QueueNext == QueueStep \/ \E o \in Overrides : Enqueue(o)

\* The queue by itself: any caller may enqueue.
QueueSpec == QueueInit /\ [][QueueNext]_queueVars

\* A loop that is running keeps running, and clocks advance.  Nothing starts a
\* loop: that is left to the condition of the property.
QueueFairness ==
  /\ \A w \in Workers : WF_queueVars(WorkerStep(w))
  /\ \A o \in Overrides : WF_queueVars(BackoffElapses(o)) /\ WF_queueVars(LeaseExpires(o))

FairQueueSpec == QueueSpec /\ QueueFairness

-----------------------------------------------------------------------------
(* Properties                                                                *)

\* Workers that may still send, or wait for, a transaction of the row.
Senders(o) == {w \in Workers : claim[w] = o /\ pc[w] \in {"ready", "sent", "failed"}}

\* 1 if a worker may claim the row now or after waiting for its lease.
Owed(o) ==
  IF \/ row[o].status = "pending"
     \/ /\ row[o].status = "in_flight"
        /\ row[o].lease # "held" \/ \A w \in Workers : ~Working(w, o)
  THEN 1 ELSE 0

\* "can only ever produce one successful on-chain write per originating
\* decision": a row never has more writes than one for itself and one for each
\* time a lease ran out under its worker or the outcome of a send was lost.
WritesWithinSlips == \A o \in Overrides : chain[o] <= 1 + slips[o]

\* A row is closed as submitted, and its override reported as submitted, only
\* after the contract accepted a write for it.
SubmittedIsOnChain ==
  \A o \in Overrides : row[o].status = "submitted" \/ mirror[o] => chain[o] >= 1

\* Where the workers are given the callback, a submitted row whose override still
\* reads 'pending' is one a worker is about to report, unless a loop ended between
\* the two updates; retries, stolen leases and late confirmations leave no gap.
MirrorGapNeedsCrash ==
  OnSubmitted =>
    \A o \in Overrides :
      row[o].status = "submitted" /\ ~mirror[o] /\ crashes = 0
      => \E w \in Workers : claim[w] = o /\ pc[w] = "marked"

\* As long as no worker outlives its lease, a row that was closed stays closed,
\* whatever other workers, crashes and late transactions do.
ClosedStaysClosed ==
  [][\A o \in Overrides :
       steals = 0 /\ row[o].status \in Terminal => row'[o].status = row[o].status]_queueVars

\* Every obligation is settled in the end, and for good, unless from some moment on
\* no worker loop is running and none is started again: no sequence of finitely
\* many crashes, stolen leases and lost outcomes leaves a row unclaimed or retried
\* for ever.
ObligationsSettle ==
  \A o \in Overrides :
    row[o].status # "none"
    ~> ([](row[o].status \in Terminal) \/ [](\A w \in Workers : pc[w] = "down"))
=============================================================================
