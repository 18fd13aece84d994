--------------------- MODULE ChainSubmissionQueue_proof ---------------------
(***************************************************************************)
(* What the queue of owed chain writes guarantees for any number of rows,  *)
(* workers, attempts, crashes and lost leases.                             *)
(***************************************************************************)
EXTENDS ChainSubmissionQueue, FiniteSetTheorems, TLAPS

-----------------------------------------------------------------------------
(* The parts of the inductive invariant                                      *)

\* A worker holds a claim exactly while it is busy.
ClaimsHeld ==
  \A w \in Workers :
    IF pc[w] \in {"down", "idle"} THEN claim[w] = NULL ELSE claim[w] \in Overrides

\* A row that may be claimed has an attempt left; only the confirmation of a late
\* worker counts beyond the last one.
AttemptsLeft ==
  \A o \in Overrides :
    /\ row[o].status \in {"pending", "in_flight"} => row[o].attempts < MaxAttempts
    /\ row[o].status # "submitted" => row[o].attempts <= MaxAttempts

\* A worker that saw SUCCESS has a write on the chain.
LandedIsOnChain ==
  \A w \in Workers : pc[w] \in {"landed", "marked"} => chain[claim[w]] >= 1

\* Nothing happens for a row before it is enqueued.
NothingBeforeRow ==
  \A o \in Overrides :
    row[o].status = "none" => /\ chain[o] = 0 /\ orphans[o] = 0
                              /\ \A w \in Workers : claim[w] # o

\* Writes made, writes that may still land and writes somebody may still send are
\* paid for: one by the row, the others by its slips.
WritesPaid ==
  \A o \in Overrides :
    chain[o] + orphans[o] + Cardinality(Senders(o)) + Owed(o) <= 1 + slips[o]

\* Until a lease runs out under a live worker, a worker that works on a row is
\* the only one and holds its lease.
LeasesHold ==
  steals = 0 =>
    \A o \in Overrides : \A w \in Workers :
      Working(w, o) => /\ row[o].status = "in_flight" /\ row[o].lease = "held"
                       /\ \A v \in Workers : Working(v, o) => v = w

QueueInv ==
  /\ QueueTypeOK /\ ClaimsHeld /\ AttemptsLeft
  /\ LandedIsOnChain /\ SubmittedIsOnChain
  /\ NothingBeforeRow /\ WritesPaid
  /\ LeasesHold /\ MirrorGapNeedsCrash

-----------------------------------------------------------------------------
(* The steps that matter to the proofs, by what they do                      *)

\* An action of a busy worker is about one row.
LEMMA ClaimOf ==
  ASSUME ClaimsHeld, NEW w \in Workers, pc[w] \notin {"down", "idle"}
  PROVE  claim[w] \in Overrides
  BY DEF ClaimsHeld

\* The row of a retry is pending again with an attempt left, or given up.
RetryRow(w) ==
  \E r \in Rows : /\ row' = [row EXCEPT ![claim[w]] = r]
                  /\ r.status \in {"abandoned", "pending"}
                  /\ r.attempts <= MaxAttempts
                  /\ r.status = "pending" => r.attempts < MaxAttempts

\* What a retry does.
LEMMA RetryFacts ==
  ASSUME QueueTypeOK, ClaimsHeld, NEW w \in Workers, MarkRetry(w)
  PROVE  /\ pc[w] = "failed" /\ claim[w] \in Overrides
         /\ pc' = [pc EXCEPT ![w] = "idle"] /\ Done(w)
         /\ UNCHANGED <<mirror, chain, orphans, crashes, steals, slips>>
         /\ RetryRow(w)
  <1> DEFINE abandoned == Row("abandoned", seen[w] + 1, row[claim[w]].due, "none")
             pending == Row("pending", seen[w] + 1, FALSE, "none")
  <1>1. /\ pc[w] = "failed" /\ pc' = [pc EXCEPT ![w] = "idle"] /\ Done(w)
        /\ UNCHANGED <<mirror, chain, orphans, crashes, steals, slips>>
    BY Zenon DEF MarkRetry, At
  <1>2. claim[w] \in Overrides
    BY <1>1, ClaimOf
  <1>3. IF seen[w] + 1 >= MaxAttempts THEN row' = [row EXCEPT ![claim[w]] = abandoned]
                                     ELSE row' = [row EXCEPT ![claim[w]] = pending]
    BY Zenon DEF MarkRetry
  <1>4. seen[w] \in 0 .. MaxAttempts - 1 /\ MaxAttempts \in Nat
    BY QueueAssumption DEF QueueTypeOK
  <1>5. /\ abandoned \in Rows /\ abandoned.status = "abandoned"
        /\ abandoned.attempts <= MaxAttempts
    BY <1>2, <1>4 DEF QueueTypeOK, Row, Rows, Statuses
  <1>6. /\ pending \in Rows /\ pending.status = "pending"
        /\ pending.attempts = seen[w] + 1
    BY <1>4 DEF Row, Rows, Statuses
  <1> HIDE DEF abandoned, pending
  <1>7. RetryRow(w)
    <2>1. CASE seen[w] + 1 >= MaxAttempts
      BY <2>1, <1>3, <1>5 DEF RetryRow
    <2>2. CASE ~(seen[w] + 1 >= MaxAttempts)
      BY <2>2, <1>3, <1>4, <1>6 DEF RetryRow
    <2> QED  BY <2>1, <2>2
  <1> QED
    BY <1>1, <1>2, <1>7

\* The type invariant is inductive together with the claims, and with the bound
\* of the attempts a worker may have read.
LEMMA TypeStep ==
  ASSUME QueueInv, [QueueNext]_queueVars
  PROVE  QueueTypeOK'
  <1> USE QueueAssumption DEF QueueInv, QueueTypeOK
  <1>1. ASSUME NEW o \in Overrides, Enqueue(o)  PROVE QueueTypeOK'
    BY <1>1 DEF Enqueue, Row, Rows, Statuses
  <1>2. ASSUME NEW o \in Overrides, BackoffElapses(o)  PROVE QueueTypeOK'
    BY <1>2 DEF BackoffElapses, Row, Rows, Statuses
  <1>3. ASSUME NEW o \in Overrides, LeaseExpires(o)  PROVE QueueTypeOK'
    BY <1>3 DEF LeaseExpires, ExpireLease, Row, Rows, Statuses
  <1>4. ASSUME NEW o \in Overrides, LeaseStolen(o)  PROVE QueueTypeOK'
    BY <1>4 DEF LeaseStolen, ExpireLease, Row, Rows, Statuses
  <1>5. ASSUME NEW o \in Overrides, OrphanLands(o) \/ OrphanDropped(o)
        PROVE  QueueTypeOK'
    BY <1>5 DEF OrphanLands, OrphanDropped
  <1>6. ASSUME NEW w \in Workers, NEW o \in Overrides, Claim(w, o)  PROVE QueueTypeOK'
    <2>1. row[o].attempts \in 0 .. MaxAttempts - 1
      BY <1>6 DEF Claim, Claimable, AttemptsLeft, Rows
    <2>2. row' \in [Overrides -> Rows]
      BY <1>6 DEF Claim, Row, Rows, Statuses
    <2> QED
      BY <1>6, <2>1, <2>2 DEF Claim
  <1>7. ASSUME NEW w \in Workers, Refused(w) \/ Send(w) \/ Land(w) \/ Rejected(w)
        PROVE  QueueTypeOK'
    BY <1>7, ClaimOf DEF Refused, Send, Land, Rejected, At, AfterError
  <1>8. ASSUME NEW w \in Workers, OutcomeLost(w)  PROVE QueueTypeOK'
    BY <1>8, ClaimOf DEF OutcomeLost, At, AfterError
  <1>9. ASSUME NEW w \in Workers, MarkSubmitted(w)  PROVE QueueTypeOK'
    <2>1. claim[w] \in Overrides
      BY <1>9, ClaimOf DEF MarkSubmitted, At
    <2>2. row[claim[w]].status # "submitted"
          => row[claim[w]].attempts + 1 \in 0 .. MaxAttempts + 1
      BY <2>1 DEF AttemptsLeft, Rows
    <2>3. row' \in [Overrides -> Rows]
      BY <1>9, <2>1, <2>2 DEF MarkSubmitted, Row, Rows, Statuses
    <2> QED
      BY <1>9, <2>3 DEF MarkSubmitted, At, Done
  <1>10. ASSUME NEW w \in Workers, MirrorSubmitted(w)  PROVE QueueTypeOK'
    BY <1>10, ClaimOf DEF MirrorSubmitted, At, Done
  <1>11. ASSUME NEW w \in Workers, MarkRetry(w)  PROVE QueueTypeOK'
    BY <1>11, RetryFacts DEF RetryRow, Done
  <1>12. ASSUME NEW w \in Workers, Start(w) \/ Crash(w)  PROVE QueueTypeOK'
    BY <1>12, ClaimOf DEF Start, Crash, Done
  <1>13. CASE UNCHANGED queueVars
    BY <1>13 DEF queueVars
  <1> QED
    BY <1>1, <1>2, <1>3, <1>4, <1>5, <1>6, <1>7, <1>8, <1>9, <1>10, <1>11, <1>12, <1>13
    DEF QueueNext, QueueStep, WorkerStep

\* Claims, attempts and the evidence of a write, one step further.
LEMMA RowStep ==
  ASSUME QueueInv, QueueTypeOK', [QueueNext]_queueVars
  PROVE  /\ ClaimsHeld' /\ AttemptsLeft' /\ LandedIsOnChain'
         /\ SubmittedIsOnChain' /\ NothingBeforeRow'
  <1> DEFINE Goal == /\ ClaimsHeld /\ AttemptsLeft /\ LandedIsOnChain
                     /\ SubmittedIsOnChain /\ NothingBeforeRow
  <1> USE QueueAssumption DEF QueueInv, QueueTypeOK
  <1> USE DEF ClaimsHeld, AttemptsLeft, LandedIsOnChain, SubmittedIsOnChain, NothingBeforeRow
  <1>1. ASSUME NEW o \in Overrides, Enqueue(o)  PROVE Goal'
    BY <1>1 DEF Enqueue, Row, Rows
  <1>2. ASSUME NEW o \in Overrides, BackoffElapses(o)  PROVE Goal'
    BY <1>2 DEF BackoffElapses, Row, Rows
  <1>3. ASSUME NEW o \in Overrides, LeaseExpires(o)  PROVE Goal'
    BY <1>3 DEF LeaseExpires, ExpireLease, Row, Rows
  <1>4. ASSUME NEW o \in Overrides, LeaseStolen(o)  PROVE Goal'
    BY <1>4 DEF LeaseStolen, ExpireLease, Row, Rows
  <1>5. ASSUME NEW o \in Overrides, OrphanLands(o) \/ OrphanDropped(o)
        PROVE  Goal'
    BY <1>5 DEF OrphanLands, OrphanDropped
  <1>6. ASSUME NEW w \in Workers, NEW o \in Overrides, Claim(w, o)  PROVE Goal'
    BY <1>6 DEF Claim, Claimable, Row, Rows
  <1>7. ASSUME NEW w \in Workers, Refused(w) \/ Send(w) \/ Land(w) \/ Rejected(w)
        PROVE  Goal'
    BY <1>7 DEF Refused, Send, Land, Rejected, At, AfterError
  <1>8. ASSUME NEW w \in Workers, OutcomeLost(w)  PROVE Goal'
    BY <1>8 DEF OutcomeLost, At, AfterError
  <1>9. ASSUME NEW w \in Workers, MarkSubmitted(w)  PROVE Goal'
    <2>1. /\ pc[w] = "landed" /\ claim[w] \in Overrides
          /\ UNCHANGED <<mirror, chain, orphans>>
          /\ \/ pc' = [pc EXCEPT ![w] = "marked"] /\ claim' = claim
             \/ pc' = [pc EXCEPT ![w] = "idle"] /\ claim' = [claim EXCEPT ![w] = NULL]
      BY <1>9 DEF MarkSubmitted, At, Done
    <2>2. \A o \in Overrides : IF o = claim[w] THEN row'[o].status = "submitted"
                              ELSE row'[o] = row[o]
      BY <1>9, <2>1 DEF MarkSubmitted, Row, Rows
    <2> QED
      BY <2>1, <2>2
  <1>10. ASSUME NEW w \in Workers, MirrorSubmitted(w)  PROVE Goal'
    BY <1>10 DEF MirrorSubmitted, At, Done
  <1>11. ASSUME NEW w \in Workers, MarkRetry(w)  PROVE Goal'
    BY <1>11, RetryFacts DEF RetryRow, Done
  <1>12. ASSUME NEW w \in Workers, Start(w) \/ Crash(w)  PROVE Goal'
    BY <1>12 DEF Start, Crash, Done
  <1>13. CASE UNCHANGED queueVars
    BY <1>13 DEF queueVars
  <1> QED
    BY <1>1, <1>2, <1>3, <1>4, <1>5, <1>6, <1>7, <1>8, <1>9, <1>10, <1>11, <1>12, <1>13
    DEF QueueNext, QueueStep, WorkerStep

\* Until a lease runs out under its worker no two workers work on a row, and a
\* submitted row is mirrored or about to be.
LEMMA LeaseStep ==
  ASSUME QueueInv, QueueTypeOK', [QueueNext]_queueVars
  PROVE  LeasesHold' /\ MirrorGapNeedsCrash'
  <1> DEFINE Goal == LeasesHold /\ MirrorGapNeedsCrash
  <1> USE QueueAssumption DEF QueueInv, QueueTypeOK
  <1> USE DEF ClaimsHeld, LeasesHold, MirrorGapNeedsCrash, Working
  <1>1. ASSUME NEW o \in Overrides, Enqueue(o)  PROVE Goal'
    BY <1>1 DEF Enqueue, Row, Rows, NothingBeforeRow
  <1>2. ASSUME NEW o \in Overrides, BackoffElapses(o)  PROVE Goal'
    BY <1>2 DEF BackoffElapses, Row, Rows
  <1>3. ASSUME NEW o \in Overrides, LeaseExpires(o)  PROVE Goal'
    BY <1>3 DEF LeaseExpires, ExpireLease, Row, Rows
  <1>4. ASSUME NEW o \in Overrides, LeaseStolen(o)  PROVE Goal'
    BY <1>4 DEF LeaseStolen, ExpireLease, Row, Rows
  <1>5. ASSUME NEW o \in Overrides, OrphanLands(o) \/ OrphanDropped(o)
        PROVE  Goal'
    BY <1>5 DEF OrphanLands, OrphanDropped
  <1>6. ASSUME NEW w \in Workers, NEW o \in Overrides, Claim(w, o)  PROVE Goal'
    BY <1>6 DEF Claim, Claimable, Row, Rows
  <1>7. ASSUME NEW w \in Workers, Refused(w) \/ Send(w) \/ Land(w) \/ Rejected(w)
        PROVE  Goal'
    BY <1>7 DEF Refused, Send, Land, Rejected, At, AfterError
  <1>8. ASSUME NEW w \in Workers, OutcomeLost(w)  PROVE Goal'
    BY <1>8 DEF OutcomeLost, At, AfterError
  <1>9. ASSUME NEW w \in Workers, MarkSubmitted(w)  PROVE Goal'
    BY <1>9 DEF MarkSubmitted, At, Done, Row, Rows
  <1>10. ASSUME NEW w \in Workers, MirrorSubmitted(w)  PROVE Goal'
    BY <1>10 DEF MirrorSubmitted, At, Done
  <1>11. ASSUME NEW w \in Workers, MarkRetry(w)  PROVE Goal'
    <2>1. /\ pc[w] = "failed" /\ claim[w] \in Overrides
          /\ pc' = [pc EXCEPT ![w] = "idle"] /\ claim' = [claim EXCEPT ![w] = NULL]
          /\ UNCHANGED <<mirror, crashes, steals>>
      BY <1>11, RetryFacts DEF Done
    <2>2. PICK r \in Rows : /\ row' = [row EXCEPT ![claim[w]] = r]
                            /\ r.status \in {"abandoned", "pending"}
      BY <1>11, RetryFacts DEF RetryRow
    <2>3. \A v \in Workers : IF v = w THEN pc'[v] = "idle"
                            ELSE pc'[v] = pc[v] /\ claim'[v] = claim[v]
      BY <2>1
    <2>4. \A o \in Overrides : row'[o] = IF o = claim[w] THEN r ELSE row[o]
      BY <2>1, <2>2
    <2>5. LeasesHold'
      <3> SUFFICES ASSUME steals = 0, NEW o \in Overrides, NEW v \in Workers, Working(v, o)'
                   PROVE  /\ row'[o].status = "in_flight" /\ row'[o].lease = "held"
                          /\ \A u \in Workers : Working(u, o)' => u = v
        BY <2>1
      <3>1. v # w /\ Working(v, o)
        BY <2>3
      <3>2. Working(w, claim[w])
        BY <2>1
      <3>3. o # claim[w]
        BY <3>1, <3>2, <2>1
      <3> QED
        BY <2>3, <2>4, <3>1, <3>3
    <2>6. MirrorGapNeedsCrash'
      <3> SUFFICES ASSUME OnSubmitted, NEW o \in Overrides, row'[o].status = "submitted",
                          ~mirror'[o], crashes' = 0
                   PROVE  \E v \in Workers : claim'[v] = o /\ pc'[v] = "marked"
        OBVIOUS
      <3>1. row[o].status = "submitted" /\ ~mirror[o] /\ crashes = 0
        BY <2>1, <2>2, <2>4
      <3>2. PICK v \in Workers : claim[v] = o /\ pc[v] = "marked"
        BY <3>1
      <3> QED
        BY <2>1, <2>3, <3>2
    <2> QED
      BY <2>5, <2>6
  <1>12. ASSUME NEW w \in Workers, Start(w) \/ Crash(w)  PROVE Goal'
    BY <1>12 DEF Start, Crash, Done
  <1>13. CASE UNCHANGED queueVars
    BY <1>13 DEF queueVars
  <1> QED
    BY <1>1, <1>2, <1>3, <1>4, <1>5, <1>6, <1>7, <1>8, <1>9, <1>10, <1>11, <1>12, <1>13
    DEF QueueNext, QueueStep, WorkerStep

\* 1 for a worker that may still send for the row.
Sends(w, o) == IF w \in Senders(o) THEN 1 ELSE 0

\* A step of one worker, or of none.
OnlyMoves(w) ==
  \A v \in Workers : v # w => pc'[v] = pc[v] /\ claim'[v] = claim[v]

\* The number of senders changes by what the moving worker becomes.
LEMMA SendersCount ==
  ASSUME NEW o \in Overrides, NEW w \in Workers, OnlyMoves(w)
  PROVE  /\ Cardinality(Senders(o)) \in Nat /\ Cardinality(Senders(o)') \in Nat
         /\ Cardinality(Senders(o)') + Sends(w, o)
            = Cardinality(Senders(o)) + Sends(w, o)'
  <1>1. IsFiniteSet(Senders(o)) /\ IsFiniteSet(Senders(o)')
    <2>1. Senders(o) \subseteq Workers /\ Senders(o)' \subseteq Workers
      BY DEF Senders
    <2> QED
      BY <2>1, FS_Subset, QueueAssumption
  <1>2. Cardinality(Senders(o)) \in Nat /\ Cardinality(Senders(o)') \in Nat
    BY <1>1, FS_CardinalityType
  <1>3. CASE w \in Senders(o) <=> w \in Senders(o)'
    <2>1. Senders(o)' = Senders(o)
      BY <1>3 DEF Senders, OnlyMoves
    <2> QED
      BY <1>2, <1>3, <2>1 DEF Sends
  <1>4. CASE w \notin Senders(o) /\ w \in Senders(o)'
    <2>1. Senders(o)' = Senders(o) \cup {w}
      BY <1>4 DEF Senders, OnlyMoves
    <2>2. Cardinality(Senders(o)') = Cardinality(Senders(o)) + 1
      BY <1>1, <1>4, <2>1, FS_AddElement
    <2> QED
      BY <1>2, <1>4, <2>2 DEF Sends
  <1>5. CASE w \in Senders(o) /\ w \notin Senders(o)'
    <2>1. Senders(o)' = Senders(o) \ {w}
      BY <1>5 DEF Senders, OnlyMoves
    <2>2. Cardinality(Senders(o)') = Cardinality(Senders(o)) - 1
      BY <1>1, <1>5, <2>1, FS_RemoveElement
    <2> QED
      BY <1>2, <1>5, <2>2 DEF Sends
  <1> QED
    BY <1>3, <1>4, <1>5

Paid(o) == chain[o] + orphans[o] + Cardinality(Senders(o)) + Owed(o) <= 1 + slips[o]

\* A step that keeps a row and who works on it keeps what is owed.
LEMMA OwedKept ==
  ASSUME NEW o \in Overrides, row'[o].status = row[o].status,
         row'[o].lease = row[o].lease,
         \A v \in Workers : Working(v, o)' <=> Working(v, o)
  PROVE  Owed(o)' = Owed(o)
  BY DEF Owed

\* Every transaction somebody sends, or may send, stays paid for.
LEMMA PaidStep ==
  ASSUME QueueInv, QueueTypeOK', [QueueNext]_queueVars, NEW p \in Overrides
  PROVE  Paid(p)'
  <1>0. /\ Paid(p) /\ Owed(p) \in {0, 1} /\ Owed(p)' \in {0, 1}
        /\ chain[p] \in Nat /\ orphans[p] \in Nat /\ slips[p] \in Nat
    BY DEF QueueInv, QueueTypeOK, WritesPaid, Paid, Owed
  <1>c. Cardinality(Senders(p)) \in Nat
    <2>1. Senders(p) \subseteq Workers
      BY DEF Senders
    <2> QED
      BY <2>1, FS_Subset, FS_CardinalityType, QueueAssumption
  <1> USE <1>0, <1>c
  <1>a. ASSUME UNCHANGED <<pc, claim>>
        PROVE  /\ Senders(p)' = Senders(p)
               /\ \A v \in Workers : Working(v, p)' <=> Working(v, p)
    BY <1>a DEF Senders, Working
  <1>1. ASSUME NEW o \in Overrides, Enqueue(o)  PROVE Paid(p)'
    <2>1. CASE p = o
      <3>1. Senders(p) = {} /\ chain[p] = 0 /\ orphans[p] = 0
        BY <1>1, <2>1 DEF Enqueue, QueueInv, NothingBeforeRow, Senders
      <3>2. Cardinality(Senders(p)) = 0
        BY <3>1, FS_EmptySet
      <3>3. UNCHANGED <<chain, orphans, slips>> /\ Senders(p)' = Senders(p)
        BY <1>1, <1>a DEF Enqueue
      <3> QED
        BY <3>1, <3>2, <3>3 DEF Paid
    <2>2. CASE p # o
      BY <1>1, <1>a, <2>2, OwedKept DEF Enqueue, Paid, QueueInv, QueueTypeOK
    <2> QED  BY <2>1, <2>2
  <1>2. ASSUME NEW o \in Overrides, BackoffElapses(o)  PROVE Paid(p)'
    <2>1. row'[p].status = row[p].status /\ row'[p].lease = row[p].lease
      BY <1>2 DEF BackoffElapses, Row, Rows, QueueInv, QueueTypeOK
    <2> QED
      BY <1>2, <1>a, <2>1, OwedKept DEF BackoffElapses, Paid
  <1>3. ASSUME NEW o \in Overrides, LeaseExpires(o)  PROVE Paid(p)'
    <2>1. Owed(p)' = Owed(p)
      BY <1>3, <1>a DEF LeaseExpires, ExpireLease, Row, Rows, Owed, QueueInv, QueueTypeOK
    <2> QED
      BY <1>3, <1>a, <2>1 DEF LeaseExpires, ExpireLease, Paid
  <1>4. ASSUME NEW o \in Overrides, LeaseStolen(o)  PROVE Paid(p)'
    <2>1. p # o => Owed(p)' = Owed(p)
      BY <1>4, <1>a, OwedKept DEF LeaseStolen, ExpireLease, QueueInv, QueueTypeOK
    <2>2. p = o => Owed(p) = 0
      BY <1>4 DEF LeaseStolen, ExpireLease, Owed
    <2>3. slips'[p] = IF p = o THEN slips[p] + 1 ELSE slips[p]
      BY <1>4 DEF LeaseStolen, QueueInv, QueueTypeOK
    <2> QED
      BY <1>4, <1>a, <2>1, <2>2, <2>3 DEF LeaseStolen, ExpireLease, Paid
  <1>5. ASSUME NEW o \in Overrides, OrphanLands(o) \/ OrphanDropped(o)  PROVE Paid(p)'
    <2>1. Owed(p)' = Owed(p)
      BY <1>5, <1>a, OwedKept DEF OrphanLands, OrphanDropped
    <2>2. chain'[p] + orphans'[p] <= chain[p] + orphans[p]
      BY <1>5 DEF OrphanLands, OrphanDropped, QueueInv, QueueTypeOK
    <2>3. chain'[p] \in Nat /\ orphans'[p] \in Nat
      BY DEF QueueTypeOK
    <2> QED
      BY <1>5, <1>a, <2>1, <2>2, <2>3 DEF OrphanLands, OrphanDropped, Paid
  <1>6. ASSUME NEW w \in Workers, NEW o \in Overrides, Claim(w, o)  PROVE Paid(p)'
    <2>1. OnlyMoves(w)
      BY <1>6 DEF Claim, OnlyMoves, QueueInv, QueueTypeOK
    <2>2. Sends(w, p) = 0 /\ Sends(w, p)' = IF p = o THEN 1 ELSE 0
      BY <1>6 DEF Claim, Sends, Senders, QueueInv, QueueTypeOK
    <2>3. CASE p = o
      <3>1. Owed(p) = 1
        BY <1>6, <2>3 DEF Claim, Claimable, Owed
      <3>2. Working(w, p)' /\ row'[p].status = "in_flight" /\ row'[p].lease = "held"
        BY <1>6, <2>3 DEF Claim, Working, Row, QueueInv, QueueTypeOK
      <3>3. Owed(p)' = 0
        BY <3>2 DEF Owed
      <3> QED
        BY <1>6, <2>1, <2>2, <2>3, <3>1, <3>3, SendersCount DEF Claim, Paid
    <2>4. CASE p # o
      <3>1. Owed(p)' = Owed(p)
        BY <1>6, <2>4, OwedKept DEF Claim, Working, QueueInv, QueueTypeOK
      <3> QED
        BY <1>6, <2>1, <2>2, <2>4, <3>1, SendersCount DEF Claim, Paid
    <2> QED  BY <2>3, <2>4
  <1>7. ASSUME NEW w \in Workers, Refused(w) \/ Send(w) \/ Land(w) \/ Rejected(w) \/ OutcomeLost(w)
        PROVE  Paid(p)'
    <2>1. OnlyMoves(w) /\ UNCHANGED <<row, claim>>
      BY <1>7 DEF Refused, Send, Land, Rejected, OutcomeLost, At, OnlyMoves, QueueInv, QueueTypeOK
    <2>2. \A v \in Workers : Working(v, p)' <=> Working(v, p)
      BY <1>7, <2>1 DEF Refused, Send, Land, Rejected, OutcomeLost, At, AfterError,
                        Working, QueueInv, QueueTypeOK
    <2>3. Owed(p)' = Owed(p)
      BY <2>1, <2>2, OwedKept
    <2>4. chain'[p] + orphans'[p] + Sends(w, p)' - slips'[p]
          <= chain[p] + orphans[p] + Sends(w, p) - slips[p]
      BY <1>7 DEF Refused, Send, Land, Rejected, OutcomeLost, At, AfterError,
                  Sends, Senders, QueueInv, QueueTypeOK
    <2>5. chain'[p] \in Nat /\ orphans'[p] \in Nat /\ slips'[p] \in Nat
      BY DEF QueueTypeOK
    <2>6. Sends(w, p) \in {0, 1} /\ Sends(w, p)' \in {0, 1}
      BY DEF Sends
    <2> QED
      BY <2>1, <2>3, <2>4, <2>5, <2>6, SendersCount DEF Paid
  <1>8. ASSUME NEW w \in Workers, MarkSubmitted(w) \/ MirrorSubmitted(w)  PROVE Paid(p)'
    <2>1. OnlyMoves(w) /\ UNCHANGED <<chain, orphans, slips>>
      BY <1>8 DEF MarkSubmitted, MirrorSubmitted, At, Done, OnlyMoves, QueueInv, QueueTypeOK
    <2>2. Sends(w, p) = 0 /\ Sends(w, p)' = 0
      BY <1>8 DEF MarkSubmitted, MirrorSubmitted, At, Done, Sends, Senders, QueueInv, QueueTypeOK
    <2>3. Owed(p)' <= Owed(p)
      BY <1>8 DEF MarkSubmitted, MirrorSubmitted, At, Done, Owed, Working, Row,
                  QueueInv, QueueTypeOK, ClaimsHeld
    <2> QED
      BY <2>1, <2>2, <2>3, SendersCount DEF Paid
  <1>9. ASSUME NEW w \in Workers, MarkRetry(w)  PROVE Paid(p)'
    <2>0. /\ pc[w] = "failed" /\ claim[w] \in Overrides /\ RetryRow(w) /\ Done(w)
          /\ pc' = [pc EXCEPT ![w] = "idle"] /\ UNCHANGED <<chain, orphans, slips>>
      BY <1>9, RetryFacts DEF QueueInv
    <2>1. OnlyMoves(w)
      BY <2>0 DEF Done, OnlyMoves, QueueInv, QueueTypeOK
    <2>2. Sends(w, p)' = 0 /\ Sends(w, p) = IF p = claim[w] THEN 1 ELSE 0
      BY <2>0 DEF Done, Sends, Senders, QueueInv, QueueTypeOK
    <2>3. p # claim[w] => Owed(p)' = Owed(p)
      BY <2>0, OwedKept DEF RetryRow, Done, Working, QueueInv, QueueTypeOK
    <2> QED
      BY <2>0, <2>1, <2>2, <2>3, SendersCount DEF Paid
  <1>10. ASSUME NEW w \in Workers, Crash(w)  PROVE Paid(p)'
    <2>1. /\ OnlyMoves(w) /\ UNCHANGED <<row, chain>>
          /\ IF pc[w] = "idle" THEN claim[w] = NULL ELSE claim[w] \in Overrides
      BY <1>10 DEF Crash, Done, OnlyMoves, QueueInv, QueueTypeOK, ClaimsHeld
    <2>6. p # NULL
      BY QueueAssumption
    <2>2. Sends(w, p)' = 0 /\ Sends(w, p) = IF p = claim[w] /\ pc[w] \in {"ready", "sent", "failed"} THEN 1 ELSE 0
      BY <1>10 DEF Crash, Done, Sends, Senders, QueueInv, QueueTypeOK
    <2>3. p # claim[w] \/ pc[w] = "marked" => Owed(p)' = Owed(p)
      BY <1>10, <2>1, OwedKept DEF Crash, Done, Working, QueueInv, QueueTypeOK
    <2>4. /\ orphans'[p] = IF p = claim[w] /\ pc[w] = "sent" THEN orphans[p] + 1 ELSE orphans[p]
          /\ slips'[p] = IF p = claim[w] /\ pc[w] \in {"sent", "landed"} THEN slips[p] + 1 ELSE slips[p]
      BY <1>10, <2>1 DEF Crash, QueueInv, QueueTypeOK
    <2>5. pc[w] \in {"idle", "ready", "sent", "landed", "failed", "marked"}
      BY <1>10 DEF Crash, QueueInv, QueueTypeOK
    <2> QED
      BY <2>1, <2>2, <2>3, <2>4, <2>5, <2>6, SendersCount DEF Paid
  <1>12. ASSUME NEW w \in Workers, Start(w)  PROVE Paid(p)'
    <2>1. Senders(p)' = Senders(p) /\ \A v \in Workers : Working(v, p)' <=> Working(v, p)
      BY <1>12 DEF Start, Senders, Working, QueueInv, QueueTypeOK
    <2>2. Owed(p)' = Owed(p)
      BY <1>12, <2>1, OwedKept DEF Start
    <2> QED
      BY <1>12, <2>1, <2>2 DEF Start, Paid
  <1>11. CASE UNCHANGED queueVars
    <2>1. Owed(p)' = Owed(p)
      BY <1>11, <1>a, OwedKept DEF queueVars
    <2> QED
      BY <1>11, <1>a, <2>1 DEF queueVars, Paid
  <1> QED
    BY <1>1, <1>2, <1>3, <1>4, <1>5, <1>6, <1>7, <1>8, <1>9, <1>10, <1>11, <1>12
    DEF QueueNext, QueueStep, WorkerStep

-----------------------------------------------------------------------------
(* The theorems                                                              *)

LEMMA QueueInvInit ==
  ASSUME QueueInit
  PROVE  QueueInv
  <1> USE QueueAssumption DEF QueueInit, NoRow, Row
  <1>1. QueueTypeOK
    BY DEF QueueTypeOK, Rows, Statuses
  <1>2. \A o \in Overrides : row[o].status = "none"
    OBVIOUS
  <1>3. ClaimsHeld /\ AttemptsLeft /\ LandedIsOnChain /\ SubmittedIsOnChain
        /\ NothingBeforeRow /\ LeasesHold /\ MirrorGapNeedsCrash
    BY DEF ClaimsHeld, AttemptsLeft, LandedIsOnChain, SubmittedIsOnChain,
           NothingBeforeRow, LeasesHold, MirrorGapNeedsCrash, Working
  <1>4. WritesPaid
    <2> SUFFICES ASSUME NEW o \in Overrides
                 PROVE  chain[o] + orphans[o] + Cardinality(Senders(o)) + Owed(o)
                        <= 1 + slips[o]
      BY DEF WritesPaid
    <2>1. Senders(o) = {}
      BY DEF Senders
    <2>2. Cardinality(Senders(o)) = 0
      BY <2>1, FS_EmptySet
    <2>3. Owed(o) = 0 /\ chain[o] = 0 /\ orphans[o] = 0 /\ slips[o] = 0
      BY <1>2 DEF Owed
    <2> QED
      BY <2>2, <2>3
  <1> QED
    BY <1>1, <1>3, <1>4 DEF QueueInv

LEMMA QueueInvStep ==
  ASSUME QueueInv, [QueueNext]_queueVars
  PROVE  QueueInv'
  <1>1. QueueTypeOK'
    BY TypeStep
  <1>2. WritesPaid'
    BY <1>1, PaidStep DEF WritesPaid, Paid
  <1> QED
    BY <1>1, <1>2, RowStep, LeaseStep DEF QueueInv

\* The inductive invariant of the queue.
THEOREM QueueInvariant == QueueSpec => []QueueInv
  BY QueueInvInit, QueueInvStep, PTL DEF QueueSpec

\* Rows, workers and counters stay in their types; in particular no attempt is
\* counted past the one a late confirmation adds to max_attempts.
THEOREM QueueTypeCorrect == QueueSpec => []QueueTypeOK
  <1>1. QueueInv => QueueTypeOK
    BY DEF QueueInv
  <1> QED
    BY <1>1, QueueInvariant, PTL

\* claim_next_due, run_worker and the publisher: a row never costs more writes
\* than one and one for each lease or outcome that was lost.
THEOREM WritesBounded == QueueSpec => []WritesWithinSlips
  <1>1. ASSUME QueueInv  PROVE WritesWithinSlips
    <2> SUFFICES ASSUME NEW o \in Overrides  PROVE chain[o] <= 1 + slips[o]
      BY DEF WritesWithinSlips
    <2>1. Senders(o) \subseteq Workers
      BY DEF Senders
    <2>2. Cardinality(Senders(o)) \in Nat
      BY <2>1, FS_Subset, FS_CardinalityType, QueueAssumption
    <2> QED
      BY <1>1, <2>2 DEF QueueInv, WritesPaid, QueueTypeOK, Owed
  <1> QED
    BY <1>1, QueueInvariant, PTL

\* _mark_submitted and apply_submission_result report only writes that exist.
THEOREM ReportsTrue == QueueSpec => []SubmittedIsOnChain
  <1>1. QueueInv => SubmittedIsOnChain
    BY DEF QueueInv
  <1> QED
    BY <1>1, QueueInvariant, PTL

\* Where workers are given the callback, only a loop that ends between
\* _mark_submitted and on_submitted leaves the override's status behind.
THEOREM MirrorFollows == QueueSpec => []MirrorGapNeedsCrash
  <1>1. QueueInv => MirrorGapNeedsCrash
    BY DEF QueueInv
  <1> QED
    BY <1>1, QueueInvariant, PTL

\* The unconditional updates of _mark_retry reopen no closed row as long as no
\* worker outlives its lease.
THEOREM ClosedForGood == QueueSpec => ClosedStaysClosed
  <1>1. ASSUME QueueInv, [QueueNext]_queueVars, NEW o \in Overrides,
               steals = 0, row[o].status \in Terminal
        PROVE  row'[o].status = row[o].status
    <2> USE QueueAssumption DEF QueueInv, QueueTypeOK, Terminal
    <2>1. ASSUME NEW p \in Overrides,
                 Enqueue(p) \/ BackoffElapses(p) \/ LeaseExpires(p) \/ LeaseStolen(p)
          PROVE  row'[o].status = row[o].status
      BY <1>1, <2>1 DEF Enqueue, BackoffElapses, LeaseExpires, LeaseStolen, ExpireLease
    <2>2. ASSUME NEW p \in Overrides, OrphanLands(p) \/ OrphanDropped(p)
          PROVE  row'[o].status = row[o].status
      BY <2>2 DEF OrphanLands, OrphanDropped
    <2>3. ASSUME NEW w \in Workers, NEW p \in Overrides, Claim(w, p)
          PROVE  row'[o].status = row[o].status
      BY <1>1, <2>3 DEF Claim, Claimable
    <2>4. ASSUME NEW w \in Workers,
                 Refused(w) \/ Send(w) \/ Land(w) \/ Rejected(w) \/ OutcomeLost(w)
                 \/ MirrorSubmitted(w) \/ Start(w) \/ Crash(w)
          PROVE  row'[o].status = row[o].status
      BY <2>4 DEF Refused, Send, Land, Rejected, OutcomeLost, MirrorSubmitted, Start, Crash
    <2>5. ASSUME NEW w \in Workers, MarkSubmitted(w)
          PROVE  row'[o].status = row[o].status
      BY <1>1, <2>5 DEF MarkSubmitted, At, LeasesHold, Working
    <2>6. ASSUME NEW w \in Workers, MarkRetry(w)
          PROVE  row'[o].status = row[o].status
      BY <1>1, <2>6, RetryFacts DEF RetryRow, LeasesHold, Working
    <2>7. CASE UNCHANGED queueVars
      BY <2>7 DEF queueVars
    <2> QED
      BY <1>1, <2>1, <2>2, <2>3, <2>4, <2>5, <2>6, <2>7 DEF QueueNext, QueueStep, WorkerStep
  <1>2. QueueInv /\ [QueueNext]_queueVars
        => [\A o \in Overrides :
              steals = 0 /\ row[o].status \in Terminal
              => row'[o].status = row[o].status]_queueVars
    BY <1>1
  <1> QED
    BY <1>2, QueueInvariant, PTL DEF QueueSpec, ClosedStaysClosed
=============================================================================
