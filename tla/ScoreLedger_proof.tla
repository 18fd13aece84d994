------------------------- MODULE ScoreLedger_proof -------------------------
(***************************************************************************)
(* Theorems about ScoreLedger for every choice of wallets, pairs, policies *)
(* and clock steps.                                                        *)
(***************************************************************************)
EXTENDS ScoreLedger, SequenceTheorems, FiniteSetTheorems, TLAPS

-----------------------------------------------------------------------------
(* Operators the write paths are built from *)

\* Evicting from a ring leaves a ring that ends in the same entry and respects
\* the depth.
LEMMA TrimProperties ==
  ASSUME NEW h \in Seq(Score), NEW s \in Score, NEW d \in Nat \ {0}
  PROVE  LET t == Trim(Append(h, s), d) IN
           /\ t \in Seq(Score)
           /\ t # <<>>
           /\ t[Len(t)] = s
           /\ Len(t) <= d
  <1> DEFINE a == Append(h, s)
             n == Len(a)
  <1>1. a \in Seq(Score) /\ n = Len(h) + 1 /\ a[n] = s /\ a # <<>> /\ n \in Nat
    BY AppendProperties
  <1>2. CASE n > d
    <2>1. \A i \in n - d + 1 .. n : a[i] \in Score
      BY <1>1, <1>2
    <2> DEFINE t == SubSeq(a, n - d + 1, n)
    <2>2. t \in Seq(Score) /\ Len(t) = d /\ \A i \in 1 .. d : t[i] = a[n - d + 1 + i - 1]
      BY <1>1, <1>2, <2>1, SubSeqProperties
    <2>3. t[d] = a[n]
      BY <1>1, <2>2
    <2>4. Trim(a, d) = t
      BY <1>2 DEF Trim
    <2>5. t # <<>>
      BY <2>2, d > 0
    <2> HIDE DEF t
    <2>6. t[Len(t)] = s /\ Len(t) <= d
      BY <1>1, <2>2, <2>3
    <2> QED
      BY <2>2, <2>4, <2>5, <2>6
  <1>3. CASE ~(n > d)
    BY <1>1, <1>3 DEF Trim
  <1> QED
    BY <1>2, <1>3

\* The refill count and the refilled level are naturals, and charging a bucket
\* that is not empty leaves a bucket.
LEMMA TakeTokenType ==
  ASSUME NEW b \in TokenBucket, NEW c \in Nat, NEW t \in Nat, NEW cd \in Nat,
         Refilled(b, c, t, cd) # 0
  PROVE  TakeToken(b, c, t, cd) \in TokenBucket
  <1>1. Refills(b, t, cd) \in Nat
    BY DEF Refills, Monus, TokenBucket
  <1>2. Refilled(b, c, t, cd) \in Nat
    BY <1>1 DEF Refilled, TokenBucket
  <1>3. Refills(b, t, cd) * cd \in Nat
    BY <1>1
  <1> QED
    BY <1>1, <1>2, <1>3 DEF TakeToken, TokenBucket

-----------------------------------------------------------------------------
(* Type correctness *)

\* The parts of a key.
LEMMA KeyParts ==
  ASSUME NEW k \in Keys
  PROVE  k[1] \in Wallets /\ k[2] \in Pairs
  BY DEF Keys

\* What the policy reads return.
LEMMA PolicyReads ==
  ASSUME PolicyTypeOK, StatTypeOK, NEW k \in Keys
  PROVE  /\ PairCooldown(k[2]) \in Nat
         /\ EffectiveThreshold \in Nat
         /\ cfg.threshold \in Nat /\ cfg.margin \in Nat /\ cfg.capacity \in Nat
         /\ cfg.depth \in Nat \ {0} /\ cfg.buffer \in Nat
         /\ Peak(k) \in Score
  <1>1. cfg.buffer \in Nat
    BY DEF PolicyTypeOK, Config
  <1>2. cfg.depth \in Nat \ {0}
    BY DEF PolicyTypeOK, Config, MAX_HISTORY_DEPTH
  <1>3. Peak(k) \in Score
    BY DEF StatTypeOK, Peak, Score, MAX_SCORE
  <1>4. PairCooldown(k[2]) \in Nat /\ EffectiveThreshold \in Nat
    BY KeyParts DEF PolicyTypeOK, Config, PairCooldown, EffectiveThreshold
  <1> QED
    BY <1>1, <1>2, <1>3, <1>4 DEF PolicyTypeOK, Config

\* Storing a score keeps the records well typed.
LEMMA StoreScoreType ==
  ASSUME PolicyTypeOK, StatTypeOK, RecordTypeOK, NEW k \in Keys, NEW s \in Score,
         NEW isNew \in BOOLEAN, StoreScore(k, s), CountIfNew(isNew)
  PROVE  RecordTypeOK'
  <1>1. history' \in [Keys -> Seq(Score)]
    BY TrimProperties, PolicyReads DEF StoreScore, RecordTypeOK
  <1> QED
    BY <1>1, KeyParts DEF StoreScore, CountIfNew, RecordTypeOK

\* Bucket indices stay within the histogram.
LEMMA BucketType ==
  ASSUME NEW s \in Score
  PROVE  Bucket(s) \in Buckets
  BY DEF Bucket, Buckets, Score, MAX_SCORE

\* The histogram stays a function into the naturals: erasure saturates at zero.
LEMMA HistogramClearType ==
  ASSUME NEW h \in [Buckets -> Nat], NEW p \in Score
  PROVE  HistogramOnClear(h, p) \in [Buckets -> Nat]
  BY BucketType DEF HistogramOnClear, Monus

LEMMA HistogramType ==
  ASSUME NEW h \in [Buckets -> Nat], NEW s \in Score, NEW p \in Score \cup {NULL}
  PROVE  HistogramOnWrite(h, p, s) \in [Buckets -> Nat]
  <1>1. \A g \in [Buckets -> Nat] : [g EXCEPT ![Bucket(s)] = g[Bucket(s)] + 1] \in [Buckets -> Nat]
    BY BucketType
  <1> QED
    BY <1>1, HistogramClearType DEF HistogramOnWrite

\* The policy bookkeeping keeps the statistics well typed.
LEMMA ScoreStatsType ==
  ASSUME PolicyTypeOK, RecordTypeOK, StatTypeOK, NEW k \in Keys, NEW s \in Score,
         NEW thr \in Nat, UpdateScoreStats(k, s, thr)
  PROVE  StatTypeOK'
  <1>1. histogram' \in [Buckets -> Nat]
    BY HistogramType DEF UpdateScoreStats, RecordTypeOK, StatTypeOK
  <1>2. peak' \in [Keys -> Score \cup {NULL}]
    BY DEF UpdateScoreStats, UpdateHistoricalMax, StatTypeOK
  <1>3. breach' \in [Keys -> Nat]
    BY DEF UpdateScoreStats, UpdateBreachCounter, StatTypeOK
  <1>4. band' \in [Keys -> BOOLEAN] /\ bandEntry' \in [Keys -> Nat \cup {NULL}]
    BY DEF UpdateScoreStats, EvaluateRiskBand, StatTypeOK, PolicyTypeOK
  <1> QED
    BY <1>1, <1>2, <1>3, <1>4 DEF StatTypeOK

\* Stamping a submission and spending a velocity pass.
LEMMA StampType ==
  ASSUME PolicyTypeOK, RateTypeOK, NEW k \in Keys, StampSubmission(k), SpendVelocityPass(k)
  PROVE  lastSubmit' \in [Keys -> Nat] /\ velocityPass' \in [Keys -> BOOLEAN]
  <1>1. lastSubmit' \in [Keys -> Nat]
    BY DEF PolicyTypeOK, RateTypeOK, StampSubmission
  <1>2. velocityPass' \in [Keys -> BOOLEAN]
    BY DEF RateTypeOK, SpendVelocityPass
  <1> QED
    BY <1>1, <1>2

\* A change of a live score concerns buckets of the histogram.
LEMMA DisturbedType ==
  ASSUME RecordTypeOK, NEW k \in Keys, NEW s \in Score \cup {NULL}
  PROVE  Disturbed(k, s) \subseteq Buckets
  <1>1. \A v \in {score[k], s} \ {NULL} : v \in Score
    BY DEF RecordTypeOK
  <1> QED
    BY <1>1, BucketType DEF Disturbed

\* What the run remembers of a write stays well typed.
LEMMA NoteType ==
  ASSUME RecordTypeOK, PastTypeOK, NEW k \in Keys, NEW s \in Score
  PROVE  /\ NoteSubmitted(k) => PastTypeOK'
         /\ NoteBypass(k, s) => /\ origin' \in [Keys -> Origins]
                                /\ bypassed' \subseteq Keys /\ skewed' \subseteq Buckets
  <1>1. NoteSubmitted(k) => PastTypeOK'
    BY DEF NoteSubmitted, PastTypeOK, Origins
  <1>2. ASSUME NoteBypass(k, s)
        PROVE  /\ origin' \in [Keys -> Origins]
               /\ bypassed' \subseteq Keys /\ skewed' \subseteq Buckets
    BY <1>2, DisturbedType DEF NoteBypass, PastTypeOK, Origins
  <1> QED
    BY <1>1, <1>2

\* The write shared by submit_score and the consensus paths.
LEMMA RateLimitedWriteType ==
  ASSUME TypeOK, NEW k \in Keys, NEW s \in ScoreInputs, WriteScoreWithRateLimit(k, s)
  PROVE  RecordTypeOK' /\ StatTypeOK' /\ RateTypeOK' /\ PastTypeOK' /\ s \in Score
  <1> USE DEF TypeOK
  <1>1. s \in Score
    BY ArgsAssumption DEF WriteScoreWithRateLimit, Score, MAX_SCORE
  <1>2. RecordTypeOK'
    BY <1>1, StoreScoreType DEF WriteScoreWithRateLimit
  <1>3. StatTypeOK'
    BY <1>1, ScoreStatsType, PolicyReads DEF WriteScoreWithRateLimit
  <1>4. bucket' \in [Keys -> TokenBucket \cup {NULL}]
    <2>1. CASE UsesTokenBucket
      <3>1. CurrentBucket(k) \in TokenBucket
        BY PolicyReads DEF CurrentBucket, TokenBucket, RateTypeOK, PolicyTypeOK
      <3>2. TakeToken(CurrentBucket(k), cfg.capacity, now, PairCooldown(k[2])) \in TokenBucket
        BY <2>1, <3>1, TakeTokenType, PolicyReads
           DEF WriteScoreWithRateLimit, RateAdmits, PolicyTypeOK
      <3> QED
        BY <2>1, <3>2 DEF WriteScoreWithRateLimit, RateTypeOK
    <2>2. CASE ~UsesTokenBucket
      BY <2>2 DEF WriteScoreWithRateLimit, RateTypeOK
    <2> QED
      BY <2>1, <2>2
  <1>5. RateTypeOK'
    BY <1>4, StampType DEF WriteScoreWithRateLimit, RateTypeOK
  <1>6. PastTypeOK'
    BY <1>1, NoteType DEF WriteScoreWithRateLimit
  <1> QED
    BY <1>1, <1>2, <1>3, <1>5, <1>6

\* Submissions on every path keep the state well typed.
LEMMA SubmitType ==
  ASSUME TypeOK, SubmitNext
  PROVE  TypeOK'
  <1> USE DEF TypeOK
  <1> PICK k \in Keys, s \in ScoreInputs :
        \/ submit_score_live(k, s)
        \/ submit_score_held(k, s)
        \/ submit_scores_batch(k, s)
        \/ submit_scores_batch_attested(k, s)
        \/ submit_consensus_score(k, s)
    BY DEF SubmitNext
  <1>1. s <= MAX_SCORE => s \in Score
    BY ArgsAssumption DEF Score, MAX_SCORE
  <1>2. CASE submit_score_live(k, s)
    BY <1>2, RateLimitedWriteType DEF submit_score_live, PolicyTypeOK, PendingTypeOK,
                                      CaseTypeOK, caseVars
  <1>3. CASE submit_score_held(k, s)
    <2>1. pending' \in [Keys -> PendingScoreEntry \cup {NULL}]
      <3>1. [score |-> s, commitAfter |-> now + cfg.buffer] \in PendingScoreEntry
        BY <1>1, <1>3, PolicyReads DEF submit_score_held, PendingScoreEntry, PolicyTypeOK
      <3> QED
        BY <1>3, <3>1 DEF submit_score_held, PendingTypeOK
    <2>2. lastSubmit' \in [Keys -> Nat]
      BY <1>3 DEF submit_score_held, StampSubmission, RateTypeOK, PolicyTypeOK
    <2> QED
      BY <1>3, <2>1, <2>2 DEF submit_score_held, PolicyTypeOK, PendingTypeOK, RateTypeOK,
                              RecordTypeOK, StatTypeOK, CaseTypeOK, PastTypeOK,
                              recordVars, statVars, caseVars, pastVars
  <1>4. CASE submit_scores_batch(k, s)
    <2>1. RecordTypeOK'
      BY <1>1, <1>4, StoreScoreType DEF submit_scores_batch
    <2>2. StatTypeOK'
      BY <1>1, <1>4, ScoreStatsType, PolicyReads DEF submit_scores_batch
    <2>3. RateTypeOK'
      BY <1>4, StampType DEF submit_scores_batch, RateTypeOK
    <2>4. PastTypeOK'
      BY <1>1, <1>4, NoteType DEF submit_scores_batch
    <2> QED
      BY <1>4, <2>1, <2>2, <2>3, <2>4 DEF submit_scores_batch, PolicyTypeOK, PendingTypeOK,
                                          CaseTypeOK, caseVars
  <1>5. CASE submit_scores_batch_attested(k, s)
    <2>1. RecordTypeOK'
      BY <1>1, <1>5, StoreScoreType DEF submit_scores_batch_attested
    <2>2. RateTypeOK'
      BY <1>5, StampType DEF submit_scores_batch_attested, RateTypeOK
    <2>3. PastTypeOK'
      BY <1>1, <1>5, NoteType DEF submit_scores_batch_attested, PastTypeOK
    <2> QED
      BY <1>5, <2>1, <2>2, <2>3 DEF submit_scores_batch_attested, PolicyTypeOK, PendingTypeOK,
                              StatTypeOK, CaseTypeOK, statVars, caseVars
  <1>6. CASE submit_consensus_score(k, s)
    BY <1>6, RateLimitedWriteType DEF submit_consensus_score, PolicyTypeOK, PendingTypeOK,
                                      CaseTypeOK, caseVars
  <1> QED
    BY <1>2, <1>3, <1>4, <1>5, <1>6

\* Commits, cancellations, erasures and overrides keep the state well typed.
LEMMA KeyOpType ==
  ASSUME TypeOK, KeyNext
  PROVE  TypeOK'
  <1> USE DEF TypeOK
  <1> PICK k \in Keys :
        \/ commit_pending_score(k)
        \/ cancel_pending_score(k)
        \/ clear_score(k)
        \/ clear_score_history(k)
        \/ override_rate_limit(k)
        \/ override_score_velocity_cap(k)
        \/ override_score_floor(k)
        \/ reset_breach_count(k)
    BY DEF KeyNext
  <1>1. CASE commit_pending_score(k)
    <2>1. pending[k].score \in Score
      BY <1>1 DEF commit_pending_score, PendingTypeOK, PendingScoreEntry
    <2>2. RecordTypeOK'
      BY <1>1, <2>1, StoreScoreType DEF commit_pending_score
    <2>3. PastTypeOK'
      BY <1>1, <2>1, NoteType DEF commit_pending_score, PastTypeOK
    <2> QED
      BY <1>1, <2>2, <2>3 DEF commit_pending_score, PolicyTypeOK, PendingTypeOK, RateTypeOK,
                        StatTypeOK, CaseTypeOK, statVars, rateVars, caseVars
  <1>2. CASE cancel_pending_score(k)
    BY <1>2 DEF cancel_pending_score, PolicyTypeOK, PendingTypeOK, RateTypeOK,
                RecordTypeOK, StatTypeOK, CaseTypeOK, PastTypeOK,
                recordVars, statVars, rateVars, caseVars, pastVars
  <1>3. CASE clear_score(k)
    <2>1. histogram' \in [Buckets -> Nat]
      BY <1>3, HistogramClearType DEF clear_score, RecordTypeOK, StatTypeOK
    <2>2. RecordTypeOK'
      BY <1>3, KeyParts DEF clear_score, RecordTypeOK
    <2>3. PastTypeOK'
      BY <1>3 DEF clear_score, NoteErased, PastTypeOK, Origins
    <2> QED
      BY <1>3, <2>1, <2>2, <2>3 DEF clear_score, PolicyTypeOK, PendingTypeOK, RateTypeOK,
                              StatTypeOK, CaseTypeOK, rateVars, caseVars
  <1>4. CASE clear_score_history(k)
    <2>1. histogram' \in [Buckets -> Nat]
      BY <1>4, HistogramClearType DEF clear_score_history, RecordTypeOK, StatTypeOK
    <2>2. RecordTypeOK'
      <3>1. <<>> \in Seq(Score)
        OBVIOUS
      <3> QED
        BY <1>4, <3>1 DEF clear_score_history, RecordTypeOK
    <2>3. PastTypeOK'
      BY <1>4, DisturbedType DEF clear_score_history, PastTypeOK
    <2> QED
      BY <1>4, <2>1, <2>2, <2>3 DEF clear_score_history, PolicyTypeOK, PendingTypeOK, RateTypeOK,
                              StatTypeOK, CaseTypeOK, rateVars, caseVars
  <1>5. CASE override_rate_limit(k)
    BY <1>5 DEF override_rate_limit, PolicyTypeOK, PendingTypeOK, RateTypeOK,
                RecordTypeOK, StatTypeOK, CaseTypeOK, PastTypeOK, recordVars, statVars,
                caseVars, pastVars
  <1>6. CASE override_score_velocity_cap(k)
    BY <1>6 DEF override_score_velocity_cap, PolicyTypeOK, PendingTypeOK, RateTypeOK,
                RecordTypeOK, StatTypeOK, CaseTypeOK, PastTypeOK, recordVars, statVars,
                caseVars, pastVars
  <1>7. CASE override_score_floor(k)
    BY <1>7 DEF override_score_floor, PolicyTypeOK, PendingTypeOK, RateTypeOK,
                RecordTypeOK, StatTypeOK, CaseTypeOK, PastTypeOK, recordVars, rateVars,
                caseVars, pastVars
  <1>8. CASE reset_breach_count(k)
    BY <1>8 DEF reset_breach_count, PolicyTypeOK, PendingTypeOK, RateTypeOK,
                RecordTypeOK, StatTypeOK, CaseTypeOK, PastTypeOK, recordVars, rateVars,
                caseVars, pastVars
  <1> QED
    BY <1>1, <1>2, <1>3, <1>4, <1>5, <1>6, <1>7, <1>8

\* A score is a number, and not the absence of one.
LEMMA ScoreIsInt ==
  ASSUME NEW v \in Score
  PROVE  v \in Int /\ v # NULL
  BY ConfigAssumption DEF Score, MAX_SCORE

\* What a boost makes of a score: never less than it was, and never above 100.
LEMMA BoostedType ==
  ASSUME RecordTypeOK, NEW k \in Keys, NEW boost \in Nat
  PROVE  /\ BoostedScore(k, boost) \in Score /\ CurrentScore(k) \in Score
         /\ BoostedScore(k, boost) >= CurrentScore(k)
  <1>1. CurrentScore(k) \in Score
    BY DEF RecordTypeOK, CurrentScore, Score, MAX_SCORE
  <1>2. CurrentScore(k) \in 0 .. 100
    BY <1>1 DEF Score, MAX_SCORE
  <1>3. BoostedScore(k, boost) \in 0 .. 100 /\ BoostedScore(k, boost) >= CurrentScore(k)
    BY <1>2 DEF BoostedScore, MAX_SCORE
  <1> QED
    BY <1>1, <1>3 DEF Score, MAX_SCORE

\* Counterparty links and contagion keep the state well typed.
LEMMA LinkType ==
  ASSUME TypeOK, LinkNext
  PROVE  TypeOK'
  <1> USE DEF TypeOK
  <1>1. ASSUME NEW a \in Wallets, NEW b \in Wallets, NEW p \in Pairs,
               add_counterparty_link(a, b, p) \/ remove_counterparty_link(a, b, p)
        PROVE  TypeOK'
    <2>1. links' \in [Keys -> SUBSET Wallets]
      BY <1>1 DEF add_counterparty_link, remove_counterparty_link, CaseTypeOK
    <2> QED
      BY <1>1, <2>1 DEF add_counterparty_link, remove_counterparty_link, PolicyTypeOK,
           PendingTypeOK, RateTypeOK, RecordTypeOK, StatTypeOK, CaseTypeOK, PastTypeOK,
           recordVars, statVars, rateVars, pastVars
  <1>2. ASSUME NEW a \in Wallets, NEW p \in Pairs, NEW boost \in Args.boost,
               propagate_contagion(a, p, boost)
        PROVE  TypeOK'
    <2> DEFINE hit == Affected(a, p, boost)
    <2>1. boost \in Nat /\ hit \subseteq Keys
      BY ArgsAssumption DEF Affected
    <2>2. RecordTypeOK'
      BY <1>2, <2>1, BoostedType DEF propagate_contagion, RecordTypeOK
    <2>3. \A k \in hit : Disturbed(k, BoostedScore(k, boost)) \subseteq Buckets
      BY <2>1, BoostedType, DisturbedType
    <2>4. PastTypeOK'
      <3>1. origin' \in [Keys -> Origins]
        BY <1>2 DEF propagate_contagion, PastTypeOK, Origins
      <3>2. skewed' \subseteq Buckets
        <4>1. skewed' = skewed \cup UNION {Disturbed(k, BoostedScore(k, boost)) : k \in hit}
          BY <1>2 DEF propagate_contagion
        <4> HIDE DEF hit
        <4> QED
          BY <2>3, <4>1, Zenon DEF PastTypeOK
      <3> QED
        BY <1>2, <2>1, <3>1, <3>2 DEF propagate_contagion, PastTypeOK
    <2> QED
      BY <1>2, <2>2, <2>4 DEF propagate_contagion, PolicyTypeOK, PendingTypeOK, RateTypeOK,
           StatTypeOK, CaseTypeOK, statVars, rateVars, caseVars
  <1> QED
    BY <1>1, <1>2 DEF LinkNext

\* Disputes keep the state well typed.
LEMMA DisputeType ==
  ASSUME TypeOK, DisputeNext
  PROVE  TypeOK'
  <1> USE DEF TypeOK
  <1>1. ASSUME NEW k \in Keys, open_score_dispute(k) \/ resolve_dispute_timeout(k)
        PROVE  TypeOK'
    <2>1. dispute' \in [Keys -> Nat \cup {NULL}]
      BY <1>1 DEF open_score_dispute, resolve_dispute_timeout, CaseTypeOK, PolicyTypeOK,
                  DISPUTE_CHALLENGE_PERIOD_SECS
    <2> QED
      BY <1>1, <2>1 DEF open_score_dispute, resolve_dispute_timeout, PolicyTypeOK,
           PendingTypeOK, RateTypeOK, RecordTypeOK, StatTypeOK, CaseTypeOK, PastTypeOK,
           recordVars, statVars, rateVars, pastVars
  <1>2. ASSUME NEW k \in Keys, NEW s \in ScoreInputs, resolve_dispute_admin(k, s)
        PROVE  TypeOK'
    <2>1. s \in Score
      BY <1>2, ArgsAssumption DEF resolve_dispute_admin, Score, MAX_SCORE
    <2>2. RecordTypeOK'
      <3>1. CountIfNew(FALSE)
        BY <1>2 DEF resolve_dispute_admin, CountIfNew
      <3> QED
        BY <1>2, <2>1, <3>1, StoreScoreType DEF resolve_dispute_admin
    <2>3. PastTypeOK'
      BY <1>2, <2>1, NoteType DEF resolve_dispute_admin, PastTypeOK
    <2>4. CaseTypeOK'
      BY <1>2 DEF resolve_dispute_admin, CaseTypeOK
    <2> QED
      BY <1>2, <2>2, <2>3, <2>4 DEF resolve_dispute_admin, PolicyTypeOK, PendingTypeOK,
           RateTypeOK, StatTypeOK, statVars, rateVars
  <1> QED
    BY <1>1, <1>2 DEF DisputeNext

\* A switch changes the gates only.
LEMMA GateFrame ==
  ASSUME GateNext, TypeOK
  PROVE  /\ UNCHANGED <<now, cfg, recordVars, statVars, rateVars, pending, caseVars, pastVars>>
         /\ gates' \in [paused : BOOLEAN, frozen : BOOLEAN, epochOpen : BOOLEAN,
                        pairsPaused : SUBSET Pairs]
  <1> USE DEF TypeOK, PolicyTypeOK, SetGates
  <1>1. CASE pause \/ unpause
    BY <1>1 DEF pause, unpause
  <1>2. CASE freeze_contract \/ unfreeze_contract
    BY <1>2 DEF freeze_contract, unfreeze_contract
  <1>3. CASE open_epoch \/ close_epoch
    BY <1>3 DEF open_epoch, close_epoch
  <1>4. ASSUME NEW p \in Pairs, NEW b \in BOOLEAN, set_pair_paused(p, b)
        PROVE  /\ UNCHANGED <<now, cfg, recordVars, statVars, rateVars, pending, caseVars, pastVars>>
               /\ gates' \in [paused : BOOLEAN, frozen : BOOLEAN, epochOpen : BOOLEAN,
                              pairsPaused : SUBSET Pairs]
    BY <1>4 DEF set_pair_paused
  <1> QED
    BY <1>1, <1>2, <1>3, <1>4 DEF GateNext

\* A setter changes the configuration only, to a legal one.
LEMMA ConfigFrame ==
  ASSUME ConfigNext, TypeOK
  PROVE  /\ UNCHANGED <<now, gates, recordVars, statVars, rateVars, pending, caseVars, pastVars>>
         /\ cfg' \in Config
  <1> DEFINE Goal == /\ UNCHANGED <<now, gates, recordVars, statVars, rateVars, pending, caseVars, pastVars>>
                     /\ cfg' \in Config
  <1>0. MAX_FINALITY_BUFFER_SECS \in Nat
    BY DEF MAX_FINALITY_BUFFER_SECS
  <1> USE ArgsAssumption DEF TypeOK, PolicyTypeOK, SetConfig, Config
  <1>1. ASSUME NEW v \in Args.cooldown, set_cooldown(v) PROVE Goal
    BY <1>1 DEF set_cooldown
  <1>2. ASSUME NEW p \in Pairs, NEW v \in Args.cooldown, set_pair_cooldown(p, v) PROVE Goal
    BY <1>2 DEF set_pair_cooldown
  <1>3. ASSUME NEW p \in Pairs, clear_pair_cooldown(p) PROVE Goal
    BY <1>3 DEF clear_pair_cooldown
  <1>4. ASSUME NEW v \in Args.capacity, set_burst_capacity(v) PROVE Goal
    BY <1>4 DEF set_burst_capacity
  <1>5. ASSUME NEW v \in Args.velocity, set_score_velocity_cap(v[1], v[2]) PROVE Goal
    BY <1>5 DEF set_score_velocity_cap
  <1>6. ASSUME NEW v \in Args.floor, set_score_floor_policy(v[1], v[2], v[3]) PROVE Goal
    BY <1>6 DEF set_score_floor_policy
  <1>7. ASSUME NEW v \in Args.buffer, set_finality_buffer(v) PROVE Goal
    <2>1. v \in 0 .. MAX_FINALITY_BUFFER_SECS
      BY <1>0, <1>7 DEF set_finality_buffer
    <2> QED
      BY <1>7, <2>1 DEF set_finality_buffer
  <1>8. ASSUME NEW v \in Args.margin, set_hysteresis_margin(v) PROVE Goal
    BY <1>8 DEF set_hysteresis_margin
  <1>9. ASSUME NEW v \in Args.threshold, apply_risk_threshold(v) PROVE Goal
    BY <1>9 DEF apply_risk_threshold
  <1>10. ASSUME NEW v \in Args.depth, apply_history_depth(v) PROVE Goal
    BY <1>10 DEF apply_history_depth
  <1>11. ASSUME NEW v \in Args.adaptive, enable_adaptive_threshold(v[1], v[2]) PROVE Goal
    BY <1>11 DEF enable_adaptive_threshold
  <1>12. CASE disable_adaptive_threshold
    BY <1>12 DEF disable_adaptive_threshold
  <1>13. CASE recompute_adaptive_threshold
    BY <1>13 DEF recompute_adaptive_threshold
  <1> HIDE DEF Goal
  <1> QED
    BY <1>1, <1>2, <1>3, <1>4, <1>5, <1>6, <1>7, <1>8, <1>9, <1>10, <1>11, <1>12, <1>13
       DEF ConfigNext, Goal

\* Links and disputes leave clock, policy, statistics, rate limits and held scores
\* alone.
LEMMA CaseFrame ==
  ASSUME LinkNext \/ DisputeNext
  PROVE  UNCHANGED <<now, gates, cfg, statVars, rateVars, pending>>
  <1>1. ASSUME NEW a, NEW b, NEW p, add_counterparty_link(a, b, p) \/ remove_counterparty_link(a, b, p)
        PROVE  UNCHANGED <<now, gates, cfg, statVars, rateVars, pending>>
    BY <1>1 DEF add_counterparty_link, remove_counterparty_link
  <1>2. ASSUME NEW a, NEW p, NEW boost, propagate_contagion(a, p, boost)
        PROVE  UNCHANGED <<now, gates, cfg, statVars, rateVars, pending>>
    BY <1>2 DEF propagate_contagion
  <1>3. ASSUME NEW k, open_score_dispute(k) \/ resolve_dispute_timeout(k)
        PROVE  UNCHANGED <<now, gates, cfg, statVars, rateVars, pending>>
    BY <1>3 DEF open_score_dispute, resolve_dispute_timeout
  <1>4. ASSUME NEW k, NEW s, resolve_dispute_admin(k, s)
        PROVE  UNCHANGED <<now, gates, cfg, statVars, rateVars, pending>>
    BY <1>4 DEF resolve_dispute_admin
  <1> QED
    BY <1>1, <1>2, <1>3, <1>4 DEF LinkNext, DisputeNext

\* Every step keeps the state well typed.
LEMMA TypeStep ==
  ASSUME TypeOK, [Next]_vars
  PROVE  TypeOK'
  <1> USE DEF TypeOK, PolicyTypeOK, PendingTypeOK, RateTypeOK, RecordTypeOK, StatTypeOK,
              CaseTypeOK, PastTypeOK, recordVars, statVars, rateVars, caseVars, pastVars
  <1>1. CASE SubmitNext
    BY <1>1, SubmitType
  <1>2. CASE KeyNext
    BY <1>2, KeyOpType
  <1>3. CASE GateNext
    BY <1>3, GateFrame
  <1>4. CASE ConfigNext
    BY <1>4, ConfigFrame
  <1>5. CASE \E d \in TimeSteps : Tick(d)
    BY <1>5, ClockAssumption DEF Tick
  <1>6. CASE UNCHANGED vars
    BY <1>6 DEF vars
  <1>7. CASE LinkNext \/ DisputeNext
    BY <1>7, LinkType, DisputeType
  <1> QED
    BY <1>1, <1>2, <1>3, <1>4, <1>5, <1>6, <1>7 DEF Next

\* Type correctness: whatever the order of calls, every stored value is one its
\* accessor decodes; in particular no score above 100 is ever stored, and no
\* histogram bucket, counter or token count goes below zero.
THEOREM TypeCorrect == Spec => []TypeOK
  <1>1. Init => TypeOK
    <2> SUFFICES ASSUME Init PROVE TypeOK
      OBVIOUS
    <2>1. PolicyTypeOK
      BY ClockAssumption, ConfigAssumption DEF Init, PolicyTypeOK
    <2>2. RecordTypeOK /\ StatTypeOK /\ RateTypeOK /\ PendingTypeOK
      BY DEF Init, RecordTypeOK, StatTypeOK, RateTypeOK, PendingTypeOK
    <2>3. CaseTypeOK /\ PastTypeOK
      BY DEF Init, CaseTypeOK, PastTypeOK, Origins
    <2> QED
      BY <2>1, <2>2, <2>3 DEF TypeOK
  <1>2. TypeOK /\ [Next]_vars => TypeOK'
    BY TypeStep
  <1> QED
    BY <1>1, <1>2, PTL DEF Spec

-----------------------------------------------------------------------------
(* The records agree with one another *)

\* A write that keeps the score statistics: submit_score, submit_scores_batch and
\* the consensus paths, each with its own threshold.
TrackedWrite(k, s, thr) ==
  /\ StoreScore(k, s) /\ CountIfNew(score[k] = NULL)
  /\ ~ScoreFloorBlocks(k, s)
  /\ UpdateScoreStats(k, s, thr)
  /\ NoteSubmitted(k)
  /\ UNCHANGED cfg

\* A write that skips them: an attested entry, a commit or a correction, each with
\* its own idea of which pairs are new.
UntrackedWrite(k, s) ==
  /\ StoreScore(k, s) /\ NoteBypass(k, s)
  /\ \/ CountIfNew(score[k] = NULL) /\ UNCHANGED uncounted
     \/ CountIfNew(scoreCount[k] + 1 = 1) /\ UNCHANGED uncounted
     \/ /\ UNCHANGED totalScored
        /\ uncounted' = IF score[k] = NULL THEN uncounted \cup {k} ELSE uncounted
  /\ UNCHANGED <<cfg, statVars, erasures>>

\* What any step does to the records and the statistics.
LEMMA RecordStep ==
  ASSUME TypeOK, [Next]_vars
  PROVE  \/ \E k \in Keys, s \in Score, thr \in {cfg.threshold, EffectiveThreshold} :
              TrackedWrite(k, s, thr)
         \/ \E k \in Keys, s \in Score : UntrackedWrite(k, s)
         \/ \E a \in Wallets, p \in Pairs, boost \in Nat : propagate_contagion(a, p, boost)
         \/ \E k \in Keys : clear_score(k) \/ clear_score_history(k)
                            \/ override_score_floor(k) \/ reset_breach_count(k)
         \/ UNCHANGED <<recordVars, statVars, pastVars>>
  <1>1. CASE SubmitNext
    <2> PICK k \in Keys, s \in ScoreInputs :
          \/ submit_score_live(k, s)
          \/ submit_score_held(k, s)
          \/ submit_scores_batch(k, s)
          \/ submit_scores_batch_attested(k, s)
          \/ submit_consensus_score(k, s)
      BY <1>1 DEF SubmitNext
    <2>1. s <= MAX_SCORE => s \in Score
      BY ArgsAssumption DEF Score, MAX_SCORE
    <2>2. CASE submit_score_live(k, s) \/ submit_consensus_score(k, s)
      BY <2>1, <2>2 DEF submit_score_live, submit_consensus_score, WriteScoreWithRateLimit,
                        TrackedWrite
    <2>3. CASE submit_score_held(k, s)
      BY <2>3 DEF submit_score_held
    <2>4. CASE submit_scores_batch(k, s)
      BY <2>1, <2>4 DEF submit_scores_batch, TrackedWrite
    <2>5. CASE submit_scores_batch_attested(k, s)
      BY <2>1, <2>5 DEF submit_scores_batch_attested, UntrackedWrite
    <2> QED
      BY <2>2, <2>3, <2>4, <2>5
  <1>2. CASE KeyNext
    <2>1. ASSUME NEW k \in Keys, commit_pending_score(k)
          PROVE  \E s \in Score : UntrackedWrite(k, s)
      BY <2>1 DEF commit_pending_score, UntrackedWrite, TypeOK, PendingTypeOK, PendingScoreEntry
    <2> QED
      BY <1>2, <2>1 DEF KeyNext, cancel_pending_score, override_rate_limit,
           override_score_velocity_cap
  <1>3. CASE LinkNext
    BY <1>3, ArgsAssumption DEF LinkNext, add_counterparty_link, remove_counterparty_link
  <1>4. CASE DisputeNext
    <2>1. ASSUME NEW k \in Keys, NEW s \in ScoreInputs, resolve_dispute_admin(k, s)
          PROVE  s \in Score /\ UntrackedWrite(k, s)
      BY <2>1, ArgsAssumption DEF resolve_dispute_admin, UntrackedWrite, Score, MAX_SCORE
    <2> QED
      BY <1>4, <2>1 DEF DisputeNext, open_score_dispute, resolve_dispute_timeout
  <1>5. CASE GateNext \/ ConfigNext
    BY <1>5, GateFrame, ConfigFrame
  <1>6. CASE (\E d \in TimeSteps : Tick(d)) \/ UNCHANGED vars
    BY <1>6 DEF Tick, vars
  <1> QED
    BY <1>1, <1>2, <1>3, <1>4, <1>5, <1>6 DEF Next

\* The same for the live scores, the rings and the pair lists alone.
LEMMA LiveStep ==
  ASSUME TypeOK, [Next]_vars
  PROVE  \/ \E k \in Keys, s \in Score, o \in {"submitted", "stored"} :
              StoreScore(k, s) /\ origin' = [origin EXCEPT ![k] = o]
         \/ \E a \in Wallets, p \in Pairs, boost \in Nat : propagate_contagion(a, p, boost)
         \/ \E k \in Keys : /\ score' = [score EXCEPT ![k] = NULL]
                            /\ pairsOf' = [pairsOf EXCEPT ![k[1]] = pairsOf[k[1]] \ {k[2]}]
                            /\ origin' = [origin EXCEPT ![k] = "none"]
                            /\ UNCHANGED <<history, scoreCount>>
         \/ \E k \in Keys : /\ history' = [history EXCEPT ![k] = <<>>]
                            /\ UNCHANGED <<score, pairsOf, scoreCount, origin>>
         \/ UNCHANGED <<score, history, pairsOf, scoreCount, origin>>
  <1>1. ASSUME NEW k \in Keys, NEW s \in Score, NEW thr, TrackedWrite(k, s, thr)
        PROVE  StoreScore(k, s) /\ origin' = [origin EXCEPT ![k] = "submitted"]
    BY <1>1 DEF TrackedWrite, NoteSubmitted
  <1>2. ASSUME NEW k \in Keys, NEW s \in Score, UntrackedWrite(k, s)
        PROVE  StoreScore(k, s) /\ origin' = [origin EXCEPT ![k] = "stored"]
    BY <1>2 DEF UntrackedWrite, NoteBypass
  <1>3. ASSUME NEW k \in Keys, clear_score(k)
        PROVE  /\ score' = [score EXCEPT ![k] = NULL]
               /\ pairsOf' = [pairsOf EXCEPT ![k[1]] = pairsOf[k[1]] \ {k[2]}]
               /\ origin' = [origin EXCEPT ![k] = "none"]
               /\ UNCHANGED <<history, scoreCount>>
    BY <1>3 DEF clear_score, NoteErased
  <1>4. ASSUME NEW k \in Keys, clear_score_history(k)
        PROVE  /\ history' = [history EXCEPT ![k] = <<>>]
               /\ UNCHANGED <<score, pairsOf, scoreCount, origin>>
    BY <1>4 DEF clear_score_history
  <1>5. ASSUME NEW k \in Keys, override_score_floor(k) \/ reset_breach_count(k)
        PROVE  UNCHANGED <<score, history, pairsOf, scoreCount, origin>>
    BY <1>5 DEF override_score_floor, reset_breach_count, recordVars, pastVars
  <1>6. UNCHANGED <<recordVars, statVars, pastVars>>
        => UNCHANGED <<score, history, pairsOf, scoreCount, origin>>
    BY DEF recordVars, pastVars
  <1> QED
    BY <1>1, <1>2, <1>3, <1>4, <1>5, <1>6, RecordStep, Zenon

\* Keys are pairs: a key is determined by its wallet and its pair.
LEMMA KeyExtensional ==
  ASSUME NEW k \in Keys, NEW j \in Keys, k[1] = j[1], k[2] = j[2]
  PROVE  k = j
  BY DEF Keys

\* What contagion does to a live score, its ring and its registration.
LEMMA ContagionStep ==
  ASSUME TypeOK, NEW a \in Wallets, NEW p \in Pairs, NEW boost \in Nat,
         propagate_contagion(a, p, boost), NEW k \in Keys
  PROVE  /\ history' = history /\ pairsOf' = pairsOf
         /\ \/ score'[k] = score[k] /\ origin'[k] = origin[k]
            \/ /\ score'[k] \in Score /\ CurrentScore(k) \in Score
               /\ score'[k] > CurrentScore(k)
               /\ origin'[k] = IF origin[k] \in {"none", "invented"} THEN "invented" ELSE "boosted"
  <1> DEFINE hit == Affected(a, p, boost)
  <1>1. /\ BoostedScore(k, boost) \in Score /\ CurrentScore(k) \in Score
        /\ BoostedScore(k, boost) >= CurrentScore(k)
    BY BoostedType DEF TypeOK
  <1>2. k \in hit => BoostedScore(k, boost) > CurrentScore(k)
    BY <1>1 DEF Affected, Score
  <1>3. /\ history' = history /\ pairsOf' = pairsOf
        /\ score'[k] = IF k \in hit THEN BoostedScore(k, boost) ELSE score[k]
        /\ origin'[k] = IF k \notin hit THEN origin[k]
                        ELSE IF origin[k] \in {"none", "invented"} THEN "invented" ELSE "boosted"
    BY DEF propagate_contagion
  <1> HIDE DEF hit
  <1> QED
    BY <1>1, <1>2, <1>3

\* A pair without a live score has no origin, and only such a pair.
OriginKnown == \A k \in Keys : origin[k] = "none" <=> score[k] = NULL

\* No path, in any order of submissions, commits, corrections, boosts, erasures
\* and policy changes, leaves the live score, the end of the history ring and the
\* pair list that the aggregate reads further apart than contagion alone puts them.
THEOREM RecordsAgree == Spec => [](HistoryTailIsLive /\ PairListMatchesScores)
  <1> DEFINE IInv == HistoryTailIsLive /\ PairListMatchesScores /\ OriginKnown
             Ends(k) == Len(history[k]) # 0 =>
                          /\ origin[k] \in {"submitted", "stored"}
                             => history[k][Len(history[k])] = score[k]
                          /\ origin[k] = "boosted" => history[k][Len(history[k])] < score[k]
             Listed(k) == k[2] \in pairsOf[k[1]] <=> score[k] # NULL /\ origin[k] # "invented"
             Known(k) == origin[k] = "none" <=> score[k] = NULL
             Each(k) == (score[k] # NULL => Ends(k)) /\ Listed(k) /\ Known(k)
  <1>0. IInv <=> \A k \in Keys : Each(k)
    BY DEF HistoryTailIsLive, PairListMatchesScores, OriginKnown, Live
  <1>0p. IInv' <=> \A k \in Keys : Each(k)'
    BY DEF HistoryTailIsLive, PairListMatchesScores, OriginKnown, Live
  <1>1. Init => IInv
    BY DEF Init, HistoryTailIsLive, PairListMatchesScores, OriginKnown, Live, Keys
  <1>2. ASSUME TypeOK, IInv, [Next]_vars  PROVE IInv'
    <2> SUFFICES ASSUME NEW j \in Keys PROVE Each(j)'
      BY <1>0p, Zenon
    <2>0. Each(j)
      BY <1>0, <1>2, Zenon
    <2> HIDE DEF IInv
    <2> USE <1>2 DEF TypeOK, RecordTypeOK, PastTypeOK
    <2>1. ASSUME NEW k \in Keys, NEW s \in Score, NEW o \in {"submitted", "stored"},
                 StoreScore(k, s), origin' = [origin EXCEPT ![k] = o]
          PROVE  Each(j)'
      <3>1. s # NULL
        BY ConfigAssumption DEF Score, MAX_SCORE
      <3>2. history'[k][Len(history'[k])] = s
        BY <2>1, TrimProperties, PolicyReads DEF StoreScore
      <3>3. CASE j = k
        <4>1. score'[j] = s /\ origin'[j] = o /\ j[2] \in pairsOf'[j[1]]
          BY <2>1, <3>3, KeyParts DEF StoreScore
        <4> QED
          BY <3>1, <3>2, <3>3, <4>1
      <3>4. CASE j # k
        <4>1. score'[j] = score[j] /\ origin'[j] = origin[j] /\ history'[j] = history[j]
          BY <2>1, <3>4 DEF StoreScore
        <4>2. j[1] # k[1] \/ j[2] # k[2]
          BY <3>4, KeyExtensional
        <4>3. j[2] \in pairsOf'[j[1]] <=> j[2] \in pairsOf[j[1]]
          BY <2>1, <4>2, KeyParts DEF StoreScore
        <4> QED
          BY <2>0, <4>1, <4>3
      <3> QED
        BY <3>3, <3>4
    <2>2. ASSUME NEW a \in Wallets, NEW p \in Pairs, NEW boost \in Nat,
                 propagate_contagion(a, p, boost)
          PROVE  Each(j)'
      <3>1. history' = history /\ pairsOf' = pairsOf
        BY <2>2, ContagionStep
      <3>2. CASE score'[j] = score[j] /\ origin'[j] = origin[j]
        BY <2>0, <3>1, <3>2
      <3>3. CASE /\ score'[j] \in Score /\ CurrentScore(j) \in Score
                 /\ score'[j] > CurrentScore(j)
                 /\ origin'[j] = IF origin[j] \in {"none", "invented"} THEN "invented" ELSE "boosted"
        <4>1. score'[j] # NULL /\ score'[j] \in Int /\ CurrentScore(j) \in Int
          BY <3>3, ScoreIsInt
        <4>2. CASE origin[j] \in {"none", "invented"}
          BY <2>0, <3>1, <3>3, <4>1, <4>2
        <4>3. CASE origin[j] \in {"submitted", "stored", "boosted"}
          <5>1. score[j] # NULL /\ CurrentScore(j) = score[j]
            BY <2>0, <4>3 DEF CurrentScore
          <5>2. Len(history[j]) # 0 => history[j][Len(history[j])] <= score[j]
                                       /\ history[j][Len(history[j])] \in Int
            <6>1. \A i \in 1 .. Len(history[j]) : history[j][i] \in Score
              BY ElementOfSeq
            <6>2. Len(history[j]) # 0 => Len(history[j]) \in 1 .. Len(history[j])
              BY LenProperties
            <6>3. Len(history[j]) # 0 => history[j][Len(history[j])] \in Int
              BY <6>1, <6>2 DEF Score
            <6> QED
              BY <2>0, <4>1, <4>3, <5>1, <6>3
          <5>3. Len(history[j]) # 0 => history[j][Len(history[j])] < score'[j]
            BY <3>3, <4>1, <5>1, <5>2
          <5> QED
            BY <2>0, <3>1, <3>3, <4>1, <4>3, <5>1, <5>3
        <4> QED
          BY <4>2, <4>3 DEF Origins
      <3> QED
        BY <2>2, <3>2, <3>3, ContagionStep
    <2>3. ASSUME NEW k \in Keys,
                 /\ score' = [score EXCEPT ![k] = NULL]
                 /\ pairsOf' = [pairsOf EXCEPT ![k[1]] = pairsOf[k[1]] \ {k[2]}]
                 /\ origin' = [origin EXCEPT ![k] = "none"]
                 /\ UNCHANGED <<history, scoreCount>>
          PROVE  Each(j)'
      <3>1. CASE j = k
        BY <2>3, <3>1, KeyParts
      <3>2. CASE j # k
        <4>1. score'[j] = score[j] /\ origin'[j] = origin[j] /\ history'[j] = history[j]
          BY <2>3, <3>2
        <4>2. j[1] # k[1] \/ j[2] # k[2]
          BY <3>2, KeyExtensional
        <4>3. j[2] \in pairsOf'[j[1]] <=> j[2] \in pairsOf[j[1]]
          BY <2>3, <4>2, KeyParts
        <4> QED
          BY <2>0, <4>1, <4>3
      <3> QED
        BY <3>1, <3>2
    <2>4. ASSUME NEW k \in Keys, history' = [history EXCEPT ![k] = <<>>],
                 UNCHANGED <<score, pairsOf, scoreCount, origin>>
          PROVE  Each(j)'
      <3>1. history'[j] = history[j] \/ Len(history'[j]) = 0
        BY <2>4
      <3> QED
        BY <2>0, <2>4, <3>1
    <2>5. CASE UNCHANGED <<score, history, pairsOf, scoreCount, origin>>
      BY <2>0, <2>5
    <2> HIDE DEF Each
    <2> QED
      BY <2>1, <2>2, <2>3, <2>4, <2>5, LiveStep
  <1>3. TypeOK /\ IInv /\ [Next]_vars => IInv'
    BY <1>2
  <1> QED
    BY <1>1, <1>3, TypeCorrect, PTL DEF Spec

\* The pair list by itself: an asset pair is listed for a wallet exactly while a
\* score of it is live that some write stored, boosted since or not.
THEOREM PairListExact == Spec => []PairListMatchesScores
  BY RecordsAgree, PTL

\* A write brings its ring back within the depth in force, however far the depth
\* was lowered since.
THEOREM DepthRestored == Spec => WriteRestoresDepth
  <1> DEFINE A == \A k \in Keys :
                    scoreCount'[k] # scoreCount[k] => Len(history'[k]) <= cfg.depth
  <1>1. TypeOK /\ [Next]_vars => [A]_vars
    <2> SUFFICES ASSUME TypeOK, [Next]_vars PROVE A
      OBVIOUS
    <2>1. (\E k \in Keys, s \in Score : StoreScore(k, s)) \/ scoreCount' = scoreCount
      BY LiveStep DEF propagate_contagion
    <2>2. ASSUME NEW k \in Keys, NEW s \in Score, StoreScore(k, s) PROVE A
      <3>1. Len(history'[k]) <= cfg.depth
        BY <2>2, TrimProperties, PolicyReads DEF StoreScore, TypeOK, RecordTypeOK
      <3> QED
        BY <2>2, <3>1 DEF StoreScore, TypeOK, RecordTypeOK
    <2> QED
      BY <2>1, <2>2
  <1> QED
    BY <1>1, TypeCorrect, PTL DEF Spec, WriteRestoresDepth

-----------------------------------------------------------------------------
(* Time stamps *)

\* What any step does to the risk bands.
LEMMA BandStep ==
  ASSUME TypeOK, [Next]_vars
  PROVE  \/ /\ now' = now
            /\ \E k \in Keys, s \in Score, thr \in Nat : EvaluateRiskBand(k, s, thr)
         \/ UNCHANGED <<band, bandEntry>> /\ now' >= now
  <1> USE DEF statVars, TypeOK
  <1>0. now \in Nat
    BY DEF PolicyTypeOK
  <1>1. CASE SubmitNext
    <2> PICK k \in Keys, s \in ScoreInputs :
          \/ submit_score_live(k, s)
          \/ submit_score_held(k, s)
          \/ submit_scores_batch(k, s)
          \/ submit_scores_batch_attested(k, s)
          \/ submit_consensus_score(k, s)
      BY <1>1 DEF SubmitNext
    <2>1. s <= MAX_SCORE => s \in Score
      BY ArgsAssumption DEF Score, MAX_SCORE
    <2>2. cfg.threshold \in Nat /\ EffectiveThreshold \in Nat
      BY PolicyReads
    <2> QED
      BY <1>0, <2>1, <2>2 DEF submit_score_live, submit_score_held, submit_scores_batch,
                  submit_scores_batch_attested, submit_consensus_score,
                  WriteScoreWithRateLimit, UpdateScoreStats
  <1>2. CASE KeyNext
    BY <1>0, <1>2 DEF KeyNext, commit_pending_score, cancel_pending_score, clear_score,
         clear_score_history, override_rate_limit, override_score_velocity_cap,
         override_score_floor, reset_breach_count
  <1>3. CASE GateNext \/ ConfigNext
    BY <1>0, <1>3, GateFrame, ConfigFrame
  <1>4. CASE \E d \in TimeSteps : Tick(d)
    BY <1>0, <1>4, ClockAssumption DEF Tick
  <1>5. CASE UNCHANGED vars
    BY <1>0, <1>5 DEF vars
  <1>6. CASE LinkNext \/ DisputeNext
    BY <1>0, <1>6, CaseFrame
  <1> QED
    BY <1>1, <1>2, <1>3, <1>4, <1>5, <1>6 DEF Next

\* A band is entered exactly while its entry time is stored, and that time is not
\* in the future, whichever thresholds and margins were in force on the way.
THEOREM BandEntryRecorded == Spec => []BandMatchesEntry
  <1>1. Init => BandMatchesEntry
    BY DEF Init, BandMatchesEntry
  <1>2. TypeOK /\ BandMatchesEntry /\ [Next]_vars => BandMatchesEntry'
    <2> SUFFICES ASSUME TypeOK, BandMatchesEntry, [Next]_vars PROVE BandMatchesEntry'
      OBVIOUS
    <2> USE DEF TypeOK, StatTypeOK, PolicyTypeOK
    <2>1. now # NULL
      BY ConfigAssumption
    <2>2. ASSUME now' = now, NEW k \in Keys, NEW s \in Score, NEW thr \in Nat,
                 EvaluateRiskBand(k, s, thr)
          PROVE  BandMatchesEntry'
      <3> SUFFICES ASSUME NEW j \in Keys
                   PROVE  /\ (band'[j] <=> bandEntry'[j] # NULL)
                          /\ band'[j] => bandEntry'[j] <= now'
        BY DEF BandMatchesEntry
      <3> DEFINE enters == s >= thr /\ ~band[k]
                 exits  == s < thr /\ band[k] /\ s < Monus(thr, cfg.margin)
      <3>1. CASE j # k
        <4>1. band'[j] = band[j] /\ bandEntry'[j] = bandEntry[j]
          BY <2>2, <3>1 DEF EvaluateRiskBand
        <4> QED
          BY <2>2, <4>1 DEF BandMatchesEntry
      <3>2. CASE j = k
        <4>1. enters => band'[k] /\ bandEntry'[k] = now
          BY <2>2 DEF EvaluateRiskBand
        <4>2. exits => ~band'[k] /\ bandEntry'[k] = NULL
          BY <2>2 DEF EvaluateRiskBand
        <4>3. ~enters /\ ~exits => band'[k] = band[k] /\ bandEntry'[k] = bandEntry[k]
          BY <2>2 DEF EvaluateRiskBand
        <4> HIDE DEF enters, exits
        <4> QED
          BY <2>1, <2>2, <3>2, <4>1, <4>2, <4>3 DEF BandMatchesEntry
      <3> QED
        BY <3>1, <3>2
    <2>3. CASE UNCHANGED <<band, bandEntry>> /\ now' >= now
      <3>1. now' \in Nat
        BY TypeStep
      <3>2. \A k \in Keys : bandEntry[k] # NULL => bandEntry[k] \in Nat
        OBVIOUS
      <3> QED
        BY <2>3, <3>1, <3>2 DEF BandMatchesEntry
    <2> QED
      BY <2>2, <2>3, BandStep
  <1> QED
    BY <1>1, <1>2, TypeCorrect, PTL DEF Spec

-----------------------------------------------------------------------------
(* Deployments that leave settings alone                                   *)

\* Settings whose operation a deployment does not use keep their values.
LEMMA SettingsKept ==
  ASSUME TypeOK, [Next]_vars
  PROVE  /\ "buffer" \notin AdminOps => cfg'.buffer = cfg.buffer
         /\ "floor" \notin AdminOps => /\ cfg'.floorOn = cfg.floorOn
                                       /\ cfg'.highWater = cfg.highWater
                                       /\ cfg'.floor = cfg.floor
         /\ "threshold" \notin AdminOps => cfg'.threshold = cfg.threshold
         /\ "margin" \notin AdminOps => cfg'.margin = cfg.margin
         /\ "adaptive" \notin AdminOps => cfg'.adaptiveOn = cfg.adaptiveOn
         /\ "cooldown" \notin AdminOps => /\ cfg'.cooldown = cfg.cooldown
                                          /\ cfg'.pairCooldown = cfg.pairCooldown
         /\ "capacity" \notin AdminOps => cfg'.capacity = cfg.capacity
         /\ "velocity" \notin AdminOps => /\ cfg'.velocityOn = cfg.velocityOn
                                          /\ cfg'.pointsPerHour = cfg.pointsPerHour
  <1>1. CASE ConfigNext
    <2> USE DEF TypeOK, PolicyTypeOK, SetConfig, Config
    <2>1. CASE (\E v \in Args.cooldown : set_cooldown(v))
               \/ (\E p \in Pairs, v \in Args.cooldown : set_pair_cooldown(p, v))
               \/ (\E p \in Pairs : clear_pair_cooldown(p))
      BY <2>1 DEF set_cooldown, set_pair_cooldown, clear_pair_cooldown
    <2>2. CASE (\E v \in Args.capacity : set_burst_capacity(v))
               \/ (\E v \in Args.velocity : set_score_velocity_cap(v[1], v[2]))
               \/ (\E v \in Args.floor : set_score_floor_policy(v[1], v[2], v[3]))
      BY <2>2 DEF set_burst_capacity, set_score_velocity_cap, set_score_floor_policy
    <2>3. CASE \E v \in Args.buffer : set_finality_buffer(v)
      BY <2>3 DEF set_finality_buffer
    <2>4. CASE (\E v \in Args.margin : set_hysteresis_margin(v))
               \/ (\E v \in Args.threshold : apply_risk_threshold(v))
               \/ (\E v \in Args.depth : apply_history_depth(v))
      BY <2>4 DEF set_hysteresis_margin, apply_risk_threshold, apply_history_depth
    <2>5. CASE (\E v \in Args.adaptive : enable_adaptive_threshold(v[1], v[2]))
               \/ disable_adaptive_threshold \/ recompute_adaptive_threshold
      BY <2>5 DEF enable_adaptive_threshold, disable_adaptive_threshold,
                  recompute_adaptive_threshold
    <2> QED
      BY <1>1, <2>1, <2>2, <2>3, <2>4, <2>5 DEF ConfigNext
  <1>2. CASE cfg' = cfg
    BY <1>2
  <1>3. CASE GateNext
    BY <1>2, <1>3, GateFrame
  <1>4. CASE SubmitNext
    BY <1>2, <1>4 DEF SubmitNext, submit_score_live, submit_score_held,
         submit_scores_batch, submit_scores_batch_attested, submit_consensus_score
  <1>5. CASE KeyNext
    BY <1>2, <1>5 DEF KeyNext, commit_pending_score, cancel_pending_score, clear_score,
         clear_score_history, override_rate_limit, override_score_velocity_cap,
         override_score_floor, reset_breach_count
  <1>6. CASE (\E d \in TimeSteps : Tick(d)) \/ UNCHANGED vars
    BY <1>2, <1>6 DEF Tick, vars
  <1>7. CASE LinkNext \/ DisputeNext
    BY <1>2, <1>7, CaseFrame
  <1> QED
    BY <1>1, <1>3, <1>4, <1>5, <1>6, <1>7 DEF Next

-----------------------------------------------------------------------------
(* The risk band                                                           *)

\* The inductive part of the band property: with the adaptive threshold off every
\* path evaluates the band at the static threshold it was entered at.
FixedBand ==
  /\ cfg.adaptiveOn = FALSE
  /\ cfg.threshold = Cfg0.threshold /\ cfg.margin = Cfg0.margin

\* A deployment whose threshold stays as it was set at the start.
KeepsThreshold ==
  /\ Cfg0.adaptiveOn = FALSE
  /\ "threshold" \notin AdminOps /\ "adaptive" \notin AdminOps

\* Where threshold and margin stay, a live score that a submission stored is in the
\* high-risk band when it is at the threshold and is not when it is below the exit
\* line: evaluate_risk_band recovers from whatever the writers that do not call it
\* left behind.
THEOREM BandFollowsScore ==
  ASSUME KeepsThreshold, "margin" \notin AdminOps
  PROVE  Spec => []BandTracksLive
  <1> DEFINE Inv == BandTracksLive /\ FixedBand
             Right(j) == /\ score[j] >= cfg.threshold => band[j]
                         /\ score[j] < Monus(cfg.threshold, cfg.margin) => ~band[j]
  <1>1. Init => Inv
    BY DEF Init, BandTracksLive, FixedBand, KeepsThreshold, Live
  <1>2. ASSUME TypeOK, Inv, [Next]_vars
        PROVE  Inv'
    <2>1. FixedBand'
      BY <1>2, SettingsKept DEF FixedBand, KeepsThreshold
    <2>2. cfg.threshold \in Nat /\ cfg.margin \in Nat /\ cfg'.threshold = cfg.threshold
          /\ cfg'.margin = cfg.margin
      BY <1>2, <2>1 DEF FixedBand, TypeOK, PolicyTypeOK, Config
    <2>3. \A j \in Keys : score[j] # NULL /\ origin[j] = "submitted" => Right(j)
      BY <1>2 DEF BandTracksLive, Live
    <2>4. /\ score \in [Keys -> Score \cup {NULL}] /\ band \in [Keys -> BOOLEAN]
          /\ origin \in [Keys -> Origins]
      BY <1>2 DEF TypeOK, RecordTypeOK, StatTypeOK, PastTypeOK
    <2> SUFFICES ASSUME NEW j \in Keys, score'[j] # NULL, origin'[j] = "submitted"
                 PROVE  /\ score'[j] >= cfg.threshold => band'[j]
                        /\ score'[j] < Monus(cfg.threshold, cfg.margin) => ~band'[j]
      BY <2>1, <2>2 DEF BandTracksLive, Live
    <2> DEFINE Goal == /\ score'[j] >= cfg.threshold => band'[j]
                       /\ score'[j] < Monus(cfg.threshold, cfg.margin) => ~band'[j]
    <2>5. ASSUME NEW k \in Keys, NEW s \in Score, TrackedWrite(k, s, cfg.threshold)
          PROVE  Goal
      <3>1. CASE j # k
        BY <2>3, <2>4, <2>5, <3>1 DEF TrackedWrite, StoreScore, UpdateScoreStats,
             EvaluateRiskBand, NoteSubmitted
      <3>2. CASE j = k
        <4>1. score'[k] = s /\ s \in Int
          BY <2>4, <2>5 DEF TrackedWrite, StoreScore, Score
        <4>2. Monus(cfg.threshold, cfg.margin) <= cfg.threshold
              /\ Monus(cfg.threshold, cfg.margin) \in Int
          BY <2>2 DEF Monus
        <4> DEFINE enters == s >= cfg.threshold /\ ~band[k]
                   exits  == s < cfg.threshold /\ band[k]
                             /\ s < Monus(cfg.threshold, cfg.margin)
        <4>3. enters => band'[k]
          BY <2>4, <2>5 DEF TrackedWrite, UpdateScoreStats, EvaluateRiskBand
        <4>4. exits => ~band'[k]
          BY <2>4, <2>5 DEF TrackedWrite, UpdateScoreStats, EvaluateRiskBand
        <4>5. ~enters /\ ~exits => band'[k] = band[k]
          BY <2>4, <2>5 DEF TrackedWrite, UpdateScoreStats, EvaluateRiskBand
        <4>6. /\ s >= cfg.threshold => (enters \/ band[k]) /\ ~exits
              /\ s < Monus(cfg.threshold, cfg.margin) => (exits \/ ~band[k]) /\ ~enters
          BY <2>2, <4>1, <4>2
        <4> HIDE DEF enters, exits
        <4> QED
          BY <3>2, <4>1, <4>3, <4>4, <4>5, <4>6
      <3> QED
        BY <3>1, <3>2
    <2>6. ASSUME UNCHANGED band, score'[j] = score[j], origin'[j] = origin[j]  PROVE Goal
      BY <2>3, <2>6
    <2>7. ASSUME NEW k \in Keys, NEW s \in Score, UntrackedWrite(k, s)
          PROVE  Goal
      BY <2>4, <2>6, <2>7 DEF UntrackedWrite, StoreScore, NoteBypass, statVars
    <2>8. ASSUME NEW a \in Wallets, NEW p \in Pairs, NEW boost \in Nat,
                 propagate_contagion(a, p, boost)
          PROVE  Goal
      BY <1>2, <2>6, <2>8, ContagionStep DEF propagate_contagion, statVars
    <2>9. ASSUME NEW k \in Keys, clear_score(k) \/ clear_score_history(k)
                                  \/ override_score_floor(k) \/ reset_breach_count(k)
          PROVE  Goal
      BY <2>4, <2>6, <2>9 DEF clear_score, NoteErased, clear_score_history, override_score_floor,
           reset_breach_count, recordVars, pastVars
    <2>10. EffectiveThreshold = cfg.threshold
      BY <1>2 DEF FixedBand, EffectiveThreshold
    <2>11. UNCHANGED <<recordVars, statVars, pastVars>> => Goal
      BY <2>6 DEF recordVars, statVars, pastVars
    <2> HIDE DEF Goal
    <2>12. Goal
      BY <1>2, <2>5, <2>7, <2>8, <2>9, <2>10, <2>11, RecordStep
    <2> QED
      BY <2>12 DEF Goal
  <1>3. TypeOK /\ Inv /\ [Next]_vars => Inv'
    BY <1>2
  <1> QED
    BY <1>1, <1>3, TypeCorrect, PTL DEF Spec

-----------------------------------------------------------------------------
(* What a write leaves in a ring, and the score floor                      *)

\* t is the ring h after a write of s: its last entries, followed by s.
Pushed(h, s, t) ==
  \E off \in 0 .. Len(h) :
    /\ Len(t) = Len(h) + 1 - off
    /\ t[Len(t)] = s
    /\ \A i \in 1 .. Len(t) - 1 : i + off \in 1 .. Len(h) /\ t[i] = h[i + off]

\* Appending a score and evicting the oldest entries pushes it.
LEMMA TrimEntries ==
  ASSUME NEW h \in Seq(Score), NEW s \in Score, NEW d \in Nat \ {0}
  PROVE  Pushed(h, s, Trim(Append(h, s), d))
  <1> DEFINE a == Append(h, s)
             n == Len(a)
             t == Trim(a, d)
  <1>1. a \in Seq(Score) /\ n = Len(h) + 1 /\ Len(h) \in Nat /\ a[n] = s
        /\ \A i \in 1 .. Len(h) : a[i] = h[i]
    BY AppendProperties
  <1>2. CASE n > d
    <2>1. \A i \in n - d + 1 .. n : a[i] \in Score
      BY <1>1, <1>2
    <2>2. Len(t) = d /\ \A i \in 1 .. d : t[i] = a[n - d + 1 + i - 1]
      BY <1>1, <1>2, <2>1, SubSeqProperties DEF Trim
    <2>3. n - d \in 0 .. Len(h)
      BY <1>1, <1>2
    <2>4. t[d] = s
      BY <1>1, <2>2
    <2>5. \A i \in 1 .. d - 1 : i + (n - d) \in 1 .. Len(h) /\ t[i] = h[i + (n - d)]
      BY <1>1, <1>2, <2>2
    <2>6. Len(t) = Len(h) + 1 - (n - d)
      BY <1>1, <2>2
    <2> HIDE DEF t, n
    <2>7. Pushed(h, s, t)
      BY <2>2, <2>3, <2>4, <2>5, <2>6 DEF Pushed
    <2> QED
      BY <2>7 DEF t
  <1>3. CASE ~(n > d)
    <2>1. t = a
      BY <1>3 DEF Trim
    <2>2. 0 \in 0 .. Len(h) /\ Len(t) = Len(h) + 1 - 0 /\ t[Len(t)] = s
          /\ \A i \in 1 .. Len(t) - 1 : i + 0 \in 1 .. Len(h) /\ t[i] = h[i + 0]
      BY <1>1, <2>1
    <2> HIDE DEF t
    <2>3. Pushed(h, s, t)
      BY <2>2 DEF Pushed
    <2> QED
      BY <2>3 DEF t
  <1> QED
    BY <1>2, <1>3

\* What storing a score does to the rings.
LEMMA StorePushes ==
  ASSUME TypeOK, NEW k \in Keys, NEW s \in Score, StoreScore(k, s)
  PROVE  /\ Pushed(history[k], s, history'[k])
         /\ \A j \in Keys : j # k => history'[j] = history[j]
  <1>1. history[k] \in Seq(Score) /\ cfg.depth \in Nat \ {0}
    BY PolicyReads DEF TypeOK, RecordTypeOK
  <1>2. history'[k] = Trim(Append(history[k], s), cfg.depth)
    BY DEF StoreScore, TypeOK, RecordTypeOK
  <1>3. \A j \in Keys : j # k => history'[j] = history[j]
    BY DEF StoreScore, TypeOK, RecordTypeOK
  <1> QED
    BY <1>1, <1>2, <1>3, TrimEntries

\* Erasing a score does not erase what it was: no entry of a ring that only
\* submissions wrote is above the peak, so the floor still knows of it.
PeakCoversHistory ==
  \A k \in Keys \ bypassed : \A i \in 1 .. Len(history[k]) : history[k][i] <= Peak(k)

\* Where the floor policy stays and no peak is overridden, no ring that only
\* submit_score, submit_scores_batch and the consensus paths wrote shows a score
\* below the floor after one at the high-water mark, whatever was erased or boosted
\* in between.
THEOREM FloorKept ==
  ASSUME "floor" \notin AdminOps, "overrideFloor" \notin AdminOps
  PROVE  Spec => []FloorHoldsAlongHistory
  <1> DEFINE Inv == FloorHoldsAlongHistory /\ PeakCoversHistory
  <1>1. Init => Inv
    BY DEF Init, FloorHoldsAlongHistory, PeakCoversHistory
  <1>2. ASSUME TypeOK, Inv, [Next]_vars
        PROVE  Inv'
    <2>1. /\ cfg'.floorOn = cfg.floorOn
          /\ cfg'.highWater = cfg.highWater
          /\ cfg'.floor = cfg.floor
          /\ cfg.highWater \in Nat /\ cfg.floor \in Nat
      BY <1>2, SettingsKept DEF TypeOK, PolicyTypeOK, Config
    <2>2. ASSUME NEW k \in Keys, NEW s \in Score, NEW thr, TrackedWrite(k, s, thr)
          PROVE  Inv'
      <3>0. bypassed' = bypassed
        BY <2>2 DEF TrackedWrite, NoteSubmitted
      <3> DEFINE h == history[k]
                 t == history'[k]
      <3>1. h \in Seq(Score) /\ Len(h) \in Nat /\ Peak(k) \in Score
        BY <1>2, PolicyReads DEF TypeOK, RecordTypeOK
      <3>2. Pushed(h, s, t) /\ \A j \in Keys : j # k => history'[j] = history[j]
        BY <1>2, <2>2, StorePushes DEF TrackedWrite
      <3>3. PICK off \in 0 .. Len(h) :
              /\ Len(t) = Len(h) + 1 - off
              /\ t[Len(t)] = s
              /\ \A i \in 1 .. Len(t) - 1 : i + off \in 1 .. Len(h) /\ t[i] = h[i + off]
        BY <3>2 DEF Pushed
      <3>4. /\ Peak(k) \in Int /\ s \in Int /\ Peak(k)' \in Int
            /\ Peak(k)' >= Peak(k) /\ Peak(k)' >= s
        <4> DEFINE p == Peak(k)
                   q == IF peak'[k] = NULL THEN 0 ELSE peak'[k]
        <4>1. s # NULL /\ s \in Int /\ s >= 0
          BY ConfigAssumption DEF Score
        <4>2. peak'[k] = IF s > p THEN s ELSE peak[k]
          BY <1>2, <2>2 DEF TrackedWrite, UpdateScoreStats, UpdateHistoricalMax, TypeOK, StatTypeOK
        <4>3. p \in Int
          BY <3>1 DEF Score
        <4>4. p = IF peak[k] = NULL THEN 0 ELSE peak[k]
          BY DEF Peak
        <4>5. Peak(k)' = q
          BY DEF Peak
        <4> HIDE DEF p
        <4>6. q \in Int /\ q >= p /\ q >= s
          BY <4>1, <4>2, <4>3, <4>4
        <4> QED
          BY <4>1, <4>3, <4>5, <4>6 DEF p
      <3>5. \A i \in 1 .. Len(h) : (k \notin bypassed => h[i] <= Peak(k)) /\ h[i] \in Int
        <4>1. k \notin bypassed => \A i \in 1 .. Len(h) : h[i] <= Peak(k)
          BY <1>2 DEF PeakCoversHistory
        <4>2. \A i \in 1 .. Len(h) : h[i] \in Score
          BY <3>1, ElementOfSeq
        <4> QED
          BY <4>1, <4>2 DEF Score
      <3>6. \A j \in Keys : j # k => history'[j] = history[j] /\ Peak(j)' = Peak(j)
        BY <1>2, <2>2, <3>2 DEF TrackedWrite, UpdateScoreStats, UpdateHistoricalMax, Peak,
             TypeOK, StatTypeOK
      <3>7. k \notin bypassed => \A i \in 1 .. Len(t) : t[i] <= Peak(k)'
        <4> SUFFICES ASSUME k \notin bypassed, NEW i \in 1 .. Len(t) PROVE t[i] <= Peak(k)'
          OBVIOUS
        <4> HIDE DEF h, t
        <4>1. CASE i = Len(t)
          BY <3>3, <3>4, <4>1
        <4>2. CASE i # Len(t)
          <5>1. i \in 1 .. Len(t) - 1
            BY <3>1, <3>3, <4>2
          <5>2. t[i] = h[i + off] /\ i + off \in 1 .. Len(h)
            BY <3>3, <5>1
          <5> QED
            BY <3>4, <3>5, <5>2
        <4> QED
          BY <4>1, <4>2
      <3>8. ASSUME cfg.floorOn, k \notin bypassed, NEW i \in 1 .. Len(t), NEW j \in 1 .. Len(t), i < j,
                   t[i] >= cfg.highWater
            PROVE  t[j] >= cfg.floor
        <4> HIDE DEF h, t
        <4>1. i \in 1 .. Len(t) - 1 /\ Len(t) \in Nat
          BY <3>1, <3>3, <3>8
        <4>2. t[i] = h[i + off] /\ i + off \in 1 .. Len(h)
          BY <3>3, <4>1
        <4>3. CASE j = Len(t)
          <5>1. Peak(k) >= cfg.highWater
            BY <2>1, <3>4, <3>5, <3>8, <4>2
          <5>2. ~(s < cfg.floor)
            BY <2>2, <3>8, <5>1 DEF TrackedWrite, ScoreFloorBlocks
          <5> QED
            BY <2>1, <3>3, <3>4, <4>3, <5>2
        <4>4. CASE j # Len(t)
          <5>1. j \in 1 .. Len(t) - 1
            BY <4>1, <4>4
          <5>2. t[j] = h[j + off] /\ j + off \in 1 .. Len(h) /\ i + off < j + off
            BY <3>3, <3>8, <5>1
          <5> QED
            BY <1>2, <3>8, <4>2, <5>2 DEF FloorHoldsAlongHistory, h
        <4> QED
          BY <4>3, <4>4
      <3> HIDE DEF h
      <3>9. FloorHoldsAlongHistory'
        <4> SUFFICES ASSUME cfg.floorOn, NEW j \in Keys \ bypassed, NEW a \in 1 .. Len(history'[j]),
                            NEW b \in 1 .. Len(history'[j]), a < b,
                            history'[j][a] >= cfg.highWater
                     PROVE  history'[j][b] >= cfg.floor
          BY <2>1, <3>0 DEF FloorHoldsAlongHistory
        <4>1. CASE j = k
          BY <3>8, <4>1
        <4>2. CASE j # k
          BY <1>2, <3>6, <4>2 DEF FloorHoldsAlongHistory
        <4> QED
          BY <4>1, <4>2
      <3>10. PeakCoversHistory'
        <4> SUFFICES ASSUME NEW j \in Keys \ bypassed, NEW i \in 1 .. Len(history'[j])
                     PROVE  history'[j][i] <= Peak(j)'
          BY <3>0 DEF PeakCoversHistory
        <4> QED
          BY <1>2, <3>6, <3>7 DEF PeakCoversHistory
      <3> QED
        BY <3>9, <3>10
    <2>3. ASSUME bypassed \subseteq bypassed',
                 \A j \in Keys \ bypassed' : /\ history'[j] = history[j] \/ Len(history'[j]) = 0
                                             /\ peak'[j] = peak[j]
          PROVE  Inv'
      <3>1. \A j \in Keys \ bypassed' : Peak(j)' = Peak(j)
        BY <2>3 DEF Peak
      <3> QED
        BY <1>2, <2>1, <2>3, <3>1 DEF FloorHoldsAlongHistory, PeakCoversHistory
    <2>4. ASSUME NEW k \in Keys, NEW s \in Score, UntrackedWrite(k, s)
          PROVE  Inv'
      <3>1. bypassed' = bypassed \cup {k} /\ peak' = peak
        BY <2>4 DEF UntrackedWrite, NoteBypass, statVars
      <3>2. \A j \in Keys : j # k => history'[j] = history[j]
        BY <1>2, <2>4, StorePushes DEF UntrackedWrite
      <3> QED
        BY <2>3, <3>1, <3>2
    <2>5. ASSUME NEW k \in Keys, clear_score(k) \/ clear_score_history(k) \/ reset_breach_count(k)
          PROVE  Inv'
      <3>1. history \in [Keys -> Seq(Score)]
        BY <1>2 DEF TypeOK, RecordTypeOK
      <3>2. UNCHANGED <<peak, bypassed>> /\ history' \in {history, [history EXCEPT ![k] = <<>>]}
        BY <2>5 DEF clear_score, NoteErased, clear_score_history, reset_breach_count,
                    recordVars, pastVars
      <3>3. \A j \in Keys : history'[j] = history[j] \/ Len(history'[j]) = 0
        BY <3>1, <3>2
      <3> QED
        BY <2>3, <3>2, <3>3
    <2>6. ASSUME UNCHANGED <<history, peak, bypassed>>  PROVE Inv'
      BY <2>3, <2>6
    <2>7. (\E a \in Wallets, p \in Pairs, boost \in Nat : propagate_contagion(a, p, boost)) => Inv'
      BY <2>6 DEF propagate_contagion, statVars
    <2>8. UNCHANGED <<recordVars, statVars, pastVars>> => Inv'
      BY <2>6 DEF recordVars, statVars, pastVars
    <2>9. \A k \in Keys : ~override_score_floor(k)
      BY DEF override_score_floor
    <2> HIDE DEF Inv
    <2> QED
      BY <1>2, <2>2, <2>4, <2>5, <2>7, <2>8, <2>9, RecordStep
  <1>3. TypeOK /\ Inv /\ [Next]_vars => Inv'
    BY <1>2
  <1> QED
    BY <1>1, <1>3, TypeCorrect, PTL DEF Spec

-----------------------------------------------------------------------------
(* The breach counter                                                      *)

\* The ring h ends in a run of b scores at or above thr, or is one.
EndsInRun(h, b, thr) ==
  /\ \A i \in 1 .. Len(h) : Len(h) - i < b => h[i] >= thr
  /\ b < Len(h) => h[Len(h) - b] < thr

\* A counter that follows the rule of the code counts the run of the ring after a
\* write, whatever the write evicts.
LEMMA RunPushed ==
  ASSUME NEW h \in Seq(Score), NEW t \in Seq(Score), NEW s \in Score, NEW b \in Nat,
         NEW thr \in Nat, EndsInRun(h, b, thr), Pushed(h, s, t)
  PROVE  EndsInRun(t, IF s >= thr THEN b + 1 ELSE 0, thr)
  <1>1. PICK off \in 0 .. Len(h) :
          /\ Len(t) = Len(h) + 1 - off
          /\ t[Len(t)] = s
          /\ \A i \in 1 .. Len(t) - 1 : i + off \in 1 .. Len(h) /\ t[i] = h[i + off]
    BY DEF Pushed
  <1>2. Len(h) \in Nat /\ Len(t) \in Nat /\ s \in Int
    BY DEF Score
  <1>3. CASE s >= thr
    <2>1. ASSUME NEW i \in 1 .. Len(t), Len(t) - i < b + 1  PROVE t[i] >= thr
      <3>1. CASE i = Len(t)
        BY <1>1, <1>3, <3>1
      <3>2. CASE i # Len(t)
        <4>1. i \in 1 .. Len(t) - 1
          BY <1>2, <3>2
        <4>2. i + off \in 1 .. Len(h) /\ t[i] = h[i + off]
          BY <1>1, <4>1
        <4>3. Len(h) - (i + off) < b
          BY <1>1, <1>2, <2>1
        <4> QED
          BY <4>2, <4>3 DEF EndsInRun
      <3> QED
        BY <3>1, <3>2
    <2>2. ASSUME b + 1 < Len(t)  PROVE t[Len(t) - (b + 1)] < thr
      <3> DEFINE i == Len(t) - (b + 1)
      <3>1. i \in 1 .. Len(t) - 1
        BY <1>2, <2>2
      <3>2. t[i] = h[i + off]
        BY <1>1, <3>1
      <3>3. i + off = Len(h) - b /\ b < Len(h)
        BY <1>1, <1>2, <2>2
      <3> HIDE DEF i
      <3>4. t[i] < thr
        BY <3>2, <3>3 DEF EndsInRun
      <3> QED
        BY <3>4 DEF i
    <2> QED
      BY <1>3, <2>1, <2>2 DEF EndsInRun
  <1>4. CASE ~(s >= thr)
    <2>1. s < thr
      BY <1>2, <1>4
    <2>2. Len(t) - 0 = Len(t)
      BY <1>2
    <2>3. \A i \in 1 .. Len(t) : ~(Len(t) - i < 0)
      BY <1>2
    <2> QED
      BY <1>1, <1>4, <2>1, <2>2, <2>3 DEF EndsInRun
  <1> QED
    BY <1>3, <1>4

\* The length of such a run, as far as the ring remembers.
LEMMA RunLength ==
  ASSUME NEW h \in Seq(Score), NEW b \in Nat, cfg.threshold \in Nat,
         EndsInRun(h, b, cfg.threshold)
  PROVE  TrailingBreaches(h) = IF b <= Len(h) THEN b ELSE Len(h)
  <1> DEFINE thr == cfg.threshold
             n == Len(h)
             m == IF b <= n THEN b ELSE n
             R == {i \in 1 .. n : \A j \in i .. n : h[j] >= thr}
  <1>1. n \in Nat /\ m \in Nat /\ \A i \in 1 .. n : h[i] \in Int
    <2>1. \A i \in 1 .. n : h[i] \in Score
      BY ElementOfSeq
    <2> QED
      BY <2>1 DEF Score
  <1>2. ASSUME NEW i \in n - m + 1 .. n  PROVE i \in R
    <2>1. i \in 1 .. n
      BY <1>1, <1>2
    <2>2. \A j \in i .. n : j \in 1 .. n /\ n - j < b
      BY <1>1, <1>2, <2>1
    <2> QED
      BY <2>1, <2>2 DEF EndsInRun
  <1>3. ASSUME NEW i \in R  PROVE i \in n - m + 1 .. n
    <2>1. CASE b <= n
      <3> SUFFICES ASSUME ~(i >= n - b + 1)  PROVE FALSE
        BY <1>1, <1>3, <2>1
      <3>1. i \in 1 .. n /\ n - b \in i .. n /\ b < n
        BY <1>1, <1>3, <2>1
      <3>2. h[n - b] >= thr /\ h[n - b] < thr
        BY <1>3, <3>1 DEF EndsInRun
      <3>3. h[n - b] \in Int
        BY <1>1, <3>1
      <3> HIDE DEF n, thr
      <3>4. thr \in Int
        BY DEF thr
      <3> QED
        BY <3>2, <3>3, <3>4
    <2>2. CASE ~(b <= n)
      BY <1>1, <1>3, <2>2
    <2> QED
      BY <2>1, <2>2
  <1>4. R = n - m + 1 .. n
    BY <1>2, <1>3
  <1> HIDE DEF m, n, R
  <1>5. n - m + 1 \in Int /\ n \in Int
    BY <1>1
  <1>6. Cardinality(n - m + 1 .. n) = IF n - m + 1 > n THEN 0 ELSE n - (n - m + 1) + 1
    BY <1>5, FS_Interval
  <1>7. Cardinality(R) = m
    BY <1>1, <1>4, <1>6
  <1> QED
    BY <1>7 DEF m, n, R, TrailingBreaches

\* The counter of every pair is the run its ring ends in, as long as only
\* submissions wrote to it.
RunInv == \A k \in Keys \ bypassed : EndsInRun(history[k], breach[k], cfg.threshold)

\* The consecutive-breach counter is the run of breaching scores at the end of the
\* ring, as far as the ring remembers: eviction, erasure, boosts and a lowered depth
\* never part the two, only a write that skips the counter does.
THEOREM BreachesCounted ==
  ASSUME KeepsThreshold, "resetBreach" \notin AdminOps
  PROVE  Spec => []BreachIsTrailingRun
  <1> DEFINE Inv == RunInv /\ cfg.adaptiveOn = FALSE
  <1>1. Init => Inv
    BY DEF Init, RunInv, EndsInRun, KeepsThreshold
  <1>2. ASSUME TypeOK, Inv, [Next]_vars
        PROVE  Inv'
    <2>1. cfg'.adaptiveOn = FALSE /\ cfg'.threshold = cfg.threshold
      BY <1>2, SettingsKept DEF KeepsThreshold
    <2>2. cfg.threshold \in Nat /\ TypeOK'
      BY <1>2, TypeStep DEF TypeOK, PolicyTypeOK, Config
    <2>3. ASSUME NEW k \in Keys, NEW s \in Score, TrackedWrite(k, s, cfg.threshold)
          PROVE  RunInv'
      <3>1. breach' = [breach EXCEPT ![k] = IF s >= cfg.threshold THEN breach[k] + 1 ELSE 0]
        BY <2>3 DEF TrackedWrite, UpdateScoreStats, UpdateBreachCounter
      <3>2. Pushed(history[k], s, history'[k]) /\ \A j \in Keys : j # k => history'[j] = history[j]
        BY <1>2, <2>3, StorePushes DEF TrackedWrite
      <3>3. k \notin bypassed =>
              EndsInRun(history'[k], IF s >= cfg.threshold THEN breach[k] + 1 ELSE 0, cfg.threshold)
        <4>1. history[k] \in Seq(Score) /\ history'[k] \in Seq(Score) /\ breach[k] \in Nat
          BY <1>2, <2>2 DEF TypeOK, RecordTypeOK, StatTypeOK
        <4>2. k \notin bypassed => EndsInRun(history[k], breach[k], cfg.threshold)
          BY <1>2 DEF RunInv
        <4> QED
          BY <2>2, <3>2, <4>1, <4>2, RunPushed
      <3>4. breach \in [Keys -> Nat]
        BY <1>2 DEF TypeOK, StatTypeOK
      <3> SUFFICES ASSUME NEW j \in Keys \ bypassed
                   PROVE  EndsInRun(history'[j], breach'[j], cfg.threshold)
        BY <2>1, <2>3 DEF RunInv, EndsInRun, TrackedWrite, NoteSubmitted
      <3>5. CASE j = k
        BY <3>1, <3>3, <3>4, <3>5
      <3>6. CASE j # k
        BY <1>2, <3>1, <3>2, <3>4, <3>6 DEF RunInv
      <3> QED
        BY <3>5, <3>6
    <2>4. ASSUME bypassed \subseteq bypassed', UNCHANGED breach,
                 \A j \in Keys \ bypassed' : history'[j] = history[j] \/ history'[j] = <<>>
          PROVE  RunInv'
      <3>1. \A b \in Nat : EndsInRun(<<>>, b, cfg.threshold)
        BY DEF EndsInRun
      <3>2. breach \in [Keys -> Nat]
        BY <1>2 DEF TypeOK, StatTypeOK
      <3> SUFFICES ASSUME NEW j \in Keys \ bypassed'
                   PROVE  EndsInRun(history'[j], breach[j], cfg.threshold)
        BY <2>1, <2>4 DEF RunInv, EndsInRun
      <3>3. EndsInRun(history[j], breach[j], cfg.threshold)
        BY <1>2, <2>4 DEF RunInv
      <3> QED
        BY <2>4, <3>1, <3>2, <3>3
    <2>5. ASSUME NEW k \in Keys, NEW s \in Score, UntrackedWrite(k, s)
          PROVE  RunInv'
      <3>1. bypassed' = bypassed \cup {k} /\ breach' = breach
        BY <2>5 DEF UntrackedWrite, NoteBypass, statVars
      <3>2. \A j \in Keys : j # k => history'[j] = history[j]
        BY <1>2, <2>5, StorePushes DEF UntrackedWrite
      <3> QED
        BY <2>4, <3>1, <3>2
    <2>6. ASSUME NEW k \in Keys, clear_score(k) \/ clear_score_history(k) \/ override_score_floor(k)
          PROVE  RunInv'
      <3>1. history \in [Keys -> Seq(Score)]
        BY <1>2 DEF TypeOK, RecordTypeOK
      <3>2. UNCHANGED <<breach, bypassed>> /\ history' \in {history, [history EXCEPT ![k] = <<>>]}
        BY <2>6 DEF clear_score, NoteErased, clear_score_history, override_score_floor,
                    recordVars, pastVars
      <3> QED
        BY <2>4, <3>1, <3>2
    <2>7. ASSUME UNCHANGED <<history, breach, bypassed>>  PROVE RunInv'
      BY <2>4, <2>7
    <2>8. (\E a \in Wallets, p \in Pairs, boost \in Nat : propagate_contagion(a, p, boost))
          => RunInv'
      BY <2>7 DEF propagate_contagion, statVars
    <2>9. UNCHANGED <<recordVars, statVars, pastVars>> => RunInv'
      BY <2>7 DEF recordVars, statVars, pastVars
    <2>10. EffectiveThreshold = cfg.threshold
      BY <1>2 DEF EffectiveThreshold
    <2>11. \A k \in Keys : ~reset_breach_count(k)
      BY DEF reset_breach_count
    <2> QED
      BY <1>2, <2>1, <2>3, <2>5, <2>6, <2>8, <2>9, <2>10, <2>11, RecordStep
  <1>3. TypeOK /\ Inv /\ [Next]_vars => Inv'
    BY <1>2
  <1>4. ASSUME TypeOK, Inv  PROVE BreachIsTrailingRun
    <2> SUFFICES ASSUME NEW k \in Keys \ bypassed
                 PROVE  TrailingBreaches(history[k]) =
                          IF breach[k] <= Len(history[k]) THEN breach[k] ELSE Len(history[k])
      BY DEF BreachIsTrailingRun
    <2>1. history[k] \in Seq(Score) /\ breach[k] \in Nat /\ cfg.threshold \in Nat
      BY <1>4 DEF TypeOK, RecordTypeOK, StatTypeOK, PolicyTypeOK, Config
    <2> QED
      BY <1>4, <2>1, RunLength DEF RunInv
  <1> QED
    BY <1>1, <1>3, <1>4, TypeCorrect, PTL DEF Spec

-----------------------------------------------------------------------------
(* The activity counters                                                   *)

\* The pairs that ever took a write, and those of them whose score is erased.
Scored == {k \in Keys : scoreCount[k] > 0}
Gone == {k \in Scored : score[k] = NULL}

\* Each path tells a first write apart in its own way, by the live score or by
\* the submission counter.  A pair counted again is one whose score is erased, and
\* every such pair has an erasure of its own to show for it; a pair that is live
\* and never took a write got its score from contagion.
CountInv ==
  /\ IsFiniteSet(Scored)
  /\ Cardinality(Scored \ uncounted) <= totalScored
  /\ totalScored + Cardinality(Gone) <= Cardinality(Scored) + erasures
  /\ \A k \in Keys : score[k] # NULL /\ scoreCount[k] = 0 => k \in uncounted

\* Removing or adding one element, and subsets of finite sets: the counting the
\* counters need.
LEMMA CountOne ==
  ASSUME NEW S, NEW T, IsFiniteSet(T), S \subseteq T, NEW x
  PROVE  /\ IsFiniteSet(S) /\ Cardinality(S) \in Nat /\ Cardinality(S) <= Cardinality(T)
         /\ Cardinality(S \cup {x}) = IF x \in S THEN Cardinality(S) ELSE Cardinality(S) + 1
         /\ Cardinality(S \ {x}) = IF x \in S THEN Cardinality(S) - 1 ELSE Cardinality(S)
  <1>1. IsFiniteSet(S) /\ Cardinality(S) \in Nat /\ Cardinality(S) <= Cardinality(T)
    BY FS_Subset, FS_CardinalityType
  <1>2. Cardinality(S \cup {x}) = IF x \in S THEN Cardinality(S) ELSE Cardinality(S) + 1
    BY <1>1, FS_AddElement
  <1>3. Cardinality(S \ {x}) = IF x \in S THEN Cardinality(S) - 1 ELSE Cardinality(S)
    BY <1>1, FS_RemoveElement
  <1> QED
    BY <1>1, <1>2, <1>3

\* A write, counted or not, keeps the account.
LEMMA CountWrite ==
  ASSUME TypeOK, CountInv, NEW k \in Keys, NEW s \in Score, StoreScore(k, s),
         erasures' = erasures,
         \/ CountIfNew(score[k] = NULL) /\ UNCHANGED uncounted
         \/ CountIfNew(scoreCount[k] + 1 = 1) /\ UNCHANGED uncounted
         \/ /\ UNCHANGED totalScored
            /\ uncounted' = IF score[k] = NULL THEN uncounted \cup {k} ELSE uncounted
  PROVE  CountInv'
  <1>1. /\ score \in [Keys -> Score \cup {NULL}] /\ scoreCount \in [Keys -> Nat]
        /\ score' = [score EXCEPT ![k] = s]
        /\ scoreCount' = [scoreCount EXCEPT ![k] = scoreCount[k] + 1]
        /\ totalScored \in Nat /\ erasures \in Nat
    BY DEF TypeOK, RecordTypeOK, PastTypeOK, StoreScore
  <1>2. s # NULL
    BY ScoreIsInt
  <1>3. \A j \in Keys : score'[j] # NULL /\ scoreCount'[j] = 0 => j \in uncounted'
    BY <1>1 DEF CountInv
  <1>4. Scored' = Scored \cup {k} /\ Gone' = Gone \ {k}
    BY <1>1, <1>2 DEF Scored, Gone
  <1>5. k \in Scored <=> scoreCount[k] # 0
    BY <1>1 DEF Scored
  <1>6. k \in Gone <=> k \in Scored /\ score[k] = NULL
    BY DEF Gone
  <1>7. k \notin Scored /\ score[k] # NULL => k \in uncounted
    BY <1>5 DEF CountInv
  <1>8. (scoreCount[k] + 1 = 1) <=> k \notin Scored
    BY <1>1, <1>5
  <1> DEFINE W == Scored
             C == Scored \ uncounted
             G == Gone
             c == Cardinality(C)
             g == Cardinality(G)
             w == Cardinality(W)
  <1>9. /\ IsFiniteSet(W) /\ c <= totalScored /\ totalScored + g <= w + erasures
    BY DEF CountInv
  <1>10. /\ IsFiniteSet(W \cup {k}) /\ w \in Nat
         /\ Cardinality(W \cup {k}) = IF k \in W THEN w ELSE w + 1
    BY <1>9, FS_AddElement, FS_CardinalityType
  <1>11. /\ c \in Nat
         /\ Cardinality(C \cup {k}) = IF k \in C THEN c ELSE c + 1
         /\ Cardinality(C \ {k}) = IF k \in C THEN c - 1 ELSE c
    BY <1>9, CountOne
  <1>12. g \in Nat /\ Cardinality(G \ {k}) = IF k \in G THEN g - 1 ELSE g
    <2>1. G \subseteq W
      BY DEF Gone
    <2> QED
      BY <1>9, <2>1, CountOne
  <1>13. Scored' \ uncounted' = C \/ Scored' \ uncounted' = C \ {k}
         \/ (Scored' \ uncounted' = C \cup {k} /\ k \notin W /\ uncounted' = uncounted)
    BY <1>4, <1>7
  <1>14. CASE k \in W
    <2>1. Scored' \ uncounted' = C \/ Scored' \ uncounted' = C \ {k}
      BY <1>4, <1>14
    <2>2. \/ totalScored' = IF k \in G THEN totalScored + 1 ELSE totalScored
          \/ totalScored' = totalScored
      BY <1>6, <1>8, <1>14 DEF CountIfNew
    <2>6. Cardinality(Scored' \ uncounted') \in {c, c - 1}
      <3>1. CASE Scored' \ uncounted' = C
        BY <3>1
      <3>2. CASE Scored' \ uncounted' = C \ {k}
        <4> HIDE DEF C
        <4> QED
          BY <1>11, <3>2
      <3> QED
        BY <2>1, <3>1, <3>2
    <2> HIDE DEF W, C, G, c, g, w
    <2>3. Cardinality(Scored' \ uncounted') <= totalScored'
      BY <1>1, <1>9, <1>11, <2>2, <2>6
    <2>4. totalScored' + Cardinality(G \ {k}) <= w + erasures
      BY <1>1, <1>9, <1>10, <1>12, <2>2
    <2>5. Cardinality(Scored') = w /\ IsFiniteSet(Scored')
      BY <1>4, <1>10, <1>14 DEF W
    <2> QED
      BY <1>3, <1>4, <2>3, <2>4, <2>5 DEF CountInv, G
  <1>15. CASE k \notin W
    <2>1. k \notin G /\ k \notin C
      BY <1>6, <1>15
    <2>2. \/ totalScored' = totalScored + 1
          \/ totalScored' = totalScored /\ Scored' \ uncounted' \in {C, C \ {k}}
      <3>1. CASE score[k] = NULL
        BY <1>4, <1>8, <1>15, <3>1 DEF CountIfNew
      <3>2. CASE score[k] # NULL
        BY <1>4, <1>7, <1>8, <1>15, <3>2 DEF CountIfNew
      <3> QED
        BY <3>1, <3>2
    <2>6. \/ Cardinality(Scored' \ uncounted') = c
          \/ Cardinality(Scored' \ uncounted') = c + 1 /\ totalScored' = totalScored + 1
      <3>1. CASE Scored' \ uncounted' \in {C, C \ {k}}
        <4>1. C \ {k} = C
          BY <2>1
        <4> QED
          BY <3>1, <4>1
      <3>2. CASE Scored' \ uncounted' = C \cup {k} /\ totalScored' = totalScored + 1
        <4> HIDE DEF C
        <4> QED
          BY <1>11, <2>1, <3>2
      <3> QED
        BY <1>13, <2>2, <3>1, <3>2
    <2> HIDE DEF W, C, G, c, g, w
    <2>3. Cardinality(Scored' \ uncounted') <= totalScored'
      BY <1>1, <1>9, <1>11, <2>6, <2>2
    <2>4. totalScored' + Cardinality(G \ {k}) <= (w + 1) + erasures
      BY <1>1, <1>9, <1>10, <1>12, <2>1, <2>2
    <2>5. Cardinality(Scored') = w + 1 /\ IsFiniteSet(Scored')
      BY <1>4, <1>10, <1>15 DEF W
    <2> QED
      BY <1>3, <1>4, <2>3, <2>4, <2>5 DEF CountInv, G
  <1> QED
    BY <1>14, <1>15

\* A boost keeps the account: it writes nothing, and a score it makes up is noted.
LEMMA CountBoost ==
  ASSUME TypeOK, CountInv, NEW a \in Wallets, NEW p \in Pairs, NEW boost \in Nat,
         propagate_contagion(a, p, boost)
  PROVE  CountInv'
  <1>1. /\ scoreCount' = scoreCount /\ totalScored' = totalScored /\ erasures' = erasures
        /\ uncounted \subseteq uncounted'
        /\ \A k \in Keys : \/ score'[k] = score[k]
                           \/ score'[k] # NULL /\ (score[k] = NULL => k \in uncounted')
    <2> DEFINE hit == Affected(a, p, boost)
    <2>1. \A k \in Keys : BoostedScore(k, boost) # NULL
      BY BoostedType, ScoreIsInt DEF TypeOK
    <2>2. /\ scoreCount' = scoreCount /\ totalScored' = totalScored /\ erasures' = erasures
          /\ uncounted' = uncounted \cup {k \in hit : score[k] = NULL}
          /\ score' = [k \in Keys |-> IF k \in hit THEN BoostedScore(k, boost) ELSE score[k]]
      BY DEF propagate_contagion
    <2> HIDE DEF hit
    <2> QED
      BY <2>1, <2>2
  <1>2. /\ totalScored \in Nat /\ erasures \in Nat
    BY DEF TypeOK, RecordTypeOK, PastTypeOK
  <1>3. Scored' = Scored
    BY <1>1 DEF Scored
  <1>4. Gone' \subseteq Gone
    BY <1>1, <1>3 DEF Gone, Scored
  <1>5. /\ IsFiniteSet(Scored) /\ Cardinality(Scored \ uncounted) <= totalScored
        /\ totalScored + Cardinality(Gone) <= Cardinality(Scored) + erasures
    BY DEF CountInv
  <1>6. IsFiniteSet(Gone) /\ Cardinality(Gone') <= Cardinality(Gone)
        /\ Cardinality(Gone') \in Nat /\ Cardinality(Gone) \in Nat
    <2>1. Gone \subseteq Scored
      BY DEF Gone
    <2> QED
      BY <1>4, <1>5, <2>1, FS_Subset, FS_CardinalityType
  <1>7. Cardinality(Scored \ uncounted') <= Cardinality(Scored \ uncounted)
        /\ Cardinality(Scored \ uncounted') \in Nat /\ Cardinality(Scored \ uncounted) \in Nat
    <2>1. IsFiniteSet(Scored \ uncounted)
      BY <1>5, FS_Subset
    <2>2. Scored \ uncounted' \subseteq Scored \ uncounted
      BY <1>1
    <2> QED
      BY <2>1, <2>2, FS_Subset, FS_CardinalityType
  <1>8. Cardinality(Scored) \in Nat
    BY <1>5, FS_CardinalityType
  <1>9. \A k \in Keys : score'[k] # NULL /\ scoreCount'[k] = 0 => k \in uncounted'
    BY <1>1 DEF CountInv
  <1>10. Cardinality(Scored \ uncounted') <= totalScored
    BY <1>2, <1>5, <1>7
  <1>11. totalScored + Cardinality(Gone') <= Cardinality(Scored) + erasures
    BY <1>2, <1>5, <1>6, <1>8
  <1> QED
    BY <1>1, <1>3, <1>5, <1>9, <1>10, <1>11 DEF CountInv

\* An erasure keeps the account: the pair that may be counted again is noted.
LEMMA CountErased ==
  ASSUME TypeOK, CountInv, NEW k \in Keys, clear_score(k)
  PROVE  CountInv'
  <1>1. /\ scoreCount' = scoreCount /\ totalScored' = totalScored /\ uncounted' = uncounted
        /\ erasures' = (IF score[k] = NULL THEN erasures ELSE erasures + 1)
        /\ score' = [score EXCEPT ![k] = NULL]
        /\ score \in [Keys -> Score \cup {NULL}]
        /\ totalScored \in Nat /\ erasures \in Nat
    BY DEF clear_score, NoteErased, TypeOK, RecordTypeOK, PastTypeOK
  <1>2. Scored' = Scored
    BY <1>1 DEF Scored
  <1>3. IF score[k] # NULL /\ k \in Scored THEN Gone' = Gone \cup {k} ELSE Gone' = Gone
    BY <1>1, <1>2 DEF Gone, Scored
  <1>4. /\ IsFiniteSet(Scored) /\ Cardinality(Scored \ uncounted) <= totalScored
        /\ totalScored + Cardinality(Gone) <= Cardinality(Scored) + erasures
    BY DEF CountInv
  <1>5. Cardinality(Gone) \in Nat
        /\ Cardinality(Gone \cup {k}) \in {Cardinality(Gone), Cardinality(Gone) + 1}
    <2>1. Gone \subseteq Scored
      BY DEF Gone
    <2> QED
      BY <1>4, <2>1, CountOne
  <1>6. Cardinality(Scored) \in Nat
    BY <1>4, FS_CardinalityType
  <1>7. totalScored + Cardinality(Gone') <= Cardinality(Scored) + erasures'
    <2>1. CASE score[k] # NULL /\ k \in Scored
      BY <1>1, <1>3, <1>4, <1>5, <1>6, <2>1
    <2>2. CASE ~(score[k] # NULL /\ k \in Scored)
      BY <1>1, <1>3, <1>4, <1>5, <1>6, <2>2
    <2> QED
      BY <2>1, <2>2
  <1>8. \A j \in Keys : score'[j] # NULL /\ scoreCount'[j] = 0 => j \in uncounted'
    BY <1>1 DEF CountInv
  <1> QED
    BY <1>1, <1>2, <1>4, <1>7, <1>8 DEF CountInv

\* TotalWalletsScored counts every scored pair once, up to the erasures and the
\* pairs whose first score was not a submission, through all write paths and
\* whichever way each tells a first write apart.
THEOREM PairsCountedOnce == Spec => []TotalCountsEachPairOnce
  <1>1. Init => CountInv
    <2> SUFFICES ASSUME Init  PROVE CountInv
      OBVIOUS
    <2>1. Scored = {} /\ Gone = {} /\ Scored \ uncounted = {}
      BY DEF Init, Scored, Gone
    <2>2. Cardinality({}) = 0 /\ IsFiniteSet({})
      BY FS_EmptySet
    <2> QED
      BY <2>1, <2>2 DEF Init, CountInv
  <1>2. ASSUME TypeOK, CountInv, [Next]_vars  PROVE CountInv'
    <2>1. ASSUME NEW k \in Keys, NEW s \in Score, NEW thr, TrackedWrite(k, s, thr)
          PROVE  CountInv'
      BY <1>2, <2>1, CountWrite DEF TrackedWrite, NoteSubmitted
    <2>2. ASSUME NEW k \in Keys, NEW s \in Score, UntrackedWrite(k, s)
          PROVE  CountInv'
      BY <1>2, <2>2, CountWrite DEF UntrackedWrite
    <2>3. ASSUME UNCHANGED <<score, scoreCount, totalScored, uncounted, erasures>>
          PROVE  CountInv'
      BY <1>2, <2>3 DEF CountInv, Scored, Gone
    <2>4. ASSUME NEW k \in Keys, clear_score_history(k) \/ override_score_floor(k)
                                  \/ reset_breach_count(k)
          PROVE  CountInv'
      BY <2>3, <2>4 DEF clear_score_history, override_score_floor, reset_breach_count,
                        recordVars, pastVars
    <2>5. UNCHANGED <<recordVars, statVars, pastVars>> => CountInv'
      BY <2>3 DEF recordVars, pastVars
    <2> QED
      BY <1>2, <2>1, <2>2, <2>4, <2>5, CountBoost, CountErased, RecordStep
  <1>3. TypeOK /\ CountInv /\ [Next]_vars => CountInv'
    BY <1>2
  <1>4. TypeOK /\ CountInv => TotalCountsEachPairOnce
    <2> SUFFICES ASSUME TypeOK, CountInv  PROVE TotalCountsEachPairOnce
      OBVIOUS
    <2>1. Cardinality(Gone) \in Nat /\ Cardinality(Scored) \in Nat
      <3>1. Gone \subseteq Scored
        BY DEF Gone
      <3> QED
        BY <3>1, FS_Subset, FS_CardinalityType DEF CountInv
    <2>2. totalScored \in Nat /\ erasures \in Nat
      BY DEF TypeOK, RecordTypeOK, PastTypeOK
    <2>3. totalScored <= Cardinality(Scored) + erasures
      BY <2>1, <2>2 DEF CountInv
    <2> QED
      BY <2>3 DEF CountInv, TotalCountsEachPairOnce, Scored
  <1> QED
    BY <1>1, <1>3, <1>4, TypeCorrect, PTL DEF Spec

-----------------------------------------------------------------------------
(* The histogram                                                           *)

\* The live scores that belong into bucket b.
InBucket(b) == {k \in Live : Bucket(score[k]) = b}

\* Finitely many scores are live in a bucket that is exact, whatever the number of
\* wallets.
HistogramInv ==
  \A b \in Buckets \ skewed :
    IsFiniteSet(InBucket(b)) /\ histogram[b] = Cardinality(InBucket(b))

\* Taking the live score of k out of an exact bucket never meets the saturation at
\* zero: the bucket counts at least that score.
LEMMA HistogramErased ==
  ASSUME TypeOK, HistogramInv, NEW k \in Keys, NEW b \in Buckets \ skewed
  PROVE  LET h == IF score[k] = NULL THEN histogram ELSE HistogramOnClear(histogram, score[k])
         IN  /\ IsFiniteSet(InBucket(b) \ {k})
             /\ h[b] = Cardinality(InBucket(b) \ {k})
  <1> DEFINE h == IF score[k] = NULL THEN histogram ELSE HistogramOnClear(histogram, score[k])
             S == InBucket(b)
  <1>1. IsFiniteSet(S) /\ histogram[b] = Cardinality(S) /\ histogram \in [Buckets -> Nat]
    BY DEF HistogramInv, TypeOK, StatTypeOK
  <1>2. /\ IsFiniteSet(S \ {k})
        /\ Cardinality(S \ {k}) = IF k \in S THEN Cardinality(S) - 1 ELSE Cardinality(S)
    BY <1>1, FS_RemoveElement
  <1>3. Cardinality(S \ {k}) \in Nat /\ Cardinality(S) \in Nat
    BY <1>1, <1>2, FS_CardinalityType
  <1>4. k \in S <=> score[k] # NULL /\ Bucket(score[k]) = b
    BY DEF InBucket, Live
  <1>5. CASE k \in S
    <2>1. h[b] = Monus(histogram[b], 1)
      BY <1>1, <1>4, <1>5 DEF HistogramOnClear
    <2> HIDE DEF S, h
    <2>2. h[b] = Cardinality(S \ {k})
      BY <1>1, <1>2, <1>3, <1>5, <2>1 DEF Monus
    <2> QED
      BY <1>2, <2>2 DEF S, h
  <1>6. CASE k \notin S
    <2>1. h[b] = histogram[b]
      BY <1>1, <1>4, <1>6 DEF HistogramOnClear
    <2> HIDE DEF S, h
    <2>2. h[b] = Cardinality(S \ {k})
      BY <1>1, <1>2, <1>6, <2>1
    <2> QED
      BY <1>2, <2>2 DEF S, h
  <1> QED
    BY <1>5, <1>6

\* Every bucket of the histogram holds the number of live scores that fall into
\* it, through first writes, replacements and clear_score, until a writer that does
\* not maintain the histogram moves a score into or out of that bucket.
THEOREM HistogramExact == Spec => []HistogramMatchesLive
  <1>1. Init => HistogramInv
    <2> SUFFICES ASSUME Init, NEW b \in Buckets
                 PROVE  IsFiniteSet(InBucket(b)) /\ histogram[b] = Cardinality(InBucket(b))
      BY DEF HistogramInv
    <2>1. InBucket(b) = {}
      BY DEF Init, InBucket, Live
    <2> QED
      BY <2>1, FS_EmptySet DEF Init
  <1>2. ASSUME TypeOK, HistogramInv, [Next]_vars  PROVE HistogramInv'
    <2>0. /\ score \in [Keys -> Score \cup {NULL}] /\ histogram \in [Buckets -> Nat]
      BY <1>2 DEF TypeOK, RecordTypeOK, StatTypeOK
    <2>1. ASSUME NEW k \in Keys, NEW s \in Score, NEW thr, TrackedWrite(k, s, thr)
          PROVE  HistogramInv'
      <3> DEFINE h == IF score[k] = NULL THEN histogram ELSE HistogramOnClear(histogram, score[k])
      <3>0. skewed' = skewed
        BY <2>1 DEF TrackedWrite, NoteSubmitted
      <3>1. score' = [score EXCEPT ![k] = s] /\ s # NULL
        BY <2>1, ConfigAssumption DEF TrackedWrite, StoreScore, Score
      <3>2. h \in [Buckets -> Nat]
        BY <2>0, HistogramClearType
      <3>3. histogram' = [h EXCEPT ![Bucket(s)] = h[Bucket(s)] + 1]
        BY <2>1 DEF TrackedWrite, UpdateScoreStats, HistogramOnWrite
      <3>4. Bucket(s) \in Buckets
        BY BucketType
      <3> SUFFICES ASSUME NEW b \in Buckets \ skewed
                   PROVE  IsFiniteSet(InBucket(b)') /\ histogram'[b] = Cardinality(InBucket(b)')
        BY <3>0 DEF HistogramInv
      <3>5. IsFiniteSet(InBucket(b) \ {k}) /\ h[b] = Cardinality(InBucket(b) \ {k})
        BY <1>2, HistogramErased
      <3> HIDE DEF h
      <3>6. CASE Bucket(s) = b
        <4>1. InBucket(b)' = (InBucket(b) \ {k}) \cup {k}
          BY <2>0, <3>1, <3>6 DEF InBucket, Live
        <4>2. /\ IsFiniteSet((InBucket(b) \ {k}) \cup {k})
              /\ Cardinality((InBucket(b) \ {k}) \cup {k}) = Cardinality(InBucket(b) \ {k}) + 1
          BY <3>5, FS_AddElement
        <4>3. histogram'[b] = h[b] + 1
          BY <3>2, <3>3, <3>6
        <4> QED
          BY <3>5, <4>1, <4>2, <4>3
      <3>7. CASE Bucket(s) # b
        <4>1. InBucket(b)' = InBucket(b) \ {k}
          BY <2>0, <3>1, <3>7 DEF InBucket, Live
        <4>2. histogram'[b] = h[b]
          BY <3>2, <3>3, <3>4, <3>7
        <4> QED
          BY <3>5, <4>1, <4>2
      <3> QED
        BY <3>6, <3>7
    <2>2. ASSUME NEW k \in Keys, clear_score(k)  PROVE HistogramInv'
      <3> SUFFICES ASSUME NEW b \in Buckets \ skewed
                   PROVE  IsFiniteSet(InBucket(b)') /\ histogram'[b] = Cardinality(InBucket(b)')
        BY <2>2 DEF HistogramInv, clear_score, NoteErased
      <3>1. InBucket(b)' = InBucket(b) \ {k}
        BY <2>0, <2>2 DEF clear_score, InBucket, Live
      <3>2. histogram' = IF score[k] = NULL THEN histogram
                         ELSE HistogramOnClear(histogram, score[k])
        BY <2>2 DEF clear_score
      <3> QED
        BY <1>2, <3>1, <3>2, HistogramErased
    <2>3. ASSUME skewed \subseteq skewed',
                 \A b \in Buckets \ skewed' : InBucket(b)' = InBucket(b) /\ histogram'[b] = histogram[b]
          PROVE  HistogramInv'
      BY <1>2, <2>3 DEF HistogramInv
    <2>4. ASSUME skewed \subseteq skewed', UNCHANGED histogram,
                 \A j \in Keys : score'[j] = score[j] \/
                                 (score'[j] # NULL /\ Disturbed(j, score'[j]) \subseteq skewed')
          PROVE  HistogramInv'
      <3>1. ASSUME NEW b \in Buckets \ skewed', NEW j \in Keys
            PROVE  (score'[j] # NULL /\ Bucket(score'[j]) = b)
                   <=> (score[j] # NULL /\ Bucket(score[j]) = b)
        <4>1. CASE score'[j] = score[j]
          BY <4>1
        <4>2. CASE score'[j] # NULL /\ Disturbed(j, score'[j]) \subseteq skewed'
          <5>1. \A v \in {score[j], score'[j]} \ {NULL} : Bucket(v) \in skewed'
            BY <4>2 DEF Disturbed
          <5> QED
            BY <3>1, <5>1
        <4> QED
          BY <2>4, <4>1, <4>2
      <3>2. \A b \in Buckets \ skewed' : InBucket(b)' = InBucket(b)
        BY <3>1 DEF InBucket, Live
      <3> QED
        BY <2>3, <2>4, <3>2
    <2>5. ASSUME NEW k \in Keys, NEW s \in Score, UntrackedWrite(k, s)  PROVE HistogramInv'
      <3>1. /\ score' = [score EXCEPT ![k] = s] /\ histogram' = histogram
            /\ skewed' = skewed \cup Disturbed(k, s)
        BY <2>5 DEF UntrackedWrite, StoreScore, NoteBypass, statVars
      <3>2. score'[k] = s /\ s # NULL /\ \A j \in Keys : j # k => score'[j] = score[j]
        BY <2>0, <3>1, ScoreIsInt
      <3> QED
        BY <2>4, <3>1, <3>2
    <2>6. ASSUME NEW a \in Wallets, NEW p \in Pairs, NEW boost \in Nat,
                 propagate_contagion(a, p, boost)
          PROVE  HistogramInv'
      <3> DEFINE hit == Affected(a, p, boost)
      <3>1. /\ score' = [k \in Keys |-> IF k \in hit THEN BoostedScore(k, boost) ELSE score[k]]
            /\ skewed' = skewed \cup UNION {Disturbed(k, BoostedScore(k, boost)) : k \in hit}
            /\ histogram' = histogram
        BY <2>6 DEF propagate_contagion, statVars
      <3>2. \A k \in Keys : BoostedScore(k, boost) # NULL
        BY <1>2, BoostedType, ScoreIsInt DEF TypeOK
      <3>3. ASSUME NEW j \in Keys
            PROVE  score'[j] = score[j] \/
                   (score'[j] # NULL /\ Disturbed(j, score'[j]) \subseteq skewed')
        <4>1. CASE j \in hit
          <5>1. score'[j] = BoostedScore(j, boost)
            BY <3>1, <4>1
          <5> HIDE DEF hit
          <5>2. Disturbed(j, BoostedScore(j, boost)) \subseteq skewed'
            BY <3>1, <4>1, Zenon
          <5> QED
            BY <3>2, <5>1, <5>2
        <4>2. CASE j \notin hit
          BY <3>1, <4>2
        <4> QED
          BY <4>1, <4>2
      <3>4. skewed \subseteq skewed'
        BY <3>1
      <3> QED
        BY <2>4, <3>1, <3>3, <3>4
    <2>7. ASSUME NEW k \in Keys, clear_score_history(k)  PROVE HistogramInv'
      <3>1. /\ score' = score /\ skewed' = skewed \cup Disturbed(k, NULL)
            /\ histogram' = (IF score[k] = NULL THEN histogram
                             ELSE HistogramOnClear(histogram, score[k]))
        BY <2>7 DEF clear_score_history
      <3>2. score[k] # NULL => Bucket(score[k]) \in skewed'
        BY <3>1 DEF Disturbed
      <3>3. \A b \in Buckets \ skewed' : histogram'[b] = histogram[b]
        BY <2>0, <3>1, <3>2 DEF HistogramOnClear
      <3>4. \A b \in Buckets : InBucket(b)' = InBucket(b)
        BY <3>1 DEF InBucket, Live
      <3> QED
        BY <2>3, <3>1, <3>3, <3>4
    <2>8. ASSUME UNCHANGED <<score, histogram, skewed>>  PROVE HistogramInv'
      BY <1>2, <2>8 DEF HistogramInv, InBucket, Live
    <2>9. ASSUME NEW k \in Keys, override_score_floor(k) \/ reset_breach_count(k)
          PROVE  HistogramInv'
      BY <2>8, <2>9 DEF override_score_floor, reset_breach_count, recordVars, pastVars
    <2>10. UNCHANGED <<recordVars, statVars, pastVars>> => HistogramInv'
      BY <2>8 DEF recordVars, statVars, pastVars
    <2> QED
      BY <1>2, <2>1, <2>2, <2>5, <2>6, <2>7, <2>9, <2>10, RecordStep
  <1>3. TypeOK /\ HistogramInv /\ [Next]_vars => HistogramInv'
    BY <1>2
  <1>4. HistogramInv => HistogramMatchesLive
    BY DEF HistogramInv, HistogramMatchesLive, InBucket
  <1> QED
    BY <1>1, <1>3, <1>4, TypeCorrect, PTL DEF Spec
=============================================================================
