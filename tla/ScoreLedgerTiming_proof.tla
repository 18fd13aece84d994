---------------------- MODULE ScoreLedgerTiming_proof ----------------------
(***************************************************************************)
(* What ScoreLedger guarantees about time: submission stamps, token        *)
(* buckets and held scores, for every choice of wallets, pairs, policies   *)
(* and clock steps.                                                        *)
(***************************************************************************)
EXTENDS ScoreLedger_proof

\* Whole periods never add up to more than the time they are taken from.
LEMMA PeriodsFit ==
  ASSUME NEW x \in Nat, NEW c \in Nat \ {0}
  PROVE  (x \div c) * c <= x
  OBVIOUS

\* Charging a bucket moves its refill time by whole periods, never past the clock.
LEMMA RefillNotAhead ==
  ASSUME NEW b \in TokenBucket, NEW c \in Nat, NEW t \in Nat, NEW cd \in Nat,
         b.lastRefill <= t
  PROVE  TakeToken(b, c, t, cd).lastRefill <= t
  <1> DEFINE e == t - b.lastRefill
  <1>1. e \in Nat /\ Monus(t, b.lastRefill) = e /\ b.lastRefill \in Nat
    BY DEF Monus, TokenBucket
  <1>2. CASE cd = 0
    BY <1>1, <1>2 DEF TakeToken, Refills
  <1>3. CASE cd # 0
    <2>1. Refills(b, t, cd) = e \div cd
      BY <1>1, <1>3 DEF Refills
    <2>2. (e \div cd) * cd <= e /\ (e \div cd) * cd \in Nat
      BY <1>1, <1>3, PeriodsFit
    <2>3. TakeToken(b, c, t, cd).lastRefill = b.lastRefill + (e \div cd) * cd
      BY <2>1 DEF TakeToken
    <2> HIDE DEF e
    <2>4. t = b.lastRefill + e
      BY <1>1 DEF e
    <2> QED
      BY <1>1, <2>2, <2>3, <2>4
  <1> QED
    BY <1>2, <1>3

\* A submission on any path: the stamp, the bucket and the held score it leaves.
SubmitEffect(k) ==
  /\ now' = now
  /\ StampSubmission(k)
  /\ ~UsesTokenBucket => FlatCooldownOK(k)
  /\ \/ bucket' = bucket
     \/ bucket' = [bucket EXCEPT ![k] = TakeToken(CurrentBucket(k), cfg.capacity, now,
                                                  PairCooldown(k[2]))]
  /\ \/ pending' = pending
     \/ \E s \in Score :
          pending' = [pending EXCEPT ![k] = [score |-> s, commitAfter |-> now + cfg.buffer]]

\* What any step does to stamps, buckets and held scores.
LEMMA TimingStep ==
  ASSUME TypeOK, [Next]_vars
  PROVE  \/ \E k \in Keys : SubmitEffect(k)
         \/ \E k \in Keys : /\ lastSubmit' = [lastSubmit EXCEPT ![k] = 0]
                            /\ UNCHANGED <<now, bucket, pending>>
         \/ \E k \in Keys : /\ pending' = [pending EXCEPT ![k] = NULL]
                            /\ UNCHANGED <<now, lastSubmit, bucket>>
         \/ UNCHANGED <<lastSubmit, bucket, pending>> /\ now' >= now
  <1> USE DEF rateVars
  <1>0. now \in Nat
    BY DEF TypeOK, PolicyTypeOK
  <1>1. CASE SubmitNext
    <2> PICK k \in Keys, s \in ScoreInputs :
          \/ submit_score_live(k, s)
          \/ submit_score_held(k, s)
          \/ submit_scores_batch(k, s)
          \/ submit_scores_batch_attested(k, s)
          \/ submit_consensus_score(k, s)
      BY <1>1 DEF SubmitNext
    <2>1. s <= MAX_SCORE => s \in Score
      BY ArgsAssumption DEF Score, MAX_SCORE
    <2>2. SubmitEffect(k)
      BY <2>1 DEF submit_score_live, submit_score_held, submit_scores_batch,
                  submit_scores_batch_attested, submit_consensus_score,
                  WriteScoreWithRateLimit, RateAdmits, SubmitEffect
    <2> QED
      BY <2>2
  <1>2. CASE KeyNext
    BY <1>0, <1>2 DEF KeyNext, commit_pending_score, cancel_pending_score, clear_score,
         clear_score_history, override_rate_limit, override_score_velocity_cap,
         override_score_floor, reset_breach_count
  <1>3. CASE GateNext \/ ConfigNext
    BY <1>0, <1>3, GateFrame, ConfigFrame
  <1>4. CASE \E d \in TimeSteps : Tick(d)
    BY <1>0, <1>4, ClockAssumption DEF Tick
  <1>5. CASE UNCHANGED vars
    BY <1>0, <1>5 DEF vars
  <1>6. CASE LinkNext \/ DisputeNext
    BY <1>0, <1>6, CaseFrame
  <1> QED
    BY <1>1, <1>2, <1>3, <1>4, <1>5, <1>6 DEF Next

\* No stored stamp runs ahead of the ledger clock and no held score waits longer
\* than the longest buffer, whatever was submitted, overridden or reconfigured.
THEOREM StampsBounded == Spec => []StampsNeverAhead
  <1>1. Init => StampsNeverAhead
    BY ClockAssumption DEF Init, StampsNeverAhead
  <1>2. TypeOK /\ StampsNeverAhead /\ [Next]_vars => StampsNeverAhead'
    <2> SUFFICES ASSUME TypeOK, StampsNeverAhead, [Next]_vars PROVE StampsNeverAhead'
      OBVIOUS
    <2> USE DEF TypeOK, PolicyTypeOK, RateTypeOK, PendingTypeOK
    <2>1. now \in Nat /\ now' \in Nat /\ MAX_FINALITY_BUFFER_SECS \in Nat
      BY TypeStep DEF MAX_FINALITY_BUFFER_SECS
    <2>2. ASSUME NEW k \in Keys, SubmitEffect(k) PROVE StampsNeverAhead'
      <3> SUFFICES ASSUME NEW j \in Keys
                   PROVE  /\ lastSubmit'[j] <= now'
                          /\ bucket'[j] # NULL => bucket'[j].lastRefill <= now'
                          /\ pending'[j] # NULL =>
                               pending'[j].commitAfter <= now' + MAX_FINALITY_BUFFER_SECS
        BY DEF StampsNeverAhead
      <3>1. lastSubmit'[j] <= now'
        BY <2>1, <2>2 DEF SubmitEffect, StampSubmission, StampsNeverAhead
      <3>2. bucket'[j] # NULL => bucket'[j].lastRefill <= now'
        <4>1. CurrentBucket(k) \in TokenBucket /\ CurrentBucket(k).lastRefill <= now
          BY <2>1, PolicyReads DEF CurrentBucket, TokenBucket, StampsNeverAhead
        <4>2. TakeToken(CurrentBucket(k), cfg.capacity, now, PairCooldown(k[2])).lastRefill <= now
          BY <2>1, <4>1, RefillNotAhead, PolicyReads
        <4> QED
          BY <2>2, <4>2 DEF SubmitEffect, StampsNeverAhead
      <3>3. pending'[j] # NULL =>
              pending'[j].commitAfter <= now' + MAX_FINALITY_BUFFER_SECS
        <4>1. cfg.buffer \in 0 .. MAX_FINALITY_BUFFER_SECS
          BY DEF Config
        <4>2. now + cfg.buffer <= now + MAX_FINALITY_BUFFER_SECS
          BY <2>1, <4>1
        <4> QED
          BY <2>2, <4>2 DEF SubmitEffect, StampsNeverAhead
      <3> QED
        BY <3>1, <3>2, <3>3
    <2>3. ASSUME NEW k \in Keys, lastSubmit' = [lastSubmit EXCEPT ![k] = 0],
                 UNCHANGED <<now, bucket, pending>>
          PROVE  StampsNeverAhead'
      BY <2>1, <2>3 DEF StampsNeverAhead
    <2>4. ASSUME NEW k \in Keys, pending' = [pending EXCEPT ![k] = NULL],
                 UNCHANGED <<now, lastSubmit, bucket>>
          PROVE  StampsNeverAhead'
      BY <2>1, <2>4 DEF StampsNeverAhead
    <2>5. CASE UNCHANGED <<lastSubmit, bucket, pending>> /\ now' >= now
      <3> SUFFICES ASSUME NEW j \in Keys
                   PROVE  /\ lastSubmit[j] <= now'
                          /\ bucket[j] # NULL => bucket[j].lastRefill <= now'
                          /\ pending[j] # NULL =>
                               pending[j].commitAfter <= now' + MAX_FINALITY_BUFFER_SECS
        BY <2>5 DEF StampsNeverAhead
      <3> QED
        BY <2>1, <2>5 DEF StampsNeverAhead, TokenBucket, PendingScoreEntry
    <2> QED
      BY <2>2, <2>3, <2>4, <2>5, TimingStep
  <1> QED
    BY <1>1, <1>2, TypeCorrect, PTL DEF Spec

\* While the flat cooldown is in force two stamped submissions of a pair are at
\* least the cooldown apart, on every path and across held and live submissions.
THEOREM SubmissionsSpaced == Spec => CooldownSpacing
  <1> DEFINE A == \A k \in Keys :
                    ~UsesTokenBucket /\ lastSubmit[k] # 0
                    /\ lastSubmit'[k] \notin {0, lastSubmit[k]}
                    => lastSubmit'[k] >= lastSubmit[k] + PairCooldown(k[2])
  <1>1. TypeOK /\ [Next]_vars => [A]_vars
    <2> SUFFICES ASSUME TypeOK, [Next]_vars PROVE A
      OBVIOUS
    <2> USE DEF TypeOK, RateTypeOK
    <2>1. ASSUME NEW k \in Keys, SubmitEffect(k) PROVE A
      BY <2>1 DEF SubmitEffect, StampSubmission, FlatCooldownOK, CooldownElapsed
    <2>2. ASSUME NEW k \in Keys, lastSubmit' = [lastSubmit EXCEPT ![k] = 0] PROVE A
      BY <2>2
    <2>3. CASE lastSubmit' = lastSubmit
      BY <2>3
    <2> QED
      BY <2>1, <2>2, <2>3, TimingStep
  <1> QED
    BY <1>1, TypeCorrect, PTL DEF Spec, CooldownSpacing

-----------------------------------------------------------------------------
(* The finality buffer *)

\* A held score's window reaches at least a whole buffer past the stamp of the
\* pair's latest submission: the inductive strengthening of the window property.
HeldInv ==
  /\ cfg.buffer = Cfg0.buffer
  /\ \A k \in Keys : pending[k] # NULL =>
                       pending[k].commitAfter >= lastSubmit[k] + cfg.buffer

\* With submit_score as the only submission path and a buffer in force, a score
\* goes live only a whole buffer after the pair's latest submission, however often
\* the held score was replaced and whatever the admin overrode or cancelled; the
\* other ways a live score changes are the correction that closes a dispute and a
\* boost, which raises it without counting a write.
THEOREM WindowHonoured ==
  ASSUME Paths = {"submit"}, "buffer" \notin AdminOps, Cfg0.buffer # 0
  PROVE  Spec => FinalityWindowHonoured
  <1> DEFINE A == \A k \in Keys : score'[k] # score[k] /\ score'[k] # NULL
                    => \/ now >= lastSubmit[k] + cfg.buffer
                       \/ dispute[k] # NULL /\ dispute'[k] = NULL
                       \/ scoreCount'[k] = scoreCount[k] /\ score'[k] > CurrentScore(k)
  <1>1. Init => HeldInv
    BY DEF Init, HeldInv
  <1>2. ASSUME TypeOK, HeldInv, [Next]_vars
        PROVE  \/ \E k \in Keys, s \in ScoreInputs : submit_score_held(k, s)
               \/ KeyNext
               \/ LinkNext \/ DisputeNext
               \/ UNCHANGED <<score, pending, lastSubmit>>
    <2>1. CASE SubmitNext
      BY <1>2, <2>1 DEF SubmitNext, submit_score_live, submit_scores_batch, HeldInv,
                        submit_scores_batch_attested, submit_consensus_score
    <2>2. CASE GateNext \/ ConfigNext
      BY <1>2, <2>2, GateFrame, ConfigFrame DEF recordVars, rateVars
    <2>3. CASE (\E d \in TimeSteps : Tick(d)) \/ UNCHANGED vars
      BY <2>3 DEF Tick, vars, recordVars, rateVars
    <2> QED
      BY <1>2, <2>1, <2>2, <2>3 DEF Next
  <1>3. ASSUME TypeOK, HeldInv, [Next]_vars
        PROVE  HeldInv' /\ A
    <2> USE DEF TypeOK, RateTypeOK, PendingTypeOK, RecordTypeOK
    <2>1. cfg'.buffer = cfg.buffer
      BY <1>3, SettingsKept
    <2>2. now \in Nat /\ cfg.buffer \in Nat
      BY <1>3 DEF PolicyTypeOK, Config
    <2>3. ASSUME NEW k \in Keys, NEW s \in ScoreInputs, submit_score_held(k, s)
          PROVE  HeldInv' /\ A
      <3>1. score' = score
        BY <2>3 DEF submit_score_held, recordVars
      <3>2. HeldInv'
        <4> SUFFICES ASSUME NEW j \in Keys, pending'[j] # NULL
                     PROVE  pending'[j].commitAfter >= lastSubmit'[j] + cfg.buffer
          BY <1>3, <2>1 DEF HeldInv
        <4>1. CASE j = k
          BY <1>3, <2>2, <2>3, <4>1 DEF submit_score_held, StampSubmission
        <4>2. CASE j # k
          BY <1>3, <2>3, <4>2 DEF submit_score_held, StampSubmission, HeldInv
        <4> QED
          BY <4>1, <4>2
      <3> QED
        BY <3>1, <3>2
    <2>4. CASE KeyNext
      <3> PICK k \in Keys :
            \/ commit_pending_score(k)
            \/ cancel_pending_score(k)
            \/ clear_score(k)
            \/ clear_score_history(k)
            \/ override_rate_limit(k)
            \/ override_score_velocity_cap(k)
            \/ override_score_floor(k)
            \/ reset_breach_count(k)
        BY <2>4 DEF KeyNext
      <3>1. CASE commit_pending_score(k)
        <4>1. HeldInv'
          BY <1>3, <2>1, <3>1 DEF commit_pending_score, rateVars, HeldInv
        <4>2. now >= lastSubmit[k] + cfg.buffer
          BY <1>3, <2>2, <3>1 DEF commit_pending_score, HeldInv, PendingScoreEntry
        <4>3. \A j \in Keys : j # k => score'[j] = score[j]
          BY <1>3, <3>1 DEF commit_pending_score, StoreScore
        <4> QED
          BY <4>1, <4>2, <4>3
      <3>2. CASE override_rate_limit(k)
        <4>1. score' = score
          BY <3>2 DEF override_rate_limit, recordVars
        <4> SUFFICES ASSUME NEW j \in Keys, pending[j] # NULL
                     PROVE  pending[j].commitAfter >= lastSubmit'[j] + cfg.buffer
          BY <1>3, <2>1, <3>2, <4>1 DEF HeldInv, override_rate_limit
        <4>2. lastSubmit'[j] \in {0, lastSubmit[j]} /\ lastSubmit[j] \in Nat
              /\ pending[j].commitAfter \in Nat
          BY <1>3, <3>2 DEF override_rate_limit, PendingScoreEntry
        <4> QED
          BY <1>3, <2>2, <4>2 DEF HeldInv
      <3>3. CASE clear_score(k)
        BY <1>3, <2>1, <3>3 DEF clear_score, rateVars, HeldInv
      <3>4. CASE cancel_pending_score(k)
        BY <1>3, <2>1, <3>4 DEF cancel_pending_score, recordVars, rateVars, HeldInv
      <3>5. CASE \/ clear_score_history(k)
                 \/ override_score_velocity_cap(k)
                 \/ override_score_floor(k)
                 \/ reset_breach_count(k)
        BY <1>3, <2>1, <3>5 DEF clear_score_history, override_score_velocity_cap,
             override_score_floor, reset_breach_count, recordVars, rateVars, HeldInv
      <3> QED
        BY <3>1, <3>2, <3>3, <3>4, <3>5
    <2>5. CASE UNCHANGED <<score, pending, lastSubmit>>
      BY <1>3, <2>1, <2>5 DEF HeldInv
    <2>6. CASE LinkNext \/ DisputeNext
      <3>1. HeldInv'
        BY <1>3, <2>1, <2>6, CaseFrame DEF HeldInv, rateVars
      <3>2. ASSUME NEW a \in Wallets, NEW p \in Pairs, NEW boost \in Nat,
                   propagate_contagion(a, p, boost)
            PROVE  A
        <4>1. scoreCount' = scoreCount
          BY <3>2 DEF propagate_contagion
        <4> QED
          BY <1>3, <3>2, <4>1, ContagionStep
      <3>3. ASSUME NEW k \in Keys, NEW s, resolve_dispute_admin(k, s)  PROVE A
        <4>1. \A j \in Keys : j # k => score'[j] = score[j]
          BY <1>3, <3>3 DEF resolve_dispute_admin, StoreScore
        <4>2. dispute[k] # NULL /\ dispute'[k] = NULL
          BY <1>3, <3>3 DEF resolve_dispute_admin, CaseTypeOK
        <4> QED
          BY <4>1, <4>2
      <3>4. ASSUME score' = score  PROVE A
        BY <3>4
      <3>5. ASSUME LinkNext  PROVE A
        <4>1. ASSUME NEW a, NEW b, NEW p,
                     add_counterparty_link(a, b, p) \/ remove_counterparty_link(a, b, p)
              PROVE  score' = score
          BY <4>1 DEF add_counterparty_link, remove_counterparty_link, recordVars
        <4> HIDE DEF A
        <4> QED
          BY <3>2, <3>4, <3>5, <4>1, ArgsAssumption DEF LinkNext
      <3>6. ASSUME DisputeNext  PROVE A
        BY <3>3, <3>4, <3>6 DEF DisputeNext, open_score_dispute, resolve_dispute_timeout,
             recordVars
      <3> QED
        BY <2>6, <3>1, <3>5, <3>6
    <2> QED
      BY <1>2, <1>3, <2>3, <2>4, <2>5, <2>6
  <1>4. TypeOK /\ HeldInv /\ [Next]_vars => HeldInv' /\ [A]_vars
    BY <1>3
  <1> QED
    BY <1>1, <1>4, TypeCorrect, PTL DEF Spec, FinalityWindowHonoured

-----------------------------------------------------------------------------
(* The burst bound *)

\* Whole periods are counted in naturals.
LEMMA DivType ==
  ASSUME NEW x \in Nat, NEW c \in Nat \ {0}
  PROVE  x \div c \in Nat
  OBVIOUS

\* More time never holds fewer whole periods.
LEMMA DivMono ==
  ASSUME NEW x \in Nat, NEW y \in Nat, NEW c \in Nat \ {0}, x <= y
  PROVE  x \div c <= y \div c
  OBVIOUS

\* Every period added to a stretch of time is a whole one more.
LEMMA DivShift ==
  ASSUME NEW x \in Nat, NEW c \in Nat \ {0}, NEW r \in Nat
  PROVE  x \div c + r <= (x + r * c) \div c
  OBVIOUS

\* A deployment whose cooldowns and burst capacity stay as they were set; the
\* setters refuse a cooldown of 0 and the default is 3600.
KeepsRates ==
  /\ "cooldown" \notin AdminOps /\ "capacity" \notin AdminOps
  /\ Cfg0.cooldown # 0 /\ \A p \in Pairs : Cfg0.pairCooldown[p] # 0

\* The rates such a deployment keeps.
RatesFixed ==
  /\ now >= StartTime
  /\ cfg.capacity = Cfg0.capacity
  /\ cfg.cooldown # 0 /\ \A p \in Pairs : cfg.pairCooldown[p] # 0

\* They hold from the start ...
LEMMA RatesInit ==
  ASSUME KeepsRates, Init  PROVE RatesFixed
  BY ClockAssumption DEF Init, RatesFixed, KeepsRates

\* ... and no step changes a cooldown or turns the clock back.
LEMMA RatesStep ==
  ASSUME KeepsRates, TypeOK, RatesFixed, [Next]_vars
  PROVE  /\ RatesFixed'
         /\ now' >= now /\ StartTime \in Nat /\ now \in Nat /\ now' \in Nat
         /\ \A k \in Keys : /\ PairCooldown(k[2]) \in Nat \ {0}
                            /\ PairCooldown(k[2])' = PairCooldown(k[2])
  <1>1. /\ cfg'.cooldown = cfg.cooldown /\ cfg'.pairCooldown = cfg.pairCooldown
        /\ cfg'.capacity = cfg.capacity
    BY SettingsKept DEF KeepsRates
  <1>2. now \in Nat /\ now' \in Nat /\ StartTime \in Nat
    BY TypeStep, ClockAssumption DEF TypeOK, PolicyTypeOK
  <1>3. now' >= now
    BY <1>2, TimingStep DEF SubmitEffect
  <1>4. RatesFixed'
    BY <1>1, <1>2, <1>3 DEF RatesFixed
  <1>5. ASSUME NEW k \in Keys
        PROVE  /\ PairCooldown(k[2]) \in Nat \ {0}
               /\ PairCooldown(k[2])' = PairCooldown(k[2])
    <2>1. k[2] \in Pairs
      BY KeyParts
    <2>2. PairCooldown(k[2]) \in Nat
      BY PolicyReads DEF TypeOK
    <2>3. PairCooldown(k[2]) # 0
      BY <2>1 DEF PairCooldown, RatesFixed
    <2>4. PairCooldown(k[2])' = PairCooldown(k[2])
      BY <1>1 DEF PairCooldown
    <2> QED
      BY <2>2, <2>3, <2>4
  <1> QED
    BY <1>2, <1>3, <1>4, <1>5

\* Writes a pair was submitted, corrections aside.
Earned(k) == scoreCount[k] - corrections[k]

\* Those writes, and the one the pair takes when its held score commits.
Charged(k) == Earned(k) + (IF pending[k] = NULL THEN 0 ELSE 1)

\* Neither links, boosts nor disputes add to them: a correction counts on both sides.
LEMMA EarnedKept ==
  ASSUME TypeOK, LinkNext \/ DisputeNext
  PROVE  \A j \in Keys : Earned(j)' = Earned(j)
  <1> USE DEF TypeOK, RecordTypeOK, PastTypeOK, recordVars, pastVars
  <1>1. CASE LinkNext
    <2>1. ASSUME NEW a, NEW b, NEW p,
                 add_counterparty_link(a, b, p) \/ remove_counterparty_link(a, b, p)
          PROVE  UNCHANGED <<scoreCount, corrections>>
      BY <2>1 DEF add_counterparty_link, remove_counterparty_link
    <2>2. ASSUME NEW a, NEW p, NEW boost, propagate_contagion(a, p, boost)
          PROVE  UNCHANGED <<scoreCount, corrections>>
      BY <2>2 DEF propagate_contagion
    <2>3. UNCHANGED <<scoreCount, corrections>>
      BY <1>1, <2>1, <2>2 DEF LinkNext
    <2> QED
      BY <2>3 DEF Earned
  <1>2. ASSUME NEW k \in Keys, NEW s, resolve_dispute_admin(k, s)
        PROVE  \A j \in Keys : Earned(j)' = Earned(j)
    <2>1. /\ scoreCount' = [scoreCount EXCEPT ![k] = scoreCount[k] + 1]
          /\ corrections' = [corrections EXCEPT ![k] = corrections[k] + 1]
      BY <1>2 DEF resolve_dispute_admin, StoreScore
    <2> QED
      BY <2>1 DEF Earned
  <1>3. CASE DisputeNext
    BY <1>2, <1>3 DEF DisputeNext, open_score_dispute, resolve_dispute_timeout, Earned
  <1> QED
    BY <1>1, <1>3

\* What a step does to stamps and charges: at most one submission, stamped now.
LEMMA ChargeStep ==
  ASSUME TypeOK, [Next]_vars, "overrideRate" \notin AdminOps
  PROVE  \/ \E k \in Keys :
              /\ now' = now /\ StampSubmission(k) /\ (~UsesTokenBucket => FlatCooldownOK(k))
              /\ Charged(k)' <= Charged(k) + 1
              /\ \A j \in Keys : j # k => Charged(j)' = Charged(j)
         \/ /\ lastSubmit' = lastSubmit
            /\ \A j \in Keys : Charged(j)' <= Charged(j)
  <1> USE DEF TypeOK, RecordTypeOK, PendingTypeOK, PastTypeOK, Earned
  <1>1. ASSUME NEW k \in Keys, NEW s, StoreScore(k, s), pending' = pending,
               corrections' = corrections
        PROVE  Charged(k)' <= Charged(k) + 1 /\ \A j \in Keys : j # k => Charged(j)' = Charged(j)
    BY <1>1 DEF StoreScore, Charged
  <1>2. CASE SubmitNext
    <2> PICK k \in Keys, s \in ScoreInputs :
          \/ submit_score_live(k, s)
          \/ submit_score_held(k, s)
          \/ submit_scores_batch(k, s)
          \/ submit_scores_batch_attested(k, s)
          \/ submit_consensus_score(k, s)
      BY <1>2 DEF SubmitNext
    <2>1. CASE submit_score_held(k, s)
      <3>1. Charged(k)' <= Charged(k) + 1 /\ \A j \in Keys : j # k => Charged(j)' = Charged(j)
        BY <2>1 DEF submit_score_held, Charged, recordVars, pastVars
      <3> QED
        BY <2>1, <3>1 DEF submit_score_held
    <2>2. CASE ~submit_score_held(k, s)
      BY <1>1, <2>2 DEF submit_score_live, submit_scores_batch, submit_scores_batch_attested,
           submit_consensus_score, WriteScoreWithRateLimit, RateAdmits, NoteSubmitted
    <2> QED
      BY <2>1, <2>2
  <1>3. ASSUME NEW k \in Keys, commit_pending_score(k)
        PROVE  lastSubmit' = lastSubmit /\ \A j \in Keys : Charged(j)' <= Charged(j)
    BY <1>3 DEF commit_pending_score, StoreScore, rateVars, Charged
  <1>4. ASSUME NEW k \in Keys, cancel_pending_score(k)
        PROVE  lastSubmit' = lastSubmit /\ \A j \in Keys : Charged(j)' <= Charged(j)
    BY <1>4 DEF cancel_pending_score, recordVars, rateVars, pastVars, Charged
  <1>5. ASSUME UNCHANGED <<scoreCount, pending, corrections>>
        PROVE  \A j \in Keys : Charged(j)' <= Charged(j)
    BY <1>5 DEF Charged
  <1>6. CASE KeyNext
    BY <1>3, <1>4, <1>5, <1>6 DEF KeyNext, clear_score, clear_score_history,
         override_rate_limit, override_score_velocity_cap, override_score_floor,
         reset_breach_count, recordVars, rateVars, pastVars, NoteErased
  <1>7. CASE GateNext \/ ConfigNext
    BY <1>5, <1>7, GateFrame, ConfigFrame DEF recordVars, rateVars, pastVars
  <1>8. CASE (\E d \in TimeSteps : Tick(d)) \/ UNCHANGED vars
    BY <1>5, <1>8 DEF Tick, vars, recordVars, rateVars, pastVars
  <1>9. CASE LinkNext \/ DisputeNext
    <2>1. UNCHANGED <<lastSubmit, pending>>
      BY <1>9, CaseFrame DEF rateVars
    <2>2. \A j \in Keys : Earned(j)' = Earned(j)
      BY <1>9, EarnedKept
    <2> QED
      BY <2>1, <2>2 DEF Charged
  <1> QED
    BY <1>2, <1>6, <1>7, <1>8, <1>9 DEF Next

\* Under the flat cooldown a pair was charged at most once per whole cooldown up to
\* its latest stamp, and not at all before its first.
FlatInv ==
  \A k \in Keys :
    /\ lastSubmit[k] = 0 => Charged(k) <= 0
    /\ lastSubmit[k] # 0 =>
         /\ lastSubmit[k] >= StartTime
         /\ Charged(k) <= 1 + (lastSubmit[k] - StartTime) \div PairCooldown(k[2])

\* Without a token bucket a pair takes at most one write per elapsed cooldown on
\* top of its first and of the corrections the administrator made, whichever mix of
\* paths the writes came through and however submissions were held, replaced,
\* committed and cancelled.
THEOREM CooldownLimitsWrites ==
  ASSUME KeepsRates, Cfg0.capacity = 1, "overrideRate" \notin AdminOps
  PROVE  Spec => []BurstBound
  <1>1. ASSUME Init  PROVE FlatInv
    BY <1>1 DEF Init, FlatInv, Charged, Earned
  <1>2. ASSUME TypeOK, RatesFixed, FlatInv, [Next]_vars
        PROVE  FlatInv'
    <2>1. /\ StartTime \in Nat \ {0} /\ now \in Nat /\ now >= StartTime
          /\ \A k \in Keys : /\ PairCooldown(k[2]) \in Nat \ {0}
                             /\ PairCooldown(k[2])' = PairCooldown(k[2])
      BY <1>2, RatesStep, ClockAssumption DEF RatesFixed
    <2>2. \A k \in Keys : lastSubmit[k] \in Nat /\ Charged(k) \in Int /\ Charged(k)' \in Int
      BY <1>2, TypeStep DEF TypeOK, RateTypeOK, RecordTypeOK, PastTypeOK, Charged, Earned
    <2>3. ~UsesTokenBucket
      BY <1>2 DEF RatesFixed, UsesTokenBucket
    <2>4. ASSUME NEW k \in Keys, StampSubmission(k), FlatCooldownOK(k),
                 Charged(k)' <= Charged(k) + 1,
                 \A j \in Keys : j # k => Charged(j)' = Charged(j)
          PROVE  FlatInv'
      <3>1. lastSubmit' = [lastSubmit EXCEPT ![k] = now] /\ lastSubmit \in [Keys -> Nat]
        BY <1>2, <2>4 DEF StampSubmission, TypeOK, RateTypeOK
      <3> DEFINE cd == PairCooldown(k[2])
                 x == now - StartTime
      <3>2. Charged(k)' <= 1 + x \div cd
        <4>1. x \in Nat /\ cd \in Nat \ {0} /\ x \div cd \in Nat
          BY <2>1, DivType
        <4>2. CASE lastSubmit[k] = 0
          <5>1. Charged(k) <= 0
            BY <1>2, <4>2 DEF FlatInv
          <5> HIDE DEF x, cd
          <5> QED
            BY <2>2, <2>4, <4>1, <5>1
        <4>3. CASE lastSubmit[k] # 0
          <5> DEFINE y == lastSubmit[k] - StartTime
          <5>1. y \in Nat /\ Charged(k) <= 1 + y \div cd
            BY <1>2, <2>1, <2>2, <4>3 DEF FlatInv
          <5>2. now >= lastSubmit[k] + cd
            BY <2>4, <4>3 DEF FlatCooldownOK, CooldownElapsed
          <5>3. y + 1 * cd <= x /\ y + 1 * cd \in Nat
            BY <2>1, <2>2, <5>1, <5>2
          <5> HIDE DEF x, y, cd
          <5>4. y \div cd + 1 <= (y + 1 * cd) \div cd
            BY <4>1, <5>1, DivShift
          <5>5. (y + 1 * cd) \div cd <= x \div cd
            BY <4>1, <5>3, DivMono
          <5>6. y \div cd \in Nat /\ (y + 1 * cd) \div cd \in Nat
            BY <4>1, <5>1, <5>3, DivType
          <5> QED
            BY <2>2, <2>4, <4>1, <5>1, <5>4, <5>5, <5>6
        <4> QED
          BY <4>2, <4>3
      <3> SUFFICES ASSUME NEW j \in Keys
                   PROVE  /\ lastSubmit'[j] = 0 => Charged(j)' <= 0
                          /\ lastSubmit'[j] # 0 =>
                               /\ lastSubmit'[j] >= StartTime
                               /\ Charged(j)' <= 1 + (lastSubmit'[j] - StartTime)
                                                       \div PairCooldown(j[2])
        BY <2>1 DEF FlatInv
      <3>3. CASE j = k
        BY <2>1, <3>1, <3>2, <3>3
      <3>4. CASE j # k
        BY <1>2, <2>4, <3>1, <3>4 DEF FlatInv
      <3> QED
        BY <3>3, <3>4
    <2>5. ASSUME lastSubmit' = lastSubmit, \A j \in Keys : Charged(j)' <= Charged(j)
          PROVE  FlatInv'
      <3> SUFFICES ASSUME NEW j \in Keys
                   PROVE  /\ lastSubmit[j] = 0 => Charged(j)' <= 0
                          /\ lastSubmit[j] # 0 =>
                               /\ lastSubmit[j] >= StartTime
                               /\ Charged(j)' <= 1 + (lastSubmit[j] - StartTime)
                                                       \div PairCooldown(j[2])
        BY <2>1, <2>5 DEF FlatInv
      <3>1. CASE lastSubmit[j] = 0
        BY <1>2, <2>2, <2>5, <3>1 DEF FlatInv
      <3>2. CASE lastSubmit[j] # 0
        <4> DEFINE q == (lastSubmit[j] - StartTime) \div PairCooldown(j[2])
        <4>1. lastSubmit[j] >= StartTime /\ Charged(j) <= 1 + q
          BY <1>2, <3>2 DEF FlatInv
        <4>2. q \in Nat
          BY <2>1, <2>2, <4>1, DivType
        <4> HIDE DEF q
        <4>3. Charged(j)' <= 1 + q
          BY <2>2, <2>5, <4>1, <4>2
        <4> QED
          BY <3>2, <4>1, <4>3 DEF q
      <3> QED
        BY <3>1, <3>2
    <2> QED
      BY <1>2, <2>3, <2>4, <2>5, ChargeStep
  <1>3. ASSUME TypeOK, RatesFixed, StampsNeverAhead, FlatInv  PROVE BurstBound
    <2> SUFFICES ASSUME NEW k \in Keys
                 PROVE  scoreCount[k] <= cfg.capacity + (now - StartTime) \div PairCooldown(k[2])
                                         + corrections[k]
      BY DEF BurstBound
    <2> DEFINE cd == PairCooldown(k[2])
               x == now - StartTime
               y == lastSubmit[k] - StartTime
    <2>1. /\ scoreCount[k] \in Nat /\ corrections[k] \in Nat
          /\ scoreCount[k] <= Charged(k) + corrections[k] /\ Charged(k) \in Int
          /\ cfg.capacity = 1 /\ lastSubmit[k] \in Nat /\ lastSubmit[k] <= now
      BY <1>3 DEF TypeOK, RecordTypeOK, RateTypeOK, PastTypeOK, Charged, Earned, RatesFixed,
                  StampsNeverAhead
    <2>2. x \in Nat /\ cd \in Nat /\ StartTime \in Nat /\ now \in Nat
      BY <1>3, ClockAssumption, PolicyReads DEF RatesFixed, TypeOK, PolicyTypeOK
    <2>3. cd # 0
      BY <1>3, KeyParts DEF RatesFixed, PairCooldown
    <2>4. x \div cd \in Nat
      BY <2>2, <2>3, DivType
    <2>5. CASE lastSubmit[k] = 0
      <3>1. Charged(k) <= 0
        BY <1>3, <2>5 DEF FlatInv
      <3> HIDE DEF x, cd
      <3>2. scoreCount[k] <= cfg.capacity + x \div cd + corrections[k]
        BY <2>1, <2>4, <3>1
      <3> QED
        BY <3>2 DEF x, cd
    <2>6. CASE lastSubmit[k] # 0
      <3>1. y \in Nat /\ Charged(k) <= 1 + y \div cd /\ y <= x
        BY <1>3, <2>1, <2>2, <2>6 DEF FlatInv
      <3> HIDE DEF x, y, cd
      <3>2. y \div cd <= x \div cd /\ y \div cd \in Nat
        BY <2>2, <2>3, <3>1, DivMono, DivType
      <3>3. scoreCount[k] <= cfg.capacity + x \div cd + corrections[k]
        BY <2>1, <2>4, <3>1, <3>2
      <3> QED
        BY <3>3 DEF x, cd
    <2> QED
      BY <2>5, <2>6
  <1>4. Init => RatesFixed /\ FlatInv
    BY <1>1, RatesInit
  <1>5. TypeOK /\ RatesFixed /\ FlatInv /\ [Next]_vars => (RatesFixed /\ FlatInv)'
    BY <1>2, RatesStep
  <1>6. TypeOK /\ RatesFixed /\ StampsNeverAhead /\ FlatInv => BurstBound
    BY <1>3
  <1> QED
    BY <1>4, <1>5, <1>6, StampsBounded, TypeCorrect, PTL DEF Spec

\* A deployment in which no submission is ever held back.
HoldsNothing == "submit" \notin Paths \/ (Cfg0.buffer = 0 /\ "buffer" \notin AdminOps)

\* The state such a deployment stays in: nothing to commit, now or later.
NothingHeld ==
  /\ \A k \in Keys : pending[k] = NULL
  /\ "submit" \in Paths => cfg.buffer = 0

\* No step of such a deployment holds a submission back.
LEMMA NothingHeldStep ==
  ASSUME HoldsNothing, TypeOK, NothingHeld, [Next]_vars
  PROVE  NothingHeld'
  <1>1. "submit" \in Paths => cfg'.buffer = 0
    BY SettingsKept DEF HoldsNothing, NothingHeld
  <1>2. pending' = pending
    <2>1. CASE SubmitNext
      BY <2>1 DEF SubmitNext, NothingHeld, submit_score_live, submit_score_held,
           submit_scores_batch, submit_scores_batch_attested, submit_consensus_score
    <2>2. CASE KeyNext
      BY <2>2 DEF KeyNext, NothingHeld, commit_pending_score, cancel_pending_score,
           clear_score, clear_score_history, override_rate_limit,
           override_score_velocity_cap, override_score_floor, reset_breach_count
    <2>3. CASE GateNext \/ ConfigNext
      BY <2>3, GateFrame, ConfigFrame
    <2>4. CASE (\E d \in TimeSteps : Tick(d)) \/ UNCHANGED vars
      BY <2>4 DEF Tick, vars
    <2>5. CASE LinkNext \/ DisputeNext
      BY <2>5, CaseFrame
    <2> QED
      BY <2>1, <2>2, <2>3, <2>4, <2>5 DEF Next
  <1> QED
    BY <1>1, <1>2 DEF NothingHeld

\* Such a deployment has nothing to commit.
LEMMA NeverHeld ==
  ASSUME HoldsNothing
  PROVE  Spec => []NothingHeld
  <1>1. Init => NothingHeld
    BY DEF Init, NothingHeld, HoldsNothing
  <1>2. TypeOK /\ NothingHeld /\ [Next]_vars => NothingHeld'
    BY NothingHeldStep
  <1> QED
    BY <1>1, <1>2, TypeCorrect, PTL DEF Spec

\* A write through write_score_with_rate_limit under a token bucket.
BucketWrite(k) ==
  /\ now' = now /\ RateAdmits(k) /\ corrections' = corrections
  /\ scoreCount' = [scoreCount EXCEPT ![k] = scoreCount[k] + 1]
  /\ bucket' = [bucket EXCEPT ![k] = TakeToken(CurrentBucket(k), cfg.capacity, now,
                                               PairCooldown(k[2]))]

\* What a step does to buckets and counters where submit_score and the consensus
\* paths are the only ones.
LEMMA BucketStep ==
  ASSUME TypeOK, NothingHeld, UsesTokenBucket, Paths \subseteq {"submit", "consensus"},
         [Next]_vars
  PROVE  \/ \E k \in Keys : BucketWrite(k)
         \/ bucket' = bucket /\ \A j \in Keys : Earned(j)' = Earned(j)
  <1> USE DEF recordVars, rateVars, pastVars
  <1>5. CASE UNCHANGED <<scoreCount, corrections, bucket>>
    BY <1>5 DEF Earned
  <1>1. CASE SubmitNext
    BY <1>1 DEF SubmitNext, submit_score_live, submit_score_held, submit_scores_batch,
         submit_scores_batch_attested, submit_consensus_score, NothingHeld,
         WriteScoreWithRateLimit, StoreScore, BucketWrite, NoteSubmitted
  <1>2. CASE KeyNext
    BY <1>2, <1>5 DEF KeyNext, NothingHeld, commit_pending_score, cancel_pending_score,
         clear_score, clear_score_history, override_rate_limit, override_score_velocity_cap,
         override_score_floor, reset_breach_count, NoteErased
  <1>3. CASE GateNext \/ ConfigNext
    BY <1>3, <1>5, GateFrame, ConfigFrame
  <1>4. CASE (\E d \in TimeSteps : Tick(d)) \/ UNCHANGED vars
    BY <1>4, <1>5 DEF Tick, vars
  <1>6. CASE LinkNext \/ DisputeNext
    BY <1>6, CaseFrame, EarnedKept
  <1> QED
    BY <1>1, <1>2, <1>3, <1>4, <1>6 DEF Next

\* Writes and unspent tokens together: the capacity, and what whole periods up to
\* the refill time have granted.
Funded(count, b, c, cd) ==
  /\ b.lastRefill >= StartTime
  /\ count + b.tokens <= c + (b.lastRefill - StartTime) \div cd

\* Charging a submission to a bucket keeps the account.
LEMMA TakeTokenFunded ==
  ASSUME NEW b \in TokenBucket, NEW c \in Nat, NEW t \in Nat, NEW cd \in Nat \ {0},
         NEW n \in Int, b.lastRefill <= t, Funded(n, b, c, cd)
  PROVE  Funded(n + 1, TakeToken(b, c, t, cd), c, cd)
  <1> DEFINE x == b.lastRefill - StartTime
             r == (t - b.lastRefill) \div cd
  <1>1. /\ b.tokens \in Nat /\ b.lastRefill \in Nat /\ StartTime \in Nat /\ x \in Nat
        /\ t - b.lastRefill \in Nat
    BY ClockAssumption DEF Funded, TokenBucket
  <1>2. r \in Nat /\ r * cd \in Nat /\ x \div cd \in Nat
    BY <1>1, DivType
  <1>3. Refills(b, t, cd) = r
    BY <1>1 DEF Refills, Monus
  <1> DEFINE b2 == TakeToken(b, c, t, cd)
             f == IF b.tokens + r <= c THEN b.tokens + r ELSE c
  <1>4. b2.tokens = f - 1 /\ b2.lastRefill = b.lastRefill + r * cd
    BY <1>3 DEF TakeToken, Refilled
  <1>5. n + b.tokens <= c + x \div cd
    BY DEF Funded
  <1> HIDE DEF r, x, b2
  <1>6. x \div cd + r <= (x + r * cd) \div cd /\ (x + r * cd) \div cd \in Nat
    <2>1. x + r * cd \in Nat
      BY <1>1, <1>2
    <2>2. x \div cd + r <= (x + r * cd) \div cd
      BY <1>1, <1>2, DivShift
    <2>3. (x + r * cd) \div cd \in Nat
      BY <2>1, DivType
    <2> QED
      BY <2>2, <2>3
  <1>7. f \in Nat /\ f <= b.tokens + r
    BY <1>1, <1>2
  <1> HIDE DEF f
  <1>8. n + 1 + (f - 1) <= c + (x + r * cd) \div cd
    BY <1>1, <1>2, <1>5, <1>6, <1>7
  <1>9. b2.lastRefill - StartTime = x + r * cd /\ b2.lastRefill >= StartTime
    BY <1>1, <1>2, <1>4 DEF x
  <1>10. Funded(n + 1, b2, c, cd)
    BY <1>4, <1>8, <1>9 DEF Funded
  <1> QED
    BY <1>10 DEF b2

\* The account of every pair; a pair without a bucket has taken no write.
BucketInv ==
  \A k \in Keys :
    IF bucket[k] = NULL THEN Earned(k) = 0
    ELSE Funded(Earned(k), bucket[k], cfg.capacity, PairCooldown(k[2]))

\* With a token bucket a pair takes at most the burst capacity and one write per
\* elapsed cooldown through submit_score and the consensus paths together, on top of
\* the administrator's corrections, whatever is boosted, overridden or erased: lazy
\* refilling never credits a period twice.
THEOREM BucketLimitsWrites ==
  ASSUME KeepsRates, Cfg0.capacity > 1, HoldsNothing, Paths \subseteq {"submit", "consensus"}
  PROVE  Spec => []BurstBound
  <1>1. Init => BucketInv
    BY DEF Init, BucketInv, Earned
  <1>2. ASSUME TypeOK, NothingHeld, RatesFixed, StampsNeverAhead, BucketInv, [Next]_vars
        PROVE  BucketInv'
    <2>1. /\ StartTime \in Nat \ {0} /\ now \in Nat /\ now >= StartTime
          /\ \A k \in Keys : /\ PairCooldown(k[2]) \in Nat \ {0}
                             /\ PairCooldown(k[2])' = PairCooldown(k[2])
          /\ cfg'.capacity = cfg.capacity
      BY <1>2, RatesStep, ClockAssumption DEF RatesFixed
    <2>2. UsesTokenBucket /\ cfg.capacity \in Nat
      BY <1>2 DEF RatesFixed, UsesTokenBucket, TypeOK, PolicyTypeOK, Config
    <2>3. ASSUME NEW k \in Keys, BucketWrite(k)  PROVE BucketInv'
      <3> DEFINE b == CurrentBucket(k)
                 cd == PairCooldown(k[2])
                 b2 == TakeToken(b, cfg.capacity, now, cd)
                 n == Earned(k)
      <3>1. /\ bucket \in [Keys -> TokenBucket \cup {NULL}]
            /\ scoreCount \in [Keys -> Nat] /\ corrections \in [Keys -> Nat]
            /\ n \in Int
        BY <1>2 DEF TypeOK, RateTypeOK, RecordTypeOK, PastTypeOK, Earned
      <3>2. b \in TokenBucket /\ b.lastRefill <= now
        BY <1>2, <2>1, <2>2, <3>1 DEF CurrentBucket, TokenBucket, StampsNeverAhead
      <3>3. Funded(n, b, cfg.capacity, cd)
        <4>1. CASE bucket[k] = NULL
          <5>1. n = 0 /\ b.tokens = cfg.capacity /\ b.lastRefill = now
            BY <1>2, <4>1 DEF BucketInv, CurrentBucket
          <5>2. now - StartTime \in Nat /\ (now - StartTime) \div cd \in Nat
            BY <2>1, DivType
          <5> HIDE DEF b, cd, n
          <5> QED
            BY <2>1, <2>2, <5>1, <5>2 DEF Funded
        <4>2. CASE bucket[k] # NULL
          BY <1>2, <4>2 DEF BucketInv, CurrentBucket
        <4> QED
          BY <4>1, <4>2
      <3>4. Funded(n + 1, b2, cfg.capacity, cd)
        BY <2>1, <2>2, <3>1, <3>2, <3>3, TakeTokenFunded
      <3>5. /\ bucket' = [bucket EXCEPT ![k] = b2]
            /\ Earned(k)' = n + 1 /\ \A j \in Keys : j # k => Earned(j)' = Earned(j)
        BY <2>3, <3>1 DEF BucketWrite, Earned
      <3>6. b2 # NULL
        <4>1. Refilled(b, cfg.capacity, now, cd) # 0
          BY <2>2, <2>3 DEF BucketWrite, RateAdmits
        <4>2. b2 \in TokenBucket
          BY <2>1, <2>2, <3>2, <4>1, TakeTokenType
        <4> QED
          BY <4>2, ConfigAssumption
      <3> SUFFICES ASSUME NEW j \in Keys
                   PROVE  IF bucket'[j] = NULL THEN Earned(j)' = 0
                          ELSE Funded(Earned(j)', bucket'[j], cfg.capacity, PairCooldown(j[2]))
        BY <2>1 DEF BucketInv
      <3> HIDE DEF b2
      <3>7. CASE j = k
        BY <3>1, <3>4, <3>5, <3>6, <3>7
      <3>8. CASE j # k
        BY <1>2, <3>1, <3>5, <3>8 DEF BucketInv
      <3> QED
        BY <3>7, <3>8
    <2>4. ASSUME bucket' = bucket, \A j \in Keys : Earned(j)' = Earned(j)  PROVE BucketInv'
      BY <1>2, <2>1, <2>4 DEF BucketInv
    <2> QED
      BY <1>2, <2>2, <2>3, <2>4, BucketStep
  <1>3. ASSUME TypeOK, RatesFixed, StampsNeverAhead, BucketInv  PROVE BurstBound
    <2> SUFFICES ASSUME NEW k \in Keys
                 PROVE  scoreCount[k] <= cfg.capacity + (now - StartTime) \div PairCooldown(k[2])
                                         + corrections[k]
      BY DEF BurstBound
    <2> DEFINE cd == PairCooldown(k[2])
               x == now - StartTime
               y == bucket[k].lastRefill - StartTime
    <2>1. /\ scoreCount[k] \in Nat /\ corrections[k] \in Nat /\ Earned(k) \in Int
          /\ scoreCount[k] = Earned(k) + corrections[k]
          /\ cfg.capacity \in Nat /\ bucket[k] \in TokenBucket \cup {NULL}
      BY <1>3, PolicyReads DEF TypeOK, RecordTypeOK, RateTypeOK, PastTypeOK, Earned
    <2>2. x \in Nat /\ cd \in Nat /\ StartTime \in Nat /\ now \in Nat
      BY <1>3, ClockAssumption, PolicyReads DEF RatesFixed, TypeOK, PolicyTypeOK
    <2>3. cd # 0
      BY <1>3, KeyParts DEF RatesFixed, PairCooldown
    <2>4. x \div cd \in Nat
      BY <2>2, <2>3, DivType
    <2>5. CASE bucket[k] = NULL
      <3>1. Earned(k) = 0
        BY <1>3, <2>5 DEF BucketInv
      <3> HIDE DEF x, cd
      <3>2. scoreCount[k] <= cfg.capacity + x \div cd + corrections[k]
        BY <2>1, <2>4, <3>1
      <3> QED
        BY <3>2 DEF x, cd
    <2>6. CASE bucket[k] # NULL
      <3>1. /\ bucket[k].tokens \in Nat /\ bucket[k].lastRefill \in Nat
            /\ bucket[k].lastRefill <= now
        BY <1>3, <2>1, <2>6 DEF TokenBucket, StampsNeverAhead
      <3>2. Funded(Earned(k), bucket[k], cfg.capacity, cd)
        BY <1>3, <2>6 DEF BucketInv
      <3>3. y \in Nat /\ Earned(k) + bucket[k].tokens <= cfg.capacity + y \div cd /\ y <= x
        BY <2>2, <3>1, <3>2 DEF Funded
      <3> HIDE DEF x, y, cd
      <3>4. y \div cd <= x \div cd /\ y \div cd \in Nat
        BY <2>2, <2>3, <3>3, DivMono, DivType
      <3>5. scoreCount[k] <= cfg.capacity + x \div cd + corrections[k]
        BY <2>1, <2>4, <3>1, <3>3, <3>4
      <3> QED
        BY <3>5 DEF x, cd
    <2> QED
      BY <2>5, <2>6
  <1>4. Init => RatesFixed /\ BucketInv
    BY <1>1, RatesInit
  <1>5. TypeOK /\ NothingHeld /\ StampsNeverAhead /\ RatesFixed /\ BucketInv /\ [Next]_vars
        => (RatesFixed /\ BucketInv)'
    BY <1>2, RatesStep
  <1>6. TypeOK /\ RatesFixed /\ StampsNeverAhead /\ BucketInv => BurstBound
    BY <1>3
  <1> QED
    BY <1>4, <1>5, <1>6, NeverHeld, StampsBounded, TypeCorrect, PTL DEF Spec

-----------------------------------------------------------------------------
(* The velocity cap *)

\* A deployment whose velocity cap stays in force: never changed, overridden or
\* dodged by erasing the score or the stamp it compares with.
KeepsVelocity ==
  {"velocity", "overrideVelocity", "overrideRate", "clear"} \cap AdminOps = {}

\* A write that consulted the velocity cap.
CappedWrite(k, s) ==
  /\ VelocityOK(k, s) /\ SpendVelocityPass(k)
  /\ StampSubmission(k) /\ StoreScore(k, s) /\ UNCHANGED <<now, cfg>>

\* A step that only stamps a submission, or does not even that.
StampOnly ==
  /\ UNCHANGED <<score, history, velocityPass>>
  /\ lastSubmit' = lastSubmit \/ \E k \in Keys : StampSubmission(k)

\* A step that moves scores past the cap, and says which.
UncappedMove ==
  /\ UNCHANGED <<lastSubmit, velocityPass>>
  /\ \A j \in Keys \ uncapped' : score'[j] = score[j] /\ history'[j] = history[j]

\* What a step does to the state the cap reads.
LEMMA CapStep ==
  ASSUME TypeOK, KeepsVelocity, [Next]_vars
  PROVE  /\ uncapped \subseteq uncapped'
         /\ \/ \E k \in Keys, s \in Score : CappedWrite(k, s)
            \/ \E k \in Keys : clear_score_history(k)
            \/ StampOnly
            \/ UncappedMove
  <1> USE DEF recordVars, rateVars, pastVars
  <1>1. CASE SubmitNext
    <2> PICK k \in Keys, s \in ScoreInputs :
          \/ submit_score_live(k, s)
          \/ submit_score_held(k, s)
          \/ submit_scores_batch(k, s)
          \/ submit_scores_batch_attested(k, s)
          \/ submit_consensus_score(k, s)
      BY <1>1 DEF SubmitNext
    <2>1. s <= MAX_SCORE => s \in Score
      BY ArgsAssumption DEF Score, MAX_SCORE
    <2> QED
      BY <2>1 DEF submit_score_live, submit_score_held, submit_scores_batch,
                  submit_scores_batch_attested, submit_consensus_score, NoteSubmitted,
                  WriteScoreWithRateLimit, CappedWrite, StampOnly
  <1>2. ASSUME NEW k \in Keys, NEW s, StoreScore(k, s), uncapped' = uncapped \cup {k},
               UNCHANGED rateVars
        PROVE  uncapped \subseteq uncapped' /\ UncappedMove
    BY <1>2 DEF StoreScore, UncappedMove, TypeOK, RecordTypeOK
  <1>3. CASE KeyNext
    <2> PICK k \in Keys :
          \/ commit_pending_score(k)
          \/ cancel_pending_score(k)
          \/ clear_score(k)
          \/ clear_score_history(k)
          \/ override_rate_limit(k)
          \/ override_score_velocity_cap(k)
          \/ override_score_floor(k)
          \/ reset_breach_count(k)
      BY <1>3 DEF KeyNext
    <2>1. CASE commit_pending_score(k)
      BY <1>2, <2>1 DEF commit_pending_score
    <2>2. CASE clear_score_history(k)
      BY <2>2 DEF clear_score_history
    <2>3. CASE ~commit_pending_score(k) /\ ~clear_score_history(k)
      BY <2>3 DEF KeepsVelocity, cancel_pending_score, clear_score, override_rate_limit,
           override_score_velocity_cap, override_score_floor, reset_breach_count, StampOnly
    <2> QED
      BY <2>1, <2>2, <2>3
  <1>4. CASE LinkNext
    <2>1. ASSUME NEW a, NEW b, NEW p,
                 add_counterparty_link(a, b, p) \/ remove_counterparty_link(a, b, p)
          PROVE  uncapped \subseteq uncapped' /\ StampOnly
      BY <2>1 DEF add_counterparty_link, remove_counterparty_link, StampOnly
    <2>2. ASSUME NEW a, NEW p, NEW boost, propagate_contagion(a, p, boost)
          PROVE  uncapped \subseteq uncapped' /\ UncappedMove
      <3> DEFINE hit == Affected(a, p, boost)
      <3>1. /\ uncapped' = uncapped \cup hit
            /\ score' = [k \in Keys |-> IF k \in hit THEN BoostedScore(k, boost) ELSE score[k]]
            /\ UNCHANGED <<history, lastSubmit, velocityPass>>
        BY <2>2 DEF propagate_contagion
      <3> HIDE DEF hit
      <3> QED
        BY <3>1 DEF UncappedMove
    <2> QED
      BY <1>4, <2>1, <2>2 DEF LinkNext
  <1>5. CASE DisputeNext
    <2>1. ASSUME NEW k, open_score_dispute(k) \/ resolve_dispute_timeout(k)
          PROVE  uncapped \subseteq uncapped' /\ StampOnly
      BY <2>1 DEF open_score_dispute, resolve_dispute_timeout, StampOnly
    <2>2. ASSUME NEW k \in Keys, NEW s, resolve_dispute_admin(k, s)
          PROVE  uncapped \subseteq uncapped' /\ UncappedMove
      BY <1>2, <2>2 DEF resolve_dispute_admin
    <2> QED
      BY <1>5, <2>1, <2>2 DEF DisputeNext
  <1>6. CASE GateNext \/ ConfigNext
    BY <1>6, GateFrame, ConfigFrame DEF StampOnly
  <1>7. CASE (\E d \in TimeSteps : Tick(d)) \/ UNCHANGED vars
    BY <1>7 DEF Tick, vars, StampOnly
  <1> QED
    BY <1>1, <1>3, <1>4, <1>5, <1>6, <1>7 DEF Next

\* Points the cap grants for `elapsed` seconds.
Granted(pph, elapsed) == (pph * elapsed) \div 3600

\* What is granted for two stretches of time is granted for the whole.
LEMMA GrantsAddUp ==
  ASSUME NEW pph \in Nat, NEW u \in Nat, NEW v \in Nat
  PROVE  /\ Granted(pph, u) \in Nat /\ Granted(pph, v) \in Nat /\ Granted(pph, u + v) \in Nat
         /\ Granted(pph, u) + Granted(pph, v) <= Granted(pph, u + v)
  <1> DEFINE p == pph * u
             q == pph * v
  <1>1. p \in Nat /\ q \in Nat /\ pph * (u + v) = p + q
    OBVIOUS
  <1> HIDE DEF p, q
  <1>2. /\ p \div 3600 \in Nat /\ q \div 3600 \in Nat /\ (p + q) \div 3600 \in Nat
        /\ p \div 3600 + q \div 3600 <= (p + q) \div 3600
    BY <1>1
  <1> QED
    BY <1>1, <1>2 DEF Granted, p, q

\* A single write moves the score by a point at least, or by what is granted.
LEMMA DeltaGranted ==
  ASSUME NEW pph \in Nat, NEW v \in Nat
  PROVE  AllowedDelta(pph, v) \in Nat /\ AllowedDelta(pph, v) <= 1 + Granted(pph, v)
  <1>1. Granted(pph, v) \in Nat
    BY GrantsAddUp
  <1>2. AllowedDelta(pph, v) = IF Granted(pph, v) >= 1 THEN Granted(pph, v) ELSE 1
    BY DEF AllowedDelta, Granted
  <1> QED
    BY <1>1, <1>2

\* abs_diff is a distance.
LEMMA AbsDiffTriangle ==
  ASSUME NEW a \in Int, NEW b \in Int, NEW c \in Int
  PROVE  AbsDiff(a, c) <= AbsDiff(a, b) + AbsDiff(b, c) /\ AbsDiff(a, c) \in Nat
         /\ AbsDiff(a, a) = 0
  BY DEF AbsDiff

\* The drift of a ring: a point per write and the points granted up to the stamp.
Drifted(h, pph, elapsed) ==
  \A i \in 1 .. Len(h) :
    AbsDiff(h[Len(h)], h[i]) <= (Len(h) - i) + Granted(pph, elapsed)

\* What was granted up to a moment is granted later as well.
LEMMA DriftGrows ==
  ASSUME NEW h \in Seq(Score), NEW pph \in Nat, NEW u \in Nat, NEW v \in Nat,
         Drifted(h, pph, u)
  PROVE  Drifted(h, pph, u + v)
  <1>1. /\ Granted(pph, u) \in Nat /\ Granted(pph, v) \in Nat /\ Granted(pph, u + v) \in Nat
        /\ Granted(pph, u) + Granted(pph, v) <= Granted(pph, u + v)
    BY GrantsAddUp
  <1>2. \A m \in 1 .. Len(h) : h[m] \in Int
    <2>1. \A m \in 1 .. Len(h) : h[m] \in Score
      BY ElementOfSeq
    <2> QED
      BY <2>1 DEF Score
  <1> SUFFICES ASSUME NEW i \in 1 .. Len(h)
               PROVE  AbsDiff(h[Len(h)], h[i]) <= (Len(h) - i) + Granted(pph, u + v)
    BY DEF Drifted
  <1>3. Len(h) \in Nat /\ Len(h) \in 1 .. Len(h) /\ i \in Int
    OBVIOUS
  <1>4. AbsDiff(h[Len(h)], h[i]) <= (Len(h) - i) + Granted(pph, u)
    BY DEF Drifted
  <1>5. AbsDiff(h[Len(h)], h[i]) \in Nat
    BY <1>2, <1>3, AbsDiffTriangle
  <1> QED
    BY <1>1, <1>3, <1>4, <1>5

\* A capped write keeps the drift within the account, whatever it evicts.
LEMMA DriftPushed ==
  ASSUME NEW h \in Seq(Score), NEW t \in Seq(Score), NEW s \in Score, NEW pph \in Nat,
         NEW u \in Nat, NEW v \in Nat, Pushed(h, s, t), Drifted(h, pph, u),
         Len(h) > 0 => AbsDiff(s, h[Len(h)]) <= AllowedDelta(pph, v)
  PROVE  Drifted(t, pph, u + v)
  <1>1. PICK off \in 0 .. Len(h) :
          /\ Len(t) = Len(h) + 1 - off
          /\ t[Len(t)] = s
          /\ \A i \in 1 .. Len(t) - 1 : i + off \in 1 .. Len(h) /\ t[i] = h[i + off]
    BY DEF Pushed
  <1>2. Len(h) \in Nat /\ Len(t) \in Nat /\ s \in Int
    BY DEF Score
  <1> DEFINE A == Granted(pph, u)
             B == Granted(pph, v)
             C == Granted(pph, u + v)
             D == AllowedDelta(pph, v)
  <1>3. A \in Nat /\ B \in Nat /\ C \in Nat /\ A + B <= C
    BY GrantsAddUp
  <1>4. D \in Nat /\ D <= 1 + B
    BY DeltaGranted
  <1> SUFFICES ASSUME NEW i \in 1 .. Len(t)
               PROVE  AbsDiff(s, t[i]) <= (Len(t) - i) + C
    BY <1>1 DEF Drifted
  <1> HIDE DEF A, B, C, D
  <1>5. CASE i = Len(t)
    <2>1. AbsDiff(s, t[i]) = 0
      BY <1>1, <1>2, <1>5, AbsDiffTriangle
    <2> QED
      BY <1>2, <1>3, <1>5, <2>1
  <1>6. CASE i # Len(t)
    <2>1. i \in 1 .. Len(t) - 1
      BY <1>2, <1>6
    <2> DEFINE j == i + off
               x == h[j]
               y == h[Len(h)]
    <2>2. j \in 1 .. Len(h) /\ t[i] = x /\ Len(h) > 0 /\ Len(h) \in 1 .. Len(h)
      BY <1>1, <1>2, <2>1
    <2>3. x \in Int /\ y \in Int
      <3>1. \A m \in 1 .. Len(h) : h[m] \in Score
        BY ElementOfSeq
      <3> QED
        BY <2>2, <3>1 DEF Score
    <2>4. AbsDiff(s, y) <= D
      BY <2>2 DEF D
    <2>5. AbsDiff(y, x) <= (Len(h) - j) + A
      BY <2>2 DEF Drifted, A
    <2>6. Len(t) - i = Len(h) - j + 1
      BY <1>1, <1>2
    <2> HIDE DEF j, x, y
    <2>7. /\ AbsDiff(s, x) <= AbsDiff(s, y) + AbsDiff(y, x)
          /\ AbsDiff(s, x) \in Nat /\ AbsDiff(s, y) \in Nat /\ AbsDiff(y, x) \in Nat
      BY <1>2, <2>3, AbsDiffTriangle
    <2>8. AbsDiff(s, x) <= (Len(h) - j + 1) + C
      BY <1>2, <1>3, <1>4, <2>2, <2>4, <2>5, <2>7
    <2> QED
      BY <2>2, <2>6, <2>8
  <1> QED
    BY <1>5, <1>6

\* No pass is outstanding; every live score that never moved past the cap ends its
\* ring, has the stamp the cap measures from, and its drift is accounted for up to
\* that stamp.
DriftInv ==
  /\ \A k \in Keys : velocityPass[k] = FALSE
  /\ \A k \in Keys \ uncapped :
       /\ score[k] = NULL => Len(history[k]) = 0
       /\ score[k] # NULL =>
            /\ lastSubmit[k] >= StartTime
            /\ Len(history[k]) > 0 => history[k][Len(history[k])] = score[k]
       /\ cfg.velocityOn /\ score[k] # NULL =>
            Drifted(history[k], cfg.pointsPerHour, lastSubmit[k] - StartTime)

\* With the velocity cap on and left alone, no sequence of live, batch, attested
\* and consensus writes moves a score further than a point per write plus what the
\* cap grants for the time passed: rounding down each grant and the one-point
\* minimum never add up to more, and held submissions in between gain nothing.
\* Only a commit, a correction or a boost moves the score of a pair past it.
THEOREM DriftCapped ==
  ASSUME KeepsVelocity
  PROVE  Spec => []DriftBound
  <1>1. Init => DriftInv /\ now >= StartTime
    BY ClockAssumption DEF Init, DriftInv
  <1>2. ASSUME TypeOK, StampsNeverAhead, now >= StartTime, DriftInv, [Next]_vars
        PROVE  DriftInv' /\ now' >= StartTime
    <2>1. /\ cfg'.velocityOn = cfg.velocityOn /\ cfg'.pointsPerHour = cfg.pointsPerHour
          /\ cfg.pointsPerHour \in Nat
      BY <1>2, SettingsKept DEF KeepsVelocity, TypeOK, PolicyTypeOK, Config
    <2>2. now \in Nat /\ now' \in Nat /\ StartTime \in Nat \ {0}
      BY <1>2, TypeStep, ClockAssumption DEF TypeOK, PolicyTypeOK
    <2>3. now' >= StartTime
      BY <1>2, <2>2, TimingStep DEF SubmitEffect
    <2>7. uncapped \subseteq uncapped'
      BY <1>2, CapStep
    <2>4. ASSUME NEW k \in Keys, NEW s \in Score, CappedWrite(k, s)  PROVE DriftInv'
      <3>1. /\ score' = [score EXCEPT ![k] = s] /\ s # NULL
            /\ lastSubmit' = [lastSubmit EXCEPT ![k] = now]
            /\ velocityPass' = [velocityPass EXCEPT ![k] = velocityPass[k] /\ ~VelocityApplies(k)]
        BY <2>4, ConfigAssumption DEF CappedWrite, StoreScore, StampSubmission,
             SpendVelocityPass, Score
      <3>2. /\ score \in [Keys -> Score \cup {NULL}] /\ lastSubmit \in [Keys -> Nat]
            /\ velocityPass \in [Keys -> BOOLEAN]
            /\ \A j \in Keys : history[j] \in Seq(Score) /\ history'[j] \in Seq(Score)
        BY <1>2, TypeStep DEF TypeOK, RecordTypeOK, RateTypeOK
      <3>3. Pushed(history[k], s, history'[k]) /\ \A j \in Keys : j # k => history'[j] = history[j]
        BY <1>2, <2>4, StorePushes DEF CappedWrite
      <3>4. ASSUME cfg.velocityOn, k \notin uncapped
            PROVE  Drifted(history'[k], cfg.pointsPerHour, now - StartTime)
        <4> DEFINE h == history[k]
                   pph == cfg.pointsPerHour
        <4>1. h \in Seq(Score) /\ history'[k] \in Seq(Score) /\ Len(h) \in Nat
          BY <3>2
        <4>2. CASE score[k] = NULL
          <5>1. Len(h) = 0
            BY <1>2, <3>4, <4>2 DEF DriftInv
          <5>2. Drifted(h, pph, 0)
            BY <5>1 DEF Drifted
          <5>3. now - StartTime \in Nat /\ 0 + (now - StartTime) = now - StartTime
            BY <1>2, <2>2
          <5> HIDE DEF h, pph
          <5>4. Drifted(history'[k], pph, 0 + (now - StartTime))
            BY <2>1, <3>3, <4>1, <5>1, <5>2, <5>3, DriftPushed DEF h, pph
          <5> QED
            BY <5>3, <5>4 DEF pph
        <4>3. CASE score[k] # NULL
          <5> DEFINE u == lastSubmit[k] - StartTime
                     v == now - lastSubmit[k]
          <5>1. u \in Nat /\ v \in Nat /\ u + v = now - StartTime /\ lastSubmit[k] # 0
            BY <1>2, <2>2, <3>2, <3>4, <4>3 DEF DriftInv, StampsNeverAhead
          <5>2. Drifted(h, pph, u)
            BY <1>2, <3>4, <4>3 DEF DriftInv
          <5>3. AbsDiff(s, score[k]) <= AllowedDelta(pph, v)
            BY <1>2, <2>4, <3>4, <4>3, <5>1 DEF CappedWrite, VelocityOK, VelocityApplies, DriftInv
          <5>4. Len(h) > 0 => h[Len(h)] = score[k]
            BY <1>2, <3>4, <4>3 DEF DriftInv
          <5> HIDE DEF u, v
          <5>5. Len(h) > 0 => AbsDiff(s, h[Len(h)]) <= AllowedDelta(pph, v)
            BY <5>3, <5>4
          <5> HIDE DEF h, pph
          <5>6. Drifted(history'[k], pph, u + v)
            BY <2>1, <3>3, <4>1, <5>1, <5>2, <5>5, DriftPushed DEF h, pph
          <5> QED
            BY <5>1, <5>6 DEF pph
        <4> QED
          BY <4>2, <4>3
      <3>5. \A j \in Keys : velocityPass'[j] = FALSE
        BY <1>2, <3>1, <3>2 DEF DriftInv
      <3>6. history'[k][Len(history'[k])] = s
        BY <3>3 DEF Pushed
      <3> SUFFICES ASSUME NEW j \in Keys \ uncapped
                   PROVE  /\ score'[j] = NULL => Len(history'[j]) = 0
                          /\ score'[j] # NULL =>
                               /\ lastSubmit'[j] >= StartTime
                               /\ Len(history'[j]) > 0 => history'[j][Len(history'[j])] = score'[j]
                          /\ cfg.velocityOn /\ score'[j] # NULL =>
                               Drifted(history'[j], cfg.pointsPerHour, lastSubmit'[j] - StartTime)
        BY <2>1, <2>7, <3>5 DEF DriftInv
      <3>7. CASE j = k
        <4>1. score'[j] = s /\ lastSubmit'[j] = now
          BY <3>1, <3>2, <3>7
        <4> QED
          BY <1>2, <3>1, <3>4, <3>6, <3>7, <4>1
      <3>8. CASE j # k
        <4>1. /\ score'[j] = score[j] /\ lastSubmit'[j] = lastSubmit[j]
              /\ history'[j] = history[j]
          BY <3>1, <3>2, <3>3, <3>8
        <4> QED
          BY <1>2, <4>1 DEF DriftInv
      <3> QED
        BY <3>7, <3>8
    <2>5. ASSUME NEW k \in Keys, clear_score_history(k)  PROVE DriftInv'
      <3>1. /\ UNCHANGED <<score, lastSubmit, velocityPass>>
            /\ \A j \in Keys : history'[j] = history[j] \/ Len(history'[j]) = 0
        BY <1>2, <2>5 DEF clear_score_history, rateVars, TypeOK, RecordTypeOK
      <3>2. \A j \in Keys : Len(history'[j]) = 0 =>
              \A e : Drifted(history'[j], cfg.pointsPerHour, e)
        BY DEF Drifted
      <3> SUFFICES ASSUME NEW j \in Keys \ uncapped
                   PROVE  /\ score[j] = NULL => Len(history'[j]) = 0
                          /\ score[j] # NULL =>
                               /\ lastSubmit[j] >= StartTime
                               /\ Len(history'[j]) > 0 => history'[j][Len(history'[j])] = score[j]
                          /\ cfg.velocityOn /\ score[j] # NULL =>
                               Drifted(history'[j], cfg.pointsPerHour, lastSubmit[j] - StartTime)
        BY <1>2, <2>1, <2>7, <3>1 DEF DriftInv
      <3>3. CASE history'[j] = history[j]
        BY <1>2, <3>3 DEF DriftInv
      <3>4. CASE Len(history'[j]) = 0
        BY <1>2, <3>2, <3>4 DEF DriftInv
      <3> QED
        BY <3>1, <3>3, <3>4
    <2>6. ASSUME UncappedMove  PROVE DriftInv'
      BY <1>2, <2>1, <2>6, <2>7 DEF DriftInv, UncappedMove
    <2>8. ASSUME StampOnly  PROVE DriftInv'
      <3>1. \A j \in Keys : /\ lastSubmit[j] \in Nat /\ lastSubmit'[j] \in Nat
                            /\ lastSubmit[j] <= lastSubmit'[j]
        <4>1. CASE lastSubmit' = lastSubmit
          BY <1>2, <4>1 DEF TypeOK, RateTypeOK
        <4>2. ASSUME NEW k \in Keys, StampSubmission(k)
              PROVE  \A j \in Keys : /\ lastSubmit[j] \in Nat /\ lastSubmit'[j] \in Nat
                                     /\ lastSubmit[j] <= lastSubmit'[j]
          BY <1>2, <2>2, <4>2 DEF TypeOK, RateTypeOK, StampsNeverAhead, StampSubmission
        <4> QED
          BY <2>8, <4>1, <4>2 DEF StampOnly
      <3> SUFFICES ASSUME NEW j \in Keys \ uncapped, score[j] # NULL
                   PROVE  /\ lastSubmit'[j] >= StartTime
                          /\ cfg.velocityOn =>
                               Drifted(history[j], cfg.pointsPerHour, lastSubmit'[j] - StartTime)
        BY <1>2, <2>1, <2>7, <2>8 DEF DriftInv, StampOnly
      <3>2. lastSubmit[j] >= StartTime
        BY <1>2 DEF DriftInv
      <3>3. lastSubmit'[j] >= StartTime
        BY <2>2, <3>1, <3>2
      <3>4. ASSUME cfg.velocityOn
            PROVE  Drifted(history[j], cfg.pointsPerHour, lastSubmit'[j] - StartTime)
        <4> DEFINE u == lastSubmit[j] - StartTime
                   v == lastSubmit'[j] - lastSubmit[j]
        <4>1. u \in Nat /\ v \in Nat /\ u + v = lastSubmit'[j] - StartTime
          BY <2>2, <3>1, <3>2
        <4>2. Drifted(history[j], cfg.pointsPerHour, u)
          BY <1>2, <3>4 DEF DriftInv
        <4> HIDE DEF u, v
        <4>3. Drifted(history[j], cfg.pointsPerHour, u + v)
          BY <1>2, <2>1, <4>1, <4>2, DriftGrows DEF TypeOK, RecordTypeOK
        <4> QED
          BY <4>1, <4>3
      <3> QED
        BY <3>3, <3>4
    <2> QED
      BY <1>2, <2>3, <2>4, <2>5, <2>6, <2>8, CapStep
  <1>3. ASSUME TypeOK, StampsNeverAhead, now >= StartTime, DriftInv
        PROVE  DriftBound
    <2> SUFFICES ASSUME cfg.velocityOn, NEW k \in Keys \ uncapped, NEW i \in 1 .. Len(history[k])
                 PROVE  AbsDiff(history[k][Len(history[k])], history[k][i])
                          <= (Len(history[k]) - i) + Granted(cfg.pointsPerHour, now - StartTime)
      BY DEF DriftBound, Granted
    <2> DEFINE u == lastSubmit[k] - StartTime
               v == now - lastSubmit[k]
    <2>1. /\ history[k] \in Seq(Score) /\ Len(history[k]) \in Nat /\ lastSubmit[k] \in Nat
          /\ now \in Nat /\ StartTime \in Nat /\ cfg.pointsPerHour \in Nat
      BY <1>3, ClockAssumption DEF TypeOK, RecordTypeOK, RateTypeOK, PolicyTypeOK, Config
    <2>2. score[k] # NULL
      BY <1>3, <2>1 DEF DriftInv
    <2>3. u \in Nat /\ v \in Nat /\ u + v = now - StartTime
      BY <1>3, <2>1, <2>2 DEF DriftInv, StampsNeverAhead
    <2>4. Drifted(history[k], cfg.pointsPerHour, u)
      BY <1>3, <2>2 DEF DriftInv
    <2> HIDE DEF u, v
    <2>5. Drifted(history[k], cfg.pointsPerHour, u + v)
      BY <2>1, <2>3, <2>4, DriftGrows
    <2> QED
      BY <2>3, <2>5 DEF Drifted
  <1>4. TypeOK /\ StampsNeverAhead /\ now >= StartTime
        /\ DriftInv /\ [Next]_vars => (now >= StartTime /\ DriftInv)'
    BY <1>2
  <1>5. TypeOK /\ StampsNeverAhead /\ now >= StartTime /\ DriftInv => DriftBound
    BY <1>3
  <1> QED
    BY <1>1, <1>4, <1>5, StampsBounded, TypeCorrect, PTL DEF Spec
=============================================================================
