---------------------------- MODULE ScoreLedger ----------------------------
(***************************************************************************)
(* The score ledger of the stellar-lense-score contract: every entry point *)
(* that writes, holds back, boosts, corrects or erases a score, the state  *)
(* those calls keep in step (live score, history ring, pair list, counters,*)
(* histogram, peak, breach counter, risk band), and the switches, policies,*)
(* counterparty links and disputes that admit or refuse them.              *)
(*                                                                         *)
(* A contract call is one atomic step.  A call that returns Err reverts    *)
(* everything it wrote, so an error path is a step that is not enabled.    *)
(* Concurrency is the order in which calls of the service, the admin, the  *)
(* consensus models and third parties reach the ledger, and the passage of *)
(* ledger time between them.  Callers are authorised: the signer and key   *)
(* rules are a component of their own.  The model-version registry is      *)
(* empty, flash protection only flags, and the adaptive rate limit is off, *)
(* the contract's defaults.                                                *)
(*                                                                         *)
(* Seven functions write the live score and no two of them keep the same   *)
(* part of the derived state.  The variables of pastVars record which of   *)
(* them touched what; no step reads them, except for the named bound on    *)
(* erasures, and the properties say with them what each mix of writers     *)
(* still leaves true.                                                      *)
(***************************************************************************)
EXTENDS Integers, Sequences, FiniteSets, FiniteSetsExt, RateLimit

CONSTANTS
  Wallets, Pairs,
  NULL,          \* Option::None
  ScoreInputs,   \* score arguments the service submits, valid or not
  Paths,         \* write entry points this deployment uses
  AdminOps,      \* administrative operations this instance exercises
  Args,          \* argument sets of the setters, one field per parameter
  Cfg0,          \* initial configuration
  StartTime, TimeSteps, MaxTime,   \* bound: ledger clock
  MaxWrites,                       \* bound: accepted writes per pair
  MaxErasures                      \* bound: live scores erased

MAX_SCORE == 100
MAX_HISTORY_DEPTH == 50
MIN_COOLDOWN_SECS == 60
MAX_COOLDOWN_SECS == 86400
MAX_FINALITY_BUFFER_SECS == 86400
MIN_SCORE_FLOOR_HWM == 50
MAX_HYSTERESIS_MARGIN == 50
MAX_COUNTERPARTY_LINKS_PER_WALLET == 50
DISPUTE_CHALLENGE_PERIOD_SECS == 604800
MAX_OPEN_DISPUTES == 100
Buckets == 0 .. 9

Keys == Wallets \X Pairs
Score == 0 .. MAX_SCORE
PendingScoreEntry == [score : Score, commitAfter : Nat]
TokenBucket == [tokens : Nat, lastRefill : Nat]

Config ==
  [cooldown : Nat, pairCooldown : [Pairs -> Nat \cup {NULL}], capacity : Nat,
   velocityOn : BOOLEAN, pointsPerHour : Nat,
   floorOn : BOOLEAN, highWater : Nat, floor : Nat,
   threshold : Nat, adaptiveOn : BOOLEAN, computed : Nat,
   adaptiveMin : Nat, adaptiveMax : Nat,
   margin : Nat, depth : 1 .. MAX_HISTORY_DEPTH,
   buffer : 0 .. MAX_FINALITY_BUFFER_SECS]

ASSUME ClockAssumption ==
  /\ StartTime \in Nat \ {0}
  /\ TimeSteps \subseteq Nat \ {0}
  /\ MaxTime \in Nat /\ MaxWrites \in Nat /\ MaxErasures \in Nat

ASSUME ConfigAssumption == Cfg0 \in Config /\ NULL \notin Int /\ NULL \notin TokenBucket

ASSUME ArgsAssumption ==
  /\ ScoreInputs \subseteq Nat
  /\ Args.cooldown \subseteq Nat /\ Args.capacity \subseteq Nat
  /\ Args.velocity \subseteq BOOLEAN \X Nat
  /\ Args.floor \subseteq BOOLEAN \X Nat \X Nat
  /\ Args.threshold \subseteq Nat /\ Args.adaptive \subseteq Nat \X Nat
  /\ Args.margin \subseteq Nat /\ Args.depth \subseteq Nat
  /\ Args.buffer \subseteq Nat /\ Args.boost \subseteq Nat

VARIABLES
  now,          \* ledger timestamp
  gates,        \* [paused, frozen, epochOpen, pairsPaused]
  cfg,          \* policy configuration
  score,        \* live score of each (wallet, pair)
  history,      \* score history rings
  pairsOf,      \* asset pairs registered per wallet
  scoreCount,   \* accepted writes per (wallet, pair)
  pairCount,    \* accepted writes per pair
  totalScored,  \* TotalWalletsScored
  peak,         \* HistoricalMaxScore
  histogram,    \* score buckets
  breach,       \* consecutive-breach counter
  band,         \* RiskBandState
  bandEntry,    \* time the band was entered
  lastSubmit,   \* LastSubmitTime, 0 for none
  bucket,       \* token buckets
  velocityPass, \* one-time velocity-cap override
  pending,      \* PendingScore
  links,        \* Counterparties of each (wallet, pair)
  dispute       \* deadline of the open ScoreDispute of each (wallet, pair)

VARIABLES   \* history of the run, read by the properties
  origin,       \* how each live score got its value
  bypassed,     \* keys that took a write which skipped the statistics
  uncapped,     \* keys whose score moved without the velocity check
  uncounted,    \* keys that got a score without being counted
  skewed,       \* buckets a change of a live score was not recorded in
  corrections,  \* admin corrections per key
  erasures      \* live scores erased

recordVars == <<score, history, pairsOf, scoreCount, pairCount, totalScored>>
statVars   == <<peak, histogram, breach, band, bandEntry>>
rateVars   == <<lastSubmit, bucket, velocityPass>>
caseVars   == <<links, dispute>>
pastVars   == <<origin, bypassed, uncapped, uncounted, skewed, corrections, erasures>>
vars == <<now, gates, cfg, recordVars, statVars, rateVars, pending, caseVars, pastVars>>

Origins == {"none", "submitted", "stored", "boosted", "invented"}

\* What initialize leaves behind: no score, every switch at its default.
Init ==
  /\ now = StartTime
  /\ gates = [paused |-> FALSE, frozen |-> FALSE, epochOpen |-> TRUE,
              pairsPaused |-> {}]
  /\ cfg = Cfg0
  /\ score = [k \in Keys |-> NULL]
  /\ history = [k \in Keys |-> <<>>]
  /\ pairsOf = [w \in Wallets |-> {}]
  /\ scoreCount = [k \in Keys |-> 0]
  /\ pairCount = [p \in Pairs |-> 0]
  /\ totalScored = 0
  /\ peak = [k \in Keys |-> NULL]
  /\ histogram = [b \in Buckets |-> 0]
  /\ breach = [k \in Keys |-> 0]
  /\ band = [k \in Keys |-> FALSE]
  /\ bandEntry = [k \in Keys |-> NULL]
  /\ lastSubmit = [k \in Keys |-> 0]
  /\ bucket = [k \in Keys |-> NULL]
  /\ velocityPass = [k \in Keys |-> FALSE]
  /\ pending = [k \in Keys |-> NULL]
  /\ links = [k \in Keys |-> {}]
  /\ dispute = [k \in Keys |-> NULL]
  /\ origin = [k \in Keys |-> "none"]
  /\ bypassed = {} /\ uncapped = {} /\ uncounted = {} /\ skewed = {}
  /\ corrections = [k \in Keys |-> 0]
  /\ erasures = 0

-----------------------------------------------------------------------------
(* Policy reads *)

PairCooldown(p) ==
  IF cfg.pairCooldown[p] = NULL THEN cfg.cooldown ELSE cfg.pairCooldown[p]

\* The adaptive threshold replaces the static one once it has been computed.
EffectiveThreshold ==
  IF cfg.adaptiveOn /\ cfg.computed # 0 THEN cfg.computed ELSE cfg.threshold

Peak(k) == IF peak[k] = NULL THEN 0 ELSE peak[k]

\* Fault: the floor looks at the live score, which erasure resets.
FloorByLiveScore(k, s) ==
  cfg.floorOn /\ score[k] # NULL /\ score[k] >= cfg.highWater /\ s < cfg.floor

ScoreFloorBlocks(k, s) ==
  cfg.floorOn /\ Peak(k) >= cfg.highWater /\ s < cfg.floor

\* Fault: the cooldown of the pair is not consulted.
FlatCooldownGlobal(k) == CooldownElapsed(lastSubmit[k], now, cfg.cooldown)

FlatCooldownOK(k) == CooldownElapsed(lastSubmit[k], now, PairCooldown(k[2]))

\* The bucket a submission is charged to: a full one when none is stored.
CurrentBucket(k) ==
  IF bucket[k] = NULL THEN [tokens |-> cfg.capacity, lastRefill |-> now]
  ELSE bucket[k]

UsesTokenBucket == cfg.capacity > 1

RateAdmits(k) ==
  IF UsesTokenBucket
  THEN Refilled(CurrentBucket(k), cfg.capacity, now, PairCooldown(k[2])) # 0
  ELSE FlatCooldownOK(k)

VelocityApplies(k) == cfg.velocityOn /\ score[k] # NULL

VelocityOK(k, s) ==
  (VelocityApplies(k) /\ ~velocityPass[k] /\ lastSubmit[k] # 0)
  => AbsDiff(s, score[k]) <= AllowedDelta(cfg.pointsPerHour, now - lastSubmit[k])

-----------------------------------------------------------------------------
(* Effects shared by the write paths *)

\* push_score_history: append, then evict the oldest entries beyond the depth.
Trim(h, d) == IF Len(h) > d THEN SubSeq(h, Len(h) - d + 1, Len(h)) ELSE h

\* set_score, push_score_history, register_pair_for_wallet and the two
\* submission counters: the part of a write every path performs.
StoreScore(k, s) ==
  /\ score' = [score EXCEPT ![k] = s]
  /\ history' = [history EXCEPT ![k] = Trim(Append(history[k], s), cfg.depth)]
  /\ pairsOf' = [pairsOf EXCEPT ![k[1]] = pairsOf[k[1]] \cup {k[2]}]
  /\ scoreCount' = [scoreCount EXCEPT ![k] = scoreCount[k] + 1]
  /\ pairCount' = [pairCount EXCEPT ![k[2]] = pairCount[k[2]] + 1]

CountIfNew(isNew) == totalScored' = IF isNew THEN totalScored + 1 ELSE totalScored

Bucket(s) == IF s >= 100 THEN 9 ELSE s \div 10

\* Fault: a plain subtraction.
HistogramOnClearUnchecked(h, removed) ==
  [h EXCEPT ![Bucket(removed)] = h[Bucket(removed)] - 1]

HistogramOnClear(h, removed) ==
  [h EXCEPT ![Bucket(removed)] = Monus(h[Bucket(removed)], 1)]

\* Fault: the score that is replaced stays counted.
HistogramKeepsPrevious(h, previous, s) == [h EXCEPT ![Bucket(s)] = h[Bucket(s)] + 1]

HistogramOnWrite(h, previous, s) ==
  LET h1 == IF previous = NULL THEN h ELSE HistogramOnClear(h, previous)
  IN  [h1 EXCEPT ![Bucket(s)] = h1[Bucket(s)] + 1]

UpdateHistoricalMax(k, s) ==
  peak' = [peak EXCEPT ![k] = IF s > Peak(k) THEN s ELSE peak[k]]

\* Fault: the run ends at the hysteresis exit line instead of the threshold.
BreachEndsAtExitLine(k, s, thr) ==
  breach' = [breach EXCEPT ![k] = IF s >= thr THEN breach[k] + 1
                                  ELSE IF s < Monus(thr, cfg.margin) THEN 0
                                  ELSE breach[k]]

UpdateBreachCounter(k, s, thr) ==
  breach' = [breach EXCEPT ![k] = IF s >= thr THEN breach[k] + 1 ELSE 0]

\* Fault: the exit line is the margin itself.
BandExitsAtMargin(k, s, thr) ==
  LET enters == s >= thr /\ ~band[k]
      exits  == s < thr /\ band[k] /\ s < cfg.margin
  IN  /\ band' = [band EXCEPT ![k] = (band[k] \/ enters) /\ ~exits]
      /\ bandEntry' = [bandEntry EXCEPT ![k] =
                         IF enters THEN now ELSE IF exits THEN NULL ELSE bandEntry[k]]

\* Enter at the threshold, leave only below threshold - margin.
EvaluateRiskBand(k, s, thr) ==
  LET enters == s >= thr /\ ~band[k]
      exits  == s < thr /\ band[k] /\ s < Monus(thr, cfg.margin)
  IN  /\ band' = [band EXCEPT ![k] = (band[k] \/ enters) /\ ~exits]
      /\ bandEntry' = [bandEntry EXCEPT ![k] =
                         IF enters THEN now ELSE IF exits THEN NULL ELSE bandEntry[k]]

\* The policy bookkeeping of submit_score, submit_scores_batch and the consensus
\* paths.  The other writers skip it.
UpdateScoreStats(k, s, thr) ==
  /\ UpdateHistoricalMax(k, s)
  /\ histogram' = HistogramOnWrite(histogram, score[k], s)
  /\ UpdateBreachCounter(k, s, thr)
  /\ EvaluateRiskBand(k, s, thr)

\* History: a write that kept the statistics.
NoteSubmitted(k) ==
  /\ origin' = [origin EXCEPT ![k] = "submitted"]
  /\ UNCHANGED <<bypassed, uncapped, uncounted, skewed, corrections, erasures>>

\* The buckets that lose and gain a score when the live score of k becomes s.
Disturbed(k, s) == {Bucket(v) : v \in {score[k], s} \ {NULL}}

\* History: a write that reached the ring and skipped the statistics.
NoteBypass(k, s) ==
  /\ origin' = [origin EXCEPT ![k] = "stored"]
  /\ bypassed' = bypassed \cup {k}
  /\ skewed' = skewed \cup Disturbed(k, s)

\* A one-time velocity override is spent by the first write it could excuse.
SpendVelocityPass(k) ==
  velocityPass' = [velocityPass EXCEPT ![k] = velocityPass[k] /\ ~VelocityApplies(k)]

\* Fault: only the first submission is stamped.
StampFirstSubmission(k) ==
  lastSubmit' = [lastSubmit EXCEPT ![k] = IF lastSubmit[k] = 0 THEN now ELSE lastSubmit[k]]

StampSubmission(k) == lastSubmit' = [lastSubmit EXCEPT ![k] = now]

WithinBound(k) == pairCount[k[2]] < MaxWrites

\* write_score_with_rate_limit
WriteScoreWithRateLimit(k, s) ==
  /\ s <= MAX_SCORE
  /\ RateAdmits(k)
  /\ bucket' = IF UsesTokenBucket
               THEN [bucket EXCEPT ![k] = TakeToken(CurrentBucket(k), cfg.capacity,
                                                    now, PairCooldown(k[2]))]
               ELSE bucket
  /\ VelocityOK(k, s)
  /\ SpendVelocityPass(k)
  /\ ~ScoreFloorBlocks(k, s)
  /\ StampSubmission(k)
  /\ StoreScore(k, s)
  /\ CountIfNew(score[k] = NULL)
  /\ UpdateScoreStats(k, s, cfg.threshold)
  /\ NoteSubmitted(k)

-----------------------------------------------------------------------------
(* Submissions *)

\* The switches submit_score consults before anything else.
SubmitScoreOpen(p) ==
  /\ ~gates.frozen /\ ~gates.paused
  /\ p \notin gates.pairsPaused
  /\ gates.epochOpen

\* submit_score with the finality buffer disabled.
submit_score_live(k, s) ==
  /\ "submit" \in Paths /\ WithinBound(k)
  /\ SubmitScoreOpen(k[2])
  /\ cfg.buffer = 0
  /\ WriteScoreWithRateLimit(k, s)
  /\ UNCHANGED <<now, gates, cfg, pending, caseVars>>

\* Fault: replacing a held score keeps the window of the first one.
HeldKeepsWindow(k, s) ==
  /\ "submit" \in Paths
  /\ SubmitScoreOpen(k[2])
  /\ cfg.buffer # 0
  /\ s <= MAX_SCORE
  /\ FlatCooldownOK(k)
  /\ StampSubmission(k)
  /\ pending' = [pending EXCEPT ![k] =
                   [score |-> s,
                    commitAfter |-> IF pending[k] = NULL THEN now + cfg.buffer
                                    ELSE pending[k].commitAfter]]
  /\ UNCHANGED <<now, gates, cfg, recordVars, statVars, bucket, velocityPass,
                 caseVars, pastVars>>

\* submit_score with a finality buffer: the flat cooldown applies, whatever the
\* burst capacity, and the entry replaces the one already held.
submit_score_held(k, s) ==
  /\ "submit" \in Paths
  /\ SubmitScoreOpen(k[2])
  /\ cfg.buffer # 0
  /\ s <= MAX_SCORE
  /\ FlatCooldownOK(k)
  /\ StampSubmission(k)
  /\ pending' = [pending EXCEPT ![k] = [score |-> s, commitAfter |-> now + cfg.buffer]]
  /\ UNCHANGED <<now, gates, cfg, recordVars, statVars, bucket, velocityPass,
                 caseVars, pastVars>>

\* Fault: a committed score is not pushed to the history.
CommitSkipsHistory(k) ==
  /\ pending[k] # NULL /\ WithinBound(k)
  /\ now >= pending[k].commitAfter
  /\ score' = [score EXCEPT ![k] = pending[k].score]
  /\ pairsOf' = [pairsOf EXCEPT ![k[1]] = pairsOf[k[1]] \cup {k[2]}]
  /\ scoreCount' = [scoreCount EXCEPT ![k] = scoreCount[k] + 1]
  /\ pairCount' = [pairCount EXCEPT ![k[2]] = pairCount[k[2]] + 1]
  /\ CountIfNew(scoreCount[k] + 1 = 1)
  /\ pending' = [pending EXCEPT ![k] = NULL]
  /\ NoteBypass(k, pending[k].score) /\ uncapped' = uncapped \cup {k}
  /\ UNCHANGED <<now, gates, cfg, history, statVars, rateVars, caseVars,
                 uncounted, corrections, erasures>>

\* Fault: the counter is compared as it was before the write.
CommitCountsLate(k) ==
  /\ pending[k] # NULL /\ WithinBound(k)
  /\ now >= pending[k].commitAfter
  /\ StoreScore(k, pending[k].score)
  /\ CountIfNew(scoreCount[k] = 1)
  /\ pending' = [pending EXCEPT ![k] = NULL]
  /\ NoteBypass(k, pending[k].score) /\ uncapped' = uncapped \cup {k}
  /\ UNCHANGED <<now, gates, cfg, statVars, rateVars, caseVars,
                 uncounted, corrections, erasures>>

\* Anyone may commit a held score once its window has elapsed.  Nothing but the
\* window is checked, and the score statistics are left alone.
commit_pending_score(k) ==
  /\ pending[k] # NULL /\ WithinBound(k)
  /\ now >= pending[k].commitAfter
  /\ StoreScore(k, pending[k].score)
  /\ CountIfNew(scoreCount[k] + 1 = 1)
  /\ pending' = [pending EXCEPT ![k] = NULL]
  /\ NoteBypass(k, pending[k].score) /\ uncapped' = uncapped \cup {k}
  /\ UNCHANGED <<now, gates, cfg, statVars, rateVars, caseVars,
                 uncounted, corrections, erasures>>

cancel_pending_score(k) ==
  /\ "cancel" \in AdminOps
  /\ pending[k] # NULL
  /\ pending' = [pending EXCEPT ![k] = NULL]
  /\ UNCHANGED <<now, gates, cfg, recordVars, statVars, rateVars, caseVars, pastVars>>

\* One accepted entry of submit_scores_batch.  A rejected entry changes nothing
\* and does not disturb its neighbours, so a batch is a run of such steps at
\* one timestamp.  The adaptive threshold, the flat cooldown and no bucket.
submit_scores_batch(k, s) ==
  /\ "batch" \in Paths /\ WithinBound(k)
  /\ ~gates.paused /\ gates.epochOpen
  /\ k[2] \notin gates.pairsPaused
  /\ s <= MAX_SCORE
  /\ FlatCooldownOK(k)
  /\ ~ScoreFloorBlocks(k, s)
  /\ VelocityOK(k, s)
  /\ SpendVelocityPass(k)
  /\ StampSubmission(k)
  /\ StoreScore(k, s)
  /\ CountIfNew(score[k] = NULL)
  /\ UpdateScoreStats(k, s, EffectiveThreshold)
  /\ NoteSubmitted(k)
  /\ UNCHANGED <<now, gates, cfg, bucket, pending, caseVars>>

\* One accepted entry of submit_scores_batch_attested: neither the pair pause
\* nor the floor is consulted, and the score statistics are left alone.
submit_scores_batch_attested(k, s) ==
  /\ "attested" \in Paths /\ WithinBound(k)
  /\ ~gates.paused /\ gates.epochOpen
  /\ s <= MAX_SCORE
  /\ FlatCooldownOK(k)
  /\ VelocityOK(k, s)
  /\ SpendVelocityPass(k)
  /\ StampSubmission(k)
  /\ StoreScore(k, s)
  /\ CountIfNew(score[k] = NULL)
  /\ NoteBypass(k, s)
  /\ UNCHANGED <<now, gates, cfg, statVars, bucket, pending, caseVars,
                 uncapped, uncounted, corrections, erasures>>

\* reveal_consensus and submit_consensus_score, with the score the models agreed
\* on.  Only the global pause is consulted, and the finality buffer is not.
submit_consensus_score(k, s) ==
  /\ "consensus" \in Paths /\ WithinBound(k)
  /\ ~gates.paused
  /\ WriteScoreWithRateLimit(k, s)
  /\ UNCHANGED <<now, gates, cfg, pending, caseVars>>

-----------------------------------------------------------------------------
(* Erasure and emergency overrides *)

\* History: the erasure of a live score.
NoteErased(k) ==
  /\ origin' = [origin EXCEPT ![k] = "none"]
  /\ erasures' = IF score[k] = NULL THEN erasures ELSE erasures + 1
  /\ UNCHANGED <<bypassed, uncapped, uncounted, skewed, corrections>>

\* Fault: the pair stays registered.
ClearKeepsPair(k) ==
  /\ "clear" \in AdminOps /\ erasures < MaxErasures
  /\ histogram' = IF score[k] = NULL THEN histogram
                  ELSE HistogramOnClear(histogram, score[k])
  /\ score' = [score EXCEPT ![k] = NULL]
  /\ NoteErased(k)
  /\ UNCHANGED <<now, gates, cfg, history, pairsOf, scoreCount, pairCount, totalScored,
                 peak, breach, band, bandEntry, rateVars, pending, caseVars>>

\* Drops the live score, its bucket count and its pair registration; history,
\* counters, peak, breach counter, band and any held score stay.
clear_score(k) ==
  /\ "clear" \in AdminOps /\ erasures < MaxErasures
  /\ histogram' = IF score[k] = NULL THEN histogram
                  ELSE HistogramOnClear(histogram, score[k])
  /\ score' = [score EXCEPT ![k] = NULL]
  /\ pairsOf' = [pairsOf EXCEPT ![k[1]] = pairsOf[k[1]] \ {k[2]}]
  /\ NoteErased(k)
  /\ UNCHANGED <<now, gates, cfg, history, scoreCount, pairCount, totalScored,
                 peak, breach, band, bandEntry, rateVars, pending, caseVars>>

\* Drops the ring, and takes the live score out of the histogram as well.
clear_score_history(k) ==
  /\ "clearHistory" \in AdminOps
  /\ histogram' = IF score[k] = NULL THEN histogram
                  ELSE HistogramOnClear(histogram, score[k])
  /\ history' = [history EXCEPT ![k] = <<>>]
  /\ skewed' = skewed \cup Disturbed(k, NULL)
  /\ UNCHANGED <<now, gates, cfg, score, pairsOf, scoreCount, pairCount, totalScored,
                 peak, breach, band, bandEntry, rateVars, pending, caseVars,
                 origin, bypassed, uncapped, uncounted, corrections, erasures>>

\* Also each entry of batch_override_rate_limit.  The token bucket stays as it is.
override_rate_limit(k) ==
  /\ "overrideRate" \in AdminOps
  /\ lastSubmit' = [lastSubmit EXCEPT ![k] = 0]
  /\ UNCHANGED <<now, gates, cfg, recordVars, statVars, bucket, velocityPass, pending,
                 caseVars, pastVars>>

override_score_velocity_cap(k) ==
  /\ "overrideVelocity" \in AdminOps
  /\ velocityPass' = [velocityPass EXCEPT ![k] = TRUE]
  /\ UNCHANGED <<now, gates, cfg, recordVars, statVars, lastSubmit, bucket, pending,
                 caseVars, pastVars>>

override_score_floor(k) ==
  /\ "overrideFloor" \in AdminOps
  /\ peak' = [peak EXCEPT ![k] = NULL]
  /\ UNCHANGED <<now, gates, cfg, recordVars, histogram, breach, band, bandEntry,
                 rateVars, pending, caseVars, pastVars>>

\* reset_breach_count and reset_breach_counter
reset_breach_count(k) ==
  /\ "resetBreach" \in AdminOps
  /\ breach' = [breach EXCEPT ![k] = 0]
  /\ UNCHANGED <<now, gates, cfg, recordVars, peak, histogram, band, bandEntry,
                 rateVars, pending, caseVars, pastVars>>

-----------------------------------------------------------------------------
(* Counterparty links and contagion.  Anyone may call the three functions; no  *)
(* switch is consulted.                                                        *)

HasRoom(k, w) == w \in links[k] \/ Cardinality(links[k]) < MAX_COUNTERPARTY_LINKS_PER_WALLET

add_counterparty_link(a, b, p) ==
  /\ a # b
  /\ HasRoom(<<a, p>>, b) /\ HasRoom(<<b, p>>, a)
  /\ links' = [links EXCEPT ![<<a, p>>] = links[<<a, p>>] \cup {b},
                            ![<<b, p>>] = links[<<b, p>>] \cup {a}]
  /\ UNCHANGED <<now, gates, cfg, recordVars, statVars, rateVars, pending, dispute, pastVars>>

remove_counterparty_link(a, b, p) ==
  /\ b \in links[<<a, p>>] \/ a \in links[<<b, p>>]
  /\ links' = [links EXCEPT ![<<a, p>>] = links[<<a, p>>] \ {b},
                            ![<<b, p>>] = links[<<b, p>>] \ {a}]
  /\ UNCHANGED <<now, gates, cfg, recordVars, statVars, rateVars, pending, dispute, pastVars>>

\* A missing score counts as 0.
CurrentScore(k) == IF score[k] = NULL THEN 0 ELSE score[k]

BoostedScore(k, boost) ==
  IF CurrentScore(k) + boost <= MAX_SCORE THEN CurrentScore(k) + boost ELSE MAX_SCORE

\* The counterparties of the anchor whose score the boost changes.
Affected(anchor, p, boost) ==
  {k \in Keys : /\ k[2] = p /\ k[1] \in links[<<anchor, p>>]
                /\ BoostedScore(k, boost) # CurrentScore(k)}

\* Raises the live score of every counterparty, making one up where there is
\* none, and touches nothing else.
propagate_contagion(anchor, p, boost) ==
  LET hit == Affected(anchor, p, boost)
  IN  /\ score' = [k \in Keys |-> IF k \in hit THEN BoostedScore(k, boost) ELSE score[k]]
      /\ origin' = [k \in Keys |->
                      IF k \notin hit THEN origin[k]
                      ELSE IF origin[k] \in {"none", "invented"} THEN "invented" ELSE "boosted"]
      /\ uncapped' = uncapped \cup hit
      /\ uncounted' = uncounted \cup {k \in hit : score[k] = NULL}
      /\ skewed' = skewed \cup UNION {Disturbed(k, BoostedScore(k, boost)) : k \in hit}
      /\ UNCHANGED <<now, gates, cfg, history, pairsOf, scoreCount, pairCount, totalScored,
                     statVars, rateVars, pending, caseVars, bypassed, corrections, erasures>>

-----------------------------------------------------------------------------
(* Score disputes.  The administrator enables them by setting the fee token.   *)

OpenDisputes == {k \in Keys : dispute[k] # NULL}

\* The challenger revealed a bond it had committed to; any challenger below its
\* own limit of open disputes may.  The pair need not have a score.
open_score_dispute(k) ==
  /\ "dispute" \in AdminOps
  /\ ~gates.paused
  /\ dispute[k] = NULL
  /\ Cardinality(OpenDisputes) < MAX_OPEN_DISPUTES
  /\ dispute' = [dispute EXCEPT ![k] = now + DISPUTE_CHALLENGE_PERIOD_SECS]
  /\ UNCHANGED <<now, gates, cfg, recordVars, statVars, rateVars, pending, links, pastVars>>

\* The administrator's correction: stored at once, past every policy, and not
\* counted as a newly scored pair.
resolve_dispute_admin(k, s) ==
  /\ ~gates.paused /\ WithinBound(k)
  /\ s <= MAX_SCORE
  /\ dispute[k] # NULL
  /\ StoreScore(k, s)
  /\ dispute' = [dispute EXCEPT ![k] = NULL]
  /\ NoteBypass(k, s) /\ uncapped' = uncapped \cup {k}
  /\ uncounted' = IF score[k] = NULL THEN uncounted \cup {k} ELSE uncounted
  /\ corrections' = [corrections EXCEPT ![k] = corrections[k] + 1]
  /\ UNCHANGED <<now, gates, cfg, totalScored, statVars, rateVars, pending, links, erasures>>

\* Anyone may settle a dispute the administrator let expire.
resolve_dispute_timeout(k) ==
  /\ dispute[k] # NULL
  /\ now > dispute[k]
  /\ dispute' = [dispute EXCEPT ![k] = NULL]
  /\ UNCHANGED <<now, gates, cfg, recordVars, statVars, rateVars, pending, links, pastVars>>

-----------------------------------------------------------------------------
(* Switches *)

SetGates(op, g) ==
  /\ op \in AdminOps
  /\ gates' = g
  /\ UNCHANGED <<now, cfg, recordVars, statVars, rateVars, pending, caseVars, pastVars>>

pause   == SetGates("pause", [gates EXCEPT !.paused = TRUE])
unpause == SetGates("pause", [gates EXCEPT !.paused = FALSE])
freeze_contract   == SetGates("freeze", [gates EXCEPT !.frozen = TRUE])
unfreeze_contract == SetGates("freeze", [gates EXCEPT !.frozen = FALSE])
open_epoch  == SetGates("epoch", [gates EXCEPT !.epochOpen = TRUE])
close_epoch == SetGates("epoch", [gates EXCEPT !.epochOpen = FALSE])
\* The index of paused pairs never fills up here (MAX_PAUSED_PAIRS is 50).
set_pair_paused(p, paused) ==
  SetGates("pausePair", [gates EXCEPT !.pairsPaused = IF paused THEN @ \cup {p} ELSE @ \ {p}])

-----------------------------------------------------------------------------
(* Policy setters.  The risk threshold and the history depth take effect when  *)
(* their time-locked change is applied; the others at once.                    *)

SetConfig(op, c) ==
  /\ op \in AdminOps
  /\ cfg' = c
  /\ UNCHANGED <<now, gates, recordVars, statVars, rateVars, pending, caseVars, pastVars>>

ValidCooldown(v) == v \in MIN_COOLDOWN_SECS .. MAX_COOLDOWN_SECS

set_cooldown(v) == ValidCooldown(v) /\ SetConfig("cooldown", [cfg EXCEPT !.cooldown = v])

set_pair_cooldown(p, v) ==
  /\ ValidCooldown(v)
  /\ SetConfig("cooldown",
       [cfg EXCEPT !.pairCooldown = [cfg.pairCooldown EXCEPT ![p] = v]])

clear_pair_cooldown(p) ==
  SetConfig("cooldown",
    [cfg EXCEPT !.pairCooldown = [cfg.pairCooldown EXCEPT ![p] = NULL]])

set_burst_capacity(v) == SetConfig("capacity", [cfg EXCEPT !.capacity = v])

set_score_velocity_cap(on, pph) ==
  SetConfig("velocity", [cfg EXCEPT !.velocityOn = on, !.pointsPerHour = pph])

set_score_floor_policy(on, hwm, f) ==
  /\ hwm \in MIN_SCORE_FLOOR_HWM .. MAX_SCORE
  /\ f < hwm
  /\ SetConfig("floor", [cfg EXCEPT !.floorOn = on, !.highWater = hwm, !.floor = f])

set_finality_buffer(v) ==
  /\ v <= MAX_FINALITY_BUFFER_SECS
  /\ SetConfig("buffer", [cfg EXCEPT !.buffer = v])

\* Checked against the threshold of the moment only.
set_hysteresis_margin(m) ==
  /\ m <= MAX_HYSTERESIS_MARGIN /\ m < cfg.threshold
  /\ SetConfig("margin", [cfg EXCEPT !.margin = m])

\* apply_param_change for "risk_thr", set_risk_threshold's range included
apply_risk_threshold(v) ==
  v <= MAX_SCORE /\ SetConfig("threshold", [cfg EXCEPT !.threshold = v])

\* apply_param_change for "hist_dep", set_history_max_depth's range included
apply_history_depth(d) ==
  d \in 1 .. MAX_HISTORY_DEPTH /\ SetConfig("depth", [cfg EXCEPT !.depth = d])

enable_adaptive_threshold(lo, hi) ==
  /\ lo <= hi
  /\ SetConfig("adaptive", [cfg EXCEPT !.adaptiveOn = TRUE,
                                       !.adaptiveMin = lo, !.adaptiveMax = hi])

disable_adaptive_threshold == SetConfig("adaptive", [cfg EXCEPT !.adaptiveOn = FALSE])

\* Callable by anyone, enabled or not; the result is the configured minimum.
recompute_adaptive_threshold ==
  SetConfig("adaptive",
    [cfg EXCEPT !.computed = IF cfg.adaptiveMin <= cfg.adaptiveMax
                             THEN cfg.adaptiveMin ELSE cfg.adaptiveMax])

-----------------------------------------------------------------------------

Tick(d) ==
  /\ now + d <= MaxTime
  /\ now' = now + d
  /\ UNCHANGED <<gates, cfg, recordVars, statVars, rateVars, pending, caseVars, pastVars>>

SubmitNext ==
  \E k \in Keys, s \in ScoreInputs :
    \/ submit_score_live(k, s)
    \/ submit_score_held(k, s)
    \/ submit_scores_batch(k, s)
    \/ submit_scores_batch_attested(k, s)
    \/ submit_consensus_score(k, s)

KeyNext ==
  \E k \in Keys :
    \/ commit_pending_score(k)
    \/ cancel_pending_score(k)
    \/ clear_score(k)
    \/ clear_score_history(k)
    \/ override_rate_limit(k)
    \/ override_score_velocity_cap(k)
    \/ override_score_floor(k)
    \/ reset_breach_count(k)

LinkNext ==
  \E a \in Wallets, p \in Pairs :
    \/ \E b \in Wallets : add_counterparty_link(a, b, p) \/ remove_counterparty_link(a, b, p)
    \/ \E boost \in Args.boost : propagate_contagion(a, p, boost)

DisputeNext ==
  \E k \in Keys :
    \/ open_score_dispute(k)
    \/ \E s \in ScoreInputs : resolve_dispute_admin(k, s)
    \/ resolve_dispute_timeout(k)

GateNext ==
  \/ pause \/ unpause
  \/ freeze_contract \/ unfreeze_contract
  \/ open_epoch \/ close_epoch
  \/ \E p \in Pairs, b \in BOOLEAN : set_pair_paused(p, b)

ConfigNext ==
  \/ \E v \in Args.cooldown : set_cooldown(v)
  \/ \E p \in Pairs, v \in Args.cooldown : set_pair_cooldown(p, v)
  \/ \E p \in Pairs : clear_pair_cooldown(p)
  \/ \E v \in Args.capacity : set_burst_capacity(v)
  \/ \E v \in Args.velocity : set_score_velocity_cap(v[1], v[2])
  \/ \E v \in Args.floor : set_score_floor_policy(v[1], v[2], v[3])
  \/ \E v \in Args.buffer : set_finality_buffer(v)
  \/ \E v \in Args.margin : set_hysteresis_margin(v)
  \/ \E v \in Args.threshold : apply_risk_threshold(v)
  \/ \E v \in Args.depth : apply_history_depth(v)
  \/ \E v \in Args.adaptive : enable_adaptive_threshold(v[1], v[2])
  \/ disable_adaptive_threshold
  \/ recompute_adaptive_threshold

Next ==
  \/ SubmitNext
  \/ KeyNext
  \/ LinkNext
  \/ DisputeNext
  \/ GateNext
  \/ ConfigNext
  \/ \E d \in TimeSteps : Tick(d)

Spec == Init /\ [][Next]_vars

-----------------------------------------------------------------------------
(* Properties.  A property whose comment names a condition (a path not used,   *)
(* a policy left alone) is checked on instances that meet it.                  *)

Live == {k \in Keys : score[k] # NULL}

PolicyTypeOK ==
  /\ now \in Nat \ {0}
  /\ gates \in [paused : BOOLEAN, frozen : BOOLEAN, epochOpen : BOOLEAN,
                pairsPaused : SUBSET Pairs]
  /\ cfg \in Config

RecordTypeOK ==
  /\ score \in [Keys -> Score \cup {NULL}]
  /\ history \in [Keys -> Seq(Score)]
  /\ pairsOf \in [Wallets -> SUBSET Pairs]
  /\ scoreCount \in [Keys -> Nat]
  /\ pairCount \in [Pairs -> Nat]
  /\ totalScored \in Nat

StatTypeOK ==
  /\ peak \in [Keys -> Score \cup {NULL}]
  /\ histogram \in [Buckets -> Nat]
  /\ breach \in [Keys -> Nat]
  /\ band \in [Keys -> BOOLEAN]
  /\ bandEntry \in [Keys -> Nat \cup {NULL}]

RateTypeOK ==
  /\ lastSubmit \in [Keys -> Nat]
  /\ bucket \in [Keys -> TokenBucket \cup {NULL}]
  /\ velocityPass \in [Keys -> BOOLEAN]

PendingTypeOK == pending \in [Keys -> PendingScoreEntry \cup {NULL}]

CaseTypeOK ==
  /\ links \in [Keys -> SUBSET Wallets]
  /\ dispute \in [Keys -> Nat \cup {NULL}]

PastTypeOK ==
  /\ origin \in [Keys -> Origins]
  /\ bypassed \subseteq Keys /\ uncapped \subseteq Keys /\ uncounted \subseteq Keys
  /\ skewed \subseteq Buckets
  /\ corrections \in [Keys -> Nat]
  /\ erasures \in Nat

\* Every stored value has the type its storage accessor decodes: no counter or
\* bucket ever goes below zero, no score above 100 is stored by any path, boosted
\* and corrected scores included.
TypeOK ==
  /\ PolicyTypeOK /\ RecordTypeOK /\ StatTypeOK /\ RateTypeOK /\ PendingTypeOK
  /\ CaseTypeOK /\ PastTypeOK

\* get_score and get_score_history agree: whichever of the paths that store a
\* score came last, and whatever was evicted or erased, a non-empty ring ends in
\* the live score.  Contagion raises a live score without telling the ring, so
\* the ring of a boosted score ends below it; only where contagion made a score
\* up the two are unrelated.
HistoryTailIsLive ==
  \A k \in Live :
    LET n == Len(history[k])
    IN  n # 0 => /\ origin[k] \in {"submitted", "stored"} => history[k][n] = score[k]
                 /\ origin[k] = "boosted" => history[k][n] < score[k]

\* The pair list compute_aggregate_score walks lists only pairs with a live score,
\* and misses only those whose score contagion made up and no write has replaced
\* since, through submissions, commits, corrections, boosts and erasures in any
\* order.
PairListMatchesScores ==
  \A k \in Keys :
    k[2] \in pairsOf[k[1]] <=> score[k] # NULL /\ origin[k] # "invented"

\* TotalWalletsScored counts every pair that took a write once, although the
\* paths detect a first write in two different ways: it is off by at most the
\* number of live scores that were erased (a pair written again counts again)
\* and by the pairs whose first score came from contagion or from a dispute.
TotalCountsEachPairOnce ==
  LET written == {k \in Keys : scoreCount[k] > 0}
  IN  /\ Cardinality(written \ uncounted) <= totalScored
      /\ totalScored <= Cardinality(written) + erasures

\* Each histogram bucket holds the number of live scores that fall into it, until
\* a writer that does not maintain the histogram (a commit, an attested batch, a
\* boost, a correction, the erasure of a history) moves a score into or out of
\* that very bucket: the error never spreads to other buckets.
HistogramMatchesLive ==
  \A b \in Buckets \ skewed :
    histogram[b] = Cardinality({k \in Live : Bucket(score[k]) = b})

\* Once a pair's ring shows a score at the floor policy's high-water mark, no
\* later entry of the ring is below the floor: neither erasing the live score and
\* submitting afresh nor a boost in between helps.  Pairs that took no commit,
\* attested entry or correction; policy left alone and no peak overridden.
FloorHoldsAlongHistory ==
  cfg.floorOn =>
    \A k \in Keys \ bypassed : \A i, j \in 1 .. Len(history[k]) :
      i < j /\ history[k][i] >= cfg.highWater => history[k][j] >= cfg.floor

\* The band has an entry time exactly while it is entered, and not a future one.
BandMatchesEntry ==
  \A k \in Keys : /\ band[k] <=> bandEntry[k] # NULL
                  /\ band[k] => bandEntry[k] <= now

\* A live score that came from a submission is in the high-risk band when it is at
\* the threshold, is not when it is below the exit line, and may be either in
\* between, whatever commits, boosts, corrections and erasures came before it.
\* Threshold and margin left alone.
BandTracksLive ==
  \A k \in Live : origin[k] = "submitted" =>
    /\ score[k] >= cfg.threshold => band[k]
    /\ score[k] < Monus(cfg.threshold, cfg.margin) => ~band[k]

\* The length of the run of breaching scores at the end of a ring.
TrailingBreaches(h) ==
  Cardinality({i \in 1 .. Len(h) : \A j \in i .. Len(h) : h[j] >= cfg.threshold})

\* The consecutive-breach counter that drives escalation is the run at the end
\* of the history, as far as the ring remembers, across live submissions,
\* batches, consensus writes, boosts and erased live scores.  Pairs that took no
\* commit, attested entry or correction; threshold left alone and no reset.
BreachIsTrailingRun ==
  \A k \in Keys \ bypassed :
    LET n == Len(history[k])
    IN  TrailingBreaches(history[k]) = (IF breach[k] <= n THEN breach[k] ELSE n)

\* Over any stretch of time a pair takes at most one write per elapsed cooldown
\* on top of its burst capacity (1 without a token bucket) and of the corrections
\* the administrator made, whichever mix of paths the writes came through.
\* Cooldown and capacity left alone and no override; with a token bucket,
\* instances without batches.
BurstBound ==
  \A k \in Keys :
    scoreCount[k] <= cfg.capacity + (now - StartTime) \div PairCooldown(k[2])
                     + corrections[k]

\* With the velocity cap on, no sequence of writes moves a score further than
\* one point per write plus what the cap grants for the time that has passed.
\* Pairs that took no commit, correction or boost; cap left alone, no override,
\* no erasure.
DriftBound ==
  cfg.velocityOn =>
    \A k \in Keys \ uncapped : LET n == Len(history[k]) IN
      \A i \in 1 .. n :
        AbsDiff(history[k][n], history[k][i])
          <= (n - i) + (cfg.pointsPerHour * (now - StartTime)) \div 3600

\* Two submissions of a pair that both leave a time stamp, on any path and in
\* any mix of held and live ones, are at least the cooldown in force apart as long
\* as the token bucket is off, whatever the cooldowns were before.
CooldownSpacing ==
  [][\A k \in Keys :
       ~UsesTokenBucket /\ lastSubmit[k] # 0 /\ lastSubmit'[k] \notin {0, lastSubmit[k]}
       => lastSubmit'[k] >= lastSubmit[k] + PairCooldown(k[2])]_vars

\* Under a finality buffer no submitted score becomes live before the reviewers
\* have had the whole window since the pair's latest submission: replacing a held
\* score never shortens it.  What else changes a live score is the correction of
\* an open dispute, which closes it, and contagion, which only raises it and
\* counts no write.  submit_score as the only submission path, buffer left alone
\* and not 0.
FinalityWindowHonoured ==
  [][\A k \in Keys :
       score'[k] # score[k] /\ score'[k] # NULL
       => \/ now >= lastSubmit[k] + cfg.buffer
          \/ dispute[k] # NULL /\ dispute'[k] = NULL
          \/ scoreCount'[k] = scoreCount[k] /\ score'[k] > CurrentScore(k)]_vars

\* Whatever the order of submissions, overrides and changes of cooldown, capacity
\* and buffer, no stored time stamp is ahead of the ledger clock, so none of the
\* saturating subtractions of the rate limiter hides a negative elapsed time,
\* and no held score waits longer than the longest buffer there can be.
StampsNeverAhead ==
  \A k \in Keys :
    /\ lastSubmit[k] <= now
    /\ bucket[k] # NULL => bucket[k].lastRefill <= now
    /\ pending[k] # NULL => pending[k].commitAfter <= now + MAX_FINALITY_BUFFER_SECS

\* A write leaves its ring within the depth in force at that moment, however far
\* the depth was lowered since the ring was filled.
WriteRestoresDepth ==
  [][\A k \in Keys :
       scoreCount'[k] # scoreCount[k] => Len(history'[k]) <= cfg.depth]_vars

=============================================================================
