# Stellar-Lense: a TLA+ verification project

This directory specifies the stateful parts of Stellar-Lense, model-checks them
with TLC and proves their central properties with TLAPS. Two halves of the system
are covered: the `stellar-lense-score` Soroban contract (paths relative to
`src/contracts/soroban/contracts/stellar-lense-score/src/`) and the off-chain
services around it (paths relative to `src/packages/core/`).

## The system

Stellar-Lense computes wash-trading risk scores for Stellar wallets and asset
pairs. A streaming process reads trades from Horizon into rolling windows and
scores them; alerts go out to webhook subscribers; scores are published on a
Soroban contract, which other contracts consult before they trade. A committee
settles disputes about published scores and changes settings, and every process
picks the settings up from a shared table. Most of the Python is numerical; what
can go wrong in an order nobody tested is in the contract, where several parties
call in any order, and in the services that hold obligations across crashes,
retries and lost answers.

### Inventory: the contract

| Component | State | Operations | What is hard |
|---|---|---|---|
| Score ledger | live score, history ring, pair list, submission counters, unique-pair total | `submit_score`, `submit_scores_batch`, `submit_scores_batch_attested`, consensus write, `commit_pending_score`, `clear_score`, `clear_score_history` | seven writers of the live score (with contagion and corrections), each keeping its own subset of the derived state |
| Counterparty links and contagion | links per wallet and pair | `add_counterparty_link`, `remove_counterparty_link`, `propagate_contagion` | open to anyone; writes live scores and nothing else |
| Score disputes | open disputes with a deadline | `open_score_dispute`, `resolve_dispute_admin`, `resolve_dispute_timeout` | a correction writes past every policy |
| Rate limiter, velocity cap | last submission, token bucket, velocity pass | flat and per-pair cooldown, token bucket, cap, overrides | refill arithmetic; a policy that changes under stored records |
| Finality buffer | held score with a commit time | submission into the buffer, replacement, commit by anyone, cancellation | replaced or stale held scores, windows |
| Risk band, breach counter, adaptive threshold | band with entry time, consecutive breaches, thresholds | evaluated by three of the write paths; setters | enter and exit lines differ and move |
| Score floor policy | historical peak, policy | check on three paths, setter, override | erasure and unchecked paths |
| Histogram | ten buckets | every statistics-keeping write, both erasures | erased twice, replaced scores |
| Switches | pause, pair pause, freeze, epoch | setters | each path tests its own subset |
| Upgrade governance | one pending upgrade | propose, execute, veto | its delay is itself a governed setting |
| Parameter governance | proposal queue with index, staged change per key, policy bundle | propose, execute, veto, prune on read, stage, apply, apply bundle | two mechanisms reach the same setting; queue and index |
| Admin authority | admin, pending admin, signer set, threshold, policy approvers | transfer, accept, multisig, two-person control | order of transfers, conflicts of role |
| Service signers | signer set, threshold, expiry, rotation, heartbeat | set, rotate, heartbeat | expiry racing rotation |
| Consensus rounds | commitments, reveals | `commit_consensus`, `reveal_consensus` | late and missing reveals, the median |
| Embargo, delegation, bond escrow | records with deadlines | their entry points | deadlines |
| Gate, fees, failover, staleness | configuration, fee ledger | `query_risk_gate` and relatives | a fallback that is stale |
| Model version registry | versions and statuses | register, deprecate | a version retired under a held score |
| Storage TTL and rent | entry index, TTLs | extension, pruning | entries that expire apart |
| Verkle, ZK, HyperLogLog | commitments, sketches | updates, proofs | arithmetic, out of TLC's reach |
| Events, audit, provenance | append-only output | emission | none: nothing reads it back |
| Aggregator contract | shard list, cached aggregate | its entry points | stale shards |

### Inventory: the services

| Component | State | Operations | What is hard |
|---|---|---|---|
| Chain submission queue | `pending_chain_submissions` rows with status, attempts, backoff, lease | enqueue, claim, mark submitted, mark for retry, abandon; worker loops | leases that run out under a live worker, crashes around a send |
| Soroban publisher | circuit breaker, submission log | `submit_score`: simulate, sign, send, poll, retry once | an outcome that is not known |
| Dispute store | disputes with a vote list, overrides, local scores | `submit_dispute`, `cast_vote` | four transactions per vote, read-modify-write of the list |
| Runtime configuration | `runtime_config`, a cache per process, a counter in Redis | `get`, `invalidate`, `bump_config_version`, `PATCH /admin/config` | order of counter and table, losses, threads |
| Committee governance | committee, proposals, votes, `.env` | submit, vote, close, execute; legacy entry points | close in three transactions, a file changed before a commit, votes of members removed since |
| Webhooks | delivery rows, subscribers with encrypted secrets | enqueue, poll, deliver, fail, deactivate | overlapping polls, lost answers, starvation |
| Stream ingestion | cursor, rolling windows, their checkpoint, legacy cursor file, dedup keys, circuit breaker | `cli.py stream`, `--reset-cursor`, signal handler, historical load | crash between any two steps, replay, skipped records, cursors that come without windows |
| Storage, REST API, GraphQL | the database | queries and request handlers | the writes are the transactions of the components above |
| Detection, features, models | models, feature tables | scoring and training | numerics, out of TLC's reach |
| Bot, web, scripts, deployment | none of their own | I/O | none |

### How they interact

Inside the contract components interact by plain calls of one invocation: the
ledger asks the switches, the limiter and the policies before it writes and
updates histogram, peak, breach counter and band after it; governance changes the
configuration the ledger reads. The services interact through tables: the stream
enqueues alerts that the webhook worker drains; an approved dispute enqueues a
zero-score write that the queue's workers publish through the publisher; the
committee writes `runtime_config`, which every process reads through its cache.
`PROJECT.json` lists every component with its status, and under `hazards` the
places where this code is hard to test, with the properties about each.

### How the contract maps to a transition system

* One contract invocation is one atomic step. The host runs invocations one
  after another and reverts an invocation that returns `Err`, so each check
  becomes a guard and an error path is a step that is not enabled.
* Concurrency is the order in which calls of different parties arrive, and the
  ledger time between them (`Tick`, external).
* `Option::None` is `NULL`; 0 is the code's own encoding of "never submitted".
  Saturating subtraction is `Monus`. Saturating additions of times cannot reach
  the limit of an unsigned 64-bit number of seconds and are plain additions.
* A batch entry that is refused changes nothing and does not affect its
  neighbours, so a batch is a run of single-entry steps at one timestamp.
* Authority is assumed: the caller of an action is one the entry point accepts.
* Left out of the writes, because no decision of the ledger reads them back:
  events, audit log, provenance, Verkle root, running statistics, model and
  cluster statistics, HyperLogLog, the aggregate cache and the heartbeat.
* The model-version registry is empty, flash protection only flags and the
  adaptive rate limit is off, the contract's defaults.

### How the services map to transition systems

* One database transaction, one assignment to shared memory, one request to an
  outside party or one answer from it is a step. A handler that runs several is
  several actions with the handler's locals in between (`ballot`, `closer`,
  `thread`, a worker's `claim` and `seen`), so that other handlers run there.
* The code reads clocks only to compare; a deadline is a flag (`due`, `lease`,
  `open`, `fresh`) or a boundary (`aged`) that a step of its own turns.
* A process that ends loses its variables and keeps its rows. Crashes, lost
  answers and failed look-ups are counted and bounded.
* The outside (network, Horizon, Redis, subscribers) does what the code's own
  branches allow for and no more; those actions are marked external.
* Rows are the columns the code decides by. Wallets, payloads, hashes, errors and
  amounts are left out.

## Modules

| Module | Contents |
|---|---|
| `RateLimit` | admission arithmetic: flat cooldown, token bucket, velocity cap |
| `ScoreLedger` | all entry points that write, hold, commit, cancel, boost, correct or erase a score; links and disputes; switches; policy setters; properties |
| `Timelock` | abstract specification of a time-locked setting |
| `Governance` | upgrade, proposals, staged changes, bundle; refinement mappings to `Timelock` |
| `ChainSubmissionQueue` | the queue of owed chain writes, its workers and the publisher's transactions |
| `DisputeOverrides` | disputes and votes, composed with `ChainSubmissionQueue` |
| `RuntimeConfig` | the settings table, the cache of a process with threads, the counter |
| `CommitteeGovernance` | the off-chain committee, composed with `RuntimeConfig` |
| `WebhookDelivery` | queue, registry and worker of alerts |
| `StreamIngestion` | the stream command with its checkpoints |
| `MC...` | configurations, argument sets, symmetry and state constraints for TLC |
| `..._proof` | the theorems and their proofs |

**`ScoreLedger`.** Its variables are the storage keys of the contract, one
function per map (`score`, `history`, `pairsOf`, `peak`, `bucket`, `pending`...),
the switches in the record `gates`, the policies in the record `cfg`. Operators
that several paths share carry the names of the shared functions
(`StoreScore`, `UpdateScoreStats`, `WriteScoreWithRateLimit`), and every entry
point is an action named after it; `submit_score` is two actions, one per
branch on the finality buffer. The differences between the paths are the point
of the model:

| | pause | pair pause | freeze | epoch | limiter | floor | statistics | threshold |
|---|---|---|---|---|---|---|---|---|
| `submit_score` | x | x | x | x | bucket or flat | x | x | static |
| held submission | x | x | x | x | flat | | | |
| commit | | | | | | | | |
| batch | x | x | | x | flat | x | x | effective |
| attested batch | x | | | x | flat | | | |
| consensus | x | | | | bucket or flat | x | x | static |
| correction | x | | | | | | | |
| contagion | | | | | | | | |

A correction (`resolve_dispute_admin`) stores the score, pushes it to the ring,
registers the pair and counts the write. Contagion (`propagate_contagion`) stores
the score and does nothing else: a missing score counts as 0, so it can make a
score up that no ring, list or counter knows of.

Which writer a live score came from, and what it left behind, is kept in history
variables that no action reads: `origin` (how the live score came about),
`bypassed` (pairs written by a path without statistics: commit, attested batch,
correction), `uncapped` (pairs whose score a commit, correction or boost moved),
`uncounted` (pairs whose first score came from contagion or a correction),
`skewed` (histogram buckets such a write moved a score into or out of),
`corrections` and `erasures`. The properties are stated for all writers and use
them to say exactly where a writer's omission shows: the histogram is wrong in
`skewed` buckets and nowhere else, a band is right again with the next
submission, the ring of a boosted score ends below it.

A risk threshold and a history depth take effect through `apply_risk_threshold`
and `apply_history_depth`, which stand for the end of the time-locked procedure
that `Governance` models in full. `Paths` and `AdminOps` say which entry points
a deployment uses, so that a property that needs a path to be absent (and says so
in its comment) is checked on an instance that meets its condition.

**`Governance`.** `param` is the value of every governed setting, whichever
mechanism changes it. `Valid` is the range check all mechanisms share. Staged
changes never lapse and anyone applies them; proposals carry their own lock, are
vetoed in the first half of it, and expire at twice its length. Pruning marks
lapsed proposals as a side effect of a proposal or of the public read
`get_parameter_proposal`, and is part of those actions. The upgrade delay has
two key symbols in the code (`upg_dly` staged, `upg_dlay` proposed) and is one
setting here. `cleanup_expired_param_proposals` has no action because it changes
no state: it removes keys of persistent storage, and the records are in instance
storage (`storage.rs:913`).

**`Timelock`** promises, for one setting, that a new value takes effect only if
that very value has stood announced for `MinNotice`; offers can be withdrawn,
never altered. `Governance` instantiates it four times. The mapping turns the
pending upgrade into an offer (`UpgradeOffers`) and, for a setting, collects the
staged change, the bundle and the pending proposals that aim at it (`Offers`).

**`ChainSubmissionQueue`.** A row is a record of `status`, `attempts`, whether
`next_attempt_at` has passed and whether `leased_until` has. A worker goes from
`idle` through `ready` (claimed), `sent`, `landed` (the contract accepted the
write) or `failed`, to `marked` and back; it is `down` until `Start`, and after a
crash until it is started again. `Claim`, `MarkSubmitted` and `MarkRetry`
are the three transactions of the queue; `MarkRetry` uses `seen`, the attempts the
worker read when it claimed, as the code does. A transaction whose sender stopped
polling is an orphan that the network may still apply. `slips` counts, per row,
the leases that ran out under a live worker and the sends whose outcome was
lost, be it to the network or to a crash of the sender.

`OnSubmitted` says whether workers are given `apply_submission_result`. The
docstring of that function says it is what `process_once` is called with
(`detection/dispute_store.py:78`); no caller in the repository passes it, and none
calls `run_worker` or `process_once` at all. `queue` checks workers that have the
callback, `overrides` the queue without it. `max_iterations` is left at its
default, no limit.

**`DisputeOverrides`** extends the queue with one dispute. `cast_vote` is
`CastVote` (read and check), `PersistVote` (write the whole list), `Decide`
(verdict) and `RecordObligation` (override, obligation, deletion of the local
score); requests overlap and die between them. `RecordObligation` conjoins the
queue's `Enqueue`, so the composition refines `QueueSpec` by construction; the
lemma `ImplementsQueue` says so and carries the queue's theorems over.

**`RuntimeConfig`.** The value of the table is the number of the last write, so
"older" and "newer" are comparisons. A thread in `get` has read the counter
(`read`), the table (`store`) and stored the mapping (`mark`).

**`CommitteeGovernance`** extends it with committee, proposals and votes.
`ExecuteConfig` and `patch_config` (`PATCH /admin/config`) conjoin `Commit`, so
`ConfigSpec` holds by construction. `env` is the write that `.env` agrees with;
only an executed proposal changes it. `tallied` is the committee as it was when
the outcome was computed, `removed` the members taken off it since the start. One
setting is modelled; PATCH of another key does not concern it.

**`WebhookDelivery`.** `dueQueue` is the result of `get_due_deliveries` without
its limit, in order. Tasks belong to one of two polls, since `gather` raises with
the first task that does and leaves the others running while the worker polls
again. `overlaps` counts, per alert, the polls that took it up while an earlier
task was still at it. A delivery may be for a name that is not `Registered`:
`bridge_loader.py:464` enqueues for one, and such rows stay due for ever.

**`StreamIngestion`.** Trades are numbered in ledger order, a paging token is the
number of the last trade before it, and a window is the number of times each
trade was added. The loop's body is three steps (`Score`, `Advance`,
`Checkpoint`) because the signal handler can run between them; decoding,
deduplication and the circuit breaker are the alternatives for the next event.
A start takes its cursor from the checkpoint row, else from the JSON file of
earlier releases (`legacy`; nothing writes it any more, a rejected cursor and
`--reset-cursor` delete it), else from `HORIZON_DEFAULT_CURSOR` (`Defaults`: "now"
or a token). Only the row was saved together with the windows. `SeedHistory`
records what the others do: trades before the token that the windows lack are
passed over (`missed`), and trades after it that they hold will be counted again
(`rewound`).

Definitions whose comment starts with "Fault:" are seeded faults, used to make
sure that each property can fail.

## Runs

| Run | Instance | What it checks |
|---|---|---|
| `ledger_direct` | 2 wallets, 1 pair, 4 scores; submit and batch, links, boosts, a dispute, an erasure; ring of 3, margin 10, floor policy on | `BreachIsTrailingRun`, `BandTracksLive`, `HistogramMatchesLive`, `FloorHoldsAlongHistory` |
| `ledger_buffered` | 2 wallets, buffer 5400 s over cooldown 3600 s; hold, replace, commit, cancel, override, erase, boost, correct | `HistoryTailIsLive`, `PairListMatchesScores`, `TotalCountsEachPairOnce`, `FinalityWindowHonoured` |
| `ledger_burst` | capacity 3, velocity cap 20 per hour, submit and consensus, boosts and a dispute, up to 5 writes | `BurstBound`, `DriftBound` |
| `ledger_admin` | submissions, attested batches, commits and erasures; every setter, override and switch, legal and illegal values, one away from its default at a time | `StampsNeverAhead`, `TypeOK`, `CooldownSpacing` |
| `governance` | 2 code hashes; delay, threshold, depth and staleness by every mechanism, direct setters, bundle; 5 days | `TypeOK`, `PendingIndexExact`, `DecidedOnce`, `UpgradeTimelocked`, `DelayTimelocked`, `ThresholdTimelocked` |
| `queue` | 1 row, 2 workers with the callback, 2 attempts, a crash, a stolen lease, lost outcomes | `WritesWithinSlips`, `SubmittedIsOnChain`, `MirrorGapNeedsCrash`, `ClosedStaysClosed`, `ObligationsSettle` |
| `overrides` | 3 voters, quorum 2, 2 override ids, 1 worker without the callback, a request that dies | `RemovalBackedByVotes`, `RemovalIsOwed`, `SerialOneObligation`, `ApprovalGapNeedsDeath` |
| `runtime_config` | 2 threads, 2 writes, a failed read, a lost counter, lost bumps | `SeenBringsChange`, `ConfigConverges` |
| `committee` | 2 keys (one enrols later), a setting and a removal, 2 closers, PATCH, an execution that dies | `EffectNeedsMajority`, `ExecutedOnce`, `EnvAgrees` |
| `webhooks` | 2 subscribers and a name that is none, an alert each, 1 task at a time, 2 attempts, a fault | `DuplicatesAccounted`, `AlertsSettle` |
| `stream` | 3 trades, one from before the upgrade, one malformed, one backfilled; every start cursor; checkpoint every 2, circuit at 2, 2 faults or resets, a signal | `CheckpointCovers`, `CountedOnce`, `TradesReachWindows` |
| `stream_violation` | 3 trades, a fault | `TokenSkipsNothing`, a sentence of the documentation that the code does not keep |

All runs but the last pass. `WriteRestoresDepth`, `BandMatchesEntry`, `DepthTimelocked`,
`StalenessTimelocked`, `QueueTypeOK` and `DisputeTypeOK` are stated beside these and have no run of their own: the
theorems below prove them. What they show, besides the contract's properties:

* **Writes.** "One successful on-chain write per originating decision" is what
  the queue gives as long as every worker outlives neither its lease nor the
  polling of its transaction; each slip costs at most one more write, and crashes
  before a send cost none (`WritesWithinSlips`). A zero-score write is idempotent
  on the contract, so the extra ones are harmless there.
* **Closed rows** stay closed unless a lease was lost (`ClosedStaysClosed`), and in
  every case each row is settled for good in the end, unless from some moment on no
  worker runs (`ObligationsSettle`).
* **Disputes.** No interleaving removes a score without two thirds of a quorum of
  distinct members asking for it, or without its obligation. Requests that do not
  overlap leave one obligation; overlapping ones may leave one each, and both
  are carried out.
* **Settings** converge whatever is lost; a bump that was seen brings its write as
  long as threads do not overlap in `get`.
* **Committee.** An effect that no removed member voted for has a majority of the
  members that its tally counted. One execution per proposal holds unless two
  closers overlapped on it. `.env` follows the table until a PATCH.
* **Alerts.** Each request beyond the first has a fault or an overlapping poll of
  its own; settling needs that undeliverable rows do not fill a poll.
* **Stream.** The cursor is never durably ahead of the windows, at any crash or
  signal; nothing is counted twice unless a signal fell between two statements or
  a start took a token that lay behind the windows.

### Bounds and why they are enough

All times, limits and thresholds of the contract are its own values; only the
arguments are sampled. `MaxTime` bounds the clock, `MaxWrites` the accepted
writes per pair, `MaxProposals` the proposals ever made.

* Scores 10, 50, 70 and 90 are below the floor (20), between, in the hysteresis
  band (65 to 74) and above threshold and high-water mark; 101 is refused. The
  velocity instance uses 0, 1, 20 and 40: one point, exactly one hour of drift,
  and too much.
* Clock steps of 1800 and 3600 seconds fall short of, and meet, a cooldown of
  3600, and 604801 outlasts a dispute; a buffer of 5400 lies between one and two cooldowns, so a held score can
  be replaced before it may be committed. `ledger_admin` has a cooldown of 2400, so
  that a clock step leaves a remainder in the refill arithmetic.
* A ring of three with four writes overflows; a change of the depth to 1 makes a
  write evict several entries at once. Five writes exceed what a bucket of three
  grants in one hour (four).
* A boost of 60 takes a score of 10 into the hysteresis band and 50 over the
  threshold; one of 100 caps every score. One dispute at a time, one boosted or
  corrected wallet (`OneException`, `OneDispute`, `OneScored`, `FewCases`) are
  bounds of the instances: the other wallet shows that nothing spills over. The
  proofs have none of them.
* `OneChange` keeps `ledger_admin` to one setting or switch away from its initial
  value at a time: each is changed, and changed back, between any two writes.
  `FewChanges` keeps `governance` to three announcements, decided proposals and
  changed settings together, enough for two mechanisms to race for one setting
  while an upgrade waits. The proofs have neither constraint.
* Governance steps of one day hit the staging delay (1 day), the veto deadline
  of a two-day lock (1 day), the lock (2 and 3 days) and the expiry (4 days)
  exactly, and pass each. A queue limit of one is filled, and emptied by pruning,
  with two proposals; the contract's limit of ten is a parameter of the proof.
* Two attempts of the queue are the least that has a retry and an abandoned row;
  two workers, one stolen lease and one crash are the least in which a row is
  worked on twice, closed by one worker and reopened by the other. Rows do not
  interact, so one row is enough there; `overrides` has two.
* Three voters with a quorum of two have overlapping majorities and a vote too
  many. One worker suffices because `queue` has two.
* Two writes let a cache hold an older one and the newer be lost; two threads are
  the least that overlap.
* A committee of one that grows to two and shrinks again changes its quorum
  between votes, tally and execution. Readers of the settings are checked in
  `runtime_config`, so `committee` has none.
* Three trades with a checkpoint every two events, or at any event by the time
  bound, give a durable prefix, an unsaved suffix, a poison record and a trade that
  another process stored; with a trade of before the upgrade, saved windows may
  hold it or not and the legacy token may be before or behind it. Two faults are
  the least that open the circuit, kill a restarted process, or reset its cursor
  and then fail.
* Where an instance runs out of work (clock, rows, trades) deadlock is not
  checked. `runtime_config` never runs out and checks it.
* `ledger_direct` and `ledger_buffered` use symmetry of their wallets, `overrides` of voters and ids,
  `committee` of closers: no definition tells them apart, and these runs check
  safety only.

### Fairness

The contract acts only when called, and no progress is claimed for it. For the
services:

* `QueueFairness`: a worker loop that runs keeps taking steps (`run_worker` is a
  `while` loop around a bounded attempt) and clocks pass deadlines. That one is
  started, or started again after an exception of `claim_next_due` or of the
  callback ended it, is not assumed: nothing in the repository does it, and
  `ObligationsSettle` has "no worker runs from some moment on" as its other
  outcome. Crashes are finitely many. Landing is a step of the worker's weakly
  fair alternatives, not an assumption of its own: a send may fail every time, and
  the row is then abandoned.
* `ConfigFairness`: requests keep coming, a writer that has committed goes on to
  its bump (which may still fail), the time to live elapses.
* `WebhookDelivery!Fairness`: the worker polls, every task ends because
  `REQUEST_TIMEOUT` bounds its request, backoffs elapse.
* `StreamIngestion!FairSpec`: a running process takes its steps. That it runs again
  after it ended is the condition `[]<>(pc # "down")` of the property itself: the
  supervisor that restarts it is not part of the repository.

### Where code and documentation disagree

The stream is the one that is checked as a run of its own:

* **Replay window** (`stream_violation`). `docs/ingestion.md:71` says that a crash
  "does not skip events after the durable token". A process that was down for
  longer than the replay window (an hour by default) is sent the missed trades,
  `is_duplicate` classifies them as replays and `_check_trade_dedup` skips them.

Seen while modelling, and part of the models:

* **Freeze.** `freeze_contract` promises that all mutating operations are
  rejected (`lib.rs:6713`, `incident-response-runbook.md:27`); only `submit_score`
  tests the switch.
* **Floor.** `commit_pending_score`, `submit_scores_batch_attested` and
  `resolve_dispute_admin` do not consult the floor policy (`lib.rs:9434`). On pairs
  they did not write the policy holds (`ledger_direct`).
* **Histogram.** `clear_score_history` takes the live score out of the histogram,
  against `invariants.rs:29`; commits, attested batches, corrections and contagion
  do not touch it. The buckets none of them moved a score into or out of are exact
  (`ledger_direct`).
* **Contagion** is open to anyone, paused or frozen, whatever score is held in the
  buffer, and makes up scores that no pair list or counter knows of.
* **Corrections.** A comment says that a correction "always applies to an
  already-scored wallet-pair" (`lib.rs:8418`) and therefore does not count a scored
  pair; `open_score_dispute` does not ask for a score, so the first write of a pair
  may be one. `TotalCountsEachPairOnce` leaves such pairs (`uncounted`) out.
* **Override.** `override_rate_limit` does not touch the token bucket, so the
  next submission may still be refused (`lib.rs:9066`).
* **Obligation.** `chain_submission_queue.py:22` has the obligation commit with the
  state change it accompanies. It commits with the deletion of the score, but the
  verdict commits before both; a request that dies in between leaves an approved
  dispute that owes nothing (`ApprovalGapNeedsDeath` says that only a death does).
* **Starvation.** `webhook_queue.py` keeps items pending until acknowledged. Rows
  of deactivated subscribers are never marked, sort first, and can fill every
  poll's limit of 50; so do the rows that `bridge_loader` enqueues for a subscriber
  that is not registered. `AlertsSettle` states the condition.
* **Callback.** `dispute_store.py:78` describes `apply_submission_result` as what
  `process_once` is called with; nothing passes it, so as wired every override
  reads 'pending' for ever, and `MirrorGapNeedsCrash` is about workers that have it.
* **Committee.** `execute_proposal` "never leaves partial state"
  (`governance.py:467`); `.env` is replaced before the commit. An overlapping
  `close_expired` can write 'passed' over 'executed'. And the tally counts votes of
  members removed since against the size of the committee that is left, so that a
  proposal may pass without more than half of the committee (`governance.py:4`).
* **PATCH.** `PATCH /admin/config` writes the table and not `.env`, so a process
  that restarts before it reads the table has the older setting.
* **Configuration.** Overlapping threads can leave an older mapping under a newer
  version until the time to live elapses.
* **Stream.** `mark_seen` is called without a key, which the audit table refuses:
  every trade ends in a reconnection, and live trades are never recorded as seen.
  A failed look-up of a key loses the trade because the cursor has moved. An
  undecodable payload is passed over. A record that does not parse is met again
  after every restart. A signal between scoring and advancing saves a trade that
  will be counted again. After `--reset-cursor`, which keeps the windows, a token as
  `HORIZON_DEFAULT_CURSOR` replays trades that they hold, and so may the legacy
  cursor of an upgraded deployment: both count trades twice without any fault.

## Proofs

The theorems hold for every set of wallets, pairs, code hashes, arguments, workers,
rows and threads, for every configuration and every bound that satisfies the
modules' assumptions (`QueueAssumption`, `DisputeAssumption`, `StreamAssumption`...:
finite sets of actors, bounds that are naturals). For the contract, times and bounds are naturals too, the initial configuration is
well formed (`ConfigAssumption`, `GovernanceAssumption`), and arguments have the
types the contract's interface gives them (`ArgsAssumption`), whether legal or not.

| Theorem | Statement | Argument |
|---|---|---|
| `ScoreLedger_proof!TypeCorrect` | `[]TypeOK` | inductive by itself; histogram stays natural because erasure saturates, a charged bucket because it was not empty |
| `RecordsAgree`, `PairListExact` | `[](HistoryTailIsLive /\ PairListMatchesScores)`, no condition | inductive together with `TypeOK` and `OriginKnown`; `RecordStep` and `ContagionStep` reduce any step to store, boost, erase, drop ring or nothing; `TrimProperties` says eviction keeps the last entry |
| `DepthRestored` | `WriteRestoresDepth` | `RecordStep` and `TrimProperties` |
| `BandEntryRecorded` | `[]BandMatchesEntry` | inductive with `TypeOK`; `BandStep` |
| `BandFollowsScore` | `[]BandTracksLive`, where threshold and margin are left alone and the adaptive threshold is off | inductive together with `FixedBand`: every submission evaluates the band at the same lines, from whatever state a boost or a correction left it in |
| `FloorKept` | `[]FloorHoldsAlongHistory`, where the policy is left alone and no peak overridden | strengthened by `PeakCoversHistory`: no entry of a ring is above the peak, which erasure leaves alone. The property alone says nothing of what the next write is compared with |
| `BreachesCounted` | `[]BreachIsTrailingRun`, where the threshold is left alone and no counter reset | `RunInv` says where the run starts instead of how long it is (`EndsInRun`); `RunPushed` carries it over a write and its evictions, `RunLength` turns it into the cardinality of the property |
| `PairsCountedOnce` | `[]TotalCountsEachPairOnce`, no condition | `CountInv`: the surplus of the total and the erased pairs that may be counted again are together covered by the erasures; a live score of a pair without a write came from contagion |
| `HistogramExact` | `[]HistogramMatchesLive`, no condition | `HistogramInv` adds that the scores of an exact bucket are finitely many; `HistogramErased`: an exact bucket that counts the erased score is not empty, so the subtraction does not saturate there |
| `ScoreLedgerTiming_proof!StampsBounded` | `[]StampsNeverAhead` | `RefillNotAhead`: whole periods never add up to more than the elapsed time |
| `SubmissionsSpaced` | `CooldownSpacing` | every stamping path evaluates the cooldown while the bucket is off |
| `WindowHonoured` | `FinalityWindowHonoured`, for deployments where `submit_score` is the only submission path and the buffer is on and left alone | strengthened by `HeldInv`: a held score's commit time is at least the latest stamp plus the buffer. The property alone is not inductive: it says nothing of a score still held |
| `CooldownLimitsWrites` | `[]BurstBound`, for capacity 1, rates left alone, no override | `FlatInv`: writes taken (corrections apart) and the one a held score will take are at most one more than the whole cooldowns up to the latest stamp |
| `BucketLimitsWrites` | `[]BurstBound`, for a larger capacity, rates left alone, `submit_score` without a buffer and the consensus paths | `BucketInv`: writes and unspent tokens are at most the capacity plus the whole periods up to the refill time (`Funded`); `TakeTokenFunded` carries the account over a charge |
| `DriftCapped` | `[]DriftBound`, where the cap is left alone and neither a score nor a stamp is erased | `DriftInv`: the drift up to the latest stamp of the pairs no uncapped write moved, and that their live scores have one. `GrantsAddUp`: what is granted for two stretches, each rounded down, is granted for the whole |
| `Governance_proof!TypeCorrect` | `[]TypeOK` | inductive; every value is validated when announced, hence still valid when applied |
| `PendingIndexCorrect` | `[]PendingIndexExact` | `QueueStep` reduces a step to adding one proposal or marking pending ones |
| `ProposalsDecidedOnce` | `DecidedOnce` | `QueueStep` and `MarkedRecords` |
| `UpgradeLocked` | `Spec => UpgradeLock!Spec` | `LocksKept`: a pending upgrade opens no earlier than 48 hours after it was announced. This needs the bound of the delay in `TypeOK`, which two mechanisms could break |
| `DelayLocked`, `ThresholdLocked`, `DepthLocked`, `StalenessLocked` | `Spec => ...Lock!Spec` | `NoticeStep`: for every staged key, each step is a step of `Timelock` or a stutter. It needs `LocksKept` and, because offers are read off the index, `PendingIndexExact` |
| `ChainSubmissionQueue_proof!WritesBounded` | `[]WritesWithinSlips` | not inductive: it does not count transactions under way. `WritesPaid` does: writes, orphans, workers that have sent or are about to send, and the send an open row still owes, are together at most one more than the slips |
| `ReportsTrue`, `MirrorFollows`, `ClosedForGood`, `QueueTypeCorrect` | `[]SubmittedIsOnChain`, `[]MirrorGapNeedsCrash`, `ClosedStaysClosed`, `[]QueueTypeOK` | parts and consequences of `QueueInv`: `LandedIsOnChain` ties a worker's place to the chain, `ClaimsHeld` a worker to its row; `LeasesHold` says that until a lease runs out under a live worker no two work on one row |
| `DisputeOverrides_proof!OverridesWritten` | `[]WritesWithinSlips` and `[]SubmittedIsOnChain` of the composition | the lemma `ImplementsQueue`, by construction, and the queue's theorems |
| `RemovalsBacked` | `[]RemovalBackedByVotes` | `ListsHonest`: every list, stored or held by a request, records only votes that were cast, so a stale list can lose a vote and never invent one; `ResolvedBacked` carries the supermajority from verdict to removal |
| `RemovalsOwed`, `ApprovalGapExplained`, `SerialRequestsOweOnce`, `DisputeTypeCorrect` | `[]RemovalIsOwed`, `[]ApprovalGapNeedsDeath`, `[]SerialOneObligation`, `[]DisputeTypeOK` | parts of `DisputeInv`; `Serial` says that without an overlap a request under way is alone and nothing has been recorded before it |
| `CommitteeGovernance_proof!SeenIsServed` | `[]SeenBringsChange` | `CounterBehind`: the counter is never ahead of the table; `ReadsCover`: a thread's mapping is at least as new as the version it read before |
| `DecisionsServed` | `[]SeenBringsChange` of the composition | the lemma `ImplementsConfig`, by construction, and `SeenIsServed` |
| `EffectsHaveMajority` | `[]EffectNeedsMajority` | `TalliesHonest`: a closer's count never exceeds the votes cast, which only grow; `VotersSeated`: whoever voted is on the committee or was removed, so that without removed voters the counted votes are votes of members |
| `ExecutionsOnce`, `EnvFollows` | `[]ExecutedOnce`, `[]EnvAgrees` | `ClosedAlone`: unless closers overlapped, a proposal that was carried out has no closer left to reopen it |
| `WebhookDelivery_proof!RequestsAccounted`, `TypeCorrect`, `DueOnce` | `[]DuplicatesAccounted`, `[]TypeOK`, `[]OneEach` | `RowInv`: a row is due at most once and only after it was enqueued. `Account`: the requests received, those that tasks under way may still make and the one a pending row is good for are covered by the first request, the faults and the overlapping polls. The property alone does not see what tasks are about to do |
| `StreamIngestion_proof!CheckpointCovered` | `[]CheckpointCovers`, no condition | `CoverInv`: the same of the cursor in memory, at each place of the loop's body and from whichever cursor a start took |
| `TradesCountedOnce` | `[]CountedOnce` | `OnceInv`: unless a signal tore or a start rewound, what a connection will deliver next lies after everything the windows count |

The conditions in the second column are the ones the comments of the properties
name: the write paths a deployment uses (`Paths`), the administrative operations
it does not (`AdminOps`), and a few initial settings. `HoldsNothing` is the
condition that no submission is ever held back: `submit_score` is not used, or the
finality buffer is 0 and stays so. Where the table says nothing of paths, the
theorem is about every writer of the model, contagion and corrections included; what
the statistics (band, floor, breaches, histogram) owe to the writers that skip them
is in the properties, through the history variables, and not in the conditions.
`KeepsThreshold`, `KeepsRates` and `KeepsVelocity` say which settings stay.
`SettingsKept` is the lemma that they do.

Every invariant that a run checks is the statement of a theorem. Checked by TLC
only are the liveness properties (`ObligationsSettle`, `ConfigConverges`,
`AlertsSettle`, `TradesReachWindows`), since the prover does not handle fairness.

## Not modelled, and why

* Detection, features, training, causal and graph analysis, currency
  normalisation, in `src/packages/core/detection` and `src/data/pipelines`:
  floating-point numerics over external data. This is by far the larger part of
  the repository's Python; it has next to no state machine, and modelling its
  formulas over a handful of integers would say nothing about it.
* Storage, REST API, GraphQL, dashboards, bot, web: queries, routing and
  presentation. The handlers that change the state of a modelled component are
  actions of its module.
* Cryptography and sketches (Verkle tree, range proofs, HyperLogLog): finite
  field and hash arithmetic is out of reach of explicit-state checking.
* Events, audit log, provenance: output only. Deployment scripts and data: no
  program state.
* Storage expiry: the risk band lives in temporary storage and can expire
  between two writes; the ledger is modelled with entries that stay.
* The bonds of disputes: sealed commitment and reveal, limit per challenger, token
  transfers. Opening and settling a dispute are modelled without them.
* The contract's admin authority, signer rules, consensus rounds, embargo,
  delegation, escrow, read side, rent index and the aggregator contract: who may
  call, and records that no modelled write path reads under the default
  configuration.
* The publisher's batch, quorum and failover submission, the asyncio
  `HorizonStreamer`, registration of webhooks.

## Plan

Built in this order: the ledger with its limiter, buffer, policies and switches,
then governance of what it reads; then the services that carry obligations
across failures, the queue with the disputes that feed it, the settings with the
committee that changes them, webhooks, and the stream. Next:

1. Proofs that weaken the conditions of the ledger's theorems: the floor and the
   band across a change of the policy, counted from the change on.
2. The account of a mixed deployment, a token bucket together with batches that
   go by the flat cooldown.
3. `HorizonStreamer` with its bounded queue and overflow strategies, composed with
   `StreamIngestion`; the publisher's failover and submission lease across regions.
4. `AdminAuthority`, `ServiceSigners` and `ConsensusRound` of the contract, the
   last composed with `ScoreLedger`'s consensus write.
5. Liveness of held scores, with relative ages instead of absolute time: a held
   score is committed if the service stops replacing it and someone keeps calling
   `commit_pending_score`.

## Running

    tlc -workers 2 -config ledger_direct.cfg MCScoreLedger
    tlc -workers 2 -config queue.cfg ChainSubmissionQueue
    tlapm ScoreLedger_proof.tla
