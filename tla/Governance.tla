----------------------------- MODULE Governance -----------------------------
(***************************************************************************)
(* Time-locked governance of the stellar-lense-score contract.  Four       *)
(* mechanisms share one clock and, in part, the same settings:             *)
(*   - the upgrade proposal: one slot, executed or vetoed by the admin;    *)
(*   - parameter proposals: a queue with a service veto in the first half  *)
(*     of the lock, an execution window and an expiry;                     *)
(*   - staged parameter changes: one slot per key, applied by anyone;      *)
(*   - the policy bundle: threshold and cooldown staged together.          *)
(* The upgrade delay, itself a setting, is the lock of new upgrade and     *)
(* parameter proposals.  Every call is one atomic step; a call that fails  *)
(* changes nothing.  Callers hold the authority each entry point asks for: *)
(* the multisig approvals propose_upgrade may first collect, and the pause *)
(* test of set_decay_rate, only disable steps and are left out.            *)
(***************************************************************************)
EXTENDS Integers, FiniteSets

CONSTANTS
  NULL,
  WasmHashes, Wasm0,                  \* code hashes, the installed one
  Param0,                             \* settings after initialize
  StageInputs, ProposeInputs,         \* <<key, value>> arguments, valid or not
  DirectInputs, BundleInputs,
  MAX_PENDING_PARAMETER_PROPOSALS,
  StartTime, TimeSteps, MaxTime,      \* bound: ledger clock
  MaxProposals                        \* bound: parameter proposals ever made

MIN_UPGRADE_DELAY_SECS == 172800
MAX_UPGRADE_DELAY_SECS == 1209600
DEFAULT_PARAM_CHANGE_DELAY_SECS == 86400

\* Settings each mechanism reaches.  The upgrade delay has two keys in the code,
\* "upg_dly" when staged and "upg_dlay" in proposals, and one here.
StagedKeys   == {"risk_thr", "hist_dep", "upg_dly", "stale_w"}
ProposalKeys == {"cooldown", "hist_dep", "decay_rt", "vel_cap", "upg_dly"}
DirectKeys   == {"cooldown", "decay_rt", "vel_cap"}
ParamKeys    == StagedKeys \cup ProposalKeys

\* Fault: the upgrade delay has no lower bound.
ValidWithoutMinimum(key, v) ==
  \/ key = "risk_thr" /\ v \in 0 .. 100
  \/ key = "hist_dep" /\ v \in 1 .. 50
  \/ key = "cooldown" /\ v \in 60 .. 86400
  \/ key = "stale_w"  /\ v \in Nat \ {0}
  \/ key = "upg_dly"  /\ v \in 0 .. MAX_UPGRADE_DELAY_SECS
  \/ key = "decay_rt" /\ v \in Nat \X (Nat \ {0}) /\ v[1] <= v[2]
  \/ key = "vel_cap"  /\ v \in BOOLEAN \X Nat

\* The range every entry point that sets or announces a value checks.
Valid(key, v) ==
  \/ key = "risk_thr" /\ v \in 0 .. 100
  \/ key = "hist_dep" /\ v \in 1 .. 50
  \/ key = "cooldown" /\ v \in 60 .. 86400
  \/ key = "stale_w"  /\ v \in Nat \ {0}
  \/ key = "upg_dly"  /\ v \in MIN_UPGRADE_DELAY_SECS .. MAX_UPGRADE_DELAY_SECS
  \/ key = "decay_rt" /\ v \in Nat \X (Nat \ {0}) /\ v[1] <= v[2]
  \/ key = "vel_cap"  /\ v \in BOOLEAN \X Nat

ASSUME GovernanceAssumption ==
  /\ NULL \notin Int
  /\ Wasm0 \in WasmHashes
  /\ Param0 = [key \in ParamKeys |-> Param0[key]]
  /\ \A key \in ParamKeys : Valid(key, Param0[key])
  /\ StartTime \in Nat /\ TimeSteps \subseteq Nat \ {0} /\ MaxTime \in Nat
  /\ MAX_PENDING_PARAMETER_PROPOSALS \in Nat /\ MaxProposals \in Nat

VARIABLES
  now,         \* ledger timestamp
  param,       \* value of each setting
  wasm,        \* installed code
  upgrade,     \* PendingUpgrade
  staged,      \* PendingParamChange of each key
  bundle,      \* PendingPolicyBundle
  proposals,   \* ParameterProposal records, by id
  nextId,      \* ParameterProposalNextId
  pendingIds   \* PendingParameterProposalIds

vars == <<now, param, wasm, upgrade, staged, bundle, proposals, nextId, pendingIds>>

Init ==
  /\ now = StartTime
  /\ param = Param0
  /\ wasm = Wasm0
  /\ upgrade = NULL
  /\ staged = [key \in StagedKeys |-> NULL]
  /\ bundle = NULL
  /\ proposals = [i \in {} |-> NULL]
  /\ nextId = 1
  /\ pendingIds = {}

-----------------------------------------------------------------------------
(* Contract upgrade *)

propose_upgrade(h) ==
  /\ upgrade = NULL
  /\ upgrade' = [hash |-> h, proposedAt |-> now, executableAfter |-> now + param["upg_dly"]]
  /\ UNCHANGED <<now, param, wasm, staged, bundle, proposals, nextId, pendingIds>>

execute_upgrade ==
  /\ upgrade # NULL
  /\ now >= upgrade.executableAfter
  /\ wasm' = upgrade.hash
  /\ upgrade' = NULL
  /\ UNCHANGED <<now, param, staged, bundle, proposals, nextId, pendingIds>>

veto_upgrade ==
  /\ upgrade # NULL
  /\ upgrade' = NULL
  /\ UNCHANGED <<now, param, wasm, staged, bundle, proposals, nextId, pendingIds>>

-----------------------------------------------------------------------------
(* Staged changes and the policy bundle *)

StageParamChange(key, v) ==
  /\ Valid(key, v)
  /\ staged[key] = NULL
  /\ staged' = [staged EXCEPT ![key] =
                  [value |-> v, proposedAt |-> now,
                   applyAfter |-> now + DEFAULT_PARAM_CHANGE_DELAY_SECS]]
  /\ UNCHANGED <<now, param, wasm, upgrade, bundle, proposals, nextId, pendingIds>>

set_risk_threshold(v)    == StageParamChange("risk_thr", v)
set_history_max_depth(v) == StageParamChange("hist_dep", v)
set_upgrade_delay(v)     == StageParamChange("upg_dly", v)
set_staleness_window(v)  == StageParamChange("stale_w", v)

\* Fault: the value is applied as soon as it is staged.
ApplyAtOnce(key) ==
  /\ staged[key] # NULL
  /\ param' = [param EXCEPT ![key] = staged[key].value]
  /\ staged' = [staged EXCEPT ![key] = NULL]
  /\ UNCHANGED <<now, wasm, upgrade, bundle, proposals, nextId, pendingIds>>

\* Open to anyone; a staged change never lapses and cannot be withdrawn.
apply_param_change(key) ==
  /\ staged[key] # NULL
  /\ now >= staged[key].applyAfter
  /\ param' = [param EXCEPT ![key] = staged[key].value]
  /\ staged' = [staged EXCEPT ![key] = NULL]
  /\ UNCHANGED <<now, wasm, upgrade, bundle, proposals, nextId, pendingIds>>

propose_policy_bundle(thr, cooldown) ==
  /\ Valid("risk_thr", thr) /\ Valid("cooldown", cooldown)
  /\ bundle = NULL
  /\ bundle' = [threshold |-> thr, cooldown |-> cooldown, proposedAt |-> now,
                applyAfter |-> now + DEFAULT_PARAM_CHANGE_DELAY_SECS]
  /\ UNCHANGED <<now, param, wasm, upgrade, staged, proposals, nextId, pendingIds>>

apply_policy_bundle ==
  /\ bundle # NULL
  /\ now >= bundle.applyAfter
  /\ param' = [param EXCEPT !["risk_thr"] = bundle.threshold,
                            !["cooldown"] = bundle.cooldown]
  /\ bundle' = NULL
  /\ UNCHANGED <<now, wasm, upgrade, staged, proposals, nextId, pendingIds>>

\* set_cooldown, set_score_velocity_cap and set_decay_rate take effect at once.
SetDirectly(key, v) ==
  /\ Valid(key, v)
  /\ param' = [param EXCEPT ![key] = v]
  /\ UNCHANGED <<now, wasm, upgrade, staged, bundle, proposals, nextId, pendingIds>>

-----------------------------------------------------------------------------
(* Parameter proposals *)

Expired(p) == now > p.proposedAt + 2 * p.lock

Marked(ids, status) ==
  [i \in DOMAIN proposals |->
     IF i \in ids THEN [proposals[i] EXCEPT !.status = status] ELSE proposals[i]]

\* Fault: a marked proposal stays in the index.
MarkRecordOnly(ids, status) == proposals' = Marked(ids, status) /\ UNCHANGED pendingIds

\* mark_parameter_proposal_status, for one id or several
MarkStatus(ids, status) ==
  /\ proposals' = Marked(ids, status)
  /\ pendingIds' = pendingIds \ ids

\* What prune_expired_parameter_proposals marks.
LapsedIds ==
  {i \in pendingIds : proposals[i].status = "Pending" /\ Expired(proposals[i])}

\* Lapsed proposals are marked before the queue is measured.
propose_parameter_change(key, v) ==
  /\ nextId <= MaxProposals
  /\ Valid(key, v)
  /\ Cardinality(pendingIds \ LapsedIds) < MAX_PENDING_PARAMETER_PROPOSALS
  /\ param["upg_dly"] >= MIN_UPGRADE_DELAY_SECS
  /\ proposals' = [i \in 1 .. nextId |->
                     IF i = nextId
                     THEN [key |-> key, value |-> v, proposedAt |-> now,
                           lock |-> param["upg_dly"], status |-> "Pending"]
                     ELSE Marked(LapsedIds, "Expired")[i]]
  /\ pendingIds' = (pendingIds \ LapsedIds) \cup {nextId}
  /\ nextId' = nextId + 1
  /\ UNCHANGED <<now, param, wasm, upgrade, staged, bundle>>

\* Fault: only an executed proposal is refused.
ExecuteVetoed(i) ==
  /\ proposals[i].status # "Executed"
  /\ ~Expired(proposals[i])
  /\ now >= proposals[i].proposedAt + proposals[i].lock
  /\ param' = [param EXCEPT ![proposals[i].key] = proposals[i].value]
  /\ MarkStatus({i}, "Executed")
  /\ UNCHANGED <<now, wasm, upgrade, staged, bundle, nextId>>

execute_parameter_change(i) ==
  /\ proposals[i].status = "Pending"
  /\ ~Expired(proposals[i])
  /\ now >= proposals[i].proposedAt + proposals[i].lock
  /\ param' = [param EXCEPT ![proposals[i].key] = proposals[i].value]
  /\ MarkStatus({i}, "Executed")
  /\ UNCHANGED <<now, wasm, upgrade, staged, bundle, nextId>>

\* By the service, in the first half of the lock.
veto_parameter_change(i) ==
  /\ proposals[i].status = "Pending"
  /\ now <= proposals[i].proposedAt + proposals[i].lock \div 2
  /\ MarkStatus({i}, "Vetoed")
  /\ UNCHANGED <<now, param, wasm, upgrade, staged, bundle, nextId>>

\* A public read that marks lapsed proposals as it goes.
get_parameter_proposal ==
  /\ MarkStatus(LapsedIds, "Expired")
  /\ UNCHANGED <<now, param, wasm, upgrade, staged, bundle, nextId>>

\* cleanup_expired_param_proposals has no action: the records are in instance
\* storage and it removes keys of persistent storage, so it changes nothing.

-----------------------------------------------------------------------------

Tick(d) ==
  /\ now + d <= MaxTime
  /\ now' = now + d
  /\ UNCHANGED <<param, wasm, upgrade, staged, bundle, proposals, nextId, pendingIds>>

UpgradeNext ==
  \/ \E h \in WasmHashes : propose_upgrade(h)
  \/ execute_upgrade
  \/ veto_upgrade

StagedNext ==
  \/ \E arg \in StageInputs :
       \/ arg[1] = "risk_thr" /\ set_risk_threshold(arg[2])
       \/ arg[1] = "hist_dep" /\ set_history_max_depth(arg[2])
       \/ arg[1] = "upg_dly"  /\ set_upgrade_delay(arg[2])
       \/ arg[1] = "stale_w"  /\ set_staleness_window(arg[2])
  \/ \E key \in StagedKeys : apply_param_change(key)
  \/ \E arg \in BundleInputs : propose_policy_bundle(arg[1], arg[2])
  \/ apply_policy_bundle
  \/ \E arg \in DirectInputs : arg[1] \in DirectKeys /\ SetDirectly(arg[1], arg[2])

ProposalNext ==
  \/ \E arg \in ProposeInputs : arg[1] \in ProposalKeys /\ propose_parameter_change(arg[1], arg[2])
  \/ \E i \in DOMAIN proposals : execute_parameter_change(i) \/ veto_parameter_change(i)
  \/ get_parameter_proposal

Next ==
  \/ UpgradeNext
  \/ StagedNext
  \/ ProposalNext
  \/ \E d \in TimeSteps : Tick(d)

Spec == Init /\ [][Next]_vars

-----------------------------------------------------------------------------
(* Properties *)

Statuses == {"Pending", "Executed", "Vetoed", "Expired"}

ProposalOK(p) ==
  /\ p = [key |-> p.key, value |-> p.value, proposedAt |-> p.proposedAt,
          lock |-> p.lock, status |-> p.status]
  /\ p.key \in ProposalKeys /\ Valid(p.key, p.value)
  /\ p.proposedAt \in Nat /\ p.status \in Statuses
  /\ p.lock \in MIN_UPGRADE_DELAY_SECS .. MAX_UPGRADE_DELAY_SECS

\* Every announced and every installed value is one its entry point accepts, and
\* the delays that locks are made of never leave [48 hours, 14 days], although
\* two mechanisms can change the delay.
TypeOK ==
  /\ now \in Nat /\ wasm \in WasmHashes
  /\ param = [key \in ParamKeys |-> param[key]]
  /\ \A key \in ParamKeys : Valid(key, param[key])
  /\ param["upg_dly"] \in MIN_UPGRADE_DELAY_SECS .. MAX_UPGRADE_DELAY_SECS
  /\ upgrade # NULL => upgrade \in [hash : WasmHashes, proposedAt : Nat,
                                    executableAfter : Nat]
  /\ staged = [key \in StagedKeys |-> staged[key]]
  /\ \A key \in StagedKeys : staged[key] # NULL =>
       Valid(key, staged[key].value) /\ staged[key].proposedAt \in Nat
  /\ bundle # NULL => /\ Valid("risk_thr", bundle.threshold)
                      /\ Valid("cooldown", bundle.cooldown)
                      /\ bundle.proposedAt \in Nat
  /\ nextId \in Nat \ {0} /\ DOMAIN proposals = 1 .. nextId - 1
  /\ \A i \in DOMAIN proposals : ProposalOK(proposals[i])
  /\ pendingIds \subseteq DOMAIN proposals

\* The index the queue limit is measured on lists exactly the proposals that are
\* pending, through executions, vetoes, expiries and the pruning that a
\* proposal or a public read triggers, and never exceeds the limit.
PendingIndexExact ==
  /\ pendingIds = {i \in DOMAIN proposals : proposals[i].status = "Pending"}
  /\ Cardinality(pendingIds) <= MAX_PENDING_PARAMETER_PROPOSALS

\* A proposal is decided once: an executed, vetoed or expired record is never
\* touched again, and what was announced is never altered.
DecidedOnce ==
  [][\A i \in DOMAIN proposals :
       /\ i \in DOMAIN proposals'
       /\ proposals[i].status # "Pending" => proposals'[i] = proposals[i]
       /\ proposals'[i].key = proposals[i].key /\ proposals'[i].value = proposals[i].value]_vars

UpgradeOffers ==
  IF upgrade = NULL THEN {} ELSE {[value |-> upgrade.hash, since |-> upgrade.proposedAt]}

\* What is announced for a setting, by whichever mechanism.
Offers(key) ==
  {[value |-> staged[k].value, since |-> staged[k].proposedAt] :
     k \in {x \in StagedKeys : x = key /\ staged[x] # NULL}}
  \cup {[value |-> bundle.threshold, since |-> bundle.proposedAt] :
          k \in {x \in {"risk_thr"} : x = key /\ bundle # NULL}}
  \cup {[value |-> proposals[i].value, since |-> proposals[i].proposedAt] :
          i \in {j \in pendingIds : proposals[j].key = key}}

UpgradeLock == INSTANCE Timelock WITH
  MinNotice <- MIN_UPGRADE_DELAY_SECS, value <- wasm, offers <- UpgradeOffers

DelayLock == INSTANCE Timelock WITH
  MinNotice <- DEFAULT_PARAM_CHANGE_DELAY_SECS,
  value <- param["upg_dly"], offers <- Offers("upg_dly")

ThresholdLock == INSTANCE Timelock WITH
  MinNotice <- DEFAULT_PARAM_CHANGE_DELAY_SECS,
  value <- param["risk_thr"], offers <- Offers("risk_thr")

DepthLock == INSTANCE Timelock WITH
  MinNotice <- DEFAULT_PARAM_CHANGE_DELAY_SECS,
  value <- param["hist_dep"], offers <- Offers("hist_dep")

StalenessLock == INSTANCE Timelock WITH
  MinNotice <- DEFAULT_PARAM_CHANGE_DELAY_SECS,
  value <- param["stale_w"], offers <- Offers("stale_w")

\* New code is installed only after its hash has stood announced for 48 hours,
\* however the delay is changed meanwhile.
UpgradeTimelocked == UpgradeLock!Spec

\* The upgrade delay changes only to a value announced 24 hours before, by either
\* of the two mechanisms that reach it, in any interleaving.
DelayTimelocked == DelayLock!Spec

\* The same for the risk threshold (a staged change or the policy bundle).
ThresholdTimelocked == ThresholdLock!Spec

\* The same for the history depth (a staged change or a proposal).
DepthTimelocked == DepthLock!Spec

\* The same for the staleness window (a staged change only).
StalenessTimelocked == StalenessLock!Spec
=============================================================================
