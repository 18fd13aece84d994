-------------------------- MODULE Governance_proof --------------------------
(***************************************************************************)
(* Proofs about Governance, for every set of code hashes, initial settings,*)
(* argument sets, queue limit and clock: type correctness, the pending     *)
(* index, and that the four mechanisms implement Timelock.                 *)
(***************************************************************************)
EXTENDS Governance, FiniteSetTheorems, TLAPS

\* One pending slot never opens before its notice period is over.
LocksKept ==
  /\ upgrade # NULL =>
       upgrade.executableAfter >= upgrade.proposedAt + MIN_UPGRADE_DELAY_SECS
  /\ \A key \in StagedKeys : staged[key] # NULL =>
       staged[key].applyAfter = staged[key].proposedAt + DEFAULT_PARAM_CHANGE_DELAY_SECS
  /\ bundle # NULL =>
       bundle.applyAfter = bundle.proposedAt + DEFAULT_PARAM_CHANGE_DELAY_SECS

-----------------------------------------------------------------------------
(* Type correctness *)

\* A valid upgrade delay is one between the two bounds.
LEMMA DelayRange ==
  ASSUME NEW v, Valid("upg_dly", v)
  PROVE  v \in MIN_UPGRADE_DELAY_SECS .. MAX_UPGRADE_DELAY_SECS
BY DEF Valid

\* Marking records changes their status and nothing else.
LEMMA MarkedRecords ==
  ASSUME TypeOK, NEW ids, NEW st \in Statuses
  PROVE  /\ DOMAIN Marked(ids, st) = DOMAIN proposals
         /\ \A i \in DOMAIN proposals :
              /\ ProposalOK(Marked(ids, st)[i])
              /\ Marked(ids, st)[i].key = proposals[i].key
              /\ Marked(ids, st)[i].value = proposals[i].value
              /\ Marked(ids, st)[i].proposedAt = proposals[i].proposedAt
              /\ Marked(ids, st)[i].lock = proposals[i].lock
              /\ Marked(ids, st)[i].status = (IF i \in ids THEN st ELSE proposals[i].status)
              /\ i \notin ids => Marked(ids, st)[i] = proposals[i]
<1>1. DOMAIN Marked(ids, st) = DOMAIN proposals
  BY DEF Marked
<1>2. ASSUME NEW i \in DOMAIN proposals
      PROVE  /\ ProposalOK(Marked(ids, st)[i])
             /\ Marked(ids, st)[i].key = proposals[i].key
             /\ Marked(ids, st)[i].value = proposals[i].value
             /\ Marked(ids, st)[i].proposedAt = proposals[i].proposedAt
             /\ Marked(ids, st)[i].lock = proposals[i].lock
             /\ Marked(ids, st)[i].status = (IF i \in ids THEN st ELSE proposals[i].status)
             /\ i \notin ids => Marked(ids, st)[i] = proposals[i]
  <2> DEFINE p == proposals[i]
             m == Marked(ids, st)[i]
  <2>1. ProposalOK(p)
    BY DEF TypeOK
  <2>2. CASE i \notin ids
    BY <2>1, <2>2 DEF Marked
  <2>3. CASE i \in ids
    <3>1. m = [p EXCEPT !.status = st]
      BY <2>3 DEF Marked
    <3>2. m = [key |-> p.key, value |-> p.value, proposedAt |-> p.proposedAt,
               lock |-> p.lock, status |-> st]
      BY <3>1, <2>1 DEF ProposalOK
    <3> HIDE DEF p, m
    <3>3. /\ m.key = p.key /\ m.value = p.value /\ m.proposedAt = p.proposedAt
          /\ m.lock = p.lock /\ m.status = st
      BY <3>2
    <3>4. ProposalOK(m)
      BY <3>2, <3>3, <2>1 DEF ProposalOK
    <3> QED
      BY <3>3, <3>4, <2>3 DEF p, m
  <2> QED
    BY <2>2, <2>3
<1> QED
  BY <1>1, <1>2

LEMMA TypeInit == Init => TypeOK
<1> SUFFICES ASSUME Init PROVE TypeOK
  OBVIOUS
<1>1. \A key \in ParamKeys : Valid(key, param[key])
  BY GovernanceAssumption DEF Init
<1>2. param["upg_dly"] \in MIN_UPGRADE_DELAY_SECS .. MAX_UPGRADE_DELAY_SECS
  BY <1>1, DelayRange DEF ParamKeys, StagedKeys
<1>3. param = [key \in ParamKeys |-> param[key]]
  BY GovernanceAssumption DEF Init
<1>4. DOMAIN proposals = 1 .. nextId - 1
  BY DEF Init
<1> QED
  BY <1>1, <1>2, <1>3, <1>4, GovernanceAssumption DEF Init, TypeOK

LEMMA TypeStep == TypeOK /\ [Next]_vars => TypeOK'
<1> SUFFICES ASSUME TypeOK, [Next]_vars PROVE TypeOK'
  OBVIOUS
<1> USE GovernanceAssumption
<1>1. CASE UNCHANGED vars
  BY <1>1 DEF TypeOK, vars, ProposalOK
<1>2. ASSUME NEW h \in WasmHashes, propose_upgrade(h) PROVE TypeOK'
  <2>1. now + param["upg_dly"] \in Nat
    <3>1. now \in Nat /\ param["upg_dly"] \in MIN_UPGRADE_DELAY_SECS .. MAX_UPGRADE_DELAY_SECS
      BY DEF TypeOK
    <3>2. MIN_UPGRADE_DELAY_SECS \in Nat /\ MAX_UPGRADE_DELAY_SECS \in Nat
      BY DEF MIN_UPGRADE_DELAY_SECS, MAX_UPGRADE_DELAY_SECS
    <3> QED
      BY <3>1, <3>2
  <2> QED
    BY <1>2, <2>1 DEF TypeOK, propose_upgrade, ProposalOK
<1>3. CASE execute_upgrade
  BY <1>3 DEF TypeOK, execute_upgrade, ProposalOK
<1>4. CASE veto_upgrade
  BY <1>4 DEF TypeOK, veto_upgrade, ProposalOK
<1>5. ASSUME NEW key \in StagedKeys, NEW v, StageParamChange(key, v) PROVE TypeOK'
  <2>1. \A k \in StagedKeys : staged'[k] # NULL =>
          Valid(k, staged'[k].value) /\ staged'[k].proposedAt \in Nat
    BY <1>5 DEF TypeOK, StageParamChange
  <2>2. staged' = [k \in StagedKeys |-> staged'[k]]
    BY <1>5 DEF TypeOK, StageParamChange
  <2> QED
    BY <1>5, <2>1, <2>2 DEF TypeOK, StageParamChange, ProposalOK
<1>6. ASSUME NEW key \in StagedKeys, apply_param_change(key) PROVE TypeOK'
  <2>1. \A k \in ParamKeys : Valid(k, param'[k])
    BY <1>6 DEF TypeOK, apply_param_change, ParamKeys
  <2>2. param'["upg_dly"] \in MIN_UPGRADE_DELAY_SECS .. MAX_UPGRADE_DELAY_SECS
    BY <2>1, DelayRange DEF ParamKeys, StagedKeys
  <2>3. param' = [k \in ParamKeys |-> param'[k]] /\ staged' = [k \in StagedKeys |-> staged'[k]]
    BY <1>6 DEF TypeOK, apply_param_change
  <2>4. \A k \in StagedKeys : staged'[k] # NULL => staged'[k] = staged[k]
    BY <1>6 DEF TypeOK, apply_param_change
  <2> QED
    BY <1>6, <2>1, <2>2, <2>3, <2>4 DEF TypeOK, apply_param_change, ProposalOK
<1>7. ASSUME NEW t, NEW c, propose_policy_bundle(t, c) PROVE TypeOK'
  BY <1>7 DEF TypeOK, propose_policy_bundle, ProposalOK
<1>8. CASE apply_policy_bundle
  <2>1. \A k \in ParamKeys : Valid(k, param'[k])
    BY <1>8 DEF TypeOK, apply_policy_bundle
  <2>2. param'["upg_dly"] \in MIN_UPGRADE_DELAY_SECS .. MAX_UPGRADE_DELAY_SECS
    BY <2>1, DelayRange DEF ParamKeys, StagedKeys
  <2>3. param' = [k \in ParamKeys |-> param'[k]]
    BY <1>8 DEF TypeOK, apply_policy_bundle
  <2> QED
    BY <1>8, <2>1, <2>2, <2>3 DEF TypeOK, apply_policy_bundle, ProposalOK
<1>9. ASSUME NEW key \in DirectKeys, NEW v, SetDirectly(key, v) PROVE TypeOK'
  <2>1. \A k \in ParamKeys : Valid(k, param'[k])
    BY <1>9 DEF TypeOK, SetDirectly
  <2>2. param'["upg_dly"] \in MIN_UPGRADE_DELAY_SECS .. MAX_UPGRADE_DELAY_SECS
    BY <2>1, DelayRange DEF ParamKeys, StagedKeys
  <2>3. param' = [k \in ParamKeys |-> param'[k]]
    BY <1>9 DEF TypeOK, SetDirectly
  <2> QED
    BY <1>9, <2>1, <2>2, <2>3 DEF TypeOK, SetDirectly, ProposalOK
<1>10. ASSUME NEW key \in ProposalKeys, NEW v, propose_parameter_change(key, v) PROVE TypeOK'
  <2> DEFINE new == [key |-> key, value |-> v, proposedAt |-> now,
                     lock |-> param["upg_dly"], status |-> "Pending"]
  <2>1. ProposalOK(new)
    BY <1>10 DEF TypeOK, ProposalOK, propose_parameter_change, Statuses
  <2>2. nextId \in Nat \ {0} /\ DOMAIN proposals = 1 .. nextId - 1 /\ nextId' = nextId + 1
    BY <1>10 DEF TypeOK, propose_parameter_change
  <2>3. DOMAIN proposals' = 1 .. nextId' - 1
    BY <1>10, <2>2 DEF propose_parameter_change
  <2>4. \A i \in 1 .. nextId : proposals'[i] = IF i = nextId THEN new
                                              ELSE Marked(LapsedIds, "Expired")[i]
    BY <1>10 DEF propose_parameter_change
  <2> HIDE DEF new
  <2>5. \A i \in DOMAIN proposals' : ProposalOK(proposals'[i])
    BY <2>1, <2>2, <2>3, <2>4, MarkedRecords DEF Statuses
  <2>6. pendingIds' \subseteq DOMAIN proposals'
    BY <1>10, <2>2, <2>3 DEF TypeOK, propose_parameter_change
  <2> QED
    BY <1>10, <2>2, <2>3, <2>5, <2>6 DEF TypeOK, propose_parameter_change
<1>11. ASSUME NEW ids, NEW st \in Statuses, MarkStatus(ids, st)
       PROVE  /\ DOMAIN proposals' = DOMAIN proposals
              /\ \A i \in DOMAIN proposals' : ProposalOK(proposals'[i])
              /\ pendingIds' \subseteq DOMAIN proposals'
  BY <1>11, MarkedRecords DEF MarkStatus, TypeOK
<1>12. ASSUME NEW i \in DOMAIN proposals, execute_parameter_change(i) PROVE TypeOK'
  <2>1. ProposalOK(proposals[i])
    BY DEF TypeOK
  <2>2. \A k \in ParamKeys : Valid(k, param'[k])
    BY <1>12, <2>1 DEF TypeOK, execute_parameter_change, ProposalOK
  <2>3. param'["upg_dly"] \in MIN_UPGRADE_DELAY_SECS .. MAX_UPGRADE_DELAY_SECS
    BY <2>2, DelayRange DEF ParamKeys, StagedKeys
  <2>4. param' = [k \in ParamKeys |-> param'[k]]
    BY <1>12 DEF TypeOK, execute_parameter_change
  <2> QED
    BY <1>12, <1>11, <2>2, <2>3, <2>4 DEF TypeOK, execute_parameter_change, Statuses
<1>13. ASSUME NEW i \in DOMAIN proposals, veto_parameter_change(i) PROVE TypeOK'
  BY <1>13, <1>11 DEF TypeOK, veto_parameter_change, Statuses
<1>14. CASE get_parameter_proposal
  BY <1>14, <1>11 DEF TypeOK, get_parameter_proposal, Statuses
<1>15. ASSUME NEW d \in TimeSteps, Tick(d) PROVE TypeOK'
  BY <1>15 DEF TypeOK, Tick, ProposalOK
<1>16. CASE UpgradeNext
  BY <1>16, <1>2, <1>3, <1>4 DEF UpgradeNext
<1>17. CASE StagedNext
  BY <1>17, <1>5, <1>6, <1>7, <1>8, <1>9
     DEF StagedNext, set_risk_threshold, set_history_max_depth, set_upgrade_delay,
         set_staleness_window, StagedKeys
<1>18. CASE ProposalNext
  BY <1>18, <1>10, <1>12, <1>13, <1>14 DEF ProposalNext
<1> QED
  BY <1>1, <1>15, <1>16, <1>17, <1>18 DEF Next

\* Every announced and installed value is valid and every lock is within the
\* bounds of the upgrade delay.
THEOREM TypeCorrect == Spec => []TypeOK
BY TypeInit, TypeStep, PTL DEF Spec

-----------------------------------------------------------------------------
(* The queue of parameter proposals *)

\* What a step may do to the records: add one, or mark pending ones as decided.
LEMMA QueueStep ==
  ASSUME TypeOK, [Next]_vars
  PROVE  \/ UNCHANGED <<proposals, pendingIds, nextId>>
         \/ \E key \in ProposalKeys : \E v : propose_parameter_change(key, v)
         \/ \E ids \in SUBSET DOMAIN proposals, st \in Statuses \ {"Pending"} :
              /\ \A i \in ids \cap DOMAIN proposals : proposals[i].status = "Pending"
              /\ MarkStatus(ids, st) /\ nextId' = nextId
<1>1. CASE UNCHANGED vars
  BY <1>1 DEF vars
<1>2. CASE UpgradeNext
  BY <1>2 DEF UpgradeNext, propose_upgrade, execute_upgrade, veto_upgrade
<1>3. CASE StagedNext
  BY <1>3 DEF StagedNext, set_risk_threshold, set_history_max_depth, set_upgrade_delay,
              set_staleness_window, StageParamChange, apply_param_change,
              propose_policy_bundle, apply_policy_bundle, SetDirectly
<1>4. CASE \E arg \in ProposeInputs :
             arg[1] \in ProposalKeys /\ propose_parameter_change(arg[1], arg[2])
  BY <1>4
<1>5. ASSUME NEW i \in DOMAIN proposals, execute_parameter_change(i)
      PROVE  \E ids \in SUBSET DOMAIN proposals, st \in Statuses \ {"Pending"} :
               /\ \A j \in ids \cap DOMAIN proposals : proposals[j].status = "Pending"
               /\ MarkStatus(ids, st) /\ nextId' = nextId
  <2>1. /\ \A j \in {i} \cap DOMAIN proposals : proposals[j].status = "Pending"
        /\ MarkStatus({i}, "Executed") /\ nextId' = nextId
    BY <1>5 DEF execute_parameter_change
  <2> QED
    BY <2>1 DEF Statuses
<1>6. ASSUME NEW i \in DOMAIN proposals, veto_parameter_change(i)
      PROVE  \E ids \in SUBSET DOMAIN proposals, st \in Statuses \ {"Pending"} :
               /\ \A j \in ids \cap DOMAIN proposals : proposals[j].status = "Pending"
               /\ MarkStatus(ids, st) /\ nextId' = nextId
  <2>1. /\ \A j \in {i} \cap DOMAIN proposals : proposals[j].status = "Pending"
        /\ MarkStatus({i}, "Vetoed") /\ nextId' = nextId
    BY <1>6 DEF veto_parameter_change
  <2> QED
    BY <2>1 DEF Statuses
<1>7. CASE get_parameter_proposal
  <2>1. /\ \A j \in LapsedIds \cap DOMAIN proposals : proposals[j].status = "Pending"
        /\ MarkStatus(LapsedIds, "Expired") /\ nextId' = nextId
    BY <1>7 DEF get_parameter_proposal, LapsedIds
  <2>2. LapsedIds \in SUBSET DOMAIN proposals
    BY DEF LapsedIds, TypeOK
  <2> QED
    BY <2>1, <2>2 DEF Statuses
<1>8. CASE \E d \in TimeSteps : Tick(d)
  BY <1>8 DEF Tick
<1> QED
  BY <1>1, <1>2, <1>3, <1>4, <1>5, <1>6, <1>7, <1>8 DEF Next, ProposalNext

LEMMA PendingIndexStep ==
  TypeOK /\ PendingIndexExact /\ [Next]_vars => PendingIndexExact'
<1> SUFFICES ASSUME TypeOK, PendingIndexExact, [Next]_vars PROVE PendingIndexExact'
  OBVIOUS
<1>1. IsFiniteSet(pendingIds)
  <2>1. pendingIds \subseteq 1 .. nextId - 1 /\ nextId - 1 \in Int
    BY DEF TypeOK
  <2>2. IsFiniteSet(1 .. nextId - 1)
    BY <2>1, FS_Interval
  <2> QED
    BY <2>1, <2>2, FS_Subset
<1>2. CASE UNCHANGED <<proposals, pendingIds, nextId>>
  BY <1>2 DEF PendingIndexExact
<1>3. ASSUME NEW key \in ProposalKeys, NEW v, propose_parameter_change(key, v)
      PROVE  PendingIndexExact'
  <2> DEFINE kept == pendingIds \ LapsedIds
             new == [key |-> key, value |-> v, proposedAt |-> now,
                     lock |-> param["upg_dly"], status |-> "Pending"]
  <2>1. nextId \in Nat \ {0} /\ DOMAIN proposals = 1 .. nextId - 1
    BY DEF TypeOK
  <2>2. /\ pendingIds' = kept \cup {nextId}
        /\ proposals' = [i \in 1 .. nextId |->
                           IF i = nextId THEN new ELSE Marked(LapsedIds, "Expired")[i]]
        /\ Cardinality(kept) < MAX_PENDING_PARAMETER_PROPOSALS
    BY <1>3 DEF propose_parameter_change
  <2>3. \A i \in DOMAIN proposals :
          Marked(LapsedIds, "Expired")[i].status
            = (IF i \in LapsedIds THEN "Expired" ELSE proposals[i].status)
    BY MarkedRecords DEF Statuses
  <2>4. new.status = "Pending"
    OBVIOUS
  <2>5. pendingIds = {i \in DOMAIN proposals : proposals[i].status = "Pending"}
    BY DEF PendingIndexExact
  <2>6. IsFiniteSet(kept) /\ nextId \notin kept
    BY <1>1, <2>1, <2>5, FS_Subset
  <2> HIDE DEF kept, new
  <2>7. Cardinality(pendingIds') = Cardinality(kept) + 1
    BY <2>2, <2>6, FS_AddElement
  <2>8. Cardinality(pendingIds') <= MAX_PENDING_PARAMETER_PROPOSALS
    <3>1. Cardinality(kept) \in Nat
      BY <2>6, FS_CardinalityType
    <3> QED
      BY <3>1, <2>2, <2>7, GovernanceAssumption
  <2>9. pendingIds' = {i \in DOMAIN proposals' : proposals'[i].status = "Pending"}
    <3>1. DOMAIN proposals' = 1 .. nextId
      BY <2>2
    <3>2. \A i \in 1 .. nextId - 1 :
            proposals'[i].status = (IF i \in LapsedIds THEN "Expired" ELSE proposals[i].status)
      BY <2>1, <2>2, <2>3
    <3>3. proposals'[nextId].status = "Pending"
      BY <2>1, <2>2, <2>4
    <3>4. \A i : i \in kept <=> i \in 1 .. nextId - 1 /\ proposals'[i].status = "Pending"
      BY <2>1, <2>5, <3>2 DEF kept
    <3>5. \A i : i \in 1 .. nextId <=> i \in 1 .. nextId - 1 \/ i = nextId
      BY <2>1
    <3> QED
      BY <2>2, <3>1, <3>3, <3>4, <3>5
  <2> QED
    BY <2>8, <2>9 DEF PendingIndexExact
<1>4. ASSUME NEW ids, NEW st \in Statuses \ {"Pending"}, MarkStatus(ids, st)
      PROVE  PendingIndexExact'
  <2>1. pendingIds' = pendingIds \ ids /\ proposals' = Marked(ids, st)
    BY <1>4 DEF MarkStatus
  <2>2. /\ DOMAIN proposals' = DOMAIN proposals
        /\ \A i \in DOMAIN proposals :
             proposals'[i].status = (IF i \in ids THEN st ELSE proposals[i].status)
    BY <2>1, MarkedRecords
  <2>3. pendingIds' = {i \in DOMAIN proposals' : proposals'[i].status = "Pending"}
    BY <2>1, <2>2 DEF PendingIndexExact
  <2>4. Cardinality(pendingIds') <= Cardinality(pendingIds)
    BY <1>1, <2>1, FS_Subset
  <2>5. Cardinality(pendingIds') \in Nat /\ Cardinality(pendingIds) \in Nat
    BY <1>1, <2>1, FS_Subset, FS_CardinalityType
  <2> QED
    BY <2>3, <2>4, <2>5, GovernanceAssumption DEF PendingIndexExact
<1> QED
  BY <1>2, <1>3, <1>4, QueueStep

\* The index of pending proposals is exact and within the queue limit.
THEOREM PendingIndexCorrect == Spec => []PendingIndexExact
<1>1. Init => PendingIndexExact
  <2> SUFFICES ASSUME Init PROVE PendingIndexExact
    OBVIOUS
  <2>1. pendingIds = {} /\ DOMAIN proposals = {}
    BY DEF Init
  <2>2. Cardinality({}) = 0
    BY FS_EmptySet
  <2> QED
    BY <2>1, <2>2, GovernanceAssumption DEF PendingIndexExact
<1> QED
  BY <1>1, PendingIndexStep, TypeCorrect, PTL DEF Spec

\* A decided proposal is never touched again and an announcement never altered.
THEOREM ProposalsDecidedOnce == Spec => DecidedOnce
<1> DEFINE Kept == \A i \in DOMAIN proposals :
             /\ i \in DOMAIN proposals'
             /\ proposals[i].status # "Pending" => proposals'[i] = proposals[i]
             /\ proposals'[i].key = proposals[i].key /\ proposals'[i].value = proposals[i].value
<1>1. ASSUME TypeOK, [Next]_vars PROVE Kept
  <2>1. CASE UNCHANGED <<proposals, pendingIds, nextId>>
    BY <2>1
  <2>2. ASSUME NEW key \in ProposalKeys, NEW v, propose_parameter_change(key, v) PROVE Kept
    <3>1. nextId \in Nat \ {0} /\ DOMAIN proposals = 1 .. nextId - 1
      BY <1>1 DEF TypeOK
    <3>2. DOMAIN proposals' = 1 .. nextId
      BY <2>2 DEF propose_parameter_change
    <3>3. \A i \in DOMAIN proposals : proposals'[i] = Marked(LapsedIds, "Expired")[i]
      BY <2>2, <3>1 DEF propose_parameter_change
    <3>4. \A i \in LapsedIds : proposals[i].status = "Pending"
      BY DEF LapsedIds
    <3> QED
      BY <1>1, <3>1, <3>2, <3>3, <3>4, MarkedRecords DEF Statuses
  <2>3. ASSUME NEW ids, NEW st \in Statuses \ {"Pending"}, MarkStatus(ids, st),
               \A i \in ids \cap DOMAIN proposals : proposals[i].status = "Pending"
        PROVE  Kept
    BY <1>1, <2>3, MarkedRecords DEF MarkStatus
  <2> QED
    BY <1>1, <2>1, <2>2, <2>3, QueueStep
<1>2. TypeOK /\ [Next]_vars => [Kept]_vars
  BY <1>1
<1> QED
  BY <1>2, TypeCorrect, PTL DEF Spec, DecidedOnce

-----------------------------------------------------------------------------
(* Time locks *)

LEMMA LocksInit == Init => LocksKept
BY DEF Init, LocksKept

LEMMA LocksStep == TypeOK /\ LocksKept /\ [Next]_vars => LocksKept'
<1> SUFFICES ASSUME TypeOK, LocksKept, [Next]_vars PROVE LocksKept'
  OBVIOUS
<1>1. ASSUME UNCHANGED <<upgrade, staged, bundle>> PROVE LocksKept'
  BY <1>1 DEF LocksKept
<1>2. ASSUME NEW h \in WasmHashes, propose_upgrade(h) PROVE LocksKept'
  <2>1. now \in Nat /\ param["upg_dly"] \in MIN_UPGRADE_DELAY_SECS .. MAX_UPGRADE_DELAY_SECS
    BY DEF TypeOK
  <2>2. MIN_UPGRADE_DELAY_SECS \in Nat
    BY DEF MIN_UPGRADE_DELAY_SECS
  <2>3. now + param["upg_dly"] >= now + MIN_UPGRADE_DELAY_SECS
    BY <2>1, <2>2
  <2>4. upgrade'.executableAfter >= upgrade'.proposedAt + MIN_UPGRADE_DELAY_SECS
    BY <1>2, <2>3 DEF propose_upgrade
  <2> QED
    BY <1>2, <2>4 DEF propose_upgrade, LocksKept
<1>3. CASE execute_upgrade \/ veto_upgrade
  BY <1>3 DEF execute_upgrade, veto_upgrade, LocksKept
<1>4. ASSUME NEW key \in StagedKeys, NEW v, StageParamChange(key, v) PROVE LocksKept'
  BY <1>4 DEF StageParamChange, LocksKept, TypeOK
<1>5. ASSUME NEW key \in StagedKeys, apply_param_change(key) PROVE LocksKept'
  BY <1>5 DEF apply_param_change, LocksKept, TypeOK
<1>6. ASSUME NEW t, NEW c, propose_policy_bundle(t, c) PROVE LocksKept'
  BY <1>6 DEF propose_policy_bundle, LocksKept
<1>7. CASE apply_policy_bundle
  BY <1>7 DEF apply_policy_bundle, LocksKept
<1>8. CASE UpgradeNext
  BY <1>8, <1>2, <1>3 DEF UpgradeNext
<1>9. CASE StagedNext
  <2>1. ASSUME NEW key, NEW v, SetDirectly(key, v) PROVE LocksKept'
    BY <1>1, <2>1 DEF SetDirectly
  <2> QED
    BY <1>9, <1>4, <1>5, <1>6, <1>7, <2>1
       DEF StagedNext, set_risk_threshold, set_history_max_depth, set_upgrade_delay,
           set_staleness_window, StagedKeys
<1>10. CASE ProposalNext
  BY <1>1, <1>10 DEF ProposalNext, propose_parameter_change, execute_parameter_change,
                     veto_parameter_change, get_parameter_proposal
<1>11. CASE \E d \in TimeSteps : Tick(d)
  BY <1>1, <1>11 DEF Tick
<1>12. CASE UNCHANGED vars
  BY <1>1, <1>12 DEF vars
<1> QED
  BY <1>8, <1>9, <1>10, <1>11, <1>12 DEF Next

\* What every behaviour keeps: the facts the time locks rest on.
LEMMA LocksCorrect == Spec => [](TypeOK /\ PendingIndexExact /\ LocksKept)
BY TypeCorrect, PendingIndexCorrect, LocksInit, LocksStep, PTL DEF Spec

\* New code is installed only 48 hours after its hash was announced, whatever
\* happens to the delay in between: the upgrade slot implements Timelock.
THEOREM UpgradeLocked == Spec => UpgradeTimelocked
<1>1. Init => UpgradeLock!Init
  BY DEF Init, UpgradeLock!Init, UpgradeOffers
<1>2. ASSUME TypeOK, LocksKept, [Next]_vars
      PROVE  [UpgradeLock!Next]_(UpgradeLock!lockVars)
  <2> USE DEF UpgradeLock!Next, UpgradeLock!lockVars
  <2>1. ASSUME UNCHANGED <<now, wasm, upgrade>> PROVE UNCHANGED UpgradeLock!lockVars
    BY <2>1 DEF UpgradeOffers
  <2>2. ASSUME NEW h \in WasmHashes, propose_upgrade(h)
        PROVE  UpgradeLock!Announce \/ UNCHANGED UpgradeLock!lockVars
    <3> DEFINE o == [value |-> h, since |-> now]
    <3>1. UpgradeOffers = {} /\ UNCHANGED <<now, wasm>>
      BY <2>2 DEF propose_upgrade, UpgradeOffers
    <3>2. UpgradeOffers' \in {{}, {o}}
      BY <2>2 DEF propose_upgrade, UpgradeOffers
    <3>3. CASE UpgradeOffers' = {o}
      <4>1. UpgradeOffers' = {} \cup {o} /\ {} \in SUBSET UpgradeOffers
        BY <3>3
      <4>2. h \in {x.value : x \in UpgradeOffers'}
        BY <3>3
      <4> QED
        BY <3>1, <4>1, <4>2 DEF UpgradeLock!Announce
    <3> QED
      BY <3>1, <3>2, <3>3
  <2>3. ASSUME execute_upgrade PROVE UpgradeLock!Apply
    <3> DEFINE o == [value |-> upgrade.hash, since |-> upgrade.proposedAt]
    <3>1. UpgradeOffers = {o} /\ UpgradeOffers' = {} /\ UNCHANGED now
      BY <2>3 DEF execute_upgrade, UpgradeOffers
    <3>2. now >= o.since + MIN_UPGRADE_DELAY_SECS
      <4>1. now \in Nat /\ upgrade.executableAfter \in Nat /\ upgrade.proposedAt \in Nat
        BY <1>2, <2>3 DEF execute_upgrade, TypeOK
      <4>2. MIN_UPGRADE_DELAY_SECS \in Nat
        BY DEF MIN_UPGRADE_DELAY_SECS
      <4>3. /\ now >= upgrade.executableAfter
            /\ upgrade.executableAfter >= upgrade.proposedAt + MIN_UPGRADE_DELAY_SECS
        BY <2>3, <1>2 DEF execute_upgrade, LocksKept
      <4> QED
        BY <4>1, <4>2, <4>3
    <3>3. wasm' = o.value
      BY <2>3 DEF execute_upgrade
    <3> QED
      BY <3>1, <3>2, <3>3 DEF UpgradeLock!Apply
  <2>4. ASSUME veto_upgrade PROVE UpgradeLock!Withdraw
    BY <2>4 DEF veto_upgrade, UpgradeLock!Withdraw, UpgradeOffers
  <2>5. ASSUME NEW d \in TimeSteps, Tick(d) PROVE UpgradeLock!Tick
    BY <2>5, <1>2, GovernanceAssumption DEF Tick, UpgradeLock!Tick, UpgradeOffers, TypeOK
  <2>6. CASE StagedNext
    BY <2>1, <2>6 DEF StagedNext, set_risk_threshold, set_history_max_depth,
         set_upgrade_delay, set_staleness_window, StageParamChange, apply_param_change,
         propose_policy_bundle, apply_policy_bundle, SetDirectly
  <2>7. CASE ProposalNext
    BY <2>1, <2>7 DEF ProposalNext, propose_parameter_change, execute_parameter_change,
                      veto_parameter_change, get_parameter_proposal
  <2>8. CASE UpgradeNext
    BY <2>2, <2>3, <2>4, <2>8 DEF UpgradeNext
  <2>9. CASE UNCHANGED vars
    BY <2>1, <2>9 DEF vars
  <2> QED
    BY <1>2, <2>5, <2>6, <2>7, <2>8, <2>9 DEF Next
<1> QED
  BY <1>1, <1>2, LocksCorrect, PTL DEF Spec, UpgradeTimelocked, UpgradeLock!Spec

\* What may happen in one step to a setting and its announcements, in terms of
\* the setting's key: the four steps of Timelock, or nothing.
Stays(key)     == UNCHANGED <<now, param[key], Offers(key)>>
Withdraws(key) == Offers(key)' \subseteq Offers(key) /\ UNCHANGED <<now, param[key]>>
Passes(key)    == now' > now /\ UNCHANGED <<param[key], Offers(key)>>

Announces(key) ==
  /\ \E kept \in SUBSET Offers(key), v \in {o.value : o \in Offers(key)'} :
       Offers(key)' = kept \cup {[value |-> v, since |-> now]}
  /\ UNCHANGED <<now, param[key]>>

Applies(key) ==
  /\ \E o \in Offers(key) :
       now >= o.since + DEFAULT_PARAM_CHANGE_DELAY_SECS /\ param'[key] = o.value
  /\ Offers(key)' \subseteq Offers(key)
  /\ UNCHANGED now

NoticeGiven(key) ==
  Stays(key) \/ Withdraws(key) \/ Passes(key) \/ Announces(key) \/ Applies(key)

\* One new offer beside some of the old ones is an announcement.
LEMMA AnnounceRule ==
  ASSUME NEW key \in StagedKeys, NEW v, UNCHANGED <<now, param[key]>>,
         [value |-> v, since |-> now] \in Offers(key)',
         Offers(key)' \subseteq Offers(key) \cup {[value |-> v, since |-> now]}
  PROVE  Announces(key)
<1> DEFINE new == [value |-> v, since |-> now]
           kept == Offers(key)' \cap Offers(key)
<1>1. new.value = v
  OBVIOUS
<1> HIDE DEF new
<1>2. new \in Offers(key)' /\ Offers(key)' \subseteq Offers(key) \cup {new}
  BY DEF new
<1>3. Offers(key)' = kept \cup {new} /\ kept \in SUBSET Offers(key)
  BY <1>2
<1>4. v \in {o.value : o \in Offers(key)'}
  BY <1>1, <1>2
<1> QED
  BY <1>3, <1>4 DEF Announces, new

\* Marking proposals withdraws offers and makes none.
LEMMA MarkWithdraws ==
  ASSUME TypeOK, NEW key \in StagedKeys, NEW ids, NEW st \in Statuses,
         MarkStatus(ids, st), UNCHANGED <<staged, bundle>>
  PROVE  Offers(key)' \subseteq Offers(key)
<1>1. pendingIds' \subseteq pendingIds /\ pendingIds \subseteq DOMAIN proposals
  BY DEF MarkStatus, TypeOK
<1>2. \A i \in pendingIds' : /\ proposals'[i].key = proposals[i].key
                            /\ proposals'[i].value = proposals[i].value
                            /\ proposals'[i].proposedAt = proposals[i].proposedAt
  BY <1>1, MarkedRecords DEF MarkStatus
<1> QED
  BY <1>1, <1>2 DEF Offers

LEMMA StagedNotice ==
  ASSUME TypeOK, LocksKept, StagedNext, NEW key \in StagedKeys
  PROVE  NoticeGiven(key)
<1>1. ASSUME NEW k \in StagedKeys, NEW v, StageParamChange(k, v) PROVE NoticeGiven(key)
  <2>1. UNCHANGED <<now, param, bundle, proposals, pendingIds>>
    BY <1>1 DEF StageParamChange
  <2>2. CASE staged'[key] = staged[key]
    BY <2>1, <2>2 DEF Offers, Stays, NoticeGiven
  <2>3. CASE staged'[key] # staged[key]
    <3>1. /\ staged[key] = NULL
          /\ staged'[key] = [value |-> v, proposedAt |-> now,
                             applyAfter |-> now + DEFAULT_PARAM_CHANGE_DELAY_SECS]
      BY <1>1, <2>3 DEF StageParamChange, TypeOK
    <3>2. staged'[key] # NULL /\ staged'[key].value = v /\ staged'[key].proposedAt = now
      BY <2>3, <3>1
    <3>3. [value |-> v, since |-> now] \in Offers(key)'
      BY <3>2 DEF Offers
    <3>4. Offers(key)' \subseteq Offers(key) \cup {[value |-> v, since |-> now]}
      BY <2>1, <3>2 DEF Offers
    <3> QED
      BY <2>1, <3>3, <3>4, AnnounceRule DEF NoticeGiven
  <2> QED
    BY <2>2, <2>3
<1>2. ASSUME NEW k \in StagedKeys, apply_param_change(k) PROVE NoticeGiven(key)
  <2>1. UNCHANGED <<now, bundle, proposals, pendingIds>>
    BY <1>2 DEF apply_param_change
  <2>2. CASE k # key
    <3>1. staged'[key] = staged[key] /\ param'[key] = param[key]
      BY <1>2, <2>2 DEF apply_param_change, TypeOK
    <3> QED
      BY <2>1, <3>1 DEF Offers, Stays, NoticeGiven
  <2>3. CASE k = key
    <3> DEFINE o == [value |-> staged[key].value, since |-> staged[key].proposedAt]
    <3>1. /\ staged[key] # NULL /\ staged'[key] = NULL
          /\ param'[key] = staged[key].value /\ now >= staged[key].applyAfter
      BY <1>2, <2>3 DEF apply_param_change, TypeOK, ParamKeys
    <3>2. o \in Offers(key) /\ Offers(key)' \subseteq Offers(key)
      BY <2>1, <3>1 DEF Offers
    <3>3. now >= o.since + DEFAULT_PARAM_CHANGE_DELAY_SECS /\ param'[key] = o.value
      BY <3>1 DEF LocksKept
    <3> QED
      BY <2>1, <3>2, <3>3 DEF Applies, NoticeGiven
  <2> QED
    BY <2>2, <2>3
<1>3. ASSUME NEW t, NEW c, propose_policy_bundle(t, c) PROVE NoticeGiven(key)
  <2>1. UNCHANGED <<now, param, staged, proposals, pendingIds>> /\ bundle = NULL
    BY <1>3 DEF propose_policy_bundle
  <2>2. CASE key # "risk_thr" \/ bundle' = NULL
    BY <2>1, <2>2 DEF Offers, Stays, NoticeGiven
  <2>3. CASE key = "risk_thr" /\ bundle' # NULL
    <3>1. bundle'.threshold = t /\ bundle'.proposedAt = now
      BY <1>3 DEF propose_policy_bundle
    <3>2. [value |-> t, since |-> now] \in Offers(key)'
      BY <2>3, <3>1 DEF Offers
    <3>3. Offers(key)' \subseteq Offers(key) \cup {[value |-> t, since |-> now]}
      BY <2>1, <3>1 DEF Offers
    <3> QED
      BY <2>1, <3>2, <3>3, AnnounceRule DEF NoticeGiven
  <2> QED
    BY <2>2, <2>3
<1>4. ASSUME apply_policy_bundle PROVE NoticeGiven(key)
  <2>1. UNCHANGED <<now, staged, proposals, pendingIds>> /\ bundle # NULL /\ bundle' = NULL
    BY <1>4 DEF apply_policy_bundle
  <2>2. CASE key # "risk_thr"
    <3>1. param'[key] = param[key]
      <4>1. key \in ParamKeys /\ key # "cooldown"
        BY DEF ParamKeys, StagedKeys
      <4>2. param = [k \in ParamKeys |-> param[k]]
        BY DEF TypeOK
      <4>3. param' = [param EXCEPT !["risk_thr"] = bundle.threshold,
                                   !["cooldown"] = bundle.cooldown]
        BY <1>4 DEF apply_policy_bundle
      <4> QED
        BY <2>2, <4>1, <4>2, <4>3
    <3> QED
      BY <2>1, <2>2, <3>1 DEF Offers, Stays, NoticeGiven
  <2>3. CASE key = "risk_thr"
    <3> DEFINE o == [value |-> bundle.threshold, since |-> bundle.proposedAt]
    <3>1. param'[key] = bundle.threshold /\ now >= bundle.applyAfter
      BY <1>4, <2>3 DEF apply_policy_bundle, TypeOK, ParamKeys, StagedKeys, ProposalKeys
    <3>2. o \in Offers(key) /\ Offers(key)' \subseteq Offers(key)
      BY <2>1, <2>3 DEF Offers
    <3>3. now >= o.since + DEFAULT_PARAM_CHANGE_DELAY_SECS /\ param'[key] = o.value
      BY <2>1, <3>1 DEF LocksKept
    <3> QED
      BY <2>1, <3>2, <3>3 DEF Applies, NoticeGiven
  <2> QED
    BY <2>2, <2>3
<1>5. ASSUME NEW k \in DirectKeys, NEW v, SetDirectly(k, v) PROVE NoticeGiven(key)
  <2>1. UNCHANGED <<now, staged, bundle, proposals, pendingIds>>
    BY <1>5 DEF SetDirectly
  <2>2. param'[key] = param[key]
    BY <1>5 DEF SetDirectly, TypeOK, DirectKeys, StagedKeys
  <2> QED
    BY <2>1, <2>2 DEF Offers, Stays, NoticeGiven
<1> QED
  BY <1>1, <1>2, <1>3, <1>4, <1>5
     DEF StagedNext, set_risk_threshold, set_history_max_depth, set_upgrade_delay,
         set_staleness_window, StagedKeys

LEMMA ProposalNotice ==
  ASSUME TypeOK, PendingIndexExact, ProposalNext, NEW key \in StagedKeys
  PROVE  NoticeGiven(key)
<1>1. ASSUME NEW k \in ProposalKeys, NEW v, propose_parameter_change(k, v)
      PROVE  NoticeGiven(key)
  <2> DEFINE rec == [key |-> k, value |-> v, proposedAt |-> now,
                     lock |-> param["upg_dly"], status |-> "Pending"]
             new == [value |-> v, since |-> now]
  <2>1. UNCHANGED <<now, param, staged, bundle>>
    BY <1>1 DEF propose_parameter_change
  <2>2. /\ nextId \in Nat \ {0} /\ DOMAIN proposals = 1 .. nextId - 1
        /\ pendingIds \subseteq DOMAIN proposals
    BY DEF TypeOK
  <2>3. /\ pendingIds' = (pendingIds \ LapsedIds) \cup {nextId}
        /\ proposals'[nextId] = rec
        /\ \A i \in DOMAIN proposals : proposals'[i] = Marked(LapsedIds, "Expired")[i]
    BY <1>1, <2>2 DEF propose_parameter_change
  <2>4. rec.key = k /\ rec.value = v /\ rec.proposedAt = now
    OBVIOUS
  <2> HIDE DEF rec, new
  <2>5. \A i \in pendingIds \ LapsedIds :
          /\ proposals'[i].key = proposals[i].key
          /\ proposals'[i].value = proposals[i].value
          /\ proposals'[i].proposedAt = proposals[i].proposedAt
    BY <2>2, <2>3, MarkedRecords DEF Statuses
  <2>6. CASE k # key
    <3>1. Offers(key)' \subseteq Offers(key)
      BY <2>1, <2>3, <2>4, <2>5, <2>6 DEF Offers
    <3> QED
      BY <2>1, <3>1 DEF Withdraws, NoticeGiven
  <2>7. CASE k = key
    <3>1. new \in Offers(key)'
      BY <2>3, <2>4, <2>7 DEF Offers, new
    <3>2. Offers(key)' \subseteq Offers(key) \cup {new}
      BY <2>1, <2>3, <2>4, <2>5 DEF Offers, new
    <3> QED
      BY <2>1, <3>1, <3>2, AnnounceRule DEF new, NoticeGiven
  <2> QED
    BY <2>6, <2>7
<1>2. ASSUME NEW i \in DOMAIN proposals, execute_parameter_change(i) PROVE NoticeGiven(key)
  <2> DEFINE p == proposals[i]
             o == [value |-> p.value, since |-> p.proposedAt]
  <2>1. UNCHANGED <<now, staged, bundle>> /\ Offers(key)' \subseteq Offers(key)
    BY <1>2, MarkWithdraws DEF execute_parameter_change, Statuses
  <2>2. ProposalOK(p) /\ now \in Nat
    BY DEF TypeOK
  <2>3. CASE p.key # key
    <3>1. param'[key] = param[key]
      BY <1>2, <2>3 DEF execute_parameter_change, TypeOK
    <3> QED
      BY <2>1, <3>1 DEF Withdraws, NoticeGiven
  <2>4. CASE p.key = key
    <3>1. o \in Offers(key)
      <4>1. i \in pendingIds
        BY <1>2 DEF execute_parameter_change, PendingIndexExact
      <4> QED
        BY <2>4, <4>1 DEF Offers
    <3>2. param'[key] = o.value
      BY <1>2, <2>4 DEF execute_parameter_change, TypeOK, ParamKeys
    <3>3. now >= o.since + DEFAULT_PARAM_CHANGE_DELAY_SECS
      <4>1. now >= p.proposedAt + p.lock
        BY <1>2 DEF execute_parameter_change
      <4>2. p.proposedAt \in Nat /\ p.lock \in MIN_UPGRADE_DELAY_SECS .. MAX_UPGRADE_DELAY_SECS
        BY <2>2 DEF ProposalOK
      <4>3. /\ MIN_UPGRADE_DELAY_SECS \in Nat /\ MAX_UPGRADE_DELAY_SECS \in Nat
            /\ DEFAULT_PARAM_CHANGE_DELAY_SECS \in Nat
            /\ MIN_UPGRADE_DELAY_SECS >= DEFAULT_PARAM_CHANGE_DELAY_SECS
        BY DEF MIN_UPGRADE_DELAY_SECS, MAX_UPGRADE_DELAY_SECS, DEFAULT_PARAM_CHANGE_DELAY_SECS
      <4> HIDE DEF p
      <4> QED
        BY <2>2, <4>1, <4>2, <4>3
    <3> QED
      BY <2>1, <3>1, <3>2, <3>3 DEF Applies, NoticeGiven
  <2> QED
    BY <2>3, <2>4
<1>3. ASSUME NEW i \in DOMAIN proposals, veto_parameter_change(i) PROVE NoticeGiven(key)
  BY <1>3, MarkWithdraws DEF veto_parameter_change, Statuses, Withdraws, NoticeGiven
<1>4. CASE get_parameter_proposal
  BY <1>4, MarkWithdraws DEF get_parameter_proposal, Statuses, Withdraws, NoticeGiven
<1> QED
  BY <1>1, <1>2, <1>3, <1>4 DEF ProposalNext

\* Every step gives the notice Timelock asks for, on every setting that can be
\* staged.
LEMMA NoticeStep ==
  ASSUME TypeOK, PendingIndexExact, LocksKept, [Next]_vars, NEW key \in StagedKeys
  PROVE  NoticeGiven(key)
<1>1. CASE UpgradeNext \/ UNCHANGED vars
  BY <1>1 DEF UpgradeNext, propose_upgrade, execute_upgrade, veto_upgrade, vars,
              Offers, Stays, NoticeGiven
<1>2. ASSUME NEW d \in TimeSteps, Tick(d) PROVE NoticeGiven(key)
  <2>1. now' > now
    BY <1>2, GovernanceAssumption DEF Tick, TypeOK
  <2> QED
    BY <1>2, <2>1 DEF Tick, Offers, Passes, NoticeGiven
<1> QED
  BY <1>1, <1>2, StagedNotice, ProposalNotice DEF Next

\* Nothing is announced at the start.
LEMMA NoOffersAtStart == ASSUME Init, NEW key PROVE Offers(key) = {}
BY DEF Init, Offers

\* The upgrade delay changes only to a value announced 24 hours before, by
\* set_upgrade_delay or by a proposal, in any interleaving of the two.
THEOREM DelayLocked == Spec => DelayTimelocked
<1>1. Init => DelayLock!Init
  BY NoOffersAtStart DEF DelayLock!Init
<1>2. TypeOK /\ PendingIndexExact /\ LocksKept /\ [Next]_vars
        => [DelayLock!Next]_(DelayLock!lockVars)
  BY NoticeStep DEF StagedKeys, NoticeGiven, Stays, Withdraws, Passes, Announces, Applies,
       DelayLock!Next, DelayLock!lockVars, DelayLock!Announce, DelayLock!Withdraw,
       DelayLock!Apply, DelayLock!Tick
<1> QED
  BY <1>1, <1>2, LocksCorrect, PTL DEF Spec, DelayTimelocked, DelayLock!Spec

\* The risk threshold changes only to a value announced 24 hours before, by
\* set_risk_threshold or by the policy bundle.
THEOREM ThresholdLocked == Spec => ThresholdTimelocked
<1>1. Init => ThresholdLock!Init
  BY NoOffersAtStart DEF ThresholdLock!Init
<1>2. TypeOK /\ PendingIndexExact /\ LocksKept /\ [Next]_vars
        => [ThresholdLock!Next]_(ThresholdLock!lockVars)
  BY NoticeStep DEF StagedKeys, NoticeGiven, Stays, Withdraws, Passes, Announces, Applies,
       ThresholdLock!Next, ThresholdLock!lockVars, ThresholdLock!Announce,
       ThresholdLock!Withdraw, ThresholdLock!Apply, ThresholdLock!Tick
<1> QED
  BY <1>1, <1>2, LocksCorrect, PTL DEF Spec, ThresholdTimelocked, ThresholdLock!Spec

\* The history depth changes only to a value announced 24 hours before, by
\* set_history_max_depth or by a proposal.
THEOREM DepthLocked == Spec => DepthTimelocked
<1>1. Init => DepthLock!Init
  BY NoOffersAtStart DEF DepthLock!Init
<1>2. TypeOK /\ PendingIndexExact /\ LocksKept /\ [Next]_vars
        => [DepthLock!Next]_(DepthLock!lockVars)
  BY NoticeStep DEF StagedKeys, NoticeGiven, Stays, Withdraws, Passes, Announces, Applies,
       DepthLock!Next, DepthLock!lockVars, DepthLock!Announce, DepthLock!Withdraw,
       DepthLock!Apply, DepthLock!Tick
<1> QED
  BY <1>1, <1>2, LocksCorrect, PTL DEF Spec, DepthTimelocked, DepthLock!Spec

\* The staleness window changes only to a value announced 24 hours before, by
\* set_staleness_window.
THEOREM StalenessLocked == Spec => StalenessTimelocked
<1>1. Init => StalenessLock!Init
  BY NoOffersAtStart DEF StalenessLock!Init
<1>2. TypeOK /\ PendingIndexExact /\ LocksKept /\ [Next]_vars
        => [StalenessLock!Next]_(StalenessLock!lockVars)
  BY NoticeStep DEF StagedKeys, NoticeGiven, Stays, Withdraws, Passes, Announces, Applies,
       StalenessLock!Next, StalenessLock!lockVars, StalenessLock!Announce,
       StalenessLock!Withdraw, StalenessLock!Apply, StalenessLock!Tick
<1> QED
  BY <1>1, <1>2, LocksCorrect, PTL DEF Spec, StalenessTimelocked, StalenessLock!Spec
=============================================================================
