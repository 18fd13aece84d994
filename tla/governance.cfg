CONSTANTS
  NULL = NULL  code1 = code1  code2 = code2
  WasmHashes = {code1, code2}
  Wasm0 = code1
  Param0 <- ParamDefault
  StageInputs <- StagedChanges
  ProposeInputs <- ProposedChanges
  DirectInputs <- DirectSettings
  BundleInputs <- Bundles
  MAX_PENDING_PARAMETER_PROPOSALS = 1
  StartTime = 86400
  TimeSteps = {86400}
  MaxTime = 518400
  MaxProposals = 2
SPECIFICATION Spec
CONSTRAINT FewChanges
INVARIANTS TypeOK PendingIndexExact
PROPERTIES DecidedOnce UpgradeTimelocked DelayTimelocked ThresholdTimelocked
\* The clock of the instance ends.
CHECK_DEADLOCK FALSE
