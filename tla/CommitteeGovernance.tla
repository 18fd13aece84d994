------------------------- MODULE CommitteeGovernance -------------------------
(***************************************************************************)
(* The off-chain committee (packages/core/detection/governance.py), which  *)
(* decides settings and its own membership, composed with RuntimeConfig,   *)
(* which carries an executed setting to the processes.                     *)
(*                                                                         *)
(* Several callers close proposals (the scheduled close_expired command    *)
(* may overlap itself); close_proposal reads the status, counts, and       *)
(* writes in separate transactions.  cast_vote checks and inserts in       *)
(* separate statements too.  execute_proposal holds an exclusive           *)
(* transaction, but changes .env before it commits.                        *)
(***************************************************************************)
EXTENDS RuntimeConfig

CONSTANTS Members,      \* every key that may be on the committee
          Founders,     \* the committee at first
          Proposals,    \* proposal ids
          Payload,      \* Payload[p]: what p changes
          Closers,      \* callers of close_expired
          MaxCrashes    \* bound: executions that die before their commit

\* config_change, or committee_update of a member
Payloads == [type : {"config"}] \cup [type : {"add", "remove"}, member : Members]

ASSUME CommitteeAssumption ==
  /\ IsFiniteSet(Members)
  /\ Founders \subseteq Members
  /\ Payload \in [Proposals -> Payloads]
  /\ NULL \notin Proposals
  /\ MaxCrashes \in Nat

VARIABLES
  committee,  \* governance_committee: absent, active, or inactive, per key
  status,     \* governance_proposals.status, "none" for no row
  open,       \* now <= voting_ends_at
  votes,      \* governance_votes
  booth,      \* per member: the proposal its request has passed the checks for
  closer,     \* per caller: where it is in close_proposal, and its locals
  env,        \* the write of runtime_config that .env agrees with, or NULL
  tallied,    \* history: the committee of the tally that passed a proposal
  removed,    \* history: members that a committee_update has taken off
  runs,       \* history: executions of a proposal
  raced,      \* history: two callers have been closing the same proposal
  crashes,    \* history: executions that died or failed after changing .env
  apart       \* history: since the last executed change, a PATCH or such an execution

committeeVars == <<committee, status, open, votes, booth, closer, env, tallied,
                   removed, runs, raced, crashes, apart>>
vars == <<configVars, committeeVars>>

\* A caller in close_proposal: the proposal, the votes it counted, the outcome.
Closer(at, p, fors, outcome) == [pc |-> at, p |-> p, fors |-> fors, outcome |-> outcome]

NotClosing == Closer("out", NULL, 0, "rejected")

CloserStates == [pc : {"out", "count", "size", "write"}, p : Proposals \cup {NULL},
                 fors : Nat, outcome : {"passed", "rejected"}]

CommitteeTypeOK ==
  /\ committee \in [Members -> {"absent", "active", "inactive"}]
  /\ status \in [Proposals -> {"none", "active", "passed", "rejected", "executed", "failed"}]
  /\ open \in [Proposals -> BOOLEAN]
  /\ votes \in [Proposals -> [Members -> {"none", "for", "other"}]]
  /\ booth \in [Members -> Proposals \cup {NULL}]
  /\ closer \in [Closers -> CloserStates]
  /\ env \in Nat \cup {NULL}
  /\ tallied \in [Proposals -> SUBSET Members]
  /\ removed \subseteq Members
  /\ runs \in [Proposals -> Nat]
  /\ raced \in [Proposals -> BOOLEAN]
  /\ crashes \in Nat
  /\ apart \in BOOLEAN

Init ==
  /\ ConfigInit
  /\ committee = [m \in Members |-> IF m \in Founders THEN "active" ELSE "absent"]
  /\ status = [p \in Proposals |-> "none"]
  /\ open = [p \in Proposals |-> TRUE]
  /\ votes = [p \in Proposals |-> [m \in Members |-> "none"]]
  /\ booth = [m \in Members |-> NULL]
  /\ closer = [c \in Closers |-> NotClosing]
  /\ env = 0
  /\ tallied = [p \in Proposals |-> {}]
  /\ removed = {}
  /\ runs = [p \in Proposals |-> 0]
  /\ raced = [p \in Proposals |-> FALSE]
  /\ crashes = 0
  /\ apart = FALSE

-----------------------------------------------------------------------------
Active == {m \in Members : committee[m] = "active"}
For(p) == {m \in Members : votes[p][m] = "for"}

\* The legacy create_proposal and cast_proposal_vote insert the caller into the
\* committee first; INSERT OR IGNORE leaves a removed member removed.
Enrol(m) ==
  /\ committee[m] = "absent"
  /\ committee' = [committee EXCEPT ![m] = "active"]
  /\ UNCHANGED <<configVars, status, open, votes, booth, closer, env, tallied,
                 removed, runs, raced, crashes, apart>>

SubmitProposal(m, p) ==
  /\ committee[m] = "active"
  /\ status[p] = "none"
  /\ status' = [status EXCEPT ![p] = "active"]
  /\ UNCHANGED <<configVars, committee, open, votes, booth, closer, env, tallied,
                 removed, runs, raced, crashes, apart>>

VotingEnds(p) ==
  /\ status[p] # "none"
  /\ open[p]
  /\ open' = [open EXCEPT ![p] = FALSE]
  /\ UNCHANGED <<configVars, committee, status, votes, booth, closer, env, tallied,
                 removed, runs, raced, crashes, apart>>

\* cast_vote: the checks ...
CheckVote(m, p) ==
  /\ booth[m] = NULL
  /\ committee[m] = "active"
  /\ status[p] = "active"
  /\ open[p]
  /\ votes[p][m] = "none"
  /\ booth' = [booth EXCEPT ![m] = p]
  /\ UNCHANGED <<configVars, committee, status, open, votes, closer, env, tallied,
                 removed, runs, raced, crashes, apart>>

\* ... and the INSERT, under UNIQUE(proposal_id, voter).
InsertVote(m, decision) ==
  /\ booth[m] # NULL
  /\ votes' = [votes EXCEPT ![booth[m]][m] = IF @ = "none" THEN decision ELSE @]
  /\ booth' = [booth EXCEPT ![m] = NULL]
  /\ UNCHANGED <<configVars, committee, status, open, closer, env, tallied,
                 removed, runs, raced, crashes, apart>>

-----------------------------------------------------------------------------
(* close_expired and close_proposal                                          *)

\* A proposal read as active whose voting period is over.
CloseBegin(c, p) ==
  /\ closer[c].pc = "out"
  /\ status[p] = "active"
  /\ ~open[p]
  /\ closer' = [closer EXCEPT ![c] = Closer("count", p, 0, "rejected")]
  /\ raced' = [raced EXCEPT ![p] = @ \/ \E d \in Closers : closer[d].p = p]
  /\ UNCHANGED <<configVars, committee, status, open, votes, booth, env, tallied,
                 removed, runs, crashes, apart>>

\* tally_proposal: the votes, then the size of the committee.
CountVotes(c) ==
  /\ closer[c].pc = "count"
  /\ closer' = [closer EXCEPT
                  ![c] = Closer("size", @.p, Cardinality(For(@.p)), "rejected")]
  /\ UNCHANGED <<configVars, committee, status, open, votes, booth, env, tallied,
                 removed, runs, raced, crashes, apart>>

\* Fault: half of the committee is enough.
QuorumOfHalf(size) == (size + 1) \div 2

\* math.floor(committee_size * QUORUM_FRACTION) + 1
QuorumRequired(size) == size \div 2 + 1

CountCommittee(c) ==
  LET size == Cardinality(Active)
      passed == closer[c].fors >= QuorumRequired(size)
  IN
  /\ closer[c].pc = "size"
  /\ closer' = [closer EXCEPT
                  ![c] = Closer("write", @.p, @.fors,
                                IF passed THEN "passed" ELSE "rejected")]
  /\ tallied' = IF passed THEN [tallied EXCEPT ![closer[c].p] = Active] ELSE tallied
  /\ UNCHANGED <<configVars, committee, status, open, votes, booth, env, removed,
                 runs, raced, crashes, apart>>

\* UPDATE governance_proposals SET status, whatever it is by now.
CloseWrite(c) ==
  /\ closer[c].pc = "write"
  /\ status' = [status EXCEPT ![closer[c].p] = closer[c].outcome]
  /\ closer' = [closer EXCEPT ![c] = NotClosing]
  /\ UNCHANGED <<configVars, committee, open, votes, booth, env, tallied, removed,
                 runs, raced, crashes, apart>>

-----------------------------------------------------------------------------
(* execute_proposal                                                          *)

Finish(p, outcome) ==
  /\ status' = [status EXCEPT ![p] = outcome]
  /\ runs' = [runs EXCEPT ![p] = @ + 1]
  /\ UNCHANGED <<open, votes, booth, closer, tallied, raced>>

\* Fault: the status is not looked at under the lock.
ExecutableAnyTime(p) == status[p] \in {"passed", "executed"}

Executable(p) == status[p] = "passed"

\* Fault: the write of runtime_config fails and the failure is swallowed.
ExecuteEnvOnly(p) ==
  /\ Executable(p)
  /\ Payload[p].type = "config"
  /\ env' = db + 1
  /\ apart' = FALSE
  /\ Finish(p, "executed")
  /\ UNCHANGED <<configVars, committee, removed, crashes>>

\* SettingsReloader.apply, the row of runtime_config, 'executed'.
ExecuteConfig(p) ==
  /\ Executable(p)
  /\ Payload[p].type = "config"
  /\ Commit
  /\ env' = db'
  /\ apart' = FALSE
  /\ Finish(p, "executed")
  /\ UNCHANGED <<committee, removed, crashes>>

ExecuteCommittee(p) ==
  /\ Executable(p)
  /\ Payload[p].type \in {"add", "remove"}
  /\ LET m == Payload[p].member IN
     IF Payload[p].type = "add"
     THEN /\ committee' = [committee EXCEPT ![m] = "active"]
          /\ UNCHANGED removed
     ELSE /\ committee' = [committee EXCEPT ![m] = IF @ = "active" THEN "inactive" ELSE @]
          /\ removed' = removed \cup ({m} \cap Active)
  /\ Finish(p, "executed")
  /\ UNCHANGED <<configVars, env, crashes, apart>>

\* A value that does not parse, a committee action that is neither add nor remove,
\* or a statement the database refuses, before anything is changed.
ExecuteRefused(p) ==
  /\ Executable(p)
  /\ Finish(p, "failed")
  /\ UNCHANGED <<configVars, committee, env, removed, crashes, apart>>

\* .env is replaced and the process dies before the commit (the status stays
\* 'passed'), or the table refuses the row (it becomes 'failed').
ExecuteDies(p) ==
  /\ Executable(p)
  /\ Payload[p].type = "config"
  /\ crashes < MaxCrashes
  /\ crashes' = crashes + 1
  /\ env' = NULL
  /\ apart' = TRUE
  /\ status' \in {status, [status EXCEPT ![p] = "failed"]}
  /\ UNCHANGED <<configVars, committee, open, votes, booth, closer, tallied, removed,
                 runs, raced>>

-----------------------------------------------------------------------------
\* PATCH /admin/config of the same setting: the row of runtime_config and nothing
\* else.  Its Invalidate and Bump are those of RuntimeConfig.
patch_config ==
  /\ Commit
  /\ apart' = TRUE
  /\ UNCHANGED <<committee, status, open, votes, booth, closer, env, tallied, removed,
                 runs, raced, crashes>>

CommitteeStep ==
  \/ \E m \in Members : Enrol(m) \/ \E p \in Proposals : SubmitProposal(m, p) \/ CheckVote(m, p)
  \/ \E m \in Members, decision \in {"for", "other"} : InsertVote(m, decision)
  \/ \E p \in Proposals : \/ VotingEnds(p) \/ ExecuteConfig(p) \/ ExecuteCommittee(p)
                          \/ ExecuteRefused(p) \/ ExecuteDies(p)
  \/ \E c \in Closers : \/ \E p \in Proposals : CloseBegin(c, p)
                        \/ CountVotes(c) \/ CountCommittee(c) \/ CloseWrite(c)

Next == CommitteeStep \/ patch_config \/ (Propagate /\ UNCHANGED committeeVars)

Spec == Init /\ [][Next]_vars

-----------------------------------------------------------------------------
(* Properties                                                                *)

\* "quorum check (>50% of committee)": a proposal takes effect only with the
\* votes of more than half of those who are on the committee when its size is
\* read, although membership, votes and other tallies go on between the steps of
\* the close.  tally_proposal also counts the votes of members that have been
\* removed since they voted, so nothing is said of a proposal that one of them
\* has voted for.
EffectNeedsMajority ==
  \A p \in Proposals :
    (status[p] \in {"passed", "executed"} \/ runs[p] > 0) /\ For(p) \cap removed = {}
    => Cardinality(For(p) \cap tallied[p]) * 2 > Cardinality(tallied[p])

\* A proposal is carried out at most once, unless two callers were closing it at
\* the same time: the second one's late write makes an executed proposal
\* executable again.
ExecutedOnce == \A p \in Proposals : ~raced[p] => runs[p] <= 1

\* .env, which a restarted process reads, and runtime_config, which a running
\* one reads, hold the same setting once a proposal has changed it, until a PATCH
\* writes the table alone or an execution dies between the two: executing again
\* brings them back together.
EnvAgrees == ~apart => env = db
=============================================================================
