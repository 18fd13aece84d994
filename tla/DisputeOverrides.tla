-------------------------- MODULE DisputeOverrides --------------------------
(***************************************************************************)
(* Disputes of a published score (packages/core/detection/dispute_store.py) *)
(* composed with the queue that publishes their outcome.                   *)
(*                                                                         *)
(* One dispute, whose wallet and pair have a local score.  cast_vote is    *)
(* four database transactions run by the request of one committee member;  *)
(* requests of several members interleave between them and may die there   *)
(* (process exit, or "database is locked" after the connection's timeout). *)
(***************************************************************************)
EXTENDS ChainSubmissionQueue

CONSTANTS Voters,   \* committee members: the voter_key_hash values
          Quorum,   \* COMMITTEE_QUORUM
          MaxDeaths \* bound: requests that die half-way

ASSUME DisputeAssumption ==
  /\ IsFiniteSet(Voters)
  /\ Quorum \in Nat \ {0}
  /\ MaxDeaths \in Nat

VARIABLES
  verdict,    \* score_disputes.status
  votes,      \* score_disputes.committee_votes_json
  ballot,     \* per member: where its request is, and the votes list it holds
  cleared,    \* the wallet's risk_scores rows are deleted
  approvers,  \* history: the members who asked to record an approval
  overlapped, \* history: two requests have been under way at the same time
  deaths      \* history: requests that died half-way

disputeVars == <<verdict, votes, ballot, cleared, approvers, overlapped, deaths>>
vars == <<queueVars, disputeVars>>

Choices == {"approve", "reject"}
Lists == [Voters -> Choices \cup {"none"}]
Empty == [v \in Voters |-> "none"]

Ballots == [pc : {"idle", "loaded", "stored", "resolved"}, list : Lists]

DisputeTypeOK ==
  /\ QueueTypeOK
  /\ verdict \in {"pending", "approved", "rejected"}
  /\ votes \in Lists
  /\ ballot \in [Voters -> Ballots]
  /\ cleared \in BOOLEAN
  /\ approvers \in SUBSET Voters
  /\ overlapped \in BOOLEAN
  /\ deaths \in 0 .. MaxDeaths

NoBallot == [pc |-> "idle", list |-> Empty]

\* submit_dispute has stored the dispute: pending, with an empty list of votes.
DisputeInit ==
  /\ verdict = "pending"
  /\ votes = Empty
  /\ ballot = [v \in Voters |-> NoBallot]
  /\ cleared = FALSE
  /\ approvers = {}
  /\ overlapped = FALSE
  /\ deaths = 0

Init == QueueInit /\ DisputeInit

-----------------------------------------------------------------------------
Count(list, choice) == Cardinality({v \in Voters : list[v] = choice})

Voted(list) == Count(list, "approve") + Count(list, "reject")

\* Fault: any number of votes is a quorum.
SupermajorityOfAny(list, choice) ==
  /\ Voted(list) >= 1
  /\ Count(list, choice) * 3 >= 2 * Voted(list)

Supermajority(list, choice) ==
  /\ Voted(list) >= Quorum
  /\ Count(list, choice) * 3 >= 2 * Voted(list)

\* Fault: a closed dispute still takes votes.
CastVoteLate(v, choice) ==
  /\ ballot[v].pc = "idle"
  /\ votes[v] = "none"
  /\ ballot' = [ballot EXCEPT
                  ![v] = [pc |-> "loaded", list |-> [votes EXCEPT ![v] = choice]]]
  /\ approvers' = IF choice = "approve" THEN approvers \cup {v} ELSE approvers
  /\ overlapped' = (overlapped \/ \E u \in Voters \ {v} : ballot[u].pc # "idle")
  /\ UNCHANGED <<queueVars, verdict, votes, cleared, deaths>>

\* cast_vote reads the dispute, and refuses a closed one and a second vote.
CastVote(v, choice) ==
  /\ ballot[v].pc = "idle"
  /\ verdict = "pending"
  /\ votes[v] = "none"
  /\ ballot' = [ballot EXCEPT
                  ![v] = [pc |-> "loaded", list |-> [votes EXCEPT ![v] = choice]]]
  /\ approvers' = IF choice = "approve" THEN approvers \cup {v} ELSE approvers
  /\ overlapped' = (overlapped \/ \E u \in Voters \ {v} : ballot[u].pc # "idle")
  /\ UNCHANGED <<queueVars, verdict, votes, cleared, deaths>>

\* UPDATE ... SET committee_votes_json: the whole list as this request read it.
PersistVote(v) ==
  /\ ballot[v].pc = "loaded"
  /\ votes' = ballot[v].list
  /\ ballot' = [ballot EXCEPT ![v].pc = "stored"]
  /\ UNCHANGED <<queueVars, verdict, cleared, approvers, overlapped, deaths>>

\* Fault: the request ends with the verdict.
ResolveForgets(v, choice, outcome, next) ==
  /\ Supermajority(ballot[v].list, choice)
  /\ verdict' = outcome
  /\ votes' = ballot[v].list
  /\ ballot' = [ballot EXCEPT ![v] = NoBallot]

\* Quorum and supermajority of the request's own list; _write_dispute_row
\* commits the verdict, whatever the dispute's status is by now.
Resolve(v, choice, outcome, next) ==
  /\ Supermajority(ballot[v].list, choice)
  /\ verdict' = outcome
  /\ votes' = ballot[v].list
  /\ ballot' = [ballot EXCEPT ![v] = next]

StayPending(v) ==
  /\ \A choice \in Choices : ~Supermajority(ballot[v].list, choice)
  /\ ballot' = [ballot EXCEPT ![v] = NoBallot]
  /\ UNCHANGED <<verdict, votes>>

Decide(v) ==
  /\ ballot[v].pc = "stored"
  /\ \/ Resolve(v, "approve", "approved", [ballot[v] EXCEPT !.pc = "resolved"])
     \/ /\ ~Supermajority(ballot[v].list, "approve")
        /\ Resolve(v, "reject", "rejected", NoBallot)
     \/ StayPending(v)
  /\ UNCHANGED <<queueVars, cleared, approvers, overlapped, deaths>>

\* Fault: the local score is deleted first and the obligation left to a thread.
RecordObligationLater(v, o) ==
  /\ ballot[v].pc = "resolved"
  /\ \/ ~cleared /\ UNCHANGED <<queueVars, ballot>>
     \/ cleared /\ Enqueue(o) /\ ballot' = [ballot EXCEPT ![v] = NoBallot]
  /\ cleared' = TRUE
  /\ UNCHANGED <<verdict, votes, approvers, overlapped, deaths>>

\* The second transaction of an approval: a new score_overrides row, the
\* obligation to publish it, and the deletion of the local score.
RecordObligation(v, o) ==
  /\ ballot[v].pc = "resolved"
  /\ Enqueue(o)
  /\ cleared' = TRUE
  /\ ballot' = [ballot EXCEPT ![v] = NoBallot]
  /\ UNCHANGED <<verdict, votes, approvers, overlapped, deaths>>

\* The request dies between two of its transactions.
RequestDies(v) ==
  /\ ballot[v].pc # "idle"
  /\ deaths < MaxDeaths
  /\ deaths' = deaths + 1
  /\ ballot' = [ballot EXCEPT ![v] = NoBallot]
  /\ UNCHANGED <<queueVars, verdict, votes, cleared, approvers, overlapped>>

Request(v) ==
  \/ \E choice \in Choices : CastVote(v, choice)
  \/ PersistVote(v) \/ Decide(v)
  \/ \E o \in Overrides : RecordObligation(v, o)
  \/ RequestDies(v)

Next ==
  \/ \E v \in Voters : Request(v)
  \/ QueueStep /\ UNCHANGED disputeVars

Spec == Init /\ [][Next]_vars

-----------------------------------------------------------------------------
(* Properties                                                                *)

\* A score is removed only when enough members asked for it: however requests
\* interleave, overwrite each other's list or vote again, two thirds of a
\* quorum of distinct members voted to approve.
RemovalBackedByVotes == cleared => Cardinality(approvers) * 3 >= 2 * Quorum

\* "Dispute already resolved and immutable": a dispute whose requests never
\* overlapped owes one override at most, however many of them died half-way
\* and were repeated.
SerialOneObligation ==
  ~overlapped => Cardinality({o \in Overrides : row[o].status # "none"}) <= 1

\* The local score is gone only if the obligation to publish that is recorded,
\* in whatever order requests interleave and die.
RemovalIsOwed == cleared <=> \E o \in Overrides : row[o].status # "none"

\* "the obligation is a committed database row, written in the same transaction
\* as the decision that created it": the two are two transactions, and an
\* approved dispute owes nothing only between them or if a request died there.
ApprovalGapNeedsDeath ==
  verdict = "approved" /\ deaths = 0
  => \/ \E o \in Overrides : row[o].status # "none"
     \/ \E v \in Voters : ballot[v].pc = "resolved"
=============================================================================
