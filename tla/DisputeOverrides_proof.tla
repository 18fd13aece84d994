----------------------- MODULE DisputeOverrides_proof -----------------------
(***************************************************************************)
(* Disputes composed with the queue: the composition implements the queue, *)
(* whose theorems it inherits, and no interleaving of requests, deaths and *)
(* repeated votes removes a score without votes or without its obligation. *)
(***************************************************************************)
EXTENDS DisputeOverrides, ChainSubmissionQueue_proof

-----------------------------------------------------------------------------
(* The composition implements the queue                                      *)

\* What the dispute's side does to the queue: nothing, or one Enqueue.
LEMMA QueueOfStep ==
  ASSUME [Next]_vars
  PROVE  [QueueNext]_queueVars
  <1>1. ASSUME NEW v \in Voters, Request(v)  PROVE [QueueNext]_queueVars
    <2>1. ASSUME NEW choice \in Choices, CastVote(v, choice)  PROVE UNCHANGED queueVars
      BY <2>1 DEF CastVote
    <2>2. ASSUME PersistVote(v)  PROVE UNCHANGED queueVars
      BY <2>2 DEF PersistVote
    <2>3. ASSUME Decide(v)  PROVE UNCHANGED queueVars
      BY <2>3 DEF Decide
    <2>4. ASSUME NEW o \in Overrides, RecordObligation(v, o)  PROVE QueueNext
      BY <2>4 DEF RecordObligation, QueueNext
    <2>5. ASSUME RequestDies(v)  PROVE UNCHANGED queueVars
      BY <2>5 DEF RequestDies
    <2> QED
      BY <1>1, <2>1, <2>2, <2>3, <2>4, <2>5 DEF Request
  <1>2. ASSUME QueueStep  PROVE QueueNext
    BY <1>2 DEF QueueNext
  <1>3. ASSUME UNCHANGED vars  PROVE UNCHANGED queueVars
    BY <1>3 DEF vars
  <1> QED
    BY <1>1, <1>2, <1>3 DEF Next

\* cast_vote drives the queue only through enqueue_override_submission.
LEMMA ImplementsQueue == Spec => QueueSpec
  <1>1. Init => QueueInit
    BY DEF Init
  <1>2. [Next]_vars => [QueueNext]_queueVars
    BY QueueOfStep
  <1> QED
    BY <1>1, <1>2, PTL DEF Spec, QueueSpec

\* The guarantees of the queue hold with its real caller.
THEOREM OverridesWritten == Spec => [](WritesWithinSlips /\ SubmittedIsOnChain)
  BY ImplementsQueue, WritesBounded, ReportsTrue, PTL

-----------------------------------------------------------------------------
(* The invariant of the dispute                                              *)

\* Every approval in a list, stored or held by a request, was asked for.
ListsHonest ==
  /\ \A u \in Voters : votes[u] = "approve" => u \in approvers
  /\ \A v, u \in Voters : ballot[v].list[u] = "approve" => u \in approvers

Backed == Cardinality(approvers) * 3 >= 2 * Quorum

\* A request that resolved the dispute had the votes for it.
ResolvedBacked == \A v \in Voters : ballot[v].pc = "resolved" => Backed

Recorded(o) == row[o].status # "none"

\* Requests that never overlapped: one at a time, on a dispute that is pending
\* until one of them resolves it, and that owes nothing before that one ends.
Serial ==
  ~overlapped =>
    /\ \A u, v \in Voters : ballot[u].pc # "idle" /\ ballot[v].pc # "idle" => u = v
    /\ \A v \in Voters : ballot[v].pc \in {"loaded", "stored"} => verdict = "pending"
    /\ \A v \in Voters : ballot[v].pc = "resolved" => verdict = "approved"
    /\ \A o \in Overrides :
         Recorded(o) => /\ verdict = "approved"
                        /\ \A v \in Voters : ballot[v].pc = "idle"
                        /\ \A p \in Overrides : Recorded(p) => p = o

DisputeInv ==
  /\ verdict \in {"pending", "approved", "rejected"}
  /\ votes \in Lists
  /\ ballot \in [Voters -> Ballots]
  /\ cleared \in BOOLEAN
  /\ approvers \in SUBSET Voters
  /\ overlapped \in BOOLEAN
  /\ deaths \in 0 .. MaxDeaths
  /\ row \in [Overrides -> Rows]
  /\ ListsHonest /\ ResolvedBacked /\ RemovalBackedByVotes
  /\ RemovalIsOwed /\ Serial /\ ApprovalGapNeedsDeath

\* A row once recorded is never forgotten, and the queue records none by itself.
LEMMA RecordedKept ==
  ASSUME row \in [Overrides -> Rows], ClaimsHeld, QueueTypeOK, NEW o \in Overrides,
         NothingBeforeRow, QueueStep \/ UNCHANGED queueVars
  PROVE  row'[o].status = "none" <=> row[o].status = "none"
  <1> USE QueueAssumption DEF QueueTypeOK, NothingBeforeRow
  <1>1. ASSUME NEW p \in Overrides, BackoffElapses(p) \/ LeaseExpires(p) \/ LeaseStolen(p)
        PROVE  row'[o].status = "none" <=> row[o].status = "none"
    BY <1>1 DEF BackoffElapses, LeaseExpires, LeaseStolen, ExpireLease, Row
  <1>2. ASSUME NEW p \in Overrides, OrphanLands(p) \/ OrphanDropped(p)
        PROVE  row' = row
    BY <1>2 DEF OrphanLands, OrphanDropped
  <1>3. ASSUME NEW w \in Workers, NEW p \in Overrides, Claim(w, p)
        PROVE  row'[o].status = "none" <=> row[o].status = "none"
    BY <1>3 DEF Claim, Claimable, Row
  <1>4. ASSUME NEW w \in Workers,
               Refused(w) \/ Send(w) \/ Land(w) \/ Rejected(w) \/ OutcomeLost(w)
               \/ MirrorSubmitted(w) \/ Start(w) \/ Crash(w)
        PROVE  row' = row
    BY <1>4 DEF Refused, Send, Land, Rejected, OutcomeLost, MirrorSubmitted, Start, Crash
  <1>5. ASSUME NEW w \in Workers, MarkSubmitted(w)
        PROVE  row'[o].status = "none" <=> row[o].status = "none"
    BY <1>5 DEF MarkSubmitted, At, Row
  <1>6. ASSUME NEW w \in Workers, MarkRetry(w)
        PROVE  row'[o].status = "none" <=> row[o].status = "none"
    BY <1>6, RetryFacts DEF RetryRow
  <1>7. CASE UNCHANGED queueVars
    BY <1>7 DEF queueVars
  <1> QED
    BY <1>1, <1>2, <1>3, <1>4, <1>5, <1>6, <1>7 DEF QueueStep, WorkerStep

\* More members who asked for approval keep a decision backed.
LEMMA BackedGrows ==
  ASSUME approvers \in SUBSET Voters, approvers' \in SUBSET Voters,
         approvers \subseteq approvers', Backed
  PROVE  Backed'
  <1>1. IsFiniteSet(approvers) /\ IsFiniteSet(approvers')
    BY FS_Subset, DisputeAssumption
  <1>2. Cardinality(approvers) <= Cardinality(approvers')
    BY <1>1, FS_Subset
  <1>3. Cardinality(approvers) \in Nat /\ Cardinality(approvers') \in Nat
    BY <1>1, FS_CardinalityType
  <1> QED
    BY <1>2, <1>3, DisputeAssumption DEF Backed

\* A supermajority of an honest list is backed by members who asked for it.
LEMMA SupermajorityBacked ==
  ASSUME NEW list \in Lists, approvers \in SUBSET Voters,
         \A u \in Voters : list[u] = "approve" => u \in approvers,
         Supermajority(list, "approve")
  PROVE  Backed
  <1> DEFINE A == {u \in Voters : list[u] = "approve"}
             R == {u \in Voters : list[u] = "reject"}
  <1>1. A \subseteq approvers /\ IsFiniteSet(approvers) /\ IsFiniteSet(A) /\ IsFiniteSet(R)
    <2>1. A \subseteq approvers /\ A \subseteq Voters /\ R \subseteq Voters
      OBVIOUS
    <2> QED
      BY <2>1, FS_Subset, DisputeAssumption
  <1>2. Cardinality(A) <= Cardinality(approvers)
    BY <1>1, FS_Subset
  <1>3. /\ Cardinality(A) \in Nat /\ Cardinality(R) \in Nat
        /\ Cardinality(approvers) \in Nat
    BY <1>1, FS_CardinalityType
  <1>4. /\ Cardinality(A) + Cardinality(R) >= Quorum
        /\ Cardinality(A) * 3 >= 2 * (Cardinality(A) + Cardinality(R))
    BY DEF Supermajority, Voted, Count
  <1> HIDE DEF A, R
  <1> QED
    BY <1>2, <1>3, <1>4, DisputeAssumption DEF Backed

LEMMA DisputeInvInit ==
  ASSUME Init
  PROVE  DisputeInv
  <1> USE DEF Init, DisputeInit, NoBallot, Empty
  <1>1. Empty \in Lists
    BY DEF Lists
  <1>2. ballot \in [Voters -> Ballots] /\ votes \in Lists
    BY <1>1 DEF Ballots
  <1>3. row \in [Overrides -> Rows]
    BY QueueInvInit DEF QueueInv, QueueTypeOK
  <1>4. \A o \in Overrides : row[o].status = "none"
    BY DEF QueueInit, NoRow, Row
  <1>5. ListsHonest
    BY DEF ListsHonest
  <1>6. /\ ResolvedBacked /\ RemovalBackedByVotes /\ Serial
        /\ ApprovalGapNeedsDeath
    BY <1>4 DEF ResolvedBacked, RemovalBackedByVotes, Serial, Recorded, ApprovalGapNeedsDeath
  <1>7. RemovalIsOwed
    BY <1>4 DEF RemovalIsOwed
  <1>8. deaths \in 0 .. MaxDeaths
    BY DisputeAssumption
  <1> QED
    BY <1>2, <1>3, <1>5, <1>6, <1>7, <1>8 DEF DisputeInv

\* A new request: its list is the stored one and the member's own choice.
LEMMA CastStep ==
  ASSUME DisputeInv, NEW v \in Voters, NEW choice \in Choices, CastVote(v, choice)
  PROVE  DisputeInv'
  <1> USE DEF DisputeInv, CastVote, Choices
  <1> DEFINE b == [pc |-> "loaded", list |-> [votes EXCEPT ![v] = choice]]
  <1>1. [votes EXCEPT ![v] = choice] \in Lists
    BY DEF Lists
  <1>2. b \in Ballots
    BY <1>1 DEF Ballots
  <1>3. ballot' = [ballot EXCEPT ![v] = b] /\ UNCHANGED <<row, verdict, votes, cleared, deaths>>
    BY DEF queueVars
  <1>4. ballot' \in [Voters -> Ballots] /\ approvers' \in SUBSET Voters /\ approvers \subseteq approvers'
        /\ overlapped' \in BOOLEAN
    BY <1>2, <1>3
  <1>5. \A u \in Voters : b.list[u] = "approve" => u \in approvers'
    BY DEF ListsHonest, Lists
  <1>6. b.pc = "loaded"
    OBVIOUS
  <1> HIDE DEF b
  <1>7. ListsHonest'
    BY <1>3, <1>4, <1>5 DEF ListsHonest
  <1>8. ResolvedBacked' /\ RemovalBackedByVotes'
    BY <1>3, <1>4, <1>6, BackedGrows DEF ResolvedBacked, RemovalBackedByVotes, Backed
  <1>9. RemovalIsOwed' /\ ApprovalGapNeedsDeath'
    BY <1>3, <1>6 DEF RemovalIsOwed, ApprovalGapNeedsDeath
  <1>10. Serial'
    <2>1. ~overlapped' => ~overlapped /\ \A u \in Voters \ {v} : ballot[u].pc = "idle"
      BY Zenon DEF CastVote
    <2>2. verdict = "pending"
      OBVIOUS
    <2> HIDE DEF CastVote
    <2> QED
      BY <1>3, <1>6, <2>1, <2>2 DEF Serial, Recorded
  <1> QED
    BY <1>3, <1>4, <1>7, <1>8, <1>9, <1>10

\* The request writes its list.
LEMMA PersistStep ==
  ASSUME DisputeInv, NEW v \in Voters, PersistVote(v)
  PROVE  DisputeInv'
  <1> USE DEF DisputeInv, PersistVote
  <1> DEFINE b == [ballot[v] EXCEPT !.pc = "stored"]
  <1>1. b \in Ballots /\ b.list = ballot[v].list /\ b.pc = "stored" /\ ballot[v].list \in Lists
    BY DEF Ballots
  <1>2. ballot' = [ballot EXCEPT ![v] = b] /\ votes' = ballot[v].list
        /\ UNCHANGED <<row, verdict, cleared, approvers, overlapped, deaths>>
    BY DEF queueVars
  <1> HIDE DEF b
  <1>3. ballot' \in [Voters -> Ballots] /\ votes' \in Lists
    BY <1>1, <1>2
  <1>4. ListsHonest'
    BY <1>1, <1>2 DEF ListsHonest
  <1>5. ResolvedBacked' /\ RemovalBackedByVotes'
    BY <1>1, <1>2 DEF ResolvedBacked, RemovalBackedByVotes, Backed
  <1>6. RemovalIsOwed' /\ ApprovalGapNeedsDeath'
    BY <1>1, <1>2 DEF RemovalIsOwed, ApprovalGapNeedsDeath
  <1>7. Serial'
    BY <1>1, <1>2 DEF Serial, Recorded
  <1> QED
    BY <1>2, <1>3, <1>4, <1>5, <1>6, <1>7

LEMMA NoBallotFacts ==
  NoBallot \in Ballots /\ NoBallot.pc = "idle" /\ \A u \in Voters : NoBallot.list[u] = "none"
  BY DEF NoBallot, Empty, Ballots, Lists

\* The request reaches a verdict, or ends without one.
LEMMA DecideStep ==
  ASSUME DisputeInv, NEW v \in Voters, Decide(v)
  PROVE  DisputeInv'
  <1> USE DEF DisputeInv
  <1> DEFINE b == [ballot[v] EXCEPT !.pc = "resolved"]
  <1>1. b \in Ballots /\ b.list = ballot[v].list /\ b.pc = "resolved" /\ ballot[v].list \in Lists
    BY DEF Ballots
  <1>2. ballot[v].pc = "stored" /\ UNCHANGED <<row, cleared, approvers, overlapped, deaths>>
    BY DEF Decide, queueVars
  <1>3. \/ /\ Supermajority(ballot[v].list, "approve") /\ verdict' = "approved"
           /\ votes' = ballot[v].list /\ ballot' = [ballot EXCEPT ![v] = b]
        \/ /\ verdict' = "rejected"
           /\ votes' = ballot[v].list /\ ballot' = [ballot EXCEPT ![v] = NoBallot]
        \/ /\ verdict' = verdict
           /\ votes' = votes /\ ballot' = [ballot EXCEPT ![v] = NoBallot]
    BY DEF Decide, Resolve, StayPending
  <1> HIDE DEF b
  <1>4. ASSUME verdict' = "approved", votes' = ballot[v].list,
               ballot' = [ballot EXCEPT ![v] = b], Supermajority(ballot[v].list, "approve")
        PROVE  DisputeInv'
    <2>1. ballot' \in [Voters -> Ballots] /\ votes' \in Lists
      BY <1>1, <1>4
    <2>2. ListsHonest'
      BY <1>1, <1>2, <1>4 DEF ListsHonest
    <2>3. Backed
      BY <1>1, <1>4, SupermajorityBacked DEF ListsHonest
    <2>4. ResolvedBacked' /\ RemovalBackedByVotes'
      BY <1>2, <2>3 DEF ResolvedBacked, RemovalBackedByVotes, Backed
    <2>5. RemovalIsOwed' /\ ApprovalGapNeedsDeath'
      BY <1>1, <1>2, <1>4 DEF RemovalIsOwed, ApprovalGapNeedsDeath
    <2>6. Serial'
      BY <1>1, <1>2, <1>4 DEF Serial, Recorded
    <2> QED
      BY <1>2, <1>4, <2>1, <2>2, <2>4, <2>5, <2>6
  <1>5. ASSUME verdict' = "rejected", votes' = ballot[v].list,
               ballot' = [ballot EXCEPT ![v] = NoBallot]
        PROVE  DisputeInv'
    <2>1. ballot' \in [Voters -> Ballots] /\ votes' \in Lists
      BY <1>1, <1>5, NoBallotFacts
    <2>2. ListsHonest'
      BY <1>2, <1>5, NoBallotFacts DEF ListsHonest
    <2>3. ResolvedBacked' /\ RemovalBackedByVotes'
      BY <1>2, <1>5, NoBallotFacts DEF ResolvedBacked, RemovalBackedByVotes, Backed
    <2>4. RemovalIsOwed' /\ ApprovalGapNeedsDeath'
      BY <1>2, <1>5 DEF RemovalIsOwed, ApprovalGapNeedsDeath
    <2>5. Serial'
      BY <1>2, <1>5, NoBallotFacts DEF Serial, Recorded
    <2> QED
      BY <1>2, <1>5, <2>1, <2>2, <2>3, <2>4, <2>5
  <1>6. ASSUME verdict' = verdict, votes' = votes, ballot' = [ballot EXCEPT ![v] = NoBallot]
        PROVE  DisputeInv'
    <2>1. ballot' \in [Voters -> Ballots]
      BY <1>6, NoBallotFacts
    <2>2. ListsHonest'
      BY <1>2, <1>6, NoBallotFacts DEF ListsHonest
    <2>3. ResolvedBacked' /\ RemovalBackedByVotes'
      BY <1>2, <1>6, NoBallotFacts DEF ResolvedBacked, RemovalBackedByVotes, Backed
    <2>4. RemovalIsOwed' /\ ApprovalGapNeedsDeath'
      BY <1>2, <1>6 DEF RemovalIsOwed, ApprovalGapNeedsDeath
    <2>5. Serial'
      BY <1>2, <1>6, NoBallotFacts DEF Serial, Recorded
    <2> QED
      BY <1>2, <1>6, <2>1, <2>2, <2>3, <2>4, <2>5
  <1> QED
    BY <1>3, <1>4, <1>5, <1>6

\* The override, its obligation and the deletion, in one transaction.
LEMMA RecordStep ==
  ASSUME DisputeInv, NEW v \in Voters, NEW o \in Overrides, RecordObligation(v, o)
  PROVE  DisputeInv'
  <1> USE DEF DisputeInv
  <1>1. /\ ballot[v].pc = "resolved" /\ row[o].status = "none"
        /\ row' = [row EXCEPT ![o] = Row("pending", 0, TRUE, "none")]
        /\ cleared' = TRUE /\ ballot' = [ballot EXCEPT ![v] = NoBallot]
        /\ UNCHANGED <<verdict, votes, approvers, overlapped, deaths>>
    BY DEF RecordObligation, Enqueue
  <1>2. Row("pending", 0, TRUE, "none") \in Rows
    BY QueueAssumption DEF Row, Rows, Statuses
  <1>3. row' \in [Overrides -> Rows] /\ ballot' \in [Voters -> Ballots]
    BY <1>1, <1>2, NoBallotFacts
  <1>4. ListsHonest'
    BY <1>1, NoBallotFacts DEF ListsHonest
  <1>5. ResolvedBacked' /\ RemovalBackedByVotes'
    BY <1>1, NoBallotFacts DEF ResolvedBacked, RemovalBackedByVotes, Backed
  <1>6. \A p \in Overrides : Recorded(p)' <=> p = o \/ Recorded(p)
    BY <1>1 DEF Recorded, Row
  <1>7. RemovalIsOwed' /\ ApprovalGapNeedsDeath'
    BY <1>1, <1>6 DEF RemovalIsOwed, ApprovalGapNeedsDeath, Recorded
  <1>8. Serial'
    <2>1. ~overlapped => /\ \A p \in Overrides : ~Recorded(p)
                         /\ \A u \in Voters : u # v => ballot[u].pc = "idle"
                         /\ verdict = "approved"
      BY <1>1 DEF Serial
    <2> QED
      BY <1>1, <1>6, <2>1, NoBallotFacts DEF Serial
  <1> QED
    BY <1>1, <1>3, <1>4, <1>5, <1>7, <1>8

\* A request that dies takes its list with it.
LEMMA DiesStep ==
  ASSUME DisputeInv, NEW v \in Voters, RequestDies(v)
  PROVE  DisputeInv'
  <1> USE DEF DisputeInv
  <1>1. /\ ballot' = [ballot EXCEPT ![v] = NoBallot]
        /\ deaths < MaxDeaths /\ deaths' = deaths + 1
        /\ UNCHANGED <<row, verdict, votes, cleared, approvers, overlapped>>
    BY DEF RequestDies, queueVars
  <1>2. ballot' \in [Voters -> Ballots] /\ deaths' \in 0 .. MaxDeaths
    BY <1>1, NoBallotFacts, DisputeAssumption
  <1>3. ListsHonest'
    BY <1>1, NoBallotFacts DEF ListsHonest
  <1>4. ResolvedBacked' /\ RemovalBackedByVotes'
    BY <1>1, NoBallotFacts DEF ResolvedBacked, RemovalBackedByVotes, Backed
  <1>5. RemovalIsOwed' /\ ApprovalGapNeedsDeath'
    BY <1>1 DEF RemovalIsOwed, ApprovalGapNeedsDeath
  <1>6. Serial'
    BY <1>1, NoBallotFacts DEF Serial, Recorded
  <1> QED
    BY <1>1, <1>2, <1>3, <1>4, <1>5, <1>6

\* The queue neither records nor forgets an obligation.
LEMMA QueueKeepsDispute ==
  ASSUME DisputeInv, QueueInv, QueueInv', QueueStep \/ UNCHANGED queueVars,
         UNCHANGED disputeVars
  PROVE  DisputeInv'
  <1> USE DEF DisputeInv
  <1>1. \A o \in Overrides : Recorded(o)' <=> Recorded(o)
    BY RecordedKept DEF Recorded, QueueInv, QueueTypeOK
  <1>2. UNCHANGED <<verdict, votes, ballot, cleared, approvers, overlapped, deaths>>
    BY DEF disputeVars
  <1>3. row' \in [Overrides -> Rows]
    BY DEF QueueInv, QueueTypeOK
  <1>4. ListsHonest' /\ ResolvedBacked' /\ RemovalBackedByVotes'
    BY <1>2 DEF ListsHonest, ResolvedBacked, RemovalBackedByVotes, Backed
  <1>5. RemovalIsOwed' /\ ApprovalGapNeedsDeath'
    BY <1>1, <1>2 DEF RemovalIsOwed, ApprovalGapNeedsDeath, Recorded
  <1>6. Serial'
    BY <1>1, <1>2 DEF Serial
  <1> QED
    BY <1>2, <1>3, <1>4, <1>5, <1>6

-----------------------------------------------------------------------------
(* The theorems                                                              *)

\* The inductive invariant of the dispute, on top of the queue's.
THEOREM DisputeInvariant == Spec => []DisputeInv
  <1>1. Spec => []QueueInv
    BY ImplementsQueue, QueueInvariant, PTL
  <1>2. Init => DisputeInv
    BY DisputeInvInit
  <1>3. ASSUME DisputeInv, QueueInv, QueueInv', [Next]_vars  PROVE DisputeInv'
    <2>1. ASSUME NEW v \in Voters, Request(v)  PROVE DisputeInv'
      BY <1>3, <2>1, CastStep, PersistStep, DecideStep, RecordStep, DiesStep DEF Request
    <2>2. CASE QueueStep /\ UNCHANGED disputeVars
      BY <1>3, <2>2, QueueKeepsDispute
    <2>3. CASE UNCHANGED vars
      BY <1>3, <2>3, QueueKeepsDispute DEF vars
    <2> QED
      BY <1>3, <2>1, <2>2, <2>3 DEF Next
  <1> QED
    BY <1>1, <1>2, <1>3, PTL DEF Spec

\* The dispute, the lists that requests hold and the queue keep their types.
THEOREM DisputeTypeCorrect == Spec => []DisputeTypeOK
  <1>1. DisputeInv /\ QueueTypeOK => DisputeTypeOK
    BY DEF DisputeInv, DisputeTypeOK
  <1> QED
    BY <1>1, DisputeInvariant, ImplementsQueue, QueueTypeCorrect, PTL

\* cast_vote and _resolve: no interleaving of requests, lost votes and repeated
\* ones removes a score that two thirds of a quorum did not vote to remove.
THEOREM RemovalsBacked == Spec => []RemovalBackedByVotes
  <1>1. DisputeInv => RemovalBackedByVotes
    BY DEF DisputeInv
  <1> QED
    BY <1>1, DisputeInvariant, PTL

\* The local score and the obligation change in one transaction.
THEOREM RemovalsOwed == Spec => []RemovalIsOwed
  <1>1. DisputeInv => RemovalIsOwed
    BY DEF DisputeInv
  <1> QED
    BY <1>1, DisputeInvariant, PTL

\* An approved dispute without an obligation is one whose request is still
\* between its two transactions, or died there.
THEOREM ApprovalGapExplained == Spec => []ApprovalGapNeedsDeath
  <1>1. DisputeInv => ApprovalGapNeedsDeath
    BY DEF DisputeInv
  <1> QED
    BY <1>1, DisputeInvariant, PTL

\* Requests that do not overlap leave one obligation at most.
THEOREM SerialRequestsOweOnce == Spec => []SerialOneObligation
  <1>1. ASSUME DisputeInv  PROVE SerialOneObligation
    <2> DEFINE S == {o \in Overrides : row[o].status # "none"}
    <2> SUFFICES ASSUME ~overlapped  PROVE Cardinality(S) <= 1
      BY DEF SerialOneObligation
    <2>1. CASE S = {}
      <3>1. Cardinality(S) = 0
        BY <2>1, FS_EmptySet
      <3> QED  BY <3>1
    <2>2. ASSUME NEW o \in S  PROVE Cardinality(S) <= 1
      <3>1. S = {o}
        BY <1>1, <2>2 DEF DisputeInv, Serial, Recorded
      <3>2. Cardinality(S) = 1
        BY <3>1, FS_Singleton
      <3> QED  BY <3>2
    <2> HIDE DEF S
    <2> QED  BY <2>1, <2>2
  <1> QED
    BY <1>1, DisputeInvariant, PTL
=============================================================================
