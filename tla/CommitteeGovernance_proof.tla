---------------------- MODULE CommitteeGovernance_proof ----------------------
(***************************************************************************)
(* The settings of a process by themselves, for any number of threads,     *)
(* writes, failed reads and losses of the counter; then the committee      *)
(* composed with them, for any committee, set of proposals, callers that   *)
(* close them and executions that die.                                     *)
(***************************************************************************)
EXTENDS CommitteeGovernance, FiniteSetTheorems, TLAPS

-----------------------------------------------------------------------------
(* The order in which a process reads the counter and the table              *)

\* As long as the counter is not lost, it never runs ahead of the table, and
\* nobody has seen more of it than there is.
CounterBehind ==
  resets = 0 =>
    /\ version + owed <= db
    /\ seen # NULL => seen <= version
    /\ \A t \in Threads : thread[t].ver # NULL => thread[t].ver <= version

\* The mapping n is empty or at least as new as the version v.
Covers(n, v) == n = 0 \/ v = NULL \/ n >= v

\* Reads that do not overlap: what the thread inside get has read, and what it
\* has stored, covers the version it read before and the one seen last.
ReadsCover ==
  resets = 0 /\ ~overlapped =>
    /\ \A t, u \in Threads : thread[t].pc # "out" /\ thread[u].pc # "out" => t = u
    /\ Covers(config, seen)
    /\ \A t \in Threads :
         /\ thread[t].pc = "store" =>
              Covers(thread[t].val, seen) /\ Covers(thread[t].val, thread[t].ver)
         /\ thread[t].pc = "mark" => Covers(config, thread[t].ver)

ConfigInv == ConfigTypeOK /\ CounterBehind /\ ReadsCover

LEMMA ConfigInvInit ==
  ASSUME ConfigInit
  PROVE  ConfigInv
  <1> USE ConfigAssumption DEF ConfigInit, Outside, Thread
  <1>1. ConfigTypeOK
    <2>1. Outside \in ThreadStates
      BY DEF ThreadStates
    <2>2. thread \in [Threads -> ThreadStates]
      BY <2>1
    <2>3. fresh \in BOOLEAN /\ overlapped \in BOOLEAN
      BY Zenon DEF ConfigInit
    <2> QED
      BY <2>2, <2>3 DEF ConfigTypeOK
  <1>2. CounterBehind
    BY DEF CounterBehind
  <1>3. ReadsCover
    BY DEF ReadsCover, Covers
  <1> QED
    BY <1>1, <1>2, <1>3 DEF ConfigInv

LEMMA ConfigTypeStep ==
  ASSUME ConfigInv, [ConfigNext]_configVars
  PROVE  ConfigTypeOK'
  <1> USE ConfigAssumption DEF ConfigInv, ConfigTypeOK
  <1>1. CASE Commit \/ Invalidate \/ Bump \/ CounterLost \/ TtlElapses
    <2>1. CASE Commit
      BY <2>1 DEF Commit
    <2>2. CASE Invalidate \/ TtlElapses
      <3>1. fresh' \in BOOLEAN
        BY <2>2, Zenon DEF Invalidate, TtlElapses
      <3> QED
        BY <2>2, <3>1 DEF Invalidate, TtlElapses
    <2>3. CASE Bump
      BY <2>3 DEF Bump
    <2>4. CASE CounterLost
      BY <2>4 DEF CounterLost
    <2> QED
      BY <1>1, <2>1, <2>2, <2>3, <2>4
  <1>2. ASSUME NEW t \in Threads, CheckVersion(t)  PROVE ConfigTypeOK'
    <2>1. thread' \in [Threads -> ThreadStates]
      BY <1>2 DEF CheckVersion, Thread, ThreadStates
    <2>2. overlapped' \in BOOLEAN
      BY <1>2, Zenon DEF CheckVersion
    <2> QED
      BY <1>2, <2>1, <2>2 DEF CheckVersion
  <1>3. ASSUME NEW t \in Threads, ServeFromCache(t)  PROVE ConfigTypeOK'
    BY <1>3 DEF ServeFromCache, configVars
  <1>4. ASSUME NEW t \in Threads, ReadTable(t)  PROVE ConfigTypeOK'
    BY <1>4 DEF ReadTable, Thread, ThreadStates
  <1>5. ASSUME NEW t \in Threads, ReadFails(t)  PROVE ConfigTypeOK'
    BY <1>5 DEF ReadFails, Thread, ThreadStates
  <1>6. ASSUME NEW t \in Threads, StoreConfig(t)  PROVE ConfigTypeOK'
    BY <1>6 DEF StoreConfig, Thread, ThreadStates
  <1>7. ASSUME NEW t \in Threads, MarkSeen(t)  PROVE ConfigTypeOK'
    BY <1>7 DEF MarkSeen, Outside, Thread, ThreadStates
  <1>8. CASE UNCHANGED configVars
    BY <1>8 DEF configVars
  <1> QED
    BY <1>1, <1>2, <1>3, <1>4, <1>5, <1>6, <1>7, <1>8 DEF ConfigNext, Propagate, Get

LEMMA CounterStep ==
  ASSUME ConfigInv, ConfigTypeOK', [ConfigNext]_configVars
  PROVE  CounterBehind'
  <1> USE ConfigAssumption DEF ConfigInv, ConfigTypeOK, CounterBehind
  <1>0. /\ \A t \in Threads : thread[t].ver \in Nat \cup {NULL}
        /\ db \in Nat /\ owed \in Nat /\ version \in Nat /\ seen \in Nat \cup {NULL}
    BY DEF ThreadStates
  <1>1. CASE Commit \/ Invalidate \/ TtlElapses
    <2>1. /\ \/ db' = db /\ owed' = owed
             \/ db' = db + 1 /\ owed' = owed + 1
          /\ UNCHANGED <<seen, thread, version, resets>>
      <3>1. CASE Commit
        BY <3>1 DEF Commit
      <3>2. CASE Invalidate
        BY <3>2 DEF Invalidate
      <3>3. CASE TtlElapses
        BY <3>3 DEF TtlElapses
      <3> QED
        BY <1>1, <3>1, <3>2, <3>3
    <2> HIDE DEF ConfigTypeOK
    <2> QED
      BY <1>0, <2>1
  <1>2. CASE Bump
    <2>1. /\ owed' = owed - 1 /\ (version' = version \/ version' = version + 1)
          /\ UNCHANGED <<seen, thread, db, resets>>
      BY <1>2 DEF Bump
    <2> HIDE DEF ConfigTypeOK
    <2> QED
      BY <1>0, <2>1
  <1>3. CASE CounterLost
    BY <1>3 DEF CounterLost
  <1>4. ASSUME NEW t \in Threads, CheckVersion(t)  PROVE CounterBehind'
    BY <1>4 DEF CheckVersion, Thread, ThreadStates
  <1>5. ASSUME NEW t \in Threads, ServeFromCache(t)  PROVE CounterBehind'
    BY <1>5 DEF ServeFromCache, configVars
  <1>6. ASSUME NEW t \in Threads, ReadTable(t) \/ ReadFails(t) \/ StoreConfig(t)
        PROVE CounterBehind'
    <2>1. /\ \A u \in Threads : thread'[u].ver = thread[u].ver
          /\ UNCHANGED <<db, owed, version, seen, resets>>
      BY <1>6 DEF ReadTable, ReadFails, StoreConfig, Thread
    <2> HIDE DEF ConfigTypeOK
    <2> QED
      BY <1>0, <2>1
  <1>7. ASSUME NEW t \in Threads, MarkSeen(t)  PROVE CounterBehind'
    BY <1>7 DEF MarkSeen, Outside, Thread, ThreadStates
  <1>8. CASE UNCHANGED configVars
    BY <1>8 DEF configVars
  <1> QED
    BY <1>1, <1>2, <1>3, <1>4, <1>5, <1>6, <1>7, <1>8 DEF ConfigNext, Propagate, Get

LEMMA CoverStep ==
  ASSUME ConfigInv, ConfigTypeOK', [ConfigNext]_configVars
  PROVE  ReadsCover'
  <1> USE ConfigAssumption DEF ConfigInv, ConfigTypeOK, ReadsCover, Covers
  <1>1. CASE Commit \/ Invalidate \/ Bump \/ TtlElapses
    BY <1>1 DEF Commit, Invalidate, Bump, TtlElapses
  <1>2. CASE CounterLost
    BY <1>2 DEF CounterLost
  <1>3. ASSUME NEW t \in Threads, CheckVersion(t)  PROVE ReadsCover'
    <2>1. ~overlapped' => ~overlapped /\ \A u \in Threads : thread[u].pc = "out"
      BY <1>3, Zenon DEF CheckVersion
    <2>2. PICK ver \in {version, NULL} : thread' = [thread EXCEPT ![t] = Thread("read", ver, 0)]
      BY <1>3 DEF CheckVersion
    <2>3. UNCHANGED <<config, seen, resets>>
      BY <1>3 DEF CheckVersion
    <2> QED
      BY <2>1, <2>2, <2>3 DEF Thread
  <1>4. ASSUME NEW t \in Threads, ServeFromCache(t)  PROVE ReadsCover'
    BY <1>4 DEF ServeFromCache, configVars
  <1>5. ASSUME NEW t \in Threads, ReadTable(t)  PROVE ReadsCover'
    BY <1>5 DEF ReadTable, Thread, ThreadStates, CounterBehind
  <1>6. ASSUME NEW t \in Threads, ReadFails(t)  PROVE ReadsCover'
    BY <1>6 DEF ReadFails, Thread, ThreadStates
  <1>7. ASSUME NEW t \in Threads, StoreConfig(t)  PROVE ReadsCover'
    BY <1>7 DEF StoreConfig, Thread, ThreadStates
  <1>8. ASSUME NEW t \in Threads, MarkSeen(t)  PROVE ReadsCover'
    BY <1>8 DEF MarkSeen, Outside, Thread, ThreadStates
  <1>9. CASE UNCHANGED configVars
    BY <1>9 DEF configVars
  <1> QED
    BY <1>1, <1>2, <1>3, <1>4, <1>5, <1>6, <1>7, <1>8, <1>9 DEF ConfigNext, Propagate, Get

\* The inductive invariant of the settings.
THEOREM ConfigInvariant == ConfigSpec => []ConfigInv
  <1>1. ConfigInv /\ [ConfigNext]_configVars => ConfigInv'
    BY ConfigTypeStep, CounterStep, CoverStep DEF ConfigInv
  <1> QED
    BY <1>1, ConfigInvInit, PTL DEF ConfigSpec

\* _RuntimeConfigCache.get reads the counter before the table, so a write whose
\* bump was seen is in the cache, or the cache is empty.
THEOREM SeenIsServed == ConfigSpec => []SeenBringsChange
  <1>1. ConfigInv => SeenBringsChange
    BY DEF ConfigInv, ReadsCover, Covers, SeenBringsChange
  <1> QED
    BY <1>1, ConfigInvariant, PTL

-----------------------------------------------------------------------------
(* The composition implements the settings                                   *)

LEMMA ConfigOfStep ==
  ASSUME [Next]_vars
  PROVE  [ConfigNext]_configVars
  <1>1. ASSUME NEW m \in Members, NEW p \in Proposals,
               SubmitProposal(m, p) \/ CheckVote(m, p)
        PROVE  UNCHANGED configVars
    BY <1>1 DEF SubmitProposal, CheckVote
  <1>2. ASSUME NEW m \in Members, Enrol(m)  PROVE UNCHANGED configVars
    BY <1>2 DEF Enrol
  <1>3. ASSUME NEW m \in Members, NEW d \in {"for", "other"}, InsertVote(m, d)
        PROVE  UNCHANGED configVars
    BY <1>3 DEF InsertVote
  <1>4. ASSUME NEW p \in Proposals,
               VotingEnds(p) \/ ExecuteCommittee(p) \/ ExecuteRefused(p) \/ ExecuteDies(p)
        PROVE  UNCHANGED configVars
    BY <1>4 DEF VotingEnds, ExecuteCommittee, ExecuteRefused, ExecuteDies
  <1>5. ASSUME NEW p \in Proposals, ExecuteConfig(p)  PROVE ConfigNext
    BY <1>5 DEF ExecuteConfig, ConfigNext
  <1>6. ASSUME NEW c \in Closers, NEW p \in Proposals, CloseBegin(c, p)
        PROVE  UNCHANGED configVars
    BY <1>6 DEF CloseBegin
  <1>7. ASSUME NEW c \in Closers, CountVotes(c) \/ CountCommittee(c) \/ CloseWrite(c)
        PROVE  UNCHANGED configVars
    BY <1>7 DEF CountVotes, CountCommittee, CloseWrite
  <1>8. ASSUME Propagate \/ patch_config  PROVE ConfigNext
    BY <1>8 DEF ConfigNext, patch_config
  <1>9. ASSUME UNCHANGED vars  PROVE UNCHANGED configVars
    BY <1>9 DEF vars
  <1> QED
    BY <1>1, <1>2, <1>3, <1>4, <1>5, <1>6, <1>7, <1>8, <1>9 DEF Next, CommitteeStep

\* Every behaviour of the composition is one of RuntimeConfig, so that what holds
\* of the settings holds here.
LEMMA ImplementsConfig == Spec => ConfigSpec
  <1>1. Init => ConfigInit
    BY DEF Init
  <1>2. [Next]_vars => [ConfigNext]_configVars
    BY ConfigOfStep
  <1> QED
    BY <1>1, <1>2, PTL DEF Spec, ConfigSpec

-----------------------------------------------------------------------------
(* The invariant of the committee                                            *)

\* What EffectNeedsMajority asks of p: that a removed member has voted for it, or
\* that it has the majority of the committee it was tallied with.
Majority(p) ==
  For(p) \cap removed = {} => Cardinality(For(p) \cap tallied[p]) * 2 > Cardinality(tallied[p])

\* Whoever has voted, or has passed the checks for it, is still on the committee
\* or was removed from it.
Seated(m) == committee[m] = "active" \/ m \in removed

VotersSeated ==
  \A m \in Members :
    /\ booth[m] # NULL => Seated(m)
    /\ \A p \in Proposals : votes[p][m] # "none" => Seated(m)

\* A tally under way has counted no more votes than there are, and an outcome
\* about to be written has the majority it claims.
TalliesHonest ==
  \A c \in Closers :
    /\ closer[c].pc # "out" => closer[c].p \in Proposals
    /\ closer[c].pc = "size" => closer[c].fors <= Cardinality(For(closer[c].p))
    /\ closer[c].pc = "write" /\ closer[c].outcome = "passed" => Majority(closer[c].p)

\* A proposal that one caller at a time closes is active until that caller is
\* done, and has not been carried out while it can be.
ClosedAlone ==
  \A p \in Proposals :
    ~raced[p] =>
      /\ \A c, d \in Closers : closer[c].p = p /\ closer[d].p = p => c = d
      /\ \A c \in Closers : closer[c].p = p => status[p] = "active"
      /\ runs[p] <= 1
      /\ status[p] \in {"active", "passed", "none"} => runs[p] = 0

CommitteeInv ==
  /\ CommitteeTypeOK
  /\ VotersSeated /\ TalliesHonest /\ EffectNeedsMajority /\ ClosedAlone /\ EnvAgrees

LEMMA ForFinite ==
  ASSUME NEW p \in Proposals
  PROVE  IsFiniteSet(For(p)) /\ Cardinality(For(p)) \in Nat
  <1>1. For(p) \subseteq Members
    BY DEF For
  <1> QED
    BY <1>1, FS_Subset, FS_CardinalityType, CommitteeAssumption

LEMMA ActiveFinite ==
  IsFiniteSet(Active) /\ Cardinality(Active) \in Nat
  <1>1. Active \subseteq Members
    BY DEF Active
  <1> QED
    BY <1>1, FS_Subset, FS_CardinalityType, CommitteeAssumption

\* Votes and removals are only added, so a majority is kept.
LEMMA MajorityKept ==
  ASSUME CommitteeTypeOK, NEW p \in Proposals, For(p) \subseteq For(p)',
         removed \subseteq removed', tallied'[p] = tallied[p], Majority(p)
  PROVE  Majority(p)'
  <1> DEFINE Backers == For(p) \cap tallied[p]
  <1>1. tallied[p] \subseteq Members
    BY DEF CommitteeTypeOK
  <1>2. IsFiniteSet(tallied[p])
    BY <1>1, FS_Subset, CommitteeAssumption
  <1>3. Backers \subseteq Backers' /\ Backers' \subseteq tallied[p]
    OBVIOUS
  <1>4. IsFiniteSet(Backers')
    BY <1>2, <1>3, FS_Subset
  <1>5. /\ Cardinality(Backers) \in Nat /\ Cardinality(Backers') \in Nat
        /\ Cardinality(tallied[p]) \in Nat
        /\ Cardinality(Backers) <= Cardinality(Backers')
    BY <1>2, <1>3, <1>4, FS_Subset, FS_CardinalityType
  <1>6. For(p)' \cap removed' = {} => For(p) \cap removed = {}
    OBVIOUS
  <1> HIDE DEF Backers
  <1>7. For(p)' \cap removed' = {} => Cardinality(Backers') * 2 > Cardinality(tallied[p])
    <2>1. For(p) \cap removed = {} => Cardinality(Backers) * 2 > Cardinality(tallied[p])
      BY DEF Majority, Backers
    <2> QED  BY <1>5, <1>6, <2>1
  <1> QED
    BY <1>7 DEF Majority, Backers

\* A step after which everybody who is seated still is, and nobody new has voted
\* or is about to.
LEMMA SeatsKept ==
  ASSUME VotersSeated, UNCHANGED <<votes, booth>>,
         \A m \in Members : Seated(m) => Seated(m)'
  PROVE  VotersSeated'
  BY DEF VotersSeated

LEMMA SeatsStep ==
  ASSUME CommitteeInv, [Next]_vars
  PROVE  VotersSeated'
  <1> USE CommitteeAssumption, ConfigAssumption DEF CommitteeInv
  <1>a. ASSUME UNCHANGED <<votes, booth, committee, removed>>  PROVE VotersSeated'
    BY <1>a, SeatsKept DEF Seated
  <1>1. ASSUME NEW m \in Members, Enrol(m)  PROVE VotersSeated'
    <2>1. \A n \in Members : Seated(n) => Seated(n)'
      BY <1>1 DEF Enrol, Seated, CommitteeTypeOK
    <2> QED
      BY <1>1, <2>1, SeatsKept DEF Enrol
  <1>2. ASSUME NEW m \in Members, NEW p \in Proposals, SubmitProposal(m, p)
        PROVE  VotersSeated'
    BY <1>2, <1>a DEF SubmitProposal
  <1>3. ASSUME NEW m \in Members, NEW p \in Proposals, CheckVote(m, p)  PROVE VotersSeated'
    BY <1>3 DEF CheckVote, VotersSeated, Seated, CommitteeTypeOK
  <1>4. ASSUME NEW m \in Members, NEW d \in {"for", "other"}, InsertVote(m, d)
        PROVE  VotersSeated'
    BY <1>4 DEF InsertVote, VotersSeated, Seated, CommitteeTypeOK
  <1>5. ASSUME NEW p \in Proposals,
               VotingEnds(p) \/ ExecuteConfig(p) \/ ExecuteRefused(p) \/ ExecuteDies(p)
        PROVE  VotersSeated'
    BY <1>5, <1>a DEF VotingEnds, ExecuteConfig, ExecuteRefused, ExecuteDies, Finish
  <1>6. ASSUME NEW p \in Proposals, ExecuteCommittee(p)  PROVE VotersSeated'
    <2>1. \A n \in Members : Seated(n) => Seated(n)'
      <3>1. CASE Payload[p].type = "add"
        BY <1>6, <3>1 DEF ExecuteCommittee, Seated, CommitteeTypeOK
      <3>2. CASE Payload[p].type # "add"
        BY <1>6, <3>2 DEF ExecuteCommittee, Seated, Active, CommitteeTypeOK
      <3> QED  BY <3>1, <3>2
    <2> QED
      BY <1>6, <2>1, SeatsKept DEF ExecuteCommittee, Finish
  <1>7. ASSUME NEW c \in Closers, NEW p \in Proposals, CloseBegin(c, p)  PROVE VotersSeated'
    BY <1>7, <1>a DEF CloseBegin
  <1>8. ASSUME NEW c \in Closers, CountVotes(c) \/ CountCommittee(c) \/ CloseWrite(c)
        PROVE  VotersSeated'
    BY <1>8, <1>a DEF CountVotes, CountCommittee, CloseWrite
  <1>9. CASE patch_config
    BY <1>9, <1>a DEF patch_config
  <1>10. CASE UNCHANGED committeeVars
    BY <1>10, <1>a DEF committeeVars
  <1> QED
    BY <1>1, <1>2, <1>3, <1>4, <1>5, <1>6, <1>7, <1>8, <1>9, <1>10
    DEF Next, CommitteeStep, vars

LEMMA CommitteeTypeStep ==
  ASSUME CommitteeInv, ConfigTypeOK', [Next]_vars
  PROVE  CommitteeTypeOK'
  <1> USE CommitteeAssumption, ConfigAssumption DEF CommitteeInv, CommitteeTypeOK
  <1>1. ASSUME NEW m \in Members, Enrol(m)  PROVE CommitteeTypeOK'
    BY <1>1 DEF Enrol
  <1>2. ASSUME NEW m \in Members, NEW p \in Proposals, SubmitProposal(m, p)
        PROVE  CommitteeTypeOK'
    BY <1>2 DEF SubmitProposal
  <1>3. ASSUME NEW m \in Members, NEW p \in Proposals, CheckVote(m, p)
        PROVE  CommitteeTypeOK'
    BY <1>3 DEF CheckVote
  <1>4. ASSUME NEW m \in Members, NEW d \in {"for", "other"}, InsertVote(m, d)
        PROVE  CommitteeTypeOK'
    BY <1>4 DEF InsertVote
  <1>5. ASSUME NEW p \in Proposals, VotingEnds(p)  PROVE CommitteeTypeOK'
    <2>1. open' \in [Proposals -> BOOLEAN]
      BY <1>5 DEF VotingEnds
    <2> QED
      BY <1>5, <2>1 DEF VotingEnds
  <1>6. ASSUME NEW p \in Proposals, ExecuteConfig(p)  PROVE CommitteeTypeOK'
    <2>0. apart' \in BOOLEAN
      BY <1>6, Zenon DEF ExecuteConfig
    <2>1. env' \in Nat
      BY <1>6 DEF ExecuteConfig, ConfigTypeOK
    <2>2. UNCHANGED <<committee, removed, crashes>>
      BY <1>6 DEF ExecuteConfig
    <2> QED
      BY <1>6, <2>0, <2>1, <2>2 DEF ExecuteConfig, Finish
  <1>7. ASSUME NEW p \in Proposals, ExecuteCommittee(p)  PROVE CommitteeTypeOK'
    <2>1. Payload[p].member \in Members
      BY <1>7 DEF ExecuteCommittee, Payloads
    <2>2. committee' \in [Members -> {"absent", "active", "inactive"}]
      BY <1>7, <2>1 DEF ExecuteCommittee
    <2>3. removed' \subseteq Members
      BY <1>7, <2>1 DEF ExecuteCommittee
    <2>4. UNCHANGED <<env, crashes, apart>>
      BY <1>7 DEF ExecuteCommittee
    <2> QED
      BY <1>7, <2>2, <2>3, <2>4 DEF ExecuteCommittee, Finish
  <1>8. ASSUME NEW p \in Proposals, ExecuteRefused(p)  PROVE CommitteeTypeOK'
    BY <1>8 DEF ExecuteRefused, Finish
  <1>9. ASSUME NEW p \in Proposals, ExecuteDies(p)  PROVE CommitteeTypeOK'
    <2>1. apart' \in BOOLEAN
      BY <1>9 DEF ExecuteDies
    <2> QED
      BY <1>9, <2>1 DEF ExecuteDies
  <1>10. ASSUME NEW c \in Closers, NEW p \in Proposals, CloseBegin(c, p)
         PROVE  CommitteeTypeOK'
    <2>1. Closer("count", p, 0, "rejected") \in CloserStates
      BY DEF Closer, CloserStates
    <2>2. closer' \in [Closers -> CloserStates]
      BY <1>10, <2>1 DEF CloseBegin
    <2>3. raced' \in [Proposals -> BOOLEAN]
      BY <1>10 DEF CloseBegin
    <2> QED
      BY <1>10, <2>2, <2>3 DEF CloseBegin
  <1>11. ASSUME NEW c \in Closers, CountVotes(c)  PROVE CommitteeTypeOK'
    <2>1. closer[c].p \in Proposals /\ Cardinality(For(closer[c].p)) \in Nat
      BY <1>11, ForFinite DEF CountVotes, TalliesHonest
    <2>2. Closer("size", closer[c].p, Cardinality(For(closer[c].p)), "rejected") \in CloserStates
      BY <2>1 DEF Closer, CloserStates
    <2> QED
      BY <1>11, <2>2 DEF CountVotes
  <1>12. ASSUME NEW c \in Closers, CountCommittee(c)  PROVE CommitteeTypeOK'
    <2>1. Active \subseteq Members
      BY DEF Active
    <2>3. closer[c].p \in Proposals
      BY <1>12 DEF CountCommittee, TalliesHonest
    <2>4. tallied' \in [Proposals -> SUBSET Members]
      BY <1>12, <2>1, <2>3 DEF CountCommittee
    <2>5. \E o \in {"passed", "rejected"} :
            closer' = [closer EXCEPT ![c] = Closer("write", closer[c].p, closer[c].fors, o)]
      BY <1>12 DEF CountCommittee
    <2>6. closer' \in [Closers -> CloserStates]
      BY <2>5 DEF Closer, CloserStates
    <2> QED
      BY <1>12, <2>4, <2>6 DEF CountCommittee
  <1>13. ASSUME NEW c \in Closers, CloseWrite(c)  PROVE CommitteeTypeOK'
    <2>1. NotClosing \in CloserStates
      BY DEF NotClosing, Closer, CloserStates
    <2>2. closer[c].outcome \in {"passed", "rejected"}
      BY DEF CloserStates
    <2> QED
      BY <1>13, <2>1, <2>2 DEF CloseWrite
  <1>14. CASE UNCHANGED committeeVars
    BY <1>14 DEF committeeVars
  <1>15. CASE patch_config
    <2>1. apart' \in BOOLEAN
      BY <1>15 DEF patch_config
    <2> QED
      BY <1>15, <2>1 DEF patch_config
  <1> QED
    BY <1>1, <1>2, <1>3, <1>4, <1>5, <1>6, <1>7, <1>8, <1>9, <1>10, <1>11, <1>12, <1>13,
       <1>14, <1>15
    DEF Next, CommitteeStep, vars

\* The quorum of a committee is more than half of it.
LEMMA QuorumIsMajority ==
  ASSUME NEW size \in Nat, NEW n \in Nat, n >= QuorumRequired(size)
  PROVE  n * 2 > size
  BY DEF QuorumRequired

\* Votes, tallies and verdicts: what passes, or has passed, has its majority.
LEMMA MajorityStep ==
  ASSUME CommitteeInv, CommitteeTypeOK', [Next]_vars
  PROVE  TalliesHonest' /\ EffectNeedsMajority'
  <1> DEFINE Goal == TalliesHonest /\ EffectNeedsMajority
  <1> USE CommitteeAssumption, ConfigAssumption DEF CommitteeInv, CommitteeTypeOK
  <1>a. ASSUME UNCHANGED <<votes, tallied>>, removed \subseteq removed'
        PROVE  \A p \in Proposals : For(p)' = For(p) /\ (Majority(p) => Majority(p)')
    BY <1>a, MajorityKept DEF For
  <1>b. ASSUME UNCHANGED <<votes, tallied, removed, closer, status, runs>>  PROVE Goal'
    <2> HIDE DEF CommitteeTypeOK
    <2>1. TalliesHonest'
      BY <1>a, <1>b DEF TalliesHonest
    <2>2. EffectNeedsMajority'
      BY <1>a, <1>b DEF EffectNeedsMajority, Majority
    <2> QED  BY <2>1, <2>2
  <1>1. ASSUME NEW m \in Members, Enrol(m)  PROVE Goal'
    BY <1>1, <1>b DEF Enrol
  <1>2. ASSUME NEW m \in Members, NEW p \in Proposals, SubmitProposal(m, p)  PROVE Goal'
    BY <1>2, <1>a DEF SubmitProposal, TalliesHonest, EffectNeedsMajority, Majority
  <1>3. ASSUME NEW m \in Members, NEW p \in Proposals, CheckVote(m, p)  PROVE Goal'
    BY <1>3, <1>b DEF CheckVote
  <1>4. ASSUME NEW m \in Members, NEW d \in {"for", "other"}, InsertVote(m, d)  PROVE Goal'
    <2>0. \A p \in Proposals : For(p) \subseteq For(p)' /\ For(p)' \subseteq Members
      BY <1>4 DEF For, InsertVote
    <2>1. \A p \in Proposals : /\ Cardinality(For(p)) \in Nat /\ Cardinality(For(p)') \in Nat
                               /\ Cardinality(For(p)) <= Cardinality(For(p)')
      BY <2>0, FS_Subset, FS_CardinalityType
    <2>2. UNCHANGED <<tallied, removed, closer, status, runs>>
      BY <1>4 DEF InsertVote
    <2>3. \A p \in Proposals : Majority(p) => Majority(p)'
      BY <2>0, <2>2, MajorityKept
    <2>4. \A c \in Closers : closer[c].fors \in Nat
      BY DEF CloserStates
    <2>5. TalliesHonest'
      BY <2>1, <2>2, <2>3, <2>4 DEF TalliesHonest
    <2>6. EffectNeedsMajority'
      BY <2>2, <2>3 DEF EffectNeedsMajority, Majority
    <2> QED  BY <2>5, <2>6
  <1>5. ASSUME NEW p \in Proposals, VotingEnds(p)  PROVE Goal'
    BY <1>5, <1>b DEF VotingEnds
  <1>6. ASSUME NEW p \in Proposals,
               ExecuteConfig(p) \/ ExecuteCommittee(p) \/ ExecuteRefused(p) \/ ExecuteDies(p)
        PROVE  Goal'
    <2>1. UNCHANGED <<votes, tallied, closer>> /\ status[p] = "passed"
          /\ removed \subseteq removed'
      BY <1>6 DEF ExecuteConfig, ExecuteCommittee, ExecuteRefused, ExecuteDies, Finish, Executable
    <2>2. /\ \A q \in Proposals : q # p => status'[q] = status[q] /\ runs'[q] = runs[q]
      BY <1>6 DEF ExecuteConfig, ExecuteCommittee, ExecuteRefused, ExecuteDies, Finish
    <2> HIDE DEF CommitteeTypeOK
    <2> QED
      BY <1>a, <2>1, <2>2 DEF TalliesHonest, EffectNeedsMajority, Majority
  <1>7. ASSUME NEW c \in Closers, NEW p \in Proposals, CloseBegin(c, p)  PROVE Goal'
    BY <1>7, <1>a DEF CloseBegin, Closer, TalliesHonest, EffectNeedsMajority, Majority
  <1>8. ASSUME NEW c \in Closers, CountVotes(c)  PROVE Goal'
    <2>1. closer[c].p \in Proposals /\ Cardinality(For(closer[c].p)) \in Nat
      BY <1>8, ForFinite DEF CountVotes, TalliesHonest
    <2>2. /\ \A d \in Closers : d # c => closer'[d] = closer[d]
          /\ closer'[c].pc = "size" /\ closer'[c].p = closer[c].p
          /\ closer'[c].fors = Cardinality(For(closer[c].p))
          /\ UNCHANGED <<votes, tallied, removed, status, runs>>
      BY <1>8 DEF CountVotes, Closer
    <2> HIDE DEF CommitteeTypeOK
    <2>3. TalliesHonest'
      BY <1>a, <2>1, <2>2 DEF TalliesHonest
    <2>4. EffectNeedsMajority'
      BY <1>a, <2>2 DEF EffectNeedsMajority, Majority
    <2> QED  BY <2>3, <2>4
  <1>9. ASSUME NEW c \in Closers, CountCommittee(c)  PROVE Goal'
    <2> DEFINE q == closer[c].p
               passed == closer[c].fors >= QuorumRequired(Cardinality(Active))
    <2>1. /\ closer[c].pc = "size"
          /\ closer' = [closer EXCEPT ![c] = Closer("write", q, closer[c].fors,
                                           IF passed THEN "passed" ELSE "rejected")]
          /\ tallied' = IF passed THEN [tallied EXCEPT ![q] = Active] ELSE tallied
          /\ UNCHANGED <<votes, status, runs, removed>>
      BY <1>9, Zenon DEF CountCommittee
    <2>2. q \in Proposals /\ closer[c].fors \in Nat /\ closer[c].fors <= Cardinality(For(q))
          /\ Cardinality(For(q)) \in Nat
      BY <2>1, ForFinite DEF TalliesHonest, CloserStates
    <2>4. passed /\ For(q) \cap removed = {}
          => Cardinality(For(q) \cap Active) * 2 > Cardinality(Active)
      <3>1. For(q) \subseteq Active \cup removed
        BY <2>2 DEF For, Active, VotersSeated, Seated
      <3>2. For(q) \cap removed = {} => For(q) \cap Active = For(q)
        BY <3>1
      <3>3. passed => Cardinality(For(q)) * 2 > Cardinality(Active)
        <4>1. QuorumRequired(Cardinality(Active)) \in Nat /\ Cardinality(Active) \in Nat
          BY ActiveFinite DEF QuorumRequired
        <4> QED
          BY <2>2, <4>1, QuorumIsMajority
      <3> QED  BY <3>2, <3>3
    <2>5. \A p \in Proposals : For(p)' = For(p)
      BY <2>1 DEF For
    <2> HIDE DEF passed, q
    <2>6. \A p \in Proposals : /\ p # q \/ ~passed => (Majority(p)' <=> Majority(p))
                               /\ p = q /\ passed => Majority(p)'
      BY <2>1, <2>2, <2>4, <2>5 DEF Majority
    <2>7. /\ \A d \in Closers : d # c => closer'[d] = closer[d]
          /\ closer'[c].pc = "write" /\ closer'[c].p = q
          /\ closer'[c].outcome = "passed" => passed
      BY <2>1 DEF Closer
    <2>8. TalliesHonest'
      <3> HIDE DEF CommitteeTypeOK
      <3> QED
        BY <2>2, <2>5, <2>6, <2>7 DEF TalliesHonest
    <2>9. EffectNeedsMajority'
      BY <2>1, <2>6 DEF EffectNeedsMajority, Majority
    <2> QED  BY <2>8, <2>9
  <1>10. ASSUME NEW c \in Closers, CloseWrite(c)  PROVE Goal'
    BY <1>10, <1>a DEF CloseWrite, NotClosing, Closer, CloserStates, TalliesHonest,
                       EffectNeedsMajority, Majority
  <1>11. CASE UNCHANGED committeeVars
    BY <1>11, <1>b DEF committeeVars
  <1>12. CASE patch_config
    BY <1>12, <1>b DEF patch_config
  <1> QED
    BY <1>1, <1>2, <1>3, <1>4, <1>5, <1>6, <1>7, <1>8, <1>9, <1>10, <1>11, <1>12
    DEF Next, CommitteeStep, vars

\* One caller at a time closes and one execution carries out.
LEMMA AloneStep ==
  ASSUME CommitteeInv, CommitteeTypeOK', [Next]_vars
  PROVE  ClosedAlone'
  <1> USE CommitteeAssumption, ConfigAssumption DEF CommitteeInv, CommitteeTypeOK
  <1>a. ASSUME UNCHANGED <<raced, closer, status, runs>>  PROVE ClosedAlone'
    BY <1>a DEF ClosedAlone
  <1>1. ASSUME NEW m \in Members, Enrol(m)  PROVE ClosedAlone'
    BY <1>1, <1>a DEF Enrol
  <1>2. ASSUME NEW m \in Members, NEW p \in Proposals, SubmitProposal(m, p)  PROVE ClosedAlone'
    BY <1>2 DEF SubmitProposal, ClosedAlone
  <1>3. ASSUME NEW m \in Members, NEW p \in Proposals, CheckVote(m, p)  PROVE ClosedAlone'
    BY <1>3, <1>a DEF CheckVote
  <1>4. ASSUME NEW m \in Members, NEW d \in {"for", "other"}, InsertVote(m, d)  PROVE ClosedAlone'
    BY <1>4, <1>a DEF InsertVote
  <1>5. ASSUME NEW p \in Proposals, VotingEnds(p)  PROVE ClosedAlone'
    BY <1>5, <1>a DEF VotingEnds
  <1>6. ASSUME NEW p \in Proposals, NEW outcome \in {"executed", "failed"},
               Executable(p), Finish(p, outcome)
        PROVE  ClosedAlone'
    BY <1>6 DEF Executable, Finish, ClosedAlone
  <1>7. ASSUME NEW p \in Proposals, ExecuteDies(p)  PROVE ClosedAlone'
    BY <1>7 DEF ExecuteDies, Executable, ClosedAlone
  <1>8. ASSUME NEW c \in Closers, NEW p \in Proposals, CloseBegin(c, p)  PROVE ClosedAlone'
    <2>1. ~raced'[p] => ~raced[p] /\ \A d \in Closers : closer[d].p # p
      BY <1>8, Zenon DEF CloseBegin
    <2>2. \A q \in Proposals : q # p => raced'[q] = raced[q]
      BY <1>8 DEF CloseBegin
    <2>3. /\ closer'[c].p = p /\ \A d \in Closers : d # c => closer'[d] = closer[d]
          /\ UNCHANGED <<status, runs>> /\ status[p] = "active"
      BY <1>8 DEF CloseBegin, Closer
    <2> HIDE DEF CommitteeTypeOK
    <2> QED
      BY <2>1, <2>2, <2>3 DEF ClosedAlone
  <1>9. ASSUME NEW c \in Closers, CountVotes(c)  PROVE ClosedAlone'
    <2>1. /\ \A d \in Closers : closer'[d].p = closer[d].p
          /\ UNCHANGED <<raced, status, runs>>
      BY <1>9 DEF CountVotes, Closer
    <2> HIDE DEF CommitteeTypeOK
    <2> QED
      BY <2>1 DEF ClosedAlone
  <1>10. ASSUME NEW c \in Closers, CountCommittee(c)  PROVE ClosedAlone'
    <2>1. /\ \A d \in Closers : closer'[d].p = closer[d].p
          /\ UNCHANGED <<raced, status, runs>>
      BY <1>10 DEF CountCommittee, Closer
    <2> HIDE DEF CommitteeTypeOK
    <2> QED
      BY <2>1 DEF ClosedAlone
  <1>11. ASSUME NEW c \in Closers, CloseWrite(c)  PROVE ClosedAlone'
    <2>1. closer[c].p \in Proposals /\ closer[c].outcome \in {"passed", "rejected"}
      BY <1>11 DEF CloseWrite, TalliesHonest, CloserStates
    <2>2. /\ closer'[c].p = NULL /\ \A d \in Closers : d # c => closer'[d] = closer[d]
          /\ UNCHANGED <<raced, runs>>
          /\ status' = [status EXCEPT ![closer[c].p] = closer[c].outcome]
      BY <1>11 DEF CloseWrite, NotClosing, Closer
    <2>3. /\ status'[closer[c].p] = closer[c].outcome
          /\ \A q \in Proposals : q # closer[c].p => status'[q] = status[q]
      BY <2>1, <2>2
    <2>4. runs \in [Proposals -> Nat] /\ NULL \notin Proposals
      OBVIOUS
    <2> HIDE DEF CommitteeTypeOK
    <2> QED
      BY <2>1, <2>2, <2>3, <2>4 DEF ClosedAlone
  <1>12. CASE UNCHANGED committeeVars
    BY <1>12, <1>a DEF committeeVars
  <1>13. ASSUME NEW p \in Proposals,
                ExecuteConfig(p) \/ ExecuteCommittee(p) \/ ExecuteRefused(p)
         PROVE  ClosedAlone'
    BY <1>6, <1>13 DEF ExecuteConfig, ExecuteCommittee, ExecuteRefused
  <1>14. CASE patch_config
    BY <1>14, <1>a DEF patch_config
  <1> QED
    BY <1>1, <1>2, <1>3, <1>4, <1>5, <1>7, <1>8, <1>9, <1>10, <1>11, <1>12, <1>13, <1>14
    DEF Next, CommitteeStep, vars

\* The table and .env change together, except in a PATCH and in an execution
\* that dies.
LEMMA EnvStep ==
  ASSUME CommitteeInv, [Next]_vars
  PROVE  EnvAgrees'
  <1> USE DEF CommitteeInv, CommitteeTypeOK, EnvAgrees
  <1>1. ASSUME NEW p \in Proposals, ExecuteConfig(p)  PROVE EnvAgrees'
    BY <1>1 DEF ExecuteConfig, Commit
  <1>2. ASSUME NEW p \in Proposals, ExecuteDies(p)  PROVE EnvAgrees'
    BY <1>2 DEF ExecuteDies
  <1>3. ASSUME UNCHANGED <<configVars, env, apart>>  PROVE EnvAgrees'
    BY <1>3 DEF configVars
  <1>4. ASSUME NEW m \in Members, Enrol(m)  PROVE EnvAgrees'
    BY <1>3, <1>4 DEF Enrol
  <1>5. ASSUME NEW m \in Members, NEW p \in Proposals,
               SubmitProposal(m, p) \/ CheckVote(m, p)
        PROVE  EnvAgrees'
    BY <1>3, <1>5 DEF SubmitProposal, CheckVote
  <1>6. ASSUME NEW m \in Members, NEW d \in {"for", "other"}, InsertVote(m, d)
        PROVE  EnvAgrees'
    BY <1>3, <1>6 DEF InsertVote
  <1>7. ASSUME NEW p \in Proposals,
               VotingEnds(p) \/ ExecuteCommittee(p) \/ ExecuteRefused(p)
        PROVE  EnvAgrees'
    BY <1>3, <1>7 DEF VotingEnds, ExecuteCommittee, ExecuteRefused
  <1>8. ASSUME NEW c \in Closers, NEW p \in Proposals, CloseBegin(c, p)  PROVE EnvAgrees'
    BY <1>3, <1>8 DEF CloseBegin
  <1>9. ASSUME NEW c \in Closers, CountVotes(c) \/ CountCommittee(c) \/ CloseWrite(c)
        PROVE  EnvAgrees'
    BY <1>3, <1>9 DEF CountVotes, CountCommittee, CloseWrite
  <1>10. ASSUME Propagate, UNCHANGED committeeVars  PROVE EnvAgrees'
    <2>1. db' = db
      BY <1>10 DEF Propagate, Invalidate, Bump, CounterLost, TtlElapses, Get, CheckVersion,
                   ServeFromCache, ReadTable, ReadFails, StoreConfig, MarkSeen, configVars
    <2> QED
      BY <1>10, <2>1 DEF committeeVars
  <1>11. ASSUME UNCHANGED vars  PROVE EnvAgrees'
    BY <1>3, <1>11 DEF vars, committeeVars
  <1>12. CASE patch_config
    BY <1>12 DEF patch_config
  <1> QED
    BY <1>1, <1>2, <1>4, <1>5, <1>6, <1>7, <1>8, <1>9, <1>10, <1>11, <1>12
    DEF Next, CommitteeStep

LEMMA CommitteeInvInit ==
  ASSUME Init
  PROVE  CommitteeInv
  <1> USE CommitteeAssumption, ConfigAssumption DEF Init
  <1>1. NotClosing \in CloserStates /\ NotClosing.pc = "out" /\ NotClosing.p = NULL
    BY DEF NotClosing, Closer, CloserStates
  <1>2. CommitteeTypeOK
    BY <1>1 DEF CommitteeTypeOK
  <1>3. TalliesHonest
    BY <1>1 DEF TalliesHonest
  <1>4. EffectNeedsMajority /\ EnvAgrees
    BY DEF EffectNeedsMajority, EnvAgrees, ConfigInit
  <1>5. ClosedAlone
    BY <1>1 DEF ClosedAlone
  <1>6. VotersSeated
    BY DEF VotersSeated
  <1> QED
    BY <1>2, <1>3, <1>4, <1>5, <1>6 DEF CommitteeInv

-----------------------------------------------------------------------------
(* The theorems                                                              *)

\* The inductive invariant of the committee, on top of that of the settings.
THEOREM CommitteeInvariant == Spec => []CommitteeInv
  <1>1. Spec => []ConfigInv
    BY ImplementsConfig, ConfigInvariant, PTL
  <1>2. CommitteeInv /\ ConfigInv' /\ [Next]_vars => CommitteeInv'
    BY CommitteeTypeStep, SeatsStep, MajorityStep, AloneStep, EnvStep DEF CommitteeInv, ConfigInv
  <1> QED
    BY <1>1, <1>2, CommitteeInvInit, PTL DEF Spec

\* close_proposal tallies in separate transactions; whatever happens between
\* them, what passes or is carried out has the votes of more than half of the
\* committee whose size was read, or the vote of a member removed by then.
THEOREM EffectsHaveMajority == Spec => []EffectNeedsMajority
  <1>1. CommitteeInv => EffectNeedsMajority
    BY DEF CommitteeInv
  <1> QED
    BY <1>1, CommitteeInvariant, PTL

\* execute_proposal carries a proposal out once, unless two callers of
\* close_expired overlapped on it.
THEOREM ExecutionsOnce == Spec => []ExecutedOnce
  <1>1. CommitteeInv => ExecutedOnce
    BY DEF CommitteeInv, ClosedAlone, ExecutedOnce
  <1> QED
    BY <1>1, CommitteeInvariant, PTL

\* SettingsReloader and runtime_config hold the same setting from an executed
\* proposal on until a PATCH or an execution that died between file and commit.
THEOREM EnvFollows == Spec => []EnvAgrees
  <1>1. CommitteeInv => EnvAgrees
    BY DEF CommitteeInv
  <1> QED
    BY <1>1, CommitteeInvariant, PTL

\* The settings a committee decides reach a process as those of any writer do.
THEOREM DecisionsServed == Spec => []SeenBringsChange
  BY ImplementsConfig, SeenIsServed, PTL
=============================================================================
