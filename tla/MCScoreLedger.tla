--------------------------- MODULE MCScoreLedger ---------------------------
(***************************************************************************)
(* Instances of ScoreLedger for TLC.  Times, thresholds and limits are the *)
(* contract's own defaults (cooldown 3600 s, threshold 75, floor policy    *)
(* 80/20), so a clock step of 1800 or 3600 seconds falls short of, or      *)
(* meets, a cooldown.                                                      *)
(***************************************************************************)
EXTENDS ScoreLedger, TLC

CONSTANTS w1, w2, p1, p2

\* The two wallets of an instance are interchangeable.
WalletSymmetry == Permutations(Wallets)

\* The contract's defaults after initialize.
CfgDefault ==
  [cooldown |-> 3600, pairCooldown |-> [p \in Pairs |-> NULL], capacity |-> 1,
   velocityOn |-> FALSE, pointsPerHour |-> 20,
   floorOn |-> FALSE, highWater |-> 80, floor |-> 20,
   threshold |-> 75, adaptiveOn |-> FALSE, computed |-> 0,
   adaptiveMin |-> 0, adaptiveMax |-> 100,
   margin |-> 0, depth |-> 10, buffer |-> 0]

\* Floor policy and hysteresis enabled, a ring short enough to overflow.
CfgPolicies == [CfgDefault EXCEPT !.floorOn = TRUE, !.margin = 10, !.depth = 3]
CfgBuffered == [CfgDefault EXCEPT !.buffer = 5400]
\* A cooldown that a clock step of 3600 seconds exceeds by a half.
CfgShort    == [CfgDefault EXCEPT !.cooldown = 2400]
CfgBurst    == [CfgDefault EXCEPT !.capacity = 3, !.velocityOn = TRUE]

NoArgs ==
  [cooldown |-> {}, capacity |-> {}, velocity |-> {}, floor |-> {},
   threshold |-> {}, adaptive |-> {}, margin |-> {}, depth |-> {}, buffer |-> {},
   boost |-> {}]

\* Boosts: one that takes a score of 10 to the hysteresis band and 50 over the
\* threshold, and one that takes every score to 100.
DirectArgs == [NoArgs EXCEPT !.boost = {60}]
FullBoost  == [NoArgs EXCEPT !.boost = {100}]

\* Legal and illegal values for the setters.
AdminArgs ==
  [NoArgs EXCEPT !.cooldown = {59, 7200}, !.capacity = {2}, !.velocity = {<<TRUE, 10>>},
                 !.buffer = {0, 3600, 86401},
                 !.floor = {<<TRUE, 80, 20>>, <<TRUE, 80, 80>>},
                 !.threshold = {5, 101}, !.adaptive = {<<50, 60>>, <<60, 50>>},
                 !.margin = {10, 80}, !.depth = {1, 51}]

\* Bound: of the settings and switches below, the administrator has at most one
\* away from its initial value at a time, and gives a velocity pass only while
\* the cap is on.
Limits == {"cooldown", "pairCooldown", "capacity", "velocityOn", "floorOn",
           "threshold", "adaptiveOn", "margin", "depth", "buffer"}
OneChange ==
  /\ Cardinality({f \in Limits : cfg[f] # Cfg0[f]}) + Cardinality(gates.pairsPaused)
       + Cardinality({g \in {"paused", "frozen"} : gates[g]})
       + (IF gates.epochOpen THEN 0 ELSE 1) <= 1
  /\ \A k \in Keys : velocityPass[k] => cfg.velocityOn

\* Bound: the second wallet takes no write and is no target of a boost; it is the
\* counterparty from which the first one is boosted.
OneScored == \A k \in Keys : k[1] = w2 => score[k] = NULL /\ dispute[k] = NULL

\* Bound: the clock takes a few steps of a cooldown or less, or one that outlasts
\* a dispute opened at the start.
FewHours == now <= 10800 \/ now > StartTime + DISPUTE_CHALLENGE_PERIOD_SECS

\* Bound: only one wallet of the two is ever boosted, disputed or corrected.
OneException == Cardinality(OpenDisputes \cup uncapped) <= 1

\* Bound: of a counterparty link, an open dispute and an erased score, the
\* instance has two at a time.
FewCases ==
  Cardinality({k \in Keys : links[k] # {}}) \div 2 + Cardinality(OpenDisputes) + erasures <= 2

\* Bound: at most one dispute, open or corrected, at a time.
OneDispute ==
  Cardinality(OpenDisputes) + Cardinality({k \in Keys : corrections[k] > 0}) <= 1
=============================================================================
