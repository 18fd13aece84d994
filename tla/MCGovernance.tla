---------------------------- MODULE MCGovernance ----------------------------
(***************************************************************************)
(* Instances of Governance for TLC.  Time passes in days and half days of  *)
(* the contract's own delays (24 hours, 48 hours and more), so that every  *)
(* deadline is met exactly, missed and passed.                             *)
(***************************************************************************)
EXTENDS Governance

CONSTANTS code1, code2

Day == 86400

\* The contract's defaults.
ParamDefault ==
  [key \in ParamKeys |->
     CASE key = "risk_thr" -> 75     [] key = "hist_dep" -> 10
       [] key = "cooldown" -> 3600   [] key = "stale_w"  -> 604800
       [] key = "decay_rt" -> <<0, 1>> [] key = "vel_cap" -> <<FALSE, 20>>
       [] key = "upg_dly"  -> 2 * Day]

\* Legal values, and illegal ones: a delay below the minimum, a threshold above
\* the maximum, a ring of no entries.
StagedChanges ==
  {<<"upg_dly", 3 * Day>>, <<"upg_dly", Day>>, <<"risk_thr", 80>>, <<"risk_thr", 101>>,
   <<"hist_dep", 5>>, <<"hist_dep", 0>>, <<"stale_w", 3600>>}

ProposedChanges ==
  {<<"upg_dly", 3 * Day>>, <<"upg_dly", Day>>, <<"hist_dep", 6>>}

DirectSettings == {<<"decay_rt", <<1, 2>>>>, <<"cooldown", 59>>}
Bundles == {<<60, 60>>, <<60, 59>>}

\* Bound: the announcements that stand, the proposals already decided and the
\* settings that have left their defaults are at most three.
FewChanges ==
  Cardinality({key \in StagedKeys : staged[key] # NULL}) + nextId - 1
    + Cardinality({a \in {bundle, upgrade} : a # NULL})
    + Cardinality({key \in ParamKeys : param[key] # Param0[key]}) <= 3
=============================================================================
