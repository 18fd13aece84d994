------------------------------ MODULE Timelock ------------------------------
(***************************************************************************)
(* What time-locked governance promises about one setting, whichever entry *)
(* points may change it: a new value takes effect only if that very value  *)
(* has stood announced for at least MinNotice.  Offers may be withdrawn at *)
(* any time (veto, expiry), never altered.                                 *)
(***************************************************************************)
EXTENDS Integers

CONSTANT MinNotice

VARIABLES now, value,
          offers   \* announced values, each with the time it was announced

lockVars == <<now, value, offers>>

Init == offers = {}

\* An announcement may also drop offers that have lapsed.
Announce ==
  /\ \E kept \in SUBSET offers, v \in {o.value : o \in offers'} :
       offers' = kept \cup {[value |-> v, since |-> now]}
  /\ UNCHANGED <<now, value>>

Withdraw == offers' \subseteq offers /\ UNCHANGED <<now, value>>

Apply ==
  /\ \E o \in offers : now >= o.since + MinNotice /\ value' = o.value
  /\ offers' \subseteq offers
  /\ UNCHANGED now

Tick == now' > now /\ UNCHANGED <<value, offers>>

Next == Announce \/ Withdraw \/ Apply \/ Tick

Spec == Init /\ [][Next]_lockVars
=============================================================================
