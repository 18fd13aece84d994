----------------------------- MODULE RateLimit -----------------------------
(***************************************************************************)
(* The admission arithmetic of the score contract's rate limiter: the flat *)
(* cooldown, the token bucket that replaces it when the burst capacity is  *)
(* above one, and the score velocity cap.  Constant-level operators over   *)
(* ledger timestamps in seconds, shared by every write path.               *)
(***************************************************************************)
EXTENDS Integers

\* Rust's u64::saturating_sub.
Monus(a, b) == IF a >= b THEN a - b ELSE 0

\* A stored last-submission time of 0 stands for "no record".
CooldownElapsed(last, now, cooldown) == last = 0 \/ now >= last + cooldown

\* Fault: a started period counts as a whole one.
RefillsRoundedUp(bucket, now, cooldown) ==
  IF cooldown = 0 THEN 0
  ELSE (Monus(now, bucket.lastRefill) + cooldown - 1) \div cooldown

\* Whole cooldown periods since the bucket was last refilled; checked_div
\* turns a zero cooldown into no refill.
Refills(bucket, now, cooldown) ==
  IF cooldown = 0 THEN 0 ELSE Monus(now, bucket.lastRefill) \div cooldown

Refilled(bucket, capacity, now, cooldown) ==
  LET t == bucket.tokens + Refills(bucket, now, cooldown)
  IN  IF t <= capacity THEN t ELSE capacity

\* Fault: the refill time is not moved on, so a period is credited repeatedly.
TakeTokenKeepsTime(bucket, capacity, now, cooldown) ==
  [tokens     |-> Refilled(bucket, capacity, now, cooldown) - 1,
   lastRefill |-> bucket.lastRefill]

\* The bucket after one submission has been charged to it.
TakeToken(bucket, capacity, now, cooldown) ==
  [tokens     |-> Refilled(bucket, capacity, now, cooldown) - 1,
   lastRefill |-> bucket.lastRefill + Refills(bucket, now, cooldown) * cooldown]

AbsDiff(a, b) == IF a >= b THEN a - b ELSE b - a

\* Points a score may move after `elapsed` seconds: never less than one.
AllowedDelta(pointsPerHour, elapsed) ==
  LET d == (pointsPerHour * elapsed) \div 3600 IN IF d >= 1 THEN d ELSE 1
=============================================================================
