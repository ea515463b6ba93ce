------------------------------- MODULE Limiter -------------------------------
(***************************************************************************)
(* The sliding-window rate limiter of src/security/rate-limiter.ts, as     *)
(* operators on the entry it keeps for one key.  L holds the configuration *)
(* of a limiter: attempts in a window, the duration of a lockout, its      *)
(* growth and its largest value, and how long until growth is forgotten.   *)
(*                                                                         *)
(* A deleted entry is the entry a first check would create.                *)
(***************************************************************************)
EXTENDS Integers, FiniteSetsExt, Filter

LimitConfig == [window : Nat, attempts : Nat, lockout : Nat, multiplier : Nat,
                maxLockout : Nat, reset : Nat]

\* The entry of a key the limiter does not know.
Fresh == [times |-> <<>>, until |-> 0, lockouts |-> 0, last |-> 0]

\* The attempts of the window that ends now.
Recent(L, e, now) == Kept(e.times, {t \in Nat : t > now - L.window})

\* The multiplier to the power of n.
Growth(L, n) ==
  LET power[i \in 0..n] == IF i = 0 THEN 1 ELSE L.multiplier * power[i - 1] IN power[n]

\* computeLockoutMs.
LockoutTime(L, n) ==
  IF L.multiplier <= 1 THEN L.lockout
  ELSE Min({L.lockout * Growth(L, Max({0, n - 1})), L.maxLockout})

\* The growth of the lockouts is forgotten some time after the last one began.
Forgiven(L, e, now) ==
  IF e.lockouts > 0 /\ e.last > 0 /\ now - e.last > L.reset /\ now >= e.until
  THEN [e EXCEPT !.lockouts = 0] ELSE e

\* Whether check returns true.
Allowed(L, e, now) == now >= e.until /\ Len(Recent(L, e, now)) < L.attempts

\* The entry check leaves: an attempt more, a lockout, or as it was in one.
Checked(L, e, now) ==
  LET f == [Forgiven(L, e, now) EXCEPT !.times = Recent(L, e, now)]
  IN IF now < e.until THEN Forgiven(L, e, now)
     ELSE IF Allowed(L, e, now) THEN [f EXCEPT !.times = Append(@, now)]
     ELSE [f EXCEPT !.lockouts = @ + 1, !.last = now,
                    !.until = now + LockoutTime(L, f.lockouts + 1)]

Remaining(L, e, now) ==
  IF now < e.until THEN 0 ELSE Max({0, L.attempts - Len(Recent(L, e, now))})

\* Mutant: an entry with an empty window is deleted whatever else it holds.
CleanedByWindow(L, e, now) ==
  IF now < e.until THEN e
  ELSE IF Recent(L, e, now) = <<>> THEN Fresh
  ELSE [e EXCEPT !.times = Recent(L, e, now)]

\* The entry cleanup leaves.
Cleaned(L, e, now) ==
  LET growing == e.lockouts > 0 /\ now - e.last < L.reset
  IN IF now < e.until THEN e
     ELSE IF Recent(L, e, now) = <<>> /\ ~growing THEN Fresh
     ELSE [e EXCEPT !.times = Recent(L, e, now)]
=============================================================================
