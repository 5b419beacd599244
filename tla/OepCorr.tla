------------------------------- MODULE OepCorr -------------------------------
(***************************************************************************)
(* The correlation numbers of a request (u16, never 0) and the cyclic      *)
(* comparison the probe makes of them.                                     *)
(*                                                                         *)
(* The code counts 1 .. 0xFFFF and compares modulo 0x10000 with a half     *)
(* range of 0x8000; here the space is a parameter, so that TLC walks       *)
(* around a small one and the proofs hold for the real one.                *)
(***************************************************************************)
EXTENDS Integers

CONSTANTS
  CorrMax,     \* the largest corr (0xFFFF in the code: LIMITS corr_max)
  HalfRange    \* half the space  (0x8000 in the code: LIMITS corr_half_range)

ASSUME CorrAssumption ==
  /\ HalfRange \in Nat
  /\ HalfRange >= 2
  /\ CorrMax = 2 * HalfRange - 1

Corr == 1..CorrMax

\* The next corr of a host: cyclic, 0 left out.
NextCorr(c) == IF c = CorrMax THEN 1 ELSE c + 1

\* (a - b) % 0x10000, for a and b in 0 .. CorrMax.
Diff(a, b) == IF a >= b THEN a - b ELSE a - b + CorrMax + 1

\* a is newer than b: ahead of it by less than half the space.
Ahead(a, b) == 0 < Diff(a, b) /\ Diff(a, b) < HalfRange

\* b is a itself or at most half the space behind a: still told apart from a new corr.
InWindow(a, b) == Diff(a, b) < HalfRange
=============================================================================
