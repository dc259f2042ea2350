------------------------------- MODULE Stamps -------------------------------
(* Time stamps kept as ages: an age stops where comparisons with it do.    *)
EXTENDS Integers

(* One more frame since the stamp. *)
Age(a, cap) == IF a < cap THEN a + 1 ELSE cap

(* What a duration lasts at least: a frame. *)
AtLeastOne(n) == IF n = 0 THEN 1 ELSE n
=============================================================================
