---------------------------- MODULE MCStressHarness ----------------------------
(***************************************************************************)
(* A generator that runs for two seconds, or until it is stopped, with     *)
(* files of one second.  A side's first number is the least or the         *)
(* greatest that randrange(1 << 31) draws: 0 or 31 where the sequence      *)
(* space has 64 numbers instead of 2^32.                                   *)
(***************************************************************************)
EXTENDS StressHarness

MCDraws == {<<31, 0, 5, 1>>, <<0, 31, 1, 5>>}
================================================================================
