------------------------------ MODULE Eagerly ------------------------------
(***************************************************************************)
(* A program of the source as an operator: one statement after the other.  *)
(***************************************************************************)
EXTENDS Integers, Sequences, SequencesExt

(* What Op makes of v, with v worked out once, before it.                  *)
After(v, Op(_)) == CHOOSE r \in {Op(x) : x \in {v}} : TRUE

(* ... and of each element of s in turn, from v on.                        *)
AfterAll(v, s, Op(_, _)) ==
  LET after[n \in 0..Len(s)] == IF n = 0 THEN v ELSE Op(after[n - 1], s[n])
  IN  after[Len(s)]
=============================================================================
