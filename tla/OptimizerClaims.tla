--------------------------- MODULE OptimizerClaims ---------------------------
(***************************************************************************)
(* What the manual says of the optimiser, where doptimize.c does something *)
(* else.                                                                   *)
(***************************************************************************)
EXTENDS MCOptimizer

(***************************************************************************)
(* What the code generator makes of a function that returns                *)
(*   Not(Ternary(#c, Not(false), false)):                                  *)
(* the jump of the Ternary's false branch leads between the two NOTs, from *)
(* the fifth instruction to the eighth.                                    *)
(***************************************************************************)
NotOfTernary ==
  LET t == <<Of("RET", 0, 0), Of("OTHER", 0, 0), Of("JRCON", FSize, 6),
             Of("PUSH", FSize, 0), Of("JR", FSize, 8), Of("PUSH", FSize, 0),
             Of("NOT", 0, 0), Of("NOT", 0, 0), Of("RETN", BSize, 1),
             Of("RET", 0, 0), Of("RET", 0, 0)>>
  IN  [text |-> WithJumps(t), links |-> {}, ptr |-> [g \in {f} |-> 1],
       main |-> Addresses(t)[11]]

ProgramsOfClaims == {NotOfTernary}

(***************************************************************************)
(* optimisation.rst:47: two NOT instructions cancel each other out, so     *)
(* that the function shows the same without them (doptimize.c:88, 330).    *)
(***************************************************************************)
NotsCancelOut ==
  pass = "done" => \A choices \in Pathways :
    Shown(Optimized, ptr[f], choices) = Shown(original, original.ptr[f], choices)
=============================================================================
