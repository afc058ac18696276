----------------------------- MODULE MCOptimizer -----------------------------
(***************************************************************************)
(* Every body of four instructions between the RET that the code generator *)
(* puts in front of a function and the one at its end.  The function f     *)
(* begins after the first RET, Start after the last RET of the body.       *)
(***************************************************************************)
EXTENDS Optimizer

CONSTANTS f, v

CONSTANT BodyLen

Of(op, width, arg) == [op |-> op, width |-> width, arg |-> arg]

Plain ==
  {Of("NOT", 0, 0), Of("PUSH", FSize, 1), Of("POP", 0, 0), Of("POPN", FSize, 2),
   Of("PUSHN", FSize, 0), Of("OTHER", 0, 0), Of("RET", 0, 0), Of("RETN", BSize, 0)}

(* Of these the immediate is set below: a link, or a jump to the k-th      *)
(* instruction.                                                            *)
Linked == {Of("PUSH", FSize, -1), Of("CALLI", FSize, -1)}
Jumps  == {Of("JRCON", FSize, k) : k \in 2..(BodyLen + 2)}

Bodies == [1..BodyLen -> Plain \union Linked \union Jumps]

WithJumps(t) ==
  LET a == Addresses(t)
  IN  [k \in DOMAIN t |-> IF t[k].op \in Relative
                          THEN [t[k] EXCEPT !.arg = a[@] - a[k]] ELSE t[k]]

LinksOf(t) ==
  {[ins |-> Addresses(t)[k], to |-> IF t[k].op = "CALLI" THEN f ELSE v] :
     k \in {k \in DOMAIN t : t[k] \in Linked}}

Program(body) ==
  LET t    == <<Of("RET", 0, 0)>> \o body \o <<Of("RET", 0, 0)>>
      last == CHOOSE k \in 1..(BodyLen + 1) :
                t[k].op = "RET" /\ \A j \in (k + 1)..(BodyLen + 1) : t[j].op # "RET"
  IN  [text |-> WithJumps(t), links |-> LinksOf(t), ptr |-> [g \in {f} |-> 1],
       main |-> Addresses(t)[last + 1]]

(* A jump to the POPN before which a PUSH is cut out, with enough on the   *)
(* stack for the difference to show.                                       *)
JumpToPop ==
  LET t == <<Of("RET", 0, 0), Of("PUSH", FSize, 1), Of("PUSH", FSize, 2), Of("PUSH", FSize, 0),
             Of("JRCON", FSize, 7), Of("PUSH", FSize, 3), Of("POPN", FSize, 2),
             Of("RETN", BSize, 1), Of("RET", 0, 0)>>
  IN  [text |-> WithJumps(t), links |-> {}, ptr |-> [g \in {f} |-> 1],
       main |-> Addresses(t)[9]]

ProgramsOfRun == {Program(body) : body \in Bodies} \union {JumpToPop}
=============================================================================
