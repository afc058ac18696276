---------------------------- MODULE LinkerClaims ----------------------------
(***************************************************************************)
(* What the documentation says of linking.                                 *)
(***************************************************************************)
EXTENDS MCLinker

(* Whatever process an object file is loaded in, linking changes its       *)
(* instructions to where things are there: every operand is an address in  *)
(* a sheet of the process (docs/developer/source/linking/index.rst:35-38). *)
InstructionsRelocated ==
  \A id \in Ready : \A k \in Range(live[id].insLinks) :
    live[id].text[k.ins].imm.sheet \in DOMAIN live
=============================================================================
