-------------------------- MODULE DebugSessionClaims --------------------------
(***************************************************************************)
(* Statements of ddebug.c and ddebug.h that a debugging session does not   *)
(* keep.                                                                   *)
(***************************************************************************)
EXTENDS MCDebugSession

(* ddebug.c:523-528, ddebug.h:249-254: a call that finds the sheet stack   *)
(* at its limit ends the session instead of being entered, so that no more *)
(* entries are in use than the array has.  The test comes one entry late.  *)
SheetStackFits == Len(sheetStack) <= SheetStackSize

(* ddebug.h:271-273, ddebug.c:542-544: a sheet is on the stack if and only *)
(* if the sheet has changed, and returns are tracked: CallsTracked also    *)
(* after calls of C functions.  These are counted like other calls, but    *)
(* they are over within their instruction and no OP_RET is seen of them.   *)
CCallsTracked ==
  ~ended => IF sheetStack = <<>> THEN halted ELSE \E below \in Cuts : AccountsFor(below)
=============================================================================
