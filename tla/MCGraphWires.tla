---------------------------- MODULE MCGraphWires ----------------------------
(***************************************************************************)
(* Three nodes: one with an execution and a value output, one in between,  *)
(* and one with two value inputs; any of two line identifiers or none at   *)
(* every socket.                                                           *)
(***************************************************************************)
EXTENDS GraphWires, TLC

CONSTANTS Number, Text

Socket(n, s) == [nodeIndex |-> n, socketIndex |-> s]

InputsOfRun  == <<Socket(1, 0), Socket(1, 1), Socket(2, 0), Socket(2, 1)>>
OutputsOfRun == <<Socket(0, 0), Socket(0, 1), Socket(1, 2), Socket(2, 2)>>

TypesOfRun ==
  Socket(0, 0) :> {Execution} @@ Socket(0, 1) :> {Number}
  @@ Socket(1, 0) :> {Execution} @@ Socket(1, 1) :> {Number, Text}
  @@ Socket(1, 2) :> {Execution}
  @@ Socket(2, 0) :> {Number} @@ Socket(2, 1) :> {Text} @@ Socket(2, 2) :> {Text}
=============================================================================
