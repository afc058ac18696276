---------------------------- MODULE MCSheetLoader ----------------------------
(***************************************************************************)
(* Every disk of three files in one directory, each of a few kinds and     *)
(* with every list of one or two includes (two only in main): cycles of    *)
(* every length, diamonds, missing files, failures in every place.  On     *)
(* some, b includes main by a path with "./" in it.                        *)
(***************************************************************************)
EXTENDS SheetLoader

CONSTANTS main, a, b, gone

File(name) == <<name>>

Lists(n) == UNION {[1..k -> {File(main), File(a), File(b), File(gone)}] : k \in 0..n}

Contents(kinds, n) == [kind : kinds, includes : Lists(n)]

DisksOfRun ==
  {(File(main) :> m) @@ (File(a) :> x) @@ (File(b) :> y) :
     m \in Contents({"source"}, 2),
     x \in Contents(Kinds, 1),
     y \in Contents({"source", "object"}, 1)
            \union [kind : {"source", "object"}, includes : {<< <<Dot, main>> >>}]}
=============================================================================
