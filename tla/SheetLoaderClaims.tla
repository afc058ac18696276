-------------------------- MODULE SheetLoaderClaims --------------------------
(***************************************************************************)
(* Statements of the documentation and of comments that the loading of     *)
(* files does not keep, each on disks of one or two files.                 *)
(***************************************************************************)
EXTENDS MCSheetLoader

OnDisk(name, kind, includes) == File(name) :> [kind |-> kind, includes |-> includes]

(* main includes a, which may be any kind of file.                         *)
DisksOfFailures ==
  {OnDisk(main, "source", <<File(a)>>) @@ OnDisk(a, kind, <<>>) : kind \in Kinds}

(* running_decision_from_c.rst:71-73: sheet->hasErrors says whether a      *)
(* sheet has failed to compile.  d_obj_load sets it when an object file    *)
(* cannot be read; d_load_object_file then overwrites it with what the     *)
(* error list says, where nothing was pushed (decision.c:544).             *)
FailedIsMarked == \A s \in Finished : ~sheets[s].hasErrors => IsRead(s)

-----------------------------------------------------------------------------
(* main includes itself, by its name or as "./main".                       *)
DisksOfCircles ==
  {OnDisk(main, "source", <<p>>) : p \in {File(main), <<Dot, main>>}}

(* dsheet.c:222-224: the priors are there to prevent circular includes: no *)
(* file is loaded inside a load of the same file, except directly.         *)
FilesDiffer ==
  \A i, j \in DOMAIN loads :
    i + 1 < j => Resolve(sheets[loads[i].sheet].path) # Resolve(sheets[loads[j].sheet].path)
=============================================================================
