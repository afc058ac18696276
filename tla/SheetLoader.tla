----------------------------- MODULE SheetLoader -----------------------------
(***************************************************************************)
(* Loading a sheet and, recursively, the sheets it includes: d_load_file   *)
(* of decision.c, the Include property of dsemantic.c, the include section *)
(* of an object file in dobj.c, d_sheet_add_include_from_path of dsheet.c  *)
(* and the error list of derror.c, which every load of the process shares. *)
(*                                                                         *)
(* The C recursion is the sequence loads.  One step is what happens        *)
(* between two recursive calls.  What a file holds besides its includes is *)
(* reduced to the stage at which it fails, if it fails at all.             *)
(***************************************************************************)
EXTENDS Integers, Sequences, SequencesExt

CONSTANTS
  Names,      \* names of files and directories
  Dot,        \* the path component "."
  Root,       \* the separator at the start of an absolute path
  Disks,      \* what may be on the disk: functions from paths to contents
  MaxSheets,  \* bound: the host stops loading with more sheets than that
  MaxDepth    \* bound: the loads a run of the model nests

Components == Names \union {Dot, Root}

(* Where loading a file goes wrong: in the lexer or parser (also when the  *)
(* file is empty), in semantic analysis, or in d_obj_load before it comes  *)
(* to the includes, which prints and does not push.  An object file that   *)
(* can be read but whose C functions are not found (dobj.c:1001-1020) is   *)
(* an "object" here: the loader does not model functions.                  *)
Kinds == {"source", "badSyntax", "badSemantics", "object", "badObject"}

ASSUME PathAssumption == Dot \notin Names /\ Root \notin Names /\ Dot # Root
ASSUME DisksAssumption ==
  \A d \in Disks : \A file \in DOMAIN d :
    /\ file \in Seq(Components)
    /\ d[file].kind \in Kinds
    /\ d[file].includes \in Seq(Seq(Components) \ {<<>>})
ASSUME BoundsAssumption == MaxSheets \in Nat /\ MaxDepth \in Nat

VARIABLES
  disk,             \* the files, which nobody writes during a run
  sheets,           \* every sheet created, in order
  loads,            \* the loads in progress, the innermost last
  programHasError,  \* derror.c's static of that name
  pushed,           \* errors pushed since the process began ...
  printed,          \* ... of these, the first `printed` have been printed
  freed             \* ... and the first `freed` have left the error list

vars == <<disk, sheets, loads, programHasError, pushed, printed, freed>>

(***************************************************************************)
(* Paths.  The directory of the includer is put in front of the path it    *)
(* names, as text; fopen then skips "." and doubled separators.            *)
(***************************************************************************)
FinalPath(includer, path) == Front(includer) \o path

Resolve(path) ==
  LET plain == SelectSeq(path, LAMBDA c : c # Dot)
      isSep(c) == c = Root
  IN  IF plain # <<>> /\ Head(plain) = Root
      THEN <<Root>> \o SelectSeq(Tail(plain), LAMBDA c : ~isSep(c))
      ELSE SelectSeq(plain, LAMBDA c : ~isSep(c))

Exists(path)     == Resolve(path) \in DOMAIN disk
KindOf(path)     == disk[Resolve(path)].kind
IncludesOf(path) == disk[Resolve(path)].includes

-----------------------------------------------------------------------------
Ids    == DOMAIN sheets
Fresh  == Len(sheets) + 1
Paths(ids) == {sheets[s].path : s \in ids}

Loading   == {loads[i].sheet : i \in DOMAIN loads}
Finished  == Ids \ Loading
Inner     == loads[Len(loads)]
InnerPath == sheets[Inner.sheet].path

(* The priors of the innermost load: the loads it was started from.        *)
Priors == {loads[i].sheet : i \in 1 .. (Len(loads) - 1)}

(* d_sheet_create *)
NewSheet(path, includes) ==
  [path |-> path, includes |-> includes,
   hasErrors |-> FALSE, isCompiled |-> FALSE, isLinked |-> FALSE]

FailedSheet(path) == [NewSheet(path, <<>>) EXCEPT !.hasErrors = TRUE]

(* A file that fails early never gets to its includes.                     *)
ReachesIncludes(path) == KindOf(path) \in {"source", "badSemantics", "object"}

ToInclude(path) == IF ReachesIncludes(path) THEN IncludesOf(path) ELSE <<>>

(* What is left to include, and the sheets the caller has given.           *)
Load(path, given) == [sheet |-> Fresh, given |-> given, todo |-> ToInclude(path)]

(* An object file without an include section drops what it was given.      *)
Kept(path, given) ==
  IF KindOf(path) = "object" /\ IncludesOf(path) = <<>> THEN <<>> ELSE given

(* d_error_compiler_push, n times *)
PushErrors(n) ==
  /\ pushed' = pushed + n
  /\ programHasError' = (programHasError \/ n > 0)

-----------------------------------------------------------------------------
(* d_load_file, called by the host.                                        *)
HostLoad(path, given) ==
  /\ loads = <<>>
  /\ Len(sheets) <= MaxSheets
  /\ IF Exists(path)
     THEN /\ sheets' = Append(sheets, NewSheet(path, Kept(path, given)))
          /\ loads' = <<Load(path, given)>>
     ELSE /\ sheets' = Append(sheets, FailedSheet(path))
          /\ UNCHANGED loads
  /\ UNCHANGED <<disk, programHasError, pushed, printed, freed>>

IsObject(path) == KindOf(path) \in {"object", "badObject"}

NextPath == FinalPath(InnerPath, Head(Inner.todo))

(* An object file leaves out the includes that the caller has given it.    *)
Given == IsObject(InnerPath) /\ Head(Inner.todo) \in Paths(Range(Inner.given))

(* Mutants: no priors are handed down, and the first of them is left out.  *)
CircularNever == NextPath \in Paths({})

CircularButFirst == NextPath \in Paths({loads[i].sheet : i \in 2 .. (Len(loads) - 1)})

Circular == NextPath \in Paths(Priors)

(* What is left of the innermost load once its next include is done with.  *)
WithoutNext == [loads EXCEPT ![Len(loads)].todo = Tail(@)]

IncludeGiven ==
  /\ loads # <<>> /\ Inner.todo # <<>>
  /\ Given
  /\ loads' = WithoutNext
  /\ UNCHANGED <<disk, sheets, programHasError, pushed, printed, freed>>

(* The include is one of the priors: an error sheet that nobody keeps.     *)
IncludeCircular ==
  /\ loads # <<>> /\ Inner.todo # <<>>
  /\ ~Given /\ Circular
  /\ loads' = WithoutNext
  /\ PushErrors(1)
  /\ UNCHANGED <<disk, sheets, printed, freed>>

(* Mutant: the includer is not told that the include has errors.           *)
IncludeMissingUnnoticed ==
  /\ loads # <<>> /\ Inner.todo # <<>>
  /\ ~Given /\ ~Circular /\ ~Exists(NextPath)
  /\ sheets' = Append([sheets EXCEPT ![Inner.sheet].includes = Append(@, Fresh)],
                      FailedSheet(NextPath))
  /\ loads' = WithoutNext
  /\ UNCHANGED <<disk, programHasError, pushed, printed, freed>>

IncludeMissing ==
  /\ loads # <<>> /\ Inner.todo # <<>>
  /\ ~Given /\ ~Circular /\ ~Exists(NextPath)
  /\ sheets' = Append([sheets EXCEPT ![Inner.sheet].includes = Append(@, Fresh)],
                      FailedSheet(NextPath))
  /\ loads' = WithoutNext
  /\ PushErrors(1)
  /\ UNCHANGED <<disk, printed, freed>>

Include ==
  /\ loads # <<>> /\ Inner.todo # <<>>
  /\ ~Given /\ ~Circular /\ Exists(NextPath)
  /\ Len(loads) < MaxDepth
  /\ sheets' = Append(sheets, NewSheet(NextPath, <<>>))
  /\ loads' = Append(WithoutNext, Load(NextPath, <<>>))
  /\ UNCHANGED <<disk, programHasError, pushed, printed, freed>>

-----------------------------------------------------------------------------
(***************************************************************************)
(* The rest of d_load_string or d_load_object_file, and what the caller    *)
(* does with the sheet.  hasErrors is what d_error_report returns, that is *)
(* programHasError.  Linking a sheet links its includes again.             *)
(***************************************************************************)
OwnErrors(path) == IF KindOf(path) \in {"badSyntax", "badSemantics"} THEN 1 ELSE 0

Completed(sheet, errors) ==
  [sheet EXCEPT !.hasErrors  = errors,
                !.isCompiled = IsObject(sheet.path) \/ ~errors,
                !.isLinked   = ~errors]

Linked(include, errors) ==
  [include EXCEPT !.isLinked = @ \/ (include.isCompiled /\ ~errors)]

(* Mutant: the includer keeps the id the next sheet will have.             *)
AfterLoadNext(s, errors) ==
  [t \in Ids |->
     IF t = s THEN Completed(sheets[s], errors)
     ELSE IF t \in Range(sheets[s].includes) THEN Linked(sheets[t], errors)
     ELSE IF Len(loads) > 1 /\ t = loads[Len(loads) - 1].sheet
     THEN [sheets[t] EXCEPT !.includes = Append(@, Fresh)]
     ELSE sheets[t]]

(* The sheet s is done, and the sheet that included it, if any, keeps it.  *)
AfterLoad(s, errors) ==
  [t \in Ids |->
     IF t = s THEN Completed(sheets[s], errors)
     ELSE IF t \in Range(sheets[s].includes) THEN Linked(sheets[t], errors)
     ELSE IF Len(loads) > 1 /\ t = loads[Len(loads) - 1].sheet
     THEN [sheets[t] EXCEPT !.includes = Append(@, s)]
     ELSE sheets[t]]

(* Mutant: the branch of a syntax error leaves without a report.           *)
FinishUnreported ==
  LET own    == OwnErrors(InnerPath)
      errors == programHasError \/ own > 0
      byIncluder == IF errors /\ Len(loads) > 1 THEN 1 ELSE 0
  IN  /\ loads # <<>> /\ Inner.todo = <<>>
      /\ sheets' = AfterLoad(Inner.sheet, errors)
      /\ loads' = Front(loads)
      /\ PushErrors(own + byIncluder)
      /\ printed' = IF KindOf(InnerPath) = "badSyntax" THEN printed ELSE pushed + own
      /\ freed' = IF IsObject(InnerPath) THEN freed ELSE pushed + own
      /\ UNCHANGED disk

Finish ==
  LET own    == OwnErrors(InnerPath)
      errors == programHasError \/ own > 0
      byIncluder == IF errors /\ Len(loads) > 1 THEN 1 ELSE 0
  IN  /\ loads # <<>> /\ Inner.todo = <<>>
      /\ sheets' = AfterLoad(Inner.sheet, errors)
      /\ loads' = Front(loads)
      /\ PushErrors(own + byIncluder)
      /\ printed' = pushed + own
      /\ freed' = IF IsObject(InnerPath) THEN freed ELSE pushed + own
      /\ UNCHANGED disk

-----------------------------------------------------------------------------
(* The host may ask for any path, and give sheets it has loaded without    *)
(* errors as includes, one of them in a run of the model.                  *)
HostPaths == DOMAIN disk \union {<<name>> : name \in Names}

Usable == {s \in Finished : ~sheets[s].hasErrors}

Givens == {<<>>} \union {<<s>> : s \in Usable}

Init ==
  /\ disk \in Disks
  /\ sheets = <<>> /\ loads = <<>>
  /\ programHasError = FALSE
  /\ pushed = 0 /\ printed = 0 /\ freed = 0

Loader == IncludeGiven \/ IncludeCircular \/ IncludeMissing \/ Include \/ Finish

Next == Loader \/ \E path \in HostPaths, given \in Givens : HostLoad(path, given)

Spec == Init /\ [][Next]_vars

(* The loader is a plain recursion: it goes on until it returns.           *)
FairSpec == Spec /\ WF_vars(Loader)

-----------------------------------------------------------------------------
(* Every variable keeps its type.                                          *)
TypeOK ==
  /\ sheets \in Seq([path : Seq(Components), includes : Seq(Nat),
                     hasErrors : BOOLEAN, isCompiled : BOOLEAN, isLinked : BOOLEAN])
  /\ \A s \in Ids : Range(sheets[s].includes) \subseteq Ids
  /\ loads \in Seq([sheet : Ids, given : Seq(Ids), todo : Seq(Seq(Components))])
  /\ programHasError \in BOOLEAN
  /\ pushed \in Nat /\ printed \in Nat /\ freed \in Nat

(***************************************************************************)
(* A path that is being loaded is not loaded again inside, except directly *)
(* by itself: a sheet is not among its own priors (dsheet.c:270-313).      *)
(***************************************************************************)
PathsDiffer ==
  \A i, j \in DOMAIN loads :
    i + 1 < j => sheets[loads[i].sheet].path # sheets[loads[j].sheet].path

(***************************************************************************)
(* A sheet that was loaded without errors can be run: its file was read to *)
(* the end and found right, it is compiled and linked, it has everything   *)
(* its file includes, and what it includes can be run as well.  Object     *)
(* files that cannot be read are excepted, as sheets and as includes: they *)
(* do pass for loaded (decision.c:544, see SheetLoaderClaims)              *)
(* (decision.c:306-342, dsemantic.c:306).                                  *)
(***************************************************************************)
Ready(s) == ~sheets[s].hasErrors /\ sheets[s].isCompiled /\ sheets[s].isLinked

IsRead(s) == Exists(sheets[s].path) /\ KindOf(sheets[s].path) \in {"source", "object"}

Damaged(s) == Exists(sheets[s].path) /\ KindOf(sheets[s].path) = "badObject"

Runnable(s) == Ready(s) /\ IsRead(s)

HasInclude(s, p) ==
  \E t \in Range(sheets[s].includes) :
    sheets[t].path \in {p, FinalPath(sheets[s].path, p)}

SoundIncludes ==
  \A s \in Finished : ~sheets[s].hasErrors /\ ~Damaged(s) =>
    /\ Runnable(s)
    /\ \A t \in Range(sheets[s].includes) : Damaged(t) \/ Runnable(t)
    /\ \A p \in Range(IncludesOf(sheets[s].path)) : HasInclude(s, p)

(***************************************************************************)
(* No error is lost: an inner load prints the errors of the outer ones     *)
(* before it frees the list they share, and whatever is left is printed    *)
(* before the outermost load returns (decision.c:323-367).                 *)
(***************************************************************************)
NoErrorLost == freed <= printed /\ (loads = <<>> => printed = pushed)

(***************************************************************************)
(* Every load returns, in whatever circles the files include each other,   *)
(* as long as they name each other plainly: "./" and a doubled separator   *)
(* make new text of a path that is being loaded, which dsheet.c:274        *)
(* compares as text (see SheetLoaderClaims).                               *)
(***************************************************************************)
PlainPaths == \A file \in DOMAIN disk : \A p \in Range(disk[file].includes) : Range(p) \subseteq Names

EveryLoadReturns == PlainPaths => []<>(loads = <<>>)
=============================================================================
