-------------------------- MODULE SheetLoaderProofs --------------------------
(***************************************************************************)
(* Theorems about loading, for every disk, every set of names and any      *)
(* number and depth of loads.                                              *)
(***************************************************************************)
EXTENDS SheetLoader, SequenceTheorems, TLAPS

Path  == Seq(Components)
Sheet == [path : Path, includes : Seq(Nat),
          hasErrors : BOOLEAN, isCompiled : BOOLEAN, isLinked : BOOLEAN]
LoadOf(ids) == [sheet : ids, given : Seq(ids), todo : Seq(Path)]

SheetsTyped == sheets \in Seq(Sheet) /\ \A s \in Ids : Range(sheets[s].includes) \subseteq Ids
LoadsTyped  == loads \in Seq(LoadOf(Ids))

(* Printing never runs ahead of pushing.                                   *)
Counted ==
  /\ pushed \in Nat /\ printed \in Nat /\ freed \in Nat
  /\ freed <= printed /\ printed <= pushed
  /\ loads = <<>> => printed = pushed

IInv ==
  /\ disk \in Disks
  /\ SheetsTyped /\ LoadsTyped /\ programHasError \in BOOLEAN
  /\ PathsDiffer
  /\ Counted

-----------------------------------------------------------------------------
(* The elements of a sequence.                                             *)

LEMMA RangeOfIds ==
  ASSUME NEW ids, NEW s \in Seq(ids)
  PROVE  Range(s) \subseteq ids
<1>1. DOMAIN s = 1..Len(s) /\ \A k \in 1..Len(s) : s[k] \in ids
  BY LenProperties, ElementOfSeq
<1> QED
  BY <1>1 DEF Range

LEMMA RangeAppended ==
  ASSUME NEW S, NEW q \in Seq(S), NEW e \in S
  PROVE  Range(Append(q, e)) = Range(q) \union {e}
<1>1. /\ Append(q, e) \in Seq(S) /\ Len(Append(q, e)) = Len(q) + 1
      /\ \A i \in 1..Len(q) : Append(q, e)[i] = q[i]
      /\ Append(q, e)[Len(q) + 1] = e
  BY AppendProperties
<1>2. Len(q) \in Nat /\ DOMAIN q = 1..Len(q) /\ DOMAIN Append(q, e) = 1..(Len(q) + 1)
  BY <1>1, LenProperties
<1>3. 1..(Len(q) + 1) = 1..Len(q) \union {Len(q) + 1}
  BY <1>2
<1> QED
  BY <1>1, <1>2, <1>3 DEF Range

LEMMA RangeOfTail ==
  ASSUME NEW S, NEW q \in Seq(S), q # <<>>
  PROVE  Range(q) \subseteq {Head(q)} \union Range(Tail(q))
<1>1. /\ Tail(q) \in Seq(S) /\ Len(Tail(q)) = Len(q) - 1 /\ Head(q) = q[1]
      /\ \A i \in 1..Len(Tail(q)) : Tail(q)[i] = q[i + 1]
  BY HeadTailProperties
<1>2. Len(q) \in Nat /\ DOMAIN q = 1..Len(q) /\ DOMAIN Tail(q) = 1..Len(Tail(q))
  BY <1>1, LenProperties
<1>3. ASSUME NEW i \in 1..Len(q), i # 1
      PROVE  q[i] \in Range(Tail(q))
  <2>1. i - 1 \in 1..Len(Tail(q)) /\ (i - 1) + 1 = i
    BY <1>1, <1>2, <1>3
  <2> QED
    BY <1>1, <1>2, <2>1 DEF Range
<1> QED
  BY <1>1, <1>2, <1>3 DEF Range

-----------------------------------------------------------------------------
(* Sheets and loads, as the actions use them.                              *)

LEMMA Numbers ==
  ASSUME IInv
  PROVE  /\ Len(sheets) \in Nat /\ Ids = 1..Len(sheets) /\ Fresh \in Nat /\ Fresh \notin Ids
         /\ \A s \in Ids : sheets[s] \in Sheet
         /\ Len(loads) \in Nat /\ DOMAIN loads = 1..Len(loads)
         /\ \A i \in 1..Len(loads) : loads[i] \in LoadOf(Ids) /\ loads[i].sheet \in Ids
<1>1. Len(sheets) \in Nat /\ DOMAIN sheets = 1..Len(sheets)
  BY LenProperties DEF IInv, SheetsTyped
<1>2. Len(loads) \in Nat /\ DOMAIN loads = 1..Len(loads)
  BY LenProperties DEF IInv, LoadsTyped
<1>3. \A s \in 1..Len(sheets) : sheets[s] \in Sheet
  BY ElementOfSeq DEF IInv, SheetsTyped
<1>4. \A i \in 1..Len(loads) : loads[i] \in LoadOf(Ids)
  BY ElementOfSeq DEF IInv, LoadsTyped
<1>5. \A i \in 1..Len(loads) : loads[i].sheet \in Ids
  BY <1>4 DEF LoadOf
<1> QED
  BY <1>1, <1>2, <1>3, <1>4, <1>5 DEF Ids, Fresh

LEMMA InnerTyped ==
  ASSUME IInv, loads # <<>>
  PROVE  /\ Len(loads) \in Nat \ {0} /\ Len(loads) \in 1..Len(loads)
         /\ Inner \in LoadOf(Ids) /\ Inner.sheet \in Ids /\ Inner.todo \in Seq(Path)
         /\ InnerPath \in Path
<1>1. Len(loads) \in Nat \ {0}
  BY EmptySeq DEF IInv, LoadsTyped
<1>2. Inner \in LoadOf(Ids)
  BY <1>1, Numbers DEF Inner
<1>3. Inner.sheet \in Ids /\ Inner.todo \in Seq(Path)
  BY <1>2 DEF LoadOf
<1>4. InnerPath \in Path
  BY <1>3, Numbers DEF InnerPath, Sheet
<1> QED
  BY <1>1, <1>2, <1>3, <1>4

(* What is on the disk can be read and has a path.                         *)
LEMMA DiskTyped ==
  ASSUME IInv
  PROVE  /\ \A file \in DOMAIN disk : file \in Path
         /\ \A path : Exists(path) => IncludesOf(path) \in Seq(Path)
<1>1. \A file \in DOMAIN disk :
        file \in Path /\ disk[file].includes \in Seq(Path \ {<<>>})
  BY DisksAssumption DEF IInv, Path
<1>2. \A file \in DOMAIN disk : disk[file].includes \in Seq(Path)
  BY <1>1, SeqMonotonic
<1> QED
  BY <1>1, <1>2 DEF Exists, IncludesOf

LEMMA NextPathTyped ==
  ASSUME IInv, loads # <<>>, Inner.todo # <<>>
  PROVE  NextPath \in Path
<1>1. InnerPath \in Path /\ Head(Inner.todo) \in Path
  BY InnerTyped, HeadTailProperties
<1>2. Front(InnerPath) \in Path
  <2>1. Len(InnerPath) \in Nat /\ \A i \in 1..(Len(InnerPath) - 1) : InnerPath[i] \in Components
    BY <1>1, LenProperties, ElementOfSeq DEF Path
  <2> QED
    BY <2>1, SubSeqProperties DEF Front, Path
<1> QED
  BY <1>1, <1>2, ConcatProperties DEF NextPath, FinalPath, Path

LEMMA NewSheetTyped ==
  ASSUME NEW path \in Path, NEW includes \in Seq(Nat)
  PROVE  /\ NewSheet(path, includes) \in Sheet
         /\ NewSheet(path, includes).includes = includes
         /\ NewSheet(path, includes).path = path
BY DEF NewSheet, Sheet

LEMMA FailedSheetTyped ==
  ASSUME NEW path \in Path
  PROVE  FailedSheet(path) \in Sheet /\ FailedSheet(path).includes = <<>>
<1>1. <<>> \in Seq(Nat)
  BY EmptySeq
<1> QED
  BY <1>1 DEF FailedSheet, NewSheet, Sheet

(* One sheet more.                                                         *)
LEMMA SheetsGrow ==
  ASSUME IInv, NEW s \in Sheet, Range(s.includes) \subseteq Ids \union {Fresh},
         sheets' = Append(sheets, s)
  PROVE  /\ SheetsTyped'
         /\ Ids' = Ids \union {Fresh}
         /\ sheets'[Fresh] = s /\ \A t \in Ids : sheets'[t] = sheets[t]
<1>1. /\ sheets' \in Seq(Sheet) /\ Len(sheets') = Len(sheets) + 1
      /\ sheets'[Fresh] = s /\ \A t \in Ids : sheets'[t] = sheets[t]
  BY Numbers, AppendProperties DEF IInv, SheetsTyped, Fresh
<1>2. Ids' = Ids \union {Fresh}
  <2>1. DOMAIN sheets' = 1..Len(sheets')
    BY <1>1, LenProperties
  <2> QED
    BY <1>1, <2>1, Numbers DEF Ids, Fresh
<1>3. \A t \in Ids' : Range(sheets'[t].includes) \subseteq Ids'
  BY <1>1, <1>2 DEF IInv, SheetsTyped
<1> QED
  BY <1>1, <1>2, <1>3 DEF SheetsTyped

(* Loads stay loads when sheets are added.                                 *)
LEMMA LoadsMonotonic ==
  ASSUME NEW ids, NEW more, ids \subseteq more
  PROVE  LoadOf(ids) \subseteq LoadOf(more)
<1>1. \A s \in Seq(ids) : s \in Seq(more)
  BY SeqMonotonic
<1> QED
  BY <1>1 DEF LoadOf

LEMMA WithoutNextTyped ==
  ASSUME IInv, loads # <<>>, Inner.todo # <<>>
  PROVE  /\ WithoutNext \in Seq(LoadOf(Ids))
         /\ Len(WithoutNext) = Len(loads)
         /\ \A i \in 1..Len(loads) : /\ WithoutNext[i].sheet = loads[i].sheet
                                     /\ WithoutNext[i].given = loads[i].given
         /\ \A i \in 1..Len(loads) - 1 : WithoutNext[i] = loads[i]
         /\ WithoutNext[Len(loads)].todo = Tail(Inner.todo)
         /\ WithoutNext # <<>>
<1>1. Tail(Inner.todo) \in Seq(Path)
  BY InnerTyped, HeadTailProperties
<1> DEFINE inner == [Inner EXCEPT !.todo = Tail(@)]
<1>2. /\ inner \in LoadOf(Ids) /\ inner.sheet = Inner.sheet /\ inner.given = Inner.given
      /\ inner.todo = Tail(Inner.todo)
  BY <1>1, InnerTyped DEF LoadOf
<1>3. WithoutNext = [loads EXCEPT ![Len(loads)] = inner]
  BY DEF WithoutNext, Inner
<1> HIDE DEF inner
<1>4. /\ WithoutNext \in Seq(LoadOf(Ids)) /\ Len(WithoutNext) = Len(loads)
      /\ \A i \in 1..Len(loads) :
           WithoutNext[i] = IF i = Len(loads) THEN inner ELSE loads[i]
  BY <1>2, <1>3, InnerTyped, ExceptSeq DEF IInv, LoadsTyped
<1>5. WithoutNext # <<>>
  BY <1>4, InnerTyped, EmptySeq
<1>6. \A i \in 1..Len(loads) - 1 : i \in 1..Len(loads) /\ i # Len(loads)
  BY InnerTyped
<1> QED
  BY <1>2, <1>4, <1>5, <1>6, InnerTyped DEF Inner

(* Loads that go on with what they had, or end, keep their paths apart.    *)
LEMMA PathsKept ==
  ASSUME IInv, LoadsTyped', Len(loads') <= Len(loads),
         \A i \in 1..Len(loads') : loads'[i].sheet = loads[i].sheet,
         \A s \in Ids : sheets'[s].path = sheets[s].path
  PROVE  PathsDiffer'
<1>1. Len(loads') \in Nat /\ DOMAIN loads' = 1..Len(loads')
  BY LenProperties DEF LoadsTyped
<1>2. \A i \in 1..Len(loads') : i \in DOMAIN loads /\ loads[i].sheet \in Ids
  BY <1>1, Numbers
<1>3. \A i, j \in DOMAIN loads' : i + 1 < j =>
        sheets'[loads'[i].sheet].path # sheets'[loads'[j].sheet].path
  <2> TAKE i, j \in DOMAIN loads'
  <2>1. /\ sheets'[loads'[i].sheet].path = sheets[loads[i].sheet].path
        /\ sheets'[loads'[j].sheet].path = sheets[loads[j].sheet].path
        /\ i \in DOMAIN loads /\ j \in DOMAIN loads
    BY <1>1, <1>2
  <2> QED
    BY <2>1 DEF IInv, PathsDiffer
<1> QED
  BY <1>3 DEF PathsDiffer

-----------------------------------------------------------------------------
(* Every action keeps the invariant.                                       *)

LEMMA GivensTyped ==
  ASSUME IInv, NEW given \in Givens
  PROVE  given \in Seq(Ids) /\ given \in Seq(Nat)
<1>1. Usable \subseteq Ids /\ Ids \subseteq Nat
  BY Numbers DEF Usable, Finished
<1>2. \A s \in Usable : <<s>> \in Seq(Ids)
  BY <1>1
<1>3. given \in Seq(Ids)
  BY <1>2, EmptySeq DEF Givens
<1> QED
  BY <1>1, <1>3, SeqMonotonic

LEMMA LoadTyped ==
  ASSUME IInv, NEW path, Exists(path), NEW given \in Seq(Ids)
  PROVE  Load(path, given) \in LoadOf(Ids \union {Fresh}) /\ Load(path, given).sheet = Fresh
<1>1. given \in Seq(Ids \union {Fresh})
  BY SeqMonotonic
<1>2. IncludesOf(path) \in Seq(Path) /\ <<>> \in Seq(Path)
  BY DiskTyped, EmptySeq
<1> QED
  BY <1>1, <1>2 DEF Load, LoadOf, ToInclude

LEMMA HostPathsTyped ==
  ASSUME IInv, NEW path \in HostPaths
  PROVE  path \in Path
<1>1. \A name \in Names : <<name>> \in Path
  BY DEF Path, Components
<1> QED
  BY <1>1, DiskTyped DEF HostPaths

LEMMA HostLoadKeeps ==
  ASSUME IInv, NEW path \in HostPaths, NEW given \in Givens, HostLoad(path, given)
  PROVE  IInv'
<1>1. path \in Path /\ given \in Seq(Ids) /\ given \in Seq(Nat)
  BY HostPathsTyped, GivensTyped
<1>2. CASE Exists(path)
  <2>1. Kept(path, given) \in Seq(Ids) /\ Kept(path, given) \in Seq(Nat)
    BY <1>1, EmptySeq DEF Kept
  <2>2. NewSheet(path, Kept(path, given)) \in Sheet
    BY <1>1, <2>1, NewSheetTyped
  <2>3. Range(NewSheet(path, Kept(path, given)).includes) \subseteq Ids
    BY <1>1, <2>1, NewSheetTyped, RangeOfIds
  <2>4. SheetsTyped' /\ Ids' = Ids \union {Fresh}
    BY <1>2, <2>2, <2>3, SheetsGrow DEF HostLoad
  <2>5. Load(path, given) \in LoadOf(Ids')
    BY <1>1, <1>2, <2>4, LoadTyped
  <2>6. loads' = <<Load(path, given)>>
    BY <1>2 DEF HostLoad
  <2>7. LoadsTyped' /\ PathsDiffer'
    BY <2>5, <2>6 DEF LoadsTyped, PathsDiffer
  <2>8. Counted' /\ disk' \in Disks /\ programHasError' \in BOOLEAN
    BY <2>6 DEF IInv, Counted, HostLoad
  <2> QED
    BY <2>4, <2>7, <2>8 DEF IInv
<1>3. CASE ~Exists(path)
  <2>1. FailedSheet(path) \in Sheet /\ Range(FailedSheet(path).includes) \subseteq Ids
    BY <1>1, FailedSheetTyped, EmptySeq, RangeOfIds
  <2>2. SheetsTyped' /\ Ids' = Ids \union {Fresh}
    BY <1>3, <2>1, SheetsGrow DEF HostLoad
  <2>3. loads' = <<>>
    BY <1>3 DEF HostLoad
  <2>4. LoadsTyped' /\ PathsDiffer'
    BY <2>3, EmptySeq DEF LoadsTyped, PathsDiffer
  <2>5. Counted' /\ disk' \in Disks /\ programHasError' \in BOOLEAN
    BY <2>3 DEF IInv, Counted, HostLoad
  <2> QED
    BY <2>2, <2>4, <2>5 DEF IInv
<1> QED
  BY <1>2, <1>3

(* The includes that only take the next path off the list.                 *)
LEMMA SkippedTyped ==
  ASSUME IInv, loads # <<>>, Inner.todo # <<>>, loads' = WithoutNext, sheets' = sheets
  PROVE  SheetsTyped' /\ LoadsTyped' /\ PathsDiffer' /\ loads' # <<>>
<1>1. Ids' = Ids /\ SheetsTyped'
  BY DEF IInv, SheetsTyped, Ids
<1>2. LoadsTyped' /\ Len(loads') = Len(loads)
      /\ \A i \in 1..Len(loads') : loads'[i].sheet = loads[i].sheet
  BY <1>1, WithoutNextTyped DEF LoadsTyped
<1>3. PathsDiffer'
  BY <1>2, Numbers, PathsKept
<1> QED
  BY <1>1, <1>2, <1>3, WithoutNextTyped

LEMMA IncludeGivenKeeps ==
  ASSUME IInv, IncludeGiven
  PROVE  IInv'
<1>1. SheetsTyped' /\ LoadsTyped' /\ PathsDiffer' /\ loads' # <<>>
  BY SkippedTyped DEF IncludeGiven
<1> QED
  BY <1>1 DEF IInv, Counted, IncludeGiven

LEMMA IncludeCircularKeeps ==
  ASSUME IInv, IncludeCircular
  PROVE  IInv'
<1>1. SheetsTyped' /\ LoadsTyped' /\ PathsDiffer' /\ loads' # <<>>
  BY SkippedTyped DEF IncludeCircular
<1>2. pushed' = pushed + 1 /\ programHasError' \in BOOLEAN
  BY DEF IncludeCircular, PushErrors, IInv
<1> QED
  BY <1>1, <1>2 DEF IInv, Counted, IncludeCircular

(* A sheet that keeps an include that is yet to be added.                  *)
LEMMA KeptInclude ==
  ASSUME IInv, NEW k \in Ids
  PROVE  LET wide == [sheets EXCEPT ![k].includes = Append(@, Fresh)]
         IN  /\ wide \in Seq(Sheet) /\ Len(wide) = Len(sheets)
             /\ \A s \in Ids :
                  /\ wide[s].path = sheets[s].path
                  /\ Range(wide[s].includes) \subseteq Range(sheets[s].includes) \union {Fresh}
                  /\ Range(sheets[s].includes) \subseteq Range(wide[s].includes)
                  /\ s # k => wide[s] = sheets[s]
<1> DEFINE includes == Append(sheets[k].includes, Fresh)
           sheet == [sheets[k] EXCEPT !.includes = Append(@, Fresh)]
           wide == [sheets EXCEPT ![k].includes = Append(@, Fresh)]
<1>1. sheets[k] \in Sheet /\ sheets[k].includes \in Seq(Nat)
  BY Numbers DEF Sheet
<1>2. Ids \subseteq Nat /\ Fresh \in Nat /\ k \in 1..Len(sheets)
  BY Numbers
<1>3. includes \in Seq(Nat) /\ Range(includes) = Range(sheets[k].includes) \union {Fresh}
  BY <1>1, <1>2, AppendProperties, RangeAppended
<1>7. sheet \in Sheet /\ sheet.path = sheets[k].path /\ sheet.includes = includes
  BY <1>1, <1>3 DEF Sheet
<1>8. wide = [sheets EXCEPT ![k] = sheet]
  OBVIOUS
<1> HIDE DEF sheet, includes, wide
<1>9. /\ wide \in Seq(Sheet) /\ Len(wide) = Len(sheets)
      /\ \A s \in 1..Len(sheets) : wide[s] = IF s = k THEN sheet ELSE sheets[s]
  BY <1>2, <1>7, <1>8, ExceptSeq DEF IInv, SheetsTyped
<1>10. ASSUME NEW s \in Ids
       PROVE  /\ wide[s].path = sheets[s].path
              /\ Range(wide[s].includes) \subseteq Range(sheets[s].includes) \union {Fresh}
              /\ Range(sheets[s].includes) \subseteq Range(wide[s].includes)
              /\ s # k => wide[s] = sheets[s]
  <2>1. wide[s] = IF s = k THEN sheet ELSE sheets[s]
    BY <1>9, Numbers
  <2> QED
    BY <1>3, <1>7, <2>1
<1> QED
  BY <1>9, <1>10 DEF wide

(* A sheet that is missing is added, failed, and kept by its includer.     *)
LEMMA MissingAdded ==
  ASSUME IInv, IncludeMissing
  PROVE  /\ sheets' \in Seq(Sheet) /\ Ids' = Ids \union {Fresh}
         /\ sheets'[Fresh].hasErrors /\ Range(sheets'[Fresh].includes) = {}
         /\ \A s \in Ids :
              /\ sheets'[s].path = sheets[s].path
              /\ Range(sheets'[s].includes) \subseteq Range(sheets[s].includes) \union {Fresh}
              /\ Range(sheets[s].includes) \subseteq Range(sheets'[s].includes)
              /\ s # Inner.sheet => sheets'[s] = sheets[s]
<1> DEFINE wide == [sheets EXCEPT ![Inner.sheet].includes = Append(@, Fresh)]
<1>1. loads # <<>> /\ Inner.todo # <<>> /\ sheets' = Append(wide, FailedSheet(NextPath))
  BY DEF IncludeMissing
<1>2. Inner.sheet \in Ids
  BY <1>1, InnerTyped
<1>3. /\ wide \in Seq(Sheet) /\ Len(wide) = Len(sheets)
      /\ \A s \in Ids :
           /\ wide[s].path = sheets[s].path
           /\ Range(wide[s].includes) \subseteq Range(sheets[s].includes) \union {Fresh}
           /\ Range(sheets[s].includes) \subseteq Range(wide[s].includes)
           /\ s # Inner.sheet => wide[s] = sheets[s]
  BY <1>2, KeptInclude
<1> HIDE DEF wide
<1>4. /\ FailedSheet(NextPath) \in Sheet /\ Range(FailedSheet(NextPath).includes) = {}
      /\ FailedSheet(NextPath).hasErrors
  <2>1. FailedSheet(NextPath) \in Sheet /\ FailedSheet(NextPath).includes = <<>>
    BY <1>1, NextPathTyped, FailedSheetTyped
  <2>2. <<>> \in Seq({})
    BY EmptySeq
  <2>3. Range(<<>>) \subseteq {}
    BY <2>2, RangeOfIds
  <2>4. FailedSheet(NextPath).hasErrors
    BY DEF FailedSheet, NewSheet
  <2> QED
    BY <2>1, <2>3, <2>4
<1>5. /\ sheets' \in Seq(Sheet) /\ Len(sheets') = Len(sheets) + 1
      /\ sheets'[Fresh] = FailedSheet(NextPath)
      /\ \A s \in 1..Len(sheets) : sheets'[s] = wide[s]
  BY <1>1, <1>3, <1>4, Numbers, AppendProperties DEF Fresh
<1>6. Ids' = Ids \union {Fresh}
  <2>1. DOMAIN sheets' = 1..Len(sheets')
    BY <1>5, LenProperties
  <2> QED
    BY <1>5, <2>1, Numbers DEF Ids, Fresh
<1> QED
  BY <1>3, <1>4, <1>5, <1>6, Numbers

LEMMA IncludeMissingKeeps ==
  ASSUME IInv, IncludeMissing
  PROVE  IInv'
<1>1. loads # <<>> /\ Inner.todo # <<>> /\ loads' = WithoutNext
  BY DEF IncludeMissing
<1>2. /\ sheets' \in Seq(Sheet) /\ Ids' = Ids \union {Fresh}
      /\ Range(sheets'[Fresh].includes) = {}
      /\ \A s \in Ids :
           /\ sheets'[s].path = sheets[s].path
           /\ Range(sheets'[s].includes) \subseteq Range(sheets[s].includes) \union {Fresh}
  BY MissingAdded
<1>3. SheetsTyped'
  <2>1. \A s \in Ids' : Range(sheets'[s].includes) \subseteq Ids'
    BY <1>2 DEF IInv, SheetsTyped
  <2> QED
    BY <1>2, <2>1 DEF SheetsTyped
<1>4. LoadsTyped'
  BY <1>1, <1>2, WithoutNextTyped, LoadsMonotonic, SeqMonotonic DEF LoadsTyped
<1>5. PathsDiffer'
  BY <1>1, <1>2, <1>4, Numbers, WithoutNextTyped, PathsKept
<1>6. Counted' /\ disk' \in Disks /\ programHasError' \in BOOLEAN
  BY <1>1, WithoutNextTyped DEF IInv, Counted, IncludeMissing, PushErrors
<1> QED
  BY <1>3, <1>4, <1>5, <1>6 DEF IInv

LEMMA IncludeKeeps ==
  ASSUME IInv, Include
  PROVE  IInv'
<1> DEFINE n == Len(loads)
           load == Load(NextPath, <<>>)
<1>1. /\ loads # <<>> /\ Inner.todo # <<>> /\ ~Circular /\ Exists(NextPath)
      /\ sheets' = Append(sheets, NewSheet(NextPath, <<>>))
      /\ loads' = Append(WithoutNext, load)
  BY DEF Include
<1>2. <<>> \in Seq(Nat) /\ <<>> \in Seq(Ids) /\ Range(<<>>) \subseteq Ids
  BY EmptySeq, RangeOfIds
<1>3. /\ NewSheet(NextPath, <<>>) \in Sheet
      /\ NewSheet(NextPath, <<>>).includes = <<>> /\ NewSheet(NextPath, <<>>).path = NextPath
  BY <1>1, <1>2, NextPathTyped, NewSheetTyped
<1>4. /\ SheetsTyped' /\ Ids' = Ids \union {Fresh}
      /\ sheets'[Fresh] = NewSheet(NextPath, <<>>) /\ \A s \in Ids : sheets'[s] = sheets[s]
  BY <1>1, <1>2, <1>3, SheetsGrow
<1>5. load \in LoadOf(Ids') /\ load.sheet = Fresh
  BY <1>1, <1>2, <1>4, LoadTyped
<1> HIDE DEF load
<1>6. WithoutNext \in Seq(LoadOf(Ids')) /\ Len(WithoutNext) = n
      /\ \A i \in 1..n : WithoutNext[i].sheet = loads[i].sheet
  BY <1>1, <1>4, WithoutNextTyped, LoadsMonotonic, SeqMonotonic
<1>7. /\ LoadsTyped' /\ DOMAIN loads' = 1..(n + 1)
      /\ loads'[n + 1] = load /\ \A i \in 1..n : loads'[i] = WithoutNext[i]
      /\ loads' # <<>>
  BY <1>1, <1>5, <1>6, Numbers, AppendProperties, LenProperties DEF LoadsTyped
<1>8. PathsDiffer'
  <2> SUFFICES ASSUME NEW i \in 1..(n + 1), NEW j \in 1..(n + 1), i + 1 < j
               PROVE  sheets'[loads'[i].sheet].path # sheets'[loads'[j].sheet].path
    BY <1>7 DEF PathsDiffer
  <2>1. n \in Nat /\ i \in 1..(n - 1)
    BY Numbers
  <2>2. loads[i].sheet \in Ids /\ sheets'[loads'[i].sheet].path = sheets[loads[i].sheet].path
    <3>1. i \in 1..n /\ loads[i].sheet \in Ids
      BY <2>1, Numbers
    <3> QED
      BY <1>4, <1>6, <1>7, <3>1
  <2>3. CASE j = n + 1
    <3>1. sheets'[loads'[j].sheet].path = NextPath
      BY <1>3, <1>4, <1>5, <1>7, <2>3
    <3>2. sheets[loads[i].sheet].path \in Paths(Priors)
      BY <2>1 DEF Paths, Priors
    <3> QED
      BY <1>1, <2>2, <3>1, <3>2 DEF Circular
  <2>4. CASE j # n + 1
    <3>1. j \in 1..n /\ i \in 1..n
      BY <2>1, <2>4
    <3>2. i \in DOMAIN loads /\ j \in DOMAIN loads /\ loads[j].sheet \in Ids
      BY <3>1, Numbers
    <3>3. sheets'[loads'[j].sheet].path = sheets[loads[j].sheet].path
      BY <1>4, <1>6, <1>7, <3>1, <3>2
    <3>4. sheets[loads[i].sheet].path # sheets[loads[j].sheet].path
      BY <3>2 DEF IInv, PathsDiffer
    <3> QED
      BY <2>2, <3>3, <3>4
  <2> QED
    BY <2>3, <2>4
<1>9. Counted' /\ disk' \in Disks /\ programHasError' \in BOOLEAN
  BY <1>7 DEF IInv, Counted, Include
<1> QED
  BY <1>4, <1>7, <1>8, <1>9 DEF IInv

(* What a load leaves behind when it is done.                              *)
LEMMA AfterLoadTyped ==
  ASSUME IInv, NEW s \in Ids, NEW errors \in BOOLEAN
  PROVE  /\ AfterLoad(s, errors) \in Seq(Sheet)
         /\ DOMAIN AfterLoad(s, errors) = Ids
         /\ \A t \in Ids : /\ AfterLoad(s, errors)[t].path = sheets[t].path
                           /\ Range(AfterLoad(s, errors)[t].includes) \subseteq Ids
<1> DEFINE after == AfterLoad(s, errors)
<1>1. DOMAIN after = Ids
  BY DEF AfterLoad
<1>2. \A t \in Ids : /\ after[t] \in Sheet /\ after[t].path = sheets[t].path
                     /\ Range(after[t].includes) \subseteq Ids
  <2> TAKE t \in Ids
  <2>1. /\ sheets[t] \in Sheet /\ sheets[t].includes \in Seq(Nat) /\ s \in Nat
        /\ Range(sheets[t].includes) \subseteq Ids /\ sheets[s] \in Sheet
    BY Numbers DEF Sheet, IInv, SheetsTyped
  <2>2. CASE t = s
    <3>1. after[t] = Completed(sheets[t], errors)
      BY <2>2 DEF AfterLoad
    <3>2. IsObject(sheets[t].path) \in BOOLEAN
      BY DEF IsObject
    <3> QED
      BY <2>1, <3>1, <3>2 DEF Completed, Sheet
  <2>3. CASE t # s /\ t \in Range(sheets[s].includes)
    <3>1. after[t] = Linked(sheets[t], errors)
      BY <2>3 DEF AfterLoad
    <3> QED
      BY <2>1, <3>1 DEF Linked, Sheet
  <2>4. CASE t # s /\ t \notin Range(sheets[s].includes)
    <3>1. \/ after[t] = sheets[t]
          \/ after[t] = [sheets[t] EXCEPT !.includes = Append(@, s)]
      BY <2>4 DEF AfterLoad
    <3>2. CASE after[t] = [sheets[t] EXCEPT !.includes = Append(@, s)]
      <4> DEFINE includes == Append(sheets[t].includes, s)
      <4>1. after[t] \in Sheet /\ after[t].path = sheets[t].path /\ after[t].includes = includes
        <5>1. includes \in Seq(Nat)
          BY <2>1, AppendProperties
        <5> QED
          BY <2>1, <3>2, <5>1 DEF Sheet
      <4>2. \A j \in DOMAIN includes :
              \/ includes[j] = s
              \/ j \in DOMAIN sheets[t].includes /\ includes[j] = sheets[t].includes[j]
        BY <2>1, AppendProperties, LenProperties
      <4>3. Range(includes) \subseteq Ids
        BY <2>1, <4>2 DEF Range
      <4> QED
        BY <4>1, <4>3
    <3> QED
      BY <2>1, <3>1, <3>2
  <2> QED
    BY <2>2, <2>3, <2>4
<1>3. after \in [1..Len(sheets) -> Sheet]
  BY <1>2, Numbers DEF AfterLoad
<1> QED
  BY <1>1, <1>2, <1>3, Numbers

LEMMA FrontTyped ==
  ASSUME IInv, loads # <<>>
  PROVE  /\ Front(loads) \in Seq(LoadOf(Ids)) /\ Len(Front(loads)) = Len(loads) - 1
         /\ \A i \in 1..Len(loads) - 1 : Front(loads)[i] = loads[i]
<1> DEFINE n == Len(loads) - 1
           front == SubSeq(loads, 1, n)
<1>1. n \in Nat /\ \A i \in 1..n : loads[i] \in LoadOf(Ids)
  BY InnerTyped, Numbers
<1>2. Front(loads) = front
  BY DEF Front
<1>3. /\ front \in Seq(LoadOf(Ids))
      /\ Len(front) = IF 1 <= n THEN n - 1 + 1 ELSE 0
      /\ \A i \in 1..(n - 1 + 1) : front[i] = loads[1 + i - 1]
  BY <1>1, SubSeqProperties
<1> HIDE DEF n, front
<1>4. Len(front) = n
  BY <1>1, <1>3
<1>5. \A i \in 1..n : front[i] = loads[i]
  <2> TAKE i \in 1..n
  <2>1. n - 1 + 1 = n /\ 1 + i - 1 = i
    BY <1>1
  <2> QED
    BY <1>3, <2>1
<1> QED
  BY <1>2, <1>3, <1>4, <1>5 DEF n

LEMMA FinishKeeps ==
  ASSUME IInv, Finish
  PROVE  IInv'
<1> DEFINE own == OwnErrors(InnerPath)
           errors == programHasError \/ own > 0
           byIncluder == IF errors /\ Len(loads) > 1 THEN 1 ELSE 0
<1>1. /\ loads # <<>> /\ disk' = disk /\ loads' = Front(loads)
      /\ sheets' = AfterLoad(Inner.sheet, errors)
      /\ pushed' = pushed + (own + byIncluder) /\ printed' = pushed + own
      /\ freed' = freed \/ freed' = pushed + own
      /\ programHasError' = (programHasError \/ own + byIncluder > 0)
  BY DEF Finish, PushErrors
<1>2. own \in Nat /\ byIncluder \in Nat /\ errors \in BOOLEAN
  BY DEF OwnErrors, IInv
<1>3. Len(loads) \in Nat \ {0} /\ Inner.sheet \in Ids
  BY <1>1, InnerTyped
<1>4. /\ sheets' \in Seq(Sheet) /\ Ids' = Ids
      /\ \A t \in Ids : /\ sheets'[t].path = sheets[t].path
                        /\ Range(sheets'[t].includes) \subseteq Ids
  BY <1>1, <1>2, <1>3, AfterLoadTyped DEF Ids
<1>5. SheetsTyped'
  BY <1>4 DEF SheetsTyped
<1>6. /\ loads' \in Seq(LoadOf(Ids)) /\ Len(loads') = Len(loads) - 1
      /\ \A i \in 1..Len(loads') : loads'[i] = loads[i]
  BY <1>1, FrontTyped
<1>7. LoadsTyped' /\ PathsDiffer'
  <2>1. LoadsTyped'
    BY <1>4, <1>6 DEF LoadsTyped
  <2> QED
    BY <1>3, <1>4, <1>6, <2>1, PathsKept
<1>8. loads' = <<>> => Len(loads) = 1
  BY <1>3, <1>6, EmptySeq
<1>9. Len(loads) = 1 => byIncluder = 0
  OBVIOUS
<1>10. Counted'
  <2> HIDE DEF own, errors, byIncluder
  <2>1. pushed \in Nat /\ printed \in Nat /\ freed \in Nat /\ freed <= printed /\ printed <= pushed
    BY DEF IInv, Counted
  <2>2. /\ pushed' \in Nat /\ printed' \in Nat /\ freed' \in Nat
        /\ freed' <= printed' /\ printed' <= pushed'
    BY <1>1, <1>2, <2>1
  <2>3. loads' = <<>> => printed' = pushed'
    <3> SUFFICES ASSUME loads' = <<>>
                 PROVE  printed' = pushed'
      OBVIOUS
    <3>1. byIncluder = 0
      BY <1>8, <1>9
    <3> QED
      BY <1>1, <1>2, <2>1, <3>1
  <2> QED
    BY <2>2, <2>3 DEF Counted
<1>11. disk' \in Disks /\ programHasError' \in BOOLEAN
  BY <1>1 DEF IInv
<1> QED
  BY <1>5, <1>7, <1>10, <1>11 DEF IInv

-----------------------------------------------------------------------------
LEMMA Initially == Init => IInv
<1> SUFFICES ASSUME Init
             PROVE  IInv
  OBVIOUS
<1>1. sheets = <<>> /\ loads = <<>> /\ DOMAIN sheets = {}
  BY DEF Init
<1>2. SheetsTyped /\ LoadsTyped /\ PathsDiffer
  BY <1>1, EmptySeq DEF SheetsTyped, LoadsTyped, PathsDiffer, Ids
<1>3. Counted
  BY DEF Init, Counted
<1>4. disk \in Disks /\ programHasError \in BOOLEAN
  BY DEF Init
<1> QED
  BY <1>2, <1>3, <1>4 DEF IInv

LEMMA NextKeeps == IInv /\ [Next]_vars => IInv'
<1> SUFFICES ASSUME IInv, [Next]_vars
             PROVE  IInv'
  OBVIOUS
<1>1. CASE IncludeGiven
  BY <1>1, IncludeGivenKeeps
<1>2. CASE IncludeCircular
  BY <1>2, IncludeCircularKeeps
<1>3. CASE IncludeMissing
  BY <1>3, IncludeMissingKeeps
<1>4. CASE Include
  BY <1>4, IncludeKeeps
<1>5. CASE Finish
  BY <1>5, FinishKeeps
<1>6. CASE \E path \in HostPaths, given \in Givens : HostLoad(path, given)
  BY <1>6, HostLoadKeeps
<1>7. CASE UNCHANGED vars
  BY <1>7 DEF vars, IInv, SheetsTyped, LoadsTyped, PathsDiffer, Counted, Ids
<1> QED
  BY <1>1, <1>2, <1>3, <1>4, <1>5, <1>6, <1>7 DEF Next, Loader

(***************************************************************************)
(* The inductive invariant of every run of the loader.                     *)
(***************************************************************************)
THEOREM LoaderInvariance == Spec => []IInv
<1> QED
  BY Initially, NextKeeps, PTL DEF Spec

(***************************************************************************)
(* Every variable of the loader keeps its type: sheets only ever include   *)
(* sheets that have been created.                                          *)
(***************************************************************************)
THEOREM LoaderTypes == Spec => []TypeOK
<1>1. IInv => TypeOK
  BY DEF IInv, TypeOK, SheetsTyped, LoadsTyped, Counted, Sheet, LoadOf, Path
<1> QED
  BY <1>1, LoaderInvariance, PTL

(***************************************************************************)
(* Whatever the files include, and however deep, no path is loaded inside  *)
(* a load of the same path, but for a file that includes itself directly   *)
(* (dsheet.c:270-313).                                                     *)
(***************************************************************************)
THEOREM NoPathTwice == Spec => []PathsDiffer
<1>1. IInv => PathsDiffer
  BY DEF IInv
<1> QED
  BY <1>1, LoaderInvariance, PTL

(***************************************************************************)
(* Every error message that was pushed is printed before the outermost     *)
(* load returns, and none is freed before (decision.c:323-367).            *)
(***************************************************************************)
THEOREM ErrorsPrinted == Spec => []NoErrorLost
<1>1. IInv => NoErrorLost
  BY DEF IInv, Counted, NoErrorLost
<1> QED
  BY <1>1, LoaderInvariance, PTL

-----------------------------------------------------------------------------
(***************************************************************************)
(* Sound includes need more than themselves.  A sheet is not included      *)
(* while it is being loaded, nor loaded twice at once, and as long as      *)
(* nothing has failed a load has everything it has come past: what its     *)
(* file includes is yet to be read, or is being read just inside, or is    *)
(* included already and is ready.  A sheet without errors has a file, in   *)
(* which the compiler has found none of its own.                           *)
(***************************************************************************)
LoadsDistinct == \A i, j \in DOMAIN loads : loads[i].sheet = loads[j].sheet => i = j

NoneIncludedYet == \A s \in Ids : Range(sheets[s].includes) \subseteq Finished

GivenAreIncluded ==
  \A i \in DOMAIN loads, s \in Ids :
    s = loads[i].sheet /\ loads[i].todo # <<>> =>
      Range(loads[i].given) \subseteq Range(sheets[s].includes)

Needed(s) == Range(ToInclude(sheets[s].path))

Inside(i, s, p) ==
  /\ i + 1 \in DOMAIN loads
  /\ sheets[loads[i + 1].sheet].path = FinalPath(sheets[s].path, p)

Accepted(s) == Exists(sheets[s].path) /\ OwnErrors(sheets[s].path) = 0

SheetSound(s) ==
  ~sheets[s].hasErrors =>
    /\ Ready(s) /\ Accepted(s)
    /\ \A t \in Range(sheets[s].includes) : Ready(t)
    /\ \A p \in Needed(s) : HasInclude(s, p)

LoadSound(i, s) ==
  /\ Exists(sheets[s].path)
  /\ \A t \in Range(sheets[s].includes) : Ready(t)
  /\ \A p \in Needed(s) :
       p \in Range(loads[i].todo) \/ Inside(i, s, p) \/ HasInclude(s, p)

AllLoadsSound ==
  ~programHasError => \A i \in DOMAIN loads, s \in Ids : s = loads[i].sheet => LoadSound(i, s)

SoundInv ==
  /\ IInv
  /\ LoadsDistinct /\ NoneIncludedYet /\ GivenAreIncluded
  /\ \A s \in Finished : SheetSound(s)
  /\ AllLoadsSound

(* No step takes a sheet away, and one that is finished is only ever       *)
(* linked again.                                                           *)
SheetStays(s) ==
  /\ sheets'[s].includes = sheets[s].includes
  /\ sheets'[s].hasErrors = sheets[s].hasErrors
  /\ sheets'[s].isCompiled = sheets[s].isCompiled
  /\ sheets[s].isLinked => sheets'[s].isLinked

SheetsStay ==
  /\ disk' = disk /\ Ids \subseteq Ids'
  /\ \A s \in Ids : sheets'[s].path = sheets[s].path
  /\ \A s \in Finished : SheetStays(s)

LEMMA IncludesAreIds ==
  ASSUME IInv, NEW s \in Ids
  PROVE  Range(sheets[s].includes) \subseteq Ids
BY DEF IInv, SheetsTyped

LEMMA ReadyStays ==
  ASSUME SheetsStay, NEW s \in Finished, Ready(s)
  PROVE  Ready(s)'
BY DEF SheetsStay, SheetStays, Ready

LEMMA NeededStays ==
  ASSUME SheetsStay, NEW s \in Ids
  PROVE  /\ Needed(s)' = Needed(s)
         /\ Exists(sheets[s].path)' <=> Exists(sheets[s].path)
         /\ Accepted(s)' <=> Accepted(s)
<1>1. disk' = disk /\ sheets'[s].path = sheets[s].path
  BY DEF SheetsStay
<1>2. Needed(s)' = Needed(s)
  BY <1>1 DEF Needed, ToInclude, ReachesIncludes, IncludesOf, KindOf
<1>3. Exists(sheets[s].path)' <=> Exists(sheets[s].path)
  BY <1>1 DEF Exists
<1>4. OwnErrors(sheets[s].path)' = OwnErrors(sheets[s].path)
  BY <1>1 DEF OwnErrors, KindOf
<1> QED
  BY <1>2, <1>3, <1>4 DEF Accepted

LEMMA HasIncludeStays ==
  ASSUME IInv, SheetsStay, NEW s \in Ids, NEW p, HasInclude(s, p),
         Range(sheets[s].includes) \subseteq Range(sheets'[s].includes)
  PROVE  HasInclude(s, p)'
<1>1. PICK t \in Range(sheets[s].includes) : sheets[t].path \in {p, FinalPath(sheets[s].path, p)}
  BY DEF HasInclude
<1>2. t \in Ids /\ t \in Range(sheets'[s].includes)
  BY <1>1, IncludesAreIds
<1>3. sheets'[t].path = sheets[t].path /\ sheets'[s].path = sheets[s].path
  BY <1>2 DEF SheetsStay
<1>4. sheets'[t].path \in {p, FinalPath(sheets'[s].path, p)}
  BY <1>1, <1>3
<1> QED
  BY <1>2, <1>4 DEF HasInclude

(* What is finished stays sound.                                           *)
LEMMA SheetSoundStays ==
  ASSUME SoundInv, SheetsStay, NEW s \in Finished
  PROVE  SheetSound(s)'
<1>1. s \in Ids /\ SheetSound(s) /\ SheetStays(s) /\ IInv /\ NoneIncludedYet
  BY DEF SoundInv, SheetsStay, Finished
<1>2. sheets'[s].includes = sheets[s].includes /\ sheets'[s].hasErrors = sheets[s].hasErrors
  BY <1>1 DEF SheetStays
<1> SUFFICES ASSUME ~sheets[s].hasErrors
             PROVE  /\ Ready(s)' /\ Accepted(s)'
                    /\ \A t \in Range(sheets'[s].includes) : Ready(t)'
                    /\ \A p \in Needed(s)' : HasInclude(s, p)'
  BY <1>2 DEF SheetSound
<1>3. /\ Ready(s) /\ Accepted(s)
      /\ \A t \in Range(sheets[s].includes) : Ready(t)
      /\ \A p \in Needed(s) : HasInclude(s, p)
  BY <1>1 DEF SheetSound
<1>4. Ready(s)' /\ Accepted(s)'
  BY <1>1, <1>3, ReadyStays, NeededStays
<1>5. ASSUME NEW t \in Range(sheets'[s].includes)
      PROVE  Ready(t)'
  <2>1. t \in Finished /\ Ready(t)
    BY <1>1, <1>2, <1>3 DEF NoneIncludedYet
  <2> QED
    BY <2>1, ReadyStays
<1>6. ASSUME NEW p \in Needed(s)'
      PROVE  HasInclude(s, p)'
  <2>1. HasInclude(s, p)
    BY <1>1, <1>3, NeededStays
  <2> QED
    BY <1>1, <1>2, <2>1, HasIncludeStays
<1> QED
  BY <1>4, <1>5, <1>6

(* A load goes on: it includes what it included and what can be run, and   *)
(* has not lost sight of anything that it had yet to include.              *)
LEMMA LoadSoundStays ==
  ASSUME SoundInv, SheetsStay, NEW s \in Ids, NEW i, LoadSound(i, s),
         Range(sheets[s].includes) \subseteq Range(sheets'[s].includes),
         \A t \in Range(sheets'[s].includes) \ Range(sheets[s].includes) : Ready(t)',
         \A p \in Needed(s) : p \in Range(loads[i].todo) \/ Inside(i, s, p) =>
           p \in Range(loads'[i].todo) \/ Inside(i, s, p)' \/ HasInclude(s, p)'
  PROVE  LoadSound(i, s)'
<1>1. /\ IInv /\ NoneIncludedYet /\ Exists(sheets[s].path)
      /\ \A t \in Range(sheets[s].includes) : Ready(t)
      /\ \A p \in Needed(s) :
           p \in Range(loads[i].todo) \/ Inside(i, s, p) \/ HasInclude(s, p)
  BY DEF SoundInv, LoadSound
<1>2. ASSUME NEW t \in Range(sheets'[s].includes)
      PROVE  Ready(t)'
  <2>1. CASE t \in Range(sheets[s].includes)
    <3>1. t \in Finished /\ Ready(t)
      BY <1>1, <2>1 DEF NoneIncludedYet
    <3> QED
      BY <3>1, ReadyStays
  <2> QED
    BY <2>1
<1>3. ASSUME NEW p \in Needed(s)'
      PROVE  p \in Range(loads'[i].todo) \/ Inside(i, s, p)' \/ HasInclude(s, p)'
  <2>1. p \in Needed(s)
    BY NeededStays
  <2>2. HasInclude(s, p) => HasInclude(s, p)'
    BY <1>1, HasIncludeStays
  <2> QED
    BY <1>1, <2>1, <2>2
<1>4. Exists(sheets[s].path)'
  BY <1>1, NeededStays
<1> QED
  BY <1>2, <1>3, <1>4 DEF LoadSound

-----------------------------------------------------------------------------
(* Every action keeps the sheets sound.                                    *)

LEMMA SheetsStayWhenAdded ==
  ASSUME IInv, NEW s \in Sheet, Range(s.includes) \subseteq Ids \union {Fresh},
         sheets' = Append(sheets, s), disk' = disk
  PROVE  SheetsStay
<1>1. Ids' = Ids \union {Fresh} /\ \A t \in Ids : sheets'[t] = sheets[t]
  BY SheetsGrow
<1> QED
  BY <1>1 DEF SheetsStay, SheetStays, Finished

LEMMA LoadingIs ==
  ASSUME SoundInv
  PROVE  /\ Finished \subseteq Ids
         /\ \A i \in DOMAIN loads : loads[i].sheet \in Ids /\ loads[i].sheet \notin Finished
  BY Numbers DEF SoundInv, Finished, Loading

(* A load that begins has all of its includes before it.                   *)
LEMMA LoadBegins ==
  ASSUME NEW i, NEW s, NEW path, NEW given, Exists(path),
         loads'[i] = Load(path, given), disk' = disk, sheets'[s].path = path,
         \A t \in Range(sheets'[s].includes) : Ready(t)'
  PROVE  LoadSound(i, s)'
<1>1. Needed(s)' = Range(ToInclude(path))
  BY DEF Needed, ToInclude, ReachesIncludes, IncludesOf, KindOf
<1>2. loads'[i].todo = ToInclude(path)
  BY DEF Load
<1>3. Exists(sheets[s].path)'
  BY DEF Exists
<1> QED
  BY <1>1, <1>2, <1>3 DEF LoadSound

LEMMA HostLoadSound ==
  ASSUME SoundInv, NEW path \in HostPaths, NEW given \in Givens, HostLoad(path, given)
  PROVE  SoundInv'
<1> DEFINE sheet == IF Exists(path) THEN NewSheet(path, Kept(path, given)) ELSE FailedSheet(path)
<1>1. /\ IInv /\ loads = <<>> /\ disk' = disk /\ programHasError' = programHasError
      /\ sheets' = Append(sheets, sheet)
      /\ loads' = IF Exists(path) THEN <<Load(path, given)>> ELSE <<>>
  BY DEF SoundInv, HostLoad
<1>2. path \in Path /\ given \in Seq(Ids) /\ given \in Seq(Nat) /\ <<>> \in Seq(Ids) /\ <<>> \in Seq(Nat)
  BY <1>1, HostPathsTyped, GivensTyped, EmptySeq
<1>3. Finished = Ids /\ Loading = {}
  BY <1>1 DEF Finished, Loading
<1>4. /\ sheet \in Sheet /\ sheet.path = path
      /\ sheet.includes \in {<<>>, given}
      /\ ~Exists(path) => sheet.hasErrors
  <2>1. CASE Exists(path)
    <3>1. Kept(path, given) \in {<<>>, given}
      BY DEF Kept
    <3> QED
      BY <1>2, <2>1, <3>1, NewSheetTyped, ZenonT(30)
  <2>2. CASE ~Exists(path)
    BY <1>2, <2>2, FailedSheetTyped DEF FailedSheet, NewSheet
  <2> QED
    BY <2>1, <2>2
<1>5. Range(sheet.includes) \subseteq Usable
  <2>1. <<>> \in Seq(Usable) /\ \A s \in Usable : <<s>> \in Seq(Usable)
    BY EmptySeq
  <2>2. sheet.includes \in Seq(Usable)
    BY <1>4, <2>1 DEF Givens
  <2> QED
    BY <2>2, RangeOfIds
<1>6. Range(sheet.includes) \subseteq Ids
  BY <1>5 DEF Usable, Finished
<1> HIDE DEF sheet
<1>7. /\ SheetsTyped' /\ Ids' = Ids \union {Fresh}
      /\ sheets'[Fresh] = sheet /\ \A t \in Ids : sheets'[t] = sheets[t]
  BY <1>1, <1>4, <1>6, SheetsGrow
<1>8. SheetsStay /\ Fresh \notin Ids
  BY <1>1, <1>4, <1>6, SheetsStayWhenAdded, Numbers
<1>9. IInv'
  BY <1>1, HostLoadKeeps
<1>10. \A i \in DOMAIN loads' : i = 1 /\ Exists(path) /\ loads'[i] = Load(path, given) /\ loads'[i].sheet = Fresh
  BY <1>1 DEF Load
<1>11. LoadsDistinct'
  BY <1>10 DEF LoadsDistinct
<1>12. Loading' \subseteq {Fresh} /\ Ids \subseteq Finished'
  <2>1. Loading' \subseteq {Fresh}
    BY <1>10 DEF Loading
  <2> QED
    BY <1>7, <1>8, <2>1 DEF Finished
<1>13. NoneIncludedYet'
  <2> SUFFICES ASSUME NEW s \in Ids'
               PROVE  Range(sheets'[s].includes) \subseteq Ids
    BY <1>12 DEF NoneIncludedYet
  <2> QED
    BY <1>1, <1>6, <1>7, IncludesAreIds
<1>14. GivenAreIncluded'
  <2> SUFFICES ASSUME NEW i \in DOMAIN loads', NEW s \in Ids', s = loads'[i].sheet,
                      loads'[i].todo # <<>>
               PROVE  Range(loads'[i].given) \subseteq Range(sheets'[s].includes)
    BY DEF GivenAreIncluded
  <2>1. s = Fresh /\ Exists(path) /\ loads'[i].todo = ToInclude(path) /\ loads'[i].given = given
    BY <1>10 DEF Load
  <2>2. IncludesOf(path) # <<>>
    BY <2>1 DEF ToInclude
  <2>3. sheet.includes = given
    BY <1>2, <2>1, <2>2, NewSheetTyped DEF sheet, Kept
  <2> QED
    BY <1>7, <2>1, <2>3
<1>15. \A s \in Finished' : SheetSound(s)'
  <2> TAKE s \in Finished'
  <2>1. CASE s \in Ids
    BY <1>3, <1>8, <2>1, SheetSoundStays
  <2>2. CASE s \notin Ids
    <3>1. s = Fresh /\ s \notin Loading'
      BY <1>7, <2>2 DEF Finished
    <3>2. ~Exists(path)
      <4> SUFFICES ASSUME Exists(path)
                   PROVE  FALSE
        OBVIOUS
      <4>1. 1 \in DOMAIN loads' /\ loads'[1].sheet = Fresh
        BY <1>1 DEF Load
      <4> QED
        BY <3>1, <4>1 DEF Loading
    <3>3. sheets'[s].hasErrors
      BY <1>4, <1>7, <3>1, <3>2
    <3> QED
      BY <3>3 DEF SheetSound
  <2> QED
    BY <2>1, <2>2
<1>16. AllLoadsSound'
  <2> SUFFICES ASSUME NEW i \in DOMAIN loads', NEW s \in Ids', s = loads'[i].sheet
               PROVE  LoadSound(i, s)'
    BY DEF AllLoadsSound
  <2>1. s = Fresh /\ Exists(path) /\ loads'[i] = Load(path, given)
    BY <1>10
  <2>2. sheets'[s].path = path /\ sheets'[s].includes = sheet.includes
    BY <1>4, <1>7, <2>1
  <2>3. ASSUME NEW t \in Range(sheets'[s].includes)
        PROVE  Ready(t)'
    <3>1. t \in Finished /\ ~sheets[t].hasErrors
      BY <1>5, <2>2 DEF Usable
    <3>2. Ready(t)
      BY <3>1 DEF SoundInv, SheetSound
    <3> QED
      BY <1>8, <3>1, <3>2, ReadyStays
  <2> QED
    BY <1>1, <2>1, <2>2, <2>3, LoadBegins
<1> QED
  BY <1>9, <1>11, <1>13, <1>14, <1>15, <1>16 DEF SoundInv

(* The next include is taken off the list of the innermost load.           *)
LEMMA NextTakenOff ==
  ASSUME SoundInv, IInv', loads # <<>>, Inner.todo # <<>>, loads' = WithoutNext, SheetsStay,
         \A s \in Ids : Range(sheets[s].includes) \subseteq Range(sheets'[s].includes)
  PROVE  /\ DOMAIN loads' = DOMAIN loads /\ Len(loads) \in DOMAIN loads
         /\ \A i \in DOMAIN loads :
              /\ loads'[i].sheet = loads[i].sheet
              /\ \/ loads'[i].todo = loads[i].todo
                 \/ i = Len(loads) /\ Range(loads[i].todo) \subseteq
                                        {Head(Inner.todo)} \union Range(loads'[i].todo)
         /\ Loading' = Loading
         /\ LoadsDistinct' /\ GivenAreIncluded'
<1>1. IInv /\ LoadsDistinct /\ GivenAreIncluded
  BY DEF SoundInv
<1>2. /\ Len(loads) \in Nat \ {0} /\ Len(loads) \in 1..Len(loads)
      /\ DOMAIN loads = 1..Len(loads) /\ DOMAIN loads' = 1..Len(loads')
  BY <1>1, Numbers, InnerTyped, LenProperties DEF IInv, LoadsTyped
<1>3. /\ DOMAIN loads' = DOMAIN loads
      /\ \A i \in DOMAIN loads : loads'[i].sheet = loads[i].sheet /\ loads'[i].given = loads[i].given
      /\ \A i \in 1..Len(loads) - 1 : loads'[i] = loads[i]
      /\ loads'[Len(loads)].todo = Tail(Inner.todo)
  BY <1>1, <1>2, WithoutNextTyped
<1>4. ASSUME NEW i \in DOMAIN loads
      PROVE  \/ loads'[i].todo = loads[i].todo
             \/ i = Len(loads) /\ Range(loads[i].todo) \subseteq
                                    {Head(Inner.todo)} \union Range(loads'[i].todo)
  <2>1. CASE i = Len(loads)
    <3>1. loads[i].todo = Inner.todo /\ Inner.todo \in Seq(Path)
      BY <1>1, <2>1, InnerTyped DEF Inner
    <3> QED
      BY <1>3, <2>1, <3>1, RangeOfTail
  <2>2. CASE i # Len(loads)
    <3>1. i \in 1..Len(loads) - 1
      BY <1>2, <2>2
    <3> QED
      BY <1>3, <3>1
  <2> QED
    BY <2>1, <2>2
<1>5. Loading' = Loading
  BY <1>3 DEF Loading
<1>6. LoadsDistinct'
  BY <1>1, <1>3 DEF LoadsDistinct
<1>7. GivenAreIncluded'
  <2> SUFFICES ASSUME NEW i \in DOMAIN loads', NEW s \in Ids', s = loads'[i].sheet,
                      loads'[i].todo # <<>>
               PROVE  Range(loads'[i].given) \subseteq Range(sheets'[s].includes)
    BY DEF GivenAreIncluded
  <2>1. i \in DOMAIN loads /\ s = loads[i].sheet /\ s \in Ids
    BY <1>1, <1>2, <1>3, Numbers
  <2>2. loads[i].todo # <<>>
    BY <1>4, <2>1 DEF Inner
  <2>3. Range(loads[i].given) \subseteq Range(sheets[s].includes)
    BY <1>1, <2>1, <2>2 DEF GivenAreIncluded
  <2> QED
    BY <1>3, <2>1, <2>3
<1> QED
  BY <1>2, <1>3, <1>4, <1>5, <1>6, <1>7

(* An include that is skipped is there already, or is an error.            *)
LEMMA SkippedSound ==
  ASSUME SoundInv, IInv', loads # <<>>, Inner.todo # <<>>, loads' = WithoutNext,
         sheets' = sheets, disk' = disk, programHasError => programHasError',
         programHasError' \/ HasInclude(Inner.sheet, Head(Inner.todo))
  PROVE  SoundInv'
<1>1. SheetsStay /\ Ids' = Ids /\ IInv /\ NoneIncludedYet
  BY DEF SheetsStay, SheetStays, Ids, SoundInv
<1>2. \A s \in Ids : Range(sheets[s].includes) \subseteq Range(sheets'[s].includes)
  OBVIOUS
<1>3. /\ DOMAIN loads' = DOMAIN loads /\ Len(loads) \in DOMAIN loads
      /\ \A i \in DOMAIN loads :
           /\ loads'[i].sheet = loads[i].sheet
           /\ \/ loads'[i].todo = loads[i].todo
              \/ i = Len(loads) /\ Range(loads[i].todo) \subseteq
                                     {Head(Inner.todo)} \union Range(loads'[i].todo)
      /\ Loading' = Loading
      /\ LoadsDistinct' /\ GivenAreIncluded'
  BY <1>1, <1>2, NextTakenOff
<1>4. Finished' = Finished
  BY <1>1, <1>3 DEF Finished
<1>5. NoneIncludedYet'
  BY <1>1, <1>4 DEF NoneIncludedYet
<1>6. \A s \in Finished' : SheetSound(s)'
  BY <1>1, <1>4, SheetSoundStays
<1>7. AllLoadsSound'
  <2> SUFFICES ASSUME NEW i \in DOMAIN loads', NEW s \in Ids', s = loads'[i].sheet,
                      ~programHasError'
               PROVE  LoadSound(i, s)'
    BY DEF AllLoadsSound
  <2>1. i \in DOMAIN loads /\ s \in Ids /\ s = loads[i].sheet
    BY <1>1, <1>3
  <2>2. LoadSound(i, s)
    BY <2>1 DEF SoundInv, AllLoadsSound
  <2>3. ASSUME NEW p \in Needed(s), p \in Range(loads[i].todo)
        PROVE  p \in Range(loads'[i].todo) \/ HasInclude(s, p)'
    <3> SUFFICES ASSUME i = Len(loads), p = Head(Inner.todo)
                 PROVE  HasInclude(s, p)'
      BY <1>3, <2>1, <2>3
    <3>1. s = Inner.sheet
      BY <2>1 DEF Inner
    <3>2. HasInclude(s, p)
      BY <3>1
    <3> QED
      BY <1>1, <1>2, <2>1, <3>2, HasIncludeStays
  <2>4. ASSUME NEW p \in Needed(s), Inside(i, s, p)
        PROVE  Inside(i, s, p)'
    BY <1>3, <2>4 DEF Inside
  <2> QED
    BY <1>1, <2>1, <2>2, <2>3, <2>4, LoadSoundStays
<1> QED
  BY <1>3, <1>5, <1>6, <1>7 DEF SoundInv

LEMMA IncludeGivenSound ==
  ASSUME SoundInv, IncludeGiven
  PROVE  SoundInv'
<1>1. /\ IInv /\ GivenAreIncluded /\ loads # <<>> /\ Inner.todo # <<>> /\ loads' = WithoutNext
      /\ sheets' = sheets /\ disk' = disk /\ programHasError' = programHasError
      /\ Head(Inner.todo) \in Paths(Range(Inner.given))
  BY DEF SoundInv, IncludeGiven, Given
<1>2. IInv'
  BY <1>1, IncludeGivenKeeps
<1>3. HasInclude(Inner.sheet, Head(Inner.todo))
  <2>1. PICK t \in Range(Inner.given) : sheets[t].path = Head(Inner.todo)
    BY <1>1 DEF Paths
  <2>2. Len(loads) \in DOMAIN loads /\ Inner.sheet \in Ids /\ Inner = loads[Len(loads)]
    BY <1>1, Numbers, InnerTyped DEF Inner
  <2>3. t \in Range(sheets[Inner.sheet].includes)
    BY <1>1, <2>1, <2>2 DEF GivenAreIncluded
  <2> QED
    BY <2>1, <2>3 DEF HasInclude
<1> QED
  BY <1>1, <1>2, <1>3, SkippedSound

LEMMA IncludeCircularSound ==
  ASSUME SoundInv, IncludeCircular
  PROVE  SoundInv'
<1>1. /\ IInv /\ loads # <<>> /\ Inner.todo # <<>> /\ loads' = WithoutNext
      /\ sheets' = sheets /\ disk' = disk
      /\ programHasError' = (programHasError \/ 1 > 0)
  BY DEF SoundInv, IncludeCircular, PushErrors
<1>2. 1 > 0
  OBVIOUS
<1>3. IInv'
  BY <1>1, IncludeCircularKeeps
<1> QED
  BY <1>1, <1>2, <1>3, SkippedSound

LEMMA IncludeMissingSound ==
  ASSUME SoundInv, IncludeMissing
  PROVE  SoundInv'
<1>1. /\ IInv /\ NoneIncludedYet /\ loads # <<>> /\ Inner.todo # <<>> /\ loads' = WithoutNext
      /\ disk' = disk /\ programHasError' = (programHasError \/ 1 > 0)
  BY DEF SoundInv, IncludeMissing, PushErrors
<1>2. IInv'
  BY <1>1, IncludeMissingKeeps
<1>3. 1 > 0
  OBVIOUS
<1>4. programHasError'
  BY <1>1, <1>3
<1>5. /\ Ids' = Ids \union {Fresh}
      /\ sheets'[Fresh].hasErrors /\ Range(sheets'[Fresh].includes) = {}
      /\ \A s \in Ids :
           /\ sheets'[s].path = sheets[s].path
           /\ Range(sheets'[s].includes) \subseteq Range(sheets[s].includes) \union {Fresh}
           /\ Range(sheets[s].includes) \subseteq Range(sheets'[s].includes)
           /\ s # Inner.sheet => sheets'[s] = sheets[s]
  BY <1>1, MissingAdded
<1>6. Inner.sheet \notin Finished /\ Finished \subseteq Ids
  BY <1>1, InnerTyped, LoadingIs, Numbers DEF Inner
<1>7. SheetsStay
  <2>1. \A s \in Finished : sheets'[s] = sheets[s]
    BY <1>5, <1>6
  <2> QED
    BY <1>1, <1>5, <2>1 DEF SheetsStay, SheetStays
<1>8. Loading' = Loading /\ LoadsDistinct' /\ GivenAreIncluded'
  BY <1>1, <1>2, <1>5, <1>7, NextTakenOff
<1>9. Finished' = Finished \union {Fresh}
  <2>1. Fresh \notin Loading
    BY <1>1, Numbers DEF Loading
  <2> QED
    BY <1>5, <1>8, <2>1 DEF Finished
<1>10. NoneIncludedYet'
  BY <1>1, <1>5, <1>9 DEF NoneIncludedYet
<1>11. \A s \in Finished' : SheetSound(s)'
  <2> TAKE s \in Finished'
  <2>1. CASE s \in Finished
    BY <1>7, <2>1, SheetSoundStays
  <2>2. CASE s = Fresh
    BY <1>5, <2>2 DEF SheetSound
  <2> QED
    BY <1>9, <2>1, <2>2
<1>12. AllLoadsSound'
  BY <1>4 DEF AllLoadsSound
<1> QED
  BY <1>2, <1>8, <1>10, <1>11, <1>12 DEF SoundInv

LEMMA IncludeSound ==
  ASSUME SoundInv, Include
  PROVE  SoundInv'
<1> DEFINE n == Len(loads)
           load == Load(NextPath, <<>>)
           sheet == NewSheet(NextPath, <<>>)
<1>1. /\ IInv /\ LoadsDistinct /\ NoneIncludedYet /\ GivenAreIncluded
      /\ loads # <<>> /\ Inner.todo # <<>> /\ Exists(NextPath)
      /\ sheets' = Append(sheets, sheet) /\ loads' = Append(WithoutNext, load)
      /\ disk' = disk /\ programHasError' = programHasError
  BY DEF SoundInv, Include
<1>2. IInv'
  BY <1>1, IncludeKeeps
<1>3. /\ sheet \in Sheet /\ sheet.path = NextPath /\ sheet.includes = <<>>
      /\ Range(<<>>) = {}
  <2>1. <<>> \in Seq(Nat) /\ <<>> \in Seq({})
    BY EmptySeq
  <2>2. Range(<<>>) \subseteq {}
    BY <2>1, RangeOfIds
  <2> QED
    BY <1>1, <2>1, <2>2, NextPathTyped, NewSheetTyped
<1>4. load.sheet = Fresh /\ load.given = <<>>
  BY DEF Load
<1> HIDE DEF sheet
<1>5. /\ Ids' = Ids \union {Fresh} /\ Fresh \notin Ids
      /\ sheets'[Fresh] = sheet /\ \A t \in Ids : sheets'[t] = sheets[t]
      /\ SheetsStay
  BY <1>1, <1>3, SheetsGrow, SheetsStayWhenAdded, Numbers
<1>6. /\ n \in Nat \ {0} /\ n \in 1..n /\ DOMAIN loads = 1..n /\ Inner = loads[n]
      /\ Inner.sheet \in Ids /\ Inner.todo \in Seq(Path)
      /\ \A i \in 1..n : loads[i].sheet \in Ids
  BY <1>1, Numbers, InnerTyped DEF Inner
<1>7. /\ WithoutNext \in Seq(LoadOf(Ids)) /\ Len(WithoutNext) = n
      /\ \A i \in 1..n : WithoutNext[i].sheet = loads[i].sheet /\ WithoutNext[i].given = loads[i].given
      /\ \A i \in 1..n - 1 : WithoutNext[i] = loads[i]
      /\ WithoutNext[n].todo = Tail(Inner.todo)
  BY <1>1, WithoutNextTyped
<1>8. /\ DOMAIN loads' = 1..(n + 1) /\ loads'[n + 1] = load
      /\ \A i \in 1..n : loads'[i] = WithoutNext[i]
  <2> HIDE DEF load
  <2>1. WithoutNext \in Seq(LoadOf(Ids) \union {load})
    BY <1>7, SeqMonotonic
  <2>2. /\ loads' \in Seq(LoadOf(Ids) \union {load}) /\ Len(loads') = n + 1
        /\ loads'[n + 1] = load /\ \A i \in 1..n : loads'[i] = WithoutNext[i]
    BY <1>1, <1>7, <2>1, AppendProperties
  <2> QED
    BY <2>2, LenProperties
<1> HIDE DEF load
<1>9. ASSUME NEW i \in DOMAIN loads'
      PROVE  \/ i \in 1..n /\ loads'[i].sheet = loads[i].sheet /\ loads'[i].sheet \in Ids
             \/ i = n + 1 /\ loads'[i] = load /\ loads'[i].sheet = Fresh
  <2>1. i \in 1..n \/ i = n + 1
    BY <1>6, <1>8
  <2> QED
    BY <1>4, <1>6, <1>7, <1>8, <2>1
<1>10. LoadsDistinct'
  BY <1>1, <1>5, <1>6, <1>9 DEF LoadsDistinct
<1>11. Finished' = Finished
  <2>1. Loading' = Loading \union {Fresh}
    <3>1. ASSUME NEW s \in Loading
          PROVE  s \in Loading'
      <4>1. PICK i \in 1..n : s = loads[i].sheet
        BY <1>6 DEF Loading
      <4>2. i \in DOMAIN loads' /\ s = loads'[i].sheet
        BY <1>6, <1>7, <1>8, <4>1
      <4> QED
        BY <4>2 DEF Loading
    <3>2. Fresh \in Loading'
      <4>1. n + 1 \in DOMAIN loads'
        BY <1>6, <1>8
      <4> QED
        BY <1>4, <1>8, <4>1 DEF Loading
    <3>3. Loading' \subseteq Loading \union {Fresh}
      BY <1>6, <1>9 DEF Loading
    <3> QED
      BY <3>1, <3>2, <3>3
  <2> QED
    BY <1>5, <2>1 DEF Finished
<1>12. NoneIncludedYet'
  BY <1>1, <1>3, <1>5, <1>11 DEF NoneIncludedYet
<1>13. GivenAreIncluded'
  <2> SUFFICES ASSUME NEW i \in DOMAIN loads', NEW s \in Ids', s = loads'[i].sheet,
                      loads'[i].todo # <<>>
               PROVE  Range(loads'[i].given) \subseteq Range(sheets'[s].includes)
    BY DEF GivenAreIncluded
  <2>1. CASE i \in 1..n /\ loads'[i].sheet = loads[i].sheet /\ loads'[i].sheet \in Ids
    <3>1. loads[i].todo # <<>>
      <4>1. CASE i = n
        BY <1>1, <1>6, <4>1
      <4>2. CASE i # n
        <5>1. i \in 1..n - 1
          BY <1>6, <2>1, <4>2
        <5> QED
          BY <1>7, <1>8, <2>1, <5>1
      <4> QED
        BY <4>1, <4>2
    <3>2. Range(loads[i].given) \subseteq Range(sheets[s].includes)
      BY <1>1, <1>6, <2>1, <3>1 DEF GivenAreIncluded
    <3> QED
      BY <1>5, <1>7, <1>8, <2>1, <3>2
  <2>2. CASE i = n + 1 /\ loads'[i] = load
    BY <1>3, <1>4, <2>2
  <2> QED
    BY <1>9, <2>1, <2>2
<1>14. \A s \in Finished' : SheetSound(s)'
  BY <1>5, <1>11, SheetSoundStays
<1>15. AllLoadsSound'
  <2> SUFFICES ASSUME NEW i \in DOMAIN loads', NEW s \in Ids', s = loads'[i].sheet,
                      ~programHasError
               PROVE  LoadSound(i, s)'
    BY <1>1 DEF AllLoadsSound
  <2>1. CASE i \in 1..n /\ loads'[i].sheet = loads[i].sheet /\ loads'[i].sheet \in Ids
    <3>1. LoadSound(i, s)
      BY <1>6, <2>1 DEF SoundInv, AllLoadsSound
    <3>2. sheets'[s] = sheets[s]
      BY <1>5, <2>1
    <3>3. ASSUME NEW p \in Needed(s), p \in Range(loads[i].todo)
          PROVE  p \in Range(loads'[i].todo) \/ Inside(i, s, p)'
      <4>1. CASE i = n
        <5>1. p = Head(Inner.todo) \/ p \in Range(loads'[i].todo)
          BY <1>1, <1>6, <1>7, <1>8, <3>3, <4>1, RangeOfTail
        <5>2. ASSUME p = Head(Inner.todo)
              PROVE  Inside(i, s, p)'
          <6>1. NextPath = FinalPath(sheets'[s].path, p)
            BY <1>6, <2>1, <3>2, <4>1, <5>2 DEF NextPath, InnerPath
          <6>2. i + 1 \in DOMAIN loads' /\ loads'[i + 1].sheet = Fresh
            BY <1>4, <1>6, <1>8, <4>1
          <6>3. sheets'[loads'[i + 1].sheet].path = NextPath
            BY <1>3, <1>5, <6>2
          <6> QED
            BY <6>1, <6>2, <6>3 DEF Inside
        <5> QED
          BY <5>1, <5>2
      <4>2. CASE i # n
        <5>1. i \in 1..n - 1
          BY <1>6, <2>1, <4>2
        <5> QED
          BY <1>7, <1>8, <2>1, <3>3, <5>1
      <4> QED
        BY <4>1, <4>2
    <3>4. ASSUME NEW p \in Needed(s), Inside(i, s, p)
          PROVE  Inside(i, s, p)'
      <4>1. /\ i + 1 \in 1..n
            /\ sheets[loads[i + 1].sheet].path = FinalPath(sheets[s].path, p)
        BY <1>6, <3>4 DEF Inside
      <4>2. i + 1 \in DOMAIN loads' /\ loads'[i + 1].sheet = loads[i + 1].sheet
        BY <1>6, <1>7, <1>8, <4>1
      <4>3. sheets'[loads'[i + 1].sheet] = sheets[loads[i + 1].sheet]
        BY <1>5, <1>6, <4>1, <4>2
      <4> QED
        BY <3>2, <4>1, <4>2, <4>3 DEF Inside
    <3> QED
      BY <1>5, <2>1, <3>1, <3>2, <3>3, <3>4, LoadSoundStays
  <2>2. CASE i = n + 1 /\ loads'[i] = load /\ loads'[i].sheet = Fresh
    <3>1. sheets'[s].path = NextPath /\ Range(sheets'[s].includes) = {}
      BY <1>3, <1>5, <2>2
    <3>2. PICK path : path = NextPath /\ Exists(path)
      BY <1>1
    <3>3. loads'[i] = Load(path, <<>>) /\ sheets'[s].path = path
      BY <2>2, <3>1, <3>2 DEF load
    <3>4. \A t \in Range(sheets'[s].includes) : Ready(t)'
      BY <3>1
    <3>5. Exists(path)
      BY <3>2
    <3> QED
      BY <1>1, <3>3, <3>4, <3>5, LoadBegins
  <2> QED
    BY <1>9, <2>1, <2>2
<1> QED
  BY <1>2, <1>10, <1>12, <1>13, <1>14, <1>15 DEF SoundInv

(* What the end of a load does to each sheet.                              *)
LEMMA AfterLoadIs ==
  ASSUME SoundInv, loads # <<>>, NEW errors \in BOOLEAN, sheets' = AfterLoad(Inner.sheet, errors)
  PROVE  /\ Ids' = Ids
         /\ sheets'[Inner.sheet].hasErrors = errors
         /\ ~errors => sheets'[Inner.sheet].isCompiled /\ sheets'[Inner.sheet].isLinked
         /\ \A t \in Ids :
              /\ sheets'[t].path = sheets[t].path
              /\ Range(sheets[t].includes) \subseteq Range(sheets'[t].includes)
              /\ Range(sheets'[t].includes) \subseteq Range(sheets[t].includes) \union {Inner.sheet}
         /\ Range(sheets'[Inner.sheet].includes) = Range(sheets[Inner.sheet].includes)
         /\ \A t \in Finished : SheetStays(t)
         /\ \A t \in Ids : Len(loads) > 1 /\ t = loads[Len(loads) - 1].sheet =>
              Inner.sheet \in Range(sheets'[t].includes)
<1> DEFINE s == Inner.sheet
<1>1. /\ IInv /\ LoadsDistinct /\ NoneIncludedYet /\ s \in Ids /\ s \in Nat /\ s \notin Finished
      /\ Inner = loads[Len(loads)] /\ Len(loads) \in DOMAIN loads /\ DOMAIN loads = 1..Len(loads)
      /\ Len(loads) \in Nat
  BY InnerTyped, Numbers, LoadingIs DEF SoundInv, Inner
<1>2. /\ Ids' = Ids
      /\ \A t \in Ids : sheets'[t] = AfterLoad(s, errors)[t]
      /\ \A t \in Ids : sheets'[t].path = sheets[t].path
  BY <1>1, AfterLoadTyped DEF Ids
<1>3. sheets[s] \in Sheet /\ sheets'[s] = Completed(sheets[s], errors)
  BY <1>1, <1>2, Numbers DEF AfterLoad
<1>4. /\ sheets'[s].hasErrors = errors /\ sheets'[s].includes = sheets[s].includes
      /\ ~errors => sheets'[s].isCompiled /\ sheets'[s].isLinked
  BY <1>3 DEF Completed, Sheet
<1>5. Len(loads) > 1 => Len(loads) - 1 \in DOMAIN loads /\ Len(loads) - 1 # Len(loads)
  <2>1. PICK n \in Nat : n = Len(loads)
    BY <1>1
  <2>2. n > 1 => n - 1 \in 1..n /\ n - 1 # n
    BY <2>1
  <2> QED
    BY <1>1, <2>1, <2>2
<1>6. ASSUME NEW t \in Ids, t # s, t \in Range(sheets[s].includes)
      PROVE  sheets'[t].includes = sheets[t].includes /\ SheetStays(t)
  <2>1. sheets[t] \in Sheet /\ sheets'[t] = Linked(sheets[t], errors)
    BY <1>1, <1>2, <1>6, Numbers DEF AfterLoad
  <2> QED
    BY <2>1 DEF Linked, Sheet, SheetStays
<1>7. ASSUME NEW t \in Ids, t # s, t \notin Range(sheets[s].includes),
             Len(loads) > 1 /\ t = loads[Len(loads) - 1].sheet
      PROVE  /\ t \notin Finished
             /\ Range(sheets'[t].includes) = Range(sheets[t].includes) \union {s}
  <2>1. /\ sheets[t] \in Sheet /\ sheets[t].includes \in Seq(Nat)
        /\ sheets'[t] = [sheets[t] EXCEPT !.includes = Append(@, s)]
    BY <1>1, <1>2, <1>7, Numbers DEF AfterLoad, Sheet
  <2>2. sheets'[t].includes = Append(sheets[t].includes, s)
    BY <2>1 DEF Sheet
  <2>3. t \notin Finished
    BY <1>7, <1>5, LoadingIs
  <2>4. Range(Append(sheets[t].includes, s)) = Range(sheets[t].includes) \union {s}
    <3>1. s \in Nat
      BY <1>1
    <3>2. sheets[t].includes \in Seq(Nat)
      BY <2>1
    <3> QED
      BY <3>1, <3>2, RangeAppended
  <2> QED
    BY <2>2, <2>3, <2>4
<1>8. ASSUME NEW t \in Ids, t # s, t \notin Range(sheets[s].includes),
             ~(Len(loads) > 1 /\ t = loads[Len(loads) - 1].sheet)
      PROVE  sheets'[t] = sheets[t] /\ SheetStays(t)
  <2>1. sheets'[t] = sheets[t]
    BY <1>1, <1>2, <1>8 DEF AfterLoad
  <2> QED
    BY <2>1 DEF SheetStays
<1>9. ASSUME NEW t \in Ids
      PROVE  /\ Range(sheets[t].includes) \subseteq Range(sheets'[t].includes)
             /\ Range(sheets'[t].includes) \subseteq Range(sheets[t].includes) \union {s}
             /\ t \in Finished => SheetStays(t)
  BY <1>1, <1>4, <1>6, <1>7, <1>8
<1>10. ASSUME NEW t \in Ids, Len(loads) > 1, t = loads[Len(loads) - 1].sheet
      PROVE  s \in Range(sheets'[t].includes)
  <2>1. t # s
    BY <1>1, <1>10, <1>5 DEF LoadsDistinct
  <2>2. t \notin Finished
    BY <1>5, <1>10, LoadingIs
  <2>3. t \notin Range(sheets[s].includes)
    BY <1>1, <2>2 DEF NoneIncludedYet
  <2> QED
    BY <1>7, <1>10, <2>1, <2>3
<1>11. Finished \subseteq Ids
  BY LoadingIs
<1> QED
  BY <1>2, <1>4, <1>9, <1>10, <1>11

LEMMA FinishSound ==
  ASSUME SoundInv, Finish
  PROVE  SoundInv'
<1> DEFINE n == Len(loads)
           own == OwnErrors(InnerPath)
           errors == programHasError \/ own > 0
           byIncluder == IF errors /\ n > 1 THEN 1 ELSE 0
<1>1. /\ IInv /\ LoadsDistinct /\ NoneIncludedYet /\ GivenAreIncluded
      /\ loads # <<>> /\ Inner.todo = <<>> /\ disk' = disk /\ loads' = Front(loads)
      /\ sheets' = AfterLoad(Inner.sheet, errors)
      /\ programHasError' = (programHasError \/ own + byIncluder > 0)
  BY DEF SoundInv, Finish, PushErrors
<1>2. own \in Nat /\ byIncluder \in Nat /\ errors \in BOOLEAN
  BY DEF OwnErrors, SoundInv, IInv
<1>3. ~programHasError' => ~errors /\ ~programHasError
  <2> HIDE DEF own, byIncluder
  <2>1. own > 0 => own + byIncluder > 0
    BY <1>2
  <2> QED
    BY <1>1, <2>1
<1>4. IInv'
  BY <1>1, FinishKeeps
<1> HIDE DEF errors
<1>5. /\ n \in Nat \ {0} /\ n \in DOMAIN loads /\ DOMAIN loads = 1..n /\ Inner = loads[n]
      /\ Inner.sheet \in Ids /\ Inner.sheet \notin Finished /\ Finished \subseteq Ids
      /\ \A i \in 1..n : loads[i].sheet \in Ids
  BY <1>1, InnerTyped, Numbers, LoadingIs DEF Inner
<1>6. DOMAIN loads' = 1..n - 1 /\ \A i \in 1..n - 1 : loads'[i] = loads[i]
  BY <1>1, FrontTyped, LenProperties
<1>7. /\ Ids' = Ids
      /\ sheets'[Inner.sheet].hasErrors = errors
      /\ ~errors => sheets'[Inner.sheet].isCompiled /\ sheets'[Inner.sheet].isLinked
      /\ \A t \in Ids :
           /\ sheets'[t].path = sheets[t].path
           /\ Range(sheets[t].includes) \subseteq Range(sheets'[t].includes)
           /\ Range(sheets'[t].includes) \subseteq Range(sheets[t].includes) \union {Inner.sheet}
      /\ Range(sheets'[Inner.sheet].includes) = Range(sheets[Inner.sheet].includes)
      /\ \A t \in Finished : SheetStays(t)
      /\ \A t \in Ids : n > 1 /\ t = loads[n - 1].sheet =>
           Inner.sheet \in Range(sheets'[t].includes)
  BY <1>1, <1>2, AfterLoadIs
<1>8. SheetsStay
  BY <1>1, <1>7 DEF SheetsStay
<1>9. LoadsDistinct'
  <2>1. \A i \in DOMAIN loads' : i \in DOMAIN loads /\ loads'[i] = loads[i]
    BY <1>5, <1>6
  <2> QED
    BY <1>1, <2>1 DEF LoadsDistinct
<1>10. Finished' = Finished \union {Inner.sheet}
  <2>1. Loading' = Loading \ {Inner.sheet}
    <3>1. ASSUME NEW i \in DOMAIN loads'
          PROVE  loads'[i].sheet \in Loading \ {Inner.sheet}
      <4>1. i \in DOMAIN loads /\ loads'[i] = loads[i] /\ i # n
        BY <1>5, <1>6
      <4>2. loads[i].sheet # loads[n].sheet
        BY <1>1, <1>5, <4>1 DEF LoadsDistinct
      <4> QED
        BY <1>5, <4>1, <4>2 DEF Loading
    <3>2. ASSUME NEW s \in Loading, s # Inner.sheet
          PROVE  s \in Loading'
      <4>1. PICK i \in 1..n : s = loads[i].sheet
        BY <1>5 DEF Loading
      <4>2. i \in 1..n - 1
        BY <1>5, <3>2, <4>1
      <4> QED
        BY <1>6, <4>1, <4>2 DEF Loading
    <3> QED
      BY <3>1, <3>2 DEF Loading
  <2> QED
    BY <1>5, <1>7, <2>1 DEF Finished
<1>11. NoneIncludedYet'
  BY <1>1, <1>7, <1>10 DEF NoneIncludedYet
<1>12. GivenAreIncluded'
  <2> SUFFICES ASSUME NEW i \in DOMAIN loads', NEW s \in Ids', s = loads'[i].sheet,
                      loads'[i].todo # <<>>
               PROVE  Range(loads'[i].given) \subseteq Range(sheets'[s].includes)
    BY DEF GivenAreIncluded
  <2>1. i \in DOMAIN loads /\ loads'[i] = loads[i] /\ s \in Ids
    BY <1>5, <1>6, <1>7
  <2>2. Range(loads[i].given) \subseteq Range(sheets[s].includes)
    BY <1>1, <2>1 DEF GivenAreIncluded
  <2> QED
    BY <1>7, <2>1, <2>2
<1>13. PICK done : done = Inner.sheet
  OBVIOUS
<1>14. ASSUME ~errors
       PROVE  Ready(done)'
  BY <1>7, <1>13, <1>14 DEF Ready
<1>15. SheetSound(done)'
  <2> SUFFICES ASSUME ~errors
               PROVE  /\ Ready(done)' /\ Accepted(done)'
                      /\ \A t \in Range(sheets'[done].includes) : Ready(t)'
                      /\ \A p \in Needed(done)' : HasInclude(done, p)'
    BY <1>7, <1>13 DEF SheetSound
  <2>1. LoadSound(n, done)
    <3>1. ~programHasError
      BY DEF errors
    <3> QED
      BY <1>5, <1>13, <3>1 DEF SoundInv, AllLoadsSound
  <2>2. ASSUME NEW t \in Range(sheets'[done].includes)
        PROVE  Ready(t)'
    <3>1. t \in Finished /\ Ready(t)
      BY <1>1, <1>5, <1>7, <1>13, <2>1 DEF NoneIncludedYet, LoadSound
    <3> QED
      BY <1>8, <3>1, ReadyStays
  <2>3. ASSUME NEW p \in Needed(done)'
        PROVE  HasInclude(done, p)'
    <3>1. p \in Needed(done)
      BY <1>5, <1>8, <1>13, NeededStays
    <3>2. Range(loads[n].todo) = {}
      <4>1. <<>> \in Seq({})
        BY EmptySeq
      <4>2. Range(<<>>) \subseteq {}
        BY <4>1, RangeOfIds
      <4> QED
        BY <1>1, <1>5, <4>2
    <3>3. ~Inside(n, done, p)
      BY <1>5 DEF Inside
    <3>4. HasInclude(done, p)
      BY <2>1, <3>1, <3>2, <3>3 DEF LoadSound
    <3> QED
      BY <1>1, <1>5, <1>7, <1>8, <1>13, <3>4, HasIncludeStays
  <2>4. Accepted(done)'
    <3>1. Exists(sheets[done].path)
      BY <2>1 DEF LoadSound
    <3>2. OwnErrors(sheets[done].path) = 0
      <4>1. ~(own > 0)
        BY DEF errors
      <4>2. own = OwnErrors(sheets[done].path)
        BY <1>13 DEF InnerPath
      <4> QED
        BY <4>1, <4>2 DEF OwnErrors
    <3> QED
      BY <1>5, <1>8, <1>13, <3>1, <3>2, NeededStays DEF Accepted
  <2> QED
    BY <1>14, <2>2, <2>3, <2>4
<1>16. \A s \in Finished' : SheetSound(s)'
  BY <1>8, <1>10, <1>13, <1>15, SheetSoundStays
<1>17. AllLoadsSound'
  <2> SUFFICES ASSUME NEW i \in DOMAIN loads', NEW s \in Ids', s = loads'[i].sheet,
                      ~errors, ~programHasError
               PROVE  LoadSound(i, s)'
    BY <1>3 DEF AllLoadsSound
  <2>1. /\ i \in 1..n - 1 /\ i \in DOMAIN loads /\ loads'[i] = loads[i]
        /\ s \in Ids /\ s = loads[i].sheet
    BY <1>5, <1>6, <1>7
  <2>2. LoadSound(i, s)
    BY <2>1 DEF SoundInv, AllLoadsSound
  <2>3. \A t \in Range(sheets'[s].includes) \ Range(sheets[s].includes) : Ready(t)'
    BY <1>7, <1>13, <1>14, <2>1
  <2>4. ASSUME NEW p \in Needed(s), Inside(i, s, p)
        PROVE  Inside(i, s, p)' \/ HasInclude(s, p)'
    <3>1. /\ i + 1 \in 1..n /\ sheets'[s].path = sheets[s].path
          /\ sheets[loads[i + 1].sheet].path = FinalPath(sheets[s].path, p)
      BY <1>5, <1>7, <2>1, <2>4 DEF Inside
    <3>2. sheets'[loads[i + 1].sheet].path = FinalPath(sheets'[s].path, p)
      BY <1>5, <1>7, <3>1
    <3>3. CASE i + 1 = n
      <4>1. done \in Range(sheets'[s].includes)
        <5>1. n > 1 /\ i = n - 1
          BY <1>5, <2>1, <3>3
        <5> QED
          BY <1>7, <1>13, <2>1, <5>1
      <4> QED
        BY <1>5, <1>13, <3>2, <3>3, <4>1 DEF HasInclude
    <3>4. CASE i + 1 # n
      <4>1. i + 1 \in DOMAIN loads' /\ loads'[i + 1] = loads[i + 1]
        BY <1>5, <1>6, <3>1, <3>4
      <4> QED
        BY <3>2, <4>1 DEF Inside
    <3> QED
      BY <3>3, <3>4
  <2> QED
    BY <1>7, <1>8, <2>1, <2>2, <2>3, <2>4, LoadSoundStays
<1> QED
  BY <1>4, <1>9, <1>11, <1>12, <1>16, <1>17 DEF SoundInv

LEMMA SoundInitially == Init => SoundInv
<1> SUFFICES ASSUME Init
             PROVE  SoundInv
  OBVIOUS
<1>1. sheets = <<>> /\ loads = <<>> /\ DOMAIN sheets = {} /\ DOMAIN loads = {}
  BY DEF Init
<1> QED
  BY <1>1, Initially
     DEF SoundInv, LoadsDistinct, NoneIncludedYet, GivenAreIncluded, AllLoadsSound, Ids, Finished

LEMMA NextKeepsSound == SoundInv /\ [Next]_vars => SoundInv'
<1> SUFFICES ASSUME SoundInv, [Next]_vars
             PROVE  SoundInv'
  OBVIOUS
<1>1. CASE IncludeGiven
  BY <1>1, IncludeGivenSound
<1>2. CASE IncludeCircular
  BY <1>2, IncludeCircularSound
<1>3. CASE IncludeMissing
  BY <1>3, IncludeMissingSound
<1>4. CASE Include
  BY <1>4, IncludeSound
<1>5. CASE Finish
  BY <1>5, FinishSound
<1>6. CASE \E path \in HostPaths, given \in Givens : HostLoad(path, given)
  BY <1>6, HostLoadSound
<1>7. CASE UNCHANGED vars
  <2>1. SheetsStay /\ Ids' = Ids /\ Loading' = Loading /\ Finished' = Finished
    BY <1>7 DEF vars, SheetsStay, SheetStays, Ids, Loading, Finished
  <2>2. IInv'
    BY <1>7, NextKeeps DEF SoundInv
  <2>3. \A s \in Finished' : SheetSound(s)'
    BY <2>1, SheetSoundStays
  <2>4. LoadsDistinct' /\ NoneIncludedYet' /\ GivenAreIncluded'
    BY <1>7, <2>1 DEF vars, SoundInv, LoadsDistinct, NoneIncludedYet, GivenAreIncluded
  <2>5. AllLoadsSound'
    <3> SUFFICES ASSUME NEW i \in DOMAIN loads, NEW s \in Ids, s = loads[i].sheet, ~programHasError
                 PROVE  LoadSound(i, s)'
      BY <1>7, <2>1 DEF vars, AllLoadsSound
    <3>1. LoadSound(i, s)
      BY DEF SoundInv, AllLoadsSound
    <3>2. \A p : Inside(i, s, p) => Inside(i, s, p)'
      BY <1>7 DEF vars, Inside
    <3> QED
      BY <1>7, <2>1, <3>1, <3>2, LoadSoundStays DEF vars
  <2> QED
    BY <2>2, <2>3, <2>4, <2>5 DEF SoundInv
<1> QED
  BY <1>1, <1>2, <1>3, <1>4, <1>5, <1>6, <1>7 DEF Next, Loader

(* A file in which the compiler finds nothing was read, or is an object    *)
(* file that could not be.                                                 *)
LEMMA AcceptedIsRead ==
  ASSUME IInv, NEW s, Accepted(s), ~Damaged(s)
  PROVE  IsRead(s) /\ ToInclude(sheets[s].path) = IncludesOf(sheets[s].path)
<1> DEFINE path == sheets[s].path
<1>1. Exists(path) /\ KindOf(path) # "badObject" /\ OwnErrors(path) = 0
  BY DEF Accepted, Damaged
<1>2. KindOf(path) \in Kinds
  <2>1. Resolve(path) \in DOMAIN disk /\ disk \in Disks
    BY <1>1 DEF Exists, IInv
  <2> QED
    BY <2>1, DisksAssumption DEF KindOf
<1>3. KindOf(path) \notin {"badSyntax", "badSemantics"}
  BY <1>1 DEF OwnErrors
<1> HIDE DEF path
<1>4. KindOf(path) \in {"source", "object"}
  BY <1>1, <1>2, <1>3 DEF Kinds
<1>5. ToInclude(path) = IncludesOf(path)
  BY <1>4 DEF ToInclude, ReachesIncludes
<1> QED
  BY <1>1, <1>4, <1>5 DEF IsRead, path

(***************************************************************************)
(* A sheet that was loaded without errors can be run, and so can all it    *)
(* includes; nothing its file includes is left out (decision.c:306-342,    *)
(* dsemantic.c:306).  The one exception, among sheets and among includes,  *)
(* is an object file that could not be read.  It is proved of the sheets   *)
(* and the loads together.                                                 *)
(***************************************************************************)
THEOREM IncludesSound == Spec => []SoundIncludes
<1>1. ASSUME SoundInv
      PROVE  SoundIncludes
  <2> SUFFICES ASSUME NEW s \in Finished, ~sheets[s].hasErrors, ~Damaged(s)
               PROVE  /\ Runnable(s)
                      /\ \A t \in Range(sheets[s].includes) : Damaged(t) \/ Runnable(t)
                      /\ \A p \in Range(IncludesOf(sheets[s].path)) : HasInclude(s, p)
    BY DEF SoundIncludes
  <2>1. /\ IInv /\ s \in Ids /\ NoneIncludedYet /\ Ready(s) /\ Accepted(s)
        /\ \A t \in Range(sheets[s].includes) : Ready(t)
        /\ \A p \in Needed(s) : HasInclude(s, p)
    BY <1>1 DEF SoundInv, SheetSound, Finished
  <2>2. Runnable(s) /\ Needed(s) = Range(IncludesOf(sheets[s].path))
    BY <2>1, AcceptedIsRead DEF Runnable, Needed
  <2>3. ASSUME NEW t \in Range(sheets[s].includes), ~Damaged(t)
        PROVE  Runnable(t)
    <3>1. t \in Finished /\ Ready(t)
      BY <2>1 DEF NoneIncludedYet
    <3>2. Accepted(t)
      BY <1>1, <3>1 DEF SoundInv, SheetSound, Ready
    <3> QED
      BY <2>1, <2>3, <3>1, <3>2, AcceptedIsRead DEF Runnable
  <2> QED
    BY <2>1, <2>2, <2>3
<1> QED
  BY <1>1, SoundInitially, NextKeepsSound, PTL DEF Spec
=============================================================================
