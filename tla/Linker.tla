------------------------------- MODULE Linker -------------------------------
(***************************************************************************)
(* From names to addresses: how a sheet finds what its code refers to.     *)
(* Names are looked up in dname.c; dcodegen.c lays out the data section    *)
(* and lists what the instructions refer to; dlink.c writes addresses into *)
(* them; and dobj.c saves a sheet to an object file, from which another    *)
(* process loads it at other addresses and with other includes.            *)
(*                                                                         *)
(* Of the code of a sheet only the operands that need linking are kept,    *)
(* and one instruction at the start of each function.  A cell of the data  *)
(* section is a text, or a variable, whose value is a number or an address.*)
(***************************************************************************)
EXTENDS Integers, Sequences, FiniteSets, SequencesExt, Eagerly

CONSTANTS
  Sources,      \* what a source file may hold
  MaxSheets,    \* bound: the sheets that are made, in all processes
  MaxObjects    \* bound: the object files that are written

ASSUME BoundsAssumption == MaxSheets \in Nat /\ MaxObjects \in Nat

Listed(s) == Len(s) \in Nat /\ s = [i \in 1..Len(s) |-> s[i]]

(* A use is a name or a text that an instruction refers to.                *)
AreUses(uses) == Listed(uses) /\ \A use \in Range(uses) : use.kind \in {"name", "text"}

ASSUME SourcesAssumption ==
  \A s \in Sources :
    /\ Listed(s.vars) /\ \A v \in Range(s.vars) : v.type \in {"Integer", "String"}
    /\ Listed(s.funcs) /\ \A f \in Range(s.funcs) : AreUses(f.uses)
    /\ Listed(s.cFuncs) /\ Listed(s.incl) /\ AreUses(s.start)

VARIABLES
  live,      \* the sheets of the process, by the order in which they were made
  made,      \* how many were made: no two are at the same address
  objects,   \* the object files
  crashed    \* how a process ended: "no", "missing" if a name of an object is
             \* defined nowhere in its includes, "other" if it was not that

vars == <<live, made, objects, crashed>>

-----------------------------------------------------------------------------
(* A pointer is -1, an index into the sheet's own data or text, or an      *)
(* address in some sheet.                                                  *)
NotFound                == [sheet |-> 0, in |-> "nowhere", at |-> 0]
Number(n)               == [sheet |-> 0, in |-> "nothing", at |-> n]
Index(n)                == [sheet |-> 0, in |-> "itself", at |-> n]
Address(id, section, n) == [sheet |-> id, in |-> section, at |-> n]

(* sheet->_data + ptr, sheet->_text + ptr                                  *)
Plus(id, section, ptr) == Address(id, section, ptr.at)

Unknown == [kind |-> "unknown", sheet |-> 0, index |-> 0]

d_link_new_meta(type, name, meta) ==
  [type |-> type, name |-> name, meta |-> meta, ptr |-> NotFound]

(* The first entry of that type and name, 0 if there is none.              *)
EntryOf(link, type, name) ==
  SelectInSeq(link, LAMBDA l : l.type = type /\ l.name = name)

(* The sheets that a recursion from sheet id over the includes comes by,   *)
(* in its order: a sheet that is reached twice is there twice.             *)
Visits(mem, id) ==
  LET from[i \in DOMAIN mem] ==
        <<i>> \o FlattenSeq([j \in DOMAIN mem[i].includes |-> from[mem[i].includes[j]]])
  IN  from[id]

(* The sheets that id is made of.                                          *)
Within(mem, id) == Range(Visits(mem, id))

DefinedAt(mem, id, name) ==
  LET Of(kind, list) == {[kind |-> kind, sheet |-> id, index |-> i] :
                           i \in {j \in DOMAIN list : list[j].name = name}}
  IN  Of("variable", mem[id].vars) \union Of("function", mem[id].funcs)
        \union Of("cFunction", mem[id].cFuncs)

(* All definitions of a name, in the sheet and in what it includes, each   *)
(* as often as it is come by.                                              *)
d_get_name_definitions(mem, id, name) ==
  LET visits == Visits(mem, id)
  IN  UNION {{<<k, d>> : d \in DefinedAt(mem, visits[k], name)} : k \in DOMAIN visits}

d_get_definition(mem, id, name) ==
  LET all == d_get_name_definitions(mem, id, name)
  IN  IF \E one \in all : all = {one} THEN (CHOOSE one \in all : TRUE)[2] ELSE Unknown

VariableLink(v) == IF v.type = "String" THEN "POINTER" ELSE "VARIABLE"
LinkTypeOf(mem, d) ==
  CASE d.kind = "variable"  -> VariableLink(mem[d.sheet].vars[d.index])
    [] d.kind = "function"  -> "FUNCTION"
    [] d.kind = "cFunction" -> "CFUNCTION"

-----------------------------------------------------------------------------
(***************************************************************************)
(* Compiling sheet id of memory mem, as far as linking goes.  A sheet's    *)
(* link entries are found by type and name, and exist once.                *)
(***************************************************************************)
d_add_link_to_ins(c, meta, use) ==
  LET had  == EntryOf(c.link, meta.type, meta.name)
      link == IF had = 0 THEN Append(c.link, meta) ELSE c.link
  IN  [c EXCEPT !.link = link,
                !.text = Append(@, [of |-> "", imm |-> NotFound]),
                !.insLinks = Append(@, [ins |-> Len(c.text) + 1, use |-> use,
                  link |-> IF had = 0 THEN Len(link) ELSE had])]

d_allocate_from_data_section(c, is, of, val) ==
  [c EXCEPT !.data = Append(@, [is |-> is, of |-> of, val |-> val])]

(* A text is stored once; its place is known from its link entry.          *)
d_allocate_string_literal_in_data(c, text) ==
  IF EntryOf(c.link, "LITERAL", text) # 0 THEN c
  ELSE d_allocate_from_data_section(
         [c EXCEPT !.link = Append(@, [d_link_new_meta("LITERAL", text, Unknown)
                                         EXCEPT !.ptr = Index(Len(c.data) + 1)])],
         "text", text, NotFound)

(* The cell of a string variable is filled in when the sheet is linked.    *)
d_allocate_variable(c, id, i) ==
  LET v == c.vars[i]
      Entry(type) == d_link_new_meta(type, v.name, [kind |-> "variable", sheet |-> id, index |-> i])
      own == [Entry(VariableLink(v)) EXCEPT !.ptr = Index(Len(c.data) + 1)]
      Cell(val, entries) == d_allocate_from_data_section(
                              [c EXCEPT !.link = @ \o entries], "variable", v.name, val)
      Found(d) == [d EXCEPT !.link[EntryOf(d.link, "DEFAULT", v.name)].ptr =
                              d.link[EntryOf(d.link, "LITERAL", v.value)].ptr]
  IN  IF v.type = "Integer" THEN Cell(Number(v.value), <<own>>)
      ELSE Found(d_allocate_string_literal_in_data(Cell(NotFound, <<own, Entry("DEFAULT")>>), v.value))

Begun(c, name) == [c EXCEPT !.text = Append(@, [of |-> name, imm |-> NotFound])]

AddUse(mem, c, id, use) ==
  LET def == d_get_definition(mem, id, use.name)
  IN  IF use.kind = "text"
      THEN d_add_link_to_ins(d_allocate_string_literal_in_data(c, use.name),
                             d_link_new_meta("LITERAL", use.name, Unknown), use)
      ELSE d_add_link_to_ins(c, d_link_new_meta(LinkTypeOf(mem, def), use.name, def), use)

Uses(mem, c, id, uses) == AfterAll(c, uses, LAMBDA d, use : AddUse(mem, d, id, use))

(* A function may be called before its own place is known.                 *)
AddFunction(mem, c, id, i) ==
  LET f == c.funcs[i]
      Entered(d) ==
        IF EntryOf(d.link, "FUNCTION", f.name) # 0 THEN d
        ELSE [d EXCEPT !.link = Append(@, d_link_new_meta("FUNCTION", f.name,
                [kind |-> "function", sheet |-> id, index |-> i]))]
      At(d) == [d EXCEPT !.link[EntryOf(d.link, "FUNCTION", f.name)].ptr = Index(Len(c.text) + 1)]
  IN  At(Entered(Uses(mem, Begun(c, f.name), id, f.uses)))

Variables(c, id) ==
  AfterAll(c, [i \in DOMAIN c.vars |-> i], LAMBDA d, i : d_allocate_variable(d, id, i))

CustomFunctions(mem, c, id) ==
  AfterAll(c, [i \in DOMAIN c.funcs |-> i], LAMBDA d, i : AddFunction(mem, d, id, i))

d_codegen_compile(mem, id, start) ==
  Uses(mem, Begun(CustomFunctions(mem, Variables(mem[id], id), id), "Start"), id, start)

(* A name that is not defined exactly once is an error, where it is used   *)
(* and where a function of that name is defined; so are two variables of   *)
(* one name.                                                               *)
HasErrors(mem, id, start) ==
  LET s     == mem[id]
      uses  == Range(start) \union UNION {Range(f.uses) : f \in Range(s.funcs)}
      names == {u.name : u \in {v \in uses : v.kind = "name"}} \union {f.name : f \in Range(s.funcs)}
  IN  \/ \E name \in names : d_get_definition(mem, id, name) = Unknown
      \/ \E i, j \in DOMAIN s.vars : i # j /\ s.vars[i].name = s.vars[j].name

-----------------------------------------------------------------------------
(* The linker.  An entry loaded from an object file may not know where the *)
(* thing is: it is where an include both lists the name with a place and   *)
(* defines it.                                                             *)
DefinedIn(mem, id, l) ==
  LET s    == mem[id]
      kind == IF l.type = "FUNCTION" THEN "function" ELSE "variable"
      i    == SelectInSeq(IF kind = "function" THEN s.funcs ELSE s.vars, LAMBDA d : d.name = l.name)
      e    == EntryOf(s.link, l.type, l.name)
  IN  IF l.type \in {"FUNCTION", "VARIABLE", "POINTER"} /\ e # 0 /\ s.link[e].ptr # NotFound /\ i # 0
      THEN [kind |-> kind, sheet |-> id, index |-> i]
      ELSE Unknown

(* Mutant: only the sheet's own includes are searched.                     *)
FindInIncludes(mem, id, l) ==
  LET includes == mem[id].includes
      found == {j \in DOMAIN includes : DefinedIn(mem, includes[j], l) # Unknown}
  IN  IF found = {} THEN Unknown ELSE DefinedIn(mem, includes[Min(found)], l)

(* The first that is come by behind the sheet itself.                      *)
recursive_find_link_meta(mem, id, l) ==
  LET visits == Visits(mem, id)
      found  == {k \in 2..Len(visits) : DefinedIn(mem, visits[k], l) # Unknown}
  IN  IF found = {} THEN Unknown ELSE DefinedIn(mem, visits[Min(found)], l)

OnEntries(mem, id, Op(_)) ==
  LET link == mem[id].link
  IN  [mem EXCEPT ![id].link = [k \in DOMAIN link |-> Op(link[k])]]

(* Mutant: the addresses of C functions are left out.                      *)
ElsewhereInData(l) == l.ptr = NotFound /\ l.type # "CFUNCTION"

(* In another castle?                                                      *)
Elsewhere(l) == l.ptr = NotFound

d_link_find_included(mem, id) ==
  OnEntries(mem, id, LAMBDA l :
    IF Elsewhere(l) /\ l.meta = Unknown
    THEN [l EXCEPT !.meta = recursive_find_link_meta(mem, id, l)] ELSE l)

(* The place of a thing of another sheet, from that sheet's own entry.     *)
d_link_precalculate_ptr(mem, id) ==
  LET Theirs(l) == LET link == mem[l.meta.sheet].link
                   IN  link[EntryOf(link, l.type, l.name)].ptr
      Place(l)  == CASE l.type \in {"VARIABLE", "POINTER"} -> Plus(l.meta.sheet, "data", Theirs(l))
                     [] l.type = "FUNCTION"  -> Plus(l.meta.sheet, "text", Theirs(l))
                     [] l.type = "CFUNCTION" -> Address(l.meta.sheet, "c", l.meta.index)
                     [] OTHER                -> l.ptr
  IN  OnEntries(mem, id, LAMBDA l : IF Elsewhere(l) THEN [l EXCEPT !.ptr = Place(l)] ELSE l)

(* Mutant: the cells of string variables are left as they are.             *)
StringsLeft(s, id) == s.data

(* The string variables are given the addresses of their default values.   *)
Strings(s, id) ==
  LET DefaultOf(k) == {d \in Range(s.link) : d.type = "DEFAULT" /\
                        LET e == EntryOf(s.link, "POINTER", d.name) IN e # 0 /\ s.link[e].ptr.at = k}
  IN  [k \in DOMAIN s.data |->
        IF DefaultOf(k) = {} THEN s.data[k]
        ELSE [s.data[k] EXCEPT !.val = Plus(id, "data", (CHOOSE d \in DefaultOf(k) : TRUE).ptr)]]

Operand(id, l) ==
  LET own == l.type = "LITERAL" \/ l.meta.sheet = id
  IN  CASE l.type \in {"LITERAL", "VARIABLE", "POINTER"} /\ own -> Plus(id, "data", l.ptr)
        [] l.type = "FUNCTION" /\ own                          -> Plus(id, "text", l.ptr)
        [] OTHER                                               -> l.ptr

(* The instructions are given what the entries they are linked to say.     *)
Operands(s, id) ==
  LET At(j) == {k \in Range(s.insLinks) : k.ins = j}
  IN  [j \in DOMAIN s.text |->
        IF At(j) = {} THEN s.text[j]
        ELSE [s.text[j] EXCEPT !.imm = Operand(id, s.link[(CHOOSE k \in At(j) : TRUE).link])]]

d_link_self(s, id) ==
  IF s.isCompiled THEN [s EXCEPT !.text = Operands(s, id), !.data = Strings(s, id)] ELSE s

(* Mutant: the includes of the includes are linked again as well.          *)
LinkAllBelow(mem, id) ==
  [i \in DOMAIN mem |-> IF i \in Within(mem, id) \ {id} THEN d_link_self(mem[i], i) ELSE mem[i]]

(* To link a sheet twice changes nothing more.                             *)
d_link_includes_recursive(mem, id) ==
  [i \in DOMAIN mem |-> IF i \in Range(mem[id].includes) THEN d_link_self(mem[i], i) ELSE mem[i]]

(* An entry without a definition is dereferenced all the same.             *)
Crashes(mem, id) ==
  \E l \in Range(mem[id].link) :
    Elsewhere(l) /\ l.meta = Unknown /\ l.type \in {"VARIABLE", "POINTER", "FUNCTION"}

-----------------------------------------------------------------------------
NewSheet(path, includes) ==
  [path |-> path, includes |-> includes, vars |-> <<>>, funcs |-> <<>>, cFuncs |-> <<>>,
   text |-> <<>>, data |-> <<>>, link |-> <<>>, insLinks |-> <<>>,
   hasErrors |-> FALSE, isCompiled |-> FALSE, loaded |-> FALSE]

With(sheet) ==
  [i \in DOMAIN live \union {made + 1} |-> IF i = made + 1 THEN sheet ELSE live[i]]

(* Sheets of the process for the paths a sheet includes.                   *)
Includable(paths) ==
  {ids \in [DOMAIN paths -> DOMAIN live] :
     \A i \in DOMAIN paths : live[ids[i]].path = paths[i] /\ ~live[ids[i]].hasErrors}

Fits == made < MaxSheets /\ crashed = "no"

(* The last part of a load.                                                *)
d_link_sheet(mem, id) ==
  LET found  == d_link_find_included(mem, id)
      placed == d_link_precalculate_ptr(found, id)
  IN  d_link_includes_recursive([placed EXCEPT ![id] = d_link_self(@, id)], id)

(* d_load_string.  The C functions are those the host has added.           *)
LoadSource(source, includes) ==
  LET id   == made + 1
      new  == [NewSheet(source.path, includes) EXCEPT !.vars = source.vars,
                 !.funcs = source.funcs, !.cFuncs = source.cFuncs]
      compiled == [d_codegen_compile(With(new), id, source.start) EXCEPT !.isCompiled = TRUE]
  IN  /\ Fits
      /\ live' = IF HasErrors(With(new), id, source.start)
                 THEN With([new EXCEPT !.hasErrors = TRUE])
                 ELSE d_link_sheet(With(compiled), id)
      /\ made' = id
      /\ UNCHANGED <<objects, crashed>>

(* The VM sets a variable: to another number, or to a text of its sheet.   *)
Assign(id, k) ==
  LET e    == live[id].link[k]
      cell == live[id].data[e.ptr.at]
      texts == {Address(id, "data", j) : j \in {i \in DOMAIN live[id].data :
                                                 live[id].data[i].is = "text"}}
  IN  /\ crashed = "no" /\ live[id].isCompiled
      /\ e.type \in {"VARIABLE", "POINTER"} /\ e.meta.sheet = id
      /\ \E val \in IF e.type = "VARIABLE" THEN {Number(7)} ELSE texts :
           live' = [live EXCEPT ![id].data[e.ptr.at].val = val]
      /\ UNCHANGED <<made, objects, crashed>>

(***************************************************************************)
(* Saving: what belongs to another sheet is saved without its place; the   *)
(* data section is saved as it is, with the addresses in it.               *)
(***************************************************************************)
(* Mutant: functions are forgotten.                                        *)
ExternalVariable(id, l) == l.type \in {"VARIABLE", "POINTER"} /\ l.meta.sheet # id

External(id, l) == l.type \in {"VARIABLE", "POINTER", "FUNCTION"} /\ l.meta.sheet # id

d_obj_generate(id) ==
  LET s == live[id]
      Saved(l) == [type |-> l.type, name |-> l.name,
                   ptr |-> IF External(id, l) THEN NotFound ELSE l.ptr]
  IN  [path |-> s.path, text |-> s.text, data |-> s.data, insLinks |-> s.insLinks,
       lmeta |-> [k \in DOMAIN s.link |-> Saved(s.link[k])],
       func  |-> [i \in DOMAIN s.funcs |-> [link |-> EntryOf(s.link, "FUNCTION", s.funcs[i].name),
                                            uses |-> s.funcs[i].uses]],
       var   |-> [i \in DOMAIN s.vars |-> [type |-> s.vars[i].type,
                   link |-> EntryOf(s.link, VariableLink(s.vars[i]), s.vars[i].name)]],
       incl  |-> [i \in DOMAIN s.includes |-> live[s.includes[i]].path]]

Save(id) ==
  /\ crashed = "no" /\ live[id].isCompiled /\ live[id].cFuncs = <<>>
  /\ d_obj_generate(id) \notin objects
  /\ Cardinality(objects) < MaxObjects
  /\ objects' = objects \union {d_obj_generate(id)}
  /\ UNCHANGED <<live, made, crashed>>

(***************************************************************************)
(* Loading: the entries that are the sheet's own are told so by the .func  *)
(* and .var sections, which name them by their index, and the default      *)
(* value of a variable is what the data section holds.                     *)
(***************************************************************************)
d_obj_load(o, includes, id) ==
  LET Name(e) == o.lmeta[e.link].name
      Default(v) == LET e == EntryOf(o.lmeta, "DEFAULT", Name(v))
                    IN  IF v.type = "String" THEN o.data[o.lmeta[e].ptr.at].of
                                             ELSE o.data[o.lmeta[v.link].ptr.at].val.at
      Own(section, k) == \E i \in DOMAIN section : section[i].link = k
      OwnAt(section, k) == CHOOSE i \in DOMAIN section : section[i].link = k
      Meta(k) == CASE Own(o.func, k) -> [kind |-> "function", sheet |-> id, index |-> OwnAt(o.func, k)]
                   [] Own(o.var, k)  -> [kind |-> "variable", sheet |-> id, index |-> OwnAt(o.var, k)]
                   [] OTHER          -> Unknown
  IN  [NewSheet(o.path, includes) EXCEPT
        !.text = o.text, !.data = o.data, !.insLinks = o.insLinks,
        !.funcs = [i \in DOMAIN o.func |-> [name |-> Name(o.func[i]), uses |-> o.func[i].uses]],
        !.vars = [i \in DOMAIN o.var |-> [name |-> Name(o.var[i]), type |-> o.var[i].type,
                                          value |-> Default(o.var[i])]],
        !.link = [k \in DOMAIN o.lmeta |->
                   [d_link_new_meta(o.lmeta[k].type, o.lmeta[k].name, Meta(k))
                      EXCEPT !.ptr = o.lmeta[k].ptr]],
        !.isCompiled = TRUE, !.loaded = TRUE]

(* C functions are looked up by name, as they have no section.             *)
CFunctionsFound(mem, id) ==
  OnEntries(mem, id, LAMBDA l :
    IF l.type # "CFUNCTION" THEN l
    ELSE [l EXCEPT !.meta = LET d == d_get_definition(mem, id, l.name)
                            IN  IF d.kind = "cFunction" THEN d ELSE Unknown])

(* What a name may mean in a sheet.                                        *)
Meant(mem, id, name) == UNION {DefinedAt(mem, i, name) : i \in Within(mem, id)}

Missing(mem, id) ==
  \E l \in Range(mem[id].link) :
    l.ptr = NotFound /\ \A d \in Meant(mem, id, l.name) : LinkTypeOf(mem, d) # l.type

LoadObject(o, includes) ==
  LET id == made + 1
  IN  /\ Fits
      /\ LET mem == CFunctionsFound(With(d_obj_load(o, includes, id)), id) IN
           \/ /\ ~Crashes(d_link_find_included(mem, id), id)
              /\ live' = d_link_sheet(mem, id)
              /\ UNCHANGED crashed
           \/ /\ Crashes(d_link_find_included(mem, id), id)
              /\ live' = <<>>
              /\ crashed' = IF Missing(mem, id) THEN "missing" ELSE "other"
      /\ made' = id
      /\ UNCHANGED objects

(* The process ends; the object files stay.                                *)
Exit == live # <<>> /\ live' = <<>> /\ UNCHANGED <<made, objects, crashed>>

Init == live = <<>> /\ made = 0 /\ objects = {} /\ crashed = "no"

Next ==
  \/ \E source \in Sources : \E includes \in Includable(source.incl) : LoadSource(source, includes)
  \/ \E o \in objects : \E includes \in Includable(o.incl) : LoadObject(o, includes)
  \/ \E id \in DOMAIN live : Save(id) \/ \E k \in DOMAIN live[id].link : Assign(id, k)
  \/ Exit

Spec == Init /\ [][Next]_vars

-----------------------------------------------------------------------------
Ready == {id \in DOMAIN live : live[id].isCompiled}

TypeOK ==
  /\ made \in 0..MaxSheets /\ DOMAIN live \subseteq 1..made
  /\ crashed \in {"no", "missing", "other"}
  /\ \A id \in Ready :
       /\ \A k \in Range(live[id].insLinks) : k.ins \in DOMAIN live[id].text
                                           /\ k.link \in DOMAIN live[id].link
       /\ \A l \in Range(live[id].link) : l.ptr # NotFound

(* a is the address of what d defines.                                     *)
IsAt(a, d) ==
  LET s == live[d.sheet]
  IN  /\ a.sheet = d.sheet
      /\ CASE d.kind = "variable"  -> /\ a.in = "data" /\ s.data[a.at].is = "variable"
                                     /\ s.data[a.at].of = s.vars[d.index].name
           [] d.kind = "function"  -> a.in = "text" /\ s.text[a.at].of = s.funcs[d.index].name
           [] d.kind = "cFunction" -> a.in = "c" /\ a.at = d.index

(* Every operand of a linked sheet is the address of what its name means,  *)
(* or of the text that was written, in whatever order sheets were loaded,  *)
(* saved and linked again; and in a sheet from source no name that is used *)
(* means two things.  For the calls of C functions from an object see      *)
(* InstructionsRelocated.                                                  *)
OperandsRight ==
  \A id \in Ready : \A k \in Range(live[id].insLinks) :
    LET s == live[id]
        a == s.text[k.ins].imm
        meant == Meant(live, id, k.use.name)
    IN  IF k.use.kind = "text"
        THEN a.sheet = id /\ a.in = "data" /\ s.data[a.at].is = "text" /\ s.data[a.at].of = k.use.name
        ELSE \/ s.loaded /\ s.link[k.link].type = "CFUNCTION"
             \/ \E d \in meant : IsAt(a, d) /\ (s.loaded \/ meant = {d})

(* The string variables of every sheet hold the address of a text in a     *)
(* sheet of this process.                                                  *)
StringsAreTexts ==
  \A id \in Ready : \A i \in DOMAIN live[id].vars :
    live[id].vars[i].type = "String" =>
      \E c \in Range(live[id].data) :
        /\ c.is = "variable" /\ c.of = live[id].vars[i].name
        /\ c.val.sheet \in Ready /\ c.val.in = "data"
        /\ live[c.val.sheet].data[c.val.at].is = "text"

(* Loading an object crashes only if a name it uses is defined nowhere.    *)
CrashIsMissing == crashed # "other"

(* A load changes no variable of the sheets that are there, other than the *)
(* string variables of the sheets it includes itself.                      *)
LoadKeepsVariables ==
  [][made' # made => \A id \in DOMAIN live \intersect DOMAIN live' :
       \A k \in DOMAIN live[id].data :
         \/ live'[id].data[k] = live[id].data[k]
         \/ id \in Range(live'[made'].includes) /\ \E v \in Range(live[id].vars) :
              v.type = "String" /\ v.name = live[id].data[k].of]_vars
=============================================================================
