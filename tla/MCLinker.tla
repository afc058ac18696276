------------------------------ MODULE MCLinker ------------------------------
(***************************************************************************)
(* A library in two versions, a sheet on top of it, one on top of both,    *)
(* and a C function.                                                       *)
(***************************************************************************)
EXTENDS Linker

Name(n) == [kind |-> "name", name |-> n]
Text(t) == [kind |-> "text", name |-> t]
Var(n, type, value) == [name |-> n, type |-> type, value |-> value]
Func(n, uses)       == [name |-> n, uses |-> uses]
SourceOf(path, vs, fs, cs, start, incl) ==
  [path |-> path, vars |-> vs, funcs |-> fs, cFuncs |-> cs, start |-> start, incl |-> incl]

Lib    == SourceOf("lib", <<Var("n", "Integer", 1), Var("s", "String", "hi")>>,
                   <<Func("f", <<Name("n"), Text("ho"), Name("g")>>), Func("g", <<Name("s")>>)>>,
                   <<>>, <<>>, <<>>)
(* The next version of it has one function less, and another order.        *)
NewLib == SourceOf("lib", <<Var("s", "String", "yo"), Var("n", "Integer", 2)>>,
                   <<Func("f", <<Name("s")>>)>>, <<>>, <<>>, <<>>)
Mid    == SourceOf("mid", <<Var("m", "String", "hi")>>, <<Func("h", <<Name("f"), Name("m")>>)>>,
                   <<>>, <<Name("h"), Name("n"), Name("s"), Text("hi")>>, <<"lib">>)
Own    == SourceOf("mid", <<Var("n", "Integer", 3)>>, <<>>, <<>>, <<Name("g")>>, <<"lib">>)
Top    == SourceOf("top", <<>>, <<>>, <<>>, <<Name("n"), Name("h"), Name("g")>>, <<"mid">>)
Both   == SourceOf("top", <<>>, <<>>, <<>>, <<Name("s")>>, <<"mid", "lib">>)
Host   == SourceOf("host", <<>>, <<>>, <<[name |-> "c"]>>, <<>>, <<>>)
User   == SourceOf("top", <<>>, <<>>, <<>>, <<Name("c")>>, <<"host">>)

SourcesOfRun == {Lib, NewLib, Mid, Own, Top, Both, Host, User}
SourcesOfClaim == {Host, User}
=============================================================================
