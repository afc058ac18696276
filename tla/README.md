# Decision: a TLA+ model of the compiler and the virtual machine

Decision is a visual scripting language. A *sheet* is a source file (or an
object file) that describes a graph of nodes and wires. The library in `src/src`
compiles sheets to bytecode, links them with the sheets they include, runs them
on a small stack machine and lets a host program debug them. This directory
holds TLA+ modules that are translated from that code, TLC runs that check them
on small instances, and proofs for TLAPS.

Paths like `dvm.c:997` are relative to `src/src/`.

    tlc -config DecisionVM.cfg    MCDecisionVM      # about 15 s
    tlc -config DebugSession.cfg  MCDebugSession    # about 10 s
    tlc -config SheetLoader.cfg   MCSheetLoader     # about 65 s
    tlc -config GraphWires.cfg    MCGraphWires      # about 30 s
    tlc -config Optimizer.cfg     MCOptimizer       # about 1 min
    tlc -config TypeReduction.cfg MCTypeReduction   # about 50 s
    tlc -config SemanticGraph.cfg MCSemanticGraph   # about 20 s
    tlc -config GeneratedCode.cfg MCGeneratedCode   # about 10 s
    tlc -config Linker.cfg        MCLinker          # about 70 s
    tlapm DecisionVMProofs.tla                      # about 2 min
    tlapm SheetLoaderProofs.tla                     # about 1 min
    tlapm GraphWiresProofs.tla                      # about 1 min
    tlapm OptimizerProofs.tla                       # about 6 min
    tlapm TypeReductionProofs.tla                   # about 1 min
    tlapm SemanticGraphProofs.tla                   # about 2 min
    tlapm DebugSessionProofs.tla                    # about 1 min
    tlapm LinkerProofs.tla                          # about 9 min

## 1. The parts of the system

| part | source | state | operations | talks to |
|---|---|---|---|---|
| virtual machine | `dvm.c` | one stack (`basePtr`, `stackPtr`, `framePtr`, `stackSize`), `pc`, `halted`, `runtimeError` | instructions, the stack functions for C functions and hosts, run, reset, free | runs bytecode of a sheet; calls C functions through `dcfunc.c`; is stepped by the debugger |
| debugger | `ddebug.c` | a machine, the agenda, a stack of sheets with counts of internal calls, `breakpointHit` | create, continue, stop | steps the machine one instruction at a time, calls the host's callbacks, reads the debug information the code generator left |
| loading | `decision.c`, `dsheet.c`, `derror.c` | sheets and their includes, the priors of the load in progress; one error list and one error flag for the process | load a file, a string, an object file; add an include; report and free errors | recursion through `dsemantic.c` (Include property) and `dobj.c` (include section) |
| graph | `dgraph.c` | sorted array of wires, nodes and their definitions | add a node, add a wire, find the wires of a socket | filled by semantic analysis, searched by it and by the code generator |
| semantic analysis | `dsemantic.c` | properties, the graph, reduced types, "visited" marks | scan properties, variables, functions, nodes; reduce types; find loops and missing returns | includes sheets, adds wires, pushes errors |
| code generator | `dcodegen.c` | bytecode, data section, link list, per function a static `stackTop` and where each node's outputs lie | one generator per kind of node | the optimiser and the linker rewrite its output |
| optimiser | `doptimize.c` | bytecode, with the addresses in links and functions | remove push/pop pairs, useless pushes, far calls; shrink immediates | moves every address that others hold |
| linker | `dlink.c`, `dname.c`, `dcore.c`, `dcfunc.c` | link list of a sheet, definitions of names | find a definition in the includes; turn links into pointers | sheets that are linked again by each includer |
| object files | `dobj.c` | a byte stream | write, read | the loader |
| lexer, parser | `dlex.c`, `dsyntax.c` | token stream, syntax tree | | one after the other in `d_load_string` |
| assembly dump, command line, helpers | `dasm.c`, `dmain.c`, `dmalloc.c`, `dtype.c` | none to speak of | | |

Nothing in the library starts a thread. The behaviours that are hard come from

* re-entrance: bytecode calls C functions, which work on the stack of the machine
  that runs them; loading a file loads other files in the middle of it;
* two accounts of the same thing that must agree: the frames the program sees and
  the elements on the flat stack, the debugger's sheet stack and the machine's
  calls, the sorted array and the comparison that searches it, the static
  `stackTop` and the real one, the bytecode and the addresses into it;
* failure in the middle: a runtime error inside nested calls after which the host
  goes on using the machine; an include that fails at any depth and stage;
* state that survives what it belongs to: the error flag and the error list of
  the process, `runtimeError`, the frame pointer saved over a C call;
* decisions that depend on the order of arrival: connection errors are found
  while wires are inserted one at a time.

What makes each part correct: the machine keeps its elements inside the
allocation and its frames linked, and calls behave as if each had a frame of its
own; a session knows which sheet executes and pauses at breakpoints; loading ends,
a sheet without errors has all it includes, errors are reported and stay with the
sheets they belong to; each wire is found from both of its ends, ambiguous sockets
are reported; types are reduced in whatever order the lines are, and that ends;
loops and missing returns are found, and the search for them ends; the
generator's idea of the stack is the machine's, and what it generates does what
the graph means; optimising does not change what a program does; a link is
resolved to the definition the name has, in whatever process and against whatever
version of an include the sheet is loaded; an object file reads back as what was
written.
`PROJECT.json` lists every hazard at its line.

## 2. The modules

### The virtual machine

`VMStack` holds the sizing arithmetic (when a push, a push of many, an insertion
and a pop grow or shrink the allocation, each with a test of its own) and where
elements are after an insertion or removal. `ScaleInc`, `ScaleDec` are the 2 and 4
of `dvm.h`; `SizeMin` is a parameter. `Remaining` is what `d_vm_popn` leaves.

`DecisionVM` is the machine. `stack` is the elements from `*basePtr` to
`*stackPtr`; `framePtr` is an index in it, 0 when it points below the first
element. Saved frame pointers and return addresses are ordinary elements of
`stack`, as in C. The program is not fixed: any instruction may stand at any
address, so a behaviour of the model is a behaviour of some program. Arithmetic is
abstracted: a binary operator leaves any of `Words`. `OpCall` is `CALL_GENERIC`,
`OpRet` is `OP_RETN` in a called frame (`OP_RET` is the case 0), `OpRetHalts` in the
starting frame. `OpCallC` begins a C function, `CReturn` and `CError` end it; between
them the C function may do any of the `Api` actions, the functions of `dvm.h`, which
are also the host's while the machine is halted. `HostRun`, `HostReset`, `HostFree`
are `d_vm_run`, `d_vm_reset`, `d_vm_free`. `calls` is history and
occurs in no guard. A resize may move the allocation: the copy of the frame
pointer that `OP_CALLC` took is then `dangling`, and the model follows no
behaviour beyond bytecode that goes on with it.

One thing is assumed about programs: bytecode and C functions read, pop and
return only what lies above the frame pointer. `dvm.c` checks none of this; it is
the duty of the code generator.

`CallFrames` is what calls promise, with no flat stack: a sequence of frames, a
call that moves its arguments to a new one, a return that leaves only the return
values. `DecisionVMRefinement` maps the flat stack to it (cutting it at the frame
pointers of `calls`) and states `ImplementsCallFrames`. `DecisionVMProofs` has the
theorems (section 4).

### The debugger

`DebugSession` is the loop of `d_debug_continue_session`: one action per kind of
instruction (`Step`, `Call`, `CallC`, `Return`), which is an iteration of the loop
with the lookup, the callbacks' breakpoints, the account of the call and the
machine's own step; `Continue` and `Stop` are the host's. `sheetStack` is the
session's account, `vmCalls` the machine's: the sheets of the frames on its stack.
`Includes` says which sheets' functions can be called. What `info_at_ins` finds
is any set of wires and any node, or nothing if the instruction belongs to
another sheet than the session believes. `SheetStackSize` is
`DEBUG_SHEET_STACK_SIZE`; a behaviour that leaves the array at either end is not
followed any further (`Undefined`). The code has a test for the limit
(`ddebug.c:523-528`), but it is made before the index is raised and compares it with
the size, so that the entry behind the array is written first, over the machine the
session holds; the branch itself would be taken at the next call out of that, and so
is not in the model. `DebugSessionClaims` shows the write, and the calls of C functions
that stay on the account. `DebugSessionProofs` has the theorems (section 4).

### Loading

`SheetLoader` turns the C recursion into a sequence of loads: `HostLoad` and
`Include` enter `d_load_file`, `Finish` is the rest of `d_load_string` or
`d_load_object_file` and what the includer does with the result, and
`IncludeGiven`, `IncludeCircular`, `IncludeMissing` are the includes that start no
load. A file is reduced to the stage at which it fails (`Kinds`) and the paths it
includes. Paths are sequences of components; `FinalPath` is the textual
concatenation of `dsheet.c:252-266`, `Resolve` what `fopen` makes of it. An object
file that cannot be read (`badObject`) fails before its includes are known, and passes
for a sheet without errors (`decision.c:544`): it is the exception that `SoundIncludes`
names (`Damaged`), and `SheetLoaderClaims` shows it. An object file that can be read
but names a C function that is not there (`dobj.c:1001-1020`) is overwritten in the
same way; the loader does not model functions. The error
list is three counters: how many errors were pushed, how many of these have been
printed, how many have been freed.

### The graph

`GraphWires` has the binary search (`BinarySearch`, used with the comparison of
each caller; a turn of its loop is `Turn`), `d_wire_find_first`, `d_socket_num_connections`, insertion with its
connection errors, and the loops of `d_semantic_scan_nodes` that match the line
identifiers of input sockets with those of output sockets, one comparison a step.
Comparisons are translated as they are written, including `d_wire_cmp`'s repeated
test (`CmpTarget`).

### The optimiser

`Optimizer` is `d_optimize_all`. `text` is a sequence of instructions, each with
its opcode, the bytes of its immediate and the immediate; addresses are in bytes
(`Addresses`), as in the bytecode. One step is an iteration of the loop of the
pass that runs (`NotConsecutive`, `PushPopConsecutive`, `Useless`, `Simplify`,
`ShrinkFimmediate`), or all of `CallFuncRelative`, which cuts nothing. `Cut` and
`Shorten` are calls of `d_optimize_remove_bytecode`: whole instructions, or bytes
of an immediate; both correct the jumps that are left (`Relocated`), the link list,
the functions' addresses and `main` (`CutElsewhere`). The three widths of
immediates and their ranges are parameters. `OTHER` is any instruction no pass
looks at, a call of another sheet's function included, and also the arithmetic, logic
and `GET` instructions with an immediate, which `SHRINK_FIMMEDIATE_OPS` lists beside
those of the model (`doptimize.c:673-681`): the same lines shrink them, and nothing
else of the text depends on them.

What a program does (`Shown`) is defined beside it and is not code of the
optimiser: the program is run from an address with a sequence of choices, one per
jump and call, and shows its stack at every `OTHER`, call and return. Execution
begins at `main` and at every function. One step of it (`Step`) looks for the
instruction at the address of the state; a run (`Run`) is a recursive function over
the steps, of which as many are made as the program has instructions, once more than
there are choices (`Steps`): between two choices no instruction is executed twice.

`intoCut` is history: a jump led into a piece when it was cut out, or backwards to
its first byte, or to an instruction that was changed to make up for the cut.
`doptimize.c:88` leaves the first case to do, and `doptimize.c:100` leaves the second
uncorrected. The third was found by the attempt to prove `SameBehaviour`: a `PUSH`
before a `POPN` is cut out and the `POPN` pops one less (`doptimize.c:404`), also for
a jump that leads to the `POPN` and has not passed the `PUSH`. The program `JumpToPop`
of the run does that. We have found no sheet for which the compiler generates it (a
`POPF` comes behind what an execution node, a branch or the body of a loop leaves, and
none of these that we know ends with a push), and no text of the repository speaks of
it. `SameBehaviour` excludes the three.
Programs can reach the first: `Not(Ternary(#c, Not(#d), false))` has a jump
to the second of two `NOT`s, which are cut out. `OptimizerClaims` has the code
generated for it and shows what becomes of it; the built program crashes.

### The reduction of types

`TypeReduction` is `d_semantic_reduce_types`: passes over the nodes, one node a
step (`ReduceNode`, `SkipNode`), until a pass has found all of them reduced
(`EndPass`). `Reduce` is `reduce_core_node`, with one operator for each group of
core functions its `switch` tells apart. A vague type is the set of types it
allows; a node has its value inputs, each a literal or wired to the output of a
node, and at most one output. `inputs` and `output` are `reducedTypes`. `TypeOf`,
beside the code, is the type an output should have: that of a `Ternary` is the type of
its first value, with which the second has to agree (`InputsAgree`). `NumInputs`, `InputTypes` and
`OutputTypes` are the sockets of the core functions as `dcore.c` declares them, and
`GraphsAssumption` says that the graphs have these.

Each kind of node has its own test whether an input is known (`FollowsWire`).
The tests are translated as they are: that of comparisons takes
"some number or string" for a number, and `Div` has no case of its own, so that its
inputs stay vague. A `Ternary` uses the types its
inputs had before the pass, so that with two wires its output may never get a
type (`LiteralInTernaries` names the programs in which that cannot happen), and a
literal behind a wire is compared with nothing (`LiteralsFirst` names the programs in
which the literal comes first).

A wire is checked when it is connected, while its ends may be vague (`dgraph.c:602`).
Later only arithmetic nodes compare their output to what it goes to, so that
`RightOrReported` says that outputs fit where they go (`Fits`) but for those of bitwise
operators and of `Ternary`s.
`TypeReductionClaims` has the programs that are accepted although their types do not
agree.

### Loops and missing returns

`SemanticGraph` is the end of `d_semantic_scan`: `DetectLoops` and
`CheckReturns`. The two recursions of the code are sequences of calls: `path` is
the calls of `check_loop`, each with the output and the wire it has come to, and
`calls` those of `check_for_return`, each with what the calls it made have
returned. A step follows one wire (`FollowWire`, `LookBehind`), goes on to the
next output (`NextOutput`), returns (`LeaveNode`, `GiveResult`), or goes on to the
next node or function. `hasErrors` is `FALSE`, because the flag of the sheet is
set only after the scan (`decision.c:324`). `Behind`, `OnLoop` and `EndsOf`, beside
the code, are what it looks for: loops, and the ways a run through the nodes can
end (the least answer that each node's branches agree with, so that a loop without a
way out has none).

### The code generator

`CodeGen` is `dcodegen.c`, one operator for each generator: it takes the code that
has been made so far (`text`, the index of the top of the stack, where the outputs
of each node lie) and gives the code with what the node adds. An operand is known
by what is needed to run it; sizes of immediates and debug information are left
out. `Eagerly` has the two combinators with which one statement follows another.

`GeneratedCode` puts it together: `Compile` generates a sheet (one step, since
nothing can come between), and the steps behind are those of the machine, one per
instruction of the generated code, on the flat stack of `dvm.c` (`frames` holds
what `CALL` saves in it). Beside it `Meaning` evaluates the graph directly:
execution along the execution wires, values when they are needed, no stack. The
program has to print what its graph means and leave the variables so. A value is
tagged with the representation it was written in, so that an integer operation on
a float shows.

The generator is wrong outside of certain graphs. `WithinLimits` names
them, each conjunct for a case that was confirmed on the built program (see
"Noticed" below); within them all properties hold. `Init` takes the sheets
within the limits, `InitAny` any; `GeneratedCodeClaims` has some outside.

`d_push_node_inputs` is meant to look inputs up again that are out of place. Its search
begins at the input that was pushed last, steps away from the inputs and ends
(`dcodegen.c:623-655`), and `PositionsCorrect` does the same: only that input is
tested. What a `Ternary` leaves below its value is therefore in the way of everything
pushed before it. `ConditionsShared` excludes such graphs: there, the value of a
`Ternary` is the first that a comparator, a loop or a call pushes.

### Names, links and object files

`Linker` follows a reference from its name to the address in the instruction.
`d_get_definition` looks the name up in the sheet and its includes (`dname.c`);
`d_codegen_compile` lays out the data section and the link list; `d_link_sheet`
is `dlink.c`; `Save` and `LoadObject` write an object file and read it in this or
another process (`Exit` ends one), in which its includes may be another version
of a library. `Assign` is what a running program does to the data section.
Addresses are triples of a sheet, a section and a place in it, so that an
address of a process that has ended can be told from one of this process.

A load ends with `d_link_sheet`, which links the sheet and then its direct includes
again. `IsAt` says beside the code when an address is that of a definition.

## 3. The runs

| run | instance | what it shows |
|---|---|---|
| `vm` | minimal stack 2, words {0, 7}, 2 code addresses, at most 6 elements; 25 thousand states | `TypeOK`; `Capacity`: no element outside the allocation; `FrameLinkage`: every pending call finds its frame pointer and return address; `CleanHalt`: what a halt without an error means; `ImplementsCallFrames` |
| `debug_session` | a main sheet that includes two debuggable ones and one without debug information, which includes a debuggable one; sheet stack of 2, 4 calls, 1 C call, one node, one wire | `TypeOK`; `CallsTracked`: the session's account is the machine's calls; `BreakpointPauses` |
| `sheet_loader` | all disks of three files and a missing one; the main file includes up to two, the others up to one; one of these may include the main file as `./main`; every kind of failure; 6300 disks, 1.04 million states | `TypeOK`; `PathsDiffer`; `SoundIncludes`: what is loaded without an error was read, is linked and has its includes, object files that cannot be read excepted; `NoErrorLost`; `EveryLoadReturns`, for disks with plain paths |
| `graph_wires` | four inputs and four outputs on three nodes, any of two lines or none at each; 138 thousand states | `TypeOK`; `FindsAllWires`; `WiredBothWays`; `AmbiguityReported` |
| `type_reduction` | every graph of three nodes of all kinds without cycles, in every order of the lines; 21 thousand graphs, 218 thousand states | `TypeOK`; `RightOrReported`: outputs get the right types and inputs agree, or an error is reported; `OrderedIsAccepted`: well-typed programs in order have no error; `Ends` |
| `semantic_graph` | all ways to wire four nodes, loops included, of five kinds of sheet: branches, loops, two functions, values, calls; 50 thousand states | `PathFits`: the path array is never left and holds nodes; `LoopsReported`: loops are reported where they are, if an input-less node leads to them; `ReturnsReported`: a subroutine is rejected exactly if it can end without a Return; `ScanEnds` |
| `generated_code` | 780 sheets: expressions of two nodes with every mix of types, strings, choices, `For` up and down and nested, `While`, branches, functions and subroutines with early return, each with bodies that print, set and call; 17 thousand states | `TypeOK`; `TopTracked`: where an execution node begins, the stack is as high as the generator took it to be; `StaysInFrame`: no instruction reads below its frame; `DoesWhatIsMeant`; `Halts` |
| `linker` | a library in two versions, a sheet on top of it, sheets on top of both, one that defines a name again, a host with a C function; four sheets in any number of processes, one object file; 164 thousand states | `TypeOK`: every entry of a sheet that is linked has a place; `OperandsRight`; `StringsAreTexts`; `CrashIsMissing`; `LoadKeepsVariables` |
| `optimizer` | every body of four instructions out of eight plain ones, two with links and jumps to anywhere in the body, between two `RET`s, and a jump to the `POPN` behind a `PUSH`; immediates of 1, 2 and 4 bytes that reach to 5, 9 and beyond; 2 million states | `TypeOK`; `Linkable`: the linker finds a full immediate at each entry of its list; `NothingLeft`: no round too few; `SameBehaviour` |

Why the bounds suffice. *vm*: two calls nest within six elements; with a minimal
size of 2 the allocation grows twice and shrinks again, and pushes at the edge
happen from every size; a third call adds no new relation, since each link only
concerns a frame and the one below. The theorems do away with these bounds.
*debug_session*: calls within a sheet, across sheets, into a sheet without
information, back out of it into a debuggable one, and returns from all of these
fit in four frames; the sheet stack's end is reached. *sheet_loader*: cycles of
length one, two and three, diamonds, an include that fails after one that
succeeded, and a second load that includes a sheet of the first. `MaxDepth` 7
is more than the depth of any of these loads (a path can be repeated once, by
itself), so that a load that does not end would stop there without returning and
`EveryLoadReturns` would be false. It is, of the disks with `./main`, and is stated of
those whose files name each other plainly (`PlainPaths`); the others are for the safety
properties. *graph_wires*: up to 8 connections (16
wires), sockets with none, one and several, at the first and last place and
between others. *optimizer*: four instructions are the least in which one pass makes
work for an earlier one (`NOT PUSH POP NOT`), with a jump across it in
place of any of them; the small ranges make bodies of this length use all
three widths. `JRCON` stands for `JR`, which is corrected by the same lines. Two
choices let a run take a jump and then follow a call, or go around a loop twice.
*type_reduction*: three nodes are a source, one that depends on it and one that
depends on both; in reverse order this takes three passes, and an output that
changes its type meets consumers that have settled. Graphs with cycles are left
out: reduction comes before loop detection, and a cycle of `Not`s is another
program for which it does not end. *semantic_graph*: four nodes have loops of
length one to four, loops that begin behind a node and loops no node leads
to, two ways to one node, and a branch in which one, both or none of the
ways return. `MaxDepth` 6 is more calls than a search without a loop can
make; behind it lies the end of the C stack. *generated_code*: two nodes are the
least in which one computes for another, so that the operands of one lie below those
of the other; a loop goes around twice, so that its second turn begins on what the
first left; the outputs of a node are used at once and behind another. *linker*:
four sheets are a library, a sheet on it, one on top, and one more of any of them,
in one process; or a library and a sheet on it that is saved, and the next version
of the library with the object in another process. One object file has all of the
sections; two differ only in what each holds.

`CHECK_DEADLOCK FALSE` is set where the program ends: a session that has been
stopped is not used again, a host stops loading at `MaxSheets`, the loop over
the lines ends and so do the optimiser, the reduction of types and the scan for
loops, and a generated program halts. The virtual
machine cannot stop: a host can always reset it.

Fairness. `SheetLoader` has weak fairness of `Loader`, i.e. of the
recursion as a whole, `TypeReduction` and `SemanticGraph` of `Next`, their loops,
and `GeneratedCode` of `Run`, the loop of `d_vm_run`. All are sequential C
code without waiting, so that an enabled step is taken. The host owes nothing; it
need not load anything, nor run what it has compiled.

### Where the code and its documents disagree

Each of these runs checks one statement of a comment or manual and TLC finds the
behaviour that contradicts it. The counterexamples have been compared to the
source and, as far as that is possible, to the built program.

| run | statement | behaviour |
|---|---|---|
| `nots_cancel_out` | `optimisation.rst:47` | a jump leads to the second of two `NOT`s that are cut out |
| `stack_top_tracked` | `code_generation.rst:161` | after a call with more arguments than results the generator's index of the top of the stack is too high |
| `instructions_relocated` | `linking/index.rst:37` | an object file that calls a C function keeps the address the function had in the process that wrote it |

The following statements fail as well and are not among the runs. Each has a
configuration of its own name, for instance `tlc -config FilesDiffer.cfg
SheetLoaderClaims`, with which TLC shows the behaviour in a few seconds:

| module | claim | statement | behaviour |
|---|---|---|---|
| `GeneratedCodeClaims` | `InputsInOrder` | `dcodegen.c:614` | a comparator of a `Ternary` compares the condition of the `Ternary`, because inputs out of place are not looked up again (`dcodegen.c:623`) |
| | `ResultsAreOfNow` | `code_generation.rst:94` | a value that is used before a loop and in its body is not computed in the body, where it is looked for at an index that was popped (`dcodegen.c:474`) |
| `TypeReductionClaims` | `TernaryInputsAgree` | `dsemantic.c:2004` | a `Ternary` of a String from a wire and, behind it, a literal number is accepted (`dsemantic.c:2055`) |
| | `InputsAreUnique` | `semantic_analysis.rst:152` | the connected inputs of `Div` and of comparisons keep a vague type (`dsemantic.c:2088`, `1923`), so that the Float variable 2.0 is not equal to 2 |
| | `WiresMatch` | `semantic_analysis.rst:70`, `dgraph.c:598` | a `Ternary` of Strings, or a `Not` of a Boolean, is accepted whatever it is connected to, since its output is vague when the wire is checked |
| `SheetLoaderClaims` | `FailedIsMarked` | `running_decision_from_c.rst:71` | an object file that cannot be read becomes a sheet without errors (`decision.c:544`) |
| | `FilesDiffer` | `decision.in.h:90`, `dsheet.c:223` | `[Include("./main.dc")]` in `main.dc` is loaded until the process crashes (`dsheet.c:274`) |
| `DebugSessionClaims` | `SheetStackFits` | `ddebug.c:525`, `ddebug.h:249` | the entry behind the array of the sheet stack is written before the limit is noticed (`ddebug.c:523`) |
| | `CCallsTracked` | `ddebug.h:271`, `ddebug.c:543` | a call of another sheet's C function leaves that sheet on the sheet stack |

Confirmed on the built program and the source, and not given a run:

* a C function that pushes past the allocation gets its caller's old frame pointer
  back, into memory that `realloc` has freed (`dvm.c:1083`; the model calls the copy
  `dangling` and follows it no further);
* a `Ternary` of two wires, whose output a `Not` waits for, is reduced for ever
  (`dsemantic.c:2083`);
* loops are searched from nodes without inputs only (`dsemantic.c:2262`): two `Add`s
  that compute with each other are not found, and the code generator recurses over
  them until the process crashes; `LoopsReported` says what is found;
* "We only want to check for missing returns if we know there are no loops"
  (`dsemantic.c:2432`), but `hasErrors` is set after the scan, so that a loop
  of executions that was reported crashes the compiler in `check_for_return`;
  `ScanEnds` speaks of graphs without loops;
* a subroutine with outputs that is never defined, in a sheet without nodes, reads
  node 0 of none (`dsemantic.c:2391`);
* outside `WithinLimits` the generator's code is wrong, beyond what the runs of the
  table show: an Integer variable is added to a Float bit by bit; a `Ternary` whose
  condition is computed for it alone is taken to leave one element more than it does;
  a `For` whose start or stop value is that of a `Ternary` takes the condition for
  an input that was pushed before it;
* an object file whose names are defined nowhere crashes when it is loaded
  (`dlink.c:128`), and one whose name two includes define takes the first without
  an error; `d_link_includes_recursive` is not recursive (`dlink.c:284`), and a load
  gives the string variables of the sheets it includes their default values back
  (`LoadKeepsVariables` says that it is these and no others).

Noticed while reading and not given a run: `d_vm_run` reports the error of an
earlier run until the machine is reset (`dvm.c:1537`); without `onNodeBreakpoint`
node breakpoints do not pause (`ddebug.c:498`);
after one failing load every later sheet of the process has errors
(`derror.c:109`); `Print` and `Set` above their source settle for a vague type
(`dsemantic.c:1794`); `d_vm_frame` has its test of `basePtr`
the wrong way round (`dvm.c:254`); an indirect call counts its target as an
argument (`dvm.c:885`; nothing generates one); the sheet stack
is read below its start after the last return (`ddebug.c:381`); the sheet of a breakpoint is ignored (`ddebug.c:434`); an
absolute include path is appended to the includer's directory (`dsheet.c:256`);
`d_run_string` returns true on errors (`decision.c:386`); `d_wire_cmp` tests the
target node twice (`dgraph.c:337`), so that the wires of one socket are not in the
lexicographical order `dgraph.h:156` promises, which does no harm, because only
the source end is ever searched for (`FindsAllWires` holds).

## 4. What is proved

`DecisionVMProofs` proves for every `SizeMin` of at least 2, every set of words
that are integers with 0 among them, every code length and every bound `MaxTop`:

* `TypeCorrect`: `Spec => []TypeOK`;
* `StackFits`: `Spec => []Capacity`;
* `FramesLinked`: `Spec => []FrameLinkage`;
* `HaltsInTheStartingFrame`: `Spec => []CleanHalt`.

Assumptions: those named in `VMStack` and `DecisionVM`. `SizeMin >= 2` is
needed: with a minimal size of 0 or 1, doubling would not make room. They
are evaluated by TLC in the run `vm`.

The argument. `Capacity` needs only the arithmetic of `VMStack` (`PushFits`,
`PushNFits`, `PopNFits`). `FrameLinkage` is not inductive as it stands: a return
makes the caller's frame the current one, and says nothing of the order in which
the frames of all pending calls lie. `IInv` adds that they are nested
(`Nested`), and what the flags say of each other. Most actions touch only what is
above the frame pointer: the lemmas `StepKeepsInvariant` and `CallsKept` do those
once and for all from `StackStep` (the elements at and below an index are
unchanged), and each stack operation is shown to be such a step from facts about
sequences (`InsertedAtProperties`, `RemovedAtProperties`, `DroppedProperties`).
Only calls, returns, entering and leaving C functions, reset and free have a
proof of their own.

The second half of the module proves `MachineImplementsFrames`:
`Spec => ImplementsCallFrames`, i.e. that the one array of the machine behaves as
`CallFrames`, where every call has a stack of its own. The mapping cuts the array at
the frame pointers of the pending calls (`CutStack`). `IInv` makes it work: the saved
frame pointers are where the mapping takes them to be, and the frames are nested, so
that the pieces cover the array in order. A call moves the arguments of the caller's
piece into a new one above the two elements it inserts below them (`FramesOfCall`), a
return joins two pieces and drops what lies between (`FramesOfReturn`), entering a C
function hides the caller's values (`FramesOfEnterC`), and everything else changes
the last piece only (`ComputeStep`, from the same `StackStep` as above) or none. What
lies in a section of a sequence after an insertion or removal elsewhere are lemmas
about sequences of their own (`InsertedBelow` to `RemovedAbove`).

`SheetLoaderProofs` proves, for all disks, names and bounds that satisfy the
assumptions of `SheetLoader`:

* `LoaderTypes`: `Spec => []TypeOK`;
* `NoPathTwice`: `Spec => []PathsDiffer`;
* `ErrorsPrinted`: `Spec => []NoErrorLost`;
* `IncludesSound`: `Spec => []SoundIncludes`.

Its invariant `IInv` types each sheet and load separately (`SheetsTyped`,
`LoadsTyped`), since the sets of sheets grow with every step, and strengthens
`NoErrorLost` with `printed <= pushed` (`Counted`). `PathsKept` says once that a
step which changes no path and only shortens the loads keeps `PathsDiffer`; only
`Include` needs the guard `~Circular`.

`SoundIncludes` speaks of sheets that are finished, and nothing in it says that a
sheet which finishes has what it needs. `SoundInv` says so of the loads that are under
way: as long as nothing has failed, everything a load has come past is included and
ready (`Ready`), or is the load just inside it (`LoadSound`); no sheet is loaded twice at
once or included before it is finished. Had an include failed, the outer load
would see the error before it finished, because errors are never forgotten. Finished
sheets are not changed again but for being linked, which leaves them sound
(`SheetSoundStays`). A file that is found right is one that pushes no error of its own
(`Accepted`); it was read to the end but if it is an object file that could not be
read, which prints its error and pushes none (`AcceptedIsRead`). That is where the
exception of `SoundIncludes` comes from.

`GraphWiresProofs` proves, for all inputs and outputs that satisfy
`SocketsAssumption`, however many there are, and for all lines:

* `GraphTypes`: `Spec => []TypeOK`;
* `WiresAreFound`: `Spec => []FindsAllWires`;
* `WiredAsWritten`: `Spec => []WiredBothWays`;
* `AmbiguityIsReported`: `Spec => []AmbiguityReported`.

The assumption is that no socket is listed twice and none is both an input and an
output. A binary search is a recursive function over its turns, and what it does is
shown turn by turn (`TurnKeeps`): everything before `left` belongs to one set and
everything behind `right` to another, and less lies between them than before. So it
ends, and on what it seeks or between the two sets (`SearchEnds`), which holds for
any sets that the comparison tells apart and is used for insertion and lookup.

`GInv` adds to the four that the array is `Sorted` by the socket a wire comes from,
and has no wire twice (`Distinct`). `d_wire_cmp` is not an order (of two wires of one
socket each may come before the other), but it never disagrees with that of the
sources (`CmpWireOrders`), and this is enough for `Sorted` to be kept (`AddEdgeFits`,
`InsertedKeeps`) and for the wires of a socket to be found, next to each other
(`LookUps`). The connection errors need the count between the two insertions of a
pair: a socket has as many wires as it has been matched, because none is in the array
twice (`CountsMatch`), and the half of the pair that is missing then leaves another
socket.

`OptimizerProofs` proves, for all sizes and ranges of the immediates and all programs
that satisfy `ProgramsAssumption` and `CodeAssumption`:

* `OptimizerTypes`: `Spec => []TypeOK`;
* `StaysLinkable`: `Spec => []Linkable`;
* `RoundsLeaveNothing`: `Spec => []NothingLeft`;
* `JumpsReach`: whatever the sizes and the cut, a corrected jump reaches the address
  its target has moved to, if it led neither into the piece nor back to its first
  byte;
* `OptimizedDoesTheSame`: `Spec => []DoesTheSame`: between any two steps of a pass the
  program does what the original does, for every program and every sequence of
  choices; with it `OptimizedBehavesTheSame`: `Spec => []SameBehaviour`, the same of
  the finished program and the two choices that TLC follows.

The assumptions are what the code generator does. `CodeAssumption` (`WellFormed`): the
text ends with a return, a jump leads to an instruction, `main` and the functions
begin at the start or behind a return, `POPN` pops no negative number, and a call is
linked to one function; only the last two theorems use it. `ProgramsAssumption`: a
link is given to a `CALLI`, or to an instruction with a full immediate, at its first
byte (`dcodegen.c:221`, `408`, `971`, `1962`), and one to a function only to a `CALLI`
(`dcodegen.c:936`). It is needed: `CallFuncRelative` overwrites the opcode without
looking, so that a `PUSH` that was linked to a function would become a call.

The addresses of a text are a recursive function over it. That it exists and that no
other function has the sizes of the instructions for differences (`AddressesAre`)
follows by induction, which is applied to a set and not to a predicate (`CountUp`,
from the well-ordering of the naturals). From there on nothing is recursive: after a
cut the addresses of what is left are the old ones, or the old ones less the length
of the piece (`CutAddresses`, `ShortenAddresses`), because a function with these
values has the right differences. So an entry of the linker's list that is moved like
an address stays one (`CutLinks`, `ShortenLinks`). `OptInv` adds to `Linkable` what
the linked instruction is (`LinksFit`), without which `Simplify` could shorten it, and
to `NothingLeft` how far each pass of the round has come (`NothingMissed`): if nothing
was found so far in this round, there is nothing behind the pass, nor for the passes
before it.

That a program does the same is a simulation between the program before a step and
the one after it. `Squeezed` says what a cut or a shorter immediate makes of texts,
links and entries: a map from instructions to instructions that keeps their order,
under which addresses move and jumps and calls lead to the images of where they led
(`CutLeft`, `CutSqueezes`, `ShortenSqueezes`). `Mirrors` says that the two programs,
at an instruction and at its image, show the same and leave stacks that fit: equal
ones, but for the inside of a piece that is cut out, where a `NOT` is yet to be undone
or a pushed element to be popped (`Fit`, `CutMirrors`, `ShortenMirrors`). The
instructions of the piece are skipped by the shorter program, so that it is ahead
there; both come to their end within `Steps`, because between two choices the index
of the instruction grows (`MirrorsShow`). The entries of the original are not inside a
piece, since what is before them is a return. The inductive invariant `SoundInv` has
in addition to the behaviour that the program is still one the code generator could
have left (`SqueezedProg`, `RelativeProg`), which the next step needs, and that it is
no longer than the original (`SoundInvHolds`). Only `intoCut` is excluded: `LeadsInto`
is what `JumpsReach` asks for, and `LeadsTo` what makes `Fit` hold at the target.

`SemanticGraphProofs` proves `PathAlwaysFits`: `Spec => []PathFits`, for all graphs
and functions that satisfy `GraphsAssumption`. `PathFits` is not inductive: that
one more call fits follows from there being a node that is not on the path yet.
`PathInv` says that no node is on it twice, which `FollowWire` keeps because of
`InPath`, and the pigeonhole principle (`NoneTwiceFits`) does the rest.

It also proves `LoopsAreReported`: `Spec => []LoopsReported`. Nothing in
`LoopsReported` holds while the search runs, so `LoopInv` says what the search has
established: each node of the path is behind those before it, so that a wire back to
one of them closes a loop; and as long as none was reported, no loop can be reached
over a wire that has been followed, unless the path goes on over it (`Followed`), nor
from a node without inputs that the loop is done with (`DealtWith`). When a call
returns, all wires of its node have been followed, so that no loop is behind it
(`ClearNode`), and the caller's wire to it takes its place. What is behind a node is
the least set that contains its successors and is closed under wires; all that is
used of it is that it is transitive and what its parts are (`BehindTransitive`,
`BehindParts`).

And `ReturnsAreReported`: `Spec => []ReturnsReported`, for graphs with loops as well,
wherever the search comes to an end at all. `ReturnInv` describes the calls of
`check_for_return` on the way: each result a call has so far is right, that is
`FALSE` exactly if the branch it is for can end without a Return (`ResultsRight`); each
call waits for the next one, at the first branch it has no result for (`WaitsFor`);
the first is for the function at hand (`CalledFor`); no function was rejected that
always returns (`NoneWrong`), and none that the search has come by was let through
that does not (`NoneMissed`). The ends of a node are a least solution, and the proof
needs that it is one: by the argument of Tarski the intersection of all solutions is
closed and is itself reached (`EndsAre`), so that what a call answers from the answers
behind it (`GiveResult`) is what the node's own ends are (`ReturnsIs`).

`TypeReductionProofs` proves, for all graphs that satisfy `GraphsAssumption`, of any
number of lines in any order:

* `ReductionTypes`: `Spec => []TypeOK`;
* `TypesAreRight`: `Spec => []RightOrReported`;
* `InOrderIsAccepted`: `Spec => []OrderedIsAccepted`.

The assumption is what `d_semantic_scan_nodes` lets through without an error: a node
has as many inputs as its definition (`dsemantic.c:1336`), their types are the
declared ones, or that of the literal (`dsemantic.c:1201`), and a wire joins types
that have one in common. After an error the types are reduced as well, but the sheet
is not compiled, whatever becomes of them.

`RightOrReported` speaks of the end. `RightSoFar` says what holds on the way, as long as
there was no error: an input has the type it is declared with, or the single type its
source has now (`Fresh`, `Agrees`); an output has its vague type or the one its inputs
give it at present (`OutputOnItsWay`), and exactly that once the node is reduced
(`OutputSettled`). The danger is that an output changes after a consumer has settled
for it. Those of bitwise operators and of a `Ternary` do not, unless the inputs are
mixed, which is an error (`BitwiseVisit`, `TernaryVisit`). That of an arithmetic node
may, and is caught by the comparison to the consumers (`ArithmeticVisit`), because
what has learned a single type has nothing in common with another one
(`ArithmeticFits`: so what arithmetic makes fits where it goes). It needs
that no node is its own source. That the inputs of a `Ternary` agree needs the literal
to be first (`LiteralsFirst`), where the type of the wire is compared with it when it
arrives; a `Set` is compared with its variable when it is visited (`SetVisit`). When all nodes are reduced, the outputs satisfy the
equations of `TypeOf`, and without cycles these have one solution (`OneSolution`, by
the rank of the node).

`OrderedIsAccepted` needs the equations to have a solution from the start, which
exists since each line refers to lines above it (`SolutionExists`). `AcceptedSoFar`
says that the nodes the first pass has come by are reduced and have the types of that
solution, and that the others are as they were; `OrderedVisit` shows for each kind of
node that one visit is enough.

`DebugSessionProofs` proves, for all sheets and whatever includes what, all
breakpoints and all bounds:

* `SessionTypes`: `Spec => []TypeOK`;
* `CallsAccounted`: `Spec => []CallsTracked`;
* `BreakpointsPause`: `Spec => BreakpointPauses`.

`CallsTracked` says that the frames can be cut into pieces, one for each entry of
the sheet stack. `IInv` adds that the cuts are in order (`Ordered`), so that a call or
a return, which changes only the last piece, leaves the frames of the others alone
(`NewAccount`). A call the session does not find would be lost; `AccountFacts` shows
that it is always found where the last entry is of a debuggable sheet, and `AllFound`
that breakpoints are then looked up where they are. The bound of the sheet stack is
needed: outside it the model stops (`Undefined`).

`LinkerProofs` proves, for all sources that satisfy `SourcesAssumption` (their lists
are lists, their variables Integers or Strings), any number of sheets, processes and
object files:

* `LinkerTypes`: `Spec => []TypeOK`;
* `OperandsAreRight`: `Spec => []OperandsRight`;
* `StringsHoldTexts`: `Spec => []StringsAreTexts`;
* `CrashesOnlyIfMissing`: `Spec => []CrashIsMissing`;
* `LoadsKeepVariables`: `Spec => LoadKeepsVariables`.

They rest on one invariant, `IInv`, which TLC checked before it was proved. It says
of each sheet (`SheetWell`) that its includes are older than it and have no errors,
and, if it was compiled, that it is `Laid` and `Linked`; and of each object file that
any process could load it (`ObjectWell`). `Laid` is what concerns the sheet alone:
entries are unique by type and name, those of its own things know where these lie,
every variable and function has its entry, no instruction is linked twice.
`Linked` is what concerns others: the entry for a thing of another sheet has the
address at which that sheet holds it, and operands and string variables have been
set.

A proof that follows the code of `d_codegen_compile` shows that it lays a sheet out
so (`Made`, kept by each statement of it; `VarsMade` for the variables, of which one
may be in the middle of being made). Without the errors of `HasErrors` it does not
hold: the entry of the second of two variables of one name would never be found.
Linking begins when all names have a meaning and those of other sheets have no place
(`Resolved`). For a sheet from source that is what the compiler leaves
(`SourceResolved`), and for one from an object file what `d_link_find_included`
finds (`FindResolves`): it does not look for definitions but for entries with a
place, and that these are there for each thing that an include defines is what
`Laid` says of the include. Were something not found though a sheet within defines
it, the load would crash, so that the same lemmas give `CrashesOnlyIfMissing`
(`ObjectLoads`). That a saved sheet is laid out as before when it is loaded at
another address follows entry by entry (`OwnReloaded`, `OthersReloaded`): the
`.func` and `.var` sections name an entry exactly if it is of the sheet's own.

What is linked has to stay right while other sheets are loaded, linked again and
assigned to. None of this moves a thing (`SameLayout`), and what a name means in a
sheet depends only on sheets that are older (`Ordered`, `MeantKept`), so that it
does not (`SheetKept`). The recursions over the includes and over lists are recursive
functions; that they have the values they are defined to have is shown by induction
over a set, as for the optimiser (`VisitsFrom`, `CountUp`).

What remains with TLC: the four properties of `GeneratedCode`, because `CodeGen` is a recursion
over the graph in `RECURSIVE` operators, and what it generates is only known by
induction over the graph, which the installed provers cannot do; and liveness
(`EveryLoadReturns`, `Ends`, `ScanEnds`, `Halts`), which is out of TLAPS's reach.

## 5. What is not modelled, and the plan

Not modelled for good: arithmetic and the contents of strings, `d_vm_dump` and all
other output, memory exhaustion, memory instructions through absolute addresses,
`OP_CALL`/`OP_CALLR` (never generated), a C function that runs the machine it is
called from, lexing and parsing of text, command-line arguments.

Not modelled yet: freeing sheets (`dsheet.c:384-530`), where one that two sheets
include is freed with each of them; an object file as bytes, and one that ends
early (`dobj.c:700`); what the generator leaves for the debugger, and the
optimiser's work on generated code and on link lists at once (`Optimizer` has
programs and links of its own).

Next, in this order:

1. Freeing: sheets shared by includers, in `SheetLoader`.
2. Debug information: what `CodeGen` records of wires and nodes is what
   `DebugSession` looks up.
