--------------------------- MODULE MCDebugSession ---------------------------
(* The debugging session, instantiated for TLC: a main sheet that includes *)
(* all others, one of which cannot be debugged and includes one that can.  *)
EXTENDS DebugSession

CONSTANTS main, lib, plain, base

IncludesOfRun ==
  {<<main, lib>>, <<main, plain>>, <<main, base>>,
   <<lib, plain>>, <<lib, base>>, <<plain, base>>}
=============================================================================
