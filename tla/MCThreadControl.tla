--------------------------- MODULE MCThreadControl ---------------------------
(* Programs for ThreadControl; the main thread and those it clones all run *)
(* through the breakpoint.                                                 *)
EXTENDS ThreadControl, TLC

TwoThreads == <<"clone", "op", "site", "raise", "exit">>
TwoEntries == (1 :> 1) @@ (2 :> 3)

(* The main thread passes the breakpoint twice after a signal; the second  *)
(* thread passes it, clones the third and passes it again; the third only  *)
(* once.                                                                   *)
ThreeThreads ==
  <<"clone", "raise", "site", "site", "exit", "site", "clone", "site", "exit">>
ThreeEntries == (1 :> 1) @@ (2 :> 6) @@ (3 :> 4)
==============================================================================
