----------------------------- MODULE MCBreakpoints -----------------------------
(* A program, the linker, the vdso and two libraries.  "f" is a line of    *)
(* the program and of both libraries (a header's), "h" a function known to *)
(* one library by its DWARF and elsewhere by symbols, which are looked at  *)
(* only when that library has been loaded.                                 *)
EXTENDS Breakpoints

Code == 1 .. 5
Objects == {"main", "ld", "vdso", "lib", "more"}
HomeOf == [a \in Code |-> CASE a \in {1, 3} -> "main" [] a = 2 -> "ld"
                            [] a = 4 -> "lib" [] a = 5 -> "more"]

None == [e \in Objects |-> <<>>]

Lookup ==
  [n \in {"f", "h"} |->
     CASE n = "f" -> [kind |-> "line", symbols |-> None,
                      dwarf |-> [None EXCEPT !["main"] = <<3>>, !["lib"] = <<4>>, !["more"] = <<5>>]]
       [] n = "h" -> [kind |-> "function", dwarf |-> [None EXCEPT !["more"] = <<5>>],
                      symbols |-> [None EXCEPT !["main"] = <<3>>, !["lib"] = <<4>>]]]
===============================================================================
