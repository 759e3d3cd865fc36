---------------------------- MODULE MCSourceStepping ----------------------------
(* main (1-7) calls f in a loop and then a function without debug          *)
(* information (16-17).  f (8-15) has an inlined block (10-11) that begins *)
(* with another (10), is left early or calls f; f calls itself in the      *)
(* middle of the row of 12-14 as well, and loops to its first instruction. *)
EXTENDS SourceStepping

Code == 1 .. 17

KindOf == [a \in Code |-> CASE a \in {3, 5, 11, 13} -> "call"
                            [] a \in {7, 15, 17} -> "ret"
                            [] OTHER -> "plain"]

SuccOf == [a \in Code |-> CASE a = 3 -> {8} [] a = 5 -> {16} [] a \in {11, 13} -> {8}
                            [] a = 4 -> {2, 5} [] a = 9 -> {8, 10, 12}
                            [] a = 10 -> {11, 12} [] a = 12 -> {13, 15}
                            [] a \in {7, 15, 17} -> {}
                            [] OTHER -> {a + 1}]

RowOf == <<1, 2, 2, 3, 4, 5, 6, 7, 8, 9, 10, 11, 11, 11, 12, 0, 0>>

Block(l, h) == [low |-> l, high |-> h]

InlOf == [a \in Code |-> CASE a \in 1 .. 7 -> <<Block(1, 8)>>
                           [] a = 10 -> <<Block(8, 16), Block(10, 12), Block(10, 11)>>
                           [] a = 11 -> <<Block(8, 16), Block(10, 12)>>
                           [] a \in {16, 17} -> <<>>
                           [] OTHER -> <<Block(8, 16)>>]
===============================================================================
