---------------------------- MODULE MCStoppoints ----------------------------
(* Small instances of Stoppoints for TLC. *)
EXTENDS Stoppoints

(* The words at 4 and 5 are mapped, the one at 9 only in part. *)
MCMapped == 4 .. 12

MCKinds ==
  {[mode |-> "write", size |-> 1], [mode |-> "read_write", size |-> 2],
   [mode |-> "execute", size |-> 2], [mode |-> "write", size |-> 3]}

(* Every byte pattern under software sites, with the debug registers as    *)
(* they were.                                                              *)
BytesVary ==
  /\ cur = Pid /\ taint = {} /\ leaked = {}
  /\ hwDr = [i \in Slots |-> 0]
  /\ \A t \in Threads : dr7[t] = [i \in Slots |-> Off]
  /\ \A a \in Addr : siteKind[a] # "hw" /\ watch[a] = Off

(* Stoppoints of every kind at two addresses, over memory full of zeros.   *)
RegistersVary ==
  /\ prog = [a \in Addr |-> 0] /\ stale = {}
  /\ \A a \in Addr \ {4, 5} : siteKind[a] = "none" /\ watch[a] = Off

(* A refused dr7 write leaves registers a later clear is refused for, so   *)
(* the states after it are explored; those after the other two ways of     *)
(* putting the registers out of step are checked and not explored.         *)
Explored == taint \subseteq {"refused"} /\ (BytesVary \/ RegistersVary)

(* Memory full of zeros stays so. *)
WritesExplored == BytesVary \/ prog' = prog
=============================================================================
