--------------------------- MODULE MemoryContract ---------------------------
(***************************************************************************)
(* What the target memory promises the node that owns it: how one tracker  *)
(* message with the tracks ids may change the memory, and what decision    *)
(* may be published for it.  TimAuthority uses it in place of the memory;  *)
(* TargetMemory keeps it.                                                  *)
(***************************************************************************)

\* The memory afterwards and the decision published, a pair for each way
\* TargetIdentityMemory.update may go; a proposal leaves the memory alone.
Outcomes(memory, ids) ==
  IF memory.state = "NO_TARGET" THEN {<<memory, memory>>}
  ELSE {<<m, m>> : m \in [state : {"LOCKED"}, track : ids]}
       \cup {<<[memory EXCEPT !.state = s], [memory EXCEPT !.state = s]>> :
               s \in IF memory.state = "LOST" THEN {"LOST"} ELSE {"UNCERTAIN", "LOST"}}
       \cup {<<memory, [memory EXCEPT !.state = "REACQUIRED"]>> : i \in ids}
=============================================================================
