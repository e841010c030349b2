---------------------------- MODULE UndoHistory ----------------------------
(***************************************************************************)
(* What undo and redo promise: the documents the user has seen stand in    *)
(* one line, the canvas shows one of them, undo and redo move along the    *)
(* line and leave it as it is.  Only a new change alters it: it cuts what  *)
(* lies ahead and goes to the end, and the oldest document is forgotten    *)
(* when more than Cap lie behind.                                          *)
(***************************************************************************)
EXTENDS Integers, Sequences

CONSTANTS Cap, Docs

VARIABLES
    line,   \* the documents, oldest first
    at      \* the one shown; 0 before the first is loaded

Init == line = <<>> /\ at = 0

(* The canvas reads the server's document: at the start, or again later *)
Reload(d) ==
    /\ line' = IF at = 0 THEN <<d>> ELSE [line EXCEPT ![at] = d]
    /\ at' = IF at = 0 THEN 1 ELSE at

Change(d) ==
    /\ at > 0
    /\ LET behind == SubSeq(line, IF at > Cap THEN 2 ELSE 1, at)
       IN  line' = Append(behind, d) /\ at' = Len(behind) + 1

Undo == at > 1 /\ at' = at - 1 /\ UNCHANGED line
Redo == at < Len(line) /\ at' = at + 1 /\ UNCHANGED line

Next == Undo \/ Redo \/ \E d \in Docs : Reload(d) \/ Change(d)
Spec == Init /\ [][Next]_<<line, at>>
=============================================================================
