--------------------------- MODULE MCSourceServer ---------------------------
(* Small instances of SourceServer for TLC. *)
EXTENDS SourceServer, TLC

CONSTANTS r1, r2, c1, c2, f1, f2, f3

\* The document starts declaring one ref, or every ref.
JustOne == {{r1}}
Declared == {Refs}

\* Replaced documents declare one source, or every source.
OneOrAll == {{r1}, Refs}
=============================================================================
