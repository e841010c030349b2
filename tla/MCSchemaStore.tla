--------------------------- MODULE MCSchemaStore ---------------------------
(* Small instances of SchemaStore for TLC. *)
EXTENDS SchemaStore, TLC

CONSTANTS t1, t2, t3, serve, cli, r1, r2, d1, d2

\* All threads are goroutines of `cf serve`.
OneProc == [t \in Threads |-> serve]
\* t1 is a `cf provider add` next to the server's goroutines.
WithCli == [t \in Threads |-> IF t = t1 THEN cli ELSE serve]

\* The registry answers the same digest for a ref each time.
FixedTags == [r \in Refs |-> {d1}]
\* r1's tag moves between pulls.
MovingTag == [r \in Refs |-> IF r = r1 THEN Digests ELSE {d1}]

Symm == Permutations(Threads)
=============================================================================
