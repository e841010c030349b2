---------------------------- MODULE PinnedCache ----------------------------
(***************************************************************************)
(* What the schema cache promises a reader who only ever fetches: a ref is *)
(* pinned before it is served, it is served with the pinned digest, and    *)
(* once it is served neither its schemas nor its pin change any more, even *)
(* if its tag has moved in the registry.                                   *)
(***************************************************************************)
CONSTANTS Refs, Digests, Absent

VARIABLES
    pin,    \* the digest each ref is pinned to, or Absent
    cache   \* the digest whose schemas each ref is served with, or Absent

Init ==
    /\ pin = [r \in Refs |-> Absent]
    /\ cache = [r \in Refs |-> Absent]

(* A ref not served yet may be pinned, and pinned again to what its tag    *)
(* names by then; one that is served keeps the digest it is served with.   *)
Pin(r, d) ==
    /\ cache[r] \in {Absent, d}
    /\ pin' = [pin EXCEPT ![r] = d]
    /\ UNCHANGED cache

Serve(r) ==
    /\ pin[r] # Absent
    /\ cache[r] = Absent
    /\ cache' = [cache EXCEPT ![r] = pin[r]]
    /\ UNCHANGED pin

Next == \E r \in Refs : Serve(r) \/ \E d \in Digests : Pin(r, d)

Spec == Init /\ [][Next]_<<pin, cache>>
=============================================================================
