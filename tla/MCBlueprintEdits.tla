-------------------------- MODULE MCBlueprintEdits --------------------------
(* Small instances of BlueprintEdits for TLC. *)
EXTENDS BlueprintEdits, TLC

CONSTANTS a, b, bad

Declared(type, presence) == [type |-> type, presence |-> presence]
SomeDecls == {Declared("string", "required"), Declared("integer", "default"),
              Declared("integer", "optional"), Declared("boolean", "required"),
              Declared("object", "optional"), Declared("map", "optional")}

At(kind, n) == [kind |-> kind, to |-> n]
Plain == [managed |-> FALSE, forEach |-> None, when |-> None, wires |-> {}, raws |-> {}]

\* A managed resource, one of each checked reference, to either name, and
\* texts that read the other namespace, the resource itself and its peer.
SomeBodies ==
    {[Plain EXCEPT !.managed = TRUE], [Plain EXCEPT !.when = At("equals", a)]}
    \cup {[Plain EXCEPT !.wires = {At(k, n)}] : k \in WireKinds, n \in {a, b}}
    \cup {[Plain EXCEPT !.forEach = At(k, b)] : k \in LoopKinds}
    \cup {[Plain EXCEPT !.when = At("bare", b), !.raws = {At("spec", b), At("observed", a)}],
          [Plain EXCEPT !.forEach = At("status", a), !.raws = {At("observed", b)}]}

\* A blueprint with one parameter and one resource: bare, read by a template,
\* or wired from spec.xrd.status.
Start(status, templates) ==
    [params |-> [p \in {a} |-> Declared("string", "required")],
     resources |-> [n \in {a} |-> Plain],
     status |-> status, templates |-> templates]
SomeDocs == {Start({}, {}), Start({a}, {}),
             Start({}, {At("spec", a), At("observed", a)})}
=============================================================================
