------------------------------ MODULE Editors ------------------------------
(***************************************************************************)
(* Who edits the blueprint, and how they meet: the canvas with its chain   *)
(* of operations, its undo stacks and its previews (web-proto/js/store.js),*)
(* a script or an agent's MCP tools (internal/mcp), and the handlers that  *)
(* write the document under a mutex (internal/api/blueprint.go, adopt.go). *)
(* `cf mcp` is a process of its own: it has the same handlers, the same    *)
(* file and another mutex.                                                 *)
(*                                                                         *)
(* A document is the set of the items (parameters, resources) it declares; *)
(* a revision is an ETag over its bytes, so it stands for the document.    *)
(***************************************************************************)
EXTENDS Integers, FiniteSets, SequencesExt

CONSTANTS
    Items,          \* names of parameters and resources
    Vias,           \* how the canvas edits: "replace", "draft", "param"
    ScriptProcess,  \* "serve", or "mcp" for the tools of `cf mcp`
    WaitingWrites,  \* <<client, kind>> of the writes that may find a source to fetch
    HistoryCap,     \* undo steps the canvas keeps (50)
    InitialDocs,    \* what the file may hold at the start
    MaxEdits,       \* operations the user of the canvas and the script start
    MaxLoads,       \* GETs of the canvas outside its chain, the one at boot first
    None, Refused

ASSUME EditorsAssumption ==
    /\ Vias \subseteq {"replace", "draft", "param"}
    /\ ScriptProcess \in {"serve", "mcp"}
    /\ InitialDocs \subseteq SUBSET Items
    /\ HistoryCap \in Nat \ {0}
    /\ MaxEdits \in Nat /\ MaxLoads \in Nat

Docs == SUBSET Items
Operations ==
    [via : Vias \cup {"import", "undo", "redo"}, kind : {"put", "add", "remove"},
     item : Items \cup {None}, doc : Docs \cup {None}]
Runs == [op : Operations, prev : Docs, target : Docs, sole : BOOLEAN]

ASSUME NamesAssumption ==
    /\ None \notin Items /\ None \notin Runs
    /\ \A doc \in Docs : doc # None /\ doc # Refused

VARIABLES
    file,     \* the blueprint on disk
    req,      \* the write each client has under way
    canvas,   \* the canvas's document, its undo and redo stacks
    queue,    \* operations waiting in the canvas's chain
    running,  \* the operation whose request is under way, or None; ghost field
              \* sole: nobody else has changed its item meanwhile
    load,     \* a GET of the canvas outside the chain
    output,   \* the generate cycle: timer, requests under way, result
    view,     \* the document the script last read, or None
    left,     \* edits and loads still to come
    want,     \* ghost: what the user was told of an item: item -> present?
    behind,   \* ghost: a write nobody told the canvas of, since its newest preview
    crossed   \* ghost: the items others wrote while a write had let go of the mutex

vars == <<file, req, canvas, queue, running, load, output, view, left, want, behind, crossed>>

Clients == {"canvas", "script"}
Home(c) == IF c = "script" THEN ScriptProcess ELSE "serve"

-----------------------------------------------------------------------------
(* The handlers *)

NoRequest == [pc |-> "none", kind |-> "put", item |-> None, match |-> None,
              waited |-> FALSE, doc |-> {}]
PutRequest(doc, match) == [NoRequest EXCEPT !.pc = "sent", !.doc = doc, !.match = match]
EditRequest(kind, item) == [NoRequest EXCEPT !.pc = "sent", !.kind = kind, !.item = item]
Answer(doc) == [NoRequest EXCEPT !.pc = "answered", !.doc = doc]

Applied(kind, item, doc) == IF kind = "add" THEN doc \cup {item} ELSE doc \ {item}
Changed(old, new) == {i \in Items : (i \in old) # (i \in new)}
Becomes(c, r) == req' = [req EXCEPT ![c] = r]
MutexFree(p) == \A c \in Clients : Home(c) = p => req[c].pc # "held"
ClientsUnchanged == UNCHANGED <<canvas, queue, running, load, output, view, left>>

(* Mutants: the revision is compared before the mutex is taken; the routes *)
(* of one item load the document before they take it.                      *)
Mut_CompareEarly(c) == req[c].match # None \/ MutexFree(Home(c))
Mut_LoadEarly(c) == req[c].kind # "put" \/ MutexFree(Home(c))
Exclusive(c) == MutexFree(Home(c))

(* The mutex, If-Match, and, for the routes of one parameter or resource,  *)
(* the edit of the document as it stands, refused if the item is there     *)
(* already or is not there.  A whole document (PUT, import, adopt) was     *)
(* made by the client.                                                     *)
Lock(c) ==
    LET r == req[c] IN
    /\ r.pc = "sent" /\ Exclusive(c)
    /\ IF \/ r.match \notin {None, file}
          \/ r.kind # "put" /\ Applied(r.kind, r.item, file) = file
       THEN Becomes(c, Answer(Refused))
       ELSE Becomes(c, [r EXCEPT !.pc = "held",
                          !.doc = IF r.kind = "put" THEN @ ELSE Applied(r.kind, r.item, file)])
    /\ ClientsUnchanged /\ UNCHANGED <<file, want, behind, crossed>>

(* syncBlueprintSourcesLocked gives the mutex away while it waits for the  *)
(* sources that the document, replaced or edited, declares and the server  *)
(* neither holds nor has cached.                                           *)
Unlock(c) ==
    /\ req[c].pc = "held" /\ ~req[c].waited /\ <<c, req[c].kind>> \in WaitingWrites
    /\ Becomes(c, [req[c] EXCEPT !.pc = "waiting"])
    /\ ClientsUnchanged /\ UNCHANGED <<file, want, behind, crossed>>
Relock(c) ==
    /\ req[c].pc = "waiting" /\ MutexFree(Home(c))
    /\ Becomes(c, [req[c] EXCEPT !.pc = "held", !.waited = TRUE])
    /\ ClientsUnchanged /\ UNCHANGED <<file, want, behind, crossed>>

(* A document that does not validate, a source that fails, a write that    *)
(* fails: nothing is changed.                                              *)
Reject(c) ==
    /\ req[c].pc = "held"
    /\ Becomes(c, Answer(Refused))
    /\ crossed' = [crossed EXCEPT ![c] = {}]
    /\ ClientsUnchanged /\ UNCHANGED <<file, want, behind>>

(* The file is replaced in one step, by a rename *)
Persist(c) ==
    LET doc == req[c].doc IN
    /\ req[c].pc = "held"
    /\ file' = doc
    /\ Becomes(c, Answer(doc))
    /\ behind' = (behind \/ c = "script")
    /\ crossed' = [d \in Clients |->
                     IF d = c THEN {}
                     ELSE IF req[d].pc = "waiting" THEN crossed[d] \cup Changed(file, doc)
                     ELSE crossed[d]]
    /\ LET changed == Changed(file, doc) IN
         IF c = "canvas" THEN UNCHANGED <<want, running>>
         ELSE /\ want' = [i \in DOMAIN want \ changed |-> want[i]]
              /\ running' = IF running = None \/ running.op.item \notin changed THEN running
                            ELSE [running EXCEPT !.sole = FALSE]
    /\ UNCHANGED <<canvas, queue, load, output, view, left>>

Handle(c) == Lock(c) \/ Unlock(c) \/ Relock(c) \/ Reject(c) \/ Persist(c)

-----------------------------------------------------------------------------
(* The canvas *)

(* An operation: a change of an item, by replacing the whole document or   *)
(* by a route of its own; an imported document; undo; redo.  A "draft" is  *)
(* a whole document made when the user clicked, all others are made when   *)
(* their turn comes.                                                       *)
Change(via, kind, item) == [via |-> via, kind |-> kind, item |-> item, doc |-> None]
Import(doc) == [via |-> "import", kind |-> "put", item |-> None, doc |-> doc]
TimeTravel(how) == [via |-> how, kind |-> "put", item |-> None, doc |-> None]

(* Mutant: every replacing operation is a draft. *)
Mut_Queued(op) ==
    IF op.via \in {"draft", "replace"} THEN [op EXCEPT !.doc = Applied(op.kind, op.item, canvas.doc)] ELSE op
Queued(op) ==
    IF op.via = "draft" THEN [op EXCEPT !.doc = Applied(op.kind, op.item, canvas.doc)] ELSE op

Offered ==
    {Change(via, IF i \in canvas.doc THEN "remove" ELSE "add", i) : via \in Vias, i \in Items}
        \cup {Import({}), TimeTravel("undo"), TimeTravel("redo")}

Enqueue(op) ==
    /\ canvas.doc # None /\ op \in Offered
    /\ left.edits > 0 /\ left' = [left EXCEPT !.edits = @ - 1]
    /\ queue' = Append(queue, Queued(op))
    /\ UNCHANGED <<file, req, canvas, running, load, output, view, want, behind, crossed>>

Stack(via) == IF via = "undo" THEN canvas.undo ELSE canvas.redo
WithStack(via, s) ==
    IF via = "undo" THEN [canvas EXCEPT !.undo = s] ELSE [canvas EXCEPT !.redo = s]

RequestOf(op) ==
    CASE op.via = "param"             -> EditRequest(op.kind, op.item)
      [] op.via \in {"undo", "redo"}  -> PutRequest(Last(Stack(op.via)), None)
      [] op.doc # None                -> PutRequest(op.doc, None)
      [] OTHER -> PutRequest(Applied(op.kind, op.item, canvas.doc), None)

(* The chain fires an operation when the one before it has settled.  It    *)
(* remembers the document the canvas shows then; undo and redo take their  *)
(* target off its stack.  With nothing to undo the operation just ends.    *)
Start ==
    /\ running = None /\ queue # <<>>
    /\ LET op == Head(queue)
           travels == op.via \in {"undo", "redo"} IN
         IF travels /\ Stack(op.via) = <<>>
         THEN UNCHANGED <<req, running, canvas, want>>
         ELSE /\ Becomes("canvas", RequestOf(op))
              /\ running' = [op |-> op, prev |-> canvas.doc, target |-> RequestOf(op).doc, sole |-> TRUE]
              /\ canvas' = IF travels THEN WithStack(op.via, Front(Stack(op.via))) ELSE canvas
              /\ want' = IF op.item = None THEN <<>>
                         ELSE [i \in DOMAIN want \ {op.item} |-> want[i]]
    /\ queue' = Tail(queue)
    /\ UNCHANGED <<file, load, output, view, left, behind, crossed>>

(* Mutant: the stack grows without bound. *)
Mut_Recorded(undo, prev) == Append(undo, prev)
Recorded(undo, prev) ==
    LET longer == Append(undo, prev) IN
    IF Len(longer) > HistoryCap THEN Tail(longer) ELSE longer

(* Mutant: undo puts the document it restores on the redo stack. *)
Mut_Settled(op, prev, doc) ==
    IF op.via \in {"undo", "redo"}
    THEN LET other == IF op.via = "undo" THEN "redo" ELSE "undo"
         IN  [WithStack(other, Append(Stack(other), doc)) EXCEPT !.doc = doc]
    ELSE [doc |-> doc, undo |-> Recorded(canvas.undo, prev), redo |-> <<>>]
Settled(op, prev, doc) ==
    IF op.via \in {"undo", "redo"}
    THEN LET other == IF op.via = "undo" THEN "redo" ELSE "undo"
         IN  [WithStack(other, Append(Stack(other), prev)) EXCEPT !.doc = doc]
    ELSE [doc |-> doc, undo |-> Recorded(canvas.undo, prev), redo |-> <<>>]

(* Every document the canvas shows arms the timer of the next preview *)
Shown == output' = [output EXCEPT !.timer = TRUE]

Succeed ==
    /\ req["canvas"].pc = "answered" /\ req["canvas"].doc # Refused
    /\ LET op == running.op IN
         /\ canvas' = Settled(op, running.prev, req["canvas"].doc)
         /\ want' = IF op.item = None \/ ~running.sole THEN want
                    ELSE [i \in DOMAIN want \cup {op.item} |->
                             IF i = op.item THEN op.kind = "add" ELSE want[i]]
    /\ running' = None /\ Becomes("canvas", NoRequest)
    /\ Shown
    /\ UNCHANGED <<file, queue, load, view, left, behind, crossed>>

(* Mutant: an operation that fails is never settled. *)
Mut_Fail == req["canvas"].pc = "answered" /\ UNCHANGED vars
(* The server refused, or its answer was lost, whatever it did before *)
Fail ==
    /\ req["canvas"].pc = "answered"
    /\ canvas' = IF running.op.via \in {"undo", "redo"}
                 THEN WithStack(running.op.via, Append(Stack(running.op.via), running.target)) ELSE canvas
    /\ running' = None /\ Becomes("canvas", NoRequest)
    /\ behind' = (behind \/ req["canvas"].doc # Refused)
    /\ UNCHANGED <<file, queue, load, output, view, left, want, crossed>>

(* A GET outside the chain: at boot, and after a route of sources that     *)
(* changed the document.                                                   *)
LoadDoc ==
    /\ load.pc = "none" /\ left.loads > 0
    /\ left' = [left EXCEPT !.loads = @ - 1]
    /\ load' = [pc |-> "sent", doc |-> None]
    /\ UNCHANGED <<file, req, canvas, queue, running, output, view, want, behind, crossed>>
GetBlueprint ==
    /\ load.pc = "sent" /\ load' = [pc |-> "served", doc |-> file]
    /\ behind' = FALSE
    /\ UNCHANGED <<file, req, canvas, queue, running, output, view, left, want, crossed>>
Loaded ==
    /\ load.pc = "served" /\ load' = [pc |-> "none", doc |-> None]
    /\ canvas' = [canvas EXCEPT !.doc = load.doc]
    /\ Shown
    /\ UNCHANGED <<file, req, queue, running, view, left, want, behind, crossed>>

(* The preview: a debounced POST /api/generate.  The handler renders the   *)
(* document it finds; of the answers only the newest request's counts.     *)
(* The requests stand in the order they were sent (their number seq).      *)
Generate ==
    /\ output.timer
    /\ output' = [output EXCEPT !.timer = FALSE, !.asked = Append(@, None), !.newest = TRUE]
    /\ UNCHANGED <<file, req, canvas, queue, running, load, view, left, want, behind, crossed>>
Newest(n) == output.newest /\ n = Len(output.asked)
Rendered(n) ==
    /\ output.asked[n] = None /\ MutexFree("serve")
    /\ output' = [output EXCEPT !.asked[n] = file]
    /\ behind' = (behind /\ ~Newest(n))
    /\ UNCHANGED <<file, req, canvas, queue, running, load, view, left, want, crossed>>
(* Mutant: every answer counts. *)
Mut_Preview(n, doc) ==
    [output EXCEPT !.asked = RemoveAt(@, n), !.newest = output.newest /\ ~Newest(n), !.shown = doc]
Preview(n, doc) ==
    [output EXCEPT !.asked = RemoveAt(@, n), !.newest = output.newest /\ ~Newest(n),
                   !.shown = IF Newest(n) THEN doc ELSE @]
Answered(n) ==
    /\ output.asked[n] # None /\ output' \in {Preview(n, output.asked[n]), Preview(n, None)}
    /\ UNCHANGED <<file, req, canvas, queue, running, load, view, left, want, behind, crossed>>

-----------------------------------------------------------------------------
(* The script: get_blueprint, then replace_blueprint with or without the   *)
(* revision it read, or the tool of one parameter or resource.             *)
ScriptRead ==
    /\ req["script"].pc = "none" /\ left.edits > 0
    /\ view = None /\ view' = file
    /\ UNCHANGED <<file, req, canvas, queue, running, load, output, left, want, behind, crossed>>
ScriptWrite(r) ==
    /\ req["script"].pc = "none" /\ left.edits > 0
    /\ left' = [left EXCEPT !.edits = @ - 1]
    /\ Becomes("script", r)
    /\ UNCHANGED <<file, canvas, queue, running, load, output, view, want, behind, crossed>>
ScriptReplace(i) ==
    /\ view # None
    /\ \E match \in {view, None}, kind \in {"add", "remove"} :
          /\ Applied(kind, i, view) # view
          /\ ScriptWrite(PutRequest(Applied(kind, i, view), match))
ScriptEdit(i) == \E kind \in {"add", "remove"} : ScriptWrite(EditRequest(kind, i))
ScriptDone ==
    /\ req["script"].pc = "answered"
    /\ view' = None
    /\ Becomes("script", NoRequest)
    /\ UNCHANGED <<file, canvas, queue, running, load, output, left, want, behind, crossed>>

-----------------------------------------------------------------------------
Init ==
    /\ file \in InitialDocs
    /\ req = [c \in Clients |-> NoRequest]
    /\ canvas = [doc |-> None, undo |-> <<>>, redo |-> <<>>]
    /\ queue = <<>> /\ running = None
    /\ load = [pc |-> "none", doc |-> None]
    /\ output = [timer |-> FALSE, asked |-> <<>>, newest |-> FALSE, shown |-> None]
    /\ view = None
    /\ left = [edits |-> MaxEdits, loads |-> MaxLoads]
    /\ want = <<>> /\ behind = FALSE
    /\ crossed = [c \in Clients |-> {}]

Next ==
    \/ \E c \in Clients : Handle(c)
    \/ canvas.doc # None /\ \E op \in Offered : Enqueue(op)
    \/ Start \/ Succeed \/ Fail
    \/ LoadDoc \/ GetBlueprint \/ Loaded
    \/ Generate \/ \E n \in DOMAIN output.asked : Rendered(n) \/ Answered(n)
    \/ ScriptRead \/ ScriptDone \/ \E i \in Items : ScriptReplace(i) \/ ScriptEdit(i)

(* Handlers run on, and the browser delivers every answer or its loss *)
Fairness ==
    /\ \A c \in Clients :
          /\ WF_vars(Lock(c)) /\ WF_vars(Relock(c)) /\ WF_vars(Reject(c) \/ Persist(c))
    /\ WF_vars(Start) /\ WF_vars(Succeed \/ Fail)

Spec == Init /\ [][Next]_vars /\ Fairness

-----------------------------------------------------------------------------
(* Properties *)

TypeOK ==
    /\ file \in Docs /\ view \in Docs \cup {None}
    /\ \A c \in Clients :
          /\ req[c].pc \in {"none", "sent", "held", "waiting", "answered"}
          /\ req[c].doc \in Docs \cup {Refused}
    /\ canvas.doc \in Docs \cup {None}
    /\ \A s \in {canvas.undo, canvas.redo} : s \in Seq(Docs) /\ Len(s) <= HistoryCap
    /\ (running = None) = (req["canvas"].pc = "none")
    /\ DOMAIN want \subseteq Items

(* A replace that names a revision never overwrites anything its author    *)
(* has not seen: the document it replaces is the one of that revision,     *)
(* though the comparison and the write are two steps.                      *)
ConditionalReplaceKeeps ==
    [][\A c \in Clients : req[c].match # None /\ Persist(c) => file = req[c].match]_vars

(* A route of one parameter or resource loads the whole document and       *)
(* writes it back, yet changes that item only: the others are left as they *)
(* are by then.  One that let go of the mutex to wait for a source does    *)
(* put back what it had loaded, but only of the items that were written    *)
(* while it waited.                                                        *)
EditsChangeOneItem ==
    [][\A c \in Clients : req[c].kind # "put" /\ Persist(c) =>
          Changed(Applied(req[c].kind, req[c].item, file), file') \subseteq crossed[c]]_vars

(* A change the canvas told its user had been saved is in the file until   *)
(* the user undoes it, imports a document or changes it again, or another  *)
(* client changes that very item: no later operation of the canvas         *)
(* resurrects what was deleted or drops what was added, however fast the   *)
(* user clicks and whatever fails in between.                              *)
OwnEditsKept == \A i \in DOMAIN want : want[i] = (i \in file)

(* Undo and redo walk a line of documents and return to each of them,      *)
(* through refusals, lost answers and the edits of others.                 *)
Traveling == running # None /\ running.op.via \in {"undo", "redo"}
UndoDocs ==
    canvas.undo \o (IF Traveling /\ running.op.via = "undo" THEN <<running.target>> ELSE <<>>)
HistoryLine ==
    IF canvas.doc = None THEN <<>>
    ELSE UndoDocs \o <<canvas.doc>>
           \o (IF Traveling /\ running.op.via = "redo" THEN <<running.target>> ELSE <<>>)
           \o Reverse(canvas.redo)
HistoryAt == IF canvas.doc = None THEN 0 ELSE Len(UndoDocs) + 1
History == INSTANCE UndoHistory WITH Cap <- HistoryCap, line <- HistoryLine, at <- HistoryAt
HistoryKept == History!Spec

(* When nothing is under way the preview is of the document on disk, or    *)
(* there is none: a slow answer never replaces a newer one, and no change  *)
(* of the canvas goes without a preview.                                   *)
PreviewIsCurrent ==
    ~output.timer /\ output.asked = <<>> /\ running = None /\ load.pc = "none" /\ canvas.doc # None
        /\ ~behind => output.shown \in {None, file}

(* A failed operation does not stop the ones behind it *)
OperationsSettle == (queue # <<>>) ~> (queue = <<>> /\ running = None)
=============================================================================
