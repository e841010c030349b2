--------------------------- MODULE Editors_proofs ---------------------------
(***************************************************************************)
(* Theorems about the clients that edit the blueprint, for any items, any  *)
(* documents at the start, any number of operations and any depth of undo. *)
(***************************************************************************)
EXTENDS Editors, SequenceTheorems, TLAPS

-----------------------------------------------------------------------------
(* Types.  A request that is under way carries a document, and one of the  *)
(* routes of an item names its item.                                       *)

Requests ==
    [pc : {"none", "sent", "held", "waiting", "answered"}, kind : {"put", "add", "remove"},
     item : Items \cup {None}, match : Docs \cup {None}, waited : BOOLEAN, doc : Docs \cup {Refused}]
WellFormed ==
    {r \in Requests : /\ r.pc \in {"sent", "held", "waiting"} => r.doc \in Docs
                      /\ r.kind # "put" => r.item \in Items}

(* Operations as the canvas makes them.                                    *)
Made ==
    {op \in Operations :
        /\ op.via \in Vias => op.item \in Items /\ op.kind \in {"add", "remove"}
        /\ op.via \in {"replace", "param"} => op.doc = None
        /\ op.via \notin Vias => op.item = None
        /\ op.via \in {"import", "draft"} => op.doc \in Docs
        /\ op.via \in {"undo", "redo"} => op.doc = None}

TypedRequests == file \in Docs /\ view \in Docs \cup {None} /\ req \in [Clients -> WellFormed]
TypedCanvas ==
    /\ canvas \in [doc : Docs \cup {None}, undo : Seq(Docs), redo : Seq(Docs)]
    /\ queue \in Seq(Made)
    /\ running # None => running \in Runs /\ running.op \in Made
    /\ running = None <=> req["canvas"].pc = "none"
    /\ canvas.doc = None => queue = <<>> /\ running = None
    /\ left \in [edits : Nat, loads : Nat]
    /\ load \in [pc : {"none", "sent", "served"}, doc : Docs \cup {None}]
    /\ load.pc = "served" => load.doc \in Docs
    /\ DOMAIN want \subseteq Items
Steps == Len(canvas.undo) + Len(canvas.redo)
Bounded ==
    /\ Steps <= HistoryCap
    /\ Traveling => Steps + 1 <= HistoryCap
TypedOutput ==
    /\ output \in [timer : BOOLEAN, asked : Seq(Docs \cup {None}), newest : BOOLEAN, shown : Docs \cup {None}]
    /\ output.newest => output.asked # <<>>
    /\ behind \in BOOLEAN

Typed == TypedRequests /\ TypedCanvas /\ Bounded /\ TypedOutput

(* The sizes of two stacks together                                        *)
LEMMA Sums ==
    /\ \A m, n \in Nat : m + n \in Nat /\ m <= m + n
    /\ \A m, n, k \in Nat : m <= n /\ n <= k => m <= k
OBVIOUS

LEMMA AppliedTyped ==
    ASSUME NEW kind, NEW item \in Items, NEW doc \in Docs
    PROVE  Applied(kind, item, doc) \in Docs
BY DEF Applied, Docs

LEMMA RequestsMade ==
    /\ NoRequest \in WellFormed
    /\ \A doc \in Docs \cup {Refused} : Answer(doc) \in WellFormed
    /\ \A doc \in Docs, match \in Docs \cup {None} : PutRequest(doc, match) \in WellFormed
    /\ \A kind \in {"add", "remove"}, item \in Items : EditRequest(kind, item) \in WellFormed
<1>1. {} \in Docs BY DEF Docs
<1>2. NoRequest \in Requests BY <1>1 DEF NoRequest, Requests
<1>3. NoRequest \in WellFormed BY <1>2 DEF WellFormed, NoRequest
<1>4. ASSUME NEW doc \in Docs \cup {Refused} PROVE Answer(doc) \in WellFormed
  BY <1>2 DEF Answer, NoRequest, Requests, WellFormed
<1>5. ASSUME NEW doc \in Docs, NEW match \in Docs \cup {None}
      PROVE  PutRequest(doc, match) \in WellFormed
  BY <1>2 DEF PutRequest, NoRequest, Requests, WellFormed
<1>6. ASSUME NEW kind \in {"add", "remove"}, NEW item \in Items
      PROVE  EditRequest(kind, item) \in WellFormed
  BY <1>1, <1>2 DEF EditRequest, NoRequest, Requests, WellFormed
<1> QED BY <1>3, <1>4, <1>5, <1>6

LEMMA BecomesTyped ==
    ASSUME NEW c \in Clients, NEW r \in WellFormed, Becomes(c, r), req \in [Clients -> WellFormed]
    PROVE  /\ req' \in [Clients -> WellFormed] /\ req'[c] = r /\ req'[c].pc = r.pc
           /\ \A d \in Clients \ {c} : req'[d] = req[d]
BY DEF Becomes

LEMMA InitTyped == Init => Typed
<1>1. SUFFICES ASSUME Init PROVE Typed OBVIOUS
<1>2. TypedRequests BY <1>1, EditorsAssumption, RequestsMade DEF Init, TypedRequests, Docs
<1>3. TypedCanvas
  <2>1. canvas \in [doc : Docs \cup {None}, undo : Seq(Docs), redo : Seq(Docs)]
    BY <1>1, EmptySeq DEF Init
  <2>2. queue \in Seq(Made) BY <1>1, EmptySeq DEF Init
  <2>3. req["canvas"].pc = "none" BY <1>1 DEF Init, Clients, NoRequest
  <2>4. DOMAIN want = {} BY <1>1 DEF Init
  <2> QED BY <1>1, <2>1, <2>2, <2>3, <2>4, EditorsAssumption DEF Init, TypedCanvas
<1>4. Bounded
  <2>1. ~Traveling BY <1>1 DEF Init, Traveling
  <2>2. Len(canvas.undo) = 0 /\ Len(canvas.redo) = 0 BY <1>1, EmptySeq DEF Init
  <2>3. Steps = 0 BY <2>2 DEF Steps
  <2> QED BY <2>1, <2>3, EditorsAssumption DEF Bounded
<1>5. TypedOutput BY <1>1, EmptySeq DEF Init, TypedOutput
<1> QED BY <1>2, <1>3, <1>4, <1>5 DEF Typed

-----------------------------------------------------------------------------
(* A step of a handler changes one request, and of the clients only what   *)
(* the ghosts remember.                                                    *)
LEMMA HandleStep ==
    ASSUME Typed, NEW c \in Clients, Handle(c)
    PROVE  /\ req' \in [Clients -> WellFormed] /\ file' \in Docs
           /\ \A d \in Clients \ {c} : req'[d] = req[d]
           /\ req[c].pc \notin {"none", "answered"} /\ req'[c].pc # "none"
           /\ UNCHANGED <<canvas, queue, load, output, view, left>>
           /\ running' = running \/ (running # None /\ running' = [running EXCEPT !.sole = FALSE])
           /\ DOMAIN want' \subseteq DOMAIN want
           /\ behind' \in BOOLEAN
<1> USE DEF Typed
<1>1. req \in [Clients -> WellFormed] /\ file \in Docs /\ req[c] \in WellFormed /\ behind \in BOOLEAN
  BY DEF TypedRequests, TypedOutput
<1>2. CASE Lock(c)
  <2>1. req[c].pc = "sent" /\ req[c].doc \in Docs BY <1>1, <1>2 DEF Lock, WellFormed
  <2> DEFINE doc == IF req[c].kind = "put" THEN req[c].doc ELSE Applied(req[c].kind, req[c].item, file)
             r == [req[c] EXCEPT !.pc = "held", !.doc = doc]
  <2>2. doc \in Docs BY <1>1, <2>1, AppliedTyped DEF WellFormed
  <2>3. r \in WellFormed /\ r.pc = "held" BY <1>1, <2>2 DEF WellFormed, Requests
  <2>4. Answer(Refused) \in WellFormed /\ Answer(Refused).pc = "answered"
    BY RequestsMade DEF Answer, NoRequest
  <2>5. Becomes(c, Answer(Refused)) \/ Becomes(c, r) BY <1>2 DEF Lock
  <2>6. UNCHANGED <<file, want, behind, canvas, queue, running, load, output, view, left>>
    BY <1>2 DEF Lock, ClientsUnchanged
  <2> HIDE DEF r
  <2>7. /\ req' \in [Clients -> WellFormed] /\ req'[c].pc # "none"
        /\ \A d \in Clients \ {c} : req'[d] = req[d]
    <3>1. CASE Becomes(c, r) BY <1>1, <2>3, <3>1, BecomesTyped
    <3>2. CASE Becomes(c, Answer(Refused)) BY <1>1, <2>4, <3>2, BecomesTyped
    <3> QED BY <2>5, <3>1, <3>2
  <2> QED BY <1>1, <2>1, <2>6, <2>7
<1>3. CASE Unlock(c)
  <2> DEFINE r == [req[c] EXCEPT !.pc = "waiting"]
  <2>1. req[c].pc = "held" /\ Becomes(c, r) BY <1>3 DEF Unlock
  <2>2. r \in WellFormed /\ r.pc = "waiting" BY <1>1, <2>1 DEF WellFormed, Requests
  <2>3. UNCHANGED <<file, want, behind, canvas, queue, running, load, output, view, left>>
    BY <1>3 DEF Unlock, ClientsUnchanged
  <2> HIDE DEF r
  <2>4. /\ req' \in [Clients -> WellFormed] /\ req'[c].pc # "none"
        /\ \A d \in Clients \ {c} : req'[d] = req[d]
    BY <1>1, <2>1, <2>2, BecomesTyped
  <2> QED BY <1>1, <2>1, <2>3, <2>4
<1>4. CASE Relock(c)
  <2> DEFINE r == [req[c] EXCEPT !.pc = "held", !.waited = TRUE]
  <2>1. req[c].pc = "waiting" /\ Becomes(c, r) BY <1>4 DEF Relock
  <2>2. r \in WellFormed /\ r.pc = "held" BY <1>1, <2>1 DEF WellFormed, Requests
  <2>3. UNCHANGED <<file, want, behind, canvas, queue, running, load, output, view, left>>
    BY <1>4 DEF Relock, ClientsUnchanged
  <2> HIDE DEF r
  <2>4. /\ req' \in [Clients -> WellFormed] /\ req'[c].pc # "none"
        /\ \A d \in Clients \ {c} : req'[d] = req[d]
    BY <1>1, <2>1, <2>2, BecomesTyped
  <2> QED BY <1>1, <2>1, <2>3, <2>4
<1>5. CASE Reject(c)
  <2>1. req[c].pc = "held" /\ Becomes(c, Answer(Refused)) BY <1>5 DEF Reject
  <2>2. Answer(Refused) \in WellFormed /\ Answer(Refused).pc = "answered"
    BY RequestsMade DEF Answer, NoRequest
  <2>3. UNCHANGED <<file, want, behind, canvas, queue, running, load, output, view, left>>
    BY <1>5 DEF Reject, ClientsUnchanged
  <2>4. /\ req' \in [Clients -> WellFormed] /\ req'[c].pc # "none"
        /\ \A d \in Clients \ {c} : req'[d] = req[d]
    BY <1>1, <2>1, <2>2, BecomesTyped
  <2> QED BY <1>1, <2>1, <2>3, <2>4
<1>6. CASE Persist(c)
  <2>1. req[c].pc = "held" /\ req[c].doc \in Docs BY <1>1, <1>6 DEF Persist, WellFormed
  <2>2. Becomes(c, Answer(req[c].doc)) /\ file' = req[c].doc BY <1>6 DEF Persist
  <2>3. Answer(req[c].doc) \in WellFormed /\ Answer(req[c].doc).pc = "answered"
    BY <2>1, RequestsMade DEF Answer, NoRequest
  <2>4. UNCHANGED <<canvas, queue, load, output, view, left>> BY <1>6 DEF Persist
  <2>5. running' = running \/ (running # None /\ running' = [running EXCEPT !.sole = FALSE])
    <3>1. CASE c = "canvas" BY <1>6, <3>1 DEF Persist
    <3>2. CASE c # "canvas" BY <1>6, <3>2, Zenon DEF Persist
    <3> QED BY <3>1, <3>2
  <2>6. DOMAIN want' \subseteq DOMAIN want BY <1>6 DEF Persist
  <2>7. behind' \in BOOLEAN BY <1>1, <1>6 DEF Persist
  <2> QED BY <1>1, <2>1, <2>2, <2>3, <2>4, <2>5, <2>6, <2>7, BecomesTyped
<1> QED BY <1>2, <1>3, <1>4, <1>5, <1>6 DEF Handle

LEMMA HandleTyped ==
    ASSUME Typed, NEW c \in Clients, Handle(c)
    PROVE  Typed'
<1>1. TypedRequests' BY HandleStep DEF Typed, TypedRequests
<1>2. "canvas" \in Clients BY DEF Clients
<1>3. running' # None <=> running # None
  <2>1. ASSUME running # None, running' = [running EXCEPT !.sole = FALSE] PROVE running' # None
    <3>1. running \in Runs BY <2>1 DEF Typed, TypedCanvas
    <3>2. running' \in Runs BY <2>1, <3>1 DEF Runs
    <3> QED BY <3>2, NamesAssumption
  <2> QED BY <2>1, HandleStep
<1>4. running' # None => running' \in Runs /\ running'.op = running.op
  BY <1>3, HandleStep DEF Typed, TypedCanvas, Runs
<1>5. TypedCanvas'
  <2>1. running' = None <=> req'["canvas"].pc = "none"
    BY <1>2, <1>3, HandleStep DEF Typed, TypedCanvas
  <2> QED BY <1>3, <1>4, <2>1, HandleStep DEF Typed, TypedCanvas
<1>6. Bounded'
  <2>1. Traveling' <=> Traveling BY <1>3, <1>4 DEF Traveling
  <2>2. Steps' = Steps BY HandleStep DEF Steps
  <2>3. HistoryCap' = HistoryCap OBVIOUS
  <2> QED BY <2>1, <2>2, <2>3 DEF Typed, Bounded
<1>7. TypedOutput' BY HandleStep DEF Typed, TypedOutput
<1> QED BY <1>1, <1>5, <1>6, <1>7 DEF Typed

-----------------------------------------------------------------------------
(* Stacks *)

LEMMA FrontLast ==
    ASSUME NEW S, NEW s \in Seq(S), s # <<>>
    PROVE  /\ Front(s) \in Seq(S) /\ Last(s) \in S
           /\ Len(Front(s)) = Len(s) - 1 /\ Len(s) \in Nat \ {0}
           /\ s = Append(Front(s), Last(s))
<1>1. PICK t \in Seq(S), e \in S : s = Append(t, e) BY SequenceEmptyOrAppend
<1>2. Len(s) = Len(t) + 1 /\ Len(t) \in Nat /\ s[Len(t) + 1] = e /\ s \in Seq(S)
  BY <1>1, AppendProperties, LenProperties
<1>3. Last(s) = e BY <1>2 DEF Last
<1>4. \A i \in 1..Len(t) : s[i] = t[i] /\ t[i] \in S BY <1>1, AppendProperties, ElementOfSeq
<1>5. Front(s) = SubSeq(s, 1, Len(t)) BY <1>2 DEF Front
<1>6. /\ Front(s) \in Seq(S) /\ Len(Front(s)) = Len(t)
      /\ \A i \in 1..Len(t) : Front(s)[i] = s[i]
  BY <1>2, <1>4, <1>5, SubSeqProperties
<1>7. Front(s) = t BY <1>4, <1>6, SeqEqual
<1> QED BY <1>1, <1>2, <1>3, <1>6, <1>7

LEMMA RecordedTyped ==
    ASSUME NEW undo \in Seq(Docs), NEW prev \in Docs, Len(undo) <= HistoryCap
    PROVE  Recorded(undo, prev) \in Seq(Docs) /\ Len(Recorded(undo, prev)) <= HistoryCap
<1> DEFINE longer == Append(undo, prev)
<1>1. longer \in Seq(Docs) /\ longer # <<>> /\ Len(longer) = Len(undo) + 1 BY AppendProperties
<1>2. Len(undo) \in Nat /\ HistoryCap \in Nat BY LenProperties, EditorsAssumption
<1> HIDE DEF longer
<1>3. Tail(longer) \in Seq(Docs) /\ Len(Tail(longer)) = Len(longer) - 1 BY <1>1, HeadTailProperties
<1>4. Recorded(undo, prev) = IF Len(longer) > HistoryCap THEN Tail(longer) ELSE longer
  BY DEF Recorded, longer
<1> QED BY <1>1, <1>2, <1>3, <1>4

LEMMA StackTyped ==
    ASSUME TypedCanvas, NEW via \in {"undo", "redo"}
    PROVE  /\ Stack(via) \in Seq(Docs)
           /\ \A s \in Seq(Docs) :
                 /\ WithStack(via, s) \in [doc : Docs \cup {None}, undo : Seq(Docs), redo : Seq(Docs)]
                 /\ WithStack(via, s).doc = canvas.doc
                 /\ Len(WithStack(via, s).undo) + Len(WithStack(via, s).redo)
                       = Len(canvas.undo) + Len(canvas.redo) - Len(Stack(via)) + Len(s)
<1>1. canvas \in [doc : Docs \cup {None}, undo : Seq(Docs), redo : Seq(Docs)] BY DEF TypedCanvas
<1>2. Len(canvas.undo) \in Nat /\ Len(canvas.redo) \in Nat BY <1>1, LenProperties
<1>3. CASE via = "undo"
  <2>1. Stack(via) = canvas.undo BY <1>3 DEF Stack
  <2>2. ASSUME NEW s \in Seq(Docs)
        PROVE  /\ WithStack(via, s) \in [doc : Docs \cup {None}, undo : Seq(Docs), redo : Seq(Docs)]
               /\ WithStack(via, s).doc = canvas.doc
               /\ Len(WithStack(via, s).undo) + Len(WithStack(via, s).redo)
                     = Len(canvas.undo) + Len(canvas.redo) - Len(Stack(via)) + Len(s)
    <3>1. Len(s) \in Nat BY LenProperties
    <3>2. WithStack(via, s) = [canvas EXCEPT !.undo = s] BY <1>3 DEF WithStack
    <3>3. WithStack(via, s).undo = s /\ WithStack(via, s).redo = canvas.redo BY <1>1, <3>2
    <3> QED BY <1>1, <1>2, <2>1, <3>1, <3>2, <3>3
  <2> QED BY <1>1, <2>1, <2>2
<1>4. CASE via = "redo"
  <2>1. Stack(via) = canvas.redo BY <1>4 DEF Stack
  <2>2. ASSUME NEW s \in Seq(Docs)
        PROVE  /\ WithStack(via, s) \in [doc : Docs \cup {None}, undo : Seq(Docs), redo : Seq(Docs)]
               /\ WithStack(via, s).doc = canvas.doc
               /\ Len(WithStack(via, s).undo) + Len(WithStack(via, s).redo)
                     = Len(canvas.undo) + Len(canvas.redo) - Len(Stack(via)) + Len(s)
    <3>1. Len(s) \in Nat BY LenProperties
    <3>2. WithStack(via, s) = [canvas EXCEPT !.redo = s] BY <1>4 DEF WithStack
    <3>3. WithStack(via, s).undo = canvas.undo /\ WithStack(via, s).redo = s BY <1>1, <3>2
    <3> QED BY <1>1, <1>2, <2>1, <3>1, <3>2, <3>3
  <2> QED BY <1>1, <2>1, <2>2
<1> QED BY <1>3, <1>4

-----------------------------------------------------------------------------
(* The canvas *)

LEMMA OfferedMade ==
    ASSUME TypedCanvas, canvas.doc # None, NEW op \in Offered
    PROVE  Queued(op) \in Made
<1>1. canvas.doc \in Docs BY DEF TypedCanvas
<1>2. {} \in Docs BY DEF Docs
<1>3. CASE \E via \in Vias, i \in Items : op = Change(via, IF i \in canvas.doc THEN "remove" ELSE "add", i)
  <2>1. PICK via \in Vias, i \in Items : op = Change(via, IF i \in canvas.doc THEN "remove" ELSE "add", i)
    BY <1>3
  <2>2. via \in {"replace", "draft", "param"} BY EditorsAssumption
  <2>3. op.via = via /\ op.item = i /\ op.kind \in {"add", "remove"} /\ op.doc = None /\ op \in Operations
    BY <2>1 DEF Change, Operations
  <2>4. Applied(op.kind, op.item, canvas.doc) \in Docs BY <1>1, <2>3, AppliedTyped
  <2>5. Queued(op) \in Operations /\ Queued(op).via = via /\ Queued(op).item = i /\ Queued(op).kind = op.kind
    BY <2>3, <2>4 DEF Queued, Operations
  <2>6. IF via = "draft" THEN Queued(op).doc \in Docs ELSE Queued(op).doc = None
    BY <2>3, <2>4 DEF Queued, Operations
  <2> QED BY <2>2, <2>3, <2>5, <2>6 DEF Made
<1>4. CASE op = Import({}) \/ op = TimeTravel("undo") \/ op = TimeTravel("redo")
  <2>1. op \in Operations /\ op.via \in {"import", "undo", "redo"} /\ op.item = None
        /\ (IF op.via = "import" THEN op.doc \in Docs ELSE op.doc = None)
    BY <1>2, <1>4 DEF Import, TimeTravel, Operations
  <2>2. Queued(op) = op BY <2>1 DEF Queued
  <2>3. op.via \notin Vias BY <2>1, EditorsAssumption
  <2> QED BY <2>1, <2>2, <2>3 DEF Made
<1> QED BY <1>3, <1>4 DEF Offered

LEMMA EnqueueTyped ==
    ASSUME Typed, NEW op, Enqueue(op)
    PROVE  Typed'
<1>1. Queued(op) \in Made BY OfferedMade DEF Typed, Enqueue
<1>2. queue' \in Seq(Made) BY <1>1, AppendProperties DEF Typed, TypedCanvas, Enqueue
<1>3. left' \in [edits : Nat, loads : Nat] BY DEF Typed, TypedCanvas, Enqueue
<1>4. canvas.doc # None /\ UNCHANGED <<file, req, canvas, running, load, output, view, want, behind>>
  BY DEF Enqueue
<1>5. TypedCanvas' BY <1>2, <1>3, <1>4 DEF Typed, TypedCanvas
<1> QED BY <1>4, <1>5 DEF Typed, TypedRequests, TypedOutput, Bounded, Steps, Traveling

LEMMA RequestTyped ==
    ASSUME TypedCanvas, canvas.doc # None, NEW op \in Made,
           op.via \in {"undo", "redo"} => Stack(op.via) # <<>>
    PROVE  RequestOf(op) \in WellFormed /\ RequestOf(op).pc = "sent" /\ RequestOf(op).doc \in Docs
<1>1. canvas.doc \in Docs BY DEF TypedCanvas
<1>2. op.via \in {"replace", "draft", "param", "import", "undo", "redo"} BY EditorsAssumption DEF Made, Operations
<1>3. ASSUME NEW doc \in Docs
      PROVE  PutRequest(doc, None) \in WellFormed /\ PutRequest(doc, None).pc = "sent" /\ PutRequest(doc, None).doc = doc
  BY RequestsMade DEF PutRequest, NoRequest
<1>4. CASE op.via = "param"
  <2>1. op.via \in Vias BY <1>4 DEF Made, Operations
  <2>2. op.kind \in {"add", "remove"} /\ op.item \in Items /\ op.doc = None BY <1>4, <2>1 DEF Made
  <2>3. RequestOf(op) = EditRequest(op.kind, op.item) BY <1>4, <2>2 DEF RequestOf
  <2>4. EditRequest(op.kind, op.item) \in WellFormed BY <2>2, RequestsMade
  <2>5. EditRequest(op.kind, op.item).pc = "sent" BY DEF EditRequest, NoRequest
  <2> QED BY <2>3, <2>4, <2>5 DEF WellFormed
<1>5. CASE op.via \in {"undo", "redo"}
  <2>1. Last(Stack(op.via)) \in Docs BY <1>5, StackTyped, FrontLast
  <2>2. op.doc = None BY <1>5 DEF Made
  <2>3. RequestOf(op) = PutRequest(Last(Stack(op.via)), None) BY <1>5, <2>2 DEF RequestOf
  <2> QED BY <1>3, <2>1, <2>3
<1>6. CASE op.via \in {"import", "draft"}
  <2>1. op.doc \in Docs BY <1>6 DEF Made
  <2>2. op.doc # None BY <2>1, NamesAssumption
  <2>3. RequestOf(op) = PutRequest(op.doc, None) BY <1>6, <2>2 DEF RequestOf
  <2> QED BY <1>3, <2>1, <2>3
<1>7. CASE op.via = "replace"
  <2>1. op.via \in Vias BY <1>7 DEF Made, Operations
  <2>2. op.item \in Items /\ op.doc = None BY <1>7, <2>1 DEF Made
  <2>3. RequestOf(op) = PutRequest(Applied(op.kind, op.item, canvas.doc), None)
    BY <1>7, <2>2 DEF RequestOf
  <2>4. Applied(op.kind, op.item, canvas.doc) \in Docs BY <1>1, <2>2, AppliedTyped
  <2> QED BY <1>3, <2>3, <2>4
<1> QED BY <1>2, <1>4, <1>5, <1>6, <1>7

LEMMA StartTyped ==
    ASSUME Typed, Start
    PROVE  Typed'
<1> DEFINE op == Head(queue)
           travels == op.via \in {"undo", "redo"}
<1>1. running = None /\ queue # <<>> /\ canvas.doc \in Docs /\ canvas.doc # None
  BY DEF Start, Typed, TypedCanvas
<1>2. op \in Made /\ Tail(queue) \in Seq(Made)
  BY <1>1, HeadTailProperties DEF Typed, TypedCanvas
<1>3. queue' = Tail(queue) /\ UNCHANGED <<file, load, output, view, left, behind>> BY DEF Start
<1>4. CASE travels /\ Stack(op.via) = <<>>
  <2>1. UNCHANGED <<req, running, canvas, want>> BY <1>4 DEF Start
  <2>2. TypedCanvas' BY <1>1, <1>2, <1>3, <2>1 DEF Typed, TypedCanvas
  <2> QED BY <1>3, <2>1, <2>2 DEF Typed, TypedRequests, TypedOutput, Bounded, Steps, Traveling
<1>5. CASE ~(travels /\ Stack(op.via) = <<>>)
  <2> DEFINE r == RequestOf(op)
             run == [op |-> op, prev |-> canvas.doc, target |-> r.doc, sole |-> TRUE]
  <2>1. r \in WellFormed /\ r.pc = "sent" /\ r.doc \in Docs
    BY <1>1, <1>2, <1>5, RequestTyped DEF Typed
  <2>2. /\ Becomes("canvas", r) /\ running' = run
        /\ canvas' = IF travels THEN WithStack(op.via, Front(Stack(op.via))) ELSE canvas
        /\ want' = IF op.item = None THEN <<>> ELSE [i \in DOMAIN want \ {op.item} |-> want[i]]
    BY <1>5 DEF Start
  <2>3. req' \in [Clients -> WellFormed] /\ req'["canvas"].pc = "sent"
    <3>1. "canvas" \in Clients BY DEF Clients
    <3>2. req \in [Clients -> WellFormed] BY DEF Typed, TypedRequests
    <3>3. r \in WellFormed /\ Becomes("canvas", r) /\ r.pc = "sent" BY <2>1, <2>2
    <3> HIDE DEF r
    <3>4. req' \in [Clients -> WellFormed] /\ req'["canvas"].pc = r.pc
      BY <3>1, <3>2, <3>3, BecomesTyped, Zenon
    <3> QED BY <3>3, <3>4, Zenon
  <2>4. run \in Runs /\ run # None
    <3>1. op \in Operations /\ r.doc \in Docs BY <1>2, <2>1 DEF Made
    <3> HIDE DEF op, r
    <3>2. run \in Runs BY <1>1, <3>1 DEF Runs
    <3> QED BY <3>2, NamesAssumption
  <2>5. /\ canvas' \in [doc : Docs \cup {None}, undo : Seq(Docs), redo : Seq(Docs)]
        /\ canvas'.doc = canvas.doc
        /\ Steps' = IF travels THEN Steps - 1 ELSE Steps
    <3>1. CASE travels
      <4>1. Stack(op.via) \in Seq(Docs) /\ Stack(op.via) # <<>>
        BY <1>5, <3>1, StackTyped DEF Typed
      <4>2. Front(Stack(op.via)) \in Seq(Docs) /\ Len(Front(Stack(op.via))) = Len(Stack(op.via)) - 1
            /\ Len(Stack(op.via)) \in Nat
        BY <4>1, FrontLast
      <4>3. Len(canvas.undo) \in Nat /\ Len(canvas.redo) \in Nat BY LenProperties DEF Typed, TypedCanvas
      <4>4. canvas' = WithStack(op.via, Front(Stack(op.via))) BY <2>2, <3>1
      <4>5. /\ canvas' \in [doc : Docs \cup {None}, undo : Seq(Docs), redo : Seq(Docs)]
            /\ canvas'.doc = canvas.doc
            /\ Len(canvas'.undo) + Len(canvas'.redo)
                  = Len(canvas.undo) + Len(canvas.redo) - Len(Stack(op.via)) + Len(Front(Stack(op.via)))
        <5>1. op.via \in {"undo", "redo"} /\ TypedCanvas BY <3>1 DEF Typed
        <5>2. \A s \in Seq(Docs) :
                 /\ WithStack(op.via, s) \in [doc : Docs \cup {None}, undo : Seq(Docs), redo : Seq(Docs)]
                 /\ WithStack(op.via, s).doc = canvas.doc
                 /\ Len(WithStack(op.via, s).undo) + Len(WithStack(op.via, s).redo)
                       = Len(canvas.undo) + Len(canvas.redo) - Len(Stack(op.via)) + Len(s)
          BY <5>1, StackTyped, Zenon
        <5> QED BY <4>2, <4>4, <5>2, Zenon
      <4>6. Steps' = Steps - 1
        <5>1. Len(Front(Stack(op.via))) \in Nat BY <4>2, LenProperties
        <5> DEFINE m == Len(canvas.undo)
                   n == Len(canvas.redo)
                   k == Len(Stack(op.via))
                   l == Len(Front(Stack(op.via)))
        <5>2. m \in Nat /\ n \in Nat /\ k \in Nat /\ l \in Nat /\ l = k - 1 BY <4>2, <4>3, <5>1, Zenon
        <5> HIDE DEF m, n, k, l
        <5>3. m + n - k + l = (m + n) - 1 BY <5>2
        <5>4. Len(canvas'.undo) + Len(canvas'.redo) = m + n - k + l BY <4>5, Zenon DEF m, n, k, l
        <5> QED BY <5>3, <5>4, Zenon DEF Steps, m, n
      <4> QED BY <3>1, <4>5, <4>6
    <3>2. CASE ~travels
      <4>1. canvas' = canvas BY <2>2, <3>2
      <4> QED BY <3>2, <4>1 DEF Typed, TypedCanvas, Steps
    <3> QED BY <3>1, <3>2
  <2>6. DOMAIN want' \subseteq Items BY <2>2 DEF Typed, TypedCanvas
  <2>7. Traveling' <=> travels BY <2>2, <2>4 DEF Traveling
  <2>8. Bounded'
    <3>1. Len(canvas.undo) \in Nat /\ Len(canvas.redo) \in Nat BY LenProperties DEF Typed, TypedCanvas
    <3>2. Steps \in Nat BY <3>1, Sums, Zenon DEF Steps
    <3>3. Steps <= HistoryCap BY DEF Typed, Bounded
    <3>4. HistoryCap \in Nat /\ HistoryCap' = HistoryCap BY EditorsAssumption
    <3> HIDE DEF travels
    <3> QED BY <2>5, <2>7, <3>2, <3>3, <3>4 DEF Bounded
  <2>9. TypedCanvas'
    <3>1. running' # None /\ running' \in Runs /\ running'.op \in Made BY <1>2, <2>2, <2>4
    <3> HIDE DEF run, r, op
    <3> QED BY <1>1, <1>2, <1>3, <2>3, <2>5, <2>6, <3>1 DEF Typed, TypedCanvas
  <2> QED BY <1>3, <2>3, <2>8, <2>9 DEF Typed, TypedRequests, TypedOutput
<1> QED BY <1>4, <1>5

(* What an answered operation finds. *)
LEMMA AnsweredRun ==
    ASSUME Typed, req["canvas"].pc = "answered"
    PROVE  /\ running \in Runs /\ running.op \in Made /\ running # None
           /\ req["canvas"].doc \in Docs \cup {Refused}
           /\ canvas.doc \in Docs
           /\ Len(canvas.undo) \in Nat /\ Len(canvas.redo) \in Nat
           /\ Steps \in Nat /\ Steps <= HistoryCap /\ Len(canvas.undo) <= Steps
           /\ running.op.via \in {"undo", "redo"} => Steps + 1 <= HistoryCap
<1>1. "canvas" \in Clients BY DEF Clients
<1>2. running # None BY DEF Typed, TypedCanvas
<1>3. req["canvas"].doc \in Docs \cup {Refused} BY <1>1 DEF Typed, TypedRequests, WellFormed, Requests
<1>4. Len(canvas.undo) \in Nat /\ Len(canvas.redo) \in Nat BY LenProperties DEF Typed, TypedCanvas
<1>5. Traveling <=> running.op.via \in {"undo", "redo"} BY <1>2 DEF Traveling
<1>6. Steps \in Nat /\ Len(canvas.undo) <= Steps BY <1>4, Sums, Zenon DEF Steps
<1> QED BY <1>2, <1>3, <1>4, <1>5, <1>6 DEF Typed, TypedCanvas, Bounded

LEMMA SucceedTyped ==
    ASSUME Typed, Succeed
    PROVE  Typed'
<1> DEFINE op == running.op
           doc == req["canvas"].doc
<1>1. req["canvas"].pc = "answered" /\ doc \in Docs BY AnsweredRun DEF Succeed
<1>2. /\ canvas' = Settled(op, running.prev, doc)
      /\ running' = None /\ Becomes("canvas", NoRequest) /\ output' = [output EXCEPT !.timer = TRUE]
      /\ DOMAIN want' \subseteq DOMAIN want \cup {op.item}
      /\ op.item = None => want' = want
      /\ UNCHANGED <<file, queue, load, view, left, behind>>
  BY DEF Succeed, Shown
<1>3. req' \in [Clients -> WellFormed] /\ req'["canvas"].pc = "none"
  <2>1. NoRequest.pc = "none" BY DEF NoRequest
  <2> QED BY <1>2, <2>1, BecomesTyped, RequestsMade DEF Clients, Typed, TypedRequests
<1>4. /\ canvas' \in [doc : Docs \cup {None}, undo : Seq(Docs), redo : Seq(Docs)]
      /\ canvas'.doc = doc
      /\ Steps' <= HistoryCap
  <2>1. running.prev \in Docs BY <1>1, AnsweredRun DEF Runs
  <2>2. CASE op.via \in {"undo", "redo"}
    <3> DEFINE other == IF op.via = "undo" THEN "redo" ELSE "undo"
               pushed == Append(Stack(other), running.prev)
    <3>1. other \in {"undo", "redo"} /\ Stack(other) \in Seq(Docs) BY StackTyped DEF Typed
    <3>2. pushed \in Seq(Docs) /\ Len(pushed) = Len(Stack(other)) + 1 /\ Len(Stack(other)) \in Nat
      BY <2>1, <3>1, AppendProperties, LenProperties
    <3>3. canvas' = [WithStack(other, pushed) EXCEPT !.doc = doc] BY <1>2, <2>2 DEF Settled
    <3> HIDE DEF pushed, other
    <3>4. /\ WithStack(other, pushed) \in [doc : Docs \cup {None}, undo : Seq(Docs), redo : Seq(Docs)]
          /\ Len(WithStack(other, pushed).undo) + Len(WithStack(other, pushed).redo)
                = Len(canvas.undo) + Len(canvas.redo) - Len(Stack(other)) + Len(pushed)
      BY <3>1, <3>2, StackTyped DEF Typed
    <3>5. /\ canvas' \in [doc : Docs \cup {None}, undo : Seq(Docs), redo : Seq(Docs)] /\ canvas'.doc = doc
          /\ canvas'.undo = WithStack(other, pushed).undo /\ canvas'.redo = WithStack(other, pushed).redo
      BY <1>1, <3>3, <3>4
    <3>6. Steps + 1 <= HistoryCap BY <1>1, <2>2, AnsweredRun
    <3>7. Len(canvas.undo) \in Nat /\ Len(canvas.redo) \in Nat BY <1>1, AnsweredRun
    <3>8. HistoryCap \in Nat BY EditorsAssumption
    <3>9. Steps' = Steps + 1
      <4>1. Len(pushed) \in Nat BY <3>2, LenProperties
      <4> DEFINE m == Len(canvas.undo)
                 n == Len(canvas.redo)
                 k == Len(Stack(other))
                 l == Len(pushed)
      <4>2. m \in Nat /\ n \in Nat /\ k \in Nat /\ l \in Nat /\ l = k + 1 BY <3>2, <3>7, <4>1, Zenon
      <4> HIDE DEF m, n, k, l
      <4>3. m + n - k + l = m + n + 1 BY <4>2
      <4> QED BY <3>4, <3>5, <4>3, Zenon DEF m, n, k, l, Steps
    <3> QED BY <3>5, <3>6, <3>9
  <2>3. CASE op.via \notin {"undo", "redo"}
    <3>1. Len(canvas.undo) <= HistoryCap
      <4>1. HistoryCap \in Nat BY EditorsAssumption
      <4> QED BY <1>1, <4>1, AnsweredRun, Sums, Zenon
    <3>2. Recorded(canvas.undo, running.prev) \in Seq(Docs) /\ Len(Recorded(canvas.undo, running.prev)) <= HistoryCap
      BY <2>1, <3>1, RecordedTyped DEF Typed, TypedCanvas
    <3>3. canvas' = [doc |-> doc, undo |-> Recorded(canvas.undo, running.prev), redo |-> <<>>]
      BY <1>2, <2>3 DEF Settled
    <3>4. <<>> \in Seq(Docs) /\ Len(<<>>) = 0 BY EmptySeq
    <3>5. Len(Recorded(canvas.undo, running.prev)) \in Nat BY <3>2, LenProperties
    <3>6. Steps' = Len(Recorded(canvas.undo, running.prev)) BY <3>3, <3>4, <3>5 DEF Steps
    <3> QED BY <1>1, <3>2, <3>3, <3>4, <3>6
  <2> QED BY <2>2, <2>3
<1>5. DOMAIN want' \subseteq Items
  <2>1. op.item \in Items \cup {None} BY <1>1, AnsweredRun DEF Made, Operations
  <2> QED BY <1>2, <2>1 DEF Typed, TypedCanvas
<1>6. TypedCanvas' BY <1>1, <1>2, <1>3, <1>4, <1>5, NamesAssumption DEF Typed, TypedCanvas
<1>7. Bounded'
  <2>1. ~Traveling' BY <1>2 DEF Traveling
  <2> QED BY <1>4, <2>1 DEF Bounded
<1>8. TypedOutput' BY <1>2 DEF Typed, TypedOutput
<1> QED BY <1>2, <1>3, <1>6, <1>7, <1>8 DEF Typed, TypedRequests

LEMMA FailTyped ==
    ASSUME Typed, Fail
    PROVE  Typed'
<1> DEFINE op == running.op
<1>1. req["canvas"].pc = "answered" BY DEF Fail
<1>2. /\ canvas' = IF op.via \in {"undo", "redo"}
                   THEN WithStack(op.via, Append(Stack(op.via), running.target)) ELSE canvas
      /\ running' = None /\ Becomes("canvas", NoRequest) /\ behind' \in BOOLEAN
      /\ UNCHANGED <<file, queue, load, output, view, left, want>>
  BY DEF Fail
<1>3. req' \in [Clients -> WellFormed] /\ req'["canvas"].pc = "none"
  <2>1. NoRequest.pc = "none" BY DEF NoRequest
  <2> QED BY <1>2, <2>1, BecomesTyped, RequestsMade DEF Clients, Typed, TypedRequests
<1>4. /\ canvas' \in [doc : Docs \cup {None}, undo : Seq(Docs), redo : Seq(Docs)]
      /\ canvas'.doc = canvas.doc
      /\ Steps' <= HistoryCap
  <2>1. CASE op.via \in {"undo", "redo"}
    <3> DEFINE pushed == Append(Stack(op.via), running.target)
    <3>1. Stack(op.via) \in Seq(Docs) BY <2>1, StackTyped DEF Typed
    <3>2. running.target \in Docs BY <1>1, AnsweredRun DEF Runs
    <3>3. pushed \in Seq(Docs) /\ Len(pushed) = Len(Stack(op.via)) + 1 /\ Len(Stack(op.via)) \in Nat
      BY <3>1, <3>2, AppendProperties, LenProperties
    <3>4. canvas' = WithStack(op.via, pushed) BY <1>2, <2>1
    <3> HIDE DEF pushed
    <3>5. /\ canvas' \in [doc : Docs \cup {None}, undo : Seq(Docs), redo : Seq(Docs)]
          /\ canvas'.doc = canvas.doc
          /\ Len(canvas'.undo) + Len(canvas'.redo)
                = Len(canvas.undo) + Len(canvas.redo) - Len(Stack(op.via)) + Len(pushed)
      BY <2>1, <3>3, <3>4, StackTyped DEF Typed
    <3>6. Steps + 1 <= HistoryCap BY <1>1, <2>1, AnsweredRun
    <3>7. Len(canvas.undo) \in Nat /\ Len(canvas.redo) \in Nat BY <1>1, AnsweredRun
    <3>8. Steps' = Steps + 1
      <4>1. Len(pushed) \in Nat BY <3>3, LenProperties
      <4> DEFINE m == Len(canvas.undo)
                 n == Len(canvas.redo)
                 k == Len(Stack(op.via))
                 l == Len(pushed)
      <4>2. m \in Nat /\ n \in Nat /\ k \in Nat /\ l \in Nat /\ l = k + 1 BY <3>3, <3>7, <4>1, Zenon
      <4> HIDE DEF m, n, k, l
      <4>3. m + n - k + l = m + n + 1 BY <4>2
      <4> QED BY <3>5, <4>3, Zenon DEF m, n, k, l, Steps
    <3> QED BY <3>5, <3>6, <3>8
  <2>2. CASE op.via \notin {"undo", "redo"}
    BY <1>1, <1>2, <2>2, AnsweredRun DEF Typed, TypedCanvas, Steps
  <2> QED BY <2>1, <2>2
<1>5. canvas.doc # None BY <1>1, AnsweredRun, NamesAssumption
<1>6. TypedCanvas' BY <1>1, <1>2, <1>3, <1>4, <1>5 DEF Typed, TypedCanvas
<1>7. Bounded'
  <2>1. ~Traveling' BY <1>2 DEF Traveling
  <2> QED BY <1>4, <2>1 DEF Bounded
<1>8. TypedOutput' BY <1>2 DEF Typed, TypedOutput
<1> QED BY <1>2, <1>3, <1>6, <1>7, <1>8 DEF Typed, TypedRequests

LEMMA LoadTyped ==
    ASSUME Typed, LoadDoc \/ GetBlueprint \/ Loaded
    PROVE  Typed'
<1> USE DEF Typed, TypedRequests, TypedCanvas, TypedOutput, Bounded, Steps, Traveling
<1>1. CASE LoadDoc
  <2>1. load' = [pc |-> "sent", doc |-> None] /\ left' = [left EXCEPT !.loads = @ - 1] /\ left.loads > 0
    BY <1>1 DEF LoadDoc
  <2>2. left' \in [edits : Nat, loads : Nat]
    <3>1. left \in [edits : Nat, loads : Nat] OBVIOUS
    <3> HIDE DEF Typed, TypedRequests, TypedCanvas, TypedOutput, Bounded, Steps, Traveling
    <3> QED BY <2>1, <3>1
  <2> QED BY <1>1, <2>1, <2>2 DEF LoadDoc
<1>2. CASE GetBlueprint BY <1>2 DEF GetBlueprint
<1>3. CASE Loaded
  <2>1. load.doc \in Docs /\ load.doc # None BY <1>3, NamesAssumption DEF Loaded
  <2>2. canvas' \in [doc : Docs \cup {None}, undo : Seq(Docs), redo : Seq(Docs)]
        /\ canvas'.doc = load.doc /\ canvas'.undo = canvas.undo /\ canvas'.redo = canvas.redo
    BY <1>3, <2>1 DEF Loaded
  <2>3. TypedCanvas' BY <1>3, <2>1, <2>2 DEF Loaded
  <2>4. output' = [output EXCEPT !.timer = TRUE] /\ UNCHANGED <<running, file, view, req, behind>>
    BY <1>3 DEF Loaded, Shown
  <2>5. TypedOutput' BY <2>4
  <2>6. Bounded' BY <2>2, <2>4
  <2> QED BY <2>3, <2>4, <2>5, <2>6
<1> QED BY <1>1, <1>2, <1>3

(* An answer leaves the line of requests.                                  *)
LEMMA RemoveTyped ==
    ASSUME NEW S, NEW s \in Seq(S), NEW n \in DOMAIN s
    PROVE  /\ RemoveAt(s, n) \in Seq(S) /\ Len(RemoveAt(s, n)) = Len(s) - 1
           /\ n < Len(s) => RemoveAt(s, n)[Len(s) - 1] = s[Len(s)]
<1> DEFINE len == Len(s)
           before == SubSeq(s, 1, n - 1)
           after == SubSeq(s, n + 1, len)
<1>1. len \in Nat /\ n \in 1..len BY LenProperties
<1>2. before \in Seq(S) /\ Len(before) = n - 1
  <2>1. \A i \in 1..(n - 1) : s[i] \in S BY <1>1, ElementOfSeq
  <2> QED BY <1>1, <2>1, SubSeqProperties
<1>3. /\ after \in Seq(S) /\ Len(after) = len - n
      /\ \A i \in 1..(len - (n + 1) + 1) : after[i] = s[(n + 1) + i - 1]
  <2>1. \A i \in (n + 1)..len : s[i] \in S BY <1>1, ElementOfSeq
  <2>2. n + 1 \in Int /\ len \in Int BY <1>1
  <2> HIDE DEF len
  <2>3. /\ after \in Seq(S) /\ Len(after) = (IF n + 1 <= len THEN len - (n + 1) + 1 ELSE 0)
        /\ \A i \in 1..(len - (n + 1) + 1) : after[i] = s[(n + 1) + i - 1]
    BY <2>1, <2>2, SubSeqProperties
  <2> HIDE DEF after
  <2>4. Len(after) = len - n BY <1>1, <2>3
  <2> QED BY <2>3, <2>4
<1>4. RemoveAt(s, n) = before \o after BY DEF RemoveAt
<1>5. s[len] = s[Len(s)] OBVIOUS
<1>6. len = Len(s) OBVIOUS
<1> HIDE DEF len, before, after
<1>7. /\ RemoveAt(s, n) \in Seq(S)
      /\ Len(RemoveAt(s, n)) = Len(before) + Len(after)
      /\ \A i \in 1..(Len(before) + Len(after)) :
            RemoveAt(s, n)[i] = IF i <= Len(before) THEN before[i] ELSE after[i - Len(before)]
  BY <1>2, <1>3, <1>4, ConcatProperties
<1>8. Len(before) + Len(after) = len - 1 BY <1>1, <1>2, <1>3
<1>9. ASSUME n < len PROVE RemoveAt(s, n)[len - 1] = s[len]
  <2>1. len - 1 \in 1..(len - 1) /\ ~(len - 1 <= n - 1) /\ len - 1 - (n - 1) = len - n
        /\ len - n \in 1..(len - (n + 1) + 1) /\ (n + 1) + (len - n) - 1 = len
    BY <1>1, <1>9
  <2>2. after[len - n] = s[len] BY <1>3, <2>1
  <2>3. RemoveAt(s, n)[len - 1] = after[len - n] BY <1>2, <1>7, <1>8, <2>1
  <2> QED BY <2>2, <2>3
<1> QED BY <1>6, <1>7, <1>8, <1>9

LEMMA PreviewTyped ==
    ASSUME Typed, Generate \/ \E n \in DOMAIN output.asked : Rendered(n) \/ Answered(n)
    PROVE  Typed'
<1> USE DEF Typed, TypedRequests, TypedCanvas, TypedOutput, Bounded, Steps, Traveling
<1>1. CASE Generate
  <2>1. output' = [output EXCEPT !.timer = FALSE, !.asked = Append(@, None), !.newest = TRUE]
    BY <1>1 DEF Generate
  <2>2. Append(output.asked, None) \in Seq(Docs \cup {None}) /\ Append(output.asked, None) # <<>>
    <3> DEFINE S == Docs \cup {None}
    <3>1. output.asked \in Seq(S) /\ None \in S OBVIOUS
    <3> HIDE DEF S
    <3>2. Append(output.asked, None) \in Seq(S) /\ Append(output.asked, None) # <<>>
      BY <3>1, AppendProperties
    <3> QED BY <3>2 DEF S
  <2>3. TypedOutput' BY <1>1, <2>1, <2>2 DEF Generate
  <2> QED BY <1>1, <2>3 DEF Generate
<1>2. ASSUME NEW n \in DOMAIN output.asked, Rendered(n) PROVE Typed'
  <2>1. output' = [output EXCEPT !.asked[n] = file] BY <1>2 DEF Rendered
  <2>2. [output.asked EXCEPT ![n] = file] \in Seq(Docs \cup {None})
        /\ [output.asked EXCEPT ![n] = file] # <<>>
    <3>1. n \in 1..Len(output.asked) BY LenProperties
    <3> QED BY <3>1, ExceptSeq, EmptySeq
  <2>3. behind' \in BOOLEAN BY <1>2 DEF Rendered
  <2>4. TypedOutput' BY <2>1, <2>2, <2>3
  <2> QED BY <1>2, <2>4 DEF Rendered
<1>3. ASSUME NEW n \in DOMAIN output.asked, Answered(n) PROVE Typed'
  <2>1. output.asked[n] \in Docs \cup {None} BY ElementOfSeq
  <2>2. PICK doc \in Docs \cup {None} : output' = Preview(n, doc) BY <1>3, <2>1 DEF Answered
  <2>3. RemoveAt(output.asked, n) \in Seq(Docs \cup {None})
        /\ Len(RemoveAt(output.asked, n)) = Len(output.asked) - 1
    BY RemoveTyped
  <2>4. /\ output' \in [timer : BOOLEAN, asked : Seq(Docs \cup {None}), newest : BOOLEAN, shown : Docs \cup {None}]
        /\ output'.asked = RemoveAt(output.asked, n)
        /\ output'.newest = (output.newest /\ ~Newest(n))
    BY <2>2, <2>3 DEF Preview
  <2>5. output'.newest => output'.asked # <<>>
    <3>1. n \in 1..Len(output.asked) /\ Len(output.asked) \in Nat BY LenProperties
    <3>2. ASSUME NEW m \in Nat, n \in 1..m PROVE n = m \/ m - 1 # 0 BY <3>2
    <3>3. n = Len(output.asked) \/ Len(output.asked) - 1 # 0 BY <3>1, <3>2, Zenon
    <3> QED BY <2>3, <2>4, <3>3, EmptySeq DEF Newest
  <2>6. TypedOutput' BY <1>3, <2>4, <2>5 DEF Answered
  <2> QED BY <1>3, <2>6 DEF Answered
<1> QED BY <1>1, <1>2, <1>3

LEMMA ScriptTyped ==
    ASSUME Typed, ScriptRead \/ ScriptDone \/ \E i \in Items : ScriptReplace(i) \/ ScriptEdit(i)
    PROVE  Typed'
<1> USE DEF Typed, TypedRequests, TypedCanvas, TypedOutput, Bounded, Steps, Traveling
<1>1. "canvas" \in Clients /\ "script" \in Clients /\ "canvas" # "script" BY DEF Clients
<1>2. CASE ScriptRead BY <1>2 DEF ScriptRead
<1>3. CASE ScriptDone
  <2>1. Becomes("script", NoRequest) /\ view' = None BY <1>3 DEF ScriptDone
  <2>2. req' \in [Clients -> WellFormed] /\ req'["canvas"] = req["canvas"]
    BY <1>1, <2>1, BecomesTyped, RequestsMade
  <2> QED BY <1>3, <2>1, <2>2 DEF ScriptDone
<1>4. ASSUME NEW r \in WellFormed, ScriptWrite(r) PROVE Typed'
  <2>1. Becomes("script", r) BY <1>4 DEF ScriptWrite
  <2>2. req' \in [Clients -> WellFormed] /\ req'["canvas"] = req["canvas"]
    BY <1>1, <1>4, <2>1, BecomesTyped
  <2>3. left' \in [edits : Nat, loads : Nat]
    <3>1. left \in [edits : Nat, loads : Nat] /\ left.edits - 1 \in Nat BY <1>4 DEF ScriptWrite
    <3> QED BY <1>4, <3>1 DEF ScriptWrite
  <2> QED BY <1>4, <2>2, <2>3 DEF ScriptWrite
<1>5. ASSUME NEW i \in Items, ScriptReplace(i) PROVE Typed'
  <2>1. PICK match \in {view, None}, kind \in {"add", "remove"} :
           ScriptWrite(PutRequest(Applied(kind, i, view), match))
    BY <1>5 DEF ScriptReplace
  <2>2. Applied(kind, i, view) \in Docs BY <1>5, AppliedTyped DEF ScriptReplace
  <2>3. PutRequest(Applied(kind, i, view), match) \in WellFormed BY <2>2, RequestsMade
  <2> QED BY <1>4, <2>1, <2>3
<1>6. ASSUME NEW i \in Items, ScriptEdit(i) PROVE Typed'
  <2>1. PICK kind \in {"add", "remove"} : ScriptWrite(EditRequest(kind, i)) BY <1>6 DEF ScriptEdit
  <2>2. EditRequest(kind, i) \in WellFormed BY RequestsMade
  <2> QED BY <1>4, <2>1, <2>2
<1> QED BY <1>2, <1>3, <1>5, <1>6

LEMMA NextTyped == Typed /\ [Next]_vars => Typed'
<1>1. ASSUME Typed, UNCHANGED vars PROVE Typed'
  BY <1>1 DEF vars, Typed, TypedRequests, TypedCanvas, TypedOutput, Bounded, Steps, Traveling
<1> QED BY <1>1, HandleTyped, EnqueueTyped, StartTyped, SucceedTyped, FailTyped, LoadTyped,
           PreviewTyped, ScriptTyped DEF Next

THEOREM EditorsTyped == Spec => []Typed
BY InitTyped, NextTyped, PTL DEF Spec

(* What the actions of the handlers and the canvas find is what they       *)
(* expect, the undo and redo stacks hold documents and at most HistoryCap  *)
(* of them, and an operation is running exactly while its request is.      *)
THEOREM EditorsTypeCorrect == Spec => []TypeOK
<1>1. Typed => TypeOK
  <2>1. SUFFICES ASSUME Typed PROVE TypeOK OBVIOUS
  <2>2. \A c \in Clients : /\ req[c].pc \in {"none", "sent", "held", "waiting", "answered"}
                           /\ req[c].doc \in Docs \cup {Refused}
    BY <2>1 DEF Typed, TypedRequests, WellFormed, Requests
  <2>3. Len(canvas.undo) \in Nat /\ Len(canvas.redo) \in Nat BY <2>1, LenProperties DEF Typed, TypedCanvas
  <2>4. HistoryCap \in Nat BY EditorsAssumption
  <2>5. \A m, n, k \in Nat : m + n <= k => m <= k /\ n <= k OBVIOUS
  <2>6. Len(canvas.undo) <= HistoryCap /\ Len(canvas.redo) <= HistoryCap
    BY <2>1, <2>3, <2>4, <2>5, Zenon DEF Typed, Bounded, Steps
  <2>7. canvas.undo \in Seq(Docs) /\ canvas.redo \in Seq(Docs) BY <2>1 DEF Typed, TypedCanvas
  <2> QED BY <2>1, <2>2, <2>6, <2>7 DEF Typed, TypedRequests, TypedCanvas, TypeOK
<1> QED BY <1>1, EditorsTyped, PTL

-----------------------------------------------------------------------------
(* What the user was told.  Where every replacing operation makes its      *)
(* document when its turn comes and the canvas loads the document once,    *)
(* what was told of an item holds of the file, of the document the canvas  *)
(* shows and of the one its request carries.  Of the item of the operation *)
(* under way nothing is told; its request brings about what was asked.     *)
OneLoad == "draft" \notin Vias /\ MaxLoads <= 1

AsTold(told, doc) == \A i \in DOMAIN told : told[i] <=> i \in doc
Effected(op, doc) == op.item # None => ((op.kind = "add") <=> (op.item \in doc))
Carried(r) ==
    \/ r.pc = "sent" /\ r.kind = "put"
    \/ r.pc \in {"held", "waiting"}
    \/ r.pc = "answered" /\ r.doc # Refused
Saved(r, run) == r.pc = "answered" /\ r.doc # Refused /\ run.sole

Told ==
    /\ \A i \in DOMAIN want : want[i] \in BOOLEAN
    /\ DOMAIN want # {} => canvas.doc # None
    /\ AsTold(want, file) /\ AsTold(want, canvas.doc)
Boot ==
    /\ left.loads <= 1
    /\ load.pc # "none" => left.loads = 0 /\ canvas.doc = None
    /\ canvas.doc # None => left.loads = 0
InFlight(told, r, run, onDisk) ==
    /\ run.op.item \notin DOMAIN told
    /\ run.op.item = None => DOMAIN told = {}
    /\ r.pc # "answered" /\ r.kind # "put" => r.item = run.op.item /\ r.kind = run.op.kind
    /\ Carried(r) => AsTold(told, r.doc) /\ Effected(run.op, r.doc)
    /\ Saved(r, run) => Effected(run.op, onDisk)
Flight == running # None => InFlight(want, req["canvas"], running, file)
Keeping == Told /\ Boot /\ Flight

LEMMA KeepingInit == OneLoad /\ Init => Keeping
<1>1. SUFFICES ASSUME OneLoad, Init PROVE Keeping OBVIOUS
<1>2. DOMAIN want = {} BY <1>1 DEF Init
<1>3. Told BY <1>2 DEF Told, AsTold
<1>4. Boot BY <1>1, EditorsAssumption DEF Init, Boot, OneLoad
<1>5. Flight BY <1>1 DEF Init, Flight
<1> QED BY <1>3, <1>4, <1>5 DEF Keeping

(* A step that leaves the file, the documents and the request of the       *)
(* canvas alone.                                                           *)
LEMMA KeepingAlone ==
    ASSUME Keeping, Boot',
           UNCHANGED <<file, canvas, running, want>>, req'["canvas"] = req["canvas"]
    PROVE  Keeping'
<1>1. Told' BY DEF Keeping, Told, AsTold
<1>2. Flight' BY DEF Keeping, Flight
<1> QED BY <1>1, <1>2 DEF Keeping

(* A request that gives up the mutex or takes it again is otherwise the same. *)
LEMMA LetGo ==
    ASSUME req \in [Clients -> WellFormed], NEW c \in Clients, Unlock(c) \/ Relock(c)
    PROVE  /\ req[c].pc \in {"held", "waiting"} /\ req'[c].pc \in {"held", "waiting"}
           /\ req'[c].doc = req[c].doc /\ req'[c].kind = req[c].kind /\ req'[c].item = req[c].item
<1>1. req[c] \in Requests /\ DOMAIN req = Clients BY DEF WellFormed
<1>2. CASE Unlock(c)
  <2>1. req[c].pc = "held" /\ req' = [req EXCEPT ![c] = [req[c] EXCEPT !.pc = "waiting"]]
    BY <1>2 DEF Unlock, Becomes
  <2>2. req'[c] = [req[c] EXCEPT !.pc = "waiting"] BY <1>1, <2>1
  <2> QED BY <1>1, <2>1, <2>2 DEF Requests
<1>3. CASE Relock(c)
  <2>1. req[c].pc = "waiting"
        /\ req' = [req EXCEPT ![c] = [req[c] EXCEPT !.pc = "held", !.waited = TRUE]]
    BY <1>3 DEF Relock, Becomes
  <2>2. req'[c] = [req[c] EXCEPT !.pc = "held", !.waited = TRUE] BY <1>1, <2>1
  <2> QED BY <1>1, <2>1, <2>2 DEF Requests
<1> QED BY <1>2, <1>3

LEMMA KeepingLock ==
    ASSUME Typed, Keeping, NEW c \in Clients, Lock(c) \/ Unlock(c) \/ Relock(c) \/ Reject(c)
    PROVE  Keeping'
<1>1. UNCHANGED <<file, canvas, running, load, left, want>>
  BY DEF Lock, Unlock, Relock, Reject, ClientsUnchanged
<1>2. Told' /\ Boot' BY <1>1 DEF Keeping, Told, Boot, AsTold
<1>3. req \in [Clients -> WellFormed] /\ "canvas" \in Clients BY DEF Typed, TypedRequests, Clients
<1>4. CASE c # "canvas"
  <2>1. req'["canvas"] = req["canvas"] BY <1>3, <1>4 DEF Lock, Unlock, Relock, Reject, Becomes
  <2> QED BY <1>1, <1>2, <2>1, KeepingAlone
<1>5. CASE c = "canvas"
  <2> DEFINE r == req["canvas"]
             next == req'["canvas"]
  <2>1. r \in WellFormed /\ r \in Requests BY <1>3 DEF WellFormed
  <2>2. ASSUME running # None PROVE InFlight(want, next, running, file)
    <3>1. /\ running.op.item \notin DOMAIN want
          /\ running.op.item = None => DOMAIN want = {}
          /\ r.pc # "answered" /\ r.kind # "put" => r.item = running.op.item /\ r.kind = running.op.kind
          /\ Carried(r) => AsTold(want, r.doc) /\ Effected(running.op, r.doc)
      BY <2>2 DEF Keeping, Flight, InFlight
    <3>2. CASE next = Answer(Refused)
      <4>1. next.pc = "answered" /\ next.doc = Refused BY <3>2 DEF Answer, NoRequest
      <4> HIDE DEF r, next
      <4> QED BY <3>1, <4>1 DEF InFlight, Carried, Saved
    <3>3. CASE Unlock("canvas") \/ Relock("canvas")
      <4>1. r.pc \in {"held", "waiting"} /\ next.pc \in {"held", "waiting"}
            /\ next.doc = r.doc /\ next.kind = r.kind /\ next.item = r.item
        BY <1>3, <3>3, LetGo
      <4> HIDE DEF r, next
      <4> QED BY <3>1, <4>1 DEF InFlight, Carried, Saved
    <3>4. CASE Lock("canvas") /\ next # Answer(Refused)
      <4> DEFINE doc == IF r.kind = "put" THEN r.doc ELSE Applied(r.kind, r.item, file)
      <4>1. r.pc = "sent" /\ next = [r EXCEPT !.pc = "held", !.doc = doc]
        BY <1>3, <3>4 DEF Lock, Becomes
      <4>2. next.pc = "held" /\ next.doc = doc /\ next.kind = r.kind /\ next.item = r.item
        BY <2>1, <4>1 DEF Requests
      <4>3. AsTold(want, doc) /\ Effected(running.op, doc)
        <5>1. CASE r.kind = "put" BY <3>1, <4>1, <5>1 DEF Carried
        <5>2. CASE r.kind # "put"
          <6>1. r.item = running.op.item /\ r.kind = running.op.kind BY <3>1, <4>1, <5>2
          <6>2. doc = IF r.kind = "add" THEN file \cup {r.item} ELSE file \ {r.item}
            BY <5>2 DEF Applied
          <6>3. r.item \notin DOMAIN want /\ AsTold(want, file) BY <3>1, <6>1 DEF Keeping, Told
          <6> HIDE DEF doc, r
          <6>4. AsTold(want, doc) BY <6>2, <6>3 DEF AsTold
          <6>5. Effected(running.op, doc) BY <6>1, <6>2 DEF Effected
          <6> QED BY <6>4, <6>5
        <5> QED BY <5>1, <5>2
      <4> HIDE DEF r, next, doc
      <4> QED BY <3>1, <4>1, <4>2, <4>3 DEF InFlight, Carried, Saved
    <3>5. CASE Reject("canvas") BY <1>3, <3>2, <3>5 DEF Reject, Becomes
    <3> QED BY <1>5, <3>2, <3>3, <3>4, <3>5
  <2>3. Flight' BY <1>1, <2>2 DEF Flight
  <2> QED BY <1>2, <2>3 DEF Keeping
<1> QED BY <1>4, <1>5

LEMMA KeepingPersist ==
    ASSUME Typed, Keeping, NEW c \in Clients, Persist(c)
    PROVE  Keeping'
<1> DEFINE doc == req[c].doc
           changed == {i \in Items : (i \in file) # (i \in doc)}
<1>1. /\ file' = doc /\ Becomes(c, Answer(doc)) /\ req[c].pc = "held"
      /\ UNCHANGED <<canvas, load, left>>
  BY DEF Persist
<1>2. req \in [Clients -> WellFormed] /\ "canvas" \in Clients BY DEF Typed, TypedRequests, Clients
<1>3. doc \in Docs BY <1>1, <1>2 DEF WellFormed
<1>4. Boot' BY <1>1 DEF Keeping, Boot
<1>5. CASE c = "canvas"
  <2>1. UNCHANGED <<want, running>> BY <1>5 DEF Persist
  <2>2. running # None BY <1>1, <1>5 DEF Typed, TypedCanvas
  <2>3. InFlight(want, req["canvas"], running, file) BY <2>2 DEF Keeping, Flight
  <2>4. AsTold(want, doc) /\ Effected(running.op, doc) BY <1>1, <1>5, <2>3 DEF InFlight, Carried
  <2>5. Told' BY <1>1, <2>1, <2>4, Zenon DEF Keeping, Told
  <2>6. req'["canvas"].pc = "answered" /\ req'["canvas"].doc = doc
    BY <1>1, <1>2, <1>5 DEF Becomes, Answer, NoRequest
  <2>7. InFlight(want, req'["canvas"], running, file') BY <1>1, <2>3, <2>4, <2>6, Zenon DEF InFlight
  <2>8. Flight' BY <2>1, <2>7 DEF Flight
  <2> QED BY <1>4, <2>5, <2>8 DEF Keeping
<1>6. CASE c # "canvas"
  <2>1. /\ want' = [i \in DOMAIN want \ changed |-> want[i]]
        /\ running' = IF running = None \/ running.op.item \notin changed THEN running
                      ELSE [running EXCEPT !.sole = FALSE]
    BY <1>6, Zenon DEF Persist, Changed
  <2>2. req'["canvas"] = req["canvas"] BY <1>1, <1>2, <1>6 DEF Becomes
  <2>3. DOMAIN want \subseteq Items /\ (running # None => running \in Runs) BY DEF Typed, TypedCanvas
  <2>4. DOMAIN want' \subseteq DOMAIN want /\ (\A i \in DOMAIN want' : want'[i] = want[i] /\ (i \in file <=> i \in doc))
    <3>1. \A i \in DOMAIN want : i \notin changed => (i \in file <=> i \in doc) BY <2>3
    <3> HIDE DEF changed
    <3> QED BY <2>1, <3>1
  <2>5. ASSUME NEW any, AsTold(want, any) PROVE AsTold(want', any)
    BY <2>4, <2>5, Zenon DEF AsTold
  <2>6. Told'
    <3>1. AsTold(want', doc) BY <2>4, Zenon DEF AsTold, Keeping, Told
    <3>2. AsTold(want', canvas.doc) BY <2>5 DEF Keeping, Told
    <3>3. \A i \in DOMAIN want' : want'[i] \in BOOLEAN BY <2>4, Zenon DEF Keeping, Told
    <3>4. DOMAIN want' # {} => DOMAIN want # {} BY <2>4
    <3>5. DOMAIN want' # {} => canvas.doc # None BY <3>4 DEF Keeping, Told
    <3> HIDE DEF doc
    <3> QED BY <1>1, <3>1, <3>2, <3>3, <3>5, Zenon DEF Told
  <2>7. ASSUME running' # None PROVE InFlight(want', req["canvas"], running', file')
    <3> DEFINE r == req["canvas"]
    <3>1. running # None BY <2>1, <2>7
    <3>2. InFlight(want, r, running, file) /\ running \in Runs BY <2>3, <3>1 DEF Keeping, Flight
    <3>3. running'.op = running.op /\ (running'.sole => running.sole /\ running.op.item \notin changed)
      <4> HIDE DEF changed
      <4> QED BY <2>1, <3>1, <3>2 DEF Runs
    <3>4. running.op.item \in Items \cup {None} BY <3>2 DEF Runs, Operations
    <3>5. Saved(r, running') => Effected(running.op, doc)
      <4>1. ASSUME Saved(r, running') PROVE Effected(running.op, doc)
        <5>1. Saved(r, running) /\ running.op.item \notin changed BY <3>3, <4>1 DEF Saved
        <5>2. Effected(running.op, file) BY <3>2, <5>1 DEF InFlight
        <5> QED BY <3>4, <5>1, <5>2 DEF Effected
      <4> QED BY <4>1
    <3>6. running.op.item \notin DOMAIN want' /\ (running.op.item = None => DOMAIN want' = {})
      BY <2>4, <3>2 DEF InFlight
    <3>7. Carried(r) => AsTold(want', r.doc) /\ Effected(running.op, r.doc)
      BY <2>5, <3>2 DEF InFlight
    <3> HIDE DEF r, doc
    <3>8. r.pc # "answered" /\ r.kind # "put" => r.item = running.op.item /\ r.kind = running.op.kind
      BY <3>2 DEF InFlight
    <3> QED BY <1>1, <3>3, <3>5, <3>6, <3>7, <3>8 DEF InFlight, r
  <2>8. Flight' BY <2>2, <2>7 DEF Flight
  <2> QED BY <1>4, <2>6, <2>8 DEF Keeping
<1> QED BY <1>5, <1>6

LEMMA KeepingStart ==
    ASSUME OneLoad, Typed, Keeping, Start
    PROVE  Keeping'
<1> DEFINE op == Head(queue)
           travels == op.via \in {"undo", "redo"}
<1>1. running = None /\ queue # <<>> /\ canvas.doc \in Docs /\ canvas.doc # None
  BY DEF Start, Typed, TypedCanvas
<1>2. op \in Made BY <1>1, HeadTailProperties DEF Typed, TypedCanvas
<1>3. UNCHANGED <<file, load, left>> BY DEF Start
<1>4. CASE travels /\ Stack(op.via) = <<>>
  <2>1. UNCHANGED <<req, running, canvas, want>> BY <1>4 DEF Start
  <2>2. Boot' BY <1>3, <2>1 DEF Keeping, Boot
  <2> QED BY <1>3, <2>1, <2>2, KeepingAlone
<1>5. CASE ~(travels /\ Stack(op.via) = <<>>)
  <2> DEFINE r == RequestOf(op)
             run == [op |-> op, prev |-> canvas.doc, target |-> r.doc, sole |-> TRUE]
  <2>1. /\ Becomes("canvas", r) /\ running' = run
        /\ canvas' = IF travels THEN WithStack(op.via, Front(Stack(op.via))) ELSE canvas
        /\ want' = IF op.item = None THEN <<>> ELSE [i \in DOMAIN want \ {op.item} |-> want[i]]
    BY <1>5 DEF Start
  <2>2. r.pc = "sent" BY <1>1, <1>2, <1>5, RequestTyped DEF Typed
  <2>3. req'["canvas"] = r BY <2>1 DEF Becomes, Clients, Typed, TypedRequests
  <2>4. canvas'.doc = canvas.doc
    <3>1. CASE travels
      <4>1. Stack(op.via) \in Seq(Docs) /\ Stack(op.via) # <<>> BY <1>5, <3>1, StackTyped DEF Typed
      <4>2. Front(Stack(op.via)) \in Seq(Docs) BY <4>1, FrontLast
      <4>3. op.via \in {"undo", "redo"} /\ TypedCanvas BY <3>1 DEF Typed
      <4>4. \A s \in Seq(Docs) : WithStack(op.via, s).doc = canvas.doc BY <4>3, StackTyped, Zenon
      <4> QED BY <2>1, <3>1, <4>2, <4>4
    <3>2. CASE ~travels BY <2>1, <3>2
    <3> QED BY <3>1, <3>2
  <2>5. /\ DOMAIN want' \subseteq DOMAIN want \ {op.item}
        /\ op.item = None => DOMAIN want' = {}
        /\ \A i \in DOMAIN want' : want'[i] = want[i]
    BY <2>1
  <2>6. ASSUME NEW any, AsTold(want, any) PROVE AsTold(want', any)
    BY <2>5, <2>6, Zenon DEF AsTold
  <2>7. Told'
    <3>1. AsTold(want', file) /\ AsTold(want', canvas.doc) BY <2>6 DEF Keeping, Told
    <3>2. \A i \in DOMAIN want' : want'[i] \in BOOLEAN BY <2>5 DEF Keeping, Told
    <3> HIDE DEF op
    <3> QED BY <1>1, <1>3, <2>4, <3>1, <3>2, Zenon DEF Told
  <2>8. Boot' BY <1>3, <2>4 DEF Keeping, Boot
  <2>9. InFlight(want', r, run, file)
    <3>1. run.op = op OBVIOUS
    <3>2. CASE op.item = None
      <4>1. DOMAIN want' = {} BY <2>5, <3>2
      <4>2. r.kind = "put"
        <5>1. op.via \notin Vias BY <1>2, <3>2, NamesAssumption DEF Made
        <5>2. op.via \in {"import", "undo", "redo"} BY <1>2, <5>1 DEF Made, Operations
        <5>3. r = PutRequest(Last(Stack(op.via)), None) \/ r = PutRequest(op.doc, None)
          <6>1. CASE op.via = "import"
            <7>1. op.doc # None BY <1>2, <6>1, NamesAssumption DEF Made
            <7> QED BY <6>1, <7>1 DEF RequestOf
          <6>2. CASE op.via \in {"undo", "redo"}
            <7>1. op.doc = None BY <1>2, <6>2 DEF Made
            <7> QED BY <6>2, <7>1 DEF RequestOf
          <6> QED BY <5>2, <6>1, <6>2
        <5> QED BY <5>3 DEF PutRequest, NoRequest
      <4> HIDE DEF r, run, op
      <4> QED BY <2>2, <3>1, <3>2, <4>1, <4>2 DEF InFlight, AsTold, Effected, Saved
    <3>3. CASE op.item # None
      <4>1. op.via \in Vias BY <1>2, <3>3 DEF Made
      <4>2. op.via \in {"replace", "param"} /\ op.doc = None /\ op.kind \in {"add", "remove"}
        BY <1>2, <4>1, EditorsAssumption DEF Made, OneLoad
      <4>3. CASE op.via = "param"
        <5>1. r = EditRequest(op.kind, op.item) BY <4>2, <4>3 DEF RequestOf
        <5>2. r.kind = op.kind /\ r.item = op.item BY <5>1 DEF EditRequest, NoRequest
        <5> HIDE DEF r, run, op
        <5> QED BY <2>2, <2>5, <3>1, <3>3, <4>2, <5>2 DEF InFlight, Carried, Saved
      <4>4. CASE op.via = "replace"
        <5>1. r = PutRequest(Applied(op.kind, op.item, canvas.doc), None) BY <4>2, <4>4 DEF RequestOf
        <5>2. r.kind = "put" /\ r.doc = Applied(op.kind, op.item, canvas.doc)
          BY <5>1 DEF PutRequest, NoRequest
        <5>3. r.doc = IF op.kind = "add" THEN canvas.doc \cup {op.item} ELSE canvas.doc \ {op.item}
          BY <5>2 DEF Applied
        <5>4. AsTold(want', canvas.doc) /\ op.item \notin DOMAIN want'
          BY <2>5, <2>6 DEF Keeping, Told
        <5> HIDE DEF r, run, op
        <5>5. AsTold(want', r.doc) BY <5>3, <5>4 DEF AsTold
        <5>6. Effected(op, r.doc) BY <4>2, <5>3 DEF Effected
        <5> QED BY <2>2, <3>1, <3>3, <5>2, <5>4, <5>5, <5>6 DEF InFlight, Saved
      <4> QED BY <4>2, <4>3, <4>4
    <3> QED BY <3>2, <3>3
  <2>10. Flight' BY <1>3, <2>1, <2>3, <2>9 DEF Flight
  <2> QED BY <2>7, <2>8, <2>10 DEF Keeping
<1> QED BY <1>4, <1>5

LEMMA KeepingSettle ==
    ASSUME Typed, Keeping, Succeed \/ Fail
    PROVE  Keeping'
<1> DEFINE op == running.op
           doc == req["canvas"].doc
<1>1. req["canvas"].pc = "answered" BY DEF Succeed, Fail
<1>2. running # None /\ canvas.doc \in Docs /\ canvas.doc # None /\ running \in Runs
  BY <1>1, AnsweredRun, NamesAssumption
<1>3. running' = None /\ UNCHANGED <<file, load, left>> BY DEF Succeed, Fail
<1>4. Flight' BY <1>3 DEF Flight
<1>5. CASE Succeed
  <2>1. doc \in Docs /\ doc # Refused /\ doc # None
    BY <1>1, <1>5, AnsweredRun, NamesAssumption DEF Succeed
  <2>2. canvas' = Settled(op, running.prev, doc)
        /\ want' = IF op.item = None \/ ~running.sole THEN want
                   ELSE [i \in DOMAIN want \cup {op.item} |->
                            IF i = op.item THEN op.kind = "add" ELSE want[i]]
    BY <1>5 DEF Succeed
  <2>3. canvas'.doc = doc
    <3>1. CASE op.via \in {"undo", "redo"}
      <4> DEFINE other == IF op.via = "undo" THEN "redo" ELSE "undo"
                 pushed == Append(Stack(other), running.prev)
      <4>1. other \in {"undo", "redo"} /\ TypedCanvas BY DEF Typed
      <4>2. Stack(other) \in Seq(Docs) /\ running.prev \in Docs BY <1>2, <4>1, StackTyped DEF Runs
      <4>3. pushed \in Seq(Docs) BY <4>2, AppendProperties
      <4>4. canvas' = [WithStack(other, pushed) EXCEPT !.doc = doc] BY <2>2, <3>1 DEF Settled
      <4> HIDE DEF other, pushed
      <4>5. WithStack(other, pushed) \in [doc : Docs \cup {None}, undo : Seq(Docs), redo : Seq(Docs)]
        BY <4>1, <4>3, StackTyped
      <4> QED BY <4>4, <4>5
    <3>2. CASE op.via \notin {"undo", "redo"} BY <2>2, <3>2 DEF Settled
    <3> QED BY <3>1, <3>2
  <2>4. AsTold(want, doc) /\ Effected(op, doc) /\ (running.sole => Effected(op, file))
    BY <1>1, <1>2, <2>1 DEF Keeping, Flight, InFlight, Carried, Saved
  <2>5. AsTold(want, file) /\ (\A i \in DOMAIN want : want[i] \in BOOLEAN) BY DEF Keeping, Told
  <2>6. (\A i \in DOMAIN want' : want'[i] \in BOOLEAN) /\ AsTold(want', doc) /\ AsTold(want', file)
    <3>1. CASE op.item = None \/ ~running.sole BY <2>2, <2>4, <2>5, <3>1
    <3>2. CASE ~(op.item = None \/ ~running.sole)
      <4>1. want' = [i \in DOMAIN want \cup {op.item} |->
                         IF i = op.item THEN op.kind = "add" ELSE want[i]]
        BY <2>2, <3>2
      <4>2. ((op.kind = "add") <=> (op.item \in doc)) /\ ((op.kind = "add") <=> (op.item \in file))
        BY <2>4, <3>2 DEF Effected
      <4>3. DOMAIN want' = DOMAIN want \cup {op.item} BY <4>1
      <4>4. ASSUME NEW i \in DOMAIN want' PROVE want'[i] \in BOOLEAN /\ (want'[i] <=> i \in doc) /\ (want'[i] <=> i \in file)
        <5>1. CASE i = op.item
          <6>1. want'[i] = (op.kind = "add") BY <4>1, <4>3, <5>1
          <6> QED BY <4>2, <5>1, <6>1
        <5>2. CASE i # op.item
          <6>1. i \in DOMAIN want /\ want'[i] = want[i] BY <4>1, <4>3, <5>2
          <6> QED BY <2>4, <2>5, <6>1, Zenon DEF AsTold
        <5> QED BY <5>1, <5>2
      <4> QED BY <4>4, Zenon DEF AsTold
    <3> QED BY <3>1, <3>2
  <2> HIDE DEF doc, op
  <2>7. Told' BY <1>3, <2>1, <2>3, <2>6 DEF Told
  <2>8. Boot' BY <1>2, <1>3 DEF Keeping, Boot
  <2> QED BY <1>4, <2>7, <2>8 DEF Keeping
<1>6. CASE Fail
  <2>1. canvas'.doc = canvas.doc
    <3>1. CASE op.via \in {"undo", "redo"}
      <4>1. Stack(op.via) \in Seq(Docs) /\ running.target \in Docs
        BY <1>2, <3>1, StackTyped DEF Typed, Runs
      <4>2. Append(Stack(op.via), running.target) \in Seq(Docs) BY <4>1, AppendProperties
      <4>3. canvas' = WithStack(op.via, Append(Stack(op.via), running.target)) BY <1>6, <3>1 DEF Fail
      <4>4. \A s \in Seq(Docs) : WithStack(op.via, s).doc = canvas.doc
        BY <3>1, StackTyped, Zenon DEF Typed
      <4> QED BY <4>2, <4>3, <4>4
    <3>2. CASE op.via \notin {"undo", "redo"} BY <1>6, <3>2 DEF Fail
    <3> QED BY <3>1, <3>2
  <2>2. want' = want BY <1>6 DEF Fail
  <2>3. Told' BY <1>3, <2>1, <2>2 DEF Keeping, Told
  <2>4. Boot' BY <1>3, <2>1 DEF Keeping, Boot
  <2> QED BY <1>4, <2>3, <2>4 DEF Keeping
<1> QED BY <1>5, <1>6

LEMMA KeepingLoad ==
    ASSUME Typed, Keeping, LoadDoc \/ GetBlueprint \/ Loaded
    PROVE  Keeping'
<1>1. UNCHANGED <<file, req, running, want>> BY DEF LoadDoc, GetBlueprint, Loaded
<1>2. left \in [edits : Nat, loads : Nat] BY DEF Typed, TypedCanvas
<1>3. CASE LoadDoc
  <2>1. left.loads > 0 /\ left'.loads = left.loads - 1 /\ canvas' = canvas BY <1>2, <1>3 DEF LoadDoc
  <2>2. left.loads = 1 /\ canvas.doc = None BY <1>2, <2>1 DEF Keeping, Boot
  <2>3. Boot' BY <2>1, <2>2 DEF Boot
  <2> QED BY <1>1, <2>1, <2>3, KeepingAlone
<1>4. CASE GetBlueprint
  <2>1. load.pc # "none" /\ UNCHANGED <<canvas, left>> BY <1>4 DEF GetBlueprint
  <2>2. Boot' BY <2>1 DEF Keeping, Boot
  <2> QED BY <1>1, <2>1, <2>2, KeepingAlone
<1>5. CASE Loaded
  <2>1. load.pc # "none" /\ load'.pc = "none" /\ left' = left BY <1>5 DEF Loaded
  <2>2. canvas.doc = None /\ left.loads = 0 BY <2>1 DEF Keeping, Boot
  <2>3. DOMAIN want = {} /\ running = None BY <2>2 DEF Keeping, Told, Typed, TypedCanvas
  <2>4. Told' BY <1>1, <2>3 DEF Told, AsTold
  <2>5. Boot' BY <2>1, <2>2 DEF Boot
  <2>6. Flight' BY <1>1, <2>3 DEF Flight
  <2> QED BY <2>4, <2>5, <2>6 DEF Keeping
<1> QED BY <1>3, <1>4, <1>5

LEMMA KeepingOthers ==
    ASSUME Typed, Keeping,
           \/ UNCHANGED vars
           \/ \E op \in Offered : Enqueue(op)
           \/ Generate
           \/ \E n \in DOMAIN output.asked : Rendered(n) \/ Answered(n)
           \/ ScriptRead \/ ScriptDone
           \/ \E i \in Items : ScriptReplace(i) \/ ScriptEdit(i)
    PROVE  Keeping'
<1>1. UNCHANGED <<file, canvas, running, load, want>>
  BY DEF vars, Enqueue, Generate, Rendered, Answered, ScriptRead, ScriptDone, ScriptReplace, ScriptEdit,
         ScriptWrite
<1>2. left'.loads = left.loads
  BY DEF vars, Enqueue, Generate, Rendered, Answered, ScriptRead, ScriptDone, ScriptReplace, ScriptEdit,
         ScriptWrite, Typed, TypedCanvas
<1>3. req'["canvas"] = req["canvas"]
  BY DEF vars, Enqueue, Generate, Rendered, Answered, ScriptRead, ScriptDone, ScriptReplace, ScriptEdit,
         ScriptWrite, Becomes, Clients, Typed, TypedRequests
<1>4. Boot' BY <1>1, <1>2 DEF Keeping, Boot
<1> QED BY <1>1, <1>3, <1>4, KeepingAlone

(* A change the canvas told its user had been saved is in the file until   *)
(* the user undoes it, imports a document or changes it again, or another  *)
(* client changes that very item: for any number of operations and of      *)
(* items, whatever the server refuses and whatever answers are lost, also  *)
(* when the script writes from a process of its own.  The canvas must make *)
(* its documents when their turn comes and must not load the document      *)
(* again outside its chain.                                                *)
THEOREM ToldIsKept == ASSUME OneLoad PROVE Spec => []OwnEditsKept
<1>1. Init => Keeping BY KeepingInit
<1>2. Typed /\ Keeping /\ [Next]_vars => Keeping'
  <2>1. SUFFICES ASSUME Typed, Keeping, [Next]_vars PROVE Keeping' OBVIOUS
  <2>2. ASSUME NEW c \in Clients, Handle(c) PROVE Keeping'
    BY <2>1, <2>2, KeepingLock, KeepingPersist DEF Handle
  <2> QED BY <2>1, <2>2, KeepingStart, KeepingSettle, KeepingLoad, KeepingOthers DEF Next
<1>3. Keeping => OwnEditsKept
  <2>1. SUFFICES ASSUME Keeping, NEW i \in DOMAIN want PROVE want[i] = (i \in file)
    BY DEF OwnEditsKept
  <2>2. want[i] \in BOOLEAN /\ (want[i] <=> i \in file) BY <2>1 DEF Keeping, Told, AsTold
  <2> QED BY <2>2
<1> QED BY <1>1, <1>2, <1>3, EditorsTyped, PTL DEF Spec

-----------------------------------------------------------------------------
(* The writes of one process.  What the document of a route of one item    *)
(* misses of the file, its own edit apart, was written while it waited; a  *)
(* replace with a revision that never waits holds the mutex over the very  *)
(* document it was compared with.                                          *)
OneServer == ScriptProcess = "serve"
Conditional == <<"script", "put">> \notin WaitingWrites

Late(r, late, onDisk) ==
    r.pc \in {"held", "waiting"} /\ r.kind # "put"
        => Changed(Applied(r.kind, r.item, onDisk), r.doc) \subseteq late
Compared(r, onDisk) ==
    r.match # None => r.kind = "put" /\ r.pc # "waiting" /\ (r.pc = "held" => r.match = onDisk)
Serial ==
    /\ crossed \in [Clients -> SUBSET Items]
    /\ ~(req["canvas"].pc = "held" /\ req["script"].pc = "held")
    /\ req["canvas"].match = None
    /\ \A c \in Clients : Late(req[c], crossed[c], file)
    /\ Conditional => \A c \in Clients : Compared(req[c], file)

LEMMA SerialInit == Init => Serial
BY DEF Init, Serial, Clients, NoRequest, Late, Compared

LEMMA SerialAlone ==
    ASSUME Serial, UNCHANGED <<file, req, crossed>>
    PROVE  Serial'
BY DEF Serial

(* A request that is new, is answered or goes.                             *)
LEMMA SerialBecomes ==
    ASSUME Typed, Serial, file' = file, NEW c \in Clients, NEW r, Becomes(c, r),
           r.pc \notin {"held", "waiting"}, r.match # None => c # "canvas" /\ r.kind = "put",
           crossed' \in [Clients -> SUBSET Items],
           \A d \in Clients \ {c} : crossed'[d] = crossed[d]
    PROVE  Serial'
<1>1. req \in [Clients -> WellFormed] BY DEF Typed, TypedRequests
<1>2. \A d \in Clients : req'[d] = IF d = c THEN r ELSE req[d] BY <1>1 DEF Becomes
<1>3. \A d \in Clients : Late(req'[d], crossed'[d], file') BY <1>2 DEF Serial, Late
<1>4. Conditional => \A d \in Clients : Compared(req'[d], file')
  BY <1>2 DEF Serial, Compared
<1>5. /\ ~(req'["canvas"].pc = "held" /\ req'["script"].pc = "held")
      /\ req'["canvas"].match = None
  BY <1>2 DEF Serial, Clients
<1> QED BY <1>3, <1>4, <1>5 DEF Serial, Conditional

LEMMA NewRequests ==
    /\ NoRequest.pc = "none" /\ NoRequest.match = None
    /\ \A doc : Answer(doc).pc = "answered" /\ Answer(doc).match = None
    /\ \A doc, match : /\ PutRequest(doc, match).pc = "sent" /\ PutRequest(doc, match).kind = "put"
                       /\ PutRequest(doc, match).match = match
    /\ \A kind, item : EditRequest(kind, item).pc = "sent" /\ EditRequest(kind, item).match = None
BY DEF NoRequest, Answer, PutRequest, EditRequest

(* A request that takes the mutex has just loaded the document; one that   *)
(* lets go of it, or takes it back, is the same but for that.              *)
LEMMA SerialLock ==
    ASSUME OneServer, Typed, Serial, NEW c \in Clients, Lock(c) \/ Unlock(c) \/ Relock(c)
    PROVE  Serial'
<1> DEFINE r == req[c]
           next == req'[c]
<1>1. req \in [Clients -> WellFormed] /\ r \in Requests /\ (r.kind # "put" => r.item \in Items)
  BY DEF Typed, TypedRequests, WellFormed
<1>2. \A d \in Clients : Home(d) = "serve" BY DEF OneServer, Home
<1>3. file' = file /\ crossed' = crossed BY DEF Lock, Unlock, Relock
<1>4. \A d \in Clients \ {c} : req'[d] = req[d] BY HandleStep DEF Handle
<1>5. MutexFree(Home(c)) => \A d \in Clients : req[d].pc # "held" BY <1>2 DEF MutexFree
<1>6. CASE Becomes(c, Answer(Refused))
  BY <1>3, <1>6, NewRequests, SerialBecomes DEF Serial
<1>7. ASSUME \/ Lock(c) /\ ~Becomes(c, Answer(Refused))
             \/ Unlock(c)
             \/ Relock(c)
      PROVE  /\ next.kind = r.kind /\ next.item = r.item /\ next.match = r.match
             /\ next.pc = "held" => MutexFree(Home(c))
             /\ Late(next, crossed[c], file)
             /\ Conditional => Compared(next, file)
  <2>1. CASE Lock(c) /\ ~Becomes(c, Answer(Refused))
    <3> DEFINE doc == IF r.kind = "put" THEN r.doc ELSE Applied(r.kind, r.item, file)
    <3>1. /\ MutexFree(Home(c)) /\ r.match \in {None, file}
          /\ r.pc = "sent" /\ Becomes(c, [r EXCEPT !.pc = "held", !.doc = doc])
      BY <2>1 DEF Lock, Exclusive
    <3>2. next = [r EXCEPT !.pc = "held", !.doc = doc] BY <1>1, <3>1 DEF Becomes
    <3>3. /\ next.pc = "held" /\ next.kind = r.kind /\ next.item = r.item
          /\ next.match = r.match /\ next.doc = doc
      BY <1>1, <3>2 DEF Requests
    <3>4. Late(next, crossed[c], file) BY <3>3 DEF Late, Changed
    <3>5. Conditional => Compared(next, file) BY <3>1, <3>3 DEF Serial, Compared
    <3> HIDE DEF doc
    <3> QED BY <3>1, <3>3, <3>4, <3>5
  <2>2. CASE Unlock(c)
    <3>1. r.pc = "held" /\ <<c, r.kind>> \in WaitingWrites /\ Becomes(c, [r EXCEPT !.pc = "waiting"])
      BY <2>2 DEF Unlock
    <3>2. next = [r EXCEPT !.pc = "waiting"] BY <1>1, <3>1 DEF Becomes
    <3>3. /\ next.pc = "waiting" /\ next.kind = r.kind /\ next.item = r.item
          /\ next.match = r.match /\ next.doc = r.doc
      BY <1>1, <3>2 DEF Requests
    <3>4. Late(next, crossed[c], file) BY <3>1, <3>3 DEF Serial, Late
    <3>5. Conditional => Compared(next, file)
      BY <3>1, <3>3 DEF Serial, Conditional, Compared, Clients
    <3> QED BY <3>3, <3>4, <3>5
  <2>3. CASE Relock(c)
    <3>1. /\ r.pc = "waiting" /\ MutexFree(Home(c))
          /\ Becomes(c, [r EXCEPT !.pc = "held", !.waited = TRUE])
      BY <2>3 DEF Relock
    <3>2. next = [r EXCEPT !.pc = "held", !.waited = TRUE] BY <1>1, <3>1 DEF Becomes
    <3>3. /\ next.pc = "held" /\ next.kind = r.kind /\ next.item = r.item
          /\ next.match = r.match /\ next.doc = r.doc
      BY <1>1, <3>2 DEF Requests
    <3>4. Late(next, crossed[c], file) BY <3>1, <3>3 DEF Serial, Late
    <3>5. Conditional => Compared(next, file) BY <3>1, <3>3 DEF Serial, Compared
    <3> QED BY <3>1, <3>3, <3>4, <3>5
  <2> QED BY <1>7, <2>1, <2>2, <2>3
<1>8. CASE ~Becomes(c, Answer(Refused))
  <2>1. /\ next.match = r.match
        /\ next.pc = "held" => \A d \in Clients : req[d].pc # "held"
        /\ Late(next, crossed[c], file)
        /\ Conditional => Compared(next, file)
    BY <1>5, <1>7, <1>8
  <2>2. \A d \in Clients : Late(req'[d], crossed'[d], file')
    BY <1>3, <1>4, <2>1 DEF Serial
  <2>3. Conditional => \A d \in Clients : Compared(req'[d], file')
    BY <1>3, <1>4, <2>1 DEF Serial
  <2>4. /\ ~(req'["canvas"].pc = "held" /\ req'["script"].pc = "held")
        /\ req'["canvas"].match = None
    BY <1>4, <2>1 DEF Serial, Clients
  <2> QED BY <1>3, <2>2, <2>3, <2>4 DEF Serial, Conditional
<1> QED BY <1>6, <1>8

(* A write takes every item another one waits with into account.           *)
LEMMA SerialPersist ==
    ASSUME OneServer, Typed, Serial, NEW c \in Clients, Persist(c)
    PROVE  Serial'
<1> DEFINE doc == req[c].doc
<1>1. req \in [Clients -> WellFormed] /\ req[c] \in Requests BY DEF Typed, TypedRequests, WellFormed
<1>2. /\ req[c].pc = "held" /\ Becomes(c, Answer(doc)) /\ file' = doc
      /\ crossed' = [d \in Clients |->
                        IF d = c THEN {}
                        ELSE IF req[d].pc = "waiting" THEN crossed[d] \cup Changed(file, doc)
                        ELSE crossed[d]]
  BY DEF Persist
<1>3. req'[c].pc = "answered" /\ req'[c].match = None
  BY <1>1, <1>2, NewRequests DEF Becomes
<1>4. \A d \in Clients \ {c} : req'[d] = req[d] /\ req[d].pc # "held"
  BY <1>1, <1>2 DEF Becomes, Serial, Clients
<1>5. crossed' \in [Clients -> SUBSET Items]
  BY <1>2 DEF Serial, Changed
<1> HIDE DEF doc
<1>6. ASSUME NEW d \in Clients PROVE Late(req'[d], crossed'[d], file')
  <2>1. CASE d = c BY <1>3, <2>1 DEF Late
  <2>2. CASE d # c /\ req[d].pc = "waiting"
    <3>1. crossed'[d] = crossed[d] \cup Changed(file, doc) /\ req'[d] = req[d]
      BY <1>2, <1>4, <2>2
    <3>2. ASSUME NEW kind, NEW item, NEW other
          PROVE  Changed(Applied(kind, item, doc), other)
                   \subseteq Changed(Applied(kind, item, file), other) \cup Changed(file, doc)
      BY DEF Changed, Applied
    <3>3. Late(req[d], crossed[d], file) BY DEF Serial
    <3> QED BY <1>2, <2>2, <3>1, <3>2, <3>3 DEF Late
  <2>3. CASE d # c /\ req[d].pc # "waiting" BY <1>4, <2>3 DEF Late
  <2> QED BY <2>1, <2>2, <2>3
<1>7. Conditional => \A d \in Clients : Compared(req'[d], file')
  BY <1>3, <1>4 DEF Serial, Compared
<1>8. /\ ~(req'["canvas"].pc = "held" /\ req'["script"].pc = "held")
      /\ req'["canvas"].match = None
  BY <1>3, <1>4 DEF Serial, Clients
<1> QED BY <1>5, <1>6, <1>7, <1>8 DEF Serial, Conditional

LEMMA SerialHandle ==
    ASSUME OneServer, Typed, Serial, NEW c \in Clients, Handle(c)
    PROVE  Serial'
<1>1. CASE Reject(c)
  <2>1. /\ file' = file /\ Becomes(c, Answer(Refused))
        /\ crossed' = [crossed EXCEPT ![c] = {}]
    BY <1>1 DEF Reject
  <2>2. crossed' \in [Clients -> SUBSET Items] /\ \A d \in Clients \ {c} : crossed'[d] = crossed[d]
    BY <2>1 DEF Serial
  <2> QED BY <2>1, <2>2, NewRequests, SerialBecomes
<1> QED BY <1>1, SerialLock, SerialPersist DEF Handle

LEMMA SerialNext ==
    ASSUME OneServer, Typed, Serial, [Next]_vars
    PROVE  Serial'
<1>1. "canvas" \in Clients /\ "script" \in Clients /\ "script" # "canvas" BY DEF Clients
<1>2. ASSUME NEW c \in Clients, Handle(c) PROVE Serial' BY <1>2, SerialHandle
<1>3. CASE Start
  <2> DEFINE op == Head(queue)
  <2>1. crossed' = crossed /\ file' = file BY <1>3 DEF Start
  <2>2. CASE UNCHANGED req BY <2>1, <2>2, SerialAlone
  <2>3. CASE ~(UNCHANGED req)
    <3>1. ~(op.via \in {"undo", "redo"} /\ Stack(op.via) = <<>>)
          /\ Becomes("canvas", RequestOf(op))
      BY <1>3, <2>3 DEF Start
    <3>2. op \in Made /\ canvas.doc # None
      BY <1>3, HeadTailProperties DEF Start, Typed, TypedCanvas
    <3>3. RequestOf(op).pc = "sent" BY <3>1, <3>2, RequestTyped DEF Typed
    <3>4. RequestOf(op).match = None
      <4>1. op.via \in {"replace", "draft", "param", "import", "undo", "redo"}
        BY <3>2, EditorsAssumption DEF Made, Operations
      <4> HIDE DEF op
      <4>2. CASE op.via = "param" BY <4>2, NewRequests DEF RequestOf
      <4>3. CASE op.via \in {"undo", "redo"}
        <5>1. op.doc = None BY <3>2, <4>3 DEF Made
        <5> QED BY <4>3, <5>1, NewRequests DEF RequestOf
      <4>4. CASE op.via \in {"replace", "draft", "import"}
        <5>1. CASE op.doc # None BY <4>4, <5>1, NewRequests DEF RequestOf
        <5>2. CASE op.doc = None BY <4>4, <5>2, NewRequests DEF RequestOf
        <5> QED BY <5>1, <5>2
      <4> QED BY <4>1, <4>2, <4>3, <4>4
    <3> HIDE DEF op
    <3> QED BY <1>1, <2>1, <3>1, <3>3, <3>4, SerialBecomes DEF Serial
  <2> QED BY <2>2, <2>3
<1>4. CASE Succeed \/ Fail
  <2>1. file' = file /\ crossed' = crossed /\ Becomes("canvas", NoRequest) BY <1>4 DEF Succeed, Fail
  <2> QED BY <1>1, <2>1, NewRequests, SerialBecomes DEF Serial
<1>5. CASE ScriptDone
  <2>1. file' = file /\ crossed' = crossed /\ Becomes("script", NoRequest) BY <1>5 DEF ScriptDone
  <2> QED BY <1>1, <2>1, NewRequests, SerialBecomes DEF Serial
<1>6. ASSUME NEW i \in Items, ScriptReplace(i) \/ ScriptEdit(i) PROVE Serial'
  <2>1. file' = file /\ crossed' = crossed BY <1>6 DEF ScriptReplace, ScriptEdit, ScriptWrite
  <2>2. PICK r : Becomes("script", r) /\ r.pc = "sent" /\ (r.match # None => r.kind = "put")
    BY <1>6, NewRequests DEF ScriptReplace, ScriptEdit, ScriptWrite
  <2> QED BY <1>1, <2>1, <2>2, SerialBecomes DEF Serial
<1>7. CASE \/ UNCHANGED vars
           \/ \E op \in Offered : Enqueue(op)
           \/ LoadDoc \/ GetBlueprint \/ Loaded \/ Generate \/ ScriptRead
           \/ \E n \in DOMAIN output.asked : Rendered(n) \/ Answered(n)
  <2>1. UNCHANGED <<file, req, crossed>>
    BY <1>7 DEF vars, Enqueue, LoadDoc, GetBlueprint, Loaded, Generate, ScriptRead, Rendered, Answered
  <2> QED BY <2>1, SerialAlone
<1> QED BY <1>2, <1>3, <1>4, <1>5, <1>6, <1>7 DEF Next

LEMMA AlwaysSerial == ASSUME OneServer PROVE Spec => []Serial
BY SerialInit, SerialNext, EditorsTyped, PTL DEF Spec

(* A replace that names a revision overwrites the document of that         *)
(* revision and no other, though the comparison and the write are two      *)
(* steps: for any number of writes of the clients of one server, where     *)
(* everything but the replaces with a revision may wait for a source.      *)
THEOREM RevisionKept == ASSUME OneServer, Conditional PROVE Spec => ConditionalReplaceKeeps
<1>1. Serial => \A c \in Clients : req[c].match # None /\ Persist(c) => file = req[c].match
  BY DEF Serial, Compared, Persist
<1>2. Serial /\ [Next]_vars =>
         [\A c \in Clients : req[c].match # None /\ Persist(c) => file = req[c].match]_vars
  BY <1>1
<1> QED BY <1>2, AlwaysSerial, PTL DEF Spec, ConditionalReplaceKeeps

(* A route of one parameter or resource changes that item and no other,    *)
(* although it writes the whole document back: also one that waits for a   *)
(* source, the items written during its own wait apart.                    *)
THEOREM OthersUntouched == ASSUME OneServer PROVE Spec => EditsChangeOneItem
<1>1. Serial => \A c \in Clients : req[c].kind # "put" /\ Persist(c) =>
                   Changed(Applied(req[c].kind, req[c].item, file), file') \subseteq crossed[c]
  BY DEF Serial, Late, Persist
<1>2. Serial /\ [Next]_vars =>
         [\A c \in Clients : req[c].kind # "put" /\ Persist(c) =>
             Changed(Applied(req[c].kind, req[c].item, file), file') \subseteq crossed[c]]_vars
  BY <1>1
<1> QED BY <1>2, AlwaysSerial, PTL DEF Spec, EditsChangeOneItem

-----------------------------------------------------------------------------
(* The preview.  Unless a write went untold, a preview of the file is      *)
(* shown, is on its way, or is about to be asked for.                      *)
Saving == req["canvas"].pc = "answered" /\ req["canvas"].doc # Refused
LastAsked == output.asked[Len(output.asked)]
Previewed ==
    \/ output.timer \/ Saving \/ load.pc = "served"
    \/ output.newest /\ LastAsked \in {None, file}
    \/ ~output.newest /\ output.shown \in {None, file}
Current == ~behind => Previewed

LEMMA CurrentHandle ==
    ASSUME Typed, Current, NEW c \in Clients, Handle(c)
    PROVE  Current'
<1>1. req \in [Clients -> WellFormed] /\ "canvas" \in Clients BY DEF Typed, TypedRequests, Clients
<1>2. UNCHANGED <<output, load>> /\ req[c].pc # "answered"
      /\ \A d \in Clients \ {c} : req'[d] = req[d]
  BY HandleStep
<1>3. CASE Persist(c)
  <2>1. CASE c = "canvas"
    <3>1. req["canvas"].doc \in Docs BY <1>1, <1>3, <2>1 DEF Persist, WellFormed
    <3>2. req'["canvas"] = Answer(req["canvas"].doc) BY <1>1, <1>3, <2>1 DEF Persist, Becomes
    <3>3. req'["canvas"].pc = "answered" /\ req'["canvas"].doc = req["canvas"].doc
      BY <3>2 DEF Answer, NoRequest
    <3> QED BY <3>1, <3>3, NamesAssumption DEF Current, Previewed, Saving
  <2>2. CASE c # "canvas"
    <3>1. behind' BY <1>3, <2>2 DEF Persist, Clients
    <3> QED BY <3>1 DEF Current
  <2> QED BY <2>1, <2>2
<1>4. CASE ~Persist(c)
  <2>1. UNCHANGED <<file, behind>> BY <1>4 DEF Handle, Lock, Unlock, Relock, Reject
  <2>2. Saving => Saving' BY <1>1, <1>2 DEF Saving
  <2> QED BY <1>2, <2>1, <2>2 DEF Current, Previewed, LastAsked
<1> QED BY <1>3, <1>4

LEMMA CurrentClients ==
    ASSUME Typed, Current, Start \/ Succeed \/ Fail \/ LoadDoc \/ GetBlueprint \/ Loaded
    PROVE  Current'
<1>1. req \in [Clients -> WellFormed] /\ "canvas" \in Clients
      /\ output \in [timer : BOOLEAN, asked : Seq(Docs \cup {None}), newest : BOOLEAN, shown : Docs \cup {None}]
      /\ (running = None => req["canvas"].pc = "none")
  BY DEF Typed, TypedRequests, TypedCanvas, TypedOutput, Clients
<1>2. CASE Start
  <2>1. UNCHANGED <<file, load, output, behind>> /\ running = None BY <1>2 DEF Start
  <2>2. ~Saving BY <1>1, <2>1 DEF Saving
  <2> QED BY <2>1, <2>2 DEF Current, Previewed, LastAsked
<1>3. CASE Succeed \/ Loaded
  <2>1. output' = [output EXCEPT !.timer = TRUE] BY <1>3 DEF Succeed, Loaded, Shown
  <2>2. output'.timer BY <1>1, <2>1
  <2> QED BY <2>2 DEF Current, Previewed
<1>4. CASE Fail
  <2>1. UNCHANGED <<file, load, output>> /\ (behind' <=> (behind \/ Saving)) BY <1>4 DEF Fail, Saving
  <2> QED BY <2>1 DEF Current, Previewed, LastAsked
<1>5. CASE LoadDoc
  <2>1. UNCHANGED <<file, req, output, behind>> /\ load.pc = "none" BY <1>5 DEF LoadDoc
  <2> QED BY <2>1 DEF Current, Previewed, LastAsked, Saving
<1>6. CASE GetBlueprint
  <2>1. load'.pc = "served" BY <1>6 DEF GetBlueprint
  <2> QED BY <2>1 DEF Current, Previewed
<1> QED BY <1>2, <1>3, <1>4, <1>5, <1>6

LEMMA CurrentPreview ==
    ASSUME Typed, Current, Generate \/ \E n \in DOMAIN output.asked : Rendered(n) \/ Answered(n)
    PROVE  Current'
<1>1. /\ output \in [timer : BOOLEAN, asked : Seq(Docs \cup {None}), newest : BOOLEAN, shown : Docs \cup {None}]
      /\ file \in Docs /\ behind \in BOOLEAN
  BY DEF Typed, TypedRequests, TypedOutput
<1>2. UNCHANGED <<file, req, load>> BY DEF Generate, Rendered, Answered
<1>3. Saving' <=> Saving BY <1>2 DEF Saving
<1>4. CASE Generate
  <2> DEFINE asked == Append(output.asked, None)
  <2>1. output' = [output EXCEPT !.timer = FALSE, !.asked = asked, !.newest = TRUE]
    BY <1>4 DEF Generate
  <2>2. output'.newest /\ output'.asked = asked BY <1>1, <2>1
  <2>3. Len(asked) = Len(output.asked) + 1 /\ asked[Len(output.asked) + 1] = None
    BY <1>1, AppendProperties
  <2> HIDE DEF asked
  <2>4. LastAsked' = None BY <2>2, <2>3 DEF LastAsked
  <2> QED BY <2>2, <2>4 DEF Current, Previewed
<1>5. ASSUME NEW n \in DOMAIN output.asked, Rendered(n) PROVE Current'
  <2> DEFINE asked == [output.asked EXCEPT ![n] = file]
  <2>1. output' = [output EXCEPT !.asked = asked] /\ (behind' <=> (behind /\ ~Newest(n)))
    BY <1>5 DEF Rendered
  <2>2. output'.asked = asked /\ output'.newest = output.newest /\ output'.timer = output.timer
        /\ output'.shown = output.shown
    BY <1>1, <2>1
  <2>3. n \in 1..Len(output.asked) /\ Len(output.asked) \in Nat BY <1>1, LenProperties
  <2>4. Len(asked) = Len(output.asked) /\ (\A i \in 1..Len(output.asked) : asked[i] = IF i = n THEN file ELSE output.asked[i])
    BY <1>1, <2>3, ExceptSeq
  <2> HIDE DEF asked
  <2>5. CASE Newest(n)
    <3>1. output.newest /\ n = Len(output.asked) BY <2>5 DEF Newest
    <3>2. LastAsked' = file BY <2>2, <2>3, <2>4, <3>1 DEF LastAsked
    <3> QED BY <1>2, <2>2, <3>1, <3>2 DEF Current, Previewed
  <2>6. CASE ~Newest(n)
    <3>1. output.newest => n # Len(output.asked) BY <2>6 DEF Newest
    <3>2. Len(output.asked) \in 1..Len(output.asked) BY <2>3
    <3>3. output.newest => LastAsked' = LastAsked BY <2>2, <2>4, <3>1, <3>2 DEF LastAsked
    <3> QED BY <1>2, <1>3, <2>1, <2>2, <2>6, <3>3 DEF Current, Previewed
  <2> QED BY <2>5, <2>6
<1>6. ASSUME NEW n \in DOMAIN output.asked, Answered(n) PROVE Current'
  <2> DEFINE asked == RemoveAt(output.asked, n)
  <2>1. output.asked[n] # None /\ behind' = behind BY <1>6 DEF Answered
  <2>2. PICK doc \in {output.asked[n], None} : output' = Preview(n, doc) BY <1>6 DEF Answered
  <2>3. output.asked[n] \in Docs \cup {None} BY <1>1, ElementOfSeq
  <2>4. /\ output'.asked = asked /\ output'.timer = output.timer
        /\ (output'.newest <=> (output.newest /\ ~Newest(n)))
        /\ output'.shown = IF Newest(n) THEN doc ELSE output.shown
    BY <1>1, <2>2 DEF Preview
  <2>5. n \in 1..Len(output.asked) /\ Len(output.asked) \in Nat BY <1>1, LenProperties
  <2>6. Len(asked) = Len(output.asked) - 1
        /\ (n < Len(output.asked) => asked[Len(output.asked) - 1] = output.asked[Len(output.asked)])
    BY <1>1, RemoveTyped
  <2> HIDE DEF asked
  <2>7. CASE Newest(n)
    <3>1. output.newest /\ LastAsked = output.asked[n] BY <2>7 DEF Newest, LastAsked
    <3>2. ~output'.newest /\ output'.shown = doc BY <2>4, <2>7
    <3>3. LastAsked \in {None, file} => doc \in {None, file} BY <3>1
    <3> QED BY <1>2, <1>3, <2>1, <2>4, <3>1, <3>2, <3>3 DEF Current, Previewed
  <2>8. CASE ~Newest(n)
    <3>1. output.newest => n < Len(output.asked) BY <2>5, <2>8 DEF Newest
    <3>2. output.newest => LastAsked' = LastAsked BY <2>4, <2>6, <3>1 DEF LastAsked
    <3>3. (output'.newest <=> output.newest) /\ output'.shown = output.shown BY <2>4, <2>8
    <3> QED BY <1>2, <1>3, <2>1, <2>4, <3>2, <3>3 DEF Current, Previewed
  <2> QED BY <2>7, <2>8
<1> QED BY <1>4, <1>5, <1>6

LEMMA CurrentOthers ==
    ASSUME Typed, Current,
           \/ UNCHANGED vars
           \/ \E op \in Offered : Enqueue(op)
           \/ ScriptRead \/ ScriptDone
           \/ \E i \in Items : ScriptReplace(i) \/ ScriptEdit(i)
    PROVE  Current'
<1>1. UNCHANGED <<file, load, output, behind>>
  BY DEF vars, Enqueue, ScriptRead, ScriptDone, ScriptReplace, ScriptEdit, ScriptWrite
<1>2. req'["canvas"] = req["canvas"]
  BY DEF vars, Enqueue, ScriptRead, ScriptDone, ScriptReplace, ScriptEdit, ScriptWrite, Becomes,
         Clients, Typed, TypedRequests
<1> QED BY <1>1, <1>2 DEF Current, Previewed, LastAsked, Saving

(* When nothing is under way the preview is of the document on disk, or    *)
(* there is none, unless a write went untold: for any number of requests   *)
(* under way, answered in any order or lost.                               *)
THEOREM PreviewStaysCurrent == Spec => []PreviewIsCurrent
<1>1. Init => Current BY DEF Init, Current, Previewed
<1>2. Typed /\ Current /\ [Next]_vars => Current'
  BY CurrentHandle, CurrentClients, CurrentPreview, CurrentOthers DEF Next
<1>3. Typed /\ Current => PreviewIsCurrent
  <2>1. SUFFICES ASSUME Typed, Current, ~output.timer, output.asked = <<>>, running = None,
                        load.pc = "none", ~behind
                 PROVE  output.shown \in {None, file}
    BY DEF PreviewIsCurrent
  <2>2. ~output.newest /\ ~Saving BY <2>1 DEF Typed, TypedCanvas, TypedOutput, Saving
  <2> QED BY <2>1, <2>2 DEF Current, Previewed
<1> QED BY <1>1, <1>2, <1>3, EditorsTyped, PTL DEF Spec

-----------------------------------------------------------------------------
(* Undo and redo.  The line the canvas stands for is its undo stack, the   *)
(* document shown and its redo stack, read backwards; a target under way   *)
(* lies where it was taken from.                                           *)
Canvases == [doc : Docs \cup {None}, undo : Seq(Docs), redo : Seq(Docs)]
Rest(u, d, r) == (u \o <<d>>) \o Reverse(r)
Goes(run, via) == run # None /\ run.op.via = via
Target(run, via) == IF Goes(run, via) THEN <<run.target>> ELSE <<>>
Line(c, run) ==
    IF c.doc = None THEN <<>>
    ELSE (c.undo \o Target(run, "undo")) \o <<c.doc>> \o Target(run, "redo") \o Reverse(c.redo)
At(c, run) == IF c.doc = None THEN 0 ELSE Len(c.undo \o Target(run, "undo")) + 1

LEMMA ReverseTyped ==
    ASSUME NEW S, NEW r \in Seq(S)
    PROVE  /\ Reverse(r) \in Seq(S) /\ Len(Reverse(r)) = Len(r)
           /\ \A i \in 1..Len(r) : Reverse(r)[i] = r[Len(r) - i + 1]
<1>1. Len(r) \in Nat /\ \A i \in 1..Len(r) : r[i] \in S BY LenProperties, ElementOfSeq
<1>2. Reverse(r) = [i \in 1..Len(r) |-> r[(Len(r) - i) + 1]] BY DEF Reverse
<1>3. \A i \in 1..Len(r) : (Len(r) - i) + 1 \in 1..Len(r) BY <1>1
<1>4. Reverse(r) \in [1..Len(r) -> S] BY <1>1, <1>2, <1>3
<1>5. Reverse(r) \in Seq(S) BY <1>1, <1>4, SeqDef
<1>6. Len(Reverse(r)) = Len(r) BY <1>1, <1>4, <1>5, LenProperties
<1> QED BY <1>2, <1>5, <1>6

LEMMA ReverseAppend ==
    ASSUME NEW S, NEW r \in Seq(S), NEW e \in S
    PROVE  Reverse(Append(r, e)) = <<e>> \o Reverse(r)
<1> DEFINE longer == Append(r, e)
           n == Len(r)
           back == Reverse(r)
           reversed == Reverse(longer)
           joined == <<e>> \o back
<1>1. n \in Nat /\ longer \in Seq(S) /\ Len(longer) = n + 1 /\ longer[n + 1] = e
      /\ \A i \in 1..n : longer[i] = r[i]
  BY LenProperties, AppendProperties
<1>2. back \in Seq(S) /\ Len(back) = n /\ \A i \in 1..n : back[i] = r[n - i + 1]
  BY ReverseTyped
<1>3. reversed \in Seq(S) /\ Len(reversed) = n + 1 /\ \A i \in 1..(n + 1) : reversed[i] = longer[(n + 1) - i + 1]
  <2> HIDE DEF longer, n
  <2>1. reversed \in Seq(S) /\ Len(reversed) = Len(longer)
        /\ \A i \in 1..Len(longer) : reversed[i] = longer[Len(longer) - i + 1]
    BY <1>1, ReverseTyped
  <2> HIDE DEF reversed
  <2> QED BY <1>1, <2>1
<1>4. <<e>> \in Seq(S) /\ Len(<<e>>) = 1 /\ <<e>>[1] = e OBVIOUS
<1>5. /\ joined \in Seq(S) /\ Len(joined) = 1 + n
      /\ \A i \in 1..(1 + n) : joined[i] = IF i <= 1 THEN e ELSE back[i - 1]
  <2> DEFINE one == <<e>>
  <2>1. one \in Seq(S) /\ Len(one) = 1 /\ one[1] = e BY <1>4
  <2> HIDE DEF one, back, n
  <2>2. /\ one \o back \in Seq(S) /\ Len(one \o back) = Len(one) + Len(back)
        /\ \A i \in 1..(Len(one) + Len(back)) :
              (one \o back)[i] = IF i <= Len(one) THEN one[i] ELSE back[i - Len(one)]
    <3>1. one \in Seq(S) /\ back \in Seq(S) BY <1>2, <2>1
    <3> QED BY <3>1, ConcatProperties
  <2>3. joined = one \o back BY DEF one
  <2> HIDE DEF joined
  <2>4. Len(joined) = 1 + n BY <1>2, <2>1, <2>2, <2>3
  <2>5. ASSUME NEW i \in 1..(1 + n) PROVE joined[i] = IF i <= 1 THEN e ELSE back[i - 1]
    <3>1. i <= 1 => i = 1 BY <1>1
    <3> QED BY <1>2, <2>1, <2>2, <2>3, <3>1
  <2> QED BY <2>2, <2>3, <2>4, <2>5
<1> HIDE DEF longer, n, back, reversed, joined
<1>6. ASSUME NEW i \in 1..(n + 1) PROVE reversed[i] = joined[i]
  <2>1. CASE i = 1
    <3>1. (n + 1) - i + 1 = n + 1 /\ i <= 1 /\ i \in 1..(1 + n) BY <1>1, <2>1
    <3> QED BY <1>1, <1>3, <1>5, <1>6, <3>1
  <2>2. CASE i # 1
    <3>1. i - 1 \in 1..n /\ ~(i <= 1) /\ i \in 1..(1 + n)
          /\ (n + 1) - i + 1 = n - (i - 1) + 1 /\ n - (i - 1) + 1 \in 1..n
      BY <1>1, <2>2
    <3>2. reversed[i] = r[n - (i - 1) + 1] BY <1>1, <1>3, <1>6, <3>1
    <3>3. joined[i] = back[i - 1] /\ back[i - 1] = r[n - (i - 1) + 1] BY <1>2, <1>5, <3>1
    <3> QED BY <3>2, <3>3
  <2> QED BY <2>1, <2>2
<1>7. Len(reversed) = Len(joined) BY <1>1, <1>3, <1>5
<1>8. reversed = joined BY <1>3, <1>5, <1>6, <1>7, SeqEqual
<1> QED BY <1>8 DEF reversed, joined, longer, back

LEMMA Regrouped == \A s1, s2, s3 \in Seq(Docs) : (s1 \o s2) \o s3 = s1 \o (s2 \o s3)
  BY ConcatAssociative

(* The document shown moves from one stack to the other.                   *)
LEMMA Shift ==
    ASSUME NEW u \in Seq(Docs), NEW r \in Seq(Docs), NEW t \in Docs, NEW d \in Docs
    PROVE  /\ Rest(Append(u, t), d, r) = Rest(u, t, Append(r, d))
           /\ Rest(u, d, r) \in Seq(Docs) /\ Len(Rest(u, d, r)) = Len(u) + 1 + Len(r)
<1> DEFINE back == Reverse(r)
           shown == <<d>>
           before == u \o <<t>>
<1>1. back \in Seq(Docs) /\ Len(back) = Len(r) BY ReverseTyped
<1>2. shown \in Seq(Docs) /\ Len(shown) = 1 OBVIOUS
<1>3. <<t>> \in Seq(Docs) OBVIOUS
<1>4. before \in Seq(Docs) BY <1>3, ConcatProperties
<1>5. Append(u, t) = before BY AppendIsConcat
<1>6. Reverse(Append(r, d)) = shown \o back BY ReverseAppend
<1>7. u \o shown \in Seq(Docs) /\ Len(u \o shown) = Len(u) + 1
  <2> HIDE DEF shown
  <2>1. u \o shown \in Seq(Docs) /\ Len(u \o shown) = Len(u) + Len(shown)
    BY <1>2, ConcatProperties, Zenon
  <2> QED BY <1>2, <2>1, Zenon
<1> HIDE DEF back, shown, before
<1>8. (before \o shown) \o back = before \o (shown \o back) BY <1>1, <1>2, <1>4, Regrouped
<1>9. Rest(Append(u, t), d, r) = (before \o shown) \o back BY <1>5 DEF Rest, back, shown
<1>10. Rest(u, t, Append(r, d)) = before \o (shown \o back) BY <1>6 DEF Rest, before
<1>11. Rest(u, d, r) = (u \o shown) \o back BY DEF Rest, back, shown
<1>12. (u \o shown) \o back \in Seq(Docs) /\ Len((u \o shown) \o back) = Len(u \o shown) + Len(back)
  BY <1>1, <1>7, ConcatProperties
<1> QED BY <1>1, <1>7, <1>8, <1>9, <1>10, <1>11, <1>12

LEMMA Shifted ==
    \A u, r \in Seq(Docs), t, d \in Docs : Rest(Append(u, t), d, r) = Rest(u, t, Append(r, d))
  BY Shift

LEMMA LineForms ==
    ASSUME NEW c \in Canvases, c.doc \in Docs, NEW run
    PROVE  /\ ~Goes(run, "undo") /\ ~Goes(run, "redo") =>
                 Line(c, run) = Rest(c.undo, c.doc, c.redo) /\ At(c, run) = Len(c.undo) + 1
           /\ Goes(run, "undo") /\ run.target \in Docs =>
                 /\ Line(c, run) = Rest(Append(c.undo, run.target), c.doc, c.redo)
                 /\ At(c, run) = Len(Append(c.undo, run.target)) + 1
           /\ Goes(run, "redo") /\ run.target \in Docs =>
                 /\ Line(c, run) = Rest(c.undo, c.doc, Append(c.redo, run.target))
                 /\ At(c, run) = Len(c.undo) + 1
<1> DEFINE u == c.undo
           shown == <<c.doc>>
           back == Reverse(c.redo)
<1>1. u \in Seq(Docs) /\ c.redo \in Seq(Docs) /\ c.doc # None BY NamesAssumption DEF Canvases
<1>2. back \in Seq(Docs) BY <1>1, ReverseTyped
<1>3. shown \in Seq(Docs) OBVIOUS
<1>4. \A s \in Seq(Docs) : s \o <<>> = s BY ConcatEmptySeq
<1>5. Line(c, run) = ((u \o Target(run, "undo")) \o shown) \o Target(run, "redo") \o back
      /\ At(c, run) = Len(u \o Target(run, "undo")) + 1
  BY <1>1 DEF Line, At
<1>6. Rest(u, c.doc, c.redo) = (u \o shown) \o back BY DEF Rest
<1> HIDE DEF u, shown, back
<1>7. u \o shown \in Seq(Docs) BY <1>1, <1>3, ConcatProperties
<1>8. ASSUME ~Goes(run, "undo"), ~Goes(run, "redo")
      PROVE  Line(c, run) = (u \o shown) \o back /\ At(c, run) = Len(u) + 1
  <2>1. Target(run, "undo") = <<>> /\ Target(run, "redo") = <<>> BY <1>8 DEF Target
  <2> QED BY <1>1, <1>4, <1>5, <1>7, <2>1
<1>9. ASSUME Goes(run, "undo"), run.target \in Docs
      PROVE  Line(c, run) = Rest(Append(u, run.target), c.doc, c.redo)
             /\ At(c, run) = Len(Append(u, run.target)) + 1
  <2>1. Target(run, "undo") = <<run.target>> /\ Target(run, "redo") = <<>> BY <1>9 DEF Target, Goes
  <2>2. Append(u, run.target) = u \o <<run.target>> /\ Append(u, run.target) \in Seq(Docs)
    BY <1>1, <1>9, AppendIsConcat, AppendProperties
  <2>3. Append(u, run.target) \o shown \in Seq(Docs) BY <1>3, <2>2, ConcatProperties
  <2>4. Rest(Append(u, run.target), c.doc, c.redo) = (Append(u, run.target) \o shown) \o back
    BY DEF Rest, shown, back
  <2> QED BY <1>4, <1>5, <2>1, <2>2, <2>3, <2>4
<1>10. ASSUME Goes(run, "redo"), run.target \in Docs
       PROVE  Line(c, run) = Rest(u, c.doc, Append(c.redo, run.target)) /\ At(c, run) = Len(u) + 1
  <2> DEFINE one == <<run.target>>
  <2>1. Target(run, "undo") = <<>> /\ Target(run, "redo") = one BY <1>10 DEF Target, Goes
  <2>2. one \in Seq(Docs) BY <1>10
  <2>3. Reverse(Append(c.redo, run.target)) = one \o back BY <1>1, <1>10, ReverseAppend DEF back
  <2> HIDE DEF one
  <2>4. ((u \o shown) \o one) \o back = (u \o shown) \o (one \o back)
    BY <1>2, <1>7, <2>2, Regrouped
  <2>5. Rest(u, c.doc, Append(c.redo, run.target)) = (u \o shown) \o (one \o back)
    BY <2>3 DEF Rest, shown
  <2>6. u \o <<>> = u BY <1>1, <1>4
  <2> QED BY <1>5, <2>1, <2>4, <2>5, <2>6
<1> QED BY <1>6, <1>8, <1>9, <1>10 DEF u

LEMMA HistoryIs ==
    /\ HistoryLine = Line(canvas, running) /\ HistoryAt = At(canvas, running)
    /\ HistoryLine' = Line(canvas', running') /\ HistoryAt' = At(canvas', running')
BY DEF HistoryLine, UndoDocs, HistoryAt, Traveling, Line, At, Target, Goes

(* A step of undo or redo asks for its target, and for nothing else.       *)
Walk ==
    /\ canvas.doc = None => canvas.undo = <<>> /\ canvas.redo = <<>>
    /\ running # None => running.prev = canvas.doc
    /\ Traveling =>
          /\ req["canvas"].pc # "answered" =>
                req["canvas"].kind = "put" /\ req["canvas"].doc = running.target
          /\ req["canvas"].pc = "answered" => req["canvas"].doc \in {running.target, Refused}
Stays == UNCHANGED <<HistoryLine, HistoryAt>>
Moves == History!Next \/ Stays

LEMMA BootInit == MaxLoads <= 1 /\ Init => Boot
BY EditorsAssumption DEF Init, Boot

LEMMA BootNext ==
    ASSUME Typed, Boot, [Next]_vars
    PROVE  Boot'
<1>1. left \in [edits : Nat, loads : Nat] BY DEF Typed, TypedCanvas
<1>2. CASE LoadDoc
  <2>1. left.loads > 0 /\ left'.loads = left.loads - 1 /\ canvas' = canvas BY <1>1, <1>2 DEF LoadDoc
  <2> QED BY <1>1, <2>1 DEF Boot
<1>3. CASE GetBlueprint
  <2>1. load.pc # "none" /\ UNCHANGED <<canvas, left>> BY <1>3 DEF GetBlueprint
  <2> QED BY <2>1 DEF Boot
<1>4. CASE Loaded
  <2>1. load.pc # "none" /\ load'.pc = "none" /\ left' = left BY <1>4 DEF Loaded
  <2> QED BY <2>1 DEF Boot
<1>5. CASE Start \/ Succeed \/ Fail
  <2>1. canvas.doc # None
    BY <1>5, AnsweredRun, NamesAssumption DEF Start, Succeed, Fail, Typed, TypedCanvas
  <2>2. UNCHANGED <<load, left>> BY <1>5 DEF Start, Succeed, Fail
  <2> QED BY <2>1, <2>2 DEF Boot
<1>6. ASSUME NEW c \in Clients, Handle(c) PROVE Boot'
  BY <1>6, HandleStep DEF Boot
<1>7. CASE \/ UNCHANGED vars
           \/ \E op \in Offered : Enqueue(op)
           \/ Generate
           \/ \E n \in DOMAIN output.asked : Rendered(n) \/ Answered(n)
           \/ ScriptRead \/ ScriptDone
           \/ \E i \in Items : ScriptReplace(i) \/ ScriptEdit(i)
  <2>1. UNCHANGED <<canvas, load>> /\ left'.loads = left.loads
    BY <1>1, <1>7 DEF vars, Enqueue, Generate, Rendered, Answered, ScriptRead, ScriptDone, ScriptReplace,
       ScriptEdit, ScriptWrite
  <2> QED BY <2>1 DEF Boot
<1> QED BY <1>2, <1>3, <1>4, <1>5, <1>6, <1>7 DEF Next

(* Steps that touch neither the canvas nor its operation.                  *)
LEMMA WalkAlone ==
    ASSUME Typed, Walk, canvas' = canvas,
           running' = running \/ (running # None /\ running' = [running EXCEPT !.sole = FALSE])
    PROVE  /\ Stays
           /\ running' # None <=> running # None
           /\ running # None => running'.op = running.op /\ running'.prev = running.prev
                                /\ running'.target = running.target
<1>1. running # None => running \in Runs BY DEF Typed, TypedCanvas
<1>2. running # None =>
         running'.op = running.op /\ running'.prev = running.prev /\ running'.target = running.target
  BY <1>1 DEF Runs
<1>3. running' # None <=> running # None
  <2>1. ASSUME running # None, running' = [running EXCEPT !.sole = FALSE] PROVE running' # None
    <3>1. running' \in Runs BY <1>1, <2>1 DEF Runs
    <3> QED BY <3>1, NamesAssumption
  <2> QED BY <2>1
<1>4. Line(canvas', running') = Line(canvas, running) /\ At(canvas', running') = At(canvas, running)
  BY <1>2, <1>3 DEF Line, At, Target, Goes
<1> QED BY <1>2, <1>3, <1>4, HistoryIs DEF Stays

LEMMA WalkHandle ==
    ASSUME Typed, Walk, NEW c \in Clients, Handle(c)
    PROVE  Walk' /\ Stays
<1> DEFINE r == req["canvas"]
           next == req'["canvas"]
<1>1. canvas' = canvas
      /\ (running' = running \/ (running # None /\ running' = [running EXCEPT !.sole = FALSE]))
      /\ \A d \in Clients \ {c} : req'[d] = req[d]
  BY HandleStep
<1>2. /\ Stays /\ (running' # None <=> running # None)
      /\ running # None => running'.op = running.op /\ running'.prev = running.prev
                           /\ running'.target = running.target
  BY <1>1, WalkAlone
<1>3. req \in [Clients -> WellFormed] /\ "canvas" \in Clients /\ r \in Requests
  BY DEF Typed, TypedRequests, Clients, WellFormed
<1>4. ASSUME Traveling
      PROVE  /\ next.pc # "answered" => next.kind = "put" /\ next.doc = running.target
             /\ next.pc = "answered" => next.doc \in {running.target, Refused}
  <2>1. CASE c # "canvas" BY <1>1, <1>3, <1>4, <2>1 DEF Walk
  <2>2. CASE c = "canvas"
    <3>1. r.pc # "answered" BY <2>2, HandleStep
    <3>2. r.kind = "put" /\ r.doc = running.target BY <1>4, <3>1 DEF Walk
    <3>3. CASE next = Answer(Refused)
      <4>1. next.pc = "answered" /\ next.doc = Refused BY <3>3 DEF Answer, NoRequest
      <4> QED BY <4>1
    <3>4. CASE Lock(c) /\ next # Answer(Refused)
      <4>1. next = [r EXCEPT !.pc = "held", !.doc = r.doc] BY <1>3, <2>2, <3>2, <3>4 DEF Lock, Becomes
      <4>2. next.pc = "held" /\ next.kind = "put" /\ next.doc = running.target
        BY <1>3, <3>2, <4>1 DEF Requests
      <4> QED BY <4>2
    <3>5. CASE Unlock(c) \/ Relock(c)
      <4>1. next.pc \in {"held", "waiting"} /\ next.kind = r.kind /\ next.doc = r.doc
        <5>1. Unlock("canvas") \/ Relock("canvas") BY <2>2, <3>5
        <5> QED BY <1>3, <5>1, LetGo
      <4> QED BY <3>2, <4>1
    <3>6. CASE Reject(c) BY <1>3, <2>2, <3>3, <3>6 DEF Reject, Becomes
    <3>7. CASE Persist(c)
      <4>1. next = Answer(running.target) BY <1>3, <2>2, <3>2, <3>7 DEF Persist, Becomes
      <4>2. next.pc = "answered" /\ next.doc = running.target BY <4>1 DEF Answer, NoRequest
      <4> QED BY <4>2
    <3> QED BY <3>3, <3>4, <3>5, <3>6, <3>7 DEF Handle
  <2> QED BY <2>1, <2>2
<1>5. Traveling' <=> Traveling BY <1>2 DEF Traveling
<1> HIDE DEF r, next
<1>6. Walk' BY <1>1, <1>2, <1>4, <1>5 DEF Walk, next
<1> QED BY <1>2, <1>6

LEMMA WalkOthers ==
    ASSUME Typed, Walk,
           \/ UNCHANGED vars
           \/ \E op \in Offered : Enqueue(op)
           \/ LoadDoc \/ GetBlueprint \/ Generate
           \/ \E n \in DOMAIN output.asked : Rendered(n) \/ Answered(n)
           \/ ScriptRead \/ ScriptDone
           \/ \E i \in Items : ScriptReplace(i) \/ ScriptEdit(i)
    PROVE  Walk' /\ Stays
<1>1. UNCHANGED <<canvas, running>> /\ req'["canvas"] = req["canvas"]
  BY DEF vars, Enqueue, LoadDoc, GetBlueprint, Generate, Rendered, Answered, ScriptRead, ScriptDone,
         ScriptReplace, ScriptEdit, ScriptWrite, Becomes, Clients, Typed, TypedRequests
<1> QED BY <1>1, WalkAlone DEF Walk, Traveling

LEMMA WalkLoaded ==
    ASSUME Typed, Boot, Walk, Loaded
    PROVE  Walk' /\ Moves
<1>1. load.pc = "served" /\ load.doc \in Docs /\ canvas' = [canvas EXCEPT !.doc = load.doc]
      /\ running' = running
  BY DEF Loaded, Typed, TypedCanvas
<1>2. canvas.doc = None /\ running = None /\ canvas \in Canvases
  BY <1>1 DEF Boot, Typed, TypedCanvas, Canvases
<1>3. canvas' \in Canvases /\ canvas'.doc = load.doc /\ canvas'.undo = <<>> /\ canvas'.redo = <<>>
  BY <1>1, <1>2 DEF Walk, Canvases
<1>4. load.doc # None BY <1>1, NamesAssumption
<1>5. Walk' BY <1>1, <1>2, <1>3, <1>4 DEF Walk, Traveling
<1>6. HistoryLine = <<>> /\ HistoryAt = 0 BY <1>2 DEF HistoryLine, HistoryAt
<1>7. Line(canvas', running') = Rest(<<>>, load.doc, <<>>) /\ At(canvas', running') = Len(<<>>) + 1
  <2>1. ~Goes(running', "undo") /\ ~Goes(running', "redo") BY <1>1, <1>2 DEF Goes
  <2> QED BY <1>1, <1>3, <2>1, LineForms
<1>8. Rest(<<>>, load.doc, <<>>) = <<load.doc>>
  <2>1. Reverse(<<>>) = <<>>
    <3>1. <<>> \in Seq(Docs) BY EmptySeq
    <3>2. Reverse(<<>>) \in Seq(Docs) /\ Len(Reverse(<<>>)) = 0 BY <3>1, ReverseTyped, EmptySeq
    <3> QED BY <3>2, EmptySeq
  <2>2. <<load.doc>> \in Seq(Docs) BY <1>1
  <2>3. (<<>> \o <<load.doc>>) \o <<>> = <<load.doc>> BY <2>2, ConcatEmptySeq
  <2> QED BY <2>1, <2>3 DEF Rest
<1>9. HistoryLine' = <<load.doc>> /\ HistoryAt' = 1 BY <1>7, <1>8, HistoryIs, EmptySeq
<1>10. History!Reload(load.doc) BY <1>6, <1>9 DEF History!Reload
<1>11. History!Next BY <1>1, <1>10 DEF History!Next
<1> QED BY <1>5, <1>11 DEF Moves

LEMMA StackFields ==
    ASSUME canvas \in Canvases, NEW s \in Seq(Docs)
    PROVE  /\ Stack("undo") = canvas.undo /\ Stack("redo") = canvas.redo
           /\ canvas.undo \in Seq(Docs) /\ canvas.redo \in Seq(Docs)
           /\ WithStack("undo", s) \in Canvases /\ WithStack("redo", s) \in Canvases
           /\ WithStack("undo", s).doc = canvas.doc /\ WithStack("redo", s).doc = canvas.doc
           /\ WithStack("undo", s).undo = s /\ WithStack("undo", s).redo = canvas.redo
           /\ WithStack("redo", s).redo = s /\ WithStack("redo", s).undo = canvas.undo
BY DEF Canvases, Stack, WithStack

LEMMA WalkStart ==
    ASSUME Typed, Walk, Start
    PROVE  Walk' /\ Stays
<1> DEFINE op == Head(queue)
           travels == op.via \in {"undo", "redo"}
<1>1. running = None /\ queue # <<>> /\ canvas.doc \in Docs /\ canvas.doc # None /\ canvas \in Canvases
  BY DEF Start, Typed, TypedCanvas, Canvases
<1>2. op \in Made BY <1>1, HeadTailProperties DEF Typed, TypedCanvas
<1>3. CASE travels /\ Stack(op.via) = <<>>
  <2>1. UNCHANGED <<req, running, canvas>> BY <1>3 DEF Start
  <2> QED BY <2>1, WalkAlone DEF Walk, Traveling
<1>4. CASE ~(travels /\ Stack(op.via) = <<>>)
  <2> DEFINE r == RequestOf(op)
             run == [op |-> op, prev |-> canvas.doc, target |-> r.doc, sole |-> TRUE]
  <2>1. /\ Becomes("canvas", r) /\ running' = run
        /\ canvas' = IF travels THEN WithStack(op.via, Front(Stack(op.via))) ELSE canvas
    BY <1>4 DEF Start
  <2>2. r.pc = "sent" /\ r.doc \in Docs BY <1>1, <1>2, <1>4, RequestTyped DEF Typed
  <2>3. req'["canvas"] = r BY <2>1 DEF Becomes, Clients, Typed, TypedRequests
  <2>4. run \in Runs /\ run # None
    <3>1. op \in Operations BY <1>2 DEF Made
    <3> HIDE DEF op, r
    <3>2. run \in Runs BY <1>1, <2>2, <3>1 DEF Runs
    <3> QED BY <3>2, NamesAssumption
  <2>5. run.op = op /\ run.prev = canvas.doc /\ run.target = r.doc OBVIOUS
  <2>6. ASSUME travels
        PROVE  /\ r.kind = "put" /\ r.doc = Last(Stack(op.via))
               /\ canvas' = WithStack(op.via, Front(Stack(op.via)))
    <3>1. op.doc = None BY <1>2, <2>6 DEF Made
    <3>2. r = PutRequest(Last(Stack(op.via)), None) BY <2>6, <3>1 DEF RequestOf
    <3> QED BY <2>1, <2>6, <3>2 DEF PutRequest, NoRequest
  <2> HIDE DEF r, run
  <2>7. Line(canvas, running) = Rest(canvas.undo, canvas.doc, canvas.redo)
        /\ At(canvas, running) = Len(canvas.undo) + 1
    BY <1>1, LineForms DEF Goes
  <2>8. CASE op.via = "undo"
    <3> DEFINE u == canvas.undo
    <3>1. u \in Seq(Docs) /\ Stack(op.via) = u BY <1>1, <2>8, EmptySeq, StackFields
    <3>2. u # <<>> BY <1>4, <2>8, <3>1
    <3>3. Front(u) \in Seq(Docs) /\ u = Append(Front(u), Last(u)) BY <3>1, <3>2, FrontLast
    <3>4. canvas' = WithStack("undo", Front(u)) /\ run.target = Last(u) /\ r.kind = "put"
      BY <2>5, <2>6, <2>8, <3>1
    <3>5. canvas' \in Canvases /\ canvas'.doc = canvas.doc /\ canvas'.undo = Front(u) /\ canvas'.redo = canvas.redo
      BY <1>1, <3>3, <3>4, StackFields
    <3>6. Goes(run, "undo") /\ run.target \in Docs BY <2>2, <2>4, <2>5, <2>8 DEF Goes
    <3>7. Line(canvas', run) = Rest(Append(canvas'.undo, run.target), canvas'.doc, canvas'.redo)
          /\ At(canvas', run) = Len(Append(canvas'.undo, run.target)) + 1
      BY <1>1, <3>5, <3>6, LineForms
    <3>8. Line(canvas', run) = Line(canvas, running) /\ At(canvas', run) = At(canvas, running)
      BY <2>7, <3>3, <3>4, <3>5, <3>7
    <3>9. Stays BY <2>1, <3>8, HistoryIs DEF Stays
    <3> HIDE DEF op
    <3>10. Walk' BY <1>1, <2>1, <2>2, <2>3, <2>5, <3>4, <3>5 DEF Walk
    <3> QED BY <3>9, <3>10
  <2>9. CASE op.via = "redo"
    <3> DEFINE u == canvas.redo
    <3>1. u \in Seq(Docs) /\ Stack(op.via) = u BY <1>1, <2>9, EmptySeq, StackFields
    <3>2. u # <<>> BY <1>4, <2>9, <3>1
    <3>3. Front(u) \in Seq(Docs) /\ u = Append(Front(u), Last(u)) BY <3>1, <3>2, FrontLast
    <3>4. canvas' = WithStack("redo", Front(u)) /\ run.target = Last(u) /\ r.kind = "put"
      BY <2>5, <2>6, <2>9, <3>1
    <3>5. canvas' \in Canvases /\ canvas'.doc = canvas.doc /\ canvas'.redo = Front(u) /\ canvas'.undo = canvas.undo
      BY <1>1, <3>3, <3>4, StackFields
    <3>6. Goes(run, "redo") /\ run.target \in Docs BY <2>2, <2>4, <2>5, <2>9 DEF Goes
    <3>7. Line(canvas', run) = Rest(canvas'.undo, canvas'.doc, Append(canvas'.redo, run.target))
          /\ At(canvas', run) = Len(canvas'.undo) + 1
      BY <1>1, <3>5, <3>6, LineForms
    <3>8. Line(canvas', run) = Line(canvas, running) /\ At(canvas', run) = At(canvas, running)
      BY <2>7, <3>3, <3>4, <3>5, <3>7
    <3>9. Stays BY <2>1, <3>8, HistoryIs DEF Stays
    <3> HIDE DEF op
    <3>10. Walk' BY <1>1, <2>1, <2>2, <2>3, <2>5, <3>4, <3>5 DEF Walk
    <3> QED BY <3>9, <3>10
  <2>10. CASE ~travels
    <3>1. canvas' = canvas BY <2>1, <2>10
    <3>2. ~Goes(run, "undo") /\ ~Goes(run, "redo") BY <2>5, <2>10 DEF Goes
    <3>3. Line(canvas, run) = Rest(canvas.undo, canvas.doc, canvas.redo)
          /\ At(canvas, run) = Len(canvas.undo) + 1
      BY <1>1, <3>2, LineForms
    <3>4. Stays BY <2>1, <2>7, <3>1, <3>3, HistoryIs DEF Stays
    <3>5. ~Traveling' BY <2>1, <2>5, <2>10 DEF Traveling
    <3>6. Walk' BY <1>1, <2>1, <2>5, <3>1, <3>5 DEF Walk
    <3> QED BY <3>4, <3>6
  <2> QED BY <2>8, <2>9, <2>10
<1> QED BY <1>3, <1>4

LEMMA WalkFail ==
    ASSUME Typed, Walk, Fail
    PROVE  Walk' /\ Stays
<1> DEFINE op == running.op
<1>1. /\ req["canvas"].pc = "answered" /\ running' = None
      /\ canvas' = IF op.via \in {"undo", "redo"}
                   THEN WithStack(op.via, Append(Stack(op.via), running.target)) ELSE canvas
  BY DEF Fail
<1>2. running # None /\ running.target \in Docs /\ canvas.doc \in Docs /\ canvas.doc # None /\ canvas \in Canvases
  BY <1>1, AnsweredRun, NamesAssumption DEF Runs, Typed, TypedCanvas, Canvases
<1>3. ~Goes(running', "undo") /\ ~Goes(running', "redo") BY <1>1 DEF Goes
<1>4. CASE op.via = "undo"
  <2> DEFINE u == Append(canvas.undo, running.target)
  <2>1. Stack(op.via) = canvas.undo /\ canvas.undo \in Seq(Docs) BY <1>2, <1>4, EmptySeq, StackFields
  <2>2. u \in Seq(Docs) BY <1>2, <2>1, AppendProperties
  <2>3. canvas' = WithStack("undo", u) BY <1>1, <1>4, <2>1
  <2> HIDE DEF u
  <2>4. canvas' \in Canvases /\ canvas'.doc = canvas.doc /\ canvas'.undo = u /\ canvas'.redo = canvas.redo
    BY <1>2, <2>2, <2>3, StackFields
  <2>5. Line(canvas', running') = Rest(canvas'.undo, canvas'.doc, canvas'.redo)
        /\ At(canvas', running') = Len(canvas'.undo) + 1
    BY <1>2, <1>3, <2>4, LineForms
  <2>6. Goes(running, "undo") BY <1>2, <1>4 DEF Goes
  <2>7. Line(canvas, running) = Rest(u, canvas.doc, canvas.redo) /\ At(canvas, running) = Len(u) + 1
    BY <1>2, <2>6, LineForms DEF u
  <2>8. Stays BY <2>4, <2>5, <2>7, HistoryIs DEF Stays
  <2>9. Walk' BY <1>1, <1>2, <2>4 DEF Walk, Traveling
  <2> QED BY <2>8, <2>9
<1>5. CASE op.via = "redo"
  <2> DEFINE u == Append(canvas.redo, running.target)
  <2>1. Stack(op.via) = canvas.redo /\ canvas.redo \in Seq(Docs) BY <1>2, <1>5, EmptySeq, StackFields
  <2>2. u \in Seq(Docs) BY <1>2, <2>1, AppendProperties
  <2>3. canvas' = WithStack("redo", u) BY <1>1, <1>5, <2>1
  <2> HIDE DEF u
  <2>4. canvas' \in Canvases /\ canvas'.doc = canvas.doc /\ canvas'.redo = u /\ canvas'.undo = canvas.undo
    BY <1>2, <2>2, <2>3, StackFields
  <2>5. Line(canvas', running') = Rest(canvas'.undo, canvas'.doc, canvas'.redo)
        /\ At(canvas', running') = Len(canvas'.undo) + 1
    BY <1>2, <1>3, <2>4, LineForms
  <2>6. Goes(running, "redo") BY <1>2, <1>5 DEF Goes
  <2>7. Line(canvas, running) = Rest(canvas.undo, canvas.doc, u) /\ At(canvas, running) = Len(canvas.undo) + 1
    BY <1>2, <2>6, LineForms DEF u
  <2>8. Stays BY <2>4, <2>5, <2>7, HistoryIs DEF Stays
  <2>9. Walk' BY <1>1, <1>2, <2>4 DEF Walk, Traveling
  <2> QED BY <2>8, <2>9
<1>6. CASE op.via \notin {"undo", "redo"}
  <2>1. canvas' = canvas BY <1>1, <1>6
  <2>2. ~Goes(running, "undo") /\ ~Goes(running, "redo") BY <1>6 DEF Goes
  <2>3. Line(canvas, running') = Line(canvas, running) /\ At(canvas, running') = At(canvas, running)
    BY <1>3, <2>2 DEF Line, At, Target
  <2>4. Stays BY <2>1, <2>3, HistoryIs DEF Stays
  <2>5. Walk' BY <1>1, <1>2, <2>1 DEF Walk, Traveling
  <2> QED BY <2>4, <2>5
<1> QED BY <1>4, <1>5, <1>6

(* A change cuts what lies ahead and forgets the oldest beyond HistoryCap. *)
LEMMA Cut ==
    ASSUME NEW u \in Seq(Docs), NEW r \in Seq(Docs), NEW d \in Docs
    PROVE  SubSeq(Rest(u, d, r), IF Len(u) + 1 > HistoryCap THEN 2 ELSE 1, Len(u) + 1) = Recorded(u, d)
<1> DEFINE longer == Append(u, d)
           back == Reverse(r)
           n == Len(u) + 1
<1>1. longer \in Seq(Docs) /\ longer # <<>> /\ Len(longer) = n /\ longer = u \o <<d>>
  BY AppendProperties, AppendIsConcat
<1>2. back \in Seq(Docs) BY ReverseTyped
<1>3. Rest(u, d, r) = longer \o back BY <1>1 DEF Rest
<1>4. Len(u) \in Nat /\ HistoryCap \in Nat \ {0} BY LenProperties, EditorsAssumption
<1>5. Recorded(u, d) = IF Len(longer) > HistoryCap THEN Tail(longer) ELSE longer
  BY DEF Recorded
<1>6. n \in Nat /\ n >= 1 /\ (n > HistoryCap => n >= 2) BY <1>4
<1> HIDE DEF longer, back, n
<1>7. CASE n > HistoryCap
  <2>1. 2 \in 1..Len(longer) /\ n \in 1..Len(longer) BY <1>1, <1>6, <1>7
  <2>2. SubSeq(longer \o back, 2, n) = SubSeq(longer, 2, n) BY <1>1, <1>2, <2>1, SubSeqOfConcat1
  <2>3. SubSeq(longer, 2, n) = Tail(longer) BY <1>1, TailIsSubSeq
  <2> QED BY <1>1, <1>3, <1>5, <1>7, <2>2, <2>3 DEF n
<1>8. CASE ~(n > HistoryCap)
  <2>1. 1 \in 1..Len(longer) /\ n \in 1..Len(longer) BY <1>1, <1>6
  <2>2. SubSeq(longer \o back, 1, n) = SubSeq(longer, 1, n) BY <1>1, <1>2, <2>1, SubSeqOfConcat1
  <2>3. SubSeq(longer, 1, n) = longer BY <1>1, SubSeqFull
  <2> QED BY <1>1, <1>3, <1>5, <1>8, <2>2, <2>3 DEF n
<1> QED BY <1>7, <1>8

LEMMA WalkSucceed ==
    ASSUME Typed, Walk, Succeed
    PROVE  Walk' /\ Moves
<1> DEFINE op == running.op
           doc == req["canvas"].doc
           d == canvas.doc
<1>1. /\ req["canvas"].pc = "answered" /\ doc # Refused /\ running' = None
      /\ canvas' = Settled(op, running.prev, doc)
  BY DEF Succeed
<1>2. running # None /\ running.target \in Docs /\ d \in Docs /\ doc \in Docs /\ canvas \in Canvases
      /\ running.prev = d /\ doc # None
  BY <1>1, AnsweredRun, NamesAssumption DEF Runs, Typed, TypedCanvas, Canvases, Walk
<1>3. ~Goes(running', "undo") /\ ~Goes(running', "redo") BY <1>1 DEF Goes
<1>4. canvas.undo \in Seq(Docs) /\ canvas.redo \in Seq(Docs)
      /\ Len(canvas.undo) \in Nat /\ Len(canvas.redo) \in Nat
  BY <1>2, LenProperties DEF Canvases
<1>5. ASSUME NEW u \in Seq(Docs), NEW r \in Seq(Docs), canvas' = [doc |-> doc, undo |-> u, redo |-> r]
      PROVE  /\ HistoryLine' = Rest(u, doc, r) /\ HistoryAt' = Len(u) + 1
             /\ Walk'
  <2>1. canvas' \in Canvases /\ canvas'.doc = doc /\ canvas'.undo = u /\ canvas'.redo = r
    BY <1>2, <1>5 DEF Canvases
  <2>2. Line(canvas', running') = Rest(u, doc, r) /\ At(canvas', running') = Len(u) + 1
    BY <1>2, <1>3, <2>1, LineForms
  <2>3. Walk' BY <1>1, <1>2, <2>1 DEF Walk, Traveling
  <2> QED BY <2>2, <2>3, HistoryIs
<1>6. CASE op.via = "undo"
  <2> DEFINE r == Append(canvas.redo, d)
  <2>1. doc = running.target BY <1>1, <1>2, <1>6 DEF Walk, Traveling
  <2>2. r \in Seq(Docs) BY <1>2, <1>4, AppendProperties
  <2>3. Stack("redo") = canvas.redo /\ WithStack("redo", r) = [canvas EXCEPT !.redo = r]
    BY DEF Stack, WithStack
  <2>4. canvas' = [[canvas EXCEPT !.redo = r] EXCEPT !.doc = doc]
    BY <1>1, <1>2, <1>6, <2>3 DEF Settled
  <2> HIDE DEF r
  <2>5. canvas' = [doc |-> doc, undo |-> canvas.undo, redo |-> r] BY <1>2, <2>4 DEF Canvases
  <2>6. Walk' /\ HistoryLine' = Rest(canvas.undo, doc, r) /\ HistoryAt' = Len(canvas.undo) + 1
    BY <1>4, <1>5, <2>2, <2>5
  <2>7. Goes(running, "undo") BY <1>2, <1>6 DEF Goes
  <2>8. HistoryLine = Rest(Append(canvas.undo, doc), d, canvas.redo)
        /\ HistoryAt = Len(Append(canvas.undo, doc)) + 1
    BY <1>2, <2>1, <2>7, LineForms, HistoryIs
  <2>9. HistoryLine' = HistoryLine
    <3>1. Rest(Append(canvas.undo, doc), d, canvas.redo) = Rest(canvas.undo, doc, Append(canvas.redo, d))
      BY <1>2, <1>4, Shifted
    <3> QED BY <2>6, <2>8, <3>1, Zenon DEF r
  <2>10. Len(Append(canvas.undo, doc)) = Len(canvas.undo) + 1 BY <1>2, <1>4, AppendProperties
  <2>11. HistoryAt > 1 /\ HistoryAt' = HistoryAt - 1 BY <1>4, <2>6, <2>8, <2>10
  <2>12. History!Undo BY <2>9, <2>11 DEF History!Undo
  <2> QED BY <2>6, <2>12 DEF Moves, History!Next
<1>7. CASE op.via = "redo"
  <2> DEFINE u == Append(canvas.undo, d)
  <2>1. doc = running.target BY <1>1, <1>2, <1>7 DEF Walk, Traveling
  <2>2. u \in Seq(Docs) /\ Len(u) = Len(canvas.undo) + 1 BY <1>2, <1>4, AppendProperties
  <2>3. Stack("undo") = canvas.undo /\ WithStack("undo", u) = [canvas EXCEPT !.undo = u]
    BY DEF Stack, WithStack
  <2>4. canvas' = [[canvas EXCEPT !.undo = u] EXCEPT !.doc = doc]
    BY <1>1, <1>2, <1>7, <2>3 DEF Settled
  <2> HIDE DEF u
  <2>5. canvas' = [doc |-> doc, undo |-> u, redo |-> canvas.redo] BY <1>2, <2>4 DEF Canvases
  <2>6. Walk' /\ HistoryLine' = Rest(u, doc, canvas.redo) /\ HistoryAt' = Len(u) + 1
    BY <1>4, <1>5, <2>2, <2>5
  <2>7. Goes(running, "redo") BY <1>2, <1>7 DEF Goes
  <2>8. HistoryLine = Rest(canvas.undo, d, Append(canvas.redo, doc)) /\ HistoryAt = Len(canvas.undo) + 1
    BY <1>2, <2>1, <2>7, LineForms, HistoryIs
  <2>9. HistoryLine' = HistoryLine
    <3>1. Rest(Append(canvas.undo, d), doc, canvas.redo) = Rest(canvas.undo, d, Append(canvas.redo, doc))
      BY <1>2, <1>4, Shifted
    <3> QED BY <2>6, <2>8, <3>1, Zenon DEF u
  <2>10. Append(canvas.redo, doc) \in Seq(Docs) /\ Len(Append(canvas.redo, doc)) = Len(canvas.redo) + 1
    BY <1>2, <1>4, AppendProperties
  <2>11. Len(HistoryLine) = Len(canvas.undo) + 1 + Len(Append(canvas.redo, doc))
    BY <1>2, <1>4, <2>8, <2>10, Shift
  <2>12. HistoryAt < Len(HistoryLine) /\ HistoryAt' = HistoryAt + 1
    <3>1. HistoryAt < Len(HistoryLine)
      <4> DEFINE m == Len(canvas.undo)
                 n == Len(canvas.redo)
      <4>1. m \in Nat /\ n \in Nat BY <1>4
      <4>2. HistoryAt = m + 1 BY <2>8
      <4>3. Len(HistoryLine) = m + 1 + (n + 1) BY <2>10, <2>11
      <4> HIDE DEF m, n
      <4>4. m + 1 < m + 1 + (n + 1) BY <4>1
      <4> QED BY <4>2, <4>3, <4>4
    <3> QED BY <2>2, <2>6, <2>8, <3>1, Zenon
  <2>13. History!Redo BY <2>9, <2>12 DEF History!Redo
  <2> QED BY <2>6, <2>13 DEF Moves, History!Next
<1>8. CASE op.via \notin {"undo", "redo"}
  <2> DEFINE u == Recorded(canvas.undo, d)
  <2>1. ~Goes(running, "undo") /\ ~Goes(running, "redo") BY <1>8 DEF Goes
  <2>2. HistoryLine = Rest(canvas.undo, d, canvas.redo) /\ HistoryAt = Len(canvas.undo) + 1
    BY <1>2, <2>1, LineForms, HistoryIs
  <2>3. Len(canvas.undo) <= HistoryCap
    <3>1. HistoryCap \in Nat BY EditorsAssumption
    <3> QED BY <1>1, <1>4, <3>1, AnsweredRun, Sums, Zenon
  <2>4. u \in Seq(Docs) BY <1>2, <1>4, <2>3, RecordedTyped
  <2>5. canvas' = [doc |-> doc, undo |-> u, redo |-> <<>>] BY <1>1, <1>2, <1>8 DEF Settled
  <2>6. SubSeq(HistoryLine, IF HistoryAt > HistoryCap THEN 2 ELSE 1, HistoryAt) = u
    BY <1>2, <1>4, <2>2, Cut
  <2> HIDE DEF u
  <2>7. Walk' /\ HistoryLine' = Rest(u, doc, <<>>) /\ HistoryAt' = Len(u) + 1
    BY <1>5, <2>4, <2>5, EmptySeq
  <2>8. Rest(u, doc, <<>>) = Append(u, doc)
    <3>1. Reverse(<<>>) = <<>>
      <4>1. <<>> \in Seq(Docs) BY EmptySeq
      <4>2. Reverse(<<>>) \in Seq(Docs) /\ Len(Reverse(<<>>)) = 0 BY <4>1, ReverseTyped, EmptySeq
      <4> QED BY <4>2, EmptySeq
    <3>2. Append(u, doc) = u \o <<doc>> /\ Append(u, doc) \in Seq(Docs)
      BY <1>2, <2>4, AppendIsConcat, AppendProperties
    <3> QED BY <3>1, <3>2, ConcatEmptySeq DEF Rest
  <2>9. HistoryAt > 0 BY <1>4, <2>2
  <2>10. History!Change(doc) BY <2>6, <2>7, <2>8, <2>9 DEF History!Change
  <2> QED BY <1>2, <2>7, <2>10 DEF Moves, History!Next
<1> QED BY <1>6, <1>7, <1>8

(* Undo and redo walk one line of documents and return to each of them,    *)
(* through refusals, lost answers and the edits of others: the canvas that *)
(* loads the document once implements UndoHistory, however many operations *)
(* run and however deep the stacks may grow.                               *)
THEOREM UndoIsKept == ASSUME MaxLoads <= 1 PROVE Spec => HistoryKept
<1>1. Init => Boot /\ Walk
  <2>1. Init => Walk BY DEF Init, Walk, Traveling
  <2> QED BY <2>1, BootInit
<1>2. Init => History!Init BY DEF Init, History!Init, HistoryLine, HistoryAt
<1>3. Typed /\ Boot /\ Walk /\ [Next]_vars => Boot' /\ Walk' /\ Moves
  <2>1. SUFFICES ASSUME Typed, Boot, Walk, [Next]_vars PROVE Walk' /\ Moves BY BootNext
  <2>2. ASSUME NEW c \in Clients, Handle(c) PROVE Walk' /\ Moves
    BY <2>1, <2>2, WalkHandle DEF Moves
  <2>3. CASE Start BY <2>1, <2>3, WalkStart DEF Moves
  <2>4. CASE Fail BY <2>1, <2>4, WalkFail DEF Moves
  <2>5. CASE \/ UNCHANGED vars
             \/ \E op \in Offered : Enqueue(op)
             \/ LoadDoc \/ GetBlueprint \/ Generate
             \/ \E n \in DOMAIN output.asked : Rendered(n) \/ Answered(n)
             \/ ScriptRead \/ ScriptDone
             \/ \E i \in Items : ScriptReplace(i) \/ ScriptEdit(i)
    BY <2>1, <2>5, WalkOthers DEF Moves
  <2> QED BY <2>1, <2>2, <2>3, <2>4, <2>5, WalkLoaded, WalkSucceed DEF Next
<1>4. Moves => [History!Next]_<<HistoryLine, HistoryAt>> BY DEF Moves, Stays
<1> QED BY <1>1, <1>2, <1>3, <1>4, EditorsTyped, PTL DEF Spec, HistoryKept, History!Spec
=============================================================================
