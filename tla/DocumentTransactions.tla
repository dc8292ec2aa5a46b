------------------------ MODULE DocumentTransactions ------------------------
(***************************************************************************)
(* The documents of Sora's command runtime (Kernel/Experimental/           *)
(* CommandRuntime.h).  Clients compute a change from what they see of a    *)
(* document and hand it, with the version they saw, to a transaction       *)
(* runtime; the commit runs when the sender is started, maybe much later.  *)
(* Each runtime keeps its own records for undo; several may share a        *)
(* document.  An object's kind and parameters are one datum.               *)
(***************************************************************************)
EXTENDS Naturals, FiniteSetsExt, SequencesExt

CONSTANTS
    Clients, Runtimes,
    Names, Data,    \* ids that clients use, data of objects
    Changes,        \* change sets: [inserts, updates, erases]
    NoId,           \* the id of an object that is to be given one
    Unchanged,      \* the data of an update that changes nothing
    MaxVersion,     \* bound: changes and undos of the document
    None

ASSUME ChangesAssumption ==
    Changes \subseteq [inserts : Seq([id : Names \cup {NoId}, data : Data]),
                      updates : Seq([id : Names, data : Data]),
                      erases : Seq(Names)]

VARIABLES
    objects,        \* features_: sequence of [id, data]
    index,          \* feature_index_: position of each id
    nextId,         \* next_object_id_: allocated ids are numbers
    version,
    records,        \* of each runtime, its undo records
    pending,        \* of each client, the commit it prepared
    log             \* history: of each commit not yet undone, its runtime
                    \* and the objects it found

document == <<objects, index, nextId, version>>
vars == <<document, records, pending, log>>

Init ==
    /\ objects = << >> /\ index = << >> /\ nextId = 1 /\ version = 0
    /\ records = [r \in Runtimes |-> << >>]
    /\ pending = [c \in Clients |-> None]
    /\ log = << >>
-----------------------------------------------------------------------------
(* DocumentModel.  A change is applied to [objects, index, nextId] and the *)
(* snapshots it leaves for undo: erased, updated, inserted.                *)

LastWithId(objs, id) == CHOOSE i \in 1 .. Len(objs) :
    objs[i].id = id /\ \A j \in i + 1 .. Len(objs) : objs[j].id # id

Reindexed(objs) == [id \in {objs[i].id : i \in 1 .. Len(objs)} |-> LastWithId(objs, id)]

WithObjects(doc, objs) == [doc EXCEPT !.objects = objs, !.index = Reindexed(objs)]

Erase(doc, id) == WithObjects(doc, RemoveAt(doc.objects, doc.index[id]))

Replace(doc, object) == [doc EXCEPT !.objects[doc.index[object.id]] = object]

(* Mutant: the index is left as it is. *)
RestoreUnindexed(doc, saved) ==
    LET at == Min({saved.index, Len(doc.objects) + 1}) IN
    [doc EXCEPT !.objects = InsertAt(@, at, saved.object)]

RestoreErased(doc, saved) ==
    LET at == Min({saved.index, Len(doc.objects) + 1}) IN
    WithObjects(doc, InsertAt(doc.objects, at, saved.object))

ApplyErase(doc, id) ==
    [Erase(doc, id) EXCEPT !.erased =
        Append(@, [index |-> doc.index[id], object |-> doc.objects[doc.index[id]]])]

ApplyUpdate(doc, update) ==
    [Replace(doc, update) EXCEPT !.updated = Append(@, doc.objects[doc.index[update.id]])]

ApplyInsert(doc, object) ==
    LET fresh == object.id = NoId
        named == IF fresh THEN [object EXCEPT !.id = doc.nextId] ELSE object
        size == Len(doc.objects) + 1 IN
    [doc EXCEPT
        !.nextId = IF fresh THEN @ + 1 ELSE @,
        !.inserted = Append(@, named),
        !.objects = Append(@, named),
        !.index = [id \in DOMAIN @ \cup {named.id} |->
                     IF id = named.id THEN size ELSE @[id]]]

EraseObject(doc, object) == Erase(doc, object.id)

(* The loops of Apply and UndoAppliedChange over the parts of a change. *)
ForEach(op(_, _), doc, parts) ==
    LET after[i \in 0 .. Len(parts)] ==
            IF i = 0 THEN doc ELSE op(after[i - 1], parts[i])
    IN  after[Len(parts)]

Current == [objects |-> objects, index |-> index, nextId |-> nextId,
            erased |-> << >>, updated |-> << >>, inserted |-> << >>]

Apply(change) ==
    ForEach(ApplyInsert,
        ForEach(ApplyUpdate, ForEach(ApplyErase, Current, change.erases), change.updates),
        change.inserts)

(* Mutant: a second update of one object is undone after the first. *)
UndoForwards(doc, record) ==
    ForEach(RestoreErased,
        ForEach(Replace, ForEach(EraseObject, doc, Reverse(record.inserted)),
                record.updated),
        Reverse(record.erased))

UndoAppliedChange(doc, record) ==
    ForEach(RestoreErased,
        ForEach(Replace, ForEach(EraseObject, doc, Reverse(record.inserted)),
                Reverse(record.updated)),
        Reverse(record.erased))
-----------------------------------------------------------------------------
(* DocumentTransactionRuntime.                                             *)

Ids(objs) == {objs[i].id : i \in 1 .. Len(objs)}
Exists(id) == id \in DOMAIN index

(* Mutant: an id may be inserted that an object has already. *)
ValidButTaken(change) ==
    LET erased == ToSet(change.erases) IN
    /\ \A id \in erased : Exists(id)
    /\ IsInjective(change.erases)
    /\ \A u \in ToSet(change.updates) :
         Exists(u.id) /\ u.id \notin erased /\ u.data # Unchanged

Valid(change) ==
    LET named == {i \in 1 .. Len(change.inserts) : change.inserts[i].id # NoId}
        erased == ToSet(change.erases) IN
    /\ \A i \in named : ~Exists(change.inserts[i].id)
    /\ \A i, j \in named : change.inserts[i].id = change.inserts[j].id => i = j
    /\ \A id \in erased : Exists(id)
    /\ IsInjective(change.erases)
    /\ \A u \in ToSet(change.updates) :
         Exists(u.id) /\ u.id \notin erased /\ u.data # Unchanged

Empty(change) == change.inserts = << >> /\ change.updates = << >> /\ change.erases = << >>

ValidUndo(record) ==
    /\ \A id \in Ids(record.inserted) \cup Ids(record.updated) : Exists(id)
    /\ \A saved \in ToSet(record.erased) : ~Exists(saved.object.id)

Become(doc) ==
    /\ objects' = doc.objects /\ index' = doc.index /\ nextId' = doc.nextId

(* A client reads the document and makes a sender for its change. *)
Prepare(c, change) ==
    /\ pending[c] = None
    /\ pending' = [pending EXCEPT ![c] =
         [base |-> version, change |-> change, seen |-> objects]]
    /\ UNCHANGED <<document, records, log>>

(* The sender is started on one of the runtimes: refused, or committed. *)
Commit(c, r) ==
    LET request == pending[c] IN
    /\ request # None /\ version < MaxVersion
    /\ pending' = [pending EXCEPT ![c] = None]
    /\ IF request.base = version /\ ~Empty(request.change) /\ Valid(request.change)
       THEN \E doc \in {Apply(request.change)} :
            /\ Become(doc) /\ version' = version + 1
            /\ records' = [records EXCEPT ![r] = Append(@,
                 [undoFrom |-> version + 1, inserted |-> doc.inserted,
                  updated |-> doc.updated, erased |-> doc.erased])]
            /\ log' = Append(log, [by |-> r, found |-> objects])
       ELSE UNCHANGED <<document, records, log>>

(* The latest commit of the runtime that is still in the log. *)
Forgotten(r) == RemoveAt(log, CHOOSE i \in 1 .. Len(log) :
    log[i].by = r /\ \A j \in i + 1 .. Len(log) : log[j].by # r)

(* What is left of the records: the new last one may be undone from now on. *)
Popped(recs, newVersion) ==
    LET rest == Front(recs) IN
    IF rest = << >> THEN rest ELSE [rest EXCEPT ![Len(rest)].undoFrom = newVersion]

(* Mutant: an undo goes back to the version before the commit. *)
UndoneToOldVersion(newVersion) == newVersion - 2

(* Every undo makes a new version, as a commit does. *)
UndoneVersion(newVersion) == newVersion

UndoLast(r) ==
    LET last == Last(records[r])
        newVersion == UndoneVersion(version + 1) IN
    /\ records[r] # << >> /\ version < MaxVersion
    /\ last.undoFrom = version /\ ValidUndo(last)
    /\ \E doc \in {UndoAppliedChange(Current, last)} : Become(doc)
    /\ version' = newVersion
    /\ records' = [records EXCEPT ![r] = Popped(@, newVersion)]
    /\ log' = Forgotten(r)
    /\ UNCHANGED pending

Next ==
    \/ \E c \in Clients : \/ \E change \in Changes : Prepare(c, change)
                          \/ \E r \in Runtimes : Commit(c, r)
    \/ \E r \in Runtimes : UndoLast(r)

Spec == Init /\ [][Next]_vars
-----------------------------------------------------------------------------
(* The index leads to every object, by ids that no two objects share, after *)
(* any sequence of erases, inserts and undos in the middle of the document. *)
IndexCoherent ==
    /\ DOMAIN index = Ids(objects)
    /\ \A i \in 1 .. Len(objects) : index[objects[i].id] = i

(* A commit that is started late never overwrites what it did not see: the *)
(* document is still as it was when the change was computed.               *)
NoLostUpdate ==
    [][\A c \in Clients :
         pending[c] # None /\ pending'[c] = None /\ version' # version =>
             objects = pending[c].seen]_vars

(* A commit can be undone while nobody has changed the document since: the *)
(* check that reports an internal error never fails then.                  *)
CommitUndoable ==
    \A r \in Runtimes : records[r] # << >> =>
        LET last == Last(records[r]) IN last.undoFrom = version => ValidUndo(last)

(* A runtime undoes its commit only when no later one, of another runtime,  *)
(* is in the document still.                                                *)
UndoKeepsLater ==
    [][\A r \in Runtimes : Len(records'[r]) < Len(records[r]) => Last(log).by = r]_vars

(* With one runtime commits and undos are those of a history that restores *)
(* the contents exactly, their order included, however many commits are    *)
(* undone in a row and whatever ids and positions they touched.            *)
History == INSTANCE UndoHistory
    WITH contents <- objects, past <- [i \in DOMAIN log |-> log[i].found]
HistorySpec == History!Spec
=============================================================================
