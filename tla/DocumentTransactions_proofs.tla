--------------------- MODULE DocumentTransactions_proofs ---------------------
(***************************************************************************)
(* Proofs about DocumentTransactions for any clients, change sets and      *)
(* number of versions.  No commit overwrites what it did not see, and the  *)
(* index leads to every object, for any runtimes; with one runtime every   *)
(* commit can be undone and an undo brings back what the commit found.     *)
(*                                                                         *)
(* The way to the last three: what one operation does to a coherent        *)
(* document; what a loop of them leaves behind it (RemovedAlong,           *)
(* ExchangedAlong, AddedAlong); what the loops of an undo make of that;    *)
(* and, of every record, that its undo leads back to what its commit found *)
(* (LeadsBack).                                                            *)
(***************************************************************************)
EXTENDS DocumentTransactions, SequenceTheorems, WellFoundedInduction, TLAPS

(***************************************************************************)
(* What a commit finds.                                                    *)
(***************************************************************************)

(* No two states of the document have the same version: a client whose     *)
(* version is the present one has seen the present objects.                *)
SeenAtBase ==
    /\ version \in Nat /\ DOMAIN pending = Clients
    /\ \A c \in Clients : pending[c] # None =>
         /\ pending[c].base \in Nat /\ pending[c].base <= version
         /\ pending[c].base = version => pending[c].seen = objects

LEMMA PrepareKeeps ==
    ASSUME SeenAtBase, NEW c \in Clients, NEW change, Prepare(c, change)
    PROVE  SeenAtBase' /\ version' = version
<1> DEFINE request == [base |-> version, change |-> change, seen |-> objects]
<1>1. request.base = version /\ request.seen = objects
    OBVIOUS
<1>2. pending' = [pending EXCEPT ![c] = request] /\ UNCHANGED <<objects, version>>
    BY DEF Prepare, document
<1> HIDE DEF request
<1>3. QED
    BY <1>1, <1>2 DEF SeenAtBase

(* A commit on one of the runtimes changes the document only when it saw   *)
(* its last version.                                                       *)
LEMMA CommitKeeps ==
    ASSUME SeenAtBase, NEW c \in Clients, NEW r \in Runtimes, Commit(c, r)
    PROVE  /\ SeenAtBase' /\ pending' = [pending EXCEPT ![c] = None]
           /\ version' # version => objects = pending[c].seen
<1>1. pending[c] # None /\ pending' = [pending EXCEPT ![c] = None]
    BY DEF Commit
<1>2. \/ version' = version + 1 /\ pending[c].base = version
      \/ UNCHANGED <<version, objects>>
    BY DEF Commit, document
<1>3. QED
    BY <1>1, <1>2 DEF SeenAtBase

LEMMA UndoKeeps ==
    ASSUME SeenAtBase, NEW r \in Runtimes, UndoLast(r)
    PROVE  SeenAtBase' /\ UNCHANGED pending
<1>1. version' = version + 1 /\ UNCHANGED pending
    BY DEF UndoLast, UndoneVersion
<1>2. QED
    BY <1>1 DEF SeenAtBase

(* What NoLostUpdate says of one step. *)
Overwrites ==
    \A c \in Clients :
        pending[c] # None /\ pending'[c] = None /\ version' # version =>
            objects = pending[c].seen

LEMMA StepKeeps ==
    ASSUME SeenAtBase, [Next]_vars PROVE SeenAtBase' /\ Overwrites
<1>1. ASSUME NEW c \in Clients, NEW change \in Changes, Prepare(c, change)
      PROVE  SeenAtBase' /\ Overwrites
    BY <1>1, PrepareKeeps DEF Overwrites
<1>2. ASSUME NEW c \in Clients, NEW r \in Runtimes, Commit(c, r)
      PROVE  SeenAtBase' /\ Overwrites
    BY <1>2, CommitKeeps DEF Overwrites, SeenAtBase
<1>3. ASSUME NEW r \in Runtimes, UndoLast(r)
      PROVE  SeenAtBase' /\ Overwrites
    BY <1>3, UndoKeeps DEF Overwrites
<1>4. CASE UNCHANGED vars
    BY <1>4 DEF vars, document, SeenAtBase, Overwrites
<1>5. QED
    BY <1>1, <1>2, <1>3, <1>4 DEF Next

(* A commit that is started late, on whichever runtime, finds the document *)
(* as its client saw it, or is refused (CommandRuntime.h, Commit).         *)
THEOREM UpdatesAreKept == Spec => NoLostUpdate
<1>1. Init => SeenAtBase
    BY DEF Init, SeenAtBase
<1>2. SeenAtBase /\ [Next]_vars => SeenAtBase'
    BY StepKeeps
<1>3. SeenAtBase /\ [Next]_vars => [Overwrites]_vars
    BY StepKeeps
<1>4. QED
    BY <1>1, <1>2, <1>3, PTL DEF Spec, NoLostUpdate, Overwrites

(***************************************************************************)
(* Sequences with one element removed, added or replaced.                  *)
(***************************************************************************)
LEMMA RemoveAtIs ==
    ASSUME NEW S, NEW s \in Seq(S), NEW k \in 1 .. Len(s)
    PROVE  /\ RemoveAt(s, k) \in Seq(S) /\ Len(RemoveAt(s, k)) = Len(s) - 1
           /\ \A i \in 1 .. Len(s) - 1 :
                RemoveAt(s, k)[i] = IF i < k THEN s[i] ELSE s[i + 1]
<1> DEFINE a == SubSeq(s, 1, k - 1)
           b == SubSeq(s, k + 1, Len(s))
<1>1. Len(s) \in Nat /\ k \in Nat /\ 1 <= k /\ k <= Len(s)
    BY LenProperties
<1>2. a \in Seq(S) /\ Len(a) = k - 1 /\ \A i \in 1 .. k - 1 : a[i] = s[i]
    BY <1>1
<1>3. b \in Seq(S) /\ Len(b) = Len(s) - k /\ \A i \in 1 .. Len(s) - k : b[i] = s[i + k]
    BY <1>1
<1>4. RemoveAt(s, k) = a \o b
    BY DEF RemoveAt
<1> HIDE DEF a, b
<1>5. a \o b \in Seq(S) /\ Len(a \o b) = Len(s) - 1
  <2>1. a \o b \in Seq(S) /\ Len(a \o b) = Len(a) + Len(b)
      BY <1>2, <1>3, ConcatProperties
  <2>2. (k - 1) + (Len(s) - k) = Len(s) - 1
      BY <1>1
  <2>3. QED
      BY <1>2, <1>3, <2>1, <2>2
<1>6. ASSUME NEW i \in 1 .. Len(s) - 1
      PROVE  (a \o b)[i] = IF i < k THEN s[i] ELSE s[i + 1]
  <2>1. CASE i < k
      BY <1>1, <1>2, <1>3, <1>6, <2>1
  <2>2. CASE ~(i < k)
    <3>1. (a \o b)[i] = b[i - (k - 1)] /\ i - (k - 1) \in 1 .. Len(s) - k
        BY <1>1, <1>2, <1>3, <1>6, <2>2
    <3>2. (i - (k - 1)) + k = i + 1
        BY <1>1, <1>6
    <3>3. QED
        BY <1>3, <2>2, <3>1, <3>2
  <2>3. QED
      BY <2>1, <2>2
<1>7. QED
    BY <1>4, <1>5, <1>6

LEMMA InsertAtIs ==
    ASSUME NEW S, NEW s \in Seq(S), NEW x \in S, NEW k \in 1 .. Len(s) + 1
    PROVE  /\ InsertAt(s, k, x) \in Seq(S) /\ Len(InsertAt(s, k, x)) = Len(s) + 1
           /\ \A i \in 1 .. Len(s) + 1 :
                InsertAt(s, k, x)[i] =
                    IF i < k THEN s[i] ELSE IF i = k THEN x ELSE s[i - 1]
<1> DEFINE a == SubSeq(s, 1, k - 1)
           b == SubSeq(s, k, Len(s))
           ax == a \o <<x>>
<1>1. Len(s) \in Nat /\ k \in Nat /\ 1 <= k /\ k <= Len(s) + 1
    BY LenProperties
<1>2. a \in Seq(S) /\ Len(a) = k - 1 /\ \A i \in 1 .. k - 1 : a[i] = s[i]
    BY <1>1
<1>3. b \in Seq(S) /\ Len(b) = Len(s) + 1 - k /\ \A i \in 1 .. Len(s) + 1 - k : b[i] = s[i + k - 1]
    BY <1>1
<1>4. InsertAt(s, k, x) = ax \o b
    BY DEF InsertAt
<1> HIDE DEF a, b
<1>5. ax \in Seq(S) /\ Len(ax) = k /\ ax[k] = x /\ \A i \in 1 .. k - 1 : ax[i] = s[i]
  <2>1. ax \in Seq(S) /\ Len(ax) = Len(a) + 1 /\ ax[Len(a) + 1] = x
        /\ \A i \in 1 .. Len(a) : ax[i] = a[i]
      BY <1>2
  <2>2. (k - 1) + 1 = k
      BY <1>1
  <2>3. QED
      BY <1>2, <2>1, <2>2
<1> HIDE DEF ax
<1>6. ax \o b \in Seq(S) /\ Len(ax \o b) = Len(s) + 1
  <2>1. ax \o b \in Seq(S) /\ Len(ax \o b) = Len(ax) + Len(b)
      BY <1>5, <1>3, ConcatProperties
  <2>2. k + (Len(s) + 1 - k) = Len(s) + 1
      BY <1>1
  <2>3. QED
      BY <1>5, <1>3, <2>1, <2>2
<1>7. ASSUME NEW i \in 1 .. Len(s) + 1
      PROVE  (ax \o b)[i] = IF i < k THEN s[i] ELSE IF i = k THEN x ELSE s[i - 1]
  <2>1. CASE i <= k
    <3>1. (ax \o b)[i] = ax[i]
        BY <1>1, <1>5, <1>3, <1>7, <2>1
    <3>2. i < k => i \in 1 .. k - 1
        BY <1>1, <1>7
    <3>3. i < k \/ (i = k /\ ~(i < k))
        BY <1>1, <1>7, <2>1
    <3>4. QED
        BY <1>5, <3>1, <3>2, <3>3
  <2>2. CASE ~(i <= k)
    <3>1. (ax \o b)[i] = b[i - k] /\ i - k \in 1 .. Len(s) + 1 - k
      <4>1. i - k \in 1 .. Len(s) + 1 - k /\ i \in Len(ax) + 1 .. Len(ax) + Len(b)
          BY <1>1, <1>5, <1>3, <1>7, <2>2
      <4>2. \A j \in Len(ax) + 1 .. Len(ax) + Len(b) : (ax \o b)[j] = b[j - Len(ax)]
          BY <1>3, <1>5, ConcatProperties
      <4>3. QED
          BY <1>5, <4>1, <4>2
    <3>2. (i - k) + k - 1 = i - 1 /\ ~(i < k) /\ i # k
        BY <1>1, <1>7, <2>2
    <3>3. QED
        BY <1>3, <3>1, <3>2
  <2>3. QED
      BY <2>1, <2>2
<1>8. QED
    BY <1>4, <1>6, <1>7

(* What is taken away and put back where it was. *)
LEMMA TakenAndPutBack ==
    ASSUME NEW S, NEW s \in Seq(S), NEW k \in 1 .. Len(s)
    PROVE  InsertAt(RemoveAt(s, k), k, s[k]) = s
<1>1. Len(s) \in Nat /\ k \in 1 .. (Len(s) - 1) + 1 /\ s[k] \in S
    BY LenProperties, ElementOfSeq
<1>2. PICK t : t = RemoveAt(s, k)
    OBVIOUS
<1>3. t \in Seq(S) /\ Len(t) = Len(s) - 1
      /\ \A i \in 1 .. Len(s) - 1 : t[i] = IF i < k THEN s[i] ELSE s[i + 1]
    BY <1>2, RemoveAtIs
<1>4. PICK u : u = InsertAt(t, k, s[k])
    OBVIOUS
<1>5. u \in Seq(S) /\ Len(u) = Len(t) + 1
      /\ \A i \in 1 .. Len(t) + 1 :
           u[i] = IF i < k THEN t[i] ELSE IF i = k THEN s[k] ELSE t[i - 1]
  <2>1. k \in 1 .. Len(t) + 1
      BY <1>1, <1>3
  <2>2. PICK x \in S : x = s[k]
      BY <1>1
  <2>3. u = InsertAt(t, k, x)
      BY <1>4, <2>2
  <2>4. /\ InsertAt(t, k, x) \in Seq(S) /\ Len(InsertAt(t, k, x)) = Len(t) + 1
        /\ \A i \in 1 .. Len(t) + 1 :
             InsertAt(t, k, x)[i] = IF i < k THEN t[i] ELSE IF i = k THEN x ELSE t[i - 1]
      BY <1>3, <2>1, InsertAtIs
  <2>5. QED
      BY <2>2, <2>3, <2>4
<1>6. Len(u) = Len(s) /\ Len(t) + 1 = Len(s)
    BY <1>1, <1>3, <1>5
<1>7. ASSUME NEW i \in 1 .. Len(s) PROVE u[i] = s[i]
  <2>1. \/ i < k /\ i \in 1 .. Len(s) - 1
        \/ i = k /\ ~(i < k)
        \/ i # k /\ ~(i < k) /\ i - 1 \in 1 .. Len(s) - 1 /\ ~(i - 1 < k) /\ (i - 1) + 1 = i
      BY <1>1
  <2>2. QED
      BY <1>3, <1>5, <1>6, <2>1
<1>8. QED
    BY <1>2, <1>4, <1>5, <1>6, <1>7, SeqEqual

(* What is added at the end and taken away again. *)
LEMMA AddedAndTaken ==
    ASSUME NEW S, NEW s \in Seq(S), NEW x \in S
    PROVE  RemoveAt(Append(s, x), Len(s) + 1) = s
<1>1. PICK t : t = Append(s, x)
    OBVIOUS
<1>2. t \in Seq(S) /\ Len(t) = Len(s) + 1 /\ \A i \in 1 .. Len(s) : t[i] = s[i]
    BY <1>1, AppendProperties
<1>3. Len(s) \in Nat /\ Len(s) + 1 \in 1 .. Len(t) /\ Len(t) - 1 = Len(s)
      /\ \A i \in 1 .. Len(s) : i < Len(s) + 1
    BY <1>2, LenProperties
<1>4. PICK u : u = RemoveAt(t, Len(s) + 1)
    OBVIOUS
<1>5. u \in Seq(S) /\ Len(u) = Len(s) /\ \A i \in 1 .. Len(s) : u[i] = s[i]
  <2>1. PICK k \in 1 .. Len(t) : k = Len(s) + 1
      BY <1>3
  <2>2. u \in Seq(S) /\ Len(u) = Len(t) - 1
        /\ \A i \in 1 .. Len(t) - 1 : u[i] = IF i < k THEN t[i] ELSE t[i + 1]
      BY <1>2, <1>4, <2>1, RemoveAtIs
  <2>3. QED
      BY <1>2, <1>3, <2>1, <2>2
<1>6. QED
    BY <1>1, <1>4, <1>5, SeqEqual

(* Reverse, element by element. *)
LEMMA ReverseIs ==
    ASSUME NEW S, NEW s \in Seq(S)
    PROVE  /\ Reverse(s) \in Seq(S) /\ Len(Reverse(s)) = Len(s)
           /\ \A i \in 1 .. Len(s) : Reverse(s)[i] = s[Len(s) - i + 1]
<1>1. Len(s) \in Nat /\ \A i \in 1 .. Len(s) : s[Len(s) - i + 1] \in S
    BY ElementOfSeq, LenProperties
<1>2. QED
    BY <1>1 DEF Reverse

(***************************************************************************)
(* A document whose index leads to every object, through each of the       *)
(* operations a change and its undo are made of.                           *)
(***************************************************************************)
Object == [id : Names \cup Nat, data : Data]
Snapshot == [index : Nat \ {0}, object : Object]

Unique(objs) ==
    \A i, j \in 1 .. Len(objs) : objs[i].id = objs[j].id => i = j

Leads(idx, objs) ==
    /\ DOMAIN idx = Ids(objs)
    /\ \A i \in 1 .. Len(objs) : idx[objs[i].id] = i

IsDoc(doc) ==
    doc = [objects |-> doc.objects, index |-> doc.index, nextId |-> doc.nextId,
           erased |-> doc.erased, updated |-> doc.updated, inserted |-> doc.inserted]

Coherent(doc) ==
    /\ IsDoc(doc) /\ doc.objects \in Seq(Object)
    /\ Unique(doc.objects) /\ Leads(doc.index, doc.objects)

(* Only the objects and the index change. *)
SameRest(d, doc) ==
    /\ d.nextId = doc.nextId /\ d.erased = doc.erased
    /\ d.updated = doc.updated /\ d.inserted = doc.inserted

(* RebuildIndex makes the index lead to every object. *)
LEMMA ReindexedLeads ==
    ASSUME NEW objs \in Seq(Object), Unique(objs)
    PROVE  Leads(Reindexed(objs), objs)
<1>1. ASSUME NEW i \in 1 .. Len(objs) PROVE LastWithId(objs, objs[i].id) = i
  <2>1. \A j \in i + 1 .. Len(objs) : objs[j].id # objs[i].id
    <3>1. \A j \in i + 1 .. Len(objs) : j \in 1 .. Len(objs) /\ j # i
        BY LenProperties
    <3>2. QED
        BY <3>1 DEF Unique
  <2>2. \A k \in 1 .. Len(objs) : objs[k].id = objs[i].id => k = i
      BY DEF Unique
  <2>3. QED
      BY <2>1, <2>2 DEF LastWithId
<1>2. QED
    BY <1>1 DEF Leads, Reindexed, Ids

(* New contents with a rebuilt index. *)
LEMMA WithObjectsIs ==
    ASSUME NEW doc, IsDoc(doc), NEW objs \in Seq(Object), Unique(objs)
    PROVE  /\ Coherent(WithObjects(doc, objs)) /\ WithObjects(doc, objs).objects = objs
           /\ SameRest(WithObjects(doc, objs), doc)
<1>1. PICK d : d = WithObjects(doc, objs)
    OBVIOUS
<1>2. d = [objects |-> objs, index |-> Reindexed(objs), nextId |-> doc.nextId,
           erased |-> doc.erased, updated |-> doc.updated, inserted |-> doc.inserted]
    BY <1>1 DEF WithObjects, IsDoc
<1>3. Coherent(d) /\ d.objects = objs /\ SameRest(d, doc)
    BY <1>2, ReindexedLeads DEF Coherent, IsDoc, SameRest
<1>4. QED
    BY <1>1, <1>3

(* The place to which the index leads. *)
LEMMA PlaceOf ==
    ASSUME NEW doc, Coherent(doc), NEW id \in Ids(doc.objects)
    PROVE  /\ doc.index[id] \in 1 .. Len(doc.objects)
           /\ doc.objects[doc.index[id]] \in Object
           /\ doc.objects[doc.index[id]].id = id
<1>1. PICK i \in 1 .. Len(doc.objects) : doc.objects[i].id = id
    BY DEF Ids
<1>2. doc.index[id] = i
    BY <1>1 DEF Coherent, Leads
<1>3. doc.objects[i] \in Object
    BY ElementOfSeq DEF Coherent
<1>4. QED
    BY <1>1, <1>2, <1>3

(* Without the object at a place. *)
LEMMA UniqueWithout ==
    ASSUME NEW s \in Seq(Object), Unique(s), NEW k \in 1 .. Len(s)
    PROVE  /\ RemoveAt(s, k) \in Seq(Object) /\ Unique(RemoveAt(s, k))
           /\ Ids(RemoveAt(s, k)) = Ids(s) \ {s[k].id}
<1>1. PICK t : t = RemoveAt(s, k)
    OBVIOUS
<1>2. t \in Seq(Object) /\ Len(t) = Len(s) - 1
      /\ \A i \in 1 .. Len(t) : t[i] = IF i < k THEN s[i] ELSE s[i + 1]
    BY <1>1, RemoveAtIs
<1>3. \A i \in 1 .. Len(t) : /\ i \in 1 .. Len(s) /\ i + 1 \in 1 .. Len(s)
                             /\ i < k => i # k
                             /\ ~(i < k) => i + 1 # k
    BY <1>2, LenProperties
<1>4. Unique(t)
  <2> SUFFICES ASSUME NEW i \in 1 .. Len(t), NEW j \in 1 .. Len(t), t[i].id = t[j].id
               PROVE  i = j
      BY DEF Unique
  <2>1. \/ i < k /\ j < k /\ t[i] = s[i] /\ t[j] = s[j]
        \/ ~(i < k) /\ j < k /\ t[i] = s[i + 1] /\ t[j] = s[j]
        \/ i < k /\ ~(j < k) /\ t[i] = s[i] /\ t[j] = s[j + 1]
        \/ ~(i < k) /\ ~(j < k) /\ t[i] = s[i + 1] /\ t[j] = s[j + 1]
      BY <1>2
  <2>2. \/ i < k /\ j < k /\ i = j
        \/ ~(i < k) /\ j < k /\ i + 1 = j
        \/ i < k /\ ~(j < k) /\ i = j + 1
        \/ ~(i < k) /\ ~(j < k) /\ i + 1 = j + 1
      BY <1>3, <2>1 DEF Unique
  <2>3. QED
      BY <2>2
<1>5. \A i \in 1 .. Len(s) :
        \/ i = k
        \/ i < k /\ i # k /\ i \in 1 .. Len(t)
        \/ i - 1 \in 1 .. Len(t) /\ i # k /\ ~(i - 1 < k) /\ (i - 1) + 1 = i
    BY <1>2, LenProperties
<1>6. Ids(t) = Ids(s) \ {s[k].id}
  <2>1. ASSUME NEW i \in 1 .. Len(t) PROVE t[i].id \in Ids(s) \ {s[k].id}
      BY <1>2, <1>3 DEF Ids, Unique
  <2>2. ASSUME NEW i \in 1 .. Len(s), s[i].id # s[k].id PROVE s[i].id \in Ids(t)
      BY <1>2, <1>5, <2>2 DEF Ids
  <2>3. QED
      BY <2>1, <2>2 DEF Ids
<1>7. QED
    BY <1>1, <1>2, <1>4, <1>6

(* With an object, of an id that none has, at a place. *)
LEMMA UniqueWith ==
    ASSUME NEW s \in Seq(Object), Unique(s), NEW k \in 1 .. Len(s) + 1,
           NEW x \in Object, x.id \notin Ids(s)
    PROVE  /\ InsertAt(s, k, x) \in Seq(Object) /\ Unique(InsertAt(s, k, x))
           /\ Ids(InsertAt(s, k, x)) = Ids(s) \cup {x.id}
<1>1. PICK t : t = InsertAt(s, k, x)
    OBVIOUS
<1>2. t \in Seq(Object) /\ Len(t) = Len(s) + 1
      /\ \A i \in 1 .. Len(t) :
           t[i] = IF i < k THEN s[i] ELSE IF i = k THEN x ELSE s[i - 1]
  <2>1. /\ InsertAt(s, k, x) \in Seq(Object) /\ Len(InsertAt(s, k, x)) = Len(s) + 1
        /\ \A i \in 1 .. Len(s) + 1 :
             InsertAt(s, k, x)[i] = IF i < k THEN s[i] ELSE IF i = k THEN x ELSE s[i - 1]
      BY InsertAtIs
  <2>2. QED
      BY <1>1, <2>1
<1>3. \A i \in 1 .. Len(t) :
        \/ i < k /\ t[i] = s[i] /\ i \in 1 .. Len(s) /\ i \in Nat
        \/ i = k /\ t[i] = x
        \/ ~(i < k) /\ i # k /\ t[i] = s[i - 1] /\ i - 1 \in 1 .. Len(s) /\ i \in Nat
           /\ ~(i - 1 < k)
    BY <1>2, LenProperties
<1>4. \A i \in 1 .. Len(s) : s[i].id # x.id
    BY DEF Ids
<1>5. Unique(t)
  <2> SUFFICES ASSUME NEW i \in 1 .. Len(t), NEW j \in 1 .. Len(t), t[i].id = t[j].id
               PROVE  i = j
      BY DEF Unique
  <2>1. \/ i = k /\ j = k
        \/ i < k /\ j < k /\ i = j
        \/ ~(i < k) /\ i # k /\ j < k /\ i - 1 = j /\ i \in Nat
        \/ i < k /\ ~(j < k) /\ j # k /\ i = j - 1 /\ j \in Nat
        \/ ~(i < k) /\ ~(j < k) /\ i - 1 = j - 1 /\ i \in Nat /\ j \in Nat
      BY <1>3, <1>4 DEF Unique
  <2>2. k \in Nat
      BY LenProperties
  <2>3. QED
      BY <1>3, <2>1, <2>2
<1>6. Ids(t) = Ids(s) \cup {x.id}
  <2>1. ASSUME NEW i \in 1 .. Len(t) PROVE t[i].id \in Ids(s) \cup {x.id}
      BY <1>3 DEF Ids
  <2>2. ASSUME NEW i \in 1 .. Len(s) PROVE s[i].id \in Ids(t)
    <3>1. \/ i < k /\ i \in 1 .. Len(t)
          \/ i + 1 \in 1 .. Len(t) /\ ~(i + 1 < k) /\ i + 1 # k /\ (i + 1) - 1 = i
        BY <1>2, LenProperties
    <3>2. QED
        BY <1>2, <3>1 DEF Ids
  <2>3. x.id \in Ids(t)
    <3>1. k \in 1 .. Len(t) /\ ~(k < k)
        BY <1>2, LenProperties
    <3>2. QED
        BY <1>2, <3>1 DEF Ids
  <2>4. QED
      BY <2>1, <2>2, <2>3 DEF Ids
<1>7. QED
    BY <1>1, <1>2, <1>5, <1>6

(* Erase: one object is taken out, and nothing else. *)
LEMMA EraseIs ==
    ASSUME NEW doc, Coherent(doc), NEW id \in Ids(doc.objects),
           NEW d, d = Erase(doc, id)
    PROVE  /\ Coherent(d) /\ SameRest(d, doc)
           /\ d.objects = RemoveAt(doc.objects, doc.index[id])
           /\ Ids(d.objects) = Ids(doc.objects) \ {id}
<1>1. PICK s, k : s = doc.objects /\ k = doc.index[id]
    OBVIOUS
<1>2. s \in Seq(Object) /\ Unique(s) /\ k \in 1 .. Len(s) /\ s[k].id = id
    BY <1>1, PlaceOf DEF Coherent
<1>3. /\ RemoveAt(s, k) \in Seq(Object) /\ Unique(RemoveAt(s, k))
      /\ Ids(RemoveAt(s, k)) = Ids(s) \ {id}
    BY <1>2, UniqueWithout
<1>4. d = WithObjects(doc, RemoveAt(s, k))
    BY <1>1 DEF Erase
<1>5. QED
    BY <1>1, <1>3, <1>4, WithObjectsIs DEF Coherent

(* Replace: one object becomes another of the same id. *)
LEMMA ReplaceIs ==
    ASSUME NEW doc, Coherent(doc), NEW object \in Object, object.id \in Ids(doc.objects),
           NEW d, d = Replace(doc, object)
    PROVE  /\ Coherent(d) /\ SameRest(d, doc) /\ Ids(d.objects) = Ids(doc.objects)
           /\ d.objects = [doc.objects EXCEPT ![doc.index[object.id]] = object]
<1>1. PICK s, k : s = doc.objects /\ k = doc.index[object.id]
    OBVIOUS
<1>2. s \in Seq(Object) /\ Unique(s) /\ k \in 1 .. Len(s) /\ s[k].id = object.id
    BY <1>1, PlaceOf DEF Coherent
<1>3. PICK t : t = [s EXCEPT ![k] = object]
    OBVIOUS
<1>4. t \in Seq(Object) /\ Len(t) = Len(s)
      /\ \A i \in 1 .. Len(s) : t[i] = IF i = k THEN object ELSE s[i]
    BY <1>2, <1>3, ExceptSeq
<1>5. \A i \in 1 .. Len(s) : t[i].id = s[i].id
    BY <1>2, <1>4
<1>6. Unique(t) /\ Ids(t) = Ids(s) /\ \A idx : Leads(idx, s) => Leads(idx, t)
  <2>1. Ids(t) = Ids(s)
      BY <1>4, <1>5 DEF Ids
  <2>2. Unique(t)
      BY <1>2, <1>4, <1>5 DEF Unique
  <2>3. ASSUME NEW idx, Leads(idx, s) PROVE Leads(idx, t)
      BY <1>4, <1>5, <2>1, <2>3 DEF Leads
  <2>4. QED
      BY <2>1, <2>2, <2>3
<1>7. d = [objects |-> t, index |-> doc.index, nextId |-> doc.nextId,
           erased |-> doc.erased, updated |-> doc.updated, inserted |-> doc.inserted]
  <2>1. d = [doc EXCEPT !.objects = t]
      BY <1>1, <1>3 DEF Replace
  <2>2. QED
      BY <2>1 DEF Coherent, IsDoc
<1>8. Coherent(d) /\ SameRest(d, doc) /\ d.objects = t
    BY <1>1, <1>4, <1>6, <1>7 DEF Coherent, IsDoc, SameRest
<1>9. QED
    BY <1>1, <1>3, <1>6, <1>8

(* RestoreErased: an object comes back, at its place if that is not too far. *)
LEMMA RestoreIs ==
    ASSUME NEW doc, Coherent(doc), NEW saved \in Snapshot,
           saved.object.id \notin Ids(doc.objects),
           NEW d, d = RestoreErased(doc, saved)
    PROVE  /\ Coherent(d) /\ SameRest(d, doc)
           /\ Ids(d.objects) = Ids(doc.objects) \cup {saved.object.id}
           /\ saved.index <= Len(doc.objects) + 1 =>
                d.objects = InsertAt(doc.objects, saved.index, saved.object)
<1>1. PICK s, at : s = doc.objects /\ at = Min({saved.index, Len(doc.objects) + 1})
    OBVIOUS
<1>2. s \in Seq(Object) /\ Unique(s) /\ Len(s) \in Nat
      /\ saved.index \in Nat \ {0} /\ saved.object \in Object
    BY <1>1, LenProperties DEF Coherent, Snapshot
<1>3. at \in 1 .. Len(s) + 1 /\ (saved.index <= Len(s) + 1 => at = saved.index)
  <2>1. PICK a, b \in Nat : a = saved.index /\ b = Len(s) + 1
      BY <1>2
  <2>2. \E m \in {a, b} : \A n \in {a, b} : m <= n
      OBVIOUS
  <2>3. at = Min({a, b})
      BY <1>1, <2>1
  <2>4. at \in {a, b} /\ \A n \in {a, b} : at <= n
      BY <2>2, <2>3 DEF Min
  <2>5. QED
      BY <1>2, <2>1, <2>4
<1>4. PICK t : t = InsertAt(s, at, saved.object)
    OBVIOUS
<1>5. t \in Seq(Object) /\ Unique(t) /\ Ids(t) = Ids(s) \cup {saved.object.id}
  <2>1. PICK x \in Object : x = saved.object
      BY <1>2
  <2>2. QED
      BY <1>1, <1>2, <1>3, <1>4, <2>1, UniqueWith
<1>6. d = WithObjects(doc, t)
    BY <1>1, <1>4 DEF RestoreErased
<1>7. Coherent(d) /\ d.objects = t /\ SameRest(d, doc)
    BY <1>5, <1>6, WithObjectsIs DEF Coherent
<1>8. saved.index <= Len(s) + 1 => t = InsertAt(s, saved.index, saved.object)
    BY <1>3, <1>4
<1>9. QED
    BY <1>1, <1>5, <1>7, <1>8

(* ApplyErase: the object that is taken out is kept with its place. *)
ErasesOne(doc, id, d) ==
    /\ Coherent(d) /\ Ids(d.objects) = Ids(doc.objects) \ {id}
    /\ d.nextId = doc.nextId /\ d.updated = doc.updated /\ d.inserted = doc.inserted
    /\ \E saved \in Snapshot :
         /\ saved.index \in 1 .. Len(doc.objects)
         /\ saved.object = doc.objects[saved.index] /\ saved.object.id = id
         /\ d.objects = RemoveAt(doc.objects, saved.index)
         /\ d.erased = Append(doc.erased, saved)

(* An erase and what it keeps for undo. *)
LEMMA ApplyEraseIs ==
    ASSUME NEW doc, Coherent(doc), doc.erased \in Seq(Snapshot),
           NEW id \in Ids(doc.objects), NEW d, d = ApplyErase(doc, id)
    PROVE  ErasesOne(doc, id, d)
<1>1. PICK k : k = doc.index[id]
    OBVIOUS
<1>2. k \in 1 .. Len(doc.objects) /\ doc.objects[k] \in Object /\ doc.objects[k].id = id
    BY <1>1, PlaceOf
<1>3. PICK saved : saved = [index |-> k, object |-> doc.objects[k]]
    OBVIOUS
<1>4. saved \in Snapshot /\ saved.index = k /\ saved.object = doc.objects[k]
  <2>1. k \in Nat \ {0}
      BY <1>2
  <2>2. QED
      BY <1>2, <1>3, <2>1 DEF Snapshot
<1>5. PICK e : e = Erase(doc, id)
    OBVIOUS
<1>6. /\ Coherent(e) /\ SameRest(e, doc) /\ e.objects = RemoveAt(doc.objects, k)
      /\ Ids(e.objects) = Ids(doc.objects) \ {id}
    BY <1>1, <1>5, EraseIs
<1>7. d = [objects |-> e.objects, index |-> e.index, nextId |-> e.nextId,
           erased |-> Append(e.erased, saved), updated |-> e.updated, inserted |-> e.inserted]
  <2>1. d = [e EXCEPT !.erased = Append(@, saved)]
      BY <1>1, <1>3, <1>5 DEF ApplyErase
  <2>2. QED
      BY <1>6, <2>1 DEF Coherent, IsDoc
<1>8. Coherent(d)
    BY <1>6, <1>7 DEF Coherent, IsDoc
<1>9. QED
    BY <1>2, <1>4, <1>6, <1>7, <1>8 DEF SameRest, ErasesOne

(* ApplyUpdate: the object that is replaced is kept. *)
UpdatesOne(doc, update, d) ==
    /\ Coherent(d) /\ Ids(d.objects) = Ids(doc.objects)
    /\ d.nextId = doc.nextId /\ d.erased = doc.erased /\ d.inserted = doc.inserted
    /\ \E k \in 1 .. Len(doc.objects) :
         /\ doc.objects[k] \in Object /\ doc.objects[k].id = update.id
         /\ d.objects = [doc.objects EXCEPT ![k] = update]
         /\ d.updated = Append(doc.updated, doc.objects[k])

(* An update and what it keeps for undo. *)
LEMMA ApplyUpdateIs ==
    ASSUME NEW doc, Coherent(doc), doc.updated \in Seq(Object),
           NEW update \in Object, update.id \in Ids(doc.objects),
           NEW d, d = ApplyUpdate(doc, update)
    PROVE  UpdatesOne(doc, update, d)
<1>1. PICK k : k = doc.index[update.id]
    OBVIOUS
<1>2. k \in 1 .. Len(doc.objects) /\ doc.objects[k] \in Object /\ doc.objects[k].id = update.id
    BY <1>1, PlaceOf
<1>3. PICK old : old = doc.objects[k]
    OBVIOUS
<1>4. PICK e : e = Replace(doc, update)
    OBVIOUS
<1>5. /\ Coherent(e) /\ SameRest(e, doc) /\ e.objects = [doc.objects EXCEPT ![k] = update]
      /\ Ids(e.objects) = Ids(doc.objects)
    BY <1>1, <1>4, ReplaceIs
<1>6. d = [objects |-> e.objects, index |-> e.index, nextId |-> e.nextId,
           erased |-> e.erased, updated |-> Append(e.updated, old), inserted |-> e.inserted]
  <2>1. d = [e EXCEPT !.updated = Append(@, old)]
      BY <1>1, <1>3, <1>4 DEF ApplyUpdate
  <2>2. QED
      BY <1>5, <2>1 DEF Coherent, IsDoc
<1>7. Coherent(d)
    BY <1>5, <1>6 DEF Coherent, IsDoc
<1>8. /\ d.objects = [doc.objects EXCEPT ![k] = update]
       /\ Ids(d.objects) = Ids(doc.objects) /\ d.updated = Append(doc.updated, doc.objects[k])
       /\ d.nextId = doc.nextId /\ d.erased = doc.erased /\ d.inserted = doc.inserted
    BY <1>3, <1>5, <1>6 DEF SameRest
<1>9. QED
    BY <1>2, <1>7, <1>8 DEF UpdatesOne

(* ApplyInsert: an object comes to the end, by a free id, and is kept. *)
Named(doc, object) ==
    IF object.id = NoId THEN [object EXCEPT !.id = doc.nextId] ELSE object

InsertsOne(doc, object, d) ==
    /\ Coherent(d) /\ Ids(d.objects) = Ids(doc.objects) \cup {Named(doc, object).id}
    /\ d.objects = Append(doc.objects, Named(doc, object))
    /\ d.inserted = Append(doc.inserted, Named(doc, object))
    /\ d.nextId = IF object.id = NoId THEN doc.nextId + 1 ELSE doc.nextId
    /\ d.erased = doc.erased /\ d.updated = doc.updated

(* An insert, with an id of its own or an allocated one. *)
LEMMA ApplyInsertIs ==
    ASSUME NEW doc, Coherent(doc), NEW object, Named(doc, object) \in Object,
           Named(doc, object).id \notin Ids(doc.objects),
           NEW d, d = ApplyInsert(doc, object)
    PROVE  InsertsOne(doc, object, d)
<1>1. PICK named, s, fresh : /\ named = Named(doc, object) /\ s = doc.objects
                             /\ fresh = IF object.id = NoId THEN doc.nextId + 1 ELSE doc.nextId
    OBVIOUS
<1>2. named \in Object /\ named.id \notin Ids(s) /\ s \in Seq(Object) /\ Unique(s)
      /\ Leads(doc.index, s)
    BY <1>1 DEF Coherent
<1>3. PICK idx : idx = [id \in DOMAIN doc.index \cup {named.id} |->
                          IF id = named.id THEN Len(s) + 1 ELSE doc.index[id]]
    OBVIOUS
<1>4. PICK t : t = Append(s, named)
    OBVIOUS
<1>5. t \in Seq(Object) /\ Len(t) = Len(s) + 1 /\ Len(s) \in Nat /\ t[Len(s) + 1] = named
      /\ \A i \in 1 .. Len(s) : t[i] = s[i]
    BY <1>2, <1>4, AppendProperties, LenProperties
<1>6. \A i \in 1 .. Len(t) : i = Len(s) + 1 \/ i \in 1 .. Len(s)
    BY <1>5
<1>7. Ids(t) = Ids(s) \cup {named.id}
    BY <1>5, <1>6 DEF Ids
<1>8. \A i \in 1 .. Len(s) : s[i].id # named.id
    BY <1>2 DEF Ids
<1>9. Unique(t)
    BY <1>2, <1>5, <1>6, <1>8 DEF Unique
<1>10. Leads(idx, t)
  <2>1. DOMAIN idx = Ids(t)
      BY <1>2, <1>3, <1>7 DEF Leads
  <2>2. ASSUME NEW i \in 1 .. Len(t) PROVE idx[t[i].id] = i
    <3>1. CASE i = Len(s) + 1
        BY <1>3, <1>5, <3>1
    <3>2. CASE i \in 1 .. Len(s)
        BY <1>2, <1>3, <1>5, <1>8, <3>2 DEF Leads, Ids
    <3>3. QED
        BY <1>6, <3>1, <3>2
  <2>3. QED
      BY <2>1, <2>2 DEF Leads
<1>11. d = [objects |-> t, index |-> idx, nextId |-> fresh,
            erased |-> doc.erased, updated |-> doc.updated,
            inserted |-> Append(doc.inserted, named)]
  <2>1. d = [doc EXCEPT !.nextId = fresh, !.inserted = Append(@, named),
                        !.objects = t, !.index = idx]
      BY <1>1, <1>3, <1>4 DEF ApplyInsert, Named
  <2>2. QED
      BY <2>1 DEF Coherent, IsDoc
<1>12. Coherent(d)
    BY <1>5, <1>9, <1>10, <1>11 DEF Coherent, IsDoc
<1>13. QED
    BY <1>1, <1>4, <1>7, <1>11, <1>12 DEF InsertsOne

(***************************************************************************)
(* Loops.  Induction is over a set of numbers, and each of the loops of    *)
(* Apply and UndoAppliedChange goes through a document after every round.  *)
(***************************************************************************)
LEMMA Least ==
    ASSUME NEW S, S \subseteq Nat, S # {}
    PROVE  \E n \in S : \A m \in S : n <= m
<1> DEFINE R == OpToRel(<, Nat)
<1>1. IsWellFoundedOn(R, Nat)
    BY NatLessThanWellFounded
<1>2. \A a, b \in Nat : a < b => <<a, b>> \in R
    BY DEF OpToRel
<1> HIDE DEF R
<1>3. PICK n \in S : \A m \in S : ~(<<m, n>> \in R)
    BY <1>1, WFMin
<1>4. \A m \in S : n \in Nat /\ m \in Nat /\ ~(m < n)
    BY <1>2, <1>3
<1>5. \A m \in S : n <= m
    BY <1>4
<1>6. QED
    BY <1>3, <1>5

(* Induction over a set of numbers. *)
LEMMA Induction ==
    ASSUME NEW S, 0 \in S, \A n \in S : n + 1 \in S
    PROVE  Nat \subseteq S
<1> SUFFICES ASSUME NEW k \in Nat \ S PROVE FALSE
    OBVIOUS
<1>1. PICK n \in Nat \ S : \A m \in Nat \ S : n <= m
    BY Least
<1>2. n # 0 /\ n \in Nat
    BY <1>1
<1>3. n - 1 \in Nat /\ ~(n <= n - 1) /\ n = (n - 1) + 1
    BY <1>2
<1>4. n - 1 \in S
    BY <1>1, <1>3
<1>5. QED
    BY <1>1, <1>3, <1>4

(* A loop of one more round. *)
IsExtended(h, g, n, x) ==
    /\ h = [i \in 0 .. n + 1 |-> h[i]] /\ h[n + 1] = x
    /\ \A i \in 0 .. n : h[i] = g[i]

LEMMA Extended ==
    \A n \in Nat : \A g, x : \E h : IsExtended(h, g, n, x)
<1> SUFFICES ASSUME NEW n \in Nat, NEW g, NEW x PROVE \E h : IsExtended(h, g, n, x)
    OBVIOUS
<1>1. IsExtended([i \in 0 .. n + 1 |-> IF i <= n THEN g[i] ELSE x], g, n, x)
    BY DEF IsExtended
<1>2. QED
    BY <1>1

LEMMA ExtendedAt ==
    ASSUME NEW n \in Nat, NEW g, NEW h, NEW x, IsExtended(h, g, n, x)
    PROVE  \A i \in 0 .. n + 1 :
             \/ i = 0 /\ i \in 0 .. n /\ h[i] = g[i]
             \/ i # 0 /\ i \in 0 .. n /\ h[i] = g[i] /\ h[i - 1] = g[i - 1]
             \/ i # 0 /\ i = n + 1 /\ h[i] = x /\ h[i - 1] = g[n]
<1>1. h[n + 1] = x /\ \A i \in 0 .. n : h[i] = g[i]
    BY DEF IsExtended
<1>2. \A i \in 0 .. n + 1 :
        \/ i = 0 /\ i \in 0 .. n
        \/ i # 0 /\ i \in 0 .. n /\ i - 1 \in 0 .. n
        \/ i # 0 /\ i = n + 1 /\ i - 1 = n /\ n \in 0 .. n
    OBVIOUS
<1>3. QED
    BY <1>1, <1>2

LEMMA Indices ==
    \A n \in Nat : 0 \in 0 .. n /\ n \in 0 .. n
                   /\ \A i \in 1 .. n : i \in 0 .. n /\ i # 0 /\ i - 1 \in 0 .. n
OBVIOUS

(* The loops, one lemma for each operation: the provers instantiate no       *)
(* lemma that has an operator for a parameter.                              *)

(* The erases of a change. *)
AllErased(doc, parts) == ForEach(ApplyErase, doc, parts)

LEMMA ErasesRun ==
    ASSUME NEW doc, NEW parts, Len(parts) \in Nat
    PROVE  \E g : /\ g[0] = doc /\ g[Len(parts)] = AllErased(doc, parts)
                  /\ \A i \in 1 .. Len(parts) : g[i] = ApplyErase(g[i - 1], parts[i])
<1> DEFINE Run(g, n) ==
             g = [i \in 0 .. n |-> IF i = 0 THEN doc ELSE ApplyErase(g[i - 1], parts[i])]
           Lengths == {n \in Nat : \E g : Run(g, n)}
<1>1. 0 \in Lengths
  <2>1. Run([i \in 0 .. 0 |-> doc], 0)
      OBVIOUS
  <2>2. QED
      BY <2>1
<1>2. ASSUME NEW n \in Lengths PROVE n + 1 \in Lengths
  <2>1. PICK g : Run(g, n)
      OBVIOUS
  <2>2. PICK h : IsExtended(h, g, n, ApplyErase(g[n], parts[n + 1]))
      BY Extended
  <2>3. \A i \in 0 .. n : g[i] = IF i = 0 THEN doc ELSE ApplyErase(g[i - 1], parts[i])
      BY <2>1
  <2>4. \A i \in 0 .. n + 1 : h[i] = IF i = 0 THEN doc ELSE ApplyErase(h[i - 1], parts[i])
      BY <2>2, <2>3, ExtendedAt
  <2>5. Run(h, n + 1)
      BY <2>2, <2>4 DEF IsExtended
  <2> HIDE DEF Run
  <2>6. QED
      BY <2>5
<1>3. \E g : Run(g, Len(parts))
  <2> HIDE DEF Run
  <2>1. Nat \subseteq Lengths
      BY <1>1, <1>2, Induction
  <2>2. QED
      BY <2>1
<1>4. PICK g : Run(g, Len(parts)) /\ g[Len(parts)] = AllErased(doc, parts)
  <2> DEFINE after == CHOOSE after : Run(after, Len(parts))
  <2>1. Run(after, Len(parts)) /\ AllErased(doc, parts) = after[Len(parts)]
      BY <1>3 DEF AllErased, ForEach
  <2> HIDE DEF after
  <2>2. QED
      BY <2>1
<1>5. \A i \in 0 .. Len(parts) : g[i] = IF i = 0 THEN doc ELSE ApplyErase(g[i - 1], parts[i])
    BY <1>4
<1>6. QED
    BY <1>4, <1>5, Indices

(* Its updates. *)
AllUpdated(doc, parts) == ForEach(ApplyUpdate, doc, parts)

LEMMA UpdatesRun ==
    ASSUME NEW doc, NEW parts, Len(parts) \in Nat
    PROVE  \E g : /\ g[0] = doc /\ g[Len(parts)] = AllUpdated(doc, parts)
                  /\ \A i \in 1 .. Len(parts) : g[i] = ApplyUpdate(g[i - 1], parts[i])
<1> DEFINE Run(g, n) ==
             g = [i \in 0 .. n |-> IF i = 0 THEN doc ELSE ApplyUpdate(g[i - 1], parts[i])]
           Lengths == {n \in Nat : \E g : Run(g, n)}
<1>1. 0 \in Lengths
  <2>1. Run([i \in 0 .. 0 |-> doc], 0)
      OBVIOUS
  <2>2. QED
      BY <2>1
<1>2. ASSUME NEW n \in Lengths PROVE n + 1 \in Lengths
  <2>1. PICK g : Run(g, n)
      OBVIOUS
  <2>2. PICK h : IsExtended(h, g, n, ApplyUpdate(g[n], parts[n + 1]))
      BY Extended
  <2>3. \A i \in 0 .. n : g[i] = IF i = 0 THEN doc ELSE ApplyUpdate(g[i - 1], parts[i])
      BY <2>1
  <2>4. \A i \in 0 .. n + 1 : h[i] = IF i = 0 THEN doc ELSE ApplyUpdate(h[i - 1], parts[i])
      BY <2>2, <2>3, ExtendedAt
  <2>5. Run(h, n + 1)
      BY <2>2, <2>4 DEF IsExtended
  <2> HIDE DEF Run
  <2>6. QED
      BY <2>5
<1>3. \E g : Run(g, Len(parts))
  <2> HIDE DEF Run
  <2>1. Nat \subseteq Lengths
      BY <1>1, <1>2, Induction
  <2>2. QED
      BY <2>1
<1>4. PICK g : Run(g, Len(parts)) /\ g[Len(parts)] = AllUpdated(doc, parts)
  <2> DEFINE after == CHOOSE after : Run(after, Len(parts))
  <2>1. Run(after, Len(parts)) /\ AllUpdated(doc, parts) = after[Len(parts)]
      BY <1>3 DEF AllUpdated, ForEach
  <2> HIDE DEF after
  <2>2. QED
      BY <2>1
<1>5. \A i \in 0 .. Len(parts) : g[i] = IF i = 0 THEN doc ELSE ApplyUpdate(g[i - 1], parts[i])
    BY <1>4
<1>6. QED
    BY <1>4, <1>5, Indices

(* Its inserts. *)
AllInserted(doc, parts) == ForEach(ApplyInsert, doc, parts)

LEMMA InsertsRun ==
    ASSUME NEW doc, NEW parts, Len(parts) \in Nat
    PROVE  \E g : /\ g[0] = doc /\ g[Len(parts)] = AllInserted(doc, parts)
                  /\ \A i \in 1 .. Len(parts) : g[i] = ApplyInsert(g[i - 1], parts[i])
<1> DEFINE Run(g, n) ==
             g = [i \in 0 .. n |-> IF i = 0 THEN doc ELSE ApplyInsert(g[i - 1], parts[i])]
           Lengths == {n \in Nat : \E g : Run(g, n)}
<1>1. 0 \in Lengths
  <2>1. Run([i \in 0 .. 0 |-> doc], 0)
      OBVIOUS
  <2>2. QED
      BY <2>1
<1>2. ASSUME NEW n \in Lengths PROVE n + 1 \in Lengths
  <2>1. PICK g : Run(g, n)
      OBVIOUS
  <2>2. PICK h : IsExtended(h, g, n, ApplyInsert(g[n], parts[n + 1]))
      BY Extended
  <2>3. \A i \in 0 .. n : g[i] = IF i = 0 THEN doc ELSE ApplyInsert(g[i - 1], parts[i])
      BY <2>1
  <2>4. \A i \in 0 .. n + 1 : h[i] = IF i = 0 THEN doc ELSE ApplyInsert(h[i - 1], parts[i])
      BY <2>2, <2>3, ExtendedAt
  <2>5. Run(h, n + 1)
      BY <2>2, <2>4 DEF IsExtended
  <2> HIDE DEF Run
  <2>6. QED
      BY <2>5
<1>3. \E g : Run(g, Len(parts))
  <2> HIDE DEF Run
  <2>1. Nat \subseteq Lengths
      BY <1>1, <1>2, Induction
  <2>2. QED
      BY <2>1
<1>4. PICK g : Run(g, Len(parts)) /\ g[Len(parts)] = AllInserted(doc, parts)
  <2> DEFINE after == CHOOSE after : Run(after, Len(parts))
  <2>1. Run(after, Len(parts)) /\ AllInserted(doc, parts) = after[Len(parts)]
      BY <1>3 DEF AllInserted, ForEach
  <2> HIDE DEF after
  <2>2. QED
      BY <2>1
<1>5. \A i \in 0 .. Len(parts) : g[i] = IF i = 0 THEN doc ELSE ApplyInsert(g[i - 1], parts[i])
    BY <1>4
<1>6. QED
    BY <1>4, <1>5, Indices

(* An undo takes away what was inserted. *)
AllTaken(doc, parts) == ForEach(EraseObject, doc, parts)

LEMMA TakingsRun ==
    ASSUME NEW doc, NEW parts, Len(parts) \in Nat
    PROVE  \E g : /\ g[0] = doc /\ g[Len(parts)] = AllTaken(doc, parts)
                  /\ \A i \in 1 .. Len(parts) : g[i] = EraseObject(g[i - 1], parts[i])
<1> DEFINE Run(g, n) ==
             g = [i \in 0 .. n |-> IF i = 0 THEN doc ELSE EraseObject(g[i - 1], parts[i])]
           Lengths == {n \in Nat : \E g : Run(g, n)}
<1>1. 0 \in Lengths
  <2>1. Run([i \in 0 .. 0 |-> doc], 0)
      OBVIOUS
  <2>2. QED
      BY <2>1
<1>2. ASSUME NEW n \in Lengths PROVE n + 1 \in Lengths
  <2>1. PICK g : Run(g, n)
      OBVIOUS
  <2>2. PICK h : IsExtended(h, g, n, EraseObject(g[n], parts[n + 1]))
      BY Extended
  <2>3. \A i \in 0 .. n : g[i] = IF i = 0 THEN doc ELSE EraseObject(g[i - 1], parts[i])
      BY <2>1
  <2>4. \A i \in 0 .. n + 1 : h[i] = IF i = 0 THEN doc ELSE EraseObject(h[i - 1], parts[i])
      BY <2>2, <2>3, ExtendedAt
  <2>5. Run(h, n + 1)
      BY <2>2, <2>4 DEF IsExtended
  <2> HIDE DEF Run
  <2>6. QED
      BY <2>5
<1>3. \E g : Run(g, Len(parts))
  <2> HIDE DEF Run
  <2>1. Nat \subseteq Lengths
      BY <1>1, <1>2, Induction
  <2>2. QED
      BY <2>1
<1>4. PICK g : Run(g, Len(parts)) /\ g[Len(parts)] = AllTaken(doc, parts)
  <2> DEFINE after == CHOOSE after : Run(after, Len(parts))
  <2>1. Run(after, Len(parts)) /\ AllTaken(doc, parts) = after[Len(parts)]
      BY <1>3 DEF AllTaken, ForEach
  <2> HIDE DEF after
  <2>2. QED
      BY <2>1
<1>5. \A i \in 0 .. Len(parts) : g[i] = IF i = 0 THEN doc ELSE EraseObject(g[i - 1], parts[i])
    BY <1>4
<1>6. QED
    BY <1>4, <1>5, Indices

(* It gives objects their old data. *)
AllReplaced(doc, parts) == ForEach(Replace, doc, parts)

LEMMA ReplacementsRun ==
    ASSUME NEW doc, NEW parts, Len(parts) \in Nat
    PROVE  \E g : /\ g[0] = doc /\ g[Len(parts)] = AllReplaced(doc, parts)
                  /\ \A i \in 1 .. Len(parts) : g[i] = Replace(g[i - 1], parts[i])
<1> DEFINE Run(g, n) ==
             g = [i \in 0 .. n |-> IF i = 0 THEN doc ELSE Replace(g[i - 1], parts[i])]
           Lengths == {n \in Nat : \E g : Run(g, n)}
<1>1. 0 \in Lengths
  <2>1. Run([i \in 0 .. 0 |-> doc], 0)
      OBVIOUS
  <2>2. QED
      BY <2>1
<1>2. ASSUME NEW n \in Lengths PROVE n + 1 \in Lengths
  <2>1. PICK g : Run(g, n)
      OBVIOUS
  <2>2. PICK h : IsExtended(h, g, n, Replace(g[n], parts[n + 1]))
      BY Extended
  <2>3. \A i \in 0 .. n : g[i] = IF i = 0 THEN doc ELSE Replace(g[i - 1], parts[i])
      BY <2>1
  <2>4. \A i \in 0 .. n + 1 : h[i] = IF i = 0 THEN doc ELSE Replace(h[i - 1], parts[i])
      BY <2>2, <2>3, ExtendedAt
  <2>5. Run(h, n + 1)
      BY <2>2, <2>4 DEF IsExtended
  <2> HIDE DEF Run
  <2>6. QED
      BY <2>5
<1>3. \E g : Run(g, Len(parts))
  <2> HIDE DEF Run
  <2>1. Nat \subseteq Lengths
      BY <1>1, <1>2, Induction
  <2>2. QED
      BY <2>1
<1>4. PICK g : Run(g, Len(parts)) /\ g[Len(parts)] = AllReplaced(doc, parts)
  <2> DEFINE after == CHOOSE after : Run(after, Len(parts))
  <2>1. Run(after, Len(parts)) /\ AllReplaced(doc, parts) = after[Len(parts)]
      BY <1>3 DEF AllReplaced, ForEach
  <2> HIDE DEF after
  <2>2. QED
      BY <2>1
<1>5. \A i \in 0 .. Len(parts) : g[i] = IF i = 0 THEN doc ELSE Replace(g[i - 1], parts[i])
    BY <1>4
<1>6. QED
    BY <1>4, <1>5, Indices

(* It brings back what was erased. *)
AllReturned(doc, parts) == ForEach(RestoreErased, doc, parts)

LEMMA ReturnsRun ==
    ASSUME NEW doc, NEW parts, Len(parts) \in Nat
    PROVE  \E g : /\ g[0] = doc /\ g[Len(parts)] = AllReturned(doc, parts)
                  /\ \A i \in 1 .. Len(parts) : g[i] = RestoreErased(g[i - 1], parts[i])
<1> DEFINE Run(g, n) ==
             g = [i \in 0 .. n |-> IF i = 0 THEN doc ELSE RestoreErased(g[i - 1], parts[i])]
           Lengths == {n \in Nat : \E g : Run(g, n)}
<1>1. 0 \in Lengths
  <2>1. Run([i \in 0 .. 0 |-> doc], 0)
      OBVIOUS
  <2>2. QED
      BY <2>1
<1>2. ASSUME NEW n \in Lengths PROVE n + 1 \in Lengths
  <2>1. PICK g : Run(g, n)
      OBVIOUS
  <2>2. PICK h : IsExtended(h, g, n, RestoreErased(g[n], parts[n + 1]))
      BY Extended
  <2>3. \A i \in 0 .. n : g[i] = IF i = 0 THEN doc ELSE RestoreErased(g[i - 1], parts[i])
      BY <2>1
  <2>4. \A i \in 0 .. n + 1 : h[i] = IF i = 0 THEN doc ELSE RestoreErased(h[i - 1], parts[i])
      BY <2>2, <2>3, ExtendedAt
  <2>5. Run(h, n + 1)
      BY <2>2, <2>4 DEF IsExtended
  <2> HIDE DEF Run
  <2>6. QED
      BY <2>5
<1>3. \E g : Run(g, Len(parts))
  <2> HIDE DEF Run
  <2>1. Nat \subseteq Lengths
      BY <1>1, <1>2, Induction
  <2>2. QED
      BY <2>1
<1>4. PICK g : Run(g, Len(parts)) /\ g[Len(parts)] = AllReturned(doc, parts)
  <2> DEFINE after == CHOOSE after : Run(after, Len(parts))
  <2>1. Run(after, Len(parts)) /\ AllReturned(doc, parts) = after[Len(parts)]
      BY <1>3 DEF AllReturned, ForEach
  <2> HIDE DEF after
  <2>2. QED
      BY <2>1
<1>5. \A i \in 0 .. Len(parts) : g[i] = IF i = 0 THEN doc ELSE RestoreErased(g[i - 1], parts[i])
    BY <1>4
<1>6. QED
    BY <1>4, <1>5, Indices

LEMMA ChangeIs ==
    ASSUME NEW change
    PROVE  Apply(change) =
             AllInserted(AllUpdated(AllErased(Current, change.erases), change.updates),
                         change.inserts)
BY DEF Apply, AllInserted, AllUpdated, AllErased

LEMMA UndoIs ==
    ASSUME NEW doc, NEW record
    PROVE  UndoAppliedChange(doc, record) =
             AllReturned(AllReplaced(AllTaken(doc, Reverse(record.inserted)),
                                     Reverse(record.updated)),
                         Reverse(record.erased))
BY DEF UndoAppliedChange, AllReturned, AllReplaced, AllTaken

(* The rounds of a loop, one after the other. *)
LEMMA Rounds ==
    ASSUME NEW n \in Nat, NEW S, 0 \in S, \A k \in 0 .. n - 1 : k \in S => k + 1 \in S
    PROVE  \A k \in 0 .. n : k \in S
<1> DEFINE T == {k \in Nat : k <= n => k \in S}
<1>1. 0 \in T
    OBVIOUS
<1>2. ASSUME NEW k \in T PROVE k + 1 \in T
  <2>1. k \in Nat /\ (k <= n => k \in S) /\ k + 1 \in Nat
      OBVIOUS
  <2>2. k + 1 <= n => k \in 0 .. n - 1 /\ k <= n
      BY <2>1
  <2>3. QED
      BY <2>1, <2>2
<1> HIDE DEF T
<1>3. Nat \subseteq T
    BY <1>1, <1>2, Induction
<1>4. QED
    BY <1>3 DEF T

(***************************************************************************)
(* What the loops of Apply do, and the contents they go through.           *)
(***************************************************************************)
Removed(before, after, saved) ==
    /\ before \in Seq(Object) /\ saved.index \in 1 .. Len(before)
    /\ saved.object = before[saved.index] /\ after = RemoveAt(before, saved.index)

Exchanged(before, after, old) ==
    /\ before \in Seq(Object) /\ Unique(before)
    /\ \E k \in 1 .. Len(before), new \in Object :
         old = before[k] /\ new.id = old.id /\ after = [before EXCEPT ![k] = new]

Added(before, after, object) ==
    before \in Seq(Object) /\ after = Append(before, object)

(* From one contents to another by as many steps as there are snapshots. *)
RemovedAlong(saved, from, to) ==
    \E s : /\ s[0] = from /\ s[Len(saved)] = to
           /\ \A i \in 1 .. Len(saved) : Removed(s[i - 1], s[i], saved[i])

ExchangedAlong(old, from, to) ==
    \E s : /\ s[0] = from /\ s[Len(old)] = to
           /\ \A i \in 1 .. Len(old) : Exchanged(s[i - 1], s[i], old[i])

AddedAlong(objs, from, to) ==
    \E s : /\ s[0] = from /\ s[Len(objs)] = to
           /\ \A i \in 1 .. Len(objs) : Added(s[i - 1], s[i], objs[i])

(* All the erases of a change. *)
LEMMA EraseAll ==
    ASSUME NEW doc, Coherent(doc), doc.erased = << >>, NEW parts, Len(parts) \in Nat,
           \A i, j \in 1 .. Len(parts) : parts[i] = parts[j] => i = j,
           \A i \in 1 .. Len(parts) : parts[i] \in Ids(doc.objects),
           NEW d, d = AllErased(doc, parts)
    PROVE  /\ Coherent(d) /\ d.nextId = doc.nextId
           /\ d.updated = doc.updated /\ d.inserted = doc.inserted
           /\ Ids(d.objects) = Ids(doc.objects) \ {parts[i] : i \in 1 .. Len(parts)}
           /\ d.erased \in Seq(Snapshot) /\ Len(d.erased) = Len(parts)
           /\ \A i \in 1 .. Len(parts) : d.erased[i].object.id = parts[i]
           /\ RemovedAlong(d.erased, doc.objects, d.objects)
<1>1. PICK g : /\ g[0] = doc /\ g[Len(parts)] = d
               /\ \A i \in 1 .. Len(parts) : g[i] = ApplyErase(g[i - 1], parts[i])
    BY ErasesRun
<1> DEFINE Fixed(n) == /\ Coherent(g[n]) /\ g[n].nextId = doc.nextId
                       /\ g[n].updated = doc.updated /\ g[n].inserted = doc.inserted
                       /\ g[n].erased \in Seq(Snapshot) /\ Len(g[n].erased) = n
           Left(n) == Ids(g[n].objects) = Ids(doc.objects) \ {parts[i] : i \in 1 .. n}
           Steps(n) == \A i \in 1 .. n :
                         /\ g[n].erased[i].object.id = parts[i]
                         /\ Removed(g[i - 1].objects, g[i].objects, g[n].erased[i])
           S == {n \in Nat : Fixed(n) /\ Left(n) /\ Steps(n)}
<1>2. 0 \in S
  <2>1. Fixed(0)
      BY <1>1, EmptySeq
  <2>2. {parts[i] : i \in 1 .. 0} = {}
      OBVIOUS
  <2>3. Left(0)
      BY <1>1, <2>2
  <2>4. Steps(0)
      OBVIOUS
  <2> HIDE DEF Fixed, Left, Steps
  <2>5. QED
      BY <2>1, <2>3, <2>4
<1>3. ASSUME NEW n \in 0 .. Len(parts) - 1, n \in S PROVE n + 1 \in S
  <2>1. n \in Nat /\ n + 1 \in 1 .. Len(parts) /\ n + 1 \in Nat /\ (n + 1) - 1 = n
        /\ \A i \in 1 .. n : i \in 1 .. Len(parts) /\ i # n + 1
      OBVIOUS
  <2>2. Fixed(n) /\ Left(n) /\ Steps(n)
      BY <1>3
  <2>3. PICK a, b, id : a = g[n] /\ b = g[n + 1] /\ id = parts[n + 1]
      OBVIOUS
  <2>4. b = ApplyErase(a, id)
      BY <1>1, <2>1, <2>3
  <2>5. id \in Ids(a.objects)
      BY <2>1, <2>2, <2>3
  <2>6. ErasesOne(a, id, b)
    <3>1. Coherent(a) /\ a.erased \in Seq(Snapshot)
        BY <2>2, <2>3
    <3>2. QED
        BY <2>4, <2>5, <3>1, ApplyEraseIs
  <2>7. PICK saved \in Snapshot :
             /\ saved.index \in 1 .. Len(a.objects)
             /\ saved.object = a.objects[saved.index] /\ saved.object.id = id
             /\ b.objects = RemoveAt(a.objects, saved.index)
             /\ b.erased = Append(a.erased, saved)
      BY <2>6 DEF ErasesOne
  <2>8. b.erased \in Seq(Snapshot) /\ Len(b.erased) = n + 1 /\ b.erased[n + 1] = saved
        /\ \A i \in 1 .. n : b.erased[i] = a.erased[i]
      BY <2>2, <2>3, <2>7, AppendProperties
  <2>9. Fixed(n + 1)
      BY <2>2, <2>3, <2>6, <2>8 DEF ErasesOne
  <2>10. \A i \in 1 .. n + 1 : i = n + 1 \/ i \in 1 .. n
      BY <2>1
  <2>11. Left(n + 1)
    <3>1. {parts[i] : i \in 1 .. n + 1} = {parts[i] : i \in 1 .. n} \cup {id}
        BY <2>1, <2>3, <2>10
    <3>2. QED
        BY <2>2, <2>3, <2>6, <3>1 DEF ErasesOne
  <2>12. Removed(a.objects, b.objects, saved)
      BY <2>2, <2>3, <2>7 DEF Removed, Coherent
  <2>13. Steps(n + 1)
    <3> SUFFICES ASSUME NEW i \in 1 .. n + 1
                 PROVE  /\ b.erased[i].object.id = parts[i]
                        /\ Removed(g[i - 1].objects, g[i].objects, b.erased[i])
        BY <2>3
    <3>1. CASE i = n + 1
        BY <2>1, <2>3, <2>7, <2>8, <2>12, <3>1
    <3>2. CASE i \in 1 .. n
        BY <2>2, <2>3, <2>8, <3>2
    <3>3. QED
        BY <2>10, <3>1, <3>2
  <2> HIDE DEF Fixed, Left, Steps
  <2>14. QED
      BY <2>1, <2>9, <2>11, <2>13
<1>4. Len(parts) \in S
  <2> HIDE DEF S
  <2>1. \A k \in 0 .. Len(parts) : k \in S
      BY <1>2, <1>3, Rounds
  <2>2. QED
      BY <2>1
<1>5. Fixed(Len(parts)) /\ Left(Len(parts)) /\ Steps(Len(parts))
    BY <1>4
<1>6. RemovedAlong(d.erased, doc.objects, d.objects)
  <2>1. PICK s : s = [i \in 0 .. Len(parts) |-> g[i].objects]
      OBVIOUS
  <2>2. \A i \in 0 .. Len(parts) : s[i] = g[i].objects
      BY <2>1
  <2>3. s[0] = doc.objects /\ s[Len(parts)] = d.objects
        /\ \A i \in 1 .. Len(parts) : s[i] = g[i].objects /\ s[i - 1] = g[i - 1].objects
      BY <1>1, <2>2, Indices
  <2>4. \A i \in 1 .. Len(parts) : Removed(s[i - 1], s[i], d.erased[i])
      BY <1>1, <1>5, <2>3
  <2>5. QED
      BY <1>1, <1>5, <2>3, <2>4 DEF RemovedAlong
<1>7. QED
    BY <1>1, <1>5, <1>6

(* All its updates. *)
LEMMA UpdateAll ==
    ASSUME NEW doc, Coherent(doc), doc.updated = << >>, NEW parts, Len(parts) \in Nat,
           \A i \in 1 .. Len(parts) : parts[i] \in Object /\ parts[i].id \in Ids(doc.objects),
           NEW d, d = AllUpdated(doc, parts)
    PROVE  /\ Coherent(d) /\ d.nextId = doc.nextId
           /\ d.erased = doc.erased /\ d.inserted = doc.inserted
           /\ Ids(d.objects) = Ids(doc.objects)
           /\ d.updated \in Seq(Object) /\ Len(d.updated) = Len(parts)
           /\ \A i \in 1 .. Len(parts) : d.updated[i].id = parts[i].id
           /\ ExchangedAlong(d.updated, doc.objects, d.objects)
<1>1. PICK g : /\ g[0] = doc /\ g[Len(parts)] = d
               /\ \A i \in 1 .. Len(parts) : g[i] = ApplyUpdate(g[i - 1], parts[i])
    BY UpdatesRun
<1> DEFINE Fixed(n) == /\ Coherent(g[n]) /\ g[n].nextId = doc.nextId
                       /\ g[n].erased = doc.erased /\ g[n].inserted = doc.inserted
                       /\ Ids(g[n].objects) = Ids(doc.objects)
                       /\ g[n].updated \in Seq(Object) /\ Len(g[n].updated) = n
           Steps(n) == \A i \in 1 .. n :
                         /\ g[n].updated[i].id = parts[i].id
                         /\ Exchanged(g[i - 1].objects, g[i].objects, g[n].updated[i])
           S == {n \in Nat : Fixed(n) /\ Steps(n)}
<1>2. 0 \in S
  <2>1. Fixed(0)
      BY <1>1, EmptySeq
  <2>2. Steps(0)
      OBVIOUS
  <2> HIDE DEF Fixed, Steps
  <2>3. QED
      BY <2>1, <2>2
<1>3. ASSUME NEW n \in 0 .. Len(parts) - 1, n \in S PROVE n + 1 \in S
  <2>1. n \in Nat /\ n + 1 \in 1 .. Len(parts) /\ n + 1 \in Nat /\ (n + 1) - 1 = n
        /\ \A i \in 1 .. n + 1 : i = n + 1 \/ i \in 1 .. n
      OBVIOUS
  <2>2. Fixed(n) /\ Steps(n)
      BY <1>3
  <2>3. PICK a, b, update : a = g[n] /\ b = g[n + 1] /\ update = parts[n + 1]
      OBVIOUS
  <2>4. UpdatesOne(a, update, b) /\ update \in Object
    <3>1. b = ApplyUpdate(a, update)
        BY <1>1, <2>1, <2>3
    <3>2. Coherent(a) /\ a.updated \in Seq(Object)
        BY <2>2, <2>3
    <3>3. update \in Object /\ update.id \in Ids(a.objects)
        BY <2>1, <2>2, <2>3
    <3>4. QED
        BY <3>1, <3>2, <3>3, ApplyUpdateIs
  <2>5. PICK k \in 1 .. Len(a.objects) :
             /\ a.objects[k] \in Object /\ a.objects[k].id = update.id
             /\ b.objects = [a.objects EXCEPT ![k] = update]
             /\ b.updated = Append(a.updated, a.objects[k])
      BY <2>4 DEF UpdatesOne
  <2>6. b.updated \in Seq(Object) /\ Len(b.updated) = n + 1
        /\ b.updated[n + 1] = a.objects[k] /\ \A i \in 1 .. n : b.updated[i] = a.updated[i]
    <3>1. a.updated \in Seq(Object) /\ Len(a.updated) = n
        BY <2>2, <2>3
    <3>2. QED
        BY <2>5, <3>1, AppendProperties
  <2>7. Fixed(n + 1)
      BY <2>2, <2>3, <2>4, <2>6 DEF UpdatesOne
  <2>8. Exchanged(a.objects, b.objects, b.updated[n + 1])
    <3>1. a.objects \in Seq(Object) /\ Unique(a.objects)
        BY <2>2, <2>3 DEF Coherent
    <3>2. update.id = a.objects[k].id /\ b.updated[n + 1] = a.objects[k]
        BY <2>5, <2>6
    <3>3. \E m \in 1 .. Len(a.objects), new \in Object :
            /\ b.updated[n + 1] = a.objects[m] /\ new.id = b.updated[n + 1].id
            /\ b.objects = [a.objects EXCEPT ![m] = new]
        BY <2>4, <2>5, <3>2
    <3>4. QED
        BY <3>1, <3>3 DEF Exchanged
  <2>9. Steps(n + 1)
    <3> SUFFICES ASSUME NEW i \in 1 .. n + 1
                 PROVE  /\ b.updated[i].id = parts[i].id
                        /\ Exchanged(g[i - 1].objects, g[i].objects, b.updated[i])
        BY <2>3
    <3>1. CASE i = n + 1
        BY <2>1, <2>3, <2>5, <2>6, <2>8, <3>1
    <3>2. CASE i \in 1 .. n
        BY <2>2, <2>3, <2>6, <3>2
    <3>3. QED
        BY <2>1, <3>1, <3>2
  <2> HIDE DEF Fixed, Steps
  <2>10. QED
      BY <2>1, <2>7, <2>9
<1>4. Len(parts) \in S
  <2> HIDE DEF S
  <2>1. \A k \in 0 .. Len(parts) : k \in S
      BY <1>2, <1>3, Rounds
  <2>2. QED
      BY <2>1
<1>5. Fixed(Len(parts)) /\ Steps(Len(parts))
    BY <1>4
<1>6. ExchangedAlong(d.updated, doc.objects, d.objects)
  <2>1. PICK s : s = [i \in 0 .. Len(parts) |-> g[i].objects]
      OBVIOUS
  <2>2. \A i \in 0 .. Len(parts) : s[i] = g[i].objects
      BY <2>1
  <2>3. s[0] = doc.objects /\ s[Len(parts)] = d.objects
        /\ \A i \in 1 .. Len(parts) : s[i] = g[i].objects /\ s[i - 1] = g[i - 1].objects
      BY <1>1, <2>2, Indices
  <2>4. \A i \in 1 .. Len(parts) : Exchanged(s[i - 1], s[i], d.updated[i])
      BY <1>1, <1>5, <2>3
  <2>5. QED
      BY <1>1, <1>5, <2>3, <2>4 DEF ExchangedAlong
<1>7. QED
    BY <1>1, <1>5, <1>6

(* The ids of inserted objects are free: those that clients choose are no   *)
(* numbers, no object has them and no two inserts; allocated ones are new.  *)
Free(parts, taken) ==
    /\ \A i \in 1 .. Len(parts) :
         /\ parts[i] \in [id : Names \cup {NoId}, data : Data]
         /\ parts[i].id # NoId => parts[i].id \notin Nat /\ parts[i].id \notin taken
    /\ \A i, j \in 1 .. Len(parts) :
         parts[i].id # NoId /\ parts[i].id = parts[j].id => i = j

InsertsAll(doc, taken, d) ==
    /\ Coherent(d) /\ d.erased = doc.erased /\ d.updated = doc.updated
    /\ d.nextId \in Nat /\ \A id \in taken \cup Ids(d.objects) : id \in Nat => id < d.nextId
    /\ Ids(d.objects) = Ids(doc.objects) \cup Ids(d.inserted)
    /\ d.inserted \in Seq(Object) /\ Unique(d.inserted)
    /\ Ids(d.inserted) \cap taken = {}
    /\ AddedAlong(d.inserted, doc.objects, d.objects)

(* All its inserts. *)
LEMMA InsertAll ==
    ASSUME NEW doc, Coherent(doc), doc.inserted = << >>, doc.nextId \in Nat,
           NEW taken, Ids(doc.objects) \subseteq taken,
           \A id \in taken : id \in Nat => id < doc.nextId,
           NEW parts, Len(parts) \in Nat, Free(parts, taken),
           NEW d, d = AllInserted(doc, parts)
    PROVE  InsertsAll(doc, taken, d)
<1>1. PICK g : /\ g[0] = doc /\ g[Len(parts)] = d
               /\ \A i \in 1 .. Len(parts) : g[i] = ApplyInsert(g[i - 1], parts[i])
    BY InsertsRun
<1> DEFINE Fixed(n) == /\ Coherent(g[n])
                       /\ g[n].erased = doc.erased /\ g[n].updated = doc.updated
                       /\ g[n].inserted \in Seq(Object) /\ Len(g[n].inserted) = n
           Below(n) == /\ g[n].nextId \in Nat
                       /\ \A id \in taken \cup Ids(g[n].objects) :
                            id \in Nat => id < g[n].nextId
           New(n) == /\ Ids(g[n].objects) = Ids(doc.objects) \cup Ids(g[n].inserted)
                     /\ Ids(g[n].inserted) \cap taken = {} /\ Unique(g[n].inserted)
           Origins(n) == \A i \in 1 .. n :
                           \/ g[n].inserted[i].id \in Nat
                           \/ parts[i].id # NoId /\ g[n].inserted[i].id = parts[i].id
           Steps(n) == \A i \in 1 .. n :
                           Added(g[i - 1].objects, g[i].objects, g[n].inserted[i])
           S == {n \in Nat : Fixed(n) /\ Below(n) /\ New(n) /\ Origins(n) /\ Steps(n)}
<1>2. 0 \in S
  <2>1. Fixed(0) /\ Below(0)
      BY <1>1, EmptySeq
  <2>2. New(0)
      BY <1>1 DEF Ids, Unique
  <2>3. Origins(0) /\ Steps(0)
      OBVIOUS
  <2> HIDE DEF Fixed, Below, New, Origins, Steps
  <2>4. QED
      BY <2>1, <2>2, <2>3
<1>3. ASSUME NEW n \in 0 .. Len(parts) - 1, n \in S PROVE n + 1 \in S
  <2>1. /\ n \in Nat /\ n + 1 \in 1 .. Len(parts) /\ n + 1 \in Nat /\ (n + 1) - 1 = n
        /\ \A i \in 1 .. n + 1 : i = n + 1 \/ i \in 1 .. n
        /\ \A i \in 1 .. n : i \in 1 .. Len(parts) /\ i # n + 1
      OBVIOUS
  <2>2. Fixed(n) /\ Below(n) /\ New(n) /\ Origins(n) /\ Steps(n)
      BY <1>3
  <2>3. PICK a, b, object, named : /\ a = g[n] /\ b = g[n + 1] /\ object = parts[n + 1]
                                   /\ named = Named(a, object)
      OBVIOUS
  <2>4. /\ Coherent(a) /\ a.nextId \in Nat /\ a.inserted \in Seq(Object)
        /\ Len(a.inserted) = n /\ Unique(a.inserted)
        /\ Ids(a.objects) = Ids(doc.objects) \cup Ids(a.inserted)
        /\ Ids(a.inserted) \cap taken = {}
        /\ \A id \in taken \cup Ids(a.objects) : id \in Nat => id < a.nextId
      BY <2>2, <2>3
  <2>5. object \in [id : Names \cup {NoId}, data : Data]
        /\ (object.id # NoId => object.id \notin Nat /\ object.id \notin taken)
      BY <2>1, <2>3 DEF Free
  <2>6. /\ named \in Object
        /\ object.id = NoId => named.id = a.nextId
        /\ object.id # NoId => named.id = object.id
    <3>1. CASE object.id = NoId
      <4>1. named = [object EXCEPT !.id = a.nextId]
          BY <2>3, <3>1 DEF Named
      <4>2. QED
          BY <2>4, <2>5, <3>1, <4>1 DEF Object
    <3>2. CASE object.id # NoId
        BY <2>3, <2>5, <3>2 DEF Named, Object
    <3>3. QED
        BY <3>1, <3>2
  <2>7. named.id \notin taken /\ named.id \notin Ids(a.inserted) /\ named.id \notin Ids(a.objects)
    <3>1. CASE object.id = NoId
      <4>1. \A m \in Nat : ~(m < m)
          OBVIOUS
      <4>2. QED
          BY <2>4, <2>6, <3>1, <4>1
    <3>2. CASE object.id # NoId
      <4>1. ASSUME NEW i \in 1 .. n, a.inserted[i].id = object.id PROVE FALSE
          BY <2>1, <2>2, <2>3, <2>5, <3>2, <4>1 DEF Free
      <4>2. named.id \notin Ids(a.inserted)
          BY <2>4, <2>6, <3>2, <4>1 DEF Ids
      <4>3. QED
          BY <2>4, <2>5, <2>6, <3>2, <4>2
    <3>3. QED
        BY <3>1, <3>2
  <2>8. InsertsOne(a, object, b)
    <3>1. b = ApplyInsert(a, object)
        BY <1>1, <2>1, <2>3
    <3>2. Named(a, object) \in Object /\ Named(a, object).id \notin Ids(a.objects)
        BY <2>3, <2>6, <2>7
    <3>3. QED
        BY <2>4, <3>1, <3>2, ApplyInsertIs
  <2>9. /\ Coherent(b) /\ Ids(b.objects) = Ids(a.objects) \cup {named.id}
        /\ b.objects = Append(a.objects, named) /\ b.inserted = Append(a.inserted, named)
        /\ b.nextId = (IF object.id = NoId THEN a.nextId + 1 ELSE a.nextId)
        /\ b.erased = a.erased /\ b.updated = a.updated
      BY <2>3, <2>8 DEF InsertsOne
  <2>10. b.inserted \in Seq(Object) /\ Len(b.inserted) = n + 1
         /\ b.inserted[n + 1] = named /\ \A i \in 1 .. n : b.inserted[i] = a.inserted[i]
      BY <2>4, <2>6, <2>9, AppendProperties
  <2>11. Fixed(n + 1)
      BY <2>2, <2>3, <2>9, <2>10
  <2>12. Below(n + 1)
    <3>1. ASSUME NEW id \in taken \cup Ids(b.objects), id \in Nat PROVE id < b.nextId
      <4>1. CASE object.id = NoId
        <5>1. b.nextId = a.nextId + 1 /\ (id = a.nextId \/ id < a.nextId)
            BY <2>4, <2>6, <2>9, <3>1, <4>1
        <5>2. QED
            BY <2>4, <3>1, <5>1
      <4>2. CASE object.id # NoId
          BY <2>4, <2>5, <2>6, <2>9, <3>1, <4>2
      <4>3. QED
          BY <4>1, <4>2
    <3>2. b.nextId \in Nat
        BY <2>4, <2>9
    <3>3. QED
        BY <2>3, <3>1, <3>2
  <2>13. Ids(b.inserted) = Ids(a.inserted) \cup {named.id}
      BY <2>1, <2>4, <2>10 DEF Ids
  <2>14. New(n + 1)
    <3>1. \A i \in 1 .. n : a.inserted[i].id # named.id
        BY <2>4, <2>7 DEF Ids
    <3>2. Unique(b.inserted)
      <4> SUFFICES ASSUME NEW i \in 1 .. n + 1, NEW j \in 1 .. n + 1,
                          b.inserted[i].id = b.inserted[j].id
                   PROVE  i = j
          BY <2>10 DEF Unique
      <4>1. CASE i = n + 1 \/ j = n + 1
          BY <2>1, <2>10, <3>1, <4>1
      <4>2. CASE i \in 1 .. n /\ j \in 1 .. n
          BY <2>4, <2>10, <4>2 DEF Unique
      <4>3. QED
          BY <2>1, <4>1, <4>2
    <3>3. QED
        BY <2>3, <2>4, <2>7, <2>9, <2>13, <3>2
  <2>15. Origins(n + 1)
    <3> SUFFICES ASSUME NEW i \in 1 .. n + 1
                 PROVE  \/ b.inserted[i].id \in Nat
                        \/ parts[i].id # NoId /\ b.inserted[i].id = parts[i].id
        BY <2>3
    <3>1. CASE i = n + 1
        BY <2>3, <2>4, <2>6, <2>10, <3>1
    <3>2. CASE i \in 1 .. n
        BY <2>2, <2>3, <2>10, <3>2
    <3>3. QED
        BY <2>1, <3>1, <3>2
  <2>16. Steps(n + 1)
    <3> SUFFICES ASSUME NEW i \in 1 .. n + 1
                 PROVE  Added(g[i - 1].objects, g[i].objects, b.inserted[i])
        BY <2>3
    <3>1. CASE i = n + 1
      <4>1. Added(a.objects, b.objects, b.inserted[n + 1])
          BY <2>4, <2>9, <2>10 DEF Added, Coherent
      <4>2. QED
          BY <2>1, <2>3, <3>1, <4>1
    <3>2. CASE i \in 1 .. n
        BY <2>2, <2>3, <2>10, <3>2
    <3>3. QED
        BY <2>1, <3>1, <3>2
  <2> HIDE DEF Fixed, Below, New, Origins, Steps
  <2>17. QED
      BY <2>1, <2>11, <2>12, <2>14, <2>15, <2>16
<1>4. Len(parts) \in S
  <2> HIDE DEF S
  <2>1. \A k \in 0 .. Len(parts) : k \in S
      BY <1>2, <1>3, Rounds
  <2>2. QED
      BY <2>1
<1>5. Fixed(Len(parts)) /\ Below(Len(parts)) /\ New(Len(parts)) /\ Steps(Len(parts))
    BY <1>4
<1>6. AddedAlong(d.inserted, doc.objects, d.objects)
  <2>1. PICK s : s = [i \in 0 .. Len(parts) |-> g[i].objects]
      OBVIOUS
  <2>2. \A i \in 0 .. Len(parts) : s[i] = g[i].objects
      BY <2>1
  <2>3. s[0] = doc.objects /\ s[Len(parts)] = d.objects
        /\ \A i \in 1 .. Len(parts) : s[i] = g[i].objects /\ s[i - 1] = g[i - 1].objects
      BY <1>1, <2>2, Indices
  <2>4. \A i \in 1 .. Len(parts) : Added(s[i - 1], s[i], d.inserted[i])
      BY <1>1, <1>5, <2>3
  <2>5. QED
      BY <1>1, <1>5, <2>3, <2>4 DEF AddedAlong
<1>7. QED
    BY <1>1, <1>5, <1>6 DEF InsertsAll

(***************************************************************************)
(* What the loops of UndoAppliedChange do: each takes the rounds of one    *)
(* loop of Apply back, the last one first.                                 *)
(***************************************************************************)
LEMMA TakenBack ==
    ASSUME NEW a, Coherent(a), NEW before, NEW object \in Object,
           Added(before, a.objects, object), object.id \in Ids(a.objects),
           NEW b, b = EraseObject(a, object)
    PROVE  b.objects = before
<1>1. PICK s, k : s = a.objects /\ k = Len(before) + 1
    OBVIOUS
<1>2. before \in Seq(Object) /\ s = Append(before, object)
    BY <1>1 DEF Added
<1>3. s \in Seq(Object) /\ k \in 1 .. Len(s) /\ s[k] = object
  <2>1. Len(before) \in Nat /\ Len(s) = Len(before) + 1 /\ s \in Seq(Object)
        /\ s[Len(before) + 1] = object
      BY <1>2, AppendProperties, LenProperties
  <2>2. QED
      BY <1>1, <2>1
<1>4. a.index[object.id] = k
    BY <1>1, <1>3 DEF Coherent, Leads
<1>5. b.objects = RemoveAt(s, k)
  <2>1. b = Erase(a, object.id)
      BY DEF EraseObject
  <2>2. b.objects = RemoveAt(a.objects, a.index[object.id])
      BY <2>1, EraseIs
  <2>3. QED
      BY <1>1, <1>4, <2>2
<1>6. QED
    BY <1>1, <1>2, <1>5, AddedAndTaken

(* An old object put back into its place. *)
LEMMA ExchangedBack ==
    ASSUME NEW a, Coherent(a), NEW before, NEW old \in Object,
           Exchanged(before, a.objects, old), old.id \in Ids(a.objects),
           NEW b, b = Replace(a, old)
    PROVE  b.objects = before
<1>1. PICK s : s = a.objects
    OBVIOUS
<1>2. PICK k \in 1 .. Len(before), new \in Object :
           old = before[k] /\ new.id = old.id /\ s = [before EXCEPT ![k] = new]
    BY <1>1 DEF Exchanged
<1>3. before \in Seq(Object)
    BY DEF Exchanged
<1>4. s \in Seq(Object) /\ Len(s) = Len(before) /\ s[k] = new
      /\ \A i \in 1 .. Len(before) : s[i] = IF i = k THEN new ELSE before[i]
    BY <1>2, <1>3, ExceptSeq
<1>5. a.index[old.id] = k
    BY <1>1, <1>2, <1>4 DEF Coherent, Leads
<1>6. PICK t : t = [s EXCEPT ![k] = old]
    OBVIOUS
<1>7. t \in Seq(Object) /\ Len(t) = Len(s)
      /\ \A i \in 1 .. Len(s) : t[i] = IF i = k THEN old ELSE s[i]
    BY <1>2, <1>4, <1>6, ExceptSeq
<1>8. \A i \in 1 .. Len(before) : t[i] = before[i]
    BY <1>2, <1>4, <1>7
<1>9. t = before
    BY <1>3, <1>4, <1>7, <1>8, SeqEqual
<1>10. b.objects = t
  <2>1. b.objects = [a.objects EXCEPT ![a.index[old.id]] = old]
      BY ReplaceIs
  <2>2. QED
      BY <1>1, <1>5, <1>6, <2>1
<1>11. QED
    BY <1>9, <1>10

(* An erased object put back to its position. *)
LEMMA RemovedBack ==
    ASSUME NEW a, Coherent(a), NEW before, NEW saved \in Snapshot,
           Removed(before, a.objects, saved), saved.object.id \notin Ids(a.objects),
           NEW b, b = RestoreErased(a, saved)
    PROVE  b.objects = before
<1>1. PICK s, k, x : s = a.objects /\ k = saved.index /\ x = saved.object
    OBVIOUS
<1>2. before \in Seq(Object) /\ k \in 1 .. Len(before) /\ x = before[k] /\ s = RemoveAt(before, k)
    BY <1>1 DEF Removed
<1>3. Len(s) = Len(before) - 1 /\ Len(before) \in Nat
    BY <1>2, RemoveAtIs, LenProperties
<1>4. k <= Len(s) + 1
    BY <1>2, <1>3
<1>5. saved.index <= Len(a.objects) + 1 =>
        b.objects = InsertAt(a.objects, saved.index, saved.object)
    BY RestoreIs
<1>6. b.objects = InsertAt(s, k, x)
    BY <1>1, <1>4, <1>5
<1>7. QED
    BY <1>2, <1>6, TakenAndPutBack

(* A loop that goes the way of another back. *)
LEMMA WayBack ==
    ASSUME NEW n \in Nat, NEW s, NEW g, g[0].objects = s[n],
           \A k \in 0 .. n - 1, i \in 1 .. n :
               i = n - k /\ g[k].objects = s[i] => g[k + 1].objects = s[i - 1]
    PROVE  g[n].objects = s[0]
<1> DEFINE S == {k \in 0 .. n : g[k].objects = s[n - k]}
<1>1. 0 \in S
    OBVIOUS
<1>2. ASSUME NEW k \in 0 .. n - 1, k \in S PROVE k + 1 \in S
  <2>1. PICK i \in 1 .. n : i = n - k
      OBVIOUS
  <2>2. n - (k + 1) = i - 1 /\ k + 1 \in 0 .. n
      BY <2>1
  <2>3. g[k + 1].objects = s[i - 1]
      BY <1>2, <2>1
  <2>4. QED
      BY <2>2, <2>3
<1> HIDE DEF S
<1>3. n \in S
    BY <1>1, <1>2, Rounds
<1>4. QED
    BY <1>3 DEF S

(* The elements of a reversed sequence, and where they come from. *)
IsReversed(parts, s, m) ==
    /\ Len(parts) = m /\ Len(s) = m /\ m \in Nat
    /\ \A k \in 1 .. m : m - k + 1 \in 1 .. m /\ parts[k] = s[m - k + 1]
    /\ \A k \in 0 .. m - 1, i \in 1 .. m : i = m - k => parts[k + 1] = s[i]
    /\ \A i \in 1 .. m : \E k \in 1 .. m : parts[k] = s[i]
    /\ \A i, k \in 1 .. m : m - i + 1 = m - k + 1 => i = k

(* A sequence taken from its end. *)
LEMMA Reversed ==
    ASSUME NEW T, NEW s \in Seq(T), NEW parts, parts = Reverse(s), NEW m, m = Len(s)
    PROVE  parts \in Seq(T) /\ IsReversed(parts, s, m)
<1>1. m \in Nat /\ parts \in Seq(T) /\ Len(parts) = m
      /\ \A i \in 1 .. m : parts[i] = s[m - i + 1]
    BY ReverseIs, LenProperties
<1>2. /\ \A k \in 0 .. m - 1, i \in 1 .. m :
           i = m - k => k + 1 \in 1 .. m /\ m - (k + 1) + 1 = i
      /\ \A i \in 1 .. m : m - i + 1 \in 1 .. m /\ m - (m - i + 1) + 1 = i
      /\ \A i, k \in 1 .. m : m - i + 1 = m - k + 1 => i = k
    BY <1>1
<1>3. QED
    BY <1>1, <1>2 DEF IsReversed

SameIds(parts, objs, m) ==
    /\ \A k \in 1 .. m : parts[k].id \in Ids(objs)
    /\ \A i, k \in 1 .. m : parts[i].id = parts[k].id => i = k
    /\ Ids(objs) = {parts[k].id : k \in 1 .. m}

LEMMA ReversedIds ==
    ASSUME NEW objs, Unique(objs), NEW m, NEW parts, IsReversed(parts, objs, m)
    PROVE  SameIds(parts, objs, m)
<1>1. Ids(objs) = {objs[i].id : i \in 1 .. m}
    BY DEF Ids, IsReversed
<1>2. \A k \in 1 .. m : parts[k].id \in Ids(objs)
    BY <1>1 DEF IsReversed
<1>3. ASSUME NEW i \in 1 .. m, NEW k \in 1 .. m, parts[i].id = parts[k].id PROVE i = k
  <2>1. PICK a, b \in 1 .. Len(objs) : a = m - i + 1 /\ b = m - k + 1
      BY DEF IsReversed
  <2>2. parts[i] = objs[a] /\ parts[k] = objs[b]
      BY <2>1 DEF IsReversed
  <2>3. a = b
      BY <1>3, <2>2 DEF Unique
  <2>4. QED
      BY <2>1, <2>3 DEF IsReversed
<1>4. ASSUME NEW id \in Ids(objs) PROVE \E k \in 1 .. m : id = parts[k].id
  <2>1. PICK i \in 1 .. m : id = objs[i].id
      BY <1>1
  <2>2. QED
      BY <2>1 DEF IsReversed
<1>5. Ids(objs) = {parts[k].id : k \in 1 .. m}
    BY <1>2, <1>4
<1>6. QED
    BY <1>2, <1>3, <1>5 DEF SameIds

(* What was inserted is taken away, the last one first. *)
LEMMA TakeAll ==
    ASSUME NEW doc, Coherent(doc), NEW objs \in Seq(Object), Unique(objs),
           Ids(objs) \subseteq Ids(doc.objects),
           NEW d, d = AllTaken(doc, Reverse(objs))
    PROVE  /\ Coherent(d) /\ d.nextId = doc.nextId
           /\ Ids(d.objects) = Ids(doc.objects) \ Ids(objs)
           /\ \A from : AddedAlong(objs, from, doc.objects) => d.objects = from
<1>1. PICK parts, m : parts = Reverse(objs) /\ m = Len(objs)
    OBVIOUS
<1>2. parts \in Seq(Object) /\ IsReversed(parts, objs, m) /\ m \in Nat /\ Len(parts) = m
  <2>1. parts \in Seq(Object) /\ IsReversed(parts, objs, m)
      BY <1>1, Reversed
  <2>2. QED
      BY <2>1 DEF IsReversed
<1>3. /\ \A k \in 1 .. m : parts[k].id \in Ids(objs)
      /\ \A i, k \in 1 .. m : parts[i].id = parts[k].id => i = k
      /\ Ids(objs) = {parts[k].id : k \in 1 .. m}
  <2>1. SameIds(parts, objs, m)
      BY <1>2, ReversedIds
  <2>2. QED
      BY <2>1 DEF SameIds
<1>4. PICK g : /\ g[0] = doc /\ g[m] = d
               /\ \A k \in 1 .. m : g[k] = EraseObject(g[k - 1], parts[k])
  <2>1. d = AllTaken(doc, parts) /\ Len(parts) = m /\ Len(parts) \in Nat
      BY <1>1, <1>2
  <2>2. \E g : /\ g[0] = doc /\ g[Len(parts)] = AllTaken(doc, parts)
               /\ \A k \in 1 .. Len(parts) : g[k] = EraseObject(g[k - 1], parts[k])
      BY <2>1, TakingsRun
  <2>3. QED
      BY <2>1, <2>2
<1> DEFINE S == {k \in Nat : /\ Coherent(g[k]) /\ g[k].nextId = doc.nextId
                             /\ Ids(g[k].objects) =
                                  Ids(doc.objects) \ {parts[i].id : i \in 1 .. k}}
<1>5. 0 \in S
  <2>1. {parts[i].id : i \in 1 .. 0} = {}
      OBVIOUS
  <2>2. QED
      BY <1>4, <2>1
<1>6. ASSUME NEW k \in 0 .. m - 1, k \in S PROVE k + 1 \in S
  <2>1. /\ k \in Nat /\ k + 1 \in 1 .. m /\ k + 1 \in Nat /\ (k + 1) - 1 = k
        /\ \A i \in 1 .. k + 1 : i = k + 1 \/ i \in 1 .. k
        /\ \A i \in 1 .. k : i \in 1 .. m /\ i # k + 1 /\ i \in 1 .. k + 1
      BY <1>2
  <2>2. PICK a, b, id : a = g[k] /\ b = g[k + 1] /\ id = parts[k + 1].id
      OBVIOUS
  <2>3. Coherent(a) /\ a.nextId = doc.nextId
        /\ Ids(a.objects) = Ids(doc.objects) \ {parts[i].id : i \in 1 .. k}
      BY <1>6, <2>2
  <2>4. id \in Ids(a.objects)
      BY <1>3, <2>1, <2>2, <2>3
  <2>5. b = Erase(a, id)
      BY <1>4, <2>1, <2>2 DEF EraseObject
  <2>6. Coherent(b) /\ SameRest(b, a) /\ Ids(b.objects) = Ids(a.objects) \ {id}
      BY <2>3, <2>4, <2>5, EraseIs
  <2>7. {parts[i].id : i \in 1 .. k + 1} = {parts[i].id : i \in 1 .. k} \cup {id}
      BY <2>1, <2>2
  <2>8. Ids(b.objects) = Ids(doc.objects) \ {parts[i].id : i \in 1 .. k + 1}
      BY <2>3, <2>6, <2>7
  <2>9. QED
      BY <2>1, <2>2, <2>3, <2>6, <2>8 DEF SameRest
<1>7. \A k \in 0 .. m : k \in S
  <2> HIDE DEF S
  <2>1. QED
      BY <1>2, <1>5, <1>6, Rounds
<1>8. Coherent(d) /\ d.nextId = doc.nextId /\ Ids(d.objects) = Ids(doc.objects) \ Ids(objs)
  <2>1. m \in 0 .. m /\ m \in S
    <3> HIDE DEF S
    <3>1. m \in 0 .. m
        BY <1>2
    <3>2. QED
        BY <1>7, <3>1
  <2>2. QED
      BY <1>3, <1>4, <2>1
<1>9. ASSUME NEW from, AddedAlong(objs, from, doc.objects) PROVE d.objects = from
  <2>1. PICK s : /\ s[0] = from /\ s[m] = doc.objects
                 /\ \A i \in 1 .. m : Added(s[i - 1], s[i], objs[i])
      BY <1>1, <1>9 DEF AddedAlong
  <2>2. ASSUME NEW k \in 0 .. m - 1, NEW i \in 1 .. m, i = m - k /\ g[k].objects = s[i]
        PROVE  g[k + 1].objects = s[i - 1]
    <3>1. k \in 0 .. m /\ k + 1 \in 1 .. m /\ (k + 1) - 1 = k /\ k \in Nat
          /\ \A j \in 1 .. k : j \in 1 .. m /\ j # k + 1
        BY <1>2
    <3>2. PICK a, b, object, before : /\ a = g[k] /\ b = g[k + 1]
                                      /\ object = objs[i] /\ before = s[i - 1]
        OBVIOUS
    <3>3. object = parts[k + 1] /\ object \in Object
        BY <1>1, <1>2, <2>2, <3>2, ElementOfSeq DEF IsReversed
    <3>4. Coherent(a) /\ Ids(a.objects) = Ids(doc.objects) \ {parts[j].id : j \in 1 .. k}
        BY <1>7, <3>1, <3>2
    <3>5. object.id \in Ids(a.objects)
        BY <1>3, <3>1, <3>3, <3>4
    <3>6. b = EraseObject(a, object)
        BY <1>4, <3>1, <3>2, <3>3
    <3>7. Added(before, a.objects, object)
        BY <2>1, <2>2, <3>2
    <3>8. object \in Object /\ Coherent(a)
        BY <3>3, <3>4
    <3>9. b.objects = before
        BY ONLY <3>5, <3>6, <3>7, <3>8, TakenBack
    <3>10. QED
        BY <3>2, <3>9
  <2>3. g[m].objects = s[0]
    <3>1. g[0].objects = s[m]
        BY <1>4, <2>1
    <3>2. \A k \in 0 .. m - 1, i \in 1 .. m :
            i = m - k /\ g[k].objects = s[i] => g[k + 1].objects = s[i - 1]
        BY <2>2
    <3>3. QED
        BY <1>2, <3>1, <3>2, WayBack
  <2>4. QED
      BY <1>4, <2>1, <2>3
<1>10. QED
    BY <1>8, <1>9

(* Old data comes back, the latest change first. *)
LEMMA ExchangeAll ==
    ASSUME NEW doc, Coherent(doc), NEW old \in Seq(Object),
           Ids(old) \subseteq Ids(doc.objects),
           NEW d, d = AllReplaced(doc, Reverse(old))
    PROVE  /\ Coherent(d) /\ d.nextId = doc.nextId /\ Ids(d.objects) = Ids(doc.objects)
           /\ \A from : ExchangedAlong(old, from, doc.objects) => d.objects = from
<1>1. PICK parts, m : parts = Reverse(old) /\ m = Len(old)
    OBVIOUS
<1>2. parts \in Seq(Object) /\ IsReversed(parts, old, m) /\ m \in Nat /\ Len(parts) = m
  <2>1. parts \in Seq(Object) /\ IsReversed(parts, old, m)
      BY <1>1, Reversed
  <2>2. QED
      BY <2>1 DEF IsReversed
<1>3. \A k \in 1 .. m : parts[k] \in Object /\ parts[k].id \in Ids(doc.objects)
  <2>1. \A i \in 1 .. m : old[i].id \in Ids(doc.objects)
      BY <1>1 DEF Ids
  <2>2. \A k \in 1 .. m : parts[k].id \in Ids(doc.objects)
      BY <1>2, <2>1 DEF IsReversed
  <2>3. QED
      BY <1>2, <2>2, ElementOfSeq
<1>4. PICK g : /\ g[0] = doc /\ g[m] = d
               /\ \A k \in 1 .. m : g[k] = Replace(g[k - 1], parts[k])
  <2>1. d = AllReplaced(doc, parts) /\ Len(parts) = m /\ Len(parts) \in Nat
      BY <1>1, <1>2
  <2>2. \E g : /\ g[0] = doc /\ g[Len(parts)] = AllReplaced(doc, parts)
               /\ \A k \in 1 .. Len(parts) : g[k] = Replace(g[k - 1], parts[k])
      BY <2>1, ReplacementsRun
  <2>3. QED
      BY <2>1, <2>2
<1> DEFINE S == {k \in Nat : /\ Coherent(g[k]) /\ g[k].nextId = doc.nextId
                             /\ Ids(g[k].objects) = Ids(doc.objects)}
<1>5. 0 \in S
    BY <1>4
<1>6. ASSUME NEW k \in 0 .. m - 1, k \in S PROVE k + 1 \in S
  <2>1. k \in Nat /\ k + 1 \in 1 .. m /\ k + 1 \in Nat /\ (k + 1) - 1 = k
      BY <1>2
  <2>2. PICK a, b, object : a = g[k] /\ b = g[k + 1] /\ object = parts[k + 1]
      OBVIOUS
  <2>3. Coherent(a) /\ a.nextId = doc.nextId /\ Ids(a.objects) = Ids(doc.objects)
      BY <1>6, <2>2
  <2>4. object \in Object /\ object.id \in Ids(a.objects)
      BY <1>3, <2>1, <2>2, <2>3
  <2>5. b = Replace(a, object)
      BY <1>4, <2>1, <2>2
  <2>6. Coherent(b) /\ SameRest(b, a) /\ Ids(b.objects) = Ids(a.objects)
      BY <2>3, <2>4, <2>5, ReplaceIs
  <2>7. QED
      BY <2>1, <2>2, <2>3, <2>6 DEF SameRest
<1>7. \A k \in 0 .. m : k \in S
  <2> HIDE DEF S
  <2>1. QED
      BY <1>2, <1>5, <1>6, Rounds
<1>8. Coherent(d) /\ d.nextId = doc.nextId /\ Ids(d.objects) = Ids(doc.objects)
  <2>1. m \in 0 .. m /\ m \in S
    <3> HIDE DEF S
    <3>1. m \in 0 .. m
        BY <1>2
    <3>2. QED
        BY <1>7, <3>1
  <2>2. QED
      BY <1>4, <2>1
<1>9. ASSUME NEW from, ExchangedAlong(old, from, doc.objects) PROVE d.objects = from
  <2>1. PICK s : /\ s[0] = from /\ s[m] = doc.objects
                 /\ \A i \in 1 .. m : Exchanged(s[i - 1], s[i], old[i])
      BY <1>1, <1>9 DEF ExchangedAlong
  <2>2. ASSUME NEW k \in 0 .. m - 1, NEW i \in 1 .. m, i = m - k /\ g[k].objects = s[i]
        PROVE  g[k + 1].objects = s[i - 1]
    <3>1. k \in 0 .. m /\ k + 1 \in 1 .. m /\ (k + 1) - 1 = k
        BY <1>2
    <3>2. PICK a, b, object, before : /\ a = g[k] /\ b = g[k + 1]
                                      /\ object = old[i] /\ before = s[i - 1]
        OBVIOUS
    <3>3. object = parts[k + 1]
        BY <1>2, <2>2, <3>2 DEF IsReversed
    <3>4. Coherent(a) /\ Ids(a.objects) = Ids(doc.objects)
        BY <1>7, <3>1, <3>2
    <3>5. object \in Object /\ object.id \in Ids(a.objects)
        BY <1>3, <3>1, <3>3, <3>4
    <3>6. b = Replace(a, object)
        BY <1>4, <3>1, <3>2, <3>3
    <3>7. Exchanged(before, a.objects, object)
        BY <2>1, <2>2, <3>2
    <3>8. b.objects = before
        BY <3>4, <3>5, <3>6, <3>7, ExchangedBack
    <3>9. QED
        BY <3>2, <3>8
  <2>3. g[m].objects = s[0]
    <3>1. g[0].objects = s[m]
        BY <1>4, <2>1
    <3>2. \A k \in 0 .. m - 1, i \in 1 .. m :
            i = m - k /\ g[k].objects = s[i] => g[k + 1].objects = s[i - 1]
        BY <2>2
    <3>3. QED
        BY <1>2, <3>1, <3>2, WayBack
  <2>4. QED
      BY <1>4, <2>1, <2>3
<1>10. \A from : ExchangedAlong(old, from, doc.objects) => d.objects = from
    BY <1>9
<1>11. QED
    BY <1>8, <1>10

(* The ids of erased objects. *)
ErasedIds(saved) == {saved[i].object.id : i \in 1 .. Len(saved)}

(* What was erased comes back, the last one first. *)
LEMMA ReturnAll ==
    ASSUME NEW doc, Coherent(doc), NEW saved \in Seq(Snapshot),
           \A i, j \in 1 .. Len(saved) : saved[i].object.id = saved[j].object.id => i = j,
           \A i \in 1 .. Len(saved) : saved[i].object.id \notin Ids(doc.objects),
           NEW d, d = AllReturned(doc, Reverse(saved))
    PROVE  /\ Coherent(d) /\ d.nextId = doc.nextId
           /\ Ids(d.objects) = Ids(doc.objects) \cup ErasedIds(saved)
           /\ \A from : RemovedAlong(saved, from, doc.objects) => d.objects = from
<1>1. PICK parts, m : parts = Reverse(saved) /\ m = Len(saved)
    OBVIOUS
<1>2. parts \in Seq(Snapshot) /\ IsReversed(parts, saved, m) /\ m \in Nat /\ Len(parts) = m
  <2>1. parts \in Seq(Snapshot) /\ IsReversed(parts, saved, m)
      BY <1>1, Reversed
  <2>2. QED
      BY <2>1 DEF IsReversed
<1>3. /\ \A k \in 1 .. m : parts[k] \in Snapshot /\ parts[k].object.id \notin Ids(doc.objects)
      /\ \A i, k \in 1 .. m : parts[i].object.id = parts[k].object.id => i = k
      /\ ErasedIds(saved) = {parts[k].object.id : k \in 1 .. m}
  <2>1. \A k \in 1 .. m : \E i \in 1 .. m : parts[k] = saved[i]
      BY <1>2 DEF IsReversed
  <2>2. \A i \in 1 .. m : \E k \in 1 .. m : parts[k] = saved[i]
      BY <1>2 DEF IsReversed
  <2>3. \A k \in 1 .. m : parts[k] \in Snapshot
      BY <1>2, ElementOfSeq
  <2>4. \A k \in 1 .. m : parts[k].object.id \notin Ids(doc.objects)
      BY <1>1, <2>1
  <2>5. ErasedIds(saved) = {parts[k].object.id : k \in 1 .. m}
    <3>1. \A k \in 1 .. m : parts[k].object.id \in ErasedIds(saved)
        BY <1>1, <2>1 DEF ErasedIds
    <3>2. ASSUME NEW id \in ErasedIds(saved) PROVE \E k \in 1 .. m : id = parts[k].object.id
      <4>1. PICK i \in 1 .. m : id = saved[i].object.id
          BY <1>1 DEF ErasedIds
      <4>2. QED
          BY <2>2, <4>1
    <3>3. QED
        BY <3>1, <3>2
  <2>6. ASSUME NEW i \in 1 .. m, NEW k \in 1 .. m, parts[i].object.id = parts[k].object.id
        PROVE  i = k
    <3>1. PICK a, b \in 1 .. m : a = m - i + 1 /\ b = m - k + 1
        BY <1>2 DEF IsReversed
    <3>2. parts[i] = saved[a] /\ parts[k] = saved[b]
        BY <1>2, <3>1 DEF IsReversed
    <3>3. a = b
        BY <1>1, <2>6, <3>2
    <3>4. QED
        BY <1>2, <3>1, <3>3 DEF IsReversed
  <2>7. QED
      BY <2>3, <2>4, <2>5, <2>6
<1>4. PICK g : /\ g[0] = doc /\ g[m] = d
               /\ \A k \in 1 .. m : g[k] = RestoreErased(g[k - 1], parts[k])
  <2>1. d = AllReturned(doc, parts) /\ Len(parts) = m /\ Len(parts) \in Nat
      BY <1>1, <1>2
  <2>2. \E g : /\ g[0] = doc /\ g[Len(parts)] = AllReturned(doc, parts)
               /\ \A k \in 1 .. Len(parts) : g[k] = RestoreErased(g[k - 1], parts[k])
      BY <2>1, ReturnsRun
  <2>3. QED
      BY <2>1, <2>2
<1> DEFINE S == {k \in Nat : /\ Coherent(g[k]) /\ g[k].nextId = doc.nextId
                             /\ Ids(g[k].objects) =
                                  Ids(doc.objects) \cup {parts[i].object.id : i \in 1 .. k}}
<1>5. 0 \in S
  <2>1. {parts[i].object.id : i \in 1 .. 0} = {}
      OBVIOUS
  <2>2. QED
      BY <1>4, <2>1
<1>6. ASSUME NEW k \in 0 .. m - 1, k \in S PROVE k + 1 \in S
  <2>1. /\ k \in Nat /\ k + 1 \in 1 .. m /\ k + 1 \in Nat /\ (k + 1) - 1 = k
        /\ \A i \in 1 .. k + 1 : i = k + 1 \/ i \in 1 .. k
        /\ \A i \in 1 .. k : i \in 1 .. m /\ i # k + 1 /\ i \in 1 .. k + 1
      BY <1>2
  <2>2. PICK a, b, one : a = g[k] /\ b = g[k + 1] /\ one = parts[k + 1]
      OBVIOUS
  <2>3. Coherent(a) /\ a.nextId = doc.nextId
        /\ Ids(a.objects) = Ids(doc.objects) \cup {parts[i].object.id : i \in 1 .. k}
      BY <1>6, <2>2
  <2>4. one \in Snapshot /\ one.object.id \notin Ids(a.objects)
    <3>1. one \in Snapshot /\ one.object.id \notin Ids(doc.objects)
        BY <1>3, <2>1, <2>2
    <3>2. \A i \in 1 .. k : parts[i].object.id # one.object.id
        BY <1>3, <2>1, <2>2
    <3>3. QED
        BY <2>3, <3>1, <3>2
  <2>5. b = RestoreErased(a, one)
      BY <1>4, <2>1, <2>2
  <2>6. Coherent(b) /\ SameRest(b, a) /\ Ids(b.objects) = Ids(a.objects) \cup {one.object.id}
      BY <2>3, <2>4, <2>5, RestoreIs
  <2>7. {parts[i].object.id : i \in 1 .. k + 1} =
            {parts[i].object.id : i \in 1 .. k} \cup {one.object.id}
      BY <2>1, <2>2
  <2>8. Ids(b.objects) = Ids(doc.objects) \cup {parts[i].object.id : i \in 1 .. k + 1}
      BY <2>3, <2>6, <2>7
  <2>9. QED
      BY <2>1, <2>2, <2>3, <2>6, <2>8 DEF SameRest
<1>7. \A k \in 0 .. m : k \in S
  <2> HIDE DEF S
  <2>1. QED
      BY <1>2, <1>5, <1>6, Rounds
<1>8. Coherent(d) /\ d.nextId = doc.nextId
      /\ Ids(d.objects) = Ids(doc.objects) \cup ErasedIds(saved)
  <2>1. m \in 0 .. m /\ m \in S
    <3> HIDE DEF S
    <3>1. m \in 0 .. m
        BY <1>2
    <3>2. QED
        BY <1>7, <3>1
  <2>2. QED
      BY <1>3, <1>4, <2>1
<1>9. ASSUME NEW from, RemovedAlong(saved, from, doc.objects) PROVE d.objects = from
  <2>1. PICK s : /\ s[0] = from /\ s[m] = doc.objects
                 /\ \A i \in 1 .. m : Removed(s[i - 1], s[i], saved[i])
      BY <1>1, <1>9 DEF RemovedAlong
  <2>2. ASSUME NEW k \in 0 .. m - 1, NEW i \in 1 .. m, i = m - k /\ g[k].objects = s[i]
        PROVE  g[k + 1].objects = s[i - 1]
    <3>1. k \in 0 .. m /\ k + 1 \in 1 .. m /\ (k + 1) - 1 = k /\ k \in Nat
          /\ \A j \in 1 .. k : j \in 1 .. m /\ j # k + 1
        BY <1>2
    <3>2. PICK a, b, one, before : /\ a = g[k] /\ b = g[k + 1]
                                   /\ one = saved[i] /\ before = s[i - 1]
        OBVIOUS
    <3>3. one = parts[k + 1]
        BY <1>2, <2>2, <3>2 DEF IsReversed
    <3>4. Coherent(a)
          /\ Ids(a.objects) = Ids(doc.objects) \cup {parts[j].object.id : j \in 1 .. k}
        BY <1>7, <3>1, <3>2
    <3>5. one \in Snapshot /\ one.object.id \notin Ids(a.objects)
        BY <1>3, <3>1, <3>3, <3>4
    <3>6. b = RestoreErased(a, one)
        BY <1>4, <3>1, <3>2, <3>3
    <3>7. Removed(before, a.objects, one)
        BY <2>1, <2>2, <3>2
    <3>8. b.objects = before
      <4>1. Coherent(a)
          BY <3>4
      <4>2. QED
          BY ONLY <3>5, <3>6, <3>7, <4>1, RemovedBack
    <3>9. QED
        BY <3>2, <3>8
  <2>3. g[m].objects = s[0]
    <3>1. g[0].objects = s[m]
        BY <1>4, <2>1
    <3>2. \A k \in 0 .. m - 1, i \in 1 .. m :
            i = m - k /\ g[k].objects = s[i] => g[k + 1].objects = s[i - 1]
        BY <2>2
    <3>3. QED
        BY <1>2, <3>1, <3>2, WayBack
  <2>4. QED
      BY <1>4, <2>1, <2>3
<1>10. \A from : RemovedAlong(saved, from, doc.objects) => d.objects = from
    BY <1>9
<1>11. QED
    BY <1>8, <1>10

(***************************************************************************)
(* A whole change and a whole undo.                                        *)
(***************************************************************************)
(* What of a record is fit to be undone, the numbers among its ids below   *)
(* the next one to be allocated.                                           *)
Kept(record, limit) ==
    /\ record.inserted \in Seq(Object) /\ Unique(record.inserted)
    /\ record.updated \in Seq(Object)
    /\ Ids(record.inserted) \cap Ids(record.updated) = {}
    /\ record.erased \in Seq(Snapshot)
    /\ \A i, j \in 1 .. Len(record.erased) :
         record.erased[i].object.id = record.erased[j].object.id => i = j
    /\ \A id \in ErasedIds(record.erased) : id \in Nat => id < limit

(* Undoing it is possible now, and leads to the contents before. *)
LeadsBack(record, now, before) ==
    /\ Ids(record.inserted) \cup Ids(record.updated) \subseteq Ids(now)
    /\ ErasedIds(record.erased) \cap Ids(now) = {}
    /\ \E m, n : /\ RemovedAlong(record.erased, before, m)
                 /\ ExchangedAlong(record.updated, m, n)
                 /\ AddedAlong(record.inserted, n, now)

Below(ids, limit) == \A id \in ids : id \in Nat => id < limit

(* Clients choose no id that the document allocates. *)
NamesApart ==
    \A change \in Changes : \A i \in 1 .. Len(change.inserts) :
        change.inserts[i].id \notin Nat

DocumentInv ==
    /\ objects \in Seq(Object) /\ Unique(objects) /\ Leads(index, objects)
    /\ nextId \in Nat /\ Below(Ids(objects), nextId)

LEMMA CurrentIs ==
    ASSUME DocumentInv, NEW doc, doc = Current
    PROVE  /\ Coherent(doc) /\ doc.objects = objects /\ doc.index = index
           /\ doc.nextId = nextId /\ doc.erased = << >> /\ doc.updated = << >>
           /\ doc.inserted = << >>
BY DEF DocumentInv, Current, Coherent, IsDoc

(* What Valid says, by the places of the parts. *)
LEMMA ValidIs ==
    ASSUME DocumentInv, NamesApart, NEW change \in Changes, Valid(change)
    PROVE  /\ Len(change.erases) \in Nat /\ Len(change.updates) \in Nat
           /\ Len(change.inserts) \in Nat
           /\ \A i, j \in 1 .. Len(change.erases) :
                change.erases[i] = change.erases[j] => i = j
           /\ \A i \in 1 .. Len(change.erases) : change.erases[i] \in Ids(objects)
           /\ \A i \in 1 .. Len(change.updates) :
                /\ change.updates[i] \in Object /\ change.updates[i].id \in Ids(objects)
                /\ \A j \in 1 .. Len(change.erases) : change.updates[i].id # change.erases[j]
           /\ Free(change.inserts, Ids(objects) \cup {n \in Nat : n < nextId})
<1>1. PICK erases, updates, inserts : /\ erases = change.erases /\ updates = change.updates
                                      /\ inserts = change.inserts
    OBVIOUS
<1>2. /\ erases \in Seq(Names) /\ updates \in Seq([id : Names, data : Data])
      /\ inserts \in Seq([id : Names \cup {NoId}, data : Data])
    BY <1>1, ChangesAssumption
<1>3. Len(erases) \in Nat /\ DOMAIN erases = 1 .. Len(erases)
      /\ Len(updates) \in Nat /\ DOMAIN updates = 1 .. Len(updates)
      /\ Len(inserts) \in Nat /\ DOMAIN inserts = 1 .. Len(inserts)
    BY <1>2, LenProperties
<1>4. \A id : Exists(id) <=> id \in Ids(objects)
    BY DEF Exists, DocumentInv, Leads
<1>5. /\ \A i, j \in 1 .. Len(erases) : erases[i] = erases[j] => i = j
      /\ \A i \in 1 .. Len(erases) : erases[i] \in Ids(objects)
    BY <1>1, <1>3, <1>4 DEF Valid, IsInjective, ToSet
<1>6. ASSUME NEW i \in 1 .. Len(updates)
      PROVE  /\ updates[i] \in Object /\ updates[i].id \in Ids(objects)
             /\ \A j \in 1 .. Len(erases) : updates[i].id # erases[j]
  <2>1. updates[i] \in [id : Names, data : Data]
      BY <1>2, ElementOfSeq
  <2>2. updates[i] \in Object
      BY <2>1 DEF Object
  <2>3. Exists(updates[i].id) /\ updates[i].id \notin ToSet(erases)
      BY <1>1, <1>3 DEF Valid, ToSet
  <2>4. QED
      BY <1>3, <1>4, <2>2, <2>3 DEF ToSet
<1>7. Free(inserts, Ids(objects) \cup {n \in Nat : n < nextId})
  <2>1. ASSUME NEW i \in 1 .. Len(inserts)
        PROVE  /\ inserts[i] \in [id : Names \cup {NoId}, data : Data]
               /\ inserts[i].id \notin Nat
               /\ inserts[i].id # NoId => inserts[i].id \notin Ids(objects)
    <3>1. inserts[i] \in [id : Names \cup {NoId}, data : Data]
        BY <1>2, ElementOfSeq
    <3>2. inserts[i].id \notin Nat
        BY <1>1 DEF NamesApart
    <3>3. inserts[i].id # NoId => ~Exists(inserts[i].id)
        BY <1>1 DEF Valid
    <3>4. QED
        BY <1>4, <3>1, <3>2, <3>3
  <2>2. \A i, j \in 1 .. Len(inserts) :
          inserts[i].id # NoId /\ inserts[i].id = inserts[j].id => i = j
      BY <1>1 DEF Valid
  <2>3. QED
      BY <2>1, <2>2 DEF Free
<1>8. QED
    BY <1>1, <1>3, <1>5, <1>6, <1>7

(* Apply makes a coherent document, and snapshots that lead back. *)
LEMMA ChangeApplied ==
    ASSUME DocumentInv, NamesApart, NEW change \in Changes, Valid(change),
           NEW d, d = Apply(change)
    PROVE  /\ Coherent(d) /\ d.nextId \in Nat /\ Below(Ids(d.objects), d.nextId)
           /\ \A n \in Nat : n < nextId => n < d.nextId
           /\ Kept(d, d.nextId) /\ LeadsBack(d, d.objects, objects)
<1>1. PICK a, e, u : /\ a = Current /\ e = AllErased(a, change.erases)
                     /\ u = AllUpdated(e, change.updates)
    OBVIOUS
<1>2. d = AllInserted(u, change.inserts)
    BY <1>1, ChangeIs
<1>3. /\ Coherent(a) /\ a.objects = objects /\ a.nextId = nextId
      /\ a.erased = << >> /\ a.updated = << >> /\ a.inserted = << >>
    BY <1>1, CurrentIs
<1>4. PICK erases, updates, inserts : /\ erases = change.erases /\ updates = change.updates
                                      /\ inserts = change.inserts
    OBVIOUS
<1>5. /\ Len(erases) \in Nat /\ Len(updates) \in Nat /\ Len(inserts) \in Nat
      /\ \A i, j \in 1 .. Len(erases) : erases[i] = erases[j] => i = j
      /\ \A i \in 1 .. Len(erases) : erases[i] \in Ids(objects)
      /\ \A i \in 1 .. Len(updates) :
           /\ updates[i] \in Object /\ updates[i].id \in Ids(objects)
           /\ \A j \in 1 .. Len(erases) : updates[i].id # erases[j]
      /\ Free(inserts, Ids(objects) \cup {n \in Nat : n < nextId})
    BY <1>4, ValidIs
<1>6. /\ Coherent(e) /\ e.nextId = nextId /\ e.updated = << >> /\ e.inserted = << >>
      /\ Ids(e.objects) = Ids(objects) \ {erases[i] : i \in 1 .. Len(erases)}
      /\ e.erased \in Seq(Snapshot) /\ Len(e.erased) = Len(erases)
      /\ \A i \in 1 .. Len(erases) : e.erased[i].object.id = erases[i]
      /\ RemovedAlong(e.erased, objects, e.objects)
  <2>1. e = AllErased(a, erases)
      BY <1>1, <1>4
  <2>2. \A i \in 1 .. Len(erases) : erases[i] \in Ids(a.objects)
      BY <1>3, <1>5
  <2>3. Coherent(a) /\ a.erased = << >> /\ Len(erases) \in Nat
        /\ \A i, j \in 1 .. Len(erases) : erases[i] = erases[j] => i = j
      BY <1>3, <1>5
  <2>4. /\ Coherent(e) /\ e.nextId = a.nextId /\ e.updated = a.updated /\ e.inserted = a.inserted
        /\ Ids(e.objects) = Ids(a.objects) \ {erases[i] : i \in 1 .. Len(erases)}
        /\ e.erased \in Seq(Snapshot) /\ Len(e.erased) = Len(erases)
        /\ \A i \in 1 .. Len(erases) : e.erased[i].object.id = erases[i]
        /\ RemovedAlong(e.erased, a.objects, e.objects)
      BY ONLY <2>3, <2>1, <2>2, EraseAll
  <2>5. QED
      BY <1>3, <2>4
<1>7. /\ Coherent(u) /\ u.nextId = nextId /\ u.erased = e.erased /\ u.inserted = << >>
      /\ Ids(u.objects) = Ids(e.objects)
      /\ u.updated \in Seq(Object) /\ Len(u.updated) = Len(updates)
      /\ \A i \in 1 .. Len(updates) : u.updated[i].id = updates[i].id
      /\ ExchangedAlong(u.updated, e.objects, u.objects)
  <2>1. u = AllUpdated(e, updates)
      BY <1>1, <1>4
  <2>2. \A i \in 1 .. Len(updates) : updates[i] \in Object /\ updates[i].id \in Ids(e.objects)
      BY <1>5, <1>6
  <2>3. /\ Coherent(u) /\ u.nextId = e.nextId /\ u.erased = e.erased /\ u.inserted = e.inserted
        /\ Ids(u.objects) = Ids(e.objects)
        /\ u.updated \in Seq(Object) /\ Len(u.updated) = Len(updates)
        /\ \A i \in 1 .. Len(updates) : u.updated[i].id = updates[i].id
        /\ ExchangedAlong(u.updated, e.objects, u.objects)
      BY <1>5, <1>6, <2>1, <2>2, UpdateAll
  <2>4. QED
      BY <1>6, <2>3
<1>8. PICK taken : taken = Ids(objects) \cup {n \in Nat : n < nextId}
    OBVIOUS
<1>9. /\ Coherent(d) /\ d.erased = u.erased /\ d.updated = u.updated
      /\ d.nextId \in Nat /\ \A id \in taken \cup Ids(d.objects) : id \in Nat => id < d.nextId
      /\ Ids(d.objects) = Ids(u.objects) \cup Ids(d.inserted)
      /\ d.inserted \in Seq(Object) /\ Unique(d.inserted)
      /\ Ids(d.inserted) \cap taken = {}
      /\ AddedAlong(d.inserted, u.objects, d.objects)
  <2>1. d = AllInserted(u, inserts)
      BY <1>2, <1>4
  <2>2. u.nextId \in Nat /\ Ids(u.objects) \subseteq taken
        /\ \A id \in taken : id \in Nat => id < u.nextId
      BY <1>6, <1>7, <1>8 DEF DocumentInv, Below
  <2>3. Coherent(u) /\ u.inserted = << >> /\ Len(inserts) \in Nat /\ Free(inserts, taken)
      BY <1>5, <1>7, <1>8
  <2>4. InsertsAll(u, taken, d)
      BY <2>1, <2>2, <2>3, InsertAll
  <2>5. QED
      BY <2>4 DEF InsertsAll
<1>10. ErasedIds(d.erased) = {erases[i] : i \in 1 .. Len(erases)}
       /\ ErasedIds(d.erased) \subseteq Ids(objects)
  <2>1. d.erased = e.erased
      BY <1>7, <1>9
  <2>2. Len(d.erased) = Len(erases) /\ \A i \in 1 .. Len(erases) : d.erased[i].object.id = erases[i]
      BY <1>6, <2>1
  <2>3. ErasedIds(d.erased) = {erases[i] : i \in 1 .. Len(erases)}
      BY <2>2 DEF ErasedIds
  <2>4. \A i \in 1 .. Len(erases) : erases[i] \in Ids(objects)
      BY <1>5
  <2>5. QED
      BY ONLY <2>3, <2>4
<1>11. Ids(d.updated) \subseteq Ids(e.objects)
  <2>1. \A i \in 1 .. Len(updates) : updates[i].id \in Ids(e.objects)
      BY <1>5, <1>6
  <2>2. \A i \in 1 .. Len(u.updated) : u.updated[i].id \in Ids(e.objects)
      BY <1>7, <2>1
  <2>3. Ids(u.updated) \subseteq Ids(e.objects)
      BY ONLY <2>2 DEF Ids
  <2>4. QED
      BY <1>9, <2>3
<1>12. Kept(d, d.nextId)
  <2>1. \A i, j \in 1 .. Len(d.erased) :
          d.erased[i].object.id = d.erased[j].object.id => i = j
      BY <1>5, <1>6, <1>7, <1>9
  <2>2. Ids(d.inserted) \cap Ids(d.updated) = {}
      BY <1>6, <1>8, <1>9, <1>11
  <2>3. \A id \in ErasedIds(d.erased) : id \in Nat => id < d.nextId
      BY <1>8, <1>9, <1>10
  <2>4. QED
      BY <1>6, <1>7, <1>9, <2>1, <2>2, <2>3 DEF Kept
<1>13. LeadsBack(d, d.objects, objects)
  <2>1. Ids(d.inserted) \cup Ids(d.updated) \subseteq Ids(d.objects)
      BY <1>7, <1>9, <1>11
  <2>2. ErasedIds(d.erased) \cap Ids(d.objects) = {}
      BY <1>6, <1>7, <1>8, <1>9, <1>10
  <2>3. RemovedAlong(d.erased, objects, e.objects)
        /\ ExchangedAlong(d.updated, e.objects, u.objects)
        /\ AddedAlong(d.inserted, u.objects, d.objects)
      BY <1>6, <1>7, <1>9
  <2>4. QED
      BY <2>1, <2>2, <2>3 DEF LeadsBack
<1>14. QED
    BY <1>8, <1>9, <1>12, <1>13 DEF Below

(* UndoAppliedChange makes a coherent document, with the contents to which *)
(* the record leads back.                                                  *)
LEMMA UndoApplied ==
    ASSUME NEW doc, Coherent(doc), NEW record, Kept(record, doc.nextId),
           Ids(record.inserted) \cup Ids(record.updated) \subseteq Ids(doc.objects),
           ErasedIds(record.erased) \cap Ids(doc.objects) = {},
           NEW d, d = UndoAppliedChange(doc, record)
    PROVE  /\ Coherent(d) /\ d.nextId = doc.nextId
           /\ Ids(d.objects) \subseteq Ids(doc.objects) \cup ErasedIds(record.erased)
           /\ \A before : LeadsBack(record, doc.objects, before) => d.objects = before
<1>1. PICK inserted, updated, erased :
           inserted = record.inserted /\ updated = record.updated /\ erased = record.erased
    OBVIOUS
<1>2. PICK t, e : t = AllTaken(doc, Reverse(inserted)) /\ e = AllReplaced(t, Reverse(updated))
    OBVIOUS
<1>3. d = AllReturned(e, Reverse(erased))
    BY <1>1, <1>2, UndoIs
<1>4. /\ inserted \in Seq(Object) /\ Unique(inserted) /\ updated \in Seq(Object)
      /\ Ids(inserted) \cap Ids(updated) = {} /\ erased \in Seq(Snapshot)
      /\ \A i, j \in 1 .. Len(erased) : erased[i].object.id = erased[j].object.id => i = j
    BY <1>1 DEF Kept
<1>5. /\ Coherent(t) /\ t.nextId = doc.nextId
      /\ Ids(t.objects) = Ids(doc.objects) \ Ids(inserted)
      /\ \A from : AddedAlong(inserted, from, doc.objects) => t.objects = from
  <2>1. Ids(inserted) \subseteq Ids(doc.objects)
      BY <1>1
  <2>2. QED
      BY <1>2, <1>4, <2>1, TakeAll
<1>6. /\ Coherent(e) /\ e.nextId = t.nextId /\ Ids(e.objects) = Ids(t.objects)
      /\ \A from : ExchangedAlong(updated, from, t.objects) => e.objects = from
  <2>1. Ids(updated) \subseteq Ids(t.objects)
      BY <1>1, <1>4, <1>5
  <2>2. QED
      BY <1>2, <1>4, <1>5, <2>1, ExchangeAll
<1>7. /\ Coherent(d) /\ d.nextId = e.nextId
      /\ Ids(d.objects) = Ids(e.objects) \cup ErasedIds(erased)
      /\ \A from : RemovedAlong(erased, from, e.objects) => d.objects = from
  <2>1. \A i \in 1 .. Len(erased) : erased[i].object.id \notin Ids(e.objects)
      BY <1>1, <1>5, <1>6 DEF ErasedIds
  <2>2. QED
      BY <1>3, <1>4, <1>6, <2>1, ReturnAll
<1>8. ASSUME NEW before, LeadsBack(record, doc.objects, before) PROVE d.objects = before
  <2>1. PICK m, n : /\ RemovedAlong(erased, before, m) /\ ExchangedAlong(updated, m, n)
                    /\ AddedAlong(inserted, n, doc.objects)
      BY <1>1, <1>8 DEF LeadsBack
  <2>2. t.objects = n
      BY <1>5, <2>1
  <2>3. e.objects = m
      BY <1>6, <2>1, <2>2
  <2>4. QED
      BY <1>7, <2>1, <2>3
<1>9. QED
    BY <1>1, <1>5, <1>6, <1>7, <1>8

(***************************************************************************)
(* The invariant of the document and the records of its runtimes.          *)
(***************************************************************************)
Record == [undoFrom : Nat, inserted : Seq(Object), updated : Seq(Object),
           erased : Seq(Snapshot)]

RecordsInv ==
    /\ records \in [Runtimes -> Seq(Record)]
    /\ \A r \in Runtimes : \A k \in 1 .. Len(records[r]) : Kept(records[r][k], nextId)

PendingInv ==
    /\ DOMAIN pending = Clients
    /\ \A c \in Clients : pending[c] # None => pending[c].change \in Changes

IndexInv == version \in Nat /\ DocumentInv /\ RecordsInv /\ PendingInv

(* An effective commit, and what a refused one and Prepare leave alone. *)
CommitsTo(r, d) ==
    /\ Become(d) /\ version' = version + 1
    /\ records' = [records EXCEPT ![r] = Append(@,
         [undoFrom |-> version + 1, inserted |-> d.inserted,
          updated |-> d.updated, erased |-> d.erased])]
    /\ log' = Append(log, [by |-> r, found |-> objects])

UndoesTo(r, d) ==
    /\ records[r] # << >> /\ Become(d) /\ version' = version + 1
    /\ Last(records[r]).undoFrom = version /\ ValidUndo(Last(records[r]))
    /\ records' = [records EXCEPT ![r] = Popped(@, version + 1)]
    /\ log' = Forgotten(r) /\ UNCHANGED pending

LEMMA PrepareIs ==
    ASSUME PendingInv, NEW c \in Clients, NEW change \in Changes, Prepare(c, change)
    PROVE  PendingInv' /\ UNCHANGED <<document, records, log>>
<1>1. PICK request : request = [base |-> version, change |-> change, seen |-> objects]
    OBVIOUS
<1>2. pending' = [pending EXCEPT ![c] = request] /\ UNCHANGED <<document, records, log>>
    BY <1>1 DEF Prepare
<1>3. request.change = change
    BY <1>1
<1>4. QED
    BY <1>2, <1>3 DEF PendingInv

(* A commit, accepted or refused. *)
LEMMA CommitIs ==
    ASSUME PendingInv, NEW c \in Clients, NEW r \in Runtimes, Commit(c, r)
    PROVE  /\ PendingInv'
           /\ \/ UNCHANGED <<document, records, log>>
              \/ \E change \in Changes : Valid(change) /\ CommitsTo(r, Apply(change))
<1>1. pending[c] # None /\ pending' = [pending EXCEPT ![c] = None]
    BY DEF Commit
<1>2. PendingInv'
    BY <1>1 DEF PendingInv
<1>3. PICK change : change = pending[c].change
    OBVIOUS
<1>4. change \in Changes
    BY <1>1, <1>3 DEF PendingInv
<1>5. \/ UNCHANGED <<document, records, log>>
      \/ Valid(change) /\ CommitsTo(r, Apply(change))
    BY <1>3 DEF Commit, CommitsTo
<1>6. QED
    BY <1>2, <1>4, <1>5

(* An undo. *)
LEMMA UndoStepIs ==
    ASSUME NEW r \in Runtimes, UndoLast(r)
    PROVE  UndoesTo(r, UndoAppliedChange(Current, Last(records[r])))
BY DEF UndoLast, UndoesTo, UndoneVersion

(* The document becomes the result of a change or an undo. *)
LEMMA BecomesCoherent ==
    ASSUME NEW d, Coherent(d), d.nextId \in Nat, Below(Ids(d.objects), d.nextId), Become(d)
    PROVE  DocumentInv'
<1>1. objects' = d.objects /\ index' = d.index /\ nextId' = d.nextId
    BY DEF Become
<1>2. /\ objects' \in Seq(Object) /\ Unique(objects') /\ Leads(index', objects')
      /\ nextId' \in Nat /\ Below(Ids(objects'), nextId')
    BY <1>1 DEF Coherent
<1>3. QED
    BY <1>2 DEF DocumentInv

(* The records without the last one. *)
LEMMA PoppedIs ==
    ASSUME NEW recs \in Seq(Record), recs # << >>, NEW v \in Nat,
           NEW rest, rest = Popped(recs, v)
    PROVE  /\ rest \in Seq(Record) /\ Len(rest) = Len(recs) - 1
           /\ \A i \in 1 .. Len(rest) :
                /\ i \in 1 .. Len(recs) /\ i # Len(recs)
                /\ rest[i].inserted = recs[i].inserted
                /\ rest[i].updated = recs[i].updated
                /\ rest[i].erased = recs[i].erased
           /\ rest # << >> => Last(rest).undoFrom = v
<1>1. PICK s, n : s = Front(recs) /\ n = Len(recs)
    OBVIOUS
<1>2. n \in Nat /\ n # 0
    BY <1>1, LenProperties, EmptySeq
<1>3. s \in Seq(Record) /\ Len(s) = n - 1 /\ \A i \in 1 .. n - 1 : s[i] = recs[i]
    BY <1>1, <1>2 DEF Front
<1>4. \A i \in 1 .. n - 1 : i \in 1 .. n /\ i # n
    BY <1>2
<1>5. CASE s = << >>
  <2>1. rest = s
      BY <1>1, <1>5 DEF Popped
  <2>2. QED
      BY <1>1, <1>3, <1>4, <1>5, <2>1
<1>6. CASE s # << >>
  <2>1. PICK k : k = Len(s)
      OBVIOUS
  <2>2. k \in 1 .. Len(s) /\ k = n - 1
      BY <1>2, <1>3, <1>6, <2>1, EmptySeq
  <2>3. PICK one : one = [s[k] EXCEPT !.undoFrom = v]
      OBVIOUS
  <2>4. s[k] \in Record
      BY <1>3, <2>2, ElementOfSeq
  <2>5. /\ one \in Record /\ one.undoFrom = v /\ one.inserted = s[k].inserted
        /\ one.updated = s[k].updated /\ one.erased = s[k].erased
      BY <2>3, <2>4 DEF Record
  <2>6. rest = [s EXCEPT ![k] = one]
      BY <1>1, <1>6, <2>1, <2>3 DEF Popped
  <2>7. rest \in Seq(Record) /\ Len(rest) = Len(s)
        /\ \A i \in 1 .. Len(s) : rest[i] = IF i = k THEN one ELSE s[i]
      BY <1>3, <2>2, <2>5, <2>6, ExceptSeq
  <2>8. Last(rest) = one
      BY <2>1, <2>2, <2>7 DEF Last
  <2>9. QED
      BY <1>1, <1>3, <1>4, <2>2, <2>5, <2>7, <2>8
<1>7. QED
    BY <1>5, <1>6

LEMMA SameKept ==
    ASSUME NEW a, NEW b, b.inserted = a.inserted, b.updated = a.updated, b.erased = a.erased
    PROVE  /\ \A limit : Kept(a, limit) => Kept(b, limit)
           /\ \A now, before : LeadsBack(a, now, before) => LeadsBack(b, now, before)
BY DEF Kept, LeadsBack

LEMMA KeptLonger ==
    ASSUME NEW record, NEW m, NEW n, Kept(record, m), \A k \in Nat : k < m => k < n
    PROVE  Kept(record, n)
BY DEF Kept

(* A commit adds a record that is fit to be undone. *)
LEMMA CommitKeepsRecords ==
    ASSUME IndexInv, NamesApart, NEW r \in Runtimes, NEW change \in Changes, Valid(change),
           NEW d, d = Apply(change), CommitsTo(r, d)
    PROVE  version' \in Nat /\ DocumentInv' /\ RecordsInv'
<1>1. /\ Coherent(d) /\ d.nextId \in Nat /\ Below(Ids(d.objects), d.nextId)
      /\ \A n \in Nat : n < nextId => n < d.nextId
      /\ Kept(d, d.nextId)
    BY ChangeApplied DEF IndexInv
<1>2. version' \in Nat /\ nextId' = d.nextId
    BY DEF CommitsTo, IndexInv, Become
<1>3. DocumentInv'
    BY <1>1, BecomesCoherent DEF CommitsTo
<1>4. PICK one : one = [undoFrom |-> version + 1, inserted |-> d.inserted,
                        updated |-> d.updated, erased |-> d.erased]
    OBVIOUS
<1>5. one.inserted = d.inserted /\ one.updated = d.updated /\ one.erased = d.erased
    BY <1>4
<1>6. one \in Record
    BY <1>1, <1>4 DEF Record, Kept, IndexInv
<1>7. Kept(one, nextId')
    BY <1>1, <1>2, <1>5, SameKept
<1>8. records' = [records EXCEPT ![r] = Append(records[r], one)]
      /\ records \in [Runtimes -> Seq(Record)]
    BY <1>4 DEF CommitsTo, IndexInv, RecordsInv
<1>9. PICK old, new : old = records[r] /\ new = Append(old, one)
    OBVIOUS
<1>10. old \in Seq(Record) /\ new \in Seq(Record) /\ new[Len(old) + 1] = one
       /\ \A i \in 1 .. Len(new) : i = Len(old) + 1 \/ (i \in 1 .. Len(old) /\ new[i] = old[i])
  <2>1. old \in Seq(Record) /\ Len(old) \in Nat
      BY <1>8, <1>9, LenProperties
  <2>2. new \in Seq(Record) /\ Len(new) = Len(old) + 1 /\ new[Len(old) + 1] = one
        /\ \A i \in 1 .. Len(old) : new[i] = old[i]
      BY <1>6, <1>9, <2>1, AppendProperties
  <2>3. QED
      BY <2>1, <2>2
<1>11. records' \in [Runtimes -> Seq(Record)] /\ records'[r] = new
       /\ \A q \in Runtimes : q # r => records'[q] = records[q]
    BY <1>8, <1>9, <1>10
<1>12. \A q \in Runtimes : \A k \in 1 .. Len(records[q]) : Kept(records[q][k], nextId')
    BY <1>1, <1>2, KeptLonger DEF IndexInv, RecordsInv
<1>13. \A q \in Runtimes : \A k \in 1 .. Len(records'[q]) : Kept(records'[q][k], nextId')
  <2> SUFFICES ASSUME NEW q \in Runtimes, NEW k \in 1 .. Len(records'[q])
               PROVE  Kept(records'[q][k], nextId')
      OBVIOUS
  <2>1. CASE q # r
      BY <1>11, <1>12, <2>1
  <2>2. CASE q = r
    <3>1. k \in 1 .. Len(new) /\ records'[q][k] = new[k]
        BY <1>11, <2>2
    <3>2. k = Len(old) + 1 \/ (k \in 1 .. Len(old) /\ new[k] = old[k])
        BY <1>10, <3>1
    <3>3. QED
        BY <1>7, <1>9, <1>10, <1>12, <2>2, <3>1, <3>2
  <2>3. QED
      BY <2>1, <2>2
<1>14. QED
    BY <1>2, <1>3, <1>11, <1>13 DEF RecordsInv

(* The last record of a runtime is fit to be undone when ValidUndo says so. *)
LEMMA LastRecord ==
    ASSUME IndexInv, NEW r \in Runtimes, records[r] # << >>
    PROVE  /\ Len(records[r]) \in 1 .. Len(records[r])
           /\ Last(records[r]) = records[r][Len(records[r])]
           /\ Kept(Last(records[r]), nextId)
<1>1. records[r] \in Seq(Record)
    BY DEF IndexInv, RecordsInv
<1>2. Len(records[r]) \in 1 .. Len(records[r])
    BY <1>1, LenProperties, EmptySeq
<1>3. Last(records[r]) = records[r][Len(records[r])]
    BY DEF Last
<1>4. Kept(Last(records[r]), nextId)
    BY <1>2, <1>3 DEF IndexInv, RecordsInv
<1>5. QED
    BY <1>2, <1>3, <1>4

(* The checks of an undo succeed where its record leads back. *)
LEMMA ValidUndoIs ==
    ASSUME DocumentInv, NEW record, record.erased \in Seq(Snapshot)
    PROVE  ValidUndo(record) <=>
             /\ Ids(record.inserted) \cup Ids(record.updated) \subseteq Ids(objects)
             /\ ErasedIds(record.erased) \cap Ids(objects) = {}
<1>1. \A id : Exists(id) <=> id \in Ids(objects)
    BY DEF Exists, DocumentInv, Leads
<1>2. DOMAIN record.erased = 1 .. Len(record.erased)
    BY LenProperties
<1>3. (\A saved \in ToSet(record.erased) : ~Exists(saved.object.id)) <=>
          ErasedIds(record.erased) \cap Ids(objects) = {}
    BY <1>1, <1>2 DEF ToSet, ErasedIds
<1>4. QED
    BY <1>1, <1>3 DEF ValidUndo

(* An undo leaves the records below fit to be undone. *)
LEMMA UndoKeepsRecords ==
    ASSUME IndexInv, NEW r \in Runtimes, NEW last, last = Last(records[r]),
           NEW d, d = UndoAppliedChange(Current, last), UndoesTo(r, d)
    PROVE  /\ version' \in Nat /\ DocumentInv' /\ RecordsInv' /\ PendingInv'
           /\ \A before : LeadsBack(last, objects, before) => objects' = before
<1>1. PICK doc : doc = Current
    OBVIOUS
<1>2. Coherent(doc) /\ doc.objects = objects /\ doc.nextId = nextId
    BY <1>1, CurrentIs DEF IndexInv
<1>3. records[r] # << >> /\ Kept(last, nextId) /\ ValidUndo(last)
    BY LastRecord DEF UndoesTo
<1>4. /\ Ids(last.inserted) \cup Ids(last.updated) \subseteq Ids(doc.objects)
      /\ ErasedIds(last.erased) \cap Ids(doc.objects) = {}
  <2>1. last.erased \in Seq(Snapshot)
      BY <1>3 DEF Kept
  <2>2. QED
      BY <1>2, <1>3, <2>1, ValidUndoIs DEF IndexInv
<1>5. /\ Coherent(d) /\ d.nextId = doc.nextId
      /\ Ids(d.objects) \subseteq Ids(doc.objects) \cup ErasedIds(last.erased)
      /\ \A before : LeadsBack(last, doc.objects, before) => d.objects = before
  <2>1. Kept(last, doc.nextId)
      BY <1>2, <1>3
  <2>2. d = UndoAppliedChange(doc, last)
      BY <1>1
  <2>3. QED
      BY ONLY <1>2, <1>4, <2>1, <2>2, UndoApplied
<1>6. objects' = d.objects /\ nextId' = nextId /\ Become(d)
    BY <1>2, <1>5 DEF UndoesTo, Become
<1>7. DocumentInv'
  <2>1. d.nextId \in Nat /\ Below(Ids(objects), d.nextId)
      BY <1>2, <1>5 DEF IndexInv, DocumentInv
  <2>2. Below(ErasedIds(last.erased), d.nextId)
      BY <1>2, <1>3, <1>5 DEF Kept, Below
  <2>3. Below(Ids(d.objects), d.nextId)
      BY <1>2, <1>5, <2>1, <2>2 DEF Below
  <2>4. QED
      BY <1>5, <1>6, <2>1, <2>3, BecomesCoherent
<1>8. PICK old, new : old = records[r] /\ new = Popped(old, version + 1)
    OBVIOUS
<1>9. records' = [records EXCEPT ![r] = new] /\ records \in [Runtimes -> Seq(Record)]
      /\ old \in Seq(Record) /\ old # << >> /\ version + 1 \in Nat
    BY <1>3, <1>8 DEF UndoesTo, IndexInv, RecordsInv
<1>10. new \in Seq(Record)
       /\ \A i \in 1 .. Len(new) :
            /\ i \in 1 .. Len(old) /\ new[i].inserted = old[i].inserted
            /\ new[i].updated = old[i].updated /\ new[i].erased = old[i].erased
    BY <1>8, <1>9, PoppedIs
<1>11. records' \in [Runtimes -> Seq(Record)] /\ records'[r] = new
       /\ \A q \in Runtimes : q # r => records'[q] = records[q]
    BY <1>9, <1>10
<1>12. RecordsInv'
  <2>1. \A q \in Runtimes : \A k \in 1 .. Len(records[q]) : Kept(records[q][k], nextId')
      BY <1>6 DEF IndexInv, RecordsInv
  <2>2. ASSUME NEW q \in Runtimes, NEW k \in 1 .. Len(records'[q])
        PROVE  Kept(records'[q][k], nextId')
    <3>1. CASE q # r
        BY <1>11, <2>1, <3>1
    <3>2. CASE q = r
      <4>1. k \in 1 .. Len(new) /\ records'[q][k] = new[k]
          BY <1>11, <3>2
      <4>2. PICK a, b : a = old[k] /\ b = new[k]
          OBVIOUS
      <4>3. k \in 1 .. Len(old) /\ b.inserted = a.inserted /\ b.updated = a.updated
            /\ b.erased = a.erased
          BY <1>10, <4>1, <4>2
      <4>4. Kept(a, nextId')
          BY <1>8, <2>1, <4>2, <4>3
      <4>5. Kept(b, nextId')
          BY <4>3, <4>4, SameKept
      <4>6. QED
          BY <4>1, <4>2, <4>5
    <3>3. QED
        BY <3>1, <3>2
  <2>3. QED
      BY <1>11, <2>2 DEF RecordsInv
<1>13. PendingInv' /\ version' \in Nat
    BY <1>9 DEF UndoesTo, IndexInv, PendingInv
<1>14. QED
    BY <1>2, <1>5, <1>6, <1>7, <1>12, <1>13

LEMMA IndexInvKept ==
    ASSUME IndexInv, NamesApart, [Next]_vars
    PROVE  IndexInv'
<1>1. ASSUME NEW c \in Clients, NEW change \in Changes, Prepare(c, change) PROVE IndexInv'
  <2>1. PendingInv' /\ UNCHANGED <<document, records>>
      BY <1>1, PrepareIs DEF IndexInv
  <2>2. QED
      BY <2>1 DEF IndexInv, DocumentInv, RecordsInv, document
<1>2. ASSUME NEW c \in Clients, NEW r \in Runtimes, Commit(c, r) PROVE IndexInv'
  <2>1. PendingInv' /\ \/ UNCHANGED <<document, records, log>>
                       \/ \E change \in Changes : Valid(change) /\ CommitsTo(r, Apply(change))
      BY <1>2, CommitIs DEF IndexInv
  <2>2. CASE UNCHANGED <<document, records, log>>
      BY <2>1, <2>2 DEF IndexInv, DocumentInv, RecordsInv, document
  <2>3. ASSUME NEW change \in Changes, Valid(change), CommitsTo(r, Apply(change))
        PROVE  IndexInv'
      BY <2>1, <2>3, CommitKeepsRecords DEF IndexInv
  <2>4. QED
      BY <2>1, <2>2, <2>3
<1>3. ASSUME NEW r \in Runtimes, UndoLast(r) PROVE IndexInv'
    BY <1>3, UndoStepIs, UndoKeepsRecords DEF IndexInv
<1>4. CASE UNCHANGED vars
    BY <1>4 DEF vars, document, IndexInv, DocumentInv, RecordsInv, PendingInv
<1>5. QED
    BY <1>1, <1>2, <1>3, <1>4 DEF Next

LEMMA IndexInvInit == Init => IndexInv
<1> SUFFICES ASSUME Init PROVE IndexInv
    OBVIOUS
<1>1. objects = << >> /\ index = << >> /\ nextId = 1 /\ version = 0
      /\ records = [r \in Runtimes |-> << >>] /\ pending = [c \in Clients |-> None]
    BY DEF Init
<1>2. DocumentInv
    BY <1>1, EmptySeq DEF DocumentInv, Unique, Leads, Ids, Below
<1>3. RecordsInv
    BY <1>1, EmptySeq DEF RecordsInv
<1>4. PendingInv
    BY <1>1 DEF PendingInv
<1>5. QED
    BY <1>1, <1>2, <1>3, <1>4 DEF IndexInv

(* Whatever is committed and undone, on whichever runtimes, the index leads *)
(* to every object and no two objects share an id, if clients leave the     *)
(* ids alone that the document allocates (CommandRuntime.h, RebuildIndex).  *)
THEOREM IndexLeads == NamesApart => (Spec => []IndexCoherent)
<1> SUFFICES ASSUME NamesApart PROVE Spec => []IndexCoherent
    OBVIOUS
<1>1. Init => IndexInv
    BY IndexInvInit
<1>2. IndexInv /\ [Next]_vars => IndexInv'
    BY IndexInvKept
<1>3. IndexInv => IndexCoherent
    BY DEF IndexInv, DocumentInv, Leads, IndexCoherent
<1>4. QED
    BY <1>1, <1>2, <1>3, PTL DEF Spec

(***************************************************************************)
(* One runtime and its document: the history of the contents.              *)
(***************************************************************************)
(* What the commit with number i left. *)
FoundAfter(i) == IF i = Len(log) THEN objects ELSE log[i + 1].found

HistoryInv(r) ==
    /\ log \in Seq([by : {r}, found : Seq(Object)]) /\ Len(log) = Len(records[r])
    /\ records[r] # << >> => Last(records[r]).undoFrom = version
    /\ \A i \in 1 .. Len(log) : LeadsBack(records[r][i], FoundAfter(i), log[i].found)

(* A commit adds to the history what it found. *)
LEMMA CommitKeepsHistory ==
    ASSUME IndexInv, NamesApart, NEW r \in Runtimes, HistoryInv(r),
           NEW change \in Changes, Valid(change),
           NEW d, d = Apply(change), CommitsTo(r, d)
    PROVE  HistoryInv(r)'
<1>1. LeadsBack(d, d.objects, objects) /\ Kept(d, d.nextId) /\ objects' = d.objects
    BY ChangeApplied DEF IndexInv, CommitsTo, Become
<1>2. PICK one, entry, n :
           /\ one = [undoFrom |-> version + 1, inserted |-> d.inserted,
                     updated |-> d.updated, erased |-> d.erased]
           /\ entry = [by |-> r, found |-> objects] /\ n = Len(log)
    OBVIOUS
<1>3. one.undoFrom = version + 1 /\ one.inserted = d.inserted /\ one.updated = d.updated
      /\ one.erased = d.erased /\ entry.found = objects
    BY <1>2
<1>4. one \in Record /\ entry \in [by : {r}, found : Seq(Object)]
    BY <1>1, <1>2 DEF Record, Kept, IndexInv, DocumentInv
<1>5. PICK old, new, l : old = records[r] /\ new = Append(old, one) /\ l = log
    OBVIOUS
<1>6. /\ old \in Seq(Record) /\ l \in Seq([by : {r}, found : Seq(Object)])
      /\ n \in Nat /\ Len(old) = n /\ Len(l) = n
    BY <1>2, <1>5, LenProperties DEF HistoryInv, IndexInv, RecordsInv
<1>7. /\ Len(new) = n + 1 /\ new[n + 1] = one /\ \A i \in 1 .. n : new[i] = old[i]
    BY <1>4, <1>5, <1>6, AppendProperties
<1>8. records'[r] = new /\ version' = version + 1
  <2>1. records' = [records EXCEPT ![r] = new] /\ r \in DOMAIN records
      BY <1>2, <1>5 DEF CommitsTo, IndexInv, RecordsInv
  <2>2. QED
      BY <2>1 DEF CommitsTo
<1>9. PICK k : k = log'
    OBVIOUS
<1>10. k = Append(l, entry)
    BY <1>2, <1>5, <1>9 DEF CommitsTo
<1>11. /\ k \in Seq([by : {r}, found : Seq(Object)]) /\ Len(k) = n + 1 /\ k[n + 1] = entry
       /\ \A i \in 1 .. n : k[i] = l[i]
    BY <1>4, <1>6, <1>10, AppendProperties
<1>12. Last(new).undoFrom = version + 1
    BY <1>3, <1>7 DEF Last
<1>13. ASSUME NEW i \in 1 .. n + 1
       PROVE  LeadsBack(new[i], IF i = n + 1 THEN objects' ELSE k[i + 1].found, k[i].found)
  <2>1. CASE i = n + 1
    <3>1. LeadsBack(one, objects', objects)
        BY <1>1, <1>3, SameKept
    <3>2. QED
        BY <1>3, <1>7, <1>11, <2>1, <3>1
  <2>2. CASE i \in 1 .. n
    <3>1. LeadsBack(old[i], FoundAfter(i), l[i].found)
        BY <1>2, <1>5, <2>2 DEF HistoryInv
    <3>2. FoundAfter(i) = k[i + 1].found
      <4>1. CASE i = n
          BY <1>2, <1>3, <1>11, <4>1 DEF FoundAfter
      <4>2. CASE i # n
        <5>1. i + 1 \in 1 .. n
            BY <1>6, <2>2, <4>2
        <5>2. QED
            BY <1>2, <1>5, <1>11, <4>2, <5>1 DEF FoundAfter
      <4>3. QED
          BY <4>1, <4>2
    <3>3. i # n + 1
        BY <1>6, <2>2
    <3>4. QED
        BY <1>7, <1>11, <2>2, <3>1, <3>2, <3>3
  <2>3. QED
      BY <1>6, <2>1, <2>2
<1>14. QED
    BY <1>7, <1>8, <1>9, <1>11, <1>12, <1>13 DEF HistoryInv, FoundAfter

(* A sequence that agrees with another but for the last element. *)
LEMMA FrontIsUnique ==
    ASSUME NEW S, NEW s \in Seq(S), NEW n \in Nat \ {0}, n = Len(s),
           NEW t \in Seq(S), Len(t) = n - 1, \A i \in 1 .. n - 1 : t[i] = s[i]
    PROVE  t = SubSeq(s, 1, n - 1)
<1>1. PICK u : u = SubSeq(s, 1, n - 1)
    OBVIOUS
<1>2. \A i \in 1 .. n - 1 : s[i] \in S
    BY ElementOfSeq
<1>3. u = [i \in 1 .. n - 1 |-> s[i]]
    BY <1>1
<1>4. u \in Seq(S) /\ Len(u) = n - 1 /\ \A i \in 1 .. n - 1 : u[i] = s[i]
  <2>1. n - 1 \in Nat
      OBVIOUS
  <2>2. QED
      BY <1>2, <1>3, <2>1, LenProperties
<1>5. QED
    BY <1>1, <1>4, SeqEqual

(* Of a log of one runtime the last entry is forgotten. *)
LEMMA ForgottenIs ==
    ASSUME NEW r, NEW T, log \in Seq([by : {r}, found : T]), log # << >>,
           NEW k, k = Forgotten(r)
    PROVE  /\ Len(log) \in Nat \ {0} /\ k = SubSeq(log, 1, Len(log) - 1)
           /\ k \in Seq([by : {r}, found : T]) /\ Len(k) = Len(log) - 1
           /\ \A i \in 1 .. Len(log) - 1 : k[i] = log[i]
<1>1. PICK l, n : l = log /\ n = Len(log)
    OBVIOUS
<1>2. l \in Seq([by : {r}, found : T]) /\ n = Len(l) /\ n \in Nat \ {0}
    BY <1>1, LenProperties, EmptySeq
<1>3. \A i \in 1 .. n : l[i].by = r
  <2>1. \A i \in 1 .. n : l[i] \in [by : {r}, found : T]
      BY <1>2, ElementOfSeq
  <2>2. QED
      BY <2>1
<1>4. n \in 1 .. n /\ n + 1 .. n = {} /\ \A i \in 1 .. n : i # n => n \in i + 1 .. n
    BY <1>2
<1>5. (CHOOSE i \in 1 .. n : l[i].by = r /\ \A j \in i + 1 .. n : l[j].by # r) = n
    BY <1>3, <1>4
<1>6. k = RemoveAt(l, n)
    BY <1>1, <1>5 DEF Forgotten
<1>7. k \in Seq([by : {r}, found : T]) /\ Len(k) = n - 1
      /\ \A i \in 1 .. n - 1 : k[i] = l[i]
  <2>1. k \in Seq([by : {r}, found : T]) /\ Len(k) = n - 1
        /\ \A i \in 1 .. n - 1 : k[i] = IF i < n THEN l[i] ELSE l[i + 1]
      BY <1>2, <1>4, <1>6, RemoveAtIs
  <2>2. \A i \in 1 .. n - 1 : i < n
      BY <1>2
  <2>3. QED
      BY <2>1, <2>2
<1>8. k = SubSeq(l, 1, n - 1)
    BY <1>2, <1>7, FrontIsUnique
<1>9. QED
    BY <1>1, <1>2, <1>7, <1>8

(* An undo brings back what the last commit of the history found. *)
LEMMA UndoKeepsHistory ==
    ASSUME IndexInv, NEW r \in Runtimes, HistoryInv(r),
           NEW d, d = UndoAppliedChange(Current, Last(records[r])), UndoesTo(r, d)
    PROVE  /\ HistoryInv(r)' /\ log # << >> /\ objects' = log[Len(log)].found
           /\ log' = SubSeq(log, 1, Len(log) - 1)
<1>1. PICK old, new, l, k, n : /\ old = records[r] /\ new = Popped(old, version + 1)
                               /\ l = log /\ k = Forgotten(r) /\ n = Len(log)
    OBVIOUS
<1>2. old \in Seq(Record) /\ Len(old) = n /\ old # << >> /\ version + 1 \in Nat
      /\ l \in Seq([by : {r}, found : Seq(Object)]) /\ n = Len(l) /\ n \in Nat
    BY <1>1, LenProperties DEF IndexInv, RecordsInv, HistoryInv, UndoesTo
<1>3. l # << >>
    BY <1>2, EmptySeq
<1>4. /\ n \in Nat \ {0} /\ k = SubSeq(l, 1, n - 1)
      /\ k \in Seq([by : {r}, found : Seq(Object)]) /\ Len(k) = n - 1
      /\ \A i \in 1 .. n - 1 : k[i] = l[i]
    BY <1>1, <1>2, <1>3, ForgottenIs
<1>5. /\ new \in Seq(Record) /\ Len(new) = n - 1
      /\ \A i \in 1 .. n - 1 :
           /\ new[i].inserted = old[i].inserted /\ new[i].updated = old[i].updated
           /\ new[i].erased = old[i].erased
      /\ new # << >> => Last(new).undoFrom = version + 1
  <2>1. /\ new \in Seq(Record) /\ Len(new) = Len(old) - 1
        /\ \A i \in 1 .. Len(new) :
             /\ new[i].inserted = old[i].inserted /\ new[i].updated = old[i].updated
             /\ new[i].erased = old[i].erased
        /\ new # << >> => Last(new).undoFrom = version + 1
      BY <1>1, <1>2, PoppedIs
  <2>2. QED
      BY <1>2, <2>1
<1>6. records'[r] = new /\ version' = version + 1 /\ log' = k
  <2>1. records' = [records EXCEPT ![r] = new] /\ r \in DOMAIN records
      BY <1>1 DEF UndoesTo, IndexInv, RecordsInv
  <2>2. QED
      BY <1>1, <2>1 DEF UndoesTo
<1>7. \A i \in 1 .. n : LeadsBack(old[i], FoundAfter(i), l[i].found)
    BY <1>1 DEF HistoryInv
<1>8. objects' = l[n].found
  <2>1. Last(records[r]) = old[n] /\ FoundAfter(n) = objects /\ n \in 1 .. n
      BY <1>1, <1>2, <1>4 DEF Last, FoundAfter
  <2>2. LeadsBack(Last(records[r]), objects, l[n].found)
      BY <1>7, <2>1
  <2>3. QED
      BY <2>2, UndoKeepsRecords
<1>9. ASSUME NEW i \in 1 .. n - 1
      PROVE  LeadsBack(new[i], IF i = n - 1 THEN objects' ELSE k[i + 1].found, k[i].found)
  <2>1. i \in 1 .. n /\ i # n /\ i + 1 \in 1 .. n
        /\ (i = n - 1 => i + 1 = n) /\ (i # n - 1 => i + 1 \in 1 .. n - 1)
      BY <1>4
  <2>2. LeadsBack(old[i], l[i + 1].found, l[i].found)
      BY <1>1, <1>7, <2>1 DEF FoundAfter
  <2>3. LeadsBack(new[i], l[i + 1].found, l[i].found)
      BY <1>5, <2>2, SameKept
  <2>4. k[i] = l[i] /\ l[i + 1].found = IF i = n - 1 THEN objects' ELSE k[i + 1].found
      BY <1>4, <1>8, <2>1
  <2>5. QED
      BY <2>3, <2>4
<1>10. HistoryInv(r)'
    BY <1>4, <1>5, <1>6, <1>9 DEF HistoryInv, FoundAfter
<1>11. QED
    BY <1>1, <1>3, <1>4, <1>6, <1>8, <1>10

(* What the history promises of one step. *)
HistoryStep(r) ==
    \/ log' = Append(log, [by |-> r, found |-> objects])
    \/ /\ log # << >> /\ objects' = log[Len(log)].found
       /\ log' = SubSeq(log, 1, Len(log) - 1)
    \/ UNCHANGED <<objects, log>>

OneInv(r) == IndexInv /\ HistoryInv(r)

LEMMA OneInvKept ==
    ASSUME NamesApart, NEW r, Runtimes = {r}, OneInv(r), [Next]_vars
    PROVE  OneInv(r)' /\ HistoryStep(r)
<1>1. r \in Runtimes /\ \A q \in Runtimes : q = r
    OBVIOUS
<1>2. IndexInv'
    BY IndexInvKept DEF OneInv
<1>3. ASSUME UNCHANGED <<document, records, log>> PROVE OneInv(r)' /\ HistoryStep(r)
  <2>1. HistoryInv(r)'
      BY <1>3 DEF OneInv, HistoryInv, FoundAfter, document
  <2>2. QED
      BY <1>2, <1>3, <2>1 DEF OneInv, HistoryStep, document
<1>4. ASSUME NEW c \in Clients, NEW change \in Changes, Prepare(c, change)
      PROVE  OneInv(r)' /\ HistoryStep(r)
  <2>1. UNCHANGED <<document, records, log>>
      BY <1>4, PrepareIs DEF OneInv, IndexInv
  <2>2. QED
      BY <1>3, <2>1
<1>5. ASSUME NEW c \in Clients, Commit(c, r) PROVE OneInv(r)' /\ HistoryStep(r)
  <2>1. \/ UNCHANGED <<document, records, log>>
        \/ \E change \in Changes : Valid(change) /\ CommitsTo(r, Apply(change))
      BY <1>1, <1>5, CommitIs DEF OneInv, IndexInv
  <2>2. ASSUME NEW change \in Changes, Valid(change), CommitsTo(r, Apply(change))
        PROVE  OneInv(r)' /\ HistoryStep(r)
    <3>1. HistoryInv(r)'
        BY <1>1, <2>2, CommitKeepsHistory DEF OneInv
    <3>2. PICK entry, l, k : entry = [by |-> r, found |-> objects] /\ l = log /\ k = log'
        OBVIOUS
    <3>3. k = Append(l, entry)
        BY <2>2, <3>2 DEF CommitsTo
    <3>4. l \in Seq([by : {r}, found : Seq(Object)])
          /\ entry \in [by : {r}, found : Seq(Object)]
        BY <3>2 DEF OneInv, HistoryInv, IndexInv, DocumentInv
    <3>5. Len(k) = Len(l) + 1 /\ k[Len(l) + 1] = entry
        BY <3>3, <3>4, AppendProperties
    <3>6. entry.by = r
        BY <3>2
    <3>7. HistoryStep(r)
        BY <3>2, <3>3, <3>5, <3>6 DEF HistoryStep
    <3>8. QED
        BY <1>2, <3>1, <3>7 DEF OneInv
  <2>3. QED
      BY <1>3, <2>1, <2>2
<1>6. ASSUME UndoLast(r) PROVE OneInv(r)' /\ HistoryStep(r)
  <2>1. UndoesTo(r, UndoAppliedChange(Current, Last(records[r])))
      BY <1>1, <1>6, UndoStepIs
  <2>2. HistoryInv(r)' /\ log # << >> /\ objects' = log[Len(log)].found
        /\ log' = SubSeq(log, 1, Len(log) - 1)
      BY <1>1, <2>1, UndoKeepsHistory DEF OneInv
  <2>3. QED
      BY <1>2, <2>2 DEF OneInv, HistoryStep
<1>7. CASE UNCHANGED vars
    BY <1>3, <1>7 DEF vars, document
<1>8. QED
    BY <1>1, <1>4, <1>5, <1>6, <1>7 DEF Next

LEMMA OneInvInit ==
    ASSUME NEW r, Runtimes = {r}, Init PROVE OneInv(r)
<1>1. log = << >> /\ records[r] = << >>
    BY DEF Init
<1>2. HistoryInv(r)
    BY <1>1, EmptySeq DEF HistoryInv
<1>3. QED
    BY <1>2, IndexInvInit DEF OneInv

(* With one runtime the checks of an undo never fail while its last record  *)
(* may be undone: the objects it put in or changed are there, and the ids   *)
(* of those it took out are free (CommandRuntime.h, UndoLast).              *)
THEOREM CommitsCanBeUndone ==
    ASSUME NamesApart, NEW r, Runtimes = {r}
    PROVE  Spec => []CommitUndoable
<1>1. Init => OneInv(r)
    BY OneInvInit
<1>2. OneInv(r) /\ [Next]_vars => OneInv(r)'
    BY OneInvKept
<1>3. OneInv(r) => CommitUndoable
  <2> SUFFICES ASSUME OneInv(r), records[r] # << >> PROVE ValidUndo(Last(records[r]))
      BY DEF CommitUndoable
  <2>1. IndexInv /\ HistoryInv(r) /\ r \in Runtimes
      BY DEF OneInv
  <2>2. PICK last, n : last = Last(records[r]) /\ n = Len(records[r])
      OBVIOUS
  <2>3. n \in 1 .. n /\ last = records[r][n] /\ last.erased \in Seq(Snapshot)
      BY <2>1, <2>2, LastRecord DEF Kept
  <2>4. LeadsBack(last, objects, log[n].found)
      BY <2>1, <2>2, <2>3 DEF HistoryInv, FoundAfter
  <2>5. QED
      BY <2>1, <2>2, <2>3, <2>4, ValidUndoIs DEF LeadsBack, IndexInv
<1>4. QED
    BY <1>1, <1>2, <1>3, PTL DEF Spec

(* What each commit of a log found. *)
AllFound(l) == [i \in DOMAIN l |-> l[i].found]

(* What the entries of a log found is of a set. *)
Finds(E, T) == \A e \in E : e.found \in T

(* A list of just that. *)
Lists(p, l, T) ==
    p \in Seq(T) /\ Len(p) = Len(l) /\ \A i \in 1 .. Len(l) : p[i] = l[i].found

LEMMA PastIs ==
    ASSUME NEW T, NEW E, Finds(E, T), NEW l \in Seq(E),
           NEW p, p = AllFound(l)
    PROVE  Lists(p, l, T)
<1>1. Len(l) \in Nat /\ DOMAIN l = 1 .. Len(l)
    BY LenProperties
<1>2. \A i \in 1 .. Len(l) : l[i] \in E
    BY ElementOfSeq
<1>3. \A i \in 1 .. Len(l) : l[i].found \in T
    BY <1>2 DEF Finds
<1>4. p = [i \in 1 .. Len(l) |-> l[i].found]
    BY <1>1 DEF AllFound
<1>5. QED
    BY <1>1, <1>3, <1>4 DEF Lists

(* An entry put at the end of the log puts what it found at the end. *)
LEMMA PastOfAppended ==
    ASSUME NEW T, NEW E, Finds(E, T), NEW l \in Seq(E), NEW x \in E
    PROVE  AllFound(Append(l, x)) = Append(AllFound(l), x.found)
<1>1. PICK p, f, k, q : /\ p = AllFound(l) /\ f = x.found
                        /\ k = Append(l, x) /\ q = AllFound(k)
    OBVIOUS
<1>2. k \in Seq(E) /\ Len(k) = Len(l) + 1 /\ k[Len(l) + 1] = x
      /\ \A i \in 1 .. Len(l) : k[i] = l[i]
    BY <1>1, AppendProperties
<1>3. p \in Seq(T) /\ Len(p) = Len(l) /\ \A i \in 1 .. Len(l) : p[i] = l[i].found
    BY <1>1, PastIs DEF Lists
<1>4. q \in Seq(T) /\ Len(q) = Len(k) /\ \A i \in 1 .. Len(k) : q[i] = k[i].found
  <2>1. Lists(q, k, T)
      BY <1>1, <1>2, PastIs
  <2>2. QED
      BY <2>1 DEF Lists
<1>5. PICK u, n : u = Append(p, f) /\ n = Len(l)
    OBVIOUS
<1>6. f \in T /\ n \in Nat
    BY <1>1, <1>5, LenProperties DEF Finds
<1>7. u \in Seq(T) /\ Len(u) = n + 1 /\ u[n + 1] = f /\ \A i \in 1 .. n : u[i] = p[i]
    BY <1>3, <1>5, <1>6, AppendProperties
<1>8. Len(q) = n + 1 /\ q[n + 1] = f /\ \A i \in 1 .. n : q[i] = p[i]
  <2>1. Len(q) = n + 1 /\ n + 1 \in 1 .. n + 1 /\ \A i \in 1 .. n : i \in 1 .. n + 1
      BY <1>2, <1>4, <1>5, <1>6
  <2>2. QED
      BY <1>1, <1>2, <1>3, <1>4, <1>5, <1>6, <2>1
<1>9. \A i \in 1 .. n + 1 : i = n + 1 \/ i \in 1 .. n
    BY <1>6
<1>10. \A i \in 1 .. n + 1 : q[i] = u[i]
    BY <1>7, <1>8, <1>9
<1>11. q = u
    BY <1>4, <1>7, <1>8, <1>10, SeqEqual
<1>12. QED
    BY <1>1, <1>5, <1>11

(* The last entry of the log taken off takes what it found off. *)
LEMMA PastOfFront ==
    ASSUME NEW T, NEW E, Finds(E, T), NEW l \in Seq(E), l # << >>,
           NEW p, p = AllFound(l),
           NEW k, k = SubSeq(l, 1, Len(l) - 1), NEW q, q = AllFound(k)
    PROVE  p # << >> /\ p[Len(p)] = l[Len(l)].found /\ q = SubSeq(p, 1, Len(p) - 1)
<1>1. PICK n : n = Len(l)
    OBVIOUS
<1>2. n \in Nat \ {0} /\ n \in 1 .. n /\ \A i \in 1 .. n - 1 : i \in 1 .. n
    BY <1>1, LenProperties, EmptySeq
<1>3. p \in Seq(T) /\ Len(p) = n /\ \A i \in 1 .. n : p[i] = l[i].found
    BY <1>1, PastIs DEF Lists
<1>4. k \in Seq(E) /\ Len(k) = n - 1 /\ \A i \in 1 .. n - 1 : k[i] = l[i]
  <2>1. \A i \in 1 .. n - 1 : l[i] \in E
      BY <1>1, <1>2, ElementOfSeq
  <2>2. k = SubSeq(l, 1, n - 1) /\ 1 \in Int /\ n - 1 \in Int
      BY <1>1, <1>2
  <2>3. /\ k \in Seq(E) /\ Len(k) = IF 1 <= n - 1 THEN n - 1 - 1 + 1 ELSE 0
        /\ \A i \in 1 .. n - 1 - 1 + 1 : k[i] = l[1 + i - 1]
      BY <2>1, <2>2, SubSeqProperties
  <2>4. n - 1 - 1 + 1 = n - 1 /\ (~(1 <= n - 1) => n - 1 = 0)
        /\ \A i \in 1 .. n - 1 : 1 + i - 1 = i
      BY <1>2
  <2>5. QED
      BY <2>3, <2>4
<1>5. q \in Seq(T) /\ Len(q) = n - 1 /\ \A i \in 1 .. n - 1 : q[i] = k[i].found
  <2>1. Lists(q, k, T)
      BY <1>4, PastIs
  <2>2. QED
      BY <1>4, <2>1 DEF Lists
<1>6. \A i \in 1 .. n - 1 : q[i] = p[i]
    BY <1>2, <1>3, <1>4, <1>5
<1>7. q = SubSeq(p, 1, n - 1)
    BY <1>2, <1>3, <1>5, <1>6, FrontIsUnique
<1>8. p # << >>
    BY <1>2, <1>3, EmptySeq
<1>9. QED
    BY <1>1, <1>2, <1>3, <1>7, <1>8

Past == AllFound(log)

(* Each step is one of the history or leaves it alone. *)
LEMMA StepOfHistory ==
    ASSUME NEW r, Runtimes = {r}, OneInv(r), OneInv(r)', HistoryStep(r)
    PROVE  [History!Commit \/ History!Undo]_<<objects, Past>>
<1>1. PICK l, k, p, q : /\ l = log /\ k = log'
                        /\ p = Past /\ q = Past'
    OBVIOUS
<1>2. /\ l \in Seq([by : {r}, found : Seq(Object)])
      /\ k \in Seq([by : {r}, found : Seq(Object)]) /\ objects \in Seq(Object)
    BY <1>1 DEF OneInv, HistoryInv, IndexInv, DocumentInv
<1>3. p = AllFound(l) /\ q = AllFound(k)
    BY <1>1 DEF Past
<1>4. ASSUME log' = Append(log, [by |-> r, found |-> objects])
      PROVE  History!Commit
  <2>1. PICK e : e = [by |-> r, found |-> objects]
      OBVIOUS
  <2>2. e \in [by : {r}, found : Seq(Object)] /\ e.found = objects /\ k = Append(l, e)
      BY <1>1, <1>2, <1>4, <2>1
  <2>3. q = Append(p, e.found)
    <3>1. PICK E, T : E = [by : {r}, found : Seq(Object)] /\ T = Seq(Object)
        OBVIOUS
    <3>2. Finds(E, T) /\ l \in Seq(E) /\ e \in E
        BY <1>2, <2>2, <3>1 DEF Finds
    <3>3. AllFound(Append(l, e)) = Append(AllFound(l), e.found)
        BY ONLY <3>2, PastOfAppended
    <3>4. QED
        BY ONLY <1>3, <2>2, <3>3
  <2>4. Past' = Append(Past, objects)
      BY <1>1, <2>2, <2>3
  <2>5. QED
      BY <2>4 DEF History!Commit, Past, AllFound
<1>5. ASSUME log # << >>, objects' = log[Len(log)].found,
             log' = SubSeq(log, 1, Len(log) - 1)
      PROVE  History!Undo
  <2>1. l # << >> /\ k = SubSeq(l, 1, Len(l) - 1) /\ objects' = l[Len(l)].found
      BY <1>1, <1>5
  <2>2. p # << >> /\ p[Len(p)] = l[Len(l)].found /\ q = SubSeq(p, 1, Len(p) - 1)
    <3>1. PICK E, T : E = [by : {r}, found : Seq(Object)] /\ T = Seq(Object)
        OBVIOUS
    <3>2. Finds(E, T) /\ l \in Seq(E)
        BY <1>2, <3>1 DEF Finds
    <3>3. l # << >>
        BY <2>1
    <3>4. \A P, K, Q : P = AllFound(l) /\ K = SubSeq(l, 1, Len(l) - 1) /\ Q = AllFound(K)
                => /\ P # << >> /\ P[Len(P)] = l[Len(l)].found
                   /\ Q = SubSeq(P, 1, Len(P) - 1)
        BY ONLY <3>2, <3>3, PastOfFront
    <3>5. QED
        BY ONLY <1>3, <2>1, <3>4
  <2>3. Past # << >> /\ objects' = Past[Len(Past)] /\ Past' = SubSeq(Past, 1, Len(Past) - 1)
      BY <1>1, <2>1, <2>2
  <2>4. QED
      BY <2>3 DEF History!Undo, Past, AllFound
<1>6. ASSUME UNCHANGED <<objects, log>> PROVE UNCHANGED <<objects, Past>>
    BY <1>6 DEF Past
<1>7. QED
    BY <1>4, <1>5, <1>6 DEF HistoryStep

(* With one runtime the document implements the history of its contents:    *)
(* a commit adds to it and an undo brings back exactly what the last commit *)
(* still in it found, whatever was erased, updated and inserted             *)
(* (CommandRuntime.h, UndoAppliedChange).                                   *)
THEOREM DocumentKeepsHistory ==
    ASSUME NamesApart, NEW r, Runtimes = {r}
    PROVE  Spec => HistorySpec
<1>1. Init => OneInv(r) /\ History!Init
  <2>1. Init => OneInv(r)
      BY OneInvInit
  <2>2. Init => History!Init
      BY DEF Init, History!Init
  <2>3. QED
      BY <2>1, <2>2
<1>2. OneInv(r) /\ [Next]_vars => OneInv(r)' /\ HistoryStep(r)
    BY OneInvKept
<1>3. OneInv(r) /\ OneInv(r)' /\ HistoryStep(r)
      => [History!Commit \/ History!Undo]_<<objects, [i \in DOMAIN log |-> log[i].found]>>
    BY StepOfHistory DEF Past, AllFound
<1>4. QED
    BY <1>1, <1>2, <1>3, PTL DEF Spec, HistorySpec, History!Spec
=============================================================================
