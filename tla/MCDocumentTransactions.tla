----------------------- MODULE MCDocumentTransactions -----------------------
(* Change sets for TLC: one of each kind that the checks of a commit and    *)
(* the order of an undo tell apart.                                         *)
EXTENDS DocumentTransactions, TLC

CONSTANTS c1, c2, r1, r2, x, d1, d2

Change(inserts, updates, erases) ==
    [inserts |-> inserts, updates |-> updates, erases |-> erases]
Object(id, data) == [id |-> id, data |-> data]

ChangeSets == {
    Change(<< Object(NoId, d1), Object(NoId, d2) >>, << >>, << >>),
    Change(<< Object(x, d1) >>, << >>, << >>),
    Change(<< Object(x, d1), Object(x, d2) >>, << >>, << >>),
    Change(<< >>, << Object(1, d1), Object(1, d2) >>, << >>),
    Change(<< >>, << Object(x, d2) >>, << 1 >>),
    Change(<< >>, << Object(1, d2) >>, << 1 >>),
    Change(<< >>, << Object(1, Unchanged) >>, << >>),
    Change(<< Object(NoId, d1) >>, << >>, << 1, 2 >>),
    Change(<< >>, << >>, << 2, 1 >>),
    Change(<< >>, << >>, << 1, 1 >>),
    Change(<< >>, << >>, << x >>),
    Change(<< >>, << >>, << >>) }

(* For the runtimes that share a document: an object changes its data. *)
Edits == {
    Change(<< Object(x, d1) >>, << >>, << >>),
    Change(<< >>, << Object(x, d2) >>, << >>) }

Interchangeable == Permutations(Clients)
=============================================================================
