----------------------------- MODULE UndoHistory -----------------------------
(* What a document with undo promises: its contents change by commits, and *)
(* an undo brings back exactly what the latest commit not yet undone found.*)
EXTENDS Naturals, Sequences

VARIABLES contents, past    \* past: what each commit, oldest first, found

Init == contents = << >> /\ past = << >>

Commit == past' = Append(past, contents)

Undo ==
    /\ past # << >>
    /\ contents' = past[Len(past)]
    /\ past' = SubSeq(past, 1, Len(past) - 1)

Spec == Init /\ [][Commit \/ Undo]_<<contents, past>>
=============================================================================
