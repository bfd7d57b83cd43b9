---------------------------- MODULE MCMergePush ----------------------------
(* Small inputs for MergePush.                                              *)
EXTENDS MergePush

Input(size, added, waiting, lost, ownerEdits) ==
    [ids |-> 9, size |-> size, added |-> added, waiting |-> waiting,
     lost |-> lost, ownerEdits |-> ownerEdits]

(* Every edit of both sides of three items; the same of two items, with two *)
(* additions an unanswered insert may be confused with and an entry whose   *)
(* item nobody has; and every edit here of five, for the plan.              *)
SmallInputs ==
    {Input(3, {4}, {1}, {}, TRUE),
     Input(2, {3, 4}, {1}, {9}, TRUE),
     Input(5, {}, {1}, {}, FALSE)}
=============================================================================
