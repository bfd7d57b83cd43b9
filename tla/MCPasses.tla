------------------------------ MODULE MCPasses ------------------------------
(* Passes over one and two playlists.                                       *)
EXTENDS Passes

CONSTANTS p1, p2

Nothing ==
    [playlists |-> {p1, p2}, plan |-> 1, edits |-> 0, owner |-> 0,
     deletes |-> 0, faults |-> 0, failed |-> FALSE]

(* An edit here and a fault.                                                *)
EditAndFault == {[Nothing EXCEPT !.edits = 1, !.faults = 1]}

(* Everything once to one playlist, whose push may stop part way; and       *)
(* YouTube's owner and a fault with two.                                    *)
OneAndTwo ==
    {[Nothing EXCEPT !.playlists = {p1}, !.plan = 2, !.edits = 1, !.owner = 1,
                     !.deletes = 1, !.faults = 1],
     [Nothing EXCEPT !.owner = 1, !.faults = 1]}

EditAndDelete == {[Nothing EXCEPT !.edits = 1, !.deletes = 1]}
=============================================================================
