-------------------------- MODULE MCPlaylistWrites --------------------------
(* Requests of two clients, an edit on YouTube and a fault, against passes.  *)
EXTENDS PlaylistWrites
=============================================================================
