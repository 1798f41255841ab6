----------------------------- MODULE MCRtwQueue -----------------------------
(* The ring of RtwQueue on a small capacity: see MCRtwQueue.cfg. *)
EXTENDS RtwQueue
=============================================================================
