---------------------------- MODULE MCRtwPlayout ----------------------------
(* The playout buffer on a small ring: see MCRtwPlayout.cfg. *)
EXTENDS RtwPlayout
=============================================================================
