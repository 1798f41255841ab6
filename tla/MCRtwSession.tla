---------------------------- MODULE MCRtwSession ----------------------------
(***************************************************************************)
(* A session on a queue of a few messages.  MCRtwSession.cfg checks the    *)
(* session's properties, MCSessionMarks.cfg what the documentation says of *)
(* mark acknowledgements.                                                  *)
(***************************************************************************)
EXTENDS RtwSession, SequencesExt

\* Newest is what the single pushes of DropOldestQueue add up to.
ASSUME NewestIsRepeatedPush ==
  \A m, n \in 0 .. 4 :
    LET q == [i \in 1 .. (IF m < QueueCap THEN m ELSE QueueCap) |-> i]
        ms == [i \in 1 .. n |-> 10 + i]
    IN  Newest(q \o ms) = FoldLeft(LAMBDA a, x : Append(Evicted(a), x), q, ms)
=============================================================================
