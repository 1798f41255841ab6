------------------------------- MODULE RtwSim -------------------------------
(***************************************************************************)
(* The session simulator (src/sim/rtw_sim.c) against a peer that answers the *)
(* first media with a script of its own.  All of it runs in one thread: the  *)
(* callback on_text is called from rtw_ws_poll.  What a session does is kept  *)
(* to what shows here (RtwSession has it all, failed allocations too): the    *)
(* playout is a number of pieces of audio, each a media message of the peer,  *)
(* and for every mark the pieces that are still before it.                    *)
(***************************************************************************)
EXTENDS Naturals, FiniteSetsExt, Sequences

CONSTANTS
  Script,      \* what the peer sends: "media", "mark" and "clear"
  ReadLen,     \* pieces of audio read in a round (two: 320 bytes)
  MaxRounds,   \* seconds * 50
  PlayoutCap,  \* pieces of audio that the playout has room for (64 KiB)
  MarkMax,     \* marks that it has room for (RTW_MARK_MAX, 64)
  HarvestMax   \* marks that one pop acknowledges (completed[8])

\* What the constants stand for.
SimConstants ==
  /\ Script \in Seq({"media", "mark", "clear"})
  /\ ReadLen \in Nat \ {0} /\ MaxRounds \in Nat
  /\ PlayoutCap \in Nat /\ MarkMax \in Nat /\ HarvestMax \in Nat

VARIABLES
  pc,              \* "start", "round", "read", "poll", "report", "stop", "done"
  running, rounds,
  audio,           \* pieces in the playout
  marks,           \* bytes_after of each mark: pieces still to be read before it
  outbound,        \* messages queued
  sent,            \* messages on the wire
  up,              \* the peer gets what is sent
  script,          \* what the peer has still to send
  arriving,        \* what it has sent and the simulator has not read
  crowded,         \* a mark was refused, or completed and not acknowledged
  got_clear_ack,
  verdict          \* of the clear test: "none", "OK" or "FAILED"

vars == <<pc, running, rounds, audio, marks, outbound, sent, up, script, arriving,
          crowded, got_clear_ack, verdict>>
playVars == <<audio, marks, crowded>>
netVars == <<up, script, arriving>>

Count(x, s) == Cardinality({i \in DOMAIN s : s[i] = x})

Init ==
  /\ pc = "start" /\ running = TRUE /\ rounds = 0
  /\ audio = 0 /\ marks = <<>> /\ outbound = <<>> /\ sent = <<>>
  /\ up = TRUE /\ script = Script /\ arriving = <<>>
  /\ crowded = FALSE /\ got_clear_ack = FALSE /\ verdict = "none"

-----------------------------------------------------------------------------
(* rtw_session_pop_outbound, called until there is nothing left: the first   *)
(* call takes all completed marks out of the playout and queues the acks of  *)
(* as many as completed[8] holds behind what there is; all of it is sent.    *)

\* How many marks are completed; they are the first, for a mark is never behind
\* less audio than the one before it.
Completed(m) == Cardinality({i \in DOMAIN m : \A j \in 1 .. i : m[j] = 0})

Acks(n) == [i \in 1 .. n |-> "ack"]

\* Mutant: the acks of the marks that a read has completed are not collected.
DrainedBug(o, m) == o

Drained(o, m) == o \o Acks(Min({Completed(m), HarvestMax}))

Pending(m) == SubSeq(m, Completed(m) + 1, Len(m))

\* Send everything; rtw_ws_send_text fails when the connection is gone, and the
\* message is lost.
Drain(o, m) ==
  /\ sent' = IF up THEN sent \o Drained(o, m) ELSE sent
  /\ outbound' = <<>>
  /\ marks' = Pending(m)

\* Completed marks beyond those of one harvest are gone without a word.
Loses(m) == Completed(m) > HarvestMax

-----------------------------------------------------------------------------

\* rtw_session_start; a message that cannot be sent ends the program.
Starts ==
  /\ pc = "start"
  /\ Drain(<<"connected", "start">>, marks)
  /\ crowded' = (crowded \/ Loses(marks))
  /\ pc' = IF up THEN "round" ELSE "done"
  /\ UNCHANGED <<running, rounds, audio, netVars, got_clear_ack, verdict>>

\* A round of the loop: push, send everything, read the playout.
Pushes ==
  /\ pc = "round"
  /\ running /\ rounds < MaxRounds
  /\ rounds' = rounds + 1
  /\ Drain(Append(outbound, "media"), marks)
  /\ crowded' = (crowded \/ Loses(marks))
  /\ pc' = "read"
  /\ UNCHANGED <<running, audio, netVars, got_clear_ack, verdict>>

\* The audio that is read is gone, and the marks have come closer by it.
Reads ==
  /\ pc = "read"
  /\ LET n == Min({ReadLen, audio})
     IN /\ audio' = audio - n
        /\ marks' = [i \in DOMAIN marks |-> IF marks[i] >= n THEN marks[i] - n ELSE 0]
  /\ pc' = "poll"
  /\ UNCHANGED <<running, rounds, outbound, sent, netVars, crowded, got_clear_ack, verdict>>

\* on_text, for a message that has arrived.  A clear acknowledges every mark; a
\* mark, or a piece of audio, that there is no room for is ignored.
OnText ==
  /\ pc = "poll" /\ arriving # <<>>
  /\ LET e == Head(arriving)
         refused == e = "mark" /\ Len(marks) >= MarkMax
         o == IF e = "clear" THEN outbound \o Acks(Len(marks)) ELSE outbound
         m == CASE e = "clear" -> <<>>
                [] e = "mark" -> IF refused THEN marks ELSE Append(marks, audio)
                [] e = "media" -> marks
     IN /\ audio' = CASE e = "clear" -> 0
                      [] e = "mark" -> audio
                      [] e = "media" -> Min({audio + 1, PlayoutCap})
        /\ Drain(o, m)
        /\ crowded' = (crowded \/ refused \/ Loses(m))
        /\ got_clear_ack' = (got_clear_ack \/ Count("ack", Drained(o, m)) > 0)
  /\ arriving' = Tail(arriving)
  /\ UNCHANGED <<pc, running, rounds, up, script, verdict>>

PollEnds ==
  /\ pc = "poll"
  /\ pc' = "round"
  /\ UNCHANGED <<running, rounds, playVars, outbound, sent, netVars, got_clear_ack, verdict>>

\* on_close, and rtw_ws_poll returns -1.
PollFails ==
  /\ pc = "poll" /\ ~up
  /\ running' = FALSE
  /\ pc' = "report"
  /\ UNCHANGED <<rounds, playVars, outbound, sent, netVars, got_clear_ack, verdict>>

LoopEnds ==
  /\ pc = "round"
  /\ ~running \/ rounds = MaxRounds
  /\ pc' = "report"
  /\ UNCHANGED <<running, rounds, playVars, outbound, sent, netVars, got_clear_ack, verdict>>

Reports ==
  /\ pc = "report"
  /\ verdict' = IF got_clear_ack THEN "OK" ELSE "FAILED"
  /\ pc' = "stop"
  /\ UNCHANGED <<running, rounds, playVars, outbound, sent, netVars, got_clear_ack>>

\* rtw_session_stop, and the rest is sent.
Stops ==
  /\ pc = "stop"
  /\ Drain(Append(outbound, "stop"), marks)
  /\ crowded' = (crowded \/ Loses(marks))
  /\ pc' = "done"
  /\ UNCHANGED <<running, rounds, audio, netVars, got_clear_ack, verdict>>

-----------------------------------------------------------------------------
(* The peer and the connection *)

PeerSends ==
  /\ Count("media", sent) > 0
  /\ script # <<>> /\ up
  /\ arriving' = Append(arriving, Head(script))
  /\ script' = Tail(script)
  /\ UNCHANGED <<pc, running, rounds, playVars, outbound, sent, up, got_clear_ack, verdict>>

Breaks ==
  /\ up
  /\ up' = FALSE
  /\ UNCHANGED <<pc, running, rounds, playVars, outbound, sent, script, arriving,
                 got_clear_ack, verdict>>

Next ==
  \/ Starts \/ Pushes \/ Reads \/ OnText \/ PollEnds \/ PollFails \/ LoopEnds
  \/ Reports \/ Stops \/ PeerSends \/ Breaks

Spec == Init /\ [][Next]_vars

-----------------------------------------------------------------------------
(* Properties *)

\* The peer sees a whole call or the beginning of one: connected, start, then
\* media and marks, and of a run that ends with the connection up also the stop,
\* with nothing behind it but the marks that were completed before.
WholeCall ==
  /\ \A i \in DOMAIN sent : i <= 2 => sent[i] = <<"connected", "start">>[i]
  /\ \A i \in 3 .. Len(sent) : sent[i] \in {"media", "ack", "stop"}
  /\ pc = "done" /\ up =>
       \E i \in DOMAIN sent :
         /\ sent[i] = "stop"
         /\ \A j \in DOMAIN sent \ {i} : sent[j] # "stop" /\ (j > i => sent[j] = "ack")

\* docs/PROTOCOL.md: a mark is echoed when its audio has been played or cleared.
\* A mark that has arrived waits in the playout or was acknowledged, once, whether it
\* was read past or cleared and whichever of the two loops sent the acknowledgement,
\* as long as the connection holds.  Otherwise it was one too many for the array of
\* marks, or for a harvest: that happens only to peers that send more marks than fit.
MarksAccounted ==
  LET known == Count("mark", script) + Count("mark", arriving) + Len(marks)
                 + Count("ack", sent)
  IN /\ known <= Count("mark", Script)
     /\ up /\ ~crowded => known = Count("mark", Script)
     /\ crowded => Count("mark", Script) > Min({MarkMax, HarvestMax})
=============================================================================
