----------------------------- MODULE ApiCommand -----------------------------
(***************************************************************************)
(* One call of uuid_realtime_ws (src/mod/mod_realtime_ws.c): the line is    *)
(* copied, cut before the metadata and separated in place, the session is   *)
(* located and locked, and the command is run with its arguments.           *)
(*                                                                         *)
(* A line is a sequence of words with single spaces between them; brace is  *)
(* the word that has the first '{', and glued says that the '{' is not the  *)
(* first character of that word.  A piece of metadata is a set of words: the *)
(* ones from the '{' on that the command gets to see.                       *)
(***************************************************************************)
EXTENDS Naturals, Sequences, FiniteSetsExt

CONSTANTS
  Lines,        \* the lines: [words, brace, glued]; brace is 0 without a '{'
  MaxArgs,      \* size of argv (6)
  WithTls       \* built with OpenSSL

\* What the constants stand for.
CommandConstants ==
  /\ MaxArgs \in Nat /\ WithTls \in BOOLEAN
  /\ \A l \in Lines : l.brace \in 0 .. Len(l.words) /\ l.glued \in BOOLEAN

VARIABLES
  pc, line,
  argv,        \* the words of the command
  metadata,    \* the words of the metadata
  mycmd,       \* the copy of the line is allocated
  locked,      \* locks on the session
  started      \* what start_capture was called with

vars == <<pc, line, argv, metadata, mycmd, locked, started>>

NotStarted == [uri |-> "none", rate |-> 0, channels |-> 0, metadata |-> {}]

NoLine == [words |-> <<>>, brace |-> 0, glued |-> FALSE]

Init ==
  /\ pc = "idle" /\ line = NoLine
  /\ argv = <<>> /\ metadata = {} /\ mycmd = FALSE /\ locked = 0
  /\ started = NotStarted

-----------------------------------------------------------------------------

\* uuid_realtime_ws_function is called with a line.
Called ==
  /\ pc = "idle"
  /\ pc' = "called" /\ line' \in Lines
  /\ UNCHANGED <<argv, metadata, mycmd, locked, started>>

\* An empty line, or no memory for the copy.
Refused ==
  /\ pc = "called"
  /\ pc' = "returned"
  /\ UNCHANGED <<line, argv, metadata, mycmd, locked, started>>

Copies ==
  /\ pc = "called" /\ line.words # <<>>
  /\ mycmd' = TRUE /\ pc' = "separate"
  /\ UNCHANGED <<line, argv, metadata, locked, started>>

From(l) == l.brace .. Len(l.words)

\* The line is cut at the spaces before the '{'.
Cut(l) == l.brace > 1 /\ ~l.glued

\* A word with a '{' in it still begins as it did: enough for a URI, and for the
\* number that atoi reads, but it is no other word of a command.
Glued(w) ==
  CASE w \in {"ws", "wss", "24000"} -> w
    [] w \in {"8k", "16k", "24k"} -> "24k"
    [] OTHER -> "a"

Word(l, i) == IF i = l.brace /\ l.glued THEN Glued(l.words[i]) ELSE l.words[i]

Separated(l) ==
  LET n == IF Cut(l) THEN l.brace - 1 ELSE Len(l.words)
  IN  [i \in 1 .. Min({n, MaxArgs}) |-> Word(l, i)]

\* What is left from the '{' on when switch_separate_string (here that of the
\* stub) has put an end after each of the words it has separated.
Left(l) ==
  CASE l.brace = 0 -> {}
    [] Cut(l) \/ l.brace > MaxArgs -> From(l)
    [] OTHER -> {l.brace}

Separates ==
  /\ pc = "separate"
  /\ metadata' = Left(line)
  /\ argv' = Separated(line)
  /\ pc' = IF Len(argv') < 2 THEN "done" ELSE "locate"
  /\ UNCHANGED <<line, mycmd, locked, started>>

\* switch_core_session_locate; no session has a '{' in its name.
Locates ==
  /\ pc = "locate"
  /\ \/ pc' = "done" /\ UNCHANGED locked
     \/ line.brace # 1 /\ pc' = "run" /\ locked' = locked + 1
  /\ UNCHANGED <<line, argv, metadata, mycmd, started>>

\* stop, pause, resume, clear, send_mark, status, or none of these: what they do
\* is ModLifecycle.
Others ==
  /\ pc = "run" /\ argv[2] # "start"
  /\ pc' = "unlock"
  /\ UNCHANGED <<line, argv, metadata, mycmd, locked, started>>

\* Mutant: the lock is forgotten on this way out.
LeavesBug == pc' = "done" /\ UNCHANGED locked

\* switch_core_session_rwunlock and goto done
Leaves == pc' = "done" /\ locked' = locked - 1

\* Too few arguments, or an unknown mix type.
StartUsage ==
  /\ pc = "run" /\ argv[2] = "start"
  /\ Len(argv) < 4 \/ (Len(argv) >= 4 /\ argv[4] \notin {"mono", "mixed", "stereo"})
  /\ Leaves
  /\ UNCHANGED <<line, argv, metadata, mycmd, started>>

\* The rate, 8000 without one; what atoi cannot read is 0.
Rate ==
  CASE Len(argv) <= 4 -> 8000
    [] Len(argv) > 4 /\ argv[5] = "8k" -> 8000
    [] Len(argv) > 4 /\ argv[5] = "16k" -> 16000
    [] Len(argv) > 4 /\ argv[5] = "24k" -> 24
    [] Len(argv) > 4 /\ argv[5] = "24000" -> 24000
    [] OTHER -> 0

\* rtw_validate_ws_uri
ValidUri(u) == u = "ws" \/ (u = "wss" /\ WithTls)

Starts ==
  /\ pc = "run" /\ argv[2] = "start"
  /\ Len(argv) >= 4 /\ argv[4] \in {"mono", "mixed", "stereo"}
  /\ started' = IF Rate % 8000 = 0 /\ ValidUri(argv[3])
                  THEN [uri |-> argv[3], rate |-> Rate,
                        channels |-> IF argv[4] = "stereo" THEN 2 ELSE 1,
                        metadata |-> metadata]
                  ELSE started
  /\ pc' = "unlock"
  /\ UNCHANGED <<line, argv, metadata, mycmd, locked>>

Unlocks ==
  /\ pc = "unlock"
  /\ pc' = "done" /\ locked' = locked - 1
  /\ UNCHANGED <<line, argv, metadata, mycmd, started>>

Done ==
  /\ pc = "done"
  /\ pc' = "returned" /\ mycmd' = FALSE
  /\ UNCHANGED <<line, argv, metadata, locked, started>>

Next ==
  \/ Called \/ Refused \/ Copies \/ Separates \/ Locates \/ Others \/ StartUsage \/ Starts
  \/ Unlocks \/ Done

Spec == Init /\ [][Next]_vars

-----------------------------------------------------------------------------
(* Properties *)

\* Whichever way a command ends, it has unlocked the session it located, once,
\* and freed its copy of the line: a lock that stays would keep the session from
\* ever being destroyed.
NothingKept == locked \in {0, 1} /\ (pc = "returned" => locked = 0 /\ ~mycmd)

\* A start gets its metadata whole, spaces included, when it begins a word; and
\* no word of it is taken for an argument.
MetadataIntact ==
  started # NotStarted /\ line.brace # 0 /\ ~line.glued =>
    /\ started.metadata = From(line)
    /\ Len(argv) < line.brace
=============================================================================
