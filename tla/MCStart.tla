------------------------------ MODULE MCStart ------------------------------
(***************************************************************************)
(* A start command: what the bridge and its connections own (BridgeStart,   *)
(* on WsConnect), the line of the command, the metadata on its way to the   *)
(* peer and the URL.  The four share no state and are checked side by side: *)
(* each runs while the others rest.                                        *)
(***************************************************************************)
EXTENDS BridgeStart, Sequences

CONSTANTS
  Lines, MaxArgs, WithTls,                   \* of ApiCommand, WithTls of WsUrl, too
  Members, MaxMembers, MaxLength, Lengths,   \* of StartMetadata
  Chars, Hosts, Ports, PathLens, UriCap, HostCap, PathCap   \* of WsUrl

VARIABLES
  commandPc, line, argv, words, mycmd, locked, started,
  stage, given, metadata, headers, params, custom,
  urlStage, meant, host, port, path, urlTls, host_hdr

-----------------------------------------------------------------------------

\* Lines of up to eight words, with a '{' in none of them, at the beginning of
\* one or inside it.  Words after a '{' that begins a word do not matter.
Tails == {<<>>, <<"8k">>, <<"16k">>, <<"24k">>, <<"24000">>, <<"a">>,
          <<"8k", "a">>, <<"8k", "a", "b", "c">>}

MCWords ==
  {<<>>, <<"uuid">>, <<"uuid", "stop">>, <<"uuid", "clear", "a">>,
   <<"uuid", "send_mark", "a">>, <<"uuid", "else">>, <<"uuid", "start">>,
   <<"uuid", "start", "ws">>}
  \cup {<<"uuid", "start", u, m>> \o t :
          u \in {"ws", "wss", "http"}, m \in {"mono", "mixed", "stereo", "both"},
          t \in Tails}

MCLines ==
  UNION {[words : {w}, brace : 0 .. Len(w), glued : BOOLEAN] : w \in MCWords}

Command == INSTANCE ApiCommand WITH pc <- commandPc, metadata <- words

\* Objects of up to three of these members; strings that fit or do not.
M(key, kind, subs) == [key |-> key, kind |-> kind, subs |-> subs]

MCMembers ==
  {M("authorization", "string", <<>>), M("authorization", "other", <<>>),
   M("authorization", "empty", <<>>), M("Authorization", "string", <<>>),
   M("ws_headers", "object", <<TRUE, FALSE, TRUE>>), M("ws_headers", "other", <<>>),
   M("custom", "string", <<>>), M("custom", "object", <<TRUE>>)}

Splitting == INSTANCE StartMetadata

\* Names, IPv6 addresses, with and without a port, up to a text that is too
\* long; paths around the size of their buffer.
MCHosts ==
  {<<"h">>, <<"h", ".", "h">>, <<":", ":", "1">>, <<"f", ":", ":">>,
   <<"h", "h", "h", "h", "h", "h", "h", "h", "h">>, <<>>}

MCPorts == {<<>>, <<"9">>, <<"8", "0">>, <<"4", "4", "3">>}

Url == INSTANCE WsUrl WITH stage <- urlStage, use_tls <- urlTls

ASSUME PartsConstants ==
  Command!CommandConstants /\ Splitting!MetadataConstants /\ Url!UrlConstants

-----------------------------------------------------------------------------

commandVars == <<commandPc, line, argv, words, mycmd, locked, started>>
metadataVars == <<stage, given, metadata, headers, params, custom>>
urlVars == <<urlStage, meant, host, port, path, urlTls, host_hdr>>
startVars == <<vars, commandVars, metadataVars, urlVars>>

StartInit == Init /\ Command!Init /\ Splitting!Init /\ Url!Init

StartNext ==
  \/ Command!Init /\ Splitting!Init /\ Url!Init
     /\ Next /\ UNCHANGED <<commandVars, metadataVars, urlVars>>
  \/ Init /\ Splitting!Init /\ Url!Init
     /\ Command!Next /\ UNCHANGED <<vars, metadataVars, urlVars>>
  \/ Init /\ Command!Init /\ Url!Init
     /\ Splitting!Next /\ UNCHANGED <<vars, commandVars, urlVars>>
  \/ Init /\ Command!Init /\ Splitting!Init
     /\ Url!Next /\ UNCHANGED <<vars, commandVars, metadataVars>>

StartSpec == StartInit /\ [][StartNext]_startVars

-----------------------------------------------------------------------------
(* Properties *)

\* uuid_realtime_ws_function: no way out keeps a lock or the copy of the line.
NothingKept == Command!NothingKept

\* The metadata of a start arrives: uuid_realtime_ws_function passes it on whole,
\* and each member reaches the peer one way, as a header or as a parameter.
MetadataArrives == Command!MetadataIntact /\ Splitting!EachMemberOneWay

\* parse_url: an accepted URL leads where its writer meant.
UrlUnderstood == Url!UrlUnderstood
=============================================================================
