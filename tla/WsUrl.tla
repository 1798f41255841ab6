------------------------------- MODULE WsUrl -------------------------------
(***************************************************************************)
(* The way of a ws:// or wss:// URL: rtw_validate_ws_uri (rtw_bridge.c)     *)
(* accepts and copies it, parse_url (rtw_ws_client.c) takes it apart, and   *)
(* http_handshake names the host in its request.  The URL is given by what  *)
(* its writer meant; the part between // and / is written out, of the path  *)
(* only the length counts.                                                 *)
(***************************************************************************)
EXTENDS Naturals, Sequences, SequencesExt

CONSTANTS
  Chars,         \* the characters of hosts and ports
  Hosts,         \* names and IPv6 addresses, as sequences of characters
  Ports,         \* sequences of digits; <<>> is no port
  PathLens,      \* lengths of paths; 0 is no path
  UriCap,        \* RTW_MAX_WS_URI (4096)
  HostCap,       \* size of hostport, and of host (256)
  PathCap,       \* size of path (512)
  WithTls        \* built with OpenSSL

\* What the constants stand for.  Brackets are no part of a host, nor a ':' of
\* a port.
UrlConstants ==
  /\ Hosts \subseteq Seq(Chars) /\ Ports \subseteq Seq(Chars)
  /\ Chars \cap {"[", "]"} = {}
  /\ \A p \in Ports : \A i \in DOMAIN p : p[i] # ":"
  /\ PathLens \subseteq Nat
  /\ UriCap \in Nat /\ HostCap \in Nat \ {0} /\ PathCap \in Nat \ {0, 1}
  /\ WithTls \in BOOLEAN

VARIABLES
  stage,                    \* "none", "given", "valid", "parsed", "asked" or "refused"
  meant,                    \* [tls, host, port, path]
  host, port, path,         \* the results of parse_url
  use_tls,
  host_hdr                  \* [host, port]; the port is <<>> if it is left out

vars == <<stage, meant, host, port, path, use_tls, host_hdr>>

IsV6(h) == \E i \in DOMAIN h : h[i] = ":"

\* host:port, the host in brackets if it is an IPv6 address.
Authority(m) ==
  (IF IsV6(m.host) THEN <<"[">> \o m.host \o <<"]">> ELSE m.host)
    \o (IF m.port = <<>> THEN <<>> ELSE <<":">> \o m.port)

Length(m) == (IF m.tls THEN 6 ELSE 5) + Len(Authority(m)) + m.path

Init ==
  /\ stage = "none"
  /\ meant = [tls |-> FALSE, host |-> <<>>, port |-> <<>>, path |-> 0]
  /\ host = <<>> /\ port = 0 /\ path = 0 /\ use_tls = FALSE
  /\ host_hdr = [host |-> <<>>, port |-> <<>>]

\* A start command has a URL.
Given ==
  /\ stage = "none"
  /\ stage' = "given"
  /\ meant' \in [tls : BOOLEAN, host : Hosts, port : Ports, path : PathLens]
  /\ UNCHANGED <<host, port, path, use_tls, host_hdr>>

-----------------------------------------------------------------------------

\* rtw_validate_ws_uri
Validates ==
  /\ stage = "given"
  /\ stage' = IF (meant.tls => WithTls) /\ Length(meant) < UriCap
                THEN "valid" ELSE "refused"
  /\ UNCHANGED <<meant, host, port, path, use_tls, host_hdr>>

Positions(s, c) == {i \in DOMAIN s : s[i] = c}

Bracketed(s) == s # <<>> /\ s[1] = "["

\* Where the host ends: at the first ']', the last ':', or with the text.
HostEnd(s) ==
  IF Bracketed(s) THEN Min(Positions(s, "]"))
  ELSE IF Positions(s, ":") # {} THEN Max(Positions(s, ":"))
  ELSE Len(s) + 1

\* Mutant: the opening bracket is taken along.
HostOfBug(s) == SubSeq(s, 1, HostEnd(s) - 1)

HostOf(s) == SubSeq(s, IF Bracketed(s) THEN 2 ELSE 1, HostEnd(s) - 1)

\* What follows the host, without the ']'.
Rest(s) == SubSeq(s, HostEnd(s) + (IF Bracketed(s) THEN 1 ELSE 0), Len(s))

Digit(c) == CHOOSE d \in 0 .. 9 : ToString(d) = c

\* atoi
Number(s) == FoldLeft(LAMBDA n, c : 10 * n + Digit(c), 0, s)

Default(tls) == IF tls THEN 443 ELSE 80

\* A text without ']', or with something else than a port after it, is refused.
WellFormed(s) ==
  Bracketed(s) => Positions(s, "]") # {} /\ (Rest(s) = <<>> \/ Rest(s)[1] = ":")

\* parse_url
Parses ==
  /\ stage = "valid"
  /\ LET s == Authority(meant)
     IN  IF s = <<>> \/ Len(s) >= HostCap \/ ~WellFormed(s)
           THEN stage' = "refused" /\ UNCHANGED <<host, port, path, use_tls>>
           ELSE /\ stage' = "parsed"
                /\ host' = HostOf(s)
                /\ port' = IF Rest(s) = <<>> THEN Default(meant.tls) ELSE Number(Tail(Rest(s)))
                /\ path' = IF meant.path = 0 THEN 1 ELSE Min({meant.path, PathCap - 1})
                /\ use_tls' = meant.tls
  /\ UNCHANGED <<meant, host_hdr>>

\* The Host header of http_handshake
Requests ==
  /\ stage = "parsed"
  /\ stage' = "asked"
  /\ host_hdr' =
       [host |-> IF IsV6(host) THEN <<"[">> \o host \o <<"]">> ELSE host,
        port |-> IF ~IsV6(host) /\ port = Default(use_tls) THEN <<>> ELSE <<port>>]
  /\ UNCHANGED <<meant, host, port, path, use_tls>>

Next == Given \/ Validates \/ Parses \/ Requests

Spec == Init /\ [][Next]_vars

-----------------------------------------------------------------------------
(* Properties *)

MeantPort(m) == IF m.port = <<>> THEN Default(m.tls) ELSE Number(m.port)

\* A path that fits is asked for as it was written, a missing one as "/"; one that
\* does not fit is cut at its buffer, and asked for so: parse_url does not refuse it.
PathAskedFor(m) ==
  /\ m.path = 0 => path = 1
  /\ m.path \in 1 .. PathCap - 1 => path = m.path
  /\ m.path >= PathCap => path = PathCap - 1

\* A URL that is accepted leads to the host and the port that its writer meant,
\* neither of which is ever cut: an IPv6 address loses its brackets and keeps its
\* colons, a missing port is the one of the scheme, and the server that reads the
\* Host header finds the same host and port in it.
UrlUnderstood ==
  /\ stage \in {"parsed", "asked"} =>
       /\ host = meant.host /\ port = MeantPort(meant) /\ use_tls = meant.tls
       /\ PathAskedFor(meant)
  /\ stage = "asked" =>
       /\ HostOf(host_hdr.host) = meant.host
       /\ MeantPort(meant) = IF host_hdr.port = <<>> THEN Default(meant.tls)
                            ELSE host_hdr.port[1]
============================================================================
