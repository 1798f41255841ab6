------------------------------ MODULE WsConnect ------------------------------
(***************************************************************************)
(* rtw_ws_connect_ex and rtw_ws_close (src/core/rtw_ws_client.c): every step *)
(* of setting a connection up may fail, and each failure has its own list   *)
(* of what to give back.  A bridge connects again and again, so what one    *)
(* attempt leaves behind adds up.                                          *)
(***************************************************************************)
EXTENDS Naturals

CONSTANTS
  MaxAddrs,      \* most addresses a host has
  MaxConnects    \* bound on the attempts

ASSUME ConnectConstants == MaxAddrs \in Nat \ {0} /\ MaxConnects \in Nat

Resources == {"addrs", "fd", "client", "headers", "rx", "ctx", "ssl"}

VARIABLES
  pc,
  use_tls, with_headers,   \* what this attempt is asked for
  rp,                      \* addresses not tried yet
  held,                    \* what is allocated
  twice,                   \* what was given back without being held
  attempts

connectVars == <<pc, use_tls, with_headers, rp, held, twice, attempts>>
asked == <<use_tls, with_headers>>

ConnectInit ==
  /\ pc = "none"
  /\ use_tls = FALSE /\ with_headers = FALSE
  /\ rp = 0 /\ held = {} /\ twice = {} /\ attempts = 0

Take(r) == held' = held \cup {r} /\ UNCHANGED twice

Give(S) == held' = held \ S /\ twice' = twice \cup (S \ held)

-----------------------------------------------------------------------------

\* rtw_ws_connect_ex is called, and parse_url, which takes nothing, accepts the
\* URL.
Call ==
  /\ attempts < MaxConnects
  /\ attempts' = attempts + 1
  /\ use_tls' \in BOOLEAN /\ with_headers' \in BOOLEAN
  /\ pc' = "resolve"
  /\ UNCHANGED <<rp, held, twice>>

Begins == pc = "none" /\ Call

\* getaddrinfo
Resolves ==
  /\ pc = "resolve"
  /\ \/ pc' = "none" /\ UNCHANGED <<rp, held, twice>>
     \/ pc' = "socket" /\ rp' \in 1 .. MaxAddrs /\ Take("addrs")
  /\ UNCHANGED <<asked, attempts>>

Socket ==
  /\ pc = "socket" /\ rp > 0
  /\ \/ rp' = rp - 1 /\ UNCHANGED <<pc, held, twice>>
     \/ pc' = "connect" /\ Take("fd") /\ UNCHANGED rp
  /\ UNCHANGED <<asked, attempts>>

NextAddress == rp' = rp - 1 /\ pc' = "socket" /\ Give({"fd"})

Connects ==
  /\ pc = "connect"
  /\ \/ NextAddress
     \/ pc' = "client" /\ Give({"addrs"}) /\ UNCHANGED rp
  /\ UNCHANGED <<asked, attempts>>

NoAddress ==
  /\ pc = "socket" /\ rp = 0
  /\ pc' = "none"
  /\ Give({"addrs"})
  /\ UNCHANGED <<asked, rp, attempts>>

\* calloc, strdup of the headers, malloc of rx: what failed, and what is given
\* back then.
AllocClient ==
  /\ pc = "client"
  /\ \/ pc' = "none" /\ Give({"fd"})
     \/ pc' = (IF with_headers THEN "headers" ELSE "rx")
        /\ Take("client")
  /\ UNCHANGED <<asked, rp, attempts>>

AllocHeaders ==
  /\ pc = "headers"
  /\ \/ pc' = "none" /\ Give({"fd", "client"})
     \/ pc' = "rx" /\ Take("headers")
  /\ UNCHANGED <<asked, rp, attempts>>

\* The pointers of the client that are not null.
Owned(S) == S \cap (IF with_headers THEN Resources ELSE Resources \ {"headers"})

RxFails == Give(Owned({"fd", "headers", "client"}))

AllocRx ==
  /\ pc = "rx"
  /\ \/ pc' = "none" /\ RxFails
     \/ pc' = (IF use_tls THEN "tls" ELSE "handshake")
        /\ Take("rx")
  /\ UNCHANGED <<asked, rp, attempts>>

-----------------------------------------------------------------------------

\* rtw_ws_close: ssl and ssl_ctx are tested, for tls_setup may have stopped
\* before the one or the other.
Close ==
  Give(Owned({"fd", "headers", "rx", "client"}) \cup (held \cap {"ssl", "ctx"}))

\* tls_setup: SSL_CTX_new, SSL_new, SSL_connect
SetsUpTls ==
  /\ pc \in {"tls", "ssl", "ssl_connect"}
  /\ \/ pc' = "none" /\ Close
     \/ pc = "tls" /\ pc' = "ssl" /\ Take("ctx")
     \/ pc = "ssl" /\ pc' = "ssl_connect" /\ Take("ssl")
     \/ pc = "ssl_connect" /\ pc' = "handshake" /\ UNCHANGED <<held, twice>>
  /\ UNCHANGED <<asked, rp, attempts>>

Handshakes ==
  /\ pc = "handshake"
  /\ \/ pc' = "none" /\ Close
     \/ pc' = "open" /\ UNCHANGED <<held, twice>>
  /\ UNCHANGED <<asked, rp, attempts>>

\* rtw_ws_close is called: of a connection that was closed before, or never
\* returned, it gives back what is not held.
CloseCall ==
  /\ pc' = "none" /\ Close
  /\ UNCHANGED <<asked, rp, attempts>>

Closes == pc = "open" /\ CloseCall

ConnectNext ==
  \/ Begins \/ Resolves \/ Socket \/ Connects \/ NoAddress
  \/ AllocClient \/ AllocHeaders \/ AllocRx \/ SetsUpTls \/ Handshakes \/ Closes

\* One connection after the other: whoever uses the client calls
\* rtw_ws_connect_ex only when it has no connection, and rtw_ws_close, once and
\* whole, only on one that was returned to it.
ConnectSpec == ConnectInit /\ [][ConnectNext]_connectVars

-----------------------------------------------------------------------------
(* Properties *)

\* A connection that was refused, or closed, has left nothing behind, at
\* whatever step it failed; one that is open owns all it needs, and no more.
NothingLeaked ==
  /\ pc = "none" => held = {}
  /\ pc = "open" =>
       held = Owned({"fd", "client", "headers", "rx"})
                \cup (IF use_tls THEN {"ctx", "ssl"} ELSE {})

\* Nothing is given back that is not held: no double free, no double close, no
\* null TLS object.
GivenBackOnce == twice = {}
=============================================================================
