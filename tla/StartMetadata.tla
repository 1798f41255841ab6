---------------------------- MODULE StartMetadata ----------------------------
(***************************************************************************)
(* The metadata of a start command on its way to the peer: rtw_bridge_start *)
(* copies it, split_metadata (src/mod/rtw_bridge.c) turns part of it into    *)
(* headers for the handshake, and rtw_build_start (src/core/rtw_protocol.c)  *)
(* makes the rest the customParameters of the start message.               *)
(*                                                                         *)
(* A JSON object is the sequence of its members, [key, kind, subs]: kind is  *)
(* "string", "empty" (a string without characters), "object" or "other",     *)
(* and subs has, for each member of an object, whether it is a string.       *)
(***************************************************************************)
EXTENDS Naturals, SequencesExt

CONSTANTS
  Members,       \* the members that the objects are made of
  MaxMembers,    \* bound on their number
  MaxLength,     \* RTW_MAX_META - 1
  Lengths        \* lengths that a metadata string may have

\* What the constants stand for.
MetadataConstants ==
  /\ Members \subseteq [key : {"authorization", "Authorization", "ws_headers", "custom"},
                        kind : {"string", "empty", "object", "other"},
                        subs : Seq(BOOLEAN)]
  /\ MaxMembers \in Nat /\ MaxLength \in Nat /\ Lengths \subseteq Nat

VARIABLES
  stage,       \* "none", "given", "copied", "split" or "sent"
  given,       \* the members of the object in the command
  metadata,    \* the string in the bridge: [json, members]
  headers,     \* the members that became headers: <<key, index>>
  params,      \* peer_custom_params: [json, members]
  custom       \* customParameters of the start message

vars == <<stage, given, metadata, headers, params, custom>>

Nothing == [json |-> TRUE, members |-> <<>>]
Opaque == [json |-> FALSE, members |-> <<>>]

Init ==
  /\ stage = "none" /\ given = <<>>
  /\ metadata = Nothing /\ headers = <<>> /\ params = Nothing /\ custom = <<>>

\* rtw_bridge_start is called with metadata.
Given ==
  /\ stage = "none"
  /\ stage' = "given"
  /\ given' \in UNION {[1 .. n -> Members] : n \in 0 .. MaxMembers}
  /\ UNCHANGED <<metadata, headers, params, custom>>

\* snprintf into metadata: a string that does not fit is cut, which leaves text
\* that is no JSON.
Copied ==
  /\ stage = "given"
  /\ stage' = "copied"
  /\ \E n \in Lengths :
       metadata' = IF n <= MaxLength THEN [json |-> TRUE, members |-> given] ELSE Opaque
  /\ UNCHANGED <<given, headers, params, custom>>

-----------------------------------------------------------------------------
(* split_metadata *)

\* Where the first member with this key is, or nowhere.
Find(s, key) == {i \in DOMAIN s : s[i].key = key /\ \A j \in 1 .. i - 1 : s[j].key # key}

\* The positions in S, from the first to the last.
Ordered(S) ==
  [k \in 1 .. Cardinality(S) |-> CHOOSE i \in S : Cardinality(S \cap (1 .. i)) = k]

\* s without the members at S
Without(s, S) ==
  LET kept == Ordered(DOMAIN s \ S)
  IN [i \in DOMAIN kept |-> s[kept[i]]]

\* The members that cJSON_DeleteItemFromObject takes for this one: it compares
\* without regard to case, and removes the first.
Deleted(s, key) ==
  LET alike == IF key = "authorization" THEN {"authorization", "Authorization"} ELSE {key}
  IN {i \in DOMAIN s : s[i].key \in alike /\ \A j \in 1 .. i - 1 : s[j].key \notin alike}

AuthItem(s) == {i \in Find(s, "authorization") : s[i].kind = "string"}

\* The headers that an object gives: its strings, in order.
SubHeaders(m) == Ordered({i \in DOMAIN m.subs : m.subs[i]})

HeaderItem(s) == {i \in Find(s, "ws_headers") : s[i].kind = "object"}

HeadersOf(s) ==
  (IF AuthItem(s) = {} THEN <<>> ELSE << <<"authorization", 0>> >>)
    \o (IF HeaderItem(s) = {} THEN <<>>
        ELSE LET m == s[CHOOSE i \in HeaderItem(s) : TRUE]
             IN [j \in DOMAIN SubHeaders(m) |-> <<"ws_headers", SubHeaders(m)[j]>>])

\* Mutant: the object with the headers is not removed.
RestBug(s) == IF AuthItem(s) = {} THEN s ELSE Without(s, Deleted(s, "authorization"))

Rest(s) ==
  Without(s, (IF AuthItem(s) = {} THEN {} ELSE Deleted(s, "authorization"))
               \cup (IF HeaderItem(s) = {} THEN {} ELSE Deleted(s, "ws_headers")))

Splits ==
  /\ stage = "copied"
  /\ stage' = "split"
  /\ headers' = IF metadata.json THEN HeadersOf(metadata.members) ELSE <<>>
  /\ params' = IF metadata.json
                 THEN [json |-> TRUE, members |-> Rest(metadata.members)]
                 ELSE Opaque
  /\ UNCHANGED <<given, metadata, custom>>

\* rtw_build_start: parameters that are no JSON object become an empty one.
BuildsStart ==
  /\ stage = "split"
  /\ stage' = "sent"
  /\ custom' = IF params.json THEN params.members ELSE <<>>
  /\ UNCHANGED <<given, metadata, headers, params>>

Next == Given \/ Copied \/ Splits \/ BuildsStart

Spec == Init /\ [][Next]_vars

-----------------------------------------------------------------------------
(* Properties *)

Keys(s) == {s[i].key : i \in DOMAIN s}

\* The metadata is what docs/ARCHITECTURE.md describes: one authorization, a
\* string, and one ws_headers, an object; no other key looks like them.
AsDocumented ==
  /\ "Authorization" \notin Keys(given)
  /\ \A i, j \in DOMAIN given :
       i # j => given[i].key # given[j].key \/ given[i].key = "custom"
  /\ \A i \in DOMAIN given :
       /\ given[i].key = "authorization" => given[i].kind = "string"
       /\ given[i].key = "ws_headers" => given[i].kind = "object"

\* t has the members of s at S, in their order.
Picks(t, s, S) ==
  \E at \in [DOMAIN t -> S] :
    /\ \A j, k \in DOMAIN t : j < k => at[j] < at[k]
    /\ \A i \in S : \E k \in DOMAIN t : at[k] = i
    /\ \A k \in DOMAIN t : t[k] = s[at[k]]

Fitted == metadata = [json |-> TRUE, members |-> given]

\* The members at S went to the headers: no member with another key, of each of
\* the two keys, in whatever case, one at most, and one exactly if it gave a header
\* (an object without strings gives none); of an object, each string is a header.
BecameHeaders(S) ==
  /\ \A i, j \in S : (given[i].key = "ws_headers" <=> given[j].key = "ws_headers") => i = j
  /\ \A i \in S : given[i].key # "custom"
  /\ <<"authorization", 0>> \in Range(headers) <=> \E i \in S : given[i].key # "ws_headers"
  /\ \A h \in Range(headers) : h[1] = "ws_headers" =>
       \E i \in S : given[i].key = "ws_headers"
  /\ \A i \in S : given[i].key = "ws_headers" =>
       \A k \in DOMAIN given[i].subs :
         given[i].subs[k] <=> <<"ws_headers", k>> \in Range(headers)

\* Whatever the members are, repeated, in another case or of another kind: what
\* is no parameter of the start message became headers, and all the rest is one,
\* in its order.  Metadata that was cut arrives neither way.
NoMemberIsLost ==
  stage = "sent" =>
    IF Fitted
      THEN \E S \in SUBSET DOMAIN given :
             BecameHeaders(S) /\ Picks(custom, given, DOMAIN given \ S)
      ELSE headers = <<>> /\ custom = <<>>

\* Documented members go the way that is documented: the authorization and each
\* of the ws_headers that is a string are headers and no parameters, the members
\* with other keys are parameters.
DocumentedWay ==
  stage = "sent" /\ AsDocumented /\ Fitted =>
    /\ Picks(custom, given, {i \in DOMAIN given : given[i].key = "custom"})
    /\ <<"authorization", 0>> \in Range(headers) <=> "authorization" \in Keys(given)
    /\ \A m \in Range(given) : m.key = "ws_headers" =>
         \A i \in DOMAIN m.subs : m.subs[i] <=> <<"ws_headers", i>> \in Range(headers)

\* Every member reaches the peer one way and one way only.
EachMemberOneWay == NoMemberIsLost /\ DocumentedWay
=============================================================================
