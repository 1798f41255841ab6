--------------------------- MODULE WsClientProof ----------------------------
(***************************************************************************)
(* The reading of frames, for buffers, chunks and TLS records of any length *)
(* and for any frames: rx is never written past its end, and on_text gets   *)
(* the texts of the peer once and in order, as soon as they are read.       *)
(*                                                                         *)
(* The invariant follows the stream from its writer to its reader.  Frames  *)
(* lie side by side from the end of the response on; what is read, decoded, *)
(* arrived and written are growing parts of the stream; rx begins with a     *)
(* frame whenever it began with one; and while rtw_ws_poll waits, the frame  *)
(* that rx begins with is not whole.                                        *)
(*                                                                         *)
(* The other two parts of the wire follow: a message's way through the      *)
(* buffers of the session, and the sending of texts, where the invariant    *)
(* takes the wire apart into the frames of the texts sent and the part of    *)
(* the current one that is written.                                         *)
(***************************************************************************)
EXTENDS MCWire, SequenceTheorems, WellFoundedInduction, TLAPS

Steps == {"none", "handshake", "idle", "read", "frames", "closed"}
SentFrames == [op : Ops, hdr : Nat \ {0, 1}, len : Nat, at : Nat]

WsTypeOK ==
  /\ pc \in Steps
  /\ use_tls \in BOOLEAN /\ accepted \in BOOLEAN
  /\ response \in Nat /\ sent \in Seq(SentFrames)
  /\ arrived \in Nat /\ records \subseteq Nat /\ decoded \in Nat
  /\ start \in Nat /\ base \in Nat /\ rx_len \in Nat /\ rx_cap \in Nat
  /\ delivered \in Seq(Nat) /\ failed \subseteq Nat

End(i) == sent[i].at + Size(sent[i])

\* The frames lie side by side, from the end of the response on.
FramesJoin ==
  /\ sent # <<>> => sent[1].at = response
  /\ \A i \in DOMAIN sent : sent[i].at >= response
  /\ \A i \in DOMAIN sent : i < Len(sent) => sent[i + 1].at = End(i)
  /\ \A i, j \in DOMAIN sent : i < j => End(i) <= sent[j].at

\* What is read has been decoded, what is decoded has arrived, what has arrived
\* was written.  Without TLS all that is decoded is read; with TLS what has
\* arrived ends with a record.
StreamInOrder ==
  /\ ReadTo <= decoded /\ decoded <= arrived /\ arrived <= Written
  /\ ~use_tls => decoded = ReadTo
  /\ \A r \in records : r <= arrived
  /\ use_tls /\ decoded < arrived => arrived \in records

\* Before the handshake is done.
Handshaking ==
  /\ pc = "none" => response = 0 /\ sent = <<>>
  /\ pc # "none" => response > 0
  /\ pc \in {"none", "handshake"} =>
       start = 0 /\ base = 0 /\ delivered = <<>> /\ failed = {}

\* The buffer, and the read that follows a poll.
RxHasRoom ==
  /\ pc \in {"idle", "read", "frames"} => rx_len <= rx_cap
  /\ pc = "read" => rx_cap - rx_len >= Chunk /\ arrived > decoded

Aligned == start = response => ~Skewed

\* The texts that rx has passed.
Passed ==
  start = response =>
    /\ TextsPassed = Range(delivered) \cup failed
    /\ \A j, k \in DOMAIN delivered : j < k => delivered[j] < delivered[k]

\* While rtw_ws_poll waits, rx holds no whole frame.
NoWholeFrame ==
  pc = "idle" /\ start = response => \A i \in AtHead : rx_len < Size(sent[i])

WsInv ==
  /\ WsTypeOK /\ FramesJoin /\ StreamInOrder /\ Handshaking /\ RxHasRoom
  /\ Aligned /\ Passed /\ NoWholeFrame

-----------------------------------------------------------------------------
(* Least elements *)

\* What Min chooses, where there is something to choose from.
LEMMA LeastChosen ==
  ASSUME NEW S, S \subseteq Nat, S # {}
  PROVE  Min(S) \in S /\ \A x \in S : Min(S) <= x
<1>1. PICK m \in S : \A x \in S : ~(<<x, m>> \in OpToRel(<, Nat))
  BY NatLessThanWellFounded, WFMin
<1>2. ASSUME NEW x \in S PROVE m <= x
  <2>1. ~(x < m)
    BY <1>1 DEF OpToRel
  <2> QED
    BY <2>1
<1> QED
  BY <1>2 DEF Min

\* The lesser of two.
LEMMA LeastOfTwo ==
  ASSUME NEW a \in Nat, NEW b \in Nat
  PROVE  /\ Min({a, b}) \in Nat
         /\ Min({a, b}) <= a /\ Min({a, b}) <= b
         /\ Min({a, b}) = a \/ Min({a, b}) = b
  BY LeastChosen, {a, b} # {}, {a, b} \subseteq Nat

-----------------------------------------------------------------------------
(* Frames *)

\* A frame has a place and at least the two bytes of a header.
LEMMA FrameBounds ==
  ASSUME WsTypeOK, NEW i \in DOMAIN sent
  PROVE  /\ sent[i].at \in Nat /\ sent[i].op \in Ops
         /\ Size(sent[i]) \in Nat /\ Size(sent[i]) >= 2
         /\ End(i) \in Nat /\ End(i) = sent[i].at + Size(sent[i])
<1>1. sent[i] \in SentFrames
  BY DEF WsTypeOK
<1> QED
  BY <1>1 DEF SentFrames, Size, End

\* The stream reaches to the end of its last frame.
LEMMA WrittenBounds ==
  ASSUME WsTypeOK, FramesJoin
  PROVE  /\ Written \in Nat /\ Written >= response
         /\ \A i \in DOMAIN sent : End(i) <= Written
<1>1. CASE sent = <<>>
  BY <1>1 DEF Written, WsTypeOK
<1>2. CASE sent # <<>>
  <2>1. Len(sent) \in Nat /\ Len(sent) \in DOMAIN sent /\ DOMAIN sent = 1 .. Len(sent)
    BY <1>2 DEF WsTypeOK
  <2>2. Written = End(Len(sent))
    BY <1>2 DEF Written, End
  <2>3. ASSUME NEW i \in DOMAIN sent PROVE End(i) <= Written
    <3>1. CASE i = Len(sent)
      BY <3>1, <2>2, <2>3, FrameBounds
    <3>2. CASE i < Len(sent)
      <4>1. End(i) <= sent[Len(sent)].at
        BY <3>2, <2>1, <2>3 DEF FramesJoin
      <4> QED
        BY <4>1, <2>1, <2>2, <2>3, FrameBounds
    <3> QED
      BY <3>1, <3>2, <2>1, <2>3
  <2>4. sent[Len(sent)].at >= response
    BY <2>1 DEF FramesJoin
  <2>5. response \in Nat
    BY DEF WsTypeOK
  <2> QED
    BY <2>1, <2>2, <2>3, <2>4, <2>5, FrameBounds
<1> QED
  BY <1>1, <1>2

\* At most one frame begins where rx does, those before it end there or earlier,
\* and those after it begin at its end or later.
LEMMA HeadDivides ==
  ASSUME WsTypeOK, FramesJoin, NEW i \in AtHead, NEW j \in DOMAIN sent
  PROVE  /\ i \in DOMAIN sent /\ i \in Nat /\ j \in Nat
         /\ j < i => End(j) <= base
         /\ i < j => End(i) <= sent[j].at
         /\ sent[j].at = base => j = i
<1>1. i \in DOMAIN sent /\ sent[i].at = base /\ i \in Nat /\ j \in Nat
  BY DEF AtHead, WsTypeOK
<1>2. (j < i => End(j) <= base) /\ (i < j => End(i) <= sent[j].at)
  BY <1>1 DEF FramesJoin
<1>3. sent[j].at = base => j = i
  BY <1>1, <1>2, FrameBounds
<1> QED
  BY <1>1, <1>2, <1>3

-----------------------------------------------------------------------------
(* io_read *)

\* With something to return and room for it, io_read reads on in the stream: no
\* further than what has arrived, no more than there is room for, and with TLS
\* to the end of a record.
LEMMA ReadsOn ==
  ASSUME WsTypeOK, StreamInOrder, NEW room \in Nat, CanRead(ReadTo),
         Io_read(ReadTo, room)
  PROVE  /\ decoded' \in Nat /\ rx_len' \in Nat /\ records' \subseteq Nat
         /\ base + rx_len' <= decoded' /\ decoded' <= arrived
         /\ rx_len' <= rx_len + room
         /\ ~use_tls => decoded' = base + rx_len'
         /\ \A r \in records' : r <= arrived
         /\ use_tls /\ decoded' < arrived => arrived \in records'
<1> DEFINE to == TakenUpTo(ReadTo, room)
<1>1. /\ base \in Nat /\ rx_len \in Nat /\ decoded \in Nat /\ arrived \in Nat
      /\ records \subseteq Nat /\ use_tls \in BOOLEAN
      /\ ReadTo \in Nat /\ ReadTo = base + rx_len /\ ReadTo + room \in Nat
      /\ ReadTo <= decoded /\ decoded <= arrived
  BY DEF WsTypeOK, ReadTo, StreamInOrder
<1>2. /\ to \in Nat /\ to >= decoded /\ to <= arrived
      /\ ~use_tls => to <= ReadTo + room
  <2>1. CASE ~use_tls
    <3>1. to = Min({arrived, ReadTo + room})
      BY <2>1 DEF TakenUpTo
    <3> HIDE DEF to
    <3> QED
      BY <3>1, <1>1, <2>1, LeastOfTwo DEF StreamInOrder
  <2>2. CASE use_tls /\ decoded > ReadTo
    <3>1. to = decoded
      BY <2>2, <1>1 DEF TakenUpTo
    <3> QED
      BY <3>1, <2>2, <1>1
  <2>3. CASE use_tls /\ decoded = ReadTo
    <3> DEFINE next == {r \in records : r > decoded}
    <3>1. to = Min(next)
      BY <2>3, <1>1 DEF TakenUpTo
    <3>2. arrived \in next
      BY <2>3, <1>1 DEF CanRead, StreamInOrder
    <3>3. next \subseteq Nat /\ \A r \in next : r > decoded
      BY <1>1
    <3> HIDE DEF to, next
    <3>4. Min(next) \in next /\ Min(next) <= arrived
      BY <3>2, <3>3, LeastChosen
    <3>5. Min(next) \in Nat /\ Min(next) > decoded
      BY <3>3, <3>4
    <3> QED
      BY <3>1, <3>4, <3>5, <2>3, <1>1
  <2> QED
    BY <2>1, <2>2, <2>3, <1>1
<1>3. decoded' = to /\ records' = {r \in records : r > to}
      /\ rx_len' = Min({to, ReadTo + room}) - base
  BY DEF Io_read
<1> HIDE DEF to
<1>4. PICK m : m = Min({to, ReadTo + room})
  OBVIOUS
<1>5. m \in Nat /\ m <= to /\ m <= ReadTo + room /\ (m = to \/ m = ReadTo + room)
  BY <1>4, <1>1, <1>2, LeastOfTwo
<1>6. /\ m - base \in Nat /\ base + (m - base) = m
      /\ m - base <= rx_len + room
  BY <1>1, <1>2, <1>5
<1>7. ~use_tls => to = m
  BY <1>1, <1>2, <1>5
<1>8. use_tls /\ to < arrived => arrived \in {r \in records : r > to}
  BY <1>1, <1>2 DEF StreamInOrder
<1>9. \A r \in records : r <= arrived
  BY DEF StreamInOrder
<1> QED
  BY <1>1, <1>2, <1>3, <1>4, <1>5, <1>6, <1>7, <1>8, <1>9

-----------------------------------------------------------------------------
(* The peer and the network *)

LEMMA WsStarts == Init => WsInv
<1> SUFFICES ASSUME Init PROVE WsInv
  OBVIOUS
<1>1. WsTypeOK
  <2>1. sent \in Seq(SentFrames) /\ delivered \in Seq(Nat)
    BY DEF Init
  <2> QED
    BY <2>1, WsConstants DEF Init, WsTypeOK, Steps
<1>2. FramesJoin /\ Handshaking /\ RxHasRoom /\ NoWholeFrame
  BY DEF Init, FramesJoin, Handshaking, RxHasRoom, NoWholeFrame
<1>3. Written = 0 /\ ReadTo = 0
  BY DEF Init, Written, ReadTo
<1>4. StreamInOrder /\ Aligned
  BY <1>3 DEF Init, StreamInOrder, Aligned, Skewed
<1>5. TextsPassed = {} /\ Range(delivered) = {} /\ failed = {} /\ DOMAIN delivered = {}
  BY DEF Init, TextsPassed, Range
<1>6. Passed
  BY <1>5 DEF Passed
<1> QED
  BY <1>1, <1>2, <1>4, <1>6 DEF WsInv

LEMMA AsksKeeps ==
  ASSUME WsInv, Asks
  PROVE  WsInv'
<1> USE DEF WsInv
<1>1. /\ pc = "none" /\ pc' = "handshake" /\ response' \in Nat /\ response' > 0
      /\ use_tls' \in BOOLEAN /\ accepted' \in BOOLEAN
      /\ sent = <<>> /\ start = 0 /\ base = 0 /\ delivered = <<>> /\ failed = {}
      /\ response = 0
      /\ UNCHANGED <<sent, arrived, rxVars, textVars>>
  BY WsConstants DEF Asks, Handshaking
<1>2. WsTypeOK'
  BY <1>1 DEF WsTypeOK, Steps, rxVars, textVars
<1>3. FramesJoin' /\ Handshaking' /\ RxHasRoom' /\ NoWholeFrame'
  BY <1>1 DEF FramesJoin, Handshaking, RxHasRoom, NoWholeFrame, rxVars, textVars
<1>4. Written = 0 /\ Written' = response' /\ ReadTo' = ReadTo
  BY <1>1 DEF Written, ReadTo, rxVars
<1>5. arrived = 0 /\ decoded = 0 /\ ReadTo = 0
  BY <1>4, <1>1 DEF StreamInOrder, WsTypeOK, ReadTo
<1>6. StreamInOrder'
  BY <1>1, <1>4, <1>5 DEF StreamInOrder, rxVars, WsTypeOK
<1>7. start' # response'
  BY <1>1 DEF rxVars
<1>8. Aligned' /\ Passed'
  BY <1>7 DEF Aligned, Passed
<1> QED
  BY <1>2, <1>3, <1>6, <1>8

\* A new frame begins where the stream ended, and rx has not come so far.
LEMMA PeerSendsKeeps ==
  ASSUME WsInv, PeerSends
  PROVE  WsInv'
<1> USE DEF WsInv
<1>1. PICK f \in Frames :
        sent' = Append(sent, [op |-> f.op, hdr |-> f.hdr, len |-> f.len, at |-> Written])
  BY DEF PeerSends
<1> DEFINE g == [op |-> f.op, hdr |-> f.hdr, len |-> f.len, at |-> Written]
<1>0. PICK n : n = Len(sent)
  OBVIOUS
<1>2. UNCHANGED <<pc, use_tls, response, accepted, arrived, rxVars, textVars>> /\ pc # "none"
  BY DEF PeerSends
<1>3. Written \in Nat /\ Written >= response /\ \A i \in DOMAIN sent : End(i) <= Written
  BY WrittenBounds
<1>4. g \in SentFrames /\ g.at = Written /\ Size(g) \in Nat /\ Size(g) >= 2
  BY <1>3, WsConstants DEF SentFrames, Size
<1> HIDE DEF g
<1>5. /\ n \in Nat /\ DOMAIN sent = 1 .. n /\ DOMAIN sent' = 1 .. n + 1
      /\ Len(sent') = n + 1 /\ sent' \in Seq(SentFrames)
      /\ \A i \in 1 .. n : sent'[i] = sent[i]
      /\ sent'[n + 1] = g
  BY <1>0, <1>1, <1>4 DEF WsTypeOK, g
<1>6. WsTypeOK'
  BY <1>2, <1>5 DEF WsTypeOK, rxVars, textVars
<1>7. /\ sent' # <<>>
      /\ \A i \in 1 .. n : End(i)' = End(i)
      /\ End(n + 1)' = Written + Size(g)
      /\ Written' = Written + Size(g)
  <2>1. sent' # <<>>
    BY <1>5
  <2>2. \A i \in 1 .. n : End(i)' = End(i)
    BY <1>5 DEF End, Size
  <2>3. End(n + 1)' = Written + Size(g)
    BY <1>4, <1>5 DEF End, Size
  <2>4. Written' = End(n + 1)'
    BY <2>1, <1>5 DEF Written, End
  <2> QED
    BY <2>1, <2>2, <2>3, <2>4
<1>8. FramesJoin'
  <2>1. sent'[1].at = response
    <3>1. CASE n = 0
      BY <3>1, <1>0, <1>4, <1>5 DEF Written
    <3>2. CASE n > 0
      BY <3>2, <1>5 DEF FramesJoin
    <3> QED
      BY <3>1, <3>2, <1>5
  <2>2. \A i \in 1 .. n + 1 : sent'[i].at >= response
    BY <1>3, <1>4, <1>5 DEF FramesJoin
  <2>3. ASSUME NEW i \in 1 .. n + 1, i < n + 1 PROVE sent'[i + 1].at = End(i)'
    <3>1. i \in 1 .. n /\ End(i)' = End(i)
      BY <2>3, <1>5, <1>7
    <3>2. CASE i < n
      BY <3>1, <3>2, <1>0, <1>5 DEF FramesJoin
    <3>3. CASE i = n
      <4>1. sent # <<>>
        BY <3>1, <1>5
      <4>2. Written = End(n)
        BY <4>1, <1>0 DEF Written, End
      <4> QED
        BY <3>1, <3>3, <4>2, <1>4, <1>5
    <3> QED
      BY <3>1, <3>2, <3>3, <1>5
  <2>4. ASSUME NEW i \in 1 .. n + 1, NEW j \in 1 .. n + 1, i < j
        PROVE  End(i)' <= sent'[j].at
    <3>1. i \in 1 .. n /\ End(i)' = End(i)
      BY <2>4, <1>5, <1>7
    <3>2. CASE j \in 1 .. n
      BY <3>1, <3>2, <2>4, <1>5 DEF FramesJoin
    <3>3. CASE j = n + 1
      BY <3>1, <3>3, <1>3, <1>4, <1>5
    <3> QED
      BY <3>2, <3>3, <1>5
  <2> QED
    BY <2>1, <2>2, <2>3, <2>4, <1>2, <1>5 DEF FramesJoin
<1>9. ReadTo' = ReadTo /\ ReadTo \in Nat /\ ReadTo = base + rx_len /\ base \in Nat /\ rx_len \in Nat
  BY <1>2 DEF ReadTo, rxVars, WsTypeOK
<1>10. arrived \in Nat /\ decoded \in Nat /\ arrived <= Written + Size(g)
       /\ base <= Written /\ (base = Written => rx_len = 0)
  BY <1>3, <1>4, <1>9 DEF StreamInOrder, WsTypeOK
<1>11. StreamInOrder'
  BY <1>2, <1>7, <1>9, <1>10 DEF StreamInOrder, rxVars
<1>12. Handshaking' /\ RxHasRoom'
  BY <1>2 DEF Handshaking, RxHasRoom, rxVars, textVars
<1>13. /\ AtHead \subseteq AtHead'
       /\ base = Written => n + 1 \in AtHead'
       /\ \A i \in AtHead' : i \in AtHead \/ (i = n + 1 /\ base = Written)
  BY <1>2, <1>4, <1>5 DEF AtHead, rxVars
<1>14. base' = base /\ start' = start /\ response' = response /\ rx_len' = rx_len
       /\ pc' = pc /\ delivered' = delivered /\ failed' = failed
  BY <1>2 DEF rxVars, textVars
<1>15. Aligned'
  BY <1>13, <1>14 DEF Aligned, Skewed
<1>16. TextsPassed' = TextsPassed
  <2>1. ~(Written + Size(g) <= base)
    BY <1>3, <1>4, <1>9, <1>10
  <2>2. \A i \in 1 .. n + 1 : i \in TextsPassed' <=> i \in TextsPassed
    <3>1. \A i \in 1 .. n : sent'[i] = sent[i]
      BY <1>5
    <3>2. n + 1 \notin TextsPassed'
      BY <2>1, <1>7, <1>14 DEF TextsPassed, End
    <3>3. n + 1 \notin TextsPassed
      BY <1>5 DEF TextsPassed
    <3>4. \A i \in 1 .. n : i \in TextsPassed' <=> i \in TextsPassed
      BY <3>1, <1>5, <1>14 DEF TextsPassed, Size
    <3> QED
      BY <3>2, <3>3, <3>4, <1>5
  <2>3. TextsPassed \subseteq 1 .. n + 1 /\ TextsPassed' \subseteq 1 .. n + 1
    BY <1>5 DEF TextsPassed
  <2> QED
    BY <2>2, <2>3
<1>17. Passed'
  BY <1>14, <1>16 DEF Passed
<1>18. NoWholeFrame'
  <2> SUFFICES ASSUME pc = "idle", start = response, NEW i \in AtHead'
               PROVE  rx_len < Size(sent'[i])
    BY <1>14 DEF NoWholeFrame, Size
  <2>1. CASE i \in AtHead
    <3>1. i \in 1 .. n
      BY <2>1, <1>5 DEF AtHead
    <3> QED
      BY <2>1, <3>1, <1>5 DEF NoWholeFrame
  <2>2. CASE i = n + 1 /\ base = Written
    BY <2>2, <1>4, <1>5, <1>10
  <2> QED
    BY <2>1, <2>2, <1>13
<1> QED
  BY <1>6, <1>8, <1>11, <1>12, <1>15, <1>17, <1>18

LEMMA ArrivesKeeps ==
  ASSUME WsInv, Arrives
  PROVE  WsInv'
<1> USE DEF WsInv
<1>1. PICK n \in 1 .. RecordMax :
        /\ arrived + n <= Written
        /\ arrived' = arrived + n
        /\ records' = IF use_tls THEN records \cup {arrived + n} ELSE records
  BY DEF Arrives
<1>2. UNCHANGED <<pc, use_tls, response, accepted, sent, decoded, start, base, rx_len, rx_cap, textVars>>
  BY DEF Arrives
<1>3. PICK m : m = arrived + n
  OBVIOUS
<1>4. /\ m \in Nat /\ arrived \in Nat /\ decoded \in Nat /\ arrived < m /\ m <= Written
      /\ records \subseteq Nat /\ ReadTo \in Nat
  BY <1>1, <1>3, WsConstants DEF WsTypeOK, ReadTo
<1>5. arrived' = m /\ records' \subseteq Nat
      /\ records' = IF use_tls THEN records \cup {m} ELSE records
  BY <1>1, <1>3, <1>4
<1>6. WsTypeOK'
  BY <1>2, <1>4, <1>5 DEF WsTypeOK, textVars
<1>7. Written' = Written /\ ReadTo' = ReadTo
  BY <1>2 DEF Written, ReadTo, Size
<1>8. \A r \in records' : r <= m
  BY <1>4, <1>5 DEF StreamInOrder
<1>9. StreamInOrder'
  BY <1>2, <1>4, <1>5, <1>7, <1>8 DEF StreamInOrder
<1>10. FramesJoin' /\ Handshaking'
  BY <1>2 DEF FramesJoin, Handshaking, textVars, End, Size
<1>11. RxHasRoom'
  BY <1>2, <1>4, <1>5 DEF RxHasRoom
<1>12. Aligned' /\ Passed' /\ NoWholeFrame'
  BY <1>2, <1>7 DEF Aligned, Skewed, AtHead, Passed, TextsPassed, NoWholeFrame, Size, textVars
<1> QED
  BY <1>6, <1>9, <1>10, <1>11, <1>12

-----------------------------------------------------------------------------
(* The handshake and the poll *)

\* What holds of the stream does not depend on what the client does with it.
LEMMA ClientLeavesStream ==
  ASSUME WsInv, UNCHANGED streamVars
  PROVE  /\ FramesJoin' /\ Written' = Written
         /\ UNCHANGED <<use_tls, response, accepted, sent, arrived>>
  BY DEF WsInv, FramesJoin, Written, End, Size, streamVars

\* The place where rx begins, and what it has passed, depend on base alone.
LEMMA SameBase ==
  ASSUME WsInv, UNCHANGED streamVars, UNCHANGED <<start, base, delivered, failed>>
  PROVE  Aligned' /\ Passed' /\ AtHead' = AtHead
  BY DEF WsInv, Aligned, Skewed, AtHead, Written, Passed, TextsPassed, Size, streamVars

LEMMA HandshakeReadsKeeps ==
  ASSUME WsInv, HandshakeReads
  PROVE  WsInv'
<1> USE DEF WsInv
<1>1. /\ pc = "handshake" /\ pc' = pc /\ base = 0 /\ rx_len < HandshakeCap
      /\ CanRead(rx_len) /\ Io_read(rx_len, HandshakeCap - rx_len)
      /\ UNCHANGED <<streamVars, start, base, rx_cap, textVars>>
  BY DEF HandshakeReads, Handshaking
<1>2. ReadTo = rx_len /\ HandshakeCap - rx_len \in Nat
  BY <1>1, WsConstants DEF ReadTo, WsTypeOK
<1>3. CanRead(ReadTo) /\ Io_read(ReadTo, HandshakeCap - rx_len)
  BY <1>1, <1>2
<1>4. /\ decoded' \in Nat /\ rx_len' \in Nat /\ records' \subseteq Nat
      /\ base + rx_len' <= decoded' /\ decoded' <= arrived
      /\ ~use_tls => decoded' = base + rx_len'
      /\ \A r \in records' : r <= arrived
      /\ use_tls /\ decoded' < arrived => arrived \in records'
  BY <1>2, <1>3, ReadsOn
<1>5. FramesJoin' /\ Written' = Written
      /\ UNCHANGED <<use_tls, response, accepted, sent, arrived>>
  BY <1>1, ClientLeavesStream
<1>6. WsTypeOK'
  BY <1>1, <1>4, <1>5 DEF WsTypeOK, textVars
<1>7. ReadTo' = base + rx_len'
  BY <1>1 DEF ReadTo
<1>8. StreamInOrder'
  BY <1>4, <1>5, <1>7 DEF StreamInOrder
<1>9. Handshaking' /\ RxHasRoom' /\ NoWholeFrame'
  BY <1>1, <1>5 DEF Handshaking, RxHasRoom, NoWholeFrame, textVars
<1>10. Aligned' /\ Passed'
  BY <1>1, SameBase DEF textVars
<1> QED
  BY <1>5, <1>6, <1>8, <1>9, <1>10

\* If the handshake has read just the response, rx begins with the first frame.
LEMMA HandshakeDoneKeeps ==
  ASSUME WsInv, HandshakeDone
  PROVE  WsInv'
<1> USE DEF WsInv
<1>1. /\ pc = "handshake" /\ pc' \in {"idle", "closed"}
      /\ start' = rx_len /\ base' = rx_len /\ rx_len' = rx_len - rx_len
      /\ base = 0 /\ delivered = <<>> /\ failed = {} /\ response > 0
      /\ UNCHANGED <<streamVars, records, decoded, rx_cap, textVars>>
  BY DEF HandshakeDone, Discarded, Handshaking
<1>2. rx_len \in Nat /\ rx_len' = 0 /\ response \in Nat
  BY <1>1 DEF WsTypeOK
<1>3. FramesJoin' /\ Written' = Written
      /\ UNCHANGED <<use_tls, response, accepted, sent, arrived>>
  BY <1>1, ClientLeavesStream
<1>4. WsTypeOK'
  BY <1>1, <1>2, <1>3 DEF WsTypeOK, Steps, textVars
<1>5. ReadTo' = ReadTo
  BY <1>1, <1>2 DEF ReadTo
<1>6. StreamInOrder'
  BY <1>1, <1>3, <1>5 DEF StreamInOrder
<1>7. Handshaking'
  BY <1>1, <1>3 DEF Handshaking
<1>8. RxHasRoom'
  BY <1>1, <1>2 DEF RxHasRoom, WsTypeOK
<1>9. Aligned'
  <2> SUFFICES ASSUME rx_len = response, rx_len # Written
               PROVE  AtHead' # {}
    BY <1>1, <1>3 DEF Aligned, Skewed
  <2>1. sent # <<>>
    BY DEF Written
  <2>2. 1 \in DOMAIN sent /\ sent[1].at = response
    BY <2>1 DEF FramesJoin, WsTypeOK
  <2> QED
    BY <2>2, <1>1, <1>3 DEF AtHead
<1>10. Passed'
  <2> SUFFICES ASSUME rx_len = response
               PROVE  TextsPassed' = {}
    <3>1. delivered' = <<>> /\ failed' = {}
      BY <1>1 DEF textVars
    <3>2. Range(<<>>) = {} /\ DOMAIN <<>> = {}
      BY DEF Range
    <3> QED
      BY <3>1, <3>2, <1>1, <1>3 DEF Passed
  <2>1. ASSUME NEW i \in DOMAIN sent PROVE ~(sent[i].at + Size(sent[i]) <= rx_len)
    BY <2>1, <1>2, FrameBounds DEF FramesJoin
  <2> QED
    BY <2>1, <1>1, <1>3 DEF TextsPassed, Size
<1>11. NoWholeFrame'
  <2>1. ASSUME NEW i \in AtHead' PROVE 0 < Size(sent[i])
    <3>1. i \in DOMAIN sent
      BY <1>3 DEF AtHead
    <3> QED
      BY <3>1, FrameBounds
  <2> QED
    BY <2>1, <1>2, <1>3 DEF NoWholeFrame, Size
<1> QED
  BY <1>3, <1>4, <1>6, <1>7, <1>8, <1>9, <1>10, <1>11

LEMMA PollReadableKeeps ==
  ASSUME WsInv, PollReadable
  PROVE  WsInv'
<1> USE DEF WsInv
<1>1. /\ pc = "idle" /\ pc' = "read" /\ arrived > decoded
      /\ rx_cap' = Max({rx_cap, rx_len + Chunk})
      /\ UNCHANGED <<streamVars, records, decoded, start, base, rx_len, textVars>>
  BY DEF PollReadable, GrownCap
<1>2. PICK c : c = Max({rx_cap, rx_len + Chunk})
  OBVIOUS
<1>3. c \in Nat /\ c - rx_len >= Chunk /\ rx_len <= c
  <2>1. rx_cap \in Nat /\ rx_len \in Nat /\ Chunk \in Nat
    BY WsConstants DEF WsTypeOK
  <2>2. PICK d \in {rx_cap, rx_len + Chunk} : d >= rx_cap /\ d >= rx_len + Chunk
    BY <2>1
  <2>3. c \in {rx_cap, rx_len + Chunk} /\ c >= rx_len + Chunk
    BY <1>2, <2>2 DEF Max
  <2> QED
    BY <2>1, <2>3
<1>4. FramesJoin' /\ Written' = Written
      /\ UNCHANGED <<use_tls, response, accepted, sent, arrived>>
  BY <1>1, ClientLeavesStream
<1>5. WsTypeOK'
  BY <1>1, <1>2, <1>3, <1>4 DEF WsTypeOK, Steps, textVars
<1>6. StreamInOrder'
  BY <1>1, <1>4 DEF StreamInOrder, ReadTo
<1>7. Handshaking' /\ NoWholeFrame'
  BY <1>1, <1>4 DEF Handshaking, NoWholeFrame
<1>8. RxHasRoom'
  BY <1>1, <1>2, <1>3, <1>4 DEF RxHasRoom
<1>9. Aligned' /\ Passed'
  BY <1>1, SameBase DEF textVars
<1> QED
  BY <1>4, <1>5, <1>6, <1>7, <1>8, <1>9

LEMMA PollReadsKeeps ==
  ASSUME WsInv, PollReads
  PROVE  WsInv'
<1> USE DEF WsInv
<1>1. /\ pc = "read" /\ pc' = "frames"
      /\ Io_read(ReadTo, rx_cap - rx_len)
      /\ UNCHANGED <<streamVars, start, base, rx_cap, textVars>>
  BY DEF PollReads
<1>2. PICK room : room = rx_cap - rx_len
  OBVIOUS
<1>3. /\ room \in Nat /\ rx_len \in Nat /\ rx_cap \in Nat /\ rx_len + room = rx_cap
      /\ CanRead(ReadTo) /\ Io_read(ReadTo, room)
  BY <1>1, <1>2 DEF RxHasRoom, WsTypeOK, CanRead
<1>4. /\ decoded' \in Nat /\ rx_len' \in Nat /\ records' \subseteq Nat
      /\ base + rx_len' <= decoded' /\ decoded' <= arrived
      /\ rx_len' <= rx_cap
      /\ ~use_tls => decoded' = base + rx_len'
      /\ \A r \in records' : r <= arrived
      /\ use_tls /\ decoded' < arrived => arrived \in records'
  BY <1>3, ReadsOn
<1>5. FramesJoin' /\ Written' = Written
      /\ UNCHANGED <<use_tls, response, accepted, sent, arrived>>
  BY <1>1, ClientLeavesStream
<1>6. WsTypeOK'
  BY <1>1, <1>4, <1>5 DEF WsTypeOK, Steps, textVars
<1>7. ReadTo' = base + rx_len'
  BY <1>1 DEF ReadTo
<1>8. StreamInOrder'
  BY <1>4, <1>5, <1>7 DEF StreamInOrder
<1>9. Handshaking' /\ NoWholeFrame'
  BY <1>1, <1>5 DEF Handshaking, NoWholeFrame
<1>10. RxHasRoom'
  BY <1>1, <1>4 DEF RxHasRoom
<1>11. Aligned' /\ Passed'
  BY <1>1, SameBase DEF textVars
<1> QED
  BY <1>5, <1>6, <1>8, <1>9, <1>10, <1>11

-----------------------------------------------------------------------------
(* process_frames *)

\* Moving the rest of rx to the front leaves rx where it was in the stream.
LEMMA ConsumeKeeps ==
  ASSUME WsInv, pc = "frames", pc' = "frames", NEW n \in Nat, n <= rx_len, Consume(n),
         UNCHANGED streamVars, delivered' \in Seq(Nat), failed' \subseteq Nat
  PROVE  /\ WsTypeOK' /\ FramesJoin' /\ StreamInOrder' /\ Handshaking' /\ RxHasRoom'
         /\ NoWholeFrame'
<1> USE DEF WsInv
<1>1. /\ base' = base + n /\ rx_len' = rx_len - n
      /\ UNCHANGED <<records, decoded, start, rx_cap>>
  BY DEF Consume
<1>2. base \in Nat /\ rx_len \in Nat /\ rx_cap \in Nat /\ rx_len <= rx_cap
  BY DEF WsTypeOK, RxHasRoom
<1>3. PICK b, l : b = base + n /\ l = rx_len - n
  OBVIOUS
<1>4. b \in Nat /\ l \in Nat /\ b + l = base + rx_len /\ l <= rx_cap
  BY <1>2, <1>3
<1>5. base' = b /\ rx_len' = l
  BY <1>1, <1>3
<1>6. FramesJoin' /\ Written' = Written
      /\ UNCHANGED <<use_tls, response, accepted, sent, arrived>>
  BY ClientLeavesStream
<1>7. WsTypeOK'
  BY <1>1, <1>4, <1>5, <1>6 DEF WsTypeOK, Steps
<1>8. ReadTo' = ReadTo
  BY <1>4, <1>5 DEF ReadTo
<1>9. StreamInOrder'
  BY <1>1, <1>6, <1>8 DEF StreamInOrder
<1>10. Handshaking' /\ NoWholeFrame'
  BY <1>6 DEF Handshaking, NoWholeFrame
<1>11. RxHasRoom'
  BY <1>1, <1>4, <1>5 DEF RxHasRoom
<1> QED
  BY <1>6, <1>7, <1>9, <1>10, <1>11

\* The frame at the head is whole and is passed: rx begins with the next frame,
\* or at the end of the stream, and no other frame is passed.
LEMMA HeadPassed ==
  ASSUME WsInv, UNCHANGED streamVars, NEW i \in AtHead, Consume(Size(sent[i]))
  PROVE  /\ Aligned'
         /\ TextsPassed' =
              IF sent[i].op \in {"text", "fragment"} THEN TextsPassed \cup {i} ELSE TextsPassed
<1> USE DEF WsInv
<1>1. i \in DOMAIN sent /\ sent[i].at = base /\ DOMAIN sent = 1 .. Len(sent) /\ Len(sent) \in Nat
  BY DEF AtHead, WsTypeOK
<1>2. /\ Size(sent[i]) \in Nat /\ Size(sent[i]) >= 2 /\ base \in Nat /\ End(i) \in Nat
      /\ End(i) = base + Size(sent[i])
  BY <1>1, FrameBounds DEF WsTypeOK
<1>3. base' = End(i) /\ start' = start
  BY <1>2 DEF Consume
<1>4. Written' = Written /\ UNCHANGED <<use_tls, response, accepted, sent, arrived>>
  BY ClientLeavesStream
<1>5. Aligned'
  <2>1. CASE i < Len(sent)
    <3>1. i + 1 \in DOMAIN sent /\ sent[i + 1].at = End(i)
      BY <2>1, <1>1 DEF FramesJoin
    <3>2. AtHead' # {}
      BY <3>1, <1>3, <1>4 DEF AtHead
    <3> QED
      BY <3>2 DEF Aligned, Skewed
  <2>2. CASE i = Len(sent)
    <3>1. sent # <<>>
      BY <1>1
    <3>2. Written = End(i)
      BY <3>1, <2>2 DEF Written, End
    <3> QED
      BY <3>2, <1>3, <1>4 DEF Aligned, Skewed
  <2> QED
    BY <2>1, <2>2, <1>1
<1>6. ASSUME NEW j \in DOMAIN sent
      PROVE  End(j) <= End(i) <=> (End(j) <= base \/ j = i)
  <2>1. /\ End(j) \in Nat /\ End(j) = sent[j].at + Size(sent[j]) /\ sent[j].at \in Nat
        /\ Size(sent[j]) \in Nat /\ Size(sent[j]) >= 2
    BY <1>6, FrameBounds
  <2>2. /\ i \in Nat /\ j \in Nat /\ (j < i => End(j) <= base)
        /\ i < j => End(i) <= sent[j].at
    BY <1>6, HeadDivides
  <2>3. CASE j < i
    BY <2>1, <2>2, <2>3, <1>2
  <2>4. CASE i < j
    BY <2>1, <2>2, <2>4, <1>2
  <2>5. CASE j = i
    BY <2>1, <2>5
  <2> QED
    BY <2>2, <2>3, <2>4, <2>5
<1>7. TextsPassed = {j \in DOMAIN sent : sent[j].op \in {"text", "fragment"} /\ End(j) <= base}
  BY DEF TextsPassed, End
<1>8. TextsPassed' = {j \in DOMAIN sent : sent[j].op \in {"text", "fragment"} /\ End(j) <= End(i)}
  BY <1>3, <1>4 DEF TextsPassed, End, Size
<1>9. TextsPassed' = {j \in DOMAIN sent : sent[j].op \in {"text", "fragment"}
                                          /\ (End(j) <= base \/ j = i)}
  BY <1>6, <1>8
<1> QED
  BY <1>1, <1>5, <1>7, <1>9

\* on_text gets the text that follows those that it got.
LEMMA FrameTextKeeps ==
  ASSUME WsInv, FrameText
  PROVE  WsInv'
<1> USE DEF WsInv
<1>1. PICK i \in AtHead :
        /\ sent[i].op \in {"text", "fragment"} /\ rx_len >= Size(sent[i])
        /\ delivered' = Append(delivered, i)
        /\ Consume(Size(sent[i]))
  BY DEF FrameText, Needed
<1>2. pc = "frames" /\ pc' = "frames" /\ UNCHANGED streamVars /\ failed' = failed
      /\ start' = start /\ response' = response
  BY <1>1 DEF FrameText, Consume, streamVars
<1>3. i \in DOMAIN sent /\ i \in Nat /\ Size(sent[i]) \in Nat
  <2>1. i \in DOMAIN sent
    BY DEF AtHead
  <2> QED
    BY <2>1, FrameBounds DEF WsTypeOK
<1>4. delivered \in Seq(Nat) /\ delivered' \in Seq(Nat) /\ failed' \subseteq Nat
  BY <1>1, <1>2, <1>3 DEF WsTypeOK
<1>5. Size(sent[i]) <= rx_len
  BY <1>1, <1>3 DEF WsTypeOK
<1>6. WsTypeOK' /\ FramesJoin' /\ StreamInOrder' /\ Handshaking' /\ RxHasRoom' /\ NoWholeFrame'
  BY <1>1, <1>2, <1>3, <1>4, <1>5, ConsumeKeeps
<1>7. Aligned' /\ TextsPassed' = TextsPassed \cup {i}
  BY <1>1, <1>2, HeadPassed
<1>8. Passed'
  <2> SUFFICES ASSUME start = response
               PROVE  /\ TextsPassed' = Range(delivered') \cup failed'
                      /\ \A j, k \in DOMAIN delivered' : j < k => delivered'[j] < delivered'[k]
    BY <1>2 DEF Passed, Range
  <2>1. PICK m : m = Len(delivered)
    OBVIOUS
  <2>2. /\ m \in Nat /\ DOMAIN delivered = 1 .. m /\ DOMAIN delivered' = 1 .. m + 1
        /\ \A j \in 1 .. m : delivered'[j] = delivered[j]
        /\ delivered'[m + 1] = i
    BY <2>1, <1>1, <1>3, <1>4
  <2>3. Range(delivered') = Range(delivered) \cup {i}
    BY <2>2 DEF Range
  <2>4. TextsPassed = Range(delivered) \cup failed
    BY DEF Passed
  <2>5. ASSUME NEW j \in 1 .. m PROVE delivered[j] < i
    <3>1. delivered[j] \in TextsPassed
      BY <2>2, <2>4, <2>5 DEF Range
    <3>2. delivered[j] \in DOMAIN sent /\ End(delivered[j]) <= base
      BY <3>1 DEF TextsPassed, End
    <3>3. PICK d \in DOMAIN sent : d = delivered[j] /\ End(d) <= base
      BY <3>2
    <3>4. i \in Nat /\ d \in Nat /\ (i < d => End(i) <= sent[d].at)
      BY <3>3, HeadDivides
    <3>5. /\ End(d) \in Nat /\ End(d) = sent[d].at + Size(sent[d]) /\ sent[d].at \in Nat
          /\ Size(sent[d]) \in Nat /\ Size(sent[d]) >= 2
      BY <3>3, FrameBounds
    <3>6. End(i) \in Nat /\ End(i) >= base + 2 /\ base \in Nat
      <4>1. base \in Nat
        BY DEF WsTypeOK
      <4>2. i \in DOMAIN sent /\ sent[i].at = base
        BY <1>3 DEF AtHead
      <4>3. /\ End(i) \in Nat /\ End(i) = base + Size(sent[i])
            /\ Size(sent[i]) \in Nat /\ Size(sent[i]) >= 2
        BY <4>2, FrameBounds
      <4> QED
        BY <4>1, <4>3
    <3>7. ~(i < d) /\ i # d
      BY <3>3, <3>4, <3>5, <3>6
    <3> QED
      BY <3>3, <3>4, <3>7
  <2>6. ASSUME NEW j \in 1 .. m + 1, NEW k \in 1 .. m + 1, j < k
        PROVE  delivered'[j] < delivered'[k]
    <3>1. j \in 1 .. m
      BY <2>2, <2>6
    <3>2. CASE k \in 1 .. m
      BY <3>1, <3>2, <2>2, <2>6 DEF Passed
    <3>3. CASE k = m + 1
      BY <3>1, <3>3, <2>2, <2>5
    <3> QED
      BY <3>2, <3>3, <2>2
  <2> QED
    BY <2>2, <2>3, <2>4, <2>6, <1>2, <1>7
<1> QED
  BY <1>6, <1>7, <1>8

LEMMA FrameTextFailsKeeps ==
  ASSUME WsInv, FrameTextFails
  PROVE  WsInv'
<1> USE DEF WsInv
<1>1. PICK i \in AtHead :
        /\ sent[i].op \in {"text", "fragment"} /\ rx_len >= Size(sent[i])
        /\ failed' = failed \cup {i}
        /\ Consume(Size(sent[i]))
  BY DEF FrameTextFails, Needed
<1>2. pc = "frames" /\ pc' = "frames" /\ UNCHANGED streamVars /\ delivered' = delivered
      /\ start' = start /\ response' = response
  BY <1>1 DEF FrameTextFails, Consume, streamVars
<1>3. i \in DOMAIN sent /\ i \in Nat /\ Size(sent[i]) \in Nat
  <2>1. i \in DOMAIN sent
    BY DEF AtHead
  <2> QED
    BY <2>1, FrameBounds DEF WsTypeOK
<1>4. delivered' \in Seq(Nat) /\ failed' \subseteq Nat /\ Size(sent[i]) <= rx_len
  BY <1>1, <1>2, <1>3 DEF WsTypeOK
<1>5. WsTypeOK' /\ FramesJoin' /\ StreamInOrder' /\ Handshaking' /\ RxHasRoom' /\ NoWholeFrame'
  BY <1>1, <1>2, <1>3, <1>4, ConsumeKeeps
<1>6. Aligned' /\ TextsPassed' = TextsPassed \cup {i}
  BY <1>1, <1>2, HeadPassed
<1>7. Passed'
  BY <1>1, <1>2, <1>6 DEF Passed
<1> QED
  BY <1>5, <1>6, <1>7

LEMMA FrameSkippedKeeps ==
  ASSUME WsInv, FrameSkipped
  PROVE  WsInv'
<1> USE DEF WsInv
<1>1. PICK i \in AtHead :
        sent[i].op = "other" /\ rx_len >= Size(sent[i]) /\ Consume(Size(sent[i]))
  BY DEF FrameSkipped, Needed
<1>2. pc = "frames" /\ pc' = "frames" /\ UNCHANGED streamVars /\ delivered' = delivered
      /\ failed' = failed /\ start' = start /\ response' = response
  BY <1>1 DEF FrameSkipped, Consume, streamVars, textVars
<1>3. i \in DOMAIN sent
  BY DEF AtHead
<1>4. Size(sent[i]) \in Nat
  BY <1>3, FrameBounds
<1>5. delivered' \in Seq(Nat) /\ failed' \subseteq Nat /\ Size(sent[i]) <= rx_len
  BY <1>1, <1>2, <1>4 DEF WsTypeOK
<1>6. WsTypeOK' /\ FramesJoin' /\ StreamInOrder' /\ Handshaking' /\ RxHasRoom' /\ NoWholeFrame'
  BY <1>1, <1>2, <1>4, <1>5, ConsumeKeeps
<1>7. Aligned' /\ TextsPassed' = TextsPassed
  BY <1>1, <1>2, HeadPassed
<1>8. Passed'
  BY <1>2, <1>7 DEF Passed
<1> QED
  BY <1>6, <1>7, <1>8

\* Where rx begins with a frame that is not whole, there is no other.
LEMMA FramesWaitKeeps ==
  ASSUME WsInv, FramesWait
  PROVE  WsInv'
<1> USE DEF WsInv
<1>1. pc = "frames" /\ pc' = "idle" /\ UNCHANGED <<streamVars, rxVars, textVars>>
  BY DEF FramesWait
<1>2. FramesJoin' /\ Written' = Written
      /\ UNCHANGED <<use_tls, response, accepted, sent, arrived>>
  BY <1>1, ClientLeavesStream
<1>3. WsTypeOK'
  BY <1>1, <1>2 DEF WsTypeOK, Steps, rxVars, textVars
<1>4. StreamInOrder' /\ Handshaking' /\ RxHasRoom'
  BY <1>1, <1>2 DEF StreamInOrder, ReadTo, Handshaking, RxHasRoom, rxVars
<1>5. Aligned' /\ Passed' /\ AtHead' = AtHead
  BY <1>1, SameBase DEF rxVars, textVars
<1>6. ASSUME NEW j \in AtHead PROVE rx_len < Size(sent[j])
  <2>1. j \in DOMAIN sent /\ sent[j].at = base
    BY <1>6 DEF AtHead
  <2>2. CASE rx_len < 2
    BY <2>1, <2>2, FrameBounds DEF WsTypeOK
  <2>3. ASSUME NEW i \in AtHead, rx_len < Needed(sent[i]) PROVE rx_len < Size(sent[j])
    BY <2>1, <2>3, HeadDivides DEF Needed
  <2> QED
    BY <2>2, <2>3 DEF FramesWait
<1>7. NoWholeFrame'
  BY <1>1, <1>2, <1>5, <1>6 DEF NoWholeFrame, Size, rxVars
<1> QED
  BY <1>2, <1>3, <1>4, <1>5, <1>7

\* The connection is closed, or nothing has happened.
LEMMA ClosingKeeps ==
  ASSUME WsInv, UNCHANGED <<streamVars, rxVars, delivered, failed>>,
         (pc' = "closed" /\ pc \in {"idle", "frames"}) \/ pc' = pc
  PROVE  WsInv'
<1> USE DEF WsInv
<1>1. FramesJoin' /\ Written' = Written
      /\ UNCHANGED <<use_tls, response, accepted, sent, arrived>>
  BY ClientLeavesStream
<1>2. WsTypeOK'
  BY <1>1 DEF WsTypeOK, Steps, rxVars
<1>3. StreamInOrder' /\ Handshaking' /\ RxHasRoom'
  BY <1>1 DEF StreamInOrder, ReadTo, Handshaking, RxHasRoom, rxVars
<1>4. Aligned' /\ Passed' /\ AtHead' = AtHead
  BY SameBase DEF rxVars
<1>5. NoWholeFrame'
  BY <1>1, <1>4 DEF NoWholeFrame, Size, rxVars
<1> QED
  BY <1>1, <1>2, <1>3, <1>4, <1>5

\* Bytes are taken for a frame only where the handshake has left rx askew, of
\* which nothing is claimed.
LEMMA FrameGarbageKeeps ==
  ASSUME WsInv, FrameGarbage
  PROVE  WsInv'
<1> USE DEF WsInv
<1>1. pc = "frames" /\ Skewed /\ UNCHANGED <<streamVars, failed>>
  BY DEF FrameGarbage
<1>2. start # response
  BY <1>1 DEF Aligned
<1>3. CASE pc' \in {"idle", "closed"} /\ UNCHANGED <<rxVars, delivered>>
  <2>1. start' # response'
    BY <1>1, <1>2, <1>3 DEF streamVars, rxVars
  <2>2. FramesJoin' /\ Written' = Written
        /\ UNCHANGED <<use_tls, response, accepted, sent, arrived>>
    BY <1>1, ClientLeavesStream
  <2>3. WsTypeOK'
    BY <1>1, <1>3, <2>2 DEF WsTypeOK, Steps, rxVars
  <2>4. StreamInOrder' /\ Handshaking' /\ RxHasRoom'
    BY <1>1, <1>3, <2>2 DEF StreamInOrder, ReadTo, Handshaking, RxHasRoom, rxVars
  <2>5. Aligned' /\ Passed' /\ NoWholeFrame'
    BY <2>1 DEF Aligned, Passed, NoWholeFrame
  <2> QED
    BY <2>2, <2>3, <2>4, <2>5
<1>4. CASE /\ \E n \in 2 .. rx_len : Consume(n)
           /\ delivered' \in {delivered, Append(delivered, 0)}
           /\ UNCHANGED pc
  <2>1. PICK n \in 2 .. rx_len : Consume(n)
    BY <1>4
  <2>2. n \in Nat /\ n <= rx_len /\ pc' = "frames"
    BY <1>1, <1>4 DEF WsTypeOK
  <2>3. delivered' \in Seq(Nat) /\ failed' \subseteq Nat
    <3>1. delivered \in Seq(Nat) /\ failed \subseteq Nat
      BY DEF WsTypeOK
    <3>2. Append(delivered, 0) \in Seq(Nat)
      BY <3>1
    <3> QED
      BY <3>1, <3>2, <1>1, <1>4
  <2>4. WsTypeOK' /\ FramesJoin' /\ StreamInOrder' /\ Handshaking' /\ RxHasRoom' /\ NoWholeFrame'
    BY <1>1, <2>1, <2>2, <2>3, ConsumeKeeps
  <2>5. start' # response'
    BY <1>1, <1>2, <2>1 DEF Consume, streamVars
  <2>6. Aligned' /\ Passed'
    BY <2>5 DEF Aligned, Passed
  <2> QED
    BY <2>4, <2>6
<1> QED
  BY <1>3, <1>4 DEF FrameGarbage

-----------------------------------------------------------------------------
(* The theorems *)

LEMMA WsStep ==
  ASSUME WsInv, [Next]_vars
  PROVE  WsInv'
<1>1. CASE Asks
  BY <1>1, AsksKeeps
<1>2. CASE PeerSends
  BY <1>2, PeerSendsKeeps
<1>3. CASE Arrives
  BY <1>3, ArrivesKeeps
<1>4. CASE HandshakeReads \/ HandshakeDone
  BY <1>4, HandshakeReadsKeeps, HandshakeDoneKeeps
<1>5. CASE PollReadable \/ PollReads
  BY <1>5, PollReadableKeeps, PollReadsKeeps
<1>6. CASE FrameText \/ FrameTextFails \/ FrameSkipped
  BY <1>6, FrameTextKeeps, FrameTextFailsKeeps, FrameSkippedKeeps
<1>7. CASE FramesWait \/ FrameGarbage
  BY <1>7, FramesWaitKeeps, FrameGarbageKeeps
<1>8. CASE FrameEnds
  BY <1>8, ClosingKeeps DEF FrameEnds, textVars
<1>9. CASE PollFails
  BY <1>9, ClosingKeeps DEF PollFails, textVars
<1>10. CASE UNCHANGED vars
  BY <1>10, ClosingKeeps DEF vars, textVars
<1> QED
  BY <1>1, <1>2, <1>3, <1>4, <1>5, <1>6, <1>7, <1>8, <1>9, <1>10
  DEF Next, ClientStep, FrameStep

THEOREM WsInvariant == Spec => []WsInv
  BY WsStarts, WsStep, PTL DEF Spec

\* process_frames and rtw_ws_poll: for buffers, chunks and records of any length
\* and frames of any kind, rx is never overrun, and if the handshake has read the
\* response and no more, on_text gets every text that is passed, once and in the
\* order of sending, but for those there was no memory for.
THEOREM WsTextsInOrder == Spec => []TextsInOrder
<1>1. WsInv => TextsInOrder
  BY DEF WsInv, RxHasRoom, Passed, TextsInOrder
<1> QED
  BY <1>1, WsInvariant, PTL

\* rtw_ws_poll waits for the socket only when rx holds no whole frame, and without
\* TLS, when the socket is empty too, on_text has got all texts that have arrived.
THEOREM WsNothingStranded == Spec => []NothingStranded
<1>1. ASSUME WsInv PROVE NothingStranded
  <2> USE <1>1 DEF WsInv
  <2> SUFFICES ASSUME pc = "idle", start = response
               PROVE  /\ \A i \in AtHead : sent[i].op # "toolong" => rx_len < Size(sent[i])
                      /\ ~use_tls /\ arrived = decoded =>
                           \A i \in DOMAIN sent :
                             sent[i].op = "text" /\ sent[i].at + Size(sent[i]) <= arrived =>
                               i \in Range(delivered) \cup failed
    BY DEF NothingStranded
  <2>1. \A i \in AtHead : rx_len < Size(sent[i])
    BY DEF NoWholeFrame
  <2>2. ASSUME ~use_tls, arrived = decoded, NEW i \in DOMAIN sent,
               sent[i].op = "text", End(i) <= arrived
        PROVE  i \in Range(delivered) \cup failed
    <3>1. /\ base \in Nat /\ rx_len \in Nat /\ arrived \in Nat /\ arrived = base + rx_len
          /\ End(i) \in Nat /\ sent[i].at \in Nat /\ Size(sent[i]) \in Nat
          /\ End(i) = sent[i].at + Size(sent[i]) /\ Size(sent[i]) >= 2
      BY <2>2, FrameBounds DEF WsTypeOK, StreamInOrder, ReadTo
    <3>2. CASE End(i) <= base
      <4>1. i \in TextsPassed
        BY <2>2, <3>2 DEF TextsPassed, End
      <4> QED
        BY <4>1 DEF Passed
    <3>3. CASE End(i) > base
      <4>1. base # Written
        <5>1. End(i) <= Written
          BY <2>2, WrittenBounds
        <5>2. Written \in Nat
          BY WrittenBounds
        <5> QED
          BY <5>1, <5>2, <3>1, <3>3
      <4>2. PICK h \in AtHead : TRUE
        BY <4>1 DEF Aligned, Skewed
      <4>3. /\ h \in DOMAIN sent /\ h \in Nat /\ i \in Nat
            /\ i < h => End(i) <= base
            /\ h < i => End(h) <= sent[i].at
        BY <2>2, HeadDivides
      <4>4. /\ sent[h].at = base /\ Size(sent[h]) \in Nat /\ End(h) = base + Size(sent[h])
            /\ rx_len < Size(sent[h])
        BY <4>3, <2>1, FrameBounds DEF AtHead
      <4>5. ~(i < h) /\ ~(h < i) /\ i # h
        BY <4>3, <4>4, <3>1, <3>3, <2>2
      <4> QED
        BY <4>3, <4>5
    <3> QED
      BY <3>1, <3>2, <3>3
  <2> QED
    BY <2>1, <2>2 DEF End
<1> QED
  BY <1>1, WsInvariant, PTL

-----------------------------------------------------------------------------
(* rtw_session_handle_peer_json and rtw_bridge_send_mark: names *)

\* The message that send_mark makes of a name it accepts.
ApiMark(n) ==
  [json |-> TRUE, event |-> "mark", sid |-> Inbound!Ours, body |-> TRUE,
   text |-> Inbound!Str("good", n)]

\* What was read of the message, and what it did.
MessageRead ==
  /\ stage \in {"idle", "wire", "parsed", "handled", "echoed", "refused"}
  /\ msg.sid \in Inbound!Sids
  /\ stage \in {"parsed", "handled", "echoed"} =>
       ev.stream_sid = Inbound!copy_sid(msg.sid)
  /\ effect # "none" =>
       stage \in {"handled", "echoed"} /\ ~Inbound!Foreign(ev.stream_sid)

\* A mark of send_mark on its way.
ApiMarkKept ==
  /\ stage = "idle" => ~api
  /\ api =>
       /\ stage # "refused"
       /\ \E n \in Nat : n < NameMax /\ msg = ApiMark(n)
       /\ stage \in {"parsed", "handled", "echoed"} => ev.type = "mark" /\ ev.text = msg.text
       /\ stage = "handled" => effect = "mark"
       /\ stage = "echoed" => echo = msg.text

InboundInv == MessageRead /\ ApiMarkKept

\* What is as long as ours when it is cut was ours.
LEMMA OnlyOursIsOurs ==
  ASSUME NEW sid \in Inbound!Sids, ~Inbound!Foreign(Inbound!copy_sid(sid))
  PROVE  sid \in {Inbound!None, Inbound!Str("empty", 0), Inbound!Ours}
<1>1. SidMax \in Nat /\ OurLen \in Nat /\ OurLen + 1 < SidMax
  BY PartsConstants DEF Inbound!InboundConstants, Inbound!BuffersFit
<1> USE DEF Inbound!Foreign, Inbound!copy_sid, Inbound!Cut, Inbound!Str, Inbound!None,
            Inbound!Ours
<1>2. CASE sid = Inbound!Str("ours", OurLen + 1)
  BY <1>1, <1>2
<1>3. CASE sid = Inbound!Str("ours", SidMax)
  BY <1>1, <1>3
<1>4. CASE sid = Inbound!Str("other", OurLen)
  BY <1>1, <1>4
<1>5. CASE sid = Inbound!Str("other", SidMax)
  BY <1>1, <1>5
<1> QED
  BY <1>2, <1>3, <1>4, <1>5 DEF Inbound!Sids

\* Names and ids that fit are copied whole.
LEMMA ApiMarkFits ==
  ASSUME NEW n \in Nat, n < NameMax
  PROVE  /\ Inbound!Cut(Inbound!Str("good", n), NameMax) = Inbound!Str("good", n)
         /\ Inbound!copy_sid(Inbound!Ours) = Inbound!Ours
         /\ ~Inbound!Foreign(Inbound!Ours)
         /\ JsonRest + OurLen + n < JsonMax
<1>1. /\ SidMax \in Nat /\ OurLen \in Nat /\ OurLen < SidMax
      /\ NameMax \in Nat /\ JsonRest \in Nat /\ JsonMax \in Nat
      /\ JsonRest + OurLen + NameMax <= JsonMax
  BY PartsConstants DEF Inbound!InboundConstants, Inbound!BuffersFit
<1>2. JsonRest + OurLen + n < JsonMax
  BY <1>1
<1> QED
  BY <1>1, <1>2 DEF Inbound!Cut, Inbound!Str, Inbound!copy_sid, Inbound!Ours,
     Inbound!Foreign

LEMMA MessageReadStep ==
  ASSUME MessageRead, Inbound!Next
  PROVE  MessageRead'
<1> USE DEF MessageRead
<1>1. CASE Inbound!PeerSends
  BY <1>1 DEF Inbound!PeerSends, Inbound!Messages
<1>2. ASSUME NEW n \in NameLens, Inbound!SendMark(n) PROVE MessageRead'
  BY <1>2 DEF Inbound!SendMark, Inbound!Sids
<1>3. CASE Inbound!Parses
  <2>1. /\ stage = "wire" /\ stage' = "parsed" /\ msg' = msg /\ effect' = effect
        /\ ev'.stream_sid = Inbound!copy_sid(msg.sid)
    BY <1>3, Zenon DEF Inbound!Parses
  <2> QED
    BY <2>1
<1>4. CASE Inbound!ParseFails
  BY <1>4 DEF Inbound!ParseFails
<1>5. CASE Inbound!Handles
  <2>1. /\ stage = "parsed" /\ stage' = "handled" /\ msg' = msg /\ ev' = ev
    BY <1>5, Zenon DEF Inbound!Handles
  <2>2. Inbound!Foreign(ev.stream_sid) => effect' = "none"
    BY <1>5, Zenon DEF Inbound!Handles
  <2> QED
    BY <2>1, <2>2
<1>6. CASE Inbound!Echoes
  BY <1>6 DEF Inbound!Echoes
<1> QED
  BY <1>1, <1>2, <1>3, <1>4, <1>5, <1>6 DEF Inbound!Next

LEMMA ApiMarkKeptStep ==
  ASSUME MessageRead, ApiMarkKept, Inbound!Next
  PROVE  ApiMarkKept'
<1> USE DEF ApiMarkKept
<1>1. CASE Inbound!PeerSends
  BY <1>1 DEF Inbound!PeerSends
<1>2. ASSUME NEW n \in NameLens, Inbound!SendMark(n) PROVE ApiMarkKept'
  <2>1. n \in Nat
    BY PartsConstants DEF Inbound!InboundConstants
  <2>2. CASE Inbound!valid_mark_name(n)
    <3>1. n < NameMax
      BY <2>2 DEF Inbound!valid_mark_name
    <3>2. JsonRest + OurLen + n < JsonMax
      BY <2>1, <3>1, ApiMarkFits
    <3>3. msg' = ApiMark(n) /\ stage' = "wire"
      BY <1>2, <2>2, <3>2 DEF Inbound!SendMark, ApiMark
    <3> QED
      BY <2>1, <3>1, <3>3
  <2>3. CASE ~Inbound!valid_mark_name(n)
    BY <1>2, <2>3 DEF Inbound!SendMark
  <2> QED
    BY <2>2, <2>3
<1>3. CASE Inbound!Parses
  <2>1. stage = "wire" /\ stage' = "parsed" /\ msg' = msg /\ api' = api
    BY <1>3, Zenon DEF Inbound!Parses
  <2>2. ASSUME api PROVE ev'.type = "mark" /\ ev'.text = msg.text
    <3>1. PICK n \in Nat : n < NameMax /\ msg = ApiMark(n)
      BY <2>2
    <3>2. /\ msg.event = "mark" /\ msg.body = TRUE /\ msg.text.kind = "good"
          /\ msg.text = Inbound!Str("good", n)
      BY <3>1 DEF ApiMark, Inbound!Str
    <3>3. ev'.type = "mark"
      BY <1>3, <3>2, Zenon DEF Inbound!Parses
    <3>4. ev'.text = Inbound!Cut(msg.text, NameMax)
      BY <1>3, <3>2, Zenon DEF Inbound!Parses
    <3> QED
      BY <3>1, <3>2, <3>3, <3>4, ApiMarkFits
  <2> QED
    BY <2>1, <2>2
<1>4. CASE Inbound!ParseFails
  <2>1. ~api
    BY <1>4 DEF Inbound!ParseFails, ApiMark
  <2> QED
    BY <1>4, <2>1 DEF Inbound!ParseFails
<1>5. CASE Inbound!Handles
  <2>1. stage = "parsed" /\ stage' = "handled" /\ msg' = msg /\ ev' = ev /\ api' = api
    BY <1>5, Zenon DEF Inbound!Handles
  <2>2. ASSUME api PROVE effect' = "mark"
    <3>1. ev.type = "mark" /\ \E n \in Nat : n < NameMax /\ msg = ApiMark(n)
      BY <2>1, <2>2
    <3>2. ~Inbound!Foreign(ev.stream_sid)
      BY <2>1, <3>1, ApiMarkFits DEF ApiMark, MessageRead
    <3>3. ev.type # "media" /\ ev.type \in {"mark", "clear"}
      BY <3>1
    <3> QED
      BY <1>5, <3>1, <3>2, <3>3, Zenon DEF Inbound!Handles
  <2> QED
    BY <2>1, <2>2
<1>6. CASE Inbound!Echoes
  <2>1. ASSUME api PROVE echo' = msg.text
    <3>1. PICK n \in Nat : n < NameMax /\ msg = ApiMark(n)
      BY <2>1
    <3>2. ev.text = Inbound!Str("good", n)
      BY <1>6, <2>1, <3>1 DEF Inbound!Echoes, ApiMark
    <3> QED
      BY <1>6, <3>1, <3>2, ApiMarkFits DEF Inbound!Echoes, ApiMark
  <2> QED
    BY <1>6, <2>1 DEF Inbound!Echoes
<1> QED
  BY <1>1, <1>2, <1>3, <1>4, <1>5, <1>6 DEF Inbound!Next

\* Whatever the lengths of names, ids and payloads: what is meant for another
\* stream does nothing, and a mark that send_mark accepted comes back under its
\* name.
THEOREM NamesAreKept == Inbound!Spec => []NamesHold
<1>1. Inbound!Init => InboundInv
  BY DEF Inbound!Init, Inbound!NoMsg, Inbound!None, Inbound!Sids, InboundInv, MessageRead,
     ApiMarkKept
<1>2. InboundInv /\ [Inbound!Next]_Inbound!vars => InboundInv'
  <2>1. ASSUME InboundInv, UNCHANGED Inbound!vars PROVE InboundInv'
    BY <2>1 DEF Inbound!vars, InboundInv, MessageRead, ApiMarkKept
  <2> QED
    BY <2>1, MessageReadStep, ApiMarkKeptStep DEF InboundInv
<1>3. InboundInv => NamesHold
  <2>1. InboundInv => Inbound!ForeignIsInert
    <3> SUFFICES ASSUME InboundInv, effect # "none"
                 PROVE  msg.sid \in {Inbound!None, Inbound!Str("empty", 0), Inbound!Ours}
      BY DEF Inbound!ForeignIsInert
    <3>1. msg.sid \in Inbound!Sids /\ ~Inbound!Foreign(Inbound!copy_sid(msg.sid))
      BY DEF InboundInv, MessageRead
    <3> QED
      BY <3>1, OnlyOursIsOurs
  <2>2. InboundInv => Inbound!SentMarkComesBack
    BY DEF InboundInv, ApiMarkKept, Inbound!SentMarkComesBack
  <2> QED
    BY <2>1, <2>2 DEF NamesHold
<1> QED
  BY <1>1, <1>2, <1>3, PTL DEF Inbound!Spec

-----------------------------------------------------------------------------
(* rtw_ws_send_text: frames *)

LEMMA SendFacts ==
  /\ Radix \in Nat /\ LenCode \in Nat /\ LenCode > 0 /\ LenCode < Radix
  /\ \A a, c \in Sending!Bytes : Xor(a, c) \in Sending!Bytes /\ Xor(Xor(a, c), c) = a
  /\ \A t \in Texts : t \in Seq(Sending!Bytes)
  /\ \A key \in Keys : key \in [1 .. 4 -> Sending!Bytes]
  BY PartsConstants DEF Sending!SendConstants

\* s is u and then v.
IsJoin(s, u, v) ==
  /\ s \in Seq(Nat) /\ Len(s) = Len(u) + Len(v)
  /\ \A i \in 1 .. Len(u) : s[i] = u[i]
  /\ \A i \in 1 .. Len(v) : s[Len(u) + i] = v[i]

LEMMA Joined ==
  ASSUME NEW u \in Seq(Nat), NEW v \in Seq(Nat)
  PROVE  IsJoin(u \o v, u, v)
  BY ConcatProperties DEF IsJoin

\* Two bytes are enough for the length.
LEMMA LengthIsKept ==
  ASSUME NEW n \in Nat, NEW q \in Nat, q > 0, n < q * q
  PROVE  /\ n \div q \in Nat /\ n % q \in Nat /\ (n \div q) % q \in Nat
         /\ ((n \div q) % q) * q + (n % q) = n
<1>1. /\ n \div q \in Nat /\ n % q \in 0 .. q - 1
      /\ n = q * (n \div q) + (n % q)
  OBVIOUS
<1>2. n \div q < q
  <2>1. PICK d \in Nat : d = n \div q
    BY <1>1
  <2>2. PICK m \in Nat : m = n % q
    BY <1>1
  <2>3. n = q * d + m
    BY <1>1, <2>1, <2>2
  <2>4. CASE d >= q
    <3>1. q * d >= q * q
      BY <2>4
    <3> QED
      BY <2>3, <3>1
  <2> QED
    BY <2>1, <2>4
<1>3. (n \div q) % q = n \div q
  BY <1>1, <1>2
<1> QED
  BY <1>1, <1>3

\* How long the header of a text of n bytes is.
HeaderLen(n) == IF n < LenCode THEN 2 ELSE 4

\* What is where in a frame.
FrameShape(F, t, key) ==
  LET n == Len(t)
      h == HeaderLen(n)
  IN  /\ F \in Seq(Nat) /\ Len(F) = h + 4 + n
      /\ n < LenCode => F[2] = n
      /\ n >= LenCode => F[2] = LenCode /\ F[3] * Radix + F[4] = n
      /\ \A i \in 1 .. 4 : F[h + i] = key[i]
      /\ \A i \in 1 .. n : F[h + 4 + i] = Xor(t[i], key[((i - 1) % 4) + 1])

LEMMA KeyByte ==
  ASSUME NEW i \in Nat, i > 0
  PROVE  ((i - 1) % 4) + 1 \in 1 .. 4
  OBVIOUS

LEMMA FramesHaveShape ==
  ASSUME NEW t \in Texts, ~Sending!TooLong(Len(t)), NEW key \in Keys
  PROVE  FrameShape(Sending!Frame(t, key), t, key)
<1>0. t \in Seq(Sending!Bytes) /\ key \in [1 .. 4 -> Sending!Bytes]
  BY SendFacts
<1>1. PICK n \in Nat : n = Len(t)
  BY <1>0
<1>2. PICK hd : hd = Sending!Header(n)
  OBVIOUS
<1>3. PICK mk : mk = Sending!Masked(t, key)
  OBVIOUS
<1>4. /\ mk \in Seq(Nat) /\ Len(mk) = n
      /\ \A i \in 1 .. n : mk[i] = Xor(t[i], key[((i - 1) % 4) + 1])
  <2>1. mk = [i \in 1 .. n |-> Xor(t[i], key[((i - 1) % 4) + 1])]
    BY <1>1, <1>3 DEF Sending!Masked
  <2>2. ASSUME NEW i \in 1 .. n PROVE Xor(t[i], key[((i - 1) % 4) + 1]) \in Nat
    <3>1. ((i - 1) % 4) + 1 \in 1 .. 4
      BY KeyByte
    <3>2. t[i] \in Sending!Bytes /\ key[((i - 1) % 4) + 1] \in Sending!Bytes
      BY <1>0, <1>1, <3>1
    <3>3. Xor(t[i], key[((i - 1) % 4) + 1]) \in Sending!Bytes
      BY <3>2, SendFacts
    <3> QED
      BY <3>3, SendFacts DEF Sending!Bytes
  <2> QED
    BY <2>1, <2>2
<1>5. key \in Seq(Nat) /\ Len(key) = 4
  <2>1. \A x \in Sending!Bytes : x \in Nat
    BY SendFacts DEF Sending!Bytes
  <2>2. key \in [1 .. 4 -> Nat]
    BY <1>0, <2>1
  <2>3. \E l \in Nat : key \in [1 .. l -> Nat]
    BY <2>2
  <2>4. key \in Seq(Nat)
    BY <2>3, SeqDef, Zenon
  <2>5. PICK l \in Nat : l = Len(key) /\ DOMAIN key = 1 .. l
    BY <2>4, LenProperties
  <2>6. l = 4
    <3>1. \A i : i \in 1 .. l <=> i \in 1 .. 4
      BY <2>2, <2>5
    <3>2. 4 \in 1 .. 4 /\ 5 \notin 1 .. 4
      OBVIOUS
    <3>3. 4 \in 1 .. l /\ 5 \notin 1 .. l
      BY <3>1, <3>2, Zenon
    <3> QED
      BY <3>3
  <2> QED
    BY <2>4, <2>5, <2>6
<1>6. /\ hd \in Seq(Nat) /\ Len(hd) = HeaderLen(n)
      /\ n < LenCode => hd[2] = n
      /\ n >= LenCode => hd[2] = LenCode /\ hd[3] * Radix + hd[4] = n
  <2>1. CASE n < LenCode
    <3>1. hd = <<1, n>>
      BY <1>2, <2>1 DEF Sending!Header
    <3> QED
      BY <2>1, <3>1, SendFacts DEF HeaderLen
  <2>2. CASE ~(n < LenCode)
    <3>1. PICK x : x = (n \div Radix) % Radix
      OBVIOUS
    <3>2. PICK y : y = n % Radix
      OBVIOUS
    <3>3. hd = <<1, LenCode, x, y>>
      BY <1>2, <2>2, <3>1, <3>2 DEF Sending!Header
    <3>4. n < Radix * Radix
      BY <1>1, SendFacts DEF Sending!TooLong
    <3>5. x \in Nat /\ y \in Nat /\ x * Radix + y = n
      BY <3>1, <3>2, <3>4, LengthIsKept, SendFacts
    <3>6. hd \in Seq(Nat) /\ Len(hd) = 4 /\ hd[2] = LenCode /\ hd[3] = x /\ hd[4] = y
      BY <3>3, <3>5, SendFacts
    <3> QED
      BY <2>2, <3>5, <3>6, SendFacts DEF HeaderLen
  <2> QED
    BY <2>1, <2>2
<1>7. PICK h \in Nat : h = HeaderLen(n) /\ h >= 2 /\ (n >= LenCode => h = 4)
  BY SendFacts DEF HeaderLen
<1>8. PICK hk : hk = hd \o key
  OBVIOUS
<1>9. /\ hk \in Seq(Nat) /\ Len(hk) = h + 4
      /\ \A i \in 1 .. h : hk[i] = hd[i]
      /\ \A i \in 1 .. 4 : hk[h + i] = key[i]
  <2>1. IsJoin(hk, hd, key)
    BY <1>5, <1>6, <1>8, Joined, Zenon
  <2> QED
    BY <1>5, <1>6, <1>7, <2>1, Zenon DEF IsJoin
<1>10. PICK F : F = hk \o mk
  OBVIOUS
<1>11. F = Sending!Frame(t, key)
  BY <1>1, <1>2, <1>3, <1>8, <1>10 DEF Sending!Frame
<1>12. /\ F \in Seq(Nat) /\ Len(F) = h + 4 + n
       /\ \A i \in 1 .. h + 4 : F[i] = hk[i]
       /\ \A i \in 1 .. n : F[h + 4 + i] = mk[i]
  <2>1. IsJoin(F, hk, mk)
    BY <1>4, <1>9, <1>10, Joined, Zenon
  <2> QED
    BY <1>4, <1>9, <2>1, Zenon DEF IsJoin
<1>13. ASSUME NEW i \in 1 .. h PROVE F[i] = hd[i]
  <2>1. i \in 1 .. h + 4
    BY <1>7
  <2> QED
    BY <1>9, <1>12, <2>1, Zenon
<1>14. ASSUME NEW i \in 1 .. 4 PROVE F[h + i] = key[i]
  <2>1. h + i \in 1 .. h + 4
    BY <1>7
  <2> QED
    BY <1>9, <1>12, <2>1, Zenon
<1>15. n < LenCode => F[2] = n
  BY <1>6, <1>7, <1>13
<1>16. n >= LenCode => F[2] = LenCode /\ F[3] * Radix + F[4] = n
  BY <1>6, <1>7, <1>13
<1> QED
  BY <1>1, <1>4, <1>7, <1>11, <1>12, <1>14, <1>15, <1>16 DEF FrameShape

\* The first o bytes of F are in w, from p on.
Begins(w, p, F, o) ==
  /\ p \in Nat \ {0} /\ o \in 0 .. Len(F) /\ p + o <= Len(w) + 1
  /\ \A i \in 1 .. o : w[p + i - 1] = F[i]

\* A header that is there says how long its text is.
LEMMA HeaderIsRead ==
  ASSUME NEW t \in Texts, ~Sending!TooLong(Len(t)), NEW key \in Keys,
         NEW F, F = Sending!Frame(t, key),
         NEW w \in Seq(Nat), NEW p, NEW o, Begins(w, p, F, o), o >= HeaderLen(Len(t))
  PROVE  /\ Sending!HasHeader(w, p)
         /\ Sending!TextLen(w, p) = Len(t)
         /\ Sending!TextFrom(w, p) = p + HeaderLen(Len(t)) + 4
         /\ Sending!NextFrom(w, p) = p + Len(F)
<1>0. PICK n \in Nat : n = Len(t)
  BY SendFacts
<1>1. /\ F \in Seq(Nat) /\ Len(F) = HeaderLen(n) + 4 + n
      /\ n < LenCode => F[2] = n
      /\ n >= LenCode => F[2] = LenCode /\ F[3] * Radix + F[4] = n
  BY <1>0, FramesHaveShape DEF FrameShape
<1>2. /\ p \in Nat /\ p > 0 /\ o \in Nat /\ Len(w) \in Nat
      /\ o <= Len(F) /\ p + o <= Len(w) + 1
      /\ \A i \in 1 .. o : w[p + i - 1] = F[i]
  BY <1>1 DEF Begins
<1>3. CASE n < LenCode
  <2>1. HeaderLen(n) = 2 /\ o >= 2
    BY <1>0, <1>3 DEF HeaderLen
  <2>2. w[p + 2 - 1] = F[2]
    BY <1>2, <2>1
  <2>3. p + 2 - 1 = p + 1
    BY <1>2
  <2>4. w[p + 1] = n
    BY <1>1, <1>3, <2>2, <2>3
  <2>5. ~Sending!Long(w, p)
    BY <1>3, <2>4, SendFacts DEF Sending!Long
  <2>6. Sending!HasHeader(w, p)
    BY <1>2, <2>1, <2>5 DEF Sending!HasHeader
  <2>7. Sending!TextLen(w, p) = n /\ Sending!TextFrom(w, p) = p + 6
    BY <2>4, <2>5 DEF Sending!TextLen, Sending!TextFrom
  <2>8. Sending!NextFrom(w, p) = p + 6 + n
    BY <2>7 DEF Sending!NextFrom
  <2> QED
    BY <1>0, <1>1, <1>2, <2>1, <2>6, <2>7, <2>8
<1>4. CASE n >= LenCode
  <2>1. HeaderLen(n) = 4 /\ o >= 4
    BY <1>0, <1>4, SendFacts DEF HeaderLen
  <2>2. w[p + 2 - 1] = F[2] /\ w[p + 3 - 1] = F[3] /\ w[p + 4 - 1] = F[4]
    <3>0. o \in Nat /\ o >= 4
      BY <1>2, <2>1, Zenon
    <3>1. 2 \in 1 .. o /\ 3 \in 1 .. o /\ 4 \in 1 .. o
      BY <3>0
    <3> QED
      BY <1>2, <3>1, Zenon
  <2>3. p + 2 - 1 = p + 1 /\ p + 3 - 1 = p + 2 /\ p + 4 - 1 = p + 3
    BY <1>2
  <2>4. w[p + 1] = LenCode /\ w[p + 2] * Radix + w[p + 3] = n
    BY <1>1, <1>4, <2>2, <2>3, Zenon
  <2>5. Sending!Long(w, p)
    BY <2>4 DEF Sending!Long
  <2>6. Sending!HasHeader(w, p)
    <3>0. p \in Nat /\ o \in Nat /\ o >= 4 /\ Len(w) \in Nat /\ p + o <= Len(w) + 1
      BY <1>2, <2>1, Zenon
    <3>1. p + 1 <= Len(w) /\ p + 3 <= Len(w)
      BY <3>0
    <3> QED
      BY <3>1, Zenon DEF Sending!HasHeader
  <2>7. Sending!TextLen(w, p) = n /\ Sending!TextFrom(w, p) = p + 8
    BY <2>4, <2>5, Zenon DEF Sending!TextLen, Sending!TextFrom
  <2>8. Sending!NextFrom(w, p) = p + 8 + n
    BY <2>7 DEF Sending!NextFrom
  <2> QED
    BY <1>0, <1>1, <1>2, <2>1, <2>6, <2>7, <2>8
<1> QED
  BY <1>0, <1>3, <1>4, SendFacts

\* A frame that is cut short is not complete for the peer.
LEMMA CutFrameIsNotRead ==
  ASSUME NEW t \in Texts, ~Sending!TooLong(Len(t)), NEW key \in Keys,
         NEW F, F = Sending!Frame(t, key),
         NEW w \in Seq(Nat), NEW p, NEW o, Begins(w, p, F, o), o < Len(F),
         p + o = Len(w) + 1
  PROVE  ~Sending!Complete(w, p)
<1>0. PICK n \in Nat : n = Len(t)
  BY SendFacts
<1>1. /\ F \in Seq(Nat) /\ Len(F) = HeaderLen(n) + 4 + n
      /\ n >= LenCode => F[2] = LenCode
  BY <1>0, FramesHaveShape DEF FrameShape
<1>2. /\ p \in Nat /\ o \in Nat /\ Len(w) \in Nat /\ Len(F) \in Nat
      /\ \A i \in 1 .. o : w[p + i - 1] = F[i]
  BY <1>1 DEF Begins
<1>3. CASE o >= HeaderLen(n)
  <2>1. Sending!NextFrom(w, p) = p + Len(F)
    BY <1>0, <1>3, HeaderIsRead
  <2> QED
    BY <1>2, <2>1 DEF Sending!Complete
<1>4. CASE o < 2
  BY <1>2, <1>4 DEF Sending!Complete, Sending!HasHeader
<1>5. CASE o >= 2 /\ o < HeaderLen(n)
  <2>1. n >= LenCode /\ o < 4
    BY <1>2, <1>5, SendFacts DEF HeaderLen
  <2>2. w[p + 2 - 1] = F[2] /\ p + 2 - 1 = p + 1
    BY <1>2, <1>5
  <2>3. Sending!Long(w, p)
    BY <1>1, <2>1, <2>2 DEF Sending!Long
  <2> QED
    BY <1>2, <2>1, <2>3 DEF Sending!Complete, Sending!HasHeader
<1>6. HeaderLen(n) \in Nat
  BY DEF HeaderLen
<1> QED
  BY <1>2, <1>3, <1>4, <1>5, <1>6

LEMMA PartOf ==
  ASSUME NEW w \in Seq(Nat), NEW m \in Nat, NEW c \in Nat, m > 0, m + c - 1 <= Len(w)
  PROVE  \A j \in 1 .. c : SubSeq(w, m, m + c - 1)[j] = w[m + j - 1]
  OBVIOUS

\* A whole frame gives the peer its text.
LEMMA WholeFrameIsRead ==
  ASSUME NEW t \in Texts, ~Sending!TooLong(Len(t)), NEW key \in Keys,
         NEW F, F = Sending!Frame(t, key),
         NEW w \in Seq(Nat), NEW p, Begins(w, p, F, Len(F))
  PROVE  /\ Sending!Complete(w, p)
         /\ Sending!NextFrom(w, p) = p + Len(F)
         /\ Sending!TextAt(w, p) = t
<1>0. PICK n \in Nat : n = Len(t)
  BY SendFacts
<1>1. PICK h \in Nat : h = HeaderLen(n)
  BY DEF HeaderLen
<1>2. /\ F \in Seq(Nat) /\ Len(F) = h + 4 + n
      /\ \A i \in 1 .. 4 : F[h + i] = key[i]
      /\ \A i \in 1 .. n : F[h + 4 + i] = Xor(t[i], key[((i - 1) % 4) + 1])
  BY <1>0, <1>1, FramesHaveShape DEF FrameShape
<1>3. /\ p \in Nat /\ p > 0 /\ Len(w) \in Nat /\ p + (h + 4 + n) <= Len(w) + 1
      /\ \A i \in 1 .. h + 4 + n : w[p + i - 1] = F[i]
  <2>1. Begins(w, p, F, h + 4 + n)
    BY <1>2
  <2>2. /\ p \in Nat \ {0} /\ p + (h + 4 + n) <= Len(w) + 1
        /\ \A i \in 1 .. h + 4 + n : w[p + i - 1] = F[i]
    BY <2>1, Zenon DEF Begins
  <2>3. p \in Nat /\ p > 0 /\ Len(w) \in Nat
    BY <2>2
  <2> QED
    BY <2>2, <2>3, Zenon
<1>4. /\ Sending!HasHeader(w, p) /\ Sending!TextFrom(w, p) = p + h + 4
      /\ Sending!NextFrom(w, p) = p + Len(F)
  <2>1. Len(F) >= HeaderLen(Len(t))
    BY <1>0, <1>1, <1>2
  <2> QED
    BY <1>0, <1>1, <2>1, HeaderIsRead
<1>5. Sending!Complete(w, p)
  BY <1>2, <1>3, <1>4 DEF Sending!Complete
<1>6. PICK a : a = SubSeq(w, p + h + 4, p + h + 4 + n - 1)
  OBVIOUS
<1>7. PICK k : k = SubSeq(w, p + h, p + h + 3)
  OBVIOUS
<1>8. Sending!TextAt(w, p) = Sending!Masked(a, k)
  <2>1. /\ Sending!TextFrom(w, p) - 4 = p + h /\ Sending!TextFrom(w, p) - 1 = p + h + 3
        /\ Sending!NextFrom(w, p) - 1 = p + h + 4 + n - 1
    BY <1>2, <1>3, <1>4
  <2> QED
    BY <1>4, <1>6, <1>7, <2>1, Zenon DEF Sending!TextAt
<1>9. Len(a) = n /\ \A i \in 1 .. n : a[i] = Xor(t[i], key[((i - 1) % 4) + 1])
  <2>1. Len(a) = n /\ \A i \in 1 .. n : a[i] = w[p + h + 4 + i - 1]
    BY <1>3, <1>6
  <2>2. ASSUME NEW i \in 1 .. n PROVE w[p + h + 4 + i - 1] = F[h + 4 + i]
    <3>1. h + 4 + i \in 1 .. h + 4 + n /\ p + (h + 4 + i) - 1 = p + h + 4 + i - 1
      BY <1>3
    <3> QED
      BY <1>3, <3>1, Zenon
  <2> QED
    BY <1>2, <2>1, <2>2, Zenon
<1>10. ASSUME NEW i \in 1 .. 4 PROVE k[i] = key[i]
  <2>1. k[i] = w[p + h + i - 1]
    <3>1. PICK m \in Nat : m = p + h /\ m > 0 /\ m + 3 <= Len(w)
      BY <1>3
    <3>2. k = SubSeq(w, m, m + 3)
      BY <1>7, <3>1
    <3>3. PICK c \in Nat : c = 4
      OBVIOUS
    <3>4. m + c - 1 = m + 3 /\ m + c - 1 <= Len(w) /\ Len(w) \in Nat
      BY <1>3, <3>1, <3>3
    <3>5. k = SubSeq(w, m, m + c - 1)
      BY <3>2, <3>4, Zenon
    <3>6. \A j \in 1 .. c : k[j] = w[m + j - 1]
      BY <3>1, <3>4, <3>5, PartOf
    <3> QED
      BY <3>1, <3>3, <3>6
  <2>2. h + i \in 1 .. h + 4 + n /\ p + (h + i) - 1 = p + h + i - 1
    BY <1>3
  <2> QED
    BY <1>2, <1>3, <2>1, <2>2, Zenon
<1>11. ASSUME NEW i \in 1 .. n PROVE Xor(a[i], k[((i - 1) % 4) + 1]) = t[i]
  <2>1. PICK j \in 1 .. 4 : j = ((i - 1) % 4) + 1
    BY KeyByte
  <2>2. t[i] \in Sending!Bytes /\ key[j] \in Sending!Bytes
    BY <1>0, SendFacts
  <2>3. a[i] = Xor(t[i], key[j]) /\ k[j] = key[j]
    BY <1>9, <1>10, <2>1, Zenon
  <2>4. Xor(Xor(t[i], key[j]), key[j]) = t[i]
    BY <2>2, SendFacts, Zenon
  <2> QED
    BY <2>1, <2>3, <2>4, Zenon
<1>12. Sending!Masked(a, k) = [i \in 1 .. n |-> Xor(a[i], k[((i - 1) % 4) + 1])]
  BY <1>9 DEF Sending!Masked
<1>13. t = [i \in 1 .. n |-> t[i]]
  BY <1>0, SendFacts
<1>14. Sending!Masked(a, k) = t
  BY <1>11, <1>12, <1>13, Zenon
<1> QED
  BY <1>4, <1>5, <1>8, <1>14

-----------------------------------------------------------------------------
(* What the peer reads *)

\* One step of the peer's reading, g being what it has read.
ReadingOf(w, g) ==
  [k \in 0 .. Len(w) |->
     IF k = 0 THEN [at |-> 1, texts |-> <<>>] ELSE Sending!ReadFrame(w, g[k - 1])]

\* v begins with w.
Grows(v, w) == v \in Seq(Nat) /\ Len(w) <= Len(v) /\ \A i \in 1 .. Len(w) : v[i] = w[i]

\* What is written later changes nothing of a frame that is complete.
LEMMA CompleteFrameStays ==
  ASSUME NEW w \in Seq(Nat), NEW v, Grows(v, w), NEW p \in Nat \ {0},
         Sending!Complete(w, p)
  PROVE  /\ Sending!Complete(v, p)
         /\ Sending!NextFrom(v, p) = Sending!NextFrom(w, p)
         /\ Sending!TextAt(v, p) = Sending!TextAt(w, p)
<1>1. PICK n \in Nat : n = Len(w)
  OBVIOUS
<1>2. PICK m \in Nat : m = Len(v) /\ n <= m
  BY <1>1 DEF Grows
<1>3. \A i \in 1 .. n : v[i] = w[i]
  BY <1>1 DEF Grows
<1>4. p + 1 \in 1 .. n
  BY <1>1 DEF Sending!Complete, Sending!HasHeader
<1>5. Sending!Long(v, p) <=> Sending!Long(w, p)
  BY <1>3, <1>4, Zenon DEF Sending!Long
<1>6. Sending!Long(w, p) => p + 2 \in 1 .. n /\ p + 3 \in 1 .. n
  BY <1>1 DEF Sending!Complete, Sending!HasHeader
<1>7. Sending!TextLen(v, p) = Sending!TextLen(w, p)
  BY <1>3, <1>4, <1>5, <1>6, Zenon DEF Sending!TextLen
<1>8. Sending!TextFrom(v, p) = Sending!TextFrom(w, p)
  BY <1>5, Zenon DEF Sending!TextFrom
<1>9. Sending!NextFrom(v, p) = Sending!NextFrom(w, p)
  BY <1>7, <1>8, Zenon DEF Sending!NextFrom
<1>10. PICK f \in Nat : f = Sending!TextFrom(w, p) /\ f > 4
  BY DEF Sending!TextFrom
<1>11. PICK l \in Nat : l = Sending!TextLen(w, p)
  <2>1. \A i \in 1 .. n : w[i] \in Nat
    BY <1>1
  <2>2. CASE Sending!Long(w, p)
    <3>1. PICK x \in Nat : x = w[p + 2]
      BY <1>6, <2>1, <2>2
    <3>2. PICK y \in Nat : y = w[p + 3]
      BY <1>6, <2>1, <2>2
    <3>3. Sending!TextLen(w, p) = x * Radix + y
      BY <2>2, <3>1, <3>2 DEF Sending!TextLen
    <3>4. x * Radix + y \in Nat
      BY SendFacts
    <3> QED
      BY <3>3, <3>4
  <2>3. CASE ~Sending!Long(w, p)
    BY <1>4, <2>1, <2>3 DEF Sending!TextLen
  <2> QED
    BY <2>2, <2>3
<1>12. Sending!NextFrom(w, p) = f + l /\ f + l <= n + 1
  BY <1>1, <1>10, <1>11 DEF Sending!Complete, Sending!NextFrom
<1>13. Sending!Complete(v, p)
  <2>1. Sending!HasHeader(v, p)
    <3>1. p + 1 <= m /\ (Sending!Long(w, p) => p + 3 <= m)
      BY <1>1, <1>2, <1>4, <1>6
    <3> QED
      BY <1>2, <1>5, <3>1 DEF Sending!HasHeader
  <2>2. f + l <= m + 1
    BY <1>2, <1>12
  <2> QED
    BY <1>2, <1>9, <1>12, <2>1, <2>2 DEF Sending!Complete
<1>14. ASSUME NEW a \in Nat, NEW c \in Int, a > 0, c <= n
       PROVE  SubSeq(v, a, c) = SubSeq(w, a, c)
  <2>1. /\ SubSeq(v, a, c) = [i \in 1 .. c - a + 1 |-> v[a + i - 1]]
        /\ SubSeq(w, a, c) = [i \in 1 .. c - a + 1 |-> w[a + i - 1]]
    BY <1>14, <1>1, <1>2 DEF Grows
  <2>2. ASSUME NEW i \in 1 .. c - a + 1 PROVE v[a + i - 1] = w[a + i - 1]
    <3>1. a + i - 1 \in 1 .. n
      BY <1>14
    <3> QED
      BY <1>3, <3>1, Zenon
  <2> QED
    BY <2>1, <2>2, Zenon
<1>15. /\ SubSeq(v, f, f + l - 1) = SubSeq(w, f, f + l - 1)
       /\ SubSeq(v, f - 4, f - 1) = SubSeq(w, f - 4, f - 1)
  <2>1. f > 0 /\ f + l - 1 \in Int /\ f + l - 1 <= n
    BY <1>10, <1>12
  <2>2. f - 4 \in Nat /\ f - 4 > 0 /\ f - 1 \in Int /\ f - 1 <= n
    BY <1>10, <1>12
  <2> QED
    BY <1>14, <2>1, <2>2, Zenon
<1>16. Sending!TextAt(v, p) = Sending!TextAt(w, p)
  <2>1. /\ Sending!TextFrom(v, p) = f /\ Sending!NextFrom(v, p) = f + l
        /\ Sending!TextFrom(w, p) = f /\ Sending!NextFrom(w, p) = f + l
    BY <1>8, <1>9, <1>10, <1>12, Zenon
  <2>2. /\ Sending!TextAt(v, p)
             = Sending!Masked(SubSeq(v, f, f + l - 1), SubSeq(v, f - 4, f - 1))
        /\ Sending!TextAt(w, p)
             = Sending!Masked(SubSeq(w, f, f + l - 1), SubSeq(w, f - 4, f - 1))
    <3>1. /\ Sending!TextFrom(v, p) - 4 = f - 4 /\ Sending!TextFrom(w, p) - 4 = f - 4
          /\ Sending!TextFrom(v, p) - 1 = f - 1 /\ Sending!TextFrom(w, p) - 1 = f - 1
          /\ Sending!NextFrom(v, p) - 1 = f + l - 1
          /\ Sending!NextFrom(w, p) - 1 = f + l - 1
      BY <2>1
    <3> QED
      BY <2>1, <3>1, Zenon DEF Sending!TextAt
  <2> QED
    BY <1>15, <2>2, Zenon
<1> QED
  BY <1>9, <1>13, <1>16

\* b tells where the frames of the texts begin, and where they end, in w.
Lies(w, texts, b) ==
  /\ b \in [0 .. Len(texts) -> Nat \ {0}] /\ b[0] = 1
  /\ \A k \in 0 .. Len(texts) : b[k] > k
  /\ \A k \in 1 .. Len(texts) :
       /\ Sending!Complete(w, b[k - 1])
       /\ Sending!NextFrom(w, b[k - 1]) = b[k]
       /\ Sending!TextAt(w, b[k - 1]) = texts[k]

\* w holds these texts, and no other complete frame after them.
Holds(w, texts, b) ==
  /\ Lies(w, texts, b)
  /\ b[Len(texts)] <= Len(w) + 1 /\ ~Sending!Complete(w, b[Len(texts)])

LEMMA ReadingIsChosen ==
  ASSUME NEW w
  PROVE  Sending!PeerReads(w) = (CHOOSE g : g = ReadingOf(w, g))[Len(w)].texts
  BY DEF Sending!PeerReads, ReadingOf

\* The peer reads the texts that w holds, and no others.
LEMMA PeerReadsTheHeld ==
  ASSUME NEW S, NEW texts \in Seq(S), NEW w \in Seq(Nat), NEW b, Holds(w, texts, b)
  PROVE  Sending!PeerReads(w) = texts
<1>1. PICK n \in Nat : n = Len(texts)
  OBVIOUS
<1>2. PICK m \in Nat : m = Len(w)
  OBVIOUS
<1>3. /\ b \in [0 .. n -> Nat \ {0}] /\ b[0] = 1 /\ b[n] > n /\ b[n] <= m + 1
      /\ ~Sending!Complete(w, b[n])
      /\ \A k \in 1 .. n : /\ Sending!Complete(w, b[k - 1])
                           /\ Sending!NextFrom(w, b[k - 1]) = b[k]
                           /\ Sending!TextAt(w, b[k - 1]) = texts[k]
  BY <1>1, <1>2 DEF Holds, Lies
<1>4. n <= m
  <2>1. PICK c \in Nat : c = b[n]
    BY <1>3
  <2> QED
    BY <1>3, <2>1
<1> DEFINE At(k) == [at |-> b[k], texts |-> SubSeq(texts, 1, k)]
           Read == [k \in 0 .. m |-> IF k <= n THEN At(k) ELSE At(n)]
<1>5. ASSUME NEW k \in 1 .. n PROVE Sending!ReadFrame(w, At(k - 1)) = At(k)
  <2>1. PICK s : s = SubSeq(texts, 1, k - 1)
    OBVIOUS
  <2>2. PICK c : c = b[k - 1]
    OBVIOUS
  <2>3. Append(s, texts[k]) = SubSeq(texts, 1, k)
    BY <1>1, <2>1
  <2>4. /\ Sending!Complete(w, c) /\ Sending!NextFrom(w, c) = b[k]
        /\ Sending!TextAt(w, c) = texts[k]
    BY <1>3, <2>2
  <2>5. At(k - 1) = [at |-> c, texts |-> s]
    BY <2>1, <2>2
  <2>6. Sending!ReadFrame(w, [at |-> c, texts |-> s])
          = [at |-> b[k], texts |-> Append(s, texts[k])]
    BY <2>4 DEF Sending!ReadFrame
  <2> QED
    BY <2>3, <2>5, <2>6, Zenon
<1>6. Sending!ReadFrame(w, At(n)) = At(n)
  BY <1>3 DEF Sending!ReadFrame
<1>7. At(0) = [at |-> 1, texts |-> <<>>]
  BY <1>1, <1>3
<1> HIDE DEF At
<1>8. ASSUME NEW k \in 1 .. m PROVE Read[k] = Sending!ReadFrame(w, Read[k - 1])
  <2>1. k - 1 \in 0 .. m /\ k \in 0 .. m
    OBVIOUS
  <2>2. CASE k <= n
    <3>1. k \in 1 .. n /\ k - 1 <= n
      BY <2>2, <1>1, <1>2
    <3>2. Read[k] = At(k) /\ Read[k - 1] = At(k - 1)
      BY <2>1, <2>2, <3>1
    <3> QED
      BY <1>5, <3>1, <3>2
  <2>3. CASE k = n + 1
    <3>1. Read[k] = At(n) /\ Read[k - 1] = At(n)
      BY <2>1, <2>3
    <3> QED
      BY <1>6, <3>1
  <2>4. CASE k > n + 1
    <3>1. ~(k <= n) /\ ~(k - 1 <= n)
      BY <2>4, <1>1, <1>2
    <3>2. Read[k] = At(n) /\ Read[k - 1] = At(n)
      BY <2>1, <3>1
    <3> QED
      BY <1>6, <3>2
  <2> QED
    BY <2>2, <2>3, <2>4
<1>9. Read[0] = [at |-> 1, texts |-> <<>>] /\ Read[m] = At(n)
  BY <1>4, <1>7
<1>10. DOMAIN Read = 0 .. m /\ Read = [k \in 0 .. m |-> Read[k]]
  OBVIOUS
<1> HIDE DEF Read
<1>11. Read = ReadingOf(w, Read)
  <2>1. ASSUME NEW k \in 0 .. m
        PROVE  Read[k] = IF k = 0 THEN [at |-> 1, texts |-> <<>>]
                                  ELSE Sending!ReadFrame(w, Read[k - 1])
    <3>1. CASE k = 0
      BY <1>9, <3>1
    <3>2. CASE k # 0
      <4>1. k \in 1 .. m
        BY <3>2
      <4> QED
        BY <1>8, <3>2, <4>1
    <3> QED
      BY <3>1, <3>2
  <2>2. ReadingOf(w, Read)
          = [k \in 0 .. m |-> IF k = 0 THEN [at |-> 1, texts |-> <<>>]
                                       ELSE Sending!ReadFrame(w, Read[k - 1])]
    BY <1>2 DEF ReadingOf
  <2> QED
    BY <1>10, <2>1, <2>2, Zenon
<1>12. PICK g : g = (CHOOSE x : x = ReadingOf(w, x))
  OBVIOUS
<1>13. g = ReadingOf(w, g)
  BY <1>11, <1>12, Zenon
<1>14. g[0] = Read[0] /\ \A k \in 1 .. m : g[k] = Sending!ReadFrame(w, g[k - 1])
  <2>1. g = [k \in 0 .. m |-> IF k = 0 THEN [at |-> 1, texts |-> <<>>]
                                       ELSE Sending!ReadFrame(w, g[k - 1])]
    BY <1>2, <1>13 DEF ReadingOf
  <2>2. ASSUME NEW k \in 0 .. m
        PROVE  g[k] = IF k = 0 THEN [at |-> 1, texts |-> <<>>]
                               ELSE Sending!ReadFrame(w, g[k - 1])
    BY <2>1, Zenon
  <2>3. 0 \in 0 .. m
    OBVIOUS
  <2>4. g[0] = Read[0]
    BY <1>9, <2>2, <2>3, Zenon
  <2>5. ASSUME NEW k \in 1 .. m PROVE g[k] = Sending!ReadFrame(w, g[k - 1])
    <3>1. k \in 0 .. m /\ k # 0
      OBVIOUS
    <3> QED
      BY <2>2, <3>1, Zenon
  <2> QED
    BY <2>4, <2>5
<1>15. g[m] = Read[m]
  <2> DEFINE Wrong == {k \in 0 .. m : g[k] # Read[k]}
  <2>1. CASE Wrong = {}
    BY <2>1
  <2>2. CASE Wrong # {}
    <3>1. Wrong \subseteq Nat
      OBVIOUS
    <3>2. PICK k \in Wrong : \A j \in Wrong : k <= j
      <4> HIDE DEF Wrong
      <4> QED
        BY <2>2, <3>1, LeastChosen
    <3>3. k \in 0 .. m /\ g[k] # Read[k]
      OBVIOUS
    <3>4. k # 0
      BY <1>14, <3>3
    <3>5. k \in 1 .. m /\ k - 1 \in 0 .. m /\ ~(k <= k - 1)
      BY <3>3, <3>4
    <3>6. g[k - 1] = Read[k - 1]
      BY <3>2, <3>5
    <3> QED
      BY <1>8, <1>14, <3>3, <3>5, <3>6
  <2> QED
    BY <2>1, <2>2
<1>16. Sending!PeerReads(w) = g[m].texts
  BY <1>2, <1>12, ReadingIsChosen, Zenon
<1>17. g[m] = At(n)
  BY <1>9, <1>15
<1>18. At(n).texts = SubSeq(texts, 1, n)
  BY DEF At
<1> QED
  BY <1>1, <1>16, <1>17, <1>18

-----------------------------------------------------------------------------
(* rtw_ws_send_text and io_write_all: the invariant *)

Framed ==
  frame # <<>> =>
    /\ text \in Texts /\ ~Sending!TooLong(Len(text))
    /\ \E key \in Keys : frame = Sending!Frame(text, key)

\* What is written of the frame since p.
WrittenSince(p) ==
  IF frame = <<>> THEN p = Len(wire) + 1
  ELSE off < Len(frame) /\ Begins(wire, p, frame, off) /\ p + off = Len(wire) + 1

\* The socket has taken the frames of the texts that were sent, and of the frame
\* that is being written as much as off says; after a break it holds a cut frame
\* that is never continued.
SendInv ==
  /\ wire \in Seq(Nat) /\ sentTexts \in Seq(Texts) /\ off \in Nat /\ Framed
  /\ \E b : /\ Holds(wire, sentTexts, b)
            /\ ~broken => WrittenSince(b[Len(sentTexts)])

LEMMA SendInvInit == Sending!Init => SendInv
<1> SUFFICES ASSUME Sending!Init PROVE SendInv
  OBVIOUS
<1>1. wire = <<>> /\ sentTexts = <<>> /\ off = 0 /\ frame = <<>>
  BY DEF Sending!Init
<1>2. PICK b : b = [k \in 0 .. 0 |-> 1]
  OBVIOUS
<1>3. b \in [0 .. 0 -> Nat \ {0}] /\ b[0] = 1
  BY <1>2
<1>4. Len(<<>>) = 0
  OBVIOUS
<1>5. Lies(<<>>, <<>>, b)
  BY <1>3, <1>4 DEF Lies
<1>6. ~Sending!Complete(<<>>, 1)
  BY <1>4 DEF Sending!Complete, Sending!HasHeader
<1>7. Holds(<<>>, <<>>, b)
  BY <1>3, <1>4, <1>5, <1>6 DEF Holds
<1>8. 1 = Len(<<>>) + 1
  BY <1>4
<1> QED
  BY <1>1, <1>3, <1>4, <1>7, <1>8 DEF SendInv, Framed, WrittenSince

\* A frame that begins to be written.
LEMMA FrameIsNotEmpty ==
  ASSUME NEW t \in Texts, ~Sending!TooLong(Len(t)), NEW key \in Keys
  PROVE  /\ Sending!Frame(t, key) \in Seq(Nat) /\ Len(Sending!Frame(t, key)) > 0
         /\ Sending!Frame(t, key) # <<>>
<1>1. FrameShape(Sending!Frame(t, key), t, key)
  BY FramesHaveShape
<1>2. Len(t) \in Nat /\ HeaderLen(Len(t)) \in Nat
  BY SendFacts DEF HeaderLen
<1> QED
  BY <1>1, <1>2 DEF FrameShape

\* Frames stay where they are when more is written.
LEMMA FramesStay ==
  ASSUME NEW S, NEW texts \in Seq(S), NEW w \in Seq(Nat), NEW v, Grows(v, w), NEW b,
         Lies(w, texts, b)
  PROVE  Lies(v, texts, b)
<1>1. PICK n \in Nat : n = Len(texts)
  OBVIOUS
<1>2. ASSUME NEW k \in 1 .. n
      PROVE  /\ Sending!Complete(v, b[k - 1])
             /\ Sending!NextFrom(v, b[k - 1]) = b[k]
             /\ Sending!TextAt(v, b[k - 1]) = texts[k]
  <2>1. k - 1 \in 0 .. n
    OBVIOUS
  <2>2. PICK p \in Nat \ {0} : p = b[k - 1]
    BY <1>1, <2>1 DEF Lies
  <2>3. /\ Sending!Complete(w, p) /\ Sending!NextFrom(w, p) = b[k]
        /\ Sending!TextAt(w, p) = texts[k]
    BY <1>1, <2>2 DEF Lies
  <2>4. /\ Sending!Complete(v, p) /\ Sending!NextFrom(v, p) = Sending!NextFrom(w, p)
        /\ Sending!TextAt(v, p) = Sending!TextAt(w, p)
    BY <2>3, CompleteFrameStays
  <2> QED
    BY <2>2, <2>3, <2>4
<1> QED
  BY <1>1, <1>2 DEF Lies

\* One more frame, whole, after the others.
LEMMA FrameIsAdded ==
  ASSUME NEW texts \in Seq(Texts), NEW v \in Seq(Nat), NEW b, Lies(v, texts, b),
         NEW t \in Texts, ~Sending!TooLong(Len(t)), NEW key \in Keys,
         Begins(v, b[Len(texts)], Sending!Frame(t, key), Len(Sending!Frame(t, key))),
         b[Len(texts)] + Len(Sending!Frame(t, key)) = Len(v) + 1
  PROVE  \E c : Holds(v, Append(texts, t), c) /\ c[Len(Append(texts, t))] = Len(v) + 1
<1>1. PICK n \in Nat : n = Len(texts)
  OBVIOUS
<1>2. PICK F : F = Sending!Frame(t, key)
  OBVIOUS
<1>3. PICK l \in Nat : l = Len(F) /\ l > 0
  BY <1>2, FrameIsNotEmpty
<1>4. PICK p \in Nat \ {0} : p = b[n] /\ p > n
  <2>1. n \in 0 .. n
    OBVIOUS
  <2>2. b \in [0 .. n -> Nat \ {0}] /\ \A k \in 0 .. n : b[k] > k
    BY <1>1, Zenon DEF Lies
  <2>3. b[n] \in Nat \ {0} /\ b[n] > n
    BY <2>1, <2>2, Zenon
  <2> QED
    BY <2>3
<1>5. PICK m \in Nat : m = Len(v) /\ p + l = m + 1
  BY <1>1, <1>2, <1>3, <1>4
<1>6. /\ Sending!Complete(v, p) /\ Sending!NextFrom(v, p) = p + l
      /\ Sending!TextAt(v, p) = t
  <2>1. Begins(v, p, F, Len(F))
    BY <1>1, <1>2, <1>4
  <2>2. /\ Sending!Complete(v, p) /\ Sending!NextFrom(v, p) = p + Len(F)
        /\ Sending!TextAt(v, p) = t
    <3>1. t \in Texts /\ v \in Seq(Nat) /\ key \in Keys
      OBVIOUS
    <3> QED
      BY <1>2, <2>1, <3>1, WholeFrameIsRead
  <2> QED
    BY <1>3, <2>2, Zenon
<1>7. PICK ts : ts = Append(texts, t)
  OBVIOUS
<1>8. /\ ts \in Seq(Texts) /\ Len(ts) = n + 1 /\ ts[n + 1] = t
      /\ \A k \in 1 .. n : ts[k] = texts[k]
  BY <1>1, <1>7
<1>9. PICK c : c = [k \in 0 .. n + 1 |-> IF k <= n THEN b[k] ELSE p + l]
  OBVIOUS
<1>10. ASSUME NEW k \in 0 .. n PROVE c[k] = b[k] /\ b[k] \in Nat \ {0} /\ b[k] > k
  <2>1. k \in 0 .. n + 1 /\ k <= n
    OBVIOUS
  <2>2. c[k] = b[k]
    BY <1>9, <2>1
  <2>3. b[k] \in Nat \ {0} /\ b[k] > k
    BY <1>1 DEF Lies
  <2> QED
    BY <2>2, <2>3
<1>11. c[n + 1] = p + l /\ p + l > n + 1 /\ p + l \in Nat \ {0}
  <2>1. n + 1 \in 0 .. n + 1 /\ ~(n + 1 <= n)
    OBVIOUS
  <2>2. c[n + 1] = p + l
    BY <1>9, <2>1, Zenon
  <2>3. p + l > n + 1 /\ p + l \in Nat \ {0}
    BY <1>3, <1>4
  <2> QED
    BY <2>2, <2>3
<1>12. ASSUME NEW k \in 0 .. n + 1 PROVE c[k] \in Nat \ {0} /\ c[k] > k
  <2>1. CASE k \in 0 .. n
    BY <1>10, <2>1
  <2>2. CASE k = n + 1
    BY <1>11, <2>2
  <2> QED
    BY <2>1, <2>2
<1>13. c \in [0 .. n + 1 -> Nat \ {0}]
  BY <1>9, <1>12
<1>14. c[0] = 1
  <2>1. 0 \in 0 .. n /\ b[0] = 1
    BY DEF Lies
  <2> QED
    BY <1>10, <2>1
<1>15. ASSUME NEW k \in 1 .. n + 1
       PROVE  /\ Sending!Complete(v, c[k - 1])
              /\ Sending!NextFrom(v, c[k - 1]) = c[k]
              /\ Sending!TextAt(v, c[k - 1]) = ts[k]
  <2>1. CASE k \in 1 .. n
    <3>1. k \in 0 .. n /\ k - 1 \in 0 .. n
      BY <2>1
    <3>2. c[k - 1] = b[k - 1] /\ c[k] = b[k] /\ ts[k] = texts[k]
      BY <1>8, <1>10, <2>1, <3>1
    <3> QED
      BY <1>1, <2>1, <3>2 DEF Lies
  <2>2. CASE k = n + 1
    <3>1. k - 1 = n /\ n \in 0 .. n
      BY <2>2
    <3>2. c[k - 1] = p /\ c[k] = p + l /\ ts[k] = t
      BY <1>4, <1>8, <1>10, <1>11, <2>2, <3>1
    <3> QED
      BY <1>6, <3>2
  <2> QED
    BY <2>1, <2>2
<1>16. Lies(v, ts, c)
  BY <1>8, <1>12, <1>13, <1>14, <1>15 DEF Lies
<1>17. ~Sending!Complete(v, p + l)
  BY <1>5 DEF Sending!Complete, Sending!HasHeader
<1>18. Holds(v, ts, c) /\ c[Len(ts)] = Len(v) + 1
  BY <1>5, <1>8, <1>11, <1>16, <1>17 DEF Holds
<1> QED
  BY <1>7, <1>18

\* w ends with the first o bytes of F, which begins at p.
EndsWith(w, p, F, o) == Begins(w, p, F, o) /\ p + o = Len(w) + 1

\* io_write_all writes a few more bytes of a frame.
LEMMA FrameGoesOn ==
  ASSUME NEW w \in Seq(Nat), NEW F \in Seq(Nat), NEW p, NEW o \in Nat,
         EndsWith(w, p, F, o), NEW n \in Nat, o + n <= Len(F)
  PROVE  /\ Grows(w \o SubSeq(F, o + 1, o + n), w)
         /\ EndsWith(w \o SubSeq(F, o + 1, o + n), p, F, o + n)
<1>1. PICK l \in Nat : l = Len(F)
  OBVIOUS
<1>2. PICK m \in Nat : m = Len(w)
  OBVIOUS
<1> DEFINE v == w \o SubSeq(F, o + 1, o + n)
<1>3. /\ p \in Nat \ {0} /\ o + n <= l /\ p + o = m + 1 /\ n \in Nat
      /\ \A i \in 1 .. o : w[p + i - 1] = F[i]
  BY <1>1, <1>2 DEF Begins, EndsWith
<1>0. p \in Nat /\ p > 0 /\ p + o = m + 1
  <2>1. p \in Nat \ {0} /\ p + o = m + 1
    BY <1>3, Zenon
  <2> QED
    BY <2>1
<1>4. PICK x : x = SubSeq(F, o + 1, o + n)
  OBVIOUS
<1>5. x \in Seq(Nat) /\ Len(x) = n /\ \A i \in 1 .. n : x[i] = F[o + i]
  <2>1. x = [i \in 1 .. n |-> F[o + i]]
    <3>1. (o + n) - (o + 1) + 1 = n
      BY <1>3
    <3>2. x = [i \in 1 .. (o + n) - (o + 1) + 1 |-> F[(o + 1) + i - 1]]
      BY <1>1, <1>3, <1>4
    <3>3. \A i \in 1 .. n : (o + 1) + i - 1 = o + i
      BY <1>3
    <3> QED
      BY <3>1, <3>2, <3>3
  <2>2. \A i \in 1 .. n : F[o + i] \in Nat
    BY <1>1, <1>3
  <2> QED
    BY <1>3, <2>1, <2>2
<1>6. IsJoin(v, w, x)
  BY <1>4, <1>5, Joined, Zenon
<1> HIDE DEF v
<1>7. /\ v \in Seq(Nat) /\ Len(v) = m + n
      /\ \A i \in 1 .. m : v[i] = w[i]
      /\ \A i \in 1 .. n : v[m + i] = x[i]
  BY <1>2, <1>5, <1>6, Zenon DEF IsJoin
<1>8. Grows(v, w)
  BY <1>2, <1>3, <1>7 DEF Grows
<1>9. ASSUME NEW i \in 1 .. o + n PROVE v[p + i - 1] = F[i]
  <2>1. CASE i \in 1 .. o
    <3>1. p + i - 1 \in 1 .. m
      BY <1>0, <2>1
    <3> QED
      BY <1>3, <1>7, <2>1, <3>1
  <2>2. CASE i \notin 1 .. o
    <3>1. PICK j \in 1 .. n : i = o + j
      <4>0. o \in Nat /\ n \in Nat
        BY <1>3
      <4>1. i - o \in 1 .. n /\ i = o + (i - o)
        BY <2>2, <4>0
      <4> QED
        BY <4>1
    <3>2. p + i - 1 = m + j
      BY <1>0, <3>1
    <3> QED
      BY <1>5, <1>7, <3>1, <3>2
  <2> QED
    BY <2>1, <2>2
<1>10. p + (o + n) = m + n + 1 /\ o + n \in 0 .. l
  BY <1>3
<1>11. p + (o + n) = Len(v) + 1
  BY <1>7, <1>10
<1>12. Begins(v, p, F, o + n)
  <2>1. p + (o + n) <= m + n + 1
    BY <1>3, <1>10
  <2> QED
    BY <1>1, <1>3, <1>7, <1>9, <1>10, <2>1 DEF Begins
<1> QED
  BY <1>8, <1>11, <1>12 DEF v, EndsWith

LEMMA SendBeginsStep ==
  ASSUME SendInv, Sending!SendBegins
  PROVE  SendInv'
<1>1. PICK t \in Texts, key \in Keys :
        ~Sending!TooLong(Len(t)) /\ text' = t /\ frame' = Sending!Frame(t, key)
  BY DEF Sending!SendBegins
<1>2. /\ frame = <<>> /\ off' = 0 /\ wire' = wire /\ broken' = broken
      /\ sentTexts' = sentTexts
  BY DEF Sending!SendBegins
<1>3. frame' # <<>> /\ frame' \in Seq(Nat) /\ Len(frame') > 0
  BY <1>1, FrameIsNotEmpty
<1>4. Framed'
  BY <1>1 DEF Framed
<1>5. PICK b : /\ Holds(wire, sentTexts, b)
               /\ ~broken => WrittenSince(b[Len(sentTexts)])
  BY DEF SendInv
<1>6. PICK p \in Nat \ {0} : p = b[Len(sentTexts)]
  <2>1. PICK n \in Nat : n = Len(sentTexts)
    BY DEF SendInv
  <2>2. b \in [0 .. n -> Nat \ {0}] /\ n \in 0 .. n
    BY <1>5, <2>1 DEF Holds, Lies
  <2> QED
    BY <2>1, <2>2
<1>7. ASSUME ~broken PROVE WrittenSince(p)'
  <2>1. PICK m \in Nat : m = Len(wire) /\ p = m + 1
    BY <1>2, <1>5, <1>6, <1>7 DEF SendInv, WrittenSince
  <2>2. PICK F : F = frame' /\ F \in Seq(Nat) /\ Len(F) > 0
    BY <1>3
  <2>3. Begins(wire, p, F, 0)
    BY <2>1, <2>2 DEF Begins
  <2>4. 0 < Len(F) /\ p + 0 = Len(wire) + 1
    BY <2>1, <2>2
  <2> QED
    BY <1>2, <1>3, <2>2, <2>3, <2>4, Zenon DEF WrittenSince
<1>8. wire \in Seq(Nat) /\ sentTexts \in Seq(Texts) /\ 0 \in Nat
  BY DEF SendInv
<1> QED
  BY <1>2, <1>4, <1>5, <1>6, <1>7, <1>8 DEF SendInv

LEMMA WritesStep ==
  ASSUME SendInv, Sending!Writes
  PROVE  SendInv'
<1>1. PICK n \in 1 .. Len(frame) - off :
        /\ wire' = wire \o SubSeq(frame, off + 1, off + n) /\ off' = off + n
        /\ IF off' = Len(frame)
             THEN frame' = <<>> /\ sentTexts' = Append(sentTexts, text)
             ELSE UNCHANGED <<frame, sentTexts>>
  BY DEF Sending!Writes, Sending!Written
<1>2. frame # <<>> /\ ~broken /\ text' = text /\ broken' = broken
  BY DEF Sending!Writes
<1>3. wire \in Seq(Nat) /\ sentTexts \in Seq(Texts) /\ off \in Nat
  BY DEF SendInv
<1>4. PICK key \in Keys :
        frame = Sending!Frame(text, key) /\ text \in Texts /\ ~Sending!TooLong(Len(text))
  BY <1>2 DEF SendInv, Framed
<1>5. frame \in Seq(Nat)
  BY <1>4, FrameIsNotEmpty
<1>6. PICK b : Holds(wire, sentTexts, b) /\ WrittenSince(b[Len(sentTexts)])
  BY <1>2 DEF SendInv
<1>7. PICK p : p = b[Len(sentTexts)]
  OBVIOUS
<1>8. off < Len(frame) /\ Begins(wire, p, frame, off) /\ p + off = Len(wire) + 1
  BY <1>2, <1>6, <1>7 DEF WrittenSince
<1>9. PICK v : v = wire \o SubSeq(frame, off + 1, off + n)
  OBVIOUS
<1>10. Grows(v, wire) /\ Begins(v, p, frame, off + n) /\ p + (off + n) = Len(v) + 1
  <2>1. PICK w, F, o : w = wire /\ F = frame /\ o = off
    OBVIOUS
  <2>2. w \in Seq(Nat) /\ F \in Seq(Nat) /\ o \in Nat /\ n \in 1 .. Len(F) - o
    BY <1>3, <1>5, <2>1
  <2>5. n \in Nat /\ o + n <= Len(F)
    BY <2>2
  <2>3. /\ Begins(w, p, F, o) /\ p + o = Len(w) + 1
        /\ v = w \o SubSeq(F, o + 1, o + n)
    BY <1>8, <1>9, <2>1
  <2>4. Grows(v, w) /\ Begins(v, p, F, o + n) /\ p + (o + n) = Len(v) + 1
    <3>1. EndsWith(w, p, F, o)
      BY <2>3 DEF EndsWith
    <3>2. /\ Grows(w \o SubSeq(F, o + 1, o + n), w)
          /\ EndsWith(w \o SubSeq(F, o + 1, o + n), p, F, o + n)
      BY <2>2, <2>5, <3>1, FrameGoesOn, Zenon
    <3> QED
      BY <2>3, <3>2, Zenon DEF EndsWith
  <2> QED
    BY <2>1, <2>4
<1>11. Lies(v, sentTexts, b)
  BY <1>3, <1>6, <1>10, FramesStay DEF Holds
<1>12. v \in Seq(Nat) /\ off + n \in Nat /\ off + n <= Len(frame) /\ Len(frame) \in Nat
  BY <1>3, <1>5, <1>10 DEF Grows
<1>13. CASE off + n = Len(frame)
  <2>1. frame' = <<>> /\ sentTexts' = Append(sentTexts, text)
    BY <1>1, <1>13
  <2>2. /\ Begins(v, b[Len(sentTexts)], Sending!Frame(text, key), Len(Sending!Frame(text, key)))
        /\ b[Len(sentTexts)] + Len(Sending!Frame(text, key)) = Len(v) + 1
    BY <1>4, <1>7, <1>10, <1>13
  <2>3. PICK c : /\ Holds(v, Append(sentTexts, text), c)
                 /\ c[Len(Append(sentTexts, text))] = Len(v) + 1
    BY <1>3, <1>4, <1>11, <1>12, <2>2, FrameIsAdded
  <2>4. Append(sentTexts, text) \in Seq(Texts)
    BY <1>3, <1>4
  <2>5. WrittenSince(c[Len(sentTexts)])'
    BY <1>1, <1>9, <2>1, <2>3 DEF WrittenSince
  <2>6. Framed'
    BY <2>1 DEF Framed
  <2> QED
    BY <1>1, <1>9, <1>12, <2>1, <2>3, <2>4, <2>5, <2>6 DEF SendInv
<1>14. CASE off + n # Len(frame)
  <2>1. frame' = frame /\ sentTexts' = sentTexts
    BY <1>1, <1>14
  <2>2. off + n < Len(frame)
    BY <1>12, <1>14
  <2>3. ~Sending!Complete(v, p)
    BY <1>4, <1>10, <1>12, <2>2, CutFrameIsNotRead
  <2>4. Holds(v, sentTexts, b)
    <3>1. p <= Len(v) + 1
      BY <1>10, <1>12 DEF Begins
    <3> QED
      BY <1>7, <1>11, <2>3, <3>1 DEF Holds
  <2>5. WrittenSince(b[Len(sentTexts)])'
    <3>1. WrittenSince(p)'
      BY <1>1, <1>2, <1>9, <1>10, <2>1, <2>2 DEF WrittenSince
    <3> QED
      BY <1>7, <2>1, <3>1
  <2>6. Framed'
    BY <1>2, <1>4, <2>1 DEF Framed
  <2> QED
    BY <1>1, <1>3, <1>9, <1>12, <2>1, <2>4, <2>5, <2>6 DEF SendInv
<1> QED
  BY <1>13, <1>14

LEMMA SendInvStep ==
  ASSUME SendInv, Sending!Next
  PROVE  SendInv'
<1>1. CASE Sending!SendRefused
  BY <1>1 DEF Sending!SendRefused, SendInv, Framed, WrittenSince
<1>2. CASE Sending!SendNoMemory
  BY <1>2 DEF Sending!SendNoMemory, SendInv, Framed, WrittenSince
<1>3. CASE Sending!Breaks
  BY <1>3 DEF Sending!Breaks, SendInv, Framed
<1>4. CASE Sending!WriteFails
  BY <1>4 DEF Sending!WriteFails, SendInv, Framed
<1> QED
  BY <1>1, <1>2, <1>3, <1>4, SendBeginsStep, WritesStep DEF Sending!Next

\* For every size of a byte and every limit of the short length, for all texts and
\* masks, and wherever the socket cuts a frame or the connection breaks: the peer
\* can read exactly the texts for which rtw_ws_send_text returned 0, in order.
THEOREM PeerReadsTheTexts == Sending!Spec => []PeerReadsWhatWasSent
<1>1. SendInv /\ [Sending!Next]_Sending!vars => SendInv'
  <2>1. ASSUME SendInv, UNCHANGED Sending!vars PROVE SendInv'
    BY <2>1 DEF Sending!vars, SendInv, Framed, WrittenSince
  <2> QED
    BY <2>1, SendInvStep
<1>2. SendInv => PeerReadsWhatWasSent
  BY PeerReadsTheHeld DEF SendInv, PeerReadsWhatWasSent, Sending!PeerReadsWhatWasSent
<1> QED
  BY <1>1, <1>2, SendInvInit, PTL DEF Sending!Spec

-----------------------------------------------------------------------------
(* The three parts side by side *)

\* The run that puts the reading, the sending and a message's way into the session
\* side by side is a run of each of them, so what is proved of each holds in it.
THEOREM PartsOfTheWire == WireSpec => Spec /\ Sending!Spec /\ Inbound!Spec
<1>1. WireInit => Init /\ Sending!Init /\ Inbound!Init
  BY DEF WireInit
<1>2. [WireNext]_wireVars
        => [Next]_vars /\ [Sending!Next]_Sending!vars /\ [Inbound!Next]_Inbound!vars
  <2>1. ASSUME UNCHANGED sendVars PROVE UNCHANGED Sending!vars
    BY <2>1, Zenon DEF sendVars, Sending!vars
  <2>2. ASSUME UNCHANGED inboundVars PROVE UNCHANGED Inbound!vars
    BY <2>2, Zenon DEF inboundVars, Inbound!vars
  <2> QED
    BY <2>1, <2>2, Zenon DEF WireNext, wireVars
<1> QED
  BY <1>1, <1>2, PTL DEF WireSpec, Spec, Sending!Spec, Inbound!Spec
=============================================================================
