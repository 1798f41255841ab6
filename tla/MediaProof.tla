--------------------------- MODULE MediaProof -------------------------------
(***************************************************************************)
(* The way of sound between the call and the peer.                         *)
(*                                                                         *)
(* The peer's audio into the call, for callbacks, messages and buffers of  *)
(* any length and any rate.  The invariant takes what was played and what  *)
(* waits to be played as one sequence, to which the peer adds at its end   *)
(* and which a clear cuts short; a callback only moves the border in it.   *)
(*                                                                         *)
(* The call's audio to the peer.  The samples of all frames pushed, with   *)
(* what is held behind them, are one sequence, and each comes from the     *)
(* right samples of what the callbacks brought: the loop over a callback's *)
(* samples only moves the cut between frames along it.                     *)
(*                                                                         *)
(* base64, for every payload.  Four values make the number that the three  *)
(* bytes make; a run of the decoder over the characters has, after every   *)
(* group, put out the bytes up to there; a blank is a step that changes    *)
(* nothing.                                                                *)
(*                                                                         *)
(* The simulator, for every script of its peer and every size of its       *)
(* arrays.  The invariant says which message may be on the wire at which   *)
(* step, and where each mark is, or which array had no room for it.        *)
(***************************************************************************)
EXTENDS MCMedia, FiniteSetTheorems, SequenceTheorems, WellFoundedInduction, TLAPS

DownTypeOK ==
  /\ rate \in Nat /\ inject_mode \in {"replace", "mix"}
  /\ media \in Nat /\ elapsed \in Nat
  /\ playout \in Seq(Nat) /\ played \in Seq(Nat)
  /\ \E n \in Nat : last.out \in [1 .. n -> SUBSET Nat]
  /\ last.dry \in BOOLEAN /\ last.skipped \in BOOLEAN

\* What the peer has sent carries the numbers 1 .. media.
Numbered ==
  /\ \A j \in 1 .. Len(played) : played[j] \in 1 .. media
  /\ \A j \in 1 .. Len(playout) : playout[j] \in 1 .. media

\* HeardInOrder, part by part.
PlayedInOrder ==
  /\ \A j, k \in 1 .. Len(played) : j < k => played[j] < played[k]
  /\ \A j, k \in 1 .. Len(playout) : j < k => playout[j] < playout[k]
  /\ \A j \in 1 .. Len(played), k \in 1 .. Len(playout) : played[j] < playout[k]

\* Before the rate and the mode are settled, nothing is heard.
NotStarted == rate = 0 => played = <<>> /\ last.out = <<>>

AudioInv ==
  /\ DownTypeOK /\ Numbered /\ PlayedInOrder /\ NotStarted
  /\ OnlyClearsLose /\ NoGapsNoLeaks /\ DownlinkAtCallRate

-----------------------------------------------------------------------------

LEMMA LesserOf ==
  ASSUME NEW a \in Nat, NEW b \in Nat
  PROVE  /\ Min({a, b}) \in Nat /\ Min({a, b}) <= a /\ Min({a, b}) <= b
         /\ Min({a, b}) = a \/ Min({a, b}) = b
<1>1. \E x \in {a, b} : \A y \in {a, b} : x <= y
  BY a <= b \/ b <= a
<1>2. Min({a, b}) \in {a, b} /\ \A y \in {a, b} : Min({a, b}) <= y
  BY <1>1 DEF Min
<1> QED
  BY <1>2

\* The parts in order, the whole is.
LEMMA WholeInOrder ==
  ASSUME AudioInv
  PROVE  HeardInOrder
<1>1. played \in Seq(Nat) /\ playout \in Seq(Nat)
  BY DEF AudioInv, DownTypeOK
<1> DEFINE s == played \o playout
<1>2. PICK p, q : p = Len(played) /\ q = Len(playout)
  OBVIOUS
<1>3. p \in Nat /\ q \in Nat
  BY <1>1, <1>2
<1>4. /\ DOMAIN s = 1 .. p + q
      /\ \A j \in 1 .. p : s[j] = played[j]
      /\ \A j \in p + 1 .. p + q : s[j] = playout[j - p]
  BY <1>1, <1>2, <1>3
<1> HIDE DEF s
<1>5. ASSUME NEW j \in 1 .. p + q, NEW k \in 1 .. p + q, j < k
      PROVE  s[j] < s[k]
  <2>1. CASE k \in 1 .. p
    <3>1. j \in 1 .. p
      BY <1>3, <1>5, <2>1
    <3> QED
      BY <1>2, <1>4, <1>5, <2>1, <3>1 DEF AudioInv, PlayedInOrder
  <2>2. CASE j \in 1 .. p /\ k \in p + 1 .. p + q
    <3>1. k - p \in 1 .. q
      BY <1>3, <2>2
    <3> QED
      BY <1>2, <1>4, <2>2, <3>1 DEF AudioInv, PlayedInOrder
  <2>3. CASE j \in p + 1 .. p + q /\ k \in p + 1 .. p + q
    <3>1. j - p \in 1 .. q /\ k - p \in 1 .. q /\ j - p < k - p
      BY <1>3, <1>5, <2>3
    <3> QED
      BY <1>2, <1>4, <2>3, <3>1 DEF AudioInv, PlayedInOrder
  <2> QED
    BY <1>3, <1>5, <2>1, <2>2, <2>3
<1> QED
  BY <1>4, <1>5 DEF HeardInOrder, s

-----------------------------------------------------------------------------
(* The steps *)

LEMMA AudioStarts == Init => AudioInv
<1> SUFFICES ASSUME Init PROVE AudioInv
  OBVIOUS
<1>1. /\ last.out = <<>> /\ last.dry = TRUE /\ last.skipped = FALSE
      /\ played = <<>> /\ playout = <<>> /\ cleared = {} /\ media = 0
  BY DEF Init
<1>2. last.out \in [1 .. 0 -> SUBSET Nat]
  BY <1>1
<1>3. DownTypeOK
  BY <1>1, <1>2 DEF Init, DownTypeOK
<1>4. Numbered /\ PlayedInOrder /\ NotStarted
  BY <1>1 DEF Numbered, PlayedInOrder, NotStarted
<1>5. Range(last.out) = {}
  BY <1>1 DEF Range
<1>6. NoGapsNoLeaks
  BY <1>5 DEF NoGapsNoLeaks
<1>7. DownlinkAtCallRate
  BY DEF Init, DownlinkAtCallRate
<1>8. OnlyClearsLose
  <2>1. Range(played) = {} /\ Range(playout) = {}
    BY <1>1 DEF Range
  <2>2. 1 .. 0 = {}
    OBVIOUS
  <2> QED
    BY <1>1, <2>1, <2>2 DEF OnlyClearsLose
<1> QED
  BY <1>3, <1>4, <1>6, <1>7, <1>8 DEF AudioInv

LEMMA StartsKeeps ==
  ASSUME AudioInv, Starts
  PROVE  AudioInv'
<1> USE DEF AudioInv
<1>1. /\ rate' \in Nat /\ inject_mode' \in {"replace", "mix"}
      /\ played = <<>> /\ last.out = <<>> /\ rate' # 0
      /\ UNCHANGED <<media, playout, cleared, elapsed, played, last>>
  BY AudioConstants DEF Starts, NotStarted, downVars
<1>2. DownTypeOK' /\ Numbered' /\ PlayedInOrder' /\ NotStarted' /\ OnlyClearsLose'
  BY <1>1 DEF DownTypeOK, Numbered, PlayedInOrder, NotStarted, OnlyClearsLose, Range
<1>3. Range(last'.out) = {}
  BY <1>1 DEF Range
<1>4. NoGapsNoLeaks'
  BY <1>1, <1>3 DEF NoGapsNoLeaks, Range
<1>5. Len(played) = 0 /\ elapsed \in Nat
  BY <1>1 DEF DownTypeOK
<1>6. DownlinkAtCallRate'
  BY <1>1, <1>5 DEF DownlinkAtCallRate
<1> QED
  BY <1>2, <1>4, <1>6

\* The steps that leave the peer's audio alone.
LEMMA DownKeeps ==
  ASSUME AudioInv, UNCHANGED <<rate, inject_mode, media, playout, cleared, played>>,
         elapsed' \in Nat, elapsed <= elapsed',
         DownTypeOK', NotStarted', NoGapsNoLeaks'
  PROVE  AudioInv'
<1> USE DEF AudioInv
<1>1. Numbered' /\ PlayedInOrder' /\ OnlyClearsLose'
  BY DEF Numbered, PlayedInOrder, OnlyClearsLose, Range
<1>2. Len(played) \in Nat /\ elapsed \in Nat
  BY DEF DownTypeOK
<1>3. DownlinkAtCallRate'
  BY <1>2 DEF DownlinkAtCallRate
<1> QED
  BY <1>1, <1>3

\* What a message adds is numbered on.
LEMMA PeerMediaKeeps ==
  ASSUME AudioInv, PeerMedia
  PROVE  AudioInv'
<1> USE DEF AudioInv
<1>1. PICK n \in MediaLens :
        media' = media + n /\ playout' = playout \o [k \in 1 .. n |-> media + k]
  BY DEF PeerMedia
<1>2. UNCHANGED <<rate, inject_mode, cleared, elapsed, played, last>>
  BY DEF PeerMedia, flagVars
<1>3. n \in Nat /\ media \in Nat /\ playout \in Seq(Nat) /\ played \in Seq(Nat)
  BY AudioConstants DEF DownTypeOK
<1>4. PICK q, p, m : q = Len(playout) /\ p = Len(played) /\ m = media + n
  OBVIOUS
<1>5. q \in Nat /\ p \in Nat /\ m \in Nat /\ m >= media
  BY <1>3, <1>4
<1> DEFINE new == [k \in 1 .. n |-> media + k]
<1>6. new \in Seq(Nat) /\ Len(new) = n /\ \A k \in 1 .. n : new[k] = media + k
  BY <1>3
<1> HIDE DEF new
<1>7. /\ playout' \in Seq(Nat) /\ Len(playout') = q + n
      /\ \A j \in 1 .. q : playout'[j] = playout[j]
      /\ \A j \in q + 1 .. q + n : playout'[j] = media + (j - q)
  <2>1. playout' = playout \o new
    BY <1>1 DEF new
  <2>2. playout' \in Seq(Nat) /\ Len(playout') = q + n
    BY <2>1, <1>3, <1>4, <1>6, ConcatProperties
  <2>3. \A j \in 1 .. q + n : playout'[j] = IF j <= q THEN playout[j] ELSE new[j - q]
    BY <2>1, <1>3, <1>4, <1>6, ConcatProperties
  <2>4. ASSUME NEW j \in q + 1 .. q + n PROVE playout'[j] = media + (j - q)
    <3>1. j \in 1 .. q + n /\ ~(j <= q) /\ j - q \in 1 .. n
      BY <1>3, <1>5
    <3> QED
      BY <3>1, <2>3, <1>6
  <2>5. ASSUME NEW j \in 1 .. q PROVE playout'[j] = playout[j]
    <3>1. j \in 1 .. q + n /\ j <= q
      BY <1>3, <1>5
    <3> QED
      BY <2>3, <3>1, Zenon
  <2> QED
    BY <2>2, <2>4, <2>5
<1>8. media' = m /\ m = media + n
  BY <1>1, <1>4
<1>9. DownTypeOK'
  BY <1>2, <1>5, <1>7, <1>8 DEF DownTypeOK
<1>10. \A j \in 1 .. q : playout[j] \in 1 .. media
  BY <1>4 DEF Numbered
<1>11. \A j \in 1 .. p : played[j] \in 1 .. media
  BY <1>4 DEF Numbered
<1>12. ASSUME NEW j \in 1 .. q + n PROVE playout'[j] \in 1 .. m
  <2>1. CASE j \in 1 .. q
    <3>1. PICK x \in 1 .. media : x = playout[j]
      BY <2>1, <1>10
    <3>2. x \in 1 .. m
      BY <1>3, <1>5
    <3> QED
      BY <3>1, <3>2, <2>1, <1>7
  <2>2. CASE j \in q + 1 .. q + n
    BY <2>2, <1>3, <1>5, <1>7, <1>8
  <2> QED
    BY <2>1, <2>2, <1>3, <1>5
<1>13. Numbered'
  BY <1>2, <1>3, <1>4, <1>5, <1>7, <1>8, <1>11, <1>12 DEF Numbered
<1>14. ASSUME NEW j \in 1 .. q + n, NEW k \in 1 .. q + n, j < k
       PROVE  playout'[j] < playout'[k]
  <2>1. CASE k \in 1 .. q
    <3>1. j \in 1 .. q
      BY <2>1, <1>5, <1>14
    <3> QED
      BY <2>1, <3>1, <1>4, <1>7, <1>14 DEF PlayedInOrder
  <2>2. CASE j \in 1 .. q /\ k \in q + 1 .. q + n
    <3>1. PICK x \in 1 .. media : x = playout[j]
      BY <2>2, <1>10
    <3>2. x < media + (k - q)
      BY <2>2, <1>3, <1>5
    <3> QED
      BY <3>1, <3>2, <2>2, <1>7
  <2>3. CASE j \in q + 1 .. q + n /\ k \in q + 1 .. q + n
    BY <2>3, <1>3, <1>5, <1>7, <1>14
  <2> QED
    BY <2>1, <2>2, <2>3, <1>3, <1>5, <1>14
<1>15. ASSUME NEW j \in 1 .. p, NEW k \in 1 .. q + n
       PROVE  played[j] < playout'[k]
  <2>1. CASE k \in 1 .. q
    BY <2>1, <1>4, <1>7 DEF PlayedInOrder
  <2>2. CASE k \in q + 1 .. q + n
    <3>1. PICK x \in 1 .. media : x = played[j]
      BY <1>11
    <3>2. x < media + (k - q)
      BY <2>2, <1>3, <1>5
    <3> QED
      BY <3>1, <3>2, <2>2, <1>7
  <2> QED
    BY <2>1, <2>2, <1>3, <1>5
<1>16. PlayedInOrder'
  BY <1>2, <1>4, <1>7, <1>14, <1>15 DEF PlayedInOrder
<1>17. NotStarted' /\ NoGapsNoLeaks' /\ DownlinkAtCallRate'
  BY <1>2 DEF NotStarted, NoGapsNoLeaks, DownlinkAtCallRate, Range
<1>18. PICK before, after : before = Range(playout) /\ after = Range(playout')
  OBVIOUS
<1>19. after = before \cup (media + 1 .. m)
  <2>1. /\ before = {playout[j] : j \in 1 .. q}
        /\ after = {playout'[j] : j \in 1 .. q + n}
    <3>1. DOMAIN playout = 1 .. q
      BY <1>3, <1>4
    <3>2. DOMAIN playout' = 1 .. q + n
      BY <1>3, <1>4, <1>7
    <3> QED
      BY <1>18, <3>1, <3>2, Zenon DEF Range
  <2>2. ASSUME NEW v \in after PROVE v \in before \cup (media + 1 .. m)
    <3>1. PICK j \in 1 .. q + n : v = playout'[j]
      BY <2>1
    <3>2. CASE j \in 1 .. q
      BY <1>7, <2>1, <3>1, <3>2
    <3>3. CASE j \in q + 1 .. q + n
      <4>1. media + (j - q) \in media + 1 .. m
        BY <1>3, <1>4, <1>5, <3>3
      <4> QED
        BY <1>7, <3>1, <3>3, <4>1
    <3> QED
      BY <1>3, <1>5, <3>1, <3>2, <3>3
  <2>3. ASSUME NEW v \in before PROVE v \in after
    <3>1. PICK j \in 1 .. q : v = playout[j]
      BY <2>1
    <3>2. j \in 1 .. q + n
      BY <1>3, <1>5
    <3> QED
      BY <1>7, <2>1, <3>1, <3>2
  <2>4. ASSUME NEW v \in media + 1 .. m PROVE v \in after
    <3>1. PICK j \in q + 1 .. q + n : media + (j - q) = v
      <4>1. /\ q + (v - media) \in q + 1 .. q + n
            /\ media + ((q + (v - media)) - q) = v
        BY <1>3, <1>4, <1>5
      <4> QED
        BY <4>1
    <3>2. j \in 1 .. q + n
      BY <1>3, <1>5
    <3> QED
      BY <1>7, <2>1, <3>1, <3>2
  <2> QED
    BY <2>2, <2>3, <2>4
<1>20. 1 .. m = (1 .. media) \cup (media + 1 .. m)
  BY <1>3, <1>5
<1>21. OnlyClearsLose'
  <2>1. Range(played') = Range(played) /\ cleared' = cleared
    BY <1>2 DEF Range
  <2> QED
    BY <1>8, <1>18, <1>19, <1>20, <2>1 DEF OnlyClearsLose
<1> QED
  BY <1>9, <1>13, <1>16, <1>17, <1>21

LEMMA PeerClearKeeps ==
  ASSUME AudioInv, PeerClear
  PROVE  AudioInv'
<1> USE DEF AudioInv
<1>1. /\ playout' = <<>> /\ cleared' = cleared \cup Range(playout)
      /\ UNCHANGED <<rate, inject_mode, media, elapsed, played, last>>
  BY DEF PeerClear, flagVars
<1>2. Len(playout') = 0 /\ playout' \in Seq(Nat)
  BY <1>1
<1>3. DownTypeOK'
  BY <1>1, <1>2 DEF DownTypeOK
<1>4. Numbered'
  BY <1>1, <1>2 DEF DownTypeOK, Numbered
<1>5. PlayedInOrder'
  BY <1>1, <1>2 DEF DownTypeOK, PlayedInOrder
<1>6. NotStarted' /\ NoGapsNoLeaks' /\ DownlinkAtCallRate'
  BY <1>1 DEF NotStarted, NoGapsNoLeaks, DownlinkAtCallRate, Range
<1>7. OnlyClearsLose'
  <2>1. Range(played') = Range(played) /\ Range(playout') = {}
    BY <1>1 DEF Range
  <2> QED
    BY <1>1, <2>1 DEF OnlyClearsLose
<1> QED
  BY <1>3, <1>4, <1>5, <1>6, <1>7

\* A callback moves the first k waiting samples, for some k, to the played ones.
LEMMA Moves ==
  ASSUME AudioInv, NEW k \in 0 .. Len(playout),
         playout' = SubSeq(playout, k + 1, Len(playout)),
         played' = played \o SubSeq(playout, 1, k), media' = media, cleared' = cleared
  PROVE  /\ playout' \in Seq(Nat) /\ played' \in Seq(Nat)
         /\ Len(played') = Len(played) + k
         /\ Numbered' /\ PlayedInOrder' /\ OnlyClearsLose'
<1> USE DEF AudioInv
<1>1. playout \in Seq(Nat) /\ played \in Seq(Nat) /\ media \in Nat
  BY DEF DownTypeOK
<1>2. PICK p, q : p = Len(played) /\ q = Len(playout)
  OBVIOUS
<1>3. p \in Nat /\ q \in Nat /\ k \in Nat /\ k <= q
  BY <1>1, <1>2
<1> DEFINE s == SubSeq(playout, 1, k)
<1>4. s \in Seq(Nat) /\ Len(s) = k /\ \A j \in 1 .. k : s[j] = playout[j]
  BY <1>1, <1>2, <1>3
<1>5. /\ playout' \in Seq(Nat) /\ Len(playout') = q - k
      /\ \A j \in 1 .. q - k : playout'[j] = playout[k + j]
  <2> DEFINE rest == SubSeq(playout, k + 1, q)
  <2>1. rest \in Seq(Nat) /\ Len(rest) = q - k
    BY <1>1, <1>2, <1>3
  <2>2. ASSUME NEW j \in 1 .. q - k PROVE rest[j] = playout[k + j]
    <3>1. j \in 1 .. (q - (k + 1) + 1) /\ k + 1 + j - 1 = k + j
      BY <1>3
    <3>2. rest[j] = playout[k + 1 + j - 1]
      BY <1>1, <1>2, <1>3, <3>1
    <3> QED
      BY <3>1, <3>2
  <2> QED
    BY <2>1, <2>2, <1>2
<1> HIDE DEF s
<1>6. played' \in Seq(Nat) /\ Len(played') = p + k
  BY <1>1, <1>2, <1>4, ConcatProperties DEF s
<1>7. \A j \in 1 .. p + k : played'[j] = IF j <= p THEN played[j] ELSE s[j - p]
  BY <1>1, <1>2, <1>4, ConcatProperties DEF s
<1>8. ASSUME NEW j \in 1 .. p + k
      PROVE  \/ j \in 1 .. p /\ played'[j] = played[j]
             \/ j - p \in 1 .. k /\ j - p \in 1 .. q /\ played'[j] = playout[j - p]
  <2>1. CASE j <= p
    <3>1. j \in 1 .. p
      BY <2>1, <1>3
    <3> QED
      BY <2>1, <3>1, <1>7
  <2>2. CASE ~(j <= p)
    <3>1. j - p \in 1 .. k /\ j - p \in 1 .. q
      BY <2>2, <1>3
    <3> QED
      BY <2>2, <3>1, <1>4, <1>7
  <2> QED
    BY <2>1, <2>2
<1>9. ASSUME NEW j \in 1 .. q - k
      PROVE  k + j \in 1 .. q /\ playout'[j] = playout[k + j]
  <2>1. k + j \in 1 .. q
    BY <1>3
  <2> QED
    BY <1>5, <2>1, Zenon
<1>10. Numbered'
  <2>1. \A j \in 1 .. p + k : played'[j] \in 1 .. media
    BY <1>2, <1>8 DEF Numbered
  <2>2. \A j \in 1 .. q - k : playout'[j] \in 1 .. media
    BY <1>2, <1>9 DEF Numbered
  <2> QED
    BY <2>1, <2>2, <1>5, <1>6 DEF Numbered
<1>11. /\ \A i, j \in 1 .. p : i < j => played[i] < played[j]
       /\ \A i, j \in 1 .. q : i < j => playout[i] < playout[j]
       /\ \A i \in 1 .. p, j \in 1 .. q : played[i] < playout[j]
  BY <1>2 DEF PlayedInOrder
<1>12. ASSUME NEW i \in 1 .. p + k, NEW j \in 1 .. p + k, i < j
       PROVE  played'[i] < played'[j]
  <2>1. CASE j \in 1 .. p /\ played'[j] = played[j]
    <3>0. i \in 1 .. p /\ i <= p
      BY <2>1, <1>3, <1>12
    <3>1. i \in 1 .. p /\ played'[i] = played[i]
      BY <3>0, <1>7
    <3> QED
      BY <2>1, <3>1, <1>11, <1>12
  <2>2. CASE j - p \in 1 .. q /\ played'[j] = playout[j - p]
    <3>1. CASE i \in 1 .. p /\ played'[i] = played[i]
      BY <2>2, <3>1, <1>11
    <3>2. CASE i - p \in 1 .. q /\ played'[i] = playout[i - p]
      <4>1. i - p < j - p
        BY <1>3, <1>12
      <4> QED
        BY <2>2, <3>2, <4>1, <1>11
    <3> QED
      BY <3>1, <3>2, <1>8
  <2> QED
    BY <2>1, <2>2, <1>8
<1>13. ASSUME NEW i \in 1 .. q - k, NEW j \in 1 .. q - k, i < j
       PROVE  playout'[i] < playout'[j]
  <2>1. k + i < k + j
    BY <1>3, <1>13
  <2> QED
    BY <2>1, <1>9, <1>11, <1>13
<1>14. ASSUME NEW i \in 1 .. p + k, NEW j \in 1 .. q - k
       PROVE  played'[i] < playout'[j]
  <2>1. k + j \in 1 .. q /\ playout'[j] = playout[k + j]
    BY <1>9, <1>14
  <2>2. CASE i \in 1 .. p /\ played'[i] = played[i]
    BY <2>1, <2>2, <1>11
  <2>3. CASE i - p \in 1 .. k /\ i - p \in 1 .. q /\ played'[i] = playout[i - p]
    <3>1. i - p < k + j
      BY <2>3, <1>3
    <3> QED
      BY <2>1, <2>3, <3>1, <1>11
  <2> QED
    BY <2>2, <2>3, <1>8, <1>14
<1>15. PlayedInOrder'
  BY <1>5, <1>6, <1>12, <1>13, <1>14 DEF PlayedInOrder
<1>16. PICK a, b, c, d : /\ a = Range(played) /\ b = Range(playout)
                         /\ c = Range(played') /\ d = Range(playout')
  OBVIOUS
<1>17. /\ a = {played[j] : j \in 1 .. p} /\ b = {playout[j] : j \in 1 .. q}
       /\ c = {played'[j] : j \in 1 .. p + k} /\ d = {playout'[j] : j \in 1 .. q - k}
  <2>1. DOMAIN played = 1 .. p /\ DOMAIN playout = 1 .. q
    BY <1>1, <1>2
  <2>2. DOMAIN played' = 1 .. p + k
    BY <1>6
  <2>3. DOMAIN playout' = 1 .. q - k
    BY <1>5
  <2> QED
    BY <1>16, <2>1, <2>2, <2>3, Zenon DEF Range
<1>18. c \cup d \subseteq a \cup b
  <2>1. ASSUME NEW v \in c PROVE v \in a \cup b
    <3>1. PICK j \in 1 .. p + k : v = played'[j]
      BY <1>17
    <3> QED
      BY <1>8, <1>17, <3>1
  <2>2. ASSUME NEW v \in d PROVE v \in b
    <3>1. PICK j \in 1 .. q - k : v = playout'[j]
      BY <1>17
    <3> QED
      BY <1>9, <1>17, <3>1
  <2> QED
    BY <2>1, <2>2
<1>19. a \subseteq c
  <2>1. ASSUME NEW v \in a PROVE v \in c
    <3>1. PICK j \in 1 .. p : v = played[j]
      BY <1>17
    <3>2. j \in 1 .. p + k /\ j <= p
      BY <1>3
    <3> QED
      BY <1>7, <1>17, <3>1, <3>2
  <2> QED
    BY <2>1
<1>20. b \subseteq c \cup d
  <2>1. ASSUME NEW v \in b PROVE v \in c \cup d
    <3>1. PICK j \in 1 .. q : v = playout[j]
      BY <1>17
    <3>2. CASE j <= k
      <4>1. PICK i \in 1 .. p + k : i = p + j /\ ~(i <= p) /\ i - p = j /\ j \in 1 .. k
        <5>1. p + j \in 1 .. p + k /\ ~(p + j <= p) /\ (p + j) - p = j /\ j \in 1 .. k
          BY <1>3, <3>2
        <5> QED
          BY <5>1
      <4>2. played'[i] = s[i - p]
        BY <1>7, <4>1
      <4>3. s[i - p] = v
        BY <1>4, <3>1, <4>1
      <4> QED
        BY <1>17, <4>2, <4>3
    <3>3. CASE ~(j <= k)
      <4>1. PICK i \in 1 .. q - k : k + i = j
        <5>1. j - k \in 1 .. q - k /\ k + (j - k) = j
          BY <1>3, <3>3
        <5> QED
          BY <5>1
      <4>2. playout'[i] = v
        BY <1>9, <3>1, <4>1
      <4> QED
        BY <1>17, <4>2
    <3> QED
      BY <3>2, <3>3
  <2> QED
    BY <2>1
<1>21. OnlyClearsLose'
  <2>1. a \cup b = c \cup d
    BY <1>18, <1>19, <1>20
  <2> QED
    BY <1>16, <2>1 DEF OnlyClearsLose
<1> QED
  BY <1>2, <1>5, <1>6, <1>10, <1>15, <1>21

\* What a frame of n samples becomes when s, of voices of the peer, is put into it.
LEMMA FrameWritten ==
  ASSUME DownTypeOK, NEW n \in Nat \ {0}, NEW s \in Seq(Nat), Len(s) <= n,
         \A j \in 1 .. Len(s) : s[j] > 0
  PROVE  /\ Written(n, s) \in [1 .. n -> SUBSET Nat]
         /\ inject_mode = "replace" =>
              (Caller \in Range(Written(n, s)) => Range(Written(n, s)) = {Caller})
         /\ Len(s) = n => Range(Written(n, s)) \cap {Caller, Silence} = {}
<1> DEFINE under == IF inject_mode = "mix" \/ s = <<>> THEN Caller ELSE Silence
           w == Written(n, s)
<1>1. Len(s) \in Nat /\ DOMAIN s = 1 .. Len(s)
  OBVIOUS
<1>2. /\ w = [k \in 1 .. n |-> IF k <= Len(s) THEN under \cup {s[k]} ELSE under]
      /\ DOMAIN w = 1 .. n
  BY DEF Written
<1>3. under \in SUBSET Nat /\ (under = Caller \/ under = Silence)
  BY DEF Caller, Silence
<1>4. ASSUME NEW k \in 1 .. n, k <= Len(s)
      PROVE  s[k] \in Nat /\ s[k] # 0
  <2>1. k \in 1 .. Len(s)
    BY <1>1, <1>4
  <2> QED
    BY <2>1, <1>1
<1>5. \A k \in 1 .. n : w[k] = IF k <= Len(s) THEN under \cup {s[k]} ELSE under
  BY <1>2
<1>6. w \in [1 .. n -> SUBSET Nat]
  <2>1. \A k \in 1 .. n : w[k] \in SUBSET Nat
    BY <1>3, <1>4, <1>5
  <2> QED
    BY <2>1, <1>2
<1>7. ASSUME inject_mode = "replace"
      PROVE  Caller \in Range(w) => Range(w) = {Caller}
  <2>1. CASE s = <<>>
    <3>0. Len(s) = 0 /\ under = Caller
      BY <2>1
    <3>1. \A k \in 1 .. n : w[k] = Caller
      <4>1. \A k \in 1 .. n : ~(k <= Len(s))
        BY <3>0
      <4> QED
        BY <4>1, <3>0, <1>5
    <3> QED
      BY <3>1, <1>2 DEF Range
  <2>2. CASE s # <<>>
    <3>1. under = {}
      BY <1>7, <2>2 DEF Silence
    <3>2. ASSUME NEW k \in 1 .. n PROVE w[k] # {0}
      BY <3>1, <1>4, <1>5
    <3> QED
      BY <3>2, <1>2 DEF Range, Caller
  <2> QED
    BY <2>1, <2>2
<1>8. ASSUME Len(s) = n
      PROVE  Range(w) \cap {Caller, Silence} = {}
  <2>1. ASSUME NEW k \in 1 .. n PROVE s[k] \in w[k] /\ s[k] # 0
    BY <1>4, <1>5, <1>8
  <2>2. \A k \in 1 .. n : w[k] # {0} /\ w[k] # {}
    BY <2>1
  <2> QED
    BY <2>2, <1>2 DEF Range, Caller, Silence
<1> QED
  BY <1>6, <1>7, <1>8

LEMMA ApplyKeeps ==
  ASSUME AudioInv, ApplyWriteFrame
  PROVE  AudioInv'
<1> USE DEF AudioInv
<1>1. PICK n \in WriteLens :
        LET k == Min({Wanted(n), Len(playout)})
            s == SubSeq(playout, 1, k)
        IN /\ elapsed' = elapsed + n
           /\ playout' = SubSeq(playout, k + 1, Len(playout))
           /\ played' = played \o s
           /\ last' = [out |-> Written(n, s), dry |-> k = Len(playout), skipped |-> FALSE]
  BY DEF ApplyWriteFrame
<1>3. PICK k : k = Min({Wanted(n), Len(playout)})
  OBVIOUS
<1>4. /\ elapsed' = elapsed + n
      /\ playout' = SubSeq(playout, k + 1, Len(playout))
      /\ played' = played \o SubSeq(playout, 1, k)
      /\ last'.out = Written(n, SubSeq(playout, 1, k))
      /\ last'.dry = (k = Len(playout)) /\ last'.skipped = FALSE
  BY <1>1, <1>3
<1>5. UNCHANGED <<rate, inject_mode, media, cleared>> /\ rate # 0
  BY DEF ApplyWriteFrame, flagVars
<1>6. n \in Nat \ {0}
  BY AudioConstants
<1>7. /\ playout \in Seq(Nat) /\ played \in Seq(Nat) /\ elapsed \in Nat /\ media \in Nat
      /\ Len(playout) \in Nat /\ Len(played) \in Nat
  BY DEF DownTypeOK
<1>8. AgentCap \in Nat /\ Wanted(n) \in Nat /\ Wanted(n) <= n
      /\ (Wanted(n) = n \/ n > AgentCap)
  BY <1>6, AudioConstants, LesserOf DEF Wanted
<1>9. k \in 0 .. Len(playout) /\ k <= n /\ (k = Len(playout) \/ k = n \/ n > AgentCap)
  <2>1. /\ k \in Nat /\ k <= Wanted(n) /\ k <= Len(playout)
        /\ k = Wanted(n) \/ k = Len(playout)
    BY <1>3, <1>7, <1>8, LesserOf
  <2> QED
    BY <1>6, <1>7, <1>8, <2>1
<1>10. /\ playout' \in Seq(Nat) /\ played' \in Seq(Nat)
       /\ Len(played') = Len(played) + k
       /\ Numbered' /\ PlayedInOrder' /\ OnlyClearsLose'
  BY <1>4, <1>5, <1>9, Moves
<1> DEFINE s == SubSeq(playout, 1, k)
<1>11. s \in Seq(Nat) /\ Len(s) = k /\ \A j \in 1 .. Len(s) : s[j] > 0
  <2>1. s \in Seq(Nat) /\ Len(s) = k /\ \A j \in 1 .. k : s[j] = playout[j]
    BY <1>7, <1>9
  <2>2. \A j \in 1 .. k : playout[j] \in 1 .. media
    BY <1>7, <1>9 DEF Numbered
  <2> HIDE DEF s
  <2>3. ASSUME NEW j \in 1 .. k PROVE s[j] > 0
    <3>1. PICK x \in 1 .. media : x = s[j]
      BY <2>1, <2>2
    <3> QED
      BY <3>1, <1>7
  <2> QED
    BY <2>1, <2>3
<1>12. last'.out = Written(n, s)
  BY <1>4
<1> HIDE DEF s
<1>13. /\ Written(n, s) \in [1 .. n -> SUBSET Nat]
       /\ inject_mode = "replace" =>
            (Caller \in Range(Written(n, s)) => Range(Written(n, s)) = {Caller})
       /\ Len(s) = n => Range(Written(n, s)) \cap {Caller, Silence} = {}
  BY <1>6, <1>9, <1>11, FrameWritten
<1>14. PICK e : e = elapsed + n
  OBVIOUS
<1>15. e \in Nat /\ elapsed' = e
  BY <1>4, <1>6, <1>7, <1>14
<1>16. DownTypeOK'
  <2>1. last'.out \in [1 .. n -> SUBSET Nat] /\ n \in Nat
    BY <1>6, <1>12, <1>13
  <2>2. last'.dry \in BOOLEAN /\ last'.skipped \in BOOLEAN
    BY <1>4
  <2>3. \E a \in Nat : last'.out \in [1 .. a -> SUBSET Nat]
    BY <2>1
  <2> QED
    BY <2>2, <2>3, <1>5, <1>10, <1>15 DEF DownTypeOK
<1>17. NotStarted'
  BY <1>5 DEF NotStarted
<1>18. NoGapsNoLeaks'
  <2>1. Len(last'.out) = n
    BY <1>6, <1>12, <1>13
  <2>2. Range(last'.out) \cap {Caller, Silence} # {} => last'.dry \/ n > AgentCap
    BY <1>4, <1>9, <1>11, <1>12, <1>13
  <2>3. inject_mode' = "replace" =>
          (Caller \in Range(last'.out) => Range(last'.out) = {Caller})
    BY <1>5, <1>12, <1>13
  <2> QED
    BY <2>1, <2>2, <2>3 DEF NoGapsNoLeaks, Caller, Silence, Range
<1>19. DownlinkAtCallRate'
  <2>1. rate = 1 => Len(played) <= elapsed
    BY DEF DownlinkAtCallRate
  <2>2. rate = 1 => Len(played) + k <= e
    BY <2>1, <1>6, <1>7, <1>9, <1>14
  <2> QED
    BY <2>2, <1>5, <1>10, <1>15 DEF DownlinkAtCallRate
<1> QED
  BY <1>10, <1>16, <1>17, <1>18, <1>19

\* A frame that is skipped is the caller's.
LEMMA WriteSkippedKeeps ==
  ASSUME AudioInv, WriteSkipped
  PROVE  AudioInv'
<1> USE DEF AudioInv
<1>1. PICK n \in WriteLens :
        /\ elapsed' = elapsed + n
        /\ last' = [out |-> Written(n, <<>>), dry |-> playout = <<>>, skipped |-> TRUE]
  BY DEF WriteSkipped
<1>2. UNCHANGED <<rate, inject_mode, media, playout, cleared, played>> /\ rate # 0
  BY DEF WriteSkipped, flagVars
<1>3. n \in Nat \ {0}
  BY AudioConstants
<1>4. elapsed \in Nat
  BY DEF DownTypeOK
<1>5. PICK e \in Nat : e = elapsed + n /\ elapsed <= e
  BY <1>3, <1>4
<1>6. <<>> \in Seq(Nat) /\ Len(<<>>) <= n /\ \A j \in 1 .. Len(<<>>) : <<>>[j] > 0
  BY <1>3
<1>7. PICK w : w = Written(n, <<>>)
  OBVIOUS
<1>8. /\ w \in [1 .. n -> SUBSET Nat]
      /\ inject_mode = "replace" => (Caller \in Range(w) => Range(w) = {Caller})
  BY <1>3, <1>6, <1>7, FrameWritten
<1>9. last'.out = w /\ last'.dry \in BOOLEAN /\ last'.skipped = TRUE
  BY <1>1, <1>7
<1>10. DownTypeOK'
  <2>1. last'.out \in [1 .. n -> SUBSET Nat] /\ n \in Nat
    BY <1>3, <1>8, <1>9
  <2>2. \E a \in Nat : last'.out \in [1 .. a -> SUBSET Nat]
    BY <2>1
  <2> QED
    BY <1>1, <1>2, <1>5, <1>9, <2>2 DEF DownTypeOK
<1>11. NotStarted'
  BY <1>2 DEF NotStarted
<1>12. NoGapsNoLeaks'
  BY <1>2, <1>8, <1>9 DEF NoGapsNoLeaks, Caller, Silence, Range
<1>13. elapsed' \in Nat /\ elapsed <= elapsed'
  BY <1>1, <1>5
<1> QED
  BY <1>2, <1>10, <1>11, <1>12, <1>13, DownKeeps

LEMMA AudioStep ==
  ASSUME AudioInv, [Next]_vars
  PROVE  AudioInv'
<1>1. CASE Starts
  BY <1>1, StartsKeeps
<1>2. CASE ApplyWriteFrame
  BY <1>2, ApplyKeeps
<1>3. CASE PeerMedia
  BY <1>3, PeerMediaKeeps
<1>4. CASE PeerClear
  BY <1>4, PeerClearKeeps
<1>5. CASE WriteSkipped
  BY <1>5, WriteSkippedKeeps
<1>6. CASE OnRead \/ OnReadSkipped \/ Pause \/ Stop \/ UNCHANGED vars
  <2>1. UNCHANGED <<rate, inject_mode, downVars>>
    BY <1>6 DEF OnRead, OnReadSkipped, Pause, Stop, vars, flagVars
  <2>2. elapsed \in Nat
    BY DEF AudioInv, DownTypeOK
  <2>3. DownTypeOK' /\ NotStarted' /\ NoGapsNoLeaks'
    BY <2>1 DEF AudioInv, downVars, DownTypeOK, NotStarted, NoGapsNoLeaks, Range
  <2> QED
    BY <2>1, <2>2, <2>3, DownKeeps DEF downVars
<1> QED
  BY <1>1, <1>2, <1>3, <1>4, <1>5, <1>6 DEF Next

THEOREM AudioInvariant == Spec => []AudioInv
  BY AudioStarts, AudioStep, PTL DEF Spec

\* rtw_bridge_apply_write_frame: for frames, messages and buffers of any length, at
\* every rate and whichever callbacks find the lock taken: the peer is heard in order,
\* at most once and whole but for what it clears; at the wire's rate no faster than it
\* speaks.  A frame is the caller's, silent or partly so only if the playout has run
\* dry, the frame is longer than the buffer, or its callback was skipped; in replace
\* mode it is never the caller's and the peer's at once.
THEOREM AudioPeerIsHeard == Spec => []PeerIsHeard
<1>1. AudioInv => PeerIsHeard
  BY WholeInOrder DEF AudioInv, PeerIsHeard
<1> QED
  BY <1>1, AudioInvariant, PTL

-----------------------------------------------------------------------------
(* rtw_bridge_on_read_pcm16: the samples held and the frames pushed *)

LEMMA LeastNumber ==
  ASSUME NEW S, S \subseteq Nat, S # {}
  PROVE  \E m \in S : \A x \in S : m <= x
<1>1. PICK m \in S : \A x \in S : ~(<<x, m>> \in OpToRel(<, Nat))
  BY NatLessThanWellFounded, WFMin
<1>2. ASSUME NEW x \in S PROVE m <= x
  <2>1. ~(x < m)
    BY <1>1 DEF OpToRel
  <2> QED
    BY <2>1
<1> QED
  BY <1>2

\* Whole frames, and less than a frame that waits.
Shape(r) ==
  /\ r.hold \in Seq(SUBSET Nat) /\ Len(r.hold) < FrameLen
  /\ r.pushed \in Seq(Seq(SUBSET Nat))
  /\ \A f \in 1 .. Len(r.pushed) : Len(r.pushed[f]) = FrameLen

\* The frames and what waits are the first c samples of y.
Cut(r, y, c) ==
  /\ c = Len(r.pushed) * FrameLen + Len(r.hold)
  /\ \A f \in 1 .. Len(r.pushed), k \in 1 .. FrameLen :
       r.pushed[f][k] = y[(f - 1) * FrameLen + k]
  /\ \A k \in 1 .. Len(r.hold) : r.hold[k] = y[Len(r.pushed) * FrameLen + k]

\* One sample more: pcm_hold has room for it, and is pushed as soon as it is full.
LEMMA HoldKeeps ==
  ASSUME NEW r, Shape(r), NEW x \in SUBSET Nat
  PROVE  /\ Shape(Hold(r, x))
         /\ \A y, c : Cut(r, y, c) /\ y[c + 1] = x => Cut(Hold(r, x), y, c + 1)
<1>1. PICK L \in Nat \ {0} : L = FrameLen /\ L <= HoldCap /\ HoldCap \in Nat
  BY AudioConstants
<1>2. PICK a \in Seq(SUBSET Nat) : a = r.hold /\ Len(a) < L
  BY <1>1 DEF Shape
<1>3. PICK n \in Nat : n = Len(a) /\ n < L
  BY <1>2
<1>4. PICK p \in Seq(Seq(SUBSET Nat)) :
        p = r.pushed /\ \A f \in 1 .. Len(p) : Len(p[f]) = L
  BY <1>1 DEF Shape
<1>5. PICK m \in Nat : m = Len(p)
  OBVIOUS
<1>6. PICK h : h = Append(a, x)
  OBVIOUS
<1>7. /\ h \in Seq(SUBSET Nat) /\ Len(h) = n + 1 /\ h[n + 1] = x
      /\ \A k \in 1 .. n : h[k] = a[k]
  BY <1>3, <1>6
<1>8. Len(r.hold) < HoldCap
  BY <1>1, <1>2, <1>3
<1>9. PICK b \in Nat : b = m * L
  OBVIOUS
<1>10. CASE n + 1 < L
  <2>1. Hold(r, x) = [hold |-> h, pushed |-> p]
    BY <1>1, <1>2, <1>4, <1>6, <1>7, <1>8, <1>10 DEF Hold
  <2>2. PICK q : q = Hold(r, x)
    OBVIOUS
  <2>3. q.hold = h /\ q.pushed = p
    BY <2>1, <2>2
  <2>4. Shape(q)
    BY <1>1, <1>4, <1>7, <1>10, <2>3 DEF Shape
  <2>5. ASSUME NEW y, NEW c, Cut(r, y, c), y[c + 1] = x
        PROVE  Cut(q, y, c + 1)
    <3>1. c = b + n /\ \A k \in 1 .. n : a[k] = y[b + k]
      BY <1>1, <1>2, <1>3, <1>4, <1>5, <1>9, <2>5 DEF Cut
    <3>2. c + 1 = b + (n + 1)
      BY <3>1
    <3>3. ASSUME NEW k \in 1 .. n + 1 PROVE h[k] = y[b + k]
      <4>1. CASE k \in 1 .. n
        BY <1>7, <3>1, <4>1
      <4>2. CASE k = n + 1
        BY <1>7, <2>5, <3>2, <4>2
      <4> QED
        BY <4>1, <4>2
    <3>4. \A f \in 1 .. m, k \in 1 .. L : p[f][k] = y[(f - 1) * L + k]
      BY <1>1, <1>4, <1>5, <2>5 DEF Cut
    <3> QED
      BY <1>1, <1>5, <1>7, <1>9, <2>3, <3>2, <3>3, <3>4 DEF Cut
  <2> QED
    BY <2>2, <2>4, <2>5
<1>11. CASE n + 1 = L
  <2>1. SubSeq(h, 1, FrameLen) = h
    BY <1>1, <1>7, <1>11
  <2>2. Hold(r, x) = [hold |-> <<>>, pushed |-> Append(p, h)]
    <3>1. Len(h) >= FrameLen
      BY <1>1, <1>7, <1>11
    <3>2. Append(r.hold, x) = h /\ r.pushed = p
      BY <1>2, <1>4, <1>6
    <3> QED
      BY <1>8, <2>1, <3>1, <3>2, Zenon DEF Hold
  <2>3. PICK g : g = Append(p, h)
    OBVIOUS
  <2>4. /\ g \in Seq(Seq(SUBSET Nat)) /\ Len(g) = m + 1 /\ g[m + 1] = h
        /\ \A f \in 1 .. m : g[f] = p[f]
    BY <1>5, <1>7, <2>3
  <2>5. PICK q : q = Hold(r, x)
    OBVIOUS
  <2>6. q.hold = <<>> /\ q.pushed = g
    BY <2>2, <2>3, <2>5
  <2>7. ASSUME NEW f \in 1 .. m + 1 PROVE Len(g[f]) = L
    <3>1. CASE f \in 1 .. m
      BY <1>4, <1>5, <2>4, <3>1
    <3>2. CASE f = m + 1
      BY <1>7, <1>11, <2>4, <3>2
    <3> QED
      BY <3>1, <3>2
  <2>8. Shape(q)
    <3>1. <<>> \in Seq(SUBSET Nat) /\ Len(<<>>) < L
      BY <1>1
    <3> QED
      BY <1>1, <2>4, <2>6, <2>7, <3>1 DEF Shape
  <2>9. ASSUME NEW y, NEW c, Cut(r, y, c), y[c + 1] = x
        PROVE  Cut(q, y, c + 1)
    <3>1. c = b + n /\ \A k \in 1 .. n : a[k] = y[b + k]
      BY <1>1, <1>2, <1>3, <1>4, <1>5, <1>9, <2>9 DEF Cut
    <3>2. c + 1 = b + L /\ (m + 1) * L = b + L /\ (m + 1 - 1) * L = b
      BY <1>9, <1>11, <3>1
    <3>3. ASSUME NEW k \in 1 .. L PROVE h[k] = y[b + k]
      <4>1. CASE k \in 1 .. n
        BY <1>7, <3>1, <4>1
      <4>2. CASE k = n + 1
        BY <1>7, <1>11, <2>9, <3>2, <4>2
      <4> QED
        BY <1>11, <4>1, <4>2
    <3>4. \A f \in 1 .. m, k \in 1 .. L : p[f][k] = y[(f - 1) * L + k]
      BY <1>1, <1>4, <1>5, <2>9 DEF Cut
    <3>5. ASSUME NEW f \in 1 .. m + 1, NEW k \in 1 .. L
          PROVE  g[f][k] = y[(f - 1) * L + k]
      <4>1. CASE f \in 1 .. m
        BY <2>4, <3>4, <4>1
      <4>2. CASE f = m + 1
        <5>1. (f - 1) * L + k = b + k
          BY <3>2, <4>2
        <5>2. g[f] = h
          BY <2>4, <4>2
        <5> QED
          BY <3>3, <5>1, <5>2, Zenon
      <4> QED
        BY <4>1, <4>2
    <3>6. Len(<<>>) = 0 /\ (m + 1) * L + 0 = c + 1
      BY <3>2
    <3>7. Len(q.pushed) = m + 1 /\ Len(q.hold) = 0
      BY <2>4, <2>6, <3>6
    <3>8. c + 1 = Len(q.pushed) * FrameLen + Len(q.hold)
      BY <1>1, <3>6, <3>7
    <3>9. \A f \in 1 .. Len(q.pushed), k \in 1 .. FrameLen :
            q.pushed[f][k] = y[(f - 1) * FrameLen + k]
      BY <1>1, <2>6, <3>5, <3>7
    <3>10. \A k \in 1 .. Len(q.hold) : FALSE
      BY <3>7
    <3> QED
      BY <3>8, <3>9, <3>10, Zenon DEF Cut
  <2> QED
    BY <2>5, <2>8, <2>9
<1> QED
  BY <1>3, <1>10, <1>11

-----------------------------------------------------------------------------
(* The loop over the samples of a callback *)

Held == [hold |-> pcm_hold, pushed |-> frames]

\* The states of the loop over the first n samples of s.
LoopOf(s, n, g) == [k \in 0 .. n |-> IF k = 0 THEN Held ELSE Hold(g[k - 1], s[k])]

LEMMA LoopIsChosen ==
  ASSUME NEW s
  PROVE  HoldAll(s) = (CHOOSE g : g = LoopOf(s, Len(s), g))[Len(s)]
  BY DEF HoldAll, LoopOf, Held

\* The loop gets through any number of samples.
LEMMA LoopExists ==
  ASSUME NEW s, NEW n \in Nat
  PROVE  \E g : g = LoopOf(s, n, g)
<1> DEFINE Stuck == {k \in 0 .. n : ~\E g : g = LoopOf(s, k, g)}
<1>1. CASE Stuck = {}
  <2>1. n \in 0 .. n
    OBVIOUS
  <2> QED
    BY <1>1, <2>1
<1>2. CASE Stuck # {}
  <2>1. Stuck \subseteq Nat
    OBVIOUS
  <2>2. PICK k \in Stuck : \A j \in Stuck : k <= j
    <3> HIDE DEF Stuck
    <3> QED
      BY <1>2, <2>1, LeastNumber
  <2>3. k \in 0 .. n /\ ~\E g : g = LoopOf(s, k, g)
    OBVIOUS
  <2>4. CASE k = 0
    <3>1. PICK g : g = [i \in 0 .. 0 |-> Held]
      OBVIOUS
    <3>2. g = LoopOf(s, 0, g)
      BY <3>1 DEF LoopOf
    <3> QED
      BY <2>3, <2>4, <3>2
  <2>5. CASE k # 0
    <3>1. k - 1 \in 0 .. n /\ ~(k <= k - 1)
      BY <2>3, <2>5
    <3>2. PICK g : g = LoopOf(s, k - 1, g)
      BY <2>2, <3>1
    <3>3. PICK e : e = [i \in 0 .. k |-> IF i = k THEN Hold(g[k - 1], s[k]) ELSE g[i]]
      OBVIOUS
    <3>4. ASSUME NEW i \in 0 .. k
          PROVE  e[i] = IF i = 0 THEN Held ELSE Hold(e[i - 1], s[i])
      <4>0. \A j \in 0 .. k : e[j] = IF j = k THEN Hold(g[k - 1], s[k]) ELSE g[j]
        BY <3>3, Zenon
      <4>1. CASE i = k
        <5>1. k - 1 \in 0 .. k /\ k - 1 # k
          BY <2>3, <2>5
        <5>2. e[k - 1] = g[k - 1] /\ e[k] = Hold(g[k - 1], s[k])
          BY <4>0, <4>1, <5>1, Zenon
        <5> QED
          BY <2>5, <4>1, <5>2, Zenon
      <4>2. CASE i # k
        <5>1. i \in 0 .. k - 1
          BY <2>3, <4>2
        <5>2. e[i] = g[i]
          BY <4>0, <4>2, Zenon
        <5>3. g[i] = IF i = 0 THEN Held ELSE Hold(g[i - 1], s[i])
          BY <3>2, <5>1, Zenon DEF LoopOf
        <5>4. CASE i = 0
          BY <5>2, <5>3, <5>4, Zenon
        <5>5. CASE i # 0
          <6>1. i - 1 \in 0 .. k /\ i - 1 # k
            BY <2>3, <5>1, <5>5
          <6>2. e[i - 1] = g[i - 1]
            BY <4>0, <6>1, Zenon
          <6> QED
            BY <5>2, <5>3, <5>5, <6>2, Zenon
        <5> QED
          BY <5>4, <5>5
      <4> QED
        BY <4>1, <4>2
    <3>5. e = [i \in 0 .. k |-> e[i]]
      BY <3>3, Zenon
    <3>6. e = LoopOf(s, k, e)
      BY <3>4, <3>5, Zenon DEF LoopOf
    <3> QED
      BY <2>3, <3>6, Zenon
  <2> QED
    BY <2>4, <2>5
<1> QED
  BY <1>1, <1>2

\* What the loop keeps, sample by sample.
LEMMA HoldAllKeeps ==
  ASSUME Shape(Held), NEW s \in Seq(SUBSET Nat)
  PROVE  /\ Shape(HoldAll(s))
         /\ \A y, c : /\ c \in Nat /\ Cut(Held, y, c)
                      /\ \A k \in 1 .. Len(s) : y[c + k] = s[k]
                      => Cut(HoldAll(s), y, c + Len(s))
<1>1. PICK n \in Nat : n = Len(s)
  OBVIOUS
<1>2. PICK g : g = (CHOOSE e : e = LoopOf(s, n, e))
  OBVIOUS
<1>3. g = LoopOf(s, n, g)
  BY <1>2, LoopExists, Zenon
<1>4. HoldAll(s) = g[n]
  BY <1>1, <1>2, LoopIsChosen, Zenon
<1>5. \A k \in 0 .. n : g[k] = IF k = 0 THEN Held ELSE Hold(g[k - 1], s[k])
  BY <1>3, Zenon DEF LoopOf
<1>6. g[0] = Held
  <2>1. 0 \in 0 .. n
    OBVIOUS
  <2> QED
    BY <1>5, <2>1, Zenon
<1>7. ASSUME NEW k \in 1 .. n PROVE g[k] = Hold(g[k - 1], s[k])
  <2>1. k \in 0 .. n /\ k # 0
    OBVIOUS
  <2> QED
    BY <1>5, <2>1, Zenon
<1>8. ASSUME NEW k \in 0 .. n PROVE Shape(g[k])
  <2> DEFINE Wrong == {j \in 0 .. n : ~Shape(g[j])}
  <2>1. CASE Wrong = {}
    BY <2>1
  <2>2. CASE Wrong # {}
    <3>1. Wrong \subseteq Nat
      OBVIOUS
    <3>2. PICK j \in Wrong : \A i \in Wrong : j <= i
      <4> HIDE DEF Wrong
      <4> QED
        BY <2>2, <3>1, LeastNumber
    <3>3. j \in 0 .. n /\ ~Shape(g[j])
      OBVIOUS
    <3>4. j # 0
      BY <1>6, <3>3
    <3>5. j \in 1 .. n /\ j - 1 \in 0 .. n /\ ~(j <= j - 1)
      BY <3>3, <3>4
    <3>6. Shape(g[j - 1])
      BY <3>2, <3>5
    <3>7. s[j] \in SUBSET Nat
      BY <1>1, <3>5
    <3>8. Shape(Hold(g[j - 1], s[j]))
      BY <3>6, <3>7, HoldKeeps, Zenon
    <3> QED
      BY <1>7, <3>3, <3>5, <3>8, Zenon
  <2> QED
    BY <2>1, <2>2
<1>9. ASSUME NEW y, NEW c \in Nat, Cut(Held, y, c), \A k \in 1 .. n : y[c + k] = s[k]
      PROVE  Cut(g[n], y, c + n)
  <2> DEFINE Wrong == {j \in 0 .. n : ~Cut(g[j], y, c + j)}
  <2>1. CASE Wrong = {}
    <3>1. n \in 0 .. n
      OBVIOUS
    <3> QED
      BY <2>1, <3>1
  <2>2. CASE Wrong # {}
    <3>1. Wrong \subseteq Nat
      OBVIOUS
    <3>2. PICK j \in Wrong : \A i \in Wrong : j <= i
      <4> HIDE DEF Wrong
      <4> QED
        BY <2>2, <3>1, LeastNumber
    <3>3. j \in 0 .. n /\ ~Cut(g[j], y, c + j)
      OBVIOUS
    <3>4. j # 0
      <4>1. c + 0 = c
        BY <1>9
      <4> QED
        BY <1>6, <1>9, <3>3, <4>1
    <3>5. j \in 1 .. n /\ j - 1 \in 0 .. n /\ ~(j <= j - 1)
      BY <3>3, <3>4
    <3>6. Cut(g[j - 1], y, c + (j - 1)) /\ Shape(g[j - 1])
      BY <1>8, <3>2, <3>5
    <3>7. s[j] \in SUBSET Nat /\ y[c + j] = s[j] /\ c + (j - 1) + 1 = c + j
      BY <1>1, <1>9, <3>5
    <3>8. Cut(Hold(g[j - 1], s[j]), y, c + (j - 1) + 1)
      BY <3>6, <3>7, HoldKeeps, Zenon
    <3> QED
      BY <1>7, <3>3, <3>5, <3>7, <3>8, Zenon
  <2> QED
    BY <2>1, <2>2
<1>10. Shape(g[n])
  BY <1>8
<1> QED
  BY <1>1, <1>4, <1>9, <1>10, Zenon

-----------------------------------------------------------------------------
(* rtw_bridge_on_read_pcm16: the invariant *)

\* WireOf and SamplesOf, of any sequence s at the rate q, T its lone positions.
Slot(T, q, j) ==
  IF q = 2 THEN (j + Cardinality({o \in T : o < j}) + 1) \div 2 ELSE j

Sources(s, T, q) ==
  [k \in Nat |-> {s[j] : j \in {i \in 1 .. Len(s) : Slot(T, q, i) = k}}]

\* It makes c samples of the wire: a lone sample counts for two.
Tally(s, T, q, c) ==
  /\ s \in Seq(Nat) /\ T \in SUBSET (1 .. Len(s)) /\ c \in Nat
  /\ IF q = 2 THEN Len(s) + Cardinality(T) = 2 * c ELSE Len(s) = c

\* After every callback all accepted samples are on the wire: the lone ones are there
\* so that the next callback's begin a sample of their own.
UpInv ==
  /\ rate \in Nat /\ (rate # 0 => channels \in {1, 2})
  /\ now \in Nat /\ Shape(Held)
  /\ rate = 0 => accepted = <<>> /\ lone = {} /\ pcm_hold = <<>> /\ frames = <<>>
  /\ \E c \in Nat :
       Tally(accepted, lone, rate, c) /\ Cut(Held, Sources(accepted, lone, rate), c)

\* A position in a frame is a position among the samples of all frames.
LEMMA FramePosition ==
  ASSUME NEW L \in Nat, NEW m \in Nat, NEW f \in 1 .. m, NEW k \in 1 .. L
  PROVE  (f - 1) * L + k \in 1 .. m * L
<1>1. PICK e \in Nat : e = f - 1 /\ e + 1 <= m
  OBVIOUS
<1>2. PICK d \in Nat : m = e + 1 + d
  <2>1. m - (e + 1) \in Nat /\ m = e + 1 + (m - (e + 1))
    BY <1>1
  <2> QED
    BY <2>1
<1>3. m * L = e * L + L + d * L /\ e * L \in Nat /\ d * L \in Nat
  BY <1>2
<1>4. e * L + k \in 1 .. m * L
  BY <1>3
<1> QED
  BY <1>1, <1>4

\* What was cut from y was cut from any z that agrees with it so far.
LEMMA CutAgrees ==
  ASSUME NEW r, Shape(r), NEW y, NEW z, NEW c, Cut(r, y, c),
         \A i \in 1 .. c : z[i] = y[i]
  PROVE  Cut(r, z, c)
<1>1. PICK L \in Nat \ {0} : L = FrameLen
  BY AudioConstants
<1>2. PICK n \in Nat : n = Len(r.hold)
  BY DEF Shape
<1>3. PICK m \in Nat : m = Len(r.pushed)
  BY DEF Shape
<1>4. PICK b \in Nat : b = m * L
  OBVIOUS
<1>5. c = b + n
  BY <1>1, <1>2, <1>3, <1>4 DEF Cut
<1>6. ASSUME NEW f \in 1 .. m, NEW k \in 1 .. L
      PROVE  r.pushed[f][k] = z[(f - 1) * L + k]
  <2>1. PICK i \in 1 .. b : i = (f - 1) * L + k
    BY <1>1, <1>4, FramePosition
  <2>2. i \in 1 .. c
    BY <1>5, <2>1
  <2>3. r.pushed[f][k] = y[(f - 1) * L + k]
    BY <1>1, <1>3, Zenon DEF Cut
  <2> QED
    BY <2>1, <2>2, <2>3, Zenon
<1>7. ASSUME NEW k \in 1 .. n PROVE r.hold[k] = z[b + k]
  <2>1. b + k \in 1 .. c
    BY <1>5
  <2>2. r.hold[k] = y[b + k]
    BY <1>1, <1>2, <1>3, <1>4, Zenon DEF Cut
  <2> QED
    BY <2>1, <2>2, Zenon
<1> QED
  BY <1>1, <1>2, <1>3, <1>4, <1>6, <1>7, Zenon DEF Cut

\* The samples that a callback takes into account, whatever the channels.
LEMMA TimesOfCallback ==
  ASSUME UpInv, rate # 0, NEW n \in Nat
  PROVE  Times(n) \in Seq(Nat) /\ Lasts(n) \in Nat
<1>1. n \div channels \in Nat /\ (n + channels - 1) \div channels \in Nat
  <2>1. CASE channels = 1
    BY <2>1
  <2>2. CASE channels = 2
    BY <2>2
  <2> QED
    BY <2>1, <2>2 DEF UpInv
<1>2. \A k \in 1 .. n \div channels : now + k - 1 \in Nat
  BY <1>1 DEF UpInv
<1> QED
  BY <1>1, <1>2 DEF Times, Lasts

\* Which of its samples of the wire the i-th of a callback of n goes into.
Nth(q, i) == IF q = 2 THEN (i + 1) \div 2 ELSE i

LEMMA ResampledType ==
  ASSUME NEW s \in Seq(Nat)
  PROVE  /\ Resampled(s) \in Seq(SUBSET Nat)
         /\ Len(Resampled(s)) = Nth(rate, Len(s))
         /\ \A k \in 1 .. Len(Resampled(s)) :
              Resampled(s)[k] = {s[i] : i \in {j \in 1 .. Len(s) : Nth(rate, j) = k}}
<1>1. PICK n \in Nat : n = Len(s) /\ DOMAIN s = 1 .. n
  BY LenProperties
<1>2. CASE rate = 2
  <2>1. Resampled(s) = [k \in 1 .. (n + 1) \div 2 |->
                          {s[j] : j \in {2 * k - 1, 2 * k} \cap DOMAIN s}]
    BY <1>1, <1>2, Zenon DEF Resampled
  <2>2. PICK d \in Nat : d = (n + 1) \div 2
    OBVIOUS
  <2>3. ASSUME NEW k PROVE {s[j] : j \in {2 * k - 1, 2 * k} \cap DOMAIN s} \in SUBSET Nat
    BY <1>1
  <2>4. ASSUME NEW k \in 1 .. d
        PROVE  {2 * k - 1, 2 * k} \cap DOMAIN s = {j \in 1 .. n : Nth(rate, j) = k}
    <3>1. ASSUME NEW j \in 1 .. n
          PROVE  (j \in {2 * k - 1, 2 * k}) <=> ((j + 1) \div 2 = k)
      OBVIOUS
    <3>2. \A j \in 1 .. n : Nth(rate, j) = (j + 1) \div 2
      BY <1>2 DEF Nth
    <3> QED
      BY <1>1, <3>1, <3>2
  <2>5. Resampled(s) \in Seq(SUBSET Nat) /\ Len(Resampled(s)) = d
    BY <2>1, <2>2, <2>3
  <2>6. ASSUME NEW k \in 1 .. d
        PROVE  Resampled(s)[k] = {s[i] : i \in {j \in 1 .. n : Nth(rate, j) = k}}
    <3>1. Resampled(s)[k] = {s[j] : j \in {2 * k - 1, 2 * k} \cap DOMAIN s}
      BY <2>1, <2>2, Zenon
    <3> QED
      BY <2>4, <3>1, Zenon
  <2>7. Nth(rate, Len(s)) = d
    BY <1>1, <1>2, <2>2 DEF Nth
  <2> QED
    BY <1>1, <2>5, <2>6, <2>7, Zenon
<1>3. CASE rate # 2
  <2>1. Resampled(s) = [k \in 1 .. n |-> {s[k]}]
    BY <1>1, <1>3, Zenon DEF Resampled
  <2>2. \A k \in 1 .. n : {s[k]} \in SUBSET Nat
    BY <1>1
  <2>3. Resampled(s) \in Seq(SUBSET Nat) /\ Len(Resampled(s)) = n
    BY <2>1, <2>2
  <2>4. ASSUME NEW k \in 1 .. n
        PROVE  Resampled(s)[k] = {s[i] : i \in {j \in 1 .. n : Nth(rate, j) = k}}
    <3>1. {j \in 1 .. n : Nth(rate, j) = k} = {k}
      BY <1>3 DEF Nth
    <3>2. Resampled(s)[k] = {s[k]}
      BY <2>1, Zenon
    <3> QED
      BY <3>1, <3>2
  <2>5. Nth(rate, Len(s)) = n
    BY <1>1, <1>3 DEF Nth
  <2> QED
    BY <1>1, <2>3, <2>4, <2>5, Zenon
<1> QED
  BY <1>2, <1>3

LEMMA JoinedAt ==
  ASSUME NEW u \in Seq(Nat), NEW v \in Seq(Nat)
  PROVE  /\ u \o v \in Seq(Nat) /\ Len(u \o v) = Len(u) + Len(v)
         /\ \A i \in 1 .. Len(u) : (u \o v)[i] = u[i]
         /\ \A i \in 1 .. Len(v) : (u \o v)[Len(u) + i] = v[i]
  BY ConcatProperties

\* The lone positions when t has come behind s.
WithLast(T, q, s, t) ==
  IF q = 2 /\ Len(t) % 2 = 1 THEN T \cup {Len(s) + Len(t)} ELSE T

\* A callback adds its own samples of the wire, behind the c that there are, and
\* leaves those alone.
Grows(s, T, q, c, t, U) ==
  /\ Tally(s \o t, U, q, c + Nth(q, Len(t)))
  /\ \A i \in 1 .. c : Sources(s \o t, U, q)[i] = Sources(s, T, q)[i]
  /\ \A k \in 1 .. Nth(q, Len(t)) :
       Sources(s \o t, U, q)[c + k] = {t[i] : i \in {j \in 1 .. Len(t) : Nth(q, j) = k}}

LEMMA SourcesGrow ==
  ASSUME NEW s, NEW T, NEW q, NEW c, Tally(s, T, q, c), NEW t, t \in Seq(Nat),
         NEW U, U = WithLast(T, q, s, t)
  PROVE  Grows(s, T, q, c, t, U)
<1>0. s \in Seq(Nat) /\ T \in SUBSET (1 .. Len(s)) /\ c \in Nat
  BY DEF Tally
<1>1. PICK w : w = s \o t
  OBVIOUS
<1>2. PICK m \in Nat : m = Len(s)
  BY <1>0
<1>3. PICK n \in Nat : n = Len(t)
  OBVIOUS
<1>4. /\ w \in Seq(Nat) /\ Len(w) = m + n
      /\ \A i \in 1 .. m : w[i] = s[i]
      /\ \A i \in 1 .. n : w[m + i] = t[i]
  BY <1>0, <1>1, <1>2, <1>3, JoinedAt, Zenon
<1>5. T \in SUBSET (1 .. m) /\ IsFiniteSet(T)
  <2>1. IsFiniteSet(1 .. m)
    BY FS_Interval
  <2> QED
    BY <1>0, <1>2, <2>1, FS_Subset
<1>6. PICK h \in Nat : h = Cardinality(T)
  BY <1>5, FS_CardinalityType
<1>7. IF q = 2 THEN m + h = 2 * c ELSE m = c
  BY <1>2, <1>6 DEF Tally
<1>8. /\ U = IF q = 2 /\ n % 2 = 1 THEN T \cup {m + n} ELSE T
      /\ m + n \notin T \/ n = 0
  BY <1>2, <1>3, <1>5 DEF WithLast
<1>9. ASSUME NEW j \in 1 .. m PROVE Slot(U, q, j) = Slot(T, q, j)
  <2>1. CASE q = 2 /\ n % 2 = 1
    <3>1. ~(m + n < j)
      OBVIOUS
    <3>2. {o \in U : o < j} = {o \in T : o < j}
      BY <1>8, <2>1, <3>1
    <3> QED
      BY <3>2 DEF Slot
  <2>2. CASE ~(q = 2 /\ n % 2 = 1)
    BY <1>8, <2>2
  <2> QED
    BY <2>1, <2>2
<1>10. ASSUME NEW j \in 1 .. m PROVE Slot(T, q, j) \in 1 .. c
  <2>1. CASE q = 2
    <3>1. {o \in T : o < j} \in SUBSET T
      OBVIOUS
    <3>2. PICK e \in Nat : e = Cardinality({o \in T : o < j})
      BY <1>5, <3>1, FS_Subset, FS_CardinalityType
    <3>3. e <= h
      BY <1>5, <1>6, <3>1, <3>2, FS_Subset
    <3>4. Slot(T, q, j) = (j + e + 1) \div 2
      BY <2>1, <3>2 DEF Slot
    <3>5. m + h = 2 * c
      BY <1>7, <2>1
    <3>6. j + e + 1 <= 2 * c + 1 /\ j + e + 1 >= 2
      BY <3>3, <3>5
    <3>7. (j + e + 1) \div 2 \in 1 .. c
      BY <1>0, <3>6
    <3> QED
      BY <3>4, <3>7
  <2>2. CASE q # 2
    BY <1>7, <2>2 DEF Slot
  <2> QED
    BY <2>1, <2>2
<1>11. ASSUME NEW i \in 1 .. n PROVE Slot(U, q, m + i) = c + Nth(q, i)
  <2>1. CASE q = 2
    <3>1. {o \in U : o < m + i} = T
      <4>1. \A o \in T : o < m + i
        BY <1>5
      <4>2. ~(m + n < m + i)
        OBVIOUS
      <4> QED
        BY <1>8, <4>1, <4>2
    <3>2. Slot(U, q, m + i) = (m + i + h + 1) \div 2
      BY <1>6, <2>1, <3>1 DEF Slot
    <3>3. m + h = 2 * c
      BY <1>7, <2>1
    <3>4. m + i + h + 1 = 2 * c + (i + 1)
      BY <3>3
    <3>5. (2 * c + (i + 1)) \div 2 = c + (i + 1) \div 2
      BY <1>0
    <3> QED
      BY <2>1, <3>2, <3>4, <3>5 DEF Nth
  <2>2. CASE q # 2
    BY <1>7, <2>2 DEF Slot, Nth
  <2> QED
    BY <2>1, <2>2
<1>12. ASSUME NEW i \in 1 .. n PROVE Nth(q, i) \in Nat \ {0}
  BY DEF Nth
<1>13. PICK d \in Nat : d = Nth(q, n)
  <2>1. Nth(q, n) \in Nat
    BY DEF Nth
  <2> QED
    BY <2>1
<1>14. Tally(w, U, q, c + d)
  <2>1. CASE q = 2 /\ n % 2 = 1
    <3>1. U = T \cup {m + n} /\ n # 0
      BY <1>8, <2>1
    <3>2. m + n \notin T
      BY <1>8, <3>1
    <3>3. Cardinality(U) = h + 1
      BY <1>5, <1>6, <3>1, <3>2, FS_AddElement
    <3>4. m + h = 2 * c /\ d = (n + 1) \div 2
      BY <1>7, <1>13, <2>1 DEF Nth
    <3>5. 2 * ((n + 1) \div 2) = n + 1
      BY <2>1
    <3>6. m + n + (h + 1) = 2 * (c + d)
      BY <1>0, <3>4, <3>5
    <3>7. U \in SUBSET (1 .. m + n)
      BY <1>5, <3>1
    <3>8. w \in Seq(Nat) /\ Len(w) = m + n /\ c + d \in Nat
      BY <1>0, <1>4
    <3>9. Len(w) + Cardinality(U) = 2 * (c + d) /\ U \in SUBSET (1 .. Len(w))
      BY <3>3, <3>6, <3>7, <3>8, Zenon
    <3> QED
      BY <2>1, <3>8, <3>9, Zenon DEF Tally
  <2>2. CASE q = 2 /\ ~(n % 2 = 1)
    <3>1. U = T
      BY <1>8, <2>2
    <3>2. m + h = 2 * c /\ d = (n + 1) \div 2
      BY <1>7, <1>13, <2>2 DEF Nth
    <3>3. 2 * ((n + 1) \div 2) = n
      BY <2>2
    <3>4. m + n + h = 2 * (c + d)
      BY <1>0, <3>2, <3>3
    <3>5. U \in SUBSET (1 .. m + n)
      BY <1>5, <3>1
    <3> QED
      BY <1>0, <1>4, <1>6, <2>2, <3>1, <3>4, <3>5 DEF Tally
  <2>3. CASE q # 2
    <3>1. U = T /\ m = c /\ d = n
      BY <1>7, <1>8, <1>13, <2>3 DEF Nth
    <3>2. U \in SUBSET (1 .. m + n)
      BY <1>5, <3>1
    <3> QED
      BY <1>0, <1>4, <2>3, <3>1, <3>2 DEF Tally
  <2> QED
    BY <2>1, <2>2, <2>3
<1>15. ASSUME NEW i \in 1 .. c PROVE Sources(w, U, q)[i] = Sources(s, T, q)[i]
  <2>1. i \in Nat
    BY <1>0
  <2>2. ASSUME NEW j \in 1 .. m + n, Slot(U, q, j) = i PROVE j \in 1 .. m
    <3>1. SUFFICES ASSUME j \notin 1 .. m PROVE FALSE
      OBVIOUS
    <3>2. PICK k \in 1 .. n : j = m + k
      <4>1. j - m \in 1 .. n /\ j = m + (j - m)
        BY <3>1
      <4> QED
        BY <4>1
    <3>3. PICK x \in Nat \ {0} : x = Nth(q, k)
      BY <1>12
    <3>4. i = c + x
      BY <1>11, <2>2, <3>2, <3>3
    <3> QED
      BY <1>0, <3>4
  <2>3. {j \in 1 .. m + n : Slot(U, q, j) = i} = {j \in 1 .. m : Slot(T, q, j) = i}
    <3>1. \A j \in 1 .. m : j \in 1 .. m + n
      OBVIOUS
    <3> QED
      BY <1>9, <2>2, <3>1
  <2>4. \A j \in {k \in 1 .. m : Slot(T, q, k) = i} : w[j] = s[j]
    BY <1>4
  <2>5. /\ Sources(w, U, q)[i] = {w[j] : j \in {k \in 1 .. m + n : Slot(U, q, k) = i}}
        /\ Sources(s, T, q)[i] = {s[j] : j \in {k \in 1 .. m : Slot(T, q, k) = i}}
    BY <1>2, <1>4, <2>1, Zenon DEF Sources
  <2> QED
    BY <2>3, <2>4, <2>5
<1>16. ASSUME NEW k \in 1 .. d
       PROVE  Sources(w, U, q)[c + k] = {t[i] : i \in {j \in 1 .. n : Nth(q, j) = k}}
  <2>1. PICK y \in Nat : y = c + k
    BY <1>0
  <2>2. Sources(w, U, q)[y] = {w[j] : j \in {i \in 1 .. m + n : Slot(U, q, i) = y}}
    BY <1>4, Zenon DEF Sources
  <2>3. ASSUME NEW j \in 1 .. m + n, Slot(U, q, j) = y
        PROVE  \E i \in 1 .. n : Nth(q, i) = k /\ w[j] = t[i]
    <3>1. j \notin 1 .. m
      <4>1. SUFFICES ASSUME j \in 1 .. m PROVE FALSE
        OBVIOUS
      <4>2. y \in 1 .. c
        BY <1>9, <1>10, <2>3, <4>1
      <4> QED
        BY <1>0, <2>1, <4>2
    <3>2. PICK i \in 1 .. n : j = m + i
      <4>1. j - m \in 1 .. n /\ j = m + (j - m)
        BY <3>1
      <4> QED
        BY <4>1
    <3>3. PICK x \in Nat : x = Nth(q, i)
      BY <1>12
    <3>4. c + x = c + k
      BY <1>11, <2>1, <2>3, <3>2, <3>3
    <3>5. x = k
      BY <1>0, <3>4
    <3> QED
      BY <1>4, <3>2, <3>3, <3>5
  <2>4. ASSUME NEW i \in 1 .. n, Nth(q, i) = k
        PROVE  \E j \in 1 .. m + n : Slot(U, q, j) = y /\ w[j] = t[i]
    <3>1. m + i \in 1 .. m + n
      OBVIOUS
    <3>2. Slot(U, q, m + i) = y
      BY <1>11, <2>1, <2>4
    <3> QED
      BY <1>4, <3>1, <3>2
  <2>5. ASSUME NEW v, v \in Sources(w, U, q)[y]
        PROVE  v \in {t[i] : i \in {j \in 1 .. n : Nth(q, j) = k}}
    <3>1. PICK j \in 1 .. m + n : Slot(U, q, j) = y /\ v = w[j]
      BY <2>2, <2>5, Zenon
    <3>2. PICK i \in 1 .. n : Nth(q, i) = k /\ w[j] = t[i]
      BY <2>3, <3>1, Zenon
    <3> QED
      BY <3>1, <3>2, Zenon
  <2>6. ASSUME NEW v, v \in {t[i] : i \in {j \in 1 .. n : Nth(q, j) = k}}
        PROVE  v \in Sources(w, U, q)[y]
    <3>1. PICK i \in 1 .. n : Nth(q, i) = k /\ v = t[i]
      BY <2>6, Zenon
    <3>2. PICK j \in 1 .. m + n : Slot(U, q, j) = y /\ w[j] = t[i]
      BY <2>4, <3>1, Zenon
    <3> QED
      BY <2>2, <3>1, <3>2, Zenon
  <2>7. Sources(w, U, q)[y] = {t[i] : i \in {j \in 1 .. n : Nth(q, j) = k}}
    BY <2>5, <2>6, Zenon
  <2> QED
    BY <2>1, <2>7, Zenon
<1> QED
  BY <1>1, <1>3, <1>13, <1>14, <1>15, <1>16, Zenon DEF Grows

LEMMA OnReadKeeps ==
  ASSUME UpInv, OnRead
  PROVE  UpInv'
<1>1. PICK n \in ReadLens :
        LET s == Times(n)
            st == HoldAll(Resampled(s))
        IN /\ now' = now + Lasts(n)
           /\ accepted' = accepted \o s
           /\ lone' = IF rate = 2 /\ Len(s) % 2 = 1
                       THEN lone \cup {Len(accepted) + Len(s)} ELSE lone
           /\ pcm_hold' = st.hold /\ frames' = st.pushed
  BY DEF OnRead
<1>2. rate # 0 /\ rate' = rate /\ channels' = channels
  BY DEF OnRead, flagVars
<1>3. n \in Nat /\ rate \in Nat /\ now \in Nat /\ Shape(Held)
  BY AudioConstants DEF UpInv
<1>4. PICK t : t = Times(n)
  OBVIOUS
<1>5. t \in Seq(Nat) /\ Lasts(n) \in Nat
  BY <1>2, <1>3, <1>4, TimesOfCallback
<1>6. PICK x : x = Resampled(t)
  OBVIOUS
<1>7. x \in Seq(SUBSET Nat) /\ Len(x) = Nth(rate, Len(t))
  BY <1>5, <1>6, ResampledType
<1>8. \A k \in 1 .. Len(x) :
        x[k] = {t[i] : i \in {j \in 1 .. Len(t) : Nth(rate, j) = k}}
  BY <1>5, <1>6, ResampledType
<1>9. PICK r : r = HoldAll(x)
  OBVIOUS
<1>10. /\ now' = now + Lasts(n) /\ accepted' = accepted \o t
       /\ lone' = WithLast(lone, rate, accepted, t)
       /\ pcm_hold' = r.hold /\ frames' = r.pushed
  BY <1>1, <1>4, <1>6, <1>9, Zenon DEF WithLast
<1>11. PICK s, T : s = accepted /\ T = lone
  OBVIOUS
<1>12. PICK U : U = WithLast(T, rate, s, t)
  OBVIOUS
<1>13. PICK c \in Nat : Tally(s, T, rate, c) /\ Cut(Held, Sources(s, T, rate), c)
  BY <1>11 DEF UpInv
<1>14. Grows(s, T, rate, c, t, U)
  BY <1>5, <1>12, <1>13, SourcesGrow, Zenon
<1>15. PICK y : y = Sources(s \o t, U, rate)
  OBVIOUS
<1>16. /\ Tally(s \o t, U, rate, c + Len(x))
       /\ \A i \in 1 .. c : y[i] = Sources(s, T, rate)[i]
       /\ \A k \in 1 .. Len(x) : y[c + k] = x[k]
  <2>1. \A k \in 1 .. Nth(rate, Len(t)) :
          y[c + k] = {t[i] : i \in {j \in 1 .. Len(t) : Nth(rate, j) = k}}
    BY <1>14, <1>15, Zenon DEF Grows
  <2>2. /\ Tally(s \o t, U, rate, c + Nth(rate, Len(t)))
        /\ \A i \in 1 .. c : y[i] = Sources(s, T, rate)[i]
    BY <1>14, <1>15, Zenon DEF Grows
  <2> QED
    BY <1>7, <1>8, <2>1, <2>2, Zenon
<1>17. Cut(Held, y, c)
  BY <1>3, <1>13, <1>16, CutAgrees
<1>18. PICK z \in Nat : z = c + Len(x)
  BY <1>7
<1>19. Shape(r) /\ Cut(r, y, z)
  BY <1>3, <1>7, <1>9, <1>13, <1>16, <1>17, <1>18, HoldAllKeeps, Zenon
<1>20. Shape(Held)'
  BY <1>10, <1>19 DEF Shape, Held
<1>21. Cut(Held', y, z)
  BY <1>10, <1>19 DEF Cut, Held
<1>22. accepted' = s \o t /\ lone' = U
  BY <1>10, <1>11, <1>12
<1>23. \E e \in Nat : /\ Tally(accepted', lone', rate', e)
                       /\ Cut(Held', Sources(accepted', lone', rate'), e)
  <2>1. Tally(accepted', lone', rate', z)
    BY <1>2, <1>16, <1>18, <1>22
  <2>2. Cut(Held', Sources(accepted', lone', rate'), z)
    BY <1>2, <1>15, <1>21, <1>22
  <2> QED
    BY <2>1, <2>2
<1>24. now' \in Nat
  <2>1. PICK e \in Nat : e = now + Lasts(n)
    BY <1>3, <1>5
  <2> QED
    BY <1>10, <2>1
<1>25. rate' \in Nat /\ rate' # 0 /\ channels' \in {1, 2}
  BY <1>2 DEF UpInv
<1> QED
  BY <1>20, <1>23, <1>24, <1>25 DEF UpInv

\* Nothing is accepted, and nothing held.
LEMMA NothingYet ==
  ASSUME NEW r, r.hold = <<>>, r.pushed = <<>>, NEW q
  PROVE  Tally(<<>>, {}, q, 0) /\ Shape(r) /\ Cut(r, Sources(<<>>, {}, q), 0)
<1>1. Len(<<>>) = 0 /\ <<>> \in Seq(Nat) /\ FrameLen > 0 /\ FrameLen \in Nat
  BY AudioConstants
<1>2. Cardinality({}) = 0
  BY FS_EmptySet
<1>3. Tally(<<>>, {}, q, 0)
  BY <1>1, <1>2 DEF Tally
<1>4. Shape(r)
  BY <1>1 DEF Shape
<1>5. Cut(r, Sources(<<>>, {}, q), 0)
  BY <1>1 DEF Cut
<1> QED
  BY <1>3, <1>4, <1>5

LEMMA UpInvInit == Init => UpInv
<1> SUFFICES ASSUME Init PROVE UpInv
  OBVIOUS
<1>1. /\ rate = 0 /\ now = 0 /\ accepted = <<>> /\ lone = {}
      /\ pcm_hold = <<>> /\ frames = <<>>
  BY DEF Init
<1>2. Held.hold = <<>> /\ Held.pushed = <<>>
  BY <1>1 DEF Held
<1>3. /\ Tally(accepted, lone, rate, 0) /\ Shape(Held)
      /\ Cut(Held, Sources(accepted, lone, rate), 0)
  BY <1>1, <1>2, NothingYet
<1> QED
  BY <1>1, <1>3 DEF UpInv

\* The rate is settled before the first sample.
LEMMA StartsKeepsUp ==
  ASSUME UpInv, Starts
  PROVE  UpInv'
<1>1. /\ rate' \in Nat /\ rate' # 0 /\ channels' \in {1, 2} /\ now' = now
      /\ accepted' = <<>> /\ lone' = {} /\ pcm_hold' = <<>> /\ frames' = <<>>
  BY AudioConstants DEF UpInv, Starts, upVars
<1>2. Held'.hold = <<>> /\ Held'.pushed = <<>>
  BY <1>1 DEF Held
<1>3. PICK r, q : r = Held' /\ q = rate'
  OBVIOUS
<1>4. Tally(<<>>, {}, q, 0) /\ Shape(r) /\ Cut(r, Sources(<<>>, {}, q), 0)
  BY <1>2, <1>3, NothingYet
<1>5. Shape(Held)'
  BY <1>3, <1>4 DEF Shape
<1>6. \E c \in Nat : /\ Tally(accepted', lone', rate', c)
                     /\ Cut(Held', Sources(accepted', lone', rate'), c)
  BY <1>1, <1>3, <1>4
<1>7. now' \in Nat
  BY <1>1 DEF UpInv
<1> QED
  BY <1>1, <1>5, <1>6, <1>7 DEF UpInv

\* The steps that leave the samples alone, but for the time.
LEMMA UpKeeps ==
  ASSUME UpInv, UNCHANGED <<rate, channels, accepted, lone, pcm_hold, frames>>,
         now' \in Nat
  PROVE  UpInv'
<1>1. Held' = Held
  BY DEF Held
<1>2. Shape(Held)'
  BY <1>1 DEF UpInv, Shape
<1>3. \E c \in Nat : /\ Tally(accepted', lone', rate', c)
                     /\ Cut(Held', Sources(accepted', lone', rate'), c)
  BY <1>1 DEF UpInv
<1> QED
  BY <1>2, <1>3 DEF UpInv

LEMMA UpStep ==
  ASSUME UpInv, [Next]_vars
  PROVE  UpInv'
<1>1. CASE Starts
  BY <1>1, StartsKeepsUp
<1>2. CASE OnRead
  BY <1>2, OnReadKeeps
<1>3. CASE OnReadSkipped
  <2>1. PICK d \in ReadLens : now' = now + Lasts(d)
    BY <1>3 DEF OnReadSkipped
  <2>2. PICK n \in Nat : n = Lasts(d)
    BY <1>3, AudioConstants, TimesOfCallback DEF OnReadSkipped
  <2>3. PICK e \in Nat : e = now + n
    BY DEF UpInv
  <2>4. now' \in Nat
    BY <2>1, <2>2, <2>3
  <2> QED
    BY <1>3, <2>4, UpKeeps DEF OnReadSkipped, flagVars
<1>4. CASE \/ ApplyWriteFrame \/ WriteSkipped \/ PeerMedia \/ PeerClear
           \/ Pause \/ Stop \/ UNCHANGED vars
  <2>1. UNCHANGED <<rate, channels, now, accepted, lone, pcm_hold, frames>>
    BY <1>4 DEF ApplyWriteFrame, WriteSkipped, PeerMedia, PeerClear, Pause, Stop,
       vars, flagVars, upVars
  <2>2. now' \in Nat
    BY <2>1 DEF UpInv
  <2> QED
    BY <2>1, <2>2, UpKeeps
<1> QED
  BY <1>1, <1>2, <1>3, <1>4 DEF Next

\* rtw_bridge_on_read_pcm16: for frames, callbacks and a pcm_hold of any length, as
\* long as a frame fits into pcm_hold, at any rate, with one channel or two: every
\* accepted sample is in exactly the sample of the wire it belongs to, at 16 kHz in
\* pairs but for the last of an odd callback, in order and in whole frames.
THEOREM AudioUplink == Spec => []SamplesReachTheWire
<1>1. UpInv => SamplesReachTheWire
  <2> SUFFICES ASSUME UpInv PROVE SamplesReachTheWire
    OBVIOUS
  <2>1. Held.hold = pcm_hold /\ Held.pushed = frames
    BY DEF Held
  <2>2. /\ pcm_hold \in Seq(SUBSET Nat) /\ frames \in Seq(Seq(SUBSET Nat))
        /\ Len(pcm_hold) < FrameLen
        /\ \A f \in 1 .. Len(frames) : Len(frames[f]) = FrameLen
    BY <2>1 DEF UpInv, Shape
  <2>3. DOMAIN pcm_hold = 1 .. Len(pcm_hold) /\ DOMAIN frames = 1 .. Len(frames)
    BY <2>2, LenProperties
  <2>4. PICK c \in Nat :
          Tally(accepted, lone, rate, c) /\ Cut(Held, Sources(accepted, lone, rate), c)
    BY DEF UpInv
  <2>5. c = IF rate = 2 THEN (Len(accepted) + Cardinality(lone)) \div 2
                        ELSE Len(accepted)
    <3>1. CASE rate = 2
      <4>1. Len(accepted) + Cardinality(lone) = 2 * c
        BY <2>4, <3>1 DEF Tally
      <4>2. (2 * c) \div 2 = c
        OBVIOUS
      <4> QED
        BY <3>1, <4>1, <4>2
    <3>2. CASE rate # 2
      BY <2>4, <3>2 DEF Tally
    <3> QED
      BY <3>1, <3>2
  <2>6. PICK L \in Nat : L = FrameLen
    BY AudioConstants
  <2>7. PICK m \in Nat : m = Len(frames)
    BY <2>2
  <2>8. PICK b \in Nat : b = m * L
    OBVIOUS
  <2>9. ASSUME NEW k \in Nat PROVE SamplesOf(k) = Sources(accepted, lone, rate)[k]
    <3>1. DOMAIN accepted = 1 .. Len(accepted)
      BY <2>4, LenProperties DEF Tally
    <3>2. \A j : WireOf(j) = Slot(lone, rate, j)
      BY Zenon DEF WireOf, Slot
    <3> QED
      BY <3>1, <3>2, Zenon DEF SamplesOf, Sources
  <2>10. ASSUME NEW f \in 1 .. m, NEW k \in 1 .. L
         PROVE  frames[f][k] = SamplesOf((f - 1) * L + k)
    <3>1. (f - 1) * L + k \in 1 .. m * L
      BY FramePosition
    <3>2. PICK i \in Nat : i = (f - 1) * L + k
      BY <2>8, <3>1
    <3>3. frames[f][k] = Sources(accepted, lone, rate)[(f - 1) * L + k]
      BY <2>1, <2>4, <2>6, <2>7, Zenon DEF Cut
    <3> QED
      BY <2>9, <3>2, <3>3, Zenon
  <2>11. ASSUME NEW k \in 1 .. Len(pcm_hold) PROVE pcm_hold[k] = SamplesOf(b + k)
    <3>1. b + k \in Nat
      BY <2>2
    <3>2. pcm_hold[k] = Sources(accepted, lone, rate)[b + k]
      BY <2>1, <2>4, <2>6, <2>7, <2>8, Zenon DEF Cut
    <3> QED
      BY <2>9, <3>1, <3>2, Zenon
  <2>12. c = b + Len(pcm_hold)
    BY <2>1, <2>4, <2>6, <2>7, <2>8, Zenon DEF Cut
  <2>13. Len(frames) * FrameLen = b
    BY <2>6, <2>7, <2>8, Zenon
  <2> QED
    BY <2>2, <2>3, <2>5, <2>6, <2>7, <2>10, <2>11, <2>12, <2>13, Zenon
      DEF SamplesReachTheWire
<1> QED
  BY <1>1, UpInvInit, UpStep, PTL DEF Spec

-----------------------------------------------------------------------------
(* base64: characters and groups *)

IsJoin(t, u, v) ==
  /\ t \in Seq(Nat) /\ Len(t) = Len(u) + Len(v)
  /\ \A i \in 1 .. Len(u) : t[i] = u[i]
  /\ \A i \in 1 .. Len(v) : t[Len(u) + i] = v[i]

LEMMA Joined ==
  ASSUME NEW u \in Seq(Nat), NEW v \in Seq(Nat)
  PROVE  IsJoin(u \o v, u, v)
  BY ConcatProperties, JoinedAt DEF IsJoin

\* A character of the alphabet is none of the others, and stands for its value.
LEMMA CharacterOfValue ==
  ASSUME NEW v \in 0 .. 63
  PROVE  /\ Base64!kEnc(v) \in Nat /\ Base64!kEnc(v) # Base64!PadChar
         /\ Base64!kEnc(v) \notin Base64!Blanks
         /\ Base64!dec_val(Base64!kEnc(v)) = v
<1> USE DEF Base64!PadChar, Base64!Blanks
<1>1. CASE v < 26
  <2>1. v \notin 26 .. 51 /\ v \notin 52 .. 61 /\ v # 62 /\ v # 63
    BY <1>1
  <2>2. Base64!kEnc(v) = 65 + v
    BY <1>1, <2>1, ZenonT(60) DEF Base64!kEnc
  <2>3. PICK c \in 65 .. 90 : c = 65 + v
    BY <1>1
  <2>4. c \notin 97 .. 122 /\ c \notin 48 .. 57 /\ c # 43 /\ c # 47
    OBVIOUS
  <2>5. Base64!dec_val(c) = c - 65
    BY <2>3, <2>4, ZenonT(60) DEF Base64!dec_val
  <2> QED
    BY <2>2, <2>3, <2>5
<1>2. CASE v \in 26 .. 51
  <2>1. ~(v < 26) /\ v \notin 52 .. 61 /\ v # 62 /\ v # 63
    BY <1>2
  <2>2. Base64!kEnc(v) = 97 + v - 26
    BY <1>2, <2>1, ZenonT(60) DEF Base64!kEnc
  <2>3. PICK c \in 97 .. 122 : c = 97 + v - 26
    BY <1>2
  <2>4. c \notin 65 .. 90 /\ c \notin 48 .. 57 /\ c # 43 /\ c # 47
    OBVIOUS
  <2>5. Base64!dec_val(c) = c - 97 + 26
    BY <2>3, <2>4, ZenonT(60) DEF Base64!dec_val
  <2> QED
    BY <2>2, <2>3, <2>5
<1>3. CASE v \in 52 .. 61
  <2>1. ~(v < 26) /\ v \notin 26 .. 51 /\ v # 62 /\ v # 63
    BY <1>3
  <2>2. Base64!kEnc(v) = 48 + v - 52
    BY <1>3, <2>1, ZenonT(60) DEF Base64!kEnc
  <2>3. PICK c \in 48 .. 57 : c = 48 + v - 52
    BY <1>3
  <2>4. c \notin 65 .. 90 /\ c \notin 97 .. 122 /\ c # 43 /\ c # 47
    OBVIOUS
  <2>5. Base64!dec_val(c) = c - 48 + 52
    BY <2>3, <2>4, ZenonT(60) DEF Base64!dec_val
  <2> QED
    BY <2>2, <2>3, <2>5
<1>4. CASE v = 62
  <2>1. ~(62 < 26) /\ 62 \notin 26 .. 51 /\ 62 \notin 52 .. 61 /\ 62 # 63
    OBVIOUS
  <2>2. Base64!kEnc(62) = 43
    BY <2>1, ZenonT(60) DEF Base64!kEnc
  <2>3. 43 \notin 65 .. 90 /\ 43 \notin 97 .. 122 /\ 43 \notin 48 .. 57 /\ 43 # 47
    OBVIOUS
  <2>4. Base64!dec_val(43) = 62
    BY <2>3, ZenonT(60) DEF Base64!dec_val
  <2> QED
    BY <1>4, <2>2, <2>4
<1>5. CASE v = 63
  <2>1. ~(63 < 26) /\ 63 \notin 26 .. 51 /\ 63 \notin 52 .. 61 /\ 63 # 62
    OBVIOUS
  <2>2. Base64!kEnc(63) = 47
    BY <2>1, ZenonT(60) DEF Base64!kEnc
  <2>3. 47 \notin 65 .. 90 /\ 47 \notin 97 .. 122 /\ 47 \notin 48 .. 57 /\ 47 # 43
    OBVIOUS
  <2>4. Base64!dec_val(47) = 63
    BY <2>3, ZenonT(60) DEF Base64!dec_val
  <2> QED
    BY <1>5, <2>2, <2>4
<1>6. v < 26 \/ v \in 26 .. 51 \/ v \in 52 .. 61 \/ v = 62 \/ v = 63
  OBVIOUS
<1> QED
  BY <1>1, <1>2, <1>3, <1>4, <1>5, <1>6

\* The number that a group of three bytes is, and the values of its characters.
Number24(a, b, c) == a * 65536 + b * 256 + c

Bytes == 0 .. 255

\* The values of the four characters of the group that is the number n.
Digit(n) == <<n \div 262144, (n \div 4096) % 64, (n \div 64) % 64, n % 64>>

Sum24(v) == v[1] * 262144 + v[2] * 4096 + v[3] * 64 + v[4]

Bytes24(n, x, y, z) == n \div 65536 = x /\ (n \div 256) % 256 = y /\ n % 256 = z

\* n is made of three bytes: its digits make it again, and it makes the bytes.
Makes24(n, x, y, z) ==
  /\ n = Number24(x, y, z)
  /\ \A k \in 1 .. 4 : Digit(n)[k] \in 0 .. 63
  /\ Sum24(Digit(n)) = n
  /\ Bytes24(n, x, y, z)
  /\ z = 0 => Digit(n)[4] = 0
  /\ y = 0 /\ z = 0 => Digit(n)[3] = 0

LEMMA ValuesOfGroup ==
  ASSUME NEW x \in Bytes, NEW y \in Bytes, NEW z \in Bytes
  PROVE  \E n : Makes24(n, x, y, z)
<1>0. PICK n : n = Number24(x, y, z)
  OBVIOUS
<1>1. n = x * 65536 + y * 256 + z /\ n \in Nat /\ n < 16777216
  BY <1>0, SMT DEF Number24, Bytes
<1>2. PICK a1 \in 0 .. 63, a0 \in 0 .. 3 : x = 4 * a1 + a0
  <2>1. x \div 4 \in 0 .. 63 /\ x % 4 \in 0 .. 3 /\ x = 4 * (x \div 4) + (x % 4)
    BY DEF Bytes
  <2> QED
    BY <2>1
<1>3. PICK b1 \in 0 .. 15, b0 \in 0 .. 15 : y = 16 * b1 + b0
  <2>1. y \div 16 \in 0 .. 15 /\ y % 16 \in 0 .. 15 /\ y = 16 * (y \div 16) + (y % 16)
    BY DEF Bytes
  <2> QED
    BY <2>1
<1>4. PICK c1 \in 0 .. 3, c0 \in 0 .. 63 : z = 64 * c1 + c0
  <2>1. z \div 64 \in 0 .. 3 /\ z % 64 \in 0 .. 63 /\ z = 64 * (z \div 64) + (z % 64)
    BY DEF Bytes
  <2> QED
    BY <2>1
<1>5. n = 262144 * a1 + 65536 * a0 + 4096 * b1 + 256 * b0 + 64 * c1 + c0
  BY <1>1, <1>2, <1>3, <1>4, SMT
<1>6. n \div 262144 = a1
  BY <1>5, SMT
<1>7. n \div 4096 = 64 * a1 + 16 * a0 + b1
  BY <1>5, SMT
<1>8. (n \div 4096) % 64 = 16 * a0 + b1
  BY <1>7, SMT
<1>9. n \div 64 = 4096 * a1 + 1024 * a0 + 64 * b1 + 4 * b0 + c1
  BY <1>5, SMT
<1>10. (n \div 64) % 64 = 4 * b0 + c1
  BY <1>9, SMT
<1>11. n % 64 = c0
  BY <1>5, SMT
<1>12. n \div 65536 = x
  BY <1>1, SMT DEF Bytes
<1>13. n \div 256 = 256 * x + y
  BY <1>1, SMT DEF Bytes
<1>14. (n \div 256) % 256 = y
  BY <1>13, SMT DEF Bytes
<1>15. n % 256 = z
  BY <1>1, SMT DEF Bytes
<1>16. (n \div 262144) * 262144 + ((n \div 4096) % 64) * 4096
         + ((n \div 64) % 64) * 64 + (n % 64) = n
  BY <1>5, <1>6, <1>8, <1>10, <1>11, SMT
<1>17. z = 0 => n % 64 = 0
  BY <1>1, <1>15, SMT
<1>18. y = 0 /\ z = 0 => (n \div 64) % 64 = 0
  BY <1>3, <1>4, <1>10, SMT
<1>19. \A k \in 1 .. 4 : Digit(n)[k] \in 0 .. 63
  BY <1>1, <1>2, <1>3, <1>4, <1>6, <1>8, <1>10, <1>11, SMT DEF Digit
<1>20. Sum24(Digit(n)) = n
  BY <1>16, SMT DEF Sum24, Digit
<1>21. (z = 0 => Digit(n)[4] = 0) /\ (y = 0 /\ z = 0 => Digit(n)[3] = 0)
  BY <1>17, <1>18, SMT DEF Digit
<1>22. Makes24(n, x, y, z)
  BY <1>0, <1>12, <1>14, <1>15, <1>19, <1>20, <1>21, SMT DEF Makes24, Bytes24
<1> QED
  BY <1>22

\* The bytes of a group of values that make the number n.
BytesOf(x, y, z, p) ==
  <<x>> \o (IF p < 2 THEN <<y>> ELSE <<>>) \o (IF p < 1 THEN <<z>> ELSE <<>>)

LEMMA BytesOfValues ==
  ASSUME NEW n, NEW x, NEW y, NEW z, NEW p, Makes24(n, x, y, z)
  PROVE  Base64!GroupBytes(Digit(n), p) = BytesOf(x, y, z, p)
<1>1. PICK v : v = Digit(n)
  OBVIOUS
<1>2. Sum24(v) = n /\ n \div 65536 = x /\ (n \div 256) % 256 = y /\ n % 256 = z
  BY <1>1, SMT DEF Makes24, Bytes24
<1>3. Base64!GroupBytes(v, p) =
        BytesOf(Sum24(v) \div 65536, (Sum24(v) \div 256) % 256, Sum24(v) % 256, p)
  BY SMT DEF Base64!GroupBytes, Sum24, BytesOf
<1> QED
  BY <1>1, <1>2, <1>3, SMT

\* How many of the three bytes from in[i + 1] on are missing.
Missing(b, i) == IF i + 3 <= Len(b) THEN 0 ELSE IF i + 2 <= Len(b) THEN 1 ELSE 2

PartBytes(b, i) == SubSeq(b, i + 1, i + 3 - Missing(b, i))

ByteAt(b, i) == IF i <= Len(b) THEN b[i] ELSE 0

LEMMA ByteAtType ==
  ASSUME NEW b \in Seq(Bytes), NEW i \in Nat, NEW k \in 1 .. 3
  PROVE  ByteAt(b, i + k) \in Bytes
<1>1. CASE i + k <= Len(b)
  BY <1>1 DEF ByteAt
<1>2. CASE ~(i + k <= Len(b))
  BY <1>2 DEF ByteAt, Bytes
<1> QED
  BY <1>1, <1>2

\* Tuples, element by element.
InARow(w, x, y, z) ==
  /\ Append(<<>>, w) = <<w>> /\ Append(<<w>>, x) = <<w, x>>
  /\ Append(<<w, x>>, y) = <<w, x, y>> /\ Append(<<w, x, y>>, z) = <<w, x, y, z>>
  /\ Len(<<w>>) = 1 /\ Len(<<w, x>>) = 2 /\ Len(<<w, x, y>>) = 3
  /\ Len(<<w, x, y, z>>) = 4

LEMMA FourInARow ==
  ASSUME NEW w \in Nat, NEW x \in Nat, NEW y \in Nat, NEW z \in Nat
  PROVE  InARow(w, x, y, z)
<1>1. <<w>> \in Seq(Nat) /\ <<w, x>> \in Seq(Nat) /\ <<w, x, y>> \in Seq(Nat)
  OBVIOUS
<1>2. Append(<<w>>, x) = <<w, x>>
  <2>1. PICK s : s = Append(<<w>>, x)
    OBVIOUS
  <2>2. s = [k \in 1 .. 2 |-> s[k]] /\ s[1] = w /\ s[2] = x
    BY <1>1, <2>1
  <2>3. s = <<s[1], s[2]>>
    BY <2>2
  <2> QED
    BY <2>1, <2>2, <2>3, Zenon
<1>3. Append(<<w, x>>, y) = <<w, x, y>>
  <2>1. PICK s : s = Append(<<w, x>>, y)
    OBVIOUS
  <2>2. s = [k \in 1 .. 3 |-> s[k]] /\ s[1] = w /\ s[2] = x /\ s[3] = y
    BY <1>1, <2>1
  <2>3. s = <<s[1], s[2], s[3]>>
    BY <2>2
  <2> QED
    BY <2>1, <2>2, <2>3, Zenon
<1>4. Append(<<w, x, y>>, z) = <<w, x, y, z>>
  <2>1. PICK s : s = Append(<<w, x, y>>, z)
    OBVIOUS
  <2>2. s = [k \in 1 .. 4 |-> s[k]] /\ s[1] = w /\ s[2] = x /\ s[3] = y /\ s[4] = z
    BY <1>1, <2>1
  <2>3. s = <<s[1], s[2], s[3], s[4]>>
    BY <2>2
  <2> QED
    BY <2>1, <2>2, <2>3, Zenon
<1>5. Append(<<>>, w) = <<w>>
  OBVIOUS
<1>6. Len(<<w>>) = 1 /\ Len(<<w, x>>) = 2 /\ Len(<<w, x, y>>) = 3 /\ Len(<<w, x, y, z>>) = 4
  OBVIOUS
<1> QED
  BY <1>2, <1>3, <1>4, <1>5, <1>6, Zenon DEF InARow

LEMMA BytesSideBySide ==
  ASSUME NEW x \in Bytes, NEW y \in Bytes, NEW z \in Bytes
  PROVE  <<x>> \o <<y>> \o <<z>> = <<x, y, z>> /\ <<x>> \o <<y>> \o <<>> = <<x, y>>
<1>1. <<x>> \in Seq(Bytes) /\ <<x, y>> \in Seq(Bytes)
  OBVIOUS
<1>2. x \in Nat /\ y \in Nat /\ z \in Nat
  BY DEF Bytes
<1>3. Append(<<x>>, y) = <<x, y>> /\ Append(<<x, y>>, z) = <<x, y, z>>
  <2>1. InARow(x, y, z, z)
    BY <1>2, FourInARow, Zenon
  <2> QED
    BY <2>1, Zenon DEF InARow
<1>4. <<x>> \o <<y>> = <<x, y>>
  BY <1>1, <1>3, AppendIsConcat
<1>5. <<x, y>> \o <<z>> = <<x, y, z>>
  BY <1>1, <1>3, AppendIsConcat
<1>6. <<x, y>> \o <<>> = <<x, y>>
  BY <1>1
<1> QED
  BY <1>4, <1>5, <1>6, Zenon

\* The bytes that are there are those of the group without the missing ones.
LEMMA BytesOfPart ==
  ASSUME NEW b \in Seq(Bytes), NEW i \in Nat, i < Len(b)
  PROVE  BytesOf(ByteAt(b, i + 1), ByteAt(b, i + 2), ByteAt(b, i + 3), Missing(b, i))
           = PartBytes(b, i)
<1>0. PICK l \in Nat : l = Len(b)
  OBVIOUS
<1>1. PICK x, y, z : x = ByteAt(b, i + 1) /\ y = ByteAt(b, i + 2) /\ z = ByteAt(b, i + 3)
  OBVIOUS
<1>2. PICK m \in 0 .. 2 : m = Missing(b, i)
  BY DEF Missing
<1>6. x \in Bytes /\ y \in Bytes /\ z \in Bytes
  BY <1>1, ByteAtType
<1>3. CASE m = 0
  <2>1. i + 3 <= l
    BY <1>0, <1>2, <1>3 DEF Missing
  <2>2. x = b[i + 1] /\ y = b[i + 2] /\ z = b[i + 3]
    BY <1>0, <1>1, <2>1 DEF ByteAt
  <2>3. PICK t : t = SubSeq(b, i + 1, i + 3)
    OBVIOUS
  <2>4. t = [k \in 1 .. 3 |-> b[i + 1 + k - 1]]
    BY <1>0, <2>1, <2>3
  <2>5. t = <<b[i + 1], b[i + 2], b[i + 3]>>
    BY <2>4
  <2>6. BytesOf(x, y, z, 0) = <<x, y, z>>
    BY <1>6, BytesSideBySide DEF BytesOf
  <2>7. PartBytes(b, i) = t
    BY <1>2, <1>3, <2>3 DEF PartBytes
  <2> QED
    BY <1>1, <1>2, <1>3, <2>2, <2>5, <2>6, <2>7, Zenon
<1>4. CASE m = 1
  <2>1. i + 2 = l
    BY <1>0, <1>2, <1>4 DEF Missing
  <2>2. x = b[i + 1] /\ y = b[i + 2]
    BY <1>0, <1>1, <2>1 DEF ByteAt
  <2>3. PICK t : t = SubSeq(b, i + 1, i + 2)
    OBVIOUS
  <2>4. t = [k \in 1 .. 2 |-> b[i + 1 + k - 1]]
    BY <1>0, <2>1, <2>3
  <2>5. t = <<b[i + 1], b[i + 2]>>
    BY <2>4
  <2>6. BytesOf(x, y, z, 1) = <<x, y>>
    BY <1>6, BytesSideBySide DEF BytesOf
  <2>7. PartBytes(b, i) = t
    BY <1>2, <1>4, <2>3 DEF PartBytes
  <2> QED
    BY <1>1, <1>2, <1>4, <2>2, <2>5, <2>6, <2>7, Zenon
<1>5. CASE m = 2
  <2>1. i + 1 = l
    BY <1>0, <1>2, <1>5 DEF Missing
  <2>2. x = b[i + 1]
    BY <1>0, <1>1, <2>1 DEF ByteAt
  <2>3. PICK t : t = SubSeq(b, i + 1, i + 1)
    OBVIOUS
  <2>4. t = [k \in 1 .. 1 |-> b[i + 1 + k - 1]]
    BY <1>0, <2>1, <2>3
  <2>5. t = <<b[i + 1]>>
    BY <2>4
  <2>6. BytesOf(x, y, z, 2) = <<x>>
    BY DEF BytesOf
  <2>7. PartBytes(b, i) = t
    BY <1>2, <1>5, <2>3 DEF PartBytes
  <2> QED
    BY <1>1, <1>2, <1>5, <2>2, <2>5, <2>6, <2>7, Zenon
<1> QED
  BY <1>3, <1>4, <1>5

\* The character c stands for the value v, and p says whether it is a pad.
Stands(c, v, p) ==
  \/ p = 0 /\ v \in 0 .. 63 /\ c = Base64!kEnc(v)
  \/ p = 1 /\ v = 0 /\ c = Base64!PadChar

\* The characters of a group stand for values that make its bytes.
GroupOf(b, i, v) ==
  LET c == Base64!Quad(b, i)
      m == Missing(b, i)
  IN  /\ Stands(c[1], v[1], 0) /\ Stands(c[2], v[2], 0)
      /\ Stands(c[3], v[3], IF m = 2 THEN 1 ELSE 0)
      /\ Stands(c[4], v[4], IF m = 0 THEN 0 ELSE 1)
      /\ Base64!GroupBytes(v, m) = PartBytes(b, i)

LEMMA GroupComesBack ==
  ASSUME NEW b \in Seq(Bytes), NEW i \in Nat, i < Len(b)
  PROVE  \E v1, v2, v3, v4 : GroupOf(b, i, <<v1, v2, v3, v4>>)
<1>0. PICK l \in Nat : l = Len(b)
  OBVIOUS
<1>1. PICK x, y, z : x = ByteAt(b, i + 1) /\ y = ByteAt(b, i + 2) /\ z = ByteAt(b, i + 3)
  OBVIOUS
<1>2. x \in Bytes /\ y \in Bytes /\ z \in Bytes
  BY <1>1, ByteAtType
<1>3. PICK n : Makes24(n, x, y, z)
  BY <1>2, ValuesOfGroup
<1>4. PICK c : c = Base64!Quad(b, i)
  OBVIOUS
<1>5. /\ c[1] = Base64!kEnc(Digit(n)[1]) /\ c[2] = Base64!kEnc(Digit(n)[2])
      /\ c[3] = IF i + 2 <= Len(b) THEN Base64!kEnc(Digit(n)[3]) ELSE Base64!PadChar
      /\ c[4] = IF i + 3 <= Len(b) THEN Base64!kEnc(Digit(n)[4]) ELSE Base64!PadChar
  <2>1. n = ByteAt(b, i + 1) * 65536 + ByteAt(b, i + 2) * 256 + ByteAt(b, i + 3)
    BY <1>1, <1>3, SMT DEF Makes24, Number24
  <2> QED
    BY <1>4, <2>1, SMT DEF Base64!Quad, Digit, ByteAt
<1>7. PICK v, v1, v2, v3, v4 : v = Digit(n) /\ v = <<v1, v2, v3, v4>>
  <2>1. PICK v1, v2, v3, v4 : /\ v1 = n \div 262144 /\ v2 = (n \div 4096) % 64
                              /\ v3 = (n \div 64) % 64 /\ v4 = n % 64
    BY SMT
  <2>2. Digit(n) = <<v1, v2, v3, v4>>
    BY <2>1, SMT DEF Digit
  <2> QED
    BY <2>2, Zenon
<1>6. v1 = Digit(n)[1] /\ v2 = Digit(n)[2] /\ v3 = Digit(n)[3] /\ v4 = Digit(n)[4]
  BY <1>7, SMT
<1>8. PICK m \in 0 .. 2 : m = Missing(b, i)
  BY DEF Missing
<1>9. v1 \in 0 .. 63 /\ v2 \in 0 .. 63 /\ v3 \in 0 .. 63 /\ v4 \in 0 .. 63
  <2>1. \A k \in 1 .. 4 : Digit(n)[k] \in 0 .. 63
    BY <1>3, Zenon DEF Makes24
  <2> QED
    BY <1>6, <2>1, SMT
<1>10. (z = 0 => v4 = 0) /\ (y = 0 /\ z = 0 => v3 = 0)
  BY <1>3, <1>6, SMT DEF Makes24
<1>11. Stands(c[1], v1, 0) /\ Stands(c[2], v2, 0)
  BY <1>5, <1>6, <1>9, Zenon DEF Stands
<1>12. Stands(c[3], v3, IF m = 2 THEN 1 ELSE 0)
  <2>1. CASE m = 2
    <3>1. ~(i + 2 <= Len(b)) /\ ~(i + 3 <= Len(b))
      BY <1>0, <1>8, <2>1 DEF Missing
    <3>2. y = 0 /\ z = 0
      BY <1>1, <3>1, Zenon DEF ByteAt
    <3> QED
      BY <1>5, <1>10, <2>1, <3>1, <3>2, Zenon DEF Stands
  <2>2. CASE m # 2
    <3>1. i + 2 <= Len(b)
      BY <1>0, <1>8, <2>2 DEF Missing
    <3> QED
      BY <1>5, <1>6, <1>9, <2>2, <3>1, Zenon DEF Stands
  <2> QED
    BY <2>1, <2>2
<1>13. Stands(c[4], v4, IF m = 0 THEN 0 ELSE 1)
  <2>1. CASE m # 0
    <3>1. ~(i + 3 <= Len(b))
      BY <1>0, <1>8, <2>1 DEF Missing
    <3>2. z = 0
      BY <1>1, <3>1, Zenon DEF ByteAt
    <3> QED
      BY <1>5, <1>10, <2>1, <3>1, <3>2, Zenon DEF Stands
  <2>2. CASE m = 0
    <3>1. i + 3 <= Len(b)
      BY <1>0, <1>8, <2>2 DEF Missing
    <3> QED
      BY <1>5, <1>6, <1>9, <2>2, <3>1, Zenon DEF Stands
  <2> QED
    BY <2>1, <2>2
<1>14. Base64!GroupBytes(v, m) = PartBytes(b, i)
  <2>1. Base64!GroupBytes(v, m) = BytesOf(x, y, z, m)
    <3>1. Base64!GroupBytes(Digit(n), m) = BytesOf(x, y, z, m)
      BY <1>3, BytesOfValues
    <3> QED
      BY <1>7, <3>1
  <2>2. BytesOf(x, y, z, m) = PartBytes(b, i)
    BY <1>1, <1>8, BytesOfPart, Zenon
  <2> QED
    BY <2>1, <2>2
<1>15. v[1] = v1 /\ v[2] = v2 /\ v[3] = v3 /\ v[4] = v4
  BY <1>7, SMT
<1>16. GroupOf(b, i, v)
  BY <1>4, <1>8, <1>11, <1>12, <1>13, <1>14, <1>15, Zenon DEF GroupOf
<1> QED
  BY <1>7, <1>16, Zenon

-----------------------------------------------------------------------------
(* base64: what reading a group does *)

\* A decoder that has not failed.
St(val, pad, out) == [failed |-> FALSE, val |-> val, pad |-> pad, out |-> out]

LEMMA CharacterStands ==
  ASSUME NEW c, NEW v, NEW p, Stands(c, v, p)
  PROVE  /\ c \notin Base64!Blanks /\ v \in Nat /\ p \in {0, 1}
         /\ (c = Base64!PadChar) <=> (p = 1)
         /\ (IF c = Base64!PadChar THEN 0 ELSE Base64!dec_val(c)) = v
<1>1. CASE p = 0 /\ v \in 0 .. 63 /\ c = Base64!kEnc(v)
  <2>1. /\ c # Base64!PadChar /\ c \notin Base64!Blanks /\ Base64!dec_val(c) = v
    BY <1>1, CharacterOfValue
  <2> QED
    BY <1>1, <2>1
<1>2. CASE p = 1 /\ v = 0 /\ c = Base64!PadChar
  BY <1>2 DEF Base64!PadChar, Base64!Blanks
<1> QED
  BY <1>1, <1>2 DEF Stands

\* A character makes the group one value longer; the fourth ends it.
Reads(val, pad, out, c, v, p, cap, st) ==
  /\ val \in Seq(Nat) /\ pad \in Nat /\ Stands(c, v, p)
  /\ st = Base64!Decode1(St(val, pad, out), c, cap)

HasRead(new, pad, out, cap, st) ==
  /\ Len(new) < 4 => st = St(new, pad, out)
  /\ ~(Len(new) < 4) /\ ~Base64!NoRoom(Len(out), pad, cap)
       => st = St(<<>>, 0, out \o Base64!GroupBytes(new, pad))
  /\ ~(Len(new) < 4) /\ Base64!NoRoom(Len(out), pad, cap) => st.failed

LEMMA CharacterIsRead ==
  ASSUME NEW val, NEW pad, NEW out, NEW c, NEW v, NEW p, NEW cap, NEW st,
         Reads(val, pad, out, c, v, p, cap, st)
  PROVE  HasRead(Append(val, v), pad + p, out, cap, st)
<1>0. PICK new : new = Append(val, v)
  OBVIOUS
<1>1. PICK s : s = St(val, pad, out)
  OBVIOUS
<1>11. /\ val \in Seq(Nat) /\ pad \in Nat /\ Stands(c, v, p)
       /\ st = Base64!Decode1(s, c, cap)
  BY <1>1, Zenon DEF Reads
<1>2. /\ s.failed = FALSE /\ s.val = val /\ s.pad = pad /\ s.out = out
  BY <1>1, Zenon DEF St
<1>3. /\ c \notin Base64!Blanks /\ v \in Nat /\ p \in {0, 1}
      /\ (c = Base64!PadChar) <=> (p = 1)
      /\ (IF c = Base64!PadChar THEN 0 ELSE Base64!dec_val(c)) = v
  BY <1>11, CharacterStands, Zenon
<1>4. (IF c = Base64!PadChar THEN s.pad + 1 ELSE s.pad) = pad + p
  BY <1>2, <1>3, <1>11
<1>5. ~(v < 0)
  BY <1>3
<1>6. st = IF s.failed \/ Base64!Skipped(s, c) THEN s
           ELSE IF v < 0 THEN [s EXCEPT !.failed = TRUE]
           ELSE IF Len(new) < 4 THEN [s EXCEPT !.val = new, !.pad = pad + p]
           ELSE IF Base64!NoRoom(Len(s.out), pad + p, cap) THEN [s EXCEPT !.failed = TRUE]
           ELSE [s EXCEPT !.val = <<>>, !.pad = 0,
                          !.out = @ \o Base64!GroupBytes(new, pad + p)]
  BY <1>0, <1>2, <1>3, <1>4, <1>11, Zenon DEF Base64!Decode1
<1>7. ~s.failed /\ ~Base64!Skipped(s, c)
  BY <1>2, <1>3, Zenon DEF Base64!Skipped
<1>8. CASE Len(new) < 4
  <2>1. st = [s EXCEPT !.val = new, !.pad = pad + p]
    BY <1>5, <1>6, <1>7, <1>8, Zenon
  <2>2. st = St(new, pad + p, out)
    BY <1>1, <2>1 DEF St
  <2> QED
    BY <1>0, <1>8, <2>2, Zenon DEF HasRead
<1>9. CASE ~(Len(new) < 4) /\ ~Base64!NoRoom(Len(out), pad + p, cap)
  <2>1. st = [s EXCEPT !.val = <<>>, !.pad = 0,
                       !.out = @ \o Base64!GroupBytes(new, pad + p)]
    BY <1>2, <1>5, <1>6, <1>7, <1>9, Zenon
  <2>2. st = St(<<>>, 0, out \o Base64!GroupBytes(new, pad + p))
    BY <1>1, <2>1 DEF St
  <2> QED
    BY <1>0, <1>9, <2>2, Zenon DEF HasRead
<1>10. CASE ~(Len(new) < 4) /\ Base64!NoRoom(Len(out), pad + p, cap)
  <2>1. st = [s EXCEPT !.failed = TRUE]
    BY <1>2, <1>5, <1>6, <1>7, <1>10, Zenon
  <2>2. st.failed
    BY <1>1, <2>1 DEF St
  <2> QED
    BY <1>0, <1>10, <2>2, Zenon DEF HasRead
<1> QED
  BY <1>8, <1>9, <1>10, Zenon

\* What failed stays so, and a blank changes nothing.
LEMMA NothingIsRead ==
  ASSUME NEW st, NEW c, NEW cap
  PROVE  /\ st.failed => Base64!Decode1(st, c, cap) = st
         /\ Base64!Decode1(st, 32, cap) = st
<1>1. 32 \in Base64!Blanks
  BY DEF Base64!Blanks
<1> QED
  BY <1>1, Zenon DEF Base64!Decode1, Base64!Skipped

\* A group read: its bytes are there, or there is no room for them.
GroupRead(b, i, cap, st) ==
  /\ i + 3 - Missing(b, i) <= cap => st = St(<<>>, 0, SubSeq(b, 1, i + 3 - Missing(b, i)))
  /\ ~(i + 3 - Missing(b, i) <= cap) => st.failed

LEMMA GroupIsRead ==
  ASSUME NEW b \in Seq(Bytes), NEW i \in Nat, i < Len(b), NEW cap \in Nat,
         NEW s0, NEW s1, NEW s2, NEW s3, NEW s4,
         s0 = St(<<>>, 0, SubSeq(b, 1, i)),
         s1 = Base64!Decode1(s0, Base64!Quad(b, i)[1], cap),
         s2 = Base64!Decode1(s1, Base64!Quad(b, i)[2], cap),
         s3 = Base64!Decode1(s2, Base64!Quad(b, i)[3], cap),
         s4 = Base64!Decode1(s3, Base64!Quad(b, i)[4], cap)
  PROVE  GroupRead(b, i, cap, s4)
<1>1. PICK v1, v2, v3, v4 : GroupOf(b, i, <<v1, v2, v3, v4>>)
  BY GroupComesBack
<1>2. PICK c : c = Base64!Quad(b, i)
  OBVIOUS
<1>3. PICK m \in 0 .. 2 : m = Missing(b, i)
  BY DEF Missing
<1>4. PICK p3 \in Nat, p4 \in Nat :
        /\ p3 = (IF m = 2 THEN 1 ELSE 0) /\ p4 = (IF m = 0 THEN 0 ELSE 1) /\ p3 + p4 = m
  <2>1. m = 0 \/ m = 1 \/ m = 2
    OBVIOUS
  <2> QED
    BY <2>1
<1>5. PICK v : v = <<v1, v2, v3, v4>>
  OBVIOUS
<1>6. v[1] = v1 /\ v[2] = v2 /\ v[3] = v3 /\ v[4] = v4
  BY <1>5
<1>7. /\ Stands(c[1], v1, 0) /\ Stands(c[2], v2, 0) /\ Stands(c[3], v3, p3)
      /\ Stands(c[4], v4, p4) /\ Base64!GroupBytes(v, m) = PartBytes(b, i)
  BY <1>1, <1>2, <1>3, <1>4, <1>5, <1>6, Zenon DEF GroupOf
<1>8. v1 \in Nat /\ v2 \in Nat /\ v3 \in Nat /\ v4 \in Nat
  BY <1>7, CharacterStands, Zenon
<1>9. PICK out : out = SubSeq(b, 1, i)
  OBVIOUS
<1>10. out \in Seq(Bytes) /\ Len(out) = i
  BY <1>9
<1>11. /\ <<v1>> \in Seq(Nat) /\ <<v1, v2>> \in Seq(Nat) /\ <<v1, v2, v3>> \in Seq(Nat)
       /\ <<>> \in Seq(Nat)
  BY <1>8
<1>12. /\ Append(<<>>, v1) = <<v1>> /\ Append(<<v1>>, v2) = <<v1, v2>>
       /\ Append(<<v1, v2>>, v3) = <<v1, v2, v3>> /\ Append(<<v1, v2, v3>>, v4) = v
       /\ Len(<<v1>>) < 4 /\ Len(<<v1, v2>>) < 4 /\ Len(<<v1, v2, v3>>) < 4 /\ ~(Len(v) < 4)
  <2>1. /\ Append(<<>>, v1) = <<v1>> /\ Append(<<v1>>, v2) = <<v1, v2>>
        /\ Append(<<v1, v2>>, v3) = <<v1, v2, v3>> /\ Append(<<v1, v2, v3>>, v4) = v
        /\ Len(<<v1>>) = 1 /\ Len(<<v1, v2>>) = 2 /\ Len(<<v1, v2, v3>>) = 3 /\ Len(v) = 4
    <3>1. InARow(v1, v2, v3, v4)
      BY <1>8, FourInARow, Zenon
    <3> QED
      BY <1>5, <3>1, Zenon DEF InARow
  <2>2. 1 < 4 /\ 2 < 4 /\ 3 < 4 /\ ~(4 < 4)
    OBVIOUS
  <2> QED
    BY <2>1, <2>2, Zenon
<1>13. 0 \in Nat /\ 0 + 0 = 0 /\ 0 + p3 = p3
  BY <1>4
<1>14. s1 = St(<<v1>>, 0, out)
  <2>1. s1 = Base64!Decode1(St(<<>>, 0, out), c[1], cap)
    BY <1>2, <1>9, Zenon
  <2>2. Reads(<<>>, 0, out, c[1], v1, 0, cap, s1)
    BY <1>7, <1>11, <1>13, <2>1, Zenon DEF Reads
  <2>3. HasRead(Append(<<>>, v1), 0 + 0, out, cap, s1)
    BY <2>2, CharacterIsRead, Zenon
  <2> QED
    BY <1>12, <1>13, <2>3, Zenon DEF HasRead
<1>15. s2 = St(<<v1, v2>>, 0, out)
  <2>1. s2 = Base64!Decode1(St(<<v1>>, 0, out), c[2], cap)
    BY <1>2, <1>14, Zenon
  <2>2. Reads(<<v1>>, 0, out, c[2], v2, 0, cap, s2)
    BY <1>7, <1>11, <1>13, <2>1, Zenon DEF Reads
  <2>3. HasRead(Append(<<v1>>, v2), 0 + 0, out, cap, s2)
    BY <2>2, CharacterIsRead, Zenon
  <2> QED
    BY <1>12, <1>13, <2>3, Zenon DEF HasRead
<1>16. s3 = St(<<v1, v2, v3>>, p3, out)
  <2>1. s3 = Base64!Decode1(St(<<v1, v2>>, 0, out), c[3], cap)
    BY <1>2, <1>15, Zenon
  <2>2. Reads(<<v1, v2>>, 0, out, c[3], v3, p3, cap, s3)
    BY <1>7, <1>11, <1>13, <2>1, Zenon DEF Reads
  <2>3. HasRead(Append(<<v1, v2>>, v3), 0 + p3, out, cap, s3)
    BY <2>2, CharacterIsRead, Zenon
  <2> QED
    BY <1>12, <1>13, <2>3, Zenon DEF HasRead
<1>17. /\ ~Base64!NoRoom(i, m, cap) => s4 = St(<<>>, 0, out \o Base64!GroupBytes(v, m))
       /\ Base64!NoRoom(i, m, cap) => s4.failed
  <2>1. s4 = Base64!Decode1(St(<<v1, v2, v3>>, p3, out), c[4], cap)
    BY <1>2, <1>16, Zenon
  <2>2. Reads(<<v1, v2, v3>>, p3, out, c[4], v4, p4, cap, s4)
    BY <1>4, <1>7, <1>11, <2>1, Zenon DEF Reads
  <2>3. HasRead(Append(<<v1, v2, v3>>, v4), p3 + p4, out, cap, s4)
    BY <2>2, CharacterIsRead, Zenon
  <2>4. HasRead(v, m, out, cap, s4)
    BY <1>4, <1>12, <2>3, Zenon
  <2> QED
    BY <1>10, <1>12, <2>4, Zenon DEF HasRead
<1>18. Base64!NoRoom(i, m, cap) <=> ~(i + 3 - m <= cap)
  BY <1>3 DEF Base64!NoRoom
<1>19. out \o PartBytes(b, i) = SubSeq(b, 1, i + 3 - m)
  <2>1. i + 3 - m \in i + 1 .. Len(b)
    BY <1>3 DEF Missing
  <2>2. PICK e \in Nat : e = i + 3 - m /\ i < e /\ e <= Len(b)
    BY <2>1
  <2>3. SubSeq(b, 1, i) \o SubSeq(b, i + 1, e) = SubSeq(b, 1, e)
    BY <2>2
  <2> QED
    BY <1>3, <1>9, <2>2, <2>3 DEF PartBytes
<1> QED
  BY <1>3, <1>7, <1>17, <1>18, <1>19, Zenon DEF GroupRead

-----------------------------------------------------------------------------
(* base64: from group to group *)

GroupCount(b) == (Len(b) + 2) \div 3

\* Where each character comes from.
Spells(e, b, G) ==
  /\ G \in Nat /\ Len(b) \in Nat /\ 3 * G >= Len(b) /\ 3 * G < Len(b) + 3
  /\ e \in Seq(Nat) /\ Len(e) = 4 * G
  /\ \A q \in 0 .. G - 1 : \A j \in 1 .. 4 : e[4 * q + j] = Base64!Quad(b, 3 * q)[j]

LEMMA CharactersOfGroups ==
  ASSUME NEW b \in Seq(Bytes)
  PROVE  Spells(Base64!Characters(b), b, GroupCount(b))
<1>6. PICK e, G : e = Base64!Characters(b) /\ G = GroupCount(b)
  OBVIOUS
<1>1. G \in Nat /\ Len(b) \in Nat /\ 3 * G >= Len(b) /\ 3 * G < Len(b) + 3
  BY <1>6 DEF GroupCount
<1>2. e = [k \in 1 .. 4 * G |->
             Base64!Quad(b, 3 * ((k - 1) \div 4))[((k - 1) % 4) + 1]]
  BY <1>6, Zenon DEF Base64!Characters, GroupCount
<1>3. ASSUME NEW q \in 0 .. G - 1, NEW j \in 1 .. 4
      PROVE  e[4 * q + j] = Base64!Quad(b, 3 * q)[j]
  <2>1. PICK k \in 1 .. 4 * G : k = 4 * q + j
    BY <1>1
  <2>2. (k - 1) \div 4 = q /\ ((k - 1) % 4) + 1 = j
    BY <1>1, <2>1
  <2>3. e[k] = Base64!Quad(b, 3 * ((k - 1) \div 4))[((k - 1) % 4) + 1]
    BY <1>2, Zenon
  <2> QED
    BY <2>1, <2>2, <2>3, Zenon
<1>4. ASSUME NEW k \in 1 .. 4 * G PROVE e[k] \in Nat
  <2>1. PICK q \in 0 .. G - 1, j \in 1 .. 4 : k = 4 * q + j
    <3>1. (k - 1) \div 4 \in 0 .. G - 1 /\ ((k - 1) % 4) + 1 \in 1 .. 4
          /\ k = 4 * ((k - 1) \div 4) + (((k - 1) % 4) + 1)
      BY <1>1
    <3> QED
      BY <3>1
  <2>2. 3 * q \in Nat /\ 3 * q < Len(b)
    BY <1>1
  <2>3. PICK v1, v2, v3, v4 : GroupOf(b, 3 * q, <<v1, v2, v3, v4>>)
    BY <2>2, GroupComesBack
  <2>4. PICK v : v = <<v1, v2, v3, v4>>
    OBVIOUS
  <2>5. PICK c : c = Base64!Quad(b, 3 * q)
    OBVIOUS
  <2>6. \E x, p : Stands(c[j], x, p)
    <3>1. j = 1 \/ j = 2 \/ j = 3 \/ j = 4
      OBVIOUS
    <3>2. /\ \E x, p : Stands(c[1], x, p)
          /\ \E x, p : Stands(c[2], x, p)
          /\ \E x, p : Stands(c[3], x, p)
          /\ \E x, p : Stands(c[4], x, p)
      BY <2>3, <2>4, <2>5, Zenon DEF GroupOf
    <3> QED
      BY <3>1, <3>2
  <2>7. PICK x, p : Stands(c[j], x, p)
    BY <2>6
  <2>8. c[j] \in Nat
    <3>1. CASE x \in 0 .. 63 /\ c[j] = Base64!kEnc(x)
      BY <3>1, CharacterOfValue
    <3>2. CASE c[j] = Base64!PadChar
      BY <3>2 DEF Base64!PadChar
    <3> QED
      BY <2>7, <3>1, <3>2, Zenon DEF Stands
  <2> QED
    BY <1>3, <2>1, <2>5, <2>8, Zenon
<1>5. e \in Seq(Nat) /\ Len(e) = 4 * G
  <2>1. 4 * G \in Nat
    BY <1>1
  <2> QED
    BY <1>2, <1>4, <2>1
<1> QED
  BY <1>1, <1>3, <1>5, <1>6, Zenon DEF Spells

\* The states of a decoder that reads t.
Run(t, cap, g) ==
  /\ g[0] = Base64!Start
  /\ \A k \in 1 .. Len(t) : g[k] = Base64!Decode1(g[k - 1], t[k], cap)

Position(b, q) == IF 3 * q <= Len(b) THEN 3 * q ELSE Len(b)

\* The decoder after so many groups.
AfterGroups(b, cap, q, st) ==
  /\ Position(b, q) <= cap => st = St(<<>>, 0, SubSeq(b, 1, Position(b, q)))
  /\ ~(Position(b, q) <= cap) => st.failed

LEMMA NextGroup ==
  ASSUME NEW b \in Seq(Bytes), NEW cap \in Nat, NEW h, Run(Base64!Characters(b), cap, h),
         NEW q \in 0 .. GroupCount(b) - 1, AfterGroups(b, cap, q, h[4 * q])
  PROVE  AfterGroups(b, cap, q + 1, h[4 * (q + 1)])
<1>1. PICK e : e = Base64!Characters(b)
  OBVIOUS
<1>2. PICK G : G = GroupCount(b)
  OBVIOUS
<1>3. /\ G \in Nat /\ q \in 0 .. G - 1 /\ Len(b) \in Nat /\ 3 * G >= Len(b) /\ 3 * G < Len(b) + 3 /\ Len(e) = 4 * G
      /\ \A j \in 1 .. 4 : e[4 * q + j] = Base64!Quad(b, 3 * q)[j]
  BY <1>1, <1>2, CharactersOfGroups, Zenon DEF Spells
<1>4. PICK i \in Nat : i = 3 * q /\ i < Len(b)
  <2>0. G \in Nat /\ q \in 0 .. G - 1
    BY <1>3, Zenon
  <2>1. 3 * q \in Nat /\ 3 * q + 3 <= 3 * G
    BY <2>0
  <2>2. 3 * q < Len(b)
    BY <1>3, <2>1
  <2> QED
    BY <2>1, <2>2
<1>5. PICK n \in Nat : n = Len(b)
  BY <1>3
<1>6. Position(b, q) = i
  BY <1>4, <1>5 DEF Position
<1>7. Position(b, q + 1) = i + 3 - Missing(b, i)
  <2>1. 3 * (q + 1) = i + 3
    BY <1>3, <1>4
  <2>2. Position(b, q + 1) = IF i + 3 <= n THEN i + 3 ELSE n
    BY <1>5, <2>1, Zenon DEF Position
  <2>3. Missing(b, i) = IF i + 3 <= n THEN 0 ELSE IF i + 2 <= n THEN 1 ELSE 2
    BY <1>5, Zenon DEF Missing
  <2> QED
    BY <1>4, <1>5, <2>2, <2>3
<1>8. i + 3 - Missing(b, i) \in Nat /\ i + 3 - Missing(b, i) > i
  BY <1>4 DEF Missing
<1>9. ASSUME NEW j \in 1 .. 4
      PROVE  h[4 * q + j] = Base64!Decode1(h[4 * q + j - 1], Base64!Quad(b, i)[j], cap)
  <2>1. PICK k \in 1 .. 4 * G : k = 4 * q + j
    BY <1>3
  <2>2. h[k] = Base64!Decode1(h[k - 1], e[k], cap)
    BY <1>1, <1>3, Zenon DEF Run
  <2>3. e[k] = Base64!Quad(b, i)[j]
    BY <1>3, <1>4, <2>1, Zenon
  <2> QED
    BY <2>1, <2>2, <2>3
<1>10. PICK s0, s1, s2, s3, s4 :
         s0 = h[4 * q] /\ s1 = h[4 * q + 1] /\ s2 = h[4 * q + 2] /\ s3 = h[4 * q + 3]
         /\ s4 = h[4 * q + 4]
  OBVIOUS
<1>11. /\ 4 * q + 1 - 1 = 4 * q /\ 4 * q + 2 - 1 = 4 * q + 1 /\ 4 * q + 3 - 1 = 4 * q + 2
       /\ 4 * q + 4 - 1 = 4 * q + 3 /\ 4 * (q + 1) = 4 * q + 4
       /\ 1 \in 1 .. 4 /\ 2 \in 1 .. 4 /\ 3 \in 1 .. 4 /\ 4 \in 1 .. 4
  BY <1>3
<1>12. /\ s1 = Base64!Decode1(s0, Base64!Quad(b, i)[1], cap)
       /\ s2 = Base64!Decode1(s1, Base64!Quad(b, i)[2], cap)
       /\ s3 = Base64!Decode1(s2, Base64!Quad(b, i)[3], cap)
       /\ s4 = Base64!Decode1(s3, Base64!Quad(b, i)[4], cap)
  BY <1>9, <1>10, <1>11, Zenon
<1>13. CASE i <= cap
  <2>1. s0 = St(<<>>, 0, SubSeq(b, 1, i))
    BY <1>6, <1>10, <1>13, Zenon DEF AfterGroups
  <2>2. GroupRead(b, i, cap, s4)
    BY <1>4, <1>12, <2>1, GroupIsRead
  <2> QED
    BY <1>7, <1>10, <1>11, <2>2, Zenon DEF GroupRead, AfterGroups
<1>14. CASE ~(i <= cap)
  <2>1. s0.failed
    BY <1>6, <1>10, <1>14, Zenon DEF AfterGroups
  <2>2. s1 = s0
    BY <1>12, <2>1, NothingIsRead, Zenon
  <2>3. s2 = s0
    <3>1. s2 = Base64!Decode1(s0, Base64!Quad(b, i)[2], cap)
      BY <1>12, <2>2
    <3> QED
      BY <2>1, <3>1, NothingIsRead, Zenon
  <2>4. s3 = s0
    <3>1. s3 = Base64!Decode1(s0, Base64!Quad(b, i)[3], cap)
      BY <1>12, <2>3
    <3> QED
      BY <2>1, <3>1, NothingIsRead, Zenon
  <2>5. s4 = s0
    <3>1. s4 = Base64!Decode1(s0, Base64!Quad(b, i)[4], cap)
      BY <1>12, <2>4
    <3> QED
      BY <2>1, <3>1, NothingIsRead, Zenon
  <2>6. ~(i + 3 - Missing(b, i) <= cap)
    BY <1>8, <1>14
  <2> QED
    BY <1>7, <1>10, <1>11, <2>1, <2>5, <2>6, Zenon DEF AfterGroups
<1> QED
  BY <1>13, <1>14

\* The decoder at the end of the text.
EndsWith(b, cap, st) ==
  /\ Len(b) <= cap => st = St(<<>>, 0, b)
  /\ ~(Len(b) <= cap) => st.failed

LEMMA RunEnds ==
  ASSUME NEW b \in Seq(Bytes), NEW cap \in Nat, NEW h, Run(Base64!Characters(b), cap, h)
  PROVE  EndsWith(b, cap, h[Len(Base64!Characters(b))])
<1>1. PICK G : G = GroupCount(b)
  OBVIOUS
<1>2. /\ G \in Nat /\ Len(b) \in Nat /\ 3 * G >= Len(b)
      /\ Len(Base64!Characters(b)) = 4 * G
  BY <1>1, CharactersOfGroups, Zenon DEF Spells
<1>3. AfterGroups(b, cap, 0, h[4 * 0])
  <2>1. 4 * 0 = 0 /\ 3 * 0 = 0
    OBVIOUS
  <2>2. Position(b, 0) = 0 /\ 0 <= cap
    BY <1>2, <2>1 DEF Position
  <2>3. SubSeq(b, 1, 0) = <<>>
    OBVIOUS
  <2>4. h[4 * 0] = St(<<>>, 0, <<>>)
    BY <2>1, Zenon DEF Run, Base64!Start, St
  <2> QED
    BY <2>2, <2>3, <2>4, Zenon DEF AfterGroups
<1> DEFINE Wrong == {q \in 0 .. G : ~AfterGroups(b, cap, q, h[4 * q])}
<1>4. Wrong = {}
  <2>1. SUFFICES ASSUME Wrong # {} PROVE FALSE
    OBVIOUS
  <2>2. Wrong \subseteq Nat
    BY <1>2
  <2>3. PICK r \in Wrong : \A x \in Wrong : r <= x
    <3> HIDE DEF Wrong
    <3> QED
      BY <2>1, <2>2, LeastNumber
  <2>4. r \in 0 .. G /\ ~AfterGroups(b, cap, r, h[4 * r])
    OBVIOUS
  <2>5. r # 0
    BY <1>3, <2>4, Zenon
  <2>6. PICK q : q = r - 1
    OBVIOUS
  <2>7. q \in 0 .. G /\ q \in 0 .. G - 1 /\ ~(r <= q) /\ r = q + 1
    BY <1>2, <2>4, <2>5, <2>6
  <2>8. AfterGroups(b, cap, q, h[4 * q])
    BY <2>3, <2>7
  <2>9. AfterGroups(b, cap, q + 1, h[4 * (q + 1)])
    BY <1>1, <2>7, <2>8, NextGroup, Zenon
  <2> QED
    BY <2>4, <2>7, <2>9, Zenon
<1>5. AfterGroups(b, cap, G, h[4 * G])
  <2>1. G \in 0 .. G
    BY <1>2
  <2> QED
    BY <1>4, <2>1
<1>6. Position(b, G) = Len(b)
  BY <1>2 DEF Position
<1>7. SubSeq(b, 1, Len(b)) = b
  OBVIOUS
<1> QED
  BY <1>2, <1>5, <1>6, <1>7, Zenon DEF AfterGroups, EndsWith

\* A text with a blank at k.
HasBlank(t, e, k) ==
  /\ t \in Seq(Nat) /\ Len(t) = Len(e) + 1 /\ t[k] = 32
  /\ \A j \in 1 .. Len(e) : j < k => t[j] = e[j]
  /\ \A j \in 1 .. Len(e) : k <= j => t[j + 1] = e[j]

LEMMA BlankInserted ==
  ASSUME NEW e \in Seq(Nat), NEW k \in 1 .. Len(e) + 1
  PROVE  HasBlank(InsertAt(e, k, 32), e, k)
<1>0. PICK t : t = InsertAt(e, k, 32)
  OBVIOUS
<1>1. PICK l \in Nat : l = Len(e)
  OBVIOUS
<1>2. PICK x, z, y : x = SubSeq(e, 1, k - 1) /\ y = SubSeq(e, k, Len(e)) /\ z = <<32>>
  OBVIOUS
<1>3. x \in Seq(Nat) /\ Len(x) = k - 1 /\ \A j \in 1 .. k - 1 : x[j] = e[j]
  BY <1>1, <1>2
<1>4. y \in Seq(Nat) /\ Len(y) = l - k + 1
  BY <1>1, <1>2
<1>5. ASSUME NEW j \in 1 .. l - k + 1 PROVE y[j] = e[k + j - 1]
  BY <1>1, <1>2
<1>6. z \in Seq(Nat) /\ Len(z) = 1 /\ z[1] = 32
  BY <1>2
<1>7. PICK u : u = x \o z
  OBVIOUS
<1>8. /\ u \in Seq(Nat) /\ Len(u) = k /\ u[k] = 32
      /\ \A j \in 1 .. k - 1 : u[j] = e[j]
  <2>1. k - 1 \in Nat /\ k - 1 + 1 = k /\ 1 \in 1 .. 1
    BY <1>1
  <2>2. IsJoin(u, x, z)
    BY <1>3, <1>6, <1>7, Joined, Zenon
  <2>3. /\ u \in Seq(Nat) /\ Len(u) = k - 1 + 1
        /\ \A j \in 1 .. k - 1 : u[j] = x[j]
        /\ \A j \in 1 .. 1 : u[k - 1 + j] = z[j]
    BY <1>3, <1>6, <2>2, Zenon DEF IsJoin
  <2>4. u[k] = z[1]
    BY <2>1, <2>3
  <2> QED
    BY <1>3, <1>6, <2>1, <2>3, <2>4, Zenon
<1>9. t = u \o y
  BY <1>0, <1>2, <1>7, Zenon DEF InsertAt
<1>16. IsJoin(t, u, y)
  BY <1>4, <1>8, <1>9, Joined, Zenon
<1>10. t \in Seq(Nat) /\ Len(t) = l + 1
  <2>1. t \in Seq(Nat) /\ Len(t) = k + (l - k + 1)
    BY <1>4, <1>8, <1>16, Zenon DEF IsJoin
  <2>2. k + (l - k + 1) = l + 1
    BY <1>1
  <2> QED
    BY <2>1, <2>2, Zenon
<1>11. \A j \in 1 .. k : t[j] = u[j]
  BY <1>8, <1>16, Zenon DEF IsJoin
<1>12. \A j \in 1 .. l - k + 1 : t[k + j] = y[j]
  BY <1>4, <1>8, <1>16, Zenon DEF IsJoin
<1>13. ASSUME NEW j \in 1 .. l, k <= j PROVE t[j + 1] = e[j]
  <2>1. PICK d \in 1 .. l - k + 1 : d = j - k + 1 /\ k + d = j + 1 /\ k + d - 1 = j
    BY <1>1, <1>13
  <2>2. t[k + d] = y[d] /\ y[d] = e[k + d - 1]
    BY <1>5, <1>12, Zenon
  <2> QED
    BY <2>1, <2>2, Zenon
<1>14. ASSUME NEW j \in 1 .. l, j < k PROVE t[j] = e[j]
  BY <1>8, <1>11, <1>14
<1>15. t[k] = 32
  BY <1>8, <1>11
<1> QED
  BY <1>0, <1>1, <1>10, <1>13, <1>14, <1>15, Zenon DEF HasBlank

\* A blank is a step that changes nothing: without it the run is one of the text.
RunsWithout(e, cap, g) == \E h : Run(e, cap, h) /\ h[Len(e)] = g[Len(e) + 1]

LEMMA BlankIsSkipped ==
  ASSUME NEW e \in Seq(Nat), NEW k \in 1 .. Len(e) + 1, NEW cap, NEW g,
         Run(InsertAt(e, k, 32), cap, g)
  PROVE  RunsWithout(e, cap, g)
<1>1. PICK l \in Nat : l = Len(e)
  OBVIOUS
<1>2. PICK t : t = InsertAt(e, k, 32)
  OBVIOUS
<1>3. /\ Len(t) = l + 1 /\ t[k] = 32
      /\ \A j \in 1 .. l : j < k => t[j] = e[j]
      /\ \A j \in 1 .. l : k <= j => t[j + 1] = e[j]
  <2>1. HasBlank(t, e, k)
    BY <1>2, BlankInserted, Zenon
  <2> QED
    BY <1>1, <2>1, Zenon DEF HasBlank
<1>4. /\ g[0] = Base64!Start
      /\ \A j \in 1 .. l + 1 : g[j] = Base64!Decode1(g[j - 1], t[j], cap)
  BY <1>2, <1>3, Zenon DEF Run
<1>5. g[k] = g[k - 1]
  <2>1. g[k] = Base64!Decode1(g[k - 1], 32, cap)
    BY <1>1, <1>3, <1>4
  <2> QED
    BY <2>1, NothingIsRead, Zenon
<1>6. PICK h : h = [j \in 0 .. l |-> IF j < k THEN g[j] ELSE g[j + 1]]
  OBVIOUS
<1>7. \A j \in 0 .. l : h[j] = IF j < k THEN g[j] ELSE g[j + 1]
  BY <1>6, Zenon
<1>8. h[0] = Base64!Start
  <2>1. 0 \in 0 .. l /\ 0 < k
    OBVIOUS
  <2> QED
    BY <1>4, <1>7, <2>1, Zenon
<1>9. ASSUME NEW j \in 1 .. l PROVE h[j] = Base64!Decode1(h[j - 1], e[j], cap)
  <2>1. j \in 0 .. l /\ j - 1 \in 0 .. l /\ j \in 1 .. l + 1 /\ j + 1 \in 1 .. l + 1
        /\ j - 1 + 1 = j /\ j + 1 - 1 = j
    OBVIOUS
  <2>2. CASE j < k
    <3>1. j - 1 < k
      BY <2>2
    <3>2. h[j] = g[j] /\ h[j - 1] = g[j - 1] /\ t[j] = e[j]
      BY <1>3, <1>7, <2>1, <2>2, <3>1, Zenon
    <3> QED
      BY <1>4, <2>1, <3>2
  <2>3. CASE ~(j < k)
    <3>1. k <= j
      BY <2>3
    <3>2. h[j] = g[j + 1] /\ t[j + 1] = e[j]
      BY <1>3, <1>7, <2>1, <2>3, <3>1, Zenon
    <3>3. g[j + 1] = Base64!Decode1(g[j], t[j + 1], cap)
      <4>1. PICK i \in 1 .. l + 1 : i = j + 1 /\ i - 1 = j
        BY <2>1
      <4>2. g[i] = Base64!Decode1(g[i - 1], t[i], cap)
        BY <1>4, Zenon
      <4> QED
        BY <4>1, <4>2
    <3>4. h[j - 1] = g[j]
      <4>1. CASE j - 1 < k
        <5>1. j = k
          BY <3>1, <4>1
        <5> QED
          BY <1>5, <1>7, <2>1, <4>1, <5>1, Zenon
      <4>2. CASE ~(j - 1 < k)
        BY <1>7, <2>1, <4>2, Zenon
      <4> QED
        BY <4>1, <4>2
    <3> QED
      BY <3>2, <3>3, <3>4
  <2> QED
    BY <2>2, <2>3
<1>10. h[l] = g[l + 1]
  <2>1. l \in 0 .. l
    OBVIOUS
  <2>2. CASE l < k
    <3>1. k = l + 1 /\ k - 1 = l
      BY <1>1, <2>2
    <3> QED
      BY <1>5, <1>7, <2>1, <2>2, <3>1, Zenon
  <2>3. CASE ~(l < k)
    BY <1>7, <2>1, <2>3, Zenon
  <2> QED
    BY <2>2, <2>3
<1> QED
  BY <1>1, <1>8, <1>9, <1>10, Zenon DEF Run, RunsWithout

-----------------------------------------------------------------------------
(* base64: the decoder *)

DecodingOf(t, n, cap, g) ==
  [k \in 0 .. n |-> IF k = 0 THEN Base64!Start ELSE Base64!Decode1(g[k - 1], t[k], cap)]

Result(end) ==
  IF end.failed \/ end.val # <<>> THEN Base64!Failure
  ELSE [failed |-> FALSE, out |-> end.out]

LEMMA DecodingIsChosen ==
  ASSUME NEW t, NEW cap
  PROVE  Base64!rtw_base64_decode(t, cap)
           = Result((CHOOSE g : g = DecodingOf(t, Len(t), cap, g))[Len(t)])
  BY DEF Base64!rtw_base64_decode, DecodingOf, Result

\* Any number of characters can be read.
LEMMA DecodingExists ==
  ASSUME NEW t, NEW n \in Nat, NEW cap
  PROVE  \E g : g = DecodingOf(t, n, cap, g)
<1> DEFINE Stuck == {k \in 0 .. n : ~\E g : g = DecodingOf(t, k, cap, g)}
<1>1. CASE Stuck = {}
  <2>1. n \in 0 .. n
    OBVIOUS
  <2> QED
    BY <1>1, <2>1
<1>2. CASE Stuck # {}
  <2>1. Stuck \subseteq Nat
    OBVIOUS
  <2>2. PICK k \in Stuck : \A j \in Stuck : k <= j
    <3> HIDE DEF Stuck
    <3> QED
      BY <1>2, <2>1, LeastNumber
  <2>3. k \in 0 .. n /\ ~\E g : g = DecodingOf(t, k, cap, g)
    OBVIOUS
  <2>4. CASE k = 0
    <3>1. PICK g : g = [i \in 0 .. 0 |-> Base64!Start]
      OBVIOUS
    <3>2. g = DecodingOf(t, 0, cap, g)
      BY <3>1 DEF DecodingOf
    <3> QED
      BY <2>3, <2>4, <3>2
  <2>5. CASE k # 0
    <3>1. k - 1 \in 0 .. n /\ ~(k <= k - 1)
      BY <2>3, <2>5
    <3>2. PICK g : g = DecodingOf(t, k - 1, cap, g)
      BY <2>2, <3>1
    <3>3. PICK e : e = [i \in 0 .. k |->
                          IF i = k THEN Base64!Decode1(g[k - 1], t[k], cap) ELSE g[i]]
      OBVIOUS
    <3>4. ASSUME NEW i \in 0 .. k
          PROVE  e[i] = IF i = 0 THEN Base64!Start ELSE Base64!Decode1(e[i - 1], t[i], cap)
      <4>0. \A j \in 0 .. k :
              e[j] = IF j = k THEN Base64!Decode1(g[k - 1], t[k], cap) ELSE g[j]
        BY <3>3, Zenon
      <4>1. CASE i = k
        <5>1. k - 1 \in 0 .. k /\ k - 1 # k
          BY <2>3, <2>5
        <5>2. e[k - 1] = g[k - 1] /\ e[k] = Base64!Decode1(g[k - 1], t[k], cap)
          BY <4>0, <4>1, <5>1, Zenon
        <5> QED
          BY <2>5, <4>1, <5>2, Zenon
      <4>2. CASE i # k
        <5>1. i \in 0 .. k - 1
          BY <2>3, <4>2
        <5>2. e[i] = g[i]
          BY <4>0, <4>2, Zenon
        <5>3. g[i] = IF i = 0 THEN Base64!Start ELSE Base64!Decode1(g[i - 1], t[i], cap)
          BY <3>2, <5>1, Zenon DEF DecodingOf
        <5>4. CASE i = 0
          BY <5>2, <5>3, <5>4, Zenon
        <5>5. CASE i # 0
          <6>1. i - 1 \in 0 .. k /\ i - 1 # k
            BY <2>3, <5>1, <5>5
          <6>2. e[i - 1] = g[i - 1]
            BY <4>0, <6>1, Zenon
          <6> QED
            BY <5>2, <5>3, <5>5, <6>2, Zenon
        <5> QED
          BY <5>4, <5>5
      <4> QED
        BY <4>1, <4>2
    <3>5. e = DecodingOf(t, k, cap, e)
      BY <3>3, <3>4, Zenon DEF DecodingOf
    <3> QED
      BY <2>3, <3>5, Zenon
  <2> QED
    BY <2>4, <2>5
<1> QED
  BY <1>1, <1>2

LEMMA DecodeRuns ==
  ASSUME NEW t \in Seq(Nat), NEW cap
  PROVE  \E g : Run(t, cap, g) /\ Base64!rtw_base64_decode(t, cap) = Result(g[Len(t)])
<1>1. PICK n \in Nat : n = Len(t)
  OBVIOUS
<1>2. PICK g : g = (CHOOSE e : e = DecodingOf(t, n, cap, e))
  OBVIOUS
<1>3. g = DecodingOf(t, n, cap, g)
  BY <1>2, DecodingExists, Zenon
<1>4. \A k \in 0 .. n :
        g[k] = IF k = 0 THEN Base64!Start ELSE Base64!Decode1(g[k - 1], t[k], cap)
  BY <1>3, Zenon DEF DecodingOf
<1>5. Base64!rtw_base64_decode(t, cap) = Result(g[n])
  BY <1>1, <1>2, DecodingIsChosen, Zenon
<1>6. g[0] = Base64!Start
  <2>1. 0 \in 0 .. n
    OBVIOUS
  <2> QED
    BY <1>4, <2>1, Zenon
<1>7. ASSUME NEW k \in 1 .. n PROVE g[k] = Base64!Decode1(g[k - 1], t[k], cap)
  <2>1. k \in 0 .. n /\ k # 0
    OBVIOUS
  <2> QED
    BY <1>4, <2>1, Zenon
<1> QED
  BY <1>1, <1>5, <1>6, <1>7, Zenon DEF Run

\* What comes of the end of a run.
LEMMA ResultOfEnd ==
  ASSUME NEW b, NEW cap, NEW st, EndsWith(b, cap, st)
  PROVE  /\ Len(b) <= cap => Result(st) = [failed |-> FALSE, out |-> b]
         /\ ~(Len(b) <= cap) => Result(st).failed
<1>1. CASE Len(b) <= cap
  <2>1. st = St(<<>>, 0, b)
    BY <1>1, Zenon DEF EndsWith
  <2>2. st.failed = FALSE /\ st.val = <<>> /\ st.out = b
    BY <2>1, Zenon DEF St
  <2> QED
    BY <1>1, <2>2, Zenon DEF Result
<1>2. CASE ~(Len(b) <= cap)
  <2>1. st.failed
    BY <1>2, Zenon DEF EndsWith
  <2>2. Result(st) = Base64!Failure
    BY <2>1, Zenon DEF Result
  <2>3. Base64!Failure.failed
    BY DEF Base64!Failure
  <2> QED
    BY <1>2, <2>2, <2>3, Zenon
<1> QED
  BY <1>1, <1>2

\* A text is decoded, with a blank or without one.
LEMMA TextIsDecoded ==
  ASSUME NEW b \in Seq(Bytes), NEW cap \in Nat
  PROVE  /\ Len(b) <= cap =>
              Base64!rtw_base64_decode(Base64!Characters(b), cap) = [failed |-> FALSE, out |-> b]
         /\ ~(Len(b) <= cap) => Base64!rtw_base64_decode(Base64!Characters(b), cap).failed
<1>1. PICK e : e = Base64!Characters(b)
  OBVIOUS
<1>2. e \in Seq(Nat)
  BY <1>1, CharactersOfGroups, Zenon DEF Spells
<1>3. PICK g : Run(e, cap, g) /\ Base64!rtw_base64_decode(e, cap) = Result(g[Len(e)])
  BY <1>2, DecodeRuns
<1>4. EndsWith(b, cap, g[Len(e)])
  BY <1>1, <1>3, RunEnds, Zenon
<1> QED
  BY <1>1, <1>3, <1>4, ResultOfEnd, Zenon

LEMMA SpacedTextIsDecoded ==
  ASSUME NEW b \in Seq(Bytes), NEW e, e = Base64!Characters(b), NEW k \in 1 .. Len(e) + 1
  PROVE  Base64!rtw_base64_decode(InsertAt(e, k, 32), Len(b)).out = b
<1>1. e \in Seq(Nat)
  BY CharactersOfGroups, Zenon DEF Spells
<1>2. PICK t : t = InsertAt(e, k, 32)
  OBVIOUS
<1>3. t \in Seq(Nat) /\ Len(t) = Len(e) + 1
  BY <1>1, <1>2, BlankInserted, Zenon DEF HasBlank
<1>4. PICK cap \in Nat : cap = Len(b) /\ Len(b) <= cap
  OBVIOUS
<1>5. PICK g : Run(t, cap, g) /\ Base64!rtw_base64_decode(t, cap) = Result(g[Len(t)])
  BY <1>3, DecodeRuns
<1>6. PICK h : Run(e, cap, h) /\ h[Len(e)] = g[Len(e) + 1]
  <2>1. Run(InsertAt(e, k, 32), cap, g)
    BY <1>2, <1>5
  <2>2. RunsWithout(e, cap, g)
    BY <1>1, <2>1, BlankIsSkipped, Zenon
  <2> QED
    BY <2>2, Zenon DEF RunsWithout
<1>7. EndsWith(b, cap, h[Len(e)])
  BY <1>6, RunEnds, Zenon
<1>8. Result(g[Len(t)]) = [failed |-> FALSE, out |-> b]
  BY <1>3, <1>4, <1>6, <1>7, ResultOfEnd, Zenon
<1>9. Base64!rtw_base64_decode(InsertAt(e, k, 32), Len(b)) = [failed |-> FALSE, out |-> b]
  BY <1>2, <1>4, <1>5, <1>8, Zenon
<1> QED
  BY <1>9

-----------------------------------------------------------------------------

LEMMA PayloadComesBack ==
  ASSUME in \in Seq(Bytes)
  PROVE  PayloadSurvives
<1>1. PICK n \in Nat : n = Len(in)
  OBVIOUS
<1>2. PICK e : e = Base64!Characters(in)
  OBVIOUS
<1>3. e \in Seq(Nat) /\ Len(e) = 4 * GroupCount(in)
  BY <1>2, CharactersOfGroups, Zenon DEF Spells
<1>4. Encoded = e
  <2>1. PICK c \in Nat : c = Base64!rtw_base64_encoded_len(Len(in)) /\ ~(c < c)
    BY <1>1 DEF Base64!rtw_base64_encoded_len
  <2> QED
    BY <1>2, <2>1, Zenon DEF Encoded, Base64!rtw_base64_encode
<1>5. Base64!rtw_base64_decode(Encoded, Len(in)) = [failed |-> FALSE, out |-> in]
  <2>1. n <= n
    OBVIOUS
  <2> QED
    BY <1>1, <1>2, <1>4, <2>1, TextIsDecoded, Zenon
<1>6. ASSUME in # <<>> PROVE Base64!rtw_base64_decode(Encoded, Len(in) - 1).failed
  <2>1. n # 0
    BY <1>1, <1>6
  <2>2. PICK m \in Nat : m = n - 1 /\ ~(n <= m)
    BY <2>1
  <2> QED
    BY <1>1, <1>2, <1>4, <2>2, TextIsDecoded, Zenon
<1>7. \A k \in 1 .. Len(Encoded) + 1 :
        Base64!rtw_base64_decode(InsertAt(Encoded, k, 32), Len(in)).out = in
  BY <1>2, <1>4, SpacedTextIsDecoded, Zenon
<1>8. Len(Encoded) + 1 = Base64!rtw_base64_encoded_len(Len(in))
  BY <1>3, <1>4 DEF Base64!rtw_base64_encoded_len, GroupCount
<1> QED
  BY <1>5, <1>6, <1>7, <1>8, Zenon DEF PayloadSurvives

\* Every payload survives, however long: what rtw_base64_encode writes of it,
\* rtw_base64_decode gives back, in a buffer that just fits and not in a smaller
\* one, with a blank anywhere in it.
THEOREM PayloadIsKept == Base64Spec => []PayloadSurvives
<1> DEFINE Inv == in \in Seq(Payload)
<1>1. Base64Init => Inv
  BY DEF Base64Init
<1>2. Inv /\ [Base64Next]_in => Inv'
  BY DEF Base64Next
<1>3. Inv => PayloadSurvives
  <2>1. Payload \subseteq Bytes
    BY PartsConstants DEF Bytes
  <2>2. Inv => in \in Seq(Bytes)
    BY <2>1
  <2> QED
    BY <2>2, PayloadComesBack, Zenon
<1> QED
  BY <1>1, <1>2, <1>3, PTL DEF Base64Spec

-----------------------------------------------------------------------------
(* The simulator: what its state always satisfies *)

Messages == {"connected", "start", "media", "ack", "stop"}
Inbound == {"media", "mark", "clear"}

SimTypeOK ==
  /\ pc \in {"start", "round", "read", "poll", "report", "stop", "done"}
  /\ audio \in Nat /\ marks \in Seq(Nat) /\ outbound = <<>> /\ sent \in Seq(Messages)
  /\ up \in BOOLEAN /\ script \in Seq(Inbound) /\ arriving \in Seq(Inbound)
  /\ crowded \in BOOLEAN

\* How far the call is: nothing before the start and after a start that fails,
\* then its two first messages, and a stop only at the end.
Opened ==
  /\ pc = "start" => sent = <<>> /\ marks = <<>>
  /\ pc # "start" => Len(sent) >= 2 \/ (pc = "done" /\ ~up /\ sent = <<>>)
  /\ Len(sent) >= 2 => sent[1] = "connected" /\ sent[2] = "start"
  /\ Len(sent) # 1

Carried ==
  \A i \in 3 .. Len(sent) :
    sent[i] \in {"media", "ack"} \/ (pc = "done" /\ sent[i] = "stop")

Closed ==
  pc = "done" /\ up =>
    \E i \in 3 .. Len(sent) :
      /\ sent[i] = "stop"
      /\ \A j \in 1 .. Len(sent) : j # i => sent[j] # "stop" /\ (j > i => sent[j] = "ack")

SimInv == SimTypeOK /\ Opened /\ Carried /\ Closed /\ Sim!MarksAccounted

LEMMA SameCardinality ==
  ASSUME NEW T
  PROVE  Sim!Cardinality(T) = Cardinality(T)
  BY DEF Sim!Cardinality, Cardinality

\* What a count is, and of two sequences the sum.
LEMMA CountIsNumber ==
  ASSUME NEW S, NEW s \in Seq(S), NEW x
  PROVE  /\ Sim!Count(x, s) \in Nat
         /\ IsFiniteSet({i \in 1 .. Len(s) : s[i] = x})
         /\ Sim!Count(x, s) = Cardinality({i \in 1 .. Len(s) : s[i] = x})
<1>1. PICK n \in Nat : n = Len(s) /\ DOMAIN s = 1 .. n
  OBVIOUS
<1>2. IsFiniteSet(1 .. n)
  BY FS_Interval
<1>3. {i \in 1 .. n : s[i] = x} \in SUBSET (1 .. n)
  OBVIOUS
<1>4. IsFiniteSet({i \in 1 .. n : s[i] = x})
  BY <1>2, <1>3, FS_Subset
<1>5. Cardinality({i \in 1 .. n : s[i] = x}) \in Nat
  BY <1>4, FS_CardinalityType
<1>6. Sim!Count(x, s) = Cardinality({i \in 1 .. n : s[i] = x})
  BY <1>1, SameCardinality, Zenon DEF Sim!Count
<1> QED
  BY <1>1, <1>4, <1>5, <1>6

LEMMA CountOfBoth ==
  ASSUME NEW S, NEW s \in Seq(S), NEW t \in Seq(S), NEW x
  PROVE  Sim!Count(x, s \o t) = Sim!Count(x, s) + Sim!Count(x, t)
<1>1. PICK m \in Nat, n \in Nat : m = Len(s) /\ n = Len(t)
  OBVIOUS
<1>2. PICK u : u = s \o t
  OBVIOUS
<1>3. /\ u \in Seq(S) /\ Len(u) = m + n
      /\ \A i \in 1 .. m : u[i] = s[i]
      /\ \A i \in 1 .. n : u[m + i] = t[i]
  BY <1>1, <1>2, ConcatProperties
<1>4. PICK A, B, C : /\ A = {i \in 1 .. m : s[i] = x} /\ B = {i \in 1 .. n : t[i] = x}
                     /\ C = {i \in 1 .. m + n : u[i] = x}
  OBVIOUS
<1>5. PICK D : D = {m + i : i \in B}
  OBVIOUS
<1>6. /\ IsFiniteSet(A) /\ Cardinality(A) \in Nat /\ Sim!Count(x, s) = Cardinality(A)
      /\ IsFiniteSet(B) /\ Cardinality(B) \in Nat /\ Sim!Count(x, t) = Cardinality(B)
  <2>1. /\ Sim!Count(x, s) \in Nat /\ IsFiniteSet({i \in 1 .. Len(s) : s[i] = x})
        /\ Sim!Count(x, s) = Cardinality({i \in 1 .. Len(s) : s[i] = x})
    BY CountIsNumber, Zenon
  <2>2. /\ Sim!Count(x, t) \in Nat /\ IsFiniteSet({i \in 1 .. Len(t) : t[i] = x})
        /\ Sim!Count(x, t) = Cardinality({i \in 1 .. Len(t) : t[i] = x})
    BY CountIsNumber, Zenon
  <2> QED
    BY <1>1, <1>4, <2>1, <2>2, Zenon
<1>7. Sim!Count(x, u) = Cardinality(C)
  <2>1. Sim!Count(x, u) = Cardinality({i \in 1 .. Len(u) : u[i] = x})
    BY <1>3, CountIsNumber, Zenon
  <2> QED
    BY <1>3, <1>4, <2>1, Zenon
<1>8. IsFiniteSet(D) /\ Cardinality(D) = Cardinality(B)
  <2>1. PICK f : f = [i \in B |-> m + i]
    OBVIOUS
  <2>2. B \subseteq Nat
    BY <1>4
  <2>3. f \in Bijection(B, D)
    BY <1>5, <2>1, <2>2 DEF Bijection, Injection, Surjection, IsInjective
  <2> QED
    BY <1>6, <2>3, FS_Bijection DEF ExistsBijection
<1>9. C = A \cup D
  <2>1. ASSUME NEW i \in C PROVE i \in A \cup D
    <3>1. i \in 1 .. m + n /\ u[i] = x
      BY <1>4
    <3>2. CASE i \in 1 .. m
      BY <1>3, <1>4, <3>1, <3>2
    <3>3. CASE i \notin 1 .. m
      <4>1. PICK j \in 1 .. n : i = m + j
        <5>1. i - m \in 1 .. n /\ i = m + (i - m)
          BY <3>1, <3>3
        <5> QED
          BY <5>1
      <4>2. t[j] = x
        BY <1>3, <3>1, <4>1
      <4> QED
        BY <1>4, <1>5, <4>1, <4>2
    <3> QED
      BY <3>2, <3>3
  <2>2. ASSUME NEW i \in A PROVE i \in C
    <3>1. i \in 1 .. m /\ s[i] = x
      BY <1>4
    <3>2. i \in 1 .. m + n /\ u[i] = x
      BY <1>3, <3>1
    <3> QED
      BY <1>4, <3>2
  <2>3. ASSUME NEW i \in D PROVE i \in C
    <3>1. PICK j \in 1 .. n : i = m + j /\ t[j] = x
      BY <1>4, <1>5
    <3>2. i \in 1 .. m + n /\ u[i] = x
      BY <1>3, <3>1
    <3> QED
      BY <1>4, <3>2
  <2> QED
    BY <2>1, <2>2, <2>3, Zenon
<1>10. A \cap D = {}
  <2>1. ASSUME NEW i \in A, NEW j \in B PROVE i # m + j
    BY <1>4
  <2> QED
    BY <1>5, <2>1
<1>11. Cardinality(C) = Cardinality(A) + Cardinality(D) - Cardinality({})
  BY <1>6, <1>8, <1>9, <1>10, FS_Union
<1> QED
  BY <1>2, <1>6, <1>7, <1>8, <1>11, FS_EmptySet

LEMMA CountOfOne ==
  ASSUME NEW S, NEW e \in S, NEW x
  PROVE  Sim!Count(x, <<e>>) = IF e = x THEN 1 ELSE 0
<1>1. <<e>> \in Seq(S) /\ Len(<<e>>) = 1 /\ <<e>>[1] = e
  OBVIOUS
<1>2. Sim!Count(x, <<e>>) = Cardinality({i \in 1 .. 1 : <<e>>[i] = x})
  BY <1>1, CountIsNumber
<1>3. CASE e = x
  <2>1. {i \in 1 .. 1 : <<e>>[i] = x} = {1}
    BY <1>1, <1>3
  <2> QED
    BY <1>2, <1>3, <2>1, FS_Singleton
<1>4. CASE e # x
  <2>1. {i \in 1 .. 1 : <<e>>[i] = x} = {}
    BY <1>1, <1>4
  <2> QED
    BY <1>2, <1>4, <2>1, FS_EmptySet
<1> QED
  BY <1>3, <1>4

LEMMA CountOfNone ==
  ASSUME NEW x
  PROVE  Sim!Count(x, <<>>) = 0
<1>1. {i \in DOMAIN <<>> : <<>>[i] = x} = {}
  OBVIOUS
<1> QED
  BY <1>1, FS_EmptySet, SameCardinality, Zenon DEF Sim!Count

LEMMA CountOfAcks ==
  ASSUME NEW n \in Nat
  PROVE  /\ Sim!Acks(n) \in Seq(Messages) /\ Len(Sim!Acks(n)) = n
         /\ \A i \in 1 .. n : Sim!Acks(n)[i] = "ack"
         /\ Sim!Count("ack", Sim!Acks(n)) = n
<1>1. PICK a : a = Sim!Acks(n)
  OBVIOUS
<1>2. a \in Seq(Messages) /\ Len(a) = n /\ \A i \in 1 .. n : a[i] = "ack"
  BY <1>1 DEF Sim!Acks, Messages
<1>3. {i \in 1 .. n : a[i] = "ack"} = 1 .. n
  BY <1>2
<1>4. Sim!Count("ack", a) = Cardinality(1 .. n)
  <2>1. a \in Seq(Messages) /\ Len(a) = n
    BY <1>2
  <2>2. Sim!Count("ack", a) = Cardinality({i \in 1 .. Len(a) : a[i] = "ack"})
    BY <2>1, CountIsNumber, Zenon
  <2> QED
    BY <1>3, <2>1, <2>2, Zenon
<1>5. Cardinality(1 .. n) = n
  BY FS_Interval
<1> QED
  BY <1>1, <1>2, <1>4, <1>5

\* A sequence and one more, or one less, element.
LEMMA CountOfMore ==
  ASSUME NEW S, NEW s \in Seq(S), NEW e \in S, NEW x
  PROVE  Sim!Count(x, Append(s, e)) = Sim!Count(x, s) + (IF e = x THEN 1 ELSE 0)
<1>1. Append(s, e) = s \o <<e>> /\ <<e>> \in Seq(S)
  BY AppendIsConcat
<1>2. Sim!Count(x, s \o <<e>>) = Sim!Count(x, s) + Sim!Count(x, <<e>>)
  BY <1>1, CountOfBoth
<1> QED
  BY <1>1, <1>2, CountOfOne

LEMMA CountOfTail ==
  ASSUME NEW S, NEW s \in Seq(S), s # <<>>, NEW x
  PROVE  /\ Head(s) \in S /\ Tail(s) \in Seq(S)
         /\ Sim!Count(x, s) = (IF Head(s) = x THEN 1 ELSE 0) + Sim!Count(x, Tail(s))
<1>1. Head(s) \in S /\ Tail(s) \in Seq(S) /\ <<Head(s)>> \in Seq(S)
  OBVIOUS
<1>2. s = <<Head(s)>> \o Tail(s)
  <2>1. PICK u : u = <<Head(s)>> \o Tail(s)
    OBVIOUS
  <2>2. u \in Seq(S) /\ Len(u) = Len(s)
    BY <1>1, <2>1
  <2>3. ASSUME NEW i \in 1 .. Len(s) PROVE u[i] = s[i]
    BY <1>1, <2>1
  <2> QED
    BY <2>1, <2>2, <2>3, SeqEqual
<1>3. Sim!Count(x, <<Head(s)>> \o Tail(s)) = Sim!Count(x, <<Head(s)>>) + Sim!Count(x, Tail(s))
  BY <1>1, CountOfBoth
<1> QED
  BY <1>1, <1>2, <1>3, CountOfOne

-----------------------------------------------------------------------------
(* The simulator: sending everything *)

LEMMA CompletedAreMarks ==
  ASSUME NEW m \in Seq(Nat)
  PROVE  Sim!Completed(m) \in 0 .. Len(m)
<1>1. PICK n \in Nat : n = Len(m) /\ DOMAIN m = 1 .. n
  OBVIOUS
<1>2. PICK Z : Z = {i \in 1 .. n : \A j \in 1 .. i : m[j] = 0}
  OBVIOUS
<1>3. IsFiniteSet(1 .. n) /\ Cardinality(1 .. n) = n
  BY FS_Interval
<1>4. Z \in SUBSET (1 .. n)
  BY <1>2
<1>5. IsFiniteSet(Z) /\ Cardinality(Z) <= n
  BY <1>3, <1>4, FS_Subset
<1>6. Cardinality(Z) \in Nat
  BY <1>5, FS_CardinalityType
<1>7. Sim!Completed(m) = Cardinality(Z)
  BY <1>1, <1>2, SameCardinality, Zenon DEF Sim!Completed
<1> QED
  BY <1>1, <1>5, <1>6, <1>7

SentJoin(t, u, v) ==
  /\ t \in Seq(Messages) /\ Len(t) = Len(u) + Len(v)
  /\ \A i \in 1 .. Len(u) : t[i] = u[i]
  /\ \A i \in 1 .. Len(v) : t[Len(u) + i] = v[i]

LEMMA SentJoined ==
  ASSUME NEW u \in Seq(Messages), NEW v \in Seq(Messages)
  PROVE  SentJoin(u \o v, u, v)
<1>1. u \o v \in Seq(Messages) /\ Len(u \o v) = Len(u) + Len(v)
  BY ConcatProperties
<1>2. /\ \A i \in 1 .. Len(u) : (u \o v)[i] = u[i]
      /\ \A i \in 1 .. Len(v) : (u \o v)[Len(u) + i] = v[i]
  BY ConcatProperties
<1> QED
  BY <1>1, <1>2, Zenon DEF SentJoin

\* t is s, then o, then k acks.
Longer(t, s, o, k) ==
  /\ t \in Seq(Messages) /\ Len(t) = Len(s) + Len(o) + k
  /\ \A i \in 1 .. Len(s) : t[i] = s[i]
  /\ \A i \in 1 .. Len(o) : t[Len(s) + i] = o[i]
  /\ \A i \in 1 .. k : t[Len(s) + Len(o) + i] = "ack"
  /\ Sim!Count("ack", t) = Sim!Count("ack", s) + Sim!Count("ack", o) + k

LEMMA AllIsSent ==
  ASSUME NEW s \in Seq(Messages), NEW o \in Seq(Messages), NEW k \in Nat
  PROVE  Longer(s \o (o \o Sim!Acks(k)), s, o, k)
<1>1. PICK a : a = Sim!Acks(k)
  OBVIOUS
<1>2. /\ a \in Seq(Messages) /\ Len(a) = k /\ \A i \in 1 .. k : a[i] = "ack"
      /\ Sim!Count("ack", a) = k
  BY <1>1, CountOfAcks, Zenon
<1>3. PICK u : u = o \o a
  OBVIOUS
<1>4. PICK t : t = s \o u
  OBVIOUS
<1>5. PICK p \in Nat, q \in Nat : p = Len(s) /\ q = Len(o)
  OBVIOUS
<1>6. /\ u \in Seq(Messages) /\ Len(u) = q + k
      /\ \A i \in 1 .. q : u[i] = o[i]
      /\ \A i \in 1 .. k : u[q + i] = a[i]
  <2>1. SentJoin(u, o, a)
    BY <1>2, <1>3, SentJoined, Zenon
  <2> QED
    BY <1>2, <1>5, <2>1, Zenon DEF SentJoin
<1>7. /\ t \in Seq(Messages) /\ Len(t) = p + (q + k)
      /\ \A i \in 1 .. p : t[i] = s[i]
      /\ \A i \in 1 .. q + k : t[p + i] = u[i]
  <2>1. SentJoin(t, s, u)
    BY <1>4, <1>6, SentJoined, Zenon
  <2> QED
    BY <1>5, <1>6, <2>1, Zenon DEF SentJoin
<1>8. ASSUME NEW i \in 1 .. q PROVE t[p + i] = o[i]
  <2>1. i \in 1 .. q + k
    OBVIOUS
  <2> QED
    BY <1>6, <1>7, <2>1, Zenon
<1>9. ASSUME NEW i \in 1 .. k PROVE t[p + q + i] = "ack"
  <2>1. q + i \in 1 .. q + k /\ p + (q + i) = p + q + i
    OBVIOUS
  <2>2. t[p + (q + i)] = u[q + i]
    BY <1>7, <2>1, Zenon
  <2> QED
    BY <1>2, <1>6, <2>1, <2>2, Zenon
<1>10. Sim!Count("ack", t) = Sim!Count("ack", s) + Sim!Count("ack", o) + k
  <2>1. Sim!Count("ack", t) = Sim!Count("ack", s) + Sim!Count("ack", u)
    BY <1>4, <1>6, CountOfBoth, Zenon
  <2>2. Sim!Count("ack", u) = Sim!Count("ack", o) + k
    BY <1>2, <1>3, CountOfBoth, Zenon
  <2>3. Sim!Count("ack", s) \in Nat /\ Sim!Count("ack", o) \in Nat
    BY CountIsNumber, Zenon
  <2> QED
    BY <2>1, <2>2, <2>3
<1>11. Len(t) = p + q + k
  BY <1>7
<1>12. Longer(t, s, o, k)
  BY <1>5, <1>7, <1>8, <1>9, <1>10, <1>11, Zenon DEF Longer
<1> QED
  BY <1>1, <1>3, <1>4, <1>12, Zenon

\* After Drain(o, m) the n completed marks are gone and, over a connection, k of
\* them acked: all that one harvest takes.
Harvested(o, m, n, k) ==
  /\ k <= n /\ n <= Len(m) /\ Len(marks') = Len(m) - n
  /\ Sim!Loses(m) <=> n > HarvestMax
  /\ n <= HarvestMax => k = n
  /\ up => Longer(sent', sent, o, k)

LEMMA Drains ==
  ASSUME SimTypeOK, NEW o \in Seq(Messages), NEW m \in Seq(Nat), Sim!Drain(o, m)
  PROVE  /\ marks' \in Seq(Nat) /\ outbound' = <<>>
         /\ ~up => sent' = sent
         /\ \E n, k \in Nat : Harvested(o, m, n, k)
<1>1. PICK n \in 0 .. Len(m) : n = Sim!Completed(m)
  BY CompletedAreMarks
<1>2. marks' = SubSeq(m, n + 1, Len(m)) /\ outbound' = <<>>
  BY <1>1, Zenon DEF Sim!Drain, Sim!Pending
<1>3. PICK l \in Nat : l = Len(m)
  OBVIOUS
<1>4. PICK r : r = SubSeq(m, n + 1, l)
  OBVIOUS
<1>5. r \in Seq(Nat) /\ Len(r) = l - n
  BY <1>1, <1>3, <1>4
<1>6. marks' \in Seq(Nat) /\ Len(marks') = Len(m) - n
  BY <1>2, <1>3, <1>4, <1>5, Zenon
<1>7. ~up => sent' = sent
  BY Zenon DEF Sim!Drain
<1>8. n \in Nat /\ n <= Len(m) /\ HarvestMax \in Nat
  BY <1>1, <1>3, PartsConstants DEF Sim!SimConstants
<1>9. PICK k : k = Sim!Min({n, HarvestMax})
  OBVIOUS
<1>10. k \in Nat /\ k <= n /\ (n <= HarvestMax => k = n)
  <2>1. \E x \in {n, HarvestMax} : \A y \in {n, HarvestMax} : x <= y
    <3>1. n <= HarvestMax \/ HarvestMax <= n
      BY <1>8
    <3> QED
      BY <1>8, <3>1
  <2>2. k \in {n, HarvestMax} /\ \A y \in {n, HarvestMax} : k <= y
    BY <1>9, <2>1 DEF Sim!Min
  <2> QED
    BY <1>8, <2>2
<1>11. Sim!Loses(m) <=> n > HarvestMax
  BY <1>1, Zenon DEF Sim!Loses
<1>12. ASSUME up PROVE Longer(sent', sent, o, k)
  <2>1. sent' = sent \o (o \o Sim!Acks(k))
    BY <1>1, <1>9, <1>12, Zenon DEF Sim!Drain, Sim!Drained
  <2>2. sent \in Seq(Messages)
    BY DEF SimTypeOK
  <2>3. Longer(sent \o (o \o Sim!Acks(k)), sent, o, k)
    BY <1>10, <2>2, AllIsSent, Zenon
  <2> QED
    BY <2>1, <2>3, Zenon
<1>13. Harvested(o, m, n, k)
  BY <1>6, <1>8, <1>10, <1>11, <1>12, Zenon DEF Harvested
<1> QED
  BY <1>2, <1>6, <1>7, <1>8, <1>10, <1>13, Zenon

-----------------------------------------------------------------------------
(* The simulator: its invariant *)

\* What stands after a step that sends o, in the middle of the call.
LEMMA CallGoesOn ==
  ASSUME SimTypeOK, Opened, Carried, pc \notin {"start", "done"},
         NEW o \in Seq({"media", "ack"}), NEW k \in Nat,
         up => Longer(sent', sent, o, k), ~up => sent' = sent,
         UNCHANGED up, pc' \notin {"start", "done"}
  PROVE  sent' \in Seq(Messages) /\ Opened' /\ Carried' /\ Closed'
<1>0. Closed'
  BY DEF Closed
<1>1. sent \in Seq(Messages) /\ up \in BOOLEAN
  BY DEF SimTypeOK
<1>2. CASE ~up
  <2>1. sent' = sent /\ pc' # "start" /\ pc' # "done"
    BY <1>2
  <2> QED
    BY <1>0, <1>1, <1>2, <2>1 DEF Opened, Carried
<1>3. CASE up
  <2>1. PICK t : t = sent'
    OBVIOUS
  <2>2. PICK n \in Nat, q \in Nat : n = Len(sent) /\ q = Len(o)
    BY <1>1
  <2>3. /\ t \in Seq(Messages) /\ Len(t) = n + q + k
        /\ \A i \in 1 .. n : t[i] = sent[i]
        /\ \A i \in 1 .. q : t[n + i] = o[i]
        /\ \A i \in 1 .. k : t[n + q + i] = "ack"
    BY <1>3, <2>1, <2>2, Zenon DEF Longer
  <2>4. n >= 2 /\ sent[1] = "connected" /\ sent[2] = "start"
    BY <1>3, <2>2 DEF Opened
  <2>5. /\ Len(t) >= 2 /\ t[1] = "connected" /\ t[2] = "start" /\ Len(t) # 1
    <3>1. 1 \in 1 .. n /\ 2 \in 1 .. n /\ n + q + k >= 2
      BY <2>4
    <3> QED
      BY <2>3, <2>4, <3>1
  <2>6. Opened'
    BY <2>1, <2>5 DEF Opened
  <2>7. ASSUME NEW i \in 3 .. Len(t) PROVE t[i] \in {"media", "ack"}
    <3>0. i \in 3 .. n + q + k
      BY <2>3
    <3>1. CASE i <= n
      <4>1. i \in 1 .. n /\ i \in 3 .. n
        BY <3>0, <3>1
      <4>2. sent[i] \in {"media", "ack"}
        BY <2>2, <4>1 DEF Carried
      <4> QED
        BY <2>3, <4>1, <4>2, Zenon
    <3>2. CASE ~(i <= n) /\ i <= n + q
      <4>1. PICK j \in 1 .. q : i = n + j
        <5>1. i - n \in 1 .. q /\ i = n + (i - n)
          BY <3>0, <3>2
        <5> QED
          BY <5>1
      <4>2. o[j] \in {"media", "ack"}
        BY <2>2, <4>1
      <4> QED
        BY <2>3, <4>1, <4>2, Zenon
    <3>3. CASE ~(i <= n + q)
      <4>1. PICK j \in 1 .. k : i = n + q + j
        <5>1. i - (n + q) \in 1 .. k /\ i = n + q + (i - (n + q))
          BY <3>0, <3>3
        <5> QED
          BY <5>1
      <4> QED
        BY <2>3, <4>1
    <3> QED
      BY <3>1, <3>2, <3>3
  <2>8. Carried'
    BY <2>1, <2>7 DEF Carried
  <2> QED
    BY <1>0, <2>1, <2>3, <2>6, <2>8
<1> QED
  BY <1>1, <1>2, <1>3

LEMMA CountsAreNumbers ==
  ASSUME SimTypeOK
  PROVE  /\ Sim!Count("mark", script) \in Nat /\ Sim!Count("mark", arriving) \in Nat
         /\ Len(marks) \in Nat /\ Sim!Count("ack", sent) \in Nat
<1>1. /\ script \in Seq(Inbound) /\ arriving \in Seq(Inbound) /\ sent \in Seq(Messages)
      /\ marks \in Seq(Nat)
  BY DEF SimTypeOK
<1>2. Sim!Count("mark", script) \in Nat
  BY <1>1, CountIsNumber, Zenon
<1>3. Sim!Count("mark", arriving) \in Nat
  BY <1>1, CountIsNumber, Zenon
<1>4. Sim!Count("ack", sent) \in Nat
  BY <1>1, CountIsNumber, Zenon
<1>5. Len(marks) \in Nat
  BY <1>1
<1> QED
  BY <1>2, <1>3, <1>4, <1>5

\* The bounds that a mark may meet are numbers, and their lesser one is below both.
LEMMA RoomForMarks ==
  /\ MarkMax \in Nat /\ HarvestMax \in Nat
  /\ Sim!Min({MarkMax, HarvestMax}) \in Nat
  /\ Sim!Min({MarkMax, HarvestMax}) <= MarkMax
  /\ Sim!Min({MarkMax, HarvestMax}) <= HarvestMax
<1>1. MarkMax \in Nat /\ HarvestMax \in Nat
  BY PartsConstants DEF Sim!SimConstants
<1>2. \E x \in {MarkMax, HarvestMax} : \A y \in {MarkMax, HarvestMax} : x <= y
  <2>1. MarkMax <= HarvestMax \/ HarvestMax <= MarkMax
    BY <1>1
  <2> QED
    BY <1>1, <2>1
<1>3. PICK k : k = Sim!Min({MarkMax, HarvestMax})
  OBVIOUS
<1>4. k \in {MarkMax, HarvestMax} /\ \A y \in {MarkMax, HarvestMax} : k <= y
  BY <1>2, <1>3 DEF Sim!Min
<1>5. k \in Nat /\ k <= MarkMax /\ k <= HarvestMax
  BY <1>1, <1>4
<1> QED
  BY <1>1, <1>3, <1>5, Zenon

\* The marks the simulator knows of, acknowledged or not.
Known(a, b, m, t) ==
  Sim!Count("mark", a) + Sim!Count("mark", b) + Len(m) + Sim!Count("ack", t)

\* MarksAccounted, of a number of marks that are known.
Books(total, known, held, crowd) ==
  /\ known <= total
  /\ held /\ ~crowd => known = total
  /\ crowd => total > Sim!Min({MarkMax, HarvestMax})

LEMMA AccountedIsBooks ==
  /\ Sim!MarksAccounted <=>
       Books(Sim!Count("mark", Script), Known(script, arriving, marks, sent), up, crowded)
  /\ Sim!MarksAccounted' <=>
       Books(Sim!Count("mark", Script), Known(script', arriving', marks', sent'), up', crowded')
  BY Zenon DEF Sim!MarksAccounted, Books, Known

\* What stands after a step that leaves the marks m in the playout, queues o, refuses
\* r marks and then sends everything.
LEMMA DrainsAccounted ==
  ASSUME SimInv, NEW o \in Seq(Messages), NEW m \in Seq(Nat), NEW r \in {0, 1},
         Sim!Drain(o, m), UNCHANGED up,
         script' \in Seq(Inbound), arriving' \in Seq(Inbound),
         Sim!Count("mark", script') + Sim!Count("mark", arriving') + Len(m)
           + Sim!Count("ack", o) + r
         = Sim!Count("mark", script) + Sim!Count("mark", arriving) + Len(marks),
         r = 1 => Len(m) >= MarkMax,
         crowded' = (crowded \/ r = 1 \/ Sim!Loses(m))
  PROVE  Sim!MarksAccounted' /\ crowded' \in BOOLEAN
<1>1. SimTypeOK
  BY DEF SimInv
<1>2. PICK n \in Nat, k \in Nat : Harvested(o, m, n, k)
  BY <1>1, Drains
<1>3. PICK a \in Nat, b \in Nat, l \in Nat, c \in Nat :
        /\ a = Sim!Count("mark", script) /\ b = Sim!Count("mark", arriving)
        /\ l = Len(marks) /\ c = Sim!Count("ack", sent)
  BY <1>1, CountsAreNumbers
<1>4. PICK a2 \in Nat : a2 = Sim!Count("mark", script')
  BY CountIsNumber
<1>5. PICK b2 \in Nat : b2 = Sim!Count("mark", arriving')
  BY CountIsNumber
<1>6. PICK h \in Nat : h = Sim!Count("ack", o)
  BY CountIsNumber
<1>7. PICK g \in Nat : g = Len(m)
  OBVIOUS
<1>8. PICK t \in Nat : t = Sim!Count("mark", Script)
  <2>1. Script \in Seq(Inbound)
    BY PartsConstants DEF Sim!SimConstants, Inbound
  <2> QED
    BY <2>1, CountIsNumber
<1>9. PICK z \in Nat : z = Sim!Min({MarkMax, HarvestMax}) /\ z <= MarkMax /\ z <= HarvestMax
  BY RoomForMarks
<1>10. MarkMax \in Nat /\ HarvestMax \in Nat
  BY RoomForMarks
<1>11. Books(t, a + b + l + c, up, crowded)
  <2>1. Sim!MarksAccounted
    BY DEF SimInv
  <2>2. Books(t, Known(script, arriving, marks, sent), up, crowded)
    BY <1>8, <2>1, AccountedIsBooks, Zenon
  <2> QED
    BY <1>3, <2>2, Zenon DEF Known
<1>12. /\ k <= n /\ n <= g /\ (Sim!Loses(m) <=> n > HarvestMax) /\ (n <= HarvestMax => k = n)
       /\ (r = 1 => g >= MarkMax) /\ a2 + b2 + g + h + r = a + b + l
  <2>1. (r = 1 => g >= MarkMax) /\ a2 + b2 + g + h + r = a + b + l
    BY <1>3, <1>4, <1>5, <1>6, <1>7, Zenon
  <2> QED
    BY <1>2, <1>7, <2>1, Zenon DEF Harvested
<1>13. Len(marks') = g - n
  BY <1>2, <1>7, Zenon DEF Harvested
<1>14. /\ a + b + l + c <= t
       /\ up /\ ~crowded => a + b + l + c = t
       /\ crowded => t > z
  BY <1>9, <1>11, Zenon DEF Books
<1>15. PICK w \in BOOLEAN : w = crowded'
  OBVIOUS
<1>16. w => t > z
  <2>1. CASE crowded
    BY <1>14, <2>1
  <2>2. CASE r = 1
    BY <1>9, <1>10, <1>12, <1>14, <2>2
  <2>3. CASE Sim!Loses(m)
    BY <1>9, <1>10, <1>12, <1>14, <2>3
  <2> QED
    BY <1>15, <2>1, <2>2, <2>3, Zenon
<1>17. ~w => ~crowded /\ r = 0 /\ k = n
  <2>1. ASSUME ~w PROVE ~crowded /\ r # 1 /\ ~Sim!Loses(m)
    BY <1>15, <2>1, Zenon
  <2>2. ASSUME ~Sim!Loses(m) PROVE k = n
    BY <1>10, <1>12, <2>2
  <2> QED
    BY <2>1, <2>2
<1>18. CASE ~up
  <2>1. sent' = sent
    BY <1>1, <1>18, Drains, Zenon
  <2>2. Known(script', arriving', marks', sent') = a2 + b2 + (g - n) + c
    BY <1>3, <1>4, <1>5, <1>13, <2>1, Zenon DEF Known
  <2>3. a2 + b2 + (g - n) + c <= t
    BY <1>12, <1>14
  <2>4. Books(t, a2 + b2 + (g - n) + c, up', w)
    BY <1>9, <1>16, <1>18, <2>3, Zenon DEF Books
  <2> QED
    BY <1>8, <1>15, <2>2, <2>4, AccountedIsBooks, Zenon
<1>19. CASE up
  <2>1. Sim!Count("ack", sent') = c + h + k
    BY <1>2, <1>3, <1>6, <1>19, Zenon DEF Harvested, Longer
  <2>2. Known(script', arriving', marks', sent') = a2 + b2 + (g - n) + (c + h + k)
    BY <1>4, <1>5, <1>13, <2>1, Zenon DEF Known
  <2>3. a2 + b2 + (g - n) + (c + h + k) <= t
    BY <1>12, <1>14
  <2>4. ~w => a2 + b2 + (g - n) + (c + h + k) = t
    BY <1>12, <1>14, <1>17, <1>19
  <2>5. Books(t, a2 + b2 + (g - n) + (c + h + k), up', w)
    BY <1>9, <1>16, <2>3, <2>4, Zenon DEF Books
  <2> QED
    BY <1>8, <1>15, <2>2, <2>5, AccountedIsBooks, Zenon
<1> QED
  BY <1>18, <1>19

LEMMA SimStarts == Sim!Init => SimInv
<1> SUFFICES ASSUME Sim!Init PROVE SimInv
  OBVIOUS
<1>1. /\ pc = "start" /\ audio = 0 /\ marks = <<>> /\ outbound = <<>> /\ sent = <<>>
      /\ up = TRUE /\ script = Script /\ arriving = <<>> /\ crowded = FALSE
  BY DEF Sim!Init
<1>2. Script \in Seq(Inbound)
  BY PartsConstants DEF Sim!SimConstants, Inbound
<1>3. SimTypeOK
  <2>1. 0 \in Nat /\ <<>> \in Seq(Nat) /\ <<>> \in Seq(Messages) /\ <<>> \in Seq(Inbound)
    OBVIOUS
  <2>2. TRUE \in BOOLEAN /\ FALSE \in BOOLEAN
    BY Zenon
  <2> QED
    BY <1>1, <1>2, <2>1, <2>2, Zenon DEF SimTypeOK
<1>4. Opened /\ Carried /\ Closed
  BY <1>1 DEF Opened, Carried, Closed
<1>5. Sim!MarksAccounted
  <2>1. Sim!Count("mark", <<>>) = 0 /\ Sim!Count("ack", <<>>) = 0
    BY CountOfNone
  <2>2. Sim!Count("mark", Script) \in Nat
    BY <1>2, CountIsNumber
  <2>3. PICK c \in Nat : c = Sim!Count("mark", Script)
    BY <2>2
  <2>4. /\ Sim!Count("mark", script) = c /\ Sim!Count("mark", arriving) = 0
        /\ Len(marks) = 0 /\ Sim!Count("ack", sent) = 0
    BY <1>1, <2>1, <2>3
  <2>5. Known(script, arriving, marks, sent) = c + 0 + 0 + 0
    BY <2>4, Zenon DEF Known
  <2>6. c + 0 + 0 + 0 = c /\ c <= c
    BY <2>3
  <2>7. Books(c, c, up, crowded)
    BY <1>1, <2>6, Zenon DEF Books
  <2> QED
    BY <2>3, <2>5, <2>6, <2>7, AccountedIsBooks, Zenon
<1> QED
  BY <1>3, <1>4, <1>5 DEF SimInv

\* The same for a step that sends o and leaves marks and messages alone.
LEMMA SentAccounted ==
  ASSUME SimInv, NEW o \in Seq(Messages), Sim!Count("ack", o) = 0,
         Sim!Drain(o, marks), UNCHANGED <<up, script, arriving>>,
         crowded' = (crowded \/ Sim!Loses(marks))
  PROVE  Sim!MarksAccounted' /\ crowded' \in BOOLEAN
<1>1. SimTypeOK /\ marks \in Seq(Nat) /\ script \in Seq(Inbound) /\ arriving \in Seq(Inbound)
  BY DEF SimInv, SimTypeOK
<1>2. PICK a \in Nat, b \in Nat, l \in Nat :
        a = Sim!Count("mark", script) /\ b = Sim!Count("mark", arriving) /\ l = Len(marks)
  BY <1>1, CountsAreNumbers
<1>3. Sim!Count("mark", script') = a /\ Sim!Count("mark", arriving') = b
  BY <1>2
<1>4. a + b + l + 0 + 0 = a + b + l
  OBVIOUS
<1>5. Sim!Count("mark", script') + Sim!Count("mark", arriving') + Len(marks)
        + Sim!Count("ack", o) + 0
      = Sim!Count("mark", script) + Sim!Count("mark", arriving) + Len(marks)
  BY <1>2, <1>3, <1>4, Zenon
<1>6. 0 \in {0, 1} /\ 0 # 1
  OBVIOUS
<1>7. crowded' = (crowded \/ 0 = 1 \/ Sim!Loses(marks))
  BY <1>6, Zenon
<1>8. up' = up /\ script' \in Seq(Inbound) /\ arriving' \in Seq(Inbound)
  BY <1>1
<1> QED
  BY <1>1, <1>5, <1>6, <1>7, <1>8, DrainsAccounted, Zenon

LEMMA StartsKeepsSim ==
  ASSUME SimInv, Sim!Starts
  PROVE  SimInv'
<1> USE DEF SimInv
<1>1. /\ pc = "start" /\ pc' = (IF up THEN "round" ELSE "done")
      /\ Sim!Drain(<<"connected", "start">>, marks)
      /\ crowded' = (crowded \/ Sim!Loses(marks))
      /\ UNCHANGED <<audio, up, script, arriving>>
  BY DEF Sim!Starts, Sim!netVars
<1>2. sent = <<>> /\ marks = <<>>
  BY <1>1 DEF Opened
<1>3. PICK o : o = <<"connected", "start">>
  OBVIOUS
<1>4. o \in Seq(Messages) /\ Len(o) = 2 /\ o[1] = "connected" /\ o[2] = "start"
  BY <1>3 DEF Messages
<1>5. marks \in Seq(Nat) /\ Len(marks) = 0 /\ Len(sent) = 0 /\ up \in BOOLEAN
  BY <1>2 DEF SimTypeOK
<1>6. /\ marks' \in Seq(Nat) /\ outbound' = <<>> /\ (~up => sent' = sent)
      /\ \E n, k \in Nat : Harvested(o, marks, n, k)
  BY <1>1, <1>3, <1>4, <1>5, Drains, Zenon
<1>7. PICK n \in Nat, k \in Nat : Harvested(o, marks, n, k)
  BY <1>6
<1>8. k = 0 /\ (up => Longer(sent', sent, o, 0)) /\ Len(marks') = 0
  <2>1. n <= 0 /\ k <= n /\ (up => Longer(sent', sent, o, k)) /\ Len(marks') = 0 - n
    BY <1>5, <1>7, Zenon DEF Harvested
  <2>2. k = 0 /\ n = 0
    BY <2>1
  <2> QED
    BY <2>1, <2>2
<1>11. Sim!Count("ack", o) = 0
  <2>1. \A i \in 1 .. 2 : o[i] # "ack"
    BY <1>4
  <2>2. {i \in 1 .. Len(o) : o[i] = "ack"} = {}
    BY <1>4, <2>1
  <2>3. Sim!Count("ack", o) = Cardinality({i \in 1 .. Len(o) : o[i] = "ack"})
    <3>1. o \in Seq(Messages)
      BY <1>4
    <3> QED
      BY <3>1, CountIsNumber
  <2> QED
    BY <2>2, <2>3, FS_EmptySet, Zenon
<1>12. Sim!MarksAccounted' /\ crowded' \in BOOLEAN
  BY <1>1, <1>3, <1>4, <1>5, <1>11, SentAccounted, Zenon
<1>9. CASE ~up
  <2>1. sent' = <<>> /\ pc' = "done" /\ ~up'
    BY <1>1, <1>2, <1>6, <1>9
  <2>2. SimTypeOK'
    BY <1>1, <1>6, <1>12, <2>1 DEF SimTypeOK
  <2>3. Opened' /\ Carried' /\ Closed'
    BY <1>8, <2>1 DEF Opened, Carried, Closed
  <2> QED
    BY <1>12, <2>2, <2>3
<1>10. CASE up
  <2>1. PICK t : t = sent'
    OBVIOUS
  <2>2. /\ t \in Seq(Messages) /\ Len(t) = 0 + 2 + 0
        /\ \A i \in 1 .. 2 : t[0 + i] = o[i]
    BY <1>4, <1>5, <1>8, <1>10, <2>1, Zenon DEF Longer
  <2>3. Len(t) = 2 /\ t[1] = "connected" /\ t[2] = "start"
    <3>1. 1 \in 1 .. 2 /\ 2 \in 1 .. 2 /\ 0 + 1 = 1 /\ 0 + 2 = 2 /\ 0 + 2 + 0 = 2
      OBVIOUS
    <3> QED
      BY <1>4, <2>2, <3>1
  <2>5. pc' = "round" /\ up'
    BY <1>1, <1>10
  <2>6. SimTypeOK'
    BY <1>1, <1>6, <1>12, <2>1, <2>2, <2>5 DEF SimTypeOK
  <2>7. Opened' /\ Carried' /\ Closed'
    BY <2>1, <2>3, <2>5 DEF Opened, Carried, Closed
  <2> QED
    BY <1>12, <2>6, <2>7
<1> QED
  BY <1>5, <1>9, <1>10

LEMMA PushesKeeps ==
  ASSUME SimInv, Sim!Pushes
  PROVE  SimInv'
<1> USE DEF SimInv
<1>1. /\ pc = "round" /\ pc' = "read" /\ Sim!Drain(Append(outbound, "media"), marks)
      /\ crowded' = (crowded \/ Sim!Loses(marks))
      /\ UNCHANGED <<audio, up, script, arriving>>
  BY DEF Sim!Pushes, Sim!netVars
<1>2. outbound = <<>> /\ marks \in Seq(Nat) /\ up \in BOOLEAN
  BY DEF SimTypeOK
<1>3. PICK o : o = <<"media">>
  OBVIOUS
<1>4. /\ o \in Seq(Messages) /\ o \in Seq({"media", "ack"}) /\ Append(outbound, "media") = o
  BY <1>2, <1>3 DEF Messages
<1>5. /\ marks' \in Seq(Nat) /\ outbound' = <<>> /\ (~up => sent' = sent)
      /\ \E n, k \in Nat : Harvested(o, marks, n, k)
  BY <1>1, <1>2, <1>4, Drains, Zenon
<1>6. PICK k \in Nat : up => Longer(sent', sent, o, k)
  BY <1>5, Zenon DEF Harvested
<1>7. sent' \in Seq(Messages) /\ Opened' /\ Carried' /\ Closed'
  BY <1>1, <1>4, <1>5, <1>6, CallGoesOn
<1>8. Sim!Count("ack", o) = 0
  BY <1>3, CountOfOne
<1>9. Sim!MarksAccounted' /\ crowded' \in BOOLEAN
  BY <1>1, <1>4, <1>8, SentAccounted, Zenon
<1>10. SimTypeOK'
  BY <1>1, <1>5, <1>7, <1>9 DEF SimTypeOK
<1> QED
  BY <1>7, <1>9, <1>10

LEMMA ReadsKeepsSim ==
  ASSUME SimInv, Sim!Reads
  PROVE  SimInv'
<1> USE DEF SimInv
<1>1. /\ pc = "read" /\ pc' = "poll" /\ UNCHANGED <<outbound, sent, up, script, arriving, crowded>>
  BY DEF Sim!Reads, Sim!netVars
<1>2. PICK n : /\ n = Sim!Min({ReadLen, audio}) /\ audio' = audio - n
               /\ marks' = [i \in DOMAIN marks |-> IF marks[i] >= n THEN marks[i] - n ELSE 0]
  BY DEF Sim!Reads
<1>3. audio \in Nat /\ marks \in Seq(Nat) /\ ReadLen \in Nat
  BY PartsConstants DEF SimTypeOK, Sim!SimConstants
<1>4. n \in Nat /\ n <= audio
  <2>1. \E x \in {ReadLen, audio} : \A y \in {ReadLen, audio} : x <= y
    <3>1. ReadLen <= audio \/ audio <= ReadLen
      BY <1>3
    <3> QED
      BY <1>3, <3>1
  <2>2. n \in {ReadLen, audio} /\ \A y \in {ReadLen, audio} : n <= y
    BY <1>2, <2>1 DEF Sim!Min
  <2> QED
    BY <1>3, <2>2
<1>5. PICK l \in Nat : l = Len(marks) /\ DOMAIN marks = 1 .. l
  BY <1>3
<1>12. PICK r : r = [i \in 1 .. l |-> IF marks[i] >= n THEN marks[i] - n ELSE 0]
  OBVIOUS
<1>6. ASSUME NEW i \in 1 .. l PROVE r[i] \in Nat
  BY <1>3, <1>4, <1>5, <1>12
<1>7. r \in Seq(Nat) /\ Len(r) = l
  BY <1>5, <1>12, <1>6
<1>8. marks' \in Seq(Nat) /\ Len(marks') = Len(marks) /\ audio' \in Nat
  BY <1>2, <1>3, <1>4, <1>5, <1>12, <1>7
<1>9. SimTypeOK'
  BY <1>1, <1>8 DEF SimTypeOK
<1>10. Opened' /\ Carried' /\ Closed'
  BY <1>1 DEF Opened, Carried, Closed
<1>11. Sim!MarksAccounted'
  BY <1>1, <1>8, Zenon DEF Sim!MarksAccounted
<1> QED
  BY <1>9, <1>10, <1>11

\* A message of the peer: the acks it causes, and the marks it leaves.
LEMMA OnTextKeeps ==
  ASSUME SimInv, Sim!OnText
  PROVE  SimInv'
<1> USE DEF SimInv
<1>1. /\ pc = "poll" /\ arriving # <<>> /\ arriving' = Tail(arriving)
      /\ UNCHANGED <<pc, up, script>>
  BY DEF Sim!OnText
<1>2. PICK e : e = Head(arriving)
  OBVIOUS
<1>3. /\ arriving \in Seq(Inbound) /\ marks \in Seq(Nat) /\ audio \in Nat /\ outbound = <<>>
      /\ up \in BOOLEAN
  BY DEF SimTypeOK
<1>4. /\ e \in Inbound /\ Tail(arriving) \in Seq(Inbound)
      /\ Sim!Count("mark", arriving) =
           (IF e = "mark" THEN 1 ELSE 0) + Sim!Count("mark", Tail(arriving))
  BY <1>1, <1>2, <1>3, CountOfTail, Zenon
<1>5. PICK l \in Nat : l = Len(marks)
  BY <1>3
<1>13. PICK refused \in BOOLEAN : refused = (e = "mark" /\ Len(marks) >= MarkMax)
  OBVIOUS
<1>6. PICK o, m :
        /\ o = IF e = "clear" THEN outbound \o Sim!Acks(Len(marks)) ELSE outbound
        /\ m = CASE e = "clear" -> <<>>
                 [] e = "mark" -> IF refused THEN marks ELSE Append(marks, audio)
                 [] e = "media" -> marks
        /\ audio' = CASE e = "clear" -> 0
                      [] e = "mark" -> audio
                      [] e = "media" -> Sim!Min({audio + 1, PlayoutCap})
        /\ Sim!Drain(o, m)
        /\ crowded' = (crowded \/ refused \/ Sim!Loses(m))
  BY <1>2, <1>13, Zenon DEF Sim!OnText
<1>14. PICK r \in {0, 1} : r = IF refused THEN 1 ELSE 0
  OBVIOUS
<1>7. /\ o \in Seq(Messages) /\ o \in Seq({"media", "ack"}) /\ m \in Seq(Nat) /\ audio' \in Nat
      /\ Sim!Count("ack", o) \in Nat
      /\ Len(m) + Sim!Count("ack", o) + r = l + (IF e = "mark" THEN 1 ELSE 0)
      /\ r = 1 => Len(m) >= MarkMax
  <2>1. CASE e = "clear"
    <3>1. PICK a : a = Sim!Acks(l)
      OBVIOUS
    <3>2. /\ a \in Seq(Messages) /\ Len(a) = l /\ (\A i \in 1 .. l : a[i] = "ack")
          /\ Sim!Count("ack", a) = l
      BY <3>1, CountOfAcks, Zenon
    <3>3. o = a
      <4>1. o = <<>> \o a
        BY <1>3, <1>5, <1>6, <2>1, <3>1, Zenon
      <4> QED
        BY <3>2, <4>1
    <3>4. a \in Seq({"media", "ack"})
      <4>1. a = [i \in 1 .. l |-> a[i]]
        BY <3>2
      <4> QED
        BY <3>2, <4>1
    <3>5. m = <<>> /\ audio' = 0
      BY <1>6, <2>1, Zenon
    <3>6. r = 0 /\ r # 1
      <4>1. "clear" # "mark" /\ 0 # 1
        OBVIOUS
      <4>2. ~refused
        BY <1>13, <2>1, <4>1, Zenon
      <4> QED
        BY <1>14, <4>1, <4>2, Zenon
    <3> QED
      BY <2>1, <3>2, <3>3, <3>4, <3>5, <3>6
  <2>2. CASE e = "mark"
    <3>0. "mark" # "clear" /\ "mark" # "media"
      OBVIOUS
    <3>1. o = <<>> /\ audio' = audio /\ m = IF refused THEN marks ELSE Append(marks, audio)
      BY <1>3, <1>6, <2>2, <3>0, Zenon
    <3>2. m \in Seq(Nat) /\ Len(m) + r = l + 1 /\ (r = 1 => Len(m) >= MarkMax)
      <4>1. CASE refused
        <5>1. m = marks /\ r = 1 /\ Len(marks) >= MarkMax
          BY <1>13, <1>14, <3>1, <4>1, Zenon
        <5> QED
          BY <1>3, <1>5, <5>1
      <4>2. CASE ~refused
        <5>1. m = Append(marks, audio) /\ r = 0
          BY <1>14, <3>1, <4>2, Zenon
        <5> QED
          BY <1>3, <1>5, <5>1
      <4> QED
        BY <4>1, <4>2
    <3>3. Sim!Count("ack", o) = 0
      BY <3>1, CountOfNone
    <3>4. Len(m) + 0 + r = l + 1
      BY <3>2
    <3> QED
      BY <1>3, <2>2, <3>1, <3>2, <3>3, <3>4
  <2>3. CASE e = "media"
    <3>0. "media" # "clear" /\ "mark" # "media"
      OBVIOUS
    <3>1. o = <<>> /\ m = marks /\ audio' = Sim!Min({audio + 1, PlayoutCap})
      BY <1>3, <1>6, <2>3, <3>0, Zenon
    <3>2. Sim!Count("ack", o) = 0
      BY <3>1, CountOfNone
    <3>3. r = 0 /\ r # 1
      <4>1. 0 # 1
        OBVIOUS
      <4>2. ~refused
        BY <1>13, <2>3, <3>0, Zenon
      <4> QED
        BY <1>14, <4>1, <4>2, Zenon
    <3>4. audio' \in Nat
      <4>1. audio + 1 \in Nat /\ PlayoutCap \in Nat
        BY <1>3, PartsConstants DEF Sim!SimConstants
      <4>2. PICK d \in Nat : d = audio + 1
        BY <4>1
      <4>3. d <= PlayoutCap \/ PlayoutCap <= d
        BY <4>1, <4>2
      <4>4. \E x \in {d, PlayoutCap} : \A y \in {d, PlayoutCap} : x <= y
        BY <4>1, <4>2, <4>3
      <4>5. Sim!Min({d, PlayoutCap}) \in {d, PlayoutCap}
        BY <4>4 DEF Sim!Min
      <4> QED
        BY <3>1, <4>1, <4>2, <4>5
    <3> QED
      BY <1>3, <1>5, <2>3, <3>1, <3>2, <3>3, <3>4
  <2> QED
    BY <1>4, <2>1, <2>2, <2>3 DEF Inbound
<1>8. /\ marks' \in Seq(Nat) /\ outbound' = <<>> /\ (~up => sent' = sent)
      /\ \E n, k \in Nat : Harvested(o, m, n, k)
  BY <1>6, <1>7, Drains, Zenon
<1>9. PICK k \in Nat : up => Longer(sent', sent, o, k)
  BY <1>8, Zenon DEF Harvested
<1>10. sent' \in Seq(Messages) /\ Opened' /\ Carried' /\ Closed'
  BY <1>1, <1>7, <1>8, <1>9, CallGoesOn
<1>12. Sim!MarksAccounted' /\ crowded' \in BOOLEAN
  <2>1. PICK a \in Nat : a = Sim!Count("mark", script)
    BY CountsAreNumbers
  <2>2. PICK b \in Nat : b = Sim!Count("mark", Tail(arriving))
    BY <1>4, CountIsNumber
  <2>3. PICK f \in Nat : f = IF e = "mark" THEN 1 ELSE 0
    OBVIOUS
  <2>4. PICK g \in Nat, h \in Nat : g = Len(m) /\ h = Sim!Count("ack", o)
    BY <1>7
  <2>5. g + h + r = l + f
    BY <1>7, <2>3, <2>4, Zenon
  <2>6. a + b + g + h + r = a + (f + b) + l
    BY <2>5
  <2>7. /\ Sim!Count("mark", script') = a /\ Sim!Count("mark", arriving') = b
        /\ Sim!Count("mark", arriving) = f + b
    BY <1>1, <1>4, <2>1, <2>2, <2>3, Zenon
  <2>8. Sim!Count("mark", script') + Sim!Count("mark", arriving') + Len(m)
          + Sim!Count("ack", o) + r
        = Sim!Count("mark", script) + Sim!Count("mark", arriving) + Len(marks)
    BY <1>5, <2>1, <2>4, <2>6, <2>7, Zenon
  <2>9. refused <=> r = 1
    BY <1>14
  <2>10. crowded' = (crowded \/ r = 1 \/ Sim!Loses(m))
    BY <1>6, <2>9, Zenon
  <2>11. up' = up /\ script' \in Seq(Inbound) /\ arriving' \in Seq(Inbound)
    BY <1>1, <1>4 DEF SimTypeOK
  <2>12. Sim!Drain(o, m) /\ o \in Seq(Messages) /\ m \in Seq(Nat) /\ (r = 1 => Len(m) >= MarkMax)
    BY <1>6, <1>7, Zenon
  <2> QED
    BY <2>8, <2>10, <2>11, <2>12, DrainsAccounted, Zenon
<1>11. SimTypeOK'
  BY <1>1, <1>4, <1>7, <1>8, <1>10, <1>12 DEF SimTypeOK
<1> QED
  BY <1>10, <1>11, <1>12

\* The stop, and behind it the acks of what the last read completed.
LEMMA StopsKeeps ==
  ASSUME SimInv, Sim!Stops
  PROVE  SimInv'
<1> USE DEF SimInv
<1>1. /\ pc = "stop" /\ pc' = "done" /\ Sim!Drain(Append(outbound, "stop"), marks)
      /\ crowded' = (crowded \/ Sim!Loses(marks))
      /\ UNCHANGED <<audio, up, script, arriving>>
  BY DEF Sim!Stops, Sim!netVars
<1>2. outbound = <<>> /\ marks \in Seq(Nat) /\ up \in BOOLEAN /\ sent \in Seq(Messages)
  BY DEF SimTypeOK
<1>3. PICK o : o = <<"stop">>
  OBVIOUS
<1>4. o \in Seq(Messages) /\ Append(outbound, "stop") = o /\ Len(o) = 1 /\ o[1] = "stop"
  BY <1>2, <1>3 DEF Messages
<1>5. /\ marks' \in Seq(Nat) /\ outbound' = <<>> /\ (~up => sent' = sent)
      /\ \E n, k \in Nat : Harvested(o, marks, n, k)
  BY <1>1, <1>2, <1>4, Drains, Zenon
<1>6. PICK k \in Nat : up => Longer(sent', sent, o, k)
  BY <1>5, Zenon DEF Harvested
<1>9. Sim!MarksAccounted' /\ crowded' \in BOOLEAN
  <2>1. Sim!Count("ack", o) = 0
    BY <1>3, CountOfOne
  <2> QED
    BY <1>1, <1>4, <2>1, SentAccounted, Zenon
<1>7. CASE ~up
  <2>1. sent' = sent /\ ~up'
    BY <1>1, <1>5, <1>7
  <2>2. SimTypeOK'
    BY <1>1, <1>2, <1>5, <1>9, <2>1 DEF SimTypeOK
  <2>3. Opened' /\ Carried' /\ Closed'
    BY <1>1, <2>1 DEF Opened, Carried, Closed
  <2> QED
    BY <1>9, <2>2, <2>3
<1>8. CASE up
  <2>1. PICK t : t = sent'
    OBVIOUS
  <2>2. PICK n \in Nat : n = Len(sent)
    BY <1>2
  <2>3. /\ t \in Seq(Messages) /\ Len(t) = n + 1 + k
        /\ \A i \in 1 .. n : t[i] = sent[i]
        /\ \A i \in 1 .. 1 : t[n + i] = o[i]
        /\ \A i \in 1 .. k : t[n + 1 + i] = "ack"
    BY <1>4, <1>6, <1>8, <2>1, <2>2, Zenon DEF Longer
  <2>4. n >= 2 /\ sent[1] = "connected" /\ sent[2] = "start"
    BY <1>1, <1>8, <2>2 DEF Opened
  <2>5. t[n + 1] = "stop"
    <3>1. 1 \in 1 .. 1
      OBVIOUS
    <3> QED
      BY <1>4, <2>3, <3>1, Zenon
  <2>6. t[1] = "connected" /\ t[2] = "start" /\ Len(t) >= 2
    <3>1. 1 \in 1 .. n /\ 2 \in 1 .. n /\ n + 1 + k >= 2
      BY <2>4
    <3> QED
      BY <2>3, <2>4, <3>1
  <2>7. ASSUME NEW i \in 3 .. n PROVE t[i] \in {"media", "ack"}
    <3>1. sent[i] \in {"media", "ack"}
      BY <1>1, <2>2 DEF Carried
    <3>2. i \in 1 .. n
      OBVIOUS
    <3> QED
      BY <2>3, <3>1, <3>2, Zenon
  <2>8. ASSUME NEW i \in n + 2 .. n + 1 + k PROVE t[i] = "ack"
    <3>1. PICK j \in 1 .. k : i = n + 1 + j
      <4>1. i - (n + 1) \in 1 .. k /\ i = n + 1 + (i - (n + 1))
        OBVIOUS
      <4> QED
        BY <4>1
    <3> QED
      BY <2>3, <3>1
  <2>9. SimTypeOK'
    BY <1>1, <1>2, <1>5, <1>9, <2>1, <2>3 DEF SimTypeOK
  <2>10. Opened'
    BY <1>1, <2>1, <2>6 DEF Opened
  <2>11. Carried'
    <3>1. ASSUME NEW i \in 3 .. Len(t) PROVE t[i] \in {"media", "ack"} \/ t[i] = "stop"
      <4>1. i \in 3 .. n \/ i = n + 1 \/ i \in n + 2 .. n + 1 + k
        BY <2>3
      <4> QED
        BY <2>5, <2>7, <2>8, <4>1
    <3> QED
      BY <1>1, <2>1, <3>1 DEF Carried
  <2>12. Closed'
    <3>1. n + 1 \in 3 .. Len(t)
      BY <2>3, <2>4
    <3>2. ASSUME NEW j \in 1 .. Len(t), j # n + 1
          PROVE  t[j] # "stop" /\ (j > n + 1 => t[j] = "ack")
      <4>1. j = 1 \/ j = 2 \/ j \in 3 .. n \/ j \in n + 2 .. n + 1 + k
        BY <2>3, <3>2
      <4>2. CASE j \in n + 2 .. n + 1 + k
        BY <2>8, <4>2
      <4>3. CASE j = 1 \/ j = 2
        <5>1. t[j] # "stop"
          BY <2>6, <4>3
        <5>2. ~(j > n + 1)
          BY <2>4, <4>3
        <5> QED
          BY <5>1, <5>2
      <4>4. CASE j \in 3 .. n
        <5>1. t[j] # "stop"
          BY <2>7, <4>4
        <5>2. ~(j > n + 1)
          BY <4>4
        <5> QED
          BY <5>1, <5>2
      <4> QED
        BY <4>1, <4>2, <4>3, <4>4
    <3> QED
      BY <2>1, <2>5, <3>1, <3>2 DEF Closed
  <2> QED
    BY <1>9, <2>9, <2>10, <2>11, <2>12
<1> QED
  BY <1>2, <1>7, <1>8

LEMMA PeerSendsKeeps ==
  ASSUME SimInv, Sim!PeerSends
  PROVE  SimInv'
<1> USE DEF SimInv
<1>1. /\ script # <<>> /\ arriving' = Append(arriving, Head(script)) /\ script' = Tail(script)
      /\ UNCHANGED <<pc, audio, marks, outbound, sent, up, crowded>>
  BY DEF Sim!PeerSends, Sim!playVars
<1>2. script \in Seq(Inbound) /\ arriving \in Seq(Inbound)
  BY DEF SimTypeOK
<1>3. /\ Head(script) \in Inbound /\ Tail(script) \in Seq(Inbound)
      /\ Sim!Count("mark", script) =
           (IF Head(script) = "mark" THEN 1 ELSE 0) + Sim!Count("mark", Tail(script))
  BY <1>1, <1>2, CountOfTail, Zenon
<1>4. Sim!Count("mark", Append(arriving, Head(script))) =
        Sim!Count("mark", arriving) + (IF Head(script) = "mark" THEN 1 ELSE 0)
  BY <1>2, <1>3, CountOfMore, Zenon
<1>5. SimTypeOK'
  BY <1>1, <1>2, <1>3 DEF SimTypeOK
<1>6. Opened' /\ Carried' /\ Closed'
  BY <1>1 DEF Opened, Carried, Closed
<1>7. Sim!MarksAccounted'
  <2>1. PICK f \in Nat : f = IF Head(script) = "mark" THEN 1 ELSE 0
    OBVIOUS
  <2>2. Sim!Count("mark", Tail(script)) \in Nat
    BY <1>3, CountIsNumber, Zenon
  <2>3. PICK a \in Nat, b \in Nat, l \in Nat, c \in Nat :
          /\ a = Sim!Count("mark", Tail(script)) /\ b = Sim!Count("mark", arriving)
          /\ l = Len(marks) /\ c = Sim!Count("ack", sent)
    BY <2>2, CountsAreNumbers
  <2>4. Sim!Count("mark", script) = f + a /\ Sim!Count("mark", arriving') = b + f
    BY <1>1, <1>3, <1>4, <2>1, <2>3, Zenon
  <2>5. f + a + b + l + c = a + (b + f) + l + c
    OBVIOUS
  <2>6. Known(script, arriving, marks, sent) = f + a + b + l + c
    BY <2>3, <2>4, Zenon DEF Known
  <2>7. Known(script', arriving', marks', sent') = a + (b + f) + l + c
    BY <1>1, <2>3, <2>4, Zenon DEF Known
  <2>8. Known(script', arriving', marks', sent') = Known(script, arriving, marks, sent)
    BY <2>5, <2>6, <2>7, Zenon
  <2> QED
    BY <1>1, <2>8, AccountedIsBooks, Zenon
<1> QED
  BY <1>5, <1>6, <1>7

\* The steps that send nothing and leave the playout alone.
LEMMA QuietKeeps ==
  ASSUME SimInv, pc \notin {"start", "done"}, pc' \in {"round", "report", "stop"},
         UNCHANGED <<audio, marks, outbound, sent, up, script, arriving, crowded>>
  PROVE  SimInv'
<1> USE DEF SimInv
<1>1. SimTypeOK'
  BY DEF SimTypeOK
<1>2. Opened' /\ Carried' /\ Closed'
  BY DEF Opened, Carried, Closed
<1>3. Sim!MarksAccounted'
  BY DEF Sim!MarksAccounted
<1> QED
  BY <1>1, <1>2, <1>3

LEMMA BreaksKeeps ==
  ASSUME SimInv, Sim!Breaks
  PROVE  SimInv'
<1> USE DEF SimInv
<1>1. up' = FALSE /\ UNCHANGED <<pc, audio, marks, outbound, sent, script, arriving, crowded>>
  BY DEF Sim!Breaks, Sim!playVars
<1>2. SimTypeOK'
  BY <1>1 DEF SimTypeOK
<1>3. Opened' /\ Carried' /\ Closed'
  BY <1>1 DEF Opened, Carried, Closed
<1>4. Sim!MarksAccounted'
  BY <1>1 DEF Sim!MarksAccounted
<1> QED
  BY <1>2, <1>3, <1>4

LEMMA SimStep == SimInv /\ [Sim!Next]_(Sim!vars) => SimInv'
<1> SUFFICES ASSUME SimInv, [Sim!Next]_(Sim!vars) PROVE SimInv'
  OBVIOUS
<1>1. CASE UNCHANGED Sim!vars
  <2>1. UNCHANGED <<pc, audio, marks, outbound, sent, up, script, arriving, crowded>>
    BY <1>1 DEF Sim!vars
  <2> QED
    BY <2>1 DEF SimInv, SimTypeOK, Opened, Carried, Closed, Sim!MarksAccounted
<1>2. CASE Sim!Starts
  BY <1>2, StartsKeepsSim
<1>3. CASE Sim!Pushes
  BY <1>3, PushesKeeps
<1>4. CASE Sim!Reads
  BY <1>4, ReadsKeepsSim
<1>5. CASE Sim!OnText
  BY <1>5, OnTextKeeps
<1>6. CASE Sim!PollEnds \/ Sim!PollFails \/ Sim!LoopEnds \/ Sim!Reports
  <2>1. /\ pc \in {"poll", "round", "report"} /\ pc' \in {"round", "report", "stop"}
        /\ UNCHANGED <<audio, marks, outbound, sent, up, script, arriving, crowded>>
    BY <1>6 DEF Sim!PollEnds, Sim!PollFails, Sim!LoopEnds, Sim!Reports, Sim!playVars, Sim!netVars
  <2> QED
    BY <2>1, QuietKeeps
<1>7. CASE Sim!Stops
  BY <1>7, StopsKeeps
<1>8. CASE Sim!PeerSends
  BY <1>8, PeerSendsKeeps
<1>9. CASE Sim!Breaks
  BY <1>9, BreaksKeeps
<1> QED
  BY <1>1, <1>2, <1>3, <1>4, <1>5, <1>6, <1>7, <1>8, <1>9 DEF Sim!Next

LEMMA SimIsWhole == SimInv => WholeCall
<1> SUFFICES ASSUME SimInv PROVE Sim!WholeCall
  BY DEF SimInv, WholeCall
<1> USE DEF SimInv
<1>1. PICK n \in Nat : n = Len(sent) /\ DOMAIN sent = 1 .. n
  BY DEF SimTypeOK
<1>2. ASSUME NEW i \in DOMAIN sent, i <= 2 PROVE sent[i] = <<"connected", "start">>[i]
  <2>1. n >= 2 /\ (i = 1 \/ i = 2)
    BY <1>1, <1>2 DEF Opened
  <2> QED
    BY <1>1, <2>1 DEF Opened
<1>3. ASSUME NEW i \in 3 .. Len(sent) PROVE sent[i] \in {"media", "ack", "stop"}
  BY <1>3 DEF Carried
<1>4. ASSUME pc = "done", up
      PROVE  \E i \in DOMAIN sent :
               /\ sent[i] = "stop"
               /\ \A j \in DOMAIN sent \ {i} : sent[j] # "stop" /\ (j > i => sent[j] = "ack")
  <2>1. PICK i \in 3 .. n :
          /\ sent[i] = "stop"
          /\ \A j \in 1 .. n : j # i => sent[j] # "stop" /\ (j > i => sent[j] = "ack")
    BY <1>1, <1>4 DEF Closed
  <2>2. i \in 1 .. n
    OBVIOUS
  <2> QED
    BY <1>1, <2>1, <2>2, Zenon
<1> QED
  BY <1>2, <1>3, <1>4 DEF Sim!WholeCall

\* For every script of the peer, every amount of audio a round reads and every
\* number of rounds, and wherever the connection breaks, the peer of the simulator
\* sees connected, start, media and acks and, of a run that ends with the
\* connection up, one stop with nothing but acks behind it.  No mark is acknowledged
\* twice, and as long as the connection holds each mark that has reached the
\* simulator waits in the playout or was acknowledged, unless the array of marks was
\* full when it came or more were completed at once than one harvest takes: then the
\* script had more marks than the smaller of the two.
THEOREM SimulatorSendsWholeCalls == Sim!Spec => []WholeCall
<1>1. Sim!Init => SimInv
  BY SimStarts
<1>2. SimInv /\ [Sim!Next]_(Sim!vars) => SimInv'
  BY SimStep
<1>3. SimInv => WholeCall
  BY SimIsWhole
<1> QED
  BY <1>1, <1>2, <1>3, PTL DEF Sim!Spec

-----------------------------------------------------------------------------
(* The parts side by side *)

\* The run that puts the bridge's samples, the codecs and the simulator side by
\* side is a run of each of them, so what is proved of each holds in it.
THEOREM PartsOfTheMedia == MediaSpec => Spec /\ Base64Spec /\ Sim!Spec
<1>1. MediaInit => Init /\ Base64Init /\ Sim!Init
  BY Zenon DEF MediaInit
<1>2. [MediaNext]_mediaVars => [Next]_vars /\ [Base64Next]_in /\ [Sim!Next]_Sim!vars
  <2>1. ASSUME UNCHANGED simVars PROVE UNCHANGED Sim!vars
    BY <2>1, Zenon DEF simVars, Sim!vars
  <2>2. ASSUME UNCHANGED codecVars PROVE UNCHANGED in
    BY <2>2, Zenon DEF codecVars
  <2>3. [MediaNext]_mediaVars => [Next]_vars /\ [Base64Next]_in /\ [Sim!Next]_Sim!vars
    BY <2>1, <2>2, Zenon DEF MediaNext, mediaVars
  <2> QED
    BY <2>3
<1> QED
  BY <1>1, <1>2, PTL DEF MediaSpec, Spec, Base64Spec, Sim!Spec
=============================================================================
