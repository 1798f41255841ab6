------------------------------ MODULE RtwBase64 ------------------------------
(***************************************************************************)
(* base64 (src/core/rtw_base64.c): bytes are numbers below 256, characters *)
(* their ASCII codes, and the text ends where its sequence does.           *)
(***************************************************************************)
EXTENDS Integers, SequencesExt

PadChar == 61                  \* =
Blanks == {32, 10, 13, 9}
Failure == [failed |-> TRUE, out |-> <<>>]

kEnc(v) ==
  CASE v < 26 -> 65 + v
    [] v \in 26 .. 51 -> 97 + v - 26
    [] v \in 52 .. 61 -> 48 + v - 52
    [] v = 62 -> 43
    [] v = 63 -> 47

dec_val(c) ==
  CASE c \in 65 .. 90 -> c - 65
    [] c \in 97 .. 122 -> c - 97 + 26
    [] c \in 48 .. 57 -> c - 48 + 52
    [] c = 43 -> 62
    [] c = 47 -> 63
    [] OTHER -> -1

rtw_base64_encoded_len(n) == 4 * ((n + 2) \div 3) + 1

-----------------------------------------------------------------------------

\* Four characters for the three bytes from in[i + 1] on; where there are fewer,
\* the others count as zero and "=" stands for what they would have given.
Quad(in, i) ==
  LET byte(k) == IF i + k <= Len(in) THEN in[i + k] ELSE 0
      n == byte(1) * 65536 + byte(2) * 256 + byte(3)
  IN << kEnc(n \div 262144),
        kEnc((n \div 4096) % 64),
        IF i + 2 <= Len(in) THEN kEnc((n \div 64) % 64) ELSE PadChar,
        IF i + 3 <= Len(in) THEN kEnc(n % 64) ELSE PadChar >>

\* The characters of all groups, one group after another.
Characters(in) ==
  [k \in 1 .. 4 * ((Len(in) + 2) \div 3) |->
     Quad(in, 3 * ((k - 1) \div 4))[((k - 1) % 4) + 1]]

rtw_base64_encode(in, out_cap) ==
  IF out_cap < rtw_base64_encoded_len(Len(in)) THEN Failure
  ELSE [failed |-> FALSE, out |-> Characters(in)]

-----------------------------------------------------------------------------

\* What decoding has come to: the group's values and its pads, and the output.
Start == [failed |-> FALSE, val |-> <<>>, pad |-> 0, out |-> <<>>]

\* Mutant: the pads are not counted.
GroupBytesBug(val, pad) ==
  LET n == val[1] * 262144 + val[2] * 4096 + val[3] * 64 + val[4]
  IN << n \div 65536, (n \div 256) % 256, n % 256 >>

\* The bytes of a group: the first is written whatever the pads are.
GroupBytes(val, pad) ==
  LET n == val[1] * 262144 + val[2] * 4096 + val[3] * 64 + val[4]
  IN <<n \div 65536>>
       \o (IF pad < 2 THEN <<(n \div 256) % 256>> ELSE <<>>)
       \o (IF pad < 1 THEN <<n % 256>> ELSE <<>>)

\* o + (size_t)(3 - pad) > out_cap, where the sum is taken modulo 2^64.
NoRoom(o, pad, out_cap) ==
  LET sum == o + 3 - pad IN sum < 0 \/ sum > out_cap

Skipped(st, c) == c \in Blanks

Decode1(st, c, out_cap) ==
  LET v == IF c = PadChar THEN 0 ELSE dec_val(c)
      val == Append(st.val, v)
      pad == IF c = PadChar THEN st.pad + 1 ELSE st.pad
  IN IF st.failed \/ Skipped(st, c) THEN st
     ELSE IF v < 0 THEN [st EXCEPT !.failed = TRUE]
     ELSE IF Len(val) < 4 THEN [st EXCEPT !.val = val, !.pad = pad]
     ELSE IF NoRoom(Len(st.out), pad, out_cap) THEN [st EXCEPT !.failed = TRUE]
     ELSE [st EXCEPT !.val = <<>>, !.pad = 0, !.out = @ \o GroupBytes(val, pad)]

rtw_base64_decode(in, out_cap) ==
  LET st[k \in 0 .. Len(in)] ==
        IF k = 0 THEN Start ELSE Decode1(st[k - 1], in[k], out_cap)
      end == st[Len(in)]
  IN IF end.failed \/ end.val # <<>> THEN Failure
     ELSE [failed |-> FALSE, out |-> end.out]
=============================================================================
