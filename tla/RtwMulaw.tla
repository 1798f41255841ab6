------------------------------ MODULE RtwMulaw ------------------------------
(***************************************************************************)
(* The mu-law codec (src/core/rtw_mulaw.c) on 16-bit samples.  Shifts are   *)
(* divisions that round down, masks are remainders; the complement of a     *)
(* byte b is 255 - b.                                                      *)
(***************************************************************************)
EXTENDS Integers

BIAS == 132
CLIP == 32635

\* The value that int16_t keeps of x.
Int16(x) == ((x + 32768) % 65536) - 32768

\* exp_lut: the place of the highest bit of a byte, 0 for a byte of 0
exp_lut(i) ==
  CHOOSE e \in 0 .. 7 : (2 ^ e <= i \/ e = 0) /\ (e = 7 \/ i < 2 ^ (e + 1))

\* Mutant: no clipping; the bias then runs over.
ClippedBug(s) == s

Clipped(s) == IF s > CLIP THEN CLIP ELSE s

rtw_linear_to_mulaw(sample) ==
  LET sign == IF sample < 0 THEN 128 ELSE 0
      mag  == Int16(Clipped(IF sample < 0 THEN Int16(-sample) ELSE sample) + BIAS)
      exponent == exp_lut((mag \div 128) % 256)
      mantissa == (mag \div 2 ^ (exponent + 3)) % 16
  IN 255 - (sign + 16 * exponent + mantissa)

Expanded(exponent, mantissa) == (8 * mantissa + BIAS) * 2 ^ exponent - BIAS

rtw_mulaw_to_linear(mulaw) ==
  LET m == 255 - mulaw
      sample == Expanded((m \div 16) % 8, m % 16)
  IN Int16(IF m >= 128 THEN -sample ELSE sample)
=============================================================================
