--------------------------- MODULE ReedSolomonCode ----------------------------
(***************************************************************************)
(* The error-detecting code inside the addresses of crypto/reedsolomon.d:  *)
(* thirteen base-32 digits, four parity digits over GF(32), and the        *)
(* checker.  Someone writes a codeword down and gets symbols wrong.        *)
(***************************************************************************)
EXTENDS Naturals, Sequences, FiniteSets

Symbol == 0 .. 31
BASE32_LENGTH == 13

(* The digits an address is made from, and with its parity. *)
Word == [0 .. 12 -> Symbol]
Codeword == [0 .. 16 -> Symbol]

CONSTANTS
  Sent,        (* the words that are sent                                  *)
  MaxTypos,    (* how many symbols may be wrong                            *)
  TypoSymbol   (* and what they may be replaced by                         *)

ASSUME CodeAssumption ==
  Sent \subseteq Word /\ MaxTypos \in 0 .. 4 /\ TypoSymbol \subseteq Symbol

VARIABLES sent, received, typos

codeVars == <<sent, received, typos>>

GEXP == <<1, 2, 4, 8, 16, 5, 10, 20, 13, 26, 17, 7, 14, 28, 29, 31, 27, 19, 3, 6,
          12, 24, 21, 15, 30, 25, 23, 11, 22, 9, 18, 1>>
GLOG == <<0, 0, 1, 18, 2, 5, 19, 11, 3, 29, 6, 27, 20, 8, 12, 23, 4, 10, 30, 17,
          7, 22, 28, 26, 21, 25, 9, 16, 13, 14, 24, 15>>

------------------------------------------------------------------------------

Bit(x, d) == (x \div d) % 2

(* x ^ y on five bits. *)
Xor(x, y) ==
  LET bit(d) == (Bit(x, d) + Bit(y, d)) % 2
  IN  bit(1) + 2 * bit(2) + 4 * bit(4) + 8 * bit(8) + 16 * bit(16)

(* Mutant of gmult: the exponents are reduced modulo 32. *)
gmult32(a, b) ==
  IF a = 0 \/ b = 0 THEN 0 ELSE GEXP[((GLOG[a + 1] + GLOG[b + 1]) % 32) + 1]

gmult(a, b) ==
  IF a = 0 \/ b = 0 THEN 0 ELSE GEXP[((GLOG[a + 1] + GLOG[b + 1]) % 31) + 1]

(* The sum t of the checker after j rounds.  The code has length 31; its   *)
(* positions 13 to 26 are not transmitted.                                 *)
Rounds(codeword, i) ==
  LET t[j \in 0 .. 31] ==
        IF j = 0 THEN 0
        ELSE IF j - 1 > 12 /\ j - 1 < 27 THEN t[j - 1]
        ELSE LET pos == IF j - 1 > 26 THEN j - 15 ELSE j - 1
             IN  Xor(t[j - 1], gmult(codeword[pos], GEXP[((i * (j - 1)) % 31) + 1]))
  IN  t

Syndrome(codeword, i) == Rounds(codeword, i)[31]

(* Mutant of is_codeword_valid: `sum = t` for `sum |= t`, so that only the  *)
(* last syndrome counts.                                                   *)
is_codeword_valid_late(codeword) == \A i \in {4} : Syndrome(codeword, i) = 0

is_codeword_valid(codeword) == \A i \in 1 .. 4 : Syndrome(codeword, i) = 0

(* Mutant of Feed: one coefficient of the generator is wrong. *)
FeedWrong(p, digit) ==
  LET fb == Xor(digit, p[4])
  IN  <<gmult(17, fb), Xor(p[1], gmult(9, fb)),
        Xor(p[2], gmult(9, fb)), Xor(p[3], gmult(30, fb))>>

(* One round of the encoder's division: p with the next digit. *)
Feed(p, digit) ==
  LET fb == Xor(digit, p[4])
  IN  <<gmult(17, fb), Xor(p[1], gmult(9, fb)),
        Xor(p[2], gmult(6, fb)), Xor(p[3], gmult(30, fb))>>

(* The parity digits p[0 .. 3] after n of the thirteen digits, from the    *)
(* most significant one on.                                                *)
Parity(word) ==
  LET p[n \in 0 .. 13] ==
        IF n = 0 THEN <<0, 0, 0, 0>> ELSE Feed(p[n - 1], word[BASE32_LENGTH - n])
  IN  p

WithParity(word) ==
  LET p == Parity(word)[BASE32_LENGTH]
  IN  [k \in 0 .. 16 |-> IF k < BASE32_LENGTH THEN word[k] ELSE p[k - 12]]

------------------------------------------------------------------------------

CodeInit ==
  /\ sent \in Sent
  /\ received = WithParity(sent)
  /\ typos = {}

(* One more symbol is written down wrong. *)
Typo(k, c) ==
  /\ Cardinality(typos) < MaxTypos
  /\ k \notin typos /\ received[k] # c
  /\ received' = [received EXCEPT ![k] = c]
  /\ typos' = typos \cup {k}
  /\ UNCHANGED sent

CodeNext == \E k \in 0 .. 16, c \in TypoSymbol : Typo(k, c)

CodeSpec == CodeInit /\ [][CodeNext]_codeVars

------------------------------------------------------------------------------

(* The parity digits the encoder computes by polynomial division make all  *)
(* four syndromes of the checker vanish (reedsolomon.d:83, :191).          *)
EncodedIsCodeword == typos = {} => is_codeword_valid(received)

(* The checker sees every codeword with up to MaxTypos wrong symbols       *)
(* (reedsolomon.d:187).                                                    *)
TyposDetected == typos # {} => ~is_codeword_valid(received)

(* x * p in GF(2)[x] modulo x^5 + x^2 + 1, polynomials as bit masks. *)
TimesX(p) == IF p >= 16 THEN Xor(2 * p - 32, 5) ELSE 2 * p

(* The product p * q there, by Horner's rule from the highest bit of q. *)
Product(p, q) ==
  LET next(r, d) == Xor(TimesX(r), IF Bit(q, d) = 1 THEN p ELSE 0)
  IN  next(next(next(next(next(0, 16), 8), 4), 2), 1)

(* gmult, which goes through the tables of powers and logarithms, is the   *)
(* product of the field GF(32) (reedsolomon.d:175), for the symbols of a   *)
(* codeword and all others.                                                *)
GmultIsFieldProduct ==
  typos = {} =>
    \A k \in 0 .. 16, b \in Symbol : gmult(received[k], b) = Product(received[k], b)
==============================================================================
