----------------------------- MODULE ReedSolomon -----------------------------
(***************************************************************************)
(* The addresses of crypto/reedsolomon.d: a 64-bit number in thirteen      *)
(* base-32 digits, with the parity of ReedSolomonCode, the seventeen       *)
(* digits permuted and written in groups.  An address is made from a       *)
(* number, then written down by someone who gets a few of its symbols      *)
(* wrong, or loses the end of it.                                          *)
(*                                                                         *)
(* A number is the sequence of its decimal digits (what to!string gives    *)
(* and BigInt reads); a character of an address is its position 0 .. 31 in *)
(* the alphabet, or Dash for a character that is not in the alphabet.      *)
(***************************************************************************)
EXTENDS ReedSolomonCode

Dash == 32

INITIAL_CODEWORD == [k \in 0 .. 16 |-> IF k = 0 THEN 1 ELSE 0]
CODEWORD_MAP == <<3, 2, 1, 0, 7, 6, 5, 4, 13, 14, 15, 16, 12, 8, 9, 10, 11>>
BASE10_LENGTH == 20

------------------------------------------------------------------------------

(* A base conversion takes the next digit x of a number it divides by `to`: *)
(* the quotient is written, in place in the code, without leading zeros.   *)
DivideStep(acc, x, from, to) ==
  LET d == acc.rest * from + x
  IN  [rest |-> d % to,
       quot |-> IF d >= to THEN Append(acc.quot, d \div to)
                ELSE IF acc.quot # <<>> THEN Append(acc.quot, 0)
                ELSE <<>>]

(* One pass over the digits of a number. *)
Divide(digits, from, to) ==
  LET acc[n \in 0 .. Len(digits)] ==
        IF n = 0 THEN [rest |-> 0, quot |-> <<>>]
        ELSE DivideStep(acc[n - 1], digits[n], from, to)
  IN  acc[Len(digits)]

(* The body of the do-while loop around it, while digits are left. *)
Pass(acc, from, to) ==
  IF acc.left = <<>> THEN acc
  ELSE LET d == Divide(acc.left, from, to)
       IN  [left |-> d.quot, out |-> Append(acc.out, d.rest)]

(* The loop: digits in base `to`, least first, of a number of at least one *)
(* digit.  No address or long takes more than BASE10_LENGTH passes.        *)
Convert(digits, from, to) ==
  LET acc[k \in 0 .. BASE10_LENGTH] ==
        IF k = 0 THEN [left |-> digits, out |-> <<>>]
        ELSE Pass(acc[k - 1], from, to)
  IN  acc[BASE10_LENGTH].out

(* The thirteen base-32 digits of a number, least first. *)
Digits(plain) ==
  LET digits == Convert(plain, 10, 32)
  IN  [k \in 0 .. 12 |-> IF k < Len(digits) THEN digits[k + 1] ELSE 0]

(* Seventeen symbols with a dash after the fourth, eighth and twelfth. *)
Written(codeword) ==
  [i \in 1 .. 20 |-> IF i \in {5, 10, 15} THEN Dash
                     ELSE codeword[CODEWORD_MAP[i - ((i - 1) \div 5)]]]

encode(plain) == Written(WithParity(Digits(plain)))

------------------------------------------------------------------------------

(* decode reads a character: one of the alphabet is put in its place, and  *)
(* a length above 17 says that it found no place (the enforce in the loop). *)
Place(acc, c) ==
  IF c \notin Symbol THEN acc
  ELSE [word |-> IF acc.length > 16 THEN acc.word
                 ELSE [acc.word EXCEPT ![CODEWORD_MAP[acc.length + 1]] = c],
        length |-> acc.length + 1]

Scan(address) ==
  LET acc[n \in 0 .. Len(address)] ==
        IF n = 0 THEN [word |-> INITIAL_CODEWORD, length |-> 0]
        ELSE Place(acc[n - 1], address[n])
  IN  acc[Len(address)]

(* BigInt.toLong: the value, or long.max when it does not fit. *)
LongMax == <<9, 2, 2, 3, 3, 7, 2, 0, 3, 6, 8, 5, 4, 7, 7, 5, 8, 0, 7>>
Above(x, y) ==
  \/ Len(x) > Len(y)
  \/ /\ Len(x) = Len(y)
     /\ \E i \in 1 .. Len(x) : x[i] > y[i] /\ \A j \in 1 .. i - 1 : x[j] = y[j]
toLong(digits) == IF Above(digits, LongMax) THEN LongMax ELSE digits

(* The number whose decimal digits, least first, the second loop has put    *)
(* out: they are reversed and read as a BigInt.                            *)
Number(out) == toLong([i \in 1 .. Len(out) |-> out[(Len(out) + 1) - i]])

Refused == <<>>

(* Mutant of decode: the thirteen digits are taken in the wrong order. *)
decodeReversed(address) ==
  LET word == Scan(address).word
  IN  Number(Convert([i \in 1 .. BASE32_LENGTH |-> word[i - 1]], 32, 10))

(* Mutant of decode: short addresses are not checked either. *)
decodeUnchecked(address) ==
  LET read == Scan(address)
      digits == [i \in 1 .. BASE32_LENGTH |-> read.word[BASE32_LENGTH - i]]
  IN  IF read.length > 17 THEN Refused ELSE Number(Convert(digits, 32, 10))

(* Mutant of decode: addresses of every length are checked. *)
decodeChecked(address) ==
  LET read == Scan(address)
      digits == [i \in 1 .. BASE32_LENGTH |-> read.word[BASE32_LENGTH - i]]
  IN  IF read.length > 17 \/ ~is_codeword_valid(read.word)
      THEN Refused
      ELSE Number(Convert(digits, 32, 10))

(* More than seventeen symbols are refused.  The codeword is checked only  *)
(* when there are fewer; then the missing ones keep their initial values.  *)
decode(address) ==
  LET read == Scan(address)
      digits == [i \in 1 .. BASE32_LENGTH |-> read.word[BASE32_LENGTH - i]]
  IN  IF read.length > 17 \/ (read.length # 17 /\ ~is_codeword_valid(read.word))
      THEN Refused
      ELSE Number(Convert(digits, 32, 10))

------------------------------------------------------------------------------

(* What to!string gives for a long that is not negative. *)
IsLong(x) ==
  /\ x \in Seq(0 .. 9) /\ x # <<>>
  /\ x[1] = 0 => Len(x) = 1
  /\ ~Above(x, LongMax)

CONSTANTS
  Plain,       (* the numbers, as decimal digits                           *)
  TypoPlain,   (* those whose address is written down wrong                *)
  MaxCut       (* how many characters may be missing at the end            *)

ASSUME AddressAssumption == (\A x \in Plain : IsLong(x)) /\ MaxCut \in 0 .. 4

VARIABLES plain, cut

vars == <<codeVars, plain, cut>>

Init ==
  /\ plain \in Plain /\ cut = 0
  /\ CodeInit /\ sent = Digits(plain)

Mistype(k, c) ==
  /\ cut = 0 /\ plain \in TypoPlain
  /\ Typo(k, c)
  /\ UNCHANGED <<plain, cut>>

Cut ==
  /\ typos = {} /\ cut < MaxCut
  /\ cut' = cut + 1
  /\ UNCHANGED <<codeVars, plain>>

Next == Cut \/ \E k \in 0 .. 16, c \in TypoSymbol : Mistype(k, c)

Spec == Init /\ [][Next]_vars

------------------------------------------------------------------------------

(* What is left of the address. *)
address == SubSeq(Written(received), 1, 20 - cut)

(* Decoding inverts encoding (reedsolomon.d:309). *)
RoundTrip == typos = {} /\ cut = 0 => decode(encode(plain)) = plain

(* An address that has lost up to four symbols at its end is refused, or   *)
(* still gives its number: never another one.                              *)
CutNeverMisread == typos = {} => decode(address) \in {Refused, plain}

(* The check digits of an address of full length play no part: decode      *)
(* accepts it whatever is wrong, and gives its number if and only if the   *)
(* thirteen digits are right (reedsolomon.d:134).  The largest long is     *)
(* left out: toLong also gives it for every number above.                  *)
CheckDigitsIgnored ==
  cut = 0 => /\ decode(address) # Refused
             /\ plain # LongMax => (decode(address) = plain <=> typos \subseteq 13 .. 16)

(* decode refuses an address with wrong symbols (reedsolomon.d:19:         *)
(* "Owlchain address is a reedsolomon error correction code").             *)
TyposRefused == typos # {} => decode(address) = Refused
==============================================================================
