------------------------ MODULE ReedSolomonCode_proofs ------------------------
(***************************************************************************)
(* Proofs about the code for every word: the encoder's parity satisfies    *)
(* the checker, and the checker sees up to four wrong symbols.             *)
(***************************************************************************)
EXTENDS ReedSolomonCode, FiniteSetTheorems, WellFoundedInduction, TLAPS

a \oplus b == Xor(a, b)
a \otimes b == gmult(a, b)

(* The n-th power of the generator, as the checker looks it up. *)
Pow(n) == GEXP[(n % 31) + 1]

------------------------------------------------------------------------------
(* Induction over the rounds of a loop. *)

LEMMA LeastElement ==
  ASSUME NEW T, T \subseteq Nat, T # {}
  PROVE  \E m \in T : \A k \in T : m <= k
<1> DEFINE R == OpToRel(<, Nat)
<1>1. PICK m \in T : \A k \in T : <<k, m>> \notin R
  BY WFMin, NatLessThanWellFounded
<1>2. R = {ss \in Nat \X Nat : ss[1] < ss[2]}
  BY DEF OpToRel
<1>3. \A k \in T : ~ (k < m)
  <2> HIDE DEF R
  <2> SUFFICES ASSUME NEW k \in T, k < m PROVE FALSE
    OBVIOUS
  <2>1. <<k, m>> \in Nat \X Nat
    OBVIOUS
  <2>2. <<k, m>> \in R
    BY <1>2, <2>1
  <2> QED BY <1>1, <2>2
<1>4. \A k \in T : m <= k
  BY <1>3
<1> QED BY <1>4

LEMMA RoundInduction ==
  ASSUME NEW n \in Nat, NEW S, 0 \in S, \A k \in 0 .. n - 1 : k \in S => k + 1 \in S
  PROVE  \A k \in 0 .. n : k \in S
<1> DEFINE T == {k \in 0 .. n : k \notin S}
<1> SUFFICES ASSUME T # {} PROVE FALSE
  OBVIOUS
<1>1. PICK m \in T : \A k \in T : m <= k
  <2>1. T \subseteq Nat
    OBVIOUS
  <2> HIDE DEF T
  <2> QED BY <2>1, LeastElement
<1>2. m # 0 /\ m - 1 \in 0 .. n - 1 /\ m - 1 \in S
  BY <1>1
<1> QED BY <1>2

------------------------------------------------------------------------------
(* Symbols under ^ are a group. *)

LEMMA BitType ==
  ASSUME NEW x \in Symbol
  PROVE  /\ Bit(x, 1) \in {0, 1} /\ Bit(x, 2) \in {0, 1} /\ Bit(x, 4) \in {0, 1}
         /\ Bit(x, 8) \in {0, 1} /\ Bit(x, 16) \in {0, 1}
         /\ x = Bit(x, 1) + 2 * Bit(x, 2) + 4 * Bit(x, 4) + 8 * Bit(x, 8) + 16 * Bit(x, 16)
BY DEF Symbol, Bit

LEMMA BitsOf ==
  ASSUME NEW a \in {0, 1}, NEW b \in {0, 1}, NEW c \in {0, 1}, NEW d \in {0, 1},
         NEW e \in {0, 1}
  PROVE  LET x == a + 2 * b + 4 * c + 8 * d + 16 * e IN
         /\ x \in Symbol
         /\ Bit(x, 1) = a /\ Bit(x, 2) = b /\ Bit(x, 4) = c
         /\ Bit(x, 8) = d /\ Bit(x, 16) = e
BY DEF Symbol, Bit

LEMMA XorBits ==
  ASSUME NEW x \in Symbol, NEW y \in Symbol
  PROVE  /\ x \oplus y \in Symbol
         /\ \A d \in {1, 2, 4, 8, 16} : Bit(x \oplus y, d) = (Bit(x, d) + Bit(y, d)) % 2
<1> DEFINE bit(d) == (Bit(x, d) + Bit(y, d)) % 2
<1>1. bit(1) \in {0, 1} /\ bit(2) \in {0, 1} /\ bit(4) \in {0, 1}
      /\ bit(8) \in {0, 1} /\ bit(16) \in {0, 1}
  BY BitType
<1>2. x \oplus y = bit(1) + 2 * bit(2) + 4 * bit(4) + 8 * bit(8) + 16 * bit(16)
  BY DEF \oplus, Xor
<1> HIDE DEF bit
<1>3. x \oplus y \in Symbol /\ \A d \in {1, 2, 4, 8, 16} : Bit(x \oplus y, d) = bit(d)
  BY <1>1, <1>2, BitsOf
<1> QED BY <1>3 DEF bit

LEMMA SameBits ==
  ASSUME NEW x \in Symbol, NEW y \in Symbol,
         \A d \in {1, 2, 4, 8, 16} : Bit(x, d) = Bit(y, d)
  PROVE  x = y
BY BitType

LEMMA XorGroup ==
  /\ \A a, b \in Symbol : a \oplus b \in Symbol
  /\ \A a, b \in Symbol : a \oplus b = b \oplus a
  /\ \A a, b, c \in Symbol : (a \oplus b) \oplus c = a \oplus (b \oplus c)
  /\ \A a \in Symbol : a \oplus 0 = a /\ a \oplus a = 0
<1>1. \A a, b \in Symbol : a \oplus b \in Symbol
  BY XorBits
<1>2. \A a, b \in Symbol : a \oplus b = b \oplus a
  BY DEF \oplus, Xor, Bit, Symbol
<1>3. ASSUME NEW a \in Symbol, NEW b \in Symbol, NEW c \in Symbol
      PROVE  (a \oplus b) \oplus c = a \oplus (b \oplus c)
  <2>1. a \oplus b \in Symbol /\ b \oplus c \in Symbol
        /\ (a \oplus b) \oplus c \in Symbol /\ a \oplus (b \oplus c) \in Symbol
    BY XorBits
  <2>2. ASSUME NEW d \in {1, 2, 4, 8, 16}
        PROVE  Bit((a \oplus b) \oplus c, d) = Bit(a \oplus (b \oplus c), d)
    <3>1. /\ Bit((a \oplus b) \oplus c, d) = (((Bit(a, d) + Bit(b, d)) % 2) + Bit(c, d)) % 2
          /\ Bit(a \oplus (b \oplus c), d) = (Bit(a, d) + ((Bit(b, d) + Bit(c, d)) % 2)) % 2
      <4>1. Bit(a \oplus b, d) = (Bit(a, d) + Bit(b, d)) % 2
            /\ Bit(b \oplus c, d) = (Bit(b, d) + Bit(c, d)) % 2
        BY XorBits
      <4>2. Bit((a \oplus b) \oplus c, d) = (Bit(a \oplus b, d) + Bit(c, d)) % 2
        BY <2>1, XorBits
      <4>3. Bit(a \oplus (b \oplus c), d) = (Bit(a, d) + Bit(b \oplus c, d)) % 2
        BY <2>1, XorBits
      <4> QED BY <4>1, <4>2, <4>3
    <3>2. Bit(a, d) \in {0, 1} /\ Bit(b, d) \in {0, 1} /\ Bit(c, d) \in {0, 1}
      BY BitType
    <3> QED BY <3>1, <3>2
  <2> QED BY <2>1, <2>2, SameBits
<1>4. \A a \in Symbol : a \oplus 0 = a /\ a \oplus a = 0
  BY DEF \oplus, Xor, Bit, Symbol
<1> QED BY <1>1, <1>2, <1>3, <1>4

LEMMA XorCancel ==
  ASSUME NEW a \in Symbol, NEW b \in Symbol
  PROVE  a \oplus b = 0 <=> a = b
<1>1. ASSUME a \oplus b = 0 PROVE a = b
  <2>1. (a \oplus b) \oplus b = a \oplus (b \oplus b) /\ b \oplus b = 0 /\ a \oplus 0 = a
    BY XorGroup
  <2>2. 0 \oplus b = b \oplus 0 /\ b \oplus 0 = b
    BY XorGroup DEF Symbol
  <2> QED BY <1>1, <2>1, <2>2
<1> QED BY <1>1, XorGroup

LEMMA XorSwap ==
  ASSUME NEW a \in Symbol, NEW b \in Symbol, NEW c \in Symbol, NEW d \in Symbol
  PROVE  (a \oplus b) \oplus (c \oplus d) = (a \oplus c) \oplus (b \oplus d)
<1>1. a \oplus b \in Symbol /\ c \oplus d \in Symbol /\ a \oplus c \in Symbol
      /\ b \oplus d \in Symbol /\ b \oplus c \in Symbol
  BY XorBits
<1>2. (a \oplus b) \oplus (c \oplus d) = a \oplus (b \oplus (c \oplus d))
  BY <1>1, XorGroup
<1>3. b \oplus (c \oplus d) = (b \oplus c) \oplus d
  BY XorGroup
<1>4. b \oplus c = c \oplus b
  BY XorGroup
<1>5. (c \oplus b) \oplus d = c \oplus (b \oplus d)
  BY XorGroup
<1>6. a \oplus (c \oplus (b \oplus d)) = (a \oplus c) \oplus (b \oplus d)
  BY <1>1, XorGroup
<1> QED BY <1>2, <1>3, <1>4, <1>5, <1>6

------------------------------------------------------------------------------
(* With gmult they are a field. *)

LEMMA Tables ==
  /\ \A a \in 1 .. 31 : GLOG[a + 1] \in 0 .. 30 /\ GEXP[GLOG[a + 1] + 1] = a
  /\ \A n \in 0 .. 30 : GEXP[n + 1] \in 1 .. 31 /\ GLOG[GEXP[n + 1] + 1] = n
BY DEF GEXP, GLOG

(* Every symbol but zero is a power of the generator, and one only. *)
LEMMA Powers ==
  /\ \A n \in Nat : Pow(n) \in Symbol \ {0}
  /\ \A m, n \in 0 .. 30 : Pow(m) = Pow(n) => m = n
  /\ \A a \in Symbol \ {0} : \E n \in 0 .. 30 : a = Pow(n)
  /\ \A m, n \in Nat : Pow(m) \otimes Pow(n) = Pow(m + n)
<1>1. \A n \in Nat : n % 31 \in 0 .. 30 /\ (n % 31) % 31 = n % 31
  OBVIOUS
<1>2. \A n \in Nat : Pow(n) \in 1 .. 31 /\ GLOG[Pow(n) + 1] = n % 31
  BY <1>1, Tables DEF Pow
<1>3. \A n \in Nat : Pow(n) \in Symbol \ {0}
  BY <1>2 DEF Symbol
<1>4. \A n \in 0 .. 30 : n % 31 = n
  OBVIOUS
<1>5. \A m, n \in 0 .. 30 : Pow(m) = Pow(n) => m = n
  BY <1>2, <1>4
<1>6. \A a \in Symbol \ {0} : \E n \in 0 .. 30 : a = Pow(n)
  <2> SUFFICES ASSUME NEW a \in 1 .. 31 PROVE \E n \in 0 .. 30 : a = Pow(n)
    BY DEF Symbol
  <2>1. GLOG[a + 1] \in 0 .. 30 /\ Pow(GLOG[a + 1]) = a
    BY <1>4, Tables DEF Pow
  <2> QED BY <2>1
<1>7. ASSUME NEW m \in Nat, NEW n \in Nat PROVE Pow(m) \otimes Pow(n) = Pow(m + n)
  <2>1. Pow(m) \otimes Pow(n) = GEXP[(((m % 31) + (n % 31)) % 31) + 1]
    BY <1>2 DEF \otimes, gmult
  <2>2. ((m % 31) + (n % 31)) % 31 = (m + n) % 31
    OBVIOUS
  <2> QED BY <2>1, <2>2 DEF Pow
<1> QED BY <1>3, <1>5, <1>6, <1>7

LEMMA Monoid ==
  /\ \A a, b \in Symbol : a \otimes b \in Symbol
  /\ \A a, b \in Symbol : a \otimes b = b \otimes a
  /\ \A a, b, c \in Symbol : (a \otimes b) \otimes c = a \otimes (b \otimes c)
  /\ \A a, b \in Symbol : a \otimes b = 0 <=> a = 0 \/ b = 0
  /\ \A a \in Symbol : a \otimes 0 = 0 /\ a \otimes 1 = a
<1>1. \A a : a \otimes 0 = 0 /\ 0 \otimes a = 0
  BY DEF \otimes, gmult
<1>2. ASSUME NEW a \in Symbol \ {0}, NEW b \in Symbol \ {0}
      PROVE  a \otimes b \in Symbol \ {0} /\ a \otimes b = b \otimes a
  <2>1. PICK m \in 0 .. 30 : a = Pow(m)
    BY Powers
  <2>2. PICK n \in 0 .. 30 : b = Pow(n)
    BY Powers
  <2>3. m + n \in Nat /\ m + n = n + m /\ m \in Nat /\ n \in Nat
    OBVIOUS
  <2> QED BY <2>1, <2>2, <2>3, Powers
<1>3. ASSUME NEW a \in Symbol \ {0}, NEW b \in Symbol \ {0}, NEW c \in Symbol \ {0}
      PROVE  (a \otimes b) \otimes c = a \otimes (b \otimes c)
  <2>1. PICK k \in 0 .. 30 : a = Pow(k)
    BY Powers
  <2>2. PICK m \in 0 .. 30 : b = Pow(m)
    BY Powers
  <2>3. PICK n \in 0 .. 30 : c = Pow(n)
    BY Powers
  <2>4. k \in Nat /\ m \in Nat /\ n \in Nat /\ k + m \in Nat /\ m + n \in Nat
        /\ (k + m) + n = k + (m + n)
    OBVIOUS
  <2> QED BY <2>1, <2>2, <2>3, <2>4, Powers
<1>4. 0 \in Symbol /\ 1 \in Symbol \ {0} /\ 1 = Pow(0)
  BY DEF Symbol, Pow, GEXP
<1>5. \A a \in Symbol \ {0} : a \otimes 1 = a
  <2> SUFFICES ASSUME NEW a \in Symbol \ {0} PROVE a \otimes 1 = a
    OBVIOUS
  <2>1. PICK n \in 0 .. 30 : a = Pow(n)
    BY Powers
  <2>2. n \in Nat /\ 0 \in Nat /\ n + 0 = n
    OBVIOUS
  <2> QED BY <1>4, <2>1, <2>2, Powers
<1>6. \A a, b \in Symbol : a \otimes b \in Symbol /\ a \otimes b = b \otimes a
  BY <1>1, <1>2, <1>4
<1>7. \A a, b \in Symbol : a \otimes b = 0 <=> a = 0 \/ b = 0
  BY <1>1, <1>2
<1>8. \A a \in Symbol : a \otimes 0 = 0 /\ a \otimes 1 = a
  BY <1>1, <1>5
<1>9. \A a, b, c \in Symbol : (a \otimes b) \otimes c = a \otimes (b \otimes c)
  <2> SUFFICES ASSUME NEW a \in Symbol, NEW b \in Symbol, NEW c \in Symbol
               PROVE  (a \otimes b) \otimes c = a \otimes (b \otimes c)
    OBVIOUS
  <2>1. CASE a # 0 /\ b # 0 /\ c # 0
    BY <2>1, <1>3
  <2>2. CASE a = 0 \/ b = 0 \/ c = 0
    BY <2>2, <1>1
  <2> QED BY <2>1, <2>2
<1> QED BY <1>6, <1>7, <1>8, <1>9

(* Multiplying by the generator moves the bits up and adds x^2 + 1 for the *)
(* one that leaves.                                                        *)
LEMMA Doubling ==
  ASSUME NEW x \in Symbol
  PROVE  /\ x \otimes 2 = TimesX(x)
         /\ Bit(x \otimes 2, 1) = Bit(x, 16) /\ Bit(x \otimes 2, 2) = Bit(x, 1)
         /\ Bit(x \otimes 2, 4) = (Bit(x, 2) + Bit(x, 16)) % 2
         /\ Bit(x \otimes 2, 8) = Bit(x, 4) /\ Bit(x \otimes 2, 16) = Bit(x, 8)
<1>1. x \otimes 2 = IF x = 0 THEN 0 ELSE GEXP[((GLOG[x + 1] + 1) % 31) + 1]
  BY DEF \otimes, gmult, GLOG
<1>2. x \otimes 2 = IF x >= 16 THEN Xor(2 * x - 32, 5) ELSE 2 * x
  BY <1>1 DEF Symbol, GEXP, GLOG, Xor, Bit
<1>3. CASE x >= 16
  <2>1. 2 * x - 32 \in Symbol /\ 5 \in Symbol /\ x \otimes 2 = (2 * x - 32) \oplus 5
    BY <1>2, <1>3 DEF Symbol, \oplus
  <2>2. \A d \in {1, 2, 4, 8, 16} :
          Bit(x \otimes 2, d) = (Bit(2 * x - 32, d) + Bit(5, d)) % 2
    BY <2>1, XorBits
  <2>3. /\ Bit(x \otimes 2, 1) = (Bit(2 * x - 32, 1) + Bit(5, 1)) % 2
        /\ Bit(x \otimes 2, 2) = (Bit(2 * x - 32, 2) + Bit(5, 2)) % 2
        /\ Bit(x \otimes 2, 4) = (Bit(2 * x - 32, 4) + Bit(5, 4)) % 2
        /\ Bit(x \otimes 2, 8) = (Bit(2 * x - 32, 8) + Bit(5, 8)) % 2
        /\ Bit(x \otimes 2, 16) = (Bit(2 * x - 32, 16) + Bit(5, 16)) % 2
    BY <2>2
  <2>4. /\ (Bit(2 * x - 32, 1) + Bit(5, 1)) % 2 = Bit(x, 16)
        /\ (Bit(2 * x - 32, 2) + Bit(5, 2)) % 2 = Bit(x, 1)
        /\ (Bit(2 * x - 32, 4) + Bit(5, 4)) % 2 = (Bit(x, 2) + Bit(x, 16)) % 2
        /\ (Bit(2 * x - 32, 8) + Bit(5, 8)) % 2 = Bit(x, 4)
        /\ (Bit(2 * x - 32, 16) + Bit(5, 16)) % 2 = Bit(x, 8)
    BY <1>3 DEF Bit, Symbol
  <2>5. x \otimes 2 = TimesX(x)
    BY <1>2 DEF TimesX
  <2> QED BY <2>3, <2>4, <2>5
<1>4. CASE x < 16
  BY <1>2, <1>4 DEF Bit, Symbol, TimesX
<1> QED BY <1>3, <1>4 DEF Symbol

LEMMA DoublingIsLinear ==
  ASSUME NEW a \in Symbol, NEW b \in Symbol
  PROVE  (a \oplus b) \otimes 2 = (a \otimes 2) \oplus (b \otimes 2)
<1> DEFINE l == (a \oplus b) \otimes 2
           r == (a \otimes 2) \oplus (b \otimes 2)
<1>1. a \oplus b \in Symbol /\ a \otimes 2 \in Symbol /\ b \otimes 2 \in Symbol
      /\ l \in Symbol /\ r \in Symbol
  <2>1. 2 \in Symbol
    BY DEF Symbol
  <2> QED BY <2>1, XorGroup, Monoid
<1>2. \A d \in {1, 2, 4, 8, 16} :
        /\ Bit(a \oplus b, d) = (Bit(a, d) + Bit(b, d)) % 2
        /\ Bit(r, d) = (Bit(a \otimes 2, d) + Bit(b \otimes 2, d)) % 2
  BY <1>1, XorBits
<1>3. \A d \in {1, 2, 4, 8, 16} : Bit(a, d) \in {0, 1} /\ Bit(b, d) \in {0, 1}
  BY BitType
<1>4. \A d \in {1, 2, 4, 8, 16} : Bit(l, d) = Bit(r, d)
  BY <1>1, <1>2, <1>3, Doubling
<1> QED BY <1>1, <1>4, SameBits

LEMMA Distributive ==
  \A a, b, c \in Symbol : (a \oplus b) \otimes c = (a \otimes c) \oplus (b \otimes c)
<1> SUFFICES ASSUME NEW a \in Symbol, NEW b \in Symbol, NEW c \in Symbol
             PROVE  (a \oplus b) \otimes c = (a \otimes c) \oplus (b \otimes c)
  OBVIOUS
<1>1. a \oplus b \in Symbol /\ 0 \in Symbol /\ 2 \in Symbol /\ 2 = Pow(1) /\ 1 = Pow(0)
  <2>1. 0 \in Symbol /\ 2 \in Symbol
    BY DEF Symbol
  <2>2. 2 = Pow(1) /\ 1 = Pow(0)
    BY DEF Pow, GEXP
  <2> QED BY <2>1, <2>2, XorGroup
<1> DEFINE Distributes(n) ==
             (a \oplus b) \otimes Pow(n) = (a \otimes Pow(n)) \oplus (b \otimes Pow(n))
           S == {n \in 0 .. 30 : Distributes(n)}
<1>2. 0 \in S
  BY <1>1, Monoid
<1>3. ASSUME NEW n \in 0 .. 29, n \in S PROVE n + 1 \in S
  <2>1. n \in Nat /\ 1 \in Nat /\ n + 1 \in 0 .. 30
    OBVIOUS
  <2>2. Pow(n) \in Symbol /\ Pow(n + 1) = Pow(n) \otimes 2
    BY <1>1, <2>1, Powers
  <2>3. \A e \in Symbol : e \otimes Pow(n + 1) = (e \otimes Pow(n)) \otimes 2
    BY <1>1, <2>2, Monoid
  <2>4. a \otimes Pow(n) \in Symbol /\ b \otimes Pow(n) \in Symbol
    BY <2>2, Monoid
  <2>5. Distributes(n + 1)
    BY <1>1, <1>3, <2>3, <2>4, DoublingIsLinear
  <2> QED BY <2>1, <2>5
<1> HIDE DEF S
<1>4. \A n \in 0 .. 30 : n \in S
  <2>1. 30 \in Nat /\ 30 - 1 = 29
    OBVIOUS
  <2> QED BY <1>2, <1>3, <2>1, RoundInduction
<1>5. CASE c = 0
  BY <1>1, <1>5, Monoid, XorGroup
<1>6. CASE c # 0
  <2>1. PICK n \in 0 .. 30 : c = Pow(n)
    BY <1>6, Powers
  <2>2. Distributes(n)
    BY <1>4 DEF S
  <2> QED BY <2>1, <2>2
<1> QED BY <1>5, <1>6

LEMMA LeftDistributive ==
  ASSUME NEW a \in Symbol, NEW b \in Symbol, NEW c \in Symbol
  PROVE  c \otimes (a \oplus b) = (c \otimes a) \oplus (c \otimes b)
<1>1. a \oplus b \in Symbol
  BY XorBits
<1> QED BY <1>1, Monoid, Distributive

(* Horner's rule in the field gives back the number whose bits it reads. *)
LEMMA GmultIsProduct ==
  ASSUME NEW p \in Symbol, NEW q \in Symbol
  PROVE  gmult(p, q) = Product(p, q)
<1> DEFINE next(r, d) == Xor(TimesX(r), IF Bit(q, d) = 1 THEN p ELSE 0)
<1>1. ASSUME NEW h \in 0 .. 15, NEW d \in {1, 2, 4, 8, 16}
      PROVE  next(p \otimes h, d) = p \otimes (2 * h + Bit(q, d))
  <2>1. h \in Symbol /\ 2 \in Symbol /\ 0 \in Symbol /\ 1 \in Symbol /\ h \otimes 2 = 2 * h
    <3>1. h \in Symbol /\ 2 \in Symbol /\ 0 \in Symbol /\ 1 \in Symbol /\ ~ (h >= 16)
      BY DEF Symbol
    <3> QED BY <3>1, Doubling DEF TimesX
  <2>2. p \otimes h \in Symbol
    BY <2>1, Monoid
  <2>3. TimesX(p \otimes h) = p \otimes (2 * h)
    <3>1. TimesX(p \otimes h) = (p \otimes h) \otimes 2
      BY <2>2, Doubling
    <3> QED BY <3>1, <2>1, Monoid
  <2>4. Bit(q, d) \in {0, 1}
    BY BitType
  <2>5. (IF Bit(q, d) = 1 THEN p ELSE 0) = p \otimes Bit(q, d)
    BY <2>4, Monoid
  <2>6. 2 * h \in Symbol /\ Bit(q, d) \in Symbol
    BY <2>1, <2>4 DEF Symbol
  <2>7. next(p \otimes h, d) = (p \otimes (2 * h)) \oplus (p \otimes Bit(q, d))
    BY <2>3, <2>5 DEF \oplus
  <2>8. (2 * h) \oplus Bit(q, d) \in Symbol
    BY <2>6, XorGroup
  <2>9. next(p \otimes h, d) = p \otimes ((2 * h) \oplus Bit(q, d))
    BY <2>6, <2>7, <2>8, Monoid, Distributive
  <2>10. ASSUME NEW b \in {0, 1} PROVE Xor(2 * h, b) = 2 * h + b
    BY DEF Xor, Bit
  <2> QED BY <2>4, <2>9, <2>10 DEF \oplus
<1>2. 0 = p \otimes 0
  BY Monoid
<1> DEFINE b(d) == Bit(q, d)
<1>3. /\ b(1) \in {0, 1} /\ b(2) \in {0, 1} /\ b(4) \in {0, 1} /\ b(8) \in {0, 1}
      /\ b(16) \in {0, 1} /\ q = b(1) + 2 * b(2) + 4 * b(4) + 8 * b(8) + 16 * b(16)
  BY BitType
<1> DEFINE h1 == b(16)
           h2 == 2 * h1 + b(8)
           h3 == 2 * h2 + b(4)
           h4 == 2 * h3 + b(2)
<1>4. /\ 0 \in 0 .. 15 /\ h1 \in 0 .. 15 /\ h2 \in 0 .. 15 /\ h3 \in 0 .. 15 /\ h4 \in 0 .. 15
      /\ 2 * 0 + b(16) = h1 /\ 2 * h4 + b(1) = q
  BY <1>3
<1> HIDE DEF next, b, h1, h2, h3, h4
<1>5. next(0, 16) = p \otimes h1
  BY <1>1, <1>2, <1>4 DEF b
<1>6. next(p \otimes h1, 8) = p \otimes h2
  BY <1>1, <1>4 DEF b, h2
<1>7. next(p \otimes h2, 4) = p \otimes h3
  BY <1>1, <1>4 DEF b, h3
<1>8. next(p \otimes h3, 2) = p \otimes h4
  BY <1>1, <1>4 DEF b, h4
<1>9. next(p \otimes h4, 1) = p \otimes q
  BY <1>1, <1>4 DEF b
<1>10. Product(p, q) = next(next(next(next(next(0, 16), 8), 4), 2), 1)
  BY DEF Product, next
<1> QED BY <1>5, <1>6, <1>7, <1>8, <1>9, <1>10 DEF \otimes

------------------------------------------------------------------------------
(* Sums over the 31 positions of the code, transmitted or not. *)

Position == 0 .. 30
Terms == [Position -> Symbol]

IsSum(f, t) ==
  /\ f \in [0 .. 31 -> Symbol]
  /\ f[0] = 0
  /\ \A j \in Position : f[j + 1] = f[j] \oplus t[j]

Total(t) == (CHOOSE f : IsSum(f, t))[31]

LEMMA SumExists ==
  ASSUME NEW t \in Terms
  PROVE  \E f : IsSum(f, t)
<1> DEFINE Upto(n, f) == /\ f \in [0 .. n -> Symbol]
                         /\ f[0] = 0
                         /\ \A j \in 0 .. n - 1 : f[j + 1] = f[j] \oplus t[j]
           S == {n \in 0 .. 31 : \E f : Upto(n, f)}
<1>1. 0 \in S
  <2>1. Upto(0, [k \in 0 .. 0 |-> 0])
    BY DEF Symbol
  <2> HIDE DEF Upto
  <2> QED BY <2>1
<1>2. ASSUME NEW n \in 0 .. 30, n \in S PROVE n + 1 \in S
  <2>1. PICK f : Upto(n, f)
    BY <1>2
  <2> DEFINE g == [k \in 0 .. n + 1 |-> IF k = n + 1 THEN f[n] \oplus t[n] ELSE f[k]]
  <2>2. f[n] \oplus t[n] \in Symbol
    <3>1. f \in [0 .. n -> Symbol] /\ n \in 0 .. n
      BY <2>1
    <3>2. f[n] \in Symbol
      BY <3>1
    <3>3. t[n] \in Symbol
      BY DEF Terms, Position
    <3> QED BY <3>2, <3>3, XorBits
  <2>3. g \in [0 .. n + 1 -> Symbol] /\ g[0] = 0
    BY <2>1, <2>2
  <2>4. ASSUME NEW j \in 0 .. n PROVE g[j + 1] = g[j] \oplus t[j]
    <3>1. CASE j = n
      BY <3>1
    <3>2. CASE j # n
      BY <3>2, <2>1
    <3> QED BY <3>1, <3>2
  <2>5. Upto(n + 1, g)
    <3>1. (n + 1) - 1 = n
      OBVIOUS
    <3> HIDE DEF g
    <3> QED BY <2>3, <2>4, <3>1
  <2> HIDE DEF Upto
  <2> QED BY <2>5
<1>3. 31 \in S
  <2> HIDE DEF S
  <2>1. 31 \in Nat /\ 31 - 1 = 30 /\ 31 \in 0 .. 31
    OBVIOUS
  <2>2. \A k \in 0 .. 31 : k \in S
    BY <1>1, <1>2, <2>1, RoundInduction
  <2> QED BY <2>1, <2>2
<1>4. PICK f : Upto(31, f)
  BY <1>3
<1>5. 31 - 1 = 30
  OBVIOUS
<1> QED BY <1>4, <1>5 DEF IsSum, Position

LEMMA SumUnique ==
  ASSUME NEW t \in Terms, NEW f, IsSum(f, t)
  PROVE  f[31] = Total(t)
<1> DEFINE g == CHOOSE h : IsSum(h, t)
           S == {n \in 0 .. 31 : f[n] = g[n]}
<1>1. IsSum(g, t)
  BY SumExists
<1> HIDE DEF g
<1>2. 0 \in S
  BY <1>1 DEF IsSum
<1>3. \A n \in 0 .. 30 : n \in S => n + 1 \in S
  BY <1>1 DEF IsSum, Position
<1>4. 31 \in S
  <2> HIDE DEF S
  <2>1. 31 \in Nat /\ 31 - 1 = 30 /\ 31 \in 0 .. 31
    OBVIOUS
  <2>2. \A k \in 0 .. 31 : k \in S
    BY <1>2, <1>3, <2>1, RoundInduction
  <2> QED BY <2>1, <2>2
<1> QED BY <1>4 DEF Total, g

LEMMA TotalAdds ==
  ASSUME NEW t \in Terms, NEW u \in Terms
  PROVE  Total([j \in Position |-> t[j] \oplus u[j]]) = Total(t) \oplus Total(u)
<1> DEFINE v == [j \in Position |-> t[j] \oplus u[j]]
<1>1. v \in Terms
  BY XorBits DEF Terms
<1>2. PICK f : IsSum(f, t)
  BY SumExists
<1>3. PICK g : IsSum(g, u)
  BY SumExists
<1> DEFINE h == [n \in 0 .. 31 |-> f[n] \oplus g[n]]
<1>4. IsSum(h, v)
  <2>1. h \in [0 .. 31 -> Symbol]
    BY <1>2, <1>3, XorBits DEF IsSum
  <2>2. h[0] = 0
    <3>1. f[0] = 0 /\ g[0] = 0 /\ h[0] = f[0] \oplus g[0] /\ 0 \in Symbol
      BY <1>2, <1>3 DEF IsSum, Symbol
    <3> QED BY <3>1, XorGroup
  <2>3. ASSUME NEW j \in Position PROVE h[j + 1] = h[j] \oplus v[j]
    <3>1. j \in 0 .. 31 /\ j + 1 \in 0 .. 31
      BY DEF Position
    <3>2. f[j] \in Symbol /\ g[j] \in Symbol /\ t[j] \in Symbol /\ u[j] \in Symbol
      BY <1>2, <1>3, <3>1 DEF IsSum, Terms
    <3>3. h[j + 1] = (f[j] \oplus t[j]) \oplus (g[j] \oplus u[j])
      BY <1>2, <1>3, <3>1 DEF IsSum
    <3>4. h[j] \oplus v[j] = (f[j] \oplus g[j]) \oplus (t[j] \oplus u[j])
      BY <3>1
    <3> QED BY <3>2, <3>3, <3>4, XorSwap
  <2> HIDE DEF h, v
  <2> QED BY <2>1, <2>2, <2>3 DEF IsSum
<1>5. h[31] = f[31] \oplus g[31]
  OBVIOUS
<1>6. f[31] = Total(t) /\ g[31] = Total(u)
  BY <1>2, <1>3, SumUnique
<1> HIDE DEF h, v
<1>7. h[31] = Total(v)
  BY <1>1, <1>4, SumUnique
<1> QED BY <1>5, <1>6, <1>7 DEF v

LEMMA TotalScales ==
  ASSUME NEW t \in Terms, NEW c \in Symbol
  PROVE  Total([j \in Position |-> c \otimes t[j]]) = c \otimes Total(t)
<1> DEFINE v == [j \in Position |-> c \otimes t[j]]
<1>1. v \in Terms
  BY Monoid DEF Terms
<1>2. PICK f : IsSum(f, t)
  BY SumExists
<1> DEFINE h == [n \in 0 .. 31 |-> c \otimes f[n]]
<1>3. IsSum(h, v)
  <2>1. h \in [0 .. 31 -> Symbol]
    BY <1>2, Monoid DEF IsSum
  <2>2. h[0] = 0
    BY <1>2, Monoid DEF IsSum
  <2>3. ASSUME NEW j \in Position PROVE h[j + 1] = h[j] \oplus v[j]
    <3>1. j \in 0 .. 31 /\ j + 1 \in 0 .. 31
      BY DEF Position
    <3>2. f[j] \in Symbol /\ t[j] \in Symbol
      BY <1>2, <3>1 DEF IsSum, Terms
    <3>3. h[j + 1] = c \otimes (f[j] \oplus t[j])
      BY <1>2, <3>1 DEF IsSum
    <3>4. h[j] \oplus v[j] = (c \otimes f[j]) \oplus (c \otimes t[j])
      BY <3>1
    <3> QED BY <3>2, <3>3, <3>4, LeftDistributive
  <2> HIDE DEF h, v
  <2> QED BY <2>1, <2>2, <2>3 DEF IsSum
<1>4. h[31] = c \otimes f[31]
  OBVIOUS
<1>5. f[31] = Total(t)
  BY <1>2, SumUnique
<1> HIDE DEF h, v
<1>6. h[31] = Total(v)
  BY <1>1, <1>3, SumUnique
<1> QED BY <1>4, <1>5, <1>6 DEF v

LEMMA TotalOfOne ==
  ASSUME NEW t \in Terms, NEW q \in Position, \A j \in Position \ {q} : t[j] = 0
  PROVE  Total(t) = t[q]
<1> DEFINE h == [n \in 0 .. 31 |-> IF n <= q THEN 0 ELSE t[q]]
<1>1. h \in [0 .. 31 -> Symbol] /\ h[0] = 0
  BY DEF Terms, Symbol, Position
<1>2. ASSUME NEW j \in Position PROVE h[j + 1] = h[j] \oplus t[j]
  <2>1. j \in 0 .. 31 /\ j + 1 \in 0 .. 31 /\ t[q] \in Symbol /\ 0 \in Symbol
    BY DEF Position, Terms, Symbol
  <2>2. t[q] \oplus 0 = t[q] /\ 0 \oplus t[q] = t[q] /\ 0 \oplus 0 = 0
    BY <2>1, XorGroup
  <2>3. CASE j < q
    BY <2>1, <2>2, <2>3 DEF Position
  <2>4. CASE j = q
    BY <2>1, <2>2, <2>4 DEF Position
  <2>5. CASE j > q
    BY <2>1, <2>2, <2>5 DEF Position
  <2> QED BY <2>3, <2>4, <2>5 DEF Position
<1>3. h[31] = t[q]
  BY DEF Position
<1>4. IsSum(h, t)
  <2> HIDE DEF h
  <2> QED BY <1>1, <1>2 DEF IsSum
<1> QED BY <1>3, <1>4, SumUnique

------------------------------------------------------------------------------
(* An error pattern with few symbols that are not zero leaves a syndrome.  *)
(* Elimination: multiply the symbol at j by Pow(j) + Pow(q).  That takes q *)
(* out of the pattern, and combines neighbouring syndromes.                *)

Weighted(e, i) == [j \in Position |-> e[j] \otimes Pow(i * j)]
Support(e) == {j \in Position : e[j] # 0}
Eliminate(e, q) == [j \in Position |-> e[j] \otimes (Pow(j) \oplus Pow(q))]

NoSmallError(m) ==
  \A e \in Terms :
    Support(e) # {} /\ Cardinality(Support(e)) <= m =>
      \E i \in 1 .. m : Total(Weighted(e, i)) # 0

LEMMA PowPositions ==
  ASSUME NEW i \in Nat, NEW j \in Position
  PROVE  /\ i * j \in Nat /\ (i + 1) * j = j + i * j /\ j \in Nat
         /\ Pow(j) \in Symbol \ {0} /\ Pow(i * j) \in Symbol \ {0}
         /\ Pow((i + 1) * j) = Pow(j) \otimes Pow(i * j)
<1>1. j \in Nat
  BY DEF Position
<1>2. i * j \in Nat /\ (i + 1) * j = j + i * j
  BY <1>1
<1>3. Pow(j) \in Symbol \ {0} /\ Pow(i * j) \in Symbol \ {0}
  BY <1>1, <1>2, Powers
<1>4. Pow((i + 1) * j) = Pow(j) \otimes Pow(i * j)
  BY <1>1, <1>2, Powers
<1> QED BY <1>1, <1>2, <1>3, <1>4

LEMMA WeightedType ==
  ASSUME NEW e \in Terms, NEW i \in Nat
  PROVE  Weighted(e, i) \in Terms
<1>1. ASSUME NEW j \in Position PROVE e[j] \otimes Pow(i * j) \in Symbol
  <2>1. e[j] \in Symbol /\ Pow(i * j) \in Symbol
    BY PowPositions DEF Terms
  <2> QED BY <2>1, Monoid
<1> QED BY <1>1 DEF Weighted, Terms

LEMMA EliminateType ==
  ASSUME NEW e \in Terms, NEW q \in Position
  PROVE  /\ Eliminate(e, q) \in Terms
         /\ Support(Eliminate(e, q)) = Support(e) \ {q}
<1>1. ASSUME NEW j \in Position
      PROVE  /\ e[j] \otimes (Pow(j) \oplus Pow(q)) \in Symbol
             /\ e[j] \otimes (Pow(j) \oplus Pow(q)) # 0 <=> e[j] # 0 /\ j # q
  <2>1. e[j] \in Symbol /\ Pow(j) \in Symbol /\ Pow(q) \in Symbol /\ 1 \in Nat
    BY PowPositions DEF Terms
  <2>2. Pow(j) \oplus Pow(q) \in Symbol
    BY <2>1, XorBits
  <2>3. Pow(j) = Pow(q) <=> j = q
    BY Powers DEF Position
  <2>4. Pow(j) \oplus Pow(q) = 0 <=> j = q
    BY <2>1, <2>3, XorCancel
  <2> QED BY <2>1, <2>2, <2>4, Monoid
<1> QED BY <1>1 DEF Eliminate, Terms, Support

LEMMA EliminateTotal ==
  ASSUME NEW e \in Terms, NEW q \in Position, NEW i \in Nat
  PROVE  Total(Weighted(Eliminate(e, q), i))
           = Total(Weighted(e, i + 1)) \oplus (Pow(q) \otimes Total(Weighted(e, i)))
<1> DEFINE t == Weighted(e, i + 1)
           w == Weighted(e, i)
           u == [j \in Position |-> Pow(q) \otimes w[j]]
<1>1. i + 1 \in Nat /\ Pow(q) \in Symbol
  BY PowPositions
<1>2. t \in Terms /\ w \in Terms
  BY <1>1, WeightedType
<1>3. u \in Terms
  <2> HIDE DEF w
  <2>1. \A j \in Position : w[j] \in Symbol
    BY <1>2 DEF Terms
  <2> QED BY <1>1, <2>1, Monoid DEF Terms
<1>4. ASSUME NEW j \in Position
      PROVE  Eliminate(e, q)[j] \otimes Pow(i * j) = t[j] \oplus u[j]
  <2> DEFINE x == e[j]
             y == Pow(i * j)
             pj == Pow(j)
             pq == Pow(q)
  <2>1. x \in Symbol /\ y \in Symbol /\ pj \in Symbol /\ pq \in Symbol
    BY <1>1, PowPositions DEF Terms
  <2>2. t[j] = x \otimes (pj \otimes y)
    BY PowPositions DEF Weighted
  <2>3. u[j] = pq \otimes (x \otimes y)
    BY DEF Weighted
  <2>4. Eliminate(e, q)[j] = x \otimes (pj \oplus pq)
    BY DEF Eliminate
  <2> HIDE DEF x, y, pj, pq
  <2>5. (x \otimes (pj \oplus pq)) \otimes y
          = ((x \otimes pj) \otimes y) \oplus ((x \otimes pq) \otimes y)
    <3>1. x \otimes pj \in Symbol /\ x \otimes pq \in Symbol
      BY <2>1, Monoid
    <3> QED BY <2>1, <3>1, LeftDistributive, Distributive
  <2>6. (x \otimes pj) \otimes y = x \otimes (pj \otimes y)
    BY <2>1, Monoid
  <2>7. (x \otimes pq) \otimes y = pq \otimes (x \otimes y)
    BY <2>1, Monoid
  <2> QED BY <2>2, <2>3, <2>4, <2>5, <2>6, <2>7 DEF y
<1>5. Weighted(Eliminate(e, q), i) = [j \in Position |-> t[j] \oplus u[j]]
  BY <1>4 DEF Weighted
<1> HIDE DEF t, w
<1>6. Total(u) = Pow(q) \otimes Total(w)
  BY <1>1, <1>2, TotalScales
<1> HIDE DEF u
<1>7. Total([j \in Position |-> t[j] \oplus u[j]]) = Total(t) \oplus Total(u)
  BY <1>2, <1>3, TotalAdds
<1> QED BY <1>5, <1>6, <1>7 DEF t, w

LEMMA SupportFinite ==
  ASSUME NEW e
  PROVE  IsFiniteSet(Support(e)) /\ Cardinality(Support(e)) \in Nat
<1>1. IsFiniteSet(Position)
  <2>1. 0 \in Int /\ 30 \in Int
    OBVIOUS
  <2> QED BY <2>1, FS_Interval DEF Position
<1>2. Support(e) \in SUBSET Position
  BY DEF Support
<1>3. IsFiniteSet(Support(e))
  BY <1>1, <1>2, FS_Subset
<1> QED BY <1>3, FS_CardinalityType

LEMMA ErrorStep ==
  ASSUME NEW m \in Nat, NoSmallError(m)
  PROVE  NoSmallError(m + 1)
<1> SUFFICES ASSUME NEW e \in Terms, Support(e) # {}, Cardinality(Support(e)) <= m + 1,
                    \A i \in 1 .. m + 1 : Total(Weighted(e, i)) = 0
             PROVE  FALSE
  BY DEF NoSmallError
<1>1. PICK q \in Position : e[q] # 0
  BY DEF Support
<1> DEFINE d == Eliminate(e, q)
<1>2. d \in Terms /\ Support(d) = Support(e) \ {q}
  BY EliminateType
<1>3. Cardinality(Support(d)) <= m
  <2>1. q \in Support(e)
    BY <1>1 DEF Support
  <2>2. Cardinality(Support(e) \ {q}) = Cardinality(Support(e)) - 1
    BY <2>1, SupportFinite, FS_RemoveElement
  <2> HIDE DEF d
  <2> QED BY <1>2, <2>2, SupportFinite
<1>4. ASSUME NEW i \in 1 .. m PROVE Total(Weighted(d, i)) = 0
  <2>1. i \in Nat /\ i \in 1 .. m + 1 /\ i + 1 \in 1 .. m + 1
    OBVIOUS
  <2>2. Total(Weighted(d, i)) = 0 \oplus (Pow(q) \otimes 0)
    BY <2>1, EliminateTotal
  <2>3. Pow(q) \in Symbol /\ 0 \in Symbol
    BY PowPositions, <2>1 DEF Symbol
  <2> QED BY <2>2, <2>3, Monoid, XorGroup
<1>5. CASE Support(d) # {}
  <2> HIDE DEF d
  <2> QED BY <1>2, <1>3, <1>4, <1>5 DEF NoSmallError
<1>6. CASE Support(d) = {}
  <2>1. 1 \in Nat /\ 1 \in 1 .. m + 1 /\ 1 * q = q /\ q \in Nat
    BY DEF Position
  <2>2. \A j \in Position \ {q} : e[j] = 0
    <3> HIDE DEF d
    <3> QED BY <1>2, <1>6 DEF Support
  <2>3. \A j \in Position \ {q} : Weighted(e, 1)[j] = 0
    <3> SUFFICES ASSUME NEW j \in Position \ {q} PROVE Weighted(e, 1)[j] = 0
      OBVIOUS
    <3>1. Weighted(e, 1)[j] = 0 \otimes Pow(1 * j) /\ Pow(1 * j) \in Symbol /\ 0 \in Symbol
      BY <2>1, <2>2, PowPositions DEF Weighted, Symbol
    <3> QED BY <3>1, Monoid
  <2>4. Total(Weighted(e, 1)) = Weighted(e, 1)[q]
    BY <2>1, <2>3, WeightedType, TotalOfOne
  <2>5. Weighted(e, 1)[q] = e[q] \otimes Pow(1 * q) /\ e[q] \in Symbol /\ Pow(1 * q) \in Symbol \ {0}
    BY <2>1, PowPositions DEF Weighted, Terms
  <2>6. Weighted(e, 1)[q] # 0
    BY <1>1, <2>5, Monoid
  <2> QED BY <2>1, <2>4, <2>6
<1> QED BY <1>5, <1>6

(* Four syndromes see up to four wrong symbols. *)
LEMMA NoErrorOfFour == NoSmallError(4)
<1>1. NoSmallError(0)
  <2> SUFFICES ASSUME NEW e \in Terms, Support(e) # {}, Cardinality(Support(e)) <= 0
               PROVE  FALSE
    BY DEF NoSmallError
  <2>1. Cardinality(Support(e)) = 0
    BY SupportFinite
  <2> QED BY <2>1, SupportFinite, FS_EmptySet
<1>2. NoSmallError(0 + 1)
  BY <1>1, ErrorStep
<1>3. NoSmallError(1 + 1)
  BY <1>2, ErrorStep
<1>4. NoSmallError(2 + 1)
  BY <1>3, ErrorStep
<1>5. NoSmallError(3 + 1)
  BY <1>4, ErrorStep
<1> QED BY <1>5

------------------------------------------------------------------------------
(* The checker's loop computes these sums. *)

(* A codeword in its places among the 31 positions. *)
Spread(w) ==
  [j \in Position |-> IF j < 13 THEN w[j] ELSE IF j < 27 THEN 0 ELSE w[j - 14]]

LEMMA SpreadType ==
  ASSUME NEW w \in Codeword
  PROVE  Spread(w) \in Terms
BY DEF Spread, Terms, Codeword, Position, Symbol

LEMMA RoundsIsSum ==
  ASSUME NEW w \in Codeword, NEW i \in Nat
  PROVE  IsSum(Rounds(w, i), Weighted(Spread(w), i))
<1> DEFINE body(f, j) ==
             IF j = 0 THEN 0
             ELSE IF j - 1 > 12 /\ j - 1 < 27 THEN f[j - 1]
             ELSE LET pos == IF j - 1 > 26 THEN j - 15 ELSE j - 1
                  IN  Xor(f[j - 1], gmult(w[pos], GEXP[((i * (j - 1)) % 31) + 1]))
           t == Weighted(Spread(w), i)
           R == Rounds(w, i)
<1>1. t \in Terms
  BY SpreadType, WeightedType
<1>2. ASSUME NEW f, NEW j \in Position, f[j] \in Symbol
      PROVE  body(f, j + 1) = f[j] \oplus t[j]
  <2>1. j \in 0 .. 30 /\ (j + 1) - 1 = j /\ j + 1 # 0 /\ (j + 1) - 15 = j - 14 /\ i * j \in Nat
    BY DEF Position
  <2>2. t[j] = Spread(w)[j] \otimes Pow(i * j)
    BY DEF Weighted
  <2>3. CASE j > 12 /\ j < 27
    <3>1. Spread(w)[j] = 0 /\ 0 \in Symbol /\ Pow(i * j) \in Symbol
      BY <2>1, <2>3, PowPositions DEF Spread, Symbol
    <3>2. t[j] = 0
      BY <2>2, <3>1, Monoid
    <3>3. body(f, j + 1) = f[j]
      BY <2>1, <2>3
    <3> QED BY <1>2, <3>2, <3>3, XorGroup
  <2>4. CASE ~ (j > 12 /\ j < 27)
    <3>1. Spread(w)[j] = w[IF j > 26 THEN j - 14 ELSE j]
      BY <2>1, <2>4 DEF Spread
    <3>2. body(f, j + 1) = Xor(f[j], gmult(w[IF j > 26 THEN j - 14 ELSE j], GEXP[((i * j) % 31) + 1]))
      BY <2>1, <2>4
    <3> QED BY <2>2, <3>1, <3>2 DEF \oplus, \otimes, Pow
  <2> QED BY <2>3, <2>4
<1>3. PICK f : IsSum(f, t)
  BY <1>1, SumExists
<1>4. f = [j \in 0 .. 31 |-> body(f, j)]
  <2>1. f \in [0 .. 31 -> Symbol] /\ f[0] = 0
    BY <1>3 DEF IsSum
  <2>2. ASSUME NEW j \in 0 .. 31 PROVE f[j] = body(f, j)
    <3>1. CASE j = 0
      BY <2>1, <3>1
    <3>2. CASE j # 0
      <4>1. j - 1 \in Position /\ (j - 1) + 1 = j /\ f[j - 1] \in Symbol
        BY <2>1, <3>2 DEF Position
      <4> HIDE DEF body, t
      <4>2. f[(j - 1) + 1] = f[j - 1] \oplus t[j - 1]
        BY <1>3, <4>1 DEF IsSum
      <4>3. body(f, (j - 1) + 1) = f[j - 1] \oplus t[j - 1]
        BY <1>2, <4>1
      <4> QED BY <4>1, <4>2, <4>3
    <3> QED BY <3>1, <3>2
  <2> HIDE DEF body
  <2> QED BY <2>1, <2>2
<1>5. R = CHOOSE g : g = [j \in 0 .. 31 |-> body(g, j)]
  BY DEF Rounds
<1>6. R = [j \in 0 .. 31 |-> body(R, j)]
  <2> HIDE DEF body, R
  <2> QED BY <1>4, <1>5
<1> DEFINE S == {n \in 0 .. 31 : R[n] = f[n]}
<1>7. 0 \in S
  <2>1. R[0] = body(R, 0)
    <3> HIDE DEF body, R
    <3> QED BY <1>6
  <2>2. body(R, 0) = 0
    OBVIOUS
  <2> QED BY <1>3, <2>1, <2>2 DEF IsSum
<1> HIDE DEF body, R, t
<1>8. ASSUME NEW n \in 0 .. 30, n \in S PROVE n + 1 \in S
  <2>1. n \in Position /\ n + 1 \in 0 .. 31
    BY DEF Position
  <2>2. R[n] = f[n] /\ f[n] \in Symbol
    BY <1>3, <1>8 DEF IsSum
  <2>3. R[n + 1] = R[n] \oplus t[n]
    BY <1>2, <1>6, <2>1, <2>2
  <2>4. f[n + 1] = f[n] \oplus t[n]
    BY <1>3, <2>1 DEF IsSum
  <2> QED BY <2>1, <2>2, <2>3, <2>4
<1>9. \A n \in 0 .. 31 : R[n] = f[n]
  <2> HIDE DEF S
  <2>1. 31 \in Nat /\ 31 - 1 = 30
    OBVIOUS
  <2>2. \A n \in 0 .. 31 : n \in S
    BY <1>7, <1>8, <2>1, RoundInduction
  <2> QED BY <2>2 DEF S
<1>10. R = f
  <2>1. f = [j \in 0 .. 31 |-> f[j]]
    BY <1>3 DEF IsSum
  <2>2. R = [j \in 0 .. 31 |-> R[j]]
    BY <1>6
  <2> QED BY <1>9, <2>1, <2>2
<1> QED BY <1>3, <1>10 DEF R, t

LEMMA SyndromeIsTotal ==
  ASSUME NEW w \in Codeword, NEW i \in Nat
  PROVE  Syndrome(w, i) = Total(Weighted(Spread(w), i))
BY RoundsIsSum, SpreadType, WeightedType, SumUnique DEF Syndrome

------------------------------------------------------------------------------
(* Two codewords that the checker (reedsolomon.d:187) accepts differ in at *)
(* least five of the seventeen places.                                     *)
THEOREM Distance ==
  ASSUME NEW v \in Codeword, NEW w \in Codeword,
         is_codeword_valid(v), is_codeword_valid(w),
         Cardinality({k \in 0 .. 16 : v[k] # w[k]}) <= 4
  PROVE  v = w
<1> SUFFICES ASSUME v # w PROVE FALSE
  OBVIOUS
<1> DEFINE D == {k \in 0 .. 16 : v[k] # w[k]}
           x == Spread(v)
           y == Spread(w)
           e == [j \in Position |-> x[j] \oplus y[j]]
           place == [j \in Support(e) |-> IF j < 13 THEN j ELSE j - 14]
<1>1. x \in Terms /\ y \in Terms
  BY SpreadType
<1>2. ASSUME NEW j \in Position PROVE x[j] \in Symbol /\ y[j] \in Symbol
  <2> HIDE DEF x, y
  <2> QED BY <1>1 DEF Terms
<1>3. e \in Terms
  <2> HIDE DEF x, y
  <2> QED BY <1>2, XorBits DEF Terms
<1>4. Support(e) = {j \in Position : x[j] # y[j]}
  <2> HIDE DEF x, y
  <2>1. \A j \in Position : x[j] \oplus y[j] # 0 <=> x[j] # y[j]
    BY <1>2, XorCancel
  <2> QED BY <2>1 DEF Support
<1>5. Support(e) # {}
  <2>1. PICK k \in 0 .. 16 : v[k] # w[k]
    BY DEF Codeword
  <2>2. CASE k < 13
    <3>1. k \in Position /\ x[k] = v[k] /\ y[k] = w[k]
      BY <2>2 DEF Spread, Position
    <3> HIDE DEF x, y, e
    <3> QED BY <1>4, <2>1, <3>1
  <2>3. CASE k >= 13
    <3>1. k + 14 \in Position /\ x[k + 14] = v[k] /\ y[k + 14] = w[k]
      BY <2>3 DEF Spread, Position
    <3> HIDE DEF x, y, e
    <3> QED BY <1>4, <2>1, <3>1
  <2>4. k < 13 \/ k >= 13
    OBVIOUS
  <2> HIDE DEF e
  <2> QED BY <2>2, <2>3, <2>4
<1>6. Cardinality(Support(e)) <= 4
  <2>1. ASSUME NEW j \in Support(e)
        PROVE  (j \in 0 .. 12 \/ j \in 27 .. 30) /\ place[j] \in D
    <3>1. j \in Position /\ x[j] # y[j]
      <4> HIDE DEF x, y, e
      <4> QED BY <1>4
    <3> HIDE DEF e
    <3> QED BY <3>1 DEF Spread, Position
  <2>2. place \in [Support(e) -> D]
    <3> HIDE DEF e, D
    <3> QED BY <2>1
  <2>3. ASSUME NEW a \in Support(e), NEW b \in Support(e), place[a] = place[b] PROVE a = b
    <3> HIDE DEF e, D
    <3> QED BY <2>1, <2>3
  <2>4. IsFiniteSet(D) /\ Cardinality(D) \in Nat
    <3>1. 0 \in Int /\ 16 \in Int /\ D \in SUBSET (0 .. 16)
      OBVIOUS
    <3> HIDE DEF D
    <3>2. IsFiniteSet(D)
      BY <3>1, FS_Interval, FS_Subset
    <3> QED BY <3>2, FS_CardinalityType
  <2> HIDE DEF e, D, place
  <2>5. place \in Injection(Support(e), D)
    BY <2>2, <2>3 DEF Injection, IsInjective
  <2>6. Cardinality(Support(e)) <= Cardinality(D)
    BY <2>4, <2>5, FS_Injection
  <2> QED BY <2>4, <2>6, SupportFinite DEF D
<1>7. ASSUME NEW i \in 1 .. 4 PROVE Total(Weighted(e, i)) = 0
  <2>1. i \in Nat
    OBVIOUS
  <2>2. Total(Weighted(x, i)) = 0 /\ Total(Weighted(y, i)) = 0
    BY <2>1, SyndromeIsTotal DEF is_codeword_valid
  <2> HIDE DEF x, y
  <2>3. Weighted(e, i) = [j \in Position |-> Weighted(x, i)[j] \oplus Weighted(y, i)[j]]
    <3>1. ASSUME NEW j \in Position
          PROVE  (x[j] \oplus y[j]) \otimes Pow(i * j)
                   = (x[j] \otimes Pow(i * j)) \oplus (y[j] \otimes Pow(i * j))
      <4>1. Pow(i * j) \in Symbol
        BY <2>1, PowPositions
      <4> QED BY <1>2, <4>1, Distributive
    <3> QED BY <3>1 DEF Weighted
  <2>4. Weighted(x, i) \in Terms /\ Weighted(y, i) \in Terms
    BY <1>1, <2>1, WeightedType
  <2>5. Total(Weighted(e, i)) = 0 \oplus 0
    <3> HIDE DEF e
    <3> QED BY <2>2, <2>3, <2>4, TotalAdds
  <2>6. 0 \in Symbol
    BY DEF Symbol
  <2> HIDE DEF e
  <2> QED BY <2>5, <2>6, XorGroup
<1> HIDE DEF e
<1> QED BY <1>3, <1>5, <1>6, <1>7, NoErrorOfFour DEF NoSmallError

------------------------------------------------------------------------------
(* The encoder's loop.  Its four parity digits are the remainder of a      *)
(* division; Eval is its value at the root Pow(i) of the generator.        *)

Quad == Symbol \X Symbol \X Symbol \X Symbol

Eval(p, i) ==
  (p[1] \oplus (p[2] \otimes Pow(i)))
    \oplus ((p[3] \otimes Pow(2 * i)) \oplus (p[4] \otimes Pow(3 * i)))

LEMMA FeedType ==
  ASSUME NEW p \in Quad, NEW d \in Symbol
  PROVE  Feed(p, d) \in Quad
<1> DEFINE fb == d \oplus p[4]
<1>1. p[1] \in Symbol /\ p[2] \in Symbol /\ p[3] \in Symbol /\ p[4] \in Symbol
  BY DEF Quad
<1>2. 17 \in Symbol /\ 9 \in Symbol /\ 6 \in Symbol /\ 30 \in Symbol
  BY DEF Symbol
<1>3. fb \in Symbol
  BY <1>1, XorBits
<1>4. Feed(p, d) = <<17 \otimes fb, p[1] \oplus (9 \otimes fb),
                     p[2] \oplus (6 \otimes fb), p[3] \oplus (30 \otimes fb)>>
  BY DEF Feed, \oplus, \otimes
<1> HIDE DEF fb
<1>5. 17 \otimes fb \in Symbol /\ 9 \otimes fb \in Symbol
      /\ 6 \otimes fb \in Symbol /\ 30 \otimes fb \in Symbol
  BY <1>2, <1>3, Monoid
<1>6. p[1] \oplus (9 \otimes fb) \in Symbol /\ p[2] \oplus (6 \otimes fb) \in Symbol
      /\ p[3] \oplus (30 \otimes fb) \in Symbol
  BY <1>1, <1>5, XorBits
<1> QED BY <1>4, <1>5, <1>6 DEF Quad

(* The coefficients 17, 9, 6, 30 are those of the polynomial whose roots   *)
(* are the first four powers.                                              *)
LEMMA GeneratorRoots ==
  ASSUME NEW i \in 1 .. 4
  PROVE  (17 \oplus (9 \otimes Pow(i)))
           \oplus ((6 \otimes Pow(2 * i)) \oplus (30 \otimes Pow(3 * i))) = Pow(4 * i)
<1>1. CASE i = 1
  <2>1. /\ Pow(1) = 2 /\ Pow(2) = 4 /\ Pow(3) = 8 /\ Pow(4) = 16
        /\ 2 * 1 = 2 /\ 3 * 1 = 3 /\ 4 * 1 = 4
    BY DEF Pow, GEXP
  <2>2. 9 \otimes 2 = 18 /\ 6 \otimes 4 = 24 /\ 30 \otimes 8 = 11
    BY DEF \otimes, gmult, GEXP, GLOG
  <2>3. 17 \oplus 18 = 3 /\ 24 \oplus 11 = 19 /\ 3 \oplus 19 = 16
    BY DEF \oplus, Xor, Bit
  <2> QED BY <1>1, <2>1, <2>2, <2>3
<1>2. CASE i = 2
  <2>1. /\ Pow(2) = 4 /\ Pow(4) = 16 /\ Pow(6) = 10 /\ Pow(8) = 13
        /\ 2 * 2 = 4 /\ 3 * 2 = 6 /\ 4 * 2 = 8
    BY DEF Pow, GEXP
  <2>2. 9 \otimes 4 = 1 /\ 6 \otimes 16 = 15 /\ 30 \otimes 10 = 18
    BY DEF \otimes, gmult, GEXP, GLOG
  <2>3. 17 \oplus 1 = 16 /\ 15 \oplus 18 = 29 /\ 16 \oplus 29 = 13
    BY DEF \oplus, Xor, Bit
  <2> QED BY <1>2, <2>1, <2>2, <2>3
<1>3. CASE i = 3
  <2>1. /\ Pow(3) = 8 /\ Pow(6) = 10 /\ Pow(9) = 26 /\ Pow(12) = 14
        /\ 2 * 3 = 6 /\ 3 * 3 = 9 /\ 4 * 3 = 12
    BY DEF Pow, GEXP
  <2>2. 9 \otimes 8 = 2 /\ 6 \otimes 10 = 25 /\ 30 \otimes 26 = 4
    BY DEF \otimes, gmult, GEXP, GLOG
  <2>3. 17 \oplus 2 = 19 /\ 25 \oplus 4 = 29 /\ 19 \oplus 29 = 14
    BY DEF \oplus, Xor, Bit
  <2> QED BY <1>3, <2>1, <2>2, <2>3
<1>4. CASE i = 4
  <2>1. /\ Pow(4) = 16 /\ Pow(8) = 13 /\ Pow(12) = 14 /\ Pow(16) = 27
        /\ 2 * 4 = 8 /\ 3 * 4 = 12 /\ 4 * 4 = 16
    BY DEF Pow, GEXP
  <2>2. 9 \otimes 16 = 4 /\ 6 \otimes 13 = 11 /\ 30 \otimes 14 = 5
    BY DEF \otimes, gmult, GEXP, GLOG
  <2>3. 17 \oplus 4 = 21 /\ 11 \oplus 5 = 14 /\ 21 \oplus 14 = 27
    BY DEF \oplus, Xor, Bit
  <2> QED BY <1>4, <2>1, <2>2, <2>3
<1> QED BY <1>1, <1>2, <1>3, <1>4

LEMMA FeedEval ==
  ASSUME NEW p \in Quad, NEW d \in Symbol, NEW i \in 1 .. 4
  PROVE  Eval(Feed(p, d), i) = (Pow(i) \otimes Eval(p, i)) \oplus (d \otimes Pow(4 * i))
<1> DEFINE F == d \oplus p[4]
           B == Pow(i)
           B2 == Pow(2 * i)
           B3 == Pow(3 * i)
           B4 == Pow(4 * i)
           p1 == p[1]
           p2 == p[2]
           p3 == p[3]
           p4 == p[4]
<1>1. p1 \in Symbol /\ p2 \in Symbol /\ p3 \in Symbol /\ p4 \in Symbol /\ F \in Symbol
  BY XorBits DEF Quad
<1>2. 17 \in Symbol /\ 9 \in Symbol /\ 6 \in Symbol /\ 30 \in Symbol
  BY DEF Symbol
<1>3. /\ B \in Symbol /\ B2 \in Symbol /\ B3 \in Symbol /\ B4 \in Symbol
      /\ B2 = B \otimes B /\ B3 = B \otimes B2 /\ B4 = B \otimes B3
  <2>1. i \in Nat /\ 2 * i \in Nat /\ 3 * i \in Nat /\ 4 * i \in Nat
        /\ i + i = 2 * i /\ i + 2 * i = 3 * i /\ i + 3 * i = 4 * i
    OBVIOUS
  <2>2. B \in Symbol /\ B2 \in Symbol /\ B3 \in Symbol /\ B4 \in Symbol
    BY <2>1, Powers
  <2>3. /\ Pow(i + i) = Pow(i) \otimes Pow(i)
        /\ Pow(i + 2 * i) = Pow(i) \otimes Pow(2 * i)
        /\ Pow(i + 3 * i) = Pow(i) \otimes Pow(3 * i)
    BY <2>1, Powers
  <2> QED BY <2>1, <2>2, <2>3
<1>4. Eval(Feed(p, d), i)
        = ((17 \otimes F) \oplus ((p1 \oplus (9 \otimes F)) \otimes B))
            \oplus (((p2 \oplus (6 \otimes F)) \otimes B2)
                      \oplus ((p3 \oplus (30 \otimes F)) \otimes B3))
  BY DEF Feed, Eval, \oplus, \otimes
<1>5. Eval(p, i) = (p1 \oplus (p2 \otimes B)) \oplus ((p3 \otimes B2) \oplus (p4 \otimes B3))
  BY DEF Eval
<1>6. (17 \oplus (9 \otimes B)) \oplus ((6 \otimes B2) \oplus (30 \otimes B3)) = B4
  BY GeneratorRoots
<1>7. F = d \oplus p4
  OBVIOUS
<1> HIDE DEF F, B, B2, B3, B4, p1, p2, p3, p4
<1> DEFINE A1 == 17 \otimes F
           A2 == (9 \otimes F) \otimes B
           A3 == (6 \otimes F) \otimes B2
           A4 == (30 \otimes F) \otimes B3
           Q1 == p1 \otimes B
           Q2 == p2 \otimes B2
           Q3 == p3 \otimes B3
           Q4 == p4 \otimes B4
           D == d \otimes B4
<1>8. A1 \in Symbol /\ 9 \otimes F \in Symbol /\ 6 \otimes F \in Symbol /\ 30 \otimes F \in Symbol
  BY <1>1, <1>2, Monoid
<1>9. A2 \in Symbol /\ A3 \in Symbol /\ A4 \in Symbol /\ Q1 \in Symbol /\ Q2 \in Symbol
      /\ Q3 \in Symbol /\ Q4 \in Symbol /\ D \in Symbol
  BY <1>1, <1>3, <1>8, Monoid
<1>10. /\ (p1 \oplus (9 \otimes F)) \otimes B = Q1 \oplus A2
       /\ (p2 \oplus (6 \otimes F)) \otimes B2 = Q2 \oplus A3
       /\ (p3 \oplus (30 \otimes F)) \otimes B3 = Q3 \oplus A4
  BY <1>1, <1>3, <1>8, Distributive
<1>11. (A1 \oplus A2) \oplus (A3 \oplus A4) = D \oplus Q4
  <2> DEFINE G1 == 17
             G2 == 9 \otimes B
             G3 == 6 \otimes B2
             G4 == 30 \otimes B3
  <2>1. G1 \in Symbol /\ G2 \in Symbol /\ G3 \in Symbol /\ G4 \in Symbol
    BY <1>2, <1>3, Monoid
  <2>2. A1 = G1 \otimes F /\ A2 = G2 \otimes F /\ A3 = G3 \otimes F /\ A4 = G4 \otimes F
    <3>1. \A a, b, c \in Symbol : (a \otimes b) \otimes c = (a \otimes c) \otimes b
      BY Monoid
    <3> QED BY <1>1, <1>2, <1>3, <3>1
  <2> HIDE DEF A1, A2, A3, A4, G1, G2, G3, G4
  <2>3. G1 \oplus G2 \in Symbol /\ G3 \oplus G4 \in Symbol
    BY <2>1, XorBits
  <2>4. (A1 \oplus A2) \oplus (A3 \oplus A4) = ((G1 \oplus G2) \oplus (G3 \oplus G4)) \otimes F
    BY <1>1, <2>1, <2>2, <2>3, Distributive
  <2>5. (G1 \oplus G2) \oplus (G3 \oplus G4) = B4
    BY <1>6 DEF G1, G2, G3, G4
  <2>6. B4 \otimes F = (d \otimes B4) \oplus (p4 \otimes B4)
    <3>1. B4 \otimes F = F \otimes B4
      BY <1>1, <1>3, Monoid
    <3> QED BY <1>1, <1>3, <1>7, <3>1, Distributive
  <2> QED BY <2>4, <2>5, <2>6
<1>12. B \otimes Eval(p, i) = (Q1 \oplus Q2) \oplus (Q3 \oplus Q4)
  <2> DEFINE r2 == p2 \otimes B
             r3 == p3 \otimes B2
             r4 == p4 \otimes B3
  <2>1. r2 \in Symbol /\ r3 \in Symbol /\ r4 \in Symbol
    BY <1>1, <1>3, Monoid
  <2>2. \A a, b, c \in Symbol : a \otimes (b \otimes c) = b \otimes (a \otimes c)
    BY Monoid
  <2>3. B \otimes p1 = Q1 /\ B \otimes r2 = Q2 /\ B \otimes r3 = Q3 /\ B \otimes r4 = Q4
    BY <1>1, <1>3, <2>2, Monoid
  <2> HIDE DEF r2, r3, r4, Q1, Q2, Q3, Q4
  <2>4. p1 \oplus r2 \in Symbol /\ r3 \oplus r4 \in Symbol
    BY <1>1, <2>1, XorBits
  <2>5. B \otimes ((p1 \oplus r2) \oplus (r3 \oplus r4)) = (Q1 \oplus Q2) \oplus (Q3 \oplus Q4)
    BY <1>1, <1>3, <2>1, <2>3, <2>4, LeftDistributive
  <2> QED BY <1>5, <2>5 DEF r2, r3, r4
<1> HIDE DEF A1, A2, A3, A4, Q1, Q2, Q3, Q4, D
<1>13. Eval(Feed(p, d), i) = (A1 \oplus (Q1 \oplus A2)) \oplus ((Q2 \oplus A3) \oplus (Q3 \oplus A4))
  BY <1>4, <1>10 DEF A1
<1>14. A1 \oplus (Q1 \oplus A2) = Q1 \oplus (A1 \oplus A2)
  <2>1. A1 \oplus (Q1 \oplus A2) = (A1 \oplus Q1) \oplus A2
    BY <1>8, <1>9, XorGroup
  <2>2. Q1 \oplus (A1 \oplus A2) = (Q1 \oplus A1) \oplus A2
    BY <1>8, <1>9, XorGroup
  <2>3. A1 \oplus Q1 = Q1 \oplus A1
    BY <1>8, <1>9, XorGroup
  <2> QED BY <2>1, <2>2, <2>3
<1>15. (Q2 \oplus A3) \oplus (Q3 \oplus A4) = (Q2 \oplus Q3) \oplus (A3 \oplus A4)
  BY <1>9, XorSwap
<1>16. A1 \oplus A2 \in Symbol /\ A3 \oplus A4 \in Symbol /\ Q2 \oplus Q3 \in Symbol
       /\ Q1 \oplus Q2 \in Symbol /\ Q3 \oplus Q4 \in Symbol
  BY <1>8, <1>9, XorBits
<1>17. Eval(Feed(p, d), i) = (Q1 \oplus (Q2 \oplus Q3)) \oplus (D \oplus Q4)
  <2>1. (Q1 \oplus (A1 \oplus A2)) \oplus ((Q2 \oplus Q3) \oplus (A3 \oplus A4))
          = (Q1 \oplus (Q2 \oplus Q3)) \oplus ((A1 \oplus A2) \oplus (A3 \oplus A4))
    BY <1>9, <1>16, XorSwap
  <2> QED BY <1>11, <1>13, <1>14, <1>15, <2>1
<1>18. (Q1 \oplus (Q2 \oplus Q3)) \oplus (D \oplus Q4) = ((Q1 \oplus Q2) \oplus (Q3 \oplus Q4)) \oplus D
  <2> DEFINE q == Q1 \oplus (Q2 \oplus Q3)
  <2>1. q \in Symbol
    BY <1>9, <1>16, XorBits
  <2>2. q = (Q1 \oplus Q2) \oplus Q3
    BY <1>9, XorGroup
  <2>3. q \oplus Q4 = (Q1 \oplus Q2) \oplus (Q3 \oplus Q4)
    <3> HIDE DEF q
    <3>1. ((Q1 \oplus Q2) \oplus Q3) \oplus Q4 = (Q1 \oplus Q2) \oplus (Q3 \oplus Q4)
      BY <1>9, <1>16, XorGroup
    <3> QED BY <2>2, <3>1
  <2> HIDE DEF q
  <2>4. D \oplus Q4 = Q4 \oplus D
    BY <1>9, XorGroup
  <2>5. q \oplus (Q4 \oplus D) = (q \oplus Q4) \oplus D
    BY <1>9, <2>1, XorGroup
  <2> QED BY <2>3, <2>4, <2>5 DEF q
<1> QED BY <1>12, <1>17, <1>18 DEF B, D, B4

LEMMA EvalType ==
  ASSUME NEW p \in Quad, NEW i \in 1 .. 4
  PROVE  Eval(p, i) \in Symbol
<1>1. p[1] \in Symbol /\ p[2] \in Symbol /\ p[3] \in Symbol /\ p[4] \in Symbol
  BY DEF Quad
<1>2. Pow(i) \in Symbol /\ Pow(2 * i) \in Symbol /\ Pow(3 * i) \in Symbol
  <2>1. i \in Nat /\ 2 * i \in Nat /\ 3 * i \in Nat
    OBVIOUS
  <2> QED BY <2>1, Powers
<1>3. /\ p[2] \otimes Pow(i) \in Symbol /\ p[3] \otimes Pow(2 * i) \in Symbol
      /\ p[4] \otimes Pow(3 * i) \in Symbol
  BY <1>1, <1>2, Monoid
<1>4. /\ p[1] \oplus (p[2] \otimes Pow(i)) \in Symbol
      /\ (p[3] \otimes Pow(2 * i)) \oplus (p[4] \otimes Pow(3 * i)) \in Symbol
  BY <1>1, <1>3, XorBits
<1> QED BY <1>4, XorBits DEF Eval

(* The remainder at its place behind the digits. *)
LEMMA EvalShifted ==
  ASSUME NEW p \in Quad, NEW i \in 1 .. 4
  PROVE  Pow(27 * i) \otimes Eval(p, i)
           = ((p[1] \otimes Pow(i * 27)) \oplus (p[2] \otimes Pow(i * 28)))
               \oplus ((p[3] \otimes Pow(i * 29)) \oplus (p[4] \otimes Pow(i * 30)))
<1> DEFINE p1 == p[1]
           p2 == p[2]
           p3 == p[3]
           p4 == p[4]
           C == Pow(27 * i)
           r2 == p2 \otimes Pow(i)
           r3 == p3 \otimes Pow(2 * i)
           r4 == p4 \otimes Pow(3 * i)
<1>1. p1 \in Symbol /\ p2 \in Symbol /\ p3 \in Symbol /\ p4 \in Symbol
  BY DEF Quad
<1>2. i \in Nat /\ 2 * i \in Nat /\ 3 * i \in Nat /\ 27 * i \in Nat
  OBVIOUS
<1>3. C \in Symbol /\ Pow(i) \in Symbol /\ Pow(2 * i) \in Symbol /\ Pow(3 * i) \in Symbol
  BY <1>2, Powers
<1>4. /\ Pow(i * 27) = C /\ Pow(i * 28) = C \otimes Pow(i)
      /\ Pow(i * 29) = C \otimes Pow(2 * i) /\ Pow(i * 30) = C \otimes Pow(3 * i)
  <2>1. /\ i * 27 = 27 * i /\ i * 28 = 27 * i + i
        /\ i * 29 = 27 * i + 2 * i /\ i * 30 = 27 * i + 3 * i
    OBVIOUS
  <2>2. /\ Pow(27 * i + i) = Pow(27 * i) \otimes Pow(i)
        /\ Pow(27 * i + 2 * i) = Pow(27 * i) \otimes Pow(2 * i)
        /\ Pow(27 * i + 3 * i) = Pow(27 * i) \otimes Pow(3 * i)
    BY <1>2, Powers
  <2> QED BY <2>1, <2>2
<1>5. Eval(p, i) = (p1 \oplus r2) \oplus (r3 \oplus r4)
  BY DEF Eval
<1> HIDE DEF p1, p2, p3, p4, C
<1>6. r2 \in Symbol /\ r3 \in Symbol /\ r4 \in Symbol
  BY <1>1, <1>3, Monoid
<1>7. \A a, b, c \in Symbol : a \otimes (b \otimes c) = b \otimes (a \otimes c)
  BY Monoid
<1>8. /\ C \otimes p1 = p1 \otimes Pow(i * 27) /\ C \otimes r2 = p2 \otimes Pow(i * 28)
      /\ C \otimes r3 = p3 \otimes Pow(i * 29) /\ C \otimes r4 = p4 \otimes Pow(i * 30)
  BY <1>1, <1>3, <1>4, <1>7, Monoid
<1> HIDE DEF r2, r3, r4
<1>9. p1 \oplus r2 \in Symbol /\ r3 \oplus r4 \in Symbol
  BY <1>1, <1>6, XorBits
<1>10. C \otimes ((p1 \oplus r2) \oplus (r3 \oplus r4))
         = ((C \otimes p1) \oplus (C \otimes r2)) \oplus ((C \otimes r3) \oplus (C \otimes r4))
  BY <1>1, <1>3, <1>6, <1>9, LeftDistributive
<1> QED BY <1>5, <1>8, <1>10 DEF p1, p2, p3, p4, C

LEMMA NatTimes ==
  ASSUME NEW a \in Nat, NEW b \in Int, b >= 0
  PROVE  a * b \in Nat
OBVIOUS

LEMMA PowPeriod ==
  ASSUME NEW a \in Nat, NEW b \in Nat
  PROVE  Pow(a + 31 * b) = Pow(a)
<1>1. (a + 31 * b) % 31 = a % 31
  OBVIOUS
<1> QED BY <1>1 DEF Pow

LEMMA ParityRounds ==
  ASSUME NEW word \in Word
  PROVE  /\ Parity(word) \in [0 .. 13 -> Quad]
         /\ Parity(word)[0] = <<0, 0, 0, 0>>
         /\ \A n \in 0 .. 12 : Parity(word)[n + 1] = Feed(Parity(word)[n], word[12 - n])
<1> DEFINE body(f, n) == IF n = 0 THEN <<0, 0, 0, 0>> ELSE Feed(f[n - 1], word[BASE32_LENGTH - n])
           P == Parity(word)
           Upto(m, f) == /\ f \in [0 .. m -> Quad]
                         /\ f[0] = <<0, 0, 0, 0>>
                         /\ \A n \in 0 .. m - 1 : f[n + 1] = Feed(f[n], word[12 - n])
           S == {m \in 0 .. 13 : \E f : Upto(m, f)}
<1>1. 0 \in S
  <2>1. <<0, 0, 0, 0>> \in Quad
    BY DEF Quad, Symbol
  <2>2. Upto(0, [k \in 0 .. 0 |-> <<0, 0, 0, 0>>])
    BY <2>1
  <2> HIDE DEF Upto
  <2> QED BY <2>2
<1>2. ASSUME NEW m \in 0 .. 12, m \in S PROVE m + 1 \in S
  <2>1. PICK f : Upto(m, f)
    BY <1>2
  <2> DEFINE next == Feed(f[m], word[12 - m])
             g == [k \in 0 .. m + 1 |-> IF k = m + 1 THEN next ELSE f[k]]
  <2>2. next \in Quad
    <3>1. f \in [0 .. m -> Quad] /\ m \in 0 .. m
      BY <2>1
    <3>2. f[m] \in Quad
      BY <3>1
    <3>3. word[12 - m] \in Symbol
      BY DEF Word
    <3> QED BY <3>2, <3>3, FeedType
  <2> HIDE DEF next
  <2>3. g \in [0 .. m + 1 -> Quad] /\ g[0] = <<0, 0, 0, 0>>
    BY <2>1, <2>2
  <2>4. ASSUME NEW n \in 0 .. m PROVE g[n + 1] = Feed(g[n], word[12 - n])
    <3>1. CASE n = m
      <4>1. g[n + 1] = next /\ g[n] = f[m]
        BY <3>1
      <4> QED BY <3>1, <4>1 DEF next
    <3>2. CASE n # m
      <4>1. g[n + 1] = f[n + 1] /\ g[n] = f[n] /\ n \in 0 .. m - 1
        BY <3>2
      <4> QED BY <2>1, <4>1
    <3> QED BY <3>1, <3>2
  <2>5. Upto(m + 1, g)
    <3>1. (m + 1) - 1 = m
      OBVIOUS
    <3> HIDE DEF g
    <3> QED BY <2>3, <2>4, <3>1
  <2> HIDE DEF Upto
  <2> QED BY <2>5
<1>3. 13 \in S
  <2> HIDE DEF S
  <2>1. 13 \in Nat /\ 13 - 1 = 12 /\ 13 \in 0 .. 13
    OBVIOUS
  <2>2. \A k \in 0 .. 13 : k \in S
    BY <1>1, <1>2, <2>1, RoundInduction
  <2> QED BY <2>1, <2>2
<1>4. PICK f : Upto(13, f)
  BY <1>3
<1>5. /\ f \in [0 .. 13 -> Quad] /\ f[0] = <<0, 0, 0, 0>>
      /\ \A n \in 0 .. 12 : f[n + 1] = Feed(f[n], word[12 - n])
  <2>1. 13 - 1 = 12
    OBVIOUS
  <2> QED BY <1>4, <2>1
<1> HIDE DEF Upto, S
<1>6. \A h, n : n \in 0 .. 12 => body(h, n + 1) = Feed(h[n], word[12 - n])
  <2> SUFFICES ASSUME NEW h, NEW n \in 0 .. 12 PROVE body(h, n + 1) = Feed(h[n], word[12 - n])
    OBVIOUS
  <2>1. n + 1 # 0 /\ (n + 1) - 1 = n /\ BASE32_LENGTH - (n + 1) = 12 - n
    BY DEF BASE32_LENGTH
  <2> QED BY <2>1
<1>7. \A h : body(h, 0) = <<0, 0, 0, 0>>
  OBVIOUS
<1>8. f = [n \in 0 .. 13 |-> body(f, n)]
  <2> HIDE DEF body
  <2>1. ASSUME NEW n \in 0 .. 13 PROVE f[n] = body(f, n)
    <3>1. CASE n = 0
      BY <1>5, <1>7, <3>1
    <3>2. CASE n # 0
      <4>1. n - 1 \in 0 .. 12 /\ (n - 1) + 1 = n
        BY <3>2
      <4>2. f[(n - 1) + 1] = body(f, (n - 1) + 1)
        BY <1>5, <1>6, <4>1
      <4> QED BY <4>1, <4>2
    <3> QED BY <3>1, <3>2
  <2> QED BY <1>5, <2>1
<1>9. P = CHOOSE h : h = [n \in 0 .. 13 |-> body(h, n)]
  BY DEF Parity
<1> HIDE DEF body, P
<1>10. P = [n \in 0 .. 13 |-> body(P, n)]
  BY <1>8, <1>9
<1>11. P[0] = <<0, 0, 0, 0>>
  BY <1>7, <1>10
<1>12. \A n \in 0 .. 12 : P[n + 1] = Feed(P[n], word[12 - n])
  <2> SUFFICES ASSUME NEW n \in 0 .. 12 PROVE P[n + 1] = Feed(P[n], word[12 - n])
    OBVIOUS
  <2>1. n + 1 \in 0 .. 13
    OBVIOUS
  <2> QED BY <1>6, <1>10, <2>1
<1> DEFINE E == {n \in 0 .. 13 : P[n] \in Quad}
<1>13. 0 \in E
  BY <1>11 DEF Quad, Symbol
<1>14. ASSUME NEW n \in 0 .. 12, n \in E PROVE n + 1 \in E
  <2>1. word[12 - n] \in Symbol
    BY DEF Word
  <2>2. P[n + 1] \in Quad
    BY <1>12, <1>14, <2>1, FeedType
  <2> QED BY <2>2
<1>15. \A n \in 0 .. 13 : P[n] \in Quad
  <2> HIDE DEF E
  <2>1. 13 \in Nat /\ 13 - 1 = 12
    OBVIOUS
  <2>2. \A n \in 0 .. 13 : n \in E
    BY <1>13, <1>14, <2>1, RoundInduction
  <2> QED BY <2>2 DEF E
<1>16. P \in [0 .. 13 -> Quad]
  BY <1>10, <1>15
<1> QED BY <1>11, <1>12, <1>16 DEF P

LEMMA WithParityType ==
  ASSUME NEW word \in Word
  PROVE  /\ WithParity(word) \in Codeword
         /\ \A k \in 0 .. 12 : WithParity(word)[k] = word[k]
         /\ \A k \in 13 .. 16 : WithParity(word)[k] = Parity(word)[13][k - 12]
<1> DEFINE p == Parity(word)[13]
<1>1. p \in Quad
  BY ParityRounds
<1>2. p[1] \in Symbol /\ p[2] \in Symbol /\ p[3] \in Symbol /\ p[4] \in Symbol
  BY <1>1 DEF Quad
<1>3. WithParity(word) = [k \in 0 .. 16 |-> IF k < 13 THEN word[k] ELSE p[k - 12]]
  BY DEF WithParity, BASE32_LENGTH
<1> HIDE DEF p
<1>4. ASSUME NEW k \in 13 .. 16 PROVE p[k - 12] \in Symbol
  <2>1. k - 12 = 1 \/ k - 12 = 2 \/ k - 12 = 3 \/ k - 12 = 4
    OBVIOUS
  <2> QED BY <1>2, <2>1
<1>5. ASSUME NEW k \in 0 .. 12 PROVE word[k] \in Symbol
  BY DEF Word
<1>6. WithParity(word) \in Codeword
  BY <1>3, <1>4, <1>5 DEF Codeword
<1> QED BY <1>3, <1>6 DEF p

(* After n digits the remainder stands for what the checker's sum lacks:   *)
(* the sum over the digits the encoder has not read, and the remainder at  *)
(* the root moved to its place, are together the sum over all digits.      *)
LEMMA ParitySyndrome ==
  ASSUME NEW word \in Word, NEW i \in 1 .. 4
  PROVE  Syndrome(WithParity(word), i) = 0
<1> DEFINE w == WithParity(word)
           P == Parity(word)
           f == Rounds(w, i)
           E(n) == Eval(P[n], i)
           Z(n) == f[13 - n] \oplus (Pow(i * (40 - n)) \otimes E(n))
<1>1. w \in Codeword /\ i \in Nat
  BY WithParityType
<1>2. /\ f \in [0 .. 31 -> Symbol] /\ f[0] = 0
      /\ \A j \in Position : f[j + 1] = f[j] \oplus (Spread(w)[j] \otimes Pow(i * j))
  BY <1>1, RoundsIsSum DEF IsSum, Weighted
<1>3. ASSUME NEW n \in 0 .. 13
      PROVE  P[n] \in Quad /\ E(n) \in Symbol
  <2>1. P[n] \in Quad
    BY ParityRounds
  <2> QED BY <2>1, EvalType
<1>4. \A j \in 0 .. 12 : f[j + 1] = f[j] \oplus (word[j] \otimes Pow(i * j))
  <2> SUFFICES ASSUME NEW j \in 0 .. 12
               PROVE  f[j + 1] = f[j] \oplus (word[j] \otimes Pow(i * j))
    OBVIOUS
  <2>1. j \in Position /\ Spread(w)[j] = w[j] /\ w[j] = word[j]
    BY WithParityType DEF Spread, Position
  <2> HIDE DEF f, w
  <2> QED BY <1>2, <2>1
<1>5. \A n \in 0 .. 12 : E(n + 1) = (Pow(i) \otimes E(n)) \oplus (word[12 - n] \otimes Pow(4 * i))
  <2> SUFFICES ASSUME NEW n \in 0 .. 12
               PROVE  E(n + 1) = (Pow(i) \otimes E(n)) \oplus (word[12 - n] \otimes Pow(4 * i))
    OBVIOUS
  <2>1. P[n + 1] = Feed(P[n], word[12 - n]) /\ word[12 - n] \in Symbol
    BY ParityRounds DEF Word
  <2> HIDE DEF P
  <2> QED BY <1>3, <2>1, FeedEval
<1>6. E(0) = 0
  <2>1. P[0] = <<0, 0, 0, 0>>
    BY ParityRounds
  <2>2. Pow(i) \in Symbol /\ Pow(2 * i) \in Symbol /\ Pow(3 * i) \in Symbol /\ 0 \in Symbol
    <3>1. i \in Nat /\ 2 * i \in Nat /\ 3 * i \in Nat /\ 0 \in Symbol
      BY DEF Symbol
    <3> QED BY <3>1, Powers
  <2>3. E(0) = (0 \oplus (0 \otimes Pow(i))) \oplus ((0 \otimes Pow(2 * i)) \oplus (0 \otimes Pow(3 * i)))
    <3> HIDE DEF P
    <3> QED BY <2>1 DEF Eval
  <2> HIDE DEF E
  <2>4. \A b \in Symbol : 0 \otimes b = 0
    BY <2>2, Monoid
  <2>5. 0 \oplus 0 = 0
    BY <2>2, XorGroup
  <2> QED BY <2>2, <2>3, <2>4, <2>5
<1>7. \A n \in 0 .. 31 : f[n] \in Symbol
  <2> HIDE DEF f
  <2> QED BY <1>2
<1> HIDE DEF f, E
<1>8. Z(0) = f[13]
  <2>1. f[13] \in Symbol /\ Pow(i * 40) \in Symbol /\ 13 - 0 = 13 /\ 40 - 0 = 40
    <3>1. i * 40 \in Nat /\ 13 \in 0 .. 31
      OBVIOUS
    <3> QED BY <1>7, <3>1, Powers
  <2>2. Pow(i * 40) \otimes E(0) = 0
    BY <1>6, <2>1, Monoid
  <2> QED BY <2>1, <2>2, XorGroup
<1>9. ASSUME NEW n \in 0 .. 12 PROVE Z(n + 1) = Z(n)
  <2> DEFINE d == word[12 - n]
             X == Pow(i * (40 - n))
             Y == Pow(i * (39 - n))
             V == Pow(i * (12 - n))
             lo == f[12 - n]
  <2>1. d \in Symbol /\ lo \in Symbol /\ E(n) \in Symbol
    <3>1. 12 - n \in 0 .. 12 /\ 12 - n \in 0 .. 31 /\ n \in 0 .. 13
      OBVIOUS
    <3> QED BY <1>3, <1>7, <3>1 DEF Word
  <2>2. /\ X \in Symbol /\ Y \in Symbol /\ V \in Symbol
        /\ Pow(i) \in Symbol /\ Pow(4 * i) \in Symbol
        /\ Y \otimes Pow(i) = X /\ Y \otimes Pow(4 * i) = V
    <3>1. i * (40 - n) \in Nat /\ i * (39 - n) \in Nat /\ i * (12 - n) \in Nat /\ 4 * i \in Nat
      BY <1>1, NatTimes
    <3>2. i * (39 - n) + i = i * (40 - n)
      BY <1>1
    <3>3. i * (39 - n) + 4 * i = i * (12 - n) + 31 * i
      BY <1>1
    <3>4. Pow(i * (12 - n) + 31 * i) = Pow(i * (12 - n))
      BY <1>1, <3>1, PowPeriod
    <3>5. /\ Pow(i * (39 - n)) \otimes Pow(i) = Pow(i * (39 - n) + i)
          /\ Pow(i * (39 - n)) \otimes Pow(4 * i) = Pow(i * (39 - n) + 4 * i)
      BY <1>1, <3>1, Powers
    <3>6. X \in Symbol /\ Y \in Symbol /\ V \in Symbol /\ Pow(i) \in Symbol /\ Pow(4 * i) \in Symbol
      BY <1>1, <3>1, Powers
    <3> QED BY <3>2, <3>3, <3>4, <3>5, <3>6
  <2>3. f[13 - n] = lo \oplus (d \otimes V)
    <3>1. 12 - n \in 0 .. 12 /\ (12 - n) + 1 = 13 - n
      OBVIOUS
    <3>2. f[(12 - n) + 1] = f[12 - n] \oplus (word[12 - n] \otimes Pow(i * (12 - n)))
      BY <1>4, <3>1
    <3> QED BY <3>1, <3>2
  <2>4. Z(n + 1) = lo \oplus (Y \otimes E(n + 1))
    <3>1. 13 - (n + 1) = 12 - n /\ 40 - (n + 1) = 39 - n
      OBVIOUS
    <3> QED BY <3>1
  <2>5. E(n + 1) = (Pow(i) \otimes E(n)) \oplus (d \otimes Pow(4 * i))
    BY <1>5
  <2>6. Z(n) = (lo \oplus (d \otimes V)) \oplus (X \otimes E(n))
    BY <2>3
  <2> HIDE DEF d, X, Y, V, lo, Z
  <2>7. Y \otimes E(n + 1) = (X \otimes E(n)) \oplus (d \otimes V)
    <3>1. Pow(i) \otimes E(n) \in Symbol /\ d \otimes Pow(4 * i) \in Symbol
      BY <2>1, <2>2, Monoid
    <3>2. Y \otimes E(n + 1) = (Y \otimes (Pow(i) \otimes E(n))) \oplus (Y \otimes (d \otimes Pow(4 * i)))
      BY <2>2, <2>5, <3>1, LeftDistributive
    <3>3. Y \otimes (Pow(i) \otimes E(n)) = (Y \otimes Pow(i)) \otimes E(n)
      BY <2>1, <2>2, Monoid
    <3>4. Y \otimes (d \otimes Pow(4 * i)) = d \otimes (Y \otimes Pow(4 * i))
      BY <2>1, <2>2, Monoid
    <3> QED BY <2>2, <3>2, <3>3, <3>4
  <2>8. X \otimes E(n) \in Symbol /\ d \otimes V \in Symbol
    BY <2>1, <2>2, Monoid
  <2>9. (X \otimes E(n)) \oplus (d \otimes V) = (d \otimes V) \oplus (X \otimes E(n))
    BY <2>8, XorGroup
  <2>10. lo \oplus ((d \otimes V) \oplus (X \otimes E(n))) = (lo \oplus (d \otimes V)) \oplus (X \otimes E(n))
    BY <2>1, <2>8, XorGroup
  <2> QED BY <2>4, <2>6, <2>7, <2>9, <2>10
<1>10. Z(13) = f[13]
  <2> DEFINE S == {n \in 0 .. 13 : Z(n) = f[13]}
  <2> HIDE DEF Z
  <2>1. 0 \in S
    BY <1>8
  <2>2. \A n \in 0 .. 12 : n \in S => n + 1 \in S
    BY <1>9
  <2> HIDE DEF S
  <2>3. 13 \in Nat /\ 13 - 1 = 12 /\ 13 \in 0 .. 13
    OBVIOUS
  <2>4. 13 \in S
    BY <2>1, <2>2, <2>3, RoundInduction
  <2> QED BY <2>4 DEF S
<1> DEFINE p == P[13]
           C == Pow(27 * i)
<1>11. C \in Symbol /\ p \in Quad
  <2>1. 27 * i \in Nat /\ 13 \in 0 .. 13
    OBVIOUS
  <2> QED BY <1>3, <2>1, Powers
<1>12. f[13] = C \otimes Eval(p, i)
  <2>1. 13 - 13 = 0 /\ i * (40 - 13) = 27 * i
    OBVIOUS
  <2>2. f[13] = 0 \oplus (C \otimes E(13))
    BY <1>2, <1>10, <2>1
  <2>3. 0 \in Symbol /\ 13 \in 0 .. 13
    BY DEF Symbol
  <2>4. C \otimes E(13) \in Symbol
    BY <1>3, <1>11, <2>3, Monoid
  <2>5. 0 \oplus (C \otimes E(13)) = C \otimes E(13)
    BY <2>3, <2>4, XorGroup
  <2> QED BY <2>2, <2>5 DEF E
<1>13. f[27] = f[13]
  <2> DEFINE S == {n \in 0 .. 14 : f[13 + n] = f[13]}
  <2>1. 0 \in S
    OBVIOUS
  <2>2. ASSUME NEW n \in 0 .. 13, n \in S PROVE n + 1 \in S
    <3>1. 13 + n \in Position /\ (13 + n) + 1 = 13 + (n + 1) /\ n + 1 \in 0 .. 14
      BY DEF Position
    <3>2. Spread(w)[13 + n] = 0
      BY <3>1 DEF Spread
    <3>3. Pow(i * (13 + n)) \in Symbol /\ 0 \in Symbol /\ f[13] \in Symbol
      <4>1. Pow(i * (13 + n)) \in Symbol
        BY <1>1, <3>1, PowPositions
      <4>2. 13 \in 0 .. 31 /\ 0 \in Symbol
        BY DEF Symbol
      <4> QED BY <1>7, <4>1, <4>2
    <3>4. f[(13 + n) + 1] = f[13 + n] \oplus (Spread(w)[13 + n] \otimes Pow(i * (13 + n)))
      <4> HIDE DEF w
      <4> QED BY <1>2, <3>1
    <3>5. Spread(w)[13 + n] \otimes Pow(i * (13 + n)) = 0
      BY <3>2, <3>3, Monoid
    <3>6. f[13 + (n + 1)] = f[13]
      BY <2>2, <3>1, <3>3, <3>4, <3>5, XorGroup
    <3> QED BY <3>1, <3>6
  <2> HIDE DEF S
  <2>3. 14 \in Nat /\ 14 - 1 = 13 /\ 14 \in 0 .. 14 /\ 13 + 14 = 27
    OBVIOUS
  <2>4. 14 \in S
    BY <2>1, <2>2, <2>3, RoundInduction
  <2> QED BY <2>3, <2>4 DEF S
<1>14. /\ f[28] = f[27] \oplus (p[1] \otimes Pow(i * 27))
       /\ f[29] = f[28] \oplus (p[2] \otimes Pow(i * 28))
       /\ f[30] = f[29] \oplus (p[3] \otimes Pow(i * 29))
       /\ f[31] = f[30] \oplus (p[4] \otimes Pow(i * 30))
  <2>1. /\ 27 \in Position /\ 28 \in Position /\ 29 \in Position /\ 30 \in Position
        /\ 27 + 1 = 28 /\ 28 + 1 = 29 /\ 29 + 1 = 30 /\ 30 + 1 = 31
    BY DEF Position
  <2>2. /\ Spread(w)[27] = w[13] /\ Spread(w)[28] = w[14]
        /\ Spread(w)[29] = w[15] /\ Spread(w)[30] = w[16]
    BY <2>1 DEF Spread
  <2>3. w[13] = p[1] /\ w[14] = p[2] /\ w[15] = p[3] /\ w[16] = p[4]
    <3>1. 13 - 12 = 1 /\ 14 - 12 = 2 /\ 15 - 12 = 3 /\ 16 - 12 = 4
          /\ 13 \in 13 .. 16 /\ 14 \in 13 .. 16 /\ 15 \in 13 .. 16 /\ 16 \in 13 .. 16
      OBVIOUS
    <3> QED BY <3>1, WithParityType
  <2> HIDE DEF w, p
  <2>4. /\ f[27 + 1] = f[27] \oplus (Spread(w)[27] \otimes Pow(i * 27))
        /\ f[28 + 1] = f[28] \oplus (Spread(w)[28] \otimes Pow(i * 28))
        /\ f[29 + 1] = f[29] \oplus (Spread(w)[29] \otimes Pow(i * 29))
        /\ f[30 + 1] = f[30] \oplus (Spread(w)[30] \otimes Pow(i * 30))
    BY <1>2, <2>1
  <2> QED BY <2>1, <2>2, <2>3, <2>4
<1>15. C \otimes Eval(p, i)
         = ((p[1] \otimes Pow(i * 27)) \oplus (p[2] \otimes Pow(i * 28)))
             \oplus ((p[3] \otimes Pow(i * 29)) \oplus (p[4] \otimes Pow(i * 30)))
  BY <1>11, EvalShifted
<1> DEFINE t1 == p[1] \otimes Pow(i * 27)
           t2 == p[2] \otimes Pow(i * 28)
           t3 == p[3] \otimes Pow(i * 29)
           t4 == p[4] \otimes Pow(i * 30)
<1>16. t1 \in Symbol /\ t2 \in Symbol /\ t3 \in Symbol /\ t4 \in Symbol
  <2>1. p[1] \in Symbol /\ p[2] \in Symbol /\ p[3] \in Symbol /\ p[4] \in Symbol
    <3> HIDE DEF p
    <3> QED BY <1>11 DEF Quad
  <2>2. /\ Pow(i * 27) \in Symbol /\ Pow(i * 28) \in Symbol
        /\ Pow(i * 29) \in Symbol /\ Pow(i * 30) \in Symbol
    BY <1>1, PowPositions DEF Position
  <2> QED BY <2>1, <2>2, Monoid
<1>17. f[31] = 0
  <2> HIDE DEF t1, t2, t3, t4, p, C
  <2> DEFINE s == (t1 \oplus t2) \oplus (t3 \oplus t4)
  <2>1. f[13] = s
    BY <1>12, <1>15 DEF t1, t2, t3, t4
  <2>2. f[31] = (((s \oplus t1) \oplus t2) \oplus t3) \oplus t4
    <3> HIDE DEF s
    <3> QED BY <1>13, <1>14, <2>1 DEF t1, t2, t3, t4
  <2>3. t1 \oplus t2 \in Symbol /\ t3 \oplus t4 \in Symbol
    BY <1>16, XorBits
  <2>4. s \in Symbol
    BY <2>3, XorBits
  <2> HIDE DEF s
  <2>5. (s \oplus t1) \oplus t2 = s \oplus (t1 \oplus t2)
    BY <1>16, <2>4, XorGroup
  <2>6. s \oplus (t1 \oplus t2) \in Symbol
    BY <2>3, <2>4, XorBits
  <2>7. ((s \oplus (t1 \oplus t2)) \oplus t3) \oplus t4 = (s \oplus (t1 \oplus t2)) \oplus (t3 \oplus t4)
    BY <1>16, <2>6, XorGroup
  <2>8. (s \oplus (t1 \oplus t2)) \oplus (t3 \oplus t4) = s \oplus s
    BY <2>3, <2>4, XorGroup DEF s
  <2>9. s \oplus s = 0
    BY <2>4, XorGroup
  <2> QED BY <2>2, <2>5, <2>7, <2>8, <2>9
<1> QED BY <1>17 DEF f, Syndrome

------------------------------------------------------------------------------
(* The specification. *)

(* The inductive invariant: typos are exactly the places where what was    *)
(* received differs from what was sent.                                    *)
CodeInv ==
  /\ sent \in Word
  /\ received \in Codeword
  /\ typos = {k \in 0 .. 16 : received[k] # WithParity(sent)[k]}
  /\ Cardinality(typos) <= MaxTypos

LEMMA CodeInvHolds == CodeSpec => []CodeInv
<1>1. CodeInit => CodeInv
  <2> SUFFICES ASSUME CodeInit PROVE CodeInv
    OBVIOUS
  <2>1. sent \in Word
    BY CodeAssumption DEF CodeInit
  <2>2. received = WithParity(sent) /\ typos = {} /\ WithParity(sent) \in Codeword
    BY <2>1, WithParityType DEF CodeInit
  <2>3. Cardinality({}) <= MaxTypos
    BY CodeAssumption, FS_EmptySet
  <2> QED BY <2>1, <2>2, <2>3 DEF CodeInv
<1>2. CodeInv /\ [CodeNext]_codeVars => CodeInv'
  <2> SUFFICES ASSUME CodeInv, [CodeNext]_codeVars PROVE CodeInv'
    OBVIOUS
  <2>1. CASE UNCHANGED codeVars
    BY <2>1 DEF CodeInv, codeVars
  <2>2. ASSUME NEW k \in 0 .. 16, NEW c \in TypoSymbol, Typo(k, c) PROVE CodeInv'
    <3> DEFINE w == WithParity(sent)
    <3>1. c \in Symbol /\ sent' = sent /\ k \notin typos /\ received[k] # c
      BY <2>2, CodeAssumption DEF Typo
    <3>2. received' = [received EXCEPT ![k] = c] /\ received' \in Codeword
      BY <2>2, <3>1 DEF Typo, CodeInv, Codeword
    <3>3. received[k] = w[k]
      BY <3>1 DEF CodeInv
    <3>4. typos' = typos \cup {k}
      BY <2>2 DEF Typo
    <3> HIDE DEF w
    <3>5. typos = {j \in 0 .. 16 : received[j] # w[j]}
      BY DEF CodeInv, w
    <3>6. typos \cup {k} = {j \in 0 .. 16 : received'[j] # w[j]}
      BY <3>1, <3>2, <3>3, <3>5 DEF CodeInv, Codeword
    <3>7. Cardinality(typos') <= MaxTypos
      <4>1. 0 \in Int /\ 16 \in Int /\ typos \in SUBSET (0 .. 16)
        BY <3>5
      <4>2. IsFiniteSet(typos)
        BY <4>1, FS_Interval, FS_Subset
      <4>3. Cardinality(typos) \in Nat /\ Cardinality(typos) < MaxTypos
        BY <2>2, <4>2, FS_CardinalityType DEF Typo
      <4>4. Cardinality(typos \cup {k}) = Cardinality(typos) + 1
        BY <3>1, <4>2, FS_AddElement
      <4> QED BY <3>4, <4>3, <4>4, CodeAssumption
    <3>8. w = WithParity(sent')
      BY <3>1 DEF w
    <3> QED BY <3>1, <3>2, <3>4, <3>6, <3>7, <3>8 DEF CodeInv
  <2> QED BY <2>1, <2>2 DEF CodeNext
<1> QED BY <1>1, <1>2, PTL DEF CodeSpec

LEMMA SentIsValid ==
  ASSUME NEW word \in Word
  PROVE  is_codeword_valid(WithParity(word))
BY ParitySyndrome DEF is_codeword_valid

(* What the encoder makes satisfies the checker (reedsolomon.d:83, :191),  *)
(* for all 32^13 words of thirteen digits.                                 *)
THEOREM EncodedIsCodewordHolds == CodeSpec => []EncodedIsCodeword
<1>1. CodeInv => EncodedIsCodeword
  <2> SUFFICES ASSUME CodeInv, typos = {} PROVE is_codeword_valid(received)
    BY DEF EncodedIsCodeword
  <2>1. \A k \in 0 .. 16 : received[k] = WithParity(sent)[k]
    BY DEF CodeInv
  <2>2. received \in Codeword /\ WithParity(sent) \in Codeword
    BY WithParityType DEF CodeInv
  <2>3. received = WithParity(sent)
    BY <2>1, <2>2 DEF Codeword
  <2> QED BY <2>3, SentIsValid DEF CodeInv
<1> QED BY <1>1, CodeInvHolds, PTL

(* The checker (reedsolomon.d:187) sees one to four wrong symbols in any   *)
(* codeword, wherever they are and whatever they have become.              *)
THEOREM TyposDetectedHolds == CodeSpec => []TyposDetected
<1>1. CodeInv => TyposDetected
  <2> SUFFICES ASSUME CodeInv, typos # {}, is_codeword_valid(received) PROVE FALSE
    BY DEF TyposDetected
  <2> DEFINE w == WithParity(sent)
  <2>1. w \in Codeword /\ is_codeword_valid(w) /\ received \in Codeword
    BY WithParityType, SentIsValid DEF CodeInv
  <2>2. typos = {k \in 0 .. 16 : received[k] # w[k]}
    BY DEF CodeInv
  <2>3. Cardinality(typos) <= 4
    <3>1. 0 \in Int /\ 16 \in Int /\ typos \in SUBSET (0 .. 16)
      BY <2>2
    <3>2. IsFiniteSet(typos)
      BY <3>1, FS_Interval, FS_Subset
    <3>3. Cardinality(typos) \in Nat
      BY <3>2, FS_CardinalityType
    <3> QED BY <3>3, CodeAssumption DEF CodeInv
  <2> HIDE DEF w
  <2>4. received = w
    BY <2>1, <2>2, <2>3, Distance
  <2> QED BY <2>2, <2>4
<1> QED BY <1>1, CodeInvHolds, PTL

(* The tables of gmult (reedsolomon.d:175) multiply polynomials modulo     *)
(* x^5 + x^2 + 1, for all symbols.                                         *)
THEOREM GmultIsFieldProductHolds == CodeSpec => []GmultIsFieldProduct
<1>1. CodeInv => GmultIsFieldProduct
  <2> SUFFICES ASSUME CodeInv, NEW k \in 0 .. 16, NEW b \in Symbol
               PROVE  gmult(received[k], b) = Product(received[k], b)
    BY DEF GmultIsFieldProduct
  <2>1. received[k] \in Symbol
    BY DEF CodeInv, Codeword
  <2> QED BY <2>1, GmultIsProduct
<1> QED BY <1>1, CodeInvHolds, PTL
==============================================================================
