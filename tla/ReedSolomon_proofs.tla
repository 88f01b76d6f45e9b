-------------------------- MODULE ReedSolomon_proofs --------------------------
(***************************************************************************)
(* Proofs about addresses for every number: decode inverts encode, an      *)
(* address that has lost its end is never read as another number, and the  *)
(* check digits of one of full length play no part.                        *)
(***************************************************************************)
EXTENDS ReedSolomon, ReedSolomonCode_proofs, SequenceTheorems

(* The values of a loop's state, from s0 on, when round k maps it by       *)
(* step[k].                                                                *)
Steps(n, St) == [1 .. n -> [St -> St]]
States(f, n, St, s0, step) ==
  /\ f \in [0 .. n -> St] /\ f[0] = s0
  /\ \A k \in 1 .. n : f[k] = step[k][f[k - 1]]

LEMMA Iterate ==
  ASSUME NEW n \in Nat, NEW St, NEW s0 \in St, NEW step \in Steps(n, St)
  PROVE  \E f : States(f, n, St, s0, step)
<1> USE DEF Steps, States
<1> DEFINE Upto(m, f) == States(f, m, St, s0, step)
           S == {m \in 0 .. n : \E f : Upto(m, f)}
<1>1. 0 \in S
  <2>1. Upto(0, [k \in 0 .. 0 |-> s0])
    OBVIOUS
  <2> HIDE DEF Upto
  <2> QED BY <2>1
<1>2. ASSUME NEW m \in 0 .. n - 1, m \in S PROVE m + 1 \in S
  <2>1. PICK f : Upto(m, f)
    BY <1>2
  <2> DEFINE next == step[m + 1][f[m]]
             g == [k \in 0 .. m + 1 |-> IF k = m + 1 THEN next ELSE f[k]]
  <2>2. next \in St
    <3>1. m + 1 \in 1 .. n /\ m \in 0 .. m
      OBVIOUS
    <3>2. step[m + 1] \in [St -> St] /\ f[m] \in St
      BY <2>1, <3>1
    <3> QED BY <3>2
  <2> HIDE DEF next
  <2>3. g \in [0 .. m + 1 -> St] /\ g[0] = s0
    BY <2>1, <2>2
  <2>4. ASSUME NEW k \in 1 .. m + 1 PROVE g[k] = step[k][g[k - 1]]
    <3>1. CASE k = m + 1
      <4>1. g[k] = next /\ g[k - 1] = f[m]
        BY <3>1
      <4> QED BY <3>1, <4>1 DEF next
    <3>2. CASE k # m + 1
      <4>1. g[k] = f[k] /\ g[k - 1] = f[k - 1] /\ k \in 1 .. m
        BY <3>2
      <4> QED BY <2>1, <4>1
    <3> QED BY <3>1, <3>2
  <2>5. Upto(m + 1, g)
    <3> HIDE DEF g
    <3> QED BY <2>3, <2>4
  <2>6. m + 1 \in 0 .. n
    OBVIOUS
  <2> HIDE DEF Upto
  <2> QED BY <2>5, <2>6
<1>3. n \in S
  <2> HIDE DEF S
  <2>1. n \in 0 .. n
    OBVIOUS
  <2>2. \A k \in 0 .. n : k \in S
    BY <1>1, <1>2, RoundInduction
  <2> QED BY <2>1, <2>2
<1> QED BY <1>3

------------------------------------------------------------------------------
(* The value of a sequence of digits, most significant first. *)

Base == {10, 32}

(* What the digits read so far are worth, by Horner's rule. *)
Horner(f, q, base) ==
  /\ f \in [0 .. Len(q) -> Nat]
  /\ f[0] = 0
  /\ \A n \in 1 .. Len(q) : f[n] = base * f[n - 1] + q[n]

HasValue(q, base, v) == \E f : Horner(f, q, base) /\ f[Len(q)] = v

LEMMA EmptyValue ==
  ASSUME NEW base \in Base
  PROVE  HasValue(<<>>, base, 0)
<1>1. Horner([n \in 0 .. 0 |-> 0], <<>>, base)
  BY DEF Horner
<1> QED BY <1>1 DEF HasValue

LEMMA AppendValue ==
  ASSUME NEW base \in Base, NEW q \in Seq(0 .. base - 1), NEW x \in 0 .. base - 1,
         NEW v \in Nat, HasValue(q, base, v)
  PROVE  /\ Append(q, x) \in Seq(0 .. base - 1)
         /\ HasValue(Append(q, x), base, base * v + x)
<1> DEFINE m == Len(q)
           r == Append(q, x)
<1>1. PICK f : Horner(f, q, base) /\ f[m] = v
  BY DEF HasValue
<1>2. /\ r \in Seq(0 .. base - 1) /\ Len(r) = m + 1 /\ m \in Nat
      /\ r[m + 1] = x /\ \A n \in 1 .. m : r[n] = q[n]
  OBVIOUS
<1> DEFINE w == base * v + x
           g == [n \in 0 .. m + 1 |-> IF n = m + 1 THEN w ELSE f[n]]
<1>3. w \in Nat
  BY DEF Base
<1> HIDE DEF r, m
<1>4. ASSUME NEW n \in 1 .. m + 1 PROVE g[n] = base * g[n - 1] + r[n]
  <2>1. CASE n = m + 1
    <3>1. g[n] = w /\ g[n - 1] = v /\ r[n] = x
      BY <1>1, <1>2, <2>1
    <3> QED BY <3>1
  <2>2. CASE n # m + 1
    <3>1. n \in 1 .. m /\ g[n] = f[n] /\ g[n - 1] = f[n - 1] /\ r[n] = q[n]
      BY <1>2, <2>2
    <3> QED BY <1>1, <3>1 DEF Horner, m
  <2> QED BY <2>1, <2>2
<1>5. g \in [0 .. m + 1 -> Nat] /\ g[0] = 0 /\ g[m + 1] = w
  <2> HIDE DEF w
  <2> QED BY <1>1, <1>2, <1>3 DEF Horner, m
<1> HIDE DEF g
<1>6. Horner(g, r, base) /\ g[Len(r)] = w
  BY <1>2, <1>4, <1>5 DEF Horner
<1> QED BY <1>2, <1>6 DEF HasValue, r

LEMMA ValueExists ==
  ASSUME NEW base \in Base, NEW q \in Seq(0 .. base - 1)
  PROVE  \E v \in Nat : HasValue(q, base, v)
<1> DEFINE n == Len(q)
           step == [k \in 1 .. n |-> [v \in Nat |-> base * v + q[k]]]
<1>1. n \in Nat /\ \A k \in 1 .. n : q[k] \in 0 .. base - 1
  BY LenProperties, ElementOfSeq
<1>2. step \in Steps(n, Nat)
  <2> HIDE DEF n
  <2>1. \A k \in 1 .. n, v \in Nat : base * v + q[k] \in Nat
    BY <1>1 DEF Base
  <2> QED BY <2>1 DEF Steps
<1>3. PICK f : States(f, n, Nat, 0, step)
  <2>1. 0 \in Nat
    OBVIOUS
  <2> HIDE DEF step, n
  <2> QED BY <1>1, <1>2, <2>1, Iterate
<1>4. \A k \in 1 .. n : f[k] = base * f[k - 1] + q[k]
  <2> HIDE DEF n
  <2> SUFFICES ASSUME NEW k \in 1 .. n PROVE f[k] = base * f[k - 1] + q[k]
    OBVIOUS
  <2>1. k - 1 \in 0 .. n
    BY <1>1
  <2>2. f[k - 1] \in Nat
    BY <1>3, <2>1 DEF States
  <2> QED BY <1>3, <2>2 DEF States
<1>5. Horner(f, q, base)
  BY <1>3, <1>4 DEF Horner, States
<1>6. f[n] \in Nat
  BY <1>1, <1>3 DEF States
<1> QED BY <1>5, <1>6 DEF HasValue

------------------------------------------------------------------------------
(* One pass of a base conversion (reedsolomon.d:61, :149) divides. *)

Conversion(from, to) == (from = 10 /\ to = 32) \/ (from = 32 /\ to = 10)

Dividing(from, to) == [rest : 0 .. to - 1, quot : Seq(0 .. from - 1)]

(* Of digits worth u, the quotient has been put out and the rest kept; the *)
(* quotient has no leading zeros.                                          *)
Divided(acc, u, from, to) ==
  /\ acc \in Dividing(from, to)
  /\ \E w \in Nat : /\ HasValue(acc.quot, from, w)
                    /\ u = to * w + acc.rest
                    /\ acc.quot = <<>> <=> w = 0

LEMMA ConversionType ==
  ASSUME NEW from, NEW to, Conversion(from, to)
  PROVE  from \in Base /\ to \in Base
BY DEF Conversion, Base

(* The arithmetic of one digit x after the rest r of a division with the   *)
(* quotient w.                                                             *)
DigitFact(r, x, w, from, to) ==
  LET d == r * from + x
      e == d \div to
  IN  /\ d \in Nat /\ d % to \in 0 .. to - 1
      /\ e \in 0 .. from - 1 /\ (d < to => e = 0) /\ (d >= to => e > 0)
      /\ from * (to * w + r) + x = to * (from * w + e) + (d % to)
      /\ from * w + e \in Nat
      /\ from * w + e = 0 <=> w = 0 /\ e = 0

DivideFact(from, to) ==
  \A r \in 0 .. to - 1, x \in 0 .. from - 1, w \in Nat : DigitFact(r, x, w, from, to)

LEMMA DivideArithmetic ==
  ASSUME NEW from, NEW to, Conversion(from, to)
  PROVE  DivideFact(from, to) /\ 0 \in 0 .. from - 1 /\ from \in Nat /\ to \in Nat
<1>1. DivideFact(10, 32) /\ 0 \in 0 .. 10 - 1
  BY DEF DivideFact, DigitFact
<1>2. DivideFact(32, 10) /\ 0 \in 0 .. 32 - 1
  BY DEF DivideFact, DigitFact
<1> QED BY <1>1, <1>2 DEF Conversion

LEMMA DivideStepType ==
  ASSUME NEW from, NEW to, Conversion(from, to),
         NEW acc \in Dividing(from, to), NEW x \in 0 .. from - 1
  PROVE  DivideStep(acc, x, from, to) \in Dividing(from, to)
<1> DEFINE d == acc.rest * from + x
<1>1. acc.rest \in 0 .. to - 1 /\ acc.quot \in Seq(0 .. from - 1)
  BY DEF Dividing
<1>2. d \in Nat /\ d % to \in 0 .. to - 1 /\ d \div to \in 0 .. from - 1 /\ 0 \in 0 .. from - 1
  <2>1. 0 \in Nat
    OBVIOUS
  <2>2. DigitFact(acc.rest, x, 0, from, to)
    BY <1>1, <2>1, DivideArithmetic DEF DivideFact
  <2> QED BY <2>2, DivideArithmetic DEF DigitFact
<1> HIDE DEF d
<1> DEFINE q == IF d >= to THEN Append(acc.quot, d \div to)
                ELSE IF acc.quot # <<>> THEN Append(acc.quot, 0)
                ELSE <<>>
<1>3. q \in Seq(0 .. from - 1)
  BY <1>1, <1>2, AppendProperties, EmptySeq
<1>4. DivideStep(acc, x, from, to) = [rest |-> d % to, quot |-> q]
  BY DEF DivideStep, d
<1> HIDE DEF q
<1> QED BY <1>2, <1>3, <1>4 DEF Dividing

LEMMA DivideStepValue ==
  ASSUME NEW from, NEW to, Conversion(from, to), NEW acc, NEW u \in Nat,
         Divided(acc, u, from, to), NEW x \in 0 .. from - 1
  PROVE  Divided(DivideStep(acc, x, from, to), from * u + x, from, to)
<1> DEFINE d == acc.rest * from + x
           b == DivideStep(acc, x, from, to)
           e == d \div to
<1>1. acc.rest \in 0 .. to - 1 /\ acc.quot \in Seq(0 .. from - 1) /\ from \in Base
  BY ConversionType DEF Divided, Dividing
<1>2. b \in Dividing(from, to)
  BY DivideStepType DEF Divided
<1>3. PICK w \in Nat : /\ HasValue(acc.quot, from, w)
                       /\ u = to * w + acc.rest
                       /\ acc.quot = <<>> <=> w = 0
  BY DEF Divided
<1>4. /\ d \in Nat /\ e \in 0 .. from - 1 /\ 0 \in 0 .. from - 1
      /\ (d < to => e = 0) /\ (d >= to => e > 0)
      /\ from * u + x = to * (from * w + e) + (d % to)
      /\ from * w + e \in Nat
      /\ from * w + e = 0 <=> w = 0 /\ e = 0
  <2>1. DigitFact(acc.rest, x, w, from, to)
    BY <1>1, DivideArithmetic DEF DivideFact
  <2>2. /\ d \in Nat /\ e \in 0 .. from - 1 /\ (d < to => e = 0) /\ (d >= to => e > 0)
        /\ from * (to * w + acc.rest) + x = to * (from * w + e) + (d % to)
        /\ from * w + e \in Nat
        /\ from * w + e = 0 <=> w = 0 /\ e = 0
    BY <2>1 DEF DigitFact
  <2> HIDE DEF d, e
  <2>3. from * u + x = to * (from * w + e) + (d % to)
    BY <1>3, <2>2, Zenon
  <2> QED BY <2>2, <2>3, DivideArithmetic
<1>5. /\ b.rest = d % to
      /\ b.quot = IF d >= to THEN Append(acc.quot, e)
                  ELSE IF acc.quot # <<>> THEN Append(acc.quot, 0)
                  ELSE <<>>
  BY DEF DivideStep
<1>6. to \in Nat
  BY DEF Conversion
<1> HIDE DEF b, d, e
<1>7. CASE d < to /\ acc.quot = <<>>
  <2>1. b.quot = <<>> /\ from * w + e = 0
    BY <1>3, <1>4, <1>5, <1>6, <1>7
  <2>2. HasValue(b.quot, from, from * w + e)
    BY <1>1, <2>1, EmptyValue
  <2> QED BY <1>2, <1>4, <1>5, <2>1, <2>2 DEF Divided, b
<1>8. CASE d >= to \/ acc.quot # <<>>
  <2>1. b.quot = Append(acc.quot, e)
    BY <1>4, <1>5, <1>6, <1>8
  <2>2. HasValue(b.quot, from, from * w + e)
    BY <1>1, <1>3, <1>4, <2>1, AppendValue
  <2>3. b.quot # <<>>
    BY <1>1, <1>4, <2>1, AppendProperties
  <2>4. from * w + e # 0
    BY <1>3, <1>4, <1>8
  <2> QED BY <1>2, <1>4, <1>5, <2>2, <2>3, <2>4 DEF Divided, b
<1>9. d < to \/ d >= to
  BY <1>4, <1>6
<1> QED BY <1>7, <1>8, <1>9

LEMMA DivideLoop ==
  ASSUME NEW from, NEW to, Conversion(from, to), NEW q \in Seq(0 .. from - 1)
  PROVE  \E R : /\ R[0] = [rest |-> 0, quot |-> <<>>]
                /\ \A n \in 1 .. Len(q) : R[n] = DivideStep(R[n - 1], q[n], from, to)
                /\ Divide(q, from, to) = R[Len(q)]
<1> DEFINE m == Len(q)
           s0 == [rest |-> 0, quot |-> <<>>]
           body(h, n) == IF n = 0 THEN s0 ELSE DivideStep(h[n - 1], q[n], from, to)
           St == Dividing(from, to)
           step == [n \in 1 .. m |-> [s \in St |-> DivideStep(s, q[n], from, to)]]
           R == CHOOSE h : h = [n \in 0 .. m |-> body(h, n)]
<1>1. m \in Nat /\ \A n \in 1 .. m : q[n] \in 0 .. from - 1
  BY LenProperties, ElementOfSeq
<1>2. Divide(q, from, to) = R[m]
  BY DEF Divide
<1> HIDE DEF m
<1>3. s0 \in St
  <2>1. 0 \in 0 .. to - 1 /\ <<>> \in Seq(0 .. from - 1)
    BY EmptySeq DEF Conversion
  <2> QED BY <2>1 DEF Dividing
<1> HIDE DEF s0
<1>4. step \in Steps(m, St)
  <2>1. \A n \in 1 .. m : \A s \in St : DivideStep(s, q[n], from, to) \in St
    BY <1>1, DivideStepType
  <2> HIDE DEF St
  <2> QED BY <2>1 DEF Steps
<1>5. PICK f : States(f, m, St, s0, step)
  <2> HIDE DEF step, St
  <2> QED BY <1>1, <1>3, <1>4, Iterate
<1>6. ASSUME NEW n \in 0 .. m PROVE f[n] = body(f, n)
  <2>1. CASE n = 0
    BY <1>5, <2>1 DEF States
  <2>2. CASE n # 0
    <3>1. n \in 1 .. m /\ n - 1 \in 0 .. m
      BY <1>1, <2>2
    <3>2. f[n - 1] \in St /\ f[n] = step[n][f[n - 1]]
      <4> HIDE DEF step, St
      <4> QED BY <1>5, <3>1 DEF States
    <3>3. f[n] = DivideStep(f[n - 1], q[n], from, to)
      <4> HIDE DEF St
      <4> QED BY <3>1, <3>2
    <3> QED BY <2>2, <3>3
  <2> QED BY <2>1, <2>2
<1>7. f = [n \in 0 .. m |-> body(f, n)]
  <2> HIDE DEF body, step, St
  <2> QED BY <1>5, <1>6 DEF States
<1>8. R = [n \in 0 .. m |-> body(R, n)]
  <2> HIDE DEF body
  <2> QED BY <1>7
<1> HIDE DEF R
<1>9. R[0] = s0
  <2>1. 0 \in 0 .. m /\ body(R, 0) = s0
    BY <1>1
  <2> HIDE DEF body
  <2> QED BY <1>8, <2>1
<1>10. ASSUME NEW n \in 1 .. m PROVE R[n] = DivideStep(R[n - 1], q[n], from, to)
  <2>1. n \in 0 .. m /\ body(R, n) = DivideStep(R[n - 1], q[n], from, to)
    BY <1>1
  <2> HIDE DEF body
  <2>2. R[n] = body(R, n)
    BY <1>8, <2>1
  <2> QED BY <2>1, <2>2
<1> QED BY <1>2, <1>9, <1>10 DEF s0, m

(* The rest and the quotient of a division that is over. *)
RestFact(to) ==
  \A w \in Nat, r \in 0 .. to - 1 : (to * w + r) \div to = w /\ (to * w + r) % to = r

LEMMA RestArithmetic ==
  ASSUME NEW from, NEW to, Conversion(from, to)
  PROVE  RestFact(to)
<1>1. RestFact(10) /\ RestFact(32)
  BY DEF RestFact
<1> QED BY <1>1 DEF Conversion

Quot(v, to) == v \div to
Rem(v, to) == v % to

LEMMA DivideValue ==
  ASSUME NEW from, NEW to, Conversion(from, to), NEW q \in Seq(0 .. from - 1),
         NEW v \in Nat, HasValue(q, from, v)
  PROVE  LET d == Divide(q, from, to) IN
         /\ d \in Dividing(from, to)
         /\ d.rest = Rem(v, to)
         /\ HasValue(d.quot, from, Quot(v, to))
         /\ d.quot = <<>> <=> Quot(v, to) = 0
<1> DEFINE m == Len(q)
<1>1. m \in Nat /\ \A n \in 1 .. m : q[n] \in 0 .. from - 1
  BY LenProperties, ElementOfSeq
<1>2. PICK f : Horner(f, q, from) /\ f[m] = v
  BY DEF HasValue
<1>3. /\ \A n \in 0 .. m : f[n] \in Nat
      /\ f[0] = 0 /\ \A n \in 1 .. m : f[n] = from * f[n - 1] + q[n]
  BY <1>2 DEF Horner
<1>4. PICK R : /\ R[0] = [rest |-> 0, quot |-> <<>>]
               /\ \A n \in 1 .. m : R[n] = DivideStep(R[n - 1], q[n], from, to)
               /\ Divide(q, from, to) = R[m]
  BY DivideLoop
<1> HIDE DEF m
<1> DEFINE S == {n \in 0 .. m : Divided(R[n], f[n], from, to)}
<1>5. 0 \in S
  <2> DEFINE s0 == [rest |-> 0, quot |-> <<>>]
  <2>1. 0 \in 0 .. to - 1 /\ <<>> \in Seq(0 .. from - 1) /\ 0 = to * 0 + 0
    BY EmptySeq DEF Conversion
  <2>2. s0 \in Dividing(from, to) /\ s0.rest = 0 /\ s0.quot = <<>>
    BY <2>1 DEF Dividing
  <2>3. HasValue(<<>>, from, 0) /\ 0 \in Nat
    BY ConversionType, EmptyValue
  <2> HIDE DEF s0
  <2>4. Divided(s0, 0, from, to)
    BY <2>1, <2>2, <2>3 DEF Divided
  <2> QED BY <1>1, <1>3, <1>4, <2>4 DEF s0
<1>6. ASSUME NEW n \in 0 .. m - 1, n \in S PROVE n + 1 \in S
  <2>1. n + 1 \in 1 .. m /\ n + 1 \in 0 .. m /\ (n + 1) - 1 = n /\ n \in 0 .. m
    BY <1>1
  <2>2. /\ R[n + 1] = DivideStep(R[n], q[n + 1], from, to)
        /\ f[n + 1] = from * f[n] + q[n + 1]
        /\ f[n] \in Nat /\ q[n + 1] \in 0 .. from - 1
    <3>1. R[n + 1] = DivideStep(R[(n + 1) - 1], q[n + 1], from, to)
      BY <1>4, <2>1
    <3>2. f[n + 1] = from * f[(n + 1) - 1] + q[n + 1]
      BY <1>3, <2>1
    <3>3. f[n] \in Nat /\ q[n + 1] \in 0 .. from - 1
      BY <1>1, <1>3, <2>1
    <3> QED BY <2>1, <3>1, <3>2, <3>3
  <2>3. Divided(R[n], f[n], from, to)
    BY <1>6
  <2>4. Divided(DivideStep(R[n], q[n + 1], from, to), from * f[n] + q[n + 1], from, to)
    BY <2>2, <2>3, DivideStepValue
  <2> QED BY <2>1, <2>2, <2>4
<1> HIDE DEF S
<1>7. m \in S
  <2>1. \A n \in 0 .. m : n \in S
    BY <1>1, <1>5, <1>6, RoundInduction
  <2> QED BY <1>1, <2>1
<1> DEFINE d == Divide(q, from, to)
<1>8. Divided(d, v, from, to)
  BY <1>2, <1>4, <1>7 DEF S, m
<1> HIDE DEF d
<1>9. PICK w \in Nat : /\ HasValue(d.quot, from, w)
                       /\ v = to * w + d.rest
                       /\ d.quot = <<>> <=> w = 0
  BY <1>8 DEF Divided
<1>10. d \in Dividing(from, to) /\ d.rest \in 0 .. to - 1
  BY <1>8 DEF Divided, Dividing
<1>11. Quot(v, to) = w /\ Rem(v, to) = d.rest
  BY <1>9, <1>10, RestArithmetic DEF RestFact, Quot, Rem
<1> QED BY <1>9, <1>10, <1>11 DEF d

------------------------------------------------------------------------------
(* The passes of a base conversion (reedsolomon.d:57, :144). *)

Converting(from, to) == [left : Seq(0 .. from - 1), out : Seq(0 .. to - 1)]

LEMMA PassType ==
  ASSUME NEW from, NEW to, Conversion(from, to), NEW acc \in Converting(from, to)
  PROVE  Pass(acc, from, to) \in Converting(from, to)
<1> DEFINE d == Divide(acc.left, from, to)
<1>1. acc.left \in Seq(0 .. from - 1) /\ acc.out \in Seq(0 .. to - 1)
  BY DEF Converting
<1>2. PICK v \in Nat : HasValue(acc.left, from, v)
  BY <1>1, ConversionType, ValueExists
<1>3. d \in Dividing(from, to)
  BY <1>1, <1>2, DivideValue
<1> HIDE DEF d
<1>4. d.quot \in Seq(0 .. from - 1) /\ d.rest \in 0 .. to - 1
  BY <1>3 DEF Dividing
<1>5. Append(acc.out, d.rest) \in Seq(0 .. to - 1)
  BY <1>1, <1>4, AppendProperties
<1>6. [left |-> d.quot, out |-> Append(acc.out, d.rest)] \in Converting(from, to)
  BY <1>4, <1>5 DEF Converting
<1> QED BY <1>6 DEF Pass, d

Passes(R, q, from, to) ==
  /\ R[0] = [left |-> q, out |-> <<>>]
  /\ \A n \in 1 .. 20 : R[n] = Pass(R[n - 1], from, to)
  /\ Convert(q, from, to) = R[20].out

LEMMA ConvertLoop ==
  ASSUME NEW from, NEW to, Conversion(from, to), NEW q \in Seq(0 .. from - 1)
  PROVE  \E R : Passes(R, q, from, to)
<1> DEFINE s0 == [left |-> q, out |-> <<>>]
           body(h, n) == IF n = 0 THEN s0 ELSE Pass(h[n - 1], from, to)
           St == Converting(from, to)
           step == [n \in 1 .. 20 |-> [s \in St |-> Pass(s, from, to)]]
           R == CHOOSE h : h = [n \in 0 .. 20 |-> body(h, n)]
<1>1. Convert(q, from, to) = R[20].out
  BY DEF Convert, BASE10_LENGTH
<1>2. s0 \in St
  <2>1. <<>> \in Seq(0 .. to - 1)
    BY EmptySeq
  <2> QED BY <2>1 DEF Converting
<1> HIDE DEF s0
<1>3. step \in Steps(20, St)
  <2>1. \A s \in St : Pass(s, from, to) \in St
    BY PassType
  <2> HIDE DEF St
  <2> QED BY <2>1 DEF Steps
<1>4. PICK f : States(f, 20, St, s0, step)
  <2>1. 20 \in Nat
    OBVIOUS
  <2> HIDE DEF step, St
  <2> QED BY <1>2, <1>3, <2>1, Iterate
<1>5. ASSUME NEW n \in 0 .. 20 PROVE f[n] = body(f, n)
  <2>1. CASE n = 0
    BY <1>4, <2>1 DEF States
  <2>2. CASE n # 0
    <3>1. n \in 1 .. 20 /\ n - 1 \in 0 .. 20
      BY <2>2
    <3>2. f[n - 1] \in St /\ f[n] = step[n][f[n - 1]]
      <4> HIDE DEF step, St
      <4> QED BY <1>4, <3>1 DEF States
    <3>3. f[n] = Pass(f[n - 1], from, to)
      <4> HIDE DEF St
      <4> QED BY <3>1, <3>2
    <3> QED BY <2>2, <3>3
  <2> QED BY <2>1, <2>2
<1>6. f = [n \in 0 .. 20 |-> body(f, n)]
  <2> HIDE DEF body, step, St
  <2> QED BY <1>4, <1>5 DEF States
<1>7. R = [n \in 0 .. 20 |-> body(R, n)]
  <2> HIDE DEF body
  <2> QED BY <1>6
<1> HIDE DEF R
<1>8. R[0] = s0
  <2>1. 0 \in 0 .. 20 /\ body(R, 0) = s0
    OBVIOUS
  <2> HIDE DEF body
  <2> QED BY <1>7, <2>1
<1>9. ASSUME NEW n \in 1 .. 20 PROVE R[n] = Pass(R[n - 1], from, to)
  <2>1. n \in 0 .. 20 /\ body(R, n) = Pass(R[n - 1], from, to)
    OBVIOUS
  <2> HIDE DEF body
  <2>2. R[n] = body(R, n)
    BY <1>7, <2>1
  <2> QED BY <2>1, <2>2
<1> QED BY <1>1, <1>8, <1>9 DEF s0, Passes

(* The numbers that the passes divide. *)
Values(X, to) ==
  /\ \A k \in 0 .. 20 : X[k] \in Nat
  /\ \A k \in 0 .. 19 : X[k + 1] = Quot(X[k], to)

(* After k passes over a number of which X are the values, the digits put  *)
(* out are those of the first values, and the digits left are the next     *)
(* value, none when it is zero.                                            *)
Converted(acc, X, k, from, to) ==
  /\ acc \in Converting(from, to)
  /\ Len(acc.out) \in 0 .. k
  /\ HasValue(acc.left, from, X[Len(acc.out)])
  /\ Len(acc.out) = 0 => acc.left # <<>>
  /\ Len(acc.out) # 0 => (acc.left = <<>> <=> X[Len(acc.out)] = 0)
  /\ Len(acc.out) = k \/ acc.left = <<>>
  /\ \A j \in 1 .. Len(acc.out) - 1 : X[j] # 0
  /\ \A j \in 1 .. Len(acc.out) : acc.out[j] = Rem(X[j - 1], to)

LEMMA ConvertedStep ==
  ASSUME NEW from, NEW to, Conversion(from, to), NEW X, Values(X, to),
         NEW k \in 0 .. 19,
         NEW acc, Converted(acc, X, k, from, to)
  PROVE  Converted(Pass(acc, from, to), X, k + 1, from, to)
<1> DEFINE b == Pass(acc, from, to)
           d == Divide(acc.left, from, to)
<1>1. acc \in Converting(from, to)
  BY DEF Converted
<1>2. acc.left \in Seq(0 .. from - 1) /\ acc.out \in Seq(0 .. to - 1)
  BY <1>1 DEF Converting
<1>3. b \in Converting(from, to)
  BY <1>1, PassType
<1>4. CASE acc.left = <<>>
  <2>1. b = acc
    BY <1>4 DEF Pass
  <2>2. Len(acc.out) \in 0 .. k + 1
    BY DEF Converted
  <2> HIDE DEF b
  <2> QED BY <1>4, <2>1, <2>2 DEF Converted, b
<1>5. CASE acc.left # <<>>
  <2>1. Len(acc.out) = k /\ HasValue(acc.left, from, X[k])
    BY <1>5 DEF Converted
  <2>10. X[k] \in Nat /\ X[k + 1] = Quot(X[k], to)
    BY DEF Values
  <2>2. /\ d \in Dividing(from, to) /\ d.rest = Rem(X[k], to)
        /\ HasValue(d.quot, from, X[k + 1])
        /\ d.quot = <<>> <=> X[k + 1] = 0
    BY <1>2, <2>1, <2>10, DivideValue
  <2>3. b.left = d.quot /\ b.out = Append(acc.out, d.rest)
    BY <1>5 DEF Pass
  <2> HIDE DEF b, d
  <2>4. d.rest \in 0 .. to - 1
    BY <2>2 DEF Dividing
  <2>5. /\ Len(b.out) = k + 1 /\ b.out[k + 1] = d.rest
        /\ \A j \in 1 .. k : b.out[j] = acc.out[j]
    BY <1>2, <2>1, <2>3, <2>4, AppendProperties
  <2>6. \A j \in 1 .. k : X[j] # 0
    <3> SUFFICES ASSUME NEW j \in 1 .. k PROVE X[j] # 0
      OBVIOUS
    <3>1. CASE j = k
      BY <1>5, <2>1, <3>1 DEF Converted
    <3>2. CASE j # k
      <4>1. j \in 1 .. Len(acc.out) - 1
        BY <2>1, <3>2
      <4> QED BY <4>1 DEF Converted
    <3> QED BY <3>1, <3>2
  <2>7. ASSUME NEW j \in 1 .. k + 1 PROVE b.out[j] = Rem(X[j - 1], to)
    <3>1. CASE j = k + 1
      BY <2>2, <2>5, <3>1
    <3>2. CASE j # k + 1
      <4>1. j \in 1 .. Len(acc.out) /\ j \in 1 .. k
        BY <2>1, <3>2
      <4> QED BY <2>5, <4>1 DEF Converted
    <3> QED BY <3>1, <3>2
  <2>8. k + 1 \in 0 .. k + 1 /\ (k + 1) - 1 = k /\ k + 1 # 0
    OBVIOUS
  <2>9. Converted(b, X, k + 1, from, to)
    BY <1>3, <2>2, <2>3, <2>5, <2>6, <2>7, <2>8 DEF Converted, b
  <2> QED BY <2>9 DEF b
<1> QED BY <1>4, <1>5

(* The digits of a number in another base, least first and without zeros   *)
(* at the end, as far as the passes go.                                    *)
DigitsOf(c, X, to) ==
  /\ c \in Seq(0 .. to - 1)
  /\ Len(c) \in 1 .. 20
  /\ Len(c) = 20 \/ X[Len(c)] = 0
  /\ \A j \in 1 .. Len(c) - 1 : X[j] # 0
  /\ \A j \in 1 .. Len(c) : c[j] = Rem(X[j - 1], to)

LEMMA PassesConvert ==
  ASSUME NEW from, NEW to, Conversion(from, to),
         NEW q \in Seq(0 .. from - 1), q # <<>>,
         NEW X, Values(X, to), HasValue(q, from, X[0]),
         NEW R, Passes(R, q, from, to)
  PROVE  Converted(R[20], X, 20, from, to)
<1>1. /\ R[0] = [left |-> q, out |-> <<>>]
      /\ \A n \in 1 .. 20 : R[n] = Pass(R[n - 1], from, to)
  BY DEF Passes
<1> DEFINE S == {k \in 0 .. 20 : Converted(R[k], X, k, from, to)}
<1>2. 0 \in S
  <2>1. <<>> \in Seq(0 .. to - 1) /\ Len(<<>>) = 0
    BY EmptySeq
  <2>2. R[0].left = q /\ R[0].out = <<>> /\ R[0] \in Converting(from, to)
    BY <1>1, <2>1 DEF Converting
  <2>3. Converted(R[0], X, 0, from, to)
    BY <2>1, <2>2 DEF Converted
  <2> QED BY <2>3
<1>3. ASSUME NEW k \in 0 .. 19, k \in S PROVE k + 1 \in S
  <2>1. k + 1 \in 1 .. 20 /\ k + 1 \in 0 .. 20 /\ (k + 1) - 1 = k
    OBVIOUS
  <2>2. R[k + 1] = Pass(R[k], from, to)
    <3>1. R[k + 1] = Pass(R[(k + 1) - 1], from, to)
      BY <1>1, <2>1
    <3> QED BY <2>1, <3>1
  <2>3. Converted(R[k], X, k, from, to)
    BY <1>3
  <2>4. Converted(Pass(R[k], from, to), X, k + 1, from, to)
    BY <2>3, ConvertedStep
  <2> QED BY <2>1, <2>2, <2>4
<1> HIDE DEF S
<1> QED
  <2>1. 20 \in Nat /\ 20 - 1 = 19 /\ 20 \in 0 .. 20
    OBVIOUS
  <2>2. 20 \in S
    BY <1>2, <1>3, <2>1, RoundInduction
  <2> QED BY <2>2 DEF S

(* Convert gives the digits of a number. *)
LEMMA ConvertValue ==
  ASSUME NEW from, NEW to, Conversion(from, to),
         NEW q \in Seq(0 .. from - 1), q # <<>>,
         NEW X, Values(X, to), HasValue(q, from, X[0])
  PROVE  DigitsOf(Convert(q, from, to), X, to)
<1>0. PICK R : Passes(R, q, from, to)
  BY ConvertLoop
<1>1. Convert(q, from, to) = R[20].out
  BY <1>0 DEF Passes
<1>4. Converted(R[20], X, 20, from, to)
  BY <1>0, PassesConvert
<1> DEFINE a == R[20]
<1>5. Convert(q, from, to) = a.out
  BY <1>1
<1> HIDE DEF a
<1>6. Converted(a, X, 20, from, to)
  BY <1>4 DEF a
<1>7. a.out \in Seq(0 .. to - 1) /\ Len(a.out) \in 1 .. 20
  <2>1. a.out \in Seq(0 .. to - 1) /\ Len(a.out) \in 0 .. 20
    BY <1>6 DEF Converted, Converting
  <2>2. /\ Len(a.out) = 0 => a.left # <<>>
        /\ Len(a.out) = 20 \/ a.left = <<>>
    BY <1>6 DEF Converted
  <2> QED BY <2>1, <2>2
<1>8. Len(a.out) = 20 \/ X[Len(a.out)] = 0
  BY <1>6, <1>7 DEF Converted
<1>9. /\ \A j \in 1 .. Len(a.out) - 1 : X[j] # 0
      /\ \A j \in 1 .. Len(a.out) : a.out[j] = Rem(X[j - 1], to)
  BY <1>6 DEF Converted
<1>10. DigitsOf(a.out, X, to)
  BY <1>7, <1>8, <1>9 DEF DigitsOf
<1> QED BY <1>5, <1>10

------------------------------------------------------------------------------
(* The values of a number under repeated division. *)

QuotFact(to) ==
  /\ \A v \in Nat : Quot(v, to) \in Nat
  /\ Quot(0, to) = 0

LEMMA QuotArithmetic ==
  ASSUME NEW to \in Base
  PROVE  QuotFact(to)
<1>1. QuotFact(10) /\ QuotFact(32)
  BY DEF QuotFact, Quot
<1> QED BY <1>1 DEF Base

LEMMA ValuesExist ==
  ASSUME NEW to \in Base, NEW v \in Nat
  PROVE  \E X : Values(X, to) /\ X[0] = v
<1> DEFINE step == [k \in 1 .. 20 |-> [u \in Nat |-> Quot(u, to)]]
<1>1. step \in Steps(20, Nat)
  BY QuotArithmetic DEF QuotFact, Steps
<1>2. PICK f : States(f, 20, Nat, v, step)
  <2>1. 20 \in Nat
    OBVIOUS
  <2> HIDE DEF step
  <2> QED BY <1>1, <2>1, Iterate
<1>3. (\A k \in 0 .. 20 : f[k] \in Nat) /\ f[0] = v
  BY <1>2 DEF States
<1>4. ASSUME NEW k \in 0 .. 19 PROVE f[k + 1] = Quot(f[k], to)
  <2>1. k + 1 \in 1 .. 20 /\ (k + 1) - 1 = k /\ k \in 0 .. 20
    OBVIOUS
  <2>2. f[k + 1] = step[k + 1][f[(k + 1) - 1]]
    <3> HIDE DEF step
    <3> QED BY <1>2, <2>1 DEF States
  <2>3. f[k] \in Nat
    BY <1>3, <2>1
  <2>4. step[k + 1][f[k]] = Quot(f[k], to)
    BY <2>1, <2>3
  <2> HIDE DEF step
  <2> QED BY <2>1, <2>2, <2>4
<1>5. Values(f, to)
  BY <1>3, <1>4 DEF Values
<1> QED BY <1>3, <1>5

LEMMA ZeroStays ==
  ASSUME NEW to \in Base, NEW X, Values(X, to), NEW m \in 0 .. 20, X[m] = 0
  PROVE  \A k \in m .. 20 : X[k] = 0
<1> DEFINE S == {k \in 0 .. 20 : k >= m => X[k] = 0}
<1>1. 0 \in S
  <2>1. 0 >= m => m = 0
    OBVIOUS
  <2> QED BY <2>1
<1>2. ASSUME NEW k \in 0 .. 19, k \in S PROVE k + 1 \in S
  <2>1. k + 1 \in 0 .. 20 /\ X[k + 1] = Quot(X[k], to)
    BY DEF Values
  <2>2. CASE k >= m
    BY <1>2, <2>1, <2>2, QuotArithmetic DEF QuotFact
  <2>3. CASE k < m
    <3>1. k + 1 >= m => k + 1 = m
      BY <2>3
    <3> QED BY <2>1, <3>1
  <2> QED BY <2>2, <2>3
<1> HIDE DEF S
<1>3. \A k \in 0 .. 20 : k \in S
  <2>1. 20 \in Nat /\ 20 - 1 = 19
    OBVIOUS
  <2> QED BY <1>1, <1>2, <2>1, RoundInduction
<1> SUFFICES ASSUME NEW k \in m .. 20 PROVE X[k] = 0
  OBVIOUS
<1>4. k \in 0 .. 20 /\ k >= m
  OBVIOUS
<1> QED BY <1>3, <1>4 DEF S

(* Powers of ten, and the powers of 32 that bound the values. *)
Ten == <<1, 10, 100, 1000, 10000, 100000, 1000000, 10000000, 100000000,
         1000000000, 10000000000, 100000000000, 1000000000000, 10000000000000,
         100000000000000, 1000000000000000, 10000000000000000,
         100000000000000000, 1000000000000000000, 10000000000000000000>>
Bound == <<36893488147419103232, 1152921504606846976, 36028797018963968,
           1125899906842624, 35184372088832, 1099511627776, 34359738368,
           1073741824, 33554432, 1048576, 32768, 1024, 32, 1, 1, 1, 1, 1, 1, 1,
           1>>

LEMMA TableOfTen ==
  /\ Ten[1] = 1 /\ Ten[20] < Bound[1]
  /\ \A n \in 1 .. 19 : Ten[n] \in Nat
  /\ \A n \in 1 .. 19 : Ten[n + 1] = 10 * Ten[n]
  /\ \A n \in 1 .. 19 : Ten[n] < Ten[20]
<1>1. Ten[1] = 1 /\ Ten[20] < Bound[1]
  BY DEF Ten, Bound
<1>2. \A n \in 1 .. 19 : Ten[n] \in Nat
  BY DEF Ten
<1>3. \A n \in 1 .. 19 : Ten[n + 1] = 10 * Ten[n]
  BY DEF Ten
<1>4. \A n \in 1 .. 19 : Ten[n] < Ten[20]
  BY DEF Ten
<1> QED BY <1>1, <1>2, <1>3, <1>4

LEMMA TableOfBounds ==
  /\ Bound[14] = 1
  /\ \A k \in 1 .. 21 : Bound[k] \in Nat
  /\ \A k \in 1 .. 20 : Bound[k] <= 32 * Bound[k + 1]
<1>1. Bound[14] = 1
  BY DEF Bound
<1>2. \A k \in 1 .. 21 : Bound[k] \in Nat
  BY DEF Bound
<1>3. \A k \in 1 .. 20 : Bound[k] <= 32 * Bound[k + 1]
  BY DEF Bound
<1> QED BY <1>1, <1>2, <1>3

LEMMA TimesTen ==
  ASSUME NEW a \in Nat, NEW b \in Nat, a < b, NEW x \in 0 .. 9
  PROVE  10 * a + x < 10 * b
OBVIOUS

LEMMA Over32 ==
  ASSUME NEW a \in Nat, NEW b \in Nat, NEW c \in Nat, a < b, b <= 32 * c
  PROVE  a \div 32 < c
OBVIOUS

(* A decimal number of at most nineteen digits has thirteen base-32 digits. *)
LEMMA DecimalBound ==
  ASSUME NEW q \in Seq(0 .. 9), Len(q) \in 0 .. 19, NEW v \in Nat, HasValue(q, 10, v)
  PROVE  v < Bound[1]
<1> DEFINE m == Len(q)
<1>1. PICK f : Horner(f, q, 10) /\ f[m] = v
  BY DEF HasValue
<1>2. /\ \A n \in 0 .. m : f[n] \in Nat
      /\ f[0] = 0 /\ \A n \in 1 .. m : f[n] = 10 * f[n - 1] + q[n]
  BY <1>1 DEF Horner
<1>3. m \in 0 .. 19 /\ \A n \in 1 .. m : q[n] \in 0 .. 9
  BY LenProperties, ElementOfSeq
<1> HIDE DEF m
<1> DEFINE S == {n \in 0 .. m : f[n] < Ten[n + 1]}
<1>4. 0 \in S
  <2>1. f[0] < Ten[1]
    BY <1>2, TableOfTen
  <2>2. 0 \in 0 .. m /\ 0 + 1 = 1
    BY <1>3
  <2> QED BY <2>1, <2>2
<1>5. ASSUME NEW n \in 0 .. m - 1, n \in S PROVE n + 1 \in S
  <2>1. n + 1 \in 1 .. m /\ n + 1 \in 0 .. m /\ (n + 1) - 1 = n /\ n \in 0 .. m /\ n + 1 \in 1 .. 19
    BY <1>3
  <2>2. f[n + 1] = 10 * f[n] + q[n + 1]
    <3>1. f[n + 1] = 10 * f[(n + 1) - 1] + q[n + 1]
      BY <1>2, <2>1
    <3> QED BY <2>1, <3>1
  <2>3. f[n] \in Nat /\ q[n + 1] \in 0 .. 9
    BY <1>2, <1>3, <2>1
  <2>4. Ten[n + 1] \in Nat /\ Ten[(n + 1) + 1] = 10 * Ten[n + 1]
    BY <2>1, TableOfTen
  <2>5. f[n] < Ten[n + 1]
    BY <1>5
  <2>6. f[n + 1] < Ten[(n + 1) + 1]
    <3>1. 10 * f[n] + q[n + 1] < 10 * Ten[n + 1]
      BY <2>3, <2>4, <2>5, TimesTen
    <3> QED BY <2>2, <2>4, <3>1
  <2> QED BY <2>1, <2>6
<1> HIDE DEF S
<1>6. m \in S
  <2>1. m \in Nat /\ m \in 0 .. m
    BY <1>3
  <2> QED BY <1>4, <1>5, <2>1, RoundInduction
<1>7. v < Ten[m + 1]
  BY <1>1, <1>6 DEF S
<1>8. Ten[m + 1] \in Nat /\ Ten[m + 1] <= Ten[20] /\ Ten[20] \in Nat /\ Ten[20] < Bound[1] /\ Bound[1] \in Nat
  <2>1. m + 1 = 20 \/ m + 1 \in 1 .. 19
    BY <1>3
  <2>2. Ten[20] \in Nat /\ Bound[1] \in Nat
    BY DEF Ten, Bound
  <2>3. CASE m + 1 = 20
    <3>1. Ten[20] < Bound[1]
      BY TableOfTen
    <3>2. Ten[m + 1] = Ten[20]
      BY <2>3
    <3>3. Ten[20] <= Ten[20]
      BY <2>2
    <3> QED BY <2>2, <3>1, <3>2, <3>3
  <2>4. CASE m + 1 \in 1 .. 19
    <3>1. Ten[m + 1] \in Nat /\ Ten[m + 1] < Ten[20] /\ Ten[20] < Bound[1]
      BY <2>4, TableOfTen
    <3> QED BY <2>2, <3>1
  <2> QED BY <2>1, <2>3, <2>4
<1> QED BY <1>7, <1>8

LEMMA ValuesEnd ==
  ASSUME NEW X, Values(X, 32), X[0] < Bound[1]
  PROVE  \A k \in 13 .. 20 : X[k] = 0
<1> DEFINE S == {k \in 0 .. 20 : X[k] < Bound[k + 1]}
<1>1. 0 \in S
  OBVIOUS
<1>2. ASSUME NEW k \in 0 .. 19, k \in S PROVE k + 1 \in S
  <2>1. k + 1 \in 0 .. 20 /\ k + 1 \in 1 .. 20
    OBVIOUS
  <2>2. X[k] \in Nat /\ X[k + 1] = X[k] \div 32 /\ X[k] < Bound[k + 1]
    BY <1>2 DEF Values, Quot
  <2>3. /\ Bound[k + 1] \in Nat /\ Bound[(k + 1) + 1] \in Nat
        /\ Bound[k + 1] <= 32 * Bound[(k + 1) + 1]
    <3>1. (k + 1) + 1 \in 1 .. 21 /\ k + 1 \in 1 .. 21
      OBVIOUS
    <3> QED BY <2>1, <3>1, TableOfBounds
  <2>4. X[k + 1] < Bound[(k + 1) + 1]
    <3>1. X[k] \div 32 < Bound[(k + 1) + 1]
      BY <2>2, <2>3, Over32
    <3> QED BY <2>2, <3>1
  <2> QED BY <2>1, <2>4
<1> HIDE DEF S
<1>3. 13 \in S
  <2>1. 20 \in Nat /\ 20 - 1 = 19 /\ 13 \in 0 .. 20
    OBVIOUS
  <2> QED BY <1>1, <1>2, <2>1, RoundInduction
<1>4. X[13] < 1 /\ X[13] \in Nat
  <2>1. 13 + 1 = 14 /\ 13 \in 0 .. 20
    OBVIOUS
  <2> QED BY <1>3, <2>1, TableOfBounds DEF S, Values
<1>5. X[13] = 0 /\ 13 \in 0 .. 20 /\ 32 \in Base
  BY <1>4 DEF Base
<1> QED BY <1>5, ZeroStays

------------------------------------------------------------------------------
(* The digits of a number, and the number of digits. *)

LEMMA LongDigits ==
  ASSUME NEW x, IsLong(x)
  PROVE  /\ x \in Seq(0 .. 9) /\ Len(x) \in 1 .. 19 /\ ~Above(x, LongMax)
         /\ \A i \in 1 .. Len(x) : x[i] \in 0 .. 9
         /\ x[1] = 0 => Len(x) = 1
<1>1. x \in Seq(0 .. 9) /\ x # <<>> /\ ~Above(x, LongMax) /\ (x[1] = 0 => Len(x) = 1)
  BY DEF IsLong
<1>2. Len(x) \in Nat \ {0}
  BY <1>1, EmptySeq
<1>3. Len(LongMax) = 19
  BY DEF LongMax
<1>4. ~ (Len(x) > 19)
  BY <1>1, <1>3 DEF Above
<1>5. Len(x) \in 1 .. 19
  <2> DEFINE m == Len(x)
  <2>1. m \in Nat \ {0} /\ ~ (m > 19)
    BY <1>2, <1>4
  <2> HIDE DEF m
  <2>2. m \in 1 .. 19
    BY <2>1
  <2> QED BY <2>2 DEF m
<1> QED BY <1>1, <1>5, ElementOfSeq

(* Thirteen base-32 digits, least first, as decode reads them. *)
Downwards(word) == [i \in 1 .. 13 |-> word[13 - i]]

LEMMA DownwardsType ==
  ASSUME NEW word, \A k \in 0 .. 12 : word[k] \in Symbol
  PROVE  /\ Downwards(word) \in Seq(0 .. 32 - 1) /\ Len(Downwards(word)) = 13
         /\ Downwards(word) # <<>>
         /\ \A i \in 1 .. 13 : Downwards(word)[i] = word[13 - i]
<1> DEFINE q == Downwards(word)
<1>1. q \in [1 .. 13 -> 0 .. 32 - 1]
  BY DEF Downwards, Symbol
<1>2. \A i \in 1 .. 13 : q[i] = word[13 - i]
  BY DEF Downwards
<1>5. Len(q) = 13
  BY DEF Downwards
<1> HIDE DEF q
<1>3. q \in Seq(0 .. 32 - 1) /\ Len(q) = 13
  <2>1. 13 \in Nat
    OBVIOUS
  <2> QED BY <1>1, <1>5, <2>1, SeqDef
<1>4. q # <<>>
  <2> SUFFICES ASSUME q = <<>> PROVE FALSE
    OBVIOUS
  <2>1. Len(q) = 0
    BY EmptySeq
  <2> QED BY <1>5, <2>1
<1> QED BY <1>2, <1>3, <1>4 DEF q

LEMMA RestOf32 ==
  ASSUME NEW a \in Nat
  PROVE  a = 32 * (a \div 32) + (a % 32) /\ a % 32 \in 0 .. 31
OBVIOUS

(* The loop of encode (reedsolomon.d:57) writes a number in base 32. *)
LEMMA DigitsValue ==
  ASSUME NEW x, IsLong(x), NEW v \in Nat, HasValue(x, 10, v)
  PROVE  Digits(x) \in Word /\ HasValue(Downwards(Digits(x)), 32, v)
<1> DEFINE c == Convert(x, 10, 32)
           w == Digits(x)
<1>1. x \in Seq(0 .. 10 - 1) /\ x \in Seq(0 .. 9) /\ x # <<>> /\ Len(x) \in 0 .. 19
  <2>1. 10 - 1 = 9
    OBVIOUS
  <2> QED BY <2>1, LongDigits DEF IsLong
<1>2. PICK X : Values(X, 32) /\ X[0] = v
  <2>1. 32 \in Base
    BY DEF Base
  <2> QED BY <2>1, ValuesExist
<1>3. \A k \in 13 .. 20 : X[k] = 0
  <2>1. v < Bound[1]
    BY <1>1, DecimalBound
  <2> QED BY <1>2, <2>1, ValuesEnd
<1>4. DigitsOf(c, X, 32)
  <2>1. Conversion(10, 32)
    BY DEF Conversion
  <2> QED BY <1>1, <1>2, <2>1, ConvertValue
<1>5. w = [k \in 0 .. 12 |-> IF k < Len(c) THEN c[k + 1] ELSE 0]
  BY DEF Digits
<1> HIDE DEF c, w
<1> DEFINE L == Len(c)
<1>14. L \in 1 .. 20
  BY <1>4 DEF DigitsOf, L
<1> HIDE DEF L
<1>6. L \in 1 .. 13 /\ X[L] = 0
  <2>1. ~ (L > 13)
    <3> SUFFICES ASSUME L > 13 PROVE FALSE
      OBVIOUS
    <3>1. 13 \in 1 .. L - 1 /\ 13 \in 13 .. 20
      BY <1>14
    <3>2. X[13] # 0
      BY <1>4, <3>1 DEF DigitsOf, L
    <3> QED BY <1>3, <3>1, <3>2
  <2>2. L # 20 /\ L \in 1 .. 13
    BY <1>14, <2>1
  <2> QED BY <1>4, <2>2 DEF DigitsOf, L
<1>7. \A k \in L .. 20 : X[k] = 0
  <2>1. 32 \in Base /\ L \in 0 .. 20
    BY <1>6 DEF Base
  <2> QED BY <1>2, <1>6, <2>1, ZeroStays
<1>8. ASSUME NEW k \in 0 .. 12
      PROVE  w[k] \in Symbol /\ X[k] = 32 * X[k + 1] + w[k] /\ X[k] \in Nat
  <2>1. X[k] \in Nat /\ X[k + 1] = X[k] \div 32
    BY <1>2 DEF Values, Quot
  <2>2. w[k] = X[k] % 32
    <3>1. CASE k < L
      <4>1. k + 1 \in 1 .. L /\ (k + 1) - 1 = k
        BY <1>6, <3>1
      <4>2. c[k + 1] = Rem(X[(k + 1) - 1], 32)
        BY <1>4, <4>1 DEF DigitsOf, L
      <4>3. w[k] = c[k + 1]
        BY <1>5, <3>1 DEF L
      <4> QED BY <4>1, <4>2, <4>3 DEF Rem
    <3>2. CASE ~ (k < L)
      <4>1. k \in L .. 20
        BY <1>6, <3>2
      <4>2. X[k] = 0 /\ w[k] = 0
        BY <1>5, <1>7, <3>2, <4>1 DEF L
      <4> QED BY <4>2
    <3> QED BY <3>1, <3>2
  <2>3. X[k] = 32 * (X[k] \div 32) + (X[k] % 32) /\ X[k] % 32 \in 0 .. 31
    BY <2>1, RestOf32
  <2> QED BY <2>1, <2>2, <2>3 DEF Symbol
<1>9. w \in Word
  BY <1>5, <1>8 DEF Word
<1> DEFINE q == Downwards(w)
           f == [n \in 0 .. 13 |-> X[13 - n]]
<1>10. Len(q) = 13 /\ \A i \in 1 .. 13 : q[i] = w[13 - i]
  BY <1>8, DownwardsType
<1>11. f \in [0 .. 13 -> Nat] /\ f[0] = 0 /\ f[13] = v
  <2>1. \A n \in 0 .. 13 : X[13 - n] \in Nat
    BY <1>2 DEF Values
  <2>2. X[13] = 0 /\ 13 - 0 = 13 /\ 13 - 13 = 0
    BY <1>3
  <2> QED BY <1>2, <2>1, <2>2
<1>12. ASSUME NEW n \in 1 .. 13 PROVE f[n] = 32 * f[n - 1] + q[n]
  <2>1. 13 - n \in 0 .. 12 /\ (13 - n) + 1 = 13 - (n - 1) /\ n \in 0 .. 13 /\ n - 1 \in 0 .. 13
    OBVIOUS
  <2>2. X[13 - n] = 32 * X[(13 - n) + 1] + w[13 - n]
    BY <1>8, <2>1
  <2>3. f[n] = X[13 - n] /\ f[n - 1] = X[13 - (n - 1)] /\ q[n] = w[13 - n]
    BY <1>10, <2>1
  <2> HIDE DEF f, q
  <2> QED BY <2>1, <2>2, <2>3
<1> HIDE DEF f, q
<1>13. Horner(f, q, 32) /\ f[Len(q)] = v
  BY <1>10, <1>11, <1>12 DEF Horner
<1> QED BY <1>9, <1>13 DEF HasValue, q, w

LEMMA RestOf10 ==
  ASSUME NEW a \in Nat, NEW d \in 0 .. 9
  PROVE  (10 * a + d) \div 10 = a /\ (10 * a + d) % 10 = d
OBVIOUS

LEMMA Positive ==
  ASSUME NEW a \in Nat, NEW d \in 0 .. 9, a > 0 \/ d # 0
  PROVE  10 * a + d > 0
OBVIOUS

(* The loop of decode (reedsolomon.d:144) writes it in base 10 again, as   *)
(* to!string did.                                                          *)
LEMMA NumberOfDigits ==
  ASSUME NEW x, IsLong(x), NEW v \in Nat, HasValue(x, 10, v),
         NEW q \in Seq(0 .. 32 - 1), q # <<>>, HasValue(q, 32, v)
  PROVE  Number(Convert(q, 32, 10)) = x
<1> DEFINE m == Len(x)
<1>1. PICK f : Horner(f, x, 10) /\ f[m] = v
  BY DEF HasValue
<1>2. /\ m \in 1 .. 19 /\ \A i \in 1 .. m : x[i] \in 0 .. 9
      /\ x[1] = 0 => m = 1
  BY LongDigits
<1>3. /\ \A n \in 0 .. m : f[n] \in Nat
      /\ f[0] = 0 /\ \A n \in 1 .. m : f[n] = 10 * f[n - 1] + x[n]
  BY <1>1 DEF Horner
<1> HIDE DEF m
<1>4. ASSUME NEW n \in 1 .. m
      PROVE  f[n - 1] = f[n] \div 10 /\ x[n] = f[n] % 10
  <2>1. n - 1 \in 0 .. m
    BY <1>2
  <2>2. f[n - 1] \in Nat /\ x[n] \in 0 .. 9 /\ f[n] = 10 * f[n - 1] + x[n]
    BY <1>2, <1>3, <2>1
  <2>3. (10 * f[n - 1] + x[n]) \div 10 = f[n - 1] /\ (10 * f[n - 1] + x[n]) % 10 = x[n]
    BY <2>2, RestOf10
  <2> QED BY <2>2, <2>3
<1> DEFINE X == [k \in 0 .. 20 |-> IF k <= m THEN f[m - k] ELSE 0]
<1>5. /\ \A k \in 0 .. m : X[k] = f[m - k]
      /\ \A k \in m .. 20 : X[k] = 0
      /\ X[0] = v
  <2>1. \A k \in 0 .. m : X[k] = f[m - k]
    BY <1>2
  <2>2. ASSUME NEW k \in m .. 20 PROVE X[k] = 0
    <3>1. CASE k = m
      BY <1>2, <1>3, <3>1
    <3>2. CASE k # m
      BY <1>2, <3>2
    <3> QED BY <3>1, <3>2
  <2>3. 0 \in 0 .. m /\ m - 0 = m
    BY <1>2
  <2> HIDE DEF X
  <2> QED BY <1>1, <2>1, <2>2, <2>3 DEF m
<1> HIDE DEF X
<1>6. Values(X, 10)
  <2>1. ASSUME NEW k \in 0 .. 20 PROVE X[k] \in Nat
    <3>1. CASE k \in 0 .. m
      <4>1. m - k \in 0 .. m
        BY <1>2, <3>1
      <4> QED BY <1>3, <1>5, <3>1, <4>1
    <3>2. CASE k \in m .. 20
      BY <1>5, <3>2
    <3> QED BY <1>2, <3>1, <3>2
  <2>2. ASSUME NEW k \in 0 .. 19 PROVE X[k + 1] = Quot(X[k], 10)
    <3>1. CASE k < m
      <4>1. m - k \in 1 .. m /\ (m - k) - 1 = m - (k + 1) /\ k \in 0 .. m /\ k + 1 \in 0 .. m
        BY <1>2, <3>1
      <4>2. f[(m - k) - 1] = f[m - k] \div 10
        BY <1>4, <4>1
      <4>3. X[k] = f[m - k] /\ X[k + 1] = f[m - (k + 1)]
        BY <1>5, <4>1
      <4> QED BY <4>1, <4>2, <4>3 DEF Quot
    <3>2. CASE ~ (k < m)
      <4>1. k \in m .. 20 /\ k + 1 \in m .. 20
        BY <1>2, <3>2
      <4>2. X[k] = 0 /\ X[k + 1] = 0
        BY <1>5, <4>1
      <4> QED BY <4>2 DEF Quot
    <3> QED BY <3>1, <3>2
  <2> QED BY <2>1, <2>2 DEF Values
<1> DEFINE c == Convert(q, 32, 10)
<1>7. DigitsOf(c, X, 10)
  <2>1. Conversion(32, 10) /\ HasValue(q, 32, X[0])
    BY <1>5 DEF Conversion
  <2> QED BY <1>6, <2>1, ConvertValue
<1> HIDE DEF c
<1> DEFINE L == Len(c)
<1>14. L \in 1 .. 20
  BY <1>7 DEF DigitsOf, L
<1> HIDE DEF L
<1>8. ~ (L > m)
  <2> SUFFICES ASSUME L > m PROVE FALSE
    OBVIOUS
  <2>1. m \in 1 .. L - 1 /\ m \in m .. 20
    BY <1>2, <1>14
  <2>2. X[m] # 0
    BY <1>7, <2>1 DEF DigitsOf, L
  <2> QED BY <1>5, <2>1, <2>2
<1>9. L = m
  <2> SUFFICES ASSUME L < m PROVE FALSE
    BY <1>2, <1>8, <1>14
  <2>1. x[1] # 0 /\ L # 20 /\ L \in 0 .. m
    <3>1. m # 1 /\ L # 20 /\ L \in 0 .. m
      BY <1>2, <1>14
    <3> QED BY <1>2, <3>1
  <2>2. X[L] = 0 /\ X[L] = f[m - L]
    <3>1. X[L] = 0
      BY <1>7, <2>1 DEF DigitsOf, L
    <3> QED BY <1>5, <2>1, <3>1
  <2> DEFINE S == {n \in 0 .. m : n > 0 => f[n] > 0}
  <2>3. 0 \in S
    BY <1>2
  <2>4. ASSUME NEW n \in 0 .. m - 1, n \in S PROVE n + 1 \in S
    <3>1. n + 1 \in 1 .. m /\ n + 1 \in 0 .. m /\ (n + 1) - 1 = n /\ n \in 0 .. m /\ 1 \in 1 .. m
      BY <1>2
    <3>2. f[n + 1] = 10 * f[n] + x[n + 1]
      <4>1. f[n + 1] = 10 * f[(n + 1) - 1] + x[n + 1]
        BY <1>3, <3>1
      <4> QED BY <3>1, <4>1
    <3>3. f[n] \in Nat /\ x[n + 1] \in 0 .. 9 /\ x[1] \in 0 .. 9
      BY <1>2, <1>3, <3>1
    <3>4. n = 0 \/ f[n] > 0
      BY <2>4
    <3>5. f[n + 1] > 0
      <4>1. CASE n = 0
        <5>1. x[n + 1] # 0
          BY <2>1, <4>1
        <5> QED BY <3>2, <3>3, <5>1, Positive
      <4>2. CASE f[n] > 0
        BY <3>2, <3>3, <4>2, Positive
      <4> QED BY <3>4, <4>1, <4>2
    <3> QED BY <3>1, <3>5
  <2> HIDE DEF S
  <2>5. \A n \in 0 .. m : n \in S
    <3>1. m \in Nat
      BY <1>2
    <3> QED BY <2>3, <2>4, <3>1, RoundInduction
  <2>6. m - L \in 0 .. m /\ m - L > 0
    BY <1>2, <1>14
  <2>7. f[m - L] > 0
    BY <2>5, <2>6 DEF S
  <2> QED BY <2>2, <2>7
<1> DEFINE y == [i \in 1 .. Len(c) |-> c[(Len(c) + 1) - i]]
<1>10. ASSUME NEW i \in 1 .. m PROVE y[i] = x[i]
  <2>1. (m + 1) - i \in 1 .. m /\ ((m + 1) - i) - 1 = m - i /\ m - i \in 0 .. m /\ m - (m - i) = i
    BY <1>2
  <2>2. y[i] = c[(m + 1) - i]
    BY <1>9 DEF L
  <2>3. c[(m + 1) - i] = Rem(X[((m + 1) - i) - 1], 10)
    BY <1>7, <1>9, <2>1 DEF DigitsOf, L
  <2>4. X[m - i] = f[m - (m - i)]
    BY <1>5, <2>1
  <2> HIDE DEF y
  <2> QED BY <1>4, <2>1, <2>2, <2>3, <2>4 DEF Rem
<1>11. y = x
  <2>1. x \in [1 .. m -> 0 .. 9]
    BY LongDigits, LenProperties DEF m
  <2>2. y = [i \in 1 .. m |-> y[i]]
    BY <1>9 DEF L
  <2> HIDE DEF y
  <2> QED BY <1>10, <2>1, <2>2
<1>12. Number(c) = toLong(y)
  BY DEF Number
<1> HIDE DEF y
<1>13. toLong(x) = x
  BY LongDigits DEF toLong
<1> QED BY <1>11, <1>12, <1>13 DEF c

------------------------------------------------------------------------------
(* decode reads an address (reedsolomon.d:118). *)

Reading == [word : Codeword, length : Nat]
Character == 0 .. 32

LEMMA MapType ==
  /\ \A i \in 1 .. 17 : CODEWORD_MAP[i] \in 0 .. 16
  /\ \A k \in 0 .. 16 : \E i \in 1 .. 17 : CODEWORD_MAP[i] = k
  /\ \A k \in (0 .. 16) \ (8 .. 11) : \E i \in 1 .. 13 : CODEWORD_MAP[i] = k
<1>1. \A i \in 1 .. 17 : CODEWORD_MAP[i] \in 0 .. 16
  BY DEF CODEWORD_MAP
<1>2. \A k \in 8 .. 11 : (k + 6) \in 1 .. 17 /\ CODEWORD_MAP[k + 6] = k
  BY DEF CODEWORD_MAP
<1>3. ASSUME NEW k \in (0 .. 16) \ (8 .. 11) PROVE \E i \in 1 .. 13 : CODEWORD_MAP[i] = k
  <2>1. CASE k \in 0 .. 3
    <3>1. 4 - k \in 1 .. 13 /\ CODEWORD_MAP[4 - k] = k
      BY <2>1 DEF CODEWORD_MAP
    <3> QED BY <3>1
  <2>2. CASE k \in 4 .. 7
    <3>1. 12 - k \in 1 .. 13 /\ CODEWORD_MAP[12 - k] = k
      BY <2>2 DEF CODEWORD_MAP
    <3> QED BY <3>1
  <2>3. CASE k = 12
    <3>1. 13 \in 1 .. 13 /\ CODEWORD_MAP[13] = k
      BY <2>3 DEF CODEWORD_MAP
    <3> QED BY <3>1
  <2>4. CASE k \in 13 .. 16
    <3>1. k - 4 \in 1 .. 13 /\ CODEWORD_MAP[k - 4] = k
      BY <2>4 DEF CODEWORD_MAP
    <3> QED BY <3>1
  <2> QED BY <2>1, <2>2, <2>3, <2>4
<1>4. \A k \in 0 .. 16 : \E i \in 1 .. 17 : CODEWORD_MAP[i] = k
  <2> SUFFICES ASSUME NEW k \in 0 .. 16 PROVE \E i \in 1 .. 17 : CODEWORD_MAP[i] = k
    OBVIOUS
  <2>1. CASE k \in 8 .. 11
    BY <1>2, <2>1
  <2>2. CASE k \notin 8 .. 11
    <3>1. PICK i \in 1 .. 13 : CODEWORD_MAP[i] = k
      BY <1>3, <2>2
    <3>2. i \in 1 .. 17
      OBVIOUS
    <3> QED BY <3>1, <3>2
  <2> QED BY <2>1, <2>2
<1> QED BY <1>1, <1>3, <1>4

LEMMA PlaceType ==
  ASSUME NEW acc \in Reading, NEW c
  PROVE  Place(acc, c) \in Reading
<1>1. acc.word \in Codeword /\ acc.length \in Nat
  BY DEF Reading
<1>2. CASE c \notin Symbol
  BY <1>2 DEF Place
<1>3. CASE c \in Symbol
  <2> DEFINE w == IF acc.length > 16 THEN acc.word
                  ELSE [acc.word EXCEPT ![CODEWORD_MAP[acc.length + 1]] = c]
  <2>1. w \in Codeword
    BY <1>1, <1>3 DEF Codeword
  <2>2. Place(acc, c) = [word |-> w, length |-> acc.length + 1]
    BY <1>3 DEF Place
  <2>3. acc.length + 1 \in Nat
    BY <1>1
  <2> HIDE DEF w
  <2> QED BY <2>1, <2>2, <2>3 DEF Reading
<1> QED BY <1>2, <1>3

Scans(R, a) ==
  /\ R[0] = [word |-> INITIAL_CODEWORD, length |-> 0]
  /\ \A n \in 1 .. Len(a) : R[n] = Place(R[n - 1], a[n])
  /\ Scan(a) = R[Len(a)]

LEMMA ScanLoop ==
  ASSUME NEW a \in Seq(Character)
  PROVE  \E R : Scans(R, a)
<1> DEFINE m == Len(a)
           s0 == [word |-> INITIAL_CODEWORD, length |-> 0]
           body(h, n) == IF n = 0 THEN s0 ELSE Place(h[n - 1], a[n])
           St == Reading
           step == [n \in 1 .. m |-> [s \in St |-> Place(s, a[n])]]
           R == CHOOSE h : h = [n \in 0 .. m |-> body(h, n)]
<1>1. m \in Nat
  BY LenProperties
<1>2. Scan(a) = R[m]
  BY DEF Scan
<1> HIDE DEF m
<1>3. s0 \in St
  <2>1. INITIAL_CODEWORD \in Codeword
    BY DEF INITIAL_CODEWORD, Codeword, Symbol
  <2> QED BY <2>1 DEF Reading
<1> HIDE DEF s0
<1>4. step \in Steps(m, St)
  <2>1. \A n \in 1 .. m : \A s \in St : Place(s, a[n]) \in St
    BY PlaceType
  <2> HIDE DEF St
  <2> QED BY <2>1 DEF Steps
<1>5. PICK f : States(f, m, St, s0, step)
  <2> HIDE DEF step, St
  <2> QED BY <1>1, <1>3, <1>4, Iterate
<1>6. ASSUME NEW n \in 0 .. m PROVE f[n] = body(f, n)
  <2>1. CASE n = 0
    BY <1>5, <2>1 DEF States
  <2>2. CASE n # 0
    <3>1. n \in 1 .. m /\ n - 1 \in 0 .. m
      BY <1>1, <2>2
    <3>2. f[n - 1] \in St /\ f[n] = step[n][f[n - 1]]
      <4> HIDE DEF step, St
      <4> QED BY <1>5, <3>1 DEF States
    <3>3. f[n] = Place(f[n - 1], a[n])
      <4> HIDE DEF St
      <4> QED BY <3>1, <3>2
    <3> QED BY <2>2, <3>3
  <2> QED BY <2>1, <2>2
<1>7. f = [n \in 0 .. m |-> body(f, n)]
  <2> HIDE DEF body, step, St
  <2> QED BY <1>5, <1>6 DEF States
<1>8. R = [n \in 0 .. m |-> body(R, n)]
  <2> HIDE DEF body
  <2> QED BY <1>7
<1> HIDE DEF R
<1>9. R[0] = s0
  <2>1. 0 \in 0 .. m /\ body(R, 0) = s0
    BY <1>1
  <2> HIDE DEF body
  <2> QED BY <1>8, <2>1
<1>10. ASSUME NEW n \in 1 .. m PROVE R[n] = Place(R[n - 1], a[n])
  <2>1. n \in 0 .. m /\ body(R, n) = Place(R[n - 1], a[n])
    BY <1>1
  <2> HIDE DEF body
  <2>2. R[n] = body(R, n)
    BY <1>8, <2>1
  <2> QED BY <2>1, <2>2
<1> QED BY <1>2, <1>9, <1>10 DEF s0, m, Scans

(* The symbols among the first n characters of a written codeword. *)
Count(n) == IF n = 20 THEN 17 ELSE n - (n \div 5)

LEMMA CountStep ==
  ASSUME NEW n \in 0 .. 19
  PROVE  /\ Count(n) \in 0 .. 16
         /\ n + 1 \in {5, 10, 15} => Count(n + 1) = Count(n)
         /\ n + 1 \notin {5, 10, 15} =>
              /\ Count(n + 1) = Count(n) + 1
              /\ (n + 1) - (((n + 1) - 1) \div 5) = Count(n) + 1
BY DEF Count

(* The symbols that have been placed are those of the codeword, the others *)
(* the initial ones.                                                       *)
Placed(acc, cw, j) ==
  /\ acc \in Reading
  /\ acc.length = j
  /\ \A k \in 0 .. 16 :
       acc.word[k] = IF \E i \in 1 .. j : CODEWORD_MAP[i] = k THEN cw[k]
                     ELSE INITIAL_CODEWORD[k]

LEMMA PlacedStep ==
  ASSUME NEW cw \in Codeword, NEW j \in 0 .. 16, NEW acc, Placed(acc, cw, j)
  PROVE  Placed(Place(acc, cw[CODEWORD_MAP[j + 1]]), cw, j + 1)
<1> DEFINE p == CODEWORD_MAP[j + 1]
           b == Place(acc, cw[p])
<1>1. p \in 0 .. 16 /\ cw[p] \in Symbol
  <2>1. j + 1 \in 1 .. 17
    OBVIOUS
  <2> QED BY <2>1, MapType DEF Codeword
<1>2. acc \in Reading /\ acc.length = j /\ acc.word \in Codeword
  BY DEF Placed, Reading
<1>3. b \in Reading
  BY <1>2, PlaceType
<1>4. b.length = j + 1 /\ b.word = [acc.word EXCEPT ![p] = cw[p]]
  BY <1>1, <1>2 DEF Place
<1>5. CODEWORD_MAP[j + 1] = p
  OBVIOUS
<1> HIDE DEF b, p
<1>6. ASSUME NEW k \in 0 .. 16
      PROVE  b.word[k] = IF \E i \in 1 .. j + 1 : CODEWORD_MAP[i] = k THEN cw[k]
                         ELSE INITIAL_CODEWORD[k]
  <2>1. CASE k = p
    <3>1. b.word[k] = cw[k]
      BY <1>1, <1>2, <1>4, <2>1 DEF Codeword
    <3>2. j + 1 \in 1 .. j + 1
      OBVIOUS
    <3>3. \E i \in 1 .. j + 1 : CODEWORD_MAP[i] = k
      BY <1>5, <2>1, <3>2
    <3> QED BY <3>1, <3>3
  <2>2. CASE k # p
    <3>1. b.word[k] = acc.word[k]
      BY <1>1, <1>2, <1>4, <2>2 DEF Codeword
    <3>2. (\E i \in 1 .. j + 1 : CODEWORD_MAP[i] = k) <=> (\E i \in 1 .. j : CODEWORD_MAP[i] = k)
      <4>1. \A i : i \in 1 .. j + 1 <=> i \in 1 .. j \/ i = j + 1
        OBVIOUS
      <4> QED BY <1>5, <2>2, <4>1
    <3>3. acc.word[k] = IF \E i \in 1 .. j : CODEWORD_MAP[i] = k THEN cw[k]
                        ELSE INITIAL_CODEWORD[k]
      BY DEF Placed
    <3> QED BY <3>1, <3>2, <3>3
  <2> QED BY <2>1, <2>2
<1>7. Placed(b, cw, j + 1)
  BY <1>3, <1>4, <1>6 DEF Placed
<1> QED BY <1>7 DEF b, p

LEMMA WrittenType ==
  ASSUME NEW cw \in Codeword
  PROVE  /\ Written(cw) \in Seq(Character) /\ Len(Written(cw)) = 20
         /\ \A n \in 0 .. 19 :
              Written(cw)[n + 1] = IF n + 1 \in {5, 10, 15} THEN Dash
                                   ELSE cw[CODEWORD_MAP[Count(n) + 1]]
<1> DEFINE a == Written(cw)
<1>1. Len(a) = 20 /\ a = [i \in 1 .. 20 |-> a[i]]
  BY DEF Written
<1>2. ASSUME NEW n \in 0 .. 19
      PROVE  a[n + 1] = IF n + 1 \in {5, 10, 15} THEN Dash
                        ELSE cw[CODEWORD_MAP[Count(n) + 1]]
  <2>1. n + 1 \in 1 .. 20
    OBVIOUS
  <2>2. a[n + 1] = IF n + 1 \in {5, 10, 15} THEN Dash
                   ELSE cw[CODEWORD_MAP[(n + 1) - (((n + 1) - 1) \div 5)]]
    BY <2>1 DEF Written
  <2>3. n + 1 \notin {5, 10, 15} => (n + 1) - (((n + 1) - 1) \div 5) = Count(n) + 1
    BY CountStep
  <2> HIDE DEF a
  <2> QED BY <2>2, <2>3
<1> HIDE DEF a
<1>3. ASSUME NEW i \in 1 .. 20 PROVE a[i] \in Character
  <2>1. i - 1 \in 0 .. 19 /\ (i - 1) + 1 = i
    OBVIOUS
  <2>2. a[i] = Dash \/ a[i] = cw[CODEWORD_MAP[Count(i - 1) + 1]]
    BY <1>2, <2>1
  <2>3. Count(i - 1) + 1 \in 1 .. 17
    <3>1. Count(i - 1) \in 0 .. 16
      BY <2>1, CountStep
    <3> QED BY <3>1
  <2>4. cw[CODEWORD_MAP[Count(i - 1) + 1]] \in Symbol
    BY <2>3, MapType DEF Codeword
  <2> QED BY <2>2, <2>4 DEF Symbol, Character, Dash
<1>4. a \in [1 .. 20 -> Character]
  BY <1>1, <1>3
<1>5. a \in Seq(Character)
  <2>1. 20 \in Nat
    OBVIOUS
  <2> QED BY <1>4, <2>1, SeqDef
<1> QED BY <1>1, <1>2, <1>5 DEF a

(* What is left of a written codeword without its last c characters. *)
Prefix(a, cw, c) ==
  /\ a \in Seq(Character)
  /\ Len(a) = 20 - c
  /\ \A i \in 1 .. 20 - c : a[i] = Written(cw)[i]

LEMMA ScanPrefix ==
  ASSUME NEW cw \in Codeword, NEW c \in 0 .. 4, NEW a, Prefix(a, cw, c)
  PROVE  Placed(Scan(a), cw, 17 - c)
<1> DEFINE m == 20 - c
<1>1. m \in 16 .. 20 /\ Count(m) = 17 - c
  BY DEF Count
<1>2. a \in Seq(Character) /\ Len(a) = m /\ \A i \in 1 .. m : a[i] = Written(cw)[i]
  BY DEF Prefix
<1>3. PICK R : Scans(R, a)
  BY <1>2, ScanLoop
<1>4. /\ R[0] = [word |-> INITIAL_CODEWORD, length |-> 0]
      /\ \A n \in 1 .. m : R[n] = Place(R[n - 1], a[n])
      /\ Scan(a) = R[m]
  BY <1>2, <1>3 DEF Scans
<1> HIDE DEF m
<1> DEFINE S == {n \in 0 .. m : Placed(R[n], cw, Count(n))}
<1>5. 0 \in S
  <2>1. Count(0) = 0 /\ 0 \in 0 .. m /\ \A i : i \notin 1 .. 0
    BY <1>1 DEF Count
  <2>2. INITIAL_CODEWORD \in Codeword
    BY DEF INITIAL_CODEWORD, Codeword, Symbol
  <2>3. R[0] \in Reading /\ R[0].length = 0 /\ R[0].word = INITIAL_CODEWORD
    BY <1>4, <2>2 DEF Reading
  <2>4. Placed(R[0], cw, 0)
    BY <2>1, <2>3 DEF Placed
  <2> QED BY <2>1, <2>4
<1>6. ASSUME NEW n \in 0 .. m - 1, n \in S PROVE n + 1 \in S
  <2>1. n \in 0 .. 19 /\ n + 1 \in 1 .. m /\ n + 1 \in 0 .. m /\ (n + 1) - 1 = n
    BY <1>1
  <2>2. R[n + 1] = Place(R[n], Written(cw)[n + 1])
    <3>1. R[n + 1] = Place(R[(n + 1) - 1], a[n + 1]) /\ a[n + 1] = Written(cw)[n + 1]
      BY <1>2, <1>4, <2>1
    <3> QED BY <2>1, <3>1
  <2>3. Placed(R[n], cw, Count(n))
    BY <1>6
  <2>4. CASE n + 1 \in {5, 10, 15}
    <3>1. Written(cw)[n + 1] = Dash /\ Count(n + 1) = Count(n)
      BY <2>1, <2>4, CountStep, WrittenType
    <3>2. Dash \notin Symbol
      BY DEF Dash, Symbol
    <3>3. R[n + 1] = R[n]
      BY <2>2, <3>1, <3>2 DEF Place
    <3> QED BY <2>1, <2>3, <3>1, <3>3
  <2>5. CASE n + 1 \notin {5, 10, 15}
    <3>1. /\ Written(cw)[n + 1] = cw[CODEWORD_MAP[Count(n) + 1]]
          /\ Count(n + 1) = Count(n) + 1 /\ Count(n) \in 0 .. 16
      BY <2>1, <2>5, CountStep, WrittenType
    <3>2. Placed(Place(R[n], cw[CODEWORD_MAP[Count(n) + 1]]), cw, Count(n) + 1)
      BY <2>3, <3>1, PlacedStep
    <3>3. Placed(R[n + 1], cw, Count(n + 1))
      BY <2>2, <3>1, <3>2
    <3> QED BY <2>1, <3>3
  <2> QED BY <2>4, <2>5
<1> HIDE DEF S
<1>7. m \in S
  <2>1. m \in Nat /\ m \in 0 .. m
    BY <1>1
  <2> QED BY <1>5, <1>6, <2>1, RoundInduction
<1> QED BY <1>1, <1>4, <1>7 DEF S

(* An address with all its characters gives back its codeword. *)
LEMMA ScanFull ==
  ASSUME NEW cw \in Codeword, NEW a, Prefix(a, cw, 0)
  PROVE  Scan(a).word = cw /\ Scan(a).length = 17
<1>1. Placed(Scan(a), cw, 17)
  <2>1. 0 \in 0 .. 4 /\ 17 - 0 = 17
    OBVIOUS
  <2>2. Placed(Scan(a), cw, 17 - 0)
    BY <2>1, ScanPrefix
  <2> QED BY <2>1, <2>2
<1> DEFINE r == Scan(a)
<1> HIDE DEF r
<1>2. Placed(r, cw, 17)
  BY <1>1 DEF r
<1>3. r.length = 17 /\ r.word \in Codeword
  BY <1>2 DEF Placed, Reading
<1>4. \A k \in 0 .. 16 : r.word[k] = cw[k]
  BY <1>2, MapType DEF Placed
<1>5. r.word = cw
  BY <1>3, <1>4 DEF Codeword
<1> QED BY <1>3, <1>5 DEF r

(* One that has lost symbols differs from it in four places at most. *)
LEMMA ScanCut ==
  ASSUME NEW cw \in Codeword, NEW c \in 0 .. 4, NEW a, Prefix(a, cw, c)
  PROVE  /\ Scan(a).word \in Codeword /\ Scan(a).length = 17 - c
         /\ Cardinality({k \in 0 .. 16 : Scan(a).word[k] # cw[k]}) <= 4
<1> DEFINE r == Scan(a)
           D == {k \in 0 .. 16 : r.word[k] # cw[k]}
<1>1. Placed(r, cw, 17 - c)
  BY ScanPrefix
<1> HIDE DEF r
<1>2. r.length = 17 - c /\ r.word \in Codeword
  BY <1>1 DEF Placed, Reading
<1>3. ASSUME NEW k \in (0 .. 16) \ (8 .. 11) PROVE r.word[k] = cw[k]
  <2>1. PICK i \in 1 .. 13 : CODEWORD_MAP[i] = k
    BY MapType
  <2>2. i \in 1 .. 17 - c
    OBVIOUS
  <2>3. \E n \in 1 .. 17 - c : CODEWORD_MAP[n] = k
    BY <2>1, <2>2
  <2>4. r.word[k] = IF \E n \in 1 .. 17 - c : CODEWORD_MAP[n] = k THEN cw[k]
                    ELSE INITIAL_CODEWORD[k]
    BY <1>1 DEF Placed
  <2> QED BY <2>3, <2>4
<1>4. D \subseteq 8 .. 11
  BY <1>3
<1> HIDE DEF D
<1>5. IsFiniteSet(8 .. 11) /\ Cardinality(8 .. 11) = 4
  <2>1. 8 \in Int /\ 11 \in Int /\ ~ (8 > 11) /\ (11 - 8) + 1 = 4
    OBVIOUS
  <2> QED BY <2>1, FS_Interval
<1>6. Cardinality(D) <= 4
  BY <1>4, <1>5, FS_Subset
<1> QED BY <1>2, <1>6 DEF r, D

------------------------------------------------------------------------------
(* decode and encode. *)

LEMMA DecodeFull ==
  ASSUME NEW cw \in Codeword, NEW a, Prefix(a, cw, 0)
  PROVE  decode(a) = Number(Convert(Downwards(cw), 32, 10))
<1> DEFINE r == Scan(a)
<1>1. r.word = cw /\ r.length = 17
  BY ScanFull
<1>2. [i \in 1 .. BASE32_LENGTH |-> r.word[BASE32_LENGTH - i]] = Downwards(cw)
  <2> HIDE DEF r
  <2> QED BY <1>1 DEF Downwards, BASE32_LENGTH
<1>3. ~ (r.length > 17 \/ (r.length # 17 /\ ~is_codeword_valid(r.word)))
  <2> HIDE DEF r
  <2> QED BY <1>1
<1> QED BY <1>2, <1>3 DEF decode

LEMMA EncodedValue ==
  ASSUME NEW x, IsLong(x)
  PROVE  \E v \in Nat : /\ HasValue(x, 10, v)
                        /\ Digits(x) \in Word /\ WithParity(Digits(x)) \in Codeword
                        /\ HasValue(Downwards(WithParity(Digits(x))), 32, v)
<1>1. x \in Seq(0 .. 10 - 1) /\ 10 \in Base
  <2>1. 10 - 1 = 9
    OBVIOUS
  <2> QED BY <2>1, LongDigits DEF Base
<1>2. PICK v \in Nat : HasValue(x, 10, v)
  BY <1>1, ValueExists
<1> DEFINE w == Digits(x)
<1>3. w \in Word /\ HasValue(Downwards(w), 32, v)
  BY <1>2, DigitsValue
<1> HIDE DEF w
<1>4. WithParity(w) \in Codeword /\ \A k \in 0 .. 12 : WithParity(w)[k] = w[k]
  BY <1>3, WithParityType
<1>5. Downwards(WithParity(w)) = Downwards(w)
  BY <1>4 DEF Downwards
<1> QED BY <1>2, <1>3, <1>4, <1>5 DEF w

LEMMA CodewordDigits ==
  ASSUME NEW cw \in Codeword
  PROVE  Downwards(cw) \in Seq(0 .. 32 - 1) /\ Downwards(cw) # <<>> /\ Len(Downwards(cw)) = 13
<1>1. \A k \in 0 .. 12 : cw[k] \in Symbol
  BY DEF Codeword
<1> QED BY <1>1, DownwardsType

LEMMA NumberOfCodeword ==
  ASSUME NEW x, IsLong(x)
  PROVE  Number(Convert(Downwards(WithParity(Digits(x))), 32, 10)) = x
<1> DEFINE cw == WithParity(Digits(x))
<1>1. PICK v \in Nat : HasValue(x, 10, v) /\ cw \in Codeword /\ HasValue(Downwards(cw), 32, v)
  BY EncodedValue
<1> HIDE DEF cw
<1>2. Downwards(cw) \in Seq(0 .. 32 - 1) /\ Downwards(cw) # <<>>
  BY <1>1, CodewordDigits
<1>3. Number(Convert(Downwards(cw), 32, 10)) = x
  BY <1>1, <1>2, NumberOfDigits
<1> QED BY <1>3 DEF cw

LEMMA WrittenPrefix ==
  ASSUME NEW cw \in Codeword
  PROVE  Prefix(Written(cw), cw, 0)
<1>1. 20 - 0 = 20
  OBVIOUS
<1> QED BY <1>1, WrittenType DEF Prefix

LEMMA CutPrefix ==
  ASSUME NEW cw \in Codeword, NEW c \in 0 .. 4
  PROVE  Prefix(SubSeq(Written(cw), 1, 20 - c), cw, c)
<1> DEFINE a == Written(cw)
           m == 20 - c
<1>1. a \in Seq(Character) /\ Len(a) = 20
  BY WrittenType
<1> HIDE DEF a
<1>2. m \in 16 .. 20 /\ m \in Int /\ 1 \in Int /\ (m - 1) + 1 = m /\ 1 <= m
  OBVIOUS
<1> HIDE DEF m
<1>3. \A i \in 1 .. m : a[i] \in Character
  <2>1. \A i \in 1 .. m : i \in 1 .. Len(a)
    BY <1>1, <1>2
  <2> QED BY <1>1, <2>1, ElementOfSeq
<1> DEFINE b == SubSeq(a, 1, m)
<1>4. /\ b \in Seq(Character)
      /\ Len(b) = IF 1 <= m THEN (m - 1) + 1 ELSE 0
      /\ \A i \in 1 .. (m - 1) + 1 : b[i] = a[(1 + i) - 1]
  BY <1>2, <1>3, SubSeqProperties
<1> HIDE DEF b
<1>5. b \in Seq(Character) /\ Len(b) = m
  BY <1>2, <1>4
<1>6. ASSUME NEW i \in 1 .. m PROVE b[i] = a[i]
  <2>1. (1 + i) - 1 = i
    BY <1>2
  <2>2. b[i] = a[(1 + i) - 1]
    BY <1>2, <1>4
  <2> QED BY <2>1, <2>2
<1> QED BY <1>5, <1>6 DEF Prefix, b, a, m

LEMMA DecodeEncode ==
  ASSUME NEW x, IsLong(x)
  PROVE  decode(encode(x)) = x
<1> DEFINE cw == WithParity(Digits(x))
<1>1. cw \in Codeword
  BY EncodedValue
<1>2. Number(Convert(Downwards(cw), 32, 10)) = x
  BY NumberOfCodeword
<1>3. encode(x) = Written(cw)
  BY DEF encode
<1> HIDE DEF cw
<1>4. Prefix(Written(cw), cw, 0)
  BY <1>1, WrittenPrefix
<1>5. decode(Written(cw)) = Number(Convert(Downwards(cw), 32, 10))
  BY <1>1, <1>4, DecodeFull
<1> QED BY <1>2, <1>3, <1>5

LEMMA DecodeCut ==
  ASSUME NEW x, IsLong(x), NEW c \in 0 .. 4
  PROVE  decode(SubSeq(Written(WithParity(Digits(x))), 1, 20 - c)) \in {Refused, x}
<1> DEFINE cw == WithParity(Digits(x))
           a == SubSeq(Written(cw), 1, 20 - c)
           r == Scan(a)
<1>1. cw \in Codeword /\ is_codeword_valid(cw)
  BY EncodedValue, SentIsValid
<1>2. Number(Convert(Downwards(cw), 32, 10)) = x
  BY NumberOfCodeword
<1> HIDE DEF cw
<1>3. Prefix(a, cw, c)
  BY <1>1, CutPrefix
<1> HIDE DEF a
<1>4. /\ r.word \in Codeword /\ r.length = 17 - c
      /\ Cardinality({k \in 0 .. 16 : r.word[k] # cw[k]}) <= 4
  BY <1>1, <1>3, ScanCut
<1> DEFINE digits == [i \in 1 .. BASE32_LENGTH |-> r.word[BASE32_LENGTH - i]]
<1>5. decode(a) = IF r.length > 17 \/ (r.length # 17 /\ ~is_codeword_valid(r.word))
                  THEN Refused ELSE Number(Convert(digits, 32, 10))
  BY DEF decode
<1>6. digits = Downwards(r.word)
  BY DEF Downwards, BASE32_LENGTH
<1> HIDE DEF r, digits
<1>7. CASE is_codeword_valid(r.word)
  <2>1. r.word = cw
    BY <1>1, <1>4, <1>7, Distance
  <2>2. decode(a) \in {Refused, Number(Convert(digits, 32, 10))}
    BY <1>5
  <2> QED BY <1>2, <1>6, <2>1, <2>2 DEF a, cw
<1>8. CASE ~is_codeword_valid(r.word) /\ c # 0
  <2>1. r.length # 17
    BY <1>4, <1>8
  <2>2. decode(a) = Refused
    BY <1>5, <1>8, <2>1
  <2> QED BY <2>2 DEF a, cw
<1>9. CASE c = 0
  <2>1. decode(a) = Number(Convert(Downwards(cw), 32, 10))
    BY <1>1, <1>3, <1>9, DecodeFull
  <2> QED BY <1>2, <2>1 DEF a, cw
<1> QED BY <1>7, <1>8, <1>9

------------------------------------------------------------------------------
(* Other digits are another number. *)

LEMMA ValueUnique ==
  ASSUME NEW base \in Base, NEW q \in Seq(0 .. base - 1), NEW u, NEW v,
         HasValue(q, base, u), HasValue(q, base, v)
  PROVE  u = v
<1> DEFINE m == Len(q)
<1>1. PICK f : Horner(f, q, base) /\ f[m] = u
  BY DEF HasValue
<1>2. PICK g : Horner(g, q, base) /\ g[m] = v
  BY DEF HasValue
<1>3. m \in Nat
  BY LenProperties
<1>4. /\ f[0] = 0 /\ \A n \in 1 .. m : f[n] = base * f[n - 1] + q[n]
      /\ g[0] = 0 /\ \A n \in 1 .. m : g[n] = base * g[n - 1] + q[n]
  BY <1>1, <1>2 DEF Horner
<1> HIDE DEF m
<1> DEFINE S == {n \in 0 .. m : f[n] = g[n]}
<1>5. 0 \in S
  BY <1>3, <1>4
<1>6. ASSUME NEW n \in 0 .. m - 1, n \in S PROVE n + 1 \in S
  <2>1. n + 1 \in 1 .. m /\ n + 1 \in 0 .. m /\ (n + 1) - 1 = n
    BY <1>3
  <2>2. /\ f[n + 1] = base * f[(n + 1) - 1] + q[n + 1]
        /\ g[n + 1] = base * g[(n + 1) - 1] + q[n + 1]
    BY <1>4, <2>1
  <2>3. f[n] = g[n]
    BY <1>6
  <2>4. f[n + 1] = g[n + 1]
    BY <2>1, <2>2, <2>3, Zenon
  <2> QED BY <2>1, <2>4
<1> HIDE DEF S
<1>7. m \in S
  <2>1. m \in 0 .. m
    BY <1>3
  <2> QED BY <1>3, <1>5, <1>6, <2>1, RoundInduction
<1> QED BY <1>1, <1>2, <1>7 DEF S

LEMMA SameDigit ==
  ASSUME NEW a \in Nat, NEW b \in Nat, NEW x \in 0 .. 31, NEW y \in 0 .. 31,
         32 * a + x = 32 * b + y
  PROVE  a = b /\ x = y
OBVIOUS

LEMMA SameValue ==
  ASSUME NEW p \in Seq(0 .. 32 - 1), NEW q \in Seq(0 .. 32 - 1), Len(p) = 13, Len(q) = 13,
         NEW v, HasValue(p, 32, v), HasValue(q, 32, v)
  PROVE  \A i \in 1 .. 13 : p[i] = q[i]
<1>1. PICK f : Horner(f, p, 32) /\ f[13] = v
  BY DEF HasValue
<1>2. PICK g : Horner(g, q, 32) /\ g[13] = v
  BY DEF HasValue
<1>3. /\ \A n \in 0 .. 13 : f[n] \in Nat
      /\ \A n \in 1 .. 13 : f[n] = 32 * f[n - 1] + p[n]
  BY <1>1 DEF Horner
<1>4. /\ \A n \in 0 .. 13 : g[n] \in Nat
      /\ \A n \in 1 .. 13 : g[n] = 32 * g[n - 1] + q[n]
  BY <1>2 DEF Horner
<1>5. \A n \in 1 .. 13 : p[n] \in 0 .. 31 /\ q[n] \in 0 .. 31
  <2>1. \A n \in 1 .. 13 : p[n] \in 0 .. 32 - 1 /\ q[n] \in 0 .. 32 - 1
    BY ElementOfSeq
  <2>2. 32 - 1 = 31
    OBVIOUS
  <2> QED BY <2>1, <2>2
<1>6. ASSUME NEW n \in 1 .. 13, f[n] = g[n] PROVE f[n - 1] = g[n - 1] /\ p[n] = q[n]
  <2>1. n - 1 \in 0 .. 13
    OBVIOUS
  <2>2. f[n - 1] \in Nat /\ g[n - 1] \in Nat /\ p[n] \in 0 .. 31 /\ q[n] \in 0 .. 31
    BY <1>3, <1>4, <1>5, <2>1
  <2>3. f[n] = 32 * f[n - 1] + p[n] /\ g[n] = 32 * g[n - 1] + q[n]
    BY <1>3, <1>4
  <2>4. 32 * f[n - 1] + p[n] = 32 * g[n - 1] + q[n]
    BY <1>6, <2>3
  <2> DEFINE a == f[n - 1]
             b == g[n - 1]
             x == p[n]
             y == q[n]
  <2>5. /\ a \in Nat /\ b \in Nat /\ x \in 0 .. 31 /\ y \in 0 .. 31
        /\ 32 * a + x = 32 * b + y
    BY <2>2, <2>4
  <2>6. f[n - 1] = a /\ g[n - 1] = b /\ p[n] = x /\ q[n] = y
    OBVIOUS
  <2> HIDE DEF a, b, x, y
  <2>7. a = b /\ x = y
    BY <2>5, SameDigit
  <2> QED BY <2>6, <2>7
<1> DEFINE S == {n \in 0 .. 13 : f[13 - n] = g[13 - n]}
<1>7. 0 \in S
  <2>1. 13 - 0 = 13
    OBVIOUS
  <2> QED BY <1>1, <1>2, <2>1
<1>8. ASSUME NEW n \in 0 .. 12, n \in S PROVE n + 1 \in S
  <2>1. 13 - n \in 1 .. 13 /\ (13 - n) - 1 = 13 - (n + 1) /\ n + 1 \in 0 .. 13
    OBVIOUS
  <2>2. f[13 - n] = g[13 - n]
    BY <1>8
  <2>3. f[(13 - n) - 1] = g[(13 - n) - 1]
    BY <1>6, <2>1, <2>2
  <2> QED BY <2>1, <2>3
<1> HIDE DEF S
<1>9. \A n \in 0 .. 13 : n \in S
  <2>1. 13 \in Nat /\ 13 - 1 = 12
    OBVIOUS
  <2> QED BY <1>7, <1>8, <2>1, RoundInduction
<1> SUFFICES ASSUME NEW i \in 1 .. 13 PROVE p[i] = q[i]
  OBVIOUS
<1>10. 13 - i \in 0 .. 13 /\ 13 - (13 - i) = i
  OBVIOUS
<1>11. f[13 - (13 - i)] = g[13 - (13 - i)]
  BY <1>9, <1>10 DEF S
<1> QED BY <1>6, <1>10, <1>11

LEMMA RestOf10Again ==
  ASSUME NEW a \in Nat
  PROVE  a = 10 * (a \div 10) + (a % 10)
OBVIOUS

(* When the loop of decode puts out the digits of x, it was given the      *)
(* value of x.                                                             *)
LEMMA NumberHasValue ==
  ASSUME NEW x, IsLong(x), x # LongMax, NEW q \in Seq(0 .. 32 - 1), q # <<>>,
         NEW v \in Nat, HasValue(q, 32, v), Number(Convert(q, 32, 10)) = x
  PROVE  HasValue(x, 10, v)
<1> DEFINE c == Convert(q, 32, 10)
           L == Len(c)
           y == [i \in 1 .. L |-> c[(L + 1) - i]]
           m == Len(x)
<1>1. Number(c) = IF Above(y, LongMax) THEN LongMax ELSE y
  BY DEF Number, toLong
<1>2. PICK X : Values(X, 10) /\ X[0] = v
  <2>1. 10 \in Base
    BY DEF Base
  <2> QED BY <2>1, ValuesExist
<1>3. DigitsOf(c, X, 10)
  <2>1. Conversion(32, 10)
    BY DEF Conversion
  <2> QED BY <1>2, <2>1, ConvertValue
<1>4. x = y
  <2> HIDE DEF c, y
  <2> QED BY <1>1 DEF c
<1>5. L \in 1 .. 20
  <2> HIDE DEF c
  <2> QED BY <1>3 DEF DigitsOf
<1> HIDE DEF c, L
<1>6. L = m /\ m \in 1 .. 19
  <2>1. Len(y) = L
    BY <1>5
  <2> QED BY <1>4, <2>1, LongDigits
<1>7. X[m] = 0
  <2> HIDE DEF m
  <2>1. L # 20
    BY <1>6
  <2>2. X[L] = 0
    BY <1>3, <2>1 DEF DigitsOf, L
  <2> QED BY <1>6, <2>2
<1>8. ASSUME NEW n \in 1 .. m PROVE x[n] = X[m - n] % 10
  <2>1. (m + 1) - n \in 1 .. m /\ ((m + 1) - n) - 1 = m - n
    BY <1>6
  <2>2. x[n] = c[(m + 1) - n]
    BY <1>4, <1>6
  <2>3. c[(m + 1) - n] = Rem(X[((m + 1) - n) - 1], 10)
    BY <1>3, <1>6, <2>1 DEF DigitsOf, L
  <2> HIDE DEF m
  <2> QED BY <2>1, <2>2, <2>3 DEF Rem
<1> HIDE DEF m, y
<1> DEFINE f == [n \in 0 .. m |-> X[m - n]]
<1>9. f \in [0 .. m -> Nat] /\ f[0] = 0 /\ f[m] = v
  <2>1. \A n \in 0 .. m : m - n \in 0 .. 20
    BY <1>6
  <2>2. \A n \in 0 .. m : X[m - n] \in Nat
    BY <1>2, <2>1 DEF Values
  <2>3. m - 0 = m /\ m - m = 0 /\ 0 \in 0 .. m /\ m \in 0 .. m
    BY <1>6
  <2> QED BY <1>2, <1>7, <2>2, <2>3
<1>10. ASSUME NEW n \in 1 .. m PROVE f[n] = 10 * f[n - 1] + x[n]
  <2>1. /\ m - n \in 0 .. 19 /\ (m - n) + 1 = m - (n - 1)
        /\ n \in 0 .. m /\ n - 1 \in 0 .. m
    BY <1>6
  <2>2. f[n] = X[m - n] /\ f[n - 1] = X[m - (n - 1)]
    BY <2>1
  <2>3. X[m - n] \in Nat /\ X[(m - n) + 1] = X[m - n] \div 10
    <3>1. m - n \in 0 .. 20
      BY <2>1
    <3> QED BY <1>2, <2>1, <3>1 DEF Values, Quot
  <2>4. X[m - n] = 10 * (X[m - n] \div 10) + (X[m - n] % 10)
    BY <2>3, RestOf10Again
  <2> HIDE DEF f
  <2> QED BY <1>8, <2>1, <2>2, <2>3, <2>4
<1> HIDE DEF f
<1>11. Horner(f, x, 10) /\ f[Len(x)] = v
  BY <1>9, <1>10 DEF Horner, m
<1> QED BY <1>11 DEF HasValue

(* Number gives no empty sequence, which stands for a refusal. *)
LEMMA NumberNotRefused ==
  ASSUME NEW q \in Seq(0 .. 32 - 1), q # <<>>
  PROVE  Number(Convert(q, 32, 10)) # Refused
<1> DEFINE c == Convert(q, 32, 10)
           L == Len(c)
           y == [i \in 1 .. L |-> c[(L + 1) - i]]
<1>1. Number(c) = IF Above(y, LongMax) THEN LongMax ELSE y
  BY DEF Number, toLong
<1>2. 10 \in Base /\ 32 \in Base /\ Conversion(32, 10)
  BY DEF Base, Conversion
<1>3. PICK v \in Nat : HasValue(q, 32, v)
  BY <1>2, ValueExists
<1>4. PICK X : Values(X, 10) /\ X[0] = v
  BY <1>2, ValuesExist
<1>5. DigitsOf(c, X, 10)
  BY <1>2, <1>3, <1>4, ConvertValue
<1> HIDE DEF c
<1>6. L \in 1 .. 20
  BY <1>5 DEF DigitsOf
<1> HIDE DEF L
<1>7. Len(y) = L /\ Len(LongMax) = 19 /\ Len(Refused) = 0
  <2>1. Len(y) = L
    BY <1>6
  <2>2. Len(LongMax) = 19
    BY DEF LongMax
  <2>3. Len(Refused) = 0
    BY EmptySeq DEF Refused
  <2> QED BY <2>1, <2>2, <2>3
<1> HIDE DEF y
<1>8. y # Refused
  <2> SUFFICES ASSUME y = Refused PROVE FALSE
    OBVIOUS
  <2>1. L = 0
    BY <1>7, Zenon
  <2> QED BY <1>6, <2>1
<1>9. LongMax # Refused
  <2> SUFFICES ASSUME LongMax = Refused PROVE FALSE
    OBVIOUS
  <2>1. 19 = 0
    BY <1>7, Zenon
  <2> QED BY <2>1
<1> QED BY <1>1, <1>8, <1>9 DEF c

------------------------------------------------------------------------------
(* Convert makes BASE10_LENGTH passes and the code as many as it takes: no *)
(* digits are left after them.                                             *)

LEMMA Times32 ==
  ASSUME NEW a \in Nat, NEW b \in Nat, a < b, NEW x \in 0 .. 31
  PROVE  32 * a + x < 32 * b
OBVIOUS

LEMMA Over10 ==
  ASSUME NEW a \in Nat, NEW b \in Nat, a < 10 * b
  PROVE  a \div 10 < b
OBVIOUS

LEMMA BoundsGrow ==
  \A k \in 1 .. 13 : Bound[k] = 32 * Bound[k + 1]
BY DEF Bound

LEMMA FirstOver10 ==
  ASSUME NEW a \in Nat, a < Bound[1]
  PROVE  a \div 10 < Ten[20]
<1>1. Bound[1] = 36893488147419103232 /\ Ten[20] = 10000000000000000000
  BY DEF Bound, Ten
<1>2. a < 36893488147419103232
  BY <1>1
<1>3. a \div 10 < 10000000000000000000
  BY <1>2
<1> QED BY <1>1, <1>3

(* Thirteen base-32 digits are a number of at most twenty decimal digits. *)
LEMMA CodewordBound ==
  ASSUME NEW q \in Seq(0 .. 32 - 1), Len(q) = 13, NEW v \in Nat, HasValue(q, 32, v)
  PROVE  v < Bound[1]
<1>1. PICK f : Horner(f, q, 32) /\ f[13] = v
  BY DEF HasValue
<1>2. /\ \A n \in 0 .. 13 : f[n] \in Nat
      /\ f[0] = 0 /\ \A n \in 1 .. 13 : f[n] = 32 * f[n - 1] + q[n]
  BY <1>1 DEF Horner
<1>3. \A n \in 1 .. 13 : q[n] \in 0 .. 31
  <2>1. \A n \in 1 .. 13 : q[n] \in 0 .. 32 - 1
    BY ElementOfSeq
  <2>2. 32 - 1 = 31
    OBVIOUS
  <2> QED BY <2>1, <2>2
<1> DEFINE S == {n \in 0 .. 13 : f[n] < Bound[14 - n]}
<1>4. 0 \in S
  <2>1. 14 - 0 = 14 /\ 0 \in 0 .. 13
    OBVIOUS
  <2>2. f[0] < Bound[14]
    BY <1>2, TableOfBounds
  <2> QED BY <2>1, <2>2
<1>5. ASSUME NEW n \in 0 .. 12, n \in S PROVE n + 1 \in S
  <2>1. /\ n + 1 \in 1 .. 13 /\ n + 1 \in 0 .. 13 /\ (n + 1) - 1 = n /\ n \in 0 .. 13
        /\ 14 - (n + 1) \in 1 .. 13 /\ (14 - (n + 1)) + 1 = 14 - n /\ 14 - n \in 1 .. 21
    OBVIOUS
  <2>2. f[n + 1] = 32 * f[n] + q[n + 1]
    <3>1. f[n + 1] = 32 * f[(n + 1) - 1] + q[n + 1]
      BY <1>2, <2>1
    <3> QED BY <2>1, <3>1
  <2>3. f[n] \in Nat /\ q[n + 1] \in 0 .. 31
    BY <1>2, <1>3, <2>1
  <2>4. Bound[14 - n] \in Nat
    BY <2>1, TableOfBounds
  <2>5. Bound[14 - (n + 1)] = 32 * Bound[14 - n]
    <3>1. Bound[14 - (n + 1)] = 32 * Bound[(14 - (n + 1)) + 1]
      BY <2>1, BoundsGrow
    <3> QED BY <2>1, <3>1
  <2>6. f[n] < Bound[14 - n]
    BY <1>5
  <2>7. 32 * f[n] + q[n + 1] < 32 * Bound[14 - n]
    BY <2>3, <2>4, <2>6, Times32
  <2>8. f[n + 1] < Bound[14 - (n + 1)]
    BY <2>2, <2>5, <2>7
  <2> QED BY <2>1, <2>8
<1> HIDE DEF S
<1>6. 13 \in S
  <2>1. 13 \in Nat /\ 13 - 1 = 12 /\ 13 \in 0 .. 13
    OBVIOUS
  <2> QED BY <1>4, <1>5, <2>1, RoundInduction
<1>7. 14 - 13 = 1
  OBVIOUS
<1> QED BY <1>1, <1>6, <1>7 DEF S

LEMMA DecimalEnd ==
  ASSUME NEW X, Values(X, 10), X[0] < Bound[1]
  PROVE  X[20] = 0
<1> DEFINE S == {k \in 0 .. 19 : X[k + 1] < Ten[20 - k]}
<1>1. /\ \A k \in 0 .. 20 : X[k] \in Nat
      /\ \A k \in 0 .. 19 : X[k + 1] = X[k] \div 10
  BY DEF Values, Quot
<1>2. 0 \in S
  <2>1. X[0] \in Nat /\ X[0 + 1] = X[0] \div 10 /\ 20 - 0 = 20 /\ 0 \in 0 .. 19
    BY <1>1
  <2>2. X[0] \div 10 < Ten[20]
    BY <2>1, FirstOver10
  <2> QED BY <2>1, <2>2
<1>3. ASSUME NEW k \in 0 .. 18, k \in S PROVE k + 1 \in S
  <2>1. /\ k + 1 \in 0 .. 20 /\ k + 1 \in 0 .. 19 /\ 20 - (k + 1) \in 1 .. 19
        /\ (20 - (k + 1)) + 1 = 20 - k
    OBVIOUS
  <2>2. /\ X[k + 1] \in Nat /\ X[k + 1] < Ten[20 - k]
        /\ X[(k + 1) + 1] = X[k + 1] \div 10
    BY <1>1, <1>3, <2>1
  <2>3. Ten[20 - (k + 1)] \in Nat /\ Ten[20 - k] = 10 * Ten[20 - (k + 1)]
    <3>1. /\ Ten[20 - (k + 1)] \in Nat
          /\ Ten[(20 - (k + 1)) + 1] = 10 * Ten[20 - (k + 1)]
      BY <2>1, TableOfTen
    <3> QED BY <2>1, <3>1
  <2>4. X[k + 1] < 10 * Ten[20 - (k + 1)]
    BY <2>2, <2>3
  <2>5. X[k + 1] \div 10 < Ten[20 - (k + 1)]
    BY <2>2, <2>3, <2>4, Over10
  <2>6. X[(k + 1) + 1] < Ten[20 - (k + 1)]
    BY <2>2, <2>5
  <2> QED BY <2>1, <2>6
<1> HIDE DEF S
<1>4. 19 \in S
  <2>1. 19 \in Nat /\ 19 - 1 = 18 /\ 19 \in 0 .. 19
    OBVIOUS
  <2> QED BY <1>2, <1>3, <2>1, RoundInduction
<1>5. 20 - 19 = 1 /\ 19 + 1 = 20 /\ 20 \in 0 .. 20
  OBVIOUS
<1>6. X[20] < 1 /\ X[20] \in Nat
  BY <1>1, <1>4, <1>5, TableOfTen DEF S
<1> QED BY <1>6

LEMMA NothingLeft ==
  ASSUME NEW from, NEW to, NEW X, X[20] = 0,
         NEW acc, Converted(acc, X, 20, from, to)
  PROVE  acc.left = <<>>
<1> DEFINE L == Len(acc.out)
<1>1. /\ L \in 0 .. 20
      /\ L = 0 => acc.left # <<>>
      /\ L # 0 => (acc.left = <<>> <=> X[L] = 0)
      /\ L = 20 \/ acc.left = <<>>
  BY DEF Converted
<1> HIDE DEF L
<1> QED BY <1>1

(* The loops of encode and decode (reedsolomon.d:57 and :144) end within    *)
(* BASE10_LENGTH passes, for every long and for every codeword: what       *)
(* Convert puts out is all that they put out.                              *)
THEOREM LoopsEnd ==
  /\ \A x, R : IsLong(x) /\ Passes(R, x, 10, 32) => R[20].left = <<>>
  /\ \A cw \in Codeword : \A R : Passes(R, Downwards(cw), 32, 10) => R[20].left = <<>>
<1>1. 10 \in Base /\ 32 \in Base /\ Conversion(10, 32) /\ Conversion(32, 10)
  BY DEF Base, Conversion
<1>2. ASSUME NEW x, NEW R, IsLong(x), Passes(R, x, 10, 32) PROVE R[20].left = <<>>
  <2>1. x \in Seq(0 .. 9) /\ Len(x) \in 1 .. 19 /\ x # <<>>
    BY <1>2, LongDigits DEF IsLong
  <2>2. 10 - 1 = 9 /\ Len(x) \in 0 .. 19 /\ 20 \in 13 .. 20
    BY <2>1
  <2>3. x \in Seq(0 .. 10 - 1)
    BY <2>1, <2>2
  <2>4. PICK v \in Nat : HasValue(x, 10, v)
    BY <1>1, <2>1, <2>3, ValueExists
  <2>5. PICK X : Values(X, 32) /\ X[0] = v
    BY <1>1, ValuesExist
  <2>6. X[0] < Bound[1]
    BY <2>1, <2>2, <2>4, <2>5, DecimalBound
  <2>7. X[20] = 0
    BY <2>2, <2>5, <2>6, ValuesEnd
  <2>8. Converted(R[20], X, 20, 10, 32)
    BY <1>1, <1>2, <2>1, <2>3, <2>4, <2>5, PassesConvert
  <2> QED BY <2>7, <2>8, NothingLeft
<1>3. ASSUME NEW cw \in Codeword, NEW R, Passes(R, Downwards(cw), 32, 10)
      PROVE  R[20].left = <<>>
  <2> DEFINE q == Downwards(cw)
  <2>1. q \in Seq(0 .. 32 - 1) /\ q # <<>> /\ Len(q) = 13
    BY CodewordDigits
  <2>2. Passes(R, q, 32, 10)
    BY <1>3
  <2> HIDE DEF q
  <2>3. PICK v \in Nat : HasValue(q, 32, v)
    BY <1>1, <2>1, ValueExists
  <2>4. PICK X : Values(X, 10) /\ X[0] = v
    BY <1>1, ValuesExist
  <2>5. X[0] < Bound[1]
    BY <2>1, <2>3, <2>4, CodewordBound
  <2>6. X[20] = 0
    BY <2>4, <2>5, DecimalEnd
  <2>7. Converted(R[20], X, 20, 32, 10)
    BY <1>1, <2>1, <2>2, <2>3, <2>4, PassesConvert
  <2> QED BY <2>6, <2>7, NothingLeft
<1> QED BY <1>2, <1>3

(* A codeword whose thirteen digits are those of x is read as x.  Unless x *)
(* is long.max, no other codeword is.                                      *)
LEMMA ReadAs ==
  ASSUME NEW x, IsLong(x), NEW cw \in Codeword
  PROVE  LET sw == WithParity(Digits(x))
             read == Number(Convert(Downwards(cw), 32, 10))
         IN  /\ read # Refused
             /\ (\A k \in 0 .. 12 : cw[k] = sw[k]) => read = x
             /\ x # LongMax /\ read = x => \A k \in 0 .. 12 : cw[k] = sw[k]
<1> DEFINE sw == WithParity(Digits(x))
           p == Downwards(cw)
           q == Downwards(sw)
           read == Number(Convert(p, 32, 10))
<1>1. PICK v \in Nat : HasValue(x, 10, v) /\ sw \in Codeword /\ HasValue(q, 32, v)
  BY EncodedValue
<1>2. Number(Convert(q, 32, 10)) = x
  BY NumberOfCodeword
<1> HIDE DEF sw
<1>3. /\ p \in Seq(0 .. 32 - 1) /\ p # <<>> /\ Len(p) = 13
      /\ q \in Seq(0 .. 32 - 1) /\ Len(q) = 13
  BY <1>1, CodewordDigits
<1>4. read # Refused
  <2> HIDE DEF p
  <2> QED BY <1>3, NumberNotRefused
<1>5. ASSUME \A k \in 0 .. 12 : cw[k] = sw[k] PROVE read = x
  <2>1. \A i \in 1 .. 13 : 13 - i \in 0 .. 12
    OBVIOUS
  <2>2. p = q
    BY <1>5, <2>1 DEF Downwards
  <2> HIDE DEF p, q
  <2> QED BY <1>2, <2>2
<1>6. ASSUME x # LongMax, read = x PROVE \A k \in 0 .. 12 : cw[k] = sw[k]
  <2>1. 10 \in Base /\ 32 \in Base
    BY DEF Base
  <2>2. \A i \in 1 .. 13 : p[i] = q[i]
    <3> HIDE DEF p, q
    <3>1. PICK w \in Nat : HasValue(p, 32, w)
      BY <1>3, <2>1, ValueExists
    <3>2. HasValue(x, 10, w)
      BY <1>3, <1>6, <3>1, NumberHasValue
    <3>3. x \in Seq(0 .. 10 - 1)
      <4>1. 10 - 1 = 9
        OBVIOUS
      <4> QED BY <4>1, LongDigits
    <3>4. w = v
      BY <1>1, <2>1, <3>2, <3>3, ValueUnique
    <3> QED BY <1>1, <1>3, <3>1, <3>4, SameValue
  <2> SUFFICES ASSUME NEW k \in 0 .. 12 PROVE cw[k] = sw[k]
    OBVIOUS
  <2>3. 13 - k \in 1 .. 13 /\ 13 - (13 - k) = k
    OBVIOUS
  <2>4. p[13 - k] = cw[13 - (13 - k)] /\ q[13 - k] = sw[13 - (13 - k)]
    BY <2>3 DEF Downwards
  <2> QED BY <2>2, <2>3, <2>4
<1> QED BY <1>4, <1>5, <1>6 DEF sw

------------------------------------------------------------------------------
(* The specification. *)

(* Someone who writes down the address of a number writes down the         *)
(* codeword inside it: forgetting the number, and what is cut off, leaves  *)
(* a behaviour of ReedSolomonCode (encode and decode of reedsolomon.d      *)
(* share the codeword, lines 43 to 110 and 112 to 173).                    *)
THEOREM ImplementsCode == Spec => CodeSpec
<1>1. Init => CodeInit
  BY DEF Init
<1>2. [Next]_vars => [CodeNext]_codeVars
  <2> SUFFICES ASSUME [Next]_vars PROVE [CodeNext]_codeVars
    OBVIOUS
  <2>1. CASE Cut
    BY <2>1 DEF Cut
  <2>2. CASE \E k \in 0 .. 16, c \in TypoSymbol : Mistype(k, c)
    BY <2>2 DEF Mistype, CodeNext
  <2>3. CASE UNCHANGED vars
    BY <2>3 DEF vars
  <2> QED BY <2>1, <2>2, <2>3 DEF Next
<1> QED BY <1>1, <1>2, PTL DEF Spec, CodeSpec

(* The digits that were sent stay those of the number, and at most four    *)
(* characters are missing.                                                 *)
AddressInv ==
  /\ IsLong(plain)
  /\ sent = Digits(plain)
  /\ cut \in 0 .. 4
  /\ CodeInv

LEMMA AddressInvHolds == Spec => []AddressInv
<1> DEFINE Own == plain \in Plain /\ sent = Digits(plain) /\ cut \in 0 .. MaxCut
<1>1. MaxCut \in 0 .. 4 /\ \A x \in Plain : IsLong(x)
  BY AddressAssumption
<1>2. Init => Own
  BY <1>1 DEF Init
<1>3. Own /\ [Next]_vars => Own'
  <2> SUFFICES ASSUME Own, [Next]_vars PROVE Own'
    OBVIOUS
  <2>1. CASE Cut
    <3>1. sent' = sent /\ plain' = plain
      BY <2>1 DEF Cut, codeVars
    <3>2. cut' \in 0 .. MaxCut
      BY <1>1, <2>1 DEF Cut
    <3> QED BY <3>1, <3>2
  <2>2. CASE \E k \in 0 .. 16, c \in TypoSymbol : Mistype(k, c)
    BY <2>2 DEF Mistype, Typo
  <2>3. CASE UNCHANGED vars
    BY <2>3 DEF vars, codeVars
  <2> QED BY <2>1, <2>2, <2>3 DEF Next
<1>4. Own /\ CodeInv => AddressInv
  <2> SUFFICES ASSUME Own, CodeInv PROVE AddressInv
    OBVIOUS
  <2>1. cut \in 0 .. 4
    BY <1>1
  <2> QED BY <1>1, <2>1 DEF AddressInv
<1> HIDE DEF Own
<1> QED BY <1>2, <1>3, <1>4, ImplementsCode, CodeInvHolds, PTL DEF Spec

(* What was received is what was sent, but for the typos. *)
LEMMA NoTypos ==
  ASSUME AddressInv, typos = {}
  PROVE  received = WithParity(Digits(plain))
<1>1. WithParity(sent) \in Codeword
  BY WithParityType DEF AddressInv, CodeInv
<1>2. \A k \in 0 .. 16 : received[k] = WithParity(sent)[k]
  BY DEF AddressInv, CodeInv
<1>3. received = WithParity(sent)
  BY <1>1, <1>2 DEF AddressInv, CodeInv, Codeword
<1> QED BY <1>3 DEF AddressInv

(* Decoding the address of a long gives the long back, for every long that *)
(* is not negative (the unit test of reedsolomon.d:309 tries a table).     *)
THEOREM RoundTripHolds == Spec => []RoundTrip
<1>1. AddressInv => RoundTrip
  BY DecodeEncode DEF AddressInv, RoundTrip
<1> QED BY <1>1, AddressInvHolds, PTL

(* An address without its last characters, up to four, is refused by the   *)
(* check of decode (reedsolomon.d:134), or still gives its number: the     *)
(* initial codeword that stands in for what is missing never makes a       *)
(* codeword of another number.                                             *)
THEOREM CutNeverMisreadHolds == Spec => []CutNeverMisread
<1>1. AddressInv => CutNeverMisread
  <2> SUFFICES ASSUME AddressInv, typos = {} PROVE decode(address) \in {Refused, plain}
    BY DEF CutNeverMisread
  <2>1. received = WithParity(Digits(plain))
    BY NoTypos
  <2>2. IsLong(plain) /\ cut \in 0 .. 4
    BY DEF AddressInv
  <2> QED BY <2>1, <2>2, DecodeCut DEF address
<1> QED BY <1>1, AddressInvHolds, PTL

(* An address of full length is accepted whatever is wrong with it, and    *)
(* read as its number exactly when the thirteen digits are right: the      *)
(* condition of reedsolomon.d:134 skips the check for it.                  *)
THEOREM CheckDigitsIgnoredHolds == Spec => []CheckDigitsIgnored
<1>1. AddressInv => CheckDigitsIgnored
  <2> SUFFICES ASSUME AddressInv, cut = 0
               PROVE  /\ decode(address) # Refused
                      /\ plain # LongMax =>
                           (decode(address) = plain <=> typos \subseteq 13 .. 16)
    BY DEF CheckDigitsIgnored
  <2> DEFINE sw == WithParity(Digits(plain))
             read == Number(Convert(Downwards(received), 32, 10))
  <2>1. IsLong(plain) /\ received \in Codeword
    BY DEF AddressInv, CodeInv
  <2>2. typos = {k \in 0 .. 16 : received[k] # sw[k]}
    BY DEF AddressInv, CodeInv
  <2>3. decode(address) = read
    <3>1. 0 \in 0 .. 4
      OBVIOUS
    <3>2. Prefix(SubSeq(Written(received), 1, 20 - 0), received, 0)
      BY <2>1, <3>1, CutPrefix
    <3>3. address = SubSeq(Written(received), 1, 20 - 0)
      BY DEF address
    <3> QED BY <2>1, <3>2, <3>3, DecodeFull
  <2>4. /\ read # Refused
        /\ (\A k \in 0 .. 12 : received[k] = sw[k]) => read = plain
        /\ plain # LongMax /\ read = plain => \A k \in 0 .. 12 : received[k] = sw[k]
    BY <2>1, ReadAs
  <2> HIDE DEF sw, read
  <2>5. typos \subseteq 13 .. 16 <=> \A k \in 0 .. 12 : received[k] = sw[k]
    <3>1. \A k \in 0 .. 16 : k \in 13 .. 16 <=> k \notin 0 .. 12
      OBVIOUS
    <3>2. \A k \in 0 .. 12 : k \in 0 .. 16
      OBVIOUS
    <3> QED BY <2>2, <3>1, <3>2, Zenon
  <2> QED BY <2>3, <2>4, <2>5
<1> QED BY <1>1, AddressInvHolds, PTL

==============================================================================
