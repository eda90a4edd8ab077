------------------------- MODULE PolyPacketCodecProofs -------------------------
(***************************************************************************)
(* What a frame and a JSON text carry, for any descriptor and any          *)
(* contents.  The number a field's size is written as is read back, so the *)
(* parser finds every field poly_packet_pack has written and nothing else; *)
(* what it reads of any frame, and of any text, has its type; the checksum *)
(* is a sum that one altered byte always changes; and a number or a string *)
(* that JSON can carry is read as it was printed.                          *)
(***************************************************************************)
EXTENDS PolyPacketCodec, WellFoundedInduction, TLAPS

-----------------------------------------------------------------------------
(* Variable-size numbers                                                   *)

(* What the digits are worth.                                              *)
LEMMA Weights ==
  /\ Weight[1] = 1 /\ Weight[2] = Base /\ Weight[3] = Base * Base
  /\ Weight[4] = Base * Base * Base /\ Weight[5] = Base * Base * Base * Base
BY DEF Weight

(* The least element of a set of naturals, as CHOOSE finds it.             *)
LEMMA MinIs ==
  ASSUME NEW S \in SUBSET Int, NEW m \in S, \A n \in S : m <= n
  PROVE  Min(S) = m
<1>1. \A x \in S : (\A y \in S : x <= y) => x = m
  BY SMT
<1> QED
  BY <1>1 DEF Min

(* A number that four bytes can hold is split into one digit and what is   *)
(* left of it, which fits one byte less.                                   *)
LEMMA SplitDigit ==
  ASSUME NEW val \in Nat
  PROVE  /\ val % Base \in 0..Base - 1 /\ val \div Base \in Nat
         /\ val = (val % Base) + Base * (val \div Base)
BY BaseAssumption

(* What is left fits below any bound that is Base times smaller.           *)
LEMMA QuotientBelow ==
  ASSUME NEW val \in Nat, NEW bound \in Nat, val < Base * bound
  PROVE  val \div Base < bound
<1> DEFINE q == val \div Base
<1>1. q \in Nat /\ Base * q <= val
  BY BaseAssumption
<1>2. ASSUME q >= bound PROVE FALSE
  <2>1. Base * q >= Base * bound
    <3>1. q = bound + (q - bound) /\ q - bound \in Nat
      BY <1>1, <1>2
    <3> HIDE DEF q
    <3>2. Base * q = Base * bound + Base * (q - bound)
      BY <3>1, <1>1, BaseAssumption
    <3>3. Base * (q - bound) >= 0
      BY <3>1, BaseAssumption
    <3>4. Base * bound \in Nat /\ Base * q \in Nat /\ Base * (q - bound) \in Nat
      BY <1>1, <3>1, BaseAssumption
    <3> QED  BY <3>2, <3>3, <3>4
  <2> HIDE DEF q
  <2>2. Base * bound \in Nat /\ Base * q \in Nat
    BY <1>1, BaseAssumption
  <2> QED  BY <1>1, <2>1, <2>2
<1> QED
  BY <1>1, <1>2

(* Dividing digit by digit is dividing by the weight.                      *)
LEMMA Quotients ==
  ASSUME NEW val \in Nat
  PROVE  /\ val \div Weight[1] = val
         /\ val \div Weight[2] = val \div Base
         /\ val \div Weight[3] = (val \div Base) \div Base
         /\ val \div Weight[4] = ((val \div Base) \div Base) \div Base
<1>1. ASSUME NEW a \in Nat, NEW b \in Nat, b > 0
      PROVE  (a \div b) \div Base = a \div (b * Base)
  BY <1>1, BaseAssumption
<1>2. val \div 1 = val
  OBVIOUS
<1>3. Base * Base \in Nat /\ Base * Base > 0
  BY BaseAssumption
<1>4. Base \in Nat /\ Base > 0
  BY BaseAssumption
<1>5. (val \div Base) \div Base = val \div (Base * Base)
  BY Zenon, <1>1, <1>4
<1>6. (val \div (Base * Base)) \div Base = val \div (Base * Base * Base)
  BY Zenon, <1>1, <1>3
<1> QED
  BY <1>2, <1>5, <1>6, Weights

(* How many bytes a number takes.                                          *)
LEMMA Widths ==
  ASSUME NEW val \in Nat
  PROVE  /\ Width(val) \in 1..MaxWidth
         /\ val < Base => Width(val) = 1
         /\ val < Weight[3] => Width(val) <= 2
         /\ val < Weight[4] => Width(val) <= 3
         /\ val < Weight[5] => Width(val) <= 4
         /\ val >= Base => Width(val) >= 2
         /\ val >= Weight[3] => Width(val) >= 3
         /\ val >= Weight[4] => Width(val) >= 4
<1> DEFINE S == {n \in 1..5 : n = 5 \/ val < Weight[n + 1]}
<1>1. PICK m \in S : \A n \in S : m <= n
  <2>1. 5 \in S
    OBVIOUS
  <2>2. \/ 1 \in S
        \/ 1 \notin S /\ 2 \in S
        \/ 1 \notin S /\ 2 \notin S /\ 3 \in S
        \/ 1 \notin S /\ 2 \notin S /\ 3 \notin S /\ 4 \in S
        \/ 1 \notin S /\ 2 \notin S /\ 3 \notin S /\ 4 \notin S /\ 5 \in S
    BY <2>1
  <2>3. S \subseteq 1..5
    OBVIOUS
  <2> HIDE DEF S
  <2> QED  BY <2>2, <2>3
<1>2. Width(val) = m
  <2>1. Width(val) = Min(S)
    BY DEF Width, MaxWidth
  <2>2. S \in SUBSET Int
    OBVIOUS
  <2> HIDE DEF S
  <2> QED  BY <1>1, <2>1, <2>2, MinIs
<1>3. \A n \in 1..5 : n < m => ~(val < Weight[n + 1])
  BY <1>1
<1>4. m \in 1..5 /\ (m = 5 \/ val < Weight[m + 1])
  OBVIOUS
<1>5. \A n \in 1..4 : val < Weight[n + 1] => m <= n
  BY <1>1
<1> HIDE DEF S
<1>6. Weight[2] \in Nat /\ Weight[3] \in Nat /\ Weight[4] \in Nat /\ Weight[5] \in Nat
  BY Weights, BaseAssumption
<1>7. Weight[2] <= Weight[3] /\ Weight[3] <= Weight[4] /\ Weight[4] <= Weight[5]
  <2>1. \A w \in Nat : w <= w * Base /\ w * Base \in Nat
    BY BaseAssumption
  <2>2. Base \in Nat /\ Base * Base \in Nat /\ Base * Base * Base \in Nat
    BY <1>6, Weights
  <2> QED  BY Zenon, <2>1, <2>2, Weights
<1>8. /\ val < Weight[2] => m <= 1
      /\ val < Weight[3] => m <= 2
      /\ val < Weight[4] => m <= 3
      /\ val < Weight[5] => m <= 4
  <2>1. 1 + 1 = 2 /\ 2 + 1 = 3 /\ 3 + 1 = 4 /\ 4 + 1 = 5
    OBVIOUS
  <2> QED  BY <1>5, <2>1
<1>9. /\ m = 1 => val < Weight[2]
      /\ m = 2 => val < Weight[3]
      /\ m = 3 => val < Weight[4]
      /\ m = 4 => val < Weight[5]
  BY <1>4
<1> QED
  BY <1>2, <1>4, <1>6, <1>7, <1>8, <1>9, Weights DEF MaxWidth

(* The digits of a number, the least significant first.                    *)
Digit(val, i) == (val \div Weight[i]) % Base

LEMMA Digits ==
  ASSUME NEW val \in Nat, val < Weight[5]
  PROVE  /\ \A i \in 1..4 : Digit(val, i) \in 0..Base - 1
         /\ \A i \in 1..4 : i > Width(val) => Digit(val, i) = 0
         /\ val = Digit(val, 1) * Weight[1] + Digit(val, 2) * Weight[2]
                    + Digit(val, 3) * Weight[3] + Digit(val, 4) * Weight[4]
         /\ Width(val) \in 1..4
<1> DEFINE q1 == val \div Base
           q2 == q1 \div Base
           q3 == q2 \div Base
<1>1. q1 \in Nat /\ q2 \in Nat /\ q3 \in Nat
  <2>1. \A n \in Nat : n \div Base \in Nat
    BY SplitDigit
  <2> QED  BY Zenon, <2>1
<1>2. /\ val % Base \in 0..Base - 1 /\ val = (val % Base) + Base * q1
      /\ q1 % Base \in 0..Base - 1 /\ q1 = (q1 % Base) + Base * q2
      /\ q2 % Base \in 0..Base - 1 /\ q2 = (q2 % Base) + Base * q3
      /\ q3 % Base \in 0..Base - 1
  <2>1. \A n \in Nat : /\ n % Base \in 0..Base - 1
                       /\ n = (n % Base) + Base * (n \div Base)
    BY SplitDigit
  <2> HIDE DEF q1, q2, q3
  <2>2. q1 = val \div Base /\ q2 = q1 \div Base /\ q3 = q2 \div Base
    BY DEF q1, q2, q3
  <2> QED  BY Zenon, <1>1, <2>1, <2>2
<1>3. /\ Digit(val, 1) = val % Base /\ Digit(val, 2) = q1 % Base
      /\ Digit(val, 3) = q2 % Base /\ Digit(val, 4) = q3 % Base
  BY Zenon, Quotients DEF Digit
<1>4. ASSUME NEW n \in Nat, NEW bound \in Nat, n < bound * Base
      PROVE  n \div Base < bound
  <2>1. n < Base * bound
    BY <1>4, BaseAssumption
  <2> QED  BY <2>1, QuotientBelow
<1>5. /\ val < Base => q1 < 1
      /\ val < Base * Base => q1 < Base
      /\ val < Base * Base * Base => q1 < Base * Base
      /\ val < Base * Base * Base * Base => q1 < Base * Base * Base
      /\ q1 < Base => q2 < 1
      /\ q1 < Base * Base => q2 < Base
      /\ q1 < Base * Base * Base => q2 < Base * Base
      /\ q2 < Base => q3 < 1
      /\ q2 < Base * Base => q3 < Base
  <2>1. Base \in Nat /\ Base * Base \in Nat /\ Base * Base * Base \in Nat
    BY BaseAssumption
  <2>2. 1 \in Nat /\ 1 * Base = Base
    BY BaseAssumption
  <2> HIDE DEF q1, q2, q3
  <2>3. q1 = val \div Base /\ q2 = q1 \div Base /\ q3 = q2 \div Base
    BY DEF q1, q2, q3
  <2> QED  BY Zenon, <1>1, <1>4, <2>1, <2>2, <2>3
<1> HIDE DEF q1, q2, q3
<1>6. q3 < Base
  BY <1>5, Weights
<1>7. q3 % Base = q3
  BY <1>1, <1>6, BaseAssumption
<1>8. \A i \in 1..4 : i > Width(val) => Digit(val, i) = 0
  <2>1. 0 % Base = 0
    BY BaseAssumption
  <2>2. /\ Width(val) < 2 => q1 = 0
        /\ Width(val) < 3 => q2 = 0
        /\ Width(val) < 4 => q3 = 0
    <3>1. /\ Width(val) < 2 => val < Base
          /\ Width(val) < 3 => val < Base * Base
          /\ Width(val) < 4 => val < Base * Base * Base
          /\ Width(val) \in 1..5
      <4>1. Base \in Nat /\ Base * Base \in Nat /\ Base * Base * Base \in Nat
        BY BaseAssumption
      <4> QED  BY <4>1, Widths, Weights DEF MaxWidth
    <3> QED  BY <1>1, <1>5, <3>1
  <2>3. Width(val) \in 1..5
    BY Widths DEF MaxWidth
  <2>4. /\ Width(val) < 2 => Digit(val, 2) = 0
        /\ Width(val) < 3 => Digit(val, 3) = 0
        /\ Width(val) < 4 => Digit(val, 4) = 0
    BY <1>3, <2>1, <2>2
  <2> QED  BY <2>3, <2>4
<1>9. val = Digit(val, 1) * Weight[1] + Digit(val, 2) * Weight[2]
              + Digit(val, 3) * Weight[3] + Digit(val, 4) * Weight[4]
  <2>1. ASSUME NEW d0 \in Nat, NEW d1 \in Nat, NEW d2 \in Nat, NEW d3 \in Nat
        PROVE  d0 + Base * (d1 + Base * (d2 + Base * d3))
                 = d0 * 1 + d1 * Base + d2 * (Base * Base) + d3 * (Base * Base * Base)
    BY BaseAssumption
  <2>2. /\ val % Base \in Nat /\ q1 % Base \in Nat /\ q2 % Base \in Nat
        /\ val = (val % Base) + Base * ((q1 % Base) + Base * ((q2 % Base) + Base * q3))
    <3>1. \A n \in 0..Base - 1 : n \in Nat
      BY BaseAssumption
    <3> QED  BY Zenon, <1>2, <3>1
  <2>3. val = (val % Base) * 1 + (q1 % Base) * Base + (q2 % Base) * (Base * Base)
                + q3 * (Base * Base * Base)
    <3>1. PICK d0 \in Nat, d1 \in Nat, d2 \in Nat :
            d0 = val % Base /\ d1 = q1 % Base /\ d2 = q2 % Base
      BY <2>2
    <3>2. d0 + Base * (d1 + Base * (d2 + Base * q3))
            = d0 * 1 + d1 * Base + d2 * (Base * Base) + q3 * (Base * Base * Base)
      BY <1>1, <2>1
    <3> QED  BY Zenon, <2>2, <3>1, <3>2
  <2>4. Base * Base * Base = (Base * Base) * Base
    OBVIOUS
  <2> QED  BY Zenon, <1>3, <1>7, <2>3, <2>4, Weights
<1>10. Width(val) \in 1..4
  BY Widths DEF MaxWidth
<1>11. \A i \in 1..4 : Digit(val, i) \in 0..Base - 1
  BY <1>2, <1>3
<1> QED
  BY <1>8, <1>9, <1>10, <1>11

(* poly_var_size_read gives back what poly_var_size_pack wrote, whatever   *)
(* stands before and behind it, as long as four bytes are enough.          *)
Reads(buf, at, val) ==
  VarSizeLength(buf, at) = Width(val) /\ VarSizeValue(buf, at) = val

LEMMA ReadBack ==
  ASSUME NEW val \in Nat, val < Weight[5], NEW buf, NEW at \in Int,
         \A k \in 1..Width(val) : ByteAt(buf, at + (k - 1)) = VarSizePack(val)[k]
  PROVE  Reads(buf, at, val)
<1> DEFINE w == Width(val)
<1>1. w \in 1..4
  BY Digits
<1>2. ASSUME NEW k \in 1..4, k <= w
      PROVE  /\ ByteAt(buf, at + (k - 1)) % Base = Digit(val, k)
             /\ ByteAt(buf, at + (k - 1)) < Base <=> k = w
  <2>1. k \in 1..w
    BY <1>1, <1>2
  <2>2. ByteAt(buf, at + (k - 1)) = Digit(val, k) + (IF k < w THEN Base ELSE 0)
    BY <2>1 DEF VarSizePack, Digit
  <2>3. Digit(val, k) \in 0..Base - 1
    BY Digits
  <2>4. ASSUME NEW d \in 0..Base - 1
        PROVE  /\ (d + Base) % Base = d /\ (d + 0) % Base = d
               /\ ~(d + Base < Base) /\ d + 0 < Base
    BY BaseAssumption
  <2> HIDE DEF w
  <2>5. CASE k < w
    <3>1. ByteAt(buf, at + (k - 1)) = Digit(val, k) + Base
      BY <2>2, <2>5
    <3>2. k # w
      BY <1>1, <2>5
    <3> QED  BY Zenon, <2>3, <2>4, <3>1, <3>2
  <2>6. CASE ~(k < w)
    <3>1. ByteAt(buf, at + (k - 1)) = Digit(val, k) + 0
      BY <2>2, <2>6
    <3>2. k = w
      BY <1>1, <1>2, <2>6
    <3> QED  BY Zenon, <2>3, <2>4, <3>1, <3>2
  <2> QED  BY <2>5, <2>6
<1>3. LastRead(buf, at) = w - 1
  <2> DEFINE S == {i \in 0..3 : ByteAt(buf, at + i) < Base} \cup {4}
  <2>1. LastRead(buf, at) = Min(S)
    BY DEF LastRead, MaxRead
  <2>2. \A i \in 0..3 : i <= w - 1 => (ByteAt(buf, at + i) < Base <=> i = w - 1)
    <3> TAKE i \in 0..3
    <3>1. i + 1 \in 1..4 /\ (i + 1) - 1 = i
      OBVIOUS
    <3> QED  BY <1>1, <1>2, <3>1
  <2> HIDE DEF w
  <2>3. w - 1 \in S /\ S \in SUBSET Int
    BY <1>1, <2>2
  <2>4. \A i \in S : w - 1 <= i
    BY <1>1, <2>2
  <2> HIDE DEF S
  <2> QED  BY <2>1, <2>3, <2>4, MinIs
<1>4. VarSizeLength(buf, at) = w
  BY <1>1, <1>3 DEF VarSizeLength
<1>5. VarSizeValue(buf, at) = val
  <2> DEFINE digit(i) == IF i <= w - 1 THEN (ByteAt(buf, at + i) % Base) * Weight[i + 1] ELSE 0
  <2>1. VarSizeValue(buf, at) = digit(0) + digit(1) + digit(2) + digit(3)
    BY <1>3 DEF VarSizeValue
  <2>2. \A i \in 0..3 : digit(i) = Digit(val, i + 1) * Weight[i + 1]
    <3> TAKE i \in 0..3
    <3>1. i + 1 \in 1..4 /\ (i + 1) - 1 = i
      OBVIOUS
    <3>2. CASE i <= w - 1
      <4>1. ByteAt(buf, at + i) % Base = Digit(val, i + 1)
        BY <1>1, <1>2, <3>1, <3>2
      <4> QED  BY <3>2, <4>1
    <3>3. CASE ~(i <= w - 1)
      <4>1. Digit(val, i + 1) = 0
        BY <1>1, <3>1, <3>3, Digits
      <4>2. Weight[i + 1] \in Int
        BY <3>1, BaseAssumption, Weights
      <4> QED  BY <3>3, <4>1, <4>2
    <3> QED  BY <3>2, <3>3
  <2>3. /\ digit(0) = Digit(val, 1) * Weight[1] /\ digit(1) = Digit(val, 2) * Weight[2]
        /\ digit(2) = Digit(val, 3) * Weight[3] /\ digit(3) = Digit(val, 4) * Weight[4]
    <3> HIDE DEF digit
    <3>1. 0 + 1 = 1 /\ 1 + 1 = 2 /\ 2 + 1 = 3 /\ 3 + 1 = 4
      OBVIOUS
    <3>2. 0 \in 0..3 /\ 1 \in 0..3 /\ 2 \in 0..3 /\ 3 \in 0..3
      OBVIOUS
    <3> QED  BY Zenon, <2>2, <3>1, <3>2
  <2> HIDE DEF digit
  <2> QED  BY Zenon, <2>1, <2>3, Digits
<1> QED
  BY <1>4, <1>5 DEF Reads

-----------------------------------------------------------------------------
(* Loops                                                                   *)

(* Induction over the naturals, for a set instead of a predicate.          *)
LEMMA InductionSet ==
  ASSUME NEW S, 0 \in S, \A n \in Nat : n \in S => n + 1 \in S
  PROVE  Nat \subseteq S
<1> DEFINE R == {ss \in Nat \X Nat : ss[1] < ss[2]}
           T == Nat \ S
<1>1. IsWellFoundedOn(R, Nat)
  BY NatLessThanWellFounded DEF OpToRel
<1>2. ASSUME T # {} PROVE FALSE
  <2>1. PICK x \in T : \A y \in T : ~(<<y, x>> \in R)
    <3> HIDE DEF R
    <3> QED  BY <1>1, <1>2, WFMin
  <2>2. x \in Nat \ {0} /\ x \notin S
    OBVIOUS
  <2>3. x - 1 \in Nat /\ (x - 1) + 1 = x
    BY <2>2
  <2>4. <<x - 1, x>> \in R
    BY <2>2, <2>3
  <2>5. x - 1 \in S
    BY <2>1, <2>3, <2>4
  <2> QED  BY <2>2, <2>3, <2>5
<1> QED
  BY <1>2

(* Any set of natural numbers that is not empty has a least element.       *)
LEMMA LeastOf ==
  ASSUME NEW S \in SUBSET Nat, S # {}
  PROVE  Min(S) \in S /\ \A n \in S : Min(S) <= n
<1>1. \E m \in S : \A n \in S : m <= n
  <2> SUFFICES ASSUME \A m \in S : \E n \in S : n < m PROVE FALSE
    OBVIOUS
  <2> DEFINE T == {n \in Nat : \A k \in 0..n : k \notin S}
  <2>1. 0 \in T
    <3>1. 0 \notin S
      OBVIOUS
    <3> QED  BY <3>1
  <2>2. ASSUME NEW n \in Nat, n \in T PROVE n + 1 \in T
    <3>1. n + 1 \notin S
      BY <2>2
    <3> QED  BY <2>2, <3>1
  <2>3. Nat \subseteq T
    <3> HIDE DEF T
    <3> QED  BY Zenon, <2>1, <2>2, InductionSet
  <2>4. PICK m \in S : TRUE
    OBVIOUS
  <2>5. m \in T /\ m \in 0..m
    BY <2>3, <2>4
  <2> QED  BY <2>5
<1>2. PICK m \in S : \A n \in S : m <= n
  BY <1>1
<1>3. Min(S) = m
  <2>1. S \in SUBSET Int
    OBVIOUS
  <2> QED  BY Zenon, <1>2, <2>1, MinIs
<1> QED
  BY <1>2, <1>3

(* A loop that starts from a0 and takes step[n] in its n-th turn has a     *)
(* value after every turn.                                                 *)
Turns(r, N, A, a0, step) ==
  r \in [0..N -> A] /\ r[0] = a0 /\ \A n \in 1..N : r[n] = step[n][r[n - 1]]

LEMMA Loop ==
  ASSUME NEW N \in Nat, NEW A, NEW a0 \in A, NEW step \in [1..N -> [A -> A]]
  PROVE  \E r : Turns(r, N, A, a0, step)
<1> DEFINE Runs(r, m) == r[0] = a0 /\ \A n \in 1..m : r[n] = step[n][r[n - 1]]
           S == {m \in Nat : m <= N => \E r \in [0..m -> A] : Runs(r, m)}
<1>1. 0 \in S
  <2>1. [n \in 0..0 |-> a0] \in [0..0 -> A] /\ Runs([n \in 0..0 |-> a0], 0)
    OBVIOUS
  <2> QED  BY <2>1
<1>2. ASSUME NEW m \in Nat, m \in S PROVE m + 1 \in S
  <2> SUFFICES ASSUME m + 1 <= N PROVE \E r \in [0..m + 1 -> A] : Runs(r, m + 1)
    OBVIOUS
  <2>1. PICK r \in [0..m -> A] : Runs(r, m)
    BY <1>2
  <2> DEFINE k == [n \in 0..m + 1 |-> IF n = m + 1 THEN step[m + 1][r[m]] ELSE r[n]]
  <2>2. step[m + 1] \in [A -> A] /\ r[m] \in A
    OBVIOUS
  <2>3. k \in [0..m + 1 -> A]
    BY <2>2
  <2>4. k[0] = a0
    BY <2>1
  <2>5. ASSUME NEW n \in 1..m + 1 PROVE k[n] = step[n][k[n - 1]]
    <3>1. n - 1 \in 0..m /\ k[n - 1] = r[n - 1]
      OBVIOUS
    <3>2. CASE n = m + 1
      BY <3>1, <3>2
    <3>3. CASE n \in 1..m
      BY <2>1, <3>1, <3>3
    <3> QED  BY <3>2, <3>3
  <2> QED  BY <2>3, <2>4, <2>5
<1>3. N \in S
  <2> HIDE DEF S
  <2> QED  BY <1>1, <1>2, InductionSet
<1> QED
  BY <1>3 DEF Turns

(* One sequence behind another.                                            *)
LEMMA Concatenation ==
  ASSUME NEW a \in Seq(Int), NEW b \in Seq(Int)
  PROVE  /\ a \o b \in Seq(Int) /\ Len(a \o b) = Len(a) + Len(b)
         /\ Len(a) \in Nat /\ Len(b) \in Nat
         /\ \A k \in 1..Len(a) : (a \o b)[k] = a[k]
         /\ \A k \in 1..Len(b) : (a \o b)[Len(a) + k] = b[k]
OBVIOUS

Joined(x, y, z, whole) ==
  /\ whole \in Seq(Int) /\ Len(whole) = Len(x) + Len(y) + Len(z)
  /\ \A k \in 1..Len(x) : whole[k] = x[k]
  /\ \A k \in 1..Len(y) : whole[Len(x) + k] = y[k]
  /\ \A k \in 1..Len(z) : whole[Len(x) + Len(y) + k] = z[k]

LEMMA ThreeParts ==
  ASSUME NEW x \in Seq(Int), NEW y \in Seq(Int), NEW z \in Seq(Int)
  PROVE  Joined(x, y, z, (x \o y) \o z)
<1> DEFINE xy == x \o y
<1>1. /\ xy \in Seq(Int) /\ Len(xy) = Len(x) + Len(y)
      /\ Len(x) \in Nat /\ Len(y) \in Nat /\ Len(z) \in Nat
      /\ \A k \in 1..Len(x) : xy[k] = x[k]
      /\ \A k \in 1..Len(y) : xy[Len(x) + k] = y[k]
  OBVIOUS
<1> HIDE DEF xy
<1>2. /\ xy \o z \in Seq(Int) /\ Len(xy \o z) = Len(xy) + Len(z)
      /\ \A k \in 1..Len(xy) : (xy \o z)[k] = xy[k]
      /\ \A k \in 1..Len(z) : (xy \o z)[Len(xy) + k] = z[k]
  BY <1>1, Concatenation
<1> DEFINE xyz == xy \o z
<1>3. xyz \in Seq(Int) /\ Len(xyz) = Len(x) + Len(y) + Len(z)
  BY <1>1, <1>2
<1>4. /\ \A k \in 1..Len(xy) : xyz[k] = xy[k]
      /\ \A k \in 1..Len(z) : xyz[Len(xy) + k] = z[k]
  BY <1>2
<1> HIDE DEF xyz
<1>5. \A k \in 1..Len(x) : k \in 1..Len(xy)
  BY <1>1
<1>6. \A k \in 1..Len(y) : Len(x) + k \in 1..Len(xy)
  BY <1>1
<1>7. /\ \A k \in 1..Len(x) : xyz[k] = x[k]
      /\ \A k \in 1..Len(y) : xyz[Len(x) + k] = y[k]
  BY Zenon, <1>1, <1>4, <1>5, <1>6
<1>8. \A k \in 1..Len(z) : xyz[Len(x) + Len(y) + k] = z[k]
  BY Zenon, <1>1, <1>4
<1> QED
  BY Zenon, <1>3, <1>7, <1>8 DEF xyz, xy, Joined

(* FlattenSeq appends one sequence after the other.                        *)
LEMMA FlattenSteps ==
  ASSUME NEW T, NEW s \in Seq(Seq(T))
  PROVE  \E f \in [0..Len(s) -> Seq(T)] :
           /\ f[0] = <<>> /\ \A n \in 1..Len(s) : f[n] = f[n - 1] \o s[n]
           /\ FlattenSeq(s) = f[Len(s)]
<1> DEFINE L == Len(s)
<1>1. L \in Nat /\ \A n \in 1..L : s[n] \in Seq(T)
  OBVIOUS
<1>2. PICK f \in [0..L -> Seq(T)] :
        f[0] = <<>> /\ \A n \in 1..L : f[n] = f[n - 1] \o s[n]
  <2> DEFINE step == [n \in 1..L |-> [x \in Seq(T) |-> x \o s[n]]]
  <2>1. step \in [1..L -> [Seq(T) -> Seq(T)]]
    BY <1>1
  <2>2. <<>> \in Seq(T)
    OBVIOUS
  <2> DEFINE A == Seq(T)
             empty == <<>>
  <2> HIDE DEF L, step, A, empty
  <2>3. L \in Nat /\ empty \in A /\ step \in [1..L -> [A -> A]]
    BY <1>1, <2>1, <2>2 DEF A, empty
  <2>4. \E f : Turns(f, L, A, empty, step)
    BY Zenon, <2>3, Loop
  <2>5. PICK f \in [0..L -> Seq(T)] :
          f[0] = <<>> /\ \A n \in 1..L : f[n] = step[n][f[n - 1]]
    BY Zenon, <2>4 DEF A, empty, Turns
  <2>6. \A n \in 1..L : f[n - 1] \in Seq(T)
    BY <1>1
  <2> QED  BY <2>5, <2>6 DEF step
<1>3. CASE L = 0
  BY <1>2, <1>3 DEF FlattenSeq
<1>4. CASE L # 0
  <2> DEFINE flatten[i \in 1..L] == IF i = 1 THEN s[i] ELSE flatten[i - 1] \o s[i]
             g == [n \in 1..L |-> f[n]]
  <2>1. FlattenSeq(s) = flatten[L]
    BY <1>4 DEF FlattenSeq
  <2>2. g = [i \in 1..L |-> IF i = 1 THEN s[i] ELSE g[i - 1] \o s[i]]
    <3>1. f[1] = s[1]
      <4>1. <<>> \o s[1] = s[1] /\ 1 \in 1..L /\ 1 - 1 = 0
        BY <1>1, <1>4
      <4>2. f[1] = f[1 - 1] \o s[1]
        BY <1>2, <4>1
      <4> QED  BY <1>2, <4>1, <4>2
    <3>2. ASSUME NEW i \in 1..L, i # 1 PROVE g[i - 1] = f[i - 1]
      BY <1>1, <3>2
    <3> HIDE DEF L
    <3> QED  BY <1>2, <3>1, <3>2
  <2> HIDE DEF g
  <2>3. flatten = [i \in 1..L |-> IF i = 1 THEN s[i] ELSE flatten[i - 1] \o s[i]]
    BY <2>2
  <2> HIDE DEF flatten, L
  <2> DEFINE S == {n \in Nat : n \in 1..L => flatten[n] = f[n]}
  <2>4. 0 \in S
    OBVIOUS
  <2>5. ASSUME NEW n \in Nat, n \in S PROVE n + 1 \in S
    <3> SUFFICES ASSUME n + 1 \in 1..L PROVE flatten[n + 1] = f[n + 1]
      OBVIOUS
    <3>1. CASE n = 0
      <4>1. 0 + 1 = 1 /\ 1 \in 1..L /\ 1 - 1 = 0 /\ <<>> \o s[1] = s[1]
        BY <1>1, <3>1
      <4>2. flatten[1] = s[1]
        BY <2>3, <4>1
      <4>3. f[1] = f[1 - 1] \o s[1]
        BY <1>2, <4>1
      <4> QED  BY <1>2, <3>1, <4>1, <4>2, <4>3
    <3>2. CASE n # 0
      <4>1. flatten[n] = f[n] /\ (n + 1) - 1 = n /\ n + 1 # 1
        BY <1>1, <2>5, <3>2
      <4>2. flatten[n + 1] = flatten[n] \o s[n + 1]
        BY <2>3, <4>1
      <4>3. f[n + 1] = f[n] \o s[n + 1]
        BY <1>2, <4>1
      <4> QED  BY <4>1, <4>2, <4>3
    <3> QED  BY <3>1, <3>2
  <2>6. L \in S
    <3> HIDE DEF S
    <3> QED  BY <1>1, <2>4, <2>5, InductionSet
  <2>7. FlattenSeq(s) = f[L]
    <3>1. L \in 1..L
      BY <1>1, <1>4
    <3> QED  BY <2>1, <2>6, <3>1
  <2> QED  BY Zenon, <1>2, <2>7 DEF L
<1> QED
  BY <1>3, <1>4

(* Where the parts lie in what FlattenSeq makes of them.                   *)
SpreadOut(s, off) ==
  /\ off \in [0..Len(s) -> Nat] /\ off[0] = 0
  /\ Len(FlattenSeq(s)) = off[Len(s)]
  /\ \A n \in 1..Len(s) :
       /\ off[n] = off[n - 1] + Len(s[n])
       /\ off[n] <= off[Len(s)]
       /\ \A k \in 1..Len(s[n]) : FlattenSeq(s)[off[n - 1] + k] = s[n][k]

(* f[n] is what the first n parts make.                                    *)
Chained(s, f) ==
  /\ f[0] = <<>>
  /\ \A n \in 0..Len(s) : f[n] \in Seq(Int)
  /\ \A n \in 1..Len(s) : s[n] \in Seq(Int) /\ f[n] = f[n - 1] \o s[n]

PartIn(s, f, n, whole) ==
  /\ Len(f[n]) <= Len(f[whole])
  /\ \A k \in 1..Len(s[n]) : f[whole][Len(f[n - 1]) + k] = s[n][k]

Linked(s, f, n) ==
  /\ Len(f[n]) \in Nat /\ Len(f[n - 1]) \in Nat /\ Len(s[n]) \in Nat
  /\ Len(f[n]) = Len(f[n - 1]) + Len(s[n])
  /\ \A k \in 1..Len(f[n - 1]) : f[n][k] = f[n - 1][k]

LEMMA ChainStep ==
  ASSUME NEW s \in Seq(Seq(Int)), NEW f, Chained(s, f), NEW n \in 1..Len(s)
  PROVE  Linked(s, f, n) /\ PartIn(s, f, n, n)
<1>1. n - 1 \in 0..Len(s) /\ n \in 0..Len(s)
  OBVIOUS
<1>2. f[n] = f[n - 1] \o s[n] /\ f[n - 1] \in Seq(Int) /\ s[n] \in Seq(Int)
  BY Zenon, <1>1 DEF Chained
<1>3. /\ f[n] \in Seq(Int) /\ Len(f[n]) = Len(f[n - 1]) + Len(s[n])
      /\ Len(f[n - 1]) \in Nat /\ Len(s[n]) \in Nat
      /\ \A k \in 1..Len(f[n - 1]) : f[n][k] = f[n - 1][k]
      /\ \A k \in 1..Len(s[n]) : f[n][Len(f[n - 1]) + k] = s[n][k]
  <2>1. /\ f[n - 1] \o s[n] \in Seq(Int)
        /\ Len(f[n - 1] \o s[n]) = Len(f[n - 1]) + Len(s[n])
        /\ Len(f[n - 1]) \in Nat /\ Len(s[n]) \in Nat
        /\ \A k \in 1..Len(f[n - 1]) : (f[n - 1] \o s[n])[k] = f[n - 1][k]
        /\ \A k \in 1..Len(s[n]) : (f[n - 1] \o s[n])[Len(f[n - 1]) + k] = s[n][k]
    BY Zenon, <1>2, Concatenation
  <2> QED  BY Zenon, <1>2, <2>1
<1>4. Len(f[n]) \in Nat /\ Len(f[n]) <= Len(f[n])
  <2>1. \A x, y \in Nat : x + y \in Nat /\ x + y <= x + y
    OBVIOUS
  <2> QED  BY Zenon, <1>3, <2>1
<1> QED
  BY Zenon, <1>2, <1>3, <1>4 DEF PartIn, Linked

(* A part stays where it is.                                               *)
LEMMA PartStays ==
  ASSUME NEW s \in Seq(Seq(Int)), NEW f, Chained(s, f),
         NEW n \in 1..Len(s), NEW whole \in 1..Len(s), PartIn(s, f, n, whole - 1)
  PROVE  PartIn(s, f, n, whole)
<1>1. /\ Len(f[n - 1]) \in Nat /\ Len(s[n]) \in Nat /\ Len(f[n]) \in Nat
      /\ Len(f[n]) = Len(f[n - 1]) + Len(s[n])
  <2>1. Linked(s, f, n)
    BY Zenon, ChainStep
  <2> QED  BY Zenon, <2>1 DEF Linked
<1>2. /\ Len(f[whole - 1]) \in Nat /\ Len(s[whole]) \in Nat /\ Len(f[whole]) \in Nat
      /\ Len(f[whole]) = Len(f[whole - 1]) + Len(s[whole])
      /\ \A k \in 1..Len(f[whole - 1]) : f[whole][k] = f[whole - 1][k]
  <2>1. Linked(s, f, whole)
    BY Zenon, ChainStep
  <2> QED  BY Zenon, <2>1 DEF Linked
<1>3. /\ Len(f[n]) <= Len(f[whole - 1])
      /\ \A k \in 1..Len(s[n]) : f[whole - 1][Len(f[n - 1]) + k] = s[n][k]
  BY DEF PartIn
<1>4. ASSUME NEW b \in Nat, NEW c \in Nat, NEW d \in Nat, NEW e \in Nat, b + c <= d
      PROVE  b + c <= d + e /\ \A k \in 1..c : b + k \in 1..d
  BY <1>4
<1>5. Len(f[n - 1]) + Len(s[n]) <= Len(f[whole - 1])
  BY Zenon, <1>1, <1>3
<1>6. /\ Len(f[n]) <= Len(f[whole])
      /\ \A k \in 1..Len(s[n]) : Len(f[n - 1]) + k \in 1..Len(f[whole - 1])
  <2>1. /\ Len(f[n - 1]) + Len(s[n]) <= Len(f[whole - 1]) + Len(s[whole])
        /\ \A k \in 1..Len(s[n]) : Len(f[n - 1]) + k \in 1..Len(f[whole - 1])
    BY Zenon, <1>1, <1>2, <1>4, <1>5
  <2> QED  BY Zenon, <1>1, <1>2, <2>1
<1> QED
  BY Zenon, <1>2, <1>3, <1>6 DEF PartIn

LEMMA PartsFound ==
  ASSUME NEW s \in Seq(Seq(Int)), NEW f, Chained(s, f), NEW n \in 1..Len(s)
  PROVE  PartIn(s, f, n, Len(s))
<1> DEFINE S == {m \in Nat : n <= m /\ m <= Len(s) => PartIn(s, f, n, m)}
<1>1. Len(s) \in Nat /\ n \in Nat /\ n >= 1 /\ n <= Len(s)
  OBVIOUS
<1>2. 0 \in S
  BY <1>1
<1>3. ASSUME NEW m \in Nat, m \in S PROVE m + 1 \in S
  <2> SUFFICES ASSUME n <= m + 1, m + 1 <= Len(s) PROVE PartIn(s, f, n, m + 1)
    OBVIOUS
  <2>1. CASE n = m + 1
    BY Zenon, <2>1, ChainStep
  <2>2. CASE n # m + 1
    <3>1. n <= m /\ m <= Len(s) /\ m + 1 \in 1..Len(s) /\ (m + 1) - 1 = m
      BY <1>1, <2>2
    <3>2. PartIn(s, f, n, m)
      BY <1>3, <3>1
    <3> QED  BY Zenon, <3>1, <3>2, PartStays
  <2> QED  BY <2>1, <2>2
<1>4. Len(s) \in S
  <2> HIDE DEF S
  <2> QED  BY <1>1, <1>2, <1>3, InductionSet
<1> QED
  BY <1>1, <1>4

LEMMA Spreads ==
  ASSUME NEW s \in Seq(Seq(Int))
  PROVE  FlattenSeq(s) \in Seq(Int) /\ \E off : SpreadOut(s, off)
<1>1. Len(s) \in Nat /\ \A n \in 1..Len(s) : s[n] \in Seq(Int)
  OBVIOUS
<1>2. PICK f \in [0..Len(s) -> Seq(Int)] :
        /\ f[0] = <<>> /\ \A n \in 1..Len(s) : f[n] = f[n - 1] \o s[n]
        /\ FlattenSeq(s) = f[Len(s)]
  BY FlattenSteps
<1>3. \A n \in 0..Len(s) : f[n] \in Seq(Int)
  BY <1>2
<1>4. Chained(s, f)
  BY <1>1, <1>2, <1>3 DEF Chained
<1> DEFINE off == [n \in 0..Len(s) |-> Len(f[n])]
<1>5. \A n \in 0..Len(s) : off[n] = Len(f[n]) /\ Len(f[n]) \in Nat
  BY <1>3
<1>6. off \in [0..Len(s) -> Nat]
  BY <1>5
<1>7. off[0] = 0 /\ Len(s) \in 0..Len(s)
  <2>1. Len(f[0]) = 0
    BY <1>2
  <2> QED  BY <1>1, <2>1
<1> HIDE DEF off
<1>8. \A n \in 1..Len(s) : n \in 0..Len(s) /\ n - 1 \in 0..Len(s)
  BY <1>1
<1>9. ASSUME NEW n \in 1..Len(s)
      PROVE
        /\ Len(f[n]) = Len(f[n - 1]) + Len(s[n])
        /\ Len(f[n]) <= Len(f[Len(s)])
        /\ \A k \in 1..Len(s[n]) : FlattenSeq(s)[Len(f[n - 1]) + k] = s[n][k]
  <2>1. Len(f[n]) = Len(f[n - 1]) + Len(s[n])
    BY Zenon, <1>4, ChainStep DEF Linked
  <2>2. PartIn(s, f, n, Len(s))
    BY Zenon, <1>4, PartsFound
  <2> QED  BY Zenon, <1>2, <2>1, <2>2 DEF PartIn
<1>10. \A n \in 1..Len(s) :
        /\ off[n] = off[n - 1] + Len(s[n])
        /\ off[n] <= off[Len(s)]
        /\ \A k \in 1..Len(s[n]) : FlattenSeq(s)[off[n - 1] + k] = s[n][k]
  BY Zenon, <1>5, <1>7, <1>8, <1>9
<1>11. FlattenSeq(s) \in Seq(Int) /\ Len(FlattenSeq(s)) = off[Len(s)]
  BY Zenon, <1>2, <1>3, <1>5, <1>7
<1>12. SpreadOut(s, off)
  BY Zenon, <1>6, <1>7, <1>10, <1>11 DEF SpreadOut
<1> QED
  BY <1>11, <1>12

(* Its equations have one solution.                                        *)
Solves(g, N, A, a0, step) ==
  /\ g = [n \in 0..N |-> g[n]] /\ g[0] = a0
  /\ \A n \in 1..N : g[n - 1] \in A => g[n] = step[n][g[n - 1]]

LEMMA OneLoop ==
  ASSUME NEW N \in Nat, NEW A, NEW a0, NEW step, NEW r, Turns(r, N, A, a0, step),
         NEW g, Solves(g, N, A, a0, step)
  PROVE  g = r
<1>1. r \in [0..N -> A] /\ r[0] = a0 /\ \A n \in 1..N : r[n] = step[n][r[n - 1]]
  BY Zenon DEF Turns
<1> DEFINE S == {n \in Nat : n <= N => g[n] = r[n]}
<1>2. 0 \in S
  BY <1>1 DEF Solves
<1>3. ASSUME NEW n \in Nat, n \in S PROVE n + 1 \in S
  <2> SUFFICES ASSUME n + 1 <= N PROVE g[n + 1] = r[n + 1]
    OBVIOUS
  <2>1. n \in 0..N /\ n + 1 \in 1..N /\ (n + 1) - 1 = n /\ g[n] = r[n]
    BY <1>3
  <2>2. r[n] \in A
    BY <1>1, <2>1
  <2> QED  BY ZenonT(40), <1>1, <2>1, <2>2 DEF Solves
<1>4. \A n \in 0..N : g[n] = r[n]
  <2>1. Nat \subseteq S
    <3> HIDE DEF S
    <3> QED  BY Zenon, <1>2, <1>3, InductionSet
  <2> QED  BY <2>1
<1>5. r = [n \in 0..N |-> r[n]]
  BY <1>1
<1> QED
  BY Zenon, <1>4, <1>5 DEF Solves

-----------------------------------------------------------------------------
(* poly_packet_pack                                                        *)

(* A field that can be packed: its block holds its content, one of a fixed *)
(* size has that size, and four bytes are enough for any other.            *)
CanBePacked(i, f) ==
  /\ f \in [mPresent : BOOLEAN, mSize : Nat, mData : Seq(Int)]
  /\ f.mSize <= Len(f.mData)
  /\ IF Fields[i].mVarLen THEN f.mPresent => f.mSize < Weight[5]
                          ELSE f.mSize = FullSize(Fields[i])

Packable(fields) ==
  /\ DOMAIN fields = FieldIds
  /\ \A i \in FieldIds : CanBePacked(i, fields[i])

(* The fields of a descriptor are numbered from one.                       *)
LEMMA FieldNumbers ==
  /\ Len(Fields) \in Nat /\ FieldIds = 1..Len(Fields)
  /\ \A i \in FieldIds : /\ Fields[i].mVarLen \in BOOLEAN /\ FullSize(Fields[i]) \in Nat
                         /\ i - 1 \in Nat
<1> DEFINE R == [mDataType : DOMAIN ObjSize, mLen : Nat, mObjSize : Nat \ {0},
                 mVarLen : BOOLEAN, mNullTerm : BOOLEAN, mFormat : STRING]
<1>1. Fields \in Seq(R)
  BY CodecAssumption
<1>2. \A r \in R : r.mVarLen \in BOOLEAN /\ r.mLen \in Nat /\ r.mObjSize \in Nat
  OBVIOUS
<1> HIDE DEF R
<1>3. Len(Fields) \in Nat /\ FieldIds = 1..Len(Fields) /\ \A i \in FieldIds : Fields[i] \in R
  BY <1>1 DEF FieldIds
<1>4. \A m, n \in Nat : m * n \in Nat
  OBVIOUS
<1>5. \A i \in FieldIds : FullSize(Fields[i]) \in Nat
  BY Zenon, <1>2, <1>3, <1>4 DEF FullSize
<1>6. \A i \in FieldIds : i - 1 \in Nat
  BY <1>3
<1> QED
  BY <1>2, <1>3, <1>5, <1>6

SizeWidth(i, f) == IF Fields[i].mVarLen THEN Width(f.mSize) ELSE 0

(* A number is packed into the bytes counted by Width.                     *)
LEMMA PackedNumber ==
  ASSUME NEW val \in Nat
  PROVE  VarSizePack(val) \in Seq(Int) /\ Len(VarSizePack(val)) = Width(val)
<1>1. Width(val) \in 1..5
  BY Widths DEF MaxWidth
<1>2. \A i \in 1..5 : Weight[i] \in Nat \ {0}
  <2>1. \A x \in Nat \ {0} : x * Base \in Nat \ {0}
    BY BaseAssumption
  <2>2. Base \in Nat \ {0}
    BY BaseAssumption
  <2>3. Base * Base \in Nat \ {0} /\ Base * Base * Base \in Nat \ {0}
        /\ Base * Base * Base * Base \in Nat \ {0}
    BY Zenon, <2>1, <2>2
  <2> QED  BY <2>2, <2>3, Weights
<1>3. ASSUME NEW i \in 1..Width(val)
      PROVE  ((val \div Weight[i]) % Base) + (IF i < Width(val) THEN Base ELSE 0) \in Int
  <2>1. Weight[i] \in Nat \ {0}
    BY <1>1, <1>2
  <2>2. val \div Weight[i] \in Int
    BY <2>1
  <2>3. (val \div Weight[i]) % Base \in Int
    BY <2>2, BaseAssumption
  <2> QED  BY <2>3, BaseAssumption
<1> QED
  BY <1>1, <1>3 DEF VarSizePack

(* Identifier, size if it may vary, and content, one behind the other.     *)
Composed(i, f, packed) ==
  /\ packed \in Seq(Int) /\ Width(i - 1) \in 1..5 /\ SizeWidth(i, f) \in 0..5
  /\ Len(packed) = Width(i - 1) + SizeWidth(i, f) + f.mSize
  /\ \A k \in 1..Width(i - 1) : packed[k] = VarSizePack(i - 1)[k]
  /\ \A k \in 1..SizeWidth(i, f) : packed[Width(i - 1) + k] = VarSizePack(f.mSize)[k]
  /\ \A k \in 1..f.mSize : packed[Width(i - 1) + SizeWidth(i, f) + k] = f.mData[k]

LEMMA PackedFieldIs ==
  ASSUME NEW i \in FieldIds, NEW f, CanBePacked(i, f), f.mPresent
  PROVE  Composed(i, f, PackedField(i, f))
<1> DEFINE a == VarSizePack(i - 1)
           b == IF Fields[i].mVarLen THEN VarSizePack(f.mSize) ELSE <<>>
           c == Content(f)
           w1 == Width(i - 1)
           w2 == SizeWidth(i, f)
<1>1. a \in Seq(Int) /\ Len(a) = w1 /\ w1 \in 1..5
  <2>1. i - 1 \in Nat
    BY FieldNumbers
  <2> QED  BY <2>1, PackedNumber, Widths DEF MaxWidth
<1>2. b \in Seq(Int) /\ Len(b) = w2 /\ w2 \in 0..5
  <2>1. CASE Fields[i].mVarLen
    BY <2>1, PackedNumber, Widths DEF CanBePacked, SizeWidth, MaxWidth
  <2>2. CASE ~Fields[i].mVarLen
    BY <2>2 DEF SizeWidth
  <2> QED  BY <2>1, <2>2
<1>3. c \in Seq(Int) /\ Len(c) = f.mSize /\ \A k \in 1..f.mSize : c[k] = f.mData[k]
  BY DEF CanBePacked, Content
<1>4. PackedField(i, f) = a \o b \o c
  BY DEF PackedField
<1>5. f.mSize \in Nat
  BY DEF CanBePacked
<1>6. \A k \in 1..w2 : Fields[i].mVarLen /\ b[k] = VarSizePack(f.mSize)[k]
  BY DEF SizeWidth
<1> HIDE DEF a, b, c, w1, w2
<1>7. /\ (a \o b) \o c \in Seq(Int) /\ Len((a \o b) \o c) = w1 + w2 + f.mSize
      /\ \A k \in 1..w1 : ((a \o b) \o c)[k] = a[k]
      /\ \A k \in 1..w2 : ((a \o b) \o c)[w1 + k] = b[k]
      /\ \A k \in 1..f.mSize : ((a \o b) \o c)[w1 + w2 + k] = c[k]
  <2>1. Joined(a, b, c, (a \o b) \o c)
    BY Zenon, <1>1, <1>2, <1>3, ThreeParts
  <2>2. Len(a) = w1 /\ Len(b) = w2 /\ Len(c) = f.mSize
    BY <1>1, <1>2, <1>3
  <2> QED  BY Zenon, <2>1, <2>2 DEF Joined
<1>8. /\ \A k \in 1..w1 : PackedField(i, f)[k] = a[k]
      /\ \A k \in 1..w2 : PackedField(i, f)[w1 + k] = VarSizePack(f.mSize)[k]
      /\ \A k \in 1..f.mSize : PackedField(i, f)[w1 + w2 + k] = f.mData[k]
  BY Zenon, <1>3, <1>4, <1>6, <1>7
<1>9. PackedField(i, f) \in Seq(Int) /\ Len(PackedField(i, f)) = w1 + w2 + f.mSize
  BY Zenon, <1>4, <1>7
<1> QED
  BY Zenon, <1>1, <1>2, <1>8, <1>9 DEF a, w1, w2, Composed

(* A field that is absent leaves no trace.                                 *)
LEMMA AbsentField ==
  ASSUME NEW i, NEW f, ~f.mPresent
  PROVE  PackedField(i, f) = <<>>
BY DEF PackedField

(* Where the bytes of each field lie in the packed data.                   *)
Layout(fields, off) ==
  /\ off \in [0..Len(Fields) -> Nat] /\ off[0] = 0
  /\ Len(PackedData(fields)) = off[Len(Fields)]
  /\ \A n \in 1..Len(Fields) :
       /\ off[n] = off[n - 1] + Len(PackedField(n, fields[n]))
       /\ off[n] <= off[Len(Fields)]
       /\ \A k \in 1..Len(PackedField(n, fields[n])) :
            PackedData(fields)[off[n - 1] + k] = PackedField(n, fields[n])[k]

LEMMA LayoutExists ==
  ASSUME NEW fields, Packable(fields)
  PROVE  PackedData(fields) \in Seq(Int) /\ \E off : Layout(fields, off)
<1> DEFINE N == Len(Fields)
           s == [i \in FieldIds |-> PackedField(i, fields[i])]
<1>1. N \in Nat /\ FieldIds = 1..N
  BY FieldNumbers
<1>2. ASSUME NEW i \in FieldIds
      PROVE  PackedField(i, fields[i]) \in Seq(Int)
  <2>1. CanBePacked(i, fields[i])
    BY DEF Packable
  <2>2. CASE fields[i].mPresent
    BY Zenon, <2>1, <2>2, PackedFieldIs DEF Composed
  <2>3. CASE ~fields[i].mPresent
    <3>1. PackedField(i, fields[i]) = <<>>
      BY Zenon, <2>3, AbsentField
    <3> QED  BY <3>1
  <2> QED  BY <2>2, <2>3
<1>3. s \in Seq(Seq(Int)) /\ Len(s) = N /\ \A n \in 1..N : s[n] = PackedField(n, fields[n])
  <2> HIDE DEF N
  <2>1. s \in [1..N -> Seq(Int)]
    BY <1>1, <1>2
  <2> QED  BY <1>1, <2>1
<1>4. PackedData(fields) = FlattenSeq(s)
  BY DEF PackedData
<1>5. FlattenSeq(s) \in Seq(Int) /\ \E off : SpreadOut(s, off)
  <2> HIDE DEF s
  <2> QED  BY Zenon, <1>3, Spreads
<1>7. ASSUME NEW off, SpreadOut(s, off) PROVE Layout(fields, off)
  BY ZenonT(40), <1>3, <1>4, <1>7 DEF SpreadOut, Layout
<1> QED
  BY Zenon, <1>4, <1>5, <1>7

-----------------------------------------------------------------------------
(* poly_packet_parse_buffer                                                *)

(* A buffer that starts with the packed fields.                            *)
StartsWith(data, fields) ==
  \A k \in 1..Len(PackedData(fields)) : ByteAt(data, k) = PackedData(fields)[k]

(* Where the parser is when it comes to field n, and what lies there.      *)
PartLies(data, from, part, to, end) ==
  /\ from \in Nat /\ to \in Nat /\ end \in Nat /\ to <= end
  /\ Len(part) \in Nat /\ to = from + Len(part)
  /\ \A k \in 1..Len(part) : ByteAt(data, from + k) = part[k]

LEMMA PartInBuffer ==
  ASSUME NEW fields, Packable(fields), NEW off, Layout(fields, off),
         NEW data, StartsWith(data, fields), NEW n \in FieldIds
  PROVE  PartLies(data, off[n - 1], PackedField(n, fields[n]), off[n], Len(PackedData(fields)))
<1>1. n \in 1..Len(Fields) /\ n - 1 \in 0..Len(Fields) /\ n \in 0..Len(Fields)
  <2>1. Len(Fields) \in Nat /\ n \in 1..Len(Fields)
    BY FieldNumbers
  <2> QED  BY <2>1
<1>2. /\ off[n - 1] \in Nat /\ off[n] \in Nat
      /\ off[n] <= Len(PackedData(fields))
      /\ off[n] = off[n - 1] + Len(PackedField(n, fields[n]))
      /\ \A k \in 1..Len(PackedField(n, fields[n])) :
           PackedData(fields)[off[n - 1] + k] = PackedField(n, fields[n])[k]
  <2>1. off \in [0..Len(Fields) -> Nat]
    BY DEF Layout
  <2>2. off[n - 1] \in Nat /\ off[n] \in Nat
    BY <1>1, <2>1
  <2> QED  BY Zenon, <1>1, <2>2 DEF Layout
<1>3. PackedField(n, fields[n]) \in Seq(Int)
  <2>1. CanBePacked(n, fields[n])
    BY DEF Packable
  <2>2. CASE fields[n].mPresent
    BY Zenon, <2>1, <2>2, PackedFieldIs DEF Composed
  <2>3. CASE ~fields[n].mPresent
    <3>1. PackedField(n, fields[n]) = <<>>
      BY Zenon, <2>3, AbsentField
    <3> QED  BY <3>1
  <2> QED  BY <2>2, <2>3
<1>4. Len(PackedField(n, fields[n])) \in Nat /\ Len(PackedData(fields)) \in Nat
  <2>1. PackedData(fields) \in Seq(Int)
    BY Zenon, LayoutExists
  <2> QED  BY <1>3, <2>1
<1>5. \A k \in 1..Len(PackedField(n, fields[n])) :
        off[n - 1] + k \in 1..Len(PackedData(fields))
  <2> DEFINE a == off[n - 1]
             b == Len(PackedField(n, fields[n]))
             c == Len(PackedData(fields))
  <2>1. a \in Nat /\ b \in Nat /\ c \in Nat /\ a + b <= c
    BY Zenon, <1>2, <1>4
  <2> HIDE DEF a, b, c
  <2>2. \A k \in 1..b : a + k \in 1..c
    BY <2>1
  <2> QED  BY <2>2 DEF a, b, c
<1> QED
  BY Zenon, <1>2, <1>4, <1>5 DEF StartsWith, PartLies

(* The parser finds the identifier, the size and the content of a field    *)
(* that was packed, and the end of the field.                              *)
FoundAt(data, at, n, f, end) ==
  LET behind == at + VarSizeLength(data, at)
  IN  /\ VarSizeValue(data, at) = n - 1
      /\ ReadSize(n, data, behind) = f.mSize
      /\ ContentAt(n, data, behind) + f.mSize = end
      /\ Bytes(data, ContentAt(n, data, behind), f.mSize) = Content(f)

LEMMA FieldReadBack ==
  ASSUME NEW fields, Packable(fields), NEW off, Layout(fields, off),
         NEW data, StartsWith(data, fields), NEW n \in FieldIds,
         fields[n].mPresent, n - 1 < Weight[5]
  PROVE  /\ FoundAt(data, off[n - 1] + 1, n, fields[n], off[n] + 1)
         /\ off[n - 1] < off[n]
<1> DEFINE f == fields[n]
           from == off[n - 1]
           packed == PackedField(n, f)
           w1 == Width(n - 1)
           w2 == SizeWidth(n, f)
<1>1. CanBePacked(n, f)
  BY DEF Packable
<1>2. /\ from \in Nat /\ off[n] \in Nat /\ off[n] = from + Len(packed)
      /\ \A k \in 1..Len(packed) : ByteAt(data, from + k) = packed[k]
  <2>1. PartLies(data, from, packed, off[n], Len(PackedData(fields)))
    BY Zenon, PartInBuffer
  <2> QED  BY Zenon, <2>1 DEF PartLies
<1>3. /\ w1 \in 1..5 /\ w2 \in 0..5 /\ Len(packed) = w1 + w2 + f.mSize
      /\ \A k \in 1..w1 : packed[k] = VarSizePack(n - 1)[k]
      /\ \A k \in 1..w2 : packed[w1 + k] = VarSizePack(f.mSize)[k]
      /\ \A k \in 1..f.mSize : packed[w1 + w2 + k] = f.mData[k]
  <2>1. Composed(n, f, packed)
    BY Zenon, <1>1, PackedFieldIs
  <2> QED  BY Zenon, <2>1 DEF Composed
<1>4. /\ f.mSize \in Nat /\ n - 1 \in Nat
      /\ f.mData \in Seq(Int) /\ f.mSize <= Len(f.mData)
      /\ Fields[n].mVarLen => f.mSize < Weight[5] /\ w2 = Width(f.mSize)
      /\ ~Fields[n].mVarLen => w2 = 0 /\ f.mSize = FullSize(Fields[n])
  <2>1. n - 1 \in Nat
    BY FieldNumbers
  <2>2. f.mPresent /\ f \in [mPresent : BOOLEAN, mSize : Nat, mData : Seq(Int)]
    BY <1>1 DEF CanBePacked
  <2>3. f.mSize \in Nat /\ f.mData \in Seq(Int)
    BY <2>2
  <2> HIDE DEF f
  <2> QED  BY Zenon, <1>1, <2>1, <2>2, <2>3 DEF CanBePacked, SizeWidth, w2
<1> HIDE DEF f, from, packed, w1, w2
<1>5. /\ \A k \in 1..w1 : k \in 1..Len(packed)
      /\ \A k \in 1..w2 : w1 + k \in 1..Len(packed)
      /\ \A k \in 1..f.mSize : w1 + w2 + k \in 1..Len(packed)
  <2> DEFINE size == f.mSize
             length == Len(packed)
  <2>1. w1 \in 1..5 /\ w2 \in 0..5 /\ size \in Nat /\ length = w1 + w2 + size
    BY Zenon, <1>3, <1>4
  <2> HIDE DEF size, length
  <2>2. /\ \A k \in 1..w1 : k \in 1..length
        /\ \A k \in 1..w2 : w1 + k \in 1..length
        /\ \A k \in 1..size : w1 + w2 + k \in 1..length
    BY <2>1
  <2> QED  BY Zenon, <2>2 DEF size, length
<1>6. /\ \A k \in 1..w1 : ByteAt(data, from + k) = VarSizePack(n - 1)[k]
      /\ \A k \in 1..w2 : ByteAt(data, from + (w1 + k)) = VarSizePack(f.mSize)[k]
      /\ \A k \in 1..f.mSize : ByteAt(data, from + (w1 + w2 + k)) = f.mData[k]
  BY Zenon, <1>2, <1>3, <1>5
<1>7. VarSizeLength(data, from + 1) = w1 /\ VarSizeValue(data, from + 1) = n - 1
  <2>1. \A k \in 1..w1 : (from + 1) + (k - 1) = from + k
    BY <1>2, <1>3
  <2>2. \A k \in 1..Width(n - 1) : ByteAt(data, (from + 1) + (k - 1)) = VarSizePack(n - 1)[k]
    BY Zenon, <1>6, <2>1 DEF w1
  <2>3. from + 1 \in Int
    BY <1>2
  <2>4. n - 1 < Weight[5] /\ n - 1 \in Nat
    BY <1>4
  <2>5. Reads(data, from + 1, n - 1)
    BY Zenon, <2>2, <2>3, <2>4, ReadBack
  <2> QED  BY Zenon, <2>5 DEF w1, Reads
<1> DEFINE behind == (from + 1) + w1
<1>8. /\ ReadSize(n, data, behind) = f.mSize
      /\ ContentAt(n, data, behind) = from + (w1 + w2) + 1
  <2>1. CASE Fields[n].mVarLen
    <3>1. ASSUME NEW x \in Nat, NEW y \in 1..5, NEW z \in 0..5
          PROVE  /\ \A k \in 1..z : ((x + 1) + y) + (k - 1) = x + (y + k)
                 /\ (x + 1) + y \in Int /\ ((x + 1) + y) + z = x + (y + z) + 1
      OBVIOUS
    <3>2. /\ \A k \in 1..w2 : behind + (k - 1) = from + (w1 + k)
          /\ behind \in Int /\ behind + w2 = from + (w1 + w2) + 1
      BY Zenon, <1>2, <1>3, <3>1
    <3> HIDE DEF behind
    <3>3. \A k \in 1..Width(f.mSize) : ByteAt(data, behind + (k - 1)) = VarSizePack(f.mSize)[k]
      BY Zenon, <1>4, <1>6, <2>1, <3>2
    <3>4. VarSizeLength(data, behind) = w2 /\ VarSizeValue(data, behind) = f.mSize
      <4>1. f.mSize \in Nat /\ f.mSize < Weight[5] /\ behind \in Int
        BY Zenon, <1>4, <2>1, <3>2
      <4>2. Reads(data, behind, f.mSize)
        BY Zenon, <4>1, <3>3, ReadBack
      <4> QED  BY Zenon, <1>4, <2>1, <4>2 DEF Reads
    <3> QED  BY Zenon, <2>1, <3>2, <3>4 DEF ReadSize, ContentAt
  <2>2. CASE ~Fields[n].mVarLen
    <3>1. behind = from + (w1 + w2) + 1
      BY <1>2, <1>3, <1>4, <2>2
    <3> HIDE DEF behind
    <3> QED  BY Zenon, <1>4, <2>2, <3>1 DEF ReadSize, ContentAt
  <2> QED  BY <2>1, <2>2
<1>9. from + (w1 + w2) + 1 + f.mSize = off[n] + 1 /\ from < off[n]
  <2>1. ASSUME NEW x \in Nat, NEW y \in 1..5, NEW z \in 0..5, NEW v \in Nat
        PROVE  /\ x + (y + z) + 1 + v = x + (y + z + v) + 1
               /\ x < x + (y + z + v)
    OBVIOUS
  <2>2. off[n] = from + (w1 + w2 + f.mSize)
    BY Zenon, <1>2, <1>3
  <2>3. /\ from + (w1 + w2) + 1 + f.mSize = from + (w1 + w2 + f.mSize) + 1
        /\ from < from + (w1 + w2 + f.mSize)
    BY Zenon, <1>2, <1>3, <1>4, <2>1
  <2> QED  BY Zenon, <2>2, <2>3
<1>10. Bytes(data, from + (w1 + w2) + 1, f.mSize) = Content(f)
  <2>1. \A k \in 1..f.mSize : from + (w1 + w2) + 1 + k - 1 = from + (w1 + w2 + k)
    BY <1>2, <1>3, <1>4
  <2>2. \A k \in 1..f.mSize : ByteAt(data, from + (w1 + w2) + 1 + k - 1) = f.mData[k]
    BY Zenon, <1>6, <2>1
  <2>3. Content(f) = [k \in 1..f.mSize |-> f.mData[k]]
    BY <1>4 DEF Content
  <2> QED  BY <2>2, <2>3 DEF Bytes
<1>11. FoundAt(data, from + 1, n, f, off[n] + 1)
  <2> HIDE DEF behind
  <2>1. behind = (from + 1) + VarSizeLength(data, from + 1)
    BY Zenon, <1>7 DEF behind
  <2> QED  BY Zenon, <1>7, <1>8, <1>9, <1>10, <2>1 DEF FoundAt
<1> QED
  BY Zenon, <1>9, <1>11 DEF f, from

(* The packet the parser has after the first n fields.                     *)
ParsedField(fields, i) == Parsed(FieldInit(Fields[i]), Content(fields[i]))

After(fields, off, n) ==
  [fields |-> [i \in FieldIds |-> IF i <= n /\ fields[i].mPresent
                                  THEN ParsedField(fields, i) ELSE FieldInit(Fields[i])],
   at |-> off[n] + 1,
   result |-> IF off[n] > 0 /\ off[n] = Len(PackedData(fields)) THEN "read" ELSE "reading"]

(* One turn of the loop reads one field that is present.                   *)
LEMMA TurnReadsField ==
  ASSUME NEW fields, Packable(fields), NEW off, Layout(fields, off),
         NEW data, StartsWith(data, fields), NEW n \in FieldIds,
         fields[n].mPresent, n - 1 < Weight[5]
  PROVE  ReadField(After(fields, off, n - 1), data, Len(PackedData(fields)))
           = After(fields, off, n)
<1> DEFINE r == After(fields, off, n - 1)
           len == Len(PackedData(fields))
           behind == r.at + VarSizeLength(data, r.at)
<1>1. r.at = off[n - 1] + 1
  BY DEF After
<1>2. FoundAt(data, r.at, n, fields[n], off[n] + 1) /\ off[n - 1] < off[n]
  BY Zenon, <1>1, FieldReadBack
<1>3. off[n - 1] \in Nat /\ off[n] \in Nat /\ len \in Nat /\ off[n] <= len
  <2>1. PartLies(data, off[n - 1], PackedField(n, fields[n]), off[n], len)
    BY Zenon, PartInBuffer
  <2> QED  BY Zenon, <2>1 DEF PartLies
<1>4. n \in Nat /\ (n - 1) + 1 = n
  BY FieldNumbers
<1>5. r.result = "reading"
  <2>1. off[n - 1] # len
    BY <1>2, <1>3
  <2> QED  BY Zenon, <2>1 DEF After
<1>6. /\ VarSizeValue(data, r.at) + 1 = n
      /\ ReadSize(n, data, behind) = fields[n].mSize
      /\ ContentAt(n, data, behind) + fields[n].mSize = off[n] + 1
      /\ Bytes(data, ContentAt(n, data, behind), fields[n].mSize) = Content(fields[n])
  <2>1. VarSizeValue(data, r.at) = n - 1
    BY Zenon, <1>2 DEF FoundAt
  <2> HIDE DEF r
  <2>2. VarSizeValue(data, r.at) + 1 = n
    BY Zenon, <1>4, <2>1
  <2> QED  BY Zenon, <1>2, <2>2 DEF FoundAt
<1>7. r.fields = [i \in FieldIds |-> IF i <= n - 1 /\ fields[i].mPresent
                                    THEN ParsedField(fields, i) ELSE FieldInit(Fields[i])]
  BY DEF After
<1> HIDE DEF r, len, behind
<1>8. [r.fields EXCEPT ![n] = Parsed(r.fields[n], Content(fields[n]))]
        = After(fields, off, n).fields
  <2>1. r.fields[n] = FieldInit(Fields[n])
    <3>1. ~(n <= n - 1)
      BY <1>4
    <3> QED  BY <1>7, <3>1
  <2>2. \A i \in FieldIds : i # n => (i <= n - 1 <=> i <= n)
    <3>1. FieldIds \subseteq Nat
      BY FieldNumbers
    <3> QED  BY <1>4, <3>1
  <2>3. n <= n
    BY <1>4
  <2>4. After(fields, off, n).fields
          = [i \in FieldIds |-> IF i <= n /\ fields[i].mPresent
                                THEN ParsedField(fields, i) ELSE FieldInit(Fields[i])]
    BY DEF After
  <2> QED  BY <1>7, <2>1, <2>2, <2>3, <2>4 DEF ParsedField
<1>9. ~(off[n] + 1 > len + 1) /\ (off[n] + 1 = len + 1 <=> off[n] > 0 /\ off[n] = len)
  BY <1>2, <1>3
<1>10. ReadField(r, data, len)
         = [fields |-> [r.fields EXCEPT ![n] = Parsed(r.fields[n], Content(fields[n]))],
            at |-> off[n] + 1,
            result |-> IF off[n] + 1 = len + 1 THEN "read" ELSE "reading"]
  BY <1>5, <1>6, <1>9 DEF ReadField, behind
<1>11. After(fields, off, n)
         = [fields |-> After(fields, off, n).fields, at |-> off[n] + 1,
            result |-> IF off[n] > 0 /\ off[n] = len THEN "read" ELSE "reading"]
  BY DEF After, len
<1>12. (IF off[n] + 1 = len + 1 THEN "read" ELSE "reading")
         = (IF off[n] > 0 /\ off[n] = len THEN "read" ELSE "reading")
  BY Zenon, <1>9
<1>13. ReadField(r, data, len) = After(fields, off, n)
  BY Zenon, <1>8, <1>10, <1>11, <1>12
<1> QED
  BY Zenon, <1>13 DEF r, len

(* An absent field takes no turn.                                          *)
LEMMA AbsentTakesNoTurn ==
  ASSUME NEW fields, Packable(fields), NEW off, Layout(fields, off),
         NEW n \in FieldIds, ~fields[n].mPresent
  PROVE  After(fields, off, n - 1) = After(fields, off, n)
<1>1. off[n] = off[n - 1]
  <2>1. n \in 1..Len(Fields) /\ n - 1 \in 0..Len(Fields)
    <3>1. Len(Fields) \in Nat /\ n \in 1..Len(Fields)
      BY FieldNumbers
    <3> QED  BY <3>1
  <2>2. off[n] = off[n - 1] + Len(PackedField(n, fields[n]))
    BY Zenon, <2>1 DEF Layout
  <2>3. Len(PackedField(n, fields[n])) = 0
    <3>1. PackedField(n, fields[n]) = <<>>
      BY Zenon, AbsentField
    <3> QED  BY <3>1
  <2>4. off[n - 1] \in Nat
    <3>1. off \in [0..Len(Fields) -> Nat]
      BY Zenon DEF Layout
    <3> QED  BY <2>1, <3>1
  <2> QED  BY <2>2, <2>3, <2>4
<1>2. \A i \in FieldIds : (i <= n - 1 /\ fields[i].mPresent) <=> (i <= n /\ fields[i].mPresent)
  <2>1. FieldIds \subseteq Nat
    BY FieldNumbers
  <2>2. \A i \in FieldIds : i # n => (i <= n - 1 <=> i <= n)
    BY <2>1
  <2> QED  BY Zenon, <2>2
<1>3. [i \in FieldIds |-> IF i <= n - 1 /\ fields[i].mPresent
                          THEN ParsedField(fields, i) ELSE FieldInit(Fields[i])]
        = [i \in FieldIds |-> IF i <= n /\ fields[i].mPresent
                              THEN ParsedField(fields, i) ELSE FieldInit(Fields[i])]
  BY <1>2
<1> QED
  BY Zenon, <1>1, <1>3 DEF After

(* The loop has a state after every turn.                                  *)
Started == [fields |-> Built, at |-> 1, result |-> "reading"]

ReadingTurns(r, m, data, len) ==
  r = [n \in 0..m |-> IF n = 0 THEN Started ELSE ReadField(r[n - 1], data, len)]

LEMMA ReadingExists ==
  ASSUME NEW data, NEW len, NEW N \in Nat
  PROVE  \E r : ReadingTurns(r, N, data, len)
<1> DEFINE S == {m \in Nat : \E r : ReadingTurns(r, m, data, len)}
<1>1. 0 \in S
  <2>1. ReadingTurns([n \in 0..0 |-> Started], 0, data, len)
    BY DEF ReadingTurns
  <2> QED  BY <2>1
<1>2. ASSUME NEW m \in Nat, m \in S PROVE m + 1 \in S
  <2>1. PICK r : ReadingTurns(r, m, data, len)
    BY <1>2
  <2> DEFINE k == [n \in 0..m + 1 |-> IF n = m + 1 THEN ReadField(r[m], data, len) ELSE r[n]]
  <2>2. \A n \in 0..m : r[n] = IF n = 0 THEN Started ELSE ReadField(r[n - 1], data, len)
    BY <2>1 DEF ReadingTurns
  <2>3. ASSUME NEW n \in 0..m + 1
        PROVE  k[n] = IF n = 0 THEN Started ELSE ReadField(k[n - 1], data, len)
    <3>1. n # 0 => n - 1 \in 0..m /\ k[n - 1] = r[n - 1]
      OBVIOUS
    <3>2. CASE n = m + 1
      <4>1. n # 0 /\ n - 1 = m /\ k[n] = ReadField(r[m], data, len)
        BY <3>2
      <4> HIDE DEF k
      <4> QED  BY <3>1, <4>1
    <3>3. CASE n # m + 1
      <4>1. n \in 0..m /\ k[n] = r[n]
        BY <3>3
      <4> HIDE DEF k
      <4> QED  BY <2>2, <3>1, <4>1
    <3> QED  BY <3>2, <3>3
  <2>4. k = [n \in 0..m + 1 |-> k[n]]
    OBVIOUS
  <2> HIDE DEF k
  <2>5. k = [n \in 0..m + 1 |-> IF n = 0 THEN Started ELSE ReadField(k[n - 1], data, len)]
    BY <2>3, <2>4
  <2>6. ReadingTurns(k, m + 1, data, len)
    BY <2>5 DEF ReadingTurns
  <2> QED  BY <2>6
<1>3. N \in S
  <2> HIDE DEF S
  <2> QED  BY <1>1, <1>2, InductionSet
<1> QED
  BY <1>3

LEMMA FieldsReadIs ==
  ASSUME NEW data, NEW len
  PROVE  \E r : /\ FieldsRead(data, len) = r[Len(Fields)] /\ r[0] = Started
                /\ \A n \in 1..Len(Fields) : r[n] = ReadField(r[n - 1], data, len)
<1> DEFINE N == Len(Fields)
           turn[n \in 0..N] == IF n = 0 THEN Started ELSE ReadField(turn[n - 1], data, len)
<1>1. N \in Nat
  BY FieldNumbers
<1>2. FieldsRead(data, len) = turn[N]
  BY DEF FieldsRead, Started
<1>3. PICK r : ReadingTurns(r, N, data, len)
  BY Zenon, <1>1, ReadingExists
<1>4. turn = [n \in 0..N |-> IF n = 0 THEN Started ELSE ReadField(turn[n - 1], data, len)]
  <2>1. r = [n \in 0..N |-> IF n = 0 THEN Started ELSE ReadField(r[n - 1], data, len)]
    BY Zenon, <1>3 DEF ReadingTurns
  <2> HIDE DEF N
  <2> QED  BY <2>1
<1> HIDE DEF turn
<1>5. turn[0] = Started
  BY <1>1, <1>4
<1>6. \A n \in 1..N : turn[n] = ReadField(turn[n - 1], data, len)
  <2>1. \A n \in 1..N : n \in 0..N /\ n # 0
    BY <1>1
  <2> HIDE DEF N
  <2> QED  BY <1>4, <2>1
<1> QED
  BY Zenon, <1>2, <1>5, <1>6

(* Once it has come to the end, the loop turns idly.                       *)
LEMMA FinishedIdles ==
  ASSUME NEW r, NEW data, NEW len, r.result # "reading"
  PROVE  ReadField(r, data, len) = r
BY DEF ReadField

(* Four bytes are enough for the identifier of any field.                  *)
IdsFit == Len(Fields) <= Weight[5]

SomePresent(fields) == Fields = <<>> \/ \E i \in FieldIds : fields[i].mPresent

(* poly_packet_parse_buffer finds all the fields of a packed packet and    *)
(* nothing else, whatever lies behind it in the buffer.                    *)
WellRead(fields, data) ==
  LET read == FieldsRead(data, Len(PackedData(fields)))
  IN  /\ read.result # "error"
      /\ read.fields = [i \in FieldIds |-> IF fields[i].mPresent
                                           THEN ParsedField(fields, i) ELSE FieldInit(Fields[i])]

LEMMA WholeRead ==
  ASSUME IdsFit, NEW fields, Packable(fields), SomePresent(fields),
         NEW data, StartsWith(data, fields)
  PROVE  WellRead(fields, data)
<1> DEFINE N == Len(Fields)
           len == Len(PackedData(fields))
<1>1. N \in Nat /\ FieldIds = 1..N
  BY FieldNumbers
<1>2. PICK off : Layout(fields, off)
  BY Zenon, LayoutExists
<1>3. PICK r : /\ FieldsRead(data, len) = r[N] /\ r[0] = Started
               /\ \A n \in 1..N : r[n] = ReadField(r[n - 1], data, len)
  BY Zenon, FieldsReadIs
<1>4. Started = After(fields, off, 0)
  <2>1. off[0] = 0
    BY Zenon, <1>2 DEF Layout
  <2>2. \A i \in FieldIds : ~(i <= 0)
    BY <1>1
  <2>3. After(fields, off, 0).fields = Built
    BY <2>2 DEF After, Built
  <2> QED  BY <2>1, <2>3 DEF Started, After
<1> DEFINE S == {n \in Nat : n <= N => \E t \in 0..n : r[t] = After(fields, off, n)}
<1>5. 0 \in S
  <2>1. 0 \in 0..0
    OBVIOUS
  <2> QED  BY <1>3, <1>4, <2>1
<1>6. ASSUME NEW n \in Nat, n \in S PROVE n + 1 \in S
  <2> SUFFICES ASSUME n + 1 <= N PROVE \E t \in 0..n + 1 : r[t] = After(fields, off, n + 1)
    OBVIOUS
  <2>1. n + 1 \in FieldIds /\ (n + 1) - 1 = n /\ n <= N
    BY <1>1
  <2>2. PICK t \in 0..n : r[t] = After(fields, off, n)
    BY <1>6, <2>1
  <2>3. t + 1 \in 0..n + 1 /\ t + 1 \in 1..N /\ (t + 1) - 1 = t /\ t \in 0..n + 1
    BY <1>1, <2>1, <2>2
  <2>4. CASE fields[n + 1].mPresent
    <3>1. n < Weight[5]
      <4>1. Weight[5] \in Int
        BY Weights, BaseAssumption
      <4> QED  BY <1>1, <4>1 DEF IdsFit
    <3>2. ReadField(After(fields, off, n), data, len) = After(fields, off, n + 1)
      BY Zenon, <1>2, <2>1, <2>4, <3>1, TurnReadsField
    <3>3. r[t + 1] = After(fields, off, n + 1)
      BY Zenon, <1>3, <2>2, <2>3, <3>2
    <3> QED  BY Zenon, <2>3, <3>3
  <2>5. CASE ~fields[n + 1].mPresent
    <3>1. After(fields, off, n) = After(fields, off, n + 1)
      BY Zenon, <1>2, <2>1, <2>5, AbsentTakesNoTurn
    <3> QED  BY Zenon, <2>2, <2>3, <3>1
  <2> QED  BY <2>4, <2>5
<1>7. PICK t \in 0..N : r[t] = After(fields, off, N)
  <2>1. N \in S
    <3> HIDE DEF S, N
    <3> QED  BY <1>1, <1>5, <1>6, InductionSet
  <2>2. N <= N
    BY <1>1
  <2> QED  BY <2>1, <2>2
<1>8. r[N] = After(fields, off, N)
  <2>1. CASE N = 0
    BY <1>7, <2>1
  <2>2. CASE N # 0
    <3>1. PICK i \in FieldIds : fields[i].mPresent
      <4>1. Fields # <<>>
        BY <2>2
      <4> QED  BY <4>1 DEF SomePresent
    <3>2. After(fields, off, N).result = "read"
      <4>1. off[i - 1] < off[i]
        <5>1. i - 1 < Weight[5]
          <6>1. Weight[5] \in Int
            BY Weights, BaseAssumption
          <6> QED  BY <1>1, <6>1 DEF IdsFit
        <5> QED  BY Zenon, <1>2, <3>1, <5>1, FieldReadBack
      <4>2. /\ off[i - 1] \in Nat /\ off[i] \in Nat /\ off[i] <= len /\ len \in Nat
        <5>1. PartLies(data, off[i - 1], PackedField(i, fields[i]), off[i], len)
          BY Zenon, <1>2, PartInBuffer
        <5> QED  BY Zenon, <5>1 DEF PartLies
      <4>3. off[N] = len
        BY Zenon, <1>2 DEF Layout
      <4> HIDE DEF N, len
      <4>4. off[N] > 0
        BY <4>1, <4>2, <4>3
      <4> QED  BY Zenon, <4>3, <4>4 DEF After, len
    <3> DEFINE T == {n \in Nat : t + n <= N => r[t + n] = r[t]}
    <3>3. 0 \in T
      BY <1>7
    <3>4. ASSUME NEW n \in Nat, n \in T PROVE n + 1 \in T
      <4> SUFFICES ASSUME t + (n + 1) <= N PROVE r[t + (n + 1)] = r[t]
        OBVIOUS
      <4>1. t + n <= N /\ t + (n + 1) \in 1..N /\ (t + (n + 1)) - 1 = t + n
        BY <1>1, <1>7
      <4>2. r[t + n] = r[t]
        BY <3>4, <4>1
      <4>3. r[t + (n + 1)] = ReadField(r[t], data, len)
        BY Zenon, <1>3, <4>1, <4>2
      <4>4. r[t].result # "reading"
        BY <1>7, <3>2
      <4> QED  BY Zenon, <4>3, <4>4, FinishedIdles
    <3>5. N - t \in T
      <4>1. N - t \in Nat
        BY <1>1, <1>7
      <4> HIDE DEF T, N
      <4> QED  BY <3>3, <3>4, <4>1, InductionSet
    <3>6. t + (N - t) = N /\ N <= N
      BY <1>1, <1>7
    <3>7. r[N] = r[t]
      <4> HIDE DEF N
      <4> QED  BY <3>5, <3>6
    <3> QED  BY Zenon, <1>7, <3>7
  <2> QED  BY <2>1, <2>2
<1>9. After(fields, off, N).result # "error"
  BY DEF After
<1>10. After(fields, off, N).fields
         = [i \in FieldIds |-> IF fields[i].mPresent
                               THEN ParsedField(fields, i) ELSE FieldInit(Fields[i])]
  <2>1. \A i \in FieldIds : i <= N
    BY <1>1
  <2> HIDE DEF N
  <2> QED  BY <2>1 DEF After
<1> QED
  BY Zenon, <1>3, <1>8, <1>9, <1>10 DEF WellRead

-----------------------------------------------------------------------------
(* A packet through its frame                                              *)

(* What the parser sets is what the frame had, and all of it.              *)
LEMMA ParsedContent ==
  ASSUME NEW fields, Packable(fields), NEW i \in FieldIds, fields[i].mPresent
  PROVE  ParsedField(fields, i).mPresent
         /\ Content(ParsedField(fields, i)) = Content(fields[i])
<1> DEFINE c == Content(fields[i])
           f == FieldInit(Fields[i])
           p == ParsedField(fields, i)
<1>1. c \in Seq(Int)
  <2>1. CanBePacked(i, fields[i])
    BY DEF Packable
  <2> QED  BY <2>1 DEF CanBePacked, Content
<1>2. f.mData \in Seq(Int)
  <2>1. FullSize(Fields[i]) \in Nat
    BY FieldNumbers
  <2> QED  BY <2>1 DEF FieldInit, Zeros
<1> HIDE DEF c, f
<1>3. p = [mPresent |-> TRUE, mSize |-> Len(c),
           mData |-> IF Len(c) # f.mSize THEN c \o <<0>> ELSE Over(f.mData, c)]
  BY Zenon DEF ParsedField, Parsed, c, f
<1>4. \E rest \in Seq(Int) : p.mData = c \o rest
  <2>1. <<0>> \in Seq(Int)
    OBVIOUS
  <2>2. SubSeq(f.mData, Len(c) + 1, Len(f.mData)) \in Seq(Int)
    BY <1>1, <1>2
  <2>3. p.mData = c \o <<0>> \/ p.mData = c \o SubSeq(f.mData, Len(c) + 1, Len(f.mData))
    BY <1>3 DEF Over
  <2> QED  BY Zenon, <2>1, <2>2, <2>3
<1>5. SubSeq(p.mData, 1, Len(c)) = c
  <2>1. PICK rest \in Seq(Int) : p.mData = c \o rest
    BY Zenon, <1>4
  <2>2. SubSeq(c \o rest, 1, Len(c)) = c
    BY <1>1, <2>1
  <2> QED  BY Zenon, <2>1, <2>2
<1>6. p.mPresent /\ p.mSize = Len(c)
  BY <1>3
<1> HIDE DEF p
<1>7. Content(p) = c
  BY Zenon, <1>5, <1>6 DEF Content
<1> QED
  BY Zenon, <1>6, <1>7 DEF c, p

(* The same fields with the same contents.                                 *)
Same(got, fields) ==
  /\ Present(got) = Present(fields)
  /\ \A i \in Present(fields) : Content(got[i]) = Content(fields[i])

LEMMA WellReadAgrees ==
  ASSUME NEW fields, Packable(fields), NEW data, WellRead(fields, data)
  PROVE  Same(FieldsRead(data, Len(PackedData(fields))).fields, fields)
<1> DEFINE got == FieldsRead(data, Len(PackedData(fields))).fields
<1>1. got = [i \in FieldIds |-> IF fields[i].mPresent
                                THEN ParsedField(fields, i) ELSE FieldInit(Fields[i])]
  BY Zenon DEF WellRead
<1> HIDE DEF got
<1>2. ASSUME NEW i \in FieldIds, fields[i].mPresent
      PROVE  got[i].mPresent /\ Content(got[i]) = Content(fields[i])
  <2>1. got[i] = ParsedField(fields, i)
    BY <1>1, <1>2
  <2> QED  BY Zenon, <1>2, <2>1, ParsedContent
<1>3. ASSUME NEW i \in FieldIds, ~fields[i].mPresent
      PROVE  ~got[i].mPresent
  <2>1. got[i] = FieldInit(Fields[i])
    BY <1>1, <1>3
  <2> QED  BY <2>1 DEF FieldInit
<1>4. Same(got, fields)
  BY Zenon, <1>2, <1>3 DEF Same, Present
<1> QED
  BY Zenon, <1>4 DEF got

(* A frame that begins with what poly_packet_pack wrote: whole, or with a  *)
(* byte of the next one behind it.                                         *)
Carries(f, fields) ==
  /\ f.mDataLen = PackedFrame(fields).mDataLen
  /\ f.mCheckSum = PackedFrame(fields).mCheckSum
  /\ \/ f.data = PackedData(fields)
     \/ \E b \in Byte : f.data = Append(PackedData(fields), b)

LEMMA FrameParses ==
  ASSUME IdsFit, NEW fields, Packable(fields), SomePresent(fields),
         Len(PackedData(fields)) < WordMod, NEW f, Carries(f, fields)
  PROVE  /\ ParseStatus(f) = "PACKET_VALID"
         /\ Same(FieldsRead(f.data, f.mDataLen).fields, fields)
<1> DEFINE d == PackedData(fields)
<1>1. d \in Seq(Int) /\ Len(d) \in Nat
  <2>1. d \in Seq(Int)
    BY Zenon, LayoutExists
  <2> HIDE DEF d
  <2> QED  BY <2>1
<1>2. f.mDataLen = Len(d) /\ f.mCheckSum = CheckSum(d)
  <2>1. Len(d) % WordMod = Len(d)
    <3>1. WordMod \in Nat
      BY CodecAssumption
    <3>2. \A n \in Nat : n < WordMod => n % WordMod = n
      BY <3>1
    <3> QED  BY Zenon, <1>1, <3>2
  <2>2. PackedFrame(fields) = [mDataLen |-> Len(d) % WordMod, mCheckSum |-> CheckSum(d), data |-> d]
    BY Zenon DEF PackedFrame
  <2> HIDE DEF d
  <2> QED  BY <2>1, <2>2 DEF Carries
<1>3. /\ ~(Len(f.data) < Len(d)) /\ SubSeq(f.data, 1, Len(d)) = d
      /\ \A k \in 1..Len(d) : ByteAt(f.data, k) = d[k]
  <2>1. CASE f.data = d
    <3> HIDE DEF d
    <3>1. SubSeq(d, 1, Len(d)) = d /\ ~(Len(d) < Len(d))
      BY <1>1
    <3>2. \A k \in 1..Len(d) : ByteAt(d, k) = d[k]
      BY <1>1 DEF ByteAt
    <3> QED  BY Zenon, <2>1, <3>1, <3>2
  <2>2. CASE \E b \in Byte : f.data = Append(d, b)
    <3>1. PICK b \in Byte : f.data = Append(d, b)
      BY Zenon, <2>2
    <3>2. b \in Int
      BY BaseAssumption DEF Byte
    <3> HIDE DEF d
    <3> DEFINE e == Append(d, b)
    <3>3. e \in Seq(Int) /\ Len(e) = Len(d) + 1 /\ \A k \in 1..Len(d) : e[k] = d[k]
      BY <1>1, <3>2
    <3> HIDE DEF e
    <3>4. \A k \in 1..Len(d) : ByteAt(e, k) = d[k]
      BY <1>1, <3>3 DEF ByteAt
    <3>5. SubSeq(e, 1, Len(d)) = d
      BY <1>1, <3>3
    <3>6. ~(Len(e) < Len(d))
      BY <1>1, <3>3
    <3> QED  BY Zenon, <3>1, <3>4, <3>5, <3>6 DEF e
  <2> QED  BY <2>1, <2>2 DEF Carries
<1>4. StartsWith(f.data, fields)
  BY Zenon, <1>3 DEF StartsWith
<1>5. WellRead(fields, f.data)
  BY Zenon, <1>4, WholeRead
<1>6. FieldsRead(f.data, f.mDataLen).result # "error"
  BY Zenon, <1>2, <1>5 DEF WellRead
<1>7. ParseStatus(f) = "PACKET_VALID"
  BY Zenon, <1>2, <1>3, <1>6 DEF ParseStatus, Checked
<1>8. Same(FieldsRead(f.data, f.mDataLen).fields, fields)
  BY Zenon, <1>2, <1>5, WellReadAgrees
<1> QED
  BY <1>7, <1>8

-----------------------------------------------------------------------------
(* The packet of the specification                                         *)

(* Four bytes are enough for the size of any content the application sets. *)
SizesFit ==
  \A i \in FieldIds : Fields[i].mVarLen => \A c \in Contents(i) : Len(c) < Weight[5]

FrameInv ==
  /\ pc = "build" => journey = "none"
  /\ pc = "text" => journey = "text"
  /\ journey = "frame" => frame = PackedFrame(sent)
  /\ journey = "longer" => Carries(frame, sent)
  /\ pc = "parsed" /\ journey \in {"frame", "longer"} =>
       /\ status = ParseStatus(frame)
       /\ status = "PACKET_VALID" => received = FieldsRead(frame.data, frame.mDataLen).fields

CodecInv == Packable(sent) /\ FrameInv

(* poly_field_init makes a field that can be packed.                       *)
LEMMA InitCanBePacked ==
  ASSUME NEW i \in FieldIds
  PROVE  CanBePacked(i, FieldInit(Fields[i]))
<1> DEFINE n == FullSize(Fields[i])
<1>1. n \in Nat
  BY FieldNumbers
<1>2. FieldInit(Fields[i]) = [mPresent |-> FALSE, mSize |-> n, mData |-> Zeros(n)]
  BY DEF FieldInit
<1> HIDE DEF n
<1>3. Zeros(n) \in Seq(Int) /\ Len(Zeros(n)) = n
  BY <1>1 DEF Zeros
<1>4. n <= Len(Zeros(n))
  BY <1>1, <1>3
<1> DEFINE z == Zeros(n)
<1> HIDE DEF z
<1>5. /\ z \in Seq(Int) /\ n <= Len(z)
      /\ FieldInit(Fields[i]) = [mPresent |-> FALSE, mSize |-> n, mData |-> z]
  BY Zenon, <1>2, <1>3, <1>4 DEF z
<1>6. n = FullSize(Fields[i])
  BY DEF n
<1> QED
  BY <1>1, <1>5, <1>6 DEF CanBePacked

(* It holds at the start.                                                  *)
LEMMA CodecInit == Init => CodecInv
<1> SUFFICES ASSUME Init PROVE CodecInv
  OBVIOUS
<1>1. FrameInv
  BY DEF Init, FrameInv
<1>2. sent = Built
  BY DEF Init
<1>3. DOMAIN Built = FieldIds /\ \A i \in FieldIds : Built[i] = FieldInit(Fields[i])
  BY DEF Built
<1>4. Packable(Built)
  BY Zenon, <1>3, InitCanBePacked DEF Packable
<1> QED
  BY Zenon, <1>1, <1>2, <1>4 DEF CodecInv

(* poly_field_set leaves a field that can be packed.                       *)
LEMMA SetCanBePacked ==
  ASSUME SizesFit, NEW i \in FieldIds, NEW f, CanBePacked(i, f), NEW content \in Contents(i)
  PROVE  CanBePacked(i, FieldSet(f, Fields[i], content))
<1> DEFINE size == IF Fields[i].mVarLen THEN Len(content) ELSE f.mSize
           copied == [k \in 1..size |-> ByteAt(content, k)]
           rest == SubSeq(f.mData, Len(copied) + 1, Len(f.mData))
<1>1. content \in Seq(Int) /\ Len(content) \in Nat
  <2>1. content \in Seq(Byte)
    BY CodecAssumption
  <2>2. Byte \subseteq Int
    BY BaseAssumption DEF Byte
  <2>3. Len(content) \in Nat /\ content \in [1..Len(content) -> Byte]
    BY <2>1
  <2>4. content \in [1..Len(content) -> Int]
    BY <2>2, <2>3
  <2> QED  BY <2>3, <2>4
<1>2. f.mSize \in Nat /\ f.mData \in Seq(Int)
  BY DEF CanBePacked
<1>3. size \in Nat
  BY <1>1, <1>2
<1>4. copied \in Seq(Int) /\ Len(copied) = size
  <2>1. \A k \in Nat : ByteAt(content, k) \in Int
    BY <1>1 DEF ByteAt
  <2> HIDE DEF size
  <2> QED  BY <1>3, <2>1
<1> HIDE DEF copied
<1>5. rest \in Seq(Int)
  BY <1>2, <1>3, <1>4
<1>6. FieldSet(f, Fields[i], content)
        = [mPresent |-> TRUE, mSize |-> size, mData |-> copied \o rest]
  BY DEF FieldSet, Over, copied
<1> HIDE DEF rest
<1>7. copied \o rest \in Seq(Int) /\ Len(copied \o rest) = size + Len(rest) /\ Len(rest) \in Nat
  <2>1. /\ copied \o rest \in Seq(Int) /\ Len(copied \o rest) = Len(copied) + Len(rest)
        /\ Len(rest) \in Nat
    <3>1. copied \in Seq(Int) /\ rest \in Seq(Int)
      BY <1>4, <1>5
    <3> HIDE DEF size
    <3> QED  BY Zenon, <3>1, Concatenation
  <2> QED  BY Zenon, <1>4, <2>1
<1>8. IF Fields[i].mVarLen THEN size < Weight[5] ELSE size = FullSize(Fields[i])
  BY DEF SizesFit, CanBePacked
<1> HIDE DEF size
<1> DEFINE block == copied \o rest
<1>9. block \in Seq(Int) /\ size <= Len(block)
  BY <1>3, <1>7
<1> HIDE DEF block
<1>10. FieldSet(f, Fields[i], content) = [mPresent |-> TRUE, mSize |-> size, mData |-> block]
  BY <1>6 DEF block
<1> QED
  BY <1>3, <1>8, <1>9, <1>10 DEF CanBePacked

(* Setting, packing, the line and parsing keep the invariant.              *)
LEMMA CodecStep ==
  ASSUME SizesFit, CodecInv, [Next]_vars
  PROVE  CodecInv'
<1>1. ASSUME NEW i \in FieldIds, NEW content \in Contents(i), Set(i, content)
      PROVE  CodecInv'
  <2>1. FrameInv'
    BY <1>1 DEF CodecInv, FrameInv, Set
  <2>2. Packable(sent')
    <3>1. /\ sent' = [sent EXCEPT ![i] = FieldSet(sent[i], Fields[i], content)]
          /\ DOMAIN sent = FieldIds /\ \A j \in FieldIds : CanBePacked(j, sent[j])
      BY <1>1 DEF Set, CodecInv, Packable
    <3>2. CanBePacked(i, FieldSet(sent[i], Fields[i], content))
      BY Zenon, <3>1, SetCanBePacked
    <3>3. /\ DOMAIN sent' = FieldIds
          /\ \A j \in FieldIds : sent'[j] = IF j = i THEN FieldSet(sent[i], Fields[i], content)
                                                     ELSE sent[j]
      BY <3>1
    <3>4. \A j \in FieldIds : CanBePacked(j, sent'[j])
      BY Zenon, <3>1, <3>2, <3>3
    <3> QED  BY Zenon, <3>3, <3>4 DEF Packable
  <2> QED  BY Zenon, <2>1, <2>2 DEF CodecInv, Packable, CanBePacked
<1>2. ASSUME sent' = sent, FrameInv' PROVE CodecInv'
  BY <1>2 DEF CodecInv, Packable, CanBePacked
<1>3. ASSUME NEW behind \in Behind, PrintPacket(behind) PROVE CodecInv'
  <2>1. sent' = sent /\ journey' = "text" /\ pc' \in {"overrun", "text"}
    BY <1>3 DEF PrintPacket
  <2> QED  BY <1>2, <2>1 DEF FrameInv
<1>4. ASSUME NEW found \in Byte, FeedJson(found) \/ HandleJson(found) PROVE CodecInv'
  <2>1. sent' = sent /\ journey' = journey /\ pc = "text" /\ pc' \in {"overrun", "line", "parsed"}
    BY <1>4 DEF FeedJson, HandleJson
  <2>2. journey = "text"
    BY <2>1 DEF CodecInv, FrameInv
  <2> QED  BY <1>2, <2>1, <2>2 DEF FrameInv
<1>11. ASSUME Misread PROVE CodecInv'
  <2>1. sent' = sent /\ journey' = journey /\ pc = "text" /\ pc' = "misread"
    BY <1>11 DEF Misread
  <2>2. journey = "text"
    BY <2>1 DEF CodecInv, FrameInv
  <2> QED  BY <1>2, <2>1, <2>2 DEF FrameInv
<1>5. ASSUME Pack PROVE CodecInv'
  <2>1. sent' = sent /\ journey' = "frame" /\ pc' = "line" /\ frame' = PackedFrame(sent)
    BY <1>5 DEF Pack
  <2> QED  BY <1>2, <2>1 DEF FrameInv
<1>6. ASSUME NEW kind \in {"changed", "cut"}, NEW broken, Damage(kind, broken) PROVE CodecInv'
  <2>1. sent' = sent /\ journey' \in {"changed", "cut"} /\ pc' = "line"
    BY <1>6 DEF Damage
  <2> QED  BY <1>2, <2>1 DEF FrameInv
<1>7. ASSUME RunsOn PROVE CodecInv'
  <2>1. PICK b \in Byte : Damage("longer", [frame EXCEPT !.data = Append(frame.data, b)])
    BY <1>7 DEF RunsOn
  <2>2. /\ sent' = sent /\ journey' = "longer" /\ pc' = "line"
        /\ frame = PackedFrame(sent)
        /\ frame' = [frame EXCEPT !.data = Append(frame.data, b)]
    BY <2>1 DEF Damage, CodecInv, FrameInv
  <2>3. Carries(frame', sent)
    BY <2>2 DEF Carries, PackedFrame
  <2>4. FrameInv'
    BY <2>2, <2>3 DEF FrameInv
  <2> QED  BY <1>2, <2>2, <2>4
<1>8. ASSUME Parse PROVE CodecInv'
  <2>1. /\ sent' = sent /\ journey' = journey /\ frame' = frame /\ pc' = "parsed"
        /\ status' = ParseStatus(frame)
        /\ status' = "PACKET_VALID" => received' = FieldsRead(frame.data, frame.mDataLen).fields
    BY <1>8 DEF Parse
  <2>2. FrameInv'
    BY <2>1 DEF CodecInv, FrameInv
  <2> QED  BY <1>2, <2>1, <2>2
<1>9. ASSUME UNCHANGED vars PROVE CodecInv'
  <2>1. FrameInv'
    BY <1>9 DEF vars, CodecInv, FrameInv
  <2> QED  BY <1>2, <1>9, <2>1 DEF vars
<1>10. ASSUME DamageByte \/ DamageHeader \/ CutOff PROVE CodecInv'
  BY Zenon, <1>6, <1>10 DEF DamageByte, DamageHeader, CutOff
<1> QED
  BY Zenon, <1>1, <1>3, <1>4, <1>5, <1>7, <1>8, <1>9, <1>10, <1>11 DEF Next

LEMMA CodecInvCorrect ==
  ASSUME SizesFit
  PROVE  Spec => []CodecInv
<1>1. CodecInv /\ [Next]_vars => CodecInv'
  BY CodecStep
<1> QED
  BY CodecInit, <1>1, PTL DEF Spec

(* A frame that arrives as it was sent, or with bytes behind it, carries   *)
(* the packet it was made of.                                              *)
LEMMA CodecPromises ==
  ASSUME IdsFit, CodecInv
  PROVE  Len(PackedData(sent)) < WordMod => RoundTrip /\ ExcessIsIgnored
<1> SUFFICES ASSUME Len(PackedData(sent)) < WordMod, pc = "parsed",
                    journey \in {"frame", "longer"}, Nonempty
             PROVE  status = "PACKET_VALID" /\ Agrees
  BY Zenon DEF RoundTrip, ExcessIsIgnored, Intact
<1>1. Packable(sent) /\ Carries(frame, sent)
  BY DEF CodecInv, FrameInv, Carries, PackedFrame
<1>2. SomePresent(sent)
  BY DEF Nonempty, SomePresent, Present
<1>3. /\ ParseStatus(frame) = "PACKET_VALID"
      /\ Same(FieldsRead(frame.data, frame.mDataLen).fields, sent)
  BY Zenon, <1>1, <1>2, FrameParses
<1>4. status = "PACKET_VALID" /\ received = FieldsRead(frame.data, frame.mDataLen).fields
  BY <1>3 DEF CodecInv, FrameInv
<1> QED
  BY Zenon, <1>3, <1>4 DEF Agrees, SameField, Same

(* What poly_packet_pack sends poly_packet_parse_buffer receives: the same *)
(* fields with the same contents, for any descriptor and any contents      *)
(* whose identifiers and sizes take at most four bytes, as long as the     *)
(* length of the packet fits mDataLen.                                     *)
THEOREM RoundTripCorrect ==
  ASSUME IdsFit, SizesFit
  PROVE  Spec => [](Len(PackedData(sent)) < WordMod => RoundTrip)
<1>1. CodecInv => (Len(PackedData(sent)) < WordMod => RoundTrip)
  BY Zenon, CodecPromises
<1> QED
  BY <1>1, CodecInvCorrect, PTL

(* Bytes behind the frame do not change the packet: the cursor stops at    *)
(* mDataLen and the checksum covers no more.                               *)
THEOREM ExcessIsIgnoredCorrect ==
  ASSUME IdsFit, SizesFit
  PROVE  Spec => [](Len(PackedData(sent)) < WordMod => ExcessIsIgnored)
<1>1. CodecInv => (Len(PackedData(sent)) < WordMod => ExcessIsIgnored)
  BY Zenon, CodecPromises
<1> QED
  BY <1>1, CodecInvCorrect, PTL

-----------------------------------------------------------------------------
(* poly_packet_max_packed_size                                             *)

(* One byte is enough for the identifier of any field, three for the size  *)
(* of any content the application sets.                                    *)
OverheadFits ==
  /\ Len(Fields) <= Base
  /\ \A i \in FieldIds : Fields[i].mVarLen => \A c \in Contents(i) : Len(c) < Weight[4]

SmallFields(fields) ==
  \A i \in FieldIds :
    fields[i].mPresent /\ Fields[i].mVarLen => fields[i].mSize < Weight[4]

LEMMA WeightsGrow == Weight[4] \in Nat /\ Weight[5] \in Nat /\ Weight[4] <= Weight[5]
<1>1. \A w \in Nat : w <= w * Base /\ w * Base \in Nat
  BY BaseAssumption
<1>2. Base \in Nat
  BY BaseAssumption
<1>3. Base * Base * Base \in Nat
  BY Zenon, <1>1, <1>2
<1> QED
  BY Zenon, <1>1, <1>3, Weights

(* A field needs no more room than poly_packet_max_packed_size gives it.   *)
LEMMA FieldFits ==
  ASSUME OverheadFits, NEW i \in FieldIds, NEW f, CanBePacked(i, f),
         f.mPresent /\ Fields[i].mVarLen => f.mSize < Weight[4]
  PROVE  /\ f.mSize \in Nat /\ Len(PackedField(i, f)) \in Nat
         /\ Len(PackedField(i, f)) <= IF f.mPresent THEN f.mSize + FieldOverhead ELSE 0
<1>1. f.mSize \in Nat
  BY DEF CanBePacked
<1>2. CASE f.mPresent
  <2>1. Composed(i, f, PackedField(i, f))
    BY Zenon, <1>2, PackedFieldIs
  <2>2. /\ Len(PackedField(i, f)) = Width(i - 1) + SizeWidth(i, f) + f.mSize
        /\ Width(i - 1) \in 1..5 /\ SizeWidth(i, f) \in 0..5
    BY Zenon, <2>1 DEF Composed
  <2>3. Width(i - 1) = 1
    <3>1. i - 1 \in Nat /\ i - 1 < Base
      BY FieldNumbers, BaseAssumption DEF OverheadFits
    <3> QED  BY Zenon, <3>1, Widths
  <2>4. SizeWidth(i, f) <= 3
    <3>1. CASE Fields[i].mVarLen
      <4>1. Width(f.mSize) <= 3
        BY Zenon, <1>1, <1>2, <3>1, Widths
      <4> QED  BY Zenon, <3>1, <4>1 DEF SizeWidth
    <3>2. CASE ~Fields[i].mVarLen
      BY <3>2 DEF SizeWidth
    <3> QED  BY <3>1, <3>2
  <2> QED  BY <1>1, <1>2, <2>2, <2>3, <2>4 DEF FieldOverhead
<1>3. CASE ~f.mPresent
  <2>1. PackedField(i, f) = <<>>
    BY Zenon, <1>3, AbsentField
  <2> QED  BY <1>1, <1>3, <2>1
<1> QED
  BY <1>2, <1>3

(* The size poly_packet_max_packed_size adds up.                           *)
Room(f) == IF f.mPresent THEN f.mSize + FieldOverhead ELSE 0

LEMMA MaxPackedSizeIs ==
  ASSUME NEW fields, Packable(fields)
  PROVE  \E size \in [0..Len(Fields) -> Nat] :
           /\ MaxPackedSize(fields) = size[Len(Fields)] /\ size[0] = HeaderSize
           /\ \A n \in 1..Len(Fields) : size[n] = size[n - 1] + Room(fields[n])
<1> DEFINE N == Len(Fields)
           step == [n \in 1..N |-> [x \in Nat |-> x + Room(fields[n])]]
           size[n \in 0..N] == IF n = 0 THEN HeaderSize ELSE size[n - 1] + Room(fields[n])
<1>1. N \in Nat /\ FieldIds = 1..N /\ HeaderSize \in Nat
  BY FieldNumbers, CodecAssumption
<1>2. \A n \in 1..N : Room(fields[n]) \in Nat
  <2> HIDE DEF N
  <2>1. \A n \in 1..N : fields[n].mSize \in Nat
    BY <1>1 DEF Packable, CanBePacked
  <2> QED  BY <2>1 DEF Room, FieldOverhead
<1>3. step \in [1..N -> [Nat -> Nat]]
  <2> HIDE DEF N
  <2>1. \A n \in 1..N, x \in Nat : x + Room(fields[n]) \in Nat
    BY <1>2
  <2> QED  BY <2>1
<1>4. PICK r : Turns(r, N, Nat, HeaderSize, step)
  <2> HIDE DEF step, N
  <2> QED  BY Zenon, <1>1, <1>3, Loop
<1>5. r \in [0..N -> Nat] /\ r[0] = HeaderSize /\ \A n \in 1..N : r[n] = step[n][r[n - 1]]
  BY Zenon, <1>4 DEF Turns
<1>6. \A n \in 1..N : r[n] = r[n - 1] + Room(fields[n])
  <2> HIDE DEF N
  <2>1. \A n \in 1..N : r[n - 1] \in Nat
    BY <1>1, <1>5
  <2> QED  BY <1>5, <2>1
<1>7. size = r
  <2> HIDE DEF N, step
  <2>1. r = [n \in 0..N |-> IF n = 0 THEN HeaderSize ELSE r[n - 1] + Room(fields[n])]
    BY <1>1, <1>5, <1>6
  <2>2. \A g : g = [n \in 0..N |-> IF n = 0 THEN HeaderSize ELSE g[n - 1] + Room(fields[n])]
                 => g = r
    <3> TAKE g
    <3> HAVE g = [n \in 0..N |-> IF n = 0 THEN HeaderSize ELSE g[n - 1] + Room(fields[n])]
    <3> DEFINE S == {n \in Nat : n <= N => g[n] = r[n]}
    <3>1. 0 \in S
      BY <1>1, <2>1
    <3>2. ASSUME NEW n \in Nat, n \in S PROVE n + 1 \in S
      <4> SUFFICES ASSUME n + 1 <= N PROVE g[n + 1] = r[n + 1]
        OBVIOUS
      <4>1. n + 1 \in 0..N /\ n + 1 # 0 /\ (n + 1) - 1 = n /\ g[n] = r[n] /\ n + 1 \in 1..N
        BY <1>1, <3>2
      <4>2. g[n + 1] = g[n] + Room(fields[n + 1])
        BY <4>1
      <4>3. r[n + 1] = r[n] + Room(fields[n + 1])
        BY <1>6, <4>1
      <4> QED  BY <4>1, <4>2, <4>3
    <3>3. \A n \in 0..N : g[n] = r[n]
      <4> HIDE DEF S
      <4>1. \A n \in 0..N : n \in S
        <5>1. Nat \subseteq S
          BY Zenon, <3>1, <3>2, InductionSet
        <5> QED  BY <1>1, <5>1
      <4> QED  BY <1>1, <4>1 DEF S
    <3> QED  BY <1>5, <3>3
  <2>3. size = [n \in 0..N |-> IF n = 0 THEN HeaderSize ELSE size[n - 1] + Room(fields[n])]
    BY <2>1
  <2> HIDE DEF size
  <2> QED  BY Zenon, <2>2, <2>3
<1>8. MaxPackedSize(fields) = size[N]
  BY DEF MaxPackedSize, Room
<1> QED
  BY Zenon, <1>5, <1>6, <1>7, <1>8

LEMMA PackedIsBelowMax ==
  ASSUME OverheadFits, NEW fields, Packable(fields), SmallFields(fields)
  PROVE  PackedLength(fields) <= MaxPackedSize(fields)
<1> DEFINE N == Len(Fields)
<1>1. N \in Nat /\ FieldIds = 1..N /\ HeaderSize \in Nat
  BY FieldNumbers, CodecAssumption
<1>2. PICK size \in [0..N -> Nat] :
        /\ MaxPackedSize(fields) = size[N] /\ size[0] = HeaderSize
        /\ \A n \in 1..N : size[n] = size[n - 1] + Room(fields[n])
  BY Zenon, MaxPackedSizeIs
<1>3. PICK off : Layout(fields, off)
  BY Zenon, LayoutExists
<1>4. /\ off \in [0..N -> Nat] /\ off[0] = 0 /\ Len(PackedData(fields)) = off[N]
      /\ \A n \in 1..N : off[n] = off[n - 1] + Len(PackedField(n, fields[n]))
  BY Zenon, <1>3 DEF Layout
<1> HIDE DEF N
<1> DEFINE S == {n \in Nat : n <= N => HeaderSize + off[n] <= size[n]}
<1>5. 0 \in S
  BY <1>1, <1>2, <1>4
<1>6. ASSUME NEW n \in Nat, n \in S PROVE n + 1 \in S
  <2> SUFFICES ASSUME n + 1 <= N PROVE HeaderSize + off[n + 1] <= size[n + 1]
    OBVIOUS
  <2>1. n + 1 \in 1..N /\ (n + 1) - 1 = n /\ n \in 0..N /\ n <= N
    BY <1>1
  <2>2. /\ off[n + 1] = off[n] + Len(PackedField(n + 1, fields[n + 1]))
        /\ size[n + 1] = size[n] + Room(fields[n + 1])
        /\ off[n] \in Nat /\ size[n] \in Nat /\ HeaderSize + off[n] <= size[n]
    BY <1>2, <1>4, <1>6, <2>1
  <2>3. /\ Len(PackedField(n + 1, fields[n + 1])) \in Nat
        /\ Len(PackedField(n + 1, fields[n + 1])) <= Room(fields[n + 1])
        /\ Room(fields[n + 1]) \in Nat
    <3> DEFINE f == fields[n + 1]
    <3>1. n + 1 \in FieldIds /\ CanBePacked(n + 1, f)
      BY <1>1, <2>1 DEF Packable
    <3>2. f.mPresent /\ Fields[n + 1].mVarLen => f.mSize < Weight[4]
      BY <3>1 DEF SmallFields
    <3> HIDE DEF f
    <3>3. /\ f.mSize \in Nat /\ Len(PackedField(n + 1, f)) \in Nat
          /\ Len(PackedField(n + 1, f)) <= IF f.mPresent THEN f.mSize + FieldOverhead ELSE 0
      BY <3>1, <3>2, FieldFits
    <3>4. Room(f) \in Nat
      BY <3>3 DEF Room, FieldOverhead
    <3> QED  BY Zenon, <3>3, <3>4 DEF f, Room
  <2> DEFINE a == Len(PackedField(n + 1, fields[n + 1]))
             b == Room(fields[n + 1])
  <2>4. /\ off[n + 1] = off[n] + a /\ size[n + 1] = size[n] + b
        /\ a \in Nat /\ b \in Nat /\ a <= b
    BY Zenon, <2>2, <2>3
  <2> HIDE DEF a, b
  <2> DEFINE o == off[n]
             z == size[n]
  <2>5. /\ HeaderSize \in Nat /\ o \in Nat /\ z \in Nat /\ HeaderSize + o <= z
        /\ off[n + 1] = o + a /\ size[n + 1] = z + b
    BY Zenon, <1>1, <2>2, <2>4
  <2> HIDE DEF o, z
  <2>6. HeaderSize + (o + a) <= z + b
    BY <2>4, <2>5
  <2> QED  BY Zenon, <2>5, <2>6
<1>7. HeaderSize + off[N] <= size[N]
  <2>1. N \in S
    <3> HIDE DEF S
    <3> QED  BY <1>1, <1>5, <1>6, InductionSet
  <2>2. N <= N
    BY <1>1
  <2> QED  BY <2>1, <2>2
<1> QED
  BY Zenon, <1>2, <1>4, <1>7 DEF PackedLength

(* The sizes of the packet the application fills stay below the bound.     *)
LEMMA SmallStep ==
  ASSUME OverheadFits, CodecInv, SmallFields(sent), [Next]_vars
  PROVE  SmallFields(sent')
<1>1. ASSUME NEW i \in FieldIds, NEW content \in Contents(i), Set(i, content)
      PROVE  SmallFields(sent')
  <2>1. /\ sent' = [sent EXCEPT ![i] = FieldSet(sent[i], Fields[i], content)]
        /\ DOMAIN sent = FieldIds
    BY <1>1 DEF Set, CodecInv, Packable
  <2>2. \A j \in FieldIds : sent'[j] = IF j = i THEN FieldSet(sent[i], Fields[i], content)
                                                ELSE sent[j]
    BY <2>1
  <2>3. Fields[i].mVarLen => FieldSet(sent[i], Fields[i], content).mSize = Len(content)
    BY DEF FieldSet
  <2>4. Fields[i].mVarLen => Len(content) < Weight[4]
    BY Zenon DEF OverheadFits
  <2>5. Fields[i].mVarLen => FieldSet(sent[i], Fields[i], content).mSize < Weight[4]
    BY Zenon, <2>3, <2>4
  <2> QED  BY Zenon, <2>2, <2>5 DEF SmallFields
<1>2. CASE sent' = sent
  BY Zenon, <1>2
<1>3. ASSUME \A i \in FieldIds : \A content \in Contents(i) : ~Set(i, content)
      PROVE  sent' = sent
  BY <1>3 DEF Next, PrintPacket, FeedJson, HandleJson, Misread, Pack, DamageByte, DamageHeader,
              CutOff, RunsOn, Damage, Parse, vars
<1> QED
  BY Zenon, <1>1, <1>2, <1>3

(* A packet whose fields are small enough fits the buffer that             *)
(* poly_packet_max_packed_size is asked for, whatever the fields hold.     *)
THEOREM PackedFitsCorrect ==
  ASSUME OverheadFits
  PROVE  Spec => []PackedFits
<1>1. SizesFit
  <2>1. \A i \in FieldIds : \A c \in Contents(i) : Len(c) \in Nat
    BY CodecAssumption
  <2> QED  BY <2>1, WeightsGrow DEF OverheadFits, SizesFit
<1>2. Init => SmallFields(sent)
  BY DEF Init, Built, FieldInit, SmallFields
<1>3. SmallFields(sent) /\ CodecInv /\ [Next]_vars => SmallFields(sent)'
  BY SmallStep DEF SmallFields
<1>4. SmallFields(sent) /\ CodecInv => PackedFits
  BY Zenon, PackedIsBelowMax DEF CodecInv, PackedFits
<1>5. Spec => []CodecInv
  BY <1>1, CodecInvCorrect
<1> QED
  BY <1>2, <1>3, <1>4, <1>5, PTL DEF Spec

-----------------------------------------------------------------------------
(* Numbers as bytes                                                        *)

(* A byte is a number below 256.                                           *)
LEMMA BytesAreNumbers ==
  /\ Byte \subseteq Nat /\ 2 * Base \in Nat /\ 2 * Base > 1 /\ 0 \in Byte
  /\ \A b \in Byte : b < 2 * Base
BY BaseAssumption DEF Byte

(* The recursive functions of the model are what their equations say.      *)
NumberTurns(bytes, last) ==
  /\ last \in [0..Len(bytes) -> Nat] /\ last[0] = 0
  /\ \A n \in 1..Len(bytes) :
       last[n] = last[n - 1] * (2 * Base) + bytes[Len(bytes) - n + 1]

(* NumberOf adds up the bytes, the most significant first.                 *)
LEMMA NumberOfIs ==
  ASSUME NEW bytes \in Seq(Byte)
  PROVE  \E last : NumberTurns(bytes, last) /\ NumberOf(bytes) = last[Len(bytes)]
<1> DEFINE L == Len(bytes)
           B == 2 * Base
           digit == [n \in 1..L |-> bytes[L - n + 1]]
           step == [n \in 1..L |-> [x \in Nat |-> x * B + digit[n]]]
           last[n \in 0..L] == IF n = 0 THEN 0 ELSE last[n - 1] * B + bytes[L - n + 1]
<1>1. L \in Nat /\ B \in Nat /\ digit \in [1..L -> Nat]
  <2>1. L \in Nat
    OBVIOUS
  <2>2. B \in Nat
    BY BaseAssumption
  <2>3. \A k \in 1..L : bytes[k] \in Nat
    <3>1. \A k \in 1..L : bytes[k] \in Byte
      OBVIOUS
    <3> HIDE DEF L
    <3> QED  BY Zenon, <3>1, BytesAreNumbers
  <2> HIDE DEF L, B
  <2>4. \A n \in 1..L : L - n + 1 \in 1..L
    BY <2>1
  <2>5. \A n \in 1..L : bytes[L - n + 1] \in Nat
    BY Zenon, <2>3, <2>4
  <2> QED  BY <2>1, <2>2, <2>5
<1>2. \A n \in 1..L : digit[n] = bytes[L - n + 1]
  OBVIOUS
<1> HIDE DEF B, digit, L
<1>3. step \in [1..L -> [Nat -> Nat]]
  <2>1. \A n \in 1..L, x \in Nat : x * B + digit[n] \in Nat
    BY <1>1
  <2> QED  BY <2>1
<1>4. \A n \in 1..L, x \in Nat : step[n][x] = x * B + bytes[L - n + 1]
  BY <1>2
<1> HIDE DEF step
<1>5. PICK r : Turns(r, L, Nat, 0, step)
  BY Zenon, <1>1, <1>3, 0 \in Nat, Loop
<1>6. r \in [0..L -> Nat] /\ r[0] = 0 /\ \A n \in 1..L : r[n] = step[n][r[n - 1]]
  BY Zenon, <1>5 DEF Turns
<1>7. \A n \in 1..L : r[n] = r[n - 1] * B + bytes[L - n + 1]
  <2>1. \A n \in 1..L : r[n - 1] \in Nat
    BY <1>1, <1>6
  <2> QED  BY <1>4, <1>6, <2>1
<1>8. last = r
  <2> HIDE DEF last
  <2>1. ASSUME NEW g, g = [n \in 0..L |-> IF n = 0 THEN 0 ELSE g[n - 1] * B + bytes[L - n + 1]]
        PROVE  g = r
    <3>1. g[0] = 0 /\ g = [n \in 0..L |-> g[n]]
      BY <1>1, <2>1
    <3>2. \A n \in 1..L : g[n] = g[n - 1] * B + bytes[L - n + 1]
      BY <1>1, <2>1
    <3>3. Solves(g, L, Nat, 0, step)
      BY Zenon, <1>4, <3>1, <3>2 DEF Solves
    <3> QED  BY Zenon, <1>1, <1>5, <3>3, OneLoop
  <2>2. r = [n \in 0..L |-> IF n = 0 THEN 0 ELSE r[n - 1] * B + bytes[L - n + 1]]
    BY <1>1, <1>6, <1>7
  <2>3. last = [n \in 0..L |-> IF n = 0 THEN 0 ELSE last[n - 1] * B + bytes[L - n + 1]]
    BY <2>2 DEF last
  <2> QED  BY Zenon, <2>1, <2>3
<1>9. NumberOf(bytes) = last[L]
  BY DEF NumberOf, B, L
<1> HIDE DEF last
<1> QED
  BY Zenon, <1>6, <1>7, <1>8, <1>9 DEF NumberTurns, B, L

QuotientTurns(number, width, rest) ==
  /\ rest \in [0..width -> Nat] /\ rest[0] = number
  /\ \A k \in 1..width : rest[k] = rest[k - 1] \div (2 * Base)
  /\ BytesOf(number, width) = [k \in 1..width |-> rest[k - 1] % (2 * Base)]

(* BytesOf divides the number again and again.                             *)
LEMMA BytesOfIs ==
  ASSUME NEW number \in Nat, NEW width \in Nat
  PROVE  \E rest : QuotientTurns(number, width, rest)
<1> DEFINE B == 2 * Base
           step == [k \in 1..width |-> [x \in Nat |-> x \div B]]
           rest[k \in 0..width] == IF k = 0 THEN number ELSE rest[k - 1] \div B
<1>1. B \in Nat /\ B > 1
  BY BytesAreNumbers
<1> HIDE DEF B
<1>2. step \in [1..width -> [Nat -> Nat]]
  <2>1. \A x \in Nat : x \div B \in Nat
    BY <1>1
  <2> QED  BY <2>1
<1>3. \A k \in 1..width, x \in Nat : step[k][x] = x \div B
  OBVIOUS
<1> HIDE DEF step
<1>4. PICK r : Turns(r, width, Nat, number, step)
  BY Zenon, <1>2, Loop
<1>5. r \in [0..width -> Nat] /\ r[0] = number /\ \A k \in 1..width : r[k] = step[k][r[k - 1]]
  BY Zenon, <1>4 DEF Turns
<1>6. \A k \in 1..width : r[k] = r[k - 1] \div B
  <2>1. \A k \in 1..width : r[k - 1] \in Nat
    BY <1>5
  <2> QED  BY Zenon, <1>3, <1>5, <2>1
<1>7. rest = r
  <2> HIDE DEF rest
  <2>1. ASSUME NEW g, g = [k \in 0..width |-> IF k = 0 THEN number ELSE g[k - 1] \div B]
        PROVE  g = r
    <3>1. g[0] = number /\ g = [k \in 0..width |-> g[k]]
      BY <2>1
    <3>2. \A k \in 1..width : g[k] = g[k - 1] \div B
      BY <2>1
    <3>3. Solves(g, width, Nat, number, step)
      BY Zenon, <1>3, <3>1, <3>2 DEF Solves
    <3> QED  BY Zenon, <1>4, <3>3, OneLoop
  <2>2. r = [k \in 0..width |-> IF k = 0 THEN number ELSE r[k - 1] \div B]
    BY <1>5, <1>6
  <2>3. rest = [k \in 0..width |-> IF k = 0 THEN number ELSE rest[k - 1] \div B]
    BY <2>2 DEF rest
  <2> QED  BY Zenon, <2>1, <2>3
<1>8. BytesOf(number, width) = [k \in 1..width |-> rest[k - 1] % B]
  BY DEF BytesOf, B
<1> HIDE DEF rest
<1> QED
  BY Zenon, <1>5, <1>6, <1>7, <1>8 DEF QuotientTurns, B

(* They are as many bytes as asked for.                                    *)
LEMMA BytesOfType ==
  ASSUME NEW number \in Nat, NEW width \in Nat
  PROVE  BytesOf(number, width) \in Seq(Byte) /\ Len(BytesOf(number, width)) = width
<1>1. PICK rest : QuotientTurns(number, width, rest)
  BY Zenon, BytesOfIs
<1>2. \A k \in 1..width : rest[k - 1] \in Nat
  BY <1>1 DEF QuotientTurns
<1>3. \A x \in Nat : x % (2 * Base) \in Byte
  BY BaseAssumption DEF Byte
<1>4. \A k \in 1..width : rest[k - 1] % (2 * Base) \in Byte
  BY Zenon, <1>2, <1>3
<1> QED
  BY <1>1, <1>4 DEF QuotientTurns

(* The quotient and the remainder of a number written with a digit.        *)
LEMMA QuotientIs ==
  ASSUME NEW B \in Nat, B > 1, NEW a \in Nat, NEW b \in Nat, b < B
  PROVE  (a * B + b) \div B = a /\ (a * B + b) % B = b
<1> DEFINE n == a * B + b
           q == n \div B
           m == n % B
<1>1. n \in Nat
  OBVIOUS
<1>2. q \in Int /\ m \in 0..B - 1 /\ n = m + B * q
  <2> HIDE DEF n
  <2> QED  BY <1>1
<1>3. a * B + b = m + B * q
  BY <1>2
<1> HIDE DEF q, m, n
<1>4. ~(a < q)
  <2> SUFFICES ASSUME a + 1 <= q PROVE FALSE
    BY <1>2
  <2>1. B * (a + 1) <= B * q /\ B * (a + 1) = a * B + B
    BY <1>2
  <2> QED  BY <1>2, <1>3, <2>1
<1>5. ~(q < a)
  <2> SUFFICES ASSUME q + 1 <= a PROVE FALSE
    BY <1>2
  <2>1. B * (q + 1) <= a * B /\ B * (q + 1) = B * q + B
    BY <1>2
  <2> QED  BY <1>2, <1>3, <2>1
<1>6. q = a
  BY <1>2, <1>4, <1>5
<1>7. m = b
  <2>1. a * B = B * a
    OBVIOUS
  <2> QED  BY <1>2, <1>3, <1>6, <2>1
<1> QED
  BY Zenon, <1>6, <1>7 DEF q, m, n

(* Printing an object in decimal and reading the number gives the object:  *)
(* the digits of the number in base 256 are its bytes.                     *)
LEMMA BytesBack ==
  ASSUME NEW bytes \in Seq(Byte)
  PROVE  NumberOf(bytes) \in Nat /\ BytesOf(NumberOf(bytes), Len(bytes)) = bytes
<1> DEFINE L == Len(bytes)
           B == 2 * Base
<1>1. L \in Nat /\ B \in Nat /\ B > 1 /\ bytes = [k \in 1..L |-> bytes[k]]
      /\ \A k \in 1..L : bytes[k] \in Nat /\ bytes[k] < B
  <2>1. L \in Nat /\ bytes = [k \in 1..L |-> bytes[k]] /\ \A k \in 1..L : bytes[k] \in Byte
    OBVIOUS
  <2> HIDE DEF L
  <2>2. B \in Nat /\ B > 1 /\ \A b \in Byte : b \in Nat /\ b < B
    BY BytesAreNumbers
  <2> HIDE DEF B
  <2> QED  BY Zenon, <2>1, <2>2
<1>2. PICK last : NumberTurns(bytes, last) /\ NumberOf(bytes) = last[L]
  BY Zenon, NumberOfIs
<1>3. /\ last \in [0..L -> Nat]
      /\ \A n \in 1..L : last[n] = last[n - 1] * B + bytes[L - n + 1]
  BY Zenon, <1>2 DEF NumberTurns
<1> HIDE DEF L, B
<1>4. last[L] \in Nat /\ NumberOf(bytes) \in Nat
  BY <1>1, <1>2, <1>3
<1>5. PICK rest : QuotientTurns(NumberOf(bytes), L, rest)
  BY Zenon, <1>1, <1>4, BytesOfIs
<1>6. /\ rest[0] = last[L] /\ \A k \in 1..L : rest[k] = rest[k - 1] \div B
      /\ BytesOf(NumberOf(bytes), L) = [k \in 1..L |-> rest[k - 1] % B]
  BY Zenon, <1>2, <1>5 DEF QuotientTurns, B
<1>7. ASSUME NEW a \in Nat, NEW b \in Nat, b < B
      PROVE  (a * B + b) \div B = a /\ (a * B + b) % B = b
  BY Zenon, <1>1, <1>7, QuotientIs
<1>8. ASSUME NEW k \in 1..L, rest[k - 1] = last[L - (k - 1)]
      PROVE  rest[k] = last[L - k] /\ rest[k - 1] % B = bytes[k]
  <2>1. L - k \in 0..L /\ L - (k - 1) \in 1..L /\ (L - (k - 1)) - 1 = L - k
        /\ L - (L - (k - 1)) + 1 = k
    BY <1>1
  <2>2. rest[k - 1] = last[L - k] * B + bytes[k]
    BY <1>3, <1>8, <2>1
  <2>3. last[L - k] \in Nat /\ bytes[k] \in Nat /\ bytes[k] < B
    BY <1>1, <1>3, <2>1
  <2> DEFINE a == last[L - k]
             b == bytes[k]
  <2>4. (a * B + b) \div B = a /\ (a * B + b) % B = b
    BY Zenon, <1>7, <2>3
  <2>5. rest[k] = rest[k - 1] \div B /\ rest[k - 1] = a * B + b
    BY Zenon, <1>6, <2>2
  <2> HIDE DEF a, b
  <2>6. rest[k] = a /\ rest[k - 1] % B = b
    BY Zenon, <2>4, <2>5
  <2> QED  BY Zenon, <2>6 DEF a, b
<1> DEFINE S == {k \in Nat : k <= L => rest[k] = last[L - k]}
<1>9. 0 \in S
  BY <1>1, <1>6
<1>10. ASSUME NEW k \in Nat, k \in S PROVE k + 1 \in S
  <2> SUFFICES ASSUME k + 1 <= L PROVE rest[k + 1] = last[L - (k + 1)]
    OBVIOUS
  <2>1. k + 1 \in 1..L /\ (k + 1) - 1 = k /\ rest[k] = last[L - k]
    BY <1>1, <1>10
  <2> QED  BY Zenon, <1>8, <2>1
<1>11. \A k \in 1..L : rest[k - 1] = last[L - (k - 1)]
  <2>1. Nat \subseteq S
    <3> HIDE DEF S
    <3> QED  BY Zenon, <1>9, <1>10, InductionSet
  <2>2. \A k \in 1..L : k - 1 \in Nat /\ k - 1 <= L
    BY <1>1
  <2> QED  BY <2>1, <2>2
<1>12. \A k \in 1..L : rest[k - 1] % B = bytes[k]
  BY Zenon, <1>8, <1>11
<1>13. [k \in 1..L |-> rest[k - 1] % B] = bytes
  BY Zenon, <1>1, <1>12
<1> QED
  BY Zenon, <1>4, <1>6, <1>13 DEF L

-----------------------------------------------------------------------------
(* The checksum                                                            *)

(* A word is a number below 2^16, and a byte is one.                       *)
LEMMA WordsAreNumbers ==
  /\ WordMod \in Nat /\ WordMod > 1 /\ Word \subseteq Nat /\ Seed \in Word /\ 0 \in Word
  /\ \A w \in Word : w < WordMod
  /\ \A b \in Byte : b \in Word
<1>1. WordMod \in Nat /\ WordMod >= 2 * Base /\ Seed \in Word
  BY CodecAssumption
<1> QED
  BY <1>1, BaseAssumption DEF Word, Byte

SumTurns(data, sum) ==
  /\ sum \in [0..Len(data) -> Word] /\ sum[0] = Seed
  /\ \A n \in 1..Len(data) : sum[n] = (sum[n - 1] + data[n]) % WordMod

(* CheckSum adds the bytes up, in a 16-bit variable.                       *)
LEMMA CheckSumIs ==
  ASSUME NEW data \in Seq(Byte)
  PROVE  \E sum : SumTurns(data, sum) /\ CheckSum(data) = sum[Len(data)]
<1> DEFINE L == Len(data)
           step == [n \in 1..L |-> [x \in Word |-> (x + data[n]) % WordMod]]
           sum[n \in 0..L] == IF n = 0 THEN Seed ELSE (sum[n - 1] + data[n]) % WordMod
<1>1. L \in Nat /\ \A n \in 1..L : data[n] \in Byte
  OBVIOUS
<1> HIDE DEF L
<1>2. step \in [1..L -> [Word -> Word]]
  <2>1. \A n \in 1..L, x \in Word : (x + data[n]) % WordMod \in Word
    <3>1. \A n \in Nat : n % WordMod \in Word
      BY WordsAreNumbers DEF Word
    <3>2. \A n \in 1..L, x \in Word : x + data[n] \in Nat
      <4>1. \A n \in 1..L, x \in Word : x \in Nat /\ data[n] \in Nat
        BY Zenon, <1>1, WordsAreNumbers, BytesAreNumbers
      <4> QED  BY <4>1
    <3> QED  BY Zenon, <3>1, <3>2
  <2> QED  BY <2>1
<1>3. \A n \in 1..L, x \in Word : step[n][x] = (x + data[n]) % WordMod
  OBVIOUS
<1> HIDE DEF step
<1>4. PICK r : Turns(r, L, Word, Seed, step)
  BY Zenon, <1>1, <1>2, WordsAreNumbers, Loop
<1>5. r \in [0..L -> Word] /\ r[0] = Seed /\ \A n \in 1..L : r[n] = step[n][r[n - 1]]
  BY Zenon, <1>4 DEF Turns
<1>6. \A n \in 1..L : r[n] = (r[n - 1] + data[n]) % WordMod
  <2>1. \A n \in 1..L : r[n - 1] \in Word
    BY <1>1, <1>5
  <2> QED  BY Zenon, <1>3, <1>5, <2>1
<1>7. sum = r
  <2> HIDE DEF sum
  <2>1. ASSUME NEW g, g = [n \in 0..L |-> IF n = 0 THEN Seed ELSE (g[n - 1] + data[n]) % WordMod]
        PROVE  g = r
    <3>1. g[0] = Seed /\ g = [n \in 0..L |-> g[n]]
      BY <1>1, <2>1
    <3>2. \A n \in 1..L : g[n] = (g[n - 1] + data[n]) % WordMod
      BY <1>1, <2>1
    <3>3. Solves(g, L, Word, Seed, step)
      BY Zenon, <1>3, <3>1, <3>2 DEF Solves
    <3> QED  BY Zenon, <1>1, <1>4, <3>3, OneLoop
  <2>2. r = [n \in 0..L |-> IF n = 0 THEN Seed ELSE (r[n - 1] + data[n]) % WordMod]
    BY <1>1, <1>5, <1>6
  <2>3. sum = [n \in 0..L |-> IF n = 0 THEN Seed ELSE (sum[n - 1] + data[n]) % WordMod]
    BY <2>2 DEF sum
  <2> QED  BY Zenon, <2>1, <2>3
<1>8. CheckSum(data) = sum[L]
  BY DEF CheckSum, L
<1> HIDE DEF sum
<1> QED
  BY Zenon, <1>5, <1>6, <1>7, <1>8 DEF SumTurns, L

(* It is a word.                                                           *)
LEMMA CheckSumType ==
  ASSUME NEW data \in Seq(Byte)
  PROVE  CheckSum(data) \in Word
<1>1. PICK sum : SumTurns(data, sum) /\ CheckSum(data) = sum[Len(data)]
  BY Zenon, CheckSumIs
<1>2. Len(data) \in 0..Len(data)
  OBVIOUS
<1> QED
  BY <1>1, <1>2 DEF SumTurns

(* Adding a word to a word overflows at most once.                         *)
LEMMA ModAdd ==
  ASSUME NEW x \in Word, NEW c \in Word
  PROVE  (x + c) % WordMod = IF x + c < WordMod THEN x + c ELSE x + c - WordMod
<1>1. /\ x \in Nat /\ c \in Nat /\ x < WordMod /\ c < WordMod
      /\ WordMod \in Nat /\ WordMod > 1
  BY WordsAreNumbers
<1>2. \A a \in Nat, b \in Nat : b < WordMod => (a * WordMod + b) % WordMod = b
  BY Zenon, <1>1, QuotientIs
<1>3. CASE x + c < WordMod
  <2>1. x + c \in Nat /\ 0 * WordMod + (x + c) = x + c
    BY <1>1
  <2>2. (0 * WordMod + (x + c)) % WordMod = x + c
    BY Zenon, <1>2, <1>3, <2>1, 0 \in Nat
  <2> QED  BY <1>3, <2>1, <2>2
<1>4. CASE ~(x + c < WordMod)
  <2>1. x + c - WordMod \in Nat /\ x + c - WordMod < WordMod
    BY <1>1, <1>4
  <2>2. (1 * WordMod + (x + c - WordMod)) % WordMod = x + c - WordMod
    BY Zenon, <1>2, <2>1, 1 \in Nat
  <2>3. 1 * WordMod + (x + c - WordMod) = x + c
    BY <1>1
  <2> QED  BY <1>4, <2>2, <2>3
<1> QED
  BY <1>3, <1>4

(* Different words stay different when the same is added, and different    *)
(* bytes keep sums apart.                                                  *)
LEMMA AddKeepsApart ==
  ASSUME NEW x \in Word, NEW y \in Word, NEW c \in Word, NEW d \in Word,
         (x = y /\ c # d) \/ (x # y /\ c = d)
  PROVE  (x + c) % WordMod # (y + d) % WordMod
<1>1. /\ x \in Nat /\ y \in Nat /\ c \in Nat /\ d \in Nat /\ WordMod \in Nat
      /\ x < WordMod /\ y < WordMod /\ c < WordMod /\ d < WordMod
  BY WordsAreNumbers
<1>2. (x + c) % WordMod = IF x + c < WordMod THEN x + c ELSE x + c - WordMod
  BY Zenon, ModAdd
<1>3. (y + d) % WordMod = IF y + d < WordMod THEN y + d ELSE y + d - WordMod
  BY Zenon, ModAdd
<1> QED
  BY <1>1, <1>2, <1>3

(* One altered byte alters the checksum.                                   *)
LEMMA ByteChangesSum ==
  ASSUME NEW data \in Seq(Byte), NEW k \in 1..Len(data), NEW b \in Byte, b # data[k]
  PROVE  CheckSum([data EXCEPT ![k] = b]) # CheckSum(data)
<1> DEFINE other == [data EXCEPT ![k] = b]
           L == Len(data)
<1>1. /\ L \in Nat /\ other \in Seq(Byte) /\ Len(other) = L /\ k \in 1..L /\ other[k] = b
      /\ \A n \in 1..L : data[n] \in Byte /\ other[n] \in Byte
      /\ \A n \in 1..L : n # k => other[n] = data[n]
  OBVIOUS
<1> HIDE DEF other
<1>2. PICK s : SumTurns(data, s) /\ CheckSum(data) = s[L]
  BY Zenon, CheckSumIs
<1>3. PICK t : SumTurns(other, t) /\ CheckSum(other) = t[L]
  BY Zenon, <1>1, CheckSumIs
<1>4. /\ s \in [0..L -> Word] /\ s[0] = Seed
      /\ \A n \in 1..L : s[n] = (s[n - 1] + data[n]) % WordMod
  BY Zenon, <1>2 DEF SumTurns
<1>5. /\ t \in [0..L -> Word] /\ t[0] = Seed
      /\ \A n \in 1..L : t[n] = (t[n - 1] + other[n]) % WordMod
  BY Zenon, <1>1, <1>3 DEF SumTurns
<1> HIDE DEF L
<1> DEFINE S == {n \in Nat : n <= L => IF n < k THEN s[n] = t[n] ELSE s[n] # t[n]}
<1>6. 0 \in S
  BY <1>1, <1>4, <1>5
<1>7. ASSUME NEW n \in Nat, n \in S PROVE n + 1 \in S
  <2> SUFFICES ASSUME n + 1 <= L
               PROVE  IF n + 1 < k THEN s[n + 1] = t[n + 1] ELSE s[n + 1] # t[n + 1]
    OBVIOUS
  <2>1. n + 1 \in 1..L /\ (n + 1) - 1 = n /\ n \in 0..L /\ k \in 1..L
    BY <1>1
  <2>2. /\ s[n + 1] = (s[n] + data[n + 1]) % WordMod
        /\ t[n + 1] = (t[n] + other[n + 1]) % WordMod
        /\ s[n] \in Word /\ t[n] \in Word
        /\ data[n + 1] \in Word /\ other[n + 1] \in Word
    BY Zenon, <1>1, <1>4, <1>5, <2>1, WordsAreNumbers
  <2>3. CASE n + 1 < k
    <3>1. s[n] = t[n] /\ other[n + 1] = data[n + 1]
      BY <1>1, <1>7, <2>1, <2>3
    <3> QED  BY Zenon, <2>2, <2>3, <3>1
  <2>4. CASE n + 1 = k
    <3>1. s[n] = t[n] /\ other[n + 1] # data[n + 1] /\ ~(n + 1 < k)
      BY <1>1, <1>7, <2>1, <2>4
    <3> QED  BY Zenon, <2>2, <3>1, AddKeepsApart
  <2>5. CASE n + 1 > k
    <3>1. s[n] # t[n] /\ other[n + 1] = data[n + 1] /\ ~(n + 1 < k)
      BY <1>1, <1>7, <2>1, <2>5
    <3> QED  BY Zenon, <2>2, <3>1, AddKeepsApart
  <2> QED  BY <2>1, <2>3, <2>4, <2>5
<1>8. L \in S
  <2> HIDE DEF S
  <2>1. Nat \subseteq S
    BY Zenon, <1>6, <1>7, InductionSet
  <2> QED  BY <1>1, <2>1
<1>9. s[L] # t[L]
  BY <1>1, <1>8
<1> QED
  BY Zenon, <1>2, <1>3, <1>9 DEF other

-----------------------------------------------------------------------------
(* Types.  A field has at least as many bytes of memory as its content.    *)

ByteField(f) ==
  /\ f \in [mPresent : BOOLEAN, mSize : Nat, mData : Seq(Byte)]
  /\ f.mSize <= Len(f.mData)

ByteFields(fields) ==
  fields \in FieldsType /\ \A i \in FieldIds : fields[i].mSize <= Len(fields[i].mData)

(* Fields of bytes are told one by one.                                    *)
LEMMA ByteFieldsAre ==
  ASSUME NEW fields
  PROVE  /\ ByteFields(fields) => \A i \in FieldIds : ByteField(fields[i])
         /\ (/\ DOMAIN fields = FieldIds /\ fields = [i \in FieldIds |-> fields[i]]
             /\ \A i \in FieldIds : ByteField(fields[i]))
              => ByteFields(fields)
BY DEF ByteFields, FieldsType, ByteField

(* Bytes behind bytes.                                                     *)
LEMMA BytesJoined ==
  ASSUME NEW a \in Seq(Byte), NEW b \in Seq(Byte)
  PROVE  /\ a \o b \in Seq(Byte) /\ Len(a \o b) = Len(a) + Len(b)
         /\ Len(a) \in Nat /\ Len(b) \in Nat
OBVIOUS

(* Part of a block.                                                        *)
LEMMA BytesCut ==
  ASSUME NEW a \in Seq(Byte), NEW m \in Nat, m > 0, NEW n \in Nat, n <= Len(a)
  PROVE  SubSeq(a, m, n) \in Seq(Byte)
OBVIOUS

(* Whatever is read of a buffer is a byte.                                 *)
LEMMA ByteRead ==
  ASSUME NEW buf \in Seq(Byte), NEW at
  PROVE  ByteAt(buf, at) \in Byte
<1>1. \A i \in DOMAIN buf : buf[i] \in Byte
  OBVIOUS
<1> QED
  BY Zenon, <1>1, BytesAreNumbers DEF ByteAt

(* The bytes of a block that another takes its place in stay its own.      *)
LEMMA OverBlock ==
  ASSUME NEW block \in Seq(Byte), NEW data \in Seq(Byte)
  PROVE  Over(block, data) \in Seq(Byte) /\ Len(data) <= Len(Over(block, data))
<1>1. SubSeq(block, Len(data) + 1, Len(block)) \in Seq(Byte)
  <2>1. Len(data) + 1 \in Nat /\ Len(data) + 1 > 0 /\ Len(block) \in Nat /\ Len(block) <= Len(block)
    OBVIOUS
  <2> QED  BY Zenon, <2>1, BytesCut
<1> DEFINE rest == SubSeq(block, Len(data) + 1, Len(block))
<1> HIDE DEF rest
<1>2. data \o rest \in Seq(Byte) /\ Len(data \o rest) = Len(data) + Len(rest)
      /\ Len(data) \in Nat /\ Len(rest) \in Nat
  BY <1>1, BytesJoined DEF rest
<1>3. Over(block, data) = data \o rest
  BY DEF Over, rest
<1> QED
  BY <1>2, <1>3

(* poly_field_init zeroes the block of the field.                          *)
LEMMA InitIsByteField ==
  ASSUME NEW i \in FieldIds
  PROVE  ByteField(FieldInit(Fields[i]))
<1> DEFINE n == FullSize(Fields[i])
           z == Zeros(n)
<1>1. n \in Nat
  BY FieldNumbers
<1>2. FieldInit(Fields[i]) = [mPresent |-> FALSE, mSize |-> n, mData |-> z]
  BY DEF FieldInit
<1> HIDE DEF n
<1>3. z \in Seq(Byte) /\ n <= Len(z)
  BY <1>1, BytesAreNumbers DEF Zeros
<1> HIDE DEF z
<1> QED
  BY <1>1, <1>2, <1>3 DEF ByteField

(* poly_field_set copies bytes into it.                                    *)
LEMMA SetIsByteField ==
  ASSUME NEW i \in FieldIds, NEW f, ByteField(f), NEW data \in Seq(Byte)
  PROVE  ByteField(FieldSet(f, Fields[i], data))
<1> DEFINE size == IF Fields[i].mVarLen THEN Len(data) ELSE f.mSize
           copied == [k \in 1..size |-> ByteAt(data, k)]
           block == Over(f.mData, copied)
<1>1. size \in Nat /\ f.mData \in Seq(Byte)
  BY DEF ByteField
<1>2. FieldSet(f, Fields[i], data) = [mPresent |-> TRUE, mSize |-> size, mData |-> block]
  BY DEF FieldSet
<1> HIDE DEF size
<1>3. copied \in Seq(Byte) /\ Len(copied) = size
  <2>1. \A k \in 1..size : ByteAt(data, k) \in Byte
    BY Zenon, ByteRead
  <2> QED  BY <1>1, <2>1
<1> HIDE DEF copied
<1>4. block \in Seq(Byte) /\ size <= Len(block)
  <2>1. block \in Seq(Byte) /\ Len(copied) <= Len(block)
    BY Zenon, <1>1, <1>3, OverBlock
  <2> QED  BY Zenon, <1>3, <2>1
<1> HIDE DEF block
<1> QED
  BY <1>1, <1>2, <1>4 DEF ByteField

(* poly_field_parse copies bytes into it or into a new one.                *)
LEMMA ParsedIsByteField ==
  ASSUME NEW f, ByteField(f), NEW bytes \in Seq(Byte)
  PROVE  ByteField(Parsed(f, bytes))
<1> DEFINE n == Len(bytes)
           block == IF n # f.mSize THEN bytes \o <<0>> ELSE Over(f.mData, bytes)
<1>1. n \in Nat /\ f.mData \in Seq(Byte)
  BY DEF ByteField
<1>2. block \in Seq(Byte) /\ n <= Len(block)
  <2>1. <<0>> \in Seq(Byte) /\ Len(<<0>>) = 1
    BY BytesAreNumbers
  <2>2. bytes \o <<0>> \in Seq(Byte) /\ Len(bytes \o <<0>>) = n + 1
    <3> DEFINE zero == <<0>>
    <3>1. zero \in Seq(Byte) /\ Len(zero) = 1
      BY <2>1
    <3> HIDE DEF zero
    <3>2. bytes \o zero \in Seq(Byte) /\ Len(bytes \o zero) = n + 1
      BY <3>1, BytesJoined
    <3> QED  BY <3>2 DEF zero
  <2>3. Over(f.mData, bytes) \in Seq(Byte) /\ n <= Len(Over(f.mData, bytes))
    BY Zenon, <1>1, OverBlock
  <2> QED  BY <1>1, <2>2, <2>3
<1>3. Parsed(f, bytes) = [mPresent |-> TRUE, mSize |-> n, mData |-> block]
  BY Zenon DEF Parsed
<1> HIDE DEF block, n
<1> QED
  BY <1>1, <1>2, <1>3 DEF ByteField

-----------------------------------------------------------------------------
(* What packing writes are bytes.                                          *)

(* poly_var_size_pack writes bytes.                                        *)
LEMMA PackedNumberBytes ==
  ASSUME NEW val \in Nat
  PROVE  VarSizePack(val) \in Seq(Byte)
<1>1. Width(val) \in 1..5
  BY Widths DEF MaxWidth
<1>2. \A i \in 1..5 : Weight[i] \in Nat \ {0}
  <2>1. \A x \in Nat \ {0} : x * Base \in Nat \ {0}
    BY BaseAssumption
  <2>2. Base \in Nat \ {0}
    BY BaseAssumption
  <2>3. Base * Base \in Nat \ {0} /\ Base * Base * Base \in Nat \ {0}
        /\ Base * Base * Base * Base \in Nat \ {0}
    BY Zenon, <2>1, <2>2
  <2> QED  BY <2>2, <2>3, Weights
<1>3. ASSUME NEW i \in 1..Width(val)
      PROVE  ((val \div Weight[i]) % Base) + (IF i < Width(val) THEN Base ELSE 0) \in Byte
  <2>1. Weight[i] \in Nat \ {0}
    BY <1>1, <1>2
  <2>2. val \div Weight[i] \in Int
    BY <2>1
  <2> DEFINE d == (val \div Weight[i]) % Base
  <2>3. d \in 0..Base - 1
    BY <2>2, BaseAssumption
  <2> HIDE DEF d
  <2>4. d + (IF i < Width(val) THEN Base ELSE 0) \in Byte
    BY <2>3, BaseAssumption DEF Byte
  <2> QED  BY Zenon, <2>4 DEF d
<1> QED
  BY <1>1, <1>3 DEF VarSizePack

(* poly_field_pack writes bytes.                                           *)
LEMMA PackedFieldBytes ==
  ASSUME NEW i \in FieldIds, NEW f, ByteField(f)
  PROVE  PackedField(i, f) \in Seq(Byte)
<1>1. <<>> \in Seq(Byte)
  OBVIOUS
<1>2. i - 1 \in Nat /\ f.mSize \in Nat /\ f.mData \in Seq(Byte) /\ f.mSize <= Len(f.mData)
  BY FieldNumbers DEF ByteField
<1>3. Content(f) \in Seq(Byte)
  <2>1. 1 \in Nat /\ 1 > 0
    OBVIOUS
  <2> QED  BY Zenon, <1>2, <2>1, BytesCut DEF Content
<1>4. VarSizePack(i - 1) \in Seq(Byte)
  BY Zenon, <1>2, PackedNumberBytes
<1> DEFINE s == IF Fields[i].mVarLen THEN VarSizePack(f.mSize) ELSE <<>>
<1>5. s \in Seq(Byte)
  <2>1. VarSizePack(f.mSize) \in Seq(Byte)
    BY Zenon, <1>2, PackedNumberBytes
  <2> QED  BY Zenon, <1>1, <2>1
<1> HIDE DEF s
<1>6. (VarSizePack(i - 1) \o s) \o Content(f) \in Seq(Byte)
  BY Zenon, <1>3, <1>4, <1>5, BytesJoined
<1>7. PackedField(i, f) = IF f.mPresent THEN (VarSizePack(i - 1) \o s) \o Content(f) ELSE <<>>
  BY DEF PackedField, s
<1> QED
  BY Zenon, <1>1, <1>6, <1>7

(* poly_packet_pack writes bytes.                                          *)
LEMMA PackedDataBytes ==
  ASSUME NEW fields, ByteFields(fields)
  PROVE  PackedData(fields) \in Seq(Byte)
<1> DEFINE N == Len(Fields)
           s == [i \in FieldIds |-> PackedField(i, fields[i])]
<1>1. N \in Nat /\ FieldIds = 1..N
  BY FieldNumbers
<1>2. \A i \in FieldIds : PackedField(i, fields[i]) \in Seq(Byte)
  BY Zenon, ByteFieldsAre, PackedFieldBytes
<1>3. PackedData(fields) = FlattenSeq(s)
  BY DEF PackedData
<1> HIDE DEF N
<1>4. s \in Seq(Seq(Byte))
  <2>1. s \in [1..N -> Seq(Byte)]
    BY <1>1, <1>2
  <2> QED  BY <1>1, <2>1
<1> HIDE DEF s
<1>5. PICK f \in [0..Len(s) -> Seq(Byte)] : FlattenSeq(s) = f[Len(s)]
  BY Zenon, <1>4, FlattenSteps
<1>6. Len(s) \in 0..Len(s)
  BY <1>4
<1>7. f[Len(s)] \in Seq(Byte)
  <2> DEFINE n == Len(s)
             A == Seq(Byte)
  <2>1. n \in 0..n /\ f \in [0..n -> A]
    BY <1>5, <1>6
  <2> HIDE DEF n, A
  <2>2. f[n] \in A
    BY <2>1
  <2> QED  BY <2>2 DEF n, A
<1> QED
  BY Zenon, <1>3, <1>5, <1>7

FrameType == [mDataLen : Word, mCheckSum : Word, data : Seq(Byte)]

(* It writes a header and bytes behind it.                                 *)
LEMMA PackedFrameType ==
  ASSUME NEW fields, ByteFields(fields)
  PROVE  PackedFrame(fields) \in FrameType
<1> DEFINE data == PackedData(fields)
<1>1. data \in Seq(Byte)
  BY Zenon, PackedDataBytes
<1>2. PackedFrame(fields)
        = [mDataLen |-> Len(data) % WordMod, mCheckSum |-> CheckSum(data), data |-> data]
  BY Zenon DEF PackedFrame
<1> HIDE DEF data
<1>3. Len(data) % WordMod \in Word
  <2>1. Len(data) \in Nat
    BY <1>1
  <2>2. \A n \in Nat : n % WordMod \in Word
    BY WordsAreNumbers DEF Word
  <2> QED  BY Zenon, <2>1, <2>2
<1>4. CheckSum(data) \in Word
  BY Zenon, <1>1, CheckSumType
<1> QED
  BY <1>1, <1>2, <1>3, <1>4 DEF FrameType

-----------------------------------------------------------------------------
(* What reading finds.                                                     *)

(* Whatever the buffer holds, a number is read from at most five bytes.    *)
LEMMA ReadsNumbers ==
  ASSUME NEW buf \in Seq(Byte), NEW at \in Nat
  PROVE  VarSizeLength(buf, at) \in 1..5 /\ VarSizeValue(buf, at) \in Nat
<1> DEFINE S == {i \in 0 .. MaxRead - 1 : ByteAt(buf, at + i) < Base} \cup {MaxRead}
           last == LastRead(buf, at)
<1>1. last \in 0..4
  <2>1. S \in SUBSET Nat /\ S # {} /\ S \subseteq 0..4
    BY DEF MaxRead
  <2>2. last = Min(S)
    BY DEF LastRead
  <2> HIDE DEF S
  <2>3. last \in S
    BY Zenon, <2>1, <2>2, LeastOf
  <2> QED  BY <2>1, <2>3
<1> HIDE DEF last
<1> DEFINE digit(i) == IF i <= last THEN (ByteAt(buf, at + i) % Base) * Weight[i + 1] ELSE 0
<1>2. \A i \in 0..3 : digit(i) \in Nat
  <2> TAKE i \in 0..3
  <2>1. ByteAt(buf, at + i) \in Nat
    BY Zenon, ByteRead, BytesAreNumbers
  <2>2. ByteAt(buf, at + i) % Base \in Nat
    BY <2>1, BaseAssumption
  <2>3. Weight[i + 1] \in Nat
    <3>1. \A x \in Nat : x * Base \in Nat
      BY BaseAssumption
    <3>2. Base \in Nat
      BY BaseAssumption
    <3>3. Base * Base \in Nat /\ Base * Base * Base \in Nat
      BY Zenon, <3>1, <3>2
    <3>4. i + 1 \in {1, 2, 3, 4}
      OBVIOUS
    <3> QED  BY <3>2, <3>3, <3>4, Weights
  <2>4. \A x, y \in Nat : x * y \in Nat
    OBVIOUS
  <2>5. (ByteAt(buf, at + i) % Base) * Weight[i + 1] \in Nat
    BY Zenon, <2>2, <2>3, <2>4
  <2> QED  BY <2>5
<1>3. VarSizeValue(buf, at) = digit(0) + digit(1) + digit(2) + digit(3)
  BY DEF VarSizeValue, last
<1> HIDE DEF digit
<1>4. VarSizeValue(buf, at) \in Nat
  BY <1>2, <1>3
<1>5. VarSizeLength(buf, at) = last + 1
  BY DEF VarSizeLength, last
<1> QED
  BY <1>1, <1>4, <1>5

(* The reader's progress: its fields, its cursor, and how it ended.        *)
ReaderType(r) ==
  /\ r = [fields |-> r.fields, at |-> r.at, result |-> r.result]
  /\ ByteFields(r.fields) /\ r.at \in Nat /\ r.result \in {"reading", "read", "error"}

(* poly_packet_build makes fields of bytes.                                *)
LEMMA BuiltIsByteFields == ByteFields(Built)
<1>1. \A i \in FieldIds : Built[i] = FieldInit(Fields[i])
  BY DEF Built
<1>2. \A i \in FieldIds : ByteField(Built[i])
  BY Zenon, <1>1, InitIsByteField
<1>3. DOMAIN Built = FieldIds /\ Built = [i \in FieldIds |-> Built[i]]
  BY DEF Built
<1> QED
  BY Zenon, <1>2, <1>3, ByteFieldsAre

(* A turn of the loop leaves fields of bytes and a cursor.                 *)
LEMMA ReadFieldType ==
  ASSUME NEW data \in Seq(Byte), NEW len, NEW r, ReaderType(r)
  PROVE  ReaderType(ReadField(r, data, len))
<1> DEFINE i == VarSizeValue(data, r.at) + 1
           at == r.at + VarSizeLength(data, r.at)
           size == ReadSize(i, data, at)
           start == ContentAt(i, data, at)
           end == start + size
           new == Parsed(r.fields[i], Bytes(data, start, size))
           fields == [r.fields EXCEPT ![i] = new]
           result == IF end = len + 1 THEN "read" ELSE "reading"
           next == [fields |-> fields, at |-> end, result |-> result]
<1>1. \/ ReadField(r, data, len) = r
      \/ ReadField(r, data, len) = [r EXCEPT !.result = "error"]
      \/ i \in FieldIds /\ ReadField(r, data, len) = next
  BY Zenon DEF ReadField
<1>2. ReaderType([r EXCEPT !.result = "error"])
  <2>1. [r EXCEPT !.result = "error"] = [fields |-> r.fields, at |-> r.at, result |-> "error"]
    BY DEF ReaderType
  <2> QED  BY <2>1 DEF ReaderType
<1>3. ASSUME i \in FieldIds PROVE ReaderType(next)
  <2>1. r.at \in Nat /\ VarSizeLength(data, r.at) \in 1..5
    BY Zenon, ReadsNumbers DEF ReaderType
  <2>2. at \in Nat
    BY <2>1
  <2> HIDE DEF at, i
  <2>3. VarSizeLength(data, at) \in 1..5 /\ VarSizeValue(data, at) \in Nat
    BY Zenon, <2>2, ReadsNumbers
  <2>4. FullSize(Fields[i]) \in Nat
    BY Zenon, <1>3, FieldNumbers
  <2>5. size \in Nat /\ start \in Nat
    BY <2>2, <2>3, <2>4 DEF ReadSize, ContentAt
  <2> HIDE DEF size, start
  <2>6. Bytes(data, start, size) \in Seq(Byte)
    <3>1. \A k \in 1..size : ByteAt(data, start + k - 1) \in Byte
      BY Zenon, ByteRead
    <3> QED  BY <2>5, <3>1 DEF Bytes
  <2>7. ByteFields(r.fields)
    BY DEF ReaderType
  <2>8. ByteField(new)
    BY Zenon, <1>3, <2>6, <2>7, ByteFieldsAre, ParsedIsByteField
  <2> HIDE DEF new
  <2>9. ByteFields(fields)
    <3>1. DOMAIN r.fields = FieldIds /\ r.fields = [k \in FieldIds |-> r.fields[k]]
      BY <2>7 DEF ByteFields, FieldsType
    <3>2. \A k \in FieldIds : ByteField(r.fields[k])
      BY Zenon, <2>7, ByteFieldsAre
    <3>3. /\ DOMAIN fields = FieldIds /\ fields = [k \in FieldIds |-> fields[k]]
          /\ \A k \in FieldIds : fields[k] = IF k = i THEN new ELSE r.fields[k]
      BY <3>1
    <3> HIDE DEF fields
    <3>4. \A k \in FieldIds : ByteField(fields[k])
      BY Zenon, <2>8, <3>2, <3>3
    <3> QED  BY Zenon, <3>3, <3>4, ByteFieldsAre
  <2> HIDE DEF fields
  <2>10. end \in Nat /\ result \in {"reading", "read", "error"}
    BY <2>5
  <2> HIDE DEF end, result
  <2> QED  BY <2>9, <2>10 DEF ReaderType
<1> HIDE DEF next
<1> QED
  BY Zenon, <1>1, <1>2, <1>3

(* So does the whole loop.                                                 *)
LEMMA FieldsReadType ==
  ASSUME NEW data \in Seq(Byte), NEW len
  PROVE  ReaderType(FieldsRead(data, len))
<1> DEFINE N == Len(Fields)
<1>1. N \in Nat
  BY FieldNumbers
<1>2. PICK r : /\ FieldsRead(data, len) = r[N] /\ r[0] = Started
               /\ \A n \in 1..N : r[n] = ReadField(r[n - 1], data, len)
  BY Zenon, FieldsReadIs
<1> HIDE DEF N
<1> DEFINE S == {n \in Nat : n <= N => ReaderType(r[n])}
<1>3. 0 \in S
  <2>1. ReaderType(Started)
    BY BuiltIsByteFields DEF ReaderType, Started
  <2> QED  BY <1>2, <2>1
<1>4. ASSUME NEW n \in Nat, n \in S PROVE n + 1 \in S
  <2> SUFFICES ASSUME n + 1 <= N PROVE ReaderType(r[n + 1])
    OBVIOUS
  <2>1. n + 1 \in 1..N /\ (n + 1) - 1 = n /\ ReaderType(r[n])
    BY <1>1, <1>4
  <2>2. r[n + 1] = ReadField(r[n], data, len)
    BY <1>2, <2>1
  <2> QED  BY Zenon, <2>1, <2>2, ReadFieldType
<1>5. N \in S
  <2> HIDE DEF S
  <2>1. Nat \subseteq S
    BY Zenon, <1>3, <1>4, InductionSet
  <2> QED  BY <1>1, <2>1
<1>6. N <= N
  BY <1>1
<1> QED
  BY Zenon, <1>2, <1>5, <1>6

-----------------------------------------------------------------------------
(* What a JSON text is read as are bytes.                                  *)

(* A string ends at the first zero, at the latest behind its block.        *)
LEMMA CStringBytes ==
  ASSUME NEW bytes \in Seq(Byte)
  PROVE  /\ CString(bytes) \in Seq(Byte)
         /\ Len(CString(bytes)) <= Len(bytes)
<1> DEFINE S == {k \in 1 .. Len(bytes) + 1 : ByteAt(bytes, k) = 0}
<1>1. Len(bytes) \in Nat /\ Len(bytes) + 1 \in S
  <2>1. Len(bytes) + 1 \notin DOMAIN bytes /\ Len(bytes) \in Nat
    OBVIOUS
  <2> QED  BY <2>1 DEF ByteAt
<1>2. Min(S) \in S
  <2>1. S \in SUBSET Nat /\ S # {}
    BY <1>1
  <2> HIDE DEF S
  <2> QED  BY Zenon, <2>1, LeastOf
<1> DEFINE n == Min(S) - 1
<1>3. n \in Nat /\ n <= Len(bytes)
  <2>1. Min(S) \in 1 .. Len(bytes) + 1
    BY <1>2
  <2> HIDE DEF S
  <2> QED  BY <1>1, <2>1
<1>4. CString(bytes) = SubSeq(bytes, 1, n)
  BY DEF CString
<1> HIDE DEF n
<1>5. SubSeq(bytes, 1, n) \in Seq(Byte) /\ Len(SubSeq(bytes, 1, n)) = n
  BY <1>3
<1> QED
  BY <1>3, <1>4, <1>5

(* What lies behind a block are bytes.                                     *)
LEMMA BehindBytes ==
  ASSUME NEW behind \in Behind
  PROVE  behind \in Seq(Byte)
<1>1. behind = <<>> \/ \E b \in MustEscape \cup {1} : behind = <<b>>
  BY DEF Behind
<1>2. <<>> \in Seq(Byte) /\ 1 \in Byte
  BY BaseAssumption DEF Byte
<1>3. \A b \in Byte : <<b>> \in Seq(Byte)
  OBVIOUS
<1>4. MustEscape \subseteq Byte
  BY FieldAssumption
<1> QED
  BY Zenon, <1>1, <1>2, <1>3, <1>4

(* What strtol makes of a number has the width of the field.               *)
LEMMA SaturatedType ==
  ASSUME NEW desc, desc.mObjSize \in Nat,
         NEW bytes \in Seq(Byte), Len(bytes) = desc.mObjSize
  PROVE  /\ Saturated(desc, bytes) \in Seq(Byte)
         /\ Len(Saturated(desc, bytes)) = desc.mObjSize
<1> DEFINE last == 2 * Base - 1
           signed(k) == IsSigned(desc) /\ bytes[k] >= Base
           negative == desc.mFormat # "HEX" /\ signed(desc.mObjSize)
           fill == IF negative THEN last ELSE 0
           high == IF IsSigned(desc) THEN Base - 1 ELSE last
           farthest(k) == IF k > LongBytes THEN fill
                          ELSE IF negative THEN (IF k < LongBytes THEN 0 ELSE Base)
                          ELSE IF k < LongBytes THEN last ELSE high
           far == [k \in 1..desc.mObjSize |-> farthest(k)]
<1>1. Saturated(desc, bytes) = bytes \/ Saturated(desc, bytes) = far
  BY Zenon DEF Saturated
<1>2. last \in Byte /\ 0 \in Byte /\ Base \in Byte /\ Base - 1 \in Byte
  BY BaseAssumption DEF Byte
<1>3. \A k : farthest(k) \in Byte
  <2> HIDE DEF last, negative
  <2> QED  BY <1>2
<1>4. far \in Seq(Byte) /\ Len(far) = desc.mObjSize
  <2> HIDE DEF farthest
  <2> QED  BY <1>3
<1> HIDE DEF far
<1> QED
  BY <1>1, <1>4

(* A number no wider than a long is what it was.                           *)
LEMMA SaturatedIs ==
  ASSUME NEW desc, desc.mObjSize \in Nat, NEW bytes,
         desc.mObjSize <= LongBytes, desc.mObjSize = LongBytes => desc.mFormat # "HEX"
  PROVE  Saturated(desc, bytes) = bytes
<1>1. LongBytes + 1 .. desc.mObjSize = {}
  BY FieldAssumption
<1>2. LongBytes <= desc.mObjSize => desc.mObjSize = LongBytes
  BY FieldAssumption
<1> QED
  BY Zenon, <1>1, <1>2 DEF Saturated

(* The objects of a field have a size.                                     *)
LEMMA ObjectsOf ==
  ASSUME NEW i \in FieldIds
  PROVE  Fields[i].mObjSize \in Nat /\ Fields[i].mObjSize > 0
<1> DEFINE R == [mDataType : DOMAIN ObjSize, mLen : Nat, mObjSize : Nat \ {0},
                 mVarLen : BOOLEAN, mNullTerm : BOOLEAN, mFormat : STRING]
<1>1. Fields \in Seq(R)
  BY Zenon, CodecAssumption
<1>2. Fields[i] \in R
  <2> HIDE DEF R
  <2> QED  BY <1>1 DEF FieldIds
<1>3. Fields[i].mObjSize \in Nat \ {0}
  <2> DEFINE d == Fields[i]
  <2> HIDE DEF d
  <2>1. d \in R
    BY <1>2 DEF d
  <2>2. d.mObjSize \in Nat \ {0}
    BY <2>1
  <2> QED  BY <2>2 DEF d
<1> QED  BY <1>3

(* What is printed can be read: a text as characters, anything else as a   *)
(* number, whatever the reader finds in an array.                          *)
LEMMA PrintedReads ==
  ASSUME NEW i \in FieldIds, NEW f, ByteField(f), NEW behind \in Behind, NEW found \in Byte
  PROVE  LET t == PrintJson(f, Fields[i], behind)
         IN  /\ IsText(Fields[i]) => t.bytes \in Seq(Byte)
             /\ ReadNumber(Fields[i], t, found) \in Nat
<1> DEFINE desc == Fields[i]
           t == PrintJson(f, desc, behind)
           size == desc.mObjSize
           object(e) == SubSeq(f.mData, (e - 1) * size + 1, e * size)
           n == f.mSize \div size
<1>1. size \in Nat /\ size > 0 /\ f.mSize \in Nat /\ f.mData \in Seq(Byte)
      /\ f.mSize <= Len(f.mData)
  BY ObjectsOf DEF ByteField
<1>2. CString(f.mData \o behind) \in Seq(Byte)
  <2>1. behind \in Seq(Byte)
    BY Zenon, BehindBytes
  <2> QED  BY Zenon, <1>1, <2>1, BytesJoined, CStringBytes
<1>3. IsText(desc) => desc.mFormat = "ASCII"
  BY Zenon, CodecAssumption
<1>4. desc.mFormat = "ASCII" => t = [kind |-> "string", bytes |-> CString(f.mData \o behind)]
  BY DEF PrintJson
<1>5. desc.mFormat # "ASCII" /\ n # 1 => t.kind = "array"
  BY DEF PrintJson
<1>6. desc.mFormat # "ASCII" /\ n = 1 => t = PrintVal(desc, object(1))
  BY DEF PrintJson
<1>7. n = 1 => object(1) \in Seq(Byte)
  <2> SUFFICES ASSUME n = 1 PROVE object(1) \in Seq(Byte)
    OBVIOUS
  <2>1. size <= f.mSize
    <3> DEFINE q == f.mSize \div size
               m == f.mSize % size
    <3>1. m \in Nat /\ f.mSize = size * q + m
      BY <1>1
    <3>2. q = 1
      OBVIOUS
    <3> HIDE DEF m, q
    <3> QED  BY <1>1, <3>1, <3>2
  <2>2. (1 - 1) * size + 1 = 1 /\ 1 * size = size
    BY <1>1
  <2>3. object(1) = SubSeq(f.mData, 1, size)
    BY Zenon, <2>2
  <2>4. size <= Len(f.mData) /\ Len(f.mData) \in Nat
    BY <1>1, <2>1
  <2>5. 1 \in Nat /\ 1 > 0
    OBVIOUS
  <2> QED  BY Zenon, <1>1, <2>3, <2>4, <2>5, BytesCut
<1>8. \A b \in Seq(Byte) : Reverse(b) \in Seq(Byte)
  <2> TAKE b \in Seq(Byte)
  <2>1. \A k \in 1..Len(b) : b[(Len(b) - k) + 1] \in Byte
    OBVIOUS
  <2> QED  BY <2>1 DEF Reverse
<1>9. \A b \in Seq(Byte) : NumberOf(b) \in Nat
  BY Zenon, BytesBack
<1>10. IsText(desc) => t.bytes \in Seq(Byte)
  BY <1>2, <1>3, <1>4
<1>11. found \in Nat
  BY BytesAreNumbers
<1>12. ReadNumber(desc, t, found) \in Nat
  <2>1. CASE desc.mFormat = "ASCII"
    BY <1>4, <1>11, <2>1 DEF ReadNumber
  <2>2. CASE desc.mFormat # "ASCII" /\ n # 1
    BY <1>5, <1>11, <2>2 DEF ReadNumber
  <2>3. CASE desc.mFormat # "ASCII" /\ n = 1
    <3>1. t = PrintVal(desc, object(1)) /\ object(1) \in Seq(Byte)
      BY Zenon, <1>6, <1>7, <2>3
    <3> DEFINE o == object(1)
    <3> HIDE DEF t, n, object, o
    <3>2. CASE desc.mFormat = "HEX"
      <4>1. t = [kind |-> "hex", bytes |-> o]
        BY <3>1, <3>2 DEF PrintVal, o
      <4>2. ReadNumber(desc, t, found) = NumberOf(Reverse(o))
        BY <3>2, <4>1 DEF ReadNumber
      <4> QED  BY Zenon, <1>8, <1>9, <3>1, <4>2 DEF o
    <3>3. CASE desc.mFormat # "HEX"
      <4>1. t = [kind |-> "number", value |-> NumberOf(o)]
        BY <3>1, <3>3 DEF PrintVal, o
      <4>2. ReadNumber(desc, t, found) = NumberOf(o)
        BY <4>1 DEF ReadNumber
      <4> QED  BY Zenon, <1>9, <3>1, <4>2 DEF o
    <3> QED  BY <3>2, <3>3
  <2> QED  BY <2>1, <2>2, <2>3
<1> HIDE DEF t
<1> QED
  BY Zenon, <1>10, <1>12 DEF t

(* What poly_packet_parse_json_obj reads of the text are fields of bytes.  *)
LEMMA TextIsByteFields ==
  ASSUME ByteFields(sent), NEW behind \in Behind, text = PrintedText(behind), NEW found \in Byte
  PROVE  ByteFields(FieldsOfText(found))
<1> DEFINE fields == FieldsOfText(found)
<1>1. /\ DOMAIN fields = FieldIds /\ fields = [i \in FieldIds |-> fields[i]]
      /\ DOMAIN text = Present(sent)
      /\ \A i \in FieldIds : fields[i] = IF i \in DOMAIN text
                                         THEN ParseStr(Built[i], Fields[i], text[i], found)
                                         ELSE Built[i]
      /\ \A i \in Present(sent) : text[i] = PrintJson(sent[i], Fields[i], behind)
  BY DEF FieldsOfText, PrintedText
<1> HIDE DEF fields
<1>2. \A i \in FieldIds : ByteField(Built[i]) /\ ByteField(sent[i])
  BY Zenon, BuiltIsByteFields, ByteFieldsAre
<1>3. ASSUME NEW i \in Present(sent)
      PROVE  i \in FieldIds /\ ByteField(ParseStr(Built[i], Fields[i], text[i], found))
  <2>1. i \in FieldIds
    BY DEF Present
  <2> DEFINE t == PrintJson(sent[i], Fields[i], behind)
             number == ReadNumber(Fields[i], t, found)
             bytes == BytesOf(number, Fields[i].mObjSize)
             data == IF IsText(Fields[i]) THEN t.bytes ELSE Saturated(Fields[i], bytes)
  <2>2. number \in Nat /\ (IsText(Fields[i]) => t.bytes \in Seq(Byte))
    BY Zenon, <1>2, <2>1, PrintedReads
  <2>3. Fields[i].mObjSize \in Nat
    BY Zenon, <2>1, ObjectsOf
  <2>4. ParseStr(Built[i], Fields[i], text[i], found) = FieldSet(Built[i], Fields[i], data)
    BY Zenon, <1>1 DEF ParseStr
  <2> HIDE DEF number, t
  <2>5. data \in Seq(Byte)
    <3>1. bytes \in Seq(Byte) /\ Len(bytes) = Fields[i].mObjSize
      BY Zenon, <2>2, <2>3, BytesOfType
    <3>2. Saturated(Fields[i], bytes) \in Seq(Byte)
      BY Zenon, <2>3, <3>1, SaturatedType
    <3> QED  BY Zenon, <2>2, <3>2
  <2> HIDE DEF data
  <2> QED  BY Zenon, <1>2, <2>1, <2>4, <2>5, SetIsByteField
<1>4. \A i \in FieldIds : ByteField(fields[i])
  BY ZenonT(40), <1>1, <1>2, <1>3
<1> QED
  BY Zenon, <1>1, <1>4, ByteFieldsAre DEF fields

-----------------------------------------------------------------------------
(* Type correctness.  To type what is read of a text the invariant says    *)
(* where the text comes from.                                              *)

TextInv ==
  /\ pc = "build" => text = <<>>
  /\ pc = "text" => \E behind \in Behind : text = PrintedText(behind)

(* The type invariant by its parts.                                        *)
LEMMA TypeParts ==
  TypeOK <=>
    /\ ByteFields(sent) /\ ByteFields(received) /\ frame \in FrameType
    /\ DOMAIN text \subseteq FieldIds
    /\ pc \in {"build", "text", "line", "parsed", "overrun", "misread"}
    /\ journey \in {"none", "frame", "text", "changed", "cut", "longer"}
    /\ status \in {"PACKET_NONE", "PACKET_VALID", "PACKET_INCOMPLETE",
                   "PACKET_PARSING_ERROR", "PACKET_BAD_CHECKSUM"}
BY DEF TypeOK, ByteFields, FrameType

(* It holds at the start.                                                  *)
LEMMA CodecTypeInit == Init => TypeOK /\ TextInv
<1> SUFFICES ASSUME Init PROVE TypeOK /\ TextInv
  OBVIOUS
<1>1. NoFrame \in FrameType
  BY WordsAreNumbers DEF NoFrame, FrameType
<1>2. TypeOK
  BY <1>1, BuiltIsByteFields, TypeParts DEF Init
<1> QED
  BY <1>2 DEF Init, TextInv

(* What poly_packet_parse_buffer returns.                                  *)
LEMMA ParseStatusType ==
  ASSUME NEW f
  PROVE  ParseStatus(f) \in {"PACKET_VALID", "PACKET_INCOMPLETE",
                             "PACKET_PARSING_ERROR", "PACKET_BAD_CHECKSUM"}
BY DEF ParseStatus

(* One altered byte, one altered word, fewer bytes or more of them.        *)
LEMMA DamagedFrameType ==
  ASSUME frame \in FrameType
  PROVE  /\ \A k \in DOMAIN frame.data, b \in Byte : [frame EXCEPT !.data[k] = b] \in FrameType
         /\ \A w \in Word : [frame EXCEPT !.mDataLen = w] \in FrameType
         /\ \A w \in Word : [frame EXCEPT !.mCheckSum = w] \in FrameType
         /\ \A n \in 0 .. Len(frame.data) - 1 :
              [frame EXCEPT !.data = SubSeq(frame.data, 1, n)] \in FrameType
         /\ \A b \in Byte : [frame EXCEPT !.data = Append(frame.data, b)] \in FrameType
<1> DEFINE d == frame.data
<1>1. d \in Seq(Byte)
  BY DEF FrameType
<1>2. \A new \in Seq(Byte) : [frame EXCEPT !.data = new] \in FrameType
  BY DEF FrameType
<1>3. \A k \in DOMAIN d, b \in Byte : [frame EXCEPT !.data[k] = b]
                                        = [frame EXCEPT !.data = [d EXCEPT ![k] = b]]
  BY DEF FrameType
<1> HIDE DEF d
<1>4. \A k \in DOMAIN d, b \in Byte : [d EXCEPT ![k] = b] \in Seq(Byte)
  BY <1>1
<1>5. \A n \in 0 .. Len(d) - 1 : SubSeq(d, 1, n) \in Seq(Byte)
  BY <1>1
<1>6. \A b \in Byte : Append(d, b) \in Seq(Byte)
  BY <1>1
<1>7. \A k \in DOMAIN d, b \in Byte : [frame EXCEPT !.data[k] = b] \in FrameType
  <2> TAKE k \in DOMAIN d, b \in Byte
  <2>1. [frame EXCEPT !.data = [d EXCEPT ![k] = b]] \in FrameType
    BY Zenon, <1>2, <1>4
  <2>2. [frame EXCEPT !.data[k] = b] = [frame EXCEPT !.data = [d EXCEPT ![k] = b]]
    BY <1>3
  <2> QED  BY Zenon, <2>1, <2>2
<1>8. \A n \in 0 .. Len(d) - 1 : [frame EXCEPT !.data = SubSeq(d, 1, n)] \in FrameType
  BY Zenon, <1>2, <1>5
<1>9. \A b \in Byte : [frame EXCEPT !.data = Append(d, b)] \in FrameType
  BY Zenon, <1>2, <1>6
<1>10. \A w \in Word : /\ [frame EXCEPT !.mDataLen = w] \in FrameType
                       /\ [frame EXCEPT !.mCheckSum = w] \in FrameType
  BY DEF FrameType
<1> QED
  BY Zenon, <1>7, <1>8, <1>9, <1>10 DEF d

(* Every operation keeps it.                                               *)
LEMMA CodecTypeStep ==
  ASSUME TypeOK, TextInv, [Next]_vars
  PROVE  TypeOK' /\ TextInv'
<1> DEFINE Types ==
      /\ ByteFields(sent) /\ ByteFields(received) /\ frame \in FrameType
      /\ DOMAIN text \subseteq FieldIds
      /\ pc \in {"build", "text", "line", "parsed", "overrun", "misread"}
      /\ journey \in {"none", "frame", "text", "changed", "cut", "longer"}
      /\ status \in {"PACKET_NONE", "PACKET_VALID", "PACKET_INCOMPLETE",
                     "PACKET_PARSING_ERROR", "PACKET_BAD_CHECKSUM"}
<1>1. Types
  BY TypeParts
<1>2. Types' => TypeOK'
  BY DEF TypeOK, ByteFields, FrameType
<1>3. UNCHANGED <<sent, text>> /\ (pc' = pc \/ pc' \notin {"build", "text"}) => TextInv'
  BY DEF TextInv, PrintedText, Present
<1>4. ASSUME NEW i \in FieldIds, NEW content \in Contents(i), Set(i, content)
      PROVE  TypeOK' /\ TextInv'
  <2>1. /\ sent' = [sent EXCEPT ![i] = FieldSet(sent[i], Fields[i], content)]
        /\ pc = "build" /\ UNCHANGED <<text, frame, pc, journey, received, status>>
    BY <1>4 DEF Set
  <2>2. content \in Seq(Byte)
    BY CodecAssumption
  <2>3. ByteField(FieldSet(sent[i], Fields[i], content))
    BY Zenon, <1>1, <2>2, ByteFieldsAre, SetIsByteField
  <2>4. ByteFields(sent')
    <3>1. DOMAIN sent = FieldIds /\ sent = [k \in FieldIds |-> sent[k]]
      BY <1>1 DEF ByteFields, FieldsType
    <3>2. /\ DOMAIN sent' = FieldIds /\ sent' = [k \in FieldIds |-> sent'[k]]
          /\ \A k \in FieldIds : sent'[k] = IF k = i THEN FieldSet(sent[i], Fields[i], content)
                                                     ELSE sent[k]
      BY <2>1, <3>1
    <3>3. \A k \in FieldIds : ByteField(sent'[k])
      BY Zenon, <1>1, <2>3, <3>2, ByteFieldsAre
    <3> QED  BY Zenon, <3>2, <3>3, ByteFieldsAre
  <2>5. Types'
    BY <1>1, <2>1, <2>4 DEF ByteFields
  <2>6. TextInv'
    BY <2>1 DEF TextInv
  <2> QED  BY <1>2, <2>5, <2>6
<1>5. ASSUME NEW behind \in Behind, PrintPacket(behind) PROVE TypeOK' /\ TextInv'
  <2>1. /\ UNCHANGED <<sent, frame, received, status>> /\ journey' = "text"
        /\ \/ pc' = "overrun" /\ text' = text
           \/ pc' = "text" /\ text' = PrintedText(behind)
    BY <1>5 DEF PrintPacket
  <2>2. DOMAIN text' \subseteq FieldIds
    BY <1>1, <2>1 DEF PrintedText, Present
  <2>3. Types'
    BY <1>1, <2>1, <2>2 DEF ByteFields
  <2>4. TextInv'
    BY <2>1 DEF TextInv, PrintedText, Present
  <2> QED  BY <1>2, <2>3, <2>4
<1>6. ASSUME NEW found \in Byte, FeedJson(found) \/ HandleJson(found)
      PROVE  TypeOK' /\ TextInv'
  <2>1. /\ pc = "text" /\ pc' \in {"overrun", "line", "parsed"}
        /\ UNCHANGED <<sent, text, journey>>
        /\ frame' = frame \/ frame' = PackedFrame(FieldsOfText(found))
        /\ received' = received \/ received' = FieldsOfText(found)
        /\ status' \in {status, "PACKET_VALID"}
    BY <1>6 DEF FeedJson, HandleJson
  <2>2. ByteFields(FieldsOfText(found))
    BY Zenon, <1>1, <2>1, TextIsByteFields DEF TextInv
  <2>3. PackedFrame(FieldsOfText(found)) \in FrameType
    BY Zenon, <2>2, PackedFrameType
  <2>4. ByteFields(received')
    BY Zenon, <1>1, <2>1, <2>2
  <2>5. frame' \in FrameType
    BY Zenon, <1>1, <2>1, <2>3
  <2>6. Types'
    BY <1>1, <2>1, <2>4, <2>5 DEF ByteFields
  <2>7. TextInv'
    BY <2>1 DEF TextInv
  <2> QED  BY <1>2, <2>6, <2>7
<1>7. ASSUME Pack PROVE TypeOK' /\ TextInv'
  <2>1. /\ frame' = PackedFrame(sent) /\ pc' = "line" /\ journey' = "frame"
        /\ UNCHANGED <<sent, text, received, status>>
    BY <1>7 DEF Pack
  <2>2. frame' \in FrameType
    BY Zenon, <1>1, <2>1, PackedFrameType
  <2>3. Types'
    BY <1>1, <2>1, <2>2 DEF ByteFields
  <2> QED  BY <1>2, <1>3, <2>1, <2>3
<1>8. ASSUME NEW kind \in {"changed", "cut", "longer"}, NEW broken \in FrameType,
             Damage(kind, broken)
      PROVE  TypeOK' /\ TextInv'
  <2>1. /\ frame' = broken /\ journey' = kind /\ UNCHANGED <<sent, text, pc, received, status>>
    BY <1>8 DEF Damage
  <2>2. Types'
    BY <1>1, <2>1 DEF ByteFields
  <2> QED  BY <1>2, <1>3, <2>1, <2>2
<1>9. ASSUME DamageByte \/ DamageHeader \/ CutOff \/ RunsOn PROVE TypeOK' /\ TextInv'
  <2>1. CASE DamageByte
    BY Zenon, <1>1, <1>8, <2>1, DamagedFrameType DEF DamageByte
  <2>2. CASE DamageHeader
    BY Zenon, <1>1, <1>8, <2>2, DamagedFrameType DEF DamageHeader
  <2>3. CASE CutOff
    BY Zenon, <1>1, <1>8, <2>3, DamagedFrameType DEF CutOff
  <2>4. CASE RunsOn
    BY Zenon, <1>1, <1>8, <2>4, DamagedFrameType DEF RunsOn
  <2> QED  BY Zenon, <1>9, <2>1, <2>2, <2>3, <2>4
<1>10. ASSUME Parse PROVE TypeOK' /\ TextInv'
  <2> DEFINE read == FieldsRead(frame.data, frame.mDataLen)
  <2>1. /\ UNCHANGED <<sent, text, frame, journey>> /\ pc' = "parsed"
        /\ status' = ParseStatus(frame)
        /\ received' = read.fields \/ received' = Built
    BY <1>10 DEF Parse
  <2>2. frame.data \in Seq(Byte)
    BY <1>1 DEF FrameType
  <2>3. ByteFields(read.fields)
    BY Zenon, <2>2, FieldsReadType DEF ReaderType
  <2> HIDE DEF read
  <2>4. ByteFields(received')
    BY Zenon, <2>1, <2>3, BuiltIsByteFields
  <2>5. Types'
    BY <1>1, <2>1, <2>4, ParseStatusType DEF ByteFields
  <2> QED  BY <1>2, <1>3, <2>1, <2>5
<1>12. ASSUME Misread PROVE TypeOK' /\ TextInv'
  <2>1. pc' = "misread" /\ UNCHANGED <<sent, text, frame, journey, received, status>>
    BY <1>12 DEF Misread
  <2>2. Types'
    BY <1>1, <2>1 DEF ByteFields
  <2>3. TextInv'
    BY <2>1 DEF TextInv
  <2> QED  BY <1>2, <2>2, <2>3
<1>11. ASSUME UNCHANGED vars PROVE TypeOK' /\ TextInv'
  <2>1. Types'
    BY <1>1, <1>11 DEF vars, ByteFields
  <2> QED  BY <1>2, <1>3, <1>11, <2>1 DEF vars
<1> QED
  BY Zenon, <1>4, <1>5, <1>6, <1>7, <1>9, <1>10, <1>11, <1>12 DEF Next

(* A packet, its frame, its text and what the receiver makes of them have  *)
(* their types: whatever the line or the JSON library hands over, reading  *)
(* never takes a value that is no byte, and the content of a field lies    *)
(* within its memory.                                                      *)
THEOREM CodecTypeCorrect == Spec => []TypeOK
<1>1. TypeOK /\ TextInv /\ [Next]_vars => TypeOK' /\ TextInv'
  BY CodecTypeStep
<1> QED
  BY <1>1, CodecTypeInit, PTL DEF Spec

-----------------------------------------------------------------------------
(* A damaged frame                                                         *)

(* One turn of the loop over a frame whose header counts fewer bytes than  *)
(* were packed: the next field is read if it ends within those, and is an  *)
(* error otherwise.                                                        *)
LEMMA ShortTurn ==
  ASSUME NEW fields, Packable(fields), NEW off, Layout(fields, off),
         NEW data, StartsWith(data, fields), NEW n \in FieldIds,
         fields[n].mPresent, n - 1 < Weight[5],
         NEW w \in Nat, NEW r, r.result = "reading", r.at = off[n - 1] + 1
  PROVE  LET next == ReadField(r, data, w)
         IN  \/ next.result = "error"
             \/ off[n] = w /\ w > 0
             \/ next.result = "reading" /\ next.at = off[n] + 1 /\ off[n] <= w
<1> DEFINE f == fields[n]
           behind == r.at + VarSizeLength(data, r.at)
           end == ContentAt(n, data, behind) + f.mSize
           got == [r.fields EXCEPT ![n] =
                     Parsed(@, Bytes(data, ContentAt(n, data, behind), f.mSize))]
<1>1. FoundAt(data, off[n - 1] + 1, n, f, off[n] + 1)
  BY Zenon, FieldReadBack
<1>2. off[n] \in Nat /\ off[n] > 0
  <2>1. PartLies(data, off[n - 1], PackedField(n, fields[n]), off[n], Len(PackedData(fields)))
    BY Zenon, PartInBuffer
  <2>2. off[n - 1] \in Nat /\ off[n] \in Nat
    BY Zenon, <2>1 DEF PartLies
  <2>3. off[n - 1] < off[n]
    BY Zenon, FieldReadBack
  <2> QED  BY <2>2, <2>3
<1>3. /\ VarSizeValue(data, r.at) = n - 1 /\ ReadSize(n, data, behind) = f.mSize
      /\ end = off[n] + 1
  BY Zenon, <1>1 DEF FoundAt
<1>4. (n - 1) + 1 = n
  <2>1. FieldIds = 1..Len(Fields) /\ Len(Fields) \in Nat
    BY FieldNumbers
  <2> QED  BY <2>1
<1>5. ReadField(r, data, w)
        = IF off[n] + 1 > w + 1 THEN [r EXCEPT !.result = "error"]
          ELSE [fields |-> got, at |-> off[n] + 1,
                result |-> IF off[n] + 1 = w + 1 THEN "read" ELSE "reading"]
  <2> HIDE DEF behind
  <2>1. behind = r.at + VarSizeLength(data, r.at)
    BY DEF behind
  <2> QED  BY Zenon, <1>3, <1>4, <2>1 DEF ReadField
<1> HIDE DEF got
<1>6. CASE off[n] + 1 > w + 1
  <2>1. r.result = "reading" => [r EXCEPT !.result = "error"].result = "error"
    OBVIOUS
  <2> QED  BY <1>5, <1>6, <2>1
<1>7. CASE ~(off[n] + 1 > w + 1)
  BY <1>2, <1>5, <1>7
<1> QED
  BY <1>6, <1>7

(* A frame whose header counts too few bytes does not parse unless they    *)
(* are those of the first fields.                                          *)
LEMMA ShortRead ==
  ASSUME IdsFit, NEW fields, Packable(fields), NEW off, Layout(fields, off),
         NEW data, StartsWith(data, fields), NEW w \in Nat, w < Len(PackedData(fields)),
         FieldsRead(data, w).result # "error"
  PROVE  w > 0 /\ \E n \in FieldIds : off[n] = w
<1> DEFINE N == Len(Fields)
<1>1. N \in Nat /\ FieldIds = 1..N
  BY FieldNumbers
<1>2. PICK r : /\ FieldsRead(data, w) = r[N] /\ r[0] = Started
               /\ \A n \in 1..N : r[n] = ReadField(r[n - 1], data, w)
  BY ZenonT(40), FieldsReadIs
<1>3. off \in [0..N -> Nat] /\ off[0] = 0 /\ Len(PackedData(fields)) = off[N]
  BY Zenon DEF Layout
<1> DEFINE Goes(n, t) == r[t].result = "reading" /\ r[t].at = off[n] + 1 /\ off[n] <= w
           Stops(t) == r[t].result = "error"
           S == {n \in Nat : n <= N => \/ w > 0 /\ \E m \in FieldIds : off[m] = w
                                       \/ \E t \in 0..n : Stops(t) \/ Goes(n, t)}
<1>4. 0 \in S
  <2>1. r[0].result = "reading" /\ r[0].at = 1
    BY <1>2 DEF Started
  <2>2. Goes(0, 0) /\ 0 \in 0..0
    BY <1>3, <2>1
  <2> QED  BY <2>2
<1>5. ASSUME NEW n \in Nat, n \in S PROVE n + 1 \in S
  <2> SUFFICES ASSUME n + 1 <= N, ~(w > 0 /\ \E m \in FieldIds : off[m] = w)
               PROVE  \E t \in 0..n + 1 : Stops(t) \/ Goes(n + 1, t)
    OBVIOUS
  <2>1. n + 1 \in FieldIds /\ (n + 1) - 1 = n /\ n <= N
    BY <1>1
  <2>2. PICK t \in 0..n : Stops(t) \/ Goes(n, t)
    BY <1>5, <2>1
  <2>3. t + 1 \in 0..n + 1 /\ t + 1 \in 1..N /\ (t + 1) - 1 = t /\ t \in 0..n + 1
    BY <1>1, <2>1, <2>2
  <2>4. r[t + 1] = ReadField(r[t], data, w)
    BY Zenon, <1>2, <2>3
  <2>5. CASE Stops(t)
    BY Zenon, <2>3, <2>5
  <2>6. CASE Goes(n, t) /\ fields[n + 1].mPresent
    <3>1. n < Weight[5]
      <4>1. Weight[5] \in Int
        BY Weights, BaseAssumption
      <4> QED  BY <1>1, <4>1 DEF IdsFit
    <3> DEFINE R == r[t]
               next == ReadField(R, data, w)
    <3>2. R.result = "reading" /\ R.at = off[(n + 1) - 1] + 1 /\ (n + 1) - 1 < Weight[5]
      BY Zenon, <2>1, <2>6, <3>1
    <3> HIDE DEF R
    <3>3. \/ next.result = "error"
          \/ off[n + 1] = w /\ w > 0
          \/ next.result = "reading" /\ next.at = off[n + 1] + 1 /\ off[n + 1] <= w
      BY Zenon, <2>1, <2>6, <3>2, ShortTurn
    <3>4. Stops(t + 1) \/ Goes(n + 1, t + 1)
      BY Zenon, <2>1, <2>4, <3>3 DEF R
    <3> QED  BY Zenon, <2>3, <3>4
  <2>7. CASE Goes(n, t) /\ ~fields[n + 1].mPresent
    <3>1. off[n + 1] = off[n]
      <4>1. off[n + 1] = off[n] + Len(PackedField(n + 1, fields[n + 1]))
        BY Zenon, <1>1, <2>1 DEF Layout
      <4>2. PackedField(n + 1, fields[n + 1]) = <<>>
        BY Zenon, <2>7, AbsentField
      <4>3. off[n] \in Nat
        BY <1>1, <1>3, <2>1
      <4> QED  BY <4>1, <4>2, <4>3
    <3>2. Goes(n + 1, t)
      BY Zenon, <2>7, <3>1
    <3> QED  BY Zenon, <2>3, <3>2
  <2> QED  BY Zenon, <2>2, <2>5, <2>6, <2>7
<1>6. N \in S
  <2> HIDE DEF S, N
  <2> QED  BY <1>1, <1>4, <1>5, InductionSet
<1> SUFFICES ASSUME ~(w > 0 /\ \E m \in FieldIds : off[m] = w) PROVE FALSE
  OBVIOUS
<1>7. PICK t \in 0..N : Stops(t) \/ Goes(N, t)
  <2>1. N <= N
    BY <1>1
  <2> QED  BY <1>6, <2>1
<1>8. Stops(t)
  <2>1. ~(off[N] <= w)
    BY <1>1, <1>3
  <2> QED  BY <1>7, <2>1
<1> DEFINE T == {n \in Nat : t + n <= N => r[t + n] = r[t]}
<1>9. 0 \in T
  BY <1>7
<1>10. ASSUME NEW n \in Nat, n \in T PROVE n + 1 \in T
  <2> SUFFICES ASSUME t + (n + 1) <= N PROVE r[t + (n + 1)] = r[t]
    OBVIOUS
  <2>1. t + n <= N /\ t + (n + 1) \in 1..N /\ (t + (n + 1)) - 1 = t + n
    BY <1>1, <1>7
  <2>2. r[t + n] = r[t]
    BY <1>10, <2>1
  <2>3. r[t + (n + 1)] = ReadField(r[t], data, w)
    BY Zenon, <1>2, <2>1, <2>2
  <2>4. r[t].result # "reading"
    BY <1>8
  <2> QED  BY Zenon, <2>3, <2>4, FinishedIdles
<1>11. N - t \in T
  <2>1. N - t \in Nat
    BY <1>1, <1>7
  <2> HIDE DEF T, N
  <2> QED  BY <1>9, <1>10, <2>1, InductionSet
<1>12. t + (N - t) = N /\ N <= N
  BY <1>1, <1>7
<1>13. r[N] = r[t]
  <2> HIDE DEF N
  <2> QED  BY <1>11, <1>12
<1> QED
  BY Zenon, <1>2, <1>8, <1>13

(* The packet with only its first n fields.                                *)
FirstFields(fields, n) ==
  [i \in FieldIds |-> IF i <= n THEN fields[i] ELSE [fields[i] EXCEPT !.mPresent = FALSE]]

(* Its data are the beginning of the data of the whole packet.             *)
LEMMA FirstFieldsData ==
  ASSUME NEW fields, Packable(fields), NEW off, Layout(fields, off), NEW n \in FieldIds
  PROVE  PackedData(FirstFields(fields, n)) = SubSeq(PackedData(fields), 1, off[n])
<1> DEFINE N == Len(Fields)
           first == FirstFields(fields, n)
           d == PackedData(fields)
           e == PackedData(first)
<1>1. N \in Nat /\ FieldIds = 1..N
  BY FieldNumbers
<1>2. Packable(first)
  <2>1. \A i \in FieldIds : CanBePacked(i, first[i])
    <3> TAKE i \in FieldIds
    <3> DEFINE f == fields[i]
               g == [f EXCEPT !.mPresent = FALSE]
    <3>1. CanBePacked(i, f)
      BY DEF Packable
    <3> HIDE DEF f
    <3>2. CanBePacked(i, g)
      BY <3>1 DEF CanBePacked
    <3>3. first[i] = f \/ first[i] = g
      BY DEF FirstFields, f
    <3> QED  BY Zenon, <3>1, <3>2, <3>3
  <2>2. DOMAIN first = FieldIds
    BY DEF FirstFields
  <2> QED  BY Zenon, <2>1, <2>2 DEF Packable
<1>3. \A i \in FieldIds : PackedField(i, first[i])
                            = IF i <= n THEN PackedField(i, fields[i]) ELSE <<>>
  <2> TAKE i \in FieldIds
  <2>1. CASE i <= n
    <3>1. first[i] = fields[i]
      BY <2>1 DEF FirstFields
    <3> QED  BY Zenon, <2>1, <3>1
  <2>2. CASE ~(i <= n)
    <3>1. ~first[i].mPresent
      <4>1. CanBePacked(i, fields[i])
        BY DEF Packable
      <4>2. first[i] = [fields[i] EXCEPT !.mPresent = FALSE]
        BY <2>2 DEF FirstFields
      <4> QED  BY <4>1, <4>2 DEF CanBePacked
    <3> QED  BY Zenon, <2>2, <3>1, AbsentField
  <2> QED  BY <2>1, <2>2
<1>4. PICK at : Layout(first, at)
  BY Zenon, <1>2, LayoutExists
<1>5. d \in Seq(Int) /\ e \in Seq(Int)
  BY Zenon, <1>2, LayoutExists
<1> HIDE DEF first
<1>6. /\ off \in [0..N -> Nat] /\ off[0] = 0 /\ Len(d) = off[N]
      /\ \A m \in 1..N : /\ off[m] = off[m - 1] + Len(PackedField(m, fields[m]))
                         /\ off[m] <= off[N]
                         /\ \A k \in 1..Len(PackedField(m, fields[m])) :
                              d[off[m - 1] + k] = PackedField(m, fields[m])[k]
  BY Zenon DEF Layout
<1>7. /\ at \in [0..N -> Nat] /\ at[0] = 0 /\ Len(e) = at[N]
      /\ \A m \in 1..N : /\ at[m] = at[m - 1] + Len(PackedField(m, first[m]))
                         /\ at[m] <= at[N]
                         /\ \A k \in 1..Len(PackedField(m, first[m])) :
                              e[at[m - 1] + k] = PackedField(m, first[m])[k]
  BY Zenon, <1>4 DEF Layout
<1> HIDE DEF N, d, e
<1> DEFINE Agree(m) == /\ at[m] = off[IF m <= n THEN m ELSE n]
                       /\ \A k \in 1..at[m] : e[k] = d[k]
           S == {m \in Nat : m <= N => Agree(m)}
<1>8. 0 \in S
  BY <1>1, <1>6, <1>7
<1>9. ASSUME NEW m \in Nat, m \in S PROVE m + 1 \in S
  <2> SUFFICES ASSUME m + 1 <= N PROVE Agree(m + 1)
    OBVIOUS
  <2>1. m <= N /\ m + 1 \in 1..N /\ (m + 1) - 1 = m
    BY <1>1
  <2>2. Agree(m)
    BY <1>9, <2>1
  <2>3. at[m] \in Nat /\ off[m] \in Nat
    <3>1. m \in 0..N
      BY <1>1, <2>1
    <3>2. at \in [0..N -> Nat] /\ off \in [0..N -> Nat]
      BY Zenon, <1>6, <1>7
    <3> QED  BY <3>1, <3>2
  <2>4. CASE m + 1 <= n
    <3> DEFINE p == PackedField(m + 1, fields[m + 1])
    <3>1. PackedField(m + 1, first[m + 1]) = p
      BY Zenon, <1>1, <1>3, <2>1, <2>4
    <3>2. p \in Seq(Int)
      <4>1. CanBePacked(m + 1, fields[m + 1])
        BY Zenon, <1>1, <2>1 DEF Packable
      <4>2. CASE fields[m + 1].mPresent
        BY Zenon, <1>1, <2>1, <4>1, <4>2, PackedFieldIs DEF Composed
      <4>3. CASE ~fields[m + 1].mPresent
        <5>1. p = <<>>
          BY Zenon, <4>3, AbsentField
        <5> HIDE DEF p
        <5> QED  BY <5>1
      <4> QED  BY <4>2, <4>3
    <3>3. /\ off[m + 1] = off[m] + Len(p)
          /\ \A k \in 1..Len(p) : d[off[m] + k] = p[k]
      BY Zenon, <1>6, <2>1
    <3>4. /\ at[m + 1] = at[m] + Len(p)
          /\ \A k \in 1..Len(p) : e[at[m] + k] = p[k]
      BY Zenon, <1>7, <2>1, <3>1
    <3> HIDE DEF p
    <3>5. Len(p) \in Nat
      BY <3>2
    <3>6. m <= n /\ at[m] = off[m] /\ at[m + 1] = off[m + 1]
      BY <1>1, <2>2, <2>4, <3>3, <3>4
    <3>7. ASSUME NEW k \in 1..at[m + 1] PROVE e[k] = d[k]
      <4>1. CASE k <= at[m]
        BY <2>2, <2>3, <4>1
      <4>2. CASE ~(k <= at[m])
        <5>1. k - at[m] \in 1..Len(p) /\ at[m] + (k - at[m]) = k
          BY <2>3, <3>3, <3>4, <3>5, <4>2
        <5> QED  BY Zenon, <3>3, <3>4, <3>6, <5>1
      <4> QED  BY <4>1, <4>2
    <3> QED  BY Zenon, <2>4, <3>6, <3>7
  <2>5. CASE ~(m + 1 <= n)
    <3>1. PackedField(m + 1, first[m + 1]) = <<>>
      BY Zenon, <1>1, <1>3, <2>1, <2>5
    <3>2. at[m + 1] = at[m]
      <4>1. at[m + 1] = at[m] + Len(<<>>)
        BY Zenon, <1>7, <2>1, <3>1
      <4> QED  BY <2>3, <4>1
    <3>3. off[IF m <= n THEN m ELSE n] = off[n]
      BY <1>1, <2>5
    <3> QED  BY Zenon, <2>2, <2>5, <3>2, <3>3
  <2> QED  BY <2>4, <2>5
<1>10. Agree(N)
  <2>1. N \in S
    <3> HIDE DEF S
    <3> QED  BY <1>1, <1>8, <1>9, InductionSet
  <2>2. N <= N
    BY <1>1
  <2> QED  BY <2>1, <2>2
<1>11. Len(e) = off[n] /\ \A k \in 1..Len(e) : e[k] = d[k]
  BY <1>1, <1>7, <1>10
<1>12. off[n] \in Nat /\ off[n] <= Len(d)
  BY <1>1, <1>6
<1>13. e = SubSeq(d, 1, off[n])
  BY <1>5, <1>11, <1>12
<1> QED
  BY Zenon, <1>13 DEF d, e, first

(* One byte of the data, or one word of the header, is another one.        *)
Changed(f, g) ==
  \/ \E k \in DOMAIN g.data, b \in Byte : b # g.data[k] /\ f = [g EXCEPT !.data[k] = b]
  \/ \E w \in Word : w # g.mDataLen /\ f = [g EXCEPT !.mDataLen = w]
  \/ \E w \in Word : w # g.mCheckSum /\ f = [g EXCEPT !.mCheckSum = w]

(* The end is missing.                                                     *)
CutShort(f, g) ==
  \E n \in 0 .. Len(g.data) - 1 : f = [g EXCEPT !.data = SubSeq(g.data, 1, n)]

(* A packet of only the first fields has another checksum than the whole:  *)
(* the bytes of those that follow do not add up to zero modulo 2^16.       *)
TailsSeen(fields) ==
  \A n \in FieldIds :
    LET first == PackedData(FirstFields(fields, n))
    IN  first \notin {<<>>, PackedData(fields)}
          => CheckSum(first) # CheckSum(PackedData(fields))

(* What is checked of a frame whose length is the one of its data is all   *)
(* of them, and a byte is where the line put it.                           *)
LEMMA FrameParts ==
  ASSUME NEW fields, ByteFields(fields), Len(PackedData(fields)) < WordMod
  PROVE  LET d == PackedData(fields)
         IN  /\ d \in Seq(Byte) /\ Len(d) \in Nat
             /\ PackedFrame(fields)
                  = [mDataLen |-> Len(d), mCheckSum |-> CheckSum(d), data |-> d]
             /\ \A e \in Seq(Byte) : SubSeq(e, 1, Len(e)) = e
<1> DEFINE d == PackedData(fields)
<1>1. d \in Seq(Byte)
  BY Zenon, PackedDataBytes
<1>2. PackedFrame(fields)
        = [mDataLen |-> Len(d) % WordMod, mCheckSum |-> CheckSum(d), data |-> d]
  BY Zenon DEF PackedFrame
<1>3. Len(d) < WordMod
  OBVIOUS
<1> HIDE DEF d
<1>4. Len(d) \in Nat /\ Len(d) % WordMod = Len(d)
  BY <1>1, <1>3, WordsAreNumbers
<1>5. \A e \in Seq(Byte) : SubSeq(e, 1, Len(e)) = e
  OBVIOUS
<1> QED
  BY Zenon, <1>1, <1>2, <1>4, <1>5 DEF d

(* A frame that lost its end is incomplete.                                *)
LEMMA CutStatus ==
  ASSUME NEW fields, ByteFields(fields), Len(PackedData(fields)) < WordMod,
         NEW f, CutShort(f, PackedFrame(fields))
  PROVE  ParseStatus(f) = "PACKET_INCOMPLETE"
<1> DEFINE d == PackedData(fields)
           g == [mDataLen |-> Len(d), mCheckSum |-> CheckSum(d), data |-> d]
<1>1. d \in Seq(Byte) /\ Len(d) \in Nat /\ PackedFrame(fields) = g
  BY Zenon, FrameParts
<1>2. PICK n \in 0 .. Len(g.data) - 1 : f = [g EXCEPT !.data = SubSeq(g.data, 1, n)]
  BY Zenon, <1>1 DEF CutShort
<1> HIDE DEF d
<1>3. n \in 0 .. Len(d) - 1 /\ f.data = SubSeq(d, 1, n) /\ f.mDataLen = Len(d)
  BY <1>2
<1>4. Len(SubSeq(d, 1, n)) < Len(d)
  BY <1>1, <1>3
<1> QED
  BY Zenon, <1>3, <1>4 DEF ParseStatus

(* A frame with an altered byte or word is no valid packet.                *)
LEMMA ChangedStatus ==
  ASSUME IdsFit, NEW fields, Packable(fields), ByteFields(fields),
         Len(PackedData(fields)) < WordMod,
         NEW f, Changed(f, PackedFrame(fields)),
         f.mDataLen = Len(PackedData(fields)) \/ TailsSeen(fields)
  PROVE  ParseStatus(f) # "PACKET_VALID"
<1> DEFINE d == PackedData(fields)
           g == [mDataLen |-> Len(d), mCheckSum |-> CheckSum(d), data |-> d]
<1>1. d \in Seq(Byte) /\ Len(d) \in Nat /\ PackedFrame(fields) = g
  BY Zenon, FrameParts
<1>2. Changed(f, g)
  BY Zenon, <1>1
<1>3. \A e \in Seq(Byte) : SubSeq(e, 1, Len(e)) = e
  BY Zenon, FrameParts
<1>4. ASSUME CheckSum(Checked(f)) # f.mCheckSum PROVE ParseStatus(f) # "PACKET_VALID"
  BY <1>4 DEF ParseStatus
<1>5. CASE \E k \in DOMAIN g.data, b \in Byte : b # g.data[k] /\ f = [g EXCEPT !.data[k] = b]
  <2> HIDE DEF d
  <2>1. PICK k \in DOMAIN g.data, b \in Byte : b # g.data[k] /\ f = [g EXCEPT !.data[k] = b]
    BY Zenon, <1>5
  <2> DEFINE e == [d EXCEPT ![k] = b]
  <2>2. /\ k \in 1..Len(d) /\ b # d[k]
        /\ f = [mDataLen |-> Len(d), mCheckSum |-> CheckSum(d), data |-> e]
    <3>1. g.data = d /\ [g EXCEPT !.data[k] = b]
                          = [mDataLen |-> Len(d), mCheckSum |-> CheckSum(d), data |-> e]
      OBVIOUS
    <3>2. DOMAIN d = 1..Len(d)
      BY <1>1
    <3> HIDE DEF g, e
    <3> QED  BY Zenon, <2>1, <3>1, <3>2
  <2>3. CheckSum(e) # CheckSum(d)
    BY Zenon, <1>1, <2>2, ByteChangesSum
  <2>4. e \in Seq(Byte) /\ Len(e) = Len(d)
    BY <1>1, <2>2
  <2> HIDE DEF e
  <2>5. f.data = e /\ f.mDataLen = Len(d) /\ f.mCheckSum = CheckSum(d)
    BY <2>2
  <2>6. Checked(f) = e
    BY Zenon, <1>3, <2>4, <2>5 DEF Checked
  <2> QED  BY Zenon, <1>4, <2>3, <2>5, <2>6
<1>6. CASE \E w \in Word : w # g.mCheckSum /\ f = [g EXCEPT !.mCheckSum = w]
  <2> HIDE DEF d
  <2>1. f.data = d /\ f.mDataLen = Len(d) /\ f.mCheckSum # CheckSum(d)
    BY <1>6
  <2>2. Checked(f) = d
    BY Zenon, <1>1, <1>3, <2>1 DEF Checked
  <2> QED  BY Zenon, <1>4, <2>1, <2>2
<1>7. CASE \E w \in Word : w # g.mDataLen /\ f = [g EXCEPT !.mDataLen = w]
  <2>1. PICK w \in Word : w # g.mDataLen /\ f = [g EXCEPT !.mDataLen = w]
    BY Zenon, <1>7
  <2>2. /\ w \in Nat /\ w # Len(d)
        /\ f.data = d /\ f.mDataLen = w /\ f.mCheckSum = CheckSum(d)
    <3> HIDE DEF d
    <3> QED  BY <2>1, WordsAreNumbers
  <2>3. CASE w > Len(d)
    <3> HIDE DEF d
    <3>1. Len(f.data) < f.mDataLen
      BY <1>1, <2>2, <2>3
    <3> QED  BY <3>1 DEF ParseStatus
  <2>4. CASE FieldsRead(d, w).result = "error"
    <3> HIDE DEF d
    <3>1. FieldsRead(f.data, f.mDataLen).result = "error"
      BY Zenon, <2>2, <2>4
    <3> QED  BY <3>1 DEF ParseStatus
  <2>5. CASE w < Len(d) /\ FieldsRead(d, w).result # "error"
    <3>1. PICK off : Layout(fields, off)
      BY Zenon, LayoutExists
    <3>2. StartsWith(d, fields)
      <4>1. \A k \in 1..Len(d) : ByteAt(d, k) = d[k]
        <5> HIDE DEF d
        <5> QED  BY <1>1 DEF ByteAt
      <4> QED  BY Zenon, <4>1 DEF StartsWith
    <3>3. w > 0 /\ \E n \in FieldIds : off[n] = w
      <4>1. w \in Nat /\ w < Len(d) /\ FieldsRead(d, w).result # "error"
        BY Zenon, <2>2, <2>5
      <4> DEFINE data == d
      <4>2. StartsWith(data, fields) /\ FieldsRead(data, w).result # "error"
        BY Zenon, <3>2, <4>1
      <4> HIDE DEF data
      <4> QED  BY SMTT(30), <3>1, <4>1, <4>2, ShortRead
    <3>4. PICK n \in FieldIds : off[n] = w
      BY <3>3
    <3> DEFINE first == PackedData(FirstFields(fields, n))
    <3>5. first = SubSeq(d, 1, w)
      BY Zenon, <3>1, <3>4, FirstFieldsData
    <3>6. TailsSeen(fields)
      BY Zenon, <2>2
    <3>7. first # d /\ first # <<>>
      <4> HIDE DEF first, d
      <4>1. Len(first) = w
        BY <1>1, <2>2, <2>5, <3>5
      <4>2. w # 0 /\ Len(<<>>) = 0
        BY <2>2, <3>3
      <4> QED  BY Zenon, <2>2, <4>1, <4>2
    <3>8. CheckSum(first) # CheckSum(d)
      BY Zenon, <3>6, <3>7 DEF TailsSeen
    <3>9. Checked(f) = first
      BY Zenon, <2>2, <3>5 DEF Checked
    <3> QED  BY Zenon, <1>4, <2>2, <3>8, <3>9
  <2> HIDE DEF d
  <2>6. w < Len(d) \/ w > Len(d)
    BY <1>1, <2>2
  <2> QED  BY Zenon, <2>3, <2>4, <2>5, <2>6
<1> QED
  BY Zenon, <1>2, <1>5, <1>6, <1>7 DEF Changed

(* What the line made of the frame, and what came of it.                   *)
DamageInv ==
  /\ journey = "changed" => Changed(frame, PackedFrame(sent))
  /\ journey = "cut" => CutShort(frame, PackedFrame(sent))
  /\ pc = "parsed" /\ journey \in {"changed", "cut"} => status = ParseStatus(frame)

(* The line damages only what poly_packet_pack wrote, and only once.       *)
LEMMA DamageStep ==
  ASSUME CodecInv, TypeOK, DamageInv, [Next]_vars
  PROVE  DamageInv'
<1>1. frame \in FrameType /\ (journey = "frame" => frame = PackedFrame(sent))
      /\ (pc = "build" => journey = "none") /\ (pc = "text" => journey = "text")
  BY TypeParts DEF CodecInv, FrameInv
<1>2. ASSUME journey' \notin {"changed", "cut"} PROVE DamageInv'
  BY <1>2 DEF DamageInv
<1>3. ASSUME Damage("changed", frame'), Changed(frame', frame) PROVE DamageInv'
  <2>1. /\ frame = PackedFrame(sent) /\ sent' = sent /\ pc' = "line" /\ journey' = "changed"
    BY <1>1, <1>3 DEF Damage
  <2>2. Changed(frame', PackedFrame(sent'))
    BY Zenon, <1>3, <2>1
  <2> QED  BY <2>1, <2>2 DEF DamageInv
<1>4. CASE \E i \in FieldIds : \E content \in Contents(i) : Set(i, content)
  BY <1>1, <1>2, <1>4 DEF Set
<1>5. CASE \E behind \in Behind : PrintPacket(behind)
  BY <1>2, <1>5 DEF PrintPacket
<1>6. CASE \E found \in Byte : FeedJson(found) \/ HandleJson(found)
  BY <1>1, <1>2, <1>6 DEF FeedJson, HandleJson
<1>7. CASE Pack \/ Misread
  BY <1>1, <1>2, <1>7 DEF Pack, Misread
<1>8. CASE DamageByte
  <2>1. PICK k \in DOMAIN frame.data, b \in Byte : Damage("changed", [frame EXCEPT !.data[k] = b])
    BY <1>8 DEF DamageByte
  <2>2. frame' = [frame EXCEPT !.data[k] = b] /\ frame' # frame /\ Damage("changed", frame')
    BY <2>1 DEF Damage
  <2>3. b # frame.data[k]
    BY <1>1, <2>2 DEF FrameType
  <2> QED  BY Zenon, <1>3, <2>2, <2>3 DEF Changed
<1>9. CASE DamageHeader
  <2>1. PICK w \in Word : \/ Damage("changed", [frame EXCEPT !.mDataLen = w])
                          \/ Damage("changed", [frame EXCEPT !.mCheckSum = w])
    BY <1>9 DEF DamageHeader
  <2>2. CASE Damage("changed", [frame EXCEPT !.mDataLen = w])
    <3>1. frame' = [frame EXCEPT !.mDataLen = w] /\ frame' # frame /\ Damage("changed", frame')
      BY <2>2 DEF Damage
    <3>2. w # frame.mDataLen
      BY <1>1, <3>1 DEF FrameType
    <3> QED  BY Zenon, <1>3, <3>1, <3>2 DEF Changed
  <2>3. CASE Damage("changed", [frame EXCEPT !.mCheckSum = w])
    <3>1. frame' = [frame EXCEPT !.mCheckSum = w] /\ frame' # frame /\ Damage("changed", frame')
      BY <2>3 DEF Damage
    <3>2. w # frame.mCheckSum
      BY <1>1, <3>1 DEF FrameType
    <3> QED  BY Zenon, <1>3, <3>1, <3>2 DEF Changed
  <2> QED  BY <2>1, <2>2, <2>3
<1>10. CASE CutOff
  <2>1. PICK n \in 0 .. Len(frame.data) - 1 :
          Damage("cut", [frame EXCEPT !.data = SubSeq(frame.data, 1, n)])
    BY <1>10 DEF CutOff
  <2>2. /\ frame' = [frame EXCEPT !.data = SubSeq(frame.data, 1, n)]
        /\ frame = PackedFrame(sent) /\ sent' = sent /\ pc' = "line" /\ journey' = "cut"
    BY <1>1, <2>1 DEF Damage
  <2>3. CutShort(frame', PackedFrame(sent'))
    BY Zenon, <2>1, <2>2 DEF CutShort
  <2> QED  BY <2>2, <2>3 DEF DamageInv
<1>11. CASE RunsOn
  BY <1>2, <1>11 DEF RunsOn, Damage
<1>12. CASE Parse
  <2>1. /\ UNCHANGED <<sent, frame, journey>> /\ pc' = "parsed" /\ status' = ParseStatus(frame)
    BY <1>12 DEF Parse
  <2>2. status' = ParseStatus(frame')
    BY Zenon, <2>1
  <2>3. /\ journey' = "changed" => Changed(frame', PackedFrame(sent'))
        /\ journey' = "cut" => CutShort(frame', PackedFrame(sent'))
    BY Zenon, <2>1 DEF DamageInv
  <2> QED  BY Zenon, <2>2, <2>3 DEF DamageInv
<1>13. CASE UNCHANGED vars
  <2>1. UNCHANGED <<sent, frame, journey, pc, status>>
    BY <1>13 DEF vars
  <2> QED  BY Zenon, <2>1 DEF DamageInv
<1> QED
  BY Zenon, <1>4, <1>5, <1>6, <1>7, <1>8, <1>9, <1>10, <1>11, <1>12, <1>13 DEF Next

(* A damaged frame is the one that was packed, damaged once.               *)
LEMMA DamageInvCorrect ==
  ASSUME SizesFit
  PROVE  Spec => [](CodecInv /\ TypeOK /\ DamageInv)
<1>1. Init => DamageInv
  BY DEF Init, DamageInv
<1>2. CodecInv /\ TypeOK /\ DamageInv /\ [Next]_vars => DamageInv'
  BY DamageStep
<1>3. Spec => []CodecInv
  BY CodecInvCorrect
<1> QED
  BY <1>1, <1>2, <1>3, CodecTypeCorrect, PTL DEF Spec

(* A frame with an altered byte, length or checksum, or without its end,   *)
(* is never taken for a packet.  The checksum is a sum, so a length that   *)
(* names the end of an earlier field is noticed only if the bytes behind   *)
(* that field do not add up to zero.                                       *)
THEOREM DamageDetectedCorrect ==
  ASSUME IdsFit, SizesFit
  PROVE  Spec => [](/\ Len(PackedData(sent)) < WordMod
                    /\ frame.mDataLen = Len(PackedData(sent)) \/ TailsSeen(sent)
                    => DamageDetected)
<1> DEFINE Seen == /\ Len(PackedData(sent)) < WordMod
                   /\ frame.mDataLen = Len(PackedData(sent)) \/ TailsSeen(sent)
<1>1. CodecInv /\ TypeOK /\ DamageInv => (Seen => DamageDetected)
  <2> SUFFICES ASSUME CodecInv, TypeOK, DamageInv, Seen, pc = "parsed",
                      journey \in {"changed", "cut"}
               PROVE  /\ status # "PACKET_VALID"
                      /\ journey = "cut" => status = "PACKET_INCOMPLETE"
    BY Zenon DEF DamageDetected
  <2>1. Packable(sent) /\ ByteFields(sent) /\ status = ParseStatus(frame)
    BY Zenon, TypeParts DEF CodecInv, DamageInv
  <2>2. CASE journey = "cut"
    <3>1. ParseStatus(frame) = "PACKET_INCOMPLETE"
      BY Zenon, <2>1, <2>2, CutStatus DEF DamageInv
    <3> QED  BY <2>1, <3>1
  <2>3. CASE journey = "changed"
    <3>1. ParseStatus(frame) # "PACKET_VALID"
      BY Zenon, <2>1, <2>3, ChangedStatus DEF DamageInv
    <3> QED  BY <2>1, <2>3, <3>1
  <2> QED  BY <2>2, <2>3
<1> QED
  BY <1>1, DamageInvCorrect, PTL

(* The first byte of a number other than zero is not zero.                 *)
LEMMA FirstByte ==
  ASSUME NEW val \in Nat, val > 0
  PROVE  VarSizePack(val)[1] \in Nat /\ VarSizePack(val)[1] > 0
<1>1. Width(val) \in 1..MaxWidth /\ (val >= Base => Width(val) >= 2)
  BY Widths
<1>2. val \div Weight[1] = val
  BY Quotients
<1>3. 1 \in 1..Width(val)
  BY <1>1
<1>4. VarSizePack(val)[1] = (val % Base) + (IF 1 < Width(val) THEN Base ELSE 0)
  BY <1>2, <1>3 DEF VarSizePack
<1>5. val % Base \in 0..Base - 1 /\ Base \in Nat /\ Base > 0
  BY BaseAssumption
<1>6. CASE val < Base
  <2>1. val % Base = val
    BY <1>5, <1>6
  <2> QED  BY <1>4, <1>5, <2>1
<1>7. CASE val >= Base
  <2>1. 1 < Width(val)
    BY <1>1, <1>7
  <2> QED  BY <1>4, <1>5, <2>1
<1> QED
  BY <1>5, <1>6, <1>7

(* Behind the first fields the next one begins, with its identifier, which *)
(* is not the one of the first field.                                      *)
LEMMA NextIdentifier ==
  ASSUME NEW fields, Packable(fields), NEW off, Layout(fields, off), NEW n \in FieldIds,
         off[n] < Len(PackedData(fields))
  PROVE  PackedData(fields)[off[n] + 1] > 0
<1> DEFINE N == Len(Fields)
           d == PackedData(fields)
<1>1. N \in Nat /\ FieldIds = 1..N
  BY FieldNumbers
<1>2. off \in [0..N -> Nat] /\ Len(d) = off[N]
  BY Zenon DEF Layout
<1>3. \A m \in 1..N : /\ off[m] = off[m - 1] + Len(PackedField(m, fields[m]))
                      /\ \A k \in 1..Len(PackedField(m, fields[m])) :
                           d[off[m - 1] + k] = PackedField(m, fields[m])[k]
  BY Zenon DEF Layout
<1> HIDE DEF N, d
<1> DEFINE S == {m \in Nat : m <= N => m < n \/ off[m] = off[n] \/ d[off[n] + 1] > 0}
<1>4. 0 \in S
  BY <1>1
<1>5. ASSUME NEW m \in Nat, m \in S PROVE m + 1 \in S
  <2> SUFFICES ASSUME m + 1 <= N, ~(m + 1 < n), m + 1 # n, ~(d[off[n] + 1] > 0)
               PROVE  off[m + 1] = off[n]
    BY <1>1
  <2>1. m \in FieldIds /\ m + 1 \in 1..N /\ (m + 1) - 1 = m /\ m > 0 /\ m \in 0..N
    BY <1>1
  <2>2. off[m] = off[n]
    BY <1>1, <1>5, <2>1
  <2> DEFINE p == PackedField(m + 1, fields[m + 1])
  <2>3. /\ off[m + 1] = off[m] + Len(p)
        /\ \A k \in 1..Len(p) : d[off[m] + k] = p[k]
    BY Zenon, <1>3, <2>1
  <2>4. CASE fields[m + 1].mPresent
    <3>1. Composed(m + 1, fields[m + 1], p)
      BY Zenon, <1>1, <2>1, <2>4, PackedFieldIs DEF Packable
    <3>2. fields[m + 1].mSize \in Nat
      BY <1>1, <2>1 DEF Packable, CanBePacked
    <3>3. /\ Width(m) \in 1..5 /\ SizeWidth(m + 1, fields[m + 1]) \in 0..5
          /\ Len(p) = Width(m) + SizeWidth(m + 1, fields[m + 1]) + fields[m + 1].mSize
          /\ \A k \in 1..Width(m) : p[k] = VarSizePack(m)[k]
      BY Zenon, <2>1, <3>1 DEF Composed
    <3> HIDE DEF p
    <3>4. 1 \in 1..Len(p) /\ 1 \in 1..Width(m)
      BY SMTT(30), <3>2, <3>3
    <3>5. p[1] > 0
      BY Zenon, <2>1, <3>3, <3>4, FirstByte
    <3>6. d[off[n] + 1] = p[1]
      BY Zenon, <2>2, <2>3, <3>4
    <3> QED  BY Zenon, <3>5, <3>6
  <2>5. CASE ~fields[m + 1].mPresent
    <3>1. p = <<>>
      BY Zenon, <2>5, AbsentField
    <3>2. off[m] \in Nat
      BY <1>2, <2>1
    <3> HIDE DEF p
    <3> QED  BY <2>2, <2>3, <3>1, <3>2
  <2> QED  BY <2>4, <2>5
<1>6. N \in S
  <2> HIDE DEF S
  <2> QED  BY <1>1, <1>4, <1>5, InductionSet
<1>7. ~(N < n) /\ N <= N /\ off[N] # off[n]
  BY <1>1, <1>2 DEF d
<1> QED
  BY <1>6, <1>7 DEF d

(* The checksum of the first bytes is where the sum has come to after them.*)
LEMMA PrefixSum ==
  ASSUME NEW data \in Seq(Byte), NEW s, SumTurns(data, s), NEW w \in 0..Len(data)
  PROVE  CheckSum(SubSeq(data, 1, w)) = s[w]
<1> DEFINE e == SubSeq(data, 1, w)
<1>1. w \in Nat /\ e \in Seq(Byte) /\ Len(e) = w /\ \A k \in 1..w : e[k] = data[k]
  OBVIOUS
<1> HIDE DEF e
<1>2. PICK t : SumTurns(e, t) /\ CheckSum(e) = t[w]
  BY Zenon, <1>1, CheckSumIs
<1>3. t[0] = Seed /\ \A n \in 1..w : t[n] = (t[n - 1] + e[n]) % WordMod
  BY Zenon, <1>1, <1>2 DEF SumTurns
<1>4. s[0] = Seed /\ \A n \in 1..Len(data) : s[n] = (s[n - 1] + data[n]) % WordMod
  BY Zenon DEF SumTurns
<1> DEFINE S == {n \in Nat : n <= w => t[n] = s[n]}
<1>5. 0 \in S
  BY <1>3, <1>4
<1>6. ASSUME NEW n \in Nat, n \in S PROVE n + 1 \in S
  <2> SUFFICES ASSUME n + 1 <= w PROVE t[n + 1] = s[n + 1]
    OBVIOUS
  <2>1. n <= w /\ n + 1 \in 1..w /\ n + 1 \in 1..Len(data) /\ (n + 1) - 1 = n
    BY <1>1
  <2>2. t[n] = s[n]
    BY <1>6, <2>1
  <2> QED  BY Zenon, <1>1, <1>3, <1>4, <2>1, <2>2
<1>7. w \in S
  <2> HIDE DEF S
  <2> QED  BY <1>1, <1>5, <1>6, InductionSet
<1>8. t[w] = s[w]
  <2>1. w <= w
    BY <1>1
  <2> QED  BY <1>7, <2>1
<1> QED
  BY <1>2, <1>8 DEF e

(* The sum of a few bytes, the first of which is not zero, does not come   *)
(* round to where it was.                                                  *)
LEMMA TailCounts ==
  ASSUME NEW data \in Seq(Byte), Len(data) * (2 * Base) <= WordMod,
         NEW w \in Nat, w < Len(data), data[w + 1] > 0
  PROVE  CheckSum(SubSeq(data, 1, w)) # CheckSum(data)
<1> DEFINE C == 2 * Base
           L == Len(data)
<1>1. PICK s : SumTurns(data, s) /\ CheckSum(data) = s[L]
  BY Zenon, CheckSumIs
<1>2. L \in Nat /\ w \in 0..L /\ w + 1 \in 1..L
  OBVIOUS
<1>3. CheckSum(SubSeq(data, 1, w)) = s[w]
  BY Zenon, <1>1, <1>2, PrefixSum
<1>4. C \in Nat /\ C > 1 /\ \A n \in 1..L : data[n] \in Nat /\ data[n] < C
  <2>1. \A n \in 1..L : data[n] \in Byte
    OBVIOUS
  <2> QED  BY <2>1, BytesAreNumbers
<1>5. s \in [0..L -> Word] /\ \A n \in 1..L : s[n] = (s[n - 1] + data[n]) % WordMod
  BY Zenon, <1>1 DEF SumTurns
<1>6. WordMod \in Nat /\ \A n \in 0..L : s[n] \in Nat /\ s[n] < WordMod
  BY <1>5, WordsAreNumbers
<1>7. ASSUME NEW n \in 1..L
      PROVE  \/ s[n] = s[n - 1] + data[n]
             \/ s[n] = s[n - 1] + data[n] - WordMod
  <2>1. n - 1 \in 0..L /\ data[n] \in Byte
    BY <1>2
  <2>2. s[n - 1] \in Word /\ data[n] \in Word
    BY <1>5, <2>1, WordsAreNumbers
  <2>3. (s[n - 1] + data[n]) % WordMod
          = IF s[n - 1] + data[n] < WordMod THEN s[n - 1] + data[n]
                                            ELSE s[n - 1] + data[n] - WordMod
    BY Zenon, <2>2, ModAdd
  <2>4. s[n] = (s[n - 1] + data[n]) % WordMod
    BY <1>5
  <2> QED  BY Zenon, <2>3, <2>4
<1>8. \A m \in 1..L : m * C <= WordMod
  <2>1. L * C <= WordMod
    OBVIOUS
  <2> HIDE DEF C, L
  <2>2. ASSUME NEW m \in 1..L PROVE m * C <= WordMod
    <3>1. L = m + (L - m) /\ L - m \in Nat /\ m \in Nat
      BY <1>2
    <3>2. \A a, b \in Nat : (a + b) * C = a * C + b * C /\ a * C \in Nat /\ b * C \in Nat
      BY <1>4
    <3> DEFINE b == L - m
    <3>3. b \in Nat /\ L = m + b
      BY <3>1
    <3> HIDE DEF b
    <3>4. L * C = m * C + b * C /\ m * C \in Nat /\ b * C \in Nat
      BY <3>1, <3>2, <3>3
    <3> QED  BY <1>6, <2>1, <3>4
  <2> QED  BY <2>2
<1>9. \A m \in Nat : (m + 1) * C = m * C + C /\ m * C \in Nat
  BY <1>4
<1> HIDE DEF C, L
<1> DEFINE Ahead(m, x) == /\ x > 0 /\ x + m <= m * C
                          /\ s[m] = s[w] + x \/ s[m] = s[w] + x - WordMod
           S == {m \in Nat : m <= L /\ w < m => \E x \in Nat : Ahead(m, x)}
<1>10. 0 \in S
  BY <1>2
<1>11. ASSUME NEW m \in Nat, m \in S PROVE m + 1 \in S
  <2> SUFFICES ASSUME m + 1 <= L, w < m + 1 PROVE \E x \in Nat : Ahead(m + 1, x)
    OBVIOUS
  <2>1. m + 1 \in 1..L /\ (m + 1) - 1 = m /\ m \in 0..L /\ w \in 0..L
    BY <1>2
  <2> DEFINE b == data[m + 1]
  <2>2. b \in Nat /\ b < C
    BY <1>4, <2>1
  <2>3. s[m + 1] = s[m] + b \/ s[m + 1] = s[m] + b - WordMod
    BY Zenon, <1>7, <2>1
  <2>4. (m + 1) * C = m * C + C /\ m * C \in Nat /\ (m + 1) * C <= WordMod
    BY <1>8, <1>9, <2>1
  <2>5. CASE w = m
    <3>1. b > 0
      BY <2>5
    <3> DEFINE mc == m * C
    <3>2. m * C >= m
      BY <1>4
    <3>3. mc >= m /\ mc \in Nat
      BY Zenon, <1>9, <3>2
    <3>4. (m + 1) * C = mc + C
      BY Zenon, <2>4
    <3> HIDE DEF mc, b
    <3>5. b + (m + 1) <= mc + C
      BY <1>4, <2>2, <3>3
    <3>6. Ahead(m + 1, b)
      BY <2>3, <2>5, <3>1, <3>4, <3>5 DEF b
    <3> QED  BY <2>2, <3>6
  <2>6. CASE w < m
    <3>1. PICK x \in Nat : Ahead(m, x)
      BY <1>11, <2>1, <2>6
    <3> DEFINE mc == m * C
               mmc == (m + 1) * C
               sw == s[w]
               sm == s[m]
               sn == s[m + 1]
    <3>2. mmc = mc + C /\ mc \in Nat /\ mmc <= WordMod
      BY <2>4
    <3>3. x > 0 /\ x + m <= mc /\ (sm = sw + x \/ sm = sw + x - WordMod)
      BY <3>1
    <3>4. /\ sw \in Nat /\ sw < WordMod /\ sm \in Nat /\ sm < WordMod
          /\ sn \in Nat /\ sn < WordMod
      BY <1>6, <2>1
    <3>5. sn = sm + b \/ sn = sm + b - WordMod
      BY <2>3
    <3> HIDE DEF mc, mmc, sw, sm, sn, b
    <3>6. /\ x + b \in Nat /\ x + b > 0 /\ (x + b) + (m + 1) <= mmc
          /\ sn = sw + (x + b) \/ sn = sw + (x + b) - WordMod
      BY <1>4, <1>6, <2>2, <3>2, <3>3, <3>4, <3>5
    <3>7. Ahead(m + 1, x + b)
      BY Zenon, <3>6 DEF mmc, sw, sn
    <3> QED  BY Zenon, <3>6, <3>7
  <2>7. w = m \/ w < m
    OBVIOUS
  <2> QED  BY <2>5, <2>6, <2>7
<1>12. PICK x \in Nat : Ahead(L, x)
  <2>1. L \in S
    <3> HIDE DEF S
    <3> QED  BY <1>2, <1>10, <1>11, InductionSet
  <2> QED  BY <1>2, <2>1 DEF L
<1>13. x < WordMod /\ x > 0
  <2>1. L * C <= WordMod /\ L * C \in Nat /\ L > 0
    <3>1. L > 0 /\ L \in Nat /\ L \in 1..L
      BY <1>2
    <3> QED  BY Zenon, <1>8, <1>9, <3>1
  <2> DEFINE lc == L * C
  <2>2. x > 0 /\ x + L <= lc /\ lc <= WordMod /\ lc \in Nat
    BY <1>12, <2>1
  <2> HIDE DEF lc
  <2> QED  BY <1>2, <1>6, <2>1, <2>2
<1>14. s[L] # s[w]
  BY <1>2, <1>6, <1>12, <1>13
<1> QED
  BY <1>1, <1>3, <1>14 DEF L

(* 256 bytes of data cannot add up to 2^16.                                *)
LEMMA ShortTailsSeen ==
  ASSUME NEW fields, Packable(fields), ByteFields(fields),
         Len(PackedData(fields)) * (2 * Base) <= WordMod
  PROVE  TailsSeen(fields)
<1> DEFINE d == PackedData(fields)
<1>1. d \in Seq(Byte)
  BY Zenon, PackedDataBytes
<1> SUFFICES ASSUME NEW n \in FieldIds, PackedData(FirstFields(fields, n)) # d
             PROVE  CheckSum(PackedData(FirstFields(fields, n))) # CheckSum(d)
  BY Zenon DEF TailsSeen
<1>2. PICK off : Layout(fields, off)
  BY Zenon, LayoutExists
<1>3. PackedData(FirstFields(fields, n)) = SubSeq(d, 1, off[n])
  BY Zenon, <1>2, FirstFieldsData
<1>4. off[n] \in Nat /\ off[n] <= Len(d)
  <2>1. n \in 1..Len(Fields) /\ n \in 0..Len(Fields)
    <3>1. Len(Fields) \in Nat /\ FieldIds = 1..Len(Fields)
      BY FieldNumbers
    <3> QED  BY <3>1
  <2>2. off \in [0..Len(Fields) -> Nat] /\ off[n] <= off[Len(Fields)] /\ Len(d) = off[Len(Fields)]
    BY Zenon, <1>2, <2>1 DEF Layout
  <2> QED  BY <2>1, <2>2
<1> DEFINE w == off[n]
<1>5. Len(d) * (2 * Base) <= WordMod
  OBVIOUS
<1> HIDE DEF d
<1>6. w < Len(d)
  <2>1. SubSeq(d, 1, w) # d
    BY Zenon, <1>3 DEF d
  <2>2. SubSeq(d, 1, Len(d)) = d /\ Len(d) \in Nat
    BY <1>1
  <2>3. w # Len(d)
    BY Zenon, <2>1, <2>2
  <2> QED  BY <1>4, <2>2, <2>3
<1>7. d[w + 1] > 0
  BY Zenon, <1>2, <1>6, NextIdentifier DEF d
<1>8. CheckSum(SubSeq(d, 1, w)) # CheckSum(d)
  BY Zenon, <1>1, <1>4, <1>5, <1>6, <1>7, TailCounts
<1> QED
  BY Zenon, <1>3, <1>8 DEF d

(* Of a packet with at most 256 bytes of data any such damage is detected, *)
(* an altered length too.                                                  *)
THEOREM ShortPacketDamageDetected ==
  ASSUME IdsFit, SizesFit
  PROVE  Spec => [](Len(PackedData(sent)) * (2 * Base) <= WordMod => DamageDetected)
<1> DEFINE Seen == /\ Len(PackedData(sent)) < WordMod
                   /\ frame.mDataLen = Len(PackedData(sent)) \/ TailsSeen(sent)
<1>1. CodecInv /\ TypeOK => (Len(PackedData(sent)) * (2 * Base) <= WordMod => Seen)
  <2> SUFFICES ASSUME CodecInv, TypeOK, Len(PackedData(sent)) * (2 * Base) <= WordMod
               PROVE  Seen
    OBVIOUS
  <2>1. Packable(sent) /\ ByteFields(sent)
    BY Zenon, TypeParts DEF CodecInv
  <2>2. TailsSeen(sent)
    BY Zenon, <2>1, ShortTailsSeen
  <2>3. Len(PackedData(sent)) < WordMod
    <3> DEFINE n == Len(PackedData(sent))
    <3>1. n \in Nat
      <4>1. PackedData(sent) \in Seq(Byte)
        BY Zenon, <2>1, PackedDataBytes
      <4> QED  BY <4>1
    <3>2. n * (2 * Base) <= WordMod
      OBVIOUS
    <3> HIDE DEF n
    <3>3. n * (2 * Base) > n \/ n = 0
      BY <3>1, BytesAreNumbers
    <3>4. n * (2 * Base) \in Nat /\ WordMod \in Nat /\ WordMod > 0
      BY <3>1, BytesAreNumbers, WordsAreNumbers
    <3>5. n < WordMod
      BY <3>1, <3>2, <3>3, <3>4
    <3> QED  BY <3>5 DEF n
  <2> QED  BY <2>2, <2>3
<1>2. Spec => [](Seen => DamageDetected)
  BY DamageDetectedCorrect
<1> QED
  BY <1>1, <1>2, DamageInvCorrect, PTL

-----------------------------------------------------------------------------
(* A packet through JSON                                                   *)

(* A string ends before the first zero.                                    *)
EndsAt(bytes, z) ==
  z \in 0..Len(bytes) /\ ByteAt(bytes, z + 1) = 0 /\ \A k \in 1..z : ByteAt(bytes, k) # 0

(* There is one such place, and "%s" prints what lies before it.           *)
LEMMA CStringEnds ==
  ASSUME NEW bytes \in Seq(Byte)
  PROVE  /\ \E z : EndsAt(bytes, z)
         /\ \A z : EndsAt(bytes, z) => CString(bytes) = SubSeq(bytes, 1, z)
<1> DEFINE S == {k \in 1 .. Len(bytes) + 1 : ByteAt(bytes, k) = 0}
<1>1. Len(bytes) \in Nat /\ Len(bytes) + 1 \in S
  <2>1. Len(bytes) + 1 \notin DOMAIN bytes /\ Len(bytes) \in Nat
    OBVIOUS
  <2> QED  BY <2>1 DEF ByteAt
<1>2. Min(S) \in S /\ \A k \in S : Min(S) <= k
  <2>1. S \in SUBSET Nat /\ S # {}
    BY <1>1
  <2> HIDE DEF S
  <2> QED  BY Zenon, <2>1, LeastOf
<1> DEFINE m == Min(S)
<1>3. EndsAt(bytes, m - 1)
  <2>1. m \in 1 .. Len(bytes) + 1 /\ ByteAt(bytes, m) = 0
    BY <1>2
  <2>2. \A k \in 1 .. Len(bytes) + 1 : ByteAt(bytes, k) = 0 => m <= k
    BY <1>2
  <2> HIDE DEF m, S
  <2>3. m - 1 \in 0..Len(bytes) /\ (m - 1) + 1 = m
    BY <1>1, <2>1
  <2>4. \A k \in 1 .. m - 1 : k \in 1 .. Len(bytes) + 1 /\ ~(m <= k)
    BY <1>1, <2>1
  <2>5. \A k \in 1 .. m - 1 : ByteAt(bytes, k) # 0
    BY Zenon, <2>2, <2>4
  <2> QED  BY Zenon, <2>1, <2>3, <2>5 DEF EndsAt
<1>4. ASSUME NEW z, EndsAt(bytes, z) PROVE CString(bytes) = SubSeq(bytes, 1, z)
  <2>1. z \in Nat /\ z + 1 \in S /\ (z + 1) - 1 = z
    BY <1>1, <1>4 DEF EndsAt
  <2>2. ASSUME NEW k \in S PROVE z + 1 <= k
    <3>1. k \in 1 .. Len(bytes) + 1 /\ ByteAt(bytes, k) = 0
      OBVIOUS
    <3>2. k \notin 1..z
      BY Zenon, <1>4, <3>1 DEF EndsAt
    <3> HIDE DEF S
    <3> QED  BY <1>1, <2>1, <3>1, <3>2
  <2>3. Min(S) = z + 1
    <3>1. S \in SUBSET Int
      BY <1>1
    <3> HIDE DEF S
    <3> QED  BY Zenon, <2>1, <2>2, <3>1, MinIs
  <2>4. CString(bytes) = SubSeq(bytes, 1, Min(S) - 1)
    BY DEF CString
  <2> HIDE DEF S
  <2> QED  BY Zenon, <2>1, <2>3, <2>4
<1> QED
  BY Zenon, <1>3, <1>4

(* A string that ends within its block is printed as it is, whatever lies  *)
(* behind the block.                                                       *)
LEMMA EndsWithin ==
  ASSUME NEW block \in Seq(Byte), NEW rest \in Seq(Byte), NEW size \in Nat, size < Len(block),
         CString(block) = SubSeq(block, 1, size)
  PROVE  CString(block \o rest) = SubSeq(block, 1, size)
<1> DEFINE all == block \o rest
<1>1. PICK z : EndsAt(block, z)
  BY Zenon, CStringEnds
<1>2. CString(block) = SubSeq(block, 1, z)
  BY Zenon, <1>1, CStringEnds
<1>3. z \in 0..Len(block) /\ Len(block) \in Nat
  BY <1>1 DEF EndsAt
<1>4. z = size
  <2>1. Len(SubSeq(block, 1, z)) = z /\ Len(SubSeq(block, 1, size)) = size
    BY <1>3
  <2> QED  BY Zenon, <1>2, <2>1
<1>5. /\ all \in Seq(Byte) /\ Len(all) = Len(block) + Len(rest) /\ Len(rest) \in Nat
      /\ \A k \in 1..Len(block) : all[k] = block[k]
  OBVIOUS
<1> HIDE DEF all
<1>6. \A k \in 1..Len(block) : ByteAt(all, k) = ByteAt(block, k)
  BY <1>3, <1>5 DEF ByteAt
<1>7. \A k \in 1..size + 1 : k \in 1..Len(block)
  BY <1>3
<1>8. size + 1 \in 1..size + 1 /\ \A k \in 1..size : k \in 1..size + 1
  OBVIOUS
<1>9. size \in 0..Len(all)
  BY <1>3, <1>5
<1>10. EndsAt(all, size)
  BY Zenon, <1>1, <1>4, <1>6, <1>7, <1>8, <1>9 DEF EndsAt
<1>11. CString(all) = SubSeq(all, 1, size)
  BY Zenon, <1>5, <1>10, CStringEnds
<1>12. SubSeq(all, 1, size) = SubSeq(block, 1, size)
  BY <1>3, <1>5
<1> QED
  BY Zenon, <1>11, <1>12 DEF all

(* A block grows to what is copied into it.                                *)
LEMMA OverLength ==
  ASSUME NEW block \in Seq(Byte), NEW data \in Seq(Byte)
  PROVE  /\ Len(Over(block, data)) \in {Len(block), Len(data)}
         /\ SubSeq(Over(block, data), 1, Len(data)) = data
<1> DEFINE rest == SubSeq(block, Len(data) + 1, Len(block))
<1>1. /\ rest \in Seq(Byte) /\ Len(data) \in Nat /\ Len(block) \in Nat
      /\ Len(rest) = IF Len(data) < Len(block) THEN Len(block) - Len(data) ELSE 0
  <2>1. Len(data) + 1 \in Nat /\ Len(data) + 1 > 0 /\ Len(block) \in Nat /\ Len(block) <= Len(block)
    OBVIOUS
  <2>2. rest \in Seq(Byte)
    BY Zenon, <2>1, BytesCut
  <2>3. Len(rest) = IF Len(data) < Len(block) THEN Len(block) - Len(data) ELSE 0
    OBVIOUS
  <2> QED  BY <2>1, <2>2, <2>3
<1>2. Over(block, data) = data \o rest
  BY DEF Over
<1> HIDE DEF rest
<1>3. Len(data \o rest) = Len(data) + Len(rest) /\ SubSeq(data \o rest, 1, Len(data)) = data
  BY <1>1
<1>4. Len(data) + Len(rest) \in {Len(block), Len(data)}
  BY <1>1
<1> QED
  BY Zenon, <1>2, <1>3, <1>4

(* What poly_field_set copies is what the field then has, if its size is   *)
(* the one the field has or may vary.                                      *)
LEMMA SetContent ==
  ASSUME NEW i \in FieldIds, NEW f, ByteField(f), NEW data \in Seq(Byte)
  PROVE  LET g == FieldSet(f, Fields[i], data)
         IN  /\ g.mPresent
             /\ g.mSize = IF Fields[i].mVarLen THEN Len(data) ELSE f.mSize
             /\ Len(g.mData) \in {Len(f.mData), g.mSize}
             /\ Fields[i].mVarLen \/ Len(data) = f.mSize => Content(g) = data
<1> DEFINE size == IF Fields[i].mVarLen THEN Len(data) ELSE f.mSize
           copied == [k \in 1..size |-> ByteAt(data, k)]
           g == FieldSet(f, Fields[i], data)
<1>1. size \in Nat /\ f.mData \in Seq(Byte)
  BY DEF ByteField
<1>2. g = [mPresent |-> TRUE, mSize |-> size, mData |-> Over(f.mData, copied)]
  BY DEF FieldSet
<1>3. Fields[i].mVarLen \/ Len(data) = f.mSize => size = Len(data)
  OBVIOUS
<1>4. size = Len(data) => copied = data
  <2> HIDE DEF size
  <2> SUFFICES ASSUME size = Len(data) PROVE copied = data
    OBVIOUS
  <2>1. \A k \in 1..size : ByteAt(data, k) = data[k]
    BY DEF ByteAt
  <2>2. DOMAIN data = 1..size /\ data = [k \in DOMAIN data |-> data[k]]
    OBVIOUS
  <2> QED  BY <2>1, <2>2
<1>5. g.mPresent /\ g.mSize = size /\ g.mData = Over(f.mData, copied)
  BY <1>2
<1> HIDE DEF g
<1>6. copied \in Seq(Byte) /\ Len(copied) = size
  <2> HIDE DEF size
  <2>1. \A k \in 1..size : ByteAt(data, k) \in Byte
    BY Zenon, ByteRead
  <2> QED  BY <1>1, <2>1
<1> HIDE DEF copied
<1>7. Len(g.mData) \in {Len(f.mData), size}
  BY Zenon, <1>1, <1>5, <1>6, OverLength
<1>8. SubSeq(g.mData, 1, size) = copied
  <2>1. SubSeq(Over(f.mData, copied), 1, Len(copied)) = copied
    BY Zenon, <1>1, <1>6, OverLength
  <2> HIDE DEF size
  <2> QED  BY <1>5, <1>6, <2>1
<1>9. Content(g) = copied
  BY Zenon, <1>5, <1>8 DEF Content
<1> QED
  BY Zenon, <1>3, <1>4, <1>5, <1>7, <1>9 DEF g, size

(* What poly_field_parse_str sets a field to that is read from the text of *)
(* field i.                                                                *)
ReadData(i, behind, found) ==
  LET t == PrintJson(sent[i], Fields[i], behind)
  IN  IF IsText(Fields[i]) THEN t.bytes
      ELSE Saturated(Fields[i], BytesOf(ReadNumber(Fields[i], t, found), Fields[i].mObjSize))

(* Bytes, and at most one more than the block of the field has unless they *)
(* are a number.                                                           *)
LEMMA ReadDataType ==
  ASSUME ByteFields(sent), NEW i \in FieldIds, NEW behind \in Behind, NEW found \in Byte
  PROVE  LET data == ReadData(i, behind, found)
         IN  /\ data \in Seq(Byte)
             /\ Len(data) <= Len(sent[i].mData) + 1 \/ Len(data) = Fields[i].mObjSize
<1> DEFINE t == PrintJson(sent[i], Fields[i], behind)
           number == ReadNumber(Fields[i], t, found)
           data == ReadData(i, behind, found)
           block == sent[i].mData
<1>1. ByteField(sent[i])
  BY Zenon, ByteFieldsAre
<1>2. number \in Nat /\ (IsText(Fields[i]) => t.bytes \in Seq(Byte))
  BY Zenon, <1>1, PrintedReads
<1>3. Fields[i].mObjSize \in Nat
  BY Zenon, ObjectsOf
<1>4. CASE IsText(Fields[i])
  <2>1. data = t.bytes
    BY Zenon, <1>4 DEF ReadData
  <2>2. Fields[i].mFormat = "ASCII"
    BY Zenon, <1>4, CodecAssumption
  <2>3. t.bytes = CString(block \o behind)
    BY <2>2 DEF PrintJson
  <2>4. block \in Seq(Byte) /\ behind \in Seq(Byte) /\ Len(behind) <= 1 /\ Len(behind) \in Nat
    <3>1. block \in Seq(Byte)
      BY <1>1 DEF ByteField
    <3>2. behind = <<>> \/ \E b \in MustEscape \cup {1} : behind = <<b>>
      BY DEF Behind
    <3>5. behind \in Seq(Byte)
      BY Zenon, BehindBytes
    <3>6. Len(behind) <= 1 /\ Len(behind) \in Nat
      <4>1. CASE behind = <<>>
        BY <4>1
      <4>2. \A b : Len(<<b>>) <= 1 /\ Len(<<b>>) \in Nat
        OBVIOUS
      <4> QED  BY Zenon, <3>2, <4>1, <4>2
    <3> QED  BY Zenon, <3>1, <3>5, <3>6
  <2> HIDE DEF block
  <2>5. block \o behind \in Seq(Byte) /\ Len(block \o behind) = Len(block) + Len(behind)
        /\ Len(block) \in Nat
    BY Zenon, <2>4, BytesJoined
  <2>6. Len(CString(block \o behind)) <= Len(block \o behind)
    BY Zenon, <2>5, CStringBytes
  <2>7. CString(block \o behind) \in Seq(Byte)
    BY Zenon, <2>5, CStringBytes
  <2>8. Len(CString(block \o behind)) \in Nat
    BY <2>7
  <2>9. Len(CString(block \o behind)) <= Len(block) + 1
    BY <2>4, <2>5, <2>6, <2>8
  <2> QED  BY Zenon, <2>1, <2>3, <2>7, <2>9 DEF block
<1>5. CASE ~IsText(Fields[i])
  <2>1. data = Saturated(Fields[i], BytesOf(number, Fields[i].mObjSize))
    BY Zenon, <1>5 DEF ReadData
  <2> HIDE DEF number
  <2>2. data \in Seq(Byte) /\ Len(data) = Fields[i].mObjSize
    <3> DEFINE bytes == BytesOf(number, Fields[i].mObjSize)
    <3>1. bytes \in Seq(Byte) /\ Len(bytes) = Fields[i].mObjSize
      BY Zenon, <1>2, <1>3, BytesOfType
    <3> HIDE DEF bytes
    <3>2. /\ Saturated(Fields[i], bytes) \in Seq(Byte)
          /\ Len(Saturated(Fields[i], bytes)) = Fields[i].mObjSize
      BY Zenon, <1>3, <3>1, SaturatedType
    <3> QED  BY Zenon, <2>1, <3>2 DEF bytes
  <2> QED  BY Zenon, <2>2
<1> QED
  BY <1>4, <1>5

(* A single number is printed as such, or as its byte, and is read back.   *)
LEMMA NumberCarries ==
  ASSUME ByteFields(sent), NEW i \in FieldIds, NEW behind \in Behind, NEW found \in Byte,
         ~IsText(Fields[i]), Legible(i)
  PROVE  ReadData(i, behind, found) = Content(sent[i])
<1> DEFINE t == PrintJson(sent[i], Fields[i], behind)
           size == Fields[i].mObjSize
           block == sent[i].mData
           o == Content(sent[i])
<1>1. /\ Fields[i].mFormat # "ASCII" /\ sent[i].mSize = size
      /\ (Fields[i].mFormat = "DEC" /\ size <= LongBytes) \/ size = 1
  BY DEF Legible
<1>2. size \in Nat /\ size > 0
  BY ObjectsOf
<1>3. block \in Seq(Byte) /\ size <= Len(block)
  BY <1>1, ByteFieldsAre DEF ByteField
<1>4. o = SubSeq(block, 1, size)
  BY Zenon, <1>1 DEF Content
<1>5. o \in Seq(Byte) /\ Len(o) = size
  <2> HIDE DEF block, size
  <2>1. SubSeq(block, 1, size) \in Seq(Byte) /\ Len(SubSeq(block, 1, size)) = size
    BY <1>2, <1>3
  <2> QED  BY Zenon, <1>4, <2>1
<1>6. t = PrintVal(Fields[i], o)
  <2>1. sent[i].mSize \div size = 1
    <3> HIDE DEF size
    <3>1. size \div size = 1
      <4>1. (1 * size + 0) \div size = 1
        BY <1>2
      <4> QED  BY <1>2, <4>1
    <3> QED  BY Zenon, <1>1, <3>1
  <2>2. (1 - 1) * size + 1 = 1 /\ 1 * size = size
    BY <1>2
  <2>3. SubSeq(block, (1 - 1) * size + 1, 1 * size) = o
    BY Zenon, <1>4, <2>2
  <2> HIDE DEF o
  <2> QED  BY <1>1, <2>1, <2>3 DEF PrintJson
<1> HIDE DEF o, t
<1>7. ReadNumber(Fields[i], t, found) = NumberOf(o)
  <2>1. CASE Fields[i].mFormat = "HEX"
    <3>1. t = [kind |-> "hex", bytes |-> o]
      BY <1>6, <2>1 DEF PrintVal
    <3>2. ReadNumber(Fields[i], t, found) = NumberOf(Reverse(o))
      BY <2>1, <3>1 DEF ReadNumber
    <3>3. Len(o) = 1
      BY <1>1, <1>5, <2>1
    <3>4. Reverse(o) = o
      BY <1>5, <3>3 DEF Reverse
    <3> QED  BY Zenon, <3>2, <3>4
  <2>2. CASE Fields[i].mFormat # "HEX"
    <3>1. t = [kind |-> "number", value |-> NumberOf(o)]
      BY <1>6, <2>2 DEF PrintVal
    <3> QED  BY <3>1 DEF ReadNumber
  <2> QED  BY <2>1, <2>2
<1>8. ReadData(i, behind, found) = Saturated(Fields[i], BytesOf(NumberOf(o), size))
  BY Zenon, <1>7 DEF ReadData, t
<1>9. BytesOf(NumberOf(o), size) = o
  BY Zenon, <1>5, BytesBack
<1>10. Saturated(Fields[i], o) = o
  <2>1. size <= LongBytes /\ (size = LongBytes => Fields[i].mFormat # "HEX")
    BY <1>1, FieldAssumption
  <2> QED  BY Zenon, <1>2, <2>1, SaturatedIs
<1> QED
  BY Zenon, <1>8, <1>9, <1>10 DEF o

(* So is a string that ends within its block.                              *)
LEMMA StringCarries ==
  ASSUME ByteFields(sent), NEW i \in FieldIds, NEW behind \in Behind, NEW found \in Byte,
         IsText(Fields[i]), Legible(i)
  PROVE  ReadData(i, behind, found) = Content(sent[i])
<1> DEFINE t == PrintJson(sent[i], Fields[i], behind)
           block == sent[i].mData
           size == sent[i].mSize
<1>1. CString(block) = SubSeq(block, 1, size) /\ size < Len(block)
  BY DEF Legible, Content
<1>2. block \in Seq(Byte) /\ size \in Nat
  BY ByteFieldsAre DEF ByteField
<1>3. Fields[i].mFormat = "ASCII"
  BY Zenon, CodecAssumption
<1>4. ReadData(i, behind, found) = CString(block \o behind)
  BY <1>3 DEF ReadData, PrintJson
<1>5. behind \in Seq(Byte)
  BY Zenon, BehindBytes
<1> HIDE DEF block, size
<1>6. CString(block \o behind) = SubSeq(block, 1, size)
  BY Zenon, <1>1, <1>2, <1>5, EndsWithin
<1> QED
  BY Zenon, <1>4, <1>6 DEF Content, block, size

(* Four bytes are enough for the size of anything a field is set to or     *)
(* read as: poly_field_print_json may print a byte more than the block of  *)
(* the field has.                                                          *)
JsonSizesFit ==
  \A i \in FieldIds : Fields[i].mVarLen =>
    /\ Fields[i].mObjSize < Weight[5] /\ FullSize(Fields[i]) + 1 < Weight[5]
    /\ \A c \in Contents(i) : Len(c) + 1 < Weight[5]

BlocksFit ==
  \A i \in FieldIds : Fields[i].mVarLen => Len(sent[i].mData) + 1 < Weight[5]

(* poly_field_set keeps the blocks in these bounds.                        *)
LEMMA SetBlocksFit ==
  ASSUME JsonSizesFit, ByteFields(sent), BlocksFit,
         NEW i \in FieldIds, NEW content \in Contents(i), Set(i, content)
  PROVE  BlocksFit'
<1> DEFINE g == FieldSet(sent[i], Fields[i], content)
<1>1. content \in Seq(Byte)
  BY CodecAssumption
<1>2. ByteField(sent[i])
  BY Zenon, ByteFieldsAre
<1>3. Fields[i].mVarLen => Len(g.mData) \in {Len(sent[i].mData), Len(content)}
  BY Zenon, <1>1, <1>2, SetContent
<1>4. \A k \in FieldIds : sent'[k] = IF k = i THEN g ELSE sent[k]
  <2>1. DOMAIN sent = FieldIds
    BY DEF ByteFields, FieldsType
  <2>2. sent' = [sent EXCEPT ![i] = g]
    BY DEF Set
  <2> HIDE DEF g
  <2> QED  BY <2>1, <2>2
<1> HIDE DEF g
<1>5. Fields[i].mVarLen => Len(g.mData) + 1 < Weight[5]
  BY <1>3 DEF JsonSizesFit, BlocksFit
<1> QED
  BY <1>4, <1>5 DEF BlocksFit

(* What is read of a text of the packet is a packet that can be packed, of *)
(* the same fields; one that JSON can carry has the same content.          *)
Faithful(fields) ==
  /\ Packable(fields) /\ Present(fields) = Present(sent)
  /\ \A i \in Present(sent) : Legible(i) => Content(fields[i]) = Content(sent[i])

(* Field by field.                                                         *)
LEMMA FieldCarries ==
  ASSUME JsonSizesFit, Packable(sent), ByteFields(sent), BlocksFit,
         NEW i \in FieldIds, NEW behind \in Behind, NEW found \in Byte
  PROVE  LET g == ParseStr(Built[i], Fields[i], PrintJson(sent[i], Fields[i], behind), found)
         IN  /\ CanBePacked(i, g) /\ g.mPresent
             /\ Legible(i) => Content(g) = Content(sent[i])
<1> DEFINE data == ReadData(i, behind, found)
           g == FieldSet(Built[i], Fields[i], data)
           f == sent[i]
<1>1. ParseStr(Built[i], Fields[i], PrintJson(f, Fields[i], behind), found) = g
  BY Zenon DEF ParseStr, ReadData
<1>2. data \in Seq(Byte) /\ (Len(data) <= Len(f.mData) + 1 \/ Len(data) = Fields[i].mObjSize)
  BY Zenon, ReadDataType
<1>3. ByteField(Built[i]) /\ ByteField(f) /\ CanBePacked(i, f)
  BY Zenon, ByteFieldsAre, BuiltIsByteFields DEF Packable
<1>4. Legible(i) => data = Content(f)
  BY Zenon, NumberCarries, StringCarries
<1>5. Built[i].mSize = FullSize(Fields[i])
  BY DEF Built, FieldInit
<1>6. Len(data) \in Nat /\ Len(f.mData) \in Nat /\ f.mSize \in Nat /\ f.mSize <= Len(f.mData)
  BY <1>2, <1>3 DEF ByteField
<1>7. Legible(i) => Len(data) = f.mSize
  <2> DEFINE m == f.mData
             size == f.mSize
  <2>1. m \in Seq(Byte) /\ size \in Nat /\ size <= Len(m)
    BY <1>3 DEF ByteField
  <2>2. Content(f) = SubSeq(m, 1, size)
    BY Zenon DEF Content
  <2> HIDE DEF m, size, data
  <2>3. Len(SubSeq(m, 1, size)) = size
    BY <2>1
  <2> QED  BY Zenon, <1>4, <2>2, <2>3 DEF size
<1> HIDE DEF data, f
<1>8. /\ g.mPresent /\ g.mSize = IF Fields[i].mVarLen THEN Len(data) ELSE Built[i].mSize
      /\ Fields[i].mVarLen \/ Len(data) = Built[i].mSize => Content(g) = data
  BY ZenonT(40), <1>2, <1>3, SetContent
<1>9. ByteField(g)
  BY Zenon, <1>2, <1>3, SetIsByteField
<1> HIDE DEF g
<1>10. ~Fields[i].mVarLen => f.mSize = Built[i].mSize
  BY Zenon, <1>3, <1>5 DEF CanBePacked
<1>11. Legible(i) => Content(g) = Content(f)
  BY Zenon, <1>4, <1>7, <1>8, <1>10
<1>12. Fields[i].mVarLen => g.mSize < Weight[5]
  <2> SUFFICES ASSUME Fields[i].mVarLen PROVE Len(data) < Weight[5]
    BY Zenon, <1>8
  <2>1. Len(f.mData) + 1 < Weight[5] /\ Fields[i].mObjSize < Weight[5]
    BY Zenon DEF BlocksFit, JsonSizesFit, f
  <2>2. Weight[5] \in Nat
    BY WeightsGrow
  <2> QED  BY <1>2, <1>6, <2>1, <2>2
<1>13. CanBePacked(i, g)
  <2>1. g \in [mPresent : BOOLEAN, mSize : Nat, mData : Seq(Int)]
    <3>1. \A m \in Seq(Byte) : m \in Seq(Int)
      <4> TAKE m \in Seq(Byte)
      <4>1. Byte \subseteq Int
        BY BaseAssumption DEF Byte
      <4>2. Len(m) \in Nat /\ m \in [1..Len(m) -> Byte]
        OBVIOUS
      <4>3. m \in [1..Len(m) -> Int]
        BY <4>1, <4>2
      <4> QED  BY <4>2, <4>3
    <3>2. g \in [mPresent : BOOLEAN, mSize : Nat, mData : Seq(Byte)]
      BY <1>9 DEF ByteField
    <3> QED  BY <3>1, <3>2
  <2>2. g.mSize <= Len(g.mData)
    BY <1>9 DEF ByteField
  <2>3. ~Fields[i].mVarLen => g.mSize = FullSize(Fields[i])
    BY Zenon, <1>5, <1>8
  <2> QED  BY Zenon, <1>12, <2>1, <2>2, <2>3 DEF CanBePacked
<1> QED
  BY Zenon, <1>1, <1>8, <1>11, <1>13 DEF f

(* The whole packet.                                                       *)
LEMMA TextCarries ==
  ASSUME JsonSizesFit, Packable(sent), ByteFields(sent), BlocksFit,
         NEW behind \in Behind, text = PrintedText(behind), NEW found \in Byte
  PROVE  Faithful(FieldsOfText(found))
<1> DEFINE fields == FieldsOfText(found)
<1>1. /\ DOMAIN fields = FieldIds
      /\ \A i \in FieldIds : fields[i] = IF i \in Present(sent)
                                         THEN ParseStr(Built[i], Fields[i], text[i], found)
                                         ELSE Built[i]
      /\ \A i \in Present(sent) : text[i] = PrintJson(sent[i], Fields[i], behind)
  BY DEF FieldsOfText, PrintedText
<1> HIDE DEF fields
<1>2. ASSUME NEW i \in Present(sent)
      PROVE  /\ i \in FieldIds /\ CanBePacked(i, fields[i]) /\ fields[i].mPresent
             /\ Legible(i) => Content(fields[i]) = Content(sent[i])
  <2>1. i \in FieldIds
    BY DEF Present
  <2>2. fields[i] = ParseStr(Built[i], Fields[i], PrintJson(sent[i], Fields[i], behind), found)
    BY Zenon, <1>1, <2>1
  <2> QED  BY Zenon, <2>1, <2>2, FieldCarries
<1>3. ASSUME NEW i \in FieldIds, i \notin Present(sent)
      PROVE  CanBePacked(i, fields[i]) /\ ~fields[i].mPresent
  <2>1. fields[i] = FieldInit(Fields[i])
    BY <1>1, <1>3 DEF Built
  <2>2. ~FieldInit(Fields[i]).mPresent
    BY DEF FieldInit
  <2>3. CanBePacked(i, FieldInit(Fields[i]))
    BY Zenon, InitCanBePacked
  <2> QED  BY Zenon, <2>1, <2>2, <2>3
<1>4. Packable(fields)
  BY Zenon, <1>1, <1>2, <1>3 DEF Packable
<1>5. Present(fields) = Present(sent)
  BY Zenon, <1>2, <1>3 DEF Present
<1> QED
  BY Zenon, <1>2, <1>4, <1>5 DEF Faithful, fields

(* The message on its way: as text, as the frame the service makes of it,  *)
(* and as the packet a handler gets.                                       *)
JsonInv ==
  /\ BlocksFit
  /\ pc = "text" => Present(sent) # {}
  /\ pc = "line" /\ journey = "text" =>
       Present(sent) # {} /\ \E fields : Faithful(fields) /\ frame = PackedFrame(fields)
  /\ pc = "parsed" => (Len(frame.data) < WordMod => JsonRoundTrip)

(* A frame made of the text is parsed into what the text said.             *)
LEMMA TextParsed ==
  ASSUME IdsFit, Present(sent) # {}, NEW fields, Faithful(fields), frame = PackedFrame(fields),
         Len(frame.data) < WordMod, Parse
  PROVE  /\ status' = "PACKET_VALID" /\ Present(received') = Present(sent)
         /\ \A i \in Present(sent) : Legible(i) => Content(received'[i]) = Content(sent[i])
<1>1. frame.data = PackedData(fields) /\ Carries(frame, fields)
  BY DEF PackedFrame, Carries
<1>2. SomePresent(fields) /\ Packable(fields)
  BY Zenon DEF Faithful, Present, SomePresent
<1> DEFINE read == FieldsRead(frame.data, frame.mDataLen).fields
<1>3. ParseStatus(frame) = "PACKET_VALID" /\ Same(read, fields)
  <2>1. Len(PackedData(fields)) < WordMod
    BY <1>1
  <2> QED  BY Zenon, <1>1, <1>2, <2>1, FrameParses
<1>4. status' = "PACKET_VALID" /\ received' = read
  BY <1>3 DEF Parse
<1> HIDE DEF read
<1> QED
  BY Zenon, <1>3, <1>4 DEF Same, Faithful

(* Every operation keeps it.                                               *)
LEMMA JsonStep ==
  ASSUME IdsFit, JsonSizesFit, CodecInv, TypeOK, TextInv, JsonInv, [Next]_vars
  PROVE  JsonInv'
<1>1. /\ ByteFields(sent) /\ Packable(sent) /\ BlocksFit
      /\ (pc = "build" => journey = "none") /\ (pc = "text" => journey = "text")
  BY TypeParts DEF CodecInv, FrameInv, JsonInv
<1>2. ASSUME NEW i \in FieldIds, NEW content \in Contents(i), Set(i, content) PROVE JsonInv'
  <2>1. BlocksFit'
    BY Zenon, <1>1, <1>2, SetBlocksFit
  <2>2. pc' = "build"
    BY <1>2 DEF Set
  <2> QED  BY <2>1, <2>2 DEF JsonInv
<1>3. ASSUME sent' = sent PROVE BlocksFit' /\ Present(sent)' = Present(sent)
  BY <1>1, <1>3 DEF BlocksFit, Present
<1>4. ASSUME sent' = sent, pc' \notin {"text", "parsed"}, ~(pc' = "line" /\ journey' = "text")
      PROVE  JsonInv'
  BY <1>3, <1>4 DEF JsonInv
<1>5. ASSUME NEW behind \in Behind, PrintPacket(behind) PROVE JsonInv'
  <2>1. sent' = sent /\ Present(sent) # {} /\ pc' \in {"overrun", "text"}
    BY <1>5 DEF PrintPacket
  <2> QED  BY <1>3, <2>1 DEF JsonInv
<1>6. ASSUME NEW fields PROVE sent' = sent => Faithful(fields)' = Faithful(fields)
  BY DEF Faithful, Packable, Present, Legible
<1>7. ASSUME NEW found \in Byte, FeedJson(found) PROVE JsonInv'
  <2>1. /\ sent' = sent /\ pc = "text"
        /\ pc' = "overrun" \/ (pc' = "line" /\ frame' = PackedFrame(FieldsOfText(found)))
    BY <1>7 DEF FeedJson
  <2>2. Faithful(FieldsOfText(found))
    BY Zenon, <1>1, <2>1, TextCarries DEF TextInv
  <2> QED  BY <1>3, <1>6, <2>1, <2>2 DEF JsonInv
<1>8. ASSUME NEW found \in Byte, HandleJson(found) PROVE JsonInv'
  <2> DEFINE fields == FieldsOfText(found)
  <2>1. /\ sent' = sent /\ pc = "text" /\ pc' = "parsed" /\ status' = "PACKET_VALID"
        /\ received' = fields
    BY <1>8 DEF HandleJson
  <2>2. Faithful(fields)
    BY Zenon, <1>1, <2>1, TextCarries DEF TextInv
  <2> HIDE DEF fields
  <2>3. JsonRoundTrip'
    BY <2>1, <2>2 DEF JsonRoundTrip, Faithful, SameField, Present, Legible
  <2> QED  BY <1>3, <2>1, <2>3 DEF JsonInv
<1>9. CASE Pack \/ Misread
  <2>1. sent' = sent /\ (pc' = "misread" \/ (pc' = "line" /\ journey' = "frame"))
    BY <1>9 DEF Pack, Misread
  <2> QED  BY <1>4, <2>1
<1>10. ASSUME NEW kind \in {"changed", "cut", "longer"}, NEW broken, Damage(kind, broken)
       PROVE  JsonInv'
  <2>1. sent' = sent /\ pc' = "line" /\ journey' \in {"changed", "cut", "longer"}
    BY <1>10 DEF Damage
  <2> QED  BY <1>4, <2>1
<1>11. CASE DamageByte \/ DamageHeader \/ CutOff \/ RunsOn
  BY Zenon, <1>10, <1>11 DEF DamageByte, DamageHeader, CutOff, RunsOn
<1>12. CASE Parse
  <2>1. pc = "line" /\ pc' = "parsed" /\ UNCHANGED <<sent, frame, journey>>
    BY <1>12 DEF Parse
  <2>2. CASE journey = "text" /\ Len(frame.data) < WordMod
    <3>1. PICK fields : Faithful(fields) /\ frame = PackedFrame(fields)
      BY <2>1, <2>2 DEF JsonInv
    <3>2. Present(sent) # {}
      BY <2>1, <2>2 DEF JsonInv
    <3>3. /\ status' = "PACKET_VALID" /\ Present(received') = Present(sent)
          /\ \A i \in Present(sent) : Legible(i) => Content(received'[i]) = Content(sent[i])
      BY Zenon, <1>12, <2>2, <3>1, <3>2, TextParsed
    <3>4. JsonRoundTrip'
      BY <2>1, <3>3 DEF JsonRoundTrip, SameField, Present, Legible
    <3> QED  BY <1>3, <2>1, <3>4 DEF JsonInv
  <2>3. CASE ~(journey = "text" /\ Len(frame.data) < WordMod)
    BY <1>3, <2>1, <2>3 DEF JsonInv, JsonRoundTrip
  <2> QED  BY <2>2, <2>3
<1>13. CASE UNCHANGED vars
  BY <1>3, <1>6, <1>13 DEF vars, JsonInv, JsonRoundTrip, Garbled, SameField, Present, Legible
<1> QED
  BY Zenon, <1>2, <1>5, <1>7, <1>8, <1>9, <1>11, <1>12, <1>13 DEF Next

(* A packet that goes as JSON, to the handler directly or as the frame the *)
(* service makes of it, has all its fields and no others, and those JSON   *)
(* can carry are unchanged, as long as no quote or backslash is printed in *)
(* any of its strings and its length fits mDataLen: for any descriptor and *)
(* contents whose identifiers and sizes take at most four bytes, and       *)
(* whatever is found in an array.                                          *)
THEOREM JsonRoundTripCorrect ==
  ASSUME IdsFit, JsonSizesFit
  PROVE  Spec => [](Len(frame.data) < WordMod => JsonRoundTrip)
<1>1. SizesFit
  <2>1. \A i \in FieldIds : \A c \in Contents(i) : Len(c) \in Nat
    BY CodecAssumption
  <2> QED  BY <2>1, WeightsGrow DEF SizesFit, JsonSizesFit
<1>2. Spec => []CodecInv
  BY <1>1, CodecInvCorrect
<1>3. Init => JsonInv
  <2> SUFFICES ASSUME Init PROVE JsonInv
    OBVIOUS
  <2>1. \A i \in FieldIds : FullSize(Fields[i]) \in Nat
    BY FieldNumbers
  <2>2. \A i \in FieldIds : Len(sent[i].mData) = FullSize(Fields[i])
    BY <2>1 DEF Init, Built, FieldInit, Zeros
  <2>3. BlocksFit
    BY <2>2 DEF BlocksFit, JsonSizesFit
  <2> QED  BY <2>3 DEF Init, JsonInv
<1>4. CodecInv /\ TypeOK /\ TextInv /\ JsonInv /\ [Next]_vars => JsonInv'
  BY JsonStep
<1>5. TypeOK /\ TextInv /\ [Next]_vars => TypeOK' /\ TextInv'
  BY CodecTypeStep
<1>6. JsonInv => (Len(frame.data) < WordMod => JsonRoundTrip)
  BY DEF JsonInv, JsonRoundTrip
<1> QED
  BY <1>2, <1>3, <1>4, <1>5, <1>6, CodecTypeInit, PTL DEF Spec

=============================================================================
