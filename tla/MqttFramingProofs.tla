--------------------------- MODULE MqttFramingProofs ---------------------------
(***************************************************************************)
(* MqttFraming for bases, numbers of digits, packets, buffers and numbers  *)
(* of tasks of every size: MQTTPacket_read never writes past its buffer,   *)
(* MQTTPacket_decodeBuf finds the length again that was read, and packets  *)
(* come out of the stream whole and in order (the refinement of            *)
(* PacketStream).                                                          *)
(*                                                                         *)
(* The model's recursive functions come first: what they compute is proved *)
(* by induction over a set of numbers, and that they exist by primitive    *)
(* recursion.  The inductive invariant, FramingInv, says what of a packet  *)
(* each task has read, what is left of it in the stream, and that every    *)
(* packet behind is followed by its length and its body.                   *)
(***************************************************************************)
EXTENDS MqttFraming, SequenceTheorems, FiniteSetTheorems, TLAPS

-----------------------------------------------------------------------------
\* Every non-empty set of numbers has a least element, as the sets 0..n are finite and
\* inclusion of finite sets is well-founded.
LEMMA Least ==
  ASSUME NEW T \in SUBSET Nat, T # {}
  PROVE  \E x \in T : \A y \in T : x <= y
<1> DEFINE F == {0..n : n \in T}
           R == StrictSubsetOrdering(Nat)
<1>1. IsWellFoundedOn(R, FiniteSubsetsOf(Nat))
  BY FS_StrictSubsetOrderingWellFounded
<1>2. F \subseteq FiniteSubsetsOf(Nat) /\ F # {}
  <2>1. \A n \in T : 0..n \subseteq Nat /\ IsFiniteSet(0..n)
    BY FS_Interval
  <2>2. QED
    BY <2>1 DEF FiniteSubsetsOf
<1>3. PICK S \in F : \A U \in F : ~ (<<U, S>> \in R)
  <2> HIDE DEF F, R
  <2>1. QED
    BY <1>1, <1>2, WFMin
<1>4. PICK x \in T : S = 0..x
  OBVIOUS
<1>5. ASSUME NEW y \in T, y < x PROVE FALSE
  <2>1. 0..y \in SUBSET Nat /\ S \in SUBSET Nat /\ 0..y \subseteq S /\ x \in S /\ x \notin 0..y
    BY <1>4, <1>5
  <2>2. <<0..y, S>> \in R
    BY <2>1 DEF StrictSubsetOrdering
  <2>3. 0..y \in F
    OBVIOUS
  <2> HIDE DEF F, R
  <2>4. QED
    BY <1>3, <2>2, <2>3
<1>6. \A y \in T : x <= y
  BY <1>5
<1>7. QED
  BY <1>6

\* Induction, stated of a set, as a theorem with an operator for the property could not
\* be used.
LEMMA Induction ==
  ASSUME NEW T \in SUBSET Nat, 0 \in T, \A n \in T : n + 1 \in T
  PROVE  T = Nat
<1>1. SUFFICES ASSUME Nat \ T # {} PROVE FALSE
  OBVIOUS
<1>2. PICK x \in Nat \ T : \A y \in Nat \ T : x <= y
  BY <1>1, Least
<1>3. x # 0 /\ x - 1 \in T
  BY <1>2
<1>4. x - 1 + 1 = x
  BY <1>2
<1>5. QED
  BY <1>2, <1>3, <1>4

\* A function on Nat may be defined by its first value and by each next one in terms of
\* the last: the functions that do so up to k agree, and there is one for each k.
LEMMA PrimitiveRecursion ==
  ASSUME NEW S, NEW c \in S, NEW step \in [S -> S]
  PROVE  \E f \in [Nat -> S] : f[0] = c /\ \A n \in Nat : f[n + 1] = step[f[n]]
<1> DEFINE UpTo(k) == {g \in [0..k -> S] : g[0] = c /\ \A n \in 0..k-1 : g[n + 1] = step[g[n]]}
<1>1. \A k \in Nat : UpTo(k) # {}
  <2> DEFINE T == {k \in Nat : UpTo(k) # {}}
  <2>1. 0 \in T
    <3>1. [n \in 0..0 |-> c] \in UpTo(0)
      OBVIOUS
    <3>2. QED
      BY <3>1
  <2>2. ASSUME NEW k \in T PROVE k + 1 \in T
    <3>1. PICK g \in UpTo(k) : TRUE
      OBVIOUS
    <3> DEFINE h == [n \in 0..k+1 |-> IF n = k + 1 THEN step[g[k]] ELSE g[n]]
    <3>2. h \in [0..k+1 -> S]
      OBVIOUS
    <3>3. h[0] = c
      OBVIOUS
    <3>4. ASSUME NEW n \in 0..(k+1)-1 PROVE h[n + 1] = step[h[n]]
      <4>1. CASE n = k
        BY <4>1
      <4>2. CASE n \in 0..k-1
        BY <4>2
      <4>3. QED
        BY <4>1, <4>2
    <3>5. h \in UpTo(k + 1)
      BY <3>2, <3>3, <3>4
    <3>6. QED
      BY <3>5
  <2> HIDE DEF T
  <2>3. T = Nat
    BY <2>1, <2>2, Induction DEF T
  <2>4. QED
    BY <2>3 DEF T
<1>2. ASSUME NEW k \in Nat, NEW l \in Nat, k <= l, NEW g \in UpTo(k), NEW h \in UpTo(l)
      PROVE  g[k] = h[k]
  <2> DEFINE T == {n \in Nat : n <= k => g[n] = h[n]}
  <2>1. 0 \in T
    OBVIOUS
  <2>2. ASSUME NEW n \in T PROVE n + 1 \in T
    <3>1. SUFFICES ASSUME n + 1 <= k PROVE g[n+1] = h[n+1]
      OBVIOUS
    <3>2. n \in 0..k-1 /\ n \in 0..l-1 /\ g[n] = h[n]
      BY <1>2, <3>1
    <3>3. QED
      BY <1>2, <3>2
  <2> HIDE DEF T
  <2>3. T = Nat
    BY <2>1, <2>2, Induction DEF T
  <2>4. QED
    BY <2>3 DEF T
<1>3. PICK a : \A k \in Nat : a[k] \in UpTo(k)
  <2> HIDE DEF UpTo
  <2> DEFINE b == [k \in Nat |-> CHOOSE g \in UpTo(k) : TRUE]
  <2>1. \A k \in Nat : b[k] \in UpTo(k)
    BY <1>1
  <2> HIDE DEF b
  <2>2. QED
    BY <2>1
<1> DEFINE f == [k \in Nat |-> a[k][k]]
<1>4. \A k \in Nat : /\ a[k] \in [0..k -> S] /\ a[k][0] = c
                      /\ \A n \in 0..k-1 : a[k][n + 1] = step[a[k][n]]
  BY <1>3
<1>5. \A n \in Nat : a[n][n] = a[n+1][n]
  <2> HIDE DEF UpTo
  <2>1. QED
    BY <1>2, <1>3
<1>6. f \in [Nat -> S] /\ f[0] = c
  BY <1>4
<1>7. ASSUME NEW n \in Nat PROVE f[n + 1] = step[f[n]]
  <2>1. n \in 0..(n+1)-1 /\ n + 1 \in Nat
    OBVIOUS
  <2>2. a[n+1][n+1] = step[a[n+1][n]]
    BY <1>4, <2>1
  <2>3. QED
    BY <1>5, <2>1, <2>2
<1>8. QED
  BY <1>6, <1>7

-----------------------------------------------------------------------------
\* The recursive functions of the model.

\* What % and \div leave of a length.
LEMMA DivMod ==
  ASSUME NEW n \in Nat
  PROVE  /\ n % Base \in 0..Base-1
         /\ n \div Base \in Nat
         /\ n = Base * (n \div Base) + (n % Base)
         /\ n >= Base => n \div Base >= 1 /\ n \div Base < n
         /\ n < Base => n % Base = n
<1>1. Base \in Nat /\ Base > 1
  BY FramingAssumption
<1>2. /\ n % Base \in 0..Base-1
      /\ n \div Base \in Nat
      /\ n = Base * (n \div Base) + (n % Base)
  BY <1>1
<1>3. ASSUME n >= Base PROVE n \div Base >= 1 /\ n \div Base < n
  BY <1>1, <1>2, <1>3
<1>4. ASSUME n < Base PROVE n % Base = n
  BY <1>1, <1>2, <1>4
<1>5. QED
  BY <1>2, <1>3, <1>4

\* The multiplier exists, and is Base times the one before.
LEMMA MultiplierIs ==
  /\ Multiplier \in [Nat -> Nat \ {0}]
  /\ Multiplier[0] = 1
  /\ \A k \in Nat : Multiplier[k + 1] = Base * Multiplier[k]
<1> DEFINE S == Nat \ {0}
           Times == [v \in S |-> Base * v]
<1>1. Times \in [S -> S]
  <2>1. \A v \in Nat \ {0} : Base * v \in Nat \ {0}
    BY FramingAssumption
  <2>2. QED
    BY <2>1
<1>2. PICK f \in [Nat -> S] : f[0] = 1 /\ \A n \in Nat : f[n + 1] = Times[f[n]]
  <2>1. PICK c \in S : c = 1
    OBVIOUS
  <2> HIDE DEF S, Times
  <2>2. \E f \in [Nat -> S] : f[0] = c /\ \A n \in Nat : f[n + 1] = Times[f[n]]
    BY <1>1, PrimitiveRecursion
  <2>3. QED
    BY <2>1, <2>2
<1>3. f = [k \in Nat |-> IF k = 0 THEN 1 ELSE Base * f[k - 1]]
  <2>1. ASSUME NEW k \in Nat, k # 0 PROVE f[k] = Base * f[k - 1]
    <3>1. k - 1 \in Nat /\ (k - 1) + 1 = k
      BY <2>1
    <3>2. f[k] = Times[f[k - 1]]
      BY <1>2, <3>1
    <3>3. QED
      BY <3>1, <3>2
  <2>2. QED
    BY <1>2, <2>1
<1>4. Multiplier = [k \in Nat |-> IF k = 0 THEN 1 ELSE Base * Multiplier[k - 1]]
  BY <1>3 DEF Multiplier
<1>5. \A k \in Nat : Multiplier[k + 1] = Base * Multiplier[k]
  <2>1. \A k \in Nat : k + 1 \in Nat /\ k + 1 # 0 /\ (k + 1) - 1 = k
    OBVIOUS
  <2>2. QED
    BY <1>4, <2>1
<1>6. Multiplier[0] = 1
  BY <1>4
<1>7. Multiplier \in [Nat -> Nat \ {0}]
  <2> DEFINE T == {k \in Nat : Multiplier[k] \in Nat \ {0}}
  <2>1. 0 \in T
    BY <1>6
  <2>2. ASSUME NEW k \in T PROVE k + 1 \in T
    BY <1>5, FramingAssumption
  <2> HIDE DEF T
  <2>3. T = Nat
    BY <2>1, <2>2, Induction DEF T
  <2>4. \A k \in Nat : Multiplier[k] \in Nat \ {0}
    BY <2>3 DEF T
  <2>5. QED
    BY <1>4, <2>4
<1>8. QED
  BY <1>5, <1>6, <1>7

\* The loop of MQTTPacket_encode ends as length decreases: after n rounds the digits of n
\* no longer change.
LEMMA EncodeIs ==
  /\ Encode \in [Nat -> Seq(Byte)]
  /\ \A n \in Nat : n < Base => Encode[n] = <<n>>
  /\ \A n \in Nat : n >= Base => Encode[n] = <<Base + (n % Base)>> \o Encode[n \div Base]
<1> DEFINE S == [Nat -> Seq(Byte)]
           Round(g) == [n \in Nat |-> IF n >= Base THEN <<Base + (n % Base)>> \o g[n \div Base]
                                                   ELSE <<n>>]
           Step == [g \in S |-> Round(g)]
           None == [n \in Nat |-> << >>]
<1>0. Base \in Nat /\ Base > 1
  BY FramingAssumption
<1>1. /\ \A n \in Nat : n >= Base => Base + (n % Base) \in Byte
      /\ \A n \in Nat : n < Base => n \in Byte
      /\ \A n \in Nat : n < Base => <<n>> \in Seq(Byte)
  BY <1>0, DivMod DEF Byte
<1>2. ASSUME NEW g \in S PROVE Round(g) \in S
  <2>1. ASSUME NEW n \in Nat, n >= Base
        PROVE  <<Base + (n % Base)>> \o g[n \div Base] \in Seq(Byte)
    <3>1. g[n \div Base] \in Seq(Byte) /\ <<Base + (n % Base)>> \in Seq(Byte)
      BY <1>1, <2>1, DivMod
    <3>2. QED
      BY <3>1, ConcatProperties
  <2>2. ASSUME NEW n \in Nat, ~(n >= Base) PROVE <<n>> \in Seq(Byte)
    BY <1>0, <1>1, <2>2
  <2>3. QED
    BY <2>1, <2>2
<1>3. PICK f \in [Nat -> S] : f[0] = None /\ \A k \in Nat : f[k + 1] = Round(f[k])
  <2>1. Step \in [S -> S] /\ None \in S
    BY <1>2, EmptySeq
  <2>2. \E f \in [Nat -> S] : f[0] = None /\ \A k \in Nat : f[k + 1] = Step[f[k]]
    <3> HIDE DEF S, Step, None
    <3>1. QED
      BY <2>1, PrimitiveRecursion
  <2>3. QED
    BY <2>2
<1>4. \A k \in Nat : f[k] \in [Nat -> Seq(Byte)]
  BY <1>3
<1>5. /\ \A k, n \in Nat : n < Base => f[k + 1][n] = <<n>>
      /\ \A k, n \in Nat : n >= Base => f[k + 1][n] = <<Base + (n % Base)>> \o f[k][n \div Base]
  <2>1. \A k \in Nat : f[k + 1] = Round(f[k])
    BY <1>3
  <2>2. \A n \in Nat : n < Base <=> ~(n >= Base)
    BY <1>0
  <2>3. QED
    BY <2>1, <2>2
<1> HIDE DEF S, Round, Step, None
<1>6. \A k \in Nat : \A n, j \in Nat : n < k /\ k <= j => f[j][n] = f[k][n]
  <2> DEFINE T == {k \in Nat : \A n, j \in Nat : n < k /\ k <= j => f[j][n] = f[k][n]}
  <2>1. 0 \in T
    OBVIOUS
  <2>2. ASSUME NEW k \in T PROVE k + 1 \in T
    <3>1. SUFFICES ASSUME NEW n \in Nat, NEW j \in Nat, n < k + 1, k + 1 <= j
                   PROVE  f[j][n] = f[k + 1][n]
      OBVIOUS
    <3>2. j - 1 \in Nat /\ (j - 1) + 1 = j /\ k <= j - 1 /\ k \in Nat
      BY <3>1
    <3>3. CASE n < Base
      <4>1. f[(j - 1) + 1][n] = <<n>> /\ f[k + 1][n] = <<n>>
        BY <1>5, <3>2, <3>3
      <4>2. QED
        BY <3>2, <4>1
    <3>4. CASE n >= Base
      <4>1. n \div Base \in Nat /\ n \div Base < k
        BY <3>1, <3>4, DivMod
      <4>2. f[j - 1][n \div Base] = f[k][n \div Base]
        BY <3>2, <4>1
      <4>3. /\ f[(j - 1) + 1][n] = <<Base + (n % Base)>> \o f[j - 1][n \div Base]
            /\ f[k + 1][n] = <<Base + (n % Base)>> \o f[k][n \div Base]
        BY <1>5, <3>2, <3>4
      <4>4. QED
        BY <3>2, <4>2, <4>3
    <3>5. QED
      BY <1>0, <3>3, <3>4
  <2> HIDE DEF T
  <2>3. T = Nat
    BY <2>1, <2>2, Induction DEF T
  <2>4. QED
    BY <2>3 DEF T
<1> DEFINE e == [n \in Nat |-> f[n + 1][n]]
<1>7. e \in [Nat -> Seq(Byte)]
  BY <1>4
<1>8. \A n \in Nat : n < Base => e[n] = <<n>>
  BY <1>5
<1>9. ASSUME NEW n \in Nat, n >= Base
      PROVE  e[n] = <<Base + (n % Base)>> \o e[n \div Base]
  <2>1. n \div Base \in Nat /\ n \div Base < n
    BY <1>9, DivMod
  <2>2. f[n + 1][n] = <<Base + (n % Base)>> \o f[n][n \div Base]
    BY <1>5, <1>9
  <2>3. (n \div Base) + 1 \in Nat /\ n \div Base < (n \div Base) + 1 /\ (n \div Base) + 1 <= n
    BY <2>1
  <2>4. f[n][n \div Base] = f[(n \div Base) + 1][n \div Base]
    BY <1>6, <2>1, <2>3
  <2>5. QED
    BY <2>1, <2>2, <2>4
<1> HIDE DEF e
<1>10. e = [n \in Nat |-> IF n >= Base THEN <<Base + (n % Base)>> \o e[n \div Base] ELSE <<n>>]
  <2>1. \A n \in Nat : n < Base <=> ~(n >= Base)
    BY <1>0
  <2>2. \A n \in Nat :
          e[n] = IF n >= Base THEN <<Base + (n % Base)>> \o e[n \div Base] ELSE <<n>>
    BY <1>8, <1>9, <2>1
  <2>3. QED
    BY <1>7, <2>2
<1>11. Encode = [n \in Nat |-> IF n >= Base THEN <<Base + (n % Base)>> \o Encode[n \div Base]
                                            ELSE <<n>>]
  BY <1>10 DEF Encode
<1>12. /\ \A n \in Nat : n < Base => Encode[n] = <<n>>
       /\ \A n \in Nat : n >= Base => Encode[n] = <<Base + (n % Base)>> \o Encode[n \div Base]
  <2>1. \A n \in Nat : n < Base <=> ~(n >= Base)
    BY <1>0
  <2>2. \A n \in Nat :
          Encode[n] = IF n >= Base THEN <<Base + (n % Base)>> \o Encode[n \div Base] ELSE <<n>>
    BY <1>11
  <2>3. QED
    BY <2>1, <2>2
<1>13. \A k \in Nat : \A n \in Nat : n < k => Encode[n] \in Seq(Byte)
  <2> DEFINE T == {k \in Nat : \A n \in Nat : n < k => Encode[n] \in Seq(Byte)}
  <2>1. 0 \in T
    OBVIOUS
  <2>2. ASSUME NEW k \in T PROVE k + 1 \in T
    <3>1. SUFFICES ASSUME NEW n \in Nat, n < k + 1 PROVE Encode[n] \in Seq(Byte)
      OBVIOUS
    <3>2. CASE n < Base
      BY <1>1, <1>12, <3>2
    <3>3. CASE n >= Base
      <4>1. n \div Base \in Nat /\ n \div Base < k /\ <<Base + (n % Base)>> \in Seq(Byte)
        BY <1>1, <3>1, <3>3, DivMod
      <4>2. Encode[n \div Base] \in Seq(Byte)
        BY <4>1
      <4>3. QED
        BY <1>12, <3>3, <4>1, <4>2, ConcatProperties
    <3>4. QED
      BY <1>0, <3>2, <3>3
  <2> HIDE DEF T
  <2>3. T = Nat
    BY <2>1, <2>2, Induction DEF T
  <2>4. QED
    BY <2>3 DEF T
<1>14. \A n \in Nat : Encode[n] \in Seq(Byte)
  <2>1. \A n \in Nat : n + 1 \in Nat /\ n < n + 1
    OBVIOUS
  <2>2. QED
    BY <1>13, <2>1
<1>15. QED
  BY <1>11, <1>12, <1>14

\* The digits of a length: the last one alone, or one and those of the rest.
LEMMA FirstDigit ==
  ASSUME NEW n \in Nat
  PROVE  /\ Encode[n] \in Seq(Byte) /\ Len(Encode[n]) \in Nat \ {0} /\ Encode[n][1] \in Byte
         /\ n < Base => Encode[n][1] = n /\ Len(Encode[n]) = 1
         /\ n >= Base => /\ Encode[n][1] = Base + (n % Base)
                         /\ Len(Encode[n]) = 1 + Len(Encode[n \div Base])
                         /\ \A j \in 1..Len(Encode[n \div Base]) :
                              Encode[n][1 + j] = Encode[n \div Base][j]
<1>0. Base \in Nat /\ Base > 1
  BY FramingAssumption
<1>1. Encode[n] \in Seq(Byte)
  BY EncodeIs
<1>2. CASE n < Base
  <2>1. Encode[n] = <<n>> /\ n \in Byte
    BY <1>0, <1>2, EncodeIs DEF Byte
  <2>2. Len(<<n>>) = 1 /\ <<n>>[1] = n
    OBVIOUS
  <2>3. QED
    BY <1>0, <1>1, <1>2, <2>1, <2>2
<1>3. CASE n >= Base
  <2> DEFINE d == Base + (n % Base)
             e == Encode[n \div Base]
  <2>1. n \div Base \in Nat /\ d \in Byte
    BY <1>0, DivMod DEF Byte
  <2>2. e \in Seq(Byte) /\ <<d>> \in Seq(Byte) /\ Len(e) \in Nat
    BY <2>1, EncodeIs, LenProperties
  <2>3. Encode[n] = <<d>> \o e
    BY <1>3, EncodeIs
  <2> HIDE DEF d, e
  <2>4. /\ Len(<<d>> \o e) = 1 + Len(e)
        /\ \A i \in 1..1 + Len(e) : (<<d>> \o e)[i] = IF i <= 1 THEN d ELSE e[i - 1]
    BY <2>2, ConcatProperties
  <2>5. /\ Encode[n][1] = d
        /\ \A j \in 1..Len(e) : Encode[n][1 + j] = e[j]
    BY <2>2, <2>3, <2>4
  <2>6. QED
    BY <1>0, <1>1, <1>3, <2>1, <2>2, <2>3, <2>4, <2>5 DEF d, e
<1>4. QED
  BY <1>0, <1>2, <1>3

\* What a digit says, whether another follows or not.
LEMMA DigitValue ==
  ASSUME NEW q \in Nat
  PROVE  /\ Encode[q][1] % Base = q % Base
         /\ Encode[q][1] >= Base <=> q >= Base
<1>0. Base \in Nat /\ Base > 1
  BY FramingAssumption
<1>1. CASE q < Base
  BY <1>0, <1>1, FirstDigit
<1>2. CASE q >= Base
  <2>1. PICK x \in 0..Base - 1 : x = q % Base
    BY DivMod
  <2>2. (Base + x) % Base = x
    BY <1>0
  <2>3. Encode[q][1] = Base + x
    BY <1>2, <2>1, FirstDigit
  <2>4. Base + x >= Base
    BY <1>0
  <2>5. QED
    BY <1>2, <2>1, <2>2, <2>3, <2>4
<1>3. QED
  BY <1>0, <1>1, <1>2

\* After a digit, what has been read and what has not still make up the length.
LEMMA DigitTaken ==
  ASSUME NEW q \in Nat, NEW r \in Nat, NEW k \in Nat
  PROVE  /\ q < Base => r + Multiplier[k] * q = r + (q % Base) * Multiplier[k]
         /\ r + Multiplier[k] * q
              = (r + (q % Base) * Multiplier[k]) + Multiplier[k + 1] * (q \div Base)
<1>1. PICK M \in Nat, B \in Nat :
        M = Multiplier[k] /\ B = Base /\ Multiplier[k + 1] = B * M
  BY MultiplierIs, FramingAssumption
<1>2. PICK x \in Nat, y \in Nat :
        /\ x = q % Base /\ y = q \div Base /\ q = B * y + x
        /\ q < Base => x = q
  <2>1. q % Base \in Nat
    BY DivMod, FramingAssumption
  <2>2. QED
    BY <1>1, <2>1, DivMod
<1>3. M * (B * y + x) = x * M + (B * M) * y /\ M * x = x * M
  OBVIOUS
<1>4. QED
  BY <1>1, <1>2, <1>3

\* A length of k digits and one digit more are below what the digit after counts.
LEMMA DigitBounded ==
  ASSUME NEW r \in Nat, NEW k \in Nat, NEW x \in 0..Base - 1, r < Multiplier[k]
  PROVE  r + x * Multiplier[k] \in Nat /\ r + x * Multiplier[k] < Multiplier[k + 1]
<1>1. PICK M \in Nat, B \in Nat :
        /\ M = Multiplier[k] /\ B = Base /\ Multiplier[k + 1] = B * M
  BY MultiplierIs, FramingAssumption
<1>2. x \in Nat /\ x + 1 <= B
  BY <1>1
<1>3. (x + 1) * M <= B * M
  BY <1>1, <1>2
<1>4. (x + 1) * M = x * M + M /\ x * M \in Nat
  BY <1>1, <1>2
<1>5. QED
  BY <1>1, <1>3, <1>4

\* Later digits count no less.
LEMMA MultiplierGrows ==
  ASSUME NEW k \in Nat, NEW j \in Nat
  PROVE  Multiplier[k] <= Multiplier[k + j]
<1> DEFINE T == {i \in Nat : Multiplier[k] <= Multiplier[k + i]}
<1>1. 0 \in T
  BY MultiplierIs
<1>2. ASSUME NEW i \in T PROVE i + 1 \in T
  <2>1. PICK M \in Nat, N \in Nat, B \in Nat :
          /\ M = Multiplier[k] /\ N = Multiplier[k + i] /\ B = Base /\ B > 1
          /\ Multiplier[(k + i) + 1] = B * N
    BY MultiplierIs, FramingAssumption
  <2>2. N <= B * N
    BY <2>1
  <2>3. QED
    BY <2>1, <2>2
<1> HIDE DEF T
<1>3. T = Nat
  BY <1>1, <1>2, Induction DEF T
<1>4. QED
  BY <1>3 DEF T

\* A length below Multiplier[k] has at most k digits.
LEMMA EncodeLength ==
  ASSUME NEW n \in 0..MaxRemLen
  PROVE  Len(Encode[n]) <= MaxDigits
<1> DEFINE T == {k \in Nat : \A i \in Nat : i < Multiplier[k + 1] => Len(Encode[i]) <= k + 1}
<1>0. Base \in Nat /\ Base > 1 /\ MaxDigits \in Nat \ {0}
  BY FramingAssumption
<1>1. 0 \in T
  <2>1. Multiplier[0 + 1] = Base
    BY <1>0, MultiplierIs
  <2>2. \A i \in Nat : i < Base => Len(Encode[i]) = 1
    BY FirstDigit
  <2>3. ASSUME NEW i \in Nat, i < Multiplier[0 + 1] PROVE Len(Encode[i]) <= 0 + 1
    <3>1. i < Base
      BY <2>1, <2>3
    <3>2. Len(Encode[i]) = 1
      BY <2>2, <3>1
    <3>3. QED
      BY <3>2
  <2>4. QED
    BY <2>3
<1>2. ASSUME NEW k \in T PROVE k + 1 \in T
  <2>1. SUFFICES ASSUME NEW i \in Nat, i < Multiplier[(k + 1) + 1]
                 PROVE  Len(Encode[i]) <= (k + 1) + 1
    OBVIOUS
  <2>2. CASE i < Base
    <3>1. Len(Encode[i]) = 1 /\ k \in Nat
      BY <2>2, FirstDigit
    <3>2. QED
      BY <3>1
  <2>3. CASE i >= Base
    <3>1. PICK M \in Nat, B \in Nat :
            /\ M = Multiplier[k + 1] /\ B = Base /\ B > 1 /\ Multiplier[(k + 1) + 1] = B * M
      <4>1. k + 1 \in Nat
        OBVIOUS
      <4>2. QED
        BY <1>0, <4>1, MultiplierIs
    <3>2. PICK x \in Nat, y \in Nat : y = i \div Base /\ i = B * y + x
      <4>1. i % Base \in Nat
        BY <1>0, DivMod
      <4>2. QED
        BY <3>1, <4>1, DivMod
    <3>3. y < M
      <4>1. SUFFICES ASSUME M <= y PROVE FALSE
        OBVIOUS
      <4>2. B * M <= B * y
        BY <4>1
      <4>3. i < B * M
        BY <2>1, <3>1
      <4>4. B * y <= i /\ B * M \in Nat /\ B * y \in Nat
        BY <3>2
      <4>5. QED
        BY <4>2, <4>3, <4>4
    <3>4. Len(Encode[y]) <= k + 1
      BY <3>1, <3>3
    <3>5. Len(Encode[i]) = 1 + Len(Encode[y]) /\ Len(Encode[y]) \in Nat
      BY <2>3, <3>2, FirstDigit
    <3>6. QED
      BY <3>4, <3>5
  <2>4. QED
    BY <1>0, <2>2, <2>3
<1> HIDE DEF T
<1>3. T = Nat
  BY <1>1, <1>2, Induction DEF T
<1>4. MaxDigits - 1 \in T /\ (MaxDigits - 1) + 1 = MaxDigits
  BY <1>0, <1>3
<1>5. n \in Nat /\ n < Multiplier[MaxDigits]
  BY <1>0, MultiplierIs DEF MaxRemLen
<1>6. QED
  BY <1>4, <1>5 DEF T

-----------------------------------------------------------------------------
\* The packets in a stream.

\* The packet that starts with a byte, if one does.
Starting(b) == IF b.packet = Inside THEN << >> ELSE <<b.packet>>

\* What a byte of the stream is and starts.
LEMMA StreamBytes ==
  ASSUME NEW b \in StreamByte
  PROVE  /\ b.byte \in Byte /\ b.packet \in Packet \cup {Inside}
         /\ Starting(b) \in Seq(Packet)
  BY DEF StreamByte, Starting

\* PacketsIn exists, by recursion on the length of the stream.
LEMMA PacketsInIs ==
  /\ PacketsIn[<< >>] = << >>
  /\ \A s \in Seq(StreamByte) :
       /\ PacketsIn[s] \in Seq(Packet)
       /\ s # << >> => PacketsIn[s] = Starting(Head(s)) \o PacketsIn[Tail(s)]
<1> DEFINE S == [Seq(StreamByte) -> Seq(Packet)]
           Round(g) == [s \in Seq(StreamByte) |-> IF s = << >> THEN << >>
                                                  ELSE Starting(Head(s)) \o g[Tail(s)]]
           Step == [g \in S |-> Round(g)]
           None == [s \in Seq(StreamByte) |-> << >>]
<1>1. ASSUME NEW s \in Seq(StreamByte), s # << >>
      PROVE  /\ Starting(Head(s)) \in Seq(Packet) /\ Tail(s) \in Seq(StreamByte)
             /\ Len(s) \in Nat /\ Len(Tail(s)) \in Nat /\ Len(s) = Len(Tail(s)) + 1
  <2>1. Head(s) \in StreamByte
    BY <1>1, HeadTailProperties
  <2>2. Starting(Head(s)) \in Seq(Packet)
    BY <2>1, StreamBytes
  <2>3. QED
    BY <1>1, <2>2, HeadTailProperties, LenProperties
<1>2. ASSUME NEW g \in S PROVE Round(g) \in S
  <2>1. ASSUME NEW s \in Seq(StreamByte), s # << >>
        PROVE  Starting(Head(s)) \o g[Tail(s)] \in Seq(Packet)
    <3>1. g[Tail(s)] \in Seq(Packet) /\ Starting(Head(s)) \in Seq(Packet)
      BY <1>1, <2>1
    <3>2. QED
      BY <3>1, ConcatProperties
  <2>2. QED
    BY <2>1, EmptySeq
<1>3. PICK f \in [Nat -> S] : f[0] = None /\ \A k \in Nat : f[k + 1] = Round(f[k])
  <2>1. Step \in [S -> S] /\ None \in S
    BY <1>2, EmptySeq
  <2>2. \E f \in [Nat -> S] : f[0] = None /\ \A k \in Nat : f[k + 1] = Step[f[k]]
    <3> HIDE DEF S, Step, None
    <3>1. QED
      BY <2>1, PrimitiveRecursion
  <2>3. QED
    BY <2>2
<1>4. \A k \in Nat : f[k] \in [Seq(StreamByte) -> Seq(Packet)]
  BY <1>3
<1>5. /\ f[0][<< >>] = << >>
      /\ \A k \in Nat : \A s \in Seq(StreamByte) :
           s # << >> => f[k + 1][s] = Starting(Head(s)) \o f[k][Tail(s)]
  <2>1. \A k \in Nat : f[k + 1] = Round(f[k])
    BY <1>3
  <2>2. << >> \in Seq(StreamByte)
    BY EmptySeq
  <2>3. QED
    BY <1>3, <2>1, <2>2
<1> HIDE DEF S, Round, Step, None
<1> DEFINE e == [s \in Seq(StreamByte) |-> f[Len(s)][s]]
<1>6. \A s \in Seq(StreamByte) : e[s] \in Seq(Packet)
  BY <1>4, LenProperties
<1>7. e[<< >>] = << >>
  BY <1>5, EmptySeq
<1>8. ASSUME NEW s \in Seq(StreamByte), s # << >>
      PROVE  e[s] = Starting(Head(s)) \o e[Tail(s)]
  <2>1. f[Len(Tail(s)) + 1][s] = Starting(Head(s)) \o f[Len(Tail(s))][Tail(s)]
    BY <1>1, <1>5, <1>8
  <2>2. QED
    BY <1>1, <1>8, <2>1
<1>9. e = [s \in Seq(StreamByte) |->
             IF s = << >> THEN << >>
             ELSE (IF Head(s).packet = Inside THEN << >> ELSE <<Head(s).packet>>) \o e[Tail(s)]]
  <2>1. \A s \in Seq(StreamByte) :
          e[s] = IF s = << >> THEN << >>
                 ELSE (IF Head(s).packet = Inside THEN << >> ELSE <<Head(s).packet>>) \o e[Tail(s)]
    BY <1>7, <1>8 DEF Starting
  <2>2. \E d : e = [s \in Seq(StreamByte) |-> d[s]]
    OBVIOUS
  <2> HIDE DEF e
  <2>3. QED
    BY <2>1, <2>2
<1> HIDE DEF e
<1>10. PacketsIn = [s \in Seq(StreamByte) |->
             IF s = << >> THEN << >>
             ELSE (IF Head(s).packet = Inside THEN << >> ELSE <<Head(s).packet>>)
                    \o PacketsIn[Tail(s)]]
  BY <1>9 DEF PacketsIn
<1>11. /\ PacketsIn[<< >>] = << >>
       /\ \A s \in Seq(StreamByte) :
            s # << >> => PacketsIn[s] = Starting(Head(s)) \o PacketsIn[Tail(s)]
  <2>1. \A s \in Seq(StreamByte) : PacketsIn[s] =
             IF s = << >> THEN << >>
             ELSE (IF Head(s).packet = Inside THEN << >> ELSE <<Head(s).packet>>)
                    \o PacketsIn[Tail(s)]
    BY <1>10
  <2>2. << >> \in Seq(StreamByte)
    BY EmptySeq
  <2>3. QED
    BY <2>1, <2>2 DEF Starting
<1>12. \A k \in Nat : \A s \in Seq(StreamByte) : Len(s) = k => PacketsIn[s] \in Seq(Packet)
  <2> DEFINE T == {k \in Nat : \A s \in Seq(StreamByte) : Len(s) = k => PacketsIn[s] \in Seq(Packet)}
  <2>1. 0 \in T
    BY <1>11, EmptySeq
  <2>2. ASSUME NEW k \in T PROVE k + 1 \in T
    <3>1. SUFFICES ASSUME NEW s \in Seq(StreamByte), Len(s) = k + 1
                   PROVE  PacketsIn[s] \in Seq(Packet)
      OBVIOUS
    <3>2. s # << >>
      BY <3>1, EmptySeq
    <3>3. PacketsIn[Tail(s)] \in Seq(Packet) /\ Starting(Head(s)) \in Seq(Packet)
      <4>1. Tail(s) \in Seq(StreamByte) /\ Len(Tail(s)) = k
        BY <1>1, <3>1, <3>2
      <4>2. QED
        BY <1>1, <3>2, <4>1
    <3>4. QED
      BY <1>11, <3>2, <3>3, ConcatProperties
  <2> HIDE DEF T
  <2>3. T = Nat
    BY <2>1, <2>2, Induction DEF T
  <2>4. QED
    BY <2>3 DEF T
<1>13. QED
  BY <1>11, <1>12, LenProperties

\* What \o gives, element by element.
LEMMA ConcatIs ==
  ASSUME NEW S, NEW a \in Seq(S), NEW b \in Seq(S)
  PROVE  /\ a \o b \in Seq(S)
         /\ Len(a) \in Nat /\ Len(b) \in Nat /\ Len(a \o b) = Len(a) + Len(b)
         /\ \A i \in 1..Len(a) : (a \o b)[i] = a[i]
         /\ \A i \in 1..Len(b) : (a \o b)[Len(a) + i] = b[i]
  BY ConcatProperties, LenProperties

\* Sequences of packets can be put together in any order.
LEMMA Associative ==
  ASSUME NEW a \in Seq(Packet), NEW b \in Seq(Packet), NEW c \in Seq(Packet)
  PROVE  (a \o b) \o c = a \o (b \o c)
<1>1. PICK x \in Seq(Packet) : x = a \o b
  BY ConcatIs
<1>2. PICK y \in Seq(Packet) : y = b \o c
  BY ConcatIs
<1>8. x \o c \in Seq(Packet) /\ a \o y \in Seq(Packet) /\ Len(x \o c) = Len(a \o y)
  BY <1>1, <1>2, ConcatIs
<1>9. ASSUME NEW i \in 1..Len(x \o c) PROVE (x \o c)[i] = (a \o y)[i]
  <2>0. /\ Len(x \o c) = Len(x) + Len(c) /\ Len(x) = Len(a) + Len(b)
       /\ Len(a) \in Nat /\ Len(b) \in Nat /\ Len(c) \in Nat /\ Len(y) = Len(b) + Len(c)
    BY <1>1, <1>2, ConcatIs
  <2>1. CASE i \in 1..Len(a)
    <3>1. i \in 1..Len(x)
      BY <2>0, <2>1
    <3>2. (x \o c)[i] = x[i] /\ x[i] = a[i] /\ (a \o y)[i] = a[i]
      BY <2>1, <3>1, <1>1, ConcatIs
    <3>3. QED
      BY <3>2
  <2>2. CASE i > Len(a) /\ i <= Len(a) + Len(b)
    <3>1. PICK j \in 1..Len(b) : i = Len(a) + j
      <4>1. i - Len(a) \in 1..Len(b) /\ i = Len(a) + (i - Len(a))
        BY <2>0, <2>2
      <4>2. QED
        BY <4>1
    <3>2. i \in 1..Len(x) /\ j \in 1..Len(y)
      BY <2>0, <2>2, <3>1
    <3>3. (x \o c)[i] = x[i] /\ (a \o y)[Len(a) + j] = y[j]
      BY <3>2, ConcatIs
    <3>4. x[Len(a) + j] = b[j] /\ y[j] = b[j]
      BY <1>1, <1>2, ConcatIs
    <3>5. QED
      BY <3>1, <3>3, <3>4
  <2>3. CASE i > Len(a) + Len(b)
    <3>1. PICK j \in 1..Len(c) : i = (Len(a) + Len(b)) + j
      <4>1. i - (Len(a) + Len(b)) \in 1..Len(c) /\ i = (Len(a) + Len(b)) + (i - (Len(a) + Len(b)))
        BY <2>0, <2>3
      <4>2. QED
        BY <4>1
    <3>2. Len(b) + j \in 1..Len(y) /\ i = Len(a) + (Len(b) + j) /\ i = Len(x) + j
      BY <2>0, <2>3, <3>1
    <3>3. (x \o c)[Len(x) + j] = c[j] /\ y[Len(b) + j] = c[j]
      BY <1>2, ConcatIs
    <3>4. (a \o y)[Len(a) + (Len(b) + j)] = y[Len(b) + j]
      BY <3>2, ConcatIs
    <3>5. QED
      BY <3>2, <3>3, <3>4
  <2>4. QED
    BY <2>0, <2>1, <2>2, <2>3
<1>10. x \o c = a \o y
  BY <1>8, <1>9, SeqEqual
<1>11. QED
  BY <1>1, <1>2, <1>10

\* The first element of a concatenation is that of its first part.
LEMMA HeadTailConcat ==
  ASSUME NEW S, NEW v \in Seq(S), NEW u \in Seq(S), v # << >>
  PROVE  /\ v \o u \in Seq(S) /\ v \o u # << >>
         /\ Head(v \o u) = Head(v) /\ Tail(v \o u) = Tail(v) \o u
<1>1. /\ v \o u \in Seq(S) /\ v \o u # << >>
      /\ Len(v) \in Nat \ {0} /\ Len(u) \in Nat /\ Len(v \o u) = Len(v) + Len(u)
      /\ \A i \in 1..Len(v) + Len(u) :
           (v \o u)[i] = IF i <= Len(v) THEN v[i] ELSE u[i - Len(v)]
  BY ConcatProperties, ConcatEqualIffEmpty, EmptySeq, LenProperties
<1>2. Head(v \o u) = Head(v)
  BY <1>1
<1>3. /\ Tail(v) \in Seq(S) /\ Len(Tail(v)) = Len(v) - 1
      /\ \A i \in 1..Len(Tail(v)) : Tail(v)[i] = v[i + 1]
      /\ Tail(v \o u) \in Seq(S) /\ Len(Tail(v \o u)) = Len(v \o u) - 1
      /\ \A i \in 1..Len(Tail(v \o u)) : Tail(v \o u)[i] = (v \o u)[i + 1]
  BY <1>1, HeadTailProperties
<1>4. /\ Tail(v) \o u \in Seq(S) /\ Len(Tail(v) \o u) = Len(Tail(v)) + Len(u)
      /\ \A i \in 1..Len(Tail(v)) + Len(u) :
           (Tail(v) \o u)[i] = IF i <= Len(Tail(v)) THEN Tail(v)[i] ELSE u[i - Len(Tail(v))]
  BY <1>3, ConcatProperties
<1>5. Len(Tail(v \o u)) = Len(Tail(v) \o u)
  BY <1>1, <1>3, <1>4
<1>6. ASSUME NEW i \in 1..Len(Tail(v \o u)) PROVE Tail(v \o u)[i] = (Tail(v) \o u)[i]
  <2>1. /\ i \in 1..Len(Tail(v)) + Len(u) /\ i + 1 \in 1..Len(v) + Len(u)
        /\ Tail(v \o u)[i] = (v \o u)[i + 1]
    BY <1>1, <1>3
  <2>2. CASE i <= Len(Tail(v))
    BY <1>1, <1>3, <1>4, <2>1, <2>2
  <2>3. CASE i > Len(Tail(v))
    <3>1. i + 1 > Len(v) /\ (i + 1) - Len(v) = i - Len(Tail(v))
      BY <1>1, <1>3, <2>3
    <3>2. QED
      BY <1>1, <1>3, <1>4, <2>1, <2>3, <3>1
  <2>4. QED
    BY <1>1, <1>3, <2>2, <2>3
<1>7. Tail(v \o u) = Tail(v) \o u
  BY <1>3, <1>4, <1>5, <1>6, SeqEqual
<1>8. QED
  BY <1>1, <1>2, <1>7

\* The packets of two streams in a row are those of the one and of the other.
LEMMA PacketsInConcat ==
  ASSUME NEW s \in Seq(StreamByte), NEW u \in Seq(StreamByte)
  PROVE  PacketsIn[s \o u] = PacketsIn[s] \o PacketsIn[u]
<1> DEFINE Splits(v) == PacketsIn[v \o u] = PacketsIn[v] \o PacketsIn[u]
           T == {k \in Nat : \A v \in Seq(StreamByte) : Len(v) = k => Splits(v)}
<1>0. PacketsIn[u] \in Seq(Packet)
  BY PacketsInIs
<1>1. 0 \in T
  <2>1. \A v \in Seq(StreamByte) : Len(v) = 0 => v = << >>
    BY EmptySeq
  <2>2. << >> \o u = u /\ << >> \o PacketsIn[u] = PacketsIn[u]
    BY <1>0, ConcatEmptySeq
  <2>3. QED
    BY <2>1, <2>2, PacketsInIs
<1>2. ASSUME NEW k \in T PROVE k + 1 \in T
  <2> HIDE DEF Splits
  <2>1. SUFFICES ASSUME NEW v \in Seq(StreamByte), Len(v) = k + 1 PROVE Splits(v)
    OBVIOUS
  <2>2. /\ v # << >> /\ Head(v) \in StreamByte /\ Tail(v) \in Seq(StreamByte)
        /\ Len(Tail(v)) = k
    BY <2>1, EmptySeq, HeadTailProperties
  <2>3. /\ v \o u \in Seq(StreamByte) /\ v \o u # << >>
        /\ Head(v \o u) = Head(v) /\ Tail(v \o u) = Tail(v) \o u
    <3>1. /\ v \o u \in Seq(StreamByte) /\ v \o u # << >>
      BY <2>2, ConcatProperties, ConcatEqualIffEmpty
    <3>2. QED
      BY <2>2, <3>1, HeadTailConcat
  <2>4. PacketsIn[Tail(v) \o u] = PacketsIn[Tail(v)] \o PacketsIn[u]
    BY <2>2 DEF Splits
  <2>5. PacketsIn[Tail(v)] \in Seq(Packet) /\ Starting(Head(v)) \in Seq(Packet)
    BY <2>2, PacketsInIs, StreamBytes
  <2>6. PacketsIn[v \o u] = Starting(Head(v)) \o (PacketsIn[Tail(v)] \o PacketsIn[u])
    BY <2>3, <2>4, PacketsInIs
  <2>7. PacketsIn[v] = Starting(Head(v)) \o PacketsIn[Tail(v)]
    BY <2>2, PacketsInIs
  <2>8. (Starting(Head(v)) \o PacketsIn[Tail(v)]) \o PacketsIn[u]
          = Starting(Head(v)) \o (PacketsIn[Tail(v)] \o PacketsIn[u])
    <3>1. \A a, b, c \in Seq(Packet) : (a \o b) \o c = a \o (b \o c)
      BY Associative
    <3>2. QED
      BY <1>0, <2>5, <3>1
  <2>9. QED
    BY <2>6, <2>7, <2>8 DEF Splits
<1> HIDE DEF T
<1>3. T = Nat
  BY <1>1, <1>2, Induction DEF T
<1>4. QED
  BY <1>3, LenProperties DEF T

\* Bytes inside a packet start none.
LEMMA PacketsInInside ==
  ASSUME NEW s \in Seq(StreamByte), \A i \in 1..Len(s) : s[i].packet = Inside
  PROVE  PacketsIn[s] = << >>
<1> DEFINE T == {k \in Nat : \A v \in Seq(StreamByte) :
                   Len(v) = k /\ (\A i \in 1..Len(v) : v[i].packet = Inside)
                     => PacketsIn[v] = << >>}
<1>1. 0 \in T
  <2>1. \A v \in Seq(StreamByte) : Len(v) = 0 => v = << >>
    BY EmptySeq
  <2>2. QED
    BY <2>1, PacketsInIs
<1>2. ASSUME NEW k \in T PROVE k + 1 \in T
  <2>1. SUFFICES ASSUME NEW v \in Seq(StreamByte), Len(v) = k + 1,
                        \A i \in 1..Len(v) : v[i].packet = Inside
                 PROVE  PacketsIn[v] = << >>
    OBVIOUS
  <2>2. /\ v # << >> /\ Tail(v) \in Seq(StreamByte) /\ Len(Tail(v)) = k /\ Head(v) = v[1]
        /\ \A i \in 1..Len(Tail(v)) : Tail(v)[i] = v[i + 1]
    BY <2>1, EmptySeq, HeadTailProperties
  <2>3. Starting(Head(v)) = << >> /\ PacketsIn[Tail(v)] = << >>
    <3>1. \A i \in 1..Len(Tail(v)) : i + 1 \in 1..Len(v)
      BY <2>1, <2>2
    <3>2. PacketsIn[Tail(v)] = << >>
      BY <2>1, <2>2, <3>1
    <3>3. 1 \in 1..Len(v)
      BY <2>1
    <3>4. QED
      BY <2>1, <2>2, <3>2, <3>3 DEF Starting
  <2>4. << >> \o << >> = << >>
    BY ConcatEmptySeq, EmptySeq
  <2>5. QED
    BY <2>2, <2>3, <2>4, PacketsInIs
<1> HIDE DEF T
<1>3. T = Nat
  BY <1>1, <1>2, Induction DEF T
<1>4. QED
  BY <1>3, LenProperties DEF T

\* The two parts of a stream cut behind its k-th byte.
LEMMA PacketsInSplit ==
  ASSUME NEW s \in Seq(StreamByte), NEW k \in 0..Len(s)
  PROVE  /\ SubSeq(s, 1, k) \in Seq(StreamByte) /\ SubSeq(s, k + 1, Len(s)) \in Seq(StreamByte)
         /\ PacketsIn[s] = PacketsIn[SubSeq(s, 1, k)] \o PacketsIn[SubSeq(s, k + 1, Len(s))]
<1>1. /\ SubSeq(s, 1, k) \in Seq(StreamByte) /\ SubSeq(s, k + 1, Len(s)) \in Seq(StreamByte)
      /\ Len(s) \in Nat
  BY ElementOfSeq, SubSeqProperties, LenProperties
<1>2. s = SubSeq(s, 1, k) \o SubSeq(s, k + 1, Len(s))
  <2>1. /\ 1 \in 1..Len(s)+1 /\ k \in (1-1)..Len(s) /\ Len(s) \in k..Len(s)
    BY <1>1
  <2>2. SubSeq(s, 1, k) \o SubSeq(s, k + 1, Len(s)) = SubSeq(s, 1, Len(s))
    BY <2>1, ConcatAdjacentSubSeq
  <2>3. QED
    BY <2>2, SubSeqFull
<1>3. QED
  BY <1>1, <1>2, PacketsInConcat

\* What follows the first k bytes.
LEMMA RestIs ==
  ASSUME NEW s \in Seq(StreamByte), NEW k \in 0..Len(s)
  PROVE  /\ SubSeq(s, k + 1, Len(s)) \in Seq(StreamByte)
         /\ Len(s) \in Nat /\ Len(SubSeq(s, k + 1, Len(s))) = Len(s) - k
         /\ \A i \in 1..Len(s) - k : SubSeq(s, k + 1, Len(s))[i] = s[k + i]
<1>1. Len(s) \in Nat /\ k \in Nat /\ k <= Len(s)
  BY LenProperties
<1>2. \A i \in k + 1 .. Len(s) : s[i] \in StreamByte
  BY <1>1, ElementOfSeq
<1>3. /\ SubSeq(s, k + 1, Len(s)) \in Seq(StreamByte)
      /\ Len(SubSeq(s, k + 1, Len(s))) = IF k + 1 <= Len(s) THEN Len(s) - (k + 1) + 1 ELSE 0
      /\ \A i \in 1 .. Len(s) - (k + 1) + 1 : SubSeq(s, k + 1, Len(s))[i] = s[(k + 1) + i - 1]
  BY <1>1, <1>2, SubSeqProperties
<1>4. Len(SubSeq(s, k + 1, Len(s))) = Len(s) - k
  BY <1>1, <1>3
<1>5. ASSUME NEW i \in 1..Len(s) - k PROVE SubSeq(s, k + 1, Len(s))[i] = s[k + i]
  <2>1. i \in 1 .. Len(s) - (k + 1) + 1 /\ (k + 1) + i - 1 = k + i
    BY <1>1
  <2>2. QED
    BY <1>3, <2>1
<1>6. QED
  BY <1>1, <1>3, <1>4, <1>5

\* The first k bytes.
LEMMA FrontIs ==
  ASSUME NEW s \in Seq(StreamByte), NEW k \in 0..Len(s)
  PROVE  /\ SubSeq(s, 1, k) \in Seq(StreamByte)
         /\ Len(s) \in Nat /\ Len(SubSeq(s, 1, k)) = k
         /\ \A i \in 1..k : SubSeq(s, 1, k)[i] = s[i]
<1>1. Len(s) \in Nat /\ k \in Nat /\ k <= Len(s)
  BY LenProperties
<1>2. \A i \in 1 .. k : s[i] \in StreamByte
  BY <1>1, ElementOfSeq
<1>3. /\ SubSeq(s, 1, k) \in Seq(StreamByte)
      /\ Len(SubSeq(s, 1, k)) = IF 1 <= k THEN k - 1 + 1 ELSE 0
      /\ \A i \in 1 .. k - 1 + 1 : SubSeq(s, 1, k)[i] = s[1 + i - 1]
  BY <1>1, <1>2, SubSeqProperties
<1>4. \A i \in 1..k : 1 + i - 1 = i
  BY <1>1
<1>5. QED
  BY <1>1, <1>3, <1>4

\* Behind position i of s come the digits d and n more bytes inside a packet, and then
\* another packet: as far as s goes, which is all of it unless the connection is lost.
Continues(s, lost, i, d, n) ==
  /\ \A k \in 1..Len(d) : i + k <= Len(s) => s[i + k].byte = d[k]
  /\ \A k \in 1..Len(d) + n : i + k <= Len(s) => s[i + k].packet = Inside
  /\ i + Len(d) + n < Len(s) => s[i + Len(d) + n + 1].packet # Inside
  /\ ~lost => i + Len(d) + n <= Len(s)

\* Every packet is followed by its length and by as many bytes.
PacketsFit(s, lost) ==
  \A i \in 1..Len(s) :
    s[i].packet # Inside =>
      Continues(s, lost, i, Encode[s[i].packet[2]], s[i].packet[2])

\* Lengths of packets and of their digits are numbers.
LEMMA LengthsAre ==
  ASSUME NEW p \in Packet
  PROVE  /\ p[1] \in Byte /\ p[2] \in Nat /\ p[2] \in 0..MaxRemLen
         /\ Encode[p[2]] \in Seq(Byte) /\ Len(Encode[p[2]]) \in Nat
<1>1. MaxRemLen \in Nat
  BY MultiplierIs, FramingAssumption DEF MaxRemLen
<1>2. p[1] \in Byte /\ p[2] \in 0..MaxRemLen /\ p[2] \in Nat
  <2>1. p[1] \in Type /\ p[2] \in Length
    BY DEF Packet
  <2>2. Type \subseteq Byte /\ Length \subseteq 0..MaxRemLen
    BY FramingAssumption
  <2>3. \A y \in 0..MaxRemLen : y \in Nat
    BY <1>1
  <2>4. QED
    BY <2>1, <2>2, <2>3
<1>3. Encode[p[2]] \in Seq(Byte)
  BY <1>2, EncodeIs
<1>4. QED
  BY <1>2, <1>3, LenProperties

\* Taking bytes moves what follows forward.
LEMMA ContinuesRest ==
  ASSUME NEW s \in Seq(StreamByte), NEW lost, NEW i \in Nat, NEW d \in Seq(Byte), NEW n \in Nat,
         NEW k \in 0..Len(s), Continues(s, lost, k + i, d, n)
  PROVE  Continues(SubSeq(s, k + 1, Len(s)), lost, i, d, n)
<1>1. PICK u \in Seq(StreamByte) :
        /\ u = SubSeq(s, k + 1, Len(s))
        /\ Len(s) \in Nat /\ Len(u) = Len(s) - k /\ \A j \in 1..Len(s) - k : u[j] = s[k + j]
  BY RestIs
<1>2. PICK m \in Nat : m = Len(d)
  BY LenProperties
<1>3. /\ \A j \in 1..m : k + i + j <= Len(s) => s[k + i + j].byte = d[j]
      /\ \A j \in 1..m + n : k + i + j <= Len(s) => s[k + i + j].packet = Inside
      /\ k + i + m + n < Len(s) => s[k + i + m + n + 1].packet # Inside
      /\ ~lost => k + i + m + n <= Len(s)
  BY <1>2 DEF Continues
<1>4. k \in Nat
  OBVIOUS
<1>5. \A j \in Nat \ {0} : i + j <= Len(u) =>
        i + j \in 1..Len(s) - k /\ k + (i + j) = k + i + j /\ k + i + j <= Len(s)
  BY <1>1, <1>4
<1>6. \A j \in 1..m : i + j <= Len(u) => u[i + j].byte = d[j]
  BY <1>1, <1>3, <1>5
<1>7. ASSUME NEW j \in 1..m + n, i + j <= Len(u) PROVE u[i + j].packet = Inside
  <2>1. u[i + j] = s[k + i + j] /\ k + i + j <= Len(s)
    BY <1>1, <1>5, <1>7
  <2>2. QED
    BY <1>3, <2>1
<1>8. i + m + n < Len(u) => u[i + m + n + 1].packet # Inside
  <2>1. SUFFICES ASSUME i + m + n < Len(u) PROVE u[i + m + n + 1].packet # Inside
    OBVIOUS
  <2>2. i + m + n + 1 \in 1..Len(s) - k /\ k + (i + m + n + 1) = k + i + m + n + 1
        /\ k + i + m + n < Len(s)
    BY <1>1, <1>4, <2>1
  <2>3. QED
    BY <1>1, <1>3, <2>2
<1>9. ~lost => i + m + n <= Len(u)
  BY <1>1, <1>3, <1>4
<1>10. QED
  BY <1>1, <1>2, <1>6, <1>7, <1>8, <1>9 DEF Continues

\* Taking bytes leaves the packets behind them as they are.
LEMMA PacketsFitRest ==
  ASSUME NEW s \in Seq(StreamByte), NEW lost, PacketsFit(s, lost), NEW k \in 0..Len(s)
  PROVE  PacketsFit(SubSeq(s, k + 1, Len(s)), lost)
<1>1. PICK u \in Seq(StreamByte) :
        /\ u = SubSeq(s, k + 1, Len(s))
        /\ Len(s) \in Nat /\ Len(u) = Len(s) - k /\ \A j \in 1..Len(s) - k : u[j] = s[k + j]
  BY RestIs
<1>2. ASSUME NEW i \in 1..Len(u), u[i].packet # Inside
      PROVE  Continues(u, lost, i, Encode[u[i].packet[2]], u[i].packet[2])
  <2>1. k + i \in 1..Len(s) /\ u[i] = s[k + i] /\ i \in Nat /\ u[i] \in StreamByte
    BY <1>1, ElementOfSeq
  <2>2. PICK p \in Packet : p = u[i].packet /\ p = s[k + i].packet
    BY <1>2, <2>1, StreamBytes
  <2>3. Continues(s, lost, k + i, Encode[p[2]], p[2])
    BY <1>2, <2>1, <2>2 DEF PacketsFit
  <2>4. Continues(u, lost, i, Encode[p[2]], p[2])
    BY <1>1, <2>1, <2>3, LengthsAre, ContinuesRest
  <2>5. QED
    BY <2>2, <2>4
<1>3. QED
  BY <1>1, <1>2 DEF PacketsFit

\* The last bytes are lost with the connection.
LEMMA ContinuesFront ==
  ASSUME NEW s \in Seq(StreamByte), NEW lost, NEW i \in Nat, NEW d \in Seq(Byte), NEW n \in Nat,
         NEW k \in 0..Len(s), Continues(s, lost, i, d, n)
  PROVE  Continues(SubSeq(s, 1, k), TRUE, i, d, n)
<1>1. PICK u \in Seq(StreamByte) :
        /\ u = SubSeq(s, 1, k)
        /\ Len(s) \in Nat /\ Len(u) = k /\ \A j \in 1..k : u[j] = s[j]
  BY FrontIs
<1>2. PICK m \in Nat : m = Len(d)
  BY LenProperties
<1>3. /\ \A j \in 1..m : i + j <= Len(s) => s[i + j].byte = d[j]
      /\ \A j \in 1..m + n : i + j <= Len(s) => s[i + j].packet = Inside
      /\ i + m + n < Len(s) => s[i + m + n + 1].packet # Inside
  BY <1>2 DEF Continues
<1>4. k \in Nat /\ k <= Len(s)
  BY <1>1
<1>5. ASSUME NEW j \in 1..m, i + j <= Len(u) PROVE u[i + j].byte = d[j]
  <2>1. i + j \in 1..k /\ i + j <= Len(s)
    BY <1>1, <1>2, <1>4, <1>5
  <2>2. u[i + j] = s[i + j]
    BY <1>1, <2>1
  <2>3. QED
    BY <1>3, <2>1, <2>2
<1>6. ASSUME NEW j \in 1..m + n, i + j <= Len(u) PROVE u[i + j].packet = Inside
  <2>1. i + j \in 1..k /\ i + j <= Len(s)
    BY <1>1, <1>2, <1>4, <1>6
  <2>2. u[i + j] = s[i + j]
    BY <1>1, <2>1
  <2>3. QED
    BY <1>3, <2>1, <2>2
<1>7. i + m + n < Len(u) => u[i + m + n + 1].packet # Inside
  BY <1>1, <1>3, <1>4
<1>8. QED
  BY <1>1, <1>2, <1>5, <1>6, <1>7 DEF Continues

\* And nothing of the packets that are left.
LEMMA PacketsFitFront ==
  ASSUME NEW s \in Seq(StreamByte), NEW lost, PacketsFit(s, lost), NEW k \in 0..Len(s)
  PROVE  PacketsFit(SubSeq(s, 1, k), TRUE)
<1>1. PICK u \in Seq(StreamByte) :
        /\ u = SubSeq(s, 1, k)
        /\ Len(s) \in Nat /\ Len(u) = k /\ \A j \in 1..k : u[j] = s[j]
  BY FrontIs
<1>2. ASSUME NEW i \in 1..Len(u), u[i].packet # Inside
      PROVE  Continues(u, TRUE, i, Encode[u[i].packet[2]], u[i].packet[2])
  <2>1. i \in 1..Len(s) /\ u[i] = s[i] /\ i \in Nat /\ u[i] \in StreamByte
    BY <1>1, ElementOfSeq
  <2>2. PICK p \in Packet : p = u[i].packet /\ p = s[i].packet
    BY <1>2, <2>1, StreamBytes
  <2>3. Continues(s, lost, i, Encode[p[2]], p[2])
    BY <1>2, <2>1, <2>2 DEF PacketsFit
  <2>4. Continues(u, TRUE, i, Encode[p[2]], p[2])
    BY <1>1, <2>1, <2>3, LengthsAre, ContinuesFront
  <2>5. QED
    BY <2>2, <2>4
<1>3. QED
  BY <1>1, <1>2 DEF PacketsFit

\* No packet is a mark.
LEMMA NotInside ==
  /\ NoPacket \notin Packet
  /\ \A p \in Packet : p # Inside /\ p # NoPacket
  /\ Inside # NoPacket
<1>1. \A p \in Packet : \E x \in Type, y \in Length : p = <<x, y>>
  BY DEF Packet
<1>2. \A x, y : Len(<<x, y>>) = 2
  OBVIOUS
<1>3. Len(Inside) = 1 /\ Len(NoPacket) = 0
  BY DEF Inside, NoPacket
<1>4. \A p \in Packet : Len(p) = 2
  BY <1>1, <1>2
<1>5. QED
  BY <1>3, <1>4

\* A packet and its length are followed by as many bytes as the length says.
LEMMA BytesAre ==
  ASSUME NEW p \in Packet, NEW body \in [1..p[2] -> Payload]
  PROVE  /\ Bytes(p, body) \in Seq(StreamByte)
         /\ Len(Bytes(p, body)) = 1 + Len(Encode[p[2]]) + p[2]
         /\ Bytes(p, body)[1].packet = p
         /\ Continues(Bytes(p, body), FALSE, 1, Encode[p[2]], p[2])
<1>1. PICK n \in Nat : n = p[2]
  BY LengthsAre
<1>2. PICK e \in Seq(Byte) : e = Encode[p[2]]
  BY LengthsAre
<1>3. PICK m \in Nat : m = Len(e)
  BY LenProperties
<1>4. p[1] \in Byte /\ \A i \in 1..m : e[i] \in Byte
  BY <1>3, LengthsAre, ElementOfSeq
<1>5. \A i \in 1..n : body[i] \in Byte
  BY <1>1, FramingAssumption
<1> DEFINE A == <<[byte |-> p[1], packet |-> p]>>
           B == [i \in 1..m |-> [byte |-> e[i], packet |-> Inside]]
           C == [i \in 1..n |-> [byte |-> body[i], packet |-> Inside]]
<1>6. PICK a \in Seq(StreamByte) : a = A /\ Len(a) = 1 /\ a[1].packet = p
  <2>1. [byte |-> p[1], packet |-> p] \in StreamByte
    BY <1>4 DEF StreamByte
  <2>2. A \in Seq(StreamByte) /\ Len(A) = 1 /\ A[1].packet = p
    BY <2>1
  <2>3. QED
    BY <2>2
<1>7. PICK b \in Seq(StreamByte) :
        /\ b = B /\ Len(b) = m
        /\ \A i \in 1..m : b[i].byte = e[i] /\ b[i].packet = Inside
  <2>1. \A i \in 1..m : [byte |-> e[i], packet |-> Inside] \in StreamByte
    BY <1>4 DEF StreamByte
  <2>2. B \in Seq(StreamByte) /\ Len(B) = m
    BY <1>3, <2>1
  <2>3. \A i \in 1..m : B[i].byte = e[i] /\ B[i].packet = Inside
    OBVIOUS
  <2> HIDE DEF B
  <2>4. QED
    BY <2>2, <2>3
<1>8. PICK c \in Seq(StreamByte) : c = C /\ Len(c) = n /\ \A i \in 1..n : c[i].packet = Inside
  <2>1. \A i \in 1..n : [byte |-> body[i], packet |-> Inside] \in StreamByte
    BY <1>5 DEF StreamByte
  <2>2. C \in Seq(StreamByte) /\ Len(C) = n
    BY <1>1, <2>1
  <2>3. \A i \in 1..n : C[i].packet = Inside
    OBVIOUS
  <2> HIDE DEF C
  <2>4. QED
    BY <2>2, <2>3
<1>9. Bytes(p, body) = (a \o b) \o c
  BY <1>1, <1>2, <1>3, <1>6, <1>7, <1>8 DEF Bytes
<1> HIDE DEF A, B, C
<1>10. PICK x \in Seq(StreamByte) :
         /\ x = a \o b /\ Len(x) = 1 + m /\ x[1] = a[1] /\ \A i \in 1..m : x[1 + i] = b[i]
  <2>1. PICK y : y = a \o b
    OBVIOUS
  <2>2. /\ y \in Seq(StreamByte) /\ Len(y) = Len(a) + Len(b)
        /\ \A i \in 1..Len(a) : y[i] = a[i]
        /\ \A i \in 1..Len(b) : y[Len(a) + i] = b[i]
    <3>1. a \in Seq(StreamByte) /\ b \in Seq(StreamByte)
      BY <1>6, <1>7
    <3>2. QED
      BY <2>1, <3>1, ConcatIs
  <2>3. Len(a) = 1 /\ Len(b) = m /\ 1 \in 1..1
    BY <1>6, <1>7
  <2>4. ASSUME NEW i \in 1..m PROVE y[1 + i] = b[i]
    <3>1. i \in 1..Len(b) /\ Len(a) + i = 1 + i
      BY <2>3
    <3>2. y[Len(a) + i] = b[i]
      BY <2>2, <3>1
    <3>3. QED
      BY <3>1, <3>2
  <2>5. y[1] = a[1]
    BY <2>2, <2>3
  <2>6. QED
    BY <2>1, <2>2, <2>3, <2>4, <2>5
<1>11. PICK w \in Seq(StreamByte) :
         /\ w = x \o c /\ Len(w) = 1 + m + n
         /\ \A i \in 1..1 + m : w[i] = x[i]
         /\ \A i \in 1..n : w[1 + m + i] = c[i]
  <2>1. PICK y : y = x \o c
    OBVIOUS
  <2>2. /\ y \in Seq(StreamByte) /\ Len(y) = Len(x) + Len(c)
        /\ \A i \in 1..Len(x) : y[i] = x[i]
        /\ \A i \in 1..Len(c) : y[Len(x) + i] = c[i]
    <3>1. x \in Seq(StreamByte) /\ c \in Seq(StreamByte)
      BY <1>8, <1>10
    <3>2. QED
      BY <2>1, <3>1, ConcatIs
  <2>3. Len(x) = 1 + m /\ Len(c) = n
    BY <1>8, <1>10
  <2>4. ASSUME NEW i \in 1..n PROVE y[1 + m + i] = c[i]
    <3>1. i \in 1..Len(c) /\ Len(x) + i = 1 + m + i
      BY <2>3
    <3>2. y[Len(x) + i] = c[i]
      BY <2>2, <3>1
    <3>3. QED
      BY <3>1, <3>2
  <2>5. QED
    BY <2>1, <2>2, <2>3, <2>4
<1>12. w[1].packet = p
  <2>1. 1 \in 1..1 + m
    BY <1>3
  <2>2. w[1] = x[1] /\ x[1] = a[1]
    BY <1>10, <1>11, <2>1
  <2>3. QED
    BY <1>6, <2>2
<1>13. ASSUME NEW k \in 1..m PROVE w[1 + k].byte = e[k] /\ w[1 + k].packet = Inside
  <2>1. 1 + k \in 1..1 + m
    BY <1>3
  <2>2. w[1 + k] = x[1 + k] /\ x[1 + k] = b[k]
    BY <1>10, <1>11, <2>1
  <2>3. QED
    BY <1>7, <2>2
<1>14. ASSUME NEW k \in 1..m + n PROVE w[1 + k].packet = Inside
  <2>1. CASE k <= m
    BY <1>1, <1>3, <1>13, <2>1
  <2>2. CASE k > m
    <3>1. k - m \in 1..n /\ 1 + m + (k - m) = 1 + k
      BY <1>1, <1>3, <2>2
    <3>2. w[1 + m + (k - m)] = c[k - m]
      BY <1>11, <3>1
    <3>3. QED
      BY <1>8, <3>1, <3>2
  <2>3. QED
    BY <1>1, <1>3, <2>1, <2>2
<1>15. Continues(w, FALSE, 1, e, n)
  BY <1>1, <1>3, <1>11, <1>13, <1>14 DEF Continues
<1>16. QED
  BY <1>1, <1>2, <1>3, <1>9, <1>10, <1>11, <1>12, <1>15

\* More packets behind change nothing.
LEMMA ContinuesAppend ==
  ASSUME NEW s \in Seq(StreamByte), NEW w \in Seq(StreamByte), Len(w) > 0, w[1].packet # Inside,
         NEW i \in Nat, NEW d \in Seq(Byte), NEW n \in Nat, Continues(s, FALSE, i, d, n)
  PROVE  Continues(s \o w, FALSE, i, d, n)
<1>1. PICK u \in Seq(StreamByte) :
        /\ u = s \o w /\ Len(s) \in Nat /\ Len(w) \in Nat /\ Len(u) = Len(s) + Len(w)
        /\ \A j \in 1..Len(s) : u[j] = s[j]
        /\ u[Len(s) + 1] = w[1]
  <2>1. PICK y : y = s \o w
    OBVIOUS
  <2>2. /\ y \in Seq(StreamByte) /\ Len(s) \in Nat /\ Len(w) \in Nat
        /\ Len(y) = Len(s) + Len(w)
        /\ \A j \in 1..Len(s) : y[j] = s[j]
        /\ \A j \in 1..Len(w) : y[Len(s) + j] = w[j]
    BY <2>1, ConcatIs
  <2>3. 1 \in 1..Len(w)
    BY <2>2
  <2>4. QED
    BY <2>1, <2>2, <2>3
<1>2. PICK m \in Nat : m = Len(d)
  BY LenProperties
<1>3. /\ \A j \in 1..m : i + j <= Len(s) => s[i + j].byte = d[j]
      /\ \A j \in 1..m + n : i + j <= Len(s) => s[i + j].packet = Inside
      /\ i + m + n < Len(s) => s[i + m + n + 1].packet # Inside
      /\ i + m + n <= Len(s)
  BY <1>2 DEF Continues
<1>4. ASSUME NEW j \in 1..m + n
      PROVE  /\ u[i + j].packet = Inside
             /\ j <= m => u[i + j].byte = d[j]
  <2>1. i + j \in 1..Len(s) /\ i + j <= Len(s)
    BY <1>1, <1>2, <1>3
  <2>2. u[i + j] = s[i + j]
    BY <1>1, <2>1
  <2>3. QED
    BY <1>2, <1>3, <2>1, <2>2
<1>5. u[i + m + n + 1].packet # Inside
  <2>1. CASE i + m + n < Len(s)
    <3>1. i + m + n + 1 \in 1..Len(s)
      BY <1>1, <1>2, <2>1
    <3>2. u[i + m + n + 1] = s[i + m + n + 1]
      BY <1>1, <3>1
    <3>3. QED
      BY <1>3, <2>1, <3>2
  <2>2. CASE i + m + n = Len(s)
    BY <1>1, <2>2
  <2>3. QED
    BY <1>1, <1>2, <1>3, <2>1, <2>2
<1>6. i + m + n <= Len(u)
  BY <1>1, <1>2, <1>3
<1>7. \A j \in 1..m : j \in 1..m + n /\ j <= m
  BY <1>2
<1>8. QED
  BY <1>1, <1>2, <1>4, <1>5, <1>6, <1>7 DEF Continues

\* What follows a position of the second of two streams follows it in both.
LEMMA ContinuesBehind ==
  ASSUME NEW s \in Seq(StreamByte), NEW w \in Seq(StreamByte),
         NEW i \in Nat, NEW d \in Seq(Byte), NEW n \in Nat, Continues(w, FALSE, i, d, n)
  PROVE  Continues(s \o w, FALSE, Len(s) + i, d, n)
<1> DEFINE l == Len(s)
<1>1. PICK u \in Seq(StreamByte) :
        /\ u = s \o w /\ l \in Nat /\ Len(w) \in Nat /\ Len(u) = l + Len(w)
        /\ \A j \in 1..Len(w) : u[l + j] = w[j]
  <2>1. PICK y : y = s \o w
    OBVIOUS
  <2>2. /\ y \in Seq(StreamByte) /\ l \in Nat /\ Len(w) \in Nat /\ Len(y) = l + Len(w)
        /\ \A j \in 1..Len(w) : y[l + j] = w[j]
    BY <2>1, ConcatIs
  <2>3. QED
    BY <2>1, <2>2
<1> HIDE DEF l
<1>2. PICK m \in Nat : m = Len(d)
  BY LenProperties
<1>3. /\ \A j \in 1..m : i + j <= Len(w) => w[i + j].byte = d[j]
      /\ \A j \in 1..m + n : i + j <= Len(w) => w[i + j].packet = Inside
      /\ i + m + n < Len(w) => w[i + m + n + 1].packet # Inside
      /\ i + m + n <= Len(w)
  BY <1>2 DEF Continues
<1>4. ASSUME NEW j \in 1..m + n
      PROVE  /\ u[l + i + j].packet = Inside
             /\ j <= m => u[l + i + j].byte = d[j]
  <2>1. i + j \in 1..Len(w) /\ i + j <= Len(w) /\ l + (i + j) = l + i + j
    BY <1>1, <1>2, <1>3
  <2>2. u[l + (i + j)] = w[i + j]
    BY <1>1, <2>1
  <2>3. l + (i + j) = l + i + j
    BY <1>1, <1>2
  <2>4. w[i + j].packet = Inside /\ (j <= m => w[i + j].byte = d[j])
    BY <1>2, <1>3, <2>1
  <2>5. QED
    BY <2>2, <2>3, <2>4
<1>5. ASSUME l + i + m + n < Len(u) PROVE u[l + i + m + n + 1].packet # Inside
  <2>1. /\ i + m + n < Len(w) /\ i + m + n + 1 \in 1..Len(w)
        /\ l + (i + m + n + 1) = l + i + m + n + 1
    BY <1>1, <1>2, <1>5
  <2>2. u[l + (i + m + n + 1)] = w[i + m + n + 1]
    BY <1>1, <2>1
  <2>3. QED
    BY <1>3, <2>1, <2>2
<1>6. l + i + m + n <= Len(u)
  BY <1>1, <1>2, <1>3
<1>7. \A j \in 1..m : j \in 1..m + n /\ j <= m
  BY <1>2
<1>8. QED
  BY <1>1, <1>2, <1>4, <1>5, <1>6, <1>7 DEF Continues, l

\* A packet sent behind those there are fits.
LEMMA PacketsFitAppend ==
  ASSUME NEW s \in Seq(StreamByte), PacketsFit(s, FALSE),
         NEW p \in Packet, NEW body \in [1..p[2] -> Payload]
  PROVE  PacketsFit(s \o Bytes(p, body), FALSE)
<1>1. PICK w \in Seq(StreamByte) :
        /\ w = Bytes(p, body) /\ Len(w) = 1 + Len(Encode[p[2]]) + p[2] /\ w[1].packet = p
        /\ Continues(w, FALSE, 1, Encode[p[2]], p[2])
  BY BytesAre
<1>2. p[2] \in Nat /\ Encode[p[2]] \in Seq(Byte) /\ Len(Encode[p[2]]) \in Nat /\ p # Inside
  BY LengthsAre, NotInside
<1> DEFINE l == Len(s)
<1>3. PICK u \in Seq(StreamByte) :
        /\ u = s \o w /\ l \in Nat /\ Len(w) \in Nat /\ Len(u) = l + Len(w)
        /\ \A j \in 1..l : u[j] = s[j]
        /\ \A j \in 1..Len(w) : u[l + j] = w[j]
  <2>1. PICK y : y = s \o w
    OBVIOUS
  <2>2. /\ y \in Seq(StreamByte) /\ l \in Nat /\ Len(w) \in Nat /\ Len(y) = l + Len(w)
        /\ \A j \in 1..l : y[j] = s[j]
        /\ \A j \in 1..Len(w) : y[l + j] = w[j]
    BY <1>1, <2>1, ConcatIs
  <2>3. QED
    BY <2>1, <2>2
<1> HIDE DEF l
<1>4. ASSUME NEW i \in 1..Len(u), u[i].packet # Inside
      PROVE  Continues(u, FALSE, i, Encode[u[i].packet[2]], u[i].packet[2])
  <2>1. CASE i <= l
    <3>1. i \in 1..Len(s) /\ u[i] = s[i] /\ i \in Nat /\ u[i] \in StreamByte
      BY <1>3, <2>1, ElementOfSeq DEF l
    <3>2. PICK q \in Packet : q = u[i].packet /\ q = s[i].packet
      BY <1>4, <3>1, StreamBytes
    <3>3. Continues(s, FALSE, i, Encode[q[2]], q[2])
      BY <1>4, <3>1, <3>2 DEF PacketsFit
    <3>4. Len(w) > 0 /\ w[1].packet # Inside
      BY <1>1, <1>2
    <3>5. Continues(s \o w, FALSE, i, Encode[q[2]], q[2])
      BY <3>1, <3>3, <3>4, LengthsAre, ContinuesAppend
    <3>6. QED
      BY <1>3, <3>2, <3>5
  <2>2. CASE i = l + 1
    <3>1. u[i].packet = p
      <4>1. 1 \in 1..Len(w)
        BY <1>1, <1>2
      <4>2. QED
        BY <1>1, <1>3, <2>2, <4>1
    <3>2. Continues(s \o w, FALSE, Len(s) + 1, Encode[p[2]], p[2])
      BY <1>1, <1>2, ContinuesBehind
    <3>3. QED
      BY <1>3, <2>2, <3>1, <3>2 DEF l
  <2>3. CASE i > l + 1
    <3>1. PICK j \in 1..Len(Encode[p[2]]) + p[2] : i = l + (1 + j)
      <4>1. PICK e \in Nat, n \in Nat : e = Len(Encode[p[2]]) /\ n = p[2]
        BY <1>2
      <4>2. Len(u) = l + (1 + e + n)
        BY <1>1, <1>3, <4>1
      <4>3. l \in Nat /\ i \in 1..l + (1 + e + n)
        BY <1>3, <4>2
      <4>4. \E j \in 1..e + n : i = l + (1 + j)
        <5>1. PICK j \in Int : j = (i - l) - 1
          BY <4>1, <4>3
        <5>2. i = l + (1 + j)
          BY <4>3, <5>1
        <5>3. PICK z \in Nat : z = e + n
          BY <4>1
        <5>4. 1 <= j /\ j <= z
          BY <2>3, <4>3, <5>1, <5>3
        <5>5. QED
          BY <5>2, <5>3, <5>4
      <4>5. QED
        BY <4>1, <4>4
    <3>2. 1 + j \in 1..Len(w) /\ 1 + j <= Len(w)
      BY <1>1, <1>2
    <3>3. w[1 + j].packet = Inside
      BY <1>1, <3>2 DEF Continues
    <3>4. u[i] = w[1 + j]
      BY <1>3, <3>1, <3>2
    <3>5. QED
      BY <1>4, <3>3, <3>4
  <2>4. i <= l \/ i = l + 1 \/ i > l + 1
    BY <1>3
  <2>5. QED
    BY <2>1, <2>2, <2>3, <2>4
<1>5. QED
  BY <1>1, <1>3, <1>4 DEF PacketsFit

\* The first byte is taken out of the stream.
LEMMA FirstTaken ==
  ASSUME NEW s \in Seq(StreamByte), 1 <= Len(s)
  PROVE  /\ s[1] \in StreamByte /\ SubSeq(s, 1 + 1, Len(s)) \in Seq(StreamByte)
         /\ PacketsIn[s] = Starting(s[1]) \o PacketsIn[SubSeq(s, 1 + 1, Len(s))]
<1>1. s # << >> /\ 1 \in 1..Len(s)
  BY EmptySeq, LenProperties
<1>2. s[1] \in StreamByte
  BY <1>1, ElementOfSeq
<1>3. Tail(s) = SubSeq(s, 2, Len(s)) /\ Tail(s) \in Seq(StreamByte)
  BY <1>1, TailIsSubSeq, HeadTailProperties
<1>4. Head(s) = s[1]
  BY <1>1
<1>5. PacketsIn[s] = Starting(Head(s)) \o PacketsIn[Tail(s)]
  BY <1>1, PacketsInIs
<1>6. 1 + 1 = 2
  OBVIOUS
<1>7. QED
  BY <1>2, <1>3, <1>4, <1>5, <1>6

\* A recv that returns nothing leaves the stream as it is.
LEMMA NothingTaken ==
  ASSUME NEW s \in Seq(StreamByte)
  PROVE  SubSeq(s, 0 + 1, Len(s)) = s
<1>1. 0 + 1 = 1
  OBVIOUS
<1>2. QED
  BY <1>1, SubSeqFull

\* Taking the first byte of a packet takes the packet from those to be read.
LEMMA PacketTaken ==
  ASSUME NEW s \in Seq(StreamByte), 1 <= Len(s), NEW lost, PacketsFit(s, lost),
         Continues(s, lost, 0, << >>, 0)
  PROVE  /\ s[1].packet \in Packet
         /\ Continues(SubSeq(s, 1 + 1, Len(s)), lost, 0,
                      Encode[s[1].packet[2]], s[1].packet[2])
         /\ PacketsIn[s] = <<s[1].packet>> \o PacketsIn[SubSeq(s, 1 + 1, Len(s))]
<1>1. s[1] \in StreamByte /\ 1 \in 0..Len(s) /\ 1 \in 1..Len(s)
  BY FirstTaken, LenProperties
<1>2. s[1].packet # Inside
  <2>1. Len(<< >>) = 0
    OBVIOUS
  <2>2. 0 + 0 + 0 < Len(s) /\ 0 + 0 + 0 + 1 = 1
    BY LenProperties
  <2>3. QED
    BY <2>1, <2>2 DEF Continues
<1>3. PICK p \in Packet : p = s[1].packet
  BY <1>1, <1>2, StreamBytes
<1>4. Continues(s, lost, 1, Encode[p[2]], p[2])
  BY <1>1, <1>2, <1>3 DEF PacketsFit
<1>5. 1 + 0 = 1
  OBVIOUS
<1>6. Continues(SubSeq(s, 1 + 1, Len(s)), lost, 0, Encode[p[2]], p[2])
  BY <1>1, <1>4, <1>5, LengthsAre, ContinuesRest
<1>7. PacketsIn[s] = <<p>> \o PacketsIn[SubSeq(s, 1 + 1, Len(s))]
  BY <1>2, <1>3, FirstTaken DEF Starting
<1>8. QED
  BY <1>3, <1>6, <1>7

\* Behind the first digit come the others.
LEMMA FirstOf ==
  ASSUME NEW s \in Seq(StreamByte), 1 <= Len(s), NEW lost, NEW n \in Nat,
         NEW d \in Seq(Byte), NEW e \in Seq(Byte), Len(d) = 1 + Len(e),
         \A j \in 1..Len(e) : d[1 + j] = e[j],
         Continues(s, lost, 0, d, n)
  PROVE  /\ s[1].packet = Inside /\ s[1].byte = d[1]
         /\ Continues(SubSeq(s, 1 + 1, Len(s)), lost, 0, e, n)
         /\ PacketsIn[SubSeq(s, 1 + 1, Len(s))] = PacketsIn[s]
<1>1. PICK m \in Nat, l \in Nat : m = Len(e) /\ l = Len(s) /\ 1 <= l /\ Len(d) = 1 + m
  BY LenProperties
<1>2. /\ \A k \in 1..1 + m : 0 + k <= l => s[0 + k].byte = d[k]
      /\ \A k \in 1..1 + m + n : 0 + k <= l => s[0 + k].packet = Inside
      /\ 0 + (1 + m) + n < l => s[0 + (1 + m) + n + 1].packet # Inside
      /\ ~lost => 0 + (1 + m) + n <= l
  BY <1>1 DEF Continues
<1>3. s[1].packet = Inside /\ s[1].byte = d[1]
  <2>1. 1 \in 1..1 + m /\ 1 \in 1..1 + m + n /\ 0 + 1 <= l /\ 0 + 1 = 1
    BY <1>1
  <2>2. s[0 + 1].byte = d[1] /\ s[0 + 1].packet = Inside
    BY <1>2, <2>1
  <2>3. QED
    BY <2>1, <2>2
<1>4. Continues(s, lost, 1, e, n)
  <2>1. ASSUME NEW k \in 1..m, 1 + k <= l PROVE s[1 + k].byte = e[k]
    <3>1. 1 + k \in 1..1 + m /\ 0 + (1 + k) <= l /\ 0 + (1 + k) = 1 + k
      BY <1>1, <2>1
    <3>2. s[0 + (1 + k)].byte = d[1 + k]
      BY <1>2, <3>1
    <3>3. QED
      BY <1>1, <3>1, <3>2
  <2>2. ASSUME NEW k \in 1..m + n, 1 + k <= l PROVE s[1 + k].packet = Inside
    <3>1. 1 + k \in 1..1 + m + n /\ 0 + (1 + k) <= l /\ 0 + (1 + k) = 1 + k
      BY <1>1, <2>2
    <3>2. s[0 + (1 + k)].packet = Inside
      BY <1>2, <3>1
    <3>3. QED
      BY <3>1, <3>2
  <2>3. 0 + (1 + m) + n = 1 + m + n
    BY <1>1
  <2>4. QED
    BY <1>1, <1>2, <2>1, <2>2, <2>3 DEF Continues
<1>5. Continues(SubSeq(s, 1 + 1, Len(s)), lost, 0, e, n)
  <2>1. 1 \in 0..Len(s) /\ 1 + 0 = 1
    BY <1>1
  <2>2. QED
    BY <1>4, <2>1, ContinuesRest
<1>6. PacketsIn[SubSeq(s, 1 + 1, Len(s))] = PacketsIn[s]
  <2>1. PICK u \in Seq(StreamByte) : u = SubSeq(s, 1 + 1, Len(s))
    BY FirstTaken
  <2>2. PacketsIn[s] = << >> \o PacketsIn[u]
    BY <1>3, <2>1, FirstTaken DEF Starting
  <2>3. << >> \o PacketsIn[u] = PacketsIn[u]
    BY PacketsInIs, ConcatEmptySeq
  <2>4. QED
    BY <2>1, <2>2, <2>3
<1>7. QED
  BY <1>3, <1>5, <1>6

\* Taking a digit takes no packet, and leaves the other digits.
DigitGone(s, lost, q, n) ==
  /\ s[1].packet = Inside /\ s[1].byte \in Byte
  /\ s[1].byte % Base = q % Base /\ (s[1].byte >= Base <=> q >= Base)
  /\ PacketsIn[SubSeq(s, 1 + 1, Len(s))] = PacketsIn[s]
  /\ q < Base => Continues(SubSeq(s, 1 + 1, Len(s)), lost, 0, << >>, n)
  /\ q >= Base => Continues(SubSeq(s, 1 + 1, Len(s)), lost, 0, Encode[q \div Base], n)

LEMMA DigitRead ==
  ASSUME NEW s \in Seq(StreamByte), 1 <= Len(s), NEW lost, NEW n \in Nat, NEW q \in Nat,
         Continues(s, lost, 0, Encode[q], n)
  PROVE  DigitGone(s, lost, q, n)
<1> USE DEF DigitGone
<1>1. PICK d \in Seq(Byte) : d = Encode[q] /\ d[1] \in Byte
  BY FirstDigit
<1>2. /\ d[1] % Base = q % Base /\ (d[1] >= Base <=> q >= Base)
  BY <1>1, DigitValue
<1>0. Continues(s, lost, 0, d, n)
  BY <1>1
<1> DEFINE Digits(e) == /\ s[1].packet = Inside /\ s[1].byte = d[1]
                      /\ Continues(SubSeq(s, 1 + 1, Len(s)), lost, 0, e, n)
                      /\ PacketsIn[SubSeq(s, 1 + 1, Len(s))] = PacketsIn[s]
<1>3. ASSUME NEW e \in Seq(Byte), Len(d) = 1 + Len(e), \A j \in 1..Len(e) : d[1 + j] = e[j]
      PROVE  Digits(e)
  BY <1>0, <1>3, FirstOf
<1>4. CASE q < Base
  <2>1. PICK e \in Seq(Byte) : e = << >> /\ Len(e) = 0
    BY EmptySeq
  <2>2. Len(d) = 1 + Len(e) /\ \A j \in 1..Len(e) : d[1 + j] = e[j]
    BY <1>1, <1>4, <2>1, FirstDigit
  <2>3. Digits(e)
    BY <1>3, <2>2
  <2>4. ~(q >= Base)
    BY <1>4, FramingAssumption
  <2>5. QED
    BY <1>1, <1>2, <2>1, <2>3, <2>4
<1>5. CASE q >= Base
  <2>1. q \div Base \in Nat
    BY DivMod
  <2>2. PICK e \in Seq(Byte) : e = Encode[q \div Base]
    BY <2>1, EncodeIs
  <2>3. Len(d) = 1 + Len(e) /\ \A j \in 1..Len(e) : d[1 + j] = e[j]
    BY <1>1, <1>5, <2>2, FirstDigit
  <2>4. Digits(e)
    BY <1>3, <2>3
  <2>5. ~(q < Base)
    BY <1>5, FramingAssumption
  <2>6. QED
    BY <1>1, <1>2, <2>2, <2>4, <2>5
<1>6. QED
  BY <1>4, <1>5, FramingAssumption

\* Taking a body takes no packet.
LEMMA BodyRead ==
  ASSUME NEW s \in Seq(StreamByte), NEW lost, NEW n \in 0..Len(s),
         Continues(s, lost, 0, << >>, n)
  PROVE  /\ Continues(SubSeq(s, n + 1, Len(s)), lost, 0, << >>, 0)
         /\ PacketsIn[SubSeq(s, n + 1, Len(s))] = PacketsIn[s]
<1>1. n \in Nat /\ Len(s) \in Nat /\ n <= Len(s) /\ Len(<< >>) = 0 /\ << >> \in Seq(Byte)
  BY LenProperties, EmptySeq
<1>2. /\ \A k \in 1..0 + n : 0 + k <= Len(s) => s[0 + k].packet = Inside
      /\ 0 + 0 + n < Len(s) => s[0 + 0 + n + 1].packet # Inside
      /\ ~lost => 0 + 0 + n <= Len(s)
  BY <1>1 DEF Continues
<1>3. /\ 0 + 0 + n = n + 0 + 0 /\ 0 + n = n
      /\ \A k \in 1..n : 0 + k = k /\ k <= Len(s)
  BY <1>1
<1>4. Continues(s, lost, n + 0, << >>, 0)
  <2>1. n + 0 = n /\ n + 0 + 0 = n
    BY <1>1
  <2>2. \A k \in 1..0 : FALSE
    OBVIOUS
  <2>3. 0 + 0 = 0
    OBVIOUS
  <2>4. QED
    BY <1>1, <1>2, <1>3, <2>1, <2>2, <2>3 DEF Continues
<1>5. Continues(SubSeq(s, n + 1, Len(s)), lost, 0, << >>, 0)
  <2>1. PICK e \in Seq(Byte) : e = << >>
    BY <1>1
  <2>2. Continues(s, lost, n + 0, e, 0)
    BY <1>4, <2>1
  <2>3. Continues(SubSeq(s, n + 1, Len(s)), lost, 0, e, 0)
    BY <2>2, ContinuesRest
  <2>4. QED
    BY <2>1, <2>3
<1>6. PacketsIn[SubSeq(s, n + 1, Len(s))] = PacketsIn[s]
  <2>1. PICK f \in Seq(StreamByte) :
          f = SubSeq(s, 1, n) /\ Len(f) = n /\ \A i \in 1..n : f[i] = s[i]
    BY FrontIs
  <2>2. PICK u \in Seq(StreamByte) : u = SubSeq(s, n + 1, Len(s))
    BY RestIs
  <2>3. \A i \in 1..Len(f) : f[i].packet = Inside
    BY <1>2, <1>3, <2>1
  <2>4. PacketsIn[f] = << >>
    BY <2>3, PacketsInInside
  <2>5. PacketsIn[s] = PacketsIn[f] \o PacketsIn[u]
    BY <2>1, <2>2, PacketsInSplit
  <2>6. << >> \o PacketsIn[u] = PacketsIn[u]
    BY PacketsInIs, ConcatEmptySeq
  <2>7. QED
    BY <2>2, <2>4, <2>5, <2>6
<1>7. QED
  BY <1>5, <1>6

\* What the broker sends for a packet holds that packet.
LEMMA PacketMade ==
  ASSUME NEW p \in Packet, NEW body \in [1..p[2] -> Payload]
  PROVE  PacketsIn[Bytes(p, body)] = <<p>>
<1>1. PICK w \in Seq(StreamByte) :
        /\ w = Bytes(p, body) /\ Len(w) = 1 + Len(Encode[p[2]]) + p[2] /\ w[1].packet = p
        /\ Continues(w, FALSE, 1, Encode[p[2]], p[2])
  BY BytesAre
<1>2. PICK m \in Nat, n \in Nat : m = Len(Encode[p[2]]) /\ n = p[2]
  BY LengthsAre
<1>3. 1 <= Len(w) /\ p # Inside /\ 1 \in 0..Len(w) /\ Len(w) - 1 = m + n
  BY <1>1, <1>2, NotInside
<1>4. PICK u \in Seq(StreamByte) :
        u = SubSeq(w, 1 + 1, Len(w)) /\ Len(u) = m + n /\ \A i \in 1..m + n : u[i] = w[1 + i]
  <2>1. /\ SubSeq(w, 1 + 1, Len(w)) \in Seq(StreamByte)
        /\ Len(SubSeq(w, 1 + 1, Len(w))) = Len(w) - 1
        /\ \A i \in 1..Len(w) - 1 : SubSeq(w, 1 + 1, Len(w))[i] = w[1 + i]
    BY <1>3, RestIs
  <2>2. QED
    BY <1>3, <2>1
<1>5. ASSUME NEW i \in 1..Len(u) PROVE u[i].packet = Inside
  <2>1. i \in 1..m + n /\ 1 + i <= Len(w)
    BY <1>2, <1>3, <1>4
  <2>2. w[1 + i].packet = Inside
    BY <1>1, <1>2, <2>1 DEF Continues
  <2>3. QED
    BY <1>4, <2>1, <2>2
<1>6. PacketsIn[u] = << >>
  BY <1>5, PacketsInInside
<1>7. PacketsIn[w] = <<p>> \o PacketsIn[u]
  <2>1. PacketsIn[w] = Starting(w[1]) \o PacketsIn[u]
    BY <1>3, <1>4, FirstTaken
  <2>2. Starting(w[1]) = <<p>>
    BY <1>1, <1>3 DEF Starting
  <2>3. QED
    BY <2>1, <2>2
<1>8. <<p>> \o << >> = <<p>>
  OBVIOUS
<1>9. QED
  BY <1>1, <1>6, <1>7, <1>8

-----------------------------------------------------------------------------
(* The inductive invariant. *)

\* What the locals of a task say of its place in the code.  Outside a call they mean
\* nothing, a digit is preceded by less than it counts, and what is taken apart was found
\* to fit.
LocalsOf(t) ==
  /\ pc[t] \in {"idle", "header"} => len[t] = 0 /\ rem_len[t] = 0
  /\ pc[t] \in {"idle", "header", "length", "body", "parse"} => value[t] = 0
  /\ pc[t] \in {"body", "parse", "handle"} => len[t] = 0
  /\ pc[t] = "length" => rem_len[t] < Multiplier[len[t]]
  /\ pc[t] # "idle" => buflen[t] > MaxDigits
  /\ pc[t] = "digit" => bufptr # << >>
  /\ pc[t] \in {"parse", "digit", "handle"} => Fits(t)

Locals == \A t \in Reader : LocalsOf(t)

\* While framing holds, a task that reads a length or a body is alone in it, the digits
\* it has not read yet make up what is missing of the packet's length, they are the next
\* bytes of the stream, and the body is behind them.
FramedOf(t) ==
  /\ pc[t] = "length" =>
       /\ current \in Packet
       /\ \E q \in Nat : /\ current[2] = rem_len[t] + Multiplier[len[t]] * q
                         /\ Continues(stream, closed, 0, Encode[q], current[2])
  /\ pc[t] = "body" =>
       /\ current \in Packet /\ rem_len[t] = current[2]
       /\ Continues(stream, closed, 0, << >>, current[2])

Alone == \A t, u \in Reader : pc[t] \in Reading /\ pc[u] \in Reading => t = u
AtBoundary == current = NoPacket /\ Continues(stream, closed, 0, << >>, 0)

InFrame ==
  /\ PacketsFit(stream, closed)
  /\ Alone
  /\ (\A t \in Reader : pc[t] \notin {"length", "body"}) => AtBoundary
  /\ \A t \in Reader : FramedOf(t)

Framed == IF excused THEN current = NoPacket /\ out = NoPacket ELSE InFrame

\* A task whose decodeBuf no other one has crossed finds in its buffer the digits that
\* are missing, and after the last it has the length again.
UncrossedOf(t) ==
  /\ pc[t] = "digit" =>
       /\ Parsing # {t} => t \in crossed
       /\ t \notin crossed =>
            /\ bufptr = <<t, len[t] + 1>>
            /\ \E q \in Nat :
                 /\ rem_len[t] = value[t] + Multiplier[len[t]] * q
                 /\ len[t] > 0 => q > 0
                 /\ Len(Encode[rem_len[t]]) = len[t] + Len(Encode[q])
                 /\ \A j \in 1..Len(Encode[q]) : Encode[rem_len[t]][len[t] + j] = Encode[q][j]
  /\ pc[t] = "handle" /\ t \notin crossed => value[t] = rem_len[t]

Uncrossed == \A t \in Reader : UncrossedOf(t)

FramingInv == TypeOK /\ Locals /\ Framed /\ Uncrossed

-----------------------------------------------------------------------------
\* Numbers and what recv returns.

LEMMA Numbers ==
  /\ Base \in Nat /\ Base > 1 /\ MaxDigits \in Nat /\ MaxDigits > 0
  /\ MaxRemLen \in Nat /\ Multiplier[MaxDigits] = MaxRemLen + 1
  /\ \A t \in Reader : \A n \in BufLen[t] : n \in Nat /\ n > MaxDigits
<1>1. MaxDigits \in Nat /\ Multiplier[MaxDigits] \in Nat \ {0}
  BY MultiplierIs, FramingAssumption
<1>2. QED
  BY <1>1, FramingAssumption DEF MaxRemLen

\* recv returns no more than there is and than was asked for.
LEMMA RecvIs ==
  ASSUME TypeOK, NEW t \in Reader, NEW c \in Nat, NEW n \in Recv(t, c)
  PROVE  n \in 0..Len(stream) /\ n <= c
<1>1. Len(stream) \in Nat
  BY LenProperties DEF TypeOK
<1>2. QED
  BY <1>1 DEF Recv

\* What it returns is gone from the stream.
LEMMA TakesIs ==
  ASSUME TypeOK, NEW t \in Reader, NEW n \in 0..Len(stream), Takes(t, n)
  PROVE  /\ stream' = SubSeq(stream, n + 1, Len(stream)) /\ stream' \in Seq(StreamByte)
         /\ cut' \subseteq Reader /\ closed' = closed
<1>1. PICK s \in Seq(StreamByte) : s = stream
  BY DEF TypeOK
<1>2. SubSeq(s, n + 1, Len(s)) \in Seq(StreamByte)
  BY <1>1, RestIs
<1>3. QED
  BY <1>1, <1>2 DEF Takes, TypeOK

\* A task that reads a header is at a boundary.
LEMMA HeaderRead ==
  ASSUME FramingInv, ~excused, NEW t \in Reader, pc[t] = "header"
  PROVE  /\ current = NoPacket /\ PacketsFit(stream, closed)
         /\ Continues(stream, closed, 0, << >>, 0)
         /\ \A u \in Reader \ {t} : pc[u] \notin Reading
<1>1. InFrame
  BY DEF FramingInv, Framed
<1>2. \A u \in Reader \ {t} : pc[u] \notin Reading
  BY <1>1 DEF InFrame, Alone, Reading
<1>3. \A u \in Reader : pc[u] \notin {"length", "body"}
  BY <1>2 DEF Reading
<1>4. QED
  BY <1>1, <1>2, <1>3 DEF InFrame, AtBoundary

LEMMA HeaderTaken ==
  ASSUME FramingInv, ~excused, NEW t \in Reader, pc[t] = "header", 1 \in 0..Len(stream)
  PROVE  /\ stream[1].packet \in Packet
         /\ Continues(SubSeq(stream, 1 + 1, Len(stream)), closed, 0,
                      Encode[stream[1].packet[2]], stream[1].packet[2])
         /\ PacketsIn[stream] = <<stream[1].packet>> \o PacketsIn[SubSeq(stream, 1 + 1, Len(stream))]
<1>1. PICK s \in Seq(StreamByte), c \in {closed} : s = stream /\ c = closed
  BY DEF FramingInv, TypeOK
<1>2. PacketsFit(s, c) /\ Continues(s, c, 0, << >>, 0) /\ 1 <= Len(s)
  BY <1>1, HeaderRead, LenProperties
<1>3. QED
  BY <1>1, <1>2, PacketTaken

-----------------------------------------------------------------------------
\* Types.

LEMMA TypeInit == Init => TypeOK
<1> SUFFICES ASSUME Init PROVE TypeOK
  OBVIOUS
<1>1. stream \in Seq(StreamByte)
  <2>1. << >> \in Seq(StreamByte)
    BY EmptySeq
  <2>2. QED
    BY <2>1 DEF Init
<1>2. 0 \in 0..MaxDigits /\ 0 \in 0..MaxRemLen
  BY Numbers
<1>3. /\ closed \in BOOLEAN /\ excused \in BOOLEAN
      /\ cut \subseteq Reader /\ crossed \subseteq Reader
      /\ pc \in [Reader -> Reading \cup {"idle", "parse", "digit", "handle"}]
      /\ buflen \in [Reader -> {0} \cup UNION {BufLen[t] : t \in Reader}]
      /\ len \in [Reader -> 0..MaxDigits]
      /\ rem_len \in [Reader -> 0..MaxRemLen]
      /\ value \in [Reader -> Nat]
  BY <1>2 DEF Init
<1>4. /\ bufptr \in (Reader \X Nat) \cup {<< >>}
      /\ current \in Packet \cup {NoPacket}
      /\ out \in (Type \X (0..MaxRemLen)) \cup {NoPacket}
  BY DEF Init
<1>5. QED
  BY <1>1, <1>3, <1>4 DEF TypeOK

LEMMA TypeBroker ==
  ASSUME FramingInv, BrokerSends \/ ConnectionLost
  PROVE  TypeOK'
<1> USE DEF FramingInv, TypeOK, readVars, parseVars, histVars
<1>1. PICK s \in Seq(StreamByte) : s = stream
  OBVIOUS
<1>2. CASE BrokerSends
  <2>1. PICK p \in Packet : \E body \in [1..p[2] -> Payload] : stream' = stream \o Bytes(p, body)
    BY <1>2 DEF BrokerSends
  <2>2. PICK body \in [1..p[2] -> Payload] : stream' = stream \o Bytes(p, body)
    BY <2>1
  <2>3. PICK w \in Seq(StreamByte) : w = Bytes(p, body)
    BY BytesAre
  <2>4. s \o w \in Seq(StreamByte)
    BY ConcatIs
  <2>5. stream' \in Seq(StreamByte)
    BY <1>1, <2>2, <2>3, <2>4
  <2>6. QED
    BY <1>2, <2>5 DEF BrokerSends
<1>3. CASE ConnectionLost
  <2>1. PICK n \in 0..Len(stream) : stream' = SubSeq(stream, 1, n)
    BY <1>3 DEF ConnectionLost
  <2>2. SubSeq(s, 1, n) \in Seq(StreamByte)
    BY <1>1, <2>1, FrontIs
  <2>3. stream' \in Seq(StreamByte)
    BY <1>1, <2>1, <2>2
  <2>4. QED
    BY <1>3, <2>3 DEF ConnectionLost
<1>4. QED
  BY <1>2, <1>3

LEMMA HistoryTypes ==
  ASSUME TypeOK, NEW p, NEW o, NEW lost \in BOOLEAN, History(p, o, lost),
         ~lost => p \in Packet \cup {NoPacket} /\ o \in (Type \X (0..MaxRemLen)) \cup {NoPacket}
  PROVE  /\ excused' \in BOOLEAN /\ current' \in Packet \cup {NoPacket}
         /\ out' \in (Type \X (0..MaxRemLen)) \cup {NoPacket}
  BY DEF History

LEMMA ReturnTypes ==
  ASSUME TypeOK, NEW t \in Reader, Return(t)
  PROVE  /\ pc' \in [Reader -> Reading \cup {"idle", "parse", "digit", "handle"}]
         /\ buflen' \in [Reader -> {0} \cup UNION {BufLen[u] : u \in Reader}]
         /\ len' \in [Reader -> 0..MaxDigits]
         /\ rem_len' \in [Reader -> 0..MaxRemLen]
         /\ value' \in [Reader -> Nat]
  BY Numbers DEF TypeOK, Return, GoTo

LEMMA TypeBegin ==
  ASSUME FramingInv, NEW t \in Reader, Begin(t)
  PROVE  TypeOK'
<1> USE DEF FramingInv, TypeOK, connVars, readVars, parseVars, histVars
<1>1. PICK n \in BufLen[t] : buflen' = [buflen EXCEPT ![t] = n]
  BY DEF Begin
<1>2. buflen' \in [Reader -> {0} \cup UNION {BufLen[u] : u \in Reader}]
  BY <1>1
<1>3. /\ excused' \in BOOLEAN /\ current' \in Packet \cup {NoPacket}
      /\ out' \in (Type \X (0..MaxRemLen)) \cup {NoPacket}
  BY DEF Begin, History
<1>4. pc' \in [Reader -> Reading \cup {"idle", "parse", "digit", "handle"}]
  BY DEF Begin, GoTo, Reading
<1>5. QED
  BY <1>2, <1>3, <1>4 DEF Begin

LEMMA TypeHeader ==
  ASSUME FramingInv, NEW t \in Reader, ReadHeader(t)
  PROVE  TypeOK'
<1> USE DEF FramingInv, parseVars
<1>1. PICK n \in Recv(t, 1) :
        /\ Takes(t, n)
        /\ IF n = 1
             THEN /\ History(stream[1].packet, out, excused)
                  /\ GoTo(t, "length")
                  /\ UNCHANGED <<buflen, len, rem_len, value>>
             ELSE Return(t) /\ UNCHANGED histVars
  BY DEF ReadHeader
<1>2. n \in 0..Len(stream)
  BY RecvIs
<1>3. stream' \in Seq(StreamByte) /\ cut' \subseteq Reader /\ closed' = closed
  BY <1>1, <1>2, TakesIs
<1>4. CASE n = 1
  <2>1. ~excused => stream[1].packet \in Packet
    BY <1>2, <1>4, HeaderTaken DEF ReadHeader
  <2>2. /\ excused' \in BOOLEAN /\ current' \in Packet \cup {NoPacket}
        /\ out' \in (Type \X (0..MaxRemLen)) \cup {NoPacket}
    BY <1>1, <1>4, <2>1 DEF History, TypeOK
  <2>3. pc' \in [Reader -> Reading \cup {"idle", "parse", "digit", "handle"}]
    BY <1>1, <1>4 DEF GoTo, Reading, TypeOK
  <2>4. QED
    BY <1>1, <1>3, <1>4, <2>2, <2>3 DEF ReadHeader, TypeOK
<1>5. CASE n # 1
  <2>1. Return(t) /\ UNCHANGED histVars
    BY <1>1, <1>5
  <2>2. QED
    BY <1>3, <2>1, ReturnTypes DEF ReadHeader, TypeOK, histVars
<1>6. QED
  BY <1>4, <1>5

\* A digit keeps the length below what the next one counts.
LEMMA DigitFits ==
  ASSUME FramingInv, NEW t \in Reader, pc[t] = "length", len[t] < MaxDigits, NEW c \in Byte
  PROVE  /\ rem_len[t] + (c % Base) * Multiplier[len[t]] \in 0..MaxRemLen
         /\ rem_len[t] + (c % Base) * Multiplier[len[t]] < Multiplier[len[t] + 1]
<1>1. PICK r \in Nat, k \in Nat : r = rem_len[t] /\ k = len[t] /\ r < Multiplier[k] /\ k < MaxDigits
  BY Numbers DEF FramingInv, TypeOK, Locals, LocalsOf
<1>2. PICK x \in 0..Base - 1 : x = c % Base
  BY DivMod, Numbers DEF Byte
<1>3. r + x * Multiplier[k] \in Nat /\ r + x * Multiplier[k] < Multiplier[k + 1]
  BY <1>1, DigitBounded
<1>4. Multiplier[k + 1] <= Multiplier[MaxDigits]
  <2>1. k + 1 \in Nat /\ MaxDigits - (k + 1) \in Nat /\ (k + 1) + (MaxDigits - (k + 1)) = MaxDigits
    BY <1>1, Numbers
  <2>2. QED
    BY <2>1, MultiplierGrows
<1>5. PICK y \in Nat, z \in Nat : y = r + x * Multiplier[k] /\ z = Multiplier[k + 1]
  BY <1>1, <1>3, MultiplierIs
<1>6. y < z /\ z <= MaxRemLen + 1
  BY <1>3, <1>4, <1>5, Numbers
<1>7. y \in 0..MaxRemLen
  BY <1>5, <1>6, Numbers
<1>8. QED
  BY <1>1, <1>2, <1>3, <1>5, <1>7

LEMMA TypeDigit ==
  ASSUME FramingInv, NEW t \in Reader, DecodeDigit(t)
  PROVE  TypeOK'
<1> USE DEF FramingInv, parseVars
<1>1. PICK n \in Recv(t, 1) :
        /\ Takes(t, n)
        /\ IF n = 1
             THEN /\ rem_len' = [rem_len EXCEPT ![t] = @ + (stream[1].byte % Base) * Multiplier[len[t]]]
                  /\ len' = [len EXCEPT ![t] = IF stream[1].byte >= Base THEN @ + 1 ELSE 0]
                  /\ GoTo(t, IF stream[1].byte >= Base THEN "length" ELSE "body")
                  /\ UNCHANGED histVars
             ELSE /\ len' = [len EXCEPT ![t] = 0]
                  /\ GoTo(t, "body")
                  /\ History(current, out, TRUE)
                  /\ UNCHANGED rem_len
  BY DEF DecodeDigit
<1>2. n \in 0..Len(stream) /\ pc[t] = "length" /\ len[t] < MaxDigits
  BY RecvIs DEF DecodeDigit
<1>3. stream' \in Seq(StreamByte) /\ cut' \subseteq Reader /\ closed' = closed
  BY <1>1, <1>2, TakesIs
<1>4. /\ excused' \in BOOLEAN /\ current' \in Packet \cup {NoPacket}
      /\ out' \in (Type \X (0..MaxRemLen)) \cup {NoPacket}
  BY <1>1 DEF History, TypeOK, histVars
<1>5. pc' \in [Reader -> Reading \cup {"idle", "parse", "digit", "handle"}]
  BY <1>1 DEF GoTo, Reading, TypeOK
<1>6. rem_len' \in [Reader -> 0..MaxRemLen]
  <2>1. CASE n = 1
    <3>1. stream[1].byte \in Byte
      <4>1. 1 \in 1..Len(stream)
        BY <1>2, <2>1
      <4>2. stream[1] \in StreamByte
        BY <4>1, ElementOfSeq DEF TypeOK
      <4>3. QED
        BY <4>2, StreamBytes
    <3>2. rem_len[t] + (stream[1].byte % Base) * Multiplier[len[t]] \in 0..MaxRemLen
      BY <1>2, <3>1, DigitFits
    <3>3. QED
      BY <1>1, <2>1, <3>2 DEF TypeOK
  <2>2. CASE n # 1
    BY <1>1, <2>2 DEF TypeOK
  <2>3. QED
    BY <2>1, <2>2
<1>7. len' \in [Reader -> 0..MaxDigits]
  <2>1. len[t] + 1 \in 0..MaxDigits /\ 0 \in 0..MaxDigits
    BY <1>2, Numbers DEF TypeOK
  <2>2. \E v \in 0..MaxDigits : len' = [len EXCEPT ![t] = v]
    BY <1>1, <2>1
  <2>3. QED
    BY <2>2 DEF TypeOK
<1>8. QED
  BY <1>3, <1>4, <1>5, <1>6, <1>7 DEF DecodeDigit, TypeOK

LEMMA TypeTooManyDigits ==
  ASSUME FramingInv, NEW t \in Reader, TooManyDigits(t)
  PROVE  TypeOK'
  BY Numbers DEF FramingInv, TypeOK, TooManyDigits, GoTo, History, Reading, connVars, parseVars

LEMMA TypeTooLong ==
  ASSUME FramingInv, NEW t \in Reader, TooLong(t)
  PROVE  TypeOK'
<1>1. TypeOK /\ Return(t)
  BY DEF FramingInv, TooLong
<1>2. QED
  BY <1>1, ReturnTypes DEF TypeOK, TooLong, History, connVars, parseVars

LEMMA TypeBody ==
  ASSUME FramingInv, NEW t \in Reader, ReadBody(t)
  PROVE  TypeOK'
<1> USE DEF FramingInv, parseVars
<1>1. PICK n \in IF rem_len[t] = 0 THEN {0} ELSE Recv(t, rem_len[t]) :
        /\ Takes(t, n)
        /\ IF n = rem_len[t]
             THEN /\ GoTo(t, "parse")
                  /\ History(NoPacket, <<current[1], rem_len[t]>>, excused)
                  /\ UNCHANGED readVars
             ELSE Return(t) /\ History(current, out, TRUE)
  BY DEF ReadBody
<1>2. rem_len[t] \in 0..MaxRemLen /\ rem_len[t] \in Nat
  BY Numbers DEF TypeOK
<1>3. n \in 0..Len(stream)
  <2>1. Len(stream) \in Nat
    BY LenProperties DEF TypeOK
  <2>2. QED
    BY <1>2, <2>1, RecvIs
<1>4. stream' \in Seq(StreamByte) /\ cut' \subseteq Reader /\ closed' = closed
  BY <1>1, <1>3, TakesIs
<1>5. CASE n = rem_len[t]
  <2>1. ~excused => current[1] \in Type
    <3>1. ~excused => current \in Packet
      BY DEF Framed, InFrame, FramedOf, ReadBody
    <3>2. QED
      BY <3>1 DEF Packet
  <2>2. /\ excused' \in BOOLEAN /\ current' \in Packet \cup {NoPacket}
        /\ out' \in (Type \X (0..MaxRemLen)) \cup {NoPacket}
    BY <1>1, <1>2, <1>5, <2>1 DEF History, TypeOK
  <2>3. pc' \in [Reader -> Reading \cup {"idle", "parse", "digit", "handle"}]
    BY <1>1, <1>5 DEF GoTo, Reading, TypeOK
  <2>4. UNCHANGED readVars
    BY <1>1, <1>5
  <2>5. QED
    BY <1>4, <2>2, <2>3, <2>4 DEF ReadBody, TypeOK, readVars
<1>6. CASE n # rem_len[t]
  <2>1. Return(t) /\ History(current, out, TRUE)
    BY <1>1, <1>6
  <2>2. QED
    BY <1>4, <2>1, ReturnTypes DEF ReadBody, TypeOK, History
<1>7. QED
  BY <1>5, <1>6

LEMMA TypeParse ==
  ASSUME FramingInv, NEW t \in Reader, StartDecodeBuf(t) \/ DecodeBufDigit(t) \/ Handle(t)
  PROVE  TypeOK'
<1> USE DEF FramingInv, connVars, readVars, histVars
<1>1. CASE StartDecodeBuf(t)
  BY <1>1 DEF StartDecodeBuf, TypeOK, GoTo, Reading, Parsing
<1>2. CASE Handle(t)
  <2>1. Return(t)
    BY <1>2 DEF Handle
  <2>2. QED
    BY <1>2, <2>1, ReturnTypes DEF Handle, TypeOK
<1>3. CASE DecodeBufDigit(t) /\ len[t] = MaxDigits
  <2>1. len' = [len EXCEPT ![t] = 0] /\ GoTo(t, "handle") /\ UNCHANGED <<bufptr, value>>
    BY <1>3 DEF DecodeBufDigit
  <2>2. QED
    BY <1>3, <2>1, Numbers DEF DecodeBufDigit, TypeOK, GoTo, Reading
<1>4. CASE DecodeBufDigit(t) /\ len[t] # MaxDigits
  <2>1. PICK c \in BufChar :
          /\ bufptr' = IF c < Base /\ Parsing = {t} THEN << >> ELSE <<bufptr[1], bufptr[2] + 1>>
          /\ value' = [value EXCEPT ![t] = @ + (c % Base) * Multiplier[len[t]]]
          /\ len' = [len EXCEPT ![t] = IF c >= Base THEN @ + 1 ELSE 0]
          /\ GoTo(t, IF c >= Base THEN "digit" ELSE "handle")
    BY <1>4 DEF DecodeBufDigit
  <2>2. bufptr # << >>
    BY <1>4 DEF DecodeBufDigit, Locals, LocalsOf
  <2>3. PICK u \in Reader, i \in Nat : bufptr = <<u, i>>
    BY <2>2 DEF TypeOK
  <2>4. c \in Byte /\ c \in Nat
    <3>1. rem_len[u] \in Nat
      BY Numbers DEF TypeOK
    <3>2. Encode[rem_len[u]] \in Seq(Byte)
      BY <3>1, EncodeIs
    <3>3. i \in DOMAIN Encode[rem_len[u]] => Encode[rem_len[u]][i] \in Byte
      BY <3>2, LenProperties, ElementOfSeq
    <3>4. c \in Byte
      BY <2>3, <3>3 DEF BufChar
    <3>5. QED
      BY <3>4, Numbers DEF Byte
  <2>5. bufptr' \in (Reader \X Nat) \cup {<< >>}
    BY <2>1, <2>3
  <2>6. value' \in [Reader -> Nat]
    <3>1. len[t] \in Nat /\ value[t] \in Nat
      BY Numbers DEF TypeOK
    <3>2. PICK x \in Nat, m \in Nat : x = c % Base /\ m = Multiplier[len[t]]
      <4>1. c % Base \in Nat
        BY <2>4, DivMod, Numbers
      <4>2. Multiplier[len[t]] \in Nat
        BY <3>1, MultiplierIs
      <4>3. QED
        BY <4>1, <4>2
    <3>3. value[t] + x * m \in Nat
      BY <3>1, <3>2
    <3>4. QED
      BY <2>1, <3>2, <3>3 DEF TypeOK
  <2>7. len' \in [Reader -> 0..MaxDigits]
    <3>1. len[t] + 1 \in 0..MaxDigits /\ 0 \in 0..MaxDigits
      BY <1>4, Numbers DEF TypeOK
    <3>2. \E v \in 0..MaxDigits : len' = [len EXCEPT ![t] = v]
      BY <2>1, <3>1
    <3>3. QED
      BY <3>2 DEF TypeOK
  <2>8. pc' \in [Reader -> Reading \cup {"idle", "parse", "digit", "handle"}]
    BY <2>1 DEF TypeOK, GoTo, Reading
  <2>9. QED
    BY <1>4, <2>5, <2>6, <2>7, <2>8 DEF DecodeBufDigit, TypeOK
<1>5. QED
  BY <1>1, <1>2, <1>3, <1>4

LEMMA TypeReopen ==
  ASSUME FramingInv, NEW t \in Reader, Reopen(t)
  PROVE  TypeOK'
<1>1. stream' \in Seq(StreamByte)
  BY EmptySeq DEF Reopen
<1>2. QED
  BY <1>1 DEF FramingInv, TypeOK, Reopen, Midway, History, readVars, parseVars

LEMMA TypeNext ==
  ASSUME FramingInv, [Next]_vars
  PROVE  TypeOK'
<1>1. ASSUME NEW t \in Reader, Begin(t) \/ Read(t) \/ Reopen(t) PROVE TypeOK'
  BY <1>1, TypeBegin, TypeHeader, TypeDigit, TypeTooManyDigits, TypeTooLong, TypeBody,
     TypeParse, TypeReopen DEF Read
<1>2. CASE UNCHANGED vars
  BY <1>2 DEF FramingInv, TypeOK, vars, connVars, readVars, parseVars, histVars
<1>3. QED
  BY <1>1, <1>2, TypeBroker DEF Next

-----------------------------------------------------------------------------
\* Locals.

LEMMA LocalsInit == Init => Locals
  BY DEF Init, Locals, LocalsOf

\* A step leaves the other tasks alone.
Same(u) ==
  /\ pc'[u] = pc[u] /\ buflen'[u] = buflen[u]
  /\ len'[u] = len[u] /\ rem_len'[u] = rem_len[u] /\ value'[u] = value[u]

LEMMA LocalsKept ==
  ASSUME NEW u \in Reader, LocalsOf(u), Same(u),
         pc[u] = "digit" /\ bufptr # << >> => bufptr' # << >>
  PROVE  LocalsOf(u)'
  BY DEF LocalsOf, Same, Fits

LEMMA ReturnIs ==
  ASSUME TypeOK, NEW t \in Reader, Return(t)
  PROVE  /\ LocalsOf(t)' /\ pc'[t] = "idle"
         /\ \A u \in Reader \ {t} : Same(u)
  BY DEF TypeOK, Return, GoTo, LocalsOf, Same

LEMMA OneMoves ==
  ASSUME FramingInv, NEW t \in Reader, Begin(t) \/ Read(t), NEW u \in Reader \ {t}
  PROVE  Same(u)
  BY DEF FramingInv, TypeOK, Begin, Read, ReadHeader, DecodeDigit, TooManyDigits, TooLong, ReadBody,
         StartDecodeBuf, DecodeBufDigit, Handle, Return, GoTo, Same, connVars, readVars, parseVars

LEMMA PointerSet == \A t, n : <<t, n>> # << >>
<1>1. \A t, n : Len(<<t, n>>) = 2
  OBVIOUS
<1>2. Len(<< >>) = 0
  OBVIOUS
<1>3. QED
  BY <1>1, <1>2

\* bufptr is dropped by the last task that uses it only.
LEMMA PointerKept ==
  ASSUME NEW t \in Reader, Begin(t) \/ Read(t), NEW u \in Reader \ {t},
         pc[u] = "digit", bufptr # << >>
  PROVE  bufptr' # << >>
<1>1. CASE StartDecodeBuf(t)
  BY <1>1, PointerSet DEF StartDecodeBuf
<1>2. CASE DecodeBufDigit(t)
  <2>1. Parsing # {t}
    BY DEF Parsing
  <2>2. bufptr' = bufptr \/ bufptr' = <<bufptr[1], bufptr[2] + 1>>
    BY <1>2, <2>1 DEF DecodeBufDigit
  <2>3. QED
    BY <2>2, PointerSet
<1>3. CASE ~ StartDecodeBuf(t) /\ ~ DecodeBufDigit(t)
  BY <1>3 DEF Begin, Read, ReadHeader, DecodeDigit, TooManyDigits, TooLong, ReadBody, Handle, parseVars
<1>4. QED
  BY <1>1, <1>2, <1>3

LEMMA LocalsHeader ==
  ASSUME FramingInv, NEW t \in Reader, Begin(t) \/ ReadHeader(t)
  PROVE  LocalsOf(t)'
<1> USE DEF FramingInv
<1>1. LocalsOf(t) /\ TypeOK
  BY DEF Locals
<1>2. CASE Begin(t)
  <2>1. PICK n \in BufLen[t] : buflen' = [buflen EXCEPT ![t] = n]
    BY <1>2 DEF Begin
  <2>2. n > MaxDigits
    BY Numbers
  <2>3. pc[t] = "idle" /\ pc'[t] = "header" /\ buflen'[t] = n /\ UNCHANGED <<len, rem_len, value>>
    BY <1>1, <1>2, <2>1 DEF Begin, GoTo, TypeOK
  <2>4. QED
    BY <1>1, <2>2, <2>3 DEF LocalsOf
<1>3. CASE ReadHeader(t)
  <2>1. CASE Return(t)
    BY <2>1, ReturnIs
  <2>2. CASE GoTo(t, "length") /\ UNCHANGED <<buflen, len, rem_len, value>>
    <3>1. pc[t] = "header" /\ pc'[t] = "length"
      BY <1>1, <1>3, <2>2 DEF ReadHeader, GoTo, TypeOK
    <3>2. 0 < Multiplier[0]
      BY MultiplierIs
    <3>3. QED
      BY <1>1, <2>2, <3>1, <3>2 DEF LocalsOf
  <2>3. QED
    BY <1>3, <2>1, <2>2 DEF ReadHeader
<1>4. QED
  BY <1>2, <1>3

LEMMA LocalsLength ==
  ASSUME FramingInv, NEW t \in Reader, DecodeDigit(t) \/ TooManyDigits(t)
  PROVE  LocalsOf(t)'
<1> USE DEF FramingInv
<1>1. LocalsOf(t) /\ TypeOK /\ pc[t] = "length"
  BY DEF Locals, DecodeDigit, TooManyDigits
<1>2. UNCHANGED <<buflen, value>>
  BY DEF DecodeDigit, TooManyDigits
<1>3. CASE GoTo(t, "body") /\ len'[t] = 0
  <2>1. pc'[t] = "body"
    BY <1>1, <1>3 DEF GoTo, TypeOK
  <2>2. QED
    BY <1>1, <1>2, <1>3, <2>1 DEF LocalsOf
<1>4. CASE DecodeDigit(t)
  <2>1. PICK n \in Recv(t, 1) :
          IF n = 1
            THEN /\ rem_len' = [rem_len EXCEPT ![t] = @ + (stream[1].byte % Base) * Multiplier[len[t]]]
                 /\ len' = [len EXCEPT ![t] = IF stream[1].byte >= Base THEN @ + 1 ELSE 0]
                 /\ GoTo(t, IF stream[1].byte >= Base THEN "length" ELSE "body")
            ELSE len' = [len EXCEPT ![t] = 0] /\ GoTo(t, "body")
    BY <1>4 DEF DecodeDigit
  <2>2. CASE n = 1 /\ stream[1].byte >= Base
    <3>1. pc'[t] = "length" /\ len'[t] = len[t] + 1
      BY <1>1, <2>1, <2>2 DEF GoTo, TypeOK
    <3>2. rem_len'[t] = rem_len[t] + (stream[1].byte % Base) * Multiplier[len[t]]
      BY <1>1, <2>1, <2>2 DEF TypeOK
    <3>3. stream[1].byte \in Byte
      <4>1. 1 \in 1..Len(stream)
        <5>1. Len(stream) \in Nat
          BY LenProperties DEF TypeOK
        <5>2. QED
          BY <2>2, <5>1, RecvIs
      <4>2. stream[1] \in StreamByte
        BY <4>1, ElementOfSeq DEF TypeOK
      <4>3. QED
        BY <4>2, StreamBytes
    <3>4. rem_len'[t] < Multiplier[len'[t]]
      BY <1>1, <1>4, <3>1, <3>2, <3>3, DigitFits DEF DecodeDigit
    <3>5. QED
      BY <1>1, <1>2, <3>1, <3>4 DEF LocalsOf
  <2>3. CASE ~ (n = 1 /\ stream[1].byte >= Base)
    <3>1. GoTo(t, "body") /\ len'[t] = 0
      BY <1>1, <2>1, <2>3 DEF TypeOK
    <3>2. QED
      BY <1>3, <3>1
  <2>4. QED
    BY <2>2, <2>3
<1>5. CASE TooManyDigits(t)
  BY <1>1, <1>3, <1>5 DEF TooManyDigits, TypeOK
<1>6. QED
  BY <1>4, <1>5

LEMMA LocalsBody ==
  ASSUME FramingInv, NEW t \in Reader, TooLong(t) \/ ReadBody(t) \/ StartDecodeBuf(t) \/ Handle(t)
  PROVE  LocalsOf(t)'
<1> USE DEF FramingInv
<1>1. LocalsOf(t) /\ TypeOK
  BY DEF Locals
<1>2. CASE Return(t)
  BY <1>2, ReturnIs
<1>3. CASE ReadBody(t) /\ ~ Return(t)
  <2>1. pc[t] = "body" /\ Fits(t) /\ GoTo(t, "parse") /\ UNCHANGED readVars
    BY <1>3 DEF ReadBody
  <2>2. pc'[t] = "parse"
    BY <1>1, <2>1 DEF GoTo, TypeOK
  <2>3. QED
    BY <1>1, <2>1, <2>2 DEF LocalsOf, readVars, Fits
<1>4. CASE StartDecodeBuf(t)
  <2>1. pc[t] = "parse" /\ GoTo(t, "digit") /\ UNCHANGED readVars /\ bufptr' = <<t, 1>>
    BY <1>4 DEF StartDecodeBuf
  <2>2. pc'[t] = "digit" /\ bufptr' # << >>
    BY <1>1, <2>1, PointerSet DEF GoTo, TypeOK
  <2>3. QED
    BY <1>1, <2>1, <2>2 DEF LocalsOf, readVars, Fits
<1>5. QED
  BY <1>2, <1>3, <1>4 DEF TooLong, Handle

LEMMA LocalsParse ==
  ASSUME FramingInv, NEW t \in Reader, DecodeBufDigit(t)
  PROVE  LocalsOf(t)'
<1> USE DEF FramingInv
<1>1. /\ LocalsOf(t) /\ TypeOK /\ pc[t] = "digit" /\ bufptr # << >>
      /\ UNCHANGED <<buflen, rem_len>>
  BY DEF Locals, LocalsOf, DecodeBufDigit
<1>2. CASE GoTo(t, "handle") /\ len'[t] = 0
  <2>1. pc'[t] = "handle"
    BY <1>1, <1>2 DEF GoTo, TypeOK
  <2>2. QED
    BY <1>1, <1>2, <2>1 DEF LocalsOf, Fits
<1>3. CASE GoTo(t, "digit") /\ bufptr' # << >>
  <2>1. pc'[t] = "digit"
    BY <1>1, <1>3 DEF GoTo, TypeOK
  <2>2. QED
    BY <1>1, <1>3, <2>1 DEF LocalsOf, Fits
<1>4. CASE len[t] = MaxDigits
  <2>1. len' = [len EXCEPT ![t] = 0] /\ GoTo(t, "handle")
    BY <1>4 DEF DecodeBufDigit
  <2>2. QED
    BY <1>1, <1>2, <2>1 DEF TypeOK
<1>5. CASE len[t] # MaxDigits
  <2>1. PICK c \in BufChar :
          /\ bufptr' = IF c < Base /\ Parsing = {t} THEN << >> ELSE <<bufptr[1], bufptr[2] + 1>>
          /\ len' = [len EXCEPT ![t] = IF c >= Base THEN @ + 1 ELSE 0]
          /\ GoTo(t, IF c >= Base THEN "digit" ELSE "handle")
    BY <1>5 DEF DecodeBufDigit
  <2>2. CASE c >= Base
    <3>1. c \in Int /\ ~(c < Base)
      <4>1. PICK u \in Reader, i \in Nat : bufptr = <<u, i>>
        BY <1>1 DEF TypeOK
      <4>2. Encode[rem_len[u]] \in Seq(Byte)
        BY EncodeIs, Numbers DEF TypeOK
      <4>3. c \in Byte
        BY <4>1, <4>2, LenProperties, ElementOfSeq DEF BufChar
      <4>4. QED
        BY <2>2, <4>3, Numbers DEF Byte
    <3>2. bufptr' # << >>
      BY <2>1, <3>1, PointerSet
    <3>3. QED
      BY <1>3, <2>1, <2>2, <3>2
  <2>3. CASE ~(c >= Base)
    BY <1>1, <1>2, <2>1, <2>3 DEF TypeOK
  <2>4. QED
    BY <2>2, <2>3
<1>6. QED
  BY <1>4, <1>5

LEMMA LocalsNext ==
  ASSUME FramingInv, [Next]_vars
  PROVE  Locals'
<1> USE DEF FramingInv
<1>1. ASSUME NEW t \in Reader, Begin(t) \/ Read(t) PROVE Locals'
  <2>1. LocalsOf(t)'
    BY <1>1, LocalsHeader, LocalsLength, LocalsBody, LocalsParse DEF Read
  <2>2. ASSUME NEW u \in Reader \ {t} PROVE LocalsOf(u)'
    <3>1. Same(u) /\ LocalsOf(u)
      BY <1>1, OneMoves DEF Locals
    <3>2. pc[u] = "digit" /\ bufptr # << >> => bufptr' # << >>
      BY <1>1, PointerKept
    <3>3. QED
      BY <3>1, <3>2, LocalsKept
  <2>3. QED
    BY <2>1, <2>2 DEF Locals
<1>2. CASE UNCHANGED <<pc, readVars, parseVars>>
  BY <1>2 DEF Locals, LocalsOf, Fits, readVars, parseVars
<1>3. QED
  BY <1>1, <1>2 DEF Next, BrokerSends, ConnectionLost, Reopen, vars

-----------------------------------------------------------------------------
\* Framing.

LEMMA FramedInit == Init => Framed
<1> SUFFICES ASSUME Init PROVE InFrame
  BY DEF Framed, Init
<1>1. PacketsFit(<< >>, FALSE)
  BY DEF PacketsFit
<1>2. Continues(<< >>, FALSE, 0, << >>, 0)
  BY DEF Continues
<1>3. QED
  BY <1>1, <1>2 DEF Init, InFrame, Alone, AtBoundary, FramedOf, Reading

LEMMA FramedLost ==
  ASSUME NEW p, NEW o, NEW lost \in BOOLEAN, lost, History(p, o, lost)
  PROVE  Framed'
  BY DEF History, Framed

LEMMA FramedKept ==
  ASSUME Framed, UNCHANGED <<stream, closed, histVars>>,
         \A u \in Reader : pc[u] \in Reading \/ pc'[u] \in Reading =>
           pc'[u] = pc[u] /\ len'[u] = len[u] /\ rem_len'[u] = rem_len[u]
  PROVE  Framed'
<1>1. CASE excused
  BY <1>1 DEF Framed, histVars
<1>2. CASE ~excused
  <2>1. InFrame /\ ~excused'
    BY <1>2 DEF Framed, histVars
  <2>2. UNCHANGED <<stream, closed, current>>
    BY DEF histVars
  <2>3. PacketsFit(stream', closed')
    BY <2>1, <2>2 DEF InFrame
  <2>4. \A u \in Reader : /\ pc'[u] \in Reading => pc[u] = pc'[u]
                          /\ pc[u] \in Reading => pc[u] = pc'[u]
    OBVIOUS
  <2>5. Alone'
    BY <2>1, <2>4 DEF InFrame, Alone
  <2>6. ((\A u \in Reader : pc[u] \notin {"length", "body"}) => AtBoundary)'
    <3>1. SUFFICES ASSUME \A u \in Reader : pc'[u] \notin {"length", "body"} PROVE AtBoundary'
      OBVIOUS
    <3>2. \A u \in Reader : pc[u] \notin {"length", "body"}
      BY <2>4, <3>1 DEF Reading
    <3>3. QED
      BY <2>1, <2>2, <3>2 DEF InFrame, AtBoundary, Continues
  <2>7. ASSUME NEW u \in Reader PROVE FramedOf(u)'
    <3>1. CASE pc'[u] \in {"length", "body"}
      <4>1. pc'[u] = pc[u] /\ len'[u] = len[u] /\ rem_len'[u] = rem_len[u]
        BY <3>1 DEF Reading
      <4>2. FramedOf(u)
        BY <2>1 DEF InFrame
      <4>3. QED
        BY <2>2, <4>1, <4>2 DEF FramedOf, Continues
    <3>2. CASE pc'[u] \notin {"length", "body"}
      BY <3>2 DEF FramedOf
    <3>3. QED
      BY <3>1, <3>2
  <2>8. QED
    BY <2>1, <2>3, <2>5, <2>6, <2>7 DEF Framed, InFrame
<1>3. QED
  BY <1>1, <1>2

\* The task that is alone between the first and the last byte of a packet.
LEMMA FramedOne ==
  ASSUME NEW t \in Reader, ~excused', PacketsFit(stream', closed'),
         \A u \in Reader \ {t} : pc'[u] \notin Reading,
         FramedOf(t)', pc'[t] \notin {"length", "body"} => AtBoundary'
  PROVE  Framed'
<1>1. \A u \in Reader \ {t} : FramedOf(u)'
  BY DEF FramedOf, Reading
<1>2. Alone'
  BY DEF Alone
<1>3. (\A u \in Reader : pc[u] \notin {"length", "body"})' => AtBoundary'
  OBVIOUS
<1>4. QED
  BY <1>1, <1>2, <1>3 DEF Framed, InFrame

LEMMA OthersQuiet ==
  ASSUME FramingInv, ~excused, NEW t \in Reader, pc[t] \in Reading, Read(t)
  PROVE  \A u \in Reader \ {t} : pc[u] \notin Reading /\ pc'[u] \notin Reading
<1>1. Alone
  BY DEF FramingInv, Framed, InFrame
<1>2. ASSUME NEW u \in Reader \ {t} PROVE pc[u] \notin Reading /\ pc'[u] \notin Reading
  <2>1. pc[u] \notin Reading
    BY <1>1 DEF Alone
  <2>2. pc'[u] = pc[u]
    BY OneMoves DEF Same
  <2>3. QED
    BY <2>1, <2>2
<1>3. QED
  BY <1>2

\* What is true of the stream ahead remains true as it grows or is cut off.
LEMMA FramedAhead ==
  ASSUME TypeOK, InFrame, ~excused', UNCHANGED <<pc, len, rem_len, current>>,
         PacketsFit(stream', closed'),
         \A d \in Seq(Byte), n \in Nat :
           Continues(stream, closed, 0, d, n) => Continues(stream', closed', 0, d, n)
  PROVE  Framed'
<1>1. << >> \in Seq(Byte) /\ 0 \in Nat
  BY EmptySeq
<1>2. AtBoundary => AtBoundary'
  BY <1>1 DEF AtBoundary
<1>3. ASSUME NEW t \in Reader PROVE FramedOf(t)'
  <2>1. FramedOf(t) /\ \A q \in Nat : Encode[q] \in Seq(Byte)
    BY EncodeIs DEF InFrame
  <2>2. current \in Packet => current[2] \in Nat
    BY LengthsAre
  <2>3. CASE pc[t] = "length"
    <3>1. PICK q \in Nat : /\ current[2] = rem_len[t] + Multiplier[len[t]] * q
                           /\ Continues(stream, closed, 0, Encode[q], current[2])
      BY <2>1, <2>3 DEF FramedOf
    <3>2. Continues(stream', closed', 0, Encode[q], current[2])
      BY <2>1, <2>2, <2>3, <3>1 DEF FramedOf
    <3>3. QED
      BY <2>1, <2>3, <3>1, <3>2 DEF FramedOf
  <2>4. CASE pc[t] # "length"
    BY <1>1, <2>1, <2>2, <2>4 DEF FramedOf
  <2>5. QED
    BY <2>3, <2>4
<1>4. QED
  BY <1>2, <1>3 DEF Framed, InFrame, Alone

LEMMA FramedBroker ==
  ASSUME FramingInv, BrokerSends
  PROVE  Framed'
<1>1. PICK p \in Packet : \E body \in [1..p[2] -> Payload] : stream' = stream \o Bytes(p, body)
  BY DEF BrokerSends
<1>2. PICK body \in [1..p[2] -> Payload] : stream' = stream \o Bytes(p, body)
  BY <1>1
<1>3. /\ closed = FALSE /\ UNCHANGED <<closed, pc, len, rem_len, current, out, excused>>
      /\ TypeOK /\ Framed
  BY DEF BrokerSends, FramingInv, TypeOK, readVars, histVars
<1>4. CASE excused
  BY <1>3, <1>4 DEF Framed
<1>5. CASE ~excused
  <2>1. InFrame
    BY <1>3, <1>5 DEF Framed
  <2>2. PICK s \in Seq(StreamByte), w \in Seq(StreamByte) :
          /\ s = stream /\ w = Bytes(p, body) /\ stream' = s \o w
          /\ Len(w) > 0 /\ w[1].packet # Inside
    <3>1. PICK w \in Seq(StreamByte) :
            /\ w = Bytes(p, body) /\ w[1].packet = p /\ Len(w) = 1 + Len(Encode[p[2]]) + p[2]
      BY BytesAre
    <3>2. Len(w) > 0 /\ w[1].packet # Inside
      <4>1. Len(Encode[p[2]]) \in Nat /\ p[2] \in Nat /\ p # Inside
        BY LengthsAre, NotInside
      <4>2. QED
        BY <3>1, <4>1
    <3>3. QED
      BY <1>2, <1>3, <3>1, <3>2 DEF TypeOK
  <2>3. PacketsFit(s \o w, FALSE)
    <3>1. PacketsFit(s, FALSE)
      BY <1>3, <2>1, <2>2 DEF InFrame
    <3>2. QED
      BY <2>2, <3>1, PacketsFitAppend
  <2>4. ASSUME NEW d \in Seq(Byte), NEW n \in Nat, Continues(stream, closed, 0, d, n)
        PROVE  Continues(stream', closed', 0, d, n)
    <3>1. Continues(s, FALSE, 0, d, n)
      BY <1>3, <2>2, <2>4
    <3>2. Continues(s \o w, FALSE, 0, d, n)
      BY <2>2, <3>1, ContinuesAppend
    <3>3. QED
      BY <1>3, <2>2, <3>2
  <2>5. PacketsFit(stream', closed')
    BY <1>3, <2>2, <2>3
  <2>6. QED
    BY <1>3, <1>5, <2>1, <2>4, <2>5, FramedAhead
<1>6. QED
  BY <1>4, <1>5

LEMMA FramedConnectionLost ==
  ASSUME FramingInv, ConnectionLost
  PROVE  Framed'
<1>1. PICK k \in 0..Len(stream) : stream' = SubSeq(stream, 1, k)
  BY DEF ConnectionLost
<1>2. /\ closed' = TRUE /\ UNCHANGED <<pc, len, rem_len, current, out, excused>>
      /\ TypeOK /\ Framed
  BY DEF ConnectionLost, FramingInv, readVars, histVars
<1>3. CASE excused
  BY <1>2, <1>3 DEF Framed
<1>4. CASE ~excused
  <2>1. InFrame
    BY <1>2, <1>4 DEF Framed
  <2>2. PICK s \in Seq(StreamByte), c \in {closed} : s = stream /\ c = closed /\ k \in 0..Len(s)
    BY <1>2 DEF TypeOK
  <2>3. PacketsFit(stream', closed')
    <3>1. PacketsFit(s, c)
      BY <2>1, <2>2 DEF InFrame
    <3>2. PacketsFit(SubSeq(s, 1, k), TRUE)
      BY <2>2, <3>1, PacketsFitFront
    <3>3. QED
      BY <1>1, <1>2, <2>2, <3>2
  <2>4. ASSUME NEW d \in Seq(Byte), NEW n \in Nat, Continues(stream, closed, 0, d, n)
        PROVE  Continues(stream', closed', 0, d, n)
    <3>1. Continues(s, c, 0, d, n)
      BY <2>2, <2>4
    <3>2. Continues(SubSeq(s, 1, k), TRUE, 0, d, n)
      BY <2>2, <3>1, ContinuesFront
    <3>3. QED
      BY <1>1, <1>2, <2>2, <3>2
  <2>5. QED
    BY <1>2, <1>4, <2>1, <2>3, <2>4, FramedAhead
<1>5. QED
  BY <1>3, <1>4

LEMMA FramedBegin ==
  ASSUME FramingInv, NEW t \in Reader, Begin(t)
  PROVE  Framed'
<1>1. /\ TypeOK /\ Framed /\ pc[t] = "idle" /\ UNCHANGED <<stream, closed, len, rem_len>>
      /\ History(current, out, excused \/ Midway(t) # {})
      /\ pc' = [pc EXCEPT ![t] = "header"]
  BY DEF FramingInv, Begin, GoTo, connVars
<1>2. CASE excused \/ Midway(t) # {}
  BY <1>1, <1>2, FramedLost
<1>3. CASE ~ (excused \/ Midway(t) # {})
  <2>1. ~excused /\ ~excused' /\ current' = current /\ InFrame
    BY <1>1, <1>3 DEF History, Framed
  <2>2. \A u \in Reader \ {t} : pc[u] \notin Reading /\ pc'[u] \notin Reading
    BY <1>1, <1>3 DEF Midway, TypeOK
  <2>3. pc'[t] = "header"
    BY <1>1 DEF TypeOK
  <2>4. \A u \in Reader : pc[u] \notin {"length", "body"}
    BY <1>1, <2>2 DEF Reading
  <2>5. PacketsFit(stream', closed') /\ AtBoundary'
    BY <1>1, <2>1, <2>4 DEF InFrame, AtBoundary
  <2>6. FramedOf(t)'
    BY <2>3 DEF FramedOf
  <2>7. QED
    BY <2>1, <2>2, <2>5, <2>6, FramedOne
<1>4. QED
  BY <1>2, <1>3

LEMMA FramedHeader ==
  ASSUME FramingInv, NEW t \in Reader, ReadHeader(t)
  PROVE  Framed'
<1>1. PICK n \in Recv(t, 1) :
        /\ Takes(t, n)
        /\ IF n = 1
             THEN /\ History(stream[1].packet, out, excused)
                  /\ GoTo(t, "length")
                  /\ UNCHANGED <<buflen, len, rem_len, value>>
             ELSE Return(t) /\ UNCHANGED histVars
  BY DEF ReadHeader
<1>2. /\ TypeOK /\ LocalsOf(t) /\ Framed /\ pc[t] = "header" /\ pc[t] \in Reading /\ Read(t)
      /\ excused \in BOOLEAN
  BY DEF FramingInv, Locals, ReadHeader, Read, Reading, TypeOK
<1>3. n \in 0..Len(stream)
  BY <1>2, RecvIs
<1>4. stream' = SubSeq(stream, n + 1, Len(stream)) /\ closed' = closed
  BY <1>1, <1>2, <1>3, TakesIs
<1>5. CASE excused
  <2>1. CASE n = 1
    BY <1>1, <1>2, <1>5, <2>1, FramedLost
  <2>2. CASE n # 1
    BY <1>1, <1>2, <1>5, <2>2 DEF Framed, histVars
  <2>3. QED
    BY <2>1, <2>2
<1>6. CASE ~excused
  <2>1. /\ current = NoPacket /\ PacketsFit(stream, closed)
        /\ Continues(stream, closed, 0, << >>, 0)
    BY <1>2, <1>6, HeaderRead
  <2>2. \A u \in Reader \ {t} : pc'[u] \notin Reading
    BY <1>2, <1>6, OthersQuiet
  <2>3. PICK s \in Seq(StreamByte), c \in {closed} : s = stream /\ c = closed
    BY <1>2 DEF TypeOK
  <2>4. PacketsFit(stream', closed')
    <3>1. PacketsFit(SubSeq(s, n + 1, Len(s)), c)
      BY <1>3, <2>1, <2>3, PacketsFitRest
    <3>2. QED
      BY <1>4, <2>3, <3>1
  <2>5. CASE n = 1
    <3>1. /\ ~excused' /\ current' = stream[1].packet /\ UNCHANGED <<len, rem_len>>
          /\ pc'[t] = "length"
      BY <1>1, <1>2, <1>6, <2>5 DEF History, GoTo, TypeOK
    <3>2. PICK p \in Packet :
            /\ p = stream[1].packet
            /\ Continues(stream', closed', 0, Encode[p[2]], p[2])
      BY <1>2, <1>3, <1>4, <1>6, <2>5, HeaderTaken
    <3>3. p[2] = rem_len[t] + Multiplier[len[t]] * p[2] /\ p[2] \in Nat
      <4>1. rem_len[t] = 0 /\ len[t] = 0 /\ Multiplier[0] = 1
        BY <1>2, MultiplierIs DEF LocalsOf
      <4>2. PICK l \in Nat : l = p[2]
        BY LengthsAre
      <4>3. l = 0 + 1 * l
        BY <4>2
      <4>4. QED
        BY <4>1, <4>2, <4>3
    <3>4. FramedOf(t)'
      BY <3>1, <3>2, <3>3 DEF FramedOf
    <3>5. QED
      BY <2>2, <2>4, <3>1, <3>4, FramedOne
  <2>6. CASE n # 1
    <3>1. n = 0
      <4>1. n <= 1
        BY <1>2, RecvIs
      <4>2. QED
        BY <1>3, <2>6, <4>1, LenProperties
    <3>2. /\ ~excused' /\ current' = current /\ pc'[t] = "idle" /\ stream' = stream
      <4>1. SubSeq(s, 0 + 1, Len(s)) = s
        BY NothingTaken
      <4>2. Return(t) /\ UNCHANGED histVars
        BY <1>1, <2>6
      <4>3. pc'[t] = "idle"
        BY <1>2, <4>2, ReturnIs
      <4>4. QED
        BY <1>4, <1>6, <2>3, <3>1, <4>1, <4>2, <4>3 DEF histVars
    <3>3. FramedOf(t)' /\ AtBoundary'
      BY <1>4, <2>1, <3>2 DEF FramedOf, AtBoundary
    <3>4. QED
      BY <2>2, <2>4, <3>2, <3>3, FramedOne
  <2>7. QED
    BY <2>5, <2>6
<1>7. QED
  BY <1>5, <1>6

LEMMA FramedDigit ==
  ASSUME FramingInv, NEW t \in Reader, DecodeDigit(t)
  PROVE  Framed'
<1>1. PICK n \in Recv(t, 1) :
        /\ Takes(t, n)
        /\ IF n = 1
             THEN /\ rem_len' = [rem_len EXCEPT ![t] = @ + (stream[1].byte % Base) * Multiplier[len[t]]]
                  /\ len' = [len EXCEPT ![t] = IF stream[1].byte >= Base THEN @ + 1 ELSE 0]
                  /\ GoTo(t, IF stream[1].byte >= Base THEN "length" ELSE "body")
                  /\ UNCHANGED histVars
             ELSE /\ len' = [len EXCEPT ![t] = 0]
                  /\ GoTo(t, "body")
                  /\ History(current, out, TRUE)
                  /\ UNCHANGED rem_len
  BY DEF DecodeDigit
<1>2. /\ TypeOK /\ Framed /\ pc[t] = "length" /\ pc[t] \in Reading /\ Read(t)
  BY DEF FramingInv, DecodeDigit, Read, Reading
<1>3. n \in 0..Len(stream)
  BY <1>2, RecvIs
<1>4. stream' = SubSeq(stream, n + 1, Len(stream)) /\ closed' = closed
  BY <1>1, <1>2, <1>3, TakesIs
<1>5. CASE n # 1
  BY <1>1, <1>5, FramedLost
<1>6. CASE n = 1 /\ excused
  BY <1>1, <1>2, <1>6 DEF Framed, histVars
<1>7. CASE n = 1 /\ ~excused
  <2>1. InFrame /\ ~excused' /\ current' = current
    BY <1>1, <1>2, <1>7 DEF Framed, histVars
  <2>2. \A u \in Reader \ {t} : pc'[u] \notin Reading
    BY <1>2, <1>7, OthersQuiet
  <2>3. PICK s \in Seq(StreamByte), c \in {closed} :
          s = stream /\ c = closed /\ 1 <= Len(s) /\ 1 \in 0..Len(s)
            /\ stream' = SubSeq(s, 1 + 1, Len(s)) /\ closed' = c
    <3>1. 1 <= Len(stream)
      BY <1>2, <1>3, <1>7, LenProperties DEF TypeOK
    <3>2. QED
      BY <1>2, <1>3, <1>4, <1>7, <3>1 DEF TypeOK
  <2>4. PacketsFit(stream', closed')
    <3>1. PacketsFit(s, c)
      BY <2>1, <2>3 DEF InFrame
    <3>2. PacketsFit(SubSeq(s, 1 + 1, Len(s)), c)
      BY <2>3, <3>1, PacketsFitRest
    <3>3. QED
      BY <2>3, <3>2
  <2>5. PICK r \in Nat, k \in Nat : r = rem_len[t] /\ k = len[t]
    BY <1>2, Numbers DEF TypeOK
  <2>6. PICK q \in Nat : /\ current \in Packet /\ current[2] \in Nat
                         /\ current[2] = r + Multiplier[k] * q
                         /\ Continues(s, c, 0, Encode[q], current[2])
    <3>1. FramedOf(t)
      BY <2>1 DEF InFrame
    <3>2. QED
      BY <1>2, <2>3, <2>5, <3>1, LengthsAre DEF FramedOf
  <2>7. PICK b : b = s[1].byte
    OBVIOUS
  <2>8. /\ b \in Byte /\ b % Base = q % Base /\ (b >= Base <=> q >= Base)
        /\ q < Base => Continues(stream', closed', 0, << >>, current[2])
        /\ q >= Base => Continues(stream', closed', 0, Encode[q \div Base], current[2])
    <3>1. PICK m \in Nat : m = current[2] /\ Continues(s, c, 0, Encode[q], m)
      BY <2>6
    <3>2. DigitGone(s, c, q, m)
      BY <2>3, <3>1, DigitRead
    <3>3. QED
      BY <2>3, <2>7, <3>1, <3>2 DEF DigitGone
  <2>9. /\ q < Base => current[2] = r + (q % Base) * Multiplier[k]
        /\ current[2] = (r + (q % Base) * Multiplier[k]) + Multiplier[k + 1] * (q \div Base)
    BY <2>6, DigitTaken
  <2>10. rem_len'[t] = r + (q % Base) * Multiplier[k]
    BY <1>1, <1>2, <1>7, <2>3, <2>5, <2>7, <2>8 DEF TypeOK
  <2>11. CASE q >= Base
    <3>1. pc'[t] = "length" /\ len'[t] = k + 1
      BY <1>1, <1>2, <1>7, <2>3, <2>5, <2>7, <2>8, <2>11 DEF GoTo, TypeOK
    <3>2. q \div Base \in Nat
      BY DivMod
    <3>3. FramedOf(t)'
      BY <2>1, <2>6, <2>8, <2>9, <2>10, <2>11, <3>1, <3>2 DEF FramedOf
    <3>4. QED
      BY <2>1, <2>2, <2>4, <3>1, <3>3, FramedOne
  <2>12. CASE ~(q >= Base)
    <3>1. pc'[t] = "body"
      BY <1>1, <1>2, <1>7, <2>3, <2>7, <2>8, <2>12 DEF GoTo, TypeOK
    <3>2. q < Base
      BY <2>12, Numbers
    <3>3. FramedOf(t)'
      BY <2>1, <2>6, <2>8, <2>9, <2>10, <3>1, <3>2 DEF FramedOf
    <3>4. QED
      BY <2>1, <2>2, <2>4, <3>1, <3>3, FramedOne
  <2>13. QED
    BY <2>11, <2>12
<1>8. QED
  BY <1>5, <1>6, <1>7

LEMMA FramedBody ==
  ASSUME FramingInv, NEW t \in Reader, ReadBody(t)
  PROVE  Framed'
<1>1. PICK n \in IF rem_len[t] = 0 THEN {0} ELSE Recv(t, rem_len[t]) :
        /\ Takes(t, n)
        /\ IF n = rem_len[t]
             THEN /\ GoTo(t, "parse")
                  /\ History(NoPacket, <<current[1], rem_len[t]>>, excused)
             ELSE Return(t) /\ History(current, out, TRUE)
  BY DEF ReadBody
<1>2. /\ TypeOK /\ Framed /\ pc[t] = "body" /\ pc[t] \in Reading /\ Read(t)
      /\ excused \in BOOLEAN /\ rem_len[t] \in Nat
  <2>1. TypeOK /\ Framed /\ pc[t] = "body" /\ pc[t] \in Reading
    BY DEF FramingInv, ReadBody, Reading
  <2>2. excused \in BOOLEAN /\ rem_len[t] \in Nat
    BY <2>1, Numbers DEF TypeOK
  <2>3. QED
    BY <2>1, <2>2 DEF Read
<1>3. n \in 0..Len(stream)
  <2>1. Len(stream) \in Nat
    BY <1>2, LenProperties DEF TypeOK
  <2>2. QED
    BY <1>2, <2>1, RecvIs
<1>4. stream' = SubSeq(stream, n + 1, Len(stream)) /\ closed' = closed
  BY <1>1, <1>2, <1>3, TakesIs
<1>5. CASE n # rem_len[t]
  BY <1>1, <1>5, FramedLost
<1>6. CASE n = rem_len[t] /\ excused
  BY <1>1, <1>2, <1>6, FramedLost
<1>7. CASE n = rem_len[t] /\ ~excused
  <2>1. InFrame /\ ~excused' /\ current' = NoPacket /\ pc'[t] = "parse"
    BY <1>1, <1>2, <1>7 DEF Framed, History, GoTo, TypeOK
  <2>2. \A u \in Reader \ {t} : pc'[u] \notin Reading
    BY <1>2, <1>7, OthersQuiet
  <2>3. PICK s \in Seq(StreamByte), c \in {closed} :
          s = stream /\ c = closed /\ n \in 0..Len(s)
            /\ stream' = SubSeq(s, n + 1, Len(s)) /\ closed' = c
    BY <1>2, <1>3, <1>4 DEF TypeOK
  <2>4. PacketsFit(stream', closed')
    <3>1. PacketsFit(s, c)
      BY <2>1, <2>3 DEF InFrame
    <3>2. PacketsFit(SubSeq(s, n + 1, Len(s)), c)
      BY <2>3, <3>1, PacketsFitRest
    <3>3. QED
      BY <2>3, <3>2
  <2>5. Continues(s, c, 0, << >>, n)
    <3>1. FramedOf(t)
      BY <2>1 DEF InFrame
    <3>2. QED
      BY <1>2, <1>7, <2>3, <3>1 DEF FramedOf
  <2>6. Continues(stream', closed', 0, << >>, 0)
    BY <2>3, <2>5, BodyRead
  <2>7. FramedOf(t)' /\ AtBoundary'
    BY <2>1, <2>6 DEF FramedOf, AtBoundary
  <2>8. QED
    BY <2>1, <2>2, <2>4, <2>7, FramedOne
<1>8. QED
  BY <1>5, <1>6, <1>7

LEMMA FramedReopen ==
  ASSUME FramingInv, NEW t \in Reader, Reopen(t)
  PROVE  Framed'
<1>1. /\ stream' = << >> /\ closed' = FALSE /\ UNCHANGED pc /\ pc[t] = "idle"
      /\ History(NoPacket, NoPacket, Midway(t) # {})
  BY DEF Reopen
<1>2. CASE Midway(t) # {}
  BY <1>1, <1>2, FramedLost
<1>3. CASE Midway(t) = {}
  <2>1. ~excused' /\ current' = NoPacket
    BY <1>1, <1>3 DEF History
  <2>2. \A u \in Reader \ {t} : pc'[u] \notin Reading
    BY <1>1, <1>3 DEF Midway
  <2>3. PacketsFit(<< >>, FALSE) /\ Continues(<< >>, FALSE, 0, << >>, 0)
    BY DEF PacketsFit, Continues
  <2>4. PacketsFit(stream', closed') /\ AtBoundary' /\ FramedOf(t)'
    BY <1>1, <2>1, <2>3 DEF AtBoundary, FramedOf
  <2>5. QED
    BY <2>1, <2>2, <2>4, FramedOne
<1>4. QED
  BY <1>2, <1>3

LEMMA FramedNext ==
  ASSUME FramingInv, [Next]_vars
  PROVE  Framed'
<1>1. ASSUME NEW t \in Reader, TooManyDigits(t) \/ TooLong(t) PROVE Framed'
  BY <1>1, FramedLost DEF TooManyDigits, TooLong
<1>2. ASSUME NEW t \in Reader, StartDecodeBuf(t) \/ DecodeBufDigit(t) \/ Handle(t) PROVE Framed'
  <2>1. pc[t] \notin Reading /\ pc'[t] \notin Reading
    BY <1>2 DEF FramingInv, TypeOK, StartDecodeBuf, DecodeBufDigit, Handle, Return, GoTo, Reading
  <2>2. \A u \in Reader \ {t} :
          pc'[u] = pc[u] /\ len'[u] = len[u] /\ rem_len'[u] = rem_len[u]
    BY <1>2, OneMoves DEF Read, Same
  <2>3. UNCHANGED <<stream, closed, histVars>>
    BY <1>2 DEF StartDecodeBuf, DecodeBufDigit, Handle, connVars
  <2>4. QED
    BY <2>1, <2>2, <2>3, FramedKept DEF FramingInv
<1>3. CASE UNCHANGED vars
  BY <1>3, FramedKept DEF FramingInv, vars, connVars, readVars
<1>4. QED
  BY <1>1, <1>2, <1>3, FramedBroker, FramedConnectionLost, FramedBegin, FramedHeader, FramedDigit,
     FramedBody, FramedReopen DEF Next, Read

-----------------------------------------------------------------------------
\* The length in the buffer.

LEMMA UncrossedInit == Init => Uncrossed
  BY DEF Init, Uncrossed, UncrossedOf

LEMMA UncrossedKept ==
  ASSUME NEW u \in Reader, UncrossedOf(u), bufptr' = bufptr, u \notin crossed' => u \notin crossed,
         Parsing' = Parsing,
         pc'[u] \in {"digit", "handle"} =>
           pc'[u] = pc[u] /\ len'[u] = len[u] /\ rem_len'[u] = rem_len[u] /\ value'[u] = value[u]
  PROVE  UncrossedOf(u)'
  BY DEF UncrossedOf

\* Outside decodeBuf.
LEMMA UncrossedOutside ==
  ASSUME FramingInv, UNCHANGED parseVars,
         \A u \in Reader : pc[u] \in {"digit", "handle"} \/ pc'[u] \in {"digit", "handle"} =>
           pc'[u] = pc[u] /\ len'[u] = len[u] /\ rem_len'[u] = rem_len[u] /\ value'[u] = value[u]
  PROVE  Uncrossed'
<1>1. Parsing' = Parsing /\ bufptr' = bufptr /\ crossed' = crossed
  BY DEF Parsing, parseVars
<1>2. ASSUME NEW u \in Reader PROVE UncrossedOf(u)'
  BY <1>1, UncrossedKept DEF FramingInv, Uncrossed
<1>3. QED
  BY <1>2 DEF Uncrossed

LEMMA UncrossedStart ==
  ASSUME FramingInv, NEW t \in Reader, StartDecodeBuf(t)
  PROVE  Uncrossed'
<1>1. /\ TypeOK /\ LocalsOf(t) /\ Uncrossed /\ pc[t] = "parse"
      /\ bufptr' = <<t, 1>> /\ UNCHANGED <<len, rem_len, value>>
      /\ crossed' = IF Parsing = {} THEN crossed \ {t} ELSE crossed \cup Parsing \cup {t}
      /\ pc' = [pc EXCEPT ![t] = "digit"]
  BY DEF FramingInv, Locals, StartDecodeBuf, GoTo, readVars
<1>2. len[t] = 0 /\ value[t] = 0 /\ rem_len[t] \in Nat
  BY <1>1, Numbers DEF LocalsOf, TypeOK
<1>3. pc'[t] = "digit" /\ \A u \in Reader \ {t} : pc'[u] = pc[u]
  BY <1>1 DEF TypeOK
<1>4. UncrossedOf(t)'
  <2>1. ASSUME t \notin crossed'
        PROVE  /\ rem_len[t] = value[t] + Multiplier[len[t]] * rem_len[t]
               /\ Len(Encode[rem_len[t]]) = len[t] + Len(Encode[rem_len[t]])
               /\ \A j \in 1..Len(Encode[rem_len[t]]) :
                    Encode[rem_len[t]][len[t] + j] = Encode[rem_len[t]][j]
    <3>1. PICK r \in Nat : r = rem_len[t]
      BY <1>2
    <3>2. Len(Encode[r]) \in Nat
      BY FirstDigit
    <3>3. Multiplier[0] = 1 /\ r = 0 + 1 * r
      BY <3>1, MultiplierIs
    <3>4. /\ Len(Encode[r]) = 0 + Len(Encode[r])
          /\ \A j \in 1..Len(Encode[r]) : 0 + j = j
      BY <3>2
    <3>5. \A j \in 1..Len(Encode[r]) : Encode[r][0 + j] = Encode[r][j]
      BY <3>4
    <3>6. QED
      BY <1>2, <3>1, <3>3, <3>4, <3>5
  <2>2. Parsing' # {t} => t \in crossed'
    <3>1. SUFFICES ASSUME Parsing = {} PROVE Parsing' = {t}
      BY <1>1
    <3>2. \A u \in Reader \ {t} : pc'[u] # "digit"
      BY <1>3, <3>1 DEF Parsing
    <3>3. QED
      BY <1>3, <3>2 DEF Parsing
  <2>3. bufptr' = <<t, len[t] + 1>>
    BY <1>1, <1>2
  <2>4. t \notin crossed' =>
          \E q \in Nat :
            /\ rem_len[t] = value[t] + Multiplier[len[t]] * q
            /\ len[t] > 0 => q > 0
            /\ Len(Encode[rem_len[t]]) = len[t] + Len(Encode[q])
            /\ \A j \in 1..Len(Encode[q]) : Encode[rem_len[t]][len[t] + j] = Encode[q][j]
    BY <1>2, <2>1
  <2>5. QED
    BY <1>1, <1>3, <2>2, <2>3, <2>4 DEF UncrossedOf
<1>5. ASSUME NEW u \in Reader \ {t} PROVE UncrossedOf(u)'
  <2>1. CASE pc[u] = "digit"
    <3>1. u \in Parsing
      BY <2>1 DEF Parsing
    <3>2. u \in crossed' /\ pc'[u] = "digit"
      BY <1>1, <1>3, <2>1, <3>1
    <3>3. QED
      BY <3>2 DEF UncrossedOf
  <2>2. CASE pc[u] # "digit"
    <3>1. u \notin crossed' => u \notin crossed
      BY <1>1
    <3>2. pc'[u] = pc[u] /\ UncrossedOf(u)
      BY <1>1, <1>3 DEF Uncrossed
    <3>3. QED
      BY <1>1, <2>2, <3>1, <3>2 DEF UncrossedOf
  <2>3. QED
    BY <2>1, <2>2
<1>6. QED
  BY <1>4, <1>5 DEF Uncrossed

LEMMA UncrossedHandle ==
  ASSUME FramingInv, NEW t \in Reader, Handle(t)
  PROVE  Uncrossed'
<1>1. /\ TypeOK /\ Uncrossed /\ pc[t] = "handle" /\ crossed' = crossed \ {t} /\ bufptr' = bufptr
      /\ Return(t)
  BY DEF FramingInv, Handle
<1>2. pc'[t] = "idle" /\ \A u \in Reader \ {t} : Same(u)
  BY <1>1, ReturnIs
<1>3. Parsing' = Parsing
  BY <1>1, <1>2 DEF Parsing, Same
<1>4. ASSUME NEW u \in Reader PROVE UncrossedOf(u)'
  <2>1. CASE u = t
    BY <1>2, <2>1 DEF UncrossedOf
  <2>2. CASE u # t
    <3>1. UncrossedOf(u) /\ Same(u) /\ (u \notin crossed' => u \notin crossed)
      BY <1>1, <1>2, <2>2 DEF Uncrossed
    <3>2. QED
      BY <1>1, <1>3, <3>1, UncrossedKept DEF Same
  <2>3. QED
    BY <2>1, <2>2
<1>5. QED
  BY <1>4 DEF Uncrossed

LEMMA UncrossedDigit ==
  ASSUME FramingInv, NEW t \in Reader, DecodeBufDigit(t)
  PROVE  Uncrossed'
<1>1. /\ TypeOK /\ LocalsOf(t) /\ Uncrossed /\ UncrossedOf(t) /\ pc[t] = "digit"
      /\ UNCHANGED <<rem_len, crossed>> /\ t \in Parsing
  BY DEF FramingInv, Locals, Uncrossed, DecodeBufDigit, Parsing
<1>2. ASSUME NEW u \in Reader \ {t} PROVE UncrossedOf(u)'
  <2>1. Same(u) /\ UncrossedOf(u)
    BY <1>1, OneMoves DEF Read, Uncrossed
  <2>2. CASE pc[u] = "digit"
    <3>1. Parsing # {u}
      BY <1>1
    <3>2. u \in crossed'
      BY <1>1, <2>1, <2>2, <3>1 DEF UncrossedOf
    <3>3. pc'[u] = "digit"
      BY <2>1, <2>2 DEF Same
    <3>4. QED
      BY <3>2, <3>3 DEF UncrossedOf
  <2>3. CASE pc[u] # "digit"
    BY <1>1, <2>1, <2>3 DEF UncrossedOf, Same
  <2>4. QED
    BY <2>2, <2>3
<1>3. PICK k \in Nat, v \in Nat, r \in 0..MaxRemLen :
        k = len[t] /\ v = value[t] /\ r = rem_len[t] /\ k <= MaxDigits
  BY <1>1, Numbers DEF TypeOK
<1>4. pc'[t] \in {"digit", "handle"}
  BY <1>1 DEF DecodeBufDigit, GoTo, TypeOK
<1>5. CASE t \in crossed
  <2>1. t \in crossed'
    BY <1>1, <1>5
  <2>2. UncrossedOf(t)'
    BY <2>1 DEF UncrossedOf
  <2>3. QED
    BY <1>2, <2>2 DEF Uncrossed
<1>6. CASE t \notin crossed
  <2>1. PICK q \in Nat : /\ r = v + Multiplier[k] * q
                         /\ k > 0 => q > 0
                         /\ Len(Encode[r]) = k + Len(Encode[q])
                         /\ \A j \in 1..Len(Encode[q]) : Encode[r][k + j] = Encode[q][j]
    BY <1>1, <1>3, <1>6 DEF UncrossedOf
  <2>2. bufptr = <<t, k + 1>> /\ Parsing = {t}
    BY <1>1, <1>3, <1>6 DEF UncrossedOf
  <2>3. k < MaxDigits
    <3>1. SUFFICES ASSUME k = MaxDigits PROVE FALSE
      BY <1>3, Numbers
    <3>2. q > 0 /\ Multiplier[k] = MaxRemLen + 1
      BY <2>1, <3>1, Numbers
    <3>3. PICK m \in Nat : m = MaxRemLen + 1 /\ m = Multiplier[k]
      BY <3>2, Numbers
    <3>4. m * q >= m
      BY <3>2
    <3>5. r = v + m * q /\ r < m
      BY <1>3, <2>1, <3>3, Numbers
    <3>6. m * q \in Nat
      OBVIOUS
    <3>7. QED
      BY <3>4, <3>5, <3>6
  <2>4. PICK c \in BufChar :
          /\ bufptr' = IF c < Base /\ Parsing = {t} THEN << >> ELSE <<bufptr[1], bufptr[2] + 1>>
          /\ value' = [value EXCEPT ![t] = @ + (c % Base) * Multiplier[len[t]]]
          /\ len' = [len EXCEPT ![t] = IF c >= Base THEN @ + 1 ELSE 0]
          /\ GoTo(t, IF c >= Base THEN "digit" ELSE "handle")
    BY <1>3, <2>3, Numbers DEF DecodeBufDigit
  <2>5. c = Encode[q][1]
    <3>1. PICK l \in Nat : l = Len(Encode[q]) /\ l >= 1
      BY FirstDigit
    <3>2. 1 \in 1..l /\ k + 1 \in 1..k + l
      BY <3>1
    <3>3. k + 1 \in DOMAIN Encode[r]
      <4>1. Encode[r] \in Seq(Byte)
        <5>1. r \in Nat
          BY <1>3, Numbers
        <5>2. QED
          BY <5>1, EncodeIs
      <4>2. DOMAIN Encode[r] = 1..k + l
        BY <2>1, <3>1, <4>1, LenProperties
      <4>3. QED
        BY <3>2, <4>2
    <3>4. Encode[r][k + 1] = Encode[q][1]
      BY <2>1, <3>1, <3>2
    <3>5. bufptr[1] = t /\ bufptr[2] = k + 1
      BY <2>2
    <3>6. BufChar = {Encode[r][k + 1]}
      BY <1>3, <3>3, <3>5 DEF BufChar
    <3>7. QED
      BY <3>4, <3>6
  <2>6. PICK x \in Nat, b \in Nat : x = q % Base /\ b = q \div Base
    <3>1. q % Base \in Nat
      BY DivMod, Numbers
    <3>2. q \div Base \in Nat
      BY DivMod
    <3>3. QED
      BY <3>1, <3>2
  <2>7. c % Base = x /\ (c >= Base <=> q >= Base)
    BY <2>5, <2>6, DigitValue
  <2>8. /\ q < Base => r = v + x * Multiplier[k]
        /\ r = (v + x * Multiplier[k]) + Multiplier[k + 1] * b
    <3>1. /\ q < Base => v + Multiplier[k] * q = v + (q % Base) * Multiplier[k]
          /\ v + Multiplier[k] * q
               = (v + (q % Base) * Multiplier[k]) + Multiplier[k + 1] * (q \div Base)
      BY <1>3, DigitTaken
    <3>2. QED
      BY <2>1, <2>6, <3>1
  <2>9. value'[t] = v + x * Multiplier[k]
    BY <1>1, <1>3, <2>4, <2>7 DEF TypeOK
  <2>10. CASE q >= Base
    <3>1. pc'[t] = "digit" /\ len'[t] = k + 1
      BY <1>1, <1>3, <2>4, <2>7, <2>10 DEF TypeOK, GoTo
    <3>2. bufptr' = <<t, len'[t] + 1>>
      <4>1. ~(c < Base)
        <5>1. c \in Byte /\ c >= Base
          BY <2>5, <2>7, <2>10, FirstDigit
        <5>2. QED
          BY <5>1, Numbers DEF Byte
      <4>2. bufptr[1] = t /\ bufptr[2] = k + 1
        BY <2>2
      <4>3. QED
        BY <2>4, <3>1, <4>1, <4>2
    <3>3. b >= 1 /\ Len(Encode[q]) = 1 + Len(Encode[b])
            /\ \A j \in 1..Len(Encode[b]) : Encode[q][1 + j] = Encode[b][j]
      <4>1. q \div Base >= 1
        BY <2>10, DivMod
      <4>2. QED
        BY <2>6, <2>10, <4>1, FirstDigit
    <3>4. PICK l \in Nat : l = Len(Encode[b])
      BY FirstDigit
    <3>5. Len(Encode[r]) = (k + 1) + l
      <4>1. Len(Encode[r]) = k + (1 + l)
        BY <2>1, <3>3, <3>4
      <4>2. k + (1 + l) = (k + 1) + l
        BY <1>3, <3>4
      <4>3. QED
        BY <4>1, <4>2
    <3>6. ASSUME NEW j \in 1..l PROVE Encode[r][(k + 1) + j] = Encode[b][j]
      <4>1. 1 + j \in 1..Len(Encode[q]) /\ k + (1 + j) = (k + 1) + j
        BY <3>3, <3>4
      <4>2. Encode[r][k + (1 + j)] = Encode[q][1 + j] /\ Encode[q][1 + j] = Encode[b][j]
        BY <2>1, <3>3, <3>4, <4>1
      <4>3. QED
        BY <4>1, <4>2
    <3>7. Parsing' = Parsing
      <4>1. \A u \in Reader \ {t} : pc'[u] = pc[u]
        BY OneMoves DEF Read, Same
      <4>2. QED
        BY <1>1, <3>1, <4>1 DEF Parsing
    <3>8. UncrossedOf(t)'
      BY <1>1, <1>3, <2>2, <2>8, <2>9, <3>1, <3>2, <3>3, <3>4, <3>5, <3>6, <3>7 DEF UncrossedOf
    <3>9. QED
      BY <1>2, <3>8 DEF Uncrossed
  <2>11. CASE ~(q >= Base)
    <3>1. pc'[t] = "handle"
      BY <1>1, <2>4, <2>7, <2>11 DEF TypeOK, GoTo
    <3>2. q < Base
      BY <2>11, Numbers
    <3>3. value'[t] = rem_len'[t]
      BY <1>1, <1>3, <2>8, <2>9, <3>2
    <3>4. UncrossedOf(t)'
      BY <3>1, <3>3 DEF UncrossedOf
    <3>5. QED
      BY <1>2, <3>4 DEF Uncrossed
  <2>12. QED
    BY <2>10, <2>11
<1>7. QED
  BY <1>5, <1>6

LEMMA UncrossedNext ==
  ASSUME FramingInv, [Next]_vars
  PROVE  Uncrossed'
<1>1. ASSUME NEW t \in Reader,
             \/ Begin(t) \/ ReadHeader(t) \/ DecodeDigit(t) \/ TooManyDigits(t) \/ TooLong(t)
             \/ ReadBody(t)
      PROVE  Uncrossed'
  <2>1. pc[t] \notin {"digit", "handle"} /\ pc'[t] \notin {"digit", "handle"} /\ UNCHANGED parseVars
    BY <1>1 DEF FramingInv, TypeOK, Begin, ReadHeader, DecodeDigit, TooManyDigits, TooLong, ReadBody,
                Return, GoTo
  <2>2. \A u \in Reader \ {t} : Same(u)
    BY <1>1, OneMoves DEF Read
  <2>3. QED
    BY <2>1, <2>2, UncrossedOutside DEF Same
<1>2. CASE BrokerSends \/ ConnectionLost \/ (\E t \in Reader : Reopen(t)) \/ UNCHANGED vars
  <2>1. UNCHANGED <<pc, readVars, parseVars>>
    BY <1>2 DEF BrokerSends, ConnectionLost, Reopen, vars
  <2>2. QED
    BY <2>1, UncrossedOutside DEF readVars
<1>3. QED
  BY <1>1, <1>2, UncrossedStart, UncrossedHandle, UncrossedDigit DEF Next, Read

-----------------------------------------------------------------------------
(* The theorems. *)

LEMMA FramingInvInit == Init => FramingInv
  BY TypeInit, LocalsInit, FramedInit, UncrossedInit DEF FramingInv

LEMMA FramingInvNext == FramingInv /\ [Next]_vars => FramingInv'
  BY TypeNext, LocalsNext, FramedNext, UncrossedNext DEF FramingInv

LEMMA FramingInvAlways == Spec => []FramingInv
  BY FramingInvInit, FramingInvNext, PTL DEF Spec

\* Type correctness of the stream, of the readers' locals and of the pointer they share: a
\* length read from the connection stays below what MaxDigits digits can count, wherever
\* in a packet the read began (MQTTPacket_decode).
THEOREM FramingTyping == Spec => []TypeOK
<1>1. FramingInv => TypeOK
  BY DEF FramingInv
<1>2. QED
  BY <1>1, FramingInvAlways, PTL

\* MQTTPacket_read never writes past the buffer: a length below 2^28 has at most four
\* digits, and every buffer has room for them.
THEOREM BufferHoldsTheorem == Spec => []BufferHolds
<1>1. FramingInv => BufferHolds
  <2>1. SUFFICES ASSUME FramingInv, NEW t \in Reader
                 PROVE  /\ pc[t] = "body" => 1 + Len(Encode[rem_len[t]]) <= buflen[t]
                        /\ pc[t] \in {"parse", "digit", "handle"} => Fits(t)
    BY DEF BufferHolds, Fits
  <2>2. LocalsOf(t) /\ rem_len[t] \in 0..MaxRemLen /\ buflen[t] \in Nat
    <3>1. LocalsOf(t)
      BY <2>1 DEF FramingInv, Locals
    <3>2. rem_len[t] \in 0..MaxRemLen
      BY <2>1 DEF FramingInv, TypeOK
    <3>3. buflen[t] \in {0} \cup UNION {BufLen[u] : u \in Reader}
      BY <2>1 DEF FramingInv, TypeOK
    <3>4. \A u \in Reader : \A n \in BufLen[u] : n \in Nat
      BY FramingAssumption
    <3>5. buflen[t] \in Nat
      BY <3>3, <3>4
    <3>6. QED
      BY <3>1, <3>2, <3>5
  <2>3. PICK l \in Nat : l = Len(Encode[rem_len[t]]) /\ l <= MaxDigits
    <3>1. rem_len[t] \in Nat
      BY <2>2, Numbers
    <3>2. Len(Encode[rem_len[t]]) \in Nat
      BY <3>1, FirstDigit
    <3>3. QED
      BY <2>2, <3>2, EncodeLength
  <2>4. pc[t] = "body" => 1 + l <= buflen[t]
    BY <2>2, <2>3, Numbers DEF LocalsOf
  <2>5. QED
    BY <2>2, <2>3, <2>4 DEF LocalsOf
<1>2. QED
  BY <1>1, FramingInvAlways, PTL

\* MQTTPacket_decodeBuf finds in the buffer the length that MQTTPacket_read had got from
\* the connection and encoded anew, unless another task moved bufptr.
THEOREM LengthSurvivesTheorem == Spec => []LengthSurvives
<1>1. FramingInv => LengthSurvives
  BY DEF FramingInv, Uncrossed, UncrossedOf, LengthSurvives
<1>2. QED
  BY <1>1, FramingInvAlways, PTL

-----------------------------------------------------------------------------
\* The packets that have been sent and not read, as PacketStream sees them.

Front == IF current = NoPacket THEN << >> ELSE <<current>>
Queue == IF excused THEN << >> ELSE Front \o PacketsIn[stream]

LEMMA FrontOfConcat ==
  ASSUME NEW x \in Seq(Packet), NEW y \in Seq(Packet)
  PROVE  Len(x) \in 0..Len(x \o y) /\ SubSeq(x \o y, 1, Len(x)) = x
<1>1. PICK z : z = x \o y
  OBVIOUS
<1>2. /\ z \in Seq(Packet) /\ Len(x) \in Nat /\ Len(y) \in Nat /\ Len(z) = Len(x) + Len(y)
      /\ \A i \in 1..Len(x) : z[i] = x[i]
  BY <1>1, ConcatIs
<1>3. PICK k \in Nat : k = Len(x) /\ k <= Len(z)
  BY <1>2
<1>4. \A i \in 1..k : z[i] \in Packet
  BY <1>2, <1>3, ElementOfSeq
<1>5. /\ SubSeq(z, 1, k) \in Seq(Packet)
      /\ Len(SubSeq(z, 1, k)) = IF 1 <= k THEN k - 1 + 1 ELSE 0
      /\ \A i \in 1..k - 1 + 1 : SubSeq(z, 1, k)[i] = z[1 + i - 1]
  BY <1>4, SubSeqProperties
<1>6. Len(SubSeq(z, 1, k)) = k
  BY <1>5
<1>7. ASSUME NEW i \in 1..k PROVE SubSeq(z, 1, k)[i] = x[i]
  <2>1. i \in 1..k - 1 + 1 /\ 1 + i - 1 = i
    OBVIOUS
  <2>2. QED
    BY <1>2, <1>3, <1>5, <2>1
<1>8. SubSeq(z, 1, k) = x
  BY <1>3, <1>5, <1>6, <1>7, SeqEqual
<1>9. QED
  BY <1>1, <1>2, <1>3, <1>8

LEMMA QueueParts ==
  ASSUME FramingInv
  PROVE  /\ stream \in Seq(StreamByte)
         /\ Front \in Seq(Packet) /\ PacketsIn[stream] \in Seq(Packet)
         /\ Queue \in Seq(Packet)
<1>1. stream \in Seq(StreamByte) /\ current \in Packet \cup {NoPacket}
  BY DEF FramingInv, TypeOK
<1>2. PICK a \in Seq(Packet), b \in Seq(Packet) : a = Front /\ b = PacketsIn[stream]
  <2>1. Front \in Seq(Packet)
    BY <1>1, EmptySeq DEF Front
  <2>2. QED
    BY <1>1, <2>1, PacketsInIs
<1>3. a \o b \in Seq(Packet)
  BY ConcatIs
<1>4. QED
  BY <1>1, <1>2, <1>3, EmptySeq DEF Queue

LEMMA SendPuts ==
  ASSUME FramingInv, BrokerSends, ~excused
  PROVE  \E p \in Packet : Queue' = Append(Queue, p)
<1>1. PICK p \in Packet : \E body \in [1..p[2] -> Payload] : stream' = stream \o Bytes(p, body)
  BY DEF BrokerSends
<1>2. PICK body \in [1..p[2] -> Payload] : stream' = stream \o Bytes(p, body)
  BY <1>1
<1>3. UNCHANGED <<current, excused>>
  BY DEF BrokerSends, histVars
<1>4. PICK s \in Seq(StreamByte), w \in Seq(StreamByte) : s = stream /\ w = Bytes(p, body)
  BY QueueParts, BytesAre
<1>5. PICK a \in Seq(Packet), b \in Seq(Packet) : a = Front /\ b = PacketsIn[stream]
  BY QueueParts
<1>6. PacketsIn[stream'] = b \o <<p>>
  <2>1. PacketsIn[w] = <<p>>
    BY <1>4, PacketMade
  <2>2. PacketsIn[s \o w] = PacketsIn[s] \o PacketsIn[w]
    BY PacketsInConcat
  <2>3. QED
    BY <1>2, <1>4, <1>5, <2>1, <2>2
<1>7. <<p>> \in Seq(Packet)
  OBVIOUS
<1>8. a \o (b \o <<p>>) = (a \o b) \o <<p>>
  BY <1>7, Associative
<1>9. (a \o b) \o <<p>> = Append(a \o b, p)
  <2>1. a \o b \in Seq(Packet)
    BY ConcatIs
  <2>2. QED
    BY <2>1, AppendIsConcat
<1>10. Queue = a \o b /\ Queue' = a \o (b \o <<p>>)
  BY <1>3, <1>5, <1>6 DEF Queue, Front
<1>11. QED
  BY <1>7, <1>8, <1>9, <1>10

LEMMA LossDrops ==
  ASSUME FramingInv, ConnectionLost, ~excused
  PROVE  \E n \in 0..Len(Queue) : Queue' = SubSeq(Queue, 1, n)
<1>1. PICK k \in 0..Len(stream) : stream' = SubSeq(stream, 1, k)
  BY DEF ConnectionLost
<1>2. UNCHANGED <<current, excused>>
  BY DEF ConnectionLost, histVars
<1>3. PICK s \in Seq(StreamByte) : s = stream
  BY QueueParts
<1>4. PICK u \in Seq(StreamByte), v \in Seq(StreamByte) :
        /\ u = SubSeq(s, 1, k) /\ v = SubSeq(s, k + 1, Len(s))
        /\ PacketsIn[s] = PacketsIn[u] \o PacketsIn[v]
  BY <1>1, <1>3, PacketsInSplit
<1>5. PICK a \in Seq(Packet), b \in Seq(Packet), c \in Seq(Packet) :
        a = Front /\ b = PacketsIn[u] /\ c = PacketsIn[v]
  BY QueueParts, PacketsInIs
<1>6. PICK x \in Seq(Packet) : x = a \o b
  BY ConcatIs
<1>7. a \o (b \o c) = x \o c
  BY <1>6, Associative
<1>8. Queue = x \o c /\ Queue' = x
  BY <1>1, <1>2, <1>3, <1>4, <1>5, <1>6, <1>7 DEF Queue, Front
<1>9. Len(x) \in 0..Len(x \o c) /\ SubSeq(x \o c, 1, Len(x)) = x
  BY FrontOfConcat
<1>10. QED
  BY <1>8, <1>9

LEMMA HeaderStutters ==
  ASSUME FramingInv, NEW t \in Reader, ReadHeader(t)
  PROVE  UNCHANGED <<Queue, out, excused>>
<1>1. PICK n \in Recv(t, 1) :
        /\ Takes(t, n)
        /\ IF n = 1
             THEN History(stream[1].packet, out, excused)
             ELSE UNCHANGED histVars
  BY DEF ReadHeader
<1>2. /\ TypeOK /\ Framed /\ pc[t] = "header" /\ excused \in BOOLEAN
  BY DEF FramingInv, ReadHeader, TypeOK
<1>3. n \in 0..Len(stream) /\ n <= 1
  BY <1>2, RecvIs
<1>4. stream' = SubSeq(stream, n + 1, Len(stream))
  BY <1>1, <1>2, <1>3, TakesIs
<1>5. CASE excused
  BY <1>1, <1>2, <1>5 DEF Framed, History, histVars, Queue
<1>6. CASE ~excused /\ n = 1
  <2>1. excused' = excused /\ current' = stream[1].packet /\ out' = out
    BY <1>1, <1>6 DEF History
  <2>2. current = NoPacket
    BY <1>2, <1>6, HeaderRead
  <2>3. PICK p \in Packet :
          p = stream[1].packet /\ PacketsIn[stream] = <<p>> \o PacketsIn[stream']
    BY <1>2, <1>3, <1>4, <1>6, HeaderTaken
  <2>4. << >> \o PacketsIn[stream] = PacketsIn[stream]
    BY QueueParts, ConcatEmptySeq
  <2>5. p # NoPacket
    BY NotInside
  <2>6. QED
    BY <1>6, <2>1, <2>2, <2>3, <2>4, <2>5 DEF Queue, Front
<1>7. CASE n # 1
  <2>1. n = 0
    BY <1>3, <1>7, QueueParts, LenProperties
  <2>2. PICK s \in Seq(StreamByte) : s = stream
    BY QueueParts
  <2>3. stream' = stream
    BY <1>4, <2>1, <2>2, NothingTaken
  <2>4. QED
    BY <1>1, <1>7, <2>3 DEF Queue, Front, histVars
<1>8. QED
  BY <1>5, <1>6, <1>7

\* A step by which framing is lost.
LEMMA HistoryLoses ==
  ASSUME NEW p, NEW o, NEW lost \in BOOLEAN, lost, History(p, o, lost)
  PROVE  excused' /\ Queue' = << >> /\ out' \notin Packet
  BY NotInside DEF History, Queue

LEMMA DigitStutters ==
  ASSUME FramingInv, NEW t \in Reader, DecodeDigit(t)
  PROVE  \/ UNCHANGED <<Queue, out, excused>>
         \/ (excused' /\ Queue' = << >> /\ out' \notin Packet)
<1>1. PICK n \in Recv(t, 1) :
        /\ Takes(t, n)
        /\ IF n = 1 THEN UNCHANGED histVars ELSE History(current, out, TRUE)
  BY DEF DecodeDigit
<1>2. /\ TypeOK /\ Framed /\ pc[t] = "length" /\ excused \in BOOLEAN
  BY DEF FramingInv, DecodeDigit, TypeOK
<1>3. n \in 0..Len(stream)
  BY <1>2, RecvIs
<1>4. stream' = SubSeq(stream, n + 1, Len(stream))
  BY <1>1, <1>2, <1>3, TakesIs
<1>5. CASE n # 1
  BY <1>1, <1>5, HistoryLoses
<1>6. CASE n = 1 /\ excused
  BY <1>1, <1>6 DEF histVars, Queue
<1>7. CASE n = 1 /\ ~excused
  <2>1. PICK s \in Seq(StreamByte), c \in {closed} :
          s = stream /\ c = closed /\ 1 <= Len(s) /\ stream' = SubSeq(s, 1 + 1, Len(s))
    <3>1. 1 <= Len(stream)
      BY <1>3, <1>7, QueueParts, LenProperties
    <3>2. QED
      BY <1>4, <1>7, <3>1, QueueParts
  <2>2. FramedOf(t)
    BY <1>2, <1>7 DEF Framed, InFrame
  <2>3. PICK q \in Nat, n2 \in Nat : Continues(s, c, 0, Encode[q], n2)
    BY <1>2, <2>1, <2>2, LengthsAre DEF FramedOf
  <2>4. PacketsIn[stream'] = PacketsIn[stream]
    <3>1. DigitGone(s, c, q, n2)
      BY <2>1, <2>3, DigitRead
    <3>2. QED
      BY <2>1, <3>1 DEF DigitGone
  <2>5. QED
    BY <1>1, <1>7, <2>4 DEF histVars, Queue, Front
<1>8. QED
  BY <1>5, <1>6, <1>7

LEMMA BodyGets ==
  ASSUME FramingInv, NEW t \in Reader, ReadBody(t)
  PROVE  \/ UNCHANGED <<Queue, out, excused>>
         \/ (excused' /\ Queue' = << >> /\ out' \notin Packet)
         \/ /\ ~excused /\ Queue # << >> /\ out' = Head(Queue) /\ Queue' = Tail(Queue)
            /\ UNCHANGED excused
<1>1. PICK n \in IF rem_len[t] = 0 THEN {0} ELSE Recv(t, rem_len[t]) :
        /\ Takes(t, n)
        /\ IF n = rem_len[t]
             THEN History(NoPacket, <<current[1], rem_len[t]>>, excused)
             ELSE History(current, out, TRUE)
  BY DEF ReadBody
<1>2. /\ TypeOK /\ Framed /\ pc[t] = "body"
  BY DEF FramingInv, ReadBody
<1>3. excused \in BOOLEAN /\ rem_len[t] \in Nat /\ Len(stream) \in Nat
  BY <1>2, Numbers, LenProperties DEF TypeOK
<1>4. n \in 0..Len(stream)
  BY <1>2, <1>3, RecvIs
<1>5. stream' = SubSeq(stream, n + 1, Len(stream))
  BY <1>1, <1>2, <1>4, TakesIs
<1>6. CASE n # rem_len[t]
  BY <1>1, <1>6, HistoryLoses
<1>7. CASE n = rem_len[t] /\ excused
  BY <1>1, <1>3, <1>7, HistoryLoses
<1>8. CASE n = rem_len[t] /\ ~excused
  <2>1. /\ excused' = FALSE /\ current' = NoPacket /\ out' = <<current[1], rem_len[t]>>
    BY <1>1, <1>8 DEF History
  <2>2. /\ current \in Packet /\ rem_len[t] = current[2]
        /\ Continues(stream, closed, 0, << >>, n)
    BY <1>2, <1>8 DEF Framed, InFrame, FramedOf
  <2>3. PICK p \in Packet : p = current /\ out' = p
    <3>1. \A x \in Packet : x = <<x[1], x[2]>>
      BY DEF Packet
    <3>2. QED
      BY <2>1, <2>2, <3>1
  <2>4. PICK s \in Seq(StreamByte), c \in {closed} :
          s = stream /\ c = closed /\ n \in 0..Len(s) /\ stream' = SubSeq(s, n + 1, Len(s))
    BY <1>4, <1>5, QueueParts
  <2>5. PacketsIn[stream'] = PacketsIn[stream]
    BY <2>2, <2>4, BodyRead
  <2>6. PICK b \in Seq(Packet) : b = PacketsIn[stream]
    BY QueueParts
  <2>7. << >> \o b = b
    BY ConcatEmptySeq
  <2>8. /\ Queue = <<p>> \o b
        /\ Queue' = b
    BY <1>8, <2>1, <2>3, <2>5, <2>6, <2>7, NotInside DEF Queue, Front
  <2>9. /\ <<p>> \in Seq(Packet) /\ <<p>> # << >>
        /\ Head(<<p>>) = p /\ Tail(<<p>>) = << >>
    <3>1. <<p>> \in Seq(Packet)
      OBVIOUS
    <3>2. <<p>> # << >>
      OBVIOUS
    <3>3. Head(<<p>>) = p
      OBVIOUS
    <3>4. Tail(<<p>>) = << >>
      OBVIOUS
    <3>5. QED
      BY <3>1, <3>2, <3>3, <3>4
  <2>10. /\ <<p>> \o b # << >> /\ Head(<<p>> \o b) = Head(<<p>>)
         /\ Tail(<<p>> \o b) = Tail(<<p>>) \o b
    <3>1. ASSUME NEW x \in Seq(Packet), x # << >>
          PROVE  x \o b # << >> /\ Head(x \o b) = Head(x) /\ Tail(x \o b) = Tail(x) \o b
      BY <3>1, HeadTailConcat
    <3>2. QED
      BY <2>9, <3>1
  <2>11. UNCHANGED excused
    BY <1>3, <1>8, <2>1
  <2>12. Queue # << >> /\ Head(Queue) = p /\ Tail(Queue) = Queue'
    BY <2>7, <2>8, <2>9, <2>10
  <2>13. QED
    BY <1>8, <2>3, <2>11, <2>12
<1>9. QED
  BY <1>6, <1>7, <1>8

LEMMA WholeStep ==
  ASSUME FramingInv, [Next]_vars
  PROVE  \/ UNCHANGED <<Queue, out, excused>>
         \/ /\ ~excused /\ \E p \in Packet : Queue' = Append(Queue, p)
            /\ UNCHANGED <<out, excused>>
         \/ /\ ~excused /\ Queue # << >> /\ out' = Head(Queue) /\ Queue' = Tail(Queue)
            /\ UNCHANGED excused
         \/ /\ ~excused /\ \E n \in 0..Len(Queue) : Queue' = SubSeq(Queue, 1, n)
            /\ UNCHANGED <<out, excused>>
         \/ (Queue' = << >> /\ out' \notin Packet)
<1>1. CASE BrokerSends \/ ConnectionLost
  <2>1. UNCHANGED <<out, excused>>
    BY <1>1 DEF BrokerSends, ConnectionLost, histVars
  <2>2. QED
    BY <1>1, <2>1, SendPuts, LossDrops DEF Queue
<1>2. ASSUME NEW t \in Reader, Begin(t)
      PROVE  \/ UNCHANGED <<Queue, out, excused>>
             \/ (Queue' = << >> /\ out' \notin Packet)
  <2>1. /\ History(current, out, excused \/ Midway(t) # {}) /\ stream' = stream
        /\ excused \in BOOLEAN
    BY <1>2 DEF Begin, connVars, FramingInv, TypeOK
  <2>2. CASE excused \/ Midway(t) # {}
    BY <2>1, <2>2, HistoryLoses
  <2>3. CASE ~(excused \/ Midway(t) # {})
    BY <2>1, <2>3 DEF History, Queue, Front
  <2>4. QED
    BY <2>2, <2>3
<1>3. ASSUME NEW t \in Reader, TooManyDigits(t) \/ TooLong(t)
      PROVE  Queue' = << >> /\ out' \notin Packet
  BY <1>3, HistoryLoses DEF TooManyDigits, TooLong
<1>4. ASSUME NEW t \in Reader, StartDecodeBuf(t) \/ DecodeBufDigit(t) \/ Handle(t)
      PROVE  UNCHANGED <<Queue, out, excused>>
  BY <1>4 DEF StartDecodeBuf, DecodeBufDigit, Handle, connVars, histVars, Queue, Front
<1>5. ASSUME NEW t \in Reader, Reopen(t)
      PROVE  Queue' = << >> /\ out' \notin Packet
  <2>1. History(NoPacket, NoPacket, Midway(t) # {}) /\ stream' = << >>
    BY <1>5 DEF Reopen
  <2>2. << >> \o << >> = << >>
    BY EmptySeq, ConcatEmptySeq
  <2>3. current' = NoPacket /\ out' = NoPacket
    BY <2>1 DEF History
  <2>4. QED
    BY <2>1, <2>2, <2>3, PacketsInIs, NotInside DEF Queue, Front
<1>6. CASE UNCHANGED vars
  BY <1>6 DEF vars, connVars, histVars, Queue, Front
<1>7. QED
  BY <1>1, <1>2, <1>3, <1>4, <1>5, <1>6, HeaderStutters, DigitStutters, BodyGets DEF Next, Read

\* Packets come out of the stream whole and in the order in which they were sent, for
\* packets, buffers and deliveries of every size.
THEOREM PacketsComeWholeTheorem == Spec => PacketsComeWhole
<1>1. Init => Whole!Init
  <2>1. SUFFICES ASSUME Init PROVE Queue = << >> /\ out \notin Packet /\ ~excused
    BY DEF Whole!Init, Queue, Front
  <2>2. << >> \o << >> = << >>
    BY EmptySeq, ConcatEmptySeq
  <2>3. stream = << >> /\ current = NoPacket /\ out = NoPacket /\ excused = FALSE
    BY <2>1 DEF Init
  <2>4. PacketsIn[stream] = << >>
    BY <2>3, PacketsInIs
  <2>5. Queue = << >>
    BY <2>2, <2>3, <2>4 DEF Queue, Front
  <2>6. QED
    BY <2>3, <2>5, NotInside
<1>2. FramingInv /\ [Next]_vars => [Whole!Next]_(Whole!vars)
  <2>1. SUFFICES ASSUME FramingInv, [Next]_vars PROVE [Whole!Next]_(Whole!vars)
    OBVIOUS
  <2>2. CASE UNCHANGED <<Queue, out, excused>>
    BY <2>2 DEF Whole!vars, Queue, Front
  <2>3. CASE /\ ~excused /\ \E p \in Packet : Queue' = Append(Queue, p)
             /\ UNCHANGED <<out, excused>>
    BY <2>3 DEF Whole!Next, Whole!Put, Queue, Front
  <2>4. CASE /\ ~excused /\ Queue # << >> /\ out' = Head(Queue) /\ Queue' = Tail(Queue)
             /\ UNCHANGED excused
    BY <2>4 DEF Whole!Next, Whole!Get, Queue, Front
  <2>5. CASE /\ ~excused /\ \E n \in 0..Len(Queue) : Queue' = SubSeq(Queue, 1, n)
             /\ UNCHANGED <<out, excused>>
    BY <2>5 DEF Whole!Next, Whole!Drop, Queue, Front
  <2>6. CASE Queue' = << >> /\ out' \notin Packet
    BY <2>6 DEF Whole!Next, Whole!Lose, Whole!Restart, Queue, Front
  <2>7. QED
    BY <2>1, <2>2, <2>3, <2>4, <2>5, <2>6, WholeStep
<1>3. QED
  BY <1>1, <1>2, FramingInvAlways, PTL DEF Spec, Whole!Spec, PacketsComeWhole
=============================================================================
