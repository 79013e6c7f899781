-------------------------- MODULE ModularArithmetic --------------------------
(***************************************************************************)
(* Facts about % that the rings' proofs rest on: reducing a counter modulo *)
(* the machine word, or modulo the ring size, commutes with moving it.     *)
(***************************************************************************)
EXTENDS Integers, TLAPS

\* A number is its quotient and its remainder.
LEMMA DivMod ==
  ASSUME NEW a \in Int, NEW b \in Nat \ {0}
  PROVE  \E q \in Int : a = b * q + (a % b) /\ a % b \in 0 .. b - 1
<1>1. a = b * (a \div b) + (a % b) /\ a % b \in 0 .. b - 1 /\ a \div b \in Int
  OBVIOUS
<1> QED
  BY <1>1

LEMMA MultipleIsLarge ==
  ASSUME NEW b \in Nat \ {0}, NEW q \in Int, q >= 1
  PROVE  b * q >= b
OBVIOUS

\* The remainder is unique.
LEMMA RemainderUnique ==
  ASSUME NEW b \in Nat \ {0}, NEW q \in Int, NEW p \in Int,
         NEW x \in 0 .. b - 1, NEW y \in 0 .. b - 1,
         b * q + x = b * p + y
  PROVE  x = y
<1>1. b * (q - p) = y - x
  OBVIOUS
<1>2. CASE q - p >= 1
  BY <1>1, <1>2, MultipleIsLarge
<1>3. CASE p - q >= 1
  <2>1. b * (p - q) = x - y
    OBVIOUS
  <2> QED
    BY <2>1, <1>3, MultipleIsLarge
<1>4. CASE p = q
  BY <1>4
<1> QED
  BY <1>2, <1>3, <1>4

LEMMA ModIs ==
  ASSUME NEW a \in Int, NEW b \in Nat \ {0}, NEW q \in Int,
         NEW x \in 0 .. b - 1, a = b * q + x
  PROVE  a % b = x
<1>1. PICK p \in Int : a = b * p + (a % b) /\ a % b \in 0 .. b - 1
  BY DivMod
<1> QED
  BY <1>1, RemainderUnique

LEMMA ModType ==
  ASSUME NEW a \in Int, NEW b \in Nat \ {0}
  PROVE  a % b \in 0 .. b - 1
BY DivMod

LEMMA ModSmall ==
  ASSUME NEW b \in Nat \ {0}, NEW a \in 0 .. b - 1
  PROVE  a % b = a
<1>1. a = b * 0 + a /\ a \in Int
  OBVIOUS
<1> QED
  BY <1>1, ModIs

LEMMA Regroup ==
  ASSUME NEW b \in Nat \ {0}, NEW q \in Int, NEW u \in Int,
         NEW x \in Int, NEW y \in Int
  PROVE  (b * u + y) - (b * q + x) = b * (u - q) + (y - x)
OBVIOUS

\* Moving a reduced counter and reducing it again.
LEMMA ModPlus ==
  ASSUME NEW a \in Int, NEW d \in Int, NEW b \in Nat \ {0}
  PROVE  ((a % b) + d) % b = (a + d) % b
<1> DEFINE x == a % b
           y == (a + d) % b
<1>1. PICK q \in Int : a = b * q + x /\ x \in 0 .. b - 1
  BY DivMod
<1>2. a + d \in Int
  OBVIOUS
<1>3. PICK u \in Int : a + d = b * u + y /\ y \in 0 .. b - 1
  BY <1>2, DivMod
<1> HIDE DEF x, y
<1>4. x + d = b * (u - q) + y
  BY <1>1, <1>3, Regroup
<1>5. x + d \in Int /\ u - q \in Int
  BY <1>1, <1>3
<1>6. (x + d) % b = y
  BY <1>3, <1>4, <1>5, ModIs
<1> QED
  BY <1>6 DEF x, y

\* The wrapped difference of two reduced counters less than a modulus apart.
LEMMA ModMinus ==
  ASSUME NEW a \in Int, NEW c \in Int, NEW b \in Nat \ {0},
         a - c \in 0 .. b - 1
  PROVE  ((a % b) - (c % b)) % b = a - c
<1> DEFINE x == a % b
           y == c % b
<1>1. PICK q \in Int : a = b * q + x /\ x \in 0 .. b - 1
  BY DivMod
<1>2. PICK u \in Int : c = b * u + y /\ y \in 0 .. b - 1
  BY DivMod
<1> HIDE DEF x, y
<1>3. a - c = b * (q - u) + (x - y)
  BY <1>1, <1>2, Regroup
<1>4. x - y = b * (u - q) + (a - c)
  BY <1>1, <1>2, <1>3
<1>5. x - y \in Int /\ u - q \in Int
  BY <1>1, <1>2
<1>6. (x - y) % b = a - c
  BY <1>4, <1>5, ModIs
<1> QED
  BY <1>6 DEF x, y

\* Subtracting a reduced counter.
LEMMA ModMinusReduced ==
  ASSUME NEW a \in Int, NEW c \in Int, NEW b \in Nat \ {0}
  PROVE  (a - (c % b)) % b = (a - c) % b
<1> DEFINE x == c % b
           y == (a - c) % b
<1>1. PICK q \in Int : c = b * q + x /\ x \in 0 .. b - 1
  BY DivMod
<1>2. a - c \in Int
  OBVIOUS
<1>3. PICK u \in Int : a - c = b * u + y /\ y \in 0 .. b - 1
  BY <1>2, DivMod
<1> HIDE DEF x, y
<1>4. b * u + b * q = b * (u + q)
  BY <1>1, <1>3
<1>5. a - x = b * (u + q) + y
  BY <1>1, <1>3, <1>4
<1>6. a - x \in Int /\ u + q \in Int
  BY <1>1, <1>3
<1>7. (a - x) % b = y
  BY <1>3, <1>5, <1>6, ModIs
<1> QED
  BY <1>7 DEF x, y

\* A ring whose size divides the word may index with the wrapped counter.
LEMMA ModMod ==
  ASSUME NEW a \in Int, NEW s \in Nat \ {0}, NEW k \in Nat \ {0}
  PROVE  (a % (s * k)) % s = a % s
<1> DEFINE b == s * k
           x == a % b
           y == a % s
<1>0. b \in Nat \ {0}
  OBVIOUS
<1>1. PICK q \in Int : a = b * q + x /\ x \in 0 .. b - 1
  BY <1>0, DivMod
<1>2. PICK u \in Int : a = s * u + y /\ y \in 0 .. s - 1
  BY DivMod
<1> HIDE DEF x, y
<1>3. b * q = s * (k * q) /\ k * q \in Int
  BY <1>1
<1> HIDE DEF b
<1>4. x = (s * u + y) - (s * (k * q) + 0)
  BY <1>0, <1>1, <1>2, <1>3
<1>5. x = s * (u - k * q) + (y - 0)
  BY <1>2, <1>3, <1>4, Regroup
<1>6. u - k * q \in Int /\ x \in Int
  BY <1>0, <1>1, <1>2, <1>3
<1>7. x % s = y
  BY <1>2, <1>5, <1>6, ModIs
<1> QED
  BY <1>7 DEF x, y, b

\* Positions less than a ring apart that share a slot are the same position.
LEMMA ModApart ==
  ASSUME NEW a \in Int, NEW c \in Int, NEW b \in Nat \ {0},
         a - c \in 0 .. b - 1, a % b = c % b
  PROVE  a = c
<1>1. a % b \in Int
  BY DivMod
<1>2. ((a % b) - (c % b)) % b = a - c
  BY ModMinus
<1>3. 0 % b = 0
  BY ModSmall
<1> QED
  BY <1>1, <1>2, <1>3

\* Wrapping by one conditional subtraction.
LEMMA ModWrap ==
  ASSUME NEW b \in Nat \ {0}, NEW a \in b .. 2 * b - 1
  PROVE  a % b = a - b
<1>1. a = b * 1 + (a - b) /\ a \in Int /\ a - b \in 0 .. b - 1
  OBVIOUS
<1> QED
  BY <1>1, ModIs
=============================================================================
