------------------------- MODULE IntegerRoundsProofs -------------------------
(***************************************************************************)
(* Proofs about IntegerRounds, for every integer and for parts of any even  *)
(* number of values.                                                        *)
(***************************************************************************)
EXTENDS IntegerRounds, TLAPS

-----------------------------------------------------------------------------
\* Division: the quotient and the remainder, and that there are no others.

LEMMA Products ==
    ASSUME NEW a \in Int, NEW b \in Int
    PROVE  /\ a * b \in Int /\ a * b = b * a
           /\ \A c \in Int : a * (b + c) = a * b + a * c /\ a * (b * c) = (a * b) * c
           /\ a \in Nat /\ b \in Nat => a * b \in Nat
           /\ a > 0 /\ b > 0 => a * b >= a
  OBVIOUS

LEMMA Division ==
    ASSUME NEW d \in Nat \ {0}, NEW v \in Int
    PROVE  /\ v \div d \in Int
           /\ v % d \in 0 .. d - 1
           /\ v = d * (v \div d) + (v % d)
  OBVIOUS

LEMMA NoMultipleBetween ==
    ASSUME NEW d \in Nat \ {0}, NEW k \in Int, d * k < d, d * k > -d
    PROVE  k = 0
<1>1. CASE k >= 1
  BY <1>1
<1>2. CASE k <= -1
  BY <1>2
<1>3. QED
  BY <1>1, <1>2

LEMMA DivisionIsUnique ==
    ASSUME NEW d \in Nat \ {0}, NEW q \in Int, NEW r \in 0 .. d - 1
    PROVE  (d * q + r) \div d = q /\ (d * q + r) % d = r
<1> DEFINE v == d * q + r
           p == v \div d
           s == v % d
<1>1. v \in Int
  BY Products
<1>2. p \in Int /\ s \in 0 .. d - 1 /\ v = d * p + s
  BY <1>1, Division
<1>3. v = d * q + r
  OBVIOUS
<1> HIDE DEF v, p, s
<1>4. d * (q - p) = s - r
  BY <1>1, <1>2, <1>3
<1>5. q - p = 0
  BY <1>2, <1>4, NoMultipleBetween
<1>6. p = q /\ s = r
  BY <1>2, <1>4, <1>5
<1>7. QED
  BY <1>6 DEF v, p, s

\* Dividing twice is dividing by the product.
LEMMA DivisionTwice ==
    ASSUME NEW a \in Nat \ {0}, NEW b \in Nat \ {0}, NEW v \in Int
    PROVE  v \div (a * b) = (v \div a) \div b
<1> DEFINE q == v \div a
           p == q \div b
           r == v % a
           s == q % b
<1>1. q \in Int /\ r \in 0 .. a - 1 /\ v = a * q + r
  BY Division
<1>2. p \in Int /\ s \in 0 .. b - 1 /\ q = b * p + s
  BY <1>1, Division
<1> HIDE DEF q, p, r, s
<1>3. a * b \in Nat \ {0}
  OBVIOUS
<1>4. a * s + r \in 0 .. a * b - 1
  <2>1. a * s <= a * (b - 1)
    BY <1>2
  <2>2. a * s \in Nat /\ a * (b - 1) = a * b - a
    BY <1>2
  <2>3. QED
    BY <1>1, <1>3, <2>1, <2>2
<1>5. v = (a * b) * p + (a * s + r)
  <2>1. a * (b * p + s) = (a * b) * p + a * s
    BY <1>2
  <2>2. QED
    BY <1>1, <1>2, <2>1
<1>6. v \div (a * b) = p
  BY <1>2, <1>3, <1>4, <1>5, DivisionIsUnique
<1>7. QED
  BY <1>6 DEF p, q

LEMMA QuotientInRange ==
    ASSUME NEW a \in Nat \ {0}, NEW b \in Nat \ {0}, NEW v \in 0 .. a * b - 1
    PROVE  v \div a \in 0 .. b - 1
<1> DEFINE q == v \div a
           r == v % a
<1>1. q \in Int /\ r \in 0 .. a - 1 /\ v = a * q + r
  BY Division
<1> HIDE DEF q, r
<1>2. v \in Nat /\ v < a * b
  OBVIOUS
<1>3. q < b
  <2>1. CASE q >= b
    <3>1. a * q >= a * b
      BY <1>1, <2>1
    <3>2. QED
      BY <1>1, <1>2, <3>1
  <2>2. QED
    BY <1>1, <2>1
<1>4. q >= 0
  <2>1. CASE q <= -1
    <3>1. a * q <= -a
      BY <1>1, <2>1
    <3>2. QED
      BY <1>1, <1>2, <3>1
  <2>2. QED
    BY <1>1, <2>1
<1>5. QED
  BY <1>1, <1>3, <1>4 DEF q

\* A remainder differs from its number by a multiple, and adding the divisor
\* or taking it away does not change it.
LEMMA RemainderIsCongruent ==
    ASSUME NEW d \in Nat \ {0}, NEW v \in Int
    PROVE  /\ (v + d) % d = v % d
           /\ (v - d) % d = v % d
           /\ ((v % d) - v) % d = 0
<1> DEFINE q == v \div d
           r == v % d
<1>1. q \in Int /\ r \in 0 .. d - 1 /\ v = d * q + r
  BY Division
<1> HIDE DEF q, r
<1>2. v + d = d * (q + 1) + r /\ v - d = d * (q - 1) + r
  BY <1>1
<1>3. (v + d) % d = r /\ (v - d) % d = r
  BY <1>1, <1>2, DivisionIsUnique
<1>4. r - v = d * (-q) + 0
  BY <1>1
<1>5. (r - v) % d = 0
  BY <1>1, <1>4, DivisionIsUnique
<1>6. QED
  BY <1>3, <1>5 DEF r

LEMMA RemainderInRange ==
    ASSUME NEW d \in Nat \ {0}, NEW v \in 0 .. d - 1
    PROVE  v % d = v /\ v \div d = 0
<1>1. v = d * 0 + v
  OBVIOUS
<1>2. QED
  BY <1>1, DivisionIsUnique

-----------------------------------------------------------------------------
\* Sizes of words and integers.

LEMMA BaseIsEven ==
    /\ Base \in Nat \ {0} /\ Base >= Part /\ Base > 1
    /\ \E h \in Nat \ {0} : Base = 2 * h
<1>1. Part \in Nat \ {0} /\ Part = 2 * (Part \div 2) /\ Part \div 2 \in Nat \ {0}
  BY PartAssumption
<1>2. PICK h \in Nat \ {0} : Part = 2 * h
  BY <1>1
<1>3. Base = 2 * (h * Part) /\ h * Part \in Nat \ {0}
  BY <1>1, <1>2 DEF Base
<1>4. Base >= Part /\ Base \in Nat
  BY <1>1 DEF Base
<1>5. Part >= 2
  BY <1>2
<1>6. QED
  BY <1>1, <1>3, <1>4, <1>5

LEMMA SizesGrow ==
    ASSUME NEW n \in 0 .. 3
    PROVE  /\ Size(n) \in Nat \ {0}
           /\ Size(n + 1) = Base * Size(n)
           /\ Size(n + 1) \in Nat \ {0}
           /\ Size(n) <= Size(n + 1)
           /\ \E h \in Nat \ {0} : Size(n + 1) = 2 * h
<1> DEFINE B == Base
<1>1. B \in Nat \ {0}
  BY BaseIsEven
<1>2. PICK h \in Nat \ {0} : B = 2 * h
  BY BaseIsEven
<1>3. /\ Size(0) = 1 /\ Size(1) = B /\ Size(2) = B * B
      /\ Size(3) = B * (B * B) /\ Size(4) = B * (B * (B * B))
  BY DEF Size
<1> HIDE DEF B
<1>4. B * B \in Nat \ {0}
  BY <1>1
<1>5. B * (B * B) \in Nat \ {0}
  BY <1>1, <1>4
<1>6. Size(n) \in Nat \ {0}
  BY <1>1, <1>3, <1>4, <1>5
<1>7. Size(n + 1) = B * Size(n)
  <2>1. CASE n = 0
    BY <1>1, <1>3, <2>1
  <2>2. CASE n = 1
    BY <1>3, <2>2
  <2>3. CASE n = 2
    BY <1>3, <2>3
  <2>4. CASE n = 3
    BY <1>3, <2>4
  <2>5. QED
    BY <2>1, <2>2, <2>3, <2>4
<1>8. B * Size(n) \in Nat \ {0} /\ Size(n) <= B * Size(n)
  <2> DEFINE z == Size(n)
  <2> HIDE DEF z
  <2>1. z \in Nat \ {0} => B * z \in Nat \ {0} /\ z <= B * z
    BY <1>1
  <2>2. QED
    BY <1>6, <2>1 DEF z
<1>9. B * Size(n) = 2 * (h * Size(n)) /\ h * Size(n) \in Nat \ {0}
  <2> DEFINE z == Size(n)
  <2> HIDE DEF z
  <2>1. z \in Nat \ {0} => B * z = 2 * (h * z) /\ h * z \in Nat \ {0}
    BY <1>2
  <2>2. QED
    BY <1>6, <2>1 DEF z
<1>10. QED
  BY <1>6, <1>7, <1>8, <1>9 DEF B

\* The sizes an integer may have, which are even and ordered by their words.
LEMMA IntegerSizes ==
    ASSUME NEW n \in {1, 2, 4}
    PROVE  /\ Size(n) \in Nat \ {0}
           /\ Size(n) \div 2 \in Nat \ {0}
           /\ Size(n) = 2 * (Size(n) \div 2)
           /\ \A m \in {1, 2, 4} : m <= n => Size(m) <= Size(n)
<1>1. PICK h \in Nat \ {0} : Size(n) = 2 * h
  <2>1. CASE n = 1
    BY <2>1, SizesGrow, 0 \in 0 .. 3, 0 + 1 = 1
  <2>2. CASE n = 2
    BY <2>2, SizesGrow, 1 \in 0 .. 3, 1 + 1 = 2
  <2>3. CASE n = 4
    BY <2>3, SizesGrow, 3 \in 0 .. 3, 3 + 1 = 4
  <2>4. QED
    BY <2>1, <2>2, <2>3
<1>2. Size(n) \in Nat \ {0} /\ Size(n) \div 2 = h
  BY <1>1, DivisionIsUnique, 2 * h = 2 * h + 0
<1>3. Size(1) <= Size(2) /\ Size(2) <= Size(3) /\ Size(3) <= Size(4)
  BY SizesGrow, 1 + 1 = 2, 2 + 1 = 3, 3 + 1 = 4, {1, 2, 3} \subseteq 0 .. 3
<1>4. \A m \in {1, 2, 3, 4} : Size(m) \in Nat
  BY SizesGrow, 0 + 1 = 1, 1 + 1 = 2, 2 + 1 = 3, 3 + 1 = 4, {0, 1, 2, 3} \subseteq 0 .. 3
<1>5. \A m \in {1, 2, 4} : m <= n => Size(m) <= Size(n)
  <2>1. Size(1) <= Size(4) /\ Size(2) <= Size(4)
    BY <1>3, <1>4
  <2>2. QED
    BY <1>3, <1>4, <2>1
<1>6. QED
  BY <1>1, <1>2, <1>5

\* The words above a place are those of what is left without the places below.
LEMMA ShiftedByWords ==
    ASSUME NEW v \in Int
    PROVE  /\ v \div Size(0) = v
           /\ \A n \in 0 .. 2 : v \div Size(n + 1) = (v \div Size(n)) \div Base
<1>1. v \div Size(0) = v
  <2>1. Size(0) = 1 /\ v = 1 * v + 0 /\ 0 \in 0 .. 1 - 1 /\ 1 \in Nat \ {0}
    BY DEF Size
  <2>2. (1 * v + 0) \div 1 = v
    BY <2>1, DivisionIsUnique
  <2>3. QED
    BY <2>1, <2>2
<1>2. ASSUME NEW n \in 0 .. 2
      PROVE  v \div Size(n + 1) = (v \div Size(n)) \div Base
  <2>1. Size(n + 1) = Base * Size(n) /\ Size(n) \in Nat \ {0} /\ Base \in Nat \ {0}
    BY SizesGrow, BaseIsEven
  <2>2. Base * Size(n) = Size(n) * Base
    BY <2>1
  <2>3. QED
    BY <2>1, <2>2, DivisionTwice
<1>3. QED
  BY <1>1, <1>2

-----------------------------------------------------------------------------
\* Splitting and joining.

Types == DOMAIN WordsOf

LEMMA TypeFacts ==
    /\ Types = {"i64", "u64", "timepoint", "duration", "i128", "u128", "i256", "u256"}
    /\ \A type \in Types : WordsOf[type] \in {1, 2, 4}
    /\ ScIntTypes \subseteq Types /\ Signed \subseteq ScIntTypes
    /\ ClassTypes \subseteq ScIntTypes
  BY DEF Types, WordsOf, ScIntTypes, Signed, ClassTypes

\* The words of an integer, each what is left above it, add up to it.
LEMMA WordsAddUp ==
    ASSUME NEW v \in Int
    PROVE  LET q(n) == v \div Size(n) IN
           /\ q(0) = v
           /\ \A n \in 0 .. 3 : q(n) \in Int /\ q(n) % Base \in 0 .. Base - 1
           /\ \A n \in 0 .. 2 : q(n) = q(n + 1) * Base + (q(n) % Base)
<1> DEFINE q(n) == v \div Size(n)
<1>1. Base \in Nat \ {0}
  BY BaseIsEven
<1>2. \A n \in 0 .. 3 : q(n) \in Int
  BY SizesGrow, Division
<1>3. \A n \in 0 .. 3 : q(n) % Base \in 0 .. Base - 1
  BY <1>1, <1>2, Division
<1>4. ASSUME NEW n \in 0 .. 2
      PROVE  q(n) = q(n + 1) * Base + (q(n) % Base)
  <2>1. q(n + 1) = q(n) \div Base
    BY ShiftedByWords
  <2>2. q(n) \in Int /\ q(n + 1) \in Int /\ q(n) % Base \in Int
    BY <1>2, <1>3, n \in 0 .. 3, n + 1 \in 0 .. 3
  <2> HIDE DEF q
  <2>3. q(n) = Base * q(n + 1) + (q(n) % Base)
    BY <1>1, <2>1, <2>2, Division
  <2>4. QED
    BY <1>1, <2>2, <2>3
<1>5. q(0) = v
  BY ShiftedByWords
<1>6. QED
  BY <1>2, <1>3, <1>4, <1>5

\* The words of a split, by their place.
LEMMA SplitWords ==
    ASSUME NEW type \in Types, NEW v \in Int,
           type \in Signed \/ v \in 0 .. Size(WordsOf[type]) - 1
    PROVE  /\ split(type, v) \in [1 .. WordsOf[type] -> Int]
           /\ split(type, v)[1] = v \div Size(WordsOf[type] - 1)
           /\ type \notin Signed => split(type, v)[1] \in 0 .. Base - 1
           /\ \A w \in 2 .. WordsOf[type] :
                 split(type, v)[w] = (v \div Size(WordsOf[type] - w)) % Base
<1> DEFINE n == WordsOf[type]
           q(k) == v \div Size(k)
<1>1. n \in {1, 2, 4}
  BY TypeFacts
<1>2. \A k \in 0 .. 3 : q(k) \in Int /\ q(k) % Base \in 0 .. Base - 1
  BY WordsAddUp
<1>3. Base \in Nat \ {0}
  BY BaseIsEven
<1>4. split(type, v) = [w \in 1 .. n |-> IF w = 1 /\ type \in Signed THEN q(n - w) ELSE q(n - w) % Base]
  BY DEF split
<1>5. \A w \in 1 .. n : n - w \in 0 .. 3
  BY <1>1
<1> HIDE DEF q, n
<1>6. CASE type \in Signed
  <2>1. \A w \in 1 .. n : (IF w = 1 /\ type \in Signed THEN q(n - w) ELSE q(n - w) % Base) \in Int
    BY <1>2, <1>3, <1>5
  <2>2. split(type, v) \in [1 .. n -> Int]
    BY <1>4, <2>1
  <2>3. split(type, v)[1] = q(n - 1) /\ \A w \in 2 .. n : split(type, v)[w] = q(n - w) % Base
    BY <1>1, <1>4, <1>6
  <2>4. QED
    BY <1>6, <2>2, <2>3 DEF n, q
<1>7. CASE type \notin Signed
  <2>1. n - 1 \in 0 .. 3 /\ Size(n) = Base * Size(n - 1) /\ Size(n - 1) \in Nat \ {0}
    BY <1>1, <1>5, SizesGrow, (n - 1) + 1 = n
  <2>2. Base * Size(n - 1) = Size(n - 1) * Base
    BY <1>3, <2>1
  <2>3. q(n - 1) \in 0 .. Base - 1
    BY <1>3, <1>7, <2>1, <2>2, QuotientInRange DEF n, q
  <2>4. q(n - 1) % Base = q(n - 1)
    BY <1>3, <2>3, RemainderInRange
  <2>5. \A w \in 1 .. n : q(n - w) % Base \in Int
    BY <1>2, <1>3, <1>5
  <2>6. split(type, v) = [w \in 1 .. n |-> q(n - w) % Base]
    BY <1>4, <1>7
  <2>7. split(type, v) \in [1 .. n -> Int]
    BY <2>5, <2>6
  <2>8. /\ split(type, v)[1] = q(n - 1)
        /\ \A w \in 2 .. n : split(type, v)[w] = q(n - w) % Base
    BY <1>1, <2>4, <2>6
  <2>9. QED
    BY <2>3, <2>7, <2>8 DEF n, q
<1>8. QED
  BY <1>6, <1>7

\* Every word is read as it is, once it is in its range.
LEMMA ReadsWords ==
    ASSUME NEW type \in Types, NEW words \in [1 .. WordsOf[type] -> Int],
           \A w \in 2 .. WordsOf[type] : words[w] \in 0 .. Base - 1,
           WordsOf[type] # 1 /\ type \notin Signed => words[1] \in 0 .. Base - 1
    PROVE  scValToBigInt([type |-> type, words |-> words]) = joined(words)
<1> DEFINE n == WordsOf[type]
<1>1. n \in {1, 2, 4}
  BY TypeFacts
<1>2. Len(words) = n /\ words = [w \in 1 .. n |-> words[w]]
  BY <1>1
<1>3. \A x \in 0 .. Base - 1 : asUintN(1, x) = x
  <2>1. Size(1) = Base /\ Base \in Nat \ {0}
    BY BaseIsEven DEF Size
  <2>2. QED
    BY <2>1, RemainderInRange DEF asUintN
<1>4. \A w \in 1 .. n :
         (IF n = 1 \/ (w = 1 /\ type \in Signed) THEN words[w] ELSE asUintN(1, words[w])) = words[w]
  BY <1>1, <1>3
<1>5. [w \in 1 .. n |->
         IF n = 1 \/ (w = 1 /\ type \in Signed) THEN words[w] ELSE asUintN(1, words[w])] = words
  BY <1>2, <1>4
<1>6. QED
  BY <1>2, <1>5 DEF scValToBigInt

\* What a value was split into is read as the value.
LEMMA ReadsWhatWasSplit ==
    ASSUME NEW type \in Types, NEW v \in Int,
           type \in Signed \/ v \in 0 .. Size(WordsOf[type]) - 1
    PROVE  scValToBigInt(ScVal(type, v)) = v
<1> DEFINE n == WordsOf[type]
           q(k) == v \div Size(k)
           words == split(type, v)
<1>1. n \in {1, 2, 4}
  BY TypeFacts
<1>2. /\ words \in [1 .. n -> Int] /\ words[1] = q(n - 1)
      /\ type \notin Signed => words[1] \in 0 .. Base - 1
      /\ \A w \in 2 .. n : words[w] = q(n - w) % Base
  BY SplitWords
<1>3. /\ q(0) = v
      /\ \A k \in 0 .. 3 : q(k) \in Int /\ q(k) % Base \in 0 .. Base - 1
      /\ \A k \in 0 .. 2 : q(k) = q(k + 1) * Base + (q(k) % Base)
  BY WordsAddUp
<1> HIDE DEF q, words
<1>4. scValToBigInt(ScVal(type, v)) = joined(words)
  <2>1. \A w \in 2 .. n : words[w] \in 0 .. Base - 1
    <3>1. TAKE w \in 2 .. n
    <3>2. n - w \in 0 .. 3
      BY <1>1
    <3>3. q(n - w) % Base \in 0 .. Base - 1
      BY <1>3, <3>2
    <3>4. QED
      BY <1>2, <3>3
  <2>2. QED
    BY <1>2, <2>1, ReadsWords DEF ScVal, words
<1>5. joined(words) = v
  <2>1. CASE n = 1
    BY <1>2, <1>3, <2>1 DEF joined
  <2>2. CASE n = 2
    <3>1. words[1] = q(1) /\ words[2] = q(0) % Base /\ Len(words) = 2
      BY <1>2, <2>2
    <3>2. q(0) = q(1) * Base + (q(0) % Base)
      BY <1>3, 0 + 1 = 1
    <3>3. QED
      BY <1>3, <3>1, <3>2 DEF joined
  <2>3. CASE n = 4
    <3>1. /\ words[1] = q(3) /\ words[2] = q(2) % Base /\ words[3] = q(1) % Base
          /\ words[4] = q(0) % Base /\ Len(words) = 4
      BY <1>2, <2>3
    <3>2. /\ q(0) = q(1) * Base + (q(0) % Base)
          /\ q(1) = q(2) * Base + (q(1) % Base)
          /\ q(2) = q(3) * Base + (q(2) % Base)
      BY <1>3, 0 + 1 = 1, 1 + 1 = 2, 2 + 1 = 3
    <3>3. QED
      BY <1>3, <3>1, <3>2 DEF joined
  <2>4. QED
    BY <1>1, <2>1, <2>2, <2>3
<1>6. QED
  BY <1>4, <1>5

\* The words of an unsigned integer join to it.
LEMMA JoinsWhatWasSplit ==
    ASSUME NEW n \in {1, 2, 4}, NEW u \in 0 .. Size(n) - 1
    PROVE  joined([w \in 1 .. n |-> (u \div Size(n - w)) % Base]) = u
<1>1. PICK type \in Types \ Signed : WordsOf[type] = n
  <2>1. /\ {"u64", "u128", "u256"} \subseteq Types \ Signed
        /\ WordsOf["u64"] = 1 /\ WordsOf["u128"] = 2 /\ WordsOf["u256"] = 4
    BY DEF Types, WordsOf, Signed
  <2>2. QED
    BY <2>1
<1>2. u \in Int
  BY IntegerSizes
<1>3. /\ split(type, u) \in [1 .. n -> Int]
      /\ split(type, u)[1] \in 0 .. Base - 1
      /\ \A w \in 2 .. n : split(type, u)[w] = (u \div Size(n - w)) % Base
  BY <1>1, <1>2, SplitWords
<1>4. \A w \in 2 .. n : split(type, u)[w] \in 0 .. Base - 1
  <2>1. \A w \in 2 .. n : n - w \in 0 .. 3
    OBVIOUS
  <2>2. QED
    BY <1>2, <1>3, <2>1, WordsAddUp
<1>5. scValToBigInt(ScVal(type, u)) = joined(split(type, u))
  BY <1>1, <1>3, <1>4, ReadsWords DEF ScVal
<1>6. split(type, u) = [w \in 1 .. n |-> (u \div Size(n - w)) % Base]
  BY <1>1 DEF split
<1>7. scValToBigInt(ScVal(type, u)) = u
  BY <1>1, <1>2, ReadsWhatWasSplit
<1>8. QED
  BY <1>5, <1>6, <1>7

-----------------------------------------------------------------------------
\* Wrapping into a width.

LEMMA WrapsUnsigned ==
    ASSUME NEW n \in {1, 2, 4}, NEW v \in Int
    PROVE  /\ asUintN(n, v) \in 0 .. Size(n) - 1
           /\ (asUintN(n, v) - v) % Size(n) = 0
           /\ v \in 0 .. Size(n) - 1 => asUintN(n, v) = v
           /\ v \in -Size(n) .. -1 => asUintN(n, v) = v + Size(n)
<1> DEFINE s == Size(n)
<1>1. s \in Nat \ {0}
  BY IntegerSizes
<1> HIDE DEF s
<1>2. v % s \in 0 .. s - 1
  BY <1>1, Division
<1>3. ((v % s) - v) % s = 0
  BY <1>1, RemainderIsCongruent
<1>4. v \in 0 .. s - 1 => v % s = v
  BY <1>1, RemainderInRange
<1>5. v \in -s .. -1 => v % s = v + s
  <2> SUFFICES ASSUME v \in -s .. -1
               PROVE  v % s = v + s
    OBVIOUS
  <2>1. (v + s) % s = v % s
    BY <1>1, RemainderIsCongruent
  <2>2. v + s \in 0 .. s - 1
    BY <1>1
  <2>3. (v + s) % s = v + s
    BY <1>1, <2>2, RemainderInRange
  <2>4. QED
    BY <2>1, <2>3
<1>6. QED
  BY <1>2, <1>3, <1>4, <1>5 DEF s, asUintN

LEMMA WrapsSigned ==
    ASSUME NEW n \in {1, 2, 4}, NEW v \in Int
    PROVE  LET half == Size(n) \div 2 IN
           /\ asIntN(n, v) \in -half .. half - 1
           /\ (asIntN(n, v) - v) % Size(n) = 0
           /\ v \in -half .. half - 1 => asIntN(n, v) = v
           /\ asIntN(n, asUintN(n, v)) = asIntN(n, v)
<1> DEFINE s == Size(n)
           half == s \div 2
           u == asUintN(n, v)
<1>1. s \in Nat \ {0} /\ half \in Nat \ {0} /\ s = 2 * half
  BY IntegerSizes
<1>2. /\ u \in 0 .. s - 1 /\ (u - v) % s = 0
      /\ v \in 0 .. s - 1 => u = v
      /\ v \in -s .. -1 => u = v + s
  BY WrapsUnsigned
<1>3. asIntN(n, v) = IF 2 * u < s THEN u ELSE u - s
  BY DEF asIntN
<1>4. u % s = v % s /\ asUintN(n, u) = u
  <2>1. s \in Nat \ {0}
    BY IntegerSizes
  <2>2. u = v % s /\ u \in Int /\ u \in 0 .. s - 1
    BY <1>2 DEF asUintN
  <2>3. u % s = u
    BY <2>1, <2>2, RemainderInRange
  <2>4. QED
    BY <2>2, <2>3 DEF asUintN
<1>5. asIntN(n, u) = asIntN(n, v)
  BY <1>3, <1>4 DEF asIntN
<1> HIDE DEF s, half, u
<1>6. ((u - s) - v) % s = 0
  <2> DEFINE x == u - v
  <2>1. x \in Int /\ x % s = 0 /\ x - s = (u - s) - v
    BY <1>1, <1>2
  <2> HIDE DEF x
  <2>2. (x - s) % s = x % s
    BY <1>1, <2>1, RemainderIsCongruent
  <2>3. QED
    BY <2>1, <2>2
<1>7. asIntN(n, v) \in -half .. half - 1 /\ (asIntN(n, v) - v) % s = 0
  <2>1. CASE 2 * u < s
    BY <1>1, <1>2, <1>3, <2>1
  <2>2. CASE ~(2 * u < s)
    BY <1>1, <1>2, <1>3, <1>6, <2>2
  <2>3. QED
    BY <2>1, <2>2
<1>8. v \in -half .. half - 1 => asIntN(n, v) = v
  <2>1. CASE v \in 0 .. half - 1
    BY <1>1, <1>2, <1>3, <2>1
  <2>2. CASE v \in -half .. -1
    BY <1>1, <1>2, <1>3, <2>2
  <2>3. QED
    BY <1>1, <2>1, <2>2
<1>9. QED
  BY <1>5, <1>7, <1>8 DEF s, half, u

-----------------------------------------------------------------------------
\* The parts of a slice, signed or not, are put together again.

LEMMA PairOfParts ==
    ASSUME NEW word \in 0 .. Base - 1,
           NEW low \in {word % Part, (word % Part) - Part},
           NEW high \in {word \div Part, (word \div Part) - Part}
    PROVE  u32PairToU64(low, high) = word
<1>1. Part \in Nat \ {0} /\ word \in Int
  BY BaseIsEven, PartAssumption
<1>2. word % Part \in 0 .. Part - 1 /\ word \div Part \in 0 .. Part - 1
  BY <1>1, Division, QuotientInRange DEF Base
<1>3. ASSUME NEW x \in 0 .. Part - 1
      PROVE  x % Part = x /\ (x - Part) % Part = x
  <2>1. x % Part = x
    BY <1>1, RemainderInRange
  <2>2. (x - Part) % Part = x % Part
    BY <1>1, x \in Int, RemainderIsCongruent
  <2>3. QED
    BY <2>1, <2>2
<1>4. low % Part = word % Part /\ high % Part = word \div Part
  BY <1>2, <1>3
<1>5. word = Part * (word \div Part) + (word % Part)
  BY <1>1, Division
<1>6. QED
  BY <1>1, <1>2, <1>4, <1>5 DEF u32PairToU64

LEMMA PartsJoin ==
    ASSUME NEW type \in ScIntTypes, NEW v \in Int
    PROVE  arrayToBigInt(type, slice(v, type))
             = IF type \in Signed THEN asIntN(WordsOf[type], v) ELSE asUintN(WordsOf[type], v)
<1> DEFINE n == WordsOf[type]
           u == asUintN(n, v)
           word(w) == (u \div Size(w - 1)) % Base
           part(i) == IF i % 2 = 1 THEN word((i + 1) \div 2) % Part ELSE word(i \div 2) \div Part
           parts == slice(v, type)
<1>1. n \in {1, 2, 4} /\ type \in Types
  BY TypeFacts
<1>2. u \in 0 .. Size(n) - 1 /\ u \in Int
  <2>1. u \in 0 .. Size(n) - 1
    BY <1>1, WrapsUnsigned
  <2>2. Size(n) \in Nat
    BY <1>1, IntegerSizes
  <2>3. QED
    BY <2>1, <2>2
<1>3. \A w \in 1 .. n : word(w) \in 0 .. Base - 1
  <2>1. \A w \in 1 .. n : w - 1 \in 0 .. 3
    BY <1>1
  <2>2. QED
    BY <1>2, <2>1, WordsAddUp
<1>4. parts = [i \in 1 .. 2 * n |-> IF 2 * part(i) < Part THEN part(i) ELSE part(i) - Part]
  BY DEF slice
<1>5. Len(parts) = 2 * n
  BY <1>1, <1>4
<1> HIDE DEF word, parts
<1>6. ASSUME NEW w \in 1 .. n
      PROVE  u32PairToU64(parts[2 * w - 1], parts[2 * w]) = word(w)
  <2>1. 2 * w - 1 \in 1 .. 2 * n /\ 2 * w \in 1 .. 2 * n
    BY <1>1
  <2>2. /\ (2 * w - 1) % 2 = 1 /\ ((2 * w - 1) + 1) \div 2 = w
        /\ (2 * w) % 2 = 0 /\ (2 * w) \div 2 = w
    OBVIOUS
  <2>3. part(2 * w - 1) = word(w) % Part /\ part(2 * w) = word(w) \div Part
    BY <2>2
  <2> HIDE DEF part
  <2>4. parts[2 * w - 1] \in {word(w) % Part, (word(w) % Part) - Part}
    BY <1>4, <2>1, <2>3
  <2>5. parts[2 * w] \in {word(w) \div Part, (word(w) \div Part) - Part}
    BY <1>4, <2>1, <2>3
  <2>6. QED
    BY <1>3, <2>4, <2>5, PairOfParts
<1>7. joined([w \in 1 .. n |-> u32PairToU64(parts[2 * (n + 1 - w) - 1], parts[2 * (n + 1 - w)])]) = u
  <2>1. \A w \in 1 .. n : n + 1 - w \in 1 .. n /\ (n + 1 - w) - 1 = n - w
    BY <1>1
  <2>2. \A w \in 1 .. n : u32PairToU64(parts[2 * (n + 1 - w) - 1], parts[2 * (n + 1 - w)]) = (u \div Size(n - w)) % Base
    BY <1>6, <2>1 DEF word
  <2>3. [w \in 1 .. n |-> u32PairToU64(parts[2 * (n + 1 - w) - 1], parts[2 * (n + 1 - w)])]
          = [w \in 1 .. n |-> (u \div Size(n - w)) % Base]
    BY <2>2
  <2>4. QED
    BY <1>1, <1>2, <2>3, JoinsWhatWasSplit
<1>8. arrayToBigInt(type, parts) = IF type \in Signed THEN asIntN(n, u) ELSE u
  BY <1>5, <1>7 DEF arrayToBigInt
<1>9. asIntN(n, u) = asIntN(n, v)
  BY <1>1, WrapsSigned
<1>10. QED
  BY <1>8, <1>9 DEF parts

-----------------------------------------------------------------------------
\* What is made of an input is read as the input.

\* An ScVal as the wire knows it: as many words as its type has.
Made == UNION {{[type |-> t, words |-> w] : w \in [1 .. WordsOf[t] -> Int]} : t \in Types}

LEMMA RangesAre ==
    ASSUME NEW type \in Types
    PROVE  LET size == Size(WordsOf[type]) IN
           /\ RANGES(type) \subseteq Int
           /\ type \in Signed => RANGES(type) = -(size \div 2) .. size \div 2 - 1
           /\ type \notin Signed => RANGES(type) = 0 .. size - 1
<1>1. Size(WordsOf[type]) \in Nat /\ Size(WordsOf[type]) \div 2 \in Nat
  BY TypeFacts, IntegerSizes
<1>2. QED
  BY <1>1 DEF RANGES

LEMMA WrapsIntoRange ==
    ASSUME NEW type \in Types, NEW v \in Int
    PROVE  LET w == LargeIntClass(type, v) IN
           /\ w \in RANGES(type) /\ w \in Int
           /\ (w - v) % Size(WordsOf[type]) = 0
           /\ v \in RANGES(type) => w = v
<1> DEFINE n == WordsOf[type]
<1>1. n \in {1, 2, 4}
  BY TypeFacts
<1>2. CASE type \in Signed
  <2>1. LargeIntClass(type, v) = asIntN(n, v)
    BY <1>2 DEF LargeIntClass
  <2>2. RANGES(type) = -(Size(n) \div 2) .. Size(n) \div 2 - 1 /\ RANGES(type) \subseteq Int
    BY <1>2, RangesAre
  <2>3. /\ asIntN(n, v) \in -(Size(n) \div 2) .. Size(n) \div 2 - 1
        /\ (asIntN(n, v) - v) % Size(n) = 0
        /\ v \in -(Size(n) \div 2) .. Size(n) \div 2 - 1 => asIntN(n, v) = v
    BY <1>1, WrapsSigned
  <2>4. QED
    BY <2>1, <2>2, <2>3
<1>3. CASE type \notin Signed
  <2>1. LargeIntClass(type, v) = asUintN(n, v)
    BY <1>3 DEF LargeIntClass
  <2>2. RANGES(type) = 0 .. Size(n) - 1 /\ RANGES(type) \subseteq Int
    BY <1>3, RangesAre
  <2>3. /\ asUintN(n, v) \in 0 .. Size(n) - 1
        /\ (asUintN(n, v) - v) % Size(n) = 0
        /\ v \in 0 .. Size(n) - 1 => asUintN(n, v) = v
    BY <1>1, WrapsUnsigned
  <2>4. QED
    BY <2>1, <2>2, <2>3
<1>4. QED
  BY <1>2, <1>3

LEMMA ScValIsMade ==
    ASSUME NEW type \in Types, NEW v \in Int, type \in Signed \/ v \in RANGES(type)
    PROVE  /\ ScVal(type, v) \in Made
           /\ ScVal(type, v).type = type
           /\ scValToBigInt(ScVal(type, v)) = v
<1>1. type \in Signed \/ v \in 0 .. Size(WordsOf[type]) - 1
  BY RangesAre
<1>2. split(type, v) \in [1 .. WordsOf[type] -> Int]
  BY <1>1, SplitWords
<1>3. ScVal(type, v) \in Made
  BY <1>2 DEF ScVal, Made
<1>4. QED
  BY <1>1, <1>3, ReadsWhatWasSplit DEF ScVal

LEMMA OneWordIsMade ==
    ASSUME NEW type \in Types, WordsOf[type] = 1, NEW v \in Int
    PROVE  LET scv == [type |-> type, words |-> <<v>>] IN
           scv \in Made /\ scValToBigInt(scv) = v
<1>1. <<v>> \in [1 .. WordsOf[type] -> Int] /\ 2 .. WordsOf[type] = {}
  OBVIOUS
<1>2. [type |-> type, words |-> <<v>>] \in Made
  <2>1. [type |-> type, words |-> <<v>>] \in {[type |-> type, words |-> w] : w \in [1 .. WordsOf[type] -> Int]}
    BY <1>1
  <2>2. QED
    BY <2>1 DEF Made
<1>3. scValToBigInt([type |-> type, words |-> <<v>>]) = joined(<<v>>)
  BY <1>1, ReadsWords
<1>4. joined(<<v>>) = v
  BY DEF joined
<1>5. QED
  BY <1>2, <1>3, <1>4

\* What the proof of each way has to show.
Sound(g) ==
    LET m == madeInteger(g) IN
    m # OutOfRange =>
        /\ m \in Made
        /\ OnTheWire(m) => MeansTheSame(g, m.type, scValToBigInt(m))

LEMMA UntypedIsSound ==
    ASSUME NEW g \in [family : {"integer"}, by : {"ScInt"}, value : Int]
    PROVE  Sound(g)
<1> DEFINE t == autoDetectType(g.value)
<1>1. g.by = "ScInt" /\ g.value \in Int
  OBVIOUS
<1>2. madeInteger(g) = IF t = OutOfRange THEN OutOfRange ELSE ScVal(t, g.value)
  BY <1>1 DEF madeInteger, toScVal
<1>3. t # OutOfRange => t \in Types /\ g.value \in RANGES(t)
  <2>1. Smallest(g.value) \in [1 .. 3 -> Types]
    BY TypeFacts DEF Smallest
  <2>2. QED
    BY <2>1 DEF autoDetectType
<1>4. QED
  BY <1>1, <1>2, <1>3, ScValIsMade DEF Sound, MeansTheSame

LEMMA TypedIsSound ==
    ASSUME NEW g \in [family : {"integer"}, by : {"ScInt.to"}, target : ScIntTypes, value : Int]
    PROVE  Sound(g)
<1>1. g.by = "ScInt.to" /\ g.value \in Int /\ g.target \in Types
  BY TypeFacts
<1>2. madeInteger(g) = IF g.value \in RANGES(g.target) THEN ScVal(g.target, g.value) ELSE OutOfRange
  BY <1>1 DEF madeInteger, toType
<1>3. QED
  BY <1>1, <1>2, ScValIsMade DEF Sound, MeansTheSame

LEMMA PartsAreSound ==
    ASSUME NEW g \in [family : {"integer"}, by : {"XdrLargeInt"}, type : ScIntTypes, value : Int]
    PROVE  Sound(g)
<1> DEFINE n == WordsOf[g.type]
           v == LargeIntClass(g.type, g.value)
<1>1. g.by = "XdrLargeInt" /\ g.value \in Int /\ g.type \in Types /\ n \in {1, 2, 4}
  BY TypeFacts
<1>2. /\ v \in RANGES(g.type) /\ v \in Int /\ (v - g.value) % Size(n) = 0
      /\ g.value \in RANGES(g.type) => v = g.value
  BY <1>1, WrapsIntoRange
<1>3. arrayToBigInt(g.type, slice(g.value, g.type)) = v
  BY <1>1, PartsJoin DEF LargeIntClass
<1> HIDE DEF v
<1>4. madeInteger(g) \in {OutOfRange, ScVal(g.type, v)}
  BY <1>1, <1>2, <1>3 DEF madeInteger, ScIntOf, toType
<1>5. QED
  BY <1>1, <1>2, <1>4, ScValIsMade DEF Sound, MeansTheSame

LEMMA ClassesAreSound ==
    ASSUME NEW g \in [family : {"integer"}, by : {"class"}, type : ClassTypes, value : Int]
    PROVE  Sound(g)
<1> DEFINE n == WordsOf[g.type]
           v == LargeIntClass(g.type, g.value)
<1>1. g.by = "class" /\ g.value \in Int /\ g.type \in Types /\ n \in {1, 2, 4}
  BY TypeFacts
<1>2. /\ v \in RANGES(g.type) /\ v \in Int /\ (v - g.value) % Size(n) = 0
      /\ g.value \in RANGES(g.type) => v = g.value
  BY <1>1, WrapsIntoRange
<1> HIDE DEF v
<1>3. madeInteger(g) = ScVal(g.type, v)
  BY <1>1 DEF madeInteger, v
<1>4. QED
  BY <1>1, <1>2, <1>3, ScValIsMade DEF Sound, MeansTheSame

\* A value in the range of one type, converted to another at least as wide.
LEMMA FitsWider ==
    ASSUME NEW type \in Types, NEW target \in Types,
           WordsOf[type] <= WordsOf[target], NEW v \in RANGES(Underlying(type))
    PROVE  /\ v \in Int
           /\ v \in -Size(WordsOf[target]) .. Size(WordsOf[target]) - 1
<1> DEFINE u == Underlying(type)
           s == Size(WordsOf[type])
           t == Size(WordsOf[target])
<1>1. u \in Types /\ WordsOf[u] = WordsOf[type]
  BY TypeFacts DEF Underlying, WordsOf
<1>2. s \in Nat /\ s \div 2 \in Nat /\ s = 2 * (s \div 2) /\ t \in Nat /\ s <= t
  BY TypeFacts, IntegerSizes
<1>3. v \in Int /\ v \in -s .. s - 1
  <2>1. RANGES(u) \subseteq Int /\ (RANGES(u) = -(s \div 2) .. s \div 2 - 1 \/ RANGES(u) = 0 .. s - 1)
    BY <1>1, RangesAre
  <2> HIDE DEF s
  <2>2. QED
    BY <1>2, <2>1
<1> HIDE DEF s, t
<1>4. v \in -t .. t - 1
  BY <1>2, <1>3
<1>5. QED
  BY <1>3, <1>4 DEF t

LEMMA ConvertedIsSound ==
    ASSUME NEW g \in [family : {"integer"}, by : {"compat.to"}, type : DOMAIN WordsOf, target : DOMAIN WordsOf, value : Int]
    PROVE  Sound(g)
<1> DEFINE v == g.value
           target == g.target
           size == Size(WordsOf[target])
           m == compatToType(g.type, v, target)
<1>1. g.by = "compat.to" /\ v \in Int /\ g.type \in Types /\ target \in Types
  BY DEF Types
<1>2. madeInteger(g) # OutOfRange =>
        madeInteger(g) = m /\ v \in RANGES(Underlying(g.type))
  BY <1>1 DEF madeInteger, CompatScInt, ScIntOf
<1>3. SUFFICES ASSUME v \in RANGES(Underlying(g.type)), m # OutOfRange
               PROVE  m \in Made /\ (OnTheWire(m) => MeansTheSame(g, m.type, scValToBigInt(m)))
  BY <1>2 DEF Sound
<1>4. WordsOf[g.type] <= WordsOf[target]
  BY <1>3 DEF compatToType, AssertFits
<1>5. v \in -size .. size - 1
  BY <1>1, <1>3, <1>4, FitsWider
<1>6. WordsOf[target] \in {1, 2, 4} /\ size \in Nat \ {0}
  BY <1>1, TypeFacts, IntegerSizes
<1>7. CASE target \in {"u64", "u128", "u256"}
  <2> DEFINE w == asUintN(WordsOf[target], v)
  <2>1. m = ScVal(target, w) /\ target \notin Signed
    BY <1>4, <1>7 DEF compatToType, AssertFits, Signed
  <2>2. w \in RANGES(target) /\ w \in Int
    BY <1>1, <2>1, WrapsIntoRange DEF LargeIntClass
  <2>3. (v < 0 => w = v + size) /\ (v >= 0 => w = v)
    <3>1. /\ v \in 0 .. size - 1 => w = v
          /\ v \in -size .. -1 => w = v + size
      BY <1>1, <1>6, WrapsUnsigned
    <3> HIDE DEF size, w
    <3>2. QED
      BY <1>1, <1>5, <1>6, <3>1
  <2> HIDE DEF w
  <2>4. m \in Made /\ m.type = target /\ scValToBigInt(m) = w
    BY <1>1, <2>1, <2>2, ScValIsMade
  <2>5. QED
    BY <1>1, <2>1, <2>3, <2>4 DEF MeansTheSame
<1>8. CASE target = "i64" \/ target \in {"timepoint", "duration"}
  <2>1. m = [type |-> target, words |-> <<v>>]
    BY <1>4, <1>8 DEF compatToType, AssertFits
  <2>2. WordsOf[target] = 1
    BY <1>8 DEF WordsOf
  <2>3. m \in Made /\ m.type = target /\ scValToBigInt(m) = v
    BY <1>1, <2>1, <2>2, OneWordIsMade
  <2>4. OnTheWire(m) /\ target \notin Signed => v >= 0
    BY <1>1, <2>1, BaseIsEven DEF OnTheWire
  <2>5. QED
    BY <1>1, <2>3, <2>4 DEF MeansTheSame
<1>9. CASE target \in {"i128", "i256"}
  <2>1. m = ScVal(target, v) /\ target \in Signed
    BY <1>4, <1>9 DEF compatToType, AssertFits, Signed
  <2>2. m \in Made /\ m.type = target /\ scValToBigInt(m) = v
    BY <1>1, <2>1, ScValIsMade
  <2>3. QED
    BY <1>1, <2>1, <2>2 DEF MeansTheSame
<1>10. QED
  BY <1>1, <1>7, <1>8, <1>9, TypeFacts

LEMMA EveryWayIsSound ==
    ASSUME NEW g \in IntegerInputs
    PROVE  Sound(g)
  BY UntypedIsSound, TypedIsSound, ConvertedIsSound, PartsAreSound, ClassesAreSound DEF IntegerInputs

-----------------------------------------------------------------------------
\* What is read of words that went over the wire is made into those words.

LEMMA WordBelow ==
    ASSUME NEW low \in Int, NEW high \in Int, NEW top \in low .. high - 1,
           NEW w \in 0 .. Base - 1
    PROVE  /\ top * Base + w \in low * Base .. high * Base - 1
           /\ (top * Base + w) % Base = w
           /\ (top * Base + w) \div Base = top
<1> DEFINE B == Base
<1>1. B \in Nat \ {0} /\ w \in 0 .. B - 1
  BY BaseIsEven
<1> HIDE DEF B
<1>2. low * B <= top * B
  BY <1>1
<1>3. (top + 1) * B <= high * B /\ (top + 1) * B = top * B + B
  BY <1>1
<1>4. top * B + w \in low * B .. high * B - 1
  BY <1>1, <1>2, <1>3
<1>5. top * B = B * top
  BY <1>1
<1>6. QED
  BY <1>1, <1>4, <1>5, DivisionIsUnique DEF B

\* The ends of the range of so many words.
Low(type, n) == IF type \in Signed THEN -(Size(n) \div 2) ELSE 0
High(type, n) == IF type \in Signed THEN Size(n) \div 2 ELSE Size(n)

LEMMA EndsGrow ==
    ASSUME NEW type, NEW n \in 1 .. 3
    PROVE  /\ Low(type, n) \in Int /\ High(type, n) \in Int
           /\ Low(type, n + 1) = Low(type, n) * Base
           /\ High(type, n + 1) = High(type, n) * Base
<1>1. PICK h \in Nat \ {0} : Size(n) = 2 * h
  BY SizesGrow, n - 1 \in 0 .. 3, (n - 1) + 1 = n
<1>2. Size(n + 1) = Base * Size(n) /\ Base \in Nat \ {0} /\ Size(n) \in Nat
  BY SizesGrow, BaseIsEven
<1>3. Size(n + 1) = 2 * (h * Base) /\ h * Base \in Nat
  BY <1>1, <1>2
<1>4. Size(n) \div 2 = h
  BY <1>1, DivisionIsUnique, 2 * h = 2 * h + 0
<1>5. Size(n + 1) \div 2 = h * Base
  <2> DEFINE k == h * Base
  <2>1. k \in Nat /\ Size(n + 1) = 2 * k + 0
    BY <1>3
  <2> HIDE DEF k
  <2>2. Size(n + 1) \div 2 = k
    BY <2>1, DivisionIsUnique
  <2>3. QED
    BY <2>2 DEF k
<1>6. QED
  BY <1>1, <1>2, <1>3, <1>4, <1>5 DEF Low, High

LEMMA LongerInRange ==
    ASSUME NEW type, NEW n \in 1 .. 3, NEW m \in 2 .. 4, m = n + 1,
           NEW top \in Low(type, n) .. High(type, n) - 1, NEW w \in 0 .. Base - 1
    PROVE  /\ top * Base + w \in Low(type, m) .. High(type, m) - 1
           /\ (top * Base + w) % Base = w
           /\ (top * Base + w) \div Base = top
<1>1. /\ Low(type, n) \in Int /\ High(type, n) \in Int
      /\ Low(type, m) = Low(type, n) * Base
      /\ High(type, m) = High(type, n) * Base
  BY EndsGrow
<1>2. QED
  BY <1>1, WordBelow

LEMMA WireJoins ==
    ASSUME NEW type \in Types, NEW words \in [1 .. WordsOf[type] -> Int],
           OnTheWire([type |-> type, words |-> words])
    PROVE  /\ scValToBigInt([type |-> type, words |-> words]) \in RANGES(type)
           /\ ScVal(type, scValToBigInt([type |-> type, words |-> words])) = [type |-> type, words |-> words]
<1> DEFINE n == WordsOf[type]
           B == Base
           v == scValToBigInt([type |-> type, words |-> words])
<1>1. n \in {1, 2, 4} /\ B \in Nat \ {0}
  BY TypeFacts, BaseIsEven
<1>2. /\ \A w \in 2 .. n : words[w] \in 0 .. B - 1
      /\ words[1] \in Low(type, 1) .. High(type, 1) - 1
  <2>1. DOMAIN words = 1 .. n /\ Size(1) = B
    BY DEF Size
  <2>2. QED
    BY <1>1, <2>1 DEF OnTheWire, Low, High
<1>3. type \notin Signed => words[1] \in 0 .. B - 1
  <2>1. Size(1) = B
    BY DEF Size
  <2>2. QED
    BY <1>2, <2>1 DEF Low, High
<1>4. v = joined(words)
  BY <1>2, <1>3, ReadsWords
<1>5. RANGES(type) = Low(type, n) .. High(type, n) - 1 /\ RANGES(type) \subseteq Int
  BY RangesAre DEF Low, High
<1> DEFINE q(k) == v \div Size(k)
<1>6. v \in Int => q(0) = v /\ \A k \in 0 .. 2 : q(k + 1) = q(k) \div B
  BY ShiftedByWords
<1>7. v \in RANGES(type) => split(type, v)[1] = q(n - 1)
                            /\ split(type, v) \in [1 .. n -> Int]
                            /\ \A w \in 2 .. n : split(type, v)[w] = q(n - w) % B
  <2>1. v \in RANGES(type) => v \in Int /\ (type \in Signed \/ v \in 0 .. Size(n) - 1)
    BY <1>5, RangesAre
  <2>2. QED
    BY <2>1, SplitWords
<1>8. SUFFICES v \in RANGES(type) /\ q(n - 1) = words[1] /\ \A w \in 2 .. n : q(n - w) % B = words[w]
  <2> HIDE DEF v
  <2>1. SUFFICES ASSUME v \in RANGES(type), q(n - 1) = words[1],
                        \A w \in 2 .. n : q(n - w) % B = words[w]
                 PROVE  split(type, v) = words
    BY DEF ScVal, v
  <2>2. \A w \in 1 .. n : split(type, v)[w] = words[w]
    BY <1>1, <1>7, <2>1
  <2>3. /\ split(type, v) = [w \in 1 .. n |-> split(type, v)[w]]
        /\ words = [w \in 1 .. n |-> words[w]]
    BY <1>7, <2>1
  <2>4. QED
    BY <2>2, <2>3
<1> HIDE DEF v, q
<1>11. CASE n = 1
  <2>1. Len(words) = 1
    BY <1>11
  <2>2. v = words[1]
    BY <1>4, <2>1 DEF joined
  <2>3. QED
    BY <1>2, <1>5, <1>6, <1>11, <2>2
<1>12. CASE n = 2
  <2>1. v = words[1] * B + words[2]
    BY <1>4, <1>12 DEF joined
  <2>2. words[2] \in 0 .. B - 1
    BY <1>2, <1>12
  <2>3. v \in Low(type, 2) .. High(type, 2) - 1 /\ v % B = words[2] /\ v \div B = words[1]
    BY <1>2, <2>1, <2>2, LongerInRange, 2 = 1 + 1
  <2>4. v \in RANGES(type) /\ v \in Int
    BY <1>5, <1>12, <2>3
  <2>5. q(0) = v /\ q(1) = words[1]
    BY <1>6, <2>3, <2>4, 0 + 1 = 1
  <2>6. QED
    BY <1>12, <2>3, <2>4, <2>5
<1>13. CASE n = 4
  <2> DEFINE c == words[1] * B + words[2]
             d == c * B + words[3]
  <2>1. v = d * B + words[4]
    BY <1>4, <1>13 DEF joined
  <2>2. words[2] \in 0 .. B - 1 /\ words[3] \in 0 .. B - 1 /\ words[4] \in 0 .. B - 1
    BY <1>2, <1>13
  <2> HIDE DEF c
  <2>3. c \in Low(type, 2) .. High(type, 2) - 1 /\ c % B = words[2] /\ c \div B = words[1]
    <3>1. c = words[1] * B + words[2]
      BY DEF c
    <3>2. QED
      BY <1>2, <2>2, <3>1, LongerInRange, 2 = 1 + 1
  <2>4. d \in Low(type, 3) .. High(type, 3) - 1 /\ d % B = words[3] /\ d \div B = c
    BY <2>2, <2>3, LongerInRange, 3 = 2 + 1
  <2> HIDE DEF d
  <2>5. v \in Low(type, 4) .. High(type, 4) - 1 /\ v % B = words[4] /\ v \div B = d
    BY <2>1, <2>2, <2>4, LongerInRange, 4 = 3 + 1
  <2>6. v \in RANGES(type) /\ v \in Int
    BY <1>5, <1>13, <2>5
  <2>7. q(0) = v /\ q(1) = d /\ q(2) = c /\ q(3) = words[1]
    BY <1>6, <2>3, <2>4, <2>5, <2>6, 0 + 1 = 1, 1 + 1 = 2, 2 + 1 = 3
  <2>8. QED
    BY <1>13, <2>3, <2>4, <2>5, <2>6, <2>7
<1>14. QED
  BY <1>1, <1>11, <1>12, <1>13

-----------------------------------------------------------------------------
\* The rounds.

\* Where a round is: what was made is made of what is given, and what was read
\* and made again comes from it.
RoundInv ==
    /\ given \in IntegerInputs
    /\ made # Pending => made = madeInteger(given)
    /\ shown # Pending => made \notin {Pending, OutOfRange} /\ shown = scValToBigInt(made)
    /\ again # Pending => shown # Pending /\ again = toType(made.type, shown)

LEMMA InitRound == RoundInit => RoundInv
  BY DEF RoundInit, RoundInv

LEMMA NextRound == RoundInv /\ [RoundNext]_vars => RoundInv'
<1> SUFFICES ASSUME RoundInv, [RoundNext]_vars
             PROVE  RoundInv'
  OBVIOUS
<1> USE DEF RoundInv
<1>1. CASE MakeInteger
  BY <1>1 DEF MakeInteger
<1>2. CASE ShowInteger
  BY <1>2 DEF ShowInteger
<1>3. CASE RemakeInteger
  BY <1>3 DEF RemakeInteger
<1>4. CASE UNCHANGED vars
  BY <1>4 DEF vars
<1>5. QED
  BY <1>1, <1>2, <1>3, <1>4 DEF RoundNext

LEMMA SpecRound == RoundSpec => []RoundInv
  BY InitRound, NextRound, PTL DEF RoundSpec

LEMMA RoundsKeepValue ==
    ASSUME RoundInv
    PROVE  IntegersKeepTheirValue
<1> SUFFICES ASSUME shown # Pending, OnTheWire(made)
             PROVE  MeansTheSame(given, made.type, shown)
  BY DEF IntegersKeepTheirValue
<1>1. given \in IntegerInputs /\ made = madeInteger(given) /\ made # OutOfRange /\ shown = scValToBigInt(made)
  BY DEF RoundInv
<1>2. Sound(given)
  BY <1>1, EveryWayIsSound
<1>3. QED
  BY <1>1, <1>2 DEF Sound

LEMMA RoundsRebuild ==
    ASSUME RoundInv
    PROVE  IntegersAreRebuilt
<1> SUFFICES ASSUME again # Pending, OnTheWire(made)
             PROVE  again = made
  BY DEF IntegersAreRebuilt
<1>1. /\ given \in IntegerInputs /\ made = madeInteger(given) /\ made # OutOfRange
      /\ shown = scValToBigInt(made) /\ again = toType(made.type, shown)
  BY DEF RoundInv
<1>2. made \in Made
  BY <1>1, EveryWayIsSound DEF Sound
<1>3. PICK type \in Types :
        \E words \in [1 .. WordsOf[type] -> Int] : made = [type |-> type, words |-> words]
  BY <1>2 DEF Made
<1>6. PICK words \in [1 .. WordsOf[type] -> Int] : made = [type |-> type, words |-> words]
  BY <1>3
<1>4. made.type = type /\ shown \in RANGES(type) /\ ScVal(type, shown) = made
  <2>1. OnTheWire([type |-> type, words |-> words])
    BY <1>6
  <2>2. QED
    BY <1>1, <1>6, <2>1, WireJoins
<1>5. QED
  BY <1>1, <1>4 DEF toType

\* For parts of any even number of values, and for every integer, given in any
\* of the ways to make one: what goes on the wire is read as the integer that
\* was given (scint.ts, scval-bigint.ts, scint-compat.ts, xdr-large-int.ts).
THEOREM IntegersRoundTrip == RoundSpec => []IntegersKeepTheirValue
<1>1. RoundInv => IntegersKeepTheirValue
  BY RoundsKeepValue
<1>2. QED
  BY <1>1, SpecRound, PTL

\* The same for what was read: made into its type again, it has the words that
\* came over the wire, each of which must be in its range (scint.ts).
THEOREM IntegersRebuild == RoundSpec => []IntegersAreRebuilt
<1>1. RoundInv => IntegersAreRebuilt
  BY RoundsRebuild
<1>2. QED
  BY <1>1, SpecRound, PTL

=============================================================================
