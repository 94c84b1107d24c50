------------------------------ MODULE LargeInts ------------------------------
(***************************************************************************)
(* Integers of 64, 128 and 256 bits between a number and an ScVal: the ScInt *)
(* of the contracts package, which checks ranges; that of the compatibility *)
(* package, which compares only widths and lets a value of the other sign   *)
(* wrap; and XdrLargeInt, which may be built from 32-bit parts.  Part is the *)
(* number of values of a part and stands for 2^32; an ScVal holds its words *)
(* of two parts each, the highest first.                                    *)
(***************************************************************************)
EXTENDS Integers, Sequences

CONSTANTS Part, OutOfRange

ASSUME PartAssumption == Part \in Nat \ {0} /\ Part % 2 = 0

Base == Part * Part

\* Base ^ words.
Size(words) ==
    CASE words = 0 -> 1
      [] words = 1 -> Base
      [] words = 2 -> Base * Base
      [] words = 3 -> Base * (Base * Base)
      [] words = 4 -> Base * (Base * (Base * Base))

asUintN(words, v) == v % Size(words)
asIntN(words, v) ==
    LET u == asUintN(words, v) IN IF 2 * u < Size(words) THEN u ELSE u - Size(words)

\* The words a type has on the wire, and whether it has a sign.
WordsOf == [i64 |-> 1, u64 |-> 1, timepoint |-> 1, duration |-> 1,
            i128 |-> 2, u128 |-> 2, i256 |-> 4, u256 |-> 4]
Signed == {"i64", "i128", "i256"}
ScIntTypes == {"i64", "u64", "i128", "u128", "i256", "u256"}

RANGES(type) ==
    LET size == Size(WordsOf[type])
    IN  IF type \in Signed THEN -(size \div 2) .. size \div 2 - 1 ELSE 0 .. size - 1

\* The words of a value, the highest first; only the highest of a signed type
\* keeps the sign.
split(type, v) ==
    LET n == WordsOf[type]
    IN  [w \in 1 .. n |->
            LET shifted == v \div Size(n - w)
            IN  IF w = 1 /\ type \in Signed THEN shifted ELSE shifted % Base]

\* One, two or four words, the highest first, as one number.
joined(words) ==
    CASE Len(words) = 1 -> words[1]
      [] Len(words) = 2 -> words[1] * Base + words[2]
      [] Len(words) = 4 -> ((words[1] * Base + words[2]) * Base + words[3]) * Base + words[4]

ScVal(type, v) == [type |-> type, words |-> split(type, v)]

Smallest(v) ==
    IF v >= 0 THEN << "u64", "u128", "u256" >> ELSE << "i64", "i128", "i256" >>

autoDetectType(v) ==
    LET type == Smallest(v)
    IN  IF v \in RANGES(type[1]) THEN type[1]
        ELSE IF v \in RANGES(type[2]) THEN type[2]
        ELSE IF v \in RANGES(type[3]) THEN type[3]
        ELSE OutOfRange

-----------------------------------------------------------------------------
\* ScInt of the contracts package.

ScIntOf(type, v) == IF type # OutOfRange /\ v \in RANGES(type) THEN v ELSE OutOfRange

toType(type, v) == IF v \in RANGES(type) THEN ScVal(type, v) ELSE OutOfRange

toScVal(v) == LET t == autoDetectType(v)
              IN  IF t = OutOfRange THEN OutOfRange ELSE ScVal(t, v)

\* Every word is read as unsigned but a single one and the highest of a signed
\* type.
scValToBigInt(scv) ==
    LET n == Len(scv.words)
    IN  joined([w \in 1 .. n |->
            IF n = 1 \/ (w = 1 /\ scv.type \in Signed) THEN scv.words[w]
            ELSE asUintN(1, scv.words[w])])

-----------------------------------------------------------------------------
\* ScInt of the compatibility package, of a type of eight.

Underlying(type) == IF type \in {"timepoint", "duration"} THEN "u64" ELSE type

CompatScInt(type, v) == ScIntOf(Underlying(type), v)

AssertFits(type, target) == WordsOf[type] <= WordsOf[target]

\* Conversion to a target: a width too small throws, except that nothing is
\* too wide for 256 bits; an unsigned target takes the two's complement.
compatToType(type, v, target) ==
    IF ~AssertFits(type, target) THEN OutOfRange
    ELSE CASE target \in {"u64", "u128", "u256"} ->
                ScVal(target, asUintN(WordsOf[target], v))
           [] target = "i64" \/ target \in {"timepoint", "duration"} ->
                [type |-> target, words |-> <<v>>]
           [] OTHER -> ScVal(target, v)

compatToScVal(type, v) ==
    IF type \in {"timepoint", "duration"} THEN compatToType(type, v, type) ELSE ScVal(type, v)

-----------------------------------------------------------------------------
\* XdrLargeInt: the parts are the lowest first and may be given as signed.

u32PairToU64Signed(low, high) == high * Part + low

u32PairToU64(low, high) == (high % Part) * Part + (low % Part)

arrayToBigInt(type, parts) ==
    LET n == WordsOf[type]
        word(w) == u32PairToU64(parts[2 * w - 1], parts[2 * w])
        sum == joined([w \in 1 .. n |-> word(n + 1 - w)])
    IN  IF Len(parts) # 2 * n THEN OutOfRange
        ELSE IF type \in Signed THEN asIntN(n, sum) ELSE sum

\* The integer classes wrap what does not fit; a slice of one gives signed
\* parts, as a caller of any type may.
LargeIntClass(type, v) ==
    IF type \in Signed THEN asIntN(WordsOf[type], v) ELSE asUintN(WordsOf[type], v)

slice(v, type) ==
    LET word(w) == (asUintN(WordsOf[type], v) \div Size(w - 1)) % Base
        part(i) == IF i % 2 = 1 THEN word((i + 1) \div 2) % Part ELSE word(i \div 2) \div Part
    IN  [i \in 1 .. 2 * WordsOf[type] |->
            IF 2 * part(i) < Part THEN part(i) ELSE part(i) - Part]

\* nativeToScVal of a number without a type: the largest unsigned 64 bits,
\* then one short of the lowest signed 64, then 128 bits without a check.
autoScVal(v) ==
    IF v \in RANGES("u64") THEN ScVal("u64", v)
    ELSE IF v < 0 /\ v > -(Base \div 2) THEN ScVal("i64", v)
    ELSE [type |-> IF v >= 0 THEN "u128" ELSE "i128", words |-> << v \div Base, v % Base >>]

\* scValToNative of an integer: the words as they are.
nativeInteger(scv) == joined(scv.words)

\* What the XDR encoder takes: every word in its range.
OnTheWire(scv) ==
    \A w \in DOMAIN scv.words :
        IF w = 1 /\ scv.type \in Signed
        THEN scv.words[w] \in -(Base \div 2) .. Base \div 2 - 1
        ELSE scv.words[w] \in 0 .. Base - 1

=============================================================================
