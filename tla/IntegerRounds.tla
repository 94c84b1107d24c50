---------------------------- MODULE IntegerRounds ----------------------------
(***************************************************************************)
(* A large integer is made into an ScVal, read back from it, and made once  *)
(* more: the round of Conversions for integers alone, from any integer.     *)
(* Conversions shares the variables, and tells its other rounds by their    *)
(* family.                                                                  *)
(***************************************************************************)
EXTENDS LargeInts

CONSTANT Pending   \* a value that is not there yet

VARIABLES given, made, shown, again
vars == << given, made, shown, again >>

\* The ways to make an integer: typed and untyped, from parts, and converted
\* to another type.
ClassTypes == {"i128", "u128", "i256", "u256"}
IntegerInputs ==
    [family : {"integer"}, by : {"ScInt"}, value : Int]
    \cup [family : {"integer"}, by : {"ScInt.to"}, target : ScIntTypes, value : Int]
    \cup [family : {"integer"}, by : {"compat.to"}, type : DOMAIN WordsOf,
           target : DOMAIN WordsOf, value : Int]
    \cup [family : {"integer"}, by : {"XdrLargeInt"}, type : ScIntTypes, value : Int]
    \cup [family : {"integer"}, by : {"class"}, type : ClassTypes, value : Int]

madeInteger(g) ==
    CASE g.by = "ScInt"       -> toScVal(g.value)
      [] g.by = "ScInt.to"    -> toType(g.target, g.value)
      [] g.by = "compat.to"   ->
            LET n == CompatScInt(g.type, g.value)
            IN  IF n = OutOfRange THEN OutOfRange ELSE compatToType(g.type, n, g.target)
      [] g.by = "XdrLargeInt" ->
            LET n == ScIntOf(g.type, arrayToBigInt(g.type, slice(g.value, g.type)))
            IN  IF n = OutOfRange THEN OutOfRange ELSE toType(g.type, n)
      [] g.by = "class"       -> ScVal(g.type, LargeIntClass(g.type, g.value))

RoundInit ==
    /\ given \in IntegerInputs
    /\ made = Pending /\ shown = Pending /\ again = Pending

MakeInteger ==
    /\ made = Pending
    /\ made' = madeInteger(given)
    /\ UNCHANGED << given, shown, again >>

ShowInteger ==
    /\ made \notin {Pending, OutOfRange} /\ shown = Pending
    /\ shown' = scValToBigInt(made)
    /\ UNCHANGED << given, made, again >>

RemakeInteger ==
    /\ shown # Pending /\ again = Pending
    /\ again' = toType(made.type, shown)
    /\ UNCHANGED << given, made, shown >>

RoundNext == MakeInteger \/ ShowInteger \/ RemakeInteger

RoundSpec == RoundInit /\ [][RoundNext]_vars

-----------------------------------------------------------------------------
\* What is read means what was given: a negative integer that was converted to
\* an unsigned type is its two's complement, one too wide for an integer class
\* wraps into its range, and any other is itself.
MeansTheSame(g, type, v) ==
    IF g.by = "compat.to" /\ g.value < 0 /\ type \notin Signed
    THEN v = g.value + Size(WordsOf[type])
    ELSE IF g.by \in {"XdrLargeInt", "class"} /\ g.value \notin RANGES(type)
    THEN v \in RANGES(type) /\ (v - g.value) % Size(WordsOf[type]) = 0
    ELSE v = g.value

\* An integer that goes on the wire is read there as the integer that was
\* given, whichever of the three classes made it and at either end of its
\* range (scint.ts, scint-compat.ts, xdr-large-int.ts).
IntegersKeepTheirValue ==
    given.family = "integer" /\ shown # Pending /\ OnTheWire(made) =>
        MeansTheSame(given, made.type, shown)

\* What the words of a value were read as is made into the same words again.
IntegersAreRebuilt ==
    given.family = "integer" /\ again # Pending /\ OnTheWire(made) => again = made

=============================================================================
