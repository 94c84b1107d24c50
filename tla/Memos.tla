-------------------------------- MODULE Memos --------------------------------
(***************************************************************************)
(* The Memo class of the compatibility package and the token amounts of its *)
(* Soroban helpers.  A text memo is given as a text, whose characters here  *)
(* are code points below 256, or as bytes; the XDR string a memo ends in    *)
(* is the UTF-8 encoding of the text that is kept.  Hashes are named, and a *)
(* decimal text is a sequence of digits, Point and Minus.                   *)
(***************************************************************************)
EXTENDS Integers, Sequences, SequencesExt

CONSTANTS
    Refused,     \* the outcome of a call that throws
    MaxText,     \* the longest text, in bytes (28 in the code)
    MaxId        \* the highest id (2^64 - 1)

Ascii == 128

\* UTF-8 of a text of code points below 256.
utf8(text) ==
    FlattenSeq([i \in DOMAIN text |->
        IF text[i] < Ascii THEN << text[i] >>
        ELSE << 192 + text[i] \div 64, 128 + (text[i] % 64) >>])

newMemo(m) ==
    CASE m.type = "none" -> m
      [] m.type = "text" ->
            LET bytes == IF m.form = "text" THEN utf8(m.value) ELSE m.value
            IN  IF Len(bytes) > MaxText THEN Refused ELSE m
      [] m.type = "id" -> IF m.value \in 0 .. MaxId THEN m ELSE Refused
      [] m.type \in {"hash", "return"} -> IF m.value.len = 32 THEN m ELSE Refused

\* Bytes become the text of the code points they number, which is measured and
\* encoded again.
memoToModern(m) ==
    IF m.type = "text" /\ Len(utf8(m.value)) > MaxText THEN Refused
    ELSE IF m.type = "text" THEN [type |-> "text", form |-> "text", value |-> m.value]
    ELSE m

memoFromModern(modern) == newMemo(modern)

-----------------------------------------------------------------------------
\* Token amounts.

Point == -1
Minus == -2

IsZeros(digits) == \A i \in DOMAIN digits : digits[i] = 0
Trailing(digits) == \* digits without their trailing zeros, or one zero
    IF IsZeros(digits) THEN <<0>>
    ELSE SubSeq(digits, 1, CHOOSE i \in DOMAIN digits :
                    digits[i] # 0 /\ IsZeros(SubSeq(digits, i + 1, Len(digits))))
Leading(digits) == Reverse(Trailing(Reverse(digits)))

Unsigned(text) == IF text # <<>> /\ Head(text) = Minus THEN Tail(text) ELSE text
SignOf(text) == SubSeq(text, 1, Len(text) - Len(Unsigned(text)))

formatTokenAmount(text, decimals) ==
    IF Contains(text, Point) THEN Refused
    ELSE IF decimals = 0 THEN text
    ELSE LET abs    == Unsigned(text)
             padded == [i \in 1 .. decimals + 1 - Len(abs) |-> 0] \o abs
             point  == Len(padded) - decimals
         IN  SignOf(text) \o SubSeq(padded, 1, point) \o <<Point>>
             \o Trailing(SubSeq(padded, point + 1, Len(padded)))

parseTokenAmount(text, decimals) ==
    LET abs   == Unsigned(text)
        at    == SelectInSeq(abs, LAMBDA c : c = Point)
        whole == IF at = 0 THEN abs ELSE SubSeq(abs, 1, at - 1)
        frac  == IF at = 0 THEN <<>> ELSE SubSeq(abs, at + 1, Len(abs))
    IN  IF Contains(frac, Point) \/ Len(frac) > decimals THEN Refused
        ELSE SignOf(text)
             \o Leading(whole \o frac \o [i \in 1 .. decimals - Len(frac) |-> 0])

=============================================================================
