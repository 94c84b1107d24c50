------------------------------- MODULE ScVals -------------------------------
(***************************************************************************)
(* nativeToScVal and scValToNative: values of the host language to ScVals   *)
(* and back, with the Address class of the compatibility package.           *)
(*                                                                          *)
(* A native value is a record of its kind; a text is a number that orders   *)
(* it, and names the bytes that are its UTF-8 encoding as well.  NotUtf8    *)
(* stands for bytes that encode no text, which decode to Replaced.  An      *)
(* address is the version and the payload of its strkey.                    *)
(***************************************************************************)
EXTENDS LargeInts, SequencesExt

NotUtf8 == -1
Replaced == -2

textDecode(bytes) == IF bytes = NotUtf8 THEN Replaced ELSE bytes

-----------------------------------------------------------------------------
\* Addresses: every version but those of the three other kinds of key.

SUPPORTED_VERSIONS == {"G", "C", "M", "B", "L"}

newAddress(strkey) == IF strkey.version \in SUPPORTED_VERSIONS THEN strkey ELSE OutOfRange

toScAddress(a) ==
    CASE a.version = "G" -> [arm |-> "Account", key |-> a.key]
      [] a.version = "C" -> [arm |-> "Contract", key |-> a.key]
      [] a.version = "M" -> [arm |-> "MuxedAccount", key |-> a.key, id |-> a.id]
      [] a.version = "B" -> [arm |-> "ClaimableBalance", key |-> a.key]
      [] a.version = "L" -> [arm |-> "LiquidityPool", key |-> a.key]

fromScAddress(x) ==
    CASE x.arm = "Account"          -> [version |-> "G", key |-> x.key]
      [] x.arm = "Contract"         -> [version |-> "C", key |-> x.key]
      [] x.arm = "MuxedAccount"     -> [version |-> "M", key |-> x.key, id |-> x.id]
      [] x.arm = "ClaimableBalance" -> [version |-> "B", key |-> x.key]
      [] x.arm = "LiquidityPool"    -> [version |-> "L", key |-> x.key]

-----------------------------------------------------------------------------
\* A type given to nativeToScVal is absent, a name, a sequence (one per
\* element) or a function (a pair of names per key).

NoType == [of |-> "none"]
Named(name) == [of |-> "name", name |-> name]

NUMERIC_TYPES == DOMAIN WordsOf

\* A value with the name of a type.
typedScVal(val, name) ==
    CASE name = "void" -> [type |-> "void"]
      [] name = "bool" -> [type |-> "bool", v |-> IF val.kind = "bool" THEN val.v ELSE val.v # 0]
      [] name \in {"u32", "i32"} -> [type |-> name, v |-> val.v]
      [] name \in NUMERIC_TYPES ->
            LET n == CompatScInt(name, val.v)
            IN  IF n = OutOfRange THEN OutOfRange ELSE compatToScVal(name, n)
      [] name = "bytes" -> [type |-> "bytes", v |-> val.v]
      [] name \in {"string", "symbol"} ->
            [type |-> name, v |-> IF val.kind = "bytes" THEN textDecode(val.v) ELSE val.v]
      [] name = "address" ->
            LET a == newAddress(val.v)
            IN  IF a = OutOfRange THEN OutOfRange ELSE [type |-> name, v |-> toScAddress(a)]
      [] OTHER -> OutOfRange

\* A value of one of the plain kinds, without a type.
plainScVal(val) ==
    CASE val.kind = "bool"    -> [type |-> "bool", v |-> val.v]
      [] val.kind = "number"  -> autoScVal(val.v)
      [] val.kind = "text"    -> [type |-> "string", v |-> val.v]
      [] val.kind = "bytes"   -> [type |-> "bytes", v |-> val.v]
      [] val.kind = "address" -> [type |-> "address", v |-> toScAddress(val.v)]

RECURSIVE buildModern(_, _)

\* One element that throws makes the whole conversion throw.
Whole(type, parts) ==
    IF \E i \in DOMAIN parts : OutOfRange \in Range(parts[i]) THEN OutOfRange
    ELSE [type |-> type, v |-> parts]

buildVec(val, hint) ==
    LET hintOf(i) == CASE hint.of = "each" -> IF i <= Len(hint.each) THEN hint.each[i] ELSE NoType
                       [] hint.of = "name" -> hint
                       [] OTHER -> NoType
    IN  Whole("vec", [i \in DOMAIN val.v |-> << buildModern(val.v[i], hintOf(i)) >>])

\* The keys of an object in the order of their texts.
buildMap(val, hint) ==
    LET keys == SetToSortSeq(DOMAIN val.v, <)
        hintOf(k) == IF hint.of = "keys" /\ k \in DOMAIN hint.keys THEN hint.keys[k]
                     ELSE << NoType, NoType >>
    IN  Whole("map", [i \in DOMAIN keys |->
                        LET k == keys[i]
                        IN  << buildModern([kind |-> "text", v |-> k], hintOf(k)[1]),
                               buildModern(val.v[k], hintOf(k)[2]) >>])

buildModern(val, hint) ==
    CASE val.kind = "null"  -> [type |-> "void"]
      [] val.kind = "array" -> buildVec(val, hint)
      [] val.kind \notin {"null", "array"} /\ hint.of = "name" -> typedScVal(val, hint.name)
      [] val.kind = "object" /\ hint.of # "name" -> buildMap(val, hint)
      [] OTHER -> plainScVal(val)

\* An address is shown as its text.
RECURSIVE scValToNative(_)
scValToNative(scv) ==
    CASE scv.type = "void" -> [kind |-> "null"]
      [] scv.type = "bool" -> [kind |-> "bool", v |-> scv.v]
      [] scv.type \in {"u32", "i32"} -> [kind |-> "number", v |-> scv.v]
      [] scv.type \in NUMERIC_TYPES -> [kind |-> "number", v |-> nativeInteger(scv)]
      [] scv.type = "bytes" -> [kind |-> "bytes", v |-> scv.v]
      [] scv.type \in {"string", "symbol"} -> [kind |-> "text", v |-> scv.v]
      [] scv.type = "address" -> [kind |-> "text", v |-> fromScAddress(scv.v)]
      [] scv.type = "vec" ->
            [kind |-> "array", v |-> [i \in DOMAIN scv.v |-> scValToNative(scv.v[i][1])]]
      [] scv.type = "map" ->
            [kind |-> "object",
             v |-> [k \in {scValToNative(scv.v[i][1]).v : i \in DOMAIN scv.v} |->
                        scValToNative(scv.v[CHOOSE i \in DOMAIN scv.v :
                            /\ scValToNative(scv.v[i][1]).v = k
                            /\ \A j \in i + 1 .. Len(scv.v) :
                                  scValToNative(scv.v[j][1]).v # k][2])]]

=============================================================================
