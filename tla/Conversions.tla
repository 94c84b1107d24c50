----------------------------- MODULE Conversions -----------------------------
(***************************************************************************)
(* What a caller gives is made into the value that goes on the wire, that   *)
(* value is shown again in the caller's terms, and what is shown is made    *)
(* once more: the round every conversion of the SDK has to survive, for     *)
(* operations, strkeys, large integers, ScVals, memos and token amounts.    *)
(*                                                                          *)
(* "received" is an operation that came from the network and "payload" a    *)
(* strkey text somebody else wrote; both start from the wire.               *)
(***************************************************************************)
EXTENDS Operations, IntegerRounds

CONSTANTS
    Given,                                \* what callers give, a set for each kind
    KeyBytes, IdBytes, Word, MaxInner,    \* sizes of strkeys
    MaxText, MaxId                        \* bounds of a memo

K == INSTANCE StrKey WITH Bad <- Invalid
S == INSTANCE ScVals WITH OutOfRange <- Invalid
M == INSTANCE Memos WITH Refused <- Invalid

-----------------------------------------------------------------------------
MakeOf(g) ==
    CASE g.family = "operation" -> make(g.options)
      [] g.family = "received"  -> g.op
      [] g.family = "strkey"    -> K!strkeyToString(g.key)
      [] g.family = "payload"   -> K!encodeStrkey(g.version, g.payload)
      [] g.family = "native"    -> S!buildModern(g.val, g.hint)
      [] g.family = "memo"      -> LET m == M!newMemo(g.memo)
                                   IN  IF m = Invalid THEN Invalid ELSE M!memoToModern(m)
      [] g.family = "token"     -> M!formatTokenAmount(g.digits, g.decimals)

ShowOf(g, m) ==
    CASE g.family \in {"operation", "received"} -> fromXDRObject(m)
      [] g.family \in {"strkey", "payload"}     -> K!strkeyFromString(m)
      [] g.family = "native"  -> S!scValToNative(m)
      [] g.family = "memo"    -> M!memoFromModern(m)
      [] g.family = "token"   -> M!parseTokenAmount(m, g.decimals)

\* An operation is made from the object that shows it; only a trust line is
\* given by another name than it is shown by.
Options(o) ==
    CASE o.type = "changeTrust" -> [asset |-> o.line] @@ o
      [] o.type = "setTrustLineFlags" -> [clearFlags |-> None, setFlags |-> None] @@ o
      [] OTHER -> o

MakeAgain(g, s) ==
    CASE g.family \in {"operation", "received"} -> make(Options(s))
      [] g.family \in {"strkey", "payload"}     -> K!strkeyToString(s)
      [] g.family = "native"  -> S!buildModern(s, g.hint)
      [] g.family = "memo"    -> M!memoToModern(s)
      [] g.family = "token"   -> M!formatTokenAmount(s, g.decimals)

Init ==
    /\ \E kind \in DOMAIN Given : given \in Given[kind]
    /\ made = Pending /\ shown = Pending /\ again = Pending

\* A factory, an encoder or a constructor is called.
Make ==
    /\ made = Pending
    /\ made' = MakeOf(given)
    /\ UNCHANGED << given, shown, again >>

\* The value is decoded, perhaps by another program that received it.
Show ==
    /\ made \notin {Pending, Invalid} /\ shown = Pending
    /\ shown' = ShowOf(given, made)
    /\ UNCHANGED << given, made, again >>

\* What was shown is given back.
Remake ==
    /\ shown \notin {Pending, Invalid} /\ again = Pending
    /\ again' = MakeAgain(given, shown)
    /\ UNCHANGED << given, made, shown >>

Next ==
    \/ given.family = "integer" /\ RoundNext
    \/ given.family # "integer" /\ (Make \/ Show \/ Remake)

Spec == Init /\ [][Next]_vars

-----------------------------------------------------------------------------
\* What a caller's texts mean, told apart from how the code reads them.

Fields == {"startingBalance", "amount", "sendMax", "destAmount", "sendAmount", "destMin",
           "buyAmount", "limit", "maxAmountA", "maxAmountB", "minAmountA", "minAmountB"}
Prices == {"price", "minPrice", "maxPrice"}

\* A decimal text is its digits, at the place they stand, under one sign.
Negative(part) == part # <<>> /\ Head(part) = Minus
Digits(part) == SelectSeq(part, LAMBDA d : d # Minus)
DecimalValue(parts) ==
    LET frac == IF Len(parts) = 2 THEN Digits(parts[2]) ELSE <<>>
        size == FoldLeft(LAMBDA n, d : 10 * n + d, 0, Digits(parts[1]) \o PadEnd(frac, Places))
    IN  IF Negative(parts[1]) THEN -size ELSE size

Num(price) == IF IsPair(price) THEN price.n ELSE price.num
Den(price) == IF IsPair(price) THEN price.d ELSE price.den

\* Two prices agree if they are equal, or if the second is as close to the
\* first as a denominator the code tries allows.
PriceAgrees(p, q) ==
    \/ Num(p) * Den(q) = Num(q) * Den(p)
    \/ LET want == [num |-> Num(p), den |-> Den(p)]
       IN  /\ \A d \in 1 .. MaxDenom : (Num(p) * d) % Den(p) # 0
           /\ \A d \in 1 .. MaxDenom : \A n \in 0 .. (Num(p) * d) \div Den(p) + 1 :
                 ~Smaller(PriceError(want, n, d), PriceError(want, Num(q), Den(q)))

\* A signer is an address, whichever way it is written.
SignerMeaning(keys) ==
    CASE "sha256Hash" \in DOMAIN keys -> [version |-> "X", key |-> keys.sha256Hash.hash]
      [] "preAuthTx" \in DOMAIN keys  -> [version |-> "T", key |-> keys.preAuthTx.hash]
      [] OTHER -> keys[CHOOSE k \in DOMAIN keys : TRUE]

\* The fields of an object, said and shown, that mean the same.
Agree(f, said, shows) ==
    CASE f = "limit" -> DecimalValue(shows) = IF said \in {None, <<<<>>>>} THEN MaxLimit
                                              ELSE DecimalValue(said)
      [] f \in Fields \ {"limit"} -> DecimalValue(shows) = DecimalValue(said)
      [] f \in Prices -> PriceAgrees(said, shows)
      [] f \in {"offerId", "bumpTo"} -> shows = IF said \in {None, <<>>} THEN <<0>> ELSE said
      [] f = "authorize" -> shows.number = IF "number" \in DOMAIN said THEN said.number
                                           ELSE IF said.boolean THEN 1 ELSE 0
      [] f = "signer" -> \/ said = None /\ shows = None
                         \/ /\ said # None /\ "keys" \in DOMAIN said
                            /\ said.weight = shows.weight
                            /\ SignerMeaning(said.keys) = SignerMeaning(shows.keys)
                         \/ /\ said # None /\ "keys" \notin DOMAIN said
                            /\ SignerMeaning(said) = SignerMeaning(shows)
      [] f = "balanceId" -> said.hash = shows.hash
      [] f = "value" -> shows = IF said = Null THEN None ELSE said
      [] f = "auth" -> shows = authFromModern(Default(said, <<>>))
      [] OTHER -> shows = said

\* What an object of options says, in the fields it is shown by.
SaidFlags(o) ==
    IF o.flags # None
    THEN [f \in {g \in DOMAIN o.flags : o.flags[g] \in BOOLEAN} |-> o.flags[f]]
    ELSE LET bits(n) == {f \in DOMAIN FlagBit : n # None /\ BitSet(n, FlagBit[f])}
         IN  [f \in bits(o.setFlags) \cup bits(o.clearFlags) |-> f \in bits(o.setFlags)]

SaidFunction(o) ==
    CASE o.type = "invokeHostFunction" -> o.func
      [] o.type = "uploadContractWasm" -> [arm |-> "UploadContractWasm", wasm |-> o.wasm]
      [] o.type = "invokeContractFunction" ->
            [arm |-> "InvokeContract", contract |-> o.contract,
             function |-> o.function, args |-> o.args]
      [] o.type = "createCustomContract" ->
            [arm |-> "CreateContractV2", address |-> o.address, salt |-> o.salt,
             wasmHash |-> o.wasmHash, args |-> Default(o.constructorArgs, <<>>)]
      [] o.type = "createStellarAssetContract" ->
            [arm |-> "CreateContract",
             asset |-> IF "text" \in DOMAIN o.asset THEN creditAsset(o.asset.text, o.asset.issuer)
                       ELSE assetToModern(o.asset)]

HostFunctionTypes == {"invokeHostFunction", "uploadContractWasm", "invokeContractFunction",
                      "createCustomContract", "createStellarAssetContract"}

Said(o) ==
    CASE o.type = "changeTrust" -> [type |-> o.type, line |-> o.asset, limit |-> o.limit,
                                    source |-> o.source]
      [] o.type = "setTrustLineFlags" -> [type |-> o.type, trustor |-> o.trustor,
                                          asset |-> o.asset, flags |-> SaidFlags(o),
                                          source |-> o.source]
      [] o.type \in HostFunctionTypes ->
            [type |-> "invokeHostFunction", func |-> SaidFunction(o), source |-> o.source,
             auth |-> IF o.type = "uploadContractWasm" THEN None ELSE o.auth]
      [] OTHER -> o

\* The texts the code is known to take for something else: a sign before a
\* fraction or inside it, digits that are not hexadecimal, and the address of
\* something that is neither an account nor a contract.
Garbled(f, v) ==
    CASE v = None -> FALSE
      [] v # None /\ f \in Fields ->
            Len(v) = 2 /\ (Contains(v[2], Minus) \/ (Negative(v[1]) /\ DecimalValue(v) % ONE # 0))
      [] v # None /\ f = "balanceId" -> v.hash = NotHex
      [] v # None /\ f = "liquidityPoolId" -> v = NotHex
      [] v # None /\ f = "signer" ->
            SignerMeaning(IF "keys" \in DOMAIN v THEN v.keys ELSE v).key = NotHex
      [] OTHER -> FALSE

Misread(o) ==
    \/ \E f \in DOMAIN o : Garbled(f, o[f])
    \/ o.type = "createCustomContract" /\ o.address.version \notin {"C", "G"}
    \/ o.type = "setTrustLineFlags" /\ o.flags = None
          /\ \E b \in {1, 2, 4} : /\ o.setFlags # None /\ BitSet(o.setFlags, b)
                                  /\ o.clearFlags # None /\ BitSet(o.clearFlags, b)

\* A native value that the hint only names the type of, without turning it
\* into another kind of value.
NativeKind(name) ==
    CASE name = "void" -> "null"
      [] name = "bool" -> "bool"
      [] name \in {"u32", "i32"} \cup S!NUMERIC_TYPES -> "number"
      [] name = "bytes" -> "bytes"
      [] name \in {"string", "symbol"} -> "text"
      [] name = "address" -> "address"
      [] OTHER -> "other"

\* An address is shown by its text.
Shown(val) == IF val.kind = "address" THEN [val EXCEPT !.kind = "text"] ELSE val

RECURSIVE KeepsKind(_, _)
KeepsKind(val, hint) ==
    CASE val.kind = "array" ->
            \A i \in DOMAIN val.v :
                KeepsKind(val.v[i], IF hint.of = "name" THEN hint
                                    ELSE IF hint.of = "each" /\ i <= Len(hint.each)
                                         THEN hint.each[i] ELSE S!NoType)
      [] val.kind = "object" ->
            hint.of = "keys" =>
                \A k \in DOMAIN val.v \cap DOMAIN hint.keys : KeepsKind(val.v[k], hint.keys[k][2])
      [] val.kind \notin {"array", "object"} ->
            hint.of = "name" => NativeKind(hint.name) = val.kind

\* What is shown of an operation, a strkey, a native value, a memo or an
\* amount means what the caller gave, field by field: digits at their places,
\* prices as close as the code can come, flags, signers and assets the same
\* (operation.ts, strkey.ts, scval.ts, memo.ts, soroban.ts), but for the texts
\* that are known to be misread.
ShownMeansGiven ==
    IF shown \in {Pending, Invalid}
    THEN shown = Invalid => given.family \in {"received", "payload"}
    ELSE
        CASE given.family = "operation" ->
                LET said == Said(given.options)
                IN  ~Misread(given.options) =>
                        \A f \in DOMAIN said : /\ f \in DOMAIN shown
                                               /\ Agree(f, said[f], shown[f])
          [] given.family = "strkey" -> shown = given.key
          [] given.family = "native" -> KeepsKind(given.val, given.hint) => shown = Shown(given.val)
          [] given.family = "memo" ->
                shown.type = given.memo.type /\
                IF given.memo.type # "text" THEN shown = given.memo
                ELSE IF given.memo.form = "text" THEN shown.value = given.memo.value
                ELSE (\A i \in DOMAIN given.memo.value : given.memo.value[i] < M!Ascii)
                        => M!utf8(shown.value) = given.memo.value
          [] given.family = "token" -> shown = given.digits
          [] OTHER -> TRUE

\* What a decoder may show that no factory takes: data that is removed, a
\* price shown as nothing, a flag beyond those that can be named, or set and
\* cleared at once, and a limit below zero.
Unbuildable(op) ==
    LET v == op.body.v
    IN  \/ op.body.arm = "ManageData" /\ v.dataValue = Null
        \/ \E f \in DOMAIN v \cap Prices : v[f].n = 0
        \/ op.body.arm = "SetOptions" /\ v.clearFlags # None /\ v.clearFlags > 7
        \/ op.body.arm = "SetTrustLineFlags"
              /\ \E b \in {1, 2, 4} : BitSet(v.setFlags, b) /\ BitSet(v.clearFlags, b)
        \/ op.body.arm = "ChangeTrust" /\ v.limit < 0

SameOperation(p, q) ==
    /\ q # Invalid
    /\ p.sourceAccount = q.sourceAccount /\ p.body.arm = q.body.arm
    /\ DOMAIN p.body.v = DOMAIN q.body.v
    /\ \A f \in DOMAIN p.body.v :
          IF f \in Prices THEN PriceAgrees(p.body.v[f], q.body.v[f])
          ELSE p.body.v[f] = q.body.v[f]

\* An operation, a strkey, a value, a memo or an amount that was received can
\* be given back as it is shown, and becomes what was received: a program that
\* copies the operations of a transaction signs the same operations.  Only the
\* text of an address, given without its type, becomes a string.
RebuiltIsTheSame ==
    again # Pending =>
        CASE given.family \in {"operation", "received"} ->
                ~Unbuildable(made) => SameOperation(made, again)
          [] given.family = "integer" -> IntegersAreRebuilt
          [] given.family = "native" /\ made.type = "address" ->
                IF given.hint = S!NoType THEN again = [type |-> "string", v |-> shown.v]
                ELSE again = made
          [] given.family = "native" /\ made.type # "address" -> again = made
          [] given.family \in {"strkey", "payload", "memo", "token"} -> again = made

\* A strkey text with one character exchanged, or two neighbours swapped, is
\* refused (strkey.ts); and the two decoders accept the
\* same texts and read the same bytes, but for a signed payload that is empty
\* or that is padded with anything but zeros.
NearTextsAreRefused ==
    given.family \in {"strkey", "payload"} /\ made # Pending /\ shown = Pending =>
        /\ \A c \in DOMAIN made : \A x \in (0 .. K!NotADigit) \ {made[c]} :
              K!decodeStrkey([made EXCEPT ![c] = x]) = Invalid
        /\ \A c \in 1 .. Len(made) - 1 : made[c] # made[c + 1] =>
              K!decodeStrkey([made EXCEPT ![c] = made[c + 1], ![c + 1] = made[c]]) = Invalid
        /\ LET version == K!versionByteFromPrefix(made)
               typed   == K!strkeyFromString(made)
               payload == K!decode(made, version)
           IN  IF typed # Invalid
               THEN IF version = K!SIGNED_PAYLOAD /\ typed.inner = <<>> THEN payload = Invalid
                    ELSE payload = K!decodeStrkey(made).payload
               ELSE K!isValid(made, version) =>
                        version = K!SIGNED_PAYLOAD
                        /\ \E i \in DOMAIN payload : payload[i] = 1
                              /\ i > Len(payload) - 8 * K!PaddingOf(K!InnerLength(payload))

=============================================================================
