--------------------------- MODULE OperationFields ---------------------------
(***************************************************************************)
(* The fields operations are built from, and the conversions between what a *)
(* caller writes (addresses, decimal amounts, prices, hexadecimal ids,      *)
(* signers, assets) and what the XDR operation holds.  A conversion that    *)
(* throws yields Invalid.                                                   *)
(*                                                                          *)
(* An address is the version and the payload its text decodes to (StrKey    *)
(* models the text itself); a hexadecimal text is the bytes it stands for,  *)
(* or NotHex; an asset code is its length and a word that orders it; a      *)
(* decimal text is its parts between dots, each a sequence of digits and    *)
(* Minus signs.                                                             *)
(***************************************************************************)
EXTENDS Integers, Sequences, SequencesExt

CONSTANTS
    None,       \* an absent field: undefined or null
    Invalid,    \* the outcome of a call that throws
    Places,     \* decimals of an amount (7 in the code)
    MaxDenom,   \* the largest denominator approximatePrice tries (10^7)
    MaxLimit    \* the limit that stands for "no limit" (2^63 - 1)

ASSUME FieldsAssumption ==
    /\ Places \in Nat \ {0} /\ MaxDenom \in Nat \ {0} /\ MaxLimit \in Nat

ConvertedOr(v, result) == IF v = Invalid THEN Invalid ELSE result

-----------------------------------------------------------------------------
\* Amounts.

Minus == -1
NotHex == -1

ONE == 10 ^ Places

\* BigInt() of one part of a decimal text: empty reads as zero, a sign may
\* only lead and must be followed by a digit.
BigIntOf(part) ==
    LET digits == IF part # <<>> /\ Head(part) = Minus THEN Tail(part) ELSE part
        value  == FoldLeft(LAMBDA n, d : 10 * n + d, 0, digits)
    IN  IF digits = part THEN IF Contains(digits, Minus) THEN Invalid ELSE value
        ELSE IF digits = <<>> \/ Contains(digits, Minus) THEN Invalid ELSE -value

PadEnd(part, n) == part \o [i \in 1 .. n - Len(part) |-> 0]
PadStart(part, n) == [i \in 1 .. n - Len(part) |-> 0] \o part

amountToBigInt(parts) ==
    IF parts = <<<<>>>> \/ Len(parts) > 2 THEN Invalid
    ELSE LET frac  == IF Len(parts) = 2 THEN parts[2] ELSE <<>>
             whole == BigIntOf(parts[1])
             rest  == BigIntOf(PadEnd(frac, Places))
         IN  IF Len(frac) > Places \/ whole = Invalid \/ rest = Invalid
             THEN Invalid ELSE whole * ONE + rest

DigitsOf[n \in Nat] == IF n < 10 THEN <<n>> ELSE Append(DigitsOf[n \div 10], n % 10)
SignedDigits(n) == IF n < 0 THEN <<Minus>> \o DigitsOf[-n] ELSE DigitsOf[n]

\* A fraction of which the leading zeros are lost.
fromStroopsUnpadded(n) == << SignedDigits(n \div ONE), SignedDigits(n % ONE) >>

\* Quotient and remainder of BigInt round towards zero.
fromStroops(n) ==
    LET size  == IF n < 0 THEN -n ELSE n
        sign  == IF n < 0 THEN -1 ELSE 1
    IN  << SignedDigits(sign * (size \div ONE)),
           PadStart(SignedDigits(sign * (size % ONE)), Places) >>

validateAmount(parts, allowZero) ==
    LET n == amountToBigInt(parts)
    IN  n # Invalid /\ n >= (IF allowZero THEN 0 ELSE 1)

-----------------------------------------------------------------------------
\* Prices: a pair [n, d], or a text that denotes the rational num / den.  The
\* arithmetic is exact, where the code's is in doubles.

Gcd(a, b) == CHOOSE g \in 1 .. b :
                /\ a % g = 0 /\ b % g = 0
                /\ \A h \in g + 1 .. b : ~(a % h = 0 /\ b % h = 0)
Abs(x) == IF x < 0 THEN -x ELSE x

\* The error of n / d against num / den, over the common factor den.
PriceError(p, n, d) == << Abs(n * p.den - p.num * d), d >>
Smaller(e, f) == e[1] * f[2] < f[1] * e[2]

approximatePrice(p) ==
    IF p.num % p.den = 0 THEN [n |-> p.num \div p.den, d |-> 1]
    ELSE FoldLeft(LAMBDA best, d :
                    LET n == (2 * p.num * d + p.den) \div (2 * p.den)
                    IN  IF Smaller(PriceError(p, n, d), PriceError(p, best.n, best.d))
                        THEN [n |-> n, d |-> d] ELSE best,
                  [n |-> 0, d |-> 1], [d \in 1 .. MaxDenom |-> d])

IsPair(price) == "n" \in DOMAIN price

priceObj(price) ==
    IF price = None THEN Invalid
    ELSE IF IsPair(price)
         THEN IF price.n <= 0 \/ price.d <= 0 THEN Invalid ELSE price
         ELSE IF price.num <= 0 THEN Invalid ELSE approximatePrice(price)

\* The text of n / d: the rational in lowest terms.
priceToString(price) ==
    IF price.n = 0 THEN [num |-> 0, den |-> 1]
    ELSE LET g == Gcd(price.n, price.d)
         IN  [num |-> price.n \div g, den |-> price.d \div g]

-----------------------------------------------------------------------------
\* Addresses.

Decodable(a) == a.version # "malformed"

validateAddress(a) == a # None /\ a.version \in {"G", "M"}
validateSource(a) == a = None \/ a.version \in {"G", "M"}
isValidEd25519PublicKey(a) == a # None /\ a.version = "G"

parsePublicKey(a) == IF a # None /\ a.version = "G" THEN a.key ELSE Invalid

parseMuxedAccount(a) ==
    CASE a # None /\ a.version = "G" -> [key |-> a.key]
      [] a # None /\ a.version = "M" -> [key |-> a.key, id |-> a.id]
      [] OTHER -> Invalid

accountIdToAddress(key) == [version |-> "G", key |-> key]
muxedAccountToAddress(m) ==
    IF "id" \in DOMAIN m THEN [version |-> "M", key |-> m.key, id |-> m.id]
    ELSE [version |-> "G", key |-> m.key]

-----------------------------------------------------------------------------
\* Assets and liquidity pools.

XLM == [len |-> 3, word |-> 0]
native == [code |-> XLM, issuer |-> None]

newAsset(code, issuer) ==
    IF code = XLM /\ issuer = None THEN native
    ELSE IF code.len \notin 1 .. 12 \/ issuer = None THEN Invalid
    ELSE IF ~Decodable(issuer) THEN Invalid
    ELSE [code |-> code, issuer |-> issuer]

creditAsset(code, issuer) ==
    LET key == parsePublicKey(issuer)
        arm == IF code.len <= 4 THEN "CreditAlphanum4" ELSE "CreditAlphanum12"
    IN  IF key = Invalid \/ code.len \notin 1 .. 12 THEN Invalid
        ELSE [arm |-> arm, assetCode |-> code, issuer |-> key]

assetToModern(a) ==
    IF a.issuer = None THEN [arm |-> "Native"] ELSE creditAsset(a.code, a.issuer)

assetFromModern(x) ==
    IF x.arm = "Native" THEN native
    ELSE newAsset(x.assetCode, accountIdToAddress(x.issuer))

\* One asset that throws makes the conversion of the path throw.
WholePath(assets) ==
    IF \E i \in DOMAIN assets : assets[i] = Invalid THEN Invalid ELSE assets

pathToModern(path) == WholePath([i \in DOMAIN path |-> assetToModern(path[i])])
pathFromModern(path) == WholePath([i \in DOMAIN path |-> assetFromModern(path[i])])

\* The order of Asset.compare: native, then short codes, then long ones; the
\* code; the text of the issuer.
AssetRank(a) == IF a.issuer = None THEN 0 ELSE IF a.code.len <= 4 THEN 1 ELSE 2

AssetBefore(a, b) ==
    \/ AssetRank(a) < AssetRank(b)
    \/ /\ AssetRank(a) = AssetRank(b) /\ AssetRank(a) # 0
       /\ \/ a.code.word < b.code.word
          \/ a.code.word = b.code.word /\ a.issuer.key < b.issuer.key

newLiquidityPoolAsset(a, b, fee) ==
    IF a = Invalid \/ b = Invalid THEN Invalid
    ELSE IF AssetBefore(a, b) THEN [assetA |-> a, assetB |-> b, fee |-> fee] ELSE Invalid

IsPool(line) == "assetA" \in DOMAIN line

lineToModern(line) ==
    IF ~IsPool(line) THEN assetToModern(line)
    ELSE LET a == assetToModern(line.assetA)
             b == assetToModern(line.assetB)
         IN  IF a = Invalid \/ b = Invalid THEN Invalid
             ELSE [arm |-> "PoolShare", assetA |-> a, assetB |-> b, fee |-> line.fee]

lineFromModern(x) ==
    IF x.arm # "PoolShare" THEN assetFromModern(x)
    ELSE newLiquidityPoolAsset(assetFromModern(x.assetA), assetFromModern(x.assetB), x.fee)

-----------------------------------------------------------------------------
\* Hexadecimal ids, signers and claimants.

\* A pair of characters that is not hexadecimal reads as a zero byte.
hexToBytes(text) == IF text = NotHex THEN 0 ELSE text
bytesToHex(bytes) == bytes

\* A balance id is 72 digits, of which the first eight name its type, or the
\* 64 digits of the hash alone (prefix None).
balanceIdHash(id) == hexToBytes(id.hash)
balanceIdText(hash) == [prefix |-> 0, hash |-> bytesToHex(hash)]

SignerKeys == {"ed25519PublicKey", "sha256Hash", "preAuthTx", "ed25519SignedPayload"}

coerceHexToBytes(v) == IF v.form = "bytes" THEN v.hash ELSE hexToBytes(v.hash)

\* SignerKey.decodeAddress.
decodeAddress(a) ==
    CASE a.version = "G" -> [arm |-> "Ed25519", key |-> a.key]
      [] a.version = "T" -> [arm |-> "PreAuthTx", hash |-> a.key]
      [] a.version = "X" -> [arm |-> "HashX", hash |-> a.key]
      [] a.version = "P" -> [arm |-> "Ed25519SignedPayload", key |-> a.key, payload |-> a.payload]
      [] OTHER -> Invalid

encodeSignerKey(k) == [version |-> "P", key |-> k.key, payload |-> k.payload]

\* The key of a signer object, taken from the first field present in order.
signerKeyOf(keys, order) ==
    LET present == SelectSeq(order, LAMBDA k : k \in DOMAIN keys)
        kind    == Head(present)
    IN  IF present = <<>> THEN Invalid
        ELSE CASE kind = "ed25519PublicKey" ->
                    ConvertedOr(parsePublicKey(keys[kind]),
                                [arm |-> "Ed25519", key |-> keys[kind].key])
               [] kind = "preAuthTx"  -> [arm |-> "PreAuthTx", hash |-> coerceHexToBytes(keys[kind])]
               [] kind = "sha256Hash" -> [arm |-> "HashX", hash |-> coerceHexToBytes(keys[kind])]
               [] OTHER -> decodeAddress(keys[kind])

convertSigner(signer) ==
    IF signer = None THEN None
    ELSE LET k == signerKeyOf(signer.keys, << "ed25519PublicKey", "preAuthTx",
                                              "sha256Hash", "ed25519SignedPayload" >>)
         IN  ConvertedOr(k, [key |-> k, weight |-> signer.weight])

\* How a decoded operation names a signer; form is that of the two hashes.
shownSignerKeys(k, form) ==
    CASE k.arm = "Ed25519"   -> [ed25519PublicKey |-> accountIdToAddress(k.key)]
      [] k.arm = "PreAuthTx" -> [preAuthTx |-> [form |-> form, hash |-> k.hash]]
      [] k.arm = "HashX"     -> [sha256Hash |-> [form |-> form, hash |-> k.hash]]
      [] OTHER               -> [ed25519SignedPayload |-> encodeSignerKey(k)]

newClaimant(destination, predicate) ==
    IF isValidEd25519PublicKey(destination)
    THEN [destination |-> destination, predicate |-> predicate] ELSE Invalid

claimantsToModern(claimants) ==
    [i \in DOMAIN claimants |-> [destination |-> claimants[i].destination.key,
                                 predicate   |-> claimants[i].predicate]]
claimantsFromModern(claimants) ==
    [i \in DOMAIN claimants |-> newClaimant(accountIdToAddress(claimants[i].destination),
                                            claimants[i].predicate)]

=============================================================================
