---------------------------- MODULE MCConversions ----------------------------
(***************************************************************************)
(* The conversions on small inputs: for every operation, a base and the     *)
(* values each of its fields may take; for the other kinds of value, those  *)
(* at the ends of their ranges and around them.                             *)
(***************************************************************************)
EXTENDS Conversions

G(k) == [version |-> "G", key |-> k]
Muxed(k, id) == [version |-> "M", key |-> k, id |-> id]
Other(version, k) == [version |-> version, key |-> k]
SignedWith(k, payload) == [version |-> "P", key |-> k, payload |-> payload]
Malformed == [version |-> "malformed"]

Accounts == {None, G(1), G(2), Muxed(2, 5), Other("C", 3), Malformed}

Code(len, word) == [len |-> len, word |-> word]
Credit(code, issuer) == [code |-> code, issuer |-> issuer]
USD == Credit(Code(3, 7), G(1))
EURO == Credit(Code(4, 5), G(2))
LONG == Credit(Code(9, 1), G(2))
AssetsGiven == {native, USD, EURO, LONG, Credit(Code(3, 7), G(2)), Credit(XLM, G(1)),
                Credit(Code(3, 7), Muxed(1, 5))}

Amounts ==
    { <<<<>>>>, <<<<0>>>>, <<<<7>>>>, <<<<1, 2>>, <<3, 4, 5>>>>, <<<<1>>, <<5>>>>,
      <<<<0>>, <<0, 0, 5>>>>, <<<<0>>, <<0, 5>>>>, <<<<0>>, <<1, 2, 3, 4>>>>, <<<<>>, <<>>>>,
      <<<<>>, <<5>>>>, <<<<1>>, <<2>>, <<3>>>>, <<<<Minus, 1>>>>, <<<<Minus, 0>>, <<5>>>>,
      <<<<Minus, 1>>, <<5>>>>, <<<<1>>, <<Minus, 5>>>>, <<<<1>>, <<5, Minus>>>>, <<<<Minus>>>> }

PricesGiven ==
    {None} \cup {[n |-> p[1], d |-> p[2]] : p \in {<<3, 6>>, <<1, 3>>, <<0, 1>>, <<5, 0>>}}
    \cup {[num |-> p[1], den |-> p[2]] :
            p \in {<<1, 3>>, <<31, 10>>, <<7, 13>>, <<1, 100>>, <<4, 1>>, <<0, 1>>, <<-1, 2>>}}

Ids == {None, <<>>, <<0>>, <<9>>, <<1, 2>>, <<Minus, 1>>, <<1, Minus>>}
Balances == {[prefix |-> p, hash |-> h] : p \in {None, 0, 1}, h \in {4, NotHex}}
Hex == {4, NotHex}

SignersGiven ==
    LET hash(form, h) == [form |-> form, hash |-> h]
    IN  {[ed25519PublicKey |-> a] : a \in {G(1), Muxed(1, 5), Malformed}}
        \cup {[sha256Hash |-> h] : h \in {hash("bytes", 8), hash("hex", 8), hash("hex", NotHex)}}
        \cup {[preAuthTx |-> h] : h \in {hash("bytes", 8), hash("hex", 8)}}
        \cup {[ed25519SignedPayload |-> a] :
                a \in {SignedWith(1, 6), G(1), Other("X", 8), Other("C", 3), Malformed}}

Flags == {None, [authorized |-> TRUE], [authorized |-> FALSE, clawbackEnabled |-> TRUE],
          [authorized |-> FALSE, authorizedToMaintainLiabilities |-> TRUE], [other |-> TRUE]}

Pool(a, b) == newLiquidityPoolAsset(a, b, 30)
Claimant(k) == newClaimant(G(k), "always")

Arguments == {<<>>, << [arm |-> "Address", address |-> Other("C", 3)] >>,
              << [arm |-> "Void"], [arm |-> "Address", address |-> Other("B", 3)] >>}
Entry(form, n) == [form |-> form, entry |-> n]
Entries == {None, <<>>, << Entry("modern", 1) >>, << Entry("modern", 1), Entry("compat", 2) >>}

\* The base with the values of one field, for every field that has some.
Varied(base, values) ==
    {[family |-> "operation", options |-> o] :
        o \in UNION {{[base EXCEPT ![f] = v] : v \in values[f]} : f \in DOMAIN values}}

Sources == [source |-> Accounts]
Of(type) == [type |-> type, source |-> G(2)]
One == <<<<1>>, <<0, 0, 1>>>>
Two == <<<<2>>, <<0, 2>>>>
Half7 == [num |-> 1, den |-> 2]

OperationsGiven == <<
    Varied(Of("createAccount") @@ [destination |-> G(1), startingBalance |-> One],
           Sources @@ [destination |-> Accounts, startingBalance |-> Amounts]),
    Varied(Of("payment") @@ [destination |-> Muxed(1, 5), asset |-> USD, amount |-> One],
           Sources @@ [destination |-> Accounts, asset |-> AssetsGiven, amount |-> Amounts]),
    Varied(Of("pathPaymentStrictReceive")
               @@ [sendAsset |-> USD, sendMax |-> Two, destination |-> G(1),
                   destAsset |-> LONG, destAmount |-> One, path |-> <<native, EURO>>],
           Sources @@ [sendAsset |-> AssetsGiven, sendMax |-> Amounts, destination |-> Accounts,
                       destAsset |-> AssetsGiven, destAmount |-> Amounts,
                       path |-> {<<>>, <<USD>>, <<Credit(Code(3, 7), Muxed(1, 5)), USD>>}]),
    Varied(Of("pathPaymentStrictSend")
               @@ [sendAsset |-> USD, sendAmount |-> Two, destination |-> G(1),
                   destAsset |-> LONG, destMin |-> One, path |-> <<native, EURO>>],
           Sources @@ [sendAsset |-> AssetsGiven, sendAmount |-> Amounts, destination |-> Accounts,
                       destAsset |-> AssetsGiven, destMin |-> Amounts, path |-> {<<>>, <<USD>>}]),
    Varied(Of("manageSellOffer") @@ [selling |-> USD, buying |-> LONG, amount |-> One,
                                     price |-> Half7, offerId |-> None],
           Sources @@ [selling |-> AssetsGiven, buying |-> AssetsGiven, amount |-> Amounts,
                       price |-> PricesGiven, offerId |-> Ids]),
    Varied(Of("manageBuyOffer") @@ [selling |-> USD, buying |-> LONG, buyAmount |-> One,
                                    price |-> Half7, offerId |-> <<9>>],
           [buying |-> AssetsGiven, buyAmount |-> Amounts, price |-> PricesGiven,
            offerId |-> Ids]),
    Varied(Of("createPassiveSellOffer") @@ [selling |-> USD, buying |-> LONG, amount |-> One,
                                            price |-> Half7],
           [selling |-> AssetsGiven, amount |-> Amounts, price |-> PricesGiven]),
    Varied(Of("setOptions") @@ [f \in OptionFields \cup {"inflationDest"} |-> None],
           Sources @@
           [f \in {"masterWeight", "lowThreshold", "medThreshold", "highThreshold"} |->
                {None, 0, 255, 256}] @@
           [inflationDest |-> Accounts, clearFlags |-> {0, 3, 7, 8}, setFlags |-> {0, 15, 16},
            homeDomain |-> {"", "example.org"},
            signer |-> {[keys |-> k, weight |-> 2] : k \in SignersGiven}]),
    Varied(Of("changeTrust") @@ [asset |-> USD, limit |-> None],
           Sources @@ [limit |-> {None} \cup Amounts,
                       asset |-> {None, Pool(native, USD), Pool(EURO, USD), Pool(EURO, LONG)}
                                 \cup AssetsGiven]),
    Varied(Of("allowTrust") @@ [trustor |-> G(1), assetCode |-> Code(3, 7),
                                authorize |-> [boolean |-> TRUE]],
           Sources @@ [trustor |-> Accounts,
                       assetCode |-> {Code(0, 0), Code(4, 5), Code(12, 1), Code(13, 1)},
                       authorize |-> {[boolean |-> FALSE], [number |-> 2]}]),
    Varied(Of("accountMerge") @@ [destination |-> G(1)], Sources @@ [destination |-> Accounts]),
    Varied(Of("inflation"), Sources),
    Varied(Of("manageData") @@ [name |-> [len |-> 3], value |-> [len |-> 4]],
           Sources @@ [name |-> {[len |-> 64], [len |-> 65]},
                       value |-> {None, Null, [len |-> 0], [len |-> 64], [len |-> 65]}]),
    Varied(Of("bumpSequence") @@ [bumpTo |-> <<4>>], [bumpTo |-> Ids \ {None}]),
    Varied(Of("createClaimableBalance") @@ [asset |-> USD, amount |-> One,
                                            claimants |-> <<Claimant(1), Claimant(2)>>],
           Sources @@ [asset |-> AssetsGiven, amount |-> Amounts,
                       claimants |-> {<<>>, <<Claimant(2)>>}]),
    Varied(Of("claimClaimableBalance") @@ [balanceId |-> None], [balanceId |-> Balances]),
    Varied(Of("beginSponsoringFutureReserves") @@ [sponsoredId |-> G(1)],
           Sources @@ [sponsoredId |-> Accounts]),
    Varied(Of("endSponsoringFutureReserves"), Sources),
    Varied(Of("clawback") @@ [asset |-> USD, amount |-> One, from |-> G(1)],
           Sources @@ [asset |-> AssetsGiven, amount |-> Amounts, from |-> Accounts]),
    Varied(Of("clawbackClaimableBalance") @@ [balanceId |-> None], [balanceId |-> Balances]),
    Varied(Of("setTrustLineFlags") @@ [trustor |-> G(1), asset |-> USD, flags |-> None,
                                       clearFlags |-> None, setFlags |-> 1],
           Sources @@ [trustor |-> Accounts, asset |-> AssetsGiven, flags |-> Flags,
                       clearFlags |-> {0, 1, 6}, setFlags |-> {None, 0, 3, 4}]),
    Varied(Of("setTrustLineFlags") @@ [trustor |-> G(1), asset |-> USD, flags |-> None,
                                       clearFlags |-> None, setFlags |-> None],
           [flags |-> {[f \in {} |-> TRUE]}]),
    Varied(Of("liquidityPoolDeposit")
               @@ [liquidityPoolId |-> 4, maxAmountA |-> One, maxAmountB |-> Two,
                   minPrice |-> Half7, maxPrice |-> [n |-> 3, d |-> 6]],
           Sources @@ [liquidityPoolId |-> Hex, maxAmountA |-> Amounts, maxAmountB |-> Amounts,
                       minPrice |-> PricesGiven, maxPrice |-> PricesGiven]),
    Varied(Of("liquidityPoolWithdraw")
               @@ [liquidityPoolId |-> 4, amount |-> <<<<7>>>>, minAmountA |-> One,
                   minAmountB |-> Two],
           Sources @@ [liquidityPoolId |-> Hex, amount |-> Amounts, minAmountA |-> Amounts,
                       minAmountB |-> Amounts]),
    Varied(Of("invokeHostFunction") @@ [func |-> None, auth |-> <<>>],
           [auth |-> Entries,
            func |-> {[arm |-> "UploadContractWasm", wasm |-> "wasm"]}
                     \cup {[arm |-> "InvokeContract", contract |-> Other("C", 3),
                            function |-> "f", args |-> a] : a \in Arguments}]),
    Varied(Of("extendFootprintTtl") @@ [extendTo |-> 1], Sources @@ [extendTo |-> {0, 1, 9}]),
    Varied(Of("restoreFootprint"), Sources),
    Varied(Of("uploadContractWasm") @@ [wasm |-> "wasm"], Sources),
    Varied(Of("invokeContractFunction") @@ [contract |-> Other("C", 3), function |-> "f",
                                            args |-> <<>>, auth |-> None],
           Sources @@ [contract |-> (Accounts \ {None}) \cup {Other("X", 8)},
                       args |-> Arguments, auth |-> Entries]),
    Varied(Of("createCustomContract") @@ [address |-> G(1), salt |-> "salt", wasmHash |-> 8,
                                          constructorArgs |-> None, auth |-> None],
           Sources @@ [address |-> Accounts \ {None}, constructorArgs |-> Arguments,
                       auth |-> Entries]),
    Varied(Of("createStellarAssetContract") @@ [asset |-> USD, auth |-> None],
           Sources @@ [asset |-> AssetsGiven \cup
                           {[text |-> c, issuer |-> G(1)] : c \in {XLM, Code(5, 2), Code(0, 0)}},
                       auth |-> Entries]),
    Varied(Of("revokeAccountSponsorship") @@ [account |-> G(1)], Sources @@ [account |-> Accounts]),
    Varied(Of("revokeTrustlineSponsorship") @@ [account |-> G(1), asset |-> USD],
           Sources @@ [account |-> Accounts,
                       asset |-> {None, [poolId |-> 4]} \cup AssetsGiven]),
    Varied(Of("revokeOfferSponsorship") @@ [seller |-> G(1), offerId |-> <<9>>],
           Sources @@ [seller |-> Accounts, offerId |-> Ids]),
    Varied(Of("revokeDataSponsorship") @@ [account |-> G(1), name |-> [len |-> 3]],
           Sources @@ [account |-> Accounts, name |-> {[len |-> 0], [len |-> 64]}]),
    Varied(Of("revokeClaimableBalanceSponsorship") @@ [balanceId |-> None],
           [balanceId |-> Balances \cup {None}]),
    Varied(Of("revokeLiquidityPoolSponsorship") @@ [liquidityPoolId |-> 4],
           Sources @@ [liquidityPoolId |-> Hex \cup {None}]),
    Varied(Of("revokeSignerSponsorship") @@ [account |-> G(1), signer |-> [sha256Hash |-> [form |-> "hex", hash |-> 8]]],
           Sources @@ [account |-> Accounts, signer |-> SignersGiven])
>>

-----------------------------------------------------------------------------
\* Operations as other programs may have made them.

Received(arm, bodies) ==
    {[family |-> "received",
      op |-> [sourceAccount |-> a, body |-> [arm |-> arm, v |-> v]]] :
        a \in {None, [key |-> 1], [key |-> 1, id |-> 5]}, v \in bodies}

CreditArm(code) == [arm |-> "CreditAlphanum4", assetCode |-> code, issuer |-> 1]

ReceivedGiven == <<
    Received("Payment", {[destination |-> [key |-> 2], asset |-> CreditArm(c), amount |-> 1] :
                            c \in {Code(0, 0), Code(3, 7)}}),
    Received("PathPaymentStrictSend",
             {[destination |-> [key |-> 2], sendAsset |-> [arm |-> "Native"], sendAmount |-> 5,
               destAsset |-> CreditArm(Code(3, 7)), destMin |-> 1, path |-> <<CreditArm(c)>>] :
                  c \in {Code(0, 0), Code(3, 7)}}),
    Received("ManageSellOffer",
             {[selling |-> [arm |-> "Native"], buying |-> CreditArm(Code(3, 7)), amount |-> 0,
               price |-> [n |-> p[1], d |-> p[2]], offerID |-> 0] :
                  p \in {<<0, 3>>, <<2, 4>>, <<7, 13>>, <<1, 100>>, <<5, 1>>}}),
    Received("SetOptions",
             {[[f \in OptionFields \cup {"inflationDest"} |-> None] EXCEPT !.clearFlags = n] :
                  n \in {None, 7, 8, 15}}),
    Received("ManageData", {[dataName |-> [len |-> 3], dataValue |-> v] : v \in {Null, [len |-> 0]}}),
    Received("SetTrustLineFlags",
             {[trustor |-> 1, asset |-> CreditArm(Code(3, 7)), clearFlags |-> c, setFlags |-> s] :
                  c \in 0 .. 7, s \in 0 .. 7}),
    Received("ChangeTrust",
             {[line |-> CreditArm(Code(3, 7)), limit |-> n] : n \in {-1500, -1000, -500, -5, 0}}),
    Received("ChangeTrust",
             {[line |-> [arm |-> "PoolShare", assetA |-> a, assetB |-> b, fee |-> 30], limit |-> 5] :
                  a \in {CreditArm(Code(3, 7)), [arm |-> "Native"]},
                  b \in {CreditArm(Code(3, 7)), CreditArm(Code(4, 5))}})
>>

-----------------------------------------------------------------------------
\* Strkeys, integers, natives, memos and amounts.

KeyData == K!Bits(43605, 16)
InnerBits(n) == K!Bits(11325157, 24)
Strkeys ==
    {[version |-> v, data |-> KeyData] : v \in K!FixedVersions \cup {K!CLAIMABLE_BALANCE}}
    \cup {[version |-> K!MUXED_ED25519, data |-> KeyData, id |-> K!Bits(i, 8)] : i \in {0, 205}}
    \cup {[version |-> K!SIGNED_PAYLOAD, data |-> KeyData, inner |-> SubSeq(InnerBits(n), 1, 8 * n)] :
            n \in 0 .. MaxInner}

Announced(n, rest) == KeyData \o K!Bits(n, 16) \o rest
Payloads ==
    {[family |-> "payload", version |-> v, payload |-> SubSeq(KeyData \o KeyData, 1, 8 * n)] :
        v \in K!KnownVersions \cup {0, 56}, n \in 0 .. 4}
    \cup {[family |-> "payload", version |-> K!CLAIMABLE_BALANCE, payload |-> K!Bits(t, 8) \o KeyData] :
        t \in {0, 1}}
    \cup {[family |-> "payload", version |-> K!SIGNED_PAYLOAD, payload |-> Announced(p[1], p[2])] :
        p \in { <<1, K!Bits(200, 8) \o K!Bits(1, 8)>>, <<1, K!Bits(200, 16)>>,
                <<1, K!Bits(200, 8)>>, <<3, K!Bits(77, 24) \o K!Bits(128, 8)>>,
                <<2, K!Bits(77, 24)>>, <<4, KeyData \o KeyData>>, <<0, K!Bits(0, 16)>> }}

\* The ends of the ranges of 64, 128 and 256 bits and their neighbours.
Ends == UNION {{e - 1, e, e + 1} : e \in {-128, -8, -2, 0, 2, 4, 8, 16, 128, 256}} \cup {-5, 77}

Integers2 == <<
    {[family |-> "integer", by |-> "ScInt", value |-> v] : v \in Ends},
    {[family |-> "integer", by |-> "ScInt.to", target |-> t, value |-> v] :
        t \in S!ScIntTypes, v \in Ends},
    {[family |-> "integer", by |-> "compat.to", type |-> t, target |-> u, value |-> v] :
        t \in DOMAIN S!WordsOf, u \in DOMAIN S!WordsOf, v \in Ends},
    {[family |-> "integer", by |-> "XdrLargeInt", type |-> t, value |-> v] :
        t \in S!ScIntTypes, v \in Ends},
    {[family |-> "integer", by |-> "class", type |-> t, value |-> v] :
        t \in {"i128", "u128", "i256", "u256"}, v \in Ends}
>>

Num1(v) == [kind |-> "number", v |-> v]
Text(v) == [kind |-> "text", v |-> v]
Raw(v) == [kind |-> "bytes", v |-> v]
AddressOf(a) == [kind |-> "address", v |-> a]
Natives(vals, hints) == {[family |-> "native", val |-> v, hint |-> h] : v \in vals, h \in hints}
Names(names) == {S!Named(n) : n \in names}
Each(hints) == [of |-> "each", each |-> hints]

NativesGiven == <<
    Natives({[kind |-> "null"]}, {S!NoType} \cup Names({"void", "string"})),
    Natives({[kind |-> "bool", v |-> b] : b \in BOOLEAN}, {S!NoType} \cup Names({"bool", "void"})),
    Natives({Num1(v) : v \in Ends \cap -8 .. 15},
            {S!NoType} \cup Names(S!NUMERIC_TYPES \cup {"i32", "bool", "unknown"})),
    Natives({Text(v) : v \in {1, 2}}, {S!NoType} \cup Names({"string", "symbol"})),
    Natives({Raw(v) : v \in {1, S!NotUtf8}}, {S!NoType} \cup Names({"bytes", "string", "symbol"})),
    Natives({AddressOf(Muxed(1, 5))} \cup {AddressOf(Other(v, 3)) : v \in {"G", "C", "B", "L"}},
            {S!NoType} \cup Names({"address"})),
    Natives({[kind |-> "array", v |-> <<>>], [kind |-> "array", v |-> <<Num1(3), Num1(-3), Num1(0)>>]},
            {S!NoType} \cup Names({"i128", "u64"})
            \cup {Each(<<>>), Each(<<S!Named("u128"), S!Named("i64")>>), Each(<<S!Named("i64")>>)}),
    Natives({[kind |-> "array", v |-> <<Text(1), Raw(1), [kind |-> "null"]>>]},
            {S!NoType, Each(<<S!Named("symbol"), S!NoType, S!Named("u64")>>)}),
    Natives({[kind |-> "object", v |-> [k \in {2, 5} |-> IF k = 2 THEN Num1(1) ELSE Text(1)]]},
            {S!NoType, [of |-> "keys", keys |-> [k \in {5, 7} |-> <<S!Named("symbol"), S!Named("symbol")>>]]})
>>

Memo(type, value) == [family |-> "memo", memo |-> [type |-> type, value |-> value]]

MemosGiven == <<
    {[family |-> "memo", memo |-> [type |-> "none"]]},
    {Memo("id", n) : n \in {-1, 0, MaxId, MaxId + 1}},
    {Memo(t, [len |-> n, name |-> "hash"]) : t \in {"hash", "return"}, n \in {31, 32}},
    {[family |-> "memo", memo |-> [type |-> "text", form |-> f, value |-> v]] :
        f \in {"text", "bytes"},
        v \in {<<>>, <<65>>, <<65, 66, 67, 68>>, <<65, 66, 67, 68, 69>>, <<200, 65>>,
               <<200, 201>>, <<200, 201, 255>>, <<127, 128>>}}
>>

TokensGiven ==
    {[family |-> "token", digits |-> d, decimals |-> n] :
        d \in {<<0>>, <<5>>, <<1, 0, 0>>, <<1, 2, 3, 4, 0>>, <<M!Minus, 5>>, <<M!Minus, 1, 2, 3>>,
               <<1, M!Point, 5>>},
        n \in 0 .. 4}

MCGiven ==
    OperationsGiven \o ReceivedGiven
    \o << {[family |-> "strkey", key |-> k] : k \in Strkeys}, Payloads >>
    \o Integers2 \o NativesGiven \o MemosGiven \o << TokensGiven >>

=============================================================================
