----------------------------- MODULE Operations -----------------------------
(***************************************************************************)
(* The operation class of the compatibility package: a static factory per   *)
(* operation, which validates the options a caller writes and hands them to *)
(* a factory of the transaction builder, and fromXDRObject, which shows an  *)
(* XDR operation as an object of the form the factories take.               *)
(*                                                                          *)
(* An absent option is None; Null is the null that manageData tells from    *)
(* it.  The XDR value a factory returns stands for its compatibility view.  *)
(***************************************************************************)
EXTENDS OperationFactories

CONSTANT Null

Checked(ok, o, op) == IF ok /\ validateSource(o.source) THEN op ELSE Invalid

-----------------------------------------------------------------------------
\* The factories.

createAccount(o) ==
    Checked(validateAddress(o.destination) /\ validateAmount(o.startingBalance, TRUE), o,
            modernCreateAccount(
                [o EXCEPT !.startingBalance = amountToBigInt(@)]))

payment(o) ==
    Checked(validateAddress(o.destination) /\ validateAmount(o.amount, FALSE), o,
            modernPayment(
                [o EXCEPT !.asset = assetToModern(@), !.amount = amountToBigInt(@)]))

pathPaymentStrictReceive(o) ==
    Checked(/\ validateAmount(o.sendMax, FALSE) /\ validateAmount(o.destAmount, FALSE)
            /\ validateAddress(o.destination), o,
            modernPathPaymentStrictReceive(
                [o EXCEPT !.sendAsset = assetToModern(@), !.destAsset = assetToModern(@),
                          !.sendMax = amountToBigInt(@), !.destAmount = amountToBigInt(@),
                          !.path = pathToModern(@)]))

pathPaymentStrictSend(o) ==
    Checked(/\ validateAddress(o.destination)
            /\ validateAmount(o.sendAmount, FALSE) /\ validateAmount(o.destMin, FALSE), o,
            modernPathPaymentStrictSend(
                [o EXCEPT !.sendAsset = assetToModern(@), !.destAsset = assetToModern(@),
                          !.sendAmount = amountToBigInt(@), !.destMin = amountToBigInt(@),
                          !.path = pathToModern(@)]))

\* An offer id that is absent or empty asks for a new offer.
offerIdOf(text) == IF text \in {None, <<>>} THEN None ELSE BigIntOf(text)

ManagedOffer(o, amount) ==
    [o EXCEPT !.selling = assetToModern(@), !.buying = assetToModern(@),
              ![amount] = amountToBigInt(@), !.price = priceObj(@)]

manageSellOffer(o) ==
    Checked(validateAmount(o.amount, TRUE), o,
            modernManageSellOffer(
                [offerID |-> offerIdOf(o.offerId)] @@ ManagedOffer(o, "amount")))

manageBuyOffer(o) ==
    Checked(validateAmount(o.buyAmount, TRUE), o,
            modernManageBuyOffer(
                [offerID |-> offerIdOf(o.offerId)] @@ ManagedOffer(o, "buyAmount")))

createPassiveSellOffer(o) ==
    Checked(validateAmount(o.amount, FALSE), o,
            modernCreatePassiveSellOffer(ManagedOffer(o, "amount")))

InRange(value, first, last) == value = None \/ value \in first .. last

setOptions(o) ==
    Checked(/\ o.inflationDest = None \/ isValidEd25519PublicKey(o.inflationDest)
            /\ o.signer # None =>
                  /\ \E k \in SignerKeys : DOMAIN o.signer.keys = {k}
                  /\ "ed25519PublicKey" \in DOMAIN o.signer.keys
                        => isValidEd25519PublicKey(o.signer.keys.ed25519PublicKey)
            /\ InRange(o.clearFlags, 0, 7)
            /\ InRange(o.setFlags, 0, 15)
            /\ \A f \in {"masterWeight", "lowThreshold", "medThreshold", "highThreshold"} :
                  InRange(o[f], 0, 255), o,
            modernSetOptions([o EXCEPT !.signer = convertSigner(@)]))

\* A limit is neither checked for sign nor required.
changeTrust(o) ==
    Checked(TRUE, o,
            modernChangeTrust(
                [o EXCEPT !.asset = IF @ = None THEN Invalid ELSE lineToModern(@),
                          !.limit = IF @ \in {None, <<<<>>>>} THEN None
                                    ELSE amountToBigInt(@)]))

allowTrust(o) ==
    Checked(isValidEd25519PublicKey(o.trustor), o,
            modernAllowTrust(
                [o EXCEPT !.authorize = IF "boolean" \notin DOMAIN @ THEN @.number
                                        ELSE IF @.boolean THEN 1 ELSE 0]))

accountMerge(o) == Checked(validateAddress(o.destination), o, modernAccountMerge(o))

inflation(o) == Checked(TRUE, o, modernInflation(o))

\* The value is measured before it is known to be there: undefined throws.
manageData(o) ==
    Checked(/\ o.name.len <= 64
            /\ o.value # None
            /\ o.value # Null => o.value.len <= 64, o, modernManageData(o))

bumpSequence(o) ==
    Checked(TRUE, o, modernBumpSequence([o EXCEPT !.bumpTo = BigIntOf(@)]))

createClaimableBalance(o) ==
    Checked(o.claimants # <<>> /\ validateAmount(o.amount, FALSE), o,
            modernCreateClaimableBalance(
                [o EXCEPT !.asset = assetToModern(@), !.amount = amountToBigInt(@),
                          !.claimants = claimantsToModern(@)]))

IsWholeBalanceId(id) == id.prefix # None

claimClaimableBalance(o) ==
    Checked(IsWholeBalanceId(o.balanceId), o,
            modernClaimClaimableBalance(
                [source |-> o.source, balanceID |-> balanceIdHash(o.balanceId)]))

beginSponsoringFutureReserves(o) ==
    Checked(validateAddress(o.sponsoredId), o,
            modernBeginSponsoringFutureReserves(
                [source |-> o.source, sponsoredID |-> o.sponsoredId]))

endSponsoringFutureReserves(o) == Checked(TRUE, o, modernEndSponsoringFutureReserves(o))

clawback(o) ==
    Checked(validateAmount(o.amount, FALSE), o,
            modernClawback(
                [o EXCEPT !.asset = assetToModern(@), !.amount = amountToBigInt(@)]))

clawbackClaimableBalance(o) ==
    Checked(IsWholeBalanceId(o.balanceId), o,
            modernClawbackClaimableBalance(
                [source |-> o.source, balanceID |-> balanceIdHash(o.balanceId)]))

FlagBit == [authorized |-> 1, authorizedToMaintainLiabilities |-> 2, clawbackEnabled |-> 4]

\* The bits of the flags an object names with this value.
FlagsNamed(flags, value) ==
    FoldSet(LAMBDA f, sum : sum + FlagBit[f], 0, {f \in DOMAIN flags : flags[f] = value})

setTrustLineFlags(o) ==
    Checked(/\ isValidEd25519PublicKey(o.trustor)
            /\ \E f \in {"flags", "clearFlags", "setFlags"} : o[f] # None
            /\ o.flags # None => DOMAIN o.flags \subseteq DOMAIN FlagBit, o,
            modernSetTrustLineFlags(
                [o EXCEPT !.asset = assetToModern(@),
                          !.clearFlags = IF o.flags = None THEN Default(@, 0)
                                         ELSE FlagsNamed(o.flags, FALSE),
                          !.setFlags   = IF o.flags = None THEN Default(@, 0)
                                         ELSE FlagsNamed(o.flags, TRUE)]))

liquidityPoolDeposit(o) ==
    Checked(validateAmount(o.maxAmountA, FALSE) /\ validateAmount(o.maxAmountB, FALSE), o,
            modernLiquidityPoolDeposit(
                [source |-> o.source, liquidityPoolID |-> hexToBytes(o.liquidityPoolId),
                 maxAmountA |-> amountToBigInt(o.maxAmountA),
                 maxAmountB |-> amountToBigInt(o.maxAmountB),
                 minPrice |-> priceObj(o.minPrice), maxPrice |-> priceObj(o.maxPrice)]))

liquidityPoolWithdraw(o) ==
    Checked(/\ validateAmount(o.amount, FALSE)
            /\ validateAmount(o.minAmountA, TRUE) /\ validateAmount(o.minAmountB, TRUE), o,
            modernLiquidityPoolWithdraw(
                [source |-> o.source, liquidityPoolID |-> hexToBytes(o.liquidityPoolId),
                 amount |-> amountToBigInt(o.amount),
                 minAmountA |-> amountToBigInt(o.minAmountA),
                 minAmountB |-> amountToBigInt(o.minAmountB)]))

\* An authorization entry is an object of the compatibility package, or the
\* modern value it views.
authToModern(auth) == [i \in DOMAIN auth |-> [auth[i] EXCEPT !.form = "modern"]]
authFromModern(auth) == [i \in DOMAIN auth |-> [auth[i] EXCEPT !.form = "compat"]]

\* Only an argument that is itself such an address is refused, not one inside
\* a vector or a map.
invokeHostFunction(o) ==
    Checked(/\ o.func # None
            /\ o.func.arm = "InvokeContract"
                  => \A i \in DOMAIN o.func.args :
                        ~(/\ o.func.args[i].arm = "Address"
                          /\ o.func.args[i].address.version \in {"B", "L"}), o,
            modernInvokeHostFunction(
                [source |-> o.source, hostFunction |-> o.func,
                 auth |-> authToModern(Default(o.auth, <<>>))]))

extendFootprintTtl(o) == Checked(o.extendTo > 0, o, modernExtendFootprintTtl(o))

restoreFootprint(o) == Checked(TRUE, o, modernRestoreFootprint(o))

\* The other factories hand the entries on as they are: the view of the
\* operation that is made throws on an entry that is a view already.
HostFunctionOp(func, o) ==
    LET auth == Default(o.auth, <<>>)
    IN  IF \E i \in DOMAIN auth : auth[i].form = "compat" THEN Invalid
        ELSE modernInvokeHostFunction([source |-> o.source, hostFunction |-> func, auth |-> auth])

createStellarAssetContract(o) ==
    LET asset == IF "text" \in DOMAIN o.asset THEN newAsset(o.asset.text, o.asset.issuer)
                 ELSE o.asset
        modern == IF asset = Invalid THEN Invalid ELSE assetToModern(asset)
    IN  IF modern = Invalid THEN Invalid
        ELSE HostFunctionOp([arm |-> "CreateContract", asset |-> modern], o)

AddressVersions == {"G", "C", "M", "B", "L"}

invokeContractFunction(o) ==
    IF o.contract.version \notin AddressVersions THEN Invalid
    ELSE invokeHostFunction([source |-> o.source, auth |-> o.auth,
                             func |-> [arm |-> "InvokeContract", contract |-> o.contract,
                                       function |-> o.function, args |-> o.args]])

\* An address text of any version but C is taken for the key of an account.
createCustomContract(o) ==
    IF ~Decodable(o.address) THEN Invalid
    ELSE HostFunctionOp([arm |-> "CreateContractV2",
                         address |-> IF o.address.version = "C" THEN o.address
                                     ELSE accountIdToAddress(o.address.key),
                         salt |-> o.salt, wasmHash |-> o.wasmHash,
                         args |-> Default(o.constructorArgs, <<>>)], o)

uploadContractWasm(o) ==
    HostFunctionOp([arm |-> "UploadContractWasm", wasm |-> o.wasm],
                   [source |-> o.source, auth |-> None])

-----------------------------------------------------------------------------
\* The seven ways to revoke a sponsorship.

\* validateAddress lets a muxed address pass, decodeEd25519PublicKey does not.
Revoke(ok, entry, o) ==
    Checked(ok, o, buildOp("RevokeSponsorship", entry, o.source))

revokeAccountSponsorship(o) ==
    Revoke(validateAddress(o.account),
           [key |-> "Account", accountID |-> parsePublicKey(o.account)], o)

trustLineAssetOf(asset) ==
    IF "poolId" \in DOMAIN asset THEN [arm |-> "PoolShare", poolId |-> hexToBytes(asset.poolId)]
    ELSE assetToModern(asset)

revokeTrustlineSponsorship(o) ==
    Revoke(validateAddress(o.account) /\ o.asset # None,
           [key |-> "Trustline", accountID |-> parsePublicKey(o.account),
            asset |-> trustLineAssetOf(o.asset)], o)

revokeOfferSponsorship(o) ==
    Revoke(validateAddress(o.seller) /\ o.offerId \notin {None, <<>>},
           [key |-> "Offer", sellerID |-> parsePublicKey(o.seller),
            offerID |-> BigIntOf(o.offerId)], o)

revokeDataSponsorship(o) ==
    Revoke(validateAddress(o.account) /\ o.name.len > 0,
           [key |-> "Data", accountID |-> parsePublicKey(o.account),
            dataName |-> o.name], o)

revokeClaimableBalanceSponsorship(o) ==
    Revoke(o.balanceId # None,
           [key |-> "ClaimableBalance", balanceID |-> balanceIdHash(o.balanceId)], o)

revokeLiquidityPoolSponsorship(o) ==
    Revoke(o.liquidityPoolId # None,
           [key |-> "LiquidityPool", liquidityPoolID |-> hexToBytes(o.liquidityPoolId)], o)

revokeSignerSponsorship(o) ==
    Revoke(validateAddress(o.account),
           [key |-> "Signer", accountID |-> parsePublicKey(o.account),
            signerKey |-> signerKeyOf(o.signer, << "ed25519PublicKey", "sha256Hash",
                                                   "preAuthTx", "ed25519SignedPayload" >>)], o)

make(o) ==
    CASE o.type = "createAccount"            -> createAccount(o)
      [] o.type = "payment"                  -> payment(o)
      [] o.type = "pathPaymentStrictReceive" -> pathPaymentStrictReceive(o)
      [] o.type = "pathPaymentStrictSend"    -> pathPaymentStrictSend(o)
      [] o.type = "manageSellOffer"          -> manageSellOffer(o)
      [] o.type = "manageBuyOffer"           -> manageBuyOffer(o)
      [] o.type = "createPassiveSellOffer"   -> createPassiveSellOffer(o)
      [] o.type = "setOptions"               -> setOptions(o)
      [] o.type = "changeTrust"              -> changeTrust(o)
      [] o.type = "allowTrust"               -> allowTrust(o)
      [] o.type = "accountMerge"             -> accountMerge(o)
      [] o.type = "inflation"                -> inflation(o)
      [] o.type = "manageData"               -> manageData(o)
      [] o.type = "bumpSequence"             -> bumpSequence(o)
      [] o.type = "createClaimableBalance"   -> createClaimableBalance(o)
      [] o.type = "claimClaimableBalance"    -> claimClaimableBalance(o)
      [] o.type = "clawback"                 -> clawback(o)
      [] o.type = "clawbackClaimableBalance" -> clawbackClaimableBalance(o)
      [] o.type = "setTrustLineFlags"        -> setTrustLineFlags(o)
      [] o.type = "liquidityPoolDeposit"     -> liquidityPoolDeposit(o)
      [] o.type = "liquidityPoolWithdraw"    -> liquidityPoolWithdraw(o)
      [] o.type = "invokeHostFunction"       -> invokeHostFunction(o)
      [] o.type = "extendFootprintTtl"       -> extendFootprintTtl(o)
      [] o.type = "restoreFootprint"         -> restoreFootprint(o)
      [] o.type = "uploadContractWasm"       -> uploadContractWasm(o)
      [] o.type = "invokeContractFunction"   -> invokeContractFunction(o)
      [] o.type = "createCustomContract"     -> createCustomContract(o)
      [] o.type = "createStellarAssetContract"    -> createStellarAssetContract(o)
      [] o.type = "beginSponsoringFutureReserves" -> beginSponsoringFutureReserves(o)
      [] o.type = "endSponsoringFutureReserves"   -> endSponsoringFutureReserves(o)
      [] o.type = "revokeAccountSponsorship"      -> revokeAccountSponsorship(o)
      [] o.type = "revokeTrustlineSponsorship"    -> revokeTrustlineSponsorship(o)
      [] o.type = "revokeOfferSponsorship"        -> revokeOfferSponsorship(o)
      [] o.type = "revokeDataSponsorship"         -> revokeDataSponsorship(o)
      [] o.type = "revokeSignerSponsorship"       -> revokeSignerSponsorship(o)
      [] o.type = "revokeLiquidityPoolSponsorship"    -> revokeLiquidityPoolSponsorship(o)
      [] o.type = "revokeClaimableBalanceSponsorship" -> revokeClaimableBalanceSponsorship(o)

-----------------------------------------------------------------------------
\* The decoding of an operation: by arm, the fields of the object that shows
\* it, besides its source.

shownAmounts(v, fields) == [f \in fields |-> fromStroops(v[f])]
shownAssets(v, fields) == [f \in fields |-> assetFromModern(v[f])]

showCreateAccount(v) ==
    [type |-> "createAccount", destination |-> accountIdToAddress(v.destination)]
    @@ shownAmounts(v, {"startingBalance"})

showPayment(v) ==
    [type |-> "payment", destination |-> muxedAccountToAddress(v.destination)]
    @@ shownAssets(v, {"asset"}) @@ shownAmounts(v, {"amount"})

showPathPaymentStrictReceive(v) ==
    [type |-> "pathPaymentStrictReceive", path |-> pathFromModern(v.path),
     destination |-> muxedAccountToAddress(v.destination)]
    @@ shownAssets(v, {"sendAsset", "destAsset"}) @@ shownAmounts(v, {"sendMax", "destAmount"})

showPathPaymentStrictSend(v) ==
    [type |-> "pathPaymentStrictSend", path |-> pathFromModern(v.path),
     destination |-> muxedAccountToAddress(v.destination)]
    @@ shownAssets(v, {"sendAsset", "destAsset"}) @@ shownAmounts(v, {"sendAmount", "destMin"})

showManageSellOffer(v) ==
    [type |-> "manageSellOffer", price |-> priceToString(v.price),
     offerId |-> SignedDigits(v.offerID)]
    @@ shownAssets(v, {"selling", "buying"}) @@ shownAmounts(v, {"amount"})

showManageBuyOffer(v) ==
    [type |-> "manageBuyOffer", price |-> priceToString(v.price),
     offerId |-> SignedDigits(v.offerID)]
    @@ shownAssets(v, {"selling", "buying"}) @@ shownAmounts(v, {"buyAmount"})

showCreatePassiveSellOffer(v) ==
    [type |-> "createPassiveSellOffer", price |-> priceToString(v.price)]
    @@ shownAssets(v, {"selling", "buying"}) @@ shownAmounts(v, {"amount"})

\* An option that is null is left out.
showSetOptions(v) ==
    [type |-> "setOptions"] @@
    [f \in DOMAIN v |->
        CASE v[f] = None -> None
          [] v[f] # None /\ f = "inflationDest" -> accountIdToAddress(v[f])
          [] v[f] # None /\ f = "signer" ->
                [keys |-> shownSignerKeys(v[f].key, "bytes"), weight |-> v[f].weight]
          [] OTHER -> v[f]]

showChangeTrust(v) ==
    [type |-> "changeTrust", line |-> lineFromModern(v.line)] @@ shownAmounts(v, {"limit"})

showAllowTrust(v) ==
    [type |-> "allowTrust", trustor |-> accountIdToAddress(v.trustor),
     assetCode |-> v.asset.assetCode, authorize |-> [number |-> v.authorize]]

showAccountMerge(v) ==
    [type |-> "accountMerge", destination |-> muxedAccountToAddress(v.destination)]

showManageData(v) ==
    [type |-> "manageData", name |-> v.dataName,
     value |-> IF v.dataValue = Null THEN None ELSE v.dataValue]

showBumpSequence(v) == [type |-> "bumpSequence", bumpTo |-> SignedDigits(v.bumpTo)]

showCreateClaimableBalance(v) ==
    [type |-> "createClaimableBalance", claimants |-> claimantsFromModern(v.claimants)]
    @@ shownAssets(v, {"asset"}) @@ shownAmounts(v, {"amount"})

showClaimClaimableBalance(v) ==
    [type |-> "claimClaimableBalance", balanceId |-> balanceIdText(v.balanceID)]

showBeginSponsoring(v) ==
    [type |-> "beginSponsoringFutureReserves", sponsoredId |-> accountIdToAddress(v.sponsoredID)]

decodeRevokeSponsorshipOp(v) ==
    CASE v.key = "Account" ->
            [type |-> "revokeAccountSponsorship", account |-> accountIdToAddress(v.accountID)]
      [] v.key = "Trustline" ->
            [type |-> "revokeTrustlineSponsorship", account |-> accountIdToAddress(v.accountID),
             asset |-> IF v.asset.arm = "PoolShare" THEN [poolId |-> bytesToHex(v.asset.poolId)]
                       ELSE assetFromModern(v.asset)]
      [] v.key = "Offer" ->
            [type |-> "revokeOfferSponsorship", seller |-> accountIdToAddress(v.sellerID),
             offerId |-> SignedDigits(v.offerID)]
      [] v.key = "Data" ->
            [type |-> "revokeDataSponsorship", account |-> accountIdToAddress(v.accountID),
             name |-> v.dataName]
      [] v.key = "ClaimableBalance" ->
            [type |-> "revokeClaimableBalanceSponsorship",
             balanceId |-> balanceIdText(v.balanceID)]
      [] v.key = "LiquidityPool" ->
            [type |-> "revokeLiquidityPoolSponsorship",
             liquidityPoolId |-> bytesToHex(v.liquidityPoolID)]
      [] v.key = "Signer" ->
            [type |-> "revokeSignerSponsorship", account |-> accountIdToAddress(v.accountID),
             signer |-> shownSignerKeys(v.signerKey, "hex")]

showClawback(v) ==
    [type |-> "clawback", from |-> muxedAccountToAddress(v.from)]
    @@ shownAssets(v, {"asset"}) @@ shownAmounts(v, {"amount"})

showClawbackClaimableBalance(v) ==
    [type |-> "clawbackClaimableBalance", balanceId |-> balanceIdText(v.balanceID)]

BitSet(n, bit) == (n \div bit) % 2 = 1

\* Only the flags that are set are shown.
showSetTrustLineFlagsSet(v) ==
    LET named == {f \in DOMAIN FlagBit : BitSet(v.setFlags, FlagBit[f])}
    IN  [type |-> "setTrustLineFlags", trustor |-> accountIdToAddress(v.trustor),
         flags |-> [f \in named |-> TRUE]]
        @@ shownAssets(v, {"asset"})

\* A flag both set and cleared is shown as set, one that is neither not at all.
showSetTrustLineFlags(v) ==
    LET named == {f \in DOMAIN FlagBit : \/ BitSet(v.setFlags, FlagBit[f])
                                         \/ BitSet(v.clearFlags, FlagBit[f])}
    IN  [type |-> "setTrustLineFlags", trustor |-> accountIdToAddress(v.trustor),
         flags |-> [f \in named |-> BitSet(v.setFlags, FlagBit[f])]]
        @@ shownAssets(v, {"asset"})

showLiquidityPoolDeposit(v) ==
    [type |-> "liquidityPoolDeposit", liquidityPoolId |-> bytesToHex(v.liquidityPoolID),
     minPrice |-> priceToString(v.minPrice), maxPrice |-> priceToString(v.maxPrice)]
    @@ shownAmounts(v, {"maxAmountA", "maxAmountB"})

showLiquidityPoolWithdraw(v) ==
    [type |-> "liquidityPoolWithdraw", liquidityPoolId |-> bytesToHex(v.liquidityPoolID)]
    @@ shownAmounts(v, {"amount", "minAmountA", "minAmountB"})

showInvokeHostFunction(v) ==
    [type |-> "invokeHostFunction", func |-> v.hostFunction, auth |-> authFromModern(v.auth)]

showExtendFootprintTtl(v) == [type |-> "extendFootprintTtl", extendTo |-> v.extendTo]

decodeBody(body) ==
    LET v == body.v
        is(arm) == body.arm = arm
    IN  CASE is("Inflation")                     -> [type |-> "inflation"]
          [] is("EndSponsoringFutureReserves")   -> [type |-> "endSponsoringFutureReserves"]
          [] is("CreateAccount")                 -> showCreateAccount(v)
          [] is("Payment")                       -> showPayment(v)
          [] is("PathPaymentStrictReceive")      -> showPathPaymentStrictReceive(v)
          [] is("PathPaymentStrictSend")         -> showPathPaymentStrictSend(v)
          [] is("ManageSellOffer")               -> showManageSellOffer(v)
          [] is("ManageBuyOffer")                -> showManageBuyOffer(v)
          [] is("CreatePassiveSellOffer")        -> showCreatePassiveSellOffer(v)
          [] is("SetOptions")                    -> showSetOptions(v)
          [] is("ChangeTrust")                   -> showChangeTrust(v)
          [] is("AllowTrust")                    -> showAllowTrust(v)
          [] is("AccountMerge")                  -> showAccountMerge(v)
          [] is("ManageData")                    -> showManageData(v)
          [] is("BumpSequence")                  -> showBumpSequence(v)
          [] is("CreateClaimableBalance")        -> showCreateClaimableBalance(v)
          [] is("ClaimClaimableBalance")         -> showClaimClaimableBalance(v)
          [] is("BeginSponsoringFutureReserves") -> showBeginSponsoring(v)
          [] is("RevokeSponsorship")             -> decodeRevokeSponsorshipOp(v)
          [] is("Clawback")                      -> showClawback(v)
          [] is("ClawbackClaimableBalance")      -> showClawbackClaimableBalance(v)
          [] is("SetTrustLineFlags")             -> showSetTrustLineFlags(v)
          [] is("LiquidityPoolDeposit")          -> showLiquidityPoolDeposit(v)
          [] is("LiquidityPoolWithdraw")         -> showLiquidityPoolWithdraw(v)
          [] is("InvokeHostFunction")            -> showInvokeHostFunction(v)
          [] is("ExtendFootprintTtl")            -> showExtendFootprintTtl(v)
          [] is("RestoreFootprint")              -> [type |-> "restoreFootprint"]

\* It throws for an asset without a code, and for a pool whose assets are not
\* in the order of their texts.
fromXDRObject(op) ==
    LET object  == decodeBody(op.body)
        source == IF op.sourceAccount = None THEN None
                  ELSE muxedAccountToAddress(op.sourceAccount)
    IN  IF \E f \in DOMAIN object : object[f] = Invalid THEN Invalid
        ELSE [source |-> source] @@ object

=============================================================================
