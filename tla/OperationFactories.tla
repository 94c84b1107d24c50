------------------------- MODULE OperationFactories -------------------------
(***************************************************************************)
(* The operation factories of the transaction builder: typed options in, an *)
(* XDR operation out.  A factory throws only where one of its fields does.  *)
(***************************************************************************)
EXTENDS OperationFields

buildOp(arm, fields, source) ==
    LET account == IF source = None THEN None ELSE parseMuxedAccount(source)
    IN  IF account = Invalid \/ \E f \in DOMAIN fields : fields[f] = Invalid
        THEN Invalid
        ELSE [sourceAccount |-> account, body |-> [arm |-> arm, v |-> fields]]

Default(value, default) == IF value = None THEN default ELSE value

modernCreateAccount(o) ==
    buildOp("CreateAccount", [destination     |-> parsePublicKey(o.destination),
                              startingBalance |-> o.startingBalance], o.source)

modernPayment(o) ==
    buildOp("Payment", [destination |-> parseMuxedAccount(o.destination),
                        asset |-> o.asset, amount |-> o.amount], o.source)

modernPathPaymentStrictReceive(o) ==
    buildOp("PathPaymentStrictReceive",
            [sendAsset |-> o.sendAsset, sendMax |-> o.sendMax,
             destination |-> parseMuxedAccount(o.destination),
             destAsset |-> o.destAsset, destAmount |-> o.destAmount,
             path |-> o.path], o.source)

modernPathPaymentStrictSend(o) ==
    buildOp("PathPaymentStrictSend",
            [sendAsset |-> o.sendAsset, sendAmount |-> o.sendAmount,
             destination |-> parseMuxedAccount(o.destination),
             destAsset |-> o.destAsset, destMin |-> o.destMin,
             path |-> o.path], o.source)

modernManageSellOffer(o) ==
    buildOp("ManageSellOffer",
            [selling |-> o.selling, buying |-> o.buying, amount |-> o.amount,
             price |-> o.price, offerID |-> Default(o.offerID, 0)], o.source)

modernManageBuyOffer(o) ==
    buildOp("ManageBuyOffer",
            [selling |-> o.selling, buying |-> o.buying, buyAmount |-> o.buyAmount,
             price |-> o.price, offerID |-> Default(o.offerID, 0)], o.source)

modernCreatePassiveSellOffer(o) ==
    buildOp("CreatePassiveSellOffer",
            [selling |-> o.selling, buying |-> o.buying, amount |-> o.amount,
             price |-> o.price], o.source)

OptionFields == {"clearFlags", "setFlags", "masterWeight", "lowThreshold",
                 "medThreshold", "highThreshold", "homeDomain", "signer"}

modernSetOptions(o) ==
    buildOp("SetOptions",
            [f \in OptionFields \cup {"inflationDest"} |->
                IF f = "inflationDest" /\ o[f] # None THEN parsePublicKey(o[f]) ELSE o[f]],
            o.source)

modernChangeTrust(o) ==
    buildOp("ChangeTrust", [line  |-> o.asset,
                            limit |-> Default(o.limit, MaxLimit)], o.source)

\* Codes up to four characters, the empty one included, are padded to four;
\* a code beyond twelve does not fit and throws.
modernAllowTrust(o) ==
    LET asset == IF o.assetCode.len <= 4
                 THEN [arm |-> "CreditAlphanum4", assetCode |-> o.assetCode]
                 ELSE IF o.assetCode.len <= 12
                      THEN [arm |-> "CreditAlphanum12", assetCode |-> o.assetCode]
                      ELSE Invalid
    IN  buildOp("AllowTrust", [trustor |-> parsePublicKey(o.trustor), asset |-> asset,
                               authorize |-> o.authorize], o.source)

modernAccountMerge(o) ==
    buildOp("AccountMerge", [destination |-> parseMuxedAccount(o.destination)], o.source)

modernInflation(o) == buildOp("Inflation", << >>, o.source)

modernManageData(o) ==
    buildOp("ManageData", [dataName |-> o.name, dataValue |-> o.value], o.source)

modernBumpSequence(o) == buildOp("BumpSequence", [bumpTo |-> o.bumpTo], o.source)

modernCreateClaimableBalance(o) ==
    buildOp("CreateClaimableBalance", [asset |-> o.asset, amount |-> o.amount,
                                       claimants |-> o.claimants], o.source)

modernClaimClaimableBalance(o) ==
    buildOp("ClaimClaimableBalance", [balanceID |-> o.balanceID], o.source)

modernBeginSponsoringFutureReserves(o) ==
    buildOp("BeginSponsoringFutureReserves",
            [sponsoredID |-> parsePublicKey(o.sponsoredID)], o.source)

modernEndSponsoringFutureReserves(o) ==
    buildOp("EndSponsoringFutureReserves", << >>, o.source)

modernClawback(o) ==
    buildOp("Clawback", [asset |-> o.asset, from |-> parseMuxedAccount(o.from),
                         amount |-> o.amount], o.source)

modernClawbackClaimableBalance(o) ==
    buildOp("ClawbackClaimableBalance", [balanceID |-> o.balanceID], o.source)

modernSetTrustLineFlags(o) ==
    buildOp("SetTrustLineFlags",
            [trustor |-> parsePublicKey(o.trustor), asset |-> o.asset,
             clearFlags |-> o.clearFlags, setFlags |-> o.setFlags], o.source)

modernLiquidityPoolDeposit(o) ==
    buildOp("LiquidityPoolDeposit",
            [liquidityPoolID |-> o.liquidityPoolID,
             maxAmountA |-> o.maxAmountA, maxAmountB |-> o.maxAmountB,
             minPrice |-> o.minPrice, maxPrice |-> o.maxPrice], o.source)

modernLiquidityPoolWithdraw(o) ==
    buildOp("LiquidityPoolWithdraw",
            [liquidityPoolID |-> o.liquidityPoolID, amount |-> o.amount,
             minAmountA |-> o.minAmountA, minAmountB |-> o.minAmountB], o.source)

modernInvokeHostFunction(o) ==
    buildOp("InvokeHostFunction", [hostFunction |-> o.hostFunction, auth |-> o.auth], o.source)

modernExtendFootprintTtl(o) ==
    buildOp("ExtendFootprintTtl", [extendTo |-> o.extendTo], o.source)

modernRestoreFootprint(o) == buildOp("RestoreFootprint", << >>, o.source)

=============================================================================
