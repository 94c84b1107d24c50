------------------------ MODULE CompatTypesTransaction ------------------------
(***************************************************************************)
(* packages/stellar-base-comp/src/generated: the classes of the compat     *)
(* interface for transactions, their results, ledger entries and the meta  *)
(* data of transactions.                                                   *)
(***************************************************************************)
EXTENDS CompatTypesOperation

TransactionV0Ext == CompatUnion("TransactionV0Ext", None, <<
    CompatVoid(<<0>>, 0)>>)

TransactionV0 == CompatStruct("TransactionV0", <<
    Same("sourceAccountEd25519", Id), Same("fee", Id),
    Same("seqNum", Int64Conv),
    Same("timeBounds", OptionConv(Class("TimeBounds"))),
    Same("memo", Class("Memo")),
    Same("operations", ArrayConv(Class("Operation"))),
    Same("ext", Class("TransactionV0Ext"))>>)

SignatureHint == CompatTypedef("SignatureHint", Id)

DecoratedSignature == CompatStruct("DecoratedSignature", <<
    Same("hint", BufferConv), Same("signature", BufferConv)>>)

TransactionV0Envelope == CompatStruct("TransactionV0Envelope", <<
    Same("tx", Class("TransactionV0")),
    Same("signatures", ArrayConv(Class("DecoratedSignature")))>>)

PreconditionType == CompatEnum("PreconditionType", [
    precondNone |-> "None", precondTime |-> "Time", precondV2 |-> "V2"])

LedgerBounds == CompatStruct("LedgerBounds", <<
    Same("minLedger", Id), Same("maxLedger", Id)>>)

PreconditionsV2 == CompatStruct("PreconditionsV2", <<
    Same("timeBounds", OptionConv(Class("TimeBounds"))),
    Same("ledgerBounds", OptionConv(Class("LedgerBounds"))),
    Same("minSeqNum", OptionConv(Int64Conv)), Same("minSeqAge", Uint64Conv),
    Same("minSeqLedgerGap", Id),
    Same("extraSigners", ArrayConv(Class("SignerKey")))>>)

Preconditions == CompatUnion("Preconditions", "PreconditionType", <<
    CompatVoid(<<"precondNone">>, "None"),
    CompatArm(<<"precondTime">>, "Time", "timeBounds", Class("TimeBounds")),
    CompatArm(<<"precondV2">>, "V2", "v2", Class("PreconditionsV2"))>>)

SorobanResourcesExtV0 == CompatStruct("SorobanResourcesExtV0", <<
    Same("archivedSorobanEntries", ArrayConv(Id))>>)

SorobanTransactionDataExt == CompatUnion("SorobanTransactionDataExt", None, <<
    CompatVoid(<<0>>, 0),
    CompatArm(<<1>>, 1, "resourceExt", Class("SorobanResourcesExtV0"))>>)

LedgerFootprint == CompatStruct("LedgerFootprint", <<
    Same("readOnly", ArrayConv(Class("LedgerKey"))),
    Same("readWrite", ArrayConv(Class("LedgerKey")))>>)

SorobanResources == CompatStruct("SorobanResources", <<
    Same("footprint", Class("LedgerFootprint")), Same("instructions", Id),
    Same("diskReadBytes", Id), Same("writeBytes", Id)>>)

SorobanTransactionData == CompatStruct("SorobanTransactionData", <<
    Same("ext", Class("SorobanTransactionDataExt")),
    Same("resources", Class("SorobanResources")),
    Same("resourceFee", Int64Conv)>>)

TransactionExt == CompatUnion("TransactionExt", None, <<
    CompatVoid(<<0>>, 0),
    CompatArm(<<1>>, 1, "sorobanData", Class("SorobanTransactionData"))>>)

Transaction == CompatStruct("Transaction", <<
    Same("sourceAccount", Class("MuxedAccount")), Same("fee", Id),
    Same("seqNum", Int64Conv), Same("cond", Class("Preconditions")),
    Same("memo", Class("Memo")),
    Same("operations", ArrayConv(Class("Operation"))),
    Same("ext", Class("TransactionExt"))>>)

TransactionV1Envelope == CompatStruct("TransactionV1Envelope", <<
    Same("tx", Class("Transaction")),
    Same("signatures", ArrayConv(Class("DecoratedSignature")))>>)

FeeBumpTransactionInnerTx == CompatUnion("FeeBumpTransactionInnerTx",
    "EnvelopeType", <<
    CompatArm(<<"envelopeTypeTx">>, "Tx", "v1",
        Class("TransactionV1Envelope"))>>)

FeeBumpTransactionExt == CompatUnion("FeeBumpTransactionExt", None, <<
    CompatVoid(<<0>>, 0)>>)

FeeBumpTransaction == CompatStruct("FeeBumpTransaction", <<
    Same("feeSource", Class("MuxedAccount")), Same("fee", Int64Conv),
    Same("innerTx", Class("FeeBumpTransactionInnerTx")),
    Same("ext", Class("FeeBumpTransactionExt"))>>)

FeeBumpTransactionEnvelope == CompatStruct("FeeBumpTransactionEnvelope", <<
    Same("tx", Class("FeeBumpTransaction")),
    Same("signatures", ArrayConv(Class("DecoratedSignature")))>>)

TransactionEnvelope == CompatUnion("TransactionEnvelope", "EnvelopeType", <<
    CompatArm(<<"envelopeTypeTxV0">>, "TxV0", "v0",
        Class("TransactionV0Envelope")),
    CompatArm(<<"envelopeTypeTx">>, "Tx", "v1",
        Class("TransactionV1Envelope")),
    CompatArm(<<"envelopeTypeTxFeeBump">>, "TxFeeBump", "feeBump",
        Class("FeeBumpTransactionEnvelope"))>>)

TransactionSet == CompatStruct("TransactionSet", <<
    Same("previousLedgerHash", Id),
    Renamed("txes", "txs", ArrayConv(Class("TransactionEnvelope")))>>)

TransactionResultCode == CompatEnum("TransactionResultCode", [
    txFeeBumpInnerSuccess |-> "TxFEEBumpInnerSuccess",
    txSuccess |-> "TxSUCCESS", txFailed |-> "TxFAILED",
    txTooEarly |-> "TxTOOEarly", txTooLate |-> "TxTOOLate",
    txMissingOperation |-> "TxMISSINGOperation", txBadSeq |-> "TxBADSeq",
    txBadAuth |-> "TxBADAuth",
    txInsufficientBalance |-> "TxINSUFFICIENTBalance",
    txNoAccount |-> "TxNOAccount", txInsufficientFee |-> "TxINSUFFICIENTFee",
    txBadAuthExtra |-> "TxBADAuthExtra", txInternalError |-> "TxINTERNALError",
    txNotSupported |-> "TxNOTSupported",
    txFeeBumpInnerFailed |-> "TxFEEBumpInnerFailed",
    txBadSponsorship |-> "TxBADSponsorship",
    txBadMinSeqAgeOrGap |-> "TxBADMinSeqAgeOrGap",
    txMalformed |-> "TxMALFORMED", txSorobanInvalid |-> "TxSOROBANInvalid"])

OperationResultCode == CompatEnum("OperationResultCode", [
    opInner |-> "OpINNER", opBadAuth |-> "OpBADAuth",
    opNoAccount |-> "OpNOAccount", opNotSupported |-> "OpNOTSupported",
    opTooManySubentries |-> "OpTOOManySubentries",
    opExceededWorkLimit |-> "OpEXCEEDEDWorkLimit",
    opTooManySponsoring |-> "OpTOOManySponsoring"])

CreateAccountResultCode == CompatEnum("CreateAccountResultCode", [
    createAccountSuccess |-> "Success", createAccountMalformed |-> "Malformed",
    createAccountUnderfunded |-> "Underfunded",
    createAccountLowReserve |-> "LowReserve",
    createAccountAlreadyExist |-> "AlreadyExist"])

CreateAccountResult == CompatUnion("CreateAccountResult",
    "CreateAccountResultCode", <<
    CompatVoid(<<"createAccountSuccess">>, "Success"),
    CompatVoid(<<"createAccountMalformed", "createAccountUnderfunded",
        "createAccountLowReserve", "createAccountAlreadyExist">>,
        "Malformed")>>)

PaymentResultCode == CompatEnum("PaymentResultCode", [
    paymentSuccess |-> "Success", paymentMalformed |-> "Malformed",
    paymentUnderfunded |-> "Underfunded", paymentSrcNoTrust |-> "SrcNoTrust",
    paymentSrcNotAuthorized |-> "SrcNotAuthorized",
    paymentNoDestination |-> "NoDestination", paymentNoTrust |-> "NoTrust",
    paymentNotAuthorized |-> "NotAuthorized", paymentLineFull |-> "LineFull",
    paymentNoIssuer |-> "NoIssuer"])

PaymentResult == CompatUnion("PaymentResult", "PaymentResultCode", <<
    CompatVoid(<<"paymentSuccess">>, "Success"),
    CompatVoid(<<"paymentMalformed", "paymentUnderfunded", "paymentSrcNoTrust",
        "paymentSrcNotAuthorized", "paymentNoDestination", "paymentNoTrust",
        "paymentNotAuthorized", "paymentLineFull", "paymentNoIssuer">>,
        "Malformed")>>)

PathPaymentStrictReceiveResultCode ==
    CompatEnum("PathPaymentStrictReceiveResultCode", [
    pathPaymentStrictReceiveSuccess |-> "Success",
    pathPaymentStrictReceiveMalformed |-> "Malformed",
    pathPaymentStrictReceiveUnderfunded |-> "Underfunded",
    pathPaymentStrictReceiveSrcNoTrust |-> "SrcNoTrust",
    pathPaymentStrictReceiveSrcNotAuthorized |-> "SrcNotAuthorized",
    pathPaymentStrictReceiveNoDestination |-> "NoDestination",
    pathPaymentStrictReceiveNoTrust |-> "NoTrust",
    pathPaymentStrictReceiveNotAuthorized |-> "NotAuthorized",
    pathPaymentStrictReceiveLineFull |-> "LineFull",
    pathPaymentStrictReceiveNoIssuer |-> "NoIssuer",
    pathPaymentStrictReceiveTooFewOffers |-> "TooFewOffers",
    pathPaymentStrictReceiveOfferCrossSelf |-> "OfferCrossSelf",
    pathPaymentStrictReceiveOverSendmax |-> "OverSendmax"])

ClaimAtomType == CompatEnum("ClaimAtomType", [
    claimAtomTypeV0 |-> "V0", claimAtomTypeOrderBook |-> "OrderBook",
    claimAtomTypeLiquidityPool |-> "LiquidityPool"])

ClaimOfferAtomV0 == CompatStruct("ClaimOfferAtomV0", <<
    Same("sellerEd25519", Id), Renamed("offerId", "offerID", Int64Conv),
    Same("assetSold", Class("Asset")), Same("amountSold", Int64Conv),
    Same("assetBought", Class("Asset")), Same("amountBought", Int64Conv)>>)

ClaimOfferAtom == CompatStruct("ClaimOfferAtom", <<
    Renamed("sellerId", "sellerID", Class("PublicKey")),
    Renamed("offerId", "offerID", Int64Conv),
    Same("assetSold", Class("Asset")), Same("amountSold", Int64Conv),
    Same("assetBought", Class("Asset")), Same("amountBought", Int64Conv)>>)

ClaimLiquidityAtom == CompatStruct("ClaimLiquidityAtom", <<
    Renamed("liquidityPoolId", "liquidityPoolID", BufferConv),
    Same("assetSold", Class("Asset")), Same("amountSold", Int64Conv),
    Same("assetBought", Class("Asset")), Same("amountBought", Int64Conv)>>)

ClaimAtom == CompatUnion("ClaimAtom", "ClaimAtomType", <<
    CompatArm(<<"claimAtomTypeV0">>, "V0", "v0", Class("ClaimOfferAtomV0")),
    CompatArm(<<"claimAtomTypeOrderBook">>, "OrderBook", "orderBook",
        Class("ClaimOfferAtom")),
    CompatArm(<<"claimAtomTypeLiquidityPool">>, "LiquidityPool",
        "liquidityPool", Class("ClaimLiquidityAtom"))>>)

SimplePaymentResult == CompatStruct("SimplePaymentResult", <<
    Same("destination", Class("PublicKey")), Same("asset", Class("Asset")),
    Same("amount", Int64Conv)>>)

PathPaymentStrictReceiveResultSuccess ==
    CompatStruct("PathPaymentStrictReceiveResultSuccess", <<
    Same("offers", ArrayConv(Class("ClaimAtom"))),
    Same("last", Class("SimplePaymentResult"))>>)

PathPaymentStrictReceiveResult == CompatUnion("PathPaymentStrictReceiveResult",
    "PathPaymentStrictReceiveResultCode", <<
    CompatArm(<<"pathPaymentStrictReceiveSuccess">>, "Success", "success",
        Class("PathPaymentStrictReceiveResultSuccess")),
    CompatVoid(<<"pathPaymentStrictReceiveMalformed",
        "pathPaymentStrictReceiveUnderfunded",
        "pathPaymentStrictReceiveSrcNoTrust",
        "pathPaymentStrictReceiveSrcNotAuthorized",
        "pathPaymentStrictReceiveNoDestination",
        "pathPaymentStrictReceiveNoTrust",
        "pathPaymentStrictReceiveNotAuthorized",
        "pathPaymentStrictReceiveLineFull">>, "Malformed"),
    CompatArm(<<"pathPaymentStrictReceiveNoIssuer">>, "NoIssuer", "noIssuer",
        Class("Asset")),
    CompatVoid(<<"pathPaymentStrictReceiveTooFewOffers",
        "pathPaymentStrictReceiveOfferCrossSelf",
        "pathPaymentStrictReceiveOverSendmax">>, "TooFewOffers")>>)

ManageSellOfferResultCode == CompatEnum("ManageSellOfferResultCode", [
    manageSellOfferSuccess |-> "Success",
    manageSellOfferMalformed |-> "Malformed",
    manageSellOfferSellNoTrust |-> "SellNoTrust",
    manageSellOfferBuyNoTrust |-> "BuyNoTrust",
    manageSellOfferSellNotAuthorized |-> "SellNotAuthorized",
    manageSellOfferBuyNotAuthorized |-> "BuyNotAuthorized",
    manageSellOfferLineFull |-> "LineFull",
    manageSellOfferUnderfunded |-> "Underfunded",
    manageSellOfferCrossSelf |-> "CrossSelf",
    manageSellOfferSellNoIssuer |-> "SellNoIssuer",
    manageSellOfferBuyNoIssuer |-> "BuyNoIssuer",
    manageSellOfferNotFound |-> "NotFound",
    manageSellOfferLowReserve |-> "LowReserve"])

ManageOfferEffect == CompatEnum("ManageOfferEffect", [
    manageOfferCreated |-> "Created", manageOfferUpdated |-> "Updated",
    manageOfferDeleted |-> "Deleted"])

OfferEntryExt == CompatUnion("OfferEntryExt", None, <<CompatVoid(<<0>>, 0)>>)

OfferEntry == CompatStruct("OfferEntry", <<
    Renamed("sellerId", "sellerID", Class("PublicKey")),
    Renamed("offerId", "offerID", Int64Conv), Same("selling", Class("Asset")),
    Same("buying", Class("Asset")), Same("amount", Int64Conv),
    Same("price", Class("Price")), Same("flags", Id),
    Same("ext", Class("OfferEntryExt"))>>)

ManageOfferSuccessResultOffer == CompatUnion("ManageOfferSuccessResultOffer",
    "ManageOfferEffect", <<
    CompatArm(<<"manageOfferCreated", "manageOfferUpdated">>, "Created",
        "offer", Class("OfferEntry")),
    CompatVoid(<<"manageOfferDeleted">>, "Deleted")>>)

ManageOfferSuccessResult == CompatStruct("ManageOfferSuccessResult", <<
    Same("offersClaimed", ArrayConv(Class("ClaimAtom"))),
    Same("offer", Class("ManageOfferSuccessResultOffer"))>>)

ManageSellOfferResult == CompatUnion("ManageSellOfferResult",
    "ManageSellOfferResultCode", <<
    CompatArm(<<"manageSellOfferSuccess">>, "Success", "success",
        Class("ManageOfferSuccessResult")),
    CompatVoid(<<"manageSellOfferMalformed", "manageSellOfferSellNoTrust",
        "manageSellOfferBuyNoTrust", "manageSellOfferSellNotAuthorized",
        "manageSellOfferBuyNotAuthorized", "manageSellOfferLineFull",
        "manageSellOfferUnderfunded", "manageSellOfferCrossSelf",
        "manageSellOfferSellNoIssuer", "manageSellOfferBuyNoIssuer",
        "manageSellOfferNotFound", "manageSellOfferLowReserve">>,
        "Malformed")>>)

SetOptionsResultCode == CompatEnum("SetOptionsResultCode", [
    setOptionsSuccess |-> "Success", setOptionsLowReserve |-> "LowReserve",
    setOptionsTooManySigners |-> "TooManySigners",
    setOptionsBadFlags |-> "BadFlags",
    setOptionsInvalidInflation |-> "InvalidInflation",
    setOptionsCantChange |-> "CantChange",
    setOptionsUnknownFlag |-> "UnknownFlag",
    setOptionsThresholdOutOfRange |-> "ThresholdOutOfRange",
    setOptionsBadSigner |-> "BadSigner",
    setOptionsInvalidHomeDomain |-> "InvalidHomeDomain",
    setOptionsAuthRevocableRequired |-> "AuthRevocableRequired"])

SetOptionsResult == CompatUnion("SetOptionsResult", "SetOptionsResultCode", <<
    CompatVoid(<<"setOptionsSuccess">>, "Success"),
    CompatVoid(<<"setOptionsLowReserve", "setOptionsTooManySigners",
        "setOptionsBadFlags", "setOptionsInvalidInflation",
        "setOptionsCantChange", "setOptionsUnknownFlag",
        "setOptionsThresholdOutOfRange", "setOptionsBadSigner",
        "setOptionsInvalidHomeDomain", "setOptionsAuthRevocableRequired">>,
        "LowReserve")>>)

ChangeTrustResultCode == CompatEnum("ChangeTrustResultCode", [
    changeTrustSuccess |-> "Success", changeTrustMalformed |-> "Malformed",
    changeTrustNoIssuer |-> "NoIssuer",
    changeTrustInvalidLimit |-> "InvalidLimit",
    changeTrustLowReserve |-> "LowReserve",
    changeTrustSelfNotAllowed |-> "SelfNotAllowed",
    changeTrustTrustLineMissing |-> "TrustLineMissing",
    changeTrustCannotDelete |-> "CannotDelete",
    changeTrustNotAuthMaintainLiabilities |-> "NotAuthMaintainLiabilities"])

ChangeTrustResult == CompatUnion("ChangeTrustResult", "ChangeTrustResultCode",
    <<
    CompatVoid(<<"changeTrustSuccess">>, "Success"),
    CompatVoid(<<"changeTrustMalformed", "changeTrustNoIssuer",
        "changeTrustInvalidLimit", "changeTrustLowReserve",
        "changeTrustSelfNotAllowed", "changeTrustTrustLineMissing",
        "changeTrustCannotDelete", "changeTrustNotAuthMaintainLiabilities">>,
        "Malformed")>>)

AllowTrustResultCode == CompatEnum("AllowTrustResultCode", [
    allowTrustSuccess |-> "Success", allowTrustMalformed |-> "Malformed",
    allowTrustNoTrustLine |-> "NoTrustLine",
    allowTrustTrustNotRequired |-> "TrustNotRequired",
    allowTrustCantRevoke |-> "CantRevoke",
    allowTrustSelfNotAllowed |-> "SelfNotAllowed",
    allowTrustLowReserve |-> "LowReserve"])

AllowTrustResult == CompatUnion("AllowTrustResult", "AllowTrustResultCode", <<
    CompatVoid(<<"allowTrustSuccess">>, "Success"),
    CompatVoid(<<"allowTrustMalformed", "allowTrustNoTrustLine",
        "allowTrustTrustNotRequired", "allowTrustCantRevoke",
        "allowTrustSelfNotAllowed", "allowTrustLowReserve">>, "Malformed")>>)

AccountMergeResultCode == CompatEnum("AccountMergeResultCode", [
    accountMergeSuccess |-> "Success", accountMergeMalformed |-> "Malformed",
    accountMergeNoAccount |-> "NoAccount",
    accountMergeImmutableSet |-> "ImmutableSet",
    accountMergeHasSubEntries |-> "HasSubEntries",
    accountMergeSeqnumTooFar |-> "SeqnumTooFar",
    accountMergeDestFull |-> "DestFull",
    accountMergeIsSponsor |-> "IsSponsor"])

AccountMergeResult == CompatUnion("AccountMergeResult",
    "AccountMergeResultCode", <<
    CompatArm(<<"accountMergeSuccess">>, "Success", "sourceAccountBalance",
        Int64Conv),
    CompatVoid(<<"accountMergeMalformed", "accountMergeNoAccount",
        "accountMergeImmutableSet", "accountMergeHasSubEntries",
        "accountMergeSeqnumTooFar", "accountMergeDestFull",
        "accountMergeIsSponsor">>, "Malformed")>>)

InflationResultCode == CompatEnum("InflationResultCode", [
    inflationSuccess |-> "Success", inflationNotTime |-> "NotTime"])

InflationPayout == CompatStruct("InflationPayout", <<
    Same("destination", Class("PublicKey")), Same("amount", Int64Conv)>>)

InflationResult == CompatUnion("InflationResult", "InflationResultCode", <<
    CompatArm(<<"inflationSuccess">>, "Success", "payouts",
        ArrayConv(Class("InflationPayout"))),
    CompatVoid(<<"inflationNotTime">>, "NotTime")>>)

ManageDataResultCode == CompatEnum("ManageDataResultCode", [
    manageDataSuccess |-> "Success",
    manageDataNotSupportedYet |-> "NotSupportedYet",
    manageDataNameNotFound |-> "NameNotFound",
    manageDataLowReserve |-> "LowReserve",
    manageDataInvalidName |-> "InvalidName"])

ManageDataResult == CompatUnion("ManageDataResult", "ManageDataResultCode", <<
    CompatVoid(<<"manageDataSuccess">>, "Success"),
    CompatVoid(<<"manageDataNotSupportedYet", "manageDataNameNotFound",
        "manageDataLowReserve", "manageDataInvalidName">>,
        "NotSupportedYet")>>)

BumpSequenceResultCode == CompatEnum("BumpSequenceResultCode", [
    bumpSequenceSuccess |-> "Success", bumpSequenceBadSeq |-> "BadSeq"])

BumpSequenceResult == CompatUnion("BumpSequenceResult",
    "BumpSequenceResultCode", <<
    CompatVoid(<<"bumpSequenceSuccess">>, "Success"),
    CompatVoid(<<"bumpSequenceBadSeq">>, "BadSeq")>>)

ManageBuyOfferResultCode == CompatEnum("ManageBuyOfferResultCode", [
    manageBuyOfferSuccess |-> "Success",
    manageBuyOfferMalformed |-> "Malformed",
    manageBuyOfferSellNoTrust |-> "SellNoTrust",
    manageBuyOfferBuyNoTrust |-> "BuyNoTrust",
    manageBuyOfferSellNotAuthorized |-> "SellNotAuthorized",
    manageBuyOfferBuyNotAuthorized |-> "BuyNotAuthorized",
    manageBuyOfferLineFull |-> "LineFull",
    manageBuyOfferUnderfunded |-> "Underfunded",
    manageBuyOfferCrossSelf |-> "CrossSelf",
    manageBuyOfferSellNoIssuer |-> "SellNoIssuer",
    manageBuyOfferBuyNoIssuer |-> "BuyNoIssuer",
    manageBuyOfferNotFound |-> "NotFound",
    manageBuyOfferLowReserve |-> "LowReserve"])

ManageBuyOfferResult == CompatUnion("ManageBuyOfferResult",
    "ManageBuyOfferResultCode", <<
    CompatArm(<<"manageBuyOfferSuccess">>, "Success", "success",
        Class("ManageOfferSuccessResult")),
    CompatVoid(<<"manageBuyOfferMalformed", "manageBuyOfferSellNoTrust",
        "manageBuyOfferBuyNoTrust", "manageBuyOfferSellNotAuthorized",
        "manageBuyOfferBuyNotAuthorized", "manageBuyOfferLineFull",
        "manageBuyOfferUnderfunded", "manageBuyOfferCrossSelf",
        "manageBuyOfferSellNoIssuer", "manageBuyOfferBuyNoIssuer",
        "manageBuyOfferNotFound", "manageBuyOfferLowReserve">>, "Malformed")>>)

PathPaymentStrictSendResultCode ==
    CompatEnum("PathPaymentStrictSendResultCode", [
    pathPaymentStrictSendSuccess |-> "Success",
    pathPaymentStrictSendMalformed |-> "Malformed",
    pathPaymentStrictSendUnderfunded |-> "Underfunded",
    pathPaymentStrictSendSrcNoTrust |-> "SrcNoTrust",
    pathPaymentStrictSendSrcNotAuthorized |-> "SrcNotAuthorized",
    pathPaymentStrictSendNoDestination |-> "NoDestination",
    pathPaymentStrictSendNoTrust |-> "NoTrust",
    pathPaymentStrictSendNotAuthorized |-> "NotAuthorized",
    pathPaymentStrictSendLineFull |-> "LineFull",
    pathPaymentStrictSendNoIssuer |-> "NoIssuer",
    pathPaymentStrictSendTooFewOffers |-> "TooFewOffers",
    pathPaymentStrictSendOfferCrossSelf |-> "OfferCrossSelf",
    pathPaymentStrictSendUnderDestmin |-> "UnderDestmin"])

PathPaymentStrictSendResultSuccess ==
    CompatStruct("PathPaymentStrictSendResultSuccess", <<
    Same("offers", ArrayConv(Class("ClaimAtom"))),
    Same("last", Class("SimplePaymentResult"))>>)

PathPaymentStrictSendResult == CompatUnion("PathPaymentStrictSendResult",
    "PathPaymentStrictSendResultCode", <<
    CompatArm(<<"pathPaymentStrictSendSuccess">>, "Success", "success",
        Class("PathPaymentStrictSendResultSuccess")),
    CompatVoid(<<"pathPaymentStrictSendMalformed",
        "pathPaymentStrictSendUnderfunded", "pathPaymentStrictSendSrcNoTrust",
        "pathPaymentStrictSendSrcNotAuthorized",
        "pathPaymentStrictSendNoDestination", "pathPaymentStrictSendNoTrust",
        "pathPaymentStrictSendNotAuthorized",
        "pathPaymentStrictSendLineFull">>, "Malformed"),
    CompatArm(<<"pathPaymentStrictSendNoIssuer">>, "NoIssuer", "noIssuer",
        Class("Asset")),
    CompatVoid(<<"pathPaymentStrictSendTooFewOffers",
        "pathPaymentStrictSendOfferCrossSelf",
        "pathPaymentStrictSendUnderDestmin">>, "TooFewOffers")>>)

CreateClaimableBalanceResultCode ==
    CompatEnum("CreateClaimableBalanceResultCode", [
    createClaimableBalanceSuccess |-> "Success",
    createClaimableBalanceMalformed |-> "Malformed",
    createClaimableBalanceLowReserve |-> "LowReserve",
    createClaimableBalanceNoTrust |-> "NoTrust",
    createClaimableBalanceNotAuthorized |-> "NotAuthorized",
    createClaimableBalanceUnderfunded |-> "Underfunded"])

CreateClaimableBalanceResult == CompatUnion("CreateClaimableBalanceResult",
    "CreateClaimableBalanceResultCode", <<
    CompatArm(<<"createClaimableBalanceSuccess">>, "Success", "balanceId",
        Class("ClaimableBalanceId")),
    CompatVoid(<<"createClaimableBalanceMalformed",
        "createClaimableBalanceLowReserve", "createClaimableBalanceNoTrust",
        "createClaimableBalanceNotAuthorized",
        "createClaimableBalanceUnderfunded">>, "Malformed")>>)

ClaimClaimableBalanceResultCode ==
    CompatEnum("ClaimClaimableBalanceResultCode", [
    claimClaimableBalanceSuccess |-> "Success",
    claimClaimableBalanceDoesNotExist |-> "DoesNotExist",
    claimClaimableBalanceCannotClaim |-> "CannotClaim",
    claimClaimableBalanceLineFull |-> "LineFull",
    claimClaimableBalanceNoTrust |-> "NoTrust",
    claimClaimableBalanceNotAuthorized |-> "NotAuthorized"])

ClaimClaimableBalanceResult == CompatUnion("ClaimClaimableBalanceResult",
    "ClaimClaimableBalanceResultCode", <<
    CompatVoid(<<"claimClaimableBalanceSuccess">>, "Success"),
    CompatVoid(<<"claimClaimableBalanceDoesNotExist",
        "claimClaimableBalanceCannotClaim", "claimClaimableBalanceLineFull",
        "claimClaimableBalanceNoTrust", "claimClaimableBalanceNotAuthorized">>,
        "DoesNotExist")>>)

BeginSponsoringFutureReservesResultCode ==
    CompatEnum("BeginSponsoringFutureReservesResultCode", [
    beginSponsoringFutureReservesSuccess |-> "Success",
    beginSponsoringFutureReservesMalformed |-> "Malformed",
    beginSponsoringFutureReservesAlreadySponsored |-> "AlreadySponsored",
    beginSponsoringFutureReservesRecursive |-> "Recursive"])

BeginSponsoringFutureReservesResult ==
    CompatUnion("BeginSponsoringFutureReservesResult",
    "BeginSponsoringFutureReservesResultCode", <<
    CompatVoid(<<"beginSponsoringFutureReservesSuccess">>, "Success"),
    CompatVoid(<<"beginSponsoringFutureReservesMalformed",
        "beginSponsoringFutureReservesAlreadySponsored",
        "beginSponsoringFutureReservesRecursive">>, "Malformed")>>)

EndSponsoringFutureReservesResultCode ==
    CompatEnum("EndSponsoringFutureReservesResultCode", [
    endSponsoringFutureReservesSuccess |-> "Success",
    endSponsoringFutureReservesNotSponsored |-> "NotSponsored"])

EndSponsoringFutureReservesResult ==
    CompatUnion("EndSponsoringFutureReservesResult",
    "EndSponsoringFutureReservesResultCode", <<
    CompatVoid(<<"endSponsoringFutureReservesSuccess">>, "Success"),
    CompatVoid(<<"endSponsoringFutureReservesNotSponsored">>,
        "NotSponsored")>>)

RevokeSponsorshipResultCode == CompatEnum("RevokeSponsorshipResultCode", [
    revokeSponsorshipSuccess |-> "Success",
    revokeSponsorshipDoesNotExist |-> "DoesNotExist",
    revokeSponsorshipNotSponsor |-> "NotSponsor",
    revokeSponsorshipLowReserve |-> "LowReserve",
    revokeSponsorshipOnlyTransferable |-> "OnlyTransferable",
    revokeSponsorshipMalformed |-> "Malformed"])

RevokeSponsorshipResult == CompatUnion("RevokeSponsorshipResult",
    "RevokeSponsorshipResultCode", <<
    CompatVoid(<<"revokeSponsorshipSuccess">>, "Success"),
    CompatVoid(<<"revokeSponsorshipDoesNotExist",
        "revokeSponsorshipNotSponsor", "revokeSponsorshipLowReserve",
        "revokeSponsorshipOnlyTransferable", "revokeSponsorshipMalformed">>,
        "DoesNotExist")>>)

ClawbackResultCode == CompatEnum("ClawbackResultCode", [
    clawbackSuccess |-> "Success", clawbackMalformed |-> "Malformed",
    clawbackNotClawbackEnabled |-> "NotClawbackEnabled",
    clawbackNoTrust |-> "NoTrust", clawbackUnderfunded |-> "Underfunded"])

ClawbackResult == CompatUnion("ClawbackResult", "ClawbackResultCode", <<
    CompatVoid(<<"clawbackSuccess">>, "Success"),
    CompatVoid(<<"clawbackMalformed", "clawbackNotClawbackEnabled",
        "clawbackNoTrust", "clawbackUnderfunded">>, "Malformed")>>)

ClawbackClaimableBalanceResultCode ==
    CompatEnum("ClawbackClaimableBalanceResultCode", [
    clawbackClaimableBalanceSuccess |-> "Success",
    clawbackClaimableBalanceDoesNotExist |-> "DoesNotExist",
    clawbackClaimableBalanceNotIssuer |-> "NotIssuer",
    clawbackClaimableBalanceNotClawbackEnabled |-> "NotClawbackEnabled"])

ClawbackClaimableBalanceResult == CompatUnion("ClawbackClaimableBalanceResult",
    "ClawbackClaimableBalanceResultCode", <<
    CompatVoid(<<"clawbackClaimableBalanceSuccess">>, "Success"),
    CompatVoid(<<"clawbackClaimableBalanceDoesNotExist",
        "clawbackClaimableBalanceNotIssuer",
        "clawbackClaimableBalanceNotClawbackEnabled">>, "DoesNotExist")>>)

SetTrustLineFlagsResultCode == CompatEnum("SetTrustLineFlagsResultCode", [
    setTrustLineFlagsSuccess |-> "Success",
    setTrustLineFlagsMalformed |-> "Malformed",
    setTrustLineFlagsNoTrustLine |-> "NoTrustLine",
    setTrustLineFlagsCantRevoke |-> "CantRevoke",
    setTrustLineFlagsInvalidState |-> "InvalidState",
    setTrustLineFlagsLowReserve |-> "LowReserve"])

SetTrustLineFlagsResult == CompatUnion("SetTrustLineFlagsResult",
    "SetTrustLineFlagsResultCode", <<
    CompatVoid(<<"setTrustLineFlagsSuccess">>, "Success"),
    CompatVoid(<<"setTrustLineFlagsMalformed", "setTrustLineFlagsNoTrustLine",
        "setTrustLineFlagsCantRevoke", "setTrustLineFlagsInvalidState",
        "setTrustLineFlagsLowReserve">>, "Malformed")>>)

LiquidityPoolDepositResultCode == CompatEnum("LiquidityPoolDepositResultCode",
    [
    liquidityPoolDepositSuccess |-> "Success",
    liquidityPoolDepositMalformed |-> "Malformed",
    liquidityPoolDepositNoTrust |-> "NoTrust",
    liquidityPoolDepositNotAuthorized |-> "NotAuthorized",
    liquidityPoolDepositUnderfunded |-> "Underfunded",
    liquidityPoolDepositLineFull |-> "LineFull",
    liquidityPoolDepositBadPrice |-> "BadPrice",
    liquidityPoolDepositPoolFull |-> "PoolFull"])

LiquidityPoolDepositResult == CompatUnion("LiquidityPoolDepositResult",
    "LiquidityPoolDepositResultCode", <<
    CompatVoid(<<"liquidityPoolDepositSuccess">>, "Success"),
    CompatVoid(<<"liquidityPoolDepositMalformed",
        "liquidityPoolDepositNoTrust", "liquidityPoolDepositNotAuthorized",
        "liquidityPoolDepositUnderfunded", "liquidityPoolDepositLineFull",
        "liquidityPoolDepositBadPrice", "liquidityPoolDepositPoolFull">>,
        "Malformed")>>)

LiquidityPoolWithdrawResultCode ==
    CompatEnum("LiquidityPoolWithdrawResultCode", [
    liquidityPoolWithdrawSuccess |-> "Success",
    liquidityPoolWithdrawMalformed |-> "Malformed",
    liquidityPoolWithdrawNoTrust |-> "NoTrust",
    liquidityPoolWithdrawUnderfunded |-> "Underfunded",
    liquidityPoolWithdrawLineFull |-> "LineFull",
    liquidityPoolWithdrawUnderMinimum |-> "UnderMinimum"])

LiquidityPoolWithdrawResult == CompatUnion("LiquidityPoolWithdrawResult",
    "LiquidityPoolWithdrawResultCode", <<
    CompatVoid(<<"liquidityPoolWithdrawSuccess">>, "Success"),
    CompatVoid(<<"liquidityPoolWithdrawMalformed",
        "liquidityPoolWithdrawNoTrust", "liquidityPoolWithdrawUnderfunded",
        "liquidityPoolWithdrawLineFull", "liquidityPoolWithdrawUnderMinimum">>,
        "Malformed")>>)

InvokeHostFunctionResultCode == CompatEnum("InvokeHostFunctionResultCode", [
    invokeHostFunctionSuccess |-> "Success",
    invokeHostFunctionMalformed |-> "Malformed",
    invokeHostFunctionTrapped |-> "Trapped",
    invokeHostFunctionResourceLimitExceeded |-> "ResourceLimitExceeded",
    invokeHostFunctionEntryArchived |-> "EntryArchived",
    invokeHostFunctionInsufficientRefundableFee |->
        "InsufficientRefundableFee"])

InvokeHostFunctionResult == CompatUnion("InvokeHostFunctionResult",
    "InvokeHostFunctionResultCode", <<
    CompatArm(<<"invokeHostFunctionSuccess">>, "Success", "success", Id),
    CompatVoid(<<"invokeHostFunctionMalformed", "invokeHostFunctionTrapped",
        "invokeHostFunctionResourceLimitExceeded",
        "invokeHostFunctionEntryArchived",
        "invokeHostFunctionInsufficientRefundableFee">>, "Malformed")>>)

ExtendFootprintTtlResultCode == CompatEnum("ExtendFootprintTTLResultCode", [
    extendFootprintTtlSuccess |-> "Success",
    extendFootprintTtlMalformed |-> "Malformed",
    extendFootprintTtlResourceLimitExceeded |-> "ResourceLimitExceeded",
    extendFootprintTtlInsufficientRefundableFee |->
        "InsufficientRefundableFee"])

ExtendFootprintTtlResult == CompatUnion("ExtendFootprintTTLResult",
    "ExtendFootprintTtlResultCode", <<
    CompatVoid(<<"extendFootprintTtlSuccess">>, "Success"),
    CompatVoid(<<"extendFootprintTtlMalformed",
        "extendFootprintTtlResourceLimitExceeded",
        "extendFootprintTtlInsufficientRefundableFee">>, "Malformed")>>)

RestoreFootprintResultCode == CompatEnum("RestoreFootprintResultCode", [
    restoreFootprintSuccess |-> "Success",
    restoreFootprintMalformed |-> "Malformed",
    restoreFootprintResourceLimitExceeded |-> "ResourceLimitExceeded",
    restoreFootprintInsufficientRefundableFee |-> "InsufficientRefundableFee"])

RestoreFootprintResult == CompatUnion("RestoreFootprintResult",
    "RestoreFootprintResultCode", <<
    CompatVoid(<<"restoreFootprintSuccess">>, "Success"),
    CompatVoid(<<"restoreFootprintMalformed",
        "restoreFootprintResourceLimitExceeded",
        "restoreFootprintInsufficientRefundableFee">>, "Malformed")>>)

OperationResultTr == CompatUnion("OperationResultTr", "OperationType", <<
    CompatArm(<<"createAccount">>, "CreateAccount", "createAccountResult",
        Class("CreateAccountResult")),
    CompatArm(<<"payment">>, "Payment", "paymentResult",
        Class("PaymentResult")),
    CompatArm(<<"pathPaymentStrictReceive">>, "PathPaymentStrictReceive",
        "pathPaymentStrictReceiveResult",
        Class("PathPaymentStrictReceiveResult")),
    CompatArm(<<"manageSellOffer">>, "ManageSellOffer",
        "manageSellOfferResult", Class("ManageSellOfferResult")),
    CompatArm(<<"createPassiveSellOffer">>, "CreatePassiveSellOffer",
        "createPassiveSellOfferResult", Class("ManageSellOfferResult")),
    CompatArm(<<"setOptions">>, "SetOptions", "setOptionsResult",
        Class("SetOptionsResult")),
    CompatArm(<<"changeTrust">>, "ChangeTrust", "changeTrustResult",
        Class("ChangeTrustResult")),
    CompatArm(<<"allowTrust">>, "AllowTrust", "allowTrustResult",
        Class("AllowTrustResult")),
    CompatArm(<<"accountMerge">>, "AccountMerge", "accountMergeResult",
        Class("AccountMergeResult")),
    CompatArm(<<"inflation">>, "Inflation", "inflationResult",
        Class("InflationResult")),
    CompatArm(<<"manageData">>, "ManageData", "manageDataResult",
        Class("ManageDataResult")),
    CompatArm(<<"bumpSequence">>, "BumpSequence", "bumpSeqResult",
        Class("BumpSequenceResult")),
    CompatArm(<<"manageBuyOffer">>, "ManageBuyOffer", "manageBuyOfferResult",
        Class("ManageBuyOfferResult")),
    CompatArm(<<"pathPaymentStrictSend">>, "PathPaymentStrictSend",
        "pathPaymentStrictSendResult", Class("PathPaymentStrictSendResult")),
    CompatArm(<<"createClaimableBalance">>, "CreateClaimableBalance",
        "createClaimableBalanceResult", Class("CreateClaimableBalanceResult")),
    CompatArm(<<"claimClaimableBalance">>, "ClaimClaimableBalance",
        "claimClaimableBalanceResult", Class("ClaimClaimableBalanceResult")),
    CompatArm(<<"beginSponsoringFutureReserves">>,
        "BeginSponsoringFutureReserves", "beginSponsoringFutureReservesResult",
        Class("BeginSponsoringFutureReservesResult")),
    CompatArm(<<"endSponsoringFutureReserves">>, "EndSponsoringFutureReserves",
        "endSponsoringFutureReservesResult",
        Class("EndSponsoringFutureReservesResult")),
    CompatArm(<<"revokeSponsorship">>, "RevokeSponsorship",
        "revokeSponsorshipResult", Class("RevokeSponsorshipResult")),
    CompatArm(<<"clawback">>, "Clawback", "clawbackResult",
        Class("ClawbackResult")),
    CompatArm(<<"clawbackClaimableBalance">>, "ClawbackClaimableBalance",
        "clawbackClaimableBalanceResult",
        Class("ClawbackClaimableBalanceResult")),
    CompatArm(<<"setTrustLineFlags">>, "SetTrustLineFlags",
        "setTrustLineFlagsResult", Class("SetTrustLineFlagsResult")),
    CompatArm(<<"liquidityPoolDeposit">>, "LiquidityPoolDeposit",
        "liquidityPoolDepositResult", Class("LiquidityPoolDepositResult")),
    CompatArm(<<"liquidityPoolWithdraw">>, "LiquidityPoolWithdraw",
        "liquidityPoolWithdrawResult", Class("LiquidityPoolWithdrawResult")),
    CompatArm(<<"invokeHostFunction">>, "InvokeHostFunction",
        "invokeHostFunctionResult", Class("InvokeHostFunctionResult")),
    CompatArm(<<"extendFootprintTtl">>, "ExtendFootprintTtl",
        "extendFootprintTtlResult", Class("ExtendFootprintTtlResult")),
    CompatArm(<<"restoreFootprint">>, "RestoreFootprint",
        "restoreFootprintResult", Class("RestoreFootprintResult"))>>)

OperationResult == CompatUnion("OperationResult", "OperationResultCode", <<
    CompatArm(<<"opInner">>, "OpINNER", "tr", Class("OperationResultTr")),
    CompatVoid(<<"opBadAuth", "opNoAccount", "opNotSupported",
        "opTooManySubentries", "opExceededWorkLimit", "opTooManySponsoring">>,
        "OpBADAuth")>>)

InnerTransactionResultResult == CompatUnion("InnerTransactionResultResult",
    "TransactionResultCode", <<
    CompatArm(<<"txSuccess", "txFailed">>, "TxSUCCESS", "results",
        ArrayConv(Class("OperationResult"))),
    CompatVoid(<<"txTooEarly", "txTooLate", "txMissingOperation", "txBadSeq",
        "txBadAuth", "txInsufficientBalance", "txNoAccount",
        "txInsufficientFee", "txBadAuthExtra", "txInternalError",
        "txNotSupported", "txBadSponsorship", "txBadMinSeqAgeOrGap",
        "txMalformed", "txSorobanInvalid">>, "TxTOOEarly")>>)

InnerTransactionResultExt == CompatUnion("InnerTransactionResultExt", None, <<
    CompatVoid(<<0>>, 0)>>)

InnerTransactionResult == CompatStruct("InnerTransactionResult", <<
    Same("feeCharged", Int64Conv),
    Same("result", Class("InnerTransactionResultResult")),
    Same("ext", Class("InnerTransactionResultExt"))>>)

InnerTransactionResultPair == CompatStruct("InnerTransactionResultPair", <<
    Same("transactionHash", Id),
    Same("result", Class("InnerTransactionResult"))>>)

TransactionResultResult == CompatUnion("TransactionResultResult",
    "TransactionResultCode", <<
    CompatArm(<<"txFeeBumpInnerSuccess", "txFeeBumpInnerFailed">>,
        "TxFEEBumpInnerSuccess", "innerResultPair",
        Class("InnerTransactionResultPair")),
    CompatArm(<<"txSuccess", "txFailed">>, "TxSUCCESS", "results",
        ArrayConv(Class("OperationResult"))),
    CompatVoid(<<"txTooEarly", "txTooLate", "txMissingOperation", "txBadSeq",
        "txBadAuth", "txInsufficientBalance", "txNoAccount",
        "txInsufficientFee", "txBadAuthExtra", "txInternalError",
        "txNotSupported", "txBadSponsorship", "txBadMinSeqAgeOrGap",
        "txMalformed", "txSorobanInvalid">>, "TxTOOEarly")>>)

TransactionResultExt == CompatUnion("TransactionResultExt", None, <<
    CompatVoid(<<0>>, 0)>>)

TransactionResult == CompatStruct("TransactionResult", <<
    Same("feeCharged", Int64Conv),
    Same("result", Class("TransactionResultResult")),
    Same("ext", Class("TransactionResultExt"))>>)

TransactionResultPair == CompatStruct("TransactionResultPair", <<
    Same("transactionHash", Id), Same("result", Class("TransactionResult"))>>)

LedgerEntryChangeType == CompatEnum("LedgerEntryChangeType", [
    ledgerEntryCreated |-> "Created", ledgerEntryUpdated |-> "Updated",
    ledgerEntryRemoved |-> "Removed", ledgerEntryState |-> "State",
    ledgerEntryRestored |-> "Restored"])

Thresholds == CompatTypedef("Thresholds", Id)

Liabilities == CompatStruct("Liabilities", <<
    Same("buying", Int64Conv), Same("selling", Int64Conv)>>)

SponsorshipDescriptor == CompatTypedef("SponsorshipDescriptor",
    OptionConv(Class("PublicKey")))

AccountEntryExtensionV3 == CompatStruct("AccountEntryExtensionV3", <<
    Same("ext", Class("ExtensionPoint")), Same("seqLedger", Id),
    Same("seqTime", Uint64Conv)>>)

AccountEntryExtensionV2Ext == CompatUnion("AccountEntryExtensionV2Ext", None,
    <<
    CompatVoid(<<0>>, 0),
    CompatArm(<<3>>, 3, "v3", Class("AccountEntryExtensionV3"))>>)

AccountEntryExtensionV2 == CompatStruct("AccountEntryExtensionV2", <<
    Same("numSponsored", Id), Same("numSponsoring", Id),
    Same("signerSponsoringIDs", ArrayConv(OptionConv(Class("PublicKey")))),
    Same("ext", Class("AccountEntryExtensionV2Ext"))>>)

AccountEntryExtensionV1Ext == CompatUnion("AccountEntryExtensionV1Ext", None,
    <<
    CompatVoid(<<0>>, 0),
    CompatArm(<<2>>, 2, "v2", Class("AccountEntryExtensionV2"))>>)

AccountEntryExtensionV1 == CompatStruct("AccountEntryExtensionV1", <<
    Same("liabilities", Class("Liabilities")),
    Same("ext", Class("AccountEntryExtensionV1Ext"))>>)

AccountEntryExt == CompatUnion("AccountEntryExt", None, <<
    CompatVoid(<<0>>, 0),
    CompatArm(<<1>>, 1, "v1", Class("AccountEntryExtensionV1"))>>)

AccountEntry == CompatStruct("AccountEntry", <<
    Renamed("accountId", "accountID", Class("PublicKey")),
    Same("balance", Int64Conv), Same("seqNum", Int64Conv),
    Same("numSubEntries", Id),
    Same("inflationDest", OptionConv(Class("PublicKey"))), Same("flags", Id),
    Same("homeDomain", Id), Same("thresholds", Id),
    Same("signers", ArrayConv(Class("Signer"))),
    Same("ext", Class("AccountEntryExt"))>>)

TrustLineEntryExtensionV2Ext == CompatUnion("TrustLineEntryExtensionV2Ext",
    None, <<
    CompatVoid(<<0>>, 0)>>)

TrustLineEntryExtensionV2 == CompatStruct("TrustLineEntryExtensionV2", <<
    Same("liquidityPoolUseCount", Id),
    Same("ext", Class("TrustLineEntryExtensionV2Ext"))>>)

TrustLineEntryV1Ext == CompatUnion("TrustLineEntryV1Ext", None, <<
    CompatVoid(<<0>>, 0),
    CompatArm(<<2>>, 2, "v2", Class("TrustLineEntryExtensionV2"))>>)

TrustLineEntryV1 == CompatStruct("TrustLineEntryV1", <<
    Same("liabilities", Class("Liabilities")),
    Same("ext", Class("TrustLineEntryV1Ext"))>>)

TrustLineEntryExt == CompatUnion("TrustLineEntryExt", None, <<
    CompatVoid(<<0>>, 0),
    CompatArm(<<1>>, 1, "v1", Class("TrustLineEntryV1"))>>)

TrustLineEntry == CompatStruct("TrustLineEntry", <<
    Renamed("accountId", "accountID", Class("PublicKey")),
    Same("asset", Class("TrustLineAsset")), Same("balance", Int64Conv),
    Same("limit", Int64Conv), Same("flags", Id),
    Same("ext", Class("TrustLineEntryExt"))>>)

DataEntryExt == CompatUnion("DataEntryExt", None, <<CompatVoid(<<0>>, 0)>>)

DataEntry == CompatStruct("DataEntry", <<
    Renamed("accountId", "accountID", Class("PublicKey")),
    Same("dataName", Id), Same("dataValue", Id),
    Same("ext", Class("DataEntryExt"))>>)

ClaimableBalanceEntryExtensionV1Ext ==
    CompatUnion("ClaimableBalanceEntryExtensionV1Ext", None, <<
    CompatVoid(<<0>>, 0)>>)

ClaimableBalanceEntryExtensionV1 ==
    CompatStruct("ClaimableBalanceEntryExtensionV1", <<
    Same("ext", Class("ClaimableBalanceEntryExtensionV1Ext")),
    Same("flags", Id)>>)

ClaimableBalanceEntryExt == CompatUnion("ClaimableBalanceEntryExt", None, <<
    CompatVoid(<<0>>, 0),
    CompatArm(<<1>>, 1, "v1", Class("ClaimableBalanceEntryExtensionV1"))>>)

ClaimableBalanceEntry == CompatStruct("ClaimableBalanceEntry", <<
    Renamed("balanceId", "balanceID", Class("ClaimableBalanceId")),
    Same("claimants", ArrayConv(Class("Claimant"))),
    Same("asset", Class("Asset")), Same("amount", Int64Conv),
    Same("ext", Class("ClaimableBalanceEntryExt"))>>)

LiquidityPoolEntryConstantProduct ==
    CompatStruct("LiquidityPoolEntryConstantProduct", <<
    Same("params", Class("LiquidityPoolConstantProductParameters")),
    Same("reserveA", Int64Conv), Same("reserveB", Int64Conv),
    Same("totalPoolShares", Int64Conv),
    Same("poolSharesTrustLineCount", Int64Conv)>>)

LiquidityPoolEntryBody == CompatUnion("LiquidityPoolEntryBody",
    "LiquidityPoolType", <<
    CompatArm(<<"liquidityPoolConstantProduct">>,
        "LiquidityPoolConstantProduct", "constantProduct",
        Class("LiquidityPoolEntryConstantProduct"))>>)

LiquidityPoolEntry == CompatStruct("LiquidityPoolEntry", <<
    Renamed("liquidityPoolId", "liquidityPoolID", BufferConv),
    Same("body", Class("LiquidityPoolEntryBody"))>>)

ContractDataEntry == CompatStruct("ContractDataEntry", <<
    Same("ext", Class("ExtensionPoint")), Same("contract", Class("ScAddress")),
    Same("key", LazyConv("ScVal")),
    Same("durability", Class("ContractDataDurability")),
    Same("val", LazyConv("ScVal"))>>)

ContractCodeCostInputs == CompatStruct("ContractCodeCostInputs", <<
    Same("ext", Class("ExtensionPoint")), Same("nInstructions", Id),
    Same("nFunctions", Id), Same("nGlobals", Id), Same("nTableEntries", Id),
    Same("nTypes", Id), Same("nDataSegments", Id), Same("nElemSegments", Id),
    Same("nImports", Id), Same("nExports", Id),
    Same("nDataSegmentBytes", Id)>>)

ContractCodeEntryV1 == CompatStruct("ContractCodeEntryV1", <<
    Same("ext", Class("ExtensionPoint")),
    Same("costInputs", Class("ContractCodeCostInputs"))>>)

ContractCodeEntryExt == CompatUnion("ContractCodeEntryExt", None, <<
    CompatVoid(<<0>>, 0),
    CompatArm(<<1>>, 1, "v1", Class("ContractCodeEntryV1"))>>)

ContractCodeEntry == CompatStruct("ContractCodeEntry", <<
    Same("ext", Class("ContractCodeEntryExt")), Same("hash", Id),
    Same("code", Id)>>)

TtlEntry == CompatStruct("TTLEntry", <<
    Same("keyHash", Id), Same("liveUntilLedgerSeq", Id)>>)

LedgerEntryData == CompatUnion("LedgerEntryData", "LedgerEntryType", <<
    CompatArm(<<"account">>, "Account", "account", Class("AccountEntry")),
    CompatArm(<<"trustline">>, "Trustline", "trustLine",
        Class("TrustLineEntry")),
    CompatArm(<<"offer">>, "Offer", "offer", Class("OfferEntry")),
    CompatArm(<<"data">>, "Data", "data", Class("DataEntry")),
    CompatArm(<<"claimableBalance">>, "ClaimableBalance", "claimableBalance",
        Class("ClaimableBalanceEntry")),
    CompatArm(<<"liquidityPool">>, "LiquidityPool", "liquidityPool",
        Class("LiquidityPoolEntry")),
    CompatArm(<<"contractData">>, "ContractData", "contractData",
        Class("ContractDataEntry")),
    CompatArm(<<"contractCode">>, "ContractCode", "contractCode",
        Class("ContractCodeEntry")),
    CompatArm(<<"configSetting">>, "ConfigSetting", "configSetting",
        Class("ConfigSettingEntry")),
    CompatArm(<<"ttl">>, "Ttl", "ttl", Class("TtlEntry"))>>)

LedgerEntryExtensionV1Ext == CompatUnion("LedgerEntryExtensionV1Ext", None, <<
    CompatVoid(<<0>>, 0)>>)

LedgerEntryExtensionV1 == CompatStruct("LedgerEntryExtensionV1", <<
    Renamed("sponsoringId", "sponsoringID", OptionConv(Class("PublicKey"))),
    Same("ext", Class("LedgerEntryExtensionV1Ext"))>>)

LedgerEntryExt == CompatUnion("LedgerEntryExt", None, <<
    CompatVoid(<<0>>, 0),
    CompatArm(<<1>>, 1, "v1", Class("LedgerEntryExtensionV1"))>>)

LedgerEntry == CompatStruct("LedgerEntry", <<
    Same("lastModifiedLedgerSeq", Id), Same("data", Class("LedgerEntryData")),
    Same("ext", Class("LedgerEntryExt"))>>)

LedgerEntryChange == CompatUnion("LedgerEntryChange", "LedgerEntryChangeType",
    <<
    CompatArm(<<"ledgerEntryCreated">>, "Created", "created",
        Class("LedgerEntry")),
    CompatArm(<<"ledgerEntryUpdated">>, "Updated", "updated",
        Class("LedgerEntry")),
    CompatArm(<<"ledgerEntryRemoved">>, "Removed", "removed",
        Class("LedgerKey")),
    CompatArm(<<"ledgerEntryState">>, "State", "state", Class("LedgerEntry")),
    CompatArm(<<"ledgerEntryRestored">>, "Restored", "restored",
        Class("LedgerEntry"))>>)

LedgerEntryChanges == CompatTypedef("LedgerEntryChanges",
    ArrayConv(Class("LedgerEntryChange")))

OperationMeta == CompatStruct("OperationMeta", <<
    Same("changes", ArrayConv(Class("LedgerEntryChange")))>>)

TransactionMetaV1 == CompatStruct("TransactionMetaV1", <<
    Same("txChanges", ArrayConv(Class("LedgerEntryChange"))),
    Same("operations", ArrayConv(Class("OperationMeta")))>>)

TransactionMetaV2 == CompatStruct("TransactionMetaV2", <<
    Same("txChangesBefore", ArrayConv(Class("LedgerEntryChange"))),
    Same("operations", ArrayConv(Class("OperationMeta"))),
    Same("txChangesAfter", ArrayConv(Class("LedgerEntryChange")))>>)

SorobanTransactionMetaExtV1 == CompatStruct("SorobanTransactionMetaExtV1", <<
    Same("ext", Class("ExtensionPoint")),
    Same("totalNonRefundableResourceFeeCharged", Int64Conv),
    Same("totalRefundableResourceFeeCharged", Int64Conv),
    Same("rentFeeCharged", Int64Conv)>>)

SorobanTransactionMetaExt == CompatUnion("SorobanTransactionMetaExt", None, <<
    CompatVoid(<<0>>, 0),
    CompatArm(<<1>>, 1, "v1", Class("SorobanTransactionMetaExtV1"))>>)

ContractEventType == CompatEnum("ContractEventType", [
    system |-> "System", contract |-> "Contract", diagnostic |-> "Diagnostic"])

ContractEventV0 == CompatStruct("ContractEventV0", <<
    Same("topics", ArrayConv(LazyConv("ScVal"))),
    Same("data", LazyConv("ScVal"))>>)

ContractEventBody == CompatUnion("ContractEventBody", None, <<
    CompatArm(<<0>>, 0, "v0", Class("ContractEventV0"))>>)

ContractEvent == CompatStruct("ContractEvent", <<
    Same("ext", Class("ExtensionPoint")),
    Renamed("contractId", "contractID", OptionConv(Id)),
    Same("type", Class("ContractEventType")),
    Same("body", Class("ContractEventBody"))>>)

DiagnosticEvent == CompatStruct("DiagnosticEvent", <<
    Same("inSuccessfulContractCall", Id),
    Same("event", Class("ContractEvent"))>>)

SorobanTransactionMeta == CompatStruct("SorobanTransactionMeta", <<
    Same("ext", Class("SorobanTransactionMetaExt")),
    Same("events", ArrayConv(Class("ContractEvent"))),
    Same("returnValue", LazyConv("ScVal")),
    Same("diagnosticEvents", ArrayConv(Class("DiagnosticEvent")))>>)

TransactionMetaV3 == CompatStruct("TransactionMetaV3", <<
    Same("ext", Class("ExtensionPoint")),
    Same("txChangesBefore", ArrayConv(Class("LedgerEntryChange"))),
    Same("operations", ArrayConv(Class("OperationMeta"))),
    Same("txChangesAfter", ArrayConv(Class("LedgerEntryChange"))),
    Same("sorobanMeta", OptionConv(Class("SorobanTransactionMeta")))>>)

OperationMetaV2 == CompatStruct("OperationMetaV2", <<
    Same("ext", Class("ExtensionPoint")),
    Same("changes", ArrayConv(Class("LedgerEntryChange"))),
    Same("events", ArrayConv(Class("ContractEvent")))>>)

SorobanTransactionMetaV2 == CompatStruct("SorobanTransactionMetaV2", <<
    Same("ext", Class("SorobanTransactionMetaExt")),
    Same("returnValue", OptionConv(LazyConv("ScVal")))>>)

TransactionEventStage == CompatEnum("TransactionEventStage", [
    transactionEventStageBeforeAllTxes |-> "BeforeAllTxs",
    transactionEventStageAfterTx |-> "AfterTx",
    transactionEventStageAfterAllTxes |-> "AfterAllTxs"])

TransactionEvent == CompatStruct("TransactionEvent", <<
    Same("stage", Class("TransactionEventStage")),
    Same("event", Class("ContractEvent"))>>)

TransactionMetaV4 == CompatStruct("TransactionMetaV4", <<
    Same("ext", Class("ExtensionPoint")),
    Same("txChangesBefore", ArrayConv(Class("LedgerEntryChange"))),
    Same("operations", ArrayConv(Class("OperationMetaV2"))),
    Same("txChangesAfter", ArrayConv(Class("LedgerEntryChange"))),
    Same("sorobanMeta", OptionConv(Class("SorobanTransactionMetaV2"))),
    Same("events", ArrayConv(Class("TransactionEvent"))),
    Same("diagnosticEvents", ArrayConv(Class("DiagnosticEvent")))>>)

TransactionMeta == CompatUnion("TransactionMeta", None, <<
    CompatArm(<<0>>, 0, "operations", ArrayConv(Class("OperationMeta"))),
    CompatArm(<<1>>, 1, "v1", Class("TransactionMetaV1")),
    CompatArm(<<2>>, 2, "v2", Class("TransactionMetaV2")),
    CompatArm(<<3>>, 3, "v3", Class("TransactionMetaV3")),
    CompatArm(<<4>>, 4, "v4", Class("TransactionMetaV4"))>>)
============================================================================
