------------------------- MODULE XdrTypesTransaction -------------------------
(***************************************************************************)
(* packages/xdr/generated: the codecs of transactions, their results,      *)
(* ledger entries and the meta data of transactions.                       *)
(***************************************************************************)
EXTENDS XdrTypesOperation

MAX_OPS_PER_TX == 100
TransactionV0Ext == Union(Int32, <<VoidArm(<<0>>)>>, None)

TransactionV0 == Struct(<<
    <<"sourceAccountEd25519", Ref("Uint256")>>, <<"fee", Uint32>>,
    <<"seqNum", Ref("SequenceNumber")>>, <<"timeBounds", Option(TimeBounds)>>,
    <<"memo", Ref("Memo")>>,
    <<"operations", VarArray(MAX_OPS_PER_TX, Operation)>>,
    <<"ext", Ref("TransactionV0Ext")>> >>)

SignatureHint == FixedOpaque(4)

DecoratedSignature == Struct(<<
    <<"hint", Ref("SignatureHint")>>, <<"signature", Ref("Signature")>> >>)

TransactionV0Envelope == Struct(<<
    <<"tx", TransactionV0>>,
    <<"signatures", VarArray(20, DecoratedSignature)>> >>)

PreconditionType == Enum([None |-> 0, Time |-> 1, V2 |-> 2])
LedgerBounds == Struct(<<<<"minLedger", Uint32>>, <<"maxLedger", Uint32>> >>)

PreconditionsV2 == Struct(<<
    <<"timeBounds", Option(TimeBounds)>>,
    <<"ledgerBounds", Option(LedgerBounds)>>,
    <<"minSeqNum", Option(Ref("SequenceNumber"))>>,
    <<"minSeqAge", Ref("Duration")>>, <<"minSeqLedgerGap", Uint32>>,
    <<"extraSigners", VarArray(2, Ref("SignerKey"))>> >>)

Preconditions == Union(PreconditionType, <<
    VoidArm(<<"None">>), ArmOf(<<"Time">>, TimeBounds),
    ArmOf(<<"V2">>, PreconditionsV2)>>, None)

SorobanResourcesExtV0 == Struct(<<
    <<"archivedSorobanEntries", VarArray(2147483647, Uint32)>> >>)

SorobanTransactionDataExt == Union(Int32, <<
    VoidArm(<<0>>), ArmOf(<<1>>, SorobanResourcesExtV0)>>, None)

LedgerFootprint == Struct(<<
    <<"readOnly", VarArray(2147483647, Ref("LedgerKey"))>>,
    <<"readWrite", VarArray(2147483647, Ref("LedgerKey"))>> >>)

SorobanResources == Struct(<<
    <<"footprint", LedgerFootprint>>, <<"instructions", Uint32>>,
    <<"diskReadBytes", Uint32>>, <<"writeBytes", Uint32>> >>)

SorobanTransactionData == Struct(<<
    <<"ext", Ref("SorobanTransactionDataExt")>>,
    <<"resources", SorobanResources>>, <<"resourceFee", Int64>> >>)

TransactionExt == Union(Int32, <<
    VoidArm(<<0>>), ArmOf(<<1>>, SorobanTransactionData)>>, None)

Transaction == Struct(<<
    <<"sourceAccount", Ref("MuxedAccount")>>, <<"fee", Uint32>>,
    <<"seqNum", Ref("SequenceNumber")>>, <<"cond", Ref("Preconditions")>>,
    <<"memo", Ref("Memo")>>,
    <<"operations", VarArray(MAX_OPS_PER_TX, Operation)>>,
    <<"ext", Ref("TransactionExt")>> >>)

TransactionV1Envelope == Struct(<<
    <<"tx", Transaction>>,
    <<"signatures", VarArray(20, DecoratedSignature)>> >>)

FeeBumpTransactionInnerTx == Union(EnvelopeType, <<
    ArmOf(<<"Tx">>, TransactionV1Envelope)>>, None)

FeeBumpTransactionExt == Union(Int32, <<VoidArm(<<0>>)>>, None)

FeeBumpTransaction == Struct(<<
    <<"feeSource", Ref("MuxedAccount")>>, <<"fee", Int64>>,
    <<"innerTx", Ref("FeeBumpTransactionInnerTx")>>,
    <<"ext", Ref("FeeBumpTransactionExt")>> >>)

FeeBumpTransactionEnvelope == Struct(<<
    <<"tx", FeeBumpTransaction>>,
    <<"signatures", VarArray(20, DecoratedSignature)>> >>)

TransactionEnvelope == Union(EnvelopeType, <<
    ArmOf(<<"TxV0">>, TransactionV0Envelope),
    ArmOf(<<"Tx">>, TransactionV1Envelope),
    ArmOf(<<"TxFeeBump">>, FeeBumpTransactionEnvelope)>>, None)

TransactionSet == Struct(<<
    <<"previousLedgerHash", Ref("Hash")>>,
    <<"txs", VarArray(2147483647, Ref("TransactionEnvelope"))>> >>)

TransactionResultCode == Enum([
    TxFEEBumpInnerSuccess |-> 1, TxSUCCESS |-> 0, TxFAILED |-> -1,
    TxTOOEarly |-> -2, TxTOOLate |-> -3, TxMISSINGOperation |-> -4,
    TxBADSeq |-> -5, TxBADAuth |-> -6, TxINSUFFICIENTBalance |-> -7,
    TxNOAccount |-> -8, TxINSUFFICIENTFee |-> -9, TxBADAuthExtra |-> -10,
    TxINTERNALError |-> -11, TxNOTSupported |-> -12,
    TxFEEBumpInnerFailed |-> -13, TxBADSponsorship |-> -14,
    TxBADMinSeqAgeOrGap |-> -15, TxMALFORMED |-> -16,
    TxSOROBANInvalid |-> -17])

OperationResultCode == Enum([
    OpINNER |-> 0, OpBADAuth |-> -1, OpNOAccount |-> -2, OpNOTSupported |-> -3,
    OpTOOManySubentries |-> -4, OpEXCEEDEDWorkLimit |-> -5,
    OpTOOManySponsoring |-> -6])

CreateAccountResultCode == Enum([
    Success |-> 0, Malformed |-> -1, Underfunded |-> -2, LowReserve |-> -3,
    AlreadyExist |-> -4])

CreateAccountResult == Union(CreateAccountResultCode, <<
    VoidArm(<<"Success">>),
    VoidArm(<<"Malformed", "Underfunded", "LowReserve", "AlreadyExist">>)>>,
        None)

PaymentResultCode == Enum([
    Success |-> 0, Malformed |-> -1, Underfunded |-> -2, SrcNoTrust |-> -3,
    SrcNotAuthorized |-> -4, NoDestination |-> -5, NoTrust |-> -6,
    NotAuthorized |-> -7, LineFull |-> -8, NoIssuer |-> -9])

PaymentResult == Union(PaymentResultCode, <<
    VoidArm(<<"Success">>),
    VoidArm(<<"Malformed", "Underfunded", "SrcNoTrust", "SrcNotAuthorized",
        "NoDestination", "NoTrust", "NotAuthorized", "LineFull",
        "NoIssuer">>)>>, None)

PathPaymentStrictReceiveResultCode == Enum([
    Success |-> 0, Malformed |-> -1, Underfunded |-> -2, SrcNoTrust |-> -3,
    SrcNotAuthorized |-> -4, NoDestination |-> -5, NoTrust |-> -6,
    NotAuthorized |-> -7, LineFull |-> -8, NoIssuer |-> -9,
    TooFewOffers |-> -10, OfferCrossSelf |-> -11, OverSendmax |-> -12])

ClaimAtomType == Enum([V0 |-> 0, OrderBook |-> 1, LiquidityPool |-> 2])

ClaimOfferAtomV0 == Struct(<<
    <<"sellerEd25519", Ref("Uint256")>>, <<"offerID", Int64>>,
    <<"assetSold", Ref("Asset")>>, <<"amountSold", Int64>>,
    <<"assetBought", Ref("Asset")>>, <<"amountBought", Int64>> >>)

ClaimOfferAtom == Struct(<<
    <<"sellerID", Ref("AccountID")>>, <<"offerID", Int64>>,
    <<"assetSold", Ref("Asset")>>, <<"amountSold", Int64>>,
    <<"assetBought", Ref("Asset")>>, <<"amountBought", Int64>> >>)

ClaimLiquidityAtom == Struct(<<
    <<"liquidityPoolID", Ref("PoolID")>>, <<"assetSold", Ref("Asset")>>,
    <<"amountSold", Int64>>, <<"assetBought", Ref("Asset")>>,
    <<"amountBought", Int64>> >>)

ClaimAtom == Union(ClaimAtomType, <<
    ArmOf(<<"V0">>, ClaimOfferAtomV0), ArmOf(<<"OrderBook">>, ClaimOfferAtom),
    ArmOf(<<"LiquidityPool">>, ClaimLiquidityAtom)>>, None)

SimplePaymentResult == Struct(<<
    <<"destination", Ref("AccountID")>>, <<"asset", Ref("Asset")>>,
    <<"amount", Int64>> >>)

PathPaymentStrictReceiveResultSuccess == Struct(<<
    <<"offers", VarArray(2147483647, Ref("ClaimAtom"))>>,
    <<"last", SimplePaymentResult>> >>)

PathPaymentStrictReceiveResult == Union(PathPaymentStrictReceiveResultCode, <<
    ArmOf(<<"Success">>, PathPaymentStrictReceiveResultSuccess),
    VoidArm(<<"Malformed", "Underfunded", "SrcNoTrust", "SrcNotAuthorized",
        "NoDestination", "NoTrust", "NotAuthorized", "LineFull">>),
    ArmOf(<<"NoIssuer">>, Ref("Asset")),
    VoidArm(<<"TooFewOffers", "OfferCrossSelf", "OverSendmax">>)>>, None)

ManageSellOfferResultCode == Enum([
    Success |-> 0, Malformed |-> -1, SellNoTrust |-> -2, BuyNoTrust |-> -3,
    SellNotAuthorized |-> -4, BuyNotAuthorized |-> -5, LineFull |-> -6,
    Underfunded |-> -7, CrossSelf |-> -8, SellNoIssuer |-> -9,
    BuyNoIssuer |-> -10, NotFound |-> -11, LowReserve |-> -12])

ManageOfferEffect == Enum([Created |-> 0, Updated |-> 1, Deleted |-> 2])
OfferEntryExt == Union(Int32, <<VoidArm(<<0>>)>>, None)

OfferEntry == Struct(<<
    <<"sellerID", Ref("AccountID")>>, <<"offerID", Int64>>,
    <<"selling", Ref("Asset")>>, <<"buying", Ref("Asset")>>,
    <<"amount", Int64>>, <<"price", Price>>, <<"flags", Uint32>>,
    <<"ext", Ref("OfferEntryExt")>> >>)

ManageOfferSuccessResultOffer == Union(ManageOfferEffect, <<
    ArmOf(<<"Created", "Updated">>, OfferEntry),
    VoidArm(<<"Deleted">>)>>, None)

ManageOfferSuccessResult == Struct(<<
    <<"offersClaimed", VarArray(2147483647, Ref("ClaimAtom"))>>,
    <<"offer", Ref("ManageOfferSuccessResultOffer")>> >>)

ManageSellOfferResult == Union(ManageSellOfferResultCode, <<
    ArmOf(<<"Success">>, ManageOfferSuccessResult),
    VoidArm(<<"Malformed", "SellNoTrust", "BuyNoTrust", "SellNotAuthorized",
        "BuyNotAuthorized", "LineFull", "Underfunded", "CrossSelf",
        "SellNoIssuer", "BuyNoIssuer", "NotFound", "LowReserve">>)>>, None)

SetOptionsResultCode == Enum([
    Success |-> 0, LowReserve |-> -1, TooManySigners |-> -2, BadFlags |-> -3,
    InvalidInflation |-> -4, CantChange |-> -5, UnknownFlag |-> -6,
    ThresholdOutOfRange |-> -7, BadSigner |-> -8, InvalidHomeDomain |-> -9,
    AuthRevocableRequired |-> -10])

SetOptionsResult == Union(SetOptionsResultCode, <<
    VoidArm(<<"Success">>),
    VoidArm(<<"LowReserve", "TooManySigners", "BadFlags", "InvalidInflation",
        "CantChange", "UnknownFlag", "ThresholdOutOfRange", "BadSigner",
        "InvalidHomeDomain", "AuthRevocableRequired">>)>>, None)

ChangeTrustResultCode == Enum([
    Success |-> 0, Malformed |-> -1, NoIssuer |-> -2, InvalidLimit |-> -3,
    LowReserve |-> -4, SelfNotAllowed |-> -5, TrustLineMissing |-> -6,
    CannotDelete |-> -7, NotAuthMaintainLiabilities |-> -8])

ChangeTrustResult == Union(ChangeTrustResultCode, <<
    VoidArm(<<"Success">>),
    VoidArm(<<"Malformed", "NoIssuer", "InvalidLimit", "LowReserve",
        "SelfNotAllowed", "TrustLineMissing", "CannotDelete",
        "NotAuthMaintainLiabilities">>)>>, None)

AllowTrustResultCode == Enum([
    Success |-> 0, Malformed |-> -1, NoTrustLine |-> -2,
    TrustNotRequired |-> -3, CantRevoke |-> -4, SelfNotAllowed |-> -5,
    LowReserve |-> -6])

AllowTrustResult == Union(AllowTrustResultCode, <<
    VoidArm(<<"Success">>),
    VoidArm(<<"Malformed", "NoTrustLine", "TrustNotRequired", "CantRevoke",
        "SelfNotAllowed", "LowReserve">>)>>, None)

AccountMergeResultCode == Enum([
    Success |-> 0, Malformed |-> -1, NoAccount |-> -2, ImmutableSet |-> -3,
    HasSubEntries |-> -4, SeqnumTooFar |-> -5, DestFull |-> -6,
    IsSponsor |-> -7])

AccountMergeResult == Union(AccountMergeResultCode, <<
    ArmOf(<<"Success">>, Int64),
    VoidArm(<<"Malformed", "NoAccount", "ImmutableSet", "HasSubEntries",
        "SeqnumTooFar", "DestFull", "IsSponsor">>)>>, None)

InflationResultCode == Enum([Success |-> 0, NotTime |-> -1])

InflationPayout == Struct(<<
    <<"destination", Ref("AccountID")>>, <<"amount", Int64>> >>)

InflationResult == Union(InflationResultCode, <<
    ArmOf(<<"Success">>, VarArray(2147483647, InflationPayout)),
    VoidArm(<<"NotTime">>)>>, None)

ManageDataResultCode == Enum([
    Success |-> 0, NotSupportedYet |-> -1, NameNotFound |-> -2,
    LowReserve |-> -3, InvalidName |-> -4])

ManageDataResult == Union(ManageDataResultCode, <<
    VoidArm(<<"Success">>),
    VoidArm(<<"NotSupportedYet", "NameNotFound", "LowReserve",
        "InvalidName">>)>>, None)

BumpSequenceResultCode == Enum([Success |-> 0, BadSeq |-> -1])

BumpSequenceResult == Union(BumpSequenceResultCode, <<
    VoidArm(<<"Success">>), VoidArm(<<"BadSeq">>)>>, None)

ManageBuyOfferResultCode == Enum([
    Success |-> 0, Malformed |-> -1, SellNoTrust |-> -2, BuyNoTrust |-> -3,
    SellNotAuthorized |-> -4, BuyNotAuthorized |-> -5, LineFull |-> -6,
    Underfunded |-> -7, CrossSelf |-> -8, SellNoIssuer |-> -9,
    BuyNoIssuer |-> -10, NotFound |-> -11, LowReserve |-> -12])

ManageBuyOfferResult == Union(ManageBuyOfferResultCode, <<
    ArmOf(<<"Success">>, ManageOfferSuccessResult),
    VoidArm(<<"Malformed", "SellNoTrust", "BuyNoTrust", "SellNotAuthorized",
        "BuyNotAuthorized", "LineFull", "Underfunded", "CrossSelf",
        "SellNoIssuer", "BuyNoIssuer", "NotFound", "LowReserve">>)>>, None)

PathPaymentStrictSendResultCode == Enum([
    Success |-> 0, Malformed |-> -1, Underfunded |-> -2, SrcNoTrust |-> -3,
    SrcNotAuthorized |-> -4, NoDestination |-> -5, NoTrust |-> -6,
    NotAuthorized |-> -7, LineFull |-> -8, NoIssuer |-> -9,
    TooFewOffers |-> -10, OfferCrossSelf |-> -11, UnderDestmin |-> -12])

PathPaymentStrictSendResultSuccess == Struct(<<
    <<"offers", VarArray(2147483647, Ref("ClaimAtom"))>>,
    <<"last", SimplePaymentResult>> >>)

PathPaymentStrictSendResult == Union(PathPaymentStrictSendResultCode, <<
    ArmOf(<<"Success">>, PathPaymentStrictSendResultSuccess),
    VoidArm(<<"Malformed", "Underfunded", "SrcNoTrust", "SrcNotAuthorized",
        "NoDestination", "NoTrust", "NotAuthorized", "LineFull">>),
    ArmOf(<<"NoIssuer">>, Ref("Asset")),
    VoidArm(<<"TooFewOffers", "OfferCrossSelf", "UnderDestmin">>)>>, None)

CreateClaimableBalanceResultCode == Enum([
    Success |-> 0, Malformed |-> -1, LowReserve |-> -2, NoTrust |-> -3,
    NotAuthorized |-> -4, Underfunded |-> -5])

CreateClaimableBalanceResult == Union(CreateClaimableBalanceResultCode, <<
    ArmOf(<<"Success">>, Ref("ClaimableBalanceID")),
    VoidArm(<<"Malformed", "LowReserve", "NoTrust", "NotAuthorized",
        "Underfunded">>)>>, None)

ClaimClaimableBalanceResultCode == Enum([
    Success |-> 0, DoesNotExist |-> -1, CannotClaim |-> -2, LineFull |-> -3,
    NoTrust |-> -4, NotAuthorized |-> -5])

ClaimClaimableBalanceResult == Union(ClaimClaimableBalanceResultCode, <<
    VoidArm(<<"Success">>),
    VoidArm(<<"DoesNotExist", "CannotClaim", "LineFull", "NoTrust",
        "NotAuthorized">>)>>, None)

BeginSponsoringFutureReservesResultCode == Enum([
    Success |-> 0, Malformed |-> -1, AlreadySponsored |-> -2,
    Recursive |-> -3])

BeginSponsoringFutureReservesResult ==
    Union(BeginSponsoringFutureReservesResultCode, <<
    VoidArm(<<"Success">>),
    VoidArm(<<"Malformed", "AlreadySponsored", "Recursive">>)>>, None)

EndSponsoringFutureReservesResultCode == Enum([
    Success |-> 0, NotSponsored |-> -1])

EndSponsoringFutureReservesResult ==
    Union(EndSponsoringFutureReservesResultCode, <<
    VoidArm(<<"Success">>), VoidArm(<<"NotSponsored">>)>>, None)

RevokeSponsorshipResultCode == Enum([
    Success |-> 0, DoesNotExist |-> -1, NotSponsor |-> -2, LowReserve |-> -3,
    OnlyTransferable |-> -4, Malformed |-> -5])

RevokeSponsorshipResult == Union(RevokeSponsorshipResultCode, <<
    VoidArm(<<"Success">>),
    VoidArm(<<"DoesNotExist", "NotSponsor", "LowReserve", "OnlyTransferable",
        "Malformed">>)>>, None)

ClawbackResultCode == Enum([
    Success |-> 0, Malformed |-> -1, NotClawbackEnabled |-> -2, NoTrust |-> -3,
    Underfunded |-> -4])

ClawbackResult == Union(ClawbackResultCode, <<
    VoidArm(<<"Success">>),
    VoidArm(<<"Malformed", "NotClawbackEnabled", "NoTrust", "Underfunded">>)>>,
        None)

ClawbackClaimableBalanceResultCode == Enum([
    Success |-> 0, DoesNotExist |-> -1, NotIssuer |-> -2,
    NotClawbackEnabled |-> -3])

ClawbackClaimableBalanceResult == Union(ClawbackClaimableBalanceResultCode, <<
    VoidArm(<<"Success">>),
    VoidArm(<<"DoesNotExist", "NotIssuer", "NotClawbackEnabled">>)>>, None)

SetTrustLineFlagsResultCode == Enum([
    Success |-> 0, Malformed |-> -1, NoTrustLine |-> -2, CantRevoke |-> -3,
    InvalidState |-> -4, LowReserve |-> -5])

SetTrustLineFlagsResult == Union(SetTrustLineFlagsResultCode, <<
    VoidArm(<<"Success">>),
    VoidArm(<<"Malformed", "NoTrustLine", "CantRevoke", "InvalidState",
        "LowReserve">>)>>, None)

LiquidityPoolDepositResultCode == Enum([
    Success |-> 0, Malformed |-> -1, NoTrust |-> -2, NotAuthorized |-> -3,
    Underfunded |-> -4, LineFull |-> -5, BadPrice |-> -6, PoolFull |-> -7])

LiquidityPoolDepositResult == Union(LiquidityPoolDepositResultCode, <<
    VoidArm(<<"Success">>),
    VoidArm(<<"Malformed", "NoTrust", "NotAuthorized", "Underfunded",
        "LineFull", "BadPrice", "PoolFull">>)>>, None)

LiquidityPoolWithdrawResultCode == Enum([
    Success |-> 0, Malformed |-> -1, NoTrust |-> -2, Underfunded |-> -3,
    LineFull |-> -4, UnderMinimum |-> -5])

LiquidityPoolWithdrawResult == Union(LiquidityPoolWithdrawResultCode, <<
    VoidArm(<<"Success">>),
    VoidArm(<<"Malformed", "NoTrust", "Underfunded", "LineFull",
        "UnderMinimum">>)>>, None)

InvokeHostFunctionResultCode == Enum([
    Success |-> 0, Malformed |-> -1, Trapped |-> -2,
    ResourceLimitExceeded |-> -3, EntryArchived |-> -4,
    InsufficientRefundableFee |-> -5])

InvokeHostFunctionResult == Union(InvokeHostFunctionResultCode, <<
    ArmOf(<<"Success">>, Ref("Hash")),
    VoidArm(<<"Malformed", "Trapped", "ResourceLimitExceeded", "EntryArchived",
        "InsufficientRefundableFee">>)>>, None)

ExtendFootprintTTLResultCode == Enum([
    Success |-> 0, Malformed |-> -1, ResourceLimitExceeded |-> -2,
    InsufficientRefundableFee |-> -3])

ExtendFootprintTTLResult == Union(ExtendFootprintTTLResultCode, <<
    VoidArm(<<"Success">>),
    VoidArm(<<"Malformed", "ResourceLimitExceeded",
        "InsufficientRefundableFee">>)>>, None)

RestoreFootprintResultCode == Enum([
    Success |-> 0, Malformed |-> -1, ResourceLimitExceeded |-> -2,
    InsufficientRefundableFee |-> -3])

RestoreFootprintResult == Union(RestoreFootprintResultCode, <<
    VoidArm(<<"Success">>),
    VoidArm(<<"Malformed", "ResourceLimitExceeded",
        "InsufficientRefundableFee">>)>>, None)

OperationResultTr == Union(OperationType, <<
    ArmOf(<<"CreateAccount">>, Ref("CreateAccountResult")),
    ArmOf(<<"Payment">>, Ref("PaymentResult")),
    ArmOf(<<"PathPaymentStrictReceive">>,
        Ref("PathPaymentStrictReceiveResult")),
    ArmOf(<<"ManageSellOffer">>, Ref("ManageSellOfferResult")),
    ArmOf(<<"CreatePassiveSellOffer">>, Ref("ManageSellOfferResult")),
    ArmOf(<<"SetOptions">>, Ref("SetOptionsResult")),
    ArmOf(<<"ChangeTrust">>, Ref("ChangeTrustResult")),
    ArmOf(<<"AllowTrust">>, Ref("AllowTrustResult")),
    ArmOf(<<"AccountMerge">>, Ref("AccountMergeResult")),
    ArmOf(<<"Inflation">>, Ref("InflationResult")),
    ArmOf(<<"ManageData">>, Ref("ManageDataResult")),
    ArmOf(<<"BumpSequence">>, Ref("BumpSequenceResult")),
    ArmOf(<<"ManageBuyOffer">>, Ref("ManageBuyOfferResult")),
    ArmOf(<<"PathPaymentStrictSend">>, Ref("PathPaymentStrictSendResult")),
    ArmOf(<<"CreateClaimableBalance">>, Ref("CreateClaimableBalanceResult")),
    ArmOf(<<"ClaimClaimableBalance">>, Ref("ClaimClaimableBalanceResult")),
    ArmOf(<<"BeginSponsoringFutureReserves">>,
        Ref("BeginSponsoringFutureReservesResult")),
    ArmOf(<<"EndSponsoringFutureReserves">>,
        Ref("EndSponsoringFutureReservesResult")),
    ArmOf(<<"RevokeSponsorship">>, Ref("RevokeSponsorshipResult")),
    ArmOf(<<"Clawback">>, Ref("ClawbackResult")),
    ArmOf(<<"ClawbackClaimableBalance">>,
        Ref("ClawbackClaimableBalanceResult")),
    ArmOf(<<"SetTrustLineFlags">>, Ref("SetTrustLineFlagsResult")),
    ArmOf(<<"LiquidityPoolDeposit">>, Ref("LiquidityPoolDepositResult")),
    ArmOf(<<"LiquidityPoolWithdraw">>, Ref("LiquidityPoolWithdrawResult")),
    ArmOf(<<"InvokeHostFunction">>, Ref("InvokeHostFunctionResult")),
    ArmOf(<<"ExtendFootprintTtl">>, Ref("ExtendFootprintTTLResult")),
    ArmOf(<<"RestoreFootprint">>, Ref("RestoreFootprintResult"))>>, None)

OperationResult == Union(OperationResultCode, <<
    ArmOf(<<"OpINNER">>, Ref("OperationResultTr")),
    VoidArm(<<"OpBADAuth", "OpNOAccount", "OpNOTSupported",
        "OpTOOManySubentries", "OpEXCEEDEDWorkLimit",
        "OpTOOManySponsoring">>)>>, None)

InnerTransactionResultResult == Union(TransactionResultCode, <<
    ArmOf(<<"TxSUCCESS", "TxFAILED">>, VarArray(2147483647,
        Ref("OperationResult"))),
    VoidArm(<<"TxTOOEarly", "TxTOOLate", "TxMISSINGOperation", "TxBADSeq",
        "TxBADAuth", "TxINSUFFICIENTBalance", "TxNOAccount",
        "TxINSUFFICIENTFee", "TxBADAuthExtra", "TxINTERNALError",
        "TxNOTSupported", "TxBADSponsorship", "TxBADMinSeqAgeOrGap",
        "TxMALFORMED", "TxSOROBANInvalid">>)>>, None)

InnerTransactionResultExt == Union(Int32, <<VoidArm(<<0>>)>>, None)

InnerTransactionResult == Struct(<<
    <<"feeCharged", Int64>>, <<"result", Ref("InnerTransactionResultResult")>>,
    <<"ext", Ref("InnerTransactionResultExt")>> >>)

InnerTransactionResultPair == Struct(<<
    <<"transactionHash", Ref("Hash")>>,
    <<"result", InnerTransactionResult>> >>)

TransactionResultResult == Union(TransactionResultCode, <<
    ArmOf(<<"TxFEEBumpInnerSuccess", "TxFEEBumpInnerFailed">>,
        InnerTransactionResultPair),
    ArmOf(<<"TxSUCCESS", "TxFAILED">>, VarArray(2147483647,
        Ref("OperationResult"))),
    VoidArm(<<"TxTOOEarly", "TxTOOLate", "TxMISSINGOperation", "TxBADSeq",
        "TxBADAuth", "TxINSUFFICIENTBalance", "TxNOAccount",
        "TxINSUFFICIENTFee", "TxBADAuthExtra", "TxINTERNALError",
        "TxNOTSupported", "TxBADSponsorship", "TxBADMinSeqAgeOrGap",
        "TxMALFORMED", "TxSOROBANInvalid">>)>>, None)

TransactionResultExt == Union(Int32, <<VoidArm(<<0>>)>>, None)

TransactionResult == Struct(<<
    <<"feeCharged", Int64>>, <<"result", Ref("TransactionResultResult")>>,
    <<"ext", Ref("TransactionResultExt")>> >>)

TransactionResultPair == Struct(<<
    <<"transactionHash", Ref("Hash")>>, <<"result", TransactionResult>> >>)

LedgerEntryChangeType == Enum([
    Created |-> 0, Updated |-> 1, Removed |-> 2, State |-> 3, Restored |-> 4])

Thresholds == FixedOpaque(4)
MAX_SIGNERS == 20
Liabilities == Struct(<<<<"buying", Int64>>, <<"selling", Int64>> >>)
SponsorshipDescriptor == Option(Ref("AccountID"))

AccountEntryExtensionV3 == Struct(<<
    <<"ext", Ref("ExtensionPoint")>>, <<"seqLedger", Uint32>>,
    <<"seqTime", Ref("TimePoint")>> >>)

AccountEntryExtensionV2Ext == Union(Int32, <<
    VoidArm(<<0>>), ArmOf(<<3>>, AccountEntryExtensionV3)>>, None)

AccountEntryExtensionV2 == Struct(<<
    <<"numSponsored", Uint32>>, <<"numSponsoring", Uint32>>,
    <<"signerSponsoringIDs", VarArray(MAX_SIGNERS,
        Ref("SponsorshipDescriptor"))>>,
    <<"ext", Ref("AccountEntryExtensionV2Ext")>> >>)

AccountEntryExtensionV1Ext == Union(Int32, <<
    VoidArm(<<0>>), ArmOf(<<2>>, AccountEntryExtensionV2)>>, None)

AccountEntryExtensionV1 == Struct(<<
    <<"liabilities", Liabilities>>,
    <<"ext", Ref("AccountEntryExtensionV1Ext")>> >>)

AccountEntryExt == Union(Int32, <<
    VoidArm(<<0>>), ArmOf(<<1>>, AccountEntryExtensionV1)>>, None)

AccountEntry == Struct(<<
    <<"accountID", Ref("AccountID")>>, <<"balance", Int64>>,
    <<"seqNum", Ref("SequenceNumber")>>, <<"numSubEntries", Uint32>>,
    <<"inflationDest", Option(Ref("AccountID"))>>, <<"flags", Uint32>>,
    <<"homeDomain", String32>>, <<"thresholds", Ref("Thresholds")>>,
    <<"signers", VarArray(MAX_SIGNERS, Signer)>>,
    <<"ext", Ref("AccountEntryExt")>> >>)

TrustLineEntryExtensionV2Ext == Union(Int32, <<VoidArm(<<0>>)>>, None)

TrustLineEntryExtensionV2 == Struct(<<
    <<"liquidityPoolUseCount", Int32>>,
    <<"ext", Ref("TrustLineEntryExtensionV2Ext")>> >>)

TrustLineEntryV1Ext == Union(Int32, <<
    VoidArm(<<0>>), ArmOf(<<2>>, TrustLineEntryExtensionV2)>>, None)

TrustLineEntryV1 == Struct(<<
    <<"liabilities", Liabilities>>, <<"ext", Ref("TrustLineEntryV1Ext")>> >>)

TrustLineEntryExt == Union(Int32, <<
    VoidArm(<<0>>), ArmOf(<<1>>, TrustLineEntryV1)>>, None)

TrustLineEntry == Struct(<<
    <<"accountID", Ref("AccountID")>>, <<"asset", Ref("TrustLineAsset")>>,
    <<"balance", Int64>>, <<"limit", Int64>>, <<"flags", Uint32>>,
    <<"ext", Ref("TrustLineEntryExt")>> >>)

DataEntryExt == Union(Int32, <<VoidArm(<<0>>)>>, None)

DataEntry == Struct(<<
    <<"accountID", Ref("AccountID")>>, <<"dataName", String64>>,
    <<"dataValue", Ref("DataValue")>>, <<"ext", Ref("DataEntryExt")>> >>)

ClaimableBalanceEntryExtensionV1Ext == Union(Int32, <<VoidArm(<<0>>)>>, None)

ClaimableBalanceEntryExtensionV1 == Struct(<<
    <<"ext", Ref("ClaimableBalanceEntryExtensionV1Ext")>>,
    <<"flags", Uint32>> >>)

ClaimableBalanceEntryExt == Union(Int32, <<
    VoidArm(<<0>>), ArmOf(<<1>>, ClaimableBalanceEntryExtensionV1)>>, None)

ClaimableBalanceEntry == Struct(<<
    <<"balanceID", Ref("ClaimableBalanceID")>>,
    <<"claimants", VarArray(10, Ref("Claimant"))>>, <<"asset", Ref("Asset")>>,
    <<"amount", Int64>>, <<"ext", Ref("ClaimableBalanceEntryExt")>> >>)

LiquidityPoolEntryConstantProduct == Struct(<<
    <<"params", LiquidityPoolConstantProductParameters>>,
    <<"reserveA", Int64>>, <<"reserveB", Int64>>, <<"totalPoolShares", Int64>>,
    <<"poolSharesTrustLineCount", Int64>> >>)

LiquidityPoolEntryBody == Union(LiquidityPoolType, <<
    ArmOf(<<"LiquidityPoolConstantProduct">>,
        LiquidityPoolEntryConstantProduct)>>, None)

LiquidityPoolEntry == Struct(<<
    <<"liquidityPoolID", Ref("PoolID")>>,
    <<"body", Ref("LiquidityPoolEntryBody")>> >>)

ContractDataEntry == Struct(<<
    <<"ext", Ref("ExtensionPoint")>>, <<"contract", Ref("SCAddress")>>,
    <<"key", Lazy("SCVal")>>, <<"durability", ContractDataDurability>>,
    <<"val", Lazy("SCVal")>> >>)

ContractCodeCostInputs == Struct(<<
    <<"ext", Ref("ExtensionPoint")>>, <<"nInstructions", Uint32>>,
    <<"nFunctions", Uint32>>, <<"nGlobals", Uint32>>,
    <<"nTableEntries", Uint32>>, <<"nTypes", Uint32>>,
    <<"nDataSegments", Uint32>>, <<"nElemSegments", Uint32>>,
    <<"nImports", Uint32>>, <<"nExports", Uint32>>,
    <<"nDataSegmentBytes", Uint32>> >>)

ContractCodeEntryV1 == Struct(<<
    <<"ext", Ref("ExtensionPoint")>>,
    <<"costInputs", ContractCodeCostInputs>> >>)

ContractCodeEntryExt == Union(Int32, <<
    VoidArm(<<0>>), ArmOf(<<1>>, ContractCodeEntryV1)>>, None)

ContractCodeEntry == Struct(<<
    <<"ext", Ref("ContractCodeEntryExt")>>, <<"hash", Ref("Hash")>>,
    <<"code", VarOpaque(2147483647)>> >>)

TTLEntry == Struct(<<
    <<"keyHash", Ref("Hash")>>, <<"liveUntilLedgerSeq", Uint32>> >>)

LedgerEntryData == Union(LedgerEntryType, <<
    ArmOf(<<"Account">>, AccountEntry), ArmOf(<<"Trustline">>, TrustLineEntry),
    ArmOf(<<"Offer">>, OfferEntry), ArmOf(<<"Data">>, DataEntry),
    ArmOf(<<"ClaimableBalance">>, ClaimableBalanceEntry),
    ArmOf(<<"LiquidityPool">>, LiquidityPoolEntry),
    ArmOf(<<"ContractData">>, ContractDataEntry),
    ArmOf(<<"ContractCode">>, ContractCodeEntry),
    ArmOf(<<"ConfigSetting">>, Ref("ConfigSettingEntry")),
    ArmOf(<<"Ttl">>, TTLEntry)>>, None)

LedgerEntryExtensionV1Ext == Union(Int32, <<VoidArm(<<0>>)>>, None)

LedgerEntryExtensionV1 == Struct(<<
    <<"sponsoringID", Ref("SponsorshipDescriptor")>>,
    <<"ext", Ref("LedgerEntryExtensionV1Ext")>> >>)

LedgerEntryExt == Union(Int32, <<
    VoidArm(<<0>>), ArmOf(<<1>>, LedgerEntryExtensionV1)>>, None)

LedgerEntry == Struct(<<
    <<"lastModifiedLedgerSeq", Uint32>>, <<"data", Ref("LedgerEntryData")>>,
    <<"ext", Ref("LedgerEntryExt")>> >>)

LedgerEntryChange == Union(LedgerEntryChangeType, <<
    ArmOf(<<"Created">>, LedgerEntry), ArmOf(<<"Updated">>, LedgerEntry),
    ArmOf(<<"Removed">>, Ref("LedgerKey")), ArmOf(<<"State">>, LedgerEntry),
    ArmOf(<<"Restored">>, LedgerEntry)>>, None)

LedgerEntryChanges == VarArray(2147483647, Ref("LedgerEntryChange"))
OperationMeta == Struct(<<<<"changes", Ref("LedgerEntryChanges")>> >>)

TransactionMetaV1 == Struct(<<
    <<"txChanges", Ref("LedgerEntryChanges")>>,
    <<"operations", VarArray(2147483647, OperationMeta)>> >>)

TransactionMetaV2 == Struct(<<
    <<"txChangesBefore", Ref("LedgerEntryChanges")>>,
    <<"operations", VarArray(2147483647, OperationMeta)>>,
    <<"txChangesAfter", Ref("LedgerEntryChanges")>> >>)

SorobanTransactionMetaExtV1 == Struct(<<
    <<"ext", Ref("ExtensionPoint")>>,
    <<"totalNonRefundableResourceFeeCharged", Int64>>,
    <<"totalRefundableResourceFeeCharged", Int64>>,
    <<"rentFeeCharged", Int64>> >>)

SorobanTransactionMetaExt == Union(Int32, <<
    VoidArm(<<0>>), ArmOf(<<1>>, SorobanTransactionMetaExtV1)>>, None)

ContractEventType == Enum([System |-> 0, Contract |-> 1, Diagnostic |-> 2])

ContractEventV0 == Struct(<<
    <<"topics", VarArray(2147483647, Lazy("SCVal"))>>,
    <<"data", Lazy("SCVal")>> >>)

ContractEventBody == Union(Int32, <<ArmOf(<<0>>, ContractEventV0)>>, None)

ContractEvent == Struct(<<
    <<"ext", Ref("ExtensionPoint")>>,
    <<"contractID", Option(Ref("ContractID"))>>, <<"type", ContractEventType>>,
    <<"body", Ref("ContractEventBody")>> >>)

DiagnosticEvent == Struct(<<
    <<"inSuccessfulContractCall", Bool>>, <<"event", ContractEvent>> >>)

SorobanTransactionMeta == Struct(<<
    <<"ext", Ref("SorobanTransactionMetaExt")>>,
    <<"events", VarArray(2147483647, ContractEvent)>>,
    <<"returnValue", Lazy("SCVal")>>,
    <<"diagnosticEvents", VarArray(2147483647, DiagnosticEvent)>> >>)

TransactionMetaV3 == Struct(<<
    <<"ext", Ref("ExtensionPoint")>>,
    <<"txChangesBefore", Ref("LedgerEntryChanges")>>,
    <<"operations", VarArray(2147483647, OperationMeta)>>,
    <<"txChangesAfter", Ref("LedgerEntryChanges")>>,
    <<"sorobanMeta", Option(SorobanTransactionMeta)>> >>)

OperationMetaV2 == Struct(<<
    <<"ext", Ref("ExtensionPoint")>>, <<"changes", Ref("LedgerEntryChanges")>>,
    <<"events", VarArray(2147483647, ContractEvent)>> >>)

SorobanTransactionMetaV2 == Struct(<<
    <<"ext", Ref("SorobanTransactionMetaExt")>>,
    <<"returnValue", Option(Lazy("SCVal"))>> >>)

TransactionEventStage == Enum([
    BeforeAllTxs |-> 0, AfterTx |-> 1, AfterAllTxs |-> 2])

TransactionEvent == Struct(<<
    <<"stage", TransactionEventStage>>, <<"event", ContractEvent>> >>)

TransactionMetaV4 == Struct(<<
    <<"ext", Ref("ExtensionPoint")>>,
    <<"txChangesBefore", Ref("LedgerEntryChanges")>>,
    <<"operations", VarArray(2147483647, OperationMetaV2)>>,
    <<"txChangesAfter", Ref("LedgerEntryChanges")>>,
    <<"sorobanMeta", Option(SorobanTransactionMetaV2)>>,
    <<"events", VarArray(2147483647, TransactionEvent)>>,
    <<"diagnosticEvents", VarArray(2147483647, DiagnosticEvent)>> >>)

TransactionMeta == Union(Int32, <<
    ArmOf(<<0>>, VarArray(2147483647, OperationMeta)),
    ArmOf(<<1>>, TransactionMetaV1), ArmOf(<<2>>, TransactionMetaV2),
    ArmOf(<<3>>, TransactionMetaV3), ArmOf(<<4>>, TransactionMetaV4)>>, None)
=============================================================================
