-------------------------- MODULE XdrTypesOperation --------------------------
(***************************************************************************)
(* packages/xdr/generated: the codecs of the contract settings, specs and  *)
(* values, ledger headers, accounts, assets and operations, as xdrgen      *)
(* wrote them, under their names there. A codec inside another one is      *)
(* referred to by its name; CodecNamed (XdrTypes) has them all.            *)
(***************************************************************************)
EXTENDS Codecs

ConfigSettingContractExecutionLanesV0 == Struct(<<
    <<"ledgerMaxTxCount", Uint32>> >>)

ConfigSettingContractComputeV0 == Struct(<<
    <<"ledgerMaxInstructions", Int64>>, <<"txMaxInstructions", Int64>>,
    <<"feeRatePerInstructionsIncrement", Int64>>,
    <<"txMemoryLimit", Uint32>> >>)

ConfigSettingContractParallelComputeV0 == Struct(<<
    <<"ledgerMaxDependentTxClusters", Uint32>> >>)

ConfigSettingContractLedgerCostV0 == Struct(<<
    <<"ledgerMaxDiskReadEntries", Uint32>>,
    <<"ledgerMaxDiskReadBytes", Uint32>>,
    <<"ledgerMaxWriteLedgerEntries", Uint32>>,
    <<"ledgerMaxWriteBytes", Uint32>>, <<"txMaxDiskReadEntries", Uint32>>,
    <<"txMaxDiskReadBytes", Uint32>>, <<"txMaxWriteLedgerEntries", Uint32>>,
    <<"txMaxWriteBytes", Uint32>>, <<"feeDiskReadLedgerEntry", Int64>>,
    <<"feeWriteLedgerEntry", Int64>>, <<"feeDiskRead1KB", Int64>>,
    <<"sorobanStateTargetSizeBytes", Int64>>,
    <<"rentFee1KBSorobanStateSizeLow", Int64>>,
    <<"rentFee1KBSorobanStateSizeHigh", Int64>>,
    <<"sorobanStateRentFeeGrowthFactor", Uint32>> >>)

ConfigSettingContractLedgerCostExtV0 == Struct(<<
    <<"txMaxFootprintEntries", Uint32>>, <<"feeWrite1KB", Int64>> >>)

ConfigSettingContractHistoricalDataV0 == Struct(<<
    <<"feeHistorical1KB", Int64>> >>)

ConfigSettingContractEventsV0 == Struct(<<
    <<"txMaxContractEventsSizeBytes", Uint32>>,
    <<"feeContractEvents1KB", Int64>> >>)

ConfigSettingContractBandwidthV0 == Struct(<<
    <<"ledgerMaxTxsSizeBytes", Uint32>>, <<"txMaxSizeBytes", Uint32>>,
    <<"feeTxSize1KB", Int64>> >>)

ContractCostType == Enum([
    WasmInsnExec |-> 0, MemAlloc |-> 1, MemCpy |-> 2, MemCmp |-> 3,
    DispatchHostFunction |-> 4, VisitObject |-> 5, ValSer |-> 6,
    ValDeser |-> 7, ComputeSha256Hash |-> 8, ComputeEd25519PubKey |-> 9,
    VerifyEd25519Sig |-> 10, VmInstantiation |-> 11,
    VmCachedInstantiation |-> 12, InvokeVmFunction |-> 13,
    ComputeKeccak256Hash |-> 14, DecodeEcdsaCurve256Sig |-> 15,
    RecoverEcdsaSecp256k1Key |-> 16, Int256AddSub |-> 17, Int256Mul |-> 18,
    Int256Div |-> 19, Int256Pow |-> 20, Int256Shift |-> 21,
    ChaCha20DrawBytes |-> 22, ParseWasmInstructions |-> 23,
    ParseWasmFunctions |-> 24, ParseWasmGlobals |-> 25,
    ParseWasmTableEntries |-> 26, ParseWasmTypes |-> 27,
    ParseWasmDataSegments |-> 28, ParseWasmElemSegments |-> 29,
    ParseWasmImports |-> 30, ParseWasmExports |-> 31,
    ParseWasmDataSegmentBytes |-> 32, InstantiateWasmInstructions |-> 33,
    InstantiateWasmFunctions |-> 34, InstantiateWasmGlobals |-> 35,
    InstantiateWasmTableEntries |-> 36, InstantiateWasmTypes |-> 37,
    InstantiateWasmDataSegments |-> 38, InstantiateWasmElemSegments |-> 39,
    InstantiateWasmImports |-> 40, InstantiateWasmExports |-> 41,
    InstantiateWasmDataSegmentBytes |-> 42, Sec1DecodePointUncompressed |-> 43,
    VerifyEcdsaSecp256r1Sig |-> 44, Bls12381EncodeFp |-> 45,
    Bls12381DecodeFp |-> 46, Bls12381G1CheckPointOnCurve |-> 47,
    Bls12381G1CheckPointInSubgroup |-> 48, Bls12381G2CheckPointOnCurve |-> 49,
    Bls12381G2CheckPointInSubgroup |-> 50, Bls12381G1ProjectiveToAffine |-> 51,
    Bls12381G2ProjectiveToAffine |-> 52, Bls12381G1Add |-> 53,
    Bls12381G1Mul |-> 54, Bls12381G1Msm |-> 55, Bls12381MapFpToG1 |-> 56,
    Bls12381HashToG1 |-> 57, Bls12381G2Add |-> 58, Bls12381G2Mul |-> 59,
    Bls12381G2Msm |-> 60, Bls12381MapFp2ToG2 |-> 61, Bls12381HashToG2 |-> 62,
    Bls12381Pairing |-> 63, Bls12381FrFromU256 |-> 64, Bls12381FrToU256 |-> 65,
    Bls12381FrAddSub |-> 66, Bls12381FrMul |-> 67, Bls12381FrPow |-> 68,
    Bls12381FrInv |-> 69, Bn254EncodeFp |-> 70, Bn254DecodeFp |-> 71,
    Bn254G1CheckPointOnCurve |-> 72, Bn254G2CheckPointOnCurve |-> 73,
    Bn254G2CheckPointInSubgroup |-> 74, Bn254G1ProjectiveToAffine |-> 75,
    Bn254G1Add |-> 76, Bn254G1Mul |-> 77, Bn254Pairing |-> 78,
    Bn254FrFromU256 |-> 79, Bn254FrToU256 |-> 80, Bn254FrAddSub |-> 81,
    Bn254FrMul |-> 82, Bn254FrPow |-> 83, Bn254FrInv |-> 84])

ExtensionPoint == Union(Int32, <<VoidArm(<<0>>)>>, None)

ContractCostParamEntry == Struct(<<
    <<"ext", Ref("ExtensionPoint")>>, <<"constTerm", Int64>>,
    <<"linearTerm", Int64>> >>)

StateArchivalSettings == Struct(<<
    <<"maxEntryTTL", Uint32>>, <<"minTemporaryTTL", Uint32>>,
    <<"minPersistentTTL", Uint32>>, <<"persistentRentRateDenominator", Int64>>,
    <<"tempRentRateDenominator", Int64>>, <<"maxEntriesToArchive", Uint32>>,
    <<"liveSorobanStateSizeWindowSampleSize", Uint32>>,
    <<"liveSorobanStateSizeWindowSamplePeriod", Uint32>>,
    <<"evictionScanSize", Uint32>>, <<"startingEvictionScanLevel", Uint32>> >>)

EvictionIterator == Struct(<<
    <<"bucketListLevel", Uint32>>, <<"isCurrBucket", Bool>>,
    <<"bucketFileOffset", Uint64>> >>)

ConfigSettingSCPTiming == Struct(<<
    <<"ledgerTargetCloseTimeMilliseconds", Uint32>>,
    <<"nominationTimeoutInitialMilliseconds", Uint32>>,
    <<"nominationTimeoutIncrementMilliseconds", Uint32>>,
    <<"ballotTimeoutInitialMilliseconds", Uint32>>,
    <<"ballotTimeoutIncrementMilliseconds", Uint32>> >>)

CONTRACT_COST_COUNT_LIMIT == 1024
ContractCostParams == VarArray(CONTRACT_COST_COUNT_LIMIT,
    ContractCostParamEntry)

ConfigSettingID == Enum([
    ContractMaxSizeBytes |-> 0, ContractComputeV0 |-> 1,
    ContractLedgerCostV0 |-> 2, ContractHistoricalDataV0 |-> 3,
    ContractEventsV0 |-> 4, ContractBandwidthV0 |-> 5,
    ContractCostParamsCpuInstructions |-> 6,
    ContractCostParamsMemoryBytes |-> 7, ContractDataKeySizeBytes |-> 8,
    ContractDataEntrySizeBytes |-> 9, StateArchival |-> 10,
    ContractExecutionLanes |-> 11, LiveSorobanStateSizeWindow |-> 12,
    EvictionIterator |-> 13, ContractParallelComputeV0 |-> 14,
    ContractLedgerCostExtV0 |-> 15, ScpTiming |-> 16])

ConfigSettingEntry == Union(ConfigSettingID, <<
    ArmOf(<<"ContractMaxSizeBytes">>, Uint32),
    ArmOf(<<"ContractComputeV0">>, ConfigSettingContractComputeV0),
    ArmOf(<<"ContractLedgerCostV0">>, ConfigSettingContractLedgerCostV0),
    ArmOf(<<"ContractHistoricalDataV0">>,
        ConfigSettingContractHistoricalDataV0),
    ArmOf(<<"ContractEventsV0">>, ConfigSettingContractEventsV0),
    ArmOf(<<"ContractBandwidthV0">>, ConfigSettingContractBandwidthV0),
    ArmOf(<<"ContractCostParamsCpuInstructions">>, Ref("ContractCostParams")),
    ArmOf(<<"ContractCostParamsMemoryBytes">>, Ref("ContractCostParams")),
    ArmOf(<<"ContractDataKeySizeBytes">>, Uint32),
    ArmOf(<<"ContractDataEntrySizeBytes">>, Uint32),
    ArmOf(<<"StateArchival">>, StateArchivalSettings),
    ArmOf(<<"ContractExecutionLanes">>, ConfigSettingContractExecutionLanesV0),
    ArmOf(<<"LiveSorobanStateSizeWindow">>, VarArray(2147483647, Uint64)),
    ArmOf(<<"EvictionIterator">>, EvictionIterator),
    ArmOf(<<"ContractParallelComputeV0">>,
        ConfigSettingContractParallelComputeV0),
    ArmOf(<<"ContractLedgerCostExtV0">>, ConfigSettingContractLedgerCostExtV0),
    ArmOf(<<"ScpTiming">>, ConfigSettingSCPTiming)>>, None)

SCEnvMetaKind == Enum([ScEnvMetaKindInterfaceVersion |-> 0])

SCEnvMetaEntryInterfaceVersion == Struct(<<
    <<"protocol", Uint32>>, <<"preRelease", Uint32>> >>)

SCEnvMetaEntry == Union(SCEnvMetaKind, <<
    ArmOf(<<"ScEnvMetaKindInterfaceVersion">>,
        SCEnvMetaEntryInterfaceVersion)>>, None)

SCMetaV0 == Struct(<<
    <<"key", XdrString(2147483647)>>, <<"val", XdrString(2147483647)>> >>)

SCMetaKind == Enum([ScMetaV0 |-> 0])
SCMetaEntry == Union(SCMetaKind, <<ArmOf(<<"ScMetaV0">>, SCMetaV0)>>, None)
SC_SPEC_DOC_LIMIT == 1024

SCSpecType == Enum([
    Val |-> 0, Bool |-> 1, Void |-> 2, Error |-> 3, U32 |-> 4, I32 |-> 5,
    U64 |-> 6, I64 |-> 7, Timepoint |-> 8, Duration |-> 9, U128 |-> 10,
    I128 |-> 11, U256 |-> 12, I256 |-> 13, Bytes |-> 14, String |-> 16,
    Symbol |-> 17, Address |-> 19, MuxedAddress |-> 20, Option |-> 1000,
    Result |-> 1001, Vec |-> 1002, Map |-> 1004, Tuple |-> 1005,
    BytesN |-> 1006, Udt |-> 2000])

SCSpecTypeResult == Struct(<<
    <<"okType", Lazy("SCSpecTypeDef")>>,
    <<"errorType", Lazy("SCSpecTypeDef")>> >>)

SCSpecTypeVec == Struct(<<<<"elementType", Lazy("SCSpecTypeDef")>> >>)

SCSpecTypeMap == Struct(<<
    <<"keyType", Lazy("SCSpecTypeDef")>>,
    <<"valueType", Lazy("SCSpecTypeDef")>> >>)

SCSpecTypeTuple == Struct(<<
    <<"valueTypes", VarArray(12, Lazy("SCSpecTypeDef"))>> >>)

SCSpecTypeBytesN == Struct(<<<<"n", Uint32>> >>)
SCSpecTypeUDT == Struct(<<<<"name", XdrString(60)>> >>)

SCSpecTypeDef == Union(SCSpecType, <<
    VoidArm(<<"Val", "Bool", "Void", "Error", "U32", "I32", "U64", "I64",
        "Timepoint", "Duration", "U128", "I128", "U256", "I256", "Bytes",
        "String", "Symbol", "Address", "MuxedAddress">>),
    ArmOf(<<"Option">>, Lazy("SCSpecTypeOption")),
    ArmOf(<<"Result">>, SCSpecTypeResult), ArmOf(<<"Vec">>, SCSpecTypeVec),
    ArmOf(<<"Map">>, SCSpecTypeMap), ArmOf(<<"Tuple">>, SCSpecTypeTuple),
    ArmOf(<<"BytesN">>, SCSpecTypeBytesN),
    ArmOf(<<"Udt">>, SCSpecTypeUDT)>>, None)

SCSpecTypeOption == Struct(<<<<"valueType", Lazy("SCSpecTypeDef")>> >>)

SCSpecUDTStructFieldV0 == Struct(<<
    <<"doc", XdrString(SC_SPEC_DOC_LIMIT)>>, <<"name", XdrString(30)>>,
    <<"type", Lazy("SCSpecTypeDef")>> >>)

SCSpecUDTStructV0 == Struct(<<
    <<"doc", XdrString(SC_SPEC_DOC_LIMIT)>>, <<"lib", XdrString(80)>>,
    <<"name", XdrString(60)>>,
    <<"fields", VarArray(2147483647, SCSpecUDTStructFieldV0)>> >>)

SCSpecUDTUnionCaseVoidV0 == Struct(<<
    <<"doc", XdrString(SC_SPEC_DOC_LIMIT)>>, <<"name", XdrString(60)>> >>)

SCSpecUDTUnionCaseTupleV0 == Struct(<<
    <<"doc", XdrString(SC_SPEC_DOC_LIMIT)>>, <<"name", XdrString(60)>>,
    <<"type", VarArray(2147483647, Lazy("SCSpecTypeDef"))>> >>)

SCSpecUDTUnionCaseV0Kind == Enum([VoidV0 |-> 0, TupleV0 |-> 1])

SCSpecUDTUnionCaseV0 == Union(SCSpecUDTUnionCaseV0Kind, <<
    ArmOf(<<"VoidV0">>, SCSpecUDTUnionCaseVoidV0),
    ArmOf(<<"TupleV0">>, SCSpecUDTUnionCaseTupleV0)>>, None)

SCSpecUDTUnionV0 == Struct(<<
    <<"doc", XdrString(SC_SPEC_DOC_LIMIT)>>, <<"lib", XdrString(80)>>,
    <<"name", XdrString(60)>>,
    <<"cases", VarArray(2147483647, Ref("SCSpecUDTUnionCaseV0"))>> >>)

SCSpecUDTEnumCaseV0 == Struct(<<
    <<"doc", XdrString(SC_SPEC_DOC_LIMIT)>>, <<"name", XdrString(60)>>,
    <<"value", Uint32>> >>)

SCSpecUDTEnumV0 == Struct(<<
    <<"doc", XdrString(SC_SPEC_DOC_LIMIT)>>, <<"lib", XdrString(80)>>,
    <<"name", XdrString(60)>>,
    <<"cases", VarArray(2147483647, SCSpecUDTEnumCaseV0)>> >>)

SCSpecUDTErrorEnumCaseV0 == Struct(<<
    <<"doc", XdrString(SC_SPEC_DOC_LIMIT)>>, <<"name", XdrString(60)>>,
    <<"value", Uint32>> >>)

SCSpecUDTErrorEnumV0 == Struct(<<
    <<"doc", XdrString(SC_SPEC_DOC_LIMIT)>>, <<"lib", XdrString(80)>>,
    <<"name", XdrString(60)>>,
    <<"cases", VarArray(2147483647, SCSpecUDTErrorEnumCaseV0)>> >>)

SCSpecFunctionInputV0 == Struct(<<
    <<"doc", XdrString(SC_SPEC_DOC_LIMIT)>>, <<"name", XdrString(30)>>,
    <<"type", Lazy("SCSpecTypeDef")>> >>)

SCSYMBOL_LIMIT == 32
SCSymbol == XdrString(SCSYMBOL_LIMIT)

SCSpecFunctionV0 == Struct(<<
    <<"doc", XdrString(SC_SPEC_DOC_LIMIT)>>, <<"name", SCSymbol>>,
    <<"inputs", VarArray(2147483647, SCSpecFunctionInputV0)>>,
    <<"outputs", VarArray(1, Lazy("SCSpecTypeDef"))>> >>)

SCSpecEventParamLocationV0 == Enum([Data |-> 0, TopicList |-> 1])

SCSpecEventParamV0 == Struct(<<
    <<"doc", XdrString(SC_SPEC_DOC_LIMIT)>>, <<"name", XdrString(30)>>,
    <<"type", Lazy("SCSpecTypeDef")>>,
    <<"location", SCSpecEventParamLocationV0>> >>)

SCSpecEventDataFormat == Enum([SingleValue |-> 0, Vec |-> 1, Map |-> 2])

SCSpecEventV0 == Struct(<<
    <<"doc", XdrString(SC_SPEC_DOC_LIMIT)>>, <<"lib", XdrString(80)>>,
    <<"name", SCSymbol>>, <<"prefixTopics", VarArray(2, SCSymbol)>>,
    <<"params", VarArray(2147483647, SCSpecEventParamV0)>>,
    <<"dataFormat", SCSpecEventDataFormat>> >>)

SCSpecEntryKind == Enum([
    FunctionV0 |-> 0, UdtStructV0 |-> 1, UdtUnionV0 |-> 2, UdtEnumV0 |-> 3,
    UdtErrorEnumV0 |-> 4, EventV0 |-> 5])

SCSpecEntry == Union(SCSpecEntryKind, <<
    ArmOf(<<"FunctionV0">>, SCSpecFunctionV0),
    ArmOf(<<"UdtStructV0">>, SCSpecUDTStructV0),
    ArmOf(<<"UdtUnionV0">>, SCSpecUDTUnionV0),
    ArmOf(<<"UdtEnumV0">>, SCSpecUDTEnumV0),
    ArmOf(<<"UdtErrorEnumV0">>, SCSpecUDTErrorEnumV0),
    ArmOf(<<"EventV0">>, SCSpecEventV0)>>, None)

SCValType == Enum([
    Bool |-> 0, Void |-> 1, Error |-> 2, U32 |-> 3, I32 |-> 4, U64 |-> 5,
    I64 |-> 6, Timepoint |-> 7, Duration |-> 8, U128 |-> 9, I128 |-> 10,
    U256 |-> 11, I256 |-> 12, Bytes |-> 13, String |-> 14, Symbol |-> 15,
    Vec |-> 16, Map |-> 17, Address |-> 18, ContractInstance |-> 19,
    LedgerKeyContractInstance |-> 20, LedgerKeyNonce |-> 21])

SCErrorType == Enum([
    Contract |-> 0, WasmVm |-> 1, Context |-> 2, Storage |-> 3, Object |-> 4,
    Crypto |-> 5, Events |-> 6, Budget |-> 7, Value |-> 8, Auth |-> 9])

SCErrorCode == Enum([
    ArithDomain |-> 0, IndexBounds |-> 1, InvalidInput |-> 2,
    MissingValue |-> 3, ExistingValue |-> 4, ExceededLimit |-> 5,
    InvalidAction |-> 6, InternalError |-> 7, UnexpectedType |-> 8,
    UnexpectedSize |-> 9])

SCError == Union(SCErrorType, <<
    ArmOf(<<"Contract">>, Uint32),
    ArmOf(<<"WasmVm", "Context", "Storage", "Object", "Crypto", "Events",
        "Budget", "Value", "Auth">>, SCErrorCode)>>, None)

UInt128Parts == Struct(<<<<"hi", Uint64>>, <<"lo", Uint64>> >>)
Int128Parts == Struct(<<<<"hi", Int64>>, <<"lo", Uint64>> >>)

UInt256Parts == Struct(<<
    <<"hiHi", Uint64>>, <<"hiLo", Uint64>>, <<"loHi", Uint64>>,
    <<"loLo", Uint64>> >>)

Int256Parts == Struct(<<
    <<"hiHi", Int64>>, <<"hiLo", Uint64>>, <<"loHi", Uint64>>,
    <<"loLo", Uint64>> >>)

ContractExecutableType == Enum([Wasm |-> 0, StellarAsset |-> 1])
Hash == FixedOpaque(32)

ContractExecutable == Union(ContractExecutableType, <<
    ArmOf(<<"Wasm">>, Ref("Hash")), VoidArm(<<"StellarAsset">>)>>, None)

SCAddressType == Enum([
    Account |-> 0, Contract |-> 1, MuxedAccount |-> 2, ClaimableBalance |-> 3,
    LiquidityPool |-> 4])

Uint256 == FixedOpaque(32)

MuxedEd25519Account == Struct(<<
    <<"id", Uint64>>, <<"ed25519", Ref("Uint256")>> >>)

PublicKeyType == Enum([PublicKeyTypeEd25519 |-> 0])

PublicKey == Union(PublicKeyType, <<
    ArmOf(<<"PublicKeyTypeEd25519">>, Ref("Uint256"))>>, None)

AccountID == Ref("PublicKey")
ContractID == Ref("Hash")
ClaimableBalanceIDType == Enum([ClaimableBalanceIdTypeV0 |-> 0])

ClaimableBalanceID == Union(ClaimableBalanceIDType, <<
    ArmOf(<<"ClaimableBalanceIdTypeV0">>, Ref("Hash"))>>, None)

PoolID == Ref("Hash")

SCAddress == Union(SCAddressType, <<
    ArmOf(<<"Account">>, Ref("AccountID")),
    ArmOf(<<"Contract">>, Ref("ContractID")),
    ArmOf(<<"MuxedAccount">>, MuxedEd25519Account),
    ArmOf(<<"ClaimableBalance">>, Ref("ClaimableBalanceID")),
    ArmOf(<<"LiquidityPool">>, Ref("PoolID"))>>, None)

TimePoint == Uint64
Duration == Uint64
SCBytes == VarOpaque(2147483647)
SCString == XdrString(2147483647)
SCMapEntry == Struct(<<<<"key", Lazy("SCVal")>>, <<"val", Lazy("SCVal")>> >>)
SCMap == VarArray(2147483647, SCMapEntry)

SCContractInstance == Struct(<<
    <<"executable", Ref("ContractExecutable")>>,
    <<"storage", Option(Ref("SCMap"))>> >>)

SCNonceKey == Struct(<<<<"nonce", Int64>> >>)

SCVal == Union(SCValType, <<
    ArmOf(<<"Bool">>, Bool), VoidArm(<<"Void">>),
    ArmOf(<<"Error">>, Ref("SCError")), ArmOf(<<"U32">>, Uint32),
    ArmOf(<<"I32">>, Int32), ArmOf(<<"U64">>, Uint64), ArmOf(<<"I64">>, Int64),
    ArmOf(<<"Timepoint">>, Ref("TimePoint")),
    ArmOf(<<"Duration">>, Ref("Duration")), ArmOf(<<"U128">>, UInt128Parts),
    ArmOf(<<"I128">>, Int128Parts), ArmOf(<<"U256">>, UInt256Parts),
    ArmOf(<<"I256">>, Int256Parts), ArmOf(<<"Bytes">>, Ref("SCBytes")),
    ArmOf(<<"String">>, SCString), ArmOf(<<"Symbol">>, SCSymbol),
    ArmOf(<<"Vec">>, Option(Lazy("SCVec"))),
    ArmOf(<<"Map">>, Option(Ref("SCMap"))),
    ArmOf(<<"Address">>, Ref("SCAddress")),
    ArmOf(<<"ContractInstance">>, SCContractInstance),
    VoidArm(<<"LedgerKeyContractInstance">>),
    ArmOf(<<"LedgerKeyNonce">>, SCNonceKey)>>, None)

SCVec == VarArray(2147483647, Lazy("SCVal"))
UpgradeType == VarOpaque(128)
StellarValueType == Enum([Basic |-> 0, Signed |-> 1])
NodeID == Ref("PublicKey")
Signature == VarOpaque(64)

LedgerCloseValueSignature == Struct(<<
    <<"nodeID", Ref("NodeID")>>, <<"signature", Ref("Signature")>> >>)

StellarValueExt == Union(StellarValueType, <<
    VoidArm(<<"Basic">>),
    ArmOf(<<"Signed">>, LedgerCloseValueSignature)>>, None)

StellarValue == Struct(<<
    <<"txSetHash", Ref("Hash")>>, <<"closeTime", Ref("TimePoint")>>,
    <<"upgrades", VarArray(6, Ref("UpgradeType"))>>,
    <<"ext", Ref("StellarValueExt")>> >>)

LedgerHeaderExtensionV1Ext == Union(Int32, <<VoidArm(<<0>>)>>, None)

LedgerHeaderExtensionV1 == Struct(<<
    <<"flags", Uint32>>, <<"ext", Ref("LedgerHeaderExtensionV1Ext")>> >>)

LedgerHeaderExt == Union(Int32, <<
    VoidArm(<<0>>), ArmOf(<<1>>, LedgerHeaderExtensionV1)>>, None)

LedgerHeader == Struct(<<
    <<"ledgerVersion", Uint32>>, <<"previousLedgerHash", Ref("Hash")>>,
    <<"scpValue", StellarValue>>, <<"txSetResultHash", Ref("Hash")>>,
    <<"bucketListHash", Ref("Hash")>>, <<"ledgerSeq", Uint32>>,
    <<"totalCoins", Int64>>, <<"feePool", Int64>>, <<"inflationSeq", Uint32>>,
    <<"idPool", Uint64>>, <<"baseFee", Uint32>>, <<"baseReserve", Uint32>>,
    <<"maxTxSetSize", Uint32>>, <<"skipList", FixedArray(4, Ref("Hash"))>>,
    <<"ext", Ref("LedgerHeaderExt")>> >>)

LedgerHeaderHistoryEntryExt == Union(Int32, <<VoidArm(<<0>>)>>, None)

LedgerHeaderHistoryEntry == Struct(<<
    <<"hash", Ref("Hash")>>, <<"header", LedgerHeader>>,
    <<"ext", Ref("LedgerHeaderHistoryEntryExt")>> >>)

EnvelopeType == Enum([
    TxV0 |-> 0, Scp |-> 1, Tx |-> 2, Auth |-> 3, Scpvalue |-> 4,
    TxFeeBump |-> 5, OpId |-> 6, PoolRevokeOpId |-> 7, ContractId |-> 8,
    SorobanAuthorization |-> 9])

SequenceNumber == Int64

TimeBounds == Struct(<<
    <<"minTime", Ref("TimePoint")>>, <<"maxTime", Ref("TimePoint")>> >>)

MemoType == Enum([None |-> 0, Text |-> 1, Id |-> 2, Hash |-> 3, Return |-> 4])

Memo == Union(MemoType, <<
    VoidArm(<<"None">>), ArmOf(<<"Text">>, XdrString(28)),
    ArmOf(<<"Id">>, Uint64), ArmOf(<<"Hash">>, Ref("Hash")),
    ArmOf(<<"Return">>, Ref("Hash"))>>, None)

CryptoKeyType == Enum([
    Ed25519 |-> 0, PreAuthTx |-> 1, HashX |-> 2, Ed25519SignedPayload |-> 3,
    MuxedEd25519 |-> 256])

MuxedAccountMed25519 == Struct(<<
    <<"id", Uint64>>, <<"ed25519", Ref("Uint256")>> >>)

MuxedAccount == Union(CryptoKeyType, <<
    ArmOf(<<"Ed25519">>, Ref("Uint256")),
    ArmOf(<<"MuxedEd25519">>, MuxedAccountMed25519)>>, None)

OperationType == Enum([
    CreateAccount |-> 0, Payment |-> 1, PathPaymentStrictReceive |-> 2,
    ManageSellOffer |-> 3, CreatePassiveSellOffer |-> 4, SetOptions |-> 5,
    ChangeTrust |-> 6, AllowTrust |-> 7, AccountMerge |-> 8, Inflation |-> 9,
    ManageData |-> 10, BumpSequence |-> 11, ManageBuyOffer |-> 12,
    PathPaymentStrictSend |-> 13, CreateClaimableBalance |-> 14,
    ClaimClaimableBalance |-> 15, BeginSponsoringFutureReserves |-> 16,
    EndSponsoringFutureReserves |-> 17, RevokeSponsorship |-> 18,
    Clawback |-> 19, ClawbackClaimableBalance |-> 20, SetTrustLineFlags |-> 21,
    LiquidityPoolDeposit |-> 22, LiquidityPoolWithdraw |-> 23,
    InvokeHostFunction |-> 24, ExtendFootprintTtl |-> 25,
    RestoreFootprint |-> 26])

CreateAccountOp == Struct(<<
    <<"destination", Ref("AccountID")>>, <<"startingBalance", Int64>> >>)

AssetType == Enum([
    Native |-> 0, CreditAlphanum4 |-> 1, CreditAlphanum12 |-> 2,
    PoolShare |-> 3])

AssetCode4 == FixedOpaque(4)

AlphaNum4 == Struct(<<
    <<"assetCode", Ref("AssetCode4")>>, <<"issuer", Ref("AccountID")>> >>)

AssetCode12 == FixedOpaque(12)

AlphaNum12 == Struct(<<
    <<"assetCode", Ref("AssetCode12")>>, <<"issuer", Ref("AccountID")>> >>)

Asset == Union(AssetType, <<
    VoidArm(<<"Native">>), ArmOf(<<"CreditAlphanum4">>, AlphaNum4),
    ArmOf(<<"CreditAlphanum12">>, AlphaNum12)>>, None)

PaymentOp == Struct(<<
    <<"destination", Ref("MuxedAccount")>>, <<"asset", Ref("Asset")>>,
    <<"amount", Int64>> >>)

PathPaymentStrictReceiveOp == Struct(<<
    <<"sendAsset", Ref("Asset")>>, <<"sendMax", Int64>>,
    <<"destination", Ref("MuxedAccount")>>, <<"destAsset", Ref("Asset")>>,
    <<"destAmount", Int64>>, <<"path", VarArray(5, Ref("Asset"))>> >>)

Price == Struct(<<<<"n", Int32>>, <<"d", Int32>> >>)

ManageSellOfferOp == Struct(<<
    <<"selling", Ref("Asset")>>, <<"buying", Ref("Asset")>>,
    <<"amount", Int64>>, <<"price", Price>>, <<"offerID", Int64>> >>)

CreatePassiveSellOfferOp == Struct(<<
    <<"selling", Ref("Asset")>>, <<"buying", Ref("Asset")>>,
    <<"amount", Int64>>, <<"price", Price>> >>)

String32 == XdrString(32)

SignerKeyType == Enum([
    Ed25519 |-> 0, PreAuthTx |-> 1, HashX |-> 2, Ed25519SignedPayload |-> 3])

SignerKeyEd25519SignedPayload == Struct(<<
    <<"ed25519", Ref("Uint256")>>, <<"payload", VarOpaque(64)>> >>)

SignerKey == Union(SignerKeyType, <<
    ArmOf(<<"Ed25519">>, Ref("Uint256")),
    ArmOf(<<"PreAuthTx">>, Ref("Uint256")), ArmOf(<<"HashX">>, Ref("Uint256")),
    ArmOf(<<"Ed25519SignedPayload">>, SignerKeyEd25519SignedPayload)>>, None)

Signer == Struct(<<<<"key", Ref("SignerKey")>>, <<"weight", Uint32>> >>)

SetOptionsOp == Struct(<<
    <<"inflationDest", Option(Ref("AccountID"))>>,
    <<"clearFlags", Option(Uint32)>>, <<"setFlags", Option(Uint32)>>,
    <<"masterWeight", Option(Uint32)>>, <<"lowThreshold", Option(Uint32)>>,
    <<"medThreshold", Option(Uint32)>>, <<"highThreshold", Option(Uint32)>>,
    <<"homeDomain", Option(String32)>>, <<"signer", Option(Signer)>> >>)

LiquidityPoolType == Enum([LiquidityPoolConstantProduct |-> 0])

LiquidityPoolConstantProductParameters == Struct(<<
    <<"assetA", Ref("Asset")>>, <<"assetB", Ref("Asset")>>,
    <<"fee", Int32>> >>)

LiquidityPoolParameters == Union(LiquidityPoolType, <<
    ArmOf(<<"LiquidityPoolConstantProduct">>,
        LiquidityPoolConstantProductParameters)>>, None)

ChangeTrustAsset == Union(AssetType, <<
    VoidArm(<<"Native">>), ArmOf(<<"CreditAlphanum4">>, AlphaNum4),
    ArmOf(<<"CreditAlphanum12">>, AlphaNum12),
    ArmOf(<<"PoolShare">>, Ref("LiquidityPoolParameters"))>>, None)

ChangeTrustOp == Struct(<<
    <<"line", Ref("ChangeTrustAsset")>>, <<"limit", Int64>> >>)

AssetCode == Union(AssetType, <<
    ArmOf(<<"CreditAlphanum4">>, Ref("AssetCode4")),
    ArmOf(<<"CreditAlphanum12">>, Ref("AssetCode12"))>>, None)

AllowTrustOp == Struct(<<
    <<"trustor", Ref("AccountID")>>, <<"asset", Ref("AssetCode")>>,
    <<"authorize", Uint32>> >>)

String64 == XdrString(64)
DataValue == VarOpaque(64)

ManageDataOp == Struct(<<
    <<"dataName", String64>>, <<"dataValue", Option(Ref("DataValue"))>> >>)

BumpSequenceOp == Struct(<<<<"bumpTo", Ref("SequenceNumber")>> >>)

ManageBuyOfferOp == Struct(<<
    <<"selling", Ref("Asset")>>, <<"buying", Ref("Asset")>>,
    <<"buyAmount", Int64>>, <<"price", Price>>, <<"offerID", Int64>> >>)

PathPaymentStrictSendOp == Struct(<<
    <<"sendAsset", Ref("Asset")>>, <<"sendAmount", Int64>>,
    <<"destination", Ref("MuxedAccount")>>, <<"destAsset", Ref("Asset")>>,
    <<"destMin", Int64>>, <<"path", VarArray(5, Ref("Asset"))>> >>)

ClaimantType == Enum([ClaimantTypeV0 |-> 0])

ClaimPredicateType == Enum([
    Unconditional |-> 0, And |-> 1, Or |-> 2, Not |-> 3,
    BeforeAbsoluteTime |-> 4, BeforeRelativeTime |-> 5])

ClaimPredicate == Union(ClaimPredicateType, <<
    VoidArm(<<"Unconditional">>),
    ArmOf(<<"And">>, VarArray(2, Lazy("ClaimPredicate"))),
    ArmOf(<<"Or">>, VarArray(2, Lazy("ClaimPredicate"))),
    ArmOf(<<"Not">>, Option(Lazy("ClaimPredicate"))),
    ArmOf(<<"BeforeAbsoluteTime">>, Int64),
    ArmOf(<<"BeforeRelativeTime">>, Int64)>>, None)

ClaimantV0 == Struct(<<
    <<"destination", Ref("AccountID")>>,
    <<"predicate", Lazy("ClaimPredicate")>> >>)

Claimant == Union(ClaimantType, <<
    ArmOf(<<"ClaimantTypeV0">>, ClaimantV0)>>, None)

CreateClaimableBalanceOp == Struct(<<
    <<"asset", Ref("Asset")>>, <<"amount", Int64>>,
    <<"claimants", VarArray(10, Ref("Claimant"))>> >>)

ClaimClaimableBalanceOp == Struct(<<
    <<"balanceID", Ref("ClaimableBalanceID")>> >>)

BeginSponsoringFutureReservesOp == Struct(<<
    <<"sponsoredID", Ref("AccountID")>> >>)

RevokeSponsorshipType == Enum([LedgerEntry |-> 0, Signer |-> 1])

LedgerEntryType == Enum([
    Account |-> 0, Trustline |-> 1, Offer |-> 2, Data |-> 3,
    ClaimableBalance |-> 4, LiquidityPool |-> 5, ContractData |-> 6,
    ContractCode |-> 7, ConfigSetting |-> 8, Ttl |-> 9])

LedgerKeyAccount == Struct(<<<<"accountID", Ref("AccountID")>> >>)

TrustLineAsset == Union(AssetType, <<
    VoidArm(<<"Native">>), ArmOf(<<"CreditAlphanum4">>, AlphaNum4),
    ArmOf(<<"CreditAlphanum12">>, AlphaNum12),
    ArmOf(<<"PoolShare">>, Ref("PoolID"))>>, None)

LedgerKeyTrustLine == Struct(<<
    <<"accountID", Ref("AccountID")>>, <<"asset", Ref("TrustLineAsset")>> >>)

LedgerKeyOffer == Struct(<<
    <<"sellerID", Ref("AccountID")>>, <<"offerID", Int64>> >>)

LedgerKeyData == Struct(<<
    <<"accountID", Ref("AccountID")>>, <<"dataName", String64>> >>)

LedgerKeyClaimableBalance == Struct(<<
    <<"balanceID", Ref("ClaimableBalanceID")>> >>)

LedgerKeyLiquidityPool == Struct(<<<<"liquidityPoolID", Ref("PoolID")>> >>)
ContractDataDurability == Enum([Temporary |-> 0, Persistent |-> 1])

LedgerKeyContractData == Struct(<<
    <<"contract", Ref("SCAddress")>>, <<"key", Lazy("SCVal")>>,
    <<"durability", ContractDataDurability>> >>)

LedgerKeyContractCode == Struct(<<<<"hash", Ref("Hash")>> >>)
LedgerKeyConfigSetting == Struct(<<<<"configSettingID", ConfigSettingID>> >>)
LedgerKeyTtl == Struct(<<<<"keyHash", Ref("Hash")>> >>)

LedgerKey == Union(LedgerEntryType, <<
    ArmOf(<<"Account">>, LedgerKeyAccount),
    ArmOf(<<"Trustline">>, LedgerKeyTrustLine),
    ArmOf(<<"Offer">>, LedgerKeyOffer), ArmOf(<<"Data">>, LedgerKeyData),
    ArmOf(<<"ClaimableBalance">>, LedgerKeyClaimableBalance),
    ArmOf(<<"LiquidityPool">>, LedgerKeyLiquidityPool),
    ArmOf(<<"ContractData">>, LedgerKeyContractData),
    ArmOf(<<"ContractCode">>, LedgerKeyContractCode),
    ArmOf(<<"ConfigSetting">>, LedgerKeyConfigSetting),
    ArmOf(<<"Ttl">>, LedgerKeyTtl)>>, None)

RevokeSponsorshipOpSigner == Struct(<<
    <<"accountID", Ref("AccountID")>>, <<"signerKey", Ref("SignerKey")>> >>)

RevokeSponsorshipOp == Union(RevokeSponsorshipType, <<
    ArmOf(<<"LedgerEntry">>, Ref("LedgerKey")),
    ArmOf(<<"Signer">>, RevokeSponsorshipOpSigner)>>, None)

ClawbackOp == Struct(<<
    <<"asset", Ref("Asset")>>, <<"from", Ref("MuxedAccount")>>,
    <<"amount", Int64>> >>)

ClawbackClaimableBalanceOp == Struct(<<
    <<"balanceID", Ref("ClaimableBalanceID")>> >>)

SetTrustLineFlagsOp == Struct(<<
    <<"trustor", Ref("AccountID")>>, <<"asset", Ref("Asset")>>,
    <<"clearFlags", Uint32>>, <<"setFlags", Uint32>> >>)

LiquidityPoolDepositOp == Struct(<<
    <<"liquidityPoolID", Ref("PoolID")>>, <<"maxAmountA", Int64>>,
    <<"maxAmountB", Int64>>, <<"minPrice", Price>>, <<"maxPrice", Price>> >>)

LiquidityPoolWithdrawOp == Struct(<<
    <<"liquidityPoolID", Ref("PoolID")>>, <<"amount", Int64>>,
    <<"minAmountA", Int64>>, <<"minAmountB", Int64>> >>)

HostFunctionType == Enum([
    InvokeContract |-> 0, CreateContract |-> 1, UploadContractWasm |-> 2,
    CreateContractV2 |-> 3])

InvokeContractArgs == Struct(<<
    <<"contractAddress", Ref("SCAddress")>>, <<"functionName", SCSymbol>>,
    <<"args", VarArray(2147483647, Lazy("SCVal"))>> >>)

ContractIDPreimageType == Enum([Address |-> 0, Asset |-> 1])

ContractIDPreimageFromAddress == Struct(<<
    <<"address", Ref("SCAddress")>>, <<"salt", Ref("Uint256")>> >>)

ContractIDPreimage == Union(ContractIDPreimageType, <<
    ArmOf(<<"Address">>, ContractIDPreimageFromAddress),
    ArmOf(<<"Asset">>, Ref("Asset"))>>, None)

CreateContractArgs == Struct(<<
    <<"contractIDPreimage", Ref("ContractIDPreimage")>>,
    <<"executable", Ref("ContractExecutable")>> >>)

CreateContractArgsV2 == Struct(<<
    <<"contractIDPreimage", Ref("ContractIDPreimage")>>,
    <<"executable", Ref("ContractExecutable")>>,
    <<"constructorArgs", VarArray(2147483647, Lazy("SCVal"))>> >>)

HostFunction == Union(HostFunctionType, <<
    ArmOf(<<"InvokeContract">>, InvokeContractArgs),
    ArmOf(<<"CreateContract">>, CreateContractArgs),
    ArmOf(<<"UploadContractWasm">>, VarOpaque(2147483647)),
    ArmOf(<<"CreateContractV2">>, CreateContractArgsV2)>>, None)

SorobanCredentialsType == Enum([SourceAccount |-> 0, Address |-> 1])

SorobanAddressCredentials == Struct(<<
    <<"address", Ref("SCAddress")>>, <<"nonce", Int64>>,
    <<"signatureExpirationLedger", Uint32>>, <<"signature", Lazy("SCVal")>> >>)

SorobanCredentials == Union(SorobanCredentialsType, <<
    VoidArm(<<"SourceAccount">>),
    ArmOf(<<"Address">>, SorobanAddressCredentials)>>, None)

SorobanAuthorizedFunctionType == Enum([
    ContractFn |-> 0, CreateContractHostFn |-> 1,
    CreateContractV2HostFn |-> 2])

SorobanAuthorizedFunction == Union(SorobanAuthorizedFunctionType, <<
    ArmOf(<<"ContractFn">>, InvokeContractArgs),
    ArmOf(<<"CreateContractHostFn">>, CreateContractArgs),
    ArmOf(<<"CreateContractV2HostFn">>, CreateContractArgsV2)>>, None)

SorobanAuthorizedInvocation == Struct(<<
    <<"function", Ref("SorobanAuthorizedFunction")>>,
    <<"subInvocations", VarArray(2147483647,
        Lazy("SorobanAuthorizedInvocation"))>> >>)

SorobanAuthorizationEntry == Struct(<<
    <<"credentials", Ref("SorobanCredentials")>>,
    <<"rootInvocation", Lazy("SorobanAuthorizedInvocation")>> >>)

InvokeHostFunctionOp == Struct(<<
    <<"hostFunction", Ref("HostFunction")>>,
    <<"auth", VarArray(2147483647, SorobanAuthorizationEntry)>> >>)

ExtendFootprintTTLOp == Struct(<<
    <<"ext", Ref("ExtensionPoint")>>, <<"extendTo", Uint32>> >>)

RestoreFootprintOp == Struct(<<<<"ext", Ref("ExtensionPoint")>> >>)

OperationBody == Union(OperationType, <<
    ArmOf(<<"CreateAccount">>, CreateAccountOp),
    ArmOf(<<"Payment">>, PaymentOp),
    ArmOf(<<"PathPaymentStrictReceive">>, PathPaymentStrictReceiveOp),
    ArmOf(<<"ManageSellOffer">>, ManageSellOfferOp),
    ArmOf(<<"CreatePassiveSellOffer">>, CreatePassiveSellOfferOp),
    ArmOf(<<"SetOptions">>, SetOptionsOp),
    ArmOf(<<"ChangeTrust">>, ChangeTrustOp),
    ArmOf(<<"AllowTrust">>, AllowTrustOp),
    ArmOf(<<"AccountMerge">>, Ref("MuxedAccount")), VoidArm(<<"Inflation">>),
    ArmOf(<<"ManageData">>, ManageDataOp),
    ArmOf(<<"BumpSequence">>, BumpSequenceOp),
    ArmOf(<<"ManageBuyOffer">>, ManageBuyOfferOp),
    ArmOf(<<"PathPaymentStrictSend">>, PathPaymentStrictSendOp),
    ArmOf(<<"CreateClaimableBalance">>, CreateClaimableBalanceOp),
    ArmOf(<<"ClaimClaimableBalance">>, ClaimClaimableBalanceOp),
    ArmOf(<<"BeginSponsoringFutureReserves">>,
        BeginSponsoringFutureReservesOp),
    VoidArm(<<"EndSponsoringFutureReserves">>),
    ArmOf(<<"RevokeSponsorship">>, Ref("RevokeSponsorshipOp")),
    ArmOf(<<"Clawback">>, ClawbackOp),
    ArmOf(<<"ClawbackClaimableBalance">>, ClawbackClaimableBalanceOp),
    ArmOf(<<"SetTrustLineFlags">>, SetTrustLineFlagsOp),
    ArmOf(<<"LiquidityPoolDeposit">>, LiquidityPoolDepositOp),
    ArmOf(<<"LiquidityPoolWithdraw">>, LiquidityPoolWithdrawOp),
    ArmOf(<<"InvokeHostFunction">>, InvokeHostFunctionOp),
    ArmOf(<<"ExtendFootprintTtl">>, ExtendFootprintTTLOp),
    ArmOf(<<"RestoreFootprint">>, RestoreFootprintOp)>>, None)

Operation == Struct(<<
    <<"sourceAccount", Option(Ref("MuxedAccount"))>>,
    <<"body", Ref("OperationBody")>> >>)
=============================================================================
