------------------------- MODULE CompatTypesOperation -------------------------
(***************************************************************************)
(* packages/stellar-base-comp/src/generated: the classes of the compat     *)
(* interface for contract settings, specs and values, ledger headers,      *)
(* accounts, assets and operations, as the tables say that make them. A    *)
(* field is its compat name, its modern name and its converter; an enum    *)
(* maps compat to modern names (the numbers of its singletons are those of *)
(* the codec). Codecs and classes are referred to by name.                 *)
(***************************************************************************)
EXTENDS CompatSchema

Uint32 == CompatTypedef("Uint32", Id)

ConfigSettingContractExecutionLanesV0 ==
    CompatStruct("ConfigSettingContractExecutionLanesV0", <<
    Same("ledgerMaxTxCount", Id)>>)

ConfigSettingContractComputeV0 ==
    CompatStruct("ConfigSettingContractComputeV0", <<
    Same("ledgerMaxInstructions", Int64Conv),
    Same("txMaxInstructions", Int64Conv),
    Same("feeRatePerInstructionsIncrement", Int64Conv),
    Same("txMemoryLimit", Id)>>)

ConfigSettingContractParallelComputeV0 ==
    CompatStruct("ConfigSettingContractParallelComputeV0", <<
    Same("ledgerMaxDependentTxClusters", Id)>>)

ConfigSettingContractLedgerCostV0 ==
    CompatStruct("ConfigSettingContractLedgerCostV0", <<
    Same("ledgerMaxDiskReadEntries", Id), Same("ledgerMaxDiskReadBytes", Id),
    Same("ledgerMaxWriteLedgerEntries", Id), Same("ledgerMaxWriteBytes", Id),
    Same("txMaxDiskReadEntries", Id), Same("txMaxDiskReadBytes", Id),
    Same("txMaxWriteLedgerEntries", Id), Same("txMaxWriteBytes", Id),
    Same("feeDiskReadLedgerEntry", Int64Conv),
    Same("feeWriteLedgerEntry", Int64Conv),
    Renamed("feeDiskRead1Kb", "feeDiskRead1KB", Int64Conv),
    Same("sorobanStateTargetSizeBytes", Int64Conv),
    Renamed("rentFee1KbSorobanStateSizeLow", "rentFee1KBSorobanStateSizeLow",
        Int64Conv),
    Renamed("rentFee1KbSorobanStateSizeHigh", "rentFee1KBSorobanStateSizeHigh",
        Int64Conv),
    Same("sorobanStateRentFeeGrowthFactor", Id)>>)

ConfigSettingContractLedgerCostExtV0 ==
    CompatStruct("ConfigSettingContractLedgerCostExtV0", <<
    Same("txMaxFootprintEntries", Id),
    Renamed("feeWrite1Kb", "feeWrite1KB", Int64Conv)>>)

ConfigSettingContractHistoricalDataV0 ==
    CompatStruct("ConfigSettingContractHistoricalDataV0", <<
    Renamed("feeHistorical1Kb", "feeHistorical1KB", Int64Conv)>>)

ConfigSettingContractEventsV0 == CompatStruct("ConfigSettingContractEventsV0",
    <<
    Same("txMaxContractEventsSizeBytes", Id),
    Renamed("feeContractEvents1Kb", "feeContractEvents1KB", Int64Conv)>>)

ConfigSettingContractBandwidthV0 ==
    CompatStruct("ConfigSettingContractBandwidthV0", <<
    Same("ledgerMaxTxsSizeBytes", Id), Same("txMaxSizeBytes", Id),
    Renamed("feeTxSize1Kb", "feeTxSize1KB", Int64Conv)>>)

ContractCostType == CompatEnum("ContractCostType", [
    wasmInsnExec |-> "WasmInsnExec", memAlloc |-> "MemAlloc",
    memCpy |-> "MemCpy", memCmp |-> "MemCmp",
    dispatchHostFunction |-> "DispatchHostFunction",
    visitObject |-> "VisitObject", valSer |-> "ValSer",
    valDeser |-> "ValDeser", computeSha256Hash |-> "ComputeSha256Hash",
    computeEd25519PubKey |-> "ComputeEd25519PubKey",
    verifyEd25519Sig |-> "VerifyEd25519Sig",
    vmInstantiation |-> "VmInstantiation",
    vmCachedInstantiation |-> "VmCachedInstantiation",
    invokeVmFunction |-> "InvokeVmFunction",
    computeKeccak256Hash |-> "ComputeKeccak256Hash",
    decodeEcdsaCurve256Sig |-> "DecodeEcdsaCurve256Sig",
    recoverEcdsaSecp256k1Key |-> "RecoverEcdsaSecp256k1Key",
    int256AddSub |-> "Int256AddSub", int256Mul |-> "Int256Mul",
    int256Div |-> "Int256Div", int256Pow |-> "Int256Pow",
    int256Shift |-> "Int256Shift", chaCha20DrawBytes |-> "ChaCha20DrawBytes",
    parseWasmInstructions |-> "ParseWasmInstructions",
    parseWasmFunctions |-> "ParseWasmFunctions",
    parseWasmGlobals |-> "ParseWasmGlobals",
    parseWasmTableEntries |-> "ParseWasmTableEntries",
    parseWasmTypes |-> "ParseWasmTypes",
    parseWasmDataSegments |-> "ParseWasmDataSegments",
    parseWasmElemSegments |-> "ParseWasmElemSegments",
    parseWasmImports |-> "ParseWasmImports",
    parseWasmExports |-> "ParseWasmExports",
    parseWasmDataSegmentBytes |-> "ParseWasmDataSegmentBytes",
    instantiateWasmInstructions |-> "InstantiateWasmInstructions",
    instantiateWasmFunctions |-> "InstantiateWasmFunctions",
    instantiateWasmGlobals |-> "InstantiateWasmGlobals",
    instantiateWasmTableEntries |-> "InstantiateWasmTableEntries",
    instantiateWasmTypes |-> "InstantiateWasmTypes",
    instantiateWasmDataSegments |-> "InstantiateWasmDataSegments",
    instantiateWasmElemSegments |-> "InstantiateWasmElemSegments",
    instantiateWasmImports |-> "InstantiateWasmImports",
    instantiateWasmExports |-> "InstantiateWasmExports",
    instantiateWasmDataSegmentBytes |-> "InstantiateWasmDataSegmentBytes",
    sec1DecodePointUncompressed |-> "Sec1DecodePointUncompressed",
    verifyEcdsaSecp256r1Sig |-> "VerifyEcdsaSecp256r1Sig",
    bls12381EncodeFp |-> "Bls12381EncodeFp",
    bls12381DecodeFp |-> "Bls12381DecodeFp",
    bls12381G1CheckPointOnCurve |-> "Bls12381G1CheckPointOnCurve",
    bls12381G1CheckPointInSubgroup |-> "Bls12381G1CheckPointInSubgroup",
    bls12381G2CheckPointOnCurve |-> "Bls12381G2CheckPointOnCurve",
    bls12381G2CheckPointInSubgroup |-> "Bls12381G2CheckPointInSubgroup",
    bls12381G1ProjectiveToAffine |-> "Bls12381G1ProjectiveToAffine",
    bls12381G2ProjectiveToAffine |-> "Bls12381G2ProjectiveToAffine",
    bls12381G1Add |-> "Bls12381G1Add", bls12381G1Mul |-> "Bls12381G1Mul",
    bls12381G1Msm |-> "Bls12381G1Msm",
    bls12381MapFpToG1 |-> "Bls12381MapFpToG1",
    bls12381HashToG1 |-> "Bls12381HashToG1", bls12381G2Add |-> "Bls12381G2Add",
    bls12381G2Mul |-> "Bls12381G2Mul", bls12381G2Msm |-> "Bls12381G2Msm",
    bls12381MapFp2ToG2 |-> "Bls12381MapFp2ToG2",
    bls12381HashToG2 |-> "Bls12381HashToG2",
    bls12381Pairing |-> "Bls12381Pairing",
    bls12381FrFromU256 |-> "Bls12381FrFromU256",
    bls12381FrToU256 |-> "Bls12381FrToU256",
    bls12381FrAddSub |-> "Bls12381FrAddSub", bls12381FrMul |-> "Bls12381FrMul",
    bls12381FrPow |-> "Bls12381FrPow", bls12381FrInv |-> "Bls12381FrInv",
    bn254EncodeFp |-> "Bn254EncodeFp", bn254DecodeFp |-> "Bn254DecodeFp",
    bn254G1CheckPointOnCurve |-> "Bn254G1CheckPointOnCurve",
    bn254G2CheckPointOnCurve |-> "Bn254G2CheckPointOnCurve",
    bn254G2CheckPointInSubgroup |-> "Bn254G2CheckPointInSubgroup",
    bn254G1ProjectiveToAffine |-> "Bn254G1ProjectiveToAffine",
    bn254G1Add |-> "Bn254G1Add", bn254G1Mul |-> "Bn254G1Mul",
    bn254Pairing |-> "Bn254Pairing", bn254FrFromU256 |-> "Bn254FrFromU256",
    bn254FrToU256 |-> "Bn254FrToU256", bn254FrAddSub |-> "Bn254FrAddSub",
    bn254FrMul |-> "Bn254FrMul", bn254FrPow |-> "Bn254FrPow",
    bn254FrInv |-> "Bn254FrInv"])

ExtensionPoint == CompatUnion("ExtensionPoint", None, <<CompatVoid(<<0>>, 0)>>)

ContractCostParamEntry == CompatStruct("ContractCostParamEntry", <<
    Same("ext", Class("ExtensionPoint")), Same("constTerm", Int64Conv),
    Same("linearTerm", Int64Conv)>>)

StateArchivalSettings == CompatStruct("StateArchivalSettings", <<
    Renamed("maxEntryTtl", "maxEntryTTL", Id),
    Renamed("minTemporaryTtl", "minTemporaryTTL", Id),
    Renamed("minPersistentTtl", "minPersistentTTL", Id),
    Same("persistentRentRateDenominator", Int64Conv),
    Same("tempRentRateDenominator", Int64Conv),
    Same("maxEntriesToArchive", Id),
    Same("liveSorobanStateSizeWindowSampleSize", Id),
    Same("liveSorobanStateSizeWindowSamplePeriod", Id),
    Same("evictionScanSize", Id), Same("startingEvictionScanLevel", Id)>>)

EvictionIterator == CompatStruct("EvictionIterator", <<
    Same("bucketListLevel", Id), Same("isCurrBucket", Id),
    Same("bucketFileOffset", Uint64Conv)>>)

ConfigSettingScpTiming == CompatStruct("ConfigSettingSCPTiming", <<
    Same("ledgerTargetCloseTimeMilliseconds", Id),
    Same("nominationTimeoutInitialMilliseconds", Id),
    Same("nominationTimeoutIncrementMilliseconds", Id),
    Same("ballotTimeoutInitialMilliseconds", Id),
    Same("ballotTimeoutIncrementMilliseconds", Id)>>)

ContractCostParams == CompatTypedef("ContractCostParams",
    ArrayConv(Class("ContractCostParamEntry")))

ConfigSettingId == CompatEnum("ConfigSettingID", [
    configSettingContractMaxSizeBytes |-> "ContractMaxSizeBytes",
    configSettingContractComputeV0 |-> "ContractComputeV0",
    configSettingContractLedgerCostV0 |-> "ContractLedgerCostV0",
    configSettingContractHistoricalDataV0 |-> "ContractHistoricalDataV0",
    configSettingContractEventsV0 |-> "ContractEventsV0",
    configSettingContractBandwidthV0 |-> "ContractBandwidthV0",
    configSettingContractCostParamsCpuInstructions |->
        "ContractCostParamsCpuInstructions",
    configSettingContractCostParamsMemoryBytes |->
        "ContractCostParamsMemoryBytes",
    configSettingContractDataKeySizeBytes |-> "ContractDataKeySizeBytes",
    configSettingContractDataEntrySizeBytes |-> "ContractDataEntrySizeBytes",
    configSettingStateArchival |-> "StateArchival",
    configSettingContractExecutionLanes |-> "ContractExecutionLanes",
    configSettingLiveSorobanStateSizeWindow |-> "LiveSorobanStateSizeWindow",
    configSettingEvictionIterator |-> "EvictionIterator",
    configSettingContractParallelComputeV0 |-> "ContractParallelComputeV0",
    configSettingContractLedgerCostExtV0 |-> "ContractLedgerCostExtV0",
    configSettingScpTiming |-> "ScpTiming"])

ConfigSettingEntry == CompatUnion("ConfigSettingEntry", "ConfigSettingId", <<
    CompatArm(<<"configSettingContractMaxSizeBytes">>, "ContractMaxSizeBytes",
        "contractMaxSizeBytes", Id),
    CompatArm(<<"configSettingContractComputeV0">>, "ContractComputeV0",
        "contractCompute", Class("ConfigSettingContractComputeV0")),
    CompatArm(<<"configSettingContractLedgerCostV0">>, "ContractLedgerCostV0",
        "contractLedgerCost", Class("ConfigSettingContractLedgerCostV0")),
    CompatArm(<<"configSettingContractHistoricalDataV0">>,
        "ContractHistoricalDataV0", "contractHistoricalData",
        Class("ConfigSettingContractHistoricalDataV0")),
    CompatArm(<<"configSettingContractEventsV0">>, "ContractEventsV0",
        "contractEvents", Class("ConfigSettingContractEventsV0")),
    CompatArm(<<"configSettingContractBandwidthV0">>, "ContractBandwidthV0",
        "contractBandwidth", Class("ConfigSettingContractBandwidthV0")),
    CompatArm(<<"configSettingContractCostParamsCpuInstructions">>,
        "ContractCostParamsCpuInstructions", "contractCostParamsCpuInsns",
        ArrayConv(Class("ContractCostParamEntry"))),
    CompatArm(<<"configSettingContractCostParamsMemoryBytes">>,
        "ContractCostParamsMemoryBytes", "contractCostParamsMemBytes",
        ArrayConv(Class("ContractCostParamEntry"))),
    CompatArm(<<"configSettingContractDataKeySizeBytes">>,
        "ContractDataKeySizeBytes", "contractDataKeySizeBytes", Id),
    CompatArm(<<"configSettingContractDataEntrySizeBytes">>,
        "ContractDataEntrySizeBytes", "contractDataEntrySizeBytes", Id),
    CompatArm(<<"configSettingStateArchival">>, "StateArchival",
        "stateArchivalSettings", Class("StateArchivalSettings")),
    CompatArm(<<"configSettingContractExecutionLanes">>,
        "ContractExecutionLanes", "contractExecutionLanes",
        Class("ConfigSettingContractExecutionLanesV0")),
    CompatArm(<<"configSettingLiveSorobanStateSizeWindow">>,
        "LiveSorobanStateSizeWindow", "liveSorobanStateSizeWindow",
        ArrayConv(Uint64Conv)),
    CompatArm(<<"configSettingEvictionIterator">>, "EvictionIterator",
        "evictionIterator", Class("EvictionIterator")),
    CompatArm(<<"configSettingContractParallelComputeV0">>,
        "ContractParallelComputeV0", "contractParallelCompute",
        Class("ConfigSettingContractParallelComputeV0")),
    CompatArm(<<"configSettingContractLedgerCostExtV0">>,
        "ContractLedgerCostExtV0", "contractLedgerCostExt",
        Class("ConfigSettingContractLedgerCostExtV0")),
    CompatArm(<<"configSettingScpTiming">>, "ScpTiming", "contractScpTiming",
        Class("ConfigSettingScpTiming"))>>)

ScEnvMetaKind == CompatEnum("SCEnvMetaKind", [
    scEnvMetaKindInterfaceVersion |-> "ScEnvMetaKindInterfaceVersion"])

ScEnvMetaEntryInterfaceVersion ==
    CompatStruct("SCEnvMetaEntryInterfaceVersion", <<
    Same("protocol", Id), Same("preRelease", Id)>>)

ScEnvMetaEntry == CompatUnion("SCEnvMetaEntry", "ScEnvMetaKind", <<
    CompatArm(<<"scEnvMetaKindInterfaceVersion">>,
        "ScEnvMetaKindInterfaceVersion", "interfaceVersion",
        Class("ScEnvMetaEntryInterfaceVersion"))>>)

ScMetaV0 == CompatStruct("SCMetaV0", <<Same("key", Id), Same("val", Id)>>)
ScMetaKind == CompatEnum("SCMetaKind", [scMetaV0 |-> "ScMetaV0"])

ScMetaEntry == CompatUnion("SCMetaEntry", "ScMetaKind", <<
    CompatArm(<<"scMetaV0">>, "ScMetaV0", "v0", Class("ScMetaV0"))>>)

ScSpecType == CompatEnum("SCSpecType", [
    scSpecTypeVal |-> "Val", scSpecTypeBool |-> "Bool",
    scSpecTypeVoid |-> "Void", scSpecTypeError |-> "Error",
    scSpecTypeU32 |-> "U32", scSpecTypeI32 |-> "I32", scSpecTypeU64 |-> "U64",
    scSpecTypeI64 |-> "I64", scSpecTypeTimepoint |-> "Timepoint",
    scSpecTypeDuration |-> "Duration", scSpecTypeU128 |-> "U128",
    scSpecTypeI128 |-> "I128", scSpecTypeU256 |-> "U256",
    scSpecTypeI256 |-> "I256", scSpecTypeBytes |-> "Bytes",
    scSpecTypeString |-> "String", scSpecTypeSymbol |-> "Symbol",
    scSpecTypeAddress |-> "Address", scSpecTypeMuxedAddress |-> "MuxedAddress",
    scSpecTypeOption |-> "Option", scSpecTypeResult |-> "Result",
    scSpecTypeVec |-> "Vec", scSpecTypeMap |-> "Map",
    scSpecTypeTuple |-> "Tuple", scSpecTypeBytesN |-> "BytesN",
    scSpecTypeUdt |-> "Udt"])

ScSpecTypeResult == CompatStruct("SCSpecTypeResult", <<
    Same("okType", LazyConv("ScSpecTypeDef")),
    Same("errorType", LazyConv("ScSpecTypeDef"))>>)

ScSpecTypeVec == CompatStruct("SCSpecTypeVec", <<
    Same("elementType", LazyConv("ScSpecTypeDef"))>>)

ScSpecTypeMap == CompatStruct("SCSpecTypeMap", <<
    Same("keyType", LazyConv("ScSpecTypeDef")),
    Same("valueType", LazyConv("ScSpecTypeDef"))>>)

ScSpecTypeTuple == CompatStruct("SCSpecTypeTuple", <<
    Same("valueTypes", ArrayConv(LazyConv("ScSpecTypeDef")))>>)

ScSpecTypeBytesN == CompatStruct("SCSpecTypeBytesN", <<Same("n", Id)>>)
ScSpecTypeUdt == CompatStruct("SCSpecTypeUDT", <<Same("name", Id)>>)

ScSpecTypeDef == CompatUnion("SCSpecTypeDef", "ScSpecType", <<
    CompatVoid(<<"scSpecTypeVal", "scSpecTypeBool", "scSpecTypeVoid",
        "scSpecTypeError", "scSpecTypeU32", "scSpecTypeI32", "scSpecTypeU64",
        "scSpecTypeI64", "scSpecTypeTimepoint", "scSpecTypeDuration",
        "scSpecTypeU128", "scSpecTypeI128", "scSpecTypeU256", "scSpecTypeI256",
        "scSpecTypeBytes", "scSpecTypeString", "scSpecTypeSymbol",
        "scSpecTypeAddress", "scSpecTypeMuxedAddress">>, "Val"),
    CompatArm(<<"scSpecTypeOption">>, "Option", "option",
        LazyConv("ScSpecTypeOption")),
    CompatArm(<<"scSpecTypeResult">>, "Result", "result",
        Class("ScSpecTypeResult")),
    CompatArm(<<"scSpecTypeVec">>, "Vec", "vec", Class("ScSpecTypeVec")),
    CompatArm(<<"scSpecTypeMap">>, "Map", "map", Class("ScSpecTypeMap")),
    CompatArm(<<"scSpecTypeTuple">>, "Tuple", "tuple",
        Class("ScSpecTypeTuple")),
    CompatArm(<<"scSpecTypeBytesN">>, "BytesN", "bytesN",
        Class("ScSpecTypeBytesN")),
    CompatArm(<<"scSpecTypeUdt">>, "Udt", "udt", Class("ScSpecTypeUdt"))>>)

ScSpecTypeOption == CompatStruct("SCSpecTypeOption", <<
    Same("valueType", LazyConv("ScSpecTypeDef"))>>)

ScSpecUdtStructFieldV0 == CompatStruct("SCSpecUDTStructFieldV0", <<
    Same("doc", Id), Same("name", Id),
    Same("type", LazyConv("ScSpecTypeDef"))>>)

ScSpecUdtStructV0 == CompatStruct("SCSpecUDTStructV0", <<
    Same("doc", Id), Same("lib", Id), Same("name", Id),
    Same("fields", ArrayConv(Class("ScSpecUdtStructFieldV0")))>>)

ScSpecUdtUnionCaseVoidV0 == CompatStruct("SCSpecUDTUnionCaseVoidV0", <<
    Same("doc", Id), Same("name", Id)>>)

ScSpecUdtUnionCaseTupleV0 == CompatStruct("SCSpecUDTUnionCaseTupleV0", <<
    Same("doc", Id), Same("name", Id),
    Same("type", ArrayConv(LazyConv("ScSpecTypeDef")))>>)

ScSpecUdtUnionCaseV0Kind == CompatEnum("SCSpecUDTUnionCaseV0Kind", [
    scSpecUdtUnionCaseVoidV0 |-> "VoidV0",
    scSpecUdtUnionCaseTupleV0 |-> "TupleV0"])

ScSpecUdtUnionCaseV0 == CompatUnion("SCSpecUDTUnionCaseV0",
    "ScSpecUdtUnionCaseV0Kind", <<
    CompatArm(<<"scSpecUdtUnionCaseVoidV0">>, "VoidV0", "voidCase",
        Class("ScSpecUdtUnionCaseVoidV0")),
    CompatArm(<<"scSpecUdtUnionCaseTupleV0">>, "TupleV0", "tupleCase",
        Class("ScSpecUdtUnionCaseTupleV0"))>>)

ScSpecUdtUnionV0 == CompatStruct("SCSpecUDTUnionV0", <<
    Same("doc", Id), Same("lib", Id), Same("name", Id),
    Same("cases", ArrayConv(Class("ScSpecUdtUnionCaseV0")))>>)

ScSpecUdtEnumCaseV0 == CompatStruct("SCSpecUDTEnumCaseV0", <<
    Same("doc", Id), Same("name", Id), Same("value", Id)>>)

ScSpecUdtEnumV0 == CompatStruct("SCSpecUDTEnumV0", <<
    Same("doc", Id), Same("lib", Id), Same("name", Id),
    Same("cases", ArrayConv(Class("ScSpecUdtEnumCaseV0")))>>)

ScSpecUdtErrorEnumCaseV0 == CompatStruct("SCSpecUDTErrorEnumCaseV0", <<
    Same("doc", Id), Same("name", Id), Same("value", Id)>>)

ScSpecUdtErrorEnumV0 == CompatStruct("SCSpecUDTErrorEnumV0", <<
    Same("doc", Id), Same("lib", Id), Same("name", Id),
    Same("cases", ArrayConv(Class("ScSpecUdtErrorEnumCaseV0")))>>)

ScSpecFunctionInputV0 == CompatStruct("SCSpecFunctionInputV0", <<
    Same("doc", Id), Same("name", Id),
    Same("type", LazyConv("ScSpecTypeDef"))>>)

ScSymbol == CompatTypedef("SCSymbol", Id)

ScSpecFunctionV0 == CompatStruct("SCSpecFunctionV0", <<
    Same("doc", Id), Same("name", Id),
    Same("inputs", ArrayConv(Class("ScSpecFunctionInputV0"))),
    Same("outputs", ArrayConv(LazyConv("ScSpecTypeDef")))>>)

ScSpecEventParamLocationV0 == CompatEnum("SCSpecEventParamLocationV0", [
    scSpecEventParamLocationData |-> "Data",
    scSpecEventParamLocationTopicList |-> "TopicList"])

ScSpecEventParamV0 == CompatStruct("SCSpecEventParamV0", <<
    Same("doc", Id), Same("name", Id), Same("type", LazyConv("ScSpecTypeDef")),
    Same("location", Class("ScSpecEventParamLocationV0"))>>)

ScSpecEventDataFormat == CompatEnum("SCSpecEventDataFormat", [
    scSpecEventDataFormatSingleValue |-> "SingleValue",
    scSpecEventDataFormatVec |-> "Vec", scSpecEventDataFormatMap |-> "Map"])

ScSpecEventV0 == CompatStruct("SCSpecEventV0", <<
    Same("doc", Id), Same("lib", Id), Same("name", Id),
    Same("prefixTopics", ArrayConv(Id)),
    Same("params", ArrayConv(Class("ScSpecEventParamV0"))),
    Same("dataFormat", Class("ScSpecEventDataFormat"))>>)

ScSpecEntryKind == CompatEnum("SCSpecEntryKind", [
    scSpecEntryFunctionV0 |-> "FunctionV0",
    scSpecEntryUdtStructV0 |-> "UdtStructV0",
    scSpecEntryUdtUnionV0 |-> "UdtUnionV0",
    scSpecEntryUdtEnumV0 |-> "UdtEnumV0",
    scSpecEntryUdtErrorEnumV0 |-> "UdtErrorEnumV0",
    scSpecEntryEventV0 |-> "EventV0"])

ScSpecEntry == CompatUnion("SCSpecEntry", "ScSpecEntryKind", <<
    CompatArm(<<"scSpecEntryFunctionV0">>, "FunctionV0", "functionV0",
        Class("ScSpecFunctionV0")),
    CompatArm(<<"scSpecEntryUdtStructV0">>, "UdtStructV0", "udtStructV0",
        Class("ScSpecUdtStructV0")),
    CompatArm(<<"scSpecEntryUdtUnionV0">>, "UdtUnionV0", "udtUnionV0",
        Class("ScSpecUdtUnionV0")),
    CompatArm(<<"scSpecEntryUdtEnumV0">>, "UdtEnumV0", "udtEnumV0",
        Class("ScSpecUdtEnumV0")),
    CompatArm(<<"scSpecEntryUdtErrorEnumV0">>, "UdtErrorEnumV0",
        "udtErrorEnumV0", Class("ScSpecUdtErrorEnumV0")),
    CompatArm(<<"scSpecEntryEventV0">>, "EventV0", "eventV0",
        Class("ScSpecEventV0"))>>)

ScValType == CompatEnum("SCValType", [
    scvBool |-> "Bool", scvVoid |-> "Void", scvError |-> "Error",
    scvU32 |-> "U32", scvI32 |-> "I32", scvU64 |-> "U64", scvI64 |-> "I64",
    scvTimepoint |-> "Timepoint", scvDuration |-> "Duration",
    scvU128 |-> "U128", scvI128 |-> "I128", scvU256 |-> "U256",
    scvI256 |-> "I256", scvBytes |-> "Bytes", scvString |-> "String",
    scvSymbol |-> "Symbol", scvVec |-> "Vec", scvMap |-> "Map",
    scvAddress |-> "Address", scvContractInstance |-> "ContractInstance",
    scvLedgerKeyContractInstance |-> "LedgerKeyContractInstance",
    scvLedgerKeyNonce |-> "LedgerKeyNonce"])

ScErrorType == CompatEnum("SCErrorType", [
    sceContract |-> "Contract", sceWasmVm |-> "WasmVm",
    sceContext |-> "Context", sceStorage |-> "Storage", sceObject |-> "Object",
    sceCrypto |-> "Crypto", sceEvents |-> "Events", sceBudget |-> "Budget",
    sceValue |-> "Value", sceAuth |-> "Auth"])

ScErrorCode == CompatEnum("SCErrorCode", [
    scecArithDomain |-> "ArithDomain", scecIndexBounds |-> "IndexBounds",
    scecInvalidInput |-> "InvalidInput", scecMissingValue |-> "MissingValue",
    scecExistingValue |-> "ExistingValue",
    scecExceededLimit |-> "ExceededLimit",
    scecInvalidAction |-> "InvalidAction",
    scecInternalError |-> "InternalError",
    scecUnexpectedType |-> "UnexpectedType",
    scecUnexpectedSize |-> "UnexpectedSize"])

ScError == CompatUnion("SCError", "ScErrorType", <<
    CompatArm(<<"sceContract">>, "Contract", "contractCode", Id),
    CompatArm(<<"sceWasmVm", "sceContext", "sceStorage", "sceObject",
        "sceCrypto", "sceEvents", "sceBudget", "sceValue", "sceAuth">>,
        "WasmVm", "code", Class("ScErrorCode"))>>)

UInt128Parts == CompatStruct("UInt128Parts", <<
    Same("hi", Uint64Conv), Same("lo", Uint64Conv)>>)

Int128Parts == CompatStruct("Int128Parts", <<
    Same("hi", Int64Conv), Same("lo", Uint64Conv)>>)

UInt256Parts == CompatStruct("UInt256Parts", <<
    Same("hiHi", Uint64Conv), Same("hiLo", Uint64Conv),
    Same("loHi", Uint64Conv), Same("loLo", Uint64Conv)>>)

Int256Parts == CompatStruct("Int256Parts", <<
    Same("hiHi", Int64Conv), Same("hiLo", Uint64Conv),
    Same("loHi", Uint64Conv), Same("loLo", Uint64Conv)>>)

ContractExecutableType == CompatEnum("ContractExecutableType", [
    contractExecutableWasm |-> "Wasm",
    contractExecutableStellarAsset |-> "StellarAsset"])

Hash == CompatTypedef("Hash", BufferConv)

ContractExecutable == CompatUnion("ContractExecutable",
    "ContractExecutableType", <<
    CompatArm(<<"contractExecutableWasm">>, "Wasm", "wasmHash", Id),
    CompatVoid(<<"contractExecutableStellarAsset">>, "StellarAsset")>>)

ScAddressType == CompatEnum("SCAddressType", [
    scAddressTypeAccount |-> "Account", scAddressTypeContract |-> "Contract",
    scAddressTypeMuxedAccount |-> "MuxedAccount",
    scAddressTypeClaimableBalance |-> "ClaimableBalance",
    scAddressTypeLiquidityPool |-> "LiquidityPool"])

Uint256 == CompatTypedef("Uint256", Id)

MuxedEd25519Account == CompatStruct("MuxedEd25519Account", <<
    Same("id", Uint64Conv), Same("ed25519", Id)>>)

PublicKeyType == CompatEnum("PublicKeyType", [
    publicKeyTypeEd25519 |-> "PublicKeyTypeEd25519"])

PublicKey == CompatUnion("PublicKey", "PublicKeyType", <<
    CompatArm(<<"publicKeyTypeEd25519">>, "PublicKeyTypeEd25519", "ed25519",
        Id)>>)

ClaimableBalanceIdType == CompatEnum("ClaimableBalanceIDType", [
    claimableBalanceIdTypeV0 |-> "ClaimableBalanceIdTypeV0"])

ClaimableBalanceId == CompatUnion("ClaimableBalanceID",
    "ClaimableBalanceIdType", <<
    CompatArm(<<"claimableBalanceIdTypeV0">>, "ClaimableBalanceIdTypeV0", "v0",
        Id)>>)

ScAddress == CompatUnion("SCAddress", "ScAddressType", <<
    CompatArm(<<"scAddressTypeAccount">>, "Account", "accountId",
        Class("PublicKey")),
    CompatArm(<<"scAddressTypeContract">>, "Contract", "contractId", Id),
    CompatArm(<<"scAddressTypeMuxedAccount">>, "MuxedAccount", "muxedAccount",
        Class("MuxedEd25519Account")),
    CompatArm(<<"scAddressTypeClaimableBalance">>, "ClaimableBalance",
        "claimableBalanceId", Class("ClaimableBalanceId")),
    CompatArm(<<"scAddressTypeLiquidityPool">>, "LiquidityPool",
        "liquidityPoolId", BufferConv)>>)

Int32 == CompatTypedef("Int32", Id)
ScBytes == CompatTypedef("SCBytes", Id)
ScString == CompatTypedef("SCString", Id)

ScMapEntry == CompatStruct("SCMapEntry", <<
    Same("key", LazyConv("ScVal")), Same("val", LazyConv("ScVal"))>>)

ScMap == CompatTypedef("SCMap", ArrayConv(Class("ScMapEntry")))

ScContractInstance == CompatStruct("SCContractInstance", <<
    Same("executable", Class("ContractExecutable")),
    Same("storage", OptionConv(ArrayConv(Class("ScMapEntry"))))>>)

ScNonceKey == CompatStruct("SCNonceKey", <<Same("nonce", Int64Conv)>>)

ScVal == CompatUnion("SCVal", "ScValType", <<
    CompatArm(<<"scvBool">>, "Bool", "b", Id),
    CompatVoid(<<"scvVoid">>, "Void"),
    CompatArm(<<"scvError">>, "Error", "error", Class("ScError")),
    CompatArm(<<"scvU32">>, "U32", "u32", Id),
    CompatArm(<<"scvI32">>, "I32", "i32", Id),
    CompatArm(<<"scvU64">>, "U64", "u64", Uint64Conv),
    CompatArm(<<"scvI64">>, "I64", "i64", Int64Conv),
    CompatArm(<<"scvTimepoint">>, "Timepoint", "timepoint", Uint64Conv),
    CompatArm(<<"scvDuration">>, "Duration", "duration", Uint64Conv),
    CompatArm(<<"scvU128">>, "U128", "u128", Class("UInt128Parts")),
    CompatArm(<<"scvI128">>, "I128", "i128", Class("Int128Parts")),
    CompatArm(<<"scvU256">>, "U256", "u256", Class("UInt256Parts")),
    CompatArm(<<"scvI256">>, "I256", "i256", Class("Int256Parts")),
    CompatArm(<<"scvBytes">>, "Bytes", "bytes", Id),
    CompatArm(<<"scvString">>, "String", "str", Id),
    CompatArm(<<"scvSymbol">>, "Symbol", "sym", Id),
    CompatArm(<<"scvVec">>, "Vec", "vec",
        OptionConv(ArrayConv(LazyConv("ScVal")))),
    CompatArm(<<"scvMap">>, "Map", "map",
        OptionConv(ArrayConv(Class("ScMapEntry")))),
    CompatArm(<<"scvAddress">>, "Address", "address", Class("ScAddress")),
    CompatArm(<<"scvContractInstance">>, "ContractInstance", "instance",
        Class("ScContractInstance")),
    CompatVoid(<<"scvLedgerKeyContractInstance">>,
        "LedgerKeyContractInstance"),
    CompatArm(<<"scvLedgerKeyNonce">>, "LedgerKeyNonce", "nonceKey",
        Class("ScNonceKey"))>>)

ScVec == CompatTypedef("SCVec", ArrayConv(LazyConv("ScVal")))
UpgradeType == CompatTypedef("UpgradeType", Id)

StellarValueType == CompatEnum("StellarValueType", [
    stellarValueBasic |-> "Basic", stellarValueSigned |-> "Signed"])

Signature == CompatTypedef("Signature", Id)

LedgerCloseValueSignature == CompatStruct("LedgerCloseValueSignature", <<
    Renamed("nodeId", "nodeID", Class("PublicKey")), Same("signature", Id)>>)

StellarValueExt == CompatUnion("StellarValueExt", "StellarValueType", <<
    CompatVoid(<<"stellarValueBasic">>, "Basic"),
    CompatArm(<<"stellarValueSigned">>, "Signed", "lcValueSignature",
        Class("LedgerCloseValueSignature"))>>)

StellarValue == CompatStruct("StellarValue", <<
    Same("txSetHash", Id), Same("closeTime", Uint64Conv),
    Same("upgrades", ArrayConv(Id)), Same("ext", Class("StellarValueExt"))>>)

LedgerHeaderExtensionV1Ext == CompatUnion("LedgerHeaderExtensionV1Ext", None,
    <<
    CompatVoid(<<0>>, 0)>>)

LedgerHeaderExtensionV1 == CompatStruct("LedgerHeaderExtensionV1", <<
    Same("flags", Id), Same("ext", Class("LedgerHeaderExtensionV1Ext"))>>)

LedgerHeaderExt == CompatUnion("LedgerHeaderExt", None, <<
    CompatVoid(<<0>>, 0),
    CompatArm(<<1>>, 1, "v1", Class("LedgerHeaderExtensionV1"))>>)

LedgerHeader == CompatStruct("LedgerHeader", <<
    Same("ledgerVersion", Id), Same("previousLedgerHash", Id),
    Same("scpValue", Class("StellarValue")), Same("txSetResultHash", Id),
    Same("bucketListHash", Id), Same("ledgerSeq", Id),
    Same("totalCoins", Int64Conv), Same("feePool", Int64Conv),
    Same("inflationSeq", Id), Same("idPool", Uint64Conv), Same("baseFee", Id),
    Same("baseReserve", Id), Same("maxTxSetSize", Id),
    Same("skipList", ArrayConv(Id)), Same("ext", Class("LedgerHeaderExt"))>>)

LedgerHeaderHistoryEntryExt == CompatUnion("LedgerHeaderHistoryEntryExt", None,
    <<
    CompatVoid(<<0>>, 0)>>)

LedgerHeaderHistoryEntry == CompatStruct("LedgerHeaderHistoryEntry", <<
    Same("hash", Id), Same("header", Class("LedgerHeader")),
    Same("ext", Class("LedgerHeaderHistoryEntryExt"))>>)

EnvelopeType == CompatEnum("EnvelopeType", [
    envelopeTypeTxV0 |-> "TxV0", envelopeTypeScp |-> "Scp",
    envelopeTypeTx |-> "Tx", envelopeTypeAuth |-> "Auth",
    envelopeTypeScpvalue |-> "Scpvalue", envelopeTypeTxFeeBump |-> "TxFeeBump",
    envelopeTypeOpId |-> "OpId",
    envelopeTypePoolRevokeOpId |-> "PoolRevokeOpId",
    envelopeTypeContractId |-> "ContractId",
    envelopeTypeSorobanAuthorization |-> "SorobanAuthorization"])

TimeBounds == CompatStruct("TimeBounds", <<
    Same("minTime", Uint64Conv), Same("maxTime", Uint64Conv)>>)

MemoType == CompatEnum("MemoType", [
    memoNone |-> "None", memoText |-> "Text", memoId |-> "Id",
    memoHash |-> "Hash", memoReturn |-> "Return"])

Memo == CompatUnion("Memo", "MemoType", <<
    CompatVoid(<<"memoNone">>, "None"),
    CompatArm(<<"memoText">>, "Text", "text", MemoTextConv),
    CompatArm(<<"memoId">>, "Id", "id", Uint64Conv),
    CompatArm(<<"memoHash">>, "Hash", "hash", BufferConv),
    CompatArm(<<"memoReturn">>, "Return", "retHash", BufferConv)>>)

CryptoKeyType == CompatEnum("CryptoKeyType", [
    keyTypeEd25519 |-> "Ed25519", keyTypePreAuthTx |-> "PreAuthTx",
    keyTypeHashX |-> "HashX",
    keyTypeEd25519SignedPayload |-> "Ed25519SignedPayload",
    keyTypeMuxedEd25519 |-> "MuxedEd25519"])

MuxedAccountMed25519 == CompatStruct("MuxedAccountMed25519", <<
    Same("id", Uint64Conv), Same("ed25519", Id)>>)

MuxedAccount == CompatUnion("MuxedAccount", "CryptoKeyType", <<
    CompatArm(<<"keyTypeEd25519">>, "Ed25519", "ed25519", Id),
    CompatArm(<<"keyTypeMuxedEd25519">>, "MuxedEd25519", "med25519",
        Class("MuxedAccountMed25519"))>>)

OperationType == CompatEnum("OperationType", [
    createAccount |-> "CreateAccount", payment |-> "Payment",
    pathPaymentStrictReceive |-> "PathPaymentStrictReceive",
    manageSellOffer |-> "ManageSellOffer",
    createPassiveSellOffer |-> "CreatePassiveSellOffer",
    setOptions |-> "SetOptions", changeTrust |-> "ChangeTrust",
    allowTrust |-> "AllowTrust", accountMerge |-> "AccountMerge",
    inflation |-> "Inflation", manageData |-> "ManageData",
    bumpSequence |-> "BumpSequence", manageBuyOffer |-> "ManageBuyOffer",
    pathPaymentStrictSend |-> "PathPaymentStrictSend",
    createClaimableBalance |-> "CreateClaimableBalance",
    claimClaimableBalance |-> "ClaimClaimableBalance",
    beginSponsoringFutureReserves |-> "BeginSponsoringFutureReserves",
    endSponsoringFutureReserves |-> "EndSponsoringFutureReserves",
    revokeSponsorship |-> "RevokeSponsorship", clawback |-> "Clawback",
    clawbackClaimableBalance |-> "ClawbackClaimableBalance",
    setTrustLineFlags |-> "SetTrustLineFlags",
    liquidityPoolDeposit |-> "LiquidityPoolDeposit",
    liquidityPoolWithdraw |-> "LiquidityPoolWithdraw",
    invokeHostFunction |-> "InvokeHostFunction",
    extendFootprintTtl |-> "ExtendFootprintTtl",
    restoreFootprint |-> "RestoreFootprint"])

CreateAccountOp == CompatStruct("CreateAccountOp", <<
    Same("destination", Class("PublicKey")),
    Same("startingBalance", Int64Conv)>>)

AssetType == CompatEnum("AssetType", [
    assetTypeNative |-> "Native",
    assetTypeCreditAlphanum4 |-> "CreditAlphanum4",
    assetTypeCreditAlphanum12 |-> "CreditAlphanum12",
    assetTypePoolShare |-> "PoolShare"])

AssetCode4 == CompatTypedef("AssetCode4", Id)

AlphaNum4 == CompatStruct("AlphaNum4", <<
    Same("assetCode", OpaqueStr), Same("issuer", Class("PublicKey"))>>)

AssetCode12 == CompatTypedef("AssetCode12", Id)

AlphaNum12 == CompatStruct("AlphaNum12", <<
    Same("assetCode", OpaqueStr), Same("issuer", Class("PublicKey"))>>)

Asset == CompatUnion("Asset", "AssetType", <<
    CompatVoid(<<"assetTypeNative">>, "Native"),
    CompatArm(<<"assetTypeCreditAlphanum4">>, "CreditAlphanum4", "alphaNum4",
        Class("AlphaNum4")),
    CompatArm(<<"assetTypeCreditAlphanum12">>, "CreditAlphanum12",
        "alphaNum12", Class("AlphaNum12"))>>)

PaymentOp == CompatStruct("PaymentOp", <<
    Same("destination", Class("MuxedAccount")), Same("asset", Class("Asset")),
    Same("amount", Int64Conv)>>)

PathPaymentStrictReceiveOp == CompatStruct("PathPaymentStrictReceiveOp", <<
    Same("sendAsset", Class("Asset")), Same("sendMax", Int64Conv),
    Same("destination", Class("MuxedAccount")),
    Same("destAsset", Class("Asset")), Same("destAmount", Int64Conv),
    Same("path", ArrayConv(Class("Asset")))>>)

Price == CompatStruct("Price", <<Same("n", Id), Same("d", Id)>>)

ManageSellOfferOp == CompatStruct("ManageSellOfferOp", <<
    Same("selling", Class("Asset")), Same("buying", Class("Asset")),
    Same("amount", Int64Conv), Same("price", Class("Price")),
    Renamed("offerId", "offerID", Int64Conv)>>)

CreatePassiveSellOfferOp == CompatStruct("CreatePassiveSellOfferOp", <<
    Same("selling", Class("Asset")), Same("buying", Class("Asset")),
    Same("amount", Int64Conv), Same("price", Class("Price"))>>)

String32 == CompatTypedef("String32", Id)

SignerKeyType == CompatEnum("SignerKeyType", [
    signerKeyTypeEd25519 |-> "Ed25519", signerKeyTypePreAuthTx |-> "PreAuthTx",
    signerKeyTypeHashX |-> "HashX",
    signerKeyTypeEd25519SignedPayload |-> "Ed25519SignedPayload"])

SignerKeyEd25519SignedPayload == CompatStruct("SignerKeyEd25519SignedPayload",
    <<
    Same("ed25519", Id), Same("payload", Id)>>)

SignerKey == CompatUnion("SignerKey", "SignerKeyType", <<
    CompatArm(<<"signerKeyTypeEd25519">>, "Ed25519", "ed25519", Id),
    CompatArm(<<"signerKeyTypePreAuthTx">>, "PreAuthTx", "preAuthTx", Id),
    CompatArm(<<"signerKeyTypeHashX">>, "HashX", "hashX", Id),
    CompatArm(<<"signerKeyTypeEd25519SignedPayload">>, "Ed25519SignedPayload",
        "ed25519SignedPayload", Class("SignerKeyEd25519SignedPayload"))>>)

Signer == CompatStruct("Signer", <<
    Same("key", Class("SignerKey")), Same("weight", Id)>>)

SetOptionsOp == CompatStruct("SetOptionsOp", <<
    Same("inflationDest", OptionConv(Class("PublicKey"))),
    Same("clearFlags", OptionConv(Id)), Same("setFlags", OptionConv(Id)),
    Same("masterWeight", OptionConv(Id)), Same("lowThreshold", OptionConv(Id)),
    Same("medThreshold", OptionConv(Id)),
    Same("highThreshold", OptionConv(Id)), Same("homeDomain", OptionConv(Id)),
    Same("signer", OptionConv(Class("Signer")))>>)

LiquidityPoolType == CompatEnum("LiquidityPoolType", [
    liquidityPoolConstantProduct |-> "LiquidityPoolConstantProduct"])

LiquidityPoolConstantProductParameters ==
    CompatStruct("LiquidityPoolConstantProductParameters", <<
    Same("assetA", Class("Asset")), Same("assetB", Class("Asset")),
    Same("fee", Id)>>)

LiquidityPoolParameters == CompatUnion("LiquidityPoolParameters",
    "LiquidityPoolType", <<
    CompatArm(<<"liquidityPoolConstantProduct">>,
        "LiquidityPoolConstantProduct", "constantProduct",
        Class("LiquidityPoolConstantProductParameters"))>>)

ChangeTrustAsset == CompatUnion("ChangeTrustAsset", "AssetType", <<
    CompatVoid(<<"assetTypeNative">>, "Native"),
    CompatArm(<<"assetTypeCreditAlphanum4">>, "CreditAlphanum4", "alphaNum4",
        Class("AlphaNum4")),
    CompatArm(<<"assetTypeCreditAlphanum12">>, "CreditAlphanum12",
        "alphaNum12", Class("AlphaNum12")),
    CompatArm(<<"assetTypePoolShare">>, "PoolShare", "liquidityPool",
        Class("LiquidityPoolParameters"))>>)

ChangeTrustOp == CompatStruct("ChangeTrustOp", <<
    Same("line", Class("ChangeTrustAsset")), Same("limit", Int64Conv)>>)

AssetCode == CompatUnion("AssetCode", "AssetType", <<
    CompatArm(<<"assetTypeCreditAlphanum4">>, "CreditAlphanum4", "assetCode4",
        Id),
    CompatArm(<<"assetTypeCreditAlphanum12">>, "CreditAlphanum12",
        "assetCode12", Id)>>)

AllowTrustOp == CompatStruct("AllowTrustOp", <<
    Same("trustor", Class("PublicKey")), Same("asset", Class("AssetCode")),
    Same("authorize", Id)>>)

String64 == CompatTypedef("String64", Id)
DataValue == CompatTypedef("DataValue", Id)

ManageDataOp == CompatStruct("ManageDataOp", <<
    Same("dataName", Id), Same("dataValue", OptionConv(Id))>>)

BumpSequenceOp == CompatStruct("BumpSequenceOp", <<Same("bumpTo", Int64Conv)>>)

ManageBuyOfferOp == CompatStruct("ManageBuyOfferOp", <<
    Same("selling", Class("Asset")), Same("buying", Class("Asset")),
    Same("buyAmount", Int64Conv), Same("price", Class("Price")),
    Renamed("offerId", "offerID", Int64Conv)>>)

PathPaymentStrictSendOp == CompatStruct("PathPaymentStrictSendOp", <<
    Same("sendAsset", Class("Asset")), Same("sendAmount", Int64Conv),
    Same("destination", Class("MuxedAccount")),
    Same("destAsset", Class("Asset")), Same("destMin", Int64Conv),
    Same("path", ArrayConv(Class("Asset")))>>)

ClaimantType == CompatEnum("ClaimantType", [
    claimantTypeV0 |-> "ClaimantTypeV0"])

ClaimPredicateType == CompatEnum("ClaimPredicateType", [
    claimPredicateUnconditional |-> "Unconditional",
    claimPredicateAnd |-> "And", claimPredicateOr |-> "Or",
    claimPredicateNot |-> "Not",
    claimPredicateBeforeAbsoluteTime |-> "BeforeAbsoluteTime",
    claimPredicateBeforeRelativeTime |-> "BeforeRelativeTime"])

ClaimPredicate == CompatUnion("ClaimPredicate", "ClaimPredicateType", <<
    CompatVoid(<<"claimPredicateUnconditional">>, "Unconditional"),
    CompatArm(<<"claimPredicateAnd">>, "And", "andPredicates",
        ArrayConv(LazyConv("ClaimPredicate"))),
    CompatArm(<<"claimPredicateOr">>, "Or", "orPredicates",
        ArrayConv(LazyConv("ClaimPredicate"))),
    CompatArm(<<"claimPredicateNot">>, "Not", "notPredicate",
        OptionConv(LazyConv("ClaimPredicate"))),
    CompatArm(<<"claimPredicateBeforeAbsoluteTime">>, "BeforeAbsoluteTime",
        "absBefore", Int64Conv),
    CompatArm(<<"claimPredicateBeforeRelativeTime">>, "BeforeRelativeTime",
        "relBefore", Int64Conv)>>)

ClaimantV0 == CompatStruct("ClaimantV0", <<
    Same("destination", Class("PublicKey")),
    Same("predicate", LazyConv("ClaimPredicate"))>>)

Claimant == CompatUnion("Claimant", "ClaimantType", <<
    CompatArm(<<"claimantTypeV0">>, "ClaimantTypeV0", "v0",
        Class("ClaimantV0"))>>)

CreateClaimableBalanceOp == CompatStruct("CreateClaimableBalanceOp", <<
    Same("asset", Class("Asset")), Same("amount", Int64Conv),
    Same("claimants", ArrayConv(Class("Claimant")))>>)

ClaimClaimableBalanceOp == CompatStruct("ClaimClaimableBalanceOp", <<
    Renamed("balanceId", "balanceID", Class("ClaimableBalanceId"))>>)

BeginSponsoringFutureReservesOp ==
    CompatStruct("BeginSponsoringFutureReservesOp", <<
    Renamed("sponsoredId", "sponsoredID", Class("PublicKey"))>>)

RevokeSponsorshipType == CompatEnum("RevokeSponsorshipType", [
    revokeSponsorshipLedgerEntry |-> "LedgerEntry",
    revokeSponsorshipSigner |-> "Signer"])

LedgerEntryType == CompatEnum("LedgerEntryType", [
    account |-> "Account", trustline |-> "Trustline", offer |-> "Offer",
    data |-> "Data", claimableBalance |-> "ClaimableBalance",
    liquidityPool |-> "LiquidityPool", contractData |-> "ContractData",
    contractCode |-> "ContractCode", configSetting |-> "ConfigSetting",
    ttl |-> "Ttl"])

LedgerKeyAccount == CompatStruct("LedgerKeyAccount", <<
    Renamed("accountId", "accountID", Class("PublicKey"))>>)

TrustLineAsset == CompatUnion("TrustLineAsset", "AssetType", <<
    CompatVoid(<<"assetTypeNative">>, "Native"),
    CompatArm(<<"assetTypeCreditAlphanum4">>, "CreditAlphanum4", "alphaNum4",
        Class("AlphaNum4")),
    CompatArm(<<"assetTypeCreditAlphanum12">>, "CreditAlphanum12",
        "alphaNum12", Class("AlphaNum12")),
    CompatArm(<<"assetTypePoolShare">>, "PoolShare", "liquidityPoolId",
        BufferConv)>>)

LedgerKeyTrustLine == CompatStruct("LedgerKeyTrustLine", <<
    Renamed("accountId", "accountID", Class("PublicKey")),
    Same("asset", Class("TrustLineAsset"))>>)

LedgerKeyOffer == CompatStruct("LedgerKeyOffer", <<
    Renamed("sellerId", "sellerID", Class("PublicKey")),
    Renamed("offerId", "offerID", Int64Conv)>>)

LedgerKeyData == CompatStruct("LedgerKeyData", <<
    Renamed("accountId", "accountID", Class("PublicKey")),
    Same("dataName", Id)>>)

LedgerKeyClaimableBalance == CompatStruct("LedgerKeyClaimableBalance", <<
    Renamed("balanceId", "balanceID", Class("ClaimableBalanceId"))>>)

LedgerKeyLiquidityPool == CompatStruct("LedgerKeyLiquidityPool", <<
    Renamed("liquidityPoolId", "liquidityPoolID", BufferConv)>>)

ContractDataDurability == CompatEnum("ContractDataDurability", [
    temporary |-> "Temporary", persistent |-> "Persistent"])

LedgerKeyContractData == CompatStruct("LedgerKeyContractData", <<
    Same("contract", Class("ScAddress")), Same("key", LazyConv("ScVal")),
    Same("durability", Class("ContractDataDurability"))>>)

LedgerKeyContractCode == CompatStruct("LedgerKeyContractCode", <<
    Same("hash", Id)>>)

LedgerKeyConfigSetting == CompatStruct("LedgerKeyConfigSetting", <<
    Renamed("configSettingId", "configSettingID", Class("ConfigSettingId"))>>)

LedgerKeyTtl == CompatStruct("LedgerKeyTtl", <<Same("keyHash", Id)>>)

LedgerKey == CompatUnion("LedgerKey", "LedgerEntryType", <<
    CompatArm(<<"account">>, "Account", "account", Class("LedgerKeyAccount")),
    CompatArm(<<"trustline">>, "Trustline", "trustLine",
        Class("LedgerKeyTrustLine")),
    CompatArm(<<"offer">>, "Offer", "offer", Class("LedgerKeyOffer")),
    CompatArm(<<"data">>, "Data", "data", Class("LedgerKeyData")),
    CompatArm(<<"claimableBalance">>, "ClaimableBalance", "claimableBalance",
        Class("LedgerKeyClaimableBalance")),
    CompatArm(<<"liquidityPool">>, "LiquidityPool", "liquidityPool",
        Class("LedgerKeyLiquidityPool")),
    CompatArm(<<"contractData">>, "ContractData", "contractData",
        Class("LedgerKeyContractData")),
    CompatArm(<<"contractCode">>, "ContractCode", "contractCode",
        Class("LedgerKeyContractCode")),
    CompatArm(<<"configSetting">>, "ConfigSetting", "configSetting",
        Class("LedgerKeyConfigSetting")),
    CompatArm(<<"ttl">>, "Ttl", "ttl", Class("LedgerKeyTtl"))>>)

RevokeSponsorshipOpSigner == CompatStruct("RevokeSponsorshipOpSigner", <<
    Renamed("accountId", "accountID", Class("PublicKey")),
    Same("signerKey", Class("SignerKey"))>>)

RevokeSponsorshipOp == CompatUnion("RevokeSponsorshipOp",
    "RevokeSponsorshipType", <<
    CompatArm(<<"revokeSponsorshipLedgerEntry">>, "LedgerEntry", "ledgerKey",
        Class("LedgerKey")),
    CompatArm(<<"revokeSponsorshipSigner">>, "Signer", "signer",
        Class("RevokeSponsorshipOpSigner"))>>)

ClawbackOp == CompatStruct("ClawbackOp", <<
    Same("asset", Class("Asset")), Same("from", Class("MuxedAccount")),
    Same("amount", Int64Conv)>>)

ClawbackClaimableBalanceOp == CompatStruct("ClawbackClaimableBalanceOp", <<
    Renamed("balanceId", "balanceID", Class("ClaimableBalanceId"))>>)

SetTrustLineFlagsOp == CompatStruct("SetTrustLineFlagsOp", <<
    Same("trustor", Class("PublicKey")), Same("asset", Class("Asset")),
    Same("clearFlags", Id), Same("setFlags", Id)>>)

LiquidityPoolDepositOp == CompatStruct("LiquidityPoolDepositOp", <<
    Renamed("liquidityPoolId", "liquidityPoolID", BufferConv),
    Same("maxAmountA", Int64Conv), Same("maxAmountB", Int64Conv),
    Same("minPrice", Class("Price")), Same("maxPrice", Class("Price"))>>)

LiquidityPoolWithdrawOp == CompatStruct("LiquidityPoolWithdrawOp", <<
    Renamed("liquidityPoolId", "liquidityPoolID", BufferConv),
    Same("amount", Int64Conv), Same("minAmountA", Int64Conv),
    Same("minAmountB", Int64Conv)>>)

HostFunctionType == CompatEnum("HostFunctionType", [
    hostFunctionTypeInvokeContract |-> "InvokeContract",
    hostFunctionTypeCreateContract |-> "CreateContract",
    hostFunctionTypeUploadContractWasm |-> "UploadContractWasm",
    hostFunctionTypeCreateContractV2 |-> "CreateContractV2"])

InvokeContractArgs == CompatStruct("InvokeContractArgs", <<
    Same("contractAddress", Class("ScAddress")), Same("functionName", Id),
    Same("args", ArrayConv(LazyConv("ScVal")))>>)

ContractIdPreimageType == CompatEnum("ContractIDPreimageType", [
    contractIdPreimageFromAddress |-> "Address",
    contractIdPreimageFromAsset |-> "Asset"])

ContractIdPreimageFromAddress == CompatStruct("ContractIDPreimageFromAddress",
    <<
    Same("address", Class("ScAddress")), Same("salt", Id)>>)

ContractIdPreimage == CompatUnion("ContractIDPreimage",
    "ContractIdPreimageType", <<
    CompatArm(<<"contractIdPreimageFromAddress">>, "Address", "fromAddress",
        Class("ContractIdPreimageFromAddress")),
    CompatArm(<<"contractIdPreimageFromAsset">>, "Asset", "fromAsset",
        Class("Asset"))>>)

CreateContractArgs == CompatStruct("CreateContractArgs", <<
    Renamed("contractIdPreimage", "contractIDPreimage",
        Class("ContractIdPreimage")),
    Same("executable", Class("ContractExecutable"))>>)

CreateContractArgsV2 == CompatStruct("CreateContractArgsV2", <<
    Renamed("contractIdPreimage", "contractIDPreimage",
        Class("ContractIdPreimage")),
    Same("executable", Class("ContractExecutable")),
    Same("constructorArgs", ArrayConv(LazyConv("ScVal")))>>)

HostFunction == CompatUnion("HostFunction", "HostFunctionType", <<
    CompatArm(<<"hostFunctionTypeInvokeContract">>, "InvokeContract",
        "invokeContract", Class("InvokeContractArgs")),
    CompatArm(<<"hostFunctionTypeCreateContract">>, "CreateContract",
        "createContract", Class("CreateContractArgs")),
    CompatArm(<<"hostFunctionTypeUploadContractWasm">>, "UploadContractWasm",
        "wasm", Id),
    CompatArm(<<"hostFunctionTypeCreateContractV2">>, "CreateContractV2",
        "createContractV2", Class("CreateContractArgsV2"))>>)

SorobanCredentialsType == CompatEnum("SorobanCredentialsType", [
    sorobanCredentialsSourceAccount |-> "SourceAccount",
    sorobanCredentialsAddress |-> "Address"])

SorobanAddressCredentials == CompatStruct("SorobanAddressCredentials", <<
    Same("address", Class("ScAddress")), Same("nonce", Int64Conv),
    Same("signatureExpirationLedger", Id),
    Same("signature", LazyConv("ScVal"))>>)

SorobanCredentials == CompatUnion("SorobanCredentials",
    "SorobanCredentialsType", <<
    CompatVoid(<<"sorobanCredentialsSourceAccount">>, "SourceAccount"),
    CompatArm(<<"sorobanCredentialsAddress">>, "Address", "address",
        Class("SorobanAddressCredentials"))>>)

SorobanAuthorizedFunctionType == CompatEnum("SorobanAuthorizedFunctionType", [
    sorobanAuthorizedFunctionTypeContractFn |-> "ContractFn",
    sorobanAuthorizedFunctionTypeCreateContractHostFn |->
        "CreateContractHostFn",
    sorobanAuthorizedFunctionTypeCreateContractV2HostFn |->
        "CreateContractV2HostFn"])

SorobanAuthorizedFunction == CompatUnion("SorobanAuthorizedFunction",
    "SorobanAuthorizedFunctionType", <<
    CompatArm(<<"sorobanAuthorizedFunctionTypeContractFn">>, "ContractFn",
        "contractFn", Class("InvokeContractArgs")),
    CompatArm(<<"sorobanAuthorizedFunctionTypeCreateContractHostFn">>,
        "CreateContractHostFn", "createContractHostFn",
        Class("CreateContractArgs")),
    CompatArm(<<"sorobanAuthorizedFunctionTypeCreateContractV2HostFn">>,
        "CreateContractV2HostFn", "createContractV2HostFn",
        Class("CreateContractArgsV2"))>>)

SorobanAuthorizedInvocation == CompatStruct("SorobanAuthorizedInvocation", <<
    Same("function", Class("SorobanAuthorizedFunction")),
    Same("subInvocations",
        ArrayConv(LazyConv("SorobanAuthorizedInvocation")))>>)

SorobanAuthorizationEntry == CompatStruct("SorobanAuthorizationEntry", <<
    Same("credentials", Class("SorobanCredentials")),
    Same("rootInvocation", LazyConv("SorobanAuthorizedInvocation"))>>)

InvokeHostFunctionOp == CompatStruct("InvokeHostFunctionOp", <<
    Same("hostFunction", Class("HostFunction")),
    Same("auth", ArrayConv(Class("SorobanAuthorizationEntry")))>>)

ExtendFootprintTtlOp == CompatStruct("ExtendFootprintTTLOp", <<
    Same("ext", Class("ExtensionPoint")), Same("extendTo", Id)>>)

RestoreFootprintOp == CompatStruct("RestoreFootprintOp", <<
    Same("ext", Class("ExtensionPoint"))>>)

OperationBody == CompatUnion("OperationBody", "OperationType", <<
    CompatArm(<<"createAccount">>, "CreateAccount", "createAccountOp",
        Class("CreateAccountOp")),
    CompatArm(<<"payment">>, "Payment", "paymentOp", Class("PaymentOp")),
    CompatArm(<<"pathPaymentStrictReceive">>, "PathPaymentStrictReceive",
        "pathPaymentStrictReceiveOp", Class("PathPaymentStrictReceiveOp")),
    CompatArm(<<"manageSellOffer">>, "ManageSellOffer", "manageSellOfferOp",
        Class("ManageSellOfferOp")),
    CompatArm(<<"createPassiveSellOffer">>, "CreatePassiveSellOffer",
        "createPassiveSellOfferOp", Class("CreatePassiveSellOfferOp")),
    CompatArm(<<"setOptions">>, "SetOptions", "setOptionsOp",
        Class("SetOptionsOp")),
    CompatArm(<<"changeTrust">>, "ChangeTrust", "changeTrustOp",
        Class("ChangeTrustOp")),
    CompatArm(<<"allowTrust">>, "AllowTrust", "allowTrustOp",
        Class("AllowTrustOp")),
    CompatArm(<<"accountMerge">>, "AccountMerge", "destination",
        Class("MuxedAccount")),
    CompatVoid(<<"inflation">>, "Inflation"),
    CompatArm(<<"manageData">>, "ManageData", "manageDataOp",
        Class("ManageDataOp")),
    CompatArm(<<"bumpSequence">>, "BumpSequence", "bumpSequenceOp",
        Class("BumpSequenceOp")),
    CompatArm(<<"manageBuyOffer">>, "ManageBuyOffer", "manageBuyOfferOp",
        Class("ManageBuyOfferOp")),
    CompatArm(<<"pathPaymentStrictSend">>, "PathPaymentStrictSend",
        "pathPaymentStrictSendOp", Class("PathPaymentStrictSendOp")),
    CompatArm(<<"createClaimableBalance">>, "CreateClaimableBalance",
        "createClaimableBalanceOp", Class("CreateClaimableBalanceOp")),
    CompatArm(<<"claimClaimableBalance">>, "ClaimClaimableBalance",
        "claimClaimableBalanceOp", Class("ClaimClaimableBalanceOp")),
    CompatArm(<<"beginSponsoringFutureReserves">>,
        "BeginSponsoringFutureReserves", "beginSponsoringFutureReservesOp",
        Class("BeginSponsoringFutureReservesOp")),
    CompatVoid(<<"endSponsoringFutureReserves">>,
        "EndSponsoringFutureReserves"),
    CompatArm(<<"revokeSponsorship">>, "RevokeSponsorship",
        "revokeSponsorshipOp", Class("RevokeSponsorshipOp")),
    CompatArm(<<"clawback">>, "Clawback", "clawbackOp", Class("ClawbackOp")),
    CompatArm(<<"clawbackClaimableBalance">>, "ClawbackClaimableBalance",
        "clawbackClaimableBalanceOp", Class("ClawbackClaimableBalanceOp")),
    CompatArm(<<"setTrustLineFlags">>, "SetTrustLineFlags",
        "setTrustLineFlagsOp", Class("SetTrustLineFlagsOp")),
    CompatArm(<<"liquidityPoolDeposit">>, "LiquidityPoolDeposit",
        "liquidityPoolDepositOp", Class("LiquidityPoolDepositOp")),
    CompatArm(<<"liquidityPoolWithdraw">>, "LiquidityPoolWithdraw",
        "liquidityPoolWithdrawOp", Class("LiquidityPoolWithdrawOp")),
    CompatArm(<<"invokeHostFunction">>, "InvokeHostFunction",
        "invokeHostFunctionOp", Class("InvokeHostFunctionOp")),
    CompatArm(<<"extendFootprintTtl">>, "ExtendFootprintTtl",
        "extendFootprintTtlOp", Class("ExtendFootprintTtlOp")),
    CompatArm(<<"restoreFootprint">>, "RestoreFootprint", "restoreFootprintOp",
        Class("RestoreFootprintOp"))>>)

Operation == CompatStruct("Operation", <<
    Same("sourceAccount", OptionConv(Class("MuxedAccount"))),
    Same("body", Class("OperationBody"))>>)
============================================================================
