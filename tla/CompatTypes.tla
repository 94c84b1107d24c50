----------------------------- MODULE CompatTypes -----------------------------
(***************************************************************************)
(* packages/stellar-base-comp/src/generated: the classes of the compat     *)
(* interface for consensus, ledger close meta, buckets and overlay         *)
(* messages; with the modules it extends, every compat class.              *)
(***************************************************************************)
EXTENDS CompatTypesTransaction

TransactionResultMeta == CompatStruct("TransactionResultMeta", <<
    Same("result", Class("TransactionResultPair")),
    Same("feeProcessing", ArrayConv(Class("LedgerEntryChange"))),
    Same("txApplyProcessing", Class("TransactionMeta"))>>)

LedgerUpgradeType == CompatEnum("LedgerUpgradeType", [
    ledgerUpgradeVersion |-> "Version", ledgerUpgradeBaseFee |-> "BaseFee",
    ledgerUpgradeMaxTxSetSize |-> "MaxTxSetSize",
    ledgerUpgradeBaseReserve |-> "BaseReserve", ledgerUpgradeFlags |-> "Flags",
    ledgerUpgradeConfig |-> "Config",
    ledgerUpgradeMaxSorobanTxSetSize |-> "MaxSorobanTxSetSize"])

ConfigUpgradeSetKey == CompatStruct("ConfigUpgradeSetKey", <<
    Renamed("contractId", "contractID", Id), Same("contentHash", Id)>>)

LedgerUpgrade == CompatUnion("LedgerUpgrade", "LedgerUpgradeType", <<
    CompatArm(<<"ledgerUpgradeVersion">>, "Version", "newLedgerVersion", Id),
    CompatArm(<<"ledgerUpgradeBaseFee">>, "BaseFee", "newBaseFee", Id),
    CompatArm(<<"ledgerUpgradeMaxTxSetSize">>, "MaxTxSetSize",
        "newMaxTxSetSize", Id),
    CompatArm(<<"ledgerUpgradeBaseReserve">>, "BaseReserve", "newBaseReserve",
        Id),
    CompatArm(<<"ledgerUpgradeFlags">>, "Flags", "newFlags", Id),
    CompatArm(<<"ledgerUpgradeConfig">>, "Config", "newConfig",
        Class("ConfigUpgradeSetKey")),
    CompatArm(<<"ledgerUpgradeMaxSorobanTxSetSize">>, "MaxSorobanTxSetSize",
        "newMaxSorobanTxSetSize", Id)>>)

UpgradeEntryMeta == CompatStruct("UpgradeEntryMeta", <<
    Same("upgrade", Class("LedgerUpgrade")),
    Same("changes", ArrayConv(Class("LedgerEntryChange")))>>)

ScpQuorumSet == CompatStruct("SCPQuorumSet", <<
    Same("threshold", Id), Same("validators", ArrayConv(Class("PublicKey"))),
    Same("innerSets", ArrayConv(LazyConv("ScpQuorumSet")))>>)

ScpStatementType == CompatEnum("SCPStatementType", [
    scpStPrepare |-> "Prepare", scpStConfirm |-> "Confirm",
    scpStExternalize |-> "Externalize", scpStNominate |-> "Nominate"])

Value == CompatTypedef("Value", Id)

ScpBallot == CompatStruct("SCPBallot", <<
    Same("counter", Id), Same("value", Id)>>)

ScpStatementPrepare == CompatStruct("SCPStatementPrepare", <<
    Same("quorumSetHash", Id), Same("ballot", Class("ScpBallot")),
    Same("prepared", OptionConv(Class("ScpBallot"))),
    Same("preparedPrime", OptionConv(Class("ScpBallot"))), Same("nC", Id),
    Same("nH", Id)>>)

ScpStatementConfirm == CompatStruct("SCPStatementConfirm", <<
    Same("ballot", Class("ScpBallot")), Same("nPrepared", Id),
    Same("nCommit", Id), Same("nH", Id), Same("quorumSetHash", Id)>>)

ScpStatementExternalize == CompatStruct("SCPStatementExternalize", <<
    Same("commit", Class("ScpBallot")), Same("nH", Id),
    Same("commitQuorumSetHash", Id)>>)

ScpNomination == CompatStruct("SCPNomination", <<
    Same("quorumSetHash", Id), Same("votes", ArrayConv(Id)),
    Same("accepted", ArrayConv(Id))>>)

ScpStatementPledges == CompatUnion("SCPStatementPledges", "ScpStatementType",
    <<
    CompatArm(<<"scpStPrepare">>, "Prepare", "prepare",
        Class("ScpStatementPrepare")),
    CompatArm(<<"scpStConfirm">>, "Confirm", "confirm",
        Class("ScpStatementConfirm")),
    CompatArm(<<"scpStExternalize">>, "Externalize", "externalize",
        Class("ScpStatementExternalize")),
    CompatArm(<<"scpStNominate">>, "Nominate", "nominate",
        Class("ScpNomination"))>>)

ScpStatement == CompatStruct("SCPStatement", <<
    Renamed("nodeId", "nodeID", Class("PublicKey")),
    Same("slotIndex", Uint64Conv),
    Same("pledges", Class("ScpStatementPledges"))>>)

ScpEnvelope == CompatStruct("SCPEnvelope", <<
    Same("statement", Class("ScpStatement")), Same("signature", Id)>>)

LedgerScpMessages == CompatStruct("LedgerSCPMessages", <<
    Same("ledgerSeq", Id), Same("messages", ArrayConv(Class("ScpEnvelope")))>>)

ScpHistoryEntryV0 == CompatStruct("SCPHistoryEntryV0", <<
    Same("quorumSets", ArrayConv(LazyConv("ScpQuorumSet"))),
    Same("ledgerMessages", Class("LedgerScpMessages"))>>)

ScpHistoryEntry == CompatUnion("SCPHistoryEntry", None, <<
    CompatArm(<<0>>, 0, "v0", Class("ScpHistoryEntryV0"))>>)

LedgerCloseMetaV0 == CompatStruct("LedgerCloseMetaV0", <<
    Same("ledgerHeader", Class("LedgerHeaderHistoryEntry")),
    Same("txSet", Class("TransactionSet")),
    Same("txProcessing", ArrayConv(Class("TransactionResultMeta"))),
    Same("upgradesProcessing", ArrayConv(Class("UpgradeEntryMeta"))),
    Same("scpInfo", ArrayConv(Class("ScpHistoryEntry")))>>)

LedgerCloseMetaExtV1 == CompatStruct("LedgerCloseMetaExtV1", <<
    Same("ext", Class("ExtensionPoint")),
    Renamed("sorobanFeeWrite1Kb", "sorobanFeeWrite1KB", Int64Conv)>>)

LedgerCloseMetaExt == CompatUnion("LedgerCloseMetaExt", None, <<
    CompatVoid(<<0>>, 0),
    CompatArm(<<1>>, 1, "v1", Class("LedgerCloseMetaExtV1"))>>)

TxSetComponentType == CompatEnum("TxSetComponentType", [
    txsetCompTxsMaybeDiscountedFee |-> "TxsetCompTxsMaybeDiscountedFee"])

TxSetComponentTxsMaybeDiscountedFee ==
    CompatStruct("TxSetComponentTxsMaybeDiscountedFee", <<
    Same("baseFee", OptionConv(Int64Conv)),
    Renamed("txes", "txs", ArrayConv(Class("TransactionEnvelope")))>>)

TxSetComponent == CompatUnion("TxSetComponent", "TxSetComponentType", <<
    CompatArm(<<"txsetCompTxsMaybeDiscountedFee">>,
        "TxsetCompTxsMaybeDiscountedFee", "txsMaybeDiscountedFee",
        Class("TxSetComponentTxsMaybeDiscountedFee"))>>)

DependentTxCluster == CompatTypedef("DependentTxCluster",
    ArrayConv(Class("TransactionEnvelope")))
ParallelTxExecutionStage == CompatTypedef("ParallelTxExecutionStage",
    ArrayConv(ArrayConv(Class("TransactionEnvelope"))))

ParallelTxsComponent == CompatStruct("ParallelTxsComponent", <<
    Same("baseFee", OptionConv(Int64Conv)),
    Same("executionStages",
        ArrayConv(ArrayConv(ArrayConv(Class("TransactionEnvelope")))))>>)

TransactionPhase == CompatUnion("TransactionPhase", None, <<
    CompatArm(<<0>>, 0, "v0Components", ArrayConv(Class("TxSetComponent"))),
    CompatArm(<<1>>, 1, "parallelTxsComponent",
        Class("ParallelTxsComponent"))>>)

TransactionSetV1 == CompatStruct("TransactionSetV1", <<
    Same("previousLedgerHash", Id),
    Same("phases", ArrayConv(Class("TransactionPhase")))>>)

GeneralizedTransactionSet == CompatUnion("GeneralizedTransactionSet", None, <<
    CompatArm(<<1>>, 1, "v1TxSet", Class("TransactionSetV1"))>>)

LedgerCloseMetaV1 == CompatStruct("LedgerCloseMetaV1", <<
    Same("ext", Class("LedgerCloseMetaExt")),
    Same("ledgerHeader", Class("LedgerHeaderHistoryEntry")),
    Same("txSet", Class("GeneralizedTransactionSet")),
    Same("txProcessing", ArrayConv(Class("TransactionResultMeta"))),
    Same("upgradesProcessing", ArrayConv(Class("UpgradeEntryMeta"))),
    Same("scpInfo", ArrayConv(Class("ScpHistoryEntry"))),
    Same("totalByteSizeOfLiveSorobanState", Uint64Conv),
    Same("evictedKeys", ArrayConv(Class("LedgerKey"))),
    Same("unused", ArrayConv(Class("LedgerEntry")))>>)

TransactionResultMetaV1 == CompatStruct("TransactionResultMetaV1", <<
    Same("ext", Class("ExtensionPoint")),
    Same("result", Class("TransactionResultPair")),
    Same("feeProcessing", ArrayConv(Class("LedgerEntryChange"))),
    Same("txApplyProcessing", Class("TransactionMeta")),
    Same("postTxApplyFeeProcessing", ArrayConv(Class("LedgerEntryChange")))>>)

LedgerCloseMetaV2 == CompatStruct("LedgerCloseMetaV2", <<
    Same("ext", Class("LedgerCloseMetaExt")),
    Same("ledgerHeader", Class("LedgerHeaderHistoryEntry")),
    Same("txSet", Class("GeneralizedTransactionSet")),
    Same("txProcessing", ArrayConv(Class("TransactionResultMetaV1"))),
    Same("upgradesProcessing", ArrayConv(Class("UpgradeEntryMeta"))),
    Same("scpInfo", ArrayConv(Class("ScpHistoryEntry"))),
    Same("totalByteSizeOfLiveSorobanState", Uint64Conv),
    Same("evictedKeys", ArrayConv(Class("LedgerKey")))>>)

LedgerCloseMeta == CompatUnion("LedgerCloseMeta", None, <<
    CompatArm(<<0>>, 0, "v0", Class("LedgerCloseMetaV0")),
    CompatArm(<<1>>, 1, "v1", Class("LedgerCloseMetaV1")),
    CompatArm(<<2>>, 2, "v2", Class("LedgerCloseMetaV2"))>>)

LedgerCloseMetaBatch == CompatStruct("LedgerCloseMetaBatch", <<
    Same("startSequence", Id), Same("endSequence", Id),
    Renamed("ledgerCloseMeta", "ledgerCloseMetas",
        ArrayConv(Class("LedgerCloseMeta")))>>)

StoredTransactionSet == CompatUnion("StoredTransactionSet", None, <<
    CompatArm(<<0>>, 0, "txSet", Class("TransactionSet")),
    CompatArm(<<1>>, 1, "generalizedTxSet",
        Class("GeneralizedTransactionSet"))>>)

StoredDebugTransactionSet == CompatStruct("StoredDebugTransactionSet", <<
    Same("txSet", Class("StoredTransactionSet")), Same("ledgerSeq", Id),
    Same("scpValue", Class("StellarValue"))>>)

PersistedScpStateV0 == CompatStruct("PersistedSCPStateV0", <<
    Same("scpEnvelopes", ArrayConv(Class("ScpEnvelope"))),
    Same("quorumSets", ArrayConv(LazyConv("ScpQuorumSet"))),
    Same("txSets", ArrayConv(Class("StoredTransactionSet")))>>)

PersistedScpStateV1 == CompatStruct("PersistedSCPStateV1", <<
    Same("scpEnvelopes", ArrayConv(Class("ScpEnvelope"))),
    Same("quorumSets", ArrayConv(LazyConv("ScpQuorumSet")))>>)

PersistedScpState == CompatUnion("PersistedSCPState", None, <<
    CompatArm(<<0>>, 0, "v0", Class("PersistedScpStateV0")),
    CompatArm(<<1>>, 1, "v1", Class("PersistedScpStateV1"))>>)

ThresholdIndices == CompatEnum("ThresholdIndexes", [
    thresholdMasterWeight |-> "MasterWeight", thresholdLow |-> "Low",
    thresholdMed |-> "Med", thresholdHigh |-> "High"])

AccountFlags == CompatEnum("AccountFlags", [
    authRequiredFlag |-> "RequiredFlag", authRevocableFlag |-> "RevocableFlag",
    authImmutableFlag |-> "ImmutableFlag",
    authClawbackEnabledFlag |-> "ClawbackEnabledFlag"])

TrustLineFlags == CompatEnum("TrustLineFlags", [
    authorizedFlag |-> "AuthorizedFlag",
    authorizedToMaintainLiabilitiesFlag |->
        "AuthorizedToMaintainLiabilitiesFlag",
    trustlineClawbackEnabledFlag |-> "TrustlineClawbackEnabledFlag"])

OfferEntryFlags == CompatEnum("OfferEntryFlags", [
    passiveFlag |-> "PassiveFlag"])

ClaimableBalanceFlags == CompatEnum("ClaimableBalanceFlags", [
    claimableBalanceClawbackEnabledFlag |->
        "ClaimableBalanceClawbackEnabledFlag"])

BucketListType == CompatEnum("BucketListType", [
    live |-> "Live", hotArchive |-> "HotArchive"])

BucketEntryType == CompatEnum("BucketEntryType", [
    metaentry |-> "Metaentry", liveentry |-> "Liveentry",
    deadentry |-> "Deadentry", initentry |-> "Initentry"])

HotArchiveBucketEntryType == CompatEnum("HotArchiveBucketEntryType", [
    hotArchiveMetaentry |-> "Metaentry", hotArchiveArchived |-> "Archived",
    hotArchiveLive |-> "Live"])

BucketMetadataExt == CompatUnion("BucketMetadataExt", None, <<
    CompatVoid(<<0>>, 0),
    CompatArm(<<1>>, 1, "bucketListType", Class("BucketListType"))>>)

BucketMetadata == CompatStruct("BucketMetadata", <<
    Same("ledgerVersion", Id), Same("ext", Class("BucketMetadataExt"))>>)

BucketEntry == CompatUnion("BucketEntry", "BucketEntryType", <<
    CompatArm(<<"liveentry", "initentry">>, "Liveentry", "liveEntry",
        Class("LedgerEntry")),
    CompatArm(<<"deadentry">>, "Deadentry", "deadEntry", Class("LedgerKey")),
    CompatArm(<<"metaentry">>, "Metaentry", "metaEntry",
        Class("BucketMetadata"))>>)

HotArchiveBucketEntry == CompatUnion("HotArchiveBucketEntry",
    "HotArchiveBucketEntryType", <<
    CompatArm(<<"hotArchiveArchived">>, "Archived", "archivedEntry",
        Class("LedgerEntry")),
    CompatArm(<<"hotArchiveLive">>, "Live", "key", Class("LedgerKey")),
    CompatArm(<<"hotArchiveMetaentry">>, "Metaentry", "metaEntry",
        Class("BucketMetadata"))>>)

LedgerHeaderFlags == CompatEnum("LedgerHeaderFlags", [
    disableLiquidityPoolTradingFlag |-> "TradingFlag",
    disableLiquidityPoolDepositFlag |-> "DepositFlag",
    disableLiquidityPoolWithdrawalFlag |-> "WithdrawalFlag"])

ConfigUpgradeSet == CompatStruct("ConfigUpgradeSet", <<
    Same("updatedEntry", ArrayConv(Class("ConfigSettingEntry")))>>)

TransactionResultSet == CompatStruct("TransactionResultSet", <<
    Same("results", ArrayConv(Class("TransactionResultPair")))>>)

TransactionHistoryEntryExt == CompatUnion("TransactionHistoryEntryExt", None,
    <<
    CompatVoid(<<0>>, 0),
    CompatArm(<<1>>, 1, "generalizedTxSet",
        Class("GeneralizedTransactionSet"))>>)

TransactionHistoryEntry == CompatStruct("TransactionHistoryEntry", <<
    Same("ledgerSeq", Id), Same("txSet", Class("TransactionSet")),
    Same("ext", Class("TransactionHistoryEntryExt"))>>)

TransactionHistoryResultEntryExt ==
    CompatUnion("TransactionHistoryResultEntryExt", None, <<
    CompatVoid(<<0>>, 0)>>)

TransactionHistoryResultEntry == CompatStruct("TransactionHistoryResultEntry",
    <<
    Same("ledgerSeq", Id), Same("txResultSet", Class("TransactionResultSet")),
    Same("ext", Class("TransactionHistoryResultEntryExt"))>>)

InvokeHostFunctionSuccessPreImage ==
    CompatStruct("InvokeHostFunctionSuccessPreImage", <<
    Same("returnValue", LazyConv("ScVal")),
    Same("events", ArrayConv(Class("ContractEvent")))>>)

ErrorCode == CompatEnum("ErrorCode", [
    errMisc |-> "Misc", errData |-> "Data", errConf |-> "Conf",
    errAuth |-> "Auth", errLoad |-> "Load"])

Error == CompatStruct("Error", <<
    Same("code", Class("ErrorCode")), Same("msg", Id)>>)

SendMore == CompatStruct("SendMore", <<Same("numMessages", Id)>>)

SendMoreExtended == CompatStruct("SendMoreExtended", <<
    Same("numMessages", Id), Same("numBytes", Id)>>)

Curve25519Public == CompatStruct("Curve25519Public", <<Same("key", Id)>>)

AuthCert == CompatStruct("AuthCert", <<
    Same("pubkey", Class("Curve25519Public")), Same("expiration", Uint64Conv),
    Same("sig", Id)>>)

Hello == CompatStruct("Hello", <<
    Same("ledgerVersion", Id), Same("overlayVersion", Id),
    Same("overlayMinVersion", Id), Renamed("networkId", "networkID", Id),
    Same("versionStr", Id), Same("listeningPort", Id),
    Renamed("peerId", "peerID", Class("PublicKey")),
    Same("cert", Class("AuthCert")), Same("nonce", Id)>>)

Auth == CompatStruct("Auth", <<Same("flags", Id)>>)
IpAddrType == CompatEnum("IPAddrType", [iPv4 |-> "IPv4", iPv6 |-> "IPv6"])

PeerAddressIp == CompatUnion("PeerAddressIp", "IpAddrType", <<
    CompatArm(<<"iPv4">>, "IPv4", "ipv4", Id),
    CompatArm(<<"iPv6">>, "IPv6", "ipv6", Id)>>)

PeerAddress == CompatStruct("PeerAddress", <<
    Same("ip", Class("PeerAddressIp")), Same("port", Id),
    Same("numFailures", Id)>>)

MessageType == CompatEnum("MessageType", [
    errorMsg |-> "ErrorMsg", auth |-> "Auth", dontHave |-> "DontHave",
    peers |-> "Peers", getTxSet |-> "GetTxSet", txSet |-> "TxSet",
    generalizedTxSet |-> "GeneralizedTxSet", transaction |-> "Transaction",
    getScpQuorumset |-> "GetScpQuorumset", scpQuorumset |-> "ScpQuorumset",
    scpMessage |-> "ScpMessage", getScpState |-> "GetScpState",
    hello |-> "Hello", sendMore |-> "SendMore",
    sendMoreExtended |-> "SendMoreExtended", floodAdvert |-> "FloodAdvert",
    floodDemand |-> "FloodDemand",
    timeSlicedSurveyRequest |-> "TimeSlicedSurveyRequest",
    timeSlicedSurveyResponse |-> "TimeSlicedSurveyResponse",
    timeSlicedSurveyStartCollecting |-> "TimeSlicedSurveyStartCollecting",
    timeSlicedSurveyStopCollecting |-> "TimeSlicedSurveyStopCollecting"])

DontHave == CompatStruct("DontHave", <<
    Same("type", Class("MessageType")), Same("reqHash", Id)>>)

SurveyMessageCommandType == CompatEnum("SurveyMessageCommandType", [
    timeSlicedSurveyTopology |-> "TimeSlicedSurveyTopology"])

SurveyMessageResponseType == CompatEnum("SurveyMessageResponseType", [
    surveyTopologyResponseV2 |-> "SurveyTopologyResponseV2"])

TimeSlicedSurveyStartCollectingMessage ==
    CompatStruct("TimeSlicedSurveyStartCollectingMessage", <<
    Renamed("surveyorId", "surveyorID", Class("PublicKey")), Same("nonce", Id),
    Same("ledgerNum", Id)>>)

SignedTimeSlicedSurveyStartCollectingMessage ==
    CompatStruct("SignedTimeSlicedSurveyStartCollectingMessage", <<
    Same("signature", Id),
    Same("startCollecting", Class("TimeSlicedSurveyStartCollectingMessage"))>>)

TimeSlicedSurveyStopCollectingMessage ==
    CompatStruct("TimeSlicedSurveyStopCollectingMessage", <<
    Renamed("surveyorId", "surveyorID", Class("PublicKey")), Same("nonce", Id),
    Same("ledgerNum", Id)>>)

SignedTimeSlicedSurveyStopCollectingMessage ==
    CompatStruct("SignedTimeSlicedSurveyStopCollectingMessage", <<
    Same("signature", Id),
    Same("stopCollecting", Class("TimeSlicedSurveyStopCollectingMessage"))>>)

SurveyRequestMessage == CompatStruct("SurveyRequestMessage", <<
    Renamed("surveyorPeerId", "surveyorPeerID", Class("PublicKey")),
    Renamed("surveyedPeerId", "surveyedPeerID", Class("PublicKey")),
    Same("ledgerNum", Id), Same("encryptionKey", Class("Curve25519Public")),
    Same("commandType", Class("SurveyMessageCommandType"))>>)

TimeSlicedSurveyRequestMessage ==
    CompatStruct("TimeSlicedSurveyRequestMessage", <<
    Same("request", Class("SurveyRequestMessage")), Same("nonce", Id),
    Same("inboundPeersIndex", Id), Same("outboundPeersIndex", Id)>>)

SignedTimeSlicedSurveyRequestMessage ==
    CompatStruct("SignedTimeSlicedSurveyRequestMessage", <<
    Same("requestSignature", Id),
    Same("request", Class("TimeSlicedSurveyRequestMessage"))>>)

EncryptedBody == CompatTypedef("EncryptedBody", Id)

SurveyResponseMessage == CompatStruct("SurveyResponseMessage", <<
    Renamed("surveyorPeerId", "surveyorPeerID", Class("PublicKey")),
    Renamed("surveyedPeerId", "surveyedPeerID", Class("PublicKey")),
    Same("ledgerNum", Id),
    Same("commandType", Class("SurveyMessageCommandType")),
    Same("encryptedBody", Id)>>)

TimeSlicedSurveyResponseMessage ==
    CompatStruct("TimeSlicedSurveyResponseMessage", <<
    Same("response", Class("SurveyResponseMessage")), Same("nonce", Id)>>)

SignedTimeSlicedSurveyResponseMessage ==
    CompatStruct("SignedTimeSlicedSurveyResponseMessage", <<
    Same("responseSignature", Id),
    Same("response", Class("TimeSlicedSurveyResponseMessage"))>>)

PeerStats == CompatStruct("PeerStats", <<
    Same("id", Class("PublicKey")), Same("versionStr", Id),
    Same("messagesRead", Uint64Conv), Same("messagesWritten", Uint64Conv),
    Same("bytesRead", Uint64Conv), Same("bytesWritten", Uint64Conv),
    Same("secondsConnected", Uint64Conv),
    Same("uniqueFloodBytesRecv", Uint64Conv),
    Same("duplicateFloodBytesRecv", Uint64Conv),
    Same("uniqueFetchBytesRecv", Uint64Conv),
    Same("duplicateFetchBytesRecv", Uint64Conv),
    Same("uniqueFloodMessageRecv", Uint64Conv),
    Same("duplicateFloodMessageRecv", Uint64Conv),
    Same("uniqueFetchMessageRecv", Uint64Conv),
    Same("duplicateFetchMessageRecv", Uint64Conv)>>)

TimeSlicedNodeData == CompatStruct("TimeSlicedNodeData", <<
    Same("addedAuthenticatedPeers", Id), Same("droppedAuthenticatedPeers", Id),
    Same("totalInboundPeerCount", Id), Same("totalOutboundPeerCount", Id),
    Renamed("p75ScpFirstToSelfLatencyMs", "p75SCPFirstToSelfLatencyMs", Id),
    Renamed("p75ScpSelfToOtherLatencyMs", "p75SCPSelfToOtherLatencyMs", Id),
    Same("lostSyncCount", Id), Same("isValidator", Id),
    Same("maxInboundPeerCount", Id), Same("maxOutboundPeerCount", Id)>>)

TimeSlicedPeerData == CompatStruct("TimeSlicedPeerData", <<
    Same("peerStats", Class("PeerStats")), Same("averageLatencyMs", Id)>>)

TimeSlicedPeerDataList == CompatTypedef("TimeSlicedPeerDataList",
    ArrayConv(Class("TimeSlicedPeerData")))

TopologyResponseBodyV2 == CompatStruct("TopologyResponseBodyV2", <<
    Same("inboundPeers", ArrayConv(Class("TimeSlicedPeerData"))),
    Same("outboundPeers", ArrayConv(Class("TimeSlicedPeerData"))),
    Same("nodeData", Class("TimeSlicedNodeData"))>>)

SurveyResponseBody == CompatUnion("SurveyResponseBody",
    "SurveyMessageResponseType", <<
    CompatArm(<<"surveyTopologyResponseV2">>, "SurveyTopologyResponseV2",
        "topologyResponseBodyV2", Class("TopologyResponseBodyV2"))>>)

TxAdvertVector == CompatTypedef("TxAdvertVector", ArrayConv(Id))
FloodAdvert == CompatStruct("FloodAdvert", <<Same("txHashes", ArrayConv(Id))>>)
TxDemandVector == CompatTypedef("TxDemandVector", ArrayConv(Id))
FloodDemand == CompatStruct("FloodDemand", <<Same("txHashes", ArrayConv(Id))>>)

StellarMessage == CompatUnion("StellarMessage", "MessageType", <<
    CompatArm(<<"errorMsg">>, "ErrorMsg", "error", Class("Error")),
    CompatArm(<<"hello">>, "Hello", "hello", Class("Hello")),
    CompatArm(<<"auth">>, "Auth", "auth", Class("Auth")),
    CompatArm(<<"dontHave">>, "DontHave", "dontHave", Class("DontHave")),
    CompatArm(<<"peers">>, "Peers", "peers", ArrayConv(Class("PeerAddress"))),
    CompatArm(<<"getTxSet">>, "GetTxSet", "txSetHash", Id),
    CompatArm(<<"txSet">>, "TxSet", "txSet", Class("TransactionSet")),
    CompatArm(<<"generalizedTxSet">>, "GeneralizedTxSet", "generalizedTxSet",
        Class("GeneralizedTransactionSet")),
    CompatArm(<<"transaction">>, "Transaction", "transaction",
        Class("TransactionEnvelope")),
    CompatArm(<<"timeSlicedSurveyRequest">>, "TimeSlicedSurveyRequest",
        "signedTimeSlicedSurveyRequestMessage",
        Class("SignedTimeSlicedSurveyRequestMessage")),
    CompatArm(<<"timeSlicedSurveyResponse">>, "TimeSlicedSurveyResponse",
        "signedTimeSlicedSurveyResponseMessage",
        Class("SignedTimeSlicedSurveyResponseMessage")),
    CompatArm(<<"timeSlicedSurveyStartCollecting">>,
        "TimeSlicedSurveyStartCollecting",
        "signedTimeSlicedSurveyStartCollectingMessage",
        Class("SignedTimeSlicedSurveyStartCollectingMessage")),
    CompatArm(<<"timeSlicedSurveyStopCollecting">>,
        "TimeSlicedSurveyStopCollecting",
        "signedTimeSlicedSurveyStopCollectingMessage",
        Class("SignedTimeSlicedSurveyStopCollectingMessage")),
    CompatArm(<<"getScpQuorumset">>, "GetScpQuorumset", "qSetHash", Id),
    CompatArm(<<"scpQuorumset">>, "ScpQuorumset", "qSet",
        LazyConv("ScpQuorumSet")),
    CompatArm(<<"scpMessage">>, "ScpMessage", "envelope",
        Class("ScpEnvelope")),
    CompatArm(<<"getScpState">>, "GetScpState", "getScpLedgerSeq", Id),
    CompatArm(<<"sendMore">>, "SendMore", "sendMoreMessage",
        Class("SendMore")),
    CompatArm(<<"sendMoreExtended">>, "SendMoreExtended",
        "sendMoreExtendedMessage", Class("SendMoreExtended")),
    CompatArm(<<"floodAdvert">>, "FloodAdvert", "floodAdvert",
        Class("FloodAdvert")),
    CompatArm(<<"floodDemand">>, "FloodDemand", "floodDemand",
        Class("FloodDemand"))>>)

HmacSha256Mac == CompatStruct("HmacSha256Mac", <<Same("mac", Id)>>)

AuthenticatedMessageV0 == CompatStruct("AuthenticatedMessageV0", <<
    Same("sequence", Uint64Conv), Same("message", Class("StellarMessage")),
    Same("mac", Class("HmacSha256Mac"))>>)

AuthenticatedMessage == CompatUnion("AuthenticatedMessage", None, <<
    CompatArm(<<0>>, 0, "v0", Class("AuthenticatedMessageV0"))>>)

SorobanAuthorizationEntries == CompatTypedef("SorobanAuthorizationEntries",
    ArrayConv(Class("SorobanAuthorizationEntry")))

HashIdPreimageOperationId == CompatStruct("HashIDPreimageOperationID", <<
    Same("sourceAccount", Class("PublicKey")), Same("seqNum", Int64Conv),
    Same("opNum", Id)>>)

HashIdPreimageRevokeId == CompatStruct("HashIDPreimageRevokeID", <<
    Same("sourceAccount", Class("PublicKey")), Same("seqNum", Int64Conv),
    Same("opNum", Id),
    Renamed("liquidityPoolId", "liquidityPoolID", BufferConv),
    Same("asset", Class("Asset"))>>)

HashIdPreimageContractId == CompatStruct("HashIDPreimageContractID", <<
    Renamed("networkId", "networkID", Id),
    Renamed("contractIdPreimage", "contractIDPreimage",
        Class("ContractIdPreimage"))>>)

HashIdPreimageSorobanAuthorization ==
    CompatStruct("HashIDPreimageSorobanAuthorization", <<
    Renamed("networkId", "networkID", Id), Same("nonce", Int64Conv),
    Same("signatureExpirationLedger", Id),
    Same("invocation", LazyConv("SorobanAuthorizedInvocation"))>>)

HashIdPreimage == CompatUnion("HashIDPreimage", "EnvelopeType", <<
    CompatArm(<<"envelopeTypeOpId">>, "OpId", "operationId",
        Class("HashIdPreimageOperationId")),
    CompatArm(<<"envelopeTypePoolRevokeOpId">>, "PoolRevokeOpId", "revokeId",
        Class("HashIdPreimageRevokeId")),
    CompatArm(<<"envelopeTypeContractId">>, "ContractId", "contractId",
        Class("HashIdPreimageContractId")),
    CompatArm(<<"envelopeTypeSorobanAuthorization">>, "SorobanAuthorization",
        "sorobanAuthorization", Class("HashIdPreimageSorobanAuthorization"))>>)

TransactionSignaturePayloadTaggedTransaction ==
    CompatUnion("TransactionSignaturePayloadTaggedTransaction", "EnvelopeType",
    <<
    CompatArm(<<"envelopeTypeTx">>, "Tx", "tx", Class("Transaction")),
    CompatArm(<<"envelopeTypeTxFeeBump">>, "TxFeeBump", "feeBump",
        Class("FeeBumpTransaction"))>>)

TransactionSignaturePayload == CompatStruct("TransactionSignaturePayload", <<
    Same("networkId", Id),
    Same("taggedTransaction",
        Class("TransactionSignaturePayloadTaggedTransaction"))>>)

Curve25519Secret == CompatStruct("Curve25519Secret", <<Same("key", Id)>>)
HmacSha256Key == CompatStruct("HmacSha256Key", <<Same("key", Id)>>)
ShortHashSeed == CompatStruct("ShortHashSeed", <<Same("seed", Id)>>)

BinaryFuseFilterType == CompatEnum("BinaryFuseFilterType", [
    binaryFuseFilter8Bit |-> "B8Bit", binaryFuseFilter16Bit |-> "B16Bit",
    binaryFuseFilter32Bit |-> "B32Bit"])

SerializedBinaryFuseFilter == CompatStruct("SerializedBinaryFuseFilter", <<
    Same("type", Class("BinaryFuseFilterType")),
    Same("inputHashSeed", Class("ShortHashSeed")),
    Same("filterSeed", Class("ShortHashSeed")), Same("segmentLength", Id),
    Same("segementLengthMask", Id), Same("segmentCount", Id),
    Same("segmentCountLength", Id), Same("fingerprintLength", Id),
    Same("fingerprints", Id)>>)

(* The compat xdr namespace. *)
ClassNamed ==
  [ 
   Uint32 |-> Uint32,
   ConfigSettingContractExecutionLanesV0 |->
       ConfigSettingContractExecutionLanesV0,
   ConfigSettingContractComputeV0 |-> ConfigSettingContractComputeV0,
   ConfigSettingContractParallelComputeV0 |->
       ConfigSettingContractParallelComputeV0,
   ConfigSettingContractLedgerCostV0 |-> ConfigSettingContractLedgerCostV0,
   ConfigSettingContractLedgerCostExtV0 |->
       ConfigSettingContractLedgerCostExtV0,
   ConfigSettingContractHistoricalDataV0 |->
       ConfigSettingContractHistoricalDataV0,
   ConfigSettingContractEventsV0 |-> ConfigSettingContractEventsV0,
   ConfigSettingContractBandwidthV0 |-> ConfigSettingContractBandwidthV0,
   ContractCostType |-> ContractCostType, ExtensionPoint |-> ExtensionPoint,
   ContractCostParamEntry |-> ContractCostParamEntry,
   StateArchivalSettings |-> StateArchivalSettings,
   EvictionIterator |-> EvictionIterator,
   ConfigSettingScpTiming |-> ConfigSettingScpTiming,
   ContractCostParams |-> ContractCostParams,
   ConfigSettingId |-> ConfigSettingId,
   ConfigSettingEntry |-> ConfigSettingEntry, ScEnvMetaKind |-> ScEnvMetaKind,
   ScEnvMetaEntryInterfaceVersion |-> ScEnvMetaEntryInterfaceVersion,
   ScEnvMetaEntry |-> ScEnvMetaEntry, ScMetaV0 |-> ScMetaV0,
   ScMetaKind |-> ScMetaKind, ScMetaEntry |-> ScMetaEntry,
   ScSpecType |-> ScSpecType, ScSpecTypeResult |-> ScSpecTypeResult,
   ScSpecTypeVec |-> ScSpecTypeVec, ScSpecTypeMap |-> ScSpecTypeMap,
   ScSpecTypeTuple |-> ScSpecTypeTuple, ScSpecTypeBytesN |-> ScSpecTypeBytesN,
   ScSpecTypeUdt |-> ScSpecTypeUdt, ScSpecTypeDef |-> ScSpecTypeDef,
   ScSpecTypeOption |-> ScSpecTypeOption,
   ScSpecUdtStructFieldV0 |-> ScSpecUdtStructFieldV0,
   ScSpecUdtStructV0 |-> ScSpecUdtStructV0,
   ScSpecUdtUnionCaseVoidV0 |-> ScSpecUdtUnionCaseVoidV0,
   ScSpecUdtUnionCaseTupleV0 |-> ScSpecUdtUnionCaseTupleV0,
   ScSpecUdtUnionCaseV0Kind |-> ScSpecUdtUnionCaseV0Kind,
   ScSpecUdtUnionCaseV0 |-> ScSpecUdtUnionCaseV0,
   ScSpecUdtUnionV0 |-> ScSpecUdtUnionV0,
   ScSpecUdtEnumCaseV0 |-> ScSpecUdtEnumCaseV0,
   ScSpecUdtEnumV0 |-> ScSpecUdtEnumV0,
   ScSpecUdtErrorEnumCaseV0 |-> ScSpecUdtErrorEnumCaseV0,
   ScSpecUdtErrorEnumV0 |-> ScSpecUdtErrorEnumV0,
   ScSpecFunctionInputV0 |-> ScSpecFunctionInputV0, ScSymbol |-> ScSymbol,
   ScSpecFunctionV0 |-> ScSpecFunctionV0,
   ScSpecEventParamLocationV0 |-> ScSpecEventParamLocationV0,
   ScSpecEventParamV0 |-> ScSpecEventParamV0,
   ScSpecEventDataFormat |-> ScSpecEventDataFormat,
   ScSpecEventV0 |-> ScSpecEventV0, ScSpecEntryKind |-> ScSpecEntryKind,
   ScSpecEntry |-> ScSpecEntry, ScValType |-> ScValType,
   ScErrorType |-> ScErrorType, ScErrorCode |-> ScErrorCode,
   ScError |-> ScError, UInt128Parts |-> UInt128Parts,
   Int128Parts |-> Int128Parts, UInt256Parts |-> UInt256Parts,
   Int256Parts |-> Int256Parts,
   ContractExecutableType |-> ContractExecutableType, Hash |-> Hash,
   ContractExecutable |-> ContractExecutable, ScAddressType |-> ScAddressType,
   Uint256 |-> Uint256, MuxedEd25519Account |-> MuxedEd25519Account,
   PublicKeyType |-> PublicKeyType, PublicKey |-> PublicKey,
   ClaimableBalanceIdType |-> ClaimableBalanceIdType,
   ClaimableBalanceId |-> ClaimableBalanceId, ScAddress |-> ScAddress,
   Int32 |-> Int32, ScBytes |-> ScBytes, ScString |-> ScString,
   ScMapEntry |-> ScMapEntry, ScMap |-> ScMap,
   ScContractInstance |-> ScContractInstance, ScNonceKey |-> ScNonceKey,
   ScVal |-> ScVal, ScVec |-> ScVec, UpgradeType |-> UpgradeType,
   StellarValueType |-> StellarValueType, Signature |-> Signature,
   LedgerCloseValueSignature |-> LedgerCloseValueSignature,
   StellarValueExt |-> StellarValueExt, StellarValue |-> StellarValue,
   LedgerHeaderExtensionV1Ext |-> LedgerHeaderExtensionV1Ext,
   LedgerHeaderExtensionV1 |-> LedgerHeaderExtensionV1,
   LedgerHeaderExt |-> LedgerHeaderExt, LedgerHeader |-> LedgerHeader,
   LedgerHeaderHistoryEntryExt |-> LedgerHeaderHistoryEntryExt,
   LedgerHeaderHistoryEntry |-> LedgerHeaderHistoryEntry,
   EnvelopeType |-> EnvelopeType, TimeBounds |-> TimeBounds,
   MemoType |-> MemoType, Memo |-> Memo, CryptoKeyType |-> CryptoKeyType,
   MuxedAccountMed25519 |-> MuxedAccountMed25519,
   MuxedAccount |-> MuxedAccount, OperationType |-> OperationType,
   CreateAccountOp |-> CreateAccountOp, AssetType |-> AssetType,
   AssetCode4 |-> AssetCode4, AlphaNum4 |-> AlphaNum4,
   AssetCode12 |-> AssetCode12, AlphaNum12 |-> AlphaNum12, Asset |-> Asset,
   PaymentOp |-> PaymentOp,
   PathPaymentStrictReceiveOp |-> PathPaymentStrictReceiveOp, Price |-> Price,
   ManageSellOfferOp |-> ManageSellOfferOp,
   CreatePassiveSellOfferOp |-> CreatePassiveSellOfferOp,
   String32 |-> String32, SignerKeyType |-> SignerKeyType,
   SignerKeyEd25519SignedPayload |-> SignerKeyEd25519SignedPayload,
   SignerKey |-> SignerKey, Signer |-> Signer, SetOptionsOp |-> SetOptionsOp,
   LiquidityPoolType |-> LiquidityPoolType,
   LiquidityPoolConstantProductParameters |->
       LiquidityPoolConstantProductParameters,
   LiquidityPoolParameters |-> LiquidityPoolParameters,
   ChangeTrustAsset |-> ChangeTrustAsset, ChangeTrustOp |-> ChangeTrustOp,
   AssetCode |-> AssetCode, AllowTrustOp |-> AllowTrustOp,
   String64 |-> String64, DataValue |-> DataValue,
   ManageDataOp |-> ManageDataOp, BumpSequenceOp |-> BumpSequenceOp,
   ManageBuyOfferOp |-> ManageBuyOfferOp,
   PathPaymentStrictSendOp |-> PathPaymentStrictSendOp,
   ClaimantType |-> ClaimantType, ClaimPredicateType |-> ClaimPredicateType,
   ClaimPredicate |-> ClaimPredicate, ClaimantV0 |-> ClaimantV0,
   Claimant |-> Claimant,
   CreateClaimableBalanceOp |-> CreateClaimableBalanceOp,
   ClaimClaimableBalanceOp |-> ClaimClaimableBalanceOp,
   BeginSponsoringFutureReservesOp |-> BeginSponsoringFutureReservesOp,
   RevokeSponsorshipType |-> RevokeSponsorshipType,
   LedgerEntryType |-> LedgerEntryType, LedgerKeyAccount |-> LedgerKeyAccount,
   TrustLineAsset |-> TrustLineAsset,
   LedgerKeyTrustLine |-> LedgerKeyTrustLine,
   LedgerKeyOffer |-> LedgerKeyOffer, LedgerKeyData |-> LedgerKeyData,
   LedgerKeyClaimableBalance |-> LedgerKeyClaimableBalance,
   LedgerKeyLiquidityPool |-> LedgerKeyLiquidityPool,
   ContractDataDurability |-> ContractDataDurability,
   LedgerKeyContractData |-> LedgerKeyContractData,
   LedgerKeyContractCode |-> LedgerKeyContractCode,
   LedgerKeyConfigSetting |-> LedgerKeyConfigSetting,
   LedgerKeyTtl |-> LedgerKeyTtl, LedgerKey |-> LedgerKey,
   RevokeSponsorshipOpSigner |-> RevokeSponsorshipOpSigner,
   RevokeSponsorshipOp |-> RevokeSponsorshipOp, ClawbackOp |-> ClawbackOp,
   ClawbackClaimableBalanceOp |-> ClawbackClaimableBalanceOp,
   SetTrustLineFlagsOp |-> SetTrustLineFlagsOp,
   LiquidityPoolDepositOp |-> LiquidityPoolDepositOp,
   LiquidityPoolWithdrawOp |-> LiquidityPoolWithdrawOp,
   HostFunctionType |-> HostFunctionType,
   InvokeContractArgs |-> InvokeContractArgs,
   ContractIdPreimageType |-> ContractIdPreimageType,
   ContractIdPreimageFromAddress |-> ContractIdPreimageFromAddress,
   ContractIdPreimage |-> ContractIdPreimage,
   CreateContractArgs |-> CreateContractArgs,
   CreateContractArgsV2 |-> CreateContractArgsV2,
   HostFunction |-> HostFunction,
   SorobanCredentialsType |-> SorobanCredentialsType,
   SorobanAddressCredentials |-> SorobanAddressCredentials,
   SorobanCredentials |-> SorobanCredentials,
   SorobanAuthorizedFunctionType |-> SorobanAuthorizedFunctionType,
   SorobanAuthorizedFunction |-> SorobanAuthorizedFunction,
   SorobanAuthorizedInvocation |-> SorobanAuthorizedInvocation,
   SorobanAuthorizationEntry |-> SorobanAuthorizationEntry,
   InvokeHostFunctionOp |-> InvokeHostFunctionOp,
   ExtendFootprintTtlOp |-> ExtendFootprintTtlOp,
   RestoreFootprintOp |-> RestoreFootprintOp, OperationBody |-> OperationBody,
   Operation |-> Operation, TransactionV0Ext |-> TransactionV0Ext,
   TransactionV0 |-> TransactionV0, SignatureHint |-> SignatureHint,
   DecoratedSignature |-> DecoratedSignature,
   TransactionV0Envelope |-> TransactionV0Envelope,
   PreconditionType |-> PreconditionType, LedgerBounds |-> LedgerBounds,
   PreconditionsV2 |-> PreconditionsV2, Preconditions |-> Preconditions,
   SorobanResourcesExtV0 |-> SorobanResourcesExtV0,
   SorobanTransactionDataExt |-> SorobanTransactionDataExt,
   LedgerFootprint |-> LedgerFootprint, SorobanResources |-> SorobanResources,
   SorobanTransactionData |-> SorobanTransactionData,
   TransactionExt |-> TransactionExt, Transaction |-> Transaction,
   TransactionV1Envelope |-> TransactionV1Envelope,
   FeeBumpTransactionInnerTx |-> FeeBumpTransactionInnerTx,
   FeeBumpTransactionExt |-> FeeBumpTransactionExt,
   FeeBumpTransaction |-> FeeBumpTransaction,
   FeeBumpTransactionEnvelope |-> FeeBumpTransactionEnvelope,
   TransactionEnvelope |-> TransactionEnvelope,
   TransactionSet |-> TransactionSet,
   TransactionResultCode |-> TransactionResultCode,
   OperationResultCode |-> OperationResultCode,
   CreateAccountResultCode |-> CreateAccountResultCode,
   CreateAccountResult |-> CreateAccountResult,
   PaymentResultCode |-> PaymentResultCode, PaymentResult |-> PaymentResult,
   PathPaymentStrictReceiveResultCode |-> PathPaymentStrictReceiveResultCode,
   ClaimAtomType |-> ClaimAtomType, ClaimOfferAtomV0 |-> ClaimOfferAtomV0,
   ClaimOfferAtom |-> ClaimOfferAtom,
   ClaimLiquidityAtom |-> ClaimLiquidityAtom, ClaimAtom |-> ClaimAtom,
   SimplePaymentResult |-> SimplePaymentResult,
   PathPaymentStrictReceiveResultSuccess |->
       PathPaymentStrictReceiveResultSuccess,
   PathPaymentStrictReceiveResult |-> PathPaymentStrictReceiveResult,
   ManageSellOfferResultCode |-> ManageSellOfferResultCode,
   ManageOfferEffect |-> ManageOfferEffect, OfferEntryExt |-> OfferEntryExt,
   OfferEntry |-> OfferEntry,
   ManageOfferSuccessResultOffer |-> ManageOfferSuccessResultOffer,
   ManageOfferSuccessResult |-> ManageOfferSuccessResult,
   ManageSellOfferResult |-> ManageSellOfferResult,
   SetOptionsResultCode |-> SetOptionsResultCode,
   SetOptionsResult |-> SetOptionsResult,
   ChangeTrustResultCode |-> ChangeTrustResultCode,
   ChangeTrustResult |-> ChangeTrustResult,
   AllowTrustResultCode |-> AllowTrustResultCode,
   AllowTrustResult |-> AllowTrustResult,
   AccountMergeResultCode |-> AccountMergeResultCode,
   AccountMergeResult |-> AccountMergeResult,
   InflationResultCode |-> InflationResultCode,
   InflationPayout |-> InflationPayout, InflationResult |-> InflationResult,
   ManageDataResultCode |-> ManageDataResultCode,
   ManageDataResult |-> ManageDataResult,
   BumpSequenceResultCode |-> BumpSequenceResultCode,
   BumpSequenceResult |-> BumpSequenceResult,
   ManageBuyOfferResultCode |-> ManageBuyOfferResultCode,
   ManageBuyOfferResult |-> ManageBuyOfferResult,
   PathPaymentStrictSendResultCode |-> PathPaymentStrictSendResultCode,
   PathPaymentStrictSendResultSuccess |-> PathPaymentStrictSendResultSuccess,
   PathPaymentStrictSendResult |-> PathPaymentStrictSendResult,
   CreateClaimableBalanceResultCode |-> CreateClaimableBalanceResultCode,
   CreateClaimableBalanceResult |-> CreateClaimableBalanceResult,
   ClaimClaimableBalanceResultCode |-> ClaimClaimableBalanceResultCode,
   ClaimClaimableBalanceResult |-> ClaimClaimableBalanceResult,
   BeginSponsoringFutureReservesResultCode |->
       BeginSponsoringFutureReservesResultCode,
   BeginSponsoringFutureReservesResult |-> BeginSponsoringFutureReservesResult,
   EndSponsoringFutureReservesResultCode |->
       EndSponsoringFutureReservesResultCode,
   EndSponsoringFutureReservesResult |-> EndSponsoringFutureReservesResult,
   RevokeSponsorshipResultCode |-> RevokeSponsorshipResultCode,
   RevokeSponsorshipResult |-> RevokeSponsorshipResult,
   ClawbackResultCode |-> ClawbackResultCode,
   ClawbackResult |-> ClawbackResult,
   ClawbackClaimableBalanceResultCode |-> ClawbackClaimableBalanceResultCode,
   ClawbackClaimableBalanceResult |-> ClawbackClaimableBalanceResult,
   SetTrustLineFlagsResultCode |-> SetTrustLineFlagsResultCode,
   SetTrustLineFlagsResult |-> SetTrustLineFlagsResult,
   LiquidityPoolDepositResultCode |-> LiquidityPoolDepositResultCode,
   LiquidityPoolDepositResult |-> LiquidityPoolDepositResult,
   LiquidityPoolWithdrawResultCode |-> LiquidityPoolWithdrawResultCode,
   LiquidityPoolWithdrawResult |-> LiquidityPoolWithdrawResult,
   InvokeHostFunctionResultCode |-> InvokeHostFunctionResultCode,
   InvokeHostFunctionResult |-> InvokeHostFunctionResult,
   ExtendFootprintTtlResultCode |-> ExtendFootprintTtlResultCode,
   ExtendFootprintTtlResult |-> ExtendFootprintTtlResult,
   RestoreFootprintResultCode |-> RestoreFootprintResultCode,
   RestoreFootprintResult |-> RestoreFootprintResult,
   OperationResultTr |-> OperationResultTr,
   OperationResult |-> OperationResult,
   InnerTransactionResultResult |-> InnerTransactionResultResult,
   InnerTransactionResultExt |-> InnerTransactionResultExt,
   InnerTransactionResult |-> InnerTransactionResult,
   InnerTransactionResultPair |-> InnerTransactionResultPair,
   TransactionResultResult |-> TransactionResultResult,
   TransactionResultExt |-> TransactionResultExt,
   TransactionResult |-> TransactionResult,
   TransactionResultPair |-> TransactionResultPair,
   LedgerEntryChangeType |-> LedgerEntryChangeType, Thresholds |-> Thresholds,
   Liabilities |-> Liabilities,
   SponsorshipDescriptor |-> SponsorshipDescriptor,
   AccountEntryExtensionV3 |-> AccountEntryExtensionV3,
   AccountEntryExtensionV2Ext |-> AccountEntryExtensionV2Ext,
   AccountEntryExtensionV2 |-> AccountEntryExtensionV2,
   AccountEntryExtensionV1Ext |-> AccountEntryExtensionV1Ext,
   AccountEntryExtensionV1 |-> AccountEntryExtensionV1,
   AccountEntryExt |-> AccountEntryExt, AccountEntry |-> AccountEntry,
   TrustLineEntryExtensionV2Ext |-> TrustLineEntryExtensionV2Ext,
   TrustLineEntryExtensionV2 |-> TrustLineEntryExtensionV2,
   TrustLineEntryV1Ext |-> TrustLineEntryV1Ext,
   TrustLineEntryV1 |-> TrustLineEntryV1,
   TrustLineEntryExt |-> TrustLineEntryExt, TrustLineEntry |-> TrustLineEntry,
   DataEntryExt |-> DataEntryExt, DataEntry |-> DataEntry,
   ClaimableBalanceEntryExtensionV1Ext |-> ClaimableBalanceEntryExtensionV1Ext,
   ClaimableBalanceEntryExtensionV1 |-> ClaimableBalanceEntryExtensionV1,
   ClaimableBalanceEntryExt |-> ClaimableBalanceEntryExt,
   ClaimableBalanceEntry |-> ClaimableBalanceEntry,
   LiquidityPoolEntryConstantProduct |-> LiquidityPoolEntryConstantProduct,
   LiquidityPoolEntryBody |-> LiquidityPoolEntryBody,
   LiquidityPoolEntry |-> LiquidityPoolEntry,
   ContractDataEntry |-> ContractDataEntry,
   ContractCodeCostInputs |-> ContractCodeCostInputs,
   ContractCodeEntryV1 |-> ContractCodeEntryV1,
   ContractCodeEntryExt |-> ContractCodeEntryExt,
   ContractCodeEntry |-> ContractCodeEntry, TtlEntry |-> TtlEntry,
   LedgerEntryData |-> LedgerEntryData,
   LedgerEntryExtensionV1Ext |-> LedgerEntryExtensionV1Ext,
   LedgerEntryExtensionV1 |-> LedgerEntryExtensionV1,
   LedgerEntryExt |-> LedgerEntryExt, LedgerEntry |-> LedgerEntry,
   LedgerEntryChange |-> LedgerEntryChange,
   LedgerEntryChanges |-> LedgerEntryChanges, OperationMeta |-> OperationMeta,
   TransactionMetaV1 |-> TransactionMetaV1,
   TransactionMetaV2 |-> TransactionMetaV2,
   SorobanTransactionMetaExtV1 |-> SorobanTransactionMetaExtV1,
   SorobanTransactionMetaExt |-> SorobanTransactionMetaExt,
   ContractEventType |-> ContractEventType,
   ContractEventV0 |-> ContractEventV0,
   ContractEventBody |-> ContractEventBody, ContractEvent |-> ContractEvent,
   DiagnosticEvent |-> DiagnosticEvent,
   SorobanTransactionMeta |-> SorobanTransactionMeta,
   TransactionMetaV3 |-> TransactionMetaV3,
   OperationMetaV2 |-> OperationMetaV2,
   SorobanTransactionMetaV2 |-> SorobanTransactionMetaV2,
   TransactionEventStage |-> TransactionEventStage,
   TransactionEvent |-> TransactionEvent,
   TransactionMetaV4 |-> TransactionMetaV4,
   TransactionMeta |-> TransactionMeta,
   TransactionResultMeta |-> TransactionResultMeta,
   LedgerUpgradeType |-> LedgerUpgradeType,
   ConfigUpgradeSetKey |-> ConfigUpgradeSetKey,
   LedgerUpgrade |-> LedgerUpgrade, UpgradeEntryMeta |-> UpgradeEntryMeta,
   ScpQuorumSet |-> ScpQuorumSet, ScpStatementType |-> ScpStatementType,
   Value |-> Value, ScpBallot |-> ScpBallot,
   ScpStatementPrepare |-> ScpStatementPrepare,
   ScpStatementConfirm |-> ScpStatementConfirm,
   ScpStatementExternalize |-> ScpStatementExternalize,
   ScpNomination |-> ScpNomination,
   ScpStatementPledges |-> ScpStatementPledges, ScpStatement |-> ScpStatement,
   ScpEnvelope |-> ScpEnvelope, LedgerScpMessages |-> LedgerScpMessages,
   ScpHistoryEntryV0 |-> ScpHistoryEntryV0,
   ScpHistoryEntry |-> ScpHistoryEntry,
   LedgerCloseMetaV0 |-> LedgerCloseMetaV0,
   LedgerCloseMetaExtV1 |-> LedgerCloseMetaExtV1,
   LedgerCloseMetaExt |-> LedgerCloseMetaExt,
   TxSetComponentType |-> TxSetComponentType,
   TxSetComponentTxsMaybeDiscountedFee |-> TxSetComponentTxsMaybeDiscountedFee,
   TxSetComponent |-> TxSetComponent,
   DependentTxCluster |-> DependentTxCluster,
   ParallelTxExecutionStage |-> ParallelTxExecutionStage,
   ParallelTxsComponent |-> ParallelTxsComponent,
   TransactionPhase |-> TransactionPhase,
   TransactionSetV1 |-> TransactionSetV1,
   GeneralizedTransactionSet |-> GeneralizedTransactionSet,
   LedgerCloseMetaV1 |-> LedgerCloseMetaV1,
   TransactionResultMetaV1 |-> TransactionResultMetaV1,
   LedgerCloseMetaV2 |-> LedgerCloseMetaV2,
   LedgerCloseMeta |-> LedgerCloseMeta,
   LedgerCloseMetaBatch |-> LedgerCloseMetaBatch,
   StoredTransactionSet |-> StoredTransactionSet,
   StoredDebugTransactionSet |-> StoredDebugTransactionSet,
   PersistedScpStateV0 |-> PersistedScpStateV0,
   PersistedScpStateV1 |-> PersistedScpStateV1,
   PersistedScpState |-> PersistedScpState,
   ThresholdIndices |-> ThresholdIndices, AccountFlags |-> AccountFlags,
   TrustLineFlags |-> TrustLineFlags, OfferEntryFlags |-> OfferEntryFlags,
   ClaimableBalanceFlags |-> ClaimableBalanceFlags,
   BucketListType |-> BucketListType, BucketEntryType |-> BucketEntryType,
   HotArchiveBucketEntryType |-> HotArchiveBucketEntryType,
   BucketMetadataExt |-> BucketMetadataExt, BucketMetadata |-> BucketMetadata,
   BucketEntry |-> BucketEntry,
   HotArchiveBucketEntry |-> HotArchiveBucketEntry,
   LedgerHeaderFlags |-> LedgerHeaderFlags,
   ConfigUpgradeSet |-> ConfigUpgradeSet,
   TransactionResultSet |-> TransactionResultSet,
   TransactionHistoryEntryExt |-> TransactionHistoryEntryExt,
   TransactionHistoryEntry |-> TransactionHistoryEntry,
   TransactionHistoryResultEntryExt |-> TransactionHistoryResultEntryExt,
   TransactionHistoryResultEntry |-> TransactionHistoryResultEntry,
   InvokeHostFunctionSuccessPreImage |-> InvokeHostFunctionSuccessPreImage,
   ErrorCode |-> ErrorCode, Error |-> Error, SendMore |-> SendMore,
   SendMoreExtended |-> SendMoreExtended,
   Curve25519Public |-> Curve25519Public, AuthCert |-> AuthCert,
   Hello |-> Hello, Auth |-> Auth, IpAddrType |-> IpAddrType,
   PeerAddressIp |-> PeerAddressIp, PeerAddress |-> PeerAddress,
   MessageType |-> MessageType, DontHave |-> DontHave,
   SurveyMessageCommandType |-> SurveyMessageCommandType,
   SurveyMessageResponseType |-> SurveyMessageResponseType,
   TimeSlicedSurveyStartCollectingMessage |->
       TimeSlicedSurveyStartCollectingMessage,
   SignedTimeSlicedSurveyStartCollectingMessage |->
       SignedTimeSlicedSurveyStartCollectingMessage,
   TimeSlicedSurveyStopCollectingMessage |->
       TimeSlicedSurveyStopCollectingMessage,
   SignedTimeSlicedSurveyStopCollectingMessage |->
       SignedTimeSlicedSurveyStopCollectingMessage,
   SurveyRequestMessage |-> SurveyRequestMessage,
   TimeSlicedSurveyRequestMessage |-> TimeSlicedSurveyRequestMessage,
   SignedTimeSlicedSurveyRequestMessage |->
       SignedTimeSlicedSurveyRequestMessage,
   EncryptedBody |-> EncryptedBody,
   SurveyResponseMessage |-> SurveyResponseMessage,
   TimeSlicedSurveyResponseMessage |-> TimeSlicedSurveyResponseMessage,
   SignedTimeSlicedSurveyResponseMessage |->
       SignedTimeSlicedSurveyResponseMessage,
   PeerStats |-> PeerStats, TimeSlicedNodeData |-> TimeSlicedNodeData,
   TimeSlicedPeerData |-> TimeSlicedPeerData,
   TimeSlicedPeerDataList |-> TimeSlicedPeerDataList,
   TopologyResponseBodyV2 |-> TopologyResponseBodyV2,
   SurveyResponseBody |-> SurveyResponseBody,
   TxAdvertVector |-> TxAdvertVector, FloodAdvert |-> FloodAdvert,
   TxDemandVector |-> TxDemandVector, FloodDemand |-> FloodDemand,
   StellarMessage |-> StellarMessage, HmacSha256Mac |-> HmacSha256Mac,
   AuthenticatedMessageV0 |-> AuthenticatedMessageV0,
   AuthenticatedMessage |-> AuthenticatedMessage,
   SorobanAuthorizationEntries |-> SorobanAuthorizationEntries,
   HashIdPreimageOperationId |-> HashIdPreimageOperationId,
   HashIdPreimageRevokeId |-> HashIdPreimageRevokeId,
   HashIdPreimageContractId |-> HashIdPreimageContractId,
   HashIdPreimageSorobanAuthorization |-> HashIdPreimageSorobanAuthorization,
   HashIdPreimage |-> HashIdPreimage,
   TransactionSignaturePayloadTaggedTransaction |->
       TransactionSignaturePayloadTaggedTransaction,
   TransactionSignaturePayload |-> TransactionSignaturePayload,
   Curve25519Secret |-> Curve25519Secret, HmacSha256Key |-> HmacSha256Key,
   ShortHashSeed |-> ShortHashSeed,
   BinaryFuseFilterType |-> BinaryFuseFilterType,
   SerializedBinaryFuseFilter |-> SerializedBinaryFuseFilter]
============================================================================
