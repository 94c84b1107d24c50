------------------------------- MODULE XdrTypes -------------------------------
(***************************************************************************)
(* packages/xdr/generated: the codecs of consensus, ledger close meta,     *)
(* buckets and overlay messages; with the modules it extends, every type   *)
(* of the Stellar protocol.                                                *)
(***************************************************************************)
EXTENDS XdrTypesTransaction

TransactionResultMeta == Struct(<<
    <<"result", TransactionResultPair>>,
    <<"feeProcessing", Ref("LedgerEntryChanges")>>,
    <<"txApplyProcessing", Ref("TransactionMeta")>> >>)

LedgerUpgradeType == Enum([
    Version |-> 1, BaseFee |-> 2, MaxTxSetSize |-> 3, BaseReserve |-> 4,
    Flags |-> 5, Config |-> 6, MaxSorobanTxSetSize |-> 7])

ConfigUpgradeSetKey == Struct(<<
    <<"contractID", Ref("ContractID")>>, <<"contentHash", Ref("Hash")>> >>)

LedgerUpgrade == Union(LedgerUpgradeType, <<
    ArmOf(<<"Version">>, Uint32), ArmOf(<<"BaseFee">>, Uint32),
    ArmOf(<<"MaxTxSetSize">>, Uint32), ArmOf(<<"BaseReserve">>, Uint32),
    ArmOf(<<"Flags">>, Uint32), ArmOf(<<"Config">>, ConfigUpgradeSetKey),
    ArmOf(<<"MaxSorobanTxSetSize">>, Uint32)>>, None)

UpgradeEntryMeta == Struct(<<
    <<"upgrade", Ref("LedgerUpgrade")>>,
    <<"changes", Ref("LedgerEntryChanges")>> >>)

SCPQuorumSet == Struct(<<
    <<"threshold", Uint32>>,
    <<"validators", VarArray(2147483647, Ref("NodeID"))>>,
    <<"innerSets", VarArray(2147483647, Lazy("SCPQuorumSet"))>> >>)

SCPStatementType == Enum([
    Prepare |-> 0, Confirm |-> 1, Externalize |-> 2, Nominate |-> 3])

Value == VarOpaque(2147483647)
SCPBallot == Struct(<<<<"counter", Uint32>>, <<"value", Ref("Value")>> >>)

SCPStatementPrepare == Struct(<<
    <<"quorumSetHash", Ref("Hash")>>, <<"ballot", SCPBallot>>,
    <<"prepared", Option(SCPBallot)>>, <<"preparedPrime", Option(SCPBallot)>>,
    <<"nC", Uint32>>, <<"nH", Uint32>> >>)

SCPStatementConfirm == Struct(<<
    <<"ballot", SCPBallot>>, <<"nPrepared", Uint32>>, <<"nCommit", Uint32>>,
    <<"nH", Uint32>>, <<"quorumSetHash", Ref("Hash")>> >>)

SCPStatementExternalize == Struct(<<
    <<"commit", SCPBallot>>, <<"nH", Uint32>>,
    <<"commitQuorumSetHash", Ref("Hash")>> >>)

SCPNomination == Struct(<<
    <<"quorumSetHash", Ref("Hash")>>,
    <<"votes", VarArray(2147483647, Ref("Value"))>>,
    <<"accepted", VarArray(2147483647, Ref("Value"))>> >>)

SCPStatementPledges == Union(SCPStatementType, <<
    ArmOf(<<"Prepare">>, SCPStatementPrepare),
    ArmOf(<<"Confirm">>, SCPStatementConfirm),
    ArmOf(<<"Externalize">>, SCPStatementExternalize),
    ArmOf(<<"Nominate">>, SCPNomination)>>, None)

SCPStatement == Struct(<<
    <<"nodeID", Ref("NodeID")>>, <<"slotIndex", Uint64>>,
    <<"pledges", Ref("SCPStatementPledges")>> >>)

SCPEnvelope == Struct(<<
    <<"statement", SCPStatement>>, <<"signature", Ref("Signature")>> >>)

LedgerSCPMessages == Struct(<<
    <<"ledgerSeq", Uint32>>,
    <<"messages", VarArray(2147483647, SCPEnvelope)>> >>)

SCPHistoryEntryV0 == Struct(<<
    <<"quorumSets", VarArray(2147483647, Lazy("SCPQuorumSet"))>>,
    <<"ledgerMessages", LedgerSCPMessages>> >>)

SCPHistoryEntry == Union(Int32, <<ArmOf(<<0>>, SCPHistoryEntryV0)>>, None)

LedgerCloseMetaV0 == Struct(<<
    <<"ledgerHeader", LedgerHeaderHistoryEntry>>, <<"txSet", TransactionSet>>,
    <<"txProcessing", VarArray(2147483647, TransactionResultMeta)>>,
    <<"upgradesProcessing", VarArray(2147483647, UpgradeEntryMeta)>>,
    <<"scpInfo", VarArray(2147483647, Ref("SCPHistoryEntry"))>> >>)

LedgerCloseMetaExtV1 == Struct(<<
    <<"ext", Ref("ExtensionPoint")>>, <<"sorobanFeeWrite1KB", Int64>> >>)

LedgerCloseMetaExt == Union(Int32, <<
    VoidArm(<<0>>), ArmOf(<<1>>, LedgerCloseMetaExtV1)>>, None)

TxSetComponentType == Enum([TxsetCompTxsMaybeDiscountedFee |-> 0])

TxSetComponentTxsMaybeDiscountedFee == Struct(<<
    <<"baseFee", Option(Int64)>>,
    <<"txs", VarArray(2147483647, Ref("TransactionEnvelope"))>> >>)

TxSetComponent == Union(TxSetComponentType, <<
    ArmOf(<<"TxsetCompTxsMaybeDiscountedFee">>,
        TxSetComponentTxsMaybeDiscountedFee)>>, None)

DependentTxCluster == VarArray(2147483647, Ref("TransactionEnvelope"))
ParallelTxExecutionStage == VarArray(2147483647, Ref("DependentTxCluster"))

ParallelTxsComponent == Struct(<<
    <<"baseFee", Option(Int64)>>,
    <<"executionStages", VarArray(2147483647,
        Ref("ParallelTxExecutionStage"))>> >>)

TransactionPhase == Union(Int32, <<
    ArmOf(<<0>>, VarArray(2147483647, Ref("TxSetComponent"))),
    ArmOf(<<1>>, ParallelTxsComponent)>>, None)

TransactionSetV1 == Struct(<<
    <<"previousLedgerHash", Ref("Hash")>>,
    <<"phases", VarArray(2147483647, Ref("TransactionPhase"))>> >>)

GeneralizedTransactionSet == Union(Int32, <<
    ArmOf(<<1>>, TransactionSetV1)>>, None)

LedgerCloseMetaV1 == Struct(<<
    <<"ext", Ref("LedgerCloseMetaExt")>>,
    <<"ledgerHeader", LedgerHeaderHistoryEntry>>,
    <<"txSet", Ref("GeneralizedTransactionSet")>>,
    <<"txProcessing", VarArray(2147483647, TransactionResultMeta)>>,
    <<"upgradesProcessing", VarArray(2147483647, UpgradeEntryMeta)>>,
    <<"scpInfo", VarArray(2147483647, Ref("SCPHistoryEntry"))>>,
    <<"totalByteSizeOfLiveSorobanState", Uint64>>,
    <<"evictedKeys", VarArray(2147483647, Ref("LedgerKey"))>>,
    <<"unused", VarArray(2147483647, LedgerEntry)>> >>)

TransactionResultMetaV1 == Struct(<<
    <<"ext", Ref("ExtensionPoint")>>, <<"result", TransactionResultPair>>,
    <<"feeProcessing", Ref("LedgerEntryChanges")>>,
    <<"txApplyProcessing", Ref("TransactionMeta")>>,
    <<"postTxApplyFeeProcessing", Ref("LedgerEntryChanges")>> >>)

LedgerCloseMetaV2 == Struct(<<
    <<"ext", Ref("LedgerCloseMetaExt")>>,
    <<"ledgerHeader", LedgerHeaderHistoryEntry>>,
    <<"txSet", Ref("GeneralizedTransactionSet")>>,
    <<"txProcessing", VarArray(2147483647, TransactionResultMetaV1)>>,
    <<"upgradesProcessing", VarArray(2147483647, UpgradeEntryMeta)>>,
    <<"scpInfo", VarArray(2147483647, Ref("SCPHistoryEntry"))>>,
    <<"totalByteSizeOfLiveSorobanState", Uint64>>,
    <<"evictedKeys", VarArray(2147483647, Ref("LedgerKey"))>> >>)

LedgerCloseMeta == Union(Int32, <<
    ArmOf(<<0>>, LedgerCloseMetaV0), ArmOf(<<1>>, LedgerCloseMetaV1),
    ArmOf(<<2>>, LedgerCloseMetaV2)>>, None)

LedgerCloseMetaBatch == Struct(<<
    <<"startSequence", Uint32>>, <<"endSequence", Uint32>>,
    <<"ledgerCloseMetas", VarArray(2147483647, Ref("LedgerCloseMeta"))>> >>)

StoredTransactionSet == Union(Int32, <<
    ArmOf(<<0>>, TransactionSet),
    ArmOf(<<1>>, Ref("GeneralizedTransactionSet"))>>, None)

StoredDebugTransactionSet == Struct(<<
    <<"txSet", Ref("StoredTransactionSet")>>, <<"ledgerSeq", Uint32>>,
    <<"scpValue", StellarValue>> >>)

PersistedSCPStateV0 == Struct(<<
    <<"scpEnvelopes", VarArray(2147483647, SCPEnvelope)>>,
    <<"quorumSets", VarArray(2147483647, Lazy("SCPQuorumSet"))>>,
    <<"txSets", VarArray(2147483647, Ref("StoredTransactionSet"))>> >>)

PersistedSCPStateV1 == Struct(<<
    <<"scpEnvelopes", VarArray(2147483647, SCPEnvelope)>>,
    <<"quorumSets", VarArray(2147483647, Lazy("SCPQuorumSet"))>> >>)

PersistedSCPState == Union(Int32, <<
    ArmOf(<<0>>, PersistedSCPStateV0),
    ArmOf(<<1>>, PersistedSCPStateV1)>>, None)

ThresholdIndexes == Enum([
    MasterWeight |-> 0, Low |-> 1, Med |-> 2, High |-> 3])

AccountFlags == Enum([
    RequiredFlag |-> 1, RevocableFlag |-> 2, ImmutableFlag |-> 4,
    ClawbackEnabledFlag |-> 8])

MASK_ACCOUNT_FLAGS == 7
MASK_ACCOUNT_FLAGS_V17 == 15

TrustLineFlags == Enum([
    AuthorizedFlag |-> 1, AuthorizedToMaintainLiabilitiesFlag |-> 2,
    TrustlineClawbackEnabledFlag |-> 4])

MASK_TRUSTLINE_FLAGS == 1
MASK_TRUSTLINE_FLAGS_V13 == 3
MASK_TRUSTLINE_FLAGS_V17 == 7
OfferEntryFlags == Enum([PassiveFlag |-> 1])
MASK_OFFERENTRY_FLAGS == 1
ClaimableBalanceFlags == Enum([ClaimableBalanceClawbackEnabledFlag |-> 1])
MASK_CLAIMABLE_BALANCE_FLAGS == 1
BucketListType == Enum([Live |-> 0, HotArchive |-> 1])

BucketEntryType == Enum([
    Metaentry |-> -1, Liveentry |-> 0, Deadentry |-> 1, Initentry |-> 2])

HotArchiveBucketEntryType == Enum([
    Metaentry |-> -1, Archived |-> 0, Live |-> 1])

BucketMetadataExt == Union(Int32, <<
    VoidArm(<<0>>), ArmOf(<<1>>, BucketListType)>>, None)

BucketMetadata == Struct(<<
    <<"ledgerVersion", Uint32>>, <<"ext", Ref("BucketMetadataExt")>> >>)

BucketEntry == Union(BucketEntryType, <<
    ArmOf(<<"Liveentry", "Initentry">>, LedgerEntry),
    ArmOf(<<"Deadentry">>, Ref("LedgerKey")),
    ArmOf(<<"Metaentry">>, BucketMetadata)>>, None)

HotArchiveBucketEntry == Union(HotArchiveBucketEntryType, <<
    ArmOf(<<"Archived">>, LedgerEntry), ArmOf(<<"Live">>, Ref("LedgerKey")),
    ArmOf(<<"Metaentry">>, BucketMetadata)>>, None)

MASK_LEDGER_HEADER_FLAGS == 7

LedgerHeaderFlags == Enum([
    TradingFlag |-> 1, DepositFlag |-> 2, WithdrawalFlag |-> 4])

ConfigUpgradeSet == Struct(<<
    <<"updatedEntry", VarArray(2147483647, Ref("ConfigSettingEntry"))>> >>)

TransactionResultSet == Struct(<<
    <<"results", VarArray(2147483647, TransactionResultPair)>> >>)

TransactionHistoryEntryExt == Union(Int32, <<
    VoidArm(<<0>>), ArmOf(<<1>>, Ref("GeneralizedTransactionSet"))>>, None)

TransactionHistoryEntry == Struct(<<
    <<"ledgerSeq", Uint32>>, <<"txSet", TransactionSet>>,
    <<"ext", Ref("TransactionHistoryEntryExt")>> >>)

TransactionHistoryResultEntryExt == Union(Int32, <<VoidArm(<<0>>)>>, None)

TransactionHistoryResultEntry == Struct(<<
    <<"ledgerSeq", Uint32>>, <<"txResultSet", TransactionResultSet>>,
    <<"ext", Ref("TransactionHistoryResultEntryExt")>> >>)

InvokeHostFunctionSuccessPreImage == Struct(<<
    <<"returnValue", Lazy("SCVal")>>,
    <<"events", VarArray(2147483647, ContractEvent)>> >>)

ErrorCode == Enum([Misc |-> 0, Data |-> 1, Conf |-> 2, Auth |-> 3, Load |-> 4])
Error == Struct(<<<<"code", ErrorCode>>, <<"msg", XdrString(100)>> >>)
SendMore == Struct(<<<<"numMessages", Uint32>> >>)

SendMoreExtended == Struct(<<
    <<"numMessages", Uint32>>, <<"numBytes", Uint32>> >>)

Curve25519Public == Struct(<<<<"key", FixedOpaque(32)>> >>)

AuthCert == Struct(<<
    <<"pubkey", Curve25519Public>>, <<"expiration", Uint64>>,
    <<"sig", Ref("Signature")>> >>)

Hello == Struct(<<
    <<"ledgerVersion", Uint32>>, <<"overlayVersion", Uint32>>,
    <<"overlayMinVersion", Uint32>>, <<"networkID", Ref("Hash")>>,
    <<"versionStr", XdrString(100)>>, <<"listeningPort", Int32>>,
    <<"peerID", Ref("NodeID")>>, <<"cert", AuthCert>>,
    <<"nonce", Ref("Uint256")>> >>)

AUTH_MSG_FLAG_FLOW_CONTROL_BYTES_REQUESTED == 200
Auth == Struct(<<<<"flags", Int32>> >>)
IPAddrType == Enum([IPv4 |-> 0, IPv6 |-> 1])

PeerAddressIp == Union(IPAddrType, <<
    ArmOf(<<"IPv4">>, FixedOpaque(4)),
    ArmOf(<<"IPv6">>, FixedOpaque(16))>>, None)

PeerAddress == Struct(<<
    <<"ip", Ref("PeerAddressIp")>>, <<"port", Uint32>>,
    <<"numFailures", Uint32>> >>)

MessageType == Enum([
    ErrorMsg |-> 0, Auth |-> 2, DontHave |-> 3, Peers |-> 5, GetTxSet |-> 6,
    TxSet |-> 7, GeneralizedTxSet |-> 17, Transaction |-> 8,
    GetScpQuorumset |-> 9, ScpQuorumset |-> 10, ScpMessage |-> 11,
    GetScpState |-> 12, Hello |-> 13, SendMore |-> 16, SendMoreExtended |-> 20,
    FloodAdvert |-> 18, FloodDemand |-> 19, TimeSlicedSurveyRequest |-> 21,
    TimeSlicedSurveyResponse |-> 22, TimeSlicedSurveyStartCollecting |-> 23,
    TimeSlicedSurveyStopCollecting |-> 24])

DontHave == Struct(<<<<"type", MessageType>>, <<"reqHash", Ref("Uint256")>> >>)
SurveyMessageCommandType == Enum([TimeSlicedSurveyTopology |-> 1])
SurveyMessageResponseType == Enum([SurveyTopologyResponseV2 |-> 2])

TimeSlicedSurveyStartCollectingMessage == Struct(<<
    <<"surveyorID", Ref("NodeID")>>, <<"nonce", Uint32>>,
    <<"ledgerNum", Uint32>> >>)

SignedTimeSlicedSurveyStartCollectingMessage == Struct(<<
    <<"signature", Ref("Signature")>>,
    <<"startCollecting", TimeSlicedSurveyStartCollectingMessage>> >>)

TimeSlicedSurveyStopCollectingMessage == Struct(<<
    <<"surveyorID", Ref("NodeID")>>, <<"nonce", Uint32>>,
    <<"ledgerNum", Uint32>> >>)

SignedTimeSlicedSurveyStopCollectingMessage == Struct(<<
    <<"signature", Ref("Signature")>>,
    <<"stopCollecting", TimeSlicedSurveyStopCollectingMessage>> >>)

SurveyRequestMessage == Struct(<<
    <<"surveyorPeerID", Ref("NodeID")>>, <<"surveyedPeerID", Ref("NodeID")>>,
    <<"ledgerNum", Uint32>>, <<"encryptionKey", Curve25519Public>>,
    <<"commandType", SurveyMessageCommandType>> >>)

TimeSlicedSurveyRequestMessage == Struct(<<
    <<"request", SurveyRequestMessage>>, <<"nonce", Uint32>>,
    <<"inboundPeersIndex", Uint32>>, <<"outboundPeersIndex", Uint32>> >>)

SignedTimeSlicedSurveyRequestMessage == Struct(<<
    <<"requestSignature", Ref("Signature")>>,
    <<"request", TimeSlicedSurveyRequestMessage>> >>)

EncryptedBody == VarOpaque(64000)

SurveyResponseMessage == Struct(<<
    <<"surveyorPeerID", Ref("NodeID")>>, <<"surveyedPeerID", Ref("NodeID")>>,
    <<"ledgerNum", Uint32>>, <<"commandType", SurveyMessageCommandType>>,
    <<"encryptedBody", Ref("EncryptedBody")>> >>)

TimeSlicedSurveyResponseMessage == Struct(<<
    <<"response", SurveyResponseMessage>>, <<"nonce", Uint32>> >>)

SignedTimeSlicedSurveyResponseMessage == Struct(<<
    <<"responseSignature", Ref("Signature")>>,
    <<"response", TimeSlicedSurveyResponseMessage>> >>)

PeerStats == Struct(<<
    <<"id", Ref("NodeID")>>, <<"versionStr", XdrString(100)>>,
    <<"messagesRead", Uint64>>, <<"messagesWritten", Uint64>>,
    <<"bytesRead", Uint64>>, <<"bytesWritten", Uint64>>,
    <<"secondsConnected", Uint64>>, <<"uniqueFloodBytesRecv", Uint64>>,
    <<"duplicateFloodBytesRecv", Uint64>>, <<"uniqueFetchBytesRecv", Uint64>>,
    <<"duplicateFetchBytesRecv", Uint64>>,
    <<"uniqueFloodMessageRecv", Uint64>>,
    <<"duplicateFloodMessageRecv", Uint64>>,
    <<"uniqueFetchMessageRecv", Uint64>>,
    <<"duplicateFetchMessageRecv", Uint64>> >>)

TimeSlicedNodeData == Struct(<<
    <<"addedAuthenticatedPeers", Uint32>>,
    <<"droppedAuthenticatedPeers", Uint32>>,
    <<"totalInboundPeerCount", Uint32>>, <<"totalOutboundPeerCount", Uint32>>,
    <<"p75SCPFirstToSelfLatencyMs", Uint32>>,
    <<"p75SCPSelfToOtherLatencyMs", Uint32>>, <<"lostSyncCount", Uint32>>,
    <<"isValidator", Bool>>, <<"maxInboundPeerCount", Uint32>>,
    <<"maxOutboundPeerCount", Uint32>> >>)

TimeSlicedPeerData == Struct(<<
    <<"peerStats", PeerStats>>, <<"averageLatencyMs", Uint32>> >>)

TimeSlicedPeerDataList == VarArray(25, TimeSlicedPeerData)

TopologyResponseBodyV2 == Struct(<<
    <<"inboundPeers", Ref("TimeSlicedPeerDataList")>>,
    <<"outboundPeers", Ref("TimeSlicedPeerDataList")>>,
    <<"nodeData", TimeSlicedNodeData>> >>)

SurveyResponseBody == Union(SurveyMessageResponseType, <<
    ArmOf(<<"SurveyTopologyResponseV2">>, TopologyResponseBodyV2)>>, None)

TX_ADVERT_VECTOR_MAX_SIZE == 1000
TxAdvertVector == VarArray(TX_ADVERT_VECTOR_MAX_SIZE, Ref("Hash"))
FloodAdvert == Struct(<<<<"txHashes", Ref("TxAdvertVector")>> >>)
TX_DEMAND_VECTOR_MAX_SIZE == 1000
TxDemandVector == VarArray(TX_DEMAND_VECTOR_MAX_SIZE, Ref("Hash"))
FloodDemand == Struct(<<<<"txHashes", Ref("TxDemandVector")>> >>)

StellarMessage == Union(MessageType, <<
    ArmOf(<<"ErrorMsg">>, Error), ArmOf(<<"Hello">>, Hello),
    ArmOf(<<"Auth">>, Auth), ArmOf(<<"DontHave">>, DontHave),
    ArmOf(<<"Peers">>, VarArray(100, PeerAddress)),
    ArmOf(<<"GetTxSet">>, Ref("Uint256")), ArmOf(<<"TxSet">>, TransactionSet),
    ArmOf(<<"GeneralizedTxSet">>, Ref("GeneralizedTransactionSet")),
    ArmOf(<<"Transaction">>, Ref("TransactionEnvelope")),
    ArmOf(<<"TimeSlicedSurveyRequest">>, SignedTimeSlicedSurveyRequestMessage),
    ArmOf(<<"TimeSlicedSurveyResponse">>,
        SignedTimeSlicedSurveyResponseMessage),
    ArmOf(<<"TimeSlicedSurveyStartCollecting">>,
        SignedTimeSlicedSurveyStartCollectingMessage),
    ArmOf(<<"TimeSlicedSurveyStopCollecting">>,
        SignedTimeSlicedSurveyStopCollectingMessage),
    ArmOf(<<"GetScpQuorumset">>, Ref("Uint256")),
    ArmOf(<<"ScpQuorumset">>, Lazy("SCPQuorumSet")),
    ArmOf(<<"ScpMessage">>, SCPEnvelope), ArmOf(<<"GetScpState">>, Uint32),
    ArmOf(<<"SendMore">>, SendMore),
    ArmOf(<<"SendMoreExtended">>, SendMoreExtended),
    ArmOf(<<"FloodAdvert">>, FloodAdvert),
    ArmOf(<<"FloodDemand">>, FloodDemand)>>, None)

HmacSha256Mac == Struct(<<<<"mac", FixedOpaque(32)>> >>)

AuthenticatedMessageV0 == Struct(<<
    <<"sequence", Uint64>>, <<"message", Ref("StellarMessage")>>,
    <<"mac", HmacSha256Mac>> >>)

AuthenticatedMessage == Union(Uint32, <<
    ArmOf(<<0>>, AuthenticatedMessageV0)>>, None)

LIQUIDITY_POOL_FEE_V18 == 30
SorobanAuthorizationEntries == VarArray(2147483647, SorobanAuthorizationEntry)

HashIDPreimageOperationID == Struct(<<
    <<"sourceAccount", Ref("AccountID")>>, <<"seqNum", Ref("SequenceNumber")>>,
    <<"opNum", Uint32>> >>)

HashIDPreimageRevokeID == Struct(<<
    <<"sourceAccount", Ref("AccountID")>>, <<"seqNum", Ref("SequenceNumber")>>,
    <<"opNum", Uint32>>, <<"liquidityPoolID", Ref("PoolID")>>,
    <<"asset", Ref("Asset")>> >>)

HashIDPreimageContractID == Struct(<<
    <<"networkID", Ref("Hash")>>,
    <<"contractIDPreimage", Ref("ContractIDPreimage")>> >>)

HashIDPreimageSorobanAuthorization == Struct(<<
    <<"networkID", Ref("Hash")>>, <<"nonce", Int64>>,
    <<"signatureExpirationLedger", Uint32>>,
    <<"invocation", Lazy("SorobanAuthorizedInvocation")>> >>)

HashIDPreimage == Union(EnvelopeType, <<
    ArmOf(<<"OpId">>, HashIDPreimageOperationID),
    ArmOf(<<"PoolRevokeOpId">>, HashIDPreimageRevokeID),
    ArmOf(<<"ContractId">>, HashIDPreimageContractID),
    ArmOf(<<"SorobanAuthorization">>, HashIDPreimageSorobanAuthorization)>>,
        None)

TransactionSignaturePayloadTaggedTransaction == Union(EnvelopeType, <<
    ArmOf(<<"Tx">>, Transaction),
    ArmOf(<<"TxFeeBump">>, FeeBumpTransaction)>>, None)

TransactionSignaturePayload == Struct(<<
    <<"networkId", Ref("Hash")>>,
    <<"taggedTransaction",
        Ref("TransactionSignaturePayloadTaggedTransaction")>> >>)

Curve25519Secret == Struct(<<<<"key", FixedOpaque(32)>> >>)
HmacSha256Key == Struct(<<<<"key", FixedOpaque(32)>> >>)
ShortHashSeed == Struct(<<<<"seed", FixedOpaque(16)>> >>)
BinaryFuseFilterType == Enum([B8Bit |-> 0, B16Bit |-> 1, B32Bit |-> 2])

SerializedBinaryFuseFilter == Struct(<<
    <<"type", BinaryFuseFilterType>>, <<"inputHashSeed", ShortHashSeed>>,
    <<"filterSeed", ShortHashSeed>>, <<"segmentLength", Uint32>>,
    <<"segementLengthMask", Uint32>>, <<"segmentCount", Uint32>>,
    <<"segmentCountLength", Uint32>>, <<"fingerprintLength", Uint32>>,
    <<"fingerprints", VarOpaque(2147483647)>> >>)

(* What the module exports, for lazy() and for the compat classes. *)
CodecNamed ==
  [ 
   Uint32 |-> Uint32, Int32 |-> Int32, Uint64 |-> Uint64, Int64 |-> Int64,
   ConfigSettingContractExecutionLanesV0 |->
       ConfigSettingContractExecutionLanesV0,
   ConfigSettingContractComputeV0 |-> ConfigSettingContractComputeV0,
   ConfigSettingContractParallelComputeV0 |->
       ConfigSettingContractParallelComputeV0,
   ConfigSettingContractLedgerCostV0 |-> ConfigSettingContractLedgerCostV0,
   ConfigSettingContractLedgerCostExtV0 |->
       ConfigSettingContractLedgerCostExtV0,
   ConfigSettingContractHistoricalDataV0 |->
       ConfigSettingContractHistoricalDataV0,
   ConfigSettingContractEventsV0 |-> ConfigSettingContractEventsV0,
   ConfigSettingContractBandwidthV0 |-> ConfigSettingContractBandwidthV0,
   ContractCostType |-> ContractCostType, ExtensionPoint |-> ExtensionPoint,
   ContractCostParamEntry |-> ContractCostParamEntry,
   StateArchivalSettings |-> StateArchivalSettings,
   EvictionIterator |-> EvictionIterator,
   ConfigSettingSCPTiming |-> ConfigSettingSCPTiming,
   ContractCostParams |-> ContractCostParams,
   ConfigSettingID |-> ConfigSettingID,
   ConfigSettingEntry |-> ConfigSettingEntry, SCEnvMetaKind |-> SCEnvMetaKind,
   SCEnvMetaEntryInterfaceVersion |-> SCEnvMetaEntryInterfaceVersion,
   SCEnvMetaEntry |-> SCEnvMetaEntry, SCMetaV0 |-> SCMetaV0,
   SCMetaKind |-> SCMetaKind, SCMetaEntry |-> SCMetaEntry,
   SCSpecType |-> SCSpecType, SCSpecTypeResult |-> SCSpecTypeResult,
   SCSpecTypeVec |-> SCSpecTypeVec, SCSpecTypeMap |-> SCSpecTypeMap,
   SCSpecTypeTuple |-> SCSpecTypeTuple, SCSpecTypeBytesN |-> SCSpecTypeBytesN,
   SCSpecTypeUDT |-> SCSpecTypeUDT, SCSpecTypeDef |-> SCSpecTypeDef,
   SCSpecTypeOption |-> SCSpecTypeOption,
   SCSpecUDTStructFieldV0 |-> SCSpecUDTStructFieldV0,
   SCSpecUDTStructV0 |-> SCSpecUDTStructV0,
   SCSpecUDTUnionCaseVoidV0 |-> SCSpecUDTUnionCaseVoidV0,
   SCSpecUDTUnionCaseTupleV0 |-> SCSpecUDTUnionCaseTupleV0,
   SCSpecUDTUnionCaseV0Kind |-> SCSpecUDTUnionCaseV0Kind,
   SCSpecUDTUnionCaseV0 |-> SCSpecUDTUnionCaseV0,
   SCSpecUDTUnionV0 |-> SCSpecUDTUnionV0,
   SCSpecUDTEnumCaseV0 |-> SCSpecUDTEnumCaseV0,
   SCSpecUDTEnumV0 |-> SCSpecUDTEnumV0,
   SCSpecUDTErrorEnumCaseV0 |-> SCSpecUDTErrorEnumCaseV0,
   SCSpecUDTErrorEnumV0 |-> SCSpecUDTErrorEnumV0,
   SCSpecFunctionInputV0 |-> SCSpecFunctionInputV0, SCSymbol |-> SCSymbol,
   SCSpecFunctionV0 |-> SCSpecFunctionV0,
   SCSpecEventParamLocationV0 |-> SCSpecEventParamLocationV0,
   SCSpecEventParamV0 |-> SCSpecEventParamV0,
   SCSpecEventDataFormat |-> SCSpecEventDataFormat,
   SCSpecEventV0 |-> SCSpecEventV0, SCSpecEntryKind |-> SCSpecEntryKind,
   SCSpecEntry |-> SCSpecEntry, SCValType |-> SCValType,
   SCErrorType |-> SCErrorType, SCErrorCode |-> SCErrorCode,
   SCError |-> SCError, UInt128Parts |-> UInt128Parts,
   Int128Parts |-> Int128Parts, UInt256Parts |-> UInt256Parts,
   Int256Parts |-> Int256Parts,
   ContractExecutableType |-> ContractExecutableType, Hash |-> Hash,
   ContractExecutable |-> ContractExecutable, SCAddressType |-> SCAddressType,
   Uint256 |-> Uint256, MuxedEd25519Account |-> MuxedEd25519Account,
   PublicKeyType |-> PublicKeyType, PublicKey |-> PublicKey,
   AccountID |-> AccountID, ContractID |-> ContractID,
   ClaimableBalanceIDType |-> ClaimableBalanceIDType,
   ClaimableBalanceID |-> ClaimableBalanceID, PoolID |-> PoolID,
   SCAddress |-> SCAddress, TimePoint |-> TimePoint, Duration |-> Duration,
   SCBytes |-> SCBytes, SCString |-> SCString, SCMapEntry |-> SCMapEntry,
   SCMap |-> SCMap, SCContractInstance |-> SCContractInstance,
   SCNonceKey |-> SCNonceKey, SCVal |-> SCVal, SCVec |-> SCVec,
   UpgradeType |-> UpgradeType, StellarValueType |-> StellarValueType,
   NodeID |-> NodeID, Signature |-> Signature,
   LedgerCloseValueSignature |-> LedgerCloseValueSignature,
   StellarValueExt |-> StellarValueExt, StellarValue |-> StellarValue,
   LedgerHeaderExtensionV1Ext |-> LedgerHeaderExtensionV1Ext,
   LedgerHeaderExtensionV1 |-> LedgerHeaderExtensionV1,
   LedgerHeaderExt |-> LedgerHeaderExt, LedgerHeader |-> LedgerHeader,
   LedgerHeaderHistoryEntryExt |-> LedgerHeaderHistoryEntryExt,
   LedgerHeaderHistoryEntry |-> LedgerHeaderHistoryEntry,
   EnvelopeType |-> EnvelopeType, SequenceNumber |-> SequenceNumber,
   TimeBounds |-> TimeBounds, MemoType |-> MemoType, Memo |-> Memo,
   CryptoKeyType |-> CryptoKeyType,
   MuxedAccountMed25519 |-> MuxedAccountMed25519,
   MuxedAccount |-> MuxedAccount, OperationType |-> OperationType,
   CreateAccountOp |-> CreateAccountOp, AssetType |-> AssetType,
   AssetCode4 |-> AssetCode4, AlphaNum4 |-> AlphaNum4,
   AssetCode12 |-> AssetCode12, AlphaNum12 |-> AlphaNum12, Asset |-> Asset,
   PaymentOp |-> PaymentOp,
   PathPaymentStrictReceiveOp |-> PathPaymentStrictReceiveOp, Price |-> Price,
   ManageSellOfferOp |-> ManageSellOfferOp,
   CreatePassiveSellOfferOp |-> CreatePassiveSellOfferOp,
   String32 |-> String32, SignerKeyType |-> SignerKeyType,
   SignerKeyEd25519SignedPayload |-> SignerKeyEd25519SignedPayload,
   SignerKey |-> SignerKey, Signer |-> Signer, SetOptionsOp |-> SetOptionsOp,
   LiquidityPoolType |-> LiquidityPoolType,
   LiquidityPoolConstantProductParameters |->
       LiquidityPoolConstantProductParameters,
   LiquidityPoolParameters |-> LiquidityPoolParameters,
   ChangeTrustAsset |-> ChangeTrustAsset, ChangeTrustOp |-> ChangeTrustOp,
   AssetCode |-> AssetCode, AllowTrustOp |-> AllowTrustOp,
   String64 |-> String64, DataValue |-> DataValue,
   ManageDataOp |-> ManageDataOp, BumpSequenceOp |-> BumpSequenceOp,
   ManageBuyOfferOp |-> ManageBuyOfferOp,
   PathPaymentStrictSendOp |-> PathPaymentStrictSendOp,
   ClaimantType |-> ClaimantType, ClaimPredicateType |-> ClaimPredicateType,
   ClaimPredicate |-> ClaimPredicate, ClaimantV0 |-> ClaimantV0,
   Claimant |-> Claimant,
   CreateClaimableBalanceOp |-> CreateClaimableBalanceOp,
   ClaimClaimableBalanceOp |-> ClaimClaimableBalanceOp,
   BeginSponsoringFutureReservesOp |-> BeginSponsoringFutureReservesOp,
   RevokeSponsorshipType |-> RevokeSponsorshipType,
   LedgerEntryType |-> LedgerEntryType, LedgerKeyAccount |-> LedgerKeyAccount,
   TrustLineAsset |-> TrustLineAsset,
   LedgerKeyTrustLine |-> LedgerKeyTrustLine,
   LedgerKeyOffer |-> LedgerKeyOffer, LedgerKeyData |-> LedgerKeyData,
   LedgerKeyClaimableBalance |-> LedgerKeyClaimableBalance,
   LedgerKeyLiquidityPool |-> LedgerKeyLiquidityPool,
   ContractDataDurability |-> ContractDataDurability,
   LedgerKeyContractData |-> LedgerKeyContractData,
   LedgerKeyContractCode |-> LedgerKeyContractCode,
   LedgerKeyConfigSetting |-> LedgerKeyConfigSetting,
   LedgerKeyTtl |-> LedgerKeyTtl, LedgerKey |-> LedgerKey,
   RevokeSponsorshipOpSigner |-> RevokeSponsorshipOpSigner,
   RevokeSponsorshipOp |-> RevokeSponsorshipOp, ClawbackOp |-> ClawbackOp,
   ClawbackClaimableBalanceOp |-> ClawbackClaimableBalanceOp,
   SetTrustLineFlagsOp |-> SetTrustLineFlagsOp,
   LiquidityPoolDepositOp |-> LiquidityPoolDepositOp,
   LiquidityPoolWithdrawOp |-> LiquidityPoolWithdrawOp,
   HostFunctionType |-> HostFunctionType,
   InvokeContractArgs |-> InvokeContractArgs,
   ContractIDPreimageType |-> ContractIDPreimageType,
   ContractIDPreimageFromAddress |-> ContractIDPreimageFromAddress,
   ContractIDPreimage |-> ContractIDPreimage,
   CreateContractArgs |-> CreateContractArgs,
   CreateContractArgsV2 |-> CreateContractArgsV2,
   HostFunction |-> HostFunction,
   SorobanCredentialsType |-> SorobanCredentialsType,
   SorobanAddressCredentials |-> SorobanAddressCredentials,
   SorobanCredentials |-> SorobanCredentials,
   SorobanAuthorizedFunctionType |-> SorobanAuthorizedFunctionType,
   SorobanAuthorizedFunction |-> SorobanAuthorizedFunction,
   SorobanAuthorizedInvocation |-> SorobanAuthorizedInvocation,
   SorobanAuthorizationEntry |-> SorobanAuthorizationEntry,
   InvokeHostFunctionOp |-> InvokeHostFunctionOp,
   ExtendFootprintTTLOp |-> ExtendFootprintTTLOp,
   RestoreFootprintOp |-> RestoreFootprintOp, OperationBody |-> OperationBody,
   Operation |-> Operation, TransactionV0Ext |-> TransactionV0Ext,
   TransactionV0 |-> TransactionV0, SignatureHint |-> SignatureHint,
   DecoratedSignature |-> DecoratedSignature,
   TransactionV0Envelope |-> TransactionV0Envelope,
   PreconditionType |-> PreconditionType, LedgerBounds |-> LedgerBounds,
   PreconditionsV2 |-> PreconditionsV2, Preconditions |-> Preconditions,
   SorobanResourcesExtV0 |-> SorobanResourcesExtV0,
   SorobanTransactionDataExt |-> SorobanTransactionDataExt,
   LedgerFootprint |-> LedgerFootprint, SorobanResources |-> SorobanResources,
   SorobanTransactionData |-> SorobanTransactionData,
   TransactionExt |-> TransactionExt, Transaction |-> Transaction,
   TransactionV1Envelope |-> TransactionV1Envelope,
   FeeBumpTransactionInnerTx |-> FeeBumpTransactionInnerTx,
   FeeBumpTransactionExt |-> FeeBumpTransactionExt,
   FeeBumpTransaction |-> FeeBumpTransaction,
   FeeBumpTransactionEnvelope |-> FeeBumpTransactionEnvelope,
   TransactionEnvelope |-> TransactionEnvelope,
   TransactionSet |-> TransactionSet,
   TransactionResultCode |-> TransactionResultCode,
   OperationResultCode |-> OperationResultCode,
   CreateAccountResultCode |-> CreateAccountResultCode,
   CreateAccountResult |-> CreateAccountResult,
   PaymentResultCode |-> PaymentResultCode, PaymentResult |-> PaymentResult,
   PathPaymentStrictReceiveResultCode |-> PathPaymentStrictReceiveResultCode,
   ClaimAtomType |-> ClaimAtomType, ClaimOfferAtomV0 |-> ClaimOfferAtomV0,
   ClaimOfferAtom |-> ClaimOfferAtom,
   ClaimLiquidityAtom |-> ClaimLiquidityAtom, ClaimAtom |-> ClaimAtom,
   SimplePaymentResult |-> SimplePaymentResult,
   PathPaymentStrictReceiveResultSuccess |->
       PathPaymentStrictReceiveResultSuccess,
   PathPaymentStrictReceiveResult |-> PathPaymentStrictReceiveResult,
   ManageSellOfferResultCode |-> ManageSellOfferResultCode,
   ManageOfferEffect |-> ManageOfferEffect, OfferEntryExt |-> OfferEntryExt,
   OfferEntry |-> OfferEntry,
   ManageOfferSuccessResultOffer |-> ManageOfferSuccessResultOffer,
   ManageOfferSuccessResult |-> ManageOfferSuccessResult,
   ManageSellOfferResult |-> ManageSellOfferResult,
   SetOptionsResultCode |-> SetOptionsResultCode,
   SetOptionsResult |-> SetOptionsResult,
   ChangeTrustResultCode |-> ChangeTrustResultCode,
   ChangeTrustResult |-> ChangeTrustResult,
   AllowTrustResultCode |-> AllowTrustResultCode,
   AllowTrustResult |-> AllowTrustResult,
   AccountMergeResultCode |-> AccountMergeResultCode,
   AccountMergeResult |-> AccountMergeResult,
   InflationResultCode |-> InflationResultCode,
   InflationPayout |-> InflationPayout, InflationResult |-> InflationResult,
   ManageDataResultCode |-> ManageDataResultCode,
   ManageDataResult |-> ManageDataResult,
   BumpSequenceResultCode |-> BumpSequenceResultCode,
   BumpSequenceResult |-> BumpSequenceResult,
   ManageBuyOfferResultCode |-> ManageBuyOfferResultCode,
   ManageBuyOfferResult |-> ManageBuyOfferResult,
   PathPaymentStrictSendResultCode |-> PathPaymentStrictSendResultCode,
   PathPaymentStrictSendResultSuccess |-> PathPaymentStrictSendResultSuccess,
   PathPaymentStrictSendResult |-> PathPaymentStrictSendResult,
   CreateClaimableBalanceResultCode |-> CreateClaimableBalanceResultCode,
   CreateClaimableBalanceResult |-> CreateClaimableBalanceResult,
   ClaimClaimableBalanceResultCode |-> ClaimClaimableBalanceResultCode,
   ClaimClaimableBalanceResult |-> ClaimClaimableBalanceResult,
   BeginSponsoringFutureReservesResultCode |->
       BeginSponsoringFutureReservesResultCode,
   BeginSponsoringFutureReservesResult |-> BeginSponsoringFutureReservesResult,
   EndSponsoringFutureReservesResultCode |->
       EndSponsoringFutureReservesResultCode,
   EndSponsoringFutureReservesResult |-> EndSponsoringFutureReservesResult,
   RevokeSponsorshipResultCode |-> RevokeSponsorshipResultCode,
   RevokeSponsorshipResult |-> RevokeSponsorshipResult,
   ClawbackResultCode |-> ClawbackResultCode,
   ClawbackResult |-> ClawbackResult,
   ClawbackClaimableBalanceResultCode |-> ClawbackClaimableBalanceResultCode,
   ClawbackClaimableBalanceResult |-> ClawbackClaimableBalanceResult,
   SetTrustLineFlagsResultCode |-> SetTrustLineFlagsResultCode,
   SetTrustLineFlagsResult |-> SetTrustLineFlagsResult,
   LiquidityPoolDepositResultCode |-> LiquidityPoolDepositResultCode,
   LiquidityPoolDepositResult |-> LiquidityPoolDepositResult,
   LiquidityPoolWithdrawResultCode |-> LiquidityPoolWithdrawResultCode,
   LiquidityPoolWithdrawResult |-> LiquidityPoolWithdrawResult,
   InvokeHostFunctionResultCode |-> InvokeHostFunctionResultCode,
   InvokeHostFunctionResult |-> InvokeHostFunctionResult,
   ExtendFootprintTTLResultCode |-> ExtendFootprintTTLResultCode,
   ExtendFootprintTTLResult |-> ExtendFootprintTTLResult,
   RestoreFootprintResultCode |-> RestoreFootprintResultCode,
   RestoreFootprintResult |-> RestoreFootprintResult,
   OperationResultTr |-> OperationResultTr,
   OperationResult |-> OperationResult,
   InnerTransactionResultResult |-> InnerTransactionResultResult,
   InnerTransactionResultExt |-> InnerTransactionResultExt,
   InnerTransactionResult |-> InnerTransactionResult,
   InnerTransactionResultPair |-> InnerTransactionResultPair,
   TransactionResultResult |-> TransactionResultResult,
   TransactionResultExt |-> TransactionResultExt,
   TransactionResult |-> TransactionResult,
   TransactionResultPair |-> TransactionResultPair,
   LedgerEntryChangeType |-> LedgerEntryChangeType, Thresholds |-> Thresholds,
   Liabilities |-> Liabilities,
   SponsorshipDescriptor |-> SponsorshipDescriptor,
   AccountEntryExtensionV3 |-> AccountEntryExtensionV3,
   AccountEntryExtensionV2Ext |-> AccountEntryExtensionV2Ext,
   AccountEntryExtensionV2 |-> AccountEntryExtensionV2,
   AccountEntryExtensionV1Ext |-> AccountEntryExtensionV1Ext,
   AccountEntryExtensionV1 |-> AccountEntryExtensionV1,
   AccountEntryExt |-> AccountEntryExt, AccountEntry |-> AccountEntry,
   TrustLineEntryExtensionV2Ext |-> TrustLineEntryExtensionV2Ext,
   TrustLineEntryExtensionV2 |-> TrustLineEntryExtensionV2,
   TrustLineEntryV1Ext |-> TrustLineEntryV1Ext,
   TrustLineEntryV1 |-> TrustLineEntryV1,
   TrustLineEntryExt |-> TrustLineEntryExt, TrustLineEntry |-> TrustLineEntry,
   DataEntryExt |-> DataEntryExt, DataEntry |-> DataEntry,
   ClaimableBalanceEntryExtensionV1Ext |-> ClaimableBalanceEntryExtensionV1Ext,
   ClaimableBalanceEntryExtensionV1 |-> ClaimableBalanceEntryExtensionV1,
   ClaimableBalanceEntryExt |-> ClaimableBalanceEntryExt,
   ClaimableBalanceEntry |-> ClaimableBalanceEntry,
   LiquidityPoolEntryConstantProduct |-> LiquidityPoolEntryConstantProduct,
   LiquidityPoolEntryBody |-> LiquidityPoolEntryBody,
   LiquidityPoolEntry |-> LiquidityPoolEntry,
   ContractDataEntry |-> ContractDataEntry,
   ContractCodeCostInputs |-> ContractCodeCostInputs,
   ContractCodeEntryV1 |-> ContractCodeEntryV1,
   ContractCodeEntryExt |-> ContractCodeEntryExt,
   ContractCodeEntry |-> ContractCodeEntry, TTLEntry |-> TTLEntry,
   LedgerEntryData |-> LedgerEntryData,
   LedgerEntryExtensionV1Ext |-> LedgerEntryExtensionV1Ext,
   LedgerEntryExtensionV1 |-> LedgerEntryExtensionV1,
   LedgerEntryExt |-> LedgerEntryExt, LedgerEntry |-> LedgerEntry,
   LedgerEntryChange |-> LedgerEntryChange,
   LedgerEntryChanges |-> LedgerEntryChanges, OperationMeta |-> OperationMeta,
   TransactionMetaV1 |-> TransactionMetaV1,
   TransactionMetaV2 |-> TransactionMetaV2,
   SorobanTransactionMetaExtV1 |-> SorobanTransactionMetaExtV1,
   SorobanTransactionMetaExt |-> SorobanTransactionMetaExt,
   ContractEventType |-> ContractEventType,
   ContractEventV0 |-> ContractEventV0,
   ContractEventBody |-> ContractEventBody, ContractEvent |-> ContractEvent,
   DiagnosticEvent |-> DiagnosticEvent,
   SorobanTransactionMeta |-> SorobanTransactionMeta,
   TransactionMetaV3 |-> TransactionMetaV3,
   OperationMetaV2 |-> OperationMetaV2,
   SorobanTransactionMetaV2 |-> SorobanTransactionMetaV2,
   TransactionEventStage |-> TransactionEventStage,
   TransactionEvent |-> TransactionEvent,
   TransactionMetaV4 |-> TransactionMetaV4,
   TransactionMeta |-> TransactionMeta,
   TransactionResultMeta |-> TransactionResultMeta,
   LedgerUpgradeType |-> LedgerUpgradeType,
   ConfigUpgradeSetKey |-> ConfigUpgradeSetKey,
   LedgerUpgrade |-> LedgerUpgrade, UpgradeEntryMeta |-> UpgradeEntryMeta,
   SCPQuorumSet |-> SCPQuorumSet, SCPStatementType |-> SCPStatementType,
   Value |-> Value, SCPBallot |-> SCPBallot,
   SCPStatementPrepare |-> SCPStatementPrepare,
   SCPStatementConfirm |-> SCPStatementConfirm,
   SCPStatementExternalize |-> SCPStatementExternalize,
   SCPNomination |-> SCPNomination,
   SCPStatementPledges |-> SCPStatementPledges, SCPStatement |-> SCPStatement,
   SCPEnvelope |-> SCPEnvelope, LedgerSCPMessages |-> LedgerSCPMessages,
   SCPHistoryEntryV0 |-> SCPHistoryEntryV0,
   SCPHistoryEntry |-> SCPHistoryEntry,
   LedgerCloseMetaV0 |-> LedgerCloseMetaV0,
   LedgerCloseMetaExtV1 |-> LedgerCloseMetaExtV1,
   LedgerCloseMetaExt |-> LedgerCloseMetaExt,
   TxSetComponentType |-> TxSetComponentType,
   TxSetComponentTxsMaybeDiscountedFee |-> TxSetComponentTxsMaybeDiscountedFee,
   TxSetComponent |-> TxSetComponent,
   DependentTxCluster |-> DependentTxCluster,
   ParallelTxExecutionStage |-> ParallelTxExecutionStage,
   ParallelTxsComponent |-> ParallelTxsComponent,
   TransactionPhase |-> TransactionPhase,
   TransactionSetV1 |-> TransactionSetV1,
   GeneralizedTransactionSet |-> GeneralizedTransactionSet,
   LedgerCloseMetaV1 |-> LedgerCloseMetaV1,
   TransactionResultMetaV1 |-> TransactionResultMetaV1,
   LedgerCloseMetaV2 |-> LedgerCloseMetaV2,
   LedgerCloseMeta |-> LedgerCloseMeta,
   LedgerCloseMetaBatch |-> LedgerCloseMetaBatch,
   StoredTransactionSet |-> StoredTransactionSet,
   StoredDebugTransactionSet |-> StoredDebugTransactionSet,
   PersistedSCPStateV0 |-> PersistedSCPStateV0,
   PersistedSCPStateV1 |-> PersistedSCPStateV1,
   PersistedSCPState |-> PersistedSCPState,
   ThresholdIndexes |-> ThresholdIndexes, AccountFlags |-> AccountFlags,
   TrustLineFlags |-> TrustLineFlags, OfferEntryFlags |-> OfferEntryFlags,
   ClaimableBalanceFlags |-> ClaimableBalanceFlags,
   BucketListType |-> BucketListType, BucketEntryType |-> BucketEntryType,
   HotArchiveBucketEntryType |-> HotArchiveBucketEntryType,
   BucketMetadataExt |-> BucketMetadataExt, BucketMetadata |-> BucketMetadata,
   BucketEntry |-> BucketEntry,
   HotArchiveBucketEntry |-> HotArchiveBucketEntry,
   LedgerHeaderFlags |-> LedgerHeaderFlags,
   ConfigUpgradeSet |-> ConfigUpgradeSet,
   TransactionResultSet |-> TransactionResultSet,
   TransactionHistoryEntryExt |-> TransactionHistoryEntryExt,
   TransactionHistoryEntry |-> TransactionHistoryEntry,
   TransactionHistoryResultEntryExt |-> TransactionHistoryResultEntryExt,
   TransactionHistoryResultEntry |-> TransactionHistoryResultEntry,
   InvokeHostFunctionSuccessPreImage |-> InvokeHostFunctionSuccessPreImage,
   ErrorCode |-> ErrorCode, Error |-> Error, SendMore |-> SendMore,
   SendMoreExtended |-> SendMoreExtended,
   Curve25519Public |-> Curve25519Public, AuthCert |-> AuthCert,
   Hello |-> Hello, Auth |-> Auth, IPAddrType |-> IPAddrType,
   PeerAddressIp |-> PeerAddressIp, PeerAddress |-> PeerAddress,
   MessageType |-> MessageType, DontHave |-> DontHave,
   SurveyMessageCommandType |-> SurveyMessageCommandType,
   SurveyMessageResponseType |-> SurveyMessageResponseType,
   TimeSlicedSurveyStartCollectingMessage |->
       TimeSlicedSurveyStartCollectingMessage,
   SignedTimeSlicedSurveyStartCollectingMessage |->
       SignedTimeSlicedSurveyStartCollectingMessage,
   TimeSlicedSurveyStopCollectingMessage |->
       TimeSlicedSurveyStopCollectingMessage,
   SignedTimeSlicedSurveyStopCollectingMessage |->
       SignedTimeSlicedSurveyStopCollectingMessage,
   SurveyRequestMessage |-> SurveyRequestMessage,
   TimeSlicedSurveyRequestMessage |-> TimeSlicedSurveyRequestMessage,
   SignedTimeSlicedSurveyRequestMessage |->
       SignedTimeSlicedSurveyRequestMessage,
   EncryptedBody |-> EncryptedBody,
   SurveyResponseMessage |-> SurveyResponseMessage,
   TimeSlicedSurveyResponseMessage |-> TimeSlicedSurveyResponseMessage,
   SignedTimeSlicedSurveyResponseMessage |->
       SignedTimeSlicedSurveyResponseMessage,
   PeerStats |-> PeerStats, TimeSlicedNodeData |-> TimeSlicedNodeData,
   TimeSlicedPeerData |-> TimeSlicedPeerData,
   TimeSlicedPeerDataList |-> TimeSlicedPeerDataList,
   TopologyResponseBodyV2 |-> TopologyResponseBodyV2,
   SurveyResponseBody |-> SurveyResponseBody,
   TxAdvertVector |-> TxAdvertVector, FloodAdvert |-> FloodAdvert,
   TxDemandVector |-> TxDemandVector, FloodDemand |-> FloodDemand,
   StellarMessage |-> StellarMessage, HmacSha256Mac |-> HmacSha256Mac,
   AuthenticatedMessageV0 |-> AuthenticatedMessageV0,
   AuthenticatedMessage |-> AuthenticatedMessage,
   SorobanAuthorizationEntries |-> SorobanAuthorizationEntries,
   HashIDPreimageOperationID |-> HashIDPreimageOperationID,
   HashIDPreimageRevokeID |-> HashIDPreimageRevokeID,
   HashIDPreimageContractID |-> HashIDPreimageContractID,
   HashIDPreimageSorobanAuthorization |-> HashIDPreimageSorobanAuthorization,
   HashIDPreimage |-> HashIDPreimage,
   TransactionSignaturePayloadTaggedTransaction |->
       TransactionSignaturePayloadTaggedTransaction,
   TransactionSignaturePayload |-> TransactionSignaturePayload,
   Curve25519Secret |-> Curve25519Secret, HmacSha256Key |-> HmacSha256Key,
   ShortHashSeed |-> ShortHashSeed,
   BinaryFuseFilterType |-> BinaryFuseFilterType,
   SerializedBinaryFuseFilter |-> SerializedBinaryFuseFilter]
=============================================================================
