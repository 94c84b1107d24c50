--------------------------- MODULE HorizonRequests ---------------------------
(***************************************************************************)
(* What the two Horizon interfaces ask for: the call builders of           *)
(* packages/stellar-sdk-comp, objects that setters change, and the methods *)
(* of packages/horizon-client, which take all options at once.             *)
(*                                                                         *)
(* A path is a sequence of segments, in which "id" stands for the argument *)
(* of the method; a query is a function from names to values.              *)
(***************************************************************************)
EXTENDS Sequences, FiniteSets, Integers

Nothing == <<>>   \* no parameters, no setters

(* Object.assign({}, f, g), and an object of one name.                     *)
assign(f, g) ==
  [n \in DOMAIN f \cup DOMAIN g |-> IF n \in DOMAIN g THEN g[n] ELSE f[n]]
Only(name, value) == [n \in {name} |-> value]

-----------------------------------------------------------------------------
(* An asset is a record [type, code, issuer]; the native one has neither   *)
(* code nor issuer as an AssetId, and is told by its type.                 *)

IsNative(a) == a.type = "native"
assetToString(a) == IF IsNative(a) THEN "native" ELSE a.code \o ":" \o a.issuer
assetList(as) == [i \in DOMAIN as |-> assetToString(as[i])]
AssetParam(type, code, issuer) == [type |-> type, code |-> code, issuer |-> issuer]
AssetParams == [
  selling |-> AssetParam("selling_asset_type", "selling_asset_code", "selling_asset_issuer"),
  buying |-> AssetParam("buying_asset_type", "buying_asset_code", "buying_asset_issuer"),
  base |-> AssetParam("base_asset_type", "base_asset_code", "base_asset_issuer"),
  counter |-> AssetParam("counter_asset_type", "counter_asset_code", "counter_asset_issuer"),
  destination |-> AssetParam("destination_asset_type", "destination_asset_code",
                             "destination_asset_issuer"),
  source |-> AssetParam("source_asset_type", "source_asset_code", "source_asset_issuer")]
assetToParams(prefix, a) ==
  LET name == AssetParams[prefix]
      credit == assign(Only(name.code, a.code), Only(name.issuer, a.issuer))
  IN  assign(Only(name.type, a.type), IF IsNative(a) THEN Nothing ELSE credit)

(* How a value enters a query: as it is, as an asset's text, as the texts  *)
(* of a list of assets, or as up to three parameters.                      *)
Plain(name) == [kind |-> "plain", name |-> name]
Text(name) == [kind |-> "text", name |-> name]
Texts(name) == [kind |-> "texts", name |-> name]
Parts(prefix) == [kind |-> "parts", name |-> prefix]

Query(entry, value) ==
  CASE entry.kind = "plain" -> Only(entry.name, value)
    [] entry.kind = "text" -> Only(entry.name, assetToString(value))
    [] entry.kind = "texts" -> Only(entry.name, assetList(value))
    [] entry.kind = "parts" -> assetToParams(entry.name, value)

At(path, id) == [i \in DOMAIN path |-> IF path[i] = "id" THEN id ELSE path[i]]

-----------------------------------------------------------------------------
(* The call builders: the segments a new one has, the setters that replace *)
(* them, and those that add to the query.  Some are made with all they     *)
(* need, and one constructor stands for each shape of its arguments.       *)

Of(parent, child) == <<parent, "id", child>>
Builder(segments, paths, filters) ==
  [segments |-> segments, paths |-> paths, filters |-> filters]
Constructors == {"constructor", "constructorOfAssets", "constructorWithOffset"}

AccountCallBuilder == Builder(<<"accounts">>, Nothing,
  [forSigner |-> <<Plain("signer")>>, forAsset |-> <<Text("asset")>>,
   sponsor |-> <<Plain("sponsor")>>, forLiquidityPool |-> <<Plain("liquidity_pool")>>])
LedgerCallBuilder == Builder(<<"ledgers">>, Nothing, Nothing)
TransactionCallBuilder == Builder(<<"transactions">>,
  [forAccount |-> Of("accounts", "transactions"), forLedger |-> Of("ledgers", "transactions"),
   forClaimableBalance |-> Of("claimable_balances", "transactions"),
   forLiquidityPool |-> Of("liquidity_pools", "transactions")],
  [includeFailed |-> <<Plain("include_failed")>>])
OperationCallBuilder == Builder(<<"operations">>,
  [forAccount |-> Of("accounts", "operations"), forLedger |-> Of("ledgers", "operations"),
   forTransaction |-> Of("transactions", "operations"),
   forClaimableBalance |-> Of("claimable_balances", "operations"),
   forLiquidityPool |-> Of("liquidity_pools", "operations")],
  [includeFailed |-> <<Plain("include_failed")>>, join |-> <<Plain("join")>>])
PaymentCallBuilder == Builder(<<"payments">>,
  [forAccount |-> Of("accounts", "payments"), forLedger |-> Of("ledgers", "payments"),
   forTransaction |-> Of("transactions", "payments")],
  [includeFailed |-> <<Plain("include_failed")>>])
EffectCallBuilder == Builder(<<"effects">>,
  [forAccount |-> Of("accounts", "effects"), forLedger |-> Of("ledgers", "effects"),
   forTransaction |-> Of("transactions", "effects"), forOperation |-> Of("operations", "effects"),
   forLiquidityPool |-> Of("liquidity_pools", "effects")],
  Nothing)
OfferCallBuilder == Builder(<<"offers">>,
  [forAccount |-> Of("accounts", "offers")],
  [selling |-> <<Parts("selling")>>, buying |-> <<Parts("buying")>>,
   seller |-> <<Plain("seller")>>, sponsor |-> <<Plain("sponsor")>>])
TradesCallBuilder == Builder(<<"trades">>,
  [forAccount |-> Of("accounts", "trades"), forLiquidityPool |-> Of("liquidity_pools", "trades")],
  [forAssetPair |-> <<Parts("base"), Parts("counter")>>, forOffer |-> <<Plain("offer_id")>>,
   forType |-> <<Plain("trade_type")>>])
AssetsCallBuilder == Builder(<<"assets">>, Nothing,
  [forCode |-> <<Plain("asset_code")>>, forIssuer |-> <<Plain("asset_issuer")>>])
ClaimableBalanceCallBuilder == Builder(<<"claimable_balances">>, Nothing,
  [sponsor |-> <<Plain("sponsor")>>, claimant |-> <<Plain("claimant")>>, asset |-> <<Text("asset")>>])
LiquidityPoolCallBuilder == Builder(<<"liquidity_pools">>, Nothing,
  [forAssets |-> <<Texts("reserves")>>, forAccount |-> <<Plain("account")>>])
OrderbookCallBuilder == Builder(<<"order_book">>, Nothing,
  [constructor |-> <<Parts("selling"), Parts("buying")>>])
StrictReceivePathCallBuilder == Builder(<<"paths", "strict-receive">>, Nothing,
  [constructor |-> <<Parts("destination"), Plain("destination_amount"), Plain("source_account")>>,
   constructorOfAssets |->
     <<Parts("destination"), Plain("destination_amount"), Texts("source_assets")>>])
StrictSendPathCallBuilder == Builder(<<"paths", "strict-send">>, Nothing,
  [constructor |-> <<Parts("source"), Plain("source_amount"), Plain("destination_account")>>,
   constructorOfAssets |->
     <<Parts("source"), Plain("source_amount"), Texts("destination_assets")>>])
TradeAggregationCallBuilder == Builder(<<"trade_aggregations">>, Nothing,
  LET entries == <<Parts("base"), Parts("counter"), Plain("start_time"), Plain("end_time"),
                   Plain("resolution")>>
  IN  [constructor |-> entries, constructorWithOffset |-> Append(entries, Plain("offset"))])
OfferTradesCallBuilder == Builder(Of("offers", "trades"), Nothing, [constructor |-> <<>>])
FriendbotBuilder == Builder(<<"friendbot">>, Nothing, [constructor |-> <<Plain("addr")>>])

CallBuilders == [
  accounts |-> AccountCallBuilder, ledgers |-> LedgerCallBuilder,
  transactions |-> TransactionCallBuilder, operations |-> OperationCallBuilder,
  payments |-> PaymentCallBuilder, effects |-> EffectCallBuilder, offers |-> OfferCallBuilder,
  trades |-> TradesCallBuilder, assets |-> AssetsCallBuilder,
  claimableBalances |-> ClaimableBalanceCallBuilder,
  liquidityPools |-> LiquidityPoolCallBuilder, orderbook |-> OrderbookCallBuilder,
  strictReceivePaths |-> StrictReceivePathCallBuilder,
  strictSendPaths |-> StrictSendPathCallBuilder,
  tradeAggregation |-> TradeAggregationCallBuilder, offerTrades |-> OfferTradesCallBuilder,
  friendbot |-> FriendbotBuilder]

(* One record by its id, whatever the builder was told: _singleRecord().   *)
SingleRecords == [
  accounts |-> <<"accounts", "id">>, ledgers |-> <<"ledgers", "id">>,
  transactions |-> <<"transactions", "id">>, operations |-> <<"operations", "id">>,
  offers |-> <<"offers", "id">>, claimableBalances |-> <<"claimable_balances", "id">>,
  liquidityPools |-> <<"liquidity_pools", "id">>]

Classes == DOMAIN CallBuilders
ConstructorsOf(class) == Constructors \cap DOMAIN CallBuilders[class].filters

(* Object.assign(this._params, ...), one entry after the other, of which   *)
(* the last to name a parameter counts.  Mutant: what is there stays.      *)
Naming(n, entries, values) == {i \in DOMAIN entries : n \in DOMAIN Query(entries[i], values[i])}
Told(n, entries, values) ==
  LET by == Naming(n, entries, values)
      last == CHOOSE i \in by : \A j \in by : i >= j
  IN  Query(entries[last], values[last])[n]
NamedBy(entries, values) == UNION {DOMAIN Query(entries[i], values[i]) : i \in DOMAIN entries}

MutantAssignedKeepsOld(params, entries, values) ==
  [n \in DOMAIN params \cup NamedBy(entries, values) |->
     IF n \in DOMAIN params THEN params[n] ELSE Told(n, entries, values)]
Assigned(params, entries, values) ==
  assign(params, [n \in NamedBy(entries, values) |-> Told(n, entries, values)])

-----------------------------------------------------------------------------
(* The methods of HorizonClient: the path, and what each option becomes.   *)
(* `asset' and `reserves' are texts that the caller writes.                *)
Method(path, options) == [path |-> path, options |-> options]
One(collection) == Method(<<collection, "id">>, Nothing)
Unfiltered(path) == Method(path, Nothing)
WithFailed(path) == Method(path, [include_failed |-> Plain("include_failed")])

AccountMethods == [
  getAccount |-> One("accounts"),
  getAccountData |-> Unfiltered(<<"accounts", "id", "data", "key">>),
  getAccounts |-> Method(<<"accounts">>,
    [signer |-> Plain("signer"), asset |-> Plain("asset"), sponsor |-> Plain("sponsor"),
     liquidity_pool |-> Plain("liquidity_pool")]),
  getAccountTransactions |-> WithFailed(Of("accounts", "transactions")),
  getAccountOperations |-> WithFailed(Of("accounts", "operations")),
  getAccountPayments |-> WithFailed(Of("accounts", "payments")),
  getAccountEffects |-> Unfiltered(Of("accounts", "effects")),
  getAccountOffers |-> Unfiltered(Of("accounts", "offers")),
  getAccountTrades |-> Unfiltered(Of("accounts", "trades"))]
LedgerMethods == [
  getLedger |-> One("ledgers"),
  getLedgers |-> Unfiltered(<<"ledgers">>),
  getLedgerTransactions |-> WithFailed(Of("ledgers", "transactions")),
  getLedgerOperations |-> WithFailed(Of("ledgers", "operations")),
  getLedgerEffects |-> Unfiltered(Of("ledgers", "effects")),
  getLedgerPayments |-> WithFailed(Of("ledgers", "payments"))]
HistoryMethods == [
  getTransaction |-> One("transactions"),
  getTransactions |-> WithFailed(<<"transactions">>),
  getTransactionOperations |-> WithFailed(Of("transactions", "operations")),
  getTransactionEffects |-> Unfiltered(Of("transactions", "effects")),
  getOperation |-> One("operations"),
  getOperations |-> WithFailed(<<"operations">>),
  getOperationEffects |-> Unfiltered(Of("operations", "effects")),
  getEffects |-> Unfiltered(<<"effects">>),
  getPayments |-> WithFailed(<<"payments">>)]
MarketMethods == [
  getOffer |-> One("offers"),
  getOffers |-> Method(<<"offers">>,
    [seller |-> Plain("seller"), sponsor |-> Plain("sponsor"), selling |-> Parts("selling"),
     buying |-> Parts("buying")]),
  getOfferTrades |-> Unfiltered(Of("offers", "trades")),
  getTrades |-> Method(<<"trades">>,
    [offer_id |-> Plain("offer_id"), trade_type |-> Plain("trade_type"),
     base_asset |-> Parts("base"), counter_asset |-> Parts("counter")]),
  getAssets |-> Method(<<"assets">>,
    [asset_code |-> Plain("asset_code"), asset_issuer |-> Plain("asset_issuer")]),
  getClaimableBalance |-> One("claimable_balances"),
  getClaimableBalances |-> Method(<<"claimable_balances">>,
    [sponsor |-> Plain("sponsor"), claimant |-> Plain("claimant"), asset |-> Plain("asset")])]
PoolMethods == [
  getLiquidityPool |-> One("liquidity_pools"),
  getLiquidityPools |-> Method(<<"liquidity_pools">>,
    [reserves |-> Plain("reserves"), account |-> Plain("account")]),
  getLiquidityPoolTransactions |-> WithFailed(Of("liquidity_pools", "transactions")),
  getLiquidityPoolOperations |-> WithFailed(Of("liquidity_pools", "operations")),
  getLiquidityPoolEffects |-> Unfiltered(Of("liquidity_pools", "effects"))]
QuoteMethods == [
  getOrderBook |-> Method(<<"order_book">>,
    [selling |-> Parts("selling"), buying |-> Parts("buying")]),
  getTradeAggregations |-> Method(<<"trade_aggregations">>,
    [base_asset |-> Parts("base"), counter_asset |-> Parts("counter"),
     start_time |-> Plain("start_time"), end_time |-> Plain("end_time"),
     resolution |-> Plain("resolution"), offset |-> Plain("offset")]),
  getStrictReceivePaths |-> Method(<<"paths", "strict-receive">>,
    [source_account |-> Plain("source_account"), source_assets |-> Texts("source_assets"),
     destination_asset |-> Parts("destination"),
     destination_amount |-> Plain("destination_amount")]),
  getStrictSendPaths |-> Method(<<"paths", "strict-send">>,
    [source_asset |-> Parts("source"), source_amount |-> Plain("source_amount"),
     destination_account |-> Plain("destination_account"),
     destination_assets |-> Texts("destination_assets")])]
StreamMethods == [
  streamLedgers |-> Unfiltered(<<"ledgers">>),
  streamTransactions |-> Unfiltered(<<"transactions">>),
  streamOperations |-> Unfiltered(<<"operations">>),
  streamPayments |-> Unfiltered(<<"payments">>),
  streamEffects |-> Unfiltered(<<"effects">>),
  streamTrades |-> Unfiltered(<<"trades">>),
  streamAccountTransactions |-> Unfiltered(Of("accounts", "transactions")),
  streamAccountOperations |-> Unfiltered(Of("accounts", "operations")),
  streamAccountPayments |-> Unfiltered(Of("accounts", "payments")),
  streamAccountEffects |-> Unfiltered(Of("accounts", "effects")),
  streamAccountTrades |-> Unfiltered(Of("accounts", "trades")),
  streamAccountOffers |-> Unfiltered(Of("accounts", "offers")),
  streamOrderBook |-> Method(<<"order_book">>,
    [selling |-> Parts("selling"), buying |-> Parts("buying")])]
HorizonClient ==
  LET accounts == assign(AccountMethods, LedgerMethods)
      market == assign(MarketMethods, PoolMethods)
  IN  assign(assign(accounts, HistoryMethods),
             assign(market, assign(QuoteMethods, StreamMethods)))

(* What a method asks for, given its options, no two of which name the     *)
(* same parameter.                                                         *)
Asks(method, id, options) ==
  LET query(o) == Query(HorizonClient[method].options[o], options[o]) IN
  [path |-> At(HorizonClient[method].path, id),
   query |-> [n \in UNION {DOMAIN query(o) : o \in DOMAIN options} |->
                query(CHOOSE o \in DOMAIN options : n \in DOMAIN query(o))[n]]]
=============================================================================
