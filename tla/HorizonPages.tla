---------------------------- MODULE HorizonPages ----------------------------
(***************************************************************************)
(* A call builder of packages/stellar-sdk-comp/src/horizon, which setters  *)
(* go on changing while requests made from it are under way, and the pages *)
(* that call(), next() and prev() bring, while the ledger grows.  Pages of *)
(* HorizonClient, which holds no URL but the cursors of the links, are     *)
(* turned beside them.                                                     *)
(*                                                                         *)
(* A record is its number in the log.  Horizon is external.                *)
(***************************************************************************)
EXTENDS HorizonRequests, SequencesExt

CONSTANTS
  Ids,          \* arguments that are as they are: ids, times, flags
  Assets,       \* [type, code, issuer]
  Cursors, Limits,
  DefaultLimit, \* Horizon's, for a request that has none
  Part,         \* records of a collection under an account, a ledger, ...
  Paged,        \* classes whose requests are followed
  MaxRecords, MaxSets, MaxPages, \* bounds
  None

ASSUME PagesAssumption ==
  /\ MaxRecords \in Nat /\ DefaultLimit \in Nat \ {0} /\ Limits \subseteq Nat \ {0}
  /\ Cursors \subseteq 1..MaxRecords /\ Part \subseteq 1..MaxRecords
  /\ Paged \subseteq Classes
  /\ None \notin {"asc", "desc"}

VARIABLES
  builder,   \* class, segments, params, cursor, limit, order; or None
  asked,     \* the path and the filters that were told last (no variable of the code)
  sets,      \* calls of setters, for MaxSets
  published, \* records Horizon has
  requests,  \* [url, from, way]: from is the page that is turned, or 0
  pages      \* what was answered, in the order it came; at: published then

vars == <<builder, asked, sets, published, requests, pages>>

AskedNothing == [path |-> [setter |-> "all", id |-> None], filters |-> Nothing]
Init ==
  /\ builder = None
  /\ asked = AskedNothing
  /\ sets = 0
  /\ published = 0
  /\ requests = {}
  /\ pages = <<>>

-----------------------------------------------------------------------------
(* The builder. *)

(* One id for all the plain entries; any assets for the others, of which   *)
(* two make a list.                                                        *)
Arguments(entries) ==
  LET Is(kind) == {i \in DOMAIN entries : entries[i].kind = kind}
      lists == {<<a, b>> : a, b \in IF Is("texts") = {} THEN {None} ELSE Assets}
  IN  {[i \in DOMAIN entries |->
          IF i \in Is("plain") THEN id ELSE IF i \in Is("texts") THEN list ELSE of[i]] :
         id \in Ids, list \in lists, of \in [Is("text") \cup Is("parts") -> Assets]}

Fresh(class, id, params) ==
  [class |-> class, segments |-> At(CallBuilders[class].segments, id), params |-> params,
   cursor |-> None, limit |-> None, order |-> None]

Asked(setter, v) == [asked EXCEPT !.filters = assign(@, Only(setter, v))]

New(class) ==
  /\ builder = None
  /\ \/ /\ ConstructorsOf(class) = {}
        /\ builder' = Fresh(class, None, Nothing)
        /\ asked' = AskedNothing
     \/ \E c \in ConstructorsOf(class), id \in Ids :
        LET entries == CallBuilders[class].filters[c] IN
        \E v \in Arguments(entries) :
          /\ builder' = Fresh(class, id, Assigned(Nothing, entries, v))
          /\ asked' = [path |-> IF "id" \in ToSet(CallBuilders[class].segments)
                                THEN [setter |-> "constructor", id |-> id] ELSE AskedNothing.path,
                       filters |-> Only(c, v)]
  /\ UNCHANGED <<sets, published, requests, pages>>

Set(b) ==
  /\ builder # None /\ sets < MaxSets
  /\ sets' = sets + 1
  /\ builder' = b
  /\ UNCHANGED <<published, requests, pages>>

(* forAccount, forLedger, ...: other segments.                             *)
SetPath(setter, id) ==
  /\ Set([builder EXCEPT !.segments = At(CallBuilders[builder.class].paths[setter], id)])
  /\ asked' = [asked EXCEPT !.path = [setter |-> setter, id |-> id]]

SetFilter(setter, v) ==
  /\ Set([builder EXCEPT
       !.params = Assigned(@, CallBuilders[builder.class].filters[setter], v)])
  /\ asked' = Asked(setter, v)

SetPaging ==
  /\ asked' = asked
  /\ \/ \E c \in Cursors : Set([builder EXCEPT !.cursor = c])
     \/ \E n \in Limits : Set([builder EXCEPT !.limit = n])
     \/ \E o \in {"asc", "desc"} : Set([builder EXCEPT !.order = o])

Setters(table) == DOMAIN table \ Constructors
SetAny ==
  /\ builder # None
  /\ LET c == CallBuilders[builder.class] IN
     \/ \E s \in Setters(c.paths), id \in Ids : SetPath(s, id)
     \/ \E s \in Setters(c.filters) : \E v \in Arguments(c.filters[s]) : SetFilter(s, v)
     \/ builder.class \in Paged /\ SetPaging

-----------------------------------------------------------------------------
(* Horizon: the first records beyond the cursor, in the order asked for.   *)

Order(url) == IF url.order = None THEN "asc" ELSE url.order
Limit(url) == IF url.limit = None THEN DefaultLimit ELSE url.limit
Reversed(order) == IF order = "asc" THEN "desc" ELSE "asc"
Before(order, i, j) == IF order = "asc" THEN i < j ELSE i > j
Holds(path, i) == Len(path) > 1 => i \in Part

Nth(S, order, k) == CHOOSE i \in S : Cardinality({j \in S : Before(order, j, i)}) = k - 1
RecordsOf(url) ==
  LET all == {i \in 1..published :
                Holds(url.path, i) /\ (url.cursor # None => Before(Order(url), url.cursor, i))}
      size == IF Cardinality(all) < Limit(url) THEN Cardinality(all) ELSE Limit(url)
  IN  [k \in 1..size |-> Nth(all, Order(url), k)]

(* The links of a page: on from its last record, back from its first; from *)
(* its own cursor when it is empty.                                        *)
Link(p, way) ==
  LET edge == IF p.records = <<>> THEN p.url.cursor
              ELSE IF way = "next" THEN Last(p.records) ELSE Head(p.records)
      order == IF way = "next" THEN Order(p.url) ELSE Reversed(Order(p.url))
  IN  [p.url EXCEPT !.cursor = edge, !.limit = Limit(p.url), !.order = order]

Publish ==
  /\ published < MaxRecords
  /\ published' = published + 1
  /\ UNCHANGED <<builder, asked, sets, requests, pages>>

-----------------------------------------------------------------------------
(* Requests and pages. *)

_buildUrl(b) ==
  [path |-> b.segments, query |-> b.params,
   cursor |-> b.cursor, limit |-> b.limit, order |-> b.order]

Request(url, from, way) ==
  /\ Len(pages) + Cardinality(requests) < MaxPages
  /\ requests' = requests \cup {[url |-> url, from |-> from, way |-> way]}
  /\ UNCHANGED <<builder, asked, sets, published, pages>>

Call ==
  /\ builder # None /\ builder.class \in Paged
  /\ Request(_buildUrl(builder), 0, "call")

(* next() and prev() of a page, at any later time and any number of times: *)
(* the link that came with it.  Mutant: what the builder asks for now,     *)
(* from the link's cursor.                                                 *)
MutantFetchAsBuilderSays(p, way) ==
  [_buildUrl(builder) EXCEPT !.cursor = Link(pages[p], way).cursor]
_fetchPage(p, way) == Link(pages[p], way)

(* A caller of HorizonClient passes the cursor back with the options it    *)
(* used, and turns the order round to go back.                             *)
parsePage(p, way) ==
  [pages[p].url EXCEPT
     !.cursor = Link(pages[p], way).cursor,
     !.order = IF way = "next" THEN @ ELSE Reversed(Order(pages[p].url))]

Turn(p, way) ==
  \/ Request(_fetchPage(p, way), p, way)
  \/ Request(parsePage(p, way), p, way)

Answer(q) ==
  /\ requests' = requests \ {q}
  /\ pages' = Append(pages, [url |-> q.url, records |-> RecordsOf(q.url), at |-> published,
                             from |-> q.from, way |-> q.way])
  /\ UNCHANGED <<builder, asked, sets, published>>

(* An HTTP error or none at all: the promise rejects, and the page that    *)
(* was turned can be turned again.                                         *)
Fail(q) ==
  /\ requests' = requests \ {q}
  /\ UNCHANGED <<builder, asked, sets, published, pages>>

Next ==
  \/ \E c \in Classes : New(c)
  \/ SetAny
  \/ Publish
  \/ Call
  \/ \E p \in DOMAIN pages, way \in {"next", "prev"} : Turn(p, way)
  \/ \E q \in requests : Answer(q) \/ Fail(q)

Spec == Init /\ [][Next]_vars

-----------------------------------------------------------------------------
(* Properties. *)

(* The method of HorizonClient that asks what a builder does, and the      *)
(* options that stand for its setters; both are named for each other.      *)
Counterpart == [
  accounts |-> [all |-> "getAccounts"],
  ledgers |-> [all |-> "getLedgers"],
  transactions |-> [all |-> "getTransactions", forAccount |-> "getAccountTransactions",
    forLedger |-> "getLedgerTransactions", forLiquidityPool |-> "getLiquidityPoolTransactions"],
  operations |-> [all |-> "getOperations", forAccount |-> "getAccountOperations",
    forLedger |-> "getLedgerOperations", forTransaction |-> "getTransactionOperations",
    forLiquidityPool |-> "getLiquidityPoolOperations"],
  payments |-> [all |-> "getPayments", forAccount |-> "getAccountPayments",
    forLedger |-> "getLedgerPayments"],
  effects |-> [all |-> "getEffects", forAccount |-> "getAccountEffects",
    forLedger |-> "getLedgerEffects", forTransaction |-> "getTransactionEffects",
    forOperation |-> "getOperationEffects", forLiquidityPool |-> "getLiquidityPoolEffects"],
  offers |-> [all |-> "getOffers", forAccount |-> "getAccountOffers"],
  trades |-> [all |-> "getTrades", forAccount |-> "getAccountTrades"],
  assets |-> [all |-> "getAssets"],
  claimableBalances |-> [all |-> "getClaimableBalances"],
  liquidityPools |-> [all |-> "getLiquidityPools"],
  orderbook |-> [all |-> "getOrderBook"],
  strictReceivePaths |-> [all |-> "getStrictReceivePaths"],
  strictSendPaths |-> [all |-> "getStrictSendPaths"],
  tradeAggregation |-> [all |-> "getTradeAggregations"],
  offerTrades |-> [constructor |-> "getOfferTrades"],
  friendbot |-> Nothing]

Streams == [
  ledgers |-> [all |-> "streamLedgers"],
  transactions |-> [all |-> "streamTransactions", forAccount |-> "streamAccountTransactions"],
  operations |-> [all |-> "streamOperations", forAccount |-> "streamAccountOperations"],
  payments |-> [all |-> "streamPayments", forAccount |-> "streamAccountPayments"],
  effects |-> [all |-> "streamEffects", forAccount |-> "streamAccountEffects"],
  offers |-> [forAccount |-> "streamAccountOffers"],
  trades |-> [all |-> "streamTrades", forAccount |-> "streamAccountTrades"],
  orderbook |-> [all |-> "streamOrderBook"]]

OneRecord == [
  accounts |-> "getAccount", ledgers |-> "getLedger", transactions |-> "getTransaction",
  operations |-> "getOperation", offers |-> "getOffer",
  claimableBalances |-> "getClaimableBalance", liquidityPools |-> "getLiquidityPool"]

OptionNames == [
  forSigner |-> <<"signer">>, forAsset |-> <<"asset">>, sponsor |-> <<"sponsor">>,
  forLiquidityPool |-> <<"liquidity_pool">>, includeFailed |-> <<"include_failed">>,
  join |-> <<"join">>, selling |-> <<"selling">>, buying |-> <<"buying">>,
  seller |-> <<"seller">>, forAssetPair |-> <<"base_asset", "counter_asset">>,
  forOffer |-> <<"offer_id">>, forType |-> <<"trade_type">>, forCode |-> <<"asset_code">>,
  forIssuer |-> <<"asset_issuer">>, claimant |-> <<"claimant">>, asset |-> <<"asset">>,
  forAssets |-> <<"reserves">>, forAccount |-> <<"account">>]
ConstructedWith == [
  orderbook |-> [constructor |-> <<"selling", "buying">>],
  strictReceivePaths |-> [
    constructor |-> <<"destination_asset", "destination_amount", "source_account">>,
    constructorOfAssets |-> <<"destination_asset", "destination_amount", "source_assets">>],
  strictSendPaths |-> [
    constructor |-> <<"source_asset", "source_amount", "destination_account">>,
    constructorOfAssets |-> <<"source_asset", "source_amount", "destination_assets">>],
  tradeAggregation |-> [
    constructor |-> <<"base_asset", "counter_asset", "start_time", "end_time", "resolution">>,
    constructorWithOffset |-> <<"base_asset", "counter_asset", "start_time", "end_time",
                                "resolution", "offset">>],
  offerTrades |-> [constructor |-> <<>>],
  friendbot |-> [constructor |-> <<"addr">>]]

NamesOf(setter) ==
  IF setter \in Constructors THEN ConstructedWith[builder.class][setter] ELSE OptionNames[setter]
SetOptions == UNION {ToSet(NamesOf(s)) : s \in DOMAIN asked.filters}

(* Where HorizonClient takes a text, the caller writes what the builder    *)
(* makes of the assets it is given.                                        *)
Written(method, option, entry, value) ==
  IF HorizonClient[method].options[option].kind = "plain" /\ entry.kind # "plain"
    THEN Query(entry, value)[entry.name] ELSE value
OptionsFor(method) ==
  [o \in SetOptions |->
     LET s == CHOOSE s \in DOMAIN asked.filters : o \in ToSet(NamesOf(s))
         i == CHOOSE i \in DOMAIN NamesOf(s) : NamesOf(s)[i] = o
     IN  Written(method, o, CallBuilders[builder.class].filters[s][i], asked.filters[s][i])]

(* What an asset that was replaced by the native one leaves behind, as     *)
(* Object.assign() only adds.                                              *)
LeftOver(name, query) ==
  \E prefix \in {"selling", "buying", "base", "counter"} :
    /\ name \in {AssetParams[prefix].code, AssetParams[prefix].issuer}
    /\ query[AssetParams[prefix].type] = "native"

(* Whatever setters a builder was called with, in whatever order and how   *)
(* often, it asks what the method of HorizonClient asks for the values it  *)
(* was given last, where there is such a method; its stream is that of the *)
(* client's, and its single records are those of the client's.             *)
RequestsAgree ==
  builder # None =>
    LET class == builder.class
        which == asked.path.setter
        id == asked.path.id
        AsksTheSame(method) ==
          LET native == Asks(method, id, OptionsFor(method)) IN
          /\ builder.segments = native.path
          /\ \A n \in DOMAIN native.query :
               n \in DOMAIN builder.params /\ builder.params[n] = native.query[n]
          /\ \A n \in DOMAIN builder.params \ DOMAIN native.query : LeftOver(n, native.query)
        AgreesWith(table) ==
          class \in DOMAIN table /\ which \in DOMAIN table[class] =>
            LET method == table[class][which] IN
            SetOptions \subseteq DOMAIN HorizonClient[method].options => AsksTheSame(method)
    IN  /\ AgreesWith(Counterpart) /\ AgreesWith(Streams)
        /\ class \in DOMAIN OneRecord =>
             SingleRecords[class] = Asks(OneRecord[class], "id", Nothing).path

(* However pages are turned, on or back, again after an error, out of an   *)
(* older page, and whatever the builder has been told since: the records   *)
(* of the page are those beyond the edge of the page it was turned from,   *)
(* in its order or against it, in its collection, with none left out       *)
(* unless the page is full, and none that was seen.                        *)
Start(p) == IF p.records = <<>> THEN p.url.cursor ELSE Head(p.records)
End(p) == IF p.records = <<>> THEN p.url.cursor ELSE Last(p.records)
PagesContinue ==
  \A n \in DOMAIN pages : pages[n].from # 0 =>
    LET p == pages[n]
        f == pages[p.from]
        edge == IF p.way = "next" THEN End(f) ELSE Start(f)
        order == IF p.way = "next" THEN Order(f.url) ELSE Reversed(Order(f.url))
        IsPast(i) == edge # None => Before(order, edge, i)
    IN  /\ \A i, j \in DOMAIN p.records : i < j => Before(order, p.records[i], p.records[j])
        /\ \A i \in DOMAIN p.records : IsPast(p.records[i]) /\ Holds(f.url.path, p.records[i])
        /\ \A i \in 1..p.at : IsPast(i) /\ Holds(f.url.path, i) =>
             \/ \E j \in DOMAIN p.records : p.records[j] = i
             \/ /\ Len(p.records) = Limit(f.url)
                /\ Before(order, Last(p.records), i)
=============================================================================
