# ts-stellar-sdk: formal models, checks and proofs

TLA+ models of the packages of ts-stellar-sdk, the TLC configurations that
check them on small instances, and TLAPS proofs of the properties that matter
most for every value of the constants. Paths below are relative to
`src/packages/`.

## 1. Inventory

| Part | Source | State it keeps | Operations | Hard behaviours | What makes it correct |
|---|---|---|---|---|---|
| Horizon event stream | `horizon-client/src/streaming.ts` | connect loop position, `closed`, abort signal, `retryMs`, `lastEventId`, parse buffer | connect, read, parse, deliver, reconnect, `close()` | broken connections, blocks cut across chunks, callbacks that throw or close, `close()` racing a read or the timer | delivery resumes from the cursor with no gap, repeat or reordering; a closed stream comes to rest |
| Horizon REST client | `horizon-client/src/client.ts`, `transport.ts`, `parsers.ts`, `assets.ts` | none (URL building, one request per call) | 40 GET methods, 13 streams, submit (sync/async), cursors of a page's links | pages turned while the ledger grows; a cursor without the order it is for | each method asks for what its options say; a page continues the one before |
| Transaction builder | `tx-builder/src/builder.ts` | `operations`, fee, memo, preconditions; the shared `Account.sequenceNumber` | `addOperation`, `setTimeout`, ..., `build()` | `build()` awaits a hash while its arguments stay shared; a failing step after the sequence number moved | the hash, the fee and the operations of a transaction agree; one sequence number per transaction |
| Signed transaction | `tx-builder/src/transaction.ts` | `signatures`, the hash computed at build time | `sign`, `toEnvelope`, `buildFeeBumpTransaction`, `fromXdr` | signatures appended after an await; the fee bump aliases the inner signatures | signatures verify against the hash of what is sent |
| RPC client | `rpc-client/src/client.ts`, `transport.ts`, `assemble.ts` | request id counter | JSON-RPC methods, `simulateTransaction`, `prepareTransaction`, `pollTransaction` | polling against a ledger that closes meanwhile; transport errors in the middle of a poll | a poll reports the final status once it is known; preparing adds the resource fee once |
| Friendbot client | `friendbot-client/src/client.ts` | none | `fund` | none | - |
| SEP helpers | `seps/src` | the destinations checked by one call | SEP-1 file lookup, SEP-2 federation, SEP-29 memo check | one await per destination while accounts change, size and time limits | no payment to an account that requires a memo passes unnoticed |
| Contracts | `contracts/src` | none (pure) | `ScInt`, `SCVal` integers, invocation trees, pool ids, contract ids | 128 and 256 bit splitting, sign handling at the boundaries | splitting and joining round-trip |
| XDR runtime | `xdr/src` | reader and writer position, depth and byte budget | reader, writer, containers, composites, codec | limits, padding, buffer growth, failed reads | decode(encode(v)) = v, limits bound the work, canonical input only |
| StrKey | `strkey/src/strkey.ts` | none (pure) | base32, CRC16, typed keys | canonical tail bits, payload lengths | decode inverts encode and refuses everything else |
| Compat: builder, account, transactions | `stellar-base-comp/src/transaction-builder.ts`, `account.ts`, `transaction.ts` | the sequence counter (shared by muxed accounts), operations, signatures | `build`, `cloneFrom`, `fromXDR`, `buildFeeBumpTransaction`, `addSignature` | failing build after the counter moved; fee accounting of clones | one sequence number per transaction built; fees cover what is sent |
| Compat: operations, keys, values | `stellar-base-comp/src/{operation,asset,memo,scval,address,strkey,...}`, `tx-builder/src/operations.ts` | none (pure conversions) | operation factories and their decoder, assets, memos, addresses, ScVals, large integers | decimal text to stroops and prices to fractions, integer widths, optional fields, muxed addresses | what is shown means what was given, and can be given again |
| Assembled contract transactions | `stellar-sdk-comp/src/contract` | `raw`, `built`, `signed`, `simulation`, `SentTransaction` status | build, simulate, sign, send, poll | stale signed copy after a new simulation; resubmission states | what is sent is what was simulated and signed last |
| Web authentication | `stellar-sdk-comp/src/webauth.ts` | none per call | challenge build, read, verify signers and threshold | signature multiset, signers listed twice, weights, expiry, values that are methods | a challenge is accepted exactly for its signers, in time |
| Horizon compat | `stellar-sdk-comp/src/horizon` | a call builder's segments, query, cursor, limit, order; the links of a page | 17 builders with their setters, `call`, `stream`, `next`, `prev`, `checkMemoRequired` | setters between a request and the next page; a query that only grows | a builder asks what the client asks for the same values; every page continues the one it was turned from |
| Generated XDR types and compat classes | `xdr/generated`, `stellar-base-comp/src/generated`, `stellar-base-comp/src/xdr-compat` | none | every codec of the protocol, a compat class for each | a name, a member or an arm that one table has otherwise than the other; two's complement words; arms shared by tags | `toXDR()` of what `fromXDR()` read gives the same bytes |

### How the parts interact

Applications call the compat layer or the native packages; the compat layer
wraps the native ones. A transaction starts from an `Account` whose sequence
number the builder moves, is hashed and signed, is simulated and assembled by
the RPC client for contract calls, is submitted, and is polled until the ledger
knows its fate. Streams are independent: one connect loop per stream, which
calls back into the application. There are no threads: what interleaves are
the continuations of awaits, timers, and callbacks. Within one continuation a
step runs to completion, and the models keep that: a `Close` from outside a
callback, for example, cannot happen in the middle of a chunk.

## 2. Modules

| Module | Models | Extended or instantiated by |
|---|---|---|
| `SseStream` | `horizon-client/src/streaming.ts` | `MCSseStream`, `SseStreamProofs` |
| `ResumableFeed` | what a stream promises, with no connection in sight | instantiated by `SseStream` |
| `TxBuilder` | `tx-builder/src/{builder,transaction,hash}.ts` | `MCTxBuilder`, `TxBuilderProofs` |
| `SequenceNumbers` | what an account promises the builders that share it, with no builder, fee or await in sight | instantiated by `TxBuilder` and `CompatBuilder` |
| `ContractCall` | `stellar-sdk-comp/src/contract/{assembled,sent}-transaction.ts` with what they reach of `rpc-client` | `MCContractCall`, `ContractCallProofs`, which `ContractCallVersionProofs` extends |
| `TransactionFate` | what submitting a transaction amounts to, with no version, retry or poll in sight | instantiated by `ContractCall` |
| `CompatBuilder` | `stellar-base-comp/src/{transaction-builder,account,transaction}.ts` | `MCCompatBuilder`, `CompatBuilderProofs` |
| `Codecs`, `XdrCodec` | `xdr/src`: what the factories are given, as records; encoding and decoding under limits | `XdrTypes*`, `CompatXdr` |
| `XdrTypesOperation`, `XdrTypesTransaction`, `XdrTypes` | `xdr/generated/stellar_generated.ts`, every codec, in three modules that extend each other | `MCCompatXdr` |
| `CompatSchema` | what the factories of compat classes and converters are given | `CompatTypes*` |
| `CompatTypesOperation`, `CompatTypesTransaction`, `CompatTypes` | `stellar-base-comp/src/generated/stellar_compat.ts`, every class | instantiated by `MCCompatXdr` |
| `CompatXdr` | `stellar-base-comp/src/xdr-compat`: `fromXDR()` and `toXDR()` of a compat class | `MCCompatXdr` |
| `WebAuth` | `stellar-sdk-comp/src/webauth.ts` | `MCWebAuth` |
| `OperationFields` | the conversions under the operation factories: amounts, prices, addresses, assets, signers, ids | `OperationFactories` |
| `OperationFactories` | `tx-builder/src/operations.ts` | `Operations` |
| `Operations` | `stellar-base-comp/src/operation.ts`: factories and `fromXDRObject` | `Conversions` |
| `StrKey` | `strkey/src/strkey.ts` and `stellar-base-comp/src/strkey.ts` | instantiated by `Conversions` |
| `LargeInts`, `ScVals` | `contracts/src/scint.ts`, `scval-bigint.ts`, `stellar-base-comp/src/xdr-large-int.ts`; `stellar-base-comp/src/{scval,address}.ts` | instantiated by `Conversions` |
| `IntegerRounds` | an integer made, shown and made again | extended by `Conversions`; `IntegerRoundsProofs` |
| `Memos` | `stellar-base-comp/src/memo.ts` and the token amounts of `soroban.ts` | instantiated by `Conversions` |
| `Conversions` | made, shown and made again: the round of all of these | `MCConversions` |
| `HorizonRequests` | `stellar-sdk-comp/src/horizon/call-builder.ts` and `horizon-client/src/client.ts`: what each builder, setter and method asks for | `HorizonPages` |
| `HorizonPages` | a call builder, the pages it brings and the cursors of the client, while the ledger grows | `MCHorizon`, `HorizonPagesProofs` |
| `MemoCheck` | `seps/src/sep29.ts` and `Server.checkMemoRequired` | `MCHorizon`, `MemoCheckProofs` |

In every module a variable is a field or a local variable that lives across an
await, and an action is what runs between two awaits (or, where the code is
synchronous, a method). The steps of other parties (servers, the ledger, a
wallet, whoever carries bytes) are external actions. Operators whose names
start with `Mutant` stand before the definition they are a faulty form of: a
run that still passes with one of them in place would say nothing about that
definition. They are not part of any specification.

### Event streams

`SseStream.pc` is where the connect loop is: `"fetching"`, `"reading"`,
`"arrived"` (a chunk is there and its continuation has not run), `"dispatch"`,
`"caught"` (in the outer catch), `"sleep"`, and `"done"` or `"died"` (`onError` threw
out of the catch and nobody awaits `connect()`). `wire` holds the blocks the
server has sent on this connection; `buffer` the block that is cut in two;
`lastEventId` the cursor. `piped` says that the `TextDecoderStream` between the
body and its reader has taken a chunk: `read()` returns it also after
`controller.abort()`, which only ends the body, and the code does not look at
`closed` after `read()`. A chunk may end after any block or inside one, and a
connection may end or break at any point. `JSON.parse` refuses the data of the events
in `Unparsable`: `onMessage` never sees them (`refused`, not `presented`), `onError`
gets the exception, and the cursor passes them by as it does the others. Since nothing is awaited between
the blocks of a chunk, `Close` from outside cannot happen there: only
`CallbackMayClose` can. Horizon itself is external: `Publish`, `SendEvent` (from
the position that the request's cursor gave it) and `SendChatter` (the `hello`
block and keep-alives).

### Builders and signed transactions

`TxBuilder` keeps references as references: `ops` and `sigs` are heaps of arrays,
and `tx[t].array` says whose operations array a transaction holds (its builder's,
or its own if it was read from XDR). A digest is the value it is computed
from. `build()` is `BuildCall` (up to the await of the network id; fee and
sequence number are fixed), `BuildEncode` (the operations are read and encoded)
and `BuildReturns`; `sign()` is `SignCall` and `SignResolves` or `SignRejects`. Two
constants say what the caller does: `ReuseBuilders` (adds operations to a builder
that was built from) and `ResignInner` (signs a transaction after a fee bump
has wrapped it).

### Contract calls

A method of an `AssembledTransaction` is a call with a place (`pc`), the object it
is on and what it read before its await (`tx`). `Overlap` says whether the caller
starts a call while another is under way, `Resimulate` whether it simulates an
object it has signed, `OwnServer` which objects have a server of
this repository, whose every request with a transaction throws (the others have an
object of the caller's as their server, one that takes compat transactions). A
transaction is reduced to its sequence number, whether it has its Soroban
operation, how often a resource fee was added, and what its signature covers.
The node may answer, refuse, or take a transaction and lose the answer
(`SubmitLost`); the ledger may apply it, drop it, or apply another client's
first.

### Compat builder

`CompatBuilder` is synchronous. `sequence[s]` is an `Account` object's counter:
several builders may be made from `Own`, while a clone has one of its own.
Operations are counted, since what a built transaction holds has been through
its XDR and is a copy. `time` tells no bounds, bounds without an end and with one
apart, because `setTimeout` does; a value that does not encode is a flag.
Numbers are scaled down: a minimal base fee of 2 for 100, 1 or 2 operations for
100, a largest fee of 6 for 2^32 - 1. Every comparison and division
involved is with one of these, and fees are chosen at, below and above them and
so that they do and do not divide.

### XDR and the compat classes

A codec is a record, as the factory functions of the code close over it, and
`Encode` and `Decode` are the recursive methods with the writer or reader as a
value; an error stays in it, as an exception leaves all of them. A byte has
`Base` values (8 in the run, so that a hyper stays within TLC's integers) and a word
four bytes; the decoder is given the strings of four bytes out of 0, 1, 3 and the
highest, and of up to three words out of eight at the boundaries. The model says what a value is
(`Valid`), how long its encoding is (`Size`) and how deep it nests (`Nesting`)
independently of the encoder, and the encoder is held to that.

The generated modules are data: a codec of `stellar_generated.ts` is a definition
of `XdrTypes*`, and a class of `stellar_compat.ts` one of `CompatTypes*`, with the same
names in the same order. A compat value goes through `ToCompat` and `ToModern`,
which are the converters of `xdr-compat`, and the bytes it ends in are compared
with those it came from.

### Operations, keys and values

`Conversions` takes one value from `Given`, makes it into what goes on the wire,
shows that in the caller's terms and makes it once more. `Operations` and
`OperationFactories` have one operator for each factory of the code, and an outcome
that is an exception is `Invalid`. A decimal text is its parts
between dots, each a sequence of digits and minus signs, because
the code takes it apart exactly there; the integers have a round of their own, `IntegerRounds`,
which takes any integer and whose words have any even number of values in each half
(`Part`, 2^32 in the code), so that it can be proved about; a price is searched for, as in the
code, by trying the denominators one after the other. A strkey's text is a sequence of base32 digits, with the
code's checksum over scaled payloads.

### Web authentication

A challenge is built, signed by the server and clients, and read. What
`Transaction.signatures` returns is modelled as what it is, compat objects whose
attributes are methods, and `Uint8ArrayOf` is what the code's `new Uint8Array(...)`
makes of one.

### Horizon

A call builder is a record of its fields. `HorizonRequests` holds, class by class,
which setter replaces the segments and which adds what to the query, and beside it
what each method of `HorizonClient` asks for; `HorizonPages` calls setters in any order
and compares. Pages are answered from the log as it then is; `next()` and
`prev()` follow the link that came with the page, while a caller of `HorizonClient` has
only the link's cursor and puts it into the request it made before, with the
order turned for going back (`parsePage`).

`MemoCheck` runs from one await to the next. `since` and `ever` are history: the
accounts that have required a memo throughout, and those that did at some moment.

## 3. Runs

Passing runs:

| Run | Configuration | What it shows |
|---|---|---|
| `sse` | a log of 3 events of which one cannot be parsed, 3 blocks in flight, cursors none, `now` and 1, `onError` may throw; fair | delivery resumes from the cursor with no gap and no repeat, what is in flight continues the cursor, the buffer is of this connection, a closed stream reads at most the chunk that was in the pipe, reports no failure of the connection and comes to rest, the stream implements `ResumableFeed`, every published event (or its parse error) is handed over unless the stream is closed, dies, or is thrown out of by a callback for ever |
| `tx_disciplined` | 2 builders on one account, 2 transactions, 2 operations of which one does not encode, a keypair without a secret, no reuse of builders | whatever overlaps: signatures and hashes (also of fee bumps, and of those read back from XDR) cover what would be sent, fees cover the operations, sequence numbers have no holes unless a build fails, `SequenceNumbers` is implemented (one number per transaction, never taken back) |
| `call_overlapping` | 2 objects, 3 overlapping calls, 2 polls, simulating what is signed | at most one version of the transaction is applied, a status a caller is told is the ledger's for the version it sent, signatures cover the version they are in, no version pays the resource fee more often than it was simulated, `TransactionFate` is implemented |
| `call_orderly` | 2 calls that wait for each other, one object with a server of the repository; fair | what is sent is what the object shows as built, every call ends |
| `compat_builder` | 2 builders, fees 1 and 3, time bounds, Soroban data and preconditions that may not encode, 3 transactions, imported ones of 5 stroops for 2 operations and of none, a failing build, a fee bump | `SequenceNumbers` is implemented by each account, and every number one passed is in a transaction or went to a failed build; a bump pays more than what it wraps and its hash is of what is sent whatever is signed before or after; a clone costs no more than its original |
| `xdr` | codecs of every shape on some 700 values and under 3 limits, some 850 strings of 0, 3, 4, 8 and 12 bytes, every cut and 3 tails of every encoding; every type of the protocol with its compat class on a sample of its values | what is encoded comes back under the same limits, one encoding per value, no part and no extension of an encoding decodes, exactly the valid values within the limits encode and to their size; a compat object gives the bytes it was read from, unless an arm is shared by tags |
| `conversions` | for each operation factory a base and the values of each of its fields at their boundaries, received operations, strkeys and their misspellings, integers and ScVals at the ends of their ranges, memos, token amounts | an operation that is made shows what was given, what is shown can be given again and makes the same, a strkey with one digit changed is refused by both decoders alike, integers and ScVals keep their value |
| `horizon` | 17 builders, up to 3 setters in any order, 3 assets; 3 pages of a growing log of 4 records, requests that fail; 3 operations to 2 accounts and a muxed one, data that change at every await | a builder asks for what the client's method asks, whatever it was told before; pages neither repeat nor skip, whatever happens between them; a memo check that passes vouches for every payment, one that refuses names the first that needs a memo |

Runs that show a disagreement between the code and what is said of it. Each
checks one property, which states what the quoted line says:

| Run | What the code does |
|---|---|
| `tx_fee_reused_builder` | an operation added to a builder after `build()` started is in the transaction and not in its fee |
| `call_with_op` | `buildWithOp()` never builds: it stores the operation and simulates nothing |
| `compat_shared_arms` | a compat union finds an arm by one modern key, so that a value with any other tag of a shared arm cannot be read |
| `webauth` | `gatherTxSigners()` reads methods as values and finds no signature: `readChallengeTx()` rejects every challenge |

### Bounds and why they are enough

- Two objects of a kind (builders, transactions, copies of a contract call) are
  what an aliasing or a race needs; three overlapping calls let a third act on
  what two others leave behind.
- Three events and three blocks on the wire give a delivered event, one in
  flight and one unpublished, with chatter between them.
- `MaxAttempts` is 2 for 30: the first and the last poll are all that differ.
- `MaxSigs`, `MaxSigning`, `MaxFees`, `MaxFailures`, `MaxBumps`, `MaxTxs`, `MaxSeq`
  bound counters that the properties compare but never need large. The
  constraint `MCBounds` of `MCCompatBuilder` follows either the numbers (several
  builders and failures) or the fees (bumps, signatures and time bounds), which do
  not meet in the code.
- The codecs of `xdr` are one of each shape of the generated ones. Nesting to
  3 and arrays to 2 reach each limit exactly, below and above. Of the protocol's
  types each is exercised on a sample in which every arm, member and optional occurs.
- `conversions`: `Places` is 3 decimals for 7, `MaxDenom` 12 for 2^31 - 1 in the
  search for a price, so that prices below, at and beyond the largest denominator
  occur; keys of 2 bytes and ids of 1 for 32 and 8 give payloads that do and do not
  fill their last digit; `Part` is 2 values for 2^32, so that every value of every
  width is tried; texts are up to 4 bytes for 28. Digits, checksums, flags and field
  names are the code's own.
- `horizon`: three setters reach a setter called twice with another between; pages
  of one and two records over a log of four, with a part of it that belongs to the
  collection, have a full, a partly filled and an empty page, and three pages turn
  on, back, and again. Once a request is made the constraint `MCBounds` keeps to one class and no
  filters, which the pages do not depend on. Three operations and two accounts pay
  one account twice with another between.

`CHECK_DEADLOCK` is off in every run but `webauth`: a stream that is closed, a caller with no
calls left, and a value that was decoded are done, and bounded counters stop.

### Fairness

`sse`: every step the connect loop can take by itself is taken (weak fairness),
an aborted request or read ends, and the pipe takes what was sent and gives it to the
reader (weak fairness). A request, a send of the server, the way of an event into the
pipe, and a read of one, if possible again and again, succeed in the end (strong
fairness: a connection may break any number of times, but not every time for ever). The code has no timeout around `fetch` or `read()`, so this is the platform's
promise and not the code's. `call_orderly`: requests, wallets and timers are
answered (with a result or an error), again for want of timeouts in the code;
nothing is assumed of which answer, nor of the ledger. No other run has
fairness.

## 4. Proofs

For every value of the constants, and without the bounds of the runs:

| Theorem | Says |
|---|---|
| `SseStreamProofs`: `TypeCorrect`, `NoGapNoRepeat`, `InFlightContinuesCursor`, `StreamImplementsFeed` | types; what goes to `onMessage`, or is refused by `JSON.parse`, is consecutive and ends at the cursor; what is in flight continues it; every step is one of `ResumableFeed` or a stutter |
| `SseStreamProofs`: `BufferContinues`, `ClosedDrains` | the cut block in the buffer is of this connection and is completed by what comes next; a stream that was closed sends no request, lets nothing more into the pipe, hands over only events of the chunk the loop is in and of the one in the pipe, and reports no failure of the connection |
| `TxBuilderProofs`: `TypeCorrect`, `DistinctSequenceNumbers`, `NoHoles`, `ImplementsNumbers` | types; numbers of one account are distinct, leave no hole unless a build fails, and every step is one of `SequenceNumbers` or a stutter |
| `TxBuilderProofs`: `SignaturesStayValid`, `FeesCover`, `BumpsStayValid` | signatures cover what is sent, and the fee the operations that are sent, if `ReuseBuilders = FALSE`; hash and signatures of a fee bump are those of what is sent, also read back, if `ResignInner = FALSE` as well |
| `ContractCallProofs`: `TypeCorrect`, `AtMostOnce`, `OutcomesAreTrue`, `ImplementsFate` | types; at most one version is applied; told outcomes are the ledger's; every step is one of `TransactionFate` or a stutter |
| `ContractCallVersionProofs`: `SignaturesCover`, `OneFeeEach`, `SendsBuilt` | a signed version carries a signature over itself; it pays at most one resource fee more than there were simulations, both however calls overlap; what is sent is what was built last, if `Overlap` and `Resimulate` are `FALSE` |
| `CompatBuilderProofs`: `TypeCorrect`, `DistinctSequenceNumbers`, `NumbersAccountedFor`, `ImplementsNumbers` | types; numbers of one account are distinct, every one it passed was built with or used up by a `build()` that threw, and every step is one of `SequenceNumbers` or a stutter |
| `CompatBuilderProofs`: `ClonesCostNoMore`, `BumpsPayMore`, `BumpHashesHold` | the fee of a clone is at most the original's, and by less than a stroop per operation below; a fee bump pays more than what it wraps; its hash and signatures are of what it sends |
| `HorizonPagesProofs`: `PagesFollow` | a page turned on or back neither repeats nor skips a record of the one it was turned from, for a log and pages of any size |
| `HorizonPagesProofs`: `RequestsStayEqual` | whatever setters of a call builder are called, in any order and how often, it asks for what the matching method of `HorizonClient` asks for, and for nothing else but the code and the issuer of an asset that was replaced by the native one |
| `IntegerRoundsProofs`: `IntegersRoundTrip`, `IntegersRebuild` | an integer that goes on the wire, made in any of the five ways, is read as what was given (or its two's complement, or wrapped, where the code says so), and what was read has its words again: for every integer and words of any size |
| `MemoCheckProofs`: `ChecksVouch` | what passes the memo check pays nobody who required a memo throughout, except where Horizon failed; what is refused is refused for the first payment to an account that required one |

The arguments:

- *Streams.* That the events handed over or refused are consecutive is not inductive: an event
  taken from the wire must be the one after the cursor. The strengthening is
  `WireContinuesCursor`: the events on the wire are the log from the cursor on to
  the server's position. It is kept because a reconnect drops the wire and asks
  from the cursor, and because taking an event moves the cursor and shortens the
  wire in one step. The buffer is inductive with the types: whatever starts a connection
  empties it. That a closed stream only drains is a property of single steps: the
  pipe takes nothing off an aborted body, a read empties it, and the catch and the timer look at `closed`.
- *Sequence numbers* of `TxBuilder`: each number in use is between the one after
  the first and the counter, and only `BuildCall` gives one out, the next. A failed
  `build()` stays failed and stays its builder's, so that a state without failures has
  none behind it and the numbers are exactly those up to the counter.
- *The refinement of `SequenceNumbers`*: `last` is the account's counter, or `Absent` for the
  account of a clone that was not made; `held` are the numbers of transactions with their
  holders, those of failed builds included. `BuildCall` and `Build` hand out, a
  `build()` that throws wastes, `CloneFrom` opens an account, and every other
  action leaves both alone: signing, importing, wrapping and setting change no
  number, no source, and no account that is in use.
- *Signatures* of `TxBuilder`: `CoverInv` adds that the hash taken at `BuildEncode`
  still is the body, that sign calls under way are over that hash, and that a
  transaction which is not built has no signature. The body changes only
  when an operation is added to a builder in use, which
  `ReuseBuilders = FALSE` excludes. The fee follows the same way (`FeeInv`: from
  `BuildCall` on it is that of the array); the fee bump needs in addition that no
  sign call for the wrapped transaction is under way (`BumpInv`), as its hash
  covers the signatures.
- *Contract calls*: `OneNumber` says that all versions, in objects, calls, the
  pool and the ledger, have one sequence number, as nothing but `build()` gives one
  and there is one `build()` while no object exists; the ledger passes
  each number once. `Reported` ties an outcome to an applied body. For the versions,
  every step is shown to make none but a built or imported one, a prepared one
  when its simulation ends, or a signed one (`Comes`); the number of fees is bounded by
  the simulations that have *ended* and one for an imported envelope, which is the strengthening that makes it inductive.
  For a caller who waits, the call that is under way holds the version its object shows.
- *Compat builder*: `Numbers` says that the caller's builders are those that clone nothing,
  that no two others share an account, and that an account with a built
  transaction is in use, so that no clone is given it; with that the counter is above all
  of its numbers. `Accounts` counts them: an account's counter is where it started, plus the transactions built
  from it, plus its failures; a clone starts with none of either.
- *Fees*: a clone's rate is the whole quotient of its original's fee (`CloneFees`), so that the arithmetic is
  that of division with a remainder. For a fee bump `LeastBaseFeeSuffices` is the whole of it: rounding the
  inner rate down loses less than one stroop per operation, one more operation at the
  base fee adds at least `MinBaseFee`, and `MaxOps <= MinBaseFee` (100 and 100 in the code).
- *Pages*: a page is the first `limit` of the records after its cursor in its order, in that order (`IsPage`, from
  the lemmas on ranks in a finite set). `PagesInv` says that every page
  and every request under way that was turned from a page continues it
  (`Follows`). Records are published at the end of the log only, and pages are never changed, so that
  this stays true while the request travels and the builder is set otherwise.
- *Requests*: `AskInv` says that each parameter of each value told last is in the query, and that each parameter
  there is one of a setter that was called; where it is none of the *value* told last, the
  value is the native asset. It is kept because the entries of one builder name different parameters
  (`OneEntryEach`), so that telling one leaves the others alone. `Meaning` says what each option of
  the client becomes, whichever method takes it; that the tables of builders, methods,
  options and paths fit it is checked class by class (`ClassOK`), by computing.
  With that an option stands for one entry of one setter, and the two queries are compared entry by entry.
- *Integers*: no state of a round is hard (`RoundInv` says only that each value was made
  of the one before); all lies in the arithmetic. `DivisionIsUnique` turns every claim about a quotient
  and a remainder into one product and one bound. Shifting by `k + 1` words is shifting by
  one after `k` (`ShiftedByWords`), so that splitting is repeated division and `joined` undoes it
  (`SplitWords`, `ReadsWhatWasSplit`), and a word appended to a number
  of `n` words in range gives one of `n + 1` in range (`LongerInRange`), for signed and unsigned ends alike.
  From that each way of making an integer is `Sound`: what it puts on the wire
  reads as it should. `WireJoins` is the other direction, from words to the number and back.
- *Memo check*: `MemoInv` says that every account paid by an operation the loop has
  gone past is in `checked`, and that each of those is settled (did not require a
  memo when it was loaded, or could not be loaded) except the one being loaded,
  which no earlier operation pays. A change of an account's data only takes it out
  of `since`, so that what is settled stays so.

The assumptions are those named in the modules (`StreamAssumption`, `TxAssumption`,
`CallAssumption`, `MemoAssumption`, `BuilderAssumption`, `NoBuilderAssumption`,
`PagesAssumption`, `PartAssumption`; `CodecAssumption` and `FieldsAssumption` in modules without proofs), which TLC evaluates in
the runs. They say what the code's constants are (limits of the XDR, the least base fee), that the values
standing for nothing are none of the others, and, in `BuilderAssumption`, that
a transaction read from XDR has at most `MaxOps` operations. What a theorem assumes of the
caller is in its statement and named above.

Model-checked only:

- liveness (`EveryEventPresented`, `CloseTerminates`, `CallsEnd`), since the prover
  handles neither fairness with `ENABLED` nor leads-to;
- `XdrCodec`, `CompatXdr` and `Conversions`, whose recursive operators are induction over data, which the
  installed provers do not do. Of `Conversions`, `IntegersKeepTheirValue` and the
  integers' part of `RebuiltIsTheSame` are those of `IntegerRounds` and proved there;
- the four properties that are violated.

## 5. Findings and observations

The four violation runs are findings, quoted in `PROJECT.json`. Further
observations met while modelling, which contradict no promise or are kept out of the
properties:

*Contract calls and builders*

- `contract/assembled-transaction.ts:214` writes `simulation` to JSON and `:159` reads
  `simulationResult`: a restored object has lost its simulation.
- An `AssembledTransaction` made without a server makes one in its first `simulate()`, and
  then encodes a compat envelope with the modern codec, which throws; so does one
  that is given the `Server` of `soroban-rpc` (`soroban-rpc/server.ts:69`). That
  `Server`'s `prepareTransaction()` would give base64 (`:94`), which
  `assembled-transaction.ts:240` encodes as if it were an envelope. Simulations that
  succeed are in the model for an object whose server is of another kind.
- A signed contract call that is simulated again sends its old signed copy
  (`contract/sent-transaction.ts:50`).
- A clone of an unmodified transaction builds another transaction: it drops the
  preconditions other than time bounds and the Soroban data
  (`stellar-base-comp/src/transaction-builder.ts:335`), folds the resource fee into the
  base fee, and rounds (`:331`).
- The inner rate of a fee bump is rounded down (`transaction-builder.ts:429`), so that a
  base fee below the exact rate is taken, though not below what the transaction pays.

*Streams and Horizon*

- `close()` called from `onMessage` does not end the chunk the loop is in, and a chunk
  already in the decoder's pipe is read after it: `onMessage` still gets their
  events, as nothing looks at `closed` between (`horizon-client/src/streaming.ts:103-125`).
  An event whose data cannot be parsed then still goes to `onError`.
- A stream opened at `now` that breaks before its first id starts at a later
  `now` (`horizon-client/src/streaming.ts:81`).
- `selling()`, `buying()` and `forAssetPair()` called with the native asset after a
  credit asset leave `..._asset_code` and `..._asset_issuer` in the query, as
  `Object.assign` only adds (`horizon/call-builder.ts:397`).
- `stream()` of a call builder ignores `limit()` and `order()` (`call-builder.ts:130`).
- `Page.prev` of `HorizonClient` is a cursor without the order it is meant for: to go
  back a caller has to turn the order and the records (`horizon-client/src/parsers.ts:53`).
- `Server.checkMemoRequired` takes every error of loading an account, also a lost
  connection, for an account that requires no memo (`horizon/server.ts:208`).

*Operations and values*

- `'-0.5'` is taken as 0.5 and `'1.-5'` as 0.95 (`stellar-base-comp/src/operation.ts:81`): the
  sign of the whole part is lost in `BigInt('-0')`, and the check is on the result. A limit
  of a trust line that is negative is shown as `0.-500`, and nothing has an upper bound.
- A price too small for the largest denominator becomes 0/1; the branch of
  `approximatePrice` for `'1/3'` is never reached.
- Options and what is shown have other names: `line` for `asset`, and the flags of
  `setTrustLineFlags`; `setOptions` shows `clearFlags` above 7, which it refuses.
- `createAccount`, `beginSponsoringFutureReserves` and the `revoke...` factories pass a
  muxed address through their check and fail later.
- A `ManageData` without a value is shown with `undefined`, which cannot be given again;
  the prefix of a claimable balance id is not checked; hexadecimal text that is none is read as zero bytes;
  `revokeTrustlineSponsorship` does not handle a `LiquidityPoolAsset`; the `Asset` constructor takes any
  strkey as issuer; `createCustomContract` takes every address that is no contract's for an
  account; `invokeHostFunction` checks only top-level arguments.
- `createStellarAssetContract` and `createCustomContract` hand authorization entries on
  as they are (`operation.ts:1173`, `:1243`), where `invokeHostFunction` converts them:
  an entry of the compatibility package makes the two throw, and the model's
  `HostFunctionOp` refuse.
- The assets of a pool are ordered by their text where the ledger compares bytes.
- `Memo.text(bytes)` keeps a Latin-1 text, which is encoded in UTF-8 again: bytes above
  127 do not survive, while `memo.ts:146` says that raw bytes are preserved.
- `nativeToScVal` puts -2^63 in an `I128`; `scValToNative` shows an address as plain text, which is not made an
  address again; keys of a map that differ in their type only may collide.
- The compat decoder of signed payload strkeys accepts padding that is not zero and refuses an empty
  payload, the typed one the reverse.
- The compat `ScInt` lets a negative number wrap in an unsigned type.

*XDR*

- Strings: `xdr/README.md:148` speaks of UTF-8, and `tx-builder/src/helpers.ts:60`
  measures memo text in UTF-8 bytes, while `xdr/src/writer.ts:134` writes the low byte
  of each UTF-16 unit: a text beyond U+00FF does not come back. `RoundTrip` is stated
  for texts whose characters are bytes.
- `withDepth()` does not count back when it throws (`xdr/src/limits.ts:31`) and a
  writer of capacity 0 never grows (`xdr/src/writer.ts:165`); no code of the
  repository is affected.
- Opaque bytes that the compat classes show as text are replaced where they are not
  UTF-8 (`xdr-compat/converters.ts:70`): such an asset code cannot be written again.
- `fromXDR(..., 'hex')` reads digits that are none as zero.

*Web authentication*

- `buildChallengeTx()` ignores its `memo` (`webauth.ts:92`).

## 6. Not modelled

- Wire formats of REST and JSON-RPC answers (`rpc-client/src/parsers.ts`), TOML and
  federation parsing, Friendbot: field by field, one request each.
- Cryptography: a signature is what it is over and whose it is, a digest the value it
  is computed from. `Keypair` therefore only appears where it signs.
- The JSON side of the codecs, the text encodings of bytes (base64, hex), and the growing of the writer's buffer.
- The contract spec, invocation trees, contract ids and pool ids, authorization entries, Soroban
  data, ScVal errors and instances: conversions of the contract helpers left for later.
- Exact rational arithmetic stands for the doubles of the price search, and sequences of bits for `bigint`.
- Submission through Horizon and the root and fee statistics: one request, no state.
- The attributes of compat objects (getters and setters): the values themselves are modelled.

`PROJECT.json` lists each part with its reason.

## 7. Plan

Done so far: the modules of section 2 with their runs, and the theorems of section 4,
which state every safety property of the stream, the builders, the contract
calls, the requests and pages, the integers and the memo check. In order:

1. Lemmas on the operators of `WebAuth` that are free of recursion: which
   signatures `gatherTxSigners()` counts for whom, once they are read as they are meant to be.
2. Contract helpers: the contract spec and authorization entries.
3. RPC parsers and federation.
