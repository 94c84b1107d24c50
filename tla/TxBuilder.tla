------------------------------ MODULE TxBuilder ------------------------------
(***************************************************************************)
(* packages/tx-builder: builders that share one source account, the        *)
(* transactions they build, their signatures, and fee-bump envelopes.      *)
(*                                                                         *)
(* build(), sign() and buildFeeBumpTransaction() are async: between two    *)
(* of their awaits the caller runs.  Objects are shared by reference: a    *)
(* transaction keeps its builder's operations array, and a fee bump keeps  *)
(* the signatures array of the transaction it wraps.  References are       *)
(* modelled as such: ops and sigs are heaps of arrays.  A digest is the    *)
(* value it is computed from, so equal digests mean equal contents.        *)
(***************************************************************************)
EXTENDS Integers, Sequences, FiniteSets

CONSTANTS
  Builders,      \* TransactionBuilder objects on the same source account
  Txs,           \* BuiltTransaction objects, and the build() calls they are
                 \* the result of
  Ops,           \* operations
  BadOps,        \* operations the XDR codec refuses to encode
  Keys,          \* keypairs
  PublicOnly,    \* keypairs without a secret key
  KeyLists,      \* the argument lists sign() is called with
  BaseFee,       \* opts.fee, per operation
  FirstSeq,      \* the account's sequence number when it is loaded
  ReuseBuilders, \* the caller adds operations to a builder it has built from
  ResignInner,   \* the caller signs a transaction after wrapping it
  None,          \* no transaction, no digest
  MaxOps,        \* bound: operations of a builder
  MaxSigning,    \* bound: sign() calls under way
  MaxSigs        \* bound: signatures of an envelope

ASSUME TxAssumption ==
  /\ BadOps \subseteq Ops
  /\ PublicOnly \subseteq Keys
  /\ KeyLists \subseteq Seq(Keys)
  /\ BaseFee \in Nat /\ FirstSeq \in Nat
  /\ ReuseBuilders \in BOOLEAN /\ ResignInner \in BOOLEAN
  /\ Builders \cap Txs = {}
  /\ MaxOps \in Nat /\ MaxSigs \in Nat /\ MaxSigning \in Nat

VARIABLES
  validAddress, \* FALSE: parseMuxedAccount refuses the account's address
  sequence, \* sourceAccount.sequenceNumber
  ops,      \* the operations arrays, one per builder, and one per
            \* transaction read back from XDR
  tx,       \* the transactions, with the position of the build() that
            \* makes them
  sigs,     \* the signatures array of each transaction
  signing,  \* sign() calls whose signatures are not computed yet
  bump,     \* the fee bump
  parsed    \* the fee bump read back from its XDR

vars == <<validAddress, sequence, ops, tx, sigs, signing, bump, parsed>>

Arrays == Builders \cup Txs

-----------------------------------------------------------------------------
(* What the codec serialises now. *)
Body(t) == [ops |-> ops[tx[t].array], fee |-> tx[t].fee, seq |-> tx[t].seq]
WrappedBody == [inner |-> Body(bump.inner), innerSigs |-> sigs[bump.inner],
                fee |-> bump.fee]

Encodable(s) == \A i \in DOMAIN s : s[i] \notin BadOps

Built(t) == tx[t].pc = "built"

(* Some build() of builder b was called. *)
Used(b) == \E t \in Txs : tx[t].pc # "none" /\ tx[t].array = b

(* The transaction is wrapped, or being wrapped. *)
Wrapped(t) == bump.pc # "none" /\ bump.inner = t

NoTx(b) == [pc |-> "none", array |-> b, fee |-> 0, seq |-> 0, hash |-> None]
NoBump == [pc |-> "none", inner |-> None, fee |-> 0, hash |-> None, sigs |-> <<>>]
NoParsed == [pc |-> "none", hash |-> None]

Init ==
  /\ validAddress \in BOOLEAN
  /\ sequence = FirstSeq
  /\ ops = [a \in Arrays |-> <<>>]
  /\ tx = [t \in Txs |-> NoTx(t)]
  /\ sigs = [t \in Txs |-> <<>>]
  /\ signing = {}
  /\ bump = NoBump
  /\ parsed = NoParsed

-----------------------------------------------------------------------------
(* The builder. *)

AddOperation(b, o) ==
  /\ Used(b) => ReuseBuilders
  /\ Len(ops[b]) < MaxOps
  /\ ops' = [ops EXCEPT ![b] = Append(@, o)]
  /\ UNCHANGED <<validAddress, sequence, tx, sigs, signing, bump, parsed>>

(* Mutants: the fee is that of one operation; the account moves twice; the *)
(* hash is not awaited.                                                    *)
MutantBuildFlatFee(b, t) ==
  /\ tx[t].pc = "none"
  /\ ops[b] # <<>>
  /\ validAddress
  /\ sequence' = sequence + 1
  /\ tx' = [tx EXCEPT ![t] = [pc |-> "networkId", array |-> b, fee |-> BaseFee,
                              seq |-> sequence + 1, hash |-> None]]
  /\ UNCHANGED <<validAddress, ops, sigs, signing, bump, parsed>>
MutantBuildSkipsNumber(b, t) ==
  /\ tx[t].pc = "none"
  /\ ops[b] # <<>>
  /\ validAddress
  /\ sequence' = sequence + 2
  /\ tx' = [tx EXCEPT ![t] = [pc |-> "networkId", array |-> b,
                              fee |-> BaseFee * Len(ops[b]),
                              seq |-> sequence + 2, hash |-> None]]
  /\ UNCHANGED <<validAddress, ops, sigs, signing, bump, parsed>>

MutantBuildDoesNotAwait(b, t) ==
  /\ tx[t].pc = "none"
  /\ ops[b] # <<>>
  /\ validAddress
  /\ sequence' = sequence + 1
  /\ tx' = [tx EXCEPT ![t] = [pc |-> "built", array |-> b,
                              fee |-> BaseFee * Len(ops[b]),
                              seq |-> sequence + 1, hash |-> None]]
  /\ UNCHANGED <<validAddress, ops, sigs, signing, bump, parsed>>

(* build() up to its first await.  Fee and sequence number are those of    *)
(* the call; the operations are a reference.                               *)
BuildCall(b, t) ==
  /\ tx[t].pc = "none"
  /\ ops[b] # <<>>
  /\ validAddress
  /\ sequence' = sequence + 1
  /\ tx' = [tx EXCEPT ![t] = [pc |-> "networkId", array |-> b,
                              fee |-> BaseFee * Len(ops[b]),
                              seq |-> sequence + 1, hash |-> None]]
  /\ UNCHANGED <<validAddress, ops, sigs, signing, bump, parsed>>

(* parseMuxedAccount throws: the sequence number has moved already. *)
BuildCallThrows(b, t) ==
  /\ tx[t].pc = "none"
  /\ ops[b] # <<>>
  /\ ~validAddress
  /\ sequence' = sequence + 1
  /\ tx' = [tx EXCEPT ![t] = [NoTx(b) EXCEPT !.pc = "failed"]]
  /\ UNCHANGED <<validAddress, ops, sigs, signing, bump, parsed>>

(* Mutants: the account is read again after the await; a build() that      *)
(* fails puts the account back to where it was before.                     *)
MutantEncodeReadsAccount(t) ==
  /\ tx[t].pc = "networkId"
  /\ tx' = [tx EXCEPT
       ![t] = IF Encodable(ops[@.array])
              THEN [@ EXCEPT !.pc = "digest", !.hash = [Body(t) EXCEPT !.seq = sequence]]
              ELSE [@ EXCEPT !.pc = "failed"]]
  /\ UNCHANGED <<validAddress, sequence, ops, sigs, signing, bump, parsed>>

MutantEncodeTakesBack(t) ==
  /\ tx[t].pc = "networkId"
  /\ tx' = [tx EXCEPT
       ![t] = IF Encodable(ops[@.array])
              THEN [@ EXCEPT !.pc = "digest", !.hash = Body(t)]
              ELSE [@ EXCEPT !.pc = "failed"]]
  /\ sequence' = IF Encodable(ops[tx[t].array]) THEN sequence ELSE tx[t].seq - 1
  /\ UNCHANGED <<validAddress, ops, sigs, signing, bump, parsed>>

(* The network id is there: the transaction is encoded and its digest      *)
(* requested.  A codec error rejects build().                              *)
BuildEncode(t) ==
  /\ tx[t].pc = "networkId"
  /\ tx' = [tx EXCEPT
       ![t] = IF Encodable(ops[@.array])
              THEN [@ EXCEPT !.pc = "digest", !.hash = Body(t)]
              ELSE [@ EXCEPT !.pc = "failed"]]
  /\ UNCHANGED <<validAddress, sequence, ops, sigs, signing, bump, parsed>>

BuildReturns(t) ==
  /\ tx[t].pc = "digest"
  /\ tx' = [tx EXCEPT ![t].pc = "built"]
  /\ UNCHANGED <<validAddress, sequence, ops, sigs, signing, bump, parsed>>

-----------------------------------------------------------------------------
(* Signatures. *)

MayGrow(t) == Built(t) /\ (Wrapped(t) => ResignInner)

(* sign(...keypairs): the digests of all of them are requested at once. *)
SignCall(t, ks) ==
  /\ MayGrow(t)
  /\ Cardinality(signing) < MaxSigning
  /\ signing' = signing \cup {[tx |-> t, keys |-> ks, over |-> tx[t].hash]}
  /\ UNCHANGED <<validAddress, sequence, ops, tx, sigs, bump, parsed>>

(* Promise.all resolves and the signatures are pushed in one go. *)
SignResolves(c) ==
  /\ \A i \in DOMAIN c.keys : c.keys[i] \notin PublicOnly
  /\ Len(sigs[c.tx]) + Len(c.keys) <= MaxSigs
  /\ signing' = signing \ {c}
  /\ sigs' = [sigs EXCEPT
       ![c.tx] = @ \o [i \in DOMAIN c.keys |-> [key |-> c.keys[i], over |-> c.over]]]
  /\ UNCHANGED <<validAddress, sequence, ops, tx, bump, parsed>>

(* One keypair has no secret: Promise.all rejects and nothing is pushed,   *)
(* the signatures of the others included.                                  *)
SignRejects(c) ==
  /\ \E i \in DOMAIN c.keys : c.keys[i] \in PublicOnly
  /\ signing' = signing \ {c}
  /\ UNCHANGED <<validAddress, sequence, ops, tx, sigs, bump, parsed>>

(* addSignature: a signature over the hash, made elsewhere. *)
AddSignature(t, k) ==
  /\ MayGrow(t)
  /\ Len(sigs[t]) < MaxSigs
  /\ sigs' = [sigs EXCEPT ![t] = Append(@, [key |-> k, over |-> tx[t].hash])]
  /\ UNCHANGED <<validAddress, sequence, ops, tx, signing, bump, parsed>>

(* fromXdr(toXdr(t)): a new transaction with arrays of its own. *)
FromXdr(t, u) ==
  /\ Built(t)
  /\ tx[u].pc = "none"
  /\ Encodable(ops[tx[t].array])
  /\ ops' = [ops EXCEPT ![u] = ops[tx[t].array]]
  /\ sigs' = [sigs EXCEPT ![u] = sigs[t]]
  /\ tx' = [tx EXCEPT ![u] = [tx[t] EXCEPT !.array = u, !.hash = Body(t)]]
  /\ UNCHANGED <<validAddress, sequence, signing, bump, parsed>>

-----------------------------------------------------------------------------
(* Fee bumps. *)

(* A caller who does not sign a wrapped transaction again has waited for   *)
(* the sign() calls under way.                                             *)
WrapCall(t) ==
  /\ bump.pc = "none"
  /\ Built(t)
  /\ ~ResignInner => \A c \in signing : c.tx # t
  /\ bump' = [NoBump EXCEPT !.pc = "networkId", !.inner = t,
                            !.fee = 2 * tx[t].fee]
  /\ UNCHANGED <<validAddress, sequence, ops, tx, sigs, signing, parsed>>

(* Mutant: the digest leaves the inner signatures out.                     *)
MutantWrapIgnoresSigs ==
  /\ bump.pc = "networkId"
  /\ bump' = [bump EXCEPT !.pc = "digest",
                          !.hash = [WrappedBody EXCEPT !.innerSigs = <<>>]]
  /\ UNCHANGED <<validAddress, sequence, ops, tx, sigs, signing, parsed>>

WrapEncode ==
  /\ bump.pc = "networkId"
  /\ bump' = IF Encodable(ops[tx[bump.inner].array])
             THEN [bump EXCEPT !.pc = "digest", !.hash = WrappedBody]
             ELSE [bump EXCEPT !.pc = "failed"]
  /\ UNCHANGED <<validAddress, sequence, ops, tx, sigs, signing, parsed>>

WrapReturns ==
  /\ bump.pc = "digest"
  /\ bump' = [bump EXCEPT !.pc = "built"]
  /\ UNCHANGED <<validAddress, sequence, ops, tx, sigs, signing, parsed>>

(* sign() of the fee bump, or addSignature to it. *)
SignBump(k) ==
  /\ bump.pc = "built"
  /\ k \notin PublicOnly
  /\ Len(bump.sigs) < MaxSigs
  /\ bump' = [bump EXCEPT !.sigs = Append(@, [key |-> k, over |-> bump.hash])]
  /\ UNCHANGED <<validAddress, sequence, ops, tx, sigs, signing, parsed>>

(* fromXdr(toXdr()) of the fee bump hashes what it has decoded. *)
BumpFromXdr ==
  /\ bump.pc = "built"
  /\ parsed.pc = "none"
  /\ Encodable(ops[tx[bump.inner].array])
  /\ parsed' = [pc |-> "built", hash |-> WrappedBody]
  /\ UNCHANGED <<validAddress, sequence, ops, tx, sigs, signing, bump>>

Next ==
  \/ \E b \in Builders, o \in Ops : AddOperation(b, o)
  \/ \E b \in Builders, t \in Txs : BuildCall(b, t)
  \/ \E b \in Builders, t \in Txs : BuildCallThrows(b, t)
  \/ \E t \in Txs : BuildEncode(t)
  \/ \E t \in Txs : BuildReturns(t)
  \/ \E t \in Txs, ks \in KeyLists : SignCall(t, ks)
  \/ \E c \in signing : SignResolves(c)
  \/ \E c \in signing : SignRejects(c)
  \/ \E t \in Txs, k \in Keys : AddSignature(t, k)
  \/ \E t, u \in Txs : FromXdr(t, u)
  \/ \E t \in Txs : WrapCall(t)
  \/ WrapEncode
  \/ WrapReturns
  \/ \E k \in Keys : SignBump(k)
  \/ BumpFromXdr

Spec == Init /\ [][Next]_vars

-----------------------------------------------------------------------------
(* Properties. *)

Positions == {"none", "networkId", "digest", "built", "failed"}
Digests == [ops : Seq(Ops), fee : Nat, seq : Nat]
TxType == [pc : Positions, array : Arrays, fee : Nat, seq : Nat,
           hash : Digests \cup {None}]
Signature == [key : Keys, over : Digests]

(* Every variable keeps to its type, and whatever was signed was hashed.   *)
TypeOK ==
  /\ validAddress \in BOOLEAN
  /\ sequence \in Nat
  /\ ops \in [Arrays -> Seq(Ops)]
  /\ tx \in [Txs -> TxType]
  /\ sigs \in [Txs -> Seq(Signature)]
  /\ \A c \in signing : c.tx \in Txs /\ c.keys \in Seq(Keys) /\ c.over \in Digests
  /\ bump.pc \in Positions
  /\ bump.pc # "none" => bump.inner \in Txs

(* Every signature in the envelope toXdr() would serialise now is over the *)
(* transaction in that envelope: the hash computed by build() did not go   *)
(* stale while the transaction was shared.                                 *)
SignaturesCoverWhatIsSent ==
  \A t \in Txs : Built(t) =>
    /\ tx[t].hash = Body(t)
    /\ \A i \in DOMAIN sigs[t] : sigs[t][i].over = Body(t)

(* The same for the fee bump, whose hash also covers the signatures of the *)
(* transaction it wraps, and which has the same hash when it is read back  *)
(* from its XDR.                                                           *)
BumpCoversWhatIsSent ==
  bump.pc = "built" =>
    /\ bump.hash = WrappedBody
    /\ parsed.pc = "built" => parsed.hash = bump.hash
    /\ \A i \in DOMAIN bump.sigs : bump.sigs[i].over = WrappedBody

(* opts.fee is a fee per operation: a transaction pays for the operations  *)
(* it carries.                                                             *)
FeeCoversOperations ==
  \A t \in Txs : Built(t) => tx[t].fee = BaseFee * Len(ops[tx[t].array])

(* The transactions an account's builders make, however their build()      *)
(* calls overlap.                                                          *)
FromBuilders == {t \in Txs : tx[t].pc # "none" /\ tx[t].array \in Builders}

(* Builders that share an account never hand out a sequence number twice,  *)
(* and the number each transaction carries is one the account has passed.  *)
SequenceNumbersDistinct ==
  \A t \in FromBuilders : tx[t].pc # "failed" =>
    /\ tx[t].seq \in (FirstSeq + 1)..sequence
    /\ \A u \in FromBuilders \ {t} : tx[u].pc # "failed" => tx[u].seq # tx[t].seq

(* build() that fails after the sequence number moved leaves a hole: the   *)
(* numbers of the transactions of an account whose builds all succeed are  *)
(* exactly the ones after the number it was loaded with.                   *)
NoHoleWithoutFailure ==
  (\A t \in FromBuilders : tx[t].pc # "failed")
    => {tx[t].seq : t \in FromBuilders} = (FirstSeq + 1)..sequence

(* The account gives a number to each build() that takes one, in the order *)
(* of the calls and never twice, whatever becomes of them while they wait: *)
(* no build() that fails puts back what an overlapping one counted from.   *)
(* A build() whose address does not parse never took its number.           *)
LastNumbers == [a \in {"sourceAccount"} |-> sequence]
HeldNumbers == {[of |-> "sourceAccount", by |-> t, number |-> tx[t].seq] :
           t \in {u \in FromBuilders : tx[u].seq # 0}}
Handed == INSTANCE SequenceNumbers WITH
  Accounts <- {"sourceAccount"}, Holders <- Txs, Absent <- None,
  last <- LastNumbers, held <- HeldNumbers
NumbersAreHandedOut == Handed!NumbersSpec
=============================================================================
