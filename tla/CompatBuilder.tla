---------------------------- MODULE CompatBuilder ----------------------------
(***************************************************************************)
(* packages/stellar-base-comp: Account and MuxedAccount,                   *)
(* TransactionBuilder with cloneFrom and buildFeeBumpTransaction, and the  *)
(* Transaction and FeeBumpTransaction they make.                           *)
(*                                                                         *)
(* Everything is synchronous; what can go wrong is the order of calls.  A  *)
(* source is an Account object; builders share one when they are made from *)
(* it or from MuxedAccounts over it.  Operations are counted: what a       *)
(* built transaction holds went through its XDR and is a copy.             *)
(***************************************************************************)
EXTENDS Integers, Sequences, FiniteSets

CONSTANTS
  Sources,     \* Account objects: Own, and one for each clone
  Own,         \* the Account the caller made
  Builders,    \* TransactionBuilder objects
  Keys,        \* keypairs that can sign
  PublicOnly,  \* a keypair without its secret
  Fees,        \* fees per operation a caller asks for
  Resources,   \* resource fees of Soroban data; 0 stands for no data
  Foreign,     \* [fee, ops] of transactions made elsewhere
  Setters,     \* the setters the caller uses besides operations
  MinBaseFee,  \* 100 in the code
  MaxOps,      \* operations of a transaction: 100 in the XDR
  MaxFee,      \* fee of a transaction: 2^32 - 1 in the XDR
  MaxTxs, MaxSigs, MaxFailures, MaxBumps, \* bounds
  None

ASSUME BuilderAssumption ==
  /\ Own \in Sources /\ None \notin Sources \cup Nat /\ PublicOnly \notin Keys
  /\ Fees \subseteq Nat /\ Resources \subseteq Nat
  /\ Foreign \subseteq [fee : 0..MaxFee, ops : 0..MaxOps]
  /\ MinBaseFee \in Nat /\ MaxOps \in Nat /\ MaxFee \in Nat
  /\ MaxOps <= MinBaseFee
  /\ MaxTxs \in Nat

VARIABLES
  sequence, \* per source: its _sequence
  builder,  \* per builder: what it holds, or None
  tx,       \* the transactions, in the order they were made
  bump,     \* the fee bump transactions
  failures  \* per source: build() calls that threw after moving the sequence

vars == <<sequence, builder, tx, bump, failures>>

-----------------------------------------------------------------------------
(* fee: per operation.  time: no time bounds, bounds without an end, or    *)
(* with one.  v2: a precondition beyond the time bounds is set.  bad: a    *)
(* value is set that does not encode.  of: the transaction it clones.      *)
NewBuilder(s, fee, time) ==
  [source |-> s, fee |-> fee, ops |-> 0, time |-> time, v2 |-> FALSE,
   soroban |-> 0, bad |-> FALSE, of |-> None]

(* What a hash and a signature cover. *)
Body(t) == [seq |-> t.seq, fee |-> t.fee, ops |-> t.ops, time |-> t.time,
            v2 |-> t.v2, soroban |-> t.soroban]

(* A hash of a fee bump covers the inner transaction's signatures too.     *)
WrappedBody(b) == [fee |-> b.fee, inner |-> b.inner, innerSigs |-> b.innerSigs]

Init ==
  /\ sequence = [s \in Sources |-> 1]
  /\ builder = [b \in Builders |-> None]
  /\ tx = <<>>
  /\ bump = <<>>
  /\ failures = [s \in Sources |-> 0]

-----------------------------------------------------------------------------
(* Setting up a builder. *)

New(b, fee) ==
  /\ builder[b] = None
  /\ \E time \in {"unset", "infinite", "finite"} :
       builder' = [builder EXCEPT ![b] = NewBuilder(Own, fee, time)]
  /\ UNCHANGED <<sequence, tx, bump, failures>>

Set(b, fields) ==
  /\ builder[b] # None
  /\ builder' = [builder EXCEPT ![b] =
       [f \in DOMAIN @ |-> IF f \in DOMAIN fields THEN fields[f] ELSE @[f]]]
  /\ UNCHANGED <<sequence, tx, bump, failures>>

(* addOperation, addOperationAt; clearOperationAt; clearOperations.        *)
SetOperations(b) ==
  /\ builder[b] # None
  /\ \E n \in {builder[b].ops + 1, builder[b].ops - 1, 0} \cap 0..(MaxOps + 1) :
       Set(b, [ops |-> n])

(* An end that is set stays, unless setTimebounds() replaces it.           *)
SetTimeout(b) ==
  /\ "timeout" \in Setters
  /\ builder[b] # None /\ builder[b].time # "finite"
  /\ \E time \in {"infinite", "finite"} : Set(b, [time |-> time])

SetTimebounds(b) ==
  /\ "timebounds" \in Setters
  /\ \E time \in {"infinite", "finite"} : Set(b, [time |-> time])

(* Where no build() may throw, no garbage is set.                          *)
Garbage == IF MaxFailures = 0 THEN {FALSE} ELSE BOOLEAN

(* setLedgerbounds, setMinAccountSequence*, setExtraSigners: a signer that *)
(* is no key does not encode.                                              *)
SetPreconditions(b) ==
  /\ "preconditions" \in Setters
  /\ \E bad \in Garbage : Set(b, [v2 |-> TRUE, bad |-> bad])

(* setSorobanData: a string that is no XDR does not encode.                *)
SetSorobanData(b) ==
  /\ "sorobanData" \in Setters
  /\ \E r \in Resources, bad \in Garbage : Set(b, [soroban |-> r, bad |-> bad])

-----------------------------------------------------------------------------
(* build().  Mutant: the sequence stays.                                   *)

Fee(b) == builder[b].fee * builder[b].ops

Encodes(b) ==
  /\ ~builder[b].bad
  /\ builder[b].ops <= MaxOps
  /\ Fee(b) <= MaxFee

BuiltBy(b) ==
  [seq |-> sequence[builder[b].source] + 1, fee |-> Fee(b),
   ops |-> builder[b].ops, time |-> builder[b].time, v2 |-> builder[b].v2,
   soroban |-> builder[b].soroban, v0 |-> FALSE, sigs |-> <<>>,
   source |-> builder[b].source, of |-> builder[b].of]

MutantBuildKeepsSequence(b) ==
  /\ builder[b] # None /\ builder[b].time # "unset" /\ Encodes(b)
  /\ Len(tx) < MaxTxs
  /\ tx' = Append(tx, BuiltBy(b))
  /\ UNCHANGED <<sequence, builder, bump, failures>>
Build(b) ==
  /\ builder[b] # None /\ builder[b].time # "unset" /\ Encodes(b)
  /\ Len(tx) < MaxTxs
  /\ sequence' = [sequence EXCEPT ![builder[b].source] = @ + 1]
  /\ tx' = Append(tx, BuiltBy(b))
  /\ UNCHANGED <<builder, bump, failures>>

(* The sequence moved before the encoding throws.  Without time bounds it  *)
(* throws before that and nothing changes.                                 *)
BuildThrows(b) ==
  /\ builder[b] # None /\ builder[b].time # "unset" /\ ~Encodes(b)
  /\ failures[builder[b].source] < MaxFailures
  /\ sequence' = [sequence EXCEPT ![builder[b].source] = @ + 1]
  /\ failures' = [failures EXCEPT ![builder[b].source] = @ + 1]
  /\ UNCHANGED <<builder, tx, bump>>

-----------------------------------------------------------------------------
(* cloneFrom(), without options: an Account of its own, the fee divided by *)
(* the operations, the time bounds and the operations.                     *)

FeePerOperation(t) == t.fee \div (IF t.ops = 0 THEN 1 ELSE t.ops)

Unused(s) == s # Own /\ \A b \in Builders : builder[b] # None => builder[b].source # s

Cloned(i, s) ==
  [NewBuilder(s, FeePerOperation(tx[i]), tx[i].time) EXCEPT
     !.ops = tx[i].ops, !.of = i]

(* Mutant: the fee of the clone is rounded up.                             *)
MutantCloneRoundsUp(i, b, s) ==
  /\ i \in DOMAIN tx /\ builder[b] = None /\ Unused(s)
  /\ sequence' = [sequence EXCEPT ![s] = tx[i].seq - 1]
  /\ builder' = [builder EXCEPT ![b] = [Cloned(i, s) EXCEPT !.fee = @ + 1]]
  /\ UNCHANGED <<tx, bump, failures>>
(* Mutant: the clone builds from the caller's account, moved back.         *)
MutantCloneMovesBack(i, b, s) ==
  /\ i \in DOMAIN tx /\ builder[b] = None /\ Unused(s)
  /\ sequence' = [sequence EXCEPT ![Own] = tx[i].seq - 1]
  /\ builder' = [builder EXCEPT ![b] = Cloned(i, Own)]
  /\ UNCHANGED <<tx, bump, failures>>
CloneFrom(i, b, s) ==
  /\ i \in DOMAIN tx /\ builder[b] = None /\ Unused(s)
  /\ sequence' = [sequence EXCEPT ![s] = tx[i].seq - 1]
  /\ builder' = [builder EXCEPT ![b] = Cloned(i, s)]
  /\ UNCHANGED <<tx, bump, failures>>

(* fromXDR() of a transaction made elsewhere, of the older kind or not.    *)
Import ==
  /\ Len(tx) < MaxTxs
  /\ \E f \in Foreign, r \in Resources, v0, v2 \in BOOLEAN :
       /\ v0 => r = 0 /\ ~v2
       /\ tx' = Append(tx, [seq |-> 2, fee |-> f.fee, ops |-> f.ops,
                            time |-> IF v0 THEN "unset" ELSE "finite",
                            v2 |-> v2, soroban |-> r, v0 |-> v0, sigs |-> <<>>,
                            source |-> None, of |-> None])
  /\ UNCHANGED <<sequence, builder, bump, failures>>

-----------------------------------------------------------------------------
(* Signatures. *)

Signature(k, body) == [key |-> k, over |-> body]

(* sign() pushes one signature after the other: those before a keypair     *)
(* that cannot sign stay.  Mutant: it pushes something for that one too.   *)
MutantSignsAnyway(ks) == ks
Signs(ks) ==
  IF PublicOnly \in {ks[i] : i \in DOMAIN ks}
    THEN SubSeq(ks, 1, (CHOOSE i \in DOMAIN ks :
                          ks[i] = PublicOnly /\ \A j \in 1..(i - 1) : ks[j] # PublicOnly) - 1)
    ELSE ks

KeyLists == {<<k>> : k \in Keys} \cup {<<k, l>> : k, l \in Keys \cup {PublicOnly}}

Signed(sigs, ks, body) ==
  sigs \o [i \in DOMAIN Signs(ks) |-> Signature(Signs(ks)[i], body)]

(* sign, addSignature, addDecoratedSignature.  Mutant: the fee bumps that  *)
(* wrap the transaction share its signatures.                              *)
MutantSignAliases(i) ==
  /\ i \in DOMAIN tx
  /\ \E ks \in KeyLists :
       /\ Len(tx[i].sigs) + Len(ks) <= MaxSigs
       /\ tx' = [tx EXCEPT ![i].sigs = Signed(@, ks, Body(tx[i]))]
       /\ bump' = [n \in DOMAIN bump |->
            IF bump[n].of = i
              THEN [bump[n] EXCEPT !.innerSigs = tx'[i].sigs] ELSE bump[n]]
  /\ UNCHANGED <<sequence, builder, failures>>
Sign(i) ==
  /\ i \in DOMAIN tx
  /\ \E ks \in KeyLists :
       /\ Len(tx[i].sigs) + Len(ks) <= MaxSigs
       /\ tx' = [tx EXCEPT ![i].sigs = Signed(@, ks, Body(tx[i]))]
  /\ UNCHANGED <<sequence, builder, bump, failures>>

-----------------------------------------------------------------------------
(* buildFeeBumpTransaction() *)

(* Division of integers: whole stroops, and towards zero.                  *)
InnerRate(t) == IF t.fee < t.soroban THEN 0 ELSE (t.fee - t.soroban) \div t.ops
LeastBaseFee(t) == IF InnerRate(t) > MinBaseFee THEN InnerRate(t) ELSE MinBaseFee

(* The inner transaction is of the newer kind, with the signatures it has  *)
(* now; innerTransaction shows a copy of it.                               *)
Wrapped(i, base) ==
  LET t == tx[i]
      fee == base * (t.ops + 1) + t.soroban
  IN  [of |-> i, base |-> base, fee |-> fee, inner |-> Body(t),
       innerSigs |-> t.sigs, shown |-> t.sigs, sigs |-> <<>>,
       hash |-> WrappedBody([fee |-> fee, inner |-> Body(t), innerSigs |-> t.sigs])]

(* Mutant: any base fee will do.                                           *)
MutantWrapTakesAnyFee(i, base) ==
  /\ i \in DOMAIN tx /\ Len(bump) < MaxBumps
  /\ tx[i].ops # 0
  /\ bump' = Append(bump, Wrapped(i, base))
  /\ UNCHANGED <<sequence, builder, tx, failures>>
Wrap(i, base) ==
  /\ i \in DOMAIN tx /\ Len(bump) < MaxBumps
  /\ tx[i].ops # 0
  /\ base >= LeastBaseFee(tx[i])
  /\ bump' = Append(bump, Wrapped(i, base))
  /\ UNCHANGED <<sequence, builder, tx, failures>>

(* innerTransaction.sign(): the copy is signed, not what is sent.          *)
SignShown(n) ==
  /\ n \in DOMAIN bump
  /\ \E k \in Keys :
       /\ Len(bump[n].shown) < MaxSigs
       /\ bump' = [bump EXCEPT ![n].shown = Append(@, Signature(k, bump[n].inner))]
  /\ UNCHANGED <<sequence, builder, tx, failures>>

SignBump(n) ==
  /\ n \in DOMAIN bump
  /\ \E ks \in KeyLists :
       /\ Len(bump[n].sigs) + Len(ks) <= MaxSigs
       /\ bump' = [bump EXCEPT ![n].sigs = Signed(@, ks, bump[n].hash)]
  /\ UNCHANGED <<sequence, builder, tx, failures>>

-----------------------------------------------------------------------------
Next ==
  \/ \E b \in Builders :
       \/ \E fee \in Fees : New(b, fee)
       \/ SetOperations(b) \/ SetTimeout(b) \/ SetTimebounds(b)
       \/ SetPreconditions(b) \/ SetSorobanData(b)
       \/ Build(b) \/ BuildThrows(b)
       \/ \E i \in DOMAIN tx, s \in Sources : CloneFrom(i, b, s)
  \/ Import
  \/ \E i \in DOMAIN tx : Sign(i) \/ \E base \in Fees : Wrap(i, base)
  \/ \E n \in DOMAIN bump : SignShown(n) \/ SignBump(n)

Spec == Init /\ [][Next]_vars

-----------------------------------------------------------------------------
(* Properties. *)

Positions == Nat \cup {None}
Times == {"unset", "infinite", "finite"}
BuilderRecs ==
  [source : Sources, fee : Nat, ops : Nat, time : Times, v2 : BOOLEAN,
   soroban : Nat, bad : BOOLEAN, of : Positions]
ASSUME NoBuilderAssumption == None \notin BuilderRecs
Bodies ==
  [seq : Int, fee : Nat, ops : Nat, time : Times, v2 : BOOLEAN, soroban : Nat]
Sigs == Seq([key : Keys, over : Bodies])

(* The shape of the state; a Soroban fee, a clone and a fee bump refer to  *)
(* transactions that exist.                                                *)
TypeOK ==
  /\ sequence \in [Sources -> Int]
  /\ failures \in [Sources -> Nat]
  /\ \A b \in Builders : builder[b] \in BuilderRecs \cup {None}
  /\ \A i \in DOMAIN tx :
       /\ Body(tx[i]) \in Bodies /\ tx[i].sigs \in Sigs
       /\ tx[i].source \in Sources \cup {None} /\ tx[i].of \in (1..(i - 1)) \cup {None}
  /\ \A n \in DOMAIN bump :
       /\ bump[n].of \in DOMAIN tx /\ bump[n].fee \in Nat
       /\ bump[n].innerSigs \in Sigs /\ bump[n].shown \in Sigs

(* Builders that share an Account, directly or through muxed accounts, and *)
(* however their calls mix, never give two transactions one number.        *)
SequenceNumbersDistinct ==
  \A i, j \in DOMAIN tx :
    i # j /\ tx[i].source = tx[j].source /\ tx[i].source # None => tx[i].seq # tx[j].seq

BuiltFrom(s) == {i \in DOMAIN tx : tx[i].source = s}

(* Every number an Account moved past is in a transaction it built or was  *)
(* used up by a build() that threw: nothing else leaves a hole that all    *)
(* later transactions of the account would wait for.                       *)
EveryNumberAccountedFor ==
  /\ sequence[Own] = 1 + Cardinality(BuiltFrom(Own)) + failures[Own]
  /\ \A b \in Builders : builder[b] # None /\ builder[b].of # None =>
       LET s == builder[b].source IN
       sequence[s] = tx[builder[b].of].seq - 1 + Cardinality(BuiltFrom(s)) + failures[s]

(* Each account hands out its numbers one by one and for good, from the    *)
(* moment it is there: whatever is built, thrown, cloned or imported       *)
(* around it, and whoever shares it.                                       *)
LastNumbers == [s \in Sources |-> IF Unused(s) THEN None ELSE sequence[s]]
HeldNumbers == {[of |-> tx[i].source, by |-> i, number |-> tx[i].seq] :
           i \in {j \in DOMAIN tx : tx[j].source # None}}
Handed == INSTANCE SequenceNumbers WITH
  Accounts <- Sources, Holders <- 1..MaxTxs, Absent <- None,
  last <- LastNumbers, held <- HeldNumbers
NumbersAreHandedOut == Handed!NumbersSpec

(* A clone with as many operations never costs more than the original, and *)
(* what the division drops is less than a stroop per operation.            *)
CloneCostsNoMore ==
  \A i \in DOMAIN tx :
    tx[i].of # None /\ tx[i].ops > 0 /\ tx[i].ops = tx[tx[i].of].ops =>
      /\ tx[i].fee <= tx[tx[i].of].fee
      /\ tx[tx[i].of].fee < tx[i].fee + tx[i].ops

(* A fee bump pays more in total than the transaction it wraps, although   *)
(* the inner rate is rounded down: the least base fee makes up for it.     *)
BumpPaysMoreThanInner ==
  \A n \in DOMAIN bump : bump[n].fee > bump[n].inner.fee

(* The hash a fee bump was given, and every signature over it, is that of  *)
(* the envelope it sends, however often the wrapped transaction and the    *)
(* copy it shows are signed before or after.                               *)
BumpHashIsOfWhatIsSent ==
  \A n \in DOMAIN bump :
    /\ bump[n].hash = WrappedBody(bump[n])
    /\ \A i \in DOMAIN bump[n].sigs : bump[n].sigs[i].over = WrappedBody(bump[n])
=============================================================================
