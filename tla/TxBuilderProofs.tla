--------------------------- MODULE TxBuilderProofs ---------------------------
(***************************************************************************)
(* Proofs about TxBuilder, for any number of builders, transactions,       *)
(* operations, keypairs and overlapping calls.                             *)
(***************************************************************************)
EXTENDS TxBuilder, TLAPS

(* The actions that touch neither the transactions nor their arrays.       *)
LEMMA TxTypeOf ==
  ASSUME TypeOK, NEW t \in Txs
  PROVE  /\ tx[t] \in TxType
         /\ tx[t].array \in Arrays /\ tx[t].fee \in Nat /\ tx[t].seq \in Nat
         /\ ops[tx[t].array] \in Seq(Ops)
         /\ Body(t) \in Digests
         /\ sigs[t] \in Seq(Signature)
BY DEF TypeOK, TxType, Body, Digests

(* A digest is there once it was requested, and only a built transaction   *)
(* is signed.                                                              *)
TypeInv ==
  /\ TypeOK
  /\ \A t \in Txs : tx[t].pc \in {"digest", "built"} => tx[t].hash \in Digests
  /\ \A c \in signing : Built(c.tx)

LEMMA TypeInvInit == Init => TypeInv
<1> SUFFICES ASSUME Init PROVE TypeInv
  OBVIOUS
<1> USE TxAssumption DEF Init
<1>1. ops \in [Arrays -> Seq(Ops)] /\ sigs \in [Txs -> Seq(Signature)]
  OBVIOUS
<1>2. tx \in [Txs -> TxType]
  BY DEF NoTx, TxType, Positions, Arrays
<1>3. bump.pc = "none"
  BY DEF NoBump
<1>4. \A t \in Txs : tx[t].pc = "none"
  BY DEF NoTx
<1>5. QED
  BY <1>1, <1>2, <1>3, <1>4 DEF TypeInv, TypeOK, Positions

LEMMA TypeInvStep == TypeInv /\ [Next]_vars => TypeInv'
<1> SUFFICES ASSUME TypeInv, [Next]_vars PROVE TypeInv'
  OBVIOUS
<1> USE TxAssumption
<1>0. TypeOK
  BY DEF TypeInv
<1>1. ASSUME NEW b \in Builders, NEW o \in Ops, AddOperation(b, o)
      PROVE  TypeInv'
  <2>1. ops' \in [Arrays -> Seq(Ops)]
    BY <1>0, <1>1 DEF AddOperation, TypeOK, Arrays
  <2>2. QED
    BY <1>1, <2>1 DEF AddOperation, TypeInv, TypeOK, Built
<1>2. ASSUME NEW b \in Builders, NEW t \in Txs, BuildCall(b, t)
      PROVE  TypeInv'
  <2>1. Len(ops[b]) \in Nat /\ BaseFee * Len(ops[b]) \in Nat /\ b \in Arrays
    <3>1. b \in Arrays
      BY DEF Arrays
    <3>2. ops[b] \in Seq(Ops)
      BY <1>0, <3>1 DEF TypeOK
    <3>3. Len(ops[b]) \in Nat
      BY <3>2
    <3>4. \A m, n \in Nat : m * n \in Nat
      OBVIOUS
    <3>5. QED
      BY <3>1, <3>3, <3>4
  <2>2. tx' \in [Txs -> TxType] /\ sequence' \in Nat
    BY <1>0, <1>2, <2>1 DEF BuildCall, TypeOK, TxType, Positions
  <2>3. \A u \in Txs : tx'[u].pc \in {"digest", "built"} => tx'[u] = tx[u]
    BY <1>0, <1>2 DEF BuildCall, TypeOK
  <2>4. \A u \in Txs : Built(u) => Built(u)'
    BY <1>0, <1>2 DEF BuildCall, TypeOK, Built
  <2>5. QED
    BY <1>0, <1>2, <2>2, <2>3, <2>4 DEF BuildCall, TypeInv, TypeOK
<1>3. ASSUME NEW b \in Builders, NEW t \in Txs, BuildCallThrows(b, t)
      PROVE  TypeInv'
  <2>1. b \in Arrays
    BY DEF Arrays
  <2>2. tx' \in [Txs -> TxType] /\ sequence' \in Nat
    <3>1. [NoTx(b) EXCEPT !.pc = "failed"] \in TxType
      <4>1. [NoTx(b) EXCEPT !.pc = "failed"]
              = [pc |-> "failed", array |-> b, fee |-> 0, seq |-> 0, hash |-> None]
        BY DEF NoTx
      <4>2. QED
        BY <2>1, <4>1 DEF TxType, Positions
    <3>2. QED
      BY <1>0, <1>3, <3>1 DEF BuildCallThrows, TypeOK
  <2>3. \A u \in Txs : tx'[u].pc \in {"digest", "built"} => tx'[u] = tx[u]
    BY <1>0, <1>3 DEF BuildCallThrows, TypeOK, NoTx
  <2>4. \A u \in Txs : Built(u) => Built(u)'
    BY <1>0, <1>3 DEF BuildCallThrows, TypeOK, Built
  <2>5. QED
    BY <1>0, <1>3, <2>2, <2>3, <2>4 DEF BuildCallThrows, TypeInv, TypeOK
<1>4. ASSUME NEW t \in Txs, BuildEncode(t)
      PROVE  TypeInv'
  <2>1. tx[t] \in TxType /\ Body(t) \in Digests
    BY <1>0, TxTypeOf
  <2>2. tx'[t] \in TxType /\ tx'[t].pc # "built"
        /\ (tx'[t].pc = "digest" => tx'[t].hash \in Digests)
    BY <1>0, <1>4, <2>1 DEF BuildEncode, TypeOK, TxType, Positions
  <2>3. \A u \in Txs : u # t => tx'[u] = tx[u]
    BY <1>0, <1>4 DEF BuildEncode, TypeOK
  <2>4. tx' \in [Txs -> TxType]
    BY <1>0, <1>4, <2>2, <2>3 DEF BuildEncode, TypeOK
  <2>5. \A u \in Txs : Built(u) => Built(u)'
    BY <1>0, <1>4, <2>3 DEF BuildEncode, Built
  <2>6. QED
    BY <1>0, <1>4, <2>2, <2>3, <2>4, <2>5 DEF BuildEncode, TypeInv, TypeOK
<1>5. ASSUME NEW t \in Txs, BuildReturns(t)
      PROVE  TypeInv'
  <2>1. tx'[t] \in TxType /\ tx'[t].hash = tx[t].hash
    BY <1>0, <1>5, TxTypeOf DEF BuildReturns, TypeOK, TxType, Positions
  <2>2. \A u \in Txs : u # t => tx'[u] = tx[u]
    BY <1>0, <1>5 DEF BuildReturns, TypeOK
  <2>3. tx' \in [Txs -> TxType]
    BY <1>0, <1>5, <2>1, <2>2 DEF BuildReturns, TypeOK
  <2>4. \A u \in Txs : Built(u) => Built(u)'
    BY <1>0, <1>5, <2>2 DEF BuildReturns, Built
  <2>5. QED
    BY <1>0, <1>5, <2>1, <2>2, <2>3, <2>4 DEF BuildReturns, TypeInv, TypeOK
<1>6. ASSUME NEW t \in Txs, NEW ks \in KeyLists, SignCall(t, ks)
      PROVE  TypeInv'
  <2>1. tx[t].hash \in Digests /\ Built(t) /\ ks \in Seq(Keys)
    BY <1>6 DEF SignCall, MayGrow, Built, TypeInv
  <2>2. QED
    BY <1>0, <1>6, <2>1 DEF SignCall, TypeInv, TypeOK, Built
<1>7. ASSUME NEW c \in signing, SignResolves(c)
      PROVE  TypeInv'
  <2>1. c.tx \in Txs /\ c.keys \in Seq(Keys) /\ c.over \in Digests
    BY <1>0 DEF TypeOK
  <2>2. [i \in DOMAIN c.keys |-> [key |-> c.keys[i], over |-> c.over]] \in Seq(Signature)
    <3>1. DOMAIN c.keys = 1..Len(c.keys) /\ Len(c.keys) \in Nat
      BY <2>1
    <3>2. \A i \in 1..Len(c.keys) : [key |-> c.keys[i], over |-> c.over] \in Signature
      BY <2>1 DEF Signature
    <3>3. QED
      BY <3>1, <3>2
  <2>3. sigs' \in [Txs -> Seq(Signature)]
    BY <1>0, <1>7, <2>1, <2>2 DEF SignResolves, TypeOK
  <2>4. QED
    BY <1>0, <1>7, <2>3 DEF SignResolves, TypeInv, TypeOK, Built
<1>8. ASSUME NEW c \in signing, SignRejects(c)
      PROVE  TypeInv'
  BY <1>0, <1>8 DEF SignRejects, TypeInv, TypeOK, Built
<1>9. ASSUME NEW t \in Txs, NEW k \in Keys, AddSignature(t, k)
      PROVE  TypeInv'
  <2>1. [key |-> k, over |-> tx[t].hash] \in Signature
    BY <1>9 DEF AddSignature, MayGrow, Built, TypeInv, Signature
  <2>2. sigs' \in [Txs -> Seq(Signature)]
    BY <1>0, <1>9, <2>1 DEF AddSignature, TypeOK
  <2>3. QED
    BY <1>0, <1>9, <2>2 DEF AddSignature, TypeInv, TypeOK, Built
<1>10. ASSUME NEW t \in Txs, NEW u \in Txs, FromXdr(t, u)
       PROVE  TypeInv'
  <2>1. /\ tx[t] \in TxType /\ Body(t) \in Digests /\ u \in Arrays
        /\ ops[tx[t].array] \in Seq(Ops) /\ sigs[t] \in Seq(Signature)
    BY <1>0, TxTypeOf DEF Arrays
  <2>2. ops' \in [Arrays -> Seq(Ops)] /\ sigs' \in [Txs -> Seq(Signature)]
    BY <1>0, <1>10, <2>1 DEF FromXdr, TypeOK
  <2>3. tx'[u] \in TxType /\ tx'[u].hash \in Digests /\ tx'[u].pc = "built"
    BY <1>0, <1>10, <2>1 DEF FromXdr, TypeOK, TxType, Positions, Built
  <2>4. \A v \in Txs : v # u => tx'[v] = tx[v]
    BY <1>0, <1>10 DEF FromXdr, TypeOK
  <2>5. tx' \in [Txs -> TxType]
    BY <1>0, <1>10, <2>3, <2>4 DEF FromXdr, TypeOK
  <2>6. \A v \in Txs : Built(v) => Built(v)'
    BY <2>3, <2>4 DEF Built
  <2>7. QED
    BY <1>0, <1>10, <2>2, <2>3, <2>4, <2>5, <2>6 DEF FromXdr, TypeInv, TypeOK
<1>11. ASSUME NEW t \in Txs, WrapCall(t)
       PROVE  TypeInv'
  BY <1>0, <1>11 DEF WrapCall, NoBump, TypeInv, TypeOK, Built, Positions
<1>12. CASE WrapEncode
  BY <1>0, <1>12 DEF WrapEncode, TypeInv, TypeOK, Built, Positions
<1>13. CASE WrapReturns
  BY <1>0, <1>13 DEF WrapReturns, TypeInv, TypeOK, Built, Positions
<1>14. ASSUME NEW k \in Keys, SignBump(k)
       PROVE  TypeInv'
  BY <1>0, <1>14 DEF SignBump, TypeInv, TypeOK, Built, Positions
<1>15. CASE BumpFromXdr
  BY <1>0, <1>15 DEF BumpFromXdr, TypeInv, TypeOK, Built
<1>16. CASE UNCHANGED vars
  BY <1>0, <1>16 DEF vars, TypeInv, TypeOK, Built
<1>17. QED
  BY <1>1, <1>2, <1>3, <1>4, <1>5, <1>6, <1>7, <1>8, <1>9, <1>10, <1>11,
     <1>12, <1>13, <1>14, <1>15, <1>16 DEF Next

(* Every variable of the builders keeps to its type, however the calls     *)
(* overlap.                                                                *)
THEOREM TypeCorrect == Spec => []TypeOK
<1>1. TypeInv => TypeOK
  BY DEF TypeInv
<1>2. QED
  BY TypeInvInit, TypeInvStep, <1>1, PTL DEF Spec

(***************************************************************************)
(* Sequence numbers.  The account's counter bounds every number handed     *)
(* out, so the next one is new.                                            *)
(***************************************************************************)
SeqInv ==
  /\ TypeOK
  /\ sequence >= FirstSeq
  /\ SequenceNumbersDistinct

(* The transactions made by builders, and their numbers, are what they     *)
(* were.                                                                   *)
LEMMA SameNumbers ==
  ASSUME SeqInv, TypeOK', sequence' = sequence,
         \A t \in Txs : t \in FromBuilders' =>
           /\ t \in FromBuilders
           /\ tx'[t].seq = tx[t].seq
           /\ tx'[t].pc # "failed" => tx[t].pc # "failed"
  PROVE  SeqInv'
BY DEF SeqInv, SequenceNumbersDistinct, FromBuilders

LEMMA SeqInvStep == SeqInv /\ TypeInv /\ [Next]_vars => SeqInv'
<1> SUFFICES ASSUME SeqInv, TypeInv, [Next]_vars PROVE SeqInv'
  OBVIOUS
<1> USE TxAssumption
<1>0. TypeOK /\ TypeOK'
  BY TypeInvStep DEF TypeInv
<1>1. ASSUME NEW b \in Builders, NEW t \in Txs, BuildCall(b, t)
      PROVE  SeqInv'
  <2>1. /\ sequence' = sequence + 1 /\ sequence \in Nat
        /\ tx'[t].seq = sequence + 1 /\ tx[t].pc = "none"
        /\ \A u \in Txs : u # t => tx'[u] = tx[u]
    BY <1>0, <1>1 DEF BuildCall, TypeOK
  <2>2. \A u \in Txs : tx[u].seq \in Nat
    BY <1>0, TxTypeOf
  <2>3. \A u \in Txs : u # t /\ u \in FromBuilders' => u \in FromBuilders
    BY <2>1 DEF FromBuilders
  <2>4. ASSUME NEW u \in FromBuilders', u # t, tx'[u].pc # "failed"
        PROVE  tx'[u].seq = tx[u].seq /\ tx[u].seq \in (FirstSeq + 1)..sequence
    BY <2>1, <2>3, <2>4 DEF SeqInv, SequenceNumbersDistinct, FromBuilders
  <2>5. SequenceNumbersDistinct'
    <3>1. ASSUME NEW u \in FromBuilders', tx'[u].pc # "failed"
          PROVE  tx'[u].seq \in (FirstSeq + 1)..sequence'
      BY <2>1, <2>4, <3>1 DEF SeqInv
    <3>2. ASSUME NEW u \in FromBuilders', tx'[u].pc # "failed",
                 NEW v \in FromBuilders' \ {u}, tx'[v].pc # "failed"
          PROVE  tx'[v].seq # tx'[u].seq
      <4>1. CASE u = t \/ v = t
        BY <2>1, <2>4, <3>2, <4>1
      <4>2. CASE u # t /\ v # t
        BY <2>1, <2>3, <3>2, <4>2 DEF SeqInv, SequenceNumbersDistinct, FromBuilders
      <4>3. QED
        BY <4>1, <4>2
    <3>3. QED
      BY <3>1, <3>2 DEF SequenceNumbersDistinct
  <2>6. QED
    BY <1>0, <2>1, <2>5 DEF SeqInv, SequenceNumbersDistinct
<1>2. ASSUME NEW b \in Builders, NEW t \in Txs, BuildCallThrows(b, t)
      PROVE  SeqInv'
  <2>1. /\ sequence' = sequence + 1 /\ sequence \in Nat
        /\ tx'[t].pc = "failed"
        /\ \A u \in Txs : u # t => tx'[u] = tx[u]
    BY <1>0, <1>2 DEF BuildCallThrows, TypeOK, NoTx
  <2>2. \A u \in Txs : tx[u].seq \in Nat
    BY <1>0, TxTypeOf
  <2>3. ASSUME NEW u \in FromBuilders', tx'[u].pc # "failed"
        PROVE  /\ u \in FromBuilders /\ tx'[u] = tx[u]
               /\ tx[u].seq \in (FirstSeq + 1)..sequence
    BY <2>1, <2>3 DEF SeqInv, SequenceNumbersDistinct, FromBuilders
  <2>4. SequenceNumbersDistinct'
    BY <2>1, <2>3 DEF SeqInv, SequenceNumbersDistinct
  <2>5. QED
    BY <1>0, <2>1, <2>4 DEF SeqInv, SequenceNumbersDistinct
<1>3. ASSUME NEW t \in Txs, NEW u \in Txs, FromXdr(t, u)
      PROVE  SeqInv'
  <2>1. tx'[u].array = u /\ \A v \in Txs : v # u => tx'[v] = tx[v]
    BY <1>0, <1>3 DEF FromXdr, TypeOK
  <2>2. u \notin FromBuilders'
    BY <2>1 DEF FromBuilders
  <2>3. QED
    BY <1>0, <1>3, <2>1, <2>2, SameNumbers DEF FromXdr, FromBuilders
<1>4. ASSUME NEW t \in Txs, BuildEncode(t) \/ BuildReturns(t)
      PROVE  SeqInv'
  <2>1. /\ tx[t].pc \in {"networkId", "digest"}
        /\ tx'[t].array = tx[t].array /\ tx'[t].seq = tx[t].seq
        /\ \A u \in Txs : u # t => tx'[u] = tx[u]
        /\ sequence' = sequence
    <3>1. tx[t] \in TxType
      BY <1>0, TxTypeOf
    <3>2. CASE BuildEncode(t)
      BY <1>0, <3>1, <3>2 DEF BuildEncode, TypeOK, TxType
    <3>3. CASE BuildReturns(t)
      BY <1>0, <3>1, <3>3 DEF BuildReturns, TypeOK, TxType
    <3>4. QED
      BY <1>4, <3>2, <3>3
  <2>2. QED
    BY <1>0, <2>1, SameNumbers DEF FromBuilders
<1>5. CASE UNCHANGED <<tx, sequence>>
  BY <1>0, <1>5, SameNumbers DEF FromBuilders
<1>6. QED
  <2>1. CASE UNCHANGED vars
    BY <1>5, <2>1 DEF vars
  <2>2. CASE Next
    BY <2>2, <1>1, <1>2, <1>3, <1>4, <1>5
    DEF Next, AddOperation, SignCall, SignResolves, SignRejects, AddSignature,
        WrapCall, WrapEncode, WrapReturns, SignBump, BumpFromXdr
  <2>3. QED
    BY <2>1, <2>2

LEMMA SeqInvInit == Init => SeqInv
<1> SUFFICES ASSUME Init PROVE SeqInv
  OBVIOUS
<1>1. FromBuilders = {}
  BY DEF Init, NoTx, FromBuilders
<1>2. TypeOK /\ sequence >= FirstSeq
  BY TypeInvInit, TxAssumption DEF TypeInv, Init
<1>3. QED
  BY <1>1, <1>2 DEF SeqInv, SequenceNumbersDistinct

(* No two transactions built from an account share a sequence number, for  *)
(* any number of builders and any overlap of their build() calls.          *)
THEOREM DistinctSequenceNumbers == Spec => []SequenceNumbersDistinct
<1>1. SeqInv => SequenceNumbersDistinct
  BY DEF SeqInv
<1>2. QED
  BY TypeInvInit, TypeInvStep, SeqInvInit, SeqInvStep, <1>1, PTL DEF Spec

(***************************************************************************)
(* Signatures.  As long as the caller leaves a builder alone once it has   *)
(* built from it, the operations array of a transaction no longer grows,   *)
(* so what was hashed stays what is sent.  A transaction read from XDR has *)
(* an array of its own.                                                    *)
(***************************************************************************)
CoverInv ==
  /\ TypeInv
  /\ \A t \in Txs : tx[t].pc # "none" => tx[t].array \in Builders \cup {t}
  /\ \A t \in Txs : tx[t].pc \in {"digest", "built"} => tx[t].hash = Body(t)
  /\ \A t \in Txs : tx[t].pc # "built" => sigs[t] = <<>>
  /\ \A t \in Txs : \A i \in DOMAIN sigs[t] : sigs[t][i].over = tx[t].hash
  /\ \A c \in signing : c.over = tx[c.tx].hash

LEMMA CoverInvInit == Init => CoverInv
<1> SUFFICES ASSUME Init PROVE CoverInv
  OBVIOUS
<1>1. \A t \in Txs : tx[t].pc = "none" /\ sigs[t] = <<>>
  BY DEF Init, NoTx
<1>2. signing = {} /\ TypeInv
  BY TypeInvInit DEF Init
<1>3. QED
  BY <1>1, <1>2 DEF CoverInv

(* Steps of one transaction, before it is built. *)
LEMMA CoverOneTx ==
  ASSUME CoverInv, TypeInv', NEW t \in Txs,
         UNCHANGED <<ops, sigs, signing>>,
         \A u \in Txs : u # t => tx'[u] = tx[u],
         tx[t].pc # "built",
         tx'[t].pc # "none" => tx'[t].array \in Builders \cup {t},
         tx'[t].pc \in {"digest", "built"} => tx'[t].hash = Body(t)'
  PROVE  CoverInv'
<1>1. \A u \in Txs : u # t => Body(u)' = Body(u)
  BY DEF Body
<1>2. sigs[t] = <<>>
  BY DEF CoverInv
<1>3. \A c \in signing : c.tx \in Txs /\ c.tx # t
  BY DEF CoverInv, TypeInv, TypeOK, Built
<1>4. QED
  BY <1>1, <1>2, <1>3 DEF CoverInv

LEMMA CoverInvStep ==
  ASSUME ReuseBuilders = FALSE, CoverInv, [Next]_vars
  PROVE  CoverInv'
<1> USE TxAssumption
<1>0. TypeInv /\ TypeOK /\ TypeInv' /\ TypeOK'
  BY TypeInvStep DEF CoverInv, TypeInv
<1>1. ASSUME NEW b \in Builders, NEW o \in Ops, AddOperation(b, o)
      PROVE  CoverInv'
  <2>1. /\ \A a \in Arrays : a # b => ops'[a] = ops[a]
        /\ UNCHANGED <<tx, sigs, signing>>
    BY <1>0, <1>1 DEF AddOperation, TypeOK
  <2>2. \A t \in Txs : tx[t].pc # "none" => tx[t].array # b
    BY <1>1 DEF AddOperation, Used
  <2>3. \A t \in Txs : tx[t].pc # "none" => Body(t)' = Body(t)
    BY <1>0, <2>1, <2>2, TxTypeOf DEF Body
  <2>4. QED
    BY <1>0, <2>1, <2>3 DEF CoverInv
<1>2. ASSUME NEW b \in Builders, NEW t \in Txs, BuildCall(b, t) \/ BuildCallThrows(b, t)
      PROVE  CoverInv'
  <2>1. /\ tx[t].pc = "none" /\ UNCHANGED <<ops, sigs, signing>>
        /\ tx'[t].array = b /\ tx'[t].pc \in {"networkId", "failed"}
        /\ \A u \in Txs : u # t => tx'[u] = tx[u]
    BY <1>0, <1>2 DEF BuildCall, BuildCallThrows, TypeOK, NoTx
  <2>2. QED
    BY <1>0, <2>1, CoverOneTx
<1>3. ASSUME NEW t \in Txs, BuildEncode(t)
      PROVE  CoverInv'
  <2>1. tx[t] \in TxType
    BY <1>0, TxTypeOf
  <2>2. /\ tx[t].pc = "networkId" /\ UNCHANGED <<ops, sigs, signing>>
        /\ \A u \in Txs : u # t => tx'[u] = tx[u]
        /\ tx'[t].array = tx[t].array /\ tx'[t].fee = tx[t].fee
        /\ tx'[t].seq = tx[t].seq
        /\ tx'[t].pc # "failed" => tx'[t].hash = Body(t)
        /\ tx'[t].pc \in {"digest", "failed"}
    BY <1>0, <1>3, <2>1 DEF BuildEncode, TypeOK, TxType
  <2>3. Body(t)' = Body(t)
    BY <2>2 DEF Body
  <2>4. tx[t].array \in Builders \cup {t}
    BY <2>2 DEF CoverInv
  <2>5. QED
    BY <1>0, <2>2, <2>3, <2>4, CoverOneTx
<1>4. ASSUME NEW t \in Txs, BuildReturns(t)
      PROVE  CoverInv'
  <2>1. tx[t] \in TxType
    BY <1>0, TxTypeOf
  <2>2. /\ tx[t].pc = "digest" /\ UNCHANGED <<ops, sigs, signing>>
        /\ \A u \in Txs : u # t => tx'[u] = tx[u]
        /\ tx'[t].array = tx[t].array /\ tx'[t].fee = tx[t].fee
        /\ tx'[t].seq = tx[t].seq /\ tx'[t].hash = tx[t].hash
    BY <1>0, <1>4, <2>1 DEF BuildReturns, TypeOK, TxType
  <2>3. Body(t)' = Body(t)
    BY <2>2 DEF Body
  <2>4. tx[t].array \in Builders \cup {t} /\ tx[t].hash = Body(t)
    BY <2>2 DEF CoverInv
  <2>5. QED
    BY <1>0, <2>2, <2>3, <2>4, CoverOneTx
<1>5. ASSUME NEW t \in Txs, NEW ks \in KeyLists, SignCall(t, ks)
      PROVE  CoverInv'
  <2>1. UNCHANGED <<ops, tx, sigs>> /\ \A u \in Txs : Body(u)' = Body(u)
    BY <1>5 DEF SignCall, Body
  <2>2. \A c \in signing' : c.over = tx[c.tx].hash
    BY <1>5 DEF SignCall, CoverInv
  <2>3. QED
    BY <1>0, <2>1, <2>2 DEF CoverInv
<1>6. ASSUME NEW c \in signing, SignResolves(c)
      PROVE  CoverInv'
  <2>1. /\ UNCHANGED <<ops, tx>> /\ signing' \subseteq signing
        /\ \A u \in Txs : Body(u)' = Body(u)
        /\ c.tx \in Txs /\ Built(c.tx) /\ c.over = tx[c.tx].hash
        /\ c.keys \in Seq(Keys)
        /\ sigs \in [Txs -> Seq(Signature)]
    BY <1>0, <1>6 DEF SignResolves, Body, CoverInv, TypeInv, TypeOK
  <2> DEFINE new == [i \in DOMAIN c.keys |-> [key |-> c.keys[i], over |-> c.over]]
  <2>2. /\ sigs'[c.tx] = sigs[c.tx] \o new
        /\ \A u \in Txs : u # c.tx => sigs'[u] = sigs[u]
    BY <1>6, <2>1 DEF SignResolves
  <2>3. ASSUME NEW i \in DOMAIN sigs'[c.tx]
        PROVE  sigs'[c.tx][i].over = tx[c.tx].hash
    <3>1. /\ new \in Seq(Signature \cup {[key |-> k, over |-> c.over] : k \in Keys})
          /\ sigs[c.tx] \in Seq(Signature)
          /\ DOMAIN new = 1..Len(new) /\ Len(new) \in Nat
          /\ \A j \in DOMAIN new : new[j].over = c.over
      <4>1. DOMAIN c.keys = 1..Len(c.keys) /\ Len(c.keys) \in Nat
        BY <2>1
      <4>2. \A j \in 1..Len(c.keys) : c.keys[j] \in Keys
        BY <2>1
      <4>3. QED
        BY <2>1, <4>1, <4>2
    <3> HIDE DEF new
    <3>2. i \in 1..(Len(sigs[c.tx]) + Len(new))
      BY <2>2, <3>1
    <3>3. CASE i <= Len(sigs[c.tx])
      BY <2>1, <2>2, <3>1, <3>2, <3>3 DEF CoverInv
    <3>4. CASE i > Len(sigs[c.tx])
      <4>1. sigs'[c.tx][i] = new[i - Len(sigs[c.tx])]
            /\ i - Len(sigs[c.tx]) \in DOMAIN new
        BY <2>2, <3>1, <3>2, <3>4
      <4>2. QED
        BY <2>1, <3>1, <4>1
    <3>5. QED
      BY <3>1, <3>2, <3>3, <3>4
  <2> HIDE DEF new
  <2>4. \A t \in Txs : \A i \in DOMAIN sigs'[t] : sigs'[t][i].over = tx[t].hash
    BY <2>2, <2>3 DEF CoverInv
  <2>5. \A t \in Txs : tx[t].pc # "built" => sigs'[t] = <<>>
    BY <2>1, <2>2 DEF CoverInv, Built
  <2>6. /\ \A t \in Txs : tx[t].pc # "none" => tx[t].array \in Builders \cup {t}
        /\ \A t \in Txs : tx[t].pc \in {"digest", "built"} => tx[t].hash = Body(t)'
        /\ \A d \in signing' : d.over = tx[d.tx].hash
    BY <2>1 DEF CoverInv
  <2>7. QED
    BY <1>0, <2>1, <2>4, <2>5, <2>6 DEF CoverInv
<1>7. ASSUME NEW t \in Txs, NEW k \in Keys, AddSignature(t, k)
      PROVE  CoverInv'
  <2>1. /\ UNCHANGED <<ops, tx, signing>> /\ Built(t)
        /\ \A u \in Txs : Body(u)' = Body(u)
        /\ sigs[t] \in Seq(Signature)
        /\ sigs'[t] = Append(sigs[t], [key |-> k, over |-> tx[t].hash])
        /\ \A u \in Txs : u # t => sigs'[u] = sigs[u]
    BY <1>0, <1>7 DEF AddSignature, MayGrow, Body, TypeOK
  <2>2. [key |-> k, over |-> tx[t].hash] \in Signature
    BY <1>0, <2>1 DEF TypeInv, Built, Signature
  <2>3. \A i \in DOMAIN sigs'[t] : sigs'[t][i].over = tx[t].hash
    <3>1. \A i \in DOMAIN sigs[t] : sigs[t][i].over = tx[t].hash
      BY DEF CoverInv
    <3>2. QED
      BY <2>1, <2>2, <3>1
  <2>4. \A u \in Txs : \A i \in DOMAIN sigs'[u] : sigs'[u][i].over = tx[u].hash
    BY <2>1, <2>3 DEF CoverInv
  <2>5. \A u \in Txs : tx[u].pc # "built" => sigs'[u] = <<>>
    BY <2>1 DEF CoverInv, Built
  <2>6. /\ \A u \in Txs : tx[u].pc # "none" => tx[u].array \in Builders \cup {u}
        /\ \A u \in Txs : tx[u].pc \in {"digest", "built"} => tx[u].hash = Body(u)'
        /\ \A c \in signing' : c.over = tx[c.tx].hash
    BY <2>1 DEF CoverInv
  <2>7. QED
    BY <1>0, <2>1, <2>4, <2>5, <2>6 DEF CoverInv
<1>8. ASSUME NEW t \in Txs, NEW u \in Txs, FromXdr(t, u)
      PROVE  CoverInv'
  <2>1. /\ Built(t) /\ tx[u].pc = "none" /\ t # u /\ u \in Arrays
        /\ \A v \in Txs : v # u => tx'[v] = tx[v] /\ sigs'[v] = sigs[v]
        /\ \A a \in Arrays : a # u => ops'[a] = ops[a]
        /\ ops'[u] = ops[tx[t].array] /\ sigs'[u] = sigs[t]
        /\ signing' = signing
    BY <1>0, <1>8 DEF FromXdr, TypeOK, Built, Arrays
  <2>2. tx[t] \in TxType
    BY <1>0, TxTypeOf
  <2>3. /\ tx'[u].array = u /\ tx'[u].fee = tx[t].fee /\ tx'[u].seq = tx[t].seq
        /\ tx'[u].hash = Body(t) /\ tx'[u].pc = "built"
    BY <1>0, <1>8, <2>1, <2>2 DEF FromXdr, TypeOK, TxType, Built
  <2>4. Body(u)' = Body(t) /\ tx[t].hash = Body(t)
    BY <2>1, <2>3 DEF Body, CoverInv, Built
  <2>5. \A v \in Txs : v # u /\ tx[v].pc # "none" => Body(v)' = Body(v)
    <3>1. \A v \in Txs : v # u /\ tx[v].pc # "none" => tx[v].array # u
      BY DEF CoverInv
    <3>2. QED
      BY <1>0, <2>1, <3>1, TxTypeOf DEF Body
  <2>6. \A c \in signing : c.tx \in Txs /\ c.tx # u
    BY <1>0, <2>1 DEF TypeInv, TypeOK, Built
  <2>7. QED
    BY <1>0, <2>1, <2>3, <2>4, <2>5, <2>6 DEF CoverInv
<1>9. CASE UNCHANGED <<ops, tx, sigs>> /\ signing' \subseteq signing
  BY <1>0, <1>9 DEF CoverInv, Body
<1>10. QED
  <2>1. CASE UNCHANGED vars
    BY <1>9, <2>1 DEF vars
  <2>2. CASE Next
    BY <2>2, <1>1, <1>2, <1>3, <1>4, <1>5, <1>6, <1>7, <1>8, <1>9
    DEF Next, SignRejects, WrapCall, WrapEncode, WrapReturns, SignBump, BumpFromXdr
  <2>3. QED
    BY <2>1, <2>2

(* A caller who does not add operations to a builder it has built from     *)
(* always sends what it signed: build() and sign() may overlap in any way. *)
THEOREM SignaturesStayValid ==
  ASSUME ReuseBuilders = FALSE
  PROVE  Spec => []SignaturesCoverWhatIsSent
<1>1. CoverInv => SignaturesCoverWhatIsSent
  BY DEF CoverInv, SignaturesCoverWhatIsSent, Built
<1>2. CoverInv /\ [Next]_vars => CoverInv'
  BY CoverInvStep
<1>3. QED
  BY CoverInvInit, <1>1, <1>2, PTL DEF Spec

(***************************************************************************)
(* Fees.  The fee is fixed when build() is called, while the operations    *)
(* stay shared; what a transaction read from XDR copies is consistent.     *)
(***************************************************************************)
Pays(t) == tx[t].fee = BaseFee * Len(ops[tx[t].array])
Live(t) == tx[t].pc \in {"networkId", "digest", "built"}
FeeInv == CoverInv /\ \A t \in Txs : Live(t) => Pays(t)

LEMMA FeeInvStep ==
  ASSUME ReuseBuilders = FALSE, FeeInv, [Next]_vars
  PROVE  FeeInv'
<1>0. CoverInv /\ CoverInv' /\ TypeInv /\ TypeOK
  BY CoverInvStep DEF FeeInv, CoverInv, TypeInv
<1>1. ASSUME NEW b \in Builders, NEW o \in Ops, AddOperation(b, o)
      PROVE  FeeInv'
  <2>1. /\ \A a \in Arrays : a # b => ops'[a] = ops[a]
        /\ tx' = tx
    BY <1>0, <1>1 DEF AddOperation, TypeOK
  <2>2. \A t \in Txs : Live(t) => tx[t].array # b
    BY <1>1 DEF AddOperation, Used, Live
  <2>3. QED
    BY <1>0, <2>1, <2>2, TxTypeOf DEF FeeInv, Live, Pays
<1>2. ASSUME NEW b \in Builders, NEW t \in Txs, BuildCall(b, t) \/ BuildCallThrows(b, t)
      PROVE  FeeInv'
  <2>1. /\ ops' = ops
        /\ Live(t)' => Pays(t)'
        /\ \A u \in Txs : u # t => tx'[u] = tx[u]
    BY <1>0, <1>2 DEF BuildCall, BuildCallThrows, TypeOK, NoTx, Live, Pays
  <2>2. QED
    BY <1>0, <2>1 DEF FeeInv, Live, Pays
<1>3. ASSUME NEW t \in Txs, BuildEncode(t) \/ BuildReturns(t)
      PROVE  FeeInv'
  <2>1. tx[t] \in TxType
    BY <1>0, TxTypeOf
  <2>2. /\ Live(t) /\ ops' = ops
        /\ tx'[t].array = tx[t].array /\ tx'[t].fee = tx[t].fee
        /\ \A u \in Txs : u # t => tx'[u] = tx[u]
    <3>1. CASE BuildEncode(t)
      BY <1>0, <2>1, <3>1 DEF BuildEncode, TypeOK, TxType, Live
    <3>2. CASE BuildReturns(t)
      BY <1>0, <2>1, <3>2 DEF BuildReturns, TypeOK, TxType, Live
    <3>3. QED
      BY <1>3, <3>1, <3>2
  <2>3. QED
    BY <1>0, <2>2 DEF FeeInv, Live, Pays
<1>4. ASSUME NEW t \in Txs, NEW u \in Txs, FromXdr(t, u)
      PROVE  FeeInv'
  <2>1. /\ Live(t) /\ tx[u].pc = "none" /\ u \in Arrays /\ t # u
        /\ \A v \in Txs : v # u => tx'[v] = tx[v]
        /\ \A a \in Arrays : a # u => ops'[a] = ops[a]
        /\ ops'[u] = ops[tx[t].array]
    BY <1>0, <1>4 DEF FromXdr, TypeOK, Built, Arrays, Live
  <2>2. tx[t] \in TxType
    BY <1>0, TxTypeOf
  <2>3. tx'[u].array = u /\ tx'[u].fee = tx[t].fee
    BY <1>0, <1>4, <2>2 DEF FromXdr, TypeOK, TxType
  <2>4. Pays(u)'
    BY <2>1, <2>3 DEF FeeInv, Pays
  <2>5. \A v \in Txs : v # u /\ Live(v) => tx[v].array # u
    BY <1>0, <2>1, TxAssumption DEF CoverInv, Live
  <2>6. QED
    BY <1>0, <2>1, <2>4, <2>5, TxTypeOf DEF FeeInv, Live, Pays
<1>5. CASE UNCHANGED <<ops, tx>>
  BY <1>0, <1>5 DEF FeeInv, Live, Pays
<1>6. QED
  <2>1. CASE UNCHANGED vars
    BY <1>5, <2>1 DEF vars
  <2>2. CASE Next
    BY <2>2, <1>1, <1>2, <1>3, <1>4, <1>5
    DEF Next, SignCall, SignResolves, SignRejects, AddSignature, WrapCall,
        WrapEncode, WrapReturns, SignBump, BumpFromXdr
  <2>3. QED
    BY <2>1, <2>2

(* A caller who leaves a builder alone once it has built from it pays for  *)
(* exactly the operations that are sent.                                   *)
THEOREM FeesCover ==
  ASSUME ReuseBuilders = FALSE
  PROVE  Spec => []FeeCoversOperations
<1>1. Init => FeeInv
  BY CoverInvInit DEF Init, NoTx, FeeInv, Live
<1>2. FeeInv => FeeCoversOperations
  BY DEF FeeInv, FeeCoversOperations, Live, Pays, Built
<1>3. FeeInv /\ [Next]_vars => FeeInv'
  BY FeeInvStep
<1>4. QED
  BY <1>1, <1>2, <1>3, PTL DEF Spec

(***************************************************************************)
(* Holes.  A failed build() stays failed and stays its builder's, so that  *)
(* a state without failures has none behind it.                            *)
(***************************************************************************)
AllNumbers == {tx[t].seq : t \in FromBuilders}
NoFailure == \A t \in FromBuilders : tx[t].pc # "failed"
HoleInv == SeqInv /\ TypeInv /\ NoHoleWithoutFailure

LEMMA SameHoles ==
  ASSUME HoleInv, UNCHANGED sequence, FromBuilders' = FromBuilders,
         \A t \in FromBuilders : /\ tx'[t].seq = tx[t].seq
                                 /\ tx[t].pc = "failed" => tx'[t].pc = "failed"
  PROVE  NoHoleWithoutFailure'
<1>1. AllNumbers' = AllNumbers
  BY DEF AllNumbers
<1>2. NoFailure' => NoFailure
  BY DEF NoFailure
<1>3. QED
  BY <1>1, <1>2 DEF HoleInv, NoHoleWithoutFailure, AllNumbers, NoFailure

LEMMA HoleInvStep == HoleInv /\ [Next]_vars => HoleInv'
<1> SUFFICES ASSUME HoleInv, [Next]_vars PROVE NoHoleWithoutFailure'
  BY SeqInvStep, TypeInvStep DEF HoleInv
<1> USE TxAssumption
<1>0. TypeOK /\ SeqInv /\ sequence \in Nat /\ FirstSeq \in Nat
      /\ sequence >= FirstSeq /\ Builders \cap Txs = {}
  BY DEF HoleInv, SeqInv, TypeOK
<1>1. ASSUME NEW b \in Builders, NEW t \in Txs, BuildCall(b, t)
      PROVE  NoHoleWithoutFailure'
  <2>1. /\ sequence' = sequence + 1 /\ t \notin FromBuilders
        /\ tx'[t].pc # "none" /\ tx'[t].array = b /\ tx'[t].seq = sequence + 1
        /\ \A u \in Txs : u # t => tx'[u] = tx[u]
    BY <1>0, <1>1 DEF BuildCall, TypeOK, FromBuilders
  <2>2. FromBuilders' = FromBuilders \cup {t}
    BY <2>1 DEF FromBuilders
  <2>3. AllNumbers' = AllNumbers \cup {sequence + 1}
    <3>1. \A u \in FromBuilders : tx'[u].seq = tx[u].seq
      BY <2>1 DEF FromBuilders
    <3>2. QED
      BY <2>1, <2>2, <3>1 DEF AllNumbers
  <2>4. NoFailure' => NoFailure
    BY <2>1, <2>2 DEF NoFailure, FromBuilders
  <2>5. (FirstSeq + 1)..(sequence + 1) = (FirstSeq + 1)..sequence \cup {sequence + 1}
    BY <1>0
  <2>6. QED
    BY <2>1, <2>3, <2>4, <2>5
    DEF HoleInv, NoHoleWithoutFailure, AllNumbers, NoFailure
<1>2. ASSUME NEW b \in Builders, NEW t \in Txs, BuildCallThrows(b, t)
      PROVE  NoHoleWithoutFailure'
  <2>1. tx'[t].pc = "failed" /\ tx'[t].array = b
    BY <1>0, <1>2 DEF BuildCallThrows, TypeOK, NoTx
  <2>2. QED
    BY <2>1 DEF NoHoleWithoutFailure, FromBuilders
<1>3. ASSUME NEW t \in Txs, BuildEncode(t) \/ BuildReturns(t)
      PROVE  NoHoleWithoutFailure'
  <2>1. tx[t] \in TxType
    BY <1>0, TxTypeOf
  <2>2. /\ tx[t].pc \in {"networkId", "digest"} /\ tx'[t].pc # "none"
        /\ tx'[t].array = tx[t].array /\ tx'[t].seq = tx[t].seq
        /\ \A u \in Txs : u # t => tx'[u] = tx[u]
        /\ sequence' = sequence
    <3>1. CASE BuildEncode(t)
      BY <1>0, <2>1, <3>1 DEF BuildEncode, TypeOK, TxType
    <3>2. CASE BuildReturns(t)
      BY <1>0, <2>1, <3>2 DEF BuildReturns, TypeOK, TxType
    <3>3. QED
      BY <1>3, <3>1, <3>2
  <2>3. QED
    BY <2>2, SameHoles DEF FromBuilders
<1>4. ASSUME NEW t \in Txs, NEW u \in Txs, FromXdr(t, u)
      PROVE  NoHoleWithoutFailure'
  <2>1. /\ tx'[u].array = u /\ tx[u].pc = "none" /\ sequence' = sequence
        /\ \A v \in Txs : v # u => tx'[v] = tx[v]
    BY <1>0, <1>4 DEF FromXdr, TypeOK
  <2>2. FromBuilders' = FromBuilders /\ u \notin FromBuilders
    BY <1>0, <2>1 DEF FromBuilders
  <2>3. QED
    BY <2>1, <2>2, SameHoles DEF FromBuilders
<1>5. CASE UNCHANGED <<tx, sequence>>
  BY <1>5, SameHoles DEF FromBuilders
<1>6. QED
  <2>1. CASE UNCHANGED vars
    BY <1>5, <2>1 DEF vars
  <2>2. CASE Next
    BY <2>2, <1>1, <1>2, <1>3, <1>4, <1>5
    DEF Next, AddOperation, SignCall, SignResolves, SignRejects, AddSignature,
        WrapCall, WrapEncode, WrapReturns, SignBump, BumpFromXdr
  <2>3. QED
    BY <2>1, <2>2

(* If every build() of an account succeeds, the numbers given out are      *)
(* those after its first one without a hole: none is left unused that a    *)
(* later transaction would wait for.                                       *)
THEOREM NoHoles == Spec => []NoHoleWithoutFailure
<1>1. Init => HoleInv
  <2> SUFFICES ASSUME Init PROVE HoleInv
    OBVIOUS
  <2>1. FromBuilders = {} /\ sequence = FirstSeq
    BY DEF Init, NoTx, FromBuilders
  <2>2. (FirstSeq + 1)..sequence = {}
    BY <2>1, TxAssumption
  <2>3. QED
    BY <2>1, <2>2, TypeInvInit, SeqInvInit DEF HoleInv, NoHoleWithoutFailure
<1>2. HoleInv => NoHoleWithoutFailure
  BY DEF HoleInv
<1>3. QED
  BY <1>1, <1>2, HoleInvStep, PTL DEF Spec

(***************************************************************************)
(* The fee bump.  Its digest covers the signatures of the transaction it   *)
(* wraps, whose array it shares: it stays valid if that array is at rest.  *)
(***************************************************************************)
WrappedBodies == [inner : Digests, innerSigs : Seq(Signature), fee : Nat]
BumpSignature == [key : Keys, over : WrappedBodies]
BumpType == [pc : Positions, inner : Txs \cup {None}, fee : Nat,
             hash : WrappedBodies \cup {None}, sigs : Seq(BumpSignature)]

BumpInv ==
  /\ CoverInv
  /\ bump \in BumpType
  /\ bump.pc # "none" => bump.inner \in Txs /\ Built(bump.inner)
  /\ bump.pc # "none" => \A c \in signing : c.tx # bump.inner
  /\ bump.pc \in {"digest", "built"} =>
       bump.hash = WrappedBody /\ bump.hash \in WrappedBodies
  /\ \A i \in DOMAIN bump.sigs : bump.sigs[i].over = bump.hash
  /\ bump.pc # "built" => bump.sigs = <<>> /\ parsed.pc # "built"
  /\ parsed.pc = "built" => parsed.hash = bump.hash

LEMMA BumpInvInit == Init => BumpInv
<1> SUFFICES ASSUME Init PROVE BumpInv
  OBVIOUS
<1>1. bump = NoBump /\ parsed = NoParsed
  BY DEF Init
<1>2. bump \in BumpType
  BY <1>1 DEF NoBump, BumpType, Positions
<1>3. QED
  BY <1>1, <1>2, CoverInvInit DEF BumpInv, NoBump, NoParsed

(* Steps that leave the fee bump and what it wraps alone. *)
LEMMA BumpUntouched ==
  ASSUME BumpInv, CoverInv', UNCHANGED <<bump, parsed>>,
         bump.pc # "none" =>
           /\ Built(bump.inner)' /\ sigs'[bump.inner] = sigs[bump.inner]
           /\ Body(bump.inner)' = Body(bump.inner)
           /\ \A c \in signing' : c.tx # bump.inner
  PROVE  BumpInv'
<1>1. bump.pc # "none" => WrappedBody' = WrappedBody
  BY DEF WrappedBody
<1>2. QED
  BY <1>1 DEF BumpInv

(* Steps of the transactions that the fee bump does not wrap. *)
LEMMA OtherTxs ==
  ASSUME BumpInv, CoverInv', NEW t \in Txs, ~Built(t),
         UNCHANGED <<bump, parsed, signing>>,
         \A u \in Txs : u # t => tx'[u] = tx[u] /\ sigs'[u] = sigs[u],
         \A a \in Arrays : a # t => ops'[a] = ops[a]
  PROVE  BumpInv'
<1>1. CASE bump.pc = "none"
  BY <1>1, BumpUntouched
<1>2. CASE bump.pc # "none"
  <2> DEFINE b == bump.inner
  <2>1. b \in Txs /\ Built(b) /\ b # t /\ TypeOK
    BY <1>2 DEF BumpInv, CoverInv, TypeInv
  <2>2. tx[b].array \in Arrays /\ tx[b].array # t
    BY <2>1, TxTypeOf, TxAssumption DEF BumpInv, CoverInv, Built
  <2>3. Built(b)' /\ Body(b)' = Body(b) /\ sigs'[b] = sigs[b]
    BY <2>1, <2>2 DEF Built, Body
  <2>4. \A c \in signing' : c.tx # b
    BY <1>2 DEF BumpInv
  <2>5. QED
    BY <2>3, <2>4, BumpUntouched
<1>3. QED
  BY <1>1, <1>2

(* Steps of the fee bump: what it wraps stays as it is. *)
LEMMA BumpSteps ==
  ASSUME BumpInv, CoverInv', UNCHANGED <<ops, tx, sigs, signing>>,
         \/ \E t \in Txs : WrapCall(t)
         \/ WrapEncode
         \/ WrapReturns
         \/ \E k \in Keys : SignBump(k)
         \/ BumpFromXdr,
         ResignInner = FALSE
  PROVE  BumpInv'
<1>0. /\ bump \in BumpType /\ TypeOK
      /\ \A t \in Txs : Built(t)' = Built(t) /\ Body(t)' = Body(t)
  BY DEF BumpInv, CoverInv, TypeInv, Built, Body
<1>1. ASSUME NEW t \in Txs, WrapCall(t)
      PROVE  BumpInv'
  <2>1. tx[t].fee \in Nat /\ 2 * tx[t].fee \in Nat
    BY <1>0, TxTypeOf
  <2>2. bump' = [pc |-> "networkId", inner |-> t, fee |-> 2 * tx[t].fee,
                 hash |-> None, sigs |-> <<>>]
    BY <1>1 DEF WrapCall, NoBump
  <2>3. bump' \in BumpType
    BY <2>1, <2>2 DEF BumpType, Positions
  <2>4. bump.pc = "none" /\ parsed' = parsed /\ Built(t) /\ \A c \in signing : c.tx # t
    BY <1>1 DEF WrapCall
  <2>5. QED
    BY <1>0, <2>2, <2>3, <2>4 DEF BumpInv
<1>2. CASE WrapEncode
  <2>1. bump.pc = "networkId" /\ parsed' = parsed /\ bump.inner \in Txs
    BY <1>2 DEF WrapEncode, BumpInv
  <2>2. WrappedBody \in WrappedBodies
    BY <1>0, <2>1, TxTypeOf DEF WrappedBody, WrappedBodies, BumpType
  <2>3. /\ bump' \in BumpType
        /\ bump'.inner = bump.inner /\ bump'.fee = bump.fee /\ bump'.sigs = bump.sigs
        /\ bump'.pc \in {"digest", "failed"}
        /\ bump'.pc = "digest" => bump'.hash = WrappedBody
    BY <1>0, <1>2, <2>2 DEF WrapEncode, BumpType, Positions
  <2>4. WrappedBody' = WrappedBody
    BY <1>0, <2>1, <2>3 DEF WrappedBody
  <2>5. bump.sigs = <<>>
    BY <2>1 DEF BumpInv
  <2>6. QED
    BY <1>0, <2>1, <2>2, <2>3, <2>4, <2>5 DEF BumpInv
<1>3. CASE WrapReturns
  <2>1. bump.pc = "digest" /\ parsed' = parsed /\ bump.inner \in Txs
    BY <1>3 DEF WrapReturns, BumpInv
  <2>2. /\ bump' \in BumpType /\ bump'.pc = "built"
        /\ bump'.inner = bump.inner /\ bump'.fee = bump.fee
        /\ bump'.sigs = bump.sigs /\ bump'.hash = bump.hash
    BY <1>0, <1>3 DEF WrapReturns, BumpType, Positions
  <2>3. WrappedBody' = WrappedBody
    BY <1>0, <2>1, <2>2 DEF WrappedBody
  <2>4. QED
    BY <1>0, <2>1, <2>2, <2>3 DEF BumpInv
<1>4. ASSUME NEW k \in Keys, SignBump(k)
      PROVE  BumpInv'
  <2> DEFINE new == [key |-> k, over |-> bump.hash]
  <2>1. /\ bump.pc = "built" /\ parsed' = parsed /\ bump.inner \in Txs
        /\ bump.hash \in WrappedBodies /\ bump.sigs \in Seq(BumpSignature)
    BY <1>0, <1>4 DEF SignBump, BumpInv, BumpType
  <2>2. new \in BumpSignature
    BY <2>1 DEF BumpSignature
  <2>3. /\ bump'.pc = bump.pc /\ bump'.inner = bump.inner /\ bump'.fee = bump.fee
        /\ bump'.hash = bump.hash /\ bump'.sigs = Append(bump.sigs, new)
        /\ bump' \in BumpType
    <3>1. Append(bump.sigs, new) \in Seq(BumpSignature)
      BY <2>1, <2>2
    <3>2. QED
      BY <1>0, <1>4, <3>1 DEF SignBump, BumpType
  <2>4. \A i \in DOMAIN bump'.sigs : bump'.sigs[i].over = bump'.hash
    <3>1. \A i \in DOMAIN bump.sigs : bump.sigs[i].over = bump.hash
      BY DEF BumpInv
    <3>2. QED
      BY <2>1, <2>2, <2>3, <3>1
  <2>5. WrappedBody' = WrappedBody
    BY <1>0, <2>1, <2>3 DEF WrappedBody
  <2>6. QED
    BY <1>0, <2>1, <2>3, <2>4, <2>5 DEF BumpInv
<1>5. CASE BumpFromXdr
  <2>1. /\ bump.pc = "built" /\ bump' = bump /\ parsed'.hash = WrappedBody
        /\ bump.inner \in Txs
    BY <1>5 DEF BumpFromXdr, BumpInv
  <2>2. WrappedBody' = WrappedBody /\ bump.hash = WrappedBody
    BY <1>0, <2>1 DEF WrappedBody, BumpInv
  <2>3. QED
    BY <1>0, <2>1, <2>2 DEF BumpInv
<1>6. QED
  BY <1>1, <1>2, <1>3, <1>4, <1>5

LEMMA BumpInvStep ==
  ASSUME ReuseBuilders = FALSE, ResignInner = FALSE, BumpInv, [Next]_vars
  PROVE  BumpInv'
<1>0. CoverInv /\ CoverInv' /\ TypeInv /\ TypeOK
  BY CoverInvStep DEF BumpInv, CoverInv, TypeInv
<1>1. ASSUME NEW b \in Builders, NEW o \in Ops, AddOperation(b, o)
      PROVE  BumpInv'
  <2>1. /\ \A a \in Arrays : a # b => ops'[a] = ops[a]
        /\ UNCHANGED <<tx, sigs, signing, bump, parsed>>
    BY <1>0, <1>1 DEF AddOperation, TypeOK
  <2>2. \A t \in Txs : Built(t) => tx[t].array # b /\ Body(t)' = Body(t) /\ Built(t)'
    BY <1>0, <1>1, <2>1, TxTypeOf DEF AddOperation, Used, Built, Body
  <2>3. QED
    BY <1>0, <2>1, <2>2, BumpUntouched DEF BumpInv
<1>2. ASSUME NEW b \in Builders, NEW t \in Txs, BuildCall(b, t) \/ BuildCallThrows(b, t)
      PROVE  BumpInv'
  <2>1. /\ ~Built(t) /\ UNCHANGED <<ops, sigs, signing, bump, parsed>>
        /\ \A u \in Txs : u # t => tx'[u] = tx[u]
    BY <1>0, <1>2 DEF BuildCall, BuildCallThrows, TypeOK, Built
  <2>2. QED
    BY <1>0, <2>1, OtherTxs
<1>3. ASSUME NEW t \in Txs, BuildEncode(t) \/ BuildReturns(t)
      PROVE  BumpInv'
  <2>1. /\ ~Built(t) /\ UNCHANGED <<ops, sigs, signing, bump, parsed>>
        /\ \A u \in Txs : u # t => tx'[u] = tx[u]
    BY <1>0, <1>3 DEF BuildEncode, BuildReturns, TypeOK, Built
  <2>2. QED
    BY <1>0, <2>1, OtherTxs
<1>4. ASSUME NEW t \in Txs, NEW u \in Txs, FromXdr(t, u)
      PROVE  BumpInv'
  <2>1. /\ ~Built(u) /\ UNCHANGED <<signing, bump, parsed>>
        /\ \A v \in Txs : v # u => tx'[v] = tx[v] /\ sigs'[v] = sigs[v]
        /\ \A a \in Arrays : a # u => ops'[a] = ops[a]
    BY <1>0, <1>4 DEF FromXdr, TypeOK, Built
  <2>2. QED
    BY <1>0, <2>1, OtherTxs
<1>5. ASSUME NEW t \in Txs, NEW ks \in KeyLists, SignCall(t, ks)
      PROVE  BumpInv'
  <2>1. /\ UNCHANGED <<ops, tx, sigs, bump, parsed>>
        /\ \A u \in Txs : Body(u)' = Body(u) /\ Built(u)' = Built(u)
    BY <1>5 DEF SignCall, Body, Built
  <2>2. bump.pc # "none" => bump.inner # t
    BY <1>5 DEF SignCall, MayGrow, Wrapped
  <2>3. bump.pc # "none" => \A c \in signing' : c.tx # bump.inner
    BY <1>5, <2>2 DEF SignCall, BumpInv
  <2>4. QED
    BY <1>0, <2>1, <2>3, BumpUntouched DEF BumpInv
<1>6. ASSUME NEW t \in Txs, sigs' = [sigs EXCEPT ![t] = sigs'[t]],
             signing' \subseteq signing, UNCHANGED <<ops, tx, bump, parsed>>,
             bump.pc # "none" => bump.inner # t
      PROVE  BumpInv'
  <2>1. \A u \in Txs : /\ Body(u)' = Body(u) /\ Built(u)' = Built(u)
                       /\ u # t => sigs'[u] = sigs[u]
    BY <1>0, <1>6 DEF Body, Built, TypeOK
  <2>2. QED
    BY <1>0, <1>6, <2>1, BumpUntouched DEF BumpInv
<1>7. ASSUME NEW c \in signing, SignResolves(c)
      PROVE  BumpInv'
  <2>1. /\ c.tx \in Txs /\ sigs' = [sigs EXCEPT ![c.tx] = sigs'[c.tx]]
        /\ signing' \subseteq signing /\ UNCHANGED <<ops, tx, bump, parsed>>
    BY <1>0, <1>7 DEF SignResolves, TypeOK
  <2>2. bump.pc # "none" => bump.inner # c.tx
    BY DEF BumpInv
  <2>3. QED
    BY <1>6, <2>1, <2>2
<1>8. ASSUME NEW t \in Txs, NEW k \in Keys, AddSignature(t, k)
      PROVE  BumpInv'
  <2>1. /\ sigs' = [sigs EXCEPT ![t] = sigs'[t]]
        /\ signing' \subseteq signing /\ UNCHANGED <<ops, tx, bump, parsed>>
    BY <1>0, <1>8 DEF AddSignature, TypeOK
  <2>2. bump.pc # "none" => bump.inner # t
    BY <1>8 DEF AddSignature, MayGrow, Wrapped
  <2>3. QED
    BY <1>6, <2>1, <2>2
<1>9. ASSUME NEW c \in signing, SignRejects(c)
      PROVE  BumpInv'
  <2>1. /\ UNCHANGED <<ops, tx, sigs, bump, parsed>> /\ signing' \subseteq signing
        /\ \A u \in Txs : Body(u)' = Body(u) /\ Built(u)' = Built(u)
    BY <1>9 DEF SignRejects, Body, Built
  <2>2. QED
    BY <1>0, <2>1, BumpUntouched DEF BumpInv
<1>10. ASSUME \/ \E t \in Txs : WrapCall(t)
              \/ WrapEncode
              \/ WrapReturns
              \/ \E k \in Keys : SignBump(k)
              \/ BumpFromXdr
       PROVE  BumpInv'
  <2>1. UNCHANGED <<ops, tx, sigs, signing>>
    BY <1>10 DEF WrapCall, WrapEncode, WrapReturns, SignBump, BumpFromXdr
  <2>2. QED
    BY <1>0, <1>10, <2>1, BumpSteps
<1>11. CASE UNCHANGED vars
  <2>1. /\ UNCHANGED <<sigs, signing, bump, parsed>>
        /\ \A u \in Txs : Body(u)' = Body(u) /\ Built(u)' = Built(u)
    BY <1>11 DEF vars, Body, Built
  <2>2. QED
    BY <1>0, <2>1, BumpUntouched DEF BumpInv
<1>12. QED
  BY <1>1, <1>2, <1>3, <1>4, <1>5, <1>7, <1>8, <1>9, <1>10, <1>11 DEF Next

(* A fee bump whose inner transaction is left alone, by a caller who       *)
(* leaves used builders alone too, has the hash and the signatures of what *)
(* is sent, and the same hash when it is read back.                        *)
THEOREM BumpsStayValid ==
  ASSUME ReuseBuilders = FALSE, ResignInner = FALSE
  PROVE  Spec => []BumpCoversWhatIsSent
<1>1. BumpInv => BumpCoversWhatIsSent
  BY DEF BumpInv, BumpCoversWhatIsSent
<1>2. BumpInv /\ [Next]_vars => BumpInv'
  BY BumpInvStep
<1>3. QED
  BY BumpInvInit, <1>1, <1>2, PTL DEF Spec

(***************************************************************************)
(* The refinement of SequenceNumbers.  A step either leaves the account    *)
(* and the numbers that are held alone, or is a build() that takes the     *)
(* next number or wastes it.                                               *)
(***************************************************************************)
LEMMA SameHeld ==
  ASSUME sequence' = sequence, FromBuilders' = FromBuilders,
         \A t \in FromBuilders : tx'[t].seq = tx[t].seq
  PROVE  UNCHANGED Handed!numberVars
<1>1. HeldNumbers' = HeldNumbers
  BY DEF HeldNumbers
<1>2. QED
  BY <1>1 DEF LastNumbers, Handed!numberVars

LEMMA HandOutStep == TypeInv /\ [Next]_vars => [Handed!NumbersNext]_Handed!numberVars
<1> SUFFICES ASSUME TypeInv, [Next]_vars PROVE [Handed!NumbersNext]_Handed!numberVars
  OBVIOUS
<1>0. TypeOK /\ sequence \in Nat
  BY DEF TypeInv, TypeOK
<1>1. ASSUME NEW b \in Builders, NEW t \in Txs, BuildCall(b, t)
      PROVE  Handed!NumbersNext
  <2>1. /\ sequence' = sequence + 1 /\ tx[t].pc = "none"
        /\ tx'[t].pc # "none" /\ tx'[t].array = b /\ tx'[t].seq = sequence + 1
        /\ \A u \in Txs : u # t => tx'[u] = tx[u]
    BY <1>0, <1>1 DEF BuildCall, TypeOK
  <2>2. t \notin FromBuilders /\ FromBuilders' = FromBuilders \cup {t}
    BY <2>1 DEF FromBuilders
  <2>3. sequence + 1 # 0
    BY <1>0
  <2>4. HeldNumbers' = HeldNumbers \cup
          {[of |-> "sourceAccount", by |-> t, number |-> sequence + 1]}
    BY <2>1, <2>2, <2>3 DEF HeldNumbers, FromBuilders
  <2>5. \A g \in HeldNumbers : g.by # t
    BY <2>2 DEF HeldNumbers
  <2>6. Handed!Move("sourceAccount") /\ Handed!HandOut("sourceAccount", t)
    BY <1>0, <2>1, <2>4, <2>5 DEF LastNumbers, Handed!Move, Handed!HandOut
  <2>7. QED
    BY <2>6 DEF Handed!NumbersNext
<1>2. ASSUME NEW b \in Builders, NEW t \in Txs, BuildCallThrows(b, t)
      PROVE  Handed!NumbersNext
  <2>1. /\ sequence' = sequence + 1 /\ tx[t].pc = "none"
        /\ tx'[t].pc # "none" /\ tx'[t].array = b /\ tx'[t].seq = 0
        /\ \A u \in Txs : u # t => tx'[u] = tx[u]
    BY <1>0, <1>2 DEF BuildCallThrows, TypeOK, NoTx
  <2>2. t \notin FromBuilders /\ FromBuilders' = FromBuilders \cup {t}
    BY <2>1 DEF FromBuilders
  <2>3. HeldNumbers' = HeldNumbers
    BY <2>1, <2>2 DEF HeldNumbers, FromBuilders
  <2>4. Handed!Move("sourceAccount") /\ Handed!Waste
    BY <1>0, <2>1, <2>3 DEF LastNumbers, Handed!Move, Handed!Waste
  <2>5. QED
    BY <2>4 DEF Handed!NumbersNext
<1>3. ASSUME NEW t \in Txs, BuildEncode(t) \/ BuildReturns(t)
      PROVE  UNCHANGED Handed!numberVars
  <2>1. /\ tx[t].pc # "none" /\ tx'[t].pc # "none"
        /\ tx'[t].array = tx[t].array /\ tx'[t].seq = tx[t].seq
        /\ \A u \in Txs : u # t => tx'[u] = tx[u]
        /\ sequence' = sequence
    <3>1. tx[t] \in TxType
      BY <1>0, TxTypeOf
    <3>2. CASE BuildEncode(t)
      BY <1>0, <3>1, <3>2 DEF BuildEncode, TypeOK, TxType
    <3>3. CASE BuildReturns(t)
      BY <1>0, <3>1, <3>3 DEF BuildReturns, TypeOK, TxType
    <3>4. QED
      BY <1>3, <3>2, <3>3
  <2>2. FromBuilders' = FromBuilders
    BY <2>1 DEF FromBuilders
  <2>3. QED
    BY <2>1, <2>2, SameHeld DEF FromBuilders
<1>4. ASSUME NEW t \in Txs, NEW u \in Txs, FromXdr(t, u)
      PROVE  UNCHANGED Handed!numberVars
  <2>1. /\ tx[u].pc = "none" /\ tx'[u].array = u /\ sequence' = sequence
        /\ \A v \in Txs : v # u => tx'[v] = tx[v]
    BY <1>0, <1>4 DEF FromXdr, TypeOK
  <2>2. u \notin Builders
    BY TxAssumption
  <2>3. FromBuilders' = FromBuilders /\ u \notin FromBuilders
    BY <2>1, <2>2 DEF FromBuilders
  <2>4. QED
    BY <2>1, <2>3, SameHeld DEF FromBuilders
<1>5. CASE UNCHANGED <<tx, sequence>>
  BY <1>5, SameHeld DEF FromBuilders
<1>6. QED
  <2>1. CASE UNCHANGED vars
    BY <1>5, <2>1 DEF vars
  <2>2. CASE Next
    BY <2>2, <1>1, <1>2, <1>3, <1>4, <1>5
    DEF Next, AddOperation, SignCall, SignResolves, SignRejects, AddSignature,
        WrapCall, WrapEncode, WrapReturns, SignBump, BumpFromXdr
  <2>3. QED
    BY <2>1, <2>2

(* Whatever build() calls overlap and whichever of them fail, the account  *)
(* hands out its numbers one by one and never takes one back.              *)
THEOREM ImplementsNumbers == Spec => NumbersAreHandedOut
<1>1. Init => Handed!NumbersInit
  <2> SUFFICES ASSUME Init PROVE Handed!NumbersInit
    OBVIOUS
  <2>1. FromBuilders = {}
    BY DEF Init, NoTx, FromBuilders
  <2>2. sequence \in Int
    BY TxAssumption DEF Init
  <2>3. QED
    BY <2>1, <2>2 DEF HeldNumbers, LastNumbers, Handed!NumbersInit
<1>2. QED
  BY <1>1, TypeInvInit, TypeInvStep, HandOutStep, PTL
  DEF Spec, NumbersAreHandedOut, Handed!NumbersSpec

=============================================================================
