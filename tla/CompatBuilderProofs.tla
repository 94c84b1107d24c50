-------------------------- MODULE CompatBuilderProofs --------------------------
(***************************************************************************)
(* Proofs about CompatBuilder, for any number of Accounts, builders,       *)
(* transactions, fee bumps and keypairs, and for any fees and bounds.      *)
(***************************************************************************)
EXTENDS CompatBuilder, TLAPS, SequenceTheorems, FiniteSetTheorems

(* The shape of the state, in full. *)
Transactions ==
  [seq : Int, fee : Nat, ops : 0..MaxOps, time : Times, v2 : BOOLEAN, soroban : Nat,
   v0 : BOOLEAN, sigs : Sigs, source : Sources \cup {None}, of : Positions]
WrappedBodies == [fee : Nat, inner : Bodies, innerSigs : Sigs]
BumpSigs == Seq([key : Keys, over : WrappedBodies])
FeeBumps ==
  [of : Nat, base : Nat, fee : Nat, inner : Bodies, innerSigs : Sigs, shown : Sigs,
   sigs : BumpSigs, hash : WrappedBodies]

Shape ==
  /\ sequence \in [Sources -> Int]
  /\ failures \in [Sources -> Nat]
  /\ builder \in [Builders -> BuilderRecs \cup {None}]
  /\ tx \in Seq(Transactions)
  /\ bump \in Seq(FeeBumps)
  /\ \A i \in DOMAIN tx : tx[i].of \in (1..(i - 1)) \cup {None}
  /\ \A b \in Builders : builder[b] # None => builder[b].of \in DOMAIN tx \cup {None}
  /\ \A n \in DOMAIN bump : bump[n].of \in DOMAIN tx

LEMMA ShapeIsTypeOK == Shape => TypeOK
<1> SUFFICES ASSUME Shape PROVE TypeOK
  OBVIOUS
<1>1. ASSUME NEW i \in DOMAIN tx
      PROVE  /\ Body(tx[i]) \in Bodies /\ tx[i].sigs \in Sigs
             /\ tx[i].source \in Sources \cup {None}
  <2>1. tx[i] \in Transactions
    BY DEF Shape
  <2>2. 0..MaxOps \subseteq Nat
    BY BuilderAssumption
  <2>3. QED
    BY <2>1, <2>2 DEF Transactions, Body, Bodies
<1>2. ASSUME NEW n \in DOMAIN bump
      PROVE  bump[n].fee \in Nat /\ bump[n].innerSigs \in Sigs /\ bump[n].shown \in Sigs
  <2>1. bump[n] \in FeeBumps
    BY DEF Shape
  <2>2. QED
    BY <2>1 DEF FeeBumps
<1>3. QED
  BY <1>1, <1>2 DEF TypeOK, Shape

-----------------------------------------------------------------------------
(* The actions that only set what a builder holds. *)

Setting(b) ==
  \/ SetOperations(b) \/ SetTimeout(b) \/ SetTimebounds(b)
  \/ SetPreconditions(b) \/ SetSorobanData(b)

(* What a setter never changes. *)
Kept == {"source", "fee", "of"}

(* A setter replaces fields by values of their types and keeps the account,*)
(* the fee and the transaction that is cloned.                             *)
LEMMA SetKeeps ==
  ASSUME NEW r \in BuilderRecs, NEW fields, DOMAIN fields \cap Kept = {},
         \A f \in DOMAIN fields :
           /\ f = "ops" => fields[f] \in Nat
           /\ f = "time" => fields[f] \in Times
           /\ f = "v2" => fields[f] \in BOOLEAN
           /\ f = "soroban" => fields[f] \in Nat
           /\ f = "bad" => fields[f] \in BOOLEAN
  PROVE  LET q == [f \in DOMAIN r |-> IF f \in DOMAIN fields THEN fields[f] ELSE r[f]]
         IN  q \in BuilderRecs /\ q.source = r.source /\ q.fee = r.fee /\ q.of = r.of
<1> DEFINE q == [f \in DOMAIN r |-> IF f \in DOMAIN fields THEN fields[f] ELSE r[f]]
<1>1. DOMAIN r = {"source", "fee", "ops", "time", "v2", "soroban", "bad", "of"}
  BY DEF BuilderRecs
<1>2. q.source = r.source /\ q.fee = r.fee /\ q.of = r.of
  BY <1>1 DEF Kept
<1>3. q.ops \in Nat /\ q.time \in Times /\ q.v2 \in BOOLEAN /\ q.soroban \in Nat
        /\ q.bad \in BOOLEAN
  BY <1>1 DEF BuilderRecs
<1>4. q = [source |-> q.source, fee |-> q.fee, ops |-> q.ops, time |-> q.time,
           v2 |-> q.v2, soroban |-> q.soroban, bad |-> q.bad, of |-> q.of]
  BY <1>1
<1>5. q \in BuilderRecs
  BY <1>2, <1>3, <1>4 DEF BuilderRecs
<1>6. QED
  BY <1>2, <1>5

LEMMA SettingStep ==
  ASSUME Shape, NEW b \in Builders, Setting(b)
  PROVE  /\ UNCHANGED <<sequence, tx, bump, failures>>
         /\ builder' \in [Builders -> BuilderRecs \cup {None}]
         /\ \A c \in Builders :
              /\ builder'[c] # None <=> builder[c] # None
              /\ builder[c] # None =>
                   /\ builder'[c].source = builder[c].source
                   /\ builder'[c].fee = builder[c].fee
                   /\ builder'[c].of = builder[c].of
<1> DEFINE Sets(fields) ==
        /\ Set(b, fields) /\ DOMAIN fields \cap Kept = {}
        /\ \A f \in DOMAIN fields :
             /\ f = "ops" => fields[f] \in Nat
             /\ f = "time" => fields[f] \in Times
             /\ f = "v2" => fields[f] \in BOOLEAN
             /\ f = "soroban" => fields[f] \in Nat
             /\ f = "bad" => fields[f] \in BOOLEAN
<1>1. PICK fields : Sets(fields)
  <2>1. CASE SetOperations(b)
    <3>1. PICK n \in 0..(MaxOps + 1) : Set(b, [ops |-> n])
      BY <2>1 DEF SetOperations
    <3>2. n \in Nat
      BY BuilderAssumption
    <3>3. Sets([ops |-> n])
      BY <3>1, <3>2 DEF Kept
    <3>4. QED
      BY <3>3
  <2>2. CASE SetTimeout(b) \/ SetTimebounds(b)
    <3>1. PICK time \in {"infinite", "finite"} : Set(b, [time |-> time])
      BY <2>2 DEF SetTimeout, SetTimebounds
    <3>2. Sets([time |-> time])
      BY <3>1 DEF Kept, Times
    <3>3. QED
      BY <3>2
  <2>3. CASE SetPreconditions(b)
    <3>1. PICK bad \in Garbage : Set(b, [v2 |-> TRUE, bad |-> bad])
      BY <2>3 DEF SetPreconditions
    <3>2. bad \in BOOLEAN
      BY DEF Garbage
    <3> DEFINE fields == [v2 |-> TRUE, bad |-> bad]
    <3>3. DOMAIN fields = {"v2", "bad"}
      OBVIOUS
    <3>4. fields["v2"] \in BOOLEAN /\ fields["bad"] \in BOOLEAN
      BY <3>2
    <3>5. Set(b, fields)
      BY <3>1
    <3> HIDE DEF fields
    <3>6. DOMAIN fields \cap Kept = {}
      BY <3>3 DEF Kept
    <3>7. \A f \in DOMAIN fields : fields[f] \in BOOLEAN /\ f \in {"v2", "bad"}
      BY <3>3, <3>4
    <3>8. Sets(fields)
      BY <3>5, <3>6, <3>7
    <3>9. QED
      BY <3>8
  <2>4. CASE SetSorobanData(b)
    <3>1. PICK r \in Resources, bad \in Garbage : Set(b, [soroban |-> r, bad |-> bad])
      BY <2>4 DEF SetSorobanData
    <3>2. bad \in BOOLEAN /\ r \in Nat
      BY BuilderAssumption DEF Garbage
    <3>3. Sets([soroban |-> r, bad |-> bad])
      BY <3>1, <3>2 DEF Kept
    <3>4. QED
      BY <3>3
  <2> HIDE DEF Sets
  <2>5. QED
    BY <2>1, <2>2, <2>3, <2>4 DEF Setting
<1> DEFINE q == [f \in DOMAIN builder[b] |->
                   IF f \in DOMAIN fields THEN fields[f] ELSE builder[b][f]]
<1>2. builder[b] # None /\ builder[b] \in BuilderRecs
  BY <1>1 DEF Set, Shape
<1>3. q \in BuilderRecs /\ q.source = builder[b].source /\ q.fee = builder[b].fee
        /\ q.of = builder[b].of
  BY <1>1, <1>2, SetKeeps
<1>4. /\ builder' = [builder EXCEPT ![b] = q]
      /\ UNCHANGED <<sequence, tx, bump, failures>>
  BY <1>1 DEF Set
<1>5. q # None
  BY <1>3, NoBuilderAssumption
<1> HIDE DEF q
<1>6. QED
  BY <1>2, <1>3, <1>4, <1>5 DEF Shape

-----------------------------------------------------------------------------
(* Signatures. *)

(* The keys before the first that cannot sign.                             *)
LEMMA SignsKeys ==
  ASSUME NEW ks \in KeyLists
  PROVE  Signs(ks) \in Seq(Keys)
<1>1. PICK k \in Keys \cup {PublicOnly}, l \in Keys \cup {PublicOnly} :
        (ks = <<k>> /\ k \in Keys) \/ ks = <<k, l>>
  BY DEF KeyLists
<1> DEFINE First(i) == ks[i] = PublicOnly /\ \A j \in 1..(i - 1) : ks[j] # PublicOnly
           first == CHOOSE i \in DOMAIN ks : First(i)
<1>2. CASE PublicOnly \notin {ks[i] : i \in DOMAIN ks}
  <2>1. Signs(ks) = ks
    BY <1>2 DEF Signs
  <2>2. CASE ks = <<k>> /\ k \in Keys
    BY <2>1, <2>2
  <2>3. CASE ks = <<k, l>>
    <3>1. k # PublicOnly /\ l # PublicOnly
      <4>1. ks[1] = k /\ ks[2] = l /\ DOMAIN ks = 1..2
        BY <2>3
      <4>2. QED
        BY <1>2, <4>1
    <3>2. QED
      BY <2>1, <2>3, <3>1
  <2>4. QED
    BY <1>1, <2>2, <2>3
<1>3. CASE PublicOnly \in {ks[i] : i \in DOMAIN ks}
  <2>1. Signs(ks) = SubSeq(ks, 1, first - 1)
    BY <1>3 DEF Signs
  <2>2. ks = <<k, l>> /\ ks[1] = k /\ ks[2] = l /\ DOMAIN ks = 1..2
    BY <1>1, <1>3, BuilderAssumption
  <2>3. \E i \in DOMAIN ks : First(i)
    <3>1. CASE k = PublicOnly
      <4>1. First(1)
        BY <2>2, <3>1
      <4>2. QED
        BY <2>2, <4>1
    <3>2. CASE k # PublicOnly
      <4>1. First(2)
        BY <1>3, <2>2, <3>2
      <4>2. QED
        BY <2>2, <4>1
    <3>3. QED
      BY <3>1, <3>2
  <2>4. first \in 1..2 /\ First(first)
    BY <2>2, <2>3
  <2> HIDE DEF first
  <2>5. \A i \in 1..(first - 1) : ks[i] \in Keys
    BY <2>2, <2>4
  <2>6. QED
    BY <2>1, <2>4, <2>5, SubSeqProperties
<1>4. QED
  BY <1>2, <1>3

(* What is pushed is over the body that is signed.                         *)
LEMMA SignedOver ==
  ASSUME NEW B, NEW sigs \in Seq([key : Keys, over : B]), NEW ks \in KeyLists,
         NEW body \in B
  PROVE  Signed(sigs, ks, body) \in Seq([key : Keys, over : B])
<1> DEFINE signs == Signs(ks)
           pushed == [i \in DOMAIN signs |-> Signature(signs[i], body)]
<1>1. signs \in Seq(Keys)
  BY SignsKeys
<1> HIDE DEF signs
<1>2. DOMAIN signs = 1..Len(signs) /\ Len(signs) \in Nat
  BY <1>1
<1>3. pushed \in [1..Len(signs) -> [key : Keys, over : B]]
  BY <1>1, <1>2 DEF Signature
<1>4. pushed \in Seq([key : Keys, over : B])
  BY <1>2, <1>3, SeqDef
<1> HIDE DEF pushed
<1>5. sigs \o pushed \in Seq([key : Keys, over : B])
  BY <1>4
<1>6. QED
  BY <1>5 DEF Signed, pushed, signs

-----------------------------------------------------------------------------
(* The shape of the state is an invariant. *)

LEMMA ShapeInit == Init => Shape
  BY BuilderAssumption DEF Init, Shape

(* A sequence of which one element is replaced, or one is added, by        *)
(* another of the same set.                                                *)
LEMMA Replaced ==
  ASSUME NEW S, NEW s \in Seq(S), NEW i \in DOMAIN s, NEW e \in S
  PROVE  /\ [s EXCEPT ![i] = e] \in Seq(S)
         /\ DOMAIN [s EXCEPT ![i] = e] = DOMAIN s
         /\ \A j \in DOMAIN s : [s EXCEPT ![i] = e][j] = IF j = i THEN e ELSE s[j]
  BY ExceptSeq

LEMMA Added ==
  ASSUME NEW S, NEW s \in Seq(S), NEW e \in S
  PROVE  /\ Append(s, e) \in Seq(S)
         /\ Len(s) \in Nat /\ DOMAIN s = 1..Len(s)
         /\ DOMAIN Append(s, e) = DOMAIN s \cup {Len(s) + 1}
         /\ Len(s) + 1 \notin DOMAIN s
         /\ Append(s, e)[Len(s) + 1] = e
         /\ \A j \in DOMAIN s : Append(s, e)[j] = s[j] /\ j \in Nat /\ j <= Len(s)
  OBVIOUS

LEMMA Products == \A m, n \in Nat : m * n \in Nat
  OBVIOUS

LEMMA BuilderIs ==
  ASSUME Shape, NEW b \in Builders, builder[b] # None
  PROVE  /\ builder[b] \in BuilderRecs
         /\ builder[b].source \in Sources /\ builder[b].fee \in Nat
         /\ builder[b].ops \in Nat /\ builder[b].of \in DOMAIN tx \cup {None}
<1>1. builder[b] \in BuilderRecs
  BY DEF Shape
<1>2. QED
  BY <1>1 DEF Shape, BuilderRecs

LEMMA TransactionIs ==
  ASSUME Shape, NEW i \in DOMAIN tx
  PROVE  /\ tx[i] \in Transactions /\ i \in Nat /\ Body(tx[i]) \in Bodies
         /\ tx[i].seq \in Int /\ tx[i].fee \in Nat /\ tx[i].ops \in Nat
         /\ tx[i].ops <= MaxOps /\ tx[i].soroban \in Nat /\ tx[i].sigs \in Sigs
         /\ tx[i].source \in Sources \cup {None}
         /\ tx[i].of \in (1..(i - 1)) \cup {None} /\ tx[i].time \in Times
<1>1. tx[i] \in Transactions /\ i \in Nat
  BY DEF Shape
<1>2. tx[i].ops \in Nat /\ tx[i].ops <= MaxOps
  BY <1>1, BuilderAssumption DEF Transactions
<1>3. tx[i].of \in (1..(i - 1)) \cup {None}
  BY DEF Shape
<1>4. Body(tx[i]) \in Bodies
  BY <1>1, <1>2 DEF Transactions, Body, Bodies
<1>5. QED
  BY <1>1, <1>2, <1>3, <1>4 DEF Transactions

(* What build() adds. *)
LEMMA BuiltIs ==
  ASSUME Shape, NEW b \in Builders, Build(b)
  PROVE  /\ builder[b] # None
         /\ tx' = Append(tx, BuiltBy(b))
         /\ sequence' = [sequence EXCEPT ![builder[b].source] = @ + 1]
         /\ UNCHANGED <<builder, bump, failures>>
         /\ BuiltBy(b) \in Transactions
         /\ BuiltBy(b).seq = sequence[builder[b].source] + 1
         /\ BuiltBy(b).fee = builder[b].fee * builder[b].ops
         /\ BuiltBy(b).ops = builder[b].ops
         /\ BuiltBy(b).source = builder[b].source
         /\ BuiltBy(b).of = builder[b].of
<1>1. builder[b] # None /\ Encodes(b)
  BY DEF Build
<1>2. builder[b] \in BuilderRecs /\ builder[b].source \in Sources
  BY <1>1, BuilderIs
<1>3. Fee(b) \in Nat /\ builder[b].ops \in 0..MaxOps
  BY <1>1, <1>2, Products, BuilderAssumption DEF BuilderRecs, Fee, Encodes
<1>4. sequence[builder[b].source] + 1 \in Int
  BY <1>2 DEF Shape
<1>5. BuiltBy(b) \in Transactions
  BY <1>2, <1>3, <1>4 DEF BuiltBy, Transactions, BuilderRecs, Sigs
<1>6. QED
  BY <1>1, <1>5 DEF Build, BuiltBy, Fee

(* What fromXDR() adds: a transaction of nobody's builder.                 *)
LEMMA ImportedIs ==
  ASSUME Shape, Import
  PROVE  \E t \in Transactions :
           /\ tx' = Append(tx, t)
           /\ t.source = None /\ t.of = None
           /\ UNCHANGED <<sequence, builder, bump, failures>>
<1>1. PICK f \in Foreign, r \in Resources, v0 \in BOOLEAN, v2 \in BOOLEAN :
        tx' = Append(tx, [seq |-> 2, fee |-> f.fee, ops |-> f.ops,
                          time |-> IF v0 THEN "unset" ELSE "finite",
                          v2 |-> v2, soroban |-> r, v0 |-> v0, sigs |-> <<>>,
                          source |-> None, of |-> None])
  BY DEF Import
<1> DEFINE t == [seq |-> 2, fee |-> f.fee, ops |-> f.ops,
                 time |-> IF v0 THEN "unset" ELSE "finite",
                 v2 |-> v2, soroban |-> r, v0 |-> v0, sigs |-> <<>>,
                 source |-> None, of |-> None]
<1>2. f \in [fee : 0..MaxFee, ops : 0..MaxOps] /\ r \in Nat
  BY BuilderAssumption
<1>3. f.fee \in Nat /\ f.ops \in 0..MaxOps
  BY <1>2, BuilderAssumption
<1>4. t \in Transactions
  <2>1. (IF v0 THEN "unset" ELSE "finite") \in Times /\ <<>> \in Sigs
    BY DEF Times, Sigs
  <2>2. None \in Positions
    BY DEF Positions
  <2>3. QED
    BY <1>2, <1>3, <2>1, <2>2 DEF Transactions
<1>5. t.source = None /\ t.of = None
  OBVIOUS
<1>6. UNCHANGED <<sequence, builder, bump, failures>>
  BY DEF Import
<1> HIDE DEF t
<1>7. tx' = Append(tx, t)
  BY <1>1 DEF t
<1>8. QED
  BY <1>4, <1>5, <1>6, <1>7

(* A clone: an account nobody else has.                                    *)
LEMMA ClonedIs ==
  ASSUME Shape, NEW i \in DOMAIN tx, NEW b \in Builders, NEW s \in Sources, CloneFrom(i, b, s)
  PROVE  /\ builder[b] = None /\ Unused(s)
         /\ sequence' = [sequence EXCEPT ![s] = tx[i].seq - 1]
         /\ builder' = [builder EXCEPT ![b] = Cloned(i, s)]
         /\ UNCHANGED <<tx, bump, failures>>
         /\ Cloned(i, s) \in BuilderRecs /\ Cloned(i, s) # None
         /\ Cloned(i, s).source = s /\ Cloned(i, s).of = i
         /\ Cloned(i, s).fee = FeePerOperation(tx[i])
<1>1. tx[i].fee \in Nat /\ tx[i].ops \in Nat /\ tx[i].time \in Times /\ i \in Nat
  BY TransactionIs
<1>2. \A m \in Nat, n \in Nat \ {0} : m \div n \in Nat
  OBVIOUS
<1>3. FeePerOperation(tx[i]) \in Nat
  BY <1>1, <1>2 DEF FeePerOperation
<1> DEFINE r == NewBuilder(s, FeePerOperation(tx[i]), tx[i].time)
<1>4. r \in BuilderRecs /\ r.source = s /\ r.fee = FeePerOperation(tx[i])
  BY <1>1, <1>3 DEF NewBuilder, BuilderRecs, Positions
<1> HIDE DEF r
<1>5. /\ Cloned(i, s) \in BuilderRecs
      /\ Cloned(i, s).source = s /\ Cloned(i, s).of = i
      /\ Cloned(i, s).fee = FeePerOperation(tx[i])
  <2>1. i \in Positions
    BY <1>1 DEF Positions
  <2>2. Cloned(i, s) = [r EXCEPT !.ops = tx[i].ops, !.of = i]
    BY DEF Cloned, r
  <2>3. QED
    BY <1>1, <1>4, <2>1, <2>2 DEF BuilderRecs
<1>6. Cloned(i, s) # None
  BY <1>5, NoBuilderAssumption
<1>7. QED
  BY <1>5, <1>6 DEF CloneFrom

(* A new builder over the caller's account.                                *)
LEMMA NewIs ==
  ASSUME Shape, NEW b \in Builders, NEW fee \in Fees, New(b, fee)
  PROVE  \E r \in BuilderRecs :
           /\ builder[b] = None /\ r # None
           /\ builder' = [builder EXCEPT ![b] = r]
           /\ r.source = Own /\ r.of = None
           /\ UNCHANGED <<sequence, tx, bump, failures>>
<1>1. PICK time \in {"unset", "infinite", "finite"} :
        builder' = [builder EXCEPT ![b] = NewBuilder(Own, fee, time)]
  BY DEF New
<1> DEFINE r == NewBuilder(Own, fee, time)
<1>2. r \in BuilderRecs /\ r.source = Own /\ r.of = None
  BY BuilderAssumption DEF NewBuilder, BuilderRecs, Times, Positions
<1>3. r # None
  BY <1>2, NoBuilderAssumption
<1>4. builder[b] = None /\ UNCHANGED <<sequence, tx, bump, failures>>
  BY DEF New
<1> HIDE DEF r
<1>5. builder' = [builder EXCEPT ![b] = r]
  BY <1>1 DEF r
<1>6. QED
  BY <1>2, <1>3, <1>4, <1>5

(* Signing changes the signatures only. *)
LEMMA SignIs ==
  ASSUME Shape, NEW i \in DOMAIN tx, Sign(i)
  PROVE  /\ tx' \in Seq(Transactions) /\ DOMAIN tx' = DOMAIN tx
         /\ \A j \in DOMAIN tx :
              /\ tx'[j].seq = tx[j].seq /\ tx'[j].fee = tx[j].fee
              /\ tx'[j].ops = tx[j].ops /\ tx'[j].source = tx[j].source
              /\ tx'[j].of = tx[j].of
         /\ UNCHANGED <<sequence, builder, bump, failures>>
<1>1. PICK ks \in KeyLists :
        tx' = [tx EXCEPT ![i].sigs = Signed(tx[i].sigs, ks, Body(tx[i]))]
  BY DEF Sign
<1> DEFINE signed == Signed(tx[i].sigs, ks, Body(tx[i]))
           t == [tx[i] EXCEPT !.sigs = signed]
<1>2. tx[i] \in Transactions /\ tx[i].sigs \in Sigs /\ Body(tx[i]) \in Bodies
  BY TransactionIs
<1>3. signed \in Sigs
  BY <1>2, SignedOver DEF Sigs
<1> HIDE DEF signed
<1>4. /\ t \in Transactions /\ t.seq = tx[i].seq /\ t.fee = tx[i].fee /\ t.ops = tx[i].ops
      /\ t.source = tx[i].source /\ t.of = tx[i].of
  BY <1>2, <1>3 DEF Transactions
<1> HIDE DEF t
<1>5. tx' = [tx EXCEPT ![i] = t]
  BY <1>1 DEF t, signed
<1>6. tx \in Seq(Transactions)
  BY DEF Shape
<1>7. UNCHANGED <<sequence, builder, bump, failures>>
  BY DEF Sign
<1>8. QED
  BY <1>4, <1>5, <1>6, <1>7, Replaced

(* What buildFeeBumpTransaction() adds. *)
LEMMA WrappedIs ==
  ASSUME Shape, NEW i \in DOMAIN tx, NEW base \in Fees, Wrap(i, base)
  PROVE  /\ bump' = Append(bump, Wrapped(i, base)) /\ Wrapped(i, base) \in FeeBumps
         /\ tx[i].ops # 0 /\ base \in Nat /\ base >= LeastBaseFee(tx[i])
         /\ Wrapped(i, base).of = i /\ Wrapped(i, base).inner = Body(tx[i])
         /\ Wrapped(i, base).fee = base * (tx[i].ops + 1) + tx[i].soroban
         /\ Wrapped(i, base).sigs = <<>>
         /\ Wrapped(i, base).hash = WrappedBody(Wrapped(i, base))
         /\ UNCHANGED <<sequence, builder, tx, failures>>
<1> DEFINE fee == base * (tx[i].ops + 1) + tx[i].soroban
<1>1. /\ tx[i].ops \in Nat /\ tx[i].soroban \in Nat /\ tx[i].sigs \in Sigs /\ i \in Nat
      /\ Body(tx[i]) \in Bodies
  BY TransactionIs
<1>2. base \in Nat
  BY BuilderAssumption
<1>3. fee \in Nat
  <2>1. base * (tx[i].ops + 1) \in Nat
    BY <1>1, <1>2, Products
  <2>2. QED
    BY <1>1, <2>1
<1> HIDE DEF fee
<1>4. Wrapped(i, base) =
        [of |-> i, base |-> base, fee |-> fee, inner |-> Body(tx[i]),
         innerSigs |-> tx[i].sigs, shown |-> tx[i].sigs, sigs |-> <<>>,
         hash |-> WrappedBody([fee |-> fee, inner |-> Body(tx[i]), innerSigs |-> tx[i].sigs])]
  BY DEF Wrapped, fee
<1>5. WrappedBody([fee |-> fee, inner |-> Body(tx[i]), innerSigs |-> tx[i].sigs])
        = [fee |-> fee, inner |-> Body(tx[i]), innerSigs |-> tx[i].sigs]
  BY DEF WrappedBody
<1>6. [fee |-> fee, inner |-> Body(tx[i]), innerSigs |-> tx[i].sigs] \in WrappedBodies
  BY <1>1, <1>3 DEF WrappedBodies
<1>7. Wrapped(i, base) \in FeeBumps
  BY <1>1, <1>2, <1>3, <1>4, <1>5, <1>6 DEF FeeBumps, BumpSigs
<1>8. Wrapped(i, base).hash = WrappedBody(Wrapped(i, base))
  BY <1>4, <1>5 DEF WrappedBody
<1>9. QED
  BY <1>2, <1>4, <1>7, <1>8 DEF Wrap, fee

(* Signing a fee bump, or the copy it shows, changes signatures only, and  *)
(* what is pushed to its own is over its hash.                             *)
LEMMA SignBumpIs ==
  ASSUME Shape, NEW n \in DOMAIN bump, SignShown(n) \/ SignBump(n)
  PROVE  /\ \E e \in FeeBumps :
              /\ bump' = [bump EXCEPT ![n] = e]
              /\ e.of = bump[n].of /\ e.fee = bump[n].fee /\ e.inner = bump[n].inner
              /\ e.innerSigs = bump[n].innerSigs /\ e.hash = bump[n].hash
              /\ bump[n].sigs \in Seq([key : Keys, over : {bump[n].hash}])
                   => e.sigs \in Seq([key : Keys, over : {bump[n].hash}])
         /\ UNCHANGED <<sequence, builder, tx, failures>>
<1>1. bump[n] \in FeeBumps
  BY DEF Shape
<1>2. /\ bump[n].shown \in Sigs /\ bump[n].sigs \in BumpSigs
      /\ bump[n].hash \in WrappedBodies /\ bump[n].inner \in Bodies
  BY <1>1 DEF FeeBumps
<1>3. UNCHANGED <<sequence, builder, tx, failures>>
  BY DEF SignShown, SignBump
<1>4. CASE SignShown(n)
  <2>1. PICK k \in Keys :
          bump' = [bump EXCEPT ![n].shown = Append(bump[n].shown, Signature(k, bump[n].inner))]
    BY <1>4 DEF SignShown
  <2> DEFINE shown == Append(bump[n].shown, Signature(k, bump[n].inner))
             e == [bump[n] EXCEPT !.shown = shown]
  <2>2. shown \in Sigs
    BY <1>2 DEF Sigs, Signature
  <2> HIDE DEF shown
  <2>3. /\ e \in FeeBumps /\ e.of = bump[n].of /\ e.fee = bump[n].fee
        /\ e.inner = bump[n].inner /\ e.innerSigs = bump[n].innerSigs
        /\ e.hash = bump[n].hash /\ e.sigs = bump[n].sigs
    BY <1>1, <2>2 DEF FeeBumps
  <2> HIDE DEF e
  <2>4. bump' = [bump EXCEPT ![n] = e]
    BY <2>1 DEF e, shown
  <2>5. QED
    BY <1>3, <2>3, <2>4
<1>5. CASE SignBump(n)
  <2>1. PICK ks \in KeyLists :
          bump' = [bump EXCEPT ![n].sigs = Signed(bump[n].sigs, ks, bump[n].hash)]
    BY <1>5 DEF SignBump
  <2> DEFINE signed == Signed(bump[n].sigs, ks, bump[n].hash)
             e == [bump[n] EXCEPT !.sigs = signed]
  <2>2. signed \in BumpSigs
    BY <1>2, SignedOver DEF BumpSigs
  <2>3. bump[n].sigs \in Seq([key : Keys, over : {bump[n].hash}])
          => signed \in Seq([key : Keys, over : {bump[n].hash}])
    BY SignedOver
  <2> HIDE DEF signed
  <2>4. /\ e \in FeeBumps /\ e.of = bump[n].of /\ e.fee = bump[n].fee
        /\ e.inner = bump[n].inner /\ e.innerSigs = bump[n].innerSigs
        /\ e.hash = bump[n].hash /\ e.sigs = signed
    BY <1>1, <2>2 DEF FeeBumps
  <2> HIDE DEF e
  <2>5. bump' = [bump EXCEPT ![n] = e]
    BY <2>1 DEF e, signed
  <2>6. QED
    BY <1>3, <2>3, <2>4, <2>5
<1>6. QED
  BY <1>4, <1>5

LEMMA ShapeStep == Shape /\ [Next]_vars => Shape'
<1> SUFFICES ASSUME Shape, [Next]_vars PROVE Shape'
  OBVIOUS
<1>0. tx \in Seq(Transactions) /\ bump \in Seq(FeeBumps)
        /\ builder \in [Builders -> BuilderRecs \cup {None}]
  BY DEF Shape
<1>1. ASSUME NEW b \in Builders, NEW fee \in Fees, New(b, fee)
      PROVE  Shape'
  BY <1>0, <1>1, NewIs DEF Shape
<1>2. ASSUME NEW b \in Builders, Setting(b)
      PROVE  Shape'
  BY <1>2, SettingStep DEF Shape
<1>3. ASSUME NEW b \in Builders, Build(b)
      PROVE  Shape'
  <2> DEFINE t == BuiltBy(b)
  <2>1. /\ tx' = Append(tx, t) /\ t \in Transactions /\ t.of \in DOMAIN tx \cup {None}
        /\ UNCHANGED <<builder, bump, failures>>
        /\ builder[b].source \in Sources
        /\ sequence' = [sequence EXCEPT ![builder[b].source] = @ + 1]
    BY <1>3, BuiltIs, BuilderIs
  <2> HIDE DEF t
  <2>2. sequence' \in [Sources -> Int]
    BY <2>1 DEF Shape
  <2>3. /\ tx' \in Seq(Transactions) /\ DOMAIN tx \subseteq DOMAIN tx'
        /\ \A i \in DOMAIN tx' : tx'[i].of \in (1..(i - 1)) \cup {None}
    BY <1>0, <2>1, Added DEF Shape
  <2>4. QED
    BY <2>1, <2>2, <2>3 DEF Shape
<1>4. ASSUME NEW b \in Builders, BuildThrows(b)
      PROVE  Shape'
  <2>1. builder[b].source \in Sources
    BY <1>4, BuilderIs DEF BuildThrows
  <2>2. sequence' \in [Sources -> Int] /\ failures' \in [Sources -> Nat]
    BY <1>4, <2>1 DEF BuildThrows, Shape
  <2>3. QED
    BY <1>4, <2>2 DEF BuildThrows, Shape
<1>5. ASSUME NEW b \in Builders, NEW i \in DOMAIN tx, NEW s \in Sources, CloneFrom(i, b, s)
      PROVE  Shape'
  <2>1. tx[i].seq - 1 \in Int
    BY TransactionIs
  <2>2. sequence' \in [Sources -> Int]
    BY <1>5, <2>1, ClonedIs DEF Shape
  <2>3. PICK r \in BuilderRecs :
          /\ builder' = [builder EXCEPT ![b] = r] /\ r.of = i
          /\ UNCHANGED <<tx, bump, failures>>
    BY <1>5, ClonedIs
  <2>4. QED
    BY <1>0, <2>2, <2>3 DEF Shape
<1>6. ASSUME Import
      PROVE  Shape'
  <2>1. PICK t \in Transactions :
          /\ tx' = Append(tx, t) /\ t.of = None
          /\ UNCHANGED <<sequence, builder, bump, failures>>
    BY <1>6, ImportedIs
  <2>2. /\ tx' \in Seq(Transactions) /\ DOMAIN tx \subseteq DOMAIN tx'
        /\ \A i \in DOMAIN tx' : tx'[i].of \in (1..(i - 1)) \cup {None}
    BY <1>0, <2>1, Added DEF Shape
  <2>3. QED
    BY <2>1, <2>2 DEF Shape
<1>7. ASSUME NEW i \in DOMAIN tx, Sign(i)
      PROVE  Shape'
  BY <1>7, SignIs DEF Shape
<1>8. ASSUME NEW i \in DOMAIN tx, NEW base \in Fees, Wrap(i, base)
      PROVE  Shape'
  <2> DEFINE e == Wrapped(i, base)
  <2>1. /\ bump' = Append(bump, e) /\ e \in FeeBumps /\ e.of = i
        /\ UNCHANGED <<sequence, builder, tx, failures>>
    BY <1>8, WrappedIs
  <2> HIDE DEF e
  <2>2. /\ bump' \in Seq(FeeBumps)
        /\ \A n \in DOMAIN bump' : bump'[n].of \in DOMAIN tx
    BY <1>0, <2>1, Added DEF Shape
  <2>3. QED
    BY <2>1, <2>2 DEF Shape
<1>9. ASSUME NEW n \in DOMAIN bump, SignShown(n) \/ SignBump(n)
      PROVE  Shape'
  <2>1. PICK e \in FeeBumps :
          /\ bump' = [bump EXCEPT ![n] = e] /\ e.of = bump[n].of
          /\ UNCHANGED <<sequence, builder, tx, failures>>
    BY <1>9, SignBumpIs
  <2>2. /\ bump' \in Seq(FeeBumps)
        /\ \A m \in DOMAIN bump' : bump'[m].of \in DOMAIN tx
    BY <1>0, <2>1, Replaced DEF Shape
  <2>3. QED
    BY <2>1, <2>2 DEF Shape
<1>10. ASSUME UNCHANGED vars
       PROVE  Shape'
  BY <1>10 DEF Shape, vars
<1>11. QED
  BY <1>1, <1>2, <1>3, <1>4, <1>5, <1>6, <1>7, <1>8, <1>9, <1>10 DEF Next, Setting

LEMMA ShapeHolds == Spec => []Shape
  BY ShapeInit, ShapeStep, PTL DEF Spec

(* Builders, transactions, fee bumps and accounts keep their shape, and    *)
(* refer to transactions that exist.                                       *)
THEOREM TypeCorrect == Spec => []TypeOK
  BY ShapeHolds, ShapeIsTypeOK, PTL

-----------------------------------------------------------------------------
(* Numbers. *)

(* What a step keeps that neither builds nor makes a builder.              *)
KeepsNumbers ==
  /\ UNCHANGED <<sequence, failures>>
  /\ DOMAIN tx' = DOMAIN tx
  /\ \A j \in DOMAIN tx :
       /\ tx'[j].seq = tx[j].seq /\ tx'[j].fee = tx[j].fee
       /\ tx'[j].ops = tx[j].ops /\ tx'[j].source = tx[j].source
       /\ tx'[j].of = tx[j].of
  /\ \A c \in Builders :
       /\ builder'[c] # None <=> builder[c] # None
       /\ builder[c] # None =>
            /\ builder'[c].source = builder[c].source
            /\ builder'[c].fee = builder[c].fee
            /\ builder'[c].of = builder[c].of

Quiet ==
  \/ \E b \in Builders : Setting(b)
  \/ \E i \in DOMAIN tx : Sign(i) \/ \E base \in Fees : Wrap(i, base)
  \/ \E n \in DOMAIN bump : SignShown(n) \/ SignBump(n)
  \/ UNCHANGED vars

LEMMA QuietStep == Shape /\ Quiet => KeepsNumbers
<1> SUFFICES ASSUME Shape, Quiet PROVE KeepsNumbers
  OBVIOUS
<1>1. CASE \E b \in Builders : Setting(b)
  BY <1>1, SettingStep DEF KeepsNumbers
<1>2. CASE \E i \in DOMAIN tx : Sign(i)
  BY <1>2, SignIs DEF KeepsNumbers
<1>3. CASE \E i \in DOMAIN tx : \E base \in Fees : Wrap(i, base)
  BY <1>3 DEF Wrap, KeepsNumbers
<1>4. CASE \E n \in DOMAIN bump : SignShown(n) \/ SignBump(n)
  BY <1>4 DEF SignShown, SignBump, KeepsNumbers
<1>5. CASE UNCHANGED vars
  BY <1>5 DEF vars, KeepsNumbers
<1>6. QED
  BY <1>1, <1>2, <1>3, <1>4, <1>5 DEF Quiet

(* The caller's builders share one account, a clone has its own; what was  *)
(* built has a number its account has passed, and an account with a built  *)
(* transaction is never handed out to a clone.                             *)
InUse == {s \in Sources : ~Unused(s)}
Numbers ==
  /\ \A b \in Builders : builder[b] # None =>
       (builder[b].source = Own <=> builder[b].of = None)
  /\ \A b, c \in Builders :
       /\ builder[b] # None /\ builder[c] # None /\ b # c
       /\ builder[b].source = builder[c].source
       => builder[b].source = Own
  /\ \A i \in DOMAIN tx : tx[i].source # None =>
       tx[i].seq <= sequence[tx[i].source] /\ tx[i].source \in InUse
  /\ SequenceNumbersDistinct

LEMMA NumbersInit == Init => Numbers
  BY DEF Init, Numbers, SequenceNumbersDistinct

LEMMA NumbersStep == Shape /\ Numbers /\ [Next]_vars => Numbers'
<1> SUFFICES ASSUME Shape, Numbers, [Next]_vars PROVE Numbers'
  OBVIOUS
<1>0. builder \in [Builders -> BuilderRecs \cup {None}] /\ tx \in Seq(Transactions)
        /\ sequence \in [Sources -> Int]
  BY DEF Shape
<1>1. ASSUME NEW b \in Builders, NEW fee \in Fees, New(b, fee)
      PROVE  Numbers'
  <2>1. PICK r \in BuilderRecs :
          /\ builder[b] = None /\ r # None
          /\ builder' = [builder EXCEPT ![b] = r]
          /\ r.source = Own /\ r.of = None
          /\ UNCHANGED <<sequence, tx, bump, failures>>
    BY <1>1, NewIs
  <2>2. InUse \subseteq InUse'
    BY <1>0, <2>1 DEF InUse, Unused
  <2>3. \A i \in DOMAIN tx : tx[i].source # None => tx[i].source \in Sources
    BY TransactionIs
  <2>4. QED
    BY <1>0, <2>1, <2>2, <2>3 DEF Numbers, SequenceNumbersDistinct
<1>2. ASSUME Quiet
      PROVE  Numbers'
  <2>1. KeepsNumbers
    BY <1>2, QuietStep
  <2>2. InUse \subseteq InUse'
    BY <2>1 DEF InUse, Unused, KeepsNumbers
  <2>3. \A i \in DOMAIN tx : tx[i].source # None => tx[i].source \in Sources
    BY TransactionIs
  <2>4. QED
    BY <2>1, <2>2, <2>3 DEF Numbers, SequenceNumbersDistinct, KeepsNumbers
<1>3. ASSUME NEW b \in Builders, Build(b)
      PROVE  Numbers'
  <2> DEFINE t == BuiltBy(b)
             s == builder[b].source
  <2>1. /\ builder[b] # None /\ s \in Sources
        /\ tx' = Append(tx, t) /\ t \in Transactions
        /\ sequence' = [sequence EXCEPT ![s] = @ + 1]
        /\ t.seq = sequence[s] + 1 /\ t.source = s
        /\ UNCHANGED <<builder, bump, failures>>
    BY <1>3, BuiltIs, BuilderIs
  <2> HIDE DEF t
  <2>2. /\ DOMAIN tx' = DOMAIN tx \cup {Len(tx) + 1} /\ tx'[Len(tx) + 1] = t
        /\ \A i \in DOMAIN tx : tx'[i] = tx[i]
    BY <1>0, <2>1, Added
  <2>3. \A a \in Sources : sequence[a] \in Int /\ sequence[a] <= sequence'[a]
    BY <1>0, <2>1
  <2>4. \A i \in DOMAIN tx :
          /\ tx[i].seq \in Int
          /\ tx[i].source # None =>
               tx[i].source \in Sources /\ tx[i].seq <= sequence[tx[i].source]
    BY TransactionIs DEF Numbers
  <2>5. sequence'[s] = t.seq
    BY <1>0, <2>1
  <2>6. \A i \in DOMAIN tx : tx[i].source = s => tx[i].seq < t.seq
    BY <2>1, <2>3, <2>4, BuilderAssumption
  <2>7. SequenceNumbersDistinct'
    BY <2>1, <2>2, <2>3, <2>4, <2>6 DEF Numbers, SequenceNumbersDistinct
  <2>8. s \in InUse
    BY <2>1 DEF InUse, Unused
  <2>9. InUse' = InUse
    BY <2>1 DEF InUse, Unused
  <2>10. \A i \in DOMAIN tx' : tx'[i].source # None =>
           tx'[i].seq <= sequence'[tx'[i].source] /\ tx'[i].source \in InUse'
    <3>1. ASSUME NEW i \in DOMAIN tx, tx[i].source # None
          PROVE  tx[i].seq <= sequence'[tx[i].source] /\ tx[i].source \in InUse'
      <4>1. /\ tx[i].source \in Sources /\ tx[i].seq <= sequence[tx[i].source]
            /\ tx[i].source \in InUse /\ tx[i].seq \in Int
        BY <2>4, <3>1 DEF Numbers
      <4>2. sequence'[tx[i].source] \in Int
        BY <1>0, <2>1, <4>1
      <4>3. QED
        BY <2>3, <2>9, <4>1, <4>2
    <3>2. t.seq <= sequence'[t.source] /\ t.source \in InUse'
      BY <2>1, <2>3, <2>5, <2>8, <2>9
    <3>3. QED
      BY <2>2, <3>1, <3>2
  <2>11. QED
    BY <2>1, <2>7, <2>10 DEF Numbers
<1>4. ASSUME NEW b \in Builders, BuildThrows(b)
      PROVE  Numbers'
  <2>1. /\ builder[b].source \in Sources
        /\ sequence' = [sequence EXCEPT ![builder[b].source] = @ + 1]
        /\ UNCHANGED <<builder, tx>>
    BY <1>4, BuilderIs DEF BuildThrows
  <2>2. \A a \in Sources : sequence[a] \in Int /\ sequence[a] <= sequence'[a]
    BY <1>0, <2>1
  <2>3. \A i \in DOMAIN tx :
          tx[i].seq \in Int /\ (tx[i].source # None => tx[i].source \in Sources)
    BY TransactionIs
  <2>4. InUse' = InUse
    BY <2>1 DEF InUse, Unused
  <2>5. \A i \in DOMAIN tx : tx[i].source # None =>
          tx[i].seq <= sequence'[tx[i].source] /\ tx[i].source \in InUse'
    <3>1. ASSUME NEW i \in DOMAIN tx, tx[i].source # None
          PROVE  tx[i].seq <= sequence'[tx[i].source] /\ tx[i].source \in InUse'
      <4>1. /\ tx[i].source \in Sources /\ tx[i].seq <= sequence[tx[i].source]
            /\ tx[i].source \in InUse /\ tx[i].seq \in Int
        BY <2>3, <3>1 DEF Numbers
      <4>2. sequence'[tx[i].source] \in Int
        BY <1>0, <2>1, <4>1
      <4>3. QED
        BY <2>2, <2>4, <4>1, <4>2
    <3>2. QED
      BY <3>1
  <2>6. QED
    BY <2>1, <2>5 DEF Numbers, SequenceNumbersDistinct
<1>5. ASSUME NEW b \in Builders, NEW k \in DOMAIN tx, NEW s \in Sources, CloneFrom(k, b, s)
      PROVE  Numbers'
  <2>1. PICK r \in BuilderRecs :
          /\ builder' = [builder EXCEPT ![b] = r] /\ r # None /\ builder[b] = None
          /\ r.of = k /\ r.source = s /\ Unused(s)
          /\ sequence' = [sequence EXCEPT ![s] = tx[k].seq - 1]
          /\ UNCHANGED tx
    BY <1>5, ClonedIs
  <2>2. \A i \in DOMAIN tx : tx[i].source # None =>
          /\ tx[i].source \in Sources /\ tx[i].source # s
          /\ tx[i].source \in InUse'
    <3>1. InUse \subseteq InUse'
      BY <1>0, <2>1 DEF InUse, Unused
    <3>2. s \notin InUse
      BY <2>1 DEF InUse
    <3>3. QED
      BY <3>1, <3>2, TransactionIs DEF Numbers
  <2>3. \A i \in DOMAIN tx : tx[i].source # None =>
          tx[i].seq <= sequence'[tx[i].source] /\ tx[i].source \in InUse'
    BY <1>0, <2>1, <2>2 DEF Numbers
  <2>4. k # None /\ s # Own
    BY <2>1, TransactionIs, BuilderAssumption DEF InUse, Unused
  <2>5. \A c \in Builders : c # b => builder'[c] = builder[c]
    BY <1>0, <2>1
  <2>6. builder'[b] = r
    BY <1>0, <2>1
  <2>7. \A c \in Builders : builder[c] # None => builder[c].source # s
    BY <2>1 DEF InUse, Unused
  <2>8. QED
    BY <2>1, <2>3, <2>4, <2>5, <2>6, <2>7 DEF Numbers, SequenceNumbersDistinct
<1>6. ASSUME Import
      PROVE  Numbers'
  <2>1. PICK t \in Transactions :
          /\ tx' = Append(tx, t) /\ t.source = None
          /\ UNCHANGED <<sequence, builder, bump, failures>>
    BY <1>6, ImportedIs
  <2>2. /\ DOMAIN tx' = DOMAIN tx \cup {Len(tx) + 1} /\ tx'[Len(tx) + 1] = t
        /\ \A i \in DOMAIN tx : tx'[i] = tx[i]
    BY <1>0, <2>1, Added
  <2>3. \A i \in DOMAIN tx : tx[i].source # None =>
          tx[i].seq <= sequence[tx[i].source] /\ tx[i].source \in InUse'
    BY <2>1 DEF Numbers, InUse, Unused
  <2>4. QED
    BY <2>1, <2>2, <2>3 DEF Numbers, SequenceNumbersDistinct
<1>7. QED
  BY <1>1, <1>2, <1>3, <1>4, <1>5, <1>6 DEF Next, Setting, Quiet

LEMMA NumbersHold == Spec => [](Shape /\ Numbers)
<1>1. Init => Shape /\ Numbers
  BY ShapeInit, NumbersInit
<1>2. (Shape /\ Numbers) /\ [Next]_vars => (Shape /\ Numbers)'
  BY ShapeStep, NumbersStep
<1>3. QED
  BY <1>1, <1>2, PTL DEF Spec

(* Whatever builders share an Account, clone transactions or throw, no two *)
(* transactions of an account have one number.                             *)
THEOREM DistinctSequenceNumbers == Spec => []SequenceNumbersDistinct
<1>1. Numbers => SequenceNumbersDistinct
  BY DEF Numbers
<1>2. QED
  BY <1>1, NumbersHold, PTL

-----------------------------------------------------------------------------
(* Holes. *)

(* How many transactions an account built; the numbers told with it.       *)
Count == [s \in Sources |-> Cardinality({i \in DOMAIN tx : tx[i].source = s})]
Balanced(s, first) == sequence[s] = first + Count[s] + failures[s]
Accounted ==
  /\ Balanced(Own, 1)
  /\ \A b \in Builders : builder[b] # None /\ builder[b].of # None =>
       Balanced(builder[b].source, tx[builder[b].of].seq - 1)

(* An account nobody has yet has not failed either.                        *)
Accounts ==
  /\ Accounted
  /\ \A s \in Sources \ InUse : failures[s] = 0

LEMMA AccountedIs == Shape /\ Accounted => EveryNumberAccountedFor
<1> SUFFICES ASSUME Shape, Accounted PROVE EveryNumberAccountedFor
  OBVIOUS
<1>1. \A s \in Sources : Count[s] = Cardinality(BuiltFrom(s))
  BY DEF Count, BuiltFrom
<1>2. Own \in Sources /\ \A b \in Builders : builder[b] # None => builder[b].source \in Sources
  BY BuilderIs, BuilderAssumption
<1>3. QED
  BY <1>1, <1>2 DEF Accounted, Balanced, EveryNumberAccountedFor

LEMMA BuiltFromFinite ==
  ASSUME Shape, NEW s \in Sources
  PROVE  IsFiniteSet(BuiltFrom(s)) /\ Count[s] = Cardinality(BuiltFrom(s)) /\ Count[s] \in Nat
<1>1. BuiltFrom(s) \subseteq 1..Len(tx) /\ Len(tx) \in Nat
  BY DEF Shape, BuiltFrom
<1>2. IsFiniteSet(1..Len(tx))
  BY <1>1, FS_Interval
<1>3. Count[s] = Cardinality(BuiltFrom(s))
  BY DEF Count, BuiltFrom
<1>4. QED
  BY <1>1, <1>2, <1>3, FS_Subset, FS_CardinalityType

LEMMA AccountsInit == Init => Accounts
<1> SUFFICES ASSUME Init PROVE Accounts
  OBVIOUS
<1>1. {i \in DOMAIN tx : tx[i].source = Own} = {}
  BY DEF Init
<1>2. Count[Own] = 0
  BY <1>1, FS_EmptySet, BuilderAssumption DEF Count
<1>3. QED
  BY <1>2, BuilderAssumption DEF Init, Accounts, Accounted, Balanced

LEMMA AccountsStep == Shape /\ Numbers /\ Accounts /\ [Next]_vars => Accounts'
<1> SUFFICES ASSUME Shape, Numbers, Accounts, [Next]_vars PROVE Accounts'
  OBVIOUS
<1>0. /\ builder \in [Builders -> BuilderRecs \cup {None}] /\ tx \in Seq(Transactions)
      /\ sequence \in [Sources -> Int] /\ failures \in [Sources -> Nat]
      /\ \A s \in Sources : Count[s] \in Nat
      /\ Own \in Sources
  BY BuiltFromFinite, BuilderAssumption DEF Shape
<1>a. Accounted /\ \A s \in Sources \ InUse : failures[s] = 0
  BY DEF Accounts
<1>b. \A b \in Builders : builder[b] # None =>
        /\ builder[b].source \in Sources
        /\ builder[b].of # None =>
             builder[b].of \in DOMAIN tx /\ tx[builder[b].of].seq \in Int
  BY BuilderIs, TransactionIs
<1>1. ASSUME NEW b \in Builders, NEW fee \in Fees, New(b, fee)
      PROVE  Accounts'
  <2>1. PICK r \in BuilderRecs :
          /\ builder[b] = None /\ r # None
          /\ builder' = [builder EXCEPT ![b] = r]
          /\ r.source = Own /\ r.of = None
          /\ UNCHANGED <<sequence, tx, bump, failures>>
    BY <1>1, NewIs
  <2>2. InUse \subseteq InUse'
    BY <1>0, <2>1 DEF InUse, Unused
  <2>3. Count' = Count
    BY <2>1 DEF Count
  <2>4. QED
    BY <1>0, <1>a, <2>1, <2>2, <2>3 DEF Accounts, Accounted, Balanced
<1>2. ASSUME Quiet
      PROVE  Accounts'
  <2>1. KeepsNumbers
    BY <1>2, QuietStep
  <2>2. InUse \subseteq InUse'
    BY <2>1 DEF InUse, Unused, KeepsNumbers
  <2>3. Count' = Count
    <3>1. \A s \in Sources : {i \in DOMAIN tx' : tx'[i].source = s}
                               = {i \in DOMAIN tx : tx[i].source = s}
      BY <2>1 DEF KeepsNumbers
    <3>2. QED
      BY <3>1 DEF Count
  <2>4. Accounted'
    BY <1>a, <1>b, <2>1, <2>3 DEF Accounted, Balanced, KeepsNumbers
  <2>5. QED
    BY <1>a, <2>1, <2>2, <2>4 DEF Accounts, KeepsNumbers
<1>3. ASSUME NEW b \in Builders, Build(b)
      PROVE  Accounts'
  <2> DEFINE t == BuiltBy(b)
             a == builder[b].source
  <2>1. /\ builder[b] # None /\ a \in Sources
        /\ tx' = Append(tx, t) /\ t \in Transactions
        /\ sequence' = [sequence EXCEPT ![a] = @ + 1]
        /\ t.source = a
        /\ UNCHANGED <<builder, bump, failures>>
    BY <1>3, BuiltIs, BuilderIs
  <2> HIDE DEF t
  <2>2. /\ DOMAIN tx' = DOMAIN tx \cup {Len(tx) + 1} /\ tx'[Len(tx) + 1] = t
        /\ Len(tx) + 1 \notin DOMAIN tx
        /\ \A i \in DOMAIN tx : tx'[i] = tx[i]
    BY <1>0, <2>1, Added
  <2>3. Count'[a] = Count[a] + 1
    <3>1. /\ {i \in DOMAIN tx' : tx'[i].source = a} = BuiltFrom(a) \cup {Len(tx) + 1}
          /\ Len(tx) + 1 \notin BuiltFrom(a)
      BY <2>1, <2>2 DEF BuiltFrom
    <3>2. Cardinality(BuiltFrom(a) \cup {Len(tx) + 1}) = Cardinality(BuiltFrom(a)) + 1
      BY <2>1, <3>1, BuiltFromFinite, FS_AddElement
    <3>3. Count'[a] = Cardinality(BuiltFrom(a) \cup {Len(tx) + 1})
      BY <2>1, <3>1 DEF Count
    <3>4. QED
      BY <2>1, <3>2, <3>3, BuiltFromFinite
  <2>4. \A s \in Sources : s # a => Count'[s] = Count[s]
    <3>1. \A s \in Sources : s # a =>
            {i \in DOMAIN tx' : tx'[i].source = s} = {i \in DOMAIN tx : tx[i].source = s}
      BY <2>1, <2>2
    <3>2. QED
      BY <3>1 DEF Count
  <2>5. \A s \in Sources, first \in Int :
          Balanced(s, first) => sequence'[s] = first + Count'[s] + failures[s]
    <3>1. /\ sequence'[a] = sequence[a] + 1
          /\ \A s \in Sources : s # a => sequence'[s] = sequence[s]
      BY <1>0, <2>1
    <3>2. \A s \in Sources : sequence[s] \in Int /\ failures[s] \in Nat /\ Count[s] \in Nat
      BY <1>0
    <3>3. QED
      BY <2>3, <2>4, <3>1, <3>2 DEF Balanced
  <2>6. Accounted'
    <3>1. (Balanced(Own, 1))'
      BY <1>0, <1>a, <2>1, <2>5 DEF Accounted, Balanced
    <3>2. ASSUME NEW c \in Builders, builder[c] # None, builder[c].of # None
          PROVE  sequence'[builder[c].source] = tx'[builder[c].of].seq - 1
                   + Count'[builder[c].source] + failures[builder[c].source]
      <4>1. /\ Balanced(builder[c].source, tx[builder[c].of].seq - 1)
            /\ builder[c].source \in Sources /\ tx[builder[c].of].seq - 1 \in Int
            /\ tx'[builder[c].of] = tx[builder[c].of]
        BY <1>a, <1>b, <2>2, <3>2 DEF Accounted
      <4>2. QED
        BY <2>5, <4>1
    <3>3. QED
      BY <2>1, <3>1, <3>2 DEF Accounted, Balanced
  <2>7. InUse' = InUse
    BY <2>1 DEF InUse, Unused
  <2>8. QED
    BY <1>a, <2>1, <2>6, <2>7 DEF Accounts
<1>4. ASSUME NEW b \in Builders, BuildThrows(b)
      PROVE  Accounts'
  <2> DEFINE a == builder[b].source
  <2>1. /\ builder[b] # None /\ a \in Sources
        /\ sequence' = [sequence EXCEPT ![a] = @ + 1]
        /\ failures' = [failures EXCEPT ![a] = @ + 1]
        /\ UNCHANGED <<builder, tx>>
    BY <1>4, BuilderIs DEF BuildThrows
  <2>2. \A s \in Sources, first \in Int :
          Balanced(s, first) => sequence'[s] = first + Count[s] + failures'[s]
    <3>1. /\ sequence'[a] = sequence[a] + 1 /\ failures'[a] = failures[a] + 1
          /\ \A s \in Sources : s # a => sequence'[s] = sequence[s] /\ failures'[s] = failures[s]
      BY <1>0, <2>1
    <3>2. \A s \in Sources : sequence[s] \in Int /\ failures[s] \in Nat /\ Count[s] \in Nat
      BY <1>0
    <3>3. QED
      BY <3>1, <3>2 DEF Balanced
  <2>3. Count' = Count
    BY <2>1 DEF Count
  <2>4. Accounted'
    <3>1. (Balanced(Own, 1))'
      BY <1>0, <1>a, <2>2, <2>3 DEF Accounted, Balanced
    <3>2. ASSUME NEW c \in Builders, builder[c] # None, builder[c].of # None
          PROVE  sequence'[builder[c].source] = tx[builder[c].of].seq - 1
                   + Count[builder[c].source] + failures'[builder[c].source]
      BY <1>a, <1>b, <2>2, <3>2 DEF Accounted
    <3>3. QED
      BY <2>1, <2>3, <3>1, <3>2 DEF Accounted, Balanced
  <2>5. InUse' = InUse /\ a \in InUse
    BY <2>1 DEF InUse, Unused
  <2>6. QED
    BY <1>0, <1>a, <2>1, <2>4, <2>5 DEF Accounts
<1>5. ASSUME NEW b \in Builders, NEW k \in DOMAIN tx, NEW s \in Sources, CloneFrom(k, b, s)
      PROVE  Accounts'
  <2>1. PICK r \in BuilderRecs :
          /\ builder' = [builder EXCEPT ![b] = r] /\ r # None /\ builder[b] = None
          /\ r.of = k /\ r.source = s /\ Unused(s)
          /\ sequence' = [sequence EXCEPT ![s] = tx[k].seq - 1]
          /\ UNCHANGED <<tx, failures>>
    BY <1>5, ClonedIs
  <2>2. s \notin InUse /\ s # Own /\ failures[s] = 0
    BY <1>a, <2>1 DEF InUse, Unused
  <2>3. Count[s] = 0
    <3>1. {i \in DOMAIN tx : tx[i].source = s} = {}
      BY <2>2, BuilderAssumption DEF Numbers
    <3>2. QED
      BY <3>1, FS_EmptySet DEF Count
  <2>4. sequence'[s] = tx[k].seq - 1 + Count[s] + failures[s]
    BY <1>0, <2>1, <2>2, <2>3, TransactionIs
  <2>5. \A c \in Builders : builder[c] # None => builder[c].source # s
    BY <2>1 DEF Unused
  <2>6. builder'[b] = r /\ \A c \in Builders : c # b => builder'[c] = builder[c]
    BY <1>0, <2>1
  <2>7. \A c \in Sources : c # s => sequence'[c] = sequence[c]
    BY <1>0, <2>1
  <2>8. Count' = Count
    BY <2>1 DEF Count
  <2>9. Accounted'
    <3>1. (Balanced(Own, 1))'
      BY <1>0, <1>a, <2>1, <2>2, <2>7, <2>8 DEF Accounted, Balanced
    <3>2. ASSUME NEW c \in Builders, builder'[c] # None, builder'[c].of # None
          PROVE  sequence'[builder'[c].source] = tx[builder'[c].of].seq - 1
                   + Count[builder'[c].source] + failures[builder'[c].source]
      <4>1. CASE c = b
        BY <2>1, <2>4, <2>6, <4>1
      <4>2. CASE c # b
        <5>1. builder'[c] = builder[c] /\ builder[c].source # s /\ builder[c].source \in Sources
          BY <1>b, <2>5, <2>6, <3>2, <4>2
        <5>2. sequence'[builder[c].source] = sequence[builder[c].source]
          BY <2>7, <5>1
        <5>3. QED
          BY <1>a, <3>2, <5>1, <5>2 DEF Accounted, Balanced
      <4>3. QED
        BY <4>1, <4>2
    <3>3. QED
      BY <2>1, <2>8, <3>1, <3>2 DEF Accounted, Balanced
  <2>10. InUse \subseteq InUse'
    BY <1>0, <2>1 DEF InUse, Unused
  <2>11. QED
    BY <1>a, <2>1, <2>9, <2>10 DEF Accounts
<1>6. ASSUME Import
      PROVE  Accounts'
  <2>1. PICK t \in Transactions :
          /\ tx' = Append(tx, t) /\ t.source = None
          /\ UNCHANGED <<sequence, builder, bump, failures>>
    BY <1>6, ImportedIs
  <2>2. /\ DOMAIN tx' = DOMAIN tx \cup {Len(tx) + 1} /\ tx'[Len(tx) + 1] = t
        /\ \A i \in DOMAIN tx : tx'[i] = tx[i]
    BY <1>0, <2>1, Added
  <2>3. Count' = Count
    <3>1. \A s \in Sources : {i \in DOMAIN tx' : tx'[i].source = s}
                               = {i \in DOMAIN tx : tx[i].source = s}
      BY <2>1, <2>2, BuilderAssumption
    <3>2. QED
      BY <3>1 DEF Count
  <2>4. Accounted'
    BY <1>0, <1>a, <1>b, <2>1, <2>2, <2>3 DEF Accounted, Balanced
  <2>5. InUse' = InUse
    BY <2>1 DEF InUse, Unused
  <2>6. QED
    BY <1>a, <2>1, <2>4, <2>5 DEF Accounts
<1>7. QED
  BY <1>1, <1>2, <1>3, <1>4, <1>5, <1>6 DEF Next, Setting, Quiet

(* Every number an account moved past is in a transaction it built or was  *)
(* used up by a build() that threw.                                        *)
THEOREM NumbersAccountedFor == Spec => []EveryNumberAccountedFor
<1>1. Init => Shape /\ Numbers /\ Accounts
  BY ShapeInit, NumbersInit, AccountsInit
<1>2. (Shape /\ Numbers /\ Accounts) /\ [Next]_vars => (Shape /\ Numbers /\ Accounts)'
  BY ShapeStep, NumbersStep, AccountsStep
<1>3. Shape /\ Accounts => EveryNumberAccountedFor
  BY AccountedIs DEF Accounts
<1>4. QED
  BY <1>1, <1>2, <1>3, PTL DEF Spec

-----------------------------------------------------------------------------
(* Fees. *)

(* Division drops less than one part for each.                             *)
LEMMA Division ==
  ASSUME NEW m \in Nat, NEW n \in Nat, n # 0
  PROVE  /\ m \div n \in Nat
         /\ (m \div n) * n <= m /\ m < (m \div n) * n + n
  OBVIOUS

LEMMA Larger ==
  ASSUME NEW m \in Nat, NEW n \in Nat, NEW k \in Nat, m <= n
  PROVE  m * k <= n * k
  OBVIOUS

(* A builder made by cloneFrom() keeps the fee it was given, and so does   *)
(* each transaction it builds.                                             *)
CloneFees ==
  /\ \A b \in Builders : builder[b] # None /\ builder[b].of # None =>
       builder[b].fee = FeePerOperation(tx[builder[b].of])
  /\ \A i \in DOMAIN tx : tx[i].of # None =>
       tx[i].fee = FeePerOperation(tx[tx[i].of]) * tx[i].ops

LEMMA CloneFeesInit == Init => CloneFees
  BY DEF Init, CloneFees

(* While the transactions there are keep their fees and operations, so do  *)
(* the clones of them.                                                     *)
LEMMA CloneFeesStep == Shape /\ CloneFees /\ [Next]_vars => CloneFees'
<1> SUFFICES ASSUME Shape, CloneFees, [Next]_vars PROVE CloneFees'
  OBVIOUS
<1>0. builder \in [Builders -> BuilderRecs \cup {None}] /\ tx \in Seq(Transactions)
  BY DEF Shape
<1>a. /\ \A b \in Builders : builder[b] # None => builder[b].of \in DOMAIN tx \cup {None}
      /\ \A i \in DOMAIN tx : tx[i].of \in DOMAIN tx \cup {None}
  <2>1. \A i \in DOMAIN tx : i \in Nat /\ 1..(i - 1) \subseteq DOMAIN tx
    BY DEF Shape
  <2>2. QED
    BY <2>1 DEF Shape
<1>1. ASSUME NEW b \in Builders, NEW fee \in Fees, New(b, fee)
      PROVE  CloneFees'
  <2>1. PICK r \in BuilderRecs :
          builder' = [builder EXCEPT ![b] = r] /\ r.of = None /\ UNCHANGED tx
    BY <1>1, NewIs
  <2>2. QED
    BY <1>0, <2>1 DEF CloneFees
<1>2. ASSUME Quiet
      PROVE  CloneFees'
  <2>1. KeepsNumbers
    BY <1>2, QuietStep
  <2>2. \A i \in DOMAIN tx : FeePerOperation(tx'[i]) = FeePerOperation(tx[i])
    BY <2>1 DEF KeepsNumbers, FeePerOperation
  <2>3. QED
    BY <1>a, <2>1, <2>2 DEF CloneFees, KeepsNumbers
<1>3. ASSUME NEW t, tx' = Append(tx, t), t \in Transactions, UNCHANGED builder,
             t.of # None => /\ t.of \in DOMAIN tx
                            /\ t.fee = FeePerOperation(tx[t.of]) * t.ops
      PROVE  CloneFees'
  <2>1. /\ DOMAIN tx' = DOMAIN tx \cup {Len(tx) + 1} /\ tx'[Len(tx) + 1] = t
        /\ \A i \in DOMAIN tx : tx'[i] = tx[i]
    BY <1>0, <1>3, Added
  <2>2. QED
    BY <1>a, <1>3, <2>1 DEF CloneFees
<1>4. ASSUME NEW b \in Builders, Build(b)
      PROVE  CloneFees'
  <2>1. /\ tx' = Append(tx, BuiltBy(b)) /\ BuiltBy(b) \in Transactions /\ UNCHANGED builder
        /\ BuiltBy(b).of = builder[b].of /\ builder[b] # None
        /\ BuiltBy(b).fee = builder[b].fee * builder[b].ops
        /\ BuiltBy(b).ops = builder[b].ops
    BY <1>4, BuiltIs
  <2>2. QED
    BY <1>3, <1>a, <2>1 DEF CloneFees
<1>5. ASSUME NEW b \in Builders, BuildThrows(b)
      PROVE  CloneFees'
  BY <1>5 DEF BuildThrows, CloneFees
<1>6. ASSUME NEW b \in Builders, NEW k \in DOMAIN tx, NEW s \in Sources, CloneFrom(k, b, s)
      PROVE  CloneFees'
  <2>1. PICK r \in BuilderRecs :
          /\ builder' = [builder EXCEPT ![b] = r] /\ UNCHANGED tx
          /\ r.of = k /\ r.fee = FeePerOperation(tx[k])
    BY <1>6, ClonedIs
  <2>2. QED
    BY <1>0, <2>1 DEF CloneFees
<1>7. ASSUME Import
      PROVE  CloneFees'
  BY <1>3, <1>7, ImportedIs
<1>8. QED
  BY <1>1, <1>2, <1>4, <1>5, <1>6, <1>7 DEF Next, Setting, Quiet

(* A clone with as many operations costs no more than the original, and    *)
(* less than a stroop less for each operation.                             *)
THEOREM ClonesCostNoMore == Spec => []CloneCostsNoMore
<1>1. Init => Shape /\ CloneFees
  BY ShapeInit, CloneFeesInit
<1>2. (Shape /\ CloneFees) /\ [Next]_vars => (Shape /\ CloneFees)'
  BY ShapeStep, CloneFeesStep
<1>3. Shape /\ CloneFees => CloneCostsNoMore
  <2> SUFFICES ASSUME Shape, CloneFees, NEW i \in DOMAIN tx, tx[i].of # None, tx[i].ops > 0,
                      tx[i].ops = tx[tx[i].of].ops
               PROVE  /\ tx[i].fee <= tx[tx[i].of].fee
                      /\ tx[tx[i].of].fee < tx[i].fee + tx[i].ops
    BY DEF CloneCostsNoMore
  <2> DEFINE k == tx[i].of
  <2>1. k \in DOMAIN tx /\ tx[i].ops \in Nat
    BY TransactionIs DEF Shape
  <2>2. tx[k].fee \in Nat /\ tx[k].ops \in Nat /\ tx[k].ops # 0
    BY <2>1, TransactionIs
  <2>3. tx[i].fee = (tx[k].fee \div tx[k].ops) * tx[k].ops
    BY <2>2 DEF CloneFees, FeePerOperation
  <2>4. QED
    BY <2>2, <2>3, Division
<1>4. QED
  BY <1>1, <1>2, <1>3, PTL DEF Spec

(* A fee bump keeps what it was made with: more than the inner fee, the    *)
(* hash of what it sends, and signatures over that hash.                   *)
BumpInv ==
  \A n \in DOMAIN bump :
    /\ bump[n].fee > bump[n].inner.fee
    /\ bump[n].hash = WrappedBody(bump[n])
    /\ bump[n].sigs \in Seq([key : Keys, over : {bump[n].hash}])

(* The heart of BumpPaysMoreThanInner: with at most as many operations as  *)
(* the least base fee has stroops, one more operation at the base fee      *)
(* makes up for what the division drops.                                   *)
LEMMA LeastBaseFeeSuffices ==
  ASSUME NEW fee \in Nat, NEW soroban \in Nat, NEW ops \in Nat, NEW base \in Nat,
         ops # 0, ops <= base,
         fee < soroban \/ (fee - soroban) \div ops <= base
  PROVE  base * (ops + 1) + soroban > fee
<1>1. base * (ops + 1) = base * ops + base /\ base * ops \in Nat /\ base > 0
  BY Products
<1>2. CASE fee < soroban
  BY <1>1, <1>2
<1>3. CASE fee >= soroban /\ (fee - soroban) \div ops <= base
  <2> DEFINE rate == (fee - soroban) \div ops
  <2>1. fee - soroban \in Nat
    BY <1>3
  <2>2. rate \in Nat /\ fee - soroban < rate * ops + ops
    BY <2>1, Division
  <2> HIDE DEF rate
  <2>3. rate <= base
    BY <1>3 DEF rate
  <2>4. rate * ops <= base * ops /\ rate * ops \in Nat
    BY <2>2, <2>3, Larger, Products
  <2>5. QED
    BY <1>1, <2>1, <2>2, <2>4
<1>4. QED
  BY <1>2, <1>3

LEMMA BumpInvStep == Shape /\ BumpInv /\ [Next]_vars => BumpInv'
<1> SUFFICES ASSUME Shape, BumpInv, [Next]_vars PROVE BumpInv'
  OBVIOUS
<1>0. bump \in Seq(FeeBumps)
  BY DEF Shape
<1>1. ASSUME NEW i \in DOMAIN tx, NEW base \in Fees, Wrap(i, base)
      PROVE  BumpInv'
  <2> DEFINE e == Wrapped(i, base)
             t == tx[i]
  <2>1. /\ bump' = Append(bump, e) /\ e \in FeeBumps
        /\ t.ops # 0 /\ base \in Nat /\ base >= LeastBaseFee(t)
        /\ e.inner = Body(t) /\ e.fee = base * (t.ops + 1) + t.soroban
        /\ e.sigs = <<>> /\ e.hash = WrappedBody(e)
    BY <1>1, WrappedIs
  <2> HIDE DEF e
  <2>2. /\ t.fee \in Nat /\ t.ops \in Nat /\ t.soroban \in Nat /\ t.ops <= MaxOps
        /\ e.inner.fee = t.fee
    BY <2>1, TransactionIs DEF Body
  <2>3. t.fee < t.soroban \/ InnerRate(t) = (t.fee - t.soroban) \div t.ops
    BY DEF InnerRate
  <2>4. InnerRate(t) \in Int
    <3>1. CASE t.fee < t.soroban
      BY <3>1 DEF InnerRate
    <3>2. CASE ~(t.fee < t.soroban)
      <4>1. t.fee - t.soroban \in Nat
        BY <2>2, <3>2
      <4>2. (t.fee - t.soroban) \div t.ops \in Nat
        BY <2>1, <2>2, <4>1, Division
      <4>3. QED
        BY <3>2, <4>2 DEF InnerRate
    <3>3. QED
      BY <3>1, <3>2
  <2>5. InnerRate(t) <= base /\ MinBaseFee <= base
    BY <2>1, <2>4, BuilderAssumption DEF LeastBaseFee
  <2>6. t.ops <= base
    BY <2>1, <2>2, <2>5, BuilderAssumption
  <2>7. e.fee > e.inner.fee
    BY <2>1, <2>2, <2>3, <2>5, <2>6, LeastBaseFeeSuffices
  <2>8. e.sigs \in Seq([key : Keys, over : {e.hash}])
    BY <2>1
  <2>9. /\ DOMAIN bump' = DOMAIN bump \cup {Len(bump) + 1} /\ bump'[Len(bump) + 1] = e
        /\ \A n \in DOMAIN bump : bump'[n] = bump[n]
    BY <1>0, <2>1, Added
  <2>10. QED
    BY <2>1, <2>7, <2>8, <2>9 DEF BumpInv
<1>2. ASSUME NEW n \in DOMAIN bump, SignShown(n) \/ SignBump(n)
      PROVE  BumpInv'
  <2>1. PICK e \in FeeBumps :
          /\ bump' = [bump EXCEPT ![n] = e]
          /\ e.fee = bump[n].fee /\ e.inner = bump[n].inner
          /\ e.innerSigs = bump[n].innerSigs /\ e.hash = bump[n].hash
          /\ bump[n].sigs \in Seq([key : Keys, over : {bump[n].hash}])
               => e.sigs \in Seq([key : Keys, over : {bump[n].hash}])
    BY <1>2, SignBumpIs
  <2>2. WrappedBody(e) = WrappedBody(bump[n])
    BY <2>1 DEF WrappedBody
  <2>3. /\ DOMAIN bump' = DOMAIN bump /\ bump'[n] = e
        /\ \A k \in DOMAIN bump : k # n => bump'[k] = bump[k]
    BY <1>0, <2>1, Replaced
  <2>4. QED
    BY <2>1, <2>2, <2>3 DEF BumpInv
<1>3. ASSUME UNCHANGED bump
      PROVE  BumpInv'
  BY <1>3 DEF BumpInv
<1>4. ASSUME NEW b \in Builders,
             \/ \E fee \in Fees : New(b, fee)
             \/ Build(b) \/ BuildThrows(b)
             \/ \E i \in DOMAIN tx, s \in Sources : CloneFrom(i, b, s)
      PROVE  UNCHANGED bump
  BY <1>4 DEF New, Build, BuildThrows, CloneFrom
<1>5. ASSUME NEW b \in Builders, Setting(b)
      PROVE  UNCHANGED bump
  BY <1>5, SettingStep
<1>6. ASSUME Import \/ UNCHANGED vars \/ \E i \in DOMAIN tx : Sign(i)
      PROVE  UNCHANGED bump
  BY <1>6 DEF Import, Sign, vars
<1>7. QED
  BY <1>1, <1>2, <1>3, <1>4, <1>5, <1>6 DEF Next, Setting

LEMMA BumpInvHolds == Spec => [](Shape /\ BumpInv)
<1>1. Init => Shape /\ BumpInv
  BY ShapeInit DEF Init, BumpInv
<1>2. (Shape /\ BumpInv) /\ [Next]_vars => (Shape /\ BumpInv)'
  BY ShapeStep, BumpInvStep
<1>3. QED
  BY <1>1, <1>2, PTL DEF Spec

(* A fee bump pays more in total than the transaction it wraps.            *)
THEOREM BumpsPayMore == Spec => []BumpPaysMoreThanInner
<1>1. BumpInv => BumpPaysMoreThanInner
  BY DEF BumpInv, BumpPaysMoreThanInner
<1>2. QED
  BY <1>1, BumpInvHolds, PTL

(* The hash of a fee bump, and each signature over it, is that of what it  *)
(* sends, whatever is signed before or after.                              *)
THEOREM BumpHashesHold == Spec => []BumpHashIsOfWhatIsSent
<1>1. Shape /\ BumpInv => BumpHashIsOfWhatIsSent
  <2> SUFFICES ASSUME BumpInv, NEW n \in DOMAIN bump
               PROVE  /\ bump[n].hash = WrappedBody(bump[n])
                      /\ \A i \in DOMAIN bump[n].sigs :
                           bump[n].sigs[i].over = WrappedBody(bump[n])
    BY DEF BumpHashIsOfWhatIsSent
  <2>1. /\ bump[n].hash = WrappedBody(bump[n])
        /\ bump[n].sigs \in Seq([key : Keys, over : {bump[n].hash}])
    BY DEF BumpInv
  <2> DEFINE S == [key : Keys, over : {bump[n].hash}]
  <2>a. \A q \in Seq(S) : \A i \in DOMAIN q : q[i] \in S
    <3> HIDE DEF S
    <3>1. QED
      OBVIOUS
  <2>2. \A i \in DOMAIN bump[n].sigs : bump[n].sigs[i] \in [key : Keys, over : {bump[n].hash}]
    BY <2>1, <2>a
  <2>3. QED
    BY <2>1, <2>2
<1>2. QED
  BY <1>1, BumpInvHolds, PTL

-----------------------------------------------------------------------------
(* The refinement of SequenceNumbers: what a step does to the accounts and *)
(* to the numbers that are held is nothing, or one of its actions.         *)

LEMMA SameHeld ==
  ASSUME LastNumbers' = LastNumbers,
         DOMAIN tx' = DOMAIN tx,
         \A i \in DOMAIN tx : tx'[i].seq = tx[i].seq /\ tx'[i].source = tx[i].source
  PROVE  UNCHANGED Handed!numberVars
<1>1. HeldNumbers' = HeldNumbers
  BY DEF HeldNumbers
<1>2. QED
  BY <1>1 DEF Handed!numberVars

(* An account that moves by one while its builders stay.                   *)
LEMMA LastMoves ==
  ASSUME Shape, NEW b \in Builders, builder[b] # None, builder' = builder,
         sequence' = [sequence EXCEPT ![builder[b].source] = @ + 1]
  PROVE  /\ LastNumbers[builder[b].source] \in Int
         /\ LastNumbers[builder[b].source] = sequence[builder[b].source]
         /\ LastNumbers' = [LastNumbers EXCEPT ![builder[b].source] = @ + 1]
<1>1. /\ builder[b].source \in Sources /\ ~Unused(builder[b].source)
      /\ sequence[builder[b].source] \in Int
  BY BuilderIs DEF Unused, Shape
<1>2. \A s \in Sources : Unused(s)' = Unused(s)
  BY DEF Unused
<1>3. \A s \in Sources : s # builder[b].source => sequence'[s] = sequence[s]
  BY <1>1 DEF Shape
<1>4. sequence'[builder[b].source] = sequence[builder[b].source] + 1
  BY <1>1 DEF Shape
<1>5. QED
  BY <1>1, <1>2, <1>3, <1>4 DEF LastNumbers

LEMMA HandOutStep == Shape /\ [Next]_vars => [Handed!NumbersNext]_Handed!numberVars
<1> SUFFICES ASSUME Shape, [Next]_vars PROVE [Handed!NumbersNext]_Handed!numberVars
  OBVIOUS
<1>0. builder \in [Builders -> BuilderRecs \cup {None}] /\ tx \in Seq(Transactions)
        /\ sequence \in [Sources -> Int]
  BY DEF Shape
<1>1. ASSUME NEW b \in Builders, NEW fee \in Fees, New(b, fee)
      PROVE  UNCHANGED Handed!numberVars
  <2>1. PICK r \in BuilderRecs :
          /\ builder[b] = None /\ r # None
          /\ builder' = [builder EXCEPT ![b] = r]
          /\ r.source = Own /\ r.of = None
          /\ UNCHANGED <<sequence, tx, bump, failures>>
    BY <1>1, NewIs
  <2>2. \A s \in Sources : Unused(s)' = Unused(s)
    BY <1>0, <2>1 DEF Unused
  <2>3. LastNumbers' = LastNumbers
    BY <2>1, <2>2 DEF LastNumbers
  <2>4. QED
    BY <2>1, <2>3, SameHeld
<1>2. ASSUME Quiet
      PROVE  UNCHANGED Handed!numberVars
  <2>1. KeepsNumbers
    BY <1>2, QuietStep
  <2>2. \A s \in Sources : Unused(s)' = Unused(s)
    BY <2>1 DEF Unused, KeepsNumbers
  <2>3. LastNumbers' = LastNumbers
    BY <2>1, <2>2 DEF LastNumbers, KeepsNumbers
  <2>4. QED
    BY <2>1, <2>3, SameHeld DEF KeepsNumbers
<1>3. ASSUME NEW b \in Builders, Build(b)
      PROVE  Handed!NumbersNext
  <2> DEFINE t == BuiltBy(b)
             s == builder[b].source
             h == Len(tx) + 1
  <2>1. /\ builder[b] # None /\ s \in Sources /\ s # None
        /\ tx' = Append(tx, t) /\ t \in Transactions
        /\ sequence' = [sequence EXCEPT ![s] = @ + 1]
        /\ t.seq = sequence[s] + 1 /\ t.source = s
        /\ UNCHANGED <<builder, bump, failures>>
    BY <1>3, BuiltIs, BuilderIs, BuilderAssumption
  <2> HIDE DEF t
  <2>2. /\ DOMAIN tx' = DOMAIN tx \cup {h} /\ h \notin DOMAIN tx /\ tx'[h] = t
        /\ \A i \in DOMAIN tx : tx'[i] = tx[i]
    BY <1>0, <2>1, Added
  <2>3. h \in 1..MaxTxs
    BY <1>0, <1>3, BuilderAssumption DEF Build
  <2>4. HeldNumbers' = HeldNumbers \cup {[of |-> s, by |-> h, number |-> sequence[s] + 1]}
    BY <2>1, <2>2 DEF HeldNumbers
  <2>5. \A g \in HeldNumbers : g.by # h
    BY <2>2 DEF HeldNumbers
  <2>6. /\ LastNumbers[s] \in Int /\ LastNumbers[s] = sequence[s]
        /\ LastNumbers' = [LastNumbers EXCEPT ![s] = @ + 1]
    BY <2>1, LastMoves
  <2>7. Handed!Move(s) /\ Handed!HandOut(s, h)
    BY <2>4, <2>5, <2>6 DEF Handed!Move, Handed!HandOut
  <2>8. QED
    BY <2>1, <2>3, <2>7 DEF Handed!NumbersNext
<1>4. ASSUME NEW b \in Builders, BuildThrows(b)
      PROVE  Handed!NumbersNext
  <2> DEFINE s == builder[b].source
  <2>1. /\ builder[b] # None /\ s \in Sources
        /\ sequence' = [sequence EXCEPT ![s] = @ + 1]
        /\ UNCHANGED <<builder, tx>>
    BY <1>4, BuilderIs DEF BuildThrows
  <2>2. /\ LastNumbers[s] \in Int
        /\ LastNumbers' = [LastNumbers EXCEPT ![s] = @ + 1]
    BY <2>1, LastMoves
  <2>3. HeldNumbers' = HeldNumbers
    BY <2>1 DEF HeldNumbers
  <2>4. Handed!Move(s) /\ Handed!Waste
    BY <2>2, <2>3 DEF Handed!Move, Handed!Waste
  <2>5. QED
    BY <2>1, <2>4 DEF Handed!NumbersNext
<1>5. ASSUME NEW b \in Builders, NEW k \in DOMAIN tx, NEW s \in Sources, CloneFrom(k, b, s)
      PROVE  Handed!NumbersNext
  <2>1. PICK r \in BuilderRecs :
          /\ builder' = [builder EXCEPT ![b] = r] /\ r # None /\ builder[b] = None
          /\ r.source = s /\ Unused(s)
          /\ sequence' = [sequence EXCEPT ![s] = tx[k].seq - 1]
          /\ UNCHANGED tx
    BY <1>5, ClonedIs
  <2>2. /\ ~Unused(s)'
        /\ \A a \in Sources : a # s => Unused(a)' = Unused(a) /\ sequence'[a] = sequence[a]
    BY <1>0, <2>1 DEF Unused
  <2>3. sequence'[s] = tx[k].seq - 1 /\ tx[k].seq - 1 \in Int
    BY <1>0, <2>1, TransactionIs
  <2>4. /\ LastNumbers[s] = None /\ LastNumbers'[s] \in Int
        /\ LastNumbers' = [LastNumbers EXCEPT ![s] = LastNumbers'[s]]
    BY <2>1, <2>2, <2>3 DEF LastNumbers
  <2>5. HeldNumbers' = HeldNumbers
    BY <2>1 DEF HeldNumbers
  <2>6. Handed!Open(s)
    BY <2>4, <2>5 DEF Handed!Open
  <2>7. QED
    BY <2>6 DEF Handed!NumbersNext
<1>6. ASSUME Import
      PROVE  UNCHANGED Handed!numberVars
  <2>1. PICK t \in Transactions :
          /\ tx' = Append(tx, t) /\ t.source = None
          /\ UNCHANGED <<sequence, builder, bump, failures>>
    BY <1>6, ImportedIs
  <2>2. /\ DOMAIN tx' = DOMAIN tx \cup {Len(tx) + 1} /\ tx'[Len(tx) + 1] = t
        /\ \A i \in DOMAIN tx : tx'[i] = tx[i]
    BY <1>0, <2>1, Added
  <2>3. HeldNumbers' = HeldNumbers
    BY <2>1, <2>2 DEF HeldNumbers
  <2>4. LastNumbers' = LastNumbers
    BY <2>1 DEF LastNumbers, Unused
  <2>5. QED
    BY <2>3, <2>4 DEF Handed!numberVars
<1>7. QED
  BY <1>1, <1>2, <1>3, <1>4, <1>5, <1>6 DEF Next, Setting, Quiet

(* Whatever is built, thrown, cloned or imported, each account hands out   *)
(* its numbers one by one from where it starts, and never takes one back.  *)
THEOREM ImplementsNumbers == Spec => NumbersAreHandedOut
<1>1. Init => Handed!NumbersInit
  <2> SUFFICES ASSUME Init PROVE Handed!NumbersInit
    OBVIOUS
  <2>1. HeldNumbers = {}
    BY DEF Init, HeldNumbers
  <2>2. LastNumbers \in [Sources -> Int \cup {None}]
    BY DEF Init, LastNumbers
  <2>3. QED
    BY <2>1, <2>2 DEF Handed!NumbersInit
<1>2. QED
  BY <1>1, ShapeInit, ShapeStep, HandOutStep, PTL
  DEF Spec, NumbersAreHandedOut, Handed!NumbersSpec

=============================================================================
