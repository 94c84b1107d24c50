---------------------- MODULE ContractCallVersionProofs ----------------------
(***************************************************************************)
(* Proofs about the versions of the transaction in ContractCall: where a   *)
(* version comes from, what its signature covers, how many resource fees   *)
(* it pays, and that a caller who waits for each call sends what was       *)
(* built last.                                                             *)
(***************************************************************************)
EXTENDS ContractCallProofs, FiniteSetTheorems

USE DEF Active

-----------------------------------------------------------------------------
(* Where versions come from. *)

(* The calls that simulate, and where they are until they end.             *)
Simulating == {"build", "simulate"}
Early == {"account", "simulating", "preparing"}
EarlyOps == \A c \in Calls : call[c].pc \in Early => call[c].op \in Simulating

(* A step makes a version: of a build() or an import, of a simulation that *)
(* ends with it, or with a wallet's signature.                             *)
NewVersion(t) ==
  \/ t.sig = None /\ t.fees \in {0, 1}
  \/ \E c \in Calls : /\ call[c].pc = "preparing" /\ call'[c].pc = "done"
                      /\ call[c].tx \in Versions /\ t = Assemble(call[c].tx)
  \/ \E v \in Versions : t = [v EXCEPT !.sig = Body(v)]

Comes(t) == t = None \/ t \in Versions \/ NewVersion(t)

(* What a step of call c does to the calls. *)
Forward(c) ==
  /\ \A d \in Calls : d # c => call'[d] = call[d]
  /\ call[c].pc # "done"
  /\ call'[c].op = call[c].op \/ call[c].pc = "idle"
  /\ call'[c].pc \in Early => call'[c].op \in Simulating

ObjectsCome == \A o \in Objs : Comes(obj'[o].built) /\ Comes(obj'[o].signed)

LEMMA Known ==
  /\ \A o \in Objs : /\ Comes(obj[o].built) /\ Comes(obj[o].signed)
                     /\ Comes(TxToSend(o))
  /\ \A c \in Calls : Comes(call[c].tx)
  /\ UNCHANGED obj => ObjectsCome
BY DEF Comes, Versions, TxToSend, ObjectsCome

LEMMA VersionTypes == ASSUME TypeInv, NEW t \in Versions PROVE t \in Txs /\ t # None
BY DEF TypeInv, TypeOK, MaybeTx, Versions

LEMMA EndsForward ==
  ASSUME TypeInv, NEW c \in Calls, Active(c), NEW outcome, Ends(c, outcome)
  PROVE  Forward(c) /\ Comes(call'[c].tx)
<1>1. /\ \A d \in Calls : d # c => call'[d] = call[d]
      /\ call'[c].op = call[c].op /\ call'[c].pc = "done" /\ call'[c].tx = call[c].tx
  BY DEF Ends, TypeInv, TypeOK
<1>2. QED
  BY <1>1, Known DEF Forward, Early

LEMMA TakesForward ==
  ASSUME TypeInv, NEW c \in Calls, Active(c), NEW pc, NEW t, Takes(c, pc, t),
         Comes(t), pc \in Early => call[c].op \in Simulating
  PROVE  Forward(c) /\ Comes(call'[c].tx)
<1>1. /\ \A d \in Calls : d # c => call'[d] = call[d]
      /\ call'[c].op = call[c].op /\ call'[c].pc = pc /\ call'[c].tx = t
  BY DEF Takes, TypeInv, TypeOK
<1>2. QED
  BY <1>1 DEF Forward

LEMMA StartsForward ==
  ASSUME TypeInv, NEW c \in Calls, MayStart(c), NEW op, NEW o, NEW pc, NEW t,
         Starts(c, op, o, pc, t), Comes(t), pc \in Early => op \in Simulating
  PROVE  Forward(c) /\ Comes(call'[c].tx)
<1>1. /\ \A d \in Calls : d # c => call'[d] = call[d]
      /\ call'[c].op = op /\ call'[c].pc = pc /\ call'[c].tx = t
  BY DEF Starts, TypeInv, TypeOK
<1>2. QED
  BY <1>1 DEF Forward, MayStart

LEMMA StartComes ==
  ASSUME TypeInv, NEW c \in Calls, Start(c)
  PROVE  Forward(c) /\ Comes(call'[c].tx) /\ ObjectsCome
<1> USE Known
<1>0. Comes(None)
  BY DEF Comes
<1>1. CASE BuildWithOp(c)
  <2>1. /\ \A d \in Calls : d # c => call'[d] = call[d]
        /\ call[c].pc = "idle" /\ call'[c].pc = "done" /\ call'[c].tx = call[c].tx
    BY <1>1 DEF BuildWithOp, MayStart, TypeInv, TypeOK
  <2>2. QED
    BY <1>1, <2>1 DEF BuildWithOp, Forward, Early
<1>2. ASSUME NEW o \in Objs, BuildCall(c, o) \/ SimulateCall(c, o)
      PROVE  Forward(c) /\ Comes(call'[c].tx) /\ ObjectsCome
  BY <1>0, <1>2, StartsForward DEF BuildCall, SimulateCall, Simulating
<1>3. ASSUME NEW o \in Objs, SignCall(c, o) \/ SendCall(c, o) \/ PollCall(c, o)
      PROVE  Forward(c) /\ Comes(call'[c].tx) /\ ObjectsCome
  BY <1>3, StartsForward DEF SignCall, SendCall, PollCall, Early
<1>4. QED
  BY <1>1, <1>2, <1>3 DEF Start

LEMMA ContinueComes ==
  ASSUME TypeInv, EarlyOps, NEW c \in Calls, Continue(c)
  PROVE  Forward(c) /\ Comes(call'[c].tx) /\ ObjectsCome
<1> USE Known
<1>0. TypeOK
  BY DEF TypeInv
<1>1. Active(c) => call[c].obj \in Objs
  BY DEF TypeInv, Held, HoldsFor
<1>2. call[c].pc \in NeedsTx => call[c].tx \in Versions
  BY DEF TypeInv, Held, HoldsFor, Versions
<1>3. CASE BuildAccount(c)
  <2>1. PICK k \in {ledgerSeq, 0} :
          obj' = [obj EXCEPT ![call[c].obj] = [Absent EXCEPT !.built = NewTx(k)]]
    BY <1>3 DEF BuildAccount
  <2>2. Comes(NewTx(k)) /\ Comes(None)
    BY DEF Comes, NewVersion, NewTx
  <2>3. \A o \in Objs : /\ obj'[o].built \in {obj[o].built, NewTx(k)}
                        /\ obj'[o].signed \in {obj[o].signed, None}
    BY <1>0, <2>1 DEF TypeOK, Absent
  <2>4. Takes(c, "simulating", call[c].tx)
    BY <1>0, <1>3, GoesShape DEF BuildAccount
  <2>5. call[c].op \in Simulating /\ Active(c)
    BY <1>3 DEF BuildAccount, EarlyOps, Early
  <2>6. QED
    BY <2>2, <2>3, <2>4, <2>5, TakesForward DEF ObjectsCome
<1>4. CASE SimulationFails(c) \/ SimulationSucceeds(c)
  <2>1. Active(c) /\ call[c].op \in Simulating
    BY <1>4 DEF SimulationFails, SimulationSucceeds, EarlyOps, Early
  <2>2. PICK s \in {"error", "success"} :
          obj' = [obj EXCEPT ![call[c].obj].simulation = s]
    BY <1>4 DEF SimulationFails, SimulationSucceeds
  <2>3. \A o \in Objs : obj'[o].built = obj[o].built /\ obj'[o].signed = obj[o].signed
    BY <1>0, <2>2 DEF TypeOK
  <2>4. ObjectsCome
    BY <2>3 DEF ObjectsCome
  <2>5. CASE SimulationFails(c)
    BY <2>1, <2>4, <2>5, EndsForward DEF SimulationFails
  <2>6. CASE SimulationSucceeds(c)
    BY <1>0, <1>1, <2>1, <2>4, <2>6, GoesWithShape, TakesForward DEF SimulationSucceeds
  <2>7. QED
    BY <1>4, <2>5, <2>6
<1>5. CASE PrepareAnswers(c)
  <2>1. /\ Active(c) /\ call[c].pc = "preparing" /\ call[c].tx \in Versions
        /\ call'[c].pc = "done"
    BY <1>0, <1>2, <1>5 DEF PrepareAnswers, NeedsTx, Ends, TypeOK
  <2>2. Comes(Assemble(call[c].tx))
    BY <2>1 DEF Comes, NewVersion
  <2>3. \A o \in Objs : /\ obj'[o].signed = obj[o].signed
                        /\ obj'[o].built \in {obj[o].built, Assemble(call[c].tx)}
    BY <1>0, <1>5 DEF PrepareAnswers, TypeOK
  <2>4. QED
    BY <1>5, <2>1, <2>2, <2>3, EndsForward DEF PrepareAnswers, ObjectsCome
<1>6. CASE SignResolves(c)
  <2> DEFINE t == [call[c].tx EXCEPT !.sig = Body(call[c].tx)]
  <2>1. Active(c) /\ call[c].tx \in Versions
    BY <1>2, <1>6 DEF SignResolves, NeedsTx
  <2>2. Comes(t)
    BY <2>1 DEF Comes, NewVersion
  <2>3. \A o \in Objs : /\ obj'[o].signed \in {obj[o].signed, t}
                        /\ obj'[o].built \in {obj[o].built, t}
    BY <1>0, <1>6 DEF SignResolves, TypeOK
  <2>4. ObjectsCome
    BY <2>2, <2>3 DEF ObjectsCome
  <2>5. CASE Ends(c, "ok")
    BY <2>1, <2>4, <2>5, EndsForward
  <2>6. CASE Goes(c, "signed")
    BY <1>0, <2>1, <2>4, <2>6, GoesShape, TakesForward DEF Early
  <2>7. QED
    BY <1>6, <2>5, <2>6 DEF SignResolves
<1>7. CASE PrepareFails(c) \/ SubmitFails(c) \/ SubmitLost(c) \/ AskFound(c)
  <2>1. Active(c) /\ obj' = obj /\ \E outcome : Ends(c, outcome)
    BY <1>7 DEF PrepareFails, SubmitFails, SubmitLost, AskFound
  <2>2. QED
    BY <2>1, EndsForward
<1>8. CASE SendSigned(c)
  BY <1>0, <1>1, <1>8, GoesWithShape, TakesForward DEF SendSigned, Early
<1>9. CASE SubmitAccepted(c) \/ SubmitPolledAnyway(c) \/ Wake(c)
  <2>1. /\ Active(c) /\ obj' = obj
        /\ \E pc \in {"sleeping", "asking"} : Goes(c, pc)
    BY <1>9 DEF SubmitAccepted, SubmitPolledAnyway, Wake
  <2>2. QED
    BY <1>0, <2>1, GoesShape, TakesForward DEF Early
<1>10. CASE AskNotFound(c)
  <2>1. /\ \A d \in Calls : d # c => call'[d] = call[d]
        /\ call[c].pc = "asking" /\ call'[c].pc \in {"done", "sleeping"}
        /\ call'[c].op = call[c].op /\ call'[c].tx = call[c].tx /\ obj' = obj
    BY <1>0, <1>10 DEF AskNotFound, TypeOK
  <2>2. QED
    BY <2>1 DEF Forward, Early
<1>11. CASE CallRejects(c) \/ EncodeRefuses(c)
  <2>1. Active(c) /\ \E outcome : Fails(c, outcome)
    BY <1>11 DEF CallRejects, EncodeRefuses
  <2>2. \A o \in Objs : /\ obj'[o].built \in {obj[o].built, None}
                        /\ obj'[o].signed \in {obj[o].signed, None}
    BY <1>0, <2>1 DEF Fails, TypeOK, Absent
  <2>3. QED
    BY <2>1, <2>2, EndsForward DEF Fails, ObjectsCome, Comes
<1>12. QED
  BY <1>3, <1>4, <1>5, <1>6, <1>7, <1>8, <1>9, <1>10, <1>11 DEF Continue

(* A step of a call, or one that leaves the calls alone.                   *)
LEMMA StepComes ==
  ASSUME TypeInv, EarlyOps, [Next]_vars
  PROVE  /\ call' = call \/ \E c \in Calls : Forward(c) /\ Comes(call'[c].tx)
         /\ ObjectsCome
<1> USE Known
<1>0. TypeOK
  BY DEF TypeInv
<1>1. ASSUME NEW c \in Calls, Start(c) \/ Continue(c)
      PROVE  Forward(c) /\ Comes(call'[c].tx) /\ ObjectsCome
  BY <1>1, StartComes, ContinueComes
<1>2. ASSUME NEW o \in Objs, Import(o) PROVE call' = call /\ ObjectsCome
  <2>1. PICK fees \in {0, 1} :
          obj' = [obj EXCEPT ![o] = FromXDR([seq |-> ledgerSeq + 1, soroban |-> TRUE,
                                             fees |-> fees, sig |-> None])]
    BY <1>2 DEF Import
  <2> DEFINE t == [seq |-> ledgerSeq + 1, soroban |-> TRUE, fees |-> fees, sig |-> None]
  <2>2. Comes(t) /\ Comes(None)
    BY DEF Comes, NewVersion
  <2>3. \A p \in Objs : /\ obj'[p].built \in {obj[p].built, t}
                        /\ obj'[p].signed \in {obj[p].signed, None}
    BY <1>0, <2>1 DEF TypeOK, FromXDR
  <2>4. QED
    BY <1>2, <2>2, <2>3 DEF ObjectsCome, Import
<1>3. ASSUME NEW o \in Objs, NEW p \in Objs, Copy(o, p) PROVE call' = call /\ ObjectsCome
  <2>1. PICK v \in {FromXDR(obj[o].built), FromJSON(ToJSON(o))} :
          obj' = [obj EXCEPT ![p] = v]
    BY <1>3 DEF Copy
  <2>2. \A q \in Objs : /\ obj'[q].built \in {obj[q].built, obj[o].built}
                        /\ obj'[q].signed \in {obj[q].signed, None}
    <3>1. v.built = obj[o].built /\ v.signed = None
      BY DEF FromXDR, FromJSON, ToJSON
    <3>2. QED
      BY <1>0, <2>1, <3>1 DEF TypeOK
  <2>3. QED
    BY <1>3, <2>2 DEF ObjectsCome, Copy, Comes
<1>4. CASE (\E b \in pool : Close(b) \/ Drop(b)) \/ OtherClient \/ UNCHANGED vars
  BY <1>4 DEF Close, Drop, OtherClient, vars
<1>5. QED
  BY <1>1, <1>2, <1>3, <1>4 DEF Next

LEMMA VersionsStep ==
  ASSUME TypeInv, EarlyOps, [Next]_vars, NEW t \in Versions'
  PROVE  t \in Versions \/ NewVersion(t)
<1>1. \A c \in Calls : Comes(call'[c].tx)
  BY StepComes, Known DEF Forward
<1>2. QED
  BY <1>1, StepComes DEF ObjectsCome, Comes, Versions

LEMMA EarlyOpsStep ==
  ASSUME TypeInv, EarlyOps, [Next]_vars
  PROVE  EarlyOps'
BY StepComes DEF EarlyOps, Forward

LEMMA EarlyOpsInit == Init => EarlyOps
BY DEF Init, Idle, EarlyOps, Early

-----------------------------------------------------------------------------
(* Signatures.  Assembling drops the signature, and a wallet signs the     *)
(* version it puts its signature on.                                       *)
SignatureInv == TypeInv /\ EarlyOps /\ SignatureCoversVersion

LEMMA SignatureInvStep == SignatureInv /\ [Next]_vars => SignatureInv'
<1> SUFFICES ASSUME SignatureInv, [Next]_vars PROVE SignatureCoversVersion'
  BY TypeInvStep, EarlyOpsStep DEF SignatureInv
<1>1. TypeInv /\ EarlyOps
  BY DEF SignatureInv
<1>2. ASSUME NEW t \in Versions', t.sig # None PROVE t.sig = Body(t)
  <2>1. CASE t \in Versions
    BY <1>2, <2>1 DEF SignatureInv, SignatureCoversVersion
  <2>2. ASSUME NEW v \in Versions, t = Assemble(v) PROVE FALSE
    BY <1>1, <1>2, <2>2, VersionTypes DEF Assemble, Txs
  <2>3. ASSUME NEW v \in Versions, t = [v EXCEPT !.sig = Body(v)] PROVE t.sig = Body(t)
    BY <1>1, <2>3, VersionTypes DEF Body, Txs
  <2>4. QED
    BY <1>1, <1>2, <2>1, <2>2, <2>3, VersionsStep DEF NewVersion
<1>3. QED
  BY <1>2 DEF SignatureCoversVersion

(* A signature that is sent, or shown by an object or held by a call, is   *)
(* over the version that carries it, however calls overlap.                *)
THEOREM SignaturesCover == Spec => []SignatureCoversVersion
<1>1. Init => SignatureInv
  BY TypeInvInit, EarlyOpsInit
  DEF SignatureInv, Init, Absent, Idle, SignatureCoversVersion, Versions
<1>2. SignatureInv => SignatureCoversVersion
  BY DEF SignatureInv
<1>3. QED
  BY <1>1, <1>2, SignatureInvStep, PTL DEF Spec

-----------------------------------------------------------------------------
(* Resource fees.  Each simulation that has ended added at most one, and   *)
(* the calls that simulate are finitely many at any moment.                *)
Simulate == {c \in Calls : call[c].op \in Simulating}
Over == {c \in Simulate : call[c].pc = "done"}

FeeInv ==
  /\ TypeInv
  /\ EarlyOps
  /\ IsFiniteSet(Simulate)
  /\ \A t \in Versions : t.fees <= Cardinality(Over) + 1

LEMMA OverCount ==
  ASSUME IsFiniteSet(Simulate)
  PROVE  /\ IsFiniteSet(Over) /\ Cardinality(Over) \in Nat
         /\ Cardinality(Simulate) \in Nat
         /\ Cardinality(Over) <= Cardinality(Simulate)
<1>1. Over \in SUBSET Simulate
  BY DEF Over
<1>2. QED
  BY <1>1, FS_Subset, FS_CardinalityType

(* Calls that simulate begin one at a time, and what ended has ended.      *)
LEMMA SimulateStep ==
  ASSUME FeeInv, [Next]_vars
  PROVE  IsFiniteSet(Simulate)' /\ Over \subseteq Over'
<1>1. CASE call' = call
  BY <1>1 DEF FeeInv, Simulate, Over
<1>2. ASSUME NEW c \in Calls, Forward(c)
      PROVE  IsFiniteSet(Simulate)' /\ Over \subseteq Over'
  <2>1. Simulate' \in SUBSET (Simulate \cup {c})
    BY <1>2 DEF Simulate, Forward
  <2>2. IsFiniteSet(Simulate \cup {c})
    BY FS_AddElement DEF FeeInv
  <2>3. IsFiniteSet(Simulate')
    BY <2>1, <2>2, FS_Subset
  <2>4. Over \subseteq Over'
    BY <1>2 DEF Over, Simulate, Forward
  <2>5. QED
    BY <2>3, <2>4
<1>3. QED
  BY <1>1, <1>2, StepComes DEF FeeInv

LEMMA FeeInvStep == FeeInv /\ [Next]_vars => FeeInv'
<1> SUFFICES ASSUME FeeInv, [Next]_vars PROVE FeeInv'
  OBVIOUS
<1>1. TypeInv /\ EarlyOps /\ TypeInv' /\ EarlyOps'
  BY TypeInvStep, EarlyOpsStep DEF FeeInv
<1>2. IsFiniteSet(Simulate') /\ Over \subseteq Over'
  BY SimulateStep
<1> DEFINE n == Cardinality(Over)
           m == Cardinality(Over')
<1>3. IsFiniteSet(Over) /\ IsFiniteSet(Over') /\ n \in Nat /\ m \in Nat /\ n <= m
  <2>1. IsFiniteSet(Over) /\ n \in Nat
    BY OverCount DEF FeeInv
  <2>2. Over' \in SUBSET Simulate'
    BY DEF Over
  <2>3. IsFiniteSet(Over')
    BY <1>2, <2>2, FS_Subset
  <2>4. m \in Nat
    BY <2>3, FS_CardinalityType
  <2>5. Over \in SUBSET Over'
    BY <1>2
  <2>6. n <= m
    BY <2>3, <2>5, FS_Subset
  <2>7. QED
    BY <2>1, <2>3, <2>4, <2>6
<1>4. ASSUME NEW t \in Versions' PROVE t.fees <= m + 1
  <2>1. \A v \in Versions : v \in Txs /\ v.fees \in Nat /\ v.fees <= n + 1
    BY <1>1, VersionTypes DEF FeeInv, Txs
  <2>2. CASE t \in Versions
    BY <1>3, <2>1, <2>2
  <2>3. CASE t.fees \in {0, 1}
    BY <1>3, <2>3
  <2>4. ASSUME NEW c \in Calls, call[c].pc = "preparing", call'[c].pc = "done",
               call[c].tx \in Versions, t = Assemble(call[c].tx)
        PROVE  t.fees <= m + 1
    <3>1. t.fees = call[c].tx.fees + 1
      BY <2>1, <2>4 DEF Assemble, Txs
    <3>2. c \notin Over
      BY <2>4 DEF Over
    <3>3. c \in Over'
      <4>1. call[c].op \in Simulating
        BY <1>1, <2>4 DEF EarlyOps, Early
      <4>2. call'[c].op = call[c].op
        BY <1>1, <2>4, StepComes DEF Forward
      <4>3. QED
        BY <2>4, <4>1, <4>2 DEF Over, Simulate
    <3>4. Cardinality(Over \cup {c}) = n + 1
      BY <1>3, <3>2, FS_AddElement
    <3>5. Over \cup {c} \in SUBSET Over'
      BY <1>2, <3>3
    <3>6. n + 1 <= m
      BY <1>3, <3>4, <3>5, FS_Subset
    <3>7. QED
      BY <1>3, <2>1, <2>4, <3>1, <3>6
  <2>5. ASSUME NEW v \in Versions, t = [v EXCEPT !.sig = Body(v)]
        PROVE  t.fees <= m + 1
    <3>1. t.fees = v.fees
      BY <2>1, <2>5 DEF Txs
    <3>2. QED
      BY <1>3, <2>1, <3>1
  <2>6. QED
    BY <1>1, <2>2, <2>3, <2>4, <2>5, VersionsStep DEF NewVersion
<1>5. QED
  BY <1>1, <1>2, <1>4 DEF FeeInv

(* A version pays for at most one more resource fee than there were        *)
(* simulations, the one an imported envelope came with.                    *)
THEOREM OneFeeEach == Spec => []OneFeePerSimulation
<1>1. Init => FeeInv
  <2> SUFFICES ASSUME Init PROVE FeeInv
    OBVIOUS
  <2>1. Simulate = {} /\ Versions = {}
    BY DEF Init, Idle, Absent, Simulate, Simulating, Versions
  <2>2. QED
    BY <2>1, TypeInvInit, EarlyOpsInit, FS_EmptySet DEF FeeInv
<1>2. FeeInv => OneFeePerSimulation
  <2> SUFFICES ASSUME FeeInv, NEW t \in Versions PROVE t.fees <= Simulations + 1
    BY DEF OneFeePerSimulation
  <2>1. Simulations = Cardinality(Simulate)
    BY DEF Simulations, Simulate, Simulating
  <2>2. t.fees \in Nat /\ t.fees <= Cardinality(Over) + 1
    BY VersionTypes DEF FeeInv, Txs
  <2>3. QED
    BY <2>1, <2>2, OverCount DEF FeeInv
<1>3. QED
  BY <1>1, <1>2, FeeInvStep, PTL DEF Spec

-----------------------------------------------------------------------------
(* A caller who waits for each call, and does not simulate what is signed. *)
Waits == Overlap = FALSE /\ Resimulate = FALSE

(* One call at a time; an object that is signed is signed as it was built; *)
(* an object under simulation is not signed yet.                           *)
OrderlyInv ==
  /\ TypeInv
  /\ \A c, d \in Calls : Active(c) /\ Active(d) => c = d
  /\ \A o \in Objs : obj[o].signed # None => obj[o].signed = obj[o].built
  /\ \A c \in Calls : call[c].pc \in Early => obj[call[c].obj].signed = None
  /\ SendsWhatIsBuilt
SignedAsBuilt(o) == obj[o].signed # None => obj[o].signed = obj[o].built

(* What is left to show of a step of call c: the other calls are at rest.  *)
LEMMA OrderlyCall ==
  ASSUME OrderlyInv, TypeInv', NEW c \in Calls,
         \A d \in Calls : d # c => ~Active(d) /\ call'[d] = call[d],
         \A o \in Objs : SignedAsBuilt(o)',
         call'[c].pc \in Early => obj'[call'[c].obj].signed = None,
         call'[c].pc = "submitting" => call'[c].tx = obj'[call'[c].obj].built
  PROVE  OrderlyInv'
<1>1. \A d \in Calls : call'[d].pc \notin {"idle", "done"} => d = c
  OBVIOUS
<1>2. QED
  BY <1>1 DEF OrderlyInv, SendsWhatIsBuilt, SignedAsBuilt, Early

(* A call ends, or goes on to wait, and leaves the objects alone.          *)
LEMMA OrderlyWait ==
  ASSUME OrderlyInv, TypeInv', NEW c \in Calls, obj' = obj,
         \A d \in Calls : d # c => ~Active(d) /\ call'[d] = call[d],
         call'[c].pc \notin Early \cup {"submitting"}
  PROVE  OrderlyInv'
BY OrderlyCall DEF OrderlyInv, SignedAsBuilt

LEMMA StartOrderly ==
  ASSUME Waits, OrderlyInv, TypeInv', NEW c \in Calls, Start(c)
  PROVE  OrderlyInv'
<1>0. TypeInv /\ TypeOK /\ \A o \in Objs : SignedAsBuilt(o)
  BY DEF OrderlyInv, TypeInv, SignedAsBuilt
<1>1. MayStart(c) /\ obj' = obj /\ \A o \in Objs : SignedAsBuilt(o)'
  BY <1>0 DEF Start, BuildWithOp, BuildCall, SimulateCall, SignCall, SendCall,
              PollCall, SignedAsBuilt
<1>2. \A d \in Calls : d # c => ~Active(d) /\ call'[d] = call[d]
  BY <1>0, <1>1, StartComes DEF MayStart, Waits, Forward
<1>3. CASE BuildWithOp(c)
  <2>1. call'[c].pc = "done"
    BY <1>0, <1>3 DEF BuildWithOp, TypeOK
  <2>2. QED
    BY <1>1, <1>2, <2>1, OrderlyWait DEF Early
<1>4. ASSUME NEW op, NEW o, NEW pc, NEW t, Starts(c, op, o, pc, t)
      PROVE  call'[c].obj = o /\ call'[c].pc = pc /\ call'[c].tx = t
  BY <1>0, <1>4 DEF Starts, TypeOK
<1>5. ASSUME NEW o \in Objs, BuildCall(c, o) \/ SimulateCall(c, o)
      PROVE  OrderlyInv'
  <2>1. obj[o].signed = None
    BY <1>5 DEF BuildCall, SimulateCall, Waits, NoObject, Absent
  <2>2. call'[c].obj = o /\ call'[c].pc \in Early
    BY <1>4, <1>5 DEF BuildCall, SimulateCall, Early
  <2>3. QED
    BY <1>1, <1>2, <2>1, <2>2, OrderlyCall DEF Early
<1>6. ASSUME NEW o \in Objs, SendCall(c, o) PROVE OrderlyInv'
  <2>1. /\ call'[c].obj = o /\ call'[c].pc = "submitting"
        /\ call'[c].tx = TxToSend(o)
    BY <1>4, <1>6 DEF SendCall
  <2>2. TxToSend(o) = obj[o].built
    BY <1>0 DEF TxToSend, SignedAsBuilt
  <2>3. QED
    BY <1>1, <1>2, <2>1, <2>2, OrderlyCall DEF Early
<1>7. ASSUME NEW o \in Objs, SignCall(c, o) \/ PollCall(c, o) PROVE OrderlyInv'
  <2>1. call'[c].pc \in {"signing", "asking"}
    BY <1>4, <1>7 DEF SignCall, PollCall
  <2>2. QED
    BY <1>1, <1>2, <2>1, OrderlyWait DEF Early
<1>8. QED
  BY <1>3, <1>5, <1>6, <1>7 DEF Start

LEMMA ContinueOrderly ==
  ASSUME Waits, OrderlyInv, TypeInv', EarlyOps, NEW c \in Calls, Continue(c)
  PROVE  OrderlyInv'
<1>0. /\ TypeInv /\ TypeOK /\ \A o \in Objs : SignedAsBuilt(o)
      /\ obj' = obj => \A o \in Objs : SignedAsBuilt(o)'
  BY DEF OrderlyInv, TypeInv, SignedAsBuilt
<1>1. Active(c)
  BY DEF Continue, BuildAccount, SimulationFails, SimulationSucceeds,
     PrepareAnswers, PrepareFails, SignResolves, SendSigned, SubmitAccepted,
     SubmitPolledAnyway, SubmitFails, SubmitLost, Wake, AskNotFound, AskFound,
     CallRejects, EncodeRefuses
<1>2. \A d \in Calls : d # c => ~Active(d) /\ call'[d] = call[d]
  BY <1>0, <1>1, ContinueComes DEF Forward, OrderlyInv
<1>3. call[c].obj \in Objs
  BY <1>0, <1>1 DEF TypeInv, Held, HoldsFor
<1>4. ASSUME NEW outcome, Ends(c, outcome) PROVE call'[c].pc = "done"
  BY <1>0, <1>4 DEF Ends, TypeOK
<1>5. ASSUME NEW pc, NEW t, Takes(c, pc, t)
      PROVE  call'[c].pc = pc /\ call'[c].tx = t /\ call'[c].obj = call[c].obj
  BY <1>0, <1>5 DEF Takes, TypeOK
<1>6. CASE BuildAccount(c)
  <2>1. PICK k \in {ledgerSeq, 0} :
          obj' = [obj EXCEPT ![call[c].obj] = [Absent EXCEPT !.built = NewTx(k)]]
    BY <1>6 DEF BuildAccount
  <2>2. /\ obj'[call[c].obj].signed = None
        /\ \A o \in Objs : o # call[c].obj => obj'[o] = obj[o]
    BY <1>0, <1>3, <2>1 DEF TypeOK, Absent
  <2>3. call'[c].pc = "simulating" /\ call'[c].obj = call[c].obj
    BY <1>0, <1>5, <1>6, GoesShape DEF BuildAccount
  <2>4. QED
    BY <1>0, <1>2, <2>2, <2>3, OrderlyCall DEF SignedAsBuilt
<1>7. CASE SimulationFails(c) \/ SimulationSucceeds(c)
  <2>1. PICK s \in {"error", "success"} :
          obj' = [obj EXCEPT ![call[c].obj].simulation = s]
    BY <1>7 DEF SimulationFails, SimulationSucceeds
  <2>2. \A o \in Objs : obj'[o].built = obj[o].built /\ obj'[o].signed = obj[o].signed
    BY <1>0, <2>1 DEF TypeOK
  <2>3. obj[call[c].obj].signed = None
    BY <1>7 DEF SimulationFails, SimulationSucceeds, OrderlyInv, Early
  <2>4. call'[c].pc = "done" \/ (call'[c].pc = "preparing" /\ call'[c].obj = call[c].obj)
    BY <1>0, <1>4, <1>5, <1>7, GoesWithShape DEF SimulationFails, SimulationSucceeds
  <2>5. QED
    BY <1>0, <1>2, <1>3, <2>2, <2>3, <2>4, OrderlyCall DEF SignedAsBuilt, Early
<1>8. CASE PrepareAnswers(c)
  <2>1. obj[call[c].obj].signed = None
    BY <1>8 DEF PrepareAnswers, OrderlyInv, Early
  <2>2. /\ \A o \in Objs : obj'[o].signed = obj[o].signed
        /\ \A o \in Objs : o # call[c].obj => obj'[o] = obj[o]
    BY <1>0, <1>8 DEF PrepareAnswers, TypeOK
  <2>3. call'[c].pc = "done"
    BY <1>4, <1>8 DEF PrepareAnswers
  <2>4. QED
    BY <1>0, <1>2, <2>1, <2>2, <2>3, OrderlyCall DEF SignedAsBuilt, Early
<1>9. CASE SignResolves(c)
  <2>1. /\ obj'[call[c].obj].signed = obj'[call[c].obj].built
        /\ \A o \in Objs : o # call[c].obj => obj'[o] = obj[o]
    BY <1>0, <1>3, <1>9 DEF SignResolves, TypeOK
  <2>2. call'[c].pc \in {"done", "signed"}
    BY <1>0, <1>4, <1>5, <1>9, GoesShape DEF SignResolves
  <2>3. QED
    BY <1>0, <1>2, <2>1, <2>2, OrderlyCall DEF SignedAsBuilt, Early
<1>10. CASE SendSigned(c)
  <2>1. /\ call'[c].pc = "submitting" /\ call'[c].obj = call[c].obj
        /\ call'[c].tx = TxToSend(call[c].obj) /\ obj' = obj
    BY <1>0, <1>5, <1>10, GoesWithShape DEF SendSigned
  <2>2. TxToSend(call[c].obj) = obj[call[c].obj].built
    BY <1>0, <1>3 DEF TxToSend, SignedAsBuilt
  <2>3. QED
    BY <1>0, <1>2, <2>1, <2>2, OrderlyCall DEF Early
<1>11. CASE \/ PrepareFails(c) \/ SubmitAccepted(c) \/ SubmitPolledAnyway(c)
            \/ SubmitFails(c) \/ SubmitLost(c) \/ Wake(c) \/ AskFound(c)
  <2>1. /\ obj' = obj
        /\ \/ \E outcome : Ends(c, outcome)
           \/ \E pc \in {"sleeping", "asking"} : Goes(c, pc)
    BY <1>11 DEF PrepareFails, SubmitAccepted, SubmitPolledAnyway, SubmitFails,
                 SubmitLost, Wake, AskFound
  <2>2. call'[c].pc \in {"done", "sleeping", "asking"}
    BY <1>0, <1>4, <1>5, <2>1, GoesShape
  <2>3. QED
    BY <1>2, <2>1, <2>2, OrderlyWait DEF Early
<1>12. CASE AskNotFound(c)
  <2>1. obj' = obj /\ call'[c].pc \in {"done", "sleeping"}
    BY <1>0, <1>12 DEF AskNotFound, TypeOK
  <2>2. QED
    BY <1>2, <2>1, OrderlyWait DEF Early
<1>13. CASE CallRejects(c) \/ EncodeRefuses(c)
  <2>1. \E outcome : Fails(c, outcome)
    BY <1>13 DEF CallRejects, EncodeRefuses
  <2>2. call'[c].pc = "done"
    BY <1>4, <2>1 DEF Fails
  <2>3. \A o \in Objs : obj'[o] \in {obj[o], Absent}
    BY <1>0, <2>1 DEF Fails, TypeOK
  <2>4. \A o \in Objs : SignedAsBuilt(o)'
    BY <1>0, <2>3 DEF SignedAsBuilt, Absent
  <2>5. QED
    BY <1>2, <2>2, <2>4, OrderlyCall DEF Early
<1>14. QED
  BY <1>6, <1>7, <1>8, <1>9, <1>10, <1>11, <1>12, <1>13 DEF Continue

LEMMA OrderlyInvStep ==
  ASSUME Waits, OrderlyInv, EarlyOps, [Next]_vars
  PROVE  OrderlyInv'
<1>0. TypeInv /\ TypeOK /\ TypeInv'
  BY TypeInvStep DEF OrderlyInv, TypeInv
<1>1. ASSUME NEW c \in Calls, Start(c) \/ Continue(c) PROVE OrderlyInv'
  BY <1>0, <1>1, StartOrderly, ContinueOrderly
<1>2. ASSUME NEW o \in Objs, Import(o) PROVE OrderlyInv'
  <2>1. /\ call' = call /\ NoObject
        /\ \A p \in Objs : obj'[p].signed = None
    BY <1>0, <1>2 DEF Import, FromXDR, TypeOK, NoObject, Absent
  <2>2. \A d \in Calls : ~Active(d)
    BY <1>0, <1>2, <2>1 DEF TypeInv, Held, HoldsFor, NoObject, Absent, Import
  <2>3. QED
    BY <1>0, <2>1, <2>2 DEF OrderlyInv, SendsWhatIsBuilt, Early
<1>3. ASSUME NEW o \in Objs, NEW p \in Objs, Copy(o, p) PROVE OrderlyInv'
  <2>1. PICK v \in {FromXDR(obj[o].built), FromJSON(ToJSON(o))} :
          obj' = [obj EXCEPT ![p] = v]
    BY <1>3 DEF Copy
  <2>2. v.signed = None
    BY DEF FromXDR, FromJSON, ToJSON
  <2>3. /\ obj'[p].signed = None /\ obj[p] = Absent /\ call' = call
        /\ \A q \in Objs : q # p => obj'[q] = obj[q]
    BY <1>0, <1>3, <2>1, <2>2 DEF TypeOK, Copy
  <2>4. \A d \in Calls : call[d].pc = "submitting" => call[d].obj \in Objs /\ call[d].obj # p
    BY <1>0, <2>3 DEF TypeInv, Held, HoldsFor, Absent
  <2>5. \A d \in Calls : call[d].pc \in Early => call[d].obj \in Objs
    BY <1>0 DEF TypeInv, Held, HoldsFor, Early
  <2>6. QED
    BY <1>0, <2>3, <2>4, <2>5 DEF OrderlyInv, SendsWhatIsBuilt
<1>4. CASE (\E b \in pool : Close(b) \/ Drop(b)) \/ OtherClient \/ UNCHANGED vars
  <2>1. UNCHANGED <<obj, call>>
    BY <1>4 DEF Close, Drop, OtherClient, vars
  <2>2. QED
    BY <1>0, <2>1 DEF OrderlyInv, SendsWhatIsBuilt
<1>5. QED
  BY <1>1, <1>2, <1>3, <1>4 DEF Next

(* A caller who waits for each call and does not simulate what is signed   *)
(* sends the transaction as it was built last, with everything that its    *)
(* simulation added.                                                       *)
THEOREM SendsBuilt ==
  ASSUME Overlap = FALSE, Resimulate = FALSE
  PROVE  Spec => []SendsWhatIsBuilt
<1>1. Waits
  BY DEF Waits
<1>2. Init => OrderlyInv /\ EarlyOps
  BY TypeInvInit, EarlyOpsInit DEF Init, OrderlyInv, Idle, Absent, Early, SendsWhatIsBuilt
<1>3. OrderlyInv /\ EarlyOps /\ [Next]_vars => OrderlyInv' /\ EarlyOps'
  BY <1>1, OrderlyInvStep, EarlyOpsStep DEF OrderlyInv
<1>4. OrderlyInv => SendsWhatIsBuilt
  BY DEF OrderlyInv
<1>5. QED
  BY <1>2, <1>3, <1>4, PTL DEF Spec
=============================================================================
