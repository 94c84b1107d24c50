-------------------------- MODULE ContractCallProofs --------------------------
(***************************************************************************)
(* Proofs about ContractCall, for any number of objects, calls and polling *)
(* attempts, overlapping or not.                                           *)
(***************************************************************************)
EXTENDS ContractCall, TLAPS

-----------------------------------------------------------------------------
(* Types. *)

Obj == [built : MaybeTx, simulation : {None, "success", "error"}, signed : MaybeTx]
Call == [op : Ops, obj : Objs \cup {None}, pc : Places, tx : MaybeTx,
         left : 0..MaxAttempts, outcome : Outcomes]

(* What a call under way holds on to: the object it was called on, which   *)
(* has a transaction, the one it read before its await, and the attempts   *)
(* it has left.                                                            *)
HoldsFor(c) ==
  /\ Active(c) => call[c].obj \in Objs /\ call[c].left # 0
  /\ Active(c) /\ call[c].pc # "account" => obj[call[c].obj].built # None
  /\ call[c].pc \in NeedsTx => call[c].tx # None
  /\ call[c].pc = "account" => call[c].op = "build"
  /\ Active(c) /\ call[c].op = "build" =>
       call[c].pc \in {"account", "simulating", "preparing"}

Held == \A c \in Calls : HoldsFor(c)

(* A build() that may still reject, which takes its object away again.     *)
Building(c) == call[c].op = "build" /\ call[c].pc \in {"account", "simulating"}

(* Nothing was sent or read yet.                                           *)
Fresh == /\ pool = {} /\ applied = {}
         /\ \A c \in Calls : call[c].tx = None

(* While it runs it is alone: no other call, object or version.            *)
BuildsAlone ==
  \A c \in Calls : Building(c) =>
    /\ Fresh
    /\ \A d \in Calls : Active(d) => d = c
    /\ \A o \in Objs : call[c].pc = "account" \/ o # call[c].obj => obj[o] = Absent

TypeInv ==
  /\ TypeOK
  /\ Held
  /\ BuildsAlone
  /\ NoObject => Fresh
  /\ \A o \in Objs : obj[o].built = None => obj[o] = Absent

USE DEF Active

LEMMA BodyType == ASSUME NEW t \in Txs PROVE Body(t) \in Bodies
BY DEF Txs, Bodies, Body

LEMMA AssembleType ==
  ASSUME NEW t \in Txs
  PROVE  Assemble(t) \in Txs /\ Assemble(t).seq = t.seq
<1>1. t.fees + 1 \in Nat
  BY DEF Txs
<1>2. None \in Bodies \cup {None}
  OBVIOUS
<1>3. QED
  BY <1>1, <1>2 DEF Txs, Assemble

LEMMA NewTxType == ASSUME NEW s \in Nat PROVE NewTx(s) \in Txs
BY DEF Txs, NewTx

LEMMA SignedType ==
  ASSUME NEW t \in Txs
  PROVE  /\ [t EXCEPT !.sig = Body(t)] \in Txs
         /\ [t EXCEPT !.sig = Body(t)].seq = t.seq
BY BodyType DEF Txs

LEMMA TypeInvInit == Init => TypeInv
BY CallAssumption DEF Init, TypeInv, TypeOK, Held, HoldsFor, BuildsAlone, Building, Fresh,
   NoObject, Absent, Idle, MaybeTx, Ops, Places, NeedsTx, Outcomes

(* Nothing is being built: what a step of any other call has to keep.      *)
NoBuilding == \A c \in Calls : ~Building(c)

LEMMA StepKeeps ==
  ASSUME TypeInv, NoBuilding,
         NEW c \in Calls, NEW r \in Call, call' = [call EXCEPT ![c] = r],
         obj' \in [Objs -> Obj],
         \A o \in Objs : obj[o].built # None => obj'[o].built # None,
         \A o \in Objs : obj'[o].built = None => obj'[o] = Absent,
         \E o \in Objs : obj'[o].built # None,
         ledgerSeq' \in Nat, pool' \subseteq Bodies,
         applied' \subseteq [body : Bodies, status : {"SUCCESS", "FAILED"}],
         r.pc \in {"idle", "done"} \/
           /\ r.obj \in Objs /\ r.left # 0 /\ obj'[r.obj].built # None
           /\ r.pc \in NeedsTx => r.tx # None
           /\ r.pc # "account"
           /\ r.op = "build" => r.pc = "preparing"
  PROVE  TypeInv'
<1>1. call' \in [Calls -> Call] /\ call'[c] = r
  BY DEF TypeInv, TypeOK, Call
<1>2. \A d \in Calls : d # c => call'[d] = call[d]
  BY DEF TypeInv, TypeOK, Call
<1>3. TypeOK'
  BY <1>1 DEF TypeOK, Call, Obj
<1>4. Held'
  <2> SUFFICES ASSUME NEW d \in Calls PROVE HoldsFor(d)'
    BY DEF Held
  <2>1. CASE d = c
    BY <1>1, <2>1 DEF HoldsFor, NeedsTx
  <2>2. CASE d # c
    BY <1>2, <2>2 DEF HoldsFor, TypeInv, Held, NeedsTx
  <2>3. QED
    BY <2>1, <2>2
<1>5. \A d \in Calls : ~Building(d)'
  BY <1>1, <1>2 DEF NoBuilding, Building
<1>6. ~NoObject'
  BY DEF NoObject, Absent
<1>7. QED
  BY <1>3, <1>4, <1>5, <1>6 DEF TypeInv, BuildsAlone

(* A caller who has the object, and a call other than a build() under way, *)
(* exclude a build().                                                      *)
LEMMA UsableQuiet ==
  ASSUME TypeInv, NEW o \in Objs, Usable(o)
  PROVE  NoBuilding /\ obj[o].built \in Txs /\ TxToSend(o) \in Txs
<1>1. NoBuilding
  BY DEF NoBuilding, Building, Usable, TypeInv, BuildsAlone, Absent
<1>2. QED
  BY <1>1 DEF Usable, TypeInv, TypeOK, MaybeTx, TxToSend

LEMMA ActiveQuiet ==
  ASSUME TypeInv, NEW c \in Calls, Active(c), ~Building(c)
  PROVE  /\ NoBuilding
         /\ call[c].obj \in Objs /\ call[c].left # 0 /\ call[c].left \in 0..MaxAttempts
         /\ obj[call[c].obj].built \in Txs
         /\ call[c].pc \in NeedsTx => call[c].tx \in Txs
         /\ call[c].op = "build" => call[c].pc = "preparing"
<1>1. NoBuilding
  BY DEF NoBuilding, Building, TypeInv, BuildsAlone
<1>2. HoldsFor(c) /\ TypeOK
  BY DEF TypeInv, Held
<1>3. call[c].pc # "account"
  BY <1>2 DEF HoldsFor, Building
<1>4. QED
  BY <1>1, <1>2, <1>3 DEF HoldsFor, TypeOK, MaybeTx, Building

(* The shapes a step of one call can have. *)
LEMMA Moves ==
  ASSUME TypeInv, NEW c \in Calls, Active(c), ~Building(c),
         NEW pc \in Places \ {"account", "idle"}, NEW t \in Txs \cup {None},
         pc \in NeedsTx => t # None, NEW left \in 0..MaxAttempts,
         NEW outcome \in Outcomes, pc = "done" \/ left # 0,
         call[c].op = "build" => pc \in {"preparing", "done"},
         call' = [call EXCEPT ![c].pc = pc, ![c].tx = t, ![c].left = left,
                              ![c].outcome = outcome],
         obj' \in [Objs -> Obj],
         \A o \in Objs : obj[o].built # None => obj'[o].built # None,
         \A o \in Objs : obj'[o].built = None => obj'[o] = Absent,
         ledgerSeq' \in Nat, pool' \subseteq Bodies,
         applied' \subseteq [body : Bodies, status : {"SUCCESS", "FAILED"}]
  PROVE  TypeInv'
<1> DEFINE r == [call[c] EXCEPT !.pc = pc, !.tx = t, !.left = left, !.outcome = outcome]
<1>1. call[c] \in Call
  BY DEF TypeInv, TypeOK, Call
<1>2. r \in Call /\ call' = [call EXCEPT ![c] = r]
  BY <1>1 DEF Call, MaybeTx, TypeInv, TypeOK
<1>3. r.pc = pc /\ r.tx = t /\ r.left = left /\ r.obj = call[c].obj /\ r.op = call[c].op
  BY <1>1 DEF Call
<1>4. obj[call[c].obj].built # None /\ call[c].obj \in Objs
  BY ActiveQuiet, CallAssumption DEF TypeInv, Held, HoldsFor, Building
<1> HIDE DEF r
<1>5. NoBuilding
  BY ActiveQuiet
<1>6. \E o \in Objs : obj'[o].built # None
  BY <1>4
<1>7. r.pc \in {"idle", "done"} \/
        /\ r.obj \in Objs /\ r.left # 0 /\ obj'[r.obj].built # None
        /\ r.pc \in NeedsTx => r.tx # None
        /\ r.pc # "account"
        /\ r.op = "build" => r.pc = "preparing"
  BY <1>3, <1>4
<1>8. QED
  BY <1>2, <1>5, <1>6, <1>7, StepKeeps

LEMMA EndsShape ==
  ASSUME TypeOK, NEW c \in Calls, NEW outcome, Ends(c, outcome)
  PROVE  call' = [call EXCEPT ![c].pc = "done", ![c].tx = call[c].tx,
                              ![c].left = 0, ![c].outcome = outcome]
BY DEF TypeOK, Ends

(* A step to another place, with the transaction it takes along. *)
Takes(c, pc, t) ==
  call' = [call EXCEPT ![c].pc = pc, ![c].tx = t,
                       ![c].left = call[c].left, ![c].outcome = call[c].outcome]

LEMMA TakesType ==
  ASSUME TypeOK, NEW c \in Calls, NEW pc \in Places, NEW t \in Txs \cup {None},
         Takes(c, pc, t)
  PROVE  /\ call' \in [Calls -> Call]
         /\ call'[c].op = call[c].op /\ call'[c].obj = call[c].obj
         /\ call'[c].pc = pc /\ call'[c].tx = t /\ call'[c].left = call[c].left
         /\ \A d \in Calls : d # c => call'[d] = call[d]
<1> DEFINE r == [call[c] EXCEPT !.pc = pc, !.tx = t, !.left = call[c].left,
                                !.outcome = call[c].outcome]
<1>1. call \in [Calls -> Call] /\ call' = [call EXCEPT ![c] = r]
  BY DEF TypeOK, Call, Takes
<1>2. call[c] \in Call
  BY <1>1
<1>3. /\ r \in Call /\ r.op = call[c].op /\ r.obj = call[c].obj
      /\ r.pc = pc /\ r.tx = t /\ r.left = call[c].left
  BY <1>2 DEF Call, MaybeTx
<1> HIDE DEF r
<1>4. QED
  BY <1>1, <1>3

LEMMA GoesShape ==
  ASSUME TypeOK, NEW c \in Calls, NEW pc, Goes(c, pc)
  PROVE  Takes(c, pc, call[c].tx)
BY DEF TypeOK, Goes, Takes

LEMMA GoesWithShape ==
  ASSUME TypeOK, NEW c \in Calls, NEW pc, NEW t, GoesWith(c, pc, t)
  PROVE  Takes(c, pc, t)
BY DEF TypeOK, GoesWith, Takes

(* A step of a call that keeps what the objects hold. *)
LEMMA EndsKeeps ==
  ASSUME TypeInv, NEW c \in Calls, Active(c), ~Building(c),
         NEW outcome \in Outcomes, Ends(c, outcome),
         obj' \in [Objs -> Obj],
         \A o \in Objs : obj[o].built # None => obj'[o].built # None,
         \A o \in Objs : obj'[o].built = None => obj'[o] = Absent,
         ledgerSeq' \in Nat, pool' \subseteq Bodies,
         applied' \subseteq [body : Bodies, status : {"SUCCESS", "FAILED"}]
  PROVE  TypeInv'
<1>1. call[c].tx \in Txs \cup {None} /\ 0 \in 0..MaxAttempts
  BY CallAssumption DEF TypeInv, TypeOK, MaybeTx
<1>2. "done" \in Places \ {"account", "idle"} /\ "done" \notin NeedsTx
  BY DEF Places, NeedsTx
<1>3. call' = [call EXCEPT ![c].pc = "done", ![c].tx = call[c].tx,
                           ![c].left = 0, ![c].outcome = outcome]
  BY EndsShape DEF TypeInv
<1>4. QED
  BY <1>1, <1>2, <1>3, Moves

LEMMA GoesKeeps ==
  ASSUME TypeInv, NEW c \in Calls, Active(c), ~Building(c),
         NEW pc \in {"preparing", "signed", "submitting", "sleeping", "asking"},
         NEW t \in Txs \cup {None}, Takes(c, pc, t),
         pc # "signed" => t # None, call[c].op = "build" => pc = "preparing",
         obj' \in [Objs -> Obj],
         \A o \in Objs : obj[o].built # None => obj'[o].built # None,
         \A o \in Objs : obj'[o].built = None => obj'[o] = Absent,
         ledgerSeq' \in Nat, pool' \subseteq Bodies,
         applied' \subseteq [body : Bodies, status : {"SUCCESS", "FAILED"}]
  PROVE  TypeInv'
<1>1. /\ call[c].left \in 0..MaxAttempts /\ call[c].left # 0
      /\ call[c].outcome \in Outcomes
  BY ActiveQuiet DEF TypeInv, TypeOK
<1>2. pc \in Places \ {"account", "idle"} /\ pc # "simulating" /\ (pc \in NeedsTx => t # None)
  BY DEF Places, NeedsTx
<1>3. call' = [call EXCEPT ![c].pc = pc, ![c].tx = t,
                           ![c].left = call[c].left, ![c].outcome = call[c].outcome]
  BY DEF Takes
<1>4. QED
  BY <1>1, <1>2, <1>3, Moves

LEMMA StartsKeeps ==
  ASSUME TypeInv, NEW c \in Calls, NEW o \in Objs, Usable(o),
         NEW op \in Ops \ {"build"}, NEW t \in Txs \cup {None},
         NEW pc \in NeedsTx \cup {"simulating"}, pc \in NeedsTx => t # None,
         Starts(c, op, o, pc, t), UNCHANGED <<obj, external>>
  PROVE  TypeInv'
<1> DEFINE r == [op |-> op, obj |-> o, pc |-> pc, tx |-> t,
                 left |-> MaxAttempts, outcome |-> "none"]
<1>1. r \in Call /\ call' = [call EXCEPT ![c] = r]
  BY CallAssumption DEF Call, MaybeTx, Places, Outcomes, Starts
<1>2. NoBuilding /\ obj[o].built # None
  BY UsableQuiet DEF Usable
<1>3. /\ obj' = obj /\ obj \in [Objs -> Obj]
      /\ ledgerSeq' \in Nat /\ pool' \subseteq Bodies
      /\ applied' \subseteq [body : Bodies, status : {"SUCCESS", "FAILED"}]
      /\ \A p \in Objs : obj[p].built = None => obj[p] = Absent
  BY DEF TypeInv, TypeOK, Obj, external
<1>4. r.obj \in Objs /\ r.left # 0 /\ obj'[r.obj].built # None
      /\ (r.pc \in NeedsTx => r.tx # None) /\ r.pc # "account"
      /\ r.op # "build"
  BY <1>2, <1>3, CallAssumption DEF NeedsTx
<1> HIDE DEF r
<1>5. QED
  BY <1>1, <1>2, <1>3, <1>4, StepKeeps

(* What any step may assume of the parts of the state it leaves alone.     *)
LEMMA Frames ==
  ASSUME TypeInv
  PROVE  /\ TypeOK
         /\ obj \in [Objs -> Obj]
         /\ \A o \in Objs : obj[o].built = None => obj[o] = Absent
         /\ ledgerSeq \in Nat /\ pool \subseteq Bodies
         /\ applied \subseteq [body : Bodies, status : {"SUCCESS", "FAILED"}]
         /\ \A c \in Calls : call[c].tx \in Txs \cup {None}
BY DEF TypeInv, TypeOK, Obj, MaybeTx

(* An object that gets a transaction, whatever it held. *)
LEMMA HoldsTx ==
  ASSUME TypeInv, NEW o \in Objs, NEW v \in Obj, v.built # None,
         obj' = [obj EXCEPT ![o] = v]
  PROVE  /\ obj' \in [Objs -> Obj]
         /\ \A p \in Objs : obj[p].built # None => obj'[p].built # None
         /\ \A p \in Objs : obj'[p].built = None => obj'[p] = Absent
BY Frames

(* build() *)
LEMMA BuildCallKeeps ==
  ASSUME TypeInv, NEW c \in Calls, NEW o \in Objs, BuildCall(c, o)
  PROVE  TypeInv'
<1>1. /\ Fresh /\ NoObject /\ call[c].pc = "idle"
      /\ obj' = obj /\ ledgerSeq' = ledgerSeq /\ pool' = pool /\ applied' = applied
  BY DEF TypeInv, BuildCall, MayStart, external
<1>2. \A d \in Calls : ~Active(d)
  <2> SUFFICES ASSUME NEW d \in Calls, Active(d) PROVE FALSE
    OBVIOUS
  <2>1. call[d].op # "build" /\ HoldsFor(d)
    BY DEF BuildCall, TypeInv, Held
  <2>2. QED
    BY <1>1, <2>1 DEF HoldsFor, NoObject, Absent
<1> DEFINE r == [op |-> "build", obj |-> o, pc |-> "account", tx |-> None,
                 left |-> MaxAttempts, outcome |-> "none"]
<1>3. r \in Call /\ call' = [call EXCEPT ![c] = r]
  BY CallAssumption DEF Call, MaybeTx, Places, Outcomes, Ops, BuildCall, Starts
<1>4. call' \in [Calls -> Call] /\ call'[c] = r /\ \A d \in Calls : d # c => call'[d] = call[d]
  BY <1>3 DEF TypeInv, TypeOK, Call
<1>5. TypeOK'
  BY <1>1, <1>4 DEF TypeInv, TypeOK, Call
<1>6. Held'
  BY <1>1, <1>2, <1>4, CallAssumption DEF Held, HoldsFor, TypeInv, NeedsTx
<1>7. Fresh' /\ NoObject'
  BY <1>1, <1>4 DEF Fresh, NoObject, Absent
<1>8. \A d \in Calls : Active(d)' => d = c
  BY <1>2, <1>4
<1>9. BuildsAlone'
  BY <1>7, <1>8, <1>4 DEF BuildsAlone, Building, NoObject, Absent
<1>10. QED
  BY <1>1, <1>5, <1>6, <1>7, <1>9 DEF TypeInv, NoObject

(* The steps of a build() that can still lose its object. *)
LEMMA BuildingFacts ==
  ASSUME TypeInv, NEW c \in Calls, Building(c)
  PROVE  /\ Fresh /\ call[c].obj \in Objs /\ call[c].left # 0
         /\ \A d \in Calls : d # c => ~Active(d) /\ ~Building(d)
         /\ \A o \in Objs : o # call[c].obj => obj[o] = Absent
         /\ call[c].pc = "account" => NoObject
         /\ call[c].pc = "simulating" => obj[call[c].obj].built \in Txs
<1>1. BuildsAlone /\ HoldsFor(c) /\ Active(c)
  BY DEF TypeInv, Held, Building
<1>2. QED
  BY <1>1, Frames DEF BuildsAlone, Building, HoldsFor, NoObject, Obj, MaybeTx

LEMMA BuildAccountKeeps ==
  ASSUME TypeInv, NEW c \in Calls, BuildAccount(c)
  PROVE  TypeInv'
<1>1. Building(c)
  BY DEF BuildAccount, Building, TypeInv, Held, HoldsFor
<1>2. PICK n \in {ledgerSeq, 0} :
        obj' = [obj EXCEPT ![call[c].obj] = [Absent EXCEPT !.built = NewTx(n)]]
  BY DEF BuildAccount
<1> DEFINE v == [Absent EXCEPT !.built = NewTx(n)]
<1>3. NewTx(n) \in Txs /\ v \in Obj /\ v.built = NewTx(n) /\ v.built # None
  <2>1. n \in Nat
    BY Frames
  <2>2. NewTx(n) \in Txs
    BY <2>1, NewTxType
  <2>3. QED
    BY <2>2, CallAssumption DEF Absent, Obj, MaybeTx
<1> HIDE DEF v
<1>4. call[c].obj \in Objs /\ obj' = [obj EXCEPT ![call[c].obj] = v]
  BY <1>1, <1>2, BuildingFacts DEF v
<1>5. /\ obj' \in [Objs -> Obj]
      /\ \A p \in Objs : obj'[p].built = None => obj'[p] = Absent
      /\ obj'[call[c].obj] = v
      /\ \A p \in Objs : p # call[c].obj => obj'[p] = Absent
  BY <1>1, <1>3, <1>4, HoldsTx, Frames, BuildingFacts
<1>6. Takes(c, "simulating", call[c].tx)
  BY GoesShape, Frames DEF BuildAccount
<1>7. /\ call' \in [Calls -> Call]
      /\ call'[c].op = call[c].op /\ call'[c].obj = call[c].obj
      /\ call'[c].pc = "simulating" /\ call'[c].tx = call[c].tx /\ call'[c].left = call[c].left
      /\ \A d \in Calls : d # c => call'[d] = call[d]
  BY <1>6, TakesType, Frames DEF Places
<1>8. Fresh'
  BY <1>1, <1>7, BuildingFacts DEF Fresh, BuildAccount, external
<1>9. TypeOK'
  BY <1>5, <1>7, Frames DEF TypeOK, Obj, Call, BuildAccount, external
<1>10. Held'
  BY <1>1, <1>3, <1>5, <1>7, BuildingFacts DEF Held, HoldsFor, TypeInv, NeedsTx
<1>11. BuildsAlone'
  BY <1>1, <1>5, <1>7, <1>8, BuildingFacts DEF BuildsAlone, Building
<1>12. QED
  BY <1>5, <1>8, <1>9, <1>10, <1>11 DEF TypeInv

(* A build() that ended has its object, and no version but the one it made *)
(* was read by another call.                                               *)
LEMMA BuildGoesOn ==
  ASSUME TypeInv, NEW c \in Calls, Building(c), call[c].pc = "simulating",
         NEW v \in Obj, v.built # None, obj' = [obj EXCEPT ![call[c].obj] = v],
         UNCHANGED external,
         NEW r \in Call, call' = [call EXCEPT ![c] = r],
         r.obj = call[c].obj, r.op = "build",
         r.pc = "done" \/ (r.pc = "preparing" /\ r.tx # None /\ r.left # 0)
  PROVE  TypeInv'
<1>1. /\ call[c].obj \in Objs /\ ~NoObject'
      /\ obj' \in [Objs -> Obj]
      /\ \A p \in Objs : obj'[p].built = None => obj'[p] = Absent
      /\ obj'[call[c].obj] = v
  BY BuildingFacts, HoldsTx, Frames DEF NoObject, Absent
<1>2. /\ call' \in [Calls -> Call] /\ call'[c] = r
      /\ \A d \in Calls : d # c => call'[d] = call[d]
  BY DEF TypeInv, TypeOK, Call
<1>3. \A d \in Calls : ~Building(d)'
  BY <1>2, BuildingFacts DEF Building
<1>4. TypeOK'
  BY <1>1, <1>2, Frames DEF TypeOK, Obj, Call, external
<1>5. Held'
  BY <1>1, <1>2, BuildingFacts DEF Held, HoldsFor, TypeInv, NeedsTx
<1>6. QED
  BY <1>1, <1>3, <1>4, <1>5 DEF TypeInv, BuildsAlone

LEMMA EndsType ==
  ASSUME TypeOK, NEW c \in Calls, NEW outcome \in Outcomes, Ends(c, outcome)
  PROVE  \E r \in Call : /\ call' = [call EXCEPT ![c] = r]
                         /\ r = [call[c] EXCEPT !.pc = "done", !.left = 0,
                                                !.outcome = outcome]
                         /\ r.pc = "done" /\ r.obj = call[c].obj /\ r.op = call[c].op
                         /\ r.tx = call[c].tx
<1> DEFINE r == [call[c] EXCEPT !.pc = "done", !.left = 0, !.outcome = outcome]
<1>1. call[c] \in Call /\ "done" \in Places /\ 0 \in 0..MaxAttempts
  BY CallAssumption DEF TypeOK, Call, Places
<1>2. r \in Call /\ r.pc = "done" /\ r.obj = call[c].obj /\ r.op = call[c].op
      /\ r.tx = call[c].tx
  BY <1>1 DEF Call
<1>3. call' = [call EXCEPT ![c] = r]
  BY DEF Ends, TypeOK
<1>4. QED
  BY <1>2, <1>3

LEMMA SimulationKeeps ==
  ASSUME TypeInv, NEW c \in Calls, SimulationFails(c) \/ SimulationSucceeds(c)
  PROVE  TypeInv'
<1>1. /\ call[c].pc = "simulating" /\ Active(c) /\ UNCHANGED external
      /\ call[c].obj \in Objs /\ obj[call[c].obj].built # None /\ call[c].left # 0
  BY DEF SimulationFails, SimulationSucceeds, TypeInv, Held, HoldsFor
<1>2. PICK s \in {"error", "success"} :
        obj' = [obj EXCEPT ![call[c].obj].simulation = s]
  BY DEF SimulationFails, SimulationSucceeds
<1> DEFINE v == [obj[call[c].obj] EXCEPT !.simulation = s]
<1>3. /\ v \in Obj /\ v.built # None /\ obj' = [obj EXCEPT ![call[c].obj] = v]
      /\ obj[call[c].obj].built \in Txs
  BY <1>1, <1>2, Frames DEF Obj, MaybeTx
<1> HIDE DEF v
<1>4. SimulationFails(c) => Ends(c, "ok")
  BY DEF SimulationFails
<1>5. SimulationSucceeds(c) => Takes(c, "preparing", obj[call[c].obj].built)
  BY GoesWithShape, Frames DEF SimulationSucceeds
<1>6. CASE Building(c)
  <2>1. CASE SimulationFails(c)
    <3>1. PICK r \in Call : /\ call' = [call EXCEPT ![c] = r] /\ r.pc = "done"
                            /\ r.obj = call[c].obj /\ r.op = call[c].op
      BY <1>4, <2>1, EndsType, Frames DEF Outcomes
    <3>2. QED
      BY <1>1, <1>3, <1>6, <3>1, BuildGoesOn DEF Building
  <2>2. CASE SimulationSucceeds(c)
    <3>1. /\ call' \in [Calls -> Call]
          /\ call'[c].op = call[c].op /\ call'[c].obj = call[c].obj
          /\ call'[c].pc = "preparing" /\ call'[c].tx = obj[call[c].obj].built
          /\ call'[c].left = call[c].left
          /\ \A d \in Calls : d # c => call'[d] = call[d]
      BY <1>3, <1>5, <2>2, TakesType, Frames DEF Places, NeedsTx
    <3>2. call' = [call EXCEPT ![c] = call'[c]] /\ call'[c] \in Call
      BY <3>1, Frames DEF TypeOK
    <3>3. QED
      BY <1>1, <1>3, <1>6, <3>1, <3>2, BuildGoesOn DEF Building
  <2>3. QED
    BY <2>1, <2>2
<1>7. CASE ~Building(c)
  <2>1. /\ obj' \in [Objs -> Obj]
        /\ \A o \in Objs : obj[o].built # None => obj'[o].built # None
        /\ \A o \in Objs : obj'[o].built = None => obj'[o] = Absent
        /\ ledgerSeq' \in Nat /\ pool' \subseteq Bodies
        /\ applied' \subseteq [body : Bodies, status : {"SUCCESS", "FAILED"}]
    BY <1>1, <1>3, HoldsTx, Frames DEF external
  <2>2. CASE SimulationFails(c)
    BY <1>1, <1>4, <1>7, <2>1, <2>2, EndsKeeps DEF Outcomes
  <2>3. CASE SimulationSucceeds(c)
    BY <1>1, <1>3, <1>5, <1>7, <2>1, <2>3, GoesKeeps
  <2>4. QED
    BY <2>2, <2>3
<1>8. QED
  BY <1>6, <1>7

(* A rejected build() takes its object away: nobody else had it. *)
LEMMA FailsKeeps ==
  ASSUME TypeInv, NEW c \in Calls, NEW outcome \in Outcomes, Fails(c, outcome),
         call[c].pc \in {"simulating", "signing", "submitting", "asking"}
  PROVE  TypeInv'
<1>1. Active(c) /\ Ends(c, outcome) /\ UNCHANGED external /\ call[c].obj \in Objs
  BY DEF Fails, TypeInv, Held, HoldsFor
<1>2. CASE Building(c)
  <2>1. obj' = [obj EXCEPT ![call[c].obj] = Absent]
    BY <1>2 DEF Fails, Building
  <2>2. Absent \in Obj /\ Absent.built = None
    BY DEF Absent, Obj, MaybeTx
  <2>3. obj' \in [Objs -> Obj] /\ \A o \in Objs : obj'[o] = Absent
    BY <1>1, <1>2, <2>1, <2>2, BuildingFacts, Frames
  <2>4. PICK r \in Call : /\ call' = [call EXCEPT ![c] = r] /\ r.pc = "done"
                          /\ r.tx = call[c].tx
    BY <1>1, EndsType, Frames
  <2>5. /\ call' \in [Calls -> Call] /\ call'[c] = r
        /\ \A d \in Calls : d # c => call'[d] = call[d]
    BY <2>4 DEF TypeInv, TypeOK, Call
  <2>6. Fresh'
    BY <1>1, <1>2, <2>4, <2>5, BuildingFacts DEF Fresh, external
  <2>7. \A d \in Calls : ~Active(d)' /\ ~Building(d)'
    BY <1>2, <2>4, <2>5, BuildingFacts DEF Building
  <2>8. TypeOK'
    BY <1>1, <2>3, <2>5, Frames DEF TypeOK, Obj, Call, external
  <2>9. Held'
    BY <2>4, <2>5, <2>7 DEF Held, HoldsFor, NeedsTx
  <2>10. QED
    BY <2>3, <2>6, <2>7, <2>8, <2>9 DEF TypeInv, BuildsAlone
<1>3. CASE ~Building(c)
  <2>1. call[c].op # "build"
    BY <1>1, <1>3, ActiveQuiet
  <2>2. call[c].op # "build" => obj' = obj
    BY DEF Fails
  <2>3. QED
    BY <1>1, <1>3, <2>1, <2>2, EndsKeeps, Frames DEF external
<1>4. QED
  BY <1>2, <1>3

(* The objects and the ledger of a step that leaves them alone, or gives   *)
(* an object that has a transaction another one.                           *)
ObjectsKept ==
  /\ obj' \in [Objs -> Obj]
  /\ \A o \in Objs : obj[o].built # None => obj'[o].built # None
  /\ \A o \in Objs : obj'[o].built = None => obj'[o] = Absent
LedgerTyped ==
  /\ ledgerSeq' \in Nat /\ pool' \subseteq Bodies
  /\ applied' \subseteq [body : Bodies, status : {"SUCCESS", "FAILED"}]

LEMMA UnchangedKept ==
  ASSUME TypeInv
  PROVE  /\ UNCHANGED obj => ObjectsKept
         /\ UNCHANGED external => LedgerTyped
BY Frames DEF ObjectsKept, LedgerTyped, external

LEMMA PreparesOrSignsKeeps ==
  ASSUME TypeInv, NEW c \in Calls, PrepareAnswers(c) \/ SignResolves(c)
  PROVE  TypeInv'
<1>1. /\ call[c].pc \in {"preparing", "signing"} /\ Active(c) /\ ~Building(c)
      /\ UNCHANGED external
  BY DEF PrepareAnswers, SignResolves, Building
<1>2. /\ call[c].obj \in Objs /\ call[c].tx \in Txs /\ obj[call[c].obj] \in Obj
      /\ call[c].pc = "signing" => call[c].op # "build"
  BY <1>1, ActiveQuiet, Frames DEF NeedsTx
<1>3. LedgerTyped
  BY <1>1, UnchangedKept
<1>4. CASE PrepareAnswers(c)
  <2> DEFINE v == [obj[call[c].obj] EXCEPT !.built = Assemble(call[c].tx)]
  <2>1. Assemble(call[c].tx) \in Txs
    BY <1>2, AssembleType
  <2>2. v \in Obj /\ v.built # None /\ obj' = [obj EXCEPT ![call[c].obj] = v]
    BY <1>2, <1>4, <2>1, CallAssumption DEF Obj, MaybeTx, PrepareAnswers
  <2> HIDE DEF v
  <2>3. ObjectsKept
    BY <1>2, <2>2, HoldsTx DEF ObjectsKept
  <2>4. Ends(c, "ok") /\ "ok" \in Outcomes
    BY <1>4 DEF PrepareAnswers, Outcomes
  <2>5. QED
    BY <1>1, <1>3, <2>3, <2>4, EndsKeeps DEF ObjectsKept, LedgerTyped
<1>5. CASE SignResolves(c)
  <2> DEFINE t == [call[c].tx EXCEPT !.sig = Body(call[c].tx)]
             v == [obj[call[c].obj] EXCEPT !.built = t, !.signed = t]
  <2>1. t \in Txs
    BY <1>2, SignedType
  <2>2. v \in Obj /\ v.built # None /\ obj' = [obj EXCEPT ![call[c].obj] = v]
    <3> HIDE DEF t
    <3>1. v \in Obj /\ v.built # None
      BY <1>2, <2>1, CallAssumption DEF Obj, MaybeTx
    <3>2. obj' = [obj EXCEPT ![call[c].obj] = v]
      BY <1>2, <1>5, Frames DEF SignResolves, t, Obj
    <3>3. QED
      BY <3>1, <3>2
  <2> HIDE DEF v, t
  <2>3. ObjectsKept
    BY <1>2, <2>2, HoldsTx DEF ObjectsKept
  <2>4. CASE call[c].op = "sign"
    BY <1>1, <1>3, <1>5, <2>3, <2>4, EndsKeeps DEF ObjectsKept, LedgerTyped, SignResolves, Outcomes
  <2>5. CASE call[c].op # "sign"
    <3>1. Takes(c, "signed", call[c].tx)
      BY <1>5, <2>5, GoesShape, Frames DEF SignResolves
    <3>2. call[c].op # "build"
      BY <1>2, <1>5 DEF SignResolves
    <3>3. QED
      BY <1>1, <1>2, <1>3, <2>3, <3>1, <3>2, GoesKeeps DEF ObjectsKept, LedgerTyped
  <2>6. QED
    BY <2>4, <2>5
<1>6. QED
  BY <1>4, <1>5

LEMMA StartKeeps ==
  ASSUME TypeInv, NEW c \in Calls, Start(c)
  PROVE  TypeInv'
<1>1. CASE BuildWithOp(c)
  <2> DEFINE r == [call[c] EXCEPT !.op = "buildWithOp", !.pc = "done",
                                  !.outcome = "refused"]
  <2>1. call[c] \in Call
    BY DEF TypeInv, TypeOK, Call
  <2>2. /\ r \in Call /\ call' = [call EXCEPT ![c] = r]
        /\ r.pc = "done" /\ r.tx = call[c].tx
    BY <1>1, <2>1 DEF Call, Ops, Places, Outcomes, BuildWithOp, TypeInv, TypeOK
  <2> HIDE DEF r
  <2>3. /\ call' \in [Calls -> Call] /\ call'[c] = r
        /\ \A d \in Calls : d # c => call'[d] = call[d]
        /\ obj' = obj /\ UNCHANGED external /\ call[c].pc = "idle"
    BY <1>1, <2>2 DEF TypeInv, TypeOK, Call, BuildWithOp, MayStart
  <2>4. TypeOK'
    BY <2>3, Frames DEF TypeOK, Obj, Call, external
  <2>5. Held'
    BY <2>2, <2>3 DEF Held, HoldsFor, TypeInv, NeedsTx
  <2>6. Fresh => Fresh'
    BY <2>2, <2>3 DEF Fresh, external
  <2>7. \A d \in Calls : /\ Active(d)' => Active(d) /\ d # c
                         /\ Building(d)' => Building(d) /\ d # c
    BY <2>2, <2>3 DEF Building
  <2>8. BuildsAlone'
    BY <2>3, <2>6, <2>7 DEF BuildsAlone, TypeInv, Absent
  <2>9. QED
    BY <2>3, <2>4, <2>5, <2>6, <2>8 DEF TypeInv, NoObject, Absent
<1>2. ASSUME NEW o \in Objs, BuildCall(c, o) PROVE TypeInv'
  BY <1>2, BuildCallKeeps
<1>3. ASSUME NEW o \in Objs, SimulateCall(c, o) PROVE TypeInv'
  BY <1>3, StartsKeeps DEF SimulateCall, Ops, NeedsTx
<1>4. ASSUME NEW o \in Objs, SignCall(c, o) PROVE TypeInv'
  <2>1. PICK op \in {"sign", "signAndSend"} : Starts(c, op, o, "signing", obj[o].built)
    BY <1>4 DEF SignCall
  <2>2. Usable(o) /\ obj[o].built \in Txs /\ obj[o].built # None
    BY <1>4, UsableQuiet DEF SignCall, Usable
  <2>3. op \in Ops \ {"build"} /\ "signing" \in NeedsTx
    BY DEF Ops, NeedsTx
  <2>4. QED
    BY <1>4, <2>1, <2>2, <2>3, StartsKeeps DEF SignCall
<1>5. ASSUME NEW o \in Objs, SendCall(c, o) PROVE TypeInv'
  <2>1. Usable(o) /\ TxToSend(o) \in Txs
    BY <1>5, UsableQuiet DEF SendCall
  <2>2. "send" \in Ops \ {"build"} /\ "submitting" \in NeedsTx /\ TxToSend(o) # None
    BY <2>1, CallAssumption DEF Ops, NeedsTx
  <2>3. QED
    BY <1>5, <2>1, <2>2, StartsKeeps DEF SendCall
<1>6. ASSUME NEW o \in Objs, PollCall(c, o) PROVE TypeInv'
  <2>1. Usable(o) /\ TxToSend(o) \in Txs
    BY <1>6, UsableQuiet DEF PollCall
  <2>2. "poll" \in Ops \ {"build"} /\ "asking" \in NeedsTx /\ TxToSend(o) # None
    BY <2>1, CallAssumption DEF Ops, NeedsTx
  <2>3. QED
    BY <1>6, <2>1, <2>2, StartsKeeps DEF PollCall
<1>7. QED
  BY <1>1, <1>2, <1>3, <1>4, <1>5, <1>6 DEF Start

LEMMA ContinueKeeps ==
  ASSUME TypeInv, NEW c \in Calls, Continue(c)
  PROVE  TypeInv'
<1>1. UNCHANGED obj => ObjectsKept
  BY UnchangedKept
<1>2. UNCHANGED external => LedgerTyped
  BY UnchangedKept
<1>3. CASE BuildAccount(c)
  BY <1>3, BuildAccountKeeps
<1>4. CASE SimulationFails(c) \/ SimulationSucceeds(c)
  BY <1>4, SimulationKeeps
<1>5. CASE PrepareAnswers(c) \/ SignResolves(c)
  BY <1>5, PreparesOrSignsKeeps
<1>6. CASE PrepareFails(c)
  <2>1. Active(c) /\ ~Building(c) /\ Ends(c, "ok") /\ "ok" \in Outcomes
    BY <1>6 DEF PrepareFails, Building, Outcomes
  <2>2. ObjectsKept /\ LedgerTyped
    BY <1>1, <1>2, <1>6 DEF PrepareFails
  <2>3. QED
    BY <2>1, <2>2, EndsKeeps DEF ObjectsKept, LedgerTyped
<1>7. CASE SendSigned(c)
  <2>1. Active(c) /\ ~Building(c) /\ call[c].pc = "signed"
    BY <1>7 DEF SendSigned, Building
  <2>2. call[c].obj \in Objs /\ obj[call[c].obj].built \in Txs /\ call[c].op # "build"
    BY <2>1, ActiveQuiet
  <2>3. TxToSend(call[c].obj) \in Txs /\ TxToSend(call[c].obj) # None
    BY <2>2, Frames, CallAssumption DEF TxToSend, Obj, MaybeTx
  <2>4. Takes(c, "submitting", TxToSend(call[c].obj))
    BY <1>7, GoesWithShape, Frames DEF SendSigned
  <2>5. ObjectsKept /\ LedgerTyped
    BY <1>1, <1>2, <1>7 DEF SendSigned
  <2>6. QED
    BY <2>1, <2>2, <2>3, <2>4, <2>5, GoesKeeps DEF ObjectsKept, LedgerTyped
<1>8. ASSUME call[c].pc \in {"submitting", "sleeping", "asking"}
      PROVE  /\ Active(c) /\ ~Building(c) /\ call[c].op # "build"
             /\ call[c].tx \in Txs /\ call[c].tx # None /\ Body(call[c].tx) \in Bodies
  <2>1. Active(c) /\ ~Building(c)
    BY <1>8 DEF Building
  <2>2. call[c].tx \in Txs /\ call[c].op # "build"
    BY <1>8, <2>1, ActiveQuiet DEF NeedsTx
  <2>3. QED
    BY <2>1, <2>2, BodyType, CallAssumption
<1>9. CASE SubmitAccepted(c)
  <2>1. Takes(c, "sleeping", call[c].tx) /\ call[c].pc = "submitting"
    BY <1>9, GoesShape, Frames DEF SubmitAccepted
  <2>2. ObjectsKept /\ LedgerTyped
    BY <1>1, <1>8, <1>9, <2>1, Frames DEF SubmitAccepted, LedgerTyped
  <2>3. QED
    BY <1>8, <2>1, <2>2, GoesKeeps DEF ObjectsKept, LedgerTyped
<1>10. CASE SubmitPolledAnyway(c)
  <2>1. Takes(c, "sleeping", call[c].tx) /\ call[c].pc = "submitting"
    BY <1>10, GoesShape, Frames DEF SubmitPolledAnyway
  <2>2. ObjectsKept /\ LedgerTyped
    BY <1>1, <1>2, <1>10 DEF SubmitPolledAnyway
  <2>3. QED
    BY <1>8, <2>1, <2>2, GoesKeeps DEF ObjectsKept, LedgerTyped
<1>11. CASE SubmitFails(c)
  <2>1. Ends(c, "SendFailed") /\ call[c].pc = "submitting" /\ "SendFailed" \in Outcomes
    BY <1>11 DEF SubmitFails, Outcomes
  <2>2. ObjectsKept /\ LedgerTyped
    BY <1>1, <1>2, <1>11 DEF SubmitFails
  <2>3. QED
    BY <1>8, <2>1, <2>2, EndsKeeps DEF ObjectsKept, LedgerTyped
<1>12. CASE SubmitLost(c)
  <2>1. PICK outcome \in {"rejected", "SendFailed"} : Ends(c, outcome)
    BY <1>12 DEF SubmitLost
  <2>2. ObjectsKept /\ LedgerTyped
    BY <1>1, <1>8, <1>12, Frames DEF SubmitLost, LedgerTyped
  <2>3. outcome \in Outcomes /\ call[c].pc = "submitting"
    BY <1>12 DEF Outcomes, SubmitLost
  <2>4. QED
    BY <1>8, <2>1, <2>2, <2>3, EndsKeeps DEF ObjectsKept, LedgerTyped
<1>13. CASE Wake(c)
  <2>1. Takes(c, "asking", call[c].tx) /\ call[c].pc = "sleeping"
    BY <1>13, GoesShape, Frames DEF Wake
  <2>2. ObjectsKept /\ LedgerTyped
    BY <1>1, <1>2, <1>13 DEF Wake
  <2>3. QED
    BY <1>8, <2>1, <2>2, GoesKeeps DEF ObjectsKept, LedgerTyped
<1>14. CASE AskNotFound(c)
  <2> DEFINE last == call[c].left = 1
             pc == IF last THEN "done" ELSE "sleeping"
             outcome == IF last THEN "StillPending" ELSE call[c].outcome
  <2>1. call[c].pc = "asking" /\ call[c].left \in 0..MaxAttempts /\ call[c].left # 0
        /\ call[c].outcome \in Outcomes
    BY <1>8, <1>14, ActiveQuiet DEF AskNotFound, TypeInv, TypeOK
  <2>2. call[c].left - 1 \in 0..MaxAttempts /\ (call[c].left - 1 = 0 => last)
    BY <2>1, CallAssumption
  <2>3. call' = [call EXCEPT ![c].pc = pc, ![c].tx = call[c].tx,
                             ![c].left = call[c].left - 1, ![c].outcome = outcome]
    BY <1>14, Frames DEF AskNotFound, TypeOK
  <2>4. /\ pc \in Places \ {"account", "idle"} /\ outcome \in Outcomes
        /\ pc = "done" \/ call[c].left - 1 # 0
    BY <2>1, <2>2 DEF Places, NeedsTx, Outcomes
  <2>5. ObjectsKept /\ LedgerTyped
    BY <1>1, <1>2, <1>14 DEF AskNotFound
  <2> HIDE DEF pc, outcome, last
  <2>6. QED
    BY <1>8, <2>1, <2>2, <2>3, <2>4, <2>5, Moves DEF ObjectsKept, LedgerTyped
<1>15. CASE AskFound(c)
  <2>1. PICK a \in applied : Ends(c, a.status)
    BY <1>15 DEF AskFound
  <2>2. a.status \in Outcomes /\ call[c].pc = "asking"
    BY <1>15, Frames DEF Outcomes, AskFound
  <2>3. ObjectsKept /\ LedgerTyped
    BY <1>1, <1>2, <1>15 DEF AskFound
  <2>4. QED
    BY <1>8, <2>1, <2>2, <2>3, EndsKeeps DEF ObjectsKept, LedgerTyped
<1>16. CASE CallRejects(c)
  BY <1>16, FailsKeeps DEF CallRejects, Outcomes
<1>17. CASE EncodeRefuses(c)
  BY <1>17, FailsKeeps DEF EncodeRefuses, Outcomes
<1>18. QED
  BY <1>3, <1>4, <1>5, <1>6, <1>7, <1>9, <1>10, <1>11, <1>12, <1>13, <1>14,
     <1>15, <1>16, <1>17 DEF Continue

(* A step that leaves the calls alone, and every object with a transaction *)
(* one.                                                                    *)
LEMMA OthersKeep ==
  ASSUME TypeInv, call' = call, ObjectsKept, LedgerTyped,
         NoObject' => Fresh', BuildsAlone'
  PROVE  TypeInv'
<1>1. TypeOK'
  BY Frames DEF TypeOK, Obj, ObjectsKept, LedgerTyped
<1>2. Held'
  BY DEF Held, HoldsFor, TypeInv, ObjectsKept, NeedsTx
<1>3. QED
  BY <1>1, <1>2 DEF TypeInv, ObjectsKept

LEMMA TypeInvStep == TypeInv /\ [Next]_vars => TypeInv'
<1> SUFFICES ASSUME TypeInv, [Next]_vars PROVE TypeInv'
  OBVIOUS
<1>1. ASSUME NEW c \in Calls, Start(c) \/ Continue(c) PROVE TypeInv'
  BY <1>1, StartKeeps, ContinueKeeps
<1>2. ASSUME NEW o \in Objs, Import(o) PROVE TypeInv'
  <2>1. PICK fees \in {0, 1} :
          obj' = [obj EXCEPT ![o] = FromXDR([seq |-> ledgerSeq + 1, soroban |-> TRUE,
                                             fees |-> fees, sig |-> None])]
    BY <1>2 DEF Import
  <2> DEFINE t == [seq |-> ledgerSeq + 1, soroban |-> TRUE, fees |-> fees, sig |-> None]
  <2>2. t \in Txs
    BY Frames DEF Txs
  <2>3. FromXDR(t) \in Obj /\ FromXDR(t).built = t /\ t # None
    BY <2>2, CallAssumption DEF FromXDR, Obj, MaybeTx
  <2> HIDE DEF t
  <2>4. ObjectsKept
    BY <2>1, <2>3, HoldsTx DEF ObjectsKept, t
  <2>5. obj'[o].built # None
    BY <2>1, <2>3, Frames DEF t
  <2>6. NoBuilding /\ call' = call /\ UNCHANGED external
    BY <1>2 DEF Import, Building, NoBuilding
  <2>7. BuildsAlone' /\ ~NoObject' /\ LedgerTyped
    BY <2>5, <2>6, UnchangedKept DEF NoBuilding, BuildsAlone, Building, NoObject, Absent
  <2>8. QED
    BY <1>2, <2>4, <2>7, OthersKeep DEF Import
<1>3. ASSUME NEW o \in Objs, NEW p \in Objs, Copy(o, p) PROVE TypeInv'
  <2>1. Usable(o) /\ NoBuilding /\ obj[o].built \in Txs /\ call' = call /\ UNCHANGED external
    BY <1>3, UsableQuiet DEF Copy
  <2>2. PICK v \in {FromXDR(obj[o].built), FromJSON(ToJSON(o))} :
          obj' = [obj EXCEPT ![p] = v]
    BY <1>3 DEF Copy
  <2>3. v \in Obj /\ v.built # None
    BY <2>1, CallAssumption DEF FromXDR, FromJSON, ToJSON, Obj, MaybeTx
  <2>4. ObjectsKept
    BY <2>2, <2>3, HoldsTx DEF ObjectsKept
  <2>5. ~NoObject'
    BY <2>1, <2>4, CallAssumption DEF ObjectsKept, NoObject, Absent
  <2>6. BuildsAlone' /\ LedgerTyped
    BY <2>1, UnchangedKept DEF NoBuilding, BuildsAlone, Building
  <2>7. QED
    BY <2>1, <2>4, <2>5, <2>6, OthersKeep
<1>4. ASSUME obj' = obj, call' = call, LedgerTyped,
             Fresh => Fresh'
      PROVE  TypeInv'
  <2>1. ObjectsKept
    BY <1>4, UnchangedKept
  <2>2. BuildsAlone' /\ (NoObject' => Fresh')
    BY <1>4 DEF TypeInv, BuildsAlone, Building, NoObject, Absent
  <2>3. QED
    BY <1>4, <2>1, <2>2, OthersKeep
<1>5. ASSUME NEW b \in pool, Close(b) \/ Drop(b) PROVE TypeInv'
  <2>1. b \in Bodies /\ obj' = obj /\ call' = call /\ pool # {}
    BY <1>5, Frames DEF Close, Drop
  <2>2. LedgerTyped
    BY <1>5, <2>1, Frames DEF Close, Drop, LedgerTyped
  <2>3. QED
    BY <1>4, <2>1, <2>2 DEF Fresh
<1>6. CASE OtherClient
  <2>1. LedgerTyped
    BY <1>6, Frames DEF OtherClient, LedgerTyped
  <2>2. QED
    BY <1>4, <1>6, <2>1 DEF OtherClient, Fresh
<1>7. CASE UNCHANGED vars
  <2>1. LedgerTyped
    BY <1>7, Frames DEF vars, LedgerTyped
  <2>2. QED
    BY <1>4, <1>7, <2>1 DEF vars, Fresh
<1>8. QED
  BY <1>1, <1>2, <1>3, <1>5, <1>6, <1>7 DEF Next

(* Objects and calls keep their shape: what a call needs after its await   *)
(* is there.                                                               *)
THEOREM TypeCorrect == Spec => []TypeOK
<1>1. TypeInv => TypeOK
  BY DEF TypeInv
<1>2. QED
  BY <1>1, TypeInvInit, TypeInvStep, PTL DEF Spec

-----------------------------------------------------------------------------
(* One sequence number for all versions, and what follows from it.         *)

OneNumber(n) ==
  /\ \A o \in Objs : obj[o].built # None => obj[o].built.seq = n
  /\ \A o \in Objs : obj[o].signed # None => obj[o].signed.seq = n
  /\ \A c \in Calls : call[c].tx # None => call[c].tx.seq = n
  /\ \A b \in pool : b.seq = n
  /\ \A a \in applied : a.body.seq = n /\ n <= ledgerSeq

(* A status is only ever reported at the end of a call. *)
Reported ==
  \A c \in Calls : call[c].outcome \in {"SUCCESS", "FAILED"} =>
    /\ call[c].pc = "done"
    /\ [body |-> Body(call[c].tx), status |-> call[c].outcome] \in applied

Inv ==
  /\ TypeInv
  /\ \E n \in Nat : OneNumber(n)
  /\ AtMostOneApplied
  /\ Reported

(* How a step changes the calls: one of them at most, which had not ended, *)
(* whose transaction is kept or t, and whose outcome is kept or a status   *)
(* of that transaction.                                                    *)
CallMoves(c, t) ==
  /\ \A d \in Calls : d # c => call'[d] = call[d]
  /\ call[c].pc # "done"
  /\ call'[c].tx \in {call[c].tx, t}
  /\ call'[c].outcome \in {"SUCCESS", "FAILED"} =>
       \/ call'[c].outcome = call[c].outcome
       \/ /\ call'[c].tx = call[c].tx /\ call'[c].pc = "done"
          /\ [body |-> Body(call[c].tx), status |-> call'[c].outcome] \in applied

LEMMA EndsMoves ==
  ASSUME TypeInv, NEW c \in Calls, call[c].pc # "done",
         NEW outcome \in Outcomes, Ends(c, outcome),
         outcome \in {"SUCCESS", "FAILED"} =>
           [body |-> Body(call[c].tx), status |-> outcome] \in applied
  PROVE  CallMoves(c, call[c].tx)
<1>1. \A d \in Calls : d # c => call'[d] = call[d]
  BY DEF TypeInv, TypeOK, Ends
<1>2. call'[c].tx = call[c].tx /\ call'[c].outcome = outcome /\ call'[c].pc = "done"
  BY DEF TypeInv, TypeOK, Ends
<1>3. QED
  BY <1>1, <1>2 DEF CallMoves

LEMMA TakesMoves ==
  ASSUME TypeInv, NEW c \in Calls, call[c].pc # "done", NEW pc, NEW t,
         Takes(c, pc, t)
  PROVE  CallMoves(c, t)
<1>1. \A d \in Calls : d # c => call'[d] = call[d]
  BY DEF TypeInv, TypeOK, Takes
<1>2. call'[c].tx = t /\ call'[c].outcome = call[c].outcome
  BY DEF TypeInv, TypeOK, Takes
<1>3. QED
  BY <1>1, <1>2 DEF CallMoves

LEMMA StartsMoves ==
  ASSUME TypeInv, NEW c \in Calls, MayStart(c), NEW op, NEW o, NEW pc, NEW t,
         Starts(c, op, o, pc, t)
  PROVE  CallMoves(c, t)
<1>1. \A d \in Calls : d # c => call'[d] = call[d]
  BY DEF TypeInv, TypeOK, Starts
<1>2. call'[c].tx = t /\ call'[c].outcome = "none"
  BY DEF TypeInv, TypeOK, Starts
<1>3. QED
  BY <1>1, <1>2 DEF CallMoves, MayStart

(* What a step has to show: its objects, its call and its ledger keep the  *)
(* number.                                                                 *)
ObjNumber(n) ==
  \A o \in Objs : /\ obj'[o].built # None => obj'[o].built.seq = n
                  /\ obj'[o].signed # None => obj'[o].signed.seq = n

LEMMA CallStepInv ==
  ASSUME Inv, NEW n \in Nat, OneNumber(n), TypeInv',
         NEW c \in Calls, NEW t \in Txs \cup {None}, CallMoves(c, t),
         t # None => t.seq = n, ObjNumber(n),
         ledgerSeq' = ledgerSeq, applied' = applied,
         pool' = pool \/ (pool' = {Body(call[c].tx)} /\ call[c].tx \in Txs)
  PROVE  Inv'
<1>1. OneNumber(n)'
  <2>1. \A d \in Calls : call'[d].tx # None => call'[d].tx.seq = n
    BY DEF CallMoves, OneNumber
  <2>2. \A b \in pool' : b.seq = n
    <3>1. CASE pool' = pool
      BY <3>1 DEF OneNumber
    <3>2. CASE pool' = {Body(call[c].tx)} /\ call[c].tx \in Txs
      BY <3>2, CallAssumption DEF OneNumber, Body
    <3>3. QED
      BY <3>1, <3>2
  <2>3. QED
    BY <2>1, <2>2 DEF OneNumber, ObjNumber
<1>2. Reported'
  <2> SUFFICES ASSUME NEW d \in Calls, call'[d].outcome \in {"SUCCESS", "FAILED"}
               PROVE  /\ call'[d].pc = "done"
                      /\ [body |-> Body(call'[d].tx), status |-> call'[d].outcome] \in applied
    BY DEF Reported, Body
  <2>1. CASE d # c
    BY <2>1 DEF CallMoves, Inv, Reported
  <2>2. CASE d = c
    <3>1. call[c].outcome \notin {"SUCCESS", "FAILED"}
      BY DEF CallMoves, Inv, Reported
    <3>2. QED
      BY <2>2, <3>1 DEF CallMoves
  <2>3. QED
    BY <2>1, <2>2
<1>3. QED
  BY <1>1, <1>2 DEF Inv, AtMostOneApplied

(* A first version: nothing holds another number. *)
LEMMA FirstVersion ==
  ASSUME Inv, TypeInv', Fresh, NEW o \in Objs, NEW t \in Txs,
         \A p \in Objs : p # o => obj'[p] = Absent,
         obj'[o].built = t, obj'[o].signed = None,
         \A c \in Calls : call'[c].tx = call[c].tx /\ call'[c].outcome = call[c].outcome
                            /\ (call[c].pc = "done" => call'[c].pc = "done"),
         UNCHANGED external
  PROVE  Inv'
<1>1. OneNumber(t.seq)' /\ t.seq \in Nat
  BY DEF OneNumber, Fresh, Absent, external, Txs
<1>2. Reported'
  BY DEF Reported, Inv, external, Body
<1>3. AtMostOneApplied'
  BY DEF AtMostOneApplied, Inv, external
<1>4. QED
  BY <1>1, <1>2, <1>3 DEF Inv

LEMMA StartInv ==
  ASSUME Inv, TypeInv', NEW c \in Calls, Start(c)
  PROVE  Inv'
<1>0. TypeInv
  BY DEF Inv
<1>1. PICK n \in Nat : OneNumber(n)
  BY DEF Inv
<1>2. UNCHANGED obj => ObjNumber(n)
  BY <1>1 DEF OneNumber, ObjNumber
<1>3. ASSUME NEW o \in Objs, NEW op, NEW pc, NEW t \in Txs \cup {None},
             MayStart(c), Starts(c, op, o, pc, t), t # None => t.seq = n,
             UNCHANGED <<obj, external>>
      PROVE  Inv'
  <2>1. CallMoves(c, t)
    BY <1>0, <1>3, StartsMoves
  <2>2. ObjNumber(n) /\ ledgerSeq' = ledgerSeq /\ applied' = applied /\ pool' = pool
    BY <1>2, <1>3 DEF external
  <2>3. QED
    BY <1>1, <1>3, <2>1, <2>2, CallStepInv
<1>4. ASSUME NEW o \in Objs, Usable(o)
      PROVE  /\ obj[o].built \in Txs /\ obj[o].built.seq = n
             /\ TxToSend(o) \in Txs /\ TxToSend(o).seq = n
  BY <1>0, <1>1, <1>4, UsableQuiet, CallAssumption DEF OneNumber, TxToSend
<1>5. CASE BuildWithOp(c)
  <2>1. /\ \A d \in Calls : d # c => call'[d] = call[d]
        /\ call'[c].tx = call[c].tx /\ call'[c].outcome = "refused" /\ call[c].pc = "idle"
    BY <1>0, <1>5 DEF BuildWithOp, MayStart, TypeInv, TypeOK
  <2>2. CallMoves(c, None)
    BY <2>1 DEF CallMoves
  <2>3. ObjNumber(n) /\ ledgerSeq' = ledgerSeq /\ applied' = applied /\ pool' = pool
    BY <1>2, <1>5 DEF external, BuildWithOp
  <2>4. QED
    BY <1>1, <2>2, <2>3, CallStepInv
<1>6. ASSUME NEW o \in Objs, BuildCall(c, o) PROVE Inv'
  BY <1>3, <1>6 DEF BuildCall
<1>7. ASSUME NEW o \in Objs, SimulateCall(c, o) PROVE Inv'
  BY <1>3, <1>7 DEF SimulateCall
<1>8. ASSUME NEW o \in Objs, SignCall(c, o) PROVE Inv'
  BY <1>3, <1>4, <1>8 DEF SignCall
<1>9. ASSUME NEW o \in Objs, SendCall(c, o) PROVE Inv'
  BY <1>3, <1>4, <1>9 DEF SendCall
<1>10. ASSUME NEW o \in Objs, PollCall(c, o) PROVE Inv'
  BY <1>3, <1>4, <1>10 DEF PollCall
<1>11. QED
  BY <1>5, <1>6, <1>7, <1>8, <1>9, <1>10 DEF Start

LEMMA ContinueInv ==
  ASSUME Inv, TypeInv', NEW c \in Calls, Continue(c)
  PROVE  Inv'
<1>0. TypeInv
  BY DEF Inv
<1>1. PICK n \in Nat : OneNumber(n)
  BY DEF Inv
<1>2. UNCHANGED obj => ObjNumber(n)
  BY <1>1 DEF OneNumber, ObjNumber
<1>3. ASSUME Active(c)
      PROVE  /\ call[c].pc # "done" /\ call[c].tx \in Txs \cup {None}
             /\ call[c].tx # None => call[c].tx.seq = n
             /\ call[c].obj \in Objs
             /\ call[c].pc \in NeedsTx => call[c].tx \in Txs /\ call[c].tx # None
  BY <1>0, <1>1, <1>3, Frames DEF OneNumber, TypeInv, Held, HoldsFor
(* A call that moves on with t, or ends, and sets no new version but v.    *)
<1>4. ASSUME NEW t \in Txs \cup {None}, CallMoves(c, t), t # None => t.seq = n,
             ObjNumber(n), UNCHANGED external
      PROVE  Inv'
  BY <1>1, <1>4, CallStepInv DEF external
<1>5. CASE BuildAccount(c)
  <2>1. Building(c)
    BY <1>0, <1>5 DEF BuildAccount, Building, TypeInv, Held, HoldsFor
  <2>2. PICK k \in {ledgerSeq, 0} :
          obj' = [obj EXCEPT ![call[c].obj] = [Absent EXCEPT !.built = NewTx(k)]]
    BY <1>5 DEF BuildAccount
  <2>3. NewTx(k) \in Txs
    BY <1>0, Frames, NewTxType
  <2>4. Fresh /\ call[c].obj \in Objs /\ \A o \in Objs : obj[o] = Absent
    BY <1>0, <1>5, <2>1, BuildingFacts DEF NoObject, BuildAccount
  <2>5. /\ obj'[call[c].obj].built = NewTx(k) /\ obj'[call[c].obj].signed = None
        /\ \A p \in Objs : p # call[c].obj => obj'[p] = Absent
    BY <1>0, <2>2, <2>4, Frames DEF Absent
  <2>6. \A d \in Calls : call'[d].tx = call[d].tx /\ call'[d].outcome = call[d].outcome
                           /\ (call[d].pc = "done" => call'[d].pc = "done")
    BY <1>0, <1>5, Frames DEF BuildAccount, Goes, TypeOK
  <2>7. QED
    BY <1>5, <2>3, <2>4, <2>5, <2>6, FirstVersion DEF BuildAccount
<1>6. ASSUME SimulationFails(c) \/ SimulationSucceeds(c) PROVE Inv'
  <2>1. Active(c) /\ UNCHANGED external
    BY <1>6 DEF SimulationFails, SimulationSucceeds
  <2>2. PICK s \in {"error", "success"} :
          obj' = [obj EXCEPT ![call[c].obj].simulation = s]
    BY <1>6 DEF SimulationFails, SimulationSucceeds
  <2>3. \A o \in Objs : obj'[o].built = obj[o].built /\ obj'[o].signed = obj[o].signed
    BY <1>0, <2>2, Frames DEF Obj
  <2>4. ObjNumber(n)
    BY <1>1, <2>3 DEF OneNumber, ObjNumber
  <2>5. CASE SimulationFails(c)
    <3>1. CallMoves(c, call[c].tx)
      BY <1>0, <1>3, <2>1, <2>5, EndsMoves DEF SimulationFails, Outcomes
    <3>2. QED
      BY <1>3, <1>4, <2>1, <2>4, <3>1
  <2>6. CASE SimulationSucceeds(c)
    <3>1. CallMoves(c, obj[call[c].obj].built)
      BY <1>0, <1>3, <2>1, <2>6, GoesWithShape, TakesMoves, Frames DEF SimulationSucceeds
    <3>2. obj[call[c].obj].built \in Txs \cup {None}
      BY <1>0, <1>3, <2>1, Frames DEF Obj, MaybeTx
    <3>3. QED
      BY <1>1, <1>3, <1>4, <2>1, <2>4, <3>1, <3>2 DEF OneNumber
  <2>7. QED
    BY <1>6, <2>5, <2>6
<1>7. CASE PrepareAnswers(c)
  <2>1. Active(c) /\ UNCHANGED external /\ call[c].pc \in NeedsTx
    BY <1>7 DEF PrepareAnswers, NeedsTx
  <2>2. Assemble(call[c].tx).seq = n
    BY <1>3, <2>1, AssembleType
  <2>3. \A o \in Objs : /\ obj'[o].signed = obj[o].signed
                        /\ obj'[o].built = obj[o].built \/ obj'[o].built = Assemble(call[c].tx)
    BY <1>0, <1>7, Frames DEF Obj, PrepareAnswers
  <2>4. ObjNumber(n)
    BY <1>1, <2>2, <2>3 DEF OneNumber, ObjNumber
  <2>5. CallMoves(c, call[c].tx)
    BY <1>0, <1>3, <1>7, <2>1, EndsMoves DEF PrepareAnswers, Outcomes
  <2>6. QED
    BY <1>3, <1>4, <2>1, <2>4, <2>5
<1>8. CASE SignResolves(c)
  <2> DEFINE t == [call[c].tx EXCEPT !.sig = Body(call[c].tx)]
  <2>1. Active(c) /\ UNCHANGED external /\ call[c].pc \in NeedsTx
    BY <1>8 DEF SignResolves, NeedsTx
  <2>2. t.seq = n
    BY <1>3, <2>1, SignedType
  <2>3. \A o \in Objs : /\ obj'[o].signed = obj[o].signed \/ obj'[o].signed = t
                        /\ obj'[o].built = obj[o].built \/ obj'[o].built = t
    BY <1>0, <1>8, Frames DEF Obj, SignResolves
  <2> HIDE DEF t
  <2>4. ObjNumber(n)
    BY <1>1, <2>2, <2>3 DEF OneNumber, ObjNumber
  <2>5. CallMoves(c, call[c].tx)
    <3>1. CASE call[c].op = "sign"
      BY <1>0, <1>3, <1>8, <2>1, <3>1, EndsMoves DEF SignResolves, Outcomes
    <3>2. CASE call[c].op # "sign"
      BY <1>0, <1>3, <1>8, <2>1, <3>2, GoesShape, TakesMoves, Frames DEF SignResolves
    <3>3. QED
      BY <3>1, <3>2
  <2>6. QED
    BY <1>3, <1>4, <2>1, <2>4, <2>5
<1>9. CASE SendSigned(c)
  <2>1. Active(c) /\ UNCHANGED <<obj, external>> /\ ~Building(c)
    BY <1>9 DEF SendSigned, Building
  <2>2. TxToSend(call[c].obj) \in Txs /\ TxToSend(call[c].obj).seq = n
    BY <1>0, <1>1, <1>3, <2>1, ActiveQuiet, Frames, CallAssumption
    DEF TxToSend, OneNumber, Obj, MaybeTx
  <2>3. CallMoves(c, TxToSend(call[c].obj))
    BY <1>0, <1>3, <1>9, <2>1, GoesWithShape, TakesMoves, Frames DEF SendSigned
  <2>4. QED
    BY <1>2, <1>4, <2>1, <2>2, <2>3
<1>10. ASSUME SubmitAccepted(c) \/ SubmitLost(c) PROVE Inv'
  <2>1. /\ Active(c) /\ call[c].pc \in NeedsTx /\ obj' = obj
        /\ ledgerSeq' = ledgerSeq /\ applied' = applied /\ pool' = {Body(call[c].tx)}
    BY <1>10 DEF SubmitAccepted, SubmitLost, NeedsTx
  <2>2. CASE SubmitAccepted(c)
    BY <1>0, <1>3, <2>1, <2>2, GoesShape, TakesMoves, Frames, <1>1, <1>2, CallStepInv
    DEF SubmitAccepted
  <2>3. CASE SubmitLost(c)
    <3>1. PICK outcome \in {"rejected", "SendFailed"} : Ends(c, outcome)
      BY <2>3 DEF SubmitLost
    <3>2. CallMoves(c, call[c].tx)
      BY <1>0, <1>3, <2>1, <3>1, EndsMoves DEF Outcomes
    <3>3. QED
      BY <1>1, <1>2, <1>3, <2>1, <3>2, CallStepInv
  <2>4. QED
    BY <1>10, <2>2, <2>3
(* The steps that neither write an object nor reach the ledger. *)
<1>11. ASSUME Active(c), UNCHANGED <<obj, external>>, CallMoves(c, call[c].tx)
       PROVE  Inv'
  BY <1>2, <1>3, <1>4, <1>11
<1>12. ASSUME PrepareFails(c) \/ SubmitFails(c) PROVE Inv'
  <2>1. Active(c) /\ UNCHANGED <<obj, external>>
    BY <1>12 DEF PrepareFails, SubmitFails
  <2>2. PICK outcome \in {"ok", "SendFailed"} : Ends(c, outcome)
    BY <1>12 DEF PrepareFails, SubmitFails
  <2>3. QED
    BY <1>0, <1>3, <1>11, <2>1, <2>2, EndsMoves DEF Outcomes
<1>13. ASSUME SubmitPolledAnyway(c) \/ Wake(c) PROVE Inv'
  <2>1. Active(c) /\ UNCHANGED <<obj, external>>
    BY <1>13 DEF SubmitPolledAnyway, Wake
  <2>2. PICK pc \in {"sleeping", "asking"} : Goes(c, pc)
    BY <1>13 DEF SubmitPolledAnyway, Wake
  <2>3. QED
    BY <1>0, <1>3, <1>11, <2>1, <2>2, GoesShape, TakesMoves, Frames
<1>14. CASE AskNotFound(c)
  <2>1. Active(c) /\ UNCHANGED <<obj, external>>
    BY <1>14 DEF AskNotFound
  <2>2. /\ \A d \in Calls : d # c => call'[d] = call[d]
        /\ call'[c].tx = call[c].tx
        /\ call'[c].outcome \in {call[c].outcome, "StillPending"}
    BY <1>0, <1>14, Frames DEF AskNotFound, TypeOK
  <2>3. CallMoves(c, call[c].tx)
    BY <1>3, <2>1, <2>2 DEF CallMoves
  <2>4. QED
    BY <1>11, <2>1, <2>3
<1>15. CASE AskFound(c)
  <2>1. Active(c) /\ UNCHANGED <<obj, external>>
    BY <1>15 DEF AskFound
  <2>2. PICK a \in applied : a.body = Body(call[c].tx) /\ Ends(c, a.status)
    BY <1>15 DEF AskFound
  <2>3. a.status \in Outcomes /\ [body |-> Body(call[c].tx), status |-> a.status] = a
    BY <1>0, <2>2, Frames DEF Outcomes
  <2>4. CallMoves(c, call[c].tx)
    BY <1>0, <1>3, <2>1, <2>2, <2>3, EndsMoves
  <2>5. QED
    BY <1>11, <2>1, <2>4
<1>16. ASSUME NEW outcome \in {"rejected", "refused"}, Active(c), Fails(c, outcome)
       PROVE  Inv'
  <2>1. Ends(c, outcome) /\ UNCHANGED external
    BY <1>16 DEF Fails
  <2>2. CallMoves(c, call[c].tx)
    BY <1>0, <1>3, <1>16, <2>1, EndsMoves DEF Outcomes
  <2>3. \A o \in Objs : obj'[o] = obj[o] \/ obj'[o] = Absent
    BY <1>0, <1>16, Frames DEF Fails
  <2>4. ObjNumber(n)
    BY <1>1, <2>3 DEF OneNumber, ObjNumber, Absent
  <2>5. QED
    BY <1>3, <1>4, <1>16, <2>1, <2>2, <2>4
<1>17. ASSUME CallRejects(c) \/ EncodeRefuses(c) PROVE Inv'
  BY <1>16, <1>17 DEF CallRejects, EncodeRefuses
<1>18. QED
  BY <1>5, <1>6, <1>7, <1>8, <1>9, <1>10, <1>12, <1>13, <1>14, <1>15, <1>17 DEF Continue
(* What the caller does between calls, and the ledger. *)
LEMMA ImportInv ==
  ASSUME Inv, TypeInv', NEW o \in Objs, Import(o)
  PROVE  Inv'
<1>0. TypeInv
  BY DEF Inv
<1>1. PICK fees \in {0, 1} :
        obj' = [obj EXCEPT ![o] = FromXDR([seq |-> ledgerSeq + 1, soroban |-> TRUE,
                                           fees |-> fees, sig |-> None])]
  BY DEF Import
<1> DEFINE t == [seq |-> ledgerSeq + 1, soroban |-> TRUE, fees |-> fees, sig |-> None]
<1>2. t \in Txs
  BY <1>0, Frames DEF Txs
<1>3. NoObject /\ Fresh /\ call' = call /\ UNCHANGED external
  BY <1>0 DEF Import, TypeInv
<1> HIDE DEF t
<1>4. /\ \A p \in Objs : p # o => obj'[p] = Absent
      /\ obj'[o].built = t /\ obj'[o].signed = None
  BY <1>0, <1>1, <1>3, Frames DEF NoObject, FromXDR, t
<1>5. QED
  BY <1>2, <1>3, <1>4, FirstVersion

LEMMA CopyInv ==
  ASSUME Inv, TypeInv', NEW o \in Objs, NEW p \in Objs, Copy(o, p)
  PROVE  Inv'
<1>1. PICK n \in Nat : OneNumber(n)
  BY DEF Inv
<1>2. Usable(o) /\ call' = call /\ UNCHANGED external
  BY DEF Copy
<1>3. PICK v \in {FromXDR(obj[o].built), FromJSON(ToJSON(o))} :
        obj' = [obj EXCEPT ![p] = v]
  BY DEF Copy
<1>4. v.built = obj[o].built /\ v.signed = None /\ obj[o].built.seq = n
  BY <1>1, <1>2 DEF FromXDR, FromJSON, ToJSON, OneNumber, Usable
<1>5. \A q \in Objs : obj'[q] = obj[q] \/ obj'[q] = v
  BY <1>3, Frames DEF Inv
<1>6. OneNumber(n)'
  BY <1>1, <1>2, <1>4, <1>5 DEF OneNumber, external
<1>7. QED
  BY <1>2, <1>6 DEF Inv, AtMostOneApplied, Reported, external

(* The ledger takes the number once: the first version to close uses up    *)
(* the number that all the others have.                                    *)
LEMMA CloseFirst ==
  ASSUME Inv, NEW b \in pool, Close(b)
  PROVE  /\ applied = {}
         /\ \E n \in Nat : OneNumber(n) /\ b.seq = n /\ n = ledgerSeq + 1
<1>1. PICK n \in Nat : OneNumber(n)
  BY DEF Inv
<1>2. b.seq = n /\ n = ledgerSeq + 1 /\ ledgerSeq \in Nat
  BY <1>1, Frames DEF OneNumber, Close, Inv
<1>3. applied = {}
  BY <1>1, <1>2 DEF OneNumber
<1>4. QED
  BY <1>1, <1>2, <1>3

LEMMA LedgerInv ==
  ASSUME Inv, TypeInv', (\E b \in pool : Close(b) \/ Drop(b)) \/ OtherClient
  PROVE  Inv'
<1>1. obj' = obj /\ call' = call
  BY DEF Close, Drop, OtherClient
<1>2. ASSUME NEW b \in pool, Close(b) PROVE Inv'
  <2>1. PICK n \in Nat : OneNumber(n) /\ b.seq = n /\ n = ledgerSeq + 1
    BY <1>2, CloseFirst
  <2>2. PICK s \in {"SUCCESS", "FAILED"} : applied' = {[body |-> b, status |-> s]}
    BY <1>2, CloseFirst DEF Close
  <2>3. ledgerSeq' = n /\ pool' \subseteq pool
    BY <1>2, <2>1 DEF Close
  <2>4. OneNumber(n)'
    BY <1>1, <2>1, <2>2, <2>3 DEF OneNumber
  <2>5. AtMostOneApplied'
    BY <2>2 DEF AtMostOneApplied
  <2>6. Reported'
    BY <1>1, <1>2, CloseFirst DEF Reported, Inv
  <2>7. QED
    BY <2>4, <2>5, <2>6 DEF Inv
<1>3. ASSUME ledgerSeq' \in Nat, ledgerSeq' >= ledgerSeq, pool' \subseteq pool,
             applied' = applied
      PROVE  Inv'
  <2>1. PICK n \in Nat : OneNumber(n)
    BY DEF Inv
  <2>2. ledgerSeq \in Nat
    BY Frames DEF Inv
  <2>3. OneNumber(n)'
    BY <1>1, <1>3, <2>1, <2>2 DEF OneNumber
  <2>4. QED
    BY <1>1, <1>3, <2>3 DEF Inv, AtMostOneApplied, Reported, Body
<1>4. ASSUME NEW b \in pool, Drop(b) PROVE Inv'
  BY <1>3, <1>4, Frames DEF Drop, Inv
<1>5. CASE OtherClient
  BY <1>3, <1>5, Frames DEF OtherClient, Inv
<1>6. QED
  BY <1>2, <1>4, <1>5

LEMMA InvInit == Init => Inv
<1> SUFFICES ASSUME Init PROVE Inv
  OBVIOUS
<1>1. OneNumber(0) /\ 0 \in Nat
  BY DEF Init, OneNumber, Absent, Idle
<1>2. QED
  BY <1>1, TypeInvInit DEF Init, Inv, AtMostOneApplied, Reported, Idle

LEMMA InvStep == Inv /\ [Next]_vars => Inv'
<1> SUFFICES ASSUME Inv, [Next]_vars PROVE Inv'
  OBVIOUS
<1>1. TypeInv'
  BY TypeInvStep DEF Inv
<1>2. CASE UNCHANGED vars
  BY <1>1, <1>2 DEF Inv, vars, OneNumber, AtMostOneApplied, Reported, Body
<1>3. CASE Next
  BY <1>1, <1>3, StartInv, ContinueInv, ImportInv, CopyInv, LedgerInv DEF Next
<1>4. QED
  BY <1>2, <1>3

(* However often the transaction is simulated, signed, copied and sent     *)
(* again, the ledger applies at most one of its versions: assembling keeps *)
(* the sequence number build() gave it.                                    *)
THEOREM AtMostOnce == Spec => []AtMostOneApplied
<1>1. Inv => AtMostOneApplied
  BY DEF Inv
<1>2. QED
  BY <1>1, InvInit, InvStep, PTL DEF Spec

(* A call of send(), signAndSend() or pollTransaction() that ends with a   *)
(* status tells what the ledger did with the version it sent or asked for. *)
THEOREM OutcomesAreTrue == Spec => []OutcomeIsTheLedgers
<1>1. Inv => OutcomeIsTheLedgers
  BY DEF Inv, Reported, OutcomeIsTheLedgers
<1>2. QED
  BY <1>1, InvInit, InvStep, PTL DEF Spec

-----------------------------------------------------------------------------
(* What a caller is told implements TransactionFate.                       *)

LEMMA OneCallMoves ==
  ASSUME TypeInv, NEW c \in Calls, Start(c) \/ Continue(c)
  PROVE  /\ applied' = applied
         /\ call[c].pc # "done"
         /\ \A d \in Calls : d # c => call'[d] = call[d]
<1> DEFINE Only == \A d \in Calls : d # c => call'[d] = call[d]
<1>0. call \in [Calls -> Call]
  BY Frames DEF TypeOK, Call
<1>1. ASSUME NEW r, call' = [call EXCEPT ![c] = r] PROVE Only
  BY <1>0, <1>1
<1>2. ASSUME NEW op, NEW o, NEW pc, NEW t, Starts(c, op, o, pc, t) PROVE Only
  BY <1>1, <1>2 DEF Starts
<1>3. ASSUME NEW outcome, Ends(c, outcome) PROVE Only
  BY <1>0, <1>3 DEF Ends
<1>4. ASSUME NEW pc, Goes(c, pc) PROVE Only
  BY <1>0, <1>4 DEF Goes
<1>5. ASSUME NEW pc, NEW t, GoesWith(c, pc, t) PROVE Only
  BY <1>0, <1>5 DEF GoesWith
<1> HIDE DEF Only
<1>6. ASSUME Start(c) PROVE applied' = applied /\ call[c].pc # "done" /\ Only
  <2>1. CASE BuildWithOp(c)
    BY <1>0, <2>1 DEF BuildWithOp, MayStart, external, Only
  <2>2. CASE ~BuildWithOp(c)
    BY <1>2, <1>6, <2>2 DEF Start, MayStart, BuildCall, SimulateCall, SignCall, SendCall,
       PollCall, external
  <2>3. QED
    BY <2>1, <2>2
<1>7. ASSUME Continue(c) PROVE applied' = applied /\ call[c].pc # "done" /\ Only
  <2>1. ASSUME \/ BuildAccount(c) \/ SimulationFails(c) \/ SimulationSucceeds(c)
               \/ PrepareAnswers(c) \/ PrepareFails(c) \/ SignResolves(c) \/ SendSigned(c)
        PROVE  applied' = applied /\ call[c].pc # "done" /\ Only
    BY <1>3, <1>4, <1>5, <2>1 DEF BuildAccount, SimulationFails, SimulationSucceeds,
       PrepareAnswers, PrepareFails, SignResolves, SendSigned, external
  <2>2. ASSUME \/ SubmitAccepted(c) \/ SubmitPolledAnyway(c) \/ SubmitFails(c)
               \/ SubmitLost(c) \/ Wake(c) \/ AskFound(c) \/ CallRejects(c) \/ EncodeRefuses(c)
        PROVE  applied' = applied /\ call[c].pc # "done" /\ Only
    BY <1>3, <1>4, <2>2 DEF SubmitAccepted, SubmitPolledAnyway, SubmitFails, SubmitLost,
       Wake, AskFound, CallRejects, EncodeRefuses, Fails, external
  <2>3. CASE AskNotFound(c)
    BY <1>0, <2>3 DEF AskNotFound, external, Only
  <2>4. QED
    BY <1>7, <2>1, <2>2, <2>3 DEF Continue
<1>8. QED
  BY <1>6, <1>7 DEF Only

LEMMA FateOfApplied ==
  ASSUME AtMostOneApplied, NEW a \in applied
  PROVE  Fate = a.status
BY DEF AtMostOneApplied, Fate

(* The call that moves tells the fate, gives up, or goes on waiting. *)
LEMMA CallTells ==
  ASSUME Inv, Inv', NEW c \in Calls, Start(c) \/ Continue(c)
  PROVE  [TF!FateNext]_TF!fateVars
<1>1. /\ applied' = applied /\ call[c].pc # "done"
      /\ \A d \in Calls : d # c => call'[d] = call[d]
  BY OneCallMoves DEF Inv
<1>2. Fate' = Fate
  BY <1>1 DEF Fate
<1>3. Told[c] = "waiting"
  BY <1>1 DEF Told
<1>4. Told' = [Told EXCEPT ![c] = Told'[c]]
  BY <1>1 DEF Told
<1>5. CASE call'[c].pc # "done"
  <2>1. Told'[c] = "waiting"
    BY <1>5 DEF Told
  <2>2. Told' = Told
    BY <1>3, <1>4, <2>1 DEF Told
  <2>3. QED
    BY <1>2, <2>2 DEF TF!fateVars
<1>6. CASE call'[c].pc = "done" /\ call'[c].outcome \notin {"SUCCESS", "FAILED"}
  <2>1. Told'[c] = "unknown"
    BY <1>6 DEF Told
  <2>2. TF!GiveUp(c)
    BY <1>2, <1>3, <1>4, <2>1 DEF TF!GiveUp
  <2>3. QED
    BY <2>2 DEF TF!FateNext
<1>7. CASE call'[c].pc = "done" /\ call'[c].outcome \in {"SUCCESS", "FAILED"}
  <2>1. [body |-> Body(call'[c].tx), status |-> call'[c].outcome] \in applied
    BY <1>1, <1>7 DEF Inv, Reported, Body
  <2>2. Fate = call'[c].outcome
    BY <2>1, FateOfApplied DEF Inv
  <2>3. Told'[c] = Fate /\ Fate \in {"SUCCESS", "FAILED"}
    BY <1>7, <2>2 DEF Told
  <2>4. TF!Tell(c)
    BY <1>2, <1>3, <1>4, <2>3 DEF TF!Tell
  <2>5. QED
    BY <2>4 DEF TF!FateNext
<1>8. QED
  BY <1>5, <1>6, <1>7

LEMMA CloseDecides ==
  ASSUME Inv, NEW b \in pool, Close(b)
  PROVE  [TF!FateNext]_TF!fateVars
<1>1. PICK s \in {"SUCCESS", "FAILED"} : applied' = {[body |-> b, status |-> s]}
  BY CloseFirst DEF Close
<1>2. Fate = "open"
  BY CloseFirst DEF Fate
<1>3. Fate' = s
  <2>1. (CHOOSE a \in applied' : TRUE) \in applied'
    BY <1>1
  <2>2. QED
    BY <1>1, <2>1 DEF Fate
<1>4. Told' = Told
  BY DEF Told, Close
<1>5. TF!Decide(s)
  BY <1>2, <1>3, <1>4 DEF TF!Decide
<1>6. QED
  BY <1>5 DEF TF!FateNext

LEMMA FateStep == Inv /\ Inv' /\ [Next]_vars => [TF!FateNext]_TF!fateVars
<1> SUFFICES ASSUME Inv, Inv', [Next]_vars PROVE [TF!FateNext]_TF!fateVars
  OBVIOUS
<1>1. ASSUME call' = call, applied' = applied PROVE [TF!FateNext]_TF!fateVars
  BY <1>1 DEF TF!fateVars, Told, Fate
<1>2. ASSUME NEW o \in Objs, Import(o) \/ \E p \in Objs : Copy(o, p)
      PROVE  [TF!FateNext]_TF!fateVars
  BY <1>1, <1>2 DEF Import, Copy, external
<1>3. ASSUME NEW b \in pool, Drop(b) PROVE [TF!FateNext]_TF!fateVars
  BY <1>1, <1>3 DEF Drop
<1>4. CASE OtherClient
  BY <1>1, <1>4 DEF OtherClient
<1>5. CASE UNCHANGED vars
  BY <1>1, <1>5 DEF vars
<1>6. QED
  BY <1>2, <1>3, <1>4, <1>5, CallTells, CloseDecides DEF Next

(* However many calls send and poll for versions of the transaction, what  *)
(* they tell implements one fate that the ledger decides once.             *)
THEOREM ImplementsFate == Spec => TellsTheFate
<1>1. Init => TF!FateInit
  BY DEF Init, TF!FateInit, Fate, Told, Idle
<1>2. QED
  BY <1>1, InvInit, InvStep, FateStep, PTL DEF Spec, TellsTheFate, TF!FateSpec

=============================================================================
