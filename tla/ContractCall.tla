---------------------------- MODULE ContractCall -----------------------------
(***************************************************************************)
(* packages/stellar-sdk-comp contract/: AssembledTransaction and           *)
(* SentTransaction, with the parts of packages/rpc-client they reach:      *)
(* prepareTransaction and pollTransaction.                                 *)
(*                                                                         *)
(* The copies of one transaction (objects restored from XDR or JSON share  *)
(* its sequence number) and the calls made on them.  Every method is       *)
(* async: a call keeps its place (pc) and what it read before its await    *)
(* (tx), and the steps of calls under way interleave.  The RPC node and    *)
(* the ledger are external: an answer may be late, refused or lost after   *)
(* the node acted on the request.                                          *)
(*                                                                         *)
(* A transaction is its sequence number, whether it has its one Soroban    *)
(* operation, how many times a minimal resource fee was added to its fee,  *)
(* and what its signature covers.                                          *)
(***************************************************************************)
EXTENDS Naturals, FiniteSets

CONSTANTS
  Objs,        \* AssembledTransaction objects
  Calls,       \* calls of their methods and of pollTransaction
  OwnServer,   \* the objects whose server is one of this repository: the one
               \* _initServer makes without options.server, or a soroban-rpc
               \* Server; the others have some other object as their server
  Overlap,     \* the caller starts a call while another one is under way
  Resimulate,  \* the caller simulates an object it has signed
  MaxAttempts, \* polls of a transaction before giving up (30 in the code)
  None,        \* no transaction, no simulation, no signature, no object
  MaxFees,     \* bound: resource fees of a version
  MaxSeq       \* bound: the account's sequence number on the ledger

Bodies == [seq : Nat, soroban : BOOLEAN, fees : Nat]
Txs == [seq : Nat, soroban : BOOLEAN, fees : Nat, sig : Bodies \cup {None}]

ASSUME CallAssumption ==
  /\ OwnServer \subseteq Objs
  /\ Overlap \in BOOLEAN /\ Resimulate \in BOOLEAN
  /\ MaxAttempts \in Nat \ {0}
  /\ MaxFees \in Nat /\ MaxSeq \in Nat
  /\ None \notin Objs \cup Bodies \cup Txs

VARIABLES
  obj,       \* the objects the caller has, or that a build() is making
  call,      \* the calls
  ledgerSeq, \* the source account's sequence number on the ledger
  pool,      \* bodies the network accepted and has not applied
  applied    \* [body, status]: what the ledger applied

vars == <<obj, call, ledgerSeq, pool, applied>>

-----------------------------------------------------------------------------
(* What a hash and a signature cover: everything but the signature.        *)
Body(t) == [seq |-> t.seq, soroban |-> t.soroban, fees |-> t.fees]

Absent == [built |-> None, simulation |-> None, signed |-> None]

(* AssembledTransaction._build.  raw is only set by buildWithOp, which     *)
(* does not build: there is no operation to add.                           *)
NewTx(accountSeq) ==
  [seq |-> accountSeq + 1, soroban |-> FALSE, fees |-> 0, sig |-> None]

(* assembleTransaction: a new fee, and no signature.  Mutants: the         *)
(* signatures stay; a new sequence number; the fee is added twice.         *)
MutantAssembleKeepsSignature(t) == [t EXCEPT !.fees = @ + 1]
MutantAssembleNextNumber(t) == [t EXCEPT !.seq = @ + 1, !.fees = @ + 1, !.sig = None]
MutantAssembleFeeTwice(t) == [t EXCEPT !.fees = @ + 2, !.sig = None]
Assemble(t) == [t EXCEPT !.fees = @ + 1, !.sig = None]

(* A compat Transaction's toEnvelope() is a compat union, and the RPC      *)
(* client's codec encodes modern ones: given a compat one it throws, and   *)
(* with it every request that a server of this repository is asked for     *)
(* with a transaction.                                                     *)
ServerTakesCompat(o) == o \notin OwnServer

TxToSend(o) == IF obj[o].signed # None THEN obj[o].signed ELSE obj[o].built

(* toJSON names the simulation "simulation"; fromJSON reads                *)
(* "simulationResult".                                                     *)
ToJSON(o) == [tx |-> obj[o].built, simulation |-> obj[o].simulation]
FromJSON(data) ==
  [built |-> data.tx, signed |-> None,
   simulation |-> IF "simulationResult" \in DOMAIN data
                    THEN data.simulationResult ELSE None]
FromXDR(t) == [built |-> t, simulation |-> None, signed |-> None]

-----------------------------------------------------------------------------
Idle == [op |-> "none", obj |-> None, pc |-> "idle", tx |-> None,
         left |-> 0, outcome |-> "none"]

Active(c) == call[c].pc \notin {"idle", "done"}
MayStart(c) ==
  /\ call[c].pc = "idle"
  /\ Overlap \/ \A d \in Calls : ~Active(d)

(* The caller has the object, and it holds a transaction.                  *)
Usable(o) ==
  /\ obj[o].built # None
  /\ \A c \in Calls : ~(Active(c) /\ call[c].op = "build" /\ call[c].obj = o)

NoObject == \A o \in Objs : obj[o] = Absent

Goes(c, pc) == call' = [call EXCEPT ![c].pc = pc]
GoesWith(c, pc, t) == call' = [call EXCEPT ![c].pc = pc, ![c].tx = t]
Ends(c, outcome) ==
  call' = [call EXCEPT ![c].pc = "done", ![c].left = 0, ![c].outcome = outcome]
Starts(c, op, o, pc, t) ==
  call' = [call EXCEPT ![c] = [op |-> op, obj |-> o, pc |-> pc, tx |-> t,
                               left |-> MaxAttempts, outcome |-> "none"]]

Init ==
  /\ obj = [o \in Objs |-> Absent]
  /\ call = [c \in Calls |-> Idle]
  /\ ledgerSeq = 1
  /\ pool = {}
  /\ applied = {}

external == <<ledgerSeq, pool, applied>>

-----------------------------------------------------------------------------
(* Objects. *)

(* build() for a known source account: _build asks for its number.         *)
BuildCall(c, o) ==
  /\ MayStart(c) /\ NoObject
  /\ \A d \in Calls : ~(Active(d) /\ call[d].op = "build")
  /\ Starts(c, "build", o, "account", None)
  /\ UNCHANGED <<obj, external>>

(* No answer counts as number 0, and so does having no public key.         *)
BuildAccount(c) ==
  /\ call[c].pc = "account"
  /\ \E s \in {ledgerSeq, 0} :
       obj' = [obj EXCEPT ![call[c].obj] = [Absent EXCEPT !.built = NewTx(s)]]
  /\ Goes(c, "simulating")
  /\ UNCHANGED external

(* buildWithOp() sets raw, which only _build reads, and simulates what     *)
(* was never built: simulate() throws.                                     *)
BuildWithOp(c) ==
  /\ MayStart(c)
  /\ call' = [call EXCEPT ![c].op = "buildWithOp", ![c].pc = "done",
                          ![c].outcome = "refused"]
  /\ UNCHANGED <<obj, external>>

(* fromXDR() of an envelope that was not made here: a Soroban transaction, *)
(* prepared or not.                                                        *)
Import(o) ==
  /\ NoObject
  /\ \A d \in Calls : ~(Active(d) /\ call[d].op = "build")
  /\ \E fees \in {0, 1} :
       obj' = [obj EXCEPT ![o] = FromXDR([seq |-> ledgerSeq + 1, soroban |-> TRUE,
                                          fees |-> fees, sig |-> None])]
  /\ UNCHANGED <<call, external>>

(* toXDR() and fromXDR(), toJSON() and fromJSON(): one more object.        *)
Copy(o, p) ==
  /\ Usable(o) /\ obj[p] = Absent
  /\ obj' \in {[obj EXCEPT ![p] = FromXDR(obj[o].built)],
               [obj EXCEPT ![p] = FromJSON(ToJSON(o))]}
  /\ UNCHANGED <<call, external>>

-----------------------------------------------------------------------------
(* simulate(), which is also the end of build().                           *)

SimulateCall(c, o) ==
  /\ MayStart(c) /\ Usable(o)
  /\ obj[o].signed # None \/ obj[o].built.sig # None => Resimulate
  /\ Starts(c, "simulate", o, "simulating", None)
  /\ UNCHANGED <<obj, external>>

(* A failed simulation is kept, and there is nothing to prepare.           *)
SimulationFails(c) ==
  /\ call[c].pc = "simulating" /\ ServerTakesCompat(call[c].obj)
  /\ obj' = [obj EXCEPT ![call[c].obj].simulation = "error"]
  /\ Ends(c, "ok")
  /\ UNCHANGED external

(* built is read again, for the second request.                            *)
SimulationSucceeds(c) ==
  /\ call[c].pc = "simulating" /\ ServerTakesCompat(call[c].obj)
  /\ obj' = [obj EXCEPT ![call[c].obj].simulation = "success"]
  /\ GoesWith(c, "preparing", obj[call[c].obj].built)
  /\ UNCHANGED external

(* prepareTransaction() simulates once more and assembles; it takes        *)
(* exactly one Soroban operation.  The server gives an envelope, where the *)
(* Server of soroban-rpc would give base64, which is not encoded again.    *)
PrepareAnswers(c) ==
  /\ call[c].pc = "preparing"
  /\ call[c].tx.soroban
  /\ call[c].tx.fees < MaxFees
  /\ obj' = [obj EXCEPT ![call[c].obj].built = Assemble(call[c].tx)]
  /\ Ends(c, "ok")
  /\ UNCHANGED external

(* Whatever it throws is swallowed: built stays as it was.                 *)
PrepareFails(c) ==
  /\ call[c].pc = "preparing"
  /\ Ends(c, "ok")
  /\ UNCHANGED <<obj, external>>

-----------------------------------------------------------------------------
(* sign() and the first half of signAndSend().                             *)

SignCall(c, o) ==
  /\ MayStart(c) /\ Usable(o)
  /\ \E op \in {"sign", "signAndSend"} : Starts(c, op, o, "signing", obj[o].built)
  /\ UNCHANGED <<obj, external>>

(* The wallet signs what it was given, whatever built is by now.  Mutant:  *)
(* built is left alone.                                                    *)
MutantSignedIsNotBuilt(c) ==
  /\ call[c].pc = "signing"
  /\ obj' = [obj EXCEPT ![call[c].obj].signed =
               [call[c].tx EXCEPT !.sig = Body(call[c].tx)]]
  /\ IF call[c].op = "sign" THEN Ends(c, "ok") ELSE Goes(c, "signed")
  /\ UNCHANGED external
SignResolves(c) ==
  LET signed == [call[c].tx EXCEPT !.sig = Body(call[c].tx)] IN
  /\ call[c].pc = "signing"
  /\ obj' = [obj EXCEPT ![call[c].obj].signed = signed,
                        ![call[c].obj].built = signed]
  /\ IF call[c].op = "sign" THEN Ends(c, "ok") ELSE Goes(c, "signed")
  /\ UNCHANGED external

-----------------------------------------------------------------------------
(* send(): SentTransaction._send.                                          *)

SendCall(c, o) ==
  /\ MayStart(c) /\ Usable(o)
  /\ Starts(c, "send", o, "submitting", TxToSend(o))
  /\ UNCHANGED <<obj, external>>

SendSigned(c) ==
  /\ call[c].pc = "signed"
  /\ GoesWith(c, "submitting", TxToSend(call[c].obj))
  /\ UNCHANGED <<obj, external>>

(* What the ledger takes next from this account.                           *)
Valid(t) ==
  /\ t.seq = ledgerSeq + 1
  /\ t.sig = Body(t)
  /\ t.soroban /\ t.fees > 0

(* PENDING: one transaction of an account at a time.                       *)
SubmitAccepted(c) ==
  /\ call[c].pc = "submitting" /\ ServerTakesCompat(call[c].obj)
  /\ Valid(call[c].tx) /\ pool = {}
  /\ pool' = {Body(call[c].tx)}
  /\ Goes(c, "sleeping")
  /\ UNCHANGED <<obj, ledgerSeq, applied>>

(* DUPLICATE, or TRY_AGAIN_LATER: both are polled for like PENDING.        *)
SubmitPolledAnyway(c) ==
  /\ call[c].pc = "submitting" /\ ServerTakesCompat(call[c].obj)
  /\ Goes(c, "sleeping")
  /\ UNCHANGED <<obj, external>>

(* ERROR.                                                                  *)
SubmitFails(c) ==
  /\ call[c].pc = "submitting" /\ ServerTakesCompat(call[c].obj)
  /\ ~Valid(call[c].tx)
  /\ Ends(c, "SendFailed")
  /\ UNCHANGED <<obj, external>>

(* The node took it, and the answer is lost, has no hash, or makes         *)
(* onSubmitted throw.                                                      *)
SubmitLost(c) ==
  /\ call[c].pc = "submitting" /\ ServerTakesCompat(call[c].obj)
  /\ Valid(call[c].tx) /\ pool = {}
  /\ pool' = {Body(call[c].tx)}
  /\ \E outcome \in {"rejected", "SendFailed"} : Ends(c, outcome)
  /\ UNCHANGED <<obj, ledgerSeq, applied>>

-----------------------------------------------------------------------------
(* Waiting for the outcome.                                                *)

(* RpcClient.pollTransaction(): the same loop, which asks before it        *)
(* sleeps, for the hash of a transaction an object holds.                  *)
PollCall(c, o) ==
  /\ MayStart(c) /\ Usable(o)
  /\ Starts(c, "poll", o, "asking", TxToSend(o))
  /\ UNCHANGED <<obj, external>>

Wake(c) ==
  /\ call[c].pc = "sleeping"
  /\ Goes(c, "asking")
  /\ UNCHANGED <<obj, external>>

(* Mutants: the attempts are never used up; one attempt too many.          *)
MutantAskOneMore(c) ==
  /\ call[c].pc = "asking"
  /\ call' = [call EXCEPT
       ![c].left = @ - 1,
       ![c].pc = IF call[c].left = 0 THEN "done" ELSE "sleeping",
       ![c].outcome = IF call[c].left = 0 THEN "StillPending" ELSE @]
  /\ UNCHANGED <<obj, external>>
MutantAskForever(c) ==
  /\ call[c].pc = "asking"
  /\ Goes(c, "sleeping")
  /\ UNCHANGED <<obj, external>>

(* NOT_FOUND, which a node also answers for what it has not ingested yet.  *)
AskNotFound(c) ==
  /\ call[c].pc = "asking"
  /\ call' = [call EXCEPT
       ![c].left = @ - 1,
       ![c].pc = IF call[c].left = 1 THEN "done" ELSE "sleeping",
       ![c].outcome = IF call[c].left = 1 THEN "StillPending" ELSE @]
  /\ UNCHANGED <<obj, external>>

(* Mutant: what the network accepted counts as done.                       *)
MutantAskTakesPending(c) ==
  /\ call[c].pc = "asking"
  /\ Body(call[c].tx) \in pool \cup {a.body : a \in applied}
  /\ Ends(c, "SUCCESS")
  /\ UNCHANGED <<obj, external>>
AskFound(c) ==
  /\ call[c].pc = "asking"
  /\ \E a \in applied : a.body = Body(call[c].tx) /\ Ends(c, a.status)
  /\ UNCHANGED <<obj, external>>

-----------------------------------------------------------------------------
(* Any request of a call can fail, and so can the wallet and the caller's  *)
(* watcher.  An object whose build() rejects is lost.                      *)
Fails(c, outcome) ==
  /\ Ends(c, outcome)
  /\ obj' = IF call[c].op = "build"
              THEN [obj EXCEPT ![call[c].obj] = Absent] ELSE obj
  /\ UNCHANGED external

CallRejects(c) ==
  /\ call[c].pc \in {"simulating", "signing", "submitting", "asking"}
  /\ Fails(c, "rejected")

EncodeRefuses(c) ==
  /\ call[c].pc \in {"simulating", "submitting"}
  /\ ~ServerTakesCompat(call[c].obj)
  /\ Fails(c, "refused")

-----------------------------------------------------------------------------
(* The ledger. *)

Close(b) ==
  /\ b.seq = ledgerSeq + 1
  /\ \E s \in {"SUCCESS", "FAILED"} :
       applied' = applied \cup {[body |-> b, status |-> s]}
  /\ ledgerSeq' = ledgerSeq + 1
  /\ pool' = pool \ {b}
  /\ UNCHANGED <<obj, call>>

(* Its time bounds passed, or the network dropped it.                      *)
Drop(b) ==
  /\ pool' = pool \ {b}
  /\ UNCHANGED <<obj, call, ledgerSeq, applied>>

(* Another client of the same account was first.                           *)
OtherClient ==
  /\ ledgerSeq < MaxSeq
  /\ ledgerSeq' = ledgerSeq + 1
  /\ UNCHANGED <<obj, call, pool, applied>>

-----------------------------------------------------------------------------
Start(c) ==
  \/ BuildWithOp(c)
  \/ \E o \in Objs :
       \/ BuildCall(c, o) \/ SimulateCall(c, o) \/ SignCall(c, o)
       \/ SendCall(c, o) \/ PollCall(c, o)

(* What a call under way does next, with the answer it waits for.          *)
Continue(c) ==
  \/ BuildAccount(c)
  \/ SimulationFails(c) \/ SimulationSucceeds(c)
  \/ PrepareAnswers(c) \/ PrepareFails(c)
  \/ SignResolves(c) \/ SendSigned(c)
  \/ SubmitAccepted(c) \/ SubmitPolledAnyway(c) \/ SubmitFails(c) \/ SubmitLost(c)
  \/ Wake(c) \/ AskNotFound(c) \/ AskFound(c)
  \/ CallRejects(c) \/ EncodeRefuses(c)

Next ==
  \/ \E c \in Calls : Start(c) \/ Continue(c)
  \/ \E o \in Objs : Import(o) \/ \E p \in Objs : Copy(o, p)
  \/ \E b \in pool : Close(b) \/ Drop(b)
  \/ OtherClient

Spec == Init /\ [][Next]_vars

(* Requests, wallets and timers are answered in the end: the code has no   *)
(* timeout of its own.                                                     *)
FairSpec == Spec /\ \A c \in Calls : WF_vars(Continue(c))

-----------------------------------------------------------------------------
(* Properties. *)

MaybeTx == Txs \cup {None}
Outcomes == {"none", "ok", "refused", "rejected", "SendFailed", "StillPending",
             "SUCCESS", "FAILED"}
NeedsTx == {"preparing", "signing", "submitting", "sleeping", "asking"}
Places == NeedsTx \cup {"idle", "done", "account", "simulating", "signed"}
Ops == {"none", "build", "buildWithOp", "simulate", "sign", "signAndSend",
        "send", "poll"}

(* The shape of the state: every object and call holds what its kind       *)
(* allows, and a call that waits with a transaction in hand has one.       *)
TypeOK ==
  /\ obj \in [Objs -> [built : MaybeTx, simulation : {None, "success", "error"},
                       signed : MaybeTx]]
  /\ call \in [Calls -> [op : Ops, obj : Objs \cup {None}, pc : Places,
                         tx : MaybeTx, left : 0..MaxAttempts,
                         outcome : Outcomes]]
  /\ ledgerSeq \in Nat
  /\ pool \subseteq Bodies
  /\ applied \subseteq [body : Bodies, status : {"SUCCESS", "FAILED"}]

(* Every version of the transaction that an object or a call holds.        *)
Versions ==
  ({obj[o].built : o \in Objs} \cup {obj[o].signed : o \in Objs}
     \cup {call[c].tx : c \in Calls}) \ {None}

(* However often the transaction is simulated, signed, copied and sent     *)
(* again, in overlapping calls and after lost answers, the ledger applies  *)
(* at most one of its versions: preparing it keeps its sequence number.    *)
AtMostOneApplied == \A a, b \in applied : a = b

(* A call that ends with a status tells what the ledger did with the very  *)
(* version it sent or polled for.                                          *)
OutcomeIsTheLedgers ==
  \A c \in Calls : call[c].outcome \in {"SUCCESS", "FAILED"} =>
    [body |-> Body(call[c].tx), status |-> call[c].outcome] \in applied

(* A version that carries a signature is the one the wallet signed:        *)
(* preparing a signed transaction drops its signature.                     *)
SignatureCoversVersion ==
  \A t \in Versions : t.sig # None => t.sig = Body(t)

(* No version pays the resource fee more often than the transaction was    *)
(* simulated: an imported version may have paid it once before.            *)
Simulations == Cardinality({c \in Calls : call[c].op \in {"build", "simulate"}})
OneFeePerSimulation == \A t \in Versions : t.fees <= Simulations + 1

(* A caller who waits for each call and does not simulate what is signed   *)
(* sends what the object shows as built: nothing the simulation added is   *)
(* left out.                                                               *)
SendsWhatIsBuilt ==
  \A c \in Calls : call[c].pc = "submitting" => call[c].tx = obj[call[c].obj].built

(* What a caller is told implements what the ledger decides once.          *)
Fate == IF applied = {} THEN "open" ELSE (CHOOSE a \in applied : TRUE).status
Told == [c \in Calls |->
           IF call[c].pc # "done" THEN "waiting"
           ELSE IF call[c].outcome \in {"SUCCESS", "FAILED"} THEN call[c].outcome
           ELSE "unknown"]
TF == INSTANCE TransactionFate WITH Statuses <- {"SUCCESS", "FAILED"},
                                    fate <- Fate, told <- Told
TellsTheFate == TF!FateSpec

(* Every call ends, whatever the node and the ledger do: polling is         *)
(* bounded, and every answer leads somewhere.                              *)
CallsEnd == \A c \in Calls : Active(c) ~> call[c].pc = "done"

(* What the documentation and the comments say and the code does not keep. *)

(* "Build with a pre-constructed operation": buildWithOp() gives an object *)
(* or fails for a reason outside its own code.                             *)
BuildWithOpBuilds ==
  \A c \in Calls : call[c].op = "buildWithOp" => call[c].outcome # "refused"
=============================================================================
