-------------------------- MODULE MemoCheckProofs --------------------------
(***************************************************************************)
(* Proof that the memo check vouches for what it lets pass, for any set of *)
(* accounts, any number of operations and any changes to the accounts.     *)
(***************************************************************************)
EXTENDS MemoCheck, SequenceTheorems, TLAPS

MemoTypeOK ==
  /\ tx.ops \in Seq(Operations)
  /\ pc \in {"idle", "loop", "loading", "passed", "refused"}
  /\ i \in Nat \ {0}
  /\ checked \subseteq Accounts /\ unloaded \subseteq Accounts
  /\ since \subseteq requires /\ requires \subseteq ever /\ ever \subseteq Accounts

(* What the loop has gone past was loaded, and what was loaded asked for   *)
(* no memo; of the account that is being loaded nothing is known yet, but  *)
(* that no earlier operation pays to it.                                   *)
PaidBefore(n, a) == \E j \in DOMAIN tx.ops : j < n /\ PaysTo(j, a)
Settled(a) == a \notin since \/ a \in unloaded

MemoInv ==
  /\ MemoTypeOK
  /\ pc = "idle" => i = 1
  /\ pc \in {"idle", "loop"} => \A a \in checked : Settled(a)
  /\ pc # "idle" /\ pc # "passed" =>
       /\ tx.memo = "none"
       /\ \A a \in Accounts : PaidBefore(i, a) => a \in checked
  /\ pc \in {"loading", "refused"} =>
       /\ i \in DOMAIN tx.ops /\ tx.ops[i].destination \in Accounts
       /\ PaysTo(i, tx.ops[i].destination)
       /\ ~PaidBefore(i, tx.ops[i].destination)
       /\ \A a \in checked : a = tx.ops[i].destination \/ Settled(a)
  /\ pc = "loading" => tx.ops[i].destination \in checked
  /\ pc = "refused" => tx.ops[i].destination \in ever
  /\ pc = "passed" /\ tx.memo = "none" =>
       \A j \in DOMAIN tx.ops, a \in Accounts : PaysTo(j, a) => Settled(a)

LEMMA MemoInitInv == MemoInit => MemoInv
  BY MemoAssumption DEF MemoInit, MemoInv, MemoTypeOK, PaidBefore, PaysTo, Settled

LEMMA MemoInvVouches == MemoInv => MemoCheckVouches
<1> SUFFICES ASSUME MemoInv PROVE MemoCheckVouches
  OBVIOUS
<1>1. pc = "passed" /\ tx.memo = "none" =>
        \A j \in DOMAIN tx.ops, a \in Accounts : PaysTo(j, a) => a \notin since \/ a \in unloaded
  BY DEF MemoInv, Settled
<1>2. ASSUME pc = "refused"
      PROVE  /\ tx.memo = "none"
             /\ \E a \in ever : PaysTo(i, a) /\ \A j \in 1..(i - 1) : ~PaysTo(j, a)
  <2> DEFINE d == tx.ops[i].destination
  <2>1. /\ tx.memo = "none" /\ d \in ever /\ PaysTo(i, d) /\ ~PaidBefore(i, d)
        /\ i \in DOMAIN tx.ops /\ tx.ops \in Seq(Operations) /\ i \in Nat
    BY <1>2 DEF MemoInv, MemoTypeOK
  <2>2. \A j \in 1..(i - 1) : j \in DOMAIN tx.ops /\ j < i
    BY <2>1
  <2>3. \A j \in 1..(i - 1) : ~PaysTo(j, d)
    BY <2>1, <2>2 DEF PaidBefore
  <2> QED
    BY <2>1, <2>3
<1> QED
  BY <1>1, <1>2 DEF MemoCheckVouches

LEMMA BeginInv == MemoInv /\ Begin => MemoInv'
<1> SUFFICES ASSUME MemoInv, Begin PROVE MemoInv'
  OBVIOUS
<1>1. PICK memo \in MemoTypes, n \in 0..MaxOps : \E ops \in [1..n -> Operations] :
        /\ tx' = [memo |-> memo, ops |-> ops]
        /\ pc' = IF memo = "none" THEN "loop" ELSE "passed"
  BY DEF Begin
<1>2. PICK ops \in [1..n -> Operations] :
        /\ tx' = [memo |-> memo, ops |-> ops]
        /\ pc' = IF memo = "none" THEN "loop" ELSE "passed"
  BY <1>1
<1>3. /\ tx'.memo = memo /\ tx'.ops = ops /\ tx'.ops \in Seq(Operations)
      /\ i' = 1
  BY <1>2, IsASeq DEF Begin, MemoInv
<1>4. UNCHANGED <<i, checked, requires, since, ever, unloaded>> /\ pc = "idle"
  BY DEF Begin
<1>5. MemoTypeOK'
  BY <1>2, <1>3, <1>4 DEF MemoInv, MemoTypeOK
<1>6. \A a : ~PaidBefore(i, a)'
  BY <1>3 DEF PaidBefore
<1>7. \A a \in checked' : Settled(a)'
  BY <1>4 DEF MemoInv, Settled
<1> QED
  BY <1>2, <1>3, <1>5, <1>6, <1>7 DEF MemoInv

(* Where the loop stops next, all that it went past is a type of operation *)
(* that does not pay, an M address, or was loaded before.                  *)
LEMMA SkippedIsChecked ==
  ASSUME MemoTypeOK, NEW j \in DOMAIN tx.ops, NEW a \in Accounts, Skips(j), PaysTo(j, a)
  PROVE  a \in checked
  BY MemoAssumption DEF Skips, PaysTo

LEMMA StoppedPays ==
  ASSUME MemoTypeOK, NEW j \in DOMAIN tx.ops, ~Skips(j)
  PROVE  /\ tx.ops[j].destination \in Accounts
         /\ tx.ops[j].destination \notin checked
         /\ PaysTo(j, tx.ops[j].destination)
<1>1. tx.ops[j] \in Operations
  BY DEF MemoTypeOK
<1> QED
  BY <1>1 DEF Skips, PaysTo, Operations

LEMMA LoopInv == MemoInv /\ Loop => MemoInv'
<1> SUFFICES ASSUME MemoInv, Loop PROVE MemoInv'
  OBVIOUS
<1>1. /\ pc = "loop" /\ tx' = tx /\ UNCHANGED <<requires, since, ever, unloaded>>
      /\ MemoTypeOK /\ tx.memo = "none" /\ DOMAIN tx.ops = 1..Len(tx.ops) /\ Len(tx.ops) \in Nat
      /\ i \in Nat \ {0}
  BY DEF Loop, MemoInv, MemoTypeOK
<1>2. \A a \in checked : Settled(a)
  BY <1>1 DEF MemoInv
<1>3. \A a \in Accounts : PaidBefore(i, a) => a \in checked
  BY <1>1 DEF MemoInv
<1>4. PICK n \in i..(Len(tx.ops) + 1) :
        /\ \A k \in i..(n - 1) : Skips(k)
        /\ \/ n = Len(tx.ops) + 1 /\ pc' = "passed" /\ UNCHANGED <<i, checked>>
           \/ /\ n \in DOMAIN tx.ops /\ ~Skips(n)
              /\ pc' = "loading" /\ i' = n
              /\ checked' = checked \cup {tx.ops[n].destination}
  BY DEF Loop
<1>5. ASSUME NEW j \in DOMAIN tx.ops, j < n, NEW a \in Accounts, PaysTo(j, a)
      PROVE  a \in checked
  <2>1. CASE j < i
    BY <1>3, <1>5, <2>1 DEF PaidBefore
  <2>2. CASE ~(j < i)
    <3>1. Skips(j)
      BY <1>1, <1>4, <1>5, <2>2
    <3> QED
      BY <1>1, <1>5, <3>1, SkippedIsChecked
  <2> QED
    BY <2>1, <2>2
<1>6. CASE n = Len(tx.ops) + 1 /\ pc' = "passed" /\ UNCHANGED <<i, checked>>
  <2>1. \A j \in DOMAIN tx.ops : j < n
    BY <1>1, <1>6
  <2>2. (\A j \in DOMAIN tx.ops, a \in Accounts : PaysTo(j, a) => Settled(a))'
    BY <1>1, <1>2, <1>5, <2>1 DEF PaysTo, Settled
  <2>3. MemoTypeOK'
    BY <1>1, <1>6 DEF MemoTypeOK
  <2> QED
    BY <1>6, <2>2, <2>3 DEF MemoInv
<1>7. CASE /\ n \in DOMAIN tx.ops /\ ~Skips(n)
           /\ pc' = "loading" /\ i' = n
           /\ checked' = checked \cup {tx.ops[n].destination}
  <2> DEFINE d == tx.ops[n].destination
  <2>1. d \in Accounts /\ d \notin checked /\ PaysTo(n, d)
    BY <1>1, <1>7, StoppedPays
  <2>2. MemoTypeOK'
    BY <1>1, <1>7, <2>1 DEF MemoTypeOK
  <2>3. /\ (\A a \in Accounts : PaidBefore(i, a) => a \in checked)'
        /\ ~PaidBefore(i, tx.ops[i].destination)'
    BY <1>1, <1>5, <1>7, <2>1 DEF PaidBefore, PaysTo
  <2>4. (\A a \in checked : a = tx.ops[i].destination \/ Settled(a))'
    BY <1>1, <1>2, <1>7 DEF Settled
  <2>5. /\ (i \in DOMAIN tx.ops)' /\ (tx.ops[i].destination \in Accounts)'
        /\ PaysTo(i, tx.ops[i].destination)' /\ (tx.memo = "none")'
        /\ (tx.ops[i].destination \in checked)'
    BY <1>1, <1>7, <2>1 DEF PaysTo
  <2> QED
    BY <1>7, <2>2, <2>3, <2>4, <2>5 DEF MemoInv
<1> QED
  BY <1>4, <1>6, <1>7

(* The account that was being loaded is settled when it asks for no memo,  *)
(* or when Horizon fails: the loop then goes on one operation further.     *)
LEMMA GoneOn ==
  ASSUME MemoInv, pc = "loading", pc' = "loop", i' = i + 1,
         UNCHANGED <<tx, checked, requires, since, ever>>, unloaded \subseteq unloaded',
         unloaded' \subseteq Accounts, NEW d, d = tx.ops[i].destination,
         d \notin since' \/ d \in unloaded'
  PROVE  MemoInv'
<1>1. MemoTypeOK'
  BY DEF MemoInv, MemoTypeOK
<1>2. (\A a \in checked : Settled(a))'
  BY DEF MemoInv, Settled
<1>3. ASSUME NEW a \in Accounts, PaidBefore(i, a)' PROVE a \in checked
  <2>1. PICK j \in DOMAIN tx.ops : j < i + 1 /\ PaysTo(j, a)
    BY <1>3 DEF PaidBefore, PaysTo
  <2>2. j \in Nat /\ i \in Nat /\ tx.ops[i].destination \in checked
    BY <2>1 DEF MemoInv, MemoTypeOK
  <2>3. CASE j < i
    BY <2>1, <2>3 DEF MemoInv, PaidBefore
  <2>4. CASE j = i
    BY <2>1, <2>2, <2>4 DEF PaysTo
  <2> QED
    BY <2>1, <2>2, <2>3, <2>4
<1> QED
  BY <1>1, <1>2, <1>3 DEF MemoInv

LEMMA LoadedInv == MemoInv /\ Loaded => MemoInv'
<1> SUFFICES ASSUME MemoInv, Loaded PROVE MemoInv'
  OBVIOUS
<1>1. pc = "loading" /\ UNCHANGED <<tx, checked, requires, since, ever, unloaded>>
  BY DEF Loaded
<1>2. CASE tx.ops[i].destination \in requires
  <2>1. pc' = "refused" /\ i' = i
    BY <1>2 DEF Loaded
  <2>2. MemoTypeOK' /\ (tx.ops[i].destination \in ever)'
    BY <1>1, <1>2, <2>1 DEF MemoInv, MemoTypeOK
  <2>3. /\ \A a : PaidBefore(i, a)' <=> PaidBefore(i, a)
        /\ \A a : PaysTo(i, a)' <=> PaysTo(i, a)
        /\ \A a : Settled(a)' <=> Settled(a)
    BY <1>1, <2>1 DEF PaidBefore, PaysTo, Settled
  <2> QED
    BY <1>1, <2>1, <2>2, <2>3 DEF MemoInv
<1>3. CASE tx.ops[i].destination \notin requires
  <2>1. pc' = "loop" /\ i' = i + 1
    BY <1>3 DEF Loaded
  <2>2. tx.ops[i].destination \notin since'
    BY <1>1, <1>3 DEF MemoInv, MemoTypeOK
  <2> QED
    BY <1>1, <2>1, <2>2, GoneOn DEF MemoInv, MemoTypeOK
<1> QED
  BY <1>2, <1>3

LEMMA LoadFailsInv == MemoInv /\ LoadFails => MemoInv'
<1> SUFFICES ASSUME MemoInv, LoadFails PROVE MemoInv'
  OBVIOUS
<1>1. /\ pc = "loading" /\ pc' = "loop" /\ i' = i + 1
      /\ unloaded' = unloaded \cup {tx.ops[i].destination}
      /\ UNCHANGED <<tx, checked, requires, since, ever>>
  BY DEF LoadFails
<1>2. tx.ops[i].destination \in Accounts /\ unloaded \subseteq Accounts
  BY <1>1 DEF MemoInv, MemoTypeOK
<1> QED
  BY <1>1, <1>2, GoneOn

LEMMA ChangeDataInv == ASSUME MemoInv, NEW a \in Accounts, ChangeData(a) PROVE MemoInv'
<1>1. /\ pc = "loading" /\ UNCHANGED <<tx, pc, i, checked, unloaded>>
      /\ since' = since \ {a} /\ ever' = ever \cup {a}
      /\ requires' = IF a \in requires THEN requires \ {a} ELSE requires \cup {a}
  BY DEF ChangeData
<1>2. MemoTypeOK'
  BY <1>1 DEF MemoInv, MemoTypeOK
<1>3. /\ \A n, b : PaidBefore(n, b)' <=> PaidBefore(n, b)
      /\ \A n, b : PaysTo(n, b)' <=> PaysTo(n, b)
      /\ \A b : Settled(b) => Settled(b)'
  BY <1>1 DEF PaidBefore, PaysTo, Settled
<1> QED
  BY <1>1, <1>2, <1>3 DEF MemoInv

LEMMA MemoNextInv == MemoInv /\ [MemoNext]_memoVars => MemoInv'
<1> SUFFICES ASSUME MemoInv, [MemoNext]_memoVars PROVE MemoInv'
  OBVIOUS
<1>1. CASE Begin
  BY <1>1, BeginInv
<1>2. CASE Loop
  BY <1>2, LoopInv
<1>3. CASE Loaded
  BY <1>3, LoadedInv
<1>4. CASE LoadFails
  BY <1>4, LoadFailsInv
<1>5. ASSUME NEW a \in Accounts, ChangeData(a) PROVE MemoInv'
  BY <1>5, ChangeDataInv
<1>6. CASE UNCHANGED memoVars
  BY <1>6 DEF memoVars, MemoInv, MemoTypeOK, PaidBefore, PaysTo, Settled
<1> QED
  BY <1>1, <1>2, <1>3, <1>4, <1>5, <1>6 DEF MemoNext

(* Whatever the transaction, the accounts and their changes: what passes   *)
(* without a memo pays nobody who asked for one throughout, but for those  *)
(* Horizon did not answer for, and what is refused is refused rightly.     *)
THEOREM ChecksVouch == MemoSpec => []MemoCheckVouches
<1>1. MemoInit => MemoInv
  BY MemoInitInv
<1>2. MemoInv /\ [MemoNext]_memoVars => MemoInv'
  BY MemoNextInv
<1>3. MemoInv => MemoCheckVouches
  BY MemoInvVouches
<1> QED
  BY <1>1, <1>2, <1>3, PTL DEF MemoSpec
=============================================================================
