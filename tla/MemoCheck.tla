------------------------------ MODULE MemoCheck ------------------------------
(***************************************************************************)
(* packages/seps/src/sep29.ts and Server.checkMemoRequired(), which calls  *)
(* it: one account is loaded after the other, each with an await during    *)
(* which any account may change.                                           *)
(*                                                                         *)
(* Accounts decide on their own, and Horizon may fail to answer: both are  *)
(* external.  An operation is its type and its destination.                *)
(***************************************************************************)
EXTENDS Naturals, Sequences

CONSTANTS
  Accounts,    \* G addresses
  Muxed,       \* M addresses
  MemoTypes, OtherTypes, \* memo types; types of operations that do not pay
  MaxOps,      \* bound
  NoDestination \* of operations that have none

ASSUME MemoAssumption ==
  /\ "none" \in MemoTypes
  /\ Accounts \cap Muxed = {} /\ NoDestination \notin Accounts \cup Muxed

VARIABLES
  tx,       \* [memo, ops] that is checked; for a fee bump its inner one
  pc,       \* "idle", "loop", "loading", "passed" or "refused"
  i,        \* the operation the loop is at
  checked,  \* destinations that were loaded
  requires, \* accounts whose config.memo_required is "MQ==" now
  since,    \* those that have required a memo all the while (history)
  ever,     \* those that did at some moment of the check (history)
  unloaded  \* those Horizon did not answer for (history)

memoVars == <<tx, pc, i, checked, requires, since, ever, unloaded>>

-----------------------------------------------------------------------------
MEMO_REQUIRED_OPERATIONS ==
  {"payment", "pathPaymentStrictReceive", "pathPaymentStrictSend", "accountMerge"}

Operations ==
  [type : MEMO_REQUIRED_OPERATIONS \cup OtherTypes, destination : Accounts \cup Muxed \cup {NoDestination}]

MemoInit ==
  /\ tx = [memo |-> "none", ops |-> <<>>]
  /\ pc = "idle"
  /\ i = 1
  /\ checked = {} /\ unloaded = {}
  /\ requires \in SUBSET Accounts
  /\ since = requires /\ ever = requires

(* A memo settles it.                                                      *)
Begin ==
  /\ pc = "idle"
  /\ \E memo \in MemoTypes, n \in 0..MaxOps : \E ops \in [1..n -> Operations] :
       /\ tx' = [memo |-> memo, ops |-> ops]
       /\ pc' = IF memo = "none" THEN "loop" ELSE "passed"
  /\ UNCHANGED <<i, checked, requires, since, ever, unloaded>>

(* Operations that the loop goes past.  Mutant: a destination counts as    *)
(* checked whatever is done with it.                                       *)
MutantSkipsSeen(j) ==
  \/ tx.ops[j].type \notin MEMO_REQUIRED_OPERATIONS
  \/ tx.ops[j].destination \in Muxed \cup {NoDestination}
  \/ \E k \in 1..(j - 1) : tx.ops[k].destination = tx.ops[j].destination
Skips(j) ==
  \/ tx.ops[j].type \notin MEMO_REQUIRED_OPERATIONS
  \/ tx.ops[j].destination \in Muxed \cup {NoDestination}
  \/ tx.ops[j].destination \in checked

(* To the next await, or to the end.                                       *)
Loop ==
  /\ pc = "loop"
  /\ \E j \in i..(Len(tx.ops) + 1) :
       /\ \A k \in i..(j - 1) : Skips(k)
       /\ \/ /\ j = Len(tx.ops) + 1
             /\ pc' = "passed" /\ UNCHANGED <<i, checked>>
          \/ /\ j \in DOMAIN tx.ops /\ ~Skips(j)
             /\ pc' = "loading" /\ i' = j
             /\ checked' = checked \cup {tx.ops[j].destination}
  /\ UNCHANGED <<tx, requires, since, ever, unloaded>>

(* The account's data as Horizon read them.                                *)
Loaded ==
  /\ pc = "loading"
  /\ IF tx.ops[i].destination \in requires
       THEN pc' = "refused" /\ UNCHANGED i
       ELSE pc' = "loop" /\ i' = i + 1
  /\ UNCHANGED <<tx, checked, requires, since, ever, unloaded>>

(* Server.checkMemoRequired() takes every error for an account without     *)
(* data.                                                                   *)
LoadFails ==
  /\ pc = "loading"
  /\ pc' = "loop" /\ i' = i + 1
  /\ unloaded' = unloaded \cup {tx.ops[i].destination}
  /\ UNCHANGED <<tx, checked, requires, since, ever>>

(* The owner of an account changes its entry, while the check waits.       *)
ChangeData(a) ==
  /\ pc = "loading"
  /\ requires' = IF a \in requires THEN requires \ {a} ELSE requires \cup {a}
  /\ since' = since \ {a}
  /\ ever' = ever \cup {a}
  /\ UNCHANGED <<tx, pc, i, checked, unloaded>>

MemoNext == Begin \/ Loop \/ Loaded \/ LoadFails \/ \E a \in Accounts : ChangeData(a)

MemoSpec == MemoInit /\ [][MemoNext]_memoVars

-----------------------------------------------------------------------------
(* A check that passes vouches for every payment without a memo to an      *)
(* account: it was loaded and did not require one at that moment, unless   *)
(* Horizon failed.  One that refuses names the first payment to an account *)
(* that did require one while the check ran.                               *)
PaysTo(j, a) ==
  tx.ops[j].type \in MEMO_REQUIRED_OPERATIONS /\ tx.ops[j].destination = a
MemoCheckVouches ==
  /\ pc = "passed" /\ tx.memo = "none" =>
       \A j \in DOMAIN tx.ops, a \in Accounts :
         PaysTo(j, a) => a \notin since \/ a \in unloaded
  /\ pc = "refused" =>
       /\ tx.memo = "none"
       /\ \E a \in ever : PaysTo(i, a) /\ \A j \in 1..(i - 1) : ~PaysTo(j, a)
=============================================================================
