--------------------------- MODULE SequenceNumbers ---------------------------
(***************************************************************************)
(* What an account promises the builders that share it, with no builder,   *)
(* fee, encoding or await in sight.  Once the account is there it moves by *)
(* one number at a time.  Each number goes to one transaction, which keeps *)
(* it and gets no other, or comes to nothing; no number is ever taken      *)
(* back, as a transaction that carries it may have been sent.              *)
(***************************************************************************)
EXTENDS Integers

CONSTANTS
  Accounts, \* the accounts
  Holders,  \* the transactions numbers are handed out for
  Absent    \* an account that is not there yet

VARIABLES
  last, \* per account: the number it has come to, or Absent
  held  \* the numbers handed out: of which account, by whom held

numberVars == <<last, held>>

NumbersInit ==
  /\ last \in [Accounts -> Int \cup {Absent}]
  /\ held = {}

Open(a) ==
  /\ last[a] = Absent
  /\ last'[a] \in Int
  /\ last' = [last EXCEPT ![a] = last'[a]]
  /\ UNCHANGED held

(* The account moves on, *)
Move(a) ==
  /\ last[a] \in Int
  /\ last' = [last EXCEPT ![a] = @ + 1]

(* and its number goes to a transaction that has none, or to nobody.       *)
HandOut(a, h) ==
  /\ \A g \in held : g.by # h
  /\ held' = held \cup {[of |-> a, by |-> h, number |-> last[a] + 1]}

Waste == UNCHANGED held

NumbersNext ==
  \E a \in Accounts :
    \/ Open(a)
    \/ Move(a) /\ (Waste \/ \E h \in Holders : HandOut(a, h))

NumbersSpec == NumbersInit /\ [][NumbersNext]_numberVars
=============================================================================
