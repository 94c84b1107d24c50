--------------------------- MODULE TransactionFate ---------------------------
(***************************************************************************)
(* What submitting a transaction amounts to, with no version, signature,   *)
(* retry or poll in sight.  However many times and in however many         *)
(* versions a transaction is sent, the ledger decides its fate at most     *)
(* once, and a caller is told that fate or is told nothing of it.          *)
(***************************************************************************)

CONSTANTS
  Calls,    \* the calls that may report a fate
  Statuses  \* the statuses of a transaction on the ledger

VARIABLES
  fate, \* "open" until the ledger applied a version of the transaction
  told  \* per call: "waiting", the status it ended with, or "unknown"

fateVars == <<fate, told>>

FateInit ==
  /\ fate = "open"
  /\ told = [c \in Calls |-> "waiting"]

Decide(s) ==
  /\ fate = "open"
  /\ fate' = s
  /\ UNCHANGED told

Tell(c) ==
  /\ told[c] = "waiting"
  /\ fate \in Statuses
  /\ told' = [told EXCEPT ![c] = fate]
  /\ UNCHANGED fate

GiveUp(c) ==
  /\ told[c] = "waiting"
  /\ told' = [told EXCEPT ![c] = "unknown"]
  /\ UNCHANGED fate

FateNext ==
  \/ \E s \in Statuses : Decide(s)
  \/ \E c \in Calls : Tell(c) \/ GiveUp(c)

FateSpec == FateInit /\ [][FateNext]_fateVars
=============================================================================
