------------------------------ MODULE MCHorizon ------------------------------
(* An instance of HorizonPages and MemoCheck for TLC.  The two share no    *)
(* state, so that a caller does one thing or the other.                    *)
EXTENDS HorizonPages, MemoCheck

CONSTANTS alice, bob, muxed

MCIds == {"x", "y"}
MCAssets == {
  [type |-> "native", code |-> "XLM", issuer |-> ""],
  [type |-> "credit_alphanum4", code |-> "USD", issuer |-> "G1"],
  [type |-> "credit_alphanum12", code |-> "LONGER", issuer |-> "G2"]}
MCPaged == {"payments"}

MCAccounts == {alice, bob}
MCMuxed == {muxed}
MCMemoTypes == {"none", "text"}
MCOtherTypes == {"createAccount"}

MCInit == Init /\ MemoInit
MCNext ==
  \/ pc = "idle" /\ requires = {} /\ Next /\ UNCHANGED memoVars
  \/ builder = None /\ published = 0 /\ MemoNext /\ UNCHANGED vars
MCSpec == MCInit /\ [][MCNext]_<<vars, memoVars>>

(* Filters and the other paths matter to what is asked, not to the pages.  *)
MCBounds ==
  requests # {} \/ pages # <<>> =>
    /\ builder.params = Nothing
    /\ builder.segments \in {<<"payments">>, <<"accounts", "x", "payments">>}
    /\ Cardinality(requests) <= 2
=============================================================================
