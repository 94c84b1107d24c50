--------------------------- MODULE MCCompatBuilder ---------------------------
(* Instances of CompatBuilder for TLC. *)
EXTENDS CompatBuilder, TLC, SequencesExt

CONSTANTS own, copy, b1, b2, k1, watcher
MCSources == {own, copy}
MCBuilders == {b1, b2}
MCKeys == {k1}
MCForeign == {[fee |-> 5, ops |-> 2], [fee |-> 3, ops |-> 0]}
MCSymmetry == Permutations(MCBuilders)

(* Numbers are followed with two builders that may fail and fees that do   *)
(* not matter; fees and signatures with one builder, imported transactions *)
(* and fee bumps.  Everything one step beyond either is checked too.       *)
Made == {b \in Builders : builder[b] # None}
Signatures ==
  LET Total(f(_), s) == FoldLeft(LAMBDA n, x : n + f(x), 0, s)
  IN  Total(LAMBDA t : Len(t.sigs), tx)
        + Total(LAMBDA n : Len(n.shown) - Len(n.innerSigs) + Len(n.sigs), bump)

(* Time bounds are varied by one step, and by what is imported.            *)
Plain(b) ==
  /\ builder[b].of = None => builder[b].time = "infinite"
  /\ builder[b].soroban = 0 /\ ~builder[b].v2

FollowsNumbers ==
  /\ bump = <<>>
  /\ \A i \in DOMAIN tx : tx[i].source # None /\ tx[i].sigs = <<>>
  /\ \A b \in Made : Plain(b) /\ builder[b].fee = 1 /\ builder[b].ops <= 1
FollowsFees ==
  /\ Cardinality(Made) <= 1 /\ Len(tx) <= 2 /\ Signatures <= 3
  /\ \A s \in Sources : failures[s] = 0
  /\ \A b \in Made : Plain(b) /\ ~builder[b].bad
MCBounds == FollowsNumbers \/ FollowsFees
=============================================================================
