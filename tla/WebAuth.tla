------------------------------- MODULE WebAuth -------------------------------
(***************************************************************************)
(* packages/stellar-sdk-comp/src/webauth.ts: SEP-10 challenges.  A server  *)
(* builds and signs a challenge, clients sign it one after another, and    *)
(* the server reads it back and looks for their signatures.  The functions *)
(* run to their end without an await, so that each is one step; the clock  *)
(* moves between them.                                                     *)
(*                                                                         *)
(* A key stands for its address.  A decorated signature is the key that    *)
(* made it, the body it covers and the hint, four bytes.                   *)
(***************************************************************************)
EXTENDS Integers, SequencesExt

CONSTANTS
  Server, Clients,   \* keys
  NotAnAddress,      \* a signer that is no account: a hash, a pre-authorized transaction
  HintOf,            \* of each key, its last four bytes
  Domains,           \* home and web auth domains
  Timeouts,          \* of buildChallengeTx()
  Requests,          \* what a server asks for: see Verify
  LastTime,          \* bound of the clock
  None

VARIABLES
  clock,
  tx,        \* the challenge, or None
  built,     \* what it was built for, or None
  answer     \* to the last request: [request, found], found None where it threw; or None

vars == <<clock, tx, built, answer>>

-----------------------------------------------------------------------------
(* The compat Transaction, its signatures and Keypair. *)

ManageData(name, value, source) ==
  [type |-> "manageData", name |-> name, value |-> value, source |-> source]
Body(t) == [t EXCEPT !.signatures = <<>>]
KeypairSign(k, t) == <<k, Body(t)>>
SignDecorated(k, t) == [hint |-> HintOf[k], signature |-> KeypairSign(k, t)]
SignerOf(decorated) == decorated.signature[1]
KeypairVerify(k, t, signature) == signature = KeypairSign(k, t)

(* The getter wraps each signature in the compat class, whose hint() and   *)
(* signature() are methods with one optional parameter.                    *)
Method(result) == [arity |-> 1, result |-> result]
Signatures(t) ==
  [i \in DOMAIN t.signatures |->
     [hint |-> Method(t.signatures[i].hint),
      signature |-> Method(t.signatures[i].signature)]]

(* new Uint8Array(f) of a function: an array-like as long as f.length, of  *)
(* elements that f does not have.                                          *)
Uint8ArrayOf(f) == [i \in 1..f.arity |-> 0]

-----------------------------------------------------------------------------
(* buildChallengeTx() and Transaction.sign(). *)

(* webAuthDomain, clientDomain: None where not given.                      *)
BuildChallengeTx(client, homeDomain, timeout, webAuthDomain, clientDomain) ==
  /\ tx = None
  /\ \E t \in
       {[source |-> Server, sequence |-> 0, minTime |-> clock, maxTime |-> clock + timeout,
         operations |->
           <<ManageData(<<homeDomain, "auth">>, "nonce", client)>>
             \o (IF webAuthDomain = None THEN <<>>
                 ELSE <<ManageData(<<"web_auth_domain">>, webAuthDomain, Server)>>)
             \o (IF clientDomain = None THEN <<>>
                 ELSE <<ManageData(<<"client_domain">>, clientDomain, client)>>),
         signatures |-> <<>>]} :
         tx' = [t EXCEPT !.signatures = <<SignDecorated(Server, t)>>]
  /\ built' = [home |-> homeDomain, web |-> webAuthDomain, until |-> clock + timeout]
  /\ UNCHANGED <<clock, answer>>

Sign(k) ==
  /\ tx # None
  /\ \A i \in DOMAIN tx.signatures : SignerOf(tx.signatures[i]) # k
  /\ tx' = [tx EXCEPT !.signatures = Append(@, SignDecorated(k, tx))]
  /\ UNCHANGED <<clock, built, answer>>

Tick ==
  /\ clock < LastTime
  /\ clock' = clock + 1
  /\ UNCHANGED <<tx, built, answer>>

-----------------------------------------------------------------------------
(* gatherTxSigners(): the signers found, in the order of the list.  The    *)
(* inner loop takes the first signature that fits, the splice keeps it     *)
(* from counting again.                                                    *)

Fits(k, t, s) ==
  /\ Uint8ArrayOf(s.hint) = HintOf[k]
  /\ KeypairVerify(k, t, Uint8ArrayOf(s.signature))

GatherTxSigners(t, signers) ==
  LET after[n \in 0..Len(signers)] ==
        IF n = 0 THEN [verified |-> <<>>, signatures |-> Signatures(t)]
        ELSE LET r == after[n - 1]
                 fitting == {i \in DOMAIN r.signatures : Fits(signers[n], t, r.signatures[i])}
             IN  IF fitting = {} THEN r
                 ELSE [verified |-> Append(r.verified, signers[n]),
                       signatures |-> RemoveAt(r.signatures, Min(fitting))]
  IN  after[Len(signers)].verified

VerifyTxSignedBy(t, k) == GatherTxSigners(t, <<k>>) # <<>>

(* readChallengeTx() where it does not throw.                              *)
WebAuthOps(t) == {i \in DOMAIN t.operations : t.operations[i].name = <<"web_auth_domain">>}
ReadChallengeTx(t, homeDomains, webAuthDomain) ==
  /\ t.source = Server /\ t.sequence = 0
  /\ t.maxTime # 0 /\ clock <= t.maxTime
  /\ t.operations # <<>>
  /\ \A i \in DOMAIN t.operations : t.operations[i].type = "manageData"
  /\ t.operations[1].name \in homeDomains \X {"auth"}
  /\ webAuthDomain # None /\ WebAuthOps(t) # {} =>
       t.operations[Min(WebAuthOps(t))].value = webAuthDomain
  /\ VerifyTxSignedBy(t, Server)

(* verifyChallengeTxSigners(): [...new Set(signers)] without the server.   *)
ClientSigners(signers) ==
  LET firsts[n \in 0..Len(signers)] ==
        IF n = 0 THEN <<>>
        ELSE IF signers[n] = Server \/ \E i \in 1..(n - 1) : signers[i] = signers[n]
             THEN firsts[n - 1] ELSE Append(firsts[n - 1], signers[n])
  IN  firsts[Len(signers)]
(* The signers found, or None where it throws.                             *)
VerifyChallengeTxSigners(t, signers, homeDomains, webAuthDomain) ==
  LET clients == ClientSigners(signers)
      found == GatherTxSigners(t, clients)
  IN  IF /\ ReadChallengeTx(t, homeDomains, webAuthDomain)
         /\ clients # <<>>
         /\ \A i \in DOMAIN clients : clients[i] # NotAnAddress
         /\ found # <<>>
        THEN found ELSE None

(* verifyChallengeTxThreshold(): summary is a list of <<key, weight>>.     *)
WeightIn(summary, k) == summary[Min({i \in DOMAIN summary : summary[i][1] = k})][2]
VerifyChallengeTxThreshold(t, threshold, summary, homeDomains, webAuthDomain) ==
  LET found == VerifyChallengeTxSigners(t, [i \in DOMAIN summary |-> summary[i][1]],
                                        homeDomains, webAuthDomain)
      total == MapThenSumSet(LAMBDA i : WeightIn(summary, found[i]), DOMAIN found)
  IN  IF found # None /\ total >= threshold THEN found ELSE None

-----------------------------------------------------------------------------
(* What a server asks for: the domains and the signers with their weights, *)
(* and a threshold or None.                                                *)

Verify(r) ==
  /\ tx # None
  /\ answer' =
       [request |-> r,
        found |-> IF r.threshold = None
                    THEN VerifyChallengeTxSigners(tx, [i \in DOMAIN r.summary |-> r.summary[i][1]],
                                                  r.homeDomains, r.webAuthDomain)
                    ELSE VerifyChallengeTxThreshold(tx, r.threshold, r.summary,
                                                    r.homeDomains, r.webAuthDomain)]
  /\ UNCHANGED <<clock, tx, built>>

Init == clock = 1 /\ tx = None /\ built = None /\ answer = None

Next ==
  \/ \E k \in Clients, home \in Domains, timeout \in Timeouts :
       \E web, clientDomain \in Domains \cup {None} :
         BuildChallengeTx(k, home, timeout, web, clientDomain)
  \/ \E k \in Clients : Sign(k)
  \/ Tick
  \/ \E r \in Requests : Verify(r)

Spec == Init /\ [][Next]_vars

-----------------------------------------------------------------------------
(* A challenge that this server built for one of the domains it now asks   *)
(* for, which has not expired and which some listed client signed, is      *)
(* accepted, with the listed clients that signed it and no other.          *)
SignedBy == {SignerOf(tx.signatures[i]) : i \in DOMAIN tx.signatures} \ {Server}
Listed(r) == {r.summary[i][1] : i \in DOMAIN r.summary}
VerifiesWhoSigned ==
  [][\A r \in Requests :
       /\ answer' # answer /\ answer'.request = r
       /\ clock <= built.until /\ built.home \in r.homeDomains
       /\ r.webAuthDomain \in {None, built.web} /\ r.threshold = None
       /\ NotAnAddress \notin Listed(r) /\ SignedBy \cap Listed(r) # {}
       => /\ answer'.found # None
          /\ {answer'.found[i] : i \in DOMAIN answer'.found} = SignedBy \cap Listed(r)]_vars
=============================================================================
