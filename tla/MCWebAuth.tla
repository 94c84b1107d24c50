----------------------------- MODULE MCWebAuth -----------------------------
(* An instance of WebAuth for TLC. *)
EXTENDS WebAuth

CONSTANTS server, alice, bob, preauth, home, other

MCHintOf == (server :> <<1, 2, 3, 4>>) @@ (alice :> <<5, 6, 7, 8>>) @@ (bob :> <<5, 6, 7, 8>>)
MCSummaries ==
  {<< <<alice, 1>>, <<bob, 2>> >>, << <<bob, 2>>, <<server, 9>>, <<bob, 1>> >>, << <<preauth, 1>> >>}
MCRequests ==
  [summary : MCSummaries, threshold : {None, 2}, homeDomains : {{home}, {home, other}},
   webAuthDomain : {None, home}]
============================================================================
