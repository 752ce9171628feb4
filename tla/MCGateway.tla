----------------------------- MODULE MCGateway -----------------------------
(***************************************************************************)
(* A small instance of Gateway: one asset, to which a client may subscribe *)
(* by name and with its market, and a channel of two messages.             *)
(***************************************************************************)
EXTENDS Gateway

MCAssets == {<<"m", "a">>}

MCPatterns == {<<"m", "a">>, <<"m", "*">>}

MCRequests ==
  {<< <<"m", "a">> >>, << <<"m", "*">> >>, << <<"m", "*">>, <<"m", "a">> >>,
   << <<"m", ">", "a">> >>}
=============================================================================
