----------------------------- MODULE MCGatewayView ---------------------------
(***************************************************************************)
(* A small instance of GatewayView: the instance of MCGateway.             *)
(***************************************************************************)
EXTENDS GatewayView

MCAssets == {<<"m", "a">>}

MCPatterns == {<<"m", "a">>, <<"m", "*">>}

MCRequests ==
  {<< <<"m", "a">> >>, << <<"m", "*">> >>, << <<"m", "*">>, <<"m", "a">> >>,
   << <<"m", ">", "a">> >>}
=============================================================================
