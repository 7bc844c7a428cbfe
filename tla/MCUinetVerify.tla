---------------------------- MODULE MCUinetVerify ----------------------------
(* The client of the test program with two foreign addresses, two ports     *)
(* each, the loop over the addresses at its start or at the last host of a  *)
(* network.                                                                  *)
EXTENDS UinetVerify

MCStartAddrs == {<<10, 0, 0, 1>>, <<10, 0, 0, 254>>}
=============================================================================
