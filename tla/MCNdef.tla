------------------------------- MODULE MCNdef -------------------------------
(* Messages of up to two chunks each way, and one that needs an exchange   *)
(* more than the budget allows.                                            *)
EXTENDS Ndef

MCMessages == {<<>>, <<1>>, <<1, 0>>, <<0, 1>>, <<1, 1, 1>>}
=============================================================================
