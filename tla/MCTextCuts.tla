----------------------------- MODULE MCTextCuts -----------------------------
(* TextCuts on all texts of a few characters, for TLC. *)
EXTENDS TextCuts

MCCharacters == {<<"a">>, <<".">>, <<"/">>, <<" ">>, <<"n">>, <<"W", "w">>}
=============================================================================
