---------------------------- MODULE MCFtpSession ----------------------------
EXTENDS FtpSession

(* One line; several, the middle one without code; a line without code     *)
(* before the one with it.                                                 *)
MCShapes == {<<"space">>, <<"dash", "text", "space">>, <<"text", "space">>}
=============================================================================
