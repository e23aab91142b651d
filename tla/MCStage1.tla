------------------------------ MODULE MCStage1 ------------------------------
(***************************************************************************)
(* Instances of Stage1 for TLC.  A command is one character here; names    *)
(* and passwords are "a" and "a|a", so that the one may be taken for the   *)
(* other with a separator.  What the server does not know as a command are *)
(* the names typed too early.                                              *)
(***************************************************************************)
EXTENDS Stage1

CONSTANTS a, login, register, logout

AnyChar == {a, login, register, logout, Bar}
LoginLine == <<login>>
RegisterLine == <<register>>
LogoutLine == <<logout>>
AnyOrder == {LoginLine, RegisterLine, LogoutLine}
AnyAnswer == {<<a>>, <<a, Bar, a>>}
ShippedAccount == <<<<a>>, <<a>>>>
=============================================================================
