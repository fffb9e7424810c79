--------------------------- MODULE MCPasswordDialog ---------------------------
(* Lines on both sides of both bounds of the length test; "seven" is no user *)
(* name.                                                                     *)
EXTENDS PasswordDialog, TLC

MCLine   == {"seven", "eight", "twenty"}
MCLength == "seven" :> 7 @@ "eight" :> 8 @@ "twenty" :> 20
MCNames  == {"eight", "twenty"}
===============================================================================
