---------------------------- MODULE MCPhoneLogin ----------------------------
(* Small instances of PhoneLogin for TLC; no symmetry, for the sake of *)
(* CallersAnswered.                                                    *)
EXTENDS PhoneLogin
=============================================================================
