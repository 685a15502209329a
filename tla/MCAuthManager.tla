----------------------------- MODULE MCAuthManager -----------------------------
(* Two requests and a login task that logs in twice.  No definition and no     *)
(* property tells the two requests apart.                                      *)
EXTENDS AuthManager

RequestSymmetry == Permutations(Requests)
===============================================================================
