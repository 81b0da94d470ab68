----------------------------- MODULE MCSessions -----------------------------
(* One account in a browser, with two requests under way at a time and two  *)
(* logins: each combination of two calls with a stale one of the session    *)
(* before.                                                                  *)
EXTENDS Sessions, TLC

Symmetry == Permutations(Request) \cup Permutations(RefreshToken)
=============================================================================
