---------------------------- MODULE MC_LoginCodes ----------------------------
(***************************************************************************)
(* Three mobiles, one of them a merchant's; two codes sent, two calls at a   *)
(* time.  A crash is explored while one code is out.                       *)
(***************************************************************************)
EXTENDS LoginCodes, TLC

CONSTANTS m1, m2, m3

MCRegistered == [b \in Businesses |-> m1]

CrashEarly == crashes = 1 => issued <= 1
OneExpires == Cardinality({i \in Ids : otp[i].expired}) <= 1

Symmetry == Permutations(Handlers) \cup Permutations(ShortCodes) \cup Permutations({m2, m3})
=============================================================================
