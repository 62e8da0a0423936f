----------------------------- MODULE MCAuthManager -----------------------------
(* Instances of AuthManager for TLC.                                       *)
EXTENDS AuthManager, TLC

(* Refresh tokens and API requests are only ever compared.                 *)
TokenAndCallerSymmetry == Permutations(Token) \cup Permutations(Caller)
=============================================================================
