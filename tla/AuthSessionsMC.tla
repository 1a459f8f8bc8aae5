---------------------------- MODULE AuthSessionsMC ----------------------------
(***************************************************************************)
(* Small instances of AuthSessions for TLC.  The unit of time is half an   *)
(* hour.                                                                   *)
(***************************************************************************)
EXTENDS AuthSessions, TLC

RequestSymmetry == Permutations(Requests)

\* One account, always on the allowlist.
OneAdmin == {{"ada@x"}}

\* The allowlist may lose its only address.
ChangingLists == {{"ada@x"}, {}}

=============================================================================
