----------------------------- MODULE MCPromise -----------------------------
(* Small instances of Promise. The forms of then and fail: with one handler  *)
(* and with two, returning something plain or a promise.                     *)
EXTENDS Promise, TLC

Forms == {
    [fulfilled |-> "plain", rejected |-> "pass"],
    [fulfilled |-> "promise", rejected |-> "pass"],
    [fulfilled |-> "pass", rejected |-> "promise"],
    [fulfilled |-> "promise", rejected |-> "plain"]}

=============================================================================
