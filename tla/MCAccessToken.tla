---- MODULE MCAccessToken ----
(* Two threads, two coroutines or one of each, one call each, two attempts. *)
EXTENDS AccessToken

CONSTANTS a, b

MCCallers == {a, b}
MCKinds == {"thread", "async"}
====
