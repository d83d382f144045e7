----------------------------- MODULE MCPromise -----------------------------
(* Promise with a few promises: next is given an onFulfilled, as the       *)
(* scripts do, an onRejected, or nothing.                                  *)
EXTENDS Promise

MCHandlers == {<<"fn", "nil">>, <<"nil", "fn">>, <<"nil", "nil">>}
============================================================================
