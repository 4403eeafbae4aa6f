-------------------------- MODULE MCKeyedAsyncQueue --------------------------
(***************************************************************************)
(* A small instance of KeyedAsyncQueue: three calls of enqueue over two    *)
(* keys, one of which may hang.  Three calls are enough for a key to drain,*)
(* lose its chain and start a fresh one while an old stored promise is     *)
(* still unsettled, with another key active beside it.                     *)
(***************************************************************************)
EXTENDS KeyedAsyncQueue

=============================================================================
