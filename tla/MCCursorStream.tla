--------------------------- MODULE MCCursorStream ---------------------------
(***************************************************************************)
(* Instances of CursorStream: three full batches and one row more, so that *)
(* the end arrives with zero or with one row left, and while zero to three *)
(* batches are in the queue.                                               *)
(***************************************************************************)
EXTENDS CursorStreamInv

MCMaxRows == 7
MCFetchSize == 2
=============================================================================
