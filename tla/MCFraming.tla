----------------------------- MODULE MCFraming ------------------------------
(***************************************************************************)
(* A small instance of Framing for TLC.                                    *)
(***************************************************************************)
EXTENDS Framing, TLC

CONSTANTS p1, p2, p3

\* A short payload, one of the largest size accepted and one beyond it.
MCSize == p1 :> 1 @@ p2 :> 2 @@ p3 :> 3

=============================================================================
