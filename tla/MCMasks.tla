------------------------------- MODULE MCMasks -------------------------------
(***************************************************************************)
(* Constants of the instances of Masks.tla that TLC checks.                *)
(***************************************************************************)
EXTENDS Masks, TLC

CONSTANTS p1, p2

\* Two ranges of message ids so close that the first can be extended over the
\* second, as 4500..4573 and 4600..4615 with 200 ids per range.
MCfirst == <<0, 3>>
MClast == <<1, 3>>

\* Equipment ids 0 and 1, without and with items.
MCitems == 0 :> 0 @@ 1 :> 2562

Symmetry == Permutations(Perif)
=============================================================================
