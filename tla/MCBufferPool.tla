----------------------------- MODULE MCBufferPool -----------------------------
(* BufferPool with three shapes: two have as many elements of one type and    *)
(* share a pool, the third has a pool of its own.                             *)
EXTENDS BufferPool, TLC

CONSTANTS b1, b2, row, column, scalar

MCPoolKey == row :> 4 @@ column :> 4 @@ scalar :> 1
MCSymmetry == Permutations({b1, b2})

=============================================================================
