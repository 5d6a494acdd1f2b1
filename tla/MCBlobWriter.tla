----------------------------- MODULE MCBlobWriter -----------------------------
(* BlobWriter with blobs of the sizes at which alignTo changes its answer: an *)
(* empty blob, one byte, one byte less than a section, exactly one section,   *)
(* and one byte more.                                                         *)
EXTENDS BlobWriter, TLC

CONSTANTS empty, one, short, full, over

MCSize == empty :> 0 @@ one :> 1 @@ short :> 63 @@ full :> 64 @@ over :> 65

=============================================================================
