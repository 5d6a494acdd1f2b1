------------------------------ MODULE BlobStore ------------------------------
(***************************************************************************)
(* What blob.Writer promises its callers: AddBlob answers with an offset no *)
(* other blob has, and once Close has returned without error every blob     *)
(* that was added before it can be read back at its offset.                 *)
(***************************************************************************)
CONSTANT Blobs

VARIABLES
  promised,  \* pairs <<offset, blob>>: the answers of AddBlob
  readable,  \* pairs <<offset, blob>>: what the finished file yields
  status     \* "writing", "saved" or "failed"

storeVars == <<promised, readable, status>>

StoreInit == promised = {} /\ readable = {} /\ status = "writing"

(* Legal in every status: the file is not touched.                           *)
Promise(b) ==
  /\ \E p \in promised' :
       /\ p[2] = b
       /\ \A q \in promised : q[1] # p[1]
       /\ promised' = promised \union {p}
  /\ UNCHANGED <<readable, status>>

Save ==
  /\ status = "writing" /\ status' = "saved"
  /\ readable' = promised /\ UNCHANGED promised

Abandon ==
  /\ status = "writing" /\ status' = "failed"
  /\ UNCHANGED <<promised, readable>>

StoreNext == (\E b \in Blobs : Promise(b)) \/ Save \/ Abandon

StoreSpec == StoreInit /\ [][StoreNext]_storeVars

=============================================================================
