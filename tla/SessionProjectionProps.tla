---------------------- MODULE SessionProjectionProps ----------------------
(* What the two copies of a session promise. *)
EXTENDS SessionProjection

TypeOK ==
    /\ v2 \in V2Rows
    /\ legacy \in Rows
    /\ published \in Rows
    /\ requests \in [Requests -> RequestRecords]
    /\ now \in 0..MaxStamp
    /\ known \in BOOLEAN
    /\ suspect \in BOOLEAN

(* projectionMatches, with two remarks: a session whose creation failed is *)
(* deleted in DB_V2 and absent from the legacy database, and ending a      *)
(* session with new display settings writes them to DB_V2 only.            *)
Agree ==
    \/ /\ legacy.status = v2.status
       /\ v2.status = "active" => legacy.look = v2.look
    \/ v2.status = "deleted" /\ legacy.status = "none"

(* The compensations of private-v2.js are complete: once no request is in  *)
(* flight the projection agrees with DB_V2, or an inconsistency was        *)
(* recorded or answered, whichever database calls failed on the way.  The  *)
(* only ways out (suspect) are a dead worker, a lost answer, an account    *)
(* deletion, and a snapshot written back while another request was in      *)
(* flight; the next lone update that is acknowledged repairs even these.   *)
AgreeOrKnown == Quiet /\ ~suspect => Agree \/ known

(* The optimistic check on updated_at holds: a change, an end or a delete  *)
(* that DB_V2 accepts is applied to exactly the row its handler had loaded *)
(* when it started, so no accepted change of another teacher or tab is     *)
(* overwritten unseen.                                                     *)
NoLostUpdate ==
    [][\A r \in Requests :
        requests[r].pc = "v2" /\ requests'[r].pc # "v2" /\ v2' # v2
            => v2 = requests[r].loaded]_vars

(* What the batches write beside the row (moderation mode, audit row and   *)
(* event for the viewers) is always that of the row: a request that DB_V2  *)
(* refuses leaves nothing of itself behind for others to see.  The way out *)
(* is a refused request stamped with the very millisecond of the accepted  *)
(* one.                                                                    *)
PublishedIsStored == suspect \/ known \/ published = Shared(v2)
=============================================================================
