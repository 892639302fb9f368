--------------------------- MODULE MCChunkClient ---------------------------
(***************************************************************************)
(* Three invocations and one payload, which the two modes cut differently: *)
(* registrations of different payloads meet in no directory.               *)
(***************************************************************************)
EXTENDS ChunkClient, TLC

CONSTANTS p1, p2, p3

MCProcess == {p1, p2, p3}
MCPayload == {"table"}
MCMode == {"bytes", "rows"}
MCChunksOf == <<"table", "bytes">> :> <<"ab">> @@ <<"table", "rows">> :> <<"a", "b">>
MCSymmetry == Permutations(MCProcess)
=============================================================================
