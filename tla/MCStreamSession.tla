--------------------------- MODULE MCStreamSession ---------------------------
(* Instances of StreamSession: a streaming request whose chunks have one    *)
(* byte or more bytes than the buffer holds, a second request that takes    *)
(* its place, a reader and a DELETE.                                        *)
EXTENDS StreamSession

CONSTANTS q1, q2

DoneMarker == <<0>>
=============================================================================
