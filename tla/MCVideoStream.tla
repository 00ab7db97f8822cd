--------------------------- MODULE MCVideoStream ---------------------------
(* VideoStream with a counter that wraps after four chunks. *)
EXTENDS VideoStream

CONSTANT None

MCKinds == {"head", "body"}
MCNoWindow == <<None, None>>
MCNoFrame == [idx |-> -1, data |-> <<>>]
=============================================================================
