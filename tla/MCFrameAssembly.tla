-------------------------- MODULE MCFrameAssembly --------------------------
(* FrameAssembly on short streams, with every kind of chunk. *)
EXTENDS FrameAssembly

CONSTANT None

MCKinds == {"head", "bare", "body", "audio"}
MCNoWindow == <<None, None>>
MCNoFrame == [idx |-> -1, data |-> <<>>]
=============================================================================
