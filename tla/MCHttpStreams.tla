---------------------------- MODULE MCHttpStreams ----------------------------
(* The streams with interchangeable clients and sessions.                   *)
EXTENDS HttpStreams, TLC

Interchangeable == Permutations(Clients) \cup Permutations(Sessions)
=============================================================================
