------------------------- MODULE MCSanitizeStreams -------------------------
(* A small instance of SanitizeStreams.                                    *)
EXTENDS SanitizeStreams
=============================================================================
