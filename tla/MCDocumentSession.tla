------------------------- MODULE MCDocumentSession --------------------------
(* A small instance of DocumentSession: a file without a copier header and   *)
(* the same file with one; the .cfg may add another.                         *)
EXTENDS DocumentSession

CONSTANTS plain, headered

MCWithHeader(img) == IF img = plain THEN headered ELSE img
=============================================================================
