--------------------------- MODULE MCNoteFraming ---------------------------
(* A frame of three bytes, its end symbol included, and streams that hold    *)
(* several of them, whole and broken, in every cut into pieces.              *)
EXTENDS NoteFraming
=============================================================================
