------------------------------- MODULE MCUtf8 --------------------------------
(***************************************************************************)
(* The instance of Utf8 for TLC: texts of bytes at the edges of the table. *)
(***************************************************************************)
EXTENDS Utf8

\* The first and the last byte of every range of the table, and their neighbours.
EdgeBytes == {0, 127, 128, 143, 144, 159, 160, 191, 192, 193, 194, 223, 224, 225,
              236, 237, 238, 239, 240, 241, 243, 244, 245, 247, 248, 255}
=============================================================================
