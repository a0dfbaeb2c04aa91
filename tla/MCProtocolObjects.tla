------------------------- MODULE MCProtocolObjects -------------------------
(* Words at the boundaries of bytes and of their signs, texts from none on. *)
EXTENDS ProtocolObjects

Words == {0, 1, 2, 3, 4, 8, 16, 32, 64, 128, 255}
Texts == {<<>>, <<B(0)>>, <<B(3), B(1)>>}
ObjectsAtBoundaries == Objects(Words, Texts)
=============================================================================
