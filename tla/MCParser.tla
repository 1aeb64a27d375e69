------------------------------ MODULE MCParser ------------------------------
(***************************************************************************)
(* A parser fed single bytes and short chunks in any order, between any    *)
(* calls.                                                                  *)
(***************************************************************************)
EXTENDS ParserRefinement

\* [ ] { } , a quote, a quote with the colon behind it, and white space.
StructureChunks ==
  {<<>>, <<91>>, <<93>>, <<123>>, <<125>>, <<44>>, <<34>>, <<34, 58, 32>>}
\* Strings of a multi-byte sequence and of the surrogate pair \uDB1e\uDC1e; the
\* numerals of 1, the decimal point and e.
ScalarChunks ==
  {<<>>, <<34>>, <<225>>, <<128>>, <<92, 117>>, <<68, 66>>, <<68, 67>>, <<49, 46>>, <<49, 101>>}
=============================================================================
