--------------------------- MODULE MCYamlDecoder ---------------------------
(* All streams of up to MaxPieces pieces, in chunks of any size.           *)
EXTENDS YamlDecoder, SequencesExt

CONSTANT MaxPieces

Piece == {<<"-", "-", "-">>, <<"-">>, <<"LF">>, <<"SP">>, <<"x">>}

MCStreams == {FlattenSeq(s) : s \in UNION {[1 .. n -> Piece] : n \in 0 .. MaxPieces}}
=============================================================================
