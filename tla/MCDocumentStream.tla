-------------------------- MODULE MCDocumentStream --------------------------
(* All texts of up to MaxPieces pieces, and the streams they make.         *)
EXTENDS DocumentStream, SequencesExt

CONSTANT MaxPieces

Piece == {<<"-", "-", "-">>, <<"-">>, <<"LF">>, <<"CR">>, <<"SP">>, <<"#">>, <<"x">>}

MCInputs == {FlattenSeq(s) : s \in UNION {[1 .. n -> Piece] : n \in 0 .. MaxPieces}}
=============================================================================
