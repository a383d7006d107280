------------------------------ MODULE MCGlyphs ------------------------------
(* Values for model checking Glyphs: a letter of one and one of two bytes, *)
(* a mark, a wide character, an overlong one, one broken off, and what     *)
(* moves the cursor.                                                       *)
EXTENDS Glyphs

MCChars == {<<"a">>, <<"L2", "T">>, <<"L2", "M">>, <<"L3", "T", "T">>, <<"O", "T">>,
            <<"L3", "T">>, <<"CR">>, <<"LF">>, <<"RIS">>}

(* The host does not get further ahead than one chunk of five bytes, which *)
(* is the longest character and the marks that overfill a cell.            *)
Ahead == Len(wire) <= 5
=============================================================================
