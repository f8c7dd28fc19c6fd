------------------------ MODULE MCValueArithmetic ------------------------
(* Words of two bits: widths 1 and 2 take the one-word paths, 3 to 5 two   *)
(* and three words, 2 and 4 fill their top word.                            *)
EXTENDS ValueArithmetic
MCGathers == {<<0, 2, 1, 2>>, <<1, 2, 1, 2>>, <<0, 2, 1, 3>>, <<0, 3, 2, 2>>, <<0, 1, 2, 2>>, <<1, 2, 3, 1>>}

MCTexts == {<<7>>, <<1, 2>>, <<2, 9>>, <<9, 0, 5>>}
=============================================================================
