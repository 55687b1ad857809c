---------------------------- MODULE MCRegisters ----------------------------
(* Registers of one or two words, and of less, in a small memory.            *)
EXTENDS Registers

\* Registers that start at, inside and at the end of a word, of a word, two
\* words, less than a word and neither.
Starts == {<<0, 0>>, <<0, 1>>, <<1, 1>>, <<2, 1>>, <<3, 0>>}
Lengths == {<<4, 0>>, <<0, 5>>, <<8, 0>>, <<10, 1>>}
BitRanges == ((0 .. 9) \X {0, 1}) \X ((({0, 2, 3, 4, 7, 8} \X {0, 1}) \cup {<<0, 3>>, <<0, 7>>}) \ {<<0, 0>>})
WholeWords == {0, 1} \X {1, 2}

=============================================================================
