----------------------------- MODULE MCConsole -----------------------------
(* An instance of ConsoleCalls for TLC, with ints of five bits. *)
EXTENDS ConsoleCalls

CONSTANTS t1, t2

\* "1\n", "-17 \n", " 2-\n", "a1 3\n", "9\n8"
MCInputs == {<<49, 10>>, <<45, 49, 55, 32, 10>>, <<32, 50, 45, 10>>, <<97, 49, 32, 51, 10>>, <<57, 10, 56>>}

MCNumbers == {-12, 0, 15}
MCLetters == {65, 7}
MCStrings == {<<66, 67, 68>>}
MCLengths == {1, 3}
=============================================================================
