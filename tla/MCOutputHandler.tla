-------------------------- MODULE MCOutputHandler --------------------------
(* Constants of the small output handlers that TLC explores.               *)
EXTENDS OutputHandler

\* Lines and columns: a screen that fits, one with room for a tab stop, a single
\* column, one that only fits as long as the job runs, one that never fits, and
\* screens without a cell, which !term accepts.
SmallSizes == {<<1, 2>>, <<1, 3>>, <<2, 1>>, <<2, 2>>, <<4, 1>>, <<0, 2>>, <<2, 0>>, <<-1, -1>>}
OneSize == {<<1, 2>>}

=============================================================================
