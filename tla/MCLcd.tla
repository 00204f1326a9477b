------------------------------- MODULE MCLcd -------------------------------
EXTENDS Lcd

\* Symbols of one, two and three bytes in the first column, in the second and
\* beyond the width; a letter that is drawn as another; an empty string; one
\* that ends inside a symbol.
MCTexts == {<<>>, <<"Pe", "yo", "A">>, <<"dash", "ya", "degree", "dash">>, <<"raw", "cut">>}

\* A panel that takes the full time to clear, with a driver that nobody delays
\* and with one that starts its delays anywhere in a tick; and a quicker panel
\* with the latter.
MCTimings == {[clear |-> 16, late |-> {0}], [clear |-> 16, late |-> {0, 3}],
              [clear |-> 11, late |-> {0, 3}]}
=============================================================================
