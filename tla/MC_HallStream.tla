--------------------------- MODULE MC_HallStream ---------------------------
EXTENDS HallProbeStream

\* Probe 0 and the unknown id 3 on the wire; a range and the id 4, which
\* is not one; an int, an out-of-range int and the two boolean words.
MC_RequestIds == {0, 3}
MC_RangeIds == {0, 4}
MC_Words == {"0", "4000", "False", "True"}

=============================================================================
