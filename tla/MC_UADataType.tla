---------------------------- MODULE MC_UADataType ----------------------------
EXTENDS UADataType

\* Lists of up to three elements: a mixed list needs two, and a list whose
\* one odd element is not first or last needs three.
MC_MaxLen == 3

=============================================================================
