\* The node type of every value of up to three list elements.
CONSTANT MaxLen <- MC_MaxLen
SPECIFICATION Spec
INVARIANT TypeAsSpecified
