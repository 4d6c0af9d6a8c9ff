\* Mixed int and float lists against the specification's recommendation.
CONSTANT MaxLen <- MC_MaxLen
SPECIFICATION Spec
INVARIANT MixedListIsDouble
