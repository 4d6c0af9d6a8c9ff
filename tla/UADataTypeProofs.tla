-------------------------- MODULE UADataTypeProofs --------------------------
(***************************************************************************)
(* _get_ua_data_type agrees with the classification of the specification  *)
(* on every value, of any list length, except the mixed int/float lists.  *)
(***************************************************************************)
EXTENDS UADataType, TLAPS

\* The classifier of the code and the one of the specification differ only
\* on lists of numbers that hold both an int (or bool) and a float.
LEMMA ClassifierAgrees ==
    ASSUME NEW v
    PROVE  get_ua_data_type(v) = SpecDataType(v) \/ MixedNumeric(v)
<1>1. CASE v.type # "list"
  BY <1>1 DEF get_ua_data_type, SpecDataType
<1>2. CASE v.type = "list"
  <2> DEFINE s == v.items
  <2>1. get_ua_data_type(v) = ListType(s)
    BY <1>2 DEF get_ua_data_type
  <2>2. SpecDataType(v) =
          IF AllIn(s, {"bool"}) THEN "Boolean"
          ELSE IF AllIn(s, IsInt) THEN "Int64"
          ELSE IF AllIn(s, Numeric) THEN "Double"
          ELSE "Variant"
    BY <1>2 DEF SpecDataType
  <2>3. AllIn(s, {"float"}) => AllIn(s, Numeric)
    BY DEF AllIn, Numeric
  <2>4. QED
    BY <1>2, <2>1, <2>2, <2>3 DEF ListType, MixedNumeric
<1>3. QED
  BY <1>1, <1>2

\* In every state of the builder, the node type _get_ua_data_type gave the
\* last value is the specification's, mixed int/float lists aside (the
\* bool test comes before the int test, for values and for lists).
THEOREM TypeAsSpecifiedThm == Spec => []TypeAsSpecified
<1>1. Init => TypeAsSpecified
  BY ClassifierAgrees DEF Init, TypeAsSpecified
<1>2. TypeAsSpecified /\ [Next]_vars => TypeAsSpecified'
  <2> SUFFICES ASSUME TypeAsSpecified, [Next]_vars PROVE TypeAsSpecified'
    OBVIOUS
  <2>1. CASE Next
    BY <2>1, ClassifierAgrees DEF Next, classify, TypeAsSpecified
  <2>2. CASE UNCHANGED vars
    BY <2>2 DEF vars, TypeAsSpecified
  <2>3. QED
    BY <2>1, <2>2
<1>3. QED
  BY <1>1, <1>2, PTL DEF Spec

=============================================================================
