----------------------------- MODULE UADataType -----------------------------
(***************************************************************************)
(* OPCUAAdapter._get_ua_data_type (src/lewis/adapters/opcua.py, lines      *)
(* 263-291): the OPC UA variant type the builder gives the variable node   *)
(* of a property, from the property's initial value.                      *)
(*                                                                         *)
(* A Python value is abstracted to its type: a record whose field "type"   *)
(* is the class of the value and whose field "items" is, for a list, the   *)
(* sequence of the classes of its elements.  Python's bool is a subclass   *)
(* of int, so isinstance(True, int) holds; that is the IsInt set below.    *)
(***************************************************************************)
EXTENDS Naturals, SequencesExt

CONSTANT MaxLen   \* the longest list the runs enumerate

ASSUME MaxLenAssumption == MaxLen \in Nat

\* Classes of a property value, and of a list element ("list": nested).
ScalarClasses == {"bool", "int", "float", "str", "none", "dict"}
ElemClasses == {"bool", "int", "float", "str", "list"}

\* The values whose classification the runs enumerate.
PyValues ==
    [type : ScalarClasses, items : {<<>>}]
        \cup [type : {"list"}, items : BoundedSeq(ElemClasses, MaxLen)]

\* isinstance(x, int): True for a bool as well.
IsInt == {"bool", "int"}

\* all(isinstance(x, T) for x in value), over the classes of the elements.
AllIn(s, T) == ToSet(s) \subseteq T

\* The list branch (lines 279-288).  Python parses the generator of line
\* 285 as `isinstance(x, float) for x in (value or isinstance(x, int))
\* for x in value`; for a non-empty list it is all(isinstance(x, float)).
\* The empty list never gets there: all() of line 281 is then True.
ListType(s) ==
    IF AllIn(s, {"bool"}) THEN "Boolean"
    ELSE IF AllIn(s, IsInt) THEN "Int64"
    ELSE IF AllIn(s, {"float"}) THEN "Double"
    ELSE "Variant"

\* Mutant: the int test before the bool test, for values and for lists.
get_ua_data_type_int_first(v) ==
    CASE v.type \in IsInt -> "Int64"
      [] v.type = "float" -> "Double"
      [] v.type = "str" -> "String"
      [] v.type = "list" ->
            IF AllIn(v.items, IsInt) THEN "Int64"
            ELSE IF AllIn(v.items, {"float"}) THEN "Double"
            ELSE "Variant"
      [] OTHER -> "Variant"

\* _get_ua_data_type (lines 271-291): the isinstance chain.
get_ua_data_type(v) ==
    CASE v.type = "bool" -> "Boolean"
      [] v.type = "int" -> "Int64"
      [] v.type = "float" -> "Double"
      [] v.type = "str" -> "String"
      [] v.type = "list" -> ListType(v.items)
      [] OTHER -> "Variant"

-----------------------------------------------------------------------------
(* The classification the specification gives (section 4.2): boolean      *)
(* before integral before floating before text; a sequence elementwise,    *)
(* with "all elements numeric (integral or floating)" giving Double.       *)

Numeric == IsInt \cup {"float"}

SpecDataType(v) ==
    CASE v.type = "bool" -> "Boolean"
      [] v.type = "int" -> "Int64"
      [] v.type = "float" -> "Double"
      [] v.type = "str" -> "String"
      [] v.type = "list" ->
            IF AllIn(v.items, {"bool"}) THEN "Boolean"
            ELSE IF AllIn(v.items, IsInt) THEN "Int64"
            ELSE IF AllIn(v.items, Numeric) THEN "Double"
            ELSE "Variant"
      [] OTHER -> "Variant"

\* A list of numbers that has an int (or bool) and a float: the case the
\* specification calls ambiguous and recommends Double for.
MixedNumeric(v) ==
    /\ v.type = "list"
    /\ AllIn(v.items, Numeric)
    /\ ~AllIn(v.items, IsInt)
    /\ ~AllIn(v.items, {"float"})

-----------------------------------------------------------------------------
(* The builder classifying the initial value of one property after         *)
(* another: value is the value read at line 164, uaType the result of      *)
(* line 170.                                                               *)

VARIABLES value, uaType

vars == <<value, uaType>>

Init ==
    /\ value = [type |-> "none", items |-> <<>>]
    /\ uaType = get_ua_data_type(value)

\* data_type = self._get_ua_data_type(value) for the next property.
classify(v) ==
    /\ value' = v
    /\ uaType' = get_ua_data_type(v)

Next == \E v \in PyValues : classify(v)

Spec == Init /\ [][Next]_vars

-----------------------------------------------------------------------------
\* The node type of every value is the one the specification gives, the
\* ambiguous mixed int/float lists aside: in particular the bool test of
\* line 271 (and of line 281) comes before the int test, as the
\* specification requires, since isinstance(True, int) holds.
TypeAsSpecified == uaType = SpecDataType(value) \/ MixedNumeric(value)

\* A list mixing ints and floats gets the Double node type the
\* specification recommends (its example [1, 2.5]); line 285 gives Variant.
MixedListIsDouble == uaType = SpecDataType(value)

=============================================================================
