------------------------ MODULE HallProbeStreamProofs ------------------------
(***************************************************************************)
(* Every probe's sensor_range stays a Ranges member, whatever requests and *)
(* control calls arrive, so get_field on a connected device answers for a  *)
(* probe whose field is a number.                                          *)
(***************************************************************************)
EXTENDS HallProbeStream, TLAPS

\* convert_type turns every word into a well-formed Python value.
LEMMA ConvertType ==
    ASSUME NEW w \in Words
    PROVE  IsPyValue(convert_type(w))
BY HallStreamAssumption DEF convert_type, IsPyValue, Py, IntWords, IntOf

\* The flag an operator means by a word is a truth value.
LEMMA MeantType ==
    ASSUME NEW w \in Words
    PROVE  Meant(w) \in BOOLEAN
BY DEF Meant, Truthy, convert_type, Py, IntWords, IntOf

\* A fresh Probe is well typed.
LEMMA NewProbeType ==
    /\ IsPyValue(NewProbe.field)
    /\ IsPyValue(NewProbe.initialized)
    /\ NewProbe.range \in Ranges
<1>1. IsPyValue(Py("float", 0))
  BY DEF IsPyValue, Py
<1>2. IsPyValue(PyTrue)
  BY DEF IsPyValue, Py, PyTrue
<1>3. QED
  BY <1>1, <1>2 DEF NewProbe, Ranges

LEMMA TypeInit == Init => TypeOK
<1> SUFFICES ASSUME Init PROVE TypeOK
  OBVIOUS
<1>1. IsPyValue(connected)
  BY NewProbeType DEF Init, NewProbe
<1>2. \A i \in ProbeIds : /\ IsPyValue(probes[i].field)
                         /\ IsPyValue(probes[i].initialized)
                         /\ probes[i].range \in Ranges
  BY NewProbeType DEF Init
<1>3. QED
  BY <1>1, <1>2 DEF Init, TypeOK

LEMMA TypeStep == TypeOK /\ [Next]_vars => TypeOK'
<1> SUFFICES ASSUME TypeOK, [Next]_vars PROVE TypeOK'
  OBVIOUS
<1> USE DEF TypeOK
<1>1. ASSUME NEW i \in RequestIds, initialize(i) PROVE TypeOK'
  <2>1. CASE Served(i)
    <3>1. probes' = [probes EXCEPT ![i].range = 3, ![i].initialized = PyTrue]
      BY <1>1, <2>1 DEF initialize
    <3>2. \A j \in ProbeIds : /\ IsPyValue(probes'[j].field)
                             /\ IsPyValue(probes'[j].initialized)
                             /\ probes'[j].range \in Ranges
      BY <3>1, NewProbeType DEF NewProbe
    <3>3. meant' = [meant EXCEPT ![i] = TRUE]
      BY <1>1, <2>1 DEF initialize
    <3>4. QED
      BY <1>1, <2>1, <3>1, <3>2, <3>3 DEF initialize, Answer, Served
  <2>2. CASE ~Served(i)
    BY <1>1, <2>2 DEF initialize, Answer
  <2>3. QED
    BY <2>1, <2>2
<1>2. ASSUME NEW i \in RequestIds, get_field(i) \/ get_temperature(i) PROVE TypeOK'
  BY <1>2 DEF get_field, get_temperature, Answer, FieldReply
<1>3. ASSUME NEW i \in RequestIds, NEW r \in RangeIds, set_range(i, r) PROVE TypeOK'
  <2>1. CASE Served(i) /\ r \in Ranges
    <3>1. probes' = [probes EXCEPT ![i].range = r]
      BY <1>3, <2>1 DEF set_range
    <3>2. \A j \in ProbeIds : /\ IsPyValue(probes'[j].field)
                             /\ IsPyValue(probes'[j].initialized)
                             /\ probes'[j].range \in Ranges
      BY <2>1, <3>1
    <3>3. QED
      BY <1>3, <2>1, <3>1, <3>2 DEF set_range, Answer, Served
  <2>2. CASE ~(Served(i) /\ r \in Ranges)
    BY <1>3, <2>2 DEF set_range, Answer
  <2>3. QED
    BY <2>1, <2>2
<1>4. CASE reset
  <2>1. \A j \in ProbeIds : /\ IsPyValue(probes'[j].field)
                           /\ IsPyValue(probes'[j].initialized)
                           /\ probes'[j].range \in Ranges
    BY <1>4, NewProbeType DEF reset
  <2>2. IsPyValue(connected')
    BY <1>4 DEF reset, IsPyValue, PyTrue, Py
  <2>3. QED
    BY <1>4, <2>1, <2>2 DEF reset
<1>5. ASSUME NEW w1 \in Words, NEW w2 \in Words, backdoor_set_field(w1, w2) PROVE TypeOK'
  BY <1>5, ConvertType DEF backdoor_set_field
<1>6. ASSUME NEW w1 \in Words, NEW w2 \in Words, backdoor_set_initialized(w1, w2) PROVE TypeOK'
  BY <1>6, ConvertType, MeantType DEF backdoor_set_initialized
<1>7. ASSUME NEW w \in Words, set_connected(w) PROVE TypeOK'
  BY <1>7, ConvertType DEF set_connected
<1>8. CASE UNCHANGED vars
  BY <1>8 DEF vars
<1>9. QED
  BY <1>1, <1>2, <1>3, <1>4, <1>5, <1>6, <1>7, <1>8 DEF Next

\* Every state reachable by stream requests and control.py calls is well
\* typed; in particular sensor_range is always a member of Ranges.
THEOREM TypeCorrect == Spec => []TypeOK
BY TypeInit, TypeStep, PTL DEF Spec

\* get_field answers for a numeric field on a connected device: with the
\* range a Ranges member, range_to_max_gauss has a case for it.
THEOREM GetFieldAnswersThm == Spec => GetFieldAnswers
<1>1. TypeOK => [\A i \in ProbeIds :
                   get_field(i) /\ Truthy(connected) /\ IsNumber(probes[i].field)
                      => reply'.kind # NoReply]_vars
  <2> SUFFICES ASSUME TypeOK, NEW i \in ProbeIds, get_field(i), Truthy(connected),
                      IsNumber(probes[i].field)
               PROVE  reply'.kind # NoReply
    OBVIOUS
  <2>1. probes[i].range \in DOMAIN MaxGauss
    BY DEF TypeOK, MaxGauss
  <2>2. \A r \in Ranges : MaxGauss[r] \in Int
    BY DEF MaxGauss, Gauss, Ranges
  <2>3. FieldReply(probes[i]) # NoReply
    BY <2>1, <2>2 DEF FieldReply, NoReply
  <2>4. QED
    BY <2>3 DEF get_field, Answer, Served
<1>2. QED
  BY <1>1, TypeCorrect, PTL DEF GetFieldAnswers
=============================================================================
