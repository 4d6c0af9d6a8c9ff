--------------------------- MODULE HallProbeStream ---------------------------
(***************************************************************************)
(* The Group3 Hall probe simulator as its two kinds of client see it:      *)
(*  - the serial stream interface (group3hallprobe/interfaces/             *)
(*    stream_interface.py), whose requests read and set the probes;        *)
(*  - the control client src/control.py, through which an operator calls   *)
(*    the device's backdoor methods and sets its attributes, after         *)
(*    convert_type has turned each command-line word into a value;         *)
(* over the device state of group3hallprobe/device.py.  Each request is    *)
(* handled whole, in the order the simulation serves them.                 *)
(*                                                                         *)
(* A Python value is a record [t |-> class, v |-> value]; the strings are  *)
(* the command-line words themselves.                                      *)
(***************************************************************************)
EXTENDS Integers

CONSTANTS
    RequestIds,   \* probe ids that arrive in serial requests (ints)
    RangeIds,     \* range ids that arrive in serial requests (ints)
    Words         \* command-line words an operator passes to control.py

ASSUME HallStreamAssumption ==
    /\ RequestIds \subseteq Int
    /\ RangeIds \subseteq Int
    /\ Words \subseteq STRING

\* The keys of the probes dict of _initialize_data (lines 64-68).
ProbeIds == {0, 1, 2}

\* class Ranges(Enum), R0..R3 (lines 12-22).
Ranges == 0 .. 3

Gauss(r) == CASE r = 0 -> 3000 [] r = 1 -> 6000 [] r = 2 -> 12000 [] r = 3 -> 30000

\* Mutant: the match without its case Ranges.R3.
MaxGauss_missing_R3 == [r \in 0 .. 2 |-> Gauss(r)]

\* range_to_max_gauss (lines 25-36): 0.3, 0.6, 1.2 and 3.0 tesla, in
\* gauss (the four float products are exact); a range no case matches
\* reaches assert_never, which raises.
MaxGauss == [r \in Ranges |-> Gauss(r)]

Py(t, v) == [t |-> t, v |-> v]
PyTrue == Py("bool", TRUE)

\* Python truth value: False, zero and "" are false.
Truthy(x) ==
    CASE x.t = "bool" -> x.v
      [] x.t \in {"int", "float"} -> x.v # 0
      [] OTHER -> x.v # ""

IsNumber(x) == x.t \in {"bool", "int", "float"}

Abs(n) == IF n < 0 THEN -n ELSE n

\* convert_type (control.py lines 38-45): int(), else float(), else the
\* word itself.  Words are decimal integers, "2.5" or other text.
IntWords == {"0", "1", "4000", "-4000"}
IntOf(w) == CASE w = "0" -> 0 [] w = "1" -> 1 [] w = "4000" -> 4000 [] w = "-4000" -> -4000
convert_type(w) ==
    IF w \in IntWords THEN Py("int", IntOf(w))
    ELSE IF w = "2.5" THEN Py("float", 5)   \* only its non-zero-ness matters
    ELSE Py("str", w)

\* Probe.__init__ (lines 44-48): field 0.0, range R3, initialized.
NewProbe == [field |-> Py("float", 0), range |-> 3, initialized |-> PyTrue]

VARIABLES
    connected,  \* device.connected
    probes,     \* device.probes: id -> Probe
    reply,      \* the last serial request and what came back
    meant       \* ghost: per probe, whether the initialized flag is meant
                \* to be true: set by initialize and reset, and by
                \* backdoor_set_initialized with the word's intended value

vars == <<connected, probes, reply, meant>>

\* The values a word or a probe attribute can hold, by class.
IsPyValue(x) ==
    CASE x.t = "bool" -> x.v \in BOOLEAN
      [] x.t \in {"int", "float"} -> x.v \in Int
      [] OTHER -> x.t = "str" /\ x.v \in Words

NoReply == "none"   \* the handler raised, or if_connected gave no reply

TypeOK ==
    /\ IsPyValue(connected)
    /\ DOMAIN probes = ProbeIds
    /\ \A i \in ProbeIds : /\ IsPyValue(probes[i].field)
                           /\ IsPyValue(probes[i].initialized)
                           /\ probes[i].range \in Ranges   \* sensor_range is a Ranges member
    /\ reply \in [cmd : {"none", "initialize", "get_field", "get_temperature", "set_range"},
                  id : RequestIds \cup {-1},
                  kind : {NoReply, "ack", "reading", "uninitialized", "over_range"}]
    /\ meant \in [ProbeIds -> BOOLEAN]

\* _initialize_data (lines 59-68), run when the device is created.
Init ==
    /\ connected = PyTrue
    /\ probes = [i \in ProbeIds |-> NewProbe]
    /\ reply = [cmd |-> "none", id |-> -1, kind |-> NoReply]
    /\ meant = [i \in ProbeIds |-> TRUE]

-----------------------------------------------------------------------------
(* Serial requests (stream_interface.py).  @if_connected returns no reply  *)
(* while device.connected is false; an exception (KeyError for an unknown  *)
(* probe, ValueError from Ranges(), TypeError from abs()) goes to          *)
(* handle_error, which logs and sends nothing.                             *)

Answer(cmd, i, k) == reply' = [cmd |-> cmd, id |-> i, kind |-> k]

Served(i) == Truthy(connected) /\ i \in ProbeIds

\* initialize (lines 61-64): Probe.initialize (53-55) sets R3 and initialized.
initialize(i) ==
    /\ IF Served(i)
       THEN /\ probes' = [probes EXCEPT ![i].range = 3, ![i].initialized = PyTrue]
            /\ meant' = [meant EXCEPT ![i] = TRUE]
            /\ Answer("initialize", i, "ack")
       ELSE /\ Answer("initialize", i, NoReply)
            /\ UNCHANGED <<probes, meant>>
    /\ UNCHANGED connected

\* What get_field replies for a probe (lines 66-73; is_over_range 50-51,
\* range_to_max_gauss 25-36).
FieldReply(p) ==
    CASE ~Truthy(p.initialized) -> "uninitialized"
      [] ~IsNumber(p.field) -> NoReply
      [] p.range \notin DOMAIN MaxGauss -> NoReply      \* assert_never
      [] Abs(p.field.v) > MaxGauss[p.range] -> "over_range"
      [] OTHER -> "reading"

get_field(i) ==
    /\ Answer("get_field", i, IF Served(i) THEN FieldReply(probes[i]) ELSE NoReply)
    /\ UNCHANGED <<connected, probes, meant>>

\* get_temperature (lines 75-80): the temperature is formatted whatever it is.
get_temperature(i) ==
    /\ Answer("get_temperature", i,
              CASE ~Served(i) -> NoReply
                [] ~Truthy(probes[i].initialized) -> "uninitialized"
                [] OTHER -> "reading")
    /\ UNCHANGED <<connected, probes, meant>>

\* Mutant: the range id stored without the Ranges() conversion.
set_range_unchecked(i, r) ==
    /\ IF Served(i)
       THEN /\ probes' = [probes EXCEPT ![i].range = r]
            /\ Answer("set_range", i, "ack")
       ELSE /\ Answer("set_range", i, NoReply)
            /\ UNCHANGED probes
    /\ UNCHANGED <<connected, meant>>

\* set_range (lines 82-85): Ranges(range_id) raises ValueError for an id
\* that is not a range, before the probe is touched.
set_range(i, r) ==
    /\ IF Served(i) /\ r \in Ranges
       THEN /\ probes' = [probes EXCEPT ![i].range = r]
            /\ Answer("set_range", i, "ack")
       ELSE /\ Answer("set_range", i, NoReply)
            /\ UNCHANGED probes
    /\ UNCHANGED <<connected, meant>>

-----------------------------------------------------------------------------
(* control.py call_method (lines 48-61) on the device object: each word    *)
(* goes through convert_type; a callable member is called with the values, *)
(* a data member is read (no words) or set with setattr (one word; more    *)
(* make setattr raise TypeError).  A call with the wrong number of values, *)
(* or a probe id that is not a key, raises on the server and changes       *)
(* nothing.                                                                *)

\* reset / _initialize_data (device.py lines 59-71), called through control.py.
reset ==
    /\ connected' = PyTrue
    /\ probes' = [i \in ProbeIds |-> NewProbe]
    /\ meant' = [i \in ProbeIds |-> TRUE]
    /\ UNCHANGED reply

\* backdoor_set_field / backdoor_set_initialized (device.py lines 73-80) with the
\* converted words w1, w2.  backdoor_set_temperature changes only the
\* temperature, which no reply kind depends on.
Key(w) == IF convert_type(w).t = "int" THEN convert_type(w).v ELSE -1

backdoor_set_field(w1, w2) ==
    /\ Key(w1) \in ProbeIds
    /\ probes' = [probes EXCEPT ![Key(w1)].field = convert_type(w2)]
    /\ UNCHANGED <<connected, reply, meant>>

\* The truth value an operator means by a word: True and False are the
\* booleans they name, any other word the value convert_type gives it.
Meant(w) == IF w \in {"True", "False"} THEN w = "True" ELSE Truthy(convert_type(w))

backdoor_set_initialized(w1, w2) ==
    /\ Key(w1) \in ProbeIds
    /\ probes' = [probes EXCEPT ![Key(w1)].initialized = convert_type(w2)]
    /\ meant' = [meant EXCEPT ![Key(w1)] = Meant(w2)]
    /\ UNCHANGED <<connected, reply>>

\* setattr(device, "connected", value) with one word.
set_connected(w) ==
    /\ connected' = convert_type(w)
    /\ UNCHANGED <<probes, reply, meant>>

Next ==
    \/ \E i \in RequestIds : initialize(i) \/ get_field(i) \/ get_temperature(i)
    \/ \E i \in RequestIds, r \in RangeIds : set_range(i, r)
    \/ reset
    \/ \E w1, w2 \in Words : backdoor_set_field(w1, w2) \/ backdoor_set_initialized(w1, w2)
    \/ \E w \in Words : set_connected(w)

Spec == Init /\ [][Next]_vars

-----------------------------------------------------------------------------
\* A connected device answers get_field for one of its probes whose field
\* is a number, whatever set_range requests came before: set_range stores
\* only a member of Ranges (the Ranges() conversion of line 84 raises
\* before the probe is changed), so range_to_max_gauss never reaches
\* assert_never when a later reading is taken.
GetFieldAnswers ==
    [][\A i \in ProbeIds :
          get_field(i) /\ Truthy(connected) /\ IsNumber(probes[i].field)
             => reply'.kind # NoReply]_vars

\* A get_field on a connected device, for a probe whose initialized flag
\* the operator last set to False through control.py (`control.py device
\* backdoor_set_initialized i False`) and nothing initialized since,
\* replies that the probe is uninitialized (stream_interface.py line 69).
UninitializedByOperator ==
    [][\A i \in ProbeIds :
          get_field(i) /\ Truthy(connected) /\ ~meant[i]
             => reply'.kind = "uninitialized"]_vars

=============================================================================
