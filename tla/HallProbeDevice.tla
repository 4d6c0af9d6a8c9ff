--------------------------- MODULE HallProbeDevice ---------------------------
(***************************************************************************)
(* SimulatedGroup3HallProbe (src/lewis/devices/group3hallprobe/device.py)  *)
(* as the OPC UA adapter sees it: two data attributes, connected and       *)
(* probes, and its public methods.  The adapter compares attribute values  *)
(* with !=, so probes is abstracted to the identity of the dict it holds:  *)
(* the backdoor setters mutate a Probe inside that dict and leave the      *)
(* attribute unchanged, reset() installs a new dict.                       *)
(***************************************************************************)
EXTENDS Naturals

HallAttrs == {"connected", "probes"}

HallMethods == {"backdoor_set_field", "backdoor_set_temperature",
                "backdoor_set_initialized", "reset", "_initialize_data",
                "_get_initial_state"}

HallPrivate == {"_initialize_data", "_get_initial_state"}

\* The backdoor setters take (probe_id, value), the others nothing.
HallArity == [m \in HallMethods |->
                IF m \in {"reset", "_initialize_data", "_get_initial_state"}
                THEN 0 ELSE 2]

\* _initialize_data: connected = True, probes = a fresh dict of Probes.
HallInit == [connected |-> 1, probes |-> 0]

\* The device after calling m: reset re-runs _initialize_data, which binds
\* probes to a new dict; a backdoor setter assigns a field of
\* self.probes[probe_id] in place; _get_initial_state only returns.
HallEffect(m, args, d) ==
    IF m \in {"reset", "_initialize_data"}
    THEN [connected |-> 1, probes |-> 1 - d["probes"]]
    ELSE d

=============================================================================
