-------------------------- MODULE MC_OPCUAAdapter ---------------------------
(* OPCUAAdapter instantiated for TLC with the devices of the repository.   *)
EXTENDS OPCUAAdapter, HallProbeDevice, ExampleDevice, TLC

\* Poller thread identities (two: enough for a lingering and a new one).
MC_PollerSlots == {"p1", "p2"}

MC_Values == {0, 1}

=============================================================================
