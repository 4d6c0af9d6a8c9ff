---------------------------- MODULE ExampleDevice ----------------------------
(***************************************************************************)
(* ExampleOPCUADevice (src/lewis/examples/opcua_device/__init__.py): data  *)
(* attributes temperature and power, methods set_temperature and reset.    *)
(* Value 0 stands for the initial values (25.0, False), 1 for another.     *)
(***************************************************************************)
EXTENDS Naturals

ExampleAttrs == {"temperature", "power"}

ExampleMethods == {"set_temperature", "reset"}

ExampleArity == [m \in ExampleMethods |-> IF m = "reset" THEN 0 ELSE 1]

\* __init__: temperature = 25.0, power = False.
ExampleInit == [temperature |-> 0, power |-> 0]

\* set_temperature(value) sets temperature; reset restores both.
ExampleEffect(m, args, d) ==
    IF m = "reset"
    THEN ExampleInit
    ELSE [d EXCEPT !["temperature"] = args[1]]

=============================================================================
