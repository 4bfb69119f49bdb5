------------------------------ MODULE MCPlcScan ------------------------------
(* Instances of PlcScan for TLC. *)
EXTENDS PlcScan

\* All pulses constantly off: for the runs that are not about them.
MCNoPulses == [p \in Pulses |-> 1]

\* Pulses of two ticks.
MCPulses == [p \in Pulses |-> 2]

==============================================================================
