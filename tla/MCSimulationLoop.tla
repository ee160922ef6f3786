-------------------------- MODULE MCSimulationLoop --------------------------
(***************************************************************************)
(* A loop of two clock units per tick, a frame every five, and wake-ups    *)
(* that are in time, late, or late by more than either period.             *)
(***************************************************************************)
EXTENDS SimulationLoop

MCLatenesses == {0, 1, 2, 3, 6}
=============================================================================
