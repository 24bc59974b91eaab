--------------------------- MODULE MCOrchestrator ---------------------------
(* Model-checking instance of Orchestrator: one Android and one iOS device, *)
(* two tests, a battery that may lose one percent during the run.          *)
EXTENDS Orchestrator

CONSTANTS a1, i1, t1, t2

MCAndroidDevs == <<a1>>
MCIOSDevs     == <<i1>>
MCTestSuite   == <<t1, t2>>

=============================================================================
