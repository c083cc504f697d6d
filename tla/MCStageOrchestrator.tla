------------------------ MODULE MCStageOrchestrator ------------------------
(* Instantiation of StageOrchestrator for TLC: three stages, the suite file *)
(* edited between invocations among three lists, three invocations.       *)
EXTENDS StageOrchestrator

CONSTANTS Provision, Deploy, Verify

St(k, r) == [keyword |-> k, recoverable |-> r]

\* the usual suite: provisioning and deployment unrecoverable, then checks
SuiteA == <<St(Provision, FALSE), St(Deploy, FALSE), St(Verify, TRUE)>>
\* the same keywords with deployment marked recoverable
SuiteB == <<St(Provision, FALSE), St(Deploy, TRUE), St(Verify, TRUE)>>
\* an unrecoverable stage registered after a recoverable one
SuiteC == <<St(Provision, FALSE), St(Verify, TRUE), St(Deploy, FALSE)>>

MCSuites == {SuiteA, SuiteB, SuiteC}
MCKeywords == {Provision, Deploy, Verify}
=============================================================================
