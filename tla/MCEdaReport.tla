---------------------------- MODULE MCEdaReport ----------------------------
(***************************************************************************)
(* Instances of EdaReport: one or two reports of one data source.          *)
(***************************************************************************)
EXTENDS EdaReport

CONSTANTS r1, r2

Any == [celery : BOOLEAN, cascade : BOOLEAN]
OnlyCelery == [celery : {TRUE}, cascade : {TRUE}]
=============================================================================
