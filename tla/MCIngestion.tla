---------------------------- MODULE MCIngestion ----------------------------
(***************************************************************************)
(* An instance of Ingestion: an upload and an S3 source.                   *)
(***************************************************************************)
EXTENDS Ingestion

CONSTANTS f1, s1
=============================================================================
