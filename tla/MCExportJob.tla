----------------------------- MODULE MCExportJob -----------------------------
(* Small instances of ExportJob for TLC. *)
EXTENDS ExportJob

CONSTANTS c1, c2

\* Three targets; the last one shares the first one's connection.
SharedConnection == <<c1, c2, c1>>
=============================================================================
