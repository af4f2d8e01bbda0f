----------------------------- MODULE MCS3Client -----------------------------
(* The run of S3Client needs no model values: its constants are bounds.      *)
EXTENDS S3Client
=============================================================================
