------------------------------- MODULE MCUpload -------------------------------
(***************************************************************************)
(* Small instances of the upload for TLC.                                  *)
(***************************************************************************)
EXTENDS UploadProperties
=============================================================================
