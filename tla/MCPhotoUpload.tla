---------------------------- MODULE MCPhotoUpload ---------------------------
(* A bounded instance of PhotoUpload for TLC.                              *)
EXTENDS PhotoUpload
=============================================================================
