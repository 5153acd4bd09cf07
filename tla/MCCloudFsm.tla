---------------------------- MODULE MCCloudFsm ----------------------------
(* Small instances of the cloud service. *)
EXTENDS CloudFsm
CalmAndRough == {Calm, Rough}
OnlyStray == {Stray}
=============================================================================
