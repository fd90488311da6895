------------------------------ MODULE Requests ------------------------------
(***************************************************************************)
(* ApiKeys, Devices, PowerSync, Variants, Migrations, Notices and Matrix:   *)
(* parts that share no state.  Interleaving them would add nothing, so a    *)
(* behaviour takes the steps of one, chosen at its start.                   *)
(***************************************************************************)
EXTENDS ApiKeys, Devices, PowerSync, Variants, Migrations, Notices, Matrix

VARIABLE part   \* the part whose steps are taken

RequestsInit ==
  /\ KeyInit /\ DeviceInit /\ SyncInit /\ VariantInit /\ MigrationInit /\ NoticeInit
  /\ MatrixInit
  /\ part \in {"keys", "devices", "sync", "variants", "migrations", "notices", "matrix"}

\* Type invariant of all parts.
RequestsTypeOK ==
  /\ KeyTypeOK /\ DeviceTypeOK /\ SyncTypeOK /\ VariantTypeOK /\ MigrationTypeOK
  /\ NoticeTypeOK /\ MatrixTypeOK

RequestsNext ==
  /\ \/ part = "keys" /\ KeyNext
     \/ part # "keys" /\ UNCHANGED keyVars
  /\ \/ part = "devices" /\ DeviceNext
     \/ part # "devices" /\ UNCHANGED deviceVars
  /\ \/ part = "sync" /\ SyncNext
     \/ part # "sync" /\ UNCHANGED syncVars
  /\ \/ part = "variants" /\ VariantNext
     \/ part # "variants" /\ UNCHANGED variantVars
  /\ \/ part = "migrations" /\ MigrationNext
     \/ part # "migrations" /\ UNCHANGED migrationVars
  /\ \/ part = "notices" /\ NoticeNext
     \/ part # "notices" /\ UNCHANGED noticeVars
  /\ \/ part = "matrix" /\ MatrixNext
     \/ part # "matrix" /\ UNCHANGED matrixVars
  /\ UNCHANGED part

requestsVars ==
  <<keyVars, deviceVars, syncVars, variantVars, migrationVars, noticeVars, matrixVars, part>>

RequestsSpec == RequestsInit /\ [][RequestsNext]_requestsVars
=============================================================================
