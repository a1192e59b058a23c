----------------------------- MODULE MCDiskCache -----------------------------
(* Two clients and one key that is put, read, expires and is put again.    *)
EXTENDS DiskCache
=============================================================================
