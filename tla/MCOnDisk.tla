------------------------------ MODULE MCOnDisk ------------------------------
(* Small instances of OnDiskKeyInfoManager. *)
EXTENDS OnDiskKeyInfoManager
=============================================================================
