---------------------------- MODULE MCTenantLock ----------------------------
(* Small instances of TenantLock.                                            *)
EXTENDS TenantLock
=============================================================================
