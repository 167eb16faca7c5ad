---------------------------- MODULE MCQuotaCache ----------------------------
(* The instance of QuotaCache for TLC. *)
EXTENDS QuotaCache
=============================================================================
