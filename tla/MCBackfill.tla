----------------------------- MODULE MCBackfill -----------------------------
(* Small instances of Backfill for TLC. *)
EXTENDS Backfill
=============================================================================
