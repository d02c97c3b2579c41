----------------------------- MODULE MCRestore ------------------------------
(* An instance of Restore: a directory with a plain and an encrypted file. *)
EXTENDS Restore, TLC

CONSTANTS plain, sealed

InOrder == <<plain, sealed>>
=============================================================================
