---------------------------- MODULE MediaLibraryMC ----------------------------
(* Values for the constants of MediaLibrary. *)
EXTENDS MediaLibrary, TLC

CONSTANTS x, y

\* One file that was stored before.
MCStock == <<0, 0>> :> x
===============================================================================
