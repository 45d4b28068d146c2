-------------------------------- MODULE Focus --------------------------------
(***************************************************************************)
(* The smaller parts of the server share a process but no state worth      *)
(* interleaving: a behaviour of the composed model (module Household)      *)
(* exercises one of them, under one kind of trouble, both chosen at the    *)
(* start.                                                                  *)
(***************************************************************************)
CONSTANT Parts      \* part of the server -> the troubles it may meet
VARIABLES part, trouble

Chosen == /\ part \in DOMAIN Parts
          /\ trouble \in Parts[part]
=============================================================================
