------------------------------- MODULE Slots --------------------------------
(***************************************************************************)
(* What the modules of component instances share: which component runs,    *)
(* and the slots that are its variables.                                   *)
(***************************************************************************)
CONSTANT None
VARIABLES part, v1, v2, v3, v4, v5, v6, v7, v8, v9, v10, v11
=============================================================================
