---------------------------- MODULE MCCreateForm ----------------------------
(***************************************************************************)
(* Small instances of CreateForm.                                          *)
(***************************************************************************)
EXTENDS CreateForm
=============================================================================
