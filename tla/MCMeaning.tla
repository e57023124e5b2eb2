----------------------------- MODULE MCMeaning -----------------------------
(* The programs of MCObjects that are well typed and keep the rows. *)
EXTENDS MCObjects

MCWellTyped ==
  {p \in MCObjectPrograms : WellTyped(p) /\ RowsStay(p) /\ RowsSuffice(p)}
=============================================================================
