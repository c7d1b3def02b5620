-------------------------- MODULE MCControlSession --------------------------
(* Instances of ControlSession for TLC. *)
EXTENDS ControlSession

\* The user never interrupts a transfer.
WithoutAbor == AllVerbs \ {"ABOR"}

=============================================================================
