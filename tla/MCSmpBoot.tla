----------------------------- MODULE MCSmpBoot -----------------------------
(***************************************************************************)
(* SmpBoot with a boot processor, three others and a local APIC that the     *)
(* MADT lists as disabled.                                                 *)
(***************************************************************************)
EXTENDS SmpBoot

CONSTANTS b, a1, a2, a3, disabled

Madt == <<b, disabled, a1, a2, a3>>
=============================================================================
