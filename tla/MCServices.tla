----------------------------- MODULE MCServices -----------------------------
(***************************************************************************)
(* The files and devices of the model-checking run of Services.           *)
(***************************************************************************)
EXTENDS ServicesProperties

MCDriverFiles == <<"piix3", "rtl8139">>

\* The disk controller is a function of the bridge's slot.
MCFunctions ==
  {[slot |-> 0, fn |-> 0, device |-> "bridge"], [slot |-> 0, fn |-> 1, device |-> "piix3"],
   [slot |-> 1, fn |-> 0, device |-> "rtl8139"]}
=============================================================================
