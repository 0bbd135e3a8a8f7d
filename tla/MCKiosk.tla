------------------------------ MODULE MCKiosk ------------------------------
(***************************************************************************)
(* An instance of Kiosk for TLC.                                           *)
(***************************************************************************)
EXTENDS Kiosk
=============================================================================
