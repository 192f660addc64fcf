---------------------------- MODULE MCUploaders -----------------------------
(***************************************************************************)
(* Lists of keys for two client VMs: one key for each, the same after two  *)
(* more for a second uploader on each, and a list that does not divide by  *)
(* the VMs.                                                                *)
(***************************************************************************)
EXTENDS Uploaders

MCGivenLists == {<<1, 2>>, <<3, 4, 1, 2>>, <<5>>}

=============================================================================
