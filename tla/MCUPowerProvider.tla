-------------------------- MODULE MCUPowerProvider --------------------------
(* TLC instances of UPowerProvider.                                          *)
EXTENDS UPowerProviderProperties
=============================================================================
