---------------------------- MODULE MCBrightness ----------------------------
(* TLC instance of Brightness: two kinds of hardware, one of which cannot be *)
(* dark.                                                                     *)
EXTENDS BrightnessProperties

MCParams == {[min |-> 0, max |-> 2, default |-> 1], [min |-> 1, max |-> 5, default |-> 3]}
=============================================================================
