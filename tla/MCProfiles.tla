----------------------------- MODULE MCProfiles -----------------------------
(* A small instance of Profiles for TLC: see README.md for the bounds.      *)
EXTENDS Profiles, TLC

CONSTANTS a1, vh, default, solo

MCOrder == <<a1, vh>>
MCNames == {<<solo>>, <<solo, 2>>}
MCDefault == <<default>>
=============================================================================
