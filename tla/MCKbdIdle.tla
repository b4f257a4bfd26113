----------------------------- MODULE MCKbdIdle -----------------------------
(***************************************************************************)
(* Two levels of light besides off, and up to two events under way.        *)
(***************************************************************************)
EXTENDS KbdIdle
=============================================================================
