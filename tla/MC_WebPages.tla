----------------------------- MODULE MC_WebPages -----------------------------
(***************************************************************************)
(* Instances of WebPages for TLC: every scene of every page.               *)
(***************************************************************************)
EXTENDS WebPages, TLC
=============================================================================
