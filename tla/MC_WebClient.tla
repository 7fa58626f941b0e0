----------------------------- MODULE MC_WebClient -----------------------------
(***************************************************************************)
(* Instances of LiveFeed and the WebSession under it for TLC: one tab.     *)
(***************************************************************************)
EXTENDS LiveFeed, TLC
=============================================================================
