---------------------------- MODULE MCBrowserApps ----------------------------
(* Each of the three pages, before an empty core and one with a run. *)
EXTENDS BrowserApps
=============================================================================
