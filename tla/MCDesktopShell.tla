---------------------------- MODULE MCDesktopShell ----------------------------
(* The instance of DesktopShell for TLC. *)
EXTENDS DesktopShell
=============================================================================
