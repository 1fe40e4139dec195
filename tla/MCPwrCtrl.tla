----------------------------- MODULE MCPwrCtrl -----------------------------
(* Small instances of PwrCtrl for TLC.                                       *)
EXTENDS PwrCtrl
=============================================================================
