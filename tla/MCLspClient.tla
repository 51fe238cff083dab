---------------------------- MODULE MCLspClient ----------------------------
(* A tool that sends notifications, and two server requests, one with id 0.*)
EXTENDS LspClient, TLC
=============================================================================
