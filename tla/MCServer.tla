------------------------------ MODULE MCServer ------------------------------
(* The instances of Server for TLC.                                        *)
EXTENDS Server

=============================================================================
