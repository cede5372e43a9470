------------------------------ MODULE MCSelect ------------------------------
(***************************************************************************)
(* Select for TLC: what the application has installed for three signals.   *)
(***************************************************************************)
EXTENDS Select

MCInstalled == {<<"ACK", "BSD", "BSD">>}
=============================================================================
