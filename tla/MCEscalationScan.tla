-------------------------- MODULE MCEscalationScan --------------------------
(***************************************************************************)
(* Small instances of EscalationScan for TLC.                              *)
(***************************************************************************)
EXTENDS EscalationScan

\* A result that fails, one that succeeds, and a turn of two whose second fails.
MCToolTurns == {<<TRUE>>, <<FALSE>>, <<FALSE, TRUE>>}
=============================================================================
