--------------------------- MODULE MCDecisionLog ---------------------------
(***************************************************************************)
(* A small instance of DecisionLog for TLC.                                *)
(***************************************************************************)
EXTENDS DecisionLog

\* A classified event carries the first message, the pinned event after it does not.
MCTexts == {1, 5}

\* The decision of the fourth event, and the text of the fifth, are never accepted.
MCRefusedRows == {4}
MCRefusedTexts == {5}
=============================================================================
