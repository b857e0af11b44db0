----------------------------- MODULE MCScanFormat -----------------------------
(***************************************************************************)
(* Instances of ScanFormat for TLC: every buffer of up to MaxRows rows.    *)
(***************************************************************************)
EXTENDS ScanFormat

CONSTANT MaxRows

MCBuffers == UNION {[1 .. n -> BOOLEAN] : n \in 0 .. MaxRows}

\* All scans but the last are complete, so nothing is left over from before.
FullScans == {<<TRUE, FALSE, FALSE, TRUE, FALSE, FALSE>>}
=============================================================================
