-------------------------- MODULE MCDiagnosticsRun --------------------------
(* Small instances of DiagnosticsRun for TLC. *)
EXTENDS DiagnosticsRun

\* Two records of one workbook row, then of the next ones; a one-record file.
TwoFiles == [a |-> <<2, 2, 3>>, b |-> <<2>>]
OneFile == [a |-> <<2, 2, 3, 4>>]
=============================================================================
