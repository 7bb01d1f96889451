----------------------------- MODULE MCPilotRun -----------------------------
(* Small instances of PilotRun for TLC. *)
EXTENDS PilotRun

Cell(id, user, time) == [id |-> id, user |-> user, time |-> time, text |-> "x"]

\* Months around the calendar: two before it, its first, its last, one after.
Early == 24209
First == 24213
Last == 24317
Late == 24318

\* Retained and excluded rows, exact and conflicting duplicates over one and
\* two files, cells that do not parse, an empty workbook; "q" has no valid
\* time when the first file has its second content.
TwoFiles ==
  << [v1 |-> <<Cell("i1", "p", First), Cell("i2", "q", Early), Cell("i2", "q", NoTime)>>,
      v2 |-> <<Cell("i1", "o", Last), Cell("invalid", "p", Last), Cell("i5", "p", Late)>>,
      v3 |-> <<>>],
     [v1 |-> <<Cell("i1", "p", First), Cell("i4", "q", NoTime)>>] >>

\* Two contents of the first file have one size.
TwoFilesSize == << [v1 |-> 7, v2 |-> 7, v3 |-> 3], [v1 |-> 4] >>

OneFile == << TwoFiles[1] >>
OneFileSize == << TwoFilesSize[1] >>
=============================================================================
