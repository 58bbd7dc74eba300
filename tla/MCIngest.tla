------------------------------- MODULE MCIngest -------------------------------
(* Files that split, and files whose handler raises.                       *)
EXTENDS Ingest

MCFile(suffix, source, pieces, members) ==
  [suffix |-> suffix, source |-> source, pieces |-> pieces, members |-> members]
MCTable == MCFile("xlsx", "table", 1, {})
MCUpload == {
  MCFile("docx", "none", 2, {}), MCFile("docx", "none", 0, {}), MCFile("md", "none", 1, {}),
  MCFile("zip", "table", 1, {MCTable, MCFile("exe", "table", 1, {})}),
  MCFile("zip", "qa", 1, {MCFile("xlsx", "qa", 1, {})})}
===============================================================================
