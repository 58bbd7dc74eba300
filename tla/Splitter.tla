------------------------------- MODULE Splitter -------------------------------
(***************************************************************************)
(* The chain of file handlers (src/apps/knowledge/splitter): which handler *)
(* takes a file, and whether it returns paragraphs or raises.              *)
(*                                                                         *)
(* A file is its suffix, the source_type its upload asked for, and, for an *)
(* archive, its members.  Its text is left out (module SplitModel has what *)
(* is done to it).                                                         *)
(***************************************************************************)
EXTENDS Naturals, Sequences, SequencesExt

\* Qa and table imports before the formats, text last.
Handlers == <<"qa", "table", "pdf", "docx", "xlsx", "csv", "html", "zip", "text">>

Sheets == {"xlsx", "xls"}
QaSupports(f) == f.source = "qa" /\ f.suffix \in {"md", "txt", "csv"} \cup Sheets
TableSupports(f) == f.source = "table" /\ f.suffix \in {"csv"} \cup Sheets
PdfSupports(f) == f.suffix = "pdf"
DocSupports(f) == f.suffix = "docx"
XlsxSupports(f) == f.suffix \in Sheets /\ f.source # "table"
CsvSupports(f) == f.suffix = "csv" /\ f.source # "table"
HtmlSupports(f) == f.suffix \in {"html", "htm"}
ZipSupports(f) == f.suffix = "zip"
TextSupports(f) == f.suffix \in {"md", "txt"}

Supports(h, f) ==
  \/ h = "qa" /\ QaSupports(f)
  \/ h = "table" /\ TableSupports(f)
  \/ h = "pdf" /\ PdfSupports(f)
  \/ h = "docx" /\ DocSupports(f)
  \/ h = "xlsx" /\ XlsxSupports(f)
  \/ h = "csv" /\ CsvSupports(f)
  \/ h = "html" /\ HtmlSupports(f)
  \/ h = "zip" /\ ZipSupports(f)
  \/ h = "text" /\ TextSupports(f)

\* The first handler that takes the file, or none.
GetHandler(f) == SelectInSeq(Handlers, LAMBDA h : Supports(h, f))
HandlerOf(f) == IF GetHandler(f) = 0 THEN "none" ELSE Handlers[GetHandler(f)]

(***************************************************************************)
(* What handle() needs of a file.  onDisk: the file is known by its path;  *)
(* a member of an archive is known by its bytes.  openpyxl does not read   *)
(* the old .xls format.  The handlers of plain text, csv, html and pdf     *)
(* title their paragraphs with file.file_name, an attribute File has not.  *)
(***************************************************************************)
File == {"name", "path", "bytes", "meta", "suffix"}
HasTitle == "file_name" \in File

QaHandle(f, onDisk) == f.suffix \notin Sheets \/ (f.suffix = "xlsx" /\ onDisk)
TableHandle(f, onDisk) == f.suffix # "xls"
XlsxHandle(f, onDisk) == f.suffix # "xls"
DocHandle(f, onDisk) == onDisk
PdfHandle(f, onDisk) == onDisk /\ HasTitle
CsvHandle(f, onDisk) == HasTitle
HtmlHandle(f, onDisk) == HasTitle
TextHandle(f, onDisk) == HasTitle

Handles(h, f, onDisk) ==
  \/ h = "qa" /\ QaHandle(f, onDisk)
  \/ h = "table" /\ TableHandle(f, onDisk)
  \/ h = "pdf" /\ PdfHandle(f, onDisk)
  \/ h = "docx" /\ DocHandle(f, onDisk)
  \/ h = "xlsx" /\ XlsxHandle(f, onDisk)
  \/ h = "csv" /\ CsvHandle(f, onDisk)
  \/ h = "html" /\ HtmlHandle(f, onDisk)
  \/ h = "text" /\ TextHandle(f, onDisk)

\* A member nobody takes, and an archive in the archive, are read as text.
ZipHandle(f) ==
  \A member \in f.members :
    HandlerOf(member) \in {"none", "zip"} \/ Handles(HandlerOf(member), member, FALSE)

\* The file of an upload becomes paragraphs.
Splits(f) ==
  \/ HandlerOf(f) = "zip" /\ ZipHandle(f)
  \/ Handles(HandlerOf(f), f, TRUE)
===============================================================================
