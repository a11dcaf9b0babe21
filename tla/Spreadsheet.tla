----------------------------- MODULE Spreadsheet -----------------------------
(***************************************************************************)
(* spreadsheet.Writer.Write (src/spreadsheet): a goroutine builds the file *)
(* and puts it into a channel for one result; the caller takes it from     *)
(* there or leaves when its context ends.  A sheet is its tab's name, its  *)
(* headers (how many) and its rows; excelize is external.                  *)
(***************************************************************************)
EXTENDS Integers, Sequences

CONSTANTS
  DefaultSheetName,
  TrimSpace(_), \* strings.TrimSpace
  SheetKey(_)   \* external: excelize tells names apart by this, ignoring their case

VARIABLES writer \* the goroutine, its caller and their context

NoWriter == [pc |-> "none"]

\* Write's checks.
Refused(format, sheets) ==
  \/ sheets = <<>> \/ format \notin {"xlsx", "csv"}
  \/ \E i \in DOMAIN sheets : sheets[i].headers = 0

\* Write starts the goroutine and waits.
BeginWrite(format, sheets) ==
  /\ writer = NoWriter
  /\ writer' = [pc |-> "write", format |-> format, sheets |-> sheets, next |-> 1,
                tabs |-> <<>>, ok |-> TRUE, waiting |-> TRUE, ended |-> FALSE]

\* resolveSheetName
ResolveSheetName(name) ==
  IF TrimSpace(name) # "" THEN TrimSpace(name) ELSE DefaultSheetName

\* writeXLSX for one sheet: a tab of its own, or the one that has its name; cells
\* that are not written again stay.
AddTab(tabs, s) ==
  LET name == ResolveSheetName(s.name)
      old == {i \in DOMAIN tabs : SheetKey(tabs[i].name) = SheetKey(name)}
      over(rows) == [i \in 1..(IF Len(rows) > Len(s.rows) THEN Len(rows) ELSE Len(s.rows)) |->
                       IF i <= Len(s.rows) THEN s.rows[i] ELSE rows[i]]
  IN IF old = {} THEN Append(tabs, [name |-> name, rows |-> s.rows])
     ELSE [i \in DOMAIN tabs |-> IF i \in old THEN [tabs[i] EXCEPT !.rows = over(@)] ELSE tabs[i]]

\* The result goes into the channel, which has room for it; when the caller has
\* left nobody takes it.
Sent(w) == IF w.waiting THEN [w EXCEPT !.pc = "sent"] ELSE NoWriter

\* Mutant: the channel has no room for a result that nobody waits for.
SendResult_Unbuffered ==
  /\ writer.pc = "send" /\ writer.waiting
  /\ writer' = Sent(writer)
SendResult ==
  /\ writer.pc = "send"
  /\ writer' = Sent(writer)

\* Mutant: a context that ends only ends the loop.
WriteSheet_Breaks ==
  /\ writer.pc = "write"
  /\ LET done == [writer EXCEPT !.tabs = AddTab(@, writer.sheets[writer.next]), !.next = @ + 1,
                                !.pc = IF writer.format = "csv" \/ writer.next = Len(writer.sheets)
                                       THEN "send" ELSE "write"]
     IN \/ writer' = done
        \/ writer' = [writer EXCEPT !.pc = "send", !.ok = writer.ended]

\* writeXLSX and writeCSV: the next sheet, of which CSV has only the first; or an
\* error, which any cell and the encoding may meet, a context that has ended among
\* them.  A context that ends late is not noticed.
WriteSheet ==
  /\ writer.pc = "write"
  /\ LET done == [writer EXCEPT !.tabs = AddTab(@, writer.sheets[writer.next]), !.next = @ + 1,
                                !.pc = IF writer.format = "csv" \/ writer.next = Len(writer.sheets)
                                       THEN "send" ELSE "write"]
     IN \/ writer' = done
        \/ writer' = [writer EXCEPT !.pc = "send", !.ok = FALSE]

\* The caller's select: the result ...
TakeResult ==
  /\ writer.pc = "sent"
  /\ writer' = NoWriter

\* ... or the end of the context, which may win also against a result.
GiveUp ==
  /\ writer # NoWriter /\ writer.waiting /\ writer.ended
  /\ writer' = IF writer.pc = "sent" THEN NoWriter ELSE [writer EXCEPT !.waiting = FALSE]

\* External: the client of the request goes away.
Disconnect ==
  /\ writer # NoWriter /\ ~writer.ended
  /\ writer' = [writer EXCEPT !.ended = TRUE]
=============================================================================
