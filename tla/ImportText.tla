----------------------------- MODULE ImportText -----------------------------
(***************************************************************************)
(* A file of another application becomes a table (importing/index.ts and   *)
(* fileImport.ts): the delimiter is guessed from the first lines, the text *)
(* is cut into cells, the first row names the columns, and each row is     *)
(* then normalised into a movement.  A text is a sequence of characters;   *)
(* the words a cell is made of count as one character each.                *)
(***************************************************************************)
EXTENDS Amounts, TLC

CONSTANTS Sheets,   \* what other applications export: a matrix of cells, and the delimiter
          Rows,     \* rows of a table: headers, cells, and what the row says
          Hints     \* the headers each field is recognised in

VARIABLE sheet      \* the file read, its table; or the row read, and its movement

Delimiters == <<",", ";", "TAB", "|">>
Quote == "\""
Blanks == {" ", "TAB", "NL", "CR"}

Trim(s) ==
  LET kept == {i \in DOMAIN s : s[i] \notin Blanks}
  IN IF kept = {} THEN <<>> ELSE SubSeq(s, Min(kept), Max(kept))

At(s, i) == IF i \in DOMAIN s THEN s[i] ELSE "END"

-----------------------------------------------------------------------------
(* parseDelimitedMatrix: one pass over the characters.                     *)

NoCarriage(cell) == IF cell # <<>> /\ Last(cell) = "CR" THEN Front(cell) ELSE cell

EndCell(m) == [m EXCEPT !.row = Append(@, m.cell), !.cell = <<>>]
EndRow(m) ==
  [m EXCEPT !.rows = Append(@, Append(m.row, NoCarriage(m.cell))), !.row = <<>>, !.cell = <<>>]
Take(m, c) == [m EXCEPT !.cell = Append(@, c)]

\* mutant: a doubled quote ends the quoted part.
QuotedTwice(m, c, next) ==
  IF c = Quote THEN [m EXCEPT !.quoted = FALSE] ELSE Take(m, c)

Quoted(m, c, next) ==
  CASE c = Quote /\ next = Quote -> [Take(m, Quote) EXCEPT !.skip = TRUE]
    [] c = Quote /\ next # Quote -> [m EXCEPT !.quoted = FALSE]
    [] OTHER -> Take(m, c)

Scan(m, c, next, delimiter) ==
  CASE m.skip -> [m EXCEPT !.skip = FALSE]
    [] ~m.skip /\ m.quoted -> Quoted(m, c, next)
    [] ~m.skip /\ ~m.quoted /\ c = Quote /\ m.cell = <<>> -> [m EXCEPT !.quoted = TRUE]
    [] ~m.skip /\ ~m.quoted /\ c = delimiter -> EndCell(m)
    [] ~m.skip /\ ~m.quoted /\ c = "NL" -> EndRow(m)
    [] OTHER -> Take(m, c)

Start == [rows |-> <<>>, row |-> <<>>, cell |-> <<>>, quoted |-> FALSE, skip |-> FALSE]

Matrix(text, delimiter) ==
  LET m == Running(LAMBDA acc, i : Scan(acc, text[i], At(text, i + 1), delimiter), Start, Len(text))[Len(text)]
  IN IF m.cell # <<>> \/ m.row # <<>> THEN EndRow(m).rows ELSE m.rows

-----------------------------------------------------------------------------
(* detectDelimiter: the candidate found on most of the first lines, and    *)
(* equally often on them; the first of the best.                           *)

AddTo(lines, c) ==
  IF c = "NL" THEN Append(lines, <<>>) ELSE [lines EXCEPT ![Len(lines)] = Append(@, c)]
Lines(text) == Running(LAMBDA lines, i : AddTo(lines, text[i]), <<<<>>>>, Len(text))[Len(text)]

\* A doubled quote inside quotes closes and opens them again: the count is the same.
Count(a, c, delimiter) ==
  CASE c = Quote -> [a EXCEPT !.quoted = ~@]
    [] c = delimiter /\ ~a.quoted -> [a EXCEPT !.count = @ + 1]
    [] OTHER -> a
CountOutsideQuotes(line, delimiter) ==
  Running(LAMBDA a, i : Count(a, line[i], delimiter), [quoted |-> FALSE, count |-> 0], Len(line))[Len(line)].count

DelimiterScore(lines, delimiter) ==
  LET first == {i \in 1..Min({8, Len(lines)}) : NoCarriage(lines[i]) # <<>>}
      found == {i \in first : CountOutsideQuotes(lines[i], delimiter) > 0}
      counts == {CountOutsideQuotes(lines[i], delimiter) : i \in found}
  IN IF found = {} THEN -1 ELSE Max({-1, 10 * Cardinality(found) - (Max(counts) - Min(counts))})

DetectDelimiter(text) ==
  LET score == [i \in DOMAIN Delimiters |-> DelimiterScore(Lines(text), Delimiters[i])]
  IN Delimiters[Min({i \in DOMAIN score : \A j \in DOMAIN score : score[j] <= score[i]})]

-----------------------------------------------------------------------------
(* parseDelimitedText.  A table is its headers and its rows, each from     *)
(* headers to cells; of two columns of one name the later one counts.      *)

UniqueHeaders(headers) ==
  [i \in DOMAIN headers |->
     LET count == Cardinality({j \in 1..i : headers[j] = headers[i]})
     IN IF count = 1 THEN headers[i] ELSE Append(headers[i], "(" \o ToString(count) \o ")")]

Named(row) ==
  [i \in DOMAIN row |-> IF Trim(row[i]) = <<>> THEN <<"Columna " \o ToString(i)>> ELSE Trim(row[i])]

CellAt(row, i) == IF i \in DOMAIN row THEN Trim(row[i]) ELSE <<>>

TableRow(headers, row) ==
  [h \in Range(headers) |-> CellAt(row, Max({i \in DOMAIN headers : headers[i] = h}))]

Filled(rows) == Only(rows, {k \in DOMAIN rows : \E i \in DOMAIN rows[k] : Trim(rows[k][i]) # <<>>})

Table(text, delimiter) ==
  LET matrix == Matrix(text, delimiter)
      headers == UniqueHeaders(Named(Head(matrix)))
      filled == Filled(Tail(matrix))
  IN IF matrix = <<>> THEN [headers |-> <<>>, rows |-> <<>>]
     ELSE [headers |-> headers, rows |-> [i \in DOMAIN filled |-> TableRow(headers, filled[i])]]

\* readImportFile: tabs for .tsv and for the sheets of Excel, a guess for the rest.
ReadImportFile(text, type) ==
  Table(text, IF type \in {"tsv", "xlsx"} THEN "TAB" ELSE DetectDelimiter(text))

-----------------------------------------------------------------------------
(* What another application writes: cells in quotes, doubled inside, where *)
(* they hold a delimiter, a quote or the end of a line.                    *)

Plain(cell, delimiter) == Range(cell) \cap {delimiter, Quote, "NL", "CR"} = {}
Doubled(cell) == [i \in DOMAIN cell |-> IF cell[i] = Quote THEN <<Quote, Quote>> ELSE <<cell[i]>>]
Cell(cell, delimiter) ==
  IF Plain(cell, delimiter) THEN cell ELSE <<Quote>> \o FlattenSeq(Doubled(cell)) \o <<Quote>>

Cells(row, delimiter) ==
  [i \in DOMAIN row |-> (IF i = 1 THEN <<>> ELSE <<delimiter>>) \o Cell(row[i], delimiter)]
Line(row, s) == FlattenSeq(Cells(row, s.delimiter)) \o s.ending
Written(s) == FlattenSeq([i \in DOMAIN s.matrix |-> Line(s.matrix[i], s)])

\* Its rows are as wide as the first of them, the headers.
Export(s) ==
  /\ s.matrix \in Seq(Seq(Seq(STRING))) /\ s.matrix # <<>> /\ s.matrix[1] # <<>>
  /\ \A i \in DOMAIN s.matrix : Len(s.matrix[i]) = Len(s.matrix[1])
  /\ s.delimiter \in Range(Delimiters) /\ s.type \in {"csv", "tsv", "xlsx"}
  /\ s.type \in {"tsv", "xlsx"} => s.delimiter = "TAB"
  /\ s.ending \in {<<"NL">>, <<"CR", "NL">>}

-----------------------------------------------------------------------------
(* guessImportMapping and normalizeImportRows.  A row of the mapped table  *)
(* goes from headers to cells: <<>> where nothing is written, or the one   *)
(* thing the cell tells: a number, a word for the kind, a currency, a date.*)

\* The first header a field is recognised in; one amount, unless there are two columns.
GuessMapping(headers, hints) ==
  LET found == [f \in DOMAIN hints |->
                  LET at == {i \in DOMAIN headers : headers[i] \in hints[f]}
                  IN IF at = {} THEN "none" ELSE headers[Min(at)]]
  IN IF found["income"] = "none" /\ found["expense"] = "none" THEN found
     ELSE [found EXCEPT !["amount"] = "none"]

Under(row, header) == IF header \in DOMAIN row THEN row[header] ELSE <<>>

LastDay(y, m) ==
  CASE m \in {4, 6, 9, 11} -> 30
    [] m = 2 -> IF y % 4 = 0 /\ (y % 100 # 0 \/ y % 400 = 0) THEN 29 ELSE 28
    [] OTHER -> 31

LongYear(y) == IF y >= 100 THEN y ELSE IF y >= 70 THEN 1900 + y ELSE 2000 + y

\* parseImportDate of the numbers between the slashes, day first: the page asks for
\* nothing else.  A date that does not exist is refused.
ImportDate(date) ==
  LET year == LongYear(date[3])
      month == date[2]
      day == date[1]
  IN IF month \in 1..12 /\ day \in 1..LastDay(year, month) THEN <<year, month, day>> ELSE <<>>

\* A number no part of which is a number: Number() finds two decimal points.
Unreadable(t) == Mixed(t) /\ Repeated(t)
Value(cell) == IF cell = <<>> THEN 0 ELSE ImportAmount(cell[1].amount)

\* The two columns, if one of them has something; one of them has to be more than zero.
TwoColumns(in, out) ==
  CASE \E cell \in {in, out} : cell # <<>> /\ Unreadable(cell[1].amount) -> <<"none", 0>>
    [] Value(in) > 0 /\ Value(out) = 0 -> <<"income", Value(in)>>
    [] Value(out) > 0 /\ Value(in) = 0 -> <<"expense", Value(out)>>
    [] OTHER -> <<"none", 0>>

\* The word of the row decides, then the sign, then what the user has chosen.
OneColumn(cell, word, default) ==
  <<IF word # <<>> THEN word[1] ELSE IF cell[1].minus THEN "expense" ELSE default, Value(cell)>>

ResolveMoney(row, mapping, default) ==
  LET in == Under(row, mapping["income"])
      out == Under(row, mapping["expense"])
      single == Under(row, mapping["amount"])
  IN CASE in # <<>> \/ out # <<>> -> TwoColumns(in, out)
       [] in = <<>> /\ out = <<>> /\ single # <<>> ->
            OneColumn(single, Under(row, mapping["kind"]), default)
       [] OTHER -> <<"none", 0>>

Refusal == [kind |-> "none", minor |-> 0, currency |-> "none", date |-> <<>>]

NormalizeRow(row, mapping, default) ==
  LET cell == Under(row, mapping["date"])
      date == IF cell = <<>> THEN <<>> ELSE ImportDate(cell[1])
      money == ResolveMoney(row, mapping, default)
      named == Under(row, mapping["currency"])
  IN IF date = <<>> \/ money[2] = 0 THEN Refusal
     ELSE [kind |-> money[1], minor |-> money[2], date |-> date,
           currency |-> IF named = <<>> THEN Base ELSE named[1]]

\* What a row says of a field, in the one column that it is recognised in; no number, or one that
\* is written in a customary way.
Columns(r, f) == Range(r.headers) \cap Hints[f]
CellFor(r, f) == IF Columns(r, f) = {} THEN <<>> ELSE r.cells[CHOOSE h \in Columns(r, f) : TRUE]
Figure(cell) == cell # <<>> => Len(cell) = 1 /\ Wellformed(cell[1].amount) /\ Customary(cell[1].amount)
Worth(cell) == IF cell = <<>> THEN 0 ELSE cell[1].amount.worth

\* A row says a day that exists, and an amount: in a column of its direction, where the other
\* direction has nothing, or in the one column there is, with a word for the direction or none.
Record(r) ==
  LET in == CellFor(r, "income")
      out == CellFor(r, "expense")
      single == CellFor(r, "amount")
      word == CellFor(r, "kind")
      date == CellFor(r, "date")
  IN /\ r.headers \in Seq(STRING) /\ DOMAIN r.cells = Range(r.headers) /\ "none" \notin Range(r.headers)
     /\ \A f \in DOMAIN Hints : \A g, h \in Columns(r, f) : g = h
     /\ r.date \in Nat \X (1..12) \X Nat /\ r.date[3] \in 1..LastDay(r.date[1], r.date[2])
     /\ Len(date) = 1 /\ date[1] \in Nat \X Nat \X Nat /\ LongYear(date[1][3]) = r.date[1]
     /\ <<date[1][1], date[1][2]>> =
          IF r.monthFirst THEN <<r.date[2], r.date[3]>> ELSE <<r.date[3], r.date[2]>>
     /\ \A cell \in {in, out, single} : Figure(cell)
     /\ r.worth > 0
     /\ \/ r.kind = "income" /\ Worth(in) = r.worth /\ Worth(out) = 0
        \/ r.kind = "expense" /\ Worth(out) = r.worth /\ Worth(in) = 0
        \/ /\ Columns(r, "income") = {} /\ Columns(r, "expense") = {} /\ Worth(single) = r.worth
           /\ r.kind = IF word = <<>> THEN "expense" ELSE word[1]

ASSUME ImportTextAssumption ==
  /\ \A s \in Sheets : Export(s)
  /\ \A r \in Rows : Record(r)
  /\ {"date", "amount", "income", "expense", "kind", "currency"} \subseteq DOMAIN Hints

-----------------------------------------------------------------------------
Unopened == [step |-> "closed"]

ImportTextInit == sheet = Unopened
ReadFile(s) ==
  sheet' = [step |-> "read", sheet |-> s, table |-> ReadImportFile(Written(s), s.type)]
NormalizeOne(r) ==
  sheet' = [step |-> "row", row |-> r,
            movement |-> NormalizeRow(r.cells, GuessMapping(r.headers, Hints), "expense")]
ImportTextNext ==
  sheet = Unopened /\ ((\E s \in Sheets : ReadFile(s)) \/ (\E r \in Rows : NormalizeOne(r)))
ImportTextSpec == ImportTextInit /\ [][ImportTextNext]_sheet

-----------------------------------------------------------------------------
Special(c) == c \in {Quote, "NL", "CR"} \cup Range(Delimiters)

\* A guess can only be right if it has something to go by: two columns, headers that hold
\* no delimiter, and cells of one line.
Guessable(s) ==
  \/ s.type \in {"tsv", "xlsx"}
  \/ /\ Len(s.matrix[1]) > 1
     /\ \A i \in DOMAIN s.matrix[1] : \A c \in Range(s.matrix[1][i]) : ~Special(c)
     /\ \A r \in Range(s.matrix) : \A cell \in Range(r) : {"NL", "CR"} \cap Range(cell) = {}

\* No header is what a repeated one is turned into.
Distinct(headers) == IsInjective(headers)

TableKept(s, table) ==
  LET headers == table.headers
      filled == Filled(Tail(s.matrix))
  IN /\ Len(headers) = Len(s.matrix[1])
     /\ \A i \in DOMAIN headers : Trim(s.matrix[1][i]) \in {<<>>, SubSeq(headers[i], 1, Len(Trim(s.matrix[1][i])))}
     /\ Len(table.rows) = Len(filled)
     /\ \A k \in DOMAIN filled : \A i \in DOMAIN headers : table.rows[k][headers[i]] = Trim(filled[k][i])

MovementKept(r, movement) ==
  /\ movement.kind \in {"none", r.kind}
  /\ movement # Refusal =>
       /\ movement.minor = r.worth
       /\ movement.date = r.date \/ (r.monthFirst /\ movement.date = <<r.date[1], r.date[3], r.date[2]>>)
  /\ movement = Refusal => r.monthFirst /\ r.date[3] > 12

(***************************************************************************)
(* A table another application writes, with quotes around the cells that   *)
(* need them, is read back cell by cell under its headers, whatever is in  *)
(* the cells; and a row says the same after it is normalised: direction,   *)
(* amount and day, except that a month written before the day is taken for *)
(* the day, or refused.  (importing/index.ts, fileImport.ts)               *)
(***************************************************************************)
CellsSurvive ==
  CASE sheet.step = "read" ->
         Guessable(sheet.sheet) /\ Distinct(sheet.table.headers) => TableKept(sheet.sheet, sheet.table)
    [] sheet.step = "row" -> MovementKept(sheet.row, sheet.movement)
    [] OTHER -> TRUE

(***************************************************************************)
(* The amount a row states, in units of its currency, is the amount that   *)
(* is shown when the movement is displayed (fromMinorUnits): what the PRD  *)
(* says of currencies without decimals, COP first.                         *)
(***************************************************************************)
ImportedAsWritten ==
  sheet.step = "row" /\ sheet.movement # Refusal =>
    100 * sheet.movement.minor = sheet.row.worth * 10 ^ Exponent(sheet.movement.currency)
=============================================================================
