---------------------------- MODULE OutputParser ----------------------------
(***************************************************************************)
(* What a command of the OpenStack CLI prints, and what                    *)
(* lib/cli/output_parser.py reads from it.  A line is the delimiter of a   *)
(* table, a row (its cells, cut at the delimiter's plus signs), or text.   *)
(* A value of several lines takes several rows, and all but the first have *)
(* no key; read back, its lines are joined, here as a sequence.            *)
(***************************************************************************)
EXTENDS Naturals, Sequences, SequencesExt

Line(kind, cells) == [kind |-> kind, cells |-> cells]
Delimiter == Line("delimiter", <<>>)
Text == Line("text", <<>>)
\* _table_columns: a cell for each range between two plus signs.
Row(cells) == Line("row", cells)

-----------------------------------------------------------------------------
(* Reading.                                                                *)

\* The first row that is not empty is the header; lines without a bar are skipped.
TableLine(t, line) ==
  IF line.kind # "row" THEN t
  ELSE IF t.headers = <<>> THEN [headers |-> line.cells, values |-> t.values]
  ELSE [headers |-> t.headers, values |-> Append(t.values, line.cells)]
Table(lines) == FoldLeft(TableLine, [headers |-> <<>>, values |-> <<>>], lines)

\* The second delimiter ends the header and the third the table; a table without
\* its end is forgotten, and so is the text between tables.
TablesLine(s, line) ==
  LET delimiter == line.kind = "delimiter"
      table == IF s.start \/ delimiter THEN Append(s.table, line) ELSE s.table
  IN IF delimiter /\ s.header
     THEN [start |-> FALSE, header |-> FALSE, table |-> <<>>,
           tables |-> Append(s.tables, Table(table))]
     ELSE [start |-> s.start \/ delimiter, header |-> s.start /\ (s.header \/ delimiter),
           table |-> table, tables |-> s.tables]

Tables(lines) ==
  FoldLeft(TablesLine,
           [start |-> FALSE, header |-> FALSE, table |-> <<>>, tables |-> <<>>],
           lines).tables

\* Slip: every row starts a value of its own.
ValueRow(s, value) ==
  [prev_value |-> value[1],
   item |-> [k \in DOMAIN s.item \union {value[1]} |->
               IF k = value[1] THEN <<value[2]>> ELSE s.item[k]]]
\* A row without a key goes on with the value before it.
DetailsRow(s, value) ==
  LET key == IF value[1] = "" THEN s.prev_value ELSE value[1]
      before == IF value[1] = "" THEN s.item[key] ELSE <<>>
  IN [prev_value |-> key,
      item |-> [k \in DOMAIN s.item \union {key} |->
                  IF k = key THEN Append(before, value[2]) ELSE s.item[k]]]

\* What the rows of a table say of its item.
Item(values) == FoldLeft(DetailsRow, [prev_value |-> "", item |-> <<>>], values).item

Has(t, key) == \E i \in DOMAIN t.headers : t.headers[i] = key
InvalidStructure(t) == ~(Has(t, "Property") \/ Has(t, "Field")) \/ ~Has(t, "Value")

\* The item starts anew with each table and prev_value does not: a first row without
\* a key looks for a value that the item does not have.
KeyError(t) == t.values # <<>> /\ t.values[1][1] = ""

\* The first item of the output; raised: what details raises instead, which is what
\* is wrong with the first table that is.
Details(lines) ==
  LET found == Tables(lines) IN
  IF \E i \in DOMAIN found :
       InvalidStructure(found[i]) /\ \A j \in 1 .. i - 1 : ~KeyError(found[j])
  THEN [raised |-> "InvalidStructure", item |-> <<>>]
  ELSE IF \E i \in DOMAIN found : KeyError(found[i])
  THEN [raised |-> "KeyError", item |-> <<>>]
  ELSE IF found = <<>> THEN [raised |-> "IndexError", item |-> <<>>]
  ELSE [raised |-> "", item |-> Item(found[1].values)]

\* An item for each row, also for one that goes on with the row before it.
Listing(lines) ==
  LET t == Table(lines)
      column(key) == CHOOSE i \in DOMAIN t.headers : t.headers[i] = key
  IN [i \in DOMAIN t.values |->
        [key \in {t.headers[j] : j \in DOMAIN t.headers} |-> t.values[i][column(key)]]]

-----------------------------------------------------------------------------
(* Printing: an item is a sequence of keys, each with its value's lines.   *)

Rows(field) == [i \in DOMAIN field.lines |->
                  Row(<<IF i = 1 THEN field.key ELSE "", field.lines[i]>>)]
Framed(headers, rows) ==
  <<Delimiter, Row(headers), Delimiter>> \o rows \o <<Delimiter, Text>>

PrintDetails(item) ==
  Framed(<<"Field", "Value">>, FlattenSeq([i \in DOMAIN item |-> Rows(item[i])]))
\* A list prints nothing but an empty line when it is empty.
PrintList(headers, rows) ==
  IF rows = <<>> THEN <<Text>> ELSE Framed(headers, [i \in DOMAIN rows |-> Row(rows[i])])
=============================================================================
