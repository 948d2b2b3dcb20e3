----------------------------- MODULE ViaviReport -----------------------------
(***************************************************************************)
(* What the log of a Viavi campaign says (src/retina/viavi, reporter.py):  *)
(* its lines are read one after the other, for the procedure tables in the *)
(* order they are declared in, and for the block of each direction.        *)
(*                                                                         *)
(* Three tables stand for the five: the first has a header of its own, the *)
(* others share theirs.  A line is what the parsers tell of it.            *)
(***************************************************************************)
EXTENDS Integers, Sequences, FiniteSets, SequencesExt

CONSTANTS
    Kinds,        \* which of "tables" and "links" are explored
    MaxLogLines   \* bound: lines of a log

VARIABLES
    kind,
    seen,     \* the lines so far
    state     \* what the parser remembers

vars == <<kind, seen, state>>

None == -1
Directions == {"DL-SCH", "UL-SCH"}

\* PROCEDURE_TABLE_DECLARATION: the header looked for and the row that ends the table.
Tables == <<[header |-> "timed", last |-> "handover"],
            [header |-> "retried", last |-> "sms"],
            [header |-> "retried", last |-> "transport"]>>

-----------------------------------------------------------------------------
(* _parse_tables_in_log: the table looked for, whether its rows are being   *)
(* read, the rows, and the tables that are complete.                       *)

TablesStart == [table |-> 1, reading |-> FALSE, rows |-> <<>>, result |-> <<>>]

Put(rows, line) == [n \in DOMAIN rows \cup {line.name} |-> IF n = line.name THEN line.value ELSE rows[n]]

\* Variant for the mutation runs: the rows of an unfinished table stay.
KeepRows(s) == s.rows

NewRows(s) == <<>>

\* A line of a table is a row of it, whatever it is; a row that comes again replaces the first.
ReadTableLine(s, line) ==
    LET table == Tables[s.table]
        rows == Put(s.rows, line)
    IN  CASE s.table > Len(Tables) -> s
          [] s.table <= Len(Tables) /\ ~s.reading ->
                IF line.header = table.header THEN [s EXCEPT !.reading = TRUE, !.rows = NewRows(s)] ELSE s
          [] OTHER ->
                IF line.name = table.last
                THEN [table |-> s.table + 1, reading |-> FALSE, rows |-> rows, result |-> Append(s.result, rows)]
                ELSE [s EXCEPT !.rows = rows]

-----------------------------------------------------------------------------
(* parse_dl_ul_metrics: the lines of the last block of each direction, and  *)
(* the values that follow its first line of headers.                       *)

LinksStart == [current |-> "none", block |-> [d \in Directions |-> <<>>]]

\* A line that names a direction starts its block again.
ReadLinkLine(s, line) ==
    LET current == IF line.names \in Directions THEN line.names ELSE s.current
        kept == IF line.names \in Directions THEN [s.block EXCEPT ![current] = <<>>] ELSE s.block
    IN  [current |-> current,
         block |-> IF current \in Directions THEN [kept EXCEPT ![current] = Append(@, line)] ELSE kept]

\* The number of lost blocks: the default without values, and 0 when it is not a number.
NofKo(block) ==
    LET headers == {i \in DOMAIN block : block[i].bracketed}
        first == CHOOSE i \in headers : \A j \in headers : i <= j
    IN  IF headers = {} \/ first = Len(block) \/ block[first + 1].value = None THEN 0
        ELSE block[first + 1].value

-----------------------------------------------------------------------------
(* The lines of a log.                                                     *)

Row(name, value) == [header |-> "no", name |-> name, value |-> value]
Text(names, bracketed, value) == [names |-> names, bracketed |-> bracketed, value |-> value]

Lines ==
    CASE kind = "tables" -> {[header |-> h, name |-> "text", value |-> None] : h \in {"timed", "retried"}}
                            \cup {Row(n, 1) : n \in {"handover", "sms", "transport"}}
                            \cup {Row("setup", v) : v \in {None, 2}}
      [] kind = "links" -> {Text(d, FALSE, None) : d \in Directions}
                            \cup {Text("none", FALSE, v) : v \in {None, 3, 5}} \cup {Text("none", TRUE, None)}

Init ==
    /\ kind \in Kinds /\ seen = <<>>
    /\ state = IF kind = "tables" THEN TablesStart ELSE LinksStart

Next ==
    /\ Len(seen) < MaxLogLines
    /\ \E line \in Lines :
        /\ seen' = Append(seen, line)
        /\ state' = IF kind = "tables" THEN ReadTableLine(state, line) ELSE ReadLinkLine(state, line)
    /\ UNCHANGED kind

Spec == Init /\ [][Next]_vars

-----------------------------------------------------------------------------
(* Properties.                                                             *)

FirstAfter(from, Is(_)) ==
    LET all == {i \in DOMAIN seen : i > from /\ Is(seen[i])}
    IN  IF all = {} THEN Len(seen) + 1 ELSE CHOOSE i \in all : \A j \in all : i <= j

LastBefore(to, Is(_)) ==
    LET all == {i \in DOMAIN seen : i < to /\ Is(seen[i])}
    IN  IF all = {} THEN 0 ELSE CHOOSE i \in all : \A j \in all : j <= i

\* Opens[k] and Ends[k]: the lines of the header and of the last row of table k; past the log if there is none.
Ends == LET Open(k, from) == FirstAfter(from, LAMBDA l : l.header = Tables[k].header)
            Close(k, from) == FirstAfter(Open(k, from), LAMBDA l : l.name = Tables[k].last)
            end[k \in 0 .. Len(Tables)] == IF k = 0 THEN 0 ELSE Close(k, end[k - 1])
        IN  end
Opens(k) == FirstAfter(Ends[k - 1], LAMBDA l : l.header = Tables[k].header)

\* A table that is reported is a header, its rows in the last form each was printed and its last row,
\* after the end of the table declared before it, and no table is reported unless those before it
\* are; the lost blocks of a direction are those of its last block, whatever the other one holds.
LogIsRead ==
    /\ kind = "tables" =>
        /\ \A k \in DOMAIN Tables : k \in DOMAIN state.result <=> Ends[k] <= Len(seen)
        /\ \A k \in DOMAIN state.result :
            LET lines == {i \in DOMAIN seen : Opens(k) < i /\ i <= Ends[k]}
            IN  /\ DOMAIN state.result[k] = {seen[i].name : i \in lines}
                /\ \A i \in lines : (\A j \in lines : seen[j].name = seen[i].name => j <= i)
                                    => state.result[k][seen[i].name] = seen[i].value
    /\ kind = "links" =>
        \A d \in Directions :
            LET start == LastBefore(Len(seen) + 1, LAMBDA l : l.names = d)
                end == FirstAfter(start, LAMBDA l : l.names \in Directions)
                headers == FirstAfter(start, LAMBDA l : l.bracketed)
                values == headers + 1
            IN  NofKo(state.block[d]) = IF start > 0 /\ values < end /\ seen[values].value # None
                                        THEN seen[values].value ELSE 0
=============================================================================
