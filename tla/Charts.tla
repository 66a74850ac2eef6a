------------------------------- MODULE Charts -------------------------------
(***************************************************************************)
(* The chart that is made of a table, and the tool that makes it of a CSV  *)
(* file.                                                                   *)
(*                                                                         *)
(* A table is [columns, kind, rows]: a sequence of names, the kind of each *)
(* ("number", "text", "time" or "bool"), and the sequence of its rows,     *)
(* which give each name a value or NoValue.  A chart is [type, columns]    *)
(* and, if it aggregates, its bars.                                        *)
(***************************************************************************)
EXTENDS Integers, Sequences, FiniteSets, SequencesExt, FiniteSetsExt

CONSTANT NoValue   \* an empty cell

OfKind(df, kind) == SelectSeq(df.columns, LAMBDA c : df.kind[c] = kind)

\* Groups leave out the rows without a key, sums the cells without a value.
With(df, names) == {i \in DOMAIN df.rows : \A n \in names : df.rows[i][n] # NoValue}

SumOf(df, y, rows) == MapThenSumSet(LAMBDA i : df.rows[i][y], rows \cap With(df, {y}))

-----------------------------------------------------------------------------
(* The kinds of charts *)

Chart(type, columns) == [type |-> type, columns |-> columns, bars |-> <<>>]

BarChart(df, x, y) ==
    [Chart("bar", {x, y}) EXCEPT
        !.bars = [key \in {df.rows[i][x] : i \in With(df, {x})} |->
                    SumOf(df, y, {i \in DOMAIN df.rows : df.rows[i][x] = key})]]

\* Of how many rows have each pair of values; other columns are not looked at.
GroupedBarChart(df, x, color) ==
    [Chart("grouped", {x, color}) EXCEPT
        !.bars = [pair \in {<<df.rows[i][x], df.rows[i][color]>> : i \in With(df, {x, color})} |->
                    Cardinality({i \in DOMAIN df.rows : pair = <<df.rows[i][x], df.rows[i][color]>>})]]

TimeSeriesChart(time, values) ==
    Chart("lines", {time} \cup ToSet(SubSeq(values, 1, Min({5, Len(values)}))))

(* Without a choice of its own a table of two columns has a bar per row.   *)
GenericChart(x, y) == Chart("rows", {x, y})

NoChart == Chart("none", {})

-----------------------------------------------------------------------------
(* generate_chart: the first case that applies.                            *)
GenerateChart(df) ==
    LET numeric == OfKind(df, "number")
        text    == OfKind(df, "text")
        times   == OfKind(df, "time")
        wide    == Len(df.columns) >= 4
        dated   == times # <<>> /\ numeric # <<>>
    IN  CASE df.rows = <<>> -> NoChart
          [] df.rows # <<>> /\ wide -> Chart("table", ToSet(df.columns))
          [] df.rows # <<>> /\ ~wide /\ dated -> TimeSeriesChart(times[1], numeric)
          [] df.rows # <<>> /\ ~wide /\ ~dated ->
             CASE Len(numeric) = 1 /\ text = <<>> -> Chart("histogram", ToSet(numeric))
               [] Len(numeric) = 1 /\ Len(text) = 1 -> BarChart(df, text[1], numeric[1])
               [] Len(numeric) = 2 -> Chart("scatter", ToSet(numeric))
               [] Len(numeric) >= 3 -> Chart("heatmap", ToSet(numeric))
               [] Len(numeric) < 2 /\ Len(text) >= 2 -> GroupedBarChart(df, text[1], text[2])
               [] numeric = <<>> /\ Len(text) < 2 ->
                    IF Len(df.columns) >= 2 THEN GenericChart(df.columns[1], df.columns[2]) ELSE NoChart

(* visualize_data.  A CSV file has no columns of times, and one without    *)
(* any column cannot be visualized, as one without rows.                   *)
VisualizeData(file) ==
    CASE file.read = "missing"  -> [ok |-> FALSE, error |-> "file_not_found", chart |-> NoChart]
      [] file.read = "breaks"   -> [ok |-> FALSE, error |-> "general_error", chart |-> NoChart]
      [] file.read = "noCsv"    -> [ok |-> FALSE, error |-> "csv_parse_error", chart |-> NoChart]
      [] file.read = "empty"    -> [ok |-> FALSE, error |-> "visualization_error", chart |-> NoChart]
      [] file.read = "csv" ->
            LET chart == GenerateChart(file.df)
            IN  IF chart = NoChart THEN [ok |-> FALSE, error |-> "visualization_error", chart |-> chart]
                ELSE [ok |-> TRUE, error |-> "none", chart |-> chart]

-----------------------------------------------------------------------------
(* A table with rows has a chart unless its only column has no numbers; a  *)
(* chart shows columns of the table, and a number in each table with one   *)
(* and at most one column of text; and the bars of a chart add up to what  *)
(* its rows have.                                                          *)
ChartIsTrue(df) ==
    LET chart   == GenerateChart(df)
        numeric == ToSet(OfKind(df, "number"))
        text    == OfKind(df, "text")
        sum     == MapThenSumSet(LAMBDA key : chart.bars[key], DOMAIN chart.bars)
    IN  /\ chart = NoChart <=> df.rows = <<>> \/ (Len(df.columns) = 1 /\ numeric = {})
        /\ chart.columns \subseteq ToSet(df.columns)
        /\ chart # NoChart /\ numeric # {} /\ Len(text) < 2 => chart.columns \cap numeric # {}
        /\ chart.type = "bar" =>
                \A y \in numeric : sum = SumOf(df, y, With(df, chart.columns \ numeric))
        /\ chart.type = "grouped" => sum = Cardinality(With(df, chart.columns))
=============================================================================
