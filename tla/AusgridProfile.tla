--------------------------- MODULE AusgridProfile ---------------------------
(***************************************************************************)
(* src/data_analysis/ausgrid/main.py: the offline step that turns the      *)
(* Ausgrid half-hourly readings into the hourly generation and consumption *)
(* profile CSVs the simulation reads.  main() runs the same pipeline twice,*)
(* for category "GG" (generation) and then "GC" (consumption):            *)
(*   - get_measuremets reads the file and keeps the rows of the category   *)
(*     whose date lies in the month (the weekday filter keeps every day),  *)
(*   - folds each ":30" column into the following ":00" column and drops   *)
(*     it, the last one into "0:00" (the end of the day),                  *)
(*   - main slices the columns "1:00".."0:00" and describe().T turns each *)
(*     into a row, in column order; reset_index numbers the rows 0..23 and *)
(*     "percentage" is each row's mean as a share of the means' total.    *)
(*     rename(columns=COLUMN_MAP) runs on the statistics columns (count,  *)
(*     mean, ...), none of which is a key of COLUMN_MAP: it changes        *)
(*     nothing, and the row number comes from the slice order alone.      *)
(* A column name "h:mm" is the pair <<h, mm>>.  The mean of a column is    *)
(* its total over the kept rows divided by their number, so its share of   *)
(* the means' total is the column total's share of the grand total; a      *)
(* share is kept as numerator and denominator (den = 0: NaN).              *)
(***************************************************************************)
EXTENDS Naturals, Sequences, FiniteSets, FiniteSetsExt

CONSTANTS
  H,          \* hours per day (24 in the code)
  Rows,       \* the rows of the readings file
  Readings,   \* the values a half-hour reading may take
  Categories  \* the "Consumption Category" values in the file

ASSUME AusgridAssumption ==
  /\ H \in Nat \ {0, 1}
  /\ Readings \subseteq Nat
  /\ {"GG", "GC"} \subseteq Categories

Passes == <<"GG", "GC">>

\* The readings columns of the file, in file order: slot s is the half
\* hour ending at minute 30 * s of the day, named by its end time.
SlotName(s) == <<(s \div 2) % H, IF s % 2 = 1 THEN 30 ELSE 0>>
Header == [s \in 1..2 * H |-> SlotName(s)]
HeaderNames == {SlotName(s) : s \in 1..2 * H}

Row == [category : Categories, in_range : BOOLEAN, reading : [HeaderNames -> Readings]]

Share == [num : Nat, den : Nat]

VARIABLES
  raw,          \* the file: every row's category, date filter and readings
  pass,         \* the category main() is processing
  rows,         \* the rows get_measuremets kept
  frame,        \* the readings columns of the kept rows, by column name
  order,        \* the column order of the frame
  i,            \* the fold loop's counter
  pc,
  written,      \* the categories whose profile CSV has been written
  profile_out   \* the "percentage" column written, by category and index

vars == <<raw, pass, rows, frame, order, i, pc, written, profile_out>>

IndexOf(s, x) == CHOOSE k \in 1..Len(s) : s[k] = x

-----------------------------------------------------------------------------
Init ==
  /\ raw \in [Rows -> Row]
  /\ pass = Passes[1]
  /\ rows = {}
  /\ frame = [n \in {} |-> 0]
  /\ order = << >>
  /\ i = 0
  /\ pc = "read"
  /\ written = {}
  /\ profile_out = [c \in {Passes[1], Passes[2]} |-> [k \in 0..H-1 |-> [num |-> 0, den |-> 0]]]

\* get_measuremets up to the loop: read the file, keep the rows in the
\* date range and of the category.
ReadMeasurements ==
  /\ pc = "read"
  /\ rows' = {r \in Rows : raw[r].in_range /\ raw[r].category = pass}
  /\ frame' = [n \in HeaderNames |-> [r \in rows' |-> raw[r].reading[n]]]
  /\ order' = Header
  /\ i' = 0
  /\ pc' = "fold"
  /\ UNCHANGED <<raw, pass, written, profile_out>>

\* Mutation variant: the half hour folded into the hour before it.
FoldHalfHour_previous ==
  /\ pc = "fold"
  /\ i < H
  /\ LET first == <<i, 30>>
         last == <<i, 0>>
     IN /\ frame' = [n \in DOMAIN frame \ {first} |->
                       IF n = last THEN [r \in rows |-> frame[first][r] + frame[last][r]]
                       ELSE frame[n]]
        /\ order' = SelectSeq(order, LAMBDA n : n # first)
  /\ i' = i + 1
  /\ UNCHANGED <<raw, pass, rows, pc, written, profile_out>>

\* Mutation variant: the ":30" column added but not dropped.
FoldHalfHour_no_drop ==
  /\ pc = "fold"
  /\ i < H
  /\ LET first == <<i, 30>>
         last == <<IF i + 1 < H THEN i + 1 ELSE 0, 0>>
     IN frame' = [n \in DOMAIN frame |->
                    IF n = last THEN [r \in rows |-> frame[first][r] + frame[last][r]]
                    ELSE frame[n]]
  /\ i' = i + 1
  /\ UNCHANGED <<raw, pass, rows, order, pc, written, profile_out>>

\* One iteration of the fold loop: "i:30" is added into the next full hour
\* ("0:00" after "23:30") and dropped.
FoldHalfHour ==
  /\ pc = "fold"
  /\ i < H
  /\ LET first == <<i, 30>>
         last == <<IF i + 1 < H THEN i + 1 ELSE 0, 0>>
     IN /\ frame' = [n \in DOMAIN frame \ {first} |->
                       IF n = last THEN [r \in rows |-> frame[first][r] + frame[last][r]]
                       ELSE frame[n]]
        /\ order' = SelectSeq(order, LAMBDA n : n # first)
  /\ i' = i + 1
  /\ UNCHANGED <<raw, pass, rows, pc, written, profile_out>>

\* main() after get_measuremets returns: slice "1:00".."0:00", describe().T
\* (one row per column, in order), the no-op rename, the percentage column,
\* reset_index (row k is the slice's column k + 1), to_csv; then the next pass.
WriteProfile ==
  /\ pc = "fold"
  /\ i = H
  /\ LET sliced == SubSeq(order, IndexOf(order, <<1, 0>>), IndexOf(order, <<0, 0>>))
         total(n) == MapThenSumSet(LAMBDA r : frame[n][r], rows)
         grand == MapThenSumSet(LAMBDA k : total(sliced[k]), DOMAIN sliced)
     IN profile_out' = [profile_out EXCEPT ![pass] =
                          [k \in 0..H-1 |-> [num |-> 100 * total(sliced[k + 1]), den |-> grand]]]
  /\ written' = written \cup {pass}
  /\ pass' = Passes[2]
  /\ pc' = IF pass = Passes[1] THEN "read" ELSE "done"
  /\ UNCHANGED <<raw, rows, frame, order, i>>

Next == ReadMeasurements \/ FoldHalfHour \/ WriteProfile

Spec == Init /\ [][Next]_vars

-----------------------------------------------------------------------------
AusgridTypeOK ==
  /\ raw \in [Rows -> Row]
  /\ rows \subseteq Rows
  /\ i \in 0..H
  /\ pc \in {"read", "fold", "done"}
  /\ pc = "fold" => DOMAIN frame = HeaderNames \ {<<j, 30>> : j \in 0..i-1}
  /\ written \subseteq {Passes[1], Passes[2]}
  /\ profile_out \in [{Passes[1], Passes[2]} -> [0..H-1 -> Share]]

\* The energy of category c's kept rows in hour k (from k:00 to k+1:00):
\* the half hours ending at k:30 and at k+1:00.
HourEnergy(c, k) ==
  MapThenSumSet(LAMBDA r : raw[r].reading[SlotName(2 * k + 1)]
                           + raw[r].reading[SlotName(2 * k + 2)],
                {r \in Rows : raw[r].in_range /\ raw[r].category = c})

(* Every written profile gives timeslot k the share of the category's      *)
(* energy in hour k..k+1 (the half hours ending at k:30 and k+1:00), as   *)
(* the simulation reads it (spec.md 6: period p is the p-th clock hour).  *)
(* The fold's name arithmetic, its wrap into "0:00" and the column order  *)
(* it leaves, which the slice and reset_index turn into the row numbers,   *)
(* must agree for this to hold.                                            *)
ProfileMatchesHourlyEnergy ==
  \A c \in written : \A k \in 0..H-1 :
    /\ profile_out[c][k].num = 100 * HourEnergy(c, k)
    /\ profile_out[c][k].den = MapThenSumSet(LAMBDA j : HourEnergy(c, j), 0..H-1)

=============================================================================
