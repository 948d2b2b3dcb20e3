----------------------------- MODULE JsonMetrics -----------------------------
(***************************************************************************)
(* The analyzers of the metrics in JSON (src/retina/agent, features/       *)
(* json_metrics and features/gnb_report.py): records arrive one by one,    *)
(* from the websocket of the DU, the replies of the Amarisoft UE or a file, *)
(* and each analyzer keeps running totals from which it reports.           *)
(*                                                                         *)
(* Averages are fractions [n, d].  The directions dl and ul are treated    *)
(* alike by the code and are functions here.                               *)
(***************************************************************************)
EXTENDS Integers, Sequences, FiniteSets, SequencesExt

CONSTANTS
    Kinds,         \* which of the kinds of input are explored
    MaxRecords,    \* bound: records of an input
    QueueLength,   \* samples a moving average keeps (50)
    Windows,       \* the lengths of the peak averages (5, 15, 30)
    Middle,        \* samples of the middle average (10)
    Fraction       \* a record is active above 1/Fraction of the peak (100)

ASSUME WindowAssumption ==
    /\ QueueLength \in Nat \ {0} /\ Middle \in 1 .. QueueLength
    /\ Windows \subseteq 1 .. QueueLength

VARIABLES
    kind,     \* which analyzer, and which of its inputs
    seen,     \* the records so far
    state     \* what the analyzer remembers

vars == <<kind, seen, state>>

Dirs == {"dl", "ul"}
None == -1
Update(f, k, v) == [x \in DOMAIN f \cup {k} |-> IF x = k THEN v ELSE f[x]]
Get(f, k, default) == IF k \in DOMAIN f THEN f[k] ELSE default
Larger(a, b) == IF a < b THEN b ELSE a
AddUp(F(_), s) == FoldLeft(LAMBDA sum, x : sum + F(x), 0, s)
Total(f) == FoldLeft(LAMBDA sum, k : sum + f[k], 0, SetToSeq(DOMAIN f))

-----------------------------------------------------------------------------
(* Averages.                                                               *)

Rate(v) == [n |-> v, d |-> 1]
Least(f, g) == f.n * g.d <= g.n * f.d
Higher(f, g) == IF Least(f, g) THEN g ELSE f
Same(f, g) == f.n * g.d = g.n * f.d

\* deque(maxlen = QueueLength).
Enqueue(queue, v) ==
    LET all == Append(queue, v)
    IN  IF Len(all) > QueueLength THEN Tail(all) ELSE all

Mean(s) == [n |-> AddUp(LAMBDA x : x, s), d |-> Len(s)]
FirstOf(s, k) == IF k > 0 /\ k <= Len(s) THEN SubSeq(s, 1, k) ELSE s
LastOf(s, k) == IF k > 0 /\ k <= Len(s) THEN SubSeq(s, Len(s) - k + 1, Len(s)) ELSE s

\* get_average, get_middle_average.
GetAverage(queue, k) == IF queue = <<>> THEN Rate(0) ELSE Mean(LastOf(queue, k))
GetMiddleAverage(queue, k) ==
    LET start == (Len(queue) - k) \div 2
    IN  IF queue = <<>> THEN Rate(0)
        ELSE IF Len(queue) <= k THEN Mean(queue)
        ELSE Mean(SubSeq(queue, start + 1, start + k))

\* The old average over old seconds and a value over the seconds since.
WeighEqually(avg, old, value, new) == [n |-> avg.n + value * avg.d, d |-> 2 * avg.d]
Weighted(avg, old, value, new) ==
    [n |-> avg.n * old + value * new * avg.d, d |-> avg.d * (old + new)]

-----------------------------------------------------------------------------
(* DuMetricsAnalyzer.  A record has cells and may have a time; a cell has   *)
(* its pci, its UEs and the RNTIs of its events; a UE may have no ri.      *)

NewUe(pci) ==
    [pci |-> pci, queue |-> [d \in Dirs |-> <<>>], peak |-> [d \in Dirs |-> [w \in Windows |-> Rate(0)]],
     first |-> None, last |-> None, rate |-> [d \in Dirs |-> Rate(0)], ri |-> Rate(0), ko |-> 0]

DuStart ==
    [ues |-> <<>>, pucch |-> <<>>, since |-> <<>>, prev |-> <<>>,
     agg |-> [first |-> None, last |-> None, rate |-> [d \in Dirs |-> Rate(0)], ri |-> Rate(0),
              peak |-> [d \in Dirs |-> 0]]]

\* _handle_events: an event hides the reports up to the next one.
EventsOfNow(since, cell) == [r \in cell.events |-> 0]
HandleEvents(since, cell) ==
    LET kept == {r \in DOMAIN since : since[r] + 1 <= 1}
    IN  [r \in kept \cup cell.events |-> IF r \in cell.events THEN 0 ELSE since[r] + 1]

\* The invalid PUCCH of the previous report are counted when this one is there.
CountPucch(pucch, prev, since) ==
    FoldLeft(LAMBDA p, ue : IF ue.rnti \in DOMAIN since THEN p
                            ELSE Update(p, ue.rnti, Get(p, ue.rnti, 0) + ue.bad), pucch, prev)

\* _update_rnti_time_weighted.
UpdateRnti(u, ue, time) ==
    IF u.first = None
    THEN [u EXCEPT !.first = time, !.last = time, !.rate = [d \in Dirs |-> Rate(ue.brate[d])],
                   !.ri = IF ue.ri = None THEN @ ELSE Rate(ue.ri)]
    ELSE LET old == u.last - u.first
             new == time - u.last
         IN  IF old + new = 0 THEN u
             ELSE [u EXCEPT !.last = time,
                            !.rate = [d \in Dirs |-> Weighted(@[d], old, ue.brate[d], new)],
                            !.ri = IF ue.ri = None THEN @ ELSE Weighted(@, old, ue.ri, new)]

\* One UE of a cell.
ProcessUe(ues, ue, pci, record) ==
    LET u == Get(ues, ue.rnti, NewUe(pci))
        queue == [d \in Dirs |-> Enqueue(u.queue[d], ue.brate[d])]
        counted == [u EXCEPT !.queue = queue, !.ko = @ + ue.ko,
                             !.peak = [d \in Dirs |-> [w \in Windows |->
                                            Higher(@[d][w], GetAverage(queue[d], w))]]]
    IN  Update(ues, ue.rnti,
               IF "time" \in DOMAIN record THEN UpdateRnti(counted, ue, record.time) ELSE counted)

ProcessCell(s, cell, record) ==
    LET since == HandleEvents(s.since, cell) IN
    [s EXCEPT !.since = since,
              !.pucch = CountPucch(@, s.prev, since),
              !.ues   = FoldLeft(LAMBDA ues, ue : ProcessUe(ues, ue, cell.pci, record), @, cell.ues),
              !.prev  = cell.ues]

\* _update_agg_bitrate, _update_agg_ri and the window of the active records.
UpdateAggregate(agg, record) ==
    LET ues == FoldLeft(LAMBDA all, cell : all \o cell.ues, <<>>, record.cells)
        withRi == SelectSeq(ues, LAMBDA ue : ue.ri # None)
        total == [d \in Dirs |-> AddUp(LAMBDA ue : ue.brate[d], ues)]
        peak == [d \in Dirs |-> Larger(agg.peak[d], total[d])]
        active == \E d \in Dirs : total[d] * Fraction > peak[d]
        first == IF agg.first = None THEN record.time ELSE agg.first
        last == IF agg.first = None THEN record.time ELSE agg.last
        old == last - first
        new == record.time - last
        ri == Mean([i \in DOMAIN withRi |-> withRi[i].ri])
        WeightedRi == [n |-> agg.ri.n * old * ri.d + ri.n * new * agg.ri.d,
                       d |-> agg.ri.d * ri.d * (old + new)]
    IN  IF ~active THEN [agg EXCEPT !.peak = peak]
        ELSE [first |-> first, last |-> record.time, peak |-> peak,
              rate |-> [d \in Dirs |-> IF old + new = 0 THEN Rate(total[d])
                                       ELSE Weighted(agg.rate[d], old, total[d], new)],
              ri |-> IF withRi = <<>> THEN agg.ri ELSE IF old + new = 0 THEN ri ELSE WeightedRi]

ProcessDu(s, record) ==
    LET t == FoldLeft(LAMBDA u, cell : ProcessCell(u, cell, record), s, record.cells)
    IN  IF "time" \in DOMAIN record THEN [t EXCEPT !.agg = UpdateAggregate(@, record)] ELSE t

-----------------------------------------------------------------------------
(* DuCellAnalyzer.  A cell without cell_metrics is not in the record.      *)

CellStart == [first |-> TRUE, errors |-> 0, late |-> 0, preambles |-> 0, ues |-> <<>>, prbs |-> <<>>]

ProcessCellMetrics(s, cell) ==
    LET t == [s EXCEPT !.ues = Update(@, cell.pci, cell.nofUes), !.preambles = @ + cell.preambles]
    IN  IF s.first THEN [t EXCEPT !.first = FALSE]
        ELSE [t EXCEPT !.errors = @ + cell.errors, !.late = Larger(@, cell.late),
                       !.prbs = IF cell.prbs = <<>> THEN @
                                ELSE [i \in DOMAIN cell.prbs |->
                                        Enqueue(IF i \in DOMAIN @ THEN @[i] ELSE <<>>, cell.prbs[i])]]

ProcessCells(s, record) == FoldLeft(ProcessCellMetrics, s, record)

\* CuCpMetricsAnalyzer: the counters are cumulative, the last of each DU stays.
ProcessCuCp(s, record) == FoldLeft(LAMBDA t, du : Update(t, du.id, du.mtAccess), s, record)

-----------------------------------------------------------------------------
(* AmarisoftUeMetricsAnalyzer: replies to ue_get have a time and UEs, the   *)
(* replies to stats have the sums of the cells and cumulative messages.    *)

AmarisoftStart == [ue |-> <<>>, stats |-> [rate |-> 0, ko |-> 0, handovers |-> 0], prach |-> 0]

AddAmarisoftUe(s, id, ue, time) ==
    LET m == s[id]
        old == m.last - m.first
        new == time - m.last
    IN  Update(s, id,
            IF id \notin DOMAIN s
            THEN [ko |-> ue.ko, rate |-> Rate(ue.rate), first |-> time, last |-> time]
            ELSE [m EXCEPT !.ko = @ + ue.ko, !.last = time,
                           !.rate = IF old + new = 0 THEN @ ELSE Weighted(@, old, ue.rate, new)])

\* _process_ue: what a UE reports is counted in every cell it names.
ProcessUes(s, record) ==
    FoldLeft(LAMBDA t, ue : FoldLeft(LAMBDA u, pci : AddAmarisoftUe(u, <<ue.rnti, pci>>, ue, record.time),
                                     t, ue.cells),
             s, record.ues)

\* _process_stats.
ProcessStats(s, record) ==
    [s EXCEPT !.stats = [rate |-> record.rate, ko |-> @.ko + record.ko, handovers |-> record.handovers],
              !.prach = record.prach]

ProcessAmarisoft(s, record) ==
    IF "ues" \in DOMAIN record THEN [s EXCEPT !.ue = ProcessUes(@, record)] ELSE ProcessStats(s, record)

\* latest_ue_id: any of those updated last.
LatestUeId(s, ids) ==
    LET known == ids \cap DOMAIN s.ue
    IN  {id \in known : \A other \in known : s.ue[other].last <= s.ue[id].last}

\* The count of lost blocks in report(ids).  report() merges that of stats into
\* it, and merging a 0 changes nothing.
KoOf(s, ids) == AddUp(LAMBDA id : s.ue[id].ko, SetToSeq(ids \cap DOMAIN s.ue))

-----------------------------------------------------------------------------
(* _parse_metrics of srs_ue.py: the CSV of srsUE, read by Stop.  A second  *)
(* record of the time of the first divides by zero, and Stop raises.       *)

CsvStart == [first |-> None, last |-> None, rate |-> Rate(0), ko |-> 0, end |-> "open"]

ProcessCsv(s, record) ==
    CASE s.end # "open" -> s
      [] s.end = "open" /\ record.eof -> [s EXCEPT !.end = "eof"]
      [] s.end = "open" /\ ~record.eof /\ s.first = None ->
            [s EXCEPT !.first = record.time, !.last = record.time, !.rate = Rate(record.rate), !.ko = record.ko]
      [] OTHER ->
            IF record.time = s.first THEN [s EXCEPT !.ko = @ + record.ko, !.end = "raised"]
            ELSE [s EXCEPT !.ko = @ + record.ko, !.last = record.time,
                           !.rate = Weighted(@, s.last - s.first, record.rate, record.time - s.last)]

-----------------------------------------------------------------------------
(* _get_metric of gnb_report.py: the series of the page of plots.          *)

PlotStart == [then |-> <<>>, order |-> <<>>, stamps |-> <<>>]

\* then is keyed by time stamp: a second record of the same time replaces the first,
\* at the place of the first; the list of time stamps has both.
ProcessPlot(s, record) ==
    [then   |-> Update(s.then, record.time,
                       FoldLeft(LAMBDA v, ue : Update(v, ue.rnti, ue.value), <<>>, record.ues)),
     order  |-> IF record.time \in DOMAIN s.then THEN s.order ELSE Append(s.order, record.time),
     stamps |-> Append(s.stamps, record.time)]

Series(s, rnti) == [i \in DOMAIN s.order |-> Get(s.then[s.order[i]], rnti, 0)]

-----------------------------------------------------------------------------
(* The inputs.                                                             *)

AUe(rnti, dl, ul, ri, bad) ==
    [rnti |-> rnti, brate |-> [d \in Dirs |-> IF d = "dl" THEN dl ELSE ul], ri |-> ri, ko |-> 1, bad |-> bad]

RateLists == {<<>>, <<AUe(1, 1, 0, None, 0)>>, <<AUe(1, 200, 0, 2, 0)>>, <<AUe(1, 0, 5, 4, 0)>>,
              <<AUe(1, 40, 0, 1, 0), AUe(2, 1, 3, 2, 0)>>}
PucchCells == [pci : {1}, ues : {<<>>, <<AUe(1, 0, 0, None, 1)>>, <<AUe(2, 0, 0, None, 1)>>,
                                 <<AUe(1, 0, 0, None, 2), AUe(2, 0, 0, None, 1)>>}, events : SUBSET {1}]
SecondCells == [pci : {2}, ues : {<<>>, <<AUe(1, 0, 0, None, 4)>>}, events : SUBSET {1}]
CellReports(pci) == [pci : {pci}, nofUes : {0, 2}, errors : {0, 1}, late : {3}, preambles : {1}, prbs : {<<2, 4>>}]
AmarisoftUes == {<<>>, <<[rnti |-> 1, cells |-> <<1>>, ko |-> 1, rate |-> 4]>>,
                 <<[rnti |-> 1, cells |-> <<1, 2>>, ko |-> 0, rate |-> 6]>>,
                 <<[rnti |-> 1, cells |-> <<1>>, ko |-> 2, rate |-> 0], [rnti |-> 2, cells |-> <<2>>, ko |-> 1, rate |-> 1]>>}

\* The time of the last record that has one.
Now == LET timed == SelectSeq(seen, LAMBDA r : "time" \in DOMAIN r)
       IN  IF timed = <<>> THEN 0 ELSE timed[Len(timed)].time
Soon == {Now, Now + 1, Now + 2}

Records ==
    CASE kind = "rates"  -> [time : Soon, cells : {<<[pci |-> 1, ues |-> ues, events |-> {}]>> : ues \in RateLists}]
      [] kind = "pucch"  -> [cells : {<<c>> : c \in PucchCells}
                                     \cup {<<c, d>> : c \in {x \in PucchCells : Len(x.ues) < 2}, d \in SecondCells}]
      [] kind = "window" -> [cells : {<<[pci |-> 1, ues |-> <<AUe(1, v, 4 - v, None, 0)>>, events |-> {}]>> : v \in {0, 1, 4}}]
      [] kind = "cell"   -> {<<>>} \cup {<<c>> : c \in CellReports(1)}
                                   \cup {<<c, d>> : c \in CellReports(1), d \in CellReports(2)}
      [] kind = "cucp"   -> {<<>>} \cup {<<[id |-> i, mtAccess |-> n]>> : i \in {1, 2}, n \in {0, 3}}
                                   \cup {<<[id |-> 1, mtAccess |-> n], [id |-> 2, mtAccess |-> 4]>> : n \in {0, 5}}
      [] kind = "amarisoft" -> [time : Soon, ues : AmarisoftUes]
                               \cup [rate : {2}, ko : {0, 1}, handovers : {0, 2}, prach : {5}]
      [] kind = "csv"    -> [time : Soon, rate : {0, 3}, ko : {1}, eof : BOOLEAN]
      [] kind = "plot"   -> [time : {Now, Now + 1},
                             ues : {<<>>, <<[rnti |-> 1, value |-> 3]>>, <<[rnti |-> 2, value |-> 5]>>}]

Longest ==
    CASE kind = "window" -> MaxRecords + 1
      [] kind = "plot" -> MaxRecords
      [] OTHER -> MaxRecords - 1

Start ==
    CASE kind \in {"rates", "pucch", "window"} -> DuStart
      [] kind = "cell" -> CellStart
      [] kind = "cucp" -> <<>>
      [] kind = "amarisoft" -> AmarisoftStart
      [] kind = "csv" -> CsvStart
      [] kind = "plot" -> PlotStart

Process(record) ==
    CASE kind \in {"rates", "pucch", "window"} -> ProcessDu(state, record)
      [] kind = "cell" -> ProcessCells(state, record)
      [] kind = "cucp" -> ProcessCuCp(state, record)
      [] kind = "amarisoft" -> ProcessAmarisoft(state, record)
      [] kind = "csv" -> ProcessCsv(state, record)
      [] kind = "plot" -> ProcessPlot(state, record)

Init == kind \in Kinds /\ seen = <<>> /\ state = Start

Next ==
    /\ Len(seen) < Longest
    /\ \E record \in Records : seen' = Append(seen, record) /\ state' = Process(record)
    /\ UNCHANGED kind

Spec == Init /\ [][Next]_vars

-----------------------------------------------------------------------------
(* What the reports should be, from all the records.                       *)

\* rate is the mean of the values, each weighted by the time since the sample before
\* it; samples of one instant have the value atOnce.
WeightedMean(rate, samples, atOnce) ==
    LET span == samples[Len(samples)].time - samples[1].time
        Area(i) == IF i = 1 THEN 0 ELSE samples[i].value * (samples[i].time - samples[i - 1].time)
    IN  IF span = 0 THEN Same(rate, Rate(atOnce))
        ELSE Same(rate, [n |-> AddUp(Area, [i \in DOMAIN samples |-> i]), d |-> span])

UesOf(record) == FoldLeft(LAMBDA all, cell : all \o cell.ues, <<>>, record.cells)
Sum(d, record) == AddUp(LAMBDA ue : ue.brate[d], UesOf(record))
IsActive(i) == \E d \in Dirs : \A j \in 1 .. i : Sum(d, seen[i]) * Fraction > Sum(d, seen[j])

\* The samples of an RNTI: all its records, with the value V of each.
SamplesOf(rnti, V(_)) ==
    LET with == SelectSeq(seen, LAMBDA r : \E ue \in ToSet(UesOf(r)) : ue.rnti = rnti)
        UeOf(r) == CHOOSE ue \in ToSet(UesOf(r)) : ue.rnti = rnti
    IN  [i \in DOMAIN with |-> [time |-> with[i].time, value |-> V(UeOf(with[i]))]]

\* The records of the CSV before its end.
BeforeEof == LET ends == {i \in DOMAIN seen : seen[i].eof}
             IN  SubSeq(seen, 1, IF ends = {} THEN Len(seen) ELSE (CHOOSE i \in ends : \A j \in ends : i <= j) - 1)

\* DuMetricsAnalyzer, AmarisoftUeMetricsAnalyzer, SrsUe: however the records fall, the running
\* rates are the time-weighted means of all of them: of each RNTI over its records, of
\* the aggregate over the records with traffic, whatever idle ones are around them.
RatesAreTimeWeighted ==
    /\ kind = "rates" =>
        /\ \A rnti \in DOMAIN state.ues :
            /\ \A d \in Dirs : LET s == SamplesOf(rnti, LAMBDA ue : ue.brate[d])
                               IN  WeightedMean(state.ues[rnti].rate[d], s, s[1].value)
            /\ LET s == SamplesOf(rnti, LAMBDA ue : ue.ri)
               IN  (\A i \in DOMAIN s : s[i].value # None)
                    => WeightedMean(state.ues[rnti].ri, s, s[1].value)
        /\ LET active == SelectSeq([i \in DOMAIN seen |-> i], IsActive)
           IN  IF active = <<>> THEN state.agg.first = None
               ELSE \A d \in Dirs :
                    LET s == [i \in DOMAIN active |->
                                [time |-> seen[active[i]].time, value |-> Sum(d, seen[active[i]])]]
                    IN  WeightedMean(state.agg.rate[d], s, s[Len(s)].value)
    /\ kind = "amarisoft" =>
        \A id \in DOMAIN state.ue :
            LET Names(ue) == ue.rnti = id[1] /\ id[2] \in ToSet(ue.cells)
                with == SelectSeq(seen, LAMBDA r : "ues" \in DOMAIN r /\ \E ue \in ToSet(r.ues) : Names(ue))
                s == [i \in DOMAIN with |-> [time |-> with[i].time,
                        value |-> (CHOOSE ue \in ToSet(with[i].ues) : Names(ue)).rate]]
            IN  WeightedMean(state.ue[id].rate, s, s[1].value)
    /\ kind = "csv" /\ state.end # "raised" /\ BeforeEof # <<>> =>
        LET s == [i \in DOMAIN BeforeEof |-> [time |-> BeforeEof[i].time, value |-> BeforeEof[i].rate]]
        IN  WeightedMean(state.rate, s, s[1].value)

\* MovingAverage: the peak of each length is the highest mean of that many samples in
\* a row (of fewer at the start), and the queue is the last samples.
PeaksAreHighestWindows ==
    kind = "window" /\ seen # <<>> =>
        \A d \in Dirs :
            LET v == [i \in DOMAIN seen |-> seen[i].cells[1].ues[1].brate[d]]
                u == state.ues[1]
                Window(i, w) == Mean(SubSeq(v, Larger(1, i - w + 1), i))
                kept == SubSeq(v, Larger(1, Len(v) - QueueLength + 1), Len(v))
                cut == Len(kept) - Middle
            IN  /\ \A w \in Windows :
                    /\ \A i \in DOMAIN v : Least(Window(i, w), u.peak[d][w])
                    /\ \E i \in DOMAIN v : Same(Window(i, w), u.peak[d][w])
                /\ Same(GetMiddleAverage(u.queue[d], Middle),
                        IF cut <= 0 THEN Mean(kept) ELSE Mean(SubSeq(kept, cut \div 2 + 1, cut \div 2 + Middle)))

\* DuMetricsAnalyzer: the invalid PUCCH of a report of a UE are counted once, when the
\* next report of any cell is there, unless a create, reconfiguration or removal of the
\* UE is in one of the two.
PucchSkipsEvents ==
    kind = "pucch" =>
        LET cells == FoldLeft(LAMBDA all, r : all \o r.cells, <<>>, seen)
            BadOf(rnti, m) == AddUp(LAMBDA ue : IF ue.rnti = rnti THEN ue.bad ELSE 0, cells[m].ues)
            Counted(rnti, m) == IF m = Len(cells) \/ rnti \in cells[m].events \cup cells[m + 1].events
                                THEN 0 ELSE BadOf(rnti, m)
        IN  \A rnti \in {1, 2} :
                Get(state.pucch, rnti, 0) = AddUp(LAMBDA m : Counted(rnti, m), [m \in DOMAIN cells |-> m])

\* The last of the values that the records give for a key, 0 if none does.
LastGiven(Given(_), Value(_)) ==
    LET with == SelectSeq(seen, Given) IN IF with = <<>> THEN 0 ELSE Value(with[Len(with)])

\* Totals of counters that are reset by each report, and the last value of those that
\* are not: DuCellAnalyzer (without the first report of the run), CuCpMetricsAnalyzer,
\* the stats and UEs of AmarisoftUeMetricsAnalyzer, the plots, the PUCCH, the peaks and
\* the CSV of srsUE.
ReportsAddUp ==
    /\ PucchSkipsEvents
    /\ PeaksAreHighestWindows
    /\ kind = "csv" /\ state.end # "raised" => state.ko = AddUp(LAMBDA r : r.ko, BeforeEof)
    /\ kind = "cell" =>
        LET cells == FoldLeft(LAMBDA all, r : all \o r, <<>>, seen)
            later == IF cells = <<>> THEN <<>> ELSE Tail(cells)
            OfPci(pci) == LastGiven(LAMBDA r : \E c \in ToSet(r) : c.pci = pci,
                                    LAMBDA r : (CHOOSE c \in ToSet(r) : c.pci = pci).nofUes)
        IN  /\ state.errors = AddUp(LAMBDA c : c.errors, later)
            /\ state.preambles = AddUp(LAMBDA c : c.preambles, cells)
            /\ Total(state.ues) = OfPci(1) + OfPci(2)
            /\ (state.late = 0) = (later = <<>>)
    /\ kind = "cucp" =>
        Total(state) = AddUp(LAMBDA id : LastGiven(LAMBDA r : \E du \in ToSet(r) : du.id = id,
                                                   LAMBDA r : (CHOOSE du \in ToSet(r) : du.id = id).mtAccess),
                             <<1, 2>>)
    /\ kind = "amarisoft" =>
        LET replies == SelectSeq(seen, LAMBDA r : "ues" \in DOMAIN r)
            stats == SelectSeq(seen, LAMBDA r : "ues" \notin DOMAIN r)
            KoIn(r) == AddUp(LAMBDA ue : ue.ko * Len(ue.cells), r.ues)
        IN  /\ KoOf(state, DOMAIN state.ue) = AddUp(KoIn, replies)
            /\ state.stats.ko = AddUp(LAMBDA r : r.ko, stats)
            /\ state.stats.handovers = IF stats = <<>> THEN 0 ELSE stats[Len(stats)].handovers
            /\ \A id \in LatestUeId(state, {<<1, 1>>, <<2, 2>>}) :
                state.ue[id].last = LastGiven(LAMBDA r : "ues" \in DOMAIN r /\ \E ue \in ToSet(r.ues) :
                                                    (ue.rnti = 1 /\ 1 \in ToSet(ue.cells)) \/ ue.rnti = 2,
                                              LAMBDA r : r.time)
    /\ kind = "plot" =>
        /\ state.stamps = [i \in DOMAIN seen |-> seen[i].time]
        /\ \A rnti \in {1, 2} :
            /\ Len(Series(state, rnti)) = Cardinality(ToSet(state.stamps))
            /\ \A i \in DOMAIN state.order :
                Series(state, rnti)[i] =
                    LastGiven(LAMBDA r : r.time = state.order[i],
                              LAMBDA r : IF \E ue \in ToSet(r.ues) : ue.rnti = rnti THEN r.ues[1].value ELSE 0)
=============================================================================
