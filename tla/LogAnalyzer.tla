---------------------------- MODULE LogAnalyzer ----------------------------
(***************************************************************************)
(* LogAnalyzer: CDirectoryProc::proc reads one file after the other,       *)
(* CFileProc cuts it into lines, CHandler::parsingLine hands each line to  *)
(* the analyzers that are configured.  A line is known by whether it is    *)
(* empty, whether it holds the keyword, and the number behind the keyword  *)
(* (-1 when getIntValue finds none).  The reader picks the lines as it     *)
(* goes; "last" says that the file ends behind the line.                   *)
(***************************************************************************)
EXTENDS Integers, Sequences, FiniteSetsExt, SequencesExt

CONSTANTS Nums,       \* the numbers a line may hold
          AVG_COUNT,
          MaxFiles, MaxParsed     \* bounds: files read, lines parsed

Lines == {[empty |-> TRUE, key |-> FALSE, val |-> -1], [empty |-> FALSE, key |-> FALSE, val |-> -1]}
         \cup [empty : {FALSE}, key : {TRUE}, val : Nums \cup {-1}]

VARIABLES
  conf,   \* [average: is CAnalyzer_Average configured, endKey: is END_LINE_KEY]
  file,   \* the file being read: [at, n]; n counts the files opened
  parsed,   \* the lines given to parsingLine so far
  ana     \* the figures of the analyzers

analyzerVars == <<conf, file, parsed, ana>>

Init ==
  /\ conf \in [average : BOOLEAN, endKey : BOOLEAN]
  /\ file = [at |-> "between", n |-> 0]
  /\ parsed = <<>>
  /\ ana = [nTotalLine |-> 0, unit |-> [v \in Nums \cup {-1} |-> 0], nMin |-> 0, nMax |-> 0,
            nTotalCount |-> 0, slot |-> 0, interval |-> <<>>, nAvgIdx |-> 0,
            prev |-> 0, errors |-> <<>>]

\* A total that also counts the lines without the keyword.
KeyValueAll(a, l) ==
  IF ~l.key THEN [a EXCEPT !.nTotalLine = @ + 1]
  ELSE [a EXCEPT !.unit[l.val] = @ + 1, !.nTotalLine = @ + 1,
                 !.nMin = IF @ > l.val THEN l.val ELSE @,
                 !.nMax = IF a.nMin <= l.val /\ @ < l.val THEN l.val ELSE @]

\* CAnalyzer_KeyValue::parsingLine, setLine and setUnitData; every keyword has
\* a VALUE_KEY, as in LogAnalyzer.ini.
KeyValue(a, l) ==
  IF ~l.key THEN a
  ELSE [a EXCEPT !.unit[l.val] = @ + 1,
                 !.nTotalLine = @ + 1,
                 !.nMin = IF @ > l.val THEN l.val ELSE @,
                 !.nMax = IF a.nMin <= l.val /\ @ < l.val THEN l.val ELSE @]

\* CAnalyzer_ExtractNToFile::parsingLine
Extract(a, l) == IF l.key THEN [a EXCEPT !.nTotalCount = @ + 1] ELSE a

\* CAnalyzer_DateTime::addDataToTimeSlot, all hours and minutes in one slot
DateTime(a, l) == [a EXCEPT !.slot = @ + 1]

\* An interval that is emptied one value late.
AverageLate(a, l) ==
  IF Len(a.interval) = AVG_COUNT
  THEN [a EXCEPT !.interval = <<>>, !.nAvgIdx = @ + 1]
  ELSE [a EXCEPT !.interval = Append(@, l.val)]

\* CAnalyzer_Average::parsingLine, for a line that holds the keyword
Average(a, l) ==
  IF Len(a.interval) + 1 = AVG_COUNT
  THEN [a EXCEPT !.interval = <<>>, !.nAvgIdx = @ + 1]
  ELSE [a EXCEPT !.interval = Append(@, l.val)]

\* A checker that keeps the old number when it reports a gap.
SequenceSticks(a, l) ==
  IF ~l.key \/ l.val < 0 THEN a
  ELSE IF l.val - a.prev # 1 THEN [a EXCEPT !.errors = Append(@, l)] ELSE [a EXCEPT !.prev = l.val]

\* CAnalyzer_Sequence::parsingLine
Sequence(a, l) ==
  IF ~l.key \/ l.val < 0 THEN a
  ELSE [a EXCEPT !.errors = IF l.val - a.prev # 1 THEN Append(@, l) ELSE @,
                 !.prev = l.val]

\* CHandler::parsingLine: the first analyzer that refuses the line ends it,
\* the ones behind it do not see it.
Refused(l) == conf.average /\ ~l.key

parsingLine(l) ==
  LET a == DateTime(Extract(KeyValue(ana, l), l), l)
  IN IF Refused(l) THEN a ELSE Sequence(IF conf.average THEN Average(a, l) ELSE a, l)

Tell(l) ==
  /\ parsed' = Append(parsed, l)
  /\ ana' = parsingLine(l)

\* CDirectoryProc::proc takes the next file, CFileProc::init reads it.
OpenFile ==
  /\ file.at = "between" /\ file.n < MaxFiles
  /\ file' = [at |-> "reading", n |-> file.n + 1]
  /\ UNCHANGED <<parsed, ana>>

\* getNextLine answers 0 for an empty line and for the last line of the file.
AnswersZero(l, last) == last \/ l.empty

\* FileProc: the line is parsed before the answer of getNextLine is looked at.
FileProc(l, last) ==
  /\ ~conf.endKey /\ file.at = "reading"
  /\ Tell(l)
  /\ file' = [file EXCEPT !.at = IF Refused(l) \/ AnswersZero(l, last) THEN "between" ELSE @]

\* FileProc2: an answer of 0 ends the loop before the line is parsed.
FileProc2(l, last) ==
  /\ conf.endKey /\ file.at = "reading"
  /\ IF AnswersZero(l, last) THEN UNCHANGED <<parsed, ana>> ELSE Tell(l)
  /\ file' = [file EXCEPT !.at = IF Refused(l) \/ AnswersZero(l, last) THEN "between" ELSE @]

Next ==
  /\ \/ OpenFile
     \/ /\ Len(parsed) < MaxParsed
        /\ \E l \in Lines, last \in BOOLEAN : FileProc(l, last) \/ FileProc2(l, last)
  /\ UNCHANGED conf

----------------------------------------------------------------------------
Numbers(lines) == {lines[k].val : k \in {i \in DOMAIN lines : lines[i].key}}

\* The numbers that the sequence check has compared, in order.
Numbered == SelectSeq(parsed, LAMBDA l : l.key /\ l.val >= 0)

\* Over all files, the KeyValue units add up to its lines, and its extremes
\* are those of the numbers seen and of the 0 they start from.
UnitsAddUp ==
  /\ ana.nTotalLine = ana.nTotalCount
  /\ MapThenSumSet(LAMBDA v : ana.unit[v], DOMAIN ana.unit) = ana.nTotalLine
  /\ ana.nMin = Min({0} \cup Numbers(parsed))
  /\ ana.nMax = Max({0} \cup Numbers(parsed))
  /\ ana.slot = Len(parsed)

\* The sequence check reports exactly the numbers that do not follow their
\* predecessor, across files and behind an Average analyzer that refuses lines.
GapsReported ==
  LET prev(k) == IF k = 1 THEN 0 ELSE Numbered[k - 1].val
  IN Len(ana.errors) = Cardinality({k \in DOMAIN Numbered : Numbered[k].val # prev(k) + 1})

\* Every accepted number is in an average or waits in the interval.
AveragesHoldAll ==
  conf.average =>
    ana.nAvgIdx * AVG_COUNT + Len(ana.interval) = Cardinality({k \in DOMAIN parsed : parsed[k].key})
============================================================================
