----------------------------- MODULE TimingLoop -----------------------------
(***************************************************************************)
(* The runner of a benchmark (huff_enc.c; lift.c, matrix1.c, test3.c and   *)
(* debie.c hold copies of it): a worker thread runs the program            *)
(* config_max_cycles times and keeps the statistics of the times it took,  *)
(* and the main thread shows them while it waits for the worker.  The two  *)
(* share tstat without a lock; threadstarted tells of the end.             *)
(***************************************************************************)
EXTENDS Integers, Sequences, FiniteSets

CONSTANTS
  Times,              \* what one run may take
  config_max_cycles,
  config_histogram,   \* length of the histogram, 0 for none
  Unset               \* tstat.min before the first run (1000000000)

ASSUME TimingLoopAssumption ==
  config_max_cycles \in Nat /\ config_histogram \in Nat /\ Times \subseteq Nat /\ Unset \in Nat

VARIABLES
  worker, diff,       \* where the worker is, and the time of the last run
  tstat,
  monitor,            \* where the main thread is
  shown,              \* what it has read for the line that it is printing
  report,             \* the histogram file
  times               \* history: all times

loop_vars == <<worker, diff, tstat, monitor, shown, report, times>>

WorkerAt == {"created", "loop", "run", "min", "max", "avg", "hist", "count", "ended"}
Unread == -1
Slots == 0 .. config_histogram - 1

----------------------------------------------------------------------------
(* huff_enc_thread *)

Goto(from, to) == worker = from /\ worker' = to

\* pthread_create has returned; the thread has not begun.
StartThread ==
  /\ Goto("created", "loop")
  /\ tstat' = [tstat EXCEPT !.threadstarted = 1]
  /\ UNCHANGED <<diff, monitor, shown, report, times>>

StartRun ==
  /\ Goto("loop", "run") /\ tstat.cycles < config_max_cycles
  /\ UNCHANGED <<diff, tstat, monitor, shown, report, times>>

\* The clock is read again, and the run has taken diff.
EndRun ==
  /\ Goto("run", "min")
  /\ \E t \in Times : diff' = t /\ times' = Append(times, t)
  /\ UNCHANGED <<tstat, monitor, shown, report>>

UpdateMin ==
  /\ Goto("min", "max")
  /\ tstat' = [tstat EXCEPT !.min = IF diff < @ THEN diff ELSE @]
  /\ UNCHANGED <<diff, monitor, shown, report, times>>

UpdateMax ==
  /\ Goto("max", "avg")
  /\ tstat' = [tstat EXCEPT !.max = IF diff > @ THEN diff ELSE @]
  /\ UNCHANGED <<diff, monitor, shown, report, times>>

UpdateAvg ==
  /\ Goto("avg", "hist")
  /\ tstat' = [tstat EXCEPT !.avg = @ + diff, !.act = diff]
  /\ UNCHANGED <<diff, monitor, shown, report, times>>

UpdateHistogram ==
  /\ Goto("hist", "count")
  /\ tstat' = IF config_histogram = 0 THEN tstat
              ELSE IF diff >= config_histogram THEN [tstat EXCEPT !.hist_overflow = @ + 1]
              ELSE [tstat EXCEPT !.hist_array[diff] = @ + 1]
  /\ UNCHANGED <<diff, monitor, shown, report, times>>

CountCycle ==
  /\ Goto("count", "loop")
  /\ tstat' = [tstat EXCEPT !.cycles = @ + 1]
  /\ UNCHANGED <<diff, monitor, shown, report, times>>

Finish ==
  /\ Goto("loop", "ended") /\ tstat.cycles >= config_max_cycles
  /\ tstat' = [tstat EXCEPT !.threadstarted = -1]
  /\ UNCHANGED <<diff, monitor, shown, report, times>>

----------------------------------------------------------------------------
(* main *)

Wait ==
  /\ monitor = "wait"
  /\ monitor' = IF tstat.threadstarted = -1 THEN "join" ELSE "look"
  /\ UNCHANGED <<worker, diff, tstat, shown, report, times>>

\* Mutant of Look: a line is printed before the first run as well.
Look_FromTheStart ==
  /\ monitor = "look" /\ monitor' = "line"
  /\ UNCHANGED <<worker, diff, tstat, shown, report, times>>

Look ==
  /\ monitor = "look"
  /\ monitor' = IF tstat.cycles > 0 THEN "line" ELSE "wait"
  /\ UNCHANGED <<worker, diff, tstat, shown, report, times>>

\* The fields of the line are read in the order that the compiler chooses.
ShowField ==
  /\ monitor = "line"
  /\ \E field \in {"min", "max"} :
       /\ shown[field] = Unread
       /\ shown' = [shown EXCEPT ![field] = tstat[field]]
  /\ UNCHANGED <<worker, diff, tstat, monitor, report, times>>

LineIsRead == shown.min # Unread /\ shown.max # Unread

\* The line is printed, and the main thread sleeps.
PrintLine ==
  /\ monitor = "line" /\ LineIsRead
  /\ monitor' = "wait" /\ shown' = [min |-> Unread, max |-> Unread]
  /\ UNCHANGED <<worker, diff, tstat, report, times>>

print_histogram_to_file == report' = <<tstat>>

\* pthread_join, and the file if one is asked for.
JoinThread ==
  /\ monitor = "join" /\ worker = "ended" /\ monitor' = "done"
  /\ IF config_histogram > 0 THEN print_histogram_to_file ELSE UNCHANGED report
  /\ UNCHANGED <<worker, diff, tstat, shown, times>>

----------------------------------------------------------------------------
LoopInit ==
  /\ worker = "created" /\ diff = 0
  /\ tstat = [cycles |-> 0, min |-> Unset, max |-> 0, act |-> 0, avg |-> 0,
              hist_array |-> [i \in Slots |-> 0], hist_overflow |-> 0, threadstarted |-> 0]
  /\ monitor = "wait" /\ shown = [min |-> Unread, max |-> Unread] /\ report = <<>>
  /\ times = <<>>

Statistics == UpdateMin \/ UpdateMax \/ UpdateAvg \/ UpdateHistogram \/ CountCycle

Worker == StartThread \/ StartRun \/ EndRun \/ Statistics \/ Finish

Main == Wait \/ Look \/ ShowField \/ PrintLine \/ JoinThread

LoopNext == Worker \/ Main

LoopSpec == LoopInit /\ [][LoopNext]_loop_vars

----------------------------------------------------------------------------
(* Properties *)

\* Every variable has its type; the histogram has a slot for every time.
LoopTypeOK ==
  /\ worker \in WorkerAt /\ diff \in Times \cup {0} /\ times \in Seq(Times)
  /\ tstat \in [cycles : 0 .. config_max_cycles, min : Times \cup {Unset}, max : Times \cup {0},
                act : Times \cup {0}, avg : Nat, hist_array : [Slots -> Nat],
                hist_overflow : Nat, threadstarted : {-1, 0, 1}]
  /\ monitor \in {"wait", "look", "line", "join", "done"}
  /\ shown \in [min : Nat \cup {Unread}, max : Nat \cup {Unread}]

\* The first n runs of those whose time is in S, and the sum of their times.
RunsIn(S, n) == Cardinality({k \in 1 .. n : times[k] \in S})
TimeOf(n) == Cardinality(UNION {{k} \X (1 .. times[k]) : k \in 1 .. n})

\* The histogram file tells of every run: each slot and the overflows count the
\* runs that took that long, the sum for the average is that of all times, and
\* the minimum and the maximum enclose them.
ReportIsComplete ==
  \A i \in DOMAIN report :
    LET r == report[i]
        n == Len(times)
    IN /\ r.cycles = config_max_cycles /\ n = r.cycles
       /\ \A slot \in Slots : r.hist_array[slot] = RunsIn({slot}, n)
       /\ r.hist_overflow = RunsIn(Times \ Slots, n)
       /\ r.avg = TimeOf(n)
       /\ \A k \in 1 .. n : r.min <= times[k] /\ times[k] <= r.max

\* A line that is printed never shows a minimum above the maximum, although
\* both may change between the two readings (huff_enc.c, 815): the main thread
\* prints only when a run has been counted, and a run is counted last.
LineIsOrdered == LineIsRead => shown.min <= shown.max

\* What the program shows of its runs is consistent, in the lines and in the end.
StatisticsAreConsistent == LineIsOrdered /\ ReportIsComplete

=============================================================================
