----------------------------- MODULE SampleStore -----------------------------
(***************************************************************************)
(* The history of traffic: src/core/BandwidthEngine.cpp takes a sample of  *)
(* the totals of a device with every snapshot and writes it a few seconds  *)
(* later; once an hour src/core/DatabaseManager.cpp rolls the samples up   *)
(* into rows per minute, those into rows per hour and those into rows per  *)
(* day, and then deletes what is older than the retention of each table.   *)
(*                                                                         *)
(* One device is modelled, and one direction: the SQL groups by MAC, and   *)
(* treats both totals alike.  The averages of rates are left out.          *)
(***************************************************************************)
EXTENDS Naturals

CONSTANTS
    Minute, Hour, Day,            \* lengths of the buckets
    MinuteAge, HourAge, DayAge,   \* how old a row must be to be rolled up
    RawKept, MinutesKept, HoursKept, \* retentions
    Interval,                     \* of m_pruneTimer
    MaxClock, MaxRx               \* bounds on the time and on the totals

ASSUME StoreAssumption ==
    /\ {Minute, Hour, Day, Interval} \subseteq Nat \ {0}
    /\ {MinuteAge, HourAge, DayAge, RawKept, MinutesKept, HoursKept} \subseteq Nat
    /\ MinuteAge <= RawKept /\ HourAge <= MinutesKept /\ DayAge <= HoursKept
    /\ MaxClock \in Nat /\ MaxRx \in Nat

VARIABLES
    clock,      \* currentSecsSinceEpoch
    rx,         \* rxTotal of the record
    unwritten,  \* m_pendingSamples
    timer,      \* when m_pruneTimer was last started
    samples,    \* the table bw_samples
    minutes,    \* bw_minutes
    hours,      \* bw_hours
    days,       \* bw_days
    written     \* every sample that was ever inserted; no variable of the code

tables == <<samples, minutes, hours, days>>
storeVars == <<clock, rx, unwritten, timer, tables, written>>

-----------------------------------------------------------------------------

\* A row; at, the time of its insertion, stands for the id: one pass inserts
\* at most one row per bucket.
Row == [ts : Nat, rx : Nat, at : Nat]
Sample == [ts : Nat, rx : Nat]

StoreTypeOK ==
    /\ clock \in Nat /\ rx \in Nat /\ timer \in Nat
    /\ unwritten \subseteq Sample /\ samples \subseteq Sample /\ written \subseteq Sample
    /\ minutes \subseteq Row /\ hours \subseteq Row /\ days \subseteq Row

StoreInit ==
    /\ clock = 0 /\ rx = 0 /\ unwritten = {} /\ timer = 0
    /\ samples = {} /\ minutes = {} /\ hours = {} /\ days = {}
    /\ written = {}

-----------------------------------------------------------------------------
(* The engine.                                                             *)

TimePasses ==
    /\ clock < MaxClock /\ clock' = clock + 1
    /\ UNCHANGED <<rx, unwritten, timer, tables, written>>

\* onRawStats, once a second.
TakeSample ==
    /\ \A s \in unwritten \cup samples : s.ts < clock
    /\ \E now \in rx .. MaxRx :
          rx' = now /\ unwritten' = unwritten \cup {[ts |-> clock, rx |-> now]}
    /\ UNCHANGED <<clock, timer, tables, written>>

\* onHousekeepingTimer and insertBwSample.
OnHousekeepingTimer ==
    /\ unwritten # {} /\ unwritten' = {}
    /\ samples' = samples \cup unwritten
    /\ written' = written \cup unwritten
    /\ UNCHANGED <<clock, rx, timer, minutes, hours, days>>

\* Totals start again at 0, samples that were not written are gone.
StoreRestart ==
    /\ rx' = 0 /\ unwritten' = {} /\ timer' = clock
    /\ UNCHANGED <<clock, tables, written>>

-----------------------------------------------------------------------------
(* The database.                                                           *)

Bucket(t, length) == (t \div length) * length

\* SELECT MAX(rx_bytes) ... WHERE ts < clock - age GROUP BY bucket.
RolledUp(rows, length, age) ==
    LET old == {r \in rows : r.ts + age < clock}
        top == {r \in old : \A other \in old :
                    Bucket(other.ts, length) = Bucket(r.ts, length) => other.rx <= r.rx}
    IN  {[ts |-> Bucket(r.ts, length), rx |-> r.rx, at |-> clock] : r \in top}

\* Mutant of Inserted: a bucket that has its row already is ignored.
InsertedOnce(table, rows) ==
    table \cup {r \in rows : \A other \in table : other.ts # r.ts}

\* INSERT OR IGNORE, into a table without a key that could be violated.
Inserted(table, rows) == table \cup rows

Retained(rows, kept) == {r \in rows : r.ts + kept >= clock}

\* pruneOldSamples: aggregateSamples first, each roll-up from the table that
\* the one before it has filled; days are kept for ever.
PruneOldSamples ==
    LET newMinutes == Inserted(minutes, RolledUp(samples, Minute, MinuteAge))
        newHours == Inserted(hours, RolledUp(newMinutes, Hour, HourAge))
    IN  /\ days' = Inserted(days, RolledUp(newHours, Day, DayAge))
        /\ samples' = Retained(samples, RawKept)
        /\ minutes' = Retained(newMinutes, MinutesKept)
        /\ hours' = Retained(newHours, HoursKept)

OnPruneTimer ==
    /\ clock >= timer + Interval /\ timer' = clock
    /\ PruneOldSamples
    /\ UNCHANGED <<clock, rx, unwritten, written>>

StoreStep ==
    TimePasses \/ TakeSample \/ OnHousekeepingTimer \/ StoreRestart \/ OnPruneTimer

StoreSpec == StoreInit /\ [][StoreStep]_storeVars

-----------------------------------------------------------------------------

Covers(row, ts, value) == row.ts = ts /\ row.rx >= value

\* "First aggregate before pruning so we don't lose data": a sample that was
\* written is in one of the tables as long as the database lives, itself or
\* as a row of its bucket with at least its total, however late it was written
\* and however a pass divides its bucket (aggregateSamples, pruneOldSamples).
NoSampleLost ==
    \A s \in written :
        LET minute == Bucket(s.ts, Minute)
            hour == Bucket(minute, Hour)
        IN  \/ s \in samples
            \/ \E r \in minutes : Covers(r, minute, s.rx)
            \/ \E r \in hours : Covers(r, hour, s.rx)
            \/ \E r \in days : Covers(r, Bucket(hour, Day), s.rx)

\* "Insert aggregated minute rows that don't already exist"
\* (DatabaseManager.cpp, aggregateSamples): a bucket has one row.
AggregatedOnce ==
    \A table \in {minutes, hours, days} : \A r, other \in table :
        r.ts = other.ts => r = other
=============================================================================
