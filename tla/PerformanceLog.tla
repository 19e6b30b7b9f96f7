--------------------------- MODULE PerformanceLog ---------------------------
(***************************************************************************)
(* The performance log, as operators over a record: completed requests     *)
(* wait for the consumer's lock in the order of their events; one at a     *)
(* time, a worker thread appends the record to the JSONL files and folds   *)
(* it into the statistics behind summary.yaml                              *)
(* (src/keeprollming/observability/consumers.py, performance.py).          *)
(***************************************************************************)
EXTENDS Naturals, Sequences, SequencesExt

CONSTANTS SummaryEvery,  \* records between two summaries (summary_interval)
          ArchiveEvery   \* records between two archives (1000 in the code)

ASSUME LogAssumption == /\ SummaryEvery \in Nat \ {0}
                        /\ ArchiveEvery \in Nat \ {0, 1}

None == "none"

(* tasks    completed requests whose consume_async task waits for the lock *)
(* holding  what the thread holds: nothing, or a record and its next step  *)
(* disk     the records of the JSONL files; archive: those moved away      *)
(* stats    the records _route_stats has counted since it was seeded       *)
EmptyLog == [tasks |-> <<>>, holding |-> None, step |-> None,
             disk |-> <<>>, archive |-> <<>>, stats |-> <<>>,
             seeded |-> FALSE, counter |-> 0, lost |-> {}]

Idle(log) == log.step = None

(* PerformanceConsumer.consume_async behind create_task: the lock is fair. *)
Scheduled(log, r) == [log EXCEPT !.tasks = Append(@, r)]

(* _seed_route_stats: once in an epoch, the disk replaces what is counted. *)
Seed(log) == IF log.seeded THEN log
             ELSE [log EXCEPT !.stats = log.disk, !.seeded = TRUE]

(* The lock is acquired and the worker thread seeds before it writes.      *)
Taken(log) == [Seed(log) EXCEPT !.tasks = Tail(@), !.holding = Head(log.tasks),
                                !.step = "append"]

(* AsyncLogWriter._sync_write swallows a failed write: nobody learns of it *)
Appended(log, ok) ==
  [log EXCEPT !.disk = IF ok THEN Append(@, log.holding) ELSE @,
              !.lost = IF ok THEN @ ELSE @ \cup {log.holding},
              !.step = "count"]

(* A slip: the statistics of the archived epoch go on.                     *)
ArchivedKeepsStats(log) ==
  Seed([log EXCEPT !.archive = @ \o log.disk, !.disk = <<>>])

(* shutil.move of every file and reset_route_stats, only when a summary is *)
(* due as well; _update_summary then seeds from the empty directory.       *)
SummaryDue(n) == n = 1 \/ n % SummaryEvery = 0
ArchiveDue(n) == SummaryDue(n) /\ n > 1 /\ n % ArchiveEvery = 0
Archived(log) == Seed([log EXCEPT !.archive = @ \o log.disk, !.disk = <<>>,
                                  !.stats = <<>>, !.seeded = FALSE])

Counted(log) ==
  LET n == log.counter + 1
      counted == [log EXCEPT !.stats = Append(@, log.holding), !.counter = n,
                             !.holding = None, !.step = None]
  IN IF ArchiveDue(n) THEN Archived(counted) ELSE counted

(* Nothing in memory survives the process; the files do.                   *)
Reloaded(log) == [EmptyLog EXCEPT !.disk = log.disk, !.archive = log.archive]

(* t is what is left of s, in its order, without the elements of `gone`;   *)
(* at[i] is where t[i] is in s.                                            *)
Remains(t, s, gone) ==
  \E at \in [DOMAIN t -> DOMAIN s] :
    /\ \A i, j \in DOMAIN t : i < j => at[i] < at[j]
    /\ \A i \in DOMAIN t : t[i] = s[at[i]]
    /\ {at[i] : i \in DOMAIN t} = {k \in DOMAIN s : s[k] \notin gone}

(* What the statistics should hold: every record of the epoch's files, and *)
(* the records whose write failed in this process.                         *)
Recorded(log) == IF log.step = "count" /\ log.holding \notin log.lost
                 THEN Front(log.disk) ELSE log.disk
StatsAreDisk(log) == log.seeded => Remains(Recorded(log), log.stats, log.lost)
=============================================================================
