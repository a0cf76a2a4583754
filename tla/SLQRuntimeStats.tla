--------------------------- MODULE SLQRuntimeStats ---------------------------
(***************************************************************************)
(* SchedulerLoopQuarantineRuntimeStats for one size bucket                 *)
(* (src/src/partition_alloc/scheduler_loop_quarantine_runtime_stats.{h,cc}):*)
(* three rolling windows of kMaxTimesToTrack durations (zap, purge, total  *)
(* time), their running sums and averages, and the pause that a zap time   *)
(* far above the zap average triggers.  Every bucket index has its own     *)
(* three windows and they never interact, so one index stands for all;    *)
(* pause_until_ is shared, and one index is enough to set it.              *)
(*                                                                         *)
(* Times are small integers; TimeTicks() (null) is 0 and the clock starts  *)
(* at 1.  An AddStats call is the ThreadScopedStatTracker of one           *)
(* quarantine: start at `now`, purge a ticks later, zap b ticks after      *)
(* that, end c ticks after the zap; the clock then moves to the end.       *)
(***************************************************************************)
EXTENDS Naturals, Integers, FiniteSets, FiniteSetsExt

CONSTANTS
  N,              \* kMaxTimesToTrack
  Phases,         \* <<a, b, c>>: the phase lengths a quarantine may take
  PauseDelays,    \* pause_delay values InitOrResetStats may get
  MaxAboveAvg,    \* max_above_avg_zap_delta values InitOrResetStats may get
  MaxCalls        \* bound on AddStats calls

ASSUME N \in Nat \ {0}
ASSUME Phases \subseteq Nat \X Nat \X Nat

Kinds == {"zap", "purge", "total"}
Idx == 0 .. N - 1

VARIABLES
  initialized,    \* initialized_
  long_delta,     \* long_zap_pause_delta_
  max_above,      \* max_above_avg_zap_delta_
  pause_until,    \* pause_until_ (0 = null)
  stats,          \* Kinds -> BucketStats of the bucket index
  now,            \* the clock
  calls,          \* AddStats calls so far (bound)
  since_reset     \* Kinds -> values recorded since Reset (capped at N)

vars == <<initialized, long_delta, max_above, pause_until, stats, now, calls,
          since_reset>>

(* A default-constructed BucketStats. *)
NewBucket ==
  [paused |-> 0, cycled |-> 0, valid |-> FALSE, idx |-> 0, reported_idx |-> N - 1,
   sum |-> 0, average |-> 0, times |-> [i \in Idx |-> 0]]

(* Mutation variant of Reset: the running sum is kept. *)
ResetKeepSum(b) ==
  [b EXCEPT !.valid = FALSE, !.idx = 0, !.average = 0, !.reported_idx = N - 1]

(* BucketStats::Reset: the window restarts; times, paused_, cycled_ stay. *)
Reset(b) ==
  [b EXCEPT !.valid = FALSE, !.idx = 0, !.sum = 0, !.average = 0,
            !.reported_idx = N - 1]

(* Mutation variant of Reported: reported_idx_ moved even when not valid. *)
ReportedAlways(b) ==
  [b EXCEPT !.paused = 0, !.cycled = 0, !.reported_idx = b.idx]

(* BucketStats::Reported: only a valid window moves its reported index. *)
Reported(b) ==
  IF b.valid THEN [b EXCEPT !.paused = 0, !.cycled = 0, !.reported_idx = b.idx]
  ELSE b

(* Mutation variant of RecordValue: idx_ does not wrap at the end. *)
RecordValueNoWrap(b, v) ==
  LET sum   == b.sum + (IF v # 0 THEN v ELSE 1) - (IF b.valid THEN b.times[b.idx] ELSE 0)
      hit   == b.idx = b.reported_idx
      valid == b.valid \/ hit
  IN  [b EXCEPT !.sum = sum,
                !.times[b.idx] = v,
                !.valid = valid,
                !.cycled = IF hit THEN @ + 1 ELSE @,
                !.idx = b.idx + 1,
                !.average = IF valid THEN sum \div N ELSE @]

(***************************************************************************)
(* BucketStats::RecordValue(v): add v (1 for a zero value) and, once the   *)
(* window is valid, subtract the value it overwrites; the window becomes   *)
(* valid, and cycles, when idx_ reaches reported_idx_; idx_ wraps at the   *)
(* end; the average is sum / kMaxTimesToTrack while valid.                 *)
(***************************************************************************)
RecordValue(b, v) ==
  LET sum   == b.sum + (IF v # 0 THEN v ELSE 1) - (IF b.valid THEN b.times[b.idx] ELSE 0)
      hit   == b.idx = b.reported_idx
      valid == b.valid \/ hit
  IN  [b EXCEPT !.sum = sum,
                !.times[b.idx] = v,
                !.valid = valid,
                !.cycled = IF hit THEN @ + 1 ELSE @,
                !.idx = IF b.idx = N - 1 THEN 0 ELSE b.idx + 1,
                !.average = IF valid THEN sum \div N ELSE @]

Init ==
  /\ initialized = FALSE
  /\ long_delta = 0
  /\ max_above = 0
  /\ pause_until = 0
  /\ stats = [k \in Kinds |-> NewBucket]
  /\ now = 1
  /\ calls = 0
  /\ since_reset = [k \in Kinds |-> 0]

(* InitOrResetStats: the first call sizes the windows, later calls Reset  *)
(* them; then both deltas are stored.  A nonzero max delta comes with a   *)
(* nonzero pause delay (the DCHECK in AddStats).                          *)
InitOrResetStats(pd, mad) ==
  /\ mad # 0 => pd # 0
  /\ stats' = IF initialized THEN [k \in Kinds |-> Reset(stats[k])] ELSE stats
  /\ initialized' = TRUE
  /\ long_delta' = pd
  /\ max_above' = mad
  /\ since_reset' = [k \in Kinds |-> 0]
  /\ UNCHANGED <<pause_until, now, calls>>

CountUpTo(c) == IF c < N THEN c + 1 ELSE N

(***************************************************************************)
(* AddStats at the end of one quarantine (purge a after the start, zap b   *)
(* after the purge, end c after the zap; no purge or no zap gives a null   *)
(* start).  Records total, purge and zap durations as the code does,      *)
(* reading the zap average first, and pauses when the zap window is valid  *)
(* (after this record) and the zap time exceeds that average by more than  *)
(* max_above_avg_zap_delta_.                                               *)
(***************************************************************************)
AddStats(a, b, c, purged, zapped) ==
  LET start   == now
      purge_s == IF purged THEN now + a ELSE 0
      zap_s   == IF zapped THEN now + a + b ELSE 0
      end     == now + a + b + c
      avg     == stats["zap"].average
      zap_t   == IF zapped THEN end - zap_s ELSE 0
      st1 == [stats EXCEPT !["total"] = RecordValue(@, end - start)]
      st2 == IF zapped
             THEN [st1 EXCEPT !["purge"] = RecordValue(@, zap_s - purge_s),
                              !["zap"] = RecordValue(@, zap_t)]
             ELSE IF purged
             THEN [st1 EXCEPT !["purge"] = RecordValue(@, end - purge_s)]
             ELSE st1
      recorded == {"total"} \cup (IF zapped THEN {"purge", "zap"}
                                  ELSE IF purged THEN {"purge"} ELSE {})
      pause == st2["zap"].valid /\ max_above # 0 /\ zap_t # 0
               /\ zap_t - avg > max_above
  IN  /\ calls < MaxCalls
      /\ zapped => purged
      /\ calls' = calls + 1
      /\ now' = end
      /\ \/ /\ ~initialized
            /\ UNCHANGED <<stats, pause_until, since_reset>>
         \/ /\ initialized
            /\ stats' = IF pause THEN [st2 EXCEPT !["zap"].paused = @ + 1] ELSE st2
            /\ pause_until' = IF pause THEN end + long_delta ELSE pause_until
            /\ since_reset' = [k \in Kinds |->
                                 IF k \in recorded THEN CountUpTo(since_reset[k])
                                 ELSE since_reset[k]]
      /\ UNCHANGED <<initialized, long_delta, max_above>>

(* ReportedStats: Reported() on every window, when initialized. *)
ReportedStats ==
  /\ initialized
  /\ stats' = [k \in Kinds |-> Reported(stats[k])]
  /\ UNCHANGED <<initialized, long_delta, max_above, pause_until, now, calls,
                 since_reset>>

(* ShouldPause(start): the quarantine is paused while start < pause_until_. *)
ShouldPause(t) == initialized /\ pause_until # 0 /\ t # 0 /\ t < pause_until

Next ==
  \/ \E pd \in PauseDelays, mad \in MaxAboveAvg : InitOrResetStats(pd, mad)
  \/ \E p \in Phases, purged, zapped \in BOOLEAN :
       AddStats(p[1], p[2], p[3], purged, zapped)
  \/ ReportedStats

Spec == Init /\ [][Next]_vars

-----------------------------------------------------------------------------
(* Properties *)

Bucket == [paused : Nat, cycled : Nat, valid : BOOLEAN, idx : Idx,
           reported_idx : Idx, sum : Int, average : Int, times : [Idx -> Nat]]

TypeOK ==
  /\ initialized \in BOOLEAN
  /\ {long_delta, max_above, pause_until, now, calls} \subseteq Nat
  /\ stats \in [Kinds -> Bucket]
  /\ since_reset \in [Kinds -> 0 .. N]

SumOf(f, S) == FoldSet(LAMBDA i, acc : acc + f[i], 0, S)

(***************************************************************************)
(* The running sum is the sum of the window: of the whole window once it   *)
(* is valid, of the values recorded since the reset before that; and the   *)
(* average of a valid window is sum / kMaxTimesToTrack.  RecordValue must  *)
(* subtract exactly the value it overwrites, and Reset restart the sum,    *)
(* over any sequence of records, reports and resets.                       *)
(***************************************************************************)
WindowSumExact ==
  \A k \in Kinds :
    LET b == stats[k]
    IN  IF b.valid
        THEN b.sum = SumOf(b.times, Idx) /\ b.average = b.sum \div N
        ELSE b.sum = SumOf(b.times, 0 .. b.idx - 1)

(***************************************************************************)
(* A window is valid only once it holds kMaxTimesToTrack values recorded   *)
(* since the last InitOrResetStats: its average is never taken over stale  *)
(* or missing entries.  Reported() moving reported_idx_ at the wrong time  *)
(* would make the window valid early.                                      *)
(***************************************************************************)
ValidMeansWindowFull ==
  \A k \in Kinds : initialized /\ stats[k].valid => since_reset[k] = N

(***************************************************************************)
(* A pause is decided against the average of a zap window that was already *)
(* valid (spec: a zap time exceeding the bucket's rolling average by more  *)
(* than max_above_avg_zap_delta pauses the quarantine).                    *)
(***************************************************************************)
PauseOnlyAgainstValidAverage ==
  [][stats'["zap"].paused > stats["zap"].paused => stats["zap"].valid]_vars

==============================================================================
