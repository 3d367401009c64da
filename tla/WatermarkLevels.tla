--------------------------- MODULE WatermarkLevels ---------------------------
(***************************************************************************)
(* Which watermark memory has fallen below: get_lowest_watermark, and the  *)
(* two figures on swap that the decision to kill uses with it.  Page       *)
(* counts are natural numbers; cache_percent is in percent.                *)
(***************************************************************************)
EXTENDS Integers

CONSTANTS CachePercent,            \* cache_percent
          swap_compression_ratio

ASSUME CacheAssumption == CachePercent \in 0..100
ASSUME RatioAssumption == swap_compression_ratio \in Nat

MEDIUM == 1
CRITICAL == 2
SUPER_CRITICAL == 3
Level == MEDIUM..SUPER_CRITICAL

WMARK_MIN == 0
WMARK_LOW == 1
WMARK_HIGH == 2
WMARK_NONE == 3

(* struct zone_meminfo, with its watermarks.                               *)
ZoneMeminfo == [nr_free_pages : Nat, cma_free : Nat, file : Nat,
                min_wmark : Nat, low_wmark : Nat, high_wmark : Nat]

(* events: the handler runs for a psi event, not for a poll.               *)
should_consider_cache_free(events, level, in_compaction) ==
  /\ CachePercent > 0 /\ ~in_compaction
  /\ level < CRITICAL \/ (~events /\ level = CRITICAL)

nr_cached_pages(m, events, level, in_compaction) ==
  IF should_consider_cache_free(events, level, in_compaction)
  THEN (CachePercent * m.file) \div 100 ELSE 0

(* Mutant: the boost factor raises the cache, not the watermarks.          *)
Breached_cache(m, f, c, w) ==
  IF f + c < m.min_wmark THEN WMARK_MIN
  ELSE IF f + c * w < m.low_wmark THEN WMARK_LOW
  ELSE IF f + c * w < m.high_wmark THEN WMARK_HIGH ELSE WMARK_NONE

(* The lowest watermark above free pages f and cached pages c, with the    *)
(* low and the high one raised by the boost factor w.                      *)
Breached(m, f, c, w) ==
  IF f + c < m.min_wmark THEN WMARK_MIN
  ELSE IF f + c * w < w * m.low_wmark THEN WMARK_LOW
  ELSE IF f + c * w < w * m.high_wmark THEN WMARK_HIGH ELSE WMARK_NONE

get_lowest_watermark(m, w, level, events, in_compaction) ==
  Breached(m, m.nr_free_pages - m.cma_free,
           nr_cached_pages(m, events, level, in_compaction), w)

-----------------------------------------------------------------------------
(* get_free_swap; s is a struct meminfo.                                   *)
get_free_swap(s) ==
  IF swap_compression_ratio > 0 /\ s.easy_available * swap_compression_ratio < s.free_swap
  THEN s.easy_available * swap_compression_ratio ELSE s.free_swap

calc_swap_utilization(s) ==
  LET swap_used       == s.total_swap - get_free_swap(s)
      total_swappable == s.anon + s.shmem + swap_used
  IN  IF total_swappable > 0 THEN (swap_used * 100) \div total_swappable ELSE 0
=============================================================================
