----------------------------- MODULE Watermarks -----------------------------
(***************************************************************************)
(* How mp_event_psi finds the watermarks that are breached.  Between       *)
(* events the kernel counts, per zone type, the pages that reclaim skipped *)
(* because the allocation could not use them (pgskip_* in vmstat).  At an  *)
(* event the handler computes how far the counters moved, remembers them   *)
(* if the system is reclaiming, parses zoneinfo (Zoneinfo.tla) and adds up *)
(* the zones that were not skipped.  The memory may be a different one at  *)
(* every event.                                                            *)
(***************************************************************************)
EXTENDS Zoneinfo, WatermarkLevels

CONSTANTS Configured,       \* zone types the kernel has pgskip counters for
          MglruStatus,      \* possible values of MGLRU_status > 0
          Boost,            \* boost factors
          Debug,            \* debug_process_killing
          MaxSkips          \* bound on the pgskip counters

ASSUME BoostAssumption == Boost \subseteq Nat \ {0}
ASSUME DebugAssumption == Debug \in BOOLEAN /\ MglruStatus \subseteq BOOLEAN /\ MaxSkips \in Nat

(* The order of the pgskip fields of vmstat.                               *)
PgskipZones == <<"DMA", "DMA32", "Normal", "HighMem", "Movable">>
PGSKIP_NORMAL == 3
PGSKIP_MOVABLE == 5
Pgskip == DOMAIN PgskipZones
IdxOf(type) == CHOOSE i \in Pgskip : PgskipZones[i] = type

VARIABLES
  pgskip,        \* the counters of the kernel; -22 for a type it has not
  init_pgskip,   \* static in mp_event_psi
  deltas,        \* pgskip_deltas
  mglru,         \* MGLRU_status > 0, read at start
  zmi,           \* zone_mem_info, as calc_zone_watermarks leaves it
  wbf,           \* wbf_effective at the event
  skipped,       \* zone types skipped since an event last saw reclaim
  excluded       \* skipped, and kswapd, as the last event found them

skip_vars == <<pgskip, init_pgskip, deltas, mglru, skipped, excluded>>
vars == <<parse_vars, skip_vars, zmi, wbf>>

EINVAL == 22

NoSums == [nr_free_pages |-> 0, cma_free |-> 0, file |-> 0,
           high |-> 0, low |-> 0, min |-> 0, protection |-> 0]

NoZones == [sums |-> NoSums, i |-> 1, past |-> FALSE]

Init ==
  /\ ParseInit
  /\ pgskip = [i \in Pgskip |-> IF PgskipZones[i] \in Configured THEN 0 ELSE -EINVAL]
  /\ init_pgskip = [i \in Pgskip |-> 0] /\ deltas = [i \in Pgskip |-> 0]
  /\ mglru \in MglruStatus
  /\ zmi = NoZones /\ wbf = 1
  /\ skipped = {} /\ excluded = [types |-> {}, kswapd |-> FALSE]

-----------------------------------------------------------------------------
(* Reclaim skips pages of zone type t.                                     *)
pages_skipped(t) ==
  /\ loop = "idle" /\ pgskip[IdxOf(t)] < MaxSkips
  /\ pgskip' = [pgskip EXCEPT ![IdxOf(t)] = @ + 1]
  /\ skipped' = skipped \cup {t}
  /\ UNCHANGED <<parse_vars, init_pgskip, deltas, mglru, excluded, zmi, wbf>>

(* How far each counter moved; with MGLRU Normal always counts.            *)
fill_log_pgskip_stats ==
  [i \in Pgskip |-> CASE mglru /\ i = PGSKIP_NORMAL -> 0
                      [] ~(mglru /\ i = PGSKIP_NORMAL) /\ pgskip[i] >= 0 ->
                           pgskip[i] - init_pgskip[i]
                      [] OTHER -> -1]

(* Mutant: the counters are not remembered when kswapd reclaims.           *)
Remembered_direct(reclaim) == reclaim = "DIRECT_RECLAIM"

Remembered(reclaim) == reclaim \in {"DIRECT_RECLAIM", "KSWAPD_RECLAIM"}

(* An event, up to the parsing of zoneinfo, by the reclaim it finds.  In   *)
(* kswapd reclaim with MGLRU Movable is taken to have been skipped.        *)
sample(reclaim) ==
  /\ loop = "idle"
  /\ deltas' = IF reclaim = "KSWAPD_RECLAIM" /\ mglru
               THEN [fill_log_pgskip_stats EXCEPT ![PGSKIP_MOVABLE] = 1]
               ELSE fill_log_pgskip_stats
  /\ init_pgskip' = IF Remembered(reclaim) THEN pgskip ELSE init_pgskip
  /\ skipped' = IF reclaim \in {"DIRECT_RECLAIM", "KSWAPD_RECLAIM"} THEN {} ELSE skipped
  /\ excluded' = [types |-> skipped, kswapd |-> reclaim = "KSWAPD_RECLAIM"]
  /\ reread
  /\ UNCHANGED <<pgskip, mglru, zmi, wbf>>

(* The event is over: it has been decided (KillDecision.tla), or dropped   *)
(* because zoneinfo cannot be parsed.  What it found is gone.              *)
event_over ==
  /\ loop \in {"decide", "failed"} /\ loop' = "idle"
  /\ layout' = <<>> /\ rest' = <<>> /\ zi' = <<>> /\ zone_name' = "" /\ to_match' = 0
  /\ deltas' = [i \in Pgskip |-> 0] /\ zmi' = NoZones /\ wbf' = 1
  /\ excluded' = [types |-> {}, kswapd |-> FALSE]
  /\ UNCHANGED <<pgskip, init_pgskip, mglru, skipped>>

-----------------------------------------------------------------------------
(* get_zone_pgskip_deltas_val: the delta of the counter whose name holds   *)
(* that of the zone, or -2.  "HighMem" is not part of "pgskip_high".       *)
get_zone_pgskip_deltas_val(name, d) ==
  LET match == {i \in Pgskip : PgskipZones[i] = name /\ name # "HighMem"}
  IN  IF match = {} THEN -2 ELSE d[CHOOSE i \in match : TRUE]

(* while (pgskip_deltas[i] < 0) ++i, up to the end of the array.           *)
Advance(d, i) ==
  LET stop == {j \in Pgskip : j >= i /\ d[j] >= 0}
  IN  IF stop = {} THEN Len(PgskipZones) + 1 ELSE Min(stop)

(* With MGLRU only the file cache of zones below their watermark counts.   *)
CacheCounts(z, w) == mglru => z.fields["nr_free_pages"] <= z.fields["high"] * w

Larger(a, b) == IF a > b THEN a ELSE b

(* A zone is added to what calc_zone_watermarks found so far.              *)
AddZone(s, z, w) ==
  LET f == z.fields
  IN  [nr_free_pages |-> s.nr_free_pages + f["nr_free_pages"],
       cma_free |-> s.cma_free + f["nr_free_cma"],
       file |-> IF CacheCounts(z, w)
                THEN s.file + f["nr_zone_inactive_file"] + f["nr_zone_active_file"] ELSE s.file,
       high |-> Larger(s.high, f["high"]), low |-> Larger(s.low, f["low"]),
       min |-> Larger(s.min, f["min"]),
       protection |-> Larger(s.protection, z.max_protection)]

(* One turn of the loop over the zones of a node.  r: [sums, i, past];     *)
(* past: the array of deltas was read past its end, where nothing more is  *)
(* said of the outcome.  Only a zone without a counter of its name takes   *)
(* the delta at i, but logging moves i as well.                            *)
ZoneTurn(d, w, r, z) ==
  LET i     == Advance(d, r.i)
      own   == get_zone_pgskip_deltas_val(z.name, d)
      delta == IF own = -2 THEN d[i] ELSE own
      i1    == IF own = -2 THEN i + 1 ELSE i
      i2    == IF Debug THEN i1 + 1 ELSE i1
  IN  CASE r.past \/ i \notin Pgskip -> [r EXCEPT !.past = TRUE]
        [] ~r.past /\ i \in Pgskip /\ z.fields["present"] = 0 -> [r EXCEPT !.i = i + 1]
        [] OTHER -> [sums |-> IF delta = 0 THEN AddZone(r.sums, z, w) ELSE r.sums,
                     i |-> i2, past |-> Debug /\ i1 \notin Pgskip]

calc_zone_watermarks(nodes, d, w) ==
  FoldLeft(LAMBDA r, n :
             FoldLeft(LAMBDA q, z : ZoneTurn(d, w, q, z), [r EXCEPT !.i = 1], n.zones),
           NoZones, nodes)

(* The watermarks are the largest ones of the zones, raised by the largest *)
(* protection.                                                             *)
Meminfo(s) ==
  [nr_free_pages |-> s.nr_free_pages, cma_free |-> s.cma_free, file |-> s.file,
   min_wmark |-> s.min + s.protection, low_wmark |-> s.low + s.protection,
   high_wmark |-> s.high + s.protection]

update_watermarks(w) ==
  /\ loop = "parsed" /\ loop' = "decide"
  /\ zmi' = calc_zone_watermarks(zi, deltas, w) /\ wbf' = w
  /\ UNCHANGED <<layout, rest, zi, zone_name, to_match, skip_vars>>

Next ==
  \/ \E t \in Configured : pages_skipped(t)
  \/ \E r \in {"NO_RECLAIM", "KSWAPD_RECLAIM", "DIRECT_RECLAIM"} : sample(r)
  \/ ParseNext /\ UNCHANGED <<skip_vars, zmi, wbf>>
  \/ \E w \in Boost : update_watermarks(w)
  \/ event_over

Spec == Init /\ [][Next]_vars

-----------------------------------------------------------------------------
(* What the kernel means.  A node counts if it has memory, from its first  *)
(* populated zone on.                                                      *)
HasMemory(n) == \E i \in DOMAIN n.zones : Populated(n.zones[i])

ZoneMeant(z) ==
  [fields |-> z.fields, name |-> z.name,
   max_protection |-> IF Populated(z) THEN Max(ToSet(z.protection)) ELSE 0]

NodeMeant(n) ==
  LET first == CHOOSE i \in DOMAIN n.zones : IsFirst(n.zones, i)
      zones == SubSeq(n.zones, first, Len(n.zones))
  IN  [id |-> n.id, fields |-> n.fields, zones |-> [i \in DOMAIN zones |-> ZoneMeant(zones[i])]]

NodesMeant == LET nodes == SelectSeq(layout, HasMemory)
              IN  [i \in DOMAIN nodes |-> NodeMeant(nodes[i])]

(* The zones an allocation can use: not skipped since reclaim was last     *)
(* seen.  With MGLRU Normal always counts, and Movable not while kswapd    *)
(* reclaims.                                                               *)
Usable(z) ==
  /\ Populated(z)
  /\ z.name \notin excluded.types \/ (mglru /\ z.name = "Normal")
  /\ ~(mglru /\ excluded.kswapd /\ z.name = "Movable")

UsableZones == {<<n, i>> \in UNION {{n} \X DOMAIN layout[n].zones : n \in DOMAIN layout} :
                  Usable(layout[n].zones[i])}

-----------------------------------------------------------------------------
(* Type invariant.                                                         *)
TypeOK ==
  /\ loop \in {"idle", "file", "node", "zone", "parsed", "failed", "decide"}
  /\ Len(zi) <= MAX_NR_NODES /\ to_match \in 0..Cardinality(NodeFields)
  /\ \A i \in Pgskip : deltas[i] \in -1..MaxSkips
  /\ Meminfo(zmi.sums) \in ZoneMeminfo

(* zoneinfo_parse reads the file of any layout whose last node has memory, *)
(* with no more nodes with memory than there is room for, and finds every  *)
(* node and zone with its own values and its own name.                     *)
ParsedFaithfully ==
  /\ loop = "failed" => \/ ~HasMemory(Last(layout))
                        \/ Len(SelectSeq(layout, HasMemory)) > MAX_NR_NODES
  /\ loop = "parsed" => zi = NodesMeant

(* The parse only fails on a layout with more nodes than there is room     *)
(* for.                                                                    *)
MemorylessParsed == loop = "failed" => Len(layout) > MAX_NR_NODES

(* The array of deltas is never read past its end, however many zones of a *)
(* node are empty.                                                         *)
DeltasInBounds == ~zmi.past

(* calc_zone_watermarks counts every populated zone that allocations could *)
(* use since reclaim was last seen and no other, whatever zones are        *)
(* missing or empty and however often reclaim came and went; a zone's      *)
(* cache with MGLRU only if the zone is below its boosted watermark.  The  *)
(* state has its types, and the array of deltas is not read past its end.  *)
ZonesCounted ==
  /\ TypeOK /\ DeltasInBounds
  /\ loop = "decide" =>
       LET Sum(f(_)) == FoldSet(LAMBDA p, t : t + f(layout[p[1]].zones[p[2]]), 0, UsableZones)
           Largest(f(_)) == Max({0} \cup {f(layout[p[1]].zones[p[2]]) : p \in UsableZones})
           CacheOf(z) == IF mglru /\ z.fields["nr_free_pages"] > wbf * z.fields["high"] THEN 0
                         ELSE z.fields["nr_zone_inactive_file"] + z.fields["nr_zone_active_file"]
       IN  Meminfo(zmi.sums) =
             [nr_free_pages |-> Sum(LAMBDA z : z.fields["nr_free_pages"]),
              cma_free |-> Sum(LAMBDA z : z.fields["nr_free_cma"]), file |-> Sum(CacheOf),
              min_wmark |-> Largest(LAMBDA z : z.fields["min"])
                            + Largest(LAMBDA z : Max(ToSet(z.protection))),
              low_wmark |-> Largest(LAMBDA z : z.fields["low"])
                            + Largest(LAMBDA z : Max(ToSet(z.protection))),
              high_wmark |-> Largest(LAMBDA z : z.fields["high"])
                             + Largest(LAMBDA z : Max(ToSet(z.protection)))]

Judged(w, level, events, c) ==
  get_lowest_watermark(Meminfo(calc_zone_watermarks(zi, deltas, w).sums), w, level, events, c)

(* A larger boost factor never hides a breached watermark.                 *)
BoostFindsMore ==
  loop = "decide" =>
    \A w \in Boost, l \in Level, e, c \in BOOLEAN :
      w <= wbf => Judged(wbf, l, e, c) <= Judged(w, l, e, c)

(* The same where it holds: without MGLRU, which lets the boost factor     *)
(* also decide whose cache counts as free.                                 *)
BoostFindsMorePlain == ~mglru => BoostFindsMore
=============================================================================
