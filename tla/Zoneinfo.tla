------------------------------ MODULE Zoneinfo ------------------------------
(***************************************************************************)
(* zoneinfo_parse: the three nested loops that read /proc/zoneinfo and     *)
(* share one position in it, line by line.  A line is a record: the header *)
(* of a zone, a named value, the protection of a zone, the line "pagesets" *)
(* that ends what is of interest of a zone, or some other line.            *)
(*                                                                         *)
(* The file is what the kernel prints for a memory layout: a sequence of   *)
(* nodes, each a sequence of zones.  A zone that is not populated has no   *)
(* lines after its protection, and the per-node values are printed with    *)
(* the first populated zone of the node.                                   *)
(***************************************************************************)
EXTENDS Integers, SequencesExt

CONSTANTS Layouts,         \* memory layouts: sequences of [id, fields, zones]
          MAX_NR_NODES

ASSUME NodesAssumption == MAX_NR_NODES \in Nat

ZoneFields == {"nr_free_pages", "min", "low", "high", "present", "nr_free_cma",
               "nr_zone_inactive_file", "nr_zone_active_file"}
NodeFields == {"nr_inactive_file", "nr_active_file"}

VARIABLES
  layout,     \* the memory of the machine
  rest,       \* the lines not read yet
  loop,       \* the loop that reads the next line, or "parsed", "failed", "idle"
  zi,         \* the nodes found, each [id, fields, zones], the last being filled
  zone_name,  \* name in the last header
  to_match    \* fields_to_match of zoneinfo_parse_node

parse_vars == <<layout, rest, loop, zi, zone_name, to_match>>

-----------------------------------------------------------------------------
(* The file.                                                               *)
Header(id, name) == [k |-> "header", id |-> id, name |-> name]
Field(name, v) == [k |-> "field", name |-> name, v |-> v]
Protection(values) == [k |-> "protection", values |-> values]
Pagesets == [k |-> "pagesets"]
Other == [k |-> "other"]

Populated(z) == z.fields["present"] # 0

ZoneLines(n, z, first) ==
  LET F(name) == Field(name, z.fields[name])
  IN  <<Header(n.id, z.name)>>
      \o (IF first THEN <<Other, Field("nr_inactive_file", n.fields["nr_inactive_file"]),
                         Field("nr_active_file", n.fields["nr_active_file"])>>
          ELSE <<>>)
      \o <<Other, F("min"), F("low"), F("high"), F("present"), Protection(z.protection)>>
      \o (IF Populated(z)
          THEN <<F("nr_free_pages"), F("nr_zone_inactive_file"), F("nr_zone_active_file"),
                 F("nr_free_cma"), Pagesets, Other>>
          ELSE <<>>)

IsFirst(zones, i) == Populated(zones[i]) /\ \A j \in 1..(i - 1) : ~Populated(zones[j])

File(nodes) ==
  FlattenSeq([n \in DOMAIN nodes |->
    FlattenSeq([i \in DOMAIN nodes[n].zones |->
      ZoneLines(nodes[n], nodes[n].zones[i], IsFirst(nodes[n].zones, i))])])

-----------------------------------------------------------------------------
NoZone == [fields |-> [f \in ZoneFields |-> 0], max_protection |-> 0, name |-> ""]

ParseInit ==
  /\ layout = <<>> /\ rest = <<>> /\ loop = "idle"
  /\ zi = <<>> /\ zone_name = "" /\ to_match = 0

(* zoneinfo_parse clears what it found before and reads the file again.    *)
reread ==
  /\ layout' \in Layouts /\ rest' = File(layout')
  /\ loop' = "file" /\ zi' = <<>> /\ zone_name' = "" /\ to_match' = 0

Line == Head(rest)
Reading(in) == loop = in /\ rest # <<>>
node == Len(zi)
zone == Len(zi[node].zones)

(* Mutant: the name found while looking for a populated zone is not used.  *)
NameAfter_first == IF Line.k = "header" /\ loop = "file" THEN Line.name ELSE zone_name

(* A header sets zone_name in the loop over the file, and in the one over  *)
(* the per-node values.                                                    *)
NameAfter == IF Line.k = "header" THEN Line.name ELSE zone_name

(* The loop of zoneinfo_parse.  A header of another node starts a node,    *)
(* one of the same node its next zone.                                     *)
zoneinfo_parse ==
  /\ Reading("file")
  /\ rest' = Tail(rest) /\ zone_name' = NameAfter
  /\ LET same == node > 0 /\ zi[node].id = Line.id
     IN  CASE Line.k # "header" -> UNCHANGED <<loop, zi, to_match>>
           [] Line.k = "header" /\ same ->
                /\ zi' = [zi EXCEPT ![node].zones = Append(@, NoZone)]
                /\ loop' = "zone" /\ UNCHANGED to_match
           [] Line.k = "header" /\ ~same /\ node < MAX_NR_NODES ->
                /\ zi' = Append(zi, [id |-> Line.id, zones |-> <<>>,
                                  fields |-> [f \in NodeFields |-> 0]])
                /\ loop' = "node" /\ to_match' = Cardinality(NodeFields)
           [] OTHER -> loop' = "failed" /\ UNCHANGED <<zi, to_match>>
  /\ UNCHANGED layout

(* The loop of zoneinfo_parse_node: zones that are not populated are       *)
(* passed over until the per-node values are found.                        *)
zoneinfo_parse_node ==
  /\ Reading("node")
  /\ rest' = Tail(rest) /\ zone_name' = NameAfter
  /\ CASE Line.k = "header" ->
            zi' = [zi EXCEPT ![node].id = Line.id] /\ UNCHANGED <<loop, to_match>>
       [] Line.k = "pagesets" -> loop' = "failed" /\ UNCHANGED <<zi, to_match>>
       [] Line.k = "field" /\ Line.name \in NodeFields ->
            LET stored == [zi EXCEPT ![node].fields[Line.name] = Line.v]
            IN  /\ to_match' = to_match - 1
                /\ IF to_match = 1
                   THEN loop' = "zone" /\ zi' = [stored EXCEPT ![node].zones = <<NoZone>>]
                   ELSE zi' = stored /\ UNCHANGED loop
       [] OTHER -> UNCHANGED <<loop, zi, to_match>>
  /\ UNCHANGED layout

(* zoneinfo_parse_protection.                                              *)
MaxProtection(values) == Max(ToSet(values) \cup {0})

(* The zone is complete: zoneinfo_parse gives it its name.                 *)
Complete(z) == [zi EXCEPT ![node].zones[zone] = [z EXCEPT !.name = zone_name]]

(* The loop of zoneinfo_parse_zone.                                        *)
zoneinfo_parse_zone ==
  LET z == zi[node].zones[zone]
      Store(y) == zi' = [zi EXCEPT ![node].zones[zone] = y]
  IN  /\ Reading("zone")
      /\ rest' = Tail(rest)
      /\ CASE Line.k = "pagesets" -> zi' = Complete(z) /\ loop' = "file"
           [] Line.k = "protection" ->
                Store([z EXCEPT !.max_protection = MaxProtection(Line.values)]) /\ UNCHANGED loop
           [] Line.k = "field" /\ Line.name \in ZoneFields ->
                LET y == [z EXCEPT !.fields[Line.name] = Line.v]
                IN  IF Line.name = "present" /\ Line.v = 0
                    THEN zi' = Complete(y) /\ loop' = "file"
                    ELSE Store(y) /\ UNCHANGED loop
           [] OTHER -> UNCHANGED <<zi, loop>>
      /\ UNCHANGED <<layout, zone_name, to_match>>

(* The file ends: all zones are complete, or the parse fails.              *)
file_ends ==
  /\ loop \in {"file", "node", "zone"} /\ rest = <<>>
  /\ loop' = IF loop = "file" /\ node > 0 THEN "parsed" ELSE "failed"
  /\ UNCHANGED <<layout, rest, zi, zone_name, to_match>>

-----------------------------------------------------------------------------
ParseNext == zoneinfo_parse \/ zoneinfo_parse_node \/ zoneinfo_parse_zone \/ file_ends
=============================================================================
