---------------------------- MODULE MCWatermarks ----------------------------
(* Watermarks.tla for TLC: one to three nodes with the zones DMA32, Normal *)
(* and Movable, each full, nearly full, mostly free or empty.              *)
EXTENDS Watermarks

Zone(name, present, free, cma, min, low, high, inactive, active, protection) ==
  [name |-> name, protection |-> protection,
   fields |-> [nr_free_pages |-> free, min |-> min, low |-> low, high |-> high,
               present |-> present, nr_free_cma |-> cma,
               nr_zone_inactive_file |-> inactive, nr_zone_active_file |-> active]]

Small(name) == Zone(name, 8, 2, 1, 1, 2, 4, 3, 1, <<0, 2, 1>>)
Big(name)   == Zone(name, 20, 9, 0, 2, 3, 6, 4, 2, <<0, 0, 0>>)
Empty(name) == Zone(name, 0, 0, 0, 0, 0, 0, 0, 0, <<0, 0, 0>>)

Of(name) == {Small(name), Big(name), Empty(name)}

Node(id, zones) ==
  [id |-> id, zones |-> zones,
   fields |-> [nr_inactive_file |-> id + 1, nr_active_file |-> id + 2]]

MCOne == {<<Node(0, <<a, b, c>>)>> : a \in Of("DMA32"), b \in Of("Normal"), c \in Of("Movable")}

Full       == <<Small("DMA32"), Big("Normal"), Small("Movable")>>
Upper      == <<Empty("DMA32"), Small("Normal"), Empty("Movable")>>
Top        == <<Empty("DMA32"), Empty("Normal"), Big("Movable")>>
Memoryless == <<Empty("DMA32"), Empty("Normal"), Empty("Movable")>>

MCTwo == {<<Node(0, a), Node(1, b)>> : a, b \in {Full, Upper, Top, Memoryless}}
MCThree == {<<Node(0, Full), Node(1, Memoryless), Node(2, Top)>>,
            <<Node(0, Full), Node(1, Upper), Node(2, Top)>>}
MCDevice == {<<Node(0, Append(zones, Empty("Device")))>> : zones \in {Full, Upper, Top}}

MCLayouts == MCOne \cup MCTwo \cup MCThree \cup MCDevice

(* A zone above its own watermark, below it with what it has to reserve.   *)
MCProtected == {<<Node(0, <<Zone("Normal", 30, 6, 0, 1, 2, 4, 8, 8, <<0, 5>>), Empty("Movable")>>)>>}

(* A 32-bit kernel.                                                        *)
MCHighMem == {<<Node(0, <<Small("Normal"), Big("HighMem"), Empty("Movable")>>)>>}
=============================================================================
