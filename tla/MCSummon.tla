------------------------------ MODULE MCSummon ------------------------------
(* Two other windows, two views in the launcher. For the layout: three      *)
(* displays of odd sizes and different DPI, one left of the origin.          *)
EXTENDS Summon, WindowLayout, TLC
MCViews == {"settings", "clipboard"}
MCHeight == [s \in MCViews \cup {"search"} |->
               IF s = "settings" THEN 620 ELSE IF s = "clipboard" THEN 600 ELSE 480]

MCAreas   == {<<0, 0, 9, 7>>, <<9, 1, 26, 12>>, <<-8, 0, 0, 6>>}
MCDpi     == (<<0, 0, 9, 7>> :> 96) @@ (<<9, 1, 26, 12>> :> 144) @@ (<<-8, 0, 0, 6>> :> 192)
MCHandles == {"main", "dialog", "other"}

=============================================================================
