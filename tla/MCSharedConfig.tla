--------------------------- MODULE MCSharedConfig ---------------------------
(* An instance of SharedConfig for TLC: two settings, changed separately.   *)
EXTENDS SharedConfig

Settings  == {"approval", "members"}
MCSpecs   == [Settings -> BOOLEAN]
MCOptions == {[s \in MCSpecs |-> [s EXCEPT !["approval"] = TRUE]], [s \in MCSpecs |-> [s EXCEPT !["members"] = FALSE]]}
MCBlank   == [s \in Settings |-> FALSE]
=============================================================================
