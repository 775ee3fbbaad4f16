----------------------------- MODULE MCLocalPath -----------------------------
(* Inputs of up to three elements over a, etc, ".", "..", "" and "a..b",  *)
(* absolute or relative, against the base directory /srv/data.            *)
EXTENDS LocalPath

MCElems == {"a", "etc", ".", "..", "", "a..b"}
MCDotDot == {"..", "a..b"}
MCSensitive == {"etc"}
MCBase == <<"srv", "data">>
=============================================================================
