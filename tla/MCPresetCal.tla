---------------------------- MODULE MCPresetCal ----------------------------
(* PresetCal on a small cluster: the caller's namespace sorts between two   *)
(* others, and one preset is called like it.                                *)
EXTENDS PresetCal

MCNamespaces == {1, 2, 3}
MCNames == {2, 4}
MCRefs == {Cluster, 2}
=============================================================================
