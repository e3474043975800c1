------------------------------ MODULE MCCrawler -----------------------------
(* Small instances of Crawler: the pauses of the two kinds of counters. *)
EXTENDS Crawler

CONSTANT FindPause, InfoPause

MCFrequency == [k \in Kinds |-> IF k = "find" THEN FindPause ELSE InfoPause]
=============================================================================
