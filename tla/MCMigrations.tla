---------------------------- MODULE MCMigrations ----------------------------
(* Migrations with an organizer of up to two migrations: one after the     *)
(* other, or a second one that also goes straight from nothing, each for   *)
(* any range of server versions.                                           *)
EXTENDS Migrations

Ranges == {<<lo, hi>> \in (0 .. 2) \X (0 .. 2) : lo <= hi}
Server(r) == Dep("server", IF r[1] = 0 THEN None ELSE r[1], r[2])

First(r) == Migration("organizer", 1, {Server(r), Dep("organizer", None, 0)})
Second(r, min) ==
    Migration("organizer", 2, {Server(r), Dep("organizer", min, 1)})

OrganizerGraphs ==
    {{}} \cup {{First(r)} : r \in Ranges}
    \cup {{First(r), Second(q, min)} : r \in Ranges, q \in Ranges, min \in {1, None}}
=============================================================================
