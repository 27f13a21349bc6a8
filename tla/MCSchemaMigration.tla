------------------------ MODULE MCSchemaMigration ------------------------
(***************************************************************************)
(* Values for TLC: files of the first release, of the releases around the   *)
(* version registry and of the one without content_snapshot.                *)
(***************************************************************************)
EXTENDS SchemaMigration

SomeReleases == {0, 8, 14}

===========================================================================
