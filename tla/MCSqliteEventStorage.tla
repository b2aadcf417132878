------------------------ MODULE MCSqliteEventStorage ------------------------
(* SqliteEventStorage on files of one row, of which two may exist. *)
EXTENDS SqliteEventStorage
=============================================================================
