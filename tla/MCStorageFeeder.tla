-------------------------- MODULE MCStorageFeeder ---------------------------
(* Four items for a storage with room for two records: i1 makes two records, *)
(* i2 is an old format item, i3 raises at its second record and i4 is        *)
(* invalid.  i5 belongs to a device the filter forbids.                      *)
EXTENDS StorageFeeder

CONSTANTS i1, i2, i3, i4, i5

MCRecordsOf == [i \in Items |-> IF i \in {i1, i3} THEN 2 ELSE 1]
MCRaisesAt == [i \in Items |-> IF i = i3 THEN 2 ELSE 0]
=============================================================================
