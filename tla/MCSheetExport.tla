--------------------------- MODULE MCSheetExport ---------------------------
(* Small instances of SheetExport.  User 1, whom every run serves first,   *)
(* has one spreadsheet; user 2 has two, and may be moved between them.     *)
EXTENDS SheetExport
CONSTANTS t1, t2, t3, s1, s2, s3, r1, r2
MCOwner == [t \in Tx |-> IF t = t1 THEN 1 ELSE 2]
MCHolder == [s \in Sheet |-> IF s = s1 THEN 1 ELSE 2]
=============================================================================
