------------------------------ MODULE MCLogRolling ------------------------------
(***************************************************************************)
(* A small instance of LogRolling: files of at most two entries, and runs  *)
(* of the program configured for one file of 1 MB or for three of size 1,  *)
(* which Parse reads as the same, or for two of size 50, which it reads as *)
(* 0: every entry then gets a file of its own.                             *)
(***************************************************************************)
EXTENDS LogRolling

MCConfigs ==
    {[size |-> 1, unit |-> "MB", max_file_counts |-> 1],
     [size |-> 1, unit |-> "", max_file_counts |-> 3],
     [size |-> 50, unit |-> "", max_file_counts |-> 2]}
=============================================================================
