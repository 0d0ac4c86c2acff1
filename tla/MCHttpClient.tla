------------------------------ MODULE MCHttpClient ------------------------------
(***************************************************************************)
(* A small instance of HttpClient: a resource of two blocks, then of none, *)
(* then of one, and calls that resume each other's file.                   *)
(***************************************************************************)
EXTENDS HttpClient

MCSizes == <<2, 0, 1>>
MCTryCounts == {-1, 2}
=============================================================================
