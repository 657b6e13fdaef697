------------------------------ MODULE MCProgress ------------------------------
(***************************************************************************)
(* ProgressPoller over an incremental build: two files, one of them dirty, *)
(* two plugins.                                                            *)
(***************************************************************************)
EXTENDS ProgressPoller

MCTotal == <<2, 1, 2, 1, 2>>
MCWork  == <<2, 1, 1, 1, 2>>
=============================================================================
