------------------------------- MODULE MCSession -------------------------------
(***************************************************************************)
(* Session with two plugins, one of which may emit an index out of range,  *)
(* and two querying threads.                                               *)
(***************************************************************************)
EXTENDS Session

CONSTANTS r1, r2, e1, f1, e2, bad

Keeps == <<f1, "flag", TRUE>>
Links == <<e1, "edge", TRUE>>

MCEmissions ==
  <<{<<Links, Keeps>>, <<>>},
    {<<<<e2, "edge", TRUE>>>>, <<<<bad, "edge", FALSE>>>>, <<>>}>>
=============================================================================
