------------------------------ MODULE SourceTree ------------------------------
(***************************************************************************)
(* The sources the analysis reads, as the salsa database sees them: s[f]   *)
(* is the content of file f, Absent when the project has no such file.     *)
(***************************************************************************)
CONSTANTS
  File,    \* every file that may be part of the project
  Absent,  \* the content of a file that does not exist
  Stub     \* the files that are .pyi stubs

Present(s) == {f \in File : s[f] # Absent}

(* A function that TLC computes as a whole, and once: comparing it does.    *)
Table(f) == IF f = f THEN f ELSE f

Differ(s, t) == {f \in File : s[f] # t[f]}
=============================================================================
