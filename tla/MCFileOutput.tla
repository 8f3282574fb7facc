---------------------------- MODULE MCFileOutput ----------------------------
(* Two lines to a file and four records: two files fill, in one second or    *)
(* in several, and the clock runs on until a file is more than a day old.    *)
(* The process starts again as often as it likes.  Numbers are written in    *)
(* base 3 and padded to one digit: the file after "2" is "10", which sorts   *)
(* before it, as "10000" does before "9999".                                 *)
EXTENDS FileOutput
=============================================================================
