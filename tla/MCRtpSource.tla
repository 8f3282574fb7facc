---------------------------- MODULE MCRtpSource ----------------------------
(* Four packets, of every kind, in any order and up to twice: a fragmented *)
(* frame of three packets with a frame before or behind it, an aggregation *)
(* between others, a packet lost or late in each place.  The numbers begin *)
(* at 7 of 10, so that they wrap within the four.  The reader has room for *)
(* two parts, so that a frame of three is cut off.                         *)
EXTENDS RtpSource
=============================================================================
