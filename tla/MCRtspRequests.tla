-------------------------- MODULE MCRtspRequests --------------------------
(* Three requests: two can be on their way while a handler issues the      *)
(* third, and one can wait for a new connection while another is resumed   *)
(* or failed.  Servers with a quirk are asked two.  One answer may make    *)
(* the client ask again, which renumbers a request behind a younger one.   *)
(* Four parts fill the buffer: two answers in two pieces each.             *)
EXTENDS RtspRequests
=============================================================================
