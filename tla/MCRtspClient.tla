---------------------------- MODULE MCRtspClient ----------------------------
(* Two rtsp_clients with two connections, each opened once (or twice) and   *)
(* closed, and made again at the same address.                              *)
EXTENDS RtspClient
=============================================================================
