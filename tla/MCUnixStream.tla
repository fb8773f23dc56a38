---------------------------- MODULE MCUnixStream ----------------------------
(* One AF_UNIX connection for TLC. *)
EXTENDS UnixStream
=============================================================================
