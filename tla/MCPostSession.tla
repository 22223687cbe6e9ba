---------------------------- MODULE MCPostSession ----------------------------
(* PostSession with one or two processes.                                    *)
EXTENDS PostSession
=============================================================================
