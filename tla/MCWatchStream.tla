---------------------------- MODULE MCWatchStream ---------------------------
(* WatchStream with a channel that the watch can fill.                     *)
EXTENDS WatchStream
=============================================================================
