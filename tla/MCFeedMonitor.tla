---------------------------- MODULE MCFeedMonitor ----------------------------
(* Instances of FeedMonitor for TLC.                                           *)
EXTENDS FeedMonitor

MCNumbers == 0..3
=============================================================================
