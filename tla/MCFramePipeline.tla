-------------------------- MODULE MCFramePipeline --------------------------
(* Instances of FramePipeline for TLC: the packet kinds of each run.         *)
EXTENDS FramePipeline

GoodKinds == {"store", "split", "splitTimeout"}
=============================================================================
