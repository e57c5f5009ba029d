---- MODULE MCSynthTable ----
(* SynthTable with the bounds of its cfg file. *)
EXTENDS SynthTable
====
