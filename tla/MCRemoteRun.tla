---- MODULE MCRemoteRun ----
(* RemoteRun with the users of its cfg file: one waits until a run has begun, *)
(* others type before the page is there, do not wait, or have programs that   *)
(* nothing interrupts.                                                        *)
EXTENDS RemoteRun

MCUsers == {{}, {"deaf"}, {"early"}, {"hurry"}, {"hurry", "press"}}
====
