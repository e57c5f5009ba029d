---- MODULE MCLeapSession ----
(* LeapSession with the users of its cfg files.  One waits for nothing and    *)
(* has no luck; one waits, and its summaries succeed; one waits for nothing   *)
(* and handles completion comments; one only toggles and escapes too early.   *)
EXTENDS LeapSession

Bounds(who, asks, types) == [overlaps |-> who.overlaps, fails |-> who.fails,
                             tampers |-> who.tampers, asks |-> asks, types |-> types]

Hasty     == [overlaps |-> RequestKinds, fails |-> RequestKinds, tampers |-> FALSE]
Waiting   == [overlaps |-> {}, fails |-> RequestKinds \ {"summary"}, tampers |-> FALSE]
Tampering == [overlaps |-> RequestKinds, fails |-> RequestKinds, tampers |-> TRUE]
Early     == [overlaps |-> {"complete"}, fails |-> {}, tampers |-> FALSE]

MCUsers == {Bounds(Hasty, 4, 2), Bounds(Hasty, 3, 3), Bounds(Waiting, 5, 2),
            Bounds(Waiting, 4, 3), Bounds(Tampering, 3, 3)}

MCEscapers == {Bounds(Early, 3, 1)}
====
