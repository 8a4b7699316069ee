--------------------------- MODULE AtomicReplace ---------------------------
(***************************************************************************)
(* What the transfer protocol promises to a reader of the destination.     *)
(* The file at the final path is absent or, whole, one of the versions     *)
(* that were sent; a transfer is reported as done only when the version it *)
(* was started for is there.  Only a transfer during which a request runs  *)
(* that its sender has given up may see the file disturbed, and even then  *)
(* the file is never taken for a version it is not (it Differs).           *)
(***************************************************************************)
CONSTANTS Ver, Absent, Differs

VARIABLES
    file,      \* what a comparison with the source's manifests makes of the file
    sending,   \* the version the running or last transfer was started for
    state,     \* of that transfer: idle, busy, ok, changing, failed
    late       \* a request given up was running during this transfer

vars == <<file, sending, state, late>>

Init ==
    /\ file \in Ver \cup {Absent}
    /\ sending \in Ver
    /\ state = "idle"
    /\ late = FALSE

Begin ==
    /\ state # "busy"
    /\ sending' \in Ver
    /\ state' = "busy"
    /\ late' \in {late, FALSE}
    /\ UNCHANGED file

\* Absent is seen for a moment when a file replaces a link.
Replace ==
    /\ state = "busy"
    /\ file' \in {sending, Absent}
    /\ UNCHANGED <<sending, state, late>>

Disturb ==
    /\ late
    /\ file' \in Ver \cup {Absent, Differs}
    /\ UNCHANGED <<sending, state, late>>

GiveUp ==
    /\ state = "busy"
    /\ late' = TRUE
    /\ state' \in {"busy", "changing", "failed"}
    /\ UNCHANGED <<file, sending>>

Report ==
    /\ state = "busy"
    /\ state' \in {"ok", "changing", "failed"}
    /\ state' = "ok" => file = sending \/ late
    /\ UNCHANGED <<file, sending, late>>

Next == Begin \/ Replace \/ Disturb \/ GiveUp \/ Report

Spec == Init /\ [][Next]_vars
=============================================================================
