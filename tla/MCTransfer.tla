----------------------------- MODULE MCTransfer -----------------------------
(* Small instances of Transfer.                                              *)
EXTENDS Transfer

CONSTANTS a, b, c

\* Two versions of one size that share a block, a shorter one, and a link.
MCContent == <<[kind |-> "file", data |-> <<a, b>>], [kind |-> "file", data |-> <<a, c>>],
               [kind |-> "file", data |-> <<c>>], [kind |-> "link", data |-> <<b>>]>>

MCBound == [edits |-> 2, passes |-> 2, late |-> 1, faults |-> 1, rare |-> FALSE]

\* A link between two files, and a failed attempt: see LinkThrough.cfg.
LinkContent == <<[kind |-> "file", data |-> <<a>>], [kind |-> "link", data |-> <<b>>],
                 [kind |-> "file", data |-> <<c>>]>>

LinkBound == [edits |-> 2, passes |-> 2, late |-> 0, faults |-> 1, rare |-> FALSE]

\* A file of three pieces, and two requests left running: see TwoGivenUp.cfg.
LongContent == <<[kind |-> "file", data |-> <<c, b, a>>], [kind |-> "file", data |-> <<a, b, c>>]>>

TwoLate == [edits |-> 1, passes |-> 1, late |-> 2, faults |-> 0, rare |-> FALSE]
=============================================================================
