---------------------------- MODULE MCDelegation ----------------------------
(***************************************************************************)
(* Small instances of Delegation for TLC: two machines that delegate to    *)
(* each other, and a group of the second machine's own.                    *)
(***************************************************************************)
EXTENDS Delegation, TLC

CONSTANTS a, b, s1, s2, s3

\* s1 runs on b for a, s2 runs on a for b, s3 is b's own
Owners == (s1 :> a) @@ (s2 :> b) @@ (s3 :> b)
Homes  == (s1 :> b) @@ (s2 :> a) @@ (s3 :> b)

Box(b0) == b0 @@ [k \in Kinds |-> 0]

\* two saves, with a call that times out and a machine that goes away; with
\* that machine back under another discovery id; with a crash
DelegationBounds == {Box([edit |-> 2, cut |-> 1, late |-> 1, pass |-> 1]),
                     Box([edit |-> 2, rename |-> 1, late |-> 1]),
                     Box([edit |-> 2, cut |-> 1, crash |-> 1])}

\* the least the disagreement needs
MoveBounds == {Box([edit |-> 1])}
=============================================================================
