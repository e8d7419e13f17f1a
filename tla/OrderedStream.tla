---------------------------- MODULE OrderedStream ----------------------------
(***************************************************************************)
(* What the send() of a TCP endpoint promises: messages, numbered in the   *)
(* order in which they are accepted, come out in that order until the      *)
(* stream goes down, which is for good.  Accepting goes on regardless: a   *)
(* caller that has passed the is_open() test learns nothing more.          *)
(***************************************************************************)
EXTENDS Naturals, Sequences

VARIABLES
    accepted,   \* messages accepted so far
    out,        \* messages that came out
    up          \* the stream has not failed

streamVars == <<accepted, out, up>>

StreamInit == accepted = 0 /\ out = <<>> /\ up = TRUE

Accept ==
    /\ accepted' = accepted + 1
    /\ UNCHANGED <<out, up>>

\* Some more of the accepted messages come out.
OutUpTo(n) == out' = [i \in 1 .. n |-> i]

Transmit ==
    /\ up
    /\ \E n \in Len(out) + 1 .. accepted : OutUpTo(n)
    /\ UNCHANGED <<accepted, up>>

\* The stream fails, perhaps after a last few messages.
Break ==
    /\ up
    /\ up' = FALSE
    /\ \E n \in Len(out) .. accepted : OutUpTo(n)
    /\ UNCHANGED accepted

StreamNext == Accept \/ Transmit \/ Break

Spec == StreamInit /\ [][StreamNext]_streamVars
=============================================================================
