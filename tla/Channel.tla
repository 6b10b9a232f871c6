------------------------------ MODULE Channel -------------------------------
\* What an input device promises: values reach the guest in the order in which
\* they were put in, none twice and none lost, or the emulator stops. A read may
\* also find nothing.
EXTENDS Integers, Sequences

CONSTANTS Values, None, Capacity

VARIABLES q,      \* values put in and not read
          out,    \* what the last read returned
          failed  \* stopped by an assertion

Put(vs) == ~ failed /\ Len(q) + Len(vs) <= Capacity /\ q' = q \o vs /\ UNCHANGED <<out, failed>>
Get == ~ failed /\ q # <<>> /\ out' = Head(q) /\ q' = Tail(q) /\ UNCHANGED failed
GetNothing == ~ failed /\ out' = None /\ UNCHANGED <<q, failed>>
Fail == failed' = TRUE /\ q' = <<>> /\ UNCHANGED out

\* The values put in at once are bounded by the capacity.
Puts == UNION {[1 .. n -> Values] : n \in 1 .. Capacity}

Init == (q = <<>> \/ q \in Puts) /\ out = None /\ failed = FALSE
Next == (\E vs \in Puts : Put(vs)) \/ Get \/ GetNothing \/ Fail
Step == [Next]_<<q, out, failed>>
Spec == Init /\ [][Next]_<<q, out, failed>>
=============================================================================
