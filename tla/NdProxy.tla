------------------------------ MODULE NdProxy ------------------------------
(***************************************************************************)
(* What npd6 promises while nothing fails: it listens on the nominated     *)
(* interfaces and answers each Neighbor Solicitation its configuration     *)
(* entitles to an answer with one advertisement; it sends nothing else.    *)
(***************************************************************************)
EXTENDS Promise, Sequences

CONSTANTS Ifaces,     \* the interfaces served
          Frames,     \* what may arrive
          C,          \* the configuration
          NoAdvert

VARIABLES inbox,      \* frames delivered and not yet dealt with, by interface
          out,        \* the last advertisement; bit alternates with each
          running

vars == <<inbox, out, running>>

Init == /\ inbox = [i \in Ifaces |-> <<>>] /\ running = TRUE
        /\ out = [bit |-> 0, na |-> NoAdvert]

\* Which interfaces hear a frame is the network's affair.
Arrive ==
    /\ running
    /\ \E m \in Frames, S \in SUBSET Ifaces :
         inbox' = [i \in Ifaces |-> IF i \in S THEN Append(inbox[i], m) ELSE inbox[i]]
    /\ UNCHANGED <<out, running>>

\* Frames are dealt with in order of arrival, each of them once.
Serve(i) ==
    /\ running /\ inbox[i] # <<>>
    /\ inbox' = [inbox EXCEPT ![i] = Tail(@)]
    /\ out' = IF Entitled(C, i, Head(inbox[i]))
                THEN [bit |-> 1 - out.bit, na |-> Reply(C, i, Head(inbox[i]))] ELSE out
    /\ UNCHANGED running

Stop == /\ running /\ running' = FALSE
        /\ inbox' = [i \in Ifaces |-> <<>>] /\ UNCHANGED out

Next == Arrive \/ (\E i \in Ifaces : Serve(i)) \/ Stop

Spec == Init /\ [][Next]_vars

\* A frame that was delivered is dealt with, unless the proxy stops.
Live == \A i \in Ifaces : WF_vars(Serve(i))
=============================================================================
