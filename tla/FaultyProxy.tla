---------------------------- MODULE FaultyProxy ----------------------------
(***************************************************************************)
(* What is left of the promise when links fail, sends fail, and the        *)
(* configuration is read again at any moment.  A frame may be lost at any  *)
(* time, and answered late, twice or not at all.  But an advertisement     *)
(* still answers what the buffer holds, which is the frame read last       *)
(* unless something else was read over it, and only if the configuration   *)
(* in force when it is sent entitles that to an answer; the same holds of  *)
(* the targets that are collected.                                         *)
(***************************************************************************)
EXTENDS Promise

CONSTANTS Ifaces,      \* the interfaces served
          Frames,      \* what may arrive
          Residue,     \* what the buffer may hold where no frame was read
          BootConfig,  \* the configuration read at startup
          Files,       \* what may be read later: conf, and the settings it sets
          NoAdvert

VARIABLES waiting,     \* the frames that have come and are not read or lost yet
          last,        \* the frame read last
          conf,        \* the configuration in force
          collected,   \* the targets kept
          out,         \* the last advertisement; bit alternates with each
          running

vars == <<waiting, last, conf, collected, out, running>>

Init == /\ waiting = {} /\ last \in Residue
        /\ conf = BootConfig /\ collected = {}
        /\ out = [bit |-> 0, na |-> NoAdvert] /\ running = TRUE

Arrive(m) == /\ UNCHANGED <<last, conf, collected, out, running>>
             /\ waiting' = waiting \cup {m}

Lose == /\ UNCHANGED <<last, conf, collected, out, running>>
        /\ waiting' \subseteq waiting

\* Where two sockets hear a link, a frame that was read may still be waiting.
Read(m) == /\ running /\ last' = m
           /\ UNCHANGED <<conf, collected, out, running>>
           /\ m \in waiting /\ waiting' \subseteq waiting

\* The buffer is used for something else in between.
Overwrite == /\ running /\ last' \in Residue
             /\ UNCHANGED <<conf, collected, out, running>>
             /\ waiting' \subseteq waiting

\* The frame read last is answered on an interface, or its target kept, or both.
Answer(i) ==
    /\ running /\ UNCHANGED <<last, conf, running>>
    /\ Entitled(conf, i, last)
    /\ out' \in {out, [bit |-> 1 - out.bit, na |-> Reply(conf, i, last)]}
    /\ collected' \in {collected, collected \cup {last.target}}
    /\ UNCHANGED waiting

Settings == {"listType", "naRouter", "naLinkOptFlag", "nsIgnoreLocal"}

\* A file is read: the lists take in its entries and lose none, and where it is
\* silent about a setting the one that was in force stays.  The targets kept
\* may be forgotten.
Reconfigure(f) ==
    /\ running
    /\ \A k \in {"prefix", "prefixLen"} : conf'[k] = f.conf[k]
    /\ \A k \in {"lRoot", "exprs"} : conf'[k] = conf[k] \cup f.conf[k]
    /\ \A k \in Settings : conf'[k] = IF k \in f.sets THEN f.conf[k] ELSE conf[k]
    /\ collected' \in {collected, {}} /\ waiting' \subseteq waiting
    /\ UNCHANGED <<last, out, running>>

Stop == /\ running /\ running' = FALSE /\ waiting' \subseteq waiting
        /\ UNCHANGED <<last, conf, collected, out>>

Next == \/ Lose \/ Overwrite \/ Stop
        \/ \E m \in Frames : Arrive(m) \/ Read(m)
        \/ \E i \in Ifaces : Answer(i)
        \/ \E f \in Files : Reconfigure(f)

Spec == Init /\ [][Next]_vars
=============================================================================
