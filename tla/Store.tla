------------------------------- MODULE Store -------------------------------
(***************************************************************************)
(* What the log promises the layers above it, for as long as it promises   *)
(* anything: a value per file, and a copy of all of them as of the last    *)
(* checkpoint, to which a crash returns (Project_Goal, section 3).  The    *)
(* promise may end at any time (GiveUp), after which nothing is said.      *)
(***************************************************************************)
CONSTANTS Files, Vals, Blank

VARIABLES
    vol,       \* what a read of each file returns now
    dur,       \* what it returns after a crash
    running,   \* the file system is mounted
    sound      \* the promise stands

vars == <<vol, dur, running, sound>>

Values == Vals \cup {Blank}
Init == /\ vol = [f \in Files |-> Blank] /\ dur = vol
        /\ running = FALSE /\ sound = TRUE

Start == ~running /\ running' = TRUE /\ vol' = dur /\ UNCHANGED <<dur, sound>>

Put(f, v) == /\ running
             /\ vol' = [vol EXCEPT ![f] = v]
             /\ UNCHANGED <<dur, running, sound>>

\* an unmount: everything written so far survives from now on
Save == running /\ running' = FALSE /\ dur' = vol /\ UNCHANGED <<vol, sound>>

\* a crash: back to the last Save, for every file at once
Fail == running /\ running' = FALSE /\ vol' = dur /\ UNCHANGED <<dur, sound>>

GiveUp == sound /\ sound' = FALSE

Next == \/ GiveUp
        \/ /\ sound
           /\ \/ Start \/ Save \/ Fail
              \/ \E f \in Files, v \in Vals : Put(f, v)
        \/ ~sound /\ UNCHANGED sound

Spec == Init /\ [][Next]_vars
=============================================================================
