------------------------------- MODULE Names -------------------------------
(***************************************************************************)
(* What the directory layer promises about names: entries that appear,     *)
(* vanish and move one at a time and never two of one name in a directory; *)
(* a clean unmount saves all of them and a crash returns to the saved ones *)
(* (Project_Goal, section 3).  Renaming onto a name in use ends the        *)
(* promise.                                                                *)
(***************************************************************************)
CONSTANTS Inums, NameSet

VARIABLES
    vol,       \* the entries there are: directory, name, inode
    dur,       \* those a crash returns to
    running,   \* the file system is mounted
    sound      \* the promise stands

vars    == <<vol, dur, running, sound>>
Entries == [dir : Inums, name : NameSet, inum : Inums]

Taken(d, n) == \E e \in vol : e.dir = d /\ e.name = n

Init == vol = {} /\ dur = {} /\ running = FALSE /\ sound = TRUE

Start == ~running /\ running' = TRUE /\ vol' = dur /\ UNCHANGED <<dur, sound>>

Add == /\ running
       /\ \E e \in Entries : ~Taken(e.dir, e.name) /\ vol' = vol \cup {e}
       /\ UNCHANGED <<dur, running, sound>>

Remove == /\ running
          /\ \E e \in vol : vol' = vol \ {e}
          /\ UNCHANGED <<dur, running, sound>>

Move == /\ running
        /\ \E e \in vol : \E x \in Entries :
               /\ x.inum = e.inum /\ ~Taken(x.dir, x.name)
               /\ vol' = (vol \ {e}) \cup {x}
        /\ UNCHANGED <<dur, running, sound>>

Save == running /\ running' = FALSE /\ dur' = vol /\ UNCHANGED <<vol, sound>>

Fail == running /\ running' = FALSE /\ vol' = dur /\ UNCHANGED <<dur, sound>>

GiveUp == sound /\ sound' = FALSE

Next == \/ GiveUp
        \/ sound /\ (Start \/ Add \/ Remove \/ Move \/ Save \/ Fail)
        \/ ~sound /\ UNCHANGED sound

Spec == Init /\ [][Next]_vars
=============================================================================
