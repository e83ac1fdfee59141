----------------------------- MODULE InodeTable -----------------------------
(***************************************************************************)
(* What the directory layer takes the ifile for: a table of inodes in      *)
(* three generations, in memory, in the log and as of the last checkpoint. *)
(* An operation changes inodes in memory as it likes and copies some of    *)
(* them, whole, to the log; no inode in the log changes in any other way.  *)
(***************************************************************************)
EXTENDS Integers

CONSTANTS Inums, Images, NoInode

VARIABLES
    mem, log, saved,   \* the three generations
    running,           \* the file system is mounted
    sound              \* the promise stands

vars == <<mem, log, saved, running, sound>>

Blank == [i \in Inums |-> NoInode]

Init == /\ mem = Blank /\ log = Blank /\ saved = Blank
        /\ running = FALSE /\ sound = TRUE

\* The last checkpoint comes back; the first start makes the root.
Start == /\ ~running /\ running' = TRUE
         /\ \/ log' = saved
            \/ saved = Blank /\ \E x \in Images : log' = [Blank EXCEPT ![0] = x]
         /\ mem' = log'
         /\ UNCHANGED <<saved, sound>>

Operate == /\ running
           /\ \A i \in Inums : log'[i] \in {log[i], mem'[i]}
           /\ UNCHANGED <<saved, running, sound>>

Stop == running /\ running' = FALSE /\ mem' = Blank /\ log' = Blank /\ UNCHANGED sound
Save == Stop /\ saved' = log
Fail == Stop /\ UNCHANGED saved

GiveUp == sound /\ sound' = FALSE

Next == \/ GiveUp
        \/ sound /\ (Start \/ Operate \/ Save \/ Fail)
        \/ ~sound /\ UNCHANGED sound

Spec == Init /\ [][Next]_vars
=============================================================================
