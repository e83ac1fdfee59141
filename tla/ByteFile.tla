------------------------------ MODULE ByteFile ------------------------------
(***************************************************************************)
(* What the file layer promises: a file is a run of bytes that reads give  *)
(* back as writes have left them, up to the offset Kept; what lies past it *)
(* is counted in the size and reads as zero.  What a call does follows     *)
(* from the call, req: a write or a growth that does not fit, and no       *)
(* other, leaves the file as it was, and one that begins past the end, and *)
(* no other, ends the promise, until the file is next emptied.             *)
(***************************************************************************)
EXTENDS Integers

CONSTANTS Kept, MaxSize, Data(_), MaxLen

VARIABLES
    req,       \* the last call
    content,   \* the bytes, numbered from 0
    size,
    got,       \* what the call has read
    sound      \* the promise stands

vars == <<req, content, size, got, sound>>

Nothing == [i \in 0 .. -1 |-> 0]
Upto(n, byte(_)) == [i \in 0 .. n - 1 |-> byte(i)]
Greater(m, n)    == IF m > n THEN m ELSE n

Init ==
    /\ req = [op |-> "create"]
    /\ content = Nothing /\ size = 0 /\ got = Nothing /\ sound = TRUE

Read(off, len) ==
    /\ req' = [op |-> "read", off |-> off, len |-> len]
    /\ LET n == IF off >= size THEN 0
                ELSE IF off + len > size THEN size - off ELSE len
       IN  got' = Upto(n, LAMBDA i : content[off + i])
    /\ UNCHANGED <<content, size, sound>>

Refused(off, len) ==
    /\ off + len > MaxSize
    /\ got' = Nothing
    /\ UNCHANGED <<content, size, sound>>

Put(off, len, data) ==
    /\ off <= size /\ off + len <= MaxSize
    /\ size' = Greater(size, off + len)
    /\ content' = Upto(size', LAMBDA i : IF i >= Kept THEN 0
                                         ELSE IF i \in off .. off + len - 1
                                              THEN data[i - off] ELSE content[i])
    /\ got' = Nothing
    /\ UNCHANGED sound

GiveUp(off, len) == off > size /\ off + len <= MaxSize /\ sound' = FALSE

Write(off, len, data) ==
    /\ req' = [op |-> "write", off |-> off, len |-> len, data |-> data]
    /\ Refused(off, len) \/ Put(off, len, data) \/ GiveUp(off, len)

Prefix(n) ==
    /\ n <= size
    /\ size' = n /\ content' = Upto(n, LAMBDA i : content[i])
    /\ got' = Nothing
    /\ UNCHANGED sound

\* A growth is a write of one zero byte at the new end.
Lengthened(n) ==
    /\ n > size
    /\ Refused(n - 1, 1) \/ Put(n - 1, 1, [i \in {0} |-> 0]) \/ GiveUp(n - 1, 1)

Truncate(n) == req' = [op |-> "truncate", to |-> n] /\ (Prefix(n) \/ Lengthened(n))

Emptied == req' = [op |-> "truncate", to |-> 0]
Recover == Emptied /\ sound' = TRUE /\ size' = 0 /\ content' = Nothing /\ got' = Nothing

Next == \/ /\ sound
           /\ \/ \E len \in 1 .. MaxLen, off \in 0 .. MaxSize :
                     \/ Read(off, len)
                     \/ \E data \in Data(len) : Write(off, len, data)
              \/ \E n \in 0 .. MaxSize + 1 : Truncate(n)
        \/ ~sound /\ (Recover \/ (~Emptied /\ UNCHANGED sound))

Spec == Init /\ [][Next]_vars
=============================================================================
