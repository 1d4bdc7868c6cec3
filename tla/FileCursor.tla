----------------------------- MODULE FileCursor -----------------------------
(***************************************************************************)
(* What BufferedFileReader promises its client, with no buffer and no      *)
(* FileReader: a bit position in a constant file, and a number of bytes     *)
(* from that position on that can be had without another read.  Anything   *)
(* that goes wrong in the file below is an answer that is not ok; a seek   *)
(* that is not ok leaves the cursor lost, and a lost cursor promises       *)
(* nothing of the bytes it hands out until a seek finds the file again.    *)
(***************************************************************************)
EXTENDS Size, Sequences

CONSTANTS K, FileSize, File, Positions, Requests

VARIABLES
    pos,        \* the read position, in bits
    ahead,      \* the bytes from the one under pos on that are buffered
    lost,       \* a seek failed and none has found the file since
    answer      \* what the last call returned

cursorVars == <<pos, ahead, lost, answer>>

Answers(op, ok, bytes) == answer' = [op |-> op, ok |-> ok, bytes |-> bytes]

\* Nothing is buffered from beyond the end of the file.
WithinFile(p, n) == n = 0 \/ ByteCount(p) + n <= FileSize

CursorInit ==
    /\ pos = 0
    /\ ahead = 0
    /\ lost = FALSE
    /\ answer = [op |-> "none", ok |-> TRUE, bytes |-> <<>>]

\* A call begins: the last answer is no longer valid.
Call ==
    /\ Answers("none", TRUE, <<>>)
    /\ UNCHANGED <<pos, ahead, lost>>

\* More is buffered, unseen by the client.
Prefetch ==
    /\ ahead' \in ahead .. K
    /\ ~lost => WithinFile(pos, ahead')
    /\ UNCHANGED <<pos, lost, answer>>

\* A seek or a skip lands where it was told to.
Move(p) ==
    /\ pos' = p
    /\ \/ Answers("seek", TRUE, <<>>) /\ lost' \in {lost, FALSE}
       \/ Answers("seek", FALSE, <<>>) /\ lost' = TRUE /\ ahead' = 0
    /\ ahead' \in 0 .. K
    /\ ~lost' => WithinFile(p, ahead')

\* Enough is buffered for the request, or all there is.
Ensure(need) ==
    /\ Answers("ensure", TRUE, <<>>)
    /\ \/ BitOffset(pos) + need <= FromBytes(ahead)
       \/ ByteCount(pos) + ahead >= FileSize
       \/ BitOffset(pos) + need > FromBytes(K)
       \/ lost
    /\ UNCHANGED <<pos, ahead, lost>>

\* The bytes of the file at pos: some, unless pos is past the last one.
Get ==
    /\ answer'.op = "get" /\ answer'.ok
    /\ Len(answer'.bytes) = ahead
    /\ ~lost => /\ \A i \in 1 .. ahead :
                      answer'.bytes[i] = File[ByteCount(pos) + i - 1]
                /\ ahead = 0 => ByteCount(pos) >= FileSize
    /\ UNCHANGED <<pos, ahead, lost>>

\* The file could not be read; the position and what was buffered remain.
Fail(op) ==
    /\ Answers(op, FALSE, <<>>)
    /\ UNCHANGED <<pos, ahead, lost>>

CursorNext ==
    \/ Call
    \/ Prefetch
    \/ \E p \in Positions \cup {pos + count : count \in Requests} : Move(p)
    \/ \E need \in Requests : Ensure(need)
    \/ Get
    \/ \E op \in {"ensure", "get"} : Fail(op)

CursorSpec == CursorInit /\ [][CursorNext]_cursorVars
=============================================================================
