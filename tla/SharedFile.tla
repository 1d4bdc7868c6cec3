----------------------------- MODULE SharedFile ------------------------------
(***************************************************************************)
(* Two objects alive at once that were parsed from one FileReader, which   *)
(* ParseFile takes as a shared_ptr.  Each ParseFile wraps it in a          *)
(* BufferedFileReader of its own, so that two windows lie over one read    *)
(* position.  A and B are the two parses, each with its objects and its    *)
(* window; the code is sequential, so that a call on the one is over       *)
(* before the other is called.                                             *)
(***************************************************************************)
EXTENDS Integers, Sequences

CONSTANTS
    Byte, FileSize, File, K, Uninit, Positions, Requests, MaxPos,
    Types, Root, Fields, NoType, MaxObjects

VARIABLES
    filePos, ioError,       \* of the shared FileReader
    startA, offsetA, bufferA, usedA, lostA, callA, answerA,
    objsA, pcA, curA, resultA,
    startB, offsetB, bufferB, usedB, lostB, callB, answerB,
    objsB, pcB, curB, resultB

varsA == <<startA, offsetA, bufferA, usedA, lostA, callA, answerA,
           objsA, pcA, curA, resultA>>
varsB == <<startB, offsetB, bufferB, usedB, lostB, callB, answerB,
           objsB, pcB, curB, resultB>>
sharedVars == <<filePos, ioError, varsA, varsB>>

A == INSTANCE FileObjects WITH
         start <- startA, offset <- offsetA, buffer <- bufferA, used <- usedA,
         lost <- lostA, call <- callA, answer <- answerA,
         objs <- objsA, pc <- pcA, cur <- curA, result <- resultA
B == INSTANCE FileObjects WITH
         start <- startB, offset <- offsetB, buffer <- bufferB, used <- usedB,
         lost <- lostB, call <- callB, answer <- answerB,
         objs <- objsB, pc <- pcB, cur <- curB, result <- resultB

SharedInit == A!ObjectsInit /\ B!ObjectsInit

BetweenCalls(pc) == pc \in {"unparsed", "failed", "app"}

NextA == A!ObjectsNext /\ BetweenCalls(pcB) /\ UNCHANGED varsB
NextB == B!ObjectsNext /\ BetweenCalls(pcA) /\ UNCHANGED varsA

SharedNext == NextA \/ NextB

SharedSpec ==
    /\ SharedInit
    /\ [][SharedNext]_sharedVars
    /\ WF_sharedVars(NextA /\ A!Continue)
    /\ WF_sharedVars(NextB /\ B!Continue)
-----------------------------------------------------------------------------
(***************************************************************************)
(* The doc of GetFieldValue, "Gets the value of the given field": what the *)
(* fields of both objects hold is what the file has there.                 *)
(***************************************************************************)
SharedValueCorrect == A!ValueCorrect /\ B!ValueCorrect
=============================================================================
