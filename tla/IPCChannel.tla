----------------------------- MODULE IPCChannel -----------------------------
(***************************************************************************)
(* What the message service promises for one direction between two users   *)
(* of a channel, whatever carries the messages: they are processed in the  *)
(* order in which they were sent, some may be missing, and none is         *)
(* processed twice, except the one whose processing a restart cut short.   *)
(*                                                                         *)
(* Messages are named by their place in the order of the calls of send.    *)
(***************************************************************************)
EXTENDS Naturals, Sequences

VARIABLES
    sent,   \* how many messages were handed to send
    seen,   \* the messages the receiver's processor was called with, in order
    redo    \* a message that may be processed once more, 0 if there is none

channelVars == <<sent, seen, redo>>

Latest(s) == IF s = <<>> THEN 0 ELSE s[Len(s)]

Init == sent = 0 /\ seen = <<>> /\ redo = 0

Send ==
    /\ sent' = sent + 1
    /\ UNCHANGED <<seen, redo>>

\* A later message is processed; the ones skipped are lost.
Process ==
    /\ \E m \in Latest(seen) + 1 .. sent : seen' = Append(seen, m)
    /\ redo' = 0
    /\ UNCHANGED sent

\* The receiver stops after the processor returned and before it recorded so.
Restart ==
    /\ seen # <<>>
    /\ redo' = Latest(seen)
    /\ UNCHANGED <<sent, seen>>

ProcessAgain ==
    /\ redo # 0
    /\ seen' = Append(seen, redo)
    /\ redo' = 0
    /\ UNCHANGED sent

Next == Send \/ Process \/ Restart \/ ProcessAgain

Spec == Init /\ [][Next]_channelVars
=============================================================================
