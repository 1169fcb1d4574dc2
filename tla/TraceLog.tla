------------------------------- MODULE TraceLog -------------------------------
(***************************************************************************)
(* What a trace promises to who reads it: a log to which records are added *)
(* one by one, of which a growing part is written.  What is written never  *)
(* changes, nothing is lost, repeated or put in another order.  A          *)
(* description (the name of a process, a thread or a queue) is written at  *)
(* once, before the records that are still to be written.  Closing writes  *)
(* what is left, and an end mark after it.                                 *)
(***************************************************************************)
EXTENDS Naturals, Sequences

CONSTANTS Records, Descriptions, Header, End

VARIABLES
    log,      \* all records and descriptions in the order of the file
    written,  \* how many of them are in the file
    open      \* the file is not closed

vars == <<log, written, open>>

Init ==
    /\ log = Header
    /\ written = Len(Header)
    /\ open = TRUE

\* A record joins the log; some of the log may be written.
Add ==
    /\ open
    /\ \E r \in Records : log' = Append(log, r)
    /\ written' \in written .. Len(log')
    /\ open' = open

\* A description goes straight to the file.
Describe ==
    /\ open
    /\ \E d \in Descriptions :
          log' = SubSeq(log, 1, written) \o <<d>> \o SubSeq(log, written + 1, Len(log))
    /\ written' = written + 1
    /\ open' = open

Write ==
    /\ open
    /\ written' = Len(log)
    /\ UNCHANGED <<log, open>>

Close ==
    /\ open
    /\ log' = Append(log, End)
    /\ written' = Len(log')
    /\ open' = FALSE

Next == Add \/ Describe \/ Write \/ Close

Spec == Init /\ [][Next]_vars
=============================================================================
