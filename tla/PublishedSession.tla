--------------------------- MODULE PublishedSession ---------------------------
(***************************************************************************)
(* What the manager of device sessions promises to the rest of the server, *)
(* which only ever looks at the published session: there always is one, it *)
(* is replaced by its successor only, and it stops working for a reason of *)
(* its own, because it was asked to, or because the server goes away.      *)
(* What is staged, disposed of or waiting in the chain is not visible      *)
(* here. DeviceSessions is shown to implement this.                        *)
(***************************************************************************)
EXTENDS Naturals

CONSTANT Ops       \* the requests made to the manager

VARIABLES
  gen,             \* the generation that is published
  verdict,         \* "streaming", or the status it ended with
  alive,           \* it has not been revoked
  own,             \* it reported its end itself
  asked,           \* the stops that name it and have not been carried out
  over             \* the server has been told to stop

sessionVars == <<gen, verdict, alive, own, asked, over>>

Init ==
  /\ gen = 0 /\ verdict = "streaming" /\ alive = TRUE /\ own = FALSE
  /\ asked = {} /\ over = FALSE

\* A client asks for a stop of the session it sees.
AskStop ==
  /\ \E o \in Ops \ asked : asked' = asked \cup {o}
  /\ UNCHANGED <<gen, verdict, alive, own, over>>

\* The stop is carried out, on the session it named.
Stop ==
  /\ ~over
  /\ \E o \in asked : asked' = asked \ {o}
  /\ alive' = FALSE
  /\ verdict' = IF alive THEN "stopped" ELSE verdict
  /\ UNCHANGED <<gen, own, over>>

\* A server that is told to stop refuses what is still asked of it.
Refuse ==
  /\ over
  /\ \E o \in asked : asked' = asked \ {o}
  /\ UNCHANGED <<gen, verdict, alive, own, over>>

\* The session ends of its own: the video ends, or the stream fails.
End ==
  /\ alive
  /\ alive' = FALSE /\ own' = TRUE
  /\ verdict' \in {"stopped", "error"}
  /\ UNCHANGED <<gen, asked, over>>

\* The end of a video turns out to have been a failure.
Escalate ==
  /\ own /\ ~alive /\ verdict = "stopped"
  /\ verdict' = "error"
  /\ UNCHANGED <<gen, alive, own, asked, over>>

\* The successor is published, which may have failed already. The stops that
\* named its predecessor concern nobody any more.
Publish ==
  /\ ~over
  /\ gen' = gen + 1
  /\ \/ alive' = TRUE /\ own' = FALSE /\ verdict' = "streaming"
     \/ alive' = FALSE /\ own' = TRUE /\ verdict' = "error"
  /\ asked' = {}
  /\ UNCHANGED over

Shutdown ==
  /\ ~over /\ over' = TRUE
  /\ alive' = FALSE
  /\ verdict' = IF alive THEN "stopped" ELSE verdict
  /\ UNCHANGED <<gen, own, asked>>

Next == AskStop \/ Stop \/ Refuse \/ End \/ Escalate \/ Publish \/ Shutdown

Spec == Init /\ [][Next]_sessionVars
=============================================================================
