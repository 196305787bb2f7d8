----------------------------- MODULE RequestBodies -----------------------------
(***************************************************************************)
(* What the server does with the body of a request: a small body is read   *)
(* into memory, an upload is parsed as one multipart file into a private   *)
(* temporary directory that its owner removes. Bytes are counted as they   *)
(* come; the client or the session may abort at any moment.                *)
(*                                                                         *)
(* Sources: request-body.ts, multipart-upload.ts, middleware-upload.ts.    *)
(* The multipart parser is busboy; its events are modelled from the        *)
(* handlers that stageMultipartUpload gives it. Header checks that refuse  *)
(* a request before its body is touched are left out.                      *)
(***************************************************************************)
EXTENDS Integers

CONSTANTS
  BodyLimit,         \* maxBytes, and maxBodyBytes
  InitialCapacity,   \* of the buffer a body is read into
  MinimalGrowth,     \* the least it grows to
  ChunkLimit,        \* MAX_REQUEST_BODY_CHUNKS
  YieldInterval      \* REQUEST_BODY_YIELD_INTERVAL

ASSUME BodiesAssumption ==
  {BodyLimit, InitialCapacity, MinimalGrowth, ChunkLimit, YieldInterval} \subseteq Nat \ {0}

VARIABLES
  body,      \* readBodyLimited of one request
  staging    \* stageMultipartUpload of one request, until its file is cleaned up

bodiesVars == <<body, staging>>

AtMost(a, b) == IF a <= b THEN a ELSE b
AtLeast(a, b) == IF a >= b THEN a ELSE b

\* One part that is a file is what is asked for: extra is set by any other
\* part, truncated by a file above its limit.
BodiesInit ==
  /\ body = [step |-> "reading", received |-> 0, chunks |-> 0, sent |-> 0, aborted |-> FALSE,
             capacity |-> AtMost(BodyLimit, InitialCapacity), locked |-> TRUE]
  /\ staging = [step |-> "making", dir |-> FALSE, ingestion |-> "none", parser |-> "none",
                file |-> "none", parserDone |-> "pending", fileDone |-> "pending",
                failure |-> FALSE, extra |-> FALSE, truncated |-> FALSE, aborted |-> FALSE,
                received |-> 0, chunks |-> 0, listening |-> TRUE]

-----------------------------------------------------------------------------
(* readBodyLimited.                                                         *)

Ended(step) == body' = [body EXCEPT !.step = step, !.locked = FALSE]

\* The buffer doubles, or grows to what is needed, up to the limit.
BugGrown(needed) == AtMost(BodyLimit, AtLeast(MinimalGrowth, body.capacity * 2))
Grown(needed) ==
  IF needed <= body.capacity THEN body.capacity
  ELSE AtMost(BodyLimit, AtLeast(needed, AtLeast(MinimalGrowth, body.capacity * 2)))

ChunkRead(n) ==
  /\ body.step = "reading"
  /\ LET chunks == body.chunks + 1
         next == body.received + n
     IN  IF body.aborted THEN Ended("aborted")
         ELSE IF chunks > ChunkLimit \/ next > BodyLimit THEN Ended("refused")
         ELSE body' = [body EXCEPT !.chunks = chunks, !.received = next, !.sent = @ + n,
                                   !.capacity = Grown(next),
                                   !.step = IF chunks % YieldInterval = 0 THEN "yielding" ELSE @]
  /\ UNCHANGED staging

YieldOver ==
  /\ body.step = "yielding"
  /\ IF body.aborted THEN Ended("aborted") ELSE body' = [body EXCEPT !.step = "reading"]
  /\ UNCHANGED staging

\* The body ends, by itself or because the abort has cancelled it.
BodyEnds ==
  /\ body.step = "reading"
  /\ Ended(IF body.aborted THEN "aborted" ELSE "whole")
  /\ UNCHANGED staging
BodyBreaks ==
  /\ body.step = "reading"
  /\ Ended(IF body.aborted THEN "aborted" ELSE "failed")
  /\ UNCHANGED staging
BodyAborted ==
  /\ body.step \in {"reading", "yielding"} /\ ~body.aborted
  /\ body' = [body EXCEPT !.aborted = TRUE]
  /\ UNCHANGED staging

-----------------------------------------------------------------------------
(* stageMultipartUpload.                                                    *)

Stage(next) == staging' = next /\ UNCHANGED body

Refuse(st) == [st EXCEPT !.failure = TRUE, !.fileDone = IF @ = "pending" THEN "rejected" ELSE @]

\* The first failure stops everything that runs, and is waited for.
BugStop(st) ==
  [st EXCEPT !.failure = TRUE,
             !.parserDone = IF @ = "pending" THEN "rejected" ELSE @,
             !.fileDone = IF @ = "pending" THEN "rejected" ELSE @,
             !.parser = IF @ = "open" THEN "destroyed" ELSE @]
Stop(st) ==
  [st EXCEPT !.failure = TRUE,
             !.parserDone = IF @ = "pending" THEN "rejected" ELSE @,
             !.fileDone = IF @ = "pending" THEN "rejected" ELSE @,
             !.parser = IF @ = "open" THEN "destroyed" ELSE @,
             !.ingestion = IF @ \in {"reading", "writing"} THEN "stopping" ELSE @,
             !.file = IF @ = "piping" THEN "stopping" ELSE @]

DirectoryMade ==
  /\ staging.step = "making"
  /\ \/ Stage([staging EXCEPT !.step = "cleaned", !.failure = TRUE, !.listening = FALSE])
     \/ Stage(IF staging.aborted
              THEN [staging EXCEPT !.dir = TRUE, !.step = "failing"]
              ELSE [staging EXCEPT !.dir = TRUE, !.step = "streaming", !.parser = "open",
                                   !.ingestion = "reading"])
     \/ /\ ~staging.aborted    \* no content type, no body, or not multipart
        /\ Stage([staging EXCEPT !.dir = TRUE, !.step = "failing", !.failure = TRUE])

StagingAborted ==
  /\ staging.step \in {"making", "streaming"} /\ staging.listening /\ ~staging.aborted
  /\ Stage([Stop(staging) EXCEPT !.aborted = TRUE])

\* A chunk goes through the ring into the parser, or is one too many.
StagingChunkRead(n) ==
  /\ staging.ingestion = "reading"
  /\ Stage(IF staging.chunks = ChunkLimit \/ n > BodyLimit - staging.received
           THEN [staging EXCEPT !.ingestion = "failed"]
           ELSE [staging EXCEPT !.ingestion = "writing", !.chunks = @ + 1, !.received = @ + n])

\* What the parser may find in a write, before it asks for more.
FilePart ==
  /\ staging.ingestion = "writing" /\ staging.parser = "open"
  /\ \/ /\ staging.file = "none"
        /\ \/ Stage([staging EXCEPT !.file = "piping"])
           \/ Stage([Refuse(staging) EXCEPT !.file = "failed"])
     \/ /\ ~staging.extra
        /\ Stage([Refuse(staging) EXCEPT !.extra = TRUE])
FilePartLimit ==
  /\ staging.ingestion = "writing" /\ staging.file = "piping" /\ ~staging.truncated
  /\ Stage([Refuse(staging) EXCEPT !.truncated = TRUE])
ParserFails ==
  /\ staging.parser = "open" /\ staging.ingestion \in {"writing", "done"}
  /\ Stage([staging EXCEPT !.failure = TRUE, !.parser = "destroyed", !.parserDone = "rejected",
                           !.file = IF @ = "piping" THEN "failed" ELSE @,
                           !.fileDone = IF staging.file = "piping" /\ @ = "pending"
                                        THEN "rejected" ELSE @,
                           !.ingestion = IF @ = "writing" THEN "failed" ELSE @])
WriteTaken ==
  /\ staging.ingestion = "writing" /\ staging.parser = "open"
  /\ Stage([staging EXCEPT !.ingestion = "reading"])

\* The file was piped to its end, unless the pipe broke.
FilePiped ==
  /\ staging.file = "piping" /\ staging.ingestion \in {"writing", "done"}
  /\ \/ Stage(IF staging.truncated THEN [Refuse(staging) EXCEPT !.file = "failed"]
              ELSE [staging EXCEPT !.file = "written",
                                   !.fileDone = IF @ = "pending" THEN "resolved" ELSE @])
     \/ Stage([Refuse(staging) EXCEPT !.file = "failed"])

StagingBodyEnds ==
  /\ staging.ingestion = "reading"
  /\ \/ Stage([staging EXCEPT !.ingestion = "done"])
     \/ Stage([staging EXCEPT !.ingestion = "failed"])
ParserFinishes ==
  /\ staging.ingestion = "done" /\ staging.parser = "open" /\ staging.file # "piping"
  /\ LET finished == [staging EXCEPT !.parser = "finished", !.parserDone = "resolved"]
     IN  Stage(IF staging.file = "none" THEN Refuse(finished) ELSE finished)

\* What was stopped comes to its end.
IngestionStops ==
  /\ staging.ingestion = "stopping"
  /\ Stage([staging EXCEPT !.ingestion = "failed"])
FileStops ==
  /\ staging.file = "stopping"
  /\ Stage([staging EXCEPT !.file = "failed"])

\* Promise.all is settled: the file is handed out, or the failure is final.
Rejected ==
  \/ staging.ingestion = "failed"
  \/ "rejected" \in {staging.parserDone, staging.fileDone}
AllResolved ==
  staging.ingestion = "done" /\ staging.parserDone = "resolved" /\ staging.fileDone = "resolved"

BugSettled ==
  /\ staging.step = "streaming"
  /\ \/ Rejected /\ Stage([Stop(staging) EXCEPT !.step = "failing"])
     \/ AllResolved /\ Stage([staging EXCEPT !.step = "staged", !.listening = FALSE])
StagingSettled ==
  /\ staging.step = "streaming"
  /\ \/ /\ Rejected \/ (AllResolved /\ (staging.failure \/ staging.aborted))
        /\ Stage([Stop(staging) EXCEPT !.step = "failing"])
     \/ /\ AllResolved /\ ~staging.failure /\ ~staging.aborted
        /\ Stage([staging EXCEPT !.step = "staged", !.listening = FALSE])

\* The failed staging removes its directory once nothing writes to it any more;
\* a staged file is removed by its owner, whether the operation on it succeeded.
StillRuns == staging.ingestion \in {"reading", "writing", "stopping"}
             \/ staging.file \in {"piping", "stopping"}
CleansUp ==
  /\ \/ staging.step = "failing" /\ ~StillRuns
     \/ staging.step = "staged"
  /\ \/ Stage([staging EXCEPT !.step = "cleaned", !.dir = FALSE, !.listening = FALSE])
     \/ Stage([staging EXCEPT !.step = "leaked", !.listening = FALSE])

BodiesNext ==
  \/ \E n \in 1 .. BodyLimit + 1 : ChunkRead(n) \/ StagingChunkRead(n)
  \/ YieldOver \/ BodyEnds \/ BodyBreaks \/ BodyAborted
  \/ DirectoryMade \/ StagingAborted \/ FilePart \/ FilePartLimit \/ ParserFails \/ WriteTaken
  \/ FilePiped \/ StagingBodyEnds \/ ParserFinishes \/ IngestionStops \/ FileStops
  \/ StagingSettled \/ CleansUp

-----------------------------------------------------------------------------
(* Properties.                                                              *)

\* A body handed on is all of what was sent, of a request nobody aborted, in a
\* buffer that holds it and is not larger than the limit.
BodyIsWhole ==
  /\ body.received = body.sent /\ body.received <= body.capacity
  /\ body.capacity <= BodyLimit
  /\ body.step = "whole" => ~body.aborted

\* A file handed out is the only part of its body and complete, even when the
\* second part, the limit or the abort came after the file had been written.
StagedIsWhole ==
  staging.step = "staged" =>
    /\ staging.file = "written" /\ ~staging.truncated /\ ~staging.extra
    /\ staging.parser = "finished" /\ ~staging.aborted

\* Whatever the outcome, no directory is left unless its removal failed and was
\* reported, and nothing reads the body, writes the file or listens any more.
StagingLeavesNothing ==
  /\ staging.step \in {"cleaned", "leaked"} => ~StillRuns /\ ~staging.listening
  /\ staging.step = "cleaned" => ~staging.dir
  /\ body.step \in {"whole", "aborted", "refused", "failed"} => ~body.locked
=============================================================================
