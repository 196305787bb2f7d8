--------------------------- MODULE ScreenshotRegion ---------------------------
(***************************************************************************)
(* The file through which the emulator hands over its screenshots: it      *)
(* writes them there, image after image, and sends a notification of each. *)
(* The session picks the notifications worth a copy and copies the image   *)
(* while the emulator may already be writing the next one.                 *)
(*                                                                         *)
(* Sources: grpc-mmap.ts (GrpcMmapScreenshotRegion, readStableMmapFrame),  *)
(* grpc-session.ts (GrpcMmapNotificationScheduler, capture transport).     *)
(* The pixels of a cell are the number of the image they belong to; two    *)
(* images differ in every cell.                                            *)
(***************************************************************************)
EXTENDS Integers, Sequences

CONSTANTS
  Cells,          \* parts of the region that are read and written one by one
  StableReads,    \* DEFAULT_STABLE_READ_ATTEMPTS
  CleanupTries,   \* DEFAULT_CLEANUP_ATTEMPTS
  MaxShots,      \* bound: images the emulator writes
  MaxNotices         \* bound: notifications on their way

ASSUME RegionAssumption ==
  {Cells, StableReads, CleanupTries, MaxShots, MaxNotices} \subseteq Nat \ {0}

VARIABLES
  region,      \* what the file holds
  emulator,    \* the image it has written or is writing, and the next cell
  notices,        \* notifications on their way
  pacing,      \* GrpcMmapNotificationScheduler
  probe,       \* the screenshot asked for because the stream was silent, the end of it
  reading,     \* the copy being made: while it is made nothing else runs
  handed,      \* the image last given to the session
  files        \* the transport and what it has on disk

regionVars == <<region, emulator, notices, pacing, probe, reading, handed, files>>
outside == <<region, emulator>>

Nothing == [kind |-> "none", image |-> 0]
NoRead == [source |-> "none", of |-> Nothing, attempt |-> 0, candidate |-> <<>>, check |-> <<>>]

RegionInit ==
  /\ region = [c \in 1 .. Cells |-> 0]
  /\ emulator = [image |-> 0, next |-> Cells + 1, told |-> TRUE]
  /\ notices = <<>>
  /\ pacing = [pending |-> Nothing, queued |-> FALSE, shut |-> FALSE, closed |-> FALSE,
               decoded |-> 0]
  /\ probe = [step |-> "none", silent |-> FALSE, answer |-> Nothing, over |-> FALSE]
  /\ reading = NoRead
  /\ handed = [of |-> Nothing, cells |-> <<>>]
  /\ files = [step |-> "new", directory |-> FALSE, file |-> FALSE, fd |-> FALSE,
              try |-> 0, failed |-> FALSE]

-----------------------------------------------------------------------------
(* The emulator. What it does once the transport is stopped is left out but *)
(* for the file: nothing reads the region any more.                         *)

Done == emulator.next > Cells

EmulatorBegins ==
  /\ files.step = "open" /\ Done /\ emulator.told /\ emulator.image < MaxShots
  /\ emulator' = [image |-> emulator.image + 1, next |-> 1, told |-> FALSE]
  /\ UNCHANGED <<region, notices, pacing, probe, reading, handed, files>>

EmulatorWrites ==
  /\ files.step = "open" /\ ~Done
  /\ region' = [region EXCEPT ![emulator.next] = emulator.image]
  /\ emulator' = [emulator EXCEPT !.next = @ + 1]
  /\ UNCHANGED <<notices, pacing, probe, reading, handed, files>>

\* The image is announced on the stream, or is the answer to a probe.
EmulatorTells ==
  /\ files.step = "open" /\ Done /\ ~emulator.told
  /\ emulator' = [emulator EXCEPT !.told = TRUE]
  /\ LET note == [kind |-> "image", image |-> emulator.image] IN
     \/ Len(notices) < MaxNotices /\ notices' = Append(notices, note) /\ probe' = probe
     \/ /\ probe.step = "asked"
        /\ probe' = [probe EXCEPT !.step = "answered", !.answer = note]
        /\ notices' = notices
  /\ UNCHANGED <<region, pacing, reading, handed, files>>

\* A display that went inactive is announced without an image; a notification
\* may be no metadata of an RGB image, or of one the region cannot hold.
EmulatorTellsOtherwise ==
  /\ files.step = "open" /\ Len(notices) < MaxNotices
  /\ \E kind \in {"idle", "unusable"} : notices' = Append(notices, [kind |-> kind, image |-> 0])
  /\ UNCHANGED <<outside, pacing, probe, reading, handed, files>>

\* The emulator removes the file of a stream that ended.
EmulatorDeletes ==
  /\ files.step \in {"stopped", "unlink"} /\ files.file
  /\ files' = [files EXCEPT !.file = FALSE]
  /\ UNCHANGED <<outside, notices, pacing, probe, reading, handed>>

-----------------------------------------------------------------------------
(* The notifications.                                                       *)

Busy == reading.source # "none"
StreamIsOn == files.step = "open" /\ ~probe.over

\* push: what was decoded in one turn leaves one notification, the newest, to
\* the microtask; while the slot is shut it leaves none.
Coalesced(p, note) ==
  IF p.closed \/ p.shut THEN [p EXCEPT !.decoded = note.image]
  ELSE [p EXCEPT !.pending = note, !.queued = TRUE, !.decoded = note.image]

\* A chunk of data with one notification or more.
DecodeTurn ==
  /\ ~Busy /\ ~pacing.queued /\ StreamIsOn
  /\ \E k \in 1 .. Len(notices) :
       /\ pacing' = Coalesced(pacing, notices[k])
       /\ notices' = SubSeq(notices, k + 1, Len(notices))
  /\ probe' = [probe EXCEPT !.silent = FALSE]
  /\ UNCHANGED <<outside, reading, handed, files>>

\* readMmapImageNotification: the marker of an inactive display has no image,
\* what cannot be read is an error, of anything else the region is copied.
Copied(note, source) ==
  IF note.kind = "image" THEN [NoRead EXCEPT !.source = source, !.of = note, !.attempt = 1]
  ELSE NoRead

\* The microtask: the newest notification of the turn takes the slot. An error
\* closes the scheduler and is fatal to the session.
FlushRuns ==
  /\ ~Busy /\ pacing.queued
  /\ IF pacing.closed \/ pacing.pending = Nothing \/ pacing.shut
     THEN pacing' = [pacing EXCEPT !.queued = FALSE, !.pending = Nothing] /\ reading' = reading
     ELSE /\ pacing' = [pacing EXCEPT !.queued = FALSE, !.pending = Nothing, !.shut = TRUE,
                                      !.closed = pacing.pending.kind = "unusable"]
          /\ reading' = Copied(pacing.pending, "stream")
  /\ UNCHANGED <<outside, notices, probe, handed, files>>

PacingSlotOpens ==
  /\ ~Busy /\ pacing.shut
  /\ pacing' = [pacing EXCEPT !.shut = FALSE]
  /\ UNCHANGED <<outside, notices, probe, reading, handed, files>>

\* The stream was silent: one screenshot is asked for, past the pacing.
ProbeAsked ==
  /\ ~Busy /\ ~pacing.queued /\ StreamIsOn /\ probe.step = "none"
  /\ probe' = [probe EXCEPT !.step = "asked", !.silent = TRUE]
  /\ UNCHANGED <<outside, notices, pacing, reading, handed, files>>

StreamIsOver ==
  /\ ~Busy /\ ~pacing.queued /\ StreamIsOn
  /\ probe' = [probe EXCEPT !.over = TRUE]
  /\ UNCHANGED <<outside, notices, pacing, reading, handed, files>>

\* Its answer counts only if the stream has been silent since.
ProbeSettles ==
  /\ ~Busy /\ ~pacing.queued /\ probe.step = "answered"
  /\ reading' = IF probe.silent /\ StreamIsOn THEN Copied(probe.answer, "probe") ELSE NoRead
  /\ probe' = [probe EXCEPT !.step = "none", !.silent = FALSE, !.answer = Nothing]
  /\ UNCHANGED <<outside, notices, pacing, handed, files>>

-----------------------------------------------------------------------------
(* The copy. The session is blocked while it is made, the emulator is not.  *)

Full(s) == Len(s) = Cells

\* readExactly, first for the candidate and then for the verification.
ReadsOn ==
  /\ Busy
  /\ \/ /\ ~Full(reading.candidate)
        /\ reading' = [reading EXCEPT !.candidate = Append(@, region[Len(@) + 1])]
     \/ /\ Full(reading.candidate) /\ ~Full(reading.check)
        /\ reading' = [reading EXCEPT !.check = Append(@, region[Len(@) + 1])]
  /\ UNCHANGED <<outside, notices, pacing, probe, handed, files>>

\* The file is shorter than it was made: the read fails, and with it the stream
\* or the probe of it.
CopyFails ==
  /\ Busy
  /\ pacing' = [pacing EXCEPT !.closed = @ \/ reading.source = "stream"]
  /\ probe' = [probe EXCEPT !.over = @ \/ reading.source = "probe"]
  /\ reading' = NoRead
  /\ UNCHANGED <<outside, notices, handed, files>>

\* Two copies that agree are handed on; else both are made again, a few times.
Agree == reading.candidate = reading.check
CopiesCompared ==
  /\ Busy /\ Full(reading.check)
  /\ IF Agree
     THEN handed' = [of |-> reading.of, cells |-> reading.candidate] /\ reading' = NoRead
     ELSE /\ handed' = handed
          /\ reading' = IF reading.attempt = StableReads THEN NoRead
                        ELSE [reading EXCEPT !.attempt = @ + 1, !.candidate = <<>>, !.check = <<>>]
  /\ UNCHANGED <<outside, notices, pacing, probe, files>>

-----------------------------------------------------------------------------
(* The files.                                                               *)

\* create: a step that fails undoes the earlier ones as far as it can.
RegionCreated ==
  /\ files.step = "new"
  /\ \/ files' = [files EXCEPT !.step = "open", !.directory = TRUE, !.file = TRUE, !.fd = TRUE]
     \/ \E file \in BOOLEAN, directory \in BOOLEAN :
          /\ file => directory
          /\ files' = [files EXCEPT !.step = "failed", !.failed = file \/ directory,
                                    !.file = file, !.directory = directory]
  /\ UNCHANGED <<outside, notices, pacing, probe, reading, handed>>

\* The session closes: the scheduler is closed and the stream aborted at once,
\* the region once the input and the encoder are closed.
TransportStops ==
  /\ ~Busy /\ files.step = "open"
  /\ files' = [files EXCEPT !.step = "stopped"]
  /\ pacing' = [pacing EXCEPT !.closed = TRUE, !.pending = Nothing, !.queued = FALSE]
  /\ notices' = <<>>
  /\ probe' = [step |-> "none", silent |-> FALSE, answer |-> Nothing, over |-> TRUE]
  /\ UNCHANGED <<outside, reading, handed>>

RegionCloses ==
  /\ ~Busy /\ files.step = "stopped"
  /\ \E failed \in BOOLEAN :
       files' = [files EXCEPT !.step = "unlink", !.fd = FALSE, !.try = 1, !.failed = failed]
  /\ UNCHANGED <<outside, notices, pacing, probe, reading, handed>>

\* retryMmapCleanupOperation: what is absent was removed by the emulator; an
\* error that may pass is tried again, a few times, any other is not.
Retried(f, next) ==
  IF f.try = CleanupTries THEN [f EXCEPT !.step = next, !.try = 1, !.failed = TRUE]
  ELSE [f EXCEPT !.try = @ + 1]

Unlinked ==
  /\ files.step = "unlink"
  /\ \/ files' = [files EXCEPT !.file = FALSE, !.step = "rmdir", !.try = 1]
     \/ files.file /\ files' = Retried(files, "rmdir")
     \/ files.file /\ files' = [files EXCEPT !.step = "rmdir", !.try = 1, !.failed = TRUE]
  /\ UNCHANGED <<outside, notices, pacing, probe, reading, handed>>

DirectoryRemoved ==
  /\ files.step = "rmdir"
  /\ \/ ~files.file /\ files' = [files EXCEPT !.directory = FALSE, !.step = "closed", !.try = 1]
     \/ files' = Retried(files, "closed")
     \/ files' = [files EXCEPT !.step = "closed", !.try = 1, !.failed = TRUE]
  /\ UNCHANGED <<outside, notices, pacing, probe, reading, handed>>

RegionNext ==
  \/ EmulatorBegins \/ EmulatorWrites \/ EmulatorTells \/ EmulatorTellsOtherwise \/ EmulatorDeletes
  \/ DecodeTurn \/ FlushRuns \/ PacingSlotOpens \/ ProbeAsked \/ StreamIsOver
  \/ ProbeSettles
  \/ ReadsOn \/ CopyFails \/ CopiesCompared
  \/ RegionCreated \/ TransportStops \/ RegionCloses \/ Unlinked \/ DirectoryRemoved

-----------------------------------------------------------------------------
(* Properties.                                                              *)

\* Whatever the emulator writes meanwhile, an image that is handed on is what
\* the region held at one moment: cells of an image the emulator was writing
\* and, after them, of the one before, never an older cell before a newer one.
ImageIsOfOneMoment ==
  LET cells == handed.cells IN
  handed.of # Nothing =>
    /\ Full(cells)
    /\ \A c, d \in 1 .. Cells : c <= d => cells[c] \in {cells[d], cells[d] + 1}

\* Pixels are never older than the notification they are shown with, and a
\* paced image is shown with the newest notification that was decoded.
MetadataIsNewest ==
  /\ handed.of # Nothing => \A c \in 1 .. Cells : handed.cells[c] >= handed.of.image
  /\ reading.source = "stream" => reading.of.image = pacing.decoded

\* The region is read only while its file is open, and a closed transport has
\* nothing left on disk unless its close failed.
RegionIsRemoved ==
  /\ Busy => files.fd
  /\ files.step = "closed" => ~files.fd /\ (~files.failed => ~files.file /\ ~files.directory)

\* A transport that was stopped hands on no image and begins no copy.
StoppedHandsOnNothing ==
  files.step \notin {"new", "open"} => handed' = handed /\ reading' = reading
=============================================================================
