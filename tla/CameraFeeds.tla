------------------------------ MODULE CameraFeeds ------------------------------
(***************************************************************************)
(* The still images a wired emulator shows as its cameras: one file per    *)
(* facing at a path that is fixed when the emulator is started, seeded     *)
(* before that and replaced by requests while the emulator, which shows    *)
(* solid magenta for a file that is absent or not a whole PNG, may open it *)
(* at any moment.                                                          *)
(*                                                                         *)
(* Sources: camera.ts, startEmulator of emulator.ts, the mount of the      *)
(* handler in server.ts. A file is the image it holds and whether all of   *)
(* it is written; the staging file of a write is known by its writer, as   *)
(* its unique name is.                                                     *)
(***************************************************************************)
EXTENDS Integers

CONSTANTS
  Users,        \* clients with a camera request
  Facings,      \* CAMERA_FACINGS
  MaxLaunches   \* bound: starts of the emulator

ASSUME CameraAssumption ==
  /\ MaxLaunches \in Nat \ {0}
  /\ Users \cap Facings = {}
  /\ Users \cap {"placeholder", "none", "broken"} = {}

VARIABLES
  avd,        \* the emulator of the serial: off, seeding, on; wired by its launch
  feed,       \* the file of each facing
  staged,    \* the staging file of each writer: none, partial, whole
  orphans,    \* staging files without a writer lie in the directory
  write       \* writeFeedFile of each request, and of the seed for each facing

cameraVars == <<avd, feed, staged, orphans, write>>

\* The seed writes under the name of the facing, a request under its client's.
Writers == Users \cup Facings
NoWrite == [step |-> "idle", facing |-> "none", image |-> "none", stale |-> FALSE]

CameraInit ==
  /\ avd = [state |-> "off", wired |-> FALSE, launches |-> 0]
  /\ feed = [f \in Facings |-> [image |-> "none", whole |-> FALSE]]
  /\ staged = [w \in Writers |-> "none"]
  /\ orphans = FALSE
  /\ write = [w \in Writers |-> NoWrite]

WriteBecomes(w, step) == write' = [write EXCEPT ![w].step = step]
\* The request is answered, the seed told that one of its writes failed.
RequestEnds(w) == write' = [write EXCEPT ![w] = NoWrite]
Failed(w) ==
  write' = [write EXCEPT ![w] = [NoWrite EXCEPT !.step = IF w \in Users THEN "idle" ELSE "failed"]]

\* readCameraFeed: there is a file to open.
Present(f) == feed[f].image # "none"

\* readCameraWiring: the running emulator was started with the paths of the
\* feeds, by this process or by an earlier one.
Wired == avd.state = "on" /\ avd.wired

-----------------------------------------------------------------------------
(* writeFeedFile: a directory, a staging file, a rename.                    *)

WriteFileBegins(w) ==
  /\ write[w].step = "making"
  /\ \/ WriteBecomes(w, "writing") /\ staged' = [staged EXCEPT ![w] = "partial"]
     \/ Failed(w) /\ staged' = staged
  /\ UNCHANGED <<avd, feed, orphans>>

WriteFileEnds(w) ==
  /\ write[w].step = "writing"
  /\ \/ /\ WriteBecomes(w, "renaming")
        /\ staged' = [staged EXCEPT ![w] = IF @ = "partial" THEN "whole" ELSE @]
     \/ WriteBecomes(w, "undoing") /\ staged' = staged
  /\ UNCHANGED <<avd, feed, orphans>>

\* A staging file that a sweep removed cannot be renamed.
Replaced(w) == [image |-> write[w].image, whole |-> staged[w] = "whole"]
RenameEnds(w) ==
  /\ write[w].step = "renaming"
  /\ \/ /\ staged[w] # "none"
        /\ feed' = [feed EXCEPT ![write[w].facing] = Replaced(w)]
        /\ staged' = [staged EXCEPT ![w] = "none"]
        /\ WriteBecomes(w, "written")
     \/ WriteBecomes(w, "undoing") /\ UNCHANGED <<feed, staged>>
  /\ UNCHANGED <<avd, orphans>>

\* Whatever the unlink of the staging file says, the error is reported.
WriteUndone(w) ==
  /\ write[w].step = "undoing"
  /\ Failed(w)
  /\ staged' = [staged EXCEPT ![w] = "none"]
  /\ orphans' \in {orphans, orphans \/ staged[w] # "none"}
  /\ UNCHANGED <<avd, feed>>

-----------------------------------------------------------------------------
(* Requests.                                                                *)

Unoccupied(u) == write[u].step = "idle"

\* DELETE has no body: the session is checked at once, as it is for POST when
\* the body is read.
SessionMovedOn(u) == write[u].stale

\* assertCameraImage: a signature, dimensions, whole chunks to the end, image
\* data among them. What is not is refused before the write.
Loadable(u) == write[u].image # "broken"

CameraPosted(u) ==
  /\ Unoccupied(u)
  /\ \E f \in Facings :
       \E image \in {u, "broken"} :
         write' = [write EXCEPT ![u] = [NoWrite EXCEPT !.step = "body", !.facing = f,
                                                       !.image = image]]
  /\ UNCHANGED <<avd, feed, staged, orphans>>

CameraBodyRead(u) ==
  /\ write[u].step = "body"
  /\ \/ RequestEnds(u)
     \/ ~SessionMovedOn(u) /\ Loadable(u) /\ WriteBecomes(u, "making")
  /\ UNCHANGED <<avd, feed, staged, orphans>>

CameraCleared(u) ==
  /\ Unoccupied(u)
  /\ \E f \in Facings :
       write' = [write EXCEPT ![u] = [NoWrite EXCEPT !.step = "making", !.facing = f,
                                                     !.image = "placeholder"]]
  /\ UNCHANGED <<avd, feed, staged, orphans>>

\* A mutation that was carried out is answered with the status of the cameras.
\* It reads every feed, and of a running emulator the configuration it was
\* started with; like a GET it changes nothing.
CameraStatusRead(u) ==
  /\ write[u].step = "written"
  /\ RequestEnds(u)
  /\ UNCHANGED <<avd, feed, staged, orphans>>

\* The device gets another session: requests whose body is coming in are of an
\* earlier one.
CameraSessionMoves ==
  /\ \E u \in Users : write[u].step = "body"
  /\ write' = [w \in Writers |-> IF write[w].step = "body" THEN [write[w] EXCEPT !.stale = TRUE]
                                 ELSE write[w]]
  /\ UNCHANGED <<avd, feed, staged, orphans>>

-----------------------------------------------------------------------------
(* The emulator of the serial.                                              *)

\* seedCameraFeeds: staging files of earlier runs are removed, those that can
\* be; then every facing is written.
Seeding(f) == [NoWrite EXCEPT !.step = "making", !.facing = f, !.image = "placeholder"]
SeedingBegins ==
  /\ avd.state = "off" /\ avd.launches < MaxLaunches
  /\ \A f \in Facings : write[f].step = "idle"
  /\ avd' = [state |-> "seeding", wired |-> FALSE, launches |-> avd.launches + 1]
  /\ orphans' \in {FALSE, orphans}
  /\ \E kept \in SUBSET Users :
       staged' = [w \in Writers |-> IF w \in kept THEN staged[w] ELSE "none"]
  /\ write' = [w \in Writers |-> IF w \in Facings THEN Seeding(w) ELSE write[w]]
  /\ UNCHANGED feed

\* Started with the paths of the feeds once all are written, and not at all if
\* one of them failed. The other writes of a failed seed go on.
Seeded == \A f \in Facings : write[f].step = "written"
SeedingEnds ==
  /\ avd.state = "seeding"
  /\ \/ Seeded /\ avd' = [avd EXCEPT !.state = "on", !.wired = TRUE]
     \/ /\ \E f \in Facings : write[f].step = "failed"
        /\ avd' = [avd EXCEPT !.state = "off"]
  /\ UNCHANGED <<feed, staged, orphans, write>>

\* Its writes are over, whatever became of it.
SeedForgotten ==
  /\ avd.state # "seeding"
  /\ \A f \in Facings : write[f].step \in {"failed", "written"}
  /\ write' = [w \in Writers |-> IF w \in Facings THEN NoWrite ELSE write[w]]
  /\ UNCHANGED <<avd, feed, staged, orphans>>

\* Started without cameras, by serve-emu or by hand.
StartedUnwired ==
  /\ avd.state = "off" /\ avd.launches < MaxLaunches
  /\ avd' = [state |-> "on", wired |-> FALSE, launches |-> avd.launches + 1]
  /\ UNCHANGED <<feed, staged, orphans, write>>

EmulatorStops ==
  /\ avd.state = "on"
  /\ avd' = [avd EXCEPT !.state = "off", !.wired = FALSE]
  /\ UNCHANGED <<feed, staged, orphans, write>>

\* The server dies with whatever it was writing; the emulator, and the files,
\* survive it.
ServerRestarts ==
  /\ write' = [w \in Writers |-> NoWrite]
  /\ orphans' = (orphans \/ \E w \in Writers : staged[w] # "none")
  /\ staged' = [w \in Writers |-> "none"]
  /\ avd' = [avd EXCEPT !.state = IF @ = "seeding" THEN "off" ELSE @]
  /\ UNCHANGED feed

CameraNext ==
  \/ \E w \in Writers : WriteFileBegins(w) \/ WriteFileEnds(w) \/ RenameEnds(w) \/ WriteUndone(w)
  \/ \E u \in Users :
       \/ CameraPosted(u) \/ CameraBodyRead(u) \/ CameraCleared(u) \/ CameraStatusRead(u)
  \/ CameraSessionMoves
  \/ SeedingBegins \/ SeedingEnds \/ SeedForgotten \/ StartedUnwired \/ EmulatorStops
  \/ ServerRestarts

-----------------------------------------------------------------------------
(* Properties.                                                              *)

\* Whoever writes meanwhile, a file that can be opened is all of an image that
\* can be loaded, and a wired emulator finds one for each of its cameras.
CamerasAreNeverMagenta ==
  \A f \in Facings :
    /\ Present(f) => feed[f].whole /\ feed[f].image # "broken"
    /\ Wired => Present(f)

\* A staging file has a writer that will rename it or remove it; one that
\* cannot be removed, or whose writer died, is an orphan for the next sweep.
FeedStagingIsOwned ==
  \A w \in Writers :
    staged[w] # "none" => write[w].step \in {"writing", "renaming", "undoing"}

\* A request whose session was replaced while its body came in writes nothing.
MutatesItsOwnSession ==
  \A u \in Users : write[u].stale => write[u].step = "body"
=============================================================================
