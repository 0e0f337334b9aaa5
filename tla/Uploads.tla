-------------------------------- MODULE Uploads --------------------------------
(***************************************************************************)
(* Files sent with a request (src/src/middlewares/processAndUpload.ts), one   *)
(* after another: each is checked, processed and put into the object store,   *)
(* and only then does the request go on.  A status's video first needs one of *)
(* the slots for ffmpeg (src/src/shared/video/processStatusVideo.ts) and a    *)
(* directory of its own; when it cannot be processed it is stored as sent.    *)
(***************************************************************************)
EXTENDS Naturals, Sequences, FiniteSets

CONSTANTS
    Requests,
    FilesOf,           \* [Requests -> the fields of its files, in their order]
    MAX_CONCURRENT_JOBS,
    MaxStops           \* bound: restarts of the process

Fields == {"video", "image"}     \* "image" for every kind that needs no slot

UploadsAssumption ==
    /\ FilesOf \in [Requests -> Seq(Fields)]
    /\ MAX_CONCURRENT_JOBS \in Nat \ {0}
    /\ MaxStops \in Nat

VARIABLES
    step,          \* what each request does next
    at,            \* the file it is at
    body,          \* what req.body holds for each field
    store,         \* the objects in the store: request, field and form
    runningJobs, waitingJobs,   \* the slots taken, and who waits for one
    dirs,          \* the requests whose temporary directory exists
    left,          \* history: directories whose removal failed or never came
    stops

vars == <<step, at, body, store, runningJobs, waitingJobs, dirs, left, stops>>

InSlot    == {"probe", "copy", "convert"}
Steps     == {"idle", "file", "slot", "waiting", "clean", "processed", "raw"} \cup InSlot
Ends      == {"goes on", "refused", "failed", "lost"}
NoFile    == "none"
Forms     == {"processed", "raw"}

TypeOK ==
    /\ step  \in [Requests -> Steps \cup Ends]
    /\ at    \in [Requests -> Nat]
    /\ body  \in [Requests -> [Fields -> Forms \cup {NoFile}]]
    /\ store \subseteq Requests \X Fields \X Forms
    /\ runningJobs \in Nat
    /\ waitingJobs \in Seq(Requests)
    /\ dirs \subseteq Requests /\ left \subseteq Requests
    /\ stops \in 0..MaxStops

Init ==
    /\ step  = [r \in Requests |-> "idle"]
    /\ at    = [r \in Requests |-> 1]
    /\ body  = [r \in Requests |-> [f \in Fields |-> NoFile]]
    /\ store = {}
    /\ runningJobs = 0 /\ waitingJobs = <<>>
    /\ dirs = {} /\ left = {}
    /\ stops = 0

Field(r) == FilesOf[r][at[r]]
Goes(r, s) == step' = [step EXCEPT ![r] = s]
Files == <<at, body, store>>
JobSlots == <<runningJobs, waitingJobs>>
Dirs  == <<dirs, left>>

-----------------------------------------------------------------------------
\* multer has the files in memory, or refused them.
Receive(r) ==
    /\ step[r] = "idle"
    /\ Goes(r, "file") \/ Goes(r, "refused")
    /\ UNCHANGED <<Files, JobSlots, Dirs, stops>>

\* The next file, unless it is too large; after the last, next().
TakeFile(r) ==
    /\ step[r] = "file"
    /\ \/ /\ at[r] > Len(FilesOf[r])
          /\ Goes(r, "goes on")
       \/ /\ at[r] <= Len(FilesOf[r])
          /\ \/ Goes(r, "refused")
             \/ Goes(r, IF Field(r) = "video" THEN "slot" ELSE "processed")
    /\ UNCHANGED <<Files, JobSlots, Dirs, stops>>

\* sharp and the store may fail, and then the request; a failed upload of the
\* processed video is followed by one of the video as sent.  A put whose answer was
\* lost has stored its object.
Put(r, form) ==
    \/ /\ store' = store \cup {<<r, Field(r), form>>}
       /\ body' = [body EXCEPT ![r][Field(r)] = form]
       /\ at' = [at EXCEPT ![r] = @ + 1]
       /\ Goes(r, "file")
    \/ /\ store' \in {store, store \cup {<<r, Field(r), form>>}}
       /\ Goes(r, IF Field(r) = "video" /\ form = "processed" THEN "raw" ELSE "failed")
       /\ UNCHANGED <<at, body>>

Upload(r) ==
    /\ step[r] \in Forms
    /\ Put(r, step[r])
    /\ UNCHANGED <<JobSlots, Dirs, stops>>

-----------------------------------------------------------------------------
(* processStatusVideo.                                                      *)

\* mkdtemp, and acquireJobSlot; without a directory the video is stored as sent.
Acquire(r) ==
    /\ step[r] = "slot"
    /\ \/ /\ Goes(r, "raw")
          /\ UNCHANGED <<JobSlots, Dirs>>
       \/ /\ dirs' = dirs \cup {r}
          /\ IF runningJobs < MAX_CONCURRENT_JOBS
             THEN /\ Goes(r, "probe")
                  /\ runningJobs' = runningJobs + 1
                  /\ UNCHANGED waitingJobs
             ELSE /\ Goes(r, "waiting")
                  /\ waitingJobs' = Append(waitingJobs, r)
                  /\ UNCHANGED runningJobs
          /\ UNCHANGED left
    /\ UNCHANGED <<Files, stops>>

\* Mutant: the slot is given back, and nobody told.
ReleaseSilently(r, ending) ==
    /\ runningJobs' = runningJobs - 1
    /\ step' = [step EXCEPT ![r] = ending]
    /\ UNCHANGED waitingJobs

\* releaseJobSlot, whose waiter takes the slot before any other event is handled.
Release(r, ending) ==
    IF waitingJobs = <<>>
    THEN /\ runningJobs' = runningJobs - 1
         /\ step' = [step EXCEPT ![r] = ending]
         /\ UNCHANGED waitingJobs
    ELSE /\ waitingJobs' = Tail(waitingJobs)
         /\ step' = [step EXCEPT ![r] = ending, ![Head(waitingJobs)] = "probe"]
         /\ UNCHANGED runningJobs

\* writeFile and ffprobe: the streams are copied when a phone can play them.
Probe(r) ==
    /\ step[r] = "probe"
    /\ \/ \E s \in {"copy", "convert"} : Goes(r, s) /\ UNCHANGED JobSlots
       \/ Release(r, "clean")
    /\ UNCHANGED <<Files, dirs, left, stops>>

\* ffmpeg ends, is killed when its time is up, or never started.
Ffmpeg(r) ==
    /\ \/ step[r] = "copy" /\ Goes(r, "convert") /\ UNCHANGED JobSlots
       \/ step[r] \in {"copy", "convert"} /\ Release(r, "clean")
    /\ UNCHANGED <<Files, dirs, left, stops>>

Removed(r, ending) == dirs \ {r}

\* The finally's fs.rm, whose failure is ignored; then the result, or the error.
Clean(r) ==
    /\ step[r] = "clean"
    /\ \E ending \in Forms :
          /\ Goes(r, ending)
          /\ \/ dirs' = Removed(r, ending) /\ UNCHANGED left
             \/ left' = left \cup {r} /\ UNCHANGED dirs
    /\ UNCHANGED <<Files, JobSlots, stops>>

Restart ==
    /\ stops < MaxStops
    /\ stops' = stops + 1
    /\ step' = [r \in Requests |-> IF step[r] \in Ends \cup {"idle"} THEN step[r] ELSE "lost"]
    /\ runningJobs' = 0 /\ waitingJobs' = <<>>
    /\ left' = left \cup dirs
    /\ UNCHANGED <<Files, dirs>>

RequestStep(r) ==
    \/ Receive(r) \/ TakeFile(r) \/ Upload(r)
    \/ Acquire(r) \/ Probe(r) \/ Ffmpeg(r) \/ Clean(r)

Next == (\E r \in Requests : RequestStep(r)) \/ Restart

\* ffmpeg is killed after its timeout; ffprobe reads a local file; the store answers.
Spec ==
    /\ Init /\ [][Next]_vars
    /\ \A r \in Requests : WF_vars(RequestStep(r))

-----------------------------------------------------------------------------
\* As many slots are taken as there are videos in work, never more than there are,
\* and a video waits only while all of them are taken.
SlotsAreHeld ==
    /\ runningJobs = Cardinality({r \in Requests : step[r] \in InSlot})
    /\ runningJobs <= MAX_CONCURRENT_JOBS
    /\ waitingJobs # <<>> => runningJobs = MAX_CONCURRENT_JOBS
    /\ {waitingJobs[i] : i \in DOMAIN waitingJobs} = {r \in Requests : step[r] = "waiting"}

\* A directory outlives its video only if its removal failed or a restart forgot it.
DirsGo == dirs \subseteq left \cup {r \in Requests : step[r] \in InSlot \cup {"waiting", "clean"}}

\* A request that goes on has an object in the store for every field it sent.
GoesOnWithItsFiles ==
    \A r \in Requests : step[r] = "goes on" =>
        \A i \in DOMAIN FilesOf[r] : <<r, FilesOf[r][i], body[r][FilesOf[r][i]]>> \in store

UploadsAreWhole == SlotsAreHeld /\ DirsGo /\ GoesOnWithItsFiles

\* Why: a request waits once; it is at a file it sent while it works on one, at none when it
\* goes on; and what was passed is in the store in the form the body has of it.
WaitsOnce == \A i, j \in DOMAIN waitingJobs : waitingJobs[i] = waitingJobs[j] => i = j
IsAtAFile ==
    \A r \in Requests :
        /\ step[r] \in Steps \ {"idle", "file"} => at[r] <= Len(FilesOf[r])
        /\ step[r] = "goes on" => at[r] > Len(FilesOf[r])
PassedAreStored ==
    \A r \in Requests : \A i \in DOMAIN FilesOf[r] :
        i < at[r] => <<r, FilesOf[r][i], body[r][FilesOf[r][i]]>> \in store
IInv ==
    /\ step \in [Requests -> Steps \cup Ends] /\ at \in [Requests -> Nat]
    /\ body \in [Requests -> [Fields -> Forms \cup {NoFile}]]
    /\ waitingJobs \in Seq(Requests) /\ WaitsOnce
    /\ IsFiniteSet({r \in Requests : step[r] \in InSlot})
    /\ IsAtAFile /\ PassedAreStored
    /\ UploadsAreWhole

\* Every upload comes to an end.
Settled == \A r \in Requests : step[r] \in Ends
UploadsEnd == <>[]Settled
=============================================================================
