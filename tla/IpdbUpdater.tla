---------------------------- MODULE IpdbUpdater -----------------------------
(***************************************************************************)
(* service/ipdb.go: the IP database that is loaded from a file when the    *)
(* process starts and from then on replaced, file first and memory second, *)
(* by what one of two mirrors sends.                                       *)
(*                                                                         *)
(* A file is a sequence of blocks, so that it can be cut short, overlaid   *)
(* or read while it is written.  The reader of package ipdb checks that    *)
(* the length fits the header, which is all in the first block.            *)
(***************************************************************************)
EXTENDS Sequences, Naturals

CONSTANTS Versions,   \* the releases of the database
          Length,     \* Length[v]: the blocks of release v
          MaxLength,  \* the blocks of the longest release
          Mirrors,    \* how many URLs UpdateIpdb tries in turn
          Page,       \* the one block of an answer that is no database
          Hole,       \* a block nobody wrote, left by a write past the end
          NoDb,       \* Ipdb == nil
          Cron,       \* the scheduled job
          Manual,     \* a caller of UpdateIpdb beside it
          MaxManual   \* bound: how many times Manual calls

Whole(v) == [i \in 1..Length[v] |-> v]

Genuine(c) == \E v \in Versions : c = Whole(v)

\* What package ipdb accepts: a header, and as many blocks as it promises.
Accepts(c) == c # <<>> /\ c[1] \in Versions /\ Len(c) = Length[c[1]]

\* A mirror is unreachable, or answers with an error page or with a release,
\* not always the latest.
Down == "down"
Broken == "broken"
MirrorState == {Down, Broken} \cup Versions

\* What a download that failed may leave in the response.
Cut == {<<>>} \cup
       UNION {{SubSeq(Whole(v), 1, n) : n \in 0..(Length[v] - 1)} : v \in Versions}

Updaters == {Cron, Manual}

VARIABLES up,          \* the process is running
          db,          \* the contents Ipdb serves, or NoDb
          job,         \* the job: "none", in a scheduler that is not started
                       \* ("waiting"), or in one that is ("started")
          file,        \* the contents of the file at ipdb-path
          disk,        \* creating and writing files works
          mirror,      \* mirror[i]: the state of the i-th mirror
          update,      \* update[u]: how far u's UpdateIpdb has come
          manualCalls, \* calls of Manual so far
          overlapped   \* history: two updates have run at the same time

procVars == <<up, db, job>>
envVars  == <<disk, mirror>>
history  == <<manualCalls, overlapped>>
vars == <<procVars, file, envVars, update, history>>

Job == {"none", "waiting", "started"}

Idle == [pc |-> "idle"]
Running(u) == update[u].pc # "idle"
Quiet == \A u \in Updaters : ~Running(u)

Content == UNION {[1..n -> Versions \cup {Page, Hole}] : n \in 0..MaxLength}

ASSUME UpdaterAssumption ==
    /\ MaxLength \in Nat \ {0}
    /\ Length \in [Versions -> 1..MaxLength]
    /\ Mirrors \in Nat \ {0}
    /\ MaxManual \in Nat
    /\ Versions \cap {Page, Down, Broken} = {}
    /\ NoDb \notin Content

Progress ==
    {Idle} \cup [pc : {"fetch"}, next : 1..Mirrors]
           \cup [pc : {"create"}, body : Content]
           \cup [pc : {"write"}, body : Content, written : 0..MaxLength]
           \cup [pc : {"read", "assign"}, got : Content]

TypeOK ==
    /\ {up, disk, overlapped} \subseteq BOOLEAN
    /\ job \in Job
    /\ file \in Content
    /\ db \in Content \cup {NoDb}
    /\ mirror \in [1..Mirrors -> MirrorState]
    /\ manualCalls \in 0..MaxManual
    /\ update \in [Updaters -> Progress]

(* InitIpdb: load the file; only if that works is the update scheduled,    *)
(* and then only if there is a scheduler and NewJob has no error.  The     *)
(* scheduler runs its jobs if InitGoCron was told to start it, cron-async: *)
(* nothing else does.  Which of these it is, is the start-up's business,   *)
(* and FastHttpClient is taken to be there.                                *)
Loaded(c) == IF Accepts(c) THEN c ELSE NoDb

JobsAfterLoading(c) == IF Accepts(c) THEN Job ELSE {"none"}

Init ==
    /\ up = TRUE
    /\ file \in {<<>>} \cup {Whole(v) : v \in Versions}
    /\ db = Loaded(file)
    /\ job \in JobsAfterLoading(file)
    /\ disk = TRUE
    /\ mirror \in [1..Mirrors -> MirrorState]
    /\ update = [u \in Updaters |-> Idle]
    /\ manualCalls = 0
    /\ overlapped = FALSE

-----------------------------------------------------------------------------
(* UpdateIpdb, step by step.                                               *)

Goto(u, p) == update' = [update EXCEPT ![u] = p]

Begin(u) ==
    /\ up /\ ~Running(u)
    /\ Goto(u, [pc |-> "fetch", next |-> 1])
    /\ overlapped' = (overlapped \/ ~Quiet)
    /\ UNCHANGED <<procVars, file, envVars>>

\* A scheduler that is started runs the job, in singleton mode: not while it
\* is still running.
BeginCron == job = "started" /\ Begin(Cron) /\ UNCHANGED manualCalls

BeginManual ==
    /\ manualCalls < MaxManual
    /\ Begin(Manual)
    /\ manualCalls' = manualCalls + 1

\* Mutant: a download that failed ends the update.
FetchOrReturn(u) ==
    /\ update[u].pc = "fetch"
    /\ LET i == update[u].next
       IN  \/ mirror[i] = Down /\ Goto(u, Idle)
           \/ mirror[i] = Broken /\ Goto(u, [pc |-> "create", body |-> <<Page>>])
           \/ \E v \in Versions :
                 mirror[i] = v /\ Goto(u, [pc |-> "create", body |-> Whole(v)])
    /\ UNCHANGED <<procVars, file, envVars, history>>

(* The next mirror is tried only if this one could not be reached: the     *)
(* status of an answer is not looked at.  When none could, the update goes *)
(* on with whatever the response holds.                                    *)
Fetch(u) ==
    /\ update[u].pc = "fetch"
    /\ LET i == update[u].next
       IN  \/ /\ mirror[i] = Down /\ i < Mirrors
              /\ Goto(u, [pc |-> "fetch", next |-> i + 1])
           \/ /\ mirror[i] = Down /\ i = Mirrors
              /\ \E rest \in Cut : Goto(u, [pc |-> "create", body |-> rest])
           \/ /\ mirror[i] = Broken
              /\ Goto(u, [pc |-> "create", body |-> <<Page>>])
           \/ \E v \in Versions :
                 mirror[i] = v /\ Goto(u, [pc |-> "create", body |-> Whole(v)])
    /\ UNCHANGED <<procVars, file, envVars, history>>

\* Mutant: the file is opened as it is.
CreateKeeps(u) ==
    /\ update[u].pc = "create"
    /\ IF disk
       THEN Goto(u, [pc |-> "write", body |-> update[u].body, written |-> 0])
       ELSE Goto(u, Idle)
    /\ UNCHANGED <<procVars, file, envVars, history>>

\* os.Create truncates the file, or fails and the update ends.
Create(u) ==
    /\ update[u].pc = "create"
    /\ IF disk
       THEN /\ file' = <<>>
            /\ Goto(u, [pc |-> "write", body |-> update[u].body, written |-> 0])
       ELSE Goto(u, Idle) /\ UNCHANGED file
    /\ UNCHANGED <<procVars, envVars, history>>

\* Mutant: the file is opened for appending.
PutAtEnd(c, i, b) == Append(c, b)

\* Block b at position i, whatever length the file has by now.
Put(c, i, b) ==
    [j \in 1..(IF i > Len(c) THEN i ELSE Len(c)) |->
        IF j = i THEN b ELSE IF j <= Len(c) THEN c[j] ELSE Hole]

\* f1.Write: a failure leaves what has been written so far.
Write(u) ==
    /\ update[u].pc = "write"
    /\ LET body == update[u].body
           next == update[u].written + 1
       IN  \/ /\ next > Len(body)
              /\ Goto(u, [pc |-> "read", got |-> <<>>])
              /\ UNCHANGED file
           \/ /\ next <= Len(body) /\ disk
              /\ file' = Put(file, next, body[next])
              /\ Goto(u, [update[u] EXCEPT !.written = next])
           \/ /\ next <= Len(body) /\ ~disk
              /\ Goto(u, Idle)
              /\ UNCHANGED file
    /\ UNCHANGED <<procVars, envVars, history>>

\* Mutant: the file is taken for sound.
ReadUnchecked(u) ==
    /\ update[u].pc = "read"
    /\ LET got == update[u].got
       IN  IF Len(got) < Len(file)
           THEN Goto(u, [pc |-> "read", got |-> Append(got, file[Len(got) + 1])])
           ELSE Goto(u, [pc |-> "assign", got |-> got])
    /\ UNCHANGED <<procVars, file, envVars, history>>

\* Mutant: NewCity instead of Reload, its result assigned whatever it is.
ReadIntoIpdb(u) ==
    /\ update[u].pc = "read"
    /\ LET got == update[u].got
       IN  IF Len(got) < Len(file)
           THEN /\ Goto(u, [pc |-> "read",
                            got |-> Append(got, file[Len(got) + 1])])
                /\ UNCHANGED db
           ELSE /\ Goto(u, Idle)
                /\ db' = Loaded(got)
    /\ UNCHANGED <<up, job, file, envVars, history>>

\* Ipdb.Reload reads the file again, from its start to what is now its end,
\* and gives up on one it does not accept.
Read(u) ==
    /\ update[u].pc = "read"
    /\ LET got == update[u].got
       IN  IF Len(got) < Len(file)
           THEN Goto(u, [pc |-> "read", got |-> Append(got, file[Len(got) + 1])])
           ELSE IF Accepts(got)
           THEN Goto(u, [pc |-> "assign", got |-> got])
           ELSE Goto(u, Idle)
    /\ UNCHANGED <<procVars, file, envVars, history>>

ProcessGone ==
    /\ up' = FALSE
    /\ db' = NoDb
    /\ job' = "none"
    /\ update' = [u \in Updaters |-> Idle]

\* Mutant: what was read goes into a variable of its own.
AssignElsewhere(u) ==
    /\ update[u].pc = "assign"
    /\ Goto(u, Idle)
    /\ UNCHANGED <<procVars, file, envVars, history>>

\* ... and puts it in place of the old contents, through a pointer that is
\* nil if the database was never loaded.
Assign(u) ==
    /\ update[u].pc = "assign"
    /\ IF db = NoDb
       THEN ProcessGone
       ELSE db' = update[u].got /\ Goto(u, Idle) /\ UNCHANGED <<up, job>>
    /\ UNCHANGED <<file, envVars, history>>

Step(u) == Fetch(u) \/ Create(u) \/ Write(u) \/ Read(u) \/ Assign(u)

-----------------------------------------------------------------------------
(* The process ends, at any point of an update, and starts again.          *)

Crash == up /\ ProcessGone /\ UNCHANGED <<file, envVars, history>>

Start ==
    /\ ~up
    /\ up' = TRUE
    /\ db' = Loaded(file)
    /\ job' \in JobsAfterLoading(file)
    /\ UNCHANGED <<file, envVars, update, history>>

\* The mirrors and the disk fail and recover.
Weather ==
    /\ \/ \E i \in 1..Mirrors, s \in MirrorState :
             mirror' = [mirror EXCEPT ![i] = s] /\ UNCHANGED disk
       \/ disk' = ~disk /\ UNCHANGED mirror
    /\ UNCHANGED <<procVars, file, update, history>>

Next ==
    \/ BeginCron
    \/ BeginManual
    \/ \E u \in Updaters : Step(u)
    \/ Crash
    \/ Start
    \/ Weather

(* A scheduler that is started runs its job again and again, and an update *)
(* in progress goes on: its requests have a timeout (ipdb.go:47).  No call *)
(* of Manual, no restart and no change of weather is promised, and of a    *)
(* scheduler that is not started nothing at all.                           *)
Fairness ==
    /\ WF_vars(BeginCron)
    /\ \A u \in Updaters : WF_vars(Step(u))

Spec == Init /\ [][Next]_vars /\ Fairness

-----------------------------------------------------------------------------
(* Properties.                                                             *)

(* While updates do not overlap, what is served is a release as its makers *)
(* published it: never an error page, half a download, half a file after a *)
(* full disk or a crash, or parts of two releases.                         *)
ServesGenuine == ~overlapped => db = NoDb \/ Genuine(db)

(* Memory and file agree between updates, unless the file is unusable: a   *)
(* restart then serves what was served before it.                          *)
RestartServesTheSame ==
    up /\ Quiet /\ ~overlapped /\ db # NoDb /\ Accepts(file) => db = file

(* A failed update never takes the database away from a running process.   *)
KeepsServing == [][up /\ up' /\ db # NoDb => db' # NoDb]_vars

FairWeather(i) ==
    /\ up /\ disk /\ ~overlapped
    /\ mirror[i] \in Versions
    /\ \A j \in 1..(i - 1) : mirror[j] # Broken

(* As long as one and the same mirror sends releases and none before it an *)
(* error page, files can be written and the process lives, the file is     *)
(* sound after every update: the next start finds a database.  None of     *)
(* these can be left out; mirrors failing in turn can empty the file.      *)
FairWeatherKeepsTheFile ==
    \A i \in 1..Mirrors :
        Accepts(file) /\ []FairWeather(i) => [](Quiet => Accepts(file))

(* Once one mirror sends the same release for good and those before it are *)
(* unreachable for good, a process that has its update in a scheduler that *)
(* was started (service.go:122) ends up serving that release, whatever     *)
(* failed before and however updates overlapped.                           *)
ServesTheReleaseInTheEnd ==
    \A v \in Versions, i \in 1..Mirrors :
        <>[](/\ up /\ job = "started" /\ disk
             /\ mirror[i] = v
             /\ \A j \in 1..(i - 1) : mirror[j] = Down)
        => <>[](db = Whole(v))

=============================================================================
