----------------------------- MODULE Bootstrap ------------------------------
(***************************************************************************)
(* InitConfig of service/config.go: one goroutine that goes through the    *)
(* sections of the configuration in a fixed order and sets the package's   *)
(* globals from them, and the uses of those globals afterwards.  A program *)
(* whose configuration has changed calls it again, once it has returned    *)
(* nil: nothing the call before has set is taken back.                     *)
(*                                                                         *)
(* Most of the globals are pointers that stay nil when a section is left   *)
(* out or its initialisation fails without ending the process; a step that *)
(* dereferences one of them panics.                                        *)
(***************************************************************************)
EXTENDS Integers, Sequences, FiniteSets

CONSTANTS Configs,   \* the configurations considered
          Rereads,   \* Rereads[c]: what a later call may find instead of c
          MaxRedis,  \* bound: the [[database.redis]] entries
          MaxRuns,   \* bound: the calls of InitConfig
          None       \* no client

Index == -1..MaxRedis

(* What of a configuration the code's branches look at.                    *)
(*   server, log  [server] with a trace name or without one, or no [server]*)
(*   gorm         no type, a type initDB knows, or another                 *)
(*   redis        for each entry, has it both a network and an address     *)
(*   cron, async  a scheduler, and cron-async; flake: a start time         *)
(*   ipdb         a path and an interval                                   *)
(*   limiter      the index into Rdb, -1 for none; cache: the same, or None*)
(*                for no [cache] section                                   *)
Config ==
    [server   : {"absent", "untraced", "traced"},
     log      : BOOLEAN,
     gorm     : {"none", "known", "unknown"},
     redis    : UNION {[1..n -> BOOLEAN] : n \in 0..MaxRedis},
     mongo    : BOOLEAN,
     fastHttp : BOOLEAN,
     cron     : BOOLEAN,
     async    : BOOLEAN,
     flake    : BOOLEAN,
     ipdb     : BOOLEAN,
     limiter  : Index,
     cache    : Index \cup {None}]

\* A Redis client, named by the call and the entry it was made for.
RedisClient == [run : 1..MaxRuns, entry : 1..MaxRedis]

ASSUME ConfigsAssumption == Configs \subseteq Config

\* What a call has read stays in `k', on which the next one only builds: a
\* section that is there does not go away, though its values may change.
ASSUME RereadsAssumption ==
    /\ Rereads \in [Configs -> SUBSET Configs]
    /\ \A c \in Configs : \A d \in Rereads[c] :
           /\ c.server # "absent" => d.server # "absent"
           /\ c.log => d.log

ASSUME BoundsAssumption ==
    /\ MaxRedis \in Nat /\ MaxRuns \in Nat \ {0}
    /\ None \notin Index /\ None \notin RedisClient

VARIABLES cfg,      \* the configuration in force
          runs,     \* the call of InitConfig it is
          pc,       \* the step InitConfig is at, or how it ended
          op,       \* what ran last
          entry,    \* InitRdb's loop: the entry it is at
          up,       \* the globals that are not nil
          traced,   \* Db's logger looks for a trace id
          started,  \* the scheduler in GoCron has been started
          jobs,     \* the calls that scheduled an update of the IP database
          due,      \* those that did so in a scheduler that is started
          Rdb,      \* the clients
          Limiter,  \* the client it uses, or None
          distClient,  \* the client deletions from caches are told through
          before,   \* history: the clients there were when this call began
          failed    \* history: what failed in this call and was passed over

background == <<started, jobs, due>>
clients == <<Rdb, Limiter, distClient>>
globals == <<up, traced, background, clients>>
vars == <<cfg, runs, pc, op, entry, globals, before, failed>>

Global == {"ZapLog", "Db", "Mdb", "FastHttpClient", "GoCron", "SonyFlake", "Ipdb"}

\* Mutant: the database is loaded before there is a scheduler.
StepsIpdbFirst == <<"load", "log", "gorm", "redis", "mongo", "fastHttp", "ipdb",
                    "cron", "flake", "limiter", "cache", "ready">>

Steps == <<"load", "log", "gorm", "redis", "mongo", "fastHttp", "cron",
           "flake", "ipdb", "limiter", "cache", "ready">>

BootOps == {Steps[i] : i \in 1..(Len(Steps) - 1)}

\* The process is gone, or InitConfig has returned an error.
Ends == {"fatal", "panic", "error"}

Uses == {"GetGeneralTracer", "query", "GetGinTracer", "handler query", "UpdateIpdb"}

Quiet == {"GoCron", "SonyFlake", "Ipdb", "job"}

TypeOK ==
    /\ cfg \in Configs
    /\ pc \in BootOps \cup {"ready"} \cup Ends
    /\ runs \in 1..MaxRuns
    /\ op \in {"start"} \cup BootOps \cup Uses
    /\ entry \in 1..(MaxRedis + 1)
    /\ up \subseteq Global
    /\ {traced, started} \subseteq BOOLEAN
    /\ jobs \subseteq 1..MaxRuns /\ due \subseteq jobs
    /\ Rdb \in Seq(RedisClient)
    /\ {Limiter, distClient} \subseteq RedisClient \cup {None}
    /\ before \in 0..Len(Rdb)
    /\ failed \subseteq Quiet

Init ==
    /\ cfg \in Configs
    /\ pc = "load" /\ op = "start"
    /\ runs = 1 /\ entry = 1
    /\ up = {} /\ traced = FALSE
    /\ started = FALSE /\ jobs = {} /\ due = {}
    /\ Rdb = <<>> /\ Limiter = None /\ distClient = None
    /\ before = 0 /\ failed = {}

-----------------------------------------------------------------------------
(* Moving on, and the ways to end.                                         *)

At(s) == pc = s /\ op' = s /\ UNCHANGED <<runs, before>>

Step(s) == At(s) /\ UNCHANGED <<cfg, entry>>

Go == pc' = Steps[1 + CHOOSE i \in 1..Len(Steps) : Steps[i] = pc]

Return(how) == pc' = how /\ UNCHANGED <<globals, failed>>

Set(g) == up' = up \cup {g} /\ UNCHANGED <<traced, background, clients, failed>>

\* A section that is not there.
Pass == Go /\ UNCHANGED <<globals, failed>>

HasServer == cfg.server # "absent"
HasLogger == "ZapLog" \in up

\* ZapLog.Fatal, and what is left of it without a logger.
Fatal == Return(IF HasLogger THEN "fatal" ELSE "panic")

\* A step that ends by logging its success.
Succeed(effect) == IF HasLogger THEN Go /\ effect ELSE Return("panic")

-----------------------------------------------------------------------------
(* The steps.                                                              *)

\* File, environment and the copy into config.  Any of them may fail, before
\* config is touched.
Load ==
    /\ At("load") /\ UNCHANGED entry
    /\ \/ /\ Pass
          /\ IF runs = 1 THEN UNCHANGED cfg ELSE cfg' \in Rereads[cfg]
       \/ Return("error") /\ UNCHANGED cfg

InitLogger ==
    /\ Step("log")
    /\ IF cfg.log THEN Go /\ Set("ZapLog") ELSE Pass

\* The database's logger looks for a trace id if there is a name for it now.
SetDb ==
    /\ up' = up \cup {"Db"}
    /\ traced' = (cfg.server = "traced")
    /\ UNCHANGED <<background, clients, failed>>

\* initDB.  Of a type it does not know it keeps a nil driver, which fails as
\* the database is opened or when its connection pool is used.
InitGORM ==
    /\ Step("gorm")
    /\ \/ cfg.gorm = "none" /\ Pass
       \/ cfg.gorm # "none" /\ ~HasServer /\ Return("panic")
       \/ cfg.gorm = "known" /\ HasServer /\ (Succeed(SetDb) \/ Fatal)
       \/ cfg.gorm = "unknown" /\ HasServer /\ (Return("panic") \/ Fatal)

\* The client of the entry InitRdb is at.
Connected ==
    /\ Rdb' = Append(Rdb, [run |-> runs, entry |-> entry])
    /\ UNCHANGED <<pc, up, traced, background, Limiter, distClient, failed>>

\* Mutant: an entry that cannot be reached is left out.
InitRdbLenient ==
    /\ At("redis") /\ UNCHANGED cfg
    /\ IF entry > Len(cfg.redis)
       THEN Pass /\ UNCHANGED entry
       ELSE /\ entry' = entry + 1
            /\ \/ cfg.redis[entry] /\ Connected
               \/ UNCHANGED <<pc, globals, failed>>

(* InitRdb: one entry at a time.  An entry without network or address is   *)
(* left out of Rdb, one that does not answer ends the process.             *)
InitRdb ==
    /\ At("redis") /\ UNCHANGED cfg
    /\ IF entry > Len(cfg.redis)
       THEN Pass /\ UNCHANGED entry
       ELSE /\ entry' = entry + 1
            /\ \/ ~cfg.redis[entry] /\ UNCHANGED <<pc, globals, failed>>
               \/ cfg.redis[entry] /\ HasLogger /\ Connected
               \/ cfg.redis[entry] /\ ~HasLogger /\ Return("panic")
               \/ cfg.redis[entry] /\ Fatal

InitMongo ==
    /\ Step("mongo")
    /\ IF cfg.mongo THEN Succeed(Set("Mdb")) \/ Fatal ELSE Pass

InitFastHttp ==
    /\ Step("fastHttp")
    /\ IF cfg.fastHttp THEN Go /\ Set("FastHttpClient") ELSE Pass

\* Mutant: what failed leaves the global it should have set as it was.
UnsetNot(g) == UNCHANGED <<globals, failed>>

\* What fails and is passed over has set its global to nil all the same.
Unset(g) ==
    /\ up' = up \ {g}
    /\ failed' = failed \cup {g}
    /\ UNCHANGED <<traced, background, clients>>

FailQuietly(g) == IF HasLogger THEN Go /\ Unset(g) ELSE Return("panic")

\* The scheduler is started now, with cron-async, or never.  One a call
\* before has made is left to itself, with its jobs.
InitGoCron ==
    /\ Step("cron")
    /\ \/ ~cfg.cron /\ Pass
       \/ /\ cfg.cron /\ Go
          /\ up' = up \cup {"GoCron"}
          /\ started' = cfg.async
          /\ UNCHANGED <<traced, jobs, due, clients, failed>>
       \/ cfg.cron /\ FailQuietly("GoCron")

InitSonyFlake ==
    /\ Step("flake")
    /\ IF cfg.flake THEN (Go /\ Set("SonyFlake")) \/ FailQuietly("SonyFlake") ELSE Pass

\* The update is scheduled if there is a scheduler, of this call or one
\* before, and NewJob has no error.
Schedule ==
    \/ "GoCron" \notin up /\ UNCHANGED <<jobs, due, failed>>
    \/ /\ "GoCron" \in up
       /\ jobs' = jobs \cup {runs}
       /\ due' = IF started THEN due \cup {runs} ELSE due
       /\ UNCHANGED failed
    \/ /\ "GoCron" \in up
       /\ failed' = failed \cup {"job"}
       /\ UNCHANGED <<jobs, due>>

\* InitIpdb, whose result is dropped.
InitIpdb ==
    /\ Step("ipdb")
    /\ \/ ~cfg.ipdb /\ Pass
       \/ cfg.ipdb /\ Go /\ Unset("Ipdb")
       \/ /\ cfg.ipdb /\ Go
          /\ up' = up \cup {"Ipdb"}
          /\ Schedule
          /\ UNCHANGED <<traced, started, clients>>

InRange(index) == index > -1 /\ Len(Rdb) > index

\* Go's slices count from 0.
Client(index) == Rdb[index + 1]

UseForLimit(client) ==
    /\ Limiter' = client
    /\ UNCHANGED <<up, traced, background, Rdb, distClient, failed>>

\* Mutant: the configuration's entries are what the index counts.
InitLimitByEntry ==
    /\ Step("limiter")
    /\ \/ ~InRange(cfg.limiter) /\ Pass
       \/ InRange(cfg.limiter) /\ ~HasServer /\ Return("panic")
       \/ InRange(cfg.limiter) /\ HasServer /\ Fatal
       \/ /\ InRange(cfg.limiter) /\ HasServer
          /\ Succeed(UseForLimit([run |-> runs, entry |-> cfg.limiter]))

\* InitLimit resets a key to see whether Redis answers; the command goes
\* through LogHook, which reads config.Server.
InitLimit ==
    /\ Step("limiter")
    /\ \/ ~InRange(cfg.limiter) /\ Pass
       \/ InRange(cfg.limiter) /\ ~HasServer /\ Return("panic")
       \/ InRange(cfg.limiter) /\ HasServer /\ Fatal
       \/ /\ InRange(cfg.limiter) /\ HasServer
          /\ Succeed(UseForLimit(Client(cfg.limiter)))

\* The cache is local.  With a client package dist is told, and without one
\* it keeps what a call before has told it.
InitLocalCache ==
    /\ Step("cache") /\ Go
    /\ distClient' = IF cfg.cache # None /\ InRange(cfg.cache)
                     THEN Client(cfg.cache)
                     ELSE distClient
    /\ UNCHANGED <<up, traced, background, Rdb, Limiter, failed>>

Boot == \/ Load \/ InitLogger \/ InitGORM \/ InitRdb \/ InitMongo \/ InitFastHttp
        \/ InitGoCron \/ InitSonyFlake \/ InitIpdb \/ InitLimit \/ InitLocalCache

-----------------------------------------------------------------------------
(* Uses of the globals once InitConfig has returned nil.                   *)

Use(u, panics) ==
    /\ pc = "ready" /\ op' = u
    /\ pc' = IF panics THEN "panic" ELSE pc
    /\ UNCHANGED <<cfg, runs, entry, globals, before, failed>>

\* A background task's tracer: every global it dereferences must be there.
GetGeneralTracer ==
    Use("GetGeneralTracer", ~HasServer \/ ~HasLogger \/ "Db" \notin up)

(* Logging a statement, the Context function of initDB's logger looks for  *)
(* the trace id: in the header of a gin context, and otherwise, having     *)
(* found a value in a plain one, again in the header of the gin context it *)
(* has not got.  There is no such function if the trace had no name when   *)
(* the database was opened.  The tracer's context has a value under the    *)
(* name there is now, the empty one too.                                   *)
ContextPanics(isGin) == traced /\ ~isGin

\* A statement on that tracer's Db, whose context is a plain one.
TracerQuery ==
    /\ op = "GetGeneralTracer"
    /\ Use("query", ContextPanics(FALSE))

\* Mutant: Db is not checked, as in GetGeneralTracer.
GetGinTracerUnguarded ==
    Use("GetGinTracer", ~HasServer \/ ~HasLogger \/ "Db" \notin up)

GetGinTracer == Use("GetGinTracer", ~HasServer \/ ~HasLogger)

\* A statement in a handler: the context is the *gin.Context.
HandlerQuery ==
    /\ op = "GetGinTracer" /\ "Db" \in up
    /\ Use("handler query", ContextPanics(TRUE))

\* An update by a scheduler that is started calls FastHttpClient.Do, and
\* Ipdb.Reload unless it gives up before.
UpdateIpdb ==
    /\ due # {}
    /\ \/ Use("UpdateIpdb", "FastHttpClient" \notin up \/ "Ipdb" \notin up)
       \/ "FastHttpClient" \in up /\ Use("UpdateIpdb", FALSE)

\* InitConfig is called once more.
InitConfigAgain ==
    /\ pc = "ready" /\ runs < MaxRuns
    /\ runs' = runs + 1 /\ pc' = Steps[1] /\ op' = "start" /\ entry' = 1
    /\ before' = Len(Rdb) /\ failed' = {}
    /\ UNCHANGED <<cfg, globals>>

Next == Boot \/ InitConfigAgain \/ GetGeneralTracer \/ TracerQuery \/ GetGinTracer \/ HandlerQuery
             \/ UpdateIpdb

Spec == Init /\ [][Next]_vars

-----------------------------------------------------------------------------
(* Properties.                                                             *)

(* With [server], [log] and a database type initDB knows, no combination   *)
(* of other sections, present, absent or failing, and no order of uses and *)
(* of calls makes InitConfig or a handler panic; the rest of the program   *)
(* panics for four reasons: an update without a client (ipdb.go:56) or     *)
(* after InitConfig was called again and lost the database (ipdb.go:68), a *)
(* task's tracer without a database (service.go:74), and a statement on    *)
(* one that was opened when there was a trace name (gorm.go:66).           *)
SoundConfig == HasServer /\ cfg.log /\ cfg.gorm # "unknown"

PanicsHaveReasons ==
    SoundConfig /\ pc = "panic" =>
        \/ op = "UpdateIpdb" /\ (~cfg.fastHttp \/ (runs > 1 /\ "Ipdb" \notin up))
        \/ op = "GetGeneralTracer" /\ cfg.gorm = "none"
        \/ /\ op = "query"
           /\ IF cfg.gorm = "none" THEN runs > 1 ELSE cfg.server = "traced"

(* InitConfig returns nil only if every database it was told of is         *)
(* connected: this call's clients are those of its usable entries, behind  *)
(* the ones of the calls before, in the order of calls and entries, and    *)
(* there is a limiter if its index fits.                                   *)
Usable == {i \in 1..Len(cfg.redis) : cfg.redis[i]}

Earlier(client, other) ==
    \/ client.run < other.run
    \/ client.run = other.run /\ client.entry < other.entry

ReadyMeansConnected ==
    pc = "ready" =>
        /\ cfg.gorm # "none" => "Db" \in up
        /\ cfg.mongo => "Mdb" \in up
        /\ {Rdb[i] : i \in (before + 1)..Len(Rdb)}
              = {[run |-> runs, entry |-> e] : e \in Usable}
        /\ \A j \in 1..Len(Rdb) : \A i \in 1..(j - 1) : Earlier(Rdb[i], Rdb[j])
        /\ InRange(cfg.limiter) => Limiter # None

(* `limiter' and `rdb' are indexes into Rdb and not into the entries: they *)
(* mean the entry of that number only as long as no entry before it was    *)
(* left out, and otherwise a later one.  After a call before they mean,    *)
(* and never get past, what that call's configuration put there first.     *)
MeansEntry(client, index) ==
    LET n == index - before + 1
    IN  IF index < before
        THEN client.run < runs
        ELSE /\ client.run = runs
             /\ client.entry >= n
             /\ (\A i \in 1..n : cfg.redis[i]) <=> client.entry = n

IndexesMeanEntries ==
    pc = "ready" =>
        /\ InRange(cfg.limiter) => MeansEntry(Limiter, cfg.limiter)
        /\ cfg.cache # None /\ InRange(cfg.cache) => MeansEntry(distClient, cfg.cache)

(* Where a call has left a database and a scheduler its update is          *)
(* scheduled, unless NewJob failed: the sections are gone through in an    *)
(* order that has the scheduler ready in time.  Scheduled it is by nothing *)
(* else, and run only by a scheduler that was made with cron-async.        *)
UpdateIsScheduled ==
    pc = "ready" =>
        /\ cfg.ipdb /\ {"Ipdb", "GoCron"} \subseteq up =>
               runs \in jobs \/ "job" \in failed
        /\ runs \in jobs => cfg.ipdb /\ {"Ipdb", "GoCron"} \subseteq up
        /\ runs \in jobs /\ cfg.cron => (runs \in due <=> cfg.async)

(* InitConfig returns nil whatever became of the scheduler, the ids and    *)
(* the IP database, whose results it drops; but their globals tell: what   *)
(* the configuration asks for and is not nil is of this very call, and not *)
(* what a call before has left.                                            *)
NilTellsFailure ==
    pc = "ready" =>
        /\ cfg.cron  => ("GoCron" \in up <=> "GoCron" \notin failed)
        /\ cfg.flake => ("SonyFlake" \in up <=> "SonyFlake" \notin failed)
        /\ cfg.ipdb  => ("Ipdb" \in up <=> "Ipdb" \notin failed)

(* What a comment promises, and the code does not do.                      *)

(* gorm.go: the logger gets the trace id from the context, after checking  *)
(* that there is one.  A statement of a task that has one can be logged.   *)
TracedQueriesAreLogged == ~(pc = "panic" /\ op = "query")

=============================================================================
