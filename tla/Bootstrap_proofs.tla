-------------------------- MODULE Bootstrap_proofs --------------------------
(***************************************************************************)
(* What InitConfig leaves behind, for every set of configurations, every   *)
(* number of Redis entries and of calls.                                   *)
(***************************************************************************)
EXTENDS Bootstrap, FiniteSetTheorems, TLAPS

-----------------------------------------------------------------------------
(* The order of the steps.                                                 *)

LEMMA StepsFacts ==
    /\ Len(Steps) = 12
    /\ Steps[1] = "load" /\ Steps[2] = "log" /\ Steps[3] = "gorm" /\ Steps[4] = "redis"
    /\ Steps[5] = "mongo" /\ Steps[6] = "fastHttp" /\ Steps[7] = "cron"
    /\ Steps[8] = "flake" /\ Steps[9] = "ipdb" /\ Steps[10] = "limiter"
    /\ Steps[11] = "cache" /\ Steps[12] = "ready"
BY DEF Steps

\* No step comes twice, so Go is to the one after it.
LEMMA GoFacts ==
    ASSUME NEW k \in 1..11, pc = Steps[k], Go
    PROVE  pc' = Steps[k + 1]
<1> DEFINE c == CHOOSE i \in 1..Len(Steps) : Steps[i] = pc
<1>1. \A i, j \in 1..12 : Steps[i] = Steps[j] => i = j
  <2> SUFFICES ASSUME NEW i \in 1..12, NEW j \in 1..12, Steps[i] = Steps[j] PROVE i = j
    OBVIOUS
  <2>1. \/ i = 1 \/ i = 2 \/ i = 3 \/ i = 4 \/ i = 5 \/ i = 6
        \/ i = 7 \/ i = 8 \/ i = 9 \/ i = 10 \/ i = 11 \/ i = 12
    OBVIOUS
  <2>2. \/ j = 1 \/ j = 2 \/ j = 3 \/ j = 4 \/ j = 5 \/ j = 6
        \/ j = 7 \/ j = 8 \/ j = 9 \/ j = 10 \/ j = 11 \/ j = 12
    OBVIOUS
  <2>3. QED
    BY <2>1, <2>2, StepsFacts
<1>2. c = k
  BY <1>1, StepsFacts
<1>3. pc' = Steps[1 + c]
  BY DEF Go
<1> HIDE DEF c
<1>4. QED
  BY <1>2, <1>3

LEMMA NextStep ==
    ASSUME Go
    PROVE  /\ pc = "load" => pc' = "log"
           /\ pc = "log" => pc' = "gorm"
           /\ pc = "gorm" => pc' = "redis"
           /\ pc = "redis" => pc' = "mongo"
           /\ pc = "mongo" => pc' = "fastHttp"
           /\ pc = "fastHttp" => pc' = "cron"
           /\ pc = "cron" => pc' = "flake"
           /\ pc = "flake" => pc' = "ipdb"
           /\ pc = "ipdb" => pc' = "limiter"
           /\ pc = "limiter" => pc' = "cache"
           /\ pc = "cache" => pc' = "ready"
<1>1. \A k \in 1..11 : pc = Steps[k] => pc' = Steps[k + 1]
  BY GoFacts
<1>2. /\ pc = Steps[1] => pc' = Steps[2]
      /\ pc = Steps[2] => pc' = Steps[3]
      /\ pc = Steps[3] => pc' = Steps[4]
      /\ pc = Steps[4] => pc' = Steps[5]
      /\ pc = Steps[5] => pc' = Steps[6]
      /\ pc = Steps[6] => pc' = Steps[7]
      /\ pc = Steps[7] => pc' = Steps[8]
      /\ pc = Steps[8] => pc' = Steps[9]
      /\ pc = Steps[9] => pc' = Steps[10]
      /\ pc = Steps[10] => pc' = Steps[11]
      /\ pc = Steps[11] => pc' = Steps[12]
  BY <1>1
<1>3. QED
  BY <1>2, StepsFacts

LEMMA BootOpsFacts ==
    BootOps = {"load", "log", "gorm", "redis", "mongo", "fastHttp", "cron",
               "flake", "ipdb", "limiter", "cache"}
<1>1. BootOps = {Steps[i] : i \in 1..11}
  BY StepsFacts DEF BootOps
<1>2. {Steps[i] : i \in 1..11} = {Steps[1], Steps[2], Steps[3], Steps[4], Steps[5],
           Steps[6], Steps[7], Steps[8], Steps[9], Steps[10], Steps[11]}
  OBVIOUS
<1>3. QED
  BY <1>1, <1>2, StepsFacts

-----------------------------------------------------------------------------
(* The invariant.                                                          *)

\* Where InitConfig is once a step is behind it.
AfterCache    == {"ready"}
AfterLimiter  == {"cache"} \cup AfterCache
AfterIpdb     == {"limiter"} \cup AfterLimiter
AfterFlake    == {"ipdb"} \cup AfterIpdb
AfterCron     == {"flake"} \cup AfterFlake
AfterFastHttp == {"cron"} \cup AfterCron
AfterMongo    == {"fastHttp"} \cup AfterFastHttp
AfterRedis    == {"mongo"} \cup AfterMongo
AfterGorm     == {"redis"} \cup AfterRedis
AfterLog      == {"gorm"} \cup AfterGorm
Alive         == {"load", "log"} \cup AfterLog

Placed ==
    /\ cfg \in Configs
    /\ pc \in Alive \cup Ends
    /\ runs \in 1..MaxRuns
    /\ op \in {"start"} \cup BootOps \cup Uses
    /\ up \subseteq Global
    /\ traced \in BOOLEAN /\ started \in BOOLEAN
    /\ failed \subseteq Quiet

\* A section that is behind has set its global.
UpIfConfigured ==
    /\ pc \in AfterLog /\ cfg.log => HasLogger
    /\ pc \in AfterGorm /\ cfg.gorm # "none" => "Db" \in up
    /\ pc \in AfterMongo /\ cfg.mongo => "Mdb" \in up
    /\ pc \in AfterFastHttp /\ cfg.fastHttp => "FastHttpClient" \in up

\* The database's logger is that of the last call that opened one.
TracedByName ==
    /\ pc \in AfterGorm /\ cfg.gorm # "none" => (traced <=> cfg.server = "traced")
    /\ runs = 1 /\ (pc \in Alive \ AfterGorm \/ cfg.gorm = "none") => ~traced

\* What the call says of its update, and does not take back.
Scheduled ==
    /\ cfg.ipdb /\ {"Ipdb", "GoCron"} \subseteq up => runs \in jobs \/ "job" \in failed
    /\ runs \in jobs => cfg.ipdb /\ {"Ipdb", "GoCron"} \subseteq up
    /\ runs \in jobs /\ cfg.cron => (runs \in due <=> cfg.async)

\* A call schedules at most one update, when it comes to the database.
JobsOfCalls ==
    /\ jobs \subseteq 1..runs /\ due \subseteq jobs
    /\ pc \in Alive \ AfterIpdb => runs \notin jobs
    /\ pc \in AfterIpdb => Scheduled
    /\ pc \in AfterCron /\ cfg.cron /\ "GoCron" \in up => started = cfg.async

\* A failure that is passed over is told by its global, once the step is behind.
FailuresTold ==
    /\ pc \in Alive \ AfterCron => failed = {}
    /\ pc \in Alive \ AfterFlake => failed \subseteq {"GoCron"}
    /\ pc \in Alive \ AfterIpdb => failed \subseteq {"GoCron", "SonyFlake"}
    /\ pc \in AfterCron /\ cfg.cron   => ("GoCron" \in up <=> "GoCron" \notin failed)
    /\ pc \in AfterFlake /\ cfg.flake => ("SonyFlake" \in up <=> "SonyFlake" \notin failed)
    /\ pc \in AfterIpdb /\ cfg.ipdb   => ("Ipdb" \in up <=> "Ipdb" \notin failed)

\* How far InitConfig is and what it has set.
Flow ==
    /\ Placed /\ UpIfConfigured /\ TracedByName
    /\ JobsOfCalls /\ FailuresTold
    /\ PanicsHaveReasons

-----------------------------------------------------------------------------
(* How far InitConfig is.                                                  *)

LEMMA FlowInit == Init => Flow
<1> SUFFICES ASSUME Init PROVE Flow
  OBVIOUS
<1> USE DEF Alive, AfterLog, AfterGorm, AfterRedis, AfterMongo, AfterFastHttp, AfterCron,
            AfterFlake, AfterIpdb, AfterLimiter, AfterCache
<1>1. 1 \in 1..MaxRuns
  BY BoundsAssumption
<1>2. Placed
  BY <1>1 DEF Init, Placed
<1>3. UpIfConfigured /\ TracedByName
  BY DEF Init, UpIfConfigured, TracedByName
<1>4. JobsOfCalls /\ FailuresTold
  BY DEF Init, JobsOfCalls, FailuresTold
<1>5. PanicsHaveReasons
  BY DEF Init, PanicsHaveReasons
<1>6. QED
  BY <1>2, <1>3, <1>4, <1>5 DEF Flow

\* A step that goes on from s to t, or ends the process or the call.
Moves(s, t) ==
    /\ pc = s /\ op' = s /\ cfg' = cfg /\ runs' = runs
    /\ pc' \in {t} \cup Ends
    /\ pc' = "panic" => ~SoundConfig \/ (s # "log" /\ ~HasLogger)

LEMMA MovesPlaced ==
    ASSUME Placed, NEW s \in BootOps, NEW t \in Alive, Moves(s, t), up' \subseteq Global,
           traced' \in BOOLEAN, started' \in BOOLEAN, failed' \subseteq Quiet
    PROVE  Placed'
BY DEF Placed, Moves

LEMMA MovesPanics ==
    ASSUME Placed, UpIfConfigured, NEW s \in BootOps \ {"load"}, NEW t \in Alive, Moves(s, t)
    PROVE  PanicsHaveReasons'
<1>1. t # "panic"
  BY DEF Alive, AfterLog, AfterGorm, AfterRedis, AfterMongo, AfterFastHttp, AfterCron,
         AfterFlake, AfterIpdb, AfterLimiter, AfterCache
<1>2. SoundConfig /\ s # "log" => HasLogger
  BY BootOpsFacts DEF UpIfConfigured, Moves, SoundConfig, AfterLog, AfterGorm, AfterRedis,
         AfterMongo, AfterFastHttp, AfterCron, AfterFlake, AfterIpdb, AfterLimiter, AfterCache
<1>3. pc' = "panic" => ~SoundConfig
  BY <1>2 DEF Moves
<1>4. SoundConfig' = SoundConfig
  BY DEF SoundConfig, HasServer, Moves
<1>5. QED
  BY <1>3, <1>4 DEF PanicsHaveReasons

\* A step that is not one of the scheduler's, the ids' and the database's.
LEMMA MovesQuietly ==
    ASSUME JobsOfCalls, FailuresTold, NEW s, NEW t, Moves(s, t),
           UNCHANGED <<background, failed>>,
           \A g \in Quiet : g \in up' <=> g \in up,
           \/ s \in Alive \ AfterCron /\ t \in Alive \ AfterCron
           \/ s \in AfterIpdb /\ t \in AfterIpdb
    PROVE  JobsOfCalls' /\ FailuresTold'
<1>1. /\ Ends \cap Alive = {}
      /\ AfterIpdb \subseteq AfterFlake /\ AfterFlake \subseteq AfterCron
      /\ AfterCron \subseteq Alive
  BY DEF Ends, Alive, AfterLog, AfterGorm, AfterRedis, AfterMongo, AfterFastHttp, AfterCron,
         AfterFlake, AfterIpdb, AfterLimiter, AfterCache
<1>2. /\ "GoCron" \in up' <=> "GoCron" \in up
      /\ "SonyFlake" \in up' <=> "SonyFlake" \in up
      /\ "Ipdb" \in up' <=> "Ipdb" \in up
  BY DEF Quiet
<1>3. /\ pc' \in Alive \ AfterCron => pc \in Alive \ AfterCron
      /\ pc' \in Alive \ AfterFlake => pc \in Alive \ AfterFlake
      /\ pc' \in Alive \ AfterIpdb => pc \in Alive \ AfterIpdb
      /\ pc' \in AfterCron => pc \in AfterCron
      /\ pc' \in AfterFlake => pc \in AfterFlake
      /\ pc' \in AfterIpdb => pc \in AfterIpdb
  BY <1>1 DEF Moves
<1>4. /\ runs' = runs /\ cfg' = cfg
      /\ jobs' = jobs /\ due' = due /\ started' = started /\ failed' = failed
  BY DEF Moves, background
<1>5. Scheduled => Scheduled'
  BY <1>2, <1>4 DEF Scheduled
<1>6. JobsOfCalls'
  BY <1>2, <1>3, <1>4, <1>5 DEF JobsOfCalls
<1>7. FailuresTold'
  BY <1>2, <1>3, <1>4 DEF FailuresTold
<1>8. QED
  BY <1>6, <1>7

\* A later call may find another configuration, of which nothing is done yet.
LEMMA LoadFlow == Flow /\ Load => Flow'
<1> SUFFICES ASSUME Flow, Load PROVE Flow'
  OBVIOUS
<1>1. /\ pc = "load" /\ pc' \in {"log", "error"} /\ op' = "load" /\ runs' = runs
      /\ cfg' = cfg \/ (runs # 1 /\ cfg' \in Rereads[cfg])
      /\ UNCHANGED <<up, traced, started, jobs, due, failed>>
  BY NextStep DEF Load, At, Pass, Return, globals, background
<1>2. cfg' \in Configs
  BY <1>1, RereadsAssumption DEF Flow, Placed
<1>3. /\ pc \in Alive \ AfterIpdb /\ pc \in Alive \ AfterCron /\ pc \in Alive \ AfterFlake
      /\ pc \in Alive \ AfterGorm
      /\ pc' \notin AfterLog /\ pc' \notin AfterGorm /\ pc' \notin AfterMongo
      /\ pc' \notin AfterFastHttp /\ pc' \notin AfterCron /\ pc' \notin AfterFlake
      /\ pc' \notin AfterIpdb /\ pc' \in Alive \cup Ends
  BY <1>1 DEF Ends, Alive, AfterLog, AfterGorm, AfterRedis, AfterMongo, AfterFastHttp, AfterCron,
         AfterFlake, AfterIpdb, AfterLimiter, AfterCache
<1>4. Placed'
  BY <1>1, <1>2, <1>3, BootOpsFacts DEF Flow, Placed
<1>5. UpIfConfigured'
  BY <1>3 DEF UpIfConfigured
<1>6. TracedByName'
  BY <1>1, <1>3 DEF Flow, TracedByName
<1>7. JobsOfCalls'
  BY <1>1, <1>3 DEF Flow, JobsOfCalls
<1>8. FailuresTold'
  BY <1>1, <1>3 DEF Flow, FailuresTold
<1>9. PanicsHaveReasons'
  BY <1>1 DEF PanicsHaveReasons
<1>10. QED
  BY <1>4, <1>5, <1>6, <1>7, <1>8, <1>9 DEF Flow

LEMMA InitLoggerFlow == Flow /\ InitLogger => Flow'
<1> SUFFICES ASSUME Flow, InitLogger PROVE Flow'
  OBVIOUS
<1> USE DEF Ends, Alive, AfterLog, AfterGorm, AfterRedis, AfterMongo, AfterFastHttp, AfterCron,
            AfterFlake, AfterIpdb, AfterLimiter, AfterCache
<1>1. /\ Moves("log", "gorm")
      /\ UNCHANGED <<background, failed>>
      /\ up' \in {up, up \cup {"ZapLog"}} /\ traced' = traced
      /\ cfg.log => "ZapLog" \in up'
  BY NextStep DEF InitLogger, Step, At, Pass, Return, Fatal, Moves, globals, background, Set
<1>2. started' \in BOOLEAN /\ failed' \subseteq Quiet /\ up' \subseteq Global /\ traced' \in BOOLEAN
  BY <1>1 DEF Flow, Placed, Global, background
<1>3. Placed'
  BY <1>1, <1>2, MovesPlaced, BootOpsFacts DEF Flow
<1>4. PanicsHaveReasons'
  BY <1>1, MovesPanics, BootOpsFacts DEF Flow
<1>5. \A g \in Quiet : g \in up' <=> g \in up
  BY <1>1 DEF Quiet
<1>6. JobsOfCalls' /\ FailuresTold'
  BY <1>1, <1>5, MovesQuietly DEF Flow
<1>7. UpIfConfigured'
  BY <1>1 DEF Flow, Moves, UpIfConfigured, HasLogger
<1>8. TracedByName'
  BY <1>1 DEF Flow, Moves, TracedByName
<1>9. QED
  BY <1>3, <1>4, <1>6, <1>7, <1>8 DEF Flow

LEMMA InitGORMFlow == Flow /\ InitGORM => Flow'
<1> SUFFICES ASSUME Flow, InitGORM PROVE Flow'
  OBVIOUS
<1> USE DEF Ends, Alive, AfterLog, AfterGorm, AfterRedis, AfterMongo, AfterFastHttp, AfterCron,
            AfterFlake, AfterIpdb, AfterLimiter, AfterCache
<1>1. /\ Moves("gorm", "redis")
      /\ UNCHANGED <<background, failed>>
      /\ \/ up' = up /\ traced' = traced /\ (pc' = "redis" => cfg.gorm = "none")
         \/ up' = up \cup {"Db"} /\ traced' = (cfg.server = "traced") /\ cfg.gorm # "none"
            /\ pc' = "redis"
  BY NextStep DEF InitGORM, Step, At, Pass, Return, Fatal, Moves, globals, background,
     Succeed, SetDb, SoundConfig
<1>2. started' \in BOOLEAN /\ failed' \subseteq Quiet /\ up' \subseteq Global /\ traced' \in BOOLEAN
  BY <1>1 DEF Flow, Placed, Global, background
<1>3. Placed'
  BY <1>1, <1>2, MovesPlaced, BootOpsFacts DEF Flow
<1>4. PanicsHaveReasons'
  BY <1>1, MovesPanics, BootOpsFacts DEF Flow
<1>5. \A g \in Quiet : g \in up' <=> g \in up
  BY <1>1 DEF Quiet
<1>6. JobsOfCalls' /\ FailuresTold'
  BY <1>1, <1>5, MovesQuietly DEF Flow
<1>7. UpIfConfigured'
  BY <1>1 DEF Flow, Moves, UpIfConfigured, HasLogger
<1>8. TracedByName'
  <2>1. pc = "gorm" /\ pc' \in {"redis"} \cup Ends /\ cfg' = cfg /\ runs' = runs
    BY <1>1 DEF Moves
  <2>2. runs = 1 => ~traced
    BY <2>1 DEF Flow, TracedByName
  <2>3. \/ traced' = traced /\ (pc' = "redis" => cfg.gorm = "none")
        \/ (traced' <=> cfg.server = "traced") /\ cfg.gorm # "none" /\ pc' = "redis"
    BY <1>1
  <2>4. QED
    BY <2>1, <2>2, <2>3 DEF TracedByName
<1>9. QED
  BY <1>3, <1>4, <1>6, <1>7, <1>8 DEF Flow

LEMMA InitRdbFlow == Flow /\ InitRdb => Flow'
<1> SUFFICES ASSUME Flow, InitRdb PROVE Flow'
  OBVIOUS
<1> USE DEF Ends, Alive, AfterLog, AfterGorm, AfterRedis, AfterMongo, AfterFastHttp, AfterCron,
            AfterFlake, AfterIpdb, AfterLimiter, AfterCache
<1>1. /\ Moves("redis", "redis") \/ Moves("redis", "mongo")
      /\ UNCHANGED <<background, failed>>
      /\ up' = up /\ traced' = traced
  BY NextStep DEF InitRdb, At, Pass, Return, Fatal, Moves, globals, background, Connected
<1>2. started' \in BOOLEAN /\ failed' \subseteq Quiet /\ up' \subseteq Global /\ traced' \in BOOLEAN
  BY <1>1 DEF Flow, Placed, Global, background
<1>3. Placed'
  BY <1>1, <1>2, MovesPlaced, BootOpsFacts DEF Flow
<1>4. PanicsHaveReasons'
  BY <1>1, MovesPanics, BootOpsFacts DEF Flow
<1>5. \A g \in Quiet : g \in up' <=> g \in up
  BY <1>1 DEF Quiet
<1>6. JobsOfCalls' /\ FailuresTold'
  BY <1>1, <1>5, MovesQuietly DEF Flow
<1>7. UpIfConfigured'
  BY <1>1 DEF Flow, Moves, UpIfConfigured, HasLogger
<1>8. TracedByName'
  BY <1>1 DEF Flow, Moves, TracedByName
<1>9. QED
  BY <1>3, <1>4, <1>6, <1>7, <1>8 DEF Flow

LEMMA InitMongoFlow == Flow /\ InitMongo => Flow'
<1> SUFFICES ASSUME Flow, InitMongo PROVE Flow'
  OBVIOUS
<1> USE DEF Ends, Alive, AfterLog, AfterGorm, AfterRedis, AfterMongo, AfterFastHttp, AfterCron,
            AfterFlake, AfterIpdb, AfterLimiter, AfterCache
<1>1. /\ Moves("mongo", "fastHttp")
      /\ UNCHANGED <<background, failed>>
      /\ up' \in {up, up \cup {"Mdb"}} /\ traced' = traced
      /\ pc' = "fastHttp" /\ cfg.mongo => "Mdb" \in up'
  BY NextStep DEF InitMongo, Step, At, Pass, Return, Fatal, Moves, globals, background,
     Succeed, Set
<1>2. started' \in BOOLEAN /\ failed' \subseteq Quiet /\ up' \subseteq Global /\ traced' \in BOOLEAN
  BY <1>1 DEF Flow, Placed, Global, background
<1>3. Placed'
  BY <1>1, <1>2, MovesPlaced, BootOpsFacts DEF Flow
<1>4. PanicsHaveReasons'
  BY <1>1, MovesPanics, BootOpsFacts DEF Flow
<1>5. \A g \in Quiet : g \in up' <=> g \in up
  BY <1>1 DEF Quiet
<1>6. JobsOfCalls' /\ FailuresTold'
  BY <1>1, <1>5, MovesQuietly DEF Flow
<1>7. UpIfConfigured'
  BY <1>1 DEF Flow, Moves, UpIfConfigured, HasLogger
<1>8. TracedByName'
  BY <1>1 DEF Flow, Moves, TracedByName
<1>9. QED
  BY <1>3, <1>4, <1>6, <1>7, <1>8 DEF Flow

LEMMA InitFastHttpFlow == Flow /\ InitFastHttp => Flow'
<1> SUFFICES ASSUME Flow, InitFastHttp PROVE Flow'
  OBVIOUS
<1> USE DEF Ends, Alive, AfterLog, AfterGorm, AfterRedis, AfterMongo, AfterFastHttp, AfterCron,
            AfterFlake, AfterIpdb, AfterLimiter, AfterCache
<1>1. /\ Moves("fastHttp", "cron")
      /\ UNCHANGED <<background, failed>>
      /\ up' \in {up, up \cup {"FastHttpClient"}} /\ traced' = traced
      /\ cfg.fastHttp => "FastHttpClient" \in up'
  BY NextStep DEF InitFastHttp, Step, At, Pass, Return, Fatal, Moves, globals, background, Set
<1>2. started' \in BOOLEAN /\ failed' \subseteq Quiet /\ up' \subseteq Global /\ traced' \in BOOLEAN
  BY <1>1 DEF Flow, Placed, Global, background
<1>3. Placed'
  BY <1>1, <1>2, MovesPlaced, BootOpsFacts DEF Flow
<1>4. PanicsHaveReasons'
  BY <1>1, MovesPanics, BootOpsFacts DEF Flow
<1>5. \A g \in Quiet : g \in up' <=> g \in up
  BY <1>1 DEF Quiet
<1>6. JobsOfCalls' /\ FailuresTold'
  BY <1>1, <1>5, MovesQuietly DEF Flow
<1>7. UpIfConfigured'
  BY <1>1 DEF Flow, Moves, UpIfConfigured, HasLogger
<1>8. TracedByName'
  BY <1>1 DEF Flow, Moves, TracedByName
<1>9. QED
  BY <1>3, <1>4, <1>6, <1>7, <1>8 DEF Flow

LEMMA InitLimitFlow == Flow /\ InitLimit => Flow'
<1> SUFFICES ASSUME Flow, InitLimit PROVE Flow'
  OBVIOUS
<1> USE DEF Ends, Alive, AfterLog, AfterGorm, AfterRedis, AfterMongo, AfterFastHttp, AfterCron,
            AfterFlake, AfterIpdb, AfterLimiter, AfterCache
<1>1. /\ Moves("limiter", "cache")
      /\ UNCHANGED <<background, failed>>
      /\ up' = up /\ traced' = traced
  BY NextStep DEF InitLimit, Step, At, Pass, Return, Fatal, Moves, globals, background,
     Succeed, UseForLimit, SoundConfig
<1>2. started' \in BOOLEAN /\ failed' \subseteq Quiet /\ up' \subseteq Global /\ traced' \in BOOLEAN
  BY <1>1 DEF Flow, Placed, Global, background
<1>3. Placed'
  BY <1>1, <1>2, MovesPlaced, BootOpsFacts DEF Flow
<1>4. PanicsHaveReasons'
  BY <1>1, MovesPanics, BootOpsFacts DEF Flow
<1>5. \A g \in Quiet : g \in up' <=> g \in up
  BY <1>1 DEF Quiet
<1>6. JobsOfCalls' /\ FailuresTold'
  BY <1>1, <1>5, MovesQuietly DEF Flow
<1>7. UpIfConfigured'
  BY <1>1 DEF Flow, Moves, UpIfConfigured, HasLogger
<1>8. TracedByName'
  BY <1>1 DEF Flow, Moves, TracedByName
<1>9. QED
  BY <1>3, <1>4, <1>6, <1>7, <1>8 DEF Flow

LEMMA InitLocalCacheFlow == Flow /\ InitLocalCache => Flow'
<1> SUFFICES ASSUME Flow, InitLocalCache PROVE Flow'
  OBVIOUS
<1> USE DEF Ends, Alive, AfterLog, AfterGorm, AfterRedis, AfterMongo, AfterFastHttp, AfterCron,
            AfterFlake, AfterIpdb, AfterLimiter, AfterCache
<1>1. /\ Moves("cache", "ready")
      /\ UNCHANGED <<background, failed>>
      /\ up' = up /\ traced' = traced
  BY NextStep DEF InitLocalCache, Step, At, Pass, Return, Fatal, Moves, globals, background
<1>2. started' \in BOOLEAN /\ failed' \subseteq Quiet /\ up' \subseteq Global /\ traced' \in BOOLEAN
  BY <1>1 DEF Flow, Placed, Global, background
<1>3. Placed'
  BY <1>1, <1>2, MovesPlaced, BootOpsFacts DEF Flow
<1>4. PanicsHaveReasons'
  BY <1>1, MovesPanics, BootOpsFacts DEF Flow
<1>5. \A g \in Quiet : g \in up' <=> g \in up
  BY <1>1 DEF Quiet
<1>6. JobsOfCalls' /\ FailuresTold'
  BY <1>1, <1>5, MovesQuietly DEF Flow
<1>7. UpIfConfigured'
  BY <1>1 DEF Flow, Moves, UpIfConfigured, HasLogger
<1>8. TracedByName'
  BY <1>1 DEF Flow, Moves, TracedByName
<1>9. QED
  BY <1>3, <1>4, <1>6, <1>7, <1>8 DEF Flow

\* The scheduler, the ids and the database: each step tells of its own global.
LEMMA InitGoCronFlow == Flow /\ InitGoCron => Flow'
<1> SUFFICES ASSUME Flow, InitGoCron PROVE Flow'
  OBVIOUS
<1> USE DEF Ends, Alive, AfterLog, AfterGorm, AfterRedis, AfterMongo, AfterFastHttp, AfterCron,
            AfterFlake, AfterIpdb, AfterLimiter, AfterCache
<1>1. /\ Moves("cron", "flake")
      /\ UNCHANGED <<traced, jobs, due>>
      /\ \/ ~cfg.cron /\ up' = up /\ started' = started /\ failed' = failed
         \/ pc' \in Ends /\ up' = up /\ started' = started /\ failed' = failed
         \/ up' = up \cup {"GoCron"} /\ started' = cfg.async /\ failed' = failed
         \/ up' = up \ {"GoCron"} /\ started' = started /\ failed' = failed \cup {"GoCron"}
  BY NextStep DEF InitGoCron, Step, At, Pass, Return, Unset, FailQuietly, Moves, globals, background
<1>2. pc = "cron" /\ pc' \in {"flake"} \cup Ends /\ cfg' = cfg /\ runs' = runs
  BY <1>1 DEF Moves
<1>3. cfg.async \in BOOLEAN
  BY ConfigsAssumption DEF Flow, Placed, Config
<1>4. started' \in BOOLEAN /\ failed' \subseteq Quiet /\ up' \subseteq Global /\ traced' \in BOOLEAN
  BY <1>1, <1>3 DEF Flow, Placed, Global, Quiet
<1>5. Placed'
  BY <1>1, <1>4, MovesPlaced, BootOpsFacts DEF Flow
<1>6. PanicsHaveReasons'
  BY <1>1, MovesPanics, BootOpsFacts DEF Flow
<1>7. UpIfConfigured'
  BY <1>1, <1>2 DEF Flow, UpIfConfigured, HasLogger
<1>8. TracedByName'
  BY <1>1, <1>2 DEF Flow, TracedByName
<1>9. JobsOfCalls'
  BY <1>1, <1>2 DEF Flow, JobsOfCalls
<1>10. FailuresTold'
  BY <1>1, <1>2 DEF Flow, FailuresTold
<1>11. QED
  BY <1>5, <1>6, <1>7, <1>8, <1>9, <1>10 DEF Flow

LEMMA InitSonyFlakeFlow == Flow /\ InitSonyFlake => Flow'
<1> SUFFICES ASSUME Flow, InitSonyFlake PROVE Flow'
  OBVIOUS
<1> USE DEF Ends, Alive, AfterLog, AfterGorm, AfterRedis, AfterMongo, AfterFastHttp, AfterCron,
            AfterFlake, AfterIpdb, AfterLimiter, AfterCache
<1>1. /\ Moves("flake", "ipdb")
      /\ UNCHANGED <<traced, background>>
      /\ \/ ~cfg.flake /\ up' = up /\ failed' = failed
         \/ pc' \in Ends /\ up' = up /\ failed' = failed
         \/ up' = up \cup {"SonyFlake"} /\ failed' = failed
         \/ up' = up \ {"SonyFlake"} /\ failed' = failed \cup {"SonyFlake"}
  BY NextStep DEF InitSonyFlake, Step, At, Pass, Return, Set, Unset, FailQuietly, Moves, globals
<1>2. pc = "flake" /\ pc' \in {"ipdb"} \cup Ends /\ cfg' = cfg /\ runs' = runs
  BY <1>1 DEF Moves
<1>3. jobs' = jobs /\ due' = due /\ started' = started
  BY <1>1 DEF background
<1>4. started' \in BOOLEAN /\ failed' \subseteq Quiet /\ up' \subseteq Global /\ traced' \in BOOLEAN
  BY <1>1, <1>3 DEF Flow, Placed, Global, Quiet
<1>5. Placed'
  BY <1>1, <1>4, MovesPlaced, BootOpsFacts DEF Flow
<1>6. PanicsHaveReasons'
  BY <1>1, MovesPanics, BootOpsFacts DEF Flow
<1>7. UpIfConfigured'
  BY <1>1, <1>2 DEF Flow, UpIfConfigured, HasLogger
<1>8. TracedByName'
  BY <1>1, <1>2 DEF Flow, TracedByName
<1>9. JobsOfCalls'
  BY <1>1, <1>2, <1>3 DEF Flow, JobsOfCalls
<1>10. FailuresTold'
  BY <1>1, <1>2 DEF Flow, FailuresTold
<1>11. QED
  BY <1>5, <1>6, <1>7, <1>8, <1>9, <1>10 DEF Flow

\* The one step that schedules something.
LEMMA InitIpdbFlow == Flow /\ InitIpdb => Flow'
<1> SUFFICES ASSUME Flow, InitIpdb PROVE Flow'
  OBVIOUS
<1> USE DEF Ends, Alive, AfterLog, AfterGorm, AfterRedis, AfterMongo, AfterFastHttp, AfterCron,
            AfterFlake, AfterIpdb, AfterLimiter, AfterCache
<1>1. /\ Moves("ipdb", "limiter") /\ pc' = "limiter"
      /\ UNCHANGED <<traced, started>>
      /\ \/ /\ ~cfg.ipdb
            /\ UNCHANGED <<up, jobs, due, failed>>
         \/ /\ up' = up \ {"Ipdb"} /\ failed' = failed \cup {"Ipdb"}
            /\ UNCHANGED <<jobs, due>>
         \/ /\ cfg.ipdb /\ up' = up \cup {"Ipdb"}
            /\ Schedule
  BY NextStep DEF InitIpdb, Step, At, Pass, Unset, Moves, globals, background
<1>2. pc = "ipdb" /\ pc' = "limiter" /\ cfg' = cfg /\ runs' = runs
  BY <1>1 DEF Moves
<1>3. runs \in 1..runs /\ runs \notin jobs /\ runs \notin due
  BY <1>2 DEF Flow, Placed, JobsOfCalls
<1>4. started' \in BOOLEAN /\ failed' \subseteq Quiet /\ up' \subseteq Global /\ traced' \in BOOLEAN
  BY <1>1 DEF Flow, Placed, Global, Quiet, Schedule
<1>5. Placed'
  BY <1>1, <1>4, MovesPlaced, BootOpsFacts DEF Flow
<1>6. PanicsHaveReasons'
  BY <1>1 DEF PanicsHaveReasons
<1>7. UpIfConfigured'
  BY <1>1, <1>2 DEF Flow, UpIfConfigured, HasLogger
<1>8. TracedByName'
  BY <1>1, <1>2 DEF Flow, TracedByName
<1>9. JobsOfCalls'
  <2>1. jobs' \subseteq 1..runs' /\ due' \subseteq jobs'
    BY <1>1, <1>2, <1>3 DEF Flow, JobsOfCalls, Schedule
  <2>2. cfg.cron /\ "GoCron" \in up' => started' = cfg.async
    BY <1>1, <1>2 DEF Flow, JobsOfCalls
  <2>3. Scheduled'
    BY <1>1, <1>2, <1>3, <2>2 DEF Scheduled, Schedule
  <2>4. QED
    BY <1>2, <2>1, <2>2, <2>3 DEF JobsOfCalls
<1>10. FailuresTold'
  BY <1>1, <1>2 DEF Flow, FailuresTold, Schedule
<1>11. QED
  BY <1>5, <1>6, <1>7, <1>8, <1>9, <1>10 DEF Flow

LEMMA InitConfigAgainFlow == Flow /\ InitConfigAgain => Flow'
<1> SUFFICES ASSUME Flow, InitConfigAgain PROVE Flow'
  OBVIOUS
<1>1. /\ pc = "ready" /\ pc' = "load" /\ op' = "start" /\ cfg' = cfg
      /\ runs < MaxRuns /\ runs' = runs + 1 /\ failed' = {}
      /\ UNCHANGED <<up, traced, started, jobs, due>>
  BY StepsFacts DEF InitConfigAgain, globals, background
<1>2. runs \in 1..MaxRuns
  BY DEF Flow, Placed
<1>3. runs' \in 1..MaxRuns /\ runs' # 1 /\ \A r \in 1..runs : r \in 1..runs' /\ r # runs'
  BY <1>1, <1>2, BoundsAssumption
<1>4. /\ pc' \in Alive /\ pc' \notin AfterLog /\ pc' \notin AfterGorm /\ pc' \notin AfterMongo
      /\ pc' \notin AfterFastHttp /\ pc' \notin AfterCron /\ pc' \notin AfterFlake
      /\ pc' \notin AfterIpdb
  BY <1>1 DEF Alive, AfterLog, AfterGorm, AfterRedis, AfterMongo, AfterFastHttp, AfterCron,
         AfterFlake, AfterIpdb, AfterLimiter, AfterCache
<1>5. Placed'
  BY <1>1, <1>3, <1>4 DEF Flow, Placed
<1>6. JobsOfCalls'
  BY <1>1, <1>3, <1>4 DEF Flow, JobsOfCalls
<1>7. UpIfConfigured' /\ TracedByName' /\ FailuresTold'
  BY <1>1, <1>3, <1>4 DEF UpIfConfigured, TracedByName, FailuresTold
<1>8. PanicsHaveReasons'
  BY <1>1 DEF PanicsHaveReasons
<1>9. QED
  BY <1>5, <1>6, <1>7, <1>8 DEF Flow

\* What uses find in a sound configuration.
LEMMA ReadyFacts ==
    ASSUME Flow, pc = "ready", SoundConfig
    PROVE  /\ HasServer /\ HasLogger
           /\ cfg.gorm # "none" => "Db" \in up
           /\ cfg.fastHttp => "FastHttpClient" \in up
           /\ due # {} /\ "Ipdb" \notin up => runs > 1
           /\ traced => IF cfg.gorm = "none" THEN runs > 1 ELSE cfg.server = "traced"
<1>1. /\ HasServer /\ HasLogger
      /\ cfg.gorm # "none" => "Db" \in up
      /\ cfg.fastHttp => "FastHttpClient" \in up
  BY DEF Flow, UpIfConfigured, SoundConfig, AfterLog, AfterGorm, AfterRedis, AfterMongo,
         AfterFastHttp, AfterCron, AfterFlake, AfterIpdb, AfterLimiter, AfterCache
<1>2. ASSUME due # {}, "Ipdb" \notin up PROVE runs > 1
  <2>1. runs \in 1..MaxRuns /\ jobs \subseteq 1..runs /\ due \subseteq jobs
    BY DEF Flow, Placed, JobsOfCalls
  <2>2. runs \notin jobs
    BY <1>2 DEF Flow, JobsOfCalls, Scheduled, AfterIpdb, AfterLimiter, AfterCache
  <2>3. PICK j \in jobs : TRUE
    BY <1>2, <2>1
  <2>4. j \in 1..runs /\ j # runs
    BY <2>1, <2>2
  <2>5. QED
    BY <2>1, <2>4, BoundsAssumption
<1>3. ASSUME traced PROVE IF cfg.gorm = "none" THEN runs > 1 ELSE cfg.server = "traced"
  <2>1. runs \in 1..MaxRuns /\ (runs = 1 => cfg.gorm # "none")
    BY <1>3 DEF Flow, Placed, TracedByName
  <2>2. cfg.gorm # "none" => cfg.server = "traced"
    BY <1>3 DEF Flow, TracedByName, AfterGorm, AfterRedis, AfterMongo, AfterFastHttp,
           AfterCron, AfterFlake, AfterIpdb, AfterLimiter, AfterCache
  <2>3. QED
    BY <2>1, <2>2, BoundsAssumption
<1>4. QED
  BY <1>1, <1>2, <1>3

\* A use changes nothing, and may panic for a reason.
LEMMA UseFlow ==
    ASSUME Flow, NEW u \in Uses, NEW panics \in BOOLEAN, Use(u, panics),
           SoundConfig /\ panics =>
               \/ u = "UpdateIpdb" /\ (~cfg.fastHttp \/ (runs > 1 /\ "Ipdb" \notin up))
               \/ u = "GetGeneralTracer" /\ cfg.gorm = "none"
               \/ /\ u = "query"
                  /\ IF cfg.gorm = "none" THEN runs > 1 ELSE cfg.server = "traced"
    PROVE  Flow'
<1>1. /\ pc = "ready" /\ op' = u /\ cfg' = cfg /\ runs' = runs
      /\ UNCHANGED <<up, traced, started, jobs, due, failed>>
      /\ \/ pc' = "panic" /\ panics
         \/ pc' = "ready"
  BY DEF Use, globals, background
<1>2. /\ \A S \in {AfterLog, AfterGorm, AfterMongo, AfterFastHttp, AfterCron, AfterFlake,
                  AfterIpdb} : pc' \in S => pc \in S
      /\ \A S \in {AfterCron, AfterFlake, AfterIpdb, AfterGorm} :
             pc' \in Alive \ S => pc \in Alive \ S
      /\ pc' \in Alive \cup Ends
  BY <1>1 DEF Ends, Alive, AfterLog, AfterGorm, AfterRedis, AfterMongo, AfterFastHttp, AfterCron,
         AfterFlake, AfterIpdb, AfterLimiter, AfterCache
<1>3. Placed'
  BY <1>1, <1>2 DEF Flow, Placed
<1>4. UpIfConfigured'
  BY <1>1, <1>2 DEF Flow, UpIfConfigured, HasLogger
<1>5. TracedByName'
  BY <1>1, <1>2 DEF Flow, TracedByName
<1>6. JobsOfCalls'
  BY <1>1, <1>2 DEF Flow, JobsOfCalls, Scheduled
<1>7. FailuresTold'
  BY <1>1, <1>2 DEF Flow, FailuresTold
<1>8. PanicsHaveReasons'
  BY <1>1 DEF PanicsHaveReasons, SoundConfig, HasServer
<1>9. QED
  BY <1>3, <1>4, <1>5, <1>6, <1>7, <1>8 DEF Flow

LEMMA GetGeneralTracerFlow == Flow /\ GetGeneralTracer => Flow'
<1> SUFFICES ASSUME Flow, GetGeneralTracer PROVE Flow'
  OBVIOUS
<1> DEFINE panics == ~HasServer \/ ~HasLogger \/ "Db" \notin up
<1>1. Use("GetGeneralTracer", panics) /\ pc = "ready"
  BY DEF GetGeneralTracer, Use
<1>2. SoundConfig /\ panics => cfg.gorm = "none"
  BY <1>1, ReadyFacts
<1>3. panics \in BOOLEAN /\ "GetGeneralTracer" \in Uses
  BY DEF Uses
<1> HIDE DEF panics
<1>4. QED
  BY <1>1, <1>2, <1>3, UseFlow

LEMMA TracerQueryFlow == Flow /\ TracerQuery => Flow'
<1> SUFFICES ASSUME Flow, TracerQuery PROVE Flow'
  OBVIOUS
<1> DEFINE panics == ContextPanics(FALSE)
<1>1. Use("query", panics)
  BY DEF TracerQuery
<1>2. SoundConfig /\ panics => IF cfg.gorm = "none" THEN runs > 1 ELSE cfg.server = "traced"
  BY <1>1, ReadyFacts DEF ContextPanics, Use
<1>3. panics \in BOOLEAN /\ "query" \in Uses
  BY DEF Flow, Placed, Uses, ContextPanics
<1> HIDE DEF panics
<1>4. QED
  BY <1>1, <1>2, <1>3, UseFlow

LEMMA GetGinTracerFlow == Flow /\ GetGinTracer => Flow'
<1> SUFFICES ASSUME Flow, GetGinTracer PROVE Flow'
  OBVIOUS
<1> DEFINE panics == ~HasServer \/ ~HasLogger
<1>1. Use("GetGinTracer", panics) /\ pc = "ready"
  BY DEF GetGinTracer, Use
<1>2. SoundConfig => ~panics
  BY <1>1, ReadyFacts
<1>3. panics \in BOOLEAN /\ "GetGinTracer" \in Uses
  BY DEF Uses
<1> HIDE DEF panics
<1>4. QED
  BY <1>1, <1>2, <1>3, UseFlow

LEMMA HandlerQueryFlow == Flow /\ HandlerQuery => Flow'
<1> SUFFICES ASSUME Flow, HandlerQuery PROVE Flow'
  OBVIOUS
<1> DEFINE panics == ContextPanics(TRUE)
<1>1. Use("handler query", panics)
  BY DEF HandlerQuery
<1>2. ~panics
  BY DEF ContextPanics
<1>3. panics \in BOOLEAN /\ "handler query" \in Uses
  BY DEF Flow, Placed, Uses, ContextPanics
<1> HIDE DEF panics
<1>4. QED
  BY <1>1, <1>2, <1>3, UseFlow

LEMMA UpdateIpdbFlow == Flow /\ UpdateIpdb => Flow'
<1> SUFFICES ASSUME Flow, UpdateIpdb PROVE Flow'
  OBVIOUS
<1> DEFINE panics == "FastHttpClient" \notin up \/ "Ipdb" \notin up
           never == FALSE
<1>1. "UpdateIpdb" \in Uses /\ panics \in BOOLEAN /\ never \in BOOLEAN
  BY DEF Uses
<1>2. pc = "ready" /\ due # {}
  BY DEF UpdateIpdb, Use
<1>3. SoundConfig /\ panics => ~cfg.fastHttp \/ (runs > 1 /\ "Ipdb" \notin up)
  BY <1>2, ReadyFacts
<1>4. Use("UpdateIpdb", panics) \/ Use("UpdateIpdb", never)
  BY DEF UpdateIpdb
<1>5. ~never
  OBVIOUS
<1> HIDE DEF panics, never
<1>6. CASE Use("UpdateIpdb", panics)
  BY <1>1, <1>3, <1>6, UseFlow
<1>7. CASE Use("UpdateIpdb", never)
  BY <1>1, <1>5, <1>7, UseFlow
<1>8. QED
  BY <1>4, <1>6, <1>7

LEMMA FlowStep == Flow /\ [Next]_vars => Flow'
<1>1. Flow /\ UNCHANGED vars => Flow'
  BY DEF Flow, Placed, UpIfConfigured, TracedByName, JobsOfCalls, Scheduled, FailuresTold,
         PanicsHaveReasons, HasLogger, SoundConfig, HasServer, vars, globals, background
<1>2. QED
  BY <1>1, LoadFlow, InitLoggerFlow, InitGORMFlow, InitRdbFlow, InitMongoFlow,
     InitFastHttpFlow, InitGoCronFlow, InitSonyFlakeFlow, InitIpdbFlow, InitLimitFlow,
     InitLocalCacheFlow, InitConfigAgainFlow, GetGeneralTracerFlow, TracerQueryFlow,
     GetGinTracerFlow, HandlerQueryFlow, UpdateIpdbFlow DEF Next, Boot

(* With [server], [log] and a database type initDB knows, the program      *)
(* panics for the four reasons only, however often InitConfig is called    *)
(* and whatever it finds then.                                             *)
THEOREM OnlyTheseReasons == Spec => []PanicsHaveReasons
<1>1. Flow => PanicsHaveReasons
  BY DEF Flow
<1>2. QED
  BY <1>1, FlowInit, FlowStep, PTL DEF Spec

(* A call that leaves a database and a scheduler has scheduled the update  *)
(* of the IP database or met the failure of NewJob, nothing else schedules *)
(* one, and only a scheduler made with cron-async runs it.                 *)
THEOREM EveryUpdateIsScheduled == Spec => []UpdateIsScheduled
<1>1. Flow => UpdateIsScheduled
  BY DEF Flow, JobsOfCalls, Scheduled, UpdateIsScheduled, AfterIpdb, AfterLimiter, AfterCache
<1>2. QED
  BY <1>1, FlowInit, FlowStep, PTL DEF Spec

(* What InitConfig passed over although it failed is nil, and what the     *)
(* configuration asks for and is not nil is of the last call.              *)
THEOREM FailuresAreTold == Spec => []NilTellsFailure
<1>1. Flow => NilTellsFailure
  BY DEF Flow, FailuresTold, NilTellsFailure, AfterCron, AfterFlake, AfterIpdb, AfterLimiter,
         AfterCache
<1>2. QED
  BY <1>1, FlowInit, FlowStep, PTL DEF Spec

-----------------------------------------------------------------------------
(* Ranks among the entries that are used.                                  *)

\* How many of the entries that are used come before one.
Rank(used, k) == Cardinality({u \in used : u < k})

LEMMA CountType ==
    ASSUME NEW m \in Nat, NEW used \in SUBSET (1..m)
    PROVE  /\ IsFiniteSet(used) /\ Cardinality(used) \in Nat
           /\ Cardinality(used) <= m
<1>1. IsFiniteSet(1..m) /\ Cardinality(1..m) = m
  BY FS_Interval
<1>2. IsFiniteSet(used) /\ Cardinality(used) <= m
  BY ZenonT(40), <1>1, FS_Subset
<1>3. QED
  BY <1>2, FS_CardinalityType

LEMMA RankType ==
    ASSUME NEW m \in Nat, NEW used \in SUBSET (1..m), NEW k \in Int
    PROVE  /\ IsFiniteSet({u \in used : u < k})
           /\ Rank(used, k) \in Nat /\ Rank(used, k) <= Cardinality(used)
<1> DEFINE B == {u \in used : u < k}
<1>1. B \in SUBSET used /\ IsFiniteSet(used)
  BY CountType
<1> HIDE DEF B
<1>2. IsFiniteSet(B) /\ Cardinality(B) <= Cardinality(used)
  BY <1>1, FS_Subset
<1>3. Cardinality(B) \in Nat
  BY <1>2, FS_CardinalityType
<1>4. QED
  BY <1>2, <1>3 DEF B, Rank

LEMMA RankStep ==
    ASSUME NEW m \in Nat, NEW used \in SUBSET (1..m), NEW k \in Int
    PROVE  Rank(used, k + 1) = IF k \in used THEN Rank(used, k) + 1 ELSE Rank(used, k)
<1> DEFINE B == {u \in used : u < k}
           C == {u \in used : u < k + 1}
<1>1. IsFiniteSet(B)
  BY RankType
<1>2. \A u \in used : u \in Int
  OBVIOUS
<1>3. k \notin B /\ \A u \in Int : u < k + 1 <=> u < k \/ u = k
  OBVIOUS
<1>4. CASE k \in used
  <2>1. C = B \cup {k}
    BY <1>2, <1>3, <1>4
  <2> HIDE DEF B, C
  <2>2. Cardinality(B \cup {k}) = Cardinality(B) + 1
    BY <1>1, <1>3, FS_AddElement
  <2>3. QED
    BY <1>4, <2>1, <2>2 DEF B, C, Rank
<1>5. CASE k \notin used
  <2>1. C = B
    BY <1>2, <1>3, <1>5
  <2>2. QED
    BY <1>5, <2>1 DEF Rank
<1>6. QED
  BY <1>4, <1>5

\* One that is used comes before those after it.
LEMMA RankGrows ==
    ASSUME NEW m \in Nat, NEW used \in SUBSET (1..m), NEW a \in used, NEW b \in Int, a < b
    PROVE  Rank(used, a) < Rank(used, b)
<1>1. a \in Int
  OBVIOUS
<1>2. Rank(used, a + 1) = Rank(used, a) + 1
  BY <1>1, RankStep
<1> DEFINE B == {u \in used : u < b}
           C == {u \in used : u < a + 1}
<1>3. C \in SUBSET B
  <2>1. \A u \in Int : u < a + 1 => u < b
    BY <1>1
  <2>2. \A u \in used : u \in Int
    OBVIOUS
  <2>3. QED
    BY <2>1, <2>2
<1>4. IsFiniteSet(B)
  BY RankType
<1> HIDE DEF B, C
<1>5. Cardinality(C) <= Cardinality(B)
  BY <1>3, <1>4, FS_Subset
<1>6. Rank(used, a + 1) <= Rank(used, b)
  BY <1>5 DEF B, C, Rank
<1>7. Rank(used, a) \in Nat /\ Rank(used, b) \in Nat
  BY <1>1, RankType
<1>8. QED
  BY <1>2, <1>6, <1>7

\* No two have the same rank, and the rank tells their order.
LEMMA RankTells ==
    ASSUME NEW m \in Nat, NEW used \in SUBSET (1..m), NEW a \in used, NEW b \in used
    PROVE  /\ Rank(used, a) = Rank(used, b) => a = b
           /\ Rank(used, a) < Rank(used, b) => a < b
<1>1. a \in Int /\ b \in Int
  OBVIOUS
<1>2. a < b => Rank(used, a) < Rank(used, b)
  BY <1>1, RankGrows
<1>3. b < a => Rank(used, b) < Rank(used, a)
  BY <1>1, RankGrows
<1>4. Rank(used, a) \in Nat /\ Rank(used, b) \in Nat
  BY <1>1, RankType
<1>5. QED
  BY <1>1, <1>2, <1>3, <1>4

LEMMA RankEnds ==
    ASSUME NEW m \in Nat, NEW used \in SUBSET (1..m)
    PROVE  /\ Rank(used, 1) = 0
           /\ Rank(used, m + 1) = Cardinality(used)
           /\ \A a \in used : Rank(used, a) < Cardinality(used)
<1> DEFINE none == {u \in used : u < 1}
           all == {u \in used : u < m + 1}
<1>1. \A u \in 1..m : ~(u < 1) /\ u < m + 1
  OBVIOUS
<1>2. none = {}
  BY <1>1
<1>3. all = used
  BY <1>1
<1>4. Rank(used, 1) = 0
  BY <1>2, FS_EmptySet DEF Rank
<1>5. Rank(used, m + 1) = Cardinality(used)
  BY <1>3 DEF Rank
<1>6. ASSUME NEW a \in used PROVE Rank(used, a) < Cardinality(used)
  <2>1. m + 1 \in Int /\ a < m + 1
    OBVIOUS
  <2>2. Rank(used, a) < Rank(used, m + 1)
    BY <2>1, RankGrows
  <2>3. QED
    BY <1>5, <2>2
<1>7. QED
  BY <1>4, <1>5, <1>6

\* The rank is one less than the number only if none before is left out.
LEMMA RankAndNumber ==
    ASSUME NEW m \in Nat, NEW used \in SUBSET (1..m), NEW a \in Nat \ {0}
    PROVE  /\ Rank(used, a) <= a - 1
           /\ Rank(used, a) = a - 1 <=> 1..(a - 1) \subseteq used
<1> DEFINE B == {u \in used : u < a}
           J == 1..(a - 1)
<1>1. IsFiniteSet(J) /\ Cardinality(J) = a - 1
  <2>1. 1 \in Int /\ a - 1 \in Int
    OBVIOUS
  <2>2. IsFiniteSet(J) /\ Cardinality(J) = IF 1 > a - 1 THEN 0 ELSE (a - 1) - 1 + 1
    BY <2>1, FS_Interval
  <2>3. QED
    BY <2>2
<1>2. B \in SUBSET J /\ (J \subseteq used <=> J = B)
  <2>1. \A u \in 1..m : u < a => u \in J
    OBVIOUS
  <2>2. \A u \in J : u < a
    OBVIOUS
  <2> HIDE DEF J
  <2>3. QED
    BY <2>1, <2>2
<1> HIDE DEF B, J
<1>3. Cardinality(B) <= a - 1 /\ (Cardinality(J) = Cardinality(B) => J = B)
  BY <1>1, <1>2, FS_Subset
<1>4. Cardinality(B) <= a - 1 /\ (Cardinality(B) = a - 1 <=> J \subseteq used)
  BY <1>1, <1>2, <1>3
<1>5. QED
  BY <1>4 DEF Rank, B, J

-----------------------------------------------------------------------------
(* The clients of the calls of InitConfig.                                 *)

Record(r, e) == [run |-> r, entry |-> e]

\* The clients of the calls before, which end at b, and so far those of this
\* one, its r-th: one for each entry that is used, in their order.
Blocks(rdb, used, b, r) ==
    /\ rdb \in Seq(RedisClient)
    /\ b \in 0..Len(rdb)
    /\ \A i \in 1..b : rdb[i].run < r
    /\ \A i \in (b + 1)..Len(rdb) :
           rdb[i].run = r /\ rdb[i].entry \in used /\ Rank(used, rdb[i].entry) = i - b - 1
    /\ \A j \in 1..Len(rdb) : \A i \in 1..(j - 1) : Earlier(rdb[i], rdb[j])

\* The entries InitRdb has been through in this call.
EntriesSoFar ==
    /\ entry \in 1..(MaxRedis + 1)
    /\ pc \in Alive \ AfterGorm => entry = 1
    /\ pc = "redis" => entry <= Len(cfg.redis) + 1
    /\ pc \in AfterRedis => entry = Len(cfg.redis) + 1

Clients ==
    /\ Blocks(Rdb, Usable, before, runs)
    /\ pc \in Alive => Len(Rdb) = before + Rank(Usable, entry)

\* Who uses a client has the one its index means.
ClientsUsed ==
    /\ Limiter \in RedisClient \cup {None} /\ distClient \in RedisClient \cup {None}
    /\ pc \in AfterLimiter /\ InRange(cfg.limiter) => Limiter = Client(cfg.limiter)
    /\ pc \in AfterCache /\ cfg.cache # None /\ InRange(cfg.cache) =>
           distClient = Client(cfg.cache)

Connections == EntriesSoFar /\ Clients /\ ClientsUsed

IInv == Flow /\ Connections

LEMMA BlocksType ==
    ASSUME NEW used, NEW b, NEW r, NEW rdb, Blocks(rdb, used, b, r)
    PROVE  /\ rdb \in Seq(RedisClient) /\ Len(rdb) \in Nat
           /\ b \in Nat /\ b <= Len(rdb)
           /\ \A i \in 1..Len(rdb) : /\ rdb[i] \in RedisClient
                                     /\ rdb[i].run \in Nat /\ rdb[i].entry \in Nat
                                     /\ rdb[i] = Record(rdb[i].run, rdb[i].entry)
<1>1. rdb \in Seq(RedisClient) /\ Len(rdb) \in Nat /\ b \in 0..Len(rdb)
  BY DEF Blocks
<1>2. \A i \in 1..Len(rdb) : rdb[i] \in RedisClient
  BY <1>1
<1>3. \A c \in RedisClient : c.run \in Nat /\ c.entry \in Nat /\ c = Record(c.run, c.entry)
  BY BoundsAssumption DEF RedisClient, Record
<1>4. QED
  BY <1>1, <1>2, <1>3

LEMMA BlocksAppend ==
    ASSUME NEW m \in Nat, NEW used \in SUBSET (1..m), m <= MaxRedis,
           NEW b, NEW r \in 1..MaxRuns, NEW rdb, NEW e \in used,
           Blocks(rdb, used, b, r), Len(rdb) = b + Rank(used, e)
    PROVE  Blocks(Append(rdb, Record(r, e)), used, b, r)
<1> DEFINE c == Record(r, e)
           t == Append(rdb, c)
           l == Len(rdb)
<1>1. /\ rdb \in Seq(RedisClient) /\ l \in Nat /\ b \in Nat /\ b <= l
      /\ \A i \in 1..l : rdb[i].entry \in Nat
  BY BlocksType
<1>2. c \in RedisClient /\ c.run = r /\ c.entry = e
  BY BoundsAssumption DEF RedisClient, Record
<1> HIDE DEF c
<1>3. /\ t \in Seq(RedisClient) /\ Len(t) = l + 1 /\ t[l + 1] = c
      /\ \A i \in 1..l : t[i] = rdb[i]
  BY <1>1, <1>2
<1> HIDE DEF t
<1>4. e \in Int /\ r \in Int /\ Rank(used, e) = l - b
  <2>1. e \in Int
    OBVIOUS
  <2>2. Rank(used, e) \in Nat
    BY <2>1, RankType
  <2>3. QED
    BY <1>1, <2>1, <2>2
<1>5. /\ \A i \in 1..b : rdb[i].run < r
      /\ \A i \in (b + 1)..l :
             rdb[i].run = r /\ rdb[i].entry \in used /\ Rank(used, rdb[i].entry) = i - b - 1
      /\ \A j \in 1..l : \A i \in 1..(j - 1) : Earlier(rdb[i], rdb[j])
  BY DEF Blocks
<1>6. b \in 0..Len(t) /\ \A i \in 1..b : t[i].run < r
  BY <1>1, <1>3, <1>5
<1>7. ASSUME NEW i \in (b + 1)..Len(t)
      PROVE  t[i].run = r /\ t[i].entry \in used /\ Rank(used, t[i].entry) = i - b - 1
  <2>1. CASE i = l + 1
    <3>1. t[i] = c /\ i - b - 1 = l - b
      BY <1>1, <1>3, <2>1
    <3>2. QED
      BY <1>2, <1>4, <3>1
  <2>2. CASE i # l + 1
    <3>1. i \in (b + 1)..l /\ i \in 1..l
      BY <1>1, <1>3, <2>2
    <3>2. QED
      BY <1>3, <1>5, <3>1
  <2>3. QED
    BY <2>1, <2>2
<1>8. ASSUME NEW i \in 1..l PROVE Earlier(rdb[i], c)
  <2>1. CASE i <= b
    BY <1>1, <1>2, <1>5, <2>1 DEF Earlier
  <2>2. CASE ~(i <= b)
    <3>1. i \in (b + 1)..l
      BY <1>1, <2>2
    <3> DEFINE a == rdb[i].entry
    <3>2. rdb[i].run = r /\ a \in used /\ Rank(used, a) = i - b - 1
      BY <1>5, <3>1
    <3>3. Rank(used, a) < Rank(used, e)
      BY <1>1, <1>4, <3>1, <3>2
    <3> HIDE DEF a
    <3>4. a < e
      BY <3>2, <3>3, RankTells
    <3>5. QED
      BY <1>2, <3>2, <3>4 DEF Earlier, a
  <2>3. QED
    BY <2>1, <2>2
<1>9. ASSUME NEW j \in 1..Len(t), NEW i \in 1..(j - 1) PROVE Earlier(t[i], t[j])
  <2>1. i \in 1..l /\ t[i] = rdb[i]
    BY <1>1, <1>3
  <2>2. CASE j = l + 1
    BY <1>3, <1>8, <2>1, <2>2
  <2>3. CASE j # l + 1
    <3>1. j \in 1..l
      BY <1>1, <1>3, <2>3
    <3>2. QED
      BY <1>3, <1>5, <2>1, <3>1
  <2>4. QED
    BY <2>2, <2>3
<1>10. Blocks(t, used, b, r)
  BY <1>3, <1>6, <1>7, <1>9 DEF Blocks
<1>11. QED
  BY <1>10 DEF t, c

\* A call that is through becomes one of those before, whatever the next finds.
LEMMA BlocksAgain ==
    ASSUME NEW used, NEW b, NEW r \in Nat, NEW rdb, Blocks(rdb, used, b, r), NEW next
    PROVE  Blocks(rdb, next, Len(rdb), r + 1)
<1> DEFINE l == Len(rdb)
<1>1. rdb \in Seq(RedisClient) /\ l \in Nat /\ b \in Nat /\ b <= l
      /\ \A i \in 1..l : rdb[i].run \in Nat
  BY BlocksType
<1>2. /\ \A i \in 1..b : rdb[i].run < r
      /\ \A i \in (b + 1)..l : rdb[i].run = r
      /\ \A j \in 1..l : \A i \in 1..(j - 1) : Earlier(rdb[i], rdb[j])
  BY DEF Blocks
<1>3. ASSUME NEW i \in 1..l PROVE rdb[i].run < r + 1
  <2>1. CASE i <= b
    BY <1>1, <1>2, <2>1
  <2>2. CASE ~(i <= b)
    <3>1. i \in (b + 1)..l
      BY <1>1, <2>2
    <3>2. QED
      BY <1>2, <3>1
  <2>3. QED
    BY <2>1, <2>2
<1>4. l \in 0..l /\ \A i \in (l + 1)..l : FALSE
  BY <1>1
<1> HIDE DEF l
<1>5. QED
  BY <1>1, <1>2, <1>3, <1>4 DEF Blocks, l

\* Before the first of its clients, the entries of a call do not matter.
LEMMA BlocksOthers ==
    ASSUME NEW used, NEW b, NEW r, NEW rdb, Blocks(rdb, used, b, r), Len(rdb) <= b, NEW next
    PROVE  Blocks(rdb, next, b, r)
<1>1. Len(rdb) \in Nat /\ b \in Nat /\ \A i \in (b + 1)..Len(rdb) : FALSE
  BY BlocksType
<1>2. QED
  BY <1>1 DEF Blocks

ClientsAfter(rdb, b) == {rdb[i] : i \in (b + 1)..Len(rdb)}
ClientsFor(r, used)  == {Record(r, e) : e \in used}

\* When a call is through, every entry that is used has its client.
LEMMA BlocksComplete ==
    ASSUME NEW m \in Nat, NEW used \in SUBSET (1..m), NEW b, NEW r, NEW rdb,
           Blocks(rdb, used, b, r), Len(rdb) = b + Cardinality(used)
    PROVE  ClientsAfter(rdb, b) = ClientsFor(r, used)
<1> DEFINE n == Cardinality(used)
           l == Len(rdb)
<1>1. /\ l \in Nat /\ b \in Nat
      /\ \A i \in 1..l : rdb[i] = Record(rdb[i].run, rdb[i].entry)
  BY BlocksType
<1>2. \A i \in (b + 1)..l :
          rdb[i].run = r /\ rdb[i].entry \in used /\ Rank(used, rdb[i].entry) = i - b - 1
  BY DEF Blocks
<1>3. ASSUME NEW i \in (b + 1)..l PROVE rdb[i] \in {Record(r, e) : e \in used}
  <2>1. i \in 1..l
    BY <1>1
  <2>2. QED
    BY <1>1, <1>2, <2>1
<1>4. ASSUME NEW e \in used PROVE \E i \in (b + 1)..l : rdb[i] = Record(r, e)
  <2> DEFINE k == Rank(used, e)
             i == b + 1 + k
             a == rdb[i].entry
  <2>1. k \in Nat /\ k < n /\ n \in Nat
    <3>1. e \in Int
      OBVIOUS
    <3>2. QED
      BY <3>1, RankType, RankEnds, CountType
  <2>2. l = b + n
    OBVIOUS
  <2> HIDE DEF l, n, k
  <2>3. i \in (b + 1)..l /\ i \in 1..l /\ i - b - 1 = k
    BY <1>1, <2>1, <2>2
  <2> HIDE DEF i
  <2>4. a \in used /\ Rank(used, a) = k /\ rdb[i].run = r
    BY <1>2, <2>3
  <2> HIDE DEF a
  <2>5. a = e
    BY <2>4, RankTells DEF k
  <2>6. rdb[i] = Record(r, e)
    BY <1>1, <2>3, <2>4, <2>5 DEF a
  <2>7. QED
    BY <2>3, <2>6
<1>5. {rdb[i] : i \in (b + 1)..l} = {Record(r, e) : e \in used}
  <2> HIDE DEF l
  <2>1. QED
    BY <1>3, <1>4
<1>6. QED
  BY <1>5 DEF ClientsAfter, ClientsFor

-----------------------------------------------------------------------------
(* The clients, step by step.                                              *)

LEMMA ConfigFacts ==
    ASSUME cfg \in Configs
    PROVE  /\ Len(cfg.redis) \in Nat /\ Len(cfg.redis) <= MaxRedis
           /\ cfg.redis \in [1..Len(cfg.redis) -> BOOLEAN]
           /\ Usable \in SUBSET (1..Len(cfg.redis))
           /\ cfg.limiter \in Int /\ (cfg.cache # None => cfg.cache \in Int)
<1>1. cfg \in Config
  BY ConfigsAssumption
<1>2. PICK n \in 0..MaxRedis : cfg.redis \in [1..n -> BOOLEAN]
  BY <1>1 DEF Config
<1>3. n \in Nat /\ n <= MaxRedis
  BY BoundsAssumption
<1>4. Len(cfg.redis) = n
  BY <1>2, <1>3
<1>5. cfg.limiter \in Index /\ cfg.cache \in Index \cup {None}
  BY <1>1 DEF Config
<1>6. cfg.limiter \in Int /\ (cfg.cache # None => cfg.cache \in Int)
  BY <1>5, BoundsAssumption DEF Index
<1>7. QED
  BY <1>2, <1>3, <1>4, <1>6 DEF Usable

\* The client that an index means.
LEMMA ClientFacts ==
    ASSUME Placed, Clients, NEW index \in Int, InRange(index)
    PROVE  /\ Client(index) \in RedisClient /\ Client(index) # None
           /\ MeansEntry(Client(index), index)
<1> DEFINE m == Len(cfg.redis)
           i == index + 1
           n == i - before
           c == Rdb[i]
<1>1. /\ m \in Nat /\ m <= MaxRedis /\ Usable \in SUBSET (1..m)
      /\ cfg.redis \in [1..m -> BOOLEAN]
  BY ConfigFacts DEF Placed
<1>2. Blocks(Rdb, Usable, before, runs)
  BY DEF Clients
<1>3. /\ Len(Rdb) \in Nat /\ before \in Nat /\ before <= Len(Rdb)
      /\ \A k \in 1..Len(Rdb) : Rdb[k] \in RedisClient
  BY <1>2, BlocksType
<1>4. i \in 1..Len(Rdb) /\ index \in Nat
  BY <1>3 DEF InRange
<1>5. c \in RedisClient /\ c # None
  BY <1>3, <1>4, BoundsAssumption
<1>6. Client(index) = c
  BY DEF Client
<1>7. n = index - before + 1
  BY <1>3, <1>4
<1>8. CASE index < before
  <2>1. c.run < runs
    <3>1. i \in 1..before
      BY <1>3, <1>4, <1>8
    <3>2. QED
      BY <1>2, <3>1 DEF Blocks
  <2>2. QED
    BY <1>5, <1>6, <1>8, <2>1 DEF MeansEntry
<1>9. CASE ~(index < before)
  <2> DEFINE a == c.entry
  <2>1. i \in (before + 1)..Len(Rdb) /\ n \in Nat \ {0} /\ i - before - 1 = n - 1
    BY <1>3, <1>4, <1>9
  <2>2. c.run = runs /\ a \in Usable /\ Rank(Usable, a) = n - 1
    <3>1. Rdb[i].run = runs /\ Rdb[i].entry \in Usable
          /\ Rank(Usable, Rdb[i].entry) = i - before - 1
      BY <1>2, <2>1 DEF Blocks
    <3>2. QED
      BY <2>1, <3>1
  <2> HIDE DEF n
  <2>3. MeansEntry(c, index) <=>
            /\ a >= n
            /\ (\A k \in 1..n : cfg.redis[k]) <=> a = n
    <3> HIDE DEF a, c
    <3>1. index - before + 1 = n
      BY <1>7
    <3>2. QED
      BY <1>9, <2>2, <3>1 DEF MeansEntry, a
  <2> HIDE DEF a, c, i, m
  <2>4. a \in 1..m /\ a \in Nat \ {0}
    BY <1>1, <2>2
  <2>5. n - 1 <= a - 1 /\ (n - 1 = a - 1 <=> 1..(a - 1) \subseteq Usable)
    <3>1. Rank(Usable, a) <= a - 1 /\ (Rank(Usable, a) = a - 1 <=> 1..(a - 1) \subseteq Usable)
      BY <1>1, <2>4, RankAndNumber
    <3>2. QED
      BY <2>2, <3>1
  <2>6. a >= n
    BY <2>1, <2>4, <2>5
  <2>7. \A k \in 1..m : k \in Usable <=> cfg.redis[k]
    BY DEF Usable, m
  <2>8. (\A k \in 1..n : cfg.redis[k]) <=> 1..n \subseteq Usable
    <3>1. \A k \in 1..n : k \in 1..m
      BY <1>1, <2>1, <2>4, <2>6
    <3>2. QED
      BY <2>7, <3>1
  <2>9. ASSUME a = n PROVE 1..n \subseteq Usable
    <3>1. 1..(n - 1) \subseteq Usable
      BY <2>5, <2>9
    <3>2. \A k \in 1..n : k \in 1..(n - 1) \/ k = a
      BY <2>1, <2>9
    <3>3. QED
      BY <2>2, <3>1, <3>2
  <2>10. ASSUME 1..n \subseteq Usable PROVE a = n
    <3>1. n \in Usable /\ 1..(n - 1) \subseteq Usable
      BY <2>1, <2>10
    <3>2. Rank(Usable, n) = n - 1
      BY <1>1, <2>1, <3>1, RankAndNumber
    <3>3. Rank(Usable, n) = Rank(Usable, a)
      BY <2>2, <3>2
    <3>4. QED
      BY <1>1, <2>2, <3>1, <3>3, RankTells
  <2>11. MeansEntry(c, index)
    BY <2>3, <2>6, <2>8, <2>9, <2>10
  <2>12. QED
    BY <1>5, <1>6, <2>11
<1>10. QED
  BY <1>8, <1>9

LEMMA ConnectionsInit == Init => Connections
<1> SUFFICES ASSUME Init PROVE Connections
  OBVIOUS
<1>1. /\ cfg \in Configs /\ pc = "load" /\ entry = 1 /\ Rdb = <<>> /\ before = 0
      /\ Limiter = None /\ distClient = None
  BY DEF Init
<1>2. /\ pc \in Alive \ AfterGorm /\ pc \notin AfterRedis /\ pc \notin AfterLimiter
      /\ pc \notin AfterCache
  BY <1>1 DEF Alive, AfterLog, AfterGorm, AfterRedis, AfterMongo, AfterFastHttp, AfterCron,
         AfterFlake, AfterIpdb, AfterLimiter, AfterCache
<1>3. EntriesSoFar
  BY <1>1, <1>2, BoundsAssumption DEF EntriesSoFar
<1>4. Clients
  <2>1. Rank(Usable, entry) = 0
    BY <1>1, ConfigFacts, RankEnds
  <2>2. Rdb \in Seq(RedisClient) /\ Len(Rdb) = 0
    BY <1>1
  <2>3. Blocks(Rdb, Usable, before, runs)
    BY <1>1, <2>2 DEF Blocks
  <2>4. QED
    BY <1>1, <2>1, <2>2, <2>3 DEF Clients
<1>5. ClientsUsed
  BY <1>1, <1>2 DEF ClientsUsed
<1>6. QED
  BY <1>3, <1>4, <1>5 DEF Connections

\* The steps in which entry stays as it is.
Passes ==
    \/ pc' \in Ends
    \/ pc \in Alive \ AfterGorm /\ pc' \in (Alive \ AfterGorm) \cup {"redis"}
    \/ pc \in AfterRedis /\ pc' \in AfterRedis

LEMMA EntriesKept ==
    ASSUME Placed, EntriesSoFar, UNCHANGED <<cfg, entry>>, Passes
    PROVE  EntriesSoFar'
<1>1. Len(cfg.redis) \in Nat
  BY ConfigFacts DEF Placed
<1>2. /\ Ends \cap Alive = {} /\ AfterGorm = {"redis"} \cup AfterRedis
      /\ AfterRedis \subseteq Alive /\ "redis" \notin AfterRedis /\ "redis" \in Alive
  BY DEF Ends, Alive, AfterLog, AfterGorm, AfterRedis, AfterMongo, AfterFastHttp, AfterCron,
         AfterFlake, AfterIpdb, AfterLimiter, AfterCache
<1>3. QED
  BY <1>1, <1>2 DEF EntriesSoFar, Passes

\* A step that leaves the clients alone leaves what is said of them.
LEMMA ClientsKept ==
    ASSUME Clients, UNCHANGED <<cfg, runs, entry, Rdb, before>>, pc' \in Alive => pc \in Alive
    PROVE  Clients'
<1>1. Usable' = Usable
  BY DEF Usable
<1>2. QED
  BY <1>1 DEF Clients

LEMMA QuietKeeps ==
    ASSUME Placed, Connections, Passes,
           UNCHANGED <<cfg, runs, entry, before>>, UNCHANGED clients,
           pc' \in AfterLimiter => pc \in AfterLimiter,
           pc' \in AfterCache => pc \in AfterCache
    PROVE  Connections'
<1>1. pc' \in Alive => pc \in Alive
  BY DEF Passes, Ends, Alive, AfterLog, AfterGorm, AfterRedis, AfterMongo, AfterFastHttp,
         AfterCron, AfterFlake, AfterIpdb, AfterLimiter, AfterCache
<1>2. Clients'
  BY <1>1, ClientsKept DEF Connections, clients
<1>3. EntriesSoFar'
  BY EntriesKept DEF Connections
<1>4. ClientsUsed'
  BY DEF Connections, ClientsUsed, InRange, Client, clients
<1>5. QED
  BY <1>2, <1>3, <1>4 DEF Connections

LEMMA QuietSteps ==
    ASSUME Placed, Connections,
           \/ InitLogger \/ InitGORM \/ InitMongo \/ InitFastHttp
           \/ InitGoCron \/ InitSonyFlake \/ InitIpdb
           \/ \E u \in Uses : \E panics : Use(u, panics)
    PROVE  Connections'
<1> USE DEF Passes, Ends, Alive, AfterLog, AfterGorm, AfterRedis, AfterMongo, AfterFastHttp,
            AfterCron, AfterFlake, AfterIpdb, AfterLimiter, AfterCache, Step, At, Pass, Return,
            Fatal, Succeed, Set, SetDb, Unset, FailQuietly, globals
<1>1. CASE InitLogger
  BY <1>1, NextStep, QuietKeeps DEF InitLogger
<1>2. CASE InitGORM
  BY <1>2, NextStep, QuietKeeps DEF InitGORM
<1>3. CASE InitMongo
  BY <1>3, NextStep, QuietKeeps DEF InitMongo
<1>4. CASE InitFastHttp
  BY <1>4, NextStep, QuietKeeps DEF InitFastHttp
<1>5. CASE InitGoCron
  BY <1>5, NextStep, QuietKeeps DEF InitGoCron
<1>6. CASE InitSonyFlake
  BY <1>6, NextStep, QuietKeeps DEF InitSonyFlake
<1>7. CASE InitIpdb
  BY <1>7, NextStep, QuietKeeps DEF InitIpdb
<1>8. ASSUME NEW u \in Uses, NEW panics, Use(u, panics)
      PROVE  Connections'
  BY <1>8, QuietKeeps DEF Use
<1>9. QED
  BY <1>1, <1>2, <1>3, <1>4, <1>5, <1>6, <1>7, <1>8

\* Whatever the call finds, it has made no client yet.
LEMMA LoadKeeps ==
    ASSUME Flow, Connections, Load
    PROVE  Connections'
<1>1. /\ pc = "load" /\ entry' = entry /\ runs' = runs /\ before' = before
      /\ Rdb' = Rdb /\ Limiter' = Limiter /\ distClient' = distClient
      /\ pc' = "log" \/ (pc' = "error" /\ cfg' = cfg)
  BY NextStep DEF Load, At, Pass, Return, globals, clients
<1>2. /\ pc \in Alive \ AfterGorm /\ pc \in Alive
      /\ pc' = "log" => pc' \in Alive \ AfterGorm
      /\ pc' # "redis" /\ pc' \notin AfterRedis /\ pc' \notin AfterLimiter /\ pc' \notin AfterCache
      /\ pc' = "error" => pc' \notin Alive
  BY <1>1 DEF Alive, AfterLog, AfterGorm, AfterRedis, AfterMongo, AfterFastHttp, AfterCron,
         AfterFlake, AfterIpdb, AfterLimiter, AfterCache
<1>3. EntriesSoFar'
  BY <1>1, <1>2 DEF Connections, EntriesSoFar
<1>4. ClientsUsed'
  BY <1>1, <1>2 DEF Connections, ClientsUsed
<1>5. Clients'
  <2>1. CASE cfg' = cfg
    BY <1>1, <1>2, <2>1, ClientsKept DEF Connections
  <2>2. CASE pc' = "log"
    <3>1. Placed /\ Placed'
      BY LoadFlow DEF Flow
    <3>2. Usable \in SUBSET (1..Len(cfg.redis)) /\ Len(cfg.redis) \in Nat
      BY <3>1, ConfigFacts DEF Placed
    <3>3. Rank(Usable, 1) = 0
      BY <3>2, RankEnds
    <3>4. Blocks(Rdb, Usable, before, runs) /\ Len(Rdb) = before + Rank(Usable, entry) /\ entry = 1
      BY <1>2 DEF Connections, Clients, EntriesSoFar
    <3>5. Len(Rdb) = before
      BY <3>3, <3>4, BlocksType
    <3>6. \A c \in Config : Len(c.redis) \in Nat
      <4>1. SUFFICES ASSUME NEW c \in Config PROVE Len(c.redis) \in Nat
        OBVIOUS
      <4>2. PICK k \in 0..MaxRedis : c.redis \in [1..k -> BOOLEAN]
        BY DEF Config
      <4>3. QED
        BY <4>2, BoundsAssumption
    <3>7. cfg' \in Config
      BY <3>1, ConfigsAssumption DEF Placed
    <3> DEFINE next == Usable'
               k == Len(cfg.redis)'
    <3>8. next \in SUBSET (1..k) /\ k \in Nat
      BY <3>6, <3>7 DEF Usable
    <3>9. Blocks(Rdb, next, before, runs)
      <4> HIDE DEF next
      <4>1. QED
        BY <3>4, <3>5, BlocksType, BlocksOthers
    <3>10. Rank(next, 1) = 0
      <4> HIDE DEF next, k
      <4>1. QED
        BY <3>8, RankEnds
    <3>11. Blocks(Rdb, Usable, before, runs)'
      BY <1>1, <3>9
    <3>12. Len(Rdb)' = (before + Rank(Usable, entry))'
      BY <1>1, <3>4, <3>5, <3>10, BlocksType
    <3>13. QED
      BY <3>11, <3>12 DEF Clients
  <2>3. QED
    BY <1>1, <2>1, <2>2
<1>6. QED
  BY <1>3, <1>4, <1>5 DEF Connections

\* What holds at the entry InitRdb has come to.
LEMMA EntryFacts ==
    ASSUME Placed, Connections, pc = "redis"
    PROVE  /\ entry \in Nat \ {0} /\ entry <= Len(cfg.redis) + 1
           /\ Len(Rdb) = before + Rank(Usable, entry)
           /\ Usable \in SUBSET (1..Len(cfg.redis)) /\ Len(cfg.redis) \in Nat
           /\ Len(cfg.redis) <= MaxRedis
<1>1. pc \in Alive
  BY DEF Alive, AfterLog, AfterGorm
<1>2. entry \in Nat \ {0} /\ entry <= Len(cfg.redis) + 1
  BY BoundsAssumption DEF Connections, EntriesSoFar
<1>3. QED
  BY <1>1, <1>2, ConfigFacts DEF Placed, Connections, Clients

LEMMA InitRdbKeeps ==
    ASSUME Placed, Connections, InitRdb
    PROVE  Connections'
<1> DEFINE m == Len(cfg.redis)
<1>1. /\ pc = "redis" /\ cfg' = cfg /\ runs' = runs /\ before' = before
      /\ Limiter' = Limiter /\ distClient' = distClient
  BY DEF InitRdb, At, Pass, Fatal, Return, Connected, globals, clients
<1>2. /\ entry \in Nat \ {0} /\ entry <= m + 1
      /\ Len(Rdb) = before + Rank(Usable, entry)
      /\ Usable \in SUBSET (1..m) /\ m \in Nat /\ m <= MaxRedis
  BY <1>1, EntryFacts
<1>3. /\ pc \in Alive /\ pc \notin AfterRedis
      /\ "mongo" \in AfterRedis
      /\ AfterRedis \subseteq AfterGorm /\ "redis" \in AfterGorm
      /\ \A s \in {"redis", "mongo"} \cup Ends : s \notin AfterLimiter /\ s \notin AfterCache
      /\ Ends \cap Alive = {} /\ AfterGorm \subseteq Alive
      /\ "redis" # "mongo"
  BY <1>1 DEF Ends, Alive, AfterLog, AfterGorm, AfterRedis, AfterMongo, AfterFastHttp,
         AfterCron, AfterFlake, AfterIpdb, AfterLimiter, AfterCache
<1>4. Usable' = Usable
  BY <1>1 DEF Usable
<1>5. Blocks(Rdb, Usable, before, runs) /\ runs \in 1..MaxRuns
  BY DEF Placed, Connections, Clients
<1>6. ASSUME pc' \in {"redis", "mongo"} \cup Ends
      PROVE  ClientsUsed'
  BY <1>1, <1>3, <1>6 DEF Connections, ClientsUsed
<1>7. CASE entry > m
  <2>1. pc' = "mongo" /\ entry' = entry /\ Rdb' = Rdb
    BY <1>1, <1>7, NextStep DEF InitRdb, Pass, globals, clients
  <2>2. entry = m + 1
    BY <1>2, <1>7
  <2>3. EntriesSoFar'
    BY <1>1, <1>3, <2>1, <2>2 DEF Connections, EntriesSoFar
  <2>4. Clients'
    BY <1>1, <1>3, <2>1, ClientsKept DEF Connections
  <2>5. QED
    BY <1>6, <2>1, <2>3, <2>4 DEF Connections
<1>8. CASE ~(entry > m)
  <2>1. entry \in 1..m /\ entry + 1 \in 1..(MaxRedis + 1) /\ entry + 1 <= m + 1
    BY <1>2, <1>8, BoundsAssumption
  <2>2. /\ entry' = entry + 1
        /\ \/ /\ ~cfg.redis[entry] /\ pc' = pc /\ Rdb' = Rdb
           \/ /\ cfg.redis[entry] /\ pc' = pc /\ Rdb' = Append(Rdb, Record(runs, entry))
           \/ pc' \in Ends /\ Rdb' = Rdb
    BY <1>8 DEF InitRdb, Fatal, Return, Connected, Ends, Record, globals, clients
  <2>3. EntriesSoFar'
    BY <1>1, <1>3, <2>1, <2>2 DEF EntriesSoFar
  <2>4. ClientsUsed'
    BY <1>1, <1>6, <2>2
  <2>5. Rank(Usable, entry + 1) =
            IF entry \in Usable THEN Rank(Usable, entry) + 1 ELSE Rank(Usable, entry)
    <3>1. entry \in Int
      BY <1>2
    <3>2. QED
      BY <1>2, <3>1, RankStep
  <2>6. entry \in Usable <=> cfg.redis[entry]
    BY <2>1 DEF Usable
  <2>7. CASE ~cfg.redis[entry] /\ pc' = pc /\ Rdb' = Rdb
    <3>1. Len(Rdb) = before + Rank(Usable, entry + 1)
      BY <1>2, <2>5, <2>6, <2>7
    <3>2. Clients'
      BY <1>1, <1>4, <1>5, <2>2, <2>7, <3>1 DEF Clients
    <3>3. QED
      BY <2>3, <2>4, <3>2 DEF Connections
  <2>8. CASE cfg.redis[entry] /\ pc' = pc /\ Rdb' = Append(Rdb, Record(runs, entry))
    <3> DEFINE c == Record(runs, entry)
    <3>1. entry \in Usable
      BY <2>6, <2>8
    <3>2. Blocks(Append(Rdb, c), Usable, before, runs)
      BY <1>2, <1>5, <3>1, BlocksAppend
    <3>3. Rdb \in Seq(RedisClient) /\ Len(Rdb) \in Nat /\ before \in Nat
      BY <1>5, BlocksType
    <3>4. c \in RedisClient
      BY <1>2, <1>5, <2>1, BoundsAssumption DEF RedisClient, Record
    <3> HIDE DEF c
    <3>5. Len(Append(Rdb, c)) = Len(Rdb) + 1
      BY <3>3, <3>4
    <3>6. Rank(Usable, entry) \in Nat
      <4>1. entry \in Int
        BY <1>2
      <4>2. QED
        BY <1>2, <4>1, RankType
    <3>7. Len(Append(Rdb, c)) = before + Rank(Usable, entry + 1)
      BY <1>2, <2>5, <3>1, <3>3, <3>5, <3>6
    <3>8. Clients'
      BY <1>1, <1>4, <2>2, <2>8, <3>2, <3>7 DEF Clients, c
    <3>9. QED
      BY <2>3, <2>4, <3>8 DEF Connections
  <2>9. CASE pc' \in Ends /\ Rdb' = Rdb
    <3>1. pc' \notin Alive
      BY <1>3, <2>9
    <3>2. Clients'
      BY <1>1, <1>4, <1>5, <2>9, <3>1 DEF Clients
    <3>3. QED
      BY <2>3, <2>4, <3>2 DEF Connections
  <2>10. QED
    BY <2>2, <2>7, <2>8, <2>9
<1>9. QED
  BY <1>7, <1>8

\* A limiter whose index fits gets its client, or InitConfig does not return.
LEMMA InitLimitKeeps ==
    ASSUME Placed, Connections, InitLimit
    PROVE  Connections'
<1>1. /\ pc = "limiter" /\ UNCHANGED <<cfg, runs, entry, before, Rdb, distClient>>
      /\ pc' \in {"cache"} \cup Ends
  BY NextStep DEF InitLimit, Step, At, Pass, Fatal, Return, Succeed, UseForLimit, Ends, globals,
     clients
<1>2. /\ InRange(cfg.limiter) /\ pc' = "cache" => Limiter' = Client(cfg.limiter)
      /\ Limiter' = Limiter \/ (InRange(cfg.limiter) /\ Limiter' = Client(cfg.limiter))
  BY DEF InitLimit, Step, At, Pass, Fatal, Return, Succeed, UseForLimit, Ends, globals, clients
<1>3. InRange(cfg.limiter) => Client(cfg.limiter) \in RedisClient
  BY ConfigFacts, ClientFacts DEF Placed, Connections
<1>4. EntriesSoFar'
  BY <1>1, EntriesKept DEF Connections, Passes, Ends, AfterRedis, AfterMongo, AfterFastHttp,
         AfterCron, AfterFlake, AfterIpdb, AfterLimiter
<1>5. Clients'
  BY <1>1, ClientsKept DEF Connections, Ends, Alive, AfterLog, AfterGorm, AfterRedis,
         AfterMongo, AfterFastHttp, AfterCron, AfterFlake, AfterIpdb
<1>6. InRange(cfg.limiter)' = InRange(cfg.limiter) /\ Client(cfg.limiter)' = Client(cfg.limiter)
  BY <1>1 DEF InRange, Client
<1>7. ClientsUsed'
  BY <1>1, <1>2, <1>3, <1>6 DEF Connections, ClientsUsed, AfterLimiter, AfterCache, Ends
<1>8. QED
  BY <1>4, <1>5, <1>7 DEF Connections

LEMMA InitLocalCacheKeeps ==
    ASSUME Placed, Connections, InitLocalCache
    PROVE  Connections'
<1>1. /\ pc = "cache" /\ pc' = "ready" /\ UNCHANGED <<cfg, runs, entry, before, Rdb, Limiter>>
      /\ distClient' = IF cfg.cache # None /\ InRange(cfg.cache)
                       THEN Client(cfg.cache)
                       ELSE distClient
  BY NextStep DEF InitLocalCache, Step, At
<1>2. cfg.cache # None /\ InRange(cfg.cache) => Client(cfg.cache) \in RedisClient
  BY ConfigFacts, ClientFacts DEF Placed, Connections
<1>3. EntriesSoFar'
  BY <1>1, EntriesKept DEF Connections, Passes, AfterRedis, AfterMongo, AfterFastHttp,
         AfterCron, AfterFlake, AfterIpdb, AfterLimiter, AfterCache
<1>4. Clients'
  BY <1>1, ClientsKept DEF Connections, Alive, AfterLog, AfterGorm, AfterRedis,
         AfterMongo, AfterFastHttp, AfterCron, AfterFlake, AfterIpdb, AfterLimiter
<1>5. /\ InRange(cfg.limiter)' = InRange(cfg.limiter) /\ Client(cfg.limiter)' = Client(cfg.limiter)
      /\ InRange(cfg.cache)' = InRange(cfg.cache) /\ Client(cfg.cache)' = Client(cfg.cache)
  BY <1>1 DEF InRange, Client
<1>6. ClientsUsed'
  BY <1>1, <1>2, <1>5 DEF Connections, ClientsUsed, AfterLimiter
<1>7. QED
  BY <1>3, <1>4, <1>6 DEF Connections

\* The clients of the call that is over become some of those before.
LEMMA InitConfigAgainKeeps ==
    ASSUME Placed, Connections, InitConfigAgain
    PROVE  Connections'
<1>1. /\ pc' = "load" /\ cfg' = cfg /\ runs' = runs + 1 /\ entry' = 1
      /\ before' = Len(Rdb) /\ Rdb' = Rdb /\ Limiter' = Limiter /\ distClient' = distClient
  BY StepsFacts DEF InitConfigAgain, globals, clients
<1>2. /\ pc' \in Alive \ AfterGorm /\ pc' \notin AfterRedis /\ pc' \notin AfterLimiter
      /\ pc' \notin AfterCache
  BY <1>1 DEF Alive, AfterLog, AfterGorm, AfterRedis, AfterMongo, AfterFastHttp, AfterCron,
         AfterFlake, AfterIpdb, AfterLimiter, AfterCache
<1>3. Usable' = Usable
  BY <1>1 DEF Usable
<1>4. runs \in Nat /\ Usable \in SUBSET (1..Len(cfg.redis)) /\ Len(cfg.redis) \in Nat
  BY ConfigFacts, BoundsAssumption DEF Placed
<1>5. Clients'
  <2>1. Blocks(Rdb, Usable, before, runs)
    BY DEF Connections, Clients
  <2>2. Blocks(Rdb, Usable, Len(Rdb), runs + 1) /\ Len(Rdb) \in Nat
    BY <1>4, <2>1, BlocksAgain, BlocksType
  <2>3. Rank(Usable, 1) = 0
    BY <1>4, RankEnds
  <2>4. Len(Rdb) = Len(Rdb) + Rank(Usable, 1)
    BY <2>2, <2>3
  <2>5. QED
    BY <1>1, <1>3, <2>2, <2>4 DEF Clients
<1>6. EntriesSoFar'
  BY <1>1, <1>2, BoundsAssumption DEF EntriesSoFar
<1>7. ClientsUsed'
  BY <1>1, <1>2 DEF Connections, ClientsUsed
<1>8. QED
  BY <1>5, <1>6, <1>7 DEF Connections

LEMMA ConnectionsStep == Flow /\ Connections /\ [Next]_vars => Connections'
<1> SUFFICES ASSUME Flow, Connections, [Next]_vars PROVE Connections'
  OBVIOUS
<1>1. Placed
  BY DEF Flow
<1>2. CASE UNCHANGED vars
  <2>1. Usable' = Usable
    BY <1>2 DEF Usable, vars
  <2>2. QED
    BY <1>2, <2>1 DEF Connections, EntriesSoFar, Clients, ClientsUsed, InRange, Client, vars,
           globals, clients
<1>3. CASE GetGeneralTracer \/ TracerQuery \/ GetGinTracer \/ HandlerQuery \/ UpdateIpdb
  <2>1. \E u \in Uses : \E panics : Use(u, panics)
    BY <1>3 DEF GetGeneralTracer, TracerQuery, GetGinTracer, HandlerQuery, UpdateIpdb, Uses
  <2>2. QED
    BY <1>1, <2>1, QuietSteps
<1>4. QED
  BY <1>1, <1>2, <1>3, QuietSteps, LoadKeeps, InitRdbKeeps, InitLimitKeeps, InitLocalCacheKeeps,
     InitConfigAgainKeeps DEF Next, Boot

LEMMA Invariance == Spec => []IInv
<1>1. Init => IInv
  BY FlowInit, ConnectionsInit DEF IInv
<1>2. IInv /\ [Next]_vars => IInv'
  BY FlowStep, ConnectionsStep DEF IInv
<1>3. QED
  BY <1>1, <1>2, PTL DEF Spec

(* InitConfig's globals have the types they are declared with.             *)
THEOREM TypesHold == Spec => []TypeOK
<1>1. IInv => TypeOK
  <2> SUFFICES ASSUME IInv PROVE TypeOK
    OBVIOUS
  <2>1. Placed /\ JobsOfCalls /\ EntriesSoFar /\ Clients /\ ClientsUsed
    BY DEF IInv, Flow, Connections
  <2>2. Blocks(Rdb, Usable, before, runs)
    BY <2>1 DEF Clients
  <2>3. Rdb \in Seq(RedisClient) /\ before \in 0..Len(Rdb)
    BY <2>2 DEF Blocks
  <2>4. jobs \subseteq 1..MaxRuns /\ due \subseteq jobs
    BY <2>1, BoundsAssumption DEF Placed, JobsOfCalls
  <2>5. Alive = BootOps \cup {"ready"}
    BY BootOpsFacts DEF Alive, AfterLog, AfterGorm, AfterRedis, AfterMongo, AfterFastHttp,
           AfterCron, AfterFlake, AfterIpdb, AfterLimiter, AfterCache
  <2>6. QED
    BY <2>1, <2>3, <2>4, <2>5 DEF TypeOK, Placed, EntriesSoFar, ClientsUsed
<1>2. QED
  BY <1>1, Invariance, PTL

(* `limiter' and `rdb' mean the entry of their number only if no entry     *)
(* before it was left out, and a later one otherwise; after a call before, *)
(* one of its.                                                             *)
THEOREM IndexesMeanWhatIsLeft == Spec => []IndexesMeanEntries
<1>1. IInv => IndexesMeanEntries
  <2> SUFFICES ASSUME IInv, pc = "ready" PROVE IndexesMeanEntries
    BY DEF IndexesMeanEntries
  <2>1. Placed /\ Clients /\ ClientsUsed
    BY DEF IInv, Flow, Connections
  <2>2. pc \in AfterLimiter /\ pc \in AfterCache
    BY DEF AfterLimiter, AfterCache
  <2>3. cfg.limiter \in Int /\ (cfg.cache # None => cfg.cache \in Int)
    BY <2>1, ConfigFacts DEF Placed
  <2>4. ASSUME InRange(cfg.limiter) PROVE MeansEntry(Limiter, cfg.limiter)
    BY <2>1, <2>2, <2>3, <2>4, ClientFacts DEF ClientsUsed
  <2>5. ASSUME cfg.cache # None, InRange(cfg.cache) PROVE MeansEntry(distClient, cfg.cache)
    BY <2>1, <2>2, <2>3, <2>5, ClientFacts DEF ClientsUsed
  <2>6. QED
    BY <2>4, <2>5 DEF IndexesMeanEntries
<1>2. QED
  BY <1>1, Invariance, PTL

(* When InitConfig returns nil every database it was told of is connected: *)
(* the call's clients are those of its usable entries, and Rdb has them in *)
(* the order of calls and entries.                                         *)
THEOREM NilMeansConnected == Spec => []ReadyMeansConnected
<1>1. IInv => ReadyMeansConnected
  <2> SUFFICES ASSUME IInv, pc = "ready" PROVE ReadyMeansConnected
    BY DEF ReadyMeansConnected
  <2> DEFINE m == Len(cfg.redis)
  <2>1. Placed /\ UpIfConfigured /\ EntriesSoFar /\ Clients /\ ClientsUsed
    BY DEF IInv, Flow, Connections
  <2>2. /\ pc \in Alive /\ pc \in AfterRedis /\ pc \in AfterGorm /\ pc \in AfterMongo
        /\ pc \in AfterLimiter
    BY DEF Alive, AfterLog, AfterGorm, AfterRedis, AfterMongo, AfterFastHttp, AfterCron,
           AfterFlake, AfterIpdb, AfterLimiter, AfterCache
  <2>3. m \in Nat /\ Usable \in SUBSET (1..m) /\ cfg.limiter \in Int
    BY <2>1, ConfigFacts DEF Placed
  <2>4. Blocks(Rdb, Usable, before, runs) /\ Len(Rdb) = before + Cardinality(Usable)
    <3>1. entry = m + 1
      BY <2>1, <2>2 DEF EntriesSoFar
    <3>2. Rank(Usable, entry) = Cardinality(Usable)
      BY <2>3, <3>1, RankEnds
    <3>3. QED
      BY <2>1, <2>2, <3>2 DEF Clients
  <2>5. {Rdb[i] : i \in (before + 1)..Len(Rdb)} = {[run |-> runs, entry |-> e] : e \in Usable}
    <3>1. ClientsAfter(Rdb, before) = ClientsFor(runs, Usable)
      BY <2>3, <2>4, BlocksComplete
    <3>2. QED
      BY <3>1 DEF ClientsAfter, ClientsFor, Record
  <2>6. \A j \in 1..Len(Rdb) : \A i \in 1..(j - 1) : Earlier(Rdb[i], Rdb[j])
    BY <2>4 DEF Blocks
  <2>7. (cfg.gorm # "none" => "Db" \in up) /\ (cfg.mongo => "Mdb" \in up)
    BY <2>1, <2>2 DEF UpIfConfigured
  <2>8. InRange(cfg.limiter) => Limiter # None
    BY <2>1, <2>2, <2>3, ClientFacts DEF ClientsUsed
  <2>9. QED
    BY <2>5, <2>6, <2>7, <2>8 DEF ReadyMeansConnected
<1>2. QED
  BY <1>1, Invariance, PTL
=============================================================================
