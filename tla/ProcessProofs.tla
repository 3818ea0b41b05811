--------------------------- MODULE ProcessProofs ----------------------------
(***************************************************************************)
(* Proofs about a strategy process: module Config, for any readers, keys,  *)
(* types and number of edits (the parameters follow the file, and the      *)
(* values that getters return do not age), and module Startup, for any     *)
(* insights (the strategy runs with its data there, and every topic is     *)
(* asked for).                                                             *)
(***************************************************************************)
EXTENDS Config, Startup, FiniteSetTheorems, TLAPS

Reported(e) == \E i \in DOMAIN events : events[i] = e

(* A watch that is not on the file at the path will be renewed: the rename *)
(* that moved the watched file away is still to be handled.                *)
WatchIsRenewed ==
    pc \notin {"add", "failed"} /\ ~cancelled /\ watch # 0
        => watch = file.ino \/ Reported("Rename")

(* A valid file is in the parameters, or on its way there: being read, or  *)
(* read and about to be set, or with an event that will have it read.      *)
FileIsComing ==
    pc \notin {"add", "load", "failed", "stopped"} /\ ~cancelled /\ watch # 0 /\ file.ino # 0 /\ file.ok
        => \/ Reported("Write") \/ Reported("Rename")
           \/ pc = "read"
           \/ pc = "set" /\ loaded = file.params
           \/ pc = "select" /\ m = file.params

CurrentInv == configFilePath = Name => WatchIsRenewed /\ FileIsComing

(* Versions only grow on the way from the file through loaded and m to the *)
(* cache, and what was returned last is what the cache has.                *)
InOrder ==
    /\ loaded.ver <= file.params.ver /\ m.ver <= file.params.ver
    /\ file.params.ver = edits /\ loaded.ver # 0 /\ m.ver # 0
    /\ pc = "set" => m.ver <= loaded.ver
    /\ \A k \in Keys : returned[k] = cache[k].ver /\ cache[k].ver <= m.ver

AgeInv == TypeOK /\ InOrder
-----------------------------------------------------------------------------
(* What the steps have in common: the editors leave the Watcher and the    *)
(* getters alone, the Watcher leaves the file alone, and the getters both. *)
Editors == WriteFile \/ RenameFile \/ CreateFile \/ ReplaceFile

Getters ==
    \E r \in Readers :
        \/ \E k \in Keys, T \in Types : Get(r, k, T)
        \/ cacheHit(r) \/ cacheFallback(r)
        \/ \E s \in Readers : Race(r, s)

(* Every step is one of the editors, the watcher or the getters. *)
LEMMA StepKinds == Next => Editors \/ Watcher \/ Getters
  BY Zenon DEF Next, Editors, Getters

(* An editor keeps the types of the file, its number and the events.       *)
LEMMA EditorsTyped ==
  ASSUME TypeOK, Editors
  PROVE  /\ file' \in File /\ edits' \in 1 .. MaxEdits + 1 /\ watch' \in Nat
         /\ events' \in Seq({"Write", "Rename", "Remove"})
         /\ UNCHANGED <<configFilePath, pc, loaded, cancelled, paramVars, crashed>>
<1>1. file \in File /\ edits \in 1 .. MaxEdits + 1 /\ watch \in Nat
      /\ events \in Seq({"Write", "Rename", "Remove"}) /\ MaxEdits \in Nat
    BY ConfigAssumption, Zenon DEF TypeOK
<1>2. file.ino \in Nat
    BY <1>1, Zenon DEF File
<1>3. ASSUME NEW ino \in Nat, change(ino)
      PROVE  file' \in File /\ edits' \in 1 .. MaxEdits + 1
    <2>1. edits + 1 \in Nat /\ edits' \in 1 .. MaxEdits + 1
        BY <1>1, <1>3 DEF change
    <2>2. PICK as \in [Keys -> SUBSET Types], ok \in BOOLEAN :
              file' = [ino |-> ino, ok |-> ok, params |-> [ver |-> edits + 1, as |-> as]]
        BY <1>3, Zenon DEF change
    <2> QED BY <2>1, <2>2, Zenon DEF File, Params
<1>4. \A e \in {"Write", "Rename", "Remove"} :
          report(e) => events' \in Seq({"Write", "Rename", "Remove"})
    BY <1>1 DEF report
<1>5. CASE WriteFile
    BY <1>1, <1>2, <1>3, <1>4, <1>5, Zenon DEF WriteFile
<1>6. CASE RenameFile
    <2>1. file' \in File
        BY <1>1, <1>6, Zenon DEF RenameFile, File
    <2> QED BY <1>1, <1>4, <1>6, <2>1, Zenon DEF RenameFile
<1>7. CASE CreateFile
    <2>1. edits + 1 \in Nat
        BY <1>1
    <2> QED BY <1>1, <1>3, <1>7, <2>1, Zenon DEF CreateFile, watcherVars
<1>8. CASE ReplaceFile
    <2>1. edits + 1 \in Nat /\ watch' \in Nat
        BY <1>1, <1>8 DEF ReplaceFile
    <2> QED BY <1>1, <1>3, <1>4, <1>8, <2>1, Zenon DEF ReplaceFile
<1> QED BY <1>5, <1>6, <1>7, <1>8, Zenon DEF Editors

(* The Watcher keeps the types of what it sets. *)
LEMMA WatcherTyped ==
  ASSUME TypeOK, Watcher
  PROVE  /\ watch' \in Nat /\ events' \in Seq({"Write", "Rename", "Remove"})
         /\ pc' \in {"add", "load", "failed", "select", "read", "set", "stopped"}
         /\ loaded' \in Params /\ m' \in Params
         /\ failedKeys' \in [Keys -> Types \union {"none"}]
         /\ {cancelled', crashed'} \subseteq BOOLEAN
         /\ UNCHANGED <<configFilePath, file, edits, cache, getter, returned>>
<1>1. /\ file \in File /\ file.ino \in Nat /\ file.params \in Params /\ loaded \in Params
      /\ events \in Seq({"Write", "Rename", "Remove"})
    BY Zenon DEF TypeOK, File
<1>2. CASE Add
    BY <1>1, <1>2, Zenon DEF Add, TypeOK, fileVars, paramVars
<1>3. CASE Load
    BY <1>1, <1>3, Zenon DEF Load, TypeOK, fileVars
<1>4. CASE handleEvent
    <2>1. Tail(events) \in Seq({"Write", "Rename", "Remove"})
        BY <1>1, <1>4 DEF handleEvent
    <2> QED BY <1>1, <1>4, <2>1, Zenon DEF handleEvent, handleConfigEvent, TypeOK, fileVars, paramVars
<1>5. CASE readRawConfig
    BY <1>1, <1>5, Zenon DEF readRawConfig, TypeOK, fileVars, paramVars
<1>6. CASE setParams
    BY <1>1, <1>6, Zenon DEF setParams, TypeOK, fileVars
<1>7. CASE logFailedKeys
    BY <1>7, Zenon DEF logFailedKeys, TypeOK, fileVars, watcherVars, paramVars
<1>8. CASE Stop
    BY <1>8, Zenon DEF Stop, TypeOK, fileVars, paramVars
<1> QED BY <1>2, <1>3, <1>4, <1>5, <1>6, <1>7, <1>8, Zenon DEF Watcher

(* A getter keeps the types of the cache, the failed keys and the values,  *)
(* leaves file, watch and parameters alone, and returns what the cache     *)
(* then has, never an older value than it returned before.                 *)
LEMMA GettersKeep ==
  ASSUME AgeInv, Getters
  PROVE  /\ cache' \in [Keys -> [type : Types, ver : Nat \ {0}] \union {Nothing}]
         /\ failedKeys' \in [Keys -> Types \union {"none"}]
         /\ getter' \in [Readers -> Getter \union {Idle}]
         /\ returned' \in [Keys -> Nat]
         /\ crashed' \in BOOLEAN
         /\ UNCHANGED <<fileVars, watcherVars, m>>
         /\ \A k \in Keys : /\ returned'[k] = cache'[k].ver /\ cache'[k].ver <= m.ver
                            /\ returned'[k] >= returned[k]
<1>1. /\ cache \in [Keys -> [type : Types, ver : Nat \ {0}] \union {Nothing}]
      /\ failedKeys \in [Keys -> Types \union {"none"}]
      /\ getter \in [Readers -> Getter \union {Idle}]
      /\ returned \in [Keys -> Nat]
      /\ crashed \in BOOLEAN /\ m.ver \in Nat \ {0}
      /\ \A k \in Keys : returned[k] = cache[k].ver /\ cache[k].ver <= m.ver
    BY Zenon DEF AgeInv, TypeOK, InOrder, Params
<1>2. \A r \in Readers : getter[r].at \in {"hit", "miss"} => getter[r] \in Getter
    BY <1>1 DEF Idle
<1>3. ASSUME NEW r \in Readers, NEW k \in Keys, NEW T \in Types, Get(r, k, T)
      PROVE  getter' \in [Readers -> Getter \union {Idle}]
    <2>1. [at |-> IF T \in m.as[k] THEN "hit" ELSE "miss", key |-> k, type |-> T] \in Getter
        BY Zenon DEF Getter
    <2> QED BY <1>1, <1>3, <2>1, Zenon DEF Get
<1>4. ASSUME NEW r \in Readers, NEW k \in Keys, NEW T \in Types, Get(r, k, T)
      PROVE  UNCHANGED <<fileVars, watcherVars, m, cache, failedKeys, returned, crashed>>
    BY <1>4, Zenon DEF Get
<1>5. ASSUME NEW r \in Readers, NEW s \in Readers, Race(r, s)
      PROVE  crashed' \in BOOLEAN /\ UNCHANGED <<fileVars, watcherVars, paramVars>>
    BY <1>5, Zenon DEF Race
<1>6. ASSUME NEW r \in Readers, cacheHit(r)
      PROVE  /\ cache' \in [Keys -> [type : Types, ver : Nat \ {0}] \union {Nothing}]
             /\ failedKeys' \in [Keys -> Types \union {"none"}]
             /\ getter' \in [Readers -> Getter \union {Idle}]
             /\ returned' \in [Keys -> Nat]
             /\ UNCHANGED <<fileVars, watcherVars, m, crashed>>
             /\ \A k \in Keys : /\ returned'[k] = cache'[k].ver /\ cache'[k].ver <= m.ver
                                /\ returned'[k] >= returned[k]
    <2>1. getter[r].key \in Keys /\ getter[r].type \in Types
        BY <1>2, <1>6, Zenon DEF cacheHit, Getter
    <2>2. /\ cache' = [cache EXCEPT ![getter[r].key] = [type |-> getter[r].type, ver |-> m.ver]]
          /\ failedKeys' = [failedKeys EXCEPT ![getter[r].key] = "none"]
          /\ getter' = [getter EXCEPT ![r] = Idle]
          /\ returned' = [returned EXCEPT ![getter[r].key] = m.ver]
          /\ UNCHANGED <<fileVars, watcherVars, m, crashed>>
        BY <1>6, Zenon DEF cacheHit, return
    <2>3. cache' \in [Keys -> [type : Types, ver : Nat \ {0}] \union {Nothing}]
        BY <1>1, <2>1, <2>2, Zenon
    <2>4. /\ failedKeys' \in [Keys -> Types \union {"none"}]
          /\ getter' \in [Readers -> Getter \union {Idle}] /\ returned' \in [Keys -> Nat]
        BY <1>1, <2>1, <2>2, Zenon
    <2>5. \A k \in Keys : /\ returned'[k] = cache'[k].ver /\ cache'[k].ver <= m.ver
                          /\ returned'[k] >= returned[k]
        <3> TAKE k \in Keys
        <3>1. CASE k = getter[r].key
            BY <1>1, <2>1, <2>2, <3>1
        <3>2. CASE k # getter[r].key
            BY <1>1, <2>1, <2>2, <3>2
        <3> QED BY <3>1, <3>2, Zenon
    <2> QED BY <2>2, <2>3, <2>4, <2>5, Zenon
<1>7. ASSUME NEW r \in Readers, cacheFallback(r)
      PROVE  /\ failedKeys' \in [Keys -> Types \union {"none"}]
             /\ getter' \in [Readers -> Getter \union {Idle}]
             /\ returned' = returned /\ crashed' \in BOOLEAN
             /\ UNCHANGED <<fileVars, watcherVars, m, cache>>
    <2>1. getter[r].key \in Keys /\ getter[r].type \in Types
        BY <1>2, <1>7, Zenon DEF cacheFallback, Getter
    <2>2. returned[getter[r].key] = cache[getter[r].key].ver
        BY <1>1, <2>1, Zenon
    <2>3. /\ failedKeys' = [failedKeys EXCEPT ![getter[r].key] = getter[r].type]
          /\ \/ /\ getter' = [getter EXCEPT ![r] = Idle] /\ UNCHANGED crashed
                /\ returned' = [returned EXCEPT ![getter[r].key] = cache[getter[r].key].ver]
             \/ crashed' = TRUE /\ UNCHANGED <<getter, returned>>
          /\ UNCHANGED <<fileVars, watcherVars, m, cache>>
        BY <1>7, Zenon DEF cacheFallback, return
    <2> QED BY <1>1, <2>1, <2>2, <2>3, ZenonT(60)
<1>8. CASE \E r \in Readers, k \in Keys, T \in Types : Get(r, k, T)
    BY <1>1, <1>3, <1>4, <1>8
<1>9. CASE \E r \in Readers : cacheHit(r)
    BY <1>1, <1>6, <1>9, Zenon
<1>10. CASE \E r \in Readers : cacheFallback(r)
    BY <1>1, <1>7, <1>10
<1>11. CASE \E r, s \in Readers : Race(r, s)
    BY <1>1, <1>5, <1>11 DEF paramVars
<1> QED BY <1>8, <1>9, <1>10, <1>11, Zenon DEF Getters
-----------------------------------------------------------------------------
(* The file and the parameters are typed and in order at the start. *)
LEMMA AgeInitial == Init => AgeInv
<1> SUFFICES ASSUME Init PROVE AgeInv
    BY Zenon
<1>1. PICK as \in [Keys -> SUBSET Types] :
          file = [ino |-> 1, ok |-> TRUE, params |-> [ver |-> 1, as |-> as]]
    BY Zenon DEF Init
<1>2. file \in File /\ file.params \in Params /\ file.params.ver = 1
    BY <1>1, Zenon DEF File, Params
<1>3. edits \in 1 .. MaxEdits + 1 /\ events \in Seq({"Write", "Rename", "Remove"})
    BY ConfigAssumption DEF Init
<1>4. /\ cache \in [Keys -> [type : Types, ver : Nat \ {0}] \union {Nothing}]
      /\ failedKeys \in [Keys -> Types \union {"none"}]
      /\ getter \in [Readers -> Getter \union {Idle}]
      /\ returned \in [Keys -> Nat]
      /\ \A k \in Keys : returned[k] = 0 /\ cache[k].ver = 0
    BY Zenon DEF Init, Nothing
<1>5. TypeOK
    BY <1>2, <1>3, <1>4, Zenon DEF Init, TypeOK
<1>6. InOrder
    BY <1>2, <1>4 DEF Init, InOrder
<1> QED BY <1>5, <1>6, Zenon DEF AgeInv

(* Edits make newer versions, and a version moves on towards the cache     *)
(* only.                                                                   *)
LEMMA AgeStep == AgeInv /\ [Next]_vars => AgeInv'
<1> SUFFICES ASSUME AgeInv, [Next]_vars PROVE AgeInv'
    BY Zenon
<1>1. TypeOK /\ InOrder
    BY Zenon DEF AgeInv
<1>2. /\ edits \in Nat /\ loaded.ver \in Nat /\ m.ver \in Nat /\ file.params.ver \in Nat
      /\ MaxEdits \in Nat /\ \A k \in Keys : cache[k].ver \in Nat
    BY <1>1, ConfigAssumption, Zenon DEF TypeOK, InOrder, Params, File, Nothing
<1>3. CASE UNCHANGED vars
    BY <1>1, <1>3, Zenon DEF vars, fileVars, watcherVars, paramVars, AgeInv, TypeOK, InOrder
<1>4. CASE Editors
    <2>1. UNCHANGED <<pc, loaded, cancelled, m, cache, failedKeys, getter, returned, crashed>>
        BY <1>1, <1>4, EditorsTyped, Zenon DEF paramVars
    <2>2. TypeOK'
        BY <1>1, <1>4, <2>1, EditorsTyped, Zenon DEF TypeOK
    <2>3. file'.params.ver = edits' /\ edits' >= edits
        <3>1. change(file.ino) \/ change(edits + 1) => file'.params.ver = edits' /\ edits' >= edits
            BY <1>2 DEF change
        <3>2. CASE RenameFile
            BY <1>1, <1>2, <3>2 DEF RenameFile, InOrder, TypeOK, File
        <3>3. ~RenameFile => change(file.ino) \/ change(edits + 1)
            BY <1>4, Zenon DEF Editors, WriteFile, CreateFile, ReplaceFile
        <3> QED BY <3>1, <3>2, <3>3, Zenon
    <2>4. loaded.ver <= file'.params.ver /\ m.ver <= file'.params.ver
        <3>1. edits' \in Nat
            BY <2>2, ConfigAssumption DEF TypeOK
        <3> QED BY <1>1, <1>2, <2>3, <3>1 DEF InOrder
    <2>5. InOrder'
        BY <1>1, <2>1, <2>3, <2>4, Zenon DEF InOrder
    <2> QED BY <2>2, <2>5, Zenon DEF AgeInv
<1>5. CASE Watcher
    <2>1. UNCHANGED <<configFilePath, file, edits, cache, getter, returned>>
        BY <1>1, <1>5, WatcherTyped, Zenon
    <2>2. TypeOK'
        BY <1>1, <1>5, <2>1, WatcherTyped, Zenon DEF TypeOK
    <2>3. \/ UNCHANGED <<loaded, m>> /\ pc' # "set"
          \/ UNCHANGED <<loaded, m, pc>>
          \/ m' = file.params /\ UNCHANGED loaded /\ pc' # "set"
          \/ loaded' = file.params /\ UNCHANGED m
          \/ m' = loaded /\ UNCHANGED loaded /\ pc = "set" /\ pc' = "select"
        BY <1>5, Zenon DEF Watcher, Add, Load, handleEvent, handleConfigEvent, readRawConfig, setParams, logFailedKeys, Stop,
                    paramVars, watcherVars
    <2>4. file.params.ver # 0
        BY <1>1 DEF InOrder, TypeOK
    <2>5. m'.ver >= m.ver /\ (loaded.ver <= file.params.ver)' /\ (m.ver <= file.params.ver)'
          /\ loaded'.ver # 0 /\ m'.ver # 0 /\ (pc' = "set" => m'.ver <= loaded'.ver)
        BY <1>1, <1>2, <2>1, <2>3, <2>4 DEF InOrder
    <2>6. m'.ver \in Nat
        BY <2>2, Zenon DEF TypeOK, Params
    <2>7. \A k \in Keys : returned'[k] = cache'[k].ver /\ cache'[k].ver <= m'.ver
        BY <1>1, <1>2, <2>1, <2>5, <2>6 DEF InOrder
    <2>8. InOrder'
        BY <1>1, <2>1, <2>5, <2>7, Zenon DEF InOrder
    <2> QED BY <2>2, <2>8 DEF AgeInv
<1>6. CASE Getters
    <2>1. UNCHANGED <<configFilePath, file, edits, watch, events, pc, loaded, cancelled, m>>
        BY <1>6, GettersKeep, Zenon DEF fileVars, watcherVars
    <2>2. TypeOK'
        BY <1>1, <1>6, <2>1, GettersKeep, Zenon DEF TypeOK
    <2>3. InOrder'
        BY <1>1, <1>6, <2>1, GettersKeep, Zenon DEF InOrder
    <2> QED BY <2>2, <2>3 DEF AgeInv
<1> QED BY <1>3, <1>4, <1>5, <1>6, StepKinds, Zenon
-----------------------------------------------------------------------------
(* The Watcher keeps the path it was given. *)
LEMMA PathStays == AgeInv /\ [Next]_vars => configFilePath' = configFilePath
<1> SUFFICES ASSUME AgeInv, [Next]_vars PROVE configFilePath' = configFilePath
    BY Zenon
<1>1. CASE UNCHANGED vars
    BY <1>1, Zenon DEF vars, fileVars
<1>2. CASE Editors
    BY <1>2, EditorsTyped, Zenon DEF AgeInv
<1>3. CASE Watcher
    BY <1>3, WatcherTyped, Zenon DEF AgeInv
<1>4. CASE Getters
    BY <1>4, GettersKeep, Zenon DEF fileVars, AgeInv
<1> QED BY <1>1, <1>2, <1>3, <1>4, StepKinds, Zenon

(* No edit is forgotten: from the moment it is made to the moment it is in *)
(* the parameters, an event or the Watcher itself stands for it.           *)
LEMMA CurrentStep == AgeInv /\ CurrentInv /\ [Next]_vars => CurrentInv'
<1> SUFFICES ASSUME AgeInv, CurrentInv, [Next]_vars, configFilePath = Name
             PROVE  (WatchIsRenewed /\ FileIsComing)'
    BY PathStays, Zenon DEF CurrentInv
<1>1. TypeOK /\ WatchIsRenewed /\ FileIsComing
    BY Zenon DEF AgeInv, CurrentInv
<1>2. /\ events \in Seq({"Write", "Rename", "Remove"}) /\ file \in File /\ edits \in Nat
      /\ watch \in Nat /\ cancelled \in BOOLEAN
    BY <1>1, ConfigAssumption DEF TypeOK
<1>3. CASE UNCHANGED vars
    BY <1>1, <1>3, Zenon DEF vars, fileVars, watcherVars, paramVars, WatchIsRenewed, FileIsComing, Reported
<1>4. ASSUME NEW e \in {"Write", "Rename", "Remove"}, report(e)
      PROVE  /\ \A x : Reported(x) => Reported(x)'
             /\ watch = file.ino => Reported(e)'
    <2>1. CASE watch = file.ino
        <3>1. events' = Append(events, e)
            BY <1>4, <2>1, Zenon DEF report
        <3>2. /\ \A i \in DOMAIN events : i \in DOMAIN events' /\ events'[i] = events[i]
              /\ Len(events) + 1 \in DOMAIN events' /\ events'[Len(events) + 1] = e
            BY <1>2, <3>1
        <3> QED BY <3>2, Zenon DEF Reported
    <2>2. CASE watch # file.ino
        BY <1>4, <2>2, Zenon DEF report, Reported
    <2> QED BY <2>1, <2>2, Zenon
<1>5. CASE Editors
    <2>1. UNCHANGED <<pc, loaded, cancelled, m>>
        BY <1>1, <1>5, EditorsTyped, Zenon DEF paramVars
    <2>2. CASE WriteFile
        <3>1. file'.ino = file.ino /\ watch' = watch /\ report("Write")
            BY <2>2 DEF WriteFile, change
        <3> QED BY <1>1, <1>4, <2>1, <3>1, Zenon DEF WatchIsRenewed, FileIsComing
    <2>3. CASE RenameFile
        <3>1. file'.ino = 0 /\ watch' = watch /\ report("Rename")
            BY <1>2, <2>3, Zenon DEF RenameFile, File
        <3> QED BY <1>1, <1>4, <2>1, <3>1, Zenon DEF WatchIsRenewed, FileIsComing
    <2>4. CASE CreateFile
        <3>1. file.ino = 0 /\ UNCHANGED <<watch, events>>
            BY <2>4, Zenon DEF CreateFile, watcherVars
        <3> QED BY <1>1, <2>1, <3>1, Zenon DEF WatchIsRenewed, FileIsComing, Reported
    <2>5. CASE ReplaceFile
        <3>1. report("Remove") /\ (watch = file.ino => watch' = 0) /\ (watch # file.ino => watch' = watch)
            BY <2>5, Zenon DEF ReplaceFile
        <3> QED BY <1>1, <1>4, <2>1, <3>1, Zenon DEF WatchIsRenewed, FileIsComing
    <2> QED BY <1>5, <2>2, <2>3, <2>4, <2>5, Zenon DEF Editors
<1>6. CASE Watcher
    <2>1. UNCHANGED <<configFilePath, file, edits, cache, getter, returned>>
        BY <1>1, <1>6, WatcherTyped, Zenon
    <2>2. CASE Add
        BY <1>1, <2>1, <2>2, Zenon DEF Add, WatchIsRenewed, FileIsComing
    <2>3. CASE Load
        BY <1>1, <2>1, <2>3, Zenon DEF Load, WatchIsRenewed, FileIsComing, Reported
    <2>4. CASE handleEvent
        <3>1. events # <<>> /\ events' = Tail(events)
            BY <2>4, Zenon DEF handleEvent
        <3>2. ASSUME NEW e, Reported(e), e # Head(events) PROVE Reported(e)'
            <4>1. PICK i \in DOMAIN events : events[i] = e
                BY <3>2, Zenon DEF Reported
            <4>2. i - 1 \in DOMAIN events' /\ events'[i - 1] = e
                BY <1>2, <3>1, <3>2, <4>1
            <4> QED BY <4>2, Zenon DEF Reported
        <3>3. CASE Head(events) = "Rename"
            BY <1>1, <2>1, <2>4, <3>3, Zenon DEF handleEvent, handleConfigEvent, WatchIsRenewed, FileIsComing
        <3>4. CASE Head(events) = "Write"
            BY <1>1, <2>1, <2>4, <3>2, <3>4 DEF handleEvent, handleConfigEvent, WatchIsRenewed, FileIsComing
        <3>5. CASE Head(events) = "Remove"
            BY <1>1, <2>1, <2>4, <3>2, <3>5
               DEF handleEvent, handleConfigEvent, WatchIsRenewed, FileIsComing, paramVars
        <3>6. Head(events) \in {"Write", "Rename", "Remove"}
            BY <1>2, <3>1
        <3> QED BY <3>3, <3>4, <3>5, <3>6, Zenon
    <2>5. CASE readRawConfig
        BY <1>1, <2>1, <2>5, Zenon DEF readRawConfig, WatchIsRenewed, FileIsComing, Reported
    <2>6. CASE setParams
        BY <1>1, <2>1, <2>6, Zenon DEF setParams, WatchIsRenewed, FileIsComing, Reported
    <2>7. CASE logFailedKeys
        BY <1>1, <2>1, <2>7, Zenon DEF logFailedKeys, watcherVars, paramVars, WatchIsRenewed, FileIsComing, Reported
    <2>8. CASE Stop
        BY <1>1, <2>1, <2>8, Zenon DEF Stop, WatchIsRenewed, FileIsComing, Reported
    <2> QED BY <1>6, <2>2, <2>3, <2>4, <2>5, <2>6, <2>7, <2>8, Zenon DEF Watcher
<1>7. CASE Getters
    <2>1. UNCHANGED <<file, edits, watch, events, pc, loaded, cancelled, m>>
        BY <1>7, GettersKeep, Zenon DEF fileVars, watcherVars
    <2> QED BY <1>1, <2>1, Zenon DEF WatchIsRenewed, FileIsComing, Reported
<1> QED BY <1>3, <1>5, <1>6, <1>7, StepKinds, Zenon

(* Once its events are handled, a Watcher that still watches a file, and   *)
(* was given its path in the form of the events, has its present content   *)
(* in the parameters, after any number of edits (handleEvent,              *)
(* handleConfigEvent, readRawConfig, setParams).                           *)
THEOREM QuietMeansCurrent == Spec => []QuietIsCurrent
<1>1. Init => CurrentInv
    BY Zenon DEF Init, CurrentInv, WatchIsRenewed, FileIsComing
<1>2. CurrentInv => QuietIsCurrent
    BY DEF CurrentInv, FileIsComing, QuietIsCurrent, Reported
<1> QED BY <1>1, <1>2, AgeInitial, AgeStep, CurrentStep, PTL DEF Spec

(* Getters return no older value than before, with any number of them      *)
(* running and any edits (cacheHit, cacheFallback).                        *)
THEOREM ValuesDoNotAge == Spec => NeverOlder
<1> DEFINE Keeps == \A k \in Keys : returned'[k] >= returned[k]
<1>1. AgeInv /\ [Next]_vars => [Keeps]_returned
    <2> SUFFICES ASSUME AgeInv, [Next]_vars, returned' # returned PROVE Keeps
        BY Zenon
    <2>1. ~(UNCHANGED vars) /\ TypeOK
        BY Zenon DEF vars, paramVars, AgeInv
    <2>2. CASE Editors
        BY <2>1, <2>2, EditorsTyped, Zenon DEF paramVars
    <2>3. CASE Watcher
        BY <2>1, <2>3, WatcherTyped, Zenon
    <2>4. CASE Getters
        BY <2>4, GettersKeep, Zenon
    <2> QED BY <2>1, <2>2, <2>3, <2>4, StepKinds, Zenon
<1> QED BY <1>1, AgeInitial, AgeStep, PTL DEF Spec, NeverOlder
-----------------------------------------------------------------------------
(* Startup. *)

(* What was ready stays ready, and main runs the strategy only after every *)
(* exchange has been found ready.                                          *)
ReadyInv ==
    /\ received \in [Insights -> 0 .. 2]
    /\ DOMAIN readyStates = Exchanges
    /\ \A e \in Exchanges : readyStates[e] => IsEverythingReady(e)
    /\ main \in {"running", "grace"} => \A e \in Exchanges : readyStates[e]

(* An insight that receives more messages stays ready. *)
LEMMA ReadyStays ==
    ASSUME received \in [Insights -> 0 .. 2], received' \in [Insights -> 0 .. 2],
           \A i \in Insights : received'[i] >= received[i],
           NEW e \in Exchanges, IsEverythingReady(e)
    PROVE  IsEverythingReady(e)'
<1>1. \A x, k : \A i \in Kind(x, k) :
         /\ TradeIsReady(i) => TradeIsReady(i)'
         /\ BookIsReady(i) => BookIsReady(i)'
         /\ QuoteIsReady(i) => QuoteIsReady(i)'
    BY DEF Kind, Of, TradeIsReady, BookIsReady, QuoteIsReady
<1>2. CASE e = "coinex"
    <2>1. CoinExIsReady
        BY <1>2, Zenon DEF IsEverythingReady
    <2>2. CoinExIsReady'
        BY <1>1, <2>1, Zenon DEF CoinExIsReady, Kind, Of
    <2> QED BY <1>2, <2>2, Zenon DEF IsEverythingReady
<1>3. CASE e # "coinex"
    <2>1. BybitIsReady
        BY <1>3, Zenon DEF IsEverythingReady
    <2>2. BybitIsReady'
        BY <1>1, <2>1, Zenon DEF BybitIsReady, Kind, Of
    <2> QED BY <1>3, <2>2, Zenon DEF IsEverythingReady
<1> QED BY <1>2, <1>3, Zenon

(* No step takes a message back from an insight. *)
LEMMA ReceivedGrows ==
    ASSUME received \in [Insights -> 0 .. 2], [StartupNext]_startupVars
    PROVE  /\ received' \in [Insights -> 0 .. 2]
           /\ \A i \in Insights : received'[i] >= received[i]
<1>1. CASE UNCHANGED received
    BY <1>1
<1>2. ASSUME NEW i, NEW f, Update(i, f)
      PROVE  /\ received' \in [Insights -> 0 .. 2]
             /\ \A j \in Insights : received'[j] >= received[j]
    <2>1. \/ received[i] < 2 /\ received' = [received EXCEPT ![i] = received[i] + 1]
          \/ received' = [received EXCEPT ![i] = received[i]]
        BY <1>2, Zenon DEF Update
    <2> QED BY <2>1
<1>3. ASSUME NEW e \in Exchanges, NEW f, HandleTopicMessage(e, f)
      PROVE  UNCHANGED received \/ \E i : Update(i, f)
    BY <1>3, Zenon DEF HandleTopicMessage
<1>4. MainStep => UNCHANGED received
    BY Zenon DEF MainStep, InitAndStart, InitPanics, InitGatewayManager, InitInsights,
       StartGateway, WaitForInsights, WaitRound, updateInsReadyStates, EndRound,
       WaitForCtxDone, MainReturns, feedVars
<1>5. ASSUME NEW e, FeedStep(e) PROVE UNCHANGED received
    BY <1>5, Zenon DEF FeedStep, FeedStarts, FeedFails, FeedCloses, feedVars
<1>6. ASSUME NEW e, NEW r, NEW ok, HandleSubscribeResp(e, r, ok) PROVE UNCHANGED received
    BY <1>6, Zenon DEF HandleSubscribeResp
<1>7. Signal \/ ForceShutdown \/ WatcherFails => UNCHANGED received
    BY Zenon DEF Signal, ForceShutdown, WatcherFails, feedVars
<1>8. UNCHANGED startupVars => UNCHANGED received
    BY Zenon DEF startupVars
<1> QED BY <1>1, <1>2, <1>3, <1>4, <1>5, <1>6, <1>7, <1>8, Zenon DEF StartupNext

(* The wait ends only when all exchanges were found ready. *)
LEMMA ReadyNext == ReadyInv /\ [StartupNext]_startupVars => ReadyInv'
<1> SUFFICES ASSUME ReadyInv, [StartupNext]_startupVars PROVE ReadyInv'
    BY Zenon
<1>1. received' \in [Insights -> 0 .. 2] /\ \A i \in Insights : received'[i] >= received[i]
    BY ReceivedGrows, Zenon DEF ReadyInv
<1>2. \A e \in Exchanges : IsEverythingReady(e) => IsEverythingReady(e)'
    BY <1>1, ReadyStays, Zenon DEF ReadyInv
<1>3. ASSUME UNCHANGED readyStates, main' = main \/ main' \notin {"running", "grace"}
                \/ main = "running"
      PROVE  ReadyInv'
    BY <1>1, <1>2, <1>3, Zenon DEF ReadyInv
<1>4. ASSUME NEW e \in Exchanges, updateInsReadyStates(e)
      PROVE  ReadyInv'
    <2>1. /\ readyStates' = [readyStates EXCEPT ![e] = IsEverythingReady(e)]
          /\ main' = main /\ main = "sweep" /\ UNCHANGED received
        BY <1>4, Zenon DEF updateInsReadyStates, feedVars
    <2>2. DOMAIN readyStates' = Exchanges
        BY <2>1, Zenon DEF ReadyInv
    <2>3. ASSUME NEW x \in Exchanges, readyStates'[x] PROVE IsEverythingReady(x)
        <3>1. CASE x = e
            BY <2>1, <2>3, <3>1, Zenon DEF ReadyInv
        <3>2. CASE x # e
            BY <2>1, <2>3, <3>2, Zenon DEF ReadyInv
        <3> QED BY <3>1, <3>2, Zenon
    <2> QED BY <1>1, <1>2, <2>1, <2>2, <2>3, Zenon DEF ReadyInv
<1>5. ASSUME EndRound PROVE ReadyInv'
    <2>1. /\ UNCHANGED <<readyStates, received>>
          /\ \/ main' = "wait" 
             \/ \A e \in Exchanges : readyStates[e]
        BY <1>5, Zenon DEF EndRound, feedVars, waitVars
    <2> QED BY <1>1, <1>2, <2>1, Zenon DEF ReadyInv
<1>6. MainStep =>
         \/ \E e \in Exchanges : updateInsReadyStates(e)
         \/ EndRound
         \/ UNCHANGED readyStates /\ (main' = main \/ main' \in {"setup", "wait", "sweep"} \/ main = "running")
    BY Zenon DEF MainStep, InitAndStart, InitPanics, InitGatewayManager, InitInsights,
       StartGateway, WaitForInsights, WaitRound, WaitForCtxDone, MainReturns, waitVars
<1>7. ASSUME \/ \E e \in Exchanges : FeedStep(e)
             \/ \E e, r, ok : HandleSubscribeResp(e, r, ok)
             \/ \E e, f : HandleTopicMessage(e, f)
             \/ Signal \/ ForceShutdown \/ WatcherFails \/ UNCHANGED startupVars
      PROVE  UNCHANGED <<readyStates, main>>
    BY <1>7, Zenon DEF FeedStep, FeedStarts, FeedFails, FeedCloses, HandleSubscribeResp,
       HandleTopicMessage, Signal, ForceShutdown, WatcherFails, waitVars, startupVars
<1>8. CASE MainStep
    BY <1>3, <1>4, <1>5, <1>6, <1>8, Zenon
<1>9. CASE ~MainStep
    BY <1>3, <1>7, <1>9, Zenon DEF StartupNext
<1> QED BY <1>8, <1>9, Zenon

(* A strategy runs only when every insight that the wait asks has its      *)
(* data, for any insights of the two exchanges (WaitForInsightsToBeReady,  *)
(* updateInsReadyStates, IsEverythingReady).                               *)
THEOREM ReadyBeforeRunning == StartupSpec => []ReadyWhenRunning
<1>1. StartupInit => ReadyInv
    <2>1. StartupInit => received \in [Insights -> 0 .. 2]
        BY DEF StartupInit
    <2> QED BY <2>1, Zenon DEF StartupInit, ReadyInv
<1>2. ReadyInv => ReadyWhenRunning
    <2> SUFFICES ASSUME ReadyInv, main \in {"running", "grace"}, NEW i \in Insights,
                        ~(i.ex = "bybit" /\ i.kind = "trade")
                 PROVE  IsReady(i)
        BY Zenon DEF ReadyWhenRunning
    <2>1. i.ex \in Exchanges /\ i.ex \in {"coinex", "bybit"} /\ i.kind \in {"trade", "book", "quote"}
        BY StartupAssumption, Zenon DEF Exchanges
    <2>2. IsEverythingReady(i.ex) /\ i \in Kind(i.ex, i.kind)
        BY <2>1, Zenon DEF ReadyInv, Kind, Of
    <2>3. CASE i.ex = "coinex"
        BY <2>1, <2>2, <2>3, Zenon DEF IsEverythingReady, CoinExIsReady, IsReady
    <2>4. CASE i.ex = "bybit"
        BY <2>1, <2>2, <2>4, Zenon DEF IsEverythingReady, BybitIsReady, IsReady
    <2> QED BY <2>1, <2>3, <2>4, Zenon
<1> QED BY <1>1, <1>2, ReadyNext, PTL DEF StartupSpec

(* A name is in one place: in one request that is not answered, or among   *)
(* the topics the exchange has accepted, or those it has refused.          *)
Asked(e, n) == {r \in requests[e] : n \in r}

OnePlace(e, n) ==
    \/ (\E r : Asked(e, n) = {r}) /\ n \notin subscribed[e] /\ n \notin refused[e]
    \/ Asked(e, n) = {} /\ n \in subscribed[e] /\ n \notin refused[e]
    \/ Asked(e, n) = {} /\ n \notin subscribed[e] /\ n \in refused[e]

(* The topics of a map are under their own names. *)
Named(k, T) == \A n \in DOMAIN k : k[n] \in T /\ TopicName(k[n]) = n

(* Every topic is set before its gateway is started, and the feed asks for *)
(* all of them once.                                                       *)
TopicsOf(e) ==
    /\ IF gateway[e] \in {"set", "started"}
       THEN DOMAIN topicMap[e] = Names(Of(e)) /\ Named(topicMap[e], Of(e))
       ELSE topicMap[e] = <<>>
    /\ IF feed[e] = "off"
       THEN requests[e] = {} /\ subscribed[e] = {} /\ refused[e] = {}
       ELSE gateway[e] = "started" /\ \A n \in Names(Of(e)) : OnePlace(e, n)

TopicsInv ==
    /\ DOMAIN gateway = Exchanges /\ DOMAIN topicMap = Exchanges /\ DOMAIN feed = Exchanges
    /\ DOMAIN requests = Exchanges /\ DOMAIN subscribed = Exchanges /\ DOMAIN refused = Exchanges
    /\ \A e \in Exchanges : TopicsOf(e)

(* SetTopics adds the topics of T under their names. *)
LEMMA SetTopicsFacts ==
    ASSUME NEW k, NEW T, NEW U, Named(k, U), T \subseteq U
    PROVE  /\ DOMAIN SetTopics(k, T) = DOMAIN k \union Names(T)
           /\ Named(SetTopics(k, T), U)
<1>1. DOMAIN SetTopics(k, T) = DOMAIN k \union Names(T)
    BY Zenon DEF SetTopics
<1>2. ASSUME NEW n \in DOMAIN SetTopics(k, T)
      PROVE  SetTopics(k, T)[n] \in U /\ TopicName(SetTopics(k, T)[n]) = n
    <2>1. CASE n \in Names(T)
        <3> DEFINE c == CHOOSE i \in T : TopicName(i) = n
        <3>1. SetTopics(k, T)[n] = c
            BY <1>1, <1>2, <2>1, Zenon DEF SetTopics
        <3>2. \E i \in T : TopicName(i) = n
            BY <2>1, Zenon DEF Names
        <3>3. c \in T /\ TopicName(c) = n
            BY <3>2, Zenon
        <3> QED BY <3>1, <3>3, Zenon
    <2>2. CASE n \notin Names(T)
        <3>1. n \in DOMAIN k /\ SetTopics(k, T)[n] = k[n]
            BY <1>1, <1>2, <2>2, Zenon DEF SetTopics
        <3> QED BY <3>1, Zenon DEF Named
    <2> QED BY <2>1, <2>2, Zenon
<1> QED BY <1>1, <1>2, Zenon DEF Named

(* InitInsights sets the topics of all insights of its exchange. *)
LEMMA AllSet ==
    ASSUME NEW e \in Exchanges, NEW k,
           k = IF e = "coinex" THEN CoinExInsights(<<>>) ELSE BybitInsights(<<>>)
    PROVE  DOMAIN k = Names(Of(e)) /\ Named(k, Of(e))
<1> DEFINE A == SetTopics(<<>>, Kind(e, "trade"))
           B == SetTopics(A, Kind(e, "book"))
           C == SetTopics(B, Kind(e, "quote"))
<1>1. e \in {"coinex", "bybit"}
    BY StartupAssumption, Zenon DEF Exchanges
<1>2. k = C
    BY <1>1, Zenon DEF CoinExInsights, BybitInsights
<1>3. \A x : Kind(e, x) \subseteq Of(e)
    BY Zenon DEF Kind
<1>4. DOMAIN <<>> = {} /\ Named(<<>>, Of(e))
    BY DEF Named
<1>5. DOMAIN A = Names(Kind(e, "trade")) /\ Named(A, Of(e))
    BY <1>3, <1>4, SetTopicsFacts, Zenon
<1> HIDE DEF A
<1>6. DOMAIN B = DOMAIN A \union Names(Kind(e, "book")) /\ Named(B, Of(e))
    BY <1>3, <1>5, SetTopicsFacts, Zenon
<1> HIDE DEF B
<1>7. DOMAIN C = DOMAIN B \union Names(Kind(e, "quote")) /\ Named(C, Of(e))
    BY <1>3, <1>6, SetTopicsFacts, Zenon
<1>8. \A i \in Of(e) : i \in Kind(e, "trade") \/ i \in Kind(e, "book") \/ i \in Kind(e, "quote")
    BY StartupAssumption, Zenon DEF Kind, Of
<1>9. Names(Of(e)) = Names(Kind(e, "trade")) \union Names(Kind(e, "book"))
                            \union Names(Kind(e, "quote"))
    BY <1>3, <1>8, Zenon DEF Names
<1> QED BY <1>2, <1>5, <1>6, <1>7, <1>9, Zenon

(* An exchange that a step does not touch. *)
LEMMA TopicsStay ==
    ASSUME NEW x \in Exchanges, TopicsOf(x), gateway'[x] = gateway[x], topicMap'[x] = topicMap[x],
           feed'[x] = feed[x], requests'[x] = requests[x], subscribed'[x] = subscribed[x],
           refused'[x] = refused[x]
    PROVE  TopicsOf(x)'
<1>1. \A n : Asked(x, n)' = Asked(x, n)
    BY Zenon DEF Asked
<1>2. \A n : OnePlace(x, n)' <=> OnePlace(x, n)
    BY <1>1, Zenon DEF OnePlace
<1> QED BY <1>2, Zenon DEF TopicsOf, Named

(* The three steps of the main goroutine that set an exchange up. *)
LEMMA TopicsSetup ==
    ASSUME TopicsInv, NEW e \in Exchanges,
           InitGatewayManager(e) \/ InitInsights(e) \/ StartGateway(e)
    PROVE  TopicsInv'
<1>1. UNCHANGED <<feed, requests, subscribed, refused>>
    BY Zenon DEF InitGatewayManager, InitInsights, StartGateway, feedVars, topicVars
<1>2. PICK g : gateway' = [gateway EXCEPT ![e] = g]
    BY Zenon DEF InitGatewayManager, InitInsights, StartGateway
<1> DEFINE k == topicMap'[e]
<1>3. topicMap' = topicMap \/ \E t : topicMap' = [topicMap EXCEPT ![e] = t]
    BY Zenon DEF InitGatewayManager, InitInsights, StartGateway
<1>4. /\ DOMAIN gateway' = Exchanges /\ DOMAIN topicMap' = Exchanges
      /\ gateway'[e] = g /\ topicMap'[e] = k
      /\ \A x \in Exchanges : x # e => gateway'[x] = gateway[x] /\ topicMap'[x] = topicMap[x]
    BY <1>2, <1>3, Zenon DEF TopicsInv
<1>5. gateway[e] # "started" /\ TopicsOf(e)
    BY Zenon DEF InitGatewayManager, InitInsights, StartGateway, TopicsInv
<1>6. feed[e] = "off" /\ requests[e] = {} /\ subscribed[e] = {} /\ refused[e] = {}
    BY <1>5, Zenon DEF TopicsOf
<1>7. IF g \in {"set", "started"}
      THEN DOMAIN k = Names(Of(e)) /\ Named(k, Of(e))
      ELSE k = <<>>
    <2>1. CASE InitGatewayManager(e)
        BY <1>4, <1>5, <2>1, Zenon DEF InitGatewayManager, TopicsOf
    <2>2. CASE InitInsights(e)
        <3>1. topicMap[e] = <<>> /\ g = "set" /\ topicMap' = [topicMap EXCEPT ![e] =
                 IF e = "coinex" THEN CoinExInsights(topicMap[e]) ELSE BybitInsights(topicMap[e])]
            BY <1>4, <1>5, <2>2, Zenon DEF InitInsights, TopicsOf
        <3>2. k = IF e = "coinex" THEN CoinExInsights(<<>>) ELSE BybitInsights(<<>>)
            BY <1>4, <3>1, Zenon DEF TopicsInv
        <3> QED BY <3>1, <3>2, AllSet, Zenon
    <2>3. CASE StartGateway(e)
        BY <1>4, <1>5, <2>3, Zenon DEF StartGateway, TopicsOf
    <2> QED BY <2>1, <2>2, <2>3, Zenon
<1>8. TopicsOf(e)'
    BY <1>1, <1>4, <1>6, <1>7, Zenon DEF TopicsOf, Named
<1>9. ASSUME NEW x \in Exchanges, x # e PROVE TopicsOf(x)'
    BY <1>1, <1>4, <1>9, TopicsStay, Zenon DEF TopicsInv
<1> QED BY <1>1, <1>4, <1>8, <1>9, Zenon DEF TopicsInv

(* The feed asks for the topics when it connects. *)
LEMMA TopicsAsked ==
    ASSUME TopicsInv, NEW e \in Exchanges, FeedStarts(e)
    PROVE  TopicsInv'
<1>1. /\ feed' = [feed EXCEPT ![e] = "on"] /\ requests' = [requests EXCEPT ![e] = SubscribeRequests(e)]
      /\ UNCHANGED <<gateway, topicMap, subscribed, refused>>
      /\ gateway[e] = "started" /\ feed[e] = "off"
    BY Zenon DEF FeedStarts
<1>2. TopicsOf(e)
    BY Zenon DEF TopicsInv
<1>3. DOMAIN topicMap[e] = Names(Of(e)) /\ subscribed[e] = {} /\ refused[e] = {}
    BY <1>1, <1>2, Zenon DEF TopicsOf
<1>4. DOMAIN feed' = Exchanges /\ DOMAIN requests' = Exchanges
      /\ feed'[e] = "on" /\ requests'[e] = SubscribeRequests(e)
      /\ \A x \in Exchanges : x # e => feed'[x] = feed[x] /\ requests'[x] = requests[x]
    BY <1>1, Zenon DEF TopicsInv
<1>5. ASSUME NEW n \in Names(Of(e)) PROVE \E r : Asked(e, n)' = {r}
    <2>1. CASE e = "coinex"
        <3>1. requests'[e] = {{x} : x \in Names(Of(e))}
            BY <1>3, <1>4, <2>1, Zenon DEF SubscribeRequests, CoinExRequests
        <3>2. \A r \in requests'[e] : n \in r => r = {n}
            BY <3>1, Zenon
        <3>3. {n} \in requests'[e]
            BY <1>5, <3>1, Zenon
        <3>4. Asked(e, n)' = {{n}}
            BY <3>2, <3>3, Zenon DEF Asked
        <3> QED BY <3>4, Zenon
    <2>2. CASE e # "coinex"
        <3>1. requests'[e] = {Names(Of(e))} \ {{}}
            BY <1>3, <1>4, <2>2, Zenon DEF SubscribeRequests, BybitRequests
        <3>2. Asked(e, n)' = {Names(Of(e))}
            BY <1>5, <3>1, Zenon DEF Asked
        <3> QED BY <3>2, Zenon
    <2> QED BY <2>1, <2>2, Zenon
<1>6. ASSUME NEW n \in Names(Of(e)) PROVE OnePlace(e, n)'
    BY <1>1, <1>3, <1>5, Zenon DEF OnePlace
<1>7. feed'[e] # "off" /\ gateway'[e] = "started"
    BY <1>1, <1>4, Zenon
<1>8. TopicsOf(e)'
    BY <1>1, <1>2, <1>6, <1>7, Zenon DEF TopicsOf, Named
<1>9. ASSUME NEW x \in Exchanges, x # e PROVE TopicsOf(x)'
    BY <1>1, <1>4, <1>9, TopicsStay, Zenon DEF TopicsInv
<1> QED BY <1>1, <1>4, <1>8, <1>9, Zenon DEF TopicsInv

(* An answer moves the names of a request, and no other, to one side. *)
LEMMA TopicsAnswered ==
    ASSUME TopicsInv, NEW e \in Exchanges, NEW r \in requests[e], NEW ok \in BOOLEAN,
           HandleSubscribeResp(e, r, ok)
    PROVE  TopicsInv'
<1>1. /\ requests' = [requests EXCEPT ![e] = requests[e] \ {r}]
      /\ subscribed' = [subscribed EXCEPT ![e] = IF ok THEN subscribed[e] \union r ELSE subscribed[e]]
      /\ refused' = [refused EXCEPT ![e] = IF ok THEN refused[e] ELSE refused[e] \union r]
      /\ UNCHANGED <<gateway, topicMap, feed>> /\ feed[e] # "off"
    BY Zenon DEF HandleSubscribeResp
<1>2. /\ DOMAIN requests' = Exchanges /\ DOMAIN subscribed' = Exchanges /\ DOMAIN refused' = Exchanges
      /\ requests'[e] = requests[e] \ {r}
      /\ subscribed'[e] = IF ok THEN subscribed[e] \union r ELSE subscribed[e]
      /\ refused'[e] = IF ok THEN refused[e] ELSE refused[e] \union r
      /\ \A x \in Exchanges : x # e => /\ requests'[x] = requests[x] /\ subscribed'[x] = subscribed[x]
                                         /\ refused'[x] = refused[x]
    BY <1>1, Zenon DEF TopicsInv
<1>3. TopicsOf(e)
    BY Zenon DEF TopicsInv
<1>4. ASSUME NEW n \in Names(Of(e)) PROVE OnePlace(e, n)'
    <2>1. OnePlace(e, n)
        BY <1>1, <1>3, <1>4, Zenon DEF TopicsOf
    <2>2. Asked(e, n)' = Asked(e, n) \ {r}
        BY <1>2, Zenon DEF Asked
    <2>3. CASE n \in r
        <3>1. r \in Asked(e, n)
            BY <2>3, Zenon DEF Asked
        <3>2. Asked(e, n) = {r} /\ n \notin subscribed[e] /\ n \notin refused[e]
            BY <2>1, <3>1, Zenon DEF OnePlace
        <3>3. Asked(e, n)' = {}
            BY <2>2, <3>2, Zenon
        <3> QED BY <1>2, <2>3, <3>2, <3>3, Zenon DEF OnePlace
    <2>4. CASE n \notin r
        <3>1. r \notin Asked(e, n)
            BY <2>4, Zenon DEF Asked
        <3>2. Asked(e, n)' = Asked(e, n)
            BY <2>2, <3>1, Zenon
        <3>3. (n \in subscribed'[e] <=> n \in subscribed[e]) /\ (n \in refused'[e] <=> n \in refused[e])
            BY <1>2, <2>4, Zenon
        <3> QED BY <2>1, <3>2, <3>3, Zenon DEF OnePlace
    <2> QED BY <2>3, <2>4, Zenon
<1>5. TopicsOf(e)'
    BY <1>1, <1>3, <1>4, Zenon DEF TopicsOf, Named
<1>6. ASSUME NEW x \in Exchanges, x # e PROVE TopicsOf(x)'
    BY <1>1, <1>2, <1>6, TopicsStay, Zenon DEF TopicsInv
<1> QED BY <1>1, <1>2, <1>5, <1>6, Zenon DEF TopicsInv

(* The channels close with what they have asked for. *)
LEMMA TopicsClosed ==
    ASSUME TopicsInv, NEW e \in Exchanges, FeedCloses(e)
    PROVE  TopicsInv'
<1>1. /\ feed' = [feed EXCEPT ![e] = "closed"] /\ feed[e] = "on"
      /\ UNCHANGED <<gateway, topicMap, requests, subscribed, refused>>
    BY Zenon DEF FeedCloses, topicVars
<1>2. /\ DOMAIN feed' = Exchanges /\ feed'[e] = "closed"
      /\ \A x \in Exchanges : x # e => feed'[x] = feed[x]
    BY <1>1, Zenon DEF TopicsInv
<1>3. feed[e] # "off" /\ feed'[e] # "off"
    BY <1>1, <1>2, Zenon
<1>4. TopicsOf(e)
    BY Zenon DEF TopicsInv
<1>5. \A n : OnePlace(e, n)' <=> OnePlace(e, n)
    BY <1>1, Zenon DEF OnePlace, Asked
<1>6. TopicsOf(e)'
    BY <1>1, <1>3, <1>4, <1>5, Zenon DEF TopicsOf, Named
<1>7. ASSUME NEW x \in Exchanges, x # e PROVE TopicsOf(x)'
    BY <1>1, <1>2, <1>7, TopicsStay, Zenon DEF TopicsInv
<1> QED BY <1>1, <1>2, <1>6, <1>7, Zenon DEF TopicsInv

LEMMA TopicsInit == StartupInit => TopicsInv
<1> SUFFICES ASSUME StartupInit PROVE TopicsInv
    BY Zenon
<1>1. \A e \in Exchanges :
        /\ gateway[e] = "none" /\ topicMap[e] = <<>> /\ feed[e] = "off"
        /\ requests[e] = {} /\ subscribed[e] = {} /\ refused[e] = {}
    BY Zenon DEF StartupInit
<1>2. \A e \in Exchanges : gateway[e] \notin {"set", "started"}
    BY <1>1, Zenon
<1>3. \A e \in Exchanges : TopicsOf(e)
    BY <1>1, <1>2, Zenon DEF TopicsOf
<1> QED BY <1>3, Zenon DEF StartupInit, TopicsInv

(* Every step keeps the invariant. *)
LEMMA TopicsNext ==
    ASSUME TopicsInv, [StartupNext]_startupVars
    PROVE  TopicsInv'
<1> DEFINE Still == UNCHANGED <<gateway, topicMap, feed, requests, subscribed, refused>>
<1>1. CASE Still
    <2>1. \A x \in Exchanges : TopicsOf(x)'
        BY <1>1, TopicsStay, Zenon DEF TopicsInv
    <2> QED BY <1>1, <2>1, Zenon DEF TopicsInv
<1>2. CASE \E e \in Exchanges : InitGatewayManager(e) \/ InitInsights(e) \/ StartGateway(e)
    BY <1>2, TopicsSetup, Zenon
<1>3. CASE \E e \in Exchanges : FeedStarts(e)
    BY <1>3, TopicsAsked, Zenon
<1>4. CASE \E e \in Exchanges : FeedCloses(e)
    BY <1>4, TopicsClosed, Zenon
<1>5. CASE \E e \in Exchanges : \E r \in requests[e], ok \in BOOLEAN : HandleSubscribeResp(e, r, ok)
    BY <1>5, TopicsAnswered, Zenon
<1>6. CASE MainStep
    <2>1. CASE \E w \in Modes : InitAndStart(w) \/ InitPanics(w)
        BY <1>1, <2>1, Zenon DEF InitAndStart, InitPanics, feedVars, topicVars
    <2>2. CASE \E e \in Exchanges : updateInsReadyStates(e)
        BY <1>1, <2>2, Zenon DEF updateInsReadyStates, feedVars, topicVars
    <2>3. CASE WaitForInsights \/ WaitRound \/ EndRound \/ WaitForCtxDone \/ MainReturns
        BY <1>1, <2>3, Zenon DEF WaitForInsights, WaitRound, EndRound, WaitForCtxDone,
                                 MainReturns, feedVars, topicVars
    <2> QED BY <1>2, <1>6, <2>1, <2>2, <2>3, Zenon DEF MainStep
<1>7. CASE \E e \in Exchanges : FeedFails(e)
    BY <1>1, <1>7, Zenon DEF FeedFails, feedVars, topicVars
<1>8. CASE \E e \in Exchanges : \E f \in Frames(e) : HandleTopicMessage(e, f)
    BY <1>1, <1>8, Zenon DEF HandleTopicMessage, topicVars
<1>9. CASE Signal \/ ForceShutdown \/ WatcherFails
    BY <1>1, <1>9, Zenon DEF Signal, ForceShutdown, WatcherFails, feedVars, topicVars
<1>10. CASE UNCHANGED startupVars
    BY <1>1, <1>10, Zenon DEF startupVars
<1> QED BY <1>3, <1>4, <1>5, <1>6, <1>7, <1>8, <1>9, <1>10, Zenon DEF StartupNext, FeedStep

(* A name in one place is counted once. *)
LEMMA OneIsCounted ==
    ASSUME NEW e, NEW n, OnePlace(e, n)
    PROVE  Cardinality({r \in requests[e] : n \in r})
             + Cardinality({n} \intersect subscribed[e]) + Cardinality({n} \intersect refused[e]) = 1
<1>1. Cardinality({}) = 0 /\ \A x : Cardinality({x}) = 1
    BY FS_EmptySet, FS_Singleton, Zenon
<1> DEFINE a == Cardinality(Asked(e, n))
           b == Cardinality({n} \intersect subscribed[e])
           c == Cardinality({n} \intersect refused[e])
<1>2. IF n \in subscribed[e] THEN {n} \intersect subscribed[e] = {n} ELSE {n} \intersect subscribed[e] = {}
    BY Zenon
<1>3. IF n \in refused[e] THEN {n} \intersect refused[e] = {n} ELSE {n} \intersect refused[e] = {}
    BY Zenon
<1>4. (a = 1 /\ b = 0 /\ c = 0) \/ (a = 0 /\ b = 1 /\ c = 0) \/ (a = 0 /\ b = 0 /\ c = 1)
    BY <1>1, <1>2, <1>3, Zenon DEF OnePlace
<1> HIDE DEF a, b, c
<1>5. a + b + c = 1
    BY <1>4
<1> QED BY <1>5, Zenon DEF Asked, a, b, c

(* The name of a frame is the name of its topic: on CoinEx it is put       *)
(* together again from the method and the data.                            *)
LEMMA FrameIsTopic ==
    ASSUME NEW e \in Exchanges, NEW i \in Of(e)
    PROVE  FrameTopic(e, [topic |-> TopicName(i), whole |-> TRUE]) = TopicName(i)
<1>1. i.ex = e
    BY Zenon DEF Of
<1>2. CASE e = "coinex"
    <2>1. TopicName(i) = <<i.kind, i.symbol>>
        BY <1>1, <1>2, Zenon DEF TopicName, CoinExTopic
    <2> QED BY <1>2, <2>1 DEF FrameTopic, CoinExFrameTopic
<1>3. CASE e # "coinex"
    BY <1>3, Zenon DEF FrameTopic, BybitFrameTopic
<1> QED BY <1>2, <1>3, Zenon

LEMMA TopicsOK ==
    ASSUME TopicsInv
    PROVE  AllTopicsSet
<1> SUFFICES ASSUME NEW e \in Exchanges, feed[e] # "off", NEW i \in Of(e)
             PROVE  TopicIsSet(e, i)
    BY Zenon DEF AllTopicsSet
<1> DEFINE n == TopicName(i)
<1>1. n \in Names(Of(e)) /\ TopicsOf(e) /\ i.ex = e
    BY Zenon DEF Names, Of, TopicsInv
<1>2. gateway[e] = "started" /\ OnePlace(e, n)
    BY <1>1, Zenon DEF TopicsOf
<1>3. gateway[e] \in {"set", "started"}
    BY <1>2, Zenon
<1>4. n \in DOMAIN topicMap[e] /\ topicMap[e][n] \in Of(e) /\ TopicName(topicMap[e][n]) = n
    BY <1>1, <1>3, Zenon DEF TopicsOf, Named
<1>5. topicMap[e][n] = i \/ Shared(i)
    BY <1>1, <1>4, Zenon DEF Shared
<1>6. FrameTopic(e, [topic |-> n, whole |-> TRUE]) = n
    BY FrameIsTopic, Zenon
<1>7. Cardinality({r \in requests[e] : n \in r})
        + Cardinality({n} \intersect subscribed[e]) + Cardinality({n} \intersect refused[e]) = 1
    BY <1>2, OneIsCounted, Zenon
<1> QED BY <1>4, <1>5, <1>6, <1>7, Zenon DEF TopicIsSet

(* Startup: a connected feed has asked for the topic of every insight,     *)
(* once, and its frames go to the insight of that name (AllTopicsSet), for *)
(* every set of insights.                                                  *)
THEOREM TopicsAllSet == StartupSpec => []AllTopicsSet
<1>1. StartupInit => TopicsInv
    BY TopicsInit, Zenon
<1>2. TopicsInv /\ [StartupNext]_startupVars => TopicsInv'
    BY TopicsNext, Zenon
<1>3. TopicsInv => AllTopicsSet
    BY TopicsOK, Zenon
<1> QED BY <1>1, <1>2, <1>3, PTL DEF StartupSpec
=============================================================================
