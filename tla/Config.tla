------------------------------- MODULE Config -------------------------------
(***************************************************************************)
(* Hot reload of the configuration: the Watcher (configs/watcher.go), which*)
(* reads the file again when fsnotify reports a change, and the getters of *)
(* ParamMap (configs/config.go), which fall back to the value they parsed  *)
(* last.  A file is an inode with a version; a raw value is the set of the *)
(* types it can be parsed as; a parsed value is a type and the version it  *)
(* comes from.  The secret file is watched in the same way.  All events    *)
(* are those of the one file, under the name fsnotify gives it.            *)
(*                                                                         *)
(* The getters hold the read lock only, and write two maps: what the Go    *)
(* runtime does when two of them meet is to go on or to end the process.   *)
(* Definitions whose name starts with Bad are faulty variants.             *)
(***************************************************************************)
EXTENDS Naturals, Sequences

CONSTANTS
    Readers,    \* goroutines of the strategy that call getters
    Keys,       \* parameters
    Types,      \* the T of the getters (int, int64, bool...)
    MaxEdits    \* bound: changes of the file

ASSUME ConfigAssumption == MaxEdits \in Nat

VARIABLES
    configFilePath, \* the path given to NewWatcher
    file,       \* the file at configFilePath; ino 0: there is none
    edits,      \* changes so far; numbers versions and inodes
    watch,      \* the inode fsnotify watches, 0 for none
    events,     \* Watcher.watcher.Events
    pc,         \* where the Watcher is
    loaded,     \* what readRawConfig has returned
    m,          \* ParamMap.m
    cache,      \* ParamMap.cache
    failedKeys, \* ParamMap.failedKeys: the type a key could not be parsed as
    getter,     \* the getter each reader is in
    returned,   \* the version of the value last returned for a key
    cancelled,  \* cancelCause has been called
    crashed     \* a panic, or a fatal error of the runtime

fileVars == <<configFilePath, file, edits>>
watcherVars == <<watch, events, pc, loaded, cancelled>>
paramVars == <<m, cache, failedKeys, getter, returned>>
vars == <<fileVars, watcherVars, paramVars, crashed>>

Nothing == [type |-> "none", ver |-> 0]
Params == [ver : Nat, as : [Keys -> SUBSET Types]]
File == [ino : Nat, ok : BOOLEAN, params : Params]
Paths == {"config.yaml", "./config.yaml"}
Idle == [at |-> "idle"]
Getter == [at : {"hit", "miss"}, key : Keys, type : Types]

Init ==
    /\ configFilePath \in Paths
    /\ \E as \in [Keys -> SUBSET Types] :
          file = [ino |-> 1, ok |-> TRUE, params |-> [ver |-> 1, as |-> as]]
    /\ edits = 1
    /\ watch = 0
    /\ events = <<>>
    /\ pc = "add"
    /\ loaded = file.params
    /\ m = file.params
    /\ cache = [k \in Keys |-> Nothing]
    /\ failedKeys = [k \in Keys |-> "none"]
    /\ getter = [r \in Readers |-> Idle]
    /\ returned = [k \in Keys |-> 0]
    /\ cancelled = FALSE
    /\ crashed = FALSE
-----------------------------------------------------------------------------
(* Editors.  Only the inode that is watched produces events. *)

report(e) == events' = IF watch = file.ino THEN Append(events, e) ELSE events

change(ino) ==
    /\ edits <= MaxEdits
    /\ edits' = edits + 1
    /\ \E as \in [Keys -> SUBSET Types], ok \in BOOLEAN :
          file' = [ino |-> ino, ok |-> ok, params |-> [ver |-> edits + 1, as |-> as]]

(* The file is written in place; it may not be a valid configuration (an   *)
(* editor that truncates it first leaves it so for a moment).              *)
WriteFile ==
    /\ file.ino # 0
    /\ change(file.ino)
    /\ report("Write")
    /\ UNCHANGED <<configFilePath, watch, pc, loaded, cancelled, paramVars, crashed>>

(* The file is renamed to a backup, and a new one created at the path. *)
RenameFile ==
    /\ file.ino # 0 /\ edits <= MaxEdits
    /\ file' = [file EXCEPT !.ino = 0]
    /\ report("Rename")
    /\ UNCHANGED <<configFilePath, edits, watch, pc, loaded, cancelled, paramVars, crashed>>

CreateFile ==
    /\ file.ino = 0
    /\ change(edits + 1)
    /\ UNCHANGED <<configFilePath, watcherVars, paramVars, crashed>>

(* Another file is renamed to the path: the inode watched is removed, and  *)
(* the watch with it.                                                      *)
ReplaceFile ==
    /\ file.ino # 0
    /\ change(edits + 1)
    /\ report("Remove")
    /\ watch' = IF watch = file.ino THEN 0 ELSE watch
    /\ UNCHANGED <<configFilePath, pc, loaded, cancelled, paramVars, crashed>>
-----------------------------------------------------------------------------
(* NewWatcher, which returns an error when a step fails. *)

Add ==
    /\ pc = "add"
    /\ watch' = file.ino
    /\ pc' = IF file.ino = 0 THEN "failed" ELSE "load"
    /\ UNCHANGED <<fileVars, events, loaded, cancelled, paramVars, crashed>>

Load ==
    /\ pc = "load"
    /\ IF file.ino # 0 /\ file.ok
       THEN pc' = "select" /\ m' = file.params
       ELSE pc' = "failed" /\ UNCHANGED m
    /\ UNCHANGED <<fileVars, watch, events, loaded, cancelled, cache, failedKeys, getter,
                   returned, crashed>>

BadHandleConfigEvent(e) ==   \* the new file is not watched
    /\ pc' = IF e = "Remove" THEN pc ELSE "read"
    /\ UNCHANGED <<watch, cancelled>>

(* handleConfigEvent: after a rename the path is watched again, and the    *)
(* application is shut down if it cannot be; other events than Write and   *)
(* Rename are ignored.                                                     *)
handleConfigEvent(e) ==
    \/ /\ e = "Rename" /\ file.ino = 0
       /\ cancelled' = TRUE
       /\ UNCHANGED <<watch, pc>>
    \/ /\ e = "Rename" /\ file.ino # 0
       /\ watch' = file.ino
       /\ pc' = "read"
       /\ UNCHANGED cancelled
    \/ /\ e = "Write"
       /\ pc' = "read"
       /\ UNCHANGED <<watch, cancelled>>
    \/ /\ e = "Remove"
       /\ UNCHANGED <<watch, pc, cancelled>>

(* The name in an event: fsnotify cleans the path it is given to watch.    *)
Name == "config.yaml"

(* handleEvent: an event whose name is not the path as it was given is     *)
(* nobody's, and is dropped.                                               *)
handleEvent ==
    /\ pc = "select" /\ events # <<>>
    /\ events' = Tail(events)
    /\ IF Name = configFilePath
       THEN handleConfigEvent(Head(events))
       ELSE UNCHANGED <<watch, pc, cancelled>>
    /\ UNCHANGED <<fileVars, loaded, paramVars, crashed>>

(* readRawConfig; a file that cannot be read or is not valid is skipped. *)
readRawConfig ==
    /\ pc = "read"
    /\ IF file.ino # 0 /\ file.ok
       THEN pc' = "set" /\ loaded' = file.params
       ELSE pc' = "select" /\ UNCHANGED loaded
    /\ UNCHANGED <<fileVars, watch, events, cancelled, paramVars, crashed>>

(* setParams, under the write lock: no getter is running. *)
setParams ==
    /\ pc = "set"
    /\ \A r \in Readers : getter[r] = Idle
    /\ m' = loaded
    /\ failedKeys' = [k \in Keys |-> "none"]
    /\ pc' = "select"
    /\ UNCHANGED <<fileVars, watch, events, loaded, cancelled, cache, getter, returned, crashed>>

Busy(r) == getter[r] # Idle

(* The warn ticker: logFailedKeys ranges over failedKeys, if there are any, *)
(* under the read lock, where it may meet a getter that writes the map.     *)
logFailedKeys ==
    /\ pc = "select"
    /\ \E k \in Keys : failedKeys[k] # "none"
    /\ \E r \in Readers : Busy(r)
    /\ crashed' = TRUE
    /\ UNCHANGED <<fileVars, watcherVars, paramVars>>

Stop ==
    /\ pc = "select" /\ cancelled
    /\ pc' = "stopped"
    /\ UNCHANGED <<fileVars, watch, events, loaded, cancelled, paramVars, crashed>>
-----------------------------------------------------------------------------
(* A getter of type T: take the read lock and parse, ... *)
Get(r, k, T) ==
    /\ pc \notin {"add", "load", "failed"}
    /\ ~Busy(r)
    /\ getter' = [getter EXCEPT ![r] =
                     [at |-> IF T \in m.as[k] THEN "hit" ELSE "miss", key |-> k, type |-> T]]
    /\ UNCHANGED <<fileVars, watcherVars, m, cache, failedKeys, returned, crashed>>

return(r, ver) ==
    /\ getter' = [getter EXCEPT ![r] = Idle]
    /\ returned' = [returned EXCEPT ![getter[r].key] = ver]

BadCacheHit(r) ==   \* a value in the cache is not replaced
    LET g == getter[r] IN
    /\ g.at = "hit"
    /\ cache' = [cache EXCEPT ![g.key] =
                    IF @ = Nothing THEN [type |-> g.type, ver |-> m.ver] ELSE @]
    /\ failedKeys' = [failedKeys EXCEPT ![g.key] = "none"]
    /\ return(r, m.ver)
    /\ UNCHANGED <<fileVars, watcherVars, m, crashed>>

(* ... then cacheHit, ... *)
cacheHit(r) ==
    LET g == getter[r] IN
    /\ g.at = "hit"
    /\ cache' = [cache EXCEPT ![g.key] = [type |-> g.type, ver |-> m.ver]]
    /\ failedKeys' = [failedKeys EXCEPT ![g.key] = "none"]
    /\ return(r, m.ver)
    /\ UNCHANGED <<fileVars, watcherVars, m, crashed>>

(* ... or cacheFallback, which panics when the value in the cache has      *)
(* another type.                                                           *)
cacheFallback(r) ==
    LET g == getter[r]
        c == cache[g.key] IN
    /\ g.at = "miss"
    /\ failedKeys' = [failedKeys EXCEPT ![g.key] = g.type]
    /\ IF c = Nothing \/ c.type = g.type
       THEN return(r, c.ver) /\ UNCHANGED crashed
       ELSE crashed' = TRUE /\ UNCHANGED <<getter, returned>>
    /\ UNCHANGED <<fileVars, watcherVars, m, cache>>

(* Two getters in the maps at once. *)
Race(r, s) ==
    /\ r # s /\ Busy(r) /\ Busy(s)
    /\ crashed' = TRUE
    /\ UNCHANGED <<fileVars, watcherVars, paramVars>>
-----------------------------------------------------------------------------
Watcher == Add \/ Load \/ handleEvent \/ readRawConfig \/ setParams \/ logFailedKeys \/ Stop

Next ==
    /\ ~crashed
    /\ \/ WriteFile \/ RenameFile \/ CreateFile \/ ReplaceFile
       \/ Watcher
       \/ \E r \in Readers :
             \/ \E k \in Keys, T \in Types : Get(r, k, T)
             \/ cacheHit(r) \/ cacheFallback(r)
             \/ \E s \in Readers : Race(r, s)

Spec == Init /\ [][Next]_vars
-----------------------------------------------------------------------------
(* Type invariant. *)
TypeOK ==
    /\ configFilePath \in Paths
    /\ file \in File /\ edits \in 1 .. MaxEdits + 1
    /\ watch \in Nat /\ events \in Seq({"Write", "Rename", "Remove"})
    /\ pc \in {"add", "load", "failed", "select", "read", "set", "stopped"}
    /\ loaded \in Params /\ m \in Params
    /\ cache \in [Keys -> [type : Types, ver : Nat \ {0}] \union {Nothing}]
    /\ failedKeys \in [Keys -> Types \union {"none"}]
    /\ getter \in [Readers -> Getter \union {Idle}]
    /\ returned \in [Keys -> Nat]
    /\ {cancelled, crashed} \subseteq BOOLEAN

(* Once the Watcher has handled its events, the parameters are those of    *)
(* the file, if it is a valid one and the application is not being shut    *)
(* down: no edit falls between watching the file and reading it, whatever  *)
(* sequence of edits in place and of renames.  The exceptions the code has *)
(* are a path that is not in the form fsnotify reports it in, all of whose *)
(* events handleEvent drops, and a file renamed over the path: the watch   *)
(* is gone with the old file, and the Remove event that says so is ignored.*)
QuietIsCurrent ==
    configFilePath = Name /\ pc = "select" /\ events = <<>> /\ ~cancelled /\ watch # 0
        => (file.ino # 0 /\ file.ok => m = file.params)

(* A getter never returns a value older than one returned before for the   *)
(* key, nor the zero value after a good one, through any sequence of good  *)
(* and bad edits and with any other getters running.                       *)
NeverOlder == [][\A k \in Keys : returned'[k] >= returned[k]]_returned

=============================================================================
