---------------------------- MODULE ConfigStore ----------------------------
(***************************************************************************)
(* DatabaseConfigStore (sqld/src/connection/config.rs): the per-database  *)
(* config.json, replaced by writing config.json~ and renaming it over      *)
(* config.json, and the in-memory Arc snapshot swapped under a Mutex.      *)
(*                                                                         *)
(* Files are paths bound to inodes.  fs::write opens config.json~ with    *)
(* create+truncate, which leaves a torn (unparseable) file until the       *)
(* bytes are written through the open descriptor; a descriptor keeps       *)
(* pointing at its inode when the path is renamed.  The process may crash *)
(* at any point and is restarted by load().  Each writer is one caller of *)
(* store(); nothing in the store serialises two callers.                  *)
(***************************************************************************)
EXTENDS Naturals, FiniteSets, Functions

CONSTANTS
  Writers,        \* concurrent callers of store()
  Values,         \* configs that can be stored
  DefaultConfig,  \* DatabaseConfig::default()
  MaxInodes,      \* inode numbers available to the file system
  None,           \* no inode / no descriptor / no snapshot (model value)
  Torn            \* content serde_json cannot parse (model value)

ASSUME DefaultConfig \in Values
ASSUME MaxInodes >= Cardinality(Writers) + 2

Inodes == 1..MaxInodes

(* Control points of one store() call. *)
Idle == "idle"
Writing == "writing"     \* config.json~ open and truncated
Renaming == "renaming"   \* bytes written, rename pending
Swapping == "swapping"   \* renamed, snapshot not yet swapped

VARIABLES
  path,    \* [{"cfg", "tmp"} -> Inodes \cup {None}]
  data,    \* content of every inode
  fd,      \* descriptor each writer has open
  pc,      \* where each store() is
  val,     \* the config each store() writes
  mem,     \* the snapshot get() returns; None while the process is down
  acked,   \* ghost: config of the last store() that returned Ok
  lost     \* ghost: configs renamed into place by a store() cut by a crash

vars == <<path, data, fd, pc, val, mem, acked, lost>>

-----------------------------------------------------------------------------
Referenced(p, f) == Range(p) \cup Range(f)

(* Inodes no path or descriptor refers to hold nothing. *)
Collect(d, p, f) == [i \in Inodes |-> IF i \in Referenced(p, f) THEN d[i] ELSE None]

FreeInode == CHOOSE i \in Inodes : i \notin Referenced(path, fd)

(* What load() makes of config.json. *)
DiskValue == IF path["cfg"] = None THEN DefaultConfig ELSE data[path["cfg"]]

Init ==
  /\ path = [p \in {"cfg", "tmp"} |-> None]
  /\ data = [i \in Inodes |-> None]
  /\ fd = [w \in Writers |-> None]
  /\ pc = [w \in Writers |-> Idle]
  /\ val = [w \in Writers |-> DefaultConfig]
  /\ mem = DefaultConfig
  /\ acked = DefaultConfig
  /\ lost = {}

(* Mutant: store() writes config.json in place. *)
OpenTmpInPlace(w, c) ==
  /\ mem # None
  /\ pc[w] = Idle
  /\ LET i == IF path["cfg"] = None THEN FreeInode ELSE path["cfg"] IN
       /\ path' = [path EXCEPT !["cfg"] = i]
       /\ data' = [data EXCEPT ![i] = Torn]
       /\ fd' = [fd EXCEPT ![w] = i]
  /\ pc' = [pc EXCEPT ![w] = Writing]
  /\ val' = [val EXCEPT ![w] = c]
  /\ UNCHANGED <<mem, acked, lost>>

(* store(c), fs::write part 1: open config.json~ with create+truncate. *)
OpenTmp(w, c) ==
  /\ mem # None
  /\ pc[w] = Idle
  /\ LET i == IF path["tmp"] = None THEN FreeInode ELSE path["tmp"] IN
       /\ path' = [path EXCEPT !["tmp"] = i]
       /\ data' = [data EXCEPT ![i] = Torn]
       /\ fd' = [fd EXCEPT ![w] = i]
  /\ pc' = [pc EXCEPT ![w] = Writing]
  /\ val' = [val EXCEPT ![w] = c]
  /\ UNCHANGED <<mem, acked, lost>>

(* fs::write part 2: the bytes go to the open inode, which is closed. *)
WriteTmp(w) ==
  /\ pc[w] = Writing
  /\ fd' = [fd EXCEPT ![w] = None]
  /\ data' = Collect([data EXCEPT ![fd[w]] = val[w]], path, fd')
  /\ pc' = [pc EXCEPT ![w] = Renaming]
  /\ UNCHANGED <<path, val, mem, acked, lost>>

(* Mutant: the failed write leaves its descriptor open. *)
WriteTmpFailsKeepsFd(w) ==
  /\ pc[w] = Writing
  /\ pc' = [pc EXCEPT ![w] = Idle]
  /\ UNCHANGED <<path, data, fd, val, mem, acked, lost>>

(* fs::write fails (no space, I/O): `?` returns the error, the file *)
(* stays torn and the snapshot is untouched.                        *)
WriteTmpFails(w) ==
  /\ pc[w] = Writing
  /\ fd' = [fd EXCEPT ![w] = None]
  /\ data' = Collect(data, path, fd')
  /\ pc' = [pc EXCEPT ![w] = Idle]
  /\ UNCHANGED <<path, val, mem, acked, lost>>

(* fs::rename(config.json~, config.json). *)
RenameTmp(w) ==
  /\ pc[w] = Renaming
  /\ path["tmp"] # None
  /\ path' = [p \in {"cfg", "tmp"} |-> IF p = "cfg" THEN path["tmp"] ELSE None]
  /\ data' = Collect(data, path', fd)
  /\ pc' = [pc EXCEPT ![w] = Swapping]
  /\ UNCHANGED <<fd, val, mem, acked, lost>>

(* The rename fails: config.json~ is gone (NotFound) or the file system *)
(* refuses; `?` returns the error.                                      *)
RenameFails(w) ==
  /\ pc[w] = Renaming
  /\ pc' = [pc EXCEPT ![w] = Idle]
  /\ UNCHANGED <<path, data, fd, val, mem, acked, lost>>

(* *self.config.lock() = Arc::new(config); store() returns Ok. *)
Swap(w) ==
  /\ pc[w] = Swapping
  /\ mem' = val[w]
  /\ acked' = val[w]
  /\ lost' = {}
  /\ pc' = [pc EXCEPT ![w] = Idle]
  /\ UNCHANGED <<path, data, fd, val>>

(* The process dies: descriptors close, in-flight calls vanish. *)
Crash ==
  /\ mem # None
  /\ mem' = None
  /\ fd' = [w \in Writers |-> None]
  /\ pc' = [w \in Writers |-> Idle]
  /\ data' = Collect(data, path, fd')
  /\ lost' = lost \cup {val[w] : w \in {x \in Writers : pc[x] = Swapping}}
  /\ UNCHANGED <<path, val, acked>>

(* load(): a missing config.json is the default, a torn one is an error *)
(* (the database does not come up).                                     *)
Load ==
  /\ mem = None
  /\ DiskValue # Torn
  /\ mem' = DiskValue
  /\ UNCHANGED <<path, data, fd, pc, val, acked, lost>>

Next ==
  \/ \E w \in Writers :
       \/ \E c \in Values : OpenTmp(w, c)
       \/ WriteTmp(w) \/ WriteTmpFails(w)
       \/ RenameTmp(w) \/ RenameFails(w)
       \/ Swap(w)
  \/ Crash
  \/ Load

Spec == Init /\ [][Next]_vars

-----------------------------------------------------------------------------
TypeOK ==
  /\ path \in [{"cfg", "tmp"} -> Inodes \cup {None}]
  /\ data \in [Inodes -> Values \cup {Torn, None}]
  /\ fd \in [Writers -> Inodes \cup {None}]
  /\ \A w \in Writers : (fd[w] # None) <=> (pc[w] = Writing)
  /\ pc \in [Writers -> {Idle, Writing, Renaming, Swapping}]
  /\ val \in [Writers -> Values]
  /\ mem \in Values \cup {None}
  /\ acked \in Values
  /\ lost \subseteq Values

(* Atomic replacement: config.json always holds the config of the last *)
(* store() that returned Ok, or of one that renamed it into place and  *)
(* has not returned (or never will, after a crash); never a torn file. *)
DiskPrevOrNew ==
  DiskValue \in {acked} \cup lost \cup {val[w] : w \in {x \in Writers : pc[x] = Swapping}}

=============================================================================
