---------------------------- MODULE ConfigRegistry ----------------------------
(***************************************************************************)
(* core/ConfigRegistry.cpp over io/FileSystem.cpp: named JSON documents    *)
(* that follow their files.  The game watches, unwatches and polls; other  *)
(* programs write the files at any moment, also between the step that      *)
(* notes a file's time stamp and the one that reads it.                    *)
(***************************************************************************)
EXTENDS Naturals, FiniteSets

CONSTANTS
  Names,          (* names of watched configurations                       *)
  Paths, Files,   (* paths, and the files they lead to                     *)
  FileOf,         (* path -> file: normalizedPathKey                       *)
  Documents,      (* contents that parse                                   *)
  Broken, Absent, (* contents that do not parse; no file                   *)
  Written,        (* what other programs put into files                    *)
  MaxWrites, MaxCalls   (* bounds: writes, calls of watch and unwatch      *)

ASSUME PathsAssumption == FileOf \in [Paths -> Files]
ASSUME ContentsAssumption == Broken \notin Documents /\ Absent \notin Documents \cup {Broken}
ASSUME BoundsAssumption == MaxWrites \in Nat /\ MaxCalls \in Nat

Contents == Documents \cup {Broken, Absent}
ASSUME WrittenAssumption == Written \subseteq Contents
None == {}

VARIABLES
  disk,      (* file -> contents, and a stamp (size, time) per write       *)
  writes,
  entries,   (* entries_: name -> path, document read last, loaded         *)
  tracked,   (* snapshots_: file -> path it was tracked by, stamp seen     *)
  toScan,    (* files pollChanges has still to look at                     *)
  changed,   (* paths it found changed                                     *)
  toRead,    (* names whose file has still to be read                      *)
  at,        (* "idle", "watching", "scanning" or "reloading"              *)
  shared,    (* files that had two names at one time                       *)
  calls

configVars == <<disk, writes, entries, tracked, toScan, changed, toRead, at, shared, calls>>

(* snapshotFile: an absent file has no size and no time.                   *)
Stamp(f) == IF disk[f].contents = Absent THEN 0 ELSE disk[f].stamp

ConfigInit ==
  /\ disk \in [Files -> {[contents |-> c, stamp |-> 1] : c \in Contents}]
  /\ writes = 0 /\ calls = 0
  /\ entries = [n \in {} |-> 0] /\ tracked = [f \in {} |-> 0]
  /\ toScan = {} /\ changed = {} /\ toRead = {} /\ at = "idle" /\ shared = {}

(* Another program writes or removes a file.                               *)
Write(f, c) ==
  /\ writes < MaxWrites
  /\ disk[f].contents # c
  /\ disk' = [disk EXCEPT ![f] = [contents |-> c, stamp |-> writes + 2]]
  /\ writes' = writes + 1
  /\ UNCHANGED <<entries, tracked, toScan, changed, toRead, at, shared, calls>>

(* FileChangeTracker::track                                                *)
Tracked(p) ==
  [f \in DOMAIN tracked \cup {FileOf[p]} |->
     IF f = FileOf[p] THEN [path |-> p, seen |-> Stamp(f)] ELSE tracked[f]]

Entry(p) == [path |-> p, document |-> None, loaded |-> FALSE]

(* watchJson: an empty entry, the file's stamp, then the file.  A second   *)
(* name for a file takes the stamp the first one had.                      *)
Named(n, p) == [m \in DOMAIN entries \cup {n} |-> IF m = n THEN Entry(p) ELSE entries[m]]
Sharing(n, p) ==
  IF \E m \in DOMAIN entries \ {n} : FileOf[entries[m].path] = FileOf[p]
  THEN shared \cup {FileOf[p]} ELSE shared

(* Variant for WatchJson: the file is read but not tracked.                *)
WatchUntracked(n, p) ==
  /\ at = "idle" /\ calls < MaxCalls /\ calls' = calls + 1
  /\ entries' = Named(n, p)
  /\ toRead' = {n} /\ at' = "watching" /\ shared' = Sharing(n, p)
  /\ UNCHANGED <<disk, writes, tracked, toScan, changed>>
WatchJson(n, p) ==
  /\ at = "idle" /\ calls < MaxCalls /\ calls' = calls + 1
  /\ entries' = Named(n, p)
  /\ tracked' = Tracked(p)
  /\ toRead' = {n} /\ at' = "watching" /\ shared' = Sharing(n, p)
  /\ UNCHANGED <<disk, writes, toScan, changed>>

Unwatch(n) ==
  /\ at = "idle" /\ calls < MaxCalls /\ calls' = calls + 1
  /\ n \in DOMAIN entries
  /\ tracked' = [f \in DOMAIN tracked \ {FileOf[entries[n].path]} |-> tracked[f]]
  /\ entries' = [m \in DOMAIN entries \ {n} |-> entries[m]]
  /\ UNCHANGED <<disk, writes, toScan, changed, toRead, at, shared>>

(* reload: a document that cannot be read is hidden until one can.         *)
Reread(e, c) ==
  IF c \in Documents THEN [e EXCEPT !.document = {c}, !.loaded = TRUE]
  ELSE [e EXCEPT !.loaded = FALSE]

Read(n) ==
  /\ n \in toRead
  /\ entries' = [entries EXCEPT ![n] = Reread(@, disk[FileOf[@.path]].contents)]
  /\ toRead' = toRead \ {n}
  /\ at' = IF toRead = {n} THEN "idle" ELSE at
  /\ UNCHANGED <<disk, writes, tracked, toScan, changed, shared, calls>>

(* pollReloads: pollChanges looks at one file after the other ...          *)
Poll ==
  /\ at = "idle"
  /\ at' = "scanning" /\ toScan' = DOMAIN tracked /\ changed' = {}
  /\ UNCHANGED <<disk, writes, entries, tracked, toRead, shared, calls>>

(* Variant for Changes: only the last change is reported.                  *)
ChangesLast(f) == IF tracked[f].seen # Stamp(f) THEN {tracked[f].path} ELSE changed
Changes(f) == IF tracked[f].seen # Stamp(f) THEN changed \cup {tracked[f].path} ELSE changed

Scan(f) ==
  /\ at = "scanning" /\ f \in toScan
  /\ toScan' = toScan \ {f}
  /\ changed' = Changes(f)
  /\ tracked' = [tracked EXCEPT ![f].seen = Stamp(f)]
  /\ UNCHANGED <<disk, writes, entries, toRead, at, shared, calls>>

(* ... and every entry whose path changed is read again.                   *)
Affected == {n \in DOMAIN entries : entries[n].path \in changed}
Scanned ==
  /\ at = "scanning" /\ toScan = {}
  /\ toRead' = Affected
  /\ at' = IF Affected = {} THEN "idle" ELSE "reloading"
  /\ UNCHANGED <<disk, writes, entries, tracked, toScan, changed, shared, calls>>

Game ==
  \/ \E n \in Names : Read(n)
  \/ Poll \/ (\E f \in Files : Scan(f)) \/ Scanned
ConfigNext ==
  \/ \E f \in Files, c \in Written : Write(f, c)
  \/ \E n \in Names, p \in Paths : WatchJson(n, p)
  \/ \E n \in Names : Unwatch(n)
  \/ Game

ConfigSpec == ConfigInit /\ [][ConfigNext]_configVars

(* The game polls in every frame.                                          *)
FairConfigSpec == ConfigSpec /\ WF_configVars(Game)
-----------------------------------------------------------------------------
(* What find returns, and what the file holds.                             *)
Found(n) == IF entries[n].loaded THEN entries[n].document ELSE None
Parsed(f) == {disk[f].contents} \cap Documents
FileAt(n) == FileOf[entries[n].path]

(* Between polls a document that differs from its file is one the next     *)
(* poll will notice, however writes fall between stamps and reads: of a    *)
(* file that never had two names, which keep one stamp between them.       *)
StaleIsNoticed ==
  at = "idle" =>
    \A n \in DOMAIN entries :
      \/ FileAt(n) \in shared
      \/ Found(n) = Parsed(FileAt(n))
      \/ /\ FileAt(n) \in DOMAIN tracked
         /\ tracked[FileAt(n)].path = entries[n].path
         /\ tracked[FileAt(n)].seen # Stamp(FileAt(n))

(* Every watched name, of a file that never had two, shows it in the end.  *)
AllFresh ==
  \A n \in DOMAIN entries : FileAt(n) \notin shared => Found(n) = Parsed(FileAt(n))
EventuallyFresh == <>[]AllFresh
=============================================================================
