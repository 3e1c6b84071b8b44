------------------------------- MODULE HybridStore -------------------------------
(***************************************************************************)
(* The skill store's two copies (skillstore/store.go, and its callers in   *)
(* cmd/main.go): a working SQLite database in RAM, restored at start from  *)
(* a snapshot in flash, and flushed back to flash every twelve hours, on   *)
(* SIGTERM and before a restart; the .bak copy beside the RAM database,    *)
(* from which a corrupted one is salvaged; the graceful-shutdown marker;   *)
(* and the latch that makes the milestone alert a single one.              *)
(*                                                                         *)
(* A database is abstracted to the set of Q-table updates it holds and its *)
(* latch.  The RAM database is in WAL mode: `main' is what its main file   *)
(* holds, `full' what a reader of the database sees.  /tmp is lost when    *)
(* the router loses power.  A flush does not sync what it renames: until   *)
(* the system has written it back, a power loss may leave the copy before, *)
(* the new one, a part of it, or a file of no bytes (`durable').           *)
(***************************************************************************)
EXTENDS Integers

CONSTANTS
  MaxUpdates,   (* bound: Q-table updates in one behaviour                 *)
  Threshold,    (* milestoneThreshold: 25 in the code                      *)
  MayCorrupt,   (* whether the RAM database may be corrupted from outside  *)
  WritesLate    (* whether the system may write a flash copy back late     *)

ASSUME StoreAssumption ==
  /\ MaxUpdates \in Nat
  /\ Threshold \in Nat \ {0}
  /\ MayCorrupt \in BOOLEAN
  /\ WritesLate \in BOOLEAN

VARIABLES
  phase,      (* of the process: see Phases                                *)
  lock,       (* the multi-step operation that holds SkillStore.mu         *)
  ram,        (* /tmp/skills.db with its write-ahead log                   *)
  bak,        (* /tmp/skills.db.bak                                        *)
  flash,      (* cfg.SkillStorePath                                        *)
  durable,    (* what a power loss may leave there                         *)
  tmp,        (* the .tmp file beside it                                   *)
  marker,     (* cfg.GracefulShutdownPath holds a valid marker             *)
  leaving,    (* progress of the shutdown or restart sequence              *)
  qUpdates,   (* qUpdatesTotal                                             *)
  updates,    (* history: number of updates ever made                      *)
  notices,    (* history: milestone alerts handed to the notifier          *)
  damaged,    (* history: a RAM database was lost to a torn restore or a   *)
              (* corruption, and not restored from flash                   *)
  latchLost,  (* history: a set latch was lost with its database           *)
  flushCut    (* history: a power loss changed the flash copy              *)

files     == << ram, bak, flash, durable, tmp, marker >>
storeVars == << phase, lock, files, leaving, qUpdates, updates, notices, damaged,
                latchLost, flushCut >>

Updates  == 1 .. MaxUpdates
Contents == [learned : SUBSET Updates, latched : BOOLEAN]
Empty    == [learned |-> {}, latched |-> FALSE]

\* A file is absent, cut short (or corrupted), or holds a database.
File(kind, contents) == [kind |-> kind, is |-> contents]
Absent == File("absent", Empty)
Torn   == File("torn", Empty)
Files  == {Absent, Torn} \cup {File("db", c) : c \in Contents}

\* The RAM database: its main file, and what is seen through the log.
Database(m, f) == [kind |-> "db", main |-> m, full |-> f]
NoDatabase     == [kind |-> "absent", main |-> Empty, full |-> Empty]
TornDatabase   == [kind |-> "torn", main |-> Empty, full |-> Empty]
Databases == {NoDatabase, TornDatabase} \cup
             {Database(m, f) : m \in Contents, f \in Contents}

\* "validated": after PostUpgradeValidation.  "restoring": between the first
\* and the last byte of NewHybrid's copy.  "opening": before OpenAndInit.
\* "closed": after Close.
Phases == {"down", "validated", "restoring", "opening", "open", "closed"}
Locks  == {"none", "periodic", "signal", "restart", "backup"}

Free == phase = "open" /\ lock = "none"

\* What a power loss may leave of the flash copy once f has taken its place
\* by a call that syncs nothing; a file of no bytes counts for none.
Unsynced(f) == IF WritesLate THEN durable \cup {f, Torn, Absent} ELSE {f}

-------------------------------------------------------------------------------
(* Start.                                                                  *)

\* PostUpgradeValidation removes a flash copy that fails its integrity check,
\* and ignores whether the removal worked.
PostUpgradeValidation ==
  /\ phase = "down"
  /\ phase' = "validated"
  /\ \/ UNCHANGED << flash, durable >>
     \/ flash.kind = "torn" /\ flash' = Absent /\ durable' = Unsynced(Absent)
  /\ UNCHANGED << lock, ram, bak, tmp, marker, leaving, qUpdates, updates,
                  notices, damaged, latchLost, flushCut >>

\* Seeded fault: the flash copy is not restored.
NewHybridUnrestored ==
  /\ phase = "validated"
  /\ phase' = "opening"
  /\ UNCHANGED << lock, files, leaving, qUpdates, updates, notices,
                  damaged, latchLost, flushCut >>

\* NewHybrid: an existing RAM database is used as it is; otherwise the
\* flash copy is written to its place, beginning with an empty file.
NewHybrid ==
  /\ phase = "validated"
  /\ IF ram.kind = "absent" /\ flash.kind # "absent"
     THEN /\ phase' = "restoring"
          /\ ram' = TornDatabase
     ELSE /\ phase' = "opening"
          /\ UNCHANGED ram
  /\ UNCHANGED << lock, bak, flash, durable, tmp, marker, leaving, qUpdates, updates,
                  notices, damaged, latchLost, flushCut >>

\* The copy ends, or fails (tmpfs full) and leaves what it has written; the
\* start goes on in both cases.
RestoreEnds ==
  /\ phase = "restoring"
  /\ phase' = "opening"
  /\ \/ flash.kind = "db" /\ ram' = Database(flash.is, flash.is)
     \/ ram' = TornDatabase
  /\ UNCHANGED << lock, bak, flash, durable, tmp, marker, leaving, qUpdates, updates,
                  notices, damaged, latchLost, flushCut >>

\* What OpenAndInit may end with: a database that fails its integrity check
\* is moved away and replaced by the backup if there is one, by an empty
\* database otherwise; a file cut to no bytes at all passes for an empty
\* database.  The flash copy is not consulted.
Opened ==
  IF ram.kind = "db" THEN {ram}
  ELSE {Database(Empty, Empty)} \cup
       CASE ram.kind = "torn" /\ bak.kind = "db"   -> {Database(bak.is, bak.is)}
         [] ram.kind = "torn" /\ bak.kind = "torn" -> {TornDatabase}
         [] OTHER                                  -> {}

\* OpenAndInit and the reading of the shutdown marker, which is removed.  A
\* torn backup makes it fail: the process ends, and procd starts it again.
OpenAndInit ==
  /\ phase = "opening"
  /\ ram' \in Opened
  /\ damaged' = (damaged \/ ram.kind = "torn")
  /\ latchLost' = (latchLost \/
       (ram.kind = "torn" /\ flash.is.latched /\ ~ram'.full.latched))
  /\ IF ram'.kind = "db"
     THEN /\ phase' = "open"
          /\ marker' = FALSE
     ELSE /\ phase' = "down"
          /\ UNCHANGED marker
  /\ UNCHANGED << lock, bak, flash, durable, tmp, leaving, qUpdates, updates,
                  notices, flushCut >>

-------------------------------------------------------------------------------
(* Operations on the open store.                                           *)

\* Seeded fault: the latch is set and not consulted.
UpdateQValueUnlatched ==
  /\ Free
  /\ updates < MaxUpdates
  /\ updates' = updates + 1
  /\ qUpdates' = qUpdates + 1
  /\ \E works \in BOOLEAN :
     LET reached == works /\ qUpdates + 1 = Threshold
         new == [learned |-> ram.full.learned \cup {updates + 1},
                 latched |-> ram.full.latched \/ reached]
     IN /\ ram' \in {Database(ram.main, new), Database(new, new)}
        /\ notices' = IF reached THEN notices + 1 ELSE notices
  /\ UNCHANGED << phase, lock, bak, flash, durable, tmp, marker, leaving,
                  damaged, latchLost, flushCut >>

\* UpdateQValue: one more update in the log, which SQLite may fold into the
\* main file; the update that makes the count equal to the threshold sets
\* the latch (if that write works), and the alert is sent if the latch was
\* not set before.
UpdateQValue ==
  /\ Free
  /\ updates < MaxUpdates
  /\ updates' = updates + 1
  /\ qUpdates' = qUpdates + 1
  /\ \E works \in BOOLEAN :
     LET reached == works /\ qUpdates + 1 = Threshold
         new == [learned |-> ram.full.learned \cup {updates + 1},
                 latched |-> ram.full.latched \/ reached]
     IN /\ ram' \in {Database(ram.main, new), Database(new, new)}
        /\ notices' = IF reached /\ ~ram.full.latched THEN notices + 1 ELSE notices
  /\ UNCHANGED << phase, lock, bak, flash, durable, tmp, marker, leaving,
                  damaged, latchLost, flushCut >>

\* BackupDatabase copies the main file alone, over the old backup; it does
\* not ask whether the store is closed ...
BackupBegin ==
  /\ phase \in {"open", "closed"} /\ lock = "none" /\ leaving # "restarted"
  /\ lock' = "backup"
  /\ bak' = Torn
  /\ UNCHANGED << phase, ram, flash, durable, tmp, marker, leaving, qUpdates, updates,
                  notices, damaged, latchLost, flushCut >>

\* ... and may fail half-way; the main loop then vacuums an open database.
BackupEnd ==
  /\ lock = "backup"
  /\ lock' = "none"
  /\ bak' \in {File("db", ram.main), Torn}
  /\ \/ UNCHANGED ram
     \/ phase = "open" /\ ram' = Database(ram.full, ram.full)
  /\ UNCHANGED << phase, flash, durable, tmp, marker, leaving, qUpdates, updates,
                  notices, damaged, latchLost, flushCut >>

\* FlushToPersistent for one of its three callers: VACUUM INTO writes the
\* .tmp file (or fails, and the flush is given up) ...
FlushBegin(who) ==
  /\ lock' = who
  /\ tmp' = Torn
  /\ UNCHANGED << phase, ram, bak, flash, durable, marker, leaving, qUpdates, updates,
                  notices, damaged, latchLost, flushCut >>

FlushVacuumed(who) ==
  /\ lock = who /\ tmp.kind = "torn"
  /\ tmp' = File("db", ram.full)
  /\ UNCHANGED << phase, lock, ram, bak, flash, durable, marker, leaving, qUpdates, updates,
                  notices, damaged, latchLost, flushCut >>

\* Seeded faults: the file is renamed although VACUUM INTO failed; a failed
\* flush is tried again for ever.
FlushEndUnchecked(who, next) ==
  /\ lock = who
  /\ flash' = tmp /\ durable' = Unsynced(tmp) /\ tmp' = Absent
  /\ lock' = "none"
  /\ leaving' = next
  /\ UNCHANGED << phase, ram, bak, marker, qUpdates, updates, notices,
                  damaged, latchLost, flushCut >>

FlushEndRetried(who, next) ==
  /\ lock = who
  /\ \/ /\ tmp.kind = "db" /\ tmp' = Absent
        /\ flash' = tmp /\ durable' = Unsynced(tmp)
        /\ leaving' = next
     \/ /\ tmp.kind = "torn"
        /\ UNCHANGED << tmp, flash, durable, leaving >>
  /\ lock' = "none"
  /\ UNCHANGED << phase, ram, bak, marker, qUpdates, updates, notices,
                  damaged, latchLost, flushCut >>

\* ... and the rename replaces the flash copy (or fails).  Where the caller
\* goes on afterwards is `next'.
FlushEnd(who, next) ==
  /\ lock = who
  /\ \/ tmp.kind = "db" /\ tmp' = Absent /\ flash' = tmp /\ durable' = Unsynced(tmp)
     \/ tmp.kind = "db" /\ tmp' = Absent /\ UNCHANGED << flash, durable >>
     \/ tmp.kind = "torn" /\ UNCHANGED << tmp, flash, durable >>
  /\ lock' = "none"
  /\ leaving' = next
  /\ UNCHANGED << phase, ram, bak, marker, qUpdates, updates, notices,
                  damaged, latchLost, flushCut >>

\* The system writes the flash copy back.
WriteBack ==
  /\ durable # {flash}
  /\ durable' = {flash}
  /\ UNCHANGED << phase, lock, ram, bak, flash, tmp, marker, leaving, qUpdates,
                  updates, notices, damaged, latchLost, flushCut >>

\* The twelve-hour goroutine.
PeriodicFlush ==
  \/ Free /\ FlushBegin("periodic")
  \/ FlushVacuumed("periodic")
  \/ FlushEnd("periodic", leaving)

-------------------------------------------------------------------------------
(* The ways out.                                                           *)

\* SIGTERM: the marker is written first ...
SigTerm ==
  /\ phase = "open" /\ leaving = "no"
  /\ leaving' = "marked"
  /\ marker' \in {TRUE, marker}
  /\ UNCHANGED << phase, lock, ram, bak, flash, durable, tmp, qUpdates, updates, notices,
                  damaged, latchLost, flushCut >>

\* ... then the database is flushed ...
ShutdownFlush ==
  \/ leaving = "marked" /\ Free /\ FlushBegin("signal")
  \/ FlushVacuumed("signal")
  \/ FlushEnd("signal", "flushed")

\* A restart, taken by the main loop, flushes too.
RestartFlush ==
  \/ leaving = "no" /\ Free /\ FlushBegin("restart")
  \/ FlushVacuumed("restart")
  \/ FlushEnd("restart", "restarted")

\* Seeded fault: the store is closed under a running flush or backup.
CloseUnlocked ==
  /\ phase = "open" /\ leaving \in {"flushed", "restarted"}
  /\ phase' = "closed"
  /\ ram' = Database(ram.full, ram.full)
  /\ UNCHANGED << lock, bak, flash, durable, tmp, marker, leaving, qUpdates, updates,
                  notices, damaged, latchLost, flushCut >>

\* ... and closed, which folds the log into the main file.
Close ==
  /\ Free /\ leaving \in {"flushed", "restarted"}
  /\ phase' = "closed"
  /\ ram' = Database(ram.full, ram.full)
  /\ UNCHANGED << lock, bak, flash, durable, tmp, marker, leaving, qUpdates, updates,
                  notices, damaged, latchLost, flushCut >>

Gone ==
  /\ phase' = "down"
  /\ lock' = "none"
  /\ leaving' = "no"
  /\ qUpdates' = 0
  /\ UNCHANGED << tmp, updates, notices, damaged >>

\* The process exits, whether or not a backup is under way.  On a restart
\* procd sends it SIGTERM meanwhile, whose handler may get to write the
\* marker.
Exit ==
  /\ phase = "closed"
  /\ Gone
  /\ marker' \in IF leaving = "restarted" THEN {TRUE, marker} ELSE {marker}
  /\ UNCHANGED << ram, bak, flash, durable, latchLost, flushCut >>

\* kill -9, a panic, or the 30-second forced exit: the files stay.
Crash ==
  /\ phase # "down"
  /\ Gone
  /\ UNCHANGED << ram, bak, flash, durable, marker, latchLost, flushCut >>

\* The router loses power: /tmp is gone, and of the flash copy there is what
\* had been written back.  (Nor is the marker's rename or removal synced.)
PowerLoss ==
  /\ Gone
  /\ ram' = NoDatabase
  /\ bak' = Absent
  /\ flash' \in durable
  /\ durable' = {flash'}
  /\ flushCut' = (flushCut \/ flash' # flash)
  /\ latchLost' = (latchLost \/
       ((IF ram.kind = "db" THEN ram.full ELSE flash.is).latched /\ ~flash'.is.latched))
  /\ marker' \in IF WritesLate THEN BOOLEAN ELSE {marker}

\* The RAM database is corrupted while no process has it open.
Corruption ==
  /\ MayCorrupt
  /\ phase = "down"
  /\ ram.kind = "db"
  /\ ram' = TornDatabase
  /\ latchLost' = (latchLost \/ ram.full.latched)
  /\ UNCHANGED << phase, lock, bak, flash, durable, tmp, marker, leaving, qUpdates,
                  updates, notices, damaged, flushCut >>

Init ==
  /\ phase = "down"
  /\ lock = "none"
  /\ ram = NoDatabase
  /\ bak = Absent
  /\ flash = Absent
  /\ durable = {Absent}
  /\ tmp = Absent
  /\ marker = FALSE
  /\ leaving = "no"
  /\ qUpdates = 0
  /\ updates = 0
  /\ notices = 0
  /\ damaged = FALSE
  /\ latchLost = FALSE
  /\ flushCut = FALSE

Next ==
  \/ PostUpgradeValidation \/ NewHybrid \/ RestoreEnds \/ OpenAndInit
  \/ UpdateQValue
  \/ BackupBegin \/ BackupEnd
  \/ PeriodicFlush \/ ShutdownFlush \/ RestartFlush \/ WriteBack
  \/ SigTerm \/ Close \/ Exit
  \/ Crash \/ PowerLoss \/ Corruption

Spec == Init /\ [][Next]_storeVars

(***************************************************************************)
(* Fairness.  procd starts an agent that is down; a process that has begun *)
(* its start, a flush or a backup goes on with it.  The mutex of the store *)
(* is fair to its waiters, so the shutdown gets it in the end although the *)
(* periodic jobs ask for it again and again: strong fairness.              *)
(***************************************************************************)
FairSpec ==
  /\ Spec
  /\ WF_storeVars(PostUpgradeValidation \/ NewHybrid \/ RestoreEnds \/ OpenAndInit)
  /\ WF_storeVars(BackupEnd)
  /\ WF_storeVars(FlushVacuumed("periodic") \/ FlushEnd("periodic", leaving))
  /\ WF_storeVars(FlushVacuumed("restart") \/ FlushEnd("restart", "restarted"))
  /\ SF_storeVars(ShutdownFlush)
  /\ SF_storeVars(Close)
  /\ WF_storeVars(Exit)

-------------------------------------------------------------------------------
(* Properties.                                                             *)

\* Types of the state, and a flush holds only an open store, a backup also a
\* closed one: the store is never closed under either of them.
StoreTypeOK ==
  /\ phase \in Phases
  /\ lock \in Locks
  /\ ram \in Databases
  /\ bak \in Files /\ flash \in Files /\ tmp \in Files
  /\ durable \in SUBSET Files /\ flash \in durable
  /\ marker \in BOOLEAN
  /\ leaving \in {"no", "marked", "flushed", "restarted"}
  /\ qUpdates \in 0 .. MaxUpdates /\ updates \in 0 .. MaxUpdates
  /\ notices \in 0 .. MaxUpdates
  /\ damaged \in BOOLEAN
  /\ latchLost \in BOOLEAN
  /\ flushCut \in BOOLEAN
  /\ lock # "none" => phase = "open" \/ (phase = "closed" /\ lock = "backup")
  /\ qUpdates <= updates

\* The flash copy is a complete database, or there is none, at every point
\* where a flush can fail or its process can end; only a power loss that comes
\* before the system has written a flush back leaves it torn.
FlashIsWhole == flash.kind = "torn" => flushCut

\* Unless a RAM database was damaged, the open store holds everything that
\* was ever flushed: crashes, power losses and restores lose only what was
\* learned since the last flush, and a flush never takes learning back.
FlushedIsKept ==
  phase \in {"open", "closed"} /\ ~damaged
    => flash.is.learned \subseteq ram.full.learned

\* The milestone alert is given once, however processes end and restart,
\* unless the database that held the latch was lost before a flush.
MilestoneOnce == notices > 1 => latchLost

\* A shutdown or restart that has begun ends: no flush, no waiting for the
\* store's mutex and no failing step keeps the process from going.
ShutdownEnds == leaving # "no" ~> phase = "down"

\* main.go:366: flushes preserve the learned skills permanently.
FlashNeverForgets == [][flash.is.learned \subseteq flash'.is.learned]_storeVars
===============================================================================
