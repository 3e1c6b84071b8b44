---------------------------- MODULE HybridStoreProofs ----------------------------
(***************************************************************************)
(* The skill store's two copies, for any number of updates and any         *)
(* threshold of the milestone: what was flushed is kept, the flash copy is *)
(* whole unless a power loss met a flush that was not yet written back,    *)
(* and the milestone's alert is given once.                                *)
(*                                                                         *)
(* None of the three is inductive.  A flush replaces the flash copy by the *)
(* .tmp file, which must be what the RAM database holds (TmpIsFresh: the   *)
(* mutex is held from the VACUUM to the rename); the RAM database must     *)
(* hold what flash holds also in a process that is down, for the next      *)
(* process to find it (RamHoldsFlash); a start that finds no RAM database  *)
(* must have found no flash copy either, for it begins an empty one        *)
(* (EmptyStart); and a latch that was set must be in the copy that the     *)
(* next process will open (LatchIsStored).                                 *)
(***************************************************************************)
EXTENDS HybridStore, TLAPS

Flushers == {"periodic", "signal", "restart"}

TmpIsFresh == lock \in Flushers /\ tmp.kind = "db" => tmp.is = ram.full

RamHoldsFlash ==
  ~damaged /\ ram.kind = "db" => flash.is.learned \subseteq ram.full.learned

EmptyStart == phase = "opening" /\ ram.kind = "absent" => flash.kind = "absent"

LatchIsStored ==
  /\ notices <= 1
  /\ notices = 1 => IF ram.kind = "db" THEN ram.full.latched ELSE flash.is.latched

PhaseOfRam ==
  /\ phase \in {"open", "closed"} => ram.kind = "db"
  /\ phase = "restoring" => ram.kind = "torn"

StoreInv ==
  /\ StoreTypeOK
  /\ notices <= updates
  /\ FlashIsWhole
  /\ PhaseOfRam
  /\ TmpIsFresh
  /\ EmptyStart
  /\ RamHoldsFlash
  /\ ~latchLost => LatchIsStored

-------------------------------------------------------------------------------
(* Files and databases.                                                    *)

LEMMA EmptyContents ==
  Empty \in Contents /\ Empty.learned = {} /\ Empty.latched = FALSE
  BY DEF Empty, Contents

LEMMA FileTypes ==
  /\ Absent \in Files /\ Absent.kind = "absent" /\ Absent.is = Empty
  /\ Torn \in Files /\ Torn.kind = "torn" /\ Torn.is = Empty
  /\ \A c \in Contents :
       File("db", c) \in Files /\ File("db", c).kind = "db" /\ File("db", c).is = c
  BY DEF Files, Absent, Torn, File

LEMMA DatabaseTypes ==
  /\ NoDatabase \in Databases /\ NoDatabase.kind = "absent" /\ NoDatabase.full = Empty
  /\ NoDatabase.main = Empty
  /\ TornDatabase \in Databases /\ TornDatabase.kind = "torn"
  /\ TornDatabase.full = Empty /\ TornDatabase.main = Empty
  /\ \A m, f \in Contents : /\ Database(m, f) \in Databases
                            /\ Database(m, f).kind = "db"
                            /\ Database(m, f).main = m /\ Database(m, f).full = f
<1>1. \A m, f \in Contents : Database(m, f) \in Databases
  BY DEF Databases
<1>2. NoDatabase \in Databases /\ TornDatabase \in Databases
  BY DEF Databases
<1> QED
  BY <1>1, <1>2 DEF NoDatabase, TornDatabase, Database

LEMMA FileFields ==
  ASSUME NEW f \in Files
  PROVE  /\ f.is \in Contents
         /\ f.kind \in {"absent", "torn", "db"}
         /\ f.kind # "db" => f.is = Empty
<1>1. f = Absent \/ f = Torn \/ \E c \in Contents : f = File("db", c)
  BY Zenon DEF Files
<1> QED
  BY <1>1, FileTypes, EmptyContents

LEMMA DatabaseFields ==
  ASSUME NEW d \in Databases
  PROVE  /\ d.main \in Contents /\ d.full \in Contents
         /\ d.kind \in {"absent", "torn", "db"}
         /\ d.kind # "db" => d.full = Empty
<1>1. \/ d = NoDatabase \/ d = TornDatabase
      \/ \E m, f \in Contents : d = Database(m, f)
  BY DEF Databases
<1> QED
  BY <1>1, DatabaseTypes, EmptyContents

\* The fields of the four copies in a state that has its types.
LEMMA Fields ==
  ASSUME StoreTypeOK
  PROVE  /\ ram.main \in Contents /\ ram.full \in Contents
         /\ bak.is \in Contents /\ flash.is \in Contents /\ tmp.is \in Contents
         /\ flash.kind # "db" => flash.is = Empty
  BY FileFields, DatabaseFields DEF StoreTypeOK

\* What a power loss may leave of a file put in place.
LEMMA UnsyncedTypes ==
  ASSUME StoreTypeOK, NEW f \in Files
  PROVE  Unsynced(f) \in SUBSET Files /\ f \in Unsynced(f)
  BY FileTypes DEF Unsynced, StoreTypeOK

\* What OpenAndInit may end with.
LEMMA OpenedTypes ==
  ASSUME StoreTypeOK, NEW d \in Opened
  PROVE  /\ d \in Databases
         /\ d.kind \in {"db", "torn"}
         /\ d.kind = "torn" => ram.kind = "torn"
         /\ ram.kind = "db" => d = ram
<1>1. CASE ram.kind = "db"
  BY <1>1 DEF Opened, StoreTypeOK
<1>2. CASE ram.kind # "db"
  <2>1. \/ d = Database(Empty, Empty)
        \/ d = Database(bak.is, bak.is)
        \/ ram.kind = "torn" /\ d = TornDatabase
    BY <1>2 DEF Opened
  <2> QED
    BY <1>2, <2>1, Fields, DatabaseTypes, EmptyContents
<1> QED
  BY <1>1, <1>2

-------------------------------------------------------------------------------
(* The start.                                                              *)

LEMMA StoreInit == Init => StoreInv
<1> SUFFICES ASSUME Init PROVE StoreInv
  OBVIOUS
<1>1. StoreTypeOK
  <2>1. 0 \in 0 .. MaxUpdates
    BY StoreAssumption
  <2>2. /\ ram \in Databases /\ bak \in Files /\ flash \in Files /\ tmp \in Files
        /\ durable \in SUBSET Files /\ flash \in durable
    BY FileTypes, DatabaseTypes DEF Init
  <2>3. /\ phase = "down" /\ lock = "none" /\ leaving = "no" /\ marker = FALSE
        /\ qUpdates = 0 /\ updates = 0 /\ notices = 0
        /\ damaged = FALSE /\ latchLost = FALSE /\ flushCut = FALSE
    BY DEF Init
  <2>4. /\ qUpdates \in 0 .. MaxUpdates /\ updates \in 0 .. MaxUpdates
        /\ notices \in 0 .. MaxUpdates /\ qUpdates <= updates
    BY <2>1, <2>3
  <2>5. /\ phase \in Phases /\ lock \in Locks /\ marker \in BOOLEAN
        /\ leaving \in {"no", "marked", "flushed", "restarted"}
        /\ damaged \in BOOLEAN /\ latchLost \in BOOLEAN /\ flushCut \in BOOLEAN
        /\ lock = "none"
    BY <2>3 DEF Phases, Locks
  <2> QED
    BY <2>2, <2>4, <2>5 DEF StoreTypeOK
<1>2. ram.kind = "absent" /\ flash.kind = "absent" /\ phase = "down" /\ lock = "none"
  BY FileTypes, DatabaseTypes DEF Init
<1> QED
  BY <1>1, <1>2 DEF Init, StoreInv, FlashIsWhole, PhaseOfRam, TmpIsFresh,
     EmptyStart, RamHoldsFlash, LatchIsStored, Flushers

\* The validation takes away a torn copy at most, which holds nothing.
LEMMA ValidationStep ==
  ASSUME StoreInv, PostUpgradeValidation PROVE StoreInv'
<1> USE DEF StoreInv
<1>1. /\ phase = "down" /\ phase' = "validated"
      /\ \/ flash' = flash /\ durable' = durable
         \/ flash.kind = "torn" /\ flash' = Absent /\ durable' = Unsynced(Absent)
      /\ UNCHANGED << lock, ram, bak, tmp, marker, leaving, qUpdates, updates,
                      notices, damaged, latchLost, flushCut >>
  BY DEF PostUpgradeValidation
<1>2. flash' \in Files /\ durable' \in SUBSET Files /\ flash' \in durable'
  BY <1>1, FileTypes, UnsyncedTypes DEF StoreTypeOK
<1>3. /\ flash'.kind = "torn" => flash.kind = "torn"
      /\ flash'.is = flash.is
  BY <1>1, FileTypes, Fields
<1>4. StoreTypeOK'
  BY <1>1, <1>2 DEF StoreTypeOK, Phases
<1>5. (FlashIsWhole /\ PhaseOfRam /\ TmpIsFresh /\ EmptyStart /\ notices <= updates)'
  BY <1>1, <1>3 DEF FlashIsWhole, PhaseOfRam, TmpIsFresh, EmptyStart, StoreTypeOK,
     Flushers
<1>6. (RamHoldsFlash /\ (~latchLost => LatchIsStored))'
  BY <1>1, <1>3 DEF RamHoldsFlash, LatchIsStored
<1> QED
  BY <1>4, <1>5, <1>6

LEMMA StartStep ==
  ASSUME StoreInv, NewHybrid \/ RestoreEnds PROVE StoreInv'
<1> USE DEF StoreInv
<1>1. StoreTypeOK'
  BY Fields, DatabaseTypes DEF NewHybrid, RestoreEnds, StoreTypeOK, Phases, files
<1>2. (FlashIsWhole /\ PhaseOfRam /\ TmpIsFresh /\ notices <= updates)'
  BY DatabaseTypes DEF NewHybrid, RestoreEnds, FlashIsWhole, PhaseOfRam,
     TmpIsFresh, StoreTypeOK, Flushers
<1>3. EmptyStart'
  <2>1. CASE NewHybrid
    BY <2>1, FileFields DEF NewHybrid, EmptyStart, StoreTypeOK, FlashIsWhole
  <2>2. CASE RestoreEnds
    BY <2>2, Fields, DatabaseTypes DEF RestoreEnds, EmptyStart
  <2> QED
    BY <2>1, <2>2
<1>4. RamHoldsFlash'
  BY Fields, DatabaseTypes DEF NewHybrid, RestoreEnds, RamHoldsFlash
<1>5. (~latchLost => LatchIsStored)'
  <2>1. CASE NewHybrid
    BY <2>1, DatabaseTypes DEF NewHybrid, LatchIsStored
  <2>2. CASE RestoreEnds
    BY <2>2, Fields, DatabaseTypes DEF RestoreEnds, LatchIsStored, PhaseOfRam
  <2> QED
    BY <2>1, <2>2
<1> QED
  BY <1>1, <1>2, <1>3, <1>4, <1>5

\* A database that is opened holds what was flushed, or was damaged; and its
\* latch, or the latch was lost.
LEMMA OpenStep ==
  ASSUME StoreInv, OpenAndInit PROVE StoreInv'
<1> USE DEF StoreInv
<1>1. /\ ram' \in Databases /\ ram'.kind \in {"db", "torn"}
      /\ ram'.kind = "torn" => ram.kind = "torn"
      /\ ram.kind = "db" => ram' = ram
      /\ ram.kind \in {"absent", "torn", "db"}
  <2>1. ram' \in Opened
    BY DEF OpenAndInit
  <2>2. ram \in Databases
    BY DEF StoreTypeOK
  <2> QED
    BY <2>1, <2>2, OpenedTypes, DatabaseFields, Zenon
<1>2. /\ phase = "opening"
      /\ phase' = (IF ram'.kind = "db" THEN "open" ELSE "down")
      /\ marker' \in {FALSE, marker}
      /\ damaged' = (damaged \/ ram.kind = "torn")
      /\ latchLost' = (latchLost \/
           (ram.kind = "torn" /\ flash.is.latched /\ ~ram'.full.latched))
      /\ UNCHANGED << lock, bak, flash, durable, tmp, leaving, qUpdates, updates, notices, flushCut >>
  BY DEF OpenAndInit
<1>3. flash.is \in Contents /\ (flash.kind # "db" => flash.is = Empty)
  BY Fields
<1>4. ram'.full \in Contents
  BY <1>1, DatabaseFields
<1>5. lock = "none"
  BY <1>2 DEF StoreTypeOK
<1>6. StoreTypeOK'
  <2>1. damaged' \in BOOLEAN /\ latchLost' \in BOOLEAN /\ marker' \in BOOLEAN
    BY <1>2 DEF StoreTypeOK
  <2>2. phase' \in Phases
    BY <1>2 DEF Phases
  <2> QED
    BY <1>1, <1>2, <1>5, <2>1, <2>2 DEF StoreTypeOK
<1>7. (FlashIsWhole /\ PhaseOfRam /\ TmpIsFresh /\ EmptyStart /\ notices <= updates)'
  BY <1>1, <1>2, <1>5 DEF FlashIsWhole, PhaseOfRam, TmpIsFresh, EmptyStart, Flushers
<1>8. CASE ram.kind = "absent"
  <2>1. flash.is = Empty
    BY <1>2, <1>3, <1>8 DEF EmptyStart
  <2>2. flash.is.learned = {} /\ flash.is.latched = FALSE
    BY <2>1, EmptyContents
  <2>3. RamHoldsFlash'
    BY <1>2, <2>2 DEF RamHoldsFlash
  <2>4. (~latchLost => LatchIsStored)'
    BY <1>2, <1>8, <2>2 DEF LatchIsStored, StoreTypeOK
  <2> QED
    BY <1>6, <1>7, <2>3, <2>4
<1>9. CASE ram.kind = "torn"
  <2>1. RamHoldsFlash'
    BY <1>2, <1>9 DEF RamHoldsFlash
  <2>2. (~latchLost => LatchIsStored)'
    BY <1>2, <1>9 DEF LatchIsStored
  <2> QED
    BY <1>6, <1>7, <2>1, <2>2
<1>10. CASE ram.kind = "db"
  <2>1. ram' = ram
    BY <1>1, <1>10
  <2>2. RamHoldsFlash'
    BY <1>2, <2>1 DEF RamHoldsFlash
  <2>3. (~latchLost => LatchIsStored)'
    BY <1>2, <2>1 DEF LatchIsStored
  <2> QED
    BY <1>6, <1>7, <2>2, <2>3
<1> QED
  BY <1>1, <1>8, <1>9, <1>10

-------------------------------------------------------------------------------
(* The open store.                                                         *)

\* What is learned is added to what the RAM database holds; the notice is
\* given by the update that sets the latch.
LEMMA UpdateStep ==
  ASSUME StoreInv, UpdateQValue PROVE StoreInv'
<1> USE DEF StoreInv
<1>1. PICK works \in BOOLEAN :
        LET reached == works /\ qUpdates + 1 = Threshold
            new == [learned |-> ram.full.learned \cup {updates + 1},
                    latched |-> ram.full.latched \/ reached]
        IN /\ ram' \in {Database(ram.main, new), Database(new, new)}
           /\ notices' = IF reached /\ ~ram.full.latched THEN notices + 1 ELSE notices
  BY DEF UpdateQValue
<1> DEFINE reached == works /\ qUpdates + 1 = Threshold
           new == [learned |-> ram.full.learned \cup {updates + 1},
                   latched |-> ram.full.latched \/ reached]
<1>2. /\ ram' \in {Database(ram.main, new), Database(new, new)}
      /\ notices' = IF reached /\ ~ram.full.latched THEN notices + 1 ELSE notices
  BY <1>1
<1>3. /\ phase = "open" /\ lock = "none" /\ updates < MaxUpdates
      /\ updates' = updates + 1 /\ qUpdates' = qUpdates + 1
      /\ UNCHANGED << phase, lock, bak, flash, durable, tmp, marker, leaving, damaged, latchLost, flushCut >>
  BY DEF UpdateQValue, Free
<1>4. /\ qUpdates \in Nat /\ updates \in Nat /\ notices \in Nat
      /\ qUpdates <= updates /\ notices <= updates /\ MaxUpdates \in Nat
  BY StoreAssumption DEF StoreTypeOK
<1>5. new \in Contents
  <2>1. ram.full \in Contents
    BY Fields
  <2>2. updates + 1 \in Updates
    BY <1>3, <1>4 DEF Updates
  <2>3. /\ ram.full.learned \cup {updates + 1} \in SUBSET Updates
        /\ ram.full.latched \/ reached \in BOOLEAN
    BY <2>1, <2>2 DEF Contents
  <2> QED
    BY <2>3 DEF Contents
<1>6. /\ new.learned = ram.full.learned \cup {updates + 1}
      /\ new.latched = (ram.full.latched \/ reached)
  OBVIOUS
<1> HIDE DEF new, reached
<1>7. ram' \in Databases /\ ram'.kind = "db" /\ ram'.full = new
  BY <1>2, <1>5, Fields, DatabaseTypes
<1>8. /\ qUpdates' \in 0 .. MaxUpdates /\ updates' \in 0 .. MaxUpdates
      /\ notices' \in 0 .. MaxUpdates
      /\ notices' <= updates' /\ qUpdates' <= updates'
  BY <1>2, <1>3, <1>4
<1>9. StoreTypeOK'
  BY <1>3, <1>7, <1>8 DEF StoreTypeOK
<1>10. (FlashIsWhole /\ PhaseOfRam /\ TmpIsFresh /\ EmptyStart)'
  BY <1>3, <1>7 DEF FlashIsWhole, PhaseOfRam, TmpIsFresh, EmptyStart, Flushers
<1>11. ram.kind = "db"
  BY <1>3 DEF PhaseOfRam
<1>12. RamHoldsFlash'
  BY <1>3, <1>6, <1>7, <1>11 DEF RamHoldsFlash
<1>13. (~latchLost => LatchIsStored)'
  <2> SUFFICES ASSUME ~latchLost' PROVE LatchIsStored'
    OBVIOUS
  <2>1. LatchIsStored
    BY <1>3
  <2>2. CASE ram.full.latched
    <3>1. notices' = notices /\ ram'.full.latched
      BY <1>2, <1>6, <1>7, <2>2
    <3> QED
      BY <2>1, <3>1, <1>7 DEF LatchIsStored
  <2>3. CASE ~ram.full.latched
    <3>1. notices = 0
      BY <1>4, <1>11, <2>1, <2>3 DEF LatchIsStored
    <3>2. CASE reached
      <4>1. notices' = 1
        BY <3>1, <3>2, <2>3, <1>2
      <4>2. ram'.full.latched
        BY <3>2, <1>6, <1>7, Zenon
      <4> QED
        BY <4>1, <4>2, <1>7 DEF LatchIsStored
    <3>3. CASE ~reached
      BY <3>1, <3>3, <1>2 DEF LatchIsStored
    <3> QED
      BY <3>2, <3>3
  <2> QED
    BY <2>2, <2>3
<1> QED
  BY <1>8, <1>9, <1>10, <1>12, <1>13

\* The backup and the vacuum of the main loop leave what a reader sees.
LEMMA BackupStep ==
  ASSUME StoreInv, BackupBegin \/ BackupEnd PROVE StoreInv'
<1> USE DEF StoreInv
<1>1. CASE BackupBegin
  <2>1. bak' \in Files /\ lock' = "backup" /\ phase \in {"open", "closed"}
    BY <1>1, FileTypes DEF BackupBegin
  <2>2. UNCHANGED << phase, ram, flash, durable, tmp, marker, leaving, qUpdates, updates,
                     notices, damaged, latchLost, flushCut >>
    BY <1>1 DEF BackupBegin
  <2>3. StoreTypeOK'
    BY <2>1, <2>2 DEF StoreTypeOK, Locks
  <2> QED
    BY <2>1, <2>2, <2>3 DEF FlashIsWhole, PhaseOfRam, TmpIsFresh, EmptyStart,
       RamHoldsFlash, LatchIsStored, Flushers
<1>2. CASE BackupEnd
  <2>1. /\ lock = "backup" /\ lock' = "none"
        /\ bak' \in {File("db", ram.main), Torn}
        /\ ram' = ram \/ ram' = Database(ram.full, ram.full)
        /\ UNCHANGED << phase, flash, durable, tmp, marker, leaving, qUpdates, updates,
                        notices, damaged, latchLost, flushCut >>
    BY <1>2 DEF BackupEnd
  <2>2. ram.kind = "db"
    BY <2>1 DEF StoreTypeOK, PhaseOfRam
  <2>3. ram' \in Databases /\ ram'.kind = "db" /\ ram'.full = ram.full
    BY <2>1, <2>2, Fields, DatabaseTypes DEF StoreTypeOK
  <2>4. bak' \in Files
    BY <2>1, Fields, FileTypes
  <2>5. StoreTypeOK'
    BY <2>1, <2>3, <2>4 DEF StoreTypeOK, Locks
  <2> QED
    BY <2>1, <2>2, <2>3, <2>5 DEF FlashIsWhole, PhaseOfRam, TmpIsFresh, EmptyStart,
       RamHoldsFlash, LatchIsStored, Flushers
<1> QED
  BY <1>1, <1>2

\* A flush, step by step, for each of its callers.
LEMMA FlushBeginStep ==
  ASSUME StoreInv, NEW who \in Flushers, Free, FlushBegin(who) PROVE StoreInv'
<1> USE DEF StoreInv
<1>1. tmp' = Torn /\ lock' = who /\ phase = "open" /\ who \in Locks
  BY DEF FlushBegin, Free, Flushers, Locks
<1>2. UNCHANGED << phase, ram, bak, flash, durable, marker, leaving, qUpdates, updates,
                   notices, damaged, latchLost, flushCut >>
  BY DEF FlushBegin
<1>3. tmp' \in Files /\ tmp'.kind = "torn"
  BY <1>1, FileTypes
<1>4. StoreTypeOK'
  BY <1>1, <1>2, <1>3 DEF StoreTypeOK
<1> QED
  BY <1>1, <1>2, <1>3, <1>4 DEF FlashIsWhole, PhaseOfRam, TmpIsFresh, EmptyStart,
     RamHoldsFlash, LatchIsStored

LEMMA FlushVacuumedStep ==
  ASSUME StoreInv, NEW who \in Flushers, FlushVacuumed(who) PROVE StoreInv'
<1> USE DEF StoreInv
<1>1. tmp' = File("db", ram.full)
  BY DEF FlushVacuumed
<1>2. UNCHANGED << phase, lock, ram, bak, flash, durable, marker, leaving, qUpdates, updates,
                   notices, damaged, latchLost, flushCut >>
  BY DEF FlushVacuumed
<1>3. tmp' \in Files /\ tmp'.is = ram.full
  BY <1>1, Fields, FileTypes
<1>4. StoreTypeOK'
  BY <1>2, <1>3 DEF StoreTypeOK
<1> QED
  BY <1>2, <1>3, <1>4 DEF FlashIsWhole, PhaseOfRam, TmpIsFresh, EmptyStart,
     RamHoldsFlash, LatchIsStored

\* What replaces the flash copy is what the RAM database holds.
LEMMA FlushEndFlash ==
  ASSUME StoreInv, NEW who \in Flushers, NEW next, FlushEnd(who, next)
  PROVE  /\ tmp' \in Files
         /\ flash' = flash \/ (flash' = tmp /\ tmp.kind = "db" /\ tmp.is = ram.full)
         /\ flash' \in Files /\ durable' \in SUBSET Files /\ flash' \in durable'
         /\ phase = "open" /\ ram.kind = "db" /\ lock' = "none" /\ leaving' = next
         /\ UNCHANGED << phase, ram, bak, marker, qUpdates, updates, notices,
                         damaged, latchLost, flushCut >>
<1>1. /\ lock = who /\ lock' = "none" /\ leaving' = next
      /\ UNCHANGED << phase, ram, bak, marker, qUpdates, updates, notices,
                      damaged, latchLost, flushCut >>
  BY DEF FlushEnd
<1>2. \/ tmp.kind = "db" /\ tmp' = Absent /\ flash' = tmp /\ durable' = Unsynced(tmp)
      \/ tmp' = Absent /\ flash' = flash /\ durable' = durable
      \/ tmp' = tmp /\ flash' = flash /\ durable' = durable
  BY DEF FlushEnd
<1>3. /\ tmp \in Files /\ tmp' \in Files
      /\ flash' \in Files /\ durable' \in SUBSET Files /\ flash' \in durable'
  BY <1>2, FileTypes, UnsyncedTypes DEF StoreInv, StoreTypeOK
<1>4. lock \notin {"none", "backup"} /\ (tmp.kind = "db" => tmp.is = ram.full)
  BY <1>1 DEF StoreInv, TmpIsFresh, Flushers
<1>5. phase = "open" /\ ram.kind = "db"
  BY <1>4 DEF StoreInv, StoreTypeOK, PhaseOfRam
<1> QED
  BY <1>1, <1>2, <1>3, <1>4, <1>5

LEMMA FlushEndStep ==
  ASSUME StoreInv, NEW who \in Flushers,
         NEW next \in {"no", "marked", "flushed", "restarted"}, FlushEnd(who, next)
  PROVE  StoreInv'
<1> USE DEF StoreInv
<1>1. /\ tmp' \in Files
      /\ flash' = flash \/ (flash' = tmp /\ tmp.kind = "db" /\ tmp.is = ram.full)
      /\ flash' \in Files /\ durable' \in SUBSET Files /\ flash' \in durable'
      /\ phase = "open" /\ ram.kind = "db" /\ lock' = "none" /\ leaving' = next
      /\ UNCHANGED << phase, ram, bak, marker, qUpdates, updates, notices,
                      damaged, latchLost, flushCut >>
  BY FlushEndFlash
<1>2. StoreTypeOK'
  BY <1>1 DEF StoreTypeOK, Locks
<1>3. (FlashIsWhole /\ PhaseOfRam /\ TmpIsFresh /\ EmptyStart /\ notices <= updates)'
  BY <1>1 DEF FlashIsWhole, PhaseOfRam, TmpIsFresh, EmptyStart, Flushers
<1>4. RamHoldsFlash'
  BY <1>1 DEF RamHoldsFlash
<1>5. (~latchLost => LatchIsStored)'
  BY <1>1 DEF LatchIsStored
<1> QED
  BY <1>2, <1>3, <1>4, <1>5

LEMMA FlushStep ==
  ASSUME StoreInv, PeriodicFlush \/ ShutdownFlush \/ RestartFlush PROVE StoreInv'
<1>1. /\ "periodic" \in Flushers /\ "signal" \in Flushers /\ "restart" \in Flushers
      /\ leaving \in {"no", "marked", "flushed", "restarted"}
  BY DEF Flushers, StoreInv, StoreTypeOK
<1>2. CASE PeriodicFlush
  BY <1>1, <1>2, FlushBeginStep, FlushVacuumedStep, FlushEndStep DEF PeriodicFlush
<1>3. CASE ShutdownFlush
  BY <1>1, <1>3, FlushBeginStep, FlushVacuumedStep, FlushEndStep DEF ShutdownFlush
<1>4. CASE RestartFlush
  BY <1>1, <1>4, FlushBeginStep, FlushVacuumedStep, FlushEndStep DEF RestartFlush
<1> QED
  BY <1>2, <1>3, <1>4

-------------------------------------------------------------------------------
(* The ways out.                                                           *)

LEMMA LeaveStep ==
  ASSUME StoreInv, SigTerm \/ Close PROVE StoreInv'
<1> USE DEF StoreInv
<1>1. CASE SigTerm
  <2>1. marker' \in BOOLEAN /\ leaving' = "marked"
    BY <1>1 DEF SigTerm, StoreTypeOK
  <2>2. UNCHANGED << phase, lock, ram, bak, flash, durable, tmp, qUpdates, updates, notices,
                     damaged, latchLost, flushCut >>
    BY <1>1 DEF SigTerm
  <2>3. StoreTypeOK'
    BY <2>1, <2>2 DEF StoreTypeOK
  <2> QED
    BY <2>2, <2>3 DEF FlashIsWhole, PhaseOfRam, TmpIsFresh, EmptyStart,
       RamHoldsFlash, LatchIsStored
<1>2. CASE Close
  <2>1. /\ phase = "open" /\ lock = "none" /\ phase' = "closed"
        /\ ram' = Database(ram.full, ram.full)
        /\ UNCHANGED << lock, bak, flash, durable, tmp, marker, leaving, qUpdates, updates,
                        notices, damaged, latchLost, flushCut >>
    BY <1>2 DEF Close, Free
  <2>2. ram' \in Databases /\ ram'.kind = "db" /\ ram'.full = ram.full
    BY <2>1, Fields, DatabaseTypes
  <2>3. ram.kind = "db"
    BY <2>1 DEF PhaseOfRam
  <2>4. StoreTypeOK'
    BY <2>1, <2>2 DEF StoreTypeOK, Phases
  <2> QED
    BY <2>1, <2>2, <2>3, <2>4 DEF FlashIsWhole, PhaseOfRam, TmpIsFresh, EmptyStart,
       RamHoldsFlash, LatchIsStored, Flushers
<1> QED
  BY <1>1, <1>2

\* However a process ends, the latch is in the copy that the next one opens,
\* or it is lost.
LEMMA GoneStep ==
  ASSUME StoreInv, Exit \/ Crash \/ PowerLoss PROVE StoreInv'
<1> USE DEF StoreInv
<1>1. /\ phase' = "down" /\ lock' = "none" /\ leaving' = "no" /\ qUpdates' = 0
      /\ UNCHANGED << tmp, updates, notices, damaged >>
  BY DEF Exit, Crash, PowerLoss, Gone
<1>2. marker' \in BOOLEAN
  BY DEF Exit, Crash, PowerLoss, StoreTypeOK
<1>3. /\ ram' \in Databases /\ bak' \in Files
      /\ flash' \in Files /\ durable' \in SUBSET Files /\ flash' \in durable'
  BY FileTypes, DatabaseTypes DEF Exit, Crash, PowerLoss, StoreTypeOK
<1>4. latchLost' \in BOOLEAN /\ flushCut' \in BOOLEAN
  BY DEF Exit, Crash, PowerLoss, StoreTypeOK
<1>5. qUpdates' \in 0 .. MaxUpdates /\ qUpdates' <= updates'
  BY <1>1, StoreAssumption DEF StoreTypeOK
<1>6. StoreTypeOK'
  BY <1>1, <1>2, <1>3, <1>4, <1>5 DEF StoreTypeOK, Phases, Locks
<1>7. (PhaseOfRam /\ TmpIsFresh /\ EmptyStart /\ notices <= updates)'
  BY <1>1 DEF PhaseOfRam, TmpIsFresh, EmptyStart, Flushers
<1>8. CASE Exit \/ Crash
  <2>1. UNCHANGED << ram, flash, latchLost, flushCut >>
    BY <1>8 DEF Exit, Crash
  <2> QED
    BY <1>1, <1>6, <1>7, <2>1 DEF FlashIsWhole, RamHoldsFlash, LatchIsStored
<1>9. CASE PowerLoss
  <2>1. ram'.kind = "absent"
    BY <1>9, DatabaseTypes DEF PowerLoss
  <2>2. RamHoldsFlash'
    BY <2>1 DEF RamHoldsFlash
  <2>3. FlashIsWhole'
    BY <1>9 DEF PowerLoss, FlashIsWhole
  <2>4. (~latchLost => LatchIsStored)'
    <3> SUFFICES ASSUME ~latchLost' PROVE LatchIsStored'
      OBVIOUS
    <3>1. /\ ~latchLost
          /\ (IF ram.kind = "db" THEN ram.full ELSE flash.is).latched => flash'.is.latched
      BY <1>9, Zenon DEF PowerLoss
    <3>2. LatchIsStored
      BY <3>1
    <3> QED
      BY <1>1, <2>1, <3>1, <3>2 DEF LatchIsStored
  <2> QED
    BY <1>6, <1>7, <2>2, <2>3, <2>4
<1> QED
  BY <1>8, <1>9

\* Writing back changes nothing that a process sees.
LEMMA WriteBackStep ==
  ASSUME StoreInv, WriteBack PROVE StoreInv'
<1> USE DEF StoreInv
<1>1. /\ durable' = {flash}
      /\ UNCHANGED << phase, lock, ram, bak, flash, tmp, marker, leaving, qUpdates,
                      updates, notices, damaged, latchLost, flushCut >>
  BY DEF WriteBack
<1>2. StoreTypeOK'
  BY <1>1 DEF StoreTypeOK
<1> QED
  BY <1>1, <1>2 DEF FlashIsWhole, PhaseOfRam, TmpIsFresh, EmptyStart,
     RamHoldsFlash, LatchIsStored

LEMMA CorruptionStep ==
  ASSUME StoreInv, Corruption PROVE StoreInv'
<1> USE DEF StoreInv
<1>1. /\ phase = "down" /\ ram.kind = "db" /\ ram' = TornDatabase
      /\ latchLost' = (latchLost \/ ram.full.latched)
      /\ UNCHANGED << phase, lock, bak, flash, durable, tmp, marker, leaving, qUpdates, updates,
                      notices, damaged, flushCut >>
  BY DEF Corruption
<1>2. ram' \in Databases /\ ram'.kind = "torn" /\ latchLost' \in BOOLEAN
  BY <1>1, DatabaseTypes DEF StoreTypeOK
<1>3. lock = "none"
  BY <1>1 DEF StoreTypeOK
<1>4. StoreTypeOK'
  BY <1>1, <1>2 DEF StoreTypeOK
<1>5. (~latchLost => LatchIsStored)'
  BY <1>1, <1>2 DEF LatchIsStored, StoreTypeOK
<1> QED
  BY <1>1, <1>2, <1>3, <1>4, <1>5 DEF FlashIsWhole, PhaseOfRam, TmpIsFresh,
     EmptyStart, RamHoldsFlash, Flushers

LEMMA StoreStep == StoreInv /\ [Next]_storeVars => StoreInv'
<1> SUFFICES ASSUME StoreInv, [Next]_storeVars PROVE StoreInv'
  OBVIOUS
<1>1. CASE UNCHANGED storeVars
  BY <1>1 DEF storeVars, files, StoreInv, StoreTypeOK, FlashIsWhole, PhaseOfRam,
     TmpIsFresh, EmptyStart, RamHoldsFlash, LatchIsStored
<1> QED
  BY <1>1, ValidationStep, StartStep, OpenStep, UpdateStep, BackupStep, FlushStep,
     WriteBackStep, LeaveStep, GoneStep, CorruptionStep DEF Next

LEMMA StoreInvariance == Spec => []StoreInv
  BY StoreInit, StoreStep, PTL DEF Spec

-------------------------------------------------------------------------------
(* What follows.                                                           *)

\* Types of the store, and it is never closed under a flush or a backup.
THEOREM StoreTypes == Spec => []StoreTypeOK
  BY StoreInvariance, PTL DEF StoreInv

\* store.go's rename makes a flush atomic for everything but a power loss that
\* comes before the system has written it back: wherever a flush fails or its
\* process ends, the flash copy is a complete database or there is none.
THEOREM FlashStaysWhole == Spec => []FlashIsWhole
  BY StoreInvariance, PTL DEF StoreInv

\* Processes that end, power losses and restores lose only what was learned
\* after the last flush, unless a RAM database was damaged.
THEOREM FlushesAreKept == Spec => []FlushedIsKept
<1>1. StoreInv => FlushedIsKept
  BY DEF StoreInv, FlushedIsKept, RamHoldsFlash, PhaseOfRam
<1> QED
  BY <1>1, StoreInvariance, PTL

\* The milestone is announced once, whatever the threshold and however often
\* the process starts, unless a set latch was lost with its database.
THEOREM MilestoneIsOnce == Spec => []MilestoneOnce
<1>1. StoreInv => MilestoneOnce
  <2> SUFFICES ASSUME StoreInv, notices > 1 PROVE latchLost
    BY DEF MilestoneOnce
  <2>1. notices \in Int
    BY StoreAssumption DEF StoreInv, StoreTypeOK
  <2> QED
    BY <2>1 DEF StoreInv, LatchIsStored
<1> QED
  BY <1>1, StoreInvariance, PTL

\* The condition under which main.go:366 holds: the flash copy never loses
\* what it held, unless a damaged RAM database took the place of the one that
\* was restored from it, or power is lost before the copy is written back.
THEOREM UndamagedFlashGrows ==
  Spec => [][~damaged /\ durable = {flash}
               => flash.is.learned \subseteq flash'.is.learned]_storeVars
<1>1. ASSUME StoreInv, Next, ~damaged, durable = {flash}
      PROVE  flash.is.learned \subseteq flash'.is.learned
  <2>1. ASSUME NEW who \in Flushers, NEW next, FlushEnd(who, next)
        PROVE  flash.is.learned \subseteq flash'.is.learned
    <3>1. /\ flash' = flash \/ (flash' = tmp /\ tmp.is = ram.full)
          /\ ram.kind = "db"
      BY <1>1, <2>1, FlushEndFlash
    <3> QED
      BY <1>1, <3>1 DEF StoreInv, RamHoldsFlash
  <2>2. "periodic" \in Flushers /\ "signal" \in Flushers /\ "restart" \in Flushers
    BY DEF Flushers
  <2>3. CASE PeriodicFlush \/ ShutdownFlush \/ RestartFlush
    BY <2>1, <2>2, <2>3
       DEF PeriodicFlush, ShutdownFlush, RestartFlush, FlushBegin, FlushVacuumed
  <2>4. CASE PostUpgradeValidation
    <3>1. flash' = flash \/ flash.kind = "torn"
      BY <2>4 DEF PostUpgradeValidation
    <3>2. flash.kind = "torn" => flash.is.learned = {}
      BY <1>1, Fields, EmptyContents DEF StoreInv
    <3> QED
      BY <3>1, <3>2
  <2>5. CASE PowerLoss
    BY <1>1, <2>5 DEF PowerLoss
  <2>6. CASE ~(PeriodicFlush \/ ShutdownFlush \/ RestartFlush
               \/ PostUpgradeValidation \/ PowerLoss)
    <3>1. UNCHANGED flash
      BY <1>1, <2>6 DEF Next, NewHybrid, RestoreEnds, OpenAndInit, UpdateQValue,
         BackupBegin, BackupEnd, WriteBack, SigTerm, Close, Exit, Crash, Corruption
    <3> QED
      BY <3>1
  <2> QED
    BY <2>3, <2>4, <2>5, <2>6
<1> QED
  BY <1>1, StoreInvariance, PTL DEF Spec
===============================================================================
