---------------------------- MODULE BackupsProofs ----------------------------
(***************************************************************************)
(* Proofs about Backups, for any databases, cycles and limits.             *)
(*                                                                         *)
(* A set that one cleanup finds too old stays too old (Doomed): cleanups   *)
(* take only sets that have enough newer ones, so that newer ones stay.    *)
(* Hence whatever a cleanup has listed may still be removed when it comes  *)
(* to it, and a cycle whose set was cleaned up while it was made removes   *)
(* the rest of it.                                                         *)
(***************************************************************************)
EXTENDS Backups, FiniteSetTheorems, WellFoundedInduction, NaturalsInduction, TLAPS

(* Too old to stay.                                                        *)
Doomed(s) == Cardinality(Newer(s)) >= MaxBackups \/ Expired(s)

(* A cycle that is yet to list what it removes.                            *)
Making(c) == cycles[c].at \in {"loop", "created", "vacuuming", "copying"}

File == [stamp : {0} \cup Time, db : {0} \cup Db, at : {"idle", "loop", "created",
            "vacuuming", "copying", "clean"}, todo : SUBSET Db,
         remove : SUBSET (Time \X Db)]

Types == TypeOK /\ cycles \in [Cycle -> File] /\ (stopping => crashes # 0)

Listed ==
    /\ \A f \in files : f.stamp <= clock
    /\ \A c \in Cycle : /\ cycles[c].stamp <= clock
                        /\ cycles[c].at # "clean" => cycles[c].remove = {}
                        /\ \A p \in cycles[c].remove : Doomed(p[1])

Alone ==
    ~shared => \A c, d \in Cycle :
        c # d /\ cycles[c].at # "idle" /\ cycles[d].at # "idle"
            => cycles[c].stamp # cycles[d].stamp

(* What cycle c has made of its set s, if nothing has failed: files of the *)
(* databases it has come to, and of all of them while the set may stay.    *)
MadeBy(c, s) ==
    LET y == cycles[c]
    IN  /\ y.at # "copying"
        /\ y.at # "loop" => y.db \notin y.todo
        /\ \A f \in files : f.stamp = s =>
              /\ f.db \notin y.todo
              /\ y.at = "created" /\ f.db = y.db => f.holds = "empty"
              /\ y.at = "vacuuming" /\ f.db = y.db => f.holds = "partial"
        /\ ~Doomed(s) =>
              \A db \in Db \ y.todo :
                  IF y.at # "loop" /\ db = y.db
                  THEN \E f \in files : f.stamp = s /\ f.db = db
                  ELSE [stamp |-> s, db |-> db, holds |-> "whole"] \in files

(* A set is being made, or it is complete and stays, or all that is left   *)
(* of it is about to be removed by one cycle.                              *)
Untouched(s) == \A c \in Cycle : \A p \in cycles[c].remove : p[1] # s
Covers(c, s) == \A f \in files : f.stamp = s => <<s, f.db>> \in cycles[c].remove
Settled(s) ==
    \/ \E c \in Cycle : Making(c) /\ cycles[c].stamp = s
    \/ Complete(s) /\ Untouched(s)
    \/ \E c \in Cycle : Covers(c, s)

Made ==
    ~shared /\ Calm =>
        /\ \A c \in Cycle, s \in Time :
              Making(c) /\ cycles[c].stamp = s => MadeBy(c, s)
        /\ \A s \in Stamps : Settled(s)

(* A set that was complete when Restore listed it loses files, but gets no *)
(* other ones.                                                             *)
Restoring ==
    restore.at = "copying" /\ restore.whole /\ ~shared =>
        /\ restore.got = {[db |-> db, holds |-> "whole"] : db \in Db \ restore.todo}
        /\ \A f \in files : f.stamp = restore.stamp => f.holds = "whole"
        /\ \A c \in Cycle : Making(c) /\ cycles[c].stamp = restore.stamp =>
              cycles[c].at = "loop" /\ cycles[c].todo = {}
        /\ restore.stamp \in Stamps \/ restore.stamp < clock

(* When the cycles that are left only clean up, some of them will come to  *)
(* each file that is too much, unless the scheduler has left early.        *)
Cleaning ==
    faults = 0 /\ ~stopping /\ (\A c \in Cycle : ~Making(c)) /\ (\E c \in Cycle : cycles[c].at = "clean") =>
        \A f \in files :
            Cardinality(Newer(f.stamp)) >= MaxBackups =>
                \E c \in Cycle : <<f.stamp, f.db>> \in cycles[c].remove

BackupInv ==
    Types /\ Listed /\ Alone /\ Made /\ Restoring /\ Cleaning

-----------------------------------------------------------------------------
(* There are finitely many moments, so that stamps can be counted, and     *)
(* more of them are no fewer.                                              *)
LEMMA Moments ==
  /\ Time \subseteq Nat /\ 0 \notin Time
  /\ \A S : S \subseteq Time => IsFiniteSet(S) /\ Cardinality(S) \in Nat
  /\ \A S, T : S \subseteq Time /\ T \subseteq S => Cardinality(T) <= Cardinality(S)
  <1>1. Time \subseteq Nat /\ 0 \notin Time /\ IsFiniteSet(Time)
    BY BackupAssumption, FS_Interval DEF Time
  <1> QED
    BY <1>1, FS_Subset, FS_CardinalityType

(* Stamps are moments.                                                     *)
LEMMA StampsCount ==
  ASSUME TypeOK
  PROVE  /\ clock \in Time /\ clock \in Nat /\ Stamps \subseteq Time
         /\ \A s : Newer(s) \subseteq Time /\ Cardinality(Newer(s)) \in Nat
  <1>1. clock \in Time /\ Stamps \subseteq Time
    BY DEF TypeOK, FileType, Stamps
  <1> QED
    BY <1>1, Moments DEF Newer

(* The fields of a cycle.                                                  *)
LEMMA CycleFields ==
  ASSUME Types, NEW c \in Cycle
  PROVE  /\ cycles[c] \in File
         /\ cycles[c].at \in {"idle", "loop", "created", "vacuuming", "copying", "clean"}
         /\ cycles[c].todo \subseteq Db /\ cycles[c].remove \subseteq Time \X Db
         /\ cycles[c].at = "idle" <=> cycles[c] = Idle
         /\ cycles[c].at # "idle" => cycles[c].stamp \in Time
         /\ cycles[c].at \in {"created", "vacuuming", "copying"} => cycles[c].db \in Db
         /\ cycles[c].at \in {"loop", "clean"} => cycles[c].db = 0
  <1>1. cycles[c] \in File
    BY DEF Types
  <1>2. cycles[c] = Idle \/
           /\ cycles[c].at \in {"loop", "created", "vacuuming", "copying", "clean"}
           /\ cycles[c].stamp \in Time
           /\ cycles[c].db \in IF cycles[c].at \in {"loop", "clean"} THEN {0} ELSE Db
    BY DEF Types, TypeOK
  <1>3. Idle.at = "idle"
    BY DEF Idle
  <1> QED
    BY <1>1, <1>2, <1>3 DEF File

(* A file that a cycle writes takes the place of the one it had.           *)
LEMMA HoldsTypes ==
  ASSUME Types, NEW c \in Cycle, cycles[c].stamp \in Time, NEW db \in Db,
         NEW what \in {"empty", "partial", "whole"}, Holds(c, db, what)
  PROVE  /\ files' \subseteq FileType
         /\ \A f, g \in files' : f.stamp = g.stamp /\ f.db = g.db => f = g
         /\ Stamps' = Stamps \cup {cycles[c].stamp}
  <1> DEFINE new == [stamp |-> cycles[c].stamp, db |-> db, holds |-> what]
  <1>1. new \in FileType /\ new.stamp = cycles[c].stamp /\ new.db = db
    BY DEF FileType
  <1>2. \A f \in files' : \/ f \in files /\ (f.stamp # new.stamp \/ f.db # new.db)
                          \/ f = new
    BY DEF Holds
  <1>3. files \subseteq FileType
        /\ \A f, g \in files : f.stamp = g.stamp /\ f.db = g.db => f = g
    BY DEF Types, TypeOK
  <1>4. new \in files' /\ \A f \in files : f.stamp # new.stamp => f \in files'
    BY DEF Holds
  <1> HIDE DEF new
  <1>5. Stamps' = Stamps \cup {new.stamp}
    BY <1>2, <1>4 DEF Stamps
  <1> QED
    BY <1>1, <1>2, <1>3, <1>5

(* A cycle that is making its set.                                         *)
Works(c) ==
    \/ CreateFile(c) \/ FailCreate(c) \/ Vacuum(c) \/ FinishVacuum(c)
    \/ FailVacuum(c) \/ CopyFile(c) \/ FailCopy(c)

(* It goes on with its set, and writes one file at most.                   *)
LEMMA WorksOn ==
  ASSUME Types, NEW c \in Cycle, Works(c)
  PROVE  /\ Making(c) /\ Making(c)' /\ cycles' \in [Cycle -> File]
         /\ cycles'[c].stamp = cycles[c].stamp /\ cycles[c].stamp \in Time
         /\ cycles'[c].remove = cycles[c].remove
         /\ cycles'[c].todo \subseteq cycles[c].todo
         /\ cycles'[c].db \in IF cycles'[c].at = "loop" THEN {0} ELSE Db
         /\ \A d \in Cycle \ {c} : cycles'[d] = cycles[d]
         /\ UNCHANGED <<clock, shared, restore, crashes, stopping>>
         /\ Fault \/ UNCHANGED faults
         /\ \/ UNCHANGED files
            \/ \E db \in Db, what \in {"empty", "partial", "whole"} : Holds(c, db, what)
  <1> DEFINE y == cycles[c]
  <1>1. /\ cycles \in [Cycle -> File] /\ y \in File /\ y.todo \subseteq Db
        /\ y.at # "idle" => y.stamp \in Time
        /\ y.at \in {"created", "vacuuming", "copying"} => y.db \in Db
        /\ y.at = "loop" => y.db = 0
    BY CycleFields DEF Types
  <1>2. /\ UNCHANGED <<clock, shared, restore, crashes, stopping>>
        /\ Fault \/ UNCHANGED faults
    BY DEF Works, CreateFile, FailCreate, Vacuum, FinishVacuum, FailVacuum, CopyFile,
           FailCopy, bounds
  <1>3. CASE CreateFile(c)
    <2>1. PICK db \in First(c) :
             /\ Holds(c, db, "empty") /\ y.at = "loop"
             /\ cycles' = [cycles EXCEPT ![c] = [y EXCEPT !.at = "created", !.db = db,
                                                          !.todo = y.todo \ {db}]]
      BY <1>3 DEF CreateFile
    <2>2. db \in Db
      BY <1>1 DEF First
    <2>3. cycles'[c] = [y EXCEPT !.at = "created", !.db = db, !.todo = y.todo \ {db}]
      BY <1>1, <2>1
    <2>4. /\ cycles'[c].at = "created" /\ cycles'[c].db = db
          /\ cycles'[c].stamp = y.stamp /\ cycles'[c].remove = y.remove
          /\ cycles'[c].todo = y.todo \ {db} /\ cycles'[c] \in File
      <3>1. y.todo \ {db} \in SUBSET Db
        BY <1>1
      <3>2. DOMAIN y = {"stamp", "db", "at", "todo", "remove"}
        BY <1>1 DEF File
      <3> QED
        BY <1>1, <2>2, <2>3, <3>1, <3>2 DEF File
    <2>5. cycles' \in [Cycle -> File] /\ \A d \in Cycle \ {c} : cycles'[d] = cycles[d]
      BY <1>1, <2>1, <2>3, <2>4
    <2> QED
      BY <1>1, <1>2, <2>1, <2>2, <2>4, <2>5 DEF Making
  <1>4. CASE FailCreate(c)
    <2>1. PICK db \in First(c) :
             /\ y.at = "loop" /\ UNCHANGED files
             /\ cycles' = [cycles EXCEPT ![c] = [y EXCEPT !.todo = y.todo \ {db}]]
      BY <1>4 DEF FailCreate
    <2>2. cycles'[c] = [y EXCEPT !.todo = y.todo \ {db}]
      BY <1>1, <2>1
    <2>3. /\ cycles'[c].at = "loop" /\ cycles'[c].db = y.db
          /\ cycles'[c].stamp = y.stamp /\ cycles'[c].remove = y.remove
          /\ cycles'[c].todo = y.todo \ {db} /\ cycles'[c] \in File
      BY <1>1, <2>1, <2>2 DEF File
    <2>4. cycles' \in [Cycle -> File] /\ \A d \in Cycle \ {c} : cycles'[d] = cycles[d]
      BY <1>1, <2>1, <2>2, <2>3
    <2> QED
      BY <1>1, <1>2, <2>1, <2>3, <2>4 DEF Making
  <1>5. CASE Vacuum(c) \/ FailVacuum(c)
    <2>1. PICK at \in {"vacuuming", "copying"} :
             /\ y.at \in {"created", "vacuuming"}
             /\ UNCHANGED files \/ Holds(c, y.db, "partial")
             /\ cycles' = [cycles EXCEPT ![c] = [y EXCEPT !.at = at]]
      BY <1>5 DEF Vacuum, FailVacuum, GoTo
    <2>2. cycles'[c] = [y EXCEPT !.at = at]
      BY <1>1, <2>1
    <2>3. /\ cycles'[c].at = at /\ cycles'[c].db = y.db
          /\ cycles'[c].stamp = y.stamp /\ cycles'[c].remove = y.remove
          /\ cycles'[c].todo = y.todo /\ cycles'[c] \in File
      BY <1>1, <2>1, <2>2 DEF File
    <2>4. cycles' \in [Cycle -> File] /\ \A d \in Cycle \ {c} : cycles'[d] = cycles[d]
      BY <1>1, <2>1, <2>2, <2>3
    <2> QED
      BY <1>1, <1>2, <2>1, <2>3, <2>4 DEF Making
  <1>6. CASE FinishVacuum(c) \/ CopyFile(c) \/ FailCopy(c)
    <2>1. /\ y.at \in {"vacuuming", "copying"}
          /\ UNCHANGED files \/ \E what \in {"empty", "partial", "whole"} : Holds(c, y.db, what)
          /\ cycles' = [cycles EXCEPT ![c] = [y EXCEPT !.at = "loop", !.db = 0]]
      BY <1>6 DEF FinishVacuum, CopyFile, FailCopy, NextFile
    <2>2. cycles'[c] = [y EXCEPT !.at = "loop", !.db = 0]
      BY <1>1, <2>1
    <2>3. /\ cycles'[c].at = "loop" /\ cycles'[c].db = 0
          /\ cycles'[c].stamp = y.stamp /\ cycles'[c].remove = y.remove
          /\ cycles'[c].todo = y.todo /\ cycles'[c] \in File
      BY <1>1, <2>2 DEF File
    <2>4. cycles' \in [Cycle -> File] /\ \A d \in Cycle \ {c} : cycles'[d] = cycles[d]
      BY <1>1, <2>1, <2>2, <2>3
    <2> QED
      BY <1>1, <1>2, <2>1, <2>3, <2>4 DEF Making
  <1> QED
    BY <1>3, <1>4, <1>5, <1>6 DEF Works

(* A cycle begins with every database before it.                           *)
LEMMA BeginsWith ==
  ASSUME Types, NEW c \in Cycle, Begin(c)
  PROVE  /\ cycles[c] = Idle /\ cycles' \in [Cycle -> File]
         /\ cycles'[c].at = "loop" /\ cycles'[c].stamp = clock /\ clock \in Time
         /\ cycles'[c].todo = Db /\ cycles'[c].remove = {} /\ cycles'[c].db = 0
         /\ \A d \in Cycle \ {c} : cycles'[d] = cycles[d]
         /\ UNCHANGED <<clock, files, restore, bounds>>
         /\ shared' = (shared \/ clock \in Stamps \cup {cycles[d].stamp : d \in Cycle})
  <1> DEFINE new == [Idle EXCEPT !.at = "loop", !.stamp = clock, !.todo = Db]
  <1>1. /\ cycles' = [cycles EXCEPT ![c] = new] /\ cycles[c] = Idle
        /\ cycles \in [Cycle -> File] /\ clock \in Time
        /\ UNCHANGED <<clock, files, restore, bounds>>
        /\ shared' = (shared \/ clock \in Stamps \cup {cycles[d].stamp : d \in Cycle})
    BY DEF Begin, Types, TypeOK
  <1>2. /\ new.at = "loop" /\ new.stamp = clock /\ new.todo = Db /\ new.remove = {}
        /\ new.db = 0 /\ new \in File
    BY <1>1 DEF Idle, File
  <1> HIDE DEF new
  <1>3. cycles'[c] = new
    BY <1>1
  <1>4. cycles' \in [Cycle -> File] /\ \A d \in Cycle \ {c} : cycles'[d] = cycles[d]
    BY <1>1, <1>2
  <1> QED
    BY <1>1, <1>2, <1>3, <1>4

(* What a cleanup lists.                                                   *)
Removable == {<<f.stamp, f.db>> : f \in {g \in files : g.stamp \in Excess}}

(* A cleanup lists, then removes file by file.                             *)
LEMMA CleansUp ==
  ASSUME Types, NEW c \in Cycle, List(c) \/ RemoveFile(c)
  PROVE  /\ cycles' \in [Cycle -> File] /\ cycles'[c].at = "clean"
         /\ cycles'[c].stamp = cycles[c].stamp /\ cycles'[c].db = 0
         /\ \A d \in Cycle \ {c} : cycles'[d] = cycles[d]
         /\ UNCHANGED <<clock, shared, restore, crashes, stopping>>
         /\ List(c) => /\ cycles[c].at = "loop" /\ cycles[c].todo = {}
                       /\ cycles'[c].remove = Removable /\ UNCHANGED <<files, faults>>
         /\ RemoveFile(c) => \E p \in cycles[c].remove :
               /\ cycles[c].at = "clean" /\ cycles'[c].remove = cycles[c].remove \ {p}
               /\ \/ files' = {f \in files : <<f.stamp, f.db>> # p} /\ UNCHANGED faults
                  \/ Fault /\ UNCHANGED files
  <1> DEFINE y == cycles[c]
  <1>1. /\ cycles \in [Cycle -> File] /\ y \in File /\ y.remove \subseteq Time \X Db
        /\ y.at \in {"loop", "clean"} => y.db = 0
    BY CycleFields DEF Types
  <1>2. CASE List(c)
    <2>1. /\ cycles' = [cycles EXCEPT ![c] = [y EXCEPT !.at = "clean", !.remove = Removable]]
          /\ y.at = "loop" /\ y.todo = {}
          /\ UNCHANGED <<clock, files, shared, restore, faults, crashes, stopping>>
      BY <1>2 DEF List, Removable, bounds
    <2>2. Removable \subseteq Time \X Db
      BY DEF Types, TypeOK, FileType, Removable
    <2>3. cycles'[c] = [y EXCEPT !.at = "clean", !.remove = Removable]
      BY <1>1, <2>1
    <2>4. /\ cycles'[c].at = "clean" /\ cycles'[c].remove = Removable
          /\ cycles'[c].stamp = y.stamp /\ cycles'[c].db = y.db /\ cycles'[c] \in File
      BY <1>1, <2>2, <2>3 DEF File
    <2>5. cycles' \in [Cycle -> File] /\ \A d \in Cycle \ {c} : cycles'[d] = cycles[d]
      BY <1>1, <2>1, <2>3, <2>4
    <2>6. ~RemoveFile(c)
      BY <2>1 DEF RemoveFile
    <2> QED
      BY <1>1, <2>1, <2>4, <2>5, <2>6
  <1>3. CASE RemoveFile(c)
    <2>1. PICK p \in y.remove :
             /\ cycles' = [cycles EXCEPT ![c] = [y EXCEPT !.remove = y.remove \ {p}]]
             /\ \/ files' = {f \in files : <<f.stamp, f.db>> # p} /\ UNCHANGED faults
                \/ Fault /\ UNCHANGED files
      BY <1>3 DEF RemoveFile
    <2>2. y.at = "clean" /\ UNCHANGED <<clock, shared, restore, crashes, stopping>>
      BY <1>3 DEF RemoveFile
    <2>3. cycles'[c] = [y EXCEPT !.remove = y.remove \ {p}]
      BY <1>1, <2>1
    <2>4. /\ cycles'[c].at = "clean" /\ cycles'[c].remove = y.remove \ {p}
          /\ cycles'[c].stamp = y.stamp /\ cycles'[c].db = y.db /\ cycles'[c] \in File
      BY <1>1, <2>2, <2>3 DEF File
    <2>5. cycles' \in [Cycle -> File] /\ \A d \in Cycle \ {c} : cycles'[d] = cycles[d]
      BY <1>1, <2>1, <2>3, <2>4
    <2>6. ~List(c)
      BY <2>2 DEF List
    <2> QED
      BY <1>1, <2>1, <2>2, <2>4, <2>5, <2>6
  <1> QED
    BY <1>2, <1>3

(* A failure counts up to the bound.                                       *)
LEMMA FaultTypes == TypeOK /\ (Fault \/ UNCHANGED faults) => faults' \in 0 .. MaxFaults
  BY BackupAssumption DEF TypeOK, Fault

(* What Restore copies is well typed.                                      *)
LEMMA RestoreTypes ==
  ASSUME Types, RestoreStep
  PROVE  /\ restore' = NoRestore \/ restore' \in
               [at : {"copying"}, stamp : Time, todo : SUBSET Db, whole : BOOLEAN,
                got : SUBSET [db : Db, holds : {"empty", "partial", "whole"}]]
         /\ UNCHANGED <<clock, files, cycles, shared, crashes, stopping>>
         /\ Fault \/ UNCHANGED faults
  <1> DEFINE Copies == [db : Db, holds : {"empty", "partial", "whole"}]
  <1>1. CASE BeginRestore
    <2>1. PICK s \in Stamps :
             restore' = [at |-> "copying", stamp |-> s,
                         todo |-> {f.db : f \in {g \in files : g.stamp = s}},
                         got |-> {}, whole |-> Complete(s)]
      BY <1>1 DEF BeginRestore
    <2>2. s \in Time /\ {f.db : f \in {g \in files : g.stamp = s}} \subseteq Db
      BY StampsCount DEF Types, TypeOK, FileType
    <2>3. Complete(s) \in BOOLEAN
      BY DEF Complete
    <2> QED
      BY <1>1, <2>1, <2>2, <2>3 DEF BeginRestore, bounds
  <1>2. CASE RestoreFile
    <2> DEFINE copied == {[db |-> f.db, holds |-> f.holds] : f \in Source}
    <2>1. restore' = [restore EXCEPT !.todo = restore.todo \ NextDb,
                                     !.got = restore.got \cup copied]
          /\ restore.todo # {}
      BY <1>2 DEF RestoreFile
    <2>2. restore \in [at : {"copying"}, stamp : Time, todo : SUBSET Db, whole : BOOLEAN,
                       got : SUBSET Copies]
      BY <2>1 DEF Types, TypeOK, NoRestore
    <2>3. copied \subseteq Copies
      BY DEF Source, Types, TypeOK, FileType
    <2>4. restore.todo \ NextDb \in SUBSET Db /\ restore.got \cup copied \in SUBSET Copies
      BY <2>2, <2>3
    <2> HIDE DEF copied, Copies
    <2>5. restore' \in [at : {"copying"}, stamp : Time, todo : SUBSET Db, whole : BOOLEAN,
                        got : SUBSET Copies]
      BY <2>1, <2>2, <2>4
    <2> QED
      BY <1>2, <2>5 DEF RestoreFile, bounds, Copies
  <1>3. CASE FailRestore \/ EndRestore
    BY <1>3 DEF FailRestore, EndRestore, bounds
  <1> QED
    BY <1>1, <1>2, <1>3 DEF RestoreStep

(* Every step keeps the types.                                             *)
LEMMA NextTypes == Types /\ [Next]_vars => Types'
  <1> SUFFICES ASSUME Types, [Next]_vars PROVE Types'
    OBVIOUS
  <1> DEFINE Shape(y) ==
        y = Idle \/
           /\ y.at \in {"loop", "created", "vacuuming", "copying", "clean"}
           /\ y.stamp \in Time /\ y.todo \subseteq Db /\ y.remove \subseteq Time \X Db
           /\ y.db \in IF y.at \in {"loop", "clean"} THEN {0} ELSE Db
  <1>1. /\ \A c \in Cycle : Shape(cycles[c])
        /\ files \subseteq FileType
        /\ \A f, g \in files : f.stamp = g.stamp /\ f.db = g.db => f = g
    BY DEF Types, TypeOK
  <1>2. ASSUME NEW c \in Cycle, Works(c) PROVE Types'
    <2>1. /\ files' \subseteq FileType
          /\ \A f, g \in files' : f.stamp = g.stamp /\ f.db = g.db => f = g
      BY <1>1, <1>2, WorksOn, HoldsTypes
    <2>2. Shape(cycles'[c])
      BY <1>2, WorksOn DEF Making, File
    <2>3. \A d \in Cycle : Shape(cycles'[d])
      BY <1>1, <1>2, <2>2, WorksOn
    <2>4. /\ UNCHANGED <<clock, shared, restore, crashes, stopping>> /\ faults' \in 0 .. MaxFaults
          /\ cycles' \in [Cycle -> File]
      BY <1>2, WorksOn, FaultTypes DEF Types
    <2> HIDE DEF Shape
    <2> QED
      BY <2>1, <2>3, <2>4 DEF Types, TypeOK, Shape
  <1>3. ASSUME NEW c \in Cycle, Begin(c) PROVE Types'
    <2>1. \A d \in Cycle : Shape(cycles'[d])
      BY <1>1, <1>3, BeginsWith
    <2>2. cycles' \in [Cycle -> File] /\ shared' \in BOOLEAN
          /\ UNCHANGED <<clock, files, restore, faults, crashes, stopping>>
      BY <1>3, BeginsWith DEF bounds
    <2> HIDE DEF Shape
    <2> QED
      BY <2>1, <2>2 DEF Types, TypeOK, Shape
  <1>4. ASSUME NEW c \in Cycle, List(c) \/ RemoveFile(c) PROVE Types'
    <2>1. /\ cycles' \in [Cycle -> File] /\ cycles'[c].at = "clean"
          /\ cycles'[c].stamp = cycles[c].stamp /\ cycles'[c].db = 0
          /\ \A d \in Cycle \ {c} : cycles'[d] = cycles[d]
          /\ UNCHANGED <<clock, shared, restore, crashes, stopping>>
          /\ files' \subseteq files /\ cycles[c].at # "idle"
          /\ Fault \/ UNCHANGED faults
      BY <1>4, CleansUp
    <2>2. Shape(cycles'[c])
      BY <2>1, CycleFields DEF File
    <2>3. \A d \in Cycle : Shape(cycles'[d])
      BY <1>1, <2>1, <2>2
    <2>4. faults' \in 0 .. MaxFaults
      BY <2>1, FaultTypes DEF Types
    <2> HIDE DEF Shape
    <2> QED
      BY <1>1, <2>1, <2>3, <2>4 DEF Types, TypeOK, Shape
  <1>5. ASSUME \/ \E c \in Cycle : End(c) \/ LeaveEarly(c)
               \/ Crash
        PROVE  Types'
    <2>1. Idle \in File
      BY DEF Idle, File
    <2>2. cycles' \in [Cycle -> File] /\ \A d \in Cycle : cycles'[d] \in {Idle, cycles[d]}
      BY <1>5, <2>1 DEF Crash, End, LeaveEarly, Types
    <2>3. \A d \in Cycle : Shape(cycles'[d])
      BY <1>1, <2>2
    <2>4. /\ UNCHANGED <<clock, files, shared, faults>>
          /\ restore' \in {restore, NoRestore} /\ crashes' \in 0 .. MaxCrashes
          /\ stopping' \in BOOLEAN /\ (stopping' => crashes' # 0)
      <3>1. CASE Crash
        <4>1. crashes' = crashes \/ (crashes < MaxCrashes /\ crashes' = crashes + 1)
          BY <3>1 DEF Crash
        <4>2. crashes' \in 0 .. MaxCrashes
          BY <4>1, BackupAssumption DEF Types, TypeOK
        <4>3. stopping' = FALSE
          BY <3>1 DEF Crash
        <4> QED
          BY <3>1, <4>2, <4>3 DEF Crash
      <3>2. CASE \E c \in Cycle : End(c) \/ LeaveEarly(c)
        BY <3>2 DEF End, LeaveEarly, bounds, Types, TypeOK
      <3> QED
        BY <1>5, <3>1, <3>2
    <2> HIDE DEF Shape
    <2> QED
      BY <2>2, <2>3, <2>4 DEF Types, TypeOK, Shape
  <1>6. CASE RestoreStep
    BY <1>6, RestoreTypes, FaultTypes DEF Types, TypeOK
  <1>7. CASE Tick
    <2>1. clock' \in Time /\ UNCHANGED <<files, cycles, shared, restore, bounds>>
      BY <1>7, BackupAssumption DEF Tick, Types, TypeOK, Time
    <2> QED
      BY <2>1 DEF Types, TypeOK, bounds
  <1>8. CASE UNCHANGED vars
    BY <1>8 DEF vars, bounds, Types, TypeOK
  <1>9. CASE Cancel
    <2>1. crashes' \in 0 .. MaxCrashes /\ crashes' # 0
      BY <1>9, BackupAssumption DEF Cancel, Types, TypeOK
    <2> QED
      BY <1>9, <2>1 DEF Cancel, Types, TypeOK
  <1> QED
    BY <1>2, <1>3, <1>4, <1>5, <1>6, <1>7, <1>8, <1>9 DEF Next, CycleStep, Works

-----------------------------------------------------------------------------
(* Stamps come with the files of the cycle that makes them, and go only    *)
(* when a cleanup removes the last file that has them.                     *)
LEMMA StampsNext ==
  ASSUME Types, [Next]_vars
  PROVE  /\ clock' \in Time /\ clock <= clock'
         /\ \/ Stamps' = Stamps
            \/ \E c \in Cycle : Works(c) /\ Stamps' = Stamps \cup {cycles[c].stamp}
            \/ \E c \in Cycle : \E p \in cycles[c].remove :
                  RemoveFile(c) /\ UNCHANGED clock /\ Stamps' = Stamps \ {p[1]}
  <1>1. clock \in Time /\ clock' \in Time /\ Time \subseteq Nat
    BY NextTypes, Moments DEF Types, TypeOK
  <1>2. ASSUME NEW c \in Cycle, Works(c)
        PROVE  /\ UNCHANGED clock
               /\ Stamps' = Stamps \/ Stamps' = Stamps \cup {cycles[c].stamp}
    <2>1. CASE UNCHANGED files
      BY <1>2, <2>1, WorksOn DEF Stamps
    <2>2. CASE \E db \in Db, what \in {"empty", "partial", "whole"} : Holds(c, db, what)
      BY <1>2, <2>2, WorksOn, HoldsTypes
    <2> QED
      BY <1>2, <2>1, <2>2, WorksOn
  <1>3. ASSUME NEW c \in Cycle, RemoveFile(c)
        PROVE  /\ UNCHANGED clock
               /\ \/ Stamps' = Stamps
                  \/ \E p \in cycles[c].remove : Stamps' = Stamps \ {p[1]}
    <2>1. PICK p \in cycles[c].remove :
             files' = {f \in files : <<f.stamp, f.db>> # p} \/ UNCHANGED files
      BY <1>3, CleansUp
    <2>2. p = <<p[1], p[2]>>
      BY CycleFields
    <2>3. Stamps' \subseteq Stamps /\ Stamps \ {p[1]} \subseteq Stamps'
      BY <2>1, <2>2 DEF Stamps
    <2> QED
      BY <1>3, <2>3, CleansUp
  <1>4. ASSUME \/ \E c \in Cycle : Begin(c) \/ List(c) \/ End(c) \/ LeaveEarly(c)
               \/ RestoreStep \/ Cancel \/ Crash \/ UNCHANGED vars
        PROVE  UNCHANGED <<clock, files>>
    BY <1>4 DEF Begin, List, End, LeaveEarly, Cancel, Crash, vars, RestoreStep, BeginRestore, RestoreFile,
                FailRestore, EndRestore
  <1>5. CASE Tick
    BY <1>1, <1>5 DEF Tick, Stamps
  <1>6. UNCHANGED clock => clock <= clock'
    BY <1>1
  <1>7. ASSUME UNCHANGED <<clock, files>> PROVE Stamps' = Stamps /\ UNCHANGED clock
    BY <1>7 DEF Stamps
  <1>8. \/ \E c \in Cycle : Works(c) \/ RemoveFile(c)
        \/ Tick \/ UNCHANGED <<clock, files>>
    BY <1>4 DEF Next, CycleStep, Works
  <1> QED
    BY <1>1, <1>2, <1>3, <1>5, <1>6, <1>7, <1>8

(* What is too old for Retention does not get younger.                     *)
LEMMA AgeGrows == \A a, b, s, r \in Nat : a <= b /\ a - s > r => b - s > r
  OBVIOUS

(* A set that is too old stays too old: a cleanup that takes a newer set   *)
(* leaves those that are newer still, and they are enough.                 *)
LEMMA DoomedStays ==
  ASSUME Types, Listed, [Next]_vars, NEW s \in Time, Doomed(s)
  PROVE  Doomed(s)'
  <1>1. /\ clock \in Nat /\ clock' \in Nat /\ clock <= clock' /\ s \in Nat
        /\ Retention \in Nat /\ MaxBackups \in Nat
    BY StampsNext, Moments, BackupAssumption DEF Types, TypeOK
  <1>2. CASE Expired(s)
    <2>1. Expired(s)'
      BY <1>1, <1>2, AgeGrows DEF Expired
    <2> QED
      BY <2>1 DEF Doomed
  <1>3. CASE Cardinality(Newer(s)) >= MaxBackups /\ ~Expired(s)
    <2> DEFINE new == {t \in Stamps' : t > s}
    <2>1. Newer(s)' = new
      BY DEF Newer
    <2>2. /\ Stamps' \subseteq Time /\ Stamps \subseteq Nat /\ new \subseteq Time
          /\ \A T : T \subseteq new => Cardinality(T) <= Cardinality(new)
          /\ \A T : T \subseteq new => Cardinality(T) \in Nat
      <3>1. files' \subseteq FileType
        BY NextTypes DEF Types, TypeOK
      <3>2. Stamps' \subseteq Time
        BY <3>1 DEF Stamps, FileType
      <3>3. new \subseteq Time
        BY <3>2
      <3> HIDE DEF new
      <3> QED
        BY <3>2, <3>3, Moments, StampsCount DEF Types
    <2>3. ASSUME NEW T, T \subseteq new, Cardinality(T) >= MaxBackups
          PROVE  Doomed(s)'
      <3> HIDE DEF new
      <3>1. /\ Cardinality(T) <= Cardinality(new)
            /\ Cardinality(T) \in Nat /\ Cardinality(new) \in Nat
        BY <2>2, <2>3
      <3>2. Cardinality(new) >= MaxBackups
        BY <1>1, <2>3, <3>1
      <3> QED
        BY <2>1, <3>2 DEF Doomed
    <2>4. CASE Stamps \subseteq Stamps'
      <3>1. Newer(s) \subseteq new
        BY <2>4 DEF Newer
      <3> QED
        BY <1>3, <2>3, <3>1
    <2>5. ASSUME NEW c \in Cycle, NEW p \in cycles[c].remove, UNCHANGED clock,
                 Stamps' = Stamps \ {p[1]}
          PROVE  Doomed(s)'
      <3>1. p[1] \in Nat /\ Doomed(p[1])
        BY CycleFields, Moments DEF Listed
      <3>2. CASE ~(p[1] > s)
        <4>1. Newer(s) \subseteq new
          BY <2>5, <3>2 DEF Newer
        <4> QED
          BY <1>3, <2>3, <4>1
      <3>3. CASE p[1] > s /\ Expired(p[1])
        BY <1>1, <1>3, <3>1, <3>3 DEF Expired
      <3>4. CASE p[1] > s /\ Cardinality(Newer(p[1])) >= MaxBackups
        <4>1. Newer(p[1]) \subseteq new
          <5> SUFFICES ASSUME NEW t \in Stamps, t > p[1] PROVE t \in new
            BY DEF Newer
          <5>1. t \in Nat /\ t > s /\ t # p[1]
            BY <1>1, <2>2, <3>1, <3>4
          <5> QED
            BY <2>5, <5>1
        <4> QED
          BY <2>3, <3>4, <4>1
      <3> QED
        BY <3>1, <3>2, <3>3, <3>4 DEF Doomed
    <2> QED
      BY <2>4, <2>5, StampsNext
  <1> QED
    BY <1>2, <1>3 DEF Doomed

(* Every step keeps what is said of the lists: a set in one is doomed, and *)
(* nothing is newer than the present.                                      *)
LEMMA NextListed == Types /\ Listed /\ [Next]_vars => Listed'
  <1> SUFFICES ASSUME Types, Listed, [Next]_vars PROVE Listed'
    OBVIOUS
  <1>1. \A s \in Time : Doomed(s) => Doomed(s)'
    BY DoomedStays
  <1>2. \A c \in Cycle : cycles[c].remove \subseteq Time \X Db
    BY CycleFields
  <1>3. /\ \A f \in files : f.stamp <= clock
        /\ \A c \in Cycle : /\ cycles[c].stamp <= clock
                            /\ cycles[c].at # "clean" => cycles[c].remove = {}
                            /\ \A p \in cycles[c].remove : Doomed(p[1])
    BY DEF Listed
  <1>4. \A c \in Cycle : \A p \in cycles[c].remove : Doomed(p[1])'
    <2> SUFFICES ASSUME NEW c \in Cycle, NEW p \in cycles[c].remove PROVE Doomed(p[1])'
      OBVIOUS
    <2>1. p[1] \in Time
      BY <1>2
    <2> QED
      BY <1>1, <1>3, <2>1
  <1>5. \A f \in files' : f.stamp <= clock'
    <2>1. \A s \in Stamps : s <= clock
      BY <1>3 DEF Stamps
    <2>2. \A s \in Stamps' : s \in Stamps \/ \E c \in Cycle : s = cycles[c].stamp
      BY StampsNext
    <2>3. \A s \in Stamps' : s <= clock
      BY <1>3, <2>1, <2>2
    <2>4. clock \in Nat /\ clock' \in Nat /\ clock <= clock' /\ files' \subseteq FileType
      BY NextTypes, StampsNext, Moments DEF Types, TypeOK
    <2>5. \A f \in files' : f.stamp \in Stamps' /\ f.stamp \in Nat
      BY <2>4, Moments DEF Stamps, FileType
    <2> QED
      BY <2>3, <2>4, <2>5
  <1> DEFINE Kept(c) == /\ cycles'[c].stamp <= clock'
                        /\ cycles'[c].at # "clean" => cycles'[c].remove = {}
                        /\ \A p \in cycles'[c].remove : Doomed(p[1])'
  <1>6. \A c \in Cycle : cycles[c].stamp <= clock'
    <2>1. clock \in Nat /\ clock' \in Nat /\ clock <= clock'
      BY StampsNext, Moments DEF Types, TypeOK
    <2>2. \A c \in Cycle : cycles[c].stamp \in Nat
      <3>1. \A c \in Cycle : cycles[c].stamp \in {0} \cup Time
        BY CycleFields DEF File
      <3>2. {0} \cup Time \subseteq Nat
        BY Moments
      <3> QED
        BY <3>1, <3>2
    <2>3. \A n, a, b \in Nat : n <= a /\ a <= b => n <= b
      OBVIOUS
    <2> QED
      BY <1>3, <2>1, <2>2, <2>3
  <1>7. \A c \in Cycle : cycles'[c] \in {cycles[c], Idle} => Kept(c)
    <2>1. 0 <= clock'
      <3>1. clock' \in Nat
        BY StampsNext, Moments
      <3> QED
        BY <3>1
    <2> SUFFICES ASSUME NEW c \in Cycle, cycles'[c] \in {cycles[c], Idle}
                 PROVE  Kept(c)
      OBVIOUS
    <2>2. CASE cycles'[c] = cycles[c]
      BY <1>3, <1>4, <1>6, <2>2
    <2>3. CASE cycles'[c] = Idle
      BY <2>1, <2>3 DEF Idle
    <2> QED
      BY <2>2, <2>3
  <1>8. ASSUME NEW c \in Cycle, Works(c) PROVE \A d \in Cycle : Kept(d)
    <2>1. /\ cycles'[c].stamp = cycles[c].stamp /\ cycles'[c].remove = cycles[c].remove
          /\ cycles[c].at # "clean" /\ \A d \in Cycle \ {c} : cycles'[d] = cycles[d]
      BY <1>8, WorksOn DEF Making
    <2>2. Kept(c)
      BY <1>3, <1>6, <2>1
    <2> QED
      BY <1>7, <2>1, <2>2
  <1>9. ASSUME NEW c \in Cycle, Begin(c) PROVE \A d \in Cycle : Kept(d)
    <2>1. /\ cycles'[c].stamp = clock /\ cycles'[c].remove = {} /\ clock <= clock'
          /\ \A d \in Cycle \ {c} : cycles'[d] = cycles[d]
      BY <1>9, BeginsWith, StampsNext
    <2> QED
      BY <1>7, <2>1
  <1>10. ASSUME NEW c \in Cycle, List(c) \/ RemoveFile(c) PROVE \A d \in Cycle : Kept(d)
    <2>1. /\ cycles'[c].stamp = cycles[c].stamp /\ cycles'[c].at = "clean"
          /\ cycles'[c].remove \subseteq cycles[c].remove \cup Removable
          /\ \A d \in Cycle \ {c} : cycles'[d] = cycles[d]
      BY <1>10, CleansUp
    <2>2. \A p \in Removable : p[1] \in Time /\ Doomed(p[1])
      BY StampsCount DEF Removable, Excess, Doomed, Types
    <2>3. \A p \in Removable : Doomed(p[1])'
      <3> SUFFICES ASSUME NEW p \in Removable PROVE Doomed(p[1])'
        OBVIOUS
      <3>1. p[1] \in Time /\ Doomed(p[1])
        BY <2>2
      <3> QED
        BY <1>1, <3>1
    <2>4. Kept(c)
      BY <1>4, <1>6, <2>1, <2>3
    <2> QED
      BY <1>7, <2>1, <2>4
  <1>11. ASSUME \/ \E c \in Cycle : End(c) \/ LeaveEarly(c)
                \/ Cancel \/ Crash \/ Tick \/ RestoreStep \/ UNCHANGED vars
         PROVE  \A d \in Cycle : cycles'[d] \in {cycles[d], Idle}
    BY <1>11 DEF Types, End, LeaveEarly, Cancel, Crash, Tick, vars, RestoreStep, BeginRestore, RestoreFile,
                 FailRestore, EndRestore
  <1>12. \A d \in Cycle : Kept(d)
    BY <1>7, <1>8, <1>9, <1>10, <1>11 DEF Next, CycleStep, Works
  <1> QED
    BY <1>5, <1>12 DEF Listed

(* Every step keeps cycles apart that no second has brought together.      *)
LEMMA NextAlone == Types /\ Alone /\ [Next]_vars => Alone'
  <1> SUFFICES ASSUME Types, Alone, [Next]_vars, ~shared' PROVE Alone'
    BY DEF Alone
  <1>1. ASSUME NEW c \in Cycle, Begin(c) PROVE Alone'
    <2>1. /\ \A d \in Cycle : cycles[d].stamp # clock
          /\ cycles'[c].stamp = clock /\ ~shared
          /\ \A d \in Cycle \ {c} : cycles'[d] = cycles[d]
      BY <1>1, BeginsWith
    <2> QED
      BY <2>1 DEF Alone
  <1>2. ASSUME NEW c \in Cycle, Works(c) \/ List(c) \/ RemoveFile(c) PROVE Alone'
    <2>1. /\ cycles'[c].stamp = cycles[c].stamp /\ ~shared
          /\ \A d \in Cycle \ {c} : cycles'[d] = cycles[d]
          /\ cycles[c].at # "idle"
      BY <1>2, WorksOn, CleansUp DEF Making
    <2> QED
      BY <2>1 DEF Alone
  <1>3. ASSUME \/ \E c \in Cycle : End(c) \/ LeaveEarly(c)
               \/ Cancel \/ Crash \/ Tick \/ RestoreStep \/ UNCHANGED vars
        PROVE  Alone'
    <2>1. ~shared /\ \A d \in Cycle : cycles'[d] \in {cycles[d], Idle}
      BY <1>3 DEF Types, End, LeaveEarly, Cancel, Crash, Tick, vars, RestoreStep, BeginRestore, RestoreFile,
                  FailRestore, EndRestore
    <2>2. Idle.at = "idle"
      BY DEF Idle
    <2>3. \A d \in Cycle : cycles'[d].at # "idle" =>
             cycles'[d] = cycles[d] /\ cycles[d].at # "idle"
      BY <2>1, <2>2
    <2> QED
      BY <2>1, <2>3 DEF Alone
  <1> QED
    BY <1>1, <1>2, <1>3 DEF Next, CycleStep, Works

-----------------------------------------------------------------------------
(* Before nothing had failed and no two cycles had met, nothing had.       *)
LEMMA CalmBefore ==
  ASSUME Types, [Next]_vars
  PROVE  /\ shared => shared'
         /\ faults' = 0 => faults = 0 /\ ~Fault
         /\ crashes' = 0 => crashes = 0 /\ ~Cancel /\ ~Crash
                            /\ \A c \in Cycle : ~LeaveEarly(c)
  <1>1. faults \in Nat /\ crashes \in Nat
    BY BackupAssumption DEF Types, TypeOK
  <1>2. /\ faults' = 0 => ~Fault
        /\ crashes' = 0 => ~Cancel
    BY <1>1 DEF Fault, Cancel
  <1>3. ASSUME NEW c \in Cycle, CycleStep(c)
        PROVE  /\ shared => shared'
               /\ Fault \/ UNCHANGED faults
               /\ UNCHANGED crashes
    <2>1. CASE Works(c)
      BY <2>1, WorksOn
    <2>2. CASE Begin(c)
      BY <2>2 DEF Begin, bounds
    <2>3. CASE List(c)
      BY <2>3 DEF List, bounds
    <2>4. CASE RemoveFile(c)
      BY <2>4 DEF RemoveFile
    <2>5. CASE End(c) \/ LeaveEarly(c)
      BY <2>5 DEF End, LeaveEarly, bounds
    <2> QED
      BY <1>3, <2>1, <2>2, <2>3, <2>4, <2>5 DEF CycleStep, Works
  <1>4. ASSUME RestoreStep
        PROVE  UNCHANGED <<shared, crashes>> /\ (Fault \/ UNCHANGED faults)
    BY <1>4, RestoreTypes
  <1>5. ASSUME Tick \/ Cancel \/ Crash \/ UNCHANGED vars
        PROVE  /\ UNCHANGED <<shared, faults>>
               /\ crashes' = crashes \/ crashes' = crashes + 1
    BY <1>1, <1>2, <1>5 DEF Tick, Cancel, Crash, vars, bounds
  <1>6. /\ shared => shared'
        /\ faults' = 0 => faults = 0 /\ ~Fault
        /\ crashes' = 0 => crashes = 0
    BY <1>1, <1>2, <1>3, <1>4, <1>5 DEF Next
  <1>7. crashes = 0 => ~stopping
    BY DEF Types
  <1>8. crashes' = 0 => ~Crash /\ \A c \in Cycle : ~LeaveEarly(c)
    BY <1>1, <1>6, <1>7 DEF Crash, LeaveEarly, Cancelled
  <1> QED
    BY <1>2, <1>6, <1>8

(* What a cycle has made stays made while others leave its files alone, or *)
(* once it is doomed.                                                      *)
LEMMA MadeByKept ==
  ASSUME NEW c \in Cycle, NEW s \in Time, MadeBy(c, s), cycles'[c] = cycles[c],
         Doomed(s) => Doomed(s)',
         \A f \in files' : f.stamp = s => f \in files,
         Doomed(s) \/ \A f \in files : f.stamp = s => f \in files'
  PROVE  MadeBy(c, s)'
  <1>1. CASE Doomed(s)
    BY <1>1 DEF MadeBy
  <1>2. CASE ~Doomed(s)
    <2>1. \A f \in files : f.stamp = s => f \in files'
      BY <1>2
    <2>2. \A db : [stamp |-> s, db |-> db, holds |-> "whole"] \in files
                     => [stamp |-> s, db |-> db, holds |-> "whole"] \in files'
      <3> SUFFICES ASSUME NEW db, [stamp |-> s, db |-> db, holds |-> "whole"] \in files
                   PROVE  [stamp |-> s, db |-> db, holds |-> "whole"] \in files'
        OBVIOUS
      <3>1. [stamp |-> s, db |-> db, holds |-> "whole"].stamp = s
        OBVIOUS
      <3> QED
        BY <2>1, <3>1
    <2> QED
      BY <1>2, <2>1, <2>2 DEF MadeBy
  <1> QED
    BY <1>1, <1>2

(* What a cycle makes of its own set: an empty file, a vacuum of it, and   *)
(* a whole copy, unless a cleanup has taken the file away.                 *)
LEMMA MadeByOwn ==
  ASSUME Types, Alone, ~shared, NEW c \in Cycle, NEW s \in Time, cycles[c].stamp = s,
         MadeBy(c, s), Works(c), ~Fault, ~stopping, Doomed(s) => Doomed(s)'
  PROVE  MadeBy(c, s)'
  <1> DEFINE y == cycles[c]
             Whole(db) == [stamp |-> s, db |-> db, holds |-> "whole"]
  <1>1. /\ cycles \in [Cycle -> File] /\ y \in File /\ y.todo \subseteq Db /\ y.stamp = s
        /\ y.at \in {"created", "vacuuming", "copying"} => y.db \in Db
    BY CycleFields DEF Types
  <1>2. /\ y.at # "copying"
        /\ y.at # "loop" => y.db \notin y.todo
        /\ \A f \in files : f.stamp = s =>
              /\ f.db \notin y.todo
              /\ y.at = "created" /\ f.db = y.db => f.holds = "empty"
              /\ y.at = "vacuuming" /\ f.db = y.db => f.holds = "partial"
    BY DEF MadeBy
  <1>3. ~Doomed(s)' =>
           \A db \in Db \ y.todo :
               IF y.at # "loop" /\ db = y.db
               THEN \E f \in files : f.stamp = s /\ f.db = db
               ELSE Whole(db) \in files
    BY DEF MadeBy
  <1>4. \A db : Whole(db).stamp = s /\ Whole(db).db = db /\ Whole(db).holds = "whole"
    OBVIOUS
  <1> HIDE DEF Whole
  <1>5. ASSUME NEW db \in Db, NEW what, Holds(c, db, what)
        PROVE  \E new : /\ new.stamp = s /\ new.db = db /\ new.holds = what
                        /\ what = "whole" => new = Whole(db)
                        /\ new \in files'
                        /\ \A f \in files' : f = new \/ (f \in files /\ ~(f.stamp = s /\ f.db = db))
                        /\ \A f \in files : f.stamp # s \/ f.db # db => f \in files'
    <2> DEFINE new == [stamp |-> s, db |-> db, holds |-> what]
    <2>1. new.stamp = s /\ new.db = db /\ new.holds = what
      OBVIOUS
    <2>2. what = "whole" => new = Whole(db)
      BY DEF Whole
    <2>3. files' = {f \in files : f.stamp # s \/ f.db # db} \cup {new}
      BY <1>1, <1>5 DEF Holds
    <2> HIDE DEF new
    <2> QED
      BY <2>1, <2>2, <2>3
  <1>6. CASE CreateFile(c)
    <2>1. PICK db \in First(c) :
             /\ Holds(c, db, "empty") /\ y.at = "loop"
             /\ cycles' = [cycles EXCEPT ![c] = [y EXCEPT !.at = "created", !.db = db,
                                                          !.todo = y.todo \ {db}]]
      BY <1>6 DEF CreateFile
    <2>2. db \in Db /\ db \in y.todo
      BY <1>1 DEF First
    <2>3. cycles'[c] = [y EXCEPT !.at = "created", !.db = db, !.todo = y.todo \ {db}]
      BY <1>1, <2>1
    <2>4. /\ cycles'[c].at = "created" /\ cycles'[c].db = db
          /\ cycles'[c].todo = y.todo \ {db}
      BY <1>1, <2>3 DEF File
    <2>5. PICK new : /\ new.stamp = s /\ new.db = db /\ new.holds = "empty" /\ new \in files'
                     /\ \A f \in files' : f = new \/ (f \in files /\ ~(f.stamp = s /\ f.db = db))
                     /\ \A f \in files : f.stamp # s \/ f.db # db => f \in files'
      BY <1>5, <2>1, <2>2
    <2>6. \A f \in files' : f.stamp = s =>
              f.db \notin y.todo \ {db} /\ (f.db = db => f.holds = "empty")
      BY <1>2, <2>2, <2>5
    <2>7. ~Doomed(s)' =>
             \A b \in Db \ (y.todo \ {db}) :
                 IF b = db THEN \E f \in files' : f.stamp = s /\ f.db = b
                 ELSE Whole(b) \in files'
      BY <1>3, <1>4, <2>1, <2>5
    <2> QED
      BY <2>4, <2>6, <2>7 DEF MadeBy, Whole
  <1>7. CASE Vacuum(c)
    <2>1. /\ Holds(c, y.db, "partial") /\ y.at = "created"
          /\ cycles' = [cycles EXCEPT ![c] = [y EXCEPT !.at = "vacuuming"]]
      BY <1>7 DEF Vacuum, GoTo
    <2>2. cycles'[c] = [y EXCEPT !.at = "vacuuming"]
      BY <1>1, <2>1
    <2>3. cycles'[c].at = "vacuuming" /\ cycles'[c].db = y.db /\ cycles'[c].todo = y.todo
      BY <1>1, <2>2 DEF File
    <2>4. PICK new : /\ new.stamp = s /\ new.db = y.db /\ new.holds = "partial" /\ new \in files'
                     /\ \A f \in files' :
                           f = new \/ (f \in files /\ ~(f.stamp = s /\ f.db = y.db))
                     /\ \A f \in files : f.stamp # s \/ f.db # y.db => f \in files'
      BY <1>1, <1>5, <2>1
    <2>5. \A f \in files' : f.stamp = s =>
              f.db \notin y.todo /\ (f.db = y.db => f.holds = "partial")
      BY <1>2, <2>1, <2>4
    <2>6. ~Doomed(s)' =>
             \A b \in Db \ y.todo :
                 IF b = y.db THEN \E f \in files' : f.stamp = s /\ f.db = b
                 ELSE Whole(b) \in files'
      BY <1>3, <1>4, <2>1, <2>4
    <2> QED
      BY <1>2, <2>1, <2>3, <2>5, <2>6 DEF MadeBy, Whole
  <1>8. CASE FinishVacuum(c)
    <2>1. /\ y.at = "vacuuming"
          /\ IF Of(c) = {} THEN UNCHANGED files
             ELSE Holds(c, y.db, IF \E f \in Of(c) : f.holds = "partial" THEN "whole"
                                                                       ELSE "partial")
          /\ cycles' = [cycles EXCEPT ![c] = [y EXCEPT !.at = "loop", !.db = 0]]
      BY <1>8 DEF FinishVacuum, NextFile
    <2>2. cycles'[c] = [y EXCEPT !.at = "loop", !.db = 0]
      BY <1>1, <2>1
    <2>3. cycles'[c].at = "loop" /\ cycles'[c].todo = y.todo
      BY <1>1, <2>2 DEF File
    <2>4. CASE Of(c) = {}
      <3>1. ~\E f \in files : f.stamp = s /\ f.db = y.db
        BY <1>1, <2>4 DEF Of
      <3>2. Doomed(s)'
        BY <1>1, <1>2, <1>3, <2>1, <3>1
      <3>3. files' = files
        BY <2>1, <2>4
      <3> QED
        BY <1>2, <2>3, <3>2, <3>3 DEF MadeBy
    <2>5. CASE Of(c) # {}
      <3>1. \E f \in Of(c) : f.holds = "partial"
        BY <1>1, <1>2, <2>1, <2>5 DEF Of
      <3>2. Holds(c, y.db, "whole")
        BY <2>1, <2>5, <3>1
      <3>3. PICK new : /\ new.stamp = s /\ new.db = y.db /\ new = Whole(y.db) /\ new \in files'
                       /\ \A f \in files' :
                             f = new \/ (f \in files /\ ~(f.stamp = s /\ f.db = y.db))
                       /\ \A f \in files : f.stamp # s \/ f.db # y.db => f \in files'
        BY <1>1, <1>5, <2>1, <3>2
      <3>4. \A f \in files' : f.stamp = s => f.db \notin y.todo
        BY <1>2, <2>1, <3>3
      <3>5. ~Doomed(s)' => \A b \in Db \ y.todo : Whole(b) \in files'
        BY <1>3, <1>4, <2>1, <3>3
      <3> QED
        BY <2>3, <3>4, <3>5 DEF MadeBy, Whole
    <2> QED
      BY <2>4, <2>5
  <1>9. ~FailCreate(c) /\ ~FailCopy(c) /\ ~CopyFile(c)
    BY <1>2 DEF FailCreate, FailCopy, CopyFile
  <1>10. ~FailVacuum(c)
    <2>1. ASSUME y.at = "created" PROVE Ready(c)
      <3>1. \A f \in Of(c) : f.holds = "empty"
        BY <1>1, <1>2, <2>1 DEF Of
      <3>2. \A d \in Cycle : cycles[d].at = "vacuuming" => cycles[d].stamp # y.stamp
        BY <2>1 DEF Alone
      <3> QED
        BY <3>1, <3>2 DEF Ready, Cancelled
    <2> QED
      BY <2>1 DEF FailVacuum, Cancelled
  <1> QED
    BY <1>6, <1>7, <1>8, <1>9, <1>10 DEF Works

(* A set stays settled while its files, its cycle and the lists stay.      *)
LEMMA SettledKept ==
  ASSUME NEW s \in Time, Settled(s),
         \A f : f.stamp = s => (f \in files' <=> f \in files),
         \A c \in Cycle : Making(c) /\ cycles[c].stamp = s =>
              Making(c)' /\ cycles'[c].stamp = s,
         \A c \in Cycle : cycles'[c].remove = cycles[c].remove
  PROVE  Settled(s)'
  <1>1. CASE \E c \in Cycle : Making(c) /\ cycles[c].stamp = s
    BY <1>1 DEF Settled
  <1>2. CASE Complete(s) /\ Untouched(s)
    <2>1. \A db \in Db : [stamp |-> s, db |-> db, holds |-> "whole"].stamp = s
      OBVIOUS
    <2>2. Complete(s)' /\ Untouched(s)'
      BY <1>2, <2>1 DEF Complete, Untouched
    <2> QED
      BY <2>2 DEF Settled
  <1>3. CASE \E c \in Cycle : Covers(c, s)
    BY <1>3 DEF Settled, Covers
  <1> QED
    BY <1>1, <1>2, <1>3 DEF Settled

(* The cycles that make sets and what they have made, step by step.        *)
LEMMA NextMadeBy ==
  ASSUME Types, Listed, Alone, Made, [Next]_vars, ~shared', Calm',
         NEW c \in Cycle, NEW s \in Time, Making(c)', cycles'[c].stamp = s
  PROVE  MadeBy(c, s)'
  <1>1. ~shared /\ Calm /\ ~Fault /\ ~Cancel /\ ~Crash
        /\ ~stopping /\ \A d \in Cycle : ~LeaveEarly(d)
    BY CalmBefore DEF Calm, Types
  <1>2. /\ \A d \in Cycle, t \in Time : Making(d) /\ cycles[d].stamp = t => MadeBy(d, t)
        /\ Doomed(s) => Doomed(s)'
    BY <1>1, DoomedStays DEF Made
  <1>3. ASSUME NEW d \in Cycle, Works(d) PROVE MadeBy(c, s)'
    <2>1. CASE d = c
      <3>1. Making(c) /\ cycles[c].stamp = s
        BY <1>3, <2>1, WorksOn
      <3> QED
        BY <1>1, <1>2, <1>3, <2>1, <3>1, MadeByOwn
    <2>2. CASE d # c
      <3>1. /\ Making(d) /\ cycles'[c] = cycles[c]
            /\ UNCHANGED files \/ \E db \in Db, what \in {"empty", "partial", "whole"} :
                                     Holds(d, db, what)
        BY <1>3, <2>2, WorksOn
      <3>2. Making(c) /\ cycles[c].stamp = s
        BY <3>1 DEF Making
      <3>3. cycles[d].stamp # s
        BY <1>1, <2>2, <3>1, <3>2 DEF Alone, Making
      <3>4. \A f : f.stamp = s => (f \in files' <=> f \in files)
        <4>1. CASE UNCHANGED files
          BY <4>1
        <4>2. ASSUME NEW db \in Db, NEW what, Holds(d, db, what)
              PROVE  \A f : f.stamp = s => (f \in files' <=> f \in files)
          <5>1. [stamp |-> cycles[d].stamp, db |-> db, holds |-> what].stamp # s
            BY <3>3
          <5> QED
            BY <3>3, <4>2, <5>1 DEF Holds
        <4> QED
          BY <3>1, <4>1, <4>2
      <3>5. MadeBy(c, s)
        BY <1>2, <3>2
      <3> QED
        BY <1>2, <3>1, <3>4, <3>5, MadeByKept
    <2> QED
      BY <2>1, <2>2
  <1>4. ASSUME NEW d \in Cycle, Begin(d) PROVE MadeBy(c, s)'
    <2>1. /\ cycles'[d].at = "loop" /\ cycles'[d].stamp = clock /\ cycles'[d].todo = Db
          /\ \A e \in Cycle \ {d} : cycles'[e] = cycles[e]
          /\ UNCHANGED files /\ clock \notin Stamps
      BY <1>4, BeginsWith
    <2>2. CASE d = c
      BY <2>1, <2>2 DEF MadeBy, Stamps
    <2>3. CASE d # c
      <3>1. cycles'[c] = cycles[c] /\ Making(c) /\ cycles[c].stamp = s
        BY <2>1, <2>3 DEF Making
      <3>2. MadeBy(c, s)
        BY <1>2, <3>1
      <3> QED
        BY <1>2, <2>1, <3>1, <3>2, MadeByKept
    <2> QED
      BY <2>2, <2>3
  <1>5. ASSUME NEW d \in Cycle, List(d) \/ RemoveFile(d) PROVE MadeBy(c, s)'
    <2>1. /\ cycles'[d].at = "clean" /\ \A e \in Cycle \ {d} : cycles'[e] = cycles[e]
          /\ UNCHANGED files \/ \E p \in cycles[d].remove :
                                   files' = {f \in files : <<f.stamp, f.db>> # p}
      BY <1>1, <1>5, CleansUp
    <2>2. c # d
      BY <2>1 DEF Making
    <2>3. cycles'[c] = cycles[c] /\ Making(c) /\ cycles[c].stamp = s
      BY <2>1, <2>2 DEF Making
    <2>4. MadeBy(c, s)
      BY <1>2, <2>3
    <2>5. CASE UNCHANGED files
      BY <1>2, <2>3, <2>4, <2>5, MadeByKept
    <2>6. ASSUME NEW p \in cycles[d].remove, files' = {f \in files : <<f.stamp, f.db>> # p}
          PROVE  MadeBy(c, s)'
      <3>1. Doomed(p[1])
        BY DEF Listed
      <3>2. p[1] = s => Doomed(s)
        BY <3>1
      <3>3. Doomed(s) \/ \A f \in files : f.stamp = s => f \in files'
        BY <2>6, <3>2
      <3>4. \A f \in files' : f \in files
        BY <2>6
      <3> QED
        BY <1>2, <2>3, <2>4, <3>3, <3>4, MadeByKept
    <2> QED
      BY <2>1, <2>5, <2>6
  <1>6. ASSUME \/ \E d \in Cycle : End(d) \/ LeaveEarly(d)
               \/ Tick \/ RestoreStep \/ UNCHANGED vars
        PROVE  MadeBy(c, s)'
    <2>1. UNCHANGED files /\ cycles'[c] \in {cycles[c], Idle}
      BY <1>6 DEF Types, End, LeaveEarly, Tick, vars, RestoreStep, BeginRestore,
                  RestoreFile, FailRestore, EndRestore
    <2>2. cycles'[c] = cycles[c] /\ Making(c) /\ cycles[c].stamp = s
      BY <2>1 DEF Making, Idle
    <2>3. MadeBy(c, s)
      BY <1>2, <2>2
    <2> QED
      BY <1>2, <2>1, <2>2, <2>3, MadeByKept
  <1> QED
    BY <1>1, <1>3, <1>4, <1>5, <1>6 DEF Next, CycleStep, Works

(* A set is made, and then complete or removed by the cycle that listed    *)
(* all that was left of it.                                                *)
LEMMA NextSettled ==
  ASSUME Types, Listed, Alone, Made, [Next]_vars, ~shared', Calm', NEW s \in Stamps'
  PROVE  Settled(s)'
  <1>1. ~shared /\ Calm /\ ~Fault /\ ~Cancel /\ ~Crash
        /\ ~stopping /\ \A d \in Cycle : ~LeaveEarly(d)
    BY CalmBefore DEF Calm, Types
  <1>2. /\ \A t \in Stamps : Settled(t)
        /\ \A d \in Cycle, t \in Time : Making(d) /\ cycles[d].stamp = t => MadeBy(d, t)
    BY <1>1 DEF Made
  <1>3. s \in Time
    <2>1. files' \subseteq FileType
      BY NextTypes DEF Types, TypeOK
    <2> QED
      BY <2>1 DEF Stamps, FileType
  <1>4. PICK g \in files' : g.stamp = s
    BY DEF Stamps
  <1>5. ASSUME NEW d \in Cycle, Works(d) PROVE Settled(s)'
    <2>1. /\ Making(d) /\ Making(d)' /\ cycles'[d].stamp = cycles[d].stamp
          /\ cycles'[d].remove = cycles[d].remove
          /\ \A e \in Cycle \ {d} : cycles'[e] = cycles[e]
          /\ UNCHANGED files \/ \E db \in Db, what \in {"empty", "partial", "whole"} :
                                   Holds(d, db, what)
      BY <1>5, WorksOn
    <2>2. CASE cycles[d].stamp = s
      BY <2>1, <2>2 DEF Settled
    <2>3. CASE cycles[d].stamp # s
      <3>1. \A f : f.stamp = s => (f \in files' <=> f \in files)
        <4>1. CASE UNCHANGED files
          BY <4>1
        <4>2. ASSUME NEW db \in Db, NEW what, Holds(d, db, what)
              PROVE  \A f : f.stamp = s => (f \in files' <=> f \in files)
          <5>1. [stamp |-> cycles[d].stamp, db |-> db, holds |-> what].stamp # s
            BY <2>3
          <5> QED
            BY <2>3, <4>2, <5>1 DEF Holds
        <4> QED
          BY <2>1, <4>1, <4>2
      <3>2. s \in Stamps
        BY <1>4, <3>1 DEF Stamps
      <3>3. /\ \A e \in Cycle : cycles'[e].remove = cycles[e].remove
            /\ \A e \in Cycle : Making(e) /\ cycles[e].stamp = s =>
                  Making(e)' /\ cycles'[e].stamp = s
        BY <2>1, <2>3 DEF Making
      <3> QED
        BY <1>2, <1>3, <3>1, <3>2, <3>3, SettledKept
    <2> QED
      BY <2>2, <2>3
  <1>6. ASSUME UNCHANGED files,
               \A e \in Cycle : /\ cycles'[e].remove = cycles[e].remove
                                /\ Making(e) => Making(e)' /\ cycles'[e].stamp = cycles[e].stamp
        PROVE  Settled(s)'
    <2>1. s \in Stamps
      BY <1>4, <1>6 DEF Stamps
    <2> QED
      BY <1>2, <1>3, <1>6, <2>1, SettledKept
  <1>7. ASSUME NEW d \in Cycle, Begin(d) PROVE Settled(s)'
    <2>1. /\ cycles[d].at = "idle" /\ cycles[d].remove = {} /\ cycles'[d].remove = {}
          /\ \A e \in Cycle \ {d} : cycles'[e] = cycles[e]
          /\ UNCHANGED files
      BY <1>7, BeginsWith DEF Idle
    <2> QED
      BY <1>6, <2>1 DEF Making
  <1>8. ASSUME NEW d \in Cycle, End(d) PROVE Settled(s)'
    <2>1. /\ cycles[d].at = "clean" /\ cycles[d].remove = {} /\ cycles'[d].remove = {}
          /\ \A e \in Cycle \ {d} : cycles'[e] = cycles[e]
          /\ UNCHANGED files
      BY <1>8 DEF End, Idle, Types
    <2> QED
      BY <1>6, <2>1 DEF Making
  <1>9. ASSUME Tick \/ RestoreStep \/ UNCHANGED vars PROVE Settled(s)'
    <2>1. UNCHANGED <<files, cycles>>
      BY <1>9 DEF Tick, vars, RestoreStep, BeginRestore, RestoreFile, FailRestore, EndRestore
    <2> QED
      BY <1>6, <2>1 DEF Making
  <1>10. ASSUME NEW d \in Cycle, List(d) PROVE Settled(s)'
    <2>1. /\ cycles[d].at = "loop" /\ cycles[d].todo = {} /\ UNCHANGED files
          /\ cycles'[d].at = "clean" /\ cycles'[d].remove = Removable
          /\ \A e \in Cycle \ {d} : cycles'[e] = cycles[e]
      BY <1>10, CleansUp
    <2>2. s \in Stamps /\ cycles[d].remove = {}
      BY <1>4, <2>1 DEF Stamps, Listed
    <2>3. CASE s \in Excess
      <3>1. \A f \in files : f.stamp = s => <<s, f.db>> \in Removable
        BY <2>3 DEF Removable
      <3>2. Covers(d, s)'
        BY <2>1, <3>1 DEF Covers
      <3> QED
        BY <3>2 DEF Settled
    <2>4. CASE s \notin Excess
      <3>1. ~Doomed(s)
        BY <2>2, <2>4 DEF Excess, Doomed
      <3>2. Untouched(s)'
        <4>1. \A p \in Removable : p[1] # s
          BY <2>4 DEF Removable
        <4>2. \A e \in Cycle : \A p \in cycles[e].remove : p[1] # s
          BY <3>1 DEF Listed
        <4> QED
          BY <2>1, <4>1, <4>2 DEF Untouched
      <3>3. CASE \E e \in Cycle : Making(e) /\ cycles[e].stamp = s
        <4>1. PICK e \in Cycle : Making(e) /\ cycles[e].stamp = s
          BY <3>3
        <4>2. CASE e = d
          <5>1. MadeBy(d, s)
            BY <1>2, <1>3, <4>1, <4>2
          <5>2. \A db \in Db : [stamp |-> s, db |-> db, holds |-> "whole"] \in files
            BY <2>1, <3>1, <5>1 DEF MadeBy
          <5>3. Complete(s)'
            BY <2>1, <5>2 DEF Complete
          <5> QED
            BY <3>2, <5>3 DEF Settled
        <4>3. CASE e # d
          <5>1. Making(e)' /\ cycles'[e].stamp = s
            BY <2>1, <4>1, <4>3 DEF Making
          <5> QED
            BY <5>1 DEF Settled
        <4> QED
          BY <4>2, <4>3
      <3>4. CASE Complete(s)
        <4>1. Complete(s)'
          BY <2>1, <3>4 DEF Complete
        <4> QED
          BY <3>2, <4>1 DEF Settled
      <3>5. ~\E e \in Cycle : Covers(e, s)
        <4> SUFFICES ASSUME NEW e \in Cycle, Covers(e, s) PROVE FALSE
          OBVIOUS
        <4>1. <<s, g.db>> \in cycles[e].remove /\ <<s, g.db>>[1] = s
          BY <1>4, <2>1 DEF Covers
        <4> QED
          BY <3>1, <4>1 DEF Listed
      <3> QED
        BY <1>2, <2>2, <3>3, <3>4, <3>5 DEF Settled
    <2> QED
      BY <2>3, <2>4
  <1>11. ASSUME NEW d \in Cycle, RemoveFile(d) PROVE Settled(s)'
    <2>1. PICK p \in cycles[d].remove :
             /\ cycles[d].at = "clean" /\ cycles'[d].remove = cycles[d].remove \ {p}
             /\ files' = {f \in files : <<f.stamp, f.db>> # p}
      BY <1>1, <1>11, CleansUp
    <2>2. cycles'[d].at = "clean" /\ \A e \in Cycle \ {d} : cycles'[e] = cycles[e]
      BY <1>11, CleansUp
    <2>3. s \in Stamps /\ p = <<p[1], p[2]>>
      BY <1>4, <2>1, CycleFields DEF Stamps
    <2>4. CASE \E e \in Cycle : Making(e) /\ cycles[e].stamp = s
      BY <2>1, <2>2, <2>4 DEF Settled, Making
    <2>5. ASSUME NEW e \in Cycle, Covers(e, s) PROVE Settled(s)'
      <3>1. \A f \in files' : f \in files /\ <<f.stamp, f.db>> # p
        BY <2>1
      <3>2. cycles[e].remove \ {p} \subseteq cycles'[e].remove
        BY <2>1, <2>2
      <3>3. Covers(e, s)'
        BY <2>5, <3>1, <3>2 DEF Covers
      <3> QED
        BY <3>3 DEF Settled
    <2>6. CASE Complete(s) /\ Untouched(s)
      <3>1. p[1] # s
        BY <2>6 DEF Untouched
      <3>2. \A f \in files : f.stamp = s => f \in files'
        BY <2>1, <2>3, <3>1
      <3>3. Complete(s)'
        <4>1. \A db \in Db : [stamp |-> s, db |-> db, holds |-> "whole"].stamp = s
          OBVIOUS
        <4> QED
          BY <2>6, <3>2, <4>1 DEF Complete
      <3>4. Untouched(s)'
        BY <2>1, <2>2, <2>6 DEF Untouched
      <3> QED
        BY <3>3, <3>4 DEF Settled
    <2> QED
      BY <1>2, <2>3, <2>4, <2>5, <2>6 DEF Settled
  <1> QED
    BY <1>1, <1>5, <1>7, <1>8, <1>9, <1>10, <1>11 DEF Next, CycleStep, Works

(* What cycles make stays as it should, unless something fails or two of   *)
(* them meet.                                                              *)
LEMMA NextMade == Types /\ Listed /\ Alone /\ Made /\ [Next]_vars => Made'
  <1> SUFFICES ASSUME Types, Listed, Alone, Made, [Next]_vars, ~shared', Calm'
               PROVE  /\ \A c \in Cycle, s \in Time :
                            (Making(c) /\ cycles[c].stamp = s)' => MadeBy(c, s)'
                      /\ \A s \in Stamps' : Settled(s)'
    BY DEF Made
  <1> QED
    BY NextMadeBy, NextSettled

-----------------------------------------------------------------------------
(* The set of the present second is not too old.                           *)
LEMMA DoomedIsPast ==
  ASSUME Types, Listed, NEW s \in Time, Doomed(s)
  PROVE  s < clock
  <1>1. clock \in Nat /\ s \in Nat /\ Retention \in Nat /\ MaxBackups \in Nat \ {0}
    BY Moments, StampsCount, BackupAssumption DEF Types
  <1>2. CASE Expired(s)
    <2>1. \A a, b, r \in Nat : a - b > r => b < a
      OBVIOUS
    <2> QED
      BY <1>1, <1>2, <2>1 DEF Expired
  <1>3. CASE Cardinality(Newer(s)) >= MaxBackups
    <2>1. Newer(s) # {}
      BY <1>1, <1>3, FS_EmptySet
    <2>2. PICK t \in Stamps : t > s
      BY <2>1 DEF Newer
    <2>3. t \in Nat /\ t <= clock
      BY Moments, StampsCount DEF Types, Listed, Stamps
    <2> QED
      BY <1>1, <2>2, <2>3
  <1> QED
    BY <1>2, <1>3 DEF Doomed

(* Restore begins with a set that nobody writes any more, if it is         *)
(* complete and nothing has failed.                                        *)
LEMMA RestoreBegins ==
  ASSUME Types, Made, BeginRestore, restore'.whole, ~shared
  PROVE  Restoring'
  <1>1. PICK s \in Stamps :
           restore' = [at |-> "copying", stamp |-> s,
                       todo |-> {f.db : f \in {g \in files : g.stamp = s}},
                       got |-> {}, whole |-> Complete(s)]
    BY DEF BeginRestore
  <1> DEFINE Whole(db) == [stamp |-> s, db |-> db, holds |-> "whole"]
  <1>2. /\ restore'.stamp = s /\ restore'.got = {}
        /\ restore'.todo = {f.db : f \in {g \in files : g.stamp = s}}
        /\ Calm /\ UNCHANGED <<clock, files, cycles, shared>>
    BY <1>1 DEF BeginRestore
  <1>3. \A db \in Db : Whole(db) \in files
    BY <1>1 DEF Complete
  <1>4. \A db : Whole(db).stamp = s /\ Whole(db).db = db /\ Whole(db).holds = "whole"
    OBVIOUS
  <1>5. /\ \A f \in files : f.db \in Db /\ f.stamp \in Time
        /\ \A f, h \in files : f.stamp = h.stamp /\ f.db = h.db => f = h
    BY DEF Types, TypeOK, FileType
  <1>6. \A f \in files : f.stamp = s => f = Whole(f.db)
    BY <1>3, <1>4, <1>5
  <1> HIDE DEF Whole
  <1>7. restore'.todo = Db
    BY <1>2, <1>3, <1>4, <1>5
  <1>8. ASSUME NEW c \in Cycle, Making(c), cycles[c].stamp = s
        PROVE  cycles[c].at = "loop" /\ cycles[c].todo = {}
    <2>1. MadeBy(c, s) /\ cycles[c].todo \subseteq Db
      BY <1>2, <1>8, CycleFields DEF Made, Making
    <2>2. cycles[c].todo = {}
      BY <1>3, <1>4, <2>1 DEF MadeBy
    <2>3. cycles[c].at \in {"created", "vacuuming"} => cycles[c].db \in Db
      BY CycleFields
    <2>4. cycles[c].at \notin {"created", "vacuuming"}
      BY <1>3, <1>4, <2>1, <2>3 DEF MadeBy
    <2> QED
      BY <1>8, <2>1, <2>2, <2>4 DEF MadeBy, Making
  <1>9. \A f \in files' : f.stamp = s => f.holds = "whole"
    BY <1>2, <1>4, <1>6
  <1>10. s \in Stamps'
    BY <1>2 DEF Stamps
  <1> QED
    BY <1>2, <1>7, <1>8, <1>9, <1>10 DEF Restoring, Making

(* Restore goes on with the next database, and copies it whole.            *)
LEMMA RestoreGoesOn ==
  ASSUME Types, Restoring, RestoreFile, restore'.whole, ~shared
  PROVE  Restoring'
  <1> DEFINE copied == {[db |-> f.db, holds |-> f.holds] : f \in Source}
             Copy(db) == [db |-> db, holds |-> "whole"]
  <1>1. /\ restore.todo # {} /\ Source # {}
        /\ restore' = [restore EXCEPT !.todo = restore.todo \ NextDb,
                                      !.got = restore.got \cup copied]
        /\ UNCHANGED <<clock, files, cycles, shared>>
    BY DEF RestoreFile
  <1>2. restore \in [at : {"copying"}, stamp : Time, todo : SUBSET Db, whole : BOOLEAN,
                     got : SUBSET [db : Db, holds : {"empty", "partial", "whole"}]]
    BY <1>1 DEF Types, TypeOK, NoRestore
  <1>3. /\ restore'.stamp = restore.stamp /\ restore'.todo = restore.todo \ NextDb
        /\ restore'.got = restore.got \cup copied
        /\ restore'.whole = restore.whole /\ restore.at = "copying"
        /\ restore.todo \subseteq Db
    BY <1>1, <1>2
  <1>4. /\ restore.got = {Copy(db) : db \in Db \ restore.todo}
        /\ \A f \in files : f.stamp = restore.stamp => f.holds = "whole"
        /\ \A c \in Cycle : Making(c) /\ cycles[c].stamp = restore.stamp =>
              cycles[c].at = "loop" /\ cycles[c].todo = {}
        /\ restore.stamp \in Stamps \/ restore.stamp < clock
    BY <1>3 DEF Restoring
  <1>5. PICK h \in Source : TRUE
    BY <1>1
  <1>6. NextDb = {h.db}
    <2>1. h.db \in NextDb
      BY DEF Source
    <2>2. \A db, d \in NextDb : db <= d /\ d <= db /\ db \in Nat /\ d \in Nat
      BY <1>3, BackupAssumption DEF NextDb
    <2>3. \A db, d \in NextDb : db = d
      BY <2>2
    <2> QED
      BY <2>1, <2>3
  <1>7. h.db \in restore.todo
    BY <1>6 DEF NextDb
  <1>8. copied = {Copy(h.db)}
    <2>1. \A f \in Source : f.db = h.db /\ f.holds = "whole"
      BY <1>4, <1>6 DEF Source
    <2> QED
      BY <1>5, <2>1
  <1> HIDE DEF copied, Copy
  <1>9. restore'.got = {Copy(db) : db \in Db \ restore'.todo}
    BY <1>3, <1>4, <1>6, <1>7, <1>8
  <1> QED
    BY <1>1, <1>3, <1>4, <1>9 DEF Restoring, Copy, Making, Stamps

(* While Restore copies a set that was complete, other steps take files    *)
(* from it but add none.                                                   *)
LEMMA RestoreKept ==
  ASSUME Types, Listed, Restoring, [Next]_vars, UNCHANGED restore,
         restore.at = "copying", restore.whole, ~shared'
  PROVE  Restoring'
  <1> DEFINE s == restore.stamp
  <1>1. s \in Time /\ restore # NoRestore
    BY DEF Types, TypeOK, NoRestore
  <1>2. /\ ~shared
        /\ restore.got = {[db |-> db, holds |-> "whole"] : db \in Db \ restore.todo}
        /\ \A f \in files : f.stamp = s => f.holds = "whole"
        /\ \A c \in Cycle : Making(c) /\ cycles[c].stamp = s =>
              cycles[c].at = "loop" /\ cycles[c].todo = {}
        /\ s \in Stamps \/ s < clock
    BY CalmBefore DEF Restoring
  <1> DEFINE Result ==
        /\ \A f \in files' : f.stamp = s => f \in files
        /\ \A c \in Cycle : Making(c)' /\ cycles'[c].stamp = s =>
              cycles'[c].at = "loop" /\ cycles'[c].todo = {}
        /\ s \in Stamps' \/ s < clock'
  <1>3. clock \in Nat /\ s \in Nat
    BY <1>1, Moments, StampsCount DEF Types
  <1>4. ASSUME NEW d \in Cycle, Works(d) PROVE Result
    <2>1. /\ Making(d) /\ Making(d)' /\ cycles'[d].stamp = cycles[d].stamp
          /\ \A e \in Cycle \ {d} : cycles'[e] = cycles[e]
          /\ UNCHANGED clock
          /\ UNCHANGED files \/ \E db \in Db, what \in {"empty", "partial", "whole"} :
                                   Holds(d, db, what)
      BY <1>4, WorksOn
    <2>2. cycles[d].stamp # s
      <3>1. ~(cycles[d].at = "loop" /\ cycles[d].todo = {})
        BY <1>4 DEF Works, CreateFile, FailCreate, Vacuum, FinishVacuum, FailVacuum,
                    CopyFile, FailCopy, First
      <3> QED
        BY <1>2, <2>1, <3>1
    <2>3. \A f : f.stamp = s => (f \in files' <=> f \in files)
      <3>1. CASE UNCHANGED files
        BY <3>1
      <3>2. ASSUME NEW db \in Db, NEW what, Holds(d, db, what)
            PROVE  \A f : f.stamp = s => (f \in files' <=> f \in files)
        <4>1. [stamp |-> cycles[d].stamp, db |-> db, holds |-> what].stamp # s
          BY <2>2
        <4> QED
          BY <2>2, <3>2, <4>1 DEF Holds
      <3> QED
        BY <2>1, <3>1, <3>2
    <2>4. s \in Stamps => s \in Stamps'
      BY <2>3 DEF Stamps
    <2> QED
      BY <1>2, <2>1, <2>2, <2>3, <2>4 DEF Making
  <1>5. ASSUME NEW d \in Cycle, Begin(d) PROVE Result
    <2>1. /\ cycles'[d].stamp = clock /\ UNCHANGED <<clock, files>> /\ clock \notin Stamps
          /\ \A e \in Cycle \ {d} : cycles'[e] = cycles[e]
      BY <1>5, BeginsWith
    <2>2. clock # s
      BY <1>2, <1>3, <2>1
    <2>3. Stamps' = Stamps
      BY <2>1 DEF Stamps
    <2> QED
      BY <1>2, <2>1, <2>2, <2>3 DEF Making
  <1>6. ASSUME NEW d \in Cycle, List(d) \/ RemoveFile(d) PROVE Result
    <2>1. /\ cycles'[d].at = "clean" /\ \A e \in Cycle \ {d} : cycles'[e] = cycles[e]
          /\ UNCHANGED clock
          /\ UNCHANGED files \/ \E p \in cycles[d].remove :
                                   files' = {f \in files : <<f.stamp, f.db>> # p}
      BY <1>6, CleansUp
    <2>2. files' \subseteq files
      BY <2>1
    <2>3. s \in Stamps' \/ s < clock
      <3>1. CASE UNCHANGED files
        BY <1>2, <3>1 DEF Stamps
      <3>2. ASSUME NEW p \in cycles[d].remove, files' = {f \in files : <<f.stamp, f.db>> # p},
                   s \in Stamps
            PROVE  s \in Stamps' \/ s < clock
        <4>1. CASE p[1] = s
          BY <1>1, <4>1, DoomedIsPast DEF Listed
        <4>2. CASE p[1] # s
          <5>1. PICK f \in files : f.stamp = s
            BY <3>2 DEF Stamps
          <5>2. f \in files'
            BY <3>2, <4>2, <5>1
          <5> QED
            BY <5>1, <5>2 DEF Stamps
        <4> QED
          BY <4>1, <4>2
      <3> QED
        BY <1>2, <2>1, <3>1, <3>2
    <2> QED
      BY <1>2, <2>1, <2>2, <2>3 DEF Making
  <1>7. ASSUME \/ \E d \in Cycle : End(d) \/ LeaveEarly(d)
               \/ Cancel \/ Crash \/ RestoreStep \/ UNCHANGED vars
        PROVE  Result
    <2>1. /\ UNCHANGED <<clock, files>>
          /\ \A d \in Cycle : cycles'[d] \in {cycles[d], Idle}
      BY <1>7 DEF Types, End, LeaveEarly, Cancel, Crash, vars, RestoreStep, BeginRestore, RestoreFile,
                  FailRestore, EndRestore
    <2>2. \A d \in Cycle : Making(d)' => cycles'[d] = cycles[d] /\ Making(d)
      BY <2>1 DEF Making, Idle
    <2> QED
      BY <1>2, <2>1, <2>2 DEF Stamps
  <1>8. ASSUME Tick PROVE Result
    <2>1. UNCHANGED <<files, cycles>> /\ clock' = clock + 1
      BY <1>8 DEF Tick
    <2>2. s < clock => s < clock + 1
      BY <1>3
    <2>3. s \in Stamps' \/ s < clock'
      BY <1>2, <2>1, <2>2 DEF Stamps
    <2>4. \A c \in Cycle : Making(c)' /\ cycles'[c].stamp = s =>
             cycles'[c].at = "loop" /\ cycles'[c].todo = {}
      BY <1>2, <2>1 DEF Making
    <2>5. \A f \in files' : f.stamp = s => f \in files
      BY <2>1
    <2> QED
      BY <2>3, <2>4, <2>5
  <1>9. Result
    <2> HIDE DEF Result
    <2>1. \/ \E d \in Cycle : Works(d)
          \/ \E d \in Cycle : Begin(d)
          \/ \E d \in Cycle : List(d) \/ RemoveFile(d)
          \/ \E d \in Cycle : End(d) \/ LeaveEarly(d)
          \/ Cancel \/ Crash \/ RestoreStep \/ UNCHANGED vars
          \/ Tick
      BY DEF Next, CycleStep, Works
    <2> QED
      BY <1>4, <1>5, <1>6, <1>7, <1>8, <2>1
  <1> HIDE DEF s
  <1> QED
    BY <1>2, <1>9 DEF Restoring, s

(* Every step keeps what Restore relies on.                                *)
LEMMA NextRestoring ==
  Types /\ Listed /\ Made /\ Restoring /\ [Next]_vars => Restoring'
  <1> SUFFICES ASSUME Types, Listed, Made, Restoring, [Next]_vars,
                      restore'.at = "copying", restore'.whole, ~shared'
               PROVE  Restoring'
    BY DEF Restoring
  <1>1. ~shared
    BY CalmBefore
  <1>2. restore' # NoRestore
    BY DEF NoRestore
  <1>3. CASE BeginRestore
    BY <1>1, <1>3, RestoreBegins
  <1>4. CASE RestoreFile
    BY <1>1, <1>4, RestoreGoesOn
  <1>5. CASE UNCHANGED restore
    BY <1>5, RestoreKept
  <1>6. BeginRestore \/ RestoreFile \/ UNCHANGED restore
    <2>1. ASSUME NEW c \in Cycle, CycleStep(c) PROVE UNCHANGED restore
      BY <2>1, WorksOn, BeginsWith, CleansUp DEF CycleStep, Works, End, LeaveEarly
    <2> QED
      BY <1>2, <2>1 DEF Next, RestoreStep, FailRestore, EndRestore, Tick, Cancel, Crash, vars
  <1> QED
    BY <1>3, <1>4, <1>5, <1>6

-----------------------------------------------------------------------------
(* When the last cycle that makes a set has listed what is too much, some  *)
(* cycle will come to each file of it, unless removals fail.               *)
LEMMA NextCleaning == Types /\ Listed /\ Cleaning /\ [Next]_vars => Cleaning'
  <1> SUFFICES ASSUME Types, Listed, Cleaning, [Next]_vars, faults' = 0, ~stopping',
                      \A c \in Cycle : ~Making(c)',
                      NEW k \in Cycle, cycles'[k].at = "clean",
                      NEW f \in files', NEW s, s = f.stamp,
                      Cardinality(Newer(s))' >= MaxBackups
               PROVE  \E c \in Cycle : <<s, f.db>> \in cycles'[c].remove
    BY DEF Cleaning
  <1>7. ~Cancel /\ ~Crash
    BY DEF Cancel, Crash, Idle
  <1>1. /\ faults = 0 /\ ~Fault /\ ~stopping
        /\ \A d \in Cycle : ~LeaveEarly(d)
    <2>1. UNCHANGED stopping
      <3>1. ASSUME NEW d \in Cycle, CycleStep(d) PROVE UNCHANGED stopping
        BY <3>1, WorksOn, BeginsWith, CleansUp DEF CycleStep, Works, End, LeaveEarly, bounds
      <3> QED
        BY <1>7, <3>1, RestoreTypes DEF Next, Tick, vars, bounds
    <2> QED
      BY <2>1, CalmBefore DEF LeaveEarly, Cancelled
  <1>2. ASSUME NEW d \in Cycle, List(d)
        PROVE  \E c \in Cycle : <<s, f.db>> \in cycles'[c].remove
    <2>1. cycles'[d].remove = Removable /\ UNCHANGED files
      BY <1>2, CleansUp
    <2>2. s \in Stamps /\ Cardinality(Newer(s)) >= MaxBackups
      BY <2>1 DEF Stamps, Newer
    <2>3. <<s, f.db>> \in Removable
      BY <2>1, <2>2 DEF Removable, Excess
    <2> QED
      BY <2>1, <2>3
  <1>3. ASSUME NEW d \in Cycle, RemoveFile(d)
        PROVE  \E c \in Cycle : <<s, f.db>> \in cycles'[c].remove
    <2>1. PICK p \in cycles[d].remove :
             /\ cycles[d].at = "clean" /\ cycles'[d].remove = cycles[d].remove \ {p}
             /\ files' = {g \in files : <<g.stamp, g.db>> # p}
      BY <1>1, <1>3, CleansUp
    <2>2. cycles'[d].at = "clean" /\ \A e \in Cycle \ {d} : cycles'[e] = cycles[e]
      BY <1>3, CleansUp
    <2>3. f \in files /\ <<s, f.db>> # p
      BY <2>1
    <2>4. Cardinality(Newer(s)) >= MaxBackups
      <3>1. Newer(s)' \subseteq Newer(s)
        BY <2>1 DEF Newer, Stamps
      <3>2. Newer(s) \subseteq Time /\ MaxBackups \in Nat
        BY StampsCount, BackupAssumption DEF Types
      <3> DEFINE new == Newer(s)'
      <3> HIDE DEF new
      <3>3. /\ Cardinality(new) \in Nat /\ Cardinality(Newer(s)) \in Nat
            /\ Cardinality(new) <= Cardinality(Newer(s))
        BY <3>1, <3>2, Moments DEF new
      <3>4. Cardinality(new) >= MaxBackups
        BY DEF new
      <3> QED
        BY <3>2, <3>3, <3>4
    <2>5. \A c \in Cycle : ~Making(c)
      BY <2>1, <2>2 DEF Making
    <2>6. PICK c \in Cycle : <<s, f.db>> \in cycles[c].remove
      BY <1>1, <2>1, <2>3, <2>4, <2>5 DEF Cleaning
    <2> QED
      BY <2>1, <2>2, <2>3, <2>6
  <1>4. ASSUME UNCHANGED files, \A c \in Cycle : ~Making(c), \E c \in Cycle : cycles[c].at = "clean",
               \A c \in Cycle : cycles'[c].remove = cycles[c].remove
        PROVE  \E c \in Cycle : <<s, f.db>> \in cycles'[c].remove
    <2>1. Cardinality(Newer(s)) >= MaxBackups
      BY <1>4 DEF Newer, Stamps
    <2> QED
      BY <1>1, <1>4, <2>1 DEF Cleaning
  <1>5. ASSUME NEW d \in Cycle, End(d)
        PROVE  \E c \in Cycle : <<s, f.db>> \in cycles'[c].remove
    <2>1. /\ cycles[d].at = "clean" /\ cycles[d].remove = {} /\ cycles'[d].remove = {}
          /\ \A e \in Cycle \ {d} : cycles'[e] = cycles[e]
          /\ UNCHANGED files
      BY <1>5 DEF End, Idle, Types
    <2> QED
      BY <1>4, <2>1 DEF Making
  <1>6. ASSUME Tick \/ RestoreStep \/ UNCHANGED vars
        PROVE  \E c \in Cycle : <<s, f.db>> \in cycles'[c].remove
    <2>1. UNCHANGED <<files, cycles>>
      BY <1>6 DEF Tick, vars, RestoreStep, BeginRestore, RestoreFile, FailRestore, EndRestore
    <2> QED
      BY <1>4, <2>1 DEF Making
  <1>8. \A d \in Cycle : ~Works(d) /\ ~Begin(d)
    BY WorksOn, BeginsWith DEF Making
  <1> QED
    BY <1>1, <1>2, <1>3, <1>5, <1>6, <1>7, <1>8 DEF Next, CycleStep, Works

-----------------------------------------------------------------------------
(* An empty directory, and nobody at work.                                 *)
LEMMA InitInv == Init => BackupInv
  <1> SUFFICES ASSUME Init PROVE BackupInv
    OBVIOUS
  <1>1. Idle \in File /\ clock \in Time
    <2>1. 1 \in Time
      BY BackupAssumption DEF Time
    <2> QED
      BY <2>1 DEF Idle, File, Init
  <1>2. Types
    <2>1. faults \in 0 .. MaxFaults /\ crashes \in 0 .. MaxCrashes
      BY BackupAssumption DEF Init
    <2>2. TypeOK
      BY <1>1, <2>1 DEF Init, TypeOK
    <2> QED
      BY <1>1, <2>2 DEF Init, Types
  <1>3. \A c \in Cycle : ~Making(c) /\ cycles[c].at = "idle" /\ cycles[c].remove = {}
                         /\ cycles[c].stamp = 0
    BY DEF Init, Idle, Making
  <1>4. files = {} /\ Stamps = {} /\ restore.at = "idle" /\ clock = 1
    BY DEF Init, Stamps, NoRestore
  <1>5. Listed /\ Alone
    BY <1>3, <1>4 DEF Listed, Alone
  <1>6. Made /\ Restoring /\ Cleaning
    BY <1>3, <1>4 DEF Made, Restoring, Cleaning
  <1> QED
    BY <1>2, <1>5, <1>6 DEF BackupInv

(* The inductive invariant holds in every state.                           *)
THEOREM BackupInvariant == Spec => []BackupInv
  <1>1. BackupInv /\ [Next]_vars => BackupInv'
    BY NextTypes, NextListed, NextAlone, NextMade, NextRestoring, NextCleaning
       DEF BackupInv
  <1> QED
    BY <1>1, InitInv, PTL DEF Spec

(* A set that nobody works on has a whole copy of every database, also if  *)
(* cycles overlapped and one cleaned up what another was making.           *)
THEOREM SetsAreWhole == Spec => []Consistent
  <1>1. BackupInv => Consistent
    <2> SUFFICES ASSUME BackupInv, ~shared, Calm, NEW s \in Stamps, AtRest(s)
                 PROVE  Complete(s)
      BY DEF BackupInv, Types, Consistent, SetsAreComplete, Calm
    <2>1. Settled(s)
      BY DEF BackupInv, Made
    <2>2. ~\E c \in Cycle : Covers(c, s)
      <3> SUFFICES ASSUME NEW c \in Cycle, Covers(c, s) PROVE FALSE
        OBVIOUS
      <3>1. PICK f \in files : f.stamp = s
        BY DEF Stamps
      <3>2. <<s, f.db>> \in cycles[c].remove /\ <<s, f.db>>[1] = s
        BY <3>1 DEF Covers
      <3> QED
        BY <3>2 DEF AtRest
    <2> QED
      BY <2>1, <2>2 DEF Settled, AtRest
  <1> QED
    BY <1>1, BackupInvariant, PTL

(* A restore that ends without an error of a set that was complete has     *)
(* made a whole copy of every database, whatever was removed meanwhile.    *)
THEOREM RestoredSetIsWhole == Spec => []RestoreIsWhole
  <1>1. BackupInv => RestoreIsWhole
    <2> SUFFICES ASSUME BackupInv, restore.at = "copying", restore.todo = {},
                        restore.whole, ~shared
                 PROVE  restore.got = [db : Db, holds : {"whole"}]
      BY DEF RestoreIsWhole
    <2>1. restore.got = {[db |-> db, holds |-> "whole"] : db \in Db}
      BY DEF BackupInv, Restoring
    <2>2. \A r : r \in [db : Db, holds : {"whole"}]
                    <=> \E db \in Db : r = [db |-> db, holds |-> "whole"]
      OBVIOUS
    <2> QED
      BY <2>1, <2>2
  <1> QED
    BY <1>1, BackupInvariant, PTL

(* A set goes only if there are MaxBackups newer ones or if it is older    *)
(* than Retention, however cleanups overlap.                               *)
THEOREM NewestSetsStay == Spec => NewestStay
  <1>1. BackupInv /\ [Next]_vars =>
           [\A s \in Stamps \ {f.stamp : f \in files'} :
               Cardinality(Newer(s)) >= MaxBackups \/ Expired(s)]_vars
    <2> SUFFICES ASSUME BackupInv, [Next]_vars, NEW s \in Stamps, s \notin Stamps'
                 PROVE  Doomed(s)
      BY DEF Doomed, Stamps
    <2>1. PICK c \in Cycle : \E p \in cycles[c].remove : Stamps' = Stamps \ {p[1]}
      BY StampsNext DEF BackupInv
    <2>2. PICK p \in cycles[c].remove : s = p[1]
      BY <2>1
    <2> QED
      BY <2>2 DEF BackupInv, Listed
  <1> QED
    BY <1>1, BackupInvariant, PTL DEF Spec, NewestStay

(* If no set has too many newer ones, there are not too many sets: all but *)
(* the oldest are newer than that one.                                     *)
LEMMA FewNewerFewSets ==
  ASSUME NEW S, S \subseteq Time,
         \A s \in S : ~(Cardinality({t \in S : t > s}) >= MaxBackups)
  PROVE  Cardinality(S) <= MaxBackups
  <1>1. MaxBackups \in Nat /\ S \subseteq Nat
    BY BackupAssumption, Moments
  <1>2. CASE S = {}
    BY <1>1, <1>2, FS_EmptySet
  <1>3. CASE S # {}
    <2>1. \E m \in S : \A t \in S : <<t, m>> \notin OpToRel(<, Nat)
      BY <1>1, <1>3, NatLessThanWellFounded, WFMin
    <2>2. PICK m \in S : \A t \in S : ~(t < m)
      <3>1. \A t, m \in Nat : t < m => <<t, m>> \in OpToRel(<, Nat)
        BY Zenon DEF OpToRel
      <3> QED
        BY <1>1, <2>1, <3>1, Zenon
    <2> DEFINE R == {t \in S : t > m}
    <2>3. R = S \ {m}
      <3>1. \A t \in S : t > m <=> t # m
        BY <1>1, <2>2
      <3>2. ~(m > m)
        BY <1>1
      <3> QED
        BY <3>1, <3>2
    <2>4. R \subseteq Time
      OBVIOUS
    <2>5. ~(Cardinality(R) >= MaxBackups)
      OBVIOUS
    <2> HIDE DEF R
    <2>6. IsFiniteSet(S) /\ Cardinality(S) \in Nat /\ Cardinality(R) \in Nat
      BY <2>4, Moments
    <2>7. Cardinality(R) = Cardinality(S) - 1
      BY <2>3, <2>6, FS_RemoveElement
    <2> QED
      BY <1>1, <2>5, <2>6, <2>7
  <1> QED
    BY <1>2, <1>3

(* When the last cycle ends, no more than MaxBackups sets are left, also   *)
(* those of overlapping and interrupted cycles, unless something failed or *)
(* the process is being stopped.                                           *)
THEOREM RetentionIsKept == Spec => RetentionHolds
  <1>1. BackupInv /\ [Next]_vars =>
           [\A c \in Cycle :
               /\ End(c) /\ (\A d \in Cycle \ {c} : cycles[d] = Idle)
               /\ faults = 0 /\ ~stopping
               => Cardinality(Stamps) <= MaxBackups]_vars
    <2> SUFFICES ASSUME BackupInv, NEW c \in Cycle, End(c), faults = 0, ~stopping,
                        \A d \in Cycle \ {c} : cycles[d] = Idle
                 PROVE  Cardinality(Stamps) <= MaxBackups
      OBVIOUS
    <2>1. cycles[c].at = "clean" /\ \A d \in Cycle : cycles[d].remove = {} /\ ~Making(d)
      BY DEF End, Making, Idle
    <2>2. \A f \in files : ~(Cardinality(Newer(f.stamp)) >= MaxBackups)
      BY <2>1 DEF BackupInv, Cleaning
    <2>3. \A s \in Stamps : ~(Cardinality({t \in Stamps : t > s}) >= MaxBackups)
      BY <2>2 DEF Stamps, Newer
    <2>4. Stamps \subseteq Time
      BY StampsCount DEF BackupInv, Types
    <2> QED
      BY <2>3, <2>4, FewNewerFewSets
  <1> QED
    BY <1>1, BackupInvariant, PTL DEF Spec, RetentionHolds
=============================================================================
