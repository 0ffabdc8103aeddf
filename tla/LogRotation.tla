---------------------------- MODULE LogRotation ----------------------------
(***************************************************************************)
(* Rotating one log file: shared-utils/src/logging/log-rotator.js.  Each   *)
(* check and each rotation is a task that waits for the disk between any   *)
(* two of its calls, so the timer's checks overlap with one another and    *)
(* with rotateFile() called by hand, and the process may die between any   *)
(* two.  The logger writes by a descriptor it opens when it starts         *)
(* (winston's File transport, logger.js:158); other programs append by     *)
(* name.                                                                   *)
(*                                                                         *)
(* A file is the set of its lines, numbered as they are written, and the   *)
(* time of its last change; its size is the number of its lines.  A        *)
(* rotated file is named by a time, and two calls of the same millisecond  *)
(* get one name, which MayCollide = FALSE leaves out.  `cleaned` and       *)
(* `exposed` record what the property speaks of: lines that were removed   *)
(* with their file, and lines written to a place they may vanish from.     *)
(***************************************************************************)
EXTENDS Integers, FiniteSets, Sequences, SequencesExt

CONSTANTS
  Rotators,         \* tasks
  MaxLines,         \* bound on the lines written
  MaxLogTime,       \* bound on the clock
  maxSize, maxFiles, maxAge, checkInterval,
  LogDay,           \* ticks of a calendar day
  MayCollide        \* whether two rotations may choose the same name

ASSUME LogAssumption ==
  /\ {MaxLines, MaxLogTime, maxSize, maxFiles, maxAge, checkInterval} \subseteq Nat
  /\ LogDay \in Nat \ {0}

VARIABLES disk, rotator, stream, lastCheck, logNow, lastLine, settings,
          cleaned, exposed

logVars == <<disk, rotator, stream, lastCheck, logNow, lastLine, settings,
             cleaned, exposed>>
ghostVars == <<cleaned, exposed>>

TheLog == <<0, "log">>
Raw(time) == <<time, "raw">>
Gz(time) == <<time, "gz">>
RotatedNames == {Raw(t) : t \in 0..MaxLogTime} \cup {Gz(t) : t \in 0..MaxLogTime}
Nowhere == <<0, "nowhere">>

NoFile == [exists |-> FALSE]
File(lines, mtime) == [exists |-> TRUE, lines |-> lines, mtime |-> mtime]
On(name) == disk[name].exists
RotatedFiles == {n \in RotatedNames : On(n)}

\* at: where the task is; stamp: the name it rotates to; mtime: what stat()
\* said; daily: whether the daily check is still to come; todo: files to
\* remove.
TaskAt(at, stamp, mtime, daily) ==
  [at |-> at, stamp |-> stamp, mtime |-> mtime, daily |-> daily, todo |-> <<>>]
NoTask == TaskAt("idle", 0, 0, FALSE)

Rotating(r) == rotator[r].at \notin {"idle", "daily"}

-----------------------------------------------------------------------------
\* The logger's stream follows the file it has open when that is renamed
\* or removed; who appends by name finds whatever has the name now.
LogInit ==
  /\ settings \in [compress : BOOLEAN, byName : BOOLEAN]
  /\ disk = [n \in RotatedNames \cup {TheLog} |-> IF n = TheLog THEN File({}, 0) ELSE NoFile]
  /\ rotator = [r \in Rotators |-> NoTask]
  /\ stream = TheLog
  /\ lastCheck = 0 /\ logNow = 0 /\ lastLine = 0
  /\ cleaned = {} /\ exposed = {}

Target == IF settings.byName THEN TheLog ELSE stream

\* A line is written.  Its place is not safe while a rotation is about to
\* make the file anew, or when it is a file that has been put aside and is
\* going to be compressed.
WriteLine ==
  /\ lastLine < MaxLines
  /\ lastLine' = lastLine + 1
  /\ disk' = IF Target = Nowhere THEN disk
             ELSE [disk EXCEPT ![Target] =
                     File((IF On(Target) THEN @.lines ELSE {}) \cup {lastLine + 1}, logNow)]
  /\ exposed' = IF \/ settings.byName /\ \E r \in Rotators : rotator[r].at \in {"create", "recreate"}
                   \/ Target # TheLog /\ settings.compress
                   \/ Target = Nowhere
                THEN exposed \cup {lastLine + 1} ELSE exposed
  /\ UNCHANGED <<rotator, stream, lastCheck, logNow, settings, cleaned>>

Goes(r, at) == rotator' = [rotator EXCEPT ![r].at = at]

Starts(r, task) ==
  /\ rotator' = [rotator EXCEPT ![r] = task]
  /\ UNCHANGED <<disk, stream, logNow, lastLine, settings, ghostVars>>

\* rotateFile(), called by hand.
rotateFile(r) ==
  /\ rotator[r].at = "idle"
  /\ Starts(r, TaskAt("rename", logNow, 0, FALSE))
  /\ UNCHANGED lastCheck

\* _checkFile(): the size decides at once, the date after that rotation.
_checkFile(r) ==
  /\ rotator[r].at = "idle"
  /\ \/ /\ On(TheLog) /\ Cardinality(disk[TheLog].lines) > maxSize
        /\ Starts(r, TaskAt("rename", logNow, disk[TheLog].mtime, TRUE))
     \/ /\ On(TheLog) /\ Cardinality(disk[TheLog].lines) <= maxSize
        /\ Starts(r, TaskAt("daily", 0, disk[TheLog].mtime, FALSE))
     \/ /\ ~On(TheLog)
        /\ Starts(r, TaskAt("recreate", 0, 0, FALSE))
  /\ UNCHANGED lastCheck

\* The daily part: what stat() said may be from before a rotation.
_checkDate(r) ==
  LET task == rotator[r]
  IN  /\ task.at = "daily"
      /\ \/ /\ logNow - lastCheck > checkInterval
            /\ lastCheck' = logNow
            /\ IF task.mtime \div LogDay # logNow \div LogDay
               THEN Starts(r, TaskAt("rename", logNow, 0, FALSE))
               ELSE Starts(r, NoTask)
         \/ /\ logNow - lastCheck <= checkInterval
            /\ Starts(r, NoTask) /\ UNCHANGED lastCheck

RestStays == UNCHANGED <<lastCheck, logNow, lastLine, settings, exposed>>

Unused(r) ==
  LET stamp == rotator[r].stamp
  IN  /\ ~On(Raw(stamp)) /\ ~On(Gz(stamp))
      /\ \A o \in Rotators \ {r} : Rotating(o) => rotator[o].stamp # stamp

\* fs.rename(); a file of the new name is replaced.  Without the current
\* file the rotation ends with an empty one (ENOENT).
RenameLog(r) ==
  LET to == Raw(rotator[r].stamp)
  IN  /\ rotator[r].at = "rename"
      /\ MayCollide \/ Unused(r)
      /\ IF On(TheLog)
         THEN /\ disk' = [disk EXCEPT ![to] = disk[TheLog], ![TheLog] = NoFile]
              /\ stream' = IF stream = TheLog THEN to ELSE IF stream = to THEN Nowhere ELSE stream
              /\ Goes(r, "create")
         ELSE Goes(r, "recreate") /\ UNCHANGED <<disk, stream>>
      /\ UNCHANGED cleaned /\ RestStays

\* fs.writeFile(path, ''): also empties a file that somebody made meanwhile.
CreateLog(r) ==
  /\ rotator[r].at \in {"create", "recreate"}
  /\ disk' = [disk EXCEPT ![TheLog] = File({}, logNow)]
  /\ Goes(r, IF rotator[r].at = "recreate" THEN (IF rotator[r].daily THEN "daily" ELSE "idle")
             ELSE IF settings.compress THEN "pack" ELSE "list")
  /\ UNCHANGED <<stream, cleaned>> /\ RestStays

\* Mutant: the original is removed without waiting for the copy.
Pack_Unawaited(r) ==
  LET stamp == rotator[r].stamp
  IN  /\ rotator[r].at = "pack"
      /\ disk' = [disk EXCEPT ![Gz(stamp)] = File({}, logNow)]
      /\ Goes(r, "unlink")
      /\ UNCHANGED <<stream, cleaned>> /\ RestStays

\* _compressFile(): the target is opened, and is empty until the end.
Pack(r) ==
  LET stamp == rotator[r].stamp
  IN  /\ rotator[r].at = "pack"
      /\ disk' = [disk EXCEPT ![Gz(stamp)] = File({}, logNow)]
      /\ Goes(r, IF On(Raw(stamp)) THEN "packing" ELSE "list")
      /\ UNCHANGED <<stream, cleaned>> /\ RestStays

Packed(r) ==
  LET stamp == rotator[r].stamp
  IN  /\ rotator[r].at = "packing"
      /\ IF On(Raw(stamp)) /\ On(Gz(stamp))
         THEN disk' = [disk EXCEPT ![Gz(stamp)] = File(disk[Raw(stamp)].lines, logNow)]
         ELSE UNCHANGED disk
      /\ Goes(r, "unlink")
      /\ UNCHANGED <<stream, cleaned>> /\ RestStays

Removed(name) ==
  /\ disk' = [disk EXCEPT ![name] = NoFile]
  /\ stream' = IF stream = name THEN Nowhere ELSE stream

\* The original is removed after the compressed file is complete.
Unlink(r) ==
  /\ rotator[r].at = "unlink"
  /\ Removed(Raw(rotator[r].stamp))
  /\ Goes(r, "list")
  /\ UNCHANGED cleaned /\ RestStays

\* The files in the order of their last change; of equal times, any order.
ByAge(S) == {q \in SetToSeqs(S) :
               \A i, j \in DOMAIN q : i < j => disk[q[i]].mtime <= disk[q[j]].mtime}

\* _cleanupOldFiles(): what exceeds the number, then what is too old; the
\* second list is made from the same reading, so a file may be in both.
ListFiles(r) ==
  /\ rotator[r].at = "list"
  /\ \E files \in ByAge(RotatedFiles) :
       LET excess == SubSeq(files, 1, Len(files) - maxFiles)
           old == SelectSeq(files, LAMBDA n : logNow - disk[n].mtime > maxAge)
       IN  rotator' = [rotator EXCEPT ![r].at = "remove", ![r].todo = excess \o old]
  /\ UNCHANGED <<disk, stream, cleaned>> /\ RestStays

\* One file after the other; one that is gone ends the cleanup.  With a
\* compressed file that is being made go the lines on their way into it.
DeleteNext(r) ==
  LET task == rotator[r]
      name == Head(task.todo)
      onTheWay == {o \in Rotators : rotator[o].at \in {"packing", "unlink"} /\ Gz(rotator[o].stamp) = name}
  IN  /\ task.at = "remove"
      /\ IF task.todo # <<>> /\ On(name)
         THEN /\ Removed(name)
              /\ cleaned' = cleaned \cup disk[name].lines
                   \cup UNION {disk[Raw(rotator[o].stamp)].lines :
                                 o \in {p \in onTheWay : On(Raw(rotator[p].stamp))}}
              /\ rotator' = [rotator EXCEPT ![r].todo = Tail(@)]
         ELSE /\ rotator' = [rotator EXCEPT ![r] =
                    IF task.daily THEN TaskAt("daily", 0, task.mtime, FALSE) ELSE NoTask]
              /\ UNCHANGED <<disk, stream, cleaned>>
      /\ RestStays

\* cleanup(), called by hand.
cleanupLogs(r) ==
  /\ rotator[r].at = "idle"
  /\ Starts(r, TaskAt("list", 0, 0, FALSE))
  /\ UNCHANGED lastCheck

\* The process dies and starts again: the logger opens its file, which
\* makes it if it is not there.
Restart ==
  /\ \E r \in Rotators : Rotating(r)
  /\ rotator' = [r \in Rotators |-> NoTask]
  /\ stream' = TheLog
  /\ disk' = IF On(TheLog) THEN disk ELSE [disk EXCEPT ![TheLog] = File({}, logNow)]
  /\ lastCheck' = logNow
  /\ UNCHANGED <<logNow, lastLine, settings, ghostVars>>

LogTick ==
  /\ logNow < MaxLogTime
  /\ logNow' = logNow + 1
  /\ UNCHANGED <<disk, rotator, stream, lastCheck, lastLine, settings, ghostVars>>

LogNext ==
  \/ \E r \in Rotators :
       \/ rotateFile(r) \/ _checkFile(r) \/ _checkDate(r) \/ cleanupLogs(r)
       \/ RenameLog(r) \/ CreateLog(r) \/ Pack(r) \/ Packed(r) \/ Unlink(r) \/ ListFiles(r) \/ DeleteNext(r)
  \/ WriteLine \/ Restart \/ LogTick

LogSpec == LogInit /\ [][LogNext]_logVars

-----------------------------------------------------------------------------
OnDisk == UNION {disk[n].lines : n \in {m \in DOMAIN disk : On(m)}}

(* A line that was written to the file in place is in some file until the  *)
(* cleanup removes that file, however checks and rotations overlap and at  *)
(* whichever moment the process dies: the original outlives the making of  *)
(* its compressed copy, and a file is only emptied when there was none     *)
(* (log-rotator.js:91, 290).  Names that collide (MayCollide) break it.    *)
LinesSurvive ==
  (1..lastLine) \subseteq OnDisk \cup cleaned \cup exposed

(* The same of every line.  Not kept: the logger goes on writing to the    *)
(* file that was put aside, which is compressed and removed; and a program *)
(* that appends by name may write between the renaming and the new file.   *)
EveryLineSurvives == (1..lastLine) \subseteq OnDisk \cup cleaned
=============================================================================
