-------------------------------- MODULE Logger --------------------------------
(***************************************************************************)
(* The log files (lib/logger.js): lines are buffered, flushed by a timer   *)
(* or when the buffer is full, and a flush may first rotate the file, by   *)
(* size or by date.  File operations may fail at any point and the process *)
(* may die at any point.                                                   *)
(*                                                                         *)
(* A line is its number.  A file that does not exist is empty: the logger  *)
(* never creates an empty one.  Sizes are counted in lines.                *)
(***************************************************************************)
EXTENDS Naturals, Sequences, FiniteSets, Functions

CONSTANTS
    MaxFiles,    \* config logging.maxFiles
    MaxSize,     \* config logging.maxFileSizeMb
    FlushMax,    \* _flushMaxBytes
    MaxLines,    \* bound: lines written
    MaxDay       \* bound: days that pass

ASSUME LoggerAssumption ==
    /\ MaxFiles \in Nat \ {0}
    /\ MaxSize \in Nat \ {0}
    /\ FlushMax \in Nat \ {0}
    /\ MaxLines \in Nat
    /\ MaxDay \in Nat \ {0}

VARIABLES
    rotateBy,     \* config logging.rotateBy
    up,           \* the process is running
    day,          \* the current day (UTC)
    currentDate,  \* _currentDate: the day of the open file
    rotateDue,    \* 30 s have passed since the last rotation check
    buffer,
    files,        \* by date: per day; by size: 0 the file, n the file ".n"
    writtenOn,    \* auxiliary: the day each line was written
    dropped       \* auxiliary: lines lost by a failed append or a crash

vars == <<rotateBy, up, day, currentDate, rotateDue, buffer, files, writtenOn, dropped>>

-----------------------------------------------------------------------------
Names == 0 .. (IF MaxFiles > MaxDay THEN MaxFiles ELSE MaxDay)
Lines == 1 .. Len(writtenOn)

Exists(n) == files[n] # <<>>
Held == UNION {Range(files[n]) : n \in Names}

\* File m holds newer lines than file n.
Newer(m, n) == IF rotateBy = "date" THEN m > n ELSE m < n

\* Mutant: the loop starts at MaxFiles - 1, so file.(MaxFiles - 1) is not moved.
Shifted_OneFewer(j) ==
    [n \in Names |->
        IF n \in j .. MaxFiles - 1 /\ Exists(n - 1) THEN files[n - 1]
        ELSE IF n \in j - 1 .. MaxFiles - 2 THEN <<>> ELSE files[n]]

\* Mutant: files are copied, not renamed.
Shifted_Copies(j) ==
    [n \in Names |-> IF n \in j .. MaxFiles /\ Exists(n - 1) THEN files[n - 1]
                     ELSE files[n]]

\* file -> file.1 -> file.2 ..., the oldest first, when the renames to
\* MaxFiles down to j have been done.
Shifted(j) ==
    [n \in Names |->
        IF n \in j .. MaxFiles
        THEN IF Exists(n - 1) THEN files[n - 1]
             ELSE IF n = MaxFiles THEN files[n] ELSE <<>>
        ELSE IF n = j - 1 THEN <<>> ELSE files[n]]

\* A rename that throws ends the loop; the oldest file may be gone by then.
RotatedBySize ==
    {files} \cup {Shifted(j) : j \in 1 .. MaxFiles}
    \cup (IF Exists(MaxFiles - 1) THEN {[files EXCEPT ![MaxFiles] = <<>>]} ELSE {})

\* Mutant: the names are not reversed, the oldest files are kept.
BeyondNewest_Oldest ==
    {n \in Names : /\ Exists(n)
                   /\ Cardinality({m \in Names : Exists(m) /\ m < n}) >= MaxFiles}

BeyondNewest ==
    {n \in Names : /\ Exists(n)
                   /\ Cardinality({m \in Names : Exists(m) /\ m > n}) >= MaxFiles}

\* _pruneOldLogs: every unlink may fail on its own.
Pruned ==
    {[n \in Names |-> IF n \in gone THEN <<>> ELSE files[n]] :
        gone \in SUBSET BeyondNewest}

\* rotateIfNeeded, called by flush.  The buffer is empty by then, so the
\* branch that flushes it into the outgoing day's file does nothing.
DateRotationDue == rotateDue /\ rotateBy = "date" /\ day # currentDate
SizeRotationDue == rotateDue /\ rotateBy = "size" /\ Len(files[0]) >= MaxSize

RotateIfNeeded ==
    IF DateRotationDue THEN Pruned
    ELSE IF SizeRotationDue THEN RotatedBySize ELSE {files}

\* The file that is open after the rotation.
OpenFile ==
    IF rotateBy = "size" THEN 0 ELSE IF DateRotationDue THEN day ELSE currentDate

\* flush, with buf the lines to be written.
FlushLines(buf) ==
    IF buf = <<>>
    THEN UNCHANGED <<currentDate, rotateDue, buffer, files, dropped>>
    ELSE /\ buffer' = <<>>
         /\ rotateDue' = FALSE
         /\ currentDate' = IF DateRotationDue THEN day ELSE currentDate
         /\ \E rotated \in RotateIfNeeded :
               \/ /\ files' = [rotated EXCEPT ![OpenFile] = @ \o buf]
                  /\ UNCHANGED dropped
               \/ /\ files' = rotated
                  /\ dropped' = dropped \cup Range(buf)

\* Mutant: a full buffer waits for the timer.
BufferFull_Never(buf) == FALSE

BufferFull(buf) == Len(buf) >= FlushMax

Write ==
    /\ up
    /\ Len(writtenOn) < MaxLines
    /\ writtenOn' = Append(writtenOn, day)
    /\ LET buf == Append(buffer, Len(writtenOn'))
       IN  \/ BufferFull(buf) /\ FlushLines(buf)
           \/ /\ ~BufferFull(buf)
              /\ buffer' = buf
              /\ UNCHANGED <<currentDate, rotateDue, files, dropped>>
    /\ UNCHANGED <<rotateBy, up, day>>

FlushTimer ==
    /\ up
    /\ FlushLines(buffer)
    /\ UNCHANGED <<rotateBy, up, day, writtenOn>>

\* 30 s since the last check.
CheckDue ==
    /\ up
    /\ rotateDue' = TRUE
    /\ UNCHANGED <<rotateBy, up, day, currentDate, buffer, files, writtenOn, dropped>>

\* By size, nothing looks at the date.
NewDay ==
    /\ rotateBy = "date"
    /\ day < MaxDay
    /\ day' = day + 1
    /\ UNCHANGED <<rotateBy, up, currentDate, rotateDue, buffer, files, writtenOn, dropped>>

Shutdown ==
    /\ up
    /\ FlushLines(buffer)
    /\ up' = FALSE
    /\ UNCHANGED <<rotateBy, day, writtenOn>>

Crash ==
    /\ up
    /\ up' = FALSE
    /\ buffer' = <<>>
    /\ dropped' = dropped \cup Range(buffer)
    /\ UNCHANGED <<rotateBy, day, currentDate, rotateDue, files, writtenOn>>

\* The constructor of the next process.
Start ==
    /\ ~up
    /\ up' = TRUE
    /\ currentDate' = day
    /\ rotateDue' = TRUE
    /\ UNCHANGED <<rotateBy, day, buffer, files, writtenOn, dropped>>

-----------------------------------------------------------------------------
Init ==
    /\ rotateBy \in {"size", "date"}
    /\ up = TRUE
    /\ day = 1
    /\ currentDate = 1
    /\ rotateDue = TRUE
    /\ buffer = <<>>
    /\ files = [n \in Names |-> <<>>]
    /\ writtenOn = <<>>
    /\ dropped = {}

Next ==
    \/ Write \/ FlushTimer \/ CheckDue
    \/ NewDay
    \/ Shutdown \/ Crash \/ Start

Spec == Init /\ [][Next]_vars

-----------------------------------------------------------------------------
TypeOK ==
    /\ rotateBy \in {"size", "date"}
    /\ up \in BOOLEAN
    /\ day \in 1 .. MaxDay
    /\ currentDate \in 1 .. day
    /\ rotateDue \in BOOLEAN
    /\ buffer \in Seq(Lines) /\ Len(buffer) < FlushMax
    /\ files \in [Names -> Seq(Lines)]
    /\ writtenOn \in Seq(1 .. MaxDay)
    /\ dropped \in SUBSET Lines

\* Read from the oldest file to the newest and then the buffer, the lines come
\* in the order they were logged and none comes twice, whatever renames failed
\* half way and wherever the process died.
LogInOrder ==
    LET Ascending(s) == \A i, j \in DOMAIN s : i < j => s[i] < s[j]
    IN  /\ \A n \in Names : Ascending(files[n])
        /\ Ascending(buffer)
        /\ \A m, n \in Names : Newer(m, n) =>
              \A i \in Range(files[m]), k \in Range(files[n]) : k < i
        /\ \A i \in Range(buffer), k \in Held : k < i

\* Only what is old goes.  A line that is neither in a file nor waiting, and was
\* not lost by a failed append or a crash, is older than all that waits.  By size
\* it is older than every line kept; by date, where pruning may leave an old file
\* behind and remove a newer one, it is older than MaxFiles whole files that are
\* kept.
OnlyOldLost ==
    \A i \in Lines \ (Held \cup Range(buffer) \cup dropped) :
       LET Kept == {n \in Names : Exists(n)}
           Later == {n \in Kept : \A k \in Range(files[n]) : i < k}
       IN  /\ \A k \in Range(buffer) : i < k
           /\ IF rotateBy = "size" THEN Later = Kept ELSE Cardinality(Later) >= MaxFiles

\* Rotating by size gives up the lines of the oldest file name and no others.
SizeRotationKeeps ==
    [][rotateBy = "size" =>
          \A n \in 0 .. MaxFiles - 1 : Range(files[n]) \subseteq Held']_files

\* The comment of rotateIfNeeded: what is buffered is flushed "into the outgoing
\* day's file before switching", so that a file holds the lines of its own day.
OutgoingDayComplete ==
    [][rotateBy = "date" /\ currentDate' # currentDate /\ up /\ files' # files =>
          \A i \in Range(files'[currentDate']) \ Range(files[currentDate']) :
             writtenOn'[i] # currentDate]_vars
=============================================================================
