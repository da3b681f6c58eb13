---------------------------- MODULE OperatorProofs ----------------------------
(***************************************************************************)
(* What holds of the operator's side for any sizes.  The log files: for    *)
(* any number of files, days and lines, whatever fails on the way, the     *)
(* lines stay in order and only old ones are given up.  The file cache:    *)
(* for any number of requests and replacements nobody is served a file     *)
(* older than their request.  The limiter: for any limit and window it     *)
(* lets less than two windows' worth through in the length of one.  The    *)
(* ping sweep: for any miners and hosts its flag is set only while a sweep *)
(* awaits the answers of the hosts it is for.                              *)
(***************************************************************************)
EXTENDS Logger, FileCache, RateLimiter, PingSweep, Integers,
        FiniteSetTheorems, WellFoundedInduction, SequenceTheorems, TLAPS

-----------------------------------------------------------------------------
(* The log files. *)

Ascending(s) == \A i, j \in DOMAIN s : i < j => s[i] < s[j]

\* Every line of the files f is in order, within a file and between files.
InOrder(f) ==
    /\ \A n \in Names : Ascending(f[n])
    /\ \A m, n \in Names : Newer(m, n) =>
          \A i \in Range(f[m]), k \in Range(f[n]) : k < i

\* By date, no file is newer than the open one.
NoneBeyond(f, open) == rotateBy = "date" => \A n \in Names : n > open => f[n] = <<>>

LogInv == TypeOK /\ LogInOrder /\ NoneBeyond(files, currentDate)

\* The files of f are files there were, moved without passing one another.
Moved(f) ==
    \E from \in [Names -> Names] :
        /\ \A n \in Names : f[n] = <<>> \/ f[n] = files[from[n]]
        /\ \A m, n \in Names :
              m < n /\ f[m] # <<>> /\ f[n] # <<>> => from[m] < from[n]

LEMMA NamesAreNats ==
    /\ Names \subseteq Nat
    /\ \A n \in 0 .. MaxFiles : n \in Names
    /\ \A n \in 0 .. MaxDay : n \in Names
  BY LoggerAssumption DEF Names

LEMMA InRange ==
    \A s : /\ \A i \in DOMAIN s : s[i] \in Range(s)
          /\ \A x \in Range(s) : \E i \in DOMAIN s : s[i] = x
  BY DEF Range

LEMMA InSeq ==
    ASSUME NEW S, NEW T, S \subseteq T, NEW s \in Seq(S)
    PROVE  s \in Seq(T) /\ \A k \in Range(s) : k \in S
  <1>1. /\ Len(s) \in Nat /\ DOMAIN s = 1 .. Len(s)
        /\ \A i \in 1 .. Len(s) : s[i] \in S
    OBVIOUS
  <1>2. s \in Seq(T)
    OBVIOUS
  <1> QED BY <1>1, <1>2, InRange

\* A rotation only moves files and gives some up.
LEMMA MovedKeeps ==
    ASSUME LogInv, NEW f, f \in [Names -> Seq(Lines)], Moved(f)
    PROVE  /\ InOrder(f)
           /\ \A n \in Names : Range(f[n]) \subseteq Held
  <1>1. PICK from \in [Names -> Names] :
          /\ \A n \in Names : f[n] = <<>> \/ f[n] = files[from[n]]
          /\ \A m, n \in Names :
                m < n /\ f[m] # <<>> /\ f[n] # <<>> => from[m] < from[n]
    BY DEF Moved
  <1>2. Ascending(<<>>) /\ Range(<<>>) = {}
    BY DEF Ascending, Range
  <1>3. \A n \in Names : Ascending(files[n])
    BY DEF LogInv, LogInOrder, Ascending
  <1>4. \A n \in Names : Ascending(f[n])
    BY <1>1, <1>2, <1>3
  <1>5. ASSUME NEW m \in Names, NEW n \in Names, Newer(m, n),
               NEW i \in Range(f[m]), NEW k \in Range(f[n])
        PROVE  k < i
    <2>1. f[m] # <<>> /\ f[n] # <<>>
      BY <1>2
    <2>2. f[m] = files[from[m]] /\ f[n] = files[from[n]]
      BY <1>1, <2>1
    <2>3. Newer(from[m], from[n]) /\ from[m] \in Names /\ from[n] \in Names
      BY <1>1, <1>5, <2>1, NamesAreNats DEF Newer
    <2> QED BY <2>2, <2>3 DEF LogInv, LogInOrder
  <1>6. \A n \in Names : Range(f[n]) \subseteq Held
    BY <1>1, <1>2 DEF Held
  <1> QED BY <1>4, <1>5, <1>6 DEF InOrder

LEMMA RenamesMove ==
    ASSUME LogInv, NEW j \in 1 .. MaxFiles
    PROVE  Shifted(j) \in [Names -> Seq(Lines)] /\ Moved(Shifted(j))
  <1> DEFINE f == Shifted(j)
             from == [n \in Names |-> IF n \in j .. MaxFiles /\ Exists(n - 1) THEN n - 1 ELSE n]
  <1>1. \A n \in Names : n \in j .. MaxFiles => n - 1 \in Names
    BY NamesAreNats, LoggerAssumption
  <1>2. from \in [Names -> Names]
    BY <1>1
  <1>3. files \in [Names -> Seq(Lines)] /\ <<>> \in Seq(Lines)
    BY DEF LogInv, TypeOK
  <1>4. \A n \in Names : f[n] = <<>> \/ f[n] = files[from[n]]
    BY DEF Shifted
  <1>5. f \in [Names -> Seq(Lines)]
    BY <1>1, <1>3 DEF Shifted
  <1>6. ASSUME NEW m \in Names, NEW n \in Names, m < n, f[m] # <<>>, f[n] # <<>>
        PROVE  from[m] < from[n]
    <2>1. m \in Nat /\ n \in Nat /\ MaxFiles \in Nat /\ j \in Nat
      BY NamesAreNats, LoggerAssumption
    <2>2. from[m] <= m /\ from[m] \in Nat
      BY <1>2, <2>1, NamesAreNats
    <2>3. CASE from[n] = n
      BY <1>6, <2>1, <2>2, <2>3
    <2>4. CASE n \in j .. MaxFiles /\ Exists(n - 1)
      <3>1. from[n] = n - 1
        BY <2>4
      <3>2. CASE m < n - 1
        BY <2>1, <2>2, <3>1, <3>2
      <3>3. CASE m = n - 1
        <4>1. m # j - 1
          <5> SUFFICES ASSUME m = j - 1 PROVE f[m] = <<>>
            BY <1>6
          <5> QED BY <2>1 DEF Shifted
        <4>2. m \in j .. MaxFiles /\ m # MaxFiles
          BY <2>1, <2>4, <3>3, <4>1
        <4>3. Exists(m - 1)
          <5> SUFFICES ASSUME ~Exists(m - 1) PROVE f[m] = <<>>
            BY <1>6
          <5> QED BY <4>2 DEF Shifted
        <4>4. from[m] = m - 1
          BY <4>2, <4>3
        <4> QED BY <2>1, <3>1, <3>3, <4>4
      <3> QED BY <1>6, <2>1, <3>2, <3>3
    <2> QED BY <2>3, <2>4
  <1> HIDE DEF f, from
  <1>7. Moved(f)
    BY <1>2, <1>4, <1>6 DEF Moved
  <1> QED BY <1>5, <1>7 DEF f

\* Where files stay in place, or go.
LEMMA RemovalsMove ==
    ASSUME LogInv, NEW f, f \in [Names -> Seq(Lines)],
           \A n \in Names : f[n] = <<>> \/ f[n] = files[n]
    PROVE  Moved(f)
  <1> DEFINE from == [n \in Names |-> n]
  <1>1. from \in [Names -> Names] /\ \A n \in Names : from[n] = n
    OBVIOUS
  <1> HIDE DEF from
  <1> QED BY <1>1 DEF Moved

LEMMA RotationMoves ==
    ASSUME LogInv, NEW f \in RotateIfNeeded
    PROVE  /\ f \in [Names -> Seq(Lines)] /\ Moved(f)
           /\ OpenFile \in Names
           /\ rotateBy = "date" => OpenFile >= currentDate
           /\ rotateBy = "size" => \A n \in Names : ~Newer(n, OpenFile)
           /\ NoneBeyond(f, OpenFile)
  <1>1. files \in [Names -> Seq(Lines)] /\ <<>> \in Seq(Lines)
    BY DEF LogInv, TypeOK
  <1>2. /\ day \in 1 .. MaxDay /\ currentDate \in 1 .. day /\ rotateBy \in {"size", "date"}
        /\ MaxDay \in Nat
    BY LoggerAssumption DEF LogInv, TypeOK
  <1>3. /\ OpenFile \in Names
        /\ rotateBy = "date" => OpenFile \in {day, currentDate} /\ OpenFile >= currentDate
        /\ rotateBy = "size" => OpenFile = 0
    BY <1>2, NamesAreNats, LoggerAssumption DEF OpenFile, DateRotationDue
  <1>4. rotateBy = "size" => \A n \in Names : ~Newer(n, OpenFile)
    BY <1>3, NamesAreNats DEF Newer
  <1>5. CASE DateRotationDue
    <2>1. PICK gone \in SUBSET BeyondNewest :
             f = [n \in Names |-> IF n \in gone THEN <<>> ELSE files[n]]
      BY <1>5 DEF RotateIfNeeded, Pruned
    <2>2. f \in [Names -> Seq(Lines)] /\ \A n \in Names : f[n] = <<>> \/ f[n] = files[n]
      BY <1>1, <2>1
    <2>3. Moved(f)
      BY <2>2, RemovalsMove
    <2>4. NoneBeyond(f, OpenFile)
      BY <1>2, <1>3, <2>2, NamesAreNats DEF NoneBeyond, LogInv
    <2> QED BY <1>3, <1>4, <2>2, <2>3, <2>4
  <1>6. CASE ~DateRotationDue /\ SizeRotationDue
    <2>1. NoneBeyond(f, OpenFile)
      BY <1>6 DEF SizeRotationDue, NoneBeyond
    <2>2. f \in RotatedBySize
      BY <1>6 DEF RotateIfNeeded
    <2>3. CASE \E j \in 1 .. MaxFiles : f = Shifted(j)
      BY <1>3, <1>4, <2>1, <2>3, RenamesMove
    <2>4. CASE f = files \/ f = [files EXCEPT ![MaxFiles] = <<>>]
      <3>1. f \in [Names -> Seq(Lines)] /\ \A n \in Names : f[n] = <<>> \/ f[n] = files[n]
        BY <1>1, <2>4
      <3>2. Moved(f)
        BY <3>1, RemovalsMove
      <3> QED BY <1>3, <1>4, <2>1, <3>1, <3>2
    <2> QED BY <2>2, <2>3, <2>4 DEF RotatedBySize
  <1>7. CASE ~DateRotationDue /\ ~SizeRotationDue
    <2>1. f = files
      BY <1>7 DEF RotateIfNeeded
    <2>2. Moved(f)
      BY <1>1, <2>1, RemovalsMove
    <2>3. NoneBeyond(f, OpenFile)
      BY <1>7, <2>1 DEF OpenFile, NoneBeyond, LogInv
    <2> QED BY <1>1, <1>3, <1>4, <2>1, <2>2, <2>3
  <1> QED BY <1>5, <1>6, <1>7

\* Newer lines at the end of the newest file keep the order.
LEMMA AppendKeeps ==
    ASSUME NEW f, NEW open \in Names, NEW all \in Nat, NEW buf \in Seq(1 .. all),
           f \in [Names -> Seq(1 .. all)], InOrder(f), Ascending(buf),
           \A n \in Names : \A k \in Range(f[n]), i \in Range(buf) : k < i,
           \A n \in Names : Newer(n, open) => f[n] = <<>>
    PROVE  LET g == [f EXCEPT ![open] = @ \o buf]
           IN  g \in [Names -> Seq(1 .. all)] /\ InOrder(g)
  <1> DEFINE g == [f EXCEPT ![open] = @ \o buf]
             s == f[open]
             t == s \o buf
  <1>1. /\ s \in Seq(1 .. all) /\ t \in Seq(1 .. all)
        /\ Len(s) \in Nat /\ Len(buf) \in Nat /\ Len(t) = Len(s) + Len(buf)
        /\ \A i \in 1 .. Len(s) : t[i] = s[i]
        /\ \A i \in 1 .. Len(buf) : t[Len(s) + i] = buf[i]
    BY ConcatProperties
  <1>2. g \in [Names -> Seq(1 .. all)] /\ g[open] = t /\ \A n \in Names \ {open} : g[n] = f[n]
    BY <1>1
  <1> HIDE DEF g, s, t
  <1>3. \A i \in 1 .. Len(t) : i \in 1 .. Len(s) \/ \E k \in 1 .. Len(buf) : i = Len(s) + k
    <2> SUFFICES ASSUME NEW i \in 1 .. Len(t), i \notin 1 .. Len(s)
                 PROVE  \E k \in 1 .. Len(buf) : i = Len(s) + k
      OBVIOUS
    <2>1. i - Len(s) \in 1 .. Len(buf) /\ i = Len(s) + (i - Len(s))
      BY <1>1
    <2> QED BY <2>1
  <1>3a. /\ DOMAIN s = 1 .. Len(s) /\ DOMAIN t = 1 .. Len(t) /\ DOMAIN buf = 1 .. Len(buf)
         /\ \A i \in 1 .. Len(s) : s[i] \in Range(s)
         /\ \A i \in 1 .. Len(buf) : buf[i] \in Range(buf)
         /\ \A x \in Range(t) : \E i \in 1 .. Len(t) : t[i] = x
    <2>1. DOMAIN s = 1 .. Len(s) /\ DOMAIN t = 1 .. Len(t) /\ DOMAIN buf = 1 .. Len(buf)
      BY <1>1
    <2> QED BY <2>1, InRange
  <1>4. Range(t) \subseteq Range(s) \cup Range(buf)
    <2> SUFFICES ASSUME NEW i \in 1 .. Len(t) PROVE t[i] \in Range(s) \cup Range(buf)
      BY <1>1, <1>3a
    <2>1. CASE i \in 1 .. Len(s)
      BY <1>1, <2>1, <1>3a
    <2>2. CASE \E k \in 1 .. Len(buf) : i = Len(s) + k
      BY <1>1, <2>2, <1>3a
    <2> QED BY <1>3, <2>1, <2>2
  <1>5. Ascending(t)
    <2> SUFFICES ASSUME NEW i \in 1 .. Len(t), NEW j \in 1 .. Len(t), i < j PROVE t[i] < t[j]
      BY <1>1, <1>3a DEF Ascending
    <2>1. \A x, y \in 1 .. Len(s) : x < y => s[x] < s[y]
      BY <1>1, <1>3a DEF InOrder, Ascending, s
    <2>2. \A x, y \in 1 .. Len(buf) : x < y => buf[x] < buf[y]
      BY <1>3a DEF Ascending
    <2>3. \A x \in 1 .. Len(s), y \in 1 .. Len(buf) : s[x] < buf[y]
      BY <1>3a DEF s
    <2>4. CASE j \in 1 .. Len(s)
      <3>1. i \in 1 .. Len(s)
        BY <1>1, <2>4
      <3> QED BY <1>1, <2>1, <2>4, <3>1
    <2>5. ASSUME NEW y \in 1 .. Len(buf), j = Len(s) + y PROVE t[i] < t[j]
      <3>1. CASE i \in 1 .. Len(s)
        BY <1>1, <2>3, <2>5, <3>1
      <3>2. ASSUME NEW x \in 1 .. Len(buf), i = Len(s) + x PROVE t[i] < t[j]
        <4>1. x < y
          BY <1>1, <2>5, <3>2
        <4> QED BY <1>1, <2>2, <2>5, <3>2, <4>1
      <3> QED BY <1>3, <3>1, <3>2
    <2> QED BY <1>3, <2>4, <2>5
  <1>6. \A n \in Names : Ascending(g[n])
    BY <1>2, <1>5 DEF InOrder
  <1>7. ASSUME NEW m \in Names, NEW n \in Names, Newer(m, n),
               NEW i \in Range(g[m]), NEW k \in Range(g[n])
        PROVE  k < i
    <2>1. m # n
      BY <1>7, NamesAreNats DEF Newer
    <2>2. CASE n = open
      <3>1. f[m] = <<>> /\ g[m] = f[m]
        BY <1>2, <1>7, <2>1, <2>2
      <3> QED BY <3>1 DEF Range
    <2>3. CASE m = open
      <3>1. g[n] = f[n] /\ (i \in Range(s) \/ i \in Range(buf))
        BY <1>2, <1>4, <2>1, <2>3
      <3> QED BY <1>7, <2>3, <3>1 DEF InOrder, s
    <2>4. CASE m # open /\ n # open
      BY <1>2, <1>7, <2>4 DEF InOrder
    <2> QED BY <2>2, <2>3, <2>4
  <1>8. InOrder(g)
    BY <1>6, <1>7 DEF InOrder
  <1> QED BY <1>2, <1>8 DEF g

\* flush: what is buffered goes to the open file, or is lost.
LEMMA FlushKeeps ==
    ASSUME LogInv, NEW all \in Nat, Len(writtenOn) <= all, NEW buf \in Seq(1 .. all),
           buf # <<>>, Ascending(buf), \A k \in Held, i \in Range(buf) : k < i,
           FlushLines(buf)
    PROVE  /\ files' \in [Names -> Seq(1 .. all)] /\ InOrder(files')
           /\ buffer' = <<>> /\ rotateDue' = FALSE
           /\ currentDate' \in 1 .. day /\ NoneBeyond(files', currentDate')
           /\ dropped' \in SUBSET (1 .. all)
  <1>1. PICK rotated \in RotateIfNeeded :
          \/ /\ files' = [rotated EXCEPT ![OpenFile] = @ \o buf]
             /\ UNCHANGED dropped
          \/ /\ files' = rotated
             /\ dropped' = dropped \cup Range(buf)
    BY DEF FlushLines
  <1>2. /\ buffer' = <<>> /\ rotateDue' = FALSE
        /\ currentDate' = IF DateRotationDue THEN day ELSE currentDate
    BY DEF FlushLines
  <1>3. Len(writtenOn) \in Nat /\ Lines \subseteq 1 .. all
    BY DEF LogInv, TypeOK, Lines
  <1>4. /\ rotated \in [Names -> Seq(Lines)] /\ Moved(rotated) /\ OpenFile \in Names
        /\ rotateBy = "date" => OpenFile >= currentDate
        /\ rotateBy = "size" => \A n \in Names : ~Newer(n, OpenFile)
        /\ NoneBeyond(rotated, OpenFile)
    BY RotationMoves
  <1>5. InOrder(rotated) /\ \A n \in Names : Range(rotated[n]) \subseteq Held
    BY <1>4, MovedKeeps
  <1>6. rotated \in [Names -> Seq(1 .. all)]
    <2>1. \A n \in Names : rotated[n] \in Seq(Lines)
      BY <1>4
    <2>2. \A n \in Names : rotated[n] \in Seq(1 .. all)
      BY <1>3, <2>1, InSeq
    <2> QED BY <1>4, <2>2
  <1>7. \A n \in Names : Newer(n, OpenFile) => rotated[n] = <<>>
    BY <1>4 DEF NoneBeyond, Newer, LogInv, TypeOK
  <1>8. files' \in [Names -> Seq(1 .. all)] /\ InOrder(files')
    <2>1. CASE files' = rotated
      BY <1>5, <1>6, <2>1
    <2>2. CASE files' = [rotated EXCEPT ![OpenFile] = @ \o buf]
      BY <1>4, <1>5, <1>6, <1>7, <2>2, AppendKeeps
    <2> QED BY <1>1, <2>1, <2>2
  <1>9. currentDate' \in 1 .. day
    BY <1>2 DEF LogInv, TypeOK
  <1>10. rotateBy = "date" => currentDate' = OpenFile
    BY <1>2 DEF OpenFile
  <1>11. NoneBeyond(files', currentDate')
    <2> SUFFICES ASSUME rotateBy = "date", NEW n \in Names, n > currentDate'
                 PROVE  files'[n] = <<>>
      BY DEF NoneBeyond
    <2>1. n > OpenFile /\ rotated[n] = <<>>
      BY <1>4, <1>10 DEF NoneBeyond
    <2>2. n # OpenFile
      BY <1>4, <2>1, NamesAreNats
    <2> QED BY <1>1, <1>6, <2>1, <2>2
  <1>12. dropped' \in SUBSET (1 .. all)
    <2>1. dropped \in SUBSET (1 .. all)
      BY <1>3 DEF LogInv, TypeOK
    <2>2. Range(buf) \subseteq 1 .. all
      BY DEF Range
    <2> QED BY <1>1, <2>1, <2>2
  <1> QED BY <1>2, <1>8, <1>9, <1>11, <1>12

\* What a step has to show, with the lines there are after it.
LEMMA Assembled ==
    ASSUME NEW all \in Nat, Len(writtenOn)' = all,
           writtenOn' \in Seq(1 .. MaxDay), rotateBy' = rotateBy,
           rotateBy \in {"size", "date"}, up' \in BOOLEAN, day' \in 1 .. MaxDay,
           currentDate' \in 1 .. day', rotateDue' \in BOOLEAN,
           buffer' \in Seq(1 .. all), Len(buffer') < FlushMax,
           files' \in [Names -> Seq(1 .. all)], dropped' \in SUBSET (1 .. all),
           InOrder(files'), Ascending(buffer'),
           \A n \in Names : \A k \in Range(files'[n]), i \in Range(buffer') : k < i,
           NoneBeyond(files', currentDate')
    PROVE  LogInv'
  <1>1. Lines' = 1 .. all
    BY DEF Lines
  <1>2. TypeOK'
    BY <1>1 DEF TypeOK, Names
  <1>3. LogInOrder'
    BY DEF LogInOrder, InOrder, Ascending, Held, Newer, Names
  <1>4. NoneBeyond(files, currentDate)'
    BY DEF NoneBeyond, Names
  <1> QED BY <1>2, <1>3, <1>4 DEF LogInv

LEMMA LogFacts ==
    ASSUME LogInv
    PROVE  /\ Len(writtenOn) \in Nat /\ writtenOn \in Seq(1 .. MaxDay)
           /\ rotateBy \in {"size", "date"} /\ up \in BOOLEAN /\ day \in 1 .. MaxDay
           /\ currentDate \in 1 .. day /\ rotateDue \in BOOLEAN
           /\ buffer \in Seq(Lines) /\ Len(buffer) < FlushMax
           /\ files \in [Names -> Seq(Lines)] /\ dropped \in SUBSET Lines
           /\ InOrder(files) /\ Ascending(buffer)
           /\ \A n \in Names : \A k \in Range(files[n]), i \in Range(buffer) : k < i
           /\ NoneBeyond(files, currentDate)
           /\ Lines = 1 .. Len(writtenOn)
  <1>1. \A n \in Names : Range(files[n]) \subseteq Held
    BY DEF Held
  <1> QED BY <1>1 DEF LogInv, TypeOK, LogInOrder, InOrder, Ascending, Lines

LEMMA EmptyBuffer ==
    /\ \A S : <<>> \in Seq(S)
    /\ Len(<<>>) = 0 /\ Len(<<>>) < FlushMax /\ Ascending(<<>>) /\ Range(<<>>) = {}
  BY LoggerAssumption DEF Ascending, Range

\* A flush outside of write: by the timer, or before the process ends.
LEMMA FlushStep ==
    ASSUME LogInv, FlushLines(buffer), up' \in BOOLEAN, UNCHANGED <<rotateBy, day, writtenOn>>
    PROVE  LogInv'
  <1> DEFINE all == Len(writtenOn)
  <1>0. all \in Nat /\ Len(writtenOn)' = all
    BY LogFacts
  <1>1. CASE buffer = <<>>
    <2>1. UNCHANGED <<currentDate, rotateDue, buffer, files, dropped>>
      BY <1>1 DEF FlushLines
    <2> QED BY <1>0, <2>1, LogFacts, Assembled
  <1>2. CASE buffer # <<>>
    <2>1. \A k \in Held, i \in Range(buffer) : k < i
      BY DEF LogInv, LogInOrder
    <2>2. buffer \in Seq(1 .. all) /\ Ascending(buffer) /\ all <= all
      BY <1>0, LogFacts
    <2> HIDE DEF all
    <2>3. /\ files' \in [Names -> Seq(1 .. all)] /\ InOrder(files')
          /\ buffer' = <<>> /\ rotateDue' = FALSE
          /\ currentDate' \in 1 .. day /\ NoneBeyond(files', currentDate')
          /\ dropped' \in SUBSET (1 .. all)
      BY <1>0, <1>2, <2>1, <2>2, FlushKeeps DEF all
    <2> QED BY <1>0, <2>3, EmptyBuffer, LogFacts, Assembled
  <1> QED BY <1>1, <1>2

\* The new line is newer than all others.
LEMMA WriteStep ==
    ASSUME LogInv, Write
    PROVE  LogInv'
  <1> DEFINE all == Len(writtenOn) + 1
             buf == Append(buffer, all)
  <1>1. /\ Len(writtenOn) \in Nat /\ all \in Nat /\ Lines = 1 .. Len(writtenOn)
        /\ Lines \subseteq 1 .. all
    BY LogFacts
  <1>2. /\ writtenOn' \in Seq(1 .. MaxDay) /\ Len(writtenOn') = all
    BY LogFacts DEF Write
  <1>3. /\ UNCHANGED <<rotateBy, up, day>>
        /\ \/ BufferFull(buf) /\ FlushLines(buf)
           \/ /\ ~BufferFull(buf) /\ buffer' = buf
              /\ UNCHANGED <<currentDate, rotateDue, files, dropped>>
    BY <1>2 DEF Write
  <1>4. /\ buf \in Seq(1 .. all) /\ buf # <<>> /\ Len(buf) = Len(buffer) + 1
        /\ Len(buffer) \in Nat /\ buf[Len(buffer) + 1] = all
        /\ \A i \in 1 .. Len(buffer) : buf[i] = buffer[i] /\ buffer[i] \in Lines
        /\ DOMAIN buf = 1 .. Len(buf) /\ DOMAIN buffer = 1 .. Len(buffer)
    <2>1. buffer \in Seq(Lines) /\ buffer \in Seq(1 .. all)
      BY <1>1, LogFacts, InSeq
    <2>2. /\ Len(buffer) \in Nat /\ DOMAIN buffer = 1 .. Len(buffer)
          /\ \A i \in 1 .. Len(buffer) : buffer[i] \in Lines
      BY <2>1
    <2>3. all \in 1 .. all
      BY <1>1
    <2> HIDE DEF all
    <2>4. buf \in Seq(1 .. all) /\ Len(buf) = Len(buffer) + 1
      BY <2>1, <2>3, AppendProperties
    <2>5. /\ buf[Len(buffer) + 1] = all
          /\ \A i \in 1 .. Len(buffer) : buf[i] = buffer[i]
      BY <2>1, <2>3, AppendProperties
    <2> HIDE DEF buf
    <2>6. DOMAIN buf = 1 .. Len(buf) /\ buf # <<>>
      BY <2>2, <2>4
    <2> QED BY <2>2, <2>4, <2>5, <2>6
  <1> HIDE DEF buf
  <1>5. Ascending(buf)
    <2> SUFFICES ASSUME NEW i \in 1 .. Len(buf), NEW j \in 1 .. Len(buf), i < j
                 PROVE  buf[i] < buf[j]
      BY <1>4 DEF Ascending
    <2>1. i \in 1 .. Len(buffer)
      BY <1>4
    <2>2. CASE j = Len(buffer) + 1
      BY <1>1, <1>4, <2>1, <2>2
    <2>3. CASE j \in 1 .. Len(buffer)
      BY <1>4, <2>1, <2>3, LogFacts DEF Ascending
    <2> QED BY <1>4, <2>2, <2>3
  <1>6. \A n \in Names : \A k \in Range(files[n]), i \in Range(buf) : k < i
    <2> SUFFICES ASSUME NEW n \in Names, NEW k \in Range(files[n]), NEW x \in 1 .. Len(buf)
                 PROVE  k < buf[x]
      BY <1>4, InRange
    <2>1. CASE x \in 1 .. Len(buffer)
      BY <1>4, <2>1, InRange, LogFacts
    <2>2. CASE x = Len(buffer) + 1
      <3>1. k \in Lines
        <4>1. files[n] \in Seq(Lines)
          BY LogFacts
        <4> QED BY <4>1, InSeq
      <3> QED BY <1>1, <1>4, <2>2, <3>1
    <2> QED BY <1>4, <2>1, <2>2
  <1>7. \A k \in Held, i \in Range(buf) : k < i
    BY <1>6 DEF Held
  <1>8. CASE FlushLines(buf)
    <2>1. Len(writtenOn) <= all
      BY <1>1
    <2> HIDE DEF all
    <2>2. /\ files' \in [Names -> Seq(1 .. all)] /\ InOrder(files')
          /\ buffer' = <<>> /\ rotateDue' = FALSE
          /\ currentDate' \in 1 .. day /\ NoneBeyond(files', currentDate')
          /\ dropped' \in SUBSET (1 .. all)
      BY <1>1, <1>4, <1>5, <1>7, <1>8, <2>1, FlushKeeps
    <2> QED BY <1>1, <1>2, <1>3, <2>2, EmptyBuffer, LogFacts, Assembled
  <1>9. CASE /\ ~BufferFull(buf) /\ buffer' = buf
             /\ UNCHANGED <<currentDate, rotateDue, files, dropped>>
    <2>1. Len(buf) < FlushMax
      BY <1>4, <1>9, LoggerAssumption DEF BufferFull
    <2>2. files \in [Names -> Seq(1 .. all)] /\ dropped \in SUBSET (1 .. all)
      <3>1. Seq(Lines) \subseteq Seq(1 .. all)
        BY <1>1
      <3> QED BY <1>1, <3>1, LogFacts
    <2> HIDE DEF all
    <2> QED BY <1>1, <1>2, <1>3, <1>4, <1>5, <1>6, <1>9, <2>1, <2>2, LogFacts, Assembled
  <1> QED BY <1>3, <1>8, <1>9

LEMMA LogStepInv == LogInv /\ [Next]_vars => LogInv'
  <1> SUFFICES ASSUME LogInv, [Next]_vars PROVE LogInv'
    OBVIOUS
  <1> DEFINE all == Len(writtenOn)
  <1>0. /\ all \in Nat /\ buffer \in Seq(1 .. all) /\ dropped \in SUBSET (1 .. all)
        /\ files \in [Names -> Seq(1 .. all)]
    BY LogFacts
  <1>1. CASE Write
    BY <1>1, WriteStep
  <1>2. CASE FlushTimer \/ Shutdown
    BY <1>2, FlushStep, LogFacts DEF FlushTimer, Shutdown
  <1>3. CASE CheckDue
    BY <1>0, <1>3, LogFacts, Assembled DEF CheckDue
  <1>4. CASE NewDay
    <2>1. day' \in 1 .. MaxDay /\ currentDate' \in 1 .. day'
      BY <1>4, LogFacts, LoggerAssumption DEF NewDay
    <2> QED BY <1>0, <1>4, <2>1, LogFacts, Assembled DEF NewDay
  <1>5. CASE Crash
    <2>1. dropped' \in SUBSET (1 .. all)
      <3>1. Range(buffer) \subseteq 1 .. all
        BY <1>0 DEF Range
      <3> QED BY <1>0, <1>5, <3>1 DEF Crash
    <2> QED BY <1>0, <1>5, <2>1, LogFacts, EmptyBuffer, Assembled DEF Crash
  <1>6. CASE Start
    <2>1. currentDate' \in 1 .. day' /\ day' \in 1 .. MaxDay
      BY <1>6, LogFacts DEF Start
    <2>2. NoneBeyond(files', currentDate')
      BY <1>6, LogFacts, NamesAreNats DEF Start, NoneBeyond
    <2> QED BY <1>0, <1>6, <2>1, <2>2, LogFacts, Assembled DEF Start
  <1>7. CASE UNCHANGED vars
    BY <1>0, <1>7, LogFacts, Assembled DEF vars
  <1> QED BY <1>1, <1>2, <1>3, <1>4, <1>5, <1>6, <1>7 DEF Next

LEMMA LogInitInv == Init => LogInv
  <1> SUFFICES ASSUME Init PROVE LogInv
    OBVIOUS
  <1>1. \A n \in Names : files[n] = <<>>
    BY DEF Init
  <1>2. TypeOK
    BY EmptyBuffer, LoggerAssumption DEF Init, TypeOK
  <1>3. LogInOrder
    BY <1>1, EmptyBuffer DEF Init, LogInOrder, Held, Ascending
  <1>4. NoneBeyond(files, currentDate)
    BY <1>1 DEF NoneBeyond
  <1> QED BY <1>2, <1>3, <1>4 DEF LogInv

\* The log's variables have their types, for any sizes, days and failures.
THEOREM LogTypes == Spec => []TypeOK
  <1>1. LogInv => TypeOK
    BY DEF LogInv
  <1> QED BY <1>1, LogInitInv, LogStepInv, PTL DEF Spec

\* However many files are kept, wherever a rotation or a prune fails and the
\* process dies, the files and the buffer hold the lines in the order they were
\* logged, each at most once (write, flush, rotateIfNeeded, _pruneOldLogs).
THEOREM LogStaysInOrder == Spec => []LogInOrder
  <1>1. LogInv => LogInOrder
    BY DEF LogInv
  <1> QED BY <1>1, LogInitInv, LogStepInv, PTL DEF Spec

-----------------------------------------------------------------------------
(* What a rotation gives up. *)

HeldIn(f) == UNION {Range(f[n]) : n \in Names}
Gone == Lines \ (Held \cup Range(buffer) \cup dropped)

\* The files of f that hold lines, and those that hold only lines after i.
KeptIn(f) == {n \in Names : f[n] # <<>>}
LaterIn(f, i) == {n \in KeptIn(f) : \A k \in Range(f[n]) : i < k}

\* Line i may be missing from f.
Old(f, i) ==
    IF rotateBy = "size" THEN LaterIn(f, i) = KeptIn(f)
    ELSE Cardinality(LaterIn(f, i)) >= MaxFiles

\* By size, no file is older than ".maxFiles".
NoneBehind(f) == rotateBy = "size" => \A n \in Names : n > MaxFiles => f[n] = <<>>

LossInv ==
    /\ LogInv
    /\ NoneBehind(files)
    /\ \A i \in Gone : Old(files, i) /\ \A x \in Range(buffer) : i < x

LEMMA NamesFinite ==
    /\ IsFiniteSet(Names)
    /\ \A S \in SUBSET Names : IsFiniteSet(S) /\ Cardinality(S) \in Nat
  <1>1. IsFiniteSet(Names)
    <2>1. (IF MaxFiles > MaxDay THEN MaxFiles ELSE MaxDay) \in Int /\ 0 \in Int
      BY LoggerAssumption
    <2> QED BY <2>1, FS_Interval DEF Names
  <1> QED BY <1>1, FS_Subset, FS_CardinalityType

\* A set of file names that is not empty has a greatest one.
LEMMA GreatestName ==
    ASSUME NEW S \in SUBSET Names, S # {}
    PROVE  \E x \in S : \A y \in S : y <= x
  <1> DEFINE above(x) == {n \in Names : n >= x}
             U == {above(x) : x \in S}
  <1>1. U \subseteq FiniteSubsetsOf(Names) /\ U # {}
    <2>1. \A x \in S : IsFiniteSet(above(x)) /\ above(x) \subseteq Names
      BY NamesFinite
    <2> QED BY <2>1 DEF FiniteSubsetsOf
  <1> HIDE DEF U
  <1>2. PICK u \in U : \A v \in U : ~(<<v, u>> \in StrictSubsetOrdering(Names))
    BY <1>1, FS_StrictSubsetOrderingWellFounded, WFMin
  <1>3. PICK x \in S : u = above(x)
    BY DEF U
  <1>4. ASSUME NEW y \in S, ~(y <= x) PROVE FALSE
    <2>1. above(y) \in U /\ above(y) \subseteq Names /\ above(x) \subseteq Names
      BY <1>4 DEF U
    <2>2. x \in Nat /\ y \in Nat /\ x < y
      BY <1>4, NamesAreNats
    <2>3. above(y) \subseteq above(x)
      <3>1. \A n \in Names : n \in Nat
        BY NamesAreNats
      <3>2. \A n \in Nat : n >= y => n >= x
        BY <2>2
      <3> QED BY <3>1, <3>2
    <2>4. x \in above(x) /\ x \notin above(y)
      BY <2>2
    <2> HIDE DEF above
    <2> QED BY <1>2, <1>3, <2>1, <2>3, <2>4 DEF StrictSubsetOrdering
  <1> QED BY <1>4

\* Renaming keeps every file but the oldest under some name.
LEMMA RenamesKeep ==
    ASSUME LogInv, NEW f \in RotatedBySize, NEW n \in Names, n # MaxFiles
    PROVE  Range(files[n]) \subseteq HeldIn(f)
  <1>1. n \in Nat /\ MaxFiles \in Nat \ {0} /\ \A k \in 0 .. MaxFiles : k \in Names
    BY NamesAreNats, LoggerAssumption
  <1>2. CASE f = files
    BY <1>2 DEF HeldIn
  <1>3. CASE f = [files EXCEPT ![MaxFiles] = <<>>]
    <2>1. f[n] = files[n]
      BY <1>3, LogFacts
    <2> QED BY <2>1 DEF HeldIn
  <1>4. ASSUME NEW j \in 1 .. MaxFiles, f = Shifted(j)
        PROVE  Range(files[n]) \subseteq HeldIn(f)
    <2>1. CASE ~Exists(n)
      <3>1. Range(files[n]) = {}
        BY <2>1 DEF Exists, Range
      <3> QED BY <3>1
    <2>2. CASE Exists(n) /\ n + 1 \in j .. MaxFiles
      <3>1. n + 1 \in Names /\ (n + 1) - 1 = n
        BY <1>1, <2>2
      <3>2. f[n + 1] = files[n]
        BY <1>4, <2>2, <3>1 DEF Shifted
      <3> QED BY <3>1, <3>2 DEF HeldIn
    <2>3. CASE n + 1 \notin j .. MaxFiles
      <3>1. n \notin j .. MaxFiles /\ n # j - 1
        BY <1>1, <2>3
      <3>2. f[n] = files[n]
        BY <1>4, <3>1 DEF Shifted
      <3> QED BY <3>2 DEF HeldIn
    <2> QED BY <2>1, <2>2, <2>3
  <1>5. \/ f = files
        \/ f = [files EXCEPT ![MaxFiles] = <<>>]
        \/ \E j \in 1 .. MaxFiles : f = Shifted(j)
    BY DEF RotatedBySize
  <1> QED BY <1>2, <1>3, <1>4, <1>5

\* By size, what goes is older than all that stays.
LEMMA SizeLoses ==
    ASSUME LossInv, rotateBy = "size", NEW f \in RotatedBySize,
           f \in [Names -> Seq(Lines)], Moved(f),
           NEW i, i \in Gone \cup (Held \ HeldIn(f))
    PROVE  Old(f, i)
  <1>0. LogInv /\ NoneBehind(files) /\ \A g \in Gone : Old(files, g)
    BY DEF LossInv
  <1>1. PICK from \in [Names -> Names] : \A n \in Names : f[n] = <<>> \/ f[n] = files[from[n]]
    BY DEF Moved
  <1>2. SUFFICES ASSUME NEW n \in Names, f[n] # <<>>, NEW k \in Range(f[n])
                 PROVE  i < k
    BY DEF Old, LaterIn, KeptIn
  <1>3. from[n] \in Names /\ f[n] = files[from[n]]
    BY <1>1, <1>2
  <1>4. CASE i \in Gone
    <2>1. LaterIn(files, i) = KeptIn(files)
      BY <1>0, <1>4 DEF Old
    <2>2. from[n] \in KeptIn(files)
      BY <1>2, <1>3 DEF KeptIn
    <2> QED BY <1>2, <1>3, <2>1, <2>2 DEF LaterIn
  <1>5. CASE i \in Held \ HeldIn(f)
    <2>1. PICK m \in Names : i \in Range(files[m])
      BY <1>5 DEF Held
    <2>2. m = MaxFiles
      BY <1>0, <1>5, <2>1, RenamesKeep
    <2>3. from[n] # m
      BY <1>3, <1>5, <2>1 DEF HeldIn
    <2>4. ~(from[n] > MaxFiles)
      BY <1>0, <1>2, <1>3 DEF NoneBehind
    <2>5. Newer(from[n], m)
      <3>1. from[n] \in Nat /\ MaxFiles \in Nat
        BY <1>3, NamesAreNats, LoggerAssumption
      <3>2. from[n] < m
        BY <2>2, <2>3, <2>4, <3>1
      <3> QED BY <3>2 DEF Newer
    <2> QED BY <1>0, <1>2, <1>3, <2>1, <2>5, LogFacts DEF InOrder
  <1> QED BY <1>4, <1>5

\* By date, what goes has MaxFiles files of later lines that stay: those newer
\* than the newest file pruned, if that one was later itself, or else all.
LEMMA DateLoses ==
    ASSUME LossInv, rotateBy # "size", NEW gone \in SUBSET BeyondNewest, NEW f,
           f = [n \in Names |-> IF n \in gone THEN <<>> ELSE files[n]],
           NEW i, i \in Gone \cup (Held \ HeldIn(f))
    PROVE  Old(f, i)
  <1> DEFINE later == LaterIn(files, i)
             newer(m) == {y \in Names : Exists(y) /\ y > m}
  <1>0. /\ LogInv /\ rotateBy = "date"
        /\ \A g \in Gone : Old(files, g)
        /\ MaxFiles \in Nat
    BY LogFacts, LoggerAssumption DEF LossInv
  <1>1. gone \subseteq Names /\ \A m \in gone : Exists(m) /\ Cardinality(newer(m)) >= MaxFiles
    BY DEF BeyondNewest
  <1>2. \A m \in gone : newer(m) \subseteq Names
    OBVIOUS
  <1>3. LaterIn(f, i) = later \ gone
    <2>1. \A n \in Names : n \in gone => f[n] = <<>>
      OBVIOUS
    <2>2. \A n \in Names : n \notin gone => f[n] = files[n]
      OBVIOUS
    <2> QED BY <2>1, <2>2 DEF LaterIn, KeptIn
  <1>4. \A m \in later, y \in Names : Exists(y) /\ y > m => y \in later
    <2> SUFFICES ASSUME NEW m \in later, NEW y \in Names, Exists(y), y > m,
                        NEW k \in Range(files[y])
                 PROVE  i < k
      BY DEF LaterIn, KeptIn, Exists
    <2>1. m \in Names /\ files[m] # <<>> /\ \A x \in Range(files[m]) : i < x
      BY DEF LaterIn, KeptIn
    <2>2. files[m] \in Seq(Lines) /\ files[y] \in Seq(Lines)
      BY <1>0, <2>1, LogFacts
    <2>3. 1 \in DOMAIN files[m] /\ files[m][1] \in Range(files[m])
      <3>1. 1 \in DOMAIN files[m]
        BY <2>1, <2>2
      <3> QED BY <3>1, InRange
    <2>4. files[m][1] < k
      BY <1>0, <2>1, <2>3, LogFacts DEF InOrder, Newer
    <2>5. i \in Lines /\ k \in Lines /\ files[m][1] \in Lines
      <3>1. i \in Lines
        <4>1. \A n \in Names : files[n] \in Seq(Lines)
          BY <1>0, LogFacts
        <4>2. Held \subseteq Lines
          BY <4>1, InSeq DEF Held
        <4> QED BY <4>2 DEF Gone
      <3> QED BY <2>2, <2>3, <3>1, InSeq
    <2>6. i < files[m][1]
      BY <2>1, <2>3
    <2>7. Lines \subseteq Nat
      BY <1>0, LogFacts
    <2>8. \A a, b, c \in Nat : a < b /\ b < c => a < c
      OBVIOUS
    <2> QED BY <2>4, <2>5, <2>6, <2>7, <2>8
  <1>5. later \subseteq Names
    BY DEF LaterIn, KeptIn
  <1>6. CASE later \cap gone = {}
    <2>1. LaterIn(f, i) = later
      BY <1>3, <1>6
    <2>2. CASE i \in Gone
      <3>1. Cardinality(later) >= MaxFiles
        BY <1>0, <2>2 DEF Old
      <3> QED BY <1>0, <2>1, <3>1 DEF Old
    <2>3. CASE i \in Held \ HeldIn(f)
      <3>1. PICK m \in Names : i \in Range(files[m])
        BY <2>3 DEF Held
      <3>2. m \in gone
        <4> SUFFICES ASSUME m \notin gone PROVE i \in HeldIn(f)
          BY <2>3
        <4>1. f[m] = files[m]
          OBVIOUS
        <4> QED BY <3>1, <4>1 DEF HeldIn
      <3>3. newer(m) \subseteq later
        BY <1>0, <3>1, LogFacts DEF InOrder, Newer, LaterIn, KeptIn, Exists
      <3>4. IsFiniteSet(later) /\ Cardinality(later) \in Nat /\ Cardinality(newer(m)) \in Nat
        BY <1>5, NamesFinite
      <3>5. Cardinality(newer(m)) <= Cardinality(later)
        BY <3>3, <3>4, FS_Subset
      <3>6. Cardinality(newer(m)) >= MaxFiles
        BY <1>1, <3>2
      <3>7. Cardinality(later) >= MaxFiles
        <4> HIDE DEF later, newer
        <4> QED BY <1>0, <3>4, <3>5, <3>6
      <3> QED BY <1>0, <2>1, <3>7 DEF Old
    <2> QED BY <2>2, <2>3
  <1>7. CASE later \cap gone # {}
    <2>1. PICK m \in later \cap gone : \A y \in later \cap gone : y <= m
      BY <1>5, <1>7, GreatestName
    <2>2. newer(m) \subseteq LaterIn(f, i)
      <3> SUFFICES ASSUME NEW y \in newer(m) PROVE y \in later /\ y \notin gone
        BY <1>3
      <3>1. y \in later
        BY <1>4, <2>1
      <3>2. ~(y <= m)
        BY <1>5, <2>1, NamesAreNats
      <3> QED BY <2>1, <3>1, <3>2
    <2>3. LaterIn(f, i) \subseteq Names
      BY <1>3, <1>5
    <2>4. /\ IsFiniteSet(LaterIn(f, i)) /\ Cardinality(LaterIn(f, i)) \in Nat
          /\ Cardinality(newer(m)) \in Nat
      BY <2>3, NamesFinite
    <2>5. Cardinality(newer(m)) <= Cardinality(LaterIn(f, i))
      BY <2>2, <2>4, FS_Subset
    <2>6. Cardinality(newer(m)) >= MaxFiles
      BY <1>1, <2>1
    <2>7. Cardinality(LaterIn(f, i)) >= MaxFiles
      <3> HIDE DEF newer
      <3> QED BY <1>0, <2>4, <2>5, <2>6
    <2> QED BY <1>0, <2>7 DEF Old
  <1> QED BY <1>6, <1>7

\* Whatever the rotation does.
LEMMA RotationLoses ==
    ASSUME LossInv, NEW f \in RotateIfNeeded
    PROVE  /\ NoneBehind(f)
           /\ \A i \in Gone \cup (Held \ HeldIn(f)) : Old(f, i)
           /\ rotateBy = "size" =>
                 \A n \in Names : n # MaxFiles => Range(files[n]) \subseteq HeldIn(f)
  <1>0. LogInv /\ NoneBehind(files) /\ \A g \in Gone : Old(files, g)
    BY DEF LossInv
  <1>1. f \in [Names -> Seq(Lines)] /\ Moved(f)
    BY <1>0, RotationMoves
  <1>2. CASE DateRotationDue
    <2>1. PICK gone \in SUBSET BeyondNewest :
             f = [n \in Names |-> IF n \in gone THEN <<>> ELSE files[n]]
      BY <1>2 DEF RotateIfNeeded, Pruned
    <2>2. rotateBy # "size"
      BY <1>2 DEF DateRotationDue
    <2>3. \A i \in Gone \cup (Held \ HeldIn(f)) : Old(f, i)
      BY <2>1, <2>2, DateLoses
    <2> QED BY <2>2, <2>3 DEF NoneBehind
  <1>3. CASE ~DateRotationDue /\ SizeRotationDue
    <2>1. f \in RotatedBySize /\ rotateBy = "size"
      BY <1>3 DEF RotateIfNeeded, SizeRotationDue
    <2>2. \A i \in Gone \cup (Held \ HeldIn(f)) : Old(f, i)
      BY <1>1, <2>1, SizeLoses
    <2>3. \A n \in Names : n # MaxFiles => Range(files[n]) \subseteq HeldIn(f)
      BY <1>0, <2>1, RenamesKeep
    <2>4. \A n \in Names : n > MaxFiles => f[n] = <<>>
      <3> SUFFICES ASSUME NEW n \in Names, n > MaxFiles PROVE f[n] = <<>>
        OBVIOUS
      <3>1. files[n] = <<>> /\ n \in Nat /\ MaxFiles \in Nat \ {0}
        BY <1>0, <2>1, NamesAreNats, LoggerAssumption DEF NoneBehind
      <3>2. CASE f = files \/ f = [files EXCEPT ![MaxFiles] = <<>>]
        BY <1>0, <3>1, <3>2, LogFacts
      <3>3. ASSUME NEW j \in 1 .. MaxFiles, f = Shifted(j) PROVE f[n] = <<>>
        <4>1. n \notin j .. MaxFiles /\ n # j - 1
          BY <3>1
        <4> QED BY <3>1, <3>3, <4>1 DEF Shifted
      <3> QED BY <2>1, <3>2, <3>3 DEF RotatedBySize
    <2> QED BY <2>2, <2>3, <2>4 DEF NoneBehind
  <1>4. CASE ~DateRotationDue /\ ~SizeRotationDue
    <2>1. f = files
      BY <1>4 DEF RotateIfNeeded
    <2>2. HeldIn(f) = Held
      BY <2>1 DEF HeldIn, Held
    <2>3. \A n \in Names : Range(files[n]) \subseteq HeldIn(f)
      BY <2>1 DEF HeldIn
    <2> QED BY <1>0, <2>1, <2>2, <2>3
  <1> QED BY <1>2, <1>3, <1>4

LEMMA RangeOfConcat ==
    ASSUME NEW S, NEW s \in Seq(S), NEW t \in Seq(S)
    PROVE  Range(s \o t) = Range(s) \cup Range(t)
  <1> DEFINE u == s \o t
  <1>1. /\ u \in Seq(S) /\ Len(u) = Len(s) + Len(t) /\ Len(s) \in Nat /\ Len(t) \in Nat
        /\ \A i \in 1 .. Len(u) : u[i] = IF i <= Len(s) THEN s[i] ELSE t[i - Len(s)]
    BY ConcatProperties
  <1>2. /\ DOMAIN s = 1 .. Len(s) /\ DOMAIN t = 1 .. Len(t)
    OBVIOUS
  <1> HIDE DEF u
  <1>3. DOMAIN u = 1 .. Len(u)
    BY <1>1
  <1>4. ASSUME NEW i \in DOMAIN u PROVE u[i] \in Range(s) \cup Range(t)
    <2>1. CASE i <= Len(s)
      <3>1. i \in DOMAIN s /\ u[i] = s[i]
        BY <1>1, <1>2, <1>3, <2>1
      <3> QED BY <3>1, InRange
    <2>2. CASE ~(i <= Len(s))
      <3>1. i - Len(s) \in DOMAIN t /\ u[i] = t[i - Len(s)]
        BY <1>1, <1>2, <1>3, <2>2
      <3> QED BY <3>1, InRange
    <2> QED BY <2>1, <2>2
  <1>5. ASSUME NEW i \in DOMAIN s PROVE s[i] \in Range(u)
    <2>1. i \in DOMAIN u /\ u[i] = s[i]
      BY <1>1, <1>2, <1>3
    <2> QED BY <2>1, InRange
  <1>6. ASSUME NEW i \in DOMAIN t PROVE t[i] \in Range(u)
    <2>1. Len(s) + i \in DOMAIN u /\ (Len(s) + i) - Len(s) = i /\ ~(Len(s) + i <= Len(s))
      BY <1>1, <1>2, <1>3
    <2>2. u[Len(s) + i] = t[i]
      BY <1>1, <1>3, <2>1
    <2> QED BY <2>1, <2>2, InRange
  <1>7. Range(u) \subseteq Range(s) \cup Range(t)
    BY <1>4, InRange
  <1>8. Range(s) \subseteq Range(u) /\ Range(t) \subseteq Range(u)
    BY <1>5, <1>6, InRange
  <1> QED BY <1>7, <1>8 DEF u

\* Later lines at the end of a file change nothing for an older one.
LEMMA AppendLoses ==
    ASSUME NEW f, NEW open \in Names, NEW all \in Nat, NEW buf \in Seq(1 .. all),
           f \in [Names -> Seq(1 .. all)], NEW i, Old(f, i),
           \A x \in Range(buf) : i < x
    PROVE  Old([f EXCEPT ![open] = @ \o buf], i)
  <1> DEFINE g == [f EXCEPT ![open] = @ \o buf]
  <1>1. /\ g[open] = f[open] \o buf
        /\ \A n \in Names \ {open} : g[n] = f[n]
    OBVIOUS
  <1>2. f[open] \in Seq(1 .. all)
    OBVIOUS
  <1> HIDE DEF g
  <1>3. Range(g[open]) \subseteq Range(f[open]) \cup Range(buf)
    BY <1>1, <1>2, RangeOfConcat
  <1>4. f[open] # <<>> => g[open] # <<>>
    BY <1>1, <1>2
  <1>5. LaterIn(f, i) \subseteq LaterIn(g, i)
    BY <1>1, <1>3, <1>4 DEF LaterIn, KeptIn
  <1>6. CASE rotateBy = "size"
    <2>1. LaterIn(f, i) = KeptIn(f)
      BY <1>6 DEF Old
    <2>2. f[open] = <<>> => Range(f[open]) = {}
      BY DEF Range
    <2>3. LaterIn(g, i) = KeptIn(g)
      BY <1>1, <1>3, <1>5, <2>1, <2>2 DEF LaterIn, KeptIn
    <2> QED BY <1>6, <2>3 DEF Old, g
  <1>7. CASE rotateBy # "size"
    <2>1. Cardinality(LaterIn(f, i)) >= MaxFiles
      BY <1>7 DEF Old
    <2>2. LaterIn(g, i) \subseteq Names /\ LaterIn(f, i) \subseteq Names
      BY DEF LaterIn, KeptIn
    <2>3. /\ IsFiniteSet(LaterIn(g, i))
          /\ Cardinality(LaterIn(g, i)) \in Nat /\ Cardinality(LaterIn(f, i)) \in Nat
      BY <2>2, NamesFinite
    <2>4. Cardinality(LaterIn(f, i)) <= Cardinality(LaterIn(g, i))
      BY <1>5, <2>3, FS_Subset
    <2>5. Cardinality(LaterIn(g, i)) >= MaxFiles
      BY <2>1, <2>3, <2>4, LoggerAssumption
    <2> QED BY <1>7, <2>5 DEF Old, g
  <1> QED BY <1>6, <1>7

\* Nothing but what a rotation gives up becomes gone in a flush.
LEMMA FlushLoses ==
    ASSUME LossInv, NEW all \in Nat, Len(writtenOn) <= all, NEW buf \in Seq(1 .. all),
           buf # <<>>, \A k \in Held, x \in Range(buf) : k < x,
           \A i \in Gone, x \in Range(buf) : i < x,
           FlushLines(buf), rotateBy' = rotateBy,
           Lines' \subseteq Lines \cup Range(buf), Range(buffer) \subseteq Range(buf)
    PROVE  /\ NoneBehind(files')
           /\ \A i \in Gone' : Old(files', i)
           /\ rotateBy = "size" =>
                 \A n \in Names : n # MaxFiles => Range(files[n]) \subseteq Held'
  <1>0. LogInv /\ NoneBehind(files)
    BY DEF LossInv
  <1>1. PICK f \in RotateIfNeeded :
          \/ /\ files' = [f EXCEPT ![OpenFile] = @ \o buf]
             /\ UNCHANGED dropped
          \/ /\ files' = f
             /\ dropped' = dropped \cup Range(buf)
    BY DEF FlushLines
  <1>2. /\ f \in [Names -> Seq(Lines)] /\ OpenFile \in Names
        /\ rotateBy = "size" => OpenFile = 0
    BY <1>0, RotationMoves DEF OpenFile
  <1>3. f \in [Names -> Seq(1 .. all)]
    <2>1. Lines \subseteq 1 .. all
      BY <1>0, LogFacts
    <2>2. \A n \in Names : f[n] \in Seq(1 .. all)
      BY ZenonT(60), <1>2, <2>1, InSeq
    <2> QED BY <1>2, <2>2
  <1>4. /\ NoneBehind(f)
        /\ \A i \in Gone \cup (Held \ HeldIn(f)) : Old(f, i)
        /\ rotateBy = "size" =>
              \A n \in Names : n # MaxFiles => Range(files[n]) \subseteq HeldIn(f)
    BY RotationLoses
  <1>5. /\ Held' = HeldIn(files')
        /\ HeldIn(f) \subseteq HeldIn(files')
        /\ files' = [f EXCEPT ![OpenFile] = @ \o buf] => Range(buf) \subseteq HeldIn(files')
    <2>1. Held' = HeldIn(files')
      BY DEF Held, HeldIn, Names
    <2>2. CASE files' # [f EXCEPT ![OpenFile] = @ \o buf]
      BY <1>1, <2>1, <2>2
    <2>3. CASE files' = [f EXCEPT ![OpenFile] = @ \o buf]
      <3>1. /\ files'[OpenFile] = f[OpenFile] \o buf
            /\ \A n \in Names \ {OpenFile} : files'[n] = f[n]
        BY <1>2, <2>3
      <3>2. f[OpenFile] \in Seq(1 .. all)
        BY <1>2, <1>3
      <3>3. /\ Range(f[OpenFile]) \subseteq Range(files'[OpenFile])
            /\ Range(buf) \subseteq Range(files'[OpenFile])
        BY <3>1, <3>2, RangeOfConcat
      <3>4. \A n \in Names : Range(f[n]) \subseteq Range(files'[n])
        BY <3>1, <3>3
      <3> QED BY <1>2, <2>1, <3>3, <3>4 DEF HeldIn
    <2> QED BY <2>2, <2>3
  <1>6. Gone' \subseteq Gone \cup (Held \ HeldIn(f))
    <2>1. Range(buf) \subseteq HeldIn(files') \cup dropped'
      BY <1>1, <1>5
    <2>2. dropped \subseteq dropped'
      BY <1>1
    <2>3. \A i \in Gone' : /\ i \in Lines' /\ i \notin HeldIn(files') /\ i \notin dropped'
      BY <1>5 DEF Gone
    <2> QED BY <1>5, <2>1, <2>2, <2>3 DEF Gone
  <1>7. \A i \in Gone \cup (Held \ HeldIn(f)) : \A x \in Range(buf) : i < x
    OBVIOUS
  <1>8. ASSUME NEW i \in Gone' PROVE Old(files', i)
    <2>1. Old(f, i) /\ \A x \in Range(buf) : i < x
      BY <1>4, <1>6, <1>7, <1>8
    <2>2. CASE files' = f
      BY <2>1, <2>2
    <2>3. CASE files' = [f EXCEPT ![OpenFile] = @ \o buf]
      BY <1>2, <1>3, <2>1, <2>3, AppendLoses
    <2> QED BY <1>1, <2>2, <2>3
  <1>9. NoneBehind(files')
    <2> SUFFICES ASSUME rotateBy = "size", NEW n \in Names, n > MaxFiles PROVE files'[n] = <<>>
      BY DEF NoneBehind
    <2>1. n # OpenFile
      BY <1>2, LoggerAssumption, NamesAreNats
    <2>2. f[n] = <<>>
      BY <1>4 DEF NoneBehind
    <2> QED BY <1>1, <1>2, <2>1, <2>2
  <1> QED BY <1>4, <1>5, <1>8, <1>9

LEMMA LossStepInv ==
    LossInv /\ [Next]_vars =>
        /\ LossInv'
        /\ files' # files /\ rotateBy = "size" =>
              \A n \in Names : n # MaxFiles => Range(files[n]) \subseteq Held'
  <1> SUFFICES ASSUME LossInv, [Next]_vars
               PROVE  /\ LossInv'
                      /\ files' # files /\ rotateBy = "size" =>
                            \A n \in Names : n # MaxFiles => Range(files[n]) \subseteq Held'
    OBVIOUS
  <1> DEFINE kept == files' # files /\ rotateBy = "size" =>
                        \A n \in Names : n # MaxFiles => Range(files[n]) \subseteq Held'
  <1>0. /\ LogInv /\ LogInv' /\ NoneBehind(files)
        /\ \A i \in Gone : Old(files, i) /\ \A x \in Range(buffer) : i < x
    BY LogStepInv DEF LossInv
  <1>1. rotateBy' = rotateBy
    BY DEF Next, vars, Write, FlushTimer, CheckDue, NewDay, Shutdown, Crash, Start
  <1>2. ASSUME NoneBehind(files'),
               \A i \in Gone' : Old(files', i) /\ \A x \in Range(buffer') : i < x
        PROVE  LossInv'
    <2>1. (\A i \in Gone : Old(files, i) /\ \A x \in Range(buffer) : i < x)'
      BY <1>1, <1>2 DEF Old, LaterIn, KeptIn, Names
    <2>2. NoneBehind(files)'
      BY <1>1, <1>2 DEF NoneBehind, Names
    <2> QED BY <1>0, <2>1, <2>2 DEF LossInv
  <1>3. ASSUME files' = files, Gone' \subseteq Gone, buffer' = buffer \/ buffer' = <<>>
        PROVE  LossInv'
    <2>1. \A x \in Range(buffer') : x \in Range(buffer)
      BY <1>3, EmptyBuffer
    <2>2. \A i \in Gone' : Old(files', i) /\ \A x \in Range(buffer') : i < x
      BY <1>0, <1>3, <2>1
    <2> QED BY <1>0, <1>2, <1>3, <2>2
  <1>4. CASE Write
    <2> DEFINE all == Len(writtenOn) + 1
               buf == Append(buffer, all)
    <2>1. /\ Len(writtenOn) \in Nat /\ all \in Nat /\ Len(writtenOn) <= all
          /\ Lines = 1 .. Len(writtenOn) /\ buffer \in Seq(Lines)
          /\ Len(writtenOn') = all
      <3>1. writtenOn' = Append(writtenOn, day)
        BY <1>4 DEF Write
      <3> QED BY <1>0, <3>1, LogFacts
    <2>2. /\ \/ BufferFull(buf) /\ FlushLines(buf)
             \/ /\ ~BufferFull(buf) /\ buffer' = buf
                /\ UNCHANGED <<currentDate, rotateDue, files, dropped>>
      BY <1>4, <2>1 DEF Write
    <2>3. Lines' = Lines \cup {all}
      <3>1. Lines' = 1 .. all
        BY <2>1 DEF Lines
      <3> QED BY <2>1, <3>1
    <2> HIDE DEF all
    <2>4. buffer \in Seq(1 .. all) /\ all \in 1 .. all
      BY <2>1, InSeq DEF all
    <2>5. PICK one \in Seq(1 .. all) : buf = buffer \o one /\ Range(one) = {all}
      <3>1. buf = buffer \o <<all>> /\ <<all>> \in Seq(1 .. all)
        BY <2>4, AppendIsConcat
      <3>2. DOMAIN <<all>> = {1} /\ <<all>>[1] = all
        OBVIOUS
      <3>3. Range(<<all>>) = {all}
        BY <3>2, InRange
      <3> QED BY <3>1, <3>3
    <2>6. Range(buf) = Range(buffer) \cup {all}
      BY <2>4, <2>5, RangeOfConcat
    <2>7. buf \in Seq(1 .. all) /\ buf # <<>>
      BY <2>4, AppendProperties
    <2> HIDE DEF buf
    <2>8. Held \subseteq Lines /\ Gone \subseteq Lines /\ \A i \in Lines : i < all
      <3>1. \A n \in Names : files[n] \in Seq(Lines)
        BY <1>0, LogFacts
      <3>2. Held \subseteq Lines
        BY <3>1, InSeq DEF Held
      <3>3. Gone \subseteq Lines
        BY DEF Gone
      <3>4. \A i \in Lines : i < all
        BY <2>1 DEF all
      <3> QED BY <3>2, <3>3, <3>4
    <2>9. \A k \in Held, x \in Range(buf) : k < x
      BY <1>0, <2>6, <2>8 DEF LogInv, LogInOrder
    <2>10. \A i \in Gone, x \in Range(buf) : i < x
      BY <1>0, <2>6, <2>8
    <2>11. CASE FlushLines(buf)
      <3>1. /\ NoneBehind(files') /\ \A i \in Gone' : Old(files', i)
            /\ rotateBy = "size" =>
                  \A n \in Names : n # MaxFiles => Range(files[n]) \subseteq Held'
        BY <1>1, <2>1, <2>3, <2>6, <2>7, <2>9, <2>10, <2>11, FlushLoses
      <3>2. Range(buffer') = {}
        BY <2>7, <2>11, EmptyBuffer DEF FlushLines
      <3> QED BY <1>2, <3>1, <3>2
    <2>12. CASE buffer' = buf /\ UNCHANGED <<currentDate, rotateDue, files, dropped>>
      <3>1. Gone' \subseteq Gone
        BY <2>3, <2>6, <2>12 DEF Gone, Held, Names
      <3>2. \A i \in Gone' : Old(files', i) /\ \A x \in Range(buffer') : i < x
        BY <1>0, <2>10, <2>12, <3>1
      <3> QED BY <1>0, <1>2, <2>12, <3>2
    <2> QED BY <2>2, <2>11, <2>12
  <1>5. CASE FlushTimer \/ Shutdown
    <2>1. FlushLines(buffer) /\ writtenOn' = writtenOn
      BY <1>5 DEF FlushTimer, Shutdown
    <2>2. Lines' = Lines
      BY <2>1 DEF Lines
    <2>3. CASE buffer = <<>>
      <3>1. UNCHANGED <<currentDate, rotateDue, buffer, files, dropped>>
        BY <2>1, <2>3 DEF FlushLines
      <3>2. Gone' = Gone
        BY <2>2, <3>1 DEF Gone, Held, Names
      <3> QED BY <1>3, <3>1, <3>2
    <2>4. CASE buffer # <<>>
      <3> DEFINE all == Len(writtenOn)
      <3>1. all \in Nat /\ buffer \in Seq(1 .. all) /\ Len(writtenOn) <= all
        BY <1>0, LogFacts
      <3>2. \A k \in Held, x \in Range(buffer) : k < x
        BY <1>0 DEF LogInv, LogInOrder
      <3> HIDE DEF all
      <3>3. /\ NoneBehind(files') /\ \A i \in Gone' : Old(files', i)
            /\ rotateBy = "size" =>
                  \A n \in Names : n # MaxFiles => Range(files[n]) \subseteq Held'
        BY <1>0, <1>1, <2>1, <2>2, <2>4, <3>1, <3>2, FlushLoses
      <3>4. Range(buffer') = {}
        BY <2>1, <2>4, EmptyBuffer DEF FlushLines
      <3> QED BY <1>2, <3>3, <3>4
    <2> QED BY <2>3, <2>4
  <1>6. CASE CheckDue \/ NewDay \/ Start \/ UNCHANGED vars
    <2>1. UNCHANGED <<buffer, files, writtenOn, dropped>>
      BY <1>6 DEF CheckDue, NewDay, Start, vars
    <2>2. Gone' = Gone
      BY <2>1 DEF Gone, Held, Names, Lines
    <2> QED BY <1>3, <2>1, <2>2
  <1>7. CASE Crash
    <2>1. /\ buffer' = <<>> /\ dropped' = dropped \cup Range(buffer)
          /\ UNCHANGED <<files, writtenOn>>
      BY <1>7 DEF Crash
    <2>2. Gone' \subseteq Gone
      BY <2>1 DEF Gone, Held, Names, Lines
    <2> QED BY <1>3, <2>1, <2>2
  <1> QED BY <1>4, <1>5, <1>6, <1>7 DEF Next

LEMMA LossInitInv == Init => LossInv
  <1> SUFFICES ASSUME Init PROVE LossInv
    OBVIOUS
  <1>1. Gone = {}
    BY LogFacts, LogInitInv DEF Gone, Init, Lines
  <1>2. NoneBehind(files)
    BY DEF Init, NoneBehind
  <1> QED BY <1>1, <1>2, LogInitInv DEF LossInv

\* However many files are kept and whichever renames, unlinks and appends fail
\* (rotateIfNeeded, _pruneOldLogs), a line that is gone is older than all that is
\* buffered and older than what is kept: than all of it by size, than MaxFiles
\* whole files of it by date, where a failed unlink may leave an older file.
THEOREM OnlyOldLinesGo == Spec => []OnlyOldLost
  <1>1. LossInv => OnlyOldLost
    <2> SUFFICES ASSUME LossInv PROVE OnlyOldLost
      OBVIOUS
    <2>1. \A i \in Gone : Old(files, i) /\ \A k \in Range(buffer) : i < k
      BY DEF LossInv
    <2> QED BY <2>1 DEF OnlyOldLost, Old, Gone, LaterIn, KeptIn, Exists
  <1> QED BY <1>1, LossInitInv, LossStepInv, PTL DEF Spec

\* Rotating by size loses no line but those of the oldest file name, wherever
\* the renames stop (rotateIfNeeded, by size).
THEOREM SizeRotationLosesTheLast == Spec => SizeRotationKeeps
  <1>1. LossInv /\ [Next]_vars =>
          [rotateBy = "size" =>
             \A n \in 0 .. MaxFiles - 1 : Range(files[n]) \subseteq Held']_files
    <2> SUFFICES ASSUME LossInv, [Next]_vars, files' # files, rotateBy = "size",
                        NEW n \in 0 .. MaxFiles - 1
                 PROVE  Range(files[n]) \subseteq Held'
      OBVIOUS
    <2>1. n \in Names /\ n # MaxFiles
      BY NamesAreNats, LoggerAssumption
    <2> QED BY <2>1, LossStepInv
  <1> QED BY <1>1, LossInitInv, LossStepInv, PTL DEF Spec, SizeRotationKeeps

-----------------------------------------------------------------------------
(* The file cache. *)

\* What a visit has learned so far, in the order it learned it.
VisitInOrder(v) ==
    /\ visit[v].asked <= version
    /\ visit[v].at \in {"statted", "read", "contents"} => visit[v].asked <= visit[v].mtimeMs
    /\ visit[v].at \in {"statted", "read", "contents"} => visit[v].mtimeMs <= version
    /\ visit[v].at = "contents" => visit[v].mtimeMs <= visit[v].data

\* The contents of the entry are at least as new as its time.
EntryHonest == cached.mtimeMs <= cached.data

CacheInv ==
    /\ CacheTypeOK
    /\ EntryHonest
    /\ \A v \in Visits : VisitInOrder(v)
    /\ ServedIsCurrent

LEMMA CacheInitInv == CacheInit => CacheInv
BY DEF CacheInit, CacheInv, CacheTypeOK, EntryHonest, VisitInOrder, ServedIsCurrent, At,
       NoEntry, Places

\* What one request does leaves the others where they are.
VisitOnly(v) == \A u \in Visits \ {v} : visit'[u] = visit[u]

Visit == [at : Places, asked : Nat, mtimeMs : Nat, data : Nat]

LEMMA OtherVisits ==
  ASSUME CacheInv, NEW v \in Visits, VisitOnly(v), version' = version,
         VisitInOrder(v)', (At(v, "served") => visit[v].data >= visit[v].asked)'
  PROVE  (\A u \in Visits : VisitInOrder(u))' /\ ServedIsCurrent'
<1>1. ASSUME NEW u \in Visits \ {v}
      PROVE  VisitInOrder(u)' /\ (At(u, "served") => visit[u].data >= visit[u].asked)'
  BY <1>1 DEF CacheInv, VisitOnly, VisitInOrder, ServedIsCurrent, At
<1> QED BY <1>1 DEF ServedIsCurrent

LEMMA CacheStepInv == CacheInv /\ [CacheNext]_cacheVars => CacheInv'
<1> SUFFICES ASSUME CacheInv, [CacheNext]_cacheVars PROVE CacheInv'
  OBVIOUS
<1>0. /\ version \in Nat /\ present \in BOOLEAN /\ cached \in [data : Nat, mtimeMs : Nat]
      /\ visit \in [Visits -> Visit] /\ EntryHonest /\ ServedIsCurrent
      /\ \A v \in Visits : VisitInOrder(v)
  BY DEF CacheInv, CacheTypeOK, Visit
<1>1. CASE Replace
  <2>1. version' = version + 1 /\ present' = TRUE /\ cached' = cached /\ visit' = visit
    BY <1>1 DEF Replace
  <2>2. CacheTypeOK'
    BY <2>1, <1>0 DEF CacheTypeOK, Visit
  <2>3. ASSUME NEW v \in Visits PROVE VisitInOrder(v)'
    <3>1. VisitInOrder(v) /\ visit[v] \in Visit
      BY <1>0
    <3> QED BY <2>1, <3>1, <1>0 DEF VisitInOrder, Visit
  <2>4. EntryHonest' /\ ServedIsCurrent'
    BY <2>1, <1>0 DEF EntryHonest, ServedIsCurrent, At
  <2> QED BY <2>2, <2>3, <2>4 DEF CacheInv
<1>2. CASE Remove
  BY <1>2 DEF Remove, CacheInv, CacheTypeOK, EntryHonest, ServedIsCurrent, VisitInOrder, At
<1>3. ASSUME NEW v \in Visits, Ask(v) PROVE CacheInv'
  <2>1. visit[v] \in Visit /\ visit[v].at = "new" /\ VisitInOrder(v)
    BY <1>3, <1>0 DEF Ask, At
  <2>2. visit'[v] = [visit[v] EXCEPT !.at = "stat", !.asked = version]
    BY <1>3, <1>0, <2>1 DEF Ask, Visit
  <2>3. /\ VisitOnly(v) /\ visit' \in [Visits -> Visit]
        /\ version' = version /\ present' = present
    BY <1>3, <1>0, <2>1 DEF Ask, VisitOnly, Visit, Places
  <2>4. cached' = cached
    BY <1>3 DEF Ask
  <2>5. CacheTypeOK' /\ EntryHonest'
    BY <1>0, <2>1, <2>3, <2>4 DEF CacheTypeOK, EntryHonest, Visit, VisitInOrder
  <2>6. VisitInOrder(v)' /\ (At(v, "served") => visit[v].data >= visit[v].asked)'
    BY <1>0, <2>1, <2>2, <2>3, <2>4 DEF VisitInOrder, At, Visit, EntryHonest
  <2> QED BY <2>3, <2>5, <2>6, OtherVisits DEF CacheInv
<1>4. ASSUME NEW v \in Visits, Stat(v) PROVE CacheInv'
  <2>1. visit[v] \in Visit /\ visit[v].at = "stat" /\ VisitInOrder(v)
    BY <1>4, <1>0 DEF Stat, At
  <2>2. visit'[v] = IF present THEN [visit[v] EXCEPT !.at = "statted", !.mtimeMs = version]
                               ELSE [visit[v] EXCEPT !.at = "not found"]
    BY <1>4, <1>0, <2>1 DEF Stat, Visit
  <2>3. /\ VisitOnly(v) /\ visit' \in [Visits -> Visit]
        /\ version' = version /\ present' = present
    BY <1>4, <1>0, <2>1 DEF Stat, VisitOnly, Visit, Places
  <2>4. cached' = cached
    BY <1>4 DEF Stat
  <2>5. CacheTypeOK' /\ EntryHonest'
    BY <1>0, <2>1, <2>3, <2>4 DEF CacheTypeOK, EntryHonest, Visit, VisitInOrder
  <2>6. VisitInOrder(v)' /\ (At(v, "served") => visit[v].data >= visit[v].asked)'
    <3>1. visit[v].asked <= version
      BY <2>1 DEF VisitInOrder
    <3>2. CASE present
      <4>1. /\ visit'[v].at = "statted" /\ visit'[v].asked = visit[v].asked
            /\ visit'[v].mtimeMs = version
        BY <3>2, <2>1, <2>2 DEF Visit
      <4> QED BY <4>1, <3>1, <2>3, <1>0 DEF VisitInOrder, At
    <3>3. CASE ~present
      <4>1. visit'[v].at = "not found" /\ visit'[v].asked = visit[v].asked
        BY <3>3, <2>1, <2>2 DEF Visit
      <4> QED BY <4>1, <3>1, <2>3 DEF VisitInOrder, At
    <3> QED BY <3>2, <3>3
  <2> QED BY <2>3, <2>5, <2>6, OtherVisits DEF CacheInv
<1>5. ASSUME NEW v \in Visits, Lookup(v) PROVE CacheInv'
  <2>1. visit[v] \in Visit /\ visit[v].at = "statted" /\ VisitInOrder(v)
    BY <1>5, <1>0 DEF Lookup, At
  <2>2. visit'[v] = IF cached # NoEntry /\ cached.mtimeMs = visit[v].mtimeMs
                    THEN [visit[v] EXCEPT !.at = "served", !.data = cached.data]
                    ELSE [visit[v] EXCEPT !.at = "read"]
    BY <1>5, <1>0, <2>1 DEF Lookup, Visit
  <2>3. /\ VisitOnly(v) /\ visit' \in [Visits -> Visit]
        /\ version' = version /\ present' = present
    BY <1>5, <1>0, <2>1 DEF Lookup, VisitOnly, Visit, Places
  <2>4. cached' = cached
    BY <1>5 DEF Lookup
  <2>5. CacheTypeOK' /\ EntryHonest'
    BY <1>0, <2>1, <2>3, <2>4 DEF CacheTypeOK, EntryHonest, Visit, VisitInOrder
  <2>6. VisitInOrder(v)' /\ (At(v, "served") => visit[v].data >= visit[v].asked)'
    BY <1>0, <2>1, <2>2, <2>3, <2>4 DEF VisitInOrder, At, Visit, EntryHonest
  <2> QED BY <2>3, <2>5, <2>6, OtherVisits DEF CacheInv
<1>6. ASSUME NEW v \in Visits, ReadFile(v) PROVE CacheInv'
  <2>1. visit[v] \in Visit /\ visit[v].at = "read" /\ VisitInOrder(v)
    BY <1>6, <1>0 DEF ReadFile, At
  <2>2. visit'[v] = IF present THEN [visit[v] EXCEPT !.at = "contents", !.data = version]
                               ELSE [visit[v] EXCEPT !.at = "error"]
    BY <1>6, <1>0, <2>1 DEF ReadFile, Visit
  <2>3. /\ VisitOnly(v) /\ visit' \in [Visits -> Visit]
        /\ version' = version /\ present' = present
    BY <1>6, <1>0, <2>1 DEF ReadFile, VisitOnly, Visit, Places
  <2>4. cached' = cached
    BY <1>6 DEF ReadFile
  <2>5. CacheTypeOK' /\ EntryHonest'
    BY <1>0, <2>1, <2>3, <2>4 DEF CacheTypeOK, EntryHonest, Visit, VisitInOrder
  <2>6. VisitInOrder(v)' /\ (At(v, "served") => visit[v].data >= visit[v].asked)'
    BY <1>0, <2>1, <2>2, <2>3, <2>4 DEF VisitInOrder, At, Visit, EntryHonest
  <2> QED BY <2>3, <2>5, <2>6, OtherVisits DEF CacheInv
<1>7. ASSUME NEW v \in Visits, Remember(v) PROVE CacheInv'
  <2>1. visit[v] \in Visit /\ visit[v].at = "contents" /\ VisitInOrder(v)
    BY <1>7, <1>0 DEF Remember, At
  <2>2. visit'[v] = [visit[v] EXCEPT !.at = "served"]
    BY <1>7, <1>0, <2>1 DEF Remember, Visit
  <2>3. /\ VisitOnly(v) /\ visit' \in [Visits -> Visit]
        /\ version' = version /\ present' = present
    BY <1>7, <1>0, <2>1 DEF Remember, VisitOnly, Visit, Places
  <2>4. cached' = [data |-> visit[v].data, mtimeMs |-> visit[v].mtimeMs]
    BY <1>7 DEF Remember, Entry
  <2>5. CacheTypeOK' /\ EntryHonest'
    BY <1>0, <2>1, <2>3, <2>4 DEF CacheTypeOK, EntryHonest, Visit, VisitInOrder
  <2>6. VisitInOrder(v)' /\ (At(v, "served") => visit[v].data >= visit[v].asked)'
    BY <1>0, <2>1, <2>2, <2>3, <2>4 DEF VisitInOrder, At, Visit, EntryHonest
  <2> QED BY <2>3, <2>5, <2>6, OtherVisits DEF CacheInv
<1>8. CASE UNCHANGED cacheVars
  BY <1>8 DEF cacheVars, CacheInv, CacheTypeOK, EntryHonest, ServedIsCurrent, VisitInOrder, At
<1> QED BY <1>1, <1>2, <1>3, <1>4, <1>5, <1>6, <1>7, <1>8 DEF CacheNext

\* Requests, stats, reads and replacements in any order never serve a file older
\* than the one that was there when it was asked for (handleRequest's cache).
THEOREM NeverStale == CacheSpec => []ServedIsCurrent
<1>1. CacheInv => ServedIsCurrent
  BY DEF CacheInv
<1> QED BY <1>1, CacheInitInv, CacheStepInv, PTL DEF CacheSpec

-----------------------------------------------------------------------------
(* The limiter. *)

\* Of a sequence of times: those since the start of a window, those before it
\* that one stretch of WindowMs can cover together with it, and those of the
\* stretch that ends with t.
Since(s, start)  == {i \in DOMAIN s : s[i] >= start}
Before(s, start) == {i \in DOMAIN s : s[i] < start /\ s[i] + WindowMs > start}
Within(s, t)     == {i \in DOMAIN s : s[i] <= t /\ s[i] + WindowMs > t}

LimiterTypeOK ==
    /\ clock \in Nat
    /\ buckets \in [Addresses -> {NoBucket} \cup [count : Nat, windowStart : Nat]]
    /\ allowed \in [Addresses -> Seq(Nat)]
    /\ refused \in [Addresses -> Seq(Nat)]

\* A bucket counts what was let through since its window started, up to the
\* limit; the stretch that ends where the window starts holds one less.
Counted(now, a, bucket) ==
    /\ bucket.windowStart <= now
    /\ \A i \in DOMAIN a : a[i] < bucket.windowStart + WindowMs
    /\ \E i \in DOMAIN a : a[i] = bucket.windowStart
    /\ Cardinality(Since(a, bucket.windowStart)) =
          IF bucket.count <= RequestsPerWindow THEN bucket.count ELSE RequestsPerWindow
    /\ Cardinality(Before(a, bucket.windowStart)) < RequestsPerWindow

\* What is kept of one address, with the times it was let through and refused.
Kept(now, a, r, bucket) ==
    /\ bucket = NoBucket => a = <<>>
    /\ bucket # NoBucket => Counted(now, a, bucket)
    /\ \A i \in DOMAIN a : a[i] <= now
    /\ \A i \in DOMAIN r : r[i] <= now
    /\ \A t \in 0 .. now : Cardinality(Within(a, t)) < 2 * RequestsPerWindow
    /\ \A i \in DOMAIN r : Cardinality(Within(a, r[i])) >= RequestsPerWindow

LimiterInv ==
    /\ LimiterTypeOK
    /\ \A ip \in Addresses : Kept(clock, allowed[ip], refused[ip], buckets[ip])

\* The sets of positions of a sequence are finite.
LEMMA Positions ==
    ASSUME NEW s \in Seq(Nat), NEW P \in SUBSET DOMAIN s
    PROVE  IsFiniteSet(P) /\ Cardinality(P) \in Nat
  <1>1. DOMAIN s = 1 .. Len(s) /\ Len(s) \in Nat
    OBVIOUS
  <1>2. IsFiniteSet(1 .. Len(s))
    BY <1>1, FS_Interval
  <1> QED BY <1>1, <1>2, FS_Subset, FS_CardinalityType

LEMMA Fewer ==
    ASSUME NEW S, IsFiniteSet(S), NEW T, T \subseteq S
    PROVE  IsFiniteSet(T) /\ Cardinality(T) <= Cardinality(S)
           /\ Cardinality(T) \in Nat /\ Cardinality(S) \in Nat
  BY FS_Subset, FS_CardinalityType

\* Appending a time adds a position and leaves the others.
LEMMA AppendedTime ==
    ASSUME NEW s \in Seq(Nat), NEW t \in Nat
    PROVE  LET u == Append(s, t)
               n == Len(s) + 1
           IN  /\ u \in Seq(Nat) /\ DOMAIN u = DOMAIN s \cup {n} /\ n \notin DOMAIN s
               /\ u[n] = t /\ \A i \in DOMAIN s : u[i] = s[i] /\ s[i] \in Nat
  OBVIOUS

\* A window that starts now: what is left of the one before it is less than
\* a window's worth.
LEMMA NewWindow ==
    ASSUME LimiterInv, NEW ip \in Addresses,
           buckets[ip] # NoBucket => clock >= buckets[ip].windowStart + WindowMs
    PROVE  LET a == Append(allowed[ip], clock)
           IN  Counted(clock, a, [count |-> 1, windowStart |-> clock])
  <1> DEFINE s == allowed[ip]
             a == Append(s, clock)
             n == Len(s) + 1
             ws == buckets[ip].windowStart
  <1>0. /\ clock \in Nat /\ s \in Seq(Nat) /\ Kept(clock, s, refused[ip], buckets[ip])
        /\ WindowMs \in Nat \ {0} /\ RequestsPerWindow \in Nat \ {0}
    BY LimiterAssumption DEF LimiterInv, LimiterTypeOK
  <1>1. /\ a \in Seq(Nat) /\ DOMAIN a = DOMAIN s \cup {n} /\ n \notin DOMAIN s
        /\ a[n] = clock /\ \A i \in DOMAIN s : a[i] = s[i] /\ s[i] \in Nat
    BY <1>0, AppendedTime
  <1> HIDE DEF a, n, s
  <1>2. CASE buckets[ip] = NoBucket
    <2>1. DOMAIN s = {}
      BY <1>0, <1>2 DEF Kept
    <2>2. Since(a, clock) = {n} /\ Before(a, clock) = {}
      BY <1>0, <1>1, <2>1 DEF Since, Before
    <2>3. Cardinality(Since(a, clock)) = 1 /\ Cardinality(Before(a, clock)) = 0
      BY <2>2, FS_Singleton, FS_EmptySet
    <2>4. \A i \in DOMAIN a : a[i] = clock
      BY <1>1, <2>1
    <2>5. \E i \in DOMAIN a : a[i] = clock
      BY <1>1
    <2> QED BY <1>0, <2>3, <2>4, <2>5 DEF Counted, a, s
  <1>3. CASE buckets[ip] # NoBucket
    <2>1. /\ Counted(clock, s, buckets[ip]) /\ ws \in Nat /\ clock >= ws + WindowMs
          /\ buckets[ip].count \in Nat
      BY <1>0, <1>3 DEF Kept, LimiterInv, LimiterTypeOK
    <2> HIDE DEF ws
    <2>2. \A i \in DOMAIN s : s[i] < clock
      BY SMTT(60), <1>0, <1>1, <2>1 DEF Counted, ws
    <2>3. Since(a, clock) = {n}
      BY <1>0, <1>1, <2>2 DEF Since
    <2>4. PICK k \in DOMAIN s : s[k] = ws
      BY <2>1 DEF Counted, ws
    <2>5. Before(a, clock) \subseteq Since(s, ws) \ {k}
      BY <1>0, <1>1, <2>1, <2>4 DEF Before, Since
    <2>6. k \in Since(s, ws)
      BY <1>0, <2>1, <2>4 DEF Since
    <2>7. IsFiniteSet(Since(s, ws)) /\ Cardinality(Since(s, ws)) \in Nat
      BY <1>0, Positions DEF Since
    <2>8. Cardinality(Since(s, ws)) <= RequestsPerWindow
      BY <1>0, <2>1 DEF Counted, ws
    <2>9. /\ IsFiniteSet(Since(s, ws) \ {k})
          /\ Cardinality(Since(s, ws) \ {k}) = Cardinality(Since(s, ws)) - 1
      BY <2>6, <2>7, FS_RemoveElement
    <2>10. Cardinality(Before(a, clock)) < RequestsPerWindow
      BY <1>0, <2>5, <2>7, <2>8, <2>9, Fewer
    <2>11. Cardinality(Since(a, clock)) = 1
      BY <2>3, FS_Singleton
    <2>12. \A i \in DOMAIN a : a[i] < clock + WindowMs
      BY <1>0, <1>1, <2>2
    <2>13. \E i \in DOMAIN a : a[i] = clock
      BY <1>1
    <2> DEFINE b == [count |-> 1, windowStart |-> clock]
    <2>14. b.count = 1 /\ b.windowStart = clock
      OBVIOUS
    <2> HIDE DEF b
    <2>15. Counted(clock, a, b)
      BY <1>0, <2>10, <2>11, <2>12, <2>13, <2>14 DEF Counted
    <2> QED BY <2>15 DEF b, a, s
  <1> QED BY <1>2, <1>3

\* One more in the window there is.
LEMMA SameWindow ==
    ASSUME LimiterInv, NEW ip \in Addresses, buckets[ip] # NoBucket,
           clock < buckets[ip].windowStart + WindowMs,
           buckets[ip].count + 1 <= RequestsPerWindow
    PROVE  Counted(clock, Append(allowed[ip], clock), [buckets[ip] EXCEPT !.count = @ + 1])
  <1> DEFINE s == allowed[ip]
             a == Append(s, clock)
             n == Len(s) + 1
             ws == buckets[ip].windowStart
             c == buckets[ip].count
  <1>0. /\ clock \in Nat /\ s \in Seq(Nat) /\ Kept(clock, s, refused[ip], buckets[ip])
        /\ WindowMs \in Nat \ {0} /\ RequestsPerWindow \in Nat \ {0}
        /\ buckets[ip] \in [count : Nat, windowStart : Nat]
    BY LimiterAssumption DEF LimiterInv, LimiterTypeOK
  <1>1. /\ a \in Seq(Nat) /\ DOMAIN a = DOMAIN s \cup {n} /\ n \notin DOMAIN s
        /\ a[n] = clock /\ \A i \in DOMAIN s : a[i] = s[i] /\ s[i] \in Nat
    BY <1>0, AppendedTime
  <1> HIDE DEF a, n, s
  <1>2. Counted(clock, s, buckets[ip]) /\ ws \in Nat /\ c \in Nat /\ ws <= clock
    BY <1>0 DEF Kept, Counted
  <1>3. LET b == [buckets[ip] EXCEPT !.count = @ + 1]
        IN  b.count = c + 1 /\ b.windowStart = ws
    BY <1>0
  <1>4. Since(a, ws) = Since(s, ws) \cup {n} /\ n \notin Since(s, ws)
    BY <1>0, <1>1, <1>2 DEF Since
  <1>5. Before(a, ws) = Before(s, ws)
    <2>1. ~(clock < ws)
      BY <1>0, <1>2
    <2> QED BY <1>1, <2>1 DEF Before
  <1>6. IsFiniteSet(Since(s, ws))
    BY <1>0, Positions DEF Since
  <1>7. Cardinality(Since(a, ws)) = Cardinality(Since(s, ws)) + 1
    BY <1>4, <1>6, FS_AddElement
  <1>8. Cardinality(Since(s, ws)) = c
    BY <1>0, <1>2 DEF Counted
  <1>9. /\ \A i \in DOMAIN a : a[i] < ws + WindowMs
        /\ \E i \in DOMAIN a : a[i] = ws
    BY <1>1, <1>2 DEF Counted
  <1>10. Cardinality(Before(a, ws)) < RequestsPerWindow
    BY <1>2, <1>5 DEF Counted
  <1> QED BY <1>2, <1>3, <1>7, <1>8, <1>9, <1>10 DEF Counted, a, s

\* A request that is counted leaves no stretch with two windows' worth.
LEMMA LetInKeeps ==
    ASSUME LimiterInv, NEW ip \in Addresses,
           NEW b \in [count : Nat, windowStart : Nat], b # NoBucket,
           Counted(clock, Append(allowed[ip], clock), b)
    PROVE  Kept(clock, Append(allowed[ip], clock), refused[ip], b)
  <1> DEFINE s == allowed[ip]
             r == refused[ip]
             a == Append(s, clock)
             n == Len(s) + 1
             ws == b.windowStart
  <1>0. /\ clock \in Nat /\ s \in Seq(Nat) /\ r \in Seq(Nat) /\ Kept(clock, s, r, buckets[ip])
        /\ WindowMs \in Nat \ {0} /\ RequestsPerWindow \in Nat \ {0} /\ ws \in Nat
    BY LimiterAssumption DEF LimiterInv, LimiterTypeOK
  <1>1. /\ a \in Seq(Nat) /\ DOMAIN a = DOMAIN s \cup {n} /\ n \notin DOMAIN s
        /\ a[n] = clock /\ \A i \in DOMAIN s : a[i] = s[i] /\ s[i] \in Nat
    BY <1>0, AppendedTime
  <1>2. Counted(clock, a, b)
    OBVIOUS
  <1> HIDE DEF a, n, s, ws
  <1>3. \A i \in DOMAIN a : a[i] <= clock
    BY <1>0, <1>1 DEF Kept
  <1>4. Cardinality(Within(a, clock)) < 2 * RequestsPerWindow
    <2>1. Within(a, clock) \subseteq Since(a, ws) \cup Before(a, ws)
      <3>1. ws \in Nat /\ ws <= clock
        BY <1>0, <1>2 DEF Counted, ws
      <3>2. \A i \in DOMAIN a : a[i] \in Nat
        BY <1>0, <1>1
      <3> QED BY <1>0, <3>1, <3>2 DEF Within, Since, Before
    <2>2. /\ IsFiniteSet(Since(a, ws)) /\ Cardinality(Since(a, ws)) \in Nat
          /\ IsFiniteSet(Before(a, ws)) /\ Cardinality(Before(a, ws)) \in Nat
      BY <1>1, Positions DEF Since, Before
    <2>3. /\ IsFiniteSet(Since(a, ws) \cup Before(a, ws))
          /\ Cardinality(Since(a, ws) \cup Before(a, ws))
               = Cardinality(Since(a, ws)) + Cardinality(Before(a, ws))
                 - Cardinality(Since(a, ws) \cap Before(a, ws))
      BY <2>2, FS_Union
    <2>4. Cardinality(Since(a, ws) \cap Before(a, ws)) \in Nat
      BY <2>2, Fewer
    <2>5. Cardinality(Within(a, clock)) \in Nat
          /\ Cardinality(Within(a, clock)) <= Cardinality(Since(a, ws) \cup Before(a, ws))
      BY <2>1, <2>3, Fewer
    <2>6. /\ Cardinality(Since(a, ws)) <= RequestsPerWindow
          /\ Cardinality(Before(a, ws)) < RequestsPerWindow
      BY <1>0, <1>2 DEF Counted, ws
    <2>7. Cardinality(Since(a, ws) \cup Before(a, ws)) \in Nat
      BY <2>3, FS_CardinalityType
    <2> QED BY <1>0, <2>2, <2>3, <2>4, <2>5, <2>6, <2>7
  <1>5. ASSUME NEW t \in 0 .. clock, t # clock PROVE Within(a, t) = Within(s, t)
    BY <1>0, <1>1, <1>5 DEF Within
  <1>6. \A t \in 0 .. clock : Cardinality(Within(a, t)) < 2 * RequestsPerWindow
    BY <1>0, <1>4, <1>5 DEF Kept
  <1>7. ASSUME NEW i \in DOMAIN r PROVE Cardinality(Within(a, r[i])) >= RequestsPerWindow
    <2>1. Within(s, r[i]) \subseteq Within(a, r[i])
      BY <1>1 DEF Within
    <2>2. IsFiniteSet(Within(a, r[i]))
      BY <1>1, Positions DEF Within
    <2>3. Cardinality(Within(s, r[i])) >= RequestsPerWindow
      BY <1>0 DEF Kept
    <2>4. /\ Cardinality(Within(s, r[i])) \in Nat /\ Cardinality(Within(a, r[i])) \in Nat
          /\ Cardinality(Within(s, r[i])) <= Cardinality(Within(a, r[i]))
      BY <2>1, <2>2, Fewer
    <2> QED BY <1>0, <2>3, <2>4
  <1>8. \A i \in DOMAIN r : r[i] <= clock
    BY <1>0 DEF Kept
  <1> QED BY <1>2, <1>3, <1>6, <1>7, <1>8 DEF Kept, a, s

\* A request is only refused behind a full window.
LEMMA RefusalKeeps ==
    ASSUME LimiterInv, NEW ip \in Addresses, buckets[ip] # NoBucket,
           clock < buckets[ip].windowStart + WindowMs,
           buckets[ip].count + 1 > RequestsPerWindow
    PROVE  Kept(clock, allowed[ip], Append(refused[ip], clock), [buckets[ip] EXCEPT !.count = @ + 1])
  <1> DEFINE s == allowed[ip]
             r == Append(refused[ip], clock)
             n == Len(refused[ip]) + 1
             ws == buckets[ip].windowStart
             c == buckets[ip].count
             b == [buckets[ip] EXCEPT !.count = @ + 1]
  <1>0. /\ clock \in Nat /\ s \in Seq(Nat) /\ refused[ip] \in Seq(Nat)
        /\ Kept(clock, s, refused[ip], buckets[ip])
        /\ WindowMs \in Nat \ {0} /\ RequestsPerWindow \in Nat \ {0}
        /\ buckets[ip] \in [count : Nat, windowStart : Nat]
    BY LimiterAssumption DEF LimiterInv, LimiterTypeOK
  <1>1. Counted(clock, s, buckets[ip]) /\ ws \in Nat /\ c \in Nat /\ c >= RequestsPerWindow
    BY <1>0 DEF Kept
  <1>2. /\ r \in Seq(Nat) /\ DOMAIN r = DOMAIN refused[ip] \cup {n}
        /\ r[n] = clock /\ \A i \in DOMAIN refused[ip] : r[i] = refused[ip][i]
    BY <1>0, AppendedTime
  <1>3. b.count = c + 1 /\ b.windowStart = ws
    BY <1>0
  <1> HIDE DEF r, n, s, ws, c, b
  <1>4. Cardinality(Since(s, ws)) = RequestsPerWindow
    BY <1>0, <1>1 DEF Counted, ws, c
  <1>5. Counted(clock, s, b)
    BY <1>0, <1>1, <1>3, <1>4 DEF Counted, ws
  <1>6. Cardinality(Within(s, clock)) >= RequestsPerWindow
    <2>1. \A i \in DOMAIN s : s[i] \in Nat /\ s[i] <= clock
      BY SMTT(60), <1>0 DEF Kept
    <2>2. Since(s, ws) \subseteq Within(s, clock)
      BY SMTT(60), <1>0, <1>1, <2>1 DEF Since, Within, ws
    <2>3. IsFiniteSet(Within(s, clock))
      BY <1>0, Positions DEF Within
    <2> QED BY <1>0, <1>4, <2>2, <2>3, Fewer
  <1>7. \A i \in DOMAIN r : r[i] <= clock /\ Cardinality(Within(s, r[i])) >= RequestsPerWindow
    BY <1>0, <1>2, <1>6 DEF Kept
  <1>8. b # NoBucket
    <2>1. DOMAIN b = {"count", "windowStart"}
      BY <1>0 DEF b
    <2>2. DOMAIN NoBucket = {"none"}
      BY DEF NoBucket
    <2> QED BY <2>1, <2>2
  <1> QED BY <1>0, <1>5, <1>7, <1>8 DEF Kept, r, s, b

LEMMA LimiterStepInv == LimiterInv /\ [LimiterNext]_limiterVars => LimiterInv'
  <1> SUFFICES ASSUME LimiterInv, [LimiterNext]_limiterVars PROVE LimiterInv'
    OBVIOUS
  <1>0. /\ LimiterTypeOK /\ WindowMs \in Nat \ {0} /\ RequestsPerWindow \in Nat \ {0}
        /\ \A ip \in Addresses : Kept(clock, allowed[ip], refused[ip], buckets[ip])
    BY LimiterAssumption DEF LimiterInv
  <1>1. CASE Pass
    <2>1. /\ clock' = clock + 1
          /\ buckets' = buckets /\ allowed' = allowed /\ refused' = refused
      BY <1>1 DEF Pass
    <2>2. LimiterTypeOK'
      BY <1>0, <2>1 DEF LimiterTypeOK
    <2>3. ASSUME NEW ip \in Addresses
          PROVE  Kept(clock, allowed[ip], refused[ip], buckets[ip])'
      <3> DEFINE s == allowed[ip]
      <3>1. /\ clock \in Nat /\ s \in Seq(Nat) /\ Kept(clock, s, refused[ip], buckets[ip])
            /\ refused[ip] \in Seq(Nat)
            /\ buckets[ip] \in {NoBucket} \cup [count : Nat, windowStart : Nat]
        BY <1>0 DEF LimiterTypeOK
      <3>2. \A i \in DOMAIN s : s[i] \in Nat /\ s[i] <= clock
        BY <3>1 DEF Kept
      <3>2a. \A i \in DOMAIN refused[ip] : refused[ip][i] \in Nat /\ refused[ip][i] <= clock
        BY <3>1 DEF Kept
      <3>3. Within(s, clock + 1) \subseteq Within(s, clock)
        BY <1>0, <3>1, <3>2 DEF Within
      <3>4. IsFiniteSet(Within(s, clock))
        BY <3>1, Positions DEF Within
      <3>5. Cardinality(Within(s, clock)) < 2 * RequestsPerWindow
        BY <3>1 DEF Kept
      <3>6. Cardinality(Within(s, clock + 1)) < 2 * RequestsPerWindow
        BY <1>0, <3>3, <3>4, <3>5, Fewer
      <3>7. \A t \in 0 .. clock + 1 : Cardinality(Within(s, t)) < 2 * RequestsPerWindow
        <4>1. \A t \in 0 .. clock + 1 : t \in 0 .. clock \/ t = clock + 1
          BY <3>1
        <4> QED BY <3>1, <3>6, <4>1 DEF Kept
      <3>8. buckets[ip] # NoBucket => Counted(clock, s, buckets[ip])'
        <4> SUFFICES ASSUME buckets[ip] # NoBucket PROVE Counted(clock, s, buckets[ip])'
          BY <2>1
        <4>1. Counted(clock, s, buckets[ip]) /\ buckets[ip].windowStart \in Nat
          BY <3>1 DEF Kept
        <4>2. buckets[ip].windowStart <= clock'
          BY <2>1, <3>1, <4>1 DEF Counted
        <4> QED BY <2>1, <4>1, <4>2 DEF Counted
      <3>9. \A i \in DOMAIN s : s[i] <= clock'
        BY <2>1, <3>1, <3>2
      <3>10. \A i \in DOMAIN refused[ip] : refused[ip][i] <= clock'
        BY <2>1, <3>1, <3>2a
      <3> QED BY <2>1, <3>1, <3>7, <3>8, <3>9, <3>10 DEF Kept
    <2> QED BY <2>2, <2>3 DEF LimiterInv
  <1>2. ASSUME NEW ip \in Addresses, IsAllowed(ip) PROVE LimiterInv'
    <2> DEFINE b == [Bucket(ip) EXCEPT !.count = @ + 1]
               old == buckets[ip]
               over == old = NoBucket \/ clock >= old.windowStart + WindowMs
    <2>1. /\ clock \in Nat /\ Kept(clock, allowed[ip], refused[ip], old)
          /\ old = NoBucket \/ old \in [count : Nat, windowStart : Nat]
          /\ allowed[ip] \in Seq(Nat) /\ refused[ip] \in Seq(Nat)
      BY <1>0 DEF LimiterTypeOK
    <2>2. /\ over => b = [count |-> 1, windowStart |-> clock]
          /\ over => Bucket(ip).count = 0
          /\ ~over => b = [old EXCEPT !.count = @ + 1] /\ Bucket(ip) = old
      BY DEF Bucket
    <2>3. b \in [count : Nat, windowStart : Nat] /\ Bucket(ip).count \in Nat
      <3>1. CASE over
        BY <2>1, <2>2, <3>1
      <3>2. CASE ~over
        BY <2>1, <2>2, <3>2
      <3> QED BY <3>1, <3>2
    <2>4. b # NoBucket
      <3> HIDE DEF b
      <3>1. DOMAIN b = {"count", "windowStart"}
        BY <2>3
      <3>2. DOMAIN NoBucket = {"none"}
        BY DEF NoBucket
      <3> QED BY <3>1, <3>2
    <2>5. clock' = clock /\ buckets' = [buckets EXCEPT ![ip] = b]
      BY <1>2 DEF IsAllowed
    <2>6. LimiterTypeOK' /\ Kept(clock, allowed[ip], refused[ip], buckets[ip])'
      <3> HIDE DEF b, over, old
      <3>0. buckets'[ip] = b
            /\ buckets' \in [Addresses -> {NoBucket} \cup [count : Nat, windowStart : Nat]]
        BY <1>0, <2>3, <2>5 DEF LimiterTypeOK
      <3>1. CASE Bucket(ip).count + 1 <= RequestsPerWindow
        <4>1. allowed' = [allowed EXCEPT ![ip] = Append(@, clock)] /\ refused' = refused
          BY <1>2, <3>1 DEF IsAllowed
        <4>2. /\ allowed'[ip] = Append(allowed[ip], clock)
              /\ allowed' \in [Addresses -> Seq(Nat)]
          BY <1>0, <2>1, <4>1 DEF LimiterTypeOK
        <4>3. Counted(clock, Append(allowed[ip], clock), b)
          <5>1. CASE over
            BY <2>2, <5>1, NewWindow DEF over, old
          <5>2. CASE ~over
            <6>1. clock < old.windowStart + WindowMs
              BY <1>0, <2>1, <5>2 DEF over
            <6> QED BY <2>2, <3>1, <5>2, <6>1, SameWindow DEF over, old
          <5> QED BY <5>1, <5>2
        <4>4. Kept(clock, Append(allowed[ip], clock), refused[ip], b)
          BY <2>3, <2>4, <4>3, LetInKeeps
        <4>5. Kept(clock, allowed[ip], refused[ip], buckets[ip])'
          BY <2>5, <3>0, <4>1, <4>2, <4>4
        <4> QED BY <1>0, <2>5, <3>0, <4>1, <4>2, <4>5 DEF LimiterTypeOK
      <3>2. CASE ~(Bucket(ip).count + 1 <= RequestsPerWindow)
        <4>1. refused' = [refused EXCEPT ![ip] = Append(@, clock)] /\ allowed' = allowed
          BY <1>2, <3>2 DEF IsAllowed
        <4>2. /\ refused'[ip] = Append(refused[ip], clock)
              /\ refused' \in [Addresses -> Seq(Nat)]
          BY <1>0, <2>1, <4>1 DEF LimiterTypeOK
        <4>3. ~over
          BY <1>0, <2>2, <3>2
        <4>4. clock < old.windowStart + WindowMs /\ old.count + 1 > RequestsPerWindow
          BY <1>0, <2>1, <2>2, <2>3, <3>2, <4>3 DEF over
        <4>5. Kept(clock, allowed[ip], Append(refused[ip], clock), b)
          BY <2>2, <4>3, <4>4, RefusalKeeps DEF over, old
        <4>6. Kept(clock, allowed[ip], refused[ip], buckets[ip])'
          BY <2>5, <3>0, <4>1, <4>2, <4>5
        <4> QED BY <1>0, <2>5, <3>0, <4>1, <4>2, <4>6 DEF LimiterTypeOK
      <3> QED BY <3>1, <3>2
    <2>7. ASSUME NEW other \in Addresses, other # ip
          PROVE  Kept(clock, allowed[other], refused[other], buckets[other])'
      <3>1. /\ allowed'[other] = allowed[other] /\ refused'[other] = refused[other]
            /\ buckets'[other] = buckets[other]
        BY <1>0, <1>2, <2>5, <2>7 DEF IsAllowed, LimiterTypeOK
      <3> QED BY <1>0, <2>5, <3>1
    <2> QED BY <2>6, <2>7 DEF LimiterInv
  <1>3. CASE UNCHANGED limiterVars
    BY <1>0, <1>3 DEF limiterVars, LimiterInv, LimiterTypeOK
  <1> QED BY <1>1, <1>2, <1>3 DEF LimiterNext

LEMMA LimiterInitInv == LimiterInit => LimiterInv
  <1> SUFFICES ASSUME LimiterInit PROVE LimiterInv
    OBVIOUS
  <1>1. LimiterTypeOK
    BY DEF LimiterInit, LimiterTypeOK
  <1>2. ASSUME NEW ip \in Addresses PROVE Kept(clock, allowed[ip], refused[ip], buckets[ip])
    <2>1. allowed[ip] = <<>> /\ refused[ip] = <<>> /\ buckets[ip] = NoBucket
      BY DEF LimiterInit
    <2>2. \A t : Within(<<>>, t) = {}
      BY DEF Within
    <2>3. \A t : Cardinality(Within(<<>>, t)) = 0
      BY <2>2, FS_EmptySet
    <2> QED BY <2>1, <2>3, LimiterAssumption DEF Kept
  <1> QED BY <1>1, <1>2 DEF LimiterInv

\* For any limit, window and number of requests (RateLimiter.isAllowed, which keeps
\* a count and the start of a window, no list of calls, and counts refused
\* requests too): in no stretch as long as the window are two windows' worth let
\* through, and a request is refused only if a window's worth was let through in
\* the stretch that ends with it.
THEOREM LimiterBoundsEveryStretch == LimiterSpec => []LimiterExact
  <1>1. LimiterInv => LimiterExact
    BY DEF LimiterInv, LimiterExact, Kept, LetThrough, Within
  <1> QED BY <1>1, LimiterInitInv, LimiterStepInv, PTL DEF LimiterSpec

-----------------------------------------------------------------------------
(* The ping sweep. *)

PingSpec == PingInit /\ [][PingNext]_pingVars

Answers == {"idle", "pending", "ok", "fail", "unavailable"}

PingTypes ==
    /\ standing \in [PingClients -> {"new", "authorized", "gone"}]
    /\ hostMap \subseteq PingClients
    /\ pinged \subseteq PingClients
    /\ answers \in [Hosts -> Answers]

\* The flag that keeps other sweeps away is set exactly while a sweep is under
\* way for somebody, and the sweep has asked exactly the hosts of its clients.
FlagMeansSweep ==
    /\ pingSweepInFlight <=> hostMap # {}
    /\ \A h \in Hosts : answers[h] # "idle" <=> \E c \in hostMap : HostOf[c] = h

\* Only those who have authorized are swept or have a ping in their metrics.
OnlyMinersPinged == \A c \in hostMap \cup pinged : standing[c] # "new"

SweepInv == PingTypes /\ FlagMeansSweep /\ OnlyMinersPinged

\* A trigger begins a sweep for those authorized by then, or is lost.
LEMMA TriggerSweeps ==
    ASSUME SweepInv, RunMinerPingSweep,
           standing' \in [PingClients -> {"new", "authorized", "gone"}],
           \A c \in PingClients : standing[c] # "new" => standing'[c] # "new",
           pinged' = pinged
    PROVE  SweepInv'
  <1>1. CASE SweepMayRun
    <2>1. Launch(AuthorizedNow)
      BY <1>1 DEF RunMinerPingSweep
    <2>2. AuthorizedNow \subseteq PingClients
      BY DEF AuthorizedNow
    <2>3. PingTypes'
      BY <2>1, <2>2 DEF SweepInv, PingTypes, Launch, Answers, Hosts
    <2>4. FlagMeansSweep'
      BY <2>1 DEF FlagMeansSweep, Launch, Hosts
    <2>5. OnlyMinersPinged'
      BY <2>1 DEF SweepInv, OnlyMinersPinged, PingTypes, Launch, AuthorizedNow
    <2> QED BY <2>3, <2>4, <2>5 DEF SweepInv
  <1>2. CASE ~SweepMayRun
    <2>1. UNCHANGED <<pingSweepInFlight, hostMap, answers>>
      BY <1>2 DEF RunMinerPingSweep
    <2> QED BY <2>1 DEF SweepInv, PingTypes, FlagMeansSweep, OnlyMinersPinged, Hosts
  <1> QED BY <1>1, <1>2

LEMMA SweepStep == SweepInv /\ [PingNext]_pingVars => SweepInv'
  <1> SUFFICES ASSUME SweepInv, [PingNext]_pingVars PROVE SweepInv'
    OBVIOUS
  <1>1. ASSUME NEW c \in PingClients, AuthorizePing(c) PROVE SweepInv'
    <2>1. standing' = [standing EXCEPT ![c] = "authorized"] /\ pinged' = pinged
      BY <1>1 DEF AuthorizePing
    <2>2. /\ standing' \in [PingClients -> {"new", "authorized", "gone"}]
          /\ \A e \in PingClients : standing[e] # "new" => standing'[e] # "new"
      BY <2>1 DEF SweepInv, PingTypes
    <2> QED BY <1>1, <2>1, <2>2, TriggerSweeps DEF AuthorizePing
  <1>2. CASE SweepTimer
    BY <1>2, TriggerSweeps DEF SweepTimer, SweepInv, PingTypes
  <1>3. ASSUME NEW h \in Hosts, PingHost(h) PROVE SweepInv'
    <2>1. PICK result \in {"ok", "fail", "unavailable"} :
             answers' = [answers EXCEPT ![h] = result]
      BY <1>3 DEF PingHost
    <2>2. UNCHANGED <<standing, pingSweepInFlight, hostMap, pinged>> /\ answers[h] = "pending"
      BY <1>3 DEF PingHost
    <2>3. PingTypes' /\ OnlyMinersPinged'
      BY <2>1, <2>2 DEF SweepInv, PingTypes, OnlyMinersPinged, Answers, Hosts
    <2>4. \A g \in Hosts : answers'[g] # "idle" <=> answers[g] # "idle"
      BY <2>1, <2>2 DEF SweepInv, PingTypes
    <2>5. FlagMeansSweep'
      BY <2>2, <2>4 DEF SweepInv, FlagMeansSweep, Hosts
    <2> QED BY <2>3, <2>5 DEF SweepInv
  <1>4. CASE SweepDone
    <2>1. /\ pingSweepInFlight' = FALSE /\ hostMap' = {} /\ standing' = standing
          /\ answers' = [h \in Hosts |-> "idle"]
          /\ pinged' \subseteq pinged \cup hostMap
      BY <1>4 DEF SweepDone
    <2>2. PingTypes' /\ OnlyMinersPinged'
      BY <2>1 DEF SweepInv, PingTypes, OnlyMinersPinged, Answers, Hosts
    <2>3. FlagMeansSweep'
      BY <2>1 DEF FlagMeansSweep, Hosts
    <2> QED BY <2>2, <2>3 DEF SweepInv
  <1>5. ASSUME NEW c \in PingClients, Leave(c) PROVE SweepInv'
    <2>1. /\ standing' = [standing EXCEPT ![c] = "gone"]
          /\ UNCHANGED <<pingSweepInFlight, hostMap, answers, pinged>>
      BY <1>5 DEF Leave
    <2> QED BY <2>1 DEF SweepInv, PingTypes, FlagMeansSweep, OnlyMinersPinged, Hosts
  <1>6. CASE UNCHANGED pingVars
    BY <1>6 DEF pingVars, SweepInv, PingTypes, FlagMeansSweep, OnlyMinersPinged, Hosts
  <1> QED BY <1>1, <1>2, <1>3, <1>4, <1>5, <1>6 DEF PingNext

\* For any miners and hosts: the flag that turns other sweeps away is never set
\* without a sweep that has a host to wait for, a host is asked for exactly as
\* long as a sweep in flight includes it, and nobody is swept or gets a ping who
\* has not authorized.  With this the sweep's end needs no more than that every
\* ping process ends (pingHost's timeout).
THEOREM SweepsAreAwaited == PingSpec => [](FlagMeansSweep /\ OnlyMinersPinged)
  <1>1. PingInit => SweepInv
    BY DEF PingInit, SweepInv, PingTypes, FlagMeansSweep, OnlyMinersPinged, Answers, Hosts
  <1>2. SweepInv => FlagMeansSweep /\ OnlyMinersPinged
    BY DEF SweepInv
  <1> QED BY <1>1, <1>2, SweepStep, PTL DEF PingSpec
=============================================================================
