------------------------------ MODULE FileCache ------------------------------
(***************************************************************************)
(* The file cache of the dashboard's server (lib/webguiServer.js:          *)
(* handleRequest), for one file that is replaced while requests overlap.   *)
(* A request asks the file system twice, and everything can happen between *)
(* an answer and the code that awaits it.                                  *)
(*                                                                         *)
(* The contents of a file are its version, and every write gives the file  *)
(* a new modification time: the version stands for both.                   *)
(***************************************************************************)
EXTENDS Naturals

CONSTANTS
    Visits,        \* requests for the file
    MaxVersion     \* bound: versions of the file

ASSUME CacheAssumption == MaxVersion \in Nat \ {0}

VARIABLES
    version,       \* the file's last version
    present,       \* the file exists
    cached,        \* _fileCache's entry
    visit          \* per request: where it is, and what it has learned

cacheVars == <<version, present, cached, visit>>

NoEntry == [data |-> 0, mtimeMs |-> 0]

At(v, place) == visit[v].at = place

Ask(v) ==
    /\ At(v, "new")
    /\ visit' = [visit EXCEPT ![v].at = "stat", ![v].asked = version]
    /\ UNCHANGED <<version, present, cached>>

\* The file system answers stat.
Stat(v) ==
    /\ At(v, "stat")
    /\ visit' = IF present
                THEN [visit EXCEPT ![v].at = "statted", ![v].mtimeMs = version]
                ELSE [visit EXCEPT ![v].at = "not found"]
    /\ UNCHANGED <<version, present, cached>>

\* The code behind the await of stat.
Lookup(v) ==
    /\ At(v, "statted")
    /\ visit' = IF cached # NoEntry /\ cached.mtimeMs = visit[v].mtimeMs
                THEN [visit EXCEPT ![v].at = "served", ![v].data = cached.data]
                ELSE [visit EXCEPT ![v].at = "read"]
    /\ UNCHANGED <<version, present, cached>>

\* The file system answers readFile; a file that has gone fails the request.
ReadFile(v) ==
    /\ At(v, "read")
    /\ visit' = IF present
                THEN [visit EXCEPT ![v].at = "contents", ![v].data = version]
                ELSE [visit EXCEPT ![v].at = "error"]
    /\ UNCHANGED <<version, present, cached>>

\* Mutant: the entry gets the time the file has by now.
Entry_Restat(v) == [data |-> visit[v].data, mtimeMs |-> version]

\* The entry made of a read: the contents with the time of the stat before it.
Entry(v) == [data |-> visit[v].data, mtimeMs |-> visit[v].mtimeMs]

\* The code behind the await of readFile.
Remember(v) ==
    /\ At(v, "contents")
    /\ cached' = Entry(v)
    /\ visit' = [visit EXCEPT ![v].at = "served"]
    /\ UNCHANGED <<version, present>>

Replace ==
    /\ version < MaxVersion
    /\ version' = version + 1
    /\ present' = TRUE
    /\ UNCHANGED <<cached, visit>>

Remove ==
    /\ present
    /\ present' = FALSE
    /\ UNCHANGED <<version, cached, visit>>

CacheInit ==
    /\ version = 1
    /\ present = TRUE
    /\ cached = NoEntry
    /\ visit = [v \in Visits |-> [at |-> "new", asked |-> 0, mtimeMs |-> 0, data |-> 0]]

CacheNext ==
    \/ Replace \/ Remove
    \/ \E v \in Visits : Ask(v) \/ Stat(v) \/ Lookup(v) \/ ReadFile(v) \/ Remember(v)

CacheSpec == CacheInit /\ [][CacheNext]_cacheVars

-----------------------------------------------------------------------------
Places == {"new", "stat", "statted", "read", "contents", "served", "not found", "error"}

CacheTypeOK ==
    /\ version \in Nat
    /\ present \in BOOLEAN
    /\ cached \in [data : Nat, mtimeMs : Nat]
    /\ visit \in [Visits -> [at : Places, asked : Nat, mtimeMs : Nat, data : Nat]]

\* Nobody is served an older file than the one that was there when they asked,
\* however stats, reads and replacements interleave: the entry of a slow reader
\* may replace a newer one, but never passes for it.
ServedIsCurrent ==
    \A v \in Visits : At(v, "served") => visit[v].data >= visit[v].asked
=============================================================================
