-------------------------------- MODULE IniFile --------------------------------
(***************************************************************************)
(* The configuration file of ini.c and the threads that use it at once.    *)
(*                                                                         *)
(*   GetIniKeyString takes no lock.  It reads the file line by line into   *)
(*   one static buffer and returns a pointer into it.  Both MQTT threads   *)
(*   and cmd_main read all their keys when they start, and cmd_main one    *)
(*   key in every round from then on.                                      *)
(*   PutIniKeyString rewrites the whole file under ini_mutex; only the     *)
(*   light control of haas_mqtt.c calls it.                                *)
(*                                                                         *)
(* A line stands for what stdio reads or writes at a time; it is the title *)
(* of a section, a key with its value, or empty; comments are left out.    *)
(* Both functions compare over the length of what they have read: an empty *)
(* line passes for every title, and a key for every one that begins with   *)
(* it (dev_add for dev_add02).  Neither notices that the next section has  *)
(* begun.                                                                  *)
(***************************************************************************)
EXTENDS Integers, Sequences

CONSTANTS
  Threads,
  Writer,      \* the thread that calls PutIniKeyString
  Poller,      \* the thread that reads a key in every round
  Wanted,      \* per thread, the keys it reads when it starts
  Polled,      \* the key of the rounds
  Written,     \* the key PutIniKeyString is called for
  Lines,       \* the titles, keys and empty lines of the file, in its order
  SectionOf,   \* per key, the title it is asked for under
  Shorter,     \* per key, the others in the file that it begins with
  Empty,       \* the empty line
  MaxPuts,     \* bound on the calls of PutIniKeyString
  MaxCrashes,  \* bound on the restarts
  Nil

Keys == DOMAIN SectionOf
Names == {Lines[i] : i \in DOMAIN Lines}
Sections == {SectionOf[k] : k \in Keys}

\* No key is in the file twice: the program numbers those it has in several
\* sections (dev_add01, dev_add02).  Without this the first one after the
\* title, or after an empty line, would be taken.
ASSUME LinesAssumption ==
  /\ Lines \in Seq(Names) /\ Nil \notin Names /\ Empty \notin Keys
  /\ Keys \subseteq Names
  /\ \A i, j \in DOMAIN Lines : Lines[i] \in Keys /\ Lines[i] = Lines[j] => i = j
\* A title, being in brackets, is no key and no beginning of one.
ASSUME ShorterAssumption ==
  /\ Shorter \in [Keys -> SUBSET Names]
  /\ Sections \cap Keys = {}
  /\ \A k \in Keys : Shorter[k] \cap (Sections \cup {Empty, k}) = {}
ASSUME WantedAssumption == Wanted \in [Threads -> Seq(Keys)] /\ Polled \in Keys /\ Written \in Keys
ASSUME ThreadsAssumption == {Writer, Poller} \subseteq Threads
ASSUME BoundsAssumption == MaxPuts \in Nat /\ MaxCrashes \in Nat

VARIABLES
  disk,     \* the lines of the file
  sLine,    \* sLine of GetIniKeyString, shared by its callers
  get,      \* per thread, its place in GetIniKeyString
  todo,     \* per thread, the keys it has still to read
  got,      \* per thread, what its last read returned
  mutex,    \* whether ini_mutex is held
  put,      \* the Writer's place in PutIniKeyString, and sBuf
  puts,     \* number of calls so far
  crashes,  \* number of restarts so far
  failed,   \* history: PutIniKeyString returned -1 since the last restart
  damaged   \* history: a restart found the file half written

readers == <<sLine, get, todo, got>>
writer == <<mutex, put, puts, failed>>
fileVars == <<disk, readers, writer, crashes, damaged>>

\* Every key has a value of its own at first; PutIniKeyString writes the number
\* of the call.  0 is what a key that is not found reads as.
Missing == 0
First == -1
Junk == -2
Values == {Missing, First, Junk} \cup 1..MaxPuts
Line == [key : Names, val : Values]
NotReading ==
  [at |-> "idle", key |-> Nil, pos |-> 0, name |-> Nil, inside |-> FALSE, crossed |-> FALSE]

FileTypeOK ==
  /\ disk \in Seq(Line) /\ Len(disk) <= Len(Lines)
  /\ sLine \in Line \cup {Nil}
  /\ get \in [Threads -> [at : {"idle", "line", "match", "use"}, key : Keys \cup {Nil},
                          pos : 0..Len(Lines), name : Names \cup {Nil}, inside : BOOLEAN, crossed : BOOLEAN]]
  /\ todo \in [Threads -> Seq(Keys)]
  /\ got \in [Threads -> Values \cup {Nil}]
  /\ mutex \in BOOLEAN
  /\ put.at \in {"idle", "lock", "open", "truncate", "write"} /\ put.buf \in Seq(Line)
  /\ puts \in 0..MaxPuts /\ crashes \in 0..MaxCrashes
  /\ failed \in BOOLEAN /\ damaged \in BOOLEAN

NoneRead == [t \in Threads |-> Nil]
PutIdle == [at |-> "idle", buf |-> <<>>]

\* The file as the user wrote it, and the same with the value v in line i.
AsWritten == [i \in DOMAIN Lines |-> [key |-> Lines[i], val |-> First]]
Version(i, v) == [AsWritten EXCEPT ![i].val = v]

FileInit ==
  /\ disk = AsWritten
  /\ sLine = Nil /\ get = [t \in Threads |-> NotReading] /\ todo = Wanted /\ got = NoneRead
  /\ mutex = FALSE /\ put = PutIdle /\ puts = 0 /\ failed = FALSE
  /\ crashes = 0 /\ damaged = FALSE

\* The line is taken for the title the key is asked for under.
Titles(name, k) == name \in {Empty, SectionOf[k]}

\* The line is taken for that of the key.
Matches(name, k) == name = k \/ name \in Shorter[k]

-----------------------------------------------------------------------------
(* GetIniKeyString and GetIniKeyInt.                                       *)

\* What other threads do to this one's read is noted: the file changed under
\* it, or its line was overwritten.
Cross(g, S) == [t \in Threads |-> IF t \in S THEN [g[t] EXCEPT !.crossed = TRUE] ELSE g[t]]
Reading == {t \in Threads : get[t].at # "idle"}
OnLine == {t \in Threads : get[t].at \in {"match", "use"}}

GetOpen(t) ==
  /\ get[t].at = "idle" /\ todo[t] # <<>>
  /\ t = Writer => put.at = "idle"
  /\ get' = [get EXCEPT ![t] = [NotReading EXCEPT !.at = "line", !.key = Head(todo[t])]]
  /\ got' = [got EXCEPT ![t] = Nil]
  /\ UNCHANGED <<disk, sLine, todo, writer, crashes, damaged>>

Return(t, v) ==
  /\ got' = [got EXCEPT ![t] = v]
  /\ todo' = [todo EXCEPT ![t] = Tail(@)]
  /\ UNCHANGED <<disk, writer, crashes, damaged>>

\* fgets into the shared line.
GetLine(t) ==
  /\ get[t].at = "line" /\ get[t].pos < Len(disk)
  /\ sLine' = disk[get[t].pos + 1]
  /\ get' = Cross([get EXCEPT ![t].at = "match", ![t].pos = @ + 1], OnLine)
  /\ UNCHANGED <<disk, todo, got, writer, crashes, damaged>>

GetEnd(t) ==
  /\ get[t].at = "line" /\ get[t].pos >= Len(disk)
  /\ get' = [get EXCEPT ![t] = NotReading]
  /\ Return(t, Missing) /\ UNCHANGED sLine

\* Fault: the first key is taken.
GetMatchAny(t) ==
  /\ get[t].at = "match"
  /\ get' = [get EXCEPT ![t].at = "use", ![t].name = sLine.key]
  /\ UNCHANGED <<disk, sLine, todo, got, writer, crashes, damaged>>

\* `inside` is flag: once set it stays.
GetMatch(t) ==
  /\ get[t].at = "match"
  /\ LET k == get[t].key
         found == get[t].inside /\ Matches(sLine.key, k)
     IN  get' = [get EXCEPT ![t].at = IF found THEN "use" ELSE "line",
                            ![t].name = IF found THEN sLine.key ELSE Nil,
                            ![t].inside = get[t].inside \/ Titles(sLine.key, k)]
  /\ UNCHANGED <<disk, sLine, todo, got, writer, crashes, damaged>>

\* The caller converts what the pointer, behind the name that was found, points
\* to by now.
GetUse(t) ==
  /\ get[t].at = "use"
  /\ get' = [get EXCEPT ![t] = NotReading]
  /\ Return(t, IF sLine.key = get[t].name THEN sLine.val ELSE Junk) /\ UNCHANGED sLine

\* cmd_main reads upload_time in every round.
Round ==
  /\ todo[Poller] = <<>> /\ todo' = [todo EXCEPT ![Poller] = <<Polled>>]
  /\ UNCHANGED <<disk, sLine, get, got, writer, crashes, damaged>>

-----------------------------------------------------------------------------
(* PutIniKeyString.                                                        *)

Put(from, to) == put.at = from /\ put' = [put EXCEPT !.at = to]

PutCall ==
  /\ todo[Writer] = <<>> /\ puts < MaxPuts
  /\ Put("idle", "lock") /\ puts' = puts + 1
  /\ UNCHANGED <<disk, readers, mutex, failed, crashes, damaged>>

PutLock ==
  /\ ~mutex /\ mutex' = TRUE
  /\ Put("lock", "open")
  /\ UNCHANGED <<disk, readers, puts, failed, crashes, damaged>>

\* The file is not there, does not open, cannot be locked or is too long: the
\* function returns as it is, with the mutex.
PutFail ==
  /\ Put("open", "idle") /\ failed' = TRUE
  /\ UNCHANGED <<disk, readers, mutex, puts, crashes, damaged>>

\* Line i passes for the key's, behind one that passes for its title.
Taken(f, k, i) ==
  /\ Matches(f[i].key, k)
  /\ \E j \in 1..(i - 1) : Titles(f[j].key, k)

\* The first such line, if there is one.
Found(f, k) == {i \in DOMAIN f : Taken(f, k, i) /\ \A j \in 1..(i - 1) : ~Taken(f, k, j)}

\* Fault: reading stops behind the line that is replaced.
ReplacedOnly(f, k, v) ==
  LET hit == CHOOSE i \in Found(f, k) : TRUE
  IN  IF Found(f, k) = {} THEN f ELSE SubSeq([f EXCEPT ![hit].val = v], 1, hit)

Replaced(f, k, v) ==
  LET hit == CHOOSE i \in Found(f, k) : TRUE
  IN  IF Found(f, k) = {} THEN f ELSE [f EXCEPT ![hit].val = v]

PutRead ==
  /\ put.at = "open"
  /\ put' = [at |-> "truncate", buf |-> Replaced(disk, Written, puts)]
  /\ UNCHANGED <<disk, readers, mutex, puts, failed, crashes, damaged>>

PutTruncate ==
  /\ Put("truncate", "write")
  /\ disk' = <<>> /\ get' = Cross(get, Reading)
  /\ UNCHANGED <<sLine, todo, got, mutex, puts, failed, crashes, damaged>>

PutLine ==
  /\ put.at = "write" /\ Len(disk) < Len(put.buf)
  /\ disk' = Append(disk, put.buf[Len(disk) + 1]) /\ get' = Cross(get, Reading)
  /\ UNCHANGED <<sLine, todo, got, writer, crashes, damaged>>

\* Fault: the mutex is kept on the way out.
PutReturnLocked ==
  /\ put.at = "write" /\ Len(disk) = Len(put.buf)
  /\ put' = PutIdle
  /\ UNCHANGED <<disk, readers, mutex, puts, failed, crashes, damaged>>

PutReturn ==
  /\ put.at = "write" /\ Len(disk) = Len(put.buf)
  /\ put' = PutIdle /\ mutex' = FALSE
  /\ UNCHANGED <<disk, readers, puts, failed, crashes, damaged>>

-----------------------------------------------------------------------------
\* The process ends, by exit() in another thread or with the power, and starts
\* again.
Crash ==
  /\ crashes < MaxCrashes /\ crashes' = crashes + 1
  /\ damaged' = (damaged \/ (put.at = "write" /\ Len(disk) < Len(put.buf)))
  /\ sLine' = Nil /\ get' = [t \in Threads |-> NotReading] /\ todo' = Wanted /\ got' = NoneRead
  /\ mutex' = FALSE /\ put' = PutIdle /\ failed' = FALSE
  /\ UNCHANGED <<disk, puts>>

Get(t) == GetOpen(t) \/ GetLine(t) \/ GetEnd(t) \/ GetMatch(t) \/ GetUse(t)
PutStep == PutLock \/ PutFail \/ PutRead \/ PutTruncate \/ PutLine \/ PutReturn

FileNext == (\E t \in Threads : Get(t)) \/ Round \/ PutCall \/ PutStep \/ Crash

FileSpec == FileInit /\ [][FileNext]_fileVars

\* The scheduler lets every thread go on.
FairFileSpec == FileSpec /\ WF_fileVars(PutStep) /\ \A t \in Threads : WF_fileVars(Get(t))

-----------------------------------------------------------------------------
(* Properties.                                                             *)

\* A shorter key stands between (what passes for) the title and the line of the
\* key, which is not reached then.
Shadows(k) ==
  {i \in DOMAIN Lines : /\ Lines[i] \in Shorter[k]
                        /\ \E j \in 1..(i - 1) : Titles(Lines[j], k)
                        /\ \E j \in DOMAIN Lines : j > i /\ Lines[j] = k}
Shadowed(k) == Shadows(k) # {}

\* A file that no crash has caught half written is, whenever nobody is writing,
\* the one the user wrote, with the number of some call in the line of the
\* written key, or in one that shadows it.
Changed == IF Shadowed(Written) THEN Shadows(Written) ELSE {i \in DOMAIN Lines : Lines[i] = Written}
FileWhole ==
  /\ FileTypeOK
  /\ ~damaged /\ put.at # "write" =>
       \E i \in Changed, v \in {First} \cup 1..puts : disk = Version(i, v)

\* What the file has for a key: the value of its line in its section, which is
\* the one whose title is the last above it.
InSection(f, i, title) ==
  \E j \in 1..i : f[j].key = title /\ \A n \in (j + 1)..i : f[n].key \notin Sections
Value(f, k) ==
  LET lines == {i \in DOMAIN f : f[i].key = k /\ InSection(f, i, SectionOf[k])}
  IN  IF lines = {} THEN Missing ELSE f[CHOOSE i \in lines : TRUE].val

\* The user wrote every key into the section that it is asked for under.
ASSUME SectionsAssumption ==
  \A i \in DOMAIN Lines : Lines[i] \in Keys => InSection(AsWritten, i, SectionOf[Lines[i]])

\* A read that no other thread crossed returns what the file has for its key in
\* its section, although empty lines pass for titles and other keys begin as it
\* does, unless one of them shadows it.  In particular, at start other wrong
\* numbers can only come from threads that read at the same time.
GetsRight ==
  [][\A t \in Threads :
       /\ get[t].at # "idle" /\ get'[t].at = "idle" /\ ~get[t].crossed /\ crashes' = crashes
       /\ ~Shadowed(get[t].key)
       => got'[t] = Value(disk, get[t].key)]_fileVars

\* PutIniKeyString returns, if it has not returned an error before, and reading
\* comes to an end, although the file may be truncated and grow meanwhile.
CallsReturn ==
  /\ put.at # "idle" ~> put.at = "idle" \/ failed
  /\ \A t \in Threads : get[t].at # "idle" ~> get[t].at = "idle"
================================================================================
