---------------------------- MODULE SessionStore ----------------------------
(***************************************************************************)
(* How the REPL keeps its session on disk: runREPL() (src/src/main.ts),    *)
(* ReplSessionService (services/replSession.ts), SessionManager and the    *)
(* session operations of FileMemoryService.  A save takes the transcript,  *)
(* names the file, truncates and writes a temporary file and renames it;   *)
(* the throttled save of a turn is not awaited and shares the temporary    *)
(* file with those that are.  The process may be killed between any two    *)
(* steps; the disk keeps what was written.  A transcript stands for its    *)
(* session, its age, its length and whether it has a system message.       *)
(* write() of one snapshot is one step, the order of files by time and the *)
(* counters beside the transcript are left out, and so are archiving and   *)
(* pruning, which nothing calls.                                           *)
(***************************************************************************)
EXTENDS Naturals

CONSTANTS
  Ids, NoId,      \* session ids; null
  Plans,          \* the planning phase may come: {FALSE}, or {FALSE, TRUE}
  KeptSize,       \* the length of a transcript after a compaction (7)
  MaxRevision,    \* bound: how often transcripts grow
  MaxStarts,      \* bound: processes one after the other
  MaxFailures     \* bound: file operations that fail

ASSUME IdsAssumption == NoId \notin Ids
ASSUME SizeAssumption == KeptSize \in Nat \ {0} /\ Plans \subseteq BOOLEAN

VARIABLES
  at,           \* what the REPL does; "down" between two processes
  session,      \* getState().sessionId
  used,         \* the ids given out so far
  transcript,   \* engine.getMessages()
  revision,     \* counts the transcripts
  initialized,
  saves,        \* the saves in flight
  file, tmp,    \* <id>.json and <id>.json.tmp of each session
  kept,         \* the newest transcript of each session whose save has ended well
  overlapped,   \* two saves have been in flight at a time
  starts, failures

ram  == <<at, session, used, transcript, revision, initialized>>
disk == <<file, tmp>>
vars == <<ram, saves, disk, kept, overlapped, starts, failures>>

\* The throttled save after a turn, the awaited one after a query or before
\* /exit, and the one before a signal or a fatal error ends the process.
Saves == {"turn", "query", "last"}
Texts == [of : Ids \cup {NoId}, rev : Nat, size : Nat, system : BOOLEAN]
Blank == [of |-> NoId, rev |-> 0, size |-> 0, system |-> FALSE]

Contents == [kind : {"absent", "empty", "torn", "whole"}, text : Texts]
Absent == [kind |-> "absent", text |-> Blank]
Empty  == [kind |-> "empty", text |-> Blank]
Torn   == [kind |-> "torn", text |-> Blank]
Whole(t) == [kind |-> "whole", text |-> t]

\* fd: which file the open descriptor leads to by now, if any.
Idle == [step |-> "none", text |-> Blank, id |-> NoId, fd |-> "none"]
InFlight(k) == saves[k] # Idle

Init ==
  /\ at = "down" /\ session = NoId /\ used = {} /\ transcript = Blank
  /\ revision = 0 /\ initialized = FALSE
  /\ saves = [k \in Saves |-> Idle]
  /\ file = [i \in Ids |-> Absent] /\ tmp = [i \in Ids |-> Absent]
  /\ kept = [i \in Ids |-> 0] /\ overlapped = FALSE
  /\ starts = 0 /\ failures = 0

-----------------------------------------------------------------------------
(* The process *)

\* The end of the process: what is in memory and the saves in flight are gone.
Down ==
  /\ at' = "down" /\ session' = NoId /\ transcript' = Blank /\ initialized' = FALSE
  /\ saves' = [k \in Saves |-> Idle]
  /\ UNCHANGED <<used, revision>>

\* generateSessionId(), and no messages.
Fresh ==
  \E i \in Ids \ used :
    session' = i /\ used' = used \cup {i} /\ transcript' = Blank

Start ==
  /\ at = "down" /\ starts < MaxStarts /\ starts' = starts + 1
  /\ at' = "prompt" /\ Fresh
  /\ UNCHANGED <<revision, initialized, saves, disk, kept, overlapped, failures>>

\* restoreSession() refuses a transcript without a system and a user message.
Restorable(content) == content.kind = "whole" /\ content.text.size > 0 /\ content.text.system

\* Bug for comparison: the id of the session is set before its messages are accepted.
AdoptEarly(i) ==
  /\ session' = i
  /\ transcript' = IF Restorable(file[i]) THEN file[i].text ELSE transcript

\* Bug for comparison: the snapshot itself is taken for its messages.
AdoptSnapshot(i) ==
  IF Restorable(file[i])
  THEN transcript' = file[i] /\ session' = i
  ELSE UNCHANGED <<transcript, session>>

\* The transcript of a file becomes that of the engine, if it is accepted.
Adopt(i) ==
  IF Restorable(file[i])
  THEN transcript' = file[i].text /\ session' = i
  ELSE UNCHANGED <<transcript, session>>

\* kc --continue: a listed session, which is one that parses, is restored; if
\* the engine refuses it, the process ends with an error.
Resume(i) ==
  /\ at = "down" /\ starts < MaxStarts /\ starts' = starts + 1
  /\ file[i].kind = "whole"
  /\ at' = (IF Restorable(file[i]) THEN "prompt" ELSE "down")
  /\ initialized' = Restorable(file[i])
  /\ Adopt(i)
  /\ UNCHANGED <<used, revision, saves, disk, kept, overlapped, failures>>

\* A save begins: save() takes the messages at once, and the id of the session
\* when the directories are there.
Begin(k, text) ==
  /\ saves' = [saves EXCEPT ![k] = [step |-> IF initialized THEN "named" ELSE "init", text |-> text,
                                    id |-> IF initialized THEN session ELSE NoId, fd |-> "none"]]
  /\ overlapped' = (overlapped \/ \E j \in Saves : InFlight(j))

-----------------------------------------------------------------------------
(* runREPL() *)

\* The transcript with more messages, which may bring in a system message.
Grown(system) ==
  [of |-> IF transcript.size = 0 THEN session ELSE transcript.of,
   rev |-> revision + 1, size |-> transcript.size + 1, system |-> transcript.system \/ system]

\* A compaction leaves a summary, as a user message, and the most recent
\* messages, which need not have a system message.
Compacted(system) == [Grown(FALSE) EXCEPT !.size = KeptSize, !.system = system]

\* The user's message, and the planning prompt.
Submit(plan) ==
  /\ at = "prompt" /\ at' = "query"
  /\ revision < MaxRevision /\ revision' = revision + 1
  /\ transcript' = Grown(plan)
  /\ UNCHANGED <<session, used, initialized, saves, disk, kept, overlapped, starts, failures>>

\* A turn of the query ends, and its throttled save may be due.
Turn(text) ==
  /\ at = "query"
  /\ revision < MaxRevision /\ revision' = revision + 1
  /\ transcript' = text
  /\ \/ ~InFlight("turn") /\ Begin("turn", text)
     \/ UNCHANGED <<saves, overlapped>>
  /\ UNCHANGED <<at, session, used, initialized, disk, kept, starts, failures>>

\* The query is over, and its session is saved.
EndQuery ==
  /\ at = "query" /\ at' = "saving"
  /\ Begin("query", transcript)
  /\ UNCHANGED <<session, used, transcript, revision, initialized, disk, kept, starts, failures>>

\* /clear, and /session new.
Clear ==
  /\ at = "prompt" /\ transcript' = Blank
  /\ UNCHANGED <<at, session, used, revision, initialized, saves, disk, kept, overlapped, starts, failures>>

\* A save that has not read the id of the session yet is overtaken by a change of it.
Overtaken == overlapped' = (overlapped \/ \E k \in Saves : saves[k].step = "init")

New ==
  /\ at = "prompt" /\ Fresh /\ Overtaken
  /\ UNCHANGED <<at, revision, initialized, saves, disk, kept, starts, failures>>

\* /session <id>; what cannot be read or restored leaves all as it is.
Load(i) ==
  /\ at = "prompt" /\ Adopt(i) /\ Overtaken
  /\ initialized' = TRUE
  /\ UNCHANGED <<at, used, revision, saves, disk, kept, starts, failures>>

\* /exit saves, if there is something to save.
Exit ==
  /\ at = "prompt"
  /\ IF transcript.size = 0 THEN Down /\ UNCHANGED overlapped
     ELSE /\ at' = "leaving" /\ Begin("query", transcript)
          /\ UNCHANGED <<session, used, transcript, revision, initialized>>
  /\ UNCHANGED <<disk, kept, starts, failures>>

\* SIGINT, SIGTERM or a fatal error, at any moment.
Signal ==
  /\ at # "down" /\ ~InFlight("last")
  /\ IF transcript.size = 0 THEN Down /\ UNCHANGED overlapped
     ELSE Begin("last", transcript) /\ UNCHANGED ram
  /\ UNCHANGED <<disk, kept, starts, failures>>

\* The process is killed.
Crash == at # "down" /\ Down /\ UNCHANGED <<disk, kept, overlapped, starts, failures>>

-----------------------------------------------------------------------------
(* FileMemoryService.saveSession() *)

\* The directories are there, and the snapshot gets its name.
Named(k) ==
  /\ saves[k].step = "init"
  /\ saves' = [saves EXCEPT ![k].step = "named", ![k].id = session]
  /\ initialized' = TRUE
  /\ UNCHANGED <<at, session, used, transcript, revision, disk, kept, overlapped, starts, failures>>

\* Bug for comparison: the session file itself is opened for writing.
OpenInPlace(k) ==
  /\ saves[k].step = "named"
  /\ file' = [file EXCEPT ![saves[k].id] = Empty]
  /\ saves' = [saves EXCEPT ![k].step = "open", ![k].fd = "file"]
  /\ UNCHANGED <<ram, tmp, kept, overlapped, starts, failures>>

\* The temporary file is created, or truncated if it is there.
Open(k) ==
  /\ saves[k].step = "named"
  /\ tmp' = [tmp EXCEPT ![saves[k].id] = Empty]
  /\ saves' = [saves EXCEPT ![k].step = "open", ![k].fd = "tmp"]
  /\ UNCHANGED <<ram, file, kept, overlapped, starts, failures>>

\* What a file may hold after text was written from its start: the rest of a
\* longer text stays.
Over(content, text) ==
  CASE content.kind = "torn" -> {Torn, Whole(text)}
    [] content.kind = "whole" /\ content.text.size > text.size -> {Torn}
    [] OTHER -> {Whole(text)}

\* What the file behind the descriptor of k holds, and is to hold.
Behind(k) == IF saves[k].fd = "tmp" THEN tmp[saves[k].id] ELSE file[saves[k].id]
Put(k, contents) ==
  \E c \in contents :
    /\ tmp'  = IF saves[k].fd = "tmp"  THEN [tmp EXCEPT ![saves[k].id] = c]  ELSE tmp
    /\ file' = IF saves[k].fd = "file" THEN [file EXCEPT ![saves[k].id] = c] ELSE file

Write(k) ==
  /\ saves[k].step = "open"
  /\ Put(k, Over(Behind(k), saves[k].text))
  /\ saves' = [saves EXCEPT ![k].step = "written"]
  /\ UNCHANGED <<ram, kept, overlapped, starts, failures>>

\* save() returns: the REPL goes on, or the process ends.  fds are the
\* descriptors of the other saves after it.
Return(k, fds) ==
  IF k = "last" \/ (k = "query" /\ at = "leaving") THEN Down
  ELSE /\ saves' = [j \in Saves |-> IF j = k THEN Idle ELSE [saves[j] EXCEPT !.fd = fds[j]]]
       /\ at' = IF k = "query" THEN "prompt" ELSE at
       /\ UNCHANGED <<session, used, transcript, revision, initialized>>

\* The temporary file takes the place of the session's, and descriptors to it follow.
Renamed(k) ==
  [j \in Saves |-> IF saves[j].id # saves[k].id THEN saves[j].fd
                   ELSE CASE saves[j].fd = "tmp" -> "file" [] saves[j].fd = "file" -> "gone"
                          [] OTHER -> saves[j].fd]

Rename(k) ==
  LET i == saves[k].id IN
  /\ saves[k].step = "written" /\ tmp[i] # Absent
  /\ file' = [file EXCEPT ![i] = tmp[i]]
  /\ tmp' = [tmp EXCEPT ![i] = Absent]
  /\ kept' = [kept EXCEPT ![i] = IF saves[k].text.rev > @ THEN saves[k].text.rev ELSE @]
  /\ Return(k, Renamed(k))
  /\ UNCHANGED <<overlapped, starts, failures>>

\* A file operation fails, or another save has renamed the file away.
Fail(k) ==
  /\ InFlight(k)
  /\ failures < MaxFailures \/ (saves[k].step = "written" /\ tmp[saves[k].id] = Absent)
  /\ failures' = IF failures < MaxFailures THEN failures + 1 ELSE failures
  /\ IF saves[k].step = "open" THEN Put(k, {Behind(k), Torn}) ELSE UNCHANGED disk
  /\ Return(k, [j \in Saves |-> saves[j].fd])
  /\ UNCHANGED <<kept, overlapped, starts>>

-----------------------------------------------------------------------------
Step(k) == Named(k) \/ Open(k) \/ Write(k) \/ Rename(k) \/ Fail(k)

Next ==
  \/ Start \/ \E i \in Ids : Resume(i)
  \/ \E plan \in Plans : Submit(plan)
  \/ Turn(Grown(FALSE))
  \/ \E system \in {FALSE, transcript.system} : transcript.size > KeptSize /\ Turn(Compacted(system))
  \/ EndQuery \/ Clear \/ New \/ Exit \/ \E i \in Ids : Load(i)
  \/ Signal \/ Crash
  \/ \E k \in Saves : Step(k)

Spec == Init /\ [][Next]_vars

-----------------------------------------------------------------------------
TypeOK ==
  /\ at \in {"down", "prompt", "query", "saving", "leaving"}
  /\ session \in Ids \cup {NoId} /\ used \subseteq Ids
  /\ transcript \in Texts /\ revision \in Nat /\ initialized \in BOOLEAN
  /\ saves \in [Saves -> [step : {"none", "init", "named", "open", "written"}, text : Texts,
                          id : Ids \cup {NoId}, fd : {"none", "tmp", "file", "gone"}]]
  /\ file \in [Ids -> Contents] /\ tmp \in [Ids -> Contents]
  /\ kept \in [Ids -> Nat] /\ overlapped \in BOOLEAN
  /\ starts \in Nat /\ failures \in Nat

\* Wherever a process is killed and whichever file operations fail, the file of
\* a session is whole and of that session, and holds the newest transcript whose
\* save had ended or a newer one (the rename in FileMemoryService.ts:229-239,
\* "Atomic write", and restoreSession() accepting before the id is set,
\* replSession.ts:156-165).  Saves that overlap void this: they share one
\* temporary file, so that a rename may move a file that another save is
\* writing, and the older transcript may be the last to come.
NothingSavedIsLost ==
  ~overlapped => \A i \in Ids :
    /\ file[i].kind \in {"absent", "whole"}
    /\ file[i].kind = "whole" => file[i].text.of = i
    /\ kept[i] > 0 => file[i].kind = "whole" /\ file[i].text.rev >= kept[i]
=============================================================================
