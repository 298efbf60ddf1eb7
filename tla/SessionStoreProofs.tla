------------------------- MODULE SessionStoreProofs -------------------------
(***************************************************************************)
(* For any number of sessions, processes, transcripts and failing file     *)
(* operations, and wherever the processes are killed: as long as no two    *)
(* saves overlap, the file of a session is whole, its own, and as new as   *)
(* the newest transcript whose save has ended.                             *)
(***************************************************************************)
EXTENDS SessionStore, TLAPS

USE IdsAssumption, SizeAssumption

-----------------------------------------------------------------------------
(* Types *)

Places == {"down", "prompt", "query", "saving", "leaving"}
Flights == [step : {"none", "init", "named", "open", "written"}, text : Texts,
            id : Ids \cup {NoId}, fd : {"none", "tmp", "file", "gone"}]

LEMMA TextTypes ==
  /\ Blank \in Texts /\ Blank.size = 0 /\ Absent \in Contents /\ Empty \in Contents /\ Torn \in Contents
  /\ \A t \in Texts : Whole(t) \in Contents /\ Whole(t).kind = "whole" /\ Whole(t).text = t
  /\ Idle \in Flights /\ Idle.step = "none" /\ Idle.id = NoId /\ Idle.fd = "none"
BY DEF Blank, Texts, Absent, Empty, Torn, Whole, Contents, Idle, Flights

\* The transcript after a turn, longer or compacted, is the session's and new.
LEMMA GrownTypes ==
  ASSUME TypeOK, NEW system \in BOOLEAN
  PROVE  /\ Grown(system) \in Texts /\ Grown(system).rev = revision + 1 /\ Grown(system).size > 0
         /\ Grown(system).of = IF transcript.size = 0 THEN session ELSE transcript.of
<1>1. /\ transcript.of \in Ids \cup {NoId} /\ transcript.rev \in Nat /\ transcript.size \in Nat
      /\ transcript.system \in BOOLEAN /\ revision \in Nat /\ session \in Ids \cup {NoId}
  BY DEF TypeOK, Texts
<1>2. PICK of : of = IF transcript.size = 0 THEN session ELSE transcript.of
  OBVIOUS
<1>3. of \in Ids \cup {NoId}
  BY <1>1, <1>2
<1>4. Grown(system) = [of |-> of, rev |-> revision + 1, size |-> transcript.size + 1,
                       system |-> transcript.system \/ system]
  BY <1>2 DEF Grown
<1>5. revision + 1 \in Nat /\ transcript.size + 1 \in Nat /\ transcript.size + 1 > 0
  BY <1>1
<1>6. (transcript.system \/ system) \in BOOLEAN
  OBVIOUS
<1>7. Grown(system) \in Texts
  BY <1>3, <1>4, <1>5, <1>6 DEF Texts
<1>8. /\ Grown(system).rev = revision + 1 /\ Grown(system).of = of
      /\ Grown(system).size = transcript.size + 1
  BY <1>4
<1> QED BY <1>2, <1>5, <1>7, <1>8

LEMMA CompactedTypes ==
  ASSUME TypeOK, NEW system \in BOOLEAN
  PROVE  /\ Compacted(system) \in Texts /\ Compacted(system).rev = revision + 1
         /\ Compacted(system).size > 0
         /\ Compacted(system).of = IF transcript.size = 0 THEN session ELSE transcript.of
<1>1. PICK g \in Texts : g = Grown(FALSE)
  BY GrownTypes
<1>2. g.rev = revision + 1 /\ g.of = IF transcript.size = 0 THEN session ELSE transcript.of
  BY <1>1, GrownTypes
<1>3. Compacted(system) = [g EXCEPT !.size = KeptSize, !.system = system]
  BY <1>1 DEF Compacted
<1>4. [g EXCEPT !.size = KeptSize, !.system = system] \in Texts
  BY DEF Texts
<1>5. /\ [g EXCEPT !.size = KeptSize, !.system = system].rev = g.rev
      /\ [g EXCEPT !.size = KeptSize, !.system = system].of = g.of
      /\ [g EXCEPT !.size = KeptSize, !.system = system].size = KeptSize
  BY DEF Texts
<1>6. KeptSize > 0
  OBVIOUS
<1> QED BY <1>2, <1>3, <1>4, <1>5, <1>6

\* The parts of TypeOK that a step leaves alone keep their types.
LEMMA SameTypes ==
  ASSUME TypeOK
  PROVE  /\ UNCHANGED at => at' \in Places
         /\ UNCHANGED session => session' \in Ids \cup {NoId}
         /\ UNCHANGED used => used' \subseteq Ids
         /\ UNCHANGED transcript => transcript' \in Texts
         /\ UNCHANGED revision => revision' \in Nat
         /\ UNCHANGED initialized => initialized' \in BOOLEAN
         /\ UNCHANGED saves => saves' \in [Saves -> Flights]
         /\ UNCHANGED file => file' \in [Ids -> Contents]
         /\ UNCHANGED tmp => tmp' \in [Ids -> Contents]
         /\ UNCHANGED kept => kept' \in [Ids -> Nat]
         /\ UNCHANGED overlapped => overlapped' \in BOOLEAN
         /\ UNCHANGED starts => starts' \in Nat
         /\ UNCHANGED failures => failures' \in Nat
BY DEF TypeOK, Flights, Places

LEMMA TypeParts ==
  TypeOK <=> /\ at \in Places /\ session \in Ids \cup {NoId} /\ used \subseteq Ids
             /\ transcript \in Texts /\ revision \in Nat /\ initialized \in BOOLEAN
             /\ saves \in [Saves -> Flights]
             /\ file \in [Ids -> Contents] /\ tmp \in [Ids -> Contents]
             /\ kept \in [Ids -> Nat] /\ overlapped \in BOOLEAN
             /\ starts \in Nat /\ failures \in Nat
BY DEF TypeOK, Flights, Places

LEMMA DownTypes ==
  ASSUME TypeOK, Down
  PROVE  /\ at' \in Places /\ session' \in Ids \cup {NoId} /\ used' \subseteq Ids
         /\ transcript' \in Texts /\ revision' \in Nat /\ initialized' \in BOOLEAN
         /\ saves' \in [Saves -> Flights]
<1>1. used' \subseteq Ids /\ revision' \in Nat
  BY DEF Down, TypeOK
<1> QED BY <1>1, TextTypes DEF Down, Places

LEMMA BeginTypes ==
  ASSUME TypeOK, NEW k \in Saves, NEW text \in Texts, Begin(k, text)
  PROVE  saves' \in [Saves -> Flights] /\ overlapped' \in BOOLEAN
<1>1. [step |-> IF initialized THEN "named" ELSE "init", text |-> text,
       id |-> IF initialized THEN session ELSE NoId, fd |-> "none"] \in Flights
  BY DEF Flights, TypeOK
<1>2. saves \in [Saves -> Flights]
  BY TypeParts
<1>3. saves' \in [Saves -> Flights]
  BY <1>1, <1>2 DEF Begin
<1> QED BY <1>3 DEF Begin, TypeOK

LEMMA FreshTypes ==
  ASSUME TypeOK, Fresh
  PROVE  session' \in Ids /\ used' \subseteq Ids /\ transcript' \in Texts /\ transcript' = Blank
BY TextTypes DEF Fresh, TypeOK

LEMMA AdoptTypes ==
  ASSUME TypeOK, NEW i \in Ids, Adopt(i)
  PROVE  session' \in Ids \cup {NoId} /\ transcript' \in Texts
<1>1. file[i].text \in Texts
  BY DEF TypeOK, Contents
<1> QED BY <1>1 DEF Adopt, TypeOK

LEMMA ReplTypes ==
  ASSUME TypeOK,
         \/ Start \/ \E i \in Ids : Resume(i)
         \/ \E plan \in Plans : Submit(plan)
         \/ EndQuery \/ Clear \/ New \/ Exit \/ \E i \in Ids : Load(i)
         \/ Signal \/ Crash
  PROVE  TypeOK'
<1>1. CASE Start
  <2>1. session' \in Ids /\ used' \subseteq Ids /\ transcript' \in Texts
    BY <1>1, FreshTypes DEF Start
  <2> QED BY <1>1, <2>1, SameTypes DEF Start, TypeOK, disk
<1>2. ASSUME NEW i \in Ids, Resume(i)
      PROVE  TypeOK'
  <2>1. session' \in Ids \cup {NoId} /\ transcript' \in Texts
    BY <1>2, AdoptTypes DEF Resume
  <2>2. Restorable(file[i]) \in BOOLEAN
    BY DEF Restorable, TypeOK, Contents, Texts
  <2> QED BY <1>2, <2>1, <2>2 DEF Resume, TypeOK, disk
<1>3. ASSUME NEW plan \in Plans, Submit(plan)
      PROVE  TypeOK'
  <2>1. Grown(plan) \in Texts
    BY GrownTypes
  <2>2. transcript' \in Texts /\ at' = "query" /\ revision' \in Nat
    BY <1>3, <2>1 DEF Submit, TypeOK
  <2> QED BY <1>3, <2>2 DEF Submit, TypeOK, disk
<1>4. CASE EndQuery
  <2>1. "query" \in Saves /\ transcript \in Texts
    BY DEF Saves, TypeOK
  <2>2. saves' \in [Saves -> Flights] /\ overlapped' \in BOOLEAN
    BY <1>4, <2>1, BeginTypes DEF EndQuery
  <2> QED BY <1>4, <2>2 DEF EndQuery, TypeOK, Flights, disk
<1>5. CASE Clear
  BY <1>5, TextTypes DEF Clear, TypeOK, disk
<1>6. CASE New
  <2>1. session' \in Ids /\ used' \subseteq Ids /\ transcript' \in Texts
    BY <1>6, FreshTypes DEF New
  <2>2. overlapped' \in BOOLEAN
    BY <1>6 DEF New, Overtaken, TypeOK
  <2> QED BY <1>6, <2>1, <2>2 DEF New, TypeOK, disk
<1>7. ASSUME NEW i \in Ids, Load(i)
      PROVE  TypeOK'
  <2>1. session' \in Ids \cup {NoId} /\ transcript' \in Texts
    BY <1>7, AdoptTypes DEF Load
  <2>2. overlapped' \in BOOLEAN
    BY <1>7 DEF Load, Overtaken, TypeOK
  <2> QED BY <1>7, <2>1, <2>2 DEF Load, TypeOK, disk
<1>8. CASE Exit
  <2>1. CASE transcript.size = 0
    BY <1>8, <2>1, DownTypes DEF Exit, TypeOK, Flights, Places, disk
  <2>2. CASE transcript.size # 0
    <3>1. "query" \in Saves /\ transcript \in Texts
      BY DEF Saves, TypeOK
    <3>2. saves' \in [Saves -> Flights] /\ overlapped' \in BOOLEAN
      BY <1>8, <2>2, <3>1, BeginTypes DEF Exit
    <3> QED BY <1>8, <2>2, <3>2 DEF Exit, TypeOK, Flights, disk
  <2> QED BY <2>1, <2>2
<1>9. CASE Signal
  <2>1. CASE transcript.size = 0
    BY <1>9, <2>1, DownTypes DEF Signal, TypeOK, Flights, Places, disk
  <2>2. CASE transcript.size # 0
    <3>1. "last" \in Saves /\ transcript \in Texts
      BY DEF Saves, TypeOK
    <3>2. saves' \in [Saves -> Flights] /\ overlapped' \in BOOLEAN
      BY <1>9, <2>2, <3>1, BeginTypes DEF Signal
    <3> QED BY <1>9, <2>2, <3>2 DEF Signal, TypeOK, Flights, disk, ram
  <2> QED BY <2>1, <2>2
<1>10. CASE Crash
  BY <1>10, DownTypes DEF Crash, TypeOK, Flights, Places, disk
<1> QED BY <1>1, <1>2, <1>3, <1>4, <1>5, <1>6, <1>7, <1>8, <1>9, <1>10

LEMMA TurnTypes ==
  ASSUME TypeOK, NEW text \in Texts, Turn(text)
  PROVE  TypeOK'
<1>1. CASE Begin("turn", text)
  <2>1. "turn" \in Saves
    BY DEF Saves
  <2>2. saves' \in [Saves -> Flights] /\ overlapped' \in BOOLEAN
    BY <1>1, <2>1, BeginTypes
  <2> QED BY <2>2 DEF Turn, TypeOK, Flights, disk
<1>2. CASE UNCHANGED <<saves, overlapped>>
  BY <1>2 DEF Turn, TypeOK, disk
<1> QED BY <1>1, <1>2 DEF Turn

\* What a write may leave behind has the type of a file.
LEMMA OverTypes ==
  ASSUME NEW content, NEW text \in Texts
  PROVE  Over(content, text) \subseteq Contents
BY TextTypes DEF Over

\* A flight with another step, name or descriptor.
LEMMA FlightTypes ==
  ASSUME TypeOK, NEW k \in Saves
  PROVE  /\ saves[k] \in Flights
         /\ \A i \in Ids \cup {NoId} : [saves[k] EXCEPT !.step = "named", !.id = i] \in Flights
         /\ [saves[k] EXCEPT !.step = "open", !.fd = "tmp"] \in Flights
         /\ [saves[k] EXCEPT !.step = "written"] \in Flights
         /\ \A f \in {"none", "tmp", "file", "gone"} : [saves[k] EXCEPT !.fd = f] \in Flights
<1>1. PICK f \in Flights : f = saves[k]
  BY DEF TypeOK, Flights
<1>2. f = [step |-> f.step, text |-> f.text, id |-> f.id, fd |-> f.fd] /\ f.text \in Texts
      /\ f.id \in Ids \cup {NoId} /\ f.fd \in {"none", "tmp", "file", "gone"}
      /\ f.step \in {"none", "init", "named", "open", "written"}
  BY DEF Flights
<1>3. ASSUME NEW i \in Ids \cup {NoId}
      PROVE  [f EXCEPT !.step = "named", !.id = i] \in Flights
  BY <1>2 DEF Flights
<1>4. [f EXCEPT !.step = "open", !.fd = "tmp"] \in Flights
  BY <1>2 DEF Flights
<1>5. [f EXCEPT !.step = "written"] \in Flights
  BY <1>2 DEF Flights
<1>6. ASSUME NEW d \in {"none", "tmp", "file", "gone"}
      PROVE  [f EXCEPT !.fd = d] \in Flights
  BY <1>2 DEF Flights
<1> QED BY <1>1, <1>3, <1>4, <1>5, <1>6

\* Where a save's file ends up after a write or a failure.
LEMMA PutTypes ==
  ASSUME TypeOK, NEW k \in Saves, NEW contents, Put(k, contents),
         saves[k].id \in Ids => contents \subseteq Contents
  PROVE  tmp' \in [Ids -> Contents] /\ file' \in [Ids -> Contents]
<1>1. PICK c \in contents :
        /\ tmp'  = IF saves[k].fd = "tmp"  THEN [tmp EXCEPT ![saves[k].id] = c]  ELSE tmp
        /\ file' = IF saves[k].fd = "file" THEN [file EXCEPT ![saves[k].id] = c] ELSE file
  BY DEF Put
<1>2. file \in [Ids -> Contents] /\ tmp \in [Ids -> Contents]
  BY DEF TypeOK
<1>3. CASE saves[k].id \in Ids
  <2>1. c \in Contents
    BY <1>1, <1>3
  <2> QED BY <1>1, <1>2, <2>1
<1>4. CASE saves[k].id \notin Ids
  <2>1. tmp' = tmp /\ file' = file
    BY <1>1, <1>2, <1>4
  <2> QED BY <1>2, <2>1
<1> QED BY <1>3, <1>4

LEMMA ReturnTypes ==
  ASSUME TypeOK, NEW k \in Saves, NEW fds \in [Saves -> {"none", "tmp", "file", "gone"}],
         Return(k, fds)
  PROVE  /\ at' \in Places /\ session' \in Ids \cup {NoId} /\ used' \subseteq Ids
         /\ transcript' \in Texts /\ revision' \in Nat /\ initialized' \in BOOLEAN
         /\ saves' \in [Saves -> Flights]
<1>1. CASE k = "last" \/ (k = "query" /\ at = "leaving")
  BY <1>1, DownTypes DEF Return
<1>2. CASE ~(k = "last" \/ (k = "query" /\ at = "leaving"))
  <2>1. saves' = [j \in Saves |-> IF j = k THEN Idle ELSE [saves[j] EXCEPT !.fd = fds[j]]]
    BY <1>2 DEF Return
  <2>2. ASSUME NEW j \in Saves PROVE [saves[j] EXCEPT !.fd = fds[j]] \in Flights
    BY FlightTypes
  <2>3. saves' \in [Saves -> Flights]
    BY <2>1, <2>2, TextTypes
  <2>4. /\ at' = IF k = "query" THEN "prompt" ELSE at
        /\ UNCHANGED <<session, used, transcript, revision, initialized>>
    BY <1>2 DEF Return
  <2> QED BY <2>3, <2>4 DEF TypeOK, Places
<1> QED BY <1>1, <1>2

LEMMA StepTypes ==
  ASSUME TypeOK, NEW k \in Saves, Step(k)
  PROVE  TypeOK'
<1>0. saves \in [Saves -> Flights] /\ saves[k] \in Flights /\ session \in Ids \cup {NoId}
      /\ file \in [Ids -> Contents] /\ tmp \in [Ids -> Contents] /\ kept \in [Ids -> Nat]
  BY TypeParts
<1>1. CASE Named(k)
  <2>1. saves' = [saves EXCEPT ![k] = [saves[k] EXCEPT !.step = "named", !.id = session]]
    BY <1>0, <1>1 DEF Named
  <2>2. [saves[k] EXCEPT !.step = "named", !.id = session] \in Flights
    BY <1>0, FlightTypes
  <2>3. saves' \in [Saves -> Flights]
    BY <1>0, <2>1, <2>2
  <2> QED BY <1>1, <2>3 DEF Named, TypeOK, Flights, disk
<1>2. CASE Open(k)
  <2>1. saves' = [saves EXCEPT ![k] = [saves[k] EXCEPT !.step = "open", !.fd = "tmp"]]
    BY <1>0, <1>2 DEF Open
  <2>2. saves' \in [Saves -> Flights]
    BY <1>0, <2>1, FlightTypes
  <2>3. tmp' \in [Ids -> Contents]
    BY <1>0, <1>2, TextTypes DEF Open
  <2> QED BY <1>2, <2>2, <2>3 DEF Open, TypeOK, Flights, ram
<1>3. CASE Write(k)
  <2>1. saves' = [saves EXCEPT ![k] = [saves[k] EXCEPT !.step = "written"]]
    BY <1>0, <1>3 DEF Write
  <2>2. saves' \in [Saves -> Flights]
    BY <1>0, <2>1, FlightTypes
  <2>3. saves[k].text \in Texts
    BY <1>0 DEF Flights
  <2>4. Over(Behind(k), saves[k].text) \subseteq Contents
    BY <2>3, OverTypes
  <2>5. Put(k, Over(Behind(k), saves[k].text))
    BY <1>3 DEF Write
  <2>6. tmp' \in [Ids -> Contents] /\ file' \in [Ids -> Contents]
    BY <2>4, <2>5, PutTypes
  <2> QED BY <1>3, <2>2, <2>6 DEF Write, TypeOK, Flights, ram
<1>4. CASE Rename(k)
  <2>1. PICK i : i = saves[k].id
    OBVIOUS
  <2>2. /\ file' = [file EXCEPT ![i] = tmp[i]] /\ tmp' = [tmp EXCEPT ![i] = Absent]
        /\ kept' = [kept EXCEPT ![i] = IF saves[k].text.rev > @ THEN saves[k].text.rev ELSE @]
        /\ Return(k, Renamed(k)) /\ UNCHANGED <<overlapped, starts, failures>>
    BY <1>4, <2>1 DEF Rename
  <2>3. saves[k].text.rev \in Nat
    BY <1>0 DEF Flights, Texts
  <2>4. tmp' \in [Ids -> Contents] /\ file' \in [Ids -> Contents]
    BY <1>0, <2>2, TextTypes
  <2>5. kept' \in [Ids -> Nat]
    BY <1>0, <2>2, <2>3
  <2>6. ASSUME NEW j \in Saves
        PROVE  Renamed(k)[j] \in {"none", "tmp", "file", "gone"}
    <3>1. saves[j].fd \in {"none", "tmp", "file", "gone"}
      BY <1>0 DEF Flights
    <3> QED BY <3>1 DEF Renamed
  <2>7. Renamed(k) \in [Saves -> {"none", "tmp", "file", "gone"}]
    BY <2>6 DEF Renamed
  <2>8. /\ at' \in Places /\ session' \in Ids \cup {NoId} /\ used' \subseteq Ids
        /\ transcript' \in Texts /\ revision' \in Nat /\ initialized' \in BOOLEAN
        /\ saves' \in [Saves -> Flights]
    BY <2>2, <2>7, ReturnTypes
  <2> QED BY <2>2, <2>4, <2>5, <2>8 DEF TypeOK, Flights, Places
<1>5. CASE Fail(k)
  <2>1. PICK fds : fds = [j \in Saves |-> saves[j].fd]
    OBVIOUS
  <2>2. fds \in [Saves -> {"none", "tmp", "file", "gone"}]
    <3>1. ASSUME NEW j \in Saves PROVE saves[j].fd \in {"none", "tmp", "file", "gone"}
      BY <1>0 DEF Flights
    <3> QED BY <2>1, <3>1
  <2>3. Return(k, fds) /\ UNCHANGED <<kept, overlapped, starts>>
    BY <1>5, <2>1 DEF Fail
  <2>4. /\ at' \in Places /\ session' \in Ids \cup {NoId} /\ used' \subseteq Ids
        /\ transcript' \in Texts /\ revision' \in Nat /\ initialized' \in BOOLEAN
        /\ saves' \in [Saves -> Flights]
    BY <2>2, <2>3, ReturnTypes
  <2>5. failures' \in Nat
    BY <1>5 DEF Fail, TypeOK
  <2>6. tmp' \in [Ids -> Contents] /\ file' \in [Ids -> Contents]
    <3>1. CASE saves[k].step = "open"
      <4>1. Put(k, {Behind(k), Torn})
        BY <1>5, <3>1 DEF Fail
      <4>2. saves[k].id \in Ids => {Behind(k), Torn} \subseteq Contents
        BY <1>0, TextTypes DEF Behind
      <4> QED BY <4>1, <4>2, PutTypes
    <3>2. CASE saves[k].step # "open"
      BY <1>0, <1>5, <3>2 DEF Fail, disk
    <3> QED BY <3>1, <3>2
  <2> QED BY <2>3, <2>4, <2>5, <2>6 DEF TypeOK, Flights, Places
<1> QED BY <1>1, <1>2, <1>3, <1>4, <1>5 DEF Step

LEMMA NextTypes ==
  ASSUME TypeOK, [Next]_vars
  PROVE  TypeOK'
<1>1. CASE Turn(Grown(FALSE))
  BY <1>1, TurnTypes, GrownTypes
<1>2. ASSUME NEW system \in {FALSE, transcript.system}, Turn(Compacted(system))
      PROVE  TypeOK'
  <2>1. system \in BOOLEAN
    BY <1>2 DEF TypeOK, Texts
  <2>2. Compacted(system) \in Texts
    BY <2>1, CompactedTypes
  <2> QED BY <1>2, <2>2, TurnTypes
<1>3. CASE UNCHANGED vars
  BY <1>3 DEF vars, ram, disk, TypeOK
<1> QED BY <1>1, <1>2, <1>3, ReplTypes, StepTypes DEF Next

-----------------------------------------------------------------------------
(* What is saved *)

\* At most one save is in flight.
Alone == \A j, k \in Saves : InFlight(j) /\ InFlight(k) => j = k

\* A save in flight is of the session whose id it has or, if it has no name yet,
\* of the current one; what it holds is no older than what was kept; and its
\* temporary file is empty until it holds that.
SoundSave(k) ==
  InFlight(k) =>
    /\ saves[k].step # "none" /\ at # "down"
    /\ saves[k].text.of \in Ids /\ saves[k].text.rev <= revision
    /\ kept[saves[k].text.of] <= saves[k].text.rev
    /\ saves[k].step = "init" => saves[k].text.of = session
    /\ saves[k].step # "init" => saves[k].id = saves[k].text.of
    /\ saves[k].step = "open" => saves[k].fd = "tmp" /\ tmp[saves[k].id] = Empty
    /\ saves[k].step = "written" => saves[k].fd = "tmp" /\ tmp[saves[k].id] = Whole(saves[k].text)
    /\ k # "last" => saves[k].text.rev <= transcript.rev /\ saves[k].text.of = session
    /\ k = "turn" => at = "query"
    /\ k = "query" => at \in {"saving", "leaving"}

\* The transcript in memory is the session's, and no older than what was kept.
SoundMemory ==
  at # "down" =>
    /\ session \in Ids
    /\ transcript.size > 0 =>
         transcript.of = session /\ kept[session] <= transcript.rev /\ transcript.rev <= revision
    /\ at \in {"query", "saving", "leaving"} => transcript.size > 0

\* The same of the files.
SoundDisk ==
  \A i \in Ids :
    /\ file[i].kind \in {"absent", "whole"}
    /\ file[i].kind = "whole" => file[i].text.of = i /\ file[i].text.rev <= revision
    /\ kept[i] > 0 => file[i].kind = "whole" /\ file[i].text.rev >= kept[i]

Sound == Alone /\ (\A k \in Saves : SoundSave(k)) /\ SoundMemory /\ SoundDisk

SessionInv == TypeOK /\ (~overlapped => Sound)

LEMMA TypeFacts ==
  ASSUME TypeOK
  PROVE  /\ revision \in Nat /\ transcript.rev \in Nat /\ transcript.size \in Nat
         /\ transcript.of \in Ids \cup {NoId} /\ transcript \in Texts
         /\ \A k \in Saves : /\ saves[k] \in Flights /\ saves[k].text \in Texts
                             /\ saves[k].text.rev \in Nat /\ saves[k].id \in Ids \cup {NoId}
         /\ \A i \in Ids : /\ kept[i] \in Nat /\ file[i] \in Contents
                           /\ file[i].text \in Texts /\ file[i].text.rev \in Nat
         /\ kept \in [Ids -> Nat] /\ file \in [Ids -> Contents] /\ tmp \in [Ids -> Contents]
         /\ saves \in [Saves -> Flights]
<1>1. /\ revision \in Nat /\ transcript \in Texts
      /\ kept \in [Ids -> Nat] /\ file \in [Ids -> Contents] /\ tmp \in [Ids -> Contents]
      /\ saves \in [Saves -> Flights]
  BY TypeParts
<1>2. transcript.rev \in Nat /\ transcript.size \in Nat /\ transcript.of \in Ids \cup {NoId}
  BY <1>1 DEF Texts
<1>3. ASSUME NEW k \in Saves
      PROVE  /\ saves[k] \in Flights /\ saves[k].text \in Texts
             /\ saves[k].text.rev \in Nat /\ saves[k].id \in Ids \cup {NoId}
  <2>1. saves[k] \in Flights
    BY <1>1
  <2>2. saves[k].text \in Texts /\ saves[k].id \in Ids \cup {NoId}
    BY <2>1 DEF Flights
  <2> QED BY <2>1, <2>2 DEF Texts
<1>4. ASSUME NEW i \in Ids
      PROVE  /\ kept[i] \in Nat /\ file[i] \in Contents
             /\ file[i].text \in Texts /\ file[i].text.rev \in Nat
  <2>1. kept[i] \in Nat /\ file[i] \in Contents
    BY <1>1
  <2>2. file[i].text \in Texts
    BY <2>1 DEF Contents
  <2> QED BY <2>1, <2>2 DEF Texts
<1> QED BY <1>1, <1>2, <1>3, <1>4

\* What was kept of a session is no newer than the newest transcript.
LEMMA KeptIsOld ==
  ASSUME TypeOK, SoundDisk, NEW i \in Ids
  PROVE  kept[i] <= revision
<1>1. kept[i] \in Nat /\ revision \in Nat /\ file[i].text.rev \in Nat
  BY TypeFacts
<1>2. CASE kept[i] > 0
  <2>1. file[i].text.rev >= kept[i] /\ file[i].text.rev <= revision
    BY <1>2 DEF SoundDisk
  <2> QED BY <1>1, <2>1
<1> QED BY <1>1, <1>2

\* The disk stays sound while only the count of transcripts grows.
LEMMA DiskSame ==
  ASSUME TypeOK, SoundDisk, UNCHANGED <<file, kept>>, revision' \in Nat, revision <= revision'
  PROVE  SoundDisk'
<1>1. ASSUME NEW i \in Ids
      PROVE  /\ file'[i].kind \in {"absent", "whole"}
             /\ file'[i].kind = "whole" => file'[i].text.of = i /\ file'[i].text.rev <= revision'
             /\ kept'[i] > 0 => file'[i].kind = "whole" /\ file'[i].text.rev >= kept'[i]
  <2>1. revision \in Nat /\ file[i].text.rev \in Nat
    BY TypeFacts
  <2>2. /\ file[i].kind \in {"absent", "whole"}
        /\ file[i].kind = "whole" => file[i].text.of = i /\ file[i].text.rev <= revision
        /\ kept[i] > 0 => file[i].kind = "whole" /\ file[i].text.rev >= kept[i]
    BY DEF SoundDisk
  <2> QED BY <2>1, <2>2
<1> QED BY <1>1 DEF SoundDisk

\* The process ends.
LEMMA DownSound ==
  ASSUME TypeOK, SoundDisk, Down, UNCHANGED <<file, kept>>
  PROVE  Sound'
<1>1. \A k \in Saves : ~InFlight(k)'
  BY DEF Down, InFlight
<1>2. at' = "down" /\ revision' = revision /\ revision \in Nat
  BY TypeFacts DEF Down
<1>3. SoundDisk'
  BY <1>2, DiskSame
<1> QED BY <1>1, <1>2, <1>3 DEF Sound, Alone, SoundSave, SoundMemory

\* A save that begins while none is in flight.
LEMMA BeginSound ==
  ASSUME TypeOK, Sound, NEW k \in Saves, NEW text \in Texts, Begin(k, text), ~overlapped',
         UNCHANGED <<session, tmp, kept>>, revision' \in Nat, at' # "down",
         session \in Ids, text.of = session, kept[session] <= text.rev, text.rev <= revision',
         k # "last" => text.rev <= transcript'.rev,
         k = "turn" => at' = "query",
         k = "query" => at' \in {"saving", "leaving"}
  PROVE  Alone' /\ \A j \in Saves : SoundSave(j)'
<1>1. \A j \in Saves : ~InFlight(j)
  BY DEF Begin
<1>2. PICK flight : flight = [step |-> IF initialized THEN "named" ELSE "init", text |-> text,
                              id |-> IF initialized THEN session ELSE NoId, fd |-> "none"]
  OBVIOUS
<1>3. saves' = [saves EXCEPT ![k] = flight]
  BY <1>2 DEF Begin
<1>4. saves'[k] = flight /\ \A j \in Saves : j # k => saves'[j] = saves[j]
  BY <1>3, TypeFacts
<1>5. \A j \in Saves : j # k => ~InFlight(j)'
  BY <1>1, <1>4 DEF InFlight
<1>6. Alone'
  BY <1>5 DEF Alone
<1>7. ASSUME NEW j \in Saves PROVE SoundSave(j)'
  <2>1. CASE j # k
    BY <1>5, <2>1 DEF SoundSave
  <2>2. CASE j = k
    <3>1. /\ flight.step \in {"named", "init"} /\ flight.text = text
          /\ flight.step = "named" => flight.id = session
      BY <1>2
    <3> QED BY <1>4, <2>2, <3>1 DEF SoundSave
  <2> QED BY <2>1, <2>2
<1> QED BY <1>6, <1>7

\* The saves stay sound when they stay, the transcripts grow, and the session is
\* changed only at the prompt and under no save that has no name yet.
LEMMA SavesSame ==
  ASSUME TypeOK, Sound, UNCHANGED <<saves, tmp, kept>>, at' # "down",
         revision' \in Nat, revision <= revision', transcript'.rev \in Nat,
         \/ UNCHANGED session
         \/ at = "prompt" /\ \A k \in Saves : saves[k].step # "init",
         \/ at = "prompt"
         \/ at = "query" /\ at' = "query" /\ UNCHANGED session /\ transcript.rev <= transcript'.rev
  PROVE  Alone' /\ \A k \in Saves : SoundSave(k)'
<1>1. Alone'
  BY DEF Sound, Alone, InFlight
<1>2. ASSUME NEW k \in Saves, InFlight(k)'
      PROVE  SoundSave(k)'
  <2>1. InFlight(k) /\ saves'[k] = saves[k]
    BY <1>2 DEF InFlight
  <2>2. /\ saves[k].step # "none" /\ at # "down"
        /\ saves[k].text.of \in Ids /\ saves[k].text.rev <= revision
        /\ kept[saves[k].text.of] <= saves[k].text.rev
        /\ saves[k].step = "init" => saves[k].text.of = session
        /\ saves[k].step # "init" => saves[k].id = saves[k].text.of
        /\ saves[k].step = "open" => saves[k].fd = "tmp" /\ tmp[saves[k].id] = Empty
        /\ saves[k].step = "written" => saves[k].fd = "tmp" /\ tmp[saves[k].id] = Whole(saves[k].text)
        /\ k # "last" => saves[k].text.rev <= transcript.rev /\ saves[k].text.of = session
        /\ k = "turn" => at = "query"
        /\ k = "query" => at \in {"saving", "leaving"}
    BY <2>1 DEF Sound, SoundSave
  <2>3. saves[k].text.rev \in Nat /\ revision \in Nat /\ transcript.rev \in Nat
    BY TypeFacts
  <2>4. saves[k].text.rev <= revision'
    BY <2>2, <2>3
  <2>5. CASE at = "prompt"
    <3>1. k = "last"
      BY <2>2, <2>5 DEF Saves
    <3>2. saves[k].step = "init" => session' = session
      OBVIOUS
    <3> QED BY <2>1, <2>2, <2>4, <3>1, <3>2 DEF SoundSave
  <2>6. CASE at = "query" /\ at' = "query" /\ session' = session /\ transcript.rev <= transcript'.rev
    <3>1. k # "last" => saves[k].text.rev <= transcript'.rev
      BY <2>2, <2>3, <2>6
    <3>2. k # "query"
      BY <2>2, <2>6
    <3> QED BY <2>1, <2>2, <2>4, <2>6, <3>1, <3>2 DEF SoundSave
  <2> QED BY <2>5, <2>6
<1>3. ASSUME NEW k \in Saves PROVE SoundSave(k)'
  BY <1>2 DEF SoundSave
<1> QED BY <1>1, <1>3

\* While no process runs there are no saves in flight, nor when one starts.
LEMMA NoneWhileDown ==
  ASSUME Sound, at = "down", UNCHANGED saves
  PROVE  Alone' /\ \A k \in Saves : SoundSave(k)'
<1>1. \A k \in Saves : ~InFlight(k)'
  BY DEF Sound, SoundSave, InFlight
<1> QED BY <1>1 DEF Alone, SoundSave

\* A transcript that is taken over from its file.
LEMMA AdoptSound ==
  ASSUME TypeOK, SoundDisk, NEW i \in Ids, Restorable(file[i]), Adopt(i)
  PROVE  /\ session' = i /\ transcript' = file[i].text
         /\ transcript'.of = session' /\ kept[session'] <= transcript'.rev
         /\ transcript'.rev <= revision /\ transcript'.rev \in Nat
<1>1. session' = i /\ transcript' = file[i].text
  BY DEF Adopt
<1>2. /\ file[i].kind = "whole" /\ file[i].text.of = i /\ file[i].text.rev <= revision
      /\ kept[i] > 0 => file[i].text.rev >= kept[i]
  BY DEF Restorable, SoundDisk
<1>3. kept[i] \in Nat /\ file[i].text.rev \in Nat
  BY TypeFacts
<1> QED BY <1>1, <1>2, <1>3

LEMMA StartSound ==
  ASSUME TypeOK, Sound, Start \/ \E i \in Ids : Resume(i)
  PROVE  Sound'
<1>1. at = "down" /\ UNCHANGED <<saves, file, kept, revision>> /\ revision \in Nat
  BY TypeFacts DEF Start, Resume, disk
<1>2. Alone' /\ \A k \in Saves : SoundSave(k)'
  BY <1>1, NoneWhileDown
<1>3. SoundDisk /\ SoundDisk'
  BY <1>1, DiskSame DEF Sound
<1>4. CASE Start
  <2>1. session' \in Ids /\ transcript' = Blank /\ at' = "prompt"
    BY <1>4, FreshTypes DEF Start
  <2>2. SoundMemory'
    BY <2>1, TextTypes DEF SoundMemory
  <2> QED BY <1>2, <1>3, <2>2 DEF Sound
<1>5. ASSUME NEW i \in Ids, Resume(i)
      PROVE  Sound'
  <2>1. CASE Restorable(file[i])
    <3>1. at' = "prompt" /\ Adopt(i)
      BY <1>5, <2>1 DEF Resume
    <3>2. /\ session' = i /\ transcript'.of = session' /\ kept[session'] <= transcript'.rev
          /\ transcript'.rev <= revision
      BY <1>3, <2>1, <3>1, AdoptSound
    <3>3. SoundMemory'
      BY <1>1, <3>1, <3>2 DEF SoundMemory
    <3> QED BY <1>2, <1>3, <3>3 DEF Sound
  <2>2. CASE ~Restorable(file[i])
    <3>1. at' = "down"
      BY <1>5, <2>2 DEF Resume
    <3> QED BY <1>2, <1>3, <3>1 DEF Sound, SoundMemory
  <2> QED BY <2>1, <2>2
<1> QED BY <1>4, <1>5

\* What the current transcript grows into is the session's, and newer than all.
LEMMA NewerText ==
  ASSUME TypeOK, Sound, at # "down", NEW text \in Texts, text.rev = revision + 1,
         text.of = IF transcript.size = 0 THEN session ELSE transcript.of
  PROVE  /\ session \in Ids /\ text.of = session /\ kept[session] <= text.rev
         /\ transcript.size > 0 => transcript.rev <= text.rev
         /\ revision + 1 \in Nat /\ revision <= revision + 1
<1>1. /\ session \in Ids
      /\ transcript.size > 0 => transcript.of = session /\ transcript.rev <= revision
  BY DEF Sound, SoundMemory
<1>2. transcript.size \in Nat /\ revision \in Nat /\ transcript.rev \in Nat /\ kept[session] \in Nat
  BY <1>1, TypeFacts
<1>3. kept[session] <= revision
  BY <1>1, KeptIsOld DEF Sound
<1> QED BY <1>1, <1>2, <1>3

LEMMA SubmitSound ==
  ASSUME TypeOK, Sound, NEW plan \in Plans, Submit(plan)
  PROVE  Sound'
<1>1. /\ at = "prompt" /\ at' = "query" /\ revision' = revision + 1 /\ transcript' = Grown(plan)
      /\ UNCHANGED <<session, saves, file, tmp, kept>>
  BY DEF Submit, disk
<1>2. /\ transcript' \in Texts /\ transcript'.rev = revision + 1 /\ transcript'.size > 0
      /\ transcript'.of = IF transcript.size = 0 THEN session ELSE transcript.of
  BY <1>1, GrownTypes
<1>3. /\ session \in Ids /\ transcript'.of = session /\ kept[session] <= transcript'.rev
      /\ revision + 1 \in Nat /\ revision <= revision + 1
  BY <1>1, <1>2, NewerText
<1>4. Alone' /\ \A k \in Saves : SoundSave(k)'
  BY <1>1, <1>2, <1>3, SavesSame
<1>5. SoundDisk'
  BY <1>1, <1>3, DiskSame DEF Sound
<1>6. SoundMemory'
  BY <1>1, <1>2, <1>3 DEF SoundMemory
<1> QED BY <1>4, <1>5, <1>6 DEF Sound

LEMMA TurnSound ==
  ASSUME TypeOK, Sound, NEW text \in Texts, text.rev = revision + 1, text.size > 0,
         text.of = IF transcript.size = 0 THEN session ELSE transcript.of,
         Turn(text), ~overlapped'
  PROVE  Sound'
<1>1. /\ at = "query" /\ at' = "query" /\ revision' = revision + 1 /\ transcript' = text
      /\ UNCHANGED <<session, file, tmp, kept>>
  BY DEF Turn, disk
<1>2. /\ session \in Ids /\ text.of = session /\ kept[session] <= text.rev
      /\ transcript.size > 0 => transcript.rev <= text.rev
      /\ revision + 1 \in Nat /\ revision <= revision + 1
  BY <1>1, NewerText
<1>3. transcript.size > 0
  BY <1>1 DEF Sound, SoundMemory
<1>4. Alone' /\ \A k \in Saves : SoundSave(k)'
  <2>1. CASE Begin("turn", text)
    <3>1. "turn" \in Saves /\ "turn" # "query"
      BY DEF Saves
    <3>2. text.rev <= revision' /\ text.rev <= transcript'.rev
      BY <1>1, <1>2
    <3> QED BY <1>1, <1>2, <2>1, <3>1, <3>2, BeginSound
  <2>2. CASE UNCHANGED saves
    <3>1. transcript.rev <= transcript'.rev /\ transcript'.rev \in Nat
      BY <1>1, <1>2, <1>3
    <3> QED BY <1>1, <1>2, <2>2, <3>1, SavesSame
  <2> QED BY <2>1, <2>2 DEF Turn
<1>5. SoundDisk'
  BY <1>1, <1>2, DiskSame DEF Sound
<1>6. SoundMemory'
  BY <1>1, <1>2 DEF SoundMemory
<1> QED BY <1>4, <1>5, <1>6 DEF Sound

\* The save of the current transcript, after a query, before /exit or a signal.
LEMMA SaveSound ==
  ASSUME TypeOK, Sound, NEW k \in {"query", "last"}, Begin(k, transcript), ~overlapped',
         at # "down", at' # "down", transcript.size > 0,
         k = "query" => at' \in {"saving", "leaving"},
         UNCHANGED <<session, transcript, revision, file, tmp, kept>>
  PROVE  Sound'
<1>1. k \in Saves /\ k # "turn" /\ transcript \in Texts /\ revision \in Nat /\ transcript.rev \in Nat
  BY TypeFacts DEF Saves
<1>2. /\ session \in Ids /\ transcript.of = session /\ kept[session] <= transcript.rev
      /\ transcript.rev <= revision
  BY DEF Sound, SoundMemory
<1>3. Alone' /\ \A j \in Saves : SoundSave(j)'
  BY <1>1, <1>2, BeginSound
<1>4. SoundDisk'
  BY <1>1, DiskSame DEF Sound
<1>5. SoundMemory'
  BY <1>2 DEF SoundMemory
<1> QED BY <1>3, <1>4, <1>5 DEF Sound

LEMMA PromptSound ==
  ASSUME TypeOK, Sound, Clear \/ New \/ \E i \in Ids : Load(i), ~overlapped'
  PROVE  Sound'
<1>1. /\ at = "prompt" /\ at' = "prompt" /\ UNCHANGED <<revision, saves, file, tmp, kept>>
      /\ revision \in Nat
  BY TypeFacts DEF Clear, New, Load, disk
<1>2. SoundDisk /\ SoundDisk'
  BY <1>1, DiskSame DEF Sound
<1>3. CASE Clear
  <2>1. transcript' = Blank /\ UNCHANGED session /\ Blank.rev \in Nat
    BY <1>3 DEF Clear, Blank
  <2>2. Alone' /\ \A k \in Saves : SoundSave(k)'
    BY <1>1, <2>1, SavesSame
  <2>3. SoundMemory'
    BY <1>1, <2>1, TextTypes DEF SoundMemory, Sound
  <2> QED BY <1>2, <2>2, <2>3 DEF Sound
<1>4. CASE New
  <2>1. transcript' = Blank /\ session' \in Ids /\ Blank.rev \in Nat
    BY <1>4, FreshTypes DEF New, Blank
  <2>2. \A k \in Saves : saves[k].step # "init"
    BY <1>4 DEF New, Overtaken
  <2>3. Alone' /\ \A k \in Saves : SoundSave(k)'
    BY <1>1, <2>1, <2>2, SavesSame
  <2>4. SoundMemory'
    BY <1>1, <2>1, TextTypes DEF SoundMemory
  <2> QED BY <1>2, <2>3, <2>4 DEF Sound
<1>5. ASSUME NEW i \in Ids, Load(i)
      PROVE  Sound'
  <2>1. \A k \in Saves : saves[k].step # "init"
    BY <1>5 DEF Load, Overtaken
  <2>2. transcript'.rev \in Nat /\ SoundMemory'
    <3>1. CASE Restorable(file[i])
      <4>1. Adopt(i)
        BY <1>5 DEF Load
      <4>2. /\ session' = i /\ transcript'.of = session' /\ kept[session'] <= transcript'.rev
            /\ transcript'.rev <= revision /\ transcript'.rev \in Nat
        BY <1>2, <3>1, <4>1, AdoptSound
      <4> QED BY <1>1, <4>2 DEF SoundMemory
    <3>2. CASE ~Restorable(file[i])
      <4>1. UNCHANGED <<transcript, session>>
        BY <1>5, <3>2 DEF Load, Adopt
      <4> QED BY <1>1, <4>1, TypeFacts DEF Sound, SoundMemory
    <3> QED BY <3>1, <3>2
  <2>3. Alone' /\ \A k \in Saves : SoundSave(k)'
    BY <1>1, <2>1, <2>2, SavesSame
  <2> QED BY <1>2, <2>2, <2>3 DEF Sound
<1> QED BY <1>3, <1>4, <1>5

LEMMA EndSound ==
  ASSUME TypeOK, Sound, EndQuery \/ Exit \/ Signal \/ Crash, ~overlapped'
  PROVE  Sound'
<1>1. transcript.size \in Nat
  BY TypeFacts
<1>2. CASE EndQuery
  <2>1. transcript.size > 0
    BY <1>2 DEF EndQuery, Sound, SoundMemory
  <2> QED BY <1>2, <2>1, SaveSound DEF EndQuery, disk
<1>3. CASE Exit
  <2>1. CASE transcript.size = 0
    BY <1>3, <2>1, DownSound DEF Exit, disk, Sound
  <2>2. CASE transcript.size # 0
    <3>1. transcript.size > 0
      BY <1>1, <2>2
    <3> QED BY <1>3, <2>2, <3>1, SaveSound DEF Exit, disk
  <2> QED BY <2>1, <2>2
<1>4. CASE Signal
  <2>1. CASE transcript.size = 0
    BY <1>4, <2>1, DownSound DEF Signal, disk, Sound
  <2>2. CASE transcript.size # 0
    <3>1. transcript.size > 0
      BY <1>1, <2>2
    <3> QED BY <1>4, <2>2, <3>1, SaveSound DEF Signal, disk, ram
  <2> QED BY <2>1, <2>2
<1>5. CASE Crash
  BY <1>5, DownSound DEF Crash, disk, Sound
<1> QED BY <1>2, <1>3, <1>4, <1>5

-----------------------------------------------------------------------------
(* The steps of a save *)

LEMMA IdleStays == [Idle EXCEPT !.fd = "none"] = Idle
BY DEF Idle

\* What is known of the only save in flight.
LEMMA Lone ==
  ASSUME TypeOK, Sound, NEW k \in Saves, InFlight(k)
  PROVE  /\ saves[k].step # "none" /\ at # "down" /\ session \in Ids
         /\ \A j \in Saves : j # k => saves[j] = Idle
         /\ saves[k].text.of \in Ids /\ saves[k].text.rev <= revision
         /\ kept[saves[k].text.of] <= saves[k].text.rev
         /\ saves[k].step = "init" => saves[k].text.of = session
         /\ saves[k].step # "init" => saves[k].id = saves[k].text.of
         /\ saves[k].step = "open" => saves[k].fd = "tmp" /\ tmp[saves[k].id] = Empty
         /\ saves[k].step = "written" => saves[k].fd = "tmp" /\ tmp[saves[k].id] = Whole(saves[k].text)
         /\ k # "last" => saves[k].text.rev <= transcript.rev /\ saves[k].text.of = session
         /\ k = "turn" => at = "query"
         /\ k = "query" => at \in {"saving", "leaving"}
<1>1. \A j \in Saves : j # k => saves[j] = Idle
  BY DEF Sound, Alone, InFlight
<1>2. SoundSave(k)
  BY DEF Sound
<1>3. session \in Ids
  BY <1>2 DEF Sound, SoundSave, SoundMemory
<1> QED BY <1>1, <1>2, <1>3 DEF SoundSave

\* The only save in flight takes a step and stays in flight.
LEMMA StillAlone ==
  ASSUME TypeOK, Sound, NEW k \in Saves, InFlight(k), NEW f, saves' = [saves EXCEPT ![k] = f],
         SoundSave(k)'
  PROVE  Alone' /\ \A j \in Saves : SoundSave(j)'
<1>1. \A j \in Saves : j # k => saves'[j] = Idle
  BY Lone, TypeFacts
<1>2. \A j \in Saves : j # k => ~InFlight(j)'
  BY <1>1 DEF InFlight, Idle
<1>3. Alone'
  BY <1>2 DEF Alone
<1>4. ASSUME NEW j \in Saves PROVE SoundSave(j)'
  BY <1>2 DEF SoundSave
<1> QED BY <1>3, <1>4

LEMMA NamedSound ==
  ASSUME TypeOK, Sound, NEW k \in Saves, Named(k)
  PROVE  Sound'
<1>1. /\ saves[k].step = "init"
      /\ UNCHANGED <<at, session, transcript, revision, file, tmp, kept>>
  BY DEF Named, disk
<1>2. saves' = [saves EXCEPT ![k] = [saves[k] EXCEPT !.step = "named", !.id = session]]
  BY TypeFacts DEF Named
<1>3. InFlight(k)
  BY <1>1, TextTypes DEF InFlight
<1>4. PICK f \in Flights : f = saves[k]
  BY TypeFacts
<1>5. PICK g : g = [f EXCEPT !.step = "named", !.id = session]
  OBVIOUS
<1>6. g.step = "named" /\ g.id = session /\ g.text = f.text
  BY <1>5 DEF Flights
<1>7. saves'[k] = g /\ saves' = [saves EXCEPT ![k] = g]
  BY <1>2, <1>4, <1>5, TypeFacts
<1>8. SoundSave(k)'
  BY <1>1, <1>3, <1>4, <1>6, <1>7, Lone DEF SoundSave
<1>9. Alone' /\ \A j \in Saves : SoundSave(j)'
  BY <1>3, <1>7, <1>8, StillAlone
<1>10. revision \in Nat
  BY TypeFacts
<1>11. SoundDisk' /\ SoundMemory'
  BY <1>1, <1>10, DiskSame DEF Sound, SoundMemory
<1> QED BY <1>9, <1>11 DEF Sound

LEMMA OpenSound ==
  ASSUME TypeOK, Sound, NEW k \in Saves, Open(k)
  PROVE  Sound'
<1>1. /\ saves[k].step = "named" /\ tmp' = [tmp EXCEPT ![saves[k].id] = Empty]
      /\ UNCHANGED <<at, session, transcript, revision, file, kept>>
  BY DEF Open, ram
<1>2. saves' = [saves EXCEPT ![k] = [saves[k] EXCEPT !.step = "open", !.fd = "tmp"]]
  BY TypeFacts DEF Open
<1>3. InFlight(k)
  BY <1>1, TextTypes DEF InFlight
<1>4. PICK f \in Flights : f = saves[k]
  BY TypeFacts
<1>5. PICK g : g = [f EXCEPT !.step = "open", !.fd = "tmp"]
  OBVIOUS
<1>6. g.step = "open" /\ g.id = f.id /\ g.text = f.text /\ g.fd = "tmp"
  BY <1>5 DEF Flights
<1>7. saves'[k] = g /\ saves' = [saves EXCEPT ![k] = g]
  BY <1>2, <1>4, <1>5, TypeFacts
<1>8. tmp'[f.id] = Empty
  BY <1>1, <1>3, <1>4, Lone, TypeFacts
<1>9. SoundSave(k)'
  BY <1>1, <1>3, <1>4, <1>6, <1>7, <1>8, Lone DEF SoundSave
<1>10. Alone' /\ \A j \in Saves : SoundSave(j)'
  BY <1>3, <1>7, <1>9, StillAlone
<1>11. revision \in Nat
  BY TypeFacts
<1>12. SoundDisk' /\ SoundMemory'
  BY <1>1, <1>11, DiskSame DEF Sound, SoundMemory
<1> QED BY <1>10, <1>12 DEF Sound

\* An empty file holds a text once it is written.
LEMMA OverEmpty ==
  ASSUME NEW text PROVE Over(Empty, text) = {Whole(text)}
BY DEF Over, Empty

LEMMA WriteSound ==
  ASSUME TypeOK, Sound, NEW k \in Saves, Write(k)
  PROVE  Sound'
<1>1. /\ saves[k].step = "open" /\ UNCHANGED <<at, session, transcript, revision, kept>>
      /\ Put(k, Over(Behind(k), saves[k].text))
  BY DEF Write, ram
<1>2. saves' = [saves EXCEPT ![k] = [saves[k] EXCEPT !.step = "written"]]
  BY TypeFacts DEF Write
<1>3. InFlight(k)
  BY <1>1, TextTypes DEF InFlight
<1>4. PICK f \in Flights : f = saves[k]
  BY TypeFacts
<1>5. PICK g : g = [f EXCEPT !.step = "written"]
  OBVIOUS
<1>6. g.step = "written" /\ g.id = f.id /\ g.text = f.text /\ g.fd = f.fd
  BY <1>5 DEF Flights
<1>7. saves'[k] = g /\ saves' = [saves EXCEPT ![k] = g]
  BY <1>2, <1>4, <1>5, TypeFacts
<1>8. f.fd = "tmp" /\ tmp[f.id] = Empty /\ f.id \in Ids
  BY <1>1, <1>3, <1>4, Lone
<1>9. Over(Behind(k), f.text) = {Whole(f.text)}
  BY <1>4, <1>8, OverEmpty DEF Behind
<1>10. tmp' = [tmp EXCEPT ![f.id] = Whole(f.text)] /\ file' = file
  BY <1>1, <1>4, <1>8, <1>9 DEF Put
<1>11. tmp'[f.id] = Whole(f.text)
  BY <1>8, <1>10, TypeFacts
<1>12. SoundSave(k)'
  BY <1>1, <1>3, <1>4, <1>6, <1>7, <1>8, <1>11, Lone DEF SoundSave
<1>13. Alone' /\ \A j \in Saves : SoundSave(j)'
  BY <1>3, <1>7, <1>12, StillAlone
<1>14. revision \in Nat
  BY TypeFacts
<1>15. SoundDisk' /\ SoundMemory'
  BY <1>1, <1>10, <1>14, DiskSame DEF Sound, SoundMemory
<1> QED BY <1>13, <1>15 DEF Sound

\* The only save in flight returns: none is in flight, and the process is down
\* or goes on as it was.
LEMMA ReturnSound ==
  ASSUME TypeOK, Sound, NEW k \in Saves, InFlight(k), NEW fds, Return(k, fds),
         \A j \in Saves : j # k => fds[j] = "none",
         SoundDisk', k # "last" => kept'[session] <= transcript.rev
  PROVE  Sound'
<1>1. CASE k = "last" \/ (k = "query" /\ at = "leaving")
  <2>1. Down
    BY <1>1 DEF Return
  <2>2. at' = "down" /\ \A j \in Saves : ~InFlight(j)'
    BY <2>1 DEF Down, InFlight
  <2> QED BY <2>2 DEF Sound, Alone, SoundSave, SoundMemory
<1>2. CASE ~(k = "last" \/ (k = "query" /\ at = "leaving"))
  <2>1. /\ saves' = [j \in Saves |-> IF j = k THEN Idle ELSE [saves[j] EXCEPT !.fd = fds[j]]]
        /\ at' = IF k = "query" THEN "prompt" ELSE at
        /\ UNCHANGED <<session, transcript, revision>>
    BY <1>2 DEF Return
  <2>2. ASSUME NEW j \in Saves PROVE saves'[j] = Idle
    <3>1. CASE j = k
      BY <2>1, <3>1
    <3>2. CASE j # k
      <4>1. saves[j] = Idle /\ fds[j] = "none"
        BY <3>2, Lone
      <4> QED BY <2>1, <3>2, <4>1, IdleStays
    <3> QED BY <3>1, <3>2
  <2>3. \A j \in Saves : ~InFlight(j)'
    BY <2>2 DEF InFlight, Idle
  <2>4. at # "down" /\ kept'[session] <= transcript.rev
    BY <1>2, Lone
  <2>5. SoundMemory'
    BY <2>1, <2>4 DEF Sound, SoundMemory
  <2> QED BY <2>3, <2>5 DEF Sound, Alone, SoundSave
<1> QED BY <1>1, <1>2

LEMMA RenameSound ==
  ASSUME TypeOK, Sound, NEW k \in Saves, Rename(k)
  PROVE  Sound'
<1>1. PICK i : i = saves[k].id
  OBVIOUS
<1>2. PICK text : text = saves[k].text
  OBVIOUS
<1>3. /\ saves[k].step = "written"
      /\ file' = [file EXCEPT ![i] = tmp[i]] /\ tmp' = [tmp EXCEPT ![i] = Absent]
      /\ kept' = [kept EXCEPT ![i] = IF text.rev > @ THEN text.rev ELSE @]
      /\ Return(k, Renamed(k))
  BY <1>1, <1>2 DEF Rename
<1>4. InFlight(k)
  BY <1>3, TextTypes DEF InFlight
<1>5. /\ i \in Ids /\ i = text.of /\ text.rev <= revision /\ kept[i] <= text.rev
      /\ tmp[i] = Whole(text)
  BY <1>1, <1>2, <1>3, <1>4, Lone
<1>6. text.rev \in Nat /\ kept[i] \in Nat /\ revision \in Nat /\ text \in Texts
  BY <1>2, <1>5, TypeFacts
<1>7. kept'[i] = text.rev /\ \A j \in Ids : j # i => kept'[j] = kept[j] /\ file'[j] = file[j]
  <2>1. kept'[i] = IF text.rev > kept[i] THEN text.rev ELSE kept[i]
    BY <1>3, <1>5, TypeFacts
  <2>2. kept'[i] = text.rev
    BY <1>5, <1>6, <2>1
  <2> QED BY <1>3, <2>2, TypeFacts
<1>8. file'[i].kind = "whole" /\ file'[i].text = text
  BY <1>3, <1>5, <1>6, TypeFacts, TextTypes
<1>9. revision' = revision
  BY <1>3 DEF Return, Down
<1>10. ASSUME NEW j \in Ids
       PROVE  /\ file'[j].kind \in {"absent", "whole"}
              /\ file'[j].kind = "whole" => file'[j].text.of = j /\ file'[j].text.rev <= revision'
              /\ kept'[j] > 0 => file'[j].kind = "whole" /\ file'[j].text.rev >= kept'[j]
  <2>1. CASE j = i
    BY <1>5, <1>6, <1>7, <1>8, <1>9, <2>1
  <2>2. CASE j # i
    BY <1>7, <1>9, <2>2 DEF Sound, SoundDisk
  <2> QED BY <2>1, <2>2
<1>11. SoundDisk'
  BY <1>10 DEF SoundDisk
<1>12. k # "last" => kept'[session] <= transcript.rev
  BY <1>2, <1>4, <1>5, <1>7, Lone
<1>13. ASSUME NEW j \in Saves, j # k PROVE Renamed(k)[j] = "none"
  <2>1. saves[j].fd = "none" /\ saves[j].id = NoId
    BY <1>4, <1>13, Lone, TextTypes
  <2> QED BY <2>1 DEF Renamed
<1> QED BY <1>3, <1>4, <1>11, <1>12, <1>13, ReturnSound

LEMMA FailSound ==
  ASSUME TypeOK, Sound, NEW k \in Saves, Fail(k)
  PROVE  Sound'
<1>1. PICK fds : fds = [j \in Saves |-> saves[j].fd]
  OBVIOUS
<1>2. InFlight(k) /\ Return(k, fds) /\ UNCHANGED kept
  BY <1>1 DEF Fail
<1>3. file' = file
  <2>1. CASE saves[k].step = "open"
    <3>1. saves[k].fd = "tmp"
      BY <1>2, <2>1, Lone
    <3> QED BY <2>1, <3>1 DEF Fail, Put
  <2>2. CASE saves[k].step # "open"
    BY <2>2 DEF Fail, disk
  <2> QED BY <2>1, <2>2
<1>4. revision' = revision /\ revision \in Nat /\ kept' = kept
  BY <1>2, TypeFacts DEF Return, Down
<1>5. SoundDisk'
  BY <1>3, <1>4, DiskSame DEF Sound
<1>6. k # "last" => kept'[session] <= transcript.rev
  <2>1. kept[saves[k].text.of] <= saves[k].text.rev
    BY <1>2, Lone
  <2>2. CASE k # "last"
    <3>1. saves[k].text.of = session /\ saves[k].text.rev <= transcript.rev /\ session \in Ids
      BY <1>2, <2>2, Lone
    <3>2. kept[session] \in Nat /\ saves[k].text.rev \in Nat /\ transcript.rev \in Nat
      BY <3>1, TypeFacts
    <3> QED BY <1>4, <2>1, <3>1, <3>2
  <2> QED BY <2>2
<1>7. ASSUME NEW j \in Saves, j # k PROVE fds[j] = "none"
  BY <1>1, <1>2, <1>7, Lone, TextTypes
<1> QED BY <1>2, <1>5, <1>6, <1>7, ReturnSound

-----------------------------------------------------------------------------
(* The theorems *)

\* Saves that have overlapped stay so, and until they do all is sound.
LEMMA NextSound ==
  ASSUME SessionInv, [Next]_vars
  PROVE  SessionInv'
<1>1. TypeOK /\ TypeOK'
  BY NextTypes DEF SessionInv
<1>2. SUFFICES ASSUME ~overlapped' PROVE Sound'
  BY <1>1 DEF SessionInv
<1>3. ~overlapped
  <2>1. overlapped => overlapped'
    BY DEF Next, vars, Start, Resume, Submit, Turn, EndQuery, Clear, New, Exit, Load, Signal, Crash,
           Step, Named, Open, Write, Rename, Fail, Begin, Overtaken
  <2> QED BY <1>2, <2>1
<1>4. Sound
  BY <1>3 DEF SessionInv
<1>5. CASE Turn(Grown(FALSE))
  <2>1. /\ Grown(FALSE) \in Texts /\ Grown(FALSE).rev = revision + 1 /\ Grown(FALSE).size > 0
        /\ Grown(FALSE).of = IF transcript.size = 0 THEN session ELSE transcript.of
    BY <1>1, GrownTypes
  <2> QED BY <1>1, <1>2, <1>4, <1>5, <2>1, TurnSound
<1>6. ASSUME NEW system \in {FALSE, transcript.system}, Turn(Compacted(system))
      PROVE  Sound'
  <2>1. system \in BOOLEAN
    BY <1>1 DEF TypeOK, Texts
  <2>2. /\ Compacted(system) \in Texts /\ Compacted(system).rev = revision + 1
        /\ Compacted(system).size > 0
        /\ Compacted(system).of = IF transcript.size = 0 THEN session ELSE transcript.of
    BY <1>1, <2>1, CompactedTypes
  <2> QED BY <1>1, <1>2, <1>4, <1>6, <2>2, TurnSound
<1>7. CASE Start \/ \E i \in Ids : Resume(i)
  BY <1>1, <1>4, <1>7, StartSound
<1>8. CASE \E plan \in Plans : Submit(plan)
  BY <1>1, <1>4, <1>8, SubmitSound
<1>9. CASE Clear \/ New \/ \E i \in Ids : Load(i)
  BY <1>1, <1>2, <1>4, <1>9, PromptSound
<1>10. CASE EndQuery \/ Exit \/ Signal \/ Crash
  BY <1>1, <1>2, <1>4, <1>10, EndSound
<1>11. ASSUME NEW k \in Saves, Step(k)
       PROVE  Sound'
  BY <1>1, <1>4, <1>11, NamedSound, OpenSound, WriteSound, RenameSound, FailSound DEF Step
<1>12. CASE UNCHANGED vars
  BY <1>4, <1>12 DEF vars, ram, disk, Sound, Alone, SoundSave, InFlight, SoundMemory, SoundDisk
<1> QED BY <1>5, <1>6, <1>7, <1>8, <1>9, <1>10, <1>11, <1>12 DEF Next

LEMMA InitSound == Init => SessionInv
<1> SUFFICES ASSUME Init PROVE SessionInv
  OBVIOUS
<1>1. TypeOK
  BY TextTypes, TypeParts DEF Init, Places
<1>2. \A k \in Saves : ~InFlight(k)
  BY DEF Init, InFlight
<1>3. SoundDisk
  <2>1. ASSUME NEW i \in Ids PROVE file[i].kind = "absent" /\ kept[i] = 0
    BY DEF Init, Absent
  <2>2. ASSUME NEW i \in Ids
        PROVE  /\ file[i].kind \in {"absent", "whole"} /\ file[i].kind # "whole" /\ ~(kept[i] > 0)
    BY <2>1
  <2> QED BY <2>2 DEF SoundDisk
<1>4. Alone /\ \A k \in Saves : SoundSave(k)
  BY <1>2 DEF Alone, SoundSave
<1>5. SoundMemory
  BY DEF Init, SoundMemory
<1> QED BY <1>1, <1>3, <1>4, <1>5 DEF SessionInv, Sound

LEMMA SessionInvariant == Spec => []SessionInv
BY InitSound, NextSound, PTL DEF Spec

\* Every variable has its type, whatever fails and whenever the processes end.
THEOREM SessionTypeCorrect == Spec => []TypeOK
<1>1. SessionInv => TypeOK
  BY DEF SessionInv
<1> QED BY <1>1, SessionInvariant, PTL

\* The file of a session is whole, its own, and holds the newest transcript whose
\* save had ended or a newer one, until two saves overlap.
THEOREM SavedIsKept == Spec => []NothingSavedIsLost
<1>1. SessionInv => NothingSavedIsLost
  BY DEF SessionInv, Sound, SoundDisk, NothingSavedIsLost
<1> QED BY <1>1, SessionInvariant, PTL

=============================================================================
