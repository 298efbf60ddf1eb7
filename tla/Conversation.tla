---------------------------- MODULE Conversation ----------------------------
\* The transcript of a session (ConversationState) and its compaction by a
\* background call (CompactionHandler): a call summarises a snapshot of the
\* transcript while messages are added, and its result replaces the snapshot
\* when the engine drains it.  A message stands for the set "of" of the numbers
\* of the messages that were added: its own, or those a summary covers.  The
\* conversation is one branch (SessionTree is not modelled), and the number of
\* failed compactions, which the background call never changes because
\* fullCompact() catches every failure (functional.ts:229-237), is left out.
EXTENDS Naturals, SequencesExt

CONSTANTS
  PreserveRecent,  \* messages a full compaction keeps as they are (6)
  MaxMessages      \* the transcript is trimmed to this length (200)

ASSUME PreserveAssumption == PreserveRecent \in Nat \ {0}
ASSUME MaxMessagesAssumption == MaxMessages \in Nat /\ MaxMessages >= 2

VARIABLES
  messages,         \* the transcript
  promise,          \* pendingCompactPromise # null
  compactMessages,  \* pendingCompactMessages, <<>> for null
  compactDone,      \* pendingCompactDone
  compactMsgCount,  \* pendingCompactMsgCount
  running,          \* the snapshots of the background calls still running
  added,            \* how many messages were added so far
  dropped,          \* the messages given up on purpose: trimmed, truncated, cleared
  stale             \* the transcript was cut or replaced under a running compaction

convVars == <<messages, promise, compactMessages, compactDone, compactMsgCount,
              running, added, dropped, stale>>
pending  == <<promise, compactMessages, compactDone, compactMsgCount>>

Kinds == {"user", "system", "assistant", "call", "tool"}  \* call: assistant with tool calls
Messages == [of : SUBSET Nat, kind : Kinds]

Covered(q) == UNION {q[i].of : i \in DOMAIN q}
Fresh(kinds) == [i \in DOMAIN kinds |-> [of |-> {added + i}, kind |-> kinds[i]]]

ConvInit ==
  /\ messages = <<>>
  /\ promise = FALSE /\ compactMessages = <<>> /\ compactDone = FALSE /\ compactMsgCount = 0
  /\ running = <<>>
  /\ added = 0 /\ dropped = {} /\ stale = FALSE

-----------------------------------------------------------------------------
\* Messages of these kinds are added at the end.
Extend(kinds) ==
  /\ messages' = messages \o Fresh(kinds)
  /\ added' = added + Len(kinds)
  /\ UNCHANGED <<pending, running, dropped, stale>>

\* The first system and the first user message survive a trim.
Anchors(q) ==
  {i \in DOMAIN q : q[i].kind \in {"system", "user"} /\ \A j \in 1..(i - 1) : q[j].kind # q[i].kind}

\* The ways to keep some messages before position c, in order, and all after it.
Heads(c) == {<<>>} \cup {<<a>> : a \in 1..c}
                   \cup {h \in {<<a, b>> : a, b \in 1..c} : h[1] < h[2]}
Keep(q, c, h) == [i \in DOMAIN h |-> q[h[i]]] \o SubSeq(q, c + 1, Len(q))

\* q without its oldest messages, the anchors excepted.
Trims(q) ==
  UNION {{Keep(q, c, h) : h \in {h \in Heads(c) : /\ {h[i] : i \in DOMAIN h} = Anchors(q) \cap 1..c
                                                 /\ Len(h) + Len(q) - c = MaxMessages}} :
         c \in DOMAIN q}

\* What the transcript becomes by a cut: t is what is left of q.
CutTo(q, t) ==
  /\ messages' = t
  /\ dropped' = dropped \cup (Covered(q) \ Covered(t))
  /\ stale' = (stale \/ promise)

\* A user message is added and the transcript is trimmed to its limit.
Submit ==
  LET q == messages \o Fresh(<<"user">>) IN
  /\ added' = added + 1
  /\ IF Len(q) <= MaxMessages
     THEN messages' = q /\ UNCHANGED <<dropped, stale>>
     ELSE \E t \in Trims(q) : CutTo(q, t)
  /\ UNCHANGED <<pending, running>>

\* The context overflowed: only the newest messages stay.  How many depends on
\* their tokens, or it is half of them.
Shrink(c) ==
  /\ c \in 1..(Len(messages) - 1)
  /\ CutTo(messages, SubSeq(messages, c + 1, Len(messages)))
  /\ UNCHANGED <<pending, running, added>>

\* reset(), and a transcript of messages of these kinds instead of the old one:
\* none for clear(), those of the snapshot for restoreSession().
Replace(kinds) ==
  /\ messages' = Fresh(kinds)
  /\ added' = added + Len(kinds)
  /\ dropped' = 1..added
  /\ stale' = (running # <<>>)
  /\ promise' = FALSE /\ compactMessages' = <<>> /\ compactDone' = FALSE /\ compactMsgCount' = 0
  /\ UNCHANGED running

-----------------------------------------------------------------------------
\* A compaction starts in the background, unless one is pending.
Trigger ==
  /\ IF promise THEN UNCHANGED <<pending, running>>
     ELSE /\ promise' = TRUE
          /\ compactMsgCount' = Len(messages)
          /\ running' = Append(running, messages)
          /\ UNCHANGED <<compactMessages, compactDone>>
  /\ UNCHANGED <<messages, added, dropped, stale>>

\* A full compaction: a summary of all but the most recent messages, and these.
Summarised(q) ==
  LET old == Len(q) - PreserveRecent
  IN  <<[of |-> Covered(SubSeq(q, 1, old)), kind |-> "user"]>> \o SubSeq(q, old + 1, Len(q))

\* What fullCompact() returns for snapshot q: nothing to do or failed, only old
\* tool results cleared (microcompact), or a summary.
Outcomes(q) == {<<>>} \cup IF Len(q) > PreserveRecent + 2 THEN {q, Summarised(q)} ELSE {}

\* The background call i ends with outcome r.
Complete(i, r) ==
  /\ i \in DOMAIN running
  /\ r \in Outcomes(running[i])
  /\ running' = RemoveAt(running, i)
  /\ compactMessages' = r /\ compactDone' = TRUE
  /\ UNCHANGED <<messages, promise, compactMsgCount, added, dropped, stale>>

\* Bug for comparison: messages added while the compaction ran are not merged.
DrainWithoutMerge ==
  IF promise /\ compactDone
  THEN /\ promise' = FALSE /\ compactMessages' = <<>> /\ compactDone' = FALSE /\ compactMsgCount' = 0
       /\ messages' = IF compactMessages = <<>> THEN messages ELSE compactMessages
       /\ UNCHANGED <<running, added, dropped, stale>>
  ELSE UNCHANGED convVars

\* Bug for comparison: all messages are merged, not only those added since.
DrainTwice ==
  IF promise /\ compactDone
  THEN /\ promise' = FALSE /\ compactMessages' = <<>> /\ compactDone' = FALSE /\ compactMsgCount' = 0
       /\ messages' = IF compactMessages = <<>> THEN messages ELSE compactMessages \o messages
       /\ UNCHANGED <<running, added, dropped, stale>>
  ELSE UNCHANGED convVars

\* The result of a finished compaction takes the place of the messages there
\* were when it started; the messages added since follow.
Drain ==
  IF promise /\ compactDone
  THEN /\ promise' = FALSE /\ compactMessages' = <<>> /\ compactDone' = FALSE /\ compactMsgCount' = 0
       /\ messages' = IF compactMessages = <<>> THEN messages
                      ELSE compactMessages \o SubSeq(messages, compactMsgCount + 1, Len(messages))
       /\ UNCHANGED <<running, added, dropped, stale>>
  ELSE UNCHANGED convVars

-----------------------------------------------------------------------------
\* The kinds of the messages that a step leaves after position n.
KindsAfter(n) == [i \in 1..(Len(messages') - n) |-> messages'[n + i].kind]

ConvNext ==
  \/ \E kinds \in {KindsAfter(Len(messages))} \cap Seq(Kinds) : Extend(kinds)
  \/ \E kinds \in {KindsAfter(0)} \cap Seq(Kinds) : Replace(kinds)
  \/ Submit
  \/ \E c \in DOMAIN messages : Shrink(c)
  \/ Trigger
  \/ \E i \in DOMAIN running : \E r \in Outcomes(running[i]) : Complete(i, r)
  \/ Drain

ConvSpec == ConvInit /\ [][ConvNext]_convVars

-----------------------------------------------------------------------------
ConvTypeOK ==
  /\ messages \in Seq(Messages)
  /\ promise \in BOOLEAN /\ compactDone \in BOOLEAN /\ stale \in BOOLEAN
  /\ compactMessages \in Seq(Messages)
  /\ compactMsgCount \in Nat
  /\ running \in Seq(Seq(Messages))
  /\ added \in Nat /\ dropped \in SUBSET Nat

\* Every message that was added and not given up on purpose is in the
\* transcript, itself or in a summary, however compactions and new messages
\* interleave, "so that nothing is lost" (QueryEngineCompaction.ts:283-287).
\* A cut or reset under a running compaction voids this (see stale).
NothingLost == ~stale => (1..added) \ dropped \subseteq Covered(messages)

\* The transcript is in the order in which its messages were added, and no
\* message is in it twice, whatever was summarised, merged and cut meanwhile
\* (QueryEngineCompaction.ts:317-326).
InOrder(q) == \A i, j \in DOMAIN q : i < j => \A a \in q[i].of, b \in q[j].of : a < b
Chronological == InOrder(messages)
=============================================================================
