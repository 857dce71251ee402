------------------------ MODULE LiveEmulator_proofs -------------------------
(***************************************************************************)
(* The embedded emulator, proved for every set of levels and every bound.  *)
(*                                                                         *)
(* What the session is owed travels through the queue of the worker.  For  *)
(* each kind of command - those that pause, ask for a level, load a ROM or *)
(* bear the sprites of a level - only the last one that waits decides, and *)
(* when none waits the backend has taken it.  An invariant then has two    *)
(* halves: the last command of a kind agrees with the session and with the *)
(* document, and where none waits the game does.  A message of the program *)
(* changes the first half, a command the backend takes hands it over to    *)
(* the second.  An error, or a sprite reload that adopts what it does not   *)
(* carry, loses it: the trust is gone until the document is sent again.    *)
(***************************************************************************)
EXTENDS LiveEmulator, SequenceTheorems, TLAPS

-----------------------------------------------------------------------------
(* Commands *)

Modes == {"running", "soft", "hard"}

\* What a command carries.
LEMMA CommandFacts ==
    ASSUME NEW c \in Command
    PROVE  /\ c.op \in {"initialize", "reload", "load", "sprites", "pause", "step"}
           /\ c.op = "initialize" => /\ c.level \in Levels \cup {LevelZero}
                                     /\ c.rom \in Content /\ c.overworld \in BOOLEAN
           /\ c.op = "reload" => c.rom \in Content
           /\ c.op = "load" => c.level \in Levels
           /\ c.op = "sprites" => c.level \in Levels /\ c.rom \in Content
           /\ c.op = "pause" => c.mode \in Modes
  BY DEF Command, Modes

\* The commands the program makes.
LEMMA CommandsAreMade ==
    /\ \A z \in Levels \cup {LevelZero}, c \in Content, o \in BOOLEAN :
           Initialize(z, c, o) \in Command
    /\ \A c \in Content : ReloadRom(c) \in Command
    /\ \A l \in Levels : LoadLevel(l) \in Command
    /\ \A l \in Levels, c \in Content : ReloadSprites(l, c) \in Command
    /\ \A m \in Modes : SetPauseMode(m) \in Command
    /\ StepFrame \in Command
  BY DEF Command, Initialize, ReloadRom, LoadLevel, ReloadSprites, SetPauseMode,
         StepFrame, Modes

-----------------------------------------------------------------------------
(* The queue *)

\* A command of kind K waits in the queue, and the last one that does.
Waits(q, K) == \E i \in 1..Len(q) : q[i] \in K
LastIn(q, K) ==
    {q[i] : i \in {j \in 1..Len(q) :
                      /\ q[j] \in K
                      /\ \A k \in 1..Len(q) : j < k => q[k] \notin K}}

Pauses == {c \in Command : c.op = "pause"}
Loads == {c \in Command : c.op \in {"initialize", "load"}}
Fulls == {c \in Command : c.op \in {"initialize", "reload"}}
Bears(l) == {c \in Command : \/ c.op \in {"initialize", "reload"}
                             \/ c.op = "sprites" /\ c.level = l}

\* An empty queue.
LEMMA QueueOfNone == ASSUME NEW K PROVE ~Waits(<<>>, K) /\ LastIn(<<>>, K) = {}
  BY DEF LastIn, Waits

\* A queue of one command.
LEMMA QueueOfOne ==
    ASSUME NEW c \in Command, NEW K
    PROVE  /\ Waits(<<c>>, K) <=> c \in K
           /\ LastIn(<<c>>, K) = IF c \in K THEN {c} ELSE {}
<1>1. Len(<<c>>) = 1 /\ <<c>>[1] = c
  OBVIOUS
<1>2. \A j \in 1..1 : j = 1
  OBVIOUS
<1> QED
  BY <1>1, <1>2 DEF LastIn, Waits

\* Two queues one behind the other: what waits in the second is later.
LEMMA QueueJoined ==
    ASSUME NEW q \in Seq(Command), NEW r \in Seq(Command), NEW K
    PROVE  /\ Waits(q \o r, K) <=> Waits(q, K) \/ Waits(r, K)
           /\ LastIn(q \o r, K) = IF Waits(r, K) THEN LastIn(r, K) ELSE LastIn(q, K)
<1> DEFINE n == Len(q)
           m == Len(r)
           s == q \o r
<1>1. /\ n \in Nat /\ m \in Nat /\ Len(s) = n + m
      /\ \A i \in 1..n : s[i] = q[i]
      /\ \A i \in 1..m : s[n + i] = r[i]
      /\ \A i \in 1..(n + m) : i \in 1..n \/ \E j \in 1..m : i = n + j
  <2>1. n \in Nat /\ m \in Nat /\ Len(s) = n + m
    OBVIOUS
  <2>2. \A i \in 1..(n + m) : s[i] = IF i <= n THEN q[i] ELSE r[i - n]
    BY <2>1
  <2>3. \A i \in 1..n : i \in 1..(n + m) /\ i <= n
    BY <2>1
  <2>4. \A i \in 1..m : n + i \in 1..(n + m) /\ ~(n + i <= n) /\ (n + i) - n = i
    BY <2>1
  <2>5. \A i \in 1..(n + m) : i \in 1..n \/ (i - n \in 1..m /\ i = n + (i - n))
    BY <2>1
  <2> HIDE DEF s, n, m
  <2>6. \A i \in 1..n : s[i] = q[i]
    BY <2>2, <2>3
  <2>7. \A i \in 1..m : s[n + i] = r[i]
    BY <2>2, <2>4
  <2> QED
    BY <2>1, <2>5, <2>6, <2>7
<1> HIDE DEF s
<1>0. /\ \A i \in 1..n : i \in 1..(n + m)
      /\ \A i \in 1..m : n + i \in 1..(n + m)
      /\ \A i \in 1..n, j \in 1..m : i < n + j
      /\ \A i \in 1..m, j \in 1..m : i < j <=> n + i < n + j
  BY <1>1
<1> HIDE DEF n, m
<1>2. Waits(s, K) <=> Waits(q, K) \/ Waits(r, K)
  <2>1. /\ Waits(s, K) <=> \E i \in 1..(n + m) : s[i] \in K
        /\ Waits(q, K) <=> \E i \in 1..n : q[i] \in K
        /\ Waits(r, K) <=> \E i \in 1..m : r[i] \in K
    BY <1>1 DEF Waits, n, m
  <2>2. ASSUME NEW i \in 1..(n + m), s[i] \in K
        PROVE  (\E j \in 1..n : q[j] \in K) \/ (\E j \in 1..m : r[j] \in K)
    BY <1>1, <2>2
  <2>3. ASSUME NEW i \in 1..n, q[i] \in K PROVE \E j \in 1..(n + m) : s[j] \in K
    BY <1>0, <1>1, <2>3
  <2>4. ASSUME NEW i \in 1..m, r[i] \in K PROVE \E j \in 1..(n + m) : s[j] \in K
    BY <1>0, <1>1, <2>4
  <2> QED
    BY <2>1, <2>2, <2>3, <2>4
<1>3. CASE ~Waits(r, K)
  <2>1. \A j \in 1..m : s[n + j] \notin K
    BY <1>1, <1>3 DEF Waits, m
  <2>2. ASSUME NEW c PROVE c \in LastIn(s, K) <=> c \in LastIn(q, K)
    <3>1. ASSUME c \in LastIn(s, K) PROVE c \in LastIn(q, K)
      <4>1. PICK i \in 1..(n + m) : /\ c = s[i] /\ s[i] \in K
                                    /\ \A k \in 1..(n + m) : i < k => s[k] \notin K
        BY <1>1, <3>1 DEF LastIn
      <4>2. i \in 1..n
        BY <1>1, <2>1, <4>1
      <4> QED
        BY <1>0, <1>1, <4>1, <4>2 DEF LastIn, n
    <3>2. ASSUME c \in LastIn(q, K) PROVE c \in LastIn(s, K)
      <4>1. PICK i \in 1..n : /\ c = q[i] /\ q[i] \in K
                              /\ \A k \in 1..n : i < k => q[k] \notin K
        BY <3>2 DEF LastIn, n
      <4>2. \A k \in 1..(n + m) : i < k => s[k] \notin K
        BY <1>1, <2>1, <4>1
      <4> QED
        BY <1>0, <1>1, <4>1, <4>2 DEF LastIn
    <3> QED
      BY <3>1, <3>2
  <2> QED
    BY <1>2, <1>3, <2>2 DEF s
<1>4. CASE Waits(r, K)
  <2>0. PICK last \in 1..m : r[last] \in K
    BY <1>4 DEF Waits, m
  <2>1. ASSUME NEW c PROVE c \in LastIn(s, K) <=> c \in LastIn(r, K)
    <3>1. ASSUME c \in LastIn(s, K) PROVE c \in LastIn(r, K)
      <4>1. PICK i \in 1..(n + m) : /\ c = s[i] /\ s[i] \in K
                                    /\ \A k \in 1..(n + m) : i < k => s[k] \notin K
        BY <1>1, <3>1 DEF LastIn
      <4>2. PICK j \in 1..m : i = n + j
        BY <1>0, <1>1, <2>0, <4>1
      <4>3. \A k \in 1..m : j < k => r[k] \notin K
        BY <1>0, <1>1, <4>1, <4>2
      <4> QED
        BY <1>1, <4>1, <4>2, <4>3 DEF LastIn, m
    <3>2. ASSUME c \in LastIn(r, K) PROVE c \in LastIn(s, K)
      <4>1. PICK j \in 1..m : /\ c = r[j] /\ r[j] \in K
                              /\ \A k \in 1..m : j < k => r[k] \notin K
        BY <3>2 DEF LastIn, m
      <4>2. n + j \in 1..(n + m) /\ s[n + j] = c
        BY <1>0, <1>1, <4>1
      <4>3. ASSUME NEW k \in 1..(n + m), n + j < k PROVE s[k] \notin K
        <5>1. PICK i \in 1..m : k = n + i
          <6>1. ~(k \in 1..n)
            BY <1>0, <4>3
          <6> QED
            BY <1>1, <6>1
        <5> QED
          BY <1>0, <1>1, <4>1, <4>3, <5>1
      <4> QED
        BY <1>1, <4>1, <4>2, <4>3 DEF LastIn
    <3> QED
      BY <3>1, <3>2
  <2> QED
    BY <1>2, <1>4, <2>1 DEF s
<1> QED
  BY <1>3, <1>4

\* The worker takes the first command of the queue.
LEMMA QueueTaken ==
    ASSUME NEW q \in Seq(Command), q # <<>>, NEW K
    PROVE  /\ Head(q) \in Command /\ Tail(q) \in Seq(Command)
           /\ Waits(q, K) <=> Head(q) \in K \/ Waits(Tail(q), K)
           /\ LastIn(q, K) = IF Waits(Tail(q), K) THEN LastIn(Tail(q), K)
                             ELSE IF Head(q) \in K THEN {Head(q)} ELSE {}
<1> DEFINE h == Head(q)
           t == Tail(q)
<1>1. /\ h \in Command /\ t \in Seq(Command) /\ <<h>> \in Seq(Command)
      /\ q = <<h>> \o t
  <2>1. Len(q) \in Nat /\ Len(q) >= 1
    OBVIOUS
  <2>2. h = q[1] /\ h \in Command /\ t \in Seq(Command) /\ Len(t) = Len(q) - 1
        /\ \A i \in 1..(Len(q) - 1) : t[i] = q[i + 1]
    BY <2>1
  <2>3. <<h>> \in Seq(Command) /\ Len(<<h>>) = 1 /\ <<h>>[1] = q[1]
    BY <2>2
  <2> HIDE DEF h, t
  <2>4. /\ <<h>> \o t \in Seq(Command) /\ Len(<<h>> \o t) = Len(q)
    BY <2>1, <2>2, <2>3
  <2>5. \A i \in 1..Len(q) : (<<h>> \o t)[i] = q[i]
    BY <2>1, <2>2, <2>3
  <2>6. <<h>> \o t = q
    BY <2>4, <2>5
  <2> QED
    BY <2>2, <2>3, <2>6
<1> HIDE DEF h, t
<1>2. /\ Waits(q, K) <=> Waits(<<h>>, K) \/ Waits(t, K)
      /\ LastIn(q, K) = IF Waits(t, K) THEN LastIn(t, K) ELSE LastIn(<<h>>, K)
  BY <1>1, QueueJoined
<1> QED
  BY <1>1, <1>2, QueueOfOne DEF h, t

-----------------------------------------------------------------------------
(* Fields, kinds and the records of the backend *)

\* What the fields of a command are.
LEMMA Fields ==
    ASSUME NEW l, NEW z, NEW c, NEW o, NEW m
    PROVE  /\ Initialize(z, c, o).op = "initialize" /\ Initialize(z, c, o).level = z
           /\ Initialize(z, c, o).rom = c /\ Initialize(z, c, o).overworld = o
           /\ ReloadRom(c).op = "reload" /\ ReloadRom(c).rom = c
           /\ LoadLevel(l).op = "load" /\ LoadLevel(l).level = l
           /\ ReloadSprites(l, c).op = "sprites" /\ ReloadSprites(l, c).level = l
           /\ ReloadSprites(l, c).rom = c
           /\ SetPauseMode(m).op = "pause" /\ SetPauseMode(m).mode = m
           /\ StepFrame.op = "step"
  BY DEF Initialize, ReloadRom, LoadLevel, ReloadSprites, SetPauseMode, StepFrame

\* Which kinds the commands of the program are of, and what they carry.
LEMMA Kinds ==
    ASSUME NEW k
    PROVE  /\ \A z \in Levels \cup {LevelZero}, c \in Content, o \in BOOLEAN :
                  /\ Initialize(z, c, o) \notin Pauses
                  /\ Initialize(z, c, o) \in Loads
                  /\ Initialize(z, c, o) \in Fulls
                  /\ Initialize(z, c, o) \in Bears(k)
           /\ \A c \in Content :
                  /\ ReloadRom(c) \notin Pauses /\ ReloadRom(c) \notin Loads
                  /\ ReloadRom(c) \in Fulls /\ ReloadRom(c) \in Bears(k)
           /\ \A l \in Levels :
                  /\ LoadLevel(l) \notin Pauses /\ LoadLevel(l) \in Loads
                  /\ LoadLevel(l) \notin Fulls /\ LoadLevel(l) \notin Bears(k)
           /\ \A l \in Levels, c \in Content :
                  /\ ReloadSprites(l, c) \notin Pauses
                  /\ ReloadSprites(l, c) \notin Loads
                  /\ ReloadSprites(l, c) \notin Fulls
                  /\ ReloadSprites(l, c) \in Bears(k) <=> k = l
           /\ \A m \in Modes :
                  /\ SetPauseMode(m) \in Pauses /\ SetPauseMode(m) \notin Loads
                  /\ SetPauseMode(m) \notin Fulls /\ SetPauseMode(m) \notin Bears(k)
           /\ StepFrame \notin Pauses /\ StepFrame \notin Loads
           /\ StepFrame \notin Fulls /\ StepFrame \notin Bears(k)
  BY Fields, CommandsAreMade DEF Pauses, Loads, Fulls, Bears

\* What the kinds stand for.
LEMMA KindOf ==
    ASSUME NEW c \in Command, NEW k
    PROVE  /\ c \in Pauses <=> c.op = "pause"
           /\ c \in Loads <=> c.op \in {"initialize", "load"}
           /\ c \in Fulls <=> c.op \in {"initialize", "reload"}
           /\ c \in Bears(k) <=> \/ c.op \in {"initialize", "reload"}
                                 \/ c.op = "sprites" /\ c.level = k
  BY DEF Pauses, Loads, Fulls, Bears

\* A level of the game.
LEMMA LevelFacts ==
    /\ FirstLevel \in Levels
    /\ \A l \in Levels : l # NoLevel /\ l # Overworld /\ l # LevelZero
    /\ MaxChanges \in Nat /\ MaxInputs \in Nat /\ MaxFaults \in Nat
  BY LevelAssumption, BoundAssumption

\* The numbers of changes, and the one of no change.
LEMMA NumberFacts ==
    /\ \A n \in Changes : n \in Int /\ 0 <= n /\ n <= MaxChanges /\ n # None
    /\ \A n \in Int : 0 <= n /\ n <= MaxChanges => n \in Changes
    /\ 0 \in Changes /\ None \in Int /\ None < 0
  BY BoundAssumption DEF Changes, None

\* A content, and what a change makes of it.
LEMMA ContentFacts ==
    ASSUME NEW c \in Content
    PROVE  /\ c.base \in Changes /\ c.sprites \in [Levels -> Changes]
           /\ c # NoRom
           /\ \A n \in Changes : [c EXCEPT !.base = n] \in Content
           /\ \A n \in Changes, m \in Changes, l \in Levels :
                  [c EXCEPT !.sprites[l] = n, !.base = m] \in Content
<1>1. c.base \in Changes /\ c.sprites \in [Levels -> Changes]
  BY DEF Content
<1>2. NoRom.base = None /\ None \notin Changes
  BY NumberFacts DEF NoRom
<1>3. \A n \in Changes, l \in Levels : [c.sprites EXCEPT ![l] = n] \in [Levels -> Changes]
  BY <1>1
<1> QED
  BY <1>1, <1>2, <1>3 DEF Content

\* The states of the backend.
LEMMA BackendFields ==
    ASSUME NEW b \in Backend
    PROVE  /\ b.rom \in Content \cup {NoRom}
           /\ b.overlay \in [Levels -> Changes \cup {None}]
           /\ b.pending \in Levels \cup {NoLevel}
           /\ b.overworld \in BOOLEAN
           /\ b.requested \in Levels \cup {NoLevel, LevelZero}
           /\ b.reached \in BOOLEAN
           /\ b.place \in Places
           /\ b.entered \in Levels \cup {NoLevel}
           /\ b.shown \in Changes \cup {None}
  BY DEF Backend

\* A backend that was just started: no game and no sprites.
LEMMA NewBackendFacts ==
    /\ NewBackend \in Backend
    /\ NewBackend.rom = NoRom /\ NewBackend.place = "title"
    /\ NewBackend.requested = NoLevel /\ NewBackend.pending = NoLevel
    /\ NewBackend.reached = FALSE
    /\ \A l \in Levels : NewBackend.overlay[l] = None
  BY DEF NewBackend, Backend, Places

\* A game that was unloaded and one that was loaded: what they keep is what
\* was requested, and whether it stays on the overworld.
LEMMA UnloadedFacts ==
    ASSUME backend \in Backend, NEW c \in Content
    PROVE  /\ Unloaded \in Backend /\ Loaded(c) \in Backend
           /\ Unloaded.rom = NoRom /\ Loaded(c).rom = c
           /\ Unloaded.place = "title" /\ Loaded(c).place = "title"
           /\ Unloaded.pending = NoLevel /\ Loaded(c).pending = NoLevel
           /\ \A l \in Levels : Unloaded.overlay[l] = None /\ Loaded(c).overlay[l] = None
           /\ Loaded(c).reached = FALSE
           /\ Unloaded.reached = backend.reached
           /\ Unloaded.requested = backend.requested
           /\ Loaded(c).requested = backend.requested
           /\ Unloaded.overworld = backend.overworld
           /\ Loaded(c).overworld = backend.overworld
<1> DEFINE none == [l \in Levels |-> None]
<1>1. none \in [Levels -> Changes \cup {None}] /\ \A l \in Levels : none[l] = None
  OBVIOUS
<1> HIDE DEF none
<1>2. /\ Unloaded \in Backend
      /\ Unloaded.rom = NoRom /\ Unloaded.place = "title" /\ Unloaded.pending = NoLevel
      /\ Unloaded.overlay = none
      /\ Unloaded.reached = backend.reached
      /\ Unloaded.requested = backend.requested
      /\ Unloaded.overworld = backend.overworld
  BY <1>1 DEF Unloaded, Backend, Places, none
<1>3. /\ Loaded(c) \in Backend
      /\ Loaded(c).rom = c /\ Loaded(c).place = "title" /\ Loaded(c).pending = NoLevel
      /\ Loaded(c).overlay = none
      /\ Loaded(c).reached = FALSE
      /\ Loaded(c).requested = backend.requested
      /\ Loaded(c).overworld = backend.overworld
  BY <1>2 DEF Loaded, Backend
<1> QED
  BY <1>1, <1>2, <1>3

-----------------------------------------------------------------------------
(* Messages of the session *)

\* The part of a message that sends the pause, if the reasons changed.
PausePart(p, rs) ==
    \/ p = <<>> /\ rs = reasons
    \/ \E m \in Modes : p = <<SetPauseMode(m)>> /\ (m = "running" <=> rs = {})

\* The message p, then more, went into the queue, if there is a worker.
Sends(p, more) == p \in Seq(Command) /\ more \in Seq(Command)
                  /\ commands' = Queued(p \o more)

\* The aggregate of the reasons is no pause exactly when there are none.
LEMMA PauseModeFacts ==
    ASSUME NEW rs \in SUBSET Reasons
    PROVE  PauseMode(rs) \in Modes /\ (PauseMode(rs) = "running" <=> rs = {})
  BY DEF PauseMode, Modes

\* A message leaves a queue of commands.
LEMMA QueueIsTyped ==
    ASSUME commands \in Seq(Command), NEW p, NEW more, Sends(p, more)
    PROVE  commands' \in Seq(Command)
  BY DEF Sends, Queued

\* New reasons send their aggregate, if they differ, and then the rest.
LEMMA SetReasonsSends ==
    ASSUME reasons \subseteq Reasons, pause \in Modes, NEW rs \in SUBSET Reasons,
           NEW more \in Seq(Command), SetReasons(rs, more)
    PROVE  /\ reasons' = rs /\ pause' \in Modes
           /\ \E p : Sends(p, more) /\ PausePart(p, rs)
<1>1. reasons' = rs /\ pause' \in Modes
  BY PauseModeFacts DEF SetReasons
<1> DEFINE p == IF rs = reasons THEN <<>> ELSE <<SetPauseMode(PauseMode(rs))>>
<1>2. commands' = Queued(p \o more)
  BY DEF SetReasons
<1>3. CASE rs = reasons
  <2>1. p = <<>> /\ p \in Seq(Command)
    BY <1>3
  <2> HIDE DEF p
  <2> QED
    BY <1>1, <1>2, <1>3, <2>1 DEF Sends, PausePart
<1>4. CASE rs # reasons
  <2>1. p = <<SetPauseMode(PauseMode(rs))>>
    BY <1>4
  <2>2. PauseMode(rs) \in Modes /\ (PauseMode(rs) = "running" <=> rs = {})
    BY PauseModeFacts
  <2>3. SetPauseMode(PauseMode(rs)) \in Command
    BY <2>2, LevelFacts, CommandsAreMade
  <2> HIDE DEF p
  <2>4. p \in Seq(Command)
    BY <2>1, <2>3
  <2> QED
    BY <1>1, <1>2, <2>1, <2>2, <2>4 DEF Sends, PausePart
<1> QED
  BY <1>3, <1>4

-----------------------------------------------------------------------------
(* Types *)

\* The numbers given away, and a worker belongs to a session.
Numbers ==
    /\ revision <= changes /\ doc <= changes /\ origin <= changes
    /\ alive => running

\* What is left of a session that was stopped.
LEMMA StoppedIsTyped ==
    ASSUME TypeOK, Stopped
    PROVE  /\ running' = FALSE /\ alive' = FALSE /\ emulating' = TRUE
           /\ source' \in [level : Levels \cup {NoLevel, LevelZero}, revision : Int]
           /\ reasons' \subseteq Reasons /\ pause' \in Modes
           /\ commands' \in Seq(Command) /\ errors' \in Nat
           /\ backend' \in Backend /\ hurried' \in BOOLEAN
<1>1. <<>> \in Seq(Command) /\ {} \subseteq Reasons
  OBVIOUS
<1>2. /\ running' = FALSE /\ alive' = FALSE /\ emulating' = TRUE /\ hurried' = FALSE
      /\ source' = [level |-> NoLevel, revision |-> 0]
      /\ reasons' = {} /\ pause' = "running" /\ commands' = <<>> /\ errors' = 0
      /\ backend' = NewBackend
  BY DEF Stopped
<1>3. source' \in [level : Levels \cup {NoLevel, LevelZero}, revision : Int]
  BY <1>2
<1>4. pause' \in Modes
  BY <1>2 DEF Modes
<1> QED
  BY <1>1, <1>2, <1>3, <1>4, NewBackendFacts

\* A frame that synchronises.
LEMMA SyncKeepsTypes ==
    ASSUME TypeOK, Numbers, Synchronize
    PROVE  TypeOK' /\ Numbers'
<1> USE DEF Modes
<1>1. CASE SyncNothing
  BY <1>1 DEF SyncNothing, Synchronizes, TypeOK, Numbers, application, session,
              channels, worker, history
<1>2. CASE SyncLeaves \/ SyncStops
  BY <1>2, StoppedIsTyped DEF SyncLeaves, SyncStops, Stopped, Synchronizes, TypeOK, Numbers,
              application
<1>3. ASSUME NEW more \in Seq(Command), SyncSends(more)
      PROVE  /\ reasons' \subseteq Reasons /\ pause' \in Modes
             /\ commands' \in Seq(Command) /\ inputs' \in 0..MaxInputs
             /\ phase' = "show"
             /\ UNCHANGED <<application, faults, running, errors, worker, backend, hurried>>
             /\ InLevel /\ running
  <2>1. PICK playing \in BOOLEAN : SetReasons(With("EditorMode", ~playing), more)
    BY <1>3 DEF SyncSends
  <2>2. With("EditorMode", ~playing) \in SUBSET Reasons
    BY DEF With, Reasons, TypeOK
  <2>3. /\ reasons' \subseteq Reasons /\ pause' \in Modes /\ commands' \in Seq(Command)
    BY <2>1, <2>2, SetReasonsSends, QueueIsTyped DEF TypeOK
  <2>4. inputs' \in 0..MaxInputs
    BY <1>3, LevelFacts DEF SyncSends, InputIfPaused, Input, TypeOK
  <2> QED
    BY <1>3, <2>3, <2>4 DEF SyncSends, Synchronizes
<1>4. CASE ReloadSnapshot
  <2>1. mode \in Levels /\ content \in Content
    BY <1>4 DEF ReloadSnapshot, SyncSends, InLevel, TypeOK
  <2>2. <<ReloadRom(content), LoadLevel(mode)>> \in Seq(Command)
    BY <2>1, CommandsAreMade
  <2> QED
    BY <1>3, <1>4, <2>1, <2>2, NumberFacts DEF ReloadSnapshot, TypeOK, Numbers, application, worker
<1>5. CASE SwitchLevel
  <2>1. mode \in Levels
    BY <1>5 DEF SwitchLevel, SyncSends, InLevel, TypeOK
  <2>2. <<LoadLevel(mode)>> \in Seq(Command)
    BY <2>1, CommandsAreMade
  <2> QED
    BY <1>3, <1>5, <2>1, <2>2, NumberFacts DEF SwitchLevel, TypeOK, Numbers, application, worker
<1>6. CASE SyncKeeps
  <2>1. <<>> \in Seq(Command)
    OBVIOUS
  <2> QED
    BY <1>3, <1>6, <2>1 DEF SyncKeeps, TypeOK, Numbers, application, worker
<1> QED
  BY <1>1, <1>2, <1>4, <1>5, <1>6 DEF Synchronize

\* A frame that shows the window.
LEMMA ShowKeepsTypes ==
    ASSUME TypeOK, Numbers, ShowWindow
    PROVE  TypeOK' /\ Numbers'
<1> USE DEF Modes
<1>1. ASSUME Poll
      PROVE  /\ errors' \in Nat
             /\ trust' \in {"good", "error", "hidden", "skipped"}
             /\ source' \in [level : Levels \cup {NoLevel, LevelZero}, revision : Int]
  BY <1>1 DEF Poll, TypeOK
<1>2. CASE ShowNothing
  BY <1>2 DEF ShowNothing, Shows, TypeOK, Numbers, application, session, channels, worker,
              history
<1>3. CASE ShowGone
  BY <1>1, <1>3 DEF ShowGone, Shows, TypeOK, Numbers, application, worker
<1>4. ASSUME NEW rs \in SUBSET Reasons, SetReasons(rs, <<>>)
      PROVE  reasons' \subseteq Reasons /\ pause' \in Modes /\ commands' \in Seq(Command)
  <2>1. <<>> \in Seq(Command)
    OBVIOUS
  <2> QED
    BY <1>4, <2>1, SetReasonsSends, QueueIsTyped DEF TypeOK
<1>5. CASE Show
  <2>1. PICK focused \in BOOLEAN : SetReasons(With("Focus", ~focused), <<>>)
    BY <1>5 DEF Show
  <2>2. With("Focus", ~focused) \in SUBSET Reasons
    BY DEF With, Reasons, TypeOK
  <2>3. inputs' \in 0..MaxInputs
    BY <1>5, LevelFacts DEF Show, InputIfPaused, Input, TypeOK
  <2> QED
    BY <1>1, <1>4, <1>5, <2>1, <2>2, <2>3 DEF Show, Shows, TypeOK, Numbers, application, worker
<1>6. CASE ShowManualPause
  <2>1. With("Manual", "Manual" \notin reasons) \in SUBSET Reasons
    BY DEF With, Reasons, TypeOK
  <2>2. inputs' \in 0..MaxInputs
    BY <1>6, LevelFacts DEF ShowManualPause, Input, TypeOK
  <2> QED
    BY <1>1, <1>4, <1>6, <2>1, <2>2 DEF ShowManualPause, Shows, TypeOK, Numbers, application, worker
<1>7. CASE ShowStep
  <2>1. reasons' \subseteq Reasons
    BY <1>7 DEF ShowStep, Reasons, TypeOK
  <2>2. inputs' \in 0..MaxInputs
    BY <1>7, LevelFacts DEF ShowStep, Input, TypeOK
  <2>3. commands' \in Seq(Command)
    <3>1. <<>> \in Seq(Command) /\ <<SetPauseMode("hard")>> \in Seq(Command)
          /\ <<StepFrame>> \in Seq(Command) /\ commands \in Seq(Command)
      BY CommandsAreMade DEF TypeOK
    <3> QED
      BY <1>7, <3>1 DEF ShowStep, Queued
  <2> QED
    BY <1>1, <1>7, <2>1, <2>2, <2>3 DEF ShowStep, Shows, TypeOK, Numbers, application, worker
<1> QED
  BY <1>2, <1>3, <1>5, <1>6, <1>7 DEF ShowWindow

\* What the user does.
LEMMA EditKeepsTypes ==
    ASSUME TypeOK, Numbers, EditDocument
    PROVE  TypeOK' /\ Numbers'
<1> USE DEF Modes
<1>0. /\ inputs' \in 0..MaxInputs /\ phase' = phase /\ faults' = faults
      /\ <<>> \in Seq(Command) /\ {} \subseteq Reasons
  <2>1. Edits
    BY DEF EditDocument, Start, Stop, ToggleManualPause, AdvanceFrame, Commit,
           CommitSprites, SetMode, Open, Close
  <2> QED
    BY <2>1, LevelFacts DEF Edits, Input, TypeOK
<1>1. CASE Start
  <2>1. /\ source'.level \in Levels \cup {LevelZero}
        /\ source' \in [level : Levels \cup {NoLevel, LevelZero}, revision : Int]
    BY <1>1, NumberFacts DEF Start, InLevel, TypeOK
  <2>2. (~InLevel) \in BOOLEAN
    BY DEF InLevel
  <2>3. commands' \in Seq(Command)
    <3>1. PICK o \in BOOLEAN : commands' = <<Initialize(source'.level, content, o)>>
      BY <1>1, <2>2 DEF Start
    <3>2. Initialize(source'.level, content, o) \in Command
      BY <2>1, CommandsAreMade DEF TypeOK
    <3> QED
      BY <3>1, <3>2
  <2> QED
    BY <1>0, <1>1, <2>1, <2>3, NewBackendFacts DEF Start, TypeOK, Numbers, application
<1>2. CASE Stop
  BY <1>0, <1>2, StoppedIsTyped DEF Stop, TypeOK, Numbers, application
<1>3. ASSUME NEW rs \in SUBSET Reasons, NEW more \in Seq(Command), SetReasons(rs, more)
      PROVE  reasons' \subseteq Reasons /\ pause' \in Modes /\ commands' \in Seq(Command)
  BY <1>3, SetReasonsSends, QueueIsTyped DEF TypeOK
<1>4. CASE ToggleManualPause
  <2>1. With("Manual", "Manual" \notin reasons) \in SUBSET Reasons
    BY DEF With, Reasons, TypeOK
  <2> QED
    BY <1>0, <1>3, <1>4, <2>1 DEF ToggleManualPause, TypeOK, Numbers, application, worker, history
<1>5. CASE AdvanceFrame
  <2>1. With("Manual", TRUE) \in SUBSET Reasons
    BY DEF With, Reasons, TypeOK
  <2>2. <<StepFrame>> \in Seq(Command)
    BY CommandsAreMade
  <2> QED
    BY <1>0, <1>3, <1>5, <2>1, <2>2 DEF AdvanceFrame, TypeOK, Numbers, application, worker, history
<1>6. ASSUME changes < MaxChanges, changes' = changes + 1
      PROVE  /\ changes' \in Changes /\ changes' \in Int
             /\ \A n \in Changes : n <= changes => n < changes' /\ n + 1 \in Changes
             /\ None <= changes'
  <2>1. /\ changes \in Int /\ 0 <= changes /\ changes' = changes + 1
        /\ changes' <= MaxChanges /\ MaxChanges \in Int
        /\ None \in Int /\ None < 0
    BY <1>6, NumberFacts, LevelFacts DEF TypeOK
  <2>2. changes' \in Changes /\ changes' \in Int /\ None <= changes'
    BY <2>1, NumberFacts
  <2>3. ASSUME NEW n \in Changes, n <= changes PROVE n < changes' /\ n + 1 \in Changes
    <3>1. n \in Int /\ 0 <= n
      BY NumberFacts
    <3>2. n + 1 \in Int /\ 0 <= n + 1 /\ n + 1 <= MaxChanges /\ n < changes'
      BY <2>1, <2>3, <3>1
    <3> QED
      BY <3>2, NumberFacts
  <2> QED
    BY <2>2, <2>3
<1>12. changes < MaxChanges /\ changes' = changes + 1 =>
          doc <= changes' /\ origin <= changes'
  <2>1. /\ changes \in Int /\ doc \in Int /\ origin \in Int
        /\ doc <= changes /\ origin <= changes
    BY NumberFacts DEF TypeOK, Numbers
  <2> QED
    BY <2>1
<1>13. changes < MaxChanges /\ changes' = changes + 1 /\ revision' = revision + 1 =>
          revision' \in Changes /\ revision' <= changes'
  <2>1. changes \in Int /\ revision \in Changes /\ revision \in Int /\ revision <= changes
    BY NumberFacts DEF TypeOK, Numbers
  <2> QED
    BY <1>6, <2>1
<1>7. CASE Commit
  <2>1. content' \in Content
    BY <1>6, <1>7, ContentFacts DEF Commit, TypeOK
  <2>2. revision' \in Changes /\ revision' <= changes' /\ doc <= changes' /\ origin <= changes'
    BY <1>7, <1>12, <1>13 DEF Commit
  <2> QED
    BY <1>0, <1>6, <1>7, <2>1, <2>2 DEF Commit, TypeOK, Numbers, session, channels, worker, history
<1>8. ASSUME NEW patched \in BOOLEAN, CommitSprites(patched) PROVE TypeOK' /\ Numbers'
  <2>1. content' \in Content /\ mode \in Levels
    BY <1>6, <1>8, ContentFacts DEF CommitSprites, TypeOK, InLevel
  <2>2. revision' \in Changes /\ revision' <= changes' /\ doc <= changes' /\ origin <= changes'
    BY <1>8, <1>12, <1>13 DEF CommitSprites
  <2>3. /\ commands' \in Seq(Command)
        /\ source' \in [level : Levels \cup {NoLevel, LevelZero}, revision : Int]
        /\ trust' \in {"good", "error", "hidden", "skipped"}
    <3>1. CASE SendSprites(patched)
      <4>1. <<ReloadSprites(mode, content')>> \in Seq(Command)
        BY <2>1, CommandsAreMade
      <4>2. commands' \in Seq(Command)
        BY <3>1, <4>1 DEF SendSprites, Queued, TypeOK
      <4> QED
        BY <2>2, <3>1, <4>2, NumberFacts DEF SendSprites, TypeOK
    <3>2. CASE UNCHANGED <<commands, source, trust>>
      BY <3>2 DEF TypeOK
    <3> QED
      BY <1>8, <3>1, <3>2 DEF CommitSprites
  <2> QED
    BY <1>0, <1>6, <1>8, <2>1, <2>2, <2>3 DEF CommitSprites, TypeOK, Numbers, worker
<1>9. ASSUME NEW m \in Levels \cup {Overworld}, SetMode(m) PROVE TypeOK' /\ Numbers'
  BY <1>0, <1>9 DEF SetMode, TypeOK, Numbers, session, channels, worker, history
<1>10. CASE Open
  <2>1. content' \in Content
    BY <1>6, <1>10 DEF Open, Content
  <2>2. /\ doc' \in Changes /\ doc' <= changes' /\ revision' \in Changes
        /\ revision' <= changes' /\ origin <= changes'
    BY <1>6, <1>10, NumberFacts DEF Open, TypeOK, Numbers
  <2> QED
    BY <1>0, <1>6, <1>10, <2>1, <2>2, LevelFacts DEF Open, TypeOK, Numbers, session, channels,
       worker, history
<1>11. CASE Close
  BY <1>0, <1>11, NumberFacts DEF Close, TypeOK, Numbers, session, channels, worker, history
<1> QED
  BY <1>1, <1>2, <1>4, <1>5, <1>7, <1>8, <1>9, <1>10, <1>11 DEF EditDocument

-----------------------------------------------------------------------------
(* Booting *)

\* A level nobody has is only requested of a game that stays on the overworld.
Strays == {c \in Command : c.op = "initialize" /\ c.level = LevelZero /\ ~c.overworld}

Booting ==
    /\ backend.place # "title" => backend.rom # NoRom
    /\ backend.place \in {"transition", "level"} => backend.entered \in Levels
    /\ backend.requested = LevelZero => backend.overworld
    /\ ~backend.reached => \A l \in Levels : backend.overlay[l] = None
    /\ backend.pending # NoLevel => backend.overlay[backend.pending] # None
    /\ backend.place = "level" /\ ~backend.reached =>
           backend.shown = backend.rom.sprites[backend.entered]

Base == TypeOK /\ Numbers /\ Booting /\ ~Waits(commands, Strays)

\* One frame of the game.
LEMMA FrameKeepsBoots ==
    ASSUME backend \in Backend, errors \in Nat, Booting, RunFrame
    PROVE  backend' \in Backend /\ errors' \in Nat /\ Booting'
<1> USE LevelFacts, BackendFields
<1>1. CASE backend.rom = NoRom
  BY <1>1 DEF RunFrame, Booting
<1>2. CASE backend.rom # NoRom
  <2>0. backend.rom \in Content /\ errors' = errors
    BY <1>2 DEF RunFrame
  <2>1. CASE Boot
    <3>1. backend' \in Backend
      BY <2>1 DEF Boot, Backend, Places
    <3>2. /\ \/ backend' = backend
             \/ backend' = [backend EXCEPT !.place = "intro"]
             \/ backend' = [backend EXCEPT !.place = "overworld"]
      BY <2>1 DEF Boot
    <3>3. /\ backend'.rom = backend.rom /\ backend'.requested = backend.requested
          /\ backend'.overworld = backend.overworld /\ backend'.reached = backend.reached
          /\ backend'.overlay = backend.overlay /\ backend'.pending = backend.pending
          /\ backend' = backend \/ backend'.place \in {"intro", "overworld"}
      BY <3>2 DEF Backend
    <3> QED
      BY <1>2, <2>0, <3>1, <3>3 DEF Booting
  <2>2. CASE ReachOverworld
    <3> DEFINE b == [backend EXCEPT !.reached = TRUE]
    <3>1. /\ b \in Backend
          /\ b.rom = backend.rom /\ b.requested = backend.requested
          /\ b.overworld = backend.overworld /\ b.reached = TRUE
          /\ b.overlay = backend.overlay /\ b.pending = backend.pending
          /\ b.place = "overworld"
      BY <2>2 DEF ReachOverworld, Backend
    <3>2. backend' = IF b.requested = NoLevel \/ b.overworld THEN b
                     ELSE Entering(b, b.requested)
      BY <2>2 DEF ReachOverworld
    <3> HIDE DEF b
    <3>3. CASE b.requested = NoLevel \/ b.overworld
      BY <1>2, <2>0, <3>1, <3>2, <3>3 DEF Booting
    <3>4. CASE ~(b.requested = NoLevel \/ b.overworld)
      <4>1. b.requested \in Levels /\ backend' = Entering(b, b.requested)
        BY <3>1, <3>2, <3>4 DEF Booting
      <4>2. /\ backend' \in Backend /\ backend'.rom = b.rom
            /\ backend'.requested = NoLevel /\ backend'.entered = b.requested
            /\ backend'.reached = TRUE
            /\ backend'.overlay = b.overlay /\ backend'.pending = b.pending
            /\ backend'.place = "transition"
        BY <3>1, <4>1 DEF Entering, Backend, Places
      <4> QED
        BY <1>2, <2>0, <3>1, <4>1, <4>2 DEF Booting, NoLevel, LevelZero
    <3> QED
      BY <3>3, <3>4
  <2>3. CASE ReachLevel
    <3> DEFINE l == backend.entered
               overlaid == backend.pending = l
               shown == IF overlaid THEN backend.overlay[l] ELSE backend.rom.sprites[l]
               pending == IF overlaid THEN NoLevel ELSE backend.pending
    <3>1. l \in Levels /\ backend.place = "transition"
      BY <2>3 DEF ReachLevel, Booting
    <3>2. shown \in Changes \cup {None} /\ pending \in Levels \cup {NoLevel}
      BY <2>0, <3>1, ContentFacts
    <3>3. backend' = [backend EXCEPT !.place = "level", !.shown = shown, !.pending = pending]
      BY <2>3 DEF ReachLevel
    <3>4. ~backend.reached => shown = backend.rom.sprites[l]
      BY <3>1 DEF Booting
    <3>5. pending # NoLevel => pending = backend.pending
      OBVIOUS
    <3> HIDE DEF l, overlaid, shown, pending
    <3>6. /\ backend' \in Backend /\ backend'.rom = backend.rom
          /\ backend'.requested = backend.requested /\ backend'.entered = backend.entered
          /\ backend'.reached = backend.reached /\ backend'.overworld = backend.overworld
          /\ backend'.overlay = backend.overlay /\ backend'.pending = pending
          /\ backend'.place = "level" /\ backend'.shown = shown
      BY <3>2, <3>3 DEF Backend, Places
    <3> QED
      BY <1>2, <2>0, <3>1, <3>4, <3>5, <3>6 DEF Booting, l
  <2>4. CASE RunLevel
    BY <2>0, <2>4 DEF RunLevel, Booting
  <2> QED
    BY <1>2, <2>0, <2>1, <2>2, <2>3, <2>4 DEF RunFrame
<1> QED
  BY <1>1, <1>2

\* One command.
LEMMA ExecuteKeepsBase == ASSUME Base, Execute PROVE Base'
<1> USE LevelFacts, BackendFields
<1> DEFINE h == Head(commands)
<1>0. backend \in Backend /\ errors \in Nat /\ Booting
  BY DEF Base, TypeOK
<1>1. /\ UNCHANGED <<application, phase, session, alive, inputs, origin, trust>>
      /\ alive /\ h \in Command /\ commands' \in Seq(Command)
      /\ ~Waits(commands', Strays) /\ h \notin Strays
      /\ commands # <<>> /\ commands' = Tail(commands)
  <2>1. /\ UNCHANGED <<application, phase, session, alive, inputs, origin, trust>>
        /\ alive /\ commands # <<>> /\ commands' = Tail(commands)
    BY DEF Execute, ExecuteInitialize, ExecuteReload, ExecuteLoadLevel,
           ExecuteReloadSprites, ExecutePause, ExecuteStep, Takes
  <2>2. commands \in Seq(Command) /\ ~Waits(commands, Strays)
    BY DEF Base, TypeOK
  <2>3. /\ h \in Command /\ Tail(commands) \in Seq(Command)
        /\ ~Waits(Tail(commands), Strays) /\ h \notin Strays
    BY <2>1, <2>2, QueueTaken
  <2> QED
    BY <2>1, <2>3
<1> HIDE DEF h
<1>2. ASSUME Fails \/ Succeeds
      PROVE  errors' \in Nat /\ faults' \in 0..MaxFaults
  BY <1>2 DEF Fails, Succeeds, Base, TypeOK
<1>3. ASSUME backend' \in Backend, Booting', errors' \in Nat, faults' \in 0..MaxFaults,
             emulating' \in BOOLEAN, hurried' \in BOOLEAN
      PROVE  Base'
  <2>1. TypeOK'
    BY <1>1, <1>3 DEF Base, TypeOK, application, session
  <2>2. Numbers'
    BY <1>1 DEF Base, Numbers, application, session
  <2> QED
    BY <1>1, <1>3, <2>1, <2>2 DEF Base
<1>4. ASSUME backend' = Unloaded PROVE backend' \in Backend /\ Booting'
  <2>1. PICK c : c \in Content
    BY DEF Base, TypeOK
  <2>2. /\ Unloaded \in Backend
        /\ Unloaded.rom = NoRom
        /\ Unloaded.place = "title"
        /\ Unloaded.pending = NoLevel
        /\ \A l \in Levels : Unloaded.overlay[l] = None
        /\ Unloaded.requested = backend.requested
        /\ Unloaded.overworld = backend.overworld
    BY <1>0, <2>1, UnloadedFacts
  <2> QED
    BY <1>0, <1>4, <2>2 DEF Booting
<1>5. CASE ExecuteInitialize
  <2>1. /\ h.level \in Levels \cup {LevelZero} /\ h.rom \in Content
        /\ h.overworld \in BOOLEAN /\ (h.level = LevelZero => h.overworld)
    BY <1>1, <1>5, CommandFacts DEF ExecuteInitialize, Takes, Strays, h
  <2>2. emulating' \in BOOLEAN /\ hurried' \in BOOLEAN /\ (Fails \/ Succeeds)
    BY <1>5 DEF ExecuteInitialize, Base, TypeOK
  <2>3. CASE backend' = Unloaded
    BY <1>2, <1>3, <1>4, <2>2, <2>3
  <2>4. CASE backend' = [Loaded(h.rom) EXCEPT !.overworld = h.overworld,
                                              !.requested = h.level]
    <3>1. /\ Loaded(h.rom) \in Backend
          /\ Loaded(h.rom).place = "title" /\ Loaded(h.rom).pending = NoLevel
          /\ \A l \in Levels : Loaded(h.rom).overlay[l] = None
      <4>1. h.rom \in Content
        BY <2>1
      <4> QED
        BY <1>0, <4>1, UnloadedFacts
    <3>2. /\ backend' \in Backend /\ backend'.place = "title"
          /\ backend'.pending = NoLevel /\ backend'.overlay = Loaded(h.rom).overlay
          /\ backend'.requested = h.level /\ backend'.overworld = h.overworld
      BY <2>1, <2>4, <3>1 DEF Backend
    <3>3. Booting'
      BY <2>1, <3>1, <3>2 DEF Booting
    <3> QED
      BY <1>2, <1>3, <2>2, <3>2, <3>3
  <2> QED
    BY <1>5, <2>3, <2>4 DEF ExecuteInitialize, h
<1>6. CASE ExecuteReload
  <2>1. h.rom \in Content
    BY <1>1, <1>6, CommandFacts DEF ExecuteReload, Takes, h
  <2>2. emulating' \in BOOLEAN /\ hurried' \in BOOLEAN /\ (Fails \/ Succeeds)
    BY <1>6 DEF ExecuteReload, Base, TypeOK
  <2>3. CASE backend' = Unloaded
    BY <1>2, <1>3, <1>4, <2>2, <2>3
  <2>4. CASE backend' = Loaded(h.rom)
    <3>1. /\ Loaded(h.rom) \in Backend
          /\ Loaded(h.rom).place = "title" /\ Loaded(h.rom).pending = NoLevel
          /\ \A l \in Levels : Loaded(h.rom).overlay[l] = None
          /\ Loaded(h.rom).requested = backend.requested
          /\ Loaded(h.rom).overworld = backend.overworld
      BY <1>0, <2>1, UnloadedFacts
    <3>2. Booting'
      BY <1>0, <2>4, <3>1 DEF Booting
    <3> QED
      BY <1>2, <1>3, <2>2, <2>4, <3>1, <3>2
  <2> QED
    BY <1>6, <2>3, <2>4 DEF ExecuteReload, h
<1>7. CASE ExecuteLoadLevel
  <2> DEFINE l == h.level
             b == Requested(l)
  <2>1. l \in Levels
    BY <1>1, <1>7, CommandFacts DEF ExecuteLoadLevel, Takes, h
  <2>2. emulating' \in BOOLEAN /\ hurried' \in BOOLEAN /\ (Fails \/ Succeeds)
    BY <1>7 DEF ExecuteLoadLevel, Base, TypeOK
  <2> HIDE DEF l
  <2>3. /\ b \in Backend /\ b.rom = backend.rom /\ b.place = backend.place
        /\ b.entered = backend.entered /\ b.reached = backend.reached
        /\ b.overlay = backend.overlay /\ b.shown = backend.shown
        /\ b.overworld = backend.overworld
        /\ b.requested = l /\ b.pending = IF backend.overlay[l] # None THEN l ELSE NoLevel
    BY <1>0, <2>1 DEF Requested, Backend
  <2> HIDE DEF b
  <2>4. CASE backend' = Entering(b, l) /\ backend.rom # NoRom
    <3>1. /\ backend' \in Backend /\ backend'.rom = b.rom /\ backend'.place = "transition"
          /\ backend'.entered = l /\ backend'.reached = b.reached
          /\ backend'.overlay = b.overlay /\ backend'.requested = NoLevel
          /\ backend'.pending = b.pending
      BY <2>1, <2>3, <2>4 DEF Entering, Backend, Places
    <3>2. Booting'
      BY <1>0, <2>1, <2>3, <2>4, <3>1 DEF Booting, NoLevel, LevelZero
    <3> QED
      BY <1>2, <1>3, <2>2, <3>1, <3>2
  <2>5. CASE backend' = b
    <3>1. Booting'
      BY <1>0, <2>1, <2>3, <2>5 DEF Booting
    <3> QED
      BY <1>2, <1>3, <2>2, <2>3, <2>5, <3>1
  <2>6. CASE backend' = [backend EXCEPT !.requested = l, !.pending = NoLevel]
    <3>1. /\ backend' \in Backend /\ backend'.rom = backend.rom
          /\ backend'.place = backend.place /\ backend'.entered = backend.entered
          /\ backend'.reached = backend.reached /\ backend'.overlay = backend.overlay
          /\ backend'.shown = backend.shown /\ backend'.requested = l
          /\ backend'.pending = NoLevel
      BY <1>0, <2>1, <2>6 DEF Backend
    <3>2. Booting'
      BY <1>0, <2>1, <3>1 DEF Booting
    <3> QED
      BY <1>2, <1>3, <2>2, <3>1, <3>2
  <2> QED
    BY <1>7, <2>4, <2>5, <2>6 DEF ExecuteLoadLevel, b, l, h
<1>8. CASE ExecuteReloadSprites
  <2> DEFINE l == h.level
             version == h.rom.sprites[l]
             shown == IF backend.place = "level" THEN version ELSE backend.shown
  <2>1. l \in Levels /\ version \in Changes
    BY <1>1, <1>8, CommandFacts, ContentFacts DEF ExecuteReloadSprites, Takes, h
  <2>2. emulating' \in BOOLEAN /\ errors' \in Nat /\ faults' \in 0..MaxFaults
    BY <1>8 DEF ExecuteReloadSprites, Succeeds, Fails, Base, TypeOK
  <2>3. CASE UNCHANGED <<backend, hurried>>
    BY <1>0, <1>3, <2>2, <2>3 DEF Booting, Base, TypeOK
  <2>4. CASE /\ backend.rom # NoRom
             /\ backend' = [backend EXCEPT !.overlay[l] = version, !.pending = NoLevel,
                                           !.reached = TRUE,
                                           !.shown = IF backend.place = "level"
                                                     THEN version ELSE @]
             /\ hurried' = (hurried \/ backend.place # "level" \/ backend.entered # l)
    <3>1. hurried' \in BOOLEAN
      BY <2>4
    <3>2. shown \in Changes \cup {None}
      BY <1>0, <2>1
    <3>3. [backend.overlay EXCEPT ![l] = version] \in [Levels -> Changes \cup {None}]
      BY <1>0, <2>1
    <3>4. backend' = [backend EXCEPT !.overlay = [backend.overlay EXCEPT ![l] = version],
                                     !.pending = NoLevel, !.reached = TRUE,
                                     !.shown = shown]
      BY <1>0, <2>4
    <3> HIDE DEF shown, version, l
    <3>5. /\ backend' \in Backend /\ backend'.rom = backend.rom
          /\ backend'.place = backend.place /\ backend'.entered = backend.entered
          /\ backend'.reached = TRUE /\ backend'.requested = backend.requested
          /\ backend'.overworld = backend.overworld
          /\ backend'.pending = NoLevel
      BY <1>0, <3>2, <3>3, <3>4 DEF Backend
    <3>6. Booting'
      BY <1>0, <3>5 DEF Booting
    <3> QED
      BY <1>3, <2>2, <3>1, <3>5, <3>6
  <2> QED
    BY <1>8, <2>3, <2>4 DEF ExecuteReloadSprites, h
<1>9. CASE ExecutePause
  <2>1. emulating' \in BOOLEAN
    BY <1>9 DEF ExecutePause
  <2> QED
    BY <1>0, <1>3, <1>9, <2>1 DEF ExecutePause, Booting, Base, TypeOK
<1>10. CASE ExecuteStep
  <2>1. backend' \in Backend /\ errors' \in Nat /\ Booting'
    BY <1>0, <1>10, FrameKeepsBoots DEF ExecuteStep
  <2> QED
    BY <1>3, <1>10, <2>1 DEF ExecuteStep, Base, TypeOK
<1> QED
  BY <1>5, <1>6, <1>7, <1>8, <1>9, <1>10 DEF Execute

\* What leaves the game alone or starts a new one, and sends no stray.
LEMMA BaseAround ==
    ASSUME Base, TypeOK', Numbers',
           backend' = backend \/ backend' = NewBackend,
           ~Waits(commands', Strays)
    PROVE  Base'
<1>1. backend' \in Backend /\ Booting'
  <2>1. CASE backend' = backend
    BY <2>1 DEF Base, Booting, TypeOK
  <2>2. CASE backend' = NewBackend
    BY <2>2, NewBackendFacts DEF Booting, NoLevel, LevelZero
  <2> QED
    BY <2>1, <2>2
<1> QED
  BY <1>1 DEF Base

-----------------------------------------------------------------------------
(* The pause *)

\* A queue of two commands: the second is later.
LEMMA QueueOfTwo ==
    ASSUME NEW a \in Command, NEW b \in Command, NEW K
    PROVE  /\ <<a, b>> \in Seq(Command)
           /\ Waits(<<a, b>>, K) <=> a \in K \/ b \in K
           /\ LastIn(<<a, b>>, K) = IF b \in K THEN {b} ELSE IF a \in K THEN {a} ELSE {}
<1> DEFINE one == <<a>>
           two == <<b>>
           both == <<a, b>>
<1>1. /\ one \in Seq(Command) /\ two \in Seq(Command) /\ both \in Seq(Command)
      /\ Len(one) = 1 /\ Len(two) = 1 /\ Len(both) = 2
      /\ one[1] = a /\ two[1] = b /\ both[1] = a /\ both[2] = b
  OBVIOUS
<1>2. (Waits(one, K) <=> a \in K) /\ (Waits(two, K) <=> b \in K)
      /\ LastIn(one, K) = (IF a \in K THEN {a} ELSE {})
      /\ LastIn(two, K) = (IF b \in K THEN {b} ELSE {})
  BY QueueOfOne
<1> HIDE DEF one, two, both
<1>3. both = one \o two
  <2>1. /\ one \o two \in Seq(Command) /\ Len(one \o two) = Len(one) + Len(two)
        /\ \A i \in 1..Len(one) + Len(two) :
              (one \o two)[i] = IF i <= Len(one) THEN one[i] ELSE two[i - Len(one)]
    BY <1>1, ConcatProperties
  <2>2. Len(one \o two) = 2 /\ (one \o two)[1] = a /\ (one \o two)[2] = b
    BY <1>1, <2>1
  <2>3. \A i \in 1..2 : i = 1 \/ i = 2
    OBVIOUS
  <2>4. \A i \in 1..2 : both[i] = (one \o two)[i]
    BY <1>1, <2>2, <2>3
  <2> QED
    BY <1>1, <2>1, <2>2, <2>4, SeqEqual
<1>4. /\ Waits(one \o two, K) <=> Waits(one, K) \/ Waits(two, K)
      /\ LastIn(one \o two, K) = IF Waits(two, K) THEN LastIn(two, K) ELSE LastIn(one, K)
  BY <1>1, QueueJoined
<1>5. /\ both \in Seq(Command)
      /\ Waits(both, K) <=> a \in K \/ b \in K
      /\ LastIn(both, K) = IF b \in K THEN {b} ELSE IF a \in K THEN {a} ELSE {}
  BY <1>1, <1>2, <1>3, <1>4
<1> QED
  BY <1>5 DEF both

\* What waits after a message: kinds that are no pauses see only its rest.
LEMMA MessageWaits ==
    ASSUME commands \in Seq(Command), NEW p, NEW more, NEW rs, Sends(p, more),
           PausePart(p, rs), NEW K, \A m \in Modes : SetPauseMode(m) \notin K
    PROVE  IF alive
           THEN /\ Waits(commands', K) <=> Waits(commands, K) \/ Waits(more, K)
                /\ LastIn(commands', K) = IF Waits(more, K) THEN LastIn(more, K)
                                          ELSE LastIn(commands, K)
           ELSE commands' = commands
<1>1. p \in Seq(Command) /\ more \in Seq(Command) /\ commands' = Queued(p \o more)
  BY DEF Sends
<1>2. ~Waits(p, K)
  <2>1. CASE p = <<>>
    BY <2>1, QueueOfNone
  <2>2. CASE \E m \in Modes : p = <<SetPauseMode(m)>>
    <3>1. PICK m \in Modes : p = <<SetPauseMode(m)>>
      BY <2>2
    <3>2. SetPauseMode(m) \in Command /\ SetPauseMode(m) \notin K
      BY CommandsAreMade
    <3> QED
      BY <3>1, <3>2, QueueOfOne
  <2> QED
    BY <2>1, <2>2 DEF PausePart
<1>3. /\ Waits(p \o more, K) <=> Waits(more, K)
      /\ Waits(more, K) => LastIn(p \o more, K) = LastIn(more, K)
      /\ p \o more \in Seq(Command)
  BY <1>1, <1>2, QueueJoined
<1>4. CASE alive
  <2>1. commands' = commands \o (p \o more)
    BY <1>1, <1>4 DEF Queued
  <2>2. /\ Waits(commands', K) <=> Waits(commands, K) \/ Waits(p \o more, K)
        /\ LastIn(commands', K) = IF Waits(p \o more, K) THEN LastIn(p \o more, K)
                                  ELSE LastIn(commands, K)
    BY <1>3, <2>1, QueueJoined
  <2> QED
    BY <1>3, <1>4, <2>2
<1>5. CASE ~alive
  BY <1>1, <1>5 DEF Queued
<1> QED
  BY <1>4, <1>5

\* The last pause that waits, or else the worker, agrees with the reasons.
PauseAgrees == alive =>
    /\ ~Waits(commands, Pauses) => (emulating <=> reasons = {})
    /\ \A c \in LastIn(commands, Pauses) : c.mode = "running" <=> reasons = {}

\* A message that sends the pause when the reasons change.
LEMMA MessageKeepsPause ==
    ASSUME commands \in Seq(Command), PauseAgrees, NEW p, NEW more, Sends(p, more),
           PausePart(p, reasons'), ~Waits(more, Pauses),
           alive' = alive, emulating' = emulating
    PROVE  PauseAgrees'
<1> SUFFICES ASSUME alive PROVE PauseAgrees'
  BY DEF PauseAgrees
<1>1. p \in Seq(Command) /\ more \in Seq(Command) /\ commands' = commands \o (p \o more)
  BY DEF Sends, Queued
<1> DEFINE r == p \o more
<1>2. /\ Waits(r, Pauses) <=> Waits(p, Pauses)
      /\ LastIn(r, Pauses) = LastIn(p, Pauses)
      /\ r \in Seq(Command) /\ commands' = commands \o r
  BY <1>1, QueueJoined
<1> HIDE DEF r
<1>3. /\ Waits(commands', Pauses) <=> Waits(commands, Pauses) \/ Waits(p, Pauses)
      /\ LastIn(commands', Pauses) = IF Waits(p, Pauses) THEN LastIn(p, Pauses)
                                     ELSE LastIn(commands, Pauses)
  <2>1. /\ Waits(commands \o r, Pauses) <=> Waits(commands, Pauses) \/ Waits(r, Pauses)
        /\ LastIn(commands \o r, Pauses) = IF Waits(r, Pauses) THEN LastIn(r, Pauses)
                                            ELSE LastIn(commands, Pauses)
    BY <1>2, QueueJoined
  <2> QED
    BY <1>2, <2>1
<1>4. CASE p = <<>> /\ reasons' = reasons
  <2>1. ~Waits(p, Pauses)
    BY <1>4, QueueOfNone
  <2> QED
    BY <1>3, <1>4, <2>1 DEF PauseAgrees
<1>5. CASE \E m \in Modes : p = <<SetPauseMode(m)>> /\ (m = "running" <=> reasons' = {})
  <2>1. PICK m \in Modes : p = <<SetPauseMode(m)>> /\ (m = "running" <=> reasons' = {})
    BY <1>5
  <2>2. SetPauseMode(m) \in Command /\ SetPauseMode(m) \in Pauses /\ SetPauseMode(m).mode = m
    BY CommandsAreMade, Kinds, Fields
  <2>3. Waits(p, Pauses) /\ LastIn(p, Pauses) = {SetPauseMode(m)}
    BY <2>1, <2>2, QueueOfOne
  <2> QED
    BY <1>3, <2>1, <2>2, <2>3 DEF PauseAgrees
<1> QED
  BY <1>4, <1>5 DEF PausePart

\* The messages of the program, and what waits in them.
LEMMA Messages ==
    ASSUME NEW K
    PROVE  /\ <<>> \in Seq(Command) /\ ~Waits(<<>>, K)
           /\ <<StepFrame>> \in Seq(Command)
           /\ Waits(<<StepFrame>>, K) <=> StepFrame \in K
           /\ \A l \in Levels : /\ <<LoadLevel(l)>> \in Seq(Command)
                                /\ Waits(<<LoadLevel(l)>>, K) <=> LoadLevel(l) \in K
           /\ \A l \in Levels, c \in Content :
                  /\ <<ReloadRom(c), LoadLevel(l)>> \in Seq(Command)
                  /\ Waits(<<ReloadRom(c), LoadLevel(l)>>, K)
                         <=> ReloadRom(c) \in K \/ LoadLevel(l) \in K
                  /\ <<ReloadSprites(l, c)>> \in Seq(Command)
                  /\ Waits(<<ReloadSprites(l, c)>>, K) <=> ReloadSprites(l, c) \in K
<1>1. <<>> \in Seq(Command) /\ ~Waits(<<>>, K)
  BY QueueOfNone
<1>2. ASSUME NEW c \in Command
      PROVE  <<c>> \in Seq(Command) /\ (Waits(<<c>>, K) <=> c \in K)
  <2>1. <<c>> \in Seq(Command)
    OBVIOUS
  <2>2. Waits(<<c>>, K) <=> c \in K
    BY QueueOfOne
  <2> QED
    BY <2>1, <2>2
<1>3. <<StepFrame>> \in Seq(Command) /\ (Waits(<<StepFrame>>, K) <=> StepFrame \in K)
  BY <1>2, CommandsAreMade
<1>4. ASSUME NEW l \in Levels
      PROVE  /\ <<LoadLevel(l)>> \in Seq(Command)
             /\ Waits(<<LoadLevel(l)>>, K) <=> LoadLevel(l) \in K
  BY <1>2, CommandsAreMade
<1>5. ASSUME NEW l \in Levels, NEW c \in Content
      PROVE  /\ <<ReloadRom(c), LoadLevel(l)>> \in Seq(Command)
             /\ Waits(<<ReloadRom(c), LoadLevel(l)>>, K)
                    <=> ReloadRom(c) \in K \/ LoadLevel(l) \in K
  <2>1. ReloadRom(c) \in Command /\ LoadLevel(l) \in Command
    BY CommandsAreMade
  <2> QED
    BY <2>1, QueueOfTwo
<1>6. ASSUME NEW l \in Levels, NEW c \in Content
      PROVE  /\ <<ReloadSprites(l, c)>> \in Seq(Command)
             /\ Waits(<<ReloadSprites(l, c)>>, K) <=> ReloadSprites(l, c) \in K
  BY <1>2, CommandsAreMade
<1> QED
  BY <1>1, <1>3, <1>4, <1>5, <1>6

\* A frame that synchronises sends one of three messages.
LEMMA SyncSendsMessage ==
    ASSUME TypeOK, NEW more \in Seq(Command), SyncSends(more)
    PROVE  /\ \E p : Sends(p, more) /\ PausePart(p, reasons')
           /\ UNCHANGED <<application, running, errors, worker, backend, hurried>>
           /\ InLevel /\ running
<1>1. PICK playing \in BOOLEAN : SetReasons(With("EditorMode", ~playing), more)
  BY DEF SyncSends
<1>2. With("EditorMode", ~playing) \in SUBSET Reasons
  BY DEF With, Reasons, TypeOK
<1>3. \E p : Sends(p, more) /\ PausePart(p, reasons')
  BY <1>1, <1>2, SetReasonsSends DEF TypeOK, Modes
<1> QED
  BY <1>3 DEF SyncSends, Synchronizes

\* So does the window, without anything after the pause but a step.
LEMMA ShowSendsMessage ==
    ASSUME TypeOK, Show \/ ShowManualPause \/ ShowStep
    PROVE  /\ \E p, more : /\ Sends(p, more) /\ PausePart(p, reasons')
                           /\ more \in {<<>>, <<StepFrame>>}
           /\ UNCHANGED <<application, running, worker, backend, origin, hurried>>
           /\ Poll /\ running /\ alive
<1>1. ASSUME NEW rs \in SUBSET Reasons, SetReasons(rs, <<>>)
      PROVE  \E p, more : /\ Sends(p, more) /\ PausePart(p, reasons')
                          /\ more \in {<<>>, <<StepFrame>>}
  <2>1. <<>> \in Seq(Command)
    BY Messages
  <2>2. reasons' = rs /\ \E p : Sends(p, <<>>) /\ PausePart(p, rs)
    BY <1>1, <2>1, SetReasonsSends DEF TypeOK, Modes
  <2> QED
    BY <2>2
<1>2. CASE Show
  <2>1. PICK focused \in BOOLEAN : SetReasons(With("Focus", ~focused), <<>>)
    BY <1>2 DEF Show
  <2>2. With("Focus", ~focused) \in SUBSET Reasons
    BY DEF With, Reasons, TypeOK
  <2> QED
    BY <1>1, <1>2, <2>1, <2>2 DEF Show
<1>3. CASE ShowManualPause
  <2>1. With("Manual", "Manual" \notin reasons) \in SUBSET Reasons
    BY DEF With, Reasons, TypeOK
  <2> QED
    BY <1>1, <1>3, <2>1 DEF ShowManualPause
<1>4. CASE ShowStep
  <2> DEFINE p == IF "Manual" \in reasons THEN <<>> ELSE <<SetPauseMode("hard")>>
  <2>1. commands' = Queued(p \o <<StepFrame>>) /\ reasons' = reasons \cup {"Manual"}
    BY <1>4 DEF ShowStep
  <2>2. p \in Seq(Command) /\ PausePart(p, reasons')
    <3>1. CASE "Manual" \in reasons
      <4>1. p = <<>> /\ reasons' = reasons
        BY <2>1, <3>1
      <4> HIDE DEF p
      <4> QED
        BY <4>1, Messages DEF PausePart
    <3>2. CASE "Manual" \notin reasons
      <4>1. p = <<SetPauseMode("hard")>> /\ reasons' # {} /\ "hard" \in Modes
        BY <2>1, <3>2 DEF Modes
      <4> HIDE DEF p
      <4>2. p \in Seq(Command)
        BY <4>1, CommandsAreMade
      <4>3. "hard" # "running"
        OBVIOUS
      <4> QED
        BY <4>1, <4>2, <4>3 DEF PausePart
    <3> QED
      BY <3>1, <3>2
  <2> HIDE DEF p
  <2>3. Sends(p, <<StepFrame>>)
    BY <2>1, <2>2, Messages DEF Sends
  <2> QED
    BY <1>4, <2>2, <2>3 DEF ShowStep
<1> QED
  BY <1>2, <1>3, <1>4

\* And so do the pause and the frame advance of the toolbar.
LEMMA ToolbarSendsMessage ==
    ASSUME TypeOK, ToggleManualPause \/ AdvanceFrame
    PROVE  /\ \E p, more : /\ Sends(p, more) /\ PausePart(p, reasons')
                           /\ more \in {<<>>, <<StepFrame>>}
           /\ UNCHANGED <<application, running, source, errors, worker, backend, history>>
<1>1. ASSUME NEW rs \in SUBSET Reasons, NEW more \in {<<>>, <<StepFrame>>},
             SetReasons(rs, more)
      PROVE  \E p : Sends(p, more) /\ PausePart(p, reasons')
  <2>1. more \in Seq(Command)
    BY Messages
  <2> QED
    BY <1>1, <2>1, SetReasonsSends DEF TypeOK, Modes
<1>2. With("Manual", "Manual" \notin reasons) \in SUBSET Reasons
      /\ With("Manual", TRUE) \in SUBSET Reasons
  BY DEF With, Reasons, TypeOK
<1> QED
  BY <1>1, <1>2 DEF ToggleManualPause, AdvanceFrame

-----------------------------------------------------------------------------
(* The invariant of types, booting and pauses *)

\* Only the start of a session can be a stray, and no message pauses twice.
LEMMA NoStray ==
    /\ \A l \in Levels, c \in Content :
          ReloadRom(c) \notin Strays /\ LoadLevel(l) \notin Strays
          /\ ReloadSprites(l, c) \notin Strays
    /\ \A m \in Modes : SetPauseMode(m) \notin Strays
    /\ StepFrame \notin Strays
  BY Fields DEF Strays

\* What is sent after a pause neither strays nor pauses.
Plain(more) == more \in Seq(Command) /\ ~Waits(more, Strays) /\ ~Waits(more, Pauses)

\* Every message of the program is plain, after its pause.
LEMMA PlainMessages ==
    /\ Plain(<<>>) /\ Plain(<<StepFrame>>)
    /\ \A l \in Levels : Plain(<<LoadLevel(l)>>)
    /\ \A l \in Levels, c \in Content :
          Plain(<<ReloadRom(c), LoadLevel(l)>>) /\ Plain(<<ReloadSprites(l, c)>>)
<1>1. /\ <<>> \in Seq(Command) /\ ~Waits(<<>>, Strays) /\ ~Waits(<<>>, Pauses)
      /\ <<StepFrame>> \in Seq(Command) /\ ~Waits(<<StepFrame>>, Strays)
      /\ ~Waits(<<StepFrame>>, Pauses)
  BY Messages, Kinds, NoStray
<1>2. ASSUME NEW l \in Levels PROVE Plain(<<LoadLevel(l)>>)
  <2>1. LoadLevel(l) \notin Strays /\ LoadLevel(l) \notin Pauses
    BY Kinds, Fields DEF Strays
  <2> QED
    BY <2>1, Messages DEF Plain
<1>3. ASSUME NEW l \in Levels, NEW c \in Content
      PROVE  Plain(<<ReloadRom(c), LoadLevel(l)>>) /\ Plain(<<ReloadSprites(l, c)>>)
  <2>1. /\ LoadLevel(l) \notin Strays /\ LoadLevel(l) \notin Pauses
        /\ ReloadRom(c) \notin Strays /\ ReloadRom(c) \notin Pauses
        /\ ReloadSprites(l, c) \notin Strays /\ ReloadSprites(l, c) \notin Pauses
    BY Kinds, NoStray
  <2> QED
    BY <2>1, Messages DEF Plain
<1> QED
  BY <1>1, <1>2, <1>3 DEF Plain

\* A plain message keeps what is known of strays and pauses.
LEMMA PlainMessageKeeps ==
    ASSUME Base, PauseAgrees, NEW p, NEW more, Sends(p, more),
           PausePart(p, reasons'), Plain(more), UNCHANGED <<alive, emulating>>
    PROVE  ~Waits(commands', Strays) /\ PauseAgrees'
<1>1. commands \in Seq(Command) /\ ~Waits(commands, Strays)
  BY DEF Base, TypeOK
<1>2. ~Waits(commands', Strays)
  BY <1>1, NoStray, MessageWaits DEF Plain
<1> QED
  BY <1>1, <1>2, MessageKeepsPause DEF Plain

\* The end of the worker leaves nothing that waits.
LEMMA EndKeeps ==
    ASSUME alive' = FALSE, commands' = <<>>
    PROVE  ~Waits(commands', Strays) /\ PauseAgrees'
  BY QueueOfNone DEF PauseAgrees

\* The frame that synchronises keeps the last pause in step with the reasons.
LEMMA SyncKeepsPause ==
    ASSUME Base, PauseAgrees, Synchronize PROVE Base' /\ PauseAgrees'
<1>1. TypeOK /\ Numbers /\ mode \in Levels \cup {Overworld} /\ content \in Content
  BY DEF Base, TypeOK
<1>2. TypeOK' /\ Numbers'
  BY <1>1, SyncKeepsTypes
<1>3. ASSUME ~Waits(commands', Strays), backend' = backend \/ backend' = NewBackend
      PROVE  Base'
  BY <1>2, <1>3, BaseAround
<1>4. CASE SyncNothing
  <2>1. UNCHANGED <<commands, alive, emulating, reasons, backend>>
    BY <1>4 DEF SyncNothing, session, channels, worker
  <2> QED
    BY <1>3, <2>1 DEF Base, PauseAgrees
<1>5. CASE SyncLeaves \/ SyncStops
  <2>1. alive' = FALSE /\ commands' = <<>> /\ backend' = NewBackend
    BY <1>5 DEF SyncLeaves, SyncStops, Stopped
  <2> QED
    BY <1>3, <2>1, EndKeeps
<1>6. ASSUME NEW more, Plain(more), SyncSends(more) PROVE Base' /\ PauseAgrees'
  <2>1. PICK p : Sends(p, more) /\ PausePart(p, reasons')
    BY <1>1, <1>6, SyncSendsMessage DEF Plain
  <2>2. UNCHANGED <<alive, emulating, backend>>
    BY <1>6 DEF SyncSends, worker
  <2>3. ~Waits(commands', Strays) /\ PauseAgrees'
    BY <1>6, <2>1, <2>2, PlainMessageKeeps
  <2> QED
    BY <1>3, <2>2, <2>3
<1>7. CASE ReloadSnapshot
  <2>1. SyncSends(<<ReloadRom(content), LoadLevel(mode)>>) /\ mode \in Levels
    BY <1>7 DEF ReloadSnapshot, SyncSends, InLevel
  <2> QED
    BY <1>1, <1>6, <2>1, PlainMessages
<1>8. CASE SwitchLevel
  <2>1. SyncSends(<<LoadLevel(mode)>>) /\ mode \in Levels
    BY <1>8 DEF SwitchLevel, SyncSends, InLevel
  <2> QED
    BY <1>6, <2>1, PlainMessages
<1>9. CASE SyncKeeps
  BY <1>6, <1>9, PlainMessages DEF SyncKeeps
<1> QED
  BY <1>4, <1>5, <1>7, <1>8, <1>9 DEF Synchronize

\* So does the frame that shows the window,
LEMMA ShowKeepsPause ==
    ASSUME Base, PauseAgrees, ShowWindow PROVE Base' /\ PauseAgrees'
<1>1. TypeOK /\ Numbers
  BY DEF Base
<1>2. TypeOK' /\ Numbers'
  BY <1>1, ShowKeepsTypes
<1>3. ASSUME ~Waits(commands', Strays), backend' = backend PROVE Base'
  BY <1>2, <1>3, BaseAround
<1>4. CASE ShowNothing \/ ShowGone
  <2>1. UNCHANGED <<commands, alive, emulating, reasons, backend>>
    BY <1>4 DEF ShowNothing, ShowGone, session, channels, worker
  <2> QED
    BY <1>3, <2>1 DEF Base, PauseAgrees
<1>5. CASE Show \/ ShowManualPause \/ ShowStep
  <2>1. PICK p, more : /\ Sends(p, more) /\ PausePart(p, reasons')
                       /\ more \in {<<>>, <<StepFrame>>}
    BY <1>1, <1>5, ShowSendsMessage
  <2>2. UNCHANGED <<alive, emulating, backend>>
    BY <1>1, <1>5, ShowSendsMessage DEF worker
  <2>3. ~Waits(commands', Strays) /\ PauseAgrees'
    BY <2>1, <2>2, PlainMessages, PlainMessageKeeps
  <2> QED
    BY <1>3, <2>2, <2>3
<1> QED
  BY <1>4, <1>5 DEF ShowWindow

\* and all that the user does.
LEMMA EditKeepsPause ==
    ASSUME Base, PauseAgrees, EditDocument PROVE Base' /\ PauseAgrees'
<1>1. TypeOK /\ Numbers /\ content \in Content /\ mode \in Levels \cup {Overworld}
  BY DEF Base, TypeOK
<1>2. TypeOK' /\ Numbers'
  BY <1>1, EditKeepsTypes
<1>3. ASSUME ~Waits(commands', Strays), backend' = backend \/ backend' = NewBackend
      PROVE  Base'
  BY <1>2, <1>3, BaseAround
<1>4. CASE Start
  <2> DEFINE z == source'.level
             o == ~InLevel
             c == Initialize(z, content, o)
  <2>1. /\ commands' = <<c>> /\ reasons' = {} /\ emulating' = TRUE /\ alive'
        /\ backend' = NewBackend
        /\ z \in Levels \cup {LevelZero} /\ (z = LevelZero => o)
    BY <1>1, <1>4, LevelFacts DEF Start, InLevel
  <2>2. PICK b \in BOOLEAN : b = o
    BY DEF InLevel
  <2>3. c = Initialize(z, content, b)
    BY <2>2
  <2>4. c \in Command /\ c \notin Pauses
    BY <1>1, <2>1, <2>3, CommandsAreMade, Kinds
  <2>5. c.op = "initialize" /\ c.level = z /\ c.overworld = b
    BY <2>3, Fields
  <2>6. c \notin Strays
    BY <2>1, <2>2, <2>5 DEF Strays
  <2> HIDE DEF c, z, o
  <2>7. /\ ~Waits(commands', Strays) /\ ~Waits(commands', Pauses)
        /\ LastIn(commands', Pauses) = {}
    BY <2>1, <2>4, <2>6, QueueOfOne
  <2> QED
    BY <1>3, <2>1, <2>7 DEF PauseAgrees
<1>5. CASE Stop
  <2>1. alive' = FALSE /\ commands' = <<>> /\ backend' = NewBackend
    BY <1>5 DEF Stop, Stopped
  <2> QED
    BY <1>3, <2>1, EndKeeps
<1>6. CASE ToggleManualPause \/ AdvanceFrame
  <2>1. PICK p, more : /\ Sends(p, more) /\ PausePart(p, reasons')
                       /\ more \in {<<>>, <<StepFrame>>}
    BY <1>1, <1>6, ToolbarSendsMessage
  <2>2. UNCHANGED <<alive, emulating, backend>>
    BY <1>1, <1>6, ToolbarSendsMessage DEF worker
  <2>3. ~Waits(commands', Strays) /\ PauseAgrees'
    BY <2>1, <2>2, PlainMessages, PlainMessageKeeps
  <2> QED
    BY <1>3, <2>2, <2>3
<1>7. CASE Commit \/ Open \/ Close \/ \E m \in Levels \cup {Overworld} : SetMode(m)
  <2>1. UNCHANGED <<commands, alive, emulating, reasons, backend>>
    BY <1>7 DEF Commit, Open, Close, SetMode, session, channels, worker
  <2> QED
    BY <1>3, <2>1 DEF Base, PauseAgrees
<1>8. ASSUME NEW patched \in BOOLEAN, CommitSprites(patched) PROVE Base' /\ PauseAgrees'
  <2>1. UNCHANGED <<alive, emulating, reasons, backend>>
    BY <1>8 DEF CommitSprites, worker
  <2>2. CASE SendSprites(patched)
    <3>1. mode \in Levels /\ content' \in Content
      BY <1>1, <1>2, <1>8 DEF CommitSprites, InLevel, TypeOK
    <3> DEFINE more == <<ReloadSprites(mode, content')>>
    <3>2. Plain(more)
      BY <3>1, PlainMessages
    <3>3. Sends(<<>>, more)
      <4>1. <<>> \o more = more /\ <<>> \in Seq(Command)
        BY <3>2, ConcatEmptySeq DEF Plain
      <4> QED
        BY <2>2, <3>2, <4>1 DEF SendSprites, Sends, Plain
    <3>4. PausePart(<<>>, reasons')
      BY <2>1 DEF PausePart
    <3> HIDE DEF more
    <3> QED
      BY <1>3, <2>1, <3>2, <3>3, <3>4, PlainMessageKeeps
  <2>3. CASE UNCHANGED commands
    BY <1>3, <2>1, <2>3 DEF Base, PauseAgrees
  <2> QED
    BY <1>8, <2>2, <2>3 DEF CommitSprites
<1> QED
  BY <1>4, <1>5, <1>6, <1>7, <1>8 DEF EditDocument

\* A command taken from the queue: the worker obeys the pause it takes.
LEMMA ExecuteKeepsPause ==
    ASSUME Base, PauseAgrees, Execute PROVE Base' /\ PauseAgrees'
<1>1. Base'
  BY ExecuteKeepsBase
<1> DEFINE h == Head(commands)
<1>2. /\ commands \in Seq(Command) /\ commands # <<>> /\ commands' = Tail(commands)
      /\ alive /\ alive' = alive /\ reasons' = reasons
      /\ IF h.op = "pause" THEN emulating' = (h.mode = "running")
         ELSE emulating' = emulating
  BY DEF Execute, ExecuteInitialize, ExecuteReload, ExecuteLoadLevel, ExecuteReloadSprites,
         ExecutePause, ExecuteStep, Takes, session, Base, TypeOK
<1>3. /\ h \in Command
      /\ Waits(commands, Pauses) <=> h \in Pauses \/ Waits(commands', Pauses)
      /\ LastIn(commands, Pauses) = IF Waits(commands', Pauses)
                                    THEN LastIn(commands', Pauses)
                                    ELSE IF h \in Pauses THEN {h} ELSE {}
  BY <1>2, QueueTaken
<1>4. h \in Pauses <=> h.op = "pause"
  BY <1>3, KindOf
<1> HIDE DEF h
<1>5. CASE Waits(commands', Pauses)
  BY <1>1, <1>2, <1>3, <1>5 DEF PauseAgrees
<1>6. CASE ~Waits(commands', Pauses)
  <2>1. LastIn(commands', Pauses) = {}
    BY <1>6 DEF LastIn, Waits
  <2>2. CASE h \in Pauses
    BY <1>1, <1>2, <1>3, <1>4, <1>6, <2>1, <2>2 DEF PauseAgrees
  <2>3. CASE h \notin Pauses
    BY <1>1, <1>2, <1>3, <1>4, <1>6, <2>1, <2>3 DEF PauseAgrees
  <2> QED
    BY <2>2, <2>3
<1> QED
  BY <1>5, <1>6

\* A frame of the game, the end of the worker, and a stutter.
LEMMA RestKeepsPause ==
    ASSUME Base, PauseAgrees, Tick \/ Die \/ UNCHANGED vars PROVE Base' /\ PauseAgrees'
<1>1. CASE Tick
  <2>1. backend' \in Backend /\ errors' \in Nat /\ Booting'
    BY <1>1, FrameKeepsBoots DEF Tick, Base, TypeOK
  <2>2. UNCHANGED <<application, phase, session, commands, worker, inputs, faults, history>>
    BY <1>1 DEF Tick
  <2>3. TypeOK' /\ Numbers'
    BY <2>1, <2>2 DEF Base, TypeOK, Numbers, application, session, worker, history
  <2>4. ~Waits(commands', Strays) /\ PauseAgrees'
    BY <2>2 DEF Base, PauseAgrees, session, worker
  <2> QED
    BY <2>1, <2>3, <2>4 DEF Base
<1>2. CASE Die
  <2>1. /\ UNCHANGED <<application, phase, session, errors, emulating, backend, inputs, history>>
        /\ alive' = FALSE /\ commands' = <<>> /\ faults' = faults + 1 /\ faults < MaxFaults
    BY <1>2 DEF Die
  <2>2. TypeOK' /\ Numbers'
    <3>1. <<>> \in Seq(Command) /\ faults' \in 0..MaxFaults
      BY <2>1, LevelFacts DEF Base, TypeOK
    <3>2. commands' \in Seq(Command) /\ alive' \in BOOLEAN
      BY <2>1, <3>1
    <3>3. TypeOK'
      BY <2>1, <3>1, <3>2 DEF Base, TypeOK, application, session, history
    <3>4. Numbers'
      BY <2>1 DEF Base, Numbers, application, session, history
    <3> QED
      BY <3>3, <3>4
  <2> QED
    BY <2>1, <2>2, EndKeeps, BaseAround
<1>3. CASE UNCHANGED vars
  <2>1. TypeOK' /\ Numbers' /\ backend' = backend
    BY <1>3 DEF vars, application, session, channels, worker, history, Base, TypeOK, Numbers
  <2>2. ~Waits(commands', Strays) /\ PauseAgrees'
    BY <1>3 DEF vars, session, channels, worker, Base, PauseAgrees
  <2> QED
    BY <2>1, <2>2, BaseAround
<1> QED
  BY <1>1, <1>2, <1>3

\* Nothing runs at the start.
LEMMA BaseInit == Init => Base /\ PauseAgrees
<1> SUFFICES ASSUME Init PROVE Base /\ PauseAgrees
  OBVIOUS
<1>1. backend = NewBackend /\ commands = <<>> /\ <<>> \in Seq(Command)
  BY DEF Init
<1>2. ~Waits(commands, Strays) /\ ~alive
  BY <1>1, QueueOfNone DEF Init
<1>3. Booting
  BY <1>1, NewBackendFacts DEF Booting, NoLevel, LevelZero
<1>4. TypeOK
  <2>1. content \in Content
    BY NumberFacts DEF Init, Content
  <2>2. source \in [level : Levels \cup {NoLevel, LevelZero}, revision : Int]
    BY DEF Init
  <2>3. inputs \in 0..MaxInputs /\ faults \in 0..MaxFaults
    BY LevelFacts DEF Init
  <2> QED
    BY <1>1, <2>1, <2>2, <2>3, NumberFacts, LevelFacts, NewBackendFacts DEF Init, TypeOK
<1>5. Numbers
  BY NumberFacts DEF Init, Numbers
<1> QED
  BY <1>2, <1>3, <1>4, <1>5 DEF Base, PauseAgrees

\* The pause that was last sent is the aggregate of the reasons.
LEMMA PauseInvariant == Spec => [](Base /\ PauseAgrees)
<1>1. Base /\ PauseAgrees /\ [Next]_vars => Base' /\ PauseAgrees'
  BY SyncKeepsPause, ShowKeepsPause, EditKeepsPause, ExecuteKeepsPause, RestKeepsPause
  DEF Next
<1> QED
  BY <1>1, BaseInit, PTL DEF Spec

\* Every variable keeps its type, and every command that waits is one the
\* backend knows.
THEOREM TypeCorrect == Spec => []TypeOK
<1>1. Base => TypeOK
  BY DEF Base
<1> QED
  BY <1>1, PauseInvariant, PTL

\* Once the worker has taken its commands it emulates exactly when no reason
\* to pause is left: no pause is lost, overtaken or undone by a reload.
THEOREM PausesAreObeyed == Spec => []PauseIsObeyed
<1>1. PauseAgrees => PauseIsObeyed
  BY QueueOfNone DEF PauseAgrees, PauseIsObeyed, Quiet
<1> QED
  BY <1>1, PauseInvariant, PTL

-----------------------------------------------------------------------------
(* The source and the sprites *)

\* Of the document the source was taken from, the session has seen no newer
\* revision, and after an error only an older one.
SourceIsOlder == running /\ doc # None /\ origin = doc =>
    /\ source.revision <= revision
    /\ trust = "error" => source.revision < revision

\* Every step keeps the source no newer than the document, and older after
\* an error.
LEMMA SourceStaysOlder ==
    ASSUME Base, SourceIsOlder, [Next]_vars PROVE SourceIsOlder'
<1>1. /\ source.revision \in Int /\ revision \in Int /\ errors \in Nat
      /\ changes \in Int /\ origin <= changes /\ origin \in Int
      /\ trust \in {"good", "error", "hidden", "skipped"}
  BY NumberFacts DEF Base, TypeOK, Numbers
<1>2. ASSUME UNCHANGED <<running, doc, origin, source, revision, trust>>
      PROVE  SourceIsOlder'
  BY <1>2 DEF SourceIsOlder
<1>3. CASE Synchronize
  <2>1. CASE SyncNothing \/ SyncKeeps
    BY <1>2, <2>1 DEF SyncNothing, SyncKeeps, SyncSends, Synchronizes, application, session,
                      history
  <2>2. CASE SyncLeaves \/ SyncStops
    BY <2>2 DEF SyncLeaves, SyncStops, Stopped, SourceIsOlder
  <2>3. CASE ReloadSnapshot
    BY <1>1, <2>3 DEF ReloadSnapshot, SyncSends, Synchronizes, application, SourceIsOlder
  <2>4. CASE SwitchLevel
    BY <1>1, <2>4 DEF SwitchLevel, SyncSends, Synchronizes, application, SourceIsOlder
  <2> QED
    BY <1>3, <2>1, <2>2, <2>3, <2>4 DEF Synchronize
<1>4. CASE ShowWindow
  <2>1. CASE ShowNothing
    BY <1>2, <2>1 DEF ShowNothing, application, session, history
  <2>2. CASE ShowGone
    BY <2>2 DEF ShowGone, SourceIsOlder
  <2>3. CASE Show \/ ShowManualPause \/ ShowStep
    <3>1. UNCHANGED <<application, running, origin>> /\ Poll
      BY <2>3, ShowSendsMessage DEF Base
    <3>2. /\ source'.revision = source.revision - errors
          /\ trust' = IF errors # 0 /\ trust = "good" THEN "error" ELSE trust
          /\ UNCHANGED <<doc, revision, running, origin>>
      BY <3>1 DEF Poll, application, Base, TypeOK
    <3> QED
      BY <1>1, <3>2 DEF SourceIsOlder
  <2> QED
    BY <1>4, <2>1, <2>2, <2>3 DEF ShowWindow
<1>5. CASE EditDocument
  <2>1. CASE Start
    BY <1>1, <2>1 DEF Start, application, SourceIsOlder
  <2>2. CASE Stop
    BY <2>2 DEF Stop, Stopped, SourceIsOlder
  <2>3. CASE ToggleManualPause \/ AdvanceFrame \/ \E m \in Levels \cup {Overworld} : SetMode(m)
    BY <1>2, <2>3 DEF ToggleManualPause, AdvanceFrame, SetMode, application, session, history
  <2>4. ASSUME revision' = revision + 1, UNCHANGED <<running, doc, origin, source, trust>>
        PROVE  SourceIsOlder'
    BY <1>1, <2>4 DEF SourceIsOlder
  <2>5. CASE Commit
    BY <2>4, <2>5 DEF Commit, session, history
  <2>6. ASSUME NEW patched \in BOOLEAN, CommitSprites(patched) PROVE SourceIsOlder'
    <3>1. revision' = revision + 1 /\ UNCHANGED <<running, doc, origin>>
      BY <2>6 DEF CommitSprites
    <3>2. CASE SendSprites(patched) /\ running
      <4>1. /\ source'.revision = revision'
            /\ trust' = IF \/ source.revision = revision /\ ~patched
                           \/ trust \in {"hidden", "skipped"}
                        THEN trust
                        ELSE IF trust = "error" THEN "hidden" ELSE "skipped"
        BY <3>2 DEF SendSprites, Base, TypeOK
      <4>2. trust' = "error" => trust = "error" /\ source.revision = revision
        BY <1>1, <4>1
      <4> QED
        BY <1>1, <3>1, <3>2, <4>1, <4>2 DEF SourceIsOlder
    <3>3. CASE UNCHANGED <<source, trust>>
      BY <2>4, <3>1, <3>3
    <3> QED
      BY <2>6, <3>2, <3>3 DEF CommitSprites
  <2>7. CASE Open
    <3>1. origin' = origin /\ doc' = changes + 1
      BY <2>7 DEF Open, history
    <3> QED
      BY <1>1, <3>1 DEF SourceIsOlder
  <2>8. CASE Close
    BY <2>8 DEF Close, SourceIsOlder
  <2> QED
    BY <1>5, <2>1, <2>2, <2>3, <2>5, <2>6, <2>7, <2>8 DEF EditDocument
<1>6. CASE Execute \/ Tick \/ Die \/ UNCHANGED vars
  BY <1>2, <1>6 DEF Execute, ExecuteInitialize, ExecuteReload, ExecuteLoadLevel,
     ExecuteReloadSprites, ExecutePause, ExecuteStep, Takes, Tick, Die, vars, application,
     session, history
<1> QED
  BY <1>3, <1>4, <1>5, <1>6 DEF Next

-----------------------------------------------------------------------------
\* The sprites the game reads when it enters the level again.
SpritesHeld(l) == IF backend.overlay[l] # None THEN backend.overlay[l]
                  ELSE backend.rom.sprites[l]

\* The level is shown with these sprites, or will be when it is reached.
Serves(l) ==
    /\ backend.place = "level" /\ backend.entered = l => backend.shown = SpritesHeld(l)
    /\ \/ backend.place = "transition" /\ backend.entered = l
       \/ backend.place \in {"title", "intro", "overworld"} /\ backend.requested = l
       => (backend.overlay[l] # None => backend.pending = l)

\* A frame changes neither the ROM nor the sprites, and serves what it served.
LEMMA FrameKeepsHeld ==
    ASSUME Base, RunFrame, errors' = 0
    PROVE  /\ errors = 0
           /\ backend'.rom = backend.rom /\ backend'.overlay = backend.overlay
           /\ \A l \in Levels : SpritesHeld(l)' = SpritesHeld(l)
           /\ \A l \in Levels : Serves(l) => Serves(l)'
<1> USE LevelFacts
<1>1. backend \in Backend /\ errors \in Nat /\ Booting
  BY DEF Base, TypeOK
<1>2. backend.rom # NoRom /\ errors = 0
  BY <1>1 DEF RunFrame
<1>3. ASSUME NEW l \in Levels, backend'.rom = backend.rom, backend'.overlay = backend.overlay
      PROVE  SpritesHeld(l)' = SpritesHeld(l)
  BY <1>3 DEF SpritesHeld
<1>4. ASSUME backend'.rom = backend.rom, backend'.overlay = backend.overlay,
             \A l \in Levels : Serves(l) => Serves(l)'
      PROVE  /\ backend'.rom = backend.rom /\ backend'.overlay = backend.overlay
             /\ \A l \in Levels : SpritesHeld(l)' = SpritesHeld(l)
             /\ \A l \in Levels : Serves(l) => Serves(l)'
  BY <1>3, <1>4
<1>5. CASE Boot
  <2>1. \/ backend' = backend
        \/ backend.place = "title" /\ backend' = [backend EXCEPT !.place = "intro"]
        \/ backend.place = "intro" /\ backend' = [backend EXCEPT !.place = "overworld"]
    BY <1>5 DEF Boot
  <2>2. /\ backend'.rom = backend.rom /\ backend'.requested = backend.requested
        /\ backend'.overlay = backend.overlay /\ backend'.pending = backend.pending
        /\ \/ backend' = backend
           \/ /\ backend.place \in {"title", "intro"}
              /\ backend'.place \in {"intro", "overworld"}
    BY <1>1, <2>1 DEF Backend
  <2> QED
    BY <1>2, <1>4, <2>2 DEF Serves, SpritesHeld
<1>6. CASE ReachOverworld
  <2> DEFINE b == [backend EXCEPT !.reached = TRUE]
  <2>1. /\ b \in Backend
        /\ b.rom = backend.rom /\ b.requested = backend.requested
        /\ b.overlay = backend.overlay /\ b.pending = backend.pending
        /\ b.place = "overworld" /\ backend.place = "overworld"
    BY <1>1, <1>6 DEF ReachOverworld, Backend
  <2>2. backend' = b \/ backend' = Entering(b, b.requested)
    BY <1>6 DEF ReachOverworld
  <2> HIDE DEF b
  <2>3. CASE backend' = b
    BY <1>2, <1>4, <2>1, <2>3 DEF Serves, SpritesHeld
  <2>4. CASE backend' = Entering(b, b.requested)
    <3>1. /\ backend'.rom = backend.rom /\ backend'.overlay = backend.overlay
          /\ backend'.pending = backend.pending /\ backend'.place = "transition"
          /\ backend'.entered = backend.requested
      BY <2>1, <2>4 DEF Entering, Backend
    <3> QED
      BY <1>2, <1>4, <2>1, <3>1 DEF Serves, SpritesHeld
  <2> QED
    BY <2>2, <2>3, <2>4
<1>7. CASE ReachLevel
  <2> DEFINE e == backend.entered
             shown == IF backend.pending = e THEN backend.overlay[e] ELSE backend.rom.sprites[e]
             pending == IF backend.pending = e THEN NoLevel ELSE backend.pending
  <2>1. e \in Levels /\ backend.place = "transition"
    BY <1>1, <1>7 DEF ReachLevel, Booting
  <2>2. backend' = [backend EXCEPT !.place = "level", !.shown = shown, !.pending = pending]
    BY <1>7 DEF ReachLevel
  <2>3. backend.pending = e => backend.overlay[e] # None
    BY <1>1, <2>1 DEF Booting
  <2>4. (backend.overlay[e] # None => backend.pending = e) => shown = SpritesHeld(e)
    BY <2>3 DEF SpritesHeld
  <2> HIDE DEF shown, pending
  <2>5. /\ backend'.rom = backend.rom /\ backend'.overlay = backend.overlay
        /\ backend'.entered = e /\ backend'.place = "level" /\ backend'.shown = shown
    BY <1>1, <2>2 DEF Backend
  <2> HIDE DEF e
  <2>6. ASSUME NEW l \in Levels, Serves(l) PROVE Serves(l)'
    <3>1. CASE l = e
      <4>1. shown = SpritesHeld(l)
        BY <2>1, <2>4, <2>6, <3>1 DEF Serves, e
      <4>2. SpritesHeld(l)' = SpritesHeld(l)
        BY <1>3, <2>5
      <4> QED
        BY <2>5, <4>1, <4>2 DEF Serves
    <3>2. CASE l # e
      BY <2>5, <3>2 DEF Serves
    <3> QED
      BY <3>1, <3>2
  <2> QED
    BY <1>2, <1>4, <2>5, <2>6
<1>8. CASE RunLevel
  BY <1>2, <1>4, <1>8 DEF RunLevel, Serves, SpritesHeld
<1> QED
  BY <1>2, <1>5, <1>6, <1>7, <1>8 DEF RunFrame

-----------------------------------------------------------------------------
(* What a command does to the game *)

\* A game that was just loaded has the sprites of its ROM.
LEMMA LoadedServes ==
    ASSUME NEW c \in Content, backend'.rom = c, backend'.place = "title",
           \A l \in Levels : backend'.overlay[l] = None
    PROVE  \A l \in Levels : SpritesHeld(l)' = c.sprites[l] /\ Serves(l)'
<1> SUFFICES ASSUME NEW l \in Levels PROVE SpritesHeld(l)' = c.sprites[l] /\ Serves(l)'
  OBVIOUS
<1>1. SpritesHeld(l)' = c.sprites[l]
  BY DEF SpritesHeld
<1> QED
  BY <1>1 DEF Serves

\* What a command that succeeds does to the ROM and the sprites of the game.
LEMMA ExecuteDelivers ==
    ASSUME Base, Execute, errors' = 0
    PROVE  LET h == Head(commands)
           IN  /\ errors = 0
               /\ h \in Fulls =>
                    /\ backend'.rom = h.rom
                    /\ \A l \in Levels : SpritesHeld(l)' = h.rom.sprites[l] /\ Serves(l)'
               /\ h \notin Fulls => backend'.rom = backend.rom
               /\ h \notin Fulls => \A l \in Levels :
                    SpritesHeld(l)' = IF h \in Bears(l) THEN h.rom.sprites[l] ELSE SpritesHeld(l)
               /\ h.op = "load" => \A l \in Levels : l = h.level => Serves(l)'
               /\ h \notin Fulls /\ h.op # "load" /\ ~hurried' => \A l \in Levels :
                    Serves(l)' \/ (~hurried /\ (Serves(l) => Serves(l)'))
<1> USE LevelFacts
<1> DEFINE h == Head(commands)
<1>0. /\ backend \in Backend /\ errors \in Nat /\ Booting /\ hurried \in BOOLEAN
      /\ commands \in Seq(Command)
  BY DEF Base, TypeOK
<1>1. h \in Command /\ (Fails => FALSE)
  <2>1. commands # <<>>
    BY DEF Execute, ExecuteInitialize, ExecuteReload, ExecuteLoadLevel,
           ExecuteReloadSprites, ExecutePause, ExecuteStep, Takes
  <2> QED
    BY <1>0, <2>1, QueueTaken DEF Fails
<1>2. /\ h \in Fulls <=> h.op \in {"initialize", "reload"}
      /\ \A l : h \in Bears(l) <=> \/ h.op \in {"initialize", "reload"}
                                   \/ h.op = "sprites" /\ h.level = l
  BY <1>1, KindOf
<1> DEFINE Delivers ==
             /\ errors = 0
             /\ h \in Fulls =>
                  /\ backend'.rom = h.rom
                  /\ \A l \in Levels : SpritesHeld(l)' = h.rom.sprites[l] /\ Serves(l)'
             /\ h \notin Fulls => backend'.rom = backend.rom
             /\ h \notin Fulls => \A l \in Levels :
                  SpritesHeld(l)' = IF h \in Bears(l) THEN h.rom.sprites[l] ELSE SpritesHeld(l)
             /\ h.op = "load" => \A l \in Levels : l = h.level => Serves(l)'
             /\ h \notin Fulls /\ h.op # "load" /\ ~hurried' => \A l \in Levels :
                  Serves(l)' \/ (~hurried /\ (Serves(l) => Serves(l)'))
<1>3. CASE ExecuteInitialize
  <2>1. h.op = "initialize" /\ h.rom \in Content /\ errors = 0
        /\ h.level \in Levels \cup {LevelZero} /\ h.overworld \in BOOLEAN
    BY <1>1, <1>3, CommandFacts DEF ExecuteInitialize, Takes, Succeeds
  <2>2. backend' = [Loaded(h.rom) EXCEPT !.overworld = h.overworld, !.requested = h.level]
    BY <1>1, <1>3 DEF ExecuteInitialize
  <2> DEFINE c == h.rom
             b == Loaded(c)
  <2>3. c \in Content
    BY <2>1
  <2>4. /\ b \in Backend /\ b.rom = c /\ b.place = "title"
        /\ \A l \in Levels : b.overlay[l] = None
    <3> HIDE DEF c
    <3> QED
      BY <1>0, <2>3, UnloadedFacts
  <2>5. backend' = [b EXCEPT !.overworld = h.overworld, !.requested = h.level]
    BY <2>2
  <2> HIDE DEF b
  <2>6. backend'.rom = c /\ backend'.place = "title" /\ backend'.overlay = b.overlay
    BY <2>4, <2>5 DEF Backend
  <2>7. \A l \in Levels : SpritesHeld(l)' = c.sprites[l] /\ Serves(l)'
    BY <2>3, <2>4, <2>6, LoadedServes
  <2> QED
    BY <1>2, <2>1, <2>6, <2>7
<1>4. CASE ExecuteReload
  <2>1. h.op = "reload" /\ h.rom \in Content /\ errors = 0
    BY <1>1, <1>4, CommandFacts DEF ExecuteReload, Takes, Succeeds
  <2> DEFINE c == h.rom
  <2>2. backend' = Loaded(c) /\ c \in Content
    BY <1>1, <1>4, <2>1 DEF ExecuteReload
  <2> HIDE DEF c
  <2>3. /\ Loaded(c).rom = c /\ Loaded(c).place = "title"
        /\ \A l \in Levels : Loaded(c).overlay[l] = None
    BY <1>0, <2>2, UnloadedFacts
  <2>4. \A l \in Levels : SpritesHeld(l)' = c.sprites[l] /\ Serves(l)'
    BY <2>2, <2>3, LoadedServes
  <2> QED
    BY <1>2, <2>1, <2>2, <2>3, <2>4 DEF c
<1>5. CASE ExecuteLoadLevel
  <2>0. h.op = "load" /\ h.level \in Levels /\ errors = 0
    BY <1>1, <1>5, CommandFacts DEF ExecuteLoadLevel, Takes, Succeeds
  <2>1. PICK l \in Levels : l = h.level
    BY <2>0
  <2> DEFINE b == Requested(l)
  <2>2. backend' = IF backend.rom # NoRom /\ CanInject THEN Entering(b, l) ELSE b
    BY <1>1, <1>5, <2>1 DEF ExecuteLoadLevel
  <2>3. /\ b \in Backend /\ b.rom = backend.rom /\ b.place = backend.place
        /\ b.entered = backend.entered /\ b.reached = backend.reached
        /\ b.overlay = backend.overlay /\ b.shown = backend.shown
        /\ b.requested = l /\ b.pending = IF backend.overlay[l] # None THEN l ELSE NoLevel
    BY <1>0 DEF Requested, Backend
  <2> HIDE DEF b
  <2>4. /\ backend'.rom = backend.rom /\ backend'.overlay = backend.overlay
        /\ Serves(l)'
    <3>1. CASE backend' = Entering(b, l)
      <4>1. /\ backend'.rom = b.rom /\ backend'.place = "transition"
            /\ backend'.entered = l /\ backend'.overlay = b.overlay
            /\ backend'.pending = b.pending
        BY <2>3, <3>1 DEF Entering, Backend
      <4> QED
        BY <2>3, <4>1 DEF Serves
    <3>2. CASE backend' = b /\ ~(backend.rom # NoRom /\ CanInject)
      <4>1. backend.place = "level" /\ backend.entered = l =>
                backend.shown = SpritesHeld(l)
        BY <1>0, <3>2 DEF Booting, CanInject, SpritesHeld
      <4>2. SpritesHeld(l)' = SpritesHeld(l)
        BY <2>3, <3>2 DEF SpritesHeld
      <4> QED
        BY <2>3, <3>2, <4>1, <4>2 DEF Serves
    <3> QED
      BY <2>2, <3>1, <3>2
  <2>5. \A k \in Levels : SpritesHeld(k)' = SpritesHeld(k)
    BY <2>4 DEF SpritesHeld
  <2> QED
    BY <1>2, <2>0, <2>1, <2>4, <2>5
<1>6. CASE ExecuteReloadSprites
  <2> DEFINE l == h.level
             version == h.rom.sprites[l]
             shown == IF backend.place = "level" THEN version ELSE backend.shown
  <2>1. h.op = "sprites" /\ l \in Levels /\ version \in Changes /\ version # None
    BY <1>1, <1>6, CommandFacts, ContentFacts, NumberFacts DEF ExecuteReloadSprites, Takes
  <2>2. /\ errors = 0
        /\ backend' = [backend EXCEPT !.overlay[l] = version, !.pending = NoLevel,
                                      !.reached = TRUE,
                                      !.shown = IF backend.place = "level"
                                                THEN version ELSE @]
        /\ hurried' = (hurried \/ backend.place # "level" \/ backend.entered # l)
    BY <1>0, <1>1, <1>6 DEF ExecuteReloadSprites, Succeeds
  <2> DEFINE overlay == [backend.overlay EXCEPT ![l] = version]
  <2>3. /\ overlay[l] = version
        /\ \A k \in Levels : k # l => overlay[k] = backend.overlay[k]
    <3>1. backend.overlay \in [Levels -> Changes \cup {None}]
      BY <1>0, BackendFields
    <3> QED
      BY <2>1, <3>1
  <2>4. backend' = [backend EXCEPT !.overlay = overlay, !.pending = NoLevel,
                                   !.reached = TRUE, !.shown = shown]
    BY <1>0, <2>2
  <2> HIDE DEF overlay, shown, version, l
  <2>5. /\ backend'.rom = backend.rom /\ backend'.overlay = overlay
        /\ backend'.place = backend.place /\ backend'.entered = backend.entered
        /\ backend'.shown = shown
    BY <1>0, <2>4 DEF Backend
  <2>6. \A k \in Levels : SpritesHeld(k)' = IF k = l THEN version ELSE SpritesHeld(k)
    BY <2>1, <2>3, <2>5 DEF SpritesHeld
  <2>7. ASSUME ~hurried', NEW k \in Levels PROVE Serves(k)'
    <3>1. backend.place = "level" /\ backend.entered = l
      BY <2>2, <2>7
    <3>2. shown = version
      BY <3>1 DEF shown
    <3> QED
      BY <2>5, <2>6, <3>1, <3>2 DEF Serves
  <2> QED
    BY <1>2, <2>1, <2>2, <2>5, <2>6, <2>7 DEF l, version
<1>7. CASE ExecutePause
  <2>1. h.op = "pause" /\ backend' = backend /\ hurried' = hurried /\ errors = 0
    BY <1>7 DEF ExecutePause, Takes
  <2> QED
    BY <1>2, <2>1 DEF SpritesHeld, Serves
<1>8. CASE ExecuteStep
  <2>1. h.op = "step" /\ hurried' = hurried /\ RunFrame
    BY <1>8 DEF ExecuteStep, Takes
  <2> QED
    BY <1>2, <2>1, FrameKeepsHeld
<1>9. Delivers
  BY <1>3, <1>4, <1>5, <1>6, <1>7, <1>8 DEF Execute
<1> QED
  BY <1>9

-----------------------------------------------------------------------------
(* What waits for the game, and what it has *)

\* The last level asked for is that of the source, and the game serves it.
LevelIsAsked == alive =>
    /\ \A c \in LastIn(commands, Loads) : c.level = source.level
    /\ ~Waits(commands, Loads) /\ trust = "good" /\ errors = 0 /\ ~hurried
           /\ source.level \in Levels => Serves(source.level)

\* The last ROM and the last sprites of each level are those of the document.
Delivered ==
    /\ \A c \in LastIn(commands, Fulls) : c.rom.base = content.base
    /\ ~Waits(commands, Fulls) => backend.rom.base = content.base
    /\ \A l \in Levels :
          /\ \A c \in LastIn(commands, Bears(l)) : c.rom.sprites[l] = content.sprites[l]
          /\ ~Waits(commands, Bears(l)) => SpritesHeld(l) = content.sprites[l]

\* The source is the document as it is, and no error says it did not arrive.
Fresh == /\ alive /\ doc # None /\ origin = doc
         /\ trust = "good" /\ errors = 0 /\ source.revision = revision

ContentArrives == Fresh => Delivered

\* The kinds of commands that decide what the game shows.
Deliveries == {Loads, Fulls} \cup {Bears(l) : l \in Levels}

\* The queue holds the same of every such kind as before.
SameDeliveries == \A K \in Deliveries : /\ Waits(commands', K) <=> Waits(commands, K)
                                        /\ LastIn(commands', K) = LastIn(commands, K)

\* Pauses and steps deliver nothing.
LEMMA IdleMessage ==
    ASSUME commands \in Seq(Command), NEW p, NEW more \in {<<>>, <<StepFrame>>}, NEW rs,
           Sends(p, more), PausePart(p, rs)
    PROVE  SameDeliveries
<1> SUFFICES ASSUME NEW K \in Deliveries
             PROVE  /\ Waits(commands', K) <=> Waits(commands, K)
                    /\ LastIn(commands', K) = LastIn(commands, K)
  BY DEF SameDeliveries
<1>1. StepFrame \notin K /\ \A m \in Modes : SetPauseMode(m) \notin K
  BY Kinds DEF Deliveries
<1>2. ~Waits(more, K)
  BY <1>1, Messages
<1> QED
  BY <1>1, <1>2, MessageWaits

\* A step that delivers nothing and changes nothing of the game.
LEMMA IdleStep ==
    ASSUME LevelIsAsked, ContentArrives, SameDeliveries,
           UNCHANGED <<alive, backend, hurried>>, source'.level = source.level,
           alive /\ trust' = "good" /\ errors' = 0 => trust = "good" /\ errors = 0,
           Fresh' => Fresh /\ content' = content
    PROVE  LevelIsAsked' /\ ContentArrives'
<1>1. /\ Waits(commands', Loads) <=> Waits(commands, Loads)
      /\ LastIn(commands', Loads) = LastIn(commands, Loads)
      /\ Waits(commands', Fulls) <=> Waits(commands, Fulls)
      /\ LastIn(commands', Fulls) = LastIn(commands, Fulls)
      /\ \A l \in Levels : /\ Waits(commands', Bears(l)) <=> Waits(commands, Bears(l))
                           /\ LastIn(commands', Bears(l)) = LastIn(commands, Bears(l))
  BY DEF SameDeliveries, Deliveries
<1>2. \A l \in Levels : SpritesHeld(l)' = SpritesHeld(l) /\ (Serves(l) => Serves(l)')
  BY DEF SpritesHeld, Serves
<1>3. LevelIsAsked'
  BY <1>1, <1>2 DEF LevelIsAsked
<1>4. ContentArrives'
  <2> SUFFICES ASSUME Fresh' PROVE Delivered'
    BY DEF ContentArrives
  <2>1. Delivered /\ content' = content /\ backend' = backend
    BY DEF ContentArrives
  <2> QED
    BY <1>1, <1>2, <2>1 DEF Delivered
<1> QED
  BY <1>3, <1>4

\* Without a worker there is nothing to show.
LEMMA GoneStep == ASSUME ~alive' PROVE LevelIsAsked' /\ ContentArrives'
  BY DEF LevelIsAsked, ContentArrives, Fresh

\* The frame that synchronises.
LEMMA SyncDelivers ==
    ASSUME Base, LevelIsAsked, ContentArrives, Synchronize
    PROVE  LevelIsAsked' /\ ContentArrives'
<1>0. TypeOK /\ commands \in Seq(Command) /\ content \in Content
  BY DEF Base, TypeOK
<1>1. CASE SyncNothing
  <2>1. UNCHANGED <<commands, errors, alive, backend, hurried, source, trust, origin,
                    doc, revision, content>>
    BY <1>1 DEF SyncNothing, Synchronizes, application, session, channels, worker, history
  <2> QED
    BY <2>1, IdleStep DEF SameDeliveries, Fresh
<1>2. CASE SyncLeaves \/ SyncStops
  BY <1>2, GoneStep DEF SyncLeaves, SyncStops, Stopped
<1>3. CASE ReloadSnapshot
  <2> DEFINE more == <<ReloadRom(content), LoadLevel(mode)>>
  <2>1. /\ alive /\ SyncSends(more) /\ mode \in Levels
        /\ source' = [level |-> mode, revision |-> revision]
    BY <1>3 DEF ReloadSnapshot, SyncSends, InLevel
  <2>2. more \in Seq(Command) /\ ReloadRom(content) \in Command /\ LoadLevel(mode) \in Command
    BY <1>0, <2>1, Messages, CommandsAreMade
  <2>3. \A K : /\ Waits(more, K) <=> ReloadRom(content) \in K \/ LoadLevel(mode) \in K
               /\ LastIn(more, K) = IF LoadLevel(mode) \in K THEN {LoadLevel(mode)}
                                    ELSE IF ReloadRom(content) \in K
                                         THEN {ReloadRom(content)} ELSE {}
    BY <2>2, QueueOfTwo
  <2> HIDE DEF more
  <2>4. PICK p : Sends(p, more) /\ PausePart(p, reasons')
    BY <1>0, <2>1, <2>2, SyncSendsMessage
  <2>5. UNCHANGED <<alive, backend, content>>
    BY <2>1 DEF SyncSends, Synchronizes, application, worker
  <2>6. ASSUME NEW K, \A m \in Modes : SetPauseMode(m) \notin K, Waits(more, K)
        PROVE  Waits(commands', K) /\ LastIn(commands', K) = LastIn(more, K)
    BY <1>0, <2>1, <2>4, <2>6, MessageWaits
  <2>7. Waits(commands', Loads) /\ LastIn(commands', Loads) = {LoadLevel(mode)}
    BY <1>0, <2>1, <2>3, <2>6, Kinds
  <2>8. Waits(commands', Fulls) /\ LastIn(commands', Fulls) = {ReloadRom(content)}
    BY <1>0, <2>1, <2>3, <2>6, Kinds
  <2>9. \A l \in Levels : /\ Waits(commands', Bears(l))
                          /\ LastIn(commands', Bears(l)) = {ReloadRom(content)}
    BY <1>0, <2>1, <2>3, <2>6, Kinds
  <2>10. LoadLevel(mode).level = mode /\ ReloadRom(content).rom = content
    BY Fields
  <2>11. LevelIsAsked'
    BY <2>1, <2>7, <2>10 DEF LevelIsAsked
  <2>12. Delivered'
    BY <2>5, <2>8, <2>9, <2>10 DEF Delivered
  <2> QED
    BY <2>11, <2>12 DEF ContentArrives
<1>4. CASE SwitchLevel
  <2> DEFINE more == <<LoadLevel(mode)>>
  <2>1. /\ alive /\ SyncSends(more) /\ mode \in Levels
        /\ source' = [level |-> mode, revision |-> revision]
        /\ source.revision = revision
        /\ UNCHANGED <<trust, origin>>
    BY <1>4 DEF SwitchLevel, SyncSends, InLevel
  <2>2. more \in Seq(Command) /\ LoadLevel(mode) \in Command
    BY <2>1, Messages, CommandsAreMade
  <2>3. \A K : /\ Waits(more, K) <=> LoadLevel(mode) \in K
               /\ LastIn(more, K) = IF LoadLevel(mode) \in K THEN {LoadLevel(mode)} ELSE {}
    BY <2>2, QueueOfOne
  <2> HIDE DEF more
  <2>4. PICK p : Sends(p, more) /\ PausePart(p, reasons')
    BY <1>0, <2>1, <2>2, SyncSendsMessage
  <2>5. UNCHANGED <<alive, backend, content, revision, doc, errors>>
    BY <2>1 DEF SyncSends, Synchronizes, application, worker
  <2>6. ASSUME NEW K, \A m \in Modes : SetPauseMode(m) \notin K
        PROVE  /\ Waits(commands', K) <=> Waits(commands, K) \/ LoadLevel(mode) \in K
               /\ LastIn(commands', K) = IF LoadLevel(mode) \in K THEN {LoadLevel(mode)}
                                         ELSE LastIn(commands, K)
    BY <1>0, <2>1, <2>3, <2>4, <2>6, MessageWaits
  <2>7. Waits(commands', Loads) /\ LastIn(commands', Loads) = {LoadLevel(mode)}
    BY <2>1, <2>6, Kinds
  <2>8. /\ Waits(commands', Fulls) <=> Waits(commands, Fulls)
        /\ LastIn(commands', Fulls) = LastIn(commands, Fulls)
    BY <2>1, <2>6, Kinds
  <2>9. \A l \in Levels : /\ Waits(commands', Bears(l)) <=> Waits(commands, Bears(l))
                          /\ LastIn(commands', Bears(l)) = LastIn(commands, Bears(l))
    BY <2>1, <2>6, Kinds
  <2>10. LoadLevel(mode).level = mode
    BY Fields
  <2>11. LevelIsAsked'
    BY <2>1, <2>7, <2>10 DEF LevelIsAsked
  <2>12. ASSUME Fresh' PROVE Delivered'
    <3>1. Delivered
      BY <2>1, <2>5, <2>12 DEF Fresh, ContentArrives
    <3>2. \A l \in Levels : SpritesHeld(l)' = SpritesHeld(l)
      BY <2>5 DEF SpritesHeld
    <3> QED
      BY <2>5, <2>8, <2>9, <3>1, <3>2 DEF Delivered
  <2> QED
    BY <2>11, <2>12 DEF ContentArrives
<1>5. CASE SyncKeeps
  <2>1. <<>> \in Seq(Command) /\ SyncSends(<<>>) /\ UNCHANGED <<source, origin, trust>>
    BY <1>5, Messages DEF SyncKeeps
  <2>2. PICK p : Sends(p, <<>>) /\ PausePart(p, reasons')
    BY <1>0, <2>1, SyncSendsMessage
  <2>3. SameDeliveries
    BY <1>0, <2>2, IdleMessage
  <2>4. UNCHANGED <<errors, alive, backend, hurried, source, trust, origin,
                    doc, revision, content>>
    BY <2>1 DEF SyncSends, Synchronizes, application, worker
  <2> QED
    BY <2>3, <2>4, IdleStep DEF Fresh
<1> QED
  BY <1>1, <1>2, <1>3, <1>4, <1>5 DEF Synchronize

\* The frame that shows the window: an error takes the trust away.
LEMMA ShowDelivers ==
    ASSUME Base, LevelIsAsked, ContentArrives, ShowWindow
    PROVE  LevelIsAsked' /\ ContentArrives'
<1>0. /\ TypeOK /\ commands \in Seq(Command) /\ errors \in Nat
      /\ source \in [level : Levels \cup {NoLevel, LevelZero}, revision : Int]
  BY DEF Base, TypeOK
<1>1. CASE ShowNothing
  <2>1. UNCHANGED <<commands, errors, alive, backend, hurried, source, trust, origin,
                    doc, revision, content>>
    BY <1>1 DEF ShowNothing, application, session, channels, worker, history
  <2> QED
    BY <2>1, IdleStep DEF SameDeliveries, Fresh
<1>2. CASE ShowGone
  BY <1>2, GoneStep DEF ShowGone, worker
<1>3. CASE Show \/ ShowManualPause \/ ShowStep
  <2>1. /\ UNCHANGED <<alive, backend, hurried, origin, doc, revision, content>>
        /\ Poll
    BY <1>0, <1>3, ShowSendsMessage DEF application, worker
  <2>2. SameDeliveries
    BY <1>0, <1>3, ShowSendsMessage, IdleMessage
  <2>3. /\ source'.level = source.level
        /\ trust' = "good" => /\ trust = "good" /\ errors = 0
                              /\ source'.revision = source.revision
    BY <1>0, <2>1 DEF Poll
  <2>4. Fresh' => Fresh
    BY <2>1, <2>3 DEF Fresh
  <2> QED
    BY <2>1, <2>2, <2>3, <2>4, IdleStep
<1> QED
  BY <1>1, <1>2, <1>3 DEF ShowWindow

\* What the user does: only a reload of sprites and a new session deliver.
LEMMA EditDelivers ==
    ASSUME Base, SourceIsOlder, LevelIsAsked, ContentArrives, EditDocument
    PROVE  LevelIsAsked' /\ ContentArrives'
<1>0. /\ TypeOK /\ Numbers /\ commands \in Seq(Command) /\ content \in Content
      /\ source \in [level : Levels \cup {NoLevel, LevelZero}, revision : Int]
      /\ revision \in Int /\ changes \in Int /\ origin \in Int /\ origin <= changes
      /\ mode \in Levels \cup {Overworld}
  BY NumberFacts DEF Base, TypeOK, Numbers
<1>1. CASE Start
  <2> DEFINE z == source'.level
  <2>1. PICK o \in BOOLEAN : o = ~InLevel
    BY DEF InLevel
  <2> DEFINE c == Initialize(z, content, o)
  <2>2. /\ commands' = <<c>> /\ content' = content
        /\ z \in Levels \cup {LevelZero}
    BY <1>0, <1>1, <2>1, LevelFacts DEF Start, InLevel, application
  <2>3. /\ c \in Command /\ c.level = z /\ c.rom = content
        /\ c \in Loads /\ c \in Fulls /\ \A l \in Levels : c \in Bears(l)
    BY <1>0, <2>2, CommandsAreMade, Kinds, Fields
  <2> HIDE DEF c, z
  <2>4. /\ Waits(commands', Loads) /\ LastIn(commands', Loads) = {c}
        /\ Waits(commands', Fulls) /\ LastIn(commands', Fulls) = {c}
        /\ \A l \in Levels : /\ Waits(commands', Bears(l))
                             /\ LastIn(commands', Bears(l)) = {c}
    BY <2>2, <2>3, QueueOfOne
  <2> QED
    BY <2>2, <2>3, <2>4 DEF LevelIsAsked, ContentArrives, Delivered, z
<1>2. CASE Stop
  BY <1>2, GoneStep DEF Stop, Stopped
<1>3. CASE ToggleManualPause \/ AdvanceFrame
  <2>1. UNCHANGED <<errors, alive, backend, hurried, source, trust, origin,
                    doc, revision, content>>
    BY <1>0, <1>3, ToolbarSendsMessage DEF application, worker, history
  <2>2. SameDeliveries
    BY <1>0, <1>3, ToolbarSendsMessage, IdleMessage
  <2> QED
    BY <2>1, <2>2, IdleStep DEF Fresh
<1>4. ASSUME NEW m \in Levels \cup {Overworld}, SetMode(m)
      PROVE  LevelIsAsked' /\ ContentArrives'
  <2>1. UNCHANGED <<commands, errors, alive, backend, hurried, source, trust, origin,
                    doc, revision, content>>
    BY <1>4 DEF SetMode, session, channels, worker, history
  <2> QED
    BY <2>1, IdleStep DEF SameDeliveries, Fresh
<1>5. ASSUME UNCHANGED <<commands, errors, alive, backend, hurried, source, trust>>, ~Fresh'
      PROVE  LevelIsAsked' /\ ContentArrives'
  BY <1>5, IdleStep DEF SameDeliveries
<1>6. ASSUME doc # None, revision' = revision + 1,
             UNCHANGED <<alive, doc, origin, source>>
      PROVE  ~Fresh'
  <2> SUFFICES ASSUME Fresh' PROVE FALSE
    OBVIOUS
  <2>1. running /\ origin = doc
    BY <1>0, <1>6 DEF Fresh, Numbers
  <2> QED
    BY <1>0, <1>6, <2>1 DEF SourceIsOlder, Fresh
<1>7. CASE Commit
  BY <1>5, <1>6, <1>7 DEF Commit, session, channels, worker, history
<1>8. CASE Open
  <2>1. /\ doc' = changes + 1
        /\ UNCHANGED <<commands, errors, alive, backend, hurried, source, trust, origin>>
    BY <1>8 DEF Open, session, channels, worker, history
  <2> QED
    BY <1>0, <1>5, <2>1 DEF Fresh
<1>9. CASE Close
  BY <1>5, <1>9 DEF Close, session, channels, worker, history, Fresh
<1>10. ASSUME NEW patched \in BOOLEAN, CommitSprites(patched)
       PROVE  LevelIsAsked' /\ ContentArrives'
  <2>1. /\ mode \in Levels /\ doc # None /\ revision' = revision + 1
        /\ content' = [content EXCEPT !.sprites[mode] = changes',
                                     !.base = IF patched THEN changes' ELSE @]
        /\ UNCHANGED <<doc, alive, backend, errors, origin, hurried>>
        /\ content' \in Content
    <3>1. TypeOK'
      BY <1>0, EditKeepsTypes
    <3> QED
      BY <1>10, <3>1 DEF CommitSprites, InLevel, worker, TypeOK
  <2>2. CASE UNCHANGED <<commands, source, trust>>
    BY <1>5, <1>6, <2>1, <2>2
  <2>3. CASE SendSprites(patched)
    <3> DEFINE c == ReloadSprites(mode, content')
    <3>1. /\ commands' = Queued(<<c>>)
          /\ source'.level = source.level /\ source'.revision = revision'
          /\ trust' = "good" => trust = "good" /\ source.revision = revision /\ ~patched
      BY <1>0, <2>3 DEF SendSprites
    <3>2. /\ c \in Command /\ c.rom = content'
          /\ c \notin Loads /\ c \notin Fulls
          /\ \A l \in Levels : c \in Bears(l) <=> l = mode
      BY <2>1, CommandsAreMade, Kinds, Fields
    <3> HIDE DEF c
    <3>3. ASSUME alive, NEW K
          PROVE  /\ Waits(commands', K) <=> Waits(commands, K) \/ c \in K
                 /\ LastIn(commands', K) = IF c \in K THEN {c} ELSE LastIn(commands, K)
      <4>1. <<c>> \in Seq(Command) /\ commands' = commands \o <<c>>
        BY <3>1, <3>2, <3>3 DEF Queued
      <4>2. /\ Waits(<<c>>, K) <=> c \in K
            /\ LastIn(<<c>>, K) = IF c \in K THEN {c} ELSE {}
        BY <3>2, QueueOfOne
      <4> QED
        BY <1>0, <4>1, <4>2, QueueJoined
    <3>4. \A l \in Levels : SpritesHeld(l)' = SpritesHeld(l) /\ (Serves(l) => Serves(l)')
      BY <2>1 DEF SpritesHeld, Serves
    <3>5. LevelIsAsked'
      <4> SUFFICES ASSUME alive PROVE LevelIsAsked'
        BY <2>1 DEF LevelIsAsked
      <4>1. /\ Waits(commands', Loads) <=> Waits(commands, Loads)
            /\ LastIn(commands', Loads) = LastIn(commands, Loads)
        BY <3>2, <3>3
      <4> QED
        BY <2>1, <3>1, <3>4, <4>1 DEF LevelIsAsked
    <3>6. ASSUME Fresh' PROVE Delivered'
      <4>1. alive /\ Delivered
        BY <2>1, <3>1, <3>6 DEF Fresh, ContentArrives
      <4>0. ~patched
        BY <3>1, <3>6 DEF Fresh
      <4>2. /\ content'.base = content.base
            /\ \A l \in Levels : l # mode => content'.sprites[l] = content.sprites[l]
        <5>1. /\ content'.base = IF patched THEN changes' ELSE content.base
              /\ content'.sprites = [content.sprites EXCEPT ![mode] = changes']
          BY <1>0, <2>1 DEF Content
        <5>2. content'.base = content.base
          BY <4>0, <5>1, Zenon
        <5>3. content.sprites \in [Levels -> Changes]
          BY <1>0, ContentFacts
        <5> QED
          BY <5>1, <5>2, <5>3
      <4>3. /\ Waits(commands', Fulls) <=> Waits(commands, Fulls)
            /\ LastIn(commands', Fulls) = LastIn(commands, Fulls)
        BY <3>2, <3>3, <4>1
      <4>4. \A l \in Levels :
               IF l = mode
               THEN Waits(commands', Bears(l)) /\ LastIn(commands', Bears(l)) = {c}
               ELSE /\ Waits(commands', Bears(l)) <=> Waits(commands, Bears(l))
                    /\ LastIn(commands', Bears(l)) = LastIn(commands, Bears(l))
        BY <3>2, <3>3, <4>1
      <4>5. ASSUME NEW l \in Levels
            PROVE  /\ \A d \in LastIn(commands', Bears(l)) :
                          d.rom.sprites[l] = content'.sprites[l]
                   /\ ~Waits(commands', Bears(l)) => SpritesHeld(l)' = content'.sprites[l]
        BY <3>2, <3>4, <4>1, <4>2, <4>4 DEF Delivered
      <4>6. /\ \A d \in LastIn(commands', Fulls) : d.rom.base = content'.base
            /\ ~Waits(commands', Fulls) => backend'.rom.base = content'.base
        BY <2>1, <4>1, <4>2, <4>3 DEF Delivered
      <4> QED
        BY <4>5, <4>6 DEF Delivered
    <3> QED
      BY <3>5, <3>6 DEF ContentArrives
  <2> QED
    BY <1>10, <2>2, <2>3 DEF CommitSprites
<1> QED
  BY <1>1, <1>2, <1>3, <1>4, <1>7, <1>8, <1>9, <1>10 DEF EditDocument

-----------------------------------------------------------------------------
(* What the game shows *)

\* What a command taken from the queue leaves of a kind.
LEMMA TakenLeaves ==
    ASSUME NEW q \in Seq(Command), q # <<>>, NEW K
    PROVE  /\ Waits(Tail(q), K) => LastIn(Tail(q), K) = LastIn(q, K) /\ Waits(q, K)
           /\ ~Waits(Tail(q), K) => /\ LastIn(Tail(q), K) = {}
                                    /\ Waits(q, K) <=> Head(q) \in K
                                    /\ Head(q) \in K => LastIn(q, K) = {Head(q)}
<1>1. ~Waits(Tail(q), K) => LastIn(Tail(q), K) = {}
  BY DEF Waits, LastIn
<1> QED
  BY <1>1, QueueTaken

\* A command that the backend executes hands over what the queue promised.
LEMMA ExecuteKeepsDeliveries ==
    ASSUME Base, LevelIsAsked, ContentArrives, Execute
    PROVE  LevelIsAsked' /\ ContentArrives'
<1> DEFINE h == Head(commands)
<1>1. /\ commands \in Seq(Command) /\ commands # <<>> /\ commands' = Tail(commands)
      /\ alive
      /\ UNCHANGED <<alive, doc, revision, content, source, origin, trust>>
  BY DEF Execute, ExecuteInitialize, ExecuteReload, ExecuteLoadLevel, ExecuteReloadSprites,
         ExecutePause, ExecuteStep, Takes, application, session, Base, TypeOK
<1>2. h \in Command
  BY <1>1, QueueTaken
<1>3. \A K : /\ Waits(commands', K) => /\ LastIn(commands', K) = LastIn(commands, K)
                                       /\ Waits(commands, K)
             /\ ~Waits(commands', K) => /\ LastIn(commands', K) = {}
                                        /\ Waits(commands, K) <=> h \in K
                                        /\ h \in K => LastIn(commands, K) = {h}
  BY <1>1, TakenLeaves
<1>4. /\ h \in Loads <=> h.op \in {"initialize", "load"}
      /\ h \in Fulls <=> h.op \in {"initialize", "reload"}
      /\ \A l : h \in Fulls => h \in Bears(l)
  BY <1>2, KindOf
<1>5. errors' = 0 =>
        /\ errors = 0
        /\ h \in Fulls =>
             /\ backend'.rom = h.rom
             /\ \A l \in Levels : SpritesHeld(l)' = h.rom.sprites[l] /\ Serves(l)'
        /\ h \notin Fulls => backend'.rom = backend.rom
        /\ h \notin Fulls => \A l \in Levels :
             SpritesHeld(l)' = IF h \in Bears(l) THEN h.rom.sprites[l] ELSE SpritesHeld(l)
        /\ h.op = "load" => \A l \in Levels : l = h.level => Serves(l)'
        /\ h \notin Fulls /\ h.op # "load" /\ ~hurried' => \A l \in Levels :
             Serves(l)' \/ (~hurried /\ (Serves(l) => Serves(l)'))
  BY ExecuteDelivers
<1> HIDE DEF h
<1>6. LevelIsAsked'
  <2>1. \A c \in LastIn(commands', Loads) : c.level = source'.level
    BY <1>1, <1>3 DEF LevelIsAsked
  <2>2. ASSUME ~Waits(commands', Loads), trust = "good", errors' = 0, ~hurried',
               NEW l \in Levels, l = source.level
        PROVE  Serves(l)'
    <3>1. CASE h \in Fulls
      BY <1>5, <2>2, <3>1
    <3>2. CASE h.op = "load"
      <4>1. h \in LastIn(commands, Loads)
        BY <1>3, <1>4, <2>2, <3>2
      <4>2. h.level = l
        BY <1>1, <2>2, <4>1 DEF LevelIsAsked
      <4> QED
        BY <1>5, <2>2, <3>2, <4>2
    <3>3. CASE h \notin Fulls /\ h.op # "load"
      <4>1. ~Waits(commands, Loads)
        BY <1>3, <1>4, <2>2, <3>3
      <4>2. Serves(l)' \/ (~hurried /\ (Serves(l) => Serves(l)'))
        BY <1>5, <2>2, <3>3
      <4> QED
        BY <1>1, <1>5, <2>2, <4>1, <4>2 DEF LevelIsAsked
    <3> QED
      BY <3>1, <3>2, <3>3
  <2>3. ~Waits(commands', Loads) /\ trust' = "good" /\ errors' = 0 /\ ~hurried'
            /\ source'.level \in Levels => Serves(source.level)'
    BY <1>1, <2>2
  <2>4. source' = source
    BY <1>1
  <2> QED
    BY <2>1, <2>3, <2>4 DEF LevelIsAsked, Serves, SpritesHeld
<1>7. ASSUME Fresh' PROVE Delivered'
  <2>1. errors' = 0 /\ Delivered
    BY <1>1, <1>5, <1>7 DEF Fresh, ContentArrives
  <2>2. \A c \in LastIn(commands', Fulls) : c.rom.base = content'.base
    BY <1>1, <1>3, <2>1 DEF Delivered
  <2>3. ~Waits(commands', Fulls) => backend'.rom.base = content'.base
    <3> SUFFICES ASSUME ~Waits(commands', Fulls) PROVE backend'.rom.base = content.base
      BY <1>1
    <3>1. CASE h \in Fulls
      BY <1>3, <1>5, <2>1, <3>1 DEF Delivered
    <3>2. CASE h \notin Fulls
      BY <1>3, <1>5, <2>1, <3>2 DEF Delivered
    <3> QED
      BY <3>1, <3>2
  <2>4. ASSUME NEW l \in Levels
        PROVE  /\ \A c \in LastIn(commands', Bears(l)) :
                      c.rom.sprites[l] = content'.sprites[l]
               /\ ~Waits(commands', Bears(l)) => SpritesHeld(l)' = content'.sprites[l]
    <3>1. \A c \in LastIn(commands', Bears(l)) : c.rom.sprites[l] = content'.sprites[l]
      BY <1>1, <1>3, <2>1 DEF Delivered
    <3>2. ASSUME ~Waits(commands', Bears(l)) PROVE SpritesHeld(l)' = content.sprites[l]
      <4>1. CASE h \in Bears(l)
        <5>1. h.rom.sprites[l] = content.sprites[l]
          BY <1>3, <2>1, <3>2, <4>1 DEF Delivered
        <5>2. SpritesHeld(l)' = h.rom.sprites[l]
          BY <1>5, <2>1, <4>1
        <5> QED
          BY <5>1, <5>2
      <4>2. CASE h \notin Bears(l)
        <5>1. SpritesHeld(l)' = SpritesHeld(l)
          BY <1>4, <1>5, <2>1, <4>2
        <5>2. SpritesHeld(l) = content.sprites[l]
          BY <1>3, <2>1, <3>2, <4>2 DEF Delivered
        <5> QED
          BY <5>1, <5>2
      <4> QED
        BY <4>1, <4>2
    <3> QED
      BY <1>1, <3>1, <3>2
  <2> QED
    BY <2>2, <2>3, <2>4 DEF Delivered
<1> QED
  BY <1>6, <1>7 DEF ContentArrives

\* A frame of the game, the end of the worker, and a stutter.
LEMMA RestDelivers ==
    ASSUME Base, LevelIsAsked, ContentArrives, Tick \/ Die \/ UNCHANGED vars
    PROVE  LevelIsAsked' /\ ContentArrives'
<1>1. CASE Tick
  <2>1. /\ UNCHANGED <<commands, alive, doc, revision, content, source, origin, trust, hurried>>
        /\ RunFrame /\ alive
    BY <1>1 DEF Tick, application, session, worker, history
  <2>2. errors' = 0 =>
          /\ errors = 0
          /\ backend'.rom = backend.rom
          /\ \A l \in Levels : SpritesHeld(l)' = SpritesHeld(l)
          /\ \A l \in Levels : Serves(l) => Serves(l)'
    BY <2>1, FrameKeepsHeld
  <2>3. LevelIsAsked'
    <3>1. ASSUME NEW l \in Levels, l = source.level, ~Waits(commands, Loads),
                 trust = "good", errors' = 0, ~hurried
          PROVE  Serves(l)'
      BY <2>1, <2>2, <3>1 DEF LevelIsAsked
    <3>2. ~Waits(commands', Loads) /\ trust' = "good" /\ errors' = 0 /\ ~hurried'
              /\ source'.level \in Levels => Serves(source.level)'
      BY <2>1, <3>1
    <3>3. \A c \in LastIn(commands', Loads) : c.level = source'.level
      BY <2>1 DEF LevelIsAsked
    <3> QED
      BY <2>1, <3>2, <3>3 DEF LevelIsAsked, Serves, SpritesHeld
  <2>4. ASSUME Fresh' PROVE Delivered'
    <3>1. errors' = 0 /\ Delivered
      BY <2>1, <2>2, <2>4 DEF Fresh, ContentArrives
    <3> QED
      BY <2>1, <2>2, <3>1 DEF Delivered
  <2> QED
    BY <2>3, <2>4 DEF ContentArrives
<1>2. CASE Die
  BY <1>2, GoneStep DEF Die
<1>3. CASE UNCHANGED vars
  <2>1. UNCHANGED <<commands, errors, alive, backend, hurried, source, trust, origin,
                    doc, revision, content>>
    BY <1>3 DEF vars, application, session, channels, worker, history
  <2> QED
    BY <2>1, IdleStep DEF SameDeliveries, Fresh
<1> QED
  BY <1>1, <1>2, <1>3

\* The invariant behind what the game shows.
Shown == Base /\ PauseAgrees /\ SourceIsOlder /\ LevelIsAsked /\ ContentArrives

\* What is asked of the game and what it holds agree with the source, and the
\* source with the document, in every reachable state.
LEMMA ShownInvariant == Spec => []Shown
<1>1. Init => Shown
  BY BaseInit DEF Init, Shown, SourceIsOlder, LevelIsAsked, ContentArrives, Fresh
<1>2. Shown /\ [Next]_vars => Shown'
  <2> SUFFICES ASSUME Shown, [Next]_vars PROVE Shown'
    OBVIOUS
  <2>1. Base' /\ PauseAgrees'
    BY SyncKeepsPause, ShowKeepsPause, EditKeepsPause, ExecuteKeepsPause, RestKeepsPause
    DEF Next, Shown
  <2>2. SourceIsOlder'
    BY SourceStaysOlder DEF Shown
  <2>3. LevelIsAsked' /\ ContentArrives'
    BY SyncDelivers, ShowDelivers, EditDelivers, ExecuteKeepsDeliveries, RestDelivers
    DEF Next, Shown
  <2> QED
    BY <2>1, <2>2, <2>3 DEF Shown
<1> QED
  BY <1>1, <1>2, PTL DEF Spec

\* Once nothing is under way the game in the selected level shows what is
\* committed of it, after any number of reloads, switches, sprite reloads and
\* errors, unless trust, origin or hurried say otherwise.
THEOREM ShowsWhatIsCommitted == Spec => []ShowsCommitted
<1>1. Shown => ShowsCommitted
  <2> SUFFICES ASSUME Shown, Quiet, Synchronized, origin = doc,
                      trust \in {"good", "error"}, ~hurried,
                      backend.place = "level", backend.entered = mode
               PROVE  <<backend.rom.base, backend.shown>> = LevelContent(content, mode)
    BY DEF ShowsCommitted
  <2>1. /\ running /\ alive /\ commands = <<>> /\ errors = 0 /\ doc # None /\ mode \in Levels
        /\ source.level = mode /\ source.revision = revision
    BY DEF Quiet, Synchronized, InLevel
  <2>2. revision \in Int
    BY NumberFacts DEF Shown, Base, TypeOK
  <2>3. trust = "good"
    BY <2>1, <2>2 DEF Shown, SourceIsOlder
  <2>4. \A K : ~Waits(commands, K)
    BY <2>1, QueueOfNone
  <2>5. Serves(mode)
    BY <2>1, <2>3, <2>4 DEF Shown, LevelIsAsked
  <2>6. Delivered
    BY <2>1, <2>3 DEF Shown, ContentArrives, Fresh
  <2>7. backend.rom.base = content.base /\ backend.shown = content.sprites[mode]
    BY <2>1, <2>4, <2>5, <2>6 DEF Delivered, Serves
  <2> QED
    BY <2>7 DEF LevelContent
<1> QED
  BY <1>1, ShownInvariant, PTL

=============================================================================
