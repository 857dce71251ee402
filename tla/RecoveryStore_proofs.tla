------------------------ MODULE RecoveryStore_proofs ------------------------
(* Proofs about RecoveryStore, for every number of sessions, changes and      *)
(* revisions, every limit of pending records, and with or without failing     *)
(* file operations.                                                           *)
EXTENDS RecoveryStore, FiniteSetTheorems, SequenceTheorems, TLAPS

(* Commands are about the record they were made for: a clear is about this    *)
(* session's, a removal about one the user decided about.                     *)
OrderFits(command) ==
  /\ command.kind = "clear" => command.of = session
  /\ command.kind = "remove" => command.of \in answered

OrdersFit == OrderFits(working) /\ OrderFits(channel)

(* The offers are of different earlier sessions and still open, and their     *)
(* records hold what is offered.                                              *)
OffersStand ==
  /\ answered \subseteq 1..(session - 1)
  /\ \A i \in DOMAIN pending :
       /\ pending[i].path \in 1..(session - 1)
       /\ pending[i].path \notin answered
       /\ records[pending[i].path] = pending[i].content
  /\ \A i, j \in DOMAIN pending : pending[i].path = pending[j].path => i = j

(* MarksAreTrue in every state, and what was queued is never nothing.         *)
MarksHold ==
  /\ queuedRevision # None => queuedContent \in Contents
  /\ queuedRevision # None /\ "write" \notin failed => Upcoming = queuedContent
  /\ clearQueued /\ "remove" \notin failed => Upcoming = Nothing

(* Sessions to come have left nothing yet.                                    *)
FutureIsEmpty == \A s \in Sessions : s > session => records[s] = Nothing

IInv == /\ TypeOK /\ OrdersFit /\ OffersStand /\ KeptUntilAnswered /\ MarksHold
        /\ FutureIsEmpty /\ AnsweredIsRemoved

-----------------------------------------------------------------------------
LEMMA StoredIsFinite ==
  ASSUME NEW S \in SUBSET Sessions
  PROVE  Cardinality(S) \in Nat
<1>1. IsFiniteSet(Sessions)
  BY RecoveryAssumption, FS_Interval DEF Sessions
<1> QED
  BY <1>1, FS_Subset, FS_CardinalityType

LEMMA OffersFit ==
  ASSUME TypeOK, NEW readable \in SUBSET Stored, NEW p \in Offers(readable)
  PROVE  /\ p \in Seq([path : Sessions, content : Contents])
         /\ \A i \in DOMAIN p : /\ records[p[i].path] = p[i].content
                                /\ records[p[i].path] # Nothing
         /\ \A i, j \in DOMAIN p : p[i].path = p[j].path => i = j
<1> DEFINE offered == IF Cardinality(Stored) <= MaxPending THEN readable ELSE {}
           n == Cardinality(offered)
           Entry == {[path |-> s, content |-> records[s]] : s \in offered}
<1>1. offered \in SUBSET Sessions /\ \A s \in offered : records[s] # Nothing
  BY DEF Stored
<1>2. n \in Nat
  BY <1>1, StoredIsFinite
<1>3. p \in [1..n -> Entry] /\ \A i, j \in DOMAIN p : p[i] = p[j] => i = j
  BY DEF Offers
<1>4. \A e \in Entry : /\ e \in [path : Sessions, content : Contents]
                       /\ records[e.path] = e.content
                       /\ records[e.path] # Nothing
                       /\ e = [path |-> e.path, content |-> records[e.path]]
  BY <1>1 DEF TypeOK
<1> HIDE DEF offered, n, Entry
<1>5. p \in [1..n -> [path : Sessions, content : Contents]]
  BY <1>3, <1>4
<1>6. p \in Seq([path : Sessions, content : Contents])
  <2> DEFINE T == [path : Sessions, content : Contents]
  <2> HIDE DEF T
  <2>1. p \in [1..n -> T]
    BY <1>5 DEF T
  <2>2. p \in UNION {[1..m -> T] : m \in Nat}
    BY <1>2, <2>1
  <2> QED
    BY <2>2, SeqDef DEF T
<1>7. \A i \in DOMAIN p : p[i] \in Entry
  BY <1>3
<1>8. ASSUME NEW i \in DOMAIN p, NEW j \in DOMAIN p, p[i].path = p[j].path
      PROVE  i = j
  BY <1>3, <1>4, <1>7, <1>8
<1> QED
  BY <1>4, <1>6, <1>7, <1>8

(* The constants and shapes every step below needs. *)
LEMMA Basics ==
  ASSUME IInv
  PROVE  /\ MaxSessions \in Nat /\ MaxChanges \in Nat /\ MaxRevision \in Nat
         /\ session \in 0..MaxSessions
         /\ answered \subseteq Sessions
         /\ session \notin answered
         /\ None \notin Revisions /\ Nothing \notin Contents
         /\ Idle \in Commands
BY RecoveryAssumption DEF IInv, TypeOK, OffersStand, None, Nothing, Revisions,
   Contents, Sessions, Commands

LEMMA NextDocuments ==
  ASSUME IInv
  PROVE  /\ Closed \in Documents
         /\ [status |-> "clean", revision |-> 0, content |-> Nothing,
             named |-> TRUE] \in Documents
         /\ \A c \in Contents :
              [status |-> "dirty", revision |-> 0, content |-> c,
               named |-> FALSE] \in Documents
         /\ [document EXCEPT !.status = "clean", !.content = Nothing,
                                !.named = TRUE] \in Documents
         /\ document.revision < MaxRevision =>
              [document EXCEPT !.status = "clean", !.content = Nothing,
                               !.revision = @ + 1] \in Documents
         /\ document.revision < MaxRevision /\ changes < MaxChanges =>
              [document EXCEPT !.status = "dirty", !.content = changes + 1,
                               !.revision = @ + 1] \in Documents
<1>1. /\ 0 \in Revisions /\ changes \in 0..MaxChanges
      /\ document.revision < MaxRevision => document.revision + 1 \in Revisions
      /\ changes < MaxChanges => changes + 1 \in Contents
  BY Basics DEF IInv, TypeOK, Documents, Revisions, Contents
<1>2. /\ document \in [status : {"none", "clean", "dirty"}, revision : Revisions,
                        content : Contents \cup {Nothing}, named : BOOLEAN]
      /\ document.status = "dirty" <=> document.content # Nothing
  BY DEF IInv, TypeOK, Documents
<1> QED
  BY <1>1, <1>2, Basics DEF Documents, Closed

LEMMA ShownTypes ==
  ASSUME IInv, NEW next \in Documents, Show(next),
         changes' \in changes..MaxChanges
  PROVE  /\ document' \in Documents
         /\ changes' \in 0..MaxChanges /\ base' \in 0..changes'
BY Basics DEF IInv, TypeOK, Show

LEMMA InitEstablishes == Init => IInv
<1> SUFFICES ASSUME Init PROVE IInv
  OBVIOUS
<1>1. records \in [Sessions -> Contents \cup {Nothing}]
  BY RecoveryAssumption DEF Init, Sessions, Contents, Nothing
<1>2. TypeOK
  <2>1. pending \in Seq([path : Sessions, content : Contents])
    BY EmptySeq DEF Init
  <2> QED
    <3>1. document \in Documents
      BY RecoveryAssumption DEF Init, Closed, Documents, Revisions
    <3>2. channel \in Commands /\ working \in Commands
      BY DEF Init, Commands
    <3>3. /\ session \in 0..MaxSessions
          /\ changes \in 0..MaxChanges /\ base \in 0..changes
      BY RecoveryAssumption DEF Init
    <3> QED
      BY <1>1, <2>1, <3>1, <3>2, <3>3 DEF Init, TypeOK
<1>3. OrdersFit
  BY DEF Init, OrdersFit, OrderFits, Idle
<1>4. OffersStand
  BY DEF Init, OffersStand
<1>5. KeptUntilAnswered
  BY DEF Init, KeptUntilAnswered
<1>6. MarksHold
  BY DEF Init, MarksHold
<1>7. FutureIsEmpty
  BY RecoveryAssumption DEF Init, FutureIsEmpty, Sessions, Nothing
<1>8. AnsweredIsRemoved
  BY DEF Init, AnsweredIsRemoved
<1> QED
  BY <1>2, <1>3, <1>4, <1>5, <1>6, <1>7, <1>8 DEF IInv

-----------------------------------------------------------------------------
(* What a step that leaves the store alone, or only reads results, keeps. *)
LEMMA StoreUntouched ==
  ASSUME IInv, TypeOK', UNCHANGED <<session, disk, store>>
  PROVE  IInv'
BY DEF IInv, disk, store, OrdersFit, OrderFits, OffersStand, KeptUntilAnswered,
   MarksHold, FutureIsEmpty, AnsweredIsRemoved, RemovePending, Upcoming, After


LEMMA LoadPreserves == IInv /\ Load => IInv'
<1> SUFFICES ASSUME IInv, Load PROVE IInv'
  OBVIOUS
<1>1. /\ document' \in Documents
      /\ changes' \in 0..MaxChanges /\ base' \in 0..changes'
  <2>1. changes' \in changes..MaxChanges
    BY Basics DEF Load, IInv, TypeOK
  <2> QED
    BY <2>1, NextDocuments, ShownTypes DEF Load, Event
<1>2. TypeOK'
  BY <1>1 DEF IInv, TypeOK, Load, Event, disk, store
<1> QED
  BY <1>2, StoreUntouched DEF Load, Event

LEMMA ChangePreserves == IInv /\ Change => IInv'
<1> SUFFICES ASSUME IInv, Change PROVE IInv'
  OBVIOUS
<1>1. /\ document' \in Documents
      /\ changes' \in 0..MaxChanges /\ base' \in 0..changes'
  <2>1. changes' \in changes..MaxChanges
    BY Basics DEF Change, IInv, TypeOK
  <2> QED
    BY <2>1, NextDocuments, ShownTypes DEF Change, Event
<1>2. TypeOK'
  BY <1>1 DEF IInv, TypeOK, Change, Event, disk, store
<1> QED
  BY <1>2, StoreUntouched DEF Change, Event

LEMMA ChangeBackPreserves == IInv /\ ChangeBack => IInv'
<1> SUFFICES ASSUME IInv, ChangeBack PROVE IInv'
  OBVIOUS
<1>1. /\ document' \in Documents
      /\ changes' \in 0..MaxChanges /\ base' \in 0..changes'
  <2>1. changes' \in changes..MaxChanges
    BY Basics DEF ChangeBack, IInv, TypeOK
  <2> QED
    BY <2>1, NextDocuments, ShownTypes DEF ChangeBack, Event
<1>2. TypeOK'
  BY <1>1 DEF IInv, TypeOK, ChangeBack, Event, disk, store
<1> QED
  BY <1>2, StoreUntouched DEF ChangeBack, Event

LEMMA SavedPreserves == IInv /\ Saved => IInv'
<1> SUFFICES ASSUME IInv, Saved PROVE IInv'
  OBVIOUS
<1>1. /\ document' \in Documents
      /\ changes' \in 0..MaxChanges /\ base' \in 0..changes'
  <2>1. changes' \in changes..MaxChanges
    BY Basics DEF Saved, IInv, TypeOK
  <2> QED
    BY <2>1, NextDocuments, ShownTypes DEF Saved, Event
<1>2. TypeOK'
  BY <1>1 DEF IInv, TypeOK, Saved, Event, disk, store
<1> QED
  BY <1>2, StoreUntouched DEF Saved, Event

LEMMA ClosePreserves == IInv /\ Close => IInv'
<1> SUFFICES ASSUME IInv, Close PROVE IInv'
  OBVIOUS
<1>1. /\ document' \in Documents
      /\ changes' \in 0..MaxChanges /\ base' \in 0..changes'
  <2>1. changes' \in changes..MaxChanges
    BY Basics DEF Close, IInv, TypeOK
  <2> QED
    BY <2>1, NextDocuments, ShownTypes DEF Close, Event
<1>2. TypeOK'
  BY <1>1 DEF IInv, TypeOK, Close, Event, disk, store
<1> QED
  BY <1>2, StoreUntouched DEF Close, Event

LEMMA LeavePreserves == IInv /\ Leave => IInv'
<1> SUFFICES ASSUME IInv, Leave PROVE IInv'
  OBVIOUS
<1>1. TypeOK'
  BY Basics DEF IInv, TypeOK, Leave, disk, store
<1> QED
  BY <1>1, StoreUntouched DEF Leave

LEMMA LeftPreserves == IInv /\ Left => IInv'
<1> SUFFICES ASSUME IInv, Left PROVE IInv'
  OBVIOUS
<1>1. TypeOK'
  BY Basics DEF IInv, TypeOK, Left, disk, store
<1> QED
  BY <1>1, StoreUntouched DEF Left

LEMMA CrashPreserves == IInv /\ Crash => IInv'
<1> SUFFICES ASSUME IInv, Crash PROVE IInv'
  OBVIOUS
<1>1. TypeOK'
  BY Basics DEF IInv, TypeOK, Crash, disk, store
<1> QED
  BY <1>1, StoreUntouched DEF Crash

-----------------------------------------------------------------------------
(* What polling the results leaves of the marks. *)
LEMMA PollKeepsMarks ==
  ASSUME IInv
  PROVE  /\ PolledRevision \in Revisions \cup {None}
         /\ PolledClear \in BOOLEAN
         /\ PolledError \in BOOLEAN
         /\ PolledRevision # None =>
              queuedContent \in Contents /\ Upcoming = queuedContent
         /\ PolledClear => Upcoming = Nothing
BY DEF IInv, TypeOK, MarksHold, PolledRevision, PolledClear, PolledError

(* The record of another session is not what this session's will hold. *)
LEMMA OtherRecord ==
  ASSUME IInv, NEW s \in Sessions, s # session
  PROVE  [records EXCEPT ![s] = Nothing][session] = records[session]
BY DEF IInv, TypeOK

LEMMA AnswerPreserves ==
  ASSUME IInv, NEW next \in Documents, Answer(next)
  PROVE  IInv'
<1> DEFINE path == Head(pending).path
<1>1. pending \in Seq([path : Sessions, content : Contents]) /\ pending # <<>>
  BY DEF IInv, TypeOK, Answer
<1>2. /\ Tail(pending) \in Seq([path : Sessions, content : Contents])
      /\ DOMAIN pending = 1..Len(pending) /\ Len(pending) \in Nat \ {0}
      /\ DOMAIN Tail(pending) = 1..(Len(pending) - 1)
      /\ \A i \in DOMAIN Tail(pending) : Tail(pending)[i] = pending[i + 1]
      /\ Head(pending) = pending[1]
  <2>1. /\ Tail(pending) \in Seq([path : Sessions, content : Contents])
        /\ Len(Tail(pending)) = Len(pending) - 1
        /\ \A i \in 1..Len(Tail(pending)) : Tail(pending)[i] = pending[i + 1]
    BY <1>1, HeadTailProperties
  <2>2. Len(pending) \in Nat \ {0} /\ Head(pending) = pending[1]
    BY <1>1, EmptySeq
  <2> QED
    BY <1>1, <2>1, <2>2
<1>3. /\ path \in 1..(session - 1) /\ path \in Sessions /\ path # session
      /\ \A i \in DOMAIN Tail(pending) :
           /\ Tail(pending)[i].path \in 1..(session - 1)
           /\ Tail(pending)[i].path \notin answered
           /\ Tail(pending)[i].path # path
           /\ records[Tail(pending)[i].path] = Tail(pending)[i].content
      /\ \A i, j \in DOMAIN Tail(pending) :
           Tail(pending)[i].path = Tail(pending)[j].path => i = j
  <2>1. 1 \in DOMAIN pending
        /\ \A i \in DOMAIN Tail(pending) : i + 1 \in DOMAIN pending /\ i + 1 # 1
    BY <1>2
  <2>2. path \in 1..(session - 1)
    BY <1>2, <2>1 DEF IInv, OffersStand
  <2>3. path \in Sessions /\ path # session
    BY <2>2, Basics DEF Sessions
  <2>4. ASSUME NEW i \in DOMAIN Tail(pending)
        PROVE  /\ Tail(pending)[i].path \in 1..(session - 1)
               /\ Tail(pending)[i].path \notin answered
               /\ Tail(pending)[i].path # path
               /\ records[Tail(pending)[i].path] = Tail(pending)[i].content
    BY <1>2, <2>1 DEF IInv, OffersStand
  <2>5. ASSUME NEW i \in DOMAIN Tail(pending), NEW j \in DOMAIN Tail(pending),
               Tail(pending)[i].path = Tail(pending)[j].path
        PROVE  i = j
    <3>1. i + 1 = j + 1
      BY <1>2, <2>1, <2>5 DEF IInv, OffersStand
    <3>2. i \in Int /\ j \in Int
      BY <1>2
    <3> QED
      BY <3>1, <3>2
  <2> QED
    BY <2>2, <2>3, <2>4, <2>5
<1> HIDE DEF path
<1>4. /\ QueueClear(path)
      /\ pending' = Tail(pending) /\ answered' = answered \cup {path}
      /\ UNCHANGED <<running, session, found, working, queuedContent, changes>>
      /\ running = "on" /\ Show(next) /\ drawing' = TRUE
  BY DEF Answer, path
<1>5. /\ records' = records \/ records' = [records EXCEPT ![path] = Nothing]
      /\ channel' = channel \/ channel' = RemovePending(path)
      /\ channel' = RemovePending(path) =>
           \/ channel = Idle /\ records' = records
           \/ channel' = channel
      /\ failed' = {}
      /\ queuedRevision' = PolledRevision /\ clearQueued' = PolledClear
      /\ reported' = PolledError \/ reported' = TRUE
      /\ \/ channel' = RemovePending(path)
         \/ records' = [records EXCEPT ![path] = Nothing]
         \/ reported' = TRUE
  BY <1>4 DEF QueueClear, RemovalFails
<1>6. RemovePending(path) \in Commands
  BY <1>3 DEF RemovePending, Commands
<1>7. TypeOK'
  <2>1. /\ document' \in Documents
        /\ changes' \in 0..MaxChanges /\ base' \in 0..changes'
    <3>1. changes' \in changes..MaxChanges
      BY <1>4, Basics DEF IInv, TypeOK
    <3> QED
      BY <1>4, <3>1, ShownTypes
  <2>2. records' \in [Sessions -> Contents \cup {Nothing}]
    BY <1>5 DEF IInv, TypeOK
  <2>3. channel' \in Commands /\ answered' \subseteq Sessions
    BY <1>3, <1>4, <1>5, <1>6 DEF IInv, TypeOK
  <2> QED
    BY <1>2, <1>4, <1>5, <2>1, <2>2, <2>3, PollKeepsMarks DEF IInv, TypeOK
<1>8. OrdersFit'
  BY <1>4, <1>5 DEF IInv, OrdersFit, OrderFits, RemovePending
<1>9. OffersStand'
  <2>1. answered' \subseteq 1..(session' - 1)
    BY <1>3, <1>4 DEF IInv, OffersStand
  <2>2. \A s \in Sessions : s # path => records'[s] = records[s]
    BY <1>5 DEF IInv, TypeOK
  <2>3. \A i \in DOMAIN Tail(pending) : Tail(pending)[i].path \in Sessions
    BY <1>3, Basics DEF Sessions
  <2> QED
    BY <1>3, <1>4, <2>1, <2>2, <2>3 DEF OffersStand
<1>10. KeptUntilAnswered'
  <2>1. /\ \A s \in Sessions : s # path => records'[s] = records[s]
        /\ records'[path] \in {records[path], Nothing}
    BY <1>3, <1>5 DEF IInv, TypeOK
  <2>2. \A s \in 1..(session - 1) : s \in Sessions
    BY Basics DEF Sessions
  <2> QED
    BY <1>4, <2>1, <2>2 DEF IInv, KeptUntilAnswered
<1>11. MarksHold'
  <2>1. records'[session'] = records[session]
    BY <1>3, <1>4, <1>5, OtherRecord
  <2>2. Upcoming' = Upcoming
    BY <1>4, <1>5, <2>1 DEF Upcoming, After, Idle, RemovePending
  <2> QED
    BY <1>4, <1>5, <2>2, PollKeepsMarks DEF MarksHold
<1>12. FutureIsEmpty'
  BY <1>3, <1>4, <1>5 DEF IInv, FutureIsEmpty, TypeOK
<1>13. AnsweredIsRemoved'
  <2>1. ASSUME NEW s \in answered', reported' # TRUE
        PROVE  \/ records'[s] = Nothing
               \/ RemovePending(s) \in {channel', working'}
    <3>1. /\ reported # TRUE /\ failed = {}
          /\ records'[path] = Nothing \/ channel' = RemovePending(path)
      BY <1>3, <1>5, <2>1 DEF PolledError, IInv, TypeOK
    <3>2. CASE s = path
      BY <3>1, <3>2
    <3>3. CASE s # path
      <4>1. /\ s \in answered /\ s \in Sessions
            /\ \/ records[s] = Nothing
               \/ RemovePending(s) \in {channel, working}
        BY <1>4, <2>1, <3>1, <3>3, Basics DEF IInv, AnsweredIsRemoved
      <4>2. RemovePending(s) # Idle
        BY DEF RemovePending, Idle
      <4>3. records'[s] = records[s]
        BY <1>5, <3>3, <4>1 DEF IInv, TypeOK
      <4> QED
        BY <1>4, <1>5, <4>1, <4>2, <4>3
    <3> QED
      BY <3>2, <3>3
  <2> QED
    BY <2>1 DEF AnsweredIsRemoved, RemovePending
<1> QED
  BY <1>7, <1>8, <1>9, <1>10, <1>11, <1>12, <1>13 DEF IInv

LEMMA RecoverPreserves == IInv /\ Recover => IInv'
<1> SUFFICES ASSUME IInv, Recover PROVE IInv'
  OBVIOUS
<1>1. Head(pending).content \in Contents
  <2>1. pending \in Seq([path : Sessions, content : Contents]) /\ pending # <<>>
    BY DEF IInv, TypeOK, Recover, Answer
  <2>2. Head(pending) \in [path : Sessions, content : Contents]
    BY <2>1, HeadTailProperties
  <2> QED
    BY <2>2
<1> QED
  BY <1>1, NextDocuments, AnswerPreserves DEF Recover

LEMMA DiscardPendingPreserves == IInv /\ DiscardPending => IInv'
BY AnswerPreserves DEF DiscardPending, IInv, TypeOK

-----------------------------------------------------------------------------
LEMMA SynchronizeProjectPreserves == IInv /\ SynchronizeProject => IInv'
<1> SUFFICES ASSUME IInv, SynchronizeProject PROVE IInv'
  OBVIOUS
<1>1. /\ UNCHANGED <<running, session, records, found, document, base, pending,
                     working, answered, changes>>
      /\ drawing' = FALSE /\ failed' = {} /\ running = "on"
      /\ reported' = PolledError
  BY DEF SynchronizeProject, disk
<1>2. channel' = channel \/ channel = Idle => AnsweredIsRemoved'
  <2>1. \A s \in answered : RemovePending(s) # Idle
    BY DEF RemovePending, Idle
  <2>2. "remove" \in failed \/ reported => reported'
    BY <1>1 DEF PolledError
  <2> QED
    BY <1>1, <2>1, <2>2 DEF IInv, AnsweredIsRemoved, RemovePending
<1>3. CASE Skip(PolledRevision, PolledClear)
  <2>1. TypeOK'
    BY <1>1, <1>3, PollKeepsMarks DEF IInv, TypeOK, Skip
  <2>2. OrdersFit' /\ OffersStand' /\ KeptUntilAnswered' /\ FutureIsEmpty'
    BY <1>1, <1>3 DEF IInv, OrdersFit, OrderFits, OffersStand, KeptUntilAnswered,
       FutureIsEmpty, Skip
  <2>3. Upcoming' = Upcoming
    BY <1>1, <1>3 DEF Upcoming, After, Skip
  <2>4. MarksHold'
    BY <1>1, <1>3, <2>3, PollKeepsMarks DEF MarksHold, Skip
  <2> QED
    BY <1>2, <1>3, <2>1, <2>2, <2>4 DEF IInv, Skip
<1>4. CASE /\ document.status = "dirty"
           /\ Queue(Write(document.content), document.revision)
  <2>1. document.content \in Contents /\ document.revision \in Revisions
    BY <1>4 DEF IInv, TypeOK, Documents
  <2>2. /\ channel' = Write(document.content)
        /\ queuedRevision' = document.revision
        /\ clearQueued' = FALSE /\ queuedContent' = document.content
    BY <1>4, <2>1, Basics DEF Queue
  <2>3. Write(document.content) \in Commands
    BY <2>1 DEF Write, Commands
  <2>4. TypeOK'
    BY <1>1, <2>1, <2>2, <2>3, PollKeepsMarks DEF IInv, TypeOK
  <2>5. OrdersFit' /\ OffersStand' /\ KeptUntilAnswered' /\ FutureIsEmpty'
    BY <1>1, <2>2 DEF IInv, OrdersFit, OrderFits, OffersStand, KeptUntilAnswered,
       FutureIsEmpty, Write
  <2>6. MarksHold'
    BY <2>1, <2>2 DEF MarksHold, Upcoming, After, Write
  <2> QED
    BY <1>2, <1>4, <2>4, <2>5, <2>6 DEF IInv, Queue
<1>5. CASE Queue(ClearCurrent, None)
  <2>1. /\ channel' = ClearCurrent /\ queuedRevision' = None
        /\ clearQueued' = TRUE /\ queuedContent' = queuedContent
    BY <1>5 DEF Queue
  <2>2. ClearCurrent \in Commands
    BY <1>1 DEF ClearCurrent, Commands, IInv, TypeOK
  <2>3. TypeOK'
    BY <1>1, <2>1, <2>2, PollKeepsMarks DEF IInv, TypeOK
  <2>4. OrdersFit' /\ OffersStand' /\ KeptUntilAnswered' /\ FutureIsEmpty'
    BY <1>1, <2>1 DEF IInv, OrdersFit, OrderFits, OffersStand, KeptUntilAnswered,
       FutureIsEmpty, ClearCurrent
  <2>5. MarksHold'
    BY <2>1 DEF MarksHold, Upcoming, After, ClearCurrent
  <2> QED
    BY <1>2, <1>5, <2>3, <2>4, <2>5 DEF IInv, Queue
<1> QED
  BY <1>3, <1>4, <1>5 DEF SynchronizeProject

LEMMA TakeCommandPreserves == IInv /\ TakeCommand => IInv'
<1> SUFFICES ASSUME IInv, TakeCommand PROVE IInv'
  OBVIOUS
<1>1. TypeOK'
  BY Basics DEF IInv, TypeOK, TakeCommand, disk
<1>2. OrdersFit' /\ OffersStand' /\ KeptUntilAnswered' /\ FutureIsEmpty'
  BY DEF IInv, OrdersFit, OrderFits, OffersStand, KeptUntilAnswered, FutureIsEmpty,
     TakeCommand, disk, Idle
<1>3. Upcoming' = Upcoming
  BY DEF Upcoming, After, TakeCommand, disk, Idle
<1>4. MarksHold'
  BY <1>3 DEF IInv, MarksHold, TakeCommand
<1>5. AnsweredIsRemoved'
  <2>1. \A s \in answered : RemovePending(s) # Idle
    BY DEF RemovePending, Idle
  <2> QED
    BY <2>1 DEF IInv, AnsweredIsRemoved, RemovePending, TakeCommand, disk
<1> QED
  BY <1>1, <1>2, <1>4, <1>5 DEF IInv

-----------------------------------------------------------------------------
(* The worker changes one record: its own, or one the user decided about. *)
LEMMA RecordChanged ==
  ASSUME IInv, Executed, NEW s \in Sessions, NEW value \in Contents \cup {Nothing},
         \/ s = session
         \/ s \in answered /\ value = Nothing,
         records' = [records EXCEPT ![s] = value] \/ records' = records,
         failed' \subseteq {"write", "remove"}
  PROVE  TypeOK' /\ OrdersFit' /\ OffersStand' /\ KeptUntilAnswered' /\ FutureIsEmpty'
<1>1. /\ UNCHANGED <<running, session, found, document, base, drawing, pending,
                     channel, queuedRevision, clearQueued, queuedContent,
                     answered, reported, changes>>
      /\ working' = Idle
  BY DEF Executed
<1>2. /\ records' \in [Sessions -> Contents \cup {Nothing}]
      /\ \A r \in Sessions : r # s => records'[r] = records[r]
      /\ records'[s] \in {value, records[s]}
  BY DEF IInv, TypeOK
<1>3. TypeOK'
  BY <1>1, <1>2, Basics DEF IInv, TypeOK
<1>4. OrdersFit'
  BY <1>1 DEF IInv, OrdersFit, OrderFits, Idle
<1>5. OffersStand'
  <2>1. ASSUME NEW i \in DOMAIN pending
        PROVE  pending[i].path \in Sessions /\ pending[i].path # s
    BY <2>1, Basics DEF IInv, OffersStand, Sessions
  <2> QED
    BY <1>1, <1>2, <2>1 DEF IInv, OffersStand
<1>6. KeptUntilAnswered'
  BY <1>1, <1>2, Basics DEF IInv, KeptUntilAnswered, Sessions
<1>7. FutureIsEmpty'
  <2>1. s <= session
    <3>1. s \in answered => s \in 1..(session - 1)
      BY DEF IInv, OffersStand
    <3>2. session \in Int
      BY Basics
    <3> QED
      BY <3>1, <3>2
  <2> QED
    BY <1>1, <1>2, <2>1, Basics DEF IInv, FutureIsEmpty, Sessions
<1> QED
  BY <1>3, <1>4, <1>5, <1>6, <1>7

(* The removals on their way are not lost with the command just executed. *)
LEMMA RemovalsRemain ==
  ASSUME IInv, Executed, "remove" \in failed => "remove" \in failed',
         \A s \in answered : records[s] = Nothing => records'[s] = Nothing,
         \A s \in answered : working = RemovePending(s) =>
                              records'[s] = Nothing \/ "remove" \in failed'
  PROVE  AnsweredIsRemoved'
BY DEF IInv, AnsweredIsRemoved, Executed, RemovePending

LEMMA WriteRecordPreserves == IInv /\ WriteRecord => IInv'
<1> SUFFICES ASSUME IInv, WriteRecord PROVE IInv'
  OBVIOUS
<1>1. working.of \in Contents /\ session \in Sessions
  BY DEF IInv, TypeOK, Commands, WriteRecord, Executed, Idle
<1>2. TypeOK' /\ OrdersFit' /\ OffersStand' /\ KeptUntilAnswered' /\ FutureIsEmpty'
  BY <1>1, RecordChanged DEF WriteRecord, IInv, TypeOK
<1>3. Upcoming' = Upcoming
  <2>1. records'[session'] = working.of
    BY <1>1 DEF WriteRecord, Executed, IInv, TypeOK
  <2> QED
    BY <2>1 DEF WriteRecord, Executed, Upcoming, After, Idle
<1>4. MarksHold'
  BY <1>3 DEF IInv, MarksHold, WriteRecord, Executed
<1>5. AnsweredIsRemoved'
  <2>1. \A s \in answered : s # session /\ s \in Sessions
    BY Basics
  <2>2. \A s \in answered : working # RemovePending(s)
    BY DEF WriteRecord, RemovePending
  <2> QED
    BY <2>1, <2>2, RemovalsRemain DEF WriteRecord, IInv, TypeOK
<1> QED
  BY <1>2, <1>4, <1>5 DEF IInv

LEMMA RemoveRecordPreserves == IInv /\ RemoveRecord => IInv'
<1> SUFFICES ASSUME IInv, RemoveRecord PROVE IInv'
  OBVIOUS
<1>1. /\ working.of \in Sessions
      /\ \/ working.kind = "clear" /\ working.of = session
         \/ working.kind = "remove" /\ working.of \in answered
  BY DEF IInv, TypeOK, Commands, RemoveRecord, OrdersFit, OrderFits, Idle
<1>2. TypeOK' /\ OrdersFit' /\ OffersStand' /\ KeptUntilAnswered' /\ FutureIsEmpty'
  BY <1>1, RecordChanged DEF RemoveRecord, IInv, TypeOK
<1>3. Upcoming' = Upcoming
  <2>1. /\ working.kind = "clear" => records'[session'] = Nothing
        /\ working.kind = "remove" => records'[session'] = records[session]
    BY <1>1, Basics, OtherRecord DEF RemoveRecord, Executed, IInv, TypeOK
  <2> QED
    BY <1>1, <2>1 DEF RemoveRecord, Executed, Upcoming, After, Idle
<1>4. MarksHold'
  BY <1>3 DEF IInv, MarksHold, RemoveRecord, Executed
<1>5. AnsweredIsRemoved'
  <2>1. \A s \in answered : working = RemovePending(s) => working.of = s
    BY DEF RemovePending
  <2>2. \A s \in answered : /\ records[s] = Nothing => records'[s] = Nothing
                            /\ s = working.of => records'[s] = Nothing
    BY Basics DEF RemoveRecord, IInv, TypeOK
  <2> QED
    BY <2>1, <2>2, RemovalsRemain DEF RemoveRecord
<1> QED
  BY <1>2, <1>4, <1>5 DEF IInv

LEMMA CommandFailsPreserves == IInv /\ CommandFails => IInv'
<1> SUFFICES ASSUME IInv, CommandFails PROVE IInv'
  OBVIOUS
<1>1. /\ UNCHANGED <<session, channel, queuedRevision, clearQueued, queuedContent>>
      /\ working' = Idle /\ working # Idle /\ session \in Sessions
      /\ \/ records' = records
         \/ /\ working.kind = "remove"
            /\ records' = [records EXCEPT ![working.of] = Nothing]
      /\ failed' = failed \cup
                       {IF working.kind = "write" THEN "write" ELSE "remove"}
  <2>1. Executed /\ running \in {"on", "leaving"}
    BY DEF CommandFails, Executed
  <2>2. session \in Sessions
    BY <2>1 DEF IInv, TypeOK
  <2>3. /\ UNCHANGED <<session, channel, queuedRevision, clearQueued, queuedContent>>
        /\ working' = Idle /\ working # Idle
    BY <2>1 DEF Executed
  <2>4. \/ records' = records
        \/ /\ working.kind = "remove"
           /\ records' = [records EXCEPT ![working.of] = Nothing]
    BY DEF CommandFails, RemovalFails
  <2>5. failed' = failed \cup
                       {IF working.kind = "write" THEN "write" ELSE "remove"}
    BY DEF CommandFails
  <2> QED
    BY <2>2, <2>3, <2>4, <2>5
<1>2. \/ working.kind = "write" /\ working.of \in Contents
      \/ working.kind = "clear" /\ working.of = session
      \/ /\ working.kind = "remove"
         /\ working.of \in answered /\ working.of \in Sessions
  BY <1>1 DEF IInv, TypeOK, Commands, OrdersFit, OrderFits
<1>3. TypeOK' /\ OrdersFit' /\ OffersStand' /\ KeptUntilAnswered' /\ FutureIsEmpty'
  <2>1. failed' \subseteq {"write", "remove"} /\ Executed
    BY <1>1 DEF IInv, TypeOK, CommandFails
  <2>2. CASE working.kind = "remove"
    BY <1>1, <1>2, <2>1, <2>2, RecordChanged
  <2>3. CASE working.kind # "remove"
    BY <1>1, <2>1, <2>3, RecordChanged
  <2> QED
    BY <2>2, <2>3
<1>4. MarksHold'
  <2>1. /\ records'[session'] = records[session]
        /\ Upcoming' = After(channel, records[session])
    <3>1. records'[session'] = records[session]
      BY <1>1, <1>2, Basics, OtherRecord
    <3> QED
      BY <1>1, <3>1 DEF Upcoming, After, Idle
  <2>2. channel.kind = "write" => channel.of \in Contents
    BY DEF IInv, TypeOK, Commands, Idle
  <2>3. CASE working.kind = "write"
    BY <1>1, <1>2, <2>1, <2>2, <2>3, Basics DEF IInv, MarksHold, Upcoming, After
  <2>4. CASE working.kind = "clear"
    BY <1>1, <1>2, <2>1, <2>2, <2>4, Basics DEF IInv, MarksHold, Upcoming, After
  <2>5. CASE working.kind = "remove"
    BY <1>1, <1>2, <2>1, <2>2, <2>5, Basics DEF IInv, MarksHold, Upcoming, After
  <2> QED
    BY <1>2, <2>3, <2>4, <2>5
<1>5. AnsweredIsRemoved'
  <2>1. \A s \in answered : working = RemovePending(s) => working.kind = "remove"
    BY DEF RemovePending
  <2>2. \A s \in answered : records[s] = Nothing => records'[s] = Nothing
    BY <1>1, Basics DEF IInv, TypeOK
  <2> QED
    BY <1>1, <2>1, <2>2, RemovalsRemain DEF CommandFails
<1> QED
  BY <1>3, <1>4, <1>5 DEF IInv

-----------------------------------------------------------------------------
LEMMA StartPreserves == IInv /\ Start => IInv'
<1> SUFFICES ASSUME IInv, Start PROVE IInv'
  OBVIOUS
<1>1. PICK readable \in SUBSET Stored : \E offered \in Offers(readable) : FreshStore(offered)
  BY DEF Start
<1>2. PICK offered \in Offers(readable) : FreshStore(offered)
  BY <1>1
<1>3. /\ offered \in Seq([path : Sessions, content : Contents])
      /\ \A i \in DOMAIN offered : /\ records[offered[i].path] = offered[i].content
                                    /\ records[offered[i].path] # Nothing
      /\ \A i, j \in DOMAIN offered : offered[i].path = offered[j].path => i = j
  BY <1>2, OffersFit DEF IInv
<1>4. /\ running' = "on" /\ session' = session + 1 /\ session' \in Sessions
      /\ Show(Closed) /\ drawing' = FALSE /\ found' = records
      /\ UNCHANGED <<records, changes>>
  BY Basics DEF Start, Sessions
<1>5. /\ pending' = offered /\ channel' = Idle /\ working' = Idle /\ failed' = {}
      /\ queuedRevision' = None /\ clearQueued' = FALSE
      /\ queuedContent' = Nothing /\ answered' = {} /\ reported' = FALSE
  BY <1>2 DEF FreshStore
<1>6. TypeOK'
  <2>1. /\ document' \in Documents
        /\ changes' \in 0..MaxChanges /\ base' \in 0..changes'
    <3>1. changes' \in changes..MaxChanges
      BY <1>4, Basics DEF IInv, TypeOK
    <3> QED
      BY <1>4, <3>1, NextDocuments, ShownTypes
  <2>2. session' \in 0..MaxSessions
    BY <1>4, Basics DEF Sessions
  <2> QED
    BY <1>3, <1>4, <1>5, <2>1, <2>2, Basics DEF IInv, TypeOK
<1>7. OrdersFit' /\ KeptUntilAnswered' /\ MarksHold'
  BY <1>4, <1>5 DEF OrdersFit, OrderFits, KeptUntilAnswered, MarksHold, Idle
<1>8. OffersStand'
  <2>1. ASSUME NEW i \in DOMAIN offered
        PROVE  offered[i].path \in 1..(session' - 1)
    <3>1. offered[i].path \in Sessions
      <4>1. offered[i] \in [path : Sessions, content : Contents]
        <5> DEFINE T == [path : Sessions, content : Contents]
        <5>1. offered \in Seq(T)
          BY <1>3
        <5> HIDE DEF T
        <5>2. i \in 1..Len(offered)
          BY <5>1, <2>1
        <5>3. offered[i] \in T
          BY <5>1, <5>2, ElementOfSeq
        <5> QED
          BY <5>3 DEF T
      <4> QED
        BY <4>1
    <3>2. offered[i].path <= session
      <4> DEFINE path == offered[i].path
      <4>1. path \in Sessions /\ records[path] # Nothing
        BY <1>3, <2>1, <3>1
      <4> HIDE DEF path
      <4>2. ~(path > session)
        BY <4>1 DEF IInv, FutureIsEmpty
      <4>3. path \in Int /\ session \in Int
        BY <4>1, Basics DEF Sessions
      <4>4. path <= session
        BY <4>2, <4>3
      <4> QED
        BY <4>4 DEF path
    <3> QED
      BY <1>4, <3>1, <3>2, Basics DEF Sessions
  <2> QED
    BY <1>3, <1>4, <1>5, <2>1 DEF OffersStand
<1>9. FutureIsEmpty'
  BY <1>4, Basics DEF IInv, FutureIsEmpty, Sessions
<1>10. AnsweredIsRemoved'
  BY <1>5 DEF AnsweredIsRemoved
<1> QED
  BY <1>6, <1>7, <1>8, <1>9, <1>10 DEF IInv

-----------------------------------------------------------------------------
(* The store keeps its books: the whole invariant, at every step. *)
THEOREM BooksAreKept == Spec => []IInv
<1>1. IInv /\ [Next]_vars => IInv'
  <2> SUFFICES ASSUME IInv, [Next]_vars PROVE IInv'
    OBVIOUS
  <2>1. CASE UNCHANGED vars
    <3>1. TypeOK'
      BY <2>1 DEF IInv, TypeOK, vars, disk, store
    <3> QED
      BY <2>1, <3>1, StoreUntouched DEF vars
  <2>2. CASE Next
    BY <2>2, LoadPreserves, ChangePreserves, ChangeBackPreserves, SavedPreserves,
       ClosePreserves, RecoverPreserves, DiscardPendingPreserves,
       SynchronizeProjectPreserves, TakeCommandPreserves, WriteRecordPreserves,
       RemoveRecordPreserves, CommandFailsPreserves, LeavePreserves,
       LeftPreserves, CrashPreserves, StartPreserves DEF Next
  <2> QED
    BY <2>1, <2>2
<1> QED
  BY <1>1, InitEstablishes, PTL DEF Spec

(* Types of the store, its worker and the document. *)
THEOREM TypeCorrect == Spec => []TypeOK
<1>1. IInv => TypeOK
  BY DEF IInv
<1> QED
  BY <1>1, BooksAreKept, PTL

(* The marks that keep a frame from queueing again tell the truth about the   *)
(* record: synchronize_project and poll_results against the worker.           *)
THEOREM MarksNeverLie == Spec => []MarksAreTrue
<1>1. IInv => MarksAreTrue
  BY DEF IInv, MarksHold, MarksAreTrue
<1> QED
  BY <1>1, BooksAreKept, PTL

(* No record of an earlier session is lost before the user has decided about  *)
(* it: queue_clear and the worker remove no other.                            *)
THEOREM RecordsOutliveSessions == Spec => []KeptUntilAnswered
<1>1. IInv => KeptUntilAnswered
  BY DEF IInv
<1> QED
  BY <1>1, BooksAreKept, PTL

(* A record the user decided about is removed or about to be, or an error is  *)
(* shown: queue_clear loses no removal to a full channel or to an exit.       *)
THEOREM AnswersAreKept == Spec => []AnsweredIsRemoved
<1>1. IInv => AnsweredIsRemoved
  BY DEF IInv
<1> QED
  BY <1>1, BooksAreKept, PTL

(* The prompt shows what the record on disk holds. *)
THEOREM OffersAreCurrent == Spec => []OfferIsCurrent
<1>1. IInv => OfferIsCurrent
  BY DEF IInv, OffersStand, OfferIsCurrent
<1> QED
  BY <1>1, BooksAreKept, PTL
=============================================================================
