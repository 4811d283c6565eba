---------------------------- MODULE Level2Client ----------------------------
(***************************************************************************)
(* pushing/client.go: how one client follows the level-2 view of one       *)
(* product.  The applier of order_book_stream.go numbers the changes,      *)
(* keeps a recent snapshot where every client finds it, and publishes the  *)
(* changes to the queue of the client; the writer of the client passes     *)
(* them on to its level-2 writer, which answers with a snapshot and with   *)
(* updates put into the same queue, for the writer to write to the peer.   *)
(*                                                                         *)
(* A level is told by the number of the change that gave it its size, or   *)
(* by 0 when nothing rests there.  The queue of changes is one for all the *)
(* products of the client: entries of another product are seen only in the *)
(* tests of its length.  The queues (256 messages, 512 changes) are longer *)
(* than what is put into them here.                                        *)
(***************************************************************************)
EXTENDS Integers, Sequences, FiniteSets, FiniteSetsExt, SequencesExt

CONSTANTS
    Levels,         \* price levels of the product, on both sides
    Better,         \* <<m, l>>: m comes before l on their side of the book
    SnapshotLevels, \* levels of a side in a snapshot at most (1000)
    SnapshotLag,    \* changes after which the applier renews its snapshot (10)
    BatchMax,       \* changes in an update at most (10)
    MaxChanges,     \* bound: changes of the book
    Courses,        \* bound: the changes the book may go through
    MaxRequests,    \* bound: requests of the client
    MaxOthers       \* bound: entries of other products in l2ChangeCh

\* What a change does to the book: the level it sets, and whether it leaves
\* anything there.
Changed == [level : Levels, left : BOOLEAN]

ASSUME Level2Assumption ==
    /\ SnapshotLevels \in Nat
    /\ SnapshotLag \in Nat /\ BatchMax \in Nat \ {0}
    /\ MaxChanges \in Nat /\ MaxRequests \in Nat /\ MaxOthers \in Nat
    /\ Courses \subseteq [1 .. MaxChanges -> Changed]

VARIABLES
    touches,    \* what each change does
    seq,        \* number of the last change of the mirrored book
    saved,      \* number of the last level-2 snapshot, or None
    publishing, \* the applier has a change to publish
    subscribed, \* the hub knows the client
    requests,   \* requests so far
    reader,     \* runReader: "idle", "subscribed" (looks at l2ChangeCh) or
                \* "marking" (found it empty)
    passedOver, \* auxiliary: its last look found only other products' entries
    others,     \* entries of other products so far
    writeCh,    \* changes, snapshots and updates for the writer
    l2ChangeCh, \* numbers of changes; 0 asks for a snapshot; Other
    l2Writer,   \* runL2ChangeWriter: "reading", or "marking"
    state,      \* its state for the product
    view,       \* what the peer has made of what was written to it, and, as
                \* an auxiliary, the number of the snapshot it began with
    mixed       \* auxiliary: a snapshot was sent while changes were held back

marketVars == <<touches, others>>
applierVars == <<seq, saved, publishing>>
readerVars == <<subscribed, requests, reader, passedOver>>
l2Vars == <<l2Writer, state, mixed>>
vars == <<marketVars, applierVars, readerVars, writeCh, l2ChangeCh, l2Vars, view>>

None == -1
Other == -2
Blank == [seq |-> None]

\* The last change of a level among the first n; 0: never changed.
LastChange(n, l) == Max({0} \cup {i \in 1 .. n : touches[i].level = l})

\* What stands at a level after change i set it.
SizeOf(i) == IF i # 0 /\ touches[i].left THEN i ELSE 0

BookAt(n) == [l \in Levels |-> SizeOf(LastChange(n, l))]

\* The levels a snapshot of n has no room for.
CutOff(n, l) ==
    Cardinality({m \in Levels : <<m, l>> \in Better /\ BookAt(n)[m] # 0})
        >= SnapshotLevels

SnapshotAt(n) == [l \in Levels |-> IF CutOff(n, l) THEN 0 ELSE BookAt(n)[l]]

ChangeMessage(n) == [kind |-> "change", seq |-> n]
Snapshot(n) == [kind |-> "snapshot", seq |-> n]
Update(changes) == [kind |-> "update", changes |-> changes]

Init ==
    /\ touches \in Courses
    /\ \A n \in 1 .. MaxChanges :   \* only what is there can be taken away
          touches[n].left \/ BookAt(n - 1)[touches[n].level] # 0
    /\ seq = 0 /\ saved = None /\ publishing = FALSE
    /\ subscribed = FALSE /\ requests = 0 /\ reader = "idle"
    /\ passedOver = FALSE /\ others = 0
    /\ writeCh = << >> /\ l2ChangeCh = << >>
    /\ l2Writer = "reading"
    /\ state = [resendSnapshot |-> TRUE, changes |-> << >>, lastSeq |-> 0]
    /\ view = Blank
    /\ mixed = FALSE

-----------------------------------------------------------------------------
(* The applier: a log changes the book, the snapshot is renewed if it lags, *)
(* and then the change is published to whoever has subscribed by then.      *)

ChangeBook ==
    /\ ~publishing
    /\ seq < MaxChanges
    /\ seq' = seq + 1
    /\ saved' = IF saved = None \/ seq' - saved > SnapshotLag THEN seq' ELSE saved
    /\ publishing' = TRUE
    /\ UNCHANGED <<marketVars, readerVars, writeCh, l2ChangeCh, l2Vars, view>>

Publish ==
    /\ publishing
    /\ publishing' = FALSE
    /\ writeCh' = IF subscribed THEN Append(writeCh, ChangeMessage(seq)) ELSE writeCh
    /\ UNCHANGED <<marketVars, seq, saved, readerVars, l2ChangeCh, l2Vars, view>>

\* No log has come for 200 milliseconds.
RenewSnapshot ==
    /\ ~publishing
    /\ saved < seq
    /\ saved' = seq
    /\ UNCHANGED <<marketVars, seq, publishing, readerVars, writeCh, l2ChangeCh,
                   l2Vars, view>>

-----------------------------------------------------------------------------
(* runReader: onSub and onUnSub for the level-2 channel. *)

Subscribe ==
    /\ reader = "idle"
    /\ requests < MaxRequests
    /\ requests' = requests + 1
    /\ ~subscribed
    /\ subscribed' = TRUE
    /\ reader' = "subscribed"
    /\ passedOver' = FALSE
    /\ UNCHANGED <<marketVars, applierVars, writeCh, l2ChangeCh, l2Vars, view>>

\* Nothing in the queue is about this product.
OnlyOthers == l2ChangeCh # << >> /\ \A k \in DOMAIN l2ChangeCh : l2ChangeCh[k] = Other

\* Variant: the reader never asks for a snapshot.
LookAtQueueOnly ==
    /\ reader = "subscribed"
    /\ reader' = "idle"
    /\ passedOver' = OnlyOthers
    /\ UNCHANGED <<marketVars, applierVars, subscribed, requests, writeCh,
                   l2ChangeCh, l2Vars, view>>

\* The reader looks at the queue of changes ...
LookAtQueue ==
    /\ reader = "subscribed"
    /\ reader' = IF l2ChangeCh = << >> THEN "marking" ELSE "idle"
    /\ passedOver' = OnlyOthers
    /\ UNCHANGED <<marketVars, applierVars, subscribed, requests, writeCh,
                   l2ChangeCh, l2Vars, view>>

\* ... and asks for a snapshot, by which time it need not be empty any more.
AskForSnapshot ==
    /\ reader = "marking"
    /\ reader' = "idle"
    /\ l2ChangeCh' = Append(l2ChangeCh, 0)
    /\ UNCHANGED <<marketVars, applierVars, subscribed, requests, passedOver, writeCh,
                   l2Vars, view>>

Unsubscribe ==
    /\ reader = "idle"
    /\ requests < MaxRequests
    /\ requests' = requests + 1
    /\ subscribed
    /\ subscribed' = FALSE
    /\ UNCHANGED <<marketVars, applierVars, reader, passedOver, writeCh, l2ChangeCh,
                   l2Vars, view>>

-----------------------------------------------------------------------------
(* Another product of the client: a change of its own forwarded to the queue, *)
(* or a snapshot asked for.                                                   *)

OtherProduct ==
    /\ others < MaxOthers
    /\ others' = others + 1
    /\ l2ChangeCh' = Append(l2ChangeCh, Other)
    /\ UNCHANGED <<touches, applierVars, readerVars, writeCh, l2Vars, view>>

-----------------------------------------------------------------------------
(* runWriter *)

ForwardChange ==
    /\ writeCh # << >>
    /\ Head(writeCh).kind = "change"
    /\ l2ChangeCh' = Append(l2ChangeCh, Head(writeCh).seq)
    /\ writeCh' = Tail(writeCh)
    /\ UNCHANGED <<marketVars, applierVars, readerVars, l2Vars, view>>

\* The levels after changes are put over them one by one: the last one put on
\* a level stays.
PutOver(levels, changes) ==
    [l \in Levels |->
       LET mine == {k \in DOMAIN changes : touches[changes[k]].level = l}
       IN  IF mine = {} THEN levels[l] ELSE SizeOf(changes[Max(mine)])]

\* The message reaches the peer, which puts the changes of an update over the
\* levels it has.
WriteToPeer ==
    /\ writeCh # << >>
    /\ Head(writeCh).kind # "change"
    /\ LET message == Head(writeCh)
       IN  view' =
             IF message.kind = "snapshot"
             THEN [seq |-> message.seq, from |-> message.seq,
                   levels |-> SnapshotAt(message.seq)]
             ELSE [seq |-> Last(message.changes), from |-> view.from,
                   levels |-> PutOver(view.levels, message.changes)]
    /\ writeCh' = Tail(writeCh)
    /\ UNCHANGED <<marketVars, applierVars, readerVars, l2ChangeCh, l2Vars>>

-----------------------------------------------------------------------------
(* runL2ChangeWriter *)

\* Take the next change; the conditions below follow the order of the code.
Take(n) ==
    /\ l2Writer = "reading"
    /\ l2ChangeCh # << >>
    /\ n = Head(l2ChangeCh)
    /\ l2ChangeCh' = Tail(l2ChangeCh)

\* An entry of another product is that product's affair.
TakeOther ==
    /\ Take(Other)
    /\ UNCHANGED <<marketVars, applierVars, readerVars, writeCh, l2Vars, view>>

WantsSnapshot(n) == state.resendSnapshot \/ n = 0

\* Variant: an old snapshot will do.
UsableAny == saved # None

\* Variant: only a snapshot newer than what was sent will do.
UsableNewer == saved # None /\ state.lastSeq < saved

Usable == saved # None /\ state.lastSeq <= saved

\* Without a snapshot, or with one that is too old, the change is dropped.
WaitForSnapshot(n) ==
    /\ Take(n)
    /\ WantsSnapshot(n)
    /\ ~Usable
    /\ UNCHANGED <<marketVars, applierVars, readerVars, writeCh, l2Vars, view>>

SendSnapshot(n) ==
    /\ Take(n)
    /\ WantsSnapshot(n)
    /\ Usable
    /\ state' = [state EXCEPT !.lastSeq = saved, !.resendSnapshot = FALSE]
    /\ writeCh' = Append(writeCh, Snapshot(saved))
    /\ mixed' = (mixed \/ state.changes # << >>)
    /\ UNCHANGED <<marketVars, applierVars, readerVars, l2Writer, view>>

DropOld(n) ==
    /\ Take(n)
    /\ ~WantsSnapshot(n)
    /\ n <= state.lastSeq
    /\ UNCHANGED <<marketVars, applierVars, readerVars, writeCh, l2Vars, view>>

\* Variant: one missing change goes unnoticed.
FollowsLoosely(n) == n \in {state.lastSeq + 1, state.lastSeq + 2}

Follows(n) == n = state.lastSeq + 1

\* A change is missing: the next one will bring a snapshot, and if none is
\* waiting the writer puts one into its own queue.
NoticeGap(n) ==
    /\ Take(n)
    /\ ~WantsSnapshot(n)
    /\ n > state.lastSeq
    /\ ~Follows(n)
    /\ state' = [resendSnapshot |-> TRUE, changes |-> << >>, lastSeq |-> n]
    /\ l2Writer' = IF l2ChangeCh' = << >> THEN "marking" ELSE "reading"
    /\ UNCHANGED <<marketVars, applierVars, readerVars, writeCh, mixed, view>>

AskAgain ==
    /\ l2Writer = "marking"
    /\ l2Writer' = "reading"
    /\ l2ChangeCh' = Append(l2ChangeCh, 0)
    /\ UNCHANGED <<marketVars, applierVars, readerVars, writeCh, state, mixed, view>>

\* More changes are waiting, and there is room in the update.
HoldsBack(changes) == l2ChangeCh' # << >> /\ Len(changes) < BatchMax

\* Variant: the number of the change is not kept.
SendUpdateForgetful(n) ==
    /\ Take(n)
    /\ ~WantsSnapshot(n)
    /\ Follows(n)
    /\ LET changes == Append(state.changes, n)
       IN  IF HoldsBack(changes)
           THEN /\ state' = [state EXCEPT !.lastSeq = n, !.changes = changes]
                /\ UNCHANGED writeCh
           ELSE /\ state' = [state EXCEPT !.lastSeq = n + 1, !.changes = << >>]
                /\ writeCh' = Append(writeCh, Update(changes))
    /\ UNCHANGED <<marketVars, applierVars, readerVars, l2Writer, mixed, view>>

SendUpdate(n) ==
    /\ Take(n)
    /\ ~WantsSnapshot(n)
    /\ Follows(n)
    /\ LET changes == Append(state.changes, n)
       IN  IF HoldsBack(changes)
           THEN /\ state' = [state EXCEPT !.lastSeq = n, !.changes = changes]
                /\ UNCHANGED writeCh
           ELSE /\ state' = [state EXCEPT !.lastSeq = n, !.changes = << >>]
                /\ writeCh' = Append(writeCh, Update(changes))
    /\ UNCHANGED <<marketVars, applierVars, readerVars, l2Writer, mixed, view>>

\* Nothing is left to do, and the bounded environment asks for nothing more.
Over ==
    /\ seq = MaxChanges /\ saved = seq /\ ~publishing
    /\ requests = MaxRequests /\ reader = "idle" /\ others = MaxOthers
    /\ writeCh = << >> /\ l2ChangeCh = << >> /\ l2Writer = "reading"
    /\ UNCHANGED vars

L2Step ==
    \/ AskAgain
    \/ TakeOther
    \/ \E n \in 0 .. MaxChanges :
          \/ WaitForSnapshot(n) \/ SendSnapshot(n)
          \/ DropOld(n) \/ NoticeGap(n) \/ SendUpdate(n)

WriterStep == ForwardChange \/ WriteToPeer
ReaderStep == LookAtQueue \/ AskForSnapshot

Next ==
    \/ ChangeBook \/ Publish \/ RenewSnapshot
    \/ Subscribe \/ Unsubscribe \/ ReaderStep
    \/ OtherProduct
    \/ WriterStep
    \/ L2Step
    \/ Over

Spec == Init /\ [][Next]_vars

\* Each goroutine of the client goes on while it can; so does a publication.
\* Nothing is assumed of the market or of the requests.
FairSpec ==
    /\ Spec
    /\ WF_vars(Publish)
    /\ WF_vars(ReaderStep)
    /\ WF_vars(WriterStep)
    /\ WF_vars(L2Step)

-----------------------------------------------------------------------------
(* Properties. *)

\* The book as of n for a peer that began with the snapshot of s: a level the
\* snapshot had no room for is missing until it changes.
ViewAt(s, n) ==
    [l \in Levels |->
       IF LastChange(n, l) <= s /\ CutOff(s, l) THEN 0 ELSE BookAt(n)[l]]

\* What the peer sees is the book as it was at the number the view has come
\* to, with no change missing and none put over a newer one, but for the levels
\* its snapshot had no room for, as long as no snapshot was sent between
\* changes that were held back.
ViewExact ==
    view # Blank /\ ~mixed => view.levels = ViewAt(view.from, view.seq)

\* The peer is never taken back to an earlier book.
ViewMovesForward == [][view'.seq >= view.seq]_vars

\* When nothing is on its way, the peer has exactly what the level-2 writer
\* believes it has, unless the writer waits for a snapshot, or for the rest
\* of an update.
QuietViewIsLast ==
    writeCh = << >> /\ ~state.resendSnapshot /\ state.changes = << >> =>
        view.seq = state.lastSeq

\* A client that subscribes when there is a snapshot gets a view in the end,
\* whether it asks for one or finds changes of an earlier subscription queued,
\* unless what it found in the queue was all of other products.
SubscriberGetsView ==
    reader = "subscribed" /\ saved # None ~> view # Blank \/ passedOver

\* The queue asks for a snapshot: explicitly, or by a change that comes when
\* one is to be sent again.
AsksForSnapshot ==
    \E k \in DOMAIN l2ChangeCh :
        l2ChangeCh[k] = 0 \/ (l2ChangeCh[k] # Other /\ state.resendSnapshot)

\* Whatever asks for a snapshot, at a first subscription, a later one or after
\* a gap, brings the peer at least to the one there was, unless that is older
\* than a change that was lost, or the newer changes are held back.
SnapshotAskedForComes ==
    \A n \in 0 .. MaxChanges :
        AsksForSnapshot /\ saved = n ~>
            \/ view.seq >= n
            \/ state.resendSnapshot /\ state.lastSeq > n
            \/ state.changes # << >>

\* "Changes numbered below the snapshot are discarded": an update queued after
\* a snapshot brings only newer changes.
NoOldChanges ==
    \A i, j \in DOMAIN writeCh :
        i < j /\ writeCh[i].kind = "snapshot" /\ writeCh[j].kind = "update" =>
            \A k \in DOMAIN writeCh[j].changes :
                writeCh[j].changes[k] > writeCh[i].seq

=============================================================================
