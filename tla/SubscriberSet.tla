--------------------------- MODULE SubscriberSet ---------------------------
(***************************************************************************)
(* The registry behind every observer, event listener, release listener   *)
(* and global observer of the application: crates/kael/src/subscription.rs.*)
(*                                                                         *)
(* A SubscriberSet lives behind an Rc<RefCell<..>>, on one thread.  What   *)
(* makes it hard is re-entrancy: `retain' takes the subscribers of an      *)
(* emitter out of the map, calls their callbacks one by one with the       *)
(* RefCell released, and puts them back.  A callback may insert, activate, *)
(* drop, detach, remove, or call `retain' again while that is going on, so *)
(* the calls in progress are a stack of frames and every operation of the  *)
(* user is possible at each callback.                                      *)
(*                                                                         *)
(* The value of `subscribers' at a key is, in the code, absent, None (a    *)
(* retain took it) or Some(map).  Some of an empty map never persists, so  *)
(* an entry is given by two variables: `taken', the keys whose value is    *)
(* None, and `registered', the ids in Some(map); a key that is not taken   *)
(* and has no ids is absent.                                               *)
(***************************************************************************)
EXTENDS Naturals, Sequences, FiniteSets

CONSTANTS
    Keys,             \* emitter keys
    MaxSubscribers,   \* bound: subscriptions ever inserted
    MaxDepth          \* bound: calls of retain nested in each other

ASSUME SubscriberSetAssumption ==
    /\ Keys # {}
    /\ MaxSubscribers \in Nat
    /\ MaxDepth \in Nat

VARIABLES
    registered,           \* key -> ids in the map, for Some(map)
    taken,                \* keys whose map a retain holds (None)
    dropped_subscribers,  \* <<key, id>> dropped while the key was taken
    next_subscriber_id,
    active,               \* ids whose `active' cell is set
    handle,               \* id -> what became of its Subscription
    emitter_key,          \* id -> the key captured by its unsubscribe closure
    cancelled,            \* ids whose callback returned false or that `remove' handed out
    frames,               \* the calls of retain in progress, innermost last
    reentered             \* history: a callback dispatched, or inserted for or removed
                          \* the emitter being dispatched

vars == <<registered, taken, dropped_subscribers, next_subscriber_id, active,
          handle, emitter_key, cancelled, frames, reentered>>

Ids == 0 .. MaxSubscribers - 1

\* The local variables of a call of retain: the subscribers it took, split
\* into those not visited yet, the one whose callback runs, and those kept.
Frame == [emitter : Keys, todo : SUBSET Ids, running : SUBSET Ids, kept : SUBSET Ids]

TypeOK ==
    /\ registered \in [Keys -> SUBSET Ids]
    /\ taken \in SUBSET Keys
    /\ dropped_subscribers \in SUBSET (Keys \X Ids)
    /\ next_subscriber_id \in 0 .. MaxSubscribers
    /\ active \in SUBSET Ids
    /\ handle \in [Ids -> {"none", "held", "dropped", "detached"}]
    /\ emitter_key \in [Ids -> Keys]
    /\ cancelled \in SUBSET Ids
    /\ frames \in Seq(Frame)
    /\ reentered \in BOOLEAN

Init ==
    /\ registered = [k \in Keys |-> {}]
    /\ taken = {}
    /\ dropped_subscribers = {}
    /\ next_subscriber_id = 0
    /\ active = {}
    /\ handle = [i \in Ids |-> "none"]
    /\ emitter_key \in [Ids -> {CHOOSE k \in Keys : TRUE}]
    /\ cancelled = {}
    /\ frames = <<>>
    /\ reentered = FALSE

-----------------------------------------------------------------------------
Top == frames[Len(frames)]
Caller == SubSeq(frames, 1, Len(frames) - 1)
WithTop(f) == [frames EXCEPT ![Len(frames)] = f]
FramesOf(stack) == {stack[n] : n \in 1 .. Len(stack)}

\* Code of the user runs: outside every dispatch, or in a callback of one.
UserRuns == frames # <<>> => Top.running # {}

\* The emitters for which a call of retain is in progress.
Dispatching == {f.emitter : f \in FramesOf(frames)}

\* The history notes a change of the subscribers of k during its dispatch.
Touches(k) == reentered' = (reentered \/ k \in Dispatching)

\* SubscriberSet::insert
Insert(k) ==
    /\ UserRuns
    /\ Touches(k)
    /\ next_subscriber_id < MaxSubscribers
    /\ registered' = [registered EXCEPT ![k] = @ \cup {next_subscriber_id}]
    /\ taken' = taken \ {k}
    /\ handle' = [handle EXCEPT ![next_subscriber_id] = "held"]
    /\ emitter_key' = [emitter_key EXCEPT ![next_subscriber_id] = k]
    /\ next_subscriber_id' = next_subscriber_id + 1
    /\ UNCHANGED <<dropped_subscribers, active, cancelled, frames>>

\* The closure `insert' returns beside the subscription; it is FnOnce.
Activate(i) ==
    /\ UserRuns
    /\ i < next_subscriber_id
    /\ i \notin active
    /\ active' = active \cup {i}
    /\ UNCHANGED <<registered, taken, dropped_subscribers, next_subscriber_id,
                   handle, emitter_key, cancelled, frames, reentered>>

\* The unsubscribe closure: the key is gone, or its map is there, or a
\* retain holds the map and the id is marked for it.
Unsubscribe(i) ==
    LET k == emitter_key[i] IN
    /\ registered' = [registered EXCEPT ![k] = @ \ {i}]
    /\ dropped_subscribers' = IF k \in taken THEN dropped_subscribers \cup {<<k, i>>}
                                             ELSE dropped_subscribers

\* <Subscription as Drop>::drop
DropSubscription(i) ==
    /\ UserRuns
    /\ handle[i] = "held"
    /\ handle' = [handle EXCEPT ![i] = "dropped"]
    /\ Unsubscribe(i)
    /\ UNCHANGED <<taken, next_subscriber_id, active, emitter_key, cancelled, frames, reentered>>

\* Subscription::detach
Detach(i) ==
    /\ UserRuns
    /\ handle[i] = "held"
    /\ handle' = [handle EXCEPT ![i] = "detached"]
    /\ UNCHANGED <<registered, taken, dropped_subscribers, next_subscriber_id,
                   active, emitter_key, cancelled, frames, reentered>>

\* SubscriberSet::remove: the entry goes, whatever it is; its callbacks are
\* the caller's, and the inert ones are dropped.
Remove(k) ==
    /\ UserRuns
    /\ Touches(k)
    /\ k \in taken \/ registered[k] # {}
    /\ cancelled' = cancelled \cup registered[k]
    /\ registered' = [registered EXCEPT ![k] = {}]
    /\ taken' = taken \ {k}
    /\ UNCHANGED <<dropped_subscribers, next_subscriber_id, active, handle,
                   emitter_key, frames>>

\* SubscriberSet::retain up to its first callback.  A call for a key that is
\* absent or taken returns at once.
RetainBegin(k) ==
    /\ UserRuns
    /\ Len(frames) < MaxDepth
    /\ registered[k] # {}
    /\ frames' = Append(frames, [emitter |-> k, todo |-> registered[k],
                                 running |-> {}, kept |-> {}])
    /\ registered' = [registered EXCEPT ![k] = {}]
    /\ taken' = taken \cup {k}
    /\ reentered' = (reentered \/ frames # <<>>)
    /\ UNCHANGED <<dropped_subscribers, next_subscriber_id, active, handle,
                   emitter_key, cancelled>>

\* The next entry in the order of the BTreeMap: an active one is called, an
\* inert one is kept without a call.
RetainVisit ==
    /\ frames # <<>>
    /\ Top.running = {}
    /\ \E i \in Top.todo :
        /\ \A j \in Top.todo : i <= j
        /\ frames' = WithTop(
             IF i \in active
               THEN [Top EXCEPT !.todo = @ \ {i}, !.running = {i}]
               ELSE [Top EXCEPT !.todo = @ \ {i}, !.kept = @ \cup {i}])
    /\ UNCHANGED <<registered, taken, dropped_subscribers, next_subscriber_id,
                   active, handle, emitter_key, cancelled, reentered>>

\* The callback returns; with false its subscriber is dropped.
CallbackReturns(keep) ==
    /\ frames # <<>>
    /\ Top.running # {}
    /\ frames' = WithTop([Top EXCEPT !.running = {},
                                     !.kept = IF keep THEN @ \cup Top.running ELSE @])
    /\ cancelled' = IF keep THEN cancelled ELSE cancelled \cup Top.running
    /\ UNCHANGED <<registered, taken, dropped_subscribers, next_subscriber_id,
                   active, handle, emitter_key, reentered>>

\* Mutants of PutBack: without those inserted meanwhile, or with those dropped.
PutBackOnlyKept == Top.kept \ {m[2] : m \in dropped_subscribers}
PutBackDropped == Top.kept \cup registered[Top.emitter]

\* What retain puts back: the subscribers it kept and those inserted
\* meanwhile, without every id marked as dropped, of whatever emitter.
PutBack ==
    (Top.kept \cup registered[Top.emitter]) \ {m[2] : m \in dropped_subscribers}

\* Mutants of RetainEnd: the key stays taken when there is nothing to put
\* back, or the marks stay.
RetainEndLeavesTaken ==
    /\ frames # <<>>
    /\ Top.todo = {} /\ Top.running = {}
    /\ registered' = [registered EXCEPT ![Top.emitter] = PutBack]
    /\ taken' = IF PutBack = {} THEN taken ELSE taken \ {Top.emitter}
    /\ dropped_subscribers' = {}
    /\ frames' = Caller
    /\ UNCHANGED <<next_subscriber_id, active, handle, emitter_key, cancelled, reentered>>

RetainEndLeavesMarks ==
    /\ frames # <<>>
    /\ Top.todo = {} /\ Top.running = {}
    /\ registered' = [registered EXCEPT ![Top.emitter] = PutBack]
    /\ taken' = taken \ {Top.emitter}
    /\ frames' = Caller
    /\ UNCHANGED <<dropped_subscribers, next_subscriber_id, active, handle,
                   emitter_key, cancelled, reentered>>

\* The end of retain.
RetainEnd ==
    /\ frames # <<>>
    /\ Top.todo = {} /\ Top.running = {}
    /\ registered' = [registered EXCEPT ![Top.emitter] = PutBack]
    /\ taken' = taken \ {Top.emitter}
    /\ dropped_subscribers' = {}
    /\ frames' = Caller
    /\ UNCHANGED <<next_subscriber_id, active, handle, emitter_key, cancelled, reentered>>

Next ==
    \/ \E k \in Keys : Insert(k) \/ Remove(k) \/ RetainBegin(k)
    \/ \E i \in Ids : Activate(i) \/ DropSubscription(i) \/ Detach(i)
    \/ RetainVisit
    \/ \E keep \in BOOLEAN : CallbackReturns(keep)
    \/ RetainEnd

Spec == Init /\ [][Next]_vars

-----------------------------------------------------------------------------
Members(f) == f.todo \cup f.running \cup f.kept

\* Subscribers the registry still knows: in the map or taken by a retain.
Live ==
    (UNION {registered[k] : k \in Keys}) \cup (UNION {Members(f) : f \in FramesOf(frames)})

\* A key whose map is None belongs to a retain that is going to put the map
\* back.  Otherwise every later `retain' of that emitter would return at once
\* and its observers would never be called again.
TakenOnlyWhileDispatching == taken \subseteq Dispatching

\* The dispatches in progress, the insertions, removals and drops done from
\* their callbacks and the merge at their end never lose a subscriber: as
\* long as its Subscription is held or detached and neither `remove' nor its
\* own callback ended it, the registry has it.
NoSubscriberLost ==
    \A i \in Ids : handle[i] \in {"held", "detached"} /\ i \notin cancelled => i \in Live

\* A mark for a dropped subscription is consumed by the dispatch during
\* which it was made: once no dispatch is in progress there is none left.
MarksConsumed == frames = <<>> => dropped_subscribers = {}

\* When no dispatch is in progress, a dropped subscription is forgotten
\* ("Remove any dropped subscriptions that were dropped while invoking the
\* callback", subscription.rs:144).
DroppedForgotten ==
    frames = <<>> => \A i \in Ids : handle[i] = "dropped" => i \notin Live

\* So it is as long as callbacks dispatch nothing and leave the emitter
\* being dispatched alone but for its Subscriptions: whichever of these they
\* drop, called already, running or yet to be called.
DroppedForgottenInTurn == ~reentered => DroppedForgotten

=============================================================================
