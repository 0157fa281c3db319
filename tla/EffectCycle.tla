---------------------------- MODULE EffectCycle ----------------------------
(***************************************************************************)
(* The update and effect cycle of App: crates/kael/src/app.rs.             *)
(*                                                                         *)
(* The application changes inside App::update, which may be nested.        *)
(* Changes have effects - an entity notifies its observers, a deferred     *)
(* callback - that are queued and applied when the outermost update ends,  *)
(* by flush_effects, which also releases the entities nobody refers to any *)
(* more.  Applying an effect runs code of the user, which updates,         *)
(* notifies, observes and drops in turn; `flushing_effects' keeps these    *)
(* inner updates from flushing again.                                      *)
(*                                                                         *)
(* Two flushes are made without a look at the counters, and leave them     *)
(* alone: that of the shutdown and that of a theme file that was loaded.   *)
(* Handlers of the platform, those of a theme file among them, run code of *)
(* the user outside of any update.                                         *)
(*                                                                         *)
(* The module composes the cycle with the registry of the observers, an    *)
(* instance of SubscriberSet on variables of the same names.  EntityMap    *)
(* models how handles are counted; here an entity is referenced, dropped   *)
(* (its count is zero and take_dropped has not seen it) or released.       *)
(* `call_stack' is the stack of the main thread, down to the calls that    *)
(* matter.  Code of the user that panics does so in an update a handler    *)
(* made, where the code contains it; other panics are left out.            *)
(***************************************************************************)
EXTENDS Naturals, Sequences, FiniteSets

CONSTANTS
    Entities,
    ReleaseListened,  \* the entities somebody listens to the release of
    MaxSubscribers,   \* bound: observers ever inserted
    MaxUpdates,       \* bound: updates in progress at a time
    MaxCalls,         \* bound: calls of notify, observe, defer and inner updates
    CanShutDown,      \* may the platform ask the App to quit?
    Handlers,         \* are there handlers of the platform and theme files?
    CanPanic          \* may code of the user panic below a handler?

ASSUME EffectCycleAssumption ==
    /\ Entities # {} /\ ReleaseListened \subseteq Entities
    /\ MaxSubscribers \in Nat
    /\ MaxUpdates \in Nat /\ MaxCalls \in Nat
    /\ CanShutDown \in BOOLEAN /\ Handlers \in BOOLEAN /\ CanPanic \in BOOLEAN

VARIABLES
    pending_updates, flushing_effects,
    pending_effects, pending_notifications,
    referenced,      \* entities with a strong handle
    dropped,         \* dropped_entity_ids of the entity map
    releasing,       \* taken by release_dropped_entities, not yet processed: of each flush
                     \* in progress, innermost last
    call_stack,      \* calls in progress on the main thread, innermost last
    calls,           \* calls made so far, of those MaxCalls bounds
    has_shut_down,
    owed,            \* history: the observers notified, while active, and not called since
    pass_since,      \* history: the stamps of the notifications being applied, innermost last
    nested,          \* history: has a flush begun inside another?
    panicked         \* history: has a panic cut an update short?

VARIABLES registered, taken, dropped_subscribers, next_subscriber_id, active,
          handle, emitter_key, cancelled, frames, reentered

Observers == INSTANCE SubscriberSet
             WITH Keys <- Entities, MaxDepth <- MaxCalls + 1

observers == <<registered, taken, dropped_subscribers, next_subscriber_id, active,
               handle, emitter_key, cancelled, frames, reentered>>
cycle     == <<pending_updates, flushing_effects>>
effects   == <<pending_effects, pending_notifications>>
ownership == <<referenced, dropped, releasing>>
history   == <<owed, pass_since>>
mishaps   == <<nested, panicked>>
vars == <<cycle, effects, ownership, call_stack, calls, has_shut_down, history, mishaps,
          observers>>

Ids == Observers!Ids
NotifyEffect == [kind : {"notify"}, emitter : Entities, since : 0 .. MaxSubscribers]
Effect == NotifyEffect \cup [kind : {"activate"}, id : Ids] \cup [kind : {"defer"}]
Flushes == {"flush", "shutdown_flush", "theme_flush"}
Call == Flushes \cup {"update", "shutdown", "handler",
                     "notify", "observer", "deferred", "release_listener"}

TypeOK ==
    /\ pending_updates \in 0 .. MaxUpdates
    /\ flushing_effects \in BOOLEAN
    /\ pending_effects \in Seq(Effect)
    /\ pending_notifications \subseteq Entities
    /\ referenced \subseteq Entities /\ dropped \subseteq Entities
    /\ releasing \in Seq(SUBSET Entities)
    /\ call_stack \in Seq(Call)
    /\ calls \in 0 .. MaxCalls
    /\ has_shut_down \in BOOLEAN
    /\ owed \in SUBSET Ids
    /\ pass_since \in Seq(0 .. MaxSubscribers)
    /\ nested \in BOOLEAN /\ panicked \in BOOLEAN
    /\ Observers!TypeOK

Init ==
    /\ pending_updates = 0 /\ flushing_effects = FALSE
    /\ pending_effects = <<>> /\ pending_notifications = {}
    /\ referenced = Entities /\ dropped = {} /\ releasing = <<>>
    /\ call_stack = <<>>
    /\ calls = 0
    /\ has_shut_down = FALSE
    /\ owed = {} /\ pass_since = <<>>
    /\ nested = FALSE /\ panicked = FALSE
    /\ Observers!Init

-----------------------------------------------------------------------------
Running == IF call_stack = <<>> THEN "event loop" ELSE call_stack[Len(call_stack)]
Push(call) == call_stack' = Append(call_stack, call)
Outer == SubSeq(call_stack, 1, Len(call_stack) - 1)
UserRuns == Running \in {"update", "shutdown", "handler", "observer", "deferred", "release_listener"}
Flushing == Running \in Flushes

\* A call of flush_effects replaces the call that makes it; it has a local of
\* its own for what it releases.
BeginFlush(flush) ==
    /\ call_stack' = Append(Outer, flush)
    /\ releasing' = Append(releasing, {})
    /\ nested' = (nested \/ \E n \in 1 .. Len(call_stack) : call_stack[n] \in Flushes)

\* What the innermost flush has still to release
Released == releasing[Len(releasing)]
ReleaseRest(rest) == releasing' = [releasing EXCEPT ![Len(releasing)] = rest]

\* Code of the user makes a call that counts against the bound.
UserCalls == UserRuns /\ calls < MaxCalls /\ calls' = calls + 1

\* App::start_update, from the event loop ...
BeginUpdate ==
    /\ pending_updates < MaxUpdates
    /\ pending_updates' = pending_updates + 1
    /\ Push("update")
    /\ UNCHANGED <<flushing_effects, effects, ownership, has_shut_down, mishaps, history,
                   observers>>

StartUpdate ==
    /\ Running = "event loop" /\ ~has_shut_down
    /\ BeginUpdate
    /\ UNCHANGED calls

\* ... or from code of the user
StartInnerUpdate == UserCalls /\ BeginUpdate

\* The platform calls a handler of the user, or the watcher of a theme file
\* its callbacks, on the borrowed App: no update is in progress.
StartHandler ==
    /\ Handlers
    /\ Running = "event loop" /\ ~has_shut_down
    /\ Push("handler")
    /\ UNCHANGED <<cycle, effects, ownership, calls, has_shut_down, mishaps, history,
                   observers>>

\* App::observe_theme_file calls these callbacks from code of the user.
ObserveThemeFile ==
    /\ Handlers
    /\ UserCalls
    /\ Push("handler")
    /\ UNCHANGED <<cycle, effects, ownership, has_shut_down, mishaps, history, observers>>

\* Mutant of FinishUpdate: every update flushes.
FinishUpdateAlwaysFlushes ==
    /\ Running = "update"
    /\ flushing_effects' = TRUE
    /\ BeginFlush("flush")
    /\ UNCHANGED <<pending_updates, effects, referenced, dropped, calls, has_shut_down,
                   panicked, history, observers>>

\* App::finish_update: the outermost update flushes, unless it runs inside a flush.
FinishUpdate ==
    /\ Running = "update"
    /\ IF ~flushing_effects /\ pending_updates = 1
         THEN /\ flushing_effects' = TRUE
              /\ BeginFlush("flush")
              /\ UNCHANGED pending_updates
         ELSE /\ pending_updates' = pending_updates - 1
              /\ call_stack' = Outer
              /\ UNCHANGED <<flushing_effects, releasing, nested>>
    /\ UNCHANGED <<effects, referenced, dropped, calls, has_shut_down, panicked, history,
                   observers>>

\* Code of the user panics in an update below a callback that contains it:
\* nothing takes back the count of that update.  It unwinds one update at a
\* time, as code in between may contain it, too.
UpdatePanics ==
    /\ CanPanic
    /\ Running = "update"
    /\ \E n \in 1 .. Len(call_stack) :
        /\ call_stack[n] = "handler"
        /\ \A m \in n + 1 .. Len(call_stack) : call_stack[m] = "update"
    /\ call_stack' = Outer
    /\ panicked' = TRUE
    /\ UNCHANGED <<cycle, effects, ownership, calls, has_shut_down, nested, history,
                   observers>>

\* apply_theme_file_change flushes after its callbacks, wherever it runs and
\* whatever the counters say.
ThemeFlush ==
    /\ Running = "handler"
    /\ BeginFlush("theme_flush")
    /\ UNCHANGED <<cycle, effects, referenced, dropped, calls, has_shut_down, panicked,
                   history, observers>>

\* A Notify effect is queued once, by App::notify as by App::push_effect.
PushNotify(e) ==
    IF e \in pending_notifications
      THEN UNCHANGED effects
      ELSE /\ pending_notifications' = pending_notifications \cup {e}
           /\ pending_effects' = Append(pending_effects,
                [kind |-> "notify", emitter |-> e, since |-> next_subscriber_id])

\* App::notify, of an entity no window has drawn, by its id: the entity may
\* be gone.  The history notes which observers have yet to hear of it.
Notify(e) ==
    /\ UserCalls
    /\ PushNotify(e)
    /\ owed' = owed \cup {i \in Observers!Live \cap active : emitter_key[i] = e}
    /\ UNCHANGED <<cycle, ownership, call_stack, has_shut_down, mishaps, pass_since,
                   observers>>

\* Mutant of Observe: the activation goes to the front of the queue.
ObserveActivatesFirst(e) ==
    /\ UserCalls
    /\ e \in referenced
    /\ Observers!Insert(e)
    /\ pending_effects' = <<[kind |-> "activate", id |-> next_subscriber_id]>> \o pending_effects
    /\ UNCHANGED <<cycle, pending_notifications, ownership, call_stack, has_shut_down,
                   mishaps, history>>

\* App::observe: the observer is inert until the deferred activation is applied.
Observe(e) ==
    /\ UserCalls
    /\ e \in referenced
    /\ Observers!Insert(e)
    /\ pending_effects' = Append(pending_effects,
                                 [kind |-> "activate", id |-> next_subscriber_id])
    /\ UNCHANGED <<cycle, pending_notifications, ownership, call_stack, has_shut_down,
                   mishaps, history>>

\* App::defer
Defer ==
    /\ UserCalls
    /\ pending_effects' = Append(pending_effects, [kind |-> "defer"])
    /\ UNCHANGED <<cycle, pending_notifications, ownership, call_stack,
                   has_shut_down, mishaps, history, observers>>

\* The user drops the Subscription of an observer.
DropObserver(i) ==
    /\ UserRuns
    /\ Observers!DropSubscription(i)
    /\ UNCHANGED <<cycle, effects, ownership, call_stack, calls, has_shut_down, mishaps,
                   history>>

\* The user drops the last handle to an entity.
DropEntity(e) ==
    /\ UserRuns
    /\ e \in referenced
    /\ referenced' = referenced \ {e}
    /\ dropped' = dropped \cup {e}
    /\ UNCHANGED <<cycle, effects, releasing, call_stack, calls, has_shut_down, mishaps,
                   history, observers>>

-----------------------------------------------------------------------------
\* Mutant of TakeDropped: the queue is copied, not taken.
TakeDroppedCopies ==
    /\ Flushing
    /\ Released = {} /\ dropped # {}
    /\ ReleaseRest(dropped)
    /\ UNCHANGED <<cycle, effects, referenced, dropped, call_stack, calls, has_shut_down,
                   mishaps, history, observers>>

\* release_dropped_entities takes the queue ...
TakeDropped ==
    /\ Flushing
    /\ Released = {} /\ dropped # {}
    /\ ReleaseRest(dropped) /\ dropped' = {}
    /\ UNCHANGED <<cycle, effects, referenced, call_stack, calls, has_shut_down,
                   mishaps, history, observers>>

\* Mutant of ReleaseEntity: the observers stay.
ReleaseEntityKeepsObservers(e) ==
    /\ Flushing
    /\ e \in Released
    /\ ReleaseRest(Released \ {e})
    /\ IF e \in ReleaseListened THEN Push("release_listener") ELSE UNCHANGED call_stack
    /\ UNCHANGED <<cycle, effects, referenced, dropped, calls, has_shut_down,
                   mishaps, history, observers>>

\* ... and, for each entity in it, removes its observers and runs its
\* release listeners.
ReleaseEntity(e) ==
    /\ Flushing
    /\ e \in Released
    /\ ReleaseRest(Released \ {e})
    /\ IF e \in taken \/ registered[e] # {}
         THEN Observers!Remove(e)
         ELSE UNCHANGED observers
    /\ IF e \in ReleaseListened THEN Push("release_listener") ELSE UNCHANGED call_stack
    /\ UNCHANGED <<cycle, effects, referenced, dropped, calls, has_shut_down, mishaps,
                   history>>

\* flush_effects pops an effect when there is nothing left to release.
PopEffect(kind) ==
    /\ Flushing
    /\ Released = {} /\ dropped = {}
    /\ pending_effects # <<>>
    /\ Head(pending_effects).kind = kind
    /\ pending_effects' = Tail(pending_effects)

\* Mutant of ApplyNotify: the entity stays in the set.
ApplyNotifyStaysPending ==
    /\ PopEffect("notify")
    /\ LET e == Head(pending_effects).emitter IN
       IF registered[e] # {}
         THEN /\ Observers!RetainBegin(e)
              /\ Push("notify")
              /\ pass_since' = Append(pass_since, Head(pending_effects).since)
         ELSE UNCHANGED <<observers, call_stack, pass_since>>
    /\ UNCHANGED <<cycle, pending_notifications, ownership, calls, has_shut_down,
                   mishaps, owed>>

\* apply_notify_effect; SubscriberSet::retain returns at once when the
\* emitter has no observers or is being dispatched already.
ApplyNotify ==
    /\ PopEffect("notify")
    /\ LET e == Head(pending_effects).emitter IN
       /\ pending_notifications' = pending_notifications \ {e}
       /\ IF registered[e] # {}
            THEN /\ Observers!RetainBegin(e)
                 /\ Push("notify")
                 /\ pass_since' = Append(pass_since, Head(pending_effects).since)
            ELSE UNCHANGED <<observers, call_stack, pass_since>>
    /\ UNCHANGED <<cycle, ownership, calls, has_shut_down, mishaps, owed>>

\* apply_defer_effect for the closure of new_observer
ApplyActivate ==
    /\ PopEffect("activate")
    /\ Observers!Activate(Head(pending_effects).id)
    /\ UNCHANGED <<cycle, pending_notifications, ownership, call_stack, calls,
                   has_shut_down, mishaps, history>>

\* apply_defer_effect for a callback of the user
ApplyDefer ==
    /\ PopEffect("defer")
    /\ Push("deferred")
    /\ UNCHANGED <<cycle, pending_notifications, ownership, calls, has_shut_down,
                   mishaps, history, observers>>

\* The dispatch goes on to the next observer.  observe_internal upgrades its
\* weak handle before it calls the user.
VisitObserver ==
    /\ Running = "notify"
    /\ Observers!RetainVisit
    /\ LET callee == frames'[Len(frames)].running IN
       IF callee # {} /\ Observers!Top.emitter \in referenced
         THEN /\ Push("observer")
              /\ owed' = owed \ callee
         ELSE UNCHANGED <<call_stack, owed>>
    /\ UNCHANGED <<cycle, effects, ownership, calls, has_shut_down, mishaps, pass_since>>

\* An observer whose entity cannot be upgraded is removed.
ObserverGone ==
    /\ Running = "notify"
    /\ Observers!CallbackReturns(FALSE)
    /\ UNCHANGED <<cycle, effects, ownership, call_stack, calls, has_shut_down, mishaps,
                   history>>

\* The observer of the user returns: false when the entity it belongs to is gone.
ObserverReturns(keep) ==
    /\ Running = "observer"
    /\ Observers!CallbackReturns(keep)
    /\ call_stack' = Outer
    /\ UNCHANGED <<cycle, effects, ownership, calls, has_shut_down, mishaps, history>>

DispatchEnds ==
    /\ Running = "notify"
    /\ Observers!RetainEnd
    /\ call_stack' = Outer
    /\ pass_since' = SubSeq(pass_since, 1, Len(pass_since) - 1)
    /\ UNCHANGED <<cycle, effects, ownership, calls, has_shut_down, mishaps, owed>>

\* A deferred callback, a release listener or a handler returns; that of a
\* theme file without a flush when the file cannot be read or its callback
\* panicked.
CallbackReturns ==
    /\ Running \in {"deferred", "release_listener", "handler"}
    /\ call_stack' = Outer
    /\ UNCHANGED <<cycle, effects, ownership, calls, has_shut_down, mishaps, history,
                   observers>>

\* flush_effects returns: to finish_update, to the handler of a theme file,
\* which returns at once to whatever called it, or to shutdown.
FlushEnds ==
    /\ Flushing
    /\ Released = {} /\ dropped = {} /\ pending_effects = <<>>
    /\ call_stack' = Outer
    /\ releasing' = SubSeq(releasing, 1, Len(releasing) - 1)
    /\ IF Running = "flush"
         THEN /\ flushing_effects' = FALSE
              /\ pending_updates' = pending_updates - 1
         ELSE UNCHANGED cycle
    /\ has_shut_down' = (has_shut_down \/ Running = "shutdown_flush")
    /\ UNCHANGED <<effects, referenced, dropped, calls, mishaps, history, observers>>

\* App::shutdown, called by the platform outside of any update; the handlers
\* of on_app_quit run first ...
Shutdown ==
    /\ CanShutDown
    /\ Running = "event loop"
    /\ ~has_shut_down
    /\ Push("shutdown")
    /\ UNCHANGED <<cycle, effects, ownership, calls, has_shut_down, mishaps, history,
                   observers>>

\* ... then the windows are dropped, with the handles they held, and the
\* effects are flushed.
ShutdownFlush ==
    /\ Running = "shutdown"
    /\ \E gone \in SUBSET referenced :
        /\ referenced' = referenced \ gone
        /\ dropped' = dropped \cup gone
    /\ BeginFlush("shutdown_flush")
    /\ UNCHANGED <<cycle, effects, calls, has_shut_down, panicked, history, observers>>

-----------------------------------------------------------------------------
UserStep ==
    \/ \E e \in Entities : Notify(e) \/ Observe(e) \/ DropEntity(e)
    \/ \E i \in Ids : DropObserver(i)
    \/ Defer
    \/ StartInnerUpdate \/ ObserveThemeFile

FlushStep ==
    \/ TakeDropped
    \/ \E e \in Entities : ReleaseEntity(e)
    \/ ApplyNotify \/ ApplyActivate \/ ApplyDefer
    \/ VisitObserver \/ ObserverGone \/ DispatchEnds
    \/ FlushEnds

ReturnStep ==
    \/ FinishUpdate \/ UpdatePanics
    \/ \E keep \in BOOLEAN : ObserverReturns(keep)
    \/ CallbackReturns
    \/ ThemeFlush \/ ShutdownFlush

Next == StartUpdate \/ StartHandler \/ Shutdown \/ UserStep \/ FlushStep \/ ReturnStep

Spec == Init /\ [][Next]_vars

\* The flush is a loop of the main thread, and the code of the user that it,
\* an update or the platform calls returns.
Fairness == WF_vars(FlushStep) /\ SF_vars(ReturnStep)
FairSpec == Spec /\ Fairness

-----------------------------------------------------------------------------
\* Nothing is left to do: no effect is queued, nothing waits to be released,
\* the counters are where the next update must find them to flush at its
\* end, no dispatch is in progress, and the released entities have no
\* observers - unless a flush was inside another, when the outer one may
\* put back the observers of an entity the inner one released.
Settled ==
    /\ pending_effects = <<>> /\ dropped = {} /\ releasing = <<>>
    /\ pending_updates = 0 /\ ~flushing_effects
    /\ frames = <<>> /\ taken = {}
    /\ ~nested => \A e \in Entities \ referenced : registered[e] = {}

\* All is settled when an update, a theme file's flush or the shutdown
\* returns to the event loop; handlers may leave effects to the next of
\* these.  A contained panic leaves a count of its update behind.
SettledOnReturn ==
    [][~panicked /\ call_stack # <<>> /\ call_stack' = <<>> /\ Running # "handler"
         => Settled']_vars

Unserved(i) == i \in Observers!Live /\ handle[i] # "dropped" /\ emitter_key[i] \in referenced
Queued(e) ==
    \E n \in 1 .. Len(pending_effects) :
        pending_effects[n].kind = "notify" /\ pending_effects[n].emitter = e

\* Every observer that was active when its entity was notified has been
\* called since, unless it, or the entity, went first, or its notification
\* waits in the queue (app.rs:34714: "Arrange a callback to be invoked when
\* the given entity calls `notify`"): neither the merging of notifications
\* nor one that arrives while the observers are being called is lost.  So it
\* is until a flush begins inside another, which may pop a notification of an
\* entity whose observers the outer one is calling.
ActiveObserversServed ==
    ~nested /\ call_stack = <<>> => \A i \in owed : Unserved(i) => Queued(emitter_key[i])

\* An observer is not called for a notification that was queued before it
\* was inserted: its activation is behind that notification in the queue.
\* A flush inside another may activate it too early.
NotCalledForThePast ==
    ~nested => \A n \in 1 .. Len(frames) : \A i \in frames[n].running : i < pass_since[n]

\* The updates made while effects are applied do not apply others: a flush
\* of an update is never inside another, whatever flushes of theme files and
\* of the shutdown are around it or in it.
OneFlushAtATime ==
    Cardinality({n \in 1 .. Len(call_stack) : call_stack[n] = "flush"}) <= 1

\* Every call returns to the event loop.
UpdatesReturn == (call_stack # <<>>) ~> (call_stack = <<>>)

=============================================================================
