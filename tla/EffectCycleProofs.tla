------------------------- MODULE EffectCycleProofs --------------------------
(***************************************************************************)
(* Proofs about EffectCycle, for any entities, any number of observers and *)
(* updates nested to any depth, with handlers, theme files, contained      *)
(* panics and the shutdown: an update leaves nothing behind, at most one   *)
(* flush of an update runs at a time, and, until a flush begins inside     *)
(* another, no notification of an active observer is lost and none is      *)
(* called for what was notified before it observed.  Every step is a step  *)
(* of the registry of the observers, or leaves it alone.                   *)
(***************************************************************************)
EXTENDS EffectCycle, FiniteSetTheorems, SequenceTheorems, TLAPS

-----------------------------------------------------------------------------
(* Stacks: of calls, of dispatches, of the stamps of notifications.        *)

\* A sequence without its last element.
Popped(s) == SubSeq(s, 1, Len(s) - 1)

\* The elements below the last one stay where they are.
LEMMA StackPop ==
    ASSUME NEW S, NEW s \in Seq(S), s # <<>>
    PROVE  /\ Len(s) \in Nat \ {0} /\ s[Len(s)] \in S
           /\ Popped(s) \in Seq(S) /\ Len(Popped(s)) = Len(s) - 1
           /\ \A n \in 1 .. Len(s) - 1 : Popped(s)[n] = s[n]
<1> DEFINE m == Len(s) - 1
<1>1. Len(s) \in Nat \ {0} /\ s[Len(s)] \in S
  OBVIOUS
<1>2. m \in Int /\ 1 \in Int /\ m >= 0 /\ m - 1 + 1 = m /\ \A n \in 1 .. m : 1 + n - 1 = n
  BY <1>1
<1>3. \A n \in 1 .. m : s[n] \in S
  BY <1>1
<1> HIDE DEF m
<1>4. /\ SubSeq(s, 1, m) \in Seq(S)
      /\ Len(SubSeq(s, 1, m)) = IF 1 <= m THEN m - 1 + 1 ELSE 0
      /\ \A n \in 1 .. m - 1 + 1 : SubSeq(s, 1, m)[n] = s[1 + n - 1]
  BY <1>2, <1>3, SubSeqProperties
<1>5. Len(SubSeq(s, 1, m)) = m /\ \A n \in 1 .. m : SubSeq(s, 1, m)[n] = s[n]
  BY <1>2, <1>4
<1> QED
  BY <1>1, <1>4, <1>5 DEF Popped, m

\* So they do when one is pushed.
LEMMA StackPush ==
    ASSUME NEW S, NEW s \in Seq(S), NEW x \in S
    PROVE  /\ Append(s, x) \in Seq(S) /\ Append(s, x) # <<>>
           /\ Len(s) \in Nat /\ Len(Append(s, x)) = Len(s) + 1
           /\ Append(s, x)[Len(s) + 1] = x
           /\ \A n \in 1 .. Len(s) : Append(s, x)[n] = s[n]
  OBVIOUS

\* The places of a stack where one of some calls is.
Places(s, kinds) == {n \in 1 .. Len(s) : s[n] \in kinds}

\* The places are finitely many.
LEMMA PlacesCount ==
    ASSUME NEW S, NEW s \in Seq(S), NEW kinds
    PROVE  /\ IsFiniteSet(Places(s, kinds)) /\ Cardinality(Places(s, kinds)) \in Nat
           /\ Places(s, kinds) # {} => Cardinality(Places(s, kinds)) > 0
           /\ s = <<>> => Cardinality(Places(s, kinds)) = 0
<1>1. Len(s) \in Nat
  OBVIOUS
<1>2. IsFiniteSet(1 .. Len(s))
  BY <1>1, FS_Interval
<1>3. IsFiniteSet(Places(s, kinds))
  BY <1>2, FS_Subset DEF Places
<1>4. Cardinality(Places(s, kinds)) \in Nat
  BY <1>3, FS_CardinalityType
<1>5. s = <<>> => Places(s, kinds) = {}
  BY DEF Places
<1> QED
  BY <1>3, <1>4, <1>5, FS_EmptySet

\* A push adds at most the new place ...
LEMMA PlacesPush ==
    ASSUME NEW S, NEW s \in Seq(S), NEW x \in S, NEW kinds
    PROVE  Cardinality(Places(Append(s, x), kinds)) =
              Cardinality(Places(s, kinds)) + IF x \in kinds THEN 1 ELSE 0
<1>1. /\ Len(s) \in Nat /\ Len(Append(s, x)) = Len(s) + 1 /\ Append(s, x)[Len(s) + 1] = x
      /\ \A n \in 1 .. Len(s) : Append(s, x)[n] = s[n]
  BY StackPush
<1>2. Places(Append(s, x), kinds) =
        Places(s, kinds) \cup IF x \in kinds THEN {Len(s) + 1} ELSE {}
  BY <1>1 DEF Places
<1>3. Len(s) + 1 \notin Places(s, kinds)
  BY <1>1 DEF Places
<1>4. IsFiniteSet(Places(s, kinds)) /\ Cardinality(Places(s, kinds)) \in Nat
  BY PlacesCount
<1>5. CASE x \in kinds
  BY <1>2, <1>3, <1>4, <1>5, FS_AddElement
<1>6. CASE x \notin kinds
  BY <1>2, <1>4, <1>6
<1> QED
  BY <1>5, <1>6

\* ... and a pop removes at most the last one.
LEMMA PlacesPop ==
    ASSUME NEW S, NEW s \in Seq(S), s # <<>>, NEW kinds
    PROVE  Cardinality(Places(Popped(s), kinds)) =
              Cardinality(Places(s, kinds)) - IF s[Len(s)] \in kinds THEN 1 ELSE 0
<1>1. /\ Len(s) \in Nat \ {0} /\ Popped(s) \in Seq(S) /\ Len(Popped(s)) = Len(s) - 1
      /\ \A n \in 1 .. Len(s) - 1 : Popped(s)[n] = s[n]
  BY StackPop
<1>2. Places(Popped(s), kinds) =
        Places(s, kinds) \ IF s[Len(s)] \in kinds THEN {Len(s)} ELSE {}
  BY <1>1 DEF Places
<1>3. s[Len(s)] \in kinds => Len(s) \in Places(s, kinds)
  BY <1>1 DEF Places
<1>4. IsFiniteSet(Places(s, kinds)) /\ Cardinality(Places(s, kinds)) \in Nat
  BY PlacesCount
<1>5. CASE s[Len(s)] \in kinds
  BY <1>2, <1>3, <1>4, <1>5, FS_RemoveElement
<1>6. CASE s[Len(s)] \notin kinds
  BY <1>2, <1>4, <1>6
<1> QED
  BY <1>5, <1>6

-----------------------------------------------------------------------------
(* The queue of effects.                                                   *)

\* What an effect carries.
LEMMA EffectFields ==
    ASSUME NEW x \in Effect
    PROVE  /\ x.kind = "notify" => x.emitter \in Entities /\ x.since \in 0 .. MaxSubscribers
           /\ x.kind = "activate" => x.id \in Ids
<1>1. CASE x \in NotifyEffect
  BY <1>1 DEF NotifyEffect
<1>2. CASE x \in [kind : {"activate"}, id : Ids]
  BY <1>2
<1>3. CASE x \in [kind : {"defer"}]
  BY <1>3
<1> QED
  BY <1>1, <1>2, <1>3 DEF Effect

\* The effect that is applied leaves the others in their order.
LEMMA EffectPopped ==
    ASSUME TypeOK, NEW kind, PopEffect(kind)
    PROVE  /\ Head(pending_effects) \in Effect /\ Head(pending_effects).kind = kind
           /\ Head(pending_effects) = pending_effects[1]
           /\ pending_effects' \in Seq(Effect)
           /\ Len(pending_effects) \in Nat \ {0}
           /\ Len(pending_effects') = Len(pending_effects) - 1
           /\ \A n \in 1 .. Len(pending_effects') :
                  pending_effects'[n] = pending_effects[n + 1]
<1>1. pending_effects \in Seq(Effect) /\ pending_effects # <<>>
  BY DEF TypeOK, PopEffect
<1> QED
  BY <1>1, HeadTailProperties DEF PopEffect

-----------------------------------------------------------------------------
(* The registry of the observers.                                          *)

\* Every step of the cycle is one of the registry, or leaves it alone.
LEMMA StepsOfRegistry ==
    ASSUME TypeOK, [Next]_vars
    PROVE  [Observers!Next]_Observers!vars
<1> SUFFICES Observers!Next \/ UNCHANGED observers
  BY DEF observers, Observers!vars
<1> USE DEF Observers!Next
<1>1. CASE StartUpdate \/ StartHandler \/ Shutdown
  BY <1>1 DEF StartUpdate, BeginUpdate, StartHandler, Shutdown
<1>2. CASE UserStep
  <2>1. ASSUME NEW e \in Entities, Notify(e) \/ Observe(e) \/ DropEntity(e)
        PROVE  Observers!Next \/ UNCHANGED observers
    BY <2>1 DEF Notify, Observe, DropEntity
  <2>2. ASSUME NEW i \in Ids, DropObserver(i)
        PROVE  Observers!Next \/ UNCHANGED observers
    BY <2>2 DEF DropObserver, Ids
  <2>3. CASE Defer \/ StartInnerUpdate \/ ObserveThemeFile
    BY <2>3 DEF Defer, StartInnerUpdate, BeginUpdate, ObserveThemeFile
  <2> QED
    BY <1>2, <2>1, <2>2, <2>3 DEF UserStep
<1>3. CASE FlushStep
  <2>1. CASE TakeDropped \/ ApplyDefer \/ FlushEnds
    BY <2>1 DEF TakeDropped, ApplyDefer, FlushEnds
  <2>2. ASSUME NEW e \in Entities, ReleaseEntity(e)
        PROVE  Observers!Next \/ UNCHANGED observers
    BY <2>2 DEF ReleaseEntity
  <2>3. CASE ApplyNotify
    <3>1. Head(pending_effects).emitter \in Entities
      BY <2>3, EffectPopped, EffectFields DEF ApplyNotify
    <3> QED
      BY <2>3, <3>1 DEF ApplyNotify
  <2>4. CASE ApplyActivate
    <3>1. Head(pending_effects).id \in Ids
      BY <2>4, EffectPopped, EffectFields DEF ApplyActivate
    <3> QED
      BY <2>4, <3>1 DEF ApplyActivate, Ids
  <2>5. CASE VisitObserver \/ ObserverGone \/ DispatchEnds
    BY <2>5 DEF VisitObserver, ObserverGone, DispatchEnds
  <2> QED
    BY <1>3, <2>1, <2>2, <2>3, <2>4, <2>5 DEF FlushStep
<1>4. CASE ReturnStep
  BY <1>4 DEF ReturnStep, FinishUpdate, UpdatePanics, ObserverReturns, CallbackReturns,
              ThemeFlush, ShutdownFlush
<1>5. CASE UNCHANGED vars
  BY <1>5 DEF vars, observers
<1> QED
  BY <1>1, <1>2, <1>3, <1>4, <1>5 DEF Next

\* The innermost dispatch, those below it, and its replacement.
LEMMA DispatchTop ==
    ASSUME frames \in Seq(Observers!Frame), frames # <<>>
    PROVE  /\ Len(frames) \in Nat \ {0}
           /\ Observers!Top = frames[Len(frames)] /\ Observers!Top \in Observers!Frame
           /\ Observers!Caller = Popped(frames)
           /\ \A f \in Observers!Frame :
                /\ Observers!WithTop(f) \in Seq(Observers!Frame)
                /\ Len(Observers!WithTop(f)) = Len(frames)
                /\ Observers!WithTop(f)[Len(frames)] = f
                /\ \A n \in 1 .. Len(frames) - 1 : Observers!WithTop(f)[n] = frames[n]
<1>1. Len(frames) \in Nat \ {0} /\ Len(frames) \in 1 .. Len(frames)
  OBVIOUS
<1>2. Observers!Top = frames[Len(frames)] /\ Observers!Top \in Observers!Frame
  BY <1>1 DEF Observers!Top
<1>3. Observers!Caller = Popped(frames)
  BY DEF Observers!Caller, Popped
<1>4. ASSUME NEW f \in Observers!Frame
      PROVE  /\ Observers!WithTop(f) \in Seq(Observers!Frame)
             /\ Len(Observers!WithTop(f)) = Len(frames)
             /\ Observers!WithTop(f)[Len(frames)] = f
             /\ \A n \in 1 .. Len(frames) - 1 : Observers!WithTop(f)[n] = frames[n]
  BY <1>1 DEF Observers!WithTop
<1> QED
  BY <1>1, <1>2, <1>3, <1>4

\* What a visit does to the innermost dispatch: the subscriber it is about
\* leaves those to do, and is called if it is active.
LEMMA Visited ==
    ASSUME Observers!TypeOK, Observers!RetainVisit
    PROVE  /\ frames # <<>> /\ Observers!Top.running = {}
           /\ frames' \in Seq(Observers!Frame) /\ Len(frames') = Len(frames)
           /\ \A n \in 1 .. Len(frames) - 1 : frames'[n] = frames[n]
           /\ \E i \in Observers!Top.todo :
                LET f == frames'[Len(frames)] IN
                /\ i \in Ids
                /\ f.emitter = Observers!Top.emitter /\ f.todo = Observers!Top.todo \ {i}
                /\ i \in active => f.running = {i} /\ f.kept = Observers!Top.kept
                /\ i \notin active =>
                        f.running = {} /\ f.kept = Observers!Top.kept \cup {i}
<1>1. frames # <<>> /\ Observers!Top.running = {}
  BY DEF Observers!RetainVisit
<1>2. Observers!Top \in Observers!Frame
  BY <1>1, DispatchTop DEF Observers!TypeOK
<1>3. PICK i \in Observers!Top.todo : frames' = Observers!WithTop(
             IF i \in active
               THEN [Observers!Top EXCEPT !.todo = @ \ {i}, !.running = {i}]
               ELSE [Observers!Top EXCEPT !.todo = @ \ {i}, !.kept = @ \cup {i}])
  BY DEF Observers!RetainVisit
<1> DEFINE f == IF i \in active
               THEN [Observers!Top EXCEPT !.todo = @ \ {i}, !.running = {i}]
               ELSE [Observers!Top EXCEPT !.todo = @ \ {i}, !.kept = @ \cup {i}]
<1>4. i \in Ids
  BY <1>2 DEF Observers!Frame, Ids
<1>5. CASE i \in active
  <2>1. /\ f \in Observers!Frame /\ f.emitter = Observers!Top.emitter
        /\ f.todo = Observers!Top.todo \ {i} /\ f.running = {i}
        /\ f.kept = Observers!Top.kept
    BY <1>2, <1>4, <1>5 DEF Observers!Frame, Ids
  <2> HIDE DEF f
  <2> QED
    BY <1>1, <1>3, <1>4, <1>5, <2>1, DispatchTop DEF Observers!TypeOK, f
<1>6. CASE i \notin active
  <2>1. /\ f \in Observers!Frame /\ f.emitter = Observers!Top.emitter
        /\ f.todo = Observers!Top.todo \ {i} /\ f.running = {}
        /\ f.kept = Observers!Top.kept \cup {i}
    BY <1>1, <1>2, <1>4, <1>6 DEF Observers!Frame, Ids
  <2> HIDE DEF f
  <2> QED
    BY <1>1, <1>3, <1>4, <1>6, <2>1, DispatchTop DEF Observers!TypeOK, f
<1> QED
  BY <1>5, <1>6

\* What the return of a callback does to it: the subscriber is kept or not.
LEMMA Returned ==
    ASSUME Observers!TypeOK, NEW keep \in BOOLEAN, Observers!CallbackReturns(keep)
    PROVE  /\ frames # <<>>
           /\ frames' \in Seq(Observers!Frame) /\ Len(frames') = Len(frames)
           /\ \A n \in 1 .. Len(frames) - 1 : frames'[n] = frames[n]
           /\ LET f == frames'[Len(frames)] IN
                /\ f.emitter = Observers!Top.emitter /\ f.todo = Observers!Top.todo
                /\ f.running = {}
                /\ f.kept \subseteq Observers!Top.kept \cup Observers!Top.running
           /\ cancelled' \subseteq Ids
<1> DEFINE f == [Observers!Top EXCEPT !.running = {},
                    !.kept = IF keep THEN @ \cup Observers!Top.running ELSE @]
<1>1. frames # <<>> /\ frames' = Observers!WithTop(f)
  BY DEF Observers!CallbackReturns
<1>2. Observers!Top \in Observers!Frame
  BY <1>1, DispatchTop DEF Observers!TypeOK
<1>3. /\ f \in Observers!Frame /\ f.emitter = Observers!Top.emitter
      /\ f.todo = Observers!Top.todo /\ f.running = {}
      /\ f.kept \subseteq Observers!Top.kept \cup Observers!Top.running
  BY <1>2 DEF Observers!Frame
<1>4. cancelled' \subseteq Ids
  BY <1>2 DEF Observers!CallbackReturns, Observers!TypeOK, Observers!Frame, Ids
<1> HIDE DEF f
<1> QED
  BY <1>1, <1>3, <1>4, DispatchTop DEF Observers!TypeOK

\* A dispatch that begins has everything to do.
LEMMA Begun ==
    ASSUME Observers!TypeOK, NEW e \in Entities, Observers!RetainBegin(e)
    PROVE  /\ frames' \in Seq(Observers!Frame) /\ Len(frames') = Len(frames) + 1
           /\ Len(frames) \in Nat
           /\ \A n \in 1 .. Len(frames) : frames'[n] = frames[n]
           /\ LET f == frames'[Len(frames) + 1] IN
                f.emitter = e /\ f.todo = registered[e] /\ f.running = {} /\ f.kept = {}
<1> DEFINE f == [emitter |-> e, todo |-> registered[e], running |-> {}, kept |-> {}]
<1>1. /\ f \in Observers!Frame
      /\ f.emitter = e /\ f.todo = registered[e] /\ f.running = {} /\ f.kept = {}
  BY DEF Observers!TypeOK, Observers!Frame
<1>2. frames \in Seq(Observers!Frame) /\ frames' = Append(frames, f)
  BY DEF Observers!TypeOK, Observers!RetainBegin
<1> HIDE DEF f
<1>3. /\ frames' \in Seq(Observers!Frame) /\ Len(frames') = Len(frames) + 1
      /\ Len(frames) \in Nat /\ frames'[Len(frames) + 1] = f
      /\ \A n \in 1 .. Len(frames) : frames'[n] = frames[n]
  BY <1>1, <1>2, StackPush
<1> QED
  BY <1>1, <1>3

\* A dispatch that ends leaves its callers as they were, and puts back what
\* it kept and what was inserted.
LEMMA Ended ==
    ASSUME Observers!TypeOK, Observers!RetainEnd
    PROVE  /\ frames # <<>> /\ Len(frames) \in Nat \ {0}
           /\ frames' \in Seq(Observers!Frame) /\ Len(frames') = Len(frames) - 1
           /\ \A n \in 1 .. Len(frames) - 1 : frames'[n] = frames[n]
           /\ Observers!Top \in Observers!Frame /\ Observers!Top = frames[Len(frames)]
           /\ Observers!Top.todo = {} /\ Observers!Top.running = {}
           /\ Observers!PutBack \subseteq
                Observers!Top.kept \cup registered[Observers!Top.emitter]
<1>1. frames # <<>> /\ frames' = Observers!Caller
      /\ Observers!Top.todo = {} /\ Observers!Top.running = {}
  BY DEF Observers!RetainEnd
<1>2. frames \in Seq(Observers!Frame)
  BY DEF Observers!TypeOK
<1>3. /\ Popped(frames) \in Seq(Observers!Frame) /\ Len(Popped(frames)) = Len(frames) - 1
      /\ \A n \in 1 .. Len(frames) - 1 : Popped(frames)[n] = frames[n]
  BY <1>1, <1>2, StackPop
<1> QED
  BY <1>1, <1>2, <1>3, DispatchTop DEF Observers!PutBack

\* A subscriber is with its emitter: in the map, or in a dispatch of it.
Placed ==
    /\ \A e \in Entities : \A i \in registered[e] : i < next_subscriber_id /\ emitter_key[i] = e
    /\ \A n \in 1 .. Len(frames) : \A i \in Observers!Members(frames[n]) :
            i < next_subscriber_id /\ emitter_key[i] = frames[n].emitter

\* An emitter is taken by a dispatch of it.
TakenByDispatch == \A e \in taken : \E n \in 1 .. Len(frames) : frames[n].emitter = e

\* Only active observers are called.
CalledAreActive == \A n \in 1 .. Len(frames) : frames[n].running \subseteq active

Registry == Observers!TypeOK /\ Placed /\ TakenByDispatch /\ CalledAreActive

\* The registry keeps its types.
LEMMA RegistryTypes ==
    ASSUME Observers!TypeOK, [Observers!Next]_Observers!vars
    PROVE  Observers!TypeOK'
<1> USE EffectCycleAssumption DEF Observers!TypeOK
<1>1. CASE UNCHANGED Observers!vars
  BY <1>1 DEF Observers!vars
<1>2. ASSUME NEW e \in Entities, Observers!Insert(e) PROVE Observers!TypeOK'
  <2>1. next_subscriber_id \in Observers!Ids /\ next_subscriber_id + 1 \in 0 .. MaxSubscribers
    BY <1>2 DEF Observers!Insert, Observers!Ids
  <2>2. reentered' \in BOOLEAN
    BY <1>2, Zenon DEF Observers!Insert, Observers!Touches
  <2> QED
    BY <1>2, <2>1, <2>2 DEF Observers!Insert
<1>3. ASSUME NEW e \in Entities, Observers!Remove(e) PROVE Observers!TypeOK'
  <2>1. reentered' \in BOOLEAN
    BY <1>3, Zenon DEF Observers!Remove, Observers!Touches
  <2> QED
    BY <1>3, <2>1 DEF Observers!Remove
<1>4. ASSUME NEW e \in Entities, Observers!RetainBegin(e) PROVE Observers!TypeOK'
  <2>1. frames' \in Seq(Observers!Frame)
    BY <1>4, Begun
  <2>2. reentered' \in BOOLEAN
    BY <1>4, Zenon DEF Observers!RetainBegin
  <2> QED
    BY <1>4, <2>1, <2>2 DEF Observers!RetainBegin
<1>5. ASSUME NEW i \in Observers!Ids,
             Observers!Activate(i) \/ Observers!DropSubscription(i) \/ Observers!Detach(i)
      PROVE Observers!TypeOK'
  BY <1>5 DEF Observers!Activate, Observers!DropSubscription, Observers!Detach,
              Observers!Unsubscribe
<1>6. CASE Observers!RetainVisit
  <2>1. frames' \in Seq(Observers!Frame)
    BY <1>6, Visited
  <2> QED
    BY <1>6, <2>1 DEF Observers!RetainVisit
<1>7. ASSUME NEW keep \in BOOLEAN, Observers!CallbackReturns(keep) PROVE Observers!TypeOK'
  <2>1. frames' \in Seq(Observers!Frame) /\ cancelled' \subseteq Observers!Ids
    BY <1>7, Returned DEF Ids
  <2> QED
    BY <1>7, <2>1 DEF Observers!CallbackReturns
<1>8. CASE Observers!RetainEnd
  <2>1. frames' \in Seq(Observers!Frame) /\ Observers!PutBack \subseteq Observers!Ids
    BY <1>8, Ended DEF Observers!Frame
  <2> QED
    BY <1>8, <2>1 DEF Observers!RetainEnd
<1> QED
  BY <1>1, <1>2, <1>3, <1>4, <1>5, <1>6, <1>7, <1>8 DEF Observers!Next

\* No step takes a subscriber away from its emitter.
LEMMA PlacedKept ==
    ASSUME Observers!TypeOK, Placed, [Observers!Next]_Observers!vars
    PROVE  Placed'
<1> USE EffectCycleAssumption DEF Observers!TypeOK, Placed
<1>1. ASSUME UNCHANGED <<next_subscriber_id, emitter_key, frames>>,
             \A e \in Entities : registered'[e] \subseteq registered[e]
      PROVE  Placed'
  BY <1>1
<1>2. ASSUME NEW e \in Entities, Observers!Insert(e) PROVE Placed'
  <2>1. /\ next_subscriber_id \in Observers!Ids /\ next_subscriber_id' = next_subscriber_id + 1
        /\ emitter_key' = [emitter_key EXCEPT ![next_subscriber_id] = e]
        /\ registered' = [registered EXCEPT ![e] = @ \cup {next_subscriber_id}]
        /\ frames' = frames
    BY <1>2 DEF Observers!Insert, Observers!Ids
  <2>2. \A i \in Observers!Ids : i < next_subscriber_id =>
            i < next_subscriber_id' /\ emitter_key'[i] = emitter_key[i]
    BY <2>1 DEF Observers!Ids
  <2>3. \A k \in Entities : \A i \in registered'[k] :
            i < next_subscriber_id' /\ emitter_key'[i] = k
    BY <2>1, <2>2 DEF Observers!Ids
  <2>4. \A n \in 1 .. Len(frames) : Observers!Members(frames[n]) \subseteq Observers!Ids
    <3>1. \A f \in Observers!Frame : Observers!Members(f) \subseteq Observers!Ids
      BY DEF Observers!Frame, Observers!Members
    <3> QED
      BY <3>1
  <2>5. \A n \in 1 .. Len(frames) : \A i \in Observers!Members(frames[n]) :
            i < next_subscriber_id' /\ emitter_key'[i] = frames[n].emitter
    BY <2>1, <2>2, <2>4
  <2> QED
    BY <2>1, <2>3, <2>5
<1>3. ASSUME NEW e \in Entities, Observers!Remove(e) PROVE Placed'
  BY <1>1, <1>3 DEF Observers!Remove
<1>4. ASSUME NEW e \in Entities, Observers!RetainBegin(e) PROVE Placed'
  <2>1. /\ \A n \in 1 .. Len(frames) : frames'[n] = frames[n]
        /\ frames'[Len(frames) + 1].emitter = e
        /\ Observers!Members(frames'[Len(frames) + 1]) = registered[e]
        /\ Len(frames) \in Nat /\ Len(frames') = Len(frames) + 1
    BY <1>4, Begun DEF Observers!Members
  <2>2. /\ UNCHANGED <<next_subscriber_id, emitter_key>>
        /\ \A k \in Entities : registered'[k] \subseteq registered[k]
    BY <1>4 DEF Observers!RetainBegin
  <2>3. \A n \in 1 .. Len(frames') : n \in 1 .. Len(frames) \/ n = Len(frames) + 1
    BY <2>1
  <2> QED
    BY <2>1, <2>2, <2>3
<1>5. ASSUME NEW i \in Observers!Ids,
             Observers!Activate(i) \/ Observers!DropSubscription(i) \/ Observers!Detach(i)
      PROVE Placed'
  BY <1>1, <1>5 DEF Observers!Activate, Observers!DropSubscription, Observers!Detach,
                    Observers!Unsubscribe
<1>6. ASSUME frames # <<>>, Len(frames') = Len(frames),
             UNCHANGED <<registered, next_subscriber_id, emitter_key>>,
             \A n \in 1 .. Len(frames) - 1 : frames'[n] = frames[n],
             frames'[Len(frames)].emitter = Observers!Top.emitter,
             Observers!Members(frames'[Len(frames)]) \subseteq Observers!Members(Observers!Top)
      PROVE  Placed'
  <2>1. Len(frames) \in Nat \ {0} /\ Observers!Top = frames[Len(frames)]
    BY <1>6, DispatchTop
  <2>2. \A n \in 1 .. Len(frames') : n \in 1 .. Len(frames) - 1 \/ n = Len(frames)
    BY <1>6, <2>1
  <2> QED
    BY <1>6, <2>1, <2>2
<1>7. CASE Observers!RetainVisit
  <2>1. Observers!Members(frames'[Len(frames)]) \subseteq Observers!Members(Observers!Top)
    BY <1>7, Visited DEF Observers!Members
  <2> QED
    BY <1>6, <1>7, <2>1, Visited DEF Observers!RetainVisit
<1>8. ASSUME NEW keep \in BOOLEAN, Observers!CallbackReturns(keep) PROVE Placed'
  <2>1. Observers!Members(frames'[Len(frames)]) \subseteq Observers!Members(Observers!Top)
    BY <1>8, Returned DEF Observers!Members
  <2> QED
    BY <1>6, <1>8, <2>1, Returned DEF Observers!CallbackReturns
<1>9. CASE Observers!RetainEnd
  <2>1. /\ UNCHANGED <<next_subscriber_id, emitter_key>>
        /\ registered' = [registered EXCEPT ![Observers!Top.emitter] = Observers!PutBack]
    BY <1>9 DEF Observers!RetainEnd
  <2>2. /\ Len(frames) \in Nat \ {0} /\ Observers!Top = frames[Len(frames)]
        /\ Observers!Top.emitter \in Entities
        /\ Observers!PutBack \subseteq
              Observers!Members(Observers!Top) \cup registered[Observers!Top.emitter]
    BY <1>9, Ended DEF Observers!Members, Observers!Frame
  <2>3. \A i \in Observers!PutBack :
            i < next_subscriber_id /\ emitter_key[i] = Observers!Top.emitter
    BY <2>2
  <2>4. \A n \in 1 .. Len(frames') : n \in 1 .. Len(frames) /\ frames'[n] = frames[n]
    BY <1>9, <2>2, Ended
  <2> QED
    BY <2>1, <2>2, <2>3, <2>4
<1>10. CASE UNCHANGED Observers!vars
  BY <1>1, <1>10 DEF Observers!vars
<1> QED
  BY <1>2, <1>3, <1>4, <1>5, <1>7, <1>8, <1>9, <1>10 DEF Observers!Next

\* A dispatch that ends gives back what it took, and only an active observer
\* is called.
LEMMA DispatchesKept ==
    ASSUME Observers!TypeOK, TakenByDispatch, CalledAreActive, [Observers!Next]_Observers!vars
    PROVE  TakenByDispatch' /\ CalledAreActive'
<1> USE DEF TakenByDispatch, CalledAreActive
<1> DEFINE Goal == TakenByDispatch' /\ CalledAreActive'
<1>1. ASSUME UNCHANGED frames, taken' \subseteq taken, active \subseteq active' PROVE Goal
  BY <1>1
<1>2. ASSUME NEW e \in Entities, Observers!Insert(e) \/ Observers!Remove(e) PROVE Goal
  BY <1>1, <1>2 DEF Observers!Insert, Observers!Remove
<1>3. ASSUME NEW e \in Entities, Observers!RetainBegin(e) PROVE Goal
  <2>1. /\ \A n \in 1 .. Len(frames) : frames'[n] = frames[n] /\ n \in 1 .. Len(frames')
        /\ frames'[Len(frames) + 1].emitter = e /\ frames'[Len(frames) + 1].running = {}
        /\ Len(frames) + 1 \in 1 .. Len(frames')
        /\ \A n \in 1 .. Len(frames') : n \in 1 .. Len(frames) \/ n = Len(frames) + 1
    BY <1>3, Begun
  <2>2. taken' = taken \cup {e} /\ active' = active
    BY <1>3 DEF Observers!RetainBegin
  <2> QED
    BY <2>1, <2>2
<1>4. ASSUME NEW i \in Observers!Ids,
             Observers!Activate(i) \/ Observers!DropSubscription(i) \/ Observers!Detach(i)
      PROVE Goal
  BY <1>1, <1>4 DEF Observers!Activate, Observers!DropSubscription, Observers!Detach
<1>5. ASSUME frames # <<>>, Len(frames') = Len(frames), UNCHANGED <<taken, active>>,
             \A n \in 1 .. Len(frames) - 1 : frames'[n] = frames[n],
             frames'[Len(frames)].emitter = Observers!Top.emitter,
             frames'[Len(frames)].running \subseteq active
      PROVE  Goal
  <2>1. Len(frames) \in Nat \ {0} /\ Observers!Top = frames[Len(frames)]
    BY <1>5, DispatchTop DEF Observers!TypeOK
  <2>2. \A n \in 1 .. Len(frames') : n \in 1 .. Len(frames) - 1 \/ n = Len(frames)
    BY <1>5, <2>1
  <2> QED
    BY <1>5, <2>1, <2>2
<1>6. CASE Observers!RetainVisit
  <2>1. frames'[Len(frames)].running \subseteq active
    BY <1>6, Visited
  <2> QED
    BY <1>5, <1>6, <2>1, Visited DEF Observers!RetainVisit
<1>7. ASSUME NEW keep \in BOOLEAN, Observers!CallbackReturns(keep) PROVE Goal
  BY <1>5, <1>7, Returned DEF Observers!CallbackReturns
<1>8. CASE Observers!RetainEnd
  <2>1. /\ taken' = taken \ {Observers!Top.emitter} /\ active' = active
        /\ Len(frames) \in Nat \ {0} /\ Observers!Top = frames[Len(frames)]
        /\ Len(frames') = Len(frames) - 1
        /\ \A n \in 1 .. Len(frames) - 1 : frames'[n] = frames[n]
    BY <1>8, Ended DEF Observers!RetainEnd
  <2>2. \A n \in 1 .. Len(frames) : n \in 1 .. Len(frames') \/ n = Len(frames)
    BY <2>1
  <2>3. CalledAreActive'
    BY <2>1
  <2>4. TakenByDispatch'
    BY <2>1, <2>2
  <2> QED
    BY <2>3, <2>4
<1>9. CASE UNCHANGED Observers!vars
  BY <1>1, <1>9 DEF Observers!vars
<1> QED
  BY <1>2, <1>3, <1>4, <1>6, <1>7, <1>8, <1>9 DEF Observers!Next

\* What holds of the registry goes on holding.
LEMMA RegistryKept ==
    ASSUME TypeOK, Registry, [Next]_vars
    PROVE  Registry'
BY StepsOfRegistry, RegistryTypes, PlacedKept, DispatchesKept DEF Registry

-----------------------------------------------------------------------------
(* The calls in progress, and what the counters count.                     *)

Callbacks == {"observer", "deferred", "release_listener", "handler"}

SameDepth == Len(frames') = Len(frames) /\ Len(pass_since') = Len(pass_since)
SameFlushes == Len(releasing') = Len(releasing) /\ nested' = nested

FlushBegins ==
    /\ releasing' = Append(releasing, {})
    /\ nested' = (nested \/ Places(call_stack, Flushes) # {})

\* What a step does to the stack of calls, to the counters and to the flushes
\* in progress.
StackStep ==
    \/ /\ UNCHANGED <<call_stack, cycle, has_shut_down, panicked>>
       /\ SameDepth /\ SameFlushes
    \/ /\ Push("update") /\ (call_stack = <<>> => ~has_shut_down)
       /\ pending_updates < MaxUpdates /\ pending_updates' = pending_updates + 1
       /\ UNCHANGED <<flushing_effects, has_shut_down, panicked>> /\ SameDepth /\ SameFlushes
    \/ /\ \E c \in Callbacks : Push(c) /\ (call_stack = <<>> => c = "handler" /\ ~has_shut_down)
       /\ UNCHANGED <<cycle, has_shut_down, panicked>> /\ SameDepth /\ SameFlushes
    \/ /\ Push("notify") /\ Flushing
       /\ UNCHANGED <<cycle, has_shut_down, panicked>> /\ SameFlushes
       /\ Len(frames') = Len(frames) + 1 /\ Len(pass_since') = Len(pass_since) + 1
    \/ /\ Push("shutdown") /\ call_stack = <<>> /\ ~has_shut_down
       /\ UNCHANGED <<cycle, has_shut_down, panicked>> /\ SameDepth /\ SameFlushes
    \/ /\ Running = "update" /\ call_stack' = Append(Outer, "flush")
       /\ ~flushing_effects /\ flushing_effects' = TRUE
       /\ UNCHANGED <<pending_updates, has_shut_down, panicked>> /\ SameDepth /\ FlushBegins
    \/ /\ Running = "update" /\ call_stack' = Outer
       /\ flushing_effects \/ pending_updates # 1
       /\ pending_updates' = pending_updates - 1
       /\ UNCHANGED <<flushing_effects, has_shut_down, panicked>> /\ SameDepth /\ SameFlushes
    \/ /\ Running = "update" /\ call_stack' = Outer /\ Places(call_stack, {"handler"}) # {}
       /\ panicked' = TRUE
       /\ UNCHANGED <<cycle, has_shut_down>> /\ SameDepth /\ SameFlushes
    \/ /\ Running \in Callbacks /\ call_stack' = Outer
       /\ UNCHANGED <<cycle, has_shut_down, panicked>> /\ SameDepth /\ SameFlushes
    \/ /\ Running = "notify" /\ call_stack' = Outer
       /\ UNCHANGED <<cycle, has_shut_down, panicked>> /\ SameFlushes
       /\ Len(frames') = Len(frames) - 1 /\ Len(pass_since') = Len(pass_since) - 1
    \/ /\ Running = "flush" /\ call_stack' = Outer
       /\ flushing_effects' = FALSE /\ pending_updates' = pending_updates - 1
       /\ Len(releasing') = Len(releasing) - 1
       /\ UNCHANGED <<has_shut_down, nested, panicked>> /\ SameDepth
    \/ /\ Running \in {"shutdown_flush", "theme_flush"} /\ call_stack' = Outer
       /\ has_shut_down' = (has_shut_down \/ Running = "shutdown_flush")
       /\ Len(releasing') = Len(releasing) - 1
       /\ UNCHANGED <<cycle, nested, panicked>> /\ SameDepth
    \/ /\ \/ Running = "shutdown" /\ call_stack' = Append(Outer, "shutdown_flush")
          \/ Running = "handler" /\ call_stack' = Append(Outer, "theme_flush")
       /\ UNCHANGED <<cycle, has_shut_down, panicked>> /\ SameDepth /\ FlushBegins

\* The counters: the updates and their flushes in progress, with those a
\* panic cut short; whether a flush of an update is; the dispatches; and the
\* flushes of any kind.
Counters ==
    /\ pending_updates >= Cardinality(Places(call_stack, {"update", "flush"}))
    /\ ~panicked => pending_updates = Cardinality(Places(call_stack, {"update", "flush"}))
    /\ Cardinality(Places(call_stack, {"flush"})) = IF flushing_effects THEN 1 ELSE 0
    /\ Len(frames) = Cardinality(Places(call_stack, {"notify"}))
    /\ Len(pass_since) = Len(frames)
    /\ Len(releasing) = Cardinality(Places(call_stack, Flushes))
    /\ ~nested => Cardinality(Places(call_stack, Flushes)) <= 1

\* Which call may be where: an update, a handler or the shutdown at the
\* bottom, and the shutdown nowhere else; a flush dispatches.
StackShape ==
    \A n \in 1 .. Len(call_stack) :
        /\ n = 1 => call_stack[n] \in Flushes \cup {"update", "handler", "shutdown"}
        /\ call_stack[n] \in {"shutdown", "shutdown_flush"} => n = 1
        /\ call_stack[n] = "notify" => n > 1 /\ call_stack[n - 1] \in Flushes

\* The call that runs is the innermost one.
LEMMA RunningCall ==
    ASSUME TypeOK
    PROVE  /\ Running = "event loop" <=> call_stack = <<>>
           /\ call_stack # <<>> => Running = call_stack[Len(call_stack)]
           /\ Running # "event loop" => call_stack # <<>>
<1>1. call_stack # <<>> => call_stack[Len(call_stack)] \in Call
  BY StackPop DEF TypeOK
<1>2. "event loop" \notin Call
  BY DEF Call, Flushes
<1> QED
  BY <1>1, <1>2 DEF Running

\* The stack after a push, a pop, and a replacement of the innermost call.
LEMMA StackMoves ==
    ASSUME TypeOK
    PROVE  /\ Len(call_stack) \in Nat /\ (call_stack = <<>> <=> Len(call_stack) = 0)
           /\ \A c \in Call :
                /\ Append(call_stack, c) \in Seq(Call)
                /\ Len(Append(call_stack, c)) = Len(call_stack) + 1
                /\ Append(call_stack, c)[Len(call_stack) + 1] = c
                /\ \A n \in 1 .. Len(call_stack) : Append(call_stack, c)[n] = call_stack[n]
           /\ call_stack # <<>> =>
                /\ Outer \in Seq(Call) /\ Len(Outer) = Len(call_stack) - 1
                /\ Running = call_stack[Len(call_stack)]
                /\ \A n \in 1 .. Len(call_stack) - 1 : Outer[n] = call_stack[n]
                /\ \A c \in Call :
                    /\ Append(Outer, c) \in Seq(Call)
                    /\ Len(Append(Outer, c)) = Len(call_stack)
                    /\ Append(Outer, c)[Len(call_stack)] = c
                    /\ \A n \in 1 .. Len(call_stack) - 1 : Append(Outer, c)[n] = call_stack[n]
<1>1. call_stack \in Seq(Call) /\ Outer = Popped(call_stack)
  BY DEF TypeOK, Outer, Popped
<1>2. Len(call_stack) \in Nat /\ (call_stack = <<>> <=> Len(call_stack) = 0)
  BY <1>1
<1>3. ASSUME NEW c \in Call
      PROVE  /\ Append(call_stack, c) \in Seq(Call)
             /\ Len(Append(call_stack, c)) = Len(call_stack) + 1
             /\ Append(call_stack, c)[Len(call_stack) + 1] = c
             /\ \A n \in 1 .. Len(call_stack) : Append(call_stack, c)[n] = call_stack[n]
  BY <1>1, StackPush
<1>4. ASSUME call_stack # <<>>
      PROVE  /\ Outer \in Seq(Call) /\ Len(Outer) = Len(call_stack) - 1
             /\ Running = call_stack[Len(call_stack)]
             /\ \A n \in 1 .. Len(call_stack) - 1 : Outer[n] = call_stack[n]
  BY <1>1, <1>4, StackPop, RunningCall
<1>5. ASSUME call_stack # <<>>, NEW c \in Call
      PROVE  /\ Append(Outer, c) \in Seq(Call)
             /\ Len(Append(Outer, c)) = Len(call_stack)
             /\ Append(Outer, c)[Len(call_stack)] = c
             /\ \A n \in 1 .. Len(call_stack) - 1 : Append(Outer, c)[n] = call_stack[n]
  <2>1. /\ Append(Outer, c) \in Seq(Call) /\ Len(Append(Outer, c)) = Len(Outer) + 1
        /\ Append(Outer, c)[Len(Outer) + 1] = c
        /\ \A n \in 1 .. Len(Outer) : Append(Outer, c)[n] = Outer[n]
    BY <1>4, <1>5, StackPush
  <2>2. Len(Outer) + 1 = Len(call_stack)
    BY <1>2, <1>4, <1>5
  <2> QED
    BY <1>4, <1>5, <2>1, <2>2
<1> QED
  BY <1>2, <1>3, <1>4, <1>5

\* What they do to the number of calls of some kinds.
LEMMA StackCounts ==
    ASSUME TypeOK, NEW kinds
    PROVE  LET count == Cardinality(Places(call_stack, kinds)) IN
           /\ count \in Nat /\ (call_stack = <<>> => count = 0)
           /\ \A c \in Call : Cardinality(Places(Append(call_stack, c), kinds)) =
                                 count + IF c \in kinds THEN 1 ELSE 0
           /\ call_stack # <<>> =>
                /\ Running \in kinds => count > 0
                /\ Cardinality(Places(Outer, kinds)) = count - IF Running \in kinds THEN 1 ELSE 0
                /\ \A c \in Call : Cardinality(Places(Append(Outer, c), kinds)) =
                                      count - (IF Running \in kinds THEN 1 ELSE 0)
                                            + IF c \in kinds THEN 1 ELSE 0
<1> DEFINE count == Cardinality(Places(call_stack, kinds))
<1>1. call_stack \in Seq(Call) /\ Outer = Popped(call_stack)
  BY DEF TypeOK, Outer, Popped
<1>2. count \in Nat /\ (call_stack = <<>> => count = 0)
  BY <1>1, PlacesCount
<1>3. \A c \in Call : Cardinality(Places(Append(call_stack, c), kinds)) =
                         count + IF c \in kinds THEN 1 ELSE 0
  BY <1>1, PlacesPush
<1>4. ASSUME call_stack # <<>>
      PROVE  /\ Running \in kinds => count > 0
             /\ Cardinality(Places(Outer, kinds)) = count - IF Running \in kinds THEN 1 ELSE 0
             /\ \A c \in Call : Cardinality(Places(Append(Outer, c), kinds)) =
                                   count - (IF Running \in kinds THEN 1 ELSE 0)
                                         + IF c \in kinds THEN 1 ELSE 0
  <2>1. Outer \in Seq(Call) /\ Running = call_stack[Len(call_stack)]
        /\ Len(call_stack) \in 1 .. Len(call_stack)
    BY <1>4, StackMoves
  <2>2. Cardinality(Places(Outer, kinds)) = count - IF Running \in kinds THEN 1 ELSE 0
    BY <1>1, <1>4, <2>1, PlacesPop
  <2>3. \A c \in Call : Cardinality(Places(Append(Outer, c), kinds)) =
                   Cardinality(Places(Outer, kinds)) + IF c \in kinds THEN 1 ELSE 0
    BY <2>1, PlacesPush
  <2>4. Running \in kinds => Places(call_stack, kinds) # {}
    BY <2>1 DEF Places
  <2>5. Running \in kinds => count > 0
    BY <1>1, <2>4, PlacesCount
  <2> QED
    BY <2>2, <2>3, <2>5
<1> QED
  BY <1>2, <1>3, <1>4

\* The innermost flush, what it has still to release, and those around it.
LEMMA FlushTop ==
    ASSUME TypeOK, Counters, Flushing
    PROVE  /\ releasing # <<>> /\ Len(releasing) \in Nat \ {0}
           /\ Released = releasing[Len(releasing)] /\ Released \subseteq Entities
           /\ Popped(releasing) \in Seq(SUBSET Entities)
           /\ Len(Popped(releasing)) = Len(releasing) - 1
           /\ \A n \in 1 .. Len(releasing) - 1 : Popped(releasing)[n] = releasing[n]
           /\ \A S \in SUBSET Entities : ReleaseRest(S) =>
                /\ releasing' \in Seq(SUBSET Entities) /\ Len(releasing') = Len(releasing)
                /\ releasing'[Len(releasing)] = S
                /\ \A n \in 1 .. Len(releasing) - 1 : releasing'[n] = releasing[n]
<1>1. releasing \in Seq(SUBSET Entities) /\ Len(releasing) \in Nat
  BY DEF TypeOK
<1>2. Len(releasing) > 0
  <2>1. call_stack # <<>> /\ Running \in Flushes
    BY RunningCall DEF Flushing, Flushes
  <2>2. Cardinality(Places(call_stack, Flushes)) > 0
    BY <2>1, StackCounts
  <2> QED
    BY <2>2 DEF Counters
<1>3. releasing # <<>> /\ Len(releasing) \in Nat \ {0} /\ Len(releasing) \in 1 .. Len(releasing)
  BY <1>1, <1>2
<1>4. Released = releasing[Len(releasing)] /\ Released \subseteq Entities
  BY <1>1, <1>3 DEF Released
<1>5. ASSUME NEW S \in SUBSET Entities, ReleaseRest(S)
      PROVE  /\ releasing' \in Seq(SUBSET Entities) /\ Len(releasing') = Len(releasing)
             /\ releasing'[Len(releasing)] = S
             /\ \A n \in 1 .. Len(releasing) - 1 : releasing'[n] = releasing[n]
  BY <1>1, <1>3, <1>5 DEF ReleaseRest
<1> QED
  BY <1>1, <1>3, <1>4, <1>5, StackPop

\* A flush that begins is noted as nested when another is in progress.
LEMMA FlushBegun ==
    ASSUME NEW flush, BeginFlush(flush)
    PROVE  call_stack' = Append(Outer, flush) /\ FlushBegins
BY DEF BeginFlush, FlushBegins, Places

\* Every step is one of those.
LEMMA StackSteps ==
    ASSUME TypeOK, Counters, [Next]_vars
    PROVE  StackStep
<1> USE DEF cycle, mishaps, ownership, SameDepth, SameFlushes, Callbacks
<1>1. Observers!TypeOK /\ Len(pass_since) = Len(frames)
  BY DEF TypeOK, Counters
<1>2. ASSUME UNCHANGED <<call_stack, cycle, has_shut_down, pass_since, frames, mishaps>>,
             Len(releasing') = Len(releasing)
      PROVE  StackStep
  BY <1>2 DEF StackStep
<1>3. CASE StartUpdate \/ StartInnerUpdate
  <2>1. call_stack = <<>> => ~has_shut_down
    BY <1>3, RunningCall DEF StartUpdate, StartInnerUpdate, UserCalls, UserRuns
  <2> QED
    BY <1>3, <2>1 DEF StackStep, StartUpdate, StartInnerUpdate, BeginUpdate, history, observers
<1>4. CASE StartHandler \/ Shutdown
  BY <1>4, RunningCall DEF StackStep, StartHandler, Shutdown, history, observers
<1>5. CASE ObserveThemeFile
  <2>1. call_stack # <<>>
    BY <1>5, RunningCall DEF ObserveThemeFile, UserCalls, UserRuns
  <2> QED
    BY <1>5, <2>1 DEF StackStep, ObserveThemeFile, history, observers
<1>6. ASSUME NEW e \in Entities, Notify(e) \/ Observe(e) \/ DropEntity(e) PROVE StackStep
  BY <1>2, <1>6 DEF Notify, Observe, DropEntity, Observers!Insert, history, observers
<1>7. ASSUME NEW i \in Ids, DropObserver(i) PROVE StackStep
  BY <1>2, <1>7 DEF DropObserver, Observers!DropSubscription, history
<1>8. CASE Defer
  BY <1>2, <1>8 DEF Defer, history, observers
<1>9. CASE TakeDropped
  <2>1. ReleaseRest(dropped) /\ Flushing /\ dropped \in SUBSET Entities
    BY <1>9 DEF TakeDropped, TypeOK
  <2>2. Len(releasing') = Len(releasing)
    BY <2>1, FlushTop
  <2> QED
    BY <1>2, <1>9, <2>2 DEF TakeDropped, history, observers
<1>10. CASE ApplyActivate
  BY <1>2, <1>10 DEF ApplyActivate, Observers!Activate, history
<1>11. ASSUME NEW e \in Entities, ReleaseEntity(e) PROVE StackStep
  <2>1. ReleaseRest(Released \ {e}) /\ Flushing
    BY <1>11 DEF ReleaseEntity
  <2>2. Released \subseteq Entities
    BY <2>1, FlushTop
  <2>3. Len(releasing') = Len(releasing)
    BY <2>1, <2>2, FlushTop
  <2>4. UNCHANGED <<cycle, has_shut_down, pass_since, frames, mishaps>> /\ call_stack # <<>>
    BY <1>11, RunningCall DEF ReleaseEntity, Flushing, Flushes, Observers!Remove, history, observers
  <2> QED
    BY <1>11, <2>3, <2>4 DEF ReleaseEntity, StackStep
<1>12. CASE ApplyNotify
  <2> DEFINE e == Head(pending_effects).emitter
  <2>1. e \in Entities
    BY <1>12, EffectPopped, EffectFields DEF ApplyNotify
  <2>2. UNCHANGED <<cycle, has_shut_down, mishaps, releasing>> /\ Flushing
    BY <1>12 DEF ApplyNotify, PopEffect
  <2>3. CASE registered[e] = {}
    BY <1>2, <1>12, <2>2, <2>3 DEF ApplyNotify, observers
  <2>4. CASE registered[e] # {}
    <3>1. /\ Observers!RetainBegin(e) /\ Push("notify")
          /\ pass_since' = Append(pass_since, Head(pending_effects).since)
      BY <1>12, <2>4 DEF ApplyNotify
    <3>2. Len(frames') = Len(frames) + 1
      BY <1>1, <2>1, <3>1, Begun
    <3>3. Head(pending_effects).since \in 0 .. MaxSubscribers
      BY <1>12, EffectPopped, EffectFields DEF ApplyNotify
    <3>4. Len(pass_since') = Len(pass_since) + 1
      BY <3>1, <3>3, StackPush DEF TypeOK
    <3> QED
      BY <2>2, <3>1, <3>2, <3>4 DEF StackStep
  <2> QED
    BY <2>3, <2>4
<1>13. CASE ApplyDefer
  <2>1. call_stack # <<>>
    BY <1>13, RunningCall DEF ApplyDefer, PopEffect, Flushing, Flushes
  <2> QED
    BY <1>13, <2>1 DEF ApplyDefer, StackStep, history, observers
<1>14. CASE VisitObserver
  <2>1. Len(frames') = Len(frames)
    BY <1>1, <1>14, Visited DEF VisitObserver
  <2>2. UNCHANGED <<cycle, has_shut_down, pass_since, mishaps, releasing>> /\ call_stack # <<>>
        /\ (Push("observer") \/ UNCHANGED call_stack)
    BY <1>14, RunningCall DEF VisitObserver
  <2> QED
    BY <2>1, <2>2 DEF StackStep
<1>15. CASE ObserverGone
  BY <1>1, <1>15, Returned DEF ObserverGone, StackStep, history
<1>16. ASSUME NEW keep \in BOOLEAN, ObserverReturns(keep) PROVE StackStep
  BY <1>1, <1>16, Returned DEF ObserverReturns, StackStep, history
<1>17. CASE DispatchEnds
  <2>1. Len(frames') = Len(frames) - 1 /\ Len(frames) \in Nat \ {0}
    BY <1>1, <1>17, Ended DEF DispatchEnds
  <2>2. pass_since # <<>> /\ pass_since' = Popped(pass_since)
    BY <1>1, <1>17, <2>1 DEF DispatchEnds, Popped
  <2>3. Len(pass_since') = Len(pass_since) - 1
    BY <2>2, StackPop DEF TypeOK
  <2> QED
    BY <1>17, <2>1, <2>3 DEF DispatchEnds, StackStep
<1>18. CASE FlushEnds
  <2>1. Flushing /\ releasing' = Popped(releasing)
    BY <1>18 DEF FlushEnds, Popped
  <2>2. Len(releasing') = Len(releasing) - 1
    BY <2>1, FlushTop
  <2> QED
    <3>1. /\ Running \in Flushes /\ call_stack' = Outer
          /\ UNCHANGED <<frames, pass_since, nested, panicked>>
      BY <1>18 DEF FlushEnds, Flushing, history, observers
    <3>2. CASE Running = "flush"
      <4>1. has_shut_down' = has_shut_down
        BY <1>18, <3>2 DEF FlushEnds, TypeOK
      <4>2. flushing_effects' = FALSE /\ pending_updates' = pending_updates - 1
        BY <1>18, <3>2 DEF FlushEnds
      <4> QED
        BY <2>2, <3>1, <3>2, <4>1, <4>2 DEF StackStep
    <3>3. CASE Running \in {"shutdown_flush", "theme_flush"}
      BY <1>18, <2>2, <3>1, <3>3 DEF FlushEnds, StackStep
    <3> QED
      BY <3>1, <3>2, <3>3 DEF Flushes
<1>19. CASE FinishUpdate
  <2>1. CASE ~flushing_effects /\ pending_updates = 1
    BY <1>19, <2>1, FlushBegun DEF FinishUpdate, StackStep, history, observers
  <2>2. CASE ~(~flushing_effects /\ pending_updates = 1)
    BY <1>19, <2>2 DEF FinishUpdate, StackStep, history, observers
  <2> QED
    BY <2>1, <2>2
<1>20. CASE UpdatePanics
  <2>1. Places(call_stack, {"handler"}) # {}
    BY <1>20 DEF UpdatePanics, Places
  <2> QED
    BY <1>20, <2>1 DEF UpdatePanics, StackStep, history, observers
<1>21. CASE CallbackReturns
  BY <1>21 DEF CallbackReturns, StackStep, history, observers
<1>22. CASE ThemeFlush \/ ShutdownFlush
  BY <1>22, FlushBegun DEF ThemeFlush, ShutdownFlush, StackStep, history, observers
<1>23. CASE UNCHANGED vars
  BY <1>2, <1>23 DEF vars, history, observers
<1> QED
  BY <1>3, <1>4, <1>5, <1>6, <1>7, <1>8, <1>9, <1>10, <1>11, <1>12, <1>13, <1>14, <1>15,
     <1>16, <1>17, <1>18, <1>19, <1>20, <1>21, <1>22, <1>23
  DEF Next, UserStep, FlushStep, ReturnStep

\* Every step keeps the calls apart and the counters right.
LEMMA CountersKept ==
    ASSUME TypeOK, Counters, StackStep
    PROVE  Counters'
<1> DEFINE u == Cardinality(Places(call_stack, {"update", "flush"}))
           f == Cardinality(Places(call_stack, {"flush"}))
           n == Cardinality(Places(call_stack, {"notify"}))
           a == Cardinality(Places(call_stack, Flushes))
<1>1. /\ u \in Nat /\ f \in Nat /\ n \in Nat /\ a \in Nat /\ pending_updates \in Nat
      /\ pending_updates >= u /\ (~panicked => pending_updates = u)
      /\ f = (IF flushing_effects THEN 1 ELSE 0)
      /\ Len(frames) = n /\ Len(pass_since) = n /\ flushing_effects \in BOOLEAN
      /\ Len(releasing) = a /\ (~nested => a <= 1)
  BY StackCounts, EffectCycleAssumption DEF Counters, TypeOK
<1>2. ASSUME NEW c \in Call, Push(c)
      PROVE  /\ Cardinality(Places(call_stack', {"update", "flush"})) =
                    u + IF c \in {"update", "flush"} THEN 1 ELSE 0
             /\ Cardinality(Places(call_stack', {"flush"})) = f + IF c \in {"flush"} THEN 1 ELSE 0
             /\ Cardinality(Places(call_stack', {"notify"})) = n + IF c \in {"notify"} THEN 1 ELSE 0
             /\ Cardinality(Places(call_stack', Flushes)) = a + IF c \in Flushes THEN 1 ELSE 0
  BY <1>2, StackCounts DEF Push
<1>3. ASSUME call_stack # <<>>, call_stack' = Outer
      PROVE  /\ Cardinality(Places(call_stack', {"update", "flush"})) =
                    u - IF Running \in {"update", "flush"} THEN 1 ELSE 0
             /\ Cardinality(Places(call_stack', {"flush"})) =
                    f - IF Running \in {"flush"} THEN 1 ELSE 0
             /\ Cardinality(Places(call_stack', {"notify"})) =
                    n - IF Running \in {"notify"} THEN 1 ELSE 0
             /\ Cardinality(Places(call_stack', Flushes)) = a - IF Running \in Flushes THEN 1 ELSE 0
             /\ Running \in {"flush"} => f > 0
  BY <1>3, StackCounts
<1>4. ASSUME NEW c \in Call, call_stack # <<>>, call_stack' = Append(Outer, c)
      PROVE  /\ Cardinality(Places(call_stack', {"update", "flush"})) =
                    u - (IF Running \in {"update", "flush"} THEN 1 ELSE 0)
                      + IF c \in {"update", "flush"} THEN 1 ELSE 0
             /\ Cardinality(Places(call_stack', {"flush"})) =
                    f - (IF Running \in {"flush"} THEN 1 ELSE 0) + IF c \in {"flush"} THEN 1 ELSE 0
             /\ Cardinality(Places(call_stack', {"notify"})) =
                    n - (IF Running \in {"notify"} THEN 1 ELSE 0)
                      + IF c \in {"notify"} THEN 1 ELSE 0
             /\ Cardinality(Places(call_stack', Flushes)) =
                    a - (IF Running \in Flushes THEN 1 ELSE 0) + IF c \in Flushes THEN 1 ELSE 0
  BY <1>4, StackCounts
<1>5. ASSUME FlushBegins
      PROVE  Len(releasing') = a + 1 /\ (~nested' => a = 0)
  <2>1. Len(releasing') = Len(releasing) + 1
    BY <1>5, StackPush DEF FlushBegins, TypeOK
  <2>2. ~nested' => Places(call_stack, Flushes) = {}
    BY <1>5 DEF FlushBegins
  <2> QED
    BY <1>1, <2>1, <2>2, FS_EmptySet
<1> HIDE DEF u, f, n, a
<1>6. Running # "event loop" => call_stack # <<>>
  BY RunningCall
<1> USE DEF Counters, SameDepth, SameFlushes, cycle
<1>7. CASE /\ UNCHANGED <<call_stack, cycle, has_shut_down, panicked>>
           /\ SameDepth /\ SameFlushes
  BY <1>7
<1>8. CASE Push("update") /\ pending_updates' = pending_updates + 1
           /\ UNCHANGED <<flushing_effects, panicked>> /\ SameDepth /\ SameFlushes
  BY <1>1, <1>2, <1>8 DEF Call, Flushes
<1>9. ASSUME NEW c \in Callbacks, Push(c), UNCHANGED <<cycle, panicked>>, SameDepth, SameFlushes
      PROVE  Counters'
  BY <1>1, <1>2, <1>9 DEF Call, Callbacks, Flushes
<1>10. CASE Push("notify") /\ UNCHANGED <<cycle, panicked>> /\ SameFlushes
            /\ Len(frames') = Len(frames) + 1 /\ Len(pass_since') = Len(pass_since) + 1
  BY <1>1, <1>2, <1>10 DEF Call, Flushes
<1>11. CASE Push("shutdown") /\ UNCHANGED <<cycle, panicked>> /\ SameDepth /\ SameFlushes
  BY <1>1, <1>2, <1>11 DEF Call, Flushes
<1>12. CASE /\ Running = "update" /\ call_stack' = Append(Outer, "flush")
            /\ ~flushing_effects /\ flushing_effects' = TRUE
            /\ UNCHANGED <<pending_updates, panicked>> /\ SameDepth /\ FlushBegins
  BY <1>1, <1>4, <1>5, <1>6, <1>12 DEF Call, Flushes
<1>13. CASE /\ Running = "update" /\ call_stack' = Outer
            /\ pending_updates' = pending_updates - 1
            /\ UNCHANGED <<flushing_effects, panicked>> /\ SameDepth /\ SameFlushes
  BY <1>1, <1>3, <1>6, <1>13 DEF Flushes
<1>14. CASE /\ Running = "update" /\ call_stack' = Outer /\ panicked' = TRUE
            /\ UNCHANGED cycle /\ SameDepth /\ SameFlushes
  BY <1>1, <1>3, <1>6, <1>14 DEF Flushes
<1>15. CASE /\ Running \in Callbacks /\ call_stack' = Outer
            /\ UNCHANGED <<cycle, panicked>> /\ SameDepth /\ SameFlushes
  <2>1. /\ call_stack # <<>> /\ Running \notin {"update", "flush"}
        /\ Running \notin {"flush"} /\ Running \notin {"notify"} /\ Running \notin Flushes
    BY <1>6, <1>15 DEF Callbacks, Flushes
  <2> QED
    BY <1>1, <1>3, <1>15, <2>1
<1>16. CASE /\ Running = "notify" /\ call_stack' = Outer
            /\ UNCHANGED <<cycle, panicked>> /\ SameFlushes
            /\ Len(frames') = Len(frames) - 1 /\ Len(pass_since') = Len(pass_since) - 1
  BY <1>1, <1>3, <1>6, <1>16 DEF Flushes
<1>17. CASE /\ Running = "flush" /\ call_stack' = Outer
            /\ flushing_effects' = FALSE /\ pending_updates' = pending_updates - 1
            /\ Len(releasing') = Len(releasing) - 1
            /\ UNCHANGED <<nested, panicked>> /\ SameDepth
  BY <1>1, <1>3, <1>6, <1>17 DEF Flushes
<1>18. CASE /\ Running \in {"shutdown_flush", "theme_flush"} /\ call_stack' = Outer
            /\ Len(releasing') = Len(releasing) - 1
            /\ UNCHANGED <<cycle, nested, panicked>> /\ SameDepth
  <2>1. /\ call_stack # <<>> /\ Running \notin {"update", "flush"}
        /\ Running \notin {"flush"} /\ Running \notin {"notify"} /\ Running \in Flushes
    BY <1>6, <1>18 DEF Flushes
  <2> QED
    BY <1>1, <1>3, <1>18, <2>1
<1>19. CASE /\ \/ Running = "shutdown" /\ call_stack' = Append(Outer, "shutdown_flush")
               \/ Running = "handler" /\ call_stack' = Append(Outer, "theme_flush")
            /\ UNCHANGED <<cycle, panicked>> /\ SameDepth /\ FlushBegins
  <2>1. PICK c \in {"shutdown_flush", "theme_flush"} :
            call_stack' = Append(Outer, c) /\ Running \in {"shutdown", "handler"}
    BY <1>19
  <2>2. /\ c \in Call /\ c \notin {"update", "flush"} /\ c \notin {"flush"}
        /\ c \notin {"notify"} /\ c \in Flushes
    BY DEF Call, Flushes
  <2>3. /\ call_stack # <<>> /\ Running \notin {"update", "flush"}
        /\ Running \notin {"flush"} /\ Running \notin {"notify"} /\ Running \notin Flushes
    BY <1>6, <2>1 DEF Flushes
  <2> QED
    BY <1>1, <1>4, <1>5, <1>19, <2>1, <2>2, <2>3
<1> QED
  BY <1>7, <1>8, <1>9, <1>10, <1>11, <1>12, <1>13, <1>14, <1>15, <1>16, <1>17, <1>18, <1>19
  DEF StackStep

\* A call that flushes an update or dispatches is pushed on one that may.
LEMMA ShapeKept ==
    ASSUME TypeOK, StackShape, StackStep
    PROVE  StackShape' /\ call_stack' \in Seq(Call)
<1> USE DEF StackShape
<1>1. Running # "event loop" => call_stack # <<>>
  BY RunningCall
<1>2. ASSUME NEW c \in Call, Push(c),
             call_stack = <<>> => c \in {"update", "handler", "shutdown"},
             call_stack # <<>> => c \notin {"shutdown", "shutdown_flush"},
             c = "notify" => Flushing
      PROVE  StackShape' /\ call_stack' \in Seq(Call)
  <2>1. /\ call_stack' \in Seq(Call) /\ Len(call_stack') = Len(call_stack) + 1
        /\ call_stack'[Len(call_stack) + 1] = c /\ Len(call_stack) \in Nat
        /\ \A n \in 1 .. Len(call_stack) : call_stack'[n] = call_stack[n]
    BY <1>2, StackMoves DEF Push
  <2>2. \A n \in 1 .. Len(call_stack') : n \in 1 .. Len(call_stack) \/ n = Len(call_stack) + 1
    BY <2>1
  <2>3. c = "notify" => /\ Len(call_stack) > 0
                        /\ call_stack[Len(call_stack)] \in Flushes
    <3> SUFFICES ASSUME c = "notify"
                 PROVE  /\ Len(call_stack) > 0
                        /\ call_stack[Len(call_stack)] \in Flushes
      OBVIOUS
    <3>1. Running \in Flushes /\ Running # "event loop"
      BY <1>2 DEF Flushing, Flushes
    <3>2. call_stack # <<>>
      BY <1>1, <3>1
    <3>3. Running = call_stack[Len(call_stack)] /\ Len(call_stack) > 0
      BY <2>1, <3>2, StackMoves
    <3> QED
      BY <3>1, <3>3
  <2>4. call_stack = <<>> <=> Len(call_stack) = 0
    BY StackMoves
  <2>5. ASSUME NEW n \in 1 .. Len(call_stack)
        PROVE  n - 1 \in 1 .. Len(call_stack) \/ n = 1
    BY <2>1
  <2> QED
    BY <1>2, <2>1, <2>2, <2>3, <2>4, <2>5
<1>3. ASSUME call_stack # <<>>, call_stack' = Outer
      PROVE  StackShape' /\ call_stack' \in Seq(Call)
  <2>1. /\ call_stack' \in Seq(Call) /\ Len(call_stack') = Len(call_stack) - 1
        /\ \A n \in 1 .. Len(call_stack) - 1 : call_stack'[n] = call_stack[n]
        /\ Len(call_stack) \in Nat
    BY <1>3, StackMoves
  <2> QED
    BY <2>1
<1>4. ASSUME NEW c \in Call, call_stack # <<>>, call_stack' = Append(Outer, c),
             \/ c = "flush" /\ Running = "update"
             \/ c = "shutdown_flush" /\ Running = "shutdown"
             \/ c = "theme_flush" /\ Running = "handler"
      PROVE  StackShape' /\ call_stack' \in Seq(Call)
  <2>1. /\ call_stack' \in Seq(Call) /\ Len(call_stack') = Len(call_stack)
        /\ call_stack'[Len(call_stack)] = c /\ Len(call_stack) \in Nat \ {0}
        /\ \A n \in 1 .. Len(call_stack) - 1 : call_stack'[n] = call_stack[n]
        /\ call_stack[Len(call_stack)] = Running
    BY <1>4, StackMoves
  <2>2. \A n \in 1 .. Len(call_stack') : n \in 1 .. Len(call_stack) - 1 \/ n = Len(call_stack)
    BY <2>1
  <2>3. \A n \in 1 .. Len(call_stack) - 1 : n - 1 \in 1 .. Len(call_stack) - 1 \/ n = 1
    BY <2>1
  <2> QED
    BY <1>4, <2>1, <2>2, <2>3 DEF Flushes
<1>5. CASE UNCHANGED call_stack
  BY <1>5 DEF TypeOK
<1>6. CASE \E c \in {"update", "shutdown"} : Push(c) /\ (c = "shutdown" => call_stack = <<>>)
  BY <1>2, <1>6 DEF Call
<1>7. CASE \E c \in Callbacks : Push(c) /\ (call_stack = <<>> => c = "handler")
  BY <1>2, <1>7 DEF Call, Callbacks
<1>8. CASE Push("notify") /\ Flushing
  BY <1>1, <1>2, <1>8 DEF Call, Flushing, Flushes
<1>9. CASE Running # "event loop" /\ call_stack' = Outer
  BY <1>1, <1>3, <1>9
<1>10. CASE Running = "update" /\ call_stack' = Append(Outer, "flush")
  BY <1>1, <1>4, <1>10 DEF Call, Flushes
<1>11. CASE \/ Running = "shutdown" /\ call_stack' = Append(Outer, "shutdown_flush")
            \/ Running = "handler" /\ call_stack' = Append(Outer, "theme_flush")
  BY <1>1, <1>4, <1>11 DEF Call, Flushes
<1> QED
  BY <1>5, <1>6, <1>7, <1>8, <1>9, <1>10, <1>11 DEF StackStep, Callbacks

-----------------------------------------------------------------------------
(* The flush, and what ends on the event loop.                             *)

\* Nothing runs after a shutdown.
Quiet == has_shut_down => call_stack = <<>>

Cycle == TypeOK /\ Counters /\ StackShape /\ Quiet

\* Calls of which one is in progress at most are in one place.
LEMMA OnePlace ==
    ASSUME TypeOK, NEW kinds, Cardinality(Places(call_stack, kinds)) <= 1
    PROVE  \A m, n \in 1 .. Len(call_stack) :
              call_stack[m] \in kinds /\ call_stack[n] \in kinds => m = n
<1> SUFFICES ASSUME NEW m \in 1 .. Len(call_stack), NEW n \in 1 .. Len(call_stack),
                    call_stack[m] \in kinds, call_stack[n] \in kinds
             PROVE  m = n
  OBVIOUS
<1> DEFINE F == Places(call_stack, kinds)
<1>1. m \in F /\ n \in F
  BY DEF Places
<1>2. IsFiniteSet(F) /\ Cardinality(F) \in Nat /\ (F # {} => Cardinality(F) > 0)
  BY PlacesCount DEF TypeOK
<1>3. Cardinality(F) = 1
  BY <1>1, <1>2
<1> HIDE DEF F
<1>4. PICK x : F = {x}
  BY <1>2, <1>3, FS_Singleton
<1> QED
  BY <1>1, <1>4

\* Unless flushes are nested no dispatch is in progress when a flush takes
\* its next step: dispatches are made by flushes, and there is no other.
LEMMA FlushRunsAlone ==
    ASSUME TypeOK, Counters, StackShape, Flushing, ~nested
    PROVE  frames = <<>> /\ Len(frames) = 0 /\ Len(pass_since) = 0 /\ Len(releasing) = 1
<1>1. /\ Len(call_stack) \in Nat \ {0} /\ Len(call_stack) \in 1 .. Len(call_stack)
      /\ call_stack[Len(call_stack)] \in Flushes
  <2>1. call_stack # <<>>
    BY RunningCall DEF Flushing, Flushes
  <2>2. Len(call_stack) \in Nat \ {0} /\ Running = call_stack[Len(call_stack)]
    BY <2>1, StackMoves
  <2> QED
    BY <2>2 DEF Flushing
<1>2. Places(call_stack, {"notify"}) = {}
  <2> SUFFICES ASSUME NEW m \in 1 .. Len(call_stack), call_stack[m] = "notify"
               PROVE  FALSE
    BY DEF Places
  <2>1. m > 1 /\ call_stack[m - 1] \in Flushes
    BY DEF StackShape
  <2>2. m - 1 \in 1 .. Len(call_stack) /\ m - 1 # Len(call_stack)
    BY <1>1, <2>1
  <2>3. Cardinality(Places(call_stack, Flushes)) <= 1
    BY DEF Counters
  <2> QED
    BY <1>1, <2>1, <2>2, <2>3, OnePlace
<1>3. Len(frames) = 0 /\ Len(pass_since) = 0
  BY <1>2, FS_EmptySet DEF Counters
<1>4. frames \in Seq(Observers!Frame)
  BY DEF TypeOK, Observers!TypeOK
<1>5. Len(releasing) = 1
  <2>1. Len(releasing) <= 1
    BY DEF Counters
  <2> QED
    BY <2>1, FlushTop
<1> QED
  BY <1>3, <1>4, <1>5

\* What was nested stays noted.
LEMMA NestedLasts ==
    ASSUME TypeOK, Counters, [Next]_vars
    PROVE  nested => nested'
BY StackSteps DEF StackStep, SameFlushes, FlushBegins

\* Unless a panic cut an update short, only the end of a flush or the return
\* of a handler empties the stack.
LEMMA EmptiedByFlush ==
    ASSUME TypeOK, Counters, StackShape, [Next]_vars,
           ~panicked, Running # "handler", call_stack # <<>>, call_stack' = <<>>
    PROVE  FlushEnds
<1>1. StackStep
  BY StackSteps
<1>2. \A c \in Call : ~Push(c)
  BY StackPush DEF Push, TypeOK
<1>3. \A c \in Call : call_stack' # Append(Outer, c)
  BY StackMoves, StackPush
<1>4. call_stack' = Outer
  BY <1>1, <1>2, <1>3 DEF StackStep, Call, Callbacks, Flushes
<1>5. Len(call_stack) = 1 /\ Running = call_stack[1]
  <2>1. Len(Outer) = Len(call_stack) - 1 /\ Len(call_stack) \in Nat
        /\ Running = call_stack[Len(call_stack)]
    BY StackMoves
  <2>2. Len(Outer) = 0
    BY <1>4
  <2> QED
    BY <2>1, <2>2
<1>6. Running \in Flushes \cup {"update", "shutdown"}
  BY <1>5 DEF StackShape
<1>7. ASSUME Running = "update"
      PROVE  /\ pending_updates = 1 /\ ~flushing_effects
             /\ Places(call_stack, {"handler"}) = {}
  <2>1. /\ Places(call_stack, {"update", "flush"}) = {1} /\ Places(call_stack, {"flush"}) = {}
        /\ Places(call_stack, {"handler"}) = {}
    <3>1. 1 .. Len(call_stack) = {1}
      BY <1>5
    <3> QED
      BY <1>5, <1>7, <3>1 DEF Places
  <2>2. Cardinality({1}) = 1 /\ Cardinality({}) = 0
    BY FS_Singleton, FS_EmptySet
  <2>3. pending_updates = 1
    BY <2>1, <2>2 DEF Counters
  <2>4. Cardinality(Places(call_stack, {"flush"})) = 0
    BY <2>1, <2>2
  <2>5. ~flushing_effects
    BY <2>4 DEF Counters
  <2> QED
    BY <2>1, <2>3, <2>5
<1>8. Running \in Flushes
  BY <1>1, <1>2, <1>3, <1>6, <1>7 DEF StackStep, Call, Callbacks, Flushes
<1>9. call_stack' # call_stack
  OBVIOUS
<1>10. ~UserRuns /\ Running \notin {"event loop", "update", "shutdown", "handler", "observer",
                                   "deferred", "release_listener", "notify"}
  BY <1>8 DEF UserRuns, Flushes
<1>11. ~UserStep /\ ~ReturnStep /\ ~StartUpdate /\ ~StartHandler /\ ~Shutdown
  BY <1>10 DEF UserStep, Notify, Observe, DropEntity, DropObserver, Defer, StartInnerUpdate,
               ObserveThemeFile, UserCalls, ReturnStep, FinishUpdate, UpdatePanics,
               ObserverReturns, CallbackReturns, ThemeFlush, ShutdownFlush, StartUpdate,
               StartHandler, Shutdown
<1>12. ~TakeDropped /\ (\A e \in Entities : ~ReleaseEntity(e)) /\ ~ApplyNotify /\ ~ApplyActivate
       /\ ~ApplyDefer
  BY <1>2, <1>9 DEF Call, TakeDropped, ReleaseEntity, ApplyNotify, ApplyActivate, ApplyDefer
<1>13. ~VisitObserver /\ ~ObserverGone /\ ~DispatchEnds
  BY <1>10 DEF VisitObserver, ObserverGone, DispatchEnds
<1> QED
  BY <1>9, <1>11, <1>12, <1>13 DEF Next, FlushStep, vars

\* A shutdown is the last call.
LEMMA QuietKept ==
    ASSUME Cycle, [Next]_vars
    PROVE  Quiet'
<1> USE DEF Cycle, Quiet
<1> SUFFICES ASSUME has_shut_down'
             PROVE  call_stack' = <<>>
  OBVIOUS
<1>1. StackStep
  BY StackSteps
<1>2. CASE has_shut_down
  <2>1. call_stack = <<>> /\ Running = "event loop"
    BY <1>2, RunningCall
  <2> QED
    BY <1>1, <1>2, <2>1 DEF StackStep, Flushing, Callbacks, Flushes
<1>3. CASE ~has_shut_down
  <2>1. Running = "shutdown_flush" /\ call_stack' = Outer
    BY <1>1, <1>3 DEF StackStep
  <2>2. call_stack # <<>>
    BY <2>1, RunningCall
  <2>3. /\ Running = call_stack[Len(call_stack)] /\ Len(Outer) = Len(call_stack) - 1
        /\ Len(call_stack) \in Nat \ {0} /\ Outer \in Seq(Call)
    BY <2>2, StackMoves
  <2>4. Len(call_stack) = 1
    BY <2>1, <2>3 DEF StackShape
  <2> QED
    BY <2>1, <2>3, <2>4
<1> QED
  BY <1>2, <1>3

-----------------------------------------------------------------------------
(* Types.                                                                  *)

\* The types of what a step does to the effects, the entities and the history.
DataTypes ==
    /\ pending_effects \in Seq(Effect) /\ pending_notifications \subseteq Entities
    /\ referenced \subseteq Entities /\ dropped \subseteq Entities
    /\ releasing \in Seq(SUBSET Entities)
    /\ calls \in 0 .. MaxCalls
    /\ owed \in SUBSET Ids
    /\ pass_since \in Seq(0 .. MaxSubscribers)

\* Every step keeps them.
LEMMA DataTypesKept ==
    ASSUME TypeOK, Counters, [Next]_vars
    PROVE  DataTypes'
<1> USE EffectCycleAssumption DEF TypeOK, DataTypes, effects, ownership, history
<1>0. ASSUME NEW flush, BeginFlush(flush) PROVE releasing' \in Seq(SUBSET Entities)
  BY <1>0 DEF BeginFlush
<1>1. CASE StartUpdate \/ StartInnerUpdate
  <2>1. UNCHANGED <<effects, ownership, history>>
    BY <1>1 DEF StartUpdate, StartInnerUpdate, BeginUpdate
  <2>2. calls' \in 0 .. MaxCalls
    <3>1. CASE StartUpdate
      BY <3>1 DEF StartUpdate
    <3>2. CASE StartInnerUpdate
      BY <3>2 DEF StartInnerUpdate, UserCalls
    <3> QED
      BY <1>1, <3>1, <3>2
  <2> QED
    BY <2>1, <2>2
<1>2. CASE Shutdown \/ StartHandler \/ CallbackReturns \/ UpdatePanics \/ ObserverGone
           \/ \E keep \in BOOLEAN : ObserverReturns(keep)
  BY <1>2 DEF Shutdown, StartHandler, CallbackReturns, UpdatePanics, ObserverGone, ObserverReturns
<1>15. CASE ObserveThemeFile
  BY <1>15 DEF ObserveThemeFile, UserCalls
<1>16. CASE FinishUpdate \/ ThemeFlush \/ ShutdownFlush
  <2>1. releasing' \in Seq(SUBSET Entities)
    BY <1>0, <1>16 DEF FinishUpdate, ThemeFlush, ShutdownFlush
  <2>2. referenced' \subseteq Entities /\ dropped' \subseteq Entities
    BY <1>16 DEF FinishUpdate, ThemeFlush, ShutdownFlush
  <2>3. UNCHANGED <<effects, calls, history>>
    BY <1>16 DEF FinishUpdate, ThemeFlush, ShutdownFlush
  <2> QED
    BY <2>1, <2>2, <2>3
<1>17. CASE FlushEnds
  <2>1. Flushing /\ releasing' = Popped(releasing)
    BY <1>17 DEF FlushEnds, Popped
  <2>2. releasing' \in Seq(SUBSET Entities)
    BY <2>1, FlushTop
  <2> QED
    BY <1>17, <2>2 DEF FlushEnds
<1>3. ASSUME NEW e \in Entities, Notify(e) PROVE DataTypes'
  <2>1. [kind |-> "notify", emitter |-> e, since |-> next_subscriber_id] \in Effect
    BY DEF Effect, NotifyEffect, Observers!TypeOK
  <2>2. pending_effects' \in Seq(Effect) /\ pending_notifications' \subseteq Entities
    <3>1. CASE e \in pending_notifications
      BY <1>3, <3>1 DEF Notify, PushNotify
    <3>2. CASE e \notin pending_notifications
      <4>1. /\ pending_notifications' = pending_notifications \cup {e}
            /\ pending_effects' = Append(pending_effects,
                  [kind |-> "notify", emitter |-> e, since |-> next_subscriber_id])
        BY <1>3, <3>2 DEF Notify, PushNotify
      <4> QED
        BY <2>1, <4>1
    <3> QED
      BY <3>1, <3>2
  <2>3. owed' \in SUBSET Ids
    BY <1>3 DEF Notify, Observers!TypeOK, Ids
  <2> QED
    BY <1>3, <2>2, <2>3 DEF Notify, UserCalls
<1>4. ASSUME NEW e \in Entities, Observe(e) PROVE DataTypes'
  <2>1. next_subscriber_id \in Ids
    BY <1>4 DEF Observe, Observers!Insert, Observers!TypeOK, Ids, Observers!Ids
  <2>2. [kind |-> "activate", id |-> next_subscriber_id] \in Effect
    BY <2>1 DEF Effect
  <2>3. pending_effects' \in Seq(Effect)
    BY <1>4, <2>2 DEF Observe
  <2> QED
    BY <1>4, <2>3 DEF Observe, UserCalls
<1>5. CASE Defer
  <2>1. [kind |-> "defer"] \in Effect
    BY DEF Effect
  <2>2. pending_effects' \in Seq(Effect)
    BY <1>5, <2>1 DEF Defer
  <2> QED
    BY <1>5, <2>2 DEF Defer, UserCalls
<1>6. ASSUME NEW i \in Ids, DropObserver(i) PROVE DataTypes'
  BY <1>6 DEF DropObserver
<1>7. ASSUME NEW e \in Entities, DropEntity(e) PROVE DataTypes'
  BY <1>7 DEF DropEntity
<1>18. ASSUME NEW e \in Entities, ReleaseEntity(e) PROVE DataTypes'
  <2>1. Flushing /\ ReleaseRest(Released \ {e})
    BY <1>18 DEF ReleaseEntity
  <2>2. Released \ {e} \in SUBSET Entities
    BY <2>1, FlushTop
  <2>3. releasing' \in Seq(SUBSET Entities)
    BY <2>1, <2>2, FlushTop
  <2> QED
    BY <1>18, <2>3 DEF ReleaseEntity
<1>8. CASE TakeDropped
  <2>1. Flushing /\ ReleaseRest(dropped) /\ dropped' = {}
    BY <1>8 DEF TakeDropped
  <2>2. releasing' \in Seq(SUBSET Entities)
    BY <2>1, FlushTop
  <2> QED
    BY <1>8, <2>1, <2>2 DEF TakeDropped
<1>9. ASSUME NEW kind, PopEffect(kind) PROVE pending_effects' \in Seq(Effect)
  BY <1>9, EffectPopped
<1>10. CASE ApplyNotify
  <2>1. pending_effects' \in Seq(Effect)
    BY <1>9, <1>10 DEF ApplyNotify
  <2>2. Head(pending_effects).since \in 0 .. MaxSubscribers
    BY <1>10, EffectPopped, EffectFields DEF ApplyNotify
  <2>3. pass_since' \in Seq(0 .. MaxSubscribers)
    <3>1. \/ pass_since' = pass_since
          \/ pass_since' = Append(pass_since, Head(pending_effects).since)
      BY <1>10 DEF ApplyNotify
    <3>2. pass_since \in Seq(0 .. MaxSubscribers)
      OBVIOUS
    <3>3. Append(pass_since, Head(pending_effects).since) \in Seq(0 .. MaxSubscribers)
      BY <2>2, <3>2, StackPush
    <3> QED
      BY <3>1, <3>2, <3>3
  <2> QED
    BY <1>10, <2>1, <2>3 DEF ApplyNotify
<1>11. CASE ApplyActivate \/ ApplyDefer
  <2>1. pending_effects' \in Seq(Effect)
    BY <1>9, <1>11 DEF ApplyActivate, ApplyDefer
  <2> QED
    BY <1>11, <2>1 DEF ApplyActivate, ApplyDefer
<1>12. CASE VisitObserver
  <2>1. owed' \subseteq owed
    BY <1>12 DEF VisitObserver
  <2> QED
    BY <1>12, <2>1 DEF VisitObserver
<1>13. CASE DispatchEnds
  <2>1. pass_since' = Popped(pass_since)
    BY <1>13 DEF DispatchEnds, Popped
  <2>2. pass_since' \in Seq(0 .. MaxSubscribers)
    <3>1. CASE pass_since = <<>>
      <4>1. Len(pass_since) - 1 < 1 /\ Len(pass_since) - 1 \in Int
        BY <3>1
      <4>2. pass_since' = <<>>
        BY <2>1, <4>1, SubSeqEmpty DEF Popped
      <4> QED
        BY <4>2
    <3> QED
      BY <2>1, <3>1, StackPop
  <2> QED
    BY <1>13, <2>2 DEF DispatchEnds
<1>14. CASE UNCHANGED vars
  BY <1>14 DEF vars
<1> QED
  BY <1>1, <1>2, <1>3, <1>4, <1>5, <1>6, <1>7, <1>8, <1>10, <1>11, <1>12, <1>13, <1>14, <1>15,
     <1>16, <1>17, <1>18
  DEF Next, UserStep, FlushStep, ReturnStep

\* Every variable keeps its type: no counter goes below zero or above the
\* updates that may be in progress.
LEMMA CycleKept ==
    ASSUME Cycle, [Next]_vars
    PROVE  Cycle'
<1>1. StackStep
  BY StackSteps DEF Cycle
<1>2. Counters' /\ StackShape' /\ call_stack' \in Seq(Call)
  BY <1>1, CountersKept, ShapeKept DEF Cycle
<1>3. pending_updates' >= 0
  <2>1. Cardinality(Places(call_stack', {"update", "flush"})) \in Nat
    BY <1>2, PlacesCount
  <2>2. pending_updates' \in Int
    BY <1>1, EffectCycleAssumption DEF StackStep, cycle, Cycle, TypeOK
  <2> QED
    BY <1>2, <2>1, <2>2 DEF Counters
<1>4. /\ pending_updates' \in 0 .. MaxUpdates /\ flushing_effects' \in BOOLEAN
      /\ has_shut_down' \in BOOLEAN /\ nested' \in BOOLEAN /\ panicked' \in BOOLEAN
  <2>1. \/ pending_updates' \in {pending_updates, pending_updates - 1}
        \/ pending_updates < MaxUpdates /\ pending_updates' = pending_updates + 1
    BY <1>1 DEF StackStep, cycle
  <2>2. pending_updates' \in 0 .. MaxUpdates
    BY <1>3, <2>1, EffectCycleAssumption DEF Cycle, TypeOK
  <2>3. /\ flushing_effects' \in {flushing_effects, TRUE, FALSE}
        /\ has_shut_down' \in {has_shut_down, TRUE} /\ panicked' \in {panicked, TRUE}
        /\ nested' \in {nested, TRUE}
    BY <1>1, Zenon DEF StackStep, cycle, SameFlushes, FlushBegins, Cycle, TypeOK
  <2> QED
    BY <2>2, <2>3 DEF Cycle, TypeOK
<1>5. Observers!TypeOK'
  BY StepsOfRegistry, RegistryTypes DEF Cycle, TypeOK
<1>6. DataTypes'
  BY DataTypesKept DEF Cycle
<1>7. TypeOK'
  BY <1>2, <1>4, <1>5, <1>6 DEF TypeOK, DataTypes
<1> QED
  BY <1>2, <1>7, QuietKept DEF Cycle

-----------------------------------------------------------------------------
(* Released entities have no observers.                                    *)

\* What the flushes in progress have taken and not yet processed.
InRelease == {e \in Entities : \E n \in 1 .. Len(releasing) : e \in releasing[n]}

\* A flush that begins or ends changes nothing about it, and one that goes
\* on only its own.
LEMMA ReleaseMoves ==
    ASSUME TypeOK, Counters
    PROVE  /\ releasing' = releasing => InRelease' = InRelease
           /\ \A flush : BeginFlush(flush) => InRelease' = InRelease
           /\ FlushEnds => InRelease' = InRelease
           /\ Flushing => \A S \in SUBSET Entities :
                  ReleaseRest(S) => S \cup (InRelease \ Released) \subseteq InRelease'
<1>1. releasing' = releasing => InRelease' = InRelease
  BY DEF InRelease
<1>2. ASSUME NEW flush, BeginFlush(flush) PROVE InRelease' = InRelease
  <2>1. releasing \in Seq(SUBSET Entities) /\ {} \in SUBSET Entities
    BY DEF TypeOK
  <2>2. /\ Len(releasing) \in Nat /\ Len(releasing') = Len(releasing) + 1
        /\ releasing'[Len(releasing) + 1] = {}
        /\ \A n \in 1 .. Len(releasing) : releasing'[n] = releasing[n]
    BY <1>2, <2>1, StackPush DEF BeginFlush
  <2>3. \A n \in 1 .. Len(releasing') : n \in 1 .. Len(releasing) \/ n = Len(releasing) + 1
    BY <2>2
  <2> QED
    BY <2>2, <2>3 DEF InRelease
<1>3. ASSUME FlushEnds PROVE InRelease' = InRelease
  <2>1. Flushing /\ Released = {} /\ releasing' = Popped(releasing)
    BY <1>3 DEF FlushEnds, Popped
  <2>2. /\ Len(releasing) \in Nat \ {0} /\ releasing[Len(releasing)] = {}
        /\ Len(releasing') = Len(releasing) - 1
        /\ \A n \in 1 .. Len(releasing) - 1 : releasing'[n] = releasing[n]
    BY <2>1, FlushTop
  <2>3. \A n \in 1 .. Len(releasing) : n \in 1 .. Len(releasing') \/ n = Len(releasing)
    BY <2>2
  <2> QED
    BY <2>2, <2>3 DEF InRelease
<1>4. ASSUME Flushing, NEW S \in SUBSET Entities, ReleaseRest(S)
      PROVE  S \cup (InRelease \ Released) \subseteq InRelease'
  <2>1. /\ Len(releasing) \in Nat \ {0} /\ Released = releasing[Len(releasing)]
        /\ Len(releasing') = Len(releasing) /\ releasing'[Len(releasing)] = S
        /\ \A n \in 1 .. Len(releasing) - 1 : releasing'[n] = releasing[n]
    BY <1>4, FlushTop
  <2>2. \A n \in 1 .. Len(releasing) : n \in 1 .. Len(releasing) - 1 \/ n = Len(releasing)
    BY <2>1
  <2>3. Len(releasing) \in 1 .. Len(releasing')
    BY <2>1
  <2> QED
    BY <2>1, <2>2, <2>3 DEF InRelease
<1> QED
  BY <1>1, <1>2, <1>3, <1>4

\* Unless flushes are nested, an entity without a handle waits to be
\* released, or nobody observes it any more.
Cleared(e) == \/ e \in dropped \cup InRelease
              \/ registered[e] = {} /\ \A n \in 1 .. Len(frames) : frames[n].emitter # e

ReleasedUnobserved == ~nested => \A e \in Entities \ referenced : Cleared(e)

\* Removing its observers clears an entity, and a step registers observers, or
\* begins a dispatch, only for an entity that has a handle or has observers.
LEMMA ReleasedKept ==
    ASSUME Cycle, ReleasedUnobserved, [Next]_vars
    PROVE  ReleasedUnobserved'
<1> SUFFICES ASSUME ~nested', NEW e \in Entities, e \notin referenced'
             PROVE  Cleared(e)'
  BY DEF ReleasedUnobserved
<1>1. /\ Observers!TypeOK /\ TypeOK /\ registered \in [Entities -> SUBSET Observers!Ids]
      /\ frames \in Seq(Observers!Frame)
  BY DEF Cycle, TypeOK, Observers!TypeOK
<1>2. ~nested
  BY NestedLasts DEF Cycle
<1>3. e \notin referenced => Cleared(e)
  BY <1>2 DEF ReleasedUnobserved
<1>4. ASSUME e \notin referenced, dropped \cup InRelease \subseteq dropped' \cup InRelease',
             e \notin dropped' \cup InRelease' => registered'[e] \subseteq registered[e],
             \A n \in 1 .. Len(frames') :
                \/ frames'[n].emitter # e
                \/ \E m \in 1 .. Len(frames) : frames[m].emitter = frames'[n].emitter
      PROVE  Cleared(e)'
  BY <1>3, <1>4 DEF Cleared
<1>5. ASSUME UNCHANGED <<referenced, dropped, registered, frames>>, InRelease' = InRelease
      PROVE  Cleared(e)'
  BY <1>3, <1>5 DEF Cleared
<1>21. releasing' = releasing => InRelease' = InRelease
  BY ReleaseMoves DEF Cycle
<1>6. CASE StartUpdate \/ StartInnerUpdate \/ StartHandler \/ ObserveThemeFile \/ Shutdown
           \/ UpdatePanics \/ CallbackReturns \/ Defer \/ ApplyDefer
  BY <1>5, <1>6, <1>21
  DEF StartUpdate, StartInnerUpdate, BeginUpdate, StartHandler, ObserveThemeFile, Shutdown,
      UpdatePanics, CallbackReturns, Defer, ApplyDefer, ownership, observers
<1>22. CASE FinishUpdate \/ ThemeFlush \/ FlushEnds
  <2>1. releasing' = releasing \/ (\E flush : BeginFlush(flush)) \/ FlushEnds
    BY <1>22 DEF FinishUpdate, ThemeFlush
  <2>2. InRelease' = InRelease
    BY <2>1, ReleaseMoves DEF Cycle
  <2> QED
    BY <1>5, <1>22, <2>2 DEF FinishUpdate, ThemeFlush, FlushEnds, observers
<1>7. ASSUME NEW k \in Entities, Notify(k) PROVE Cleared(e)'
  BY <1>5, <1>7, <1>21 DEF Notify, ownership, observers
<1>8. CASE ShutdownFlush
  <2>1. PICK gone \in SUBSET referenced :
            referenced' = referenced \ gone /\ dropped' = dropped \cup gone
    BY <1>8 DEF ShutdownFlush
  <2>2. InRelease' = InRelease /\ UNCHANGED <<registered, frames>>
    BY <1>8, ReleaseMoves DEF ShutdownFlush, Cycle, observers
  <2>3. CASE e \in gone
    BY <2>1, <2>3 DEF Cleared
  <2>4. CASE e \notin gone
    BY <1>4, <2>1, <2>2, <2>4
  <2> QED
    BY <2>3, <2>4
<1>9. ASSUME NEW k \in Entities, Observe(k) PROVE Cleared(e)'
  <2>1. /\ k \in referenced /\ UNCHANGED <<referenced, dropped, releasing, frames>>
        /\ registered' = [registered EXCEPT ![k] = @ \cup {next_subscriber_id}]
    BY <1>9 DEF Observe, Observers!Insert, ownership
  <2>2. registered'[e] = registered[e]
    BY <1>1, <2>1
  <2> QED
    BY <1>4, <1>21, <2>1, <2>2
<1>10. ASSUME NEW i \in Ids, DropObserver(i) PROVE Cleared(e)'
  <2>1. /\ UNCHANGED <<referenced, dropped, releasing, frames>>
        /\ registered' = [registered EXCEPT ![emitter_key[i]] = @ \ {i}]
    BY <1>10 DEF DropObserver, Observers!DropSubscription, Observers!Unsubscribe, ownership
  <2>2. registered'[e] \subseteq registered[e]
    BY <1>1, <2>1
  <2> QED
    BY <1>4, <1>21, <2>1, <2>2
<1>11. ASSUME NEW k \in Entities, DropEntity(k) PROVE Cleared(e)'
  <2>1. /\ referenced' = referenced \ {k} /\ dropped' = dropped \cup {k}
        /\ UNCHANGED <<releasing, registered, frames>>
    BY <1>11 DEF DropEntity, observers
  <2>2. CASE k = e
    BY <2>1, <2>2 DEF Cleared
  <2>3. CASE k # e
    BY <1>4, <1>21, <2>1, <2>3
  <2> QED
    BY <2>2, <2>3
<1>12. CASE TakeDropped
  <2>1. /\ Flushing /\ Released = {} /\ ReleaseRest(dropped)
        /\ UNCHANGED <<referenced, registered, frames>>
    BY <1>12 DEF TakeDropped, observers
  <2>2. dropped \cup InRelease \subseteq InRelease'
    BY <1>1, <2>1, ReleaseMoves DEF Cycle, TypeOK
  <2> QED
    BY <1>4, <2>1, <2>2
<1>13. ASSUME NEW k \in Entities, ReleaseEntity(k) PROVE Cleared(e)'
  <2>0. Flushing /\ ReleaseRest(Released \ {k}) /\ Released \ {k} \subseteq Entities
    BY <1>13, FlushTop DEF ReleaseEntity, Cycle
  <2>5. InRelease \ {k} \subseteq InRelease'
    BY <2>0, ReleaseMoves DEF Cycle
  <2>1. /\ UNCHANGED <<referenced, dropped, frames>>
        /\ registered' = [registered EXCEPT ![k] = {}]
    <3>1. CASE k \in taken \/ registered[k] # {}
      BY <1>13, <3>1 DEF ReleaseEntity, Observers!Remove
    <3>2. CASE ~(k \in taken \/ registered[k] # {})
      <4>1. UNCHANGED observers /\ registered[k] = {}
        BY <1>13, <3>2 DEF ReleaseEntity
      <4> QED
        BY <1>1, <1>13, <4>1 DEF ReleaseEntity, observers
    <3> QED
      BY <3>1, <3>2
  <2>2. Len(frames) = 0
    BY <1>2, <2>0, FlushRunsAlone DEF Cycle
  <2>3. CASE k = e
    BY <1>1, <2>1, <2>2, <2>3 DEF Cleared
  <2>4. CASE k # e
    <3>1. e \notin InRelease' => e \notin InRelease
      BY <2>4, <2>5
    <3> QED
      BY <1>1, <1>3, <2>1, <2>2, <2>4, <3>1 DEF Cleared
  <2> QED
    BY <2>3, <2>4
<1>14. CASE ApplyNotify
  <2> DEFINE k == Head(pending_effects).emitter
  <2>1. /\ k \in Entities /\ Released = {} /\ dropped = {} /\ Flushing
        /\ UNCHANGED <<referenced, dropped, releasing>>
    BY <1>1, <1>14, EffectPopped, EffectFields DEF ApplyNotify, PopEffect, ownership
  <2>5. InRelease = {}
    <3>1. Len(releasing) = 1 /\ Released = releasing[Len(releasing)]
      BY <1>2, <2>1, FlushRunsAlone, FlushTop DEF Cycle
    <3> QED
      BY <2>1, <3>1 DEF InRelease
  <2>2. registered[e] = {}
    BY <1>3, <2>1, <2>5 DEF Cleared
  <2>3. CASE registered[k] = {}
    BY <1>5, <1>14, <1>21, <2>1, <2>3 DEF ApplyNotify, observers
  <2>4. CASE registered[k] # {}
    <3>1. Observers!RetainBegin(k) /\ k # e
      BY <1>14, <2>2, <2>4 DEF ApplyNotify
    <3> HIDE DEF k
    <3>2. /\ \A n \in 1 .. Len(frames) : frames'[n] = frames[n]
          /\ frames'[Len(frames) + 1].emitter = k
          /\ Len(frames) \in Nat /\ Len(frames') = Len(frames) + 1
      BY <1>1, <2>1, <3>1, Begun
    <3>3. \A n \in 1 .. Len(frames') : n \in 1 .. Len(frames) \/ n = Len(frames) + 1
      BY <3>2
    <3>4. registered' = [registered EXCEPT ![k] = {}]
      BY <3>1 DEF Observers!RetainBegin
    <3> QED
      BY <1>1, <1>4, <1>21, <2>1, <3>1, <3>2, <3>3, <3>4
  <2> QED
    BY <2>3, <2>4
<1>15. CASE ApplyActivate
  BY <1>5, <1>15, <1>21 DEF ApplyActivate, Observers!Activate, ownership
<1>16. ASSUME Len(frames') = Len(frames), frames # <<>>,
              UNCHANGED <<referenced, dropped, releasing, registered>>,
              \A n \in 1 .. Len(frames) - 1 : frames'[n] = frames[n],
              frames'[Len(frames)].emitter = Observers!Top.emitter
       PROVE  Cleared(e)'
  <2>1. Len(frames) \in Nat \ {0} /\ Observers!Top = frames[Len(frames)]
    BY <1>1, <1>16, DispatchTop
  <2>2. \A n \in 1 .. Len(frames') : n \in 1 .. Len(frames) - 1 \/ n = Len(frames)
    BY <1>16, <2>1
  <2>3. \A n \in 1 .. Len(frames') : n \in 1 .. Len(frames) /\
            frames[n].emitter = frames'[n].emitter
    BY <1>16, <2>1, <2>2
  <2> QED
    BY <1>4, <1>16, <1>21, <2>3
<1>17. CASE VisitObserver
  <2>1. UNCHANGED <<referenced, dropped, releasing, registered>> /\ Observers!RetainVisit
    BY <1>17 DEF VisitObserver, Observers!RetainVisit, ownership
  <2> QED
    BY <1>1, <1>16, <2>1, Visited
<1>18. CASE ObserverGone \/ \E keep \in BOOLEAN : ObserverReturns(keep)
  <2>1. PICK keep \in BOOLEAN : Observers!CallbackReturns(keep)
    BY <1>18 DEF ObserverGone, ObserverReturns
  <2>2. UNCHANGED <<referenced, dropped, releasing, registered>>
    BY <1>18 DEF ObserverGone, ObserverReturns, Observers!CallbackReturns, ownership
  <2> QED
    BY <1>1, <1>16, <2>1, <2>2, Returned
<1>19. CASE DispatchEnds
  <2>1. /\ Observers!RetainEnd /\ UNCHANGED <<referenced, dropped, releasing>>
        /\ registered' = [registered EXCEPT ![Observers!Top.emitter] = Observers!PutBack]
    BY <1>19 DEF DispatchEnds, Observers!RetainEnd, ownership
  <2>2. /\ Len(frames) \in Nat \ {0} /\ Observers!Top = frames[Len(frames)]
        /\ Len(frames') = Len(frames) - 1
        /\ \A n \in 1 .. Len(frames) - 1 : frames'[n] = frames[n]
    BY <1>1, <2>1, Ended
  <2>3. e \notin dropped \cup InRelease => Observers!Top.emitter # e
    BY <1>3, <2>1, <2>2 DEF Cleared
  <2> QED
    BY <1>1, <1>4, <1>21, <2>1, <2>2, <2>3
<1>20. CASE UNCHANGED vars
  BY <1>5, <1>20, <1>21 DEF vars, ownership, observers
<1> QED
  BY <1>6, <1>7, <1>8, <1>9, <1>10, <1>11, <1>12, <1>13, <1>14, <1>15, <1>17, <1>18, <1>19,
     <1>20, <1>22 DEF Next, UserStep, FlushStep, ReturnStep

-----------------------------------------------------------------------------
(* What the registry knows.                                                *)

\* In the map, or in a dispatch.
Known(i) == \/ \E e \in Entities : i \in registered[e]
            \/ \E n \in 1 .. Len(frames) : i \in Observers!Members(frames[n])

\* That is what Live says.
LEMMA LiveIs ==
    \A i : (i \in Observers!Live <=> Known(i)) /\ (i \in Observers!Live' <=> Known(i)')
BY DEF Observers!Live, Observers!FramesOf, Known

\* The registry never finds a subscriber it had lost; what a subscriber
\* observes is fixed, and a Subscription that was dropped stays dropped.
LEMMA KnownShrinks ==
    ASSUME Observers!TypeOK, [Observers!Next]_Observers!vars,
           NEW i \in Ids, i < next_subscriber_id
    PROVE  /\ Known(i)' => Known(i)
           /\ emitter_key'[i] = emitter_key[i]
           /\ handle[i] = "dropped" => handle'[i] = "dropped"
<1> DEFINE Goal == /\ Known(i)' => Known(i)
                   /\ emitter_key'[i] = emitter_key[i]
                   /\ handle[i] = "dropped" => handle'[i] = "dropped"
<1> USE DEF Ids
<1>1. /\ registered \in [Entities -> SUBSET Observers!Ids] /\ frames \in Seq(Observers!Frame)
      /\ handle \in [Observers!Ids -> {"none", "held", "dropped", "detached"}]
      /\ emitter_key \in [Observers!Ids -> Entities] /\ next_subscriber_id \in Nat
  BY EffectCycleAssumption DEF Observers!TypeOK
<1>2. ASSUME UNCHANGED <<emitter_key, frames>>,
             \A e \in Entities : i \in registered'[e] => i \in registered[e],
             handle[i] = "dropped" => handle'[i] = "dropped"
      PROVE  Goal
  BY <1>2 DEF Known
<1>3. ASSUME NEW e \in Entities, Observers!Insert(e) PROVE Goal
  <2>1. /\ i # next_subscriber_id /\ frames' = frames
        /\ registered' = [registered EXCEPT ![e] = @ \cup {next_subscriber_id}]
        /\ handle' = [handle EXCEPT ![next_subscriber_id] = "held"]
        /\ emitter_key' = [emitter_key EXCEPT ![next_subscriber_id] = e]
    BY <1>1, <1>3 DEF Observers!Insert, Observers!Ids
  <2>2. emitter_key'[i] = emitter_key[i] /\ handle'[i] = handle[i]
    BY <1>1, <2>1
  <2>3. \A k \in Entities : i \in registered'[k] => i \in registered[k]
    BY <1>1, <2>1
  <2> QED
    BY <2>1, <2>2, <2>3 DEF Known
<1>4. ASSUME NEW e \in Entities, Observers!Remove(e) PROVE Goal
  <2>1. registered' = [registered EXCEPT ![e] = {}] /\ UNCHANGED <<emitter_key, frames, handle>>
    BY <1>4 DEF Observers!Remove
  <2> QED
    BY <1>1, <1>2, <2>1
<1>5. ASSUME NEW e \in Entities, Observers!RetainBegin(e) PROVE Goal
  <2>1. registered' = [registered EXCEPT ![e] = {}] /\ UNCHANGED <<emitter_key, handle>>
    BY <1>5 DEF Observers!RetainBegin
  <2>2. /\ Len(frames) \in Nat /\ Len(frames') = Len(frames) + 1
        /\ \A n \in 1 .. Len(frames) : frames'[n] = frames[n]
        /\ Observers!Members(frames'[Len(frames) + 1]) = registered[e]
    BY <1>5, Begun DEF Observers!Members
  <2>3. \A k \in Entities : i \in registered'[k] => i \in registered[k]
    BY <1>1, <2>1
  <2>4. \A n \in 1 .. Len(frames') : n \in 1 .. Len(frames) \/ n = Len(frames) + 1
    BY <2>2
  <2> QED
    BY <2>1, <2>2, <2>3, <2>4 DEF Known
<1>6. ASSUME NEW j \in Observers!Ids,
             Observers!Activate(j) \/ Observers!DropSubscription(j) \/ Observers!Detach(j)
      PROVE Goal
  <2>1. CASE Observers!Activate(j)
    BY <1>2, <2>1 DEF Observers!Activate
  <2>2. CASE Observers!DropSubscription(j)
    <3>1. /\ registered' = [registered EXCEPT ![emitter_key[j]] = @ \ {j}]
          /\ handle' = [handle EXCEPT ![j] = "dropped"] /\ UNCHANGED <<emitter_key, frames>>
      BY <2>2 DEF Observers!DropSubscription, Observers!Unsubscribe
    <3> QED
      BY <1>1, <1>2, <3>1
  <2>3. CASE Observers!Detach(j)
    <3>1. /\ handle[j] = "held" /\ handle' = [handle EXCEPT ![j] = "detached"]
          /\ UNCHANGED <<registered, emitter_key, frames>>
      BY <2>3 DEF Observers!Detach
    <3> QED
      BY <1>1, <1>2, <3>1
  <2> QED
    BY <1>6, <2>1, <2>2, <2>3
<1>7. ASSUME frames # <<>>, Len(frames') = Len(frames),
             UNCHANGED <<registered, emitter_key, handle>>,
             \A n \in 1 .. Len(frames) - 1 : frames'[n] = frames[n],
             Observers!Members(frames'[Len(frames)]) \subseteq Observers!Members(Observers!Top)
      PROVE  Goal
  <2>1. Len(frames) \in Nat \ {0} /\ Observers!Top = frames[Len(frames)]
    BY <1>1, <1>7, DispatchTop
  <2>2. \A n \in 1 .. Len(frames') : n \in 1 .. Len(frames) - 1 \/ n = Len(frames)
    BY <1>7, <2>1
  <2>3. \A n \in 1 .. Len(frames') :
            n \in 1 .. Len(frames) /\ Observers!Members(frames'[n]) \subseteq
                                        Observers!Members(frames[n])
    BY <1>7, <2>1, <2>2
  <2> QED
    BY <1>7, <2>3 DEF Known
<1>8. CASE Observers!RetainVisit
  <2>1. Observers!Members(frames'[Len(frames)]) \subseteq Observers!Members(Observers!Top)
    BY <1>8, Visited DEF Observers!Members
  <2> QED
    BY <1>7, <1>8, <2>1, Visited DEF Observers!RetainVisit
<1>9. ASSUME NEW keep \in BOOLEAN, Observers!CallbackReturns(keep) PROVE Goal
  <2>1. Observers!Members(frames'[Len(frames)]) \subseteq Observers!Members(Observers!Top)
    BY <1>9, Returned DEF Observers!Members
  <2> QED
    BY <1>7, <1>9, <2>1, Returned DEF Observers!CallbackReturns
<1>10. CASE Observers!RetainEnd
  <2>1. /\ registered' = [registered EXCEPT ![Observers!Top.emitter] = Observers!PutBack]
        /\ UNCHANGED <<emitter_key, handle>>
    BY <1>10 DEF Observers!RetainEnd
  <2>2. /\ Len(frames) \in Nat \ {0} /\ Len(frames') = Len(frames) - 1
        /\ \A n \in 1 .. Len(frames) - 1 : frames'[n] = frames[n]
        /\ Observers!Top \in Observers!Frame /\ Observers!Top = frames[Len(frames)]
        /\ Observers!PutBack \subseteq
              Observers!Members(Observers!Top) \cup registered[Observers!Top.emitter]
    BY <1>10, Ended DEF Observers!Members
  <2>3. Observers!Top.emitter \in Entities
    BY <2>2 DEF Observers!Frame
  <2>4. ASSUME NEW k \in Entities, i \in registered'[k] PROVE Known(i)
    BY <1>1, <2>1, <2>2, <2>3, <2>4 DEF Known
  <2>5. ASSUME NEW n \in 1 .. Len(frames'), i \in Observers!Members(frames'[n]) PROVE Known(i)
    BY <2>2, <2>5 DEF Known
  <2> QED
    BY <2>1, <2>4, <2>5 DEF Known
<1>11. CASE UNCHANGED Observers!vars
  BY <1>2, <1>11 DEF Observers!vars
<1> QED
  BY <1>3, <1>4, <1>5, <1>6, <1>8, <1>9, <1>10, <1>11 DEF Observers!Next

\* No entity gets its handle back.
LEMMA HandlesGo ==
    ASSUME [Next]_vars
    PROVE  referenced' \subseteq referenced
<1> USE DEF ownership
<1>1. CASE StartUpdate \/ StartHandler \/ Shutdown
  BY <1>1 DEF StartUpdate, BeginUpdate, StartHandler, Shutdown
<1>2. CASE UserStep
  BY <1>2 DEF UserStep, Notify, Observe, DropEntity, DropObserver, Defer, StartInnerUpdate,
              BeginUpdate, ObserveThemeFile
<1>3. CASE FlushStep
  BY <1>3 DEF FlushStep, TakeDropped, ReleaseEntity, ApplyNotify, ApplyActivate, ApplyDefer,
              VisitObserver, ObserverGone, DispatchEnds, FlushEnds
<1>4. CASE ReturnStep
  BY <1>4 DEF ReturnStep, FinishUpdate, UpdatePanics, ObserverReturns, CallbackReturns,
              ThemeFlush, ShutdownFlush
<1> QED
  BY <1>1, <1>2, <1>3, <1>4 DEF Next, vars

\* An observer that is still to be served was to be served before.
LEMMA UnservedBefore ==
    ASSUME TypeOK, [Next]_vars, NEW i \in Ids, i < next_subscriber_id
    PROVE  emitter_key'[i] = emitter_key[i] /\ (Unserved(i)' => Unserved(i))
<1>1. Observers!TypeOK /\ [Observers!Next]_Observers!vars
  BY StepsOfRegistry DEF TypeOK
<1>2. /\ Known(i)' => Known(i)
      /\ emitter_key'[i] = emitter_key[i]
      /\ handle[i] = "dropped" => handle'[i] = "dropped"
  BY <1>1, KnownShrinks
<1> QED
  BY <1>2, LiveIs, HandlesGo DEF Unserved

-----------------------------------------------------------------------------
(* The queue of effects and the activation of observers.                   *)

\* What a step does to the queue, to the notifications in it and to the
\* observers that are active.
QueueStep ==
    \/ UNCHANGED <<effects, active, next_subscriber_id>>
    \/ \E e \in Entities \ pending_notifications :
        /\ pending_notifications' = pending_notifications \cup {e}
        /\ pending_effects' = Append(pending_effects,
               [kind |-> "notify", emitter |-> e, since |-> next_subscriber_id])
        /\ UNCHANGED <<active, next_subscriber_id>>
    \/ /\ next_subscriber_id < MaxSubscribers
       /\ pending_effects' = Append(pending_effects,
               [kind |-> "activate", id |-> next_subscriber_id])
       /\ next_subscriber_id' = next_subscriber_id + 1
       /\ UNCHANGED <<pending_notifications, active>>
    \/ /\ pending_effects' = Append(pending_effects, [kind |-> "defer"])
       /\ UNCHANGED <<pending_notifications, active, next_subscriber_id>>
    \/ /\ pending_effects # <<>> /\ pending_effects' = Tail(pending_effects)
       /\ LET x == Head(pending_effects) IN
          /\ pending_notifications' = IF x.kind = "notify"
                                        THEN pending_notifications \ {x.emitter}
                                        ELSE pending_notifications
          /\ active' = IF x.kind = "activate" THEN active \cup {x.id} ELSE active
       /\ UNCHANGED next_subscriber_id

\* Every step is one of those.
LEMMA QueueSteps ==
    ASSUME TypeOK, [Next]_vars
    PROVE  QueueStep
<1> USE DEF effects
<1>1. CASE StartUpdate \/ StartInnerUpdate \/ StartHandler \/ ObserveThemeFile \/ Shutdown
           \/ FinishUpdate \/ UpdatePanics \/ CallbackReturns \/ FlushEnds \/ TakeDropped
           \/ ThemeFlush \/ ShutdownFlush
  BY <1>1 DEF QueueStep, StartUpdate, StartInnerUpdate, BeginUpdate, StartHandler,
              ObserveThemeFile, Shutdown, FinishUpdate, UpdatePanics, CallbackReturns, FlushEnds,
              TakeDropped, ThemeFlush, ShutdownFlush, observers
<1>2. ASSUME NEW e \in Entities, Notify(e) PROVE QueueStep
  <2>1. PushNotify(e) /\ UNCHANGED <<active, next_subscriber_id>>
    BY <1>2 DEF Notify, observers
  <2>2. CASE e \in pending_notifications
    BY <2>1, <2>2 DEF QueueStep, PushNotify
  <2>3. CASE e \notin pending_notifications
    BY <2>1, <2>3 DEF QueueStep, PushNotify
  <2> QED
    BY <2>2, <2>3
<1>3. ASSUME NEW e \in Entities, Observe(e) PROVE QueueStep
  BY <1>3 DEF QueueStep, Observe, Observers!Insert
<1>4. ASSUME NEW e \in Entities, DropEntity(e) PROVE QueueStep
  BY <1>4 DEF QueueStep, DropEntity, observers
<1>5. ASSUME NEW i \in Ids, DropObserver(i) PROVE QueueStep
  BY <1>5 DEF QueueStep, DropObserver, Observers!DropSubscription
<1>6. CASE Defer
  BY <1>6 DEF QueueStep, Defer, observers
<1>7. ASSUME NEW e \in Entities, ReleaseEntity(e) PROVE QueueStep
  BY <1>7 DEF QueueStep, ReleaseEntity, Observers!Remove, observers
<1>8. CASE ApplyNotify
  <2>1. UNCHANGED <<active, next_subscriber_id>>
    BY <1>8 DEF ApplyNotify, Observers!RetainBegin, observers
  <2> QED
    BY <1>8, <2>1 DEF QueueStep, ApplyNotify, PopEffect
<1>9. CASE ApplyActivate
  BY <1>9 DEF QueueStep, ApplyActivate, PopEffect, Observers!Activate
<1>10. CASE ApplyDefer
  BY <1>10 DEF QueueStep, ApplyDefer, PopEffect, observers
<1>11. CASE VisitObserver
  BY <1>11 DEF QueueStep, VisitObserver, Observers!RetainVisit
<1>12. CASE ObserverGone \/ \E keep \in BOOLEAN : ObserverReturns(keep)
  BY <1>12 DEF QueueStep, ObserverGone, ObserverReturns, Observers!CallbackReturns
<1>13. CASE DispatchEnds
  BY <1>13 DEF QueueStep, DispatchEnds, Observers!RetainEnd
<1>14. CASE UNCHANGED vars
  BY <1>14 DEF QueueStep, vars, observers
<1> QED
  BY <1>1, <1>2, <1>3, <1>4, <1>5, <1>6, <1>7, <1>8, <1>9, <1>10, <1>11, <1>12, <1>13, <1>14
  DEF Next, UserStep, FlushStep, ReturnStep

\* An observer that is active, or whose activation is queued before a
\* notification, was inserted before that notification was queued.
Dated ==
    /\ \A i \in active : i < next_subscriber_id
    /\ \A n \in 1 .. Len(pending_effects) :
        pending_effects[n].kind = "activate" => pending_effects[n].id < next_subscriber_id
    /\ \A n \in 1 .. Len(pending_effects) :
        pending_effects[n].kind = "notify" =>
            \A i \in active : i < pending_effects[n].since
    /\ \A n \in 1 .. Len(pending_effects) : \A m \in 1 .. n - 1 :
        pending_effects[n].kind = "notify" /\ pending_effects[m].kind = "activate" =>
            pending_effects[m].id < pending_effects[n].since

\* An entity whose notifications are merged has one in the queue.
Merged ==
    \A e \in pending_notifications : \E n \in 1 .. Len(pending_effects) :
        pending_effects[n].kind = "notify" /\ pending_effects[n].emitter = e

\* The queue is applied in the order in which it was filled, so no observer
\* becomes active ahead of a notification it is not to hear of; and what is
\* taken from the front was merged with nothing behind it.
LEMMA QueueKept ==
    ASSUME TypeOK, Dated, Merged, [Next]_vars
    PROVE  Dated' /\ Merged'
<1>1. pending_effects \in Seq(Effect) /\ Len(pending_effects) \in Nat /\ QueueStep
  BY QueueSteps DEF TypeOK
<1>2. next_subscriber_id \in Nat /\ active \subseteq Nat
  BY EffectCycleAssumption DEF TypeOK, Observers!TypeOK, Observers!Ids
<1>3. ASSUME NEW x, pending_effects' = Append(pending_effects, x)
      PROVE  /\ Len(pending_effects') = Len(pending_effects) + 1
             /\ pending_effects'[Len(pending_effects) + 1] = x
             /\ \A n \in 1 .. Len(pending_effects) : pending_effects'[n] = pending_effects[n]
             /\ \A n \in 1 .. Len(pending_effects') :
                    n \in 1 .. Len(pending_effects) \/ n = Len(pending_effects) + 1
  <2> DEFINE S == Effect \cup {x}
  <2>1. pending_effects \in Seq(S) /\ x \in S
    BY <1>1
  <2> HIDE DEF S
  <2> QED
    BY <1>3, <2>1, StackPush
<1>4. ASSUME NEW x, pending_effects' = Append(pending_effects, x),
              active' = active, next_subscriber_id' \in Nat,
              next_subscriber_id <= next_subscriber_id',
              x.kind = "activate" => x.id < next_subscriber_id',
              x.kind = "notify" => x.since = next_subscriber_id
       PROVE  Dated'
  <2> DEFINE last == Len(pending_effects) + 1
  <2>1. /\ Len(pending_effects') = last /\ pending_effects'[last] = x
        /\ \A n \in 1 .. Len(pending_effects) : pending_effects'[n] = pending_effects[n]
        /\ \A n \in 1 .. Len(pending_effects') : n \in 1 .. Len(pending_effects) \/ n = last
    BY <1>3, <1>4
  <2>2. \A n \in 1 .. Len(pending_effects) : pending_effects[n].kind = "activate" =>
            pending_effects[n].id \in Nat
    <3> SUFFICES ASSUME NEW n \in 1 .. Len(pending_effects),
                        pending_effects[n].kind = "activate"
                 PROVE  pending_effects[n].id \in Nat
      OBVIOUS
    <3>1. pending_effects[n] \in Effect
      BY <1>1
    <3>2. pending_effects[n].id \in Ids
      BY <3>1, EffectFields
    <3> QED
      BY <3>2, EffectCycleAssumption DEF Ids, Observers!Ids
  <2>3. \A i \in Nat : i < next_subscriber_id => i < next_subscriber_id'
    BY <1>2, <1>4
  <2>4. \A i \in active' : i < next_subscriber_id'
    BY <1>2, <1>4, <2>3 DEF Dated
  <2>5. \A n \in 1 .. Len(pending_effects') : pending_effects'[n].kind = "activate" =>
            pending_effects'[n].id < next_subscriber_id'
    BY <1>4, <2>1, <2>2, <2>3 DEF Dated
  <2>6. \A n \in 1 .. Len(pending_effects') : pending_effects'[n].kind = "notify" =>
            \A i \in active' : i < pending_effects'[n].since
    BY <1>4, <2>1 DEF Dated
  <2>7. \A n \in 1 .. Len(pending_effects') : \A m \in 1 .. n - 1 :
            pending_effects'[n].kind = "notify" /\ pending_effects'[m].kind = "activate" =>
                pending_effects'[m].id < pending_effects'[n].since
    <3> SUFFICES ASSUME NEW n \in 1 .. Len(pending_effects'), NEW m \in 1 .. n - 1,
                        pending_effects'[n].kind = "notify",
                        pending_effects'[m].kind = "activate"
                 PROVE  pending_effects'[m].id < pending_effects'[n].since
      OBVIOUS
    <3>1. m \in 1 .. Len(pending_effects) /\ pending_effects'[m] = pending_effects[m]
      BY <1>1, <2>1
    <3>2. CASE n \in 1 .. Len(pending_effects)
      BY <2>1, <3>1, <3>2 DEF Dated
    <3>3. CASE n = last
      BY <1>4, <2>1, <3>1, <3>3 DEF Dated
    <3> QED
      BY <2>1, <3>2, <3>3
  <2> QED
    BY <2>4, <2>5, <2>6, <2>7 DEF Dated
<1>5. CASE UNCHANGED <<effects, active, next_subscriber_id>>
  BY <1>5 DEF effects, Dated, Merged
<1>6. ASSUME NEW e \in Entities,
             pending_notifications' = pending_notifications \cup {e},
             pending_effects' = Append(pending_effects,
                 [kind |-> "notify", emitter |-> e, since |-> next_subscriber_id]),
             UNCHANGED <<active, next_subscriber_id>>
      PROVE  Dated' /\ Merged'
  <2> DEFINE x == [kind |-> "notify", emitter |-> e, since |-> next_subscriber_id]
  <2>1. x.kind = "notify" /\ x.emitter = e /\ x.since = next_subscriber_id
    OBVIOUS
  <2> HIDE DEF x
  <2>2. /\ Len(pending_effects') = Len(pending_effects) + 1
        /\ pending_effects'[Len(pending_effects) + 1] = x
        /\ \A n \in 1 .. Len(pending_effects) : pending_effects'[n] = pending_effects[n]
        /\ \A n \in 1 .. Len(pending_effects') :
              n \in 1 .. Len(pending_effects) \/ n = Len(pending_effects) + 1
    BY <1>3, <1>6 DEF x
  <2>3. Dated'
    BY <1>2, <1>4, <1>6, <2>1 DEF x
  <2>4. Merged'
    BY <1>1, <1>6, <2>1, <2>2 DEF Merged
  <2> QED
    BY <2>3, <2>4
<1>7. CASE /\ next_subscriber_id < MaxSubscribers
           /\ pending_effects' = Append(pending_effects,
                  [kind |-> "activate", id |-> next_subscriber_id])
           /\ next_subscriber_id' = next_subscriber_id + 1
           /\ UNCHANGED <<pending_notifications, active>>
  <2> DEFINE x == [kind |-> "activate", id |-> next_subscriber_id]
  <2>1. x.kind = "activate" /\ x.id = next_subscriber_id
    OBVIOUS
  <2> HIDE DEF x
  <2>2. /\ Len(pending_effects') = Len(pending_effects) + 1
        /\ pending_effects'[Len(pending_effects) + 1] = x
        /\ \A n \in 1 .. Len(pending_effects) : pending_effects'[n] = pending_effects[n]
        /\ \A n \in 1 .. Len(pending_effects') :
              n \in 1 .. Len(pending_effects) \/ n = Len(pending_effects) + 1
    BY <1>3, <1>7 DEF x
  <2>3. Dated'
    BY <1>2, <1>4, <1>7, <2>1 DEF x
  <2>4. Merged'
    BY <1>1, <1>7, <2>1, <2>2 DEF Merged
  <2> QED
    BY <2>3, <2>4
<1>8. CASE /\ pending_effects' = Append(pending_effects, [kind |-> "defer"])
           /\ UNCHANGED <<pending_notifications, active, next_subscriber_id>>
  <2> DEFINE x == [kind |-> "defer"]
  <2>1. x.kind = "defer"
    OBVIOUS
  <2> HIDE DEF x
  <2>2. /\ Len(pending_effects') = Len(pending_effects) + 1
        /\ pending_effects'[Len(pending_effects) + 1] = x
        /\ \A n \in 1 .. Len(pending_effects) : pending_effects'[n] = pending_effects[n]
        /\ \A n \in 1 .. Len(pending_effects') :
              n \in 1 .. Len(pending_effects) \/ n = Len(pending_effects) + 1
    BY <1>3, <1>8 DEF x
  <2>3. Dated'
    BY <1>2, <1>4, <1>8, <2>1 DEF x
  <2>4. Merged'
    BY <1>1, <1>8, <2>1, <2>2 DEF Merged
  <2> QED
    BY <2>3, <2>4
<1>9. CASE /\ pending_effects # <<>> /\ pending_effects' = Tail(pending_effects)
           /\ LET x == Head(pending_effects) IN
              /\ pending_notifications' = IF x.kind = "notify"
                                            THEN pending_notifications \ {x.emitter}
                                            ELSE pending_notifications
              /\ active' = IF x.kind = "activate" THEN active \cup {x.id} ELSE active
           /\ UNCHANGED next_subscriber_id
  <2>1. /\ Len(pending_effects) \in Nat \ {0} /\ Len(pending_effects') = Len(pending_effects) - 1
        /\ Head(pending_effects) = pending_effects[1]
        /\ \A n \in 1 .. Len(pending_effects') :
              pending_effects'[n] = pending_effects[n + 1] /\ n + 1 \in 1 .. Len(pending_effects)
    BY <1>1, <1>9, HeadTailProperties
  <2>2. \A n \in 1 .. Len(pending_effects') : 1 \in 1 .. (n + 1) - 1
    BY <2>1
  <2>3. \A n \in 1 .. Len(pending_effects') : \A m \in 1 .. n - 1 :
            m + 1 \in 1 .. (n + 1) - 1 /\ m \in 1 .. Len(pending_effects')
    BY <2>1
  <2>4. active' = active \/ (pending_effects[1].kind = "activate"
                             /\ active' = active \cup {pending_effects[1].id})
    BY <1>9, <2>1
  <2>5. Dated'
    <3>1. \A i \in active' : i < next_subscriber_id'
      BY <1>9, <2>1, <2>4 DEF Dated
    <3>2. \A n \in 1 .. Len(pending_effects') :
            /\ pending_effects'[n].kind = "activate" =>
                  pending_effects'[n].id < next_subscriber_id'
            /\ pending_effects'[n].kind = "notify" =>
                  \A i \in active' : i < pending_effects'[n].since
      BY <1>9, <2>1, <2>2, <2>4 DEF Dated
    <3>3. \A n \in 1 .. Len(pending_effects') : \A m \in 1 .. n - 1 :
            pending_effects'[n].kind = "notify" /\ pending_effects'[m].kind = "activate" =>
                pending_effects'[m].id < pending_effects'[n].since
      BY <2>1, <2>3 DEF Dated
    <3> QED
      BY <3>1, <3>2, <3>3 DEF Dated
  <2>6. Merged'
    <3> SUFFICES ASSUME NEW e \in pending_notifications'
                 PROVE  \E n \in 1 .. Len(pending_effects') :
                            pending_effects'[n].kind = "notify" /\ pending_effects'[n].emitter = e
      BY DEF Merged
    <3>1. e \in pending_notifications /\ ~(pending_effects[1].kind = "notify"
                                           /\ pending_effects[1].emitter = e)
      BY <1>9, <2>1
    <3>2. PICK n \in 1 .. Len(pending_effects) :
              pending_effects[n].kind = "notify" /\ pending_effects[n].emitter = e
      BY <3>1 DEF Merged
    <3>3. n - 1 \in 1 .. Len(pending_effects') /\ (n - 1) + 1 = n
      BY <2>1, <3>1, <3>2
    <3> QED
      BY <2>1, <3>2, <3>3
  <2> QED
    BY <2>5, <2>6
<1> QED
  BY <1>1, <1>5, <1>6, <1>7, <1>8, <1>9 DEF QueueStep

-----------------------------------------------------------------------------
(* The notifications being applied.                                        *)

\* Unless flushes are nested, no observer that is active was inserted after
\* a notification being applied was queued.
InTime == ~nested => \A n \in 1 .. Len(pass_since) : \A i \in active : i < pass_since[n]

\* An observer becomes active when no notification is being applied, and a
\* notification that is about to be has the active ones before it.
LEMMA InTimeKept ==
    ASSUME Cycle, Dated, InTime, [Next]_vars
    PROVE  InTime'
<1> SUFFICES ASSUME ~nested'
             PROVE  \A n \in 1 .. Len(pass_since') : \A i \in active' : i < pass_since'[n]
  BY DEF InTime
<1> DEFINE Goal == \A n \in 1 .. Len(pass_since') : \A i \in active' : i < pass_since'[n]
<1>1. TypeOK /\ Observers!TypeOK /\ pass_since \in Seq(0 .. MaxSubscribers)
  BY DEF Cycle, TypeOK
<1>2. ~nested
  BY NestedLasts DEF Cycle
<1>3. \A n \in 1 .. Len(pass_since) : \A i \in active : i < pass_since[n]
  BY <1>2 DEF InTime
<1>4. ASSUME UNCHANGED <<pass_since, active>> PROVE Goal
  BY <1>3, <1>4
<1>5. CASE StartUpdate \/ StartInnerUpdate \/ StartHandler \/ ObserveThemeFile \/ Shutdown
           \/ FinishUpdate \/ UpdatePanics \/ CallbackReturns \/ FlushEnds \/ Defer
           \/ ApplyDefer \/ TakeDropped \/ ThemeFlush \/ ShutdownFlush
  BY <1>4, <1>5
  DEF StartUpdate, StartInnerUpdate, BeginUpdate, StartHandler, ObserveThemeFile, Shutdown,
      FinishUpdate, UpdatePanics, CallbackReturns, FlushEnds, Defer, ApplyDefer, TakeDropped,
      ThemeFlush, ShutdownFlush, history, observers
<1>6. ASSUME NEW e \in Entities, Notify(e) \/ Observe(e) \/ DropEntity(e) \/ ReleaseEntity(e)
      PROVE  Goal
  BY <1>4, <1>6 DEF Notify, Observe, DropEntity, ReleaseEntity, Observers!Insert,
                    Observers!Remove, history, observers
<1>7. ASSUME NEW i \in Ids, DropObserver(i) PROVE Goal
  BY <1>4, <1>7 DEF DropObserver, Observers!DropSubscription, history
<1>8. CASE ApplyActivate
  <2>1. Flushing /\ pass_since' = pass_since
    BY <1>8 DEF ApplyActivate, PopEffect, history
  <2>2. Len(pass_since) = 0
    BY <1>2, <2>1, FlushRunsAlone DEF Cycle
  <2> QED
    BY <2>1, <2>2
<1>9. CASE ApplyNotify
  <2> DEFINE since == Head(pending_effects).since
  <2>1. /\ Head(pending_effects) = pending_effects[1] /\ 1 \in 1 .. Len(pending_effects)
        /\ Head(pending_effects).kind = "notify" /\ since \in 0 .. MaxSubscribers
    BY <1>1, <1>9, EffectPopped, EffectFields DEF ApplyNotify
  <2>2. \A i \in active : i < since
    BY <2>1 DEF Dated
  <2>3. active' = active /\ (pass_since' = pass_since \/ pass_since' = Append(pass_since, since))
    BY <1>9 DEF ApplyNotify, Observers!RetainBegin, observers
  <2> HIDE DEF since
  <2>4. CASE pass_since' = Append(pass_since, since)
    <3>1. /\ Len(pass_since) \in Nat /\ Len(pass_since') = Len(pass_since) + 1
          /\ pass_since'[Len(pass_since) + 1] = since
          /\ \A n \in 1 .. Len(pass_since) : pass_since'[n] = pass_since[n]
      BY <1>1, <2>1, <2>4, StackPush
    <3>2. \A n \in 1 .. Len(pass_since') :
              n \in 1 .. Len(pass_since) \/ n = Len(pass_since) + 1
      BY <3>1
    <3> QED
      BY <1>3, <2>2, <2>3, <3>1, <3>2
  <2> QED
    BY <1>4, <2>3, <2>4
<1>10. CASE VisitObserver
  BY <1>4, <1>10 DEF VisitObserver, Observers!RetainVisit
<1>11. CASE ObserverGone \/ \E keep \in BOOLEAN : ObserverReturns(keep)
  BY <1>4, <1>11 DEF ObserverGone, ObserverReturns, Observers!CallbackReturns, history
<1>12. CASE DispatchEnds
  <2>1. Observers!RetainEnd /\ active' = active /\ pass_since' = Popped(pass_since)
    BY <1>12 DEF DispatchEnds, Observers!RetainEnd, Popped
  <2>2. pass_since # <<>>
    <3>1. Len(frames) \in Nat \ {0}
      BY <1>1, <2>1, Ended
    <3> QED
      BY <3>1 DEF Cycle, Counters
  <2>3. /\ Len(pass_since) \in Nat /\ Len(pass_since') = Len(pass_since) - 1
        /\ \A n \in 1 .. Len(pass_since) - 1 : pass_since'[n] = pass_since[n]
    BY <1>1, <2>1, <2>2, StackPop
  <2> QED
    BY <1>3, <2>1, <2>3
<1>13. CASE UNCHANGED vars
  BY <1>4, <1>13 DEF vars, history, observers
<1> QED
  BY <1>5, <1>6, <1>7, <1>8, <1>9, <1>10, <1>11, <1>12, <1>13
  DEF Next, UserStep, FlushStep, ReturnStep

\* An active observer that has yet to hear of a notification has it before
\* it: in the queue, or in the dispatch.
OwedServed ==
    /\ owed \subseteq active
    /\ ~nested => \A i \in owed : Unserved(i) =>
            \/ emitter_key[i] \in pending_notifications
            \/ \E n \in 1 .. Len(frames) : i \in frames[n].todo

\* Only active observers are owed a call.
LEMMA OwedAreActive ==
    ASSUME TypeOK, owed \subseteq active, [Next]_vars
    PROVE  owed' \subseteq active'
<1>1. active \subseteq active'
  BY QueueSteps DEF QueueStep
<1>2. ASSUME owed' \subseteq owed PROVE owed' \subseteq active'
  BY <1>1, <1>2
<1>3. ASSUME NEW e \in Entities, Notify(e) PROVE owed' \subseteq active'
  BY <1>1, <1>3 DEF Notify
<1>4. CASE VisitObserver
  BY <1>2, <1>4 DEF VisitObserver
<1> QED
  BY <1>2, <1>3, <1>4
  DEF Next, UserStep, FlushStep, ReturnStep, StartUpdate, StartInnerUpdate, BeginUpdate,
      StartHandler, ObserveThemeFile, Shutdown, FinishUpdate, UpdatePanics, CallbackReturns,
      FlushEnds, Defer, ApplyDefer, TakeDropped, ThemeFlush, ShutdownFlush, Observe, DropEntity, ReleaseEntity, DropObserver, ApplyNotify,
      ApplyActivate, ObserverGone, ObserverReturns, DispatchEnds, vars, history

\* The notification moves on from the queue to the dispatch, and what leaves
\* the dispatch is called, unless its entity has no handle.
LEMMA OwedKept ==
    ASSUME Cycle, Registry, Dated, OwedServed, [Next]_vars
    PROVE  OwedServed'
<1>1. TypeOK /\ Observers!TypeOK /\ frames \in Seq(Observers!Frame) /\ owed \subseteq Ids
  BY DEF Cycle, TypeOK, Observers!TypeOK
<1>2. owed' \subseteq active'
  BY <1>1, OwedAreActive DEF OwedServed
<1> SUFFICES ASSUME ~nested', NEW i \in owed', Unserved(i)'
             PROVE  \/ emitter_key'[i] \in pending_notifications'
                    \/ \E n \in 1 .. Len(frames') : i \in frames'[n].todo
  BY <1>2 DEF OwedServed
<1> DEFINE Goal == \/ emitter_key'[i] \in pending_notifications'
                   \/ \E n \in 1 .. Len(frames') : i \in frames'[n].todo
<1>3. ~nested
  BY NestedLasts DEF Cycle
<1>4. ASSUME i \in owed
      PROVE  /\ i \in Ids /\ i \in active /\ emitter_key'[i] = emitter_key[i] /\ Unserved(i)
             /\ \/ emitter_key[i] \in pending_notifications
                \/ \E n \in 1 .. Len(frames) : i \in frames[n].todo
  <2>1. i \in Ids /\ i \in active /\ i < next_subscriber_id
    BY <1>1, <1>4 DEF OwedServed, Dated
  <2>2. emitter_key'[i] = emitter_key[i] /\ Unserved(i)
    BY <1>1, <2>1, UnservedBefore
  <2> QED
    BY <1>3, <1>4, <2>1, <2>2 DEF OwedServed
<1>5. ASSUME UNCHANGED <<pending_notifications, owed, frames>> PROVE Goal
  BY <1>4, <1>5
<1>6. CASE StartUpdate \/ StartInnerUpdate \/ StartHandler \/ ObserveThemeFile \/ Shutdown
           \/ FinishUpdate \/ UpdatePanics \/ CallbackReturns \/ FlushEnds \/ Defer
           \/ ApplyDefer \/ TakeDropped \/ ThemeFlush \/ ShutdownFlush
  BY <1>5, <1>6
  DEF StartUpdate, StartInnerUpdate, BeginUpdate, StartHandler, ObserveThemeFile, Shutdown,
      FinishUpdate, UpdatePanics, CallbackReturns, FlushEnds, Defer, ApplyDefer, TakeDropped,
      ThemeFlush, ShutdownFlush, effects, history, observers
<1>7. ASSUME NEW e \in Entities, Observe(e) \/ DropEntity(e) \/ ReleaseEntity(e)
      PROVE  Goal
  BY <1>5, <1>7 DEF Observe, DropEntity, ReleaseEntity, Observers!Insert, Observers!Remove,
                    effects, history, observers
<1>8. ASSUME NEW j \in Ids, DropObserver(j) PROVE Goal
  BY <1>5, <1>8 DEF DropObserver, Observers!DropSubscription, effects, history
<1>9. ASSUME NEW e \in Entities, Notify(e) PROVE Goal
  <2>1. /\ owed' = owed \cup {j \in Observers!Live \cap active : emitter_key[j] = e}
        /\ UNCHANGED <<emitter_key, frames>>
    BY <1>9 DEF Notify, observers
  <2>2. e \in pending_notifications' /\ pending_notifications \subseteq pending_notifications'
    BY <1>9 DEF Notify, PushNotify, effects
  <2>3. CASE i \in owed
    BY <1>4, <2>1, <2>2, <2>3
  <2>4. CASE i \notin owed
    BY <2>1, <2>2, <2>4
  <2> QED
    BY <2>3, <2>4
<1>10. CASE ApplyNotify
  <2> DEFINE e == Head(pending_effects).emitter
  <2>1. e \in Entities
    BY <1>1, <1>10, EffectPopped, EffectFields DEF ApplyNotify
  <2>2. Flushing /\ pending_notifications' = pending_notifications \ {e} /\ i \in owed
    BY <1>10 DEF ApplyNotify, PopEffect
  <2>3. Len(frames) = 0
    BY <1>3, <2>2, FlushRunsAlone DEF Cycle
  <2>4. emitter_key[i] \in pending_notifications /\ Unserved(i) /\ emitter_key'[i] = emitter_key[i]
    BY <1>4, <2>2, <2>3
  <2>5. CASE emitter_key[i] # e
    BY <2>2, <2>4, <2>5
  <2>6. CASE emitter_key[i] = e
    <3>1. i \in registered[e]
      BY <2>3, <2>4, <2>6, LiveIs DEF Unserved, Known, Registry, Placed
    <3>2. Observers!RetainBegin(e)
      BY <1>10, <3>1 DEF ApplyNotify
    <3> HIDE DEF e
    <3>3. Len(frames') = Len(frames) + 1 /\ frames'[Len(frames) + 1].todo = registered[e]
      BY <1>1, <2>1, <3>2, Begun
    <3> QED
      BY <2>3, <3>1, <3>3
  <2> QED
    BY <2>5, <2>6
<1>11. CASE ApplyActivate
  BY <1>5, <1>11 DEF ApplyActivate, Observers!Activate, history
<1>12. CASE VisitObserver
  <2>1. /\ Observers!RetainVisit /\ pending_notifications' = pending_notifications
        /\ owed' \subseteq owed
    BY <1>12 DEF VisitObserver, effects
  <2>2. i \in Ids /\ i \in active /\ emitter_key'[i] = emitter_key[i] /\ Unserved(i)
    BY <1>4, <2>1
  <2>3. CASE emitter_key[i] \in pending_notifications
    BY <2>1, <2>2, <2>3
  <2>4. ASSUME NEW n \in 1 .. Len(frames), i \in frames[n].todo PROVE Goal
    <3>1. /\ Len(frames) \in Nat \ {0} /\ Observers!Top = frames[Len(frames)]
          /\ Len(frames') = Len(frames)
          /\ \A m \in 1 .. Len(frames) - 1 : frames'[m] = frames[m]
      BY <1>1, <2>1, Visited, DispatchTop
    <3>2. CASE n # Len(frames)
      BY <2>4, <3>1, <3>2
    <3>3. CASE n = Len(frames)
      <4> DEFINE f == frames'[Len(frames)]
      <4>1. PICK j \in Observers!Top.todo :
                /\ f.todo = Observers!Top.todo \ {j}
                /\ j \in active => f.running = {j}
        BY <1>1, <2>1, Visited
      <4>2. CASE i # j
        BY <2>4, <3>1, <3>3, <4>1, <4>2
      <4>3. CASE i = j
        <5>1. f.running = {i} /\ f.running # {}
          BY <2>2, <4>1, <4>3
        <5>2. Observers!Top.emitter = emitter_key[i]
          <6>1. i \in Observers!Members(frames[n])
            BY <2>4 DEF Observers!Members
          <6> QED
            BY <3>1, <3>3, <6>1 DEF Registry, Placed
        <5>3. Observers!Top.emitter \in referenced
          BY <2>2, <5>2 DEF Unserved
        <5>4. owed' = owed \ f.running
          BY <1>12, <5>1, <5>3 DEF VisitObserver
        <5> QED
          BY <5>1, <5>4
      <4> QED
        BY <4>2, <4>3
    <3> QED
      BY <3>2, <3>3
  <2> QED
    BY <1>4, <2>1, <2>3, <2>4
<1>13. CASE ObserverGone \/ \E keep \in BOOLEAN : ObserverReturns(keep)
  <2>1. PICK keep \in BOOLEAN : Observers!CallbackReturns(keep)
    BY <1>13 DEF ObserverGone, ObserverReturns
  <2>2. UNCHANGED <<pending_notifications, owed>>
    BY <1>13 DEF ObserverGone, ObserverReturns, effects, history
  <2>3. /\ Len(frames) \in Nat \ {0} /\ Observers!Top = frames[Len(frames)]
        /\ Len(frames') = Len(frames) /\ frames'[Len(frames)].todo = Observers!Top.todo
        /\ \A m \in 1 .. Len(frames) - 1 : frames'[m] = frames[m]
    BY <1>1, <2>1, Returned, DispatchTop
  <2>4. \A n \in 1 .. Len(frames) : n \in 1 .. Len(frames) - 1 \/ n = Len(frames)
    BY <2>3
  <2>5. \A n \in 1 .. Len(frames) : n \in 1 .. Len(frames') /\ frames'[n].todo = frames[n].todo
    BY <2>3, <2>4
  <2> QED
    BY <1>4, <2>2, <2>5
<1>14. CASE DispatchEnds
  <2>1. Observers!RetainEnd /\ UNCHANGED <<pending_notifications, owed>>
    BY <1>14 DEF DispatchEnds, effects
  <2>2. /\ Len(frames) \in Nat \ {0} /\ Len(frames') = Len(frames) - 1
        /\ \A n \in 1 .. Len(frames) - 1 : frames'[n] = frames[n]
        /\ frames[Len(frames)].todo = {}
    BY <1>1, <2>1, Ended
  <2>3. ASSUME NEW n \in 1 .. Len(frames), i \in frames[n].todo PROVE Goal
    <3>1. n # Len(frames)
      BY <2>2, <2>3
    <3>2. n \in 1 .. Len(frames') /\ frames'[n] = frames[n]
      BY <2>2, <3>1
    <3> QED
      BY <2>3, <3>2
  <2> QED
    BY <1>4, <2>1, <2>3
<1>15. CASE UNCHANGED vars
  BY <1>5, <1>15 DEF vars, effects, history, observers
<1> QED
  BY <1>6, <1>7, <1>8, <1>9, <1>10, <1>11, <1>12, <1>13, <1>14, <1>15
  DEF Next, UserStep, FlushStep, ReturnStep

-----------------------------------------------------------------------------
(* The theorems.                                                           *)

\* The inductive invariant.
IInv == Cycle /\ Registry /\ ReleasedUnobserved /\ Dated /\ InTime /\ Merged /\ OwedServed

\* It holds in the beginning.
LEMMA Initially == Init => IInv
<1> SUFFICES ASSUME Init
             PROVE  IInv
  OBVIOUS
<1> USE EffectCycleAssumption
<1>1. /\ call_stack = <<>> /\ Len(call_stack) = 0 /\ frames = <<>> /\ Len(frames) = 0
      /\ pass_since = <<>> /\ Len(pass_since) = 0
      /\ pending_effects = <<>> /\ Len(pending_effects) = 0
      /\ pending_updates = 0 /\ ~flushing_effects /\ ~has_shut_down
      /\ pending_notifications = {} /\ owed = {} /\ taken = {} /\ active = {}
      /\ dropped = {} /\ releasing = <<>> /\ Len(releasing) = 0 /\ referenced = Entities
      /\ ~nested /\ ~panicked
      /\ \A e \in Entities : registered[e] = {}
  BY DEF Init, Observers!Init
<1>2. Observers!TypeOK
  <2>1. (CHOOSE k \in Entities : TRUE) \in Entities
    OBVIOUS
  <2>2. emitter_key \in [Observers!Ids -> Entities]
    BY <2>1 DEF Init, Observers!Init
  <2>3. registered \in [Entities -> SUBSET Observers!Ids]
        /\ handle \in [Observers!Ids -> {"none", "held", "dropped", "detached"}]
    BY DEF Init, Observers!Init
  <2>4. next_subscriber_id \in 0 .. MaxSubscribers /\ frames \in Seq(Observers!Frame)
    BY <1>1 DEF Init, Observers!Init
  <2>5. reentered \in BOOLEAN
    BY Zenon DEF Init, Observers!Init
  <2>6. taken = {} /\ dropped_subscribers = {} /\ active = {} /\ cancelled = {}
    BY DEF Init, Observers!Init
  <2> QED
    BY <2>2, <2>3, <2>4, <2>5, <2>6 DEF Observers!TypeOK
<1>3. TypeOK
  <2>1. pending_updates \in 0 .. MaxUpdates /\ calls \in 0 .. MaxCalls
    BY DEF Init
  <2>2. /\ flushing_effects \in BOOLEAN /\ has_shut_down \in BOOLEAN
        /\ nested \in BOOLEAN /\ panicked \in BOOLEAN
    BY Zenon DEF Init
  <2>3. /\ pending_effects \in Seq(Effect) /\ call_stack \in Seq(Call)
        /\ pass_since \in Seq(0 .. MaxSubscribers) /\ releasing \in Seq(SUBSET Entities)
    BY <1>1
  <2> QED
    BY <1>1, <1>2, <2>1, <2>2, <2>3 DEF TypeOK
<1>4. Counters
  <2>1. \A kinds : Cardinality(Places(call_stack, kinds)) = 0
    <3>1. \A kinds : Places(call_stack, kinds) = {}
      BY <1>1 DEF Places
    <3> QED
      BY <3>1, FS_EmptySet
  <2>2. Cardinality(Places(call_stack, {"update", "flush"})) = 0
        /\ Cardinality(Places(call_stack, {"flush"})) = 0
        /\ Cardinality(Places(call_stack, {"notify"})) = 0
        /\ Cardinality(Places(call_stack, Flushes)) = 0
    BY <2>1
  <2> QED
    BY <1>1, <2>2 DEF Counters
<1>5. StackShape /\ Quiet
  BY <1>1 DEF StackShape, Quiet
<1>6. Placed /\ TakenByDispatch /\ CalledAreActive
  BY <1>1 DEF Placed, TakenByDispatch, CalledAreActive
<1>7. ReleasedUnobserved /\ Dated /\ InTime /\ Merged /\ OwedServed
  BY <1>1 DEF ReleasedUnobserved, Dated, InTime, Merged, OwedServed
<1> QED
  BY <1>2, <1>3, <1>4, <1>5, <1>6, <1>7 DEF IInv, Cycle, Registry

\* Every step keeps it.
LEMMA Kept ==
    ASSUME IInv, [Next]_vars
    PROVE  IInv'
<1>1. TypeOK /\ Cycle
  BY DEF IInv, Cycle
<1>2. Cycle' /\ Registry'
  BY <1>1, CycleKept, RegistryKept DEF IInv
<1>3. ReleasedUnobserved' /\ InTime' /\ OwedServed'
  BY ReleasedKept, InTimeKept, OwedKept DEF IInv
<1>4. Dated' /\ Merged'
  BY <1>1, QueueKept DEF IInv
<1> QED
  BY <1>2, <1>3, <1>4 DEF IInv

\* So it holds in every state.
THEOREM Invariance == Spec => []IInv
<1>1. IInv /\ [Next]_vars => IInv'
  BY Kept
<1> QED
  BY <1>1, Initially, PTL DEF Spec

\* Every variable keeps its type; among them the counter of the updates,
\* which App::finish_update decrements without a check.
THEOREM TypesHold == Spec => []TypeOK
<1>1. IInv => TypeOK
  BY DEF IInv, Cycle
<1> QED
  BY <1>1, Invariance, PTL

\* When an update, the flush of a theme file or the shutdown returns to the
\* event loop, flush_effects has left no effect, no entity to release and,
\* unless flushes were nested, no observer of a released one.
THEOREM UpdatesSettle == Spec => SettledOnReturn
<1>1. ASSUME IInv, IInv', [Next]_vars
      PROVE  [~panicked /\ call_stack # <<>> /\ call_stack' = <<>> /\ Running # "handler"
                => Settled']_vars
  <2> SUFFICES ASSUME ~panicked, call_stack # <<>>, call_stack' = <<>>, Running # "handler"
               PROVE  Settled'
    OBVIOUS
  <2>1. FlushEnds
    BY <1>1, EmptiedByFlush DEF IInv, Cycle
  <2>2. pending_effects' = <<>> /\ dropped' = {} /\ panicked' = FALSE
    <3>1. panicked = FALSE
      BY <1>1 DEF IInv, Cycle, TypeOK
    <3> QED
      BY <2>1, <3>1 DEF FlushEnds, effects, mishaps
  <2>3. \A kinds : Cardinality(Places(call_stack', kinds)) = 0
    <3>1. \A kinds : Places(call_stack', kinds) = {}
      BY DEF Places
    <3> QED
      BY <3>1, FS_EmptySet
  <2>4. Counters'
    BY <1>1 DEF IInv, Cycle
  <2>5. pending_updates' = 0 /\ ~flushing_effects' /\ Len(frames') = 0 /\ Len(releasing') = 0
    BY <2>2, <2>3, <2>4 DEF Counters
  <2>6. frames' = <<>> /\ releasing' = <<>>
    <3>1. frames' \in Seq(Observers!Frame) /\ releasing' \in Seq(SUBSET Entities)
      BY <1>1 DEF IInv, Cycle, TypeOK, Observers!TypeOK
    <3> QED
      BY <2>5, <3>1
  <2>7. taken' = {}
    BY <1>1, <2>5 DEF IInv, Registry, TakenByDispatch
  <2>8. ~nested' => \A e \in Entities \ referenced' : registered'[e] = {}
    <3>1. InRelease' = {}
      BY <2>5 DEF InRelease
    <3> QED
      BY <1>1, <2>2, <3>1 DEF IInv, ReleasedUnobserved, Cleared
  <2> QED
    BY <2>2, <2>5, <2>6, <2>7, <2>8 DEF Settled
<1> QED
  BY <1>1, Invariance, PTL DEF Spec, SettledOnReturn

\* No notification of an active observer is lost, neither by the merging in
\* App::notify nor by one that comes while apply_notify_effect is at work,
\* as long as no flush begins inside another.
THEOREM NotificationsServed == Spec => []ActiveObserversServed
<1>1. IInv => ActiveObserversServed
  <2> SUFFICES ASSUME IInv, ~nested, call_stack = <<>>, NEW i \in owed, Unserved(i)
               PROVE  Queued(emitter_key[i])
    BY DEF ActiveObserversServed
  <2>1. Len(frames) = 0
    <3>1. Places(call_stack, {"notify"}) = {}
      BY DEF Places
    <3> QED
      BY <3>1, FS_EmptySet DEF IInv, Cycle, Counters
  <2>2. emitter_key[i] \in pending_notifications
    BY <2>1 DEF IInv, OwedServed
  <2> QED
    BY <2>2 DEF IInv, Merged, Queued
<1> QED
  BY <1>1, Invariance, PTL

\* The deferred activation of App::new_observer keeps an observer from the
\* notifications that were queued before it, as long as no flush begins
\* inside another.
THEOREM PastNotHeard == Spec => []NotCalledForThePast
<1>1. IInv => NotCalledForThePast
  <2> SUFFICES ASSUME IInv, ~nested, NEW n \in 1 .. Len(frames), NEW i \in frames[n].running
               PROVE  i < pass_since[n]
    BY DEF NotCalledForThePast
  <2>1. Len(pass_since) = Len(frames)
    BY DEF IInv, Cycle, Counters
  <2>2. i \in active
    BY DEF IInv, Registry, CalledAreActive
  <2> QED
    BY <2>1, <2>2 DEF IInv, InTime
<1> QED
  BY <1>1, Invariance, PTL

\* `flushing_effects' and `pending_updates' let one flush of an update run
\* at a time, however deep updates are nested in the effects, and whatever
\* flushes of theme files there are.
THEOREM FlushesNeverNest == Spec => []OneFlushAtATime
<1>1. IInv => OneFlushAtATime
  <2> SUFFICES ASSUME IInv
               PROVE  OneFlushAtATime
    OBVIOUS
  <2> DEFINE flushes == {n \in 1 .. Len(call_stack) : call_stack[n] = "flush"}
  <2>1. flushes = Places(call_stack, {"flush"})
    BY DEF Places
  <2>2. Cardinality(Places(call_stack, {"flush"})) \in {0, 1}
    BY DEF IInv, Cycle, Counters
  <2> HIDE DEF flushes
  <2>3. Cardinality(flushes) <= 1
    BY <2>1, <2>2
  <2> QED
    BY <2>3 DEF OneFlushAtATime, flushes
<1> QED
  BY <1>1, Invariance, PTL

\* The registry of the observers, as the cycle uses it, behaves as
\* SubscriberSet says: the cycle begins as it does, and each of its steps is
\* one of the registry or leaves it alone.
THEOREM RegistryImplemented == Spec => Observers!Spec
<1>1. Init => Observers!Init
  BY DEF Init
<1>2. IInv /\ [Next]_vars => [Observers!Next]_Observers!vars
  BY StepsOfRegistry DEF IInv, Cycle
<1> QED
  BY <1>1, <1>2, Invariance, PTL DEF Spec, Observers!Spec

\* No emitter stays taken when the last dispatch of it is over: the next
\* notification of it finds its observers in the map.
THEOREM EmittersGivenBack == Spec => []Observers!TakenOnlyWhileDispatching
<1>1. IInv => Observers!TakenOnlyWhileDispatching
  BY DEF IInv, Registry, TakenByDispatch, Observers!TakenOnlyWhileDispatching,
         Observers!Dispatching, Observers!FramesOf
<1> QED
  BY <1>1, Invariance, PTL

=============================================================================
