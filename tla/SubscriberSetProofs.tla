------------------------ MODULE SubscriberSetProofs ------------------------
(***************************************************************************)
(* Proofs about SubscriberSet, for any emitters, any number of subscribers *)
(* and dispatches nested to any depth: no subscriber is lost, no emitter   *)
(* stays taken, no mark outlives the dispatches, and a dropped             *)
(* subscription is forgotten unless a callback reentered the registry.     *)
(***************************************************************************)
EXTENDS SubscriberSet, SequenceTheorems, TLAPS

\* An id that was given out has a Subscription; the others are fresh.
GivenOut == \A i \in Ids : handle[i] # "none" <=> i < next_subscriber_id

\* A subscriber is where its unsubscribe closure looks for it.
Placed ==
    /\ \A k \in Keys : \A i \in registered[k] : i < next_subscriber_id /\ emitter_key[i] = k
    /\ \A f \in FramesOf(frames) : \A i \in Members(f) :
            i < next_subscriber_id /\ emitter_key[i] = f.emitter

\* Only dropped subscriptions are marked.
MarksAreOfDropped == \A m \in dropped_subscribers : handle[m[2]] = "dropped"

\* As long as no callback reentered the registry, one dispatch at most is in
\* progress, its emitter is taken, and a dropped subscription is in no map,
\* nor among the subscribers the dispatch took unless it is marked.
InTurn ==
    ~reentered =>
        /\ Len(frames) \in {0, 1}
        /\ Dispatching \subseteq taken
        /\ \A i \in Ids : handle[i] = "dropped" =>
            /\ \A k \in Keys : i \notin registered[k]
            /\ \A f \in FramesOf(frames) :
                    i \in Members(f) => <<f.emitter, i>> \in dropped_subscribers

IInv ==
    /\ TypeOK /\ GivenOut /\ Placed /\ MarksAreOfDropped /\ InTurn
    /\ TakenOnlyWhileDispatching /\ NoSubscriberLost /\ MarksConsumed

-----------------------------------------------------------------------------
(* The stack of dispatches. *)

\* A dispatch begins.
LEMMA FramesAppend ==
    ASSUME NEW stack \in Seq(Frame), NEW f \in Frame
    PROVE  /\ Append(stack, f) \in Seq(Frame)
           /\ Len(Append(stack, f)) = Len(stack) + 1
           /\ FramesOf(Append(stack, f)) = FramesOf(stack) \cup {f}
<1>1. /\ Append(stack, f) \in Seq(Frame) /\ Len(Append(stack, f)) = Len(stack) + 1
      /\ Append(stack, f)[Len(stack) + 1] = f /\ Len(stack) \in Nat
    OBVIOUS
<1>2. \A n \in 1 .. Len(stack) : Append(stack, f)[n] = stack[n]
    OBVIOUS
<1>3. 1 .. Len(stack) + 1 = 1 .. Len(stack) \cup {Len(stack) + 1}
    BY <1>1
<1> QED
    BY <1>1, <1>2, <1>3 DEF FramesOf

\* The innermost dispatch is one of those in progress, the others are its
\* callers; a step of it changes that one only.
LEMMA FramesTop ==
    ASSUME frames \in Seq(Frame), frames # <<>>
    PROVE  /\ Top \in Frame /\ Caller \in Seq(Frame) /\ Len(Caller) = Len(frames) - 1
           /\ FramesOf(frames) = FramesOf(Caller) \cup {Top}
           /\ \A f \in Frame :
                /\ WithTop(f) \in Seq(Frame) /\ Len(WithTop(f)) = Len(frames)
                /\ FramesOf(WithTop(f)) = FramesOf(Caller) \cup {f}
<1>1. Len(frames) \in Nat \ {0}
    OBVIOUS
<1>2. Top \in Frame
    BY <1>1 DEF Top
<1>3. /\ Caller \in Seq(Frame) /\ Len(Caller) = Len(frames) - 1
      /\ \A n \in 1 .. Len(frames) - 1 : Caller[n] = frames[n]
  <2> DEFINE m == Len(frames) - 1
  <2>1. \A n \in 1 .. m : frames[n] \in Frame
    BY <1>1
  <2>2. m \in Nat /\ m - 1 + 1 = m /\ 1 \in Int /\ m \in Int
    BY <1>1
  <2>3. /\ SubSeq(frames, 1, m) \in Seq(Frame)
        /\ Len(SubSeq(frames, 1, m)) = IF 1 <= m THEN m - 1 + 1 ELSE 0
        /\ \A n \in 1 .. m - 1 + 1 : SubSeq(frames, 1, m)[n] = frames[1 + n - 1]
    <3> HIDE DEF m
    <3> QED
      BY <2>1, <2>2, SubSeqProperties
  <2>4. \A n \in 1 .. m : 1 + n - 1 = n
    BY <2>2
  <2> QED
    BY <2>2, <2>3, <2>4 DEF Caller
<1>4. 1 .. Len(frames) = 1 .. Len(frames) - 1 \cup {Len(frames)}
    BY <1>1
<1>5. FramesOf(frames) = FramesOf(Caller) \cup {Top}
    BY <1>3, <1>4 DEF FramesOf, Top
<1>6. ASSUME NEW f \in Frame
      PROVE  /\ WithTop(f) \in Seq(Frame) /\ Len(WithTop(f)) = Len(frames)
             /\ FramesOf(WithTop(f)) = FramesOf(Caller) \cup {f}
  <2>1. WithTop(f) \in Seq(Frame) /\ Len(WithTop(f)) = Len(frames)
    BY DEF WithTop
  <2>2. /\ WithTop(f)[Len(frames)] = f
        /\ \A n \in 1 .. Len(frames) - 1 : WithTop(f)[n] = frames[n]
    BY <1>1, <1>4 DEF WithTop
  <2> QED
    BY <1>3, <1>4, <2>1, <2>2 DEF FramesOf
<1> QED
    BY <1>2, <1>3, <1>5, <1>6

\* No dispatch in progress.
LEMMA FramesNone ==
    /\ FramesOf(<<>>) = {}
    /\ \A stack \in Seq(Frame) : Len(stack) = 0 <=> stack = <<>>
<1>1. 1 .. Len(<<>>) = {}
    OBVIOUS
<1> QED
    BY <1>1 DEF FramesOf

-----------------------------------------------------------------------------
(* What the steps of a dispatch do. *)

\* A visit and the end of a callback move ids within the innermost dispatch;
\* an id leaves it only when its callback ended it.
LEMMA DispatchStep ==
    ASSUME TypeOK, RetainVisit \/ \E keep \in BOOLEAN : CallbackReturns(keep)
    PROVE  /\ frames' \in Seq(Frame) /\ Len(frames') = Len(frames)
           /\ frames # <<>> /\ cancelled \subseteq cancelled' /\ cancelled' \subseteq Ids
           /\ UNCHANGED <<registered, taken, dropped_subscribers, next_subscriber_id,
                          active, handle, emitter_key, reentered>>
           /\ \E f \in Frame :
                /\ f.emitter = Top.emitter
                /\ Members(f) \subseteq Members(Top)
                /\ Members(Top) \subseteq Members(f) \cup cancelled'
                /\ FramesOf(frames') = FramesOf(Caller) \cup {f}
<1> USE DEF TypeOK
<1>1. frames # <<>>
    BY DEF RetainVisit, CallbackReturns
<1>2. Top \in Frame
    BY <1>1, FramesTop
<1>3. CASE RetainVisit
  <2>1. PICK i \in Top.todo :
            frames' = WithTop(
             IF i \in active
               THEN [Top EXCEPT !.todo = @ \ {i}, !.running = {i}]
               ELSE [Top EXCEPT !.todo = @ \ {i}, !.kept = @ \cup {i}])
    BY <1>3 DEF RetainVisit
  <2> DEFINE f == IF i \in active
               THEN [Top EXCEPT !.todo = @ \ {i}, !.running = {i}]
               ELSE [Top EXCEPT !.todo = @ \ {i}, !.kept = @ \cup {i}]
  <2>2. Top.running = {}
    BY <1>3 DEF RetainVisit
  <2>3. /\ f \in Frame /\ f.emitter = Top.emitter /\ f.todo = Top.todo \ {i}
        /\ f.running \cup f.kept = Top.kept \cup {i}
    <3>1. i \in Ids /\ Top.todo \in SUBSET Ids /\ Top.kept \in SUBSET Ids /\ Top.emitter \in Keys
      BY <1>2 DEF Frame
    <3>2. CASE i \in active
      <4>1. /\ f \in Frame /\ f.emitter = Top.emitter /\ f.todo = Top.todo \ {i}
            /\ f.running = {i} /\ f.kept = Top.kept
        BY <1>2, <3>1, <3>2 DEF Frame
      <4> QED
        BY <4>1
    <3>3. CASE i \notin active
      BY <1>2, <2>2, <3>1, <3>3 DEF Frame
    <3> QED
      BY <3>2, <3>3
  <2>4. Members(f) = Members(Top)
    BY <2>2, <2>3 DEF Members
  <2>5. /\ frames' \in Seq(Frame) /\ Len(frames') = Len(frames)
        /\ FramesOf(frames') = FramesOf(Caller) \cup {f}
    BY <1>1, <2>1, <2>3, FramesTop
  <2> HIDE DEF f
  <2> QED
    BY <1>1, <1>3, <2>3, <2>4, <2>5 DEF RetainVisit
<1>4. ASSUME NEW keep \in BOOLEAN, CallbackReturns(keep)
      PROVE  /\ frames' \in Seq(Frame) /\ Len(frames') = Len(frames)
             /\ cancelled' = IF keep THEN cancelled ELSE cancelled \cup Top.running
             /\ UNCHANGED <<registered, taken, dropped_subscribers, next_subscriber_id,
                            active, handle, emitter_key, reentered>>
             /\ \E f \in Frame :
                  /\ f.emitter = Top.emitter
                  /\ Members(f) \subseteq Members(Top)
                  /\ Members(Top) \subseteq Members(f) \cup cancelled'
                  /\ FramesOf(frames') = FramesOf(Caller) \cup {f}
  <2> DEFINE f == [Top EXCEPT !.running = {},
                              !.kept = IF keep THEN @ \cup Top.running ELSE @]
  <2>1. /\ f \in Frame /\ f.emitter = Top.emitter /\ f.todo = Top.todo /\ f.running = {}
        /\ f.kept = IF keep THEN Top.kept \cup Top.running ELSE Top.kept
    BY <1>2 DEF Frame
  <2>2. /\ Members(f) \subseteq Members(Top)
        /\ Members(Top) \subseteq Members(f) \cup cancelled'
    <3>1. cancelled' = IF keep THEN cancelled ELSE cancelled \cup Top.running
      BY <1>4 DEF CallbackReturns
    <3> HIDE DEF f
    <3> QED
      BY <2>1, <3>1 DEF Members
  <2>3. frames' = WithTop(f)
    BY <1>4 DEF CallbackReturns
  <2>4. /\ frames' \in Seq(Frame) /\ Len(frames') = Len(frames)
        /\ FramesOf(frames') = FramesOf(Caller) \cup {f}
    BY <1>1, <2>1, <2>3, FramesTop
  <2> HIDE DEF f
  <2> QED
    BY <1>4, <2>1, <2>2, <2>4 DEF CallbackReturns
<1>5. Top.running \subseteq Ids
    BY <1>2 DEF Frame
<1>6. CASE \E keep \in BOOLEAN : CallbackReturns(keep)
  <2>1. PICK keep \in BOOLEAN : CallbackReturns(keep)
    BY <1>6
  <2>2. cancelled \subseteq cancelled' /\ cancelled' \subseteq Ids
    BY <1>4, <1>5, <2>1
  <2> QED
    BY <1>1, <1>4, <2>1, <2>2
<1> QED
    BY <1>3, <1>6

\* The end of a dispatch pops it, all its subscribers being kept or gone.
LEMMA DispatchEnd ==
    ASSUME TypeOK, RetainEnd
    PROVE  /\ frames' \in Seq(Frame) /\ Len(frames') = Len(frames) - 1 /\ Len(frames) \in Nat
           /\ Top \in Frame /\ Members(Top) = Top.kept
           /\ FramesOf(frames) = FramesOf(frames') \cup {Top}
<1>1. frames # <<>> /\ frames' = Caller /\ Top.todo = {} /\ Top.running = {}
    BY DEF RetainEnd
<1> QED
    BY <1>1, FramesTop DEF TypeOK, Members

\* A dispatch that begins takes the map of its emitter.
LEMMA DispatchBegin ==
    ASSUME TypeOK, NEW k \in Keys, RetainBegin(k)
    PROVE  /\ frames' \in Seq(Frame) /\ Len(frames') = Len(frames) + 1 /\ frames' # <<>>
           /\ \E f \in Frame : /\ f.emitter = k /\ Members(f) = registered[k]
                               /\ FramesOf(frames') = FramesOf(frames) \cup {f}
<1> DEFINE f == [emitter |-> k, todo |-> registered[k], running |-> {}, kept |-> {}]
<1>1. f \in Frame /\ f.emitter = k /\ Members(f) = registered[k]
    BY DEF TypeOK, Frame, Members
<1>2. frames' = Append(frames, f) /\ frames \in Seq(Frame)
    BY DEF RetainBegin, TypeOK
<1> HIDE DEF f
<1>3. /\ frames' \in Seq(Frame) /\ Len(frames') = Len(frames) + 1
      /\ FramesOf(frames') = FramesOf(frames) \cup {f}
    BY <1>1, <1>2, FramesAppend
<1>4. frames' # <<>>
    BY <1>2, <1>3
<1> QED
    BY <1>1, <1>3, <1>4

-----------------------------------------------------------------------------
(* The invariant. *)

\* What is put back is known, and is not marked.
LEMMA PutBackType ==
    ASSUME TypeOK, RetainEnd
    PROVE  PutBack \subseteq Ids
<1>1. Top \in Frame
    BY DispatchEnd
<1> QED
    BY <1>1 DEF PutBack, TypeOK, Frame

\* Every step keeps the types.
LEMMA TypesKept == TypeOK /\ [Next]_vars => TypeOK'
<1> SUFFICES ASSUME TypeOK, [Next]_vars PROVE TypeOK'
    OBVIOUS
<1> USE SubscriberSetAssumption DEF TypeOK
<1>1. CASE UNCHANGED vars
    BY <1>1 DEF vars
<1>2. ASSUME NEW k \in Keys, Insert(k) PROVE TypeOK'
  <2>1. next_subscriber_id \in Ids /\ next_subscriber_id + 1 \in 0 .. MaxSubscribers
    BY <1>2 DEF Insert, Ids
  <2>2. reentered' \in BOOLEAN
    BY <1>2, Zenon DEF Insert, Touches
  <2> QED
    BY <1>2, <2>1, <2>2 DEF Insert
<1>3. ASSUME NEW k \in Keys, Remove(k) PROVE TypeOK'
  <2>1. reentered' \in BOOLEAN
    BY <1>3, Zenon DEF Remove, Touches
  <2> QED
    BY <1>3, <2>1 DEF Remove
<1>4. ASSUME NEW k \in Keys, RetainBegin(k) PROVE TypeOK'
  <2>1. frames' \in Seq(Frame)
    BY <1>4, DispatchBegin
  <2>2. reentered' \in BOOLEAN
    BY <1>4, Zenon DEF RetainBegin
  <2> QED
    BY <1>4, <2>1, <2>2 DEF RetainBegin
<1>5. ASSUME NEW i \in Ids, Activate(i) PROVE TypeOK'
    BY <1>5 DEF Activate
<1>6. ASSUME NEW i \in Ids, DropSubscription(i) PROVE TypeOK'
    BY <1>6 DEF DropSubscription, Unsubscribe
<1>7. ASSUME NEW i \in Ids, Detach(i) PROVE TypeOK'
    BY <1>7 DEF Detach
<1>8. CASE RetainVisit \/ \E keep \in BOOLEAN : CallbackReturns(keep)
    BY <1>8, DispatchStep
<1>9. CASE RetainEnd
  <2>1. frames' \in Seq(Frame) /\ PutBack \in SUBSET Ids
    BY <1>9, DispatchEnd, PutBackType
  <2> QED
    BY <1>9, <2>1 DEF RetainEnd
<1> QED
    BY <1>1, <1>2, <1>3, <1>4, <1>5, <1>6, <1>7, <1>8, <1>9 DEF Next

\* Only an insertion gives out an id.
LEMMA GivenOutKept == TypeOK /\ GivenOut /\ [Next]_vars => GivenOut'
<1> SUFFICES ASSUME TypeOK, GivenOut, [Next]_vars PROVE GivenOut'
    OBVIOUS
<1> USE SubscriberSetAssumption DEF TypeOK, GivenOut
<1>1. CASE UNCHANGED <<handle, next_subscriber_id>>
    BY <1>1
<1>2. ASSUME NEW k \in Keys, Insert(k) PROVE GivenOut'
    BY <1>2 DEF Insert, Ids
<1>3. ASSUME NEW i \in Ids, DropSubscription(i) \/ Detach(i) PROVE GivenOut'
    BY <1>3 DEF DropSubscription, Detach
<1>4. ASSUME NEW k \in Keys, Remove(k) \/ RetainBegin(k) PROVE GivenOut'
    BY <1>1, <1>4 DEF Remove, RetainBegin
<1>5. ASSUME NEW i \in Ids, Activate(i) PROVE GivenOut'
    BY <1>1, <1>5 DEF Activate
<1>6. CASE RetainVisit \/ \E keep \in BOOLEAN : CallbackReturns(keep)
    BY <1>1, <1>6, DispatchStep
<1>7. CASE RetainEnd
    BY <1>1, <1>7 DEF RetainEnd
<1>8. CASE UNCHANGED vars
    BY <1>1, <1>8 DEF vars
<1> QED
    BY <1>2, <1>3, <1>4, <1>5, <1>6, <1>7, <1>8 DEF Next

\* Only a subscription that is dropped is marked, and it stays dropped.
LEMMA MarksKept == TypeOK /\ GivenOut /\ MarksAreOfDropped /\ [Next]_vars => MarksAreOfDropped'
<1> SUFFICES ASSUME TypeOK, GivenOut, MarksAreOfDropped, [Next]_vars,
                    NEW m \in dropped_subscribers'
             PROVE handle'[m[2]] = "dropped"
    BY DEF MarksAreOfDropped
<1> USE SubscriberSetAssumption DEF TypeOK, MarksAreOfDropped
<1>1. CASE UNCHANGED <<handle, dropped_subscribers>>
    BY <1>1
<1>2. ASSUME NEW k \in Keys, Insert(k) PROVE handle'[m[2]] = "dropped"
  <2>1. next_subscriber_id \in Ids /\ handle[next_subscriber_id] = "none"
    BY <1>2 DEF Insert, Ids, GivenOut
  <2>2. m \in dropped_subscribers /\ handle[m[2]] = "dropped"
    BY <1>2 DEF Insert
  <2> QED
    BY <1>2, <2>1, <2>2 DEF Insert
<1>3. ASSUME NEW i \in Ids, DropSubscription(i) PROVE handle'[m[2]] = "dropped"
  <2>1. m \in dropped_subscribers \/ m[2] = i
    BY <1>3 DEF DropSubscription, Unsubscribe
  <2>2. m \in dropped_subscribers => m[2] \in Ids
    OBVIOUS
  <2> QED
    BY <1>3, <2>1, <2>2 DEF DropSubscription
<1>4. ASSUME NEW i \in Ids, Detach(i) PROVE handle'[m[2]] = "dropped"
  <2>1. m \in dropped_subscribers /\ m[2] \in Ids /\ m[2] # i
    BY <1>4 DEF Detach
  <2> QED
    BY <1>4, <2>1 DEF Detach
<1>5. ASSUME NEW k \in Keys, Remove(k) \/ RetainBegin(k) PROVE handle'[m[2]] = "dropped"
    BY <1>1, <1>5 DEF Remove, RetainBegin
<1>6. ASSUME NEW i \in Ids, Activate(i) PROVE handle'[m[2]] = "dropped"
    BY <1>1, <1>6 DEF Activate
<1>7. CASE RetainVisit \/ \E keep \in BOOLEAN : CallbackReturns(keep)
    BY <1>1, <1>7, DispatchStep
<1>8. CASE RetainEnd
    BY <1>8 DEF RetainEnd
<1>9. CASE UNCHANGED vars
    BY <1>1, <1>9 DEF vars
<1> QED
    BY <1>2, <1>3, <1>4, <1>5, <1>6, <1>7, <1>8, <1>9 DEF Next

\* A subscriber stays with its emitter: in the map, and in the dispatches
\* that took it.
LEMMA PlacedKept == TypeOK /\ Placed /\ [Next]_vars => Placed'
<1> SUFFICES ASSUME TypeOK, Placed, [Next]_vars PROVE Placed'
    OBVIOUS
<1> USE SubscriberSetAssumption DEF TypeOK, Placed
<1>1. ASSUME UNCHANGED <<next_subscriber_id, emitter_key, frames>>,
             \A k \in Keys : registered'[k] \subseteq registered[k]
      PROVE  Placed'
    BY <1>1
<1>2. ASSUME NEW k \in Keys, Insert(k) PROVE Placed'
  <2>1. /\ next_subscriber_id \in Ids /\ next_subscriber_id' = next_subscriber_id + 1
        /\ emitter_key' = [emitter_key EXCEPT ![next_subscriber_id] = k]
        /\ registered' = [registered EXCEPT ![k] = @ \cup {next_subscriber_id}]
        /\ frames' = frames
    BY <1>2 DEF Insert, Ids
  <2>2. \A i \in Ids : i < next_subscriber_id => /\ i < next_subscriber_id'
                                                /\ emitter_key'[i] = emitter_key[i]
    BY <2>1 DEF Ids
  <2>3. \A e \in Keys : \A i \in registered'[e] :
            i < next_subscriber_id' /\ emitter_key'[i] = e
    BY <2>1, <2>2 DEF Ids
  <2>4. \A f \in FramesOf(frames) : \A i \in Members(f) : i \in Ids
    <3>1. FramesOf(frames) \subseteq Frame
      BY DEF FramesOf
    <3>2. \A f \in Frame : Members(f) \subseteq Ids
      BY DEF Frame, Members
    <3> QED
      BY <3>1, <3>2
  <2>5. \A f \in FramesOf(frames) : \A i \in Members(f) :
            i < next_subscriber_id' /\ emitter_key'[i] = f.emitter
    BY <2>1, <2>2, <2>4
  <2> QED
    BY <2>1, <2>3, <2>5
<1>3. ASSUME NEW k \in Keys, Remove(k) PROVE Placed'
    BY <1>1, <1>3 DEF Remove
<1>4. ASSUME NEW k \in Keys, RetainBegin(k) PROVE Placed'
  <2>1. PICK f \in Frame : /\ f.emitter = k /\ Members(f) = registered[k]
                           /\ FramesOf(frames') = FramesOf(frames) \cup {f}
    BY <1>4, DispatchBegin
  <2>2. /\ UNCHANGED <<next_subscriber_id, emitter_key>>
        /\ \A e \in Keys : registered'[e] \subseteq registered[e]
    BY <1>4 DEF RetainBegin
  <2> QED
    BY <2>1, <2>2
<1>5. ASSUME NEW i \in Ids, DropSubscription(i) PROVE Placed'
    BY <1>1, <1>5 DEF DropSubscription, Unsubscribe
<1>6. ASSUME NEW i \in Ids, Activate(i) \/ Detach(i) PROVE Placed'
    BY <1>1, <1>6 DEF Activate, Detach
<1>7. CASE RetainVisit \/ \E keep \in BOOLEAN : CallbackReturns(keep)
  <2>1. PICK f \in Frame : /\ f.emitter = Top.emitter /\ Members(f) \subseteq Members(Top)
                           /\ FramesOf(frames') = FramesOf(Caller) \cup {f}
    BY <1>7, DispatchStep
  <2>2. /\ UNCHANGED <<registered, next_subscriber_id, emitter_key>> /\ frames # <<>>
    BY <1>7, DispatchStep
  <2>3. FramesOf(frames) = FramesOf(Caller) \cup {Top}
    BY <2>2, FramesTop
  <2> QED
    BY <2>1, <2>2, <2>3
<1>8. CASE RetainEnd
  <2>1. /\ FramesOf(frames) = FramesOf(frames') \cup {Top} /\ Top \in Frame
        /\ Members(Top) = Top.kept
    BY <1>8, DispatchEnd
  <2>2. /\ UNCHANGED <<next_subscriber_id, emitter_key>>
        /\ registered' = [registered EXCEPT ![Top.emitter] = PutBack]
    BY <1>8 DEF RetainEnd
  <2>3. PutBack \subseteq Members(Top) \cup registered[Top.emitter] /\ Top.emitter \in Keys
    BY <2>1 DEF PutBack, Frame
  <2> QED
    BY <2>1, <2>2, <2>3
<1>9. CASE UNCHANGED vars
    BY <1>1, <1>9 DEF vars
<1> QED
    BY <1>2, <1>3, <1>4, <1>5, <1>6, <1>7, <1>8, <1>9 DEF Next

\* An emitter is taken when its dispatch begins, and released when it ends.
LEMMA TakenKept ==
    TypeOK /\ TakenOnlyWhileDispatching /\ [Next]_vars => TakenOnlyWhileDispatching'
<1> SUFFICES ASSUME TypeOK, TakenOnlyWhileDispatching, [Next]_vars
             PROVE TakenOnlyWhileDispatching'
    OBVIOUS
<1> USE DEF TakenOnlyWhileDispatching, Dispatching
<1>1. ASSUME UNCHANGED frames, taken' \subseteq taken PROVE TakenOnlyWhileDispatching'
    BY <1>1
<1>2. ASSUME NEW k \in Keys, Insert(k) \/ Remove(k) PROVE TakenOnlyWhileDispatching'
    BY <1>1, <1>2 DEF Insert, Remove
<1>3. ASSUME NEW k \in Keys, RetainBegin(k) PROVE TakenOnlyWhileDispatching'
  <2>1. PICK f \in Frame : f.emitter = k /\ FramesOf(frames') = FramesOf(frames) \cup {f}
    BY <1>3, DispatchBegin
  <2>2. taken' = taken \cup {k}
    BY <1>3 DEF RetainBegin
  <2> QED
    BY <2>1, <2>2
<1>4. ASSUME NEW i \in Ids, Activate(i) \/ DropSubscription(i) \/ Detach(i)
      PROVE TakenOnlyWhileDispatching'
    BY <1>1, <1>4 DEF Activate, DropSubscription, Detach
<1>5. CASE RetainVisit \/ \E keep \in BOOLEAN : CallbackReturns(keep)
  <2>1. PICK f \in Frame :
            f.emitter = Top.emitter /\ FramesOf(frames') = FramesOf(Caller) \cup {f}
    BY <1>5, DispatchStep
  <2>2. UNCHANGED taken /\ frames # <<>>
    BY <1>5, DispatchStep
  <2>3. FramesOf(frames) = FramesOf(Caller) \cup {Top}
    BY <2>2, FramesTop DEF TypeOK
  <2> QED
    BY <2>1, <2>2, <2>3
<1>6. CASE RetainEnd
  <2>1. FramesOf(frames) = FramesOf(frames') \cup {Top}
    BY <1>6, DispatchEnd
  <2>2. taken' = taken \ {Top.emitter}
    BY <1>6 DEF RetainEnd
  <2> QED
    BY <2>1, <2>2
<1>7. CASE UNCHANGED vars
    BY <1>1, <1>7 DEF vars
<1> QED
    BY <1>2, <1>3, <1>4, <1>5, <1>6, <1>7 DEF Next

\* A mark is made of a taken emitter, hence in a dispatch, and every end of
\* a dispatch consumes the marks.
LEMMA ConsumedKept ==
    TypeOK /\ TakenOnlyWhileDispatching /\ MarksConsumed /\ [Next]_vars => MarksConsumed'
<1> SUFFICES ASSUME TypeOK, TakenOnlyWhileDispatching, MarksConsumed, [Next]_vars
             PROVE MarksConsumed'
    OBVIOUS
<1> USE DEF MarksConsumed
<1>1. CASE UNCHANGED <<frames, dropped_subscribers>>
    BY <1>1
<1>2. ASSUME NEW k \in Keys, Insert(k) \/ Remove(k) PROVE MarksConsumed'
    BY <1>1, <1>2 DEF Insert, Remove
<1>3. ASSUME NEW k \in Keys, RetainBegin(k) PROVE MarksConsumed'
    BY <1>3, DispatchBegin
<1>4. ASSUME NEW i \in Ids, DropSubscription(i) PROVE MarksConsumed'
  <2>1. frames = <<>> => taken = {}
    BY FramesNone DEF TakenOnlyWhileDispatching, Dispatching
  <2> QED
    BY <1>4, <2>1 DEF DropSubscription, Unsubscribe
<1>5. ASSUME NEW i \in Ids, Activate(i) \/ Detach(i) PROVE MarksConsumed'
    BY <1>1, <1>5 DEF Activate, Detach
<1>6. CASE RetainVisit \/ \E keep \in BOOLEAN : CallbackReturns(keep)
  <2>1. frames # <<>> /\ frames \in Seq(Frame) /\ frames' \in Seq(Frame)
        /\ Len(frames') = Len(frames)
    BY <1>6, DispatchStep DEF TypeOK
  <2> QED
    BY <2>1, FramesNone
<1>7. CASE RetainEnd
    BY <1>7 DEF RetainEnd
<1>8. CASE UNCHANGED vars
    BY <1>1, <1>8 DEF vars
<1> QED
    BY <1>2, <1>3, <1>4, <1>5, <1>6, <1>7, <1>8 DEF Next

\* The steps of the dispatches hand the subscribers on: map, dispatch, map.
LEMMA LostKept ==
    TypeOK /\ GivenOut /\ MarksAreOfDropped /\ NoSubscriberLost /\ [Next]_vars
        => NoSubscriberLost'
<1> SUFFICES ASSUME TypeOK, GivenOut, MarksAreOfDropped, NoSubscriberLost, [Next]_vars,
                    NEW i \in Ids, handle'[i] \in {"held", "detached"}, i \notin cancelled'
             PROVE i \in Live'
    BY DEF NoSubscriberLost
<1> USE SubscriberSetAssumption DEF TypeOK
<1>1. ASSUME handle[i] \in {"held", "detached"}, i \notin cancelled
      PROVE  \/ \E k \in Keys : i \in registered[k]
             \/ \E f \in FramesOf(frames) : i \in Members(f)
    BY <1>1 DEF NoSubscriberLost, Live
<1>2. ASSUME \/ \E k \in Keys : i \in registered'[k]
             \/ \E f \in FramesOf(frames') : i \in Members(f)
      PROVE  i \in Live'
    BY <1>2 DEF Live
<1>3. ASSUME UNCHANGED <<frames, handle, cancelled>>,
             \A k \in Keys : registered[k] \subseteq registered'[k]
      PROVE  i \in Live'
    BY <1>1, <1>2, <1>3
<1>4. ASSUME NEW k \in Keys, Insert(k) PROVE i \in Live'
  <2>1. /\ frames' = frames /\ cancelled' = cancelled
        /\ registered' = [registered EXCEPT ![k] = @ \cup {next_subscriber_id}]
        /\ handle' = [handle EXCEPT ![next_subscriber_id] = "held"]
    BY <1>4 DEF Insert
  <2>2. CASE i = next_subscriber_id
    BY <1>2, <2>1, <2>2
  <2>3. CASE i # next_subscriber_id
    BY <1>1, <1>2, <2>1, <2>3
  <2> QED
    BY <2>2, <2>3
<1>5. ASSUME NEW k \in Keys, Remove(k) PROVE i \in Live'
  <2>1. /\ frames' = frames /\ cancelled' = cancelled \cup registered[k] /\ handle' = handle
        /\ registered' = [registered EXCEPT ![k] = {}]
    BY <1>5 DEF Remove
  <2> QED
    BY <1>1, <1>2, <2>1
<1>6. ASSUME NEW k \in Keys, RetainBegin(k) PROVE i \in Live'
  <2>1. PICK f \in Frame : /\ Members(f) = registered[k]
                           /\ FramesOf(frames') = FramesOf(frames) \cup {f}
    BY <1>6, DispatchBegin
  <2>2. /\ cancelled' = cancelled /\ handle' = handle
        /\ registered' = [registered EXCEPT ![k] = {}]
    BY <1>6 DEF RetainBegin
  <2> QED
    BY <1>1, <1>2, <2>1, <2>2
<1>7. ASSUME NEW j \in Ids, DropSubscription(j) PROVE i \in Live'
  <2>1. /\ frames' = frames /\ cancelled' = cancelled
        /\ handle' = [handle EXCEPT ![j] = "dropped"]
        /\ registered' = [registered EXCEPT ![emitter_key[j]] = @ \ {j}]
    BY <1>7 DEF DropSubscription, Unsubscribe
  <2>2. i # j /\ handle[i] \in {"held", "detached"}
    BY <2>1
  <2> QED
    BY <1>1, <1>2, <2>1, <2>2
<1>8. ASSUME NEW j \in Ids, Detach(j) PROVE i \in Live'
  <2>1. /\ frames' = frames /\ cancelled' = cancelled /\ registered' = registered
        /\ handle' = [handle EXCEPT ![j] = "detached"] /\ handle[j] = "held"
    BY <1>8 DEF Detach
  <2>2. handle[i] \in {"held", "detached"}
    BY <2>1
  <2> QED
    BY <1>1, <1>2, <2>1, <2>2
<1>9. ASSUME NEW j \in Ids, Activate(j) PROVE i \in Live'
    BY <1>3, <1>9 DEF Activate
<1>10. CASE RetainVisit \/ \E keep \in BOOLEAN : CallbackReturns(keep)
  <2>1. PICK f \in Frame : /\ Members(Top) \subseteq Members(f) \cup cancelled'
                           /\ FramesOf(frames') = FramesOf(Caller) \cup {f}
    BY <1>10, DispatchStep
  <2>2. /\ UNCHANGED <<registered, handle>> /\ cancelled \subseteq cancelled' /\ frames # <<>>
    BY <1>10, DispatchStep
  <2>3. FramesOf(frames) = FramesOf(Caller) \cup {Top}
    BY <2>2, FramesTop
  <2> QED
    BY <1>1, <1>2, <2>1, <2>2, <2>3
<1>11. CASE RetainEnd
  <2>1. /\ FramesOf(frames) = FramesOf(frames') \cup {Top} /\ Top \in Frame
        /\ Members(Top) = Top.kept
    BY <1>11, DispatchEnd
  <2>2. /\ UNCHANGED <<handle, cancelled>>
        /\ registered' = [registered EXCEPT ![Top.emitter] = PutBack]
    BY <1>11 DEF RetainEnd
  <2>3. \A m \in dropped_subscribers : m[2] # i
    BY <2>2 DEF MarksAreOfDropped
  <2>4. Top.emitter \in Keys
    BY <2>1 DEF Frame
  <2>5. i \in Top.kept \cup registered[Top.emitter] => i \in PutBack
    BY <2>3 DEF PutBack
  <2> QED
    BY <1>1, <1>2, <2>1, <2>2, <2>4, <2>5
<1>12. CASE UNCHANGED vars
    BY <1>3, <1>12 DEF vars
<1> QED
    BY <1>4, <1>5, <1>6, <1>7, <1>8, <1>9, <1>10, <1>11, <1>12 DEF Next

\* Without reentrancy a dropped subscription that the dispatch took is
\* marked when it is dropped, and the marks last to the end of the dispatch.
LEMMA InTurnKept ==
    TypeOK /\ GivenOut /\ Placed /\ InTurn /\ [Next]_vars => InTurn'
<1> SUFFICES ASSUME TypeOK, GivenOut, Placed, InTurn, [Next]_vars, ~reentered'
             PROVE  /\ Len(frames') \in {0, 1} /\ Dispatching' \subseteq taken'
                    /\ \A i \in Ids : handle'[i] = "dropped" =>
                        /\ \A k \in Keys : i \notin registered'[k]
                        /\ \A f \in FramesOf(frames') : i \in Members(f) =>
                                <<f.emitter, i>> \in dropped_subscribers'
    BY DEF InTurn
<1> DEFINE Goal ==
               /\ Len(frames') \in {0, 1} /\ Dispatching' \subseteq taken'
               /\ \A i \in Ids : handle'[i] = "dropped" =>
                        /\ \A k \in Keys : i \notin registered'[k]
                        /\ \A f \in FramesOf(frames') : i \in Members(f) =>
                                <<f.emitter, i>> \in dropped_subscribers'
<1> USE SubscriberSetAssumption DEF TypeOK
<1>1. ASSUME UNCHANGED <<frames, taken, dropped_subscribers, reentered>>,
             \A i \in Ids : handle'[i] = "dropped" => handle[i] = "dropped",
             \A k \in Keys : registered'[k] = registered[k]
      PROVE  Goal
    BY <1>1 DEF InTurn, Dispatching
<1>2. ASSUME NEW k \in Keys, Insert(k) PROVE Goal
  <2>1. /\ frames' = frames /\ dropped_subscribers' = dropped_subscribers
        /\ taken' = taken \ {k} /\ ~reentered /\ k \notin Dispatching
        /\ registered' = [registered EXCEPT ![k] = @ \cup {next_subscriber_id}]
        /\ handle' = [handle EXCEPT ![next_subscriber_id] = "held"]
    BY <1>2 DEF Insert, Touches
  <2>2. \A i \in Ids : handle'[i] = "dropped" =>
            handle[i] = "dropped" /\ i # next_subscriber_id
    BY <2>1
  <2> QED
    BY <2>1, <2>2 DEF InTurn, Dispatching
<1>3. ASSUME NEW k \in Keys, Remove(k) PROVE Goal
  <2>1. /\ UNCHANGED <<frames, dropped_subscribers, handle>>
        /\ taken' = taken \ {k} /\ ~reentered /\ k \notin Dispatching
        /\ registered' = [registered EXCEPT ![k] = {}]
    BY <1>3 DEF Remove, Touches
  <2> QED
    BY <2>1 DEF InTurn, Dispatching
<1>4. ASSUME NEW k \in Keys, RetainBegin(k) PROVE Goal
  <2>1. PICK f \in Frame : /\ f.emitter = k /\ Members(f) = registered[k]
                           /\ FramesOf(frames') = FramesOf(frames) \cup {f}
    BY <1>4, DispatchBegin
  <2>2. /\ UNCHANGED <<dropped_subscribers, handle>> /\ ~reentered /\ frames = <<>>
        /\ taken' = taken \cup {k} /\ registered' = [registered EXCEPT ![k] = {}]
    BY <1>4 DEF RetainBegin
  <2>3. Len(frames') = 1 /\ FramesOf(frames') = {f}
    BY <1>4, <2>1, <2>2, DispatchBegin, FramesNone
  <2> QED
    BY <2>1, <2>2, <2>3 DEF InTurn, Dispatching
<1>5. ASSUME NEW j \in Ids, DropSubscription(j) PROVE Goal
  <2>1. /\ UNCHANGED <<frames, taken, reentered>>
        /\ handle' = [handle EXCEPT ![j] = "dropped"]
        /\ registered' = [registered EXCEPT ![emitter_key[j]] = @ \ {j}]
        /\ dropped_subscribers' = IF emitter_key[j] \in taken
                                    THEN dropped_subscribers \cup {<<emitter_key[j], j>>}
                                    ELSE dropped_subscribers
    BY <1>5 DEF DropSubscription, Unsubscribe
  <2>2. ASSUME NEW i \in Ids, i # j, handle'[i] = "dropped"
        PROVE /\ \A k \in Keys : i \notin registered'[k]
              /\ \A f \in FramesOf(frames') : i \in Members(f) =>
                        <<f.emitter, i>> \in dropped_subscribers'
    BY <2>1, <2>2 DEF InTurn
  <2>3. \A k \in Keys : j \notin registered'[k]
    BY <2>1 DEF Placed
  <2>4. \A f \in FramesOf(frames') : j \in Members(f) =>
                        <<f.emitter, j>> \in dropped_subscribers'
    BY <2>1 DEF Placed, InTurn, Dispatching
  <2>5. Len(frames') \in {0, 1} /\ Dispatching' \subseteq taken'
    BY <2>1 DEF InTurn, Dispatching
  <2> QED
    BY <2>2, <2>3, <2>4, <2>5
<1>6. ASSUME NEW j \in Ids, Detach(j) PROVE Goal
    BY <1>1, <1>6 DEF Detach
<1>7. ASSUME NEW j \in Ids, Activate(j) PROVE Goal
    BY <1>1, <1>7 DEF Activate
<1>8. CASE RetainVisit \/ \E keep \in BOOLEAN : CallbackReturns(keep)
  <2>1. PICK f \in Frame : /\ f.emitter = Top.emitter /\ Members(f) \subseteq Members(Top)
                           /\ FramesOf(frames') = FramesOf(Caller) \cup {f}
    BY <1>8, DispatchStep
  <2>2. /\ UNCHANGED <<registered, handle, taken, dropped_subscribers, reentered>>
        /\ frames # <<>> /\ Len(frames') = Len(frames)
    BY <1>8, DispatchStep
  <2>3. FramesOf(frames) = FramesOf(Caller) \cup {Top}
    BY <2>2, FramesTop
  <2> QED
    BY <2>1, <2>2, <2>3 DEF InTurn, Dispatching
<1>9. CASE RetainEnd
  <2>1. /\ FramesOf(frames) = FramesOf(frames') \cup {Top} /\ Top \in Frame
        /\ Members(Top) = Top.kept /\ Len(frames') = Len(frames) - 1 /\ Len(frames) \in Nat
        /\ frames' \in Seq(Frame) /\ Len(frames') \in Nat
    BY <1>9, DispatchEnd
  <2>2. /\ UNCHANGED <<handle, reentered>>
        /\ registered' = [registered EXCEPT ![Top.emitter] = PutBack]
    BY <1>9 DEF RetainEnd
  <2>3. Len(frames') = 0 /\ FramesOf(frames') = {}
    BY <2>1, <2>2, FramesNone DEF InTurn
  <2>4. ASSUME NEW i \in Ids, handle[i] = "dropped" PROVE i \notin PutBack
    <3>1. i \notin registered[Top.emitter]
      BY <2>1, <2>2, <2>4 DEF InTurn, Frame
    <3>2. i \in Top.kept => <<Top.emitter, i>> \in dropped_subscribers
      BY <2>1, <2>2, <2>4 DEF InTurn
    <3> QED
      BY <3>1, <3>2 DEF PutBack
  <2>5. \A i \in Ids : handle'[i] = "dropped" => \A k \in Keys : i \notin registered'[k]
    BY <2>2, <2>4 DEF InTurn
  <2> QED
    BY <2>3, <2>5 DEF Dispatching
<1>10. CASE UNCHANGED vars
    BY <1>1, <1>10 DEF vars
<1> QED
    BY <1>2, <1>3, <1>4, <1>5, <1>6, <1>7, <1>8, <1>9, <1>10 DEF Next

\* The invariant holds at first.
LEMMA InitInvariant == Init => IInv
<1> SUFFICES ASSUME Init PROVE IInv
    OBVIOUS
<1>1. TypeOK
  <2>1. (CHOOSE k \in Keys : TRUE) \in Keys
    BY SubscriberSetAssumption
  <2>2. frames \in Seq(Frame) /\ next_subscriber_id \in 0 .. MaxSubscribers
    BY SubscriberSetAssumption DEF Init
  <2>3. handle \in [Ids -> {"none", "held", "dropped", "detached"}]
    BY DEF Init
  <2>4. registered \in [Keys -> SUBSET Ids] /\ emitter_key \in [Ids -> Keys]
    BY <2>1 DEF Init
  <2>5. reentered \in BOOLEAN
    BY Zenon DEF Init
  <2> QED
    BY <2>2, <2>3, <2>4, <2>5 DEF Init, TypeOK
<1>2. FramesOf(frames) = {} /\ Len(frames) = 0
    BY FramesNone DEF Init
<1>3. GivenOut
    BY SubscriberSetAssumption DEF Init, GivenOut, Ids
<1>4. Placed /\ MarksAreOfDropped
    BY <1>2 DEF Init, Placed, MarksAreOfDropped
<1>5. InTurn
    BY <1>2 DEF Init, InTurn, Dispatching
<1>6. TakenOnlyWhileDispatching /\ NoSubscriberLost /\ MarksConsumed
    BY DEF Init, TakenOnlyWhileDispatching, NoSubscriberLost, MarksConsumed
<1> QED
    BY <1>1, <1>3, <1>4, <1>5, <1>6 DEF IInv

\* What the theorems below follow from.
LEMMA Invariance == Spec => []IInv
<1>1. IInv /\ [Next]_vars => IInv'
    BY TypesKept, GivenOutKept, PlacedKept, MarksKept, InTurnKept, TakenKept, LostKept,
       ConsumedKept DEF IInv
<1> QED
    BY InitInvariant, <1>1, PTL DEF Spec

\* The maps, the marks and the dispatches in progress keep their types.
THEOREM SubscriberTypes == Spec => []TypeOK
<1>1. IInv => TypeOK
    BY DEF IInv
<1> QED
    BY Invariance, <1>1, PTL

\* The map of an emitter is held by a dispatch that will put it back,
\* however deep the callbacks dispatch.
THEOREM TakenIsPutBack == Spec => []TakenOnlyWhileDispatching
<1>1. IInv => TakenOnlyWhileDispatching
    BY DEF IInv
<1> QED
    BY Invariance, <1>1, PTL

\* No dispatch, and nothing a callback does, loses a subscriber.
THEOREM SubscribersKept == Spec => []NoSubscriberLost
<1>1. IInv => NoSubscriberLost
    BY DEF IInv
<1> QED
    BY Invariance, <1>1, PTL

\* No mark of a dropped subscription outlives the dispatches.
THEOREM MarksDoNotOutlive == Spec => []MarksConsumed
<1>1. IInv => MarksConsumed
    BY DEF IInv
<1> QED
    BY Invariance, <1>1, PTL

\* What was dropped is forgotten, as long as no callback dispatches or
\* changes the subscribers of the emitter that is being dispatched.
THEOREM ForgottenInTurn == Spec => []DroppedForgottenInTurn
<1>1. IInv => DroppedForgottenInTurn
  <2> SUFFICES ASSUME IInv, ~reentered, frames = <<>>, NEW i \in Ids, handle[i] = "dropped"
               PROVE i \notin Live
    BY DEF DroppedForgottenInTurn, DroppedForgotten
  <2>1. FramesOf(frames) = {}
    BY FramesNone
  <2> QED
    BY <2>1 DEF IInv, InTurn, Live
<1> QED
    BY Invariance, <1>1, PTL

=============================================================================
