-------------------------- MODULE GestureOnlyModeProofs --------------------------
(***************************************************************************)
(* The safety properties of the intro mode hold for every window and every  *)
(* cooldown.  A frame that is mostly empty is one in which only one         *)
(* category dominates, so that the machine is told of it before it is told  *)
(* of anything else; and the cooldown is as old as the swipe it follows.    *)
(***************************************************************************)
EXTENDS GestureOnlyMode, FiniteSetTheorems, SequenceTheorems, TLAPS

Swipe == {"SwipeVertical", "SwipeHorizontal"}
Rest  == {"GestureRecognition", "Cooldown"}

(* Where the machine is: between frames it runs nothing, it has a state     *)
(* while it runs, and a next state exactly on a transition's SM_EXIT.       *)
MachineInv ==
  /\ frameStep = "between" => input = "none"
  /\ frameStep \notin {"between", "shutdown"} => current # NoState
  /\ frameStep = "shutdown" => input \in {"none", "exit"} /\ next = NoState
  /\ frameStep = "shutdown" /\ input = "none" => current = NoState
  /\ current = NoState => input = "none"
  /\ input # "exit" => next = NoState
  /\ input = "exit" /\ frameStep # "shutdown" => next # NoState

(* The driver's gesture belongs to the state that began it, on entry.       *)
OutputInv ==
  /\ gesture # NoGesture => current \in GestureState /\ gesture = GestureOf[current]
  /\ input = "enter" => gesture = NoGesture

(* Until the history is long enough, nothing but recognition is entered.    *)
YoungInv ==
  /\ aged = "yes" => Len(history) = Window
  /\ aged = "no" => current \in {NoState, "GestureRecognition"} /\ next = NoState

(* A frame without enough to see.                                           *)
Empty == aged = "no" \/ Dominates("OTHER")

(* In such a frame the first event of the machine takes it to rest, or to a *)
(* swipe that the last one finishes.                                        *)
EmptyInv ==
  Empty /\ frameStep \in {"touch", "process", "end", "between"} =>
    /\ input \in {"none", "enter"} => current \in {NoState} \cup Rest \cup Swipe
    /\ input = "enter" => current \in Rest
    /\ input = "none" /\ frameStep \in {"end", "between"} => current \notin Swipe
    /\ input = "exit" => next \in Rest
    /\ input \in CountInput => input = "COUNT_OTHER" /\ frameStep = "touch"
    /\ input \in {"TOUCHING", "NOT_TOUCHING", "PROCESS_FRAME"} => current \in Rest \cup Swipe
    /\ input = "PROCESS_FRAME" <=> input \in UserInput /\ frameStep = "end"

(* A swipe is followed by a cooldown that is not older than it.             *)
SwipeInv ==
  /\ input = "exit" /\ frameStep # "shutdown" /\ current \in Swipe \cup {"Palm_Swipe"} =>
       next = "Cooldown"
  /\ sinceSwipe < Cooldown =>
       \/ frameStep = "shutdown"
       \/ /\ current = "Cooldown" /\ input # "exit"
          /\ input = "enter" \/ cooldownAge <= sinceSwipe

IInv == TypeOK /\ MachineInv /\ OutputInv /\ YoungInv /\ EmptyInv /\ SwipeInv

-------------------------------------------------------------------------------
(* Facts.                                                                   *)

(* The states and the inputs.                                               *)
LEMMA NamesDistinct ==
  /\ NoState \notin State /\ NoGesture \notin GestureType
  /\ GestureState \subseteq State /\ Rest \subseteq State \ GestureState
  /\ Swipe \subseteq GestureState
  /\ \A s \in GestureState : GestureOf[s] \in GestureType
  /\ {"none", "enter", "exit"} \cap UserInput = {} /\ CountInput \subseteq UserInput
  /\ \A c \in Category : CountOf(c) \in CountInput
  BY DEF NoState, State, NoGesture, GestureType, GestureState, Rest, Swipe, GestureOf, UserInput,
     CountInput, Category, CountOf

(* AddFrame keeps the newest frames.                                        *)
LEMMA HistoryBounded ==
  ASSUME TypeOK, NEW c \in Category, AddFrame(c)
  PROVE  /\ history' \in Seq(Category) /\ Len(history') <= Window
         /\ aged' \in {"yes", "no"}
         /\ aged' = "yes" => Len(history') = Window
         /\ aged' = "no" => Len(history) # Window
<1>1. /\ history \in Seq(Category) /\ Len(history) \in Nat /\ Len(history) <= Window
      /\ Window \in Nat /\ Window # 0
  BY GestureOnlyAssumption DEF TypeOK
<1>2. <<c>> \in Seq(Category) /\ Len(<<c>>) = 1
  OBVIOUS
<1>3. CASE Len(history) = Window
  <2>1. SubSeq(history, 1, Window - 1) \in Seq(Category)
        /\ Len(SubSeq(history, 1, Window - 1)) = Window - 1
    <3>1. \A i \in 1..(Window - 1) : history[i] \in Category
      BY <1>1, <1>3
    <3>. QED
      BY <1>1, <3>1, SubSeqProperties
  <2>. QED
    BY <1>1, <1>2, <1>3, <2>1, ConcatProperties DEF AddFrame
<1>4. CASE Len(history) # Window
  BY <1>1, <1>2, <1>4, ConcatProperties DEF AddFrame
<1>. QED
  BY <1>3, <1>4

(* Three quarters of the window leave no room for another three quarters.   *)
LEMMA OneDominates ==
  ASSUME TypeOK, NEW c \in Category, NEW d \in Category, Dominates(c), Dominates(d)
  PROVE  c = d
<1> DEFINE Frames(k) == {i \in DOMAIN history : history[i] = k}
<1>1. Window \in Nat \ {0} /\ Len(history) \in Nat /\ Len(history) <= Window
      /\ DOMAIN history = 1..Len(history)
  BY GestureOnlyAssumption DEF TypeOK
<1>2. IsFiniteSet(DOMAIN history) /\ Cardinality(DOMAIN history) = Len(history)
  <2> DEFINE n == Len(history)
  <2>1. 1 \in Int /\ n \in Int
    BY <1>1
  <2>2. IsFiniteSet(1..n) /\ Cardinality(1..n) = IF 1 > n THEN 0 ELSE n - 1 + 1
    <3>. HIDE DEF n
    <3>. QED
      BY <2>1, FS_Interval, Zenon
  <2>. QED
    BY <1>1, <2>2
<1>3. /\ Frames(c) \subseteq DOMAIN history /\ Frames(d) \subseteq DOMAIN history
      /\ IsFiniteSet(Frames(c)) /\ IsFiniteSet(Frames(d))
  BY <1>2, FS_Subset
<1>4. Cardinality(Frames(c)) \in Nat /\ Cardinality(Frames(d)) \in Nat
  BY <1>3, FS_CardinalityType
<1>5. 4 * Cardinality(Frames(c)) >= 3 * Window /\ 4 * Cardinality(Frames(d)) >= 3 * Window
  BY DEF Dominates, Number
<1>6. Cardinality(Frames(c)) + Cardinality(Frames(d)) > Cardinality(DOMAIN history)
  <2>. HIDE DEF Frames
  <2>. QED
    BY <1>1, <1>2, <1>4, <1>5
<1>7. Frames(c) \cap Frames(d) # {}
  <2>. HIDE DEF Frames
  <2>. QED
    BY <1>2, <1>3, <1>6, FS_MajoritiesIntersect
<1>. QED
  BY <1>7

(* In an empty frame the machine hears COUNT_OTHER and no other count.      *)
LEMMA EmptyIsTold ==
  ASSUME TypeOK, Empty
  PROVE  CountEvents = {"COUNT_OTHER"}
<1>1. "OTHER" \in Category /\ CountOf("OTHER") = "COUNT_OTHER"
  BY DEF Category, CountOf
<1>2. CASE aged = "no"
  BY <1>2 DEF CountEvents
<1>3. CASE aged # "no" /\ Dominates("OTHER")
  <2>1. {d \in Category : Dominates(d)} = {"OTHER"}
    BY <1>1, <1>3, OneDominates
  <2>. QED
    BY <1>1, <1>3, <2>1 DEF CountEvents
<1>. QED
  BY <1>2, <1>3 DEF Empty

(* Every event is one the machine knows.                                    *)
LEMMA EventsTyped == CountEvents \subseteq CountInput /\ TouchEvents \subseteq {"TOUCHING", "NOT_TOUCHING"}
  BY NamesDistinct DEF CountEvents, TouchEvents, CountInput

(* The constructor of GestureOnlyMode establishes the invariant.            *)
LEMMA InitIInv == Init => IInv
<1>. SUFFICES ASSUME Init PROVE IInv
  OBVIOUS
<1>. USE GestureOnlyAssumption, NamesDistinct DEF Init, MachineInit
<1>1. TypeOK
  BY DEF TypeOK, MachineTypeOK
<1>2. MachineInv /\ OutputInv /\ YoungInv /\ EmptyInv /\ SwipeInv
  BY DEF MachineInv, OutputInv, YoungInv, EmptyInv, SwipeInv, Swipe, NoState, CountInput, UserInput
<1>. QED
  BY <1>1, <1>2 DEF IInv

-------------------------------------------------------------------------------
(* Handlers.                                                                *)

(* The call of a handler keeps the invariant.                               *)
LEMMA HandlerIInv == IInv /\ Handler => IInv'
<1>. SUFFICES ASSUME IInv, Handler PROVE IInv'
  OBVIOUS
<1>0. /\ UNCHANGED frameVars /\ UNCHANGED frameStep /\ Empty' = Empty
      /\ frameStep # "between" /\ current \in State
  BY DEF Handler, State_GestureRecognition, State_Cooldown, State_2Fingers_Hovering,
     State_2Fingers_Scrolling, State_Swipe, State_Palm_Swipe, Exited, TransitionTo, Stay,
     IInv, MachineInv, TypeOK, MachineTypeOK, frameVars, Empty, Dominates, Number
<1>. USE <1>0, GestureOnlyAssumption DEF IInv, frameVars
<1>1. CASE State_GestureRecognition
  <2>. USE <1>1 DEF State_GestureRecognition, TransitionTo, Stay, Exited
  <2>1. TypeOK'
    BY NamesDistinct DEF TypeOK, MachineTypeOK, State, GestureState, GestureOf, GestureType
  <2>2. MachineInv'
    BY DEF MachineInv, NoState, UserInput, CountInput
  <2>3. OutputInv'
    BY DEF OutputInv, MachineInv, GestureState, NoGesture, GestureOf, NoState, UserInput, CountInput
  <2>4. YoungInv'
    BY DEF YoungInv, MachineInv, NoState, State, UserInput, CountInput
  <2>5. EmptyInv'
    <3>1. SUFFICES ASSUME Empty, frameStep \in {"touch", "process", "end"}
                   PROVE  EmptyInv'
      BY DEF EmptyInv
    <3>2. aged = "no" \/ aged = "yes"
      BY DEF TypeOK
    <3>. QED
      BY <3>1, <3>2
         DEF EmptyInv, YoungInv, MachineInv, Rest, Swipe, NoState, UserInput, CountInput
  <2>6. SwipeInv'
    BY DEF SwipeInv, MachineInv, TypeOK, Swipe, NoState, UserInput, CountInput
  <2>. QED
    BY <2>1, <2>2, <2>3, <2>4, <2>5, <2>6
<1>2. CASE State_Cooldown
  <2>. USE <1>2 DEF State_Cooldown, TransitionTo, Stay, Exited
  <2>1. TypeOK'
    BY NamesDistinct DEF TypeOK, MachineTypeOK, State, GestureState, GestureOf, GestureType
  <2>2. MachineInv'
    BY DEF MachineInv, NoState, UserInput, CountInput
  <2>3. OutputInv'
    BY DEF OutputInv, MachineInv, GestureState, NoGesture, GestureOf, NoState, UserInput, CountInput
  <2>4. YoungInv'
    BY DEF YoungInv, MachineInv, NoState, State, UserInput, CountInput
  <2>5. EmptyInv'
    <3>1. SUFFICES ASSUME Empty, frameStep \in {"touch", "process", "end"}
                   PROVE  EmptyInv'
      BY DEF EmptyInv
    <3>2. aged = "no" \/ aged = "yes"
      BY DEF TypeOK
    <3>. QED
      BY <3>1, <3>2
         DEF EmptyInv, YoungInv, MachineInv, Rest, Swipe, NoState, UserInput, CountInput
  <2>6. SwipeInv'
    BY DEF SwipeInv, MachineInv, TypeOK, Swipe, NoState, UserInput, CountInput
  <2>. QED
    BY <2>1, <2>2, <2>3, <2>4, <2>5, <2>6
<1>3. CASE State_2Fingers_Hovering
  <2>. USE <1>3 DEF State_2Fingers_Hovering, TransitionTo, Stay, Exited
  <2>1. TypeOK'
    BY NamesDistinct DEF TypeOK, MachineTypeOK, State, GestureState, GestureOf, GestureType
  <2>2. MachineInv'
    BY DEF MachineInv, NoState, UserInput, CountInput
  <2>3. OutputInv'
    BY DEF OutputInv, MachineInv, GestureState, NoGesture, GestureOf, NoState, UserInput, CountInput
  <2>4. YoungInv'
    BY DEF YoungInv, MachineInv, NoState, State, UserInput, CountInput
  <2>5. EmptyInv'
    <3>1. SUFFICES ASSUME Empty, frameStep \in {"touch", "process", "end"}
                   PROVE  EmptyInv'
      BY DEF EmptyInv
    <3>2. aged = "no" \/ aged = "yes"
      BY DEF TypeOK
    <3>. QED
      BY <3>1, <3>2
         DEF EmptyInv, YoungInv, MachineInv, Rest, Swipe, NoState, UserInput, CountInput
  <2>6. SwipeInv'
    BY DEF SwipeInv, MachineInv, TypeOK, Swipe, NoState, UserInput, CountInput
  <2>. QED
    BY <2>1, <2>2, <2>3, <2>4, <2>5, <2>6
<1>4. CASE State_2Fingers_Scrolling
  <2>. USE <1>4 DEF State_2Fingers_Scrolling, TransitionTo, Stay, Exited, Begin, End
  <2>1. TypeOK'
    BY NamesDistinct DEF TypeOK, MachineTypeOK, State, GestureState, GestureOf, GestureType
  <2>2. MachineInv'
    BY DEF MachineInv, NoState, UserInput, CountInput
  <2>3. OutputInv'
    BY DEF OutputInv, MachineInv, GestureState, NoGesture, GestureOf, NoState, UserInput, CountInput
  <2>4. YoungInv'
    BY DEF YoungInv, MachineInv, NoState, State, UserInput, CountInput
  <2>5. EmptyInv'
    <3>1. SUFFICES ASSUME Empty, frameStep \in {"touch", "process", "end"}
                   PROVE  EmptyInv'
      BY DEF EmptyInv
    <3>2. aged = "no" \/ aged = "yes"
      BY DEF TypeOK
    <3>. QED
      BY <3>1, <3>2
         DEF EmptyInv, YoungInv, MachineInv, Rest, Swipe, NoState, UserInput, CountInput
  <2>6. SwipeInv'
    BY DEF SwipeInv, MachineInv, TypeOK, Swipe, NoState, UserInput, CountInput
  <2>. QED
    BY <2>1, <2>2, <2>3, <2>4, <2>5, <2>6
<1>5. CASE State_Swipe
  <2>. USE <1>5 DEF State_Swipe, TransitionTo, Stay, Exited, Begin, End
  <2>1. TypeOK'
    BY NamesDistinct DEF TypeOK, MachineTypeOK, State, GestureState, GestureOf, GestureType
  <2>2. MachineInv'
    BY DEF MachineInv, NoState, UserInput, CountInput
  <2>3. OutputInv'
    BY DEF OutputInv, MachineInv, GestureState, NoGesture, GestureOf, NoState, UserInput, CountInput
  <2>4. YoungInv'
    BY DEF YoungInv, MachineInv, NoState, State, UserInput, CountInput
  <2>5. EmptyInv'
    <3>1. SUFFICES ASSUME Empty, frameStep \in {"touch", "process", "end"}
                   PROVE  EmptyInv'
      BY DEF EmptyInv
    <3>2. aged = "no" \/ aged = "yes"
      BY DEF TypeOK
    <3>. QED
      BY <3>1, <3>2
         DEF EmptyInv, YoungInv, MachineInv, Rest, Swipe, NoState, UserInput, CountInput
  <2>6. SwipeInv'
    BY DEF SwipeInv, MachineInv, TypeOK, Swipe, NoState, UserInput, CountInput
  <2>. QED
    BY <2>1, <2>2, <2>3, <2>4, <2>5, <2>6
<1>6. CASE State_Palm_Swipe
  <2>. USE <1>6 DEF State_Palm_Swipe, TransitionTo, Stay, Exited, Begin, End
  <2>1. TypeOK'
    BY NamesDistinct DEF TypeOK, MachineTypeOK, State, GestureState, GestureOf, GestureType
  <2>2. MachineInv'
    BY DEF MachineInv, NoState, UserInput, CountInput
  <2>3. OutputInv'
    BY DEF OutputInv, MachineInv, GestureState, NoGesture, GestureOf, NoState, UserInput, CountInput
  <2>4. YoungInv'
    BY DEF YoungInv, MachineInv, NoState, State, UserInput, CountInput
  <2>5. EmptyInv'
    <3>1. SUFFICES ASSUME Empty, frameStep \in {"touch", "process", "end"}
                   PROVE  EmptyInv'
      BY DEF EmptyInv
    <3>2. aged = "no" \/ aged = "yes"
      BY DEF TypeOK
    <3>. QED
      BY <3>1, <3>2
         DEF EmptyInv, YoungInv, MachineInv, Rest, Swipe, NoState, UserInput, CountInput
  <2>6. SwipeInv'
    BY DEF SwipeInv, MachineInv, TypeOK, Swipe, NoState, UserInput, CountInput
  <2>. QED
    BY <2>1, <2>2, <2>3, <2>4, <2>5, <2>6
<1>. QED
  BY <1>1, <1>2, <1>3, <1>4, <1>5, <1>6 DEF Handler

-------------------------------------------------------------------------------
(* Frames, deletion and disconnection.                                      *)

(* Every step keeps the invariant.                                          *)
LEMMA NextIInv == IInv /\ [Next]_vars => IInv'
<1>. SUFFICES ASSUME IInv, [Next]_vars PROVE IInv'
  OBVIOUS
<1>. USE GestureOnlyAssumption, NamesDistinct DEF IInv, frameVars
<1>1. CASE ProcessFrame
  <2>. USE <1>1 DEF ProcessFrame, Initialize
  <2>1. /\ history' \in Seq(Category) /\ Len(history') <= Window /\ aged' \in {"yes", "no"}
        /\ aged' = "yes" => Len(history') = Window
        /\ aged' = "no" => aged = "no"
        /\ touch' \in {"none", "favorite", "other"}
    <3>1. PICK n \in Relevant, pose \in HandPose :
            AddFrame(CategoryOf(n, pose)) /\ touch' \in MayTouch(n)
      OBVIOUS
    <3>2. CategoryOf(n, pose) \in Category
      BY DEF CategoryOf, Category
    <3>. QED
      BY <3>1, <3>2, HistoryBounded DEF MayTouch, YoungInv, TypeOK
  <2>2. cooldownAge' \in 0..Cooldown /\ sinceSwipe' \in 0..Cooldown
        /\ (cooldownAge <= sinceSwipe => cooldownAge' <= sinceSwipe')
        /\ (sinceSwipe' < Cooldown => sinceSwipe < Cooldown)
    BY DEF Older, TypeOK
  <2>3. TypeOK'
    BY <2>1, <2>2 DEF TypeOK, MachineTypeOK, State
  <2>4. MachineInv' /\ OutputInv'
    BY DEF MachineInv, OutputInv, NoState, GestureState
  <2>5. YoungInv' /\ EmptyInv' /\ SwipeInv'
    BY <2>1, <2>2 DEF YoungInv, EmptyInv, SwipeInv, MachineInv, NoState
  <2>. QED
    BY <2>3, <2>4, <2>5
<1>2. CASE RunCount
  <2>. USE <1>2 DEF RunCount, RunStep, RunCurrentState, Quiet
  <2>1. Empty' = Empty /\ (Empty => input' = "COUNT_OTHER") /\ input' \in {"none"} \cup CountInput
    BY EmptyIsTold, EventsTyped DEF Empty, Dominates, Number
  <2>2. TypeOK' /\ MachineInv' /\ OutputInv' /\ YoungInv'
    BY <2>1 DEF TypeOK, MachineTypeOK, MachineInv, OutputInv, YoungInv
  <2>3. EmptyInv' /\ SwipeInv'
    BY <2>1 DEF EmptyInv, SwipeInv, TypeOK, CountInput, UserInput
  <2>. QED
    BY <2>2, <2>3
<1>3. CASE RunTouch
  <2>. USE <1>3 DEF RunTouch, RunStep, RunCurrentState, Quiet
  <2>1. Empty' = Empty /\ input' \in {"none", "TOUCHING", "NOT_TOUCHING"}
    BY EventsTyped DEF Empty, Dominates, Number
  <2>2. TypeOK' /\ MachineInv' /\ OutputInv' /\ YoungInv'
    BY <2>1 DEF TypeOK, MachineTypeOK, MachineInv, OutputInv, YoungInv, UserInput
  <2>3. EmptyInv' /\ SwipeInv'
    BY <2>1 DEF EmptyInv, SwipeInv, MachineInv, CountInput, UserInput
  <2>. QED
    BY <2>2, <2>3
<1>4. CASE RunFrame
  <2>. USE <1>4 DEF RunFrame, RunStep, RunCurrentState, Quiet
  <2>1. Empty' = Empty /\ input' = "PROCESS_FRAME"
    BY DEF Empty, Dominates, Number
  <2>2. TypeOK' /\ MachineInv' /\ OutputInv' /\ YoungInv'
    BY <2>1 DEF TypeOK, MachineTypeOK, MachineInv, OutputInv, YoungInv, UserInput
  <2>3. EmptyInv' /\ SwipeInv'
    BY <2>1 DEF EmptyInv, SwipeInv, MachineInv, CountInput, UserInput
  <2>. QED
    BY <2>2, <2>3
<1>5. CASE EndFrame
  <2>. USE <1>5 DEF EndFrame, RunStep, Quiet
  <2>1. Empty' = Empty
    BY DEF Empty, Dominates, Number
  <2>2. TypeOK' /\ MachineInv' /\ OutputInv' /\ YoungInv'
    BY DEF TypeOK, MachineTypeOK, MachineInv, OutputInv, YoungInv
  <2>3. EmptyInv' /\ SwipeInv'
    BY <2>1 DEF EmptyInv, SwipeInv, CountInput, UserInput
  <2>. QED
    BY <2>2, <2>3
<1>6. CASE Destroy
  <2>. USE <1>6 DEF Destroy, Shutdown
  <2>1. TypeOK' /\ MachineInv' /\ OutputInv' /\ YoungInv'
    BY DEF TypeOK, MachineTypeOK, MachineInv, OutputInv, YoungInv
  <2>2. EmptyInv' /\ SwipeInv'
    BY DEF EmptyInv, SwipeInv, MachineInv
  <2>. QED
    BY <2>1, <2>2
<1>7. CASE Recreate
  <2>. USE <1>7 DEF Recreate, Quiet
  <2>1. TypeOK' /\ MachineInv' /\ OutputInv' /\ YoungInv'
    BY DEF TypeOK, MachineTypeOK, MachineInv, OutputInv, YoungInv, NoState
  <2>2. EmptyInv' /\ SwipeInv'
    BY DEF EmptyInv, SwipeInv, MachineInv, CountInput, UserInput, Swipe, NoState
  <2>. QED
    BY <2>1, <2>2
<1>8. CASE Cancel \/ UNCHANGED vars
  <2>. USE <1>8 DEF Cancel, vars, machineVars
  <2>1. Empty' = Empty
    BY DEF Empty, Dominates, Number
  <2>2. TypeOK' /\ MachineInv' /\ OutputInv' /\ YoungInv'
    BY DEF TypeOK, MachineTypeOK, MachineInv, OutputInv, YoungInv
  <2>3. EmptyInv' /\ SwipeInv'
    BY <2>1 DEF EmptyInv, SwipeInv
  <2>. QED
    BY <2>2, <2>3
<1>. QED
  BY <1>1, <1>2, <1>3, <1>4, <1>5, <1>6, <1>7, <1>8, HandlerIInv DEF Next

-------------------------------------------------------------------------------
(* The theorems.                                                            *)

(* The invariant holds in every state the mode reaches.                     *)
THEOREM Invariance == Spec => []IInv
  BY InitIInv, NextIInv, PTL DEF Spec

(* GestureOnlyMode: the machine and every field keep their types, and the   *)
(* history its length.                                                      *)
THEOREM TypeCorrect == Spec => []TypeOK
<1>1. IInv => TypeOK
  BY DEF IInv
<1>. QED
  BY <1>1, Invariance, PTL

(* processFrameInternal: three quarters of a window without pointables end  *)
(* every gesture within the frame that completes them.                      *)
THEOREM EmptySceneQuiet == Spec => []EmptySceneIsQuiet
<1>1. IInv => EmptySceneIsQuiet
  BY NamesDistinct DEF IInv, EmptySceneIsQuiet, EmptyInv, Empty, OutputInv, MachineInv,
     GestureState, Rest, Swipe, NoState, CountInput, UserInput
<1>. QED
  BY <1>1, Invariance, PTL

(* State_Cooldown: no gesture begins within the cooldown after a swipe.     *)
THEOREM SwipesSpaced == Spec => SwipesAreSpaced
<1>1. IInv /\ [Next]_vars =>
        [gesture = NoGesture /\ gesture' # NoGesture => sinceSwipe >= Cooldown]_vars
  <2>. SUFFICES ASSUME IInv, Next, gesture = NoGesture, gesture' # NoGesture
                PROVE  sinceSwipe >= Cooldown
    OBVIOUS
  <2>1. input = "enter" /\ current \in GestureState
    BY DEF Next, ProcessFrame, RunCount, RunTouch, RunFrame, EndFrame, RunStep, Destroy, Recreate,
       Cancel, Handler, State_GestureRecognition, State_Cooldown, State_2Fingers_Hovering,
       State_2Fingers_Scrolling, State_Swipe, State_Palm_Swipe, Begin, End, GestureState
  <2>. QED
    BY <2>1, GestureOnlyAssumption DEF IInv, SwipeInv, MachineInv, TypeOK, GestureState
<1>. QED
  BY <1>1, Invariance, PTL DEF Spec, SwipesAreSpaced

(* The mode implements PointerOutput, without a button.                     *)
THEOREM ImplementsOutput == Spec => OutputSpec
<1>1. Init => Output!Init
  BY DEF Init, Output!Init
<1>2. IInv /\ [Next]_vars => [Output!Next]_(Output!outputVars)
  <2>. SUFFICES ASSUME IInv, [Next]_vars
                PROVE  Output!Next \/ UNCHANGED gesture
    BY DEF Output!outputVars
  <2>. USE NamesDistinct DEF Output!Next, Output!Begin, Output!End
  <2>1. CASE ~Handler
    BY <2>1 DEF Next, ProcessFrame, RunCount, RunTouch, RunFrame, EndFrame, RunStep, Destroy,
       Recreate, Cancel, vars, IInv, MachineInv, OutputInv, NoState, GestureState, Quiet
  <2>2. CASE Handler
    BY <2>2 DEF Handler, State_GestureRecognition, State_Cooldown, State_2Fingers_Hovering,
       State_2Fingers_Scrolling, State_Swipe, State_Palm_Swipe, Begin, End, GestureState,
       IInv, OutputInv
  <2>. QED
    BY <2>1, <2>2
<1>. QED
  BY <1>1, <1>2, Invariance, PTL DEF Spec, OutputSpec, Output!Spec
-------------------------------------------------------------------------------
(* How long a run is.                                                       *)

(* The depths of the states, and what is left of a chain at every call.     *)
LEMMA DepthBounded ==
  ASSUME IInv
  PROVE  /\ \A s : Depth(s) \in 0..2
         /\ input \in {"enter"} \cup UserInput => CallsLeft >= 1
         /\ input \in UserInput => CallsLeft = 7
         /\ input = "enter" => CallsLeft = 2 * Depth(current) + 1
         /\ input = "exit" => CallsLeft = IF next = NoState THEN 1 ELSE 2 * Depth(next) + 2
<1>1. \A s : Depth(s) \in 0..2
  BY DEF Depth
<1>. QED
  BY <1>1, NamesDistinct DEF CallsLeft

(* A handler that stays ends the chain.                                     *)
LEMMA StayShortens ==
  ASSUME IInv, input \in {"enter"} \cup UserInput, Stay
  PROVE  CallsLeft' \in 0..(CallsLeft - 1)
<1>1. CallsLeft' = 0
  BY NamesDistinct DEF Stay, CallsLeft
<1>2. CallsLeft \in Nat /\ CallsLeft >= 1
  BY DepthBounded
<1>. QED
  BY <1>1, <1>2

(* One that asks for a state goes on with it, and shortens the chain if the *)
(* event was the user's or the state is less deep than its own.             *)
LEMMA TransitionShortens ==
  ASSUME IInv, input \in {"enter"} \cup UserInput, NEW s \in State, TransitionTo(s),
         input = "enter" => Depth(s) < Depth(current)
  PROVE  CallsLeft' \in 0..(CallsLeft - 1)
<1>1. Depth(s) \in 0..2 /\ Depth(current) \in 0..2
  BY DepthBounded
<1>2. CallsLeft' = 2 * Depth(s) + 2
  BY NamesDistinct DEF TransitionTo, CallsLeft, Depth
<1>. QED
  BY <1>1, <1>2, DepthBounded

(* An exit is followed by the entry that was asked for, or by nothing.      *)
LEMMA ExitShortens ==
  ASSUME IInv, input = "exit", Exited
  PROVE  CallsLeft' \in 0..(CallsLeft - 1)
<1>1. CASE next = NoState
  BY <1>1, DepthBounded, NamesDistinct DEF Exited, CallsLeft
<1>2. CASE next # NoState
  <2>1. CallsLeft' = 2 * Depth(next) + 1
    BY <1>2, NamesDistinct DEF Exited, CallsLeft, Depth
  <2>. QED
    BY <1>2, <2>1, DepthBounded
<1>. QED
  BY <1>1, <1>2

(* StateMachine: whatever the events of a frame are, the states they lead   *)
(* through do not transition to each other for ever.                        *)
THEOREM ChainsAreShort == Spec => ChainsShorten
<1> DEFINE A == input # "none" => CallsLeft' \in 0..(CallsLeft - 1)
<1>1. IInv /\ [Next]_vars => [A]_vars
  <2>. SUFFICES ASSUME IInv, Next, input # "none"
                PROVE  CallsLeft' \in 0..(CallsLeft - 1)
    OBVIOUS
  <2>1. Handler
    BY DEF Next, ProcessFrame, RunCount, RunTouch, RunFrame, EndFrame, RunStep, Quiet, Destroy,
       Shutdown, Recreate, Cancel, IInv, MachineInv
  <2>2. input \in {"enter", "exit"} \cup UserInput
    BY DEF IInv, TypeOK, MachineTypeOK
  <2>3. ASSUME input = "enter"
        PROVE  \/ Stay
               \/ current \in Swipe /\ TransitionTo("Cooldown")
               \/ current = "Cooldown" /\ TransitionTo("GestureRecognition")
    BY <2>1, <2>3
       DEF Handler, State_GestureRecognition, State_Cooldown, State_2Fingers_Hovering,
           State_2Fingers_Scrolling, State_Swipe, State_Palm_Swipe, UserInput, CountInput, Swipe
  <2>4. ASSUME input = "exit" PROVE Exited
    BY <2>1, <2>4
       DEF Handler, State_GestureRecognition, State_Cooldown, State_2Fingers_Hovering,
           State_2Fingers_Scrolling, State_Swipe, State_Palm_Swipe, UserInput, CountInput
  <2>5. ASSUME input \in UserInput
        PROVE  Stay \/ \E s \in State : TransitionTo(s)
    BY <2>1, <2>5
       DEF Handler, State_GestureRecognition, State_Cooldown, State_2Fingers_Hovering,
           State_2Fingers_Scrolling, State_Swipe, State_Palm_Swipe, UserInput, CountInput,
           State, GestureState
  <2>6. CASE input = "enter"
    <3>1. CASE Stay
      BY <2>6, <3>1, StayShortens
    <3>2. CASE current \in Swipe /\ TransitionTo("Cooldown")
      BY <2>6, <3>2, TransitionShortens, NamesDistinct DEF Depth, Swipe, Rest
    <3>3. CASE current = "Cooldown" /\ TransitionTo("GestureRecognition")
      BY <2>6, <3>3, TransitionShortens, NamesDistinct DEF Depth, Rest
    <3>. QED
      BY <2>3, <2>6, <3>1, <3>2, <3>3
  <2>7. CASE input = "exit"
    BY <2>4, <2>7, ExitShortens
  <2>8. CASE input \in UserInput
    BY <2>5, <2>8, StayShortens, TransitionShortens, NamesDistinct
  <2>. QED
    BY <2>2, <2>6, <2>7, <2>8
<1>. QED
  BY <1>1, Invariance, PTL DEF Spec, ChainsShorten

===============================================================================
