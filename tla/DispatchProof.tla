--------------------------- MODULE DispatchProof ----------------------------
(***************************************************************************)
(* Proofs about the loop of Dispatch and what it calls.                    *)
(*                                                                         *)
(* ServerLoop, for any slice and any number of events, with signals        *)
(* between any two steps: the interval timer runs while a client is        *)
(* served, and no more than one request is executed before an event that   *)
(* is queued is processed.                                                 *)
(*                                                                         *)
(* SmartSched, for any set of client indices, any range of priorities and  *)
(* any longest slice: its variables stay in their ranges, and clients that *)
(* wait at one priority are served in turn.  The turns are an order that   *)
(* SmartLastIndex only implies: how far back from the last index a client  *)
(* is, modulo 256.  What a choice does to this order is RobinStep; the     *)
(* rest of the invariant is that only ready clients which are not being    *)
(* served have been passed over.                                           *)
(***************************************************************************)
EXTENDS ServerLoop, SmartSched, TLAPS

\* From where a client is served without another look at the timer.
Bound ==
    \/ pc \in Serving \cup {"Round"}
    \/ pc = "Look" /\ result # "error"
    \/ pc = "Store" /\ update.next = "Inner"

\* SIGALRM stops the timer of a server that is marked idle only: once the mark
\* is cleared and the timer restarted, it goes on until the next wait.
Awake ==
    /\ pc = "Restart" => ~SmartScheduleIdle
    /\ Bound => ~SmartScheduleIdle /\ ~SmartScheduleTimerStopped
    /\ pc \in {"Unidle", "Restart"} => result # "error"

\* A request is read and executed only after a look at the queue.
Looked ==
    /\ queue = 0 => overdue = 0
    /\ pc \in {"Slice", "Read", "Exec"} => overdue = 0
    /\ overdue <= 1

IInv == TypeOK /\ Awake /\ Looked

-----------------------------------------------------------------------------
LEMMA TypeInit == Init => TypeOK
<1> SUFFICES ASSUME Init PROVE TypeOK
    OBVIOUS
<1>1. update \in [value : SUBSET Exceptions, next : {"Loop", "EndRound", "Inner", "Ended"}]
    BY DEF Init, NoUpdate
<1>2. pc \in PCs /\ result \in Results
    BY DEF Init, PCs, Results
<1>3. queue \in 0 .. QueueSize /\ others \in 0 .. MaxOther /\ ticks \in 0 .. Slice
    BY LoopAssumption DEF Init
<1>4. dispatchException \subseteq Exceptions /\ overdue \in 0 .. 2
    BY DEF Init
<1>5. /\ someReady \in BOOLEAN /\ socket \in BOOLEAN /\ buffered \in BOOLEAN
      /\ SmartScheduleIdle \in BOOLEAN /\ SmartScheduleTimerStopped \in BOOLEAN
      /\ isItTimeToYield \in BOOLEAN /\ asked \in BOOLEAN
    BY DEF Init
<1> QED
    BY <1>1, <1>2, <1>3, <1>4, <1>5 DEF TypeOK

LEMMA TypeStep == TypeOK /\ [Next]_vars => TypeOK'
<1> SUFFICES ASSUME TypeOK, [Next]_vars PROVE TypeOK'
    OBVIOUS
<1> USE LoopAssumption DEF TypeOK, PCs, Results, Exceptions, Serving, Goto, wait, client, input,
        schedule, exceptions
<1>1. CASE Loop
    BY <1>1 DEF Loop
<1>2. CASE TopCheck
    BY <1>2 DEF TopCheck
<1>3. CASE TopInput
    BY <1>3 DEF TopInput, ProcessInput
<1>4. CASE Wait
    BY <1>4 DEF Wait
<1>5. CASE Idle
    BY <1>5 DEF Idle
<1>6. CASE Check
    BY <1>6 DEF Check
<1>7. CASE Enter
    <2>1. pc' \in PCs /\ result' \in Results /\ others' \in 0 .. MaxOther
        BY <1>7 DEF Enter, Returns
    <2> QED
        BY <1>7, <2>1 DEF Enter, Returns
<1>8. CASE Wakeup
    BY <1>8 DEF Wakeup
<1>9. CASE Unidle
    BY <1>9 DEF Unidle
<1>10. CASE Restart
    BY <1>10 DEF Restart
<1>11. CASE Look
    BY <1>11 DEF Look, LookNone, LookSome, ReturnReady
<1>12. CASE Round
    BY <1>12 DEF Round
<1>13. CASE Start
    <2>1. ticks' \in 0 .. Slice /\ pc' \in PCs
        BY <1>13 DEF Start
    <2> QED
        BY <1>13, <2>1 DEF Start
<1>14. CASE Inner
    BY <1>14 DEF Inner
<1>15. CASE InnerInput
    BY <1>15 DEF InnerInput, ProcessInput
<1>16. CASE SliceOver
    BY <1>16 DEF SliceOver
<1>17. CASE ReadRequest
    BY <1>17 DEF ReadRequest
<1>18. CASE ReadNothing
    BY <1>18 DEF ReadNothing
<1>19. CASE ReadGone
    <2>1. CASE Update(dispatchException \cup {"RESET"}, "EndRound")
        <3>1. dispatchException \cup {"RESET"} \in SUBSET Exceptions
            OBVIOUS
        <3> QED
            BY <1>19, <2>1, <3>1 DEF ReadGone, CloseDown, Update
    <2>2. CASE Goto("EndRound") /\ UNCHANGED update
        BY <1>19, <2>2 DEF ReadGone, CloseDown
    <2> QED
        BY <1>19, <2>1, <2>2 DEF ReadGone, CloseDown
<1>20. CASE Exec
    <2>a. overdue' \in 0 .. 2
        BY <1>20 DEF Exec
    <2>b. socket' \in BOOLEAN /\ buffered' \in BOOLEAN
        BY <1>20 DEF Exec, CloseDown
    <2>c. isItTimeToYield' \in BOOLEAN
        BY <1>20 DEF Exec
    <2>1. /\ overdue' \in 0 .. 2 /\ socket' \in BOOLEAN /\ buffered' \in BOOLEAN
          /\ isItTimeToYield' \in BOOLEAN
        BY <2>a, <2>b, <2>c
    <2>2. CASE UNCHANGED update /\ pc' \in {"Inner", "EndRound"}
        BY <1>20, <2>1, <2>2 DEF Exec
    <2>3. CASE Update(dispatchException \cup {"PRIORITYCHANGE"}, "Inner")
        <3>1. dispatchException \cup {"PRIORITYCHANGE"} \in SUBSET Exceptions
            OBVIOUS
        <3> QED
            BY <1>20, <2>1, <2>3, <3>1 DEF Exec, Update
    <2>4. CASE Update(dispatchException \cup {"RESET"}, "EndRound")
        <3>1. dispatchException \cup {"RESET"} \in SUBSET Exceptions
            OBVIOUS
        <3> QED
            BY <1>20, <2>1, <2>4, <3>1 DEF Exec, Update
    <2> QED
        BY <1>20, <2>2, <2>3, <2>4 DEF Exec, CloseDown
<1>21. CASE EndRound
    <2>1. update' \in [value : SUBSET Exceptions, next : {"Loop", "EndRound", "Inner", "Ended"}]
        BY <1>21 DEF EndRound, Update
    <2> QED
        BY <1>21, <2>1 DEF EndRound, Update
<1>22. CASE Store
    <2>1. update' \in [value : SUBSET Exceptions, next : {"Loop", "EndRound", "Inner", "Ended"}]
        BY <1>22 DEF Store, NoUpdate
    <2> QED
        BY <1>22, <2>1 DEF Store, NoUpdate
<1>23. CASE KillAll
    <2>1. update' \in [value : SUBSET Exceptions, next : {"Loop", "EndRound", "Inner", "Ended"}]
        BY <1>23 DEF KillAll, Update
    <2> QED
        BY <1>23, <2>1 DEF KillAll, Update
<1>24. CASE Ended
    <2>1. CASE "TERMINATE" \in dispatchException
        BY <1>24, <2>1 DEF Ended
    <2>2. CASE "TERMINATE" \notin dispatchException
        <3>1. queue' \in 0 .. QueueSize /\ overdue' \in 0 .. 2
            BY <1>24, <2>2 DEF Ended
        <3>2. SmartScheduleTimerStopped' \in BOOLEAN /\ pc' \in PCs
            BY <1>24, <2>2 DEF Ended
        <3> QED
            BY <1>24, <2>2, <3>1, <3>2 DEF Ended
    <2> QED
        BY <2>1, <2>2
<1>25. CASE SelectReady
    BY <1>25 DEF SelectReady, Returns
<1>26. CASE SelectOther
    BY <1>26 DEF SelectOther, Returns
<1>27. CASE SelectTimeout
    BY <1>27 DEF SelectTimeout, Returns
<1>28. CASE Sigio
    BY <1>28 DEF Sigio, Handler, Interrupt
<1>29. CASE SmartScheduleTimer
    BY <1>29 DEF SmartScheduleTimer, Handler, Interrupt
<1>30. CASE GiveUp
    BY <1>30 DEF GiveUp, Handler, Interrupt
<1>31. CASE AutoResetServer
    BY <1>31 DEF AutoResetServer, Handler, Interrupt
<1>32. CASE Arrive
    BY <1>32 DEF Arrive
<1>33. CASE UNCHANGED vars
    BY <1>33 DEF vars
<1> QED
    BY <1>1, <1>2, <1>3, <1>4, <1>5, <1>6, <1>7, <1>8, <1>9, <1>10, <1>11, <1>12,
         <1>13, <1>14, <1>15, <1>16, <1>17, <1>18, <1>19, <1>20, <1>21, <1>22, <1>23, <1>24,
         <1>25, <1>26, <1>27, <1>28, <1>29, <1>30, <1>31, <1>32, <1>33 DEF Next, Main

-----------------------------------------------------------------------------
(* The interval timer.                                                     *)

LEMMA AwakeStep == TypeOK /\ Awake /\ [Next]_vars => Awake'
<1> SUFFICES ASSUME TypeOK, Awake, [Next]_vars PROVE Awake'
    OBVIOUS
<1> USE DEF TypeOK, Awake, Bound, Serving, Goto, wait, client, input, schedule, exceptions
<1>1. CASE Loop
    BY <1>1 DEF Loop
<1>2. CASE TopCheck
    BY <1>2 DEF TopCheck
<1>3. CASE TopInput
    BY <1>3 DEF TopInput, ProcessInput
<1>4. CASE Wait
    BY <1>4 DEF Wait
<1>5. CASE Idle
    BY <1>5 DEF Idle
<1>6. CASE Check
    BY <1>6 DEF Check
<1>7. CASE Enter
    BY <1>7 DEF Enter, Returns
<1>8. CASE Wakeup
    BY <1>8 DEF Wakeup
<1>9. CASE Unidle
    BY <1>9 DEF Unidle
<1>10. CASE Restart
    BY <1>10 DEF Restart
<1>11. CASE Look
    BY <1>11 DEF Look, LookNone, LookSome, ReturnReady
<1>12. CASE Round
    BY <1>12 DEF Round
<1>13. CASE Start
    BY <1>13 DEF Start
<1>14. CASE Inner
    BY <1>14 DEF Inner
<1>15. CASE InnerInput
    BY <1>15 DEF InnerInput, ProcessInput
<1>16. CASE SliceOver
    BY <1>16 DEF SliceOver
<1>17. CASE ReadRequest
    BY <1>17 DEF ReadRequest
<1>18. CASE ReadNothing
    BY <1>18 DEF ReadNothing
<1>19. CASE ReadGone
    BY <1>19 DEF ReadGone, CloseDown, Update
<1>20. CASE Exec
    BY <1>20 DEF Exec, CloseDown, Update
<1>21. CASE EndRound
    BY <1>21 DEF EndRound, Update
<1>22. CASE Store
    BY <1>22 DEF Store, NoUpdate
<1>23. CASE KillAll
    BY <1>23 DEF KillAll, Update
<1>24. CASE Ended
    BY <1>24 DEF Ended
<1>25. CASE SelectReady
    BY <1>25 DEF SelectReady, Returns
<1>26. CASE SelectOther
    BY <1>26 DEF SelectOther, Returns
<1>27. CASE SelectTimeout
    BY <1>27 DEF SelectTimeout, Returns
<1>28. CASE Sigio
    BY <1>28 DEF Sigio, Handler, Interrupt
<1>29. CASE SmartScheduleTimer
    BY <1>29 DEF SmartScheduleTimer, Handler, Interrupt
<1>30. CASE GiveUp
    BY <1>30 DEF GiveUp, Handler, Interrupt
<1>31. CASE AutoResetServer
    BY <1>31 DEF AutoResetServer, Handler, Interrupt
<1>32. CASE Arrive
    BY <1>32 DEF Arrive
<1>33. CASE UNCHANGED vars
    BY <1>33 DEF vars
<1> QED
    BY <1>1, <1>2, <1>3, <1>4, <1>5, <1>6, <1>7, <1>8, <1>9, <1>10, <1>11, <1>12,
         <1>13, <1>14, <1>15, <1>16, <1>17, <1>18, <1>19, <1>20, <1>21, <1>22, <1>23, <1>24,
         <1>25, <1>26, <1>27, <1>28, <1>29, <1>30, <1>31, <1>32, <1>33 DEF Next, Main

-----------------------------------------------------------------------------
(* Events and requests.                                                    *)

LEMMA LookedStep == TypeOK /\ Looked /\ [Next]_vars => Looked'
<1> SUFFICES ASSUME TypeOK, Looked, [Next]_vars PROVE Looked'
    OBVIOUS
<1> USE DEF TypeOK, Looked, Goto, wait, client, input, schedule, exceptions
<1>1. CASE Loop
    BY <1>1 DEF Loop
<1>2. CASE TopCheck
    BY <1>2 DEF TopCheck
<1>3. CASE TopInput
    BY <1>3 DEF TopInput, ProcessInput
<1>4. CASE Wait
    BY <1>4 DEF Wait
<1>5. CASE Idle
    BY <1>5 DEF Idle
<1>6. CASE Check
    BY <1>6 DEF Check
<1>7. CASE Enter
    BY <1>7 DEF Enter, Returns
<1>8. CASE Wakeup
    BY <1>8 DEF Wakeup
<1>9. CASE Unidle
    BY <1>9 DEF Unidle
<1>10. CASE Restart
    BY <1>10 DEF Restart
<1>11. CASE Look
    BY <1>11 DEF Look, LookNone, LookSome, ReturnReady
<1>12. CASE Round
    BY <1>12 DEF Round
<1>13. CASE Start
    BY <1>13 DEF Start
<1>14. CASE Inner
    BY <1>14 DEF Inner
<1>15. CASE InnerInput
    BY <1>15 DEF InnerInput, ProcessInput
<1>16. CASE SliceOver
    BY <1>16 DEF SliceOver
<1>17. CASE ReadRequest
    BY <1>17 DEF ReadRequest
<1>18. CASE ReadNothing
    BY <1>18 DEF ReadNothing
<1>19. CASE ReadGone
    BY <1>19 DEF ReadGone, CloseDown, Update
<1>20. CASE Exec
    <2>1. overdue = 0
        BY <1>20 DEF Exec
    <2>2. overdue' = IF queue = 0 THEN 0 ELSE 1
        BY <1>20, <2>1 DEF Exec
    <2>3. queue' = queue
        BY <1>20 DEF Exec
    <2>4. pc' \in {"Inner", "EndRound", "Store"}
        BY <1>20 DEF Exec, CloseDown, Update
    <2> QED
        BY <2>2, <2>3, <2>4
<1>21. CASE EndRound
    BY <1>21 DEF EndRound, Update
<1>22. CASE Store
    BY <1>22 DEF Store, NoUpdate
<1>23. CASE KillAll
    BY <1>23 DEF KillAll, Update
<1>24. CASE Ended
    BY <1>24 DEF Ended
<1>25. CASE SelectReady
    BY <1>25 DEF SelectReady, Returns
<1>26. CASE SelectOther
    BY <1>26 DEF SelectOther, Returns
<1>27. CASE SelectTimeout
    BY <1>27 DEF SelectTimeout, Returns
<1>28. CASE Sigio
    BY <1>28 DEF Sigio, Handler, Interrupt
<1>29. CASE SmartScheduleTimer
    BY <1>29 DEF SmartScheduleTimer, Handler, Interrupt
<1>30. CASE GiveUp
    BY <1>30 DEF GiveUp, Handler, Interrupt
<1>31. CASE AutoResetServer
    BY <1>31 DEF AutoResetServer, Handler, Interrupt
<1>32. CASE Arrive
    BY <1>32 DEF Arrive
<1>33. CASE UNCHANGED vars
    BY <1>33 DEF vars
<1> QED
    BY <1>1, <1>2, <1>3, <1>4, <1>5, <1>6, <1>7, <1>8, <1>9, <1>10, <1>11, <1>12,
         <1>13, <1>14, <1>15, <1>16, <1>17, <1>18, <1>19, <1>20, <1>21, <1>22, <1>23, <1>24,
         <1>25, <1>26, <1>27, <1>28, <1>29, <1>30, <1>31, <1>32, <1>33 DEF Next, Main

-----------------------------------------------------------------------------
\* The inductive invariant of the main loop.
THEOREM Invariance == Spec => []IInv
<1>1. Init => IInv
    BY TypeInit DEF Init, IInv, Awake, Bound, Looked, Serving
<1>2. IInv /\ [Next]_vars => IInv'
    BY TypeStep, AwakeStep, LookedStep DEF IInv
<1> QED
    BY <1>1, <1>2, PTL DEF Spec

\* What the main thread and the signal handlers share stays in its range.
THEOREM TypeCorrect == Spec => []TypeOK
BY Invariance, PTL DEF IInv

\* Wherever SIGALRM comes, the interval timer runs while a client is served.
THEOREM TimerRuns == Spec => []TickRuns
<1>1. IInv => TickRuns
    BY DEF IInv, Awake, Bound, TickRuns
<1> QED
    BY Invariance, <1>1, PTL

\* Wherever SIGIO comes, its event waits for one request at most.
THEOREM EventsFirst == Spec => []InputFirst
<1>1. IInv => InputFirst
    BY DEF IInv, Looked, InputFirst
<1> QED
    BY Invariance, <1>1, PTL

-----------------------------------------------------------------------------
(* The turns of the clients.                                               *)

\* Only clients that wait have been passed over.
OnlyWaiting == \A c \in Clients : passed[c] # {} => c \in ready /\ c # current

SchedInv == SchedTypeOK /\ OnlyWaiting /\ TurnKept

-----------------------------------------------------------------------------
(* The round of 256 indices.                                               *)

\* The distance back from the last index, without the modulus.
LEMMA RobinIs ==
    \A c, last \in 0 .. 255 :
        Robin(c, last) = IF c >= last THEN c - last ELSE c - last + 256
<1> SUFFICES ASSUME NEW c \in 0 .. 255, NEW last \in 0 .. 255
             PROVE  Robin(c, last) = IF c >= last THEN c - last ELSE c - last + 256
    OBVIOUS
<1>1. CASE c >= last
    BY <1>1 DEF Robin
<1>2. CASE ~(c >= last)
    <2>1. (c - last) % 256 = c - last + 256
        BY <1>2
    <2> QED
        BY <1>2, <2>1 DEF Robin
<1> QED
    BY <1>1, <1>2

LEMMA RobinInt ==
    ASSUME NEW c \in 0 .. 255, NEW last \in 0 .. 255
    PROVE  Robin(c, last) \in Int
<1>1. Robin(c, last) = IF c >= last THEN c - last ELSE c - last + 256
    BY RobinIs
<1> QED
    BY <1>1

\* When e is chosen because it is furthest back, the others keep their order.
LEMMA RobinStep ==
    ASSUME NEW f \in 0 .. 255, NEW c \in 0 .. 255, NEW e \in 0 .. 255,
           NEW last \in 0 .. 255,
           Robin(f, last) < Robin(c, last),
           Robin(c, last) < Robin(e, last)
    PROVE  Robin(f, e) < Robin(c, e)
<1>1. Robin(f, last) = IF f >= last THEN f - last ELSE f - last + 256
    BY RobinIs
<1>2. Robin(c, last) = IF c >= last THEN c - last ELSE c - last + 256
    BY RobinIs
<1>3. Robin(e, last) = IF e >= last THEN e - last ELSE e - last + 256
    BY RobinIs
<1>4. Robin(f, e) = IF f >= e THEN f - e ELSE f - e + 256
    BY RobinIs
<1>5. Robin(c, e) = IF c >= e THEN c - e ELSE c - e + 256
    BY RobinIs
<1> QED
    BY <1>1, <1>2, <1>3, <1>4, <1>5

\* Whoever has just been chosen is last.
LEMMA RobinLast ==
    ASSUME NEW c \in 0 .. 255, NEW e \in 0 .. 255, c # e
    PROVE  Robin(e, e) < Robin(c, e)
<1>1. Robin(e, e) = 0
    <2>1. Robin(e, e) = IF e >= e THEN e - e ELSE e - e + 256
        BY RobinIs
    <2> QED
        BY <2>1
<1>2. Robin(c, e) = IF c >= e THEN c - e ELSE c - e + 256
    BY RobinIs
<1> QED
    BY <1>1, <1>2

-----------------------------------------------------------------------------
(* The variables stay in their ranges.                                     *)

LEMMA CapRange ==
    ASSUME NEW limit \in Nat, NEW n \in 0 .. limit
    PROVE  Cap(n + 1, limit) \in 0 .. limit
BY DEF Cap

LEMMA PraisedRange ==
    ASSUME SchedTypeOK, NEW c \in Clients
    PROVE  Praised(c) \in Priorities
BY SchedAssumption DEF SchedTypeOK, Praised, Priorities

LEMMA ClientRange == \A c \in Clients : c \in 0 .. 255
BY SchedAssumption

LEMMA IndexRange ==
    ASSUME SchedTypeOK, NEW p \in Priorities
    PROVE  SmartLastIndex[p] \in 0 .. 255
<1>1. SmartLastIndex[p] \in Clients \cup {0}
    BY DEF SchedTypeOK
<1>2. CASE SmartLastIndex[p] = 0
    BY <1>2
<1> QED
    BY <1>1, <1>2, ClientRange

LEMMA SchedTypeInit == SchedInit => SchedTypeOK
BY SchedAssumption DEF SchedInit, SchedTypeOK, Priorities, None

LEMMA SchedTypeStep == SchedTypeOK /\ [SchedNext]_schedVars => SchedTypeOK'
<1> SUFFICES ASSUME SchedTypeOK, [SchedNext]_schedVars PROVE SchedTypeOK'
    OBVIOUS
<1> USE SchedAssumption
<1>1. ASSUME NEW c \in Clients, Choose(c) PROVE SchedTypeOK'
    <2>1. priority' \in [Clients -> Priorities]
        BY <1>1, PraisedRange DEF Choose
    <2>2. Praised(c) \in Priorities
        BY PraisedRange
    <2>3. SmartLastIndex' \in [Priorities -> Clients \cup {0}]
        BY <1>1, <2>2 DEF Choose, SchedTypeOK
    <2>4. slice' \in 1 .. MaxSlice
        BY <1>1 DEF Choose, SchedTypeOK, NewSlice
    <2>5. startAge' \in 0 .. LongTime + 1
        BY <1>1 DEF Choose, SchedTypeOK
    <2>6. age' \in [Clients -> 0 .. 2 * MaxSlice]
        BY <1>1 DEF Choose, SchedTypeOK
    <2>7. passed' \in [Clients -> SUBSET Clients]
        BY <1>1 DEF Choose, SchedTypeOK, PassOver
    <2> QED
        BY <1>1, <2>1, <2>3, <2>4, <2>5, <2>6, <2>7 DEF Choose, SchedTypeOK
<1>2. CASE Expire
    BY <1>2 DEF Expire, SchedTypeOK, choice, Priorities, None
<1>3. CASE Stop
    BY <1>3 DEF Stop, SchedTypeOK, choice, dues, None
<1>4. CASE Tick
    <2>1. age' \in [Clients -> 0 .. 2 * MaxSlice]
        BY <1>4, CapRange DEF Tick, SchedTypeOK
    <2>2. startAge' \in 0 .. LongTime + 1 /\ used' \in 0 .. MaxSlice
        BY <1>4, CapRange DEF Tick, SchedTypeOK
    <2> QED
        BY <1>4, <2>1, <2>2 DEF Tick, SchedTypeOK
<1>5. ASSUME NEW c \in Clients, NewRequests(c) PROVE SchedTypeOK'
    BY <1>5 DEF NewRequests, SchedTypeOK, choice, dues
<1>6. ASSUME NEW c \in Clients, UserEvent(c) PROVE SchedTypeOK'
    <2>1. priority[c] \in Int /\ MinPriority <= priority[c] /\ priority[c] < MaxPriority
        BY <1>6 DEF UserEvent, SchedTypeOK, Priorities
    <2>2. priority' \in [Clients -> Priorities]
        BY <1>6, <2>1 DEF UserEvent, SchedTypeOK, Priorities
    <2>3. outside' \in 0 .. MaxOutside /\ passed' \in [Clients -> SUBSET Clients]
        BY <1>6 DEF UserEvent, SchedTypeOK
    <2> QED
        BY <1>6, <2>2, <2>3 DEF UserEvent, SchedTypeOK, choice
<1>7. ASSUME NEW c \in Clients, Replace(c) PROVE SchedTypeOK'
    <2>1. /\ priority' \in [Clients -> Priorities]
          /\ age' \in [Clients -> 0 .. 2 * MaxSlice]
          /\ passed' \in [Clients -> SUBSET Clients]
        BY <1>7 DEF Replace, SchedTypeOK, Priorities
    <2>2. /\ ready' \subseteq Clients /\ current' \in Clients \cup {None}
          /\ used' \in 0 .. MaxSlice /\ outside' \in 0 .. MaxOutside
        BY <1>7 DEF Replace, SchedTypeOK, None
    <2> QED
        BY <1>7, <2>1, <2>2 DEF Replace, SchedTypeOK
<1>8. CASE UNCHANGED schedVars
    BY <1>8 DEF schedVars, SchedTypeOK
<1> QED
    BY <1>1, <1>2, <1>3, <1>4, <1>5, <1>6, <1>7, <1>8 DEF SchedNext

-----------------------------------------------------------------------------
(* Turns.                                                                  *)

LEMMA WaitingStep == SchedTypeOK /\ OnlyWaiting /\ [SchedNext]_schedVars => OnlyWaiting'
<1> SUFFICES ASSUME SchedTypeOK, OnlyWaiting, [SchedNext]_schedVars PROVE OnlyWaiting'
    OBVIOUS
<1> USE SchedAssumption DEF OnlyWaiting
<1>1. ASSUME NEW c \in Clients, Choose(c) PROVE OnlyWaiting'
    <2> SUFFICES ASSUME NEW d \in Clients, passed'[d] # {}
                 PROVE  d \in ready' /\ d # current'
        OBVIOUS
    <2>1. passed'[d] = PassOver(c)[d]
        BY <1>1 DEF Choose
    <2>2. d # c
        BY <2>1 DEF PassOver
    <2>3. d \in ready
        BY <2>1, <2>2 DEF PassOver, SchedTypeOK
    <2> QED
        BY <1>1, <2>2, <2>3 DEF Choose
<1>2. CASE Expire
    BY <1>2 DEF Expire, SchedTypeOK, None, choice
<1>3. CASE Stop
    BY <1>3 DEF Stop, SchedTypeOK, None, choice, dues
<1>4. CASE Tick
    BY <1>4 DEF Tick
<1>5. ASSUME NEW c \in Clients, NewRequests(c) PROVE OnlyWaiting'
    BY <1>5 DEF NewRequests, choice, dues
<1>6. ASSUME NEW c \in Clients, UserEvent(c) PROVE OnlyWaiting'
    BY <1>6 DEF UserEvent, SchedTypeOK, choice
<1>7. ASSUME NEW c \in Clients, Replace(c) PROVE OnlyWaiting'
    BY <1>7 DEF Replace, SchedTypeOK, None
<1>8. CASE UNCHANGED schedVars
    BY <1>8 DEF schedVars
<1> QED
    BY <1>1, <1>2, <1>3, <1>4, <1>5, <1>6, <1>7, <1>8 DEF SchedNext

\* A choice: the order of those that wait at the priority of the client chosen
\* is turned round to start behind it.
LEMMA TurnChoose ==
    ASSUME SchedInv, NEW e \in Clients, Choose(e)
    PROVE  TurnKept'
<1>a. SchedTypeOK /\ OnlyWaiting /\ TurnKept
    BY DEF SchedInv
<1> DEFINE last(p) == SmartLastIndex[p]
<1>b. \A p \in Priorities : last(p) \in 0 .. 255
    BY <1>a, IndexRange
<1>c. Praised(e) \in Priorities
    BY <1>a, PraisedRange
<1>d. SmartLastIndex' = [SmartLastIndex EXCEPT ![Praised(e)] = e]
    BY DEF Choose
<1> SUFFICES ASSUME NEW c \in Clients, NEW d \in passed'[c]
             PROVE  Robin(d, SmartLastIndex'[priority'[c]])
                        < Robin(c, SmartLastIndex'[priority'[c]])
    BY DEF TurnKept
<1>1. passed'[c] = PassOver(e)[c] /\ priority'[c] = Praised(c)
    BY DEF Choose
<1>2. c # e
    BY <1>1 DEF PassOver
<1>3. d \in Clients
    BY <1>1, <1>2, <1>a DEF PassOver, SchedTypeOK
<1>4. Praised(c) \in Priorities
    BY <1>a, PraisedRange
<1>5. CASE c \in ready /\ Praised(c) = Praised(e)
    <2>1. SmartLastIndex'[priority'[c]] = e
        BY <1>1, <1>5, <1>c, <1>d, <1>a DEF SchedTypeOK
    <2>2. CASE d = e
        <3>1. Robin(e, e) < Robin(c, e)
            BY <1>2, ClientRange, RobinLast
        <3> QED
            BY <2>1, <2>2, <3>1
    <2>3. CASE d # e
        <3>1. Praised(c) = priority[c] /\ d \in passed[c]
            BY <1>1, <1>2, <2>3 DEF PassOver
        <3>2. Robin(d, last(Praised(c))) < Robin(c, last(Praised(c)))
            BY <3>1, <1>a DEF TurnKept
        <3>3. Robin(c, last(Praised(c))) < Robin(e, last(Praised(e)))
            <4>1. Best(e) /\ c \in ready \ {e}
                BY <1>2, <1>5 DEF Choose
            <4>2. ~(Praised(c) < Praised(e))
                BY <1>5, <1>4, SchedAssumption DEF Priorities
            <4> QED
                BY <4>1, <4>2 DEF Best
        <3>4. /\ d \in 0 .. 255 /\ c \in 0 .. 255 /\ e \in 0 .. 255
              /\ last(Praised(c)) \in 0 .. 255
            BY <1>3, <1>4, <1>b, ClientRange
        <3> HIDE DEF last
        <3>5. Robin(d, e) < Robin(c, e)
            BY <3>2, <3>3, <3>4, <1>5, RobinStep
        <3> QED
            BY <2>1, <3>5
    <2> QED
        BY <2>2, <2>3
<1>6. CASE ~(c \in ready /\ Praised(c) = Praised(e))
    <2>1. Praised(c) = priority[c] /\ d \in passed[c]
        BY <1>1, <1>2, <1>6 DEF PassOver
    <2>2. c \in ready
        BY <2>1, <1>a DEF OnlyWaiting
    <2>3. SmartLastIndex'[priority'[c]] = SmartLastIndex[priority[c]]
        BY <1>1, <1>4, <1>6, <1>d, <2>1, <2>2, <1>a DEF SchedTypeOK
    <2> QED
        BY <2>1, <2>3, <1>a DEF TurnKept
<1> QED
    BY <1>5, <1>6

LEMMA TurnStep == SchedInv /\ [SchedNext]_schedVars => TurnKept'
<1> SUFFICES ASSUME SchedInv, [SchedNext]_schedVars PROVE TurnKept'
    OBVIOUS
<1> USE SchedAssumption DEF SchedInv
<1>1. ASSUME NEW c \in Clients, Choose(c) PROVE TurnKept'
    BY <1>1, TurnChoose
<1>2. CASE Expire
    BY <1>2 DEF Expire, TurnKept, SchedTypeOK, OnlyWaiting, choice, None
<1>3. CASE Stop
    BY <1>3 DEF Stop, TurnKept, choice, dues
<1>4. CASE Tick
    BY <1>4 DEF Tick, TurnKept
<1>5. ASSUME NEW c \in Clients, NewRequests(c) PROVE TurnKept'
    BY <1>5 DEF NewRequests, TurnKept, choice, dues
<1>6. ASSUME NEW c \in Clients, UserEvent(c) PROVE TurnKept'
    BY <1>6 DEF UserEvent, TurnKept, SchedTypeOK, choice
<1>7. ASSUME NEW c \in Clients, Replace(c) PROVE TurnKept'
    BY <1>7 DEF Replace, TurnKept, SchedTypeOK
<1>8. CASE UNCHANGED schedVars
    BY <1>8 DEF schedVars, TurnKept
<1> QED
    BY <1>1, <1>2, <1>3, <1>4, <1>5, <1>6, <1>7, <1>8 DEF SchedNext

-----------------------------------------------------------------------------
(* The theorems.                                                           *)

\* The inductive invariant of the scheduler.
THEOREM SchedInvariance == SchedSpec => []SchedInv
<1>1. SchedInit => SchedInv
    BY SchedTypeInit DEF SchedInit, SchedInv, OnlyWaiting, TurnKept
<1>2. SchedInv /\ [SchedNext]_schedVars => SchedInv'
    BY SchedTypeStep, WaitingStep, TurnStep DEF SchedInv
<1> QED
    BY <1>1, <1>2, PTL DEF SchedSpec

\* Priorities, slices and indices stay in the ranges the code has arrays and
\* bounds for, as clients are praised, penalized, closed and replaced.
THEOREM SchedTypeCorrect == SchedSpec => []SchedTypeOK
BY SchedInvariance, PTL DEF SchedInv

\* While a client waits at one priority, no other is chosen at it twice.
THEOREM TurnsTaken == SchedSpec => RoundRobin
<1>1. ASSUME SchedInv, [SchedNext]_schedVars
      PROVE  [\A c, d \in Clients :
                (/\ Choose(d)
                 /\ c \in ready \ {d}
                 /\ Praised(c) = priority[c]
                 /\ Praised(d) = priority[c]) => d \notin passed[c]]_schedVars
    <2> SUFFICES ASSUME NEW c \in Clients, NEW d \in Clients, Choose(d),
                        c \in ready \ {d}, Praised(c) = priority[c],
                        Praised(d) = priority[c], d \in passed[c]
                 PROVE  FALSE
        OBVIOUS
    <2> DEFINE last == SmartLastIndex[priority[c]]
    <2>1. Robin(d, last) < Robin(c, last)
        BY <1>1 DEF SchedInv, TurnKept
    <2>2. Robin(c, last) < Robin(d, last)
        <3>1. priority[c] \in Int
            BY <1>1, SchedAssumption DEF SchedInv, SchedTypeOK, Priorities
        <3> QED
            BY <3>1 DEF Choose, Best
    <2>3. last \in 0 .. 255
        BY <1>1, IndexRange DEF SchedInv, SchedTypeOK
    <2>4. c \in 0 .. 255 /\ d \in 0 .. 255
        BY ClientRange
    <2> HIDE DEF last
    <2>5. Robin(c, last) \in Int /\ Robin(d, last) \in Int
        BY <2>3, <2>4, RobinInt
    <2> QED
        BY <2>1, <2>2, <2>5
<1> QED
    BY SchedInvariance, <1>1, PTL DEF SchedSpec, RoundRobin
=============================================================================
