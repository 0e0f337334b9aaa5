------------------------------ MODULE CallProofs ------------------------------
(***************************************************************************)
(* Proofs about Call, for any calls, listeners and operators.  The         *)
(* invariant says that a call which is not taken yet names no operator, so *)
(* that handledBy, once written, is final: an accept past its claim and a  *)
(* marker can then rely on it for ever.                                    *)
(***************************************************************************)
EXTENDS Call, TLAPS

\* Nobody handles a call before it is claimed or rejected.
UntakenIsUnhandled ==
    \A c \in Calls : status[c] \in {"none", "queued"} => handledBy[c] = NoOne

\* An accept past its claim is by the operator the call names.
AcceptsOwnTheirCall ==
    \A a \in accepts : a.next \in {"switch", "mark"} => handledBy[a.call] = a.op

IInv ==
    /\ TypeOK
    /\ OneLiveCallPerListener
    /\ UntakenIsUnhandled
    /\ AcceptsOwnTheirCall
    /\ MarkerNamesOwnCall

-----------------------------------------------------------------------------

\* Init gives every variable its type.
LEMMA TypeInit == Init => TypeOK
  BY RestartAssumption DEF Init, TypeOK, Live, Final

\* Ending a call keeps every variable in its type.
LEMMA FinishType ==
  ASSUME TypeOK, NEW c \in Calls, NEW s \in Live \cup Final, Finish(c, s)
  PROVE  /\ status' \in [Calls -> {"none"} \cup Live \cup Final]
         /\ queueTimers' \subseteq Calls
         /\ joinTimers' \subseteq Calls
         /\ unmarks' \subseteq Unmark
  BY DEF TypeOK, Finish, UnmarkHandler, Unmark, Live, Final

\* A call that ends is missed, or completed when it was answered: final in either case.
LEMMA EndedStatusType == \A c \in Calls : EndedStatus(c) \in Final
  BY DEF EndedStatus, Final

\* Every step keeps every variable in its type.
LEMMA TypeStep == TypeOK /\ [Next]_vars => TypeOK'
<1> SUFFICES ASSUME TypeOK, [Next]_vars PROVE TypeOK'
  OBVIOUS
<1>1. ASSUME NEW c \in Calls, NEW l \in Listeners, RequestCall(c, l) PROVE TypeOK'
  BY <1>1 DEF RequestCall, TypeOK, Live, Final
<1>2. ASSUME NEW c \in Calls, EndCall(c) PROVE TypeOK'
  BY <1>2, FinishType, EndedStatusType DEF EndCall, TypeOK
<1>3. ASSUME NEW c \in Calls, CancelCall(c) PROVE TypeOK'
  BY <1>3, FinishType DEF CancelCall, TypeOK, Final
<1>4. ASSUME NEW c \in Calls, JoinCall(c) PROVE TypeOK'
  BY <1>4 DEF JoinCall, TypeOK
<1>5. ASSUME NEW c \in Calls, QueueTimeout(c) PROVE TypeOK'
  BY <1>5 DEF QueueTimeout, TypeOK, Live, Final
<1>6. ASSUME NEW c \in Calls, JoinTimeout(c) PROVE TypeOK'
  BY <1>6 DEF JoinTimeout, UnmarkHandler, TypeOK, Unmark, Live, Final
<1>7. ASSUME NEW c \in Calls, TimePasses(c) PROVE TypeOK'
  BY <1>7 DEF TimePasses, TypeOK
<1>8. ASSUME NEW c \in Calls, SweepStaleCall(c) PROVE TypeOK'
  BY <1>8, FinishType, EndedStatusType DEF SweepStaleCall, TypeOK
<1>9. ASSUME NEW o \in Operators, NEW c \in Calls, AcceptCall(o, c) PROVE TypeOK'
  <2>1. CurrentCall(o) \subseteq Calls \cup {NoOne}
    BY DEF CurrentCall, TypeOK
  <2>2. PICK p \in CurrentCall(o) :
          accepts' = accepts \cup {[op |-> o, call |-> c, prev |-> p, next |-> "claim"]}
    BY <1>9 DEF AcceptCall
  <2>3. accepts' \subseteq Accept
    BY <2>1, <2>2 DEF TypeOK, Accept
  <2> QED
    BY <1>9, <2>3 DEF AcceptCall, TypeOK
<1>10. ASSUME NEW o \in Operators, NEW c \in Calls, RejectCall(c, o) PROVE TypeOK'
  BY <1>10 DEF RejectCall, TypeOK, Live, Final
<1>11. ASSUME NEW o \in Operators, OperatorDisconnects(o) PROVE TypeOK'
  <2>1. CurrentCall(o) \subseteq Calls \cup {NoOne}
    BY DEF CurrentCall, TypeOK
  <2>2. graces' \subseteq Grace
    BY <1>11, <2>1 DEF OperatorDisconnects, TypeOK, Grace
  <2> QED
    BY <1>11, <2>2 DEF OperatorDisconnects, TypeOK
<1>12. ASSUME NEW o \in Operators, OperatorReconnects(o) PROVE TypeOK'
  BY <1>12 DEF OperatorReconnects, TypeOK
<1>13. ASSUME NEW o \in Operators, MarkerLost(o) PROVE TypeOK'
  BY <1>13 DEF MarkerLost, TypeOK
<1>14. ASSUME NEW a \in accepts, ClaimCall(a) PROVE TypeOK'
  <2>1. /\ a \in Accept /\ a.op \in Operators /\ a.call \in Calls
        /\ [a EXCEPT !.next = "switch"] \in Accept
    BY DEF TypeOK, Accept
  <2> QED
    BY <1>14, <2>1 DEF ClaimCall, TypeOK, Live, Final
<1>15. ASSUME NEW a \in accepts, SwitchCall(a) PROVE TypeOK'
  <2>1. /\ a.prev \in Calls \cup {NoOne}
        /\ [a EXCEPT !.next = "mark"] \in Accept
    BY DEF TypeOK, Accept
  <2>2. accepts' \subseteq Accept
    BY <1>15, <2>1 DEF SwitchCall, TypeOK
  <2>3. CASE a.prev \in Calls /\ Finish(a.prev, EndedStatus(a.prev))
    BY <1>15, <2>2, <2>3, FinishType, EndedStatusType DEF SwitchCall, TypeOK
  <2>4. CASE UNCHANGED <<status, queueTimers, joinTimers, unmarks>>
    BY <1>15, <2>2, <2>4 DEF SwitchCall, TypeOK
  <2> QED
    BY <1>15, <2>1, <2>3, <2>4 DEF SwitchCall
<1>16. ASSUME NEW a \in accepts, MarkOnCall(a) PROVE TypeOK'
  <2>1. a.op \in Operators /\ a.call \in Calls
    BY DEF TypeOK, Accept
  <2> QED
    BY <1>16, <2>1 DEF MarkOnCall, TypeOK
<1>17. ASSUME NEW u \in unmarks, UnmarkGet(u) PROVE TypeOK'
  <2>1. [u EXCEPT !.next = "delete"] \in Unmark
    BY DEF TypeOK, Unmark
  <2> QED
    BY <1>17, <2>1 DEF UnmarkGet, TypeOK
<1>18. ASSUME NEW u \in unmarks, UnmarkDelete(u) PROVE TypeOK'
  BY <1>18 DEF UnmarkDelete, TypeOK
<1>19. ASSUME NEW g \in graces, GraceExpires(g) PROVE TypeOK'
  <2>1. g.op \in Operators /\ g.call \in Calls /\ graces' \subseteq Grace
    BY <1>19 DEF GraceExpires, TypeOK, Grace
  <2>2. CASE Finish(g.call, EndedStatus(g.call))
    BY <1>19, <2>1, <2>2, FinishType, EndedStatusType DEF GraceExpires, TypeOK
  <2>3. CASE /\ unmarks' = unmarks \cup {[op |-> g.op, call |-> g.call, next |-> "get"]}
             /\ UNCHANGED <<status, queueTimers, joinTimers>>
    BY <1>19, <2>1, <2>3 DEF GraceExpires, TypeOK, Unmark
  <2> QED
    BY <1>19, <2>2, <2>3 DEF GraceExpires
<1>20. ASSUME Restart PROVE TypeOK'
  BY <1>20, RestartAssumption
  DEF Restart, TypeOK, QueueTimersAfterRestart, JoinTimersAfterRestart
<1>21. ASSUME UNCHANGED vars PROVE TypeOK'
  BY <1>21 DEF vars, TypeOK
<1> QED
  BY <1>1, <1>2, <1>3, <1>4, <1>5, <1>6, <1>7, <1>8, <1>9, <1>10, <1>11, <1>12,
     <1>13, <1>14, <1>15, <1>16, <1>17, <1>18, <1>19, <1>20, <1>21
  DEF Next, Listener, Operator, Timers

\* Call documents, listeners, operators and markers always have their types.
THEOREM TypeCorrect == Spec => []TypeOK
  BY TypeInit, TypeStep, PTL DEF Spec

-----------------------------------------------------------------------------
(* The invariant                                                            *)

\* What a step does to the calls: a call changes only along these arrows, and
\* it changes its operator only while it is queued.
CallStep ==
    \A c \in Calls :
        \/ /\ status'[c] = status[c] /\ startedBy'[c] = startedBy[c]
           /\ handledBy'[c] = handledBy[c]
        \/ /\ status[c] = "none"
           /\ LiveIndexAllows(startedBy'[c])
           /\ status' = [status EXCEPT ![c] = "queued"]
           /\ \A d \in Calls \ {c} : startedBy'[d] = startedBy[d]
           /\ UNCHANGED handledBy
        \/ /\ status[c] = "queued" /\ status'[c] \in {"answered", "rejected"}
           /\ startedBy'[c] = startedBy[c]
        \/ /\ status[c] \in Live /\ status'[c] \in Final
           /\ startedBy'[c] = startedBy[c] /\ handledBy'[c] = handledBy[c]

\* Every step is such a step.
LEMMA StepIsCallStep == TypeOK /\ [Next]_vars => CallStep
<1> SUFFICES ASSUME TypeOK, [Next]_vars PROVE CallStep
  OBVIOUS
<1>0. ASSUME NEW c \in Calls, NEW s \in Final, status[c] \in Live, Finish(c, s),
             UNCHANGED <<startedBy, handledBy>>
      PROVE  CallStep
  BY <1>0 DEF Finish, CallStep, TypeOK
<1>1. ASSUME NEW c \in Calls, NEW l \in Listeners, RequestCall(c, l) PROVE CallStep
  BY <1>1 DEF RequestCall, CallStep, TypeOK
<1>2. ASSUME NEW c \in Calls, EndCall(c) PROVE CallStep
  BY <1>0, <1>2, EndedStatusType DEF EndCall
<1>3. ASSUME NEW c \in Calls, CancelCall(c) PROVE CallStep
  BY <1>0, <1>3 DEF CancelCall, Live, Final
<1>4. ASSUME NEW c \in Calls, QueueTimeout(c) PROVE CallStep
  BY <1>4 DEF QueueTimeout, CallStep, TypeOK, Live, Final
<1>5. ASSUME NEW c \in Calls, JoinTimeout(c) PROVE CallStep
  BY <1>5 DEF JoinTimeout, CallStep, TypeOK, Live, Final
<1>6. ASSUME NEW c \in Calls, SweepStaleCall(c) PROVE CallStep
  BY <1>0, <1>6, EndedStatusType DEF SweepStaleCall, Stale, Live
<1>7. ASSUME NEW o \in Operators, NEW c \in Calls, RejectCall(c, o) PROVE CallStep
  BY <1>7 DEF RejectCall, CallStep, TypeOK
<1>8. ASSUME NEW a \in accepts, ClaimCall(a) PROVE CallStep
  <2>1. a.call \in Calls
    BY DEF TypeOK, Accept
  <2> QED
    BY <1>8, <2>1 DEF ClaimCall, Claimable, CallStep, TypeOK
<1>9. ASSUME NEW a \in accepts, SwitchCall(a) PROVE CallStep
  <2>1. CASE /\ a.prev \notin {NoOne, a.call}
             /\ status[a.prev] \in Live
             /\ Finish(a.prev, EndedStatus(a.prev))
    <3>1. a.prev \in Calls
      BY <2>1 DEF TypeOK, Accept
    <3> QED
      BY <1>0, <1>9, <2>1, <3>1, EndedStatusType DEF SwitchCall
  <2>2. CASE UNCHANGED status
    BY <1>9, <2>2 DEF SwitchCall, CallStep
  <2> QED
    BY <1>9, <2>1, <2>2 DEF SwitchCall
<1>10. ASSUME NEW g \in graces, GraceExpires(g) PROVE CallStep
  <2>1. g.call \in Calls
    BY DEF TypeOK, Grace
  <2> QED
    BY <1>0, <1>10, <2>1, EndedStatusType DEF GraceExpires, CallStep
<1>11. ASSUME UNCHANGED <<status, startedBy, handledBy>> PROVE CallStep
  BY <1>11 DEF CallStep
<1> QED
  BY <1>1, <1>2, <1>3, <1>4, <1>5, <1>6, <1>7, <1>8, <1>9, <1>10, <1>11
  DEF Next, Listener, Operator, Timers, JoinCall, TimePasses, AcceptCall,
      OperatorDisconnects, OperatorReconnects, MarkerLost, MarkOnCall,
      UnmarkGet, UnmarkDelete, Restart, vars

\* An operator written into a call stays there.
LEMMA HandlerIsFinal ==
  ASSUME TypeOK, UntakenIsUnhandled, CallStep, NEW c \in Calls, handledBy[c] # NoOne
  PROVE  handledBy'[c] = handledBy[c]
  BY DEF CallStep, UntakenIsUnhandled

\* The accepts in progress stay honest: only a successful claim goes on.
LEMMA AcceptsStep ==
  ASSUME TypeOK, UntakenIsUnhandled, AcceptsOwnTheirCall, CallStep, [Next]_vars
  PROVE  AcceptsOwnTheirCall'
<1>1. \A a \in accepts : a.op \in Operators /\ a.call \in Calls /\ a.op # NoOne
  BY NoOneAssumption DEF TypeOK, Accept
<1>2. ASSUME accepts' \subseteq accepts PROVE AcceptsOwnTheirCall'
  BY <1>1, <1>2, HandlerIsFinal DEF AcceptsOwnTheirCall
<1>3. ASSUME NEW o \in Operators, NEW c \in Calls, AcceptCall(o, c)
      PROVE  AcceptsOwnTheirCall'
  <2>1. PICK p \in CurrentCall(o) :
          accepts' = accepts \cup {[op |-> o, call |-> c, prev |-> p, next |-> "claim"]}
    BY <1>3 DEF AcceptCall
  <2> QED
    BY <1>1, <2>1, HandlerIsFinal DEF AcceptsOwnTheirCall
<1>4. ASSUME NEW a \in accepts, ClaimCall(a), accepts' # accepts \ {a}
      PROVE  AcceptsOwnTheirCall'
  <2>1. /\ accepts' = (accepts \ {a}) \cup {[a EXCEPT !.next = "switch"]}
        /\ handledBy'[a.call] = a.op
    BY <1>1, <1>4 DEF ClaimCall, TypeOK
  <2>2. LET b == [a EXCEPT !.next = "switch"] IN b.op = a.op /\ b.call = a.call
    BY DEF TypeOK, Accept
  <2> QED
    BY <1>1, <2>1, <2>2, HandlerIsFinal DEF AcceptsOwnTheirCall
<1>5. ASSUME NEW a \in accepts, SwitchCall(a) PROVE AcceptsOwnTheirCall'
  <2>1. /\ accepts' = (accepts \ {a}) \cup {[a EXCEPT !.next = "mark"]}
        /\ handledBy'[a.call] = a.op
    BY <1>1, <1>5 DEF SwitchCall, AcceptsOwnTheirCall
  <2>2. LET b == [a EXCEPT !.next = "mark"] IN b.op = a.op /\ b.call = a.call
    BY DEF TypeOK, Accept
  <2> QED
    BY <1>1, <2>1, <2>2, HandlerIsFinal DEF AcceptsOwnTheirCall
<1> QED
  BY <1>2, <1>3, <1>4, <1>5
  DEF Next, Listener, Operator, Timers, RequestCall, EndCall, CancelCall, JoinCall,
      QueueTimeout, JoinTimeout, TimePasses, SweepStaleCall, RejectCall,
      OperatorDisconnects, OperatorReconnects, MarkerLost, ClaimCall, MarkOnCall,
      UnmarkGet, UnmarkDelete, GraceExpires, Restart, vars

\* Markers are only written by an accept that owns the call.
LEMMA MarkersStep ==
  ASSUME TypeOK, UntakenIsUnhandled, AcceptsOwnTheirCall, MarkerNamesOwnCall,
         CallStep, [Next]_vars
  PROVE  MarkerNamesOwnCall'
<1>1. \A o \in Operators : o # NoOne /\ onCall[o] \in Calls \cup {NoOne}
  BY NoOneAssumption DEF TypeOK
<1>2. ASSUME \A o \in Operators : onCall'[o] \in {onCall[o], NoOne}
      PROVE  MarkerNamesOwnCall'
  BY <1>1, <1>2, HandlerIsFinal DEF MarkerNamesOwnCall
<1>3. ASSUME NEW a \in accepts, MarkOnCall(a) PROVE MarkerNamesOwnCall'
  <2>1. a.op \in Operators /\ a.call \in Calls /\ handledBy[a.call] = a.op
    BY <1>3 DEF MarkOnCall, AcceptsOwnTheirCall, TypeOK, Accept
  <2>2. onCall' = [onCall EXCEPT ![a.op] = a.call] /\ handledBy' = handledBy
    BY <1>3 DEF MarkOnCall
  <2> QED
    BY <2>1, <2>2 DEF MarkerNamesOwnCall, TypeOK
<1>4. ASSUME NEW o \in Operators, onCall' = [onCall EXCEPT ![o] = NoOne]
      PROVE  \A q \in Operators : onCall'[q] \in {onCall[q], NoOne}
  BY <1>4 DEF TypeOK
<1>5. ASSUME NEW u \in unmarks, UnmarkDelete(u) PROVE MarkerNamesOwnCall'
  <2>1. u.op \in Operators
    BY DEF TypeOK, Unmark
  <2> QED
    BY <1>2, <1>4, <1>5, <2>1 DEF UnmarkDelete
<1>6. ASSUME NEW o \in Operators, MarkerLost(o) PROVE MarkerNamesOwnCall'
  BY <1>2, <1>4, <1>6 DEF MarkerLost
<1>7. ASSUME UNCHANGED onCall PROVE MarkerNamesOwnCall'
  BY <1>2, <1>7
<1> QED
  BY <1>3, <1>5, <1>6, <1>7
  DEF Next, Listener, Operator, Timers, RequestCall, EndCall, CancelCall, JoinCall,
      QueueTimeout, JoinTimeout, TimePasses, SweepStaleCall, AcceptCall, RejectCall,
      OperatorDisconnects, OperatorReconnects, ClaimCall, SwitchCall,
      UnmarkGet, GraceExpires, Restart, vars

\* The whole invariant is inductive.
LEMMA InvStep == IInv /\ [Next]_vars => IInv'
<1> SUFFICES ASSUME IInv, [Next]_vars PROVE IInv'
  OBVIOUS
<1>1. TypeOK' /\ CallStep
  BY TypeStep, StepIsCallStep DEF IInv
<1>2. OneLiveCallPerListener'
  <2>1. ASSUME NEW c \in Calls, NEW d \in Calls, c # d,
               status'[c] \in Live, status'[d] \in Live
        PROVE  startedBy'[c] # startedBy'[d]
    <3>1. CASE status[c] = "none"
      <4>1. /\ status' = [status EXCEPT ![c] = "queued"]
            /\ LiveIndexAllows(startedBy'[c]) /\ startedBy'[d] = startedBy[d]
        BY <1>1, <2>1, <3>1 DEF CallStep, Live, Final
      <4> QED
        BY <2>1, <4>1 DEF LiveIndexAllows, IInv, TypeOK
    <3>2. CASE status[d] = "none"
      <4>1. /\ status' = [status EXCEPT ![d] = "queued"]
            /\ LiveIndexAllows(startedBy'[d]) /\ startedBy'[c] = startedBy[c]
        BY <1>1, <2>1, <3>2 DEF CallStep, Live, Final
      <4> QED
        BY <2>1, <4>1 DEF LiveIndexAllows, IInv, TypeOK
    <3>3. CASE status[c] # "none" /\ status[d] # "none"
      <4>1. /\ status[c] \in Live /\ startedBy'[c] = startedBy[c]
            /\ status[d] \in Live /\ startedBy'[d] = startedBy[d]
        BY <1>1, <2>1, <3>3 DEF CallStep, Live, Final
      <4> QED
        BY <2>1, <4>1 DEF IInv, OneLiveCallPerListener
    <3> QED
      BY <3>1, <3>2, <3>3
  <2> QED
    BY <2>1 DEF OneLiveCallPerListener
<1>3. UntakenIsUnhandled'
  BY <1>1 DEF IInv, UntakenIsUnhandled, CallStep, Live, Final
<1>4. AcceptsOwnTheirCall' /\ MarkerNamesOwnCall'
  BY <1>1, AcceptsStep, MarkersStep DEF IInv
<1> QED
  BY <1>1, <1>2, <1>3, <1>4 DEF IInv

\* The inductive invariant holds at first.
LEMMA InvInit == Init => IInv
  BY TypeInit
  DEF IInv, Init, OneLiveCallPerListener, UntakenIsUnhandled, AcceptsOwnTheirCall,
      MarkerNamesOwnCall, Live

\* The inductive invariant holds throughout.
THEOREM Invariance == Spec => []IInv
  BY InvInit, InvStep, PTL DEF Spec

\* A listener never has two live calls, hence never pays for two at once,
\* however many requests race (requestCall, the partial unique index).
THEOREM OneLiveCall == Spec => []OneLiveCallPerListener
<1>1. IInv => OneLiveCallPerListener
  BY DEF IInv
<1> QED
  BY <1>1, Invariance, PTL

\* The on-call marker only names a call its operator has claimed, whichever
\* accepts, switches, hang-ups and restarts interleave (acceptCall).
THEOREM MarkerIsOwn == Spec => []MarkerNamesOwnCall
<1>1. IInv => MarkerNamesOwnCall
  BY DEF IInv
<1> QED
  BY <1>1, Invariance, PTL

\* A call that has ended keeps its final status for ever.
THEOREM EndedStays == Spec => EndedCallsStayEnded
<1>1. IInv /\ [Next]_vars => [\A c \in Calls : status[c] \in Final => status'[c] = status[c]]_vars
  <2> SUFFICES ASSUME IInv, [Next]_vars, NEW c \in Calls, status[c] \in Final
               PROVE  status'[c] = status[c]
    OBVIOUS
  <2> QED
    BY StepIsCallStep DEF IInv, CallStep, Live, Final
<1> QED
  BY <1>1, Invariance, PTL DEF Spec, EndedCallsStayEnded

-----------------------------------------------------------------------------
(* The queue timers                                                         *)

\* Ending a call takes the queue timer of that call only.
LEMMA FinishKeepsTimers ==
  ASSUME TypeOK, WaitingCallsAreTimed, NEW c \in Calls, NEW s \in Final, Finish(c, s),
         UNCHANGED elapsed
  PROVE  WaitingCallsAreTimed'
  BY DEF TypeOK, WaitingCallsAreTimed, Finish, Final

\* Every step leaves a waiting call its timer, unless its time is up.
LEMMA TimedStep ==
  TypeOK /\ WaitingCallsAreTimed /\ [Next]_vars => WaitingCallsAreTimed'
<1> SUFFICES ASSUME TypeOK, WaitingCallsAreTimed, [Next]_vars PROVE WaitingCallsAreTimed'
  OBVIOUS
<1>1. ASSUME NEW c \in Calls, NEW l \in Listeners, RequestCall(c, l) PROVE WaitingCallsAreTimed'
  BY <1>1 DEF RequestCall, WaitingCallsAreTimed, TypeOK
<1>2. ASSUME NEW c \in Calls, EndCall(c) \/ CancelCall(c) \/ SweepStaleCall(c)
      PROVE  WaitingCallsAreTimed'
  <2>1. "cancelled" \in Final
    BY DEF Final
  <2> QED
    BY <1>2, <2>1, FinishKeepsTimers, EndedStatusType DEF EndCall, CancelCall, SweepStaleCall
<1>3. ASSUME NEW c \in Calls, NEW o \in Operators, RejectCall(c, o) PROVE WaitingCallsAreTimed'
  BY <1>3 DEF RejectCall, WaitingCallsAreTimed, TypeOK
<1>4. ASSUME NEW c \in Calls, QueueTimeout(c) PROVE WaitingCallsAreTimed'
  BY <1>4 DEF QueueTimeout, WaitingCallsAreTimed, TypeOK
<1>5. ASSUME NEW c \in Calls, JoinTimeout(c) PROVE WaitingCallsAreTimed'
  BY <1>5 DEF JoinTimeout, WaitingCallsAreTimed, TypeOK
<1>6. ASSUME NEW c \in Calls, TimePasses(c) PROVE WaitingCallsAreTimed'
  BY <1>6 DEF TimePasses, WaitingCallsAreTimed, TypeOK
<1>7. ASSUME NEW a \in accepts, ClaimCall(a) PROVE WaitingCallsAreTimed'
  <2>1. a.call \in Calls
    BY DEF TypeOK, Accept
  <2> QED
    BY <1>7, <2>1 DEF ClaimCall, WaitingCallsAreTimed, TypeOK
<1>8. ASSUME NEW a \in accepts, SwitchCall(a) PROVE WaitingCallsAreTimed'
  <2>1. a.prev \in Calls \cup {NoOne}
    BY DEF TypeOK, Accept
  <2>2. CASE /\ a.prev \notin {NoOne, a.call}
             /\ Finish(a.prev, EndedStatus(a.prev))
    BY <1>8, <2>1, <2>2, FinishKeepsTimers, EndedStatusType DEF SwitchCall
  <2>3. CASE UNCHANGED <<status, queueTimers>>
    BY <1>8, <2>3 DEF SwitchCall, WaitingCallsAreTimed
  <2> QED
    BY <1>8, <2>2, <2>3 DEF SwitchCall
<1>9. ASSUME NEW g \in graces, GraceExpires(g) PROVE WaitingCallsAreTimed'
  <2>1. g.call \in Calls
    BY DEF TypeOK, Grace
  <2>2. CASE Finish(g.call, EndedStatus(g.call))
    BY <1>9, <2>1, <2>2, FinishKeepsTimers, EndedStatusType DEF GraceExpires
  <2>3. CASE UNCHANGED <<status, queueTimers>>
    BY <1>9, <2>3 DEF GraceExpires, WaitingCallsAreTimed
  <2> QED
    BY <1>9, <2>2, <2>3 DEF GraceExpires
<1>10. CASE Restart
  BY <1>10 DEF Restart, QueueTimersAfterRestart, WaitingCallsAreTimed, TypeOK
<1>11. ASSUME UNCHANGED <<status, elapsed, queueTimers>> PROVE WaitingCallsAreTimed'
  BY <1>11 DEF WaitingCallsAreTimed
<1> QED
  BY <1>1, <1>2, <1>3, <1>4, <1>5, <1>6, <1>7, <1>8, <1>9, <1>10, <1>11
  DEF Next, Listener, Operator, Timers, JoinCall, AcceptCall, OperatorDisconnects,
      OperatorReconnects, MarkerLost, MarkOnCall, UnmarkGet, UnmarkDelete, vars

\* A waiting call has its queue timer, also after a restart in the middle of anything, until
\* its time is up and the sweep looks after it (startQueueTimeout, reregisterTimeouts).
THEOREM WaitingIsTimed == Spec => []WaitingCallsAreTimed
<1>1. Init => WaitingCallsAreTimed
  BY DEF Init, WaitingCallsAreTimed
<1> QED
  BY <1>1, TimedStep, TypeCorrect, PTL DEF Spec
=============================================================================
