---------------------------- MODULE OnAirProofs ----------------------------
(***************************************************************************)
(* Theorems of OnAir: the scheduler hangs up on nobody whose show was on air  *)
(* all along, the screen of a TV station shows what was approved, changes of  *)
(* an account take effect, uploads stay whole and Redis is never given up.    *)
(* The slots v1 .. v15 are called by the names the modules have for them.     *)
(***************************************************************************)
EXTENDS OnAir, Integers, Sequences, FiniteSetTheorems, TLAPS

-----------------------------------------------------------------------------
(* Shows.                                                                     *)

\* A show that listeners find on air is the one the scheduler takes, or another began on the
\* same day: of a show of today and one that runs over from yesterday, the scheduler's order
\* by start takes the former too, as the latter begins after its own end.
LEMMA SchedulerAndListenersAgree ==
  ASSUME Shows!ShowsAssumption, v1 \in Nat, v2 \in [ShowIds -> Plans \cup {Unknown}],
         v3 \subseteq {x \in ShowIds : v2[x] # Unknown},
         NEW s \in Shows!Scheduled, NEW t \in ShowIds, t # s, t \in Shows!Found
  PROVE  Shows!Doubled(t)
<1> DEFINE plan == v2  active == v3
<1>1. /\ NoShow \notin ShowIds /\ Slots \in Nat \ {0}
      /\ Plans \subseteq [days : SUBSET (0 .. Days - 1), start : 0 .. Slots - 1, end : 0 .. Slots - 1]
  BY DEF Shows!ShowsAssumption
<1>2. /\ Shows!OnAir(t)
      /\ Shows!OnSinceToday(t) \/ \A x \in active : ~Shows!OnSinceToday(x)
  BY <1>1 DEF Shows!Found, Shows!OnAirShows, Shows!OnAir
<1>3. s \in Shows!OnAirShows /\ plan[s].start <= plan[t].start
  BY <1>2 DEF Shows!Scheduled, Shows!OnAirShows
<1>4. \A x \in active : plan[x].start \in Int /\ plan[x].end \in Int
  BY <1>1
<1>5. Shows!Time \in Int
  BY <1>1 DEF Shows!Time
<1>6. s \in active /\ t \in active /\ Shows!OnAir(s)
  BY <1>2, <1>3 DEF Shows!OnAirShows, Shows!OnAir
<1>7. CASE Shows!OnSinceToday(t)
  <2>1. Shows!Time >= plan[t].start
    BY <1>7 DEF Shows!OnSinceToday
  <2>2. ~Shows!OnSinceYesterday(s)
    BY <1>3, <1>4, <1>5, <1>6, <2>1 DEF Shows!OnSinceYesterday, Shows!Overnight
  <2> QED
    BY <1>3, <1>6, <1>7, <2>2 DEF Shows!Doubled, Shows!OnAir
<1>8. CASE ~Shows!OnSinceToday(t)
  BY <1>2, <1>3, <1>6, <1>8 DEF Shows!Doubled, Shows!OnAir
<1> QED
  BY <1>7, <1>8

\* No pass is under way and there are no calls.
LEMMA ShowsAtFirst == Shows!Init => Shows!IInv
<1> SUFFICES ASSUME Shows!Init PROVE Shows!IInv
  OBVIOUS
<1> DEFINE CallState == [show : ShowIds \cup {NoShow}, state : {"none", "placing", "live", "over"}]
<1>1. [show |-> NoShow, state |-> "none"] \in CallState
  OBVIOUS
<1>2. v6 = [c \in Calls |-> [show |-> NoShow, state |-> "none"]]
  BY DEF Shows!Init
<1> HIDE DEF CallState
<1>3. v6 \in [Calls -> CallState] /\ \A c \in Calls : v6[c].state = "none"
  BY <1>1, <1>2
<1>4. v2 \in [ShowIds -> Plans \cup {Unknown}]
  BY DEF Shows!Init
<1> QED
  BY <1>3, <1>4 DEF CallState, Shows!Init, Shows!Idle, Shows!IInv, Shows!Current, Shows!CallsHaveShows,
     Shows!DoomedAreExcused

\* What was excused and lives on is still excused; and who has no show on air, or a doubled one,
\* is excused at the end of a step that changes nothing of it.
LEMMA ExcusesLast ==
  ASSUME Shows!Observed
  PROVE  /\ \A c \in Calls : c \in v14 /\ v6'[c].state = "live" => c \in v14'
         /\ \A c \in Calls : UNCHANGED <<v1, v2, v3, v6>> /\ Shows!Excuse(c) /\ v6[c].state = "live" => c \in v14'
<1>1. \A c \in Calls : c \in v14 /\ v6'[c].state = "live" => c \in v14'
  BY DEF Shows!Observed
<1>2. ASSUME NEW c \in Calls, UNCHANGED <<v1, v2, v3, v6>>, Shows!Excuse(c), v6[c].state = "live"
      PROVE  c \in v14'
  <2>1. Shows!Excuse(c)'
    BY <1>2 DEF Shows!Excuse, Shows!Doubled, Shows!Found, Shows!OnAirShows, Shows!OnAir, Shows!OnSinceToday,
       Shows!OnSinceYesterday, Shows!Overnight, Shows!Today, Shows!Yesterday, Shows!Time
  <2> QED
    BY <1>2, <2>1 DEF Shows!Observed
<1> QED
  BY <1>1, <1>2

\* One action of the module, and the note of who is excused.
LEMMA ShowsKept ==
  ASSUME Shows!ShowsAssumption, Shows!IInv, Shows!Next
  PROVE  Shows!IInv' /\ Shows!ExcusedIfHungUp
<1> DEFINE clock == v1  plan == v2  active == v3  writes == v5  calls == v6  tick == v7  excused == v14
           CallState == [show : ShowIds \cup {NoShow}, state : {"none", "placing", "live", "over"}]
           Pass == [phase : {"idle", "started", "computed", "ending"}, before : SUBSET Calls,
                    current : ShowIds \cup {NoShow, Unknown}, doomed : SUBSET Calls]
           Schedule == /\ clock \in Nat
                       /\ plan \in [ShowIds -> Plans \cup {Unknown}]
                       /\ active \subseteq {s \in ShowIds : plan[s] # Unknown}
                       /\ writes \subseteq [show : ShowIds, plan : Plans]
           Typed == calls \in [Calls -> CallState] /\ tick \in Pass
           LivesOn(c) == calls'[c].state = "live" => calls[c].state = "live" /\ calls'[c].show = calls[c].show
<1>1. /\ Schedule /\ Typed /\ Shows!CallsHaveShows /\ Shows!DoomedAreExcused /\ Shows!Observed
      /\ NoShow \notin ShowIds /\ Unknown \notin ShowIds
  BY DEF Shows!IInv, Shows!Current, Shows!Next, Shows!ShowsAssumption
<1>2. ASSUME Schedule', Typed', Shows!CallsHaveShows', Shows!DoomedAreExcused'
      PROVE  Shows!IInv'
  BY <1>2 DEF Shows!IInv, Shows!Current
<1>3. Shows!ExcusedIfHungUp
  BY <1>1 DEF Shows!ExcusedIfHungUp, Shows!EndFinishedCall, Shows!DoomedAreExcused, Shows!Live, Shows!CallsHaveShows
<1> HIDE DEF CallState, Pass
\* The pass goes on with the calls that live on.
<1>4. ASSUME UNCHANGED tick, \A c \in tick.before : LivesOn(c) PROVE Shows!DoomedAreExcused'
  BY <1>1, <1>4, ExcusesLast DEF Shows!DoomedAreExcused, Shows!CallsHaveShows, Shows!Live
<1>5. ASSUME UNCHANGED <<calls, tick>> PROVE Typed' /\ Shows!CallsHaveShows' /\ Shows!DoomedAreExcused'
  BY <1>1, <1>4, <1>5 DEF Shows!CallsHaveShows
\* No pass is under way any more.
<1>6. ASSUME tick' = Shows!Idle, calls' \in [Calls -> CallState],
             \A c \in Calls : calls'[c].state \in {"placing", "live"} => calls'[c].show \in ShowIds
      PROVE  Typed' /\ Shows!CallsHaveShows' /\ Shows!DoomedAreExcused'
  <2>1. Shows!Idle \in Pass /\ Shows!Idle.phase = "idle" /\ Shows!Idle.before = {} /\ Shows!Idle.doomed = {}
    BY DEF Shows!Idle, Pass
  <2> QED
    BY <1>6, <2>1 DEF Shows!CallsHaveShows, Shows!DoomedAreExcused
\* One call becomes another one.
<1>7. ASSUME NEW c \in Calls, NEW call \in CallState, calls' = [calls EXCEPT ![c] = call],
             call.state \in {"placing", "live"} => call.show \in ShowIds
      PROVE  /\ calls' \in [Calls -> CallState]
             /\ \A d \in Calls : calls'[d] = IF d = c THEN call ELSE calls[d]
             /\ \A d \in Calls : calls'[d].state \in {"placing", "live"} => calls'[d].show \in ShowIds
  <2>1. calls' \in [Calls -> CallState] /\ \A d \in Calls : calls'[d] = IF d = c THEN call ELSE calls[d]
    BY <1>1, <1>7
  <2> QED
    BY <1>1, <1>7, <2>1 DEF Shows!CallsHaveShows
\* The schedule, and what is announced of it.
<1>10. CASE Shows!Editor
  <2>1. UNCHANGED <<clock, calls, tick>>
    BY <1>10 DEF Shows!Editor, Shows!CheckShow, Shows!SwitchShowOff, Shows!WriteShow, Shows!SwitchStation
  <2>2. ASSUME NEW s \in ShowIds, NEW p \in Plans, Shows!CheckShow(s, p) PROVE Schedule'
    BY <1>1, <2>2 DEF Shows!CheckShow
  <2>3. ASSUME NEW s \in ShowIds, Shows!SwitchShowOff(s) PROVE Schedule'
    BY <1>1, <2>3 DEF Shows!SwitchShowOff
  <2>4. ASSUME NEW w \in writes, Shows!WriteShow(w) PROVE Schedule'
    <3>1. w.show \in ShowIds /\ w.plan \in Plans /\ Unknown \notin Plans
      BY <1>1 DEF Shows!ShowsAssumption
    <3> QED
      BY <1>1, <2>4, <3>1 DEF Shows!WriteShow
  <2>5. ASSUME Shows!SwitchStation PROVE Schedule'
    BY <1>1, <2>5 DEF Shows!SwitchStation
  <2> QED
    BY <1>2, <1>3, <1>5, <1>10, <2>1, <2>2, <2>3, <2>4, <2>5 DEF Shows!Editor
<1>11. CASE ~Shows!Editor
  <2>1. CASE Shows!Advance
    <3>1. Schedule' /\ UNCHANGED <<calls, tick>>
      BY <1>1, <2>1 DEF Shows!Advance, Shows!scheduleVars
    <3> QED
      BY <1>2, <1>3, <1>5, <3>1
  <2>2. CASE Shows!Restart
    <3>1. Schedule' /\ tick' = Shows!Idle
          /\ calls' = [c \in Calls |-> IF calls[c].state = "placing" THEN [calls[c] EXCEPT !.state = "over"] ELSE calls[c]]
      BY <1>1, <2>2 DEF Shows!Restart
    <3>2. \A c \in Calls : [calls[c] EXCEPT !.state = "over"] \in CallState /\ [calls[c] EXCEPT !.state = "over"].state = "over"
      BY <1>1 DEF CallState
    <3>3. calls' \in [Calls -> CallState]
      BY <1>1, <3>1, <3>2
    <3>4. \A c \in Calls : calls'[c].state \in {"placing", "live"} => calls'[c] = calls[c]
      BY <1>1, <3>1, <3>2
    <3>5. \A c \in Calls : calls'[c].state \in {"placing", "live"} => calls'[c].show \in ShowIds
      BY <1>1, <3>4 DEF Shows!CallsHaveShows
    <3> QED
      BY <1>2, <1>3, <1>6, <3>1, <3>3, <3>5
  <2>3. CASE Shows!Listener
    <3>1. Schedule' /\ UNCHANGED tick
      BY <1>1, <2>3 DEF Shows!Listener, Shows!AskForCall, Shows!PlaceCall, Shows!HangUp, Shows!AcceptMessage,
         Shows!MessageAnnounces, Shows!scheduleVars
    <3>2. ASSUME NEW c \in Calls, NEW call \in CallState, calls' = [calls EXCEPT ![c] = call],
                 call.state \in {"placing", "live"} => call.show \in ShowIds,
                 calls[c].state \in {"none", "placing"} \/ call.state = "over"
          PROVE  Typed' /\ Shows!CallsHaveShows' /\ Shows!DoomedAreExcused'
      <4>1. /\ calls' \in [Calls -> CallState]
            /\ \A d \in Calls : calls'[d] = IF d = c THEN call ELSE calls[d]
            /\ \A d \in Calls : calls'[d].state \in {"placing", "live"} => calls'[d].show \in ShowIds
        BY <1>7, <3>2
      <4>2. \A d \in tick.before : LivesOn(d) /\ calls'[d].state \in {"live", "over"}
        BY <1>1, <3>2, <4>1 DEF Shows!CallsHaveShows
      <4> QED
        BY <1>1, <1>4, <3>1, <4>1, <4>2 DEF Shows!CallsHaveShows
    <3>3. ASSUME NEW c \in Calls, Shows!AskForCall(c) PROVE Typed' /\ Shows!CallsHaveShows' /\ Shows!DoomedAreExcused'
      <4>1. PICK s \in Shows!Found \ {NoShow} : calls' = [calls EXCEPT ![c] = [show |-> s, state |-> "placing"]]
        BY <3>3 DEF Shows!AskForCall
      <4>2. s \in ShowIds
        BY <1>1, <4>1 DEF Shows!Found, Shows!OnAirShows
      <4>3. [show |-> s, state |-> "placing"] \in CallState
        BY <4>2 DEF CallState
      <4> QED
        BY <3>2, <3>3, <4>1, <4>2, <4>3 DEF Shows!AskForCall
    <3>4. ASSUME NEW c \in Calls, Shows!PlaceCall(c) PROVE Typed' /\ Shows!CallsHaveShows' /\ Shows!DoomedAreExcused'
      <4>1. calls[c].state = "placing" /\ calls' = [calls EXCEPT ![c] = [calls[c] EXCEPT !.state = "live"]]
        BY <3>4 DEF Shows!PlaceCall
      <4>2. [calls[c] EXCEPT !.state = "live"] \in CallState /\ [calls[c] EXCEPT !.state = "live"].show = calls[c].show
        BY <1>1 DEF CallState
      <4> QED
        BY <1>1, <3>2, <4>1, <4>2 DEF Shows!CallsHaveShows
    <3>5. ASSUME NEW c \in Calls, Shows!HangUp(c) PROVE Typed' /\ Shows!CallsHaveShows' /\ Shows!DoomedAreExcused'
      <4>1. calls' = [calls EXCEPT ![c] = [calls[c] EXCEPT !.state = "over"]]
        BY <3>5 DEF Shows!HangUp
      <4>2. [calls[c] EXCEPT !.state = "over"] \in CallState /\ [calls[c] EXCEPT !.state = "over"].state = "over"
        BY <1>1 DEF CallState
      <4> QED
        BY <3>2, <4>1, <4>2
    <3>6. CASE \E m \in Messages : Shows!AcceptMessage(m) \/ Shows!MessageAnnounces(m)
      <4>1. UNCHANGED calls
        BY <3>6 DEF Shows!AcceptMessage, Shows!MessageAnnounces
      <4> QED
        BY <1>2, <1>3, <1>5, <3>1, <4>1
    <3> QED
      BY <1>2, <1>3, <2>3, <3>1, <3>3, <3>4, <3>5, <3>6 DEF Shows!Listener
  <2>4. CASE Shows!Scheduler
    <3>1. Schedule'
      BY <1>1, <2>4 DEF Shows!Scheduler, Shows!StartTick, Shows!ComputeCurrent, Shows!FindFinishedCalls,
         Shows!AnnounceCurrent, Shows!EndFinishedCall, Shows!scheduleVars
    <3>2. CASE Shows!StartTick
      <4>1. tick' = [Shows!Idle EXCEPT !.phase = "started", !.before = {c \in Calls : Shows!Live(c)}] /\ UNCHANGED calls
        BY <3>2 DEF Shows!StartTick
      <4>2. /\ tick' \in Pass /\ tick'.phase = "started" /\ tick'.doomed = {}
            /\ tick'.before = {c \in Calls : Shows!Live(c)}
        BY <4>1 DEF Shows!Idle, Pass
      <4> QED
        BY <1>1, <1>2, <1>3, <3>1, <4>1, <4>2 DEF Shows!CallsHaveShows, Shows!DoomedAreExcused, Shows!Live
    <3>3. CASE Shows!ComputeCurrent
      <4>1. PICK s \in Shows!Scheduled : tick' = IF v4 THEN [tick EXCEPT !.phase = "computed", !.current = s] ELSE Shows!Idle
        BY <3>3 DEF Shows!ComputeCurrent
      <4>2. tick.phase = "started" /\ UNCHANGED <<clock, plan, active, calls>>
        BY <3>3 DEF Shows!ComputeCurrent, Shows!scheduleVars
      <4>3. CASE ~v4
        BY <1>1, <1>2, <1>3, <1>6, <3>1, <4>1, <4>2, <4>3 DEF Shows!CallsHaveShows
      <4>4. CASE v4
        <5>1. s \in ShowIds \cup {NoShow}
          BY DEF Shows!Scheduled, Shows!OnAirShows
        <5>2. /\ tick' \in Pass /\ tick'.phase = "computed" /\ tick'.doomed = tick.doomed
              /\ tick'.before = tick.before /\ tick'.current = s
          BY <1>1, <4>1, <4>4, <5>1 DEF Pass
        <5>3. ASSUME NEW c \in tick.before, Shows!Live(c), calls[c].show # s PROVE Shows!Excuse(c)
          <6>1. c \in Calls /\ calls[c].show \in ShowIds
            BY <1>1, <5>3 DEF Shows!CallsHaveShows, Shows!Live
          <6> QED
            BY <1>1, <5>3, <6>1, SchedulerAndListenersAgree DEF Shows!Excuse
        <5>4. \A c \in tick.before : Shows!Live(c) /\ calls[c].show # s => c \in excused'
          BY <1>1, <4>2, <5>3, ExcusesLast DEF Shows!Live, Shows!CallsHaveShows
        <5> QED
          BY <1>1, <1>2, <1>3, <3>1, <4>2, <5>2, <5>4 DEF Shows!CallsHaveShows, Shows!DoomedAreExcused, Shows!Live
      <4> QED
        BY <4>3, <4>4
    <3>4. CASE Shows!FindFinishedCalls
      <4>1. /\ tick.phase = "computed" /\ UNCHANGED calls
            /\ tick' = [tick EXCEPT !.phase = "ending", !.doomed = Shows!FinishedCalls]
        BY <3>4 DEF Shows!FindFinishedCalls
      <4>2. Shows!FinishedCalls \subseteq tick.before /\ tick.before \subseteq Calls
        BY <1>1 DEF Shows!FinishedCalls, Shows!CallsHaveShows
      <4>3. /\ tick' \in Pass /\ tick'.phase = "ending" /\ tick'.before = tick.before
            /\ tick'.doomed = Shows!FinishedCalls
        BY <1>1, <4>1, <4>2 DEF Pass
      <4>4. \A c \in Shows!FinishedCalls : Shows!Live(c) => c \in excused'
        BY <1>1, <4>1, <4>2, ExcusesLast DEF Shows!DoomedAreExcused, Shows!FinishedCalls, Shows!Live
      <4> QED
        BY <1>1, <1>2, <1>3, <3>1, <4>1, <4>2, <4>3, <4>4 DEF Shows!CallsHaveShows, Shows!DoomedAreExcused, Shows!Live
    <3>5. ASSUME NEW c \in Calls, Shows!EndFinishedCall(c) PROVE Shows!IInv'
      <4>1. /\ c \in tick.doomed /\ tick' = [tick EXCEPT !.doomed = tick.doomed \ {c}]
            /\ \/ calls' = [calls EXCEPT ![c] = [calls[c] EXCEPT !.state = "over"]]
               \/ UNCHANGED calls
        BY <3>5 DEF Shows!EndFinishedCall
      <4>2. /\ tick' \in Pass /\ tick'.phase = tick.phase /\ tick'.before = tick.before
            /\ tick'.current = tick.current /\ tick'.doomed = tick.doomed \ {c}
        BY <1>1, <4>1 DEF Pass
      <4>3. [calls[c] EXCEPT !.state = "over"] \in CallState /\ [calls[c] EXCEPT !.state = "over"].state = "over"
        BY <1>1 DEF CallState
      <4>4. /\ calls' \in [Calls -> CallState]
            /\ \A d \in Calls : calls'[d] = calls[d] \/ calls'[d].state = "over"
            /\ \A d \in Calls : calls'[d].state \in {"placing", "live"} => calls'[d].show \in ShowIds
        <5>1. CASE UNCHANGED calls
          BY <1>1, <5>1 DEF Shows!CallsHaveShows
        <5>2. CASE calls' = [calls EXCEPT ![c] = [calls[c] EXCEPT !.state = "over"]]
          BY <1>7, <4>3, <5>2
        <5> QED
          BY <4>1, <5>1, <5>2
      <4>5. \A d \in Calls : LivesOn(d)
        BY <4>4
      <4>6. Shows!CallsHaveShows'
        BY <1>1, <4>2, <4>4 DEF Shows!CallsHaveShows
      <4>7. Shows!DoomedAreExcused'
        BY <1>1, <4>2, <4>5, ExcusesLast DEF Shows!CallsHaveShows, Shows!DoomedAreExcused, Shows!Live
      <4> QED
        BY <1>2, <3>1, <4>2, <4>4, <4>6, <4>7
    <3>6. CASE Shows!AnnounceCurrent
      BY <1>1, <1>2, <1>3, <1>6, <3>1, <3>6 DEF Shows!AnnounceCurrent, Shows!CallsHaveShows
    <3> QED
      BY <1>3, <2>4, <3>2, <3>3, <3>4, <3>5, <3>6 DEF Shows!Scheduler
  <2> QED
    BY <1>11, <2>1, <2>2, <2>3, <2>4 DEF Shows!Next
<1> QED
  BY <1>10, <1>11

-----------------------------------------------------------------------------
(* Moderation.                                                                *)

\* Nothing was decided.
LEMMA ModerationAtFirst == Moderation!Init => Moderation!IInv
<1> SUFFICES ASSUME Moderation!Init PROVE Moderation!IInv
  OBVIOUS
<1> DEFINE Job == [step : {"idle", "approve", "reject", "output", "delete", "edit", "withdraw"}, content : Nat]
<1>1. Moderation!Idle \in Job /\ Moderation!Idle.step = "idle"
  BY DEF Moderation!Idle
<1>2. v3 = [p \in Moderation!People |-> Moderation!Idle]
  BY DEF Moderation!Init
<1> HIDE DEF Job
<1>3. v3 \in [Moderation!People -> Job] /\ \A p \in Moderation!People : v3[p].step = "idle"
  BY <1>1, <1>2
<1> QED
  BY <1>3 DEF Job, Moderation!Init, Moderation!Posted, Moderation!Statuses, Moderation!IInv,
     Moderation!ScreenShowsApproved

\* A handler reads the message, or writes its own fields of it.
LEMMA ModerationKept ==
  ASSUME Moderation!IInv, Moderation!Next
  PROVE  Moderation!IInv'
<1> DEFINE msg == v1  job == v3  approved == v4  onScreen == v5
           People == Moderation!People
           Msg == [status : Moderation!Statuses, content : Nat, isDeleted : BOOLEAN, forEveryone : BOOLEAN]
           Job == [step : {"idle", "approve", "reject", "output", "delete", "edit", "withdraw"}, content : Nat]
           Old(n) == \E d \in approved : d <= n
<1>1. /\ msg \in Msg /\ job \in [People -> Job] /\ approved \subseteq Nat /\ onScreen \subseteq Nat
      /\ \A p \in People : job[p].step = "approve" => job[p].content <= msg.content
      /\ msg.status = "approved" \/ (\E p \in People : job[p].step = "output") => Old(msg.content)
      /\ \A c \in onScreen : Old(c)
      /\ Moderators \subseteq People /\ "author" \in People
  BY DEF Moderation!IInv, Moderation!ScreenShowsApproved, Moderation!People
<1>2. ASSUME /\ msg' \in Msg /\ job' \in [People -> Job] /\ approved' \subseteq Nat /\ onScreen' \subseteq Nat
             /\ \A p \in People : job'[p].step = "approve" => job'[p].content <= msg'.content
             /\ msg'.status = "approved" \/ (\E p \in People : job'[p].step = "output")
                   => \E d \in approved' : d <= msg'.content
             /\ \A c \in onScreen' : \E d \in approved' : d <= c
      PROVE  Moderation!IInv'
  BY <1>2 DEF Moderation!IInv, Moderation!ScreenShowsApproved
<1> HIDE DEF Job
\* A request goes on with another job.
<1>3. ASSUME NEW p \in People, NEW j \in Job, job' = [job EXCEPT ![p] = j]
      PROVE  job' \in [People -> Job] /\ \A q \in People : job'[q] = IF q = p THEN j ELSE job[q]
  BY <1>1, <1>3
<1>4. ASSUME NEW p \in People, Moderation!Done(p)
      PROVE  /\ job' \in [People -> Job]
             /\ \A q \in People : job'[q].step # "idle" => job'[q] = job[q]
  <2>1. Moderation!Idle \in Job /\ Moderation!Idle.step = "idle"
    BY DEF Moderation!Idle, Job
  <2> QED
    BY <1>3, <1>4, <2>1 DEF Moderation!Done
<1>5. ASSUME NEW p \in People, NEW step \in {"approve", "reject", "output", "delete", "edit", "withdraw"},
             Moderation!Goes(p, step), UNCHANGED <<msg, approved, onScreen>>,
             step = "output" => msg.status = "approved"
      PROVE  Moderation!IInv'
  <2>1. PICK j : j = [step |-> step, content |-> IF step = "approve" THEN msg.content ELSE 0]
    OBVIOUS
  <2>2. j \in Job /\ j.step = step /\ (step = "approve" => j.content = msg.content)
    BY <1>1, <2>1 DEF Job
  <2>3. job' \in [People -> Job] /\ \A q \in People : job'[q] = IF q = p THEN j ELSE job[q]
    BY <1>3, <1>5, <2>1, <2>2 DEF Moderation!Goes
  <2>4. \A q \in People : job'[q].step = "approve" => job'[q].content <= msg'.content
    BY <1>1, <1>5, <2>2, <2>3
  <2> QED
    BY <1>1, <1>2, <1>5, <2>2, <2>3, <2>4
\* A request writes fields of the message, that get no older text.
<1>6. ASSUME NEW p \in People, Moderation!Done(p), msg' \in Msg, msg'.content >= msg.content,
             msg'.status \in {msg.status, "rejected", "sent_to_output"}, UNCHANGED <<approved, onScreen>>
      PROVE  Moderation!IInv'
  <2>1. \A q \in People : job'[q].step = "approve" => job'[q].content <= msg'.content
    <3>1. \A q \in People : job[q].content \in Nat
      BY <1>1 DEF Job
    <3> QED
      BY <1>1, <1>4, <1>6, <3>1
  <2>2. msg'.status = "approved" \/ (\E q \in People : job'[q].step = "output") => \E d \in approved : d <= msg'.content
    BY <1>1, <1>4, <1>6
  <2> QED
    BY <1>1, <1>2, <1>4, <1>6, <2>1, <2>2
<1>10. CASE Moderation!CloseWindow
  BY <1>1, <1>2, <1>10 DEF Moderation!CloseWindow
<1>11. CASE Moderation!StartEdit \/ Moderation!StartDeleteForEveryone
  BY <1>1, <1>5, <1>11 DEF Moderation!StartEdit, Moderation!StartDeleteForEveryone
<1>12. CASE Moderation!EditMessage
  <2>1. Moderation!Done("author") /\ msg' = [msg EXCEPT !.content = @ + 1] /\ UNCHANGED <<approved, onScreen>>
    BY <1>12 DEF Moderation!EditMessage
  <2>2. msg' \in Msg /\ msg'.content = msg.content + 1 /\ msg'.status = msg.status
    BY <1>1, <2>1
  <2> QED
    BY <1>1, <1>6, <2>1, <2>2
<1>13. CASE Moderation!DeleteMessageForEveryone
  <2>1. Moderation!Done("author") /\ msg' = [msg EXCEPT !.forEveryone = TRUE] /\ UNCHANGED <<approved, onScreen>>
    BY <1>13 DEF Moderation!DeleteMessageForEveryone
  <2>2. msg' \in Msg /\ msg'.content = msg.content /\ msg'.status = msg.status
    BY <1>1, <2>1
  <2> QED
    BY <1>1, <1>6, <2>1, <2>2
<1>14. ASSUME NEW m \in Moderators,
              Moderation!StartApprove(m) \/ Moderation!StartReject(m) \/ Moderation!StartOutput(m) \/ Moderation!StartDelete(m)
       PROVE  Moderation!IInv'
  BY <1>1, <1>5, <1>14 DEF Moderation!StartApprove, Moderation!StartReject, Moderation!StartOutput,
     Moderation!StartDelete, Moderation!Decide, Moderation!MayLeave
<1>15. ASSUME NEW m \in Moderators, Moderation!ApproveMessage(m) PROVE Moderation!IInv'
  <2>1. /\ job[m].step = "approve" /\ Moderation!Done(m) /\ UNCHANGED onScreen
        /\ msg' = [msg EXCEPT !.status = "approved"] /\ approved' = approved \cup {job[m].content}
    BY <1>15 DEF Moderation!ApproveMessage
  <2>2. msg' \in Msg /\ msg'.content = msg.content
    BY <1>1, <2>1 DEF Moderation!Statuses
  <2>3. job[m].content \in Nat /\ job[m].content <= msg.content
    BY <1>1, <2>1 DEF Job
  <2>4. \A q \in People : job'[q].step = "approve" => job'[q].content <= msg'.content
    BY <1>1, <1>4, <2>1, <2>2
  <2> QED
    BY <1>1, <1>2, <1>4, <2>1, <2>2, <2>3, <2>4
<1>16. ASSUME NEW m \in Moderators, Moderation!RejectMessage(m) PROVE Moderation!IInv'
  <2>1. Moderation!Done(m) /\ msg' = [msg EXCEPT !.status = "rejected"] /\ UNCHANGED <<approved, onScreen>>
    BY <1>16 DEF Moderation!RejectMessage
  <2>2. msg' \in Msg /\ msg'.content = msg.content /\ msg'.status = "rejected"
    BY <1>1, <2>1 DEF Moderation!Statuses
  <2> QED
    BY <1>1, <1>6, <2>1, <2>2
<1>17. ASSUME NEW m \in Moderators, Moderation!SendToOutput(m) PROVE Moderation!IInv'
  <2>1. /\ job[m].step = "output" /\ Moderation!Done(m) /\ msg' = [msg EXCEPT !.status = "sent_to_output"]
        /\ UNCHANGED approved /\ onScreen' \in {onScreen, onScreen \cup {msg.content}}
    BY <1>17 DEF Moderation!SendToOutput
  <2>2. msg' \in Msg /\ msg'.content = msg.content /\ msg'.status = "sent_to_output"
    BY <1>1, <2>1 DEF Moderation!Statuses
  <2>3. \A q \in People : job'[q].step = "approve" => job'[q].content <= msg'.content
    BY <1>1, <1>4, <2>1, <2>2
  <2>4. onScreen' \subseteq Nat /\ \A c \in onScreen' : Old(c)
    BY <1>1, <2>1
  <2> QED
    BY <1>1, <1>2, <1>4, <2>1, <2>2, <2>3, <2>4
<1>18. ASSUME NEW m \in Moderators, Moderation!DeleteMessage(m) PROVE Moderation!IInv'
  <2>1. Moderation!Done(m) /\ msg' = [msg EXCEPT !.isDeleted = TRUE] /\ UNCHANGED <<approved, onScreen>>
    BY <1>18 DEF Moderation!DeleteMessage
  <2>2. msg' \in Msg /\ msg'.content = msg.content /\ msg'.status = msg.status
    BY <1>1, <2>1
  <2> QED
    BY <1>1, <1>6, <2>1, <2>2
<1> QED
  BY <1>10, <1>11, <1>12, <1>13, <1>14, <1>15, <1>16, <1>17, <1>18 DEF Moderation!Next

-----------------------------------------------------------------------------
(* Access.                                                                    *)

\* A step taken off what an administrator's request has left is one less to do, and a change
\* of the account is followed by the deletion of its cache entry.
LEMMA OneStepLess ==
  ASSUME NEW s \in Access!Remaining, s # <<>>
  PROVE  /\ Tail(s) \in Access!Remaining
         /\ \A d \in {"dropProfile", "dropStatus"} :
               (\E i \in DOMAIN s : s[i] = d) /\ Head(s) # d => \E i \in DOMAIN Tail(s) : Tail(s)[i] = d
         /\ Head(s) \in {"blocked", "open"} => \E i \in DOMAIN Tail(s) : Tail(s)[i] = "dropProfile"
         /\ Head(s) \in {"active", "inactive"} /\ Len(s) # 1 => \E i \in DOMAIN Tail(s) : Tail(s)[i] = "dropStatus"
<1> DEFINE P(t) == \E i \in DOMAIN t : t[i] = "dropProfile"
           S(t) == \E i \in DOMAIN t : t[i] = "dropStatus"
           R == Access!Remaining
           Fine(t) == /\ Tail(t) \in R
                      /\ P(t) /\ Head(t) # "dropProfile" => P(Tail(t))
                      /\ S(t) /\ Head(t) # "dropStatus" => S(Tail(t))
                      /\ Head(t) \in {"blocked", "open"} => P(Tail(t))
                      /\ Head(t) \in {"active", "inactive"} /\ Len(t) # 1 => S(Tail(t))
<1>1. Fine(<<"dropProfile">>)
  BY DEF Access!Remaining
<1>2. Fine(<<"active">>)
  BY DEF Access!Remaining
<1>3. Fine(<<"dropStatus">>)
  BY DEF Access!Remaining
<1>4. ASSUME NEW x \in {"inactive"} PROVE Fine(<<x, "dropStatus">>)
  <2>1. Tail(<<x, "dropStatus">>) = <<"dropStatus">>
    OBVIOUS
  <2> QED
    BY <2>1 DEF Access!Remaining
<1>5. Fine(<<"dropStatus", "dropProfile">>)
  <2>1. Tail(<<"dropStatus", "dropProfile">>) = <<"dropProfile">>
    OBVIOUS
  <2> QED
    BY <2>1 DEF Access!Remaining, Access!UpdateProfile
<1>6. ASSUME NEW x \in {"inactive", "active"} PROVE Fine(<<x, "dropStatus", "dropProfile">>)
  <2>1. Tail(<<x, "dropStatus", "dropProfile">>) = <<"dropStatus", "dropProfile">>
    OBVIOUS
  <2> QED
    BY <2>1 DEF Access!Remaining
<1>7. Fine(<<"blocked", "inactive", "dropStatus", "dropProfile">>)
  <2>1. Tail(<<"blocked", "inactive", "dropStatus", "dropProfile">>) = <<"inactive", "dropStatus", "dropProfile">>
    OBVIOUS
  <2> QED
    BY <2>1 DEF Access!Remaining
<1>8. Fine(<<"open", "active", "dropStatus", "dropProfile">>)
  <2>1. Tail(<<"open", "active", "dropStatus", "dropProfile">>) = <<"active", "dropStatus", "dropProfile">>
    OBVIOUS
  <2> QED
    BY <2>1 DEF Access!Remaining
<1>9. \/ s = <<"dropProfile">> \/ s = <<"active">> \/ s = <<"dropStatus">> \/ s = <<"inactive", "dropStatus">>
      \/ s = <<"dropStatus", "dropProfile">> \/ s = <<"inactive", "dropStatus", "dropProfile">>
      \/ s = <<"active", "dropStatus", "dropProfile">> \/ s = <<"blocked", "inactive", "dropStatus", "dropProfile">>
      \/ s = <<"open", "active", "dropStatus", "dropProfile">>
  BY DEF Access!Remaining, Access!DeactivateUser, Access!ReactivateUser, Access!DeactivatePartner,
     Access!ReactivatePartner, Access!UpdateProfile
<1>10. Fine(s)
  <2> HIDE DEF Fine
  <2> QED
    BY <1>1, <1>2, <1>3, <1>4, <1>5, <1>6, <1>7, <1>8, <1>9
<1> QED
  BY <1>10

\* Nothing is cached, and nothing under way.
LEMMA AccessAtFirst == Access!Init => Access!IInv
<1> SUFFICES ASSUME Access!Init PROVE Access!IInv
  OBVIOUS
<1>1. v5 = [r \in Guests |-> Access!Idle]
  BY DEF Access!Init
<1>2. \A r \in Guests : v5[r] = Access!Idle
  BY <1>1
<1>3. v6 \in [Admins -> Access!Remaining]
  BY DEF Access!Init, Access!Remaining
<1> QED
  BY <1>1, <1>2, <1>3 DEF Access!Init, Access!IInv, Access!Idle

LEMMA AccessKept == Access!IInv /\ Access!Next => Access!IInv'
<1> DEFINE profile == v1  status == v2  cachedProfile == v3  cachedStatus == v4  request == v5
           admin == v6  excused == v7
           Request == [pc : {"idle", "profile", "status", "readStatus", "fillStatus", "admitted", "refused"},
                       status : {"none", "active", "inactive"}, fill : {"none", "open", "blocked"}]
<1> SUFFICES ASSUME Access!IInv, Access!Next PROVE Access!IInv'
  OBVIOUS
<1>1. /\ profile \in {"open", "blocked"} /\ status \in {"active", "inactive"}
      /\ request \in [Guests -> Request]
      /\ admin \in [Admins -> Access!Remaining]
      /\ cachedProfile \in {profile, "none"} \/ "profile" \in excused \/ \E a \in Admins : Access!WillDo(a, "dropProfile")
      /\ cachedStatus \in {status, "none"} \/ "status" \in excused \/ \E a \in Admins : Access!WillDo(a, "dropStatus")
      /\ \A r \in Guests : request[r].fill \in {profile, "none"} \/ "profile" \in excused
      /\ \A r \in Guests : request[r].pc = "fillStatus" => request[r].status = status \/ "status" \in excused
  BY DEF Access!IInv
\* A step of a request: it keeps, drops or has just read what it will store, and stores only that.
<1>2. ASSUME NEW r \in Guests, NEW q \in Request, request' = [request EXCEPT ![r] = q],
             UNCHANGED <<profile, status, admin, excused>>,
             q.fill \in {request[r].fill, "none", profile},
             q.pc = "fillStatus" => q.status = status \/ (request[r].pc = "fillStatus" /\ q.status = request[r].status),
             cachedProfile' \in {cachedProfile, request[r].fill},
             cachedProfile' # cachedProfile => request[r].fill # "none",
             cachedStatus' \in {cachedStatus, request[r].status},
             cachedStatus' # cachedStatus => request[r].pc = "fillStatus"
      PROVE  Access!IInv'
  <2>1. /\ request' \in [Guests -> Request]
        /\ \A x \in Guests : request'[x] = IF x = r THEN q ELSE request[x]
    BY <1>1, <1>2
  <2>2. \A a \in Admins : \A d : Access!WillDo(a, d)' <=> Access!WillDo(a, d)
    BY <1>2 DEF Access!WillDo
  <2>3. (cachedProfile \in {profile, "none"} \/ "profile" \in excused \/ \E a \in Admins : Access!WillDo(a, "dropProfile"))'
    BY <1>1, <1>2, <2>2
  <2>4. (cachedStatus \in {status, "none"} \/ "status" \in excused \/ \E a \in Admins : Access!WillDo(a, "dropStatus"))'
    BY <1>1, <1>2, <2>2
  <2>5. (\A x \in Guests : request[x].fill \in {profile, "none"} \/ "profile" \in excused)'
    BY <1>1, <1>2, <2>1
  <2>6. (\A x \in Guests : request[x].pc = "fillStatus" => request[x].status = status \/ "status" \in excused)'
    BY <1>1, <1>2, <2>1
  <2>7. profile' \in {"open", "blocked"} /\ status' \in {"active", "inactive"} /\ admin' \in [Admins -> Access!Remaining]
    BY <1>1, <1>2
  <2> HIDE DEF Request
  <2> QED
    BY <2>1, <2>3, <2>4, <2>5, <2>6, <2>7 DEF Access!IInv, Request
<1>3. ASSUME NEW r \in Guests,
             \/ Access!ProfileHit(r) \/ Access!ProfileMiss(r) \/ Access!FillProfile(r) \/ Access!RequestStep(r)
      PROVE  Access!IInv'
  <2>1. request[r] \in Request
    BY <1>1
  <2>2. CASE Access!ProfileHit(r)
    <3>1. PICK q : q = [request[r] EXCEPT !.pc = Access!Verdict(cachedProfile), !.fill = "none"]
      OBVIOUS
    <3>2. q \in Request /\ q.fill = "none" /\ q.pc # "fillStatus"
      BY <2>1, <3>1 DEF Access!Verdict
    <3> QED
      BY <1>2, <2>2, <3>1, <3>2 DEF Access!ProfileHit, Access!Fills, Access!cache, Access!db
  <2>3. CASE Access!ProfileMiss(r)
    <3>1. PICK q : q = [request[r] EXCEPT !.pc = "profile"]
      OBVIOUS
    <3>2. q \in Request /\ q.fill = request[r].fill /\ q.pc # "fillStatus"
      BY <2>1, <3>1
    <3> QED
      BY <1>2, <2>3, <3>1, <3>2 DEF Access!ProfileMiss, Access!To, Access!cache, Access!db
  <2>4. CASE Access!FillProfile(r)
    <3>1. PICK q : q = [request[r] EXCEPT !.fill = "none"]
      OBVIOUS
    <3>2. q \in Request /\ q.fill = "none" /\ q.pc = request[r].pc /\ q.status = request[r].status
      BY <2>1, <3>1
    <3> QED
      BY <1>2, <2>4, <3>1, <3>2 DEF Access!FillProfile, Access!db
  <2>5. CASE Access!ReadProfile(r)
    <3>1. PICK q : q = [request[r] EXCEPT !.pc = Access!Verdict(profile), !.fill = profile]
      OBVIOUS
    <3>2. q \in Request /\ q.fill = profile /\ q.pc # "fillStatus"
      BY <1>1, <2>1, <3>1 DEF Access!Verdict
    <3> QED
      BY <1>2, <2>5, <3>1, <3>2 DEF Access!ReadProfile, Access!cache, Access!db
  <2>6. CASE Access!StatusHit(r) \/ Access!StatusMiss(r) \/ Access!Answer(r)
    <3>1. PICK pc \in {"admitted", "refused", "readStatus", "idle"} : Access!To(r, pc)
      BY <2>6 DEF Access!StatusHit, Access!StatusMiss, Access!Answer, Access!Decision
    <3>2. PICK q : q = [request[r] EXCEPT !.pc = pc]
      OBVIOUS
    <3>3. q \in Request /\ q.fill = request[r].fill /\ q.pc # "fillStatus"
      BY <2>1, <3>2
    <3> QED
      BY <1>2, <2>6, <3>1, <3>2, <3>3 DEF Access!StatusHit, Access!StatusMiss, Access!Answer, Access!To, Access!cache, Access!db
  <2>7. CASE Access!ReadStatus(r)
    <3>1. PICK q : q = [request[r] EXCEPT !.pc = "fillStatus", !.status = status]
      OBVIOUS
    <3>2. q \in Request /\ q.fill = request[r].fill /\ q.status = status
      BY <1>1, <2>1, <3>1
    <3>3. request' = [request EXCEPT ![r] = q] /\ UNCHANGED <<profile, status, cachedProfile, cachedStatus, admin, excused>>
      BY <2>7, <3>1 DEF Access!ReadStatus, Access!cache, Access!db
    <3> HIDE DEF Request
    <3> QED
      BY <1>2, <3>2, <3>3
  <2>8. CASE Access!FillStatus(r)
    <3>1. PICK q : q = [request[r] EXCEPT !.pc = Access!Decision(request[r].status), !.status = "none"]
      OBVIOUS
    <3>2. q \in Request /\ q.fill = request[r].fill /\ q.pc # "fillStatus"
      BY <2>1, <3>1 DEF Access!Decision
    <3> QED
      BY <1>2, <2>8, <3>1, <3>2 DEF Access!FillStatus, Access!db
  <2> QED
    BY <1>3, <2>2, <2>3, <2>4, <2>5, <2>6, <2>7, <2>8 DEF Access!RequestStep
\* An entry expires; it is excused no longer unless somebody is about to store it.
<1>4. CASE Access!ProfileExpires
  <2>1. /\ cachedProfile' = "none" /\ UNCHANGED <<profile, status, cachedStatus, request, admin>>
        /\ "status" \in excused' <=> "status" \in excused
        /\ "profile" \in excused => "profile" \in excused' \/ \A r \in Guests : request[r].fill = "none"
    BY <1>4 DEF Access!ProfileExpires, Access!db, Access!HoldsProfile
  <2>2. \A a \in Admins : Access!WillDo(a, "dropStatus")' <=> Access!WillDo(a, "dropStatus")
    BY <2>1 DEF Access!WillDo
  <2> QED
    BY <1>1, <2>1, <2>2 DEF Access!IInv
<1>5. CASE Access!StatusExpires
  <2>1. /\ cachedStatus' = "none" /\ UNCHANGED <<profile, status, cachedProfile, request, admin>>
        /\ "profile" \in excused' <=> "profile" \in excused
        /\ "status" \in excused => "status" \in excused' \/ \A r \in Guests : request[r].pc # "fillStatus"
    BY <1>5 DEF Access!StatusExpires, Access!db, Access!HoldsStatus
  <2>2. \A a \in Admins : Access!WillDo(a, "dropProfile")' <=> Access!WillDo(a, "dropProfile")
    BY <2>1 DEF Access!WillDo
  <2> QED
    BY <1>1, <2>1, <2>2 DEF Access!IInv
<1>6. ASSUME NEW a \in Admins,
             NEW op \in {Access!DeactivateUser, Access!ReactivateUser, Access!DeactivatePartner,
                         Access!ReactivatePartner, Access!UpdateProfile},
             Access!Start(a, op)
      PROVE  Access!IInv'
  <2>1. /\ admin[a] = <<>> /\ admin' = [admin EXCEPT ![a] = op]
        /\ UNCHANGED <<profile, status, cachedProfile, cachedStatus, request, excused>>
    BY <1>6 DEF Access!Start, Access!db, Access!cache
  <2>2. op \in Access!Remaining
    BY <1>6 DEF Access!Remaining
  <2>3. admin' \in [Admins -> Access!Remaining]
    BY <1>1, <2>1, <2>2
  <2>4. \A b \in Admins : \A d : Access!WillDo(b, d) => Access!WillDo(b, d)'
    BY <1>1, <2>1 DEF Access!WillDo
  <2> QED
    BY <1>1, <2>1, <2>3, <2>4 DEF Access!IInv
\* A step of an administrator's request: others have left what they had.
<1>7. ASSUME NEW a \in Admins, NEW step, Access!Does(a, step)
      PROVE  /\ admin' \in [Admins -> Access!Remaining]
             /\ \A b \in Admins : \A d \in {"dropProfile", "dropStatus"} :
                   Access!WillDo(b, d) /\ step # d => Access!WillDo(b, d)'
             /\ step \in {"blocked", "open"} => Access!WillDo(a, "dropProfile")'
             /\ step \in {"active", "inactive"} /\ Len(admin[a]) # 1 => Access!WillDo(a, "dropStatus")'
  <2>1. admin[a] \in Access!Remaining /\ admin[a] # <<>> /\ Head(admin[a]) = step
    BY <1>1, <1>7 DEF Access!Does
  <2>2. admin' = [admin EXCEPT ![a] = Tail(admin[a])]
    BY <1>7 DEF Access!Does
  <2>3. /\ Tail(admin[a]) \in Access!Remaining
        /\ \A d \in {"dropProfile", "dropStatus"} :
               (\E i \in DOMAIN admin[a] : admin[a][i] = d) /\ step # d => \E i \in DOMAIN Tail(admin[a]) : Tail(admin[a])[i] = d
        /\ step \in {"blocked", "open"} => \E i \in DOMAIN Tail(admin[a]) : Tail(admin[a])[i] = "dropProfile"
        /\ step \in {"active", "inactive"} /\ Len(admin[a]) # 1 => \E i \in DOMAIN Tail(admin[a]) : Tail(admin[a])[i] = "dropStatus"
    BY <2>1, OneStepLess
  <2>4. /\ admin' \in [Admins -> Access!Remaining]
        /\ \A b \in Admins : admin'[b] = IF b = a THEN Tail(admin[a]) ELSE admin[b]
    BY <1>1, <2>2, <2>3
  <2> QED
    BY <2>3, <2>4 DEF Access!WillDo
<1>8. ASSUME NEW a \in Admins, NEW p \in {"blocked", "open"}, Access!SetProfile(a, p) PROVE Access!IInv'
  <2>1. /\ Access!Does(a, p) /\ profile' = p /\ UNCHANGED <<status, cachedProfile, cachedStatus, request>>
        /\ "status" \in excused' <=> "status" \in excused
        /\ "profile" \in excused => "profile" \in excused'
        /\ "profile" \in excused' \/ \A r \in Guests : request[r].fill = "none"
    BY <1>8 DEF Access!SetProfile, Access!cache, Access!HoldsProfile
  <2>2. /\ admin' \in [Admins -> Access!Remaining] /\ Access!WillDo(a, "dropProfile")'
        /\ \A b \in Admins : Access!WillDo(b, "dropStatus") => Access!WillDo(b, "dropStatus")'
    BY <1>7, <2>1
  <2> QED
    BY <1>1, <2>1, <2>2 DEF Access!IInv
<1>9. ASSUME NEW a \in Admins, NEW s \in {"active", "inactive"}, Access!SetStatus(a, s) PROVE Access!IInv'
  <2>1. /\ Access!Does(a, s) /\ status' = s /\ UNCHANGED <<profile, cachedProfile, cachedStatus, request>>
        /\ "profile" \in excused' <=> "profile" \in excused
        /\ "status" \in excused => "status" \in excused'
        /\ "status" \in excused' \/ (Len(admin[a]) # 1 /\ \A r \in Guests : request[r].pc # "fillStatus")
    BY <1>9 DEF Access!SetStatus, Access!cache, Access!HoldsStatus
  <2>2. /\ admin' \in [Admins -> Access!Remaining]
        /\ "status" \in excused' \/ Access!WillDo(a, "dropStatus")'
        /\ \A b \in Admins : Access!WillDo(b, "dropProfile") => Access!WillDo(b, "dropProfile")'
    BY <1>7, <2>1
  <2> QED
    BY <1>1, <2>1, <2>2 DEF Access!IInv
<1>10. ASSUME NEW a \in Admins, Access!DropStatus(a) PROVE Access!IInv'
  <2>1. /\ Access!Does(a, "dropStatus") /\ UNCHANGED <<profile, status, cachedProfile, request>>
        /\ "profile" \in excused' <=> "profile" \in excused
        /\ "status" \in excused => "status" \in excused'
        /\ cachedStatus' = "none" \/ "status" \in excused'
    BY <1>10 DEF Access!DropStatus, Access!db
  <2>2. /\ admin' \in [Admins -> Access!Remaining]
        /\ \A b \in Admins : Access!WillDo(b, "dropProfile") => Access!WillDo(b, "dropProfile")'
    BY <1>7, <2>1
  <2> QED
    BY <1>1, <2>1, <2>2 DEF Access!IInv
<1>11. ASSUME NEW a \in Admins, Access!DropProfile(a) PROVE Access!IInv'
  <2>1. /\ Access!Does(a, "dropProfile") /\ UNCHANGED <<profile, status, cachedStatus, request>>
        /\ "status" \in excused' <=> "status" \in excused
        /\ "profile" \in excused => "profile" \in excused'
        /\ cachedProfile' = "none" \/ "profile" \in excused'
    BY <1>11 DEF Access!DropProfile, Access!db
  <2>2. /\ admin' \in [Admins -> Access!Remaining]
        /\ \A b \in Admins : Access!WillDo(b, "dropStatus") => Access!WillDo(b, "dropStatus")'
    BY <1>7, <2>1
  <2> QED
    BY <1>1, <2>1, <2>2 DEF Access!IInv
\* A restart cuts off what administrators' requests had left, and excuses it.
<1>12. CASE Access!Restart
  <2>1. /\ request' = [r \in Guests |-> Access!Idle] /\ admin' = [a \in Admins |-> <<>>]
        /\ UNCHANGED <<profile, status, cachedProfile, cachedStatus>>
        /\ \/ {"profile", "status"} \subseteq excused'
           \/ excused' = excused /\ \A a \in Admins : admin[a] = <<>>
    BY <1>12 DEF Access!Restart, Access!db, Access!cache
  <2>2. admin' \in [Admins -> Access!Remaining]
    BY <2>1 DEF Access!Remaining
  <2>3. Access!Idle \in Request /\ Access!Idle.fill = "none" /\ Access!Idle.pc = "idle"
    BY DEF Access!Idle
  <2>4. request' \in [Guests -> Request] /\ \A r \in Guests : request'[r] = Access!Idle
    BY <2>1, <2>3
  <2>5. (\A a \in Admins : admin[a] = <<>>) => \A a \in Admins : \A d : ~Access!WillDo(a, d)
    BY DEF Access!WillDo
  <2> HIDE DEF Request
  <2>6. \/ {"profile", "status"} \subseteq excused'
        \/ cachedProfile \in {profile, "none"} \/ "profile" \in excused
    BY <1>1, <2>1, <2>5
  <2>7. \/ {"profile", "status"} \subseteq excused'
        \/ cachedStatus \in {status, "none"} \/ "status" \in excused
    BY <1>1, <2>1, <2>5
  <2> QED
    BY <1>1, <2>1, <2>2, <2>3, <2>4, <2>6, <2>7 DEF Access!IInv, Request
<1> QED
  BY <1>3, <1>4, <1>5, <1>6, <1>8, <1>9, <1>10, <1>11, <1>12 DEF Access!Next

LEMMA AccessSafe == Access!IInv => Access!ChangesTakeEffect
  BY DEF Access!IInv, Access!ChangesTakeEffect, Access!WillDo

-----------------------------------------------------------------------------
(* RedisLink.                                                                 *)

LEMMA RedisLinkAtFirst == RedisLink!Init => RedisLink!IInv
  BY DEF RedisLink!Init, RedisLink!IInv, RedisLink!KnowsItsState, RedisLink!isOpen

\* With its state kept the connection was not given up; see RedisIsNeverGivenUp.
LEMMA RedisLinkKept ==
  RedisLink!IInv /\ RedisLink!Next => RedisLink!IInv' /\ RedisLink!GivesUpOnlyAtFirst
<1> DEFINE client == v2  isConnected == v4  hasConnectedOnce == v5  connectionPromise == v6  caller == v8
           States == {"idle", "awaits", "command"}
<1> SUFFICES ASSUME RedisLink!IInv, RedisLink!Next PROVE RedisLink!IInv' /\ RedisLink!GivesUpOnlyAtFirst
  OBVIOUS
<1>1. /\ caller \in [Callers -> States]
      /\ client \in {"closed", "connecting", "greeting", "ready"}
      /\ hasConnectedOnce \in BOOLEAN /\ connectionPromise \in BOOLEAN
      /\ hasConnectedOnce => client # "closed"
      /\ client = "ready" => ~connectionPromise
      /\ isConnected <=> client \in {"greeting", "ready"}
      /\ \A c \in Callers : caller[c] = "awaits" => connectionPromise
      /\ connectionPromise => client # "closed"
  BY DEF RedisLink!IInv, RedisLink!KnowsItsState, RedisLink!isOpen
\* The promise's callers are told, or they go on waiting for it.
<1>2. ASSUME NEW s \in States, NEW kept, RedisLink!Told(s, kept)
      PROVE  /\ caller' \in [Callers -> States]
             /\ \A c \in Callers : caller'[c] = "awaits" => s = "awaits" /\ caller[c] = "awaits"
  BY <1>1, <1>2 DEF RedisLink!Told
<1>3. ASSUME NEW c \in Callers, NEW s \in States, RedisLink!Gets(c, s)
      PROVE  /\ caller' \in [Callers -> States]
             /\ \A d \in Callers : caller'[d] = "awaits" => caller[d] = "awaits" \/ s = "awaits"
  BY <1>1, <1>3 DEF RedisLink!Gets
<1>4. ASSUME /\ caller' \in [Callers -> States]
             /\ client' \in {"closed", "connecting", "greeting", "ready"}
             /\ hasConnectedOnce' \in BOOLEAN /\ connectionPromise' \in BOOLEAN
             /\ hasConnectedOnce' => client' # "closed"
             /\ hasConnectedOnce => client' # "closed"
             /\ client' = "ready" => ~connectionPromise'
             /\ isConnected' <=> client' \in {"greeting", "ready"}
             /\ \A c \in Callers : caller'[c] = "awaits" => connectionPromise'
             /\ connectionPromise' => client' # "closed"
      PROVE  RedisLink!IInv' /\ RedisLink!GivesUpOnlyAtFirst
  BY <1>4 DEF RedisLink!IInv, RedisLink!KnowsItsState, RedisLink!isOpen, RedisLink!GivesUpOnlyAtFirst
<1>5. ASSUME NEW c \in Callers, RedisLink!GiveCommand(c) \/ RedisLink!Served(c)
      PROVE  RedisLink!IInv' /\ RedisLink!GivesUpOnlyAtFirst
  BY <1>1, <1>3, <1>4, <1>5 DEF RedisLink!GiveCommand, RedisLink!Served
<1>6. ASSUME NEW c \in Callers, RedisLink!AwaitConnection(c)
      PROVE  RedisLink!IInv' /\ RedisLink!GivesUpOnlyAtFirst
  BY <1>1, <1>3, <1>4, <1>6 DEF RedisLink!AwaitConnection
<1>7. ASSUME NEW c \in Callers, RedisLink!StartConnection(c)
      PROVE  RedisLink!IInv' /\ RedisLink!GivesUpOnlyAtFirst
  BY <1>1, <1>3, <1>4, <1>7 DEF RedisLink!StartConnection
<1>8. CASE RedisLink!CooldownEnds \/ RedisLink!GoesDown \/ RedisLink!ComesBack
  BY <1>1, <1>4, <1>8 DEF RedisLink!CooldownEnds, RedisLink!GoesDown, RedisLink!ComesBack
<1>9. CASE RedisLink!Connects
  BY <1>1, <1>4, <1>9 DEF RedisLink!Connects
<1>10. CASE RedisLink!Ready
  BY <1>1, <1>2, <1>4, <1>10 DEF RedisLink!Ready
<1>11. CASE RedisLink!Fails
  <2>1. CASE RedisLink!GivesUp
    BY <1>1, <1>2, <1>4, <1>11, <2>1 DEF RedisLink!Fails, RedisLink!GivesUp
  <2>2. CASE ~RedisLink!GivesUp
    BY <1>1, <1>4, <1>11, <2>2 DEF RedisLink!Fails
  <2> QED
    BY <2>1, <2>2
<1>12. CASE RedisLink!Drops
  <2>1. PICK kept : RedisLink!Told("awaits", kept)
    BY <1>12 DEF RedisLink!Drops
  <2> QED
    BY <1>1, <1>2, <1>4, <1>12, <2>1 DEF RedisLink!Drops, RedisLink!Disconnected
<1> QED
  BY <1>5, <1>6, <1>7, <1>8, <1>9, <1>10, <1>11, <1>12 DEF RedisLink!Next, RedisLink!Ask, RedisLink!ClientStep

-----------------------------------------------------------------------------
(* Uploads.                                                                   *)

\* An instance has operators of its own for those of FiniteSets.
LEMMA SameOperators ==
  /\ \A T : Uploads!Cardinality(T) = Cardinality(T)
  /\ \A T : Uploads!IsFiniteSet(T) = IsFiniteSet(T)
<1>1. \A T : Uploads!Cardinality(T) = Cardinality(T)
  BY DEF Uploads!Cardinality, Cardinality
<1>2. \A T : Uploads!IsFiniteSet(T) = IsFiniteSet(T)
  BY DEF Uploads!IsFiniteSet, IsFiniteSet
<1> QED
  BY <1>1, <1>2

\* Nobody is at work, and nothing was passed yet.
LEMMA UploadsAtFirst == Uploads!UploadsAssumption /\ Uploads!Init => Uploads!IInv
<1> SUFFICES ASSUME Uploads!UploadsAssumption, Uploads!Init PROVE Uploads!IInv
  OBVIOUS
<1> DEFINE step == v1  at == v2  body == v3  waitingJobs == v6
<1>1. /\ step = [r \in Requests |-> "idle"] /\ at = [r \in Requests |-> 1]
      /\ body = [r \in Requests |-> [f \in Uploads!Fields |-> Uploads!NoFile]]
      /\ v4 = {} /\ v5 = 0 /\ waitingJobs = <<>> /\ v7 = {} /\ v8 = {}
  BY DEF Uploads!Init
<1>2. \A r \in Requests : step[r] = "idle" /\ at[r] = 1
  BY <1>1
<1>3. body \in [Requests -> [Uploads!Fields -> Uploads!Forms \cup {Uploads!NoFile}]]
  BY <1>1
<1>4. {r \in Requests : step[r] \in Uploads!InSlot} = {} /\ {r \in Requests : step[r] = "waiting"} = {}
  BY <1>2 DEF Uploads!InSlot
<1>5. IsFiniteSet({}) /\ Cardinality({}) = 0
  BY FS_EmptySet
<1>6. MAX_CONCURRENT_JOBS \in Nat \ {0} /\ \A r \in Requests : FilesOf[r] \in Seq(Uploads!Fields)
  BY DEF Uploads!UploadsAssumption
<1>7. Uploads!SlotsAreHeld
  <2>1. {waitingJobs[i] : i \in DOMAIN waitingJobs} = {}
    BY <1>1
  <2>2. v5 = 0 /\ waitingJobs = <<>>
    BY <1>1
  <2>3. Uploads!Cardinality({r \in Requests : step[r] \in Uploads!InSlot}) = 0
    BY <1>4, <1>5, SameOperators
  <2> QED
    BY <1>4, <1>6, <2>1, <2>2, <2>3 DEF Uploads!SlotsAreHeld
<1>8. Uploads!WaitsOnce /\ waitingJobs \in Seq(Requests)
  BY <1>1 DEF Uploads!WaitsOnce
<1>9. step \in [Requests -> Uploads!Steps \cup Uploads!Ends] /\ at \in [Requests -> Nat]
  BY <1>1 DEF Uploads!Steps
<1>10. Uploads!IsAtAFile /\ Uploads!PassedAreStored /\ Uploads!GoesOnWithItsFiles
  <2>1. \A r \in Requests : \A i \in DOMAIN FilesOf[r] : i >= 1
    BY <1>6
  <2>2. \A r \in Requests : \A i \in DOMAIN FilesOf[r] : ~(i < 1)
    BY <1>6
  <2> QED
    BY <1>2, <2>2 DEF Uploads!IsAtAFile, Uploads!PassedAreStored, Uploads!GoesOnWithItsFiles
<1>11. Uploads!DirsGo
  BY <1>1 DEF Uploads!DirsGo
<1> QED
  BY <1>3, <1>4, <1>5, <1>7, <1>8, <1>9, <1>10, <1>11, SameOperators DEF Uploads!IInv, Uploads!UploadsAreWhole

LEMMA UploadsKept == Uploads!UploadsAssumption /\ Uploads!IInv /\ Uploads!Next => Uploads!IInv'
<1> DEFINE step == v1  at == v2  body == v3  store == v4  runningJobs == v5  waitingJobs == v6
           dirs == v7  left == v8
           Fields == Uploads!Fields  Forms == Uploads!Forms  InSlot == Uploads!InSlot
           All == Uploads!Steps \cup Uploads!Ends
           Body == [Fields -> Forms \cup {Uploads!NoFile}]
           Held == {r \in Requests : step[r] \in InSlot}
           Wait == {r \in Requests : step[r] = "waiting"}
           Queue == {waitingJobs[i] : i \in DOMAIN waitingJobs}
           Taken == /\ step \in [Requests -> All]
                    /\ waitingJobs \in Seq(Requests) /\ Uploads!WaitsOnce
                    /\ IsFiniteSet(Held) /\ Uploads!SlotsAreHeld
           Stored == /\ at \in [Requests -> Nat] /\ body \in [Requests -> Body]
                     /\ Uploads!IsAtAFile /\ Uploads!PassedAreStored
<1> SUFFICES ASSUME Uploads!UploadsAssumption, Uploads!IInv, Uploads!Next PROVE Uploads!IInv'
  OBVIOUS
<1>1. /\ MAX_CONCURRENT_JOBS \in Nat \ {0}
      /\ \A r \in Requests : /\ Len(FilesOf[r]) \in Nat /\ DOMAIN FilesOf[r] = 1 .. Len(FilesOf[r])
                             /\ \A i \in DOMAIN FilesOf[r] : FilesOf[r][i] \in Fields
  BY DEF Uploads!UploadsAssumption
<1>2. Taken /\ Stored /\ Uploads!DirsGo
  BY SameOperators DEF Uploads!IInv, Uploads!UploadsAreWhole
<1>20. Uploads!SlotsAreHeld <=> /\ runningJobs = Cardinality(Held) /\ runningJobs <= MAX_CONCURRENT_JOBS
                                /\ waitingJobs # <<>> => runningJobs = MAX_CONCURRENT_JOBS
                                /\ Queue = Wait
  BY SameOperators DEF Uploads!SlotsAreHeld
<1>21. (Uploads!SlotsAreHeld <=> /\ runningJobs = Cardinality(Held) /\ runningJobs <= MAX_CONCURRENT_JOBS
                                 /\ waitingJobs # <<>> => runningJobs = MAX_CONCURRENT_JOBS
                                 /\ Queue = Wait)'
  BY SameOperators DEF Uploads!SlotsAreHeld
<1>22. Taken <=> /\ step \in [Requests -> All] /\ waitingJobs \in Seq(Requests) /\ Uploads!WaitsOnce
                 /\ IsFiniteSet(Held) /\ Uploads!SlotsAreHeld
  OBVIOUS
<1>23. Taken' <=> /\ step' \in [Requests -> All] /\ waitingJobs' \in Seq(Requests) /\ Uploads!WaitsOnce'
                  /\ IsFiniteSet(Held') /\ Uploads!SlotsAreHeld'
  OBVIOUS
\* What goes on has passed all its files.
<1>24. ASSUME (at \in [Requests -> Nat])', Uploads!IsAtAFile', Uploads!PassedAreStored'
       PROVE  Uploads!GoesOnWithItsFiles'
  <2>1. \A r \in Requests : step'[r] = "goes on" => at'[r] > Len(FilesOf[r])
    BY <1>24 DEF Uploads!IsAtAFile
  <2>2. ASSUME NEW r \in Requests, at'[r] > Len(FilesOf[r]), NEW i \in DOMAIN FilesOf[r]
        PROVE  <<r, FilesOf[r][i], body'[r][FilesOf[r][i]]>> \in store'
    <3>1. at'[r] \in Nat
      BY <1>24
    <3>2. i < at'[r]
      BY <1>1, <2>2, <3>1
    <3> QED
      BY <1>24, <3>2 DEF Uploads!PassedAreStored
  <2> QED
    BY <2>1, <2>2 DEF Uploads!GoesOnWithItsFiles
<1>3. Stored' /\ Taken' /\ Uploads!DirsGo' => Uploads!IInv'
  BY <1>24, SameOperators DEF Uploads!IInv, Uploads!UploadsAreWhole
<1> HIDE DEF Held, Wait, Queue, Taken
\* A move of a request that neither takes nor leaves a slot or the queue.
<1>4. ASSUME NEW r \in Requests, NEW s \in All, step' = [step EXCEPT ![r] = s], UNCHANGED <<runningJobs, waitingJobs>>,
             step[r] \in InSlot <=> s \in InSlot, step[r] # "waiting", s # "waiting"
      PROVE  Taken'
  <2>1. step' \in [Requests -> All] /\ \A q \in Requests : step'[q] = IF q = r THEN s ELSE step[q]
    BY <1>2, <1>4, <1>22
  <2>2. Held' = Held /\ Wait' = Wait
    BY <1>4, <2>1 DEF Held, Wait
  <2>3. Queue' = Queue /\ (Uploads!WaitsOnce' <=> Uploads!WaitsOnce)
    BY <1>4 DEF Queue, Uploads!WaitsOnce
  <2> QED
    BY <1>2, <1>4, <1>20, <1>21, <1>22, <1>23, <2>1, <2>2, <2>3
\* A slot is given back, or to who waits longest.
<1>5. ASSUME NEW r \in Requests, step[r] \in InSlot, NEW s \in All, s \notin InSlot, s # "waiting", Uploads!Release(r, s)
      PROVE  /\ Taken'
             /\ step'[r] = s
             /\ \A q \in Requests \ {r} : step'[q] = step[q] \/ (step[q] = "waiting" /\ step'[q] = "probe")
  <2>1. /\ runningJobs = Cardinality(Held) /\ runningJobs <= MAX_CONCURRENT_JOBS
        /\ waitingJobs # <<>> => runningJobs = MAX_CONCURRENT_JOBS
        /\ Queue = Wait
    BY <1>2, <1>20, <1>22
  <2>2. r \in Held /\ IsFiniteSet(Held)
    BY <1>2, <1>5, <1>22 DEF Held
  <2>3. /\ IsFiniteSet(Held \ {r}) /\ Cardinality(Held \ {r}) = Cardinality(Held) - 1
        /\ Cardinality(Held) \in Nat
    BY <2>2, FS_RemoveElement, FS_CardinalityType
  <2>4. CASE waitingJobs = <<>>
    <3>1. runningJobs' = runningJobs - 1 /\ step' = [step EXCEPT ![r] = s] /\ UNCHANGED waitingJobs
      BY <1>5, <2>4 DEF Uploads!Release
    <3>2. step' \in [Requests -> All] /\ \A q \in Requests : step'[q] = IF q = r THEN s ELSE step[q]
      BY <1>2, <1>5, <1>22, <3>1
    <3>3. Held' = Held \ {r} /\ Wait' = Wait
      BY <1>5, <3>2 DEF Uploads!InSlot, Held, Wait
    <3>4. Uploads!WaitsOnce'
      BY <2>4, <3>1 DEF Uploads!WaitsOnce
    <3>5. Uploads!SlotsAreHeld'
      <4>1. runningJobs' = Cardinality(Held') /\ runningJobs' <= MAX_CONCURRENT_JOBS
        BY <1>1, <2>1, <2>3, <3>1, <3>3
      <4>2. waitingJobs' = <<>> /\ Queue' = Wait'
        BY <2>1, <2>4, <3>1, <3>3 DEF Queue
      <4> QED
        BY <1>21, <4>1, <4>2
    <3> QED
      BY <1>2, <1>22, <1>23, <2>3, <3>1, <3>2, <3>3, <3>4, <3>5
  <2>5. CASE waitingJobs # <<>>
    <3> DEFINE w == Head(waitingJobs)
    <3>1. /\ waitingJobs' = Tail(waitingJobs) /\ step' = [step EXCEPT ![r] = s, ![w] = "probe"]
          /\ UNCHANGED runningJobs
      BY <1>5, <2>5 DEF Uploads!Release
    <3>2. /\ w \in Requests /\ w = waitingJobs[1] /\ 1 \in DOMAIN waitingJobs
          /\ Tail(waitingJobs) \in Seq(Requests) /\ DOMAIN waitingJobs = 1 .. Len(waitingJobs)
          /\ DOMAIN Tail(waitingJobs) = 1 .. Len(waitingJobs) - 1 /\ Len(waitingJobs) \in Nat
          /\ \A i \in DOMAIN Tail(waitingJobs) : Tail(waitingJobs)[i] = waitingJobs[i + 1] /\ i + 1 \in DOMAIN waitingJobs
      BY <1>2, <1>22, <2>5
    <3> HIDE DEF w
    <3>3. w \in Wait /\ w # r /\ w \notin Held
      <4>1. w \in Queue
        BY <3>2 DEF Queue
      <4> QED
        BY <1>5, <2>1, <4>1 DEF Uploads!InSlot, Held, Wait
    <3>4. /\ step' \in [Requests -> All]
          /\ \A q \in Requests : step'[q] = IF q = w THEN "probe" ELSE IF q = r THEN s ELSE step[q]
      <4>1. "probe" \in All
        BY DEF Uploads!Steps, Uploads!InSlot
      <4> QED
        BY <1>2, <1>5, <1>22, <3>1, <3>2, <3>3, <4>1
    <3>5. Held' = (Held \ {r}) \cup {w} /\ Wait' = Wait \ {w}
      BY <1>5, <3>2, <3>3, <3>4 DEF Uploads!InSlot, Held, Wait
    <3>6. IsFiniteSet(Held') /\ Cardinality(Held') = Cardinality(Held)
      <4>1. PICK H : H = Held \ {r}
        OBVIOUS
      <4>2. IsFiniteSet(H) /\ w \notin H /\ Cardinality(H) = Cardinality(Held) - 1
        BY <2>3, <3>3, <4>1
      <4>3. IsFiniteSet(H \cup {w}) /\ Cardinality(H \cup {w}) = Cardinality(H) + 1
        BY <4>2, FS_AddElement
      <4> QED
        BY <2>3, <3>5, <4>1, <4>2, <4>3
    <3>7. Queue' = Queue \ {w} /\ Uploads!WaitsOnce'
      <4>1. \A i, j \in DOMAIN waitingJobs : waitingJobs[i] = waitingJobs[j] => i = j
        BY <1>2, <1>22 DEF Uploads!WaitsOnce
      <4>2. \A i \in DOMAIN waitingJobs : i = 1 \/ (i - 1 \in DOMAIN Tail(waitingJobs) /\ Tail(waitingJobs)[i - 1] = waitingJobs[i])
        BY <3>2
      <4>3. \A i \in DOMAIN Tail(waitingJobs) : waitingJobs[i + 1] # w
        BY <3>2, <4>1
      <4>4. Queue' \subseteq Queue \ {w}
        BY <3>1, <3>2, <4>3 DEF Queue
      <4>5. Queue \ {w} \subseteq Queue'
        <5> SUFFICES ASSUME NEW i \in DOMAIN waitingJobs, waitingJobs[i] # w PROVE waitingJobs[i] \in Queue'
          BY DEF Queue
        <5>1. i - 1 \in DOMAIN waitingJobs' /\ waitingJobs'[i - 1] = waitingJobs[i]
          BY <3>1, <3>2, <4>2
        <5> QED
          BY <5>1 DEF Queue
      <4>6. Uploads!WaitsOnce'
        BY <3>1, <3>2, <4>1 DEF Uploads!WaitsOnce
      <4> QED
        BY <4>4, <4>5, <4>6
    <3>8. Uploads!SlotsAreHeld'
      <4>1. runningJobs' = Cardinality(Held') /\ runningJobs' = MAX_CONCURRENT_JOBS
        BY <2>1, <2>5, <3>1, <3>6
      <4>2. Queue' = Wait'
        BY <2>1, <3>5, <3>7
      <4> QED
        BY <1>1, <1>21, <4>1, <4>2
    <3>9. step'[r] = s /\ \A q \in Requests \ {r} : step'[q] = step[q] \/ (step[q] = "waiting" /\ step'[q] = "probe")
      BY <3>3, <3>4 DEF Wait
    <3> QED
      BY <1>23, <3>1, <3>2, <3>4, <3>6, <3>7, <3>8, <3>9
  <2> QED
    BY <2>4, <2>5
\* A step that leaves the files alone, and moves a request only within what it works on.
<1>6. ASSUME UNCHANGED <<at, body, store>>, step' \in [Requests -> All],
             \A q \in Requests :
                \/ step'[q] = step[q]
                \/ /\ at[q] <= Len(FilesOf[q])
                   /\ step'[q] # "goes on"
                \/ step'[q] \in {"idle", "file", "refused", "failed", "lost"}
                \/ step'[q] = "goes on" /\ at[q] > Len(FilesOf[q])
      PROVE  Stored'
  <2>1. Uploads!PassedAreStored' /\ at' \in [Requests -> Nat] /\ body' \in [Requests -> Body]
    BY <1>2, <1>6 DEF Uploads!PassedAreStored
  <2>2. Uploads!IsAtAFile'
    BY <1>2, <1>6 DEF Uploads!IsAtAFile, Uploads!Steps, Uploads!InSlot, Uploads!Forms
  <2> QED
    BY <2>1, <2>2
\* A step that leaves the directories alone, and no request with one forgets it.
<1>7. ASSUME UNCHANGED <<dirs, left>>,
             \A q \in Requests : step[q] \in InSlot \cup {"waiting", "clean"} => step'[q] \in InSlot \cup {"waiting", "clean"}
      PROVE  Uploads!DirsGo'
  BY <1>2, <1>7 DEF Uploads!DirsGo
<1>8. ASSUME NEW r \in Requests, NEW s, step' = [step EXCEPT ![r] = s]
      PROVE  \A q \in Requests : step'[q] = IF q = r THEN s ELSE step[q]
  BY <1>2, <1>8, <1>22
<1>9. \A r \in Requests : step[r] \in Uploads!Steps \ {"idle", "file"} => at[r] <= Len(FilesOf[r])
  BY <1>2 DEF Uploads!IsAtAFile
<1>10. ASSUME NEW r \in Requests, Uploads!Receive(r) PROVE Uploads!IInv'
  <2>1. PICK s \in {"file", "refused"} : step' = [step EXCEPT ![r] = s]
    BY <1>10 DEF Uploads!Receive, Uploads!Goes
  <2>2. step[r] = "idle" /\ UNCHANGED <<at, body, store, runningJobs, waitingJobs, dirs, left>>
    BY <1>10 DEF Uploads!Receive, Uploads!Files, Uploads!JobSlots, Uploads!Dirs
  <2>3. s \in All /\ s \notin InSlot /\ step[r] \notin InSlot
    BY <2>2 DEF Uploads!Steps, Uploads!Ends, Uploads!InSlot
  <2>4. Taken'
    BY <1>4, <2>1, <2>2, <2>3
  <2>5. Stored'
    BY <1>6, <1>8, <1>22, <1>23, <2>1, <2>2, <2>4
  <2>6. Uploads!DirsGo'
    BY <1>7, <1>8, <2>1, <2>2, <2>3
  <2> QED
    BY <1>3, <2>4, <2>5, <2>6
<1>11. ASSUME NEW r \in Requests, Uploads!TakeFile(r) PROVE Uploads!IInv'
  <2>1. PICK s \in {"goes on", "refused", "slot", "processed"} :
           /\ step' = [step EXCEPT ![r] = s]
           /\ IF s = "goes on" THEN at[r] > Len(FilesOf[r]) ELSE at[r] <= Len(FilesOf[r])
    BY <1>11 DEF Uploads!TakeFile, Uploads!Goes
  <2>2. step[r] = "file" /\ UNCHANGED <<at, body, store, runningJobs, waitingJobs, dirs, left>>
    BY <1>11 DEF Uploads!TakeFile, Uploads!Files, Uploads!JobSlots, Uploads!Dirs
  <2>3. s \in All /\ s \notin InSlot /\ step[r] \notin InSlot
    BY <2>2 DEF Uploads!Steps, Uploads!Ends, Uploads!InSlot
  <2>4. Taken'
    BY <1>4, <2>1, <2>2, <2>3
  <2>5. Stored'
    BY <1>6, <1>8, <1>22, <1>23, <2>1, <2>2, <2>4
  <2>6. Uploads!DirsGo'
    BY <1>7, <1>8, <2>1, <2>2, <2>3
  <2> QED
    BY <1>3, <2>4, <2>5, <2>6
<1>12. ASSUME NEW r \in Requests, Uploads!Upload(r) PROVE Uploads!IInv'
  <2> DEFINE form == step[r]  f == FilesOf[r][at[r]]
  <2>1. form \in Forms /\ Uploads!Put(r, form) /\ UNCHANGED <<runningJobs, waitingJobs, dirs, left>>
    BY <1>12 DEF Uploads!Upload, Uploads!JobSlots, Uploads!Dirs
  <2>2. at[r] \in Nat /\ at[r] <= Len(FilesOf[r])
    BY <1>2, <1>9, <2>1 DEF Uploads!Forms, Uploads!Steps
  <2>3. step[r] \notin InSlot \cup {"waiting", "clean"}
    BY <2>1 DEF Uploads!Forms, Uploads!InSlot
  <2>4. CASE /\ store' = store \cup {<<r, f, form>>}
             /\ body' = [body EXCEPT ![r][f] = form]
             /\ at' = [at EXCEPT ![r] = @ + 1]
             /\ step' = [step EXCEPT ![r] = "file"]
    <3>1. Taken'
      <4>1. "file" \in All /\ "file" \notin InSlot
        BY DEF Uploads!Steps, Uploads!InSlot
      <4> QED
        BY <1>4, <2>1, <2>3, <2>4, <4>1
    <3>2. Uploads!DirsGo'
      BY <1>7, <1>8, <2>1, <2>3, <2>4
    <3>3. at' \in [Requests -> Nat] /\ \A q \in Requests : at'[q] = IF q = r THEN at[r] + 1 ELSE at[q]
      BY <1>2, <2>2, <2>4
    <3>4. Uploads!IsAtAFile'
      <4>1. \A q \in Requests : step'[q] = IF q = r THEN "file" ELSE step[q]
        BY <1>8, <2>4
      <4> QED
        BY <1>2, <3>3, <4>1 DEF Uploads!IsAtAFile
    <3>5. PICK b : b = [body[r] EXCEPT ![f] = form]
      OBVIOUS
    <3>6. b \in [Fields -> Forms \cup {Uploads!NoFile}] /\ \A g \in Fields : b[g] = IF g = f THEN form ELSE body[r][g]
      BY <1>2, <2>1, <3>5
    <3>7. body' \in [Requests -> Body] /\ \A q \in Requests : body'[q] = IF q = r THEN b ELSE body[q]
      <4>1. body' = [body EXCEPT ![r] = b]
        BY <2>4, <3>5
      <4> HIDE DEF form, f
      <4> QED
        BY <1>2, <3>6, <4>1
    <3>8. Uploads!PassedAreStored'
      <4> SUFFICES ASSUME NEW q \in Requests, NEW i \in DOMAIN FilesOf[q], i < at'[q]
                   PROVE  <<q, FilesOf[q][i], body'[q][FilesOf[q][i]]>> \in store'
        BY DEF Uploads!PassedAreStored
      <4>1. i < at[q] => <<q, FilesOf[q][i], body[q][FilesOf[q][i]]>> \in store
        BY <1>2 DEF Uploads!PassedAreStored
      <4>2. CASE q # r
        BY <2>4, <3>3, <3>7, <4>1, <4>2
      <4>3. CASE q = r
        <5>1. i < at[r] \/ i = at[r]
          BY <1>1, <2>2, <3>3, <4>3
        <5>2. FilesOf[r][i] \in Fields
          BY <1>1, <4>3
        <5>3. CASE FilesOf[r][i] = f
          BY <2>4, <3>6, <3>7, <4>3, <5>2, <5>3
        <5>4. CASE FilesOf[r][i] # f
          BY <2>4, <3>6, <3>7, <4>1, <4>3, <5>1, <5>2, <5>4
        <5> QED
          BY <5>3, <5>4
      <4> QED
        BY <4>2, <4>3
    <3> QED
      BY <1>3, <3>1, <3>2, <3>3, <3>4, <3>7, <3>8
  <2>5. CASE /\ store' \in {store, store \cup {<<r, f, form>>}}
             /\ \E s \in {"raw", "failed"} : step' = [step EXCEPT ![r] = s]
             /\ UNCHANGED <<at, body>>
    <3>1. PICK s \in {"raw", "failed"} : step' = [step EXCEPT ![r] = s]
      BY <2>5
    <3>2. s \in All /\ s \notin InSlot
      BY DEF Uploads!Steps, Uploads!Ends, Uploads!InSlot
    <3>3. Taken'
      BY <1>4, <2>1, <2>3, <3>1, <3>2
    <3>4. Uploads!DirsGo'
      BY <1>7, <1>8, <2>1, <2>3, <3>1
    <3>5. Uploads!IsAtAFile'
      <4>1. \A q \in Requests : step'[q] = IF q = r THEN s ELSE step[q]
        BY <1>8, <3>1
      <4> QED
        BY <1>2, <2>2, <2>5, <4>1 DEF Uploads!IsAtAFile
    <3>6. Uploads!PassedAreStored'
      BY <1>2, <2>5 DEF Uploads!PassedAreStored
    <3> QED
      BY <1>2, <1>3, <2>5, <3>3, <3>4, <3>5, <3>6
  <2> QED
    BY <2>1, <2>4, <2>5 DEF Uploads!Put, Uploads!Goes, Uploads!Field
<1>13. ASSUME NEW r \in Requests, Uploads!Acquire(r) PROVE Uploads!IInv'
  <2>1. step[r] = "slot" /\ UNCHANGED <<at, body, store>>
    BY <1>13 DEF Uploads!Acquire, Uploads!Files
  <2>2. at[r] <= Len(FilesOf[r]) /\ step[r] \notin InSlot \cup {"waiting", "clean"}
    BY <1>9, <2>1 DEF Uploads!Steps, Uploads!InSlot
  <2>3. CASE step' = [step EXCEPT ![r] = "raw"] /\ UNCHANGED <<runningJobs, waitingJobs, dirs, left>>
    <3>1. "raw" \in All /\ "raw" \notin InSlot
      BY DEF Uploads!Steps, Uploads!InSlot
    <3>2. Taken'
      BY <1>4, <2>2, <2>3, <3>1
    <3>3. Stored'
      BY <1>6, <1>8, <1>22, <1>23, <2>1, <2>2, <2>3, <3>2
    <3>4. Uploads!DirsGo'
      BY <1>7, <1>8, <2>2, <2>3
    <3> QED
      BY <1>3, <3>2, <3>3, <3>4
  <2>4. /\ runningJobs = Cardinality(Held) /\ runningJobs <= MAX_CONCURRENT_JOBS
        /\ waitingJobs # <<>> => runningJobs = MAX_CONCURRENT_JOBS
        /\ Queue = Wait /\ IsFiniteSet(Held) /\ Cardinality(Held) \in Nat
    BY <1>2, <1>20, <1>22, FS_CardinalityType
  <2>5. CASE /\ dirs' = dirs \cup {r} /\ UNCHANGED left
             /\ runningJobs < MAX_CONCURRENT_JOBS
             /\ step' = [step EXCEPT ![r] = "probe"]
             /\ runningJobs' = runningJobs + 1 /\ UNCHANGED waitingJobs
    <3>1. step' \in [Requests -> All] /\ \A q \in Requests : step'[q] = IF q = r THEN "probe" ELSE step[q]
      BY <1>2, <1>22, <2>5 DEF Uploads!Steps, Uploads!InSlot
    <3>2. Held' = Held \cup {r} /\ Wait' = Wait /\ r \notin Held
      BY <2>1, <2>2, <3>1 DEF Uploads!InSlot, Held, Wait
    <3>3. IsFiniteSet(Held') /\ Cardinality(Held') = Cardinality(Held) + 1
      <4>1. PICK H : H = Held
        OBVIOUS
      <4>2. IsFiniteSet(H \cup {r}) /\ Cardinality(H \cup {r}) = Cardinality(H) + 1
        BY <2>4, <3>2, <4>1, FS_AddElement
      <4> QED
        BY <3>2, <4>1, <4>2
    <3>4. waitingJobs = <<>>
      BY <1>1, <2>4, <2>5
    <3>5. Uploads!SlotsAreHeld'
      <4>1. runningJobs' = Cardinality(Held') /\ runningJobs' <= MAX_CONCURRENT_JOBS
        BY <1>1, <2>4, <2>5, <3>3
      <4>2. waitingJobs' = <<>> /\ Queue' = Wait'
        BY <2>4, <2>5, <3>2, <3>4 DEF Queue
      <4> QED
        BY <1>21, <4>1, <4>2
    <3>6. Taken'
      BY <1>2, <1>22, <1>23, <2>5, <3>1, <3>3, <3>5 DEF Uploads!WaitsOnce
    <3>7. Stored'
      BY <1>6, <1>23, <2>1, <2>2, <3>1
    <3>8. Uploads!DirsGo'
      BY <1>2, <2>5, <3>1 DEF Uploads!DirsGo, Uploads!InSlot
    <3> QED
      BY <1>3, <3>6, <3>7, <3>8
  <2>6. CASE /\ dirs' = dirs \cup {r} /\ UNCHANGED left
             /\ ~(runningJobs < MAX_CONCURRENT_JOBS)
             /\ step' = [step EXCEPT ![r] = "waiting"]
             /\ waitingJobs' = Append(waitingJobs, r) /\ UNCHANGED runningJobs
    <3>1. step' \in [Requests -> All] /\ \A q \in Requests : step'[q] = IF q = r THEN "waiting" ELSE step[q]
      BY <1>2, <1>22, <2>6 DEF Uploads!Steps
    <3>2. Held' = Held /\ Wait' = Wait \cup {r} /\ r \notin Wait
      BY <2>1, <2>2, <3>1 DEF Uploads!InSlot, Held, Wait
    <3>3. /\ waitingJobs' \in Seq(Requests) /\ DOMAIN waitingJobs' = DOMAIN waitingJobs \cup {Len(waitingJobs) + 1}
          /\ waitingJobs'[Len(waitingJobs) + 1] = r
          /\ \A i \in DOMAIN waitingJobs : waitingJobs'[i] = waitingJobs[i]
      BY <1>2, <1>22, <2>6
    <3>4. Queue' = Queue \cup {r} /\ r \notin Queue
      <4>1. r \notin Queue
        BY <2>4, <3>2
      <4>2. Queue' \subseteq Queue \cup {r}
        BY <3>3 DEF Queue
      <4>3. Queue \cup {r} \subseteq Queue'
        BY <3>3 DEF Queue
      <4> QED
        BY <4>1, <4>2, <4>3
    <3>5. Uploads!WaitsOnce'
      BY <1>2, <1>22, <3>3, <3>4 DEF Uploads!WaitsOnce, Queue
    <3>6. Uploads!SlotsAreHeld'
      <4>1. runningJobs \in Nat
        BY <2>4
      <4>2. runningJobs' = Cardinality(Held') /\ runningJobs' = MAX_CONCURRENT_JOBS
        BY <1>1, <2>4, <2>6, <3>2, <4>1
      <4>3. Queue' = Wait'
        BY <2>4, <3>2, <3>4
      <4> QED
        BY <1>1, <1>21, <4>2, <4>3
    <3>7. Taken'
      BY <1>23, <2>4, <3>1, <3>2, <3>3, <3>5, <3>6
    <3>8. Stored'
      BY <1>6, <1>23, <2>1, <2>2, <3>1
    <3>9. Uploads!DirsGo'
      BY <1>2, <2>6, <3>1 DEF Uploads!DirsGo, Uploads!InSlot
    <3> QED
      BY <1>3, <3>7, <3>8, <3>9
  <2> QED
    BY <1>13, <2>3, <2>5, <2>6 DEF Uploads!Acquire, Uploads!Goes, Uploads!JobSlots, Uploads!Dirs
\* A slot is held on to, or given back.
<1>14. ASSUME NEW r \in Requests, step[r] \in InSlot, UNCHANGED <<at, body, store, dirs, left>>,
              \/ \E s \in {"copy", "convert"} : step' = [step EXCEPT ![r] = s] /\ UNCHANGED <<runningJobs, waitingJobs>>
              \/ Uploads!Release(r, "clean")
       PROVE  Uploads!IInv'
  <2>1. at[r] <= Len(FilesOf[r])
    BY <1>9, <1>14 DEF Uploads!Steps, Uploads!InSlot
  <2>2. CASE \E s \in {"copy", "convert"} : step' = [step EXCEPT ![r] = s] /\ UNCHANGED <<runningJobs, waitingJobs>>
    <3>1. PICK s \in {"copy", "convert"} : step' = [step EXCEPT ![r] = s] /\ UNCHANGED <<runningJobs, waitingJobs>>
      BY <2>2
    <3>2. s \in All /\ s \in InSlot /\ s # "waiting" /\ step[r] # "waiting"
      BY <1>14 DEF Uploads!Steps, Uploads!InSlot
    <3>3. Taken'
      BY <1>4, <1>14, <3>1, <3>2
    <3>4. Stored'
      BY <1>6, <1>8, <1>22, <1>23, <1>14, <2>1, <3>1, <3>3
    <3>5. Uploads!DirsGo'
      BY <1>7, <1>8, <1>14, <3>1, <3>2
    <3> QED
      BY <1>3, <3>3, <3>4, <3>5
  <2>3. CASE Uploads!Release(r, "clean")
    <3>1. "clean" \in All /\ "clean" \notin InSlot
      BY DEF Uploads!Steps, Uploads!InSlot
    <3>2. /\ Taken' /\ step'[r] = "clean"
          /\ \A q \in Requests \ {r} : step'[q] = step[q] \/ (step[q] = "waiting" /\ step'[q] = "probe")
      BY <1>5, <1>14, <2>3, <3>1
    <3>3. \A q \in Requests : step[q] = "waiting" => at[q] <= Len(FilesOf[q])
      BY <1>9 DEF Uploads!Steps
    <3>4. Stored'
      BY <1>6, <1>14, <1>23, <2>1, <3>2, <3>3
    <3>5. Uploads!DirsGo'
      BY <1>7, <1>14, <3>2 DEF Uploads!InSlot
    <3> QED
      BY <1>3, <3>2, <3>4, <3>5
  <2> QED
    BY <1>14, <2>2, <2>3
<1>15. ASSUME NEW r \in Requests, Uploads!Probe(r) \/ Uploads!Ffmpeg(r) PROVE Uploads!IInv'
  <2>1. step[r] \in InSlot /\ UNCHANGED <<at, body, store, dirs, left>>
    BY <1>15 DEF Uploads!Probe, Uploads!Ffmpeg, Uploads!InSlot, Uploads!Files
  <2>2. \/ \E s \in {"copy", "convert"} : step' = [step EXCEPT ![r] = s] /\ UNCHANGED <<runningJobs, waitingJobs>>
        \/ Uploads!Release(r, "clean")
    BY <1>15 DEF Uploads!Probe, Uploads!Ffmpeg, Uploads!Goes, Uploads!JobSlots
  <2> QED
    BY <1>14, <2>1, <2>2
<1>16. ASSUME NEW r \in Requests, Uploads!Clean(r) PROVE Uploads!IInv'
  <2>1. PICK s \in Forms : step' = [step EXCEPT ![r] = s]
    BY <1>16 DEF Uploads!Clean, Uploads!Goes
  <2>2. step[r] = "clean" /\ UNCHANGED <<at, body, store, runningJobs, waitingJobs>>
    BY <1>16 DEF Uploads!Clean, Uploads!Files, Uploads!JobSlots
  <2>3. (dirs' = dirs \ {r} /\ left' = left) \/ (left' = left \cup {r} /\ dirs' = dirs)
    BY <1>16 DEF Uploads!Clean, Uploads!Removed
  <2>4. s \in {"processed", "raw"} /\ s \in All /\ s \notin InSlot /\ step[r] \notin InSlot /\ at[r] <= Len(FilesOf[r])
    BY <1>9, <2>2 DEF Uploads!Steps, Uploads!InSlot, Uploads!Forms
  <2>5. Taken'
    BY <1>4, <2>1, <2>2, <2>4
  <2>6. Stored'
    BY <1>6, <1>8, <1>22, <1>23, <2>1, <2>2, <2>4, <2>5
  <2>7. Uploads!DirsGo'
    BY <1>2, <1>8, <2>1, <2>3 DEF Uploads!DirsGo
  <2> QED
    BY <1>3, <2>5, <2>6, <2>7
\* A restart ends what is under way: no slot is taken any more.
<1>17. CASE Uploads!Restart
  <2>1. /\ step' = [r \in Requests |-> IF step[r] \in Uploads!Ends \cup {"idle"} THEN step[r] ELSE "lost"]
        /\ runningJobs' = 0 /\ waitingJobs' = <<>> /\ left' = left \cup dirs /\ UNCHANGED <<at, body, store, dirs>>
    BY <1>17 DEF Uploads!Restart, Uploads!Files
  <2>2. step' \in [Requests -> All] /\ \A q \in Requests : step'[q] \in {step[q], "lost"} /\ step'[q] \in Uploads!Ends \cup {"idle"}
    BY <1>2, <1>22, <2>1 DEF Uploads!Steps, Uploads!Ends
  <2>3. Held' = {} /\ Wait' = {} /\ Queue' = {}
    <3>1. Held' = {} /\ Wait' = {}
      BY <2>2 DEF Uploads!InSlot, Uploads!Ends, Held, Wait
    <3>2. Queue' = {}
      BY <2>1 DEF Queue
    <3> QED
      BY <3>1, <3>2
  <2>4. Taken'
    <3>1. IsFiniteSet({}) /\ Cardinality({}) = 0
      BY FS_EmptySet
    <3>2. Uploads!SlotsAreHeld'
      BY <1>1, <1>21, <2>1, <2>3, <3>1
    <3>3. waitingJobs' \in Seq(Requests) /\ Uploads!WaitsOnce'
      BY <2>1 DEF Uploads!WaitsOnce
    <3> QED
      BY <1>23, <2>2, <2>3, <3>1, <3>2, <3>3
  <2>5. Stored'
    BY <1>6, <1>23, <2>1, <2>2
  <2>6. Uploads!DirsGo'
    BY <2>1 DEF Uploads!DirsGo
  <2> QED
    BY <1>3, <2>4, <2>5, <2>6
<1> QED
  BY <1>10, <1>11, <1>12, <1>13, <1>15, <1>16, <1>17 DEF Uploads!Next, Uploads!RequestStep

-----------------------------------------------------------------------------
(* OnAir.                                                                     *)

\* What the scheduler and the moderators rely on from one step to the next, for any number of
\* shows, plans, calls, messages, moderators, requests, uploads and callers, and any edits,
\* failures and outages: what a pass of the scheduler is about to hang up on, what may go to
\* the screen, what will still be dropped from a cache, who holds a slot for a video, and
\* whether the client of Redis is open.
THEOREM OnAirInvHolds == Spec => []OnAirInv
<1>1. Init => OnAirInv
  BY ShowsAtFirst, ModerationAtFirst, AccessAtFirst, UploadsAtFirst, RedisLinkAtFirst, OnAirAssumption
  DEF Init, OnAirInv, Is
<1>2. OnAirInv /\ [Next]_vars => OnAirInv'
  <2> SUFFICES ASSUME OnAirInv, [Next]_vars PROVE OnAirInv'
    OBVIOUS
  <2>1. CASE ShowsStep
    BY <2>1, OnAirAssumption, ShowsKept DEF ShowsStep, OnAirInv, Is
  <2>2. CASE ModerationStep
    BY <2>2, ModerationKept DEF ModerationStep, OnAirInv, Is
  <2>3. CASE AccessStep
    BY <2>3, AccessKept DEF AccessStep, OnAirInv, Is
  <2>4. CASE UploadsStep
    BY <2>4, OnAirAssumption, UploadsKept DEF UploadsStep, OnAirInv, Is
  <2>5. CASE RedisLinkStep
    BY <2>5, RedisLinkKept DEF RedisLinkStep, OnAirInv, Is
  <2>6. CASE CallStep \/ ReadCacheStep
    BY <2>6 DEF CallStep, ReadCacheStep, OnAirInv, Is
  <2>7. CASE UNCHANGED vars
    <3>1. UNCHANGED <<service, v1, v2, v3, v4, v5, v6, v7, v8, v9, v10, v11, v12, v13, v14, v15>>
      BY <2>7 DEF vars
    <3>2. Shows!IInv => Shows!IInv'
      BY <3>1 DEF Shows!IInv, Shows!CallsHaveShows, Shows!DoomedAreExcused, Shows!Live
    <3>3. Moderation!IInv => Moderation!IInv'
      BY <3>1 DEF Moderation!IInv, Moderation!ScreenShowsApproved
    <3>4. Access!IInv => Access!IInv'
      BY <3>1 DEF Access!IInv, Access!WillDo
    <3>5. Uploads!IInv => Uploads!IInv'
      <4>1. Uploads!SlotsAreHeld' = Uploads!SlotsAreHeld
        BY <3>1 DEF Uploads!SlotsAreHeld
      <4>2. Uploads!DirsGo' = Uploads!DirsGo /\ Uploads!GoesOnWithItsFiles' = Uploads!GoesOnWithItsFiles
        BY <3>1 DEF Uploads!DirsGo, Uploads!GoesOnWithItsFiles
      <4>3. Uploads!WaitsOnce' = Uploads!WaitsOnce /\ Uploads!IsAtAFile' = Uploads!IsAtAFile
        BY <3>1 DEF Uploads!WaitsOnce, Uploads!IsAtAFile
      <4>4. Uploads!PassedAreStored' = Uploads!PassedAreStored
        BY <3>1 DEF Uploads!PassedAreStored
      <4> QED
        BY <3>1, <4>1, <4>2, <4>3, <4>4 DEF Uploads!IInv, Uploads!UploadsAreWhole
    <3>6. RedisLink!IInv => RedisLink!IInv'
      BY <3>1 DEF RedisLink!IInv, RedisLink!KnowsItsState, RedisLink!isOpen
    <3> QED
      BY <3>1, <3>2, <3>3, <3>4, <3>5, <3>6 DEF OnAirInv, Is
  <2> QED
    BY <2>1, <2>2, <2>3, <2>4, <2>5, <2>6, <2>7 DEF Next
<1> QED
  BY <1>1, <1>2, PTL DEF Spec

\* What reaches the screen of a TV station is a text that a moderator approved, or an edit its
\* author made after the moderator had read it (message.service.ts: approveMessage,
\* sendToOutput and editMessage each write by the message's id).
THEOREM TheScreenShowsTheApproved == Spec => []ScreenShowsApproved
<1>1. OnAirInv => ScreenShowsApproved
  BY DEF OnAirInv, ScreenShowsApproved, Moderation!IInv
<1> QED
  BY <1>1, OnAirInvHolds, PTL

\* The scheduler hangs up on a call only if, since it was placed, listeners at some time found
\* no show or another one on air, or two shows that began on one day (endCallsOfFinishedShows
\* goes by getCurrentShowForStation, the listeners by findActiveShowForStation).
THEOREM NobodyOnAirIsHungUpOn == Spec => OnlyFinishedShowsHangUp
<1>1. OnAirInv /\ [Next]_vars => [Is("shows") => Shows!ExcusedIfHungUp]_vars
  <2> SUFFICES ASSUME OnAirInv, Next, Is("shows") PROVE Shows!ExcusedIfHungUp
    OBVIOUS
  <2>1. Shows!IInv /\ ShowsStep
    BY DEF OnAirInv, Next, Is, ShowsStep, CallStep, ModerationStep, AccessStep, ReadCacheStep, UploadsStep, RedisLinkStep
  <2> QED
    BY <2>1, OnAirAssumption, ShowsKept DEF ShowsStep
<1> QED
  BY <1>1, OnAirInvHolds, PTL DEF Spec, OnlyFinishedShowsHangUp

\* When no administrator's request is under way, each cache entry says what the database does,
\* unless its deletion failed, was cut off by a restart or is never made (reactivatePartner),
\* or a request that read the database before stored it after: each is an entry of excused
\* (auth middleware and userCache.ts; deactivateUser and its like in admin.service.ts).
THEOREM ChangesOfAccountsTakeEffect == Spec => [](Is("access") => Access!ChangesTakeEffect)
<1>1. OnAirInv => (Is("access") => Access!ChangesTakeEffect)
  BY AccessSafe DEF OnAirInv
<1> QED
  BY <1>1, OnAirInvHolds, PTL

\* As many slots for ffmpeg are taken as there are videos in work, never more than there are,
\* and one waits only while all are taken; a directory outlives its video only if its removal
\* failed or the process stopped; and a request that goes on has its files in the store
\* (processStatusVideo.ts: acquireJobSlot and releaseJobSlot; processAndUpload.ts).
THEOREM UploadsStayWhole == Spec => [](Is("uploads") => Uploads!UploadsAreWhole)
<1>1. OnAirInv => (Is("uploads") => Uploads!UploadsAreWhole)
  BY DEF OnAirInv, Uploads!IInv
<1> QED
  BY <1>1, OnAirInvHolds, PTL

\* isConnected is true exactly while the client has a connection or has not noticed its loss,
\* nobody awaits a connectionPromise that is not there, and there is none while the client is
\* closed (redisClient.ts).
THEOREM RedisIsKnown == Spec => [](Is("Redis") => RedisLink!KnowsItsState)
<1>1. OnAirInv => (Is("Redis") => RedisLink!KnowsItsState)
  BY DEF OnAirInv, RedisLink!IInv
<1> QED
  BY <1>1, OnAirInvHolds, PTL

\* Once the process was connected, no step closes the client: neither an outage nor a failed
\* handshake ends its tries (reconnectStrategy in redisClient.ts).
THEOREM RedisIsNeverGivenUp == Spec => [][Is("Redis") => RedisLink!GivesUpOnlyAtFirst]_vars
<1>1. OnAirInv /\ [Next]_vars => [Is("Redis") => RedisLink!GivesUpOnlyAtFirst]_vars
  <2> SUFFICES ASSUME OnAirInv, Next, Is("Redis") PROVE RedisLink!GivesUpOnlyAtFirst
    OBVIOUS
  <2>1. RedisLink!IInv /\ RedisLinkStep
    BY DEF OnAirInv, Next, Is, ShowsStep, CallStep, ModerationStep, AccessStep, ReadCacheStep, UploadsStep, RedisLinkStep
  <2> QED
    BY <2>1, RedisLinkKept DEF RedisLinkStep
<1> QED
  BY <1>1, OnAirInvHolds, PTL DEF Spec

=============================================================================
