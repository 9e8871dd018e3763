-------------------------- MODULE GuiLifecycleProofs --------------------------
(***************************************************************************)
(* Proofs about GuiLifecycle, for every number of windows and host calls.  *)
(*                                                                         *)
(* A quit in the event-loop queue does not name the loop it ends, so that  *)
(* QuitHitsItsWindow rests on what may be in the queue: while the main     *)
(* thread has a window, or is about to get one, there is no quit in it;    *)
(* otherwise there is at most one, and it belongs to the window the worker *)
(* still has, which the main thread has closed, or to the drain.           *)
(*                                                                         *)
(* BelievedIsSeen rests on the last closure on its way to the window, and  *)
(* on the generations: they are counted, so that nothing in the queue is   *)
(* for the window being opened.                                            *)
(***************************************************************************)
EXTENDS GuiLifecycle, TLAPS

NoQuit(s) == \A i \in 1..Len(s) : s[i].kind # "quit"
OneQuit(s) ==
  \E k \in 1..Len(s) :
    s[k].kind = "quit" /\ \A i \in 1..Len(s) : i # k => s[i].kind # "quit"

(* The worker has a window that was answered and not yet quit.             *)
HasWindow == thread.at \in {"answered", "looping"}

(* The main thread holds a window, or the answer that brings it one.       *)
Held == slint_window # None \/ reply = "ok"

Places ==
  /\ thread.at \notin {"idle", "exited"} => thread.of \in Generation
  /\ opening # None => opened \in Generation
  /\ slint_window # None => opened \in Generation
  /\ opening = None => reply = "none" /\ ~timed_out
  /\ opening # None => slint_window = None

Windows ==
  /\ slint_window # None => HasWindow /\ thread.of = slint_window
  /\ reply = "ok" => HasWindow /\ thread.of = opening

Queue ==
  /\ Held => NoQuit(events)
  /\ thread.at \in {"idle", "creating", "exited"} => NoQuit(events)
  /\ HasWindow => NoQuit(events) \/ (OneQuit(events) /\ thread.of \in closed)
  /\ thread.at = "draining" => OneQuit(events)

IInv == TypeOK /\ slint_window \in taken \cup {None} /\ Places /\ Windows /\ Queue

-----------------------------------------------------------------------------
(* Lemmas about the queue.                                                 *)

LEMMA PostOther ==
  ASSUME NEW s \in Seq(Event), NEW e \in Event, e.kind # "quit"
  PROVE  /\ NoQuit(s) => NoQuit(Append(s, e))
         /\ OneQuit(s) => OneQuit(Append(s, e))
<1>1. /\ Len(Append(s, e)) = Len(s) + 1 /\ Len(s) \in Nat
      /\ \A i \in 1..Len(s) + 1 : Append(s, e)[i] = IF i = Len(s) + 1 THEN e ELSE s[i]
  OBVIOUS
<1>2. NoQuit(s) => NoQuit(Append(s, e)) BY <1>1 DEF NoQuit
<1>3. ASSUME OneQuit(s) PROVE OneQuit(Append(s, e))
  <2>1. PICK k \in 1..Len(s) :
          s[k].kind = "quit" /\ \A i \in 1..Len(s) : i # k => s[i].kind # "quit"
    BY <1>3 DEF OneQuit
  <2>2. k \in 1..Len(s) + 1 /\ k # Len(s) + 1 BY <1>1
  <2>3. \A i \in 1..Len(s) + 1 : i # k => Append(s, e)[i].kind # "quit" BY <1>1, <2>1
  <2> QED BY <1>1, <2>1, <2>2, <2>3 DEF OneQuit
<1> QED BY <1>2, <1>3

LEMMA PostQuit ==
  ASSUME NEW s \in Seq(Event), NEW e \in Event, e.kind = "quit", NoQuit(s)
  PROVE  OneQuit(Append(s, e))
<1>1. /\ Len(Append(s, e)) = Len(s) + 1 /\ Len(s) \in Nat
      /\ \A i \in 1..Len(s) + 1 : Append(s, e)[i] = IF i = Len(s) + 1 THEN e ELSE s[i]
  OBVIOUS
<1> QED BY <1>1 DEF NoQuit, OneQuit

LEMMA TakeOther ==
  ASSUME NEW s \in Seq(Event), s # << >>, Head(s).kind # "quit"
  PROVE  /\ NoQuit(s) => NoQuit(Tail(s))
         /\ OneQuit(s) => OneQuit(Tail(s))
<1>1. /\ Len(Tail(s)) = Len(s) - 1 /\ Len(s) \in Nat /\ Len(s) >= 1 /\ Head(s) = s[1]
      /\ \A i \in 1..Len(s) - 1 : Tail(s)[i] = s[i + 1]
  OBVIOUS
<1>2. NoQuit(s) => NoQuit(Tail(s)) BY <1>1 DEF NoQuit
<1>3. ASSUME OneQuit(s) PROVE OneQuit(Tail(s))
  <2>1. PICK k \in 1..Len(s) :
          s[k].kind = "quit" /\ \A i \in 1..Len(s) : i # k => s[i].kind # "quit"
    BY <1>3 DEF OneQuit
  <2>2. k # 1 BY <1>1, <2>1
  <2>3. k - 1 \in 1..Len(s) - 1 /\ Tail(s)[k - 1].kind = "quit" BY <1>1, <2>1, <2>2
  <2>4. \A i \in 1..Len(s) - 1 : i # k - 1 => Tail(s)[i].kind # "quit" BY <1>1, <2>1
  <2> QED BY <1>1, <2>3, <2>4 DEF OneQuit
<1> QED BY <1>2, <1>3

LEMMA TakeQuit ==
  ASSUME NEW s \in Seq(Event), s # << >>, Head(s).kind = "quit", OneQuit(s)
  PROVE  NoQuit(Tail(s))
<1>1. /\ Len(Tail(s)) = Len(s) - 1 /\ Len(s) \in Nat /\ Len(s) >= 1 /\ Head(s) = s[1]
      /\ \A i \in 1..Len(s) - 1 : Tail(s)[i] = s[i + 1]
  OBVIOUS
<1>2. PICK k \in 1..Len(s) :
        s[k].kind = "quit" /\ \A i \in 1..Len(s) : i # k => s[i].kind # "quit"
  BY DEF OneQuit
<1>3. k = 1 BY <1>1, <1>2
<1> QED BY <1>1, <1>2, <1>3 DEF NoQuit

(* A queue that starts with a quit has one.                                *)
LEMMA QuitFirst ==
  ASSUME NEW s \in Seq(Event), s # << >>, Head(s).kind = "quit"
  PROVE  ~NoQuit(s)
<1>1. Len(s) \in Nat /\ Len(s) >= 1 /\ Head(s) = s[1] OBVIOUS
<1> QED BY <1>1 DEF NoQuit

-----------------------------------------------------------------------------
(* Lemmas about the state machine.                                         *)

States == {"Hidden", "ShowRequested", "Active", "Destroyed"}

LEMMA Transitions ==
  /\ After("Hidden", "Show") = "ShowRequested" /\ After("ShowRequested", "Show") = "ShowRequested"
  /\ After("Active", "Show") = "Active" /\ After("Destroyed", "Show") = "Destroyed"
  /\ After("ShowRequested", "UserClosed") = "Hidden" /\ After("Active", "UserClosed") = "Hidden"
  /\ After("Hidden", "UserClosed") = "Hidden" /\ After("Destroyed", "UserClosed") = "Destroyed"
  /\ After("ShowRequested", "Hide") = "HideRequested" /\ After("Active", "Hide") = "HideRequested"
  /\ After("Hidden", "Hide") = "Hidden" /\ After("Destroyed", "Hide") = "Destroyed"
  /\ After("HideRequested", "WindowHidden") = "Hidden"
  /\ After("Hidden", "WindowHidden") = "Hidden"
  /\ After("Destroyed", "WindowHidden") = "Destroyed"
BY DEF After, Transition

LEMMA StatesStay ==
  ASSUME NEW state \in States
  PROVE  /\ After(state, "Show") \in States /\ After(state, "UserClosed") \in States
         /\ HiddenAtOnce(state) \in States /\ Promoted(state) \in States
BY Transitions DEF States, HiddenAtOnce, Promoted

LEMMA ReconciledType == TypeOK => Reconciled \in States
<1> SUFFICES ASSUME TypeOK PROVE Reconciled \in States OBVIOUS
<1>1. lifecycle \in States BY DEF TypeOK, States
<1> QED BY <1>1, StatesStay DEF Reconciled

LEMMA InitInv == Init => IInv
<1> SUFFICES ASSUME Init PROVE IInv OBVIOUS
<1> USE DEF Init
<1>1. MaxGenerations \in Nat /\ MaxRequests \in Nat BY GuiAssumption
<1>2. jobs \in Seq(Generation) /\ events \in Seq(Event) /\ Len(events) = 0 OBVIOUS
<1>3. opened \in 0..MaxGenerations /\ requests \in 0..MaxRequests BY <1>1
<1>4. TypeOK BY <1>2, <1>3 DEF TypeOK
<1>5. Places /\ Windows BY DEF Places, Windows
<1>6. NoQuit(events) BY <1>2 DEF NoQuit
<1>7. Queue BY <1>6 DEF Queue, HasWindow
<1> QED BY <1>4, <1>5, <1>7 DEF IInv

-----------------------------------------------------------------------------
(* What the steps have in common.                                          *)

LEMMA GenerationType ==
  /\ Generation \subseteq Nat \ {0} /\ None \notin Generation
  /\ \A n \in 0..MaxGenerations : n \in Nat /\ (n # 0 => n \in Generation)
  /\ MaxGenerations \in Nat /\ MaxRequests \in Nat
BY GuiAssumption DEF Generation

LEMMA ThreadType ==
  ASSUME TypeOK
  PROVE  /\ thread = [at |-> thread.at, of |-> thread.of]
         /\ thread.of \in Generation \cup {None}
         /\ thread.at \in {"idle", "creating", "answered", "looping", "draining", "exited"}
BY DEF TypeOK

(* close_current_window(): a quit goes to the window the worker has.       *)
LEMMA CloseKeeps ==
  ASSUME IInv, CloseCurrentWindow, opening = None
  PROVE  /\ slint_window' = None
         /\ events' \in Seq(Event) /\ closed \subseteq closed' /\ closed' \subseteq taken
         /\ \/ events' = events
            \/ HasWindow /\ OneQuit(events') /\ thread.of \in closed'
<1>1. /\ slint_window' = None /\ closed' = closed \cup ({slint_window} \ {None})
      /\ events' = IF slint_window # None THEN Append(events, [kind |-> "quit", of |-> opened])
                   ELSE events
  BY DEF CloseCurrentWindow, QuitsItsWindow, Post
<1>2. events \in Seq(Event) /\ closed \subseteq taken /\ slint_window \in taken \cup {None}
  BY DEF IInv, TypeOK
<1>3. closed \subseteq closed' /\ closed' \subseteq taken BY <1>1, <1>2
<1>4. CASE slint_window = None BY <1>1, <1>2, <1>3, <1>4
<1>5. CASE slint_window # None
  <2> DEFINE e == [kind |-> "quit", of |-> opened]
  <2>1. opened \in Generation BY <1>5 DEF IInv, Places
  <2>2. e \in Event /\ e.kind = "quit" BY <2>1 DEF Event
  <2> HIDE DEF e
  <2>3. events' = Append(events, e) BY <1>1, <1>5 DEF e
  <2>4. NoQuit(events) BY <1>5 DEF IInv, Queue, Held
  <2>5. OneQuit(events') /\ events' \in Seq(Event) BY <1>2, <2>2, <2>3, <2>4, PostQuit
  <2>6. HasWindow /\ thread.of \in closed' BY <1>1, <1>5 DEF IInv, Windows
  <2> QED BY <1>1, <1>3, <2>5, <2>6
<1> QED BY <1>4, <1>5

-----------------------------------------------------------------------------
(* The host.                                                               *)

LEMMA CallsType ==
  ASSUME TypeOK, HostCalls
  PROVE  requests' \in 0..MaxRequests
<1>1. requests \in 0..MaxRequests /\ requests < MaxRequests /\ requests' = requests + 1
  BY DEF TypeOK, HostCalls
<1> QED BY <1>1, GenerationType

(* The calls that leave the window, the worker and its queue alone.        *)
LEMMA QuietInv ==
  ASSUME IInv, Create \/ Housekeeping \/ OpenTimesOut
  PROVE  IInv'
<1>1. TypeOK BY DEF IInv
<1>2. /\ UNCHANGED <<slint_window, opening, reply, jobs, workerVars, events, torn, opened,
                     taken, closed>>
      /\ opening = None => timed_out' = timed_out
  BY DEF Create, Housekeeping, OpenTimesOut, openVars, hostVars
<1>3. TypeOK'
  <2>1. CASE Create
    <3>1. requests' \in 0..MaxRequests BY <1>1, <2>1, CallsType DEF Create
    <3> QED BY <1>1, <1>2, <2>1, <3>1 DEF Create, TypeOK, openVars, workerVars
  <2>2. CASE Housekeeping
    <3>1. lifecycle' \in States BY <1>1, <2>2, ReconciledType DEF Housekeeping
    <3> QED
      BY <1>1, <1>2, <2>2, <3>1
      DEF Housekeeping, TypeOK, States, openVars, workerVars, hostVars
  <2>3. CASE OpenTimesOut
    BY <1>1, <1>2, <2>3 DEF OpenTimesOut, TypeOK, workerVars, hostVars
  <2> QED BY <2>1, <2>2, <2>3
<1>4. Places' /\ Windows' /\ Queue' /\ slint_window' \in taken' \cup {None}
  BY <1>2 DEF IInv, Places, Windows, Queue, Held, HasWindow, workerVars
<1> QED BY <1>3, <1>4 DEF IInv

LEMMA CloseInv ==
  ASSUME IInv, SpawnGui \/ Destroy \/ Teardown
  PROVE  IInv'
<1>1. TypeOK BY DEF IInv
<1>2. opening = None /\ CloseCurrentWindow /\ UNCHANGED <<timed_out, reply, workerVars, taken>>
  BY DEF SpawnGui, Destroy, Teardown, HostCalls, ClosesOnTeardown, openVars
<1>3. /\ slint_window' = None
      /\ events' \in Seq(Event) /\ closed \subseteq closed' /\ closed' \subseteq taken
      /\ \/ events' = events
         \/ HasWindow /\ OneQuit(events') /\ thread.of \in closed'
  BY <1>2, CloseKeeps
<1>4. reply = "none" /\ ~timed_out BY <1>2 DEF IInv, Places
<1>5. /\ opened' \in 0..MaxGenerations /\ jobs' \in Seq(Generation)
      /\ opening' \in Generation \cup {None} /\ requests' \in 0..MaxRequests
      /\ lifecycle' \in States /\ user_closed' \in Generation \cup {None}
      /\ gui_worker' \in {"none", "running", "shut"} /\ asked' \in {"none", "show", "hide"}
      /\ created' \in BOOLEAN /\ torn' \in BOOLEAN
  <2>1. CASE SpawnGui
    <3>1. requests' \in 0..MaxRequests BY <1>1, <2>1, CallsType DEF SpawnGui
    <3>2. \/ /\ opened < MaxGenerations /\ opened' = opened + 1 /\ gui_worker' = "running"
             /\ jobs' = Append(jobs, opened') /\ opening' = opened'
          \/ UNCHANGED <<gui_worker, opened, jobs, opening>>
      BY <2>1 DEF SpawnGui
    <3>3. opened \in 0..MaxGenerations /\ jobs \in Seq(Generation) BY <1>1 DEF TypeOK
    <3>4. /\ opened' \in 0..MaxGenerations /\ jobs' \in Seq(Generation)
          /\ opening' \in Generation \cup {None}
      <4>1. CASE UNCHANGED <<gui_worker, opened, jobs, opening>>
        BY <1>2, <3>3, <4>1
      <4>2. CASE opened < MaxGenerations /\ opened' = opened + 1
        <5>1. opened' \in Generation /\ opened' \in 0..MaxGenerations
          BY <3>3, <4>2, GenerationType DEF Generation
        <5> QED BY <1>2, <3>2, <3>3, <5>1
      <4> QED BY <3>2, <4>1, <4>2
    <3> QED
      BY <1>1, <2>1, <3>1, <3>2, <3>4 DEF SpawnGui, AskedAnew, TypeOK, States
  <2>2. CASE Destroy
    <3>1. requests' \in 0..MaxRequests BY <1>1, <2>2, CallsType DEF Destroy
    <3> QED BY <1>1, <2>2, <3>1 DEF Destroy, TypeOK, States, openVars
  <2>3. CASE Teardown BY <1>1, <2>3 DEF Teardown, TypeOK, States, openVars
  <2> QED BY <2>1, <2>2, <2>3
<1>6. TypeOK' BY <1>1, <1>2, <1>3, <1>4, <1>5 DEF TypeOK, States, workerVars
<1>7. Places'
  <2>1. opening' # None => opened' \in Generation
    <3>1. opening' = None \/ opening' = opened' BY <1>2 DEF SpawnGui, Destroy, Teardown, openVars
    <3> QED BY <1>5, <3>1
  <2>2. thread' = thread /\ reply' = reply /\ timed_out' = timed_out
    BY <1>2 DEF workerVars
  <2>3. thread'.at \notin {"idle", "exited"} => thread'.of \in Generation
    BY <2>2 DEF IInv, Places
  <2> QED BY <1>3, <1>4, <2>1, <2>2, <2>3 DEF Places
<1>8. Windows' BY <1>2, <1>3, <1>4 DEF Windows
<1>9. Queue'
  <2>1. ~Held' BY <1>2, <1>3, <1>4 DEF Held
  <2> QED BY <1>2, <1>3, <2>1 DEF IInv, Queue, HasWindow, workerVars
<1> QED BY <1>3, <1>6, <1>7, <1>8, <1>9 DEF IInv

LEMMA VisibilityInv ==
  ASSUME IInv, Show \/ Hide
  PROVE  IInv'
<1>1. TypeOK BY DEF IInv
<1>2. /\ UNCHANGED <<slint_window, gui_worker, openVars, jobs, workerVars, created, torn,
                     opened, taken, closed>>
      /\ user_closed' = None
  BY DEF Show, Hide
<1>3. requests' \in 0..MaxRequests BY <1>1, CallsType DEF Show, Hide
<1>4. lifecycle' \in States /\ asked' \in {"none", "show", "hide"}
  <2>1. lifecycle \in States /\ asked \in {"none", "show", "hide"} BY <1>1 DEF TypeOK, States
  <2>2. Reconciled \in States BY <1>1, ReconciledType
  <2>3. CASE Show
    <3>1. \/ lifecycle' = Reconciled
          \/ lifecycle' = After(Reconciled, "Show")
          \/ lifecycle' = Promoted(After(Reconciled, "Show"))
      BY <2>3 DEF Show
    <3>2. lifecycle' \in States BY <2>2, <3>1, StatesStay
    <3> QED BY <2>1, <2>3, <3>2 DEF Show
  <2>4. CASE Hide BY <2>1, <2>4, StatesStay DEF Hide
  <2> QED BY <2>3, <2>4
<1>5. \/ events' = events
      \/ \E kind \in {"show", "hide"} :
           slint_window # None /\ events' = Append(events, [kind |-> kind, of |-> slint_window])
  BY DEF Show, Hide, Post
<1>6. /\ events' \in Seq(Event)
      /\ (NoQuit(events) => NoQuit(events')) /\ (OneQuit(events) => OneQuit(events'))
  <2>1. events \in Seq(Event) BY <1>1 DEF TypeOK
  <2>2. ASSUME NEW kind \in {"show", "hide"}, slint_window # None,
               events' = Append(events, [kind |-> kind, of |-> slint_window])
        PROVE  /\ events' \in Seq(Event)
               /\ (NoQuit(events) => NoQuit(events')) /\ (OneQuit(events) => OneQuit(events'))
    <3> DEFINE e == [kind |-> kind, of |-> slint_window]
    <3>1. slint_window \in Generation BY <1>1, <2>2 DEF TypeOK
    <3>2. e \in Event /\ e.kind # "quit" BY <3>1 DEF Event
    <3> HIDE DEF e
    <3>3. events' = Append(events, e) BY <2>2 DEF e
    <3> QED BY <2>1, <3>2, <3>3, PostOther
  <2> QED BY <1>5, <2>1, <2>2
<1>7. TypeOK' BY <1>1, <1>2, <1>3, <1>4, <1>6 DEF TypeOK, States, openVars, workerVars
<1>8. Places' /\ Windows' BY <1>2 DEF IInv, Places, Windows, HasWindow, openVars, workerVars
<1>9. Queue' BY <1>2, <1>6 DEF IInv, Queue, Held, HasWindow, openVars, workerVars
<1> QED BY <1>2, <1>7, <1>8, <1>9 DEF IInv

(* open_window() returns.                                                  *)
LEMMA OpenInv ==
  ASSUME IInv, WindowOpened \/ WindowRefused \/ GiveUp
  PROVE  IInv'
<1>1. TypeOK BY DEF IInv
<1>2. /\ opening' = None /\ timed_out' = FALSE /\ reply' = "none"
      /\ UNCHANGED <<user_closed, gui_worker, jobs, workerVars, events, hostVars, closed>>
  BY DEF WindowOpened, WindowRefused, GiveUp, ReceiverDropped
<1>3. \/ /\ reply = "ok" /\ opening # None /\ slint_window' = opening
         /\ taken' = taken \cup {opening} /\ lifecycle' = Promoted(lifecycle)
      \/ opening # None /\ UNCHANGED <<lifecycle, slint_window, taken>>
  BY DEF WindowOpened, WindowRefused, GiveUp, IInv, Places
<1>4. opening \in Generation /\ slint_window = None
  <2>1. opening \in Generation \cup {None} BY <1>1 DEF TypeOK
  <2>2. opening # None BY <1>3
  <2> QED BY <2>1, <2>2 DEF IInv, Places
<1>5. lifecycle' \in States
  <2>1. lifecycle \in States BY <1>1 DEF TypeOK, States
  <2> QED BY <1>3, <2>1, StatesStay
<1>6. TypeOK' BY <1>1, <1>2, <1>3, <1>4, <1>5 DEF TypeOK, States, workerVars, hostVars
<1>7. Places'
  BY <1>2, <1>3, <1>4 DEF IInv, Places, workerVars, hostVars
<1>8. Windows' BY <1>2, <1>3, <1>4 DEF IInv, Windows, HasWindow, workerVars
<1>9. Queue' BY <1>2, <1>3, <1>4 DEF IInv, Queue, Held, HasWindow, workerVars
<1>10. slint_window' \in taken' \cup {None} BY <1>3, <1>4
<1> QED BY <1>6, <1>7, <1>8, <1>9, <1>10 DEF IInv

(* What of a worker step the type invariant is about.                    *)
LEMMA WorkerType ==
  ASSUME TypeOK, WorkerStep,
         user_closed' \in Generation \cup {None}, reply' \in {"none", "ok", "failed"},
         visible' \in BOOLEAN, jobs' \in Seq(Generation), events' \in Seq(Event),
         thread' \in [at : {"idle", "creating", "answered", "looping", "draining", "exited"},
                      of : Generation \cup {None}]
  PROVE  TypeOK'
BY DEF TypeOK, WorkerStep, hostVars

(* A step of a worker without a window: to it, or on to none.              *)
LEMMA WindowlessInv ==
  ASSUME IInv, TakeJob \/ CreateFails \/ AnswerOpen \/ WorkerExits
  PROVE  IInv'
<1>1. TypeOK BY DEF IInv
<1>2. /\ UNCHANGED <<slint_window, opening, timed_out, opened, taken, closed, events, user_closed,
                     visible>>
      /\ WorkerStep /\ thread.at \in {"idle", "creating"}
  BY DEF TakeJob, CreateFails, AnswerOpen, WorkerExits, WorkerStep, hostVars
<1>3. slint_window = None /\ reply # "ok" /\ NoQuit(events)
  BY <1>2 DEF IInv, Windows, Queue, HasWindow
<1>4. \/ /\ thread'.at \in {"idle", "exited"} /\ thread'.of = None
         /\ thread' = [at |-> thread'.at, of |-> thread'.of] /\ jobs' = jobs
         /\ reply' = reply \/ (opening # None /\ reply' = "failed")
      \/ /\ thread' = [at |-> "creating", of |-> thread'.of] /\ thread'.of \in Generation
         /\ reply' = reply /\ jobs' \in Seq(Generation)
      \/ /\ thread' = [at |-> "answered", of |-> opening] /\ opening \in Generation
         /\ reply' = "ok" /\ jobs' = jobs
  <2>1. CASE TakeJob
    <3>1. jobs \in Seq(Generation) /\ jobs # << >> BY <1>1, <2>1 DEF TakeJob, TypeOK
    <3>2. Head(jobs) \in Generation /\ Tail(jobs) \in Seq(Generation) BY <3>1
    <3> QED BY <2>1, <3>2 DEF TakeJob
  <2>2. CASE CreateFails
    <3>1. thread.of \in Generation BY <2>2 DEF CreateFails, IInv, Places
    <3> QED BY <2>2, <3>1, GenerationType DEF CreateFails, Idle
  <2>3. CASE AnswerOpen
    <3>1. thread.of \in Generation BY <2>3 DEF AnswerOpen, IInv, Places
    <3>2. CASE opening = thread.of
      <4>1. thread' = [at |-> "answered", of |-> thread.of]
        BY <1>1, <2>3, <3>2, ThreadType DEF AnswerOpen
      <4> QED BY <2>3, <3>1, <3>2, <4>1 DEF AnswerOpen
    <3>3. CASE opening # thread.of BY <2>3, <3>3 DEF AnswerOpen, Idle
    <3> QED BY <3>2, <3>3
  <2>4. CASE WorkerExits BY <2>4 DEF WorkerExits
  <2> QED BY <2>1, <2>2, <2>3, <2>4
<1>5. TypeOK'
  <2>1. jobs' \in Seq(Generation) /\ reply' \in {"none", "ok", "failed"}
    BY <1>1, <1>4 DEF TypeOK
  <2>2. /\ user_closed' \in Generation \cup {None} /\ visible' \in BOOLEAN
        /\ events' \in Seq(Event)
    BY <1>1, <1>2 DEF TypeOK
  <2>3. thread' \in [at : {"idle", "creating", "answered", "looping", "draining", "exited"},
                     of : Generation \cup {None}]
    BY <1>4
  <2> QED BY <1>1, <1>2, <2>1, <2>2, <2>3, WorkerType
<1>6. Places'
  <2>1. thread'.at \notin {"idle", "exited"} => thread'.of \in Generation BY <1>4
  <2>2. opening = None => reply' = "none" BY <1>4, GenerationType DEF IInv, Places
  <2> QED BY <1>2, <2>1, <2>2 DEF IInv, Places
<1>7. Windows' BY <1>2, <1>3, <1>4 DEF Windows, HasWindow
<1>8. Queue' BY <1>2, <1>3, <1>4 DEF Queue, HasWindow
<1> QED BY <1>2, <1>5, <1>6, <1>7, <1>8 DEF IInv

(* The steps that keep the window and take nothing but closures.           *)
LEMMA WindowInv ==
  ASSUME IInv, ShowAndRun \/ RunClosure \/ UserCloses
  PROVE  IInv'
<1>1. TypeOK BY DEF IInv
<1>2. /\ UNCHANGED <<slint_window, opening, timed_out, reply, opened, taken, closed, jobs>>
      /\ WorkerStep
  BY DEF ShowAndRun, RunClosure, UserCloses, WorkerStep, hostVars
<1>3. /\ thread' = thread \/ (/\ thread.at = "answered" /\ thread'.at = "looping"
                             /\ thread' = [at |-> "looping", of |-> thread.of])
      /\ user_closed' \in Generation \cup {None} /\ visible' \in BOOLEAN
  <2>1. CASE ShowAndRun
    <3>1. thread' = [at |-> "looping", of |-> thread.of]
      BY <1>1, <2>1, ThreadType DEF ShowAndRun
    <3> QED BY <1>1, <2>1, <3>1 DEF ShowAndRun, TypeOK
  <2>2. CASE RunClosure BY <1>1, <2>2 DEF RunClosure, TypeOK
  <2>3. CASE UserCloses BY <1>1, <2>3, ThreadType DEF UserCloses, TypeOK
  <2> QED BY <2>1, <2>2, <2>3
<1>4. /\ events' \in Seq(Event)
      /\ (NoQuit(events) => NoQuit(events')) /\ (OneQuit(events) => OneQuit(events'))
  <2>1. events \in Seq(Event) BY <1>1 DEF TypeOK
  <2>2. \/ events' = events
        \/ events # << >> /\ Head(events).kind # "quit" /\ events' = Tail(events)
    BY DEF ShowAndRun, RunClosure, UserCloses
  <2>3. CASE events # << >> /\ Head(events).kind # "quit" /\ events' = Tail(events)
    <3>1. Tail(events) \in Seq(Event) BY <2>1, <2>3
    <3> QED BY <2>1, <2>3, <3>1, TakeOther
  <2> QED BY <2>1, <2>2, <2>3
<1>5. TypeOK'
  <2>1. thread' \in [at : {"idle", "creating", "answered", "looping", "draining", "exited"},
                     of : Generation \cup {None}]
    BY <1>1, <1>3, ThreadType DEF TypeOK
  <2>2. jobs' \in Seq(Generation) /\ reply' \in {"none", "ok", "failed"} BY <1>1, <1>2 DEF TypeOK
  <2> QED BY <1>1, <1>2, <1>3, <1>4, <2>1, <2>2, WorkerType
<1>6. /\ thread'.of = thread.of
      /\ HasWindow' <=> HasWindow
      /\ ~HasWindow => thread' = thread
  BY <1>3 DEF HasWindow
<1>7. Places' BY <1>2, <1>3, <1>6 DEF IInv, Places, HasWindow
<1>8. Windows' BY <1>2, <1>6 DEF IInv, Windows
<1>9. Queue'
  <2>1. Held' <=> Held BY <1>2 DEF Held
  <2>2. HasWindow' => NoQuit(events') \/ (OneQuit(events') /\ thread'.of \in closed')
    BY <1>2, <1>4, <1>6 DEF IInv, Queue
  <2>3. thread'.at \in {"idle", "creating", "exited"} => NoQuit(events')
    BY <1>3, <1>4 DEF IInv, Queue
  <2>4. thread'.at = "draining" => OneQuit(events') BY <1>3, <1>4 DEF IInv, Queue
  <2> QED BY <1>4, <2>1, <2>2, <2>3, <2>4 DEF IInv, Queue
<1> QED BY <1>2, <1>5, <1>7, <1>8, <1>9 DEF IInv

(* A quit in front: the window was closed, and nothing is held.            *)
LEMMA QuitIsOwn ==
  ASSUME IInv, thread.at \in {"looping", "draining"},
         events # << >>, Head(events).kind = "quit"
  PROVE  /\ slint_window = None /\ reply # "ok" /\ OneQuit(events)
         /\ thread.of \in Generation
         /\ thread.at = "looping" => thread.of \in closed
<1>1. events \in Seq(Event) BY DEF IInv, TypeOK
<1>2. ~NoQuit(events) BY <1>1, QuitFirst
<1> QED BY <1>2 DEF IInv, Queue, Held, HasWindow, Places

(* The loop ends, or its drain does.                                       *)
LEMMA QuitInv ==
  ASSUME IInv, QuitLoop \/ Drained
  PROVE  IInv'
<1>1. TypeOK BY DEF IInv
<1>2. /\ UNCHANGED <<slint_window, opening, timed_out, reply, opened, taken, closed, jobs,
                     user_closed>>
      /\ WorkerStep /\ thread.at \in {"looping", "draining"}
      /\ events # << >> /\ Head(events).kind = "quit" /\ events \in Seq(Event)
  BY <1>1 DEF QuitLoop, Drained, WorkerStep, hostVars, TypeOK
<1>3. slint_window = None /\ reply # "ok" /\ OneQuit(events) /\ thread.of \in Generation
  BY <1>2, QuitIsOwn
<1>4. NoQuit(Tail(events)) /\ Tail(events) \in Seq(Event) BY <1>2, <1>3, TakeQuit
<1>5. \/ /\ thread' = [at |-> "draining", of |-> thread.of] /\ OneQuit(events')
         /\ events' \in Seq(Event) /\ visible' = FALSE
      \/ thread' = [at |-> "idle", of |-> None] /\ events' = Tail(events) /\ visible' = visible
  <2>1. CASE QuitLoop
    <3> DEFINE e == [kind |-> "quit", of |-> thread.of]
    <3>1. e \in Event /\ e.kind = "quit" BY <1>3 DEF Event
    <3>2. thread' = [at |-> "draining", of |-> thread.of]
      BY <1>1, <2>1, ThreadType DEF QuitLoop
    <3>3. visible' = FALSE /\ events' = Append(Tail(events), e) BY <2>1 DEF QuitLoop, DrainEvents
    <3> DEFINE rest == Tail(events)
    <3> HIDE DEF e
    <3>4. rest \in Seq(Event) /\ NoQuit(rest) /\ events' = Append(rest, e) BY <1>4, <3>3
    <3> HIDE DEF rest
    <3>5. OneQuit(events') /\ events' \in Seq(Event) BY <3>1, <3>4, PostQuit
    <3> QED BY <3>2, <3>3, <3>5
  <2>2. CASE Drained BY <2>2 DEF Drained, Idle
  <2> QED BY <2>1, <2>2
<1>6. TypeOK'
  <2>1. thread' \in [at : {"idle", "creating", "answered", "looping", "draining", "exited"},
                     of : Generation \cup {None}]
    BY <1>3, <1>5
  <2>2. /\ jobs' \in Seq(Generation) /\ reply' \in {"none", "ok", "failed"}
        /\ user_closed' \in Generation \cup {None} /\ visible' \in BOOLEAN
    BY <1>1, <1>2, <1>5 DEF TypeOK
  <2>3. events' \in Seq(Event) BY <1>4, <1>5
  <2> QED BY <1>1, <1>2, <2>1, <2>2, <2>3, WorkerType
<1>7. Places' BY <1>2, <1>3, <1>5 DEF IInv, Places
<1>8. Windows' BY <1>2, <1>3 DEF Windows
<1>9. Queue'
  <2>1. ~Held' BY <1>2, <1>3 DEF Held
  <2>2. ~HasWindow' BY <1>5 DEF HasWindow
  <2>3. CASE thread'.at = "draining" /\ OneQuit(events') BY <2>1, <2>2, <2>3 DEF Queue
  <2>4. CASE thread'.at = "idle" /\ events' = Tail(events)
    <3>1. NoQuit(events') BY <1>4, <2>4
    <3> QED BY <2>1, <2>2, <2>4, <3>1 DEF Queue
  <2> QED BY <1>5, <2>3, <2>4
<1> QED BY <1>2, <1>6, <1>7, <1>8, <1>9 DEF IInv

LEMMA NextInv == IInv /\ [Next]_vars => IInv'
<1> SUFFICES ASSUME IInv, [Next]_vars PROVE IInv' OBVIOUS
<1>1. CASE Create \/ Housekeeping \/ OpenTimesOut BY <1>1, QuietInv
<1>2. CASE SpawnGui \/ Destroy \/ Teardown BY <1>2, CloseInv
<1>3. CASE Show \/ Hide BY <1>3, VisibilityInv
<1>4. CASE WindowOpened \/ WindowRefused \/ GiveUp BY <1>4, OpenInv
<1>5. CASE TakeJob \/ CreateFails \/ AnswerOpen \/ WorkerExits BY <1>5, WindowlessInv
<1>6. CASE ShowAndRun \/ RunClosure \/ UserCloses BY <1>6, WindowInv
<1>7. CASE QuitLoop \/ Drained BY <1>7, QuitInv
<1>8. CASE UNCHANGED vars
  BY <1>8 DEF vars, hostVars, openVars, workerVars, IInv, TypeOK, Places, Windows, Queue, Held,
              HasWindow
<1> QED
  BY <1>1, <1>2, <1>3, <1>4, <1>5, <1>6, <1>7, <1>8 DEF Next, HostNext, OpenNext, WorkerNext

-----------------------------------------------------------------------------
(* The inductive invariant: what the event-loop queue may hold, whatever   *)
(* the host, the user and the worker do (gui.rs:107-113).                  *)
THEOREM GuiInvariant == Spec => []IInv
BY InitInv, NextInv, PTL DEF Spec

(* Every variable of the window's lifecycle keeps its type.                *)
THEOREM TypesHold == Spec => []TypeOK
<1>1. IInv => TypeOK BY DEF IInv
<1> QED BY <1>1, GuiInvariant, PTL

(* No event loop ends by a quit that was meant for another window: the     *)
(* window was closed by the main thread (worker.rs:300, gui.rs:107-113).   *)
THEOREM QuitHits == Spec => QuitHitsItsWindow
<1>1. ASSUME IInv, [Next]_vars
      PROVE  [thread.at = "looping" /\ thread'.at # "looping" => thread.of \in closed]_vars
  <2> SUFFICES ASSUME thread.at = "looping", thread'.at # "looping"
               PROVE  thread.of \in closed
    OBVIOUS
  <2>1. thread' # thread OBVIOUS
  <2>2. QuitLoop
    BY <1>1, <2>1
    DEF Next, HostNext, OpenNext, WorkerNext, vars, workerVars, Create, SpawnGui, Show, Hide,
        Destroy, Housekeeping, Teardown, WindowOpened, WindowRefused, OpenTimesOut, GiveUp,
        ReceiverDropped, TakeJob, CreateFails, AnswerOpen, ShowAndRun, RunClosure, Drained,
        WorkerExits, UserCloses
  <2> QED BY <1>1, <2>2, QuitIsOwn DEF QuitLoop
<1> QED BY <1>1, GuiInvariant, PTL DEF Spec, QuitHitsItsWindow
-----------------------------------------------------------------------------
(* What the user will see: the closures on their way to the window.        *)

AtMost(s, n) == \A i \in 1..Len(s) : s[i].of <= n
NoneOf(s, g) == \A i \in 1..Len(s) : s[i].of # g
LastIs(s, g, kind) ==
  \E i \in 1..Len(s) :
    s[i].of = g /\ s[i].kind = kind /\ \A j \in i + 1..Len(s) : s[j].of # g

(* Once the loop has caught up, the window of the main thread is hidden,   *)
(* or on the screen.                                                       *)
EndsHidden ==
  \/ LastIs(events, slint_window, "hide")
  \/ NoneOf(events, slint_window) /\ thread.at = "looping" /\ ~visible
EndsShown ==
  \/ LastIs(events, slint_window, "show")
  \/ NoneOf(events, slint_window) /\ (thread.at = "answered" \/ visible)

(* Generations are counted, and the one being opened is the newest.        *)
Counted ==
  /\ \A g \in taken : g <= opened
  /\ thread.of # None => thread.of <= opened
  /\ \A i \in 1..Len(jobs) : jobs[i] <= opened
  /\ AtMost(events, opened)
  /\ opening # None => opening = opened /\ opening \notin taken

(* Nothing was asked of the window being opened.                           *)
Unasked ==
  /\ opening # None => asked # "hide" /\ NoneOf(events, opening)
  /\ reply = "ok" => thread.at = "answered" \/ visible \/ user_closed # None

Believed ==
  slint_window # None =>
    /\ asked = "hide" => EndsHidden
    /\ lifecycle = "Active" /\ user_closed = None => EndsShown

SInv == IInv /\ Counted /\ Unasked /\ Believed

LEMMA PostOf ==
  ASSUME NEW s \in Seq(Event), NEW e \in Event
  PROVE  /\ \A n \in Nat : AtMost(s, n) /\ e.of <= n => AtMost(Append(s, e), n)
         /\ \A g : NoneOf(s, g) /\ e.of # g => NoneOf(Append(s, e), g)
         /\ LastIs(Append(s, e), e.of, e.kind)
<1>1. /\ Len(Append(s, e)) = Len(s) + 1 /\ Len(s) \in Nat
      /\ \A i \in 1..Len(s) + 1 : Append(s, e)[i] = IF i = Len(s) + 1 THEN e ELSE s[i]
  OBVIOUS
<1>2. \A n \in Nat : AtMost(s, n) /\ e.of <= n => AtMost(Append(s, e), n)
  BY <1>1 DEF AtMost
<1>3. \A g : NoneOf(s, g) /\ e.of # g => NoneOf(Append(s, e), g) BY <1>1 DEF NoneOf
<1>4. LastIs(Append(s, e), e.of, e.kind)
  <2>1. Len(s) + 1 \in 1..Len(Append(s, e)) /\ Append(s, e)[Len(s) + 1] = e BY <1>1
  <2>2. \A j \in (Len(s) + 1) + 1..Len(Append(s, e)) : FALSE BY <1>1
  <2> QED BY <2>1, <2>2 DEF LastIs
<1> QED BY <1>2, <1>3, <1>4

LEMMA TakeOf ==
  ASSUME NEW s \in Seq(Event), s # << >>
  PROVE  /\ \A n \in Nat : AtMost(s, n) => AtMost(Tail(s), n)
         /\ \A g : NoneOf(s, g) => NoneOf(Tail(s), g) /\ Head(s).of # g
         /\ \A g, kind : LastIs(s, g, kind) =>
              \/ LastIs(Tail(s), g, kind)
              \/ Head(s).of = g /\ Head(s).kind = kind /\ NoneOf(Tail(s), g)
<1>1. /\ Len(Tail(s)) = Len(s) - 1 /\ Len(s) \in Nat /\ Len(s) >= 1 /\ Head(s) = s[1]
      /\ \A i \in 1..Len(s) - 1 : Tail(s)[i] = s[i + 1]
  OBVIOUS
<1>2. \A n \in Nat : AtMost(s, n) => AtMost(Tail(s), n) BY <1>1 DEF AtMost
<1>3. \A g : NoneOf(s, g) => NoneOf(Tail(s), g) /\ Head(s).of # g BY <1>1 DEF NoneOf
<1>4. ASSUME NEW g, NEW kind, LastIs(s, g, kind)
      PROVE  \/ LastIs(Tail(s), g, kind)
             \/ Head(s).of = g /\ Head(s).kind = kind /\ NoneOf(Tail(s), g)
  <2>1. PICK i \in 1..Len(s) :
          s[i].of = g /\ s[i].kind = kind /\ \A j \in i + 1..Len(s) : s[j].of # g
    BY <1>4 DEF LastIs
  <2>2. CASE i = 1 BY <1>1, <2>1, <2>2 DEF NoneOf
  <2>3. CASE i # 1
    <3>1. i - 1 \in 1..Len(Tail(s)) /\ Tail(s)[i - 1] = s[i] BY <1>1, <2>3
    <3>2. \A j \in (i - 1) + 1..Len(Tail(s)) : Tail(s)[j].of # g BY <1>1, <2>1
    <3> QED BY <2>1, <3>1, <3>2 DEF LastIs
  <2> QED BY <2>2, <2>3
<1> QED BY <1>2, <1>3, <1>4

LEMMA InitSeen == Init => SInv
<1> SUFFICES ASSUME Init PROVE SInv OBVIOUS
<1> USE DEF Init
<1>1. Len(events) = 0 /\ Len(jobs) = 0 OBVIOUS
<1>2. Counted BY <1>1 DEF Counted, AtMost
<1>3. Unasked /\ Believed BY DEF Unasked, Believed
<1> QED BY <1>2, <1>3, InitInv DEF SInv

(* What the proofs of the steps use of the invariant.                      *)
LEMMA Typed ==
  ASSUME IInv
  PROVE  /\ events \in Seq(Event) /\ jobs \in Seq(Generation)
         /\ opened \in Nat /\ Generation \subseteq Nat /\ None \notin Generation
         /\ thread.of \in Generation \cup {None} /\ taken \subseteq Generation
         /\ slint_window \in taken \cup {None} /\ opening \in Generation \cup {None}
         /\ opening = None => reply = "none"
         /\ lifecycle \in States
<1>1. TypeOK BY DEF IInv
<1>2. opened \in Nat BY <1>1, GenerationType DEF TypeOK
<1>3. opening \in Generation \cup {None} BY <1>1 DEF TypeOK
<1> QED BY <1>1, <1>2, <1>3, GenerationType, ThreadType DEF IInv, TypeOK, Places, States

LEMMA QuietSeen ==
  ASSUME SInv, Create \/ Housekeeping \/ OpenTimesOut
  PROVE  Counted' /\ Unasked' /\ Believed'
<1>1. UNCHANGED <<slint_window, opening, reply, jobs, thread, visible, events, opened, taken>>
  BY DEF Create, Housekeeping, OpenTimesOut, openVars, hostVars, workerVars
<1>2. \/ UNCHANGED <<lifecycle, user_closed, asked>>
      \/ opening = None /\ asked' = "none" /\ lifecycle' = "Hidden"
      \/ opening = None /\ asked' = asked /\ lifecycle' # "Active"
  <2>1. CASE Housekeeping
    <3>1. lifecycle' = After(lifecycle, "UserClosed") /\ asked' = asked /\ opening = None
      BY <2>1 DEF Housekeeping, Reconciled, hostVars
    <3>2. lifecycle' # "Active"
      <4>1. lifecycle \in {"Hidden", "ShowRequested", "Active", "Destroyed"}
        BY Typed DEF SInv, States
      <4> QED BY <3>1, <4>1, Transitions
    <3> QED BY <3>1, <3>2
  <2>2. CASE Create BY <2>2 DEF Create, HostCalls
  <2>3. CASE OpenTimesOut BY <2>3 DEF OpenTimesOut, hostVars
  <2> QED BY <2>1, <2>2, <2>3
<1>3. Counted' BY <1>1 DEF SInv, Counted
<1>4. Unasked'
  <2>1. opening = None => reply = "none" BY Typed DEF SInv
  <2> QED BY <1>1, <1>2, <2>1 DEF SInv, Unasked
<1>5. Believed' BY <1>1, <1>2 DEF SInv, Believed, EndsHidden, EndsShown
<1> QED BY <1>3, <1>4, <1>5

LEMMA CloseSeen ==
  ASSUME SInv, SpawnGui \/ Destroy \/ Teardown
  PROVE  Counted' /\ Unasked' /\ Believed'
<1>1. IInv BY DEF SInv
<1>2. /\ opening = None /\ slint_window' = None
      /\ UNCHANGED <<reply, thread, visible, taken>>
      /\ \/ events' = events
         \/ slint_window # None
            /\ events' = Append(events, [kind |-> "quit", of |-> opened])
  BY DEF SpawnGui, Destroy, Teardown, HostCalls, ClosesOnTeardown, CloseCurrentWindow,
         QuitsItsWindow, Post, openVars, workerVars
<1>3. AtMost(events', opened)
  <2>1. AtMost(events, opened) BY DEF SInv, Counted
  <2>2. CASE slint_window # None /\ events' = Append(events, [kind |-> "quit", of |-> opened])
    <3> DEFINE e == [kind |-> "quit", of |-> opened]
    <3>1. opened \in Generation BY <1>1, <2>2 DEF IInv, Places
    <3>2. e \in Event /\ e.of <= opened BY <1>1, <3>1, Typed DEF Event
    <3> HIDE DEF e
    <3>3. events' = Append(events, e) BY <2>2 DEF e
    <3> QED BY <1>1, <2>1, <3>2, <3>3, PostOf, Typed
  <2> QED BY <1>2, <2>1, <2>2
<1>4. \/ UNCHANGED <<opened, jobs, opening>>
      \/ /\ opened' = opened + 1 /\ opening' = opened' /\ jobs' = Append(jobs, opened')
         /\ asked' # "hide"
  BY DEF SpawnGui, Destroy, Teardown, AskedAnew, openVars
<1>5. Counted' /\ Unasked'
  <2>1. reply' = "none" BY <1>1, <1>2, Typed
  <2>2. CASE UNCHANGED <<opened, jobs, opening>>
    BY <1>2, <1>3, <2>1, <2>2 DEF SInv, Counted, Unasked
  <2>3. CASE /\ opened' = opened + 1 /\ opening' = opened' /\ jobs' = Append(jobs, opened')
             /\ asked' # "hide"
    <3>1. events' \in Seq(Event)
      <4>1. CloseCurrentWindow
        BY DEF SpawnGui, Destroy, Teardown, ClosesOnTeardown
      <4> QED BY <1>1, <1>2, <4>1, CloseKeeps
    <3>2. \A i \in 1..Len(events') : events'[i].of \in Nat /\ events'[i].of <= opened
      <4>1. \A i \in 1..Len(events') : events'[i] \in Event BY <3>1
      <4> QED BY <1>1, <1>3, <4>1, Typed DEF AtMost, Event
    <3>3. AtMost(events', opened') /\ NoneOf(events', opened')
      BY <1>1, <2>3, <3>2, Typed DEF AtMost, NoneOf
    <3>4. \A g \in taken : g <= opened' /\ g # opened'
      BY <1>1, <2>3, Typed DEF SInv, Counted
    <3>5. \A i \in 1..Len(jobs') : jobs'[i] <= opened'
      <4>1. /\ Len(jobs) \in Nat /\ Len(jobs') = Len(jobs) + 1
            /\ \A i \in 1..Len(jobs) : jobs[i] \in Nat /\ jobs[i] <= opened
            /\ \A i \in 1..Len(jobs) + 1 :
                 jobs'[i] = IF i = Len(jobs) + 1 THEN opened' ELSE jobs[i]
        BY <1>1, <2>3, Typed DEF SInv, Counted
      <4> QED BY <1>1, <2>3, <4>1, Typed
    <3>6. thread'.of # None => thread'.of <= opened'
      BY <1>1, <1>2, <2>3, Typed DEF SInv, Counted
    <3> QED BY <1>2, <2>1, <2>3, <3>3, <3>4, <3>5, <3>6 DEF Counted, Unasked
  <2> QED BY <1>4, <2>2, <2>3
<1> QED BY <1>2, <1>5 DEF Believed

LEMMA VisibilitySeen ==
  ASSUME SInv, Show \/ Hide
  PROVE  Counted' /\ Unasked' /\ Believed'
<1>1. IInv BY DEF SInv
<1>2. /\ opening = None /\ user_closed' = None
      /\ UNCHANGED <<slint_window, opening, reply, jobs, thread, visible, opened, taken>>
  BY DEF Show, Hide, HostCalls, openVars, workerVars
<1>3. \/ events' = events
      \/ \E kind \in {"show", "hide"} :
           /\ slint_window # None
           /\ events' = Append(events, [kind |-> kind, of |-> slint_window])
           /\ asked' = kind
           /\ kind = "hide" => lifecycle' # "Active"
  <2>1. HiddenAtOnce(lifecycle) # "Active"
    BY <1>1, Typed, Transitions DEF HiddenAtOnce, States
  <2> QED BY <2>1 DEF Show, Hide, Post
<1>4. ASSUME NEW kind \in {"show", "hide"}, slint_window # None,
             events' = Append(events, [kind |-> kind, of |-> slint_window])
      PROVE  AtMost(events', opened) /\ LastIs(events', slint_window, kind)
  <2> DEFINE e == [kind |-> kind, of |-> slint_window]
  <2>1. slint_window \in taken /\ slint_window \in Generation BY <1>1, <1>4, Typed
  <2>2. e \in Event /\ e.of = slint_window /\ e.kind = kind /\ e.of <= opened
    BY <2>1 DEF Event, SInv, Counted
  <2> HIDE DEF e
  <2>3. events' = Append(events, e) BY <1>4 DEF e
  <2>4. AtMost(events, opened) BY DEF SInv, Counted
  <2> QED BY <1>1, <2>2, <2>3, <2>4, PostOf, Typed
<1>5. Counted'
  <2>1. AtMost(events', opened) BY <1>3, <1>4 DEF SInv, Counted
  <2> QED BY <1>2, <2>1 DEF SInv, Counted
<1>6. Unasked'
  <2>1. reply = "none" BY <1>1, <1>2, Typed
  <2> QED BY <1>2, <2>1 DEF Unasked
<1>7. Believed'
  <2> SUFFICES ASSUME slint_window # None
               PROVE  /\ asked' = "hide" => EndsHidden'
                      /\ lifecycle' = "Active" => EndsShown'
    BY <1>2 DEF Believed
  <2>1. CASE \E kind \in {"show", "hide"} :
               /\ events' = Append(events, [kind |-> kind, of |-> slint_window])
               /\ asked' = kind
               /\ kind = "hide" => lifecycle' # "Active"
    <3>1. PICK kind \in {"show", "hide"} :
               /\ events' = Append(events, [kind |-> kind, of |-> slint_window])
               /\ asked' = kind
               /\ kind = "hide" => lifecycle' # "Active"
      BY <2>1
    <3>2. LastIs(events', slint_window, kind) BY <1>4, <3>1
    <3> QED BY <1>2, <3>1, <3>2 DEF EndsHidden, EndsShown
  <2>2. CASE events' = events /\ asked' = asked
             /\ (lifecycle' = "Active" => lifecycle = "Active" /\ user_closed = None)
    BY <1>2, <2>2 DEF SInv, Believed, EndsHidden, EndsShown
  <2>3. CASE Show /\ ~Legal(Reconciled, "Show")
    <3>1. lifecycle' = Reconciled /\ asked' = asked /\ events' = events BY <2>3 DEF Show
    <3>2. Reconciled = "Active" => lifecycle = "Active" /\ user_closed = None
      BY <1>1, Typed, Transitions DEF Reconciled, States
    <3> QED BY <2>2, <3>1, <3>2
  <2>4. CASE Show /\ Legal(Reconciled, "Show")
    <3>1. events' = Append(events, [kind |-> "show", of |-> slint_window]) /\ asked' = "show"
      BY <2>4 DEF Show, Post
    <3> QED BY <2>1, <3>1
  <2>5. CASE Hide /\ Legal(lifecycle, "Hide")
    <3>1. events' = Append(events, [kind |-> "hide", of |-> slint_window]) /\ asked' = "hide"
      BY <2>5 DEF Hide, Post
    <3>2. lifecycle' # "Active"
      BY <1>1, <2>5, Typed, Transitions DEF Hide, HiddenAtOnce, States
    <3> QED BY <2>1, <3>1, <3>2
  <2>6. CASE Hide /\ ~Legal(lifecycle, "Hide")
    <3>1. lifecycle' = lifecycle /\ asked' = asked /\ events' = events BY <2>6 DEF Hide
    <3>2. lifecycle # "Active" BY <2>6 DEF Legal, Transition
    <3> QED BY <2>2, <3>1, <3>2
  <2> QED BY <2>3, <2>4, <2>5, <2>6
<1> QED BY <1>5, <1>6, <1>7

LEMMA OpenSeen ==
  ASSUME SInv, WindowOpened \/ WindowRefused \/ GiveUp
  PROVE  Counted' /\ Unasked' /\ Believed'
<1>1. IInv BY DEF SInv
<1>2. /\ opening' = None /\ reply' = "none"
      /\ UNCHANGED <<user_closed, jobs, thread, visible, events, opened, asked>>
  BY DEF WindowOpened, WindowRefused, GiveUp, ReceiverDropped, workerVars, hostVars
<1>3. Unasked' BY <1>2 DEF Unasked
<1>4. CASE WindowOpened
  <2>1. /\ opening # None /\ reply = "ok" /\ slint_window' = opening
        /\ taken' = taken \cup {opening}
    BY <1>4 DEF WindowOpened
  <2>2. Counted' BY <1>1, <1>2, <2>1, Typed DEF SInv, Counted
  <2>3. asked # "hide" /\ NoneOf(events, opening) BY <2>1 DEF SInv, Unasked
  <2>4. thread.at = "answered" \/ visible \/ user_closed # None BY <2>1 DEF SInv, Unasked
  <2>5. Believed' BY <1>2, <2>1, <2>3, <2>4 DEF Believed, EndsShown
  <2> QED BY <1>3, <2>2, <2>5
<1>5. CASE WindowRefused \/ GiveUp
  <2>1. UNCHANGED <<lifecycle, slint_window, taken>> BY <1>5 DEF WindowRefused, GiveUp
  <2>2. Counted' BY <1>2, <2>1 DEF SInv, Counted
  <2>3. Believed' BY <1>2, <2>1 DEF SInv, Believed, EndsHidden, EndsShown
  <2> QED BY <1>3, <2>2, <2>3
<1> QED BY <1>4, <1>5

(* The steps of the worker before the window is answered and after the     *)
(* drain: the main thread has no window then.                              *)
LEMMA WindowlessSeen ==
  ASSUME SInv, TakeJob \/ CreateFails \/ AnswerOpen \/ WorkerExits
  PROVE  Counted' /\ Unasked' /\ Believed'
<1>1. IInv BY DEF SInv
<1>2. UNCHANGED <<slint_window, opening, user_closed, visible, events, opened, taken, asked>>
  BY DEF TakeJob, CreateFails, AnswerOpen, WorkerExits, WorkerStep, hostVars
<1>3. thread.at \in {"idle", "creating"}
  BY DEF TakeJob, CreateFails, AnswerOpen, WorkerExits
<1>4. slint_window = None /\ reply # "ok"
  BY <1>1, <1>3 DEF IInv, Windows, HasWindow
<1>5. Believed' BY <1>2, <1>4 DEF Believed
<1>6. Unasked'
  <2>1. reply' = "ok" => thread'.at = "answered"
    <3>1. CASE AnswerOpen
      <4>1. opening = thread.of => thread'.at = "answered"
        BY <1>1, <3>1, ThreadType DEF AnswerOpen, IInv
      <4> QED BY <1>4, <3>1, <4>1 DEF AnswerOpen
    <3>2. CASE TakeJob \/ CreateFails \/ WorkerExits
      BY <1>4, <3>2 DEF TakeJob, CreateFails, WorkerExits
    <3> QED BY <3>1, <3>2
  <2> QED BY <1>2, <2>1 DEF SInv, Unasked
<1>7. Counted'
  <2>1. CASE TakeJob
    <3>1. jobs' = Tail(jobs) /\ thread'.of = Head(jobs) /\ jobs # << >> BY <2>1 DEF TakeJob
    <3>2. /\ Len(jobs) \in Nat /\ Len(jobs) >= 1 /\ Head(jobs) = jobs[1]
          /\ Len(Tail(jobs)) = Len(jobs) - 1
          /\ \A i \in 1..Len(jobs) - 1 : Tail(jobs)[i] = jobs[i + 1]
      BY <1>1, <3>1, Typed
    <3>3. \A i \in 1..Len(jobs) : jobs[i] <= opened BY DEF SInv, Counted
    <3>4. thread'.of <= opened /\ \A i \in 1..Len(jobs') : jobs'[i] <= opened
      BY <3>1, <3>2, <3>3
    <3> QED BY <1>2, <3>4 DEF SInv, Counted
  <2>2. CASE CreateFails \/ AnswerOpen \/ WorkerExits
    <3>1. jobs' = jobs BY <2>2 DEF CreateFails, AnswerOpen, WorkerExits
    <3>2. thread'.of \in {thread.of, None}
      BY <1>1, <2>2, ThreadType DEF CreateFails, AnswerOpen, WorkerExits, Idle, IInv
    <3> QED BY <1>2, <3>1, <3>2 DEF SInv, Counted
  <2> QED BY <2>1, <2>2
<1> QED BY <1>5, <1>6, <1>7

(* The steps on the worker's window.                                       *)
LEMMA WindowSeen ==
  ASSUME SInv, ShowAndRun \/ UserCloses
  PROVE  Counted' /\ Unasked' /\ Believed'
<1>1. IInv BY DEF SInv
<1>2. /\ UNCHANGED <<slint_window, lifecycle, opening, reply, jobs, events, opened, taken, asked>>
      /\ thread'.of = thread.of
  BY <1>1, ThreadType DEF ShowAndRun, UserCloses, WorkerStep, hostVars, IInv
<1>3. Counted' BY <1>2 DEF SInv, Counted
<1>4. CASE ShowAndRun
  <2>1. thread.at = "answered" /\ visible' /\ user_closed' = user_closed
    BY <1>4 DEF ShowAndRun
  <2>2. Unasked' BY <1>2, <2>1 DEF SInv, Unasked
  <2>3. Believed' BY <1>2, <2>1 DEF SInv, Believed, EndsHidden, EndsShown
  <2> QED BY <1>3, <2>2, <2>3
<1>5. CASE UserCloses
  <2>1. ~visible' /\ user_closed' = thread.of /\ thread' = thread /\ thread.at = "looping"
    BY <1>5 DEF UserCloses
  <2>2. user_closed' # None BY <1>1, <2>1, GenerationType DEF IInv, Places
  <2>3. Unasked' BY <1>2, <2>2 DEF SInv, Unasked
  <2>4. Believed' BY <1>2, <2>1, <2>2 DEF SInv, Believed, EndsHidden
  <2> QED BY <1>3, <2>3, <2>4
<1> QED BY <1>4, <1>5

(* A closure: one for the main thread's window is obeyed.                  *)
LEMMA ClosureSeen ==
  ASSUME SInv, RunClosure
  PROVE  Counted' /\ Unasked' /\ Believed'
<1>1. IInv BY DEF SInv
<1>2. UNCHANGED <<slint_window, lifecycle, opening, reply, user_closed, jobs, thread, opened,
                  taken, asked>>
  BY DEF RunClosure, WorkerStep, hostVars
<1>3. /\ events # << >> /\ events' = Tail(events) /\ events \in Seq(Event)
      /\ thread.at \in {"looping", "draining"} /\ Head(events).kind # "quit"
      /\ visible' = IF thread.at = "looping" /\ Head(events).of = thread.of
                    THEN Head(events).kind = "show" ELSE visible
  BY <1>1, Typed DEF RunClosure
<1>4. Counted'
  <2>1. AtMost(events', opened) BY <1>1, <1>3, TakeOf, Typed DEF SInv, Counted
  <2> QED BY <1>2, <2>1 DEF SInv, Counted
<1>5. Unasked'
  <2>1. opening # None => NoneOf(events, opening) BY DEF SInv, Unasked
  <2>2. opening # None => NoneOf(events', opening) /\ Head(events).of # opening
    BY <1>3, <2>1, TakeOf
  <2>3. reply = "ok" => opening # None /\ thread.of = opening
    BY <1>1, Typed DEF IInv, Windows
  <2>4. reply = "ok" => visible' = visible BY <1>3, <2>2, <2>3
  <2> QED BY <1>2, <2>2, <2>4 DEF SInv, Unasked
<1>6. Believed'
  <2> SUFFICES ASSUME slint_window # None
               PROVE  /\ asked = "hide" => EndsHidden'
                      /\ lifecycle = "Active" /\ user_closed = None => EndsShown'
    BY <1>2 DEF Believed
  <2>1. thread.at = "looping" /\ thread.of = slint_window
    BY <1>1, <1>3 DEF IInv, Windows, HasWindow
  <2>2. NoneOf(events, slint_window) =>
          NoneOf(events', slint_window) /\ Head(events).of # slint_window
    BY <1>3, TakeOf
  <2>3. \A kind : LastIs(events, slint_window, kind) =>
          \/ LastIs(events', slint_window, kind)
          \/ Head(events).of = slint_window /\ Head(events).kind = kind
             /\ NoneOf(events', slint_window)
    BY <1>3, TakeOf
  <2>4. ASSUME EndsHidden PROVE EndsHidden'
    <3>1. CASE LastIs(events, slint_window, "hide")
      <4>1. CASE LastIs(events', slint_window, "hide") BY <1>2, <4>1 DEF EndsHidden
      <4>2. CASE Head(events).of = slint_window /\ Head(events).kind = "hide"
                 /\ NoneOf(events', slint_window)
        <5>1. ~visible' BY <1>3, <2>1, <4>2
        <5> QED BY <1>2, <2>1, <4>2, <5>1 DEF EndsHidden
      <4> QED BY <2>3, <3>1, <4>1, <4>2
    <3>2. CASE NoneOf(events, slint_window) /\ ~visible
      BY <1>2, <1>3, <2>1, <2>2, <3>2 DEF EndsHidden
    <3> QED BY <2>4, <3>1, <3>2 DEF EndsHidden
  <2>5. ASSUME EndsShown PROVE EndsShown'
    <3>1. CASE LastIs(events, slint_window, "show")
      <4>1. CASE LastIs(events', slint_window, "show") BY <1>2, <4>1 DEF EndsShown
      <4>2. CASE Head(events).of = slint_window /\ Head(events).kind = "show"
                 /\ NoneOf(events', slint_window)
        <5>1. visible' BY <1>3, <2>1, <4>2
        <5> QED BY <1>2, <2>1, <4>2, <5>1 DEF EndsShown
      <4> QED BY <2>3, <3>1, <4>1, <4>2
    <3>2. CASE NoneOf(events, slint_window) /\ visible
      BY <1>2, <1>3, <2>1, <2>2, <3>2 DEF EndsShown
    <3> QED BY <2>1, <2>5, <3>1, <3>2 DEF EndsShown
  <2> QED BY <2>4, <2>5 DEF SInv, Believed
<1> QED BY <1>4, <1>5, <1>6

(* A quit: the main thread has no window, nor the answer that brings one.  *)
LEMMA QuitSeen ==
  ASSUME SInv, QuitLoop \/ Drained
  PROVE  Counted' /\ Unasked' /\ Believed'
<1>1. IInv BY DEF SInv
<1>2. UNCHANGED <<slint_window, opening, reply, jobs, opened, taken, asked>>
  BY DEF QuitLoop, Drained, WorkerStep, hostVars
<1>3. slint_window = None /\ reply # "ok"
  <2>1. events # << >> /\ Head(events).kind = "quit" /\ events \in Seq(Event)
    BY <1>1, Typed DEF QuitLoop, Drained
  <2> QED BY <1>1, <2>1, QuitFirst DEF IInv, Queue, Held
<1>4. Believed' BY <1>2, <1>3 DEF Believed
<1>5. /\ events # << >> /\ events \in Seq(Event) /\ Tail(events) \in Seq(Event)
      /\ AtMost(Tail(events), opened)
      /\ opening # None => NoneOf(Tail(events), opening)
  <2>1. events # << >> /\ events \in Seq(Event) BY <1>1, Typed DEF QuitLoop, Drained
  <2>2. AtMost(events, opened) /\ opened \in Nat BY <1>1, Typed DEF SInv, Counted
  <2>3. opening # None => NoneOf(events, opening) BY DEF SInv, Unasked
  <2>4. Tail(events) \in Seq(Event) BY <2>1
  <2> QED BY <2>1, <2>2, <2>3, <2>4, TakeOf
<1>6. CASE QuitLoop
  <2> DEFINE e == [kind |-> "quit", of |-> thread.of]
  <2>1. thread.of \in closed /\ thread.at = "looping" BY <1>1, <1>6, QuitIsOwn DEF QuitLoop
  <2>2. thread.of \in taken /\ thread.of \in Generation
    BY <1>1, <2>1 DEF IInv, TypeOK
  <2>3. thread.of <= opened /\ (opening # None => thread.of # opening)
    BY <2>2 DEF SInv, Counted
  <2>4. e \in Event /\ e.of = thread.of BY <2>2 DEF Event
  <2>5. events' = Append(Tail(events), e) /\ thread'.of = thread.of
    BY <1>1, <1>6, ThreadType DEF QuitLoop, DrainEvents, IInv
  <2> HIDE DEF e
  <2>6. AtMost(events', opened) /\ (opening # None => NoneOf(events', opening))
    BY <1>1, <1>5, <2>3, <2>4, <2>5, PostOf, Typed
  <2>7. Counted' BY <1>2, <2>5, <2>6 DEF SInv, Counted
  <2>8. Unasked' BY <1>2, <1>3, <2>6 DEF SInv, Unasked
  <2> QED BY <1>4, <2>7, <2>8
<1>7. CASE Drained
  <2>1. events' = Tail(events) /\ thread'.of = None BY <1>7 DEF Drained, Idle
  <2>2. Counted' BY <1>2, <1>5, <2>1 DEF SInv, Counted
  <2>3. Unasked' BY <1>2, <1>3, <1>5, <2>1 DEF SInv, Unasked
  <2> QED BY <1>4, <2>2, <2>3
<1> QED BY <1>6, <1>7

LEMMA NextSeen == SInv /\ [Next]_vars => SInv'
<1> SUFFICES ASSUME SInv, [Next]_vars PROVE SInv' OBVIOUS
<1>1. IInv' BY NextInv DEF SInv
<1>2. CASE UNCHANGED vars
  <2>1. UNCHANGED <<lifecycle, slint_window, user_closed, opening, reply, jobs, thread, visible,
                    events, asked, taken, opened>>
    BY <1>2 DEF vars, openVars, workerVars, hostVars
  <2> QED BY <1>1, <2>1 DEF SInv, Counted, Unasked, Believed, EndsHidden, EndsShown
<1>3. CASE Next
  <2>1. Counted' /\ Unasked' /\ Believed'
    BY <1>3, QuietSeen, CloseSeen, VisibilitySeen, OpenSeen, WindowlessSeen, WindowSeen,
       ClosureSeen, QuitSeen
    DEF Next, HostNext, OpenNext, WorkerNext
  <2> QED BY <1>1, <2>1 DEF SInv
<1> QED BY <1>2, <1>3

(* What the state machine believes is what the user sees once the loop has *)
(* caught up: an active window with no close pending is on the screen, one *)
(* the host was granted to hide is not (lifecycle.rs:25, gui.rs:612-616).  *)
THEOREM BelievedHolds == Spec => []BelievedIsSeen
<1>1. SInv => BelievedIsSeen
  <2> SUFFICES ASSUME SInv, Settled PROVE
                 /\ lifecycle = "Active" /\ user_closed = None => visible
                 /\ asked = "hide" => ~visible
    BY DEF BelievedIsSeen
  <2>1. slint_window # None /\ thread.at = "looping" /\ Len(events) = 0 BY DEF Settled
  <2>2. \A kind : ~LastIs(events, slint_window, kind) BY <2>1 DEF LastIs
  <2> QED BY <2>1, <2>2 DEF SInv, Believed, EndsHidden, EndsShown
<1> QED BY <1>1, InitSeen, NextSeen, PTL DEF Spec
=============================================================================
