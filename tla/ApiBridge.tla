----------------------------- MODULE ApiBridge -----------------------------
(***************************************************************************)
(* The way of a call from the page to its handler and of the answer back:  *)
(* core.cpp in the renderer process, api_back.cpp in the browser process.  *)
(*                                                                         *)
(* The renderer keeps the promise of a call in callbackMap under an id     *)
(* GenUid draws, and sends the call with the id.  The browser's UI thread  *)
(* starts a thread per call, and the thread answers with the id.  A page   *)
(* may be left and loaded at any time; callbackMap outlives it.            *)
(*                                                                         *)
(* Calls are model values, each made once; which handler runs and what it  *)
(* answers are left out, but for the choice of callback or callback_error. *)
(* The channels between the processes keep the order, as CEF does.         *)
(***************************************************************************)
EXTENDS Integers, Sequences

CONSTANTS
    Call, NoCall,
    Frame, NoFrame,   \* identifiers of frames: a reload may keep or change it
    Instant,          \* milliseconds the wall clock may show; it may be set back
    MaxLoads          \* bound on the page loads

ASSUME CallAssumption == NoCall \notin Call
ASSUME FrameAssumption == NoFrame \notin Frame
ASSUME BoundAssumption == Instant \subseteq Nat /\ MaxLoads \in Nat

VARIABLES
    mainFrame,      \* core::mainFrame, NoFrame for nullptr
    loads,          \* history: how many pages were loaded
    uidLast,        \* GenUid's last identifier, in the renderer
    callbackMap,    \* ids to the calls whose promises they stand for
    promise,        \* the state of each call's promise, in V8
    answer,         \* history: the call whose answer settled a call's promise
    toBrowser,      \* process messages sent by the renderer
    handlers,       \* the calls that threads of the browser work on
    toPage,         \* process messages sent by these threads
    crashed         \* the renderer called through a null promise

pageVars == <<promise, answer>>
browserVars == <<handlers, toPage>>
vars == <<mainFrame, loads, uidLast, callbackMap, pageVars, toBrowser,
          browserVars, crashed>>

Outcome == {"resolved", "rejected"}
PromiseState == {"unmade", "pending", "gone"} \cup Outcome

\* What travels: a call under its id, from the frame that made it; the message
\* sysInit is no call.
Request == [frame : Frame, id : Nat, call : Call]
SysInit(f) == [frame |-> f, id |-> 0, call |-> NoCall]
Answer == [request : Request, outcome : Outcome]

-----------------------------------------------------------------------------
\* Mutant of GenUid: a second identifier in the same millisecond is the same.
GenUidSame(now) == IF uidLast > now THEN uidLast + 1 ELSE now

\* now * 1000 is a whole number of milliseconds until the year 2038: the
\* rounding of the seconds to a double is less than half of its last digit.
GenUid(now) == IF uidLast >= now THEN uidLast + 1 ELSE now

\* Mutant of Stored: key and value swapped.
StoredSwapped(map, id, c) == [i \in DOMAIN map \cup {c} |-> IF i = c THEN id ELSE map[i]]

Stored(map, id, c) == [i \in DOMAIN map \cup {id} |-> IF i = id THEN c ELSE map[i]]

Erased(map, id) == [i \in DOMAIN map \ {id} |-> map[i]]

Init ==
    /\ mainFrame = NoFrame /\ loads = 0
    /\ uidLast = 0 /\ callbackMap = << >>
    /\ promise = [c \in Call |-> "unmade"]
    /\ answer = [c \in Call |-> NoCall]
    /\ toBrowser = << >> /\ handlers = {} /\ toPage = << >>
    /\ crashed = FALSE

-----------------------------------------------------------------------------
(* The renderer. *)

\* The new page has its bindings, and the browser is told to initialise.  That no
\* page is there yet is CEF's doing, which releases the context of a page before
\* it creates the next, and the page's, which has no frames within it.
OnContextCreated(f) ==
    /\ ~crashed /\ mainFrame = NoFrame /\ loads < MaxLoads
    /\ mainFrame' = f /\ loads' = loads + 1
    /\ toBrowser' = Append(toBrowser, SysInit(f))
    /\ UNCHANGED <<uidLast, callbackMap, pageVars, browserVars, crashed>>

\* Mutant of LeftInMap: the map is emptied with the page.
NothingLeft == << >>

\* The promises are gone with their page, but they stay in the map.
LeftInMap == callbackMap

OnContextReleased ==
    /\ ~crashed /\ mainFrame # NoFrame
    /\ mainFrame' = NoFrame
    /\ callbackMap' = LeftInMap
    /\ promise' = [c \in Call |-> IF promise[c] = "pending" THEN "gone" ELSE promise[c]]
    /\ UNCHANGED <<loads, uidLast, answer, toBrowser, browserVars, crashed>>

\* Mutant of Bound: a page that was left may still call.
AlwaysBound == TRUE

Bound == mainFrame # NoFrame

\* ApiHandler::Execute, for a name of jsAsyncFunsMap.
Execute(c, now) ==
    LET id == GenUid(now) IN
    /\ ~crashed /\ Bound /\ promise[c] = "unmade"
    /\ uidLast' = id
    /\ callbackMap' = Stored(callbackMap, id, c)
    /\ promise' = [promise EXCEPT ![c] = "pending"]
    /\ toBrowser' = Append(toBrowser, [frame |-> mainFrame, id |-> id, call |-> c])
    /\ UNCHANGED <<mainFrame, loads, answer, browserVars, crashed>>

\* Both early returns of OnScheduleManagerMessageReceived.
Accepts(m) == mainFrame # NoFrame /\ m.request.frame = mainFrame

\* The call whose promise the map has under the id, if it still waits.
Awaited(id) ==
    {c \in Call : id \in DOMAIN callbackMap /\ callbackMap[id] = c /\ promise[c] = "pending"}

\* The promise found under the id is settled, which has no effect when its page
\* is gone.  operator[] makes a null promise of an id it does not find.
OnMessage ==
    LET m    == Head(toPage)
        id   == m.request.id
        mine == Awaited(id)
    IN
    /\ ~crashed /\ toPage # << >>
    /\ toPage' = Tail(toPage)
    /\ \/ /\ ~Accepts(m)
          /\ UNCHANGED <<callbackMap, pageVars, crashed>>
       \/ /\ Accepts(m)
          /\ crashed' = (id \notin DOMAIN callbackMap)
          /\ callbackMap' = Erased(callbackMap, id)
          /\ promise' = [c \in Call |-> IF c \in mine THEN m.outcome ELSE promise[c]]
          /\ answer' = [c \in Call |-> IF c \in mine THEN m.request.call ELSE answer[c]]
    /\ UNCHANGED <<mainFrame, loads, uidLast, toBrowser, handlers>>

-----------------------------------------------------------------------------
(* The browser. *)

\* Mutant of Started: the browser is busy with one call at a time.
StartedIfIdle(m) == IF m.call = NoCall \/ handlers # {} THEN {} ELSE {m}

Started(m) == IF m.call = NoCall THEN {} ELSE {m}

\* The UI thread runs sysInit itself (what that does is where AlarmClock
\* starts) and starts a thread for any other call.
OnBackMessage ==
    LET m == Head(toBrowser) IN
    /\ toBrowser # << >>
    /\ toBrowser' = Tail(toBrowser)
    /\ handlers' = handlers \cup Started(m)
    /\ UNCHANGED <<mainFrame, loads, uidLast, callbackMap, pageVars, toPage, crashed>>

\* ApiCallback or ApiErrorCallback, with which every path of a handler ends.
ApiCallback(h, outcome) ==
    /\ h \in handlers
    /\ handlers' = handlers \ {h}
    /\ toPage' = Append(toPage, [request |-> h, outcome |-> outcome])
    /\ UNCHANGED <<mainFrame, loads, uidLast, callbackMap, pageVars, toBrowser, crashed>>

-----------------------------------------------------------------------------
Next ==
    \/ \E f \in Frame : OnContextCreated(f)
    \/ OnContextReleased
    \/ \E c \in Call, now \in Instant : Execute(c, now)
    \/ OnMessage
    \/ OnBackMessage
    \/ \E h \in handlers, outcome \in Outcome : ApiCallback(h, outcome)

Spec == Init /\ [][Next]_vars

\* Messages are delivered, and every handler comes to its end.
Return(c) == \E h \in handlers, outcome \in Outcome :
                 h.call = c /\ ApiCallback(h, outcome)
FairSpec ==
    Spec /\ WF_vars(OnMessage) /\ WF_vars(OnBackMessage)
         /\ \A c \in Call : WF_vars(Return(c))

-----------------------------------------------------------------------------
(* Properties. *)

IsMap(map) == DOMAIN map \subseteq Nat /\ map \in [DOMAIN map -> Call]

\* The variables keep their types.
TypeOK ==
    /\ mainFrame \in Frame \cup {NoFrame} /\ loads \in 0 .. MaxLoads
    /\ uidLast \in Nat /\ IsMap(callbackMap)
    /\ promise \in [Call -> PromiseState] /\ answer \in [Call -> Call \cup {NoCall}]
    /\ toBrowser \in Seq(Request \cup {SysInit(f) : f \in Frame})
    /\ handlers \subseteq Request /\ toPage \in Seq(Answer)
    /\ crashed \in BOOLEAN

\* A promise is settled with the answer to its own call, in whatever order the
\* threads answer and however often the page was loaded in between.
AnswerIsOwn == \A c \in Call : answer[c] \in {NoCall, c}

\* The renderer never settles through a null promise: an answer that is let in
\* finds its id in callbackMap, also the answer to a page that is gone.
NoNullPromise == ~crashed

\* A call is settled, unless its page goes first.
EveryCallSettles ==
    \A c \in Call : promise[c] = "pending" ~> promise[c] # "pending"

\* The bridge does what a page relies on.
Calls == INSTANCE PageCalls WITH open <- mainFrame # NoFrame
ImplementsPageCalls == Calls!Spec
=============================================================================
