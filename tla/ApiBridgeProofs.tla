-------------------------- MODULE ApiBridgeProofs --------------------------
(***************************************************************************)
(* Proofs about ApiBridge: type correctness, that a promise is settled     *)
(* with the answer to its own call, and that the bridge implements         *)
(* PageCalls, for any calls, frames, clock and number of page loads.       *)
(***************************************************************************)
EXTENDS ApiBridge, SequenceTheorems, TLAPS

Message == Request \cup {SysInit(f) : f \in Frame}

\* A request that travels has an id GenUid has drawn, and what callbackMap has
\* under the id is the promise of this call.
Known(r) == /\ r.id <= uidLast
            /\ r.id \in DOMAIN callbackMap => callbackMap[r.id] = r.call

IdsMatch ==
    /\ DOMAIN callbackMap \subseteq 1 .. uidLast
    /\ \A i \in DOMAIN toBrowser : Known(toBrowser[i])
    /\ \A h \in handlers : Known(h)
    /\ \A i \in DOMAIN toPage : Known(toPage[i].request)

Inv == TypeOK /\ IdsMatch

\* An identifier is larger than every one before it.
LEMMA GenUidIsFresh ==
    ASSUME uidLast \in Nat, NEW now \in Instant
    PROVE  GenUid(now) \in Nat /\ GenUid(now) > uidLast
BY BoundAssumption DEF GenUid

\* Storing and erasing keep a map a map.
LEMMA StoredIsMap ==
    ASSUME NEW map, IsMap(map), NEW id \in Nat, NEW c \in Call
    PROVE  /\ IsMap(Stored(map, id, c))
           /\ DOMAIN Stored(map, id, c) = DOMAIN map \cup {id}
           /\ \A i \in DOMAIN map : i # id => Stored(map, id, c)[i] = map[i]
           /\ Stored(map, id, c)[id] = c
BY DEF IsMap, Stored

LEMMA ErasedIsMap ==
    ASSUME NEW map, IsMap(map), NEW id
    PROVE  /\ IsMap(Erased(map, id))
           /\ DOMAIN Erased(map, id) = DOMAIN map \ {id}
           /\ \A i \in DOMAIN map \ {id} : Erased(map, id)[i] = map[i]
BY DEF IsMap, Erased

\* What is appended to or taken from a queue.
LEMMA Appended ==
    ASSUME NEW T, NEW s \in Seq(T), NEW e \in T, NEW new, new = Append(s, e)
    PROVE  /\ new \in Seq(T)
           /\ \A i \in DOMAIN new : new[i] = e \/ \E j \in DOMAIN s : new[i] = s[j]
<1>1. new \in Seq(T) /\ Len(new) = Len(s) + 1
  OBVIOUS
<1>2. ASSUME NEW i \in DOMAIN new
      PROVE  new[i] = e \/ \E j \in DOMAIN s : new[i] = s[j]
  <2>1. i \in 1 .. Len(s) + 1
    BY <1>1
  <2>2. CASE i = Len(s) + 1
    BY <2>2
  <2>3. CASE i \in 1 .. Len(s)
    <3>1. new[i] = s[i] /\ i \in DOMAIN s
      BY <2>3
    <3>. QED
      BY <3>1
  <2>. QED
    BY <2>1, <2>2, <2>3
<1>. QED
  BY <1>1, <1>2

LEMMA Taken ==
    ASSUME NEW T, NEW s \in Seq(T), s # << >>, NEW new, new = Tail(s)
    PROVE  /\ new \in Seq(T)
           /\ Head(s) \in T /\ 1 \in DOMAIN s /\ Head(s) = s[1]
           /\ \A i \in DOMAIN new : \E j \in DOMAIN s : new[i] = s[j]
<1>1. new \in Seq(T) /\ Len(new) = Len(s) - 1 /\ Len(s) \in Nat /\ Len(s) > 0
  OBVIOUS
<1>2. Head(s) \in T /\ 1 \in DOMAIN s /\ Head(s) = s[1]
  BY <1>1
<1>3. ASSUME NEW i \in DOMAIN new
      PROVE  \E j \in DOMAIN s : new[i] = s[j]
  <2>1. i \in 1 .. Len(s) - 1
    BY <1>1
  <2>2. i + 1 \in DOMAIN s /\ new[i] = s[i + 1]
    BY <2>1, <1>1
  <2>. QED
    BY <2>2
<1>. QED
  BY <1>1, <1>2, <1>3

\* The invariant holds at the start.
LEMMA InitInv == Init => Inv
<1>. SUFFICES ASSUME Init PROVE Inv
  OBVIOUS
<1>1. IsMap(callbackMap)
  BY DEF Init, IsMap
<1>2. mainFrame \in Frame \cup {NoFrame} /\ loads \in 0 .. MaxLoads /\ uidLast \in Nat
  BY BoundAssumption DEF Init
<1>3. promise \in [Call -> PromiseState] /\ answer \in [Call -> Call \cup {NoCall}]
  BY DEF Init, PromiseState
<1>4. toBrowser \in Seq(Message) /\ handlers \subseteq Request /\ toPage \in Seq(Answer)
  BY DEF Init
<1>5. crashed \in BOOLEAN
  BY DEF Init
<1>6. IdsMatch
  BY DEF Init, IdsMatch
<1>. QED
  BY <1>1, <1>2, <1>3, <1>4, <1>5, <1>6 DEF Inv, TypeOK, Message

\* What is known of a request stays known when only younger ids are stored, and
\* when ids are erased.
LEMMA KnownAfterStore ==
    ASSUME TypeOK, NEW id \in Nat, id > uidLast, NEW c \in Call,
           uidLast' = id, callbackMap' = Stored(callbackMap, id, c),
           NEW r, r.id \in Nat, Known(r)
    PROVE  Known(r)'
<1>1. IsMap(callbackMap) /\ uidLast \in Nat
  BY DEF TypeOK
<1>2. r.id <= uidLast /\ r.id < id
  BY <1>1 DEF Known
<1>3. ASSUME r.id \in DOMAIN callbackMap' PROVE callbackMap'[r.id] = r.call
  <2>1. PICK map : map = callbackMap
    OBVIOUS
  <2>2. IsMap(map) /\ callbackMap' = Stored(map, id, c)
    BY <1>1, <2>1
  <2>3. /\ DOMAIN Stored(map, id, c) = DOMAIN map \cup {id}
        /\ \A i \in DOMAIN map : i # id => Stored(map, id, c)[i] = map[i]
    BY <2>2, StoredIsMap
  <2>4. r.id \in DOMAIN map /\ r.id # id
    BY <1>1, <1>2, <1>3, <2>2, <2>3
  <2>5. r.id \in DOMAIN callbackMap /\ callbackMap'[r.id] = callbackMap[r.id]
    BY <2>1, <2>2, <2>3, <2>4
  <2>. QED
    BY <2>5 DEF Known
<1>. QED
  BY <1>1, <1>2, <1>3 DEF Known

LEMMA KnownAfterErase ==
    ASSUME TypeOK, NEW id, uidLast' = uidLast,
           callbackMap' = Erased(callbackMap, id), NEW r, Known(r)
    PROVE  Known(r)'
<1>1. IsMap(callbackMap)
  BY DEF TypeOK
<1>2. ASSUME r.id \in DOMAIN callbackMap' PROVE callbackMap'[r.id] = r.call
  <2>1. r.id \in DOMAIN callbackMap /\ callbackMap'[r.id] = callbackMap[r.id]
    BY <1>2 DEF Erased
  <2>. QED
    BY <2>1 DEF Known
<1>. QED
  BY <1>2 DEF Known

\* A step of the page's life: contexts come and go, requests do not change.
LEMMA ContextCreatedInv ==
    ASSUME Inv, NEW f \in Frame, OnContextCreated(f)
    PROVE  Inv'
<1>. USE DEF Inv
<1>1. UNCHANGED <<uidLast, callbackMap, promise, answer, handlers, toPage, crashed>>
  BY DEF OnContextCreated, pageVars, browserVars
<1>2. toBrowser \in Seq(Message) /\ SysInit(f) \in Message
  BY DEF TypeOK, Message
<1>3. toBrowser' = Append(toBrowser, SysInit(f))
  BY DEF OnContextCreated
<1>4. /\ toBrowser' \in Seq(Message)
      /\ \A i \in DOMAIN toBrowser' :
            toBrowser'[i] = SysInit(f) \/ \E j \in DOMAIN toBrowser : toBrowser'[i] = toBrowser[j]
  BY <1>2, <1>3, Appended
<1>5. mainFrame' \in Frame \cup {NoFrame} /\ loads' \in 0 .. MaxLoads
  BY BoundAssumption DEF OnContextCreated, TypeOK
<1>6. TypeOK'
  BY <1>1, <1>4, <1>5 DEF TypeOK, Message
<1>7. Known(SysInit(f))
  <2>1. SysInit(f).id = 0 /\ uidLast \in Nat /\ DOMAIN callbackMap \subseteq 1 .. uidLast
    BY DEF SysInit, TypeOK, IdsMatch
  <2>. QED
    BY <2>1 DEF Known
<1>8. ASSUME NEW r, Known(r) PROVE Known(r)'
  BY <1>1, <1>8 DEF Known
<1>9. ASSUME NEW i \in DOMAIN toBrowser' PROVE Known(toBrowser[i])'
  <2>1. PICK r : r = toBrowser'[i]
    OBVIOUS
  <2>2. Known(r)
    BY <1>4, <1>7, <2>1 DEF IdsMatch
  <2>3. Known(r)'
    BY <1>8, <2>2
  <2>. QED
    BY <2>1, <2>3 DEF Known
<1>10. IdsMatch'
  BY <1>1, <1>8, <1>9 DEF IdsMatch
<1>. QED
  BY <1>6, <1>10

LEMMA ContextReleasedInv ==
    ASSUME Inv, OnContextReleased
    PROVE  Inv'
<1>. USE DEF Inv
<1>1. UNCHANGED <<loads, uidLast, callbackMap, answer, toBrowser, handlers, toPage, crashed>>
  BY DEF OnContextReleased, LeftInMap, browserVars
<1>2. promise' \in [Call -> PromiseState]
  BY DEF OnContextReleased, TypeOK, PromiseState
<1>3. mainFrame' \in Frame \cup {NoFrame}
  BY DEF OnContextReleased
<1>4. TypeOK'
  BY <1>1, <1>2, <1>3 DEF TypeOK
<1>5. IdsMatch'
  BY <1>1 DEF IdsMatch, Known
<1>. QED
  BY <1>4, <1>5

\* A call is stored under an identifier of its own and sent.
LEMMA ExecuteInv ==
    ASSUME Inv, NEW c \in Call, NEW now \in Instant, Execute(c, now)
    PROVE  Inv'
<1>. USE DEF Inv
<1>1. PICK id : id = GenUid(now)
  OBVIOUS
<1>2. id \in Nat /\ id > uidLast /\ uidLast \in Nat
  BY <1>1, GenUidIsFresh DEF TypeOK
<1>3. PICK m : m = [frame |-> mainFrame, id |-> id, call |-> c]
  OBVIOUS
<1>4. /\ uidLast' = id
      /\ callbackMap' = Stored(callbackMap, id, c)
      /\ toBrowser' = Append(toBrowser, m)
      /\ promise' = [promise EXCEPT ![c] = "pending"]
      /\ UNCHANGED <<mainFrame, loads, answer, handlers, toPage, crashed>>
      /\ mainFrame # NoFrame
  BY <1>1, <1>3 DEF Execute, Bound, browserVars
<1>5. m \in Request /\ m \in Message
  BY <1>2, <1>3, <1>4 DEF TypeOK, Request, Message
<1>6. toBrowser \in Seq(Message)
  BY DEF TypeOK, Message
<1>7. /\ toBrowser' \in Seq(Message)
      /\ \A i \in DOMAIN toBrowser' :
            toBrowser'[i] = m \/ \E j \in DOMAIN toBrowser : toBrowser'[i] = toBrowser[j]
  BY <1>4, <1>5, <1>6, Appended
<1>8. PICK map : map = callbackMap
  OBVIOUS
<1>9. IsMap(map) /\ callbackMap' = Stored(map, id, c)
  BY <1>4, <1>8 DEF TypeOK
<1>10. /\ IsMap(callbackMap') /\ DOMAIN callbackMap' = DOMAIN map \cup {id}
       /\ callbackMap'[id] = c
  BY <1>2, <1>9, StoredIsMap
<1>11. promise' \in [Call -> PromiseState]
  BY <1>4 DEF TypeOK, PromiseState
<1>12. TypeOK'
  BY <1>2, <1>4, <1>7, <1>10, <1>11 DEF TypeOK, Message
<1>13. DOMAIN callbackMap' \subseteq 1 .. uidLast'
  <2>1. DOMAIN map \subseteq 1 .. uidLast
    BY <1>8 DEF IdsMatch
  <2>. QED
    BY <1>2, <1>4, <1>10, <2>1
<1>14. Known(m)'
  BY <1>2, <1>3, <1>4, <1>10 DEF Known
<1>15. ASSUME NEW r, r.id \in Nat, Known(r) PROVE Known(r)'
  BY <1>2, <1>4, <1>15, KnownAfterStore
<1>16. ASSUME NEW i \in DOMAIN toBrowser' PROVE Known(toBrowser[i])'
  <2>1. PICK r : r = toBrowser'[i]
    OBVIOUS
  <2>2. CASE r = m
    BY <1>14, <2>1, <2>2 DEF Known
  <2>3. CASE \E j \in DOMAIN toBrowser : r = toBrowser[j]
    <3>1. r.id \in Nat
      BY <1>6, <2>3, ElementOfSeq DEF Message, Request, SysInit
    <3>2. Known(r)
      BY <2>3 DEF IdsMatch
    <3>3. Known(r)'
      BY <1>15, <3>1, <3>2
    <3>. QED
      BY <2>1, <3>3 DEF Known
  <2>. QED
    BY <1>7, <2>1, <2>2, <2>3
<1>17. ASSUME NEW h \in handlers PROVE Known(h)'
  BY <1>15 DEF TypeOK, IdsMatch, Request
<1>18. ASSUME NEW i \in DOMAIN toPage PROVE Known(toPage[i].request)'
  <2>1. PICK r : r = toPage[i].request
    OBVIOUS
  <2>2. toPage[i] \in Answer
    BY ElementOfSeq DEF TypeOK
  <2>3. r.id \in Nat /\ Known(r)
    BY <2>1, <2>2 DEF Answer, Request, IdsMatch
  <2>4. Known(r)'
    BY <1>15, <2>3
  <2>. QED
    BY <1>4, <2>1, <2>4 DEF Known
<1>19. IdsMatch'
  BY <1>4, <1>13, <1>16, <1>17, <1>18 DEF IdsMatch
<1>. QED
  BY <1>12, <1>19

\* An answer takes its id out of the map; the others stay known.
LEMMA OnMessageInv ==
    ASSUME Inv, OnMessage
    PROVE  Inv'
<1>. USE DEF Inv
<1>1. PICK m : m = Head(toPage)
  OBVIOUS
<1>2. /\ toPage # << >> /\ toPage' = Tail(toPage)
      /\ UNCHANGED <<mainFrame, loads, uidLast, toBrowser, handlers>>
  BY DEF OnMessage
<1>3. toPage \in Seq(Answer)
  BY DEF TypeOK
<1>4. /\ toPage' \in Seq(Answer) /\ Head(toPage) \in Answer
      /\ \A i \in DOMAIN toPage' : \E j \in DOMAIN toPage : toPage'[i] = toPage[j]
  BY <1>2, <1>3, Taken
<1>5. CASE UNCHANGED <<callbackMap, pageVars, crashed>>
  <2>1. TypeOK'
    BY <1>2, <1>4, <1>5 DEF TypeOK, pageVars
  <2>2. IdsMatch'
    BY <1>2, <1>4, <1>5 DEF IdsMatch, Known
  <2>. QED
    BY <2>1, <2>2
<1>6. CASE /\ crashed' = (m.request.id \notin DOMAIN callbackMap)
           /\ callbackMap' = Erased(callbackMap, m.request.id)
           /\ promise' = [c \in Call |-> IF c \in Awaited(m.request.id)
                                        THEN m.outcome ELSE promise[c]]
           /\ answer' = [c \in Call |-> IF c \in Awaited(m.request.id)
                                       THEN m.request.call ELSE answer[c]]
  <2>1. m.outcome \in PromiseState /\ m.request.call \in Call
    BY <1>1, <1>4 DEF Answer, Request, PromiseState
  <2>2. promise' \in [Call -> PromiseState] /\ answer' \in [Call -> Call \cup {NoCall}]
    BY <1>6, <2>1 DEF TypeOK
  <2>3. PICK map : map = callbackMap
    OBVIOUS
  <2>4. PICK id : id = m.request.id
    OBVIOUS
  <2>5. IsMap(callbackMap') /\ DOMAIN callbackMap' \subseteq DOMAIN map
    <3>1. IsMap(map) /\ callbackMap' = Erased(map, id)
      BY <1>6, <2>3, <2>4 DEF TypeOK
    <3>2. IsMap(Erased(map, id)) /\ DOMAIN Erased(map, id) = DOMAIN map \ {id}
      BY <3>1, ErasedIsMap
    <3>. QED
      BY <3>1, <3>2
  <2>6. TypeOK'
    BY <1>2, <1>4, <1>6, <2>2, <2>5 DEF TypeOK
  <2>7. ASSUME NEW r, Known(r) PROVE Known(r)'
    BY <1>2, <1>6, <2>7, KnownAfterErase
  <2>8. ASSUME NEW i \in DOMAIN toPage' PROVE Known(toPage[i].request)'
    <3>1. PICK r : r = toPage'[i].request
      OBVIOUS
    <3>2. Known(r)
      BY <1>4, <3>1 DEF IdsMatch
    <3>3. Known(r)'
      BY <2>7, <3>2
    <3>. QED
      BY <3>1, <3>3 DEF Known
  <2>9. \A i \in DOMAIN toBrowser : Known(toBrowser[i])'
    <3>1. ASSUME NEW i \in DOMAIN toBrowser PROVE Known(toBrowser[i])'
      <4>1. PICK r : r = toBrowser[i]
        OBVIOUS
      <4>2. Known(r)'
        BY <2>7, <4>1 DEF IdsMatch
      <4>. QED
        BY <1>2, <4>1, <4>2 DEF Known
    <3>. QED
      BY <3>1
  <2>10. \A h \in handlers : Known(h)'
    BY <2>7 DEF IdsMatch
  <2>11. DOMAIN callbackMap' \subseteq 1 .. uidLast'
    BY <1>2, <2>3, <2>5 DEF IdsMatch
  <2>12. IdsMatch'
    BY <1>2, <2>8, <2>9, <2>10, <2>11 DEF IdsMatch
  <2>. QED
    BY <2>6, <2>12
<1>. QED
  BY <1>1, <1>5, <1>6 DEF OnMessage

\* The browser takes a request from the queue and lets a thread work on it.
LEMMA OnBackMessageInv ==
    ASSUME Inv, OnBackMessage
    PROVE  Inv'
<1>. USE DEF Inv
<1>1. PICK m : m = Head(toBrowser)
  OBVIOUS
<1>2. /\ toBrowser # << >> /\ toBrowser' = Tail(toBrowser)
      /\ handlers' = handlers \cup Started(m)
      /\ UNCHANGED <<mainFrame, loads, uidLast, callbackMap, promise, answer, toPage, crashed>>
  BY <1>1 DEF OnBackMessage, pageVars
<1>3. toBrowser \in Seq(Message)
  BY DEF TypeOK, Message
<1>4. /\ toBrowser' \in Seq(Message) /\ m \in Message
      /\ 1 \in DOMAIN toBrowser /\ m = toBrowser[1]
      /\ \A i \in DOMAIN toBrowser' : \E j \in DOMAIN toBrowser : toBrowser'[i] = toBrowser[j]
  BY <1>1, <1>2, <1>3, Taken
<1>5. Started(m) \subseteq {m} /\ (Started(m) # {} => m \in Request)
  BY <1>4, CallAssumption DEF Started, Message, SysInit, Request
<1>6. TypeOK'
  BY <1>2, <1>4, <1>5 DEF TypeOK, Message
<1>7. Known(m)
  BY <1>4 DEF IdsMatch
<1>8. \A h \in handlers' : Known(h)
  BY <1>2, <1>5, <1>7 DEF IdsMatch
<1>9. \A i \in DOMAIN toBrowser' : Known(toBrowser'[i])
  BY <1>4 DEF IdsMatch
<1>10. IdsMatch'
  BY <1>2, <1>8, <1>9 DEF IdsMatch, Known
<1>. QED
  BY <1>6, <1>10

\* A thread answers under the id it was given.
LEMMA ApiCallbackInv ==
    ASSUME Inv, NEW h \in handlers, NEW outcome \in Outcome, ApiCallback(h, outcome)
    PROVE  Inv'
<1>. USE DEF Inv
<1>1. PICK m : m = [request |-> h, outcome |-> outcome]
  OBVIOUS
<1>2. /\ handlers' = handlers \ {h} /\ toPage' = Append(toPage, m)
      /\ UNCHANGED <<mainFrame, loads, uidLast, callbackMap, promise, answer,
                     toBrowser, crashed>>
  BY <1>1 DEF ApiCallback, pageVars
<1>3. toPage \in Seq(Answer) /\ m \in Answer
  BY <1>1 DEF TypeOK, Answer
<1>4. /\ toPage' \in Seq(Answer)
      /\ \A i \in DOMAIN toPage' :
            toPage'[i] = m \/ \E j \in DOMAIN toPage : toPage'[i] = toPage[j]
  BY <1>2, <1>3, Appended
<1>5. TypeOK'
  BY <1>2, <1>4 DEF TypeOK
<1>6. Known(m.request)
  BY <1>1 DEF IdsMatch
<1>7. \A i \in DOMAIN toPage' : Known(toPage'[i].request)
  BY <1>4, <1>6 DEF IdsMatch
<1>8. IdsMatch'
  BY <1>2, <1>7 DEF IdsMatch, Known
<1>. QED
  BY <1>5, <1>8

LEMMA NextInv == Inv /\ [Next]_vars => Inv'
<1>. SUFFICES ASSUME Inv, [Next]_vars PROVE Inv'
  OBVIOUS
<1>1. CASE \E f \in Frame : OnContextCreated(f)
  BY <1>1, ContextCreatedInv
<1>2. CASE OnContextReleased
  BY <1>2, ContextReleasedInv
<1>3. CASE \E c \in Call, now \in Instant : Execute(c, now)
  BY <1>3, ExecuteInv
<1>4. CASE OnMessage
  BY <1>4, OnMessageInv
<1>5. CASE OnBackMessage
  BY <1>5, OnBackMessageInv
<1>6. CASE \E h \in handlers, outcome \in Outcome : ApiCallback(h, outcome)
  BY <1>6, ApiCallbackInv
<1>7. CASE UNCHANGED vars
  <2>1. TypeOK'
    BY <1>7 DEF Inv, TypeOK, vars, pageVars, browserVars
  <2>2. IdsMatch'
    BY <1>7 DEF Inv, IdsMatch, Known, vars, pageVars, browserVars
  <2>. QED
    BY <2>1, <2>2 DEF Inv
<1>. QED
  BY <1>1, <1>2, <1>3, <1>4, <1>5, <1>6, <1>7 DEF Next

LEMMA InvHolds == Spec => []Inv
<1>. QED
  BY InitInv, NextInv, PTL DEF Spec

\* The variables of the bridge keep their types, whatever the clock shows and
\* however often the page is loaded.
THEOREM TypeCorrect == Spec => []TypeOK
<1>1. Inv => TypeOK
  BY DEF Inv
<1>. QED
  BY <1>1, InvHolds, PTL

-----------------------------------------------------------------------------
\* What an answer that is let in does to the promises.

\* The only promise an answer can settle is the one of the call it answers.
LEMMA OwnPromise ==
    ASSUME Inv, NEW m, toPage # << >>, m = Head(toPage),
           NEW c \in Awaited(m.request.id)
    PROVE  c = m.request.call /\ promise[c] = "pending"
<1>1. toPage \in Seq(Answer)
  BY DEF Inv, TypeOK
<1>2. 1 \in DOMAIN toPage /\ m = toPage[1]
  BY <1>1, Taken
<1>3. Known(m.request)
  BY <1>2 DEF Inv, IdsMatch
<1>. QED
  BY <1>3 DEF Awaited, Known

\* OnMessage either leaves the promises alone or settles one that waits, with
\* the answer to its own call.
LEMMA MessageSettles ==
    ASSUME Inv, OnMessage
    PROVE  \/ UNCHANGED pageVars
           \/ \E c \in Call, outcome \in Outcome :
                 /\ mainFrame # NoFrame /\ promise[c] = "pending"
                 /\ promise' = [promise EXCEPT ![c] = outcome]
                 /\ answer' = [answer EXCEPT ![c] = c]
<1>1. PICK m : m = Head(toPage)
  OBVIOUS
<1>2. toPage # << >>
  BY DEF OnMessage
<1>3. promise \in [Call -> PromiseState] /\ answer \in [Call -> Call \cup {NoCall}]
  BY DEF Inv, TypeOK
<1>4. CASE UNCHANGED pageVars
  BY <1>4
<1>5. CASE /\ Accepts(m)
           /\ promise' = [c \in Call |-> IF c \in Awaited(m.request.id)
                                        THEN m.outcome ELSE promise[c]]
           /\ answer' = [c \in Call |-> IF c \in Awaited(m.request.id)
                                       THEN m.request.call ELSE answer[c]]
  <2>1. CASE Awaited(m.request.id) = {}
    <3>1. promise' = promise /\ answer' = answer
      BY <1>3, <1>5, <2>1
    <3>. QED
      BY <3>1 DEF pageVars
  <2>2. CASE Awaited(m.request.id) # {}
    <3>1. PICK d : d \in Awaited(m.request.id)
      BY <2>2
    <3>2. \A c \in Awaited(m.request.id) : c = m.request.call /\ promise[c] = "pending"
      BY <1>1, <1>2, OwnPromise
    <3>3. d \in Call /\ d = m.request.call /\ promise[d] = "pending"
      BY <3>1, <3>2 DEF Awaited
    <3>4. Awaited(m.request.id) = {d}
      BY <3>1, <3>2, <3>3
    <3>5. promise' = [promise EXCEPT ![d] = m.outcome]
      BY <1>3, <1>5, <3>4
    <3>6. answer' = [answer EXCEPT ![d] = d]
      BY <1>3, <1>5, <3>3, <3>4
    <3>7. m.outcome \in Outcome
      <4>1. toPage \in Seq(Answer)
        BY DEF Inv, TypeOK
      <4>2. m \in Answer
        BY <1>1, <1>2, <4>1, Taken
      <4>. QED
        BY <4>2 DEF Answer
    <3>8. mainFrame # NoFrame
      BY <1>5 DEF Accepts
    <3>. QED
      BY <3>3, <3>5, <3>6, <3>7, <3>8
  <2>. QED
    BY <2>1, <2>2
<1>. QED
  BY <1>1, <1>4, <1>5 DEF OnMessage

\* No step but OnMessage answers a call, and OnMessage answers it as its own.
LEMMA NextOwn ==
    ASSUME Inv, AnswerIsOwn, [Next]_vars
    PROVE  AnswerIsOwn'
<1>1. CASE OnMessage
  <2>1. answer \in [Call -> Call \cup {NoCall}]
    BY DEF Inv, TypeOK
  <2>2. CASE UNCHANGED pageVars
    BY <2>2 DEF AnswerIsOwn, pageVars
  <2>3. CASE \E c \in Call : answer' = [answer EXCEPT ![c] = c]
    BY <2>1, <2>3 DEF AnswerIsOwn
  <2>. QED
    BY <1>1, <2>2, <2>3, MessageSettles
<1>2. CASE UNCHANGED answer
  BY <1>2 DEF AnswerIsOwn
<1>. QED
  BY <1>1, <1>2 DEF Next, OnContextCreated, OnContextReleased, Execute,
     OnBackMessage, ApiCallback, vars, pageVars

\* A promise is settled with the answer to its own call, for any number of calls
\* under way, in whatever order they are answered and under any clock.
THEOREM AnswersAreOwn == Spec => []AnswerIsOwn
<1>1. Init => AnswerIsOwn
  BY DEF Init, AnswerIsOwn
<1>2. Inv /\ AnswerIsOwn /\ [Next]_vars => AnswerIsOwn'
  BY NextOwn
<1>. QED
  BY <1>1, <1>2, InvHolds, PTL DEF Spec

-----------------------------------------------------------------------------
\* Every step of the bridge is a step of PageCalls or leaves its variables alone.
LEMMA StepImplements ==
    ASSUME Inv, [Next]_vars
    PROVE  [Calls!Next]_(Calls!vars)
<1>1. CASE \E f \in Frame : OnContextCreated(f)
  <2>1. PICK f \in Frame : OnContextCreated(f)
    BY <1>1
  <2>2. Calls!Load
    BY <2>1, FrameAssumption DEF OnContextCreated, pageVars, Calls!Load
  <2>. QED
    BY <2>2 DEF Calls!Next
<1>2. CASE OnContextReleased
  <2>1. Calls!Unload
    BY <1>2 DEF OnContextReleased, Calls!Unload
  <2>. QED
    BY <2>1 DEF Calls!Next
<1>3. CASE \E c \in Call, now \in Instant : Execute(c, now)
  <2>1. PICK c \in Call, now \in Instant : Execute(c, now)
    BY <1>3
  <2>2. Calls!Make(c)
    BY <2>1 DEF Execute, Bound, Calls!Make
  <2>. QED
    BY <2>2 DEF Calls!Next
<1>4. CASE OnMessage
  <2>1. mainFrame' = mainFrame
    BY <1>4 DEF OnMessage
  <2>2. CASE UNCHANGED pageVars
    BY <2>1, <2>2 DEF pageVars, Calls!vars
  <2>3. CASE \E c \in Call, outcome \in Outcome :
                 /\ mainFrame # NoFrame /\ promise[c] = "pending"
                 /\ promise' = [promise EXCEPT ![c] = outcome]
                 /\ answer' = [answer EXCEPT ![c] = c]
    <3>1. PICK c \in Call, outcome \in Outcome :
                 /\ mainFrame # NoFrame /\ promise[c] = "pending"
                 /\ promise' = [promise EXCEPT ![c] = outcome]
                 /\ answer' = [answer EXCEPT ![c] = c]
      BY <2>3
    <3>2. Calls!Settle(c, outcome)
      BY <2>1, <3>1 DEF Calls!Settle
    <3>3. outcome \in Calls!Outcome
      BY DEF Outcome, Calls!Outcome
    <3>. QED
      BY <3>2, <3>3 DEF Calls!Next
  <2>. QED
    BY <1>4, <2>2, <2>3, MessageSettles
<1>5. CASE \/ OnBackMessage
           \/ \E h \in handlers, outcome \in Outcome : ApiCallback(h, outcome)
           \/ UNCHANGED vars
  <2>1. UNCHANGED <<mainFrame, promise, answer>>
    BY <1>5 DEF OnBackMessage, ApiCallback, vars, pageVars
  <2>. QED
    BY <2>1 DEF Calls!vars
<1>. QED
  BY <1>1, <1>2, <1>3, <1>4, <1>5 DEF Next

\* The bridge implements what a page relies on: a call is settled at most once,
\* with its own answer, and only while the page that made it is there.
THEOREM BridgeImplements == Spec => ImplementsPageCalls
<1>1. Init => Calls!Init
  BY DEF Init, Calls!Init
<1>2. Inv /\ [Next]_vars => [Calls!Next]_(Calls!vars)
  BY StepImplements
<1>. QED
  BY <1>1, <1>2, InvHolds, PTL DEF Spec, ImplementsPageCalls, Calls!Spec

-----------------------------------------------------------------------------
(* No null promise. *)

\* The message is a call and not sysInit.
IsCall(m) == m.call # NoCall

\* Whatever travels or is worked on has its promise in the map.
AllInMap ==
    /\ \A i \in DOMAIN toBrowser :
          IsCall(toBrowser[i]) => toBrowser[i].id \in DOMAIN callbackMap
    /\ \A h \in handlers : h.id \in DOMAIN callbackMap
    /\ \A i \in DOMAIN toPage : toPage[i].request.id \in DOMAIN callbackMap

\* Every id is in one place: sent, worked on or answered.
IdsOnce ==
    /\ \A i, j \in DOMAIN toBrowser :
          /\ IsCall(toBrowser[i]) /\ IsCall(toBrowser[j])
          /\ toBrowser[i].id = toBrowser[j].id
          => i = j
    /\ \A g, h \in handlers : g.id = h.id => g = h
    /\ \A i, j \in DOMAIN toPage : toPage[i].request.id = toPage[j].request.id => i = j
    /\ \A i \in DOMAIN toBrowser, h \in handlers :
          IsCall(toBrowser[i]) => toBrowser[i].id # h.id
    /\ \A i \in DOMAIN toBrowser, j \in DOMAIN toPage :
          IsCall(toBrowser[i]) => toBrowser[i].id # toPage[j].request.id
    /\ \A h \in handlers, j \in DOMAIN toPage : h.id # toPage[j].request.id

Whole == Inv /\ AllInMap /\ IdsOnce /\ ~crashed

\* The places of what is appended, and of what is left when the first is taken.
LEMMA AppendedPlaces ==
    ASSUME NEW T, NEW s \in Seq(T), NEW e \in T, NEW new, new = Append(s, e)
    PROVE  \A i \in DOMAIN new :
              (i = Len(s) + 1 /\ new[i] = e) \/ (i \in DOMAIN s /\ new[i] = s[i])
<1>. SUFFICES ASSUME NEW i \in DOMAIN new
              PROVE  (i = Len(s) + 1 /\ new[i] = e) \/ (i \in DOMAIN s /\ new[i] = s[i])
  OBVIOUS
<1>1. i \in 1 .. Len(s) + 1 /\ Len(s) \in Nat
  OBVIOUS
<1>2. CASE i = Len(s) + 1
  BY <1>2
<1>3. CASE i \in 1 .. Len(s)
  BY <1>3
<1>. QED
  BY <1>1, <1>2, <1>3

LEMMA TakenPlaces ==
    ASSUME NEW T, NEW s \in Seq(T), s # << >>, NEW new, new = Tail(s)
    PROVE  \A i \in DOMAIN new : i \in Nat /\ i + 1 \in DOMAIN s /\ i + 1 # 1 /\ new[i] = s[i + 1]
<1>1. new \in Seq(T) /\ Len(new) = Len(s) - 1 /\ Len(s) \in Nat /\ Len(s) > 0
  OBVIOUS
<1>. SUFFICES ASSUME NEW i \in DOMAIN new
              PROVE  i \in Nat /\ i + 1 \in DOMAIN s /\ i + 1 # 1 /\ new[i] = s[i + 1]
  OBVIOUS
<1>2. i \in 1 .. Len(s) - 1
  BY <1>1
<1>. QED
  BY <1>1, <1>2

\* sysInit is not a call, and a new page changes nothing else.
LEMMA ContextCreatedWhole ==
    ASSUME Whole, NEW f \in Frame, OnContextCreated(f)
    PROVE  AllInMap' /\ IdsOnce' /\ ~crashed'
<1>1. UNCHANGED <<callbackMap, handlers, toPage, crashed>>
  BY DEF OnContextCreated, browserVars
<1>2. PICK m \in Message : m = SysInit(f)
  BY DEF Message
<1>3. toBrowser \in Seq(Message) /\ toBrowser' = Append(toBrowser, m)
  BY <1>2 DEF Whole, Inv, TypeOK, Message, OnContextCreated
<1>4. ~IsCall(m)
  BY <1>2 DEF IsCall, SysInit
<1>5. \A i \in DOMAIN toBrowser' :
         IsCall(toBrowser'[i]) => i \in DOMAIN toBrowser /\ toBrowser'[i] = toBrowser[i]
  BY <1>3, <1>4, AppendedPlaces
<1>6. AllInMap'
  BY <1>1, <1>5 DEF Whole, AllInMap, IsCall
<1>7. IdsOnce'
  BY <1>1, <1>5 DEF Whole, IdsOnce, IsCall
<1>. QED
  BY <1>1, <1>6, <1>7 DEF Whole

LEMMA ContextReleasedWhole ==
    ASSUME Whole, OnContextReleased
    PROVE  AllInMap' /\ IdsOnce' /\ ~crashed'
BY DEF Whole, AllInMap, IdsOnce, IsCall, OnContextReleased, LeftInMap, browserVars

\* A call is sent under an id that is nowhere yet and has just been stored.
LEMMA ExecuteWhole ==
    ASSUME Whole, NEW c \in Call, NEW now \in Instant, Execute(c, now)
    PROVE  AllInMap' /\ IdsOnce' /\ ~crashed'
<1>1. PICK id : id = GenUid(now)
  OBVIOUS
<1>2. id \in Nat /\ id > uidLast /\ uidLast \in Nat
  BY <1>1, GenUidIsFresh DEF Whole, Inv, TypeOK
<1>3. PICK m : m = [frame |-> mainFrame, id |-> id, call |-> c]
  OBVIOUS
<1>4. /\ callbackMap' = Stored(callbackMap, id, c)
      /\ toBrowser' = Append(toBrowser, m)
      /\ UNCHANGED <<handlers, toPage, crashed>>
      /\ mainFrame # NoFrame
  BY <1>1, <1>3 DEF Execute, Bound, browserVars
<1>5. m \in Message /\ m.id = id
  BY <1>2, <1>3, <1>4 DEF Whole, Inv, TypeOK, Request, Message
<1>6. toBrowser \in Seq(Message)
  BY DEF Whole, Inv, TypeOK, Message
<1>7. \A i \in DOMAIN toBrowser' :
         \/ i = Len(toBrowser) + 1 /\ toBrowser'[i] = m
         \/ i \in DOMAIN toBrowser /\ toBrowser'[i] = toBrowser[i]
  BY <1>4, <1>5, <1>6, AppendedPlaces
<1>8. DOMAIN callbackMap' = DOMAIN callbackMap \cup {id}
  BY <1>4 DEF Stored
<1>9. /\ \A i \in DOMAIN toBrowser : toBrowser[i].id # id
      /\ \A h \in handlers : h.id # id
      /\ \A i \in DOMAIN toPage : toPage[i].request.id # id
  BY <1>2 DEF Whole, Inv, IdsMatch, Known
<1>10. AllInMap'
  BY <1>4, <1>5, <1>7, <1>8 DEF Whole, AllInMap, IsCall
<1>11. IdsOnce'
  <2>1. ASSUME NEW i \in DOMAIN toBrowser', NEW j \in DOMAIN toBrowser',
               IsCall(toBrowser'[i]), IsCall(toBrowser'[j]),
               toBrowser'[i].id = toBrowser'[j].id
        PROVE  i = j
    BY <1>5, <1>7, <1>9, <2>1 DEF Whole, IdsOnce, IsCall
  <2>2. ASSUME NEW i \in DOMAIN toBrowser', NEW h \in handlers, IsCall(toBrowser'[i])
        PROVE  toBrowser'[i].id # h.id
    BY <1>5, <1>7, <1>9, <2>2 DEF Whole, IdsOnce, IsCall
  <2>3. ASSUME NEW i \in DOMAIN toBrowser', NEW j \in DOMAIN toPage, IsCall(toBrowser'[i])
        PROVE  toBrowser'[i].id # toPage[j].request.id
    BY <1>5, <1>7, <1>9, <2>3 DEF Whole, IdsOnce, IsCall
  <2>. QED
    BY <1>4, <2>1, <2>2, <2>3 DEF Whole, IdsOnce, IsCall
<1>. QED
  BY <1>4, <1>10, <1>11 DEF Whole

\* The answer finds its id, and the other ids that travel stay in the map.
LEMMA OnMessageWhole ==
    ASSUME Whole, OnMessage
    PROVE  AllInMap' /\ IdsOnce' /\ ~crashed'
<1>1. PICK m : m = Head(toPage)
  OBVIOUS
<1>2. /\ toPage # << >> /\ toPage' = Tail(toPage)
      /\ UNCHANGED <<toBrowser, handlers>>
  BY DEF OnMessage
<1>3. toPage \in Seq(Answer)
  BY DEF Whole, Inv, TypeOK
<1>4. 1 \in DOMAIN toPage /\ m = toPage[1]
  BY <1>1, <1>2, <1>3, Taken
<1>5. \A i \in DOMAIN toPage' :
         /\ i \in Nat /\ i + 1 \in DOMAIN toPage /\ i + 1 # 1
         /\ toPage'[i] = toPage[i + 1]
  BY <1>2, <1>3, TakenPlaces
<1>6. IdsOnce'
  <2>1. ASSUME NEW i \in DOMAIN toPage', NEW j \in DOMAIN toPage',
               toPage'[i].request.id = toPage'[j].request.id
        PROVE  i = j
    <3>1. i + 1 = j + 1
      BY <1>5, <2>1 DEF Whole, IdsOnce
    <3>. QED
      BY <1>5, <3>1
  <2>. QED
    BY <1>2, <1>5, <2>1 DEF Whole, IdsOnce, IsCall
<1>7. CASE UNCHANGED <<callbackMap, pageVars, crashed>>
  BY <1>2, <1>5, <1>6, <1>7 DEF Whole, AllInMap, IsCall
<1>8. CASE /\ crashed' = (m.request.id \notin DOMAIN callbackMap)
           /\ callbackMap' = Erased(callbackMap, m.request.id)
  <2>1. PICK id : id = m.request.id
    OBVIOUS
  <2>2. id \in DOMAIN callbackMap
    BY <1>4, <2>1 DEF Whole, AllInMap
  <2>3. DOMAIN callbackMap' = DOMAIN callbackMap \ {id}
    BY <1>8, <2>1 DEF Erased
  <2>4. /\ \A i \in DOMAIN toBrowser : IsCall(toBrowser[i]) => toBrowser[i].id # id
        /\ \A h \in handlers : h.id # id
        /\ \A i \in DOMAIN toPage : i # 1 => toPage[i].request.id # id
    BY <1>4, <2>1 DEF Whole, IdsOnce
  <2>5. AllInMap'
    BY <1>2, <1>5, <2>3, <2>4 DEF Whole, AllInMap, IsCall
  <2>. QED
    BY <1>6, <1>8, <2>1, <2>2, <2>5
<1>. QED
  BY <1>1, <1>7, <1>8 DEF OnMessage

\* A call goes from the queue to a thread.
LEMMA OnBackMessageWhole ==
    ASSUME Whole, OnBackMessage
    PROVE  AllInMap' /\ IdsOnce' /\ ~crashed'
<1>1. PICK m : m = Head(toBrowser)
  OBVIOUS
<1>2. /\ toBrowser # << >> /\ toBrowser' = Tail(toBrowser)
      /\ handlers' = handlers \cup Started(m)
      /\ UNCHANGED <<callbackMap, toPage, crashed>>
  BY <1>1 DEF OnBackMessage
<1>3. toBrowser \in Seq(Message)
  BY DEF Whole, Inv, TypeOK, Message
<1>4. 1 \in DOMAIN toBrowser /\ m = toBrowser[1]
  BY <1>1, <1>2, <1>3, Taken
<1>5. \A i \in DOMAIN toBrowser' :
         /\ i \in Nat /\ i + 1 \in DOMAIN toBrowser /\ i + 1 # 1
         /\ toBrowser'[i] = toBrowser[i + 1]
  BY <1>2, <1>3, TakenPlaces
<1>6. \A h \in handlers' : h \in handlers \/ (h = m /\ IsCall(m))
  BY <1>2 DEF Started, IsCall
<1>7. AllInMap'
  BY <1>2, <1>4, <1>5, <1>6 DEF Whole, AllInMap, IsCall
<1>8. IdsOnce'
  <2>1. ASSUME NEW i \in DOMAIN toBrowser', NEW j \in DOMAIN toBrowser',
               IsCall(toBrowser'[i]), IsCall(toBrowser'[j]),
               toBrowser'[i].id = toBrowser'[j].id
        PROVE  i = j
    <3>1. i + 1 = j + 1
      BY <1>5, <2>1 DEF Whole, IdsOnce
    <3>. QED
      BY <1>5, <3>1
  <2>2. \A g, h \in handlers' : g.id = h.id => g = h
    BY <1>4, <1>6 DEF Whole, IdsOnce
  <2>3. ASSUME NEW i \in DOMAIN toBrowser', NEW h \in handlers', IsCall(toBrowser'[i])
        PROVE  toBrowser'[i].id # h.id
    BY <1>4, <1>5, <1>6, <2>3 DEF Whole, IdsOnce
  <2>4. \A i \in DOMAIN toBrowser', j \in DOMAIN toPage :
           IsCall(toBrowser'[i]) => toBrowser'[i].id # toPage[j].request.id
    BY <1>5 DEF Whole, IdsOnce
  <2>5. \A h \in handlers', j \in DOMAIN toPage : h.id # toPage[j].request.id
    BY <1>4, <1>6 DEF Whole, IdsOnce
  <2>. QED
    BY <1>2, <2>1, <2>2, <2>3, <2>4, <2>5 DEF Whole, IdsOnce, IsCall
<1>. QED
  BY <1>2, <1>7, <1>8 DEF Whole

\* A call goes from its thread to the answers.
LEMMA ApiCallbackWhole ==
    ASSUME Whole, NEW h \in handlers, NEW outcome \in Outcome, ApiCallback(h, outcome)
    PROVE  AllInMap' /\ IdsOnce' /\ ~crashed'
<1>1. PICK m : m = [request |-> h, outcome |-> outcome]
  OBVIOUS
<1>2. /\ handlers' = handlers \ {h} /\ toPage' = Append(toPage, m)
      /\ UNCHANGED <<callbackMap, toBrowser, crashed>>
  BY <1>1 DEF ApiCallback
<1>3. toPage \in Seq(Answer) /\ m \in Answer /\ m.request = h
  BY <1>1 DEF Whole, Inv, TypeOK, Answer
<1>4. \A i \in DOMAIN toPage' : \/ i = Len(toPage) + 1 /\ toPage'[i] = m
                                \/ i \in DOMAIN toPage /\ toPage'[i] = toPage[i]
  BY <1>2, <1>3, AppendedPlaces
<1>5. AllInMap'
  BY <1>2, <1>3, <1>4 DEF Whole, AllInMap, IsCall
<1>6. IdsOnce'
  <2>1. ASSUME NEW i \in DOMAIN toPage', NEW j \in DOMAIN toPage',
               toPage'[i].request.id = toPage'[j].request.id
        PROVE  i = j
    BY <1>3, <1>4, <2>1 DEF Whole, IdsOnce
  <2>2. \A i \in DOMAIN toBrowser, j \in DOMAIN toPage' :
           IsCall(toBrowser[i]) => toBrowser[i].id # toPage'[j].request.id
    BY <1>3, <1>4 DEF Whole, IdsOnce
  <2>3. \A g \in handlers', j \in DOMAIN toPage' : g.id # toPage'[j].request.id
    BY <1>2, <1>3, <1>4 DEF Whole, IdsOnce
  <2>. QED
    BY <1>2, <2>1, <2>2, <2>3 DEF Whole, IdsOnce, IsCall
<1>. QED
  BY <1>2, <1>5, <1>6 DEF Whole

LEMMA NextWhole == Whole /\ [Next]_vars => Whole'
<1>. SUFFICES ASSUME Whole, [Next]_vars PROVE Whole'
  OBVIOUS
<1>1. Inv'
  BY NextInv DEF Whole
<1>2. ASSUME NEW f \in Frame, OnContextCreated(f) PROVE Whole'
  BY <1>1, <1>2, ContextCreatedWhole DEF Whole
<1>3. CASE OnContextReleased
  BY <1>1, <1>3, ContextReleasedWhole DEF Whole
<1>4. ASSUME NEW c \in Call, NEW now \in Instant, Execute(c, now) PROVE Whole'
  BY <1>1, <1>4, ExecuteWhole DEF Whole
<1>5. CASE OnMessage
  BY <1>1, <1>5, OnMessageWhole DEF Whole
<1>6. CASE OnBackMessage
  BY <1>1, <1>6, OnBackMessageWhole DEF Whole
<1>7. ASSUME NEW h \in handlers, NEW outcome \in Outcome, ApiCallback(h, outcome) PROVE Whole'
  BY <1>1, <1>7, ApiCallbackWhole DEF Whole
<1>8. CASE UNCHANGED vars
  BY <1>1, <1>8 DEF Whole, AllInMap, IdsOnce, IsCall, vars, browserVars
<1>. QED
  BY <1>2, <1>3, <1>4, <1>5, <1>6, <1>7, <1>8 DEF Next

\* However many pages were left with calls under way, no answer that is let in
\* misses its id, so the renderer never settles through a null promise.
THEOREM NeverNull == Spec => []NoNullPromise
<1>1. Init => Whole
  BY InitInv DEF Init, Whole, AllInMap, IdsOnce
<1>2. Whole => NoNullPromise
  BY DEF Whole, NoNullPromise
<1>. QED
  BY <1>1, <1>2, NextWhole, PTL DEF Spec
=============================================================================
