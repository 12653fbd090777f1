---------------------------- MODULE AppsDevProofs ----------------------------
(***************************************************************************)
(* Proofs about `apps dev', for any number of calls, polls and builds and  *)
(* any requests: its types, that a page shows a build of this session once *)
(* one was waited for, and that every call gets the answer to itself and   *)
(* is carried out at most once.                                            *)
(***************************************************************************)
EXTENDS AppsDev, TLAPS

USE MaxCallsAssumption

-----------------------------------------------------------------------------
(* Queues of messages.                                                     *)

LEMMA QueueTail ==
  ASSUME NEW S, NEW q \in Seq(S), q # <<>>
  PROVE  /\ Tail(q) \in Seq(S) /\ Head(q) \in S /\ Head(q) = q[1] /\ 1 \in DOMAIN q
         /\ \A i \in DOMAIN Tail(q) : i + 1 \in DOMAIN q /\ Tail(q)[i] = q[i + 1]
  OBVIOUS

LEMMA QueueAppend ==
  ASSUME NEW S, NEW q \in Seq(S), NEW m \in S
  PROVE  /\ Append(q, m) \in Seq(S)
         /\ \A i \in DOMAIN Append(q, m) :
              \/ i \in DOMAIN q /\ Append(q, m)[i] = q[i]
              \/ i = Len(q) + 1 /\ i \notin DOMAIN q /\ Append(q, m)[i] = m
  OBVIOUS

LEMMA QueueGrows ==
  ASSUME NEW S, NEW T, S \subseteq T  PROVE Seq(S) \subseteq Seq(T)
  OBVIOUS

LEMMA QueueConcat ==
  ASSUME NEW S, NEW q \in Seq(S), NEW r \in Seq(S)
  PROVE  q \o r \in Seq(S)
  OBVIOUS

-----------------------------------------------------------------------------
(* What holds of every state of the host page, the frame and the calls.    *)

HostOK ==
  /\ mode \in Modes
  /\ history \in Seq(Routes)
  /\ at \in DOMAIN history

\* What a call has been through by where it is: it is only carried out by the
\* API, which permitted calls alone reach, and only once; and the app only
\* settles it by an answer that is its own.
Sound(c, k) ==
  /\ k.app = "unused" <=> k.where = "nowhere"
  /\ k.where \in {"nowhere", "queued", "fetch", "api"} => k.runs = 0
  /\ k.where \in {"fetch", "api", "answered"} => k.request.kind = "api"
  /\ k.where = "api" => Permitted(k.request)
  /\ k.runs <= 1
  /\ k.runs > 0 => k.request.kind = "api" /\ Permitted(k.request)
  /\ k.where = "answered" /\ k.ok => k.runs = 1
  /\ k.app = "ok" => k.where = "over" /\ k.got = c
  /\ k.app = "ok" /\ k.request.kind = "api" => k.runs = 1

\* Messages to the frame: no route that is too long, and answers to calls that
\* were answered, with what they were answered.
Deliverable(cs) ==
  {m \in FrameMessage :
     /\ m.type = "metadata" => m.metadata.route # "long"
     /\ m.type = "response" =>
          /\ cs[m.id].where \in {"posted", "over"}
          /\ cs[m.id].request.kind = "api" /\ m.ok => cs[m.id].runs = 1}

Asking == {"api", "download"}

\* Messages to the host: each call that is queued is asked for once, in the way
\* the app asked.
Awaited(q, cs) ==
  /\ \A i \in DOMAIN q :
       q[i].type \in Asking =>
         cs[q[i].id].where = "queued" /\ cs[q[i].id].request.kind = q[i].type
  /\ \A i, j \in DOMAIN q :
       q[i].type \in Asking /\ q[j].type \in Asking /\ q[i].id = q[j].id => i = j

FrameOK ==
  /\ frame \in [stage: {"none", "booting", "ready"}, theme: BOOLEAN, data: BOOLEAN,
                meta: Metadata \cup {NoMetadata}, rendered: Metadata \cup {NoMetadata}]
  /\ frame.meta.route # "long"

CallsOK ==
  /\ calls \in [CallIds -> Call]
  /\ \A c \in CallIds : Sound(c, calls[c])
  /\ toFrame \in Seq(Deliverable(calls))
  /\ toHost \in Seq(HostMessage)
  /\ Awaited(toHost, calls)

SandboxInv ==
  /\ HostOK /\ FrameOK /\ CallsOK
  /\ budget \in [Deeds -> Nat]

-----------------------------------------------------------------------------
(* The parts of a step.                                                    *)

LEMMA SpendKeeps ==
  ASSUME NEW deed \in Deeds, budget \in [Deeds -> Nat], Spend(deed)
  PROVE  budget' \in [Deeds -> Nat]
  BY DEF Spend

LEMMA HostMetadataTyped ==
  ASSUME HostOK  PROVE HostMetadata \in Metadata /\ HostMetadata.route # "long"
  BY DEF HostOK, HostMetadata, Metadata, CurrentRoute, FitsRouteLimit, Routes

LEMMA MetadataMessage ==
  ASSUME NEW cs, NEW m \in Metadata, m.route # "long"
  PROVE  [type |-> "metadata", metadata |-> m] \in Deliverable(cs)
  BY DEF Deliverable, FrameMessage

LEMMA PlainMessages ==
  ASSUME NEW cs
  PROVE  [type |-> "theme"] \in Deliverable(cs) /\ [type |-> "data"] \in Deliverable(cs)
  BY DEF Deliverable, FrameMessage

LEMMA ResponseMessage ==
  ASSUME NEW cs, NEW c \in CallIds, NEW ok \in BOOLEAN,
         cs[c].where \in {"posted", "over"},
         cs[c].request.kind = "api" /\ ok => cs[c].runs = 1
  PROVE  Response(c, ok) \in Deliverable(cs)
  BY DEF Deliverable, FrameMessage, Response

\* Posting what may be delivered.
LEMMA PostKeeps ==
  ASSUME NEW cs, NEW ms \in Seq(Deliverable(cs)), toFrame \in Seq(Deliverable(cs)), Post(ms)
  PROVE  toFrame' \in Seq(Deliverable(cs))
  BY QueueConcat DEF Post

LEMMA PostMetadataKeeps ==
  ASSUME NEW cs, toFrame \in Seq(Deliverable(cs)), HostOK', PostMetadata
  PROVE  toFrame' \in Seq(Deliverable(cs))
<1>1. HostMetadata' \in Metadata /\ HostMetadata'.route # "long"
  BY DEF HostOK, HostMetadata, Metadata, CurrentRoute, FitsRouteLimit, Routes
<1>2. [type |-> "metadata", metadata |-> HostMetadata'] \in Deliverable(cs)
  BY <1>1, MetadataMessage
<1>3. <<[type |-> "metadata", metadata |-> HostMetadata']>> \in Seq(Deliverable(cs))
  BY <1>2
<1> QED
  BY <1>3, PostKeeps DEF PostMetadata

\* A call goes on to k, which leaves what was queued or answered as it is.
LEMMA CallGoesOn ==
  ASSUME CallsOK, NEW c \in CallIds, NEW k \in Call, Sound(c, k),
         calls[c].where = "queued" =>
           k.where = "queued" /\ k.request = calls[c].request,
         calls[c].where \in {"posted", "over"} =>
           /\ k.where \in {"posted", "over"}
           /\ k.request = calls[c].request /\ k.runs = calls[c].runs,
         calls' = [calls EXCEPT ![c] = k]
  PROVE  /\ calls' \in [CallIds -> Call] /\ \A d \in CallIds : Sound(d, calls'[d])
         /\ toFrame \in Seq(Deliverable(calls'))
         /\ Awaited(toHost, calls')
<1>1. calls' \in [CallIds -> Call]
  BY DEF CallsOK
<1>2. \A d \in CallIds : calls'[d] = IF d = c THEN k ELSE calls[d]
  BY DEF CallsOK
<1>3. \A d \in CallIds : Sound(d, calls'[d])
  BY <1>2 DEF CallsOK
<1>4. Deliverable(calls) \subseteq Deliverable(calls')
  <2> SUFFICES ASSUME NEW m \in Deliverable(calls)
               PROVE  m \in Deliverable(calls')
    OBVIOUS
  <2>1. m \in FrameMessage /\ (m.type = "response" => m.id \in CallIds)
    BY DEF Deliverable, FrameMessage
  <2> QED
    BY <1>2, <2>1 DEF Deliverable
<1>5. Awaited(toHost, calls')
  <2>1. \A i \in DOMAIN toHost : toHost[i].type \in Asking => toHost[i].id \in CallIds
    <3> SUFFICES ASSUME NEW i \in DOMAIN toHost, toHost[i].type \in Asking
                 PROVE  toHost[i].id \in CallIds
      OBVIOUS
    <3>1. toHost[i] \in HostMessage
      BY DEF CallsOK
    <3> QED
      BY <3>1 DEF HostMessage, Asking
  <2> QED
    BY <1>2, <2>1 DEF CallsOK, Awaited
<1> QED
  BY <1>1, <1>3, <1>4, <1>5, QueueGrows DEF CallsOK

-----------------------------------------------------------------------------
(* The host page.                                                          *)

LEMMA SetModeKeeps ==
  ASSUME SandboxInv, NEW next \in Modes, SetMode(next)
  PROVE  SandboxInv'
<1>1. HostOK'
  BY DEF SetMode, SandboxInv, HostOK
<1>2. toFrame' \in Seq(Deliverable(calls))
  BY <1>1, PostMetadataKeeps DEF SetMode, SandboxInv, CallsOK
<1>3. budget' \in [Deeds -> Nat]
  BY SpendKeeps DEF SetMode, SandboxInv, Deeds
<1> QED
  BY <1>1, <1>2, <1>3 DEF SetMode, SandboxInv, FrameOK, CallsOK

LEMMA PopStateKeeps ==
  ASSUME SandboxInv, NEW to, PopState(to)
  PROVE  SandboxInv'
<1>1. HostOK'
  BY DEF PopState, SandboxInv, HostOK
<1>2. toFrame' \in Seq(Deliverable(calls))
  BY <1>1, PostMetadataKeeps DEF PopState, SandboxInv, CallsOK
<1>3. budget' \in [Deeds -> Nat]
  BY SpendKeeps DEF PopState, SandboxInv, Deeds
<1> QED
  BY <1>1, <1>2, <1>3 DEF PopState, SandboxInv, FrameOK, CallsOK

\* A route the app sets is put in the history, or ignored.
LEMMA SetRouteKeeps ==
  ASSUME HostOK, CallsOK, mode' = mode, NEW next \in Routes \cup {NoRoute},
         NEW replace \in BOOLEAN, SetRoute(next, replace)
  PROVE  HostOK' /\ toFrame' \in Seq(Deliverable(calls))
<1> DEFINE route == IF next = NoRoute THEN "/" ELSE next
<1>1. route \in Routes
  BY DEF Routes
<1> HIDE DEF route
<1>2. CASE UNCHANGED <<history, at, toFrame>>
  BY <1>2 DEF HostOK, CallsOK
<1>3. CASE /\ \/ history' = [history EXCEPT ![at] = route] /\ at' = at
              \/ history' = Append(SubSeq(history, 1, at), route) /\ at' = at + 1
           /\ PostMetadata
  <2>1. at \in 1 .. Len(history) /\ history \in Seq(Routes)
    BY DEF HostOK
  <2>2. HostOK'
    <3>1. CASE history' = [history EXCEPT ![at] = route] /\ at' = at
      BY <1>1, <2>1, <3>1 DEF HostOK
    <3>2. CASE history' = Append(SubSeq(history, 1, at), route) /\ at' = at + 1
      <4>1. SubSeq(history, 1, at) \in Seq(Routes) /\ Len(SubSeq(history, 1, at)) = at
        BY <2>1
      <4>2. history' \in Seq(Routes) /\ Len(history') = at + 1
        BY <1>1, <3>2, <4>1
      <4>3. at' \in DOMAIN history'
        BY <2>1, <3>2, <4>2
      <4> QED
        BY <4>2, <4>3 DEF HostOK
    <3> QED
      BY <1>3, <3>1, <3>2
  <2> QED
    BY <1>3, <2>2, PostMetadataKeeps DEF CallsOK
<1> QED
  BY <1>2, <1>3 DEF SetRoute, route

\* The message that is heard leaves the queue, and what it asked for is asked
\* for no more.
LEMMA HeardOnce ==
  ASSUME CallsOK, toHost # <<>>
  PROVE  /\ Head(toHost) \in HostMessage
         /\ Tail(toHost) \in Seq(HostMessage) /\ Awaited(Tail(toHost), calls)
         /\ Head(toHost).type \in Asking =>
              /\ calls[Head(toHost).id].where = "queued"
              /\ calls[Head(toHost).id].request.kind = Head(toHost).type
              /\ \A i \in DOMAIN Tail(toHost) :
                   Tail(toHost)[i].type \in Asking => Tail(toHost)[i].id # Head(toHost).id
<1>1. toHost \in Seq(HostMessage) /\ Awaited(toHost, calls)
  BY DEF CallsOK
<1>2. /\ Tail(toHost) \in Seq(HostMessage) /\ Head(toHost) \in HostMessage
      /\ Head(toHost) = toHost[1] /\ 1 \in DOMAIN toHost
      /\ \A i \in DOMAIN Tail(toHost) :
           i + 1 \in DOMAIN toHost /\ Tail(toHost)[i] = toHost[i + 1]
  BY <1>1, QueueTail
<1>3. \A i \in DOMAIN Tail(toHost) : i \in Nat /\ i >= 1
  BY <1>1
<1>4. Awaited(Tail(toHost), calls)
  BY <1>1, <1>2, <1>3 DEF Awaited
<1>5. \A i \in DOMAIN Tail(toHost) : i + 1 # 1
  BY <1>3
<1> QED
  BY <1>1, <1>2, <1>4, <1>5 DEF Awaited

\* A queued call goes on to k; it is asked for in the queue q no more.
LEMMA QueuedGoesOn ==
  ASSUME CallsOK, NEW c \in CallIds, NEW k \in Call, Sound(c, k),
         calls[c].where = "queued", calls' = [calls EXCEPT ![c] = k],
         NEW q \in Seq(HostMessage), Awaited(q, calls),
         \A i \in DOMAIN q : q[i].type \in Asking => q[i].id # c
  PROVE  /\ calls' \in [CallIds -> Call] /\ \A d \in CallIds : Sound(d, calls'[d])
         /\ toFrame \in Seq(Deliverable(calls'))
         /\ Awaited(q, calls')
<1>1. calls' \in [CallIds -> Call]
  BY DEF CallsOK
<1>2. \A d \in CallIds : calls'[d] = IF d = c THEN k ELSE calls[d]
  BY DEF CallsOK
<1>3. \A d \in CallIds : Sound(d, calls'[d])
  BY <1>2 DEF CallsOK
<1>4. Deliverable(calls) \subseteq Deliverable(calls')
  <2> SUFFICES ASSUME NEW m \in Deliverable(calls)
               PROVE  m \in Deliverable(calls')
    OBVIOUS
  <2>1. m \in FrameMessage /\ (m.type = "response" => m.id \in CallIds)
    BY DEF Deliverable, FrameMessage
  <2>2. m.type = "response" => m.id # c
    BY DEF Deliverable
  <2> QED
    BY <1>2, <2>1, <2>2 DEF Deliverable
<1>5. \A i \in DOMAIN q : q[i].type \in Asking => q[i].id \in CallIds
  <2> SUFFICES ASSUME NEW i \in DOMAIN q, q[i].type \in Asking
               PROVE  q[i].id \in CallIds
    OBVIOUS
  <2>1. q[i] \in HostMessage
    OBVIOUS
  <2> QED
    BY <2>1 DEF HostMessage, Asking
<1>6. Awaited(q, calls')
  BY <1>2, <1>5 DEF Awaited
<1> QED
  BY <1>1, <1>3, <1>4, <1>6, QueueGrows DEF CallsOK

LEMMA HostHearsKeeps ==
  ASSUME SandboxInv, HostHears
  PROVE  SandboxInv'
<1> DEFINE msg == Head(toHost)
<1>1. /\ HostOK /\ FrameOK /\ CallsOK /\ budget \in [Deeds -> Nat]
      /\ toHost # <<>> /\ toHost' = Tail(toHost) /\ UNCHANGED <<mode, frame, budget>>
  BY DEF SandboxInv, HostHears
<1>2. /\ msg \in HostMessage
      /\ Tail(toHost) \in Seq(HostMessage) /\ Awaited(Tail(toHost), calls)
      /\ msg.type \in Asking =>
           /\ calls[msg.id].where = "queued" /\ calls[msg.id].request.kind = msg.type
           /\ \A i \in DOMAIN Tail(toHost) :
                Tail(toHost)[i].type \in Asking => Tail(toHost)[i].id # msg.id
  BY <1>1, HeardOnce
<1>3. FrameOK' /\ budget' \in [Deeds -> Nat]
  BY <1>1 DEF FrameOK
<1> HIDE DEF msg
<1>4. CASE msg.type = "ready" /\ Post(Greeting) /\ UNCHANGED <<history, at, calls>>
  <2>1. Greeting \in Seq(Deliverable(calls))
    BY <1>1, HostMetadataTyped, MetadataMessage, PlainMessages DEF Greeting
  <2>2. toFrame' \in Seq(Deliverable(calls))
    BY <1>1, <1>4, <2>1, PostKeeps DEF CallsOK
  <2> QED
    BY <1>1, <1>2, <1>3, <1>4, <2>2 DEF SandboxInv, HostOK, CallsOK
<1>5. CASE msg.type = "route" /\ SetRoute(msg.route, msg.replace) /\ UNCHANGED calls
  <2>1. msg.route \in Routes \cup {NoRoute} /\ msg.replace \in BOOLEAN
    BY <1>2, <1>5 DEF HostMessage
  <2>2. HostOK' /\ toFrame' \in Seq(Deliverable(calls))
    BY <1>1, <1>5, <2>1, SetRouteKeeps
  <2> QED
    BY <1>1, <1>2, <1>3, <1>5, <2>2 DEF SandboxInv, CallsOK
<1>6. CASE /\ msg.type = "api" /\ calls' = [calls EXCEPT ![msg.id].where = "fetch"]
           /\ UNCHANGED <<history, at, toFrame>>
  <2> DEFINE k == [calls[msg.id] EXCEPT !.where = "fetch"]
  <2>1. msg.id \in CallIds
    BY <1>2, <1>6 DEF HostMessage
  <2>2. calls[msg.id] \in Call /\ Sound(msg.id, calls[msg.id])
    BY <1>1, <2>1 DEF CallsOK
  <2>3. k \in Call /\ Sound(msg.id, k)
    BY <1>2, <1>6, <2>2 DEF Asking, Call, Sound
  <2>4. /\ calls' \in [CallIds -> Call] /\ \A d \in CallIds : Sound(d, calls'[d])
        /\ toFrame \in Seq(Deliverable(calls')) /\ Awaited(Tail(toHost), calls')
    BY <1>1, <1>2, <1>6, <2>1, <2>3, QueuedGoesOn DEF Asking
  <2> QED
    BY <1>1, <1>2, <1>3, <1>6, <2>4 DEF SandboxInv, HostOK, CallsOK
<1>7. CASE /\ msg.type = "download" /\ Post(DownloadAnswer(msg.id))
           /\ calls' = [calls EXCEPT ![msg.id].where = "posted"]
           /\ UNCHANGED <<history, at>>
  <2> DEFINE k == [calls[msg.id] EXCEPT !.where = "posted"]
  <2>1. msg.id \in CallIds
    BY <1>2, <1>7 DEF HostMessage
  <2>2. calls[msg.id] \in Call /\ Sound(msg.id, calls[msg.id])
    BY <1>1, <2>1 DEF CallsOK
  <2>3. k \in Call /\ Sound(msg.id, k)
    BY <1>2, <1>7, <2>2 DEF Asking, Call, Sound
  <2>4. /\ calls' \in [CallIds -> Call] /\ \A d \in CallIds : Sound(d, calls'[d])
        /\ toFrame \in Seq(Deliverable(calls')) /\ Awaited(Tail(toHost), calls')
    BY <1>1, <1>2, <1>7, <2>1, <2>3, QueuedGoesOn DEF Asking
  <2>5. calls'[msg.id].where = "posted" /\ calls'[msg.id].request.kind # "api"
    BY <1>2, <1>7, <2>1, <2>2, <1>1 DEF Asking, CallsOK, Call
  <2>6. DownloadAnswer(msg.id) \in Seq(Deliverable(calls'))
    <3>1. Response(msg.id, calls[msg.id].request.file = "plain") \in Deliverable(calls')
      BY <2>1, <2>5, ResponseMessage
    <3> QED
      BY <3>1 DEF DownloadAnswer
  <2>7. toFrame' \in Seq(Deliverable(calls'))
    BY <1>7, <2>4, <2>6, PostKeeps
  <2> QED
    BY <1>1, <1>2, <1>3, <1>7, <2>4, <2>7 DEF SandboxInv, HostOK, CallsOK
<1> QED
  BY <1>4, <1>5, <1>6, <1>7 DEF HostHears, msg

LEMMA HostAnswersKeeps ==
  ASSUME SandboxInv, NEW c \in CallIds, HostAnswers(c)
  PROVE  SandboxInv'
<1>1. /\ HostOK /\ FrameOK /\ CallsOK /\ calls[c].where = "answered"
      /\ UNCHANGED <<hostVars, frame, toHost, budget>>
      /\ calls[c] \in Call /\ Sound(c, calls[c])
  BY DEF SandboxInv, HostAnswers, CallsOK
<1>2. HostOK' /\ FrameOK' /\ budget' \in [Deeds -> Nat]
  BY <1>1 DEF SandboxInv, HostOK, FrameOK, hostVars
<1>3. ASSUME NEW w \in {"posted", "over"}, calls' = [calls EXCEPT ![c].where = w]
      PROVE  /\ calls' \in [CallIds -> Call] /\ \A d \in CallIds : Sound(d, calls'[d])
             /\ toFrame \in Seq(Deliverable(calls')) /\ Awaited(toHost, calls')
  <2> DEFINE k == [calls[c] EXCEPT !.where = w]
  <2>1. k \in Call /\ Sound(c, k)
    BY <1>1 DEF Call, Sound
  <2> QED
    BY <1>1, <1>3, <2>1, CallGoesOn
<1>4. CASE Post(<<Response(c, calls[c].ok)>>) /\ calls' = [calls EXCEPT ![c].where = "posted"]
  <2>1. /\ calls'[c].where = "posted" /\ calls'[c].request = calls[c].request
        /\ calls'[c].runs = calls[c].runs
    BY <1>1, <1>4 DEF CallsOK, Call
  <2>2. Response(c, calls[c].ok) \in Deliverable(calls')
    BY <1>1, <2>1, ResponseMessage DEF Sound, Call
  <2>3. toFrame' \in Seq(Deliverable(calls'))
    <3>1. <<Response(c, calls[c].ok)>> \in Seq(Deliverable(calls'))
      BY <2>2
    <3> QED
      BY <1>3, <1>4, <3>1, PostKeeps
  <2> QED
    BY <1>1, <1>2, <1>3, <1>4, <2>3 DEF SandboxInv, CallsOK
<1>5. CASE calls' = [calls EXCEPT ![c].where = "over"] /\ UNCHANGED toFrame
  BY <1>1, <1>2, <1>3, <1>5 DEF SandboxInv, CallsOK
<1> QED
  BY <1>4, <1>5 DEF HostAnswers

-----------------------------------------------------------------------------
(* The frame and the app in it.                                            *)

LEMMA NoRouteFits == NoRoute # "long"
  BY Zenon DEF NoRoute

LEMMA AwaitedPlain ==
  ASSUME NEW cs, NEW q \in Seq(HostMessage), Awaited(q, cs),
         NEW m \in HostMessage, m.type \notin Asking
  PROVE  Append(q, m) \in Seq(HostMessage) /\ Awaited(Append(q, m), cs)
  BY QueueAppend DEF Awaited

LEMMA HostMessages ==
  /\ [type |-> "ready"] \in HostMessage /\ [type |-> "ready"].type \notin Asking
  /\ \A route \in Routes \cup {NoRoute}, replace \in BOOLEAN :
       /\ [type |-> "route", route |-> route, replace |-> replace] \in HostMessage
       /\ [type |-> "route", route |-> route, replace |-> replace].type \notin Asking
  /\ \A kind \in Asking, c \in CallIds :
       [type |-> kind, id |-> c] \in HostMessage
  BY DEF HostMessage, Asking

LEMMA FrameBootsKeeps ==
  ASSUME SandboxInv, NEW early \in BOOLEAN, FrameBoots(early)
  PROVE  SandboxInv'
<1>1. /\ HostOK /\ FrameOK /\ CallsOK /\ budget \in [Deeds -> Nat]
      /\ UNCHANGED <<hostVars, toFrame, calls>>
      /\ frame' = [frame EXCEPT !.stage = "ready"]
  BY DEF SandboxInv, FrameBoots
<1>2. HostOK' /\ FrameOK'
  BY <1>1 DEF HostOK, FrameOK, hostVars
<1>3. budget' \in [Deeds -> Nat]
  BY <1>1, SpendKeeps DEF FrameBoots, Deeds
<1> DEFINE route == [type |-> "route", route |-> "/runs", replace |-> TRUE]
           ready == [type |-> "ready"]
<1>4. /\ route \in HostMessage /\ route.type \notin Asking
      /\ ready \in HostMessage /\ ready.type \notin Asking
  BY HostMessages DEF Routes
<1>5. toHost' \in {Append(toHost, ready), toHost \o <<route, ready>>}
  BY DEF FrameBoots
<1> HIDE DEF route, ready
<1>6. toHost \o <<route, ready>> = Append(Append(toHost, route), ready)
  BY <1>1, <1>4 DEF CallsOK
<1>7. toHost' \in Seq(HostMessage) /\ Awaited(toHost', calls)
  BY <1>1, <1>4, <1>5, <1>6, AwaitedPlain DEF CallsOK
<1> QED
  BY <1>1, <1>2, <1>3, <1>7 DEF SandboxInv, CallsOK

LEMMA AppSetsRouteKeeps ==
  ASSUME SandboxInv, NEW route \in Routes \cup {NoRoute}, NEW replace \in BOOLEAN,
         AppSetsRoute(route, replace)
  PROVE  SandboxInv'
<1>1. /\ HostOK /\ FrameOK /\ CallsOK /\ budget \in [Deeds -> Nat]
      /\ UNCHANGED <<hostVars, frame, toFrame, calls>>
      /\ toHost' = Append(toHost, [type |-> "route", route |-> route, replace |-> replace])
  BY DEF SandboxInv, AppSetsRoute
<1>2. HostOK' /\ FrameOK'
  BY <1>1 DEF HostOK, FrameOK, hostVars
<1>3. budget' \in [Deeds -> Nat]
  BY <1>1, SpendKeeps DEF AppSetsRoute, Deeds
<1>4. toHost' \in Seq(HostMessage) /\ Awaited(toHost', calls)
  BY <1>1, HostMessages, AwaitedPlain DEF CallsOK
<1> QED
  BY <1>1, <1>2, <1>3, <1>4 DEF SandboxInv, CallsOK

\* The call is new, so nothing asks for it yet.
LEMMA AppCallsKeeps ==
  ASSUME SandboxInv, NEW c \in CallIds, NEW request \in Requests, AppCalls(c, request)
  PROVE  SandboxInv'
<1>1. /\ HostOK /\ FrameOK /\ CallsOK /\ budget \in [Deeds -> Nat]
      /\ UNCHANGED <<hostVars, frame, toFrame>>
      /\ calls[c] \in Call /\ Sound(c, calls[c])
      /\ calls[c].app = "unused" /\ calls[c].where = "nowhere" /\ calls[c].runs = 0
  BY DEF SandboxInv, AppCalls, CallsOK, Sound
<1>2. HostOK' /\ FrameOK'
  BY <1>1 DEF HostOK, FrameOK, hostVars
<1>3. budget' \in [Deeds -> Nat]
  BY <1>1, SpendKeeps DEF AppCalls, Deeds
<1>4. request \in Requests \cup {NoRequest} /\ request.kind \in Asking
  BY RequestsAssumption DEF ApiRequest, Download, Asking
<1>5. CASE /\ calls' = [calls EXCEPT ![c].request = request, ![c].app = "failed", ![c].where = "over"]
           /\ UNCHANGED toHost
  <2> DEFINE k == [calls[c] EXCEPT !.request = request, !.app = "failed", !.where = "over"]
  <2>0. /\ k \in Call /\ k.request = request /\ k.app = "failed" /\ k.where = "over"
        /\ k.runs = calls[c].runs
    BY <1>1, <1>4 DEF Call
  <2>1. k \in Call /\ Sound(c, k)
    <3> HIDE DEF k
    <3> QED
      BY <1>1, <2>0 DEF Sound
  <2>2. calls' = [calls EXCEPT ![c] = k]
    BY <1>1, <1>5 DEF CallsOK
  <2> HIDE DEF k
  <2>3. /\ calls' \in [CallIds -> Call] /\ \A d \in CallIds : Sound(d, calls'[d])
        /\ toFrame \in Seq(Deliverable(calls')) /\ Awaited(toHost, calls')
    BY <1>1, <2>1, <2>2, CallGoesOn
  <2> QED
    BY <1>1, <1>2, <1>3, <1>5, <2>3 DEF SandboxInv, CallsOK
<1>6. CASE /\ calls' = [calls EXCEPT ![c].request = request, ![c].app = "pending",
                                     ![c].where = "queued", ![c].paged = TRUE]
           /\ toHost' = Append(toHost, [type |-> request.kind, id |-> c])
  <2> DEFINE k == [calls[c] EXCEPT !.request = request, !.app = "pending",
                                   !.where = "queued", !.paged = TRUE]
             m == [type |-> request.kind, id |-> c]
  <2>0. /\ k \in Call /\ k.request = request /\ k.app = "pending" /\ k.where = "queued"
        /\ k.runs = calls[c].runs
    BY <1>1, <1>4 DEF Call
  <2>1. k \in Call /\ Sound(c, k) /\ k.where = "queued" /\ k.request = request
    <3> HIDE DEF k
    <3> QED
      BY <1>1, <2>0 DEF Sound
  <2>2. calls' = [calls EXCEPT ![c] = k]
    BY <1>1, <1>6 DEF CallsOK
  <2>3. m \in HostMessage /\ m.type = request.kind /\ m.id = c
    BY <1>4, HostMessages
  <2>4. toHost' = Append(toHost, m)
    BY <1>6
  <2> HIDE DEF k, m
  <2>5. /\ calls' \in [CallIds -> Call] /\ \A d \in CallIds : Sound(d, calls'[d])
        /\ toFrame \in Seq(Deliverable(calls')) /\ Awaited(toHost, calls')
    BY <1>1, <2>1, <2>2, CallGoesOn
  <2>6. \A i \in DOMAIN toHost : toHost[i].type \in Asking => toHost[i].id # c
    BY <1>1 DEF CallsOK, Awaited
  <2>7. calls'[c].where = "queued" /\ calls'[c].request.kind = request.kind
    BY <1>1, <2>1, <2>2 DEF CallsOK
  <2>8. toHost' \in Seq(HostMessage) /\ Awaited(toHost', calls')
    <3>1. toHost \in Seq(HostMessage)
      BY <1>1 DEF CallsOK
    <3>2. \A i \in DOMAIN toHost' :
            \/ i \in DOMAIN toHost /\ toHost'[i] = toHost[i]
            \/ i = Len(toHost) + 1 /\ i \notin DOMAIN toHost /\ toHost'[i] = m
      BY <2>3, <2>4, <3>1, QueueAppend
    <3>3. toHost' \in Seq(HostMessage)
      BY <2>3, <2>4, <3>1, QueueAppend
    <3> QED
      BY <2>3, <2>5, <2>6, <2>7, <3>2, <3>3 DEF Awaited
  <2> QED
    BY <1>1, <1>2, <1>3, <2>5, <2>8 DEF SandboxInv, CallsOK
<1> QED
  BY <1>5, <1>6 DEF AppCalls

LEMMA MaybeRenderTyped ==
  ASSUME NEW f \in [stage: {"none", "booting", "ready"}, theme: BOOLEAN, data: BOOLEAN,
                    meta: Metadata \cup {NoMetadata}, rendered: Metadata \cup {NoMetadata}]
  PROVE  /\ MaybeRender(f) \in [stage: {"none", "booting", "ready"}, theme: BOOLEAN,
                                data: BOOLEAN, meta: Metadata \cup {NoMetadata},
                                rendered: Metadata \cup {NoMetadata}]
         /\ MaybeRender(f).meta = f.meta /\ MaybeRender(f).stage = f.stage
  BY DEF MaybeRender

LEMMA FrameHearsKeeps ==
  ASSUME SandboxInv, FrameHears
  PROVE  SandboxInv' /\ frame'.stage = frame.stage
<1> DEFINE msg == Head(toFrame)
<1>1. /\ HostOK /\ FrameOK /\ CallsOK /\ budget \in [Deeds -> Nat]
      /\ toFrame # <<>> /\ toFrame' = Tail(toFrame) /\ UNCHANGED <<hostVars, toHost, budget>>
  BY DEF SandboxInv, FrameHears
<1>2. msg \in Deliverable(calls) /\ Tail(toFrame) \in Seq(Deliverable(calls))
  BY <1>1, QueueTail DEF CallsOK
<1>3. HostOK' /\ budget' \in [Deeds -> Nat]
  BY <1>1 DEF HostOK, hostVars
<1> HIDE DEF msg
<1>4. msg \in FrameMessage
  BY <1>2 DEF Deliverable
<1>5. ASSUME UNCHANGED calls,
             \E f : /\ f \in [stage: {"none", "booting", "ready"}, theme: BOOLEAN, data: BOOLEAN,
                              meta: Metadata \cup {NoMetadata},
                              rendered: Metadata \cup {NoMetadata}]
                    /\ f.stage = frame.stage /\ f.meta.route # "long"
                    /\ frame' \in {f, MaybeRender(f)}
      PROVE  SandboxInv' /\ frame'.stage = frame.stage
  <2>1. FrameOK' /\ frame'.stage = frame.stage
    BY <1>5, MaybeRenderTyped DEF FrameOK
  <2> QED
    BY <1>1, <1>2, <1>3, <1>5, <2>1 DEF SandboxInv, CallsOK
<1>6. CASE /\ msg.type = "theme" /\ frame' = MaybeRender([frame EXCEPT !.theme = TRUE])
           /\ UNCHANGED calls
  <2> DEFINE f == [frame EXCEPT !.theme = TRUE]
  <2>1. f \in [stage: {"none", "booting", "ready"}, theme: BOOLEAN, data: BOOLEAN,
               meta: Metadata \cup {NoMetadata}, rendered: Metadata \cup {NoMetadata}]
        /\ f.stage = frame.stage /\ f.meta.route # "long"
    BY <1>1 DEF FrameOK
  <2> QED
    BY <1>5, <1>6, <2>1
<1>7. CASE /\ msg.type = "metadata" /\ frame' = MaybeRender([frame EXCEPT !.meta = msg.metadata])
           /\ UNCHANGED calls
  <2> DEFINE f == [frame EXCEPT !.meta = msg.metadata]
  <2>1. msg.metadata \in Metadata /\ msg.metadata.route # "long"
    BY <1>2, <1>4, <1>7 DEF Deliverable, FrameMessage
  <2>2. f \in [stage: {"none", "booting", "ready"}, theme: BOOLEAN, data: BOOLEAN,
               meta: Metadata \cup {NoMetadata}, rendered: Metadata \cup {NoMetadata}]
        /\ f.stage = frame.stage /\ f.meta.route # "long"
    BY <1>1, <2>1 DEF FrameOK
  <2> QED
    BY <1>5, <1>7, <2>2
<1>8. CASE /\ msg.type = "data" /\ UNCHANGED calls
           /\ frame' = IF frame.data THEN frame ELSE MaybeRender([frame EXCEPT !.data = TRUE])
  <2> DEFINE f == [frame EXCEPT !.data = TRUE]
  <2>1. f \in [stage: {"none", "booting", "ready"}, theme: BOOLEAN, data: BOOLEAN,
               meta: Metadata \cup {NoMetadata}, rendered: Metadata \cup {NoMetadata}]
        /\ f.stage = frame.stage /\ f.meta.route # "long"
    BY <1>1 DEF FrameOK
  <2>2. frame \in [stage: {"none", "booting", "ready"}, theme: BOOLEAN, data: BOOLEAN,
                   meta: Metadata \cup {NoMetadata}, rendered: Metadata \cup {NoMetadata}]
        /\ frame.meta.route # "long"
    BY <1>1 DEF FrameOK
  <2> HIDE DEF f
  <2>3. frame' = frame \/ frame' = MaybeRender(f)
    BY <1>8 DEF f
  <2> QED
    BY <1>5, <1>8, <2>1, <2>2, <2>3
<1>9. CASE msg.type = "response" /\ calls' = Settle(msg.id, msg.ok) /\ UNCHANGED frame
  <2> DEFINE c == msg.id
             k == IF calls[c].app = "pending"
                    THEN [calls[c] EXCEPT !.where = "over", !.app = IF msg.ok THEN "ok" ELSE "failed",
                                          !.got = c]
                    ELSE [calls[c] EXCEPT !.where = "over"]
  <2>1. /\ c \in CallIds /\ msg.ok \in BOOLEAN /\ calls[c].where \in {"posted", "over"}
        /\ calls[c].request.kind = "api" /\ msg.ok => calls[c].runs = 1
    BY <1>2, <1>4, <1>9 DEF Deliverable, FrameMessage
  <2>2. calls[c] \in Call /\ Sound(c, calls[c]) /\ c \in 0 .. MaxCalls
    BY <1>1, <2>1 DEF CallsOK, CallIds
  <2> HIDE DEF c
  <2>3. k \in Call
    BY <2>2 DEF Call
  <2>4. k.where = "over" /\ k.request = calls[c].request /\ k.runs = calls[c].runs
    BY <2>2 DEF Call
  <2>5. Sound(c, k)
    <3>1. \/ k.app \in {"ok", "failed"} /\ k.got = c /\ (k.app = "ok" => msg.ok)
          \/ k.app = calls[c].app /\ k.got = calls[c].got
      <4>1. CASE calls[c].app = "pending"
        BY <2>2, <4>1 DEF Call
      <4>2. CASE calls[c].app # "pending"
        BY <2>2, <4>2 DEF Call
      <4> QED
        BY <4>1, <4>2
    <3> HIDE DEF k
    <3> QED
      BY <2>1, <2>2, <2>4, <3>1 DEF Sound
  <2>6. calls' = [calls EXCEPT ![c] = k]
    BY <1>1, <1>9, <2>1 DEF Settle, CallsOK, c
  <2> HIDE DEF k
  <2>7. /\ calls' \in [CallIds -> Call] /\ \A d \in CallIds : Sound(d, calls'[d])
        /\ Awaited(toHost, calls')
    BY <1>1, <2>1, <2>3, <2>4, <2>5, <2>6, CallGoesOn
  <2>8. Deliverable(calls) \subseteq Deliverable(calls')
    <3> SUFFICES ASSUME NEW m \in Deliverable(calls)
                 PROVE  m \in Deliverable(calls')
      OBVIOUS
    <3>1. m \in FrameMessage /\ (m.type = "response" => m.id \in CallIds)
      BY DEF Deliverable, FrameMessage
    <3>2. \A d \in CallIds : calls'[d] = IF d = c THEN k ELSE calls[d]
      BY <1>1, <2>6 DEF CallsOK
    <3> QED
      BY <2>1, <2>4, <3>1, <3>2 DEF Deliverable
  <2>9. toFrame' \in Seq(Deliverable(calls'))
    BY <1>1, <1>2, <2>8, QueueGrows
  <2> QED
    BY <1>1, <1>3, <1>9, <2>7, <2>9 DEF SandboxInv, FrameOK, CallsOK
<1> QED
  BY <1>6, <1>7, <1>8, <1>9 DEF FrameHears, msg

\* A call goes on to k, and nothing else changes.
LEMMA OnlyCallChanges ==
  ASSUME SandboxInv, NEW c \in CallIds, NEW k \in Call, Sound(c, k),
         calls[c].where = "queued" =>
           k.where = "queued" /\ k.request = calls[c].request,
         calls[c].where \in {"posted", "over"} =>
           /\ k.where \in {"posted", "over"}
           /\ k.request = calls[c].request /\ k.runs = calls[c].runs,
         calls' = [calls EXCEPT ![c] = k],
         UNCHANGED <<hostVars, frame, toFrame, toHost, budget>>
  PROVE  SandboxInv'
<1>1. HostOK' /\ FrameOK' /\ budget' \in [Deeds -> Nat]
  BY DEF SandboxInv, HostOK, FrameOK, hostVars
<1>2. /\ calls' \in [CallIds -> Call] /\ \A d \in CallIds : Sound(d, calls'[d])
      /\ toFrame \in Seq(Deliverable(calls')) /\ Awaited(toHost, calls')
  BY CallGoesOn DEF SandboxInv
<1> QED
  BY <1>1, <1>2 DEF SandboxInv, CallsOK

LEMMA CallTimesOutKeeps ==
  ASSUME SandboxInv, NEW c \in CallIds, CallTimesOut(c)
  PROVE  SandboxInv'
<1> DEFINE k == [calls[c] EXCEPT !.app = "timedout"]
<1>1. calls[c] \in Call /\ Sound(c, calls[c])
  BY DEF SandboxInv, CallsOK
<1>2. /\ k \in Call /\ k.app = "timedout" /\ k.where = calls[c].where
      /\ k.request = calls[c].request /\ k.runs = calls[c].runs /\ k.ok = calls[c].ok
  BY <1>1 DEF Call
<1>3. /\ UNCHANGED <<hostVars, frame, toFrame, toHost, budget>>
      /\ calls' = [calls EXCEPT ![c] = k] /\ calls[c].app = "pending"
  BY DEF CallTimesOut, SandboxInv, CallsOK
<1> HIDE DEF k
<1>4. Sound(c, k)
  BY <1>1, <1>2, <1>3 DEF Sound
<1> QED
  BY <1>2, <1>3, <1>4, OnlyCallChanges

-----------------------------------------------------------------------------
(* The proxy.                                                              *)

\* A fetched call is answered: it was carried out once at most, and only if it
\* is permitted.
LEMMA AnswerKeeps ==
  ASSUME SandboxInv, NEW c \in CallIds, NEW ok \in BOOLEAN, NEW runs \in 0 .. 1,
         calls[c].where \in {"fetch", "api"},
         ok => runs = 1,
         runs > 0 => calls[c].where = "api",
         Answer(c, ok, runs), UNCHANGED <<hostVars, frame, toFrame, toHost, budget>>
  PROVE  SandboxInv'
<1> DEFINE k == [calls[c] EXCEPT !.where = "answered", !.ok = ok, !.runs = @ + runs]
<1>1. calls[c] \in Call /\ Sound(c, calls[c])
  BY DEF SandboxInv, CallsOK
<1>2. /\ k \in Call /\ k.where = "answered" /\ k.app = calls[c].app /\ k.ok = ok
      /\ k.request = calls[c].request /\ k.runs = runs
  <2>1. calls[c].runs = 0 /\ calls[c].runs + runs = runs /\ runs \in Nat
    BY <1>1 DEF Sound
  <2> QED
    BY <1>1, <2>1 DEF Call
<1>3. calls' = [calls EXCEPT ![c] = k]
  BY DEF Answer, SandboxInv, CallsOK
<1> HIDE DEF k
<1>4. Sound(c, k)
  BY <1>1, <1>2 DEF Sound
<1> QED
  BY <1>2, <1>3, <1>4, OnlyCallChanges

LEMMA ProxyRefusesKeeps ==
  ASSUME SandboxInv, NEW c \in CallIds, ProxyRefuses(c)
  PROVE  SandboxInv'
<1>1. FALSE \in BOOLEAN /\ 0 \in 0 .. 1 /\ ~(0 > 0)
  OBVIOUS
<1>2. /\ calls[c].where \in {"fetch", "api"} /\ Answer(c, FALSE, 0)
      /\ UNCHANGED <<hostVars, frame, toFrame, toHost, budget>>
  BY DEF ProxyRefuses
<1> QED
  BY <1>1, <1>2, AnswerKeeps, Zenon

LEMMA ProxyForwardsKeeps ==
  ASSUME SandboxInv, NEW c \in CallIds, ProxyForwards(c)
  PROVE  SandboxInv'
<1> DEFINE k == [calls[c] EXCEPT !.where = "api"]
<1>1. calls[c] \in Call /\ Sound(c, calls[c])
  BY DEF SandboxInv, CallsOK
<1>2. /\ k \in Call /\ k.where = "api" /\ k.app = calls[c].app
      /\ k.request = calls[c].request /\ k.runs = calls[c].runs
  BY <1>1 DEF Call
<1>3. /\ UNCHANGED <<hostVars, frame, toFrame, toHost, budget>>
      /\ calls' = [calls EXCEPT ![c] = k] /\ calls[c].where = "fetch"
      /\ Permitted(calls[c].request)
  BY DEF ProxyForwards, SandboxInv, CallsOK
<1> HIDE DEF k
<1>4. Sound(c, k)
  BY <1>1, <1>2, <1>3 DEF Sound
<1> QED
  BY <1>2, <1>3, <1>4, OnlyCallChanges

LEMMA ApiAnswersKeeps ==
  ASSUME SandboxInv, NEW c \in CallIds, NEW ok \in BOOLEAN, ApiAnswers(c, ok)
  PROVE  SandboxInv'
<1>1. PICK runs \in (IF ok THEN 1 ELSE 0) .. Attempts : Answer(c, ok, runs)
  BY DEF ApiAnswers
<1>2. runs \in 0 .. 1 /\ (ok => runs = 1)
  BY DEF Attempts
<1> QED
  BY <1>1, <1>2, AnswerKeeps DEF ApiAnswers

LEMMA FetchFailsKeeps ==
  ASSUME SandboxInv, NEW c \in CallIds, FetchFails(c)
  PROVE  SandboxInv'
<1>1. PICK runs \in 0 .. (IF calls[c].where = "api" THEN Attempts ELSE 0) :
        Answer(c, FALSE, runs)
  BY DEF FetchFails
<1>2. runs \in 0 .. 1 /\ (runs > 0 => calls[c].where = "api")
  BY DEF Attempts
<1> QED
  BY <1>1, <1>2, AnswerKeeps DEF FetchFails

-----------------------------------------------------------------------------
(* The page is loaded and left.                                            *)

LEMMA NoFrameTyped ==
  /\ NoFrame \in [stage: {"none", "booting", "ready"}, theme: BOOLEAN, data: BOOLEAN,
                  meta: Metadata \cup {NoMetadata}, rendered: Metadata \cup {NoMetadata}]
  /\ NoFrame.meta.route # "long" /\ NoFrame.stage = "none"
  BY NoRouteFits DEF NoFrame, NoMetadata

LEMMA LeavePageKeeps ==
  ASSUME HostOK', budget' \in [Deeds -> Nat], SandboxInv, LeavePage
  PROVE  SandboxInv' /\ frame'.stage = "none"
<1>1. FrameOK' /\ frame'.stage = "none"
  BY NoFrameTyped DEF LeavePage, FrameOK
<1>2. ASSUME NEW c \in CallIds
      PROVE  calls'[c] \in Call /\ Sound(c, calls'[c])
  <2> DEFINE k == Orphaned(calls[c])
  <2>1. calls[c] \in Call /\ Sound(c, calls[c])
    BY DEF SandboxInv, CallsOK
  <2>2. calls'[c] = k
    BY DEF LeavePage
  <2>3. /\ k \in Call /\ k.request = calls[c].request /\ k.runs = calls[c].runs
        /\ k.ok = calls[c].ok /\ k.got = calls[c].got
        /\ k.app = (IF calls[c].app = "pending" THEN "gone" ELSE calls[c].app)
        /\ k.where = (IF calls[c].where \in {"queued", "posted"} THEN "over" ELSE calls[c].where)
    BY <2>1 DEF Orphaned, Call
  <2> HIDE DEF k
  <2>4. Sound(c, k)
    BY <2>1, <2>3 DEF Sound
  <2> QED
    BY <2>2, <2>3, <2>4
<1>3. calls' \in [CallIds -> Call]
  BY <1>2 DEF LeavePage
<1>4. CallsOK'
  BY <1>2, <1>3 DEF CallsOK, Awaited, LeavePage
<1> QED
  BY <1>1, <1>4 DEF SandboxInv

LEMMA EnterPageKeeps ==
  ASSUME SandboxInv, EnterPage, UNCHANGED <<hostVars, toFrame, toHost, calls, budget>>
  PROVE  SandboxInv'
<1>1. FrameOK'
  BY NoFrameTyped DEF EnterPage, FrameOK, NoFrame
<1> QED
  BY <1>1 DEF SandboxInv, HostOK, CallsOK, hostVars

LEMMA SandboxInitHolds ==
  ASSUME NEW start \in Starts, SandboxInit(start)
  PROVE  SandboxInv /\ frame.stage = "none"
<1>1. start \in Start
  BY StartsAssumption
<1>2. HostOK
  BY <1>1 DEF SandboxInit, HostOK, Start
<1>3. FrameOK /\ frame.stage = "none"
  BY NoFrameTyped DEF SandboxInit, FrameOK
<1>4. NoCall \in Call /\ \A c \in CallIds : Sound(c, NoCall)
  BY DEF NoCall, NoRequest, Call, Sound
<1>5. CallsOK
  BY <1>4 DEF SandboxInit, CallsOK, Awaited
<1>6. budget \in [Deeds -> Nat]
  BY <1>1 DEF SandboxInit, Start
<1> QED
  BY <1>2, <1>3, <1>5, <1>6 DEF SandboxInv

\* Whatever the host page, the frame and the app do.
LEMMA SandboxActsKeep ==
  ASSUME SandboxInv, SandboxActs
  PROVE  SandboxInv' /\ (frame'.stage = "none" <=> frame.stage = "none")
<1>1. CASE HostHears
  BY <1>1, HostHearsKeeps DEF HostHears
<1>2. CASE FrameHears
  BY <1>2, FrameHearsKeeps
<1>3. ASSUME NEW next \in Modes, SetMode(next)
      PROVE  SandboxInv' /\ (frame'.stage = "none" <=> frame.stage = "none")
  BY <1>3, SetModeKeeps DEF SetMode
<1>4. ASSUME NEW to \in DOMAIN history, PopState(to)
      PROVE  SandboxInv' /\ (frame'.stage = "none" <=> frame.stage = "none")
  BY <1>4, PopStateKeeps DEF PopState
<1>5. ASSUME NEW early \in BOOLEAN, FrameBoots(early)
      PROVE  SandboxInv' /\ (frame'.stage = "none" <=> frame.stage = "none")
  <2>1. frame'.stage = "ready" /\ frame.stage = "booting"
    BY <1>5 DEF FrameBoots, SandboxInv, FrameOK
  <2> QED
    BY <1>5, <2>1, FrameBootsKeeps
<1>6. ASSUME NEW route \in Routes \cup {NoRoute}, NEW replace \in BOOLEAN,
             AppSetsRoute(route, replace)
      PROVE  SandboxInv' /\ (frame'.stage = "none" <=> frame.stage = "none")
  BY <1>6, AppSetsRouteKeeps DEF AppSetsRoute
<1>7. ASSUME NEW c \in CallIds, NEW request \in Requests, AppCalls(c, request)
      PROVE  SandboxInv' /\ (frame'.stage = "none" <=> frame.stage = "none")
  BY <1>7, AppCallsKeeps DEF AppCalls
<1>8. ASSUME NEW c \in CallIds, HostAnswers(c) \/ CallTimesOut(c)
      PROVE  SandboxInv' /\ (frame'.stage = "none" <=> frame.stage = "none")
  BY <1>8, HostAnswersKeeps, CallTimesOutKeeps DEF HostAnswers, CallTimesOut
<1> QED
  BY <1>1, <1>2, <1>3, <1>4, <1>5, <1>6, <1>7, <1>8 DEF SandboxActs

LEMMA ProxyActsKeep ==
  ASSUME SandboxInv, ProxyActs
  PROVE  SandboxInv' /\ frame' = frame
<1>1. PICK c \in CallIds :
        \/ ProxyRefuses(c) \/ ProxyForwards(c)
        \/ \E ok \in BOOLEAN : ApiAnswers(c, ok)
  BY DEF ProxyActs
<1> QED
  BY <1>1, ProxyRefusesKeeps, ProxyForwardsKeeps, ApiAnswersKeeps
  DEF ProxyRefuses, ProxyForwards, ApiAnswers

-----------------------------------------------------------------------------
(* The builds, the command and the page.                                   *)

BundleOK ==
  /\ BundleTypeOK
  /\ \A f \in Files : disk[f] <= build

Early == {"start", "watch", "wait", "serve"}

ServerOK ==
  /\ pc \in {"start", "watch", "wait", "serve", "serving", "stopping", "exited"}
  /\ prev \in Nat
  /\ waited \in {"no", "fresh", "interrupted", "timeout"}
  /\ interrupted \in BOOLEAN
  /\ exit \in {NotExited, "ok", "error"}
  /\ pc \in Early \ {"serve"} => waited = "no"

PageOK ==
  /\ page \in [kind: {"closed", "loading", "waiting", "host", "error"},
               shown: [Files -> Nat], last: Nat, first: Nat]
  /\ load \in [under: BOOLEAN, unread: SUBSET Files, read: [Files -> Nat]]
  /\ polls \subseteq Nat
  /\ load.under => page.kind = "loading"

\* The entrypoint is gone or was built since the command took note of it, on
\* disk, in a page that is put together and in the page that is shown; and no
\* page is asked for before the wait for it is over.
Newer(mtime) == mtime = 0 \/ mtime > prev

FreshOK ==
  /\ pc \in Early => page.kind = "closed" /\ load = Idle
  /\ waited = "fresh" =>
       /\ build > prev
       /\ Newer(disk["entry"]) /\ Newer(load.read["entry"])
       /\ page.kind = "host" => page.shown["entry"] > prev

FrameShown == frame.stage = "none" \/ page.kind = "host"

PreviewInv == BundleOK /\ ServerOK /\ PageOK /\ FreshOK

DevInv == SandboxInv /\ PreviewInv /\ FrameShown

LEMMA PagesTyped ==
  /\ Empty \in [Files -> Nat] /\ Empty["entry"] = 0
  /\ Idle \in [under: BOOLEAN, unread: SUBSET Files, read: [Files -> Nat]]
  /\ Idle.read = Empty /\ ~Idle.under
  /\ Blank \in [kind: {"closed", "loading", "waiting", "host", "error"},
                shown: [Files -> Nat], last: Nat, first: Nat]
  BY DEF Empty, Files, Idle, Blank

LEMMA DevInit == Init => DevInv
<1> SUFFICES ASSUME Init PROVE DevInv
  OBVIOUS
<1>1. PICK start \in Starts : BundleInit(start.built) /\ SandboxInit(start)
  BY DEF Init
<1>2. start.built \in 0 .. 1
  BY StartsAssumption DEF Start
<1>3. BundleOK
  <2>1. /\ build = start.built /\ disk = [f \in Files |-> build]
        /\ binary = FALSE /\ todo = {} /\ watcher = "none"
    BY <1>1 DEF BundleInit
  <2>2. build \in Nat
    BY <1>2, <2>1
  <2> HIDE DEF Files
  <2>3. disk \in [Files -> Nat] /\ \A f \in Files : disk[f] <= build
    BY <2>1, <2>2
  <2> QED
    BY <2>1, <2>2, <2>3 DEF BundleOK, BundleTypeOK
<1>4. ServerOK
  BY DEF Init, ServerOK, Early
<1>5. PageOK
  BY PagesTyped DEF Init, PageOK
<1>6. FreshOK
  BY DEF Init, FreshOK, Blank
<1> QED
  BY <1>1, <1>3, <1>4, <1>5, <1>6, SandboxInitHolds DEF DevInv, PreviewInv, FrameShown

\* Steps of the command that leave the bundle and the page alone.
LEMMA ServerStep ==
  ASSUME PreviewInv, UNCHANGED <<bundleVars, pageVars>>, ServerOK',
         pc' \in Early => pc \in Early,
         waited' = "fresh" =>
           \/ waited = "fresh" /\ prev' = prev
           \/ pc \in Early /\ disk["entry"] > prev /\ prev' = prev
  PROVE  PreviewInv'
<1>1. BundleOK' /\ PageOK'
  BY DEF PreviewInv, BundleOK, BundleTypeOK, PageOK, bundleVars, pageVars
<1>2. FreshOK'
  <2>1. pc' \in Early => page'.kind = "closed" /\ load' = Idle
    BY DEF PreviewInv, FreshOK, pageVars
  <2>2. ASSUME waited' = "fresh"
        PROVE  /\ build' > prev'
               /\ Newer(disk["entry"])' /\ Newer(load.read["entry"])'
               /\ page'.kind = "host" => page'.shown["entry"] > prev'
    <3>1. CASE waited = "fresh" /\ prev' = prev
      BY <2>2, <3>1 DEF PreviewInv, FreshOK, Newer, bundleVars, pageVars
    <3>2. CASE pc \in Early /\ disk["entry"] > prev /\ prev' = prev
      <4>1. page.kind = "closed" /\ load = Idle /\ disk["entry"] <= build
            /\ disk["entry"] \in Nat /\ build \in Nat /\ prev \in Nat
        BY <3>2 DEF PreviewInv, FreshOK, BundleOK, BundleTypeOK, ServerOK, Files
      <4>2. build > prev
        BY <3>2, <4>1
      <4> QED
        BY <3>2, <4>1, <4>2, PagesTyped DEF Newer, bundleVars, pageVars
    <3> QED
      BY <2>2, <3>1, <3>2
  <2> QED
    BY <2>1, <2>2 DEF FreshOK
<1> QED
  BY <1>1, <1>2 DEF PreviewInv

LEMMA SpendsOnly ==
  ASSUME SandboxInv, NEW deed \in Deeds, Spend(deed),
         UNCHANGED <<hostVars, frame, toFrame, toHost, calls>>
  PROVE  SandboxInv'
<1>1. budget' \in [Deeds -> Nat]
  BY SpendKeeps DEF SandboxInv
<1> QED
  BY <1>1 DEF SandboxInv, HostOK, FrameOK, CallsOK, hostVars

LEMMA SandboxStays ==
  ASSUME SandboxInv, UNCHANGED sandboxVars
  PROVE  SandboxInv' /\ frame' = frame
  BY DEF SandboxInv, HostOK, FrameOK, CallsOK, hostVars, sandboxVars

LEMMA CommandKeeps ==
  ASSUME DevInv, Command
  PROVE  DevInv'
<1>1. SandboxInv' /\ frame' = frame /\ page' = page
  <2>1. UNCHANGED <<sandboxVars, pageVars>>
    BY DEF Command, StatEntrypoint, WaitForFreshEntrypoint, WaitEnds, Serve,
       StartWatchProcess, TerminateWatchProcess, StartShutdown, Shutdown
  <2> QED
    BY <2>1, SandboxStays DEF DevInv, pageVars
<1>2. PreviewInv' 
  <2>1. CASE StatEntrypoint
    <3>1. disk["entry"] \in Nat
      BY DEF DevInv, PreviewInv, BundleOK, BundleTypeOK, Files
    <3>2. ServerOK' /\ waited' = "no" /\ pc \in Early
      BY <2>1, <3>1 DEF StatEntrypoint, Goto, DevInv, PreviewInv, ServerOK, Early
    <3> QED
      BY <2>1, <3>2, ServerStep DEF StatEntrypoint, DevInv
  <2>2. ASSUME NEW started \in BOOLEAN, StartWatchProcess(started)
        PROVE  PreviewInv'
    <3>1. BundleOK' /\ PageOK'
      BY <2>2 DEF StartWatchProcess, DevInv, PreviewInv, BundleOK, BundleTypeOK, PageOK, pageVars
    <3>2. ServerOK' /\ waited' = "no" /\ pc \in Early
      BY <2>2 DEF StartWatchProcess, Goto, DevInv, PreviewInv, ServerOK, Early
    <3>3. FreshOK'
      BY <2>2, <3>2 DEF StartWatchProcess, DevInv, PreviewInv, FreshOK, pageVars
    <3> QED
      BY <3>1, <3>2, <3>3 DEF PreviewInv
  <2>3. CASE WaitForFreshEntrypoint
    <3>1. PICK how \in {"fresh", "interrupted", "timeout"} :
            WaitEnds(how) /\ (how = "fresh" => Fresh)
      BY <2>3 DEF WaitForFreshEntrypoint
    <3>2. ServerOK' /\ pc \in Early
      BY <3>1 DEF WaitEnds, Goto, DevInv, PreviewInv, ServerOK, Early
    <3> QED
      BY <3>1, <3>2, ServerStep DEF WaitEnds, Fresh, DevInv
  <2>4. CASE Serve \/ StartShutdown \/ Shutdown
    <3>1. ServerOK' /\ waited' = waited /\ prev' = prev /\ pc' \notin Early
      BY <2>4 DEF Serve, StartShutdown, Shutdown, Goto, DevInv, PreviewInv, ServerOK, Early
    <3> QED
      BY <2>4, <3>1, ServerStep DEF Serve, StartShutdown, Shutdown, DevInv
  <2>5. CASE TerminateWatchProcess
    <3>1. BundleOK' /\ PageOK' /\ ServerOK'
      BY <2>5 DEF TerminateWatchProcess, DevInv, PreviewInv, BundleOK, BundleTypeOK, PageOK,
         ServerOK, serverVars, pageVars
    <3>2. FreshOK'
      BY <2>5 DEF TerminateWatchProcess, DevInv, PreviewInv, FreshOK, Newer, serverVars, pageVars
    <3> QED
      BY <3>1, <3>2 DEF PreviewInv
  <2> QED
    BY <2>1, <2>2, <2>3, <2>4, <2>5 DEF Command
<1> QED
  BY <1>1, <1>2 DEF DevInv, FrameShown

\* The command fails, or is interrupted.
LEMMA AccidentsKeep ==
  ASSUME DevInv, PrepareFails \/ ServeFails \/ Interrupt
  PROVE  DevInv'
<1>1. PICK deed \in Deeds : Spend(deed)
  BY DEF PrepareFails, ServeFails, Interrupt, Deeds
<1>2. UNCHANGED <<hostVars, frame, toFrame, toHost, calls, bundleVars, pageVars>>
  BY DEF PrepareFails, ServeFails, Interrupt
<1>3. SandboxInv'
  BY <1>1, <1>2, SpendsOnly DEF DevInv
<1>4. /\ ServerOK' /\ waited' = waited /\ prev' = prev
      /\ pc' \in Early => pc \in Early
  <2>1. ServerOK
    BY DEF DevInv, PreviewInv
  <2>2. CASE PrepareFails \/ ServeFails
    BY <2>1, <2>2 DEF PrepareFails, ServeFails, Goto, ServerOK, Early
  <2>3. CASE Interrupt
    BY <2>1, <2>3 DEF Interrupt, ServerOK, Early
  <2> QED
    BY <2>2, <2>3
<1>5. PreviewInv'
  BY <1>2, <1>4, ServerStep DEF DevInv
<1> QED
  BY <1>2, <1>3, <1>5 DEF DevInv, FrameShown, pageVars

\* What the builds do: a build is newer than what was there.
LEMMA BuildsKeep ==
  ASSUME DevInv, Builds
  PROVE  DevInv'
<1>1. UNCHANGED <<hostVars, frame, toFrame, toHost, calls, serverVars, pageVars>>
  BY DEF Builds
<1>2. SandboxInv'
  <2>1. CASE UNCHANGED budget
    BY <1>1, <2>1, SandboxStays DEF DevInv, sandboxVars
  <2>2. CASE Spend("build") \/ Spend("accident")
    BY <1>1, <2>2, SpendsOnly DEF DevInv, Deeds
  <2> QED
    BY <2>1, <2>2 DEF Builds
<1>3. /\ BundleOK /\ BundleTypeOK /\ ServerOK /\ PageOK /\ FreshOK /\ build \in Nat /\ prev \in Nat
      /\ disk \in [Files -> Nat] /\ "entry" \in Files
  BY DEF DevInv, PreviewInv, BundleOK, BundleTypeOK, ServerOK, Files
<1>4. ServerOK' /\ PageOK'
  BY <1>1, <1>3 DEF ServerOK, PageOK, serverVars, pageVars
<1>5. BundleOK' /\ build' >= build /\ disk'["entry"] \in {0, build, disk["entry"]}
  <2>1. CASE StartBuild
    <3>1. /\ build' = build + 1 /\ todo' = Files /\ disk' = Empty
          /\ binary' = FALSE /\ watcher' = watcher
      BY <2>1 DEF StartBuild
    <3>2. build' \in Nat /\ build' >= build
      BY <1>3, <3>1
    <3>3. \A f \in Files : disk'[f] = 0
      BY <3>1 DEF Empty
    <3>4. BundleTypeOK'
      BY <1>3, <3>1, <3>2, PagesTyped DEF BundleTypeOK
    <3>5. BundleOK'
      BY <3>2, <3>3, <3>4 DEF BundleOK
    <3> QED
      BY <1>3, <3>2, <3>3, <3>5
  <2>2. ASSUME NEW f \in Files, WriteFile(f)
        PROVE  BundleOK' /\ build' >= build /\ disk'["entry"] \in {0, build, disk["entry"]}
    <3>1. /\ build' = build /\ watcher' = watcher /\ binary' \in BOOLEAN /\ todo' \subseteq Files
          /\ disk' = [disk EXCEPT ![f] = build]
      BY <1>3, <2>2 DEF WriteFile, BundleTypeOK
    <3>2. disk' \in [Files -> Nat] /\ \A g \in Files : disk'[g] \in {build, disk[g]}
      BY <1>3, <3>1
    <3>3. BundleOK'
      BY <1>3, <3>1, <3>2 DEF BundleOK, BundleTypeOK
    <3> QED
      BY <1>3, <3>1, <3>2, <3>3
  <2>3. CASE WatcherDies
    BY <1>3, <2>3 DEF WatcherDies, BundleOK, BundleTypeOK
  <2> QED
    BY <2>1, <2>2, <2>3 DEF Builds
<1>6. build' \in Nat
  BY <1>5 DEF BundleOK, BundleTypeOK
<1>7. FreshOK'
  BY <1>1, <1>3, <1>5, <1>6 DEF FreshOK, Newer, serverVars, pageVars
<1> QED
  BY <1>1, <1>2, <1>4, <1>5, <1>7 DEF DevInv, PreviewInv, FrameShown, pageVars

\* Steps of the tab leave the bundle and the command alone.
LEMMA TabStep ==
  ASSUME PreviewInv, UNCHANGED <<bundleVars, serverVars>>, PageOK', FreshOK'
  PROVE  PreviewInv'
  BY DEF PreviewInv, BundleOK, BundleTypeOK, ServerOK, bundleVars, serverVars

\* A page without a bundle replaces the one that is shown.
LEMMA ShowPlain ==
  ASSUME PreviewInv, NEW kind \in {"loading", "waiting", "error"}, pc \notin Early,
         Show([Blank EXCEPT !.kind = kind]), UNCHANGED <<bundleVars, serverVars>>
  PROVE  PreviewInv'
<1>1. page'.kind = kind /\ load' = Idle /\ polls' = {}
      /\ page' \in [kind: {"closed", "loading", "waiting", "host", "error"},
                    shown: [Files -> Nat], last: Nat, first: Nat]
  BY PagesTyped DEF Show
<1>2. PageOK'
  BY <1>1, PagesTyped DEF PageOK
<1>3. FreshOK'
  BY <1>1, PagesTyped DEF PreviewInv, FreshOK, Newer, bundleVars, serverVars
<1> QED
  BY <1>2, <1>3, TabStep

\* The page is loaded again, and the frame goes with the old one.
LEMMA ReloadKeeps ==
  ASSUME DevInv, pc \notin Early, Reload,
         UNCHANGED <<bundleVars, hostVars, serverVars>>, budget' \in [Deeds -> Nat]
  PROVE  DevInv'
<1>1. HostOK'
  BY DEF DevInv, SandboxInv, HostOK, hostVars
<1>2. SandboxInv' /\ frame'.stage = "none"
  BY <1>1, LeavePageKeeps DEF Reload, DevInv
<1>3. PreviewInv'
  BY ShowPlain DEF Reload, DevInv
<1> QED
  BY <1>2, <1>3 DEF DevInv, FrameShown

\* The handler of "/" has not started while the command waits.
LEMMA PageIsLate ==
  ASSUME DevInv, page.kind # "closed" \/ load.under  PROVE pc \notin Early
  BY PagesTyped DEF DevInv, PreviewInv, FreshOK

\* The frame is only there in the host page, and not while one is loaded.
LEMMA FrameGone ==
  ASSUME DevInv, load.under \/ page.kind = "loading"
  PROVE  frame.stage = "none"
  BY DEF DevInv, PreviewInv, PageOK, FrameShown

\* While no frame is there the page may change, and the frame stays away.
LEMMA NoFrameStays ==
  ASSUME DevInv, frame.stage = "none", PreviewInv', UNCHANGED sandboxVars
  PROVE  DevInv'
  BY SandboxStays DEF DevInv, FrameShown

LEMMA PlainPageKeeps ==
  ASSUME DevInv, NEW kind \in {"loading", "waiting", "error"}, frame.stage = "none",
         load.under \/ page.kind = "loading",
         Show([Blank EXCEPT !.kind = kind]), UNCHANGED <<bundleVars, serverVars, sandboxVars>>
  PROVE  DevInv'
<1>1. pc \notin Early
  BY PageIsLate
<1>2. PreviewInv'
  BY <1>1, ShowPlain DEF DevInv
<1> QED
  BY <1>2, NoFrameStays

LEMMA LoadStartsKeeps ==
  ASSUME DevInv, LoadStarts
  PROVE  DevInv'
<1>1. /\ page.kind = "loading" /\ pc \notin Early
      /\ frame.stage = "none"
  BY FrameGone DEF LoadStarts, Early
<1>2. load'.under /\ load'.unread \subseteq Files /\ load'.read = Empty
      /\ load' \in [under: BOOLEAN, unread: SUBSET Files, read: [Files -> Nat]]
  BY PagesTyped DEF LoadStarts
<1>3. PageOK'
  BY <1>1, <1>2 DEF LoadStarts, DevInv, PreviewInv, PageOK
<1>4. FreshOK'
  BY <1>1, <1>2, PagesTyped
  DEF LoadStarts, DevInv, PreviewInv, FreshOK, Newer, bundleVars, serverVars
<1>5. PreviewInv'
  BY <1>3, <1>4, TabStep DEF LoadStarts, DevInv
<1> QED
  BY <1>1, <1>5, NoFrameStays DEF LoadStarts

\* What the handler reads is new, or not there.
LEMMA ReadFileKeeps ==
  ASSUME DevInv, NEW f \in Files, ReadFile(f)
  PROVE  DevInv'
<1>1. load.under /\ frame.stage = "none" /\ pc \notin Early
  BY FrameGone, PageIsLate DEF ReadFile
<1>2. CASE disk[f] = 0 \/ (f = "chunk" /\ binary)
  BY <1>1, <1>2, PlainPageKeeps DEF ReadFile
<1>3. CASE ~(disk[f] = 0 \/ (f = "chunk" /\ binary))
  <2>1. /\ load \in [under: BOOLEAN, unread: SUBSET Files, read: [Files -> Nat]]
        /\ disk[f] \in Nat /\ "entry" \in Files
        /\ load.under => page.kind = "loading"
    BY DEF DevInv, PreviewInv, PageOK, BundleOK, BundleTypeOK, Files
  <2>2. /\ load' = [load EXCEPT !.unread = @ \ {f}, !.read[f] = disk[f]]
        /\ page' = page /\ polls' = polls /\ UNCHANGED <<bundleVars, sandboxVars, serverVars>>
    BY <1>3 DEF ReadFile
  <2>3. /\ load' \in [under: BOOLEAN, unread: SUBSET Files, read: [Files -> Nat]]
        /\ load'.under = load.under
        /\ load'.read["entry"] \in {load.read["entry"], disk["entry"]}
    BY <2>1, <2>2
  <2>4. PageOK'
    BY <2>2, <2>3 DEF DevInv, PreviewInv, PageOK
  <2>5. FreshOK'
    BY <1>1, <2>2, <2>3 DEF DevInv, PreviewInv, FreshOK, Newer, bundleVars, serverVars
  <2>6. PreviewInv'
    BY <2>2, <2>4, <2>5, TabStep DEF DevInv
  <2> QED
    BY <1>1, <2>2, <2>6, NoFrameStays
<1> QED
  BY <1>2, <1>3

\* The host page is put together from what was read, and its frame boots.
LEMMA RenderHostKeeps ==
  ASSUME DevInv, RenderHost
  PROVE  DevInv'
<1>1. load.under /\ frame.stage = "none" /\ pc \notin Early
  BY FrameGone, PageIsLate DEF RenderHost
<1>2. CASE load.read["entry"] = 0
  BY <1>1, <1>2, PlainPageKeeps DEF RenderHost, sandboxVars
<1>3. CASE load.read["entry"] # 0
  <2>1. /\ load \in [under: BOOLEAN, unread: SUBSET Files, read: [Files -> Nat]]
        /\ "entry" \in Files
    BY DEF DevInv, PreviewInv, PageOK, Files
  <2>2. /\ page' = [Blank EXCEPT !.kind = "host", !.shown = load.read]
        /\ load' = Idle /\ polls' = {} /\ EnterPage
        /\ UNCHANGED <<bundleVars, hostVars, toFrame, toHost, calls, budget, serverVars>>
    BY <1>3 DEF RenderHost, Show
  <2>3. /\ page' \in [kind: {"closed", "loading", "waiting", "host", "error"},
                      shown: [Files -> Nat], last: Nat, first: Nat]
        /\ page'.kind = "host" /\ page'.shown = load.read
    BY <2>1, <2>2, PagesTyped
  <2>4. PageOK'
    BY <2>2, <2>3, PagesTyped DEF PageOK
  <2>5. FreshOK'
    BY <1>1, <1>3, <2>2, <2>3, PagesTyped
    DEF DevInv, PreviewInv, FreshOK, Newer, bundleVars, serverVars
  <2>6. PreviewInv'
    BY <2>2, <2>4, <2>5, TabStep DEF DevInv
  <2> QED
    BY <2>2, <2>3, <2>6, EnterPageKeeps DEF DevInv, FrameShown
<1> QED
  BY <1>2, <1>3

LEMMA LoadFailsKeeps ==
  ASSUME DevInv, LoadFails
  PROVE  DevInv'
<1>1. page.kind = "loading" /\ frame.stage = "none"
  BY FrameGone DEF LoadFails
<1> QED
  BY <1>1, PlainPageKeeps DEF LoadFails

\* The page is kept but for what it has been told.
LEMMA PollsKeep ==
  ASSUME DevInv, UNCHANGED <<bundleVars, serverVars, sandboxVars, load>>,
         polls' \subseteq Nat, pc \notin Early,
         page' \in [kind: {"closed", "loading", "waiting", "host", "error"},
                    shown: [Files -> Nat], last: Nat, first: Nat],
         page'.kind = page.kind, page'.shown = page.shown
  PROVE  DevInv'
<1>1. PageOK'
  BY DEF DevInv, PreviewInv, PageOK
<1>2. FreshOK'
  BY DEF DevInv, PreviewInv, FreshOK, Newer, bundleVars, serverVars
<1>3. PreviewInv'
  BY <1>1, <1>2, TabStep DEF DevInv
<1> QED
  BY <1>3, SandboxStays DEF DevInv, FrameShown

LEMMA PollSendKeeps ==
  ASSUME DevInv, PollSend
  PROVE  DevInv'
<1>1. polls' \subseteq Nat
  BY DEF PollSend, DevInv, PreviewInv, PageOK, BundleOK, BundleTypeOK, Files
<1>2. page \in [kind: {"closed", "loading", "waiting", "host", "error"},
                shown: [Files -> Nat], last: Nat, first: Nat]
  BY DEF DevInv, PreviewInv, PageOK
<1> QED
  BY <1>1, <1>2, PollsKeep DEF PollSend, Early

LEMMA BudgetTyped ==
  ASSUME DevInv  PROVE budget \in [Deeds -> Nat]
  BY DEF DevInv, SandboxInv

LEMMA PollAnsweredKeeps ==
  ASSUME DevInv, NEW mtime \in polls, PollAnswered(mtime)
  PROVE  DevInv'
<1>1. page.kind \in {"waiting", "host"} /\ pc \notin Early
  BY PageIsLate DEF PollAnswered, WaitingPolls, HostPolls
<1>2. CASE Reload /\ UNCHANGED <<hostVars, budget>>
  BY <1>1, <1>2, ReloadKeeps, BudgetTyped DEF PollAnswered
<1>3. mtime \in Nat /\ polls \ {mtime} \subseteq Nat
      /\ page \in [kind: {"closed", "loading", "waiting", "host", "error"},
                   shown: [Files -> Nat], last: Nat, first: Nat]
  BY DEF DevInv, PreviewInv, PageOK
<1>4. CASE /\ polls' = polls \ {mtime} /\ UNCHANGED <<sandboxVars, load>>
           /\ \/ page' = page
              \/ page' = [page EXCEPT !.last = mtime, !.first = IF @ = 0 THEN mtime ELSE @]
  <2>1. page' \in [kind: {"closed", "loading", "waiting", "host", "error"},
                   shown: [Files -> Nat], last: Nat, first: Nat]
        /\ page'.kind = page.kind /\ page'.shown = page.shown
    BY <1>3, <1>4
  <2> QED
    BY <1>1, <1>3, <1>4, <2>1, PollsKeep DEF PollAnswered
<1> QED
  BY <1>2, <1>4 DEF PollAnswered, WaitingPolls, HostPolls

LEMMA TabKeeps ==
  ASSUME DevInv, Tab
  PROVE  DevInv'
  BY LoadStartsKeeps, RenderHostKeeps, LoadFailsKeeps, PollSendKeeps, ReadFileKeeps,
     PollAnsweredKeeps DEF Tab

\* The user opens the page, and loads it again.
LEMMA UserKeeps ==
  ASSUME DevInv, OpenBrowser \/ UserReloads
  PROVE  DevInv'
<1>1. CASE OpenBrowser
  BY <1>1, ReloadKeeps, BudgetTyped DEF OpenBrowser, Early
<1>2. CASE UserReloads
  <2>1. budget' \in [Deeds -> Nat]
    BY <1>2, BudgetTyped, SpendKeeps DEF UserReloads, Deeds
  <2>2. pc \notin Early
    BY <1>2, PageIsLate DEF UserReloads
  <2> QED
    BY <1>2, <2>1, <2>2, ReloadKeeps DEF UserReloads
<1> QED
  BY <1>1, <1>2

\* The page stays as it is while the app and the proxy act.
LEMMA AppKeeps ==
  ASSUME DevInv, SandboxInv', frame'.stage = "none" <=> frame.stage = "none",
         UNCHANGED <<bundleVars, serverVars, pageVars>>
  PROVE  DevInv'
  BY DEF DevInv, PreviewInv, BundleOK, BundleTypeOK, ServerOK, PageOK, FreshOK, Newer,
     FrameShown, bundleVars, serverVars, pageVars

LEMMA NextKeeps ==
  ASSUME DevInv, [Next]_vars
  PROVE  DevInv'
<1>1. CASE PrepareFails \/ ServeFails \/ Interrupt
  BY <1>1, AccidentsKeep
<1>2. CASE Command
  BY <1>2, CommandKeeps
<1>3. CASE OpenBrowser \/ UserReloads
  BY <1>3, UserKeeps
<1>4. CASE Tab
  BY <1>4, TabKeeps
<1>5. CASE Builds
  BY <1>5, BuildsKeep
<1>6. CASE AppActs
  BY <1>6, SandboxActsKeep, AppKeeps DEF AppActs, DevInv
<1>7. CASE Proxies
  BY <1>7, ProxyActsKeep, AppKeeps DEF Proxies, DevInv
<1>8. ASSUME NEW c \in CallIds, RequestLost(c)
      PROVE  DevInv'
  <2>1. frame' = frame
    BY <1>8 DEF RequestLost, FetchFails
  <2> QED
    BY <1>8, <2>1, FetchFailsKeeps, AppKeeps DEF RequestLost, DevInv
<1>9. CASE UNCHANGED vars
  <2>1. UNCHANGED <<bundleVars, serverVars, pageVars, sandboxVars>>
    BY <1>9 DEF vars
  <2> QED
    BY <2>1, SandboxStays, AppKeeps DEF DevInv
<1> QED
  BY <1>1, <1>2, <1>3, <1>4, <1>5, <1>6, <1>7, <1>8, <1>9 DEF Next

LEMMA DevInvariant == Spec => []DevInv
<1>1. Init => DevInv
  BY DevInit
<1>2. DevInv /\ [Next]_vars => DevInv'
  BY NextKeeps
<1> QED
  BY <1>1, <1>2, PTL DEF Spec

-----------------------------------------------------------------------------
(* What follows from it.                                                   *)

LEMMA CallsTyped ==
  ASSUME DevInv
  PROVE  calls \in [CallIds -> Call] /\ \A c \in CallIds : Sound(c, calls[c])
  BY DEF DevInv, SandboxInv, CallsOK

\* The state of the bundle, the command, the tab and the sandbox in it is of
\* the types the modules say; no route over the limit is ever given to the app,
\* and a frame is only there in a host page (runAppsDev and its two templates).
THEOREM AppsDevTypes == Spec => []TypeOK
<1>1. DevInv => TypeOK
  <2> SUFFICES ASSUME DevInv PROVE TypeOK
    OBVIOUS
  <2>1. HostOK /\ FrameOK /\ CallsOK /\ budget \in [Deeds -> Nat]
        /\ BundleTypeOK /\ ServerOK /\ PageOK /\ FrameShown
    BY DEF DevInv, SandboxInv, PreviewInv, BundleOK
  <2>2. Deliverable(calls) \subseteq FrameMessage
    BY DEF Deliverable
  <2>3. toFrame \in Seq(FrameMessage) /\ toHost \in Seq(HostMessage) /\ calls \in [CallIds -> Call]
    BY <2>1, <2>2, QueueGrows DEF CallsOK
  <2> QED
    BY <2>1, <2>3 DEF TypeOK, HostOK, FrameOK, ServerOK, PageOK, FrameShown
<1> QED
  BY <1>1, DevInvariant, PTL

\* With a watcher that built before the ten seconds of waitForFreshEntrypoint
\* were over, whatever host page the tab shows was put together from an
\* entrypoint of this session, however the builds went on in the meantime.
THEOREM PagesAreFresh == Spec => []FirstPageIsFresh
<1>1. DevInv => FirstPageIsFresh
  BY DEF DevInv, PreviewInv, FreshOK, FirstPageIsFresh
<1> QED
  BY <1>1, DevInvariant, PTL

\* Whatever the order of answers, timeouts, reloads and the server's end: a call
\* of the app that succeeds got the answer to itself, was permitted and carried
\* out once, and no call is carried out twice (the templates' call(), and
\* apiProxy of runAppsDev).
THEOREM AnswersAreTheirs == Spec => []AnswersMatch
<1>1. DevInv => AnswersMatch
  <2> SUFFICES ASSUME DevInv, NEW c \in CallIds
               PROVE  /\ calls[c].runs <= 1
                      /\ calls[c].app = "ok" => calls[c].got = c
                      /\ calls[c].request.kind = "api" =>
                           /\ calls[c].app = "ok" => calls[c].runs = 1
                           /\ ~Permitted(calls[c].request) =>
                                calls[c].runs = 0 /\ calls[c].app # "ok"
    BY DEF AnswersMatch
  <2>1. Sound(c, calls[c]) /\ calls[c].runs \in Nat
    BY CallsTyped DEF Call
  <2> QED
    BY <2>1 DEF Sound
<1> QED
  BY <1>1, DevInvariant, PTL

\* What a call came to stays.
Kept ==
  \A c \in CallIds :
    calls[c].app \in Settled => calls'[c].app = calls[c].app /\ calls'[c].got = calls[c].got

\* One call changes, to k.
LEMMA OneCallChanges ==
  ASSUME DevInv, NEW c \in CallIds, NEW k, calls' = [calls EXCEPT ![c] = k],
         calls[c].app \in Settled => k.app = calls[c].app /\ k.got = calls[c].got
  PROVE  Kept
<1>1. \A d \in CallIds : calls'[d] = IF d = c THEN k ELSE calls[d]
  BY CallsTyped
<1> QED
  BY <1>1 DEF Kept

LEMMA OneCallMoves ==
  ASSUME DevInv, NEW c \in CallIds, NEW where,
         calls' = [calls EXCEPT ![c].where = where]
  PROVE  Kept
<1> DEFINE k == [calls[c] EXCEPT !.where = where]
<1>1. calls' = [calls EXCEPT ![c] = k]
  BY CallsTyped
<1>2. k.app = calls[c].app /\ k.got = calls[c].got
  BY CallsTyped DEF Call
<1> HIDE DEF k
<1> QED
  BY <1>1, <1>2, OneCallChanges

LEMMA AnswersSettleNothing ==
  ASSUME DevInv, NEW c \in CallIds, NEW ok, NEW runs, Answer(c, ok, runs)
  PROVE  Kept
<1> DEFINE k == [calls[c] EXCEPT !.where = "answered", !.ok = ok, !.runs = @ + runs]
<1>1. calls' = [calls EXCEPT ![c] = k]
  BY CallsTyped DEF Answer
<1>2. k.app = calls[c].app /\ k.got = calls[c].got
  BY CallsTyped DEF Call
<1> HIDE DEF k
<1> QED
  BY <1>1, <1>2, OneCallChanges

LEMMA ProxySettlesNothing ==
  ASSUME DevInv,
         \/ ProxyActs
         \/ \E c \in CallIds : RequestLost(c)
         \/ \E c \in CallIds : HostAnswers(c)
         \/ HostHears
  PROVE  Kept
<1>1. CASE ProxyActs
  <2>1. PICK c \in CallIds :
          \/ ProxyRefuses(c) \/ ProxyForwards(c)
          \/ \E ok \in BOOLEAN : ApiAnswers(c, ok)
    BY <1>1 DEF ProxyActs
  <2> QED
    BY <2>1, OneCallMoves, AnswersSettleNothing DEF ProxyRefuses, ProxyForwards, ApiAnswers
<1>2. ASSUME NEW c \in CallIds, RequestLost(c)
      PROVE  Kept
  BY <1>2, AnswersSettleNothing DEF RequestLost, FetchFails
<1>3. ASSUME NEW c \in CallIds, HostAnswers(c)
      PROVE  Kept
  BY <1>3, OneCallMoves DEF HostAnswers
<1>4. CASE HostHears
  <2> DEFINE msg == Head(toHost)
  <2>1. /\ msg \in HostMessage
        /\ \/ UNCHANGED calls
           \/ msg.type = "api" /\ calls' = [calls EXCEPT ![msg.id].where = "fetch"]
           \/ msg.type = "download" /\ calls' = [calls EXCEPT ![msg.id].where = "posted"]
    BY <1>4, HeardOnce DEF HostHears, DevInv, SandboxInv
  <2>2. msg.type \in {"api", "download"} => msg.id \in CallIds
    BY <2>1 DEF HostMessage
  <2> HIDE DEF msg
  <2>3. CASE UNCHANGED calls
    BY <2>3 DEF Kept
  <2> QED
    BY <2>1, <2>2, <2>3, OneCallMoves
<1> QED
  BY <1>1, <1>2, <1>3, <1>4

\* An answer settles the call it is to while that is pending, and no other.
LEMMA AppSettlesPending ==
  ASSUME DevInv,
         \/ FrameHears
         \/ \E c \in CallIds : CallTimesOut(c)
         \/ \E c \in CallIds, request \in Requests : AppCalls(c, request)
  PROVE  Kept
<1>1. CASE FrameHears
  <2> DEFINE msg == Head(toFrame)
  <2>1. /\ msg \in FrameMessage
        /\ \/ UNCHANGED calls
           \/ msg.type = "response" /\ calls' = Settle(msg.id, msg.ok)
    <3>1. toFrame \in Seq(Deliverable(calls)) /\ toFrame # <<>>
      BY <1>1 DEF FrameHears, DevInv, SandboxInv, CallsOK
    <3>2. msg \in Deliverable(calls)
      BY <3>1, QueueTail
    <3> QED
      BY <1>1, <3>2 DEF FrameHears, Deliverable
  <2>2. msg.type = "response" => msg.id \in CallIds
    BY <2>1 DEF FrameMessage
  <2> HIDE DEF msg
  <2>3. CASE UNCHANGED calls
    BY <2>3 DEF Kept
  <2>4. CASE msg.type = "response" /\ calls' = Settle(msg.id, msg.ok)
    <3> DEFINE c == msg.id
               k == [calls[c] EXCEPT !.where = "over",
                                     !.app = IF msg.ok THEN "ok" ELSE "failed", !.got = c]
    <3>1. CASE calls[c].app = "pending"
      <4>1. calls' = [calls EXCEPT ![c] = k]
        BY <2>2, <2>4, <3>1, CallsTyped DEF Settle
      <4>2. calls[c].app \notin Settled /\ c \in CallIds
        BY <2>2, <2>4, <3>1 DEF Settled
      <4> HIDE DEF k, c
      <4> QED
        BY <4>1, <4>2, OneCallChanges
    <3>2. CASE calls[c].app # "pending"
      BY <2>2, <2>4, <3>2, OneCallMoves DEF Settle
    <3> QED
      BY <3>1, <3>2
  <2> QED
    BY <2>1, <2>3, <2>4
<1>2. ASSUME NEW c \in CallIds, CallTimesOut(c)
      PROVE  Kept
  <2> DEFINE k == [calls[c] EXCEPT !.app = "timedout"]
  <2>1. calls' = [calls EXCEPT ![c] = k] /\ calls[c].app \notin Settled
    BY <1>2, CallsTyped DEF CallTimesOut, Settled
  <2> HIDE DEF k
  <2> QED
    BY <2>1, OneCallChanges
<1>3. ASSUME NEW c \in CallIds, NEW request \in Requests, AppCalls(c, request)
      PROVE  Kept
  <2>1. calls[c].app \notin Settled
    BY <1>3 DEF AppCalls, Settled
  <2>2. \A d \in CallIds : d # c => calls'[d] = calls[d]
    BY <1>3, CallsTyped DEF AppCalls
  <2> QED
    BY <2>1, <2>2 DEF Kept
<1> QED
  BY <1>1, <1>2, <1>3

\* What the tab leaves behind when its page goes.
LEMMA LeavingSettlesPending ==
  ASSUME DevInv, LeavePage
  PROVE  Kept
<1> SUFFICES ASSUME NEW c \in CallIds, calls[c].app \in Settled
             PROVE  calls'[c].app = calls[c].app /\ calls'[c].got = calls[c].got
  BY DEF Kept
<1>1. calls'[c] = Orphaned(calls[c]) /\ calls[c] \in Call /\ calls[c].app # "pending"
  BY CallsTyped DEF LeavePage, Settled
<1> QED
  BY <1>1 DEF Orphaned, Call

\* A promise of the app settles once: whatever comes after its answer, its
\* timeout or the end of its page leaves it as it is (the templates' call()).
THEOREM PromisesSettleOnce == Spec => SettledStays
<1>1. DevInv /\ [Next]_vars => [Kept]_vars
  <2> SUFFICES ASSUME DevInv, Next PROVE Kept
    OBVIOUS
  <2>1. CASE UNCHANGED calls
    BY <2>1 DEF Kept
  <2>2. CASE OpenBrowser \/ UserReloads \/ Tab
    <3>1. LeavePage \/ UNCHANGED calls
      BY <2>2 DEF OpenBrowser, UserReloads, Tab, LoadStarts, RenderHost, LoadFails, PollSend,
         ReadFile, PollAnswered, WaitingPolls, HostPolls, Reload, sandboxVars
    <3> QED
      BY <2>1, <3>1, LeavingSettlesPending
  <2>3. CASE AppActs
    <3>1. CASE UNCHANGED calls
      BY <3>1 DEF Kept
    <3>2. CASE \/ FrameHears \/ HostHears
               \/ \E c \in CallIds : HostAnswers(c) \/ CallTimesOut(c)
               \/ \E c \in CallIds, request \in Requests : AppCalls(c, request)
      BY <3>2, ProxySettlesNothing, AppSettlesPending
    <3> QED
      BY <2>3, <3>1, <3>2 DEF AppActs, SandboxActs, SetMode, PopState, FrameBoots, AppSetsRoute
  <2>4. CASE Proxies \/ \E c \in CallIds : RequestLost(c)
    BY <2>4, ProxySettlesNothing DEF Proxies
  <2>5. CASE PrepareFails \/ Command \/ ServeFails \/ Interrupt \/ Builds
    <3>1. UNCHANGED calls
      BY <2>5 DEF PrepareFails, Command, ServeFails, Interrupt, Builds, StatEntrypoint,
         WaitForFreshEntrypoint, WaitEnds, Serve, StartWatchProcess, TerminateWatchProcess,
         StartShutdown, Shutdown, sandboxVars
    <3> QED
      BY <2>1, <3>1
  <2> QED
    BY <2>2, <2>3, <2>4, <2>5 DEF Next
<1> QED
  BY <1>1, DevInvariant, PTL DEF Spec, SettledStays, Kept

=============================================================================
