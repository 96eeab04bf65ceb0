---------------------------- MODULE ActivityBridge ----------------------------
(***************************************************************************)
(* The game as an Activity of a host page: the handshake over window       *)
(* messages and the private channel (packages/activity-sdk), the frame the *)
(* laboratory host opens and takes away (apps/activity-shell, LabHost),    *)
(* and the page inside it: the requests of credentials and invitations,    *)
(* the connection to the match server and the end                          *)
(* (apps/game-client: boot/host.ts, AppController, MatchConnection).       *)
(*                                                                         *)
(* A document is what one load of the frame runs; a reload starts another  *)
(* one in the same frame.  Everything that takes time (a message, a        *)
(* handler of the host, a join, a timer) ends in a step of its own.        *)
(***************************************************************************)
EXTENDS Naturals, Sequences

CONSTANTS
    MaxOpenings, MaxReloads,    \* bounds: frames, and reloads
    MaxHellos,                  \* bound: HELLOs of one document
    MaxChannels,                \* bound: HELLOs that are answered
    MaxRequests,                \* bound: requests of one document
    MaxJoins,                   \* bound: joins of one document
    MaxRejoins                  \* rejoins that are tried without asking

ASSUME BoundsAssumption ==
    /\ MaxOpenings \in Nat \ {0} /\ MaxReloads \in Nat
    /\ MaxHellos \in Nat \ {0} /\ MaxChannels \in Nat \ {0} /\ MaxRequests \in Nat
    /\ MaxJoins \in Nat /\ MaxRejoins \in Nat

VARIABLES
    (* host *)
    openings,       \* frames opened so far
    opening,        \* there is an Activity (openRef), and its ActivityHost lives
    closing,        \* it is being closed (closingRef)
    hostPort,       \* the channel the host listens to, or None
    channels,       \* channels made so far
    serving,        \* requests whose handler the host awaits
    (* messages *)
    hellos,         \* HELLOs on their way to the host
    inits,          \* channels on their way to the document
    up,             \* what the host's port has to take
    down,           \* [Channels -> what the document's end has to take]
    (* document *)
    reloads,
    nonce,          \* the URL of the frame has the fragment
    doc,            \* number of the document
    page,           \* what the document shows
    said,           \* HELLOs it sent
    prompt,         \* its first HELLO was answered before another was due
    clientPort,
    seq,            \* requests it made
    pending,        \* those without an answer
    (* match *)
    phase,          \* of connect
    conn,           \* the connection the page holds, or None
    joining,        \* the connection whose join is awaited, or None
    joins,
    rooms,          \* connections that are open
    leaving,        \* those that were told to leave
    rejoins,
    closed,         \* the page was closed
    awaited         \* the connection whose leave the closing awaits

hostVars == <<openings, opening, closing, hostPort, channels, serving>>
messageVars == <<hellos, inits, up, down>>
documentVars == <<reloads, nonce, doc, page, said, prompt, clientPort>>
requestVars == <<seq, pending>>
matchVars == <<phase, conn, joining, joins, rooms, leaving, rejoins, closed, awaited>>
vars == <<hostVars, messageVars, documentVars, requestVars, matchVars>>

None == 0
Channels == 1..MaxChannels
Connections == 1..MaxJoins
Kinds == {"credential", "invite"}

Pages == {"none", "loading", "hello", "invalid", "failed", "connected", "closed"}
Phases == {"idle", "asking", "joining", "in", "waiting", "error", "refused"}

Quiet == [c \in Channels |-> <<>>]

(* A new document knows nothing of the one before.                         *)
DocumentStarts ==
    /\ doc' = doc + 1
    /\ said' = 0
    /\ prompt' = FALSE
    /\ clientPort' = None
    /\ inits' = <<>>
    /\ down' = Quiet
    /\ seq' = 0
    /\ pending' = {}
    /\ phase' = "idle"
    /\ conn' = None
    /\ joining' = None
    /\ joins' = 0
    /\ rooms' = {}
    /\ leaving' = {}
    /\ rejoins' = 0
    /\ closed' = FALSE
    /\ awaited' = None

Init ==
    /\ openings = 0 /\ opening = FALSE /\ closing = FALSE
    /\ hostPort = None /\ channels = 0 /\ serving = {}
    /\ hellos = 0 /\ inits = <<>> /\ up = <<>> /\ down = Quiet
    /\ reloads = 0 /\ nonce = FALSE /\ doc = 0 /\ page = "none"
    /\ said = 0 /\ prompt = FALSE /\ clientPort = None
    /\ seq = 0 /\ pending = {}
    /\ phase = "idle" /\ conn = None /\ joining = None /\ joins = 0
    /\ rooms = {} /\ leaving = {} /\ rejoins = 0
    /\ closed = FALSE /\ awaited = None

-----------------------------------------------------------------------------
(* The host opens the frame and takes it away.                             *)
Opens ==
    /\ ~opening
    /\ page = "none"
    /\ openings < MaxOpenings
    /\ openings' = openings + 1
    /\ opening' = TRUE
    /\ nonce' = TRUE
    /\ page' = "loading"
    /\ DocumentStarts
    /\ UNCHANGED <<closing, hostPort, channels, serving, hellos, up, reloads>>

(* The person closes it in the host: the page is told.                     *)
HostCloses ==
    /\ opening
    /\ ~closing
    /\ closing' = TRUE
    /\ down' = IF hostPort = None THEN down
               ELSE [down EXCEPT ![hostPort] = Append(@, [kind |-> "close"])]
    /\ UNCHANGED <<openings, opening, hostPort, channels, serving, hellos, inits, up,
                   documentVars, requestVars, matchVars>>

(* The delay of closeActivity is over: ActivityHost.destroy.               *)
Destroyed ==
    /\ closing
    /\ closing' = FALSE
    /\ opening' = FALSE
    /\ hostPort' = None
    /\ serving' = {}
    /\ up' = <<>>
    /\ UNCHANGED <<openings, channels, hellos, inits, down, documentVars, requestVars,
                   matchVars>>

(* The frame leaves the page, and with it the document and its sockets.    *)
FrameRemoved ==
    /\ page # "none"
    /\ ~opening
    /\ page' = "none"
    /\ nonce' = FALSE
    /\ hellos' = 0
    /\ DocumentStarts
    /\ UNCHANGED <<hostVars, up, reloads>>

Reloads ==
    /\ page # "none"
    /\ reloads < MaxReloads
    /\ reloads' = reloads + 1
    /\ page' = "loading"
    /\ DocumentStarts
    /\ UNCHANGED <<hostVars, hellos, up, nonce>>

-----------------------------------------------------------------------------
(* The handshake.                                                          *)
KeepsFragmentVariant(fragment) == fragment
FragmentLeft(fragment) == FALSE

(* The document reads the fragment, and calls.                             *)
Boots ==
    /\ page = "loading"
    /\ nonce' = FragmentLeft(nonce)
    /\ IF nonce
       THEN /\ page' = "hello"
            /\ said' = 1
            /\ hellos' = hellos + 1
       ELSE /\ page' = "invalid"
            /\ UNCHANGED <<said, hellos>>
    /\ UNCHANGED <<hostVars, inits, up, down, reloads, doc, prompt, clientPort,
                   requestVars, matchVars>>

CallsOnVariant == page \in {"hello", "connected"}
Calls == page = "hello"

SaysHello ==
    /\ Calls
    /\ said < MaxHellos
    /\ said' = said + 1
    /\ hellos' = hellos + 1
    /\ UNCHANGED <<hostVars, inits, up, down, reloads, nonce, doc, page, prompt, clientPort,
                   requestVars, matchVars>>

HandshakeFails ==
    /\ page = "hello"
    /\ page' = "failed"
    /\ UNCHANGED <<hostVars, messageVars, reloads, nonce, doc, said, prompt, clientPort,
                   requestVars, matchVars>>

(* Every HELLO gets a channel; what was in the old one is lost.            *)
SendsInit ==
    /\ opening
    /\ hellos > 0
    /\ channels < MaxChannels
    /\ hellos' = hellos - 1
    /\ channels' = channels + 1
    /\ hostPort' = channels'
    /\ up' = <<>>
    /\ inits' = Append(inits, channels')
    /\ UNCHANGED <<openings, opening, closing, serving, down, documentVars, requestVars,
                   matchVars>>

(* The first INIT gives the port; nobody listens to another.               *)
TakesInit ==
    /\ inits # <<>>
    /\ inits' = Tail(inits)
    /\ IF page = "hello"
       THEN /\ page' = "connected"
            /\ clientPort' = Head(inits)
            /\ prompt' = (said = 1)
       ELSE UNCHANGED <<page, clientPort, prompt>>
    /\ UNCHANGED <<hostVars, hellos, up, down, reloads, nonce, doc, said, requestVars,
                   matchVars>>

-----------------------------------------------------------------------------
(* Requests and answers.                                                   *)
Sent(messages) == IF clientPort = hostPort THEN up \o messages ELSE up

Requests(kind) ==
    /\ page = "connected"
    /\ seq < MaxRequests
    /\ seq' = seq + 1
    /\ pending' = pending \union {[id |-> seq', kind |-> kind]}
    /\ up' = Sent(<<[kind |-> kind, id |-> seq', doc |-> doc]>>)
    /\ UNCHANGED <<hostVars, hellos, inits, down, documentVars>>

(* connect: at the start, after a loss or when the person asks again; it   *)
(* does not look at whether the page is closing.                           *)
Connect ==
    /\ phase \in {"idle", "waiting", "error"}
    /\ joins < MaxJoins
    /\ Requests("credential")
    /\ phase' = "asking"
    /\ UNCHANGED <<conn, joining, joins, rooms, leaving, rejoins, closed, awaited>>

Invites == Requests("invite") /\ UNCHANGED matchVars

(* The host takes a message: a request, or the page that wants to close.   *)
HostTakes ==
    /\ up # <<>>
    /\ up' = Tail(up)
    /\ LET m == Head(up)
       IN  IF m.kind = "close"
           THEN closing' = TRUE /\ UNCHANGED serving
           ELSE serving' = serving \union {m} /\ UNCHANGED closing
    /\ UNCHANGED <<openings, opening, hostPort, channels, hellos, inits, down, documentVars,
                   requestVars, matchVars>>

(* A handler ends: its answer goes to the channel there is by then.        *)
Responds(m) ==
    /\ m \in serving
    /\ serving' = serving \ {m}
    /\ \E ok \in BOOLEAN :
          down' = [down EXCEPT ![hostPort] =
                      Append(@, [kind |-> "answer", id |-> m.id, doc |-> m.doc, ok |-> ok])]
    /\ UNCHANGED <<openings, opening, closing, hostPort, channels, hellos, inits, up,
                   documentVars, requestVars, matchVars>>

(* close: the connection is told to leave, and that is awaited; one that   *)
(* is still joining has nothing to leave.                                  *)
CloseBegins ==
    /\ closed' = TRUE
    /\ awaited' = IF conn \in rooms THEN conn ELSE None
    /\ leaving' = leaving \union ({conn} \intersect rooms)
    /\ UNCHANGED <<phase, conn, joining, joins, rooms, rejoins>>

(* The credential is here, or is not: connect goes on.                     *)
Joins ==
    /\ phase' = "joining"
    /\ leaving' = leaving \union ({conn} \intersect rooms)
    /\ joins' = joins + 1
    /\ conn' = joins'
    /\ joining' = joins'
    /\ UNCHANGED <<rooms, rejoins, closed, awaited>>

Refused ==
    /\ phase' \in {"error", "refused"}
    /\ UNCHANGED <<conn, joining, joins, rooms, leaving, rejoins, closed, awaited>>

Settled(request, ok) ==
    IF request.kind # "credential" THEN UNCHANGED matchVars
    ELSE IF ok THEN Joins
    ELSE Refused

PageTakes ==
    /\ page = "connected"
    /\ down[clientPort] # <<>>
    /\ down' = [down EXCEPT ![clientPort] = Tail(@)]
    /\ LET m == Head(down[clientPort])
           asked == {r \in pending : m.kind = "answer" /\ r.id = m.id}
       IN  /\ pending' = pending \ asked
           /\ \/ m.kind = "close" /\ ~closed /\ CloseBegins
              \/ m.kind = "close" /\ closed /\ UNCHANGED matchVars
              \/ m.kind = "answer" /\ asked = {} /\ UNCHANGED matchVars
              \/ \E r \in asked : Settled(r, m.ok)
    /\ UNCHANGED <<hostVars, hellos, inits, up, documentVars, seq>>

TimesOut(r) ==
    /\ r \in pending
    /\ pending' = pending \ {r}
    /\ Settled(r, FALSE)
    /\ UNCHANGED <<hostVars, messageVars, documentVars, seq>>

-----------------------------------------------------------------------------
(* The connection to the match.                                            *)
JoinEnds ==
    /\ joining # None
    /\ joining' = None
    /\ \/ /\ rooms' = rooms \union {joining}
          /\ phase' = IF conn = joining THEN "in" ELSE phase
          /\ rejoins' = 0
       \/ /\ phase' \in {"error", "refused"}
          /\ UNCHANGED <<rooms, rejoins>>
    /\ UNCHANGED <<hostVars, messageVars, documentVars, requestVars, conn, joins, leaving,
                   closed, awaited>>

LeaveEnds(c) ==
    /\ c \in leaving
    /\ rooms' = rooms \ {c}
    /\ leaving' = leaving \ {c}
    /\ UNCHANGED <<hostVars, messageVars, documentVars, requestVars, phase, conn, joining,
                   joins, rejoins, closed, awaited>>

(* The connection is lost, or another one took the slot (replaced).        *)
Lost(c) ==
    /\ c \in rooms \ leaving
    /\ rooms' = rooms \ {c}
    /\ IF closed \/ c # conn THEN UNCHANGED <<phase, rejoins>>
       ELSE \/ phase' = "refused" /\ UNCHANGED rejoins
            \/ rejoins < MaxRejoins /\ phase' = "waiting" /\ rejoins' = rejoins + 1
            \/ rejoins = MaxRejoins /\ phase' = "error" /\ UNCHANGED rejoins
    /\ UNCHANGED <<hostVars, messageVars, documentVars, requestVars, conn, joining, joins,
                   leaving, closed, awaited>>

(* The timer of a rejoin is not stopped by close; the request it makes is  *)
(* rejected.                                                               *)
RejoinsTooLate ==
    /\ page = "closed"
    /\ phase = "waiting"
    /\ phase' = "error"
    /\ UNCHANGED <<hostVars, messageVars, documentVars, requestVars, conn, joining, joins,
                   rooms, leaving, rejoins, closed, awaited>>

(* The person closes the page.                                             *)
PageCloses ==
    /\ page = "connected"
    /\ ~closed
    /\ CloseBegins
    /\ UNCHANGED <<hostVars, messageVars, documentVars, requestVars>>

(* The connection left: the host is asked to close, then the channel is    *)
(* closed and what is pending is rejected.                                 *)
ClosesFirstVariant == <<>>
LastWords == <<[kind |-> "close"]>>

CloseEnds ==
    /\ page = "connected"
    /\ closed
    /\ awaited \notin rooms
    /\ page' = "closed"
    /\ conn' = None
    /\ up' = Sent(LastWords)
    /\ clientPort' = None
    /\ pending' = {}
    /\ phase' = IF phase = "asking" THEN "error" ELSE phase
    /\ UNCHANGED <<hostVars, hellos, inits, down, reloads, nonce, doc, said, prompt, seq,
                   joining, joins, rooms, leaving, rejoins, closed, awaited>>

-----------------------------------------------------------------------------
Host == Opens \/ HostCloses \/ Destroyed \/ FrameRemoved \/ SendsInit \/ HostTakes
Page == Reloads \/ Boots \/ SaysHello \/ HandshakeFails \/ TakesInit
        \/ Connect \/ Invites \/ PageTakes \/ PageCloses \/ CloseEnds

Next ==
    \/ Host
    \/ Page
    \/ \E m \in serving : Responds(m)
    \/ \E r \in pending : TimesOut(r)
    \/ JoinEnds \/ RejoinsTooLate
    \/ \E c \in Connections : LeaveEnds(c) \/ Lost(c)

(* Ports deliver, the delay of the host ends, the frame is removed, and a  *)
(* connection that is told to leave leaves.                                *)
Fairness ==
    /\ WF_vars(HostTakes)
    /\ WF_vars(Destroyed)
    /\ WF_vars(FrameRemoved)
    /\ WF_vars(CloseEnds)
    /\ \A c \in Connections : WF_vars(LeaveEnds(c))

Spec == Init /\ [][Next]_vars /\ Fairness

-----------------------------------------------------------------------------
TypeOK ==
    /\ openings \in 0..MaxOpenings /\ opening \in BOOLEAN /\ closing \in BOOLEAN
    /\ hostPort \in Channels \union {None} /\ channels \in 0..MaxChannels
    /\ hellos \in Nat /\ inits \in Seq(Channels)
    /\ nonce \in BOOLEAN /\ page \in Pages /\ doc \in Nat
    /\ said \in 0..MaxHellos /\ prompt \in BOOLEAN
    /\ clientPort \in Channels \union {None}
    /\ pending \subseteq [id : 1..MaxRequests, kind : Kinds]
    /\ phase \in Phases
    /\ conn \in Connections \union {None} /\ joining \in Connections \union {None}
    /\ rooms \subseteq Connections /\ leaving \subseteq rooms
    /\ closed \in BOOLEAN /\ awaited \in Connections \union {None}

(* An answer that would settle a request of this document was made for     *)
(* this document, although the host answers to the channel there is by     *)
(* then (ActivityHost.ts:112-120) and every document counts its requests   *)
(* from 1: a reload has no nonce to shake hands with (boot/host.ts:6-12).  *)
AnswersAreOwn ==
    page = "connected" =>
        \A i \in DOMAIN down[clientPort] :
            LET m == down[clientPort][i]
            IN  m.kind = "answer" /\ (\E r \in pending : r.id = m.id) => m.doc = doc

(* A page whose first HELLO was answered before another was due speaks to  *)
(* its host as long as the host lives: nothing makes the host change the   *)
(* channel under it (ActivityClient.ts:56-93, ActivityHost.ts:91-100).     *)
ChannelIsHosts ==
    page = "connected" /\ prompt /\ opening => clientPort = hostPort

(* A page that closes is taken away by the host, and with it every         *)
(* connection to the match, also one whose join ended after close had told *)
(* the connection to leave (AppController.ts:484-497, LabHost.tsx:140-157). *)
ClosedPageLeaves == closed /\ prompt ~> ~closed /\ rooms = {}
=============================================================================
