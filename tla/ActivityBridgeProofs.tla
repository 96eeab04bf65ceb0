------------------------- MODULE ActivityBridgeProofs -------------------------
(***************************************************************************)
(* Proofs about the bridge between a game and its host: whose answers a    *)
(* document takes, and which channel it speaks to, for any number of       *)
(* openings, reloads, HELLOs, requests and connections.                    *)
(***************************************************************************)
EXTENDS ActivityBridge, SequenceTheorems, TLAPS

RequestsOf(d) == [kind : Kinds, id : Nat, doc : {d}]
LettersOf(d) == [kind : {"close"}] \union RequestsOf(d)
WordsOf(d) == [kind : {"close"}] \union [kind : {"answer"}, id : Nat, doc : {d}, ok : BOOLEAN]

Counters ==
    /\ channels \in Nat /\ hellos \in Nat /\ seq \in Nat
    /\ hostPort \in Channels \union {None}

(* Without an Activity nothing is served; without a frame nobody calls.    *)
NobodyServed ==
    /\ ~opening => hostPort = None /\ serving = {} /\ up = <<>>
    /\ page = "none" => ~opening /\ ~nonce /\ hellos = 0

(* While the fragment is there, nothing was said in this frame.            *)
FragmentIsNew ==
    nonce => /\ page = "loading" /\ hellos = 0 /\ inits = <<>>
             /\ serving = {} /\ up = <<>>

(* Each HELLO is on its way or was answered, and the last answer carries   *)
(* the channel the host listens to.                                        *)
HellosCounted ==
    page = "hello" =>
        /\ said \in Nat \ {0} /\ inits \in Seq(Channels)
        /\ hellos + Len(inits) <= said
        /\ inits # <<>> /\ opening => inits[Len(inits)] = hostPort

PortAgreed ==
    page = "connected" =>
        /\ clientPort \in Channels
        /\ prompt => hellos = 0 /\ (opening => clientPort = hostPort)

(* What is on its way between a host and a document that can shake hands   *)
(* with it, or did, is of this document.                                   *)
Shakes == nonce \/ page \in {"hello", "connected"}
PostIsOwn ==
    Shakes => /\ up \in Seq(LettersOf(doc))
              /\ serving \in SUBSET RequestsOf(doc)
              /\ down \in [Channels -> Seq(WordsOf(doc))]

BridgeInv ==
    /\ Counters
    /\ NobodyServed
    /\ FragmentIsNew
    /\ HellosCounted
    /\ PortAgreed
    /\ PostIsOwn

\* What the invariant is about.
bridgeVars == <<opening, hostPort, channels, serving, hellos, inits, up, down,
                nonce, doc, page, said, prompt, clientPort, seq>>

-----------------------------------------------------------------------------
(* A post stays of its kind when a message is added to it or taken from it. *)
LEMMA PostGrows ==
    ASSUME NEW S, NEW q \in Seq(S), NEW m \in S
    PROVE  /\ Append(q, m) \in Seq(S) /\ q \o <<m>> \in Seq(S)
           /\ Len(Append(q, m)) = Len(q) + 1
           /\ Append(q, m)[Len(q) + 1] = m
           /\ Append(q, m) # <<>>
<1>1. <<m>> \in Seq(S)
  BY SMT
<1>2. q \o <<m>> \in Seq(S)
  BY <1>1, ConcatProperties
<1> QED
  BY <1>2, AppendProperties

(* Taking the first message leaves a channel and gives one of its messages.*)
LEMMA PostShrinks ==
    ASSUME NEW S, NEW q \in Seq(S), q # <<>>
    PROVE  Tail(q) \in Seq(S) /\ Head(q) \in S
BY HeadTailProperties

(* At the start there is no frame.                                         *)
LEMMA BridgeStarts == Init => BridgeInv
<1> SUFFICES ASSUME Init PROVE BridgeInv
  OBVIOUS
<1>1. Counters /\ NobodyServed /\ FragmentIsNew
  BY DEF Init, Counters, NobodyServed, FragmentIsNew, None
<1>2. HellosCounted /\ PortAgreed /\ PostIsOwn
  BY DEF Init, HellosCounted, PortAgreed, PostIsOwn, Shakes
<1> QED
  BY <1>1, <1>2 DEF BridgeInv

(* What the invariant does not read changes nothing.                       *)
LEMMA OthersKeep == BridgeInv /\ UNCHANGED bridgeVars => BridgeInv'
<1> SUFFICES ASSUME BridgeInv, UNCHANGED bridgeVars PROVE BridgeInv'
  OBVIOUS
<1>1. Counters' /\ NobodyServed' /\ FragmentIsNew'
  BY DEF BridgeInv, bridgeVars, Counters, NobodyServed, FragmentIsNew
<1>2. HellosCounted' /\ PortAgreed' /\ PostIsOwn'
  BY DEF BridgeInv, bridgeVars, HellosCounted, PortAgreed, PostIsOwn, Shakes
<1> QED
  BY <1>1, <1>2 DEF BridgeInv

(* A frame that comes, goes or is reloaded.                                *)
LEMMA FramesKeep ==
    ASSUME BridgeInv, Opens \/ FrameRemoved \/ Reloads
    PROVE  BridgeInv'
<1> USE DEF BridgeInv
<1>1. CASE Opens
  <2>1. /\ page = "none" /\ page' = "loading" /\ opening' = TRUE /\ nonce' = TRUE
        /\ inits' = <<>> /\ down' = Quiet /\ seq' = 0 /\ doc' = doc + 1
        /\ UNCHANGED <<hostPort, channels, serving, hellos, up>>
    BY <1>1 DEF Opens, DocumentStarts
  <2>2. hellos = 0 /\ serving = {} /\ up = <<>>
    BY <1>1, <2>1 DEF NobodyServed, Opens
  <2>3. Counters' /\ NobodyServed' /\ FragmentIsNew'
    BY <2>1, <2>2 DEF Counters, NobodyServed, FragmentIsNew
  <2>4. HellosCounted' /\ PortAgreed'
    BY <2>1 DEF HellosCounted, PortAgreed
  <2>5. PostIsOwn'
    BY <2>1, <2>2, EmptySeq DEF PostIsOwn, Quiet
  <2> QED
    BY <2>3, <2>4, <2>5
<1>2. CASE FrameRemoved
  <2>1. /\ page' = "none" /\ nonce' = FALSE /\ hellos' = 0 /\ seq' = 0
        /\ ~opening /\ UNCHANGED <<opening, hostPort, channels, serving, up>>
    BY <1>2 DEF FrameRemoved, DocumentStarts, hostVars
  <2>2. Counters' /\ NobodyServed' /\ FragmentIsNew'
    BY <2>1 DEF Counters, NobodyServed, FragmentIsNew
  <2>3. HellosCounted' /\ PortAgreed' /\ PostIsOwn'
    BY <2>1 DEF HellosCounted, PortAgreed, PostIsOwn, Shakes
  <2> QED
    BY <2>2, <2>3
<1>3. CASE Reloads
  <2>1. /\ page # "none" /\ page' = "loading" /\ inits' = <<>> /\ down' = Quiet /\ seq' = 0
        /\ UNCHANGED <<opening, hostPort, channels, serving, hellos, up, nonce>>
    BY <1>3 DEF Reloads, DocumentStarts, hostVars
  <2>2. Counters' /\ NobodyServed' /\ FragmentIsNew'
    BY <2>1 DEF Counters, NobodyServed, FragmentIsNew
  <2>3. HellosCounted' /\ PortAgreed'
    BY <2>1 DEF HellosCounted, PortAgreed
  <2>4. PostIsOwn'
    BY <2>1, EmptySeq DEF PostIsOwn, Shakes, FragmentIsNew, Quiet
  <2> QED
    BY <2>2, <2>3, <2>4
<1> QED
  BY <1>1, <1>2, <1>3

(* The host closes, and the Activity is destroyed.                         *)
LEMMA ClosingKeeps ==
    ASSUME BridgeInv, HostCloses \/ Destroyed
    PROVE  BridgeInv'
<1> USE DEF BridgeInv
<1>1. CASE HostCloses
  <2>1. UNCHANGED <<opening, hostPort, channels, serving, hellos, inits, up, nonce, doc,
                    page, said, prompt, clientPort, seq>>
    BY <1>1 DEF HostCloses, documentVars, requestVars
  <2>2. Counters' /\ NobodyServed' /\ FragmentIsNew'
    BY <2>1 DEF Counters, NobodyServed, FragmentIsNew
  <2>3. HellosCounted' /\ PortAgreed'
    BY <2>1 DEF HellosCounted, PortAgreed
  <2>4. ASSUME Shakes'
        PROVE  down' \in [Channels -> Seq(WordsOf(doc))]
    <3>1. down \in [Channels -> Seq(WordsOf(doc))]
      BY <2>1, <2>4 DEF PostIsOwn, Shakes
    <3>2. CASE hostPort = None
      BY <1>1, <3>1, <3>2 DEF HostCloses
    <3>3. CASE hostPort # None
      <4>1. hostPort \in Channels
        BY <3>3 DEF Counters
      <4>2. Append(down[hostPort], [kind |-> "close"]) \in Seq(WordsOf(doc))
        <5>1. [kind |-> "close"] \in WordsOf(doc)
          BY DEF WordsOf
        <5> QED
          BY <3>1, <4>1, <5>1, PostGrows
      <4> QED
        BY <1>1, <3>1, <3>3, <4>2 DEF HostCloses
    <3> QED
      BY <3>2, <3>3
  <2>5. PostIsOwn'
    BY <2>1, <2>4 DEF PostIsOwn, Shakes
  <2> QED
    BY <2>2, <2>3, <2>5
<1>2. CASE Destroyed
  <2>1. /\ opening' = FALSE /\ hostPort' = None /\ serving' = {} /\ up' = <<>>
        /\ UNCHANGED <<channels, hellos, inits, down, nonce, doc, page, said, prompt,
                       clientPort, seq>>
    BY <1>2 DEF Destroyed, documentVars, requestVars
  <2>2. Counters' /\ NobodyServed' /\ FragmentIsNew'
    BY <2>1 DEF Counters, NobodyServed, FragmentIsNew
  <2>3. HellosCounted' /\ PortAgreed'
    BY <2>1 DEF HellosCounted, PortAgreed
  <2>4. PostIsOwn'
    BY <2>1, EmptySeq DEF PostIsOwn, Shakes
  <2> QED
    BY <2>2, <2>3, <2>4
<1> QED
  BY <1>1, <1>2

(* The handshake: each step of it.                                         *)
LEMMA HandshakeKeeps ==
    ASSUME BridgeInv, Boots \/ SaysHello \/ HandshakeFails \/ SendsInit \/ TakesInit
    PROVE  BridgeInv'
<1> USE DEF BridgeInv
<1>1. CASE Boots
  <2>1. /\ page = "loading" /\ nonce' = FALSE
        /\ UNCHANGED <<opening, hostPort, channels, serving, inits, up, down, doc, prompt,
                       clientPort, seq>>
    BY <1>1 DEF Boots, FragmentLeft, hostVars, requestVars
  <2>2. CASE nonce
    <3>1. page' = "hello" /\ said' = 1 /\ hellos' = 1 /\ inits = <<>>
      BY <1>1, <2>2 DEF Boots, FragmentIsNew
    <3>2. Counters' /\ NobodyServed' /\ FragmentIsNew'
      BY <2>1, <3>1 DEF Counters, NobodyServed, FragmentIsNew
    <3>3. HellosCounted' /\ PortAgreed'
      BY <2>1, <3>1, EmptySeq DEF HellosCounted, PortAgreed
    <3>4. PostIsOwn'
      BY <2>1, <2>2 DEF PostIsOwn, Shakes
    <3> QED
      BY <3>2, <3>3, <3>4
  <2>3. CASE ~nonce
    <3>1. page' = "invalid" /\ hellos' = hellos
      BY <1>1, <2>3 DEF Boots
    <3>2. Counters' /\ NobodyServed' /\ FragmentIsNew'
      BY <2>1, <3>1 DEF Counters, NobodyServed, FragmentIsNew
    <3>3. HellosCounted' /\ PortAgreed' /\ PostIsOwn'
      BY <2>1, <3>1 DEF HellosCounted, PortAgreed, PostIsOwn, Shakes
    <3> QED
      BY <3>2, <3>3
  <2> QED
    BY <2>2, <2>3
<1>2. CASE SaysHello
  <2>1. /\ page = "hello" /\ said' = said + 1 /\ hellos' = hellos + 1
        /\ UNCHANGED <<opening, hostPort, channels, serving, inits, up, down, nonce, doc,
                       page, prompt, clientPort, seq>>
    BY <1>2 DEF SaysHello, Calls, hostVars, requestVars
  <2>2. Counters' /\ NobodyServed' /\ FragmentIsNew'
    BY <2>1 DEF Counters, NobodyServed, FragmentIsNew
  <2>3. HellosCounted' /\ PortAgreed' /\ PostIsOwn'
    <3>1. said \in Nat \ {0} /\ inits \in Seq(Channels) /\ Len(inits) \in Nat /\ hellos \in Nat
          /\ hellos + Len(inits) <= said
      BY <2>1, LenProperties DEF HellosCounted, Counters
    <3> QED
      BY <2>1, <3>1 DEF HellosCounted, PortAgreed, PostIsOwn, Shakes
  <2> QED
    BY <2>2, <2>3
<1>3. CASE HandshakeFails
  <2>1. /\ page = "hello" /\ page' = "failed"
        /\ UNCHANGED <<opening, hostPort, channels, serving, hellos, inits, up, nonce, seq>>
    BY <1>3 DEF HandshakeFails, hostVars, messageVars, requestVars
  <2>2. Counters' /\ NobodyServed' /\ FragmentIsNew'
    BY <2>1 DEF Counters, NobodyServed, FragmentIsNew
  <2>3. HellosCounted' /\ PortAgreed' /\ PostIsOwn'
    BY <2>1, <2>2 DEF HellosCounted, PortAgreed, PostIsOwn, Shakes, FragmentIsNew
  <2> QED
    BY <2>2, <2>3
<1>4. CASE SendsInit
  <2>1. /\ opening /\ hellos > 0 /\ channels < MaxChannels
        /\ hellos' = hellos - 1 /\ channels' = channels + 1 /\ hostPort' = channels'
        /\ up' = <<>> /\ inits' = Append(inits, channels')
        /\ UNCHANGED <<opening, serving, down, nonce, doc, page, said, prompt, clientPort, seq>>
    BY <1>4 DEF SendsInit, documentVars, requestVars
  <2>2. ~nonce /\ page # "none" /\ channels' \in Channels /\ hellos \in Nat
    BY <2>1, BoundsAssumption DEF BoundsAssumption, FragmentIsNew, NobodyServed, Counters, Channels
  <2>3. Counters' /\ NobodyServed' /\ FragmentIsNew'
    BY <2>1, <2>2 DEF Counters, NobodyServed, FragmentIsNew
  <2>4. HellosCounted'
    <3> SUFFICES ASSUME page = "hello" PROVE HellosCounted'
      BY <2>1 DEF HellosCounted
    <3>1. inits \in Seq(Channels) /\ said \in Nat \ {0} /\ hellos + Len(inits) <= said
      BY DEF HellosCounted
    <3>2. /\ inits' \in Seq(Channels) /\ Len(inits') = Len(inits) + 1
          /\ inits'[Len(inits')] = hostPort' /\ Len(inits) \in Nat
      BY <2>1, <2>2, <3>1, PostGrows, LenProperties
    <3> QED
      BY <2>1, <2>2, <3>1, <3>2 DEF HellosCounted
  <2>5. PortAgreed'
    BY <2>1, <2>2 DEF PortAgreed
  <2>6. PostIsOwn'
    BY <2>1, EmptySeq DEF PostIsOwn, Shakes
  <2> QED
    BY <2>3, <2>4, <2>5, <2>6
<1>5. CASE TakesInit
  <2>1. /\ inits # <<>>
        /\ UNCHANGED <<opening, hostPort, channels, serving, hellos, up, down, nonce, doc,
                       said, seq>>
    BY <1>5 DEF TakesInit, hostVars, requestVars
  <2>2. ~nonce
    BY <2>1 DEF FragmentIsNew
  <2>3. CASE page = "hello"
    <3>1. page' = "connected" /\ clientPort' = Head(inits) /\ (prompt' => said = 1)
      BY <1>5, <2>3 DEF TakesInit
    <3>2. /\ said \in Nat \ {0} /\ inits \in Seq(Channels) /\ hellos \in Nat
          /\ hellos + Len(inits) <= said
          /\ opening => inits[Len(inits)] = hostPort
      BY <2>1, <2>3 DEF HellosCounted, Counters
    <3>3. Head(inits) \in Channels /\ Head(inits) = inits[1] /\ Len(inits) \in Nat \ {0}
      BY <2>1, <3>2, HeadTailProperties, EmptySeq, LenProperties
    <3>4. prompt' => hellos' = 0 /\ (opening' => clientPort' = hostPort')
      BY <2>1, <3>1, <3>2, <3>3
    <3>5. Counters' /\ NobodyServed' /\ FragmentIsNew' /\ HellosCounted'
      BY <2>1, <2>2, <3>1 DEF Counters, NobodyServed, FragmentIsNew, HellosCounted
    <3>6. PortAgreed' /\ PostIsOwn'
      BY <2>1, <2>3, <3>1, <3>3, <3>4 DEF PortAgreed, PostIsOwn, Shakes
    <3> QED
      BY <3>5, <3>6
  <2>4. CASE page # "hello"
    <3>1. UNCHANGED <<page, clientPort, prompt>>
      BY <1>5, <2>4 DEF TakesInit
    <3>2. Counters' /\ NobodyServed' /\ FragmentIsNew' /\ HellosCounted'
      BY <2>1, <2>2, <2>4, <3>1 DEF Counters, NobodyServed, FragmentIsNew, HellosCounted
    <3>3. PortAgreed' /\ PostIsOwn'
      BY <2>1, <3>1 DEF PortAgreed, PostIsOwn, Shakes
    <3> QED
      BY <3>2, <3>3
  <2> QED
    BY <2>3, <2>4
<1> QED
  BY <1>1, <1>2, <1>3, <1>4, <1>5

(* The page makes a request.                                               *)
LEMMA RequestsKeep ==
    ASSUME BridgeInv, NEW kind \in Kinds, Requests(kind)
    PROVE  BridgeInv'
<1> USE DEF BridgeInv
<1>1. /\ page = "connected" /\ seq' = seq + 1
      /\ up' = Sent(<<[kind |-> kind, id |-> seq', doc |-> doc]>>)
      /\ UNCHANGED <<opening, hostPort, channels, serving, hellos, inits, down, nonce, doc,
                     page, said, prompt, clientPort>>
  BY DEF Requests, hostVars, documentVars
<1>2. ~nonce /\ seq \in Nat
  BY <1>1 DEF FragmentIsNew, Counters
<1>3. up' \in Seq(LettersOf(doc))
  <2>1. [kind |-> kind, id |-> seq', doc |-> doc] \in LettersOf(doc)
    BY <1>1, <1>2 DEF LettersOf, RequestsOf
  <2>2. up \in Seq(LettersOf(doc))
    BY <1>1 DEF PostIsOwn, Shakes
  <2> QED
    BY <1>1, <2>1, <2>2, PostGrows DEF Sent
<1>4. ~opening => up' = <<>> /\ serving = {}
  BY <1>1 DEF Sent, NobodyServed, PortAgreed, Channels, None
<1>5. Counters' /\ FragmentIsNew' /\ NobodyServed'
  BY <1>1, <1>2, <1>4 DEF Counters, FragmentIsNew, NobodyServed
<1>6. HellosCounted' /\ PortAgreed' /\ PostIsOwn'
  BY <1>1, <1>3 DEF HellosCounted, PortAgreed, PostIsOwn, Shakes
<1> QED
  BY <1>5, <1>6

(* The host takes a message, and answers a request.                        *)
LEMMA HostKeeps ==
    ASSUME BridgeInv, HostTakes \/ \E m \in serving : Responds(m)
    PROVE  BridgeInv'
<1> USE DEF BridgeInv
<1>1. CASE HostTakes
  <2>1. /\ up # <<>> /\ up' = Tail(up)
        /\ Head(up).kind # "close" => serving' = serving \union {Head(up)}
        /\ Head(up).kind = "close" => serving' = serving
        /\ UNCHANGED <<opening, hostPort, channels, hellos, inits, down, nonce, doc, page,
                       said, prompt, clientPort, seq>>
    BY <1>1 DEF HostTakes, documentVars, requestVars
  <2>2. opening /\ ~nonce
    BY <2>1 DEF NobodyServed, FragmentIsNew
  <2>3. Counters' /\ NobodyServed' /\ FragmentIsNew'
    BY <2>1, <2>2 DEF Counters, NobodyServed, FragmentIsNew
  <2>4. HellosCounted' /\ PortAgreed'
    BY <2>1 DEF HellosCounted, PortAgreed
  <2>5. ASSUME Shakes
        PROVE  up' \in Seq(LettersOf(doc)) /\ serving' \in SUBSET RequestsOf(doc)
    <3>1. up \in Seq(LettersOf(doc)) /\ serving \in SUBSET RequestsOf(doc)
      BY <2>5 DEF PostIsOwn
    <3>2. up' \in Seq(LettersOf(doc)) /\ Head(up) \in LettersOf(doc)
      BY <2>1, <3>1, PostShrinks
    <3>3. Head(up).kind # "close" => Head(up) \in RequestsOf(doc)
      BY <3>2 DEF LettersOf
    <3> QED
      BY <2>1, <3>1, <3>2, <3>3
  <2>6. PostIsOwn'
    BY <2>1, <2>5 DEF PostIsOwn, Shakes
  <2> QED
    BY <2>3, <2>4, <2>6
<1>2. ASSUME NEW m \in serving, Responds(m) PROVE BridgeInv'
  <2>1. PICK ok \in BOOLEAN :
           down' = [down EXCEPT ![hostPort] =
                       Append(@, [kind |-> "answer", id |-> m.id, doc |-> m.doc, ok |-> ok])]
    BY <1>2 DEF Responds
  <2>2. /\ serving' = serving \ {m}
        /\ UNCHANGED <<opening, hostPort, channels, hellos, inits, up, nonce, doc, page,
                       said, prompt, clientPort, seq>>
    BY <1>2 DEF Responds, documentVars, requestVars
  <2>3. Counters' /\ NobodyServed' /\ FragmentIsNew'
    BY <1>2, <2>2 DEF Counters, NobodyServed, FragmentIsNew
  <2>4. HellosCounted' /\ PortAgreed'
    BY <2>2 DEF HellosCounted, PortAgreed
  <2>5. ASSUME Shakes PROVE down' \in [Channels -> Seq(WordsOf(doc))]
    <3> DEFINE word == [kind |-> "answer", id |-> m.id, doc |-> m.doc, ok |-> ok]
    <3>1. down \in [Channels -> Seq(WordsOf(doc))] /\ m \in RequestsOf(doc)
      BY <2>5 DEF PostIsOwn
    <3>2. word \in WordsOf(doc)
      BY <3>1 DEF RequestsOf, WordsOf
    <3>3. hostPort \in Channels => Append(down[hostPort], word) \in Seq(WordsOf(doc))
      BY <3>1, <3>2, PostGrows
    <3> HIDE DEF word
    <3>4. down' = [down EXCEPT ![hostPort] = Append(@, word)]
      BY <2>1 DEF word
    <3> QED
      BY <3>1, <3>3, <3>4
  <2>6. PostIsOwn'
    BY <2>2, <2>5 DEF PostIsOwn, Shakes
  <2> QED
    BY <2>3, <2>4, <2>6
<1> QED
  BY <1>1, <1>2

(* The page takes a message, and ends.                                     *)
LEMMA PageKeeps ==
    ASSUME BridgeInv, PageTakes \/ CloseEnds
    PROVE  BridgeInv'
<1> USE DEF BridgeInv
<1>1. CASE PageTakes
  <2>1. /\ page = "connected" /\ down[clientPort] # <<>>
        /\ down' = [down EXCEPT ![clientPort] = Tail(@)]
        /\ UNCHANGED <<opening, hostPort, channels, serving, hellos, inits, up, nonce, doc,
                       page, said, prompt, clientPort, seq>>
    BY <1>1 DEF PageTakes, hostVars, documentVars
  <2>2. Counters' /\ NobodyServed' /\ FragmentIsNew' /\ HellosCounted' /\ PortAgreed'
    BY <2>1 DEF Counters, NobodyServed, FragmentIsNew, HellosCounted, PortAgreed
  <2>3. down \in [Channels -> Seq(WordsOf(doc))] /\ clientPort \in Channels
    BY <2>1 DEF PostIsOwn, Shakes, PortAgreed
  <2>4. down' \in [Channels -> Seq(WordsOf(doc))]
    <3>1. Tail(down[clientPort]) \in Seq(WordsOf(doc))
      BY <2>1, <2>3, PostShrinks
    <3> QED
      BY <2>1, <2>3, <3>1
  <2>5. PostIsOwn'
    BY <2>1, <2>4 DEF PostIsOwn, Shakes
  <2> QED
    BY <2>2, <2>5
<1>2. CASE CloseEnds
  <2>1. /\ page = "connected" /\ page' = "closed" /\ up' = Sent(LastWords)
        /\ UNCHANGED <<opening, hostPort, channels, serving, hellos, inits, nonce, seq>>
    BY <1>2 DEF CloseEnds, hostVars
  <2>2. ~opening => up' = <<>> /\ hostPort = None /\ serving = {}
    BY <2>1 DEF Sent, NobodyServed, PortAgreed, Channels, None
  <2>3. Counters' /\ NobodyServed' /\ FragmentIsNew'
    BY <2>1, <2>2 DEF Counters, NobodyServed, FragmentIsNew
  <2>4. HellosCounted' /\ PortAgreed' /\ PostIsOwn'
    BY <2>1, <2>3 DEF HellosCounted, PortAgreed, PostIsOwn, Shakes, FragmentIsNew
  <2> QED
    BY <2>3, <2>4
<1> QED
  BY <1>1, <1>2

-----------------------------------------------------------------------------
(* Every step keeps the invariant.                                         *)
LEMMA BridgeStep == BridgeInv /\ [Next]_vars => BridgeInv'
<1> SUFFICES ASSUME BridgeInv, [Next]_vars PROVE BridgeInv'
  OBVIOUS
<1>1. CASE Opens \/ FrameRemoved \/ Reloads
  BY <1>1, FramesKeep
<1>2. CASE HostCloses \/ Destroyed
  BY <1>2, ClosingKeeps
<1>3. CASE Boots \/ SaysHello \/ HandshakeFails \/ SendsInit \/ TakesInit
  BY <1>3, HandshakeKeeps
<1>4. CASE Connect \/ Invites
  <2>1. PICK kind \in Kinds : Requests(kind)
    BY <1>4 DEF Connect, Invites, Kinds
  <2> QED
    BY <2>1, RequestsKeep
<1>5. CASE HostTakes \/ \E m \in serving : Responds(m)
  BY <1>5, HostKeeps
<1>6. CASE PageTakes \/ CloseEnds
  BY <1>6, PageKeeps
<1>7. CASE \/ PageCloses \/ JoinEnds \/ RejoinsTooLate
           \/ \E r \in pending : TimesOut(r)
           \/ \E c \in Connections : LeaveEnds(c) \/ Lost(c)
           \/ UNCHANGED vars
  <2>1. UNCHANGED bridgeVars
    BY <1>7 DEF PageCloses, JoinEnds, RejoinsTooLate, TimesOut, LeaveEnds, Lost, bridgeVars,
                vars, hostVars, messageVars, documentVars, requestVars
  <2> QED
    BY <2>1, OthersKeep
<1> QED
  BY <1>1, <1>2, <1>3, <1>4, <1>5, <1>6, <1>7 DEF Next, Host, Page

(* A document takes no answer that was made for another one, however often *)
(* the frame is opened and reloaded while the host's handlers still work.  *)
THEOREM OwnAnswers == Spec => []AnswersAreOwn
<1>1. BridgeInv => AnswersAreOwn
  <2> SUFFICES ASSUME BridgeInv, page = "connected",
                      NEW i \in DOMAIN down[clientPort],
                      down[clientPort][i].kind = "answer"
               PROVE  down[clientPort][i].doc = doc
    BY DEF AnswersAreOwn
  <2>1. down[clientPort] \in Seq(WordsOf(doc))
    BY DEF BridgeInv, PostIsOwn, Shakes, PortAgreed
  <2>2. down[clientPort][i] \in WordsOf(doc)
    BY <2>1, ElementOfSeq, LenProperties
  <2> QED
    BY <2>2 DEF WordsOf
<1> QED
  BY <1>1, BridgeStarts, BridgeStep, PTL DEF Spec

(* A document whose first HELLO was answered in time speaks to the channel *)
(* its host listens to, for as long as the host lives.                     *)
THEOREM ChannelKept == Spec => []ChannelIsHosts
<1>1. BridgeInv => ChannelIsHosts
  BY DEF BridgeInv, PortAgreed, ChannelIsHosts
<1> QED
  BY <1>1, BridgeStarts, BridgeStep, PTL DEF Spec
=============================================================================
