---------------------------- MODULE HostLinkProofs ----------------------------
(* What the two ends of the link keep track of, for any set of requests: the    *)
(* types, and where a pending request is.  Then what they make of the bytes     *)
(* between them, for any encoding of lengths, any limit, and any chunks.        *)
EXTENDS MCHostLink, FiniteData, FiniteSetTheorems, TLAPS

------------------------------------------------------------------------------
(* A message in a pipe, and that it is there once.                              *)
In(s, m) == \E k \in DOMAIN s : s[k] = m
Single(s, m) == \A j, k \in DOMAIN s : s[j] = m /\ s[k] = m => j = k

LEMMA InEmpty == ASSUME NEW m PROVE ~ In(<<>>, m) /\ Single(<<>>, m)
  BY DEF In, Single

LEMMA InOne == ASSUME NEW e, NEW m PROVE (In(<<e>>, m) <=> e = m) /\ Single(<<e>>, m)
<1>1. DOMAIN <<e>> = {1} /\ <<e>>[1] = e
  OBVIOUS
<1> QED
  BY <1>1 DEF In, Single

LEMMA InAppend ==
  ASSUME NEW S, NEW s \in Seq(S), NEW e \in S, NEW m
  PROVE  /\ Append(s, e) \in Seq(S)
         /\ In(Append(s, e), m) <=> In(s, m) \/ e = m
         /\ Single(s, m) /\ (e = m => ~ In(s, m)) => Single(Append(s, e), m)
<1>1. /\ Append(s, e) \in Seq(S) /\ DOMAIN s = 1 .. Len(s) /\ Len(s) \in Nat
      /\ DOMAIN Append(s, e) = 1 .. (Len(s) + 1)
      /\ \A k \in 1 .. Len(s) : Append(s, e)[k] = s[k]
      /\ Append(s, e)[Len(s) + 1] = e
  OBVIOUS
<1>2. \A k \in 1 .. (Len(s) + 1) : k \in 1 .. Len(s) \/ k = Len(s) + 1
  BY <1>1
<1>3. 1 .. Len(s) \subseteq 1 .. (Len(s) + 1) /\ Len(s) + 1 \in 1 .. (Len(s) + 1)
  BY <1>1
<1> QED
  BY <1>1, <1>2, <1>3 DEF In, Single

LEMMA InTail ==
  ASSUME NEW S, NEW s \in Seq(S), s # <<>>, NEW m
  PROVE  /\ Tail(s) \in Seq(S) /\ Head(s) \in S
         /\ In(Tail(s), m) => In(s, m)
         /\ In(s, m) /\ Head(s) # m => In(Tail(s), m)
         /\ Head(s) = m => In(s, m)
         /\ Single(s, m) => Single(Tail(s), m)
         /\ Single(s, m) /\ Head(s) = m => ~ In(Tail(s), m)
<1>1. /\ Tail(s) \in Seq(S) /\ Head(s) \in S /\ Head(s) = s[1]
      /\ Len(s) \in Nat \ {0} /\ DOMAIN s = 1 .. Len(s)
      /\ DOMAIN Tail(s) = 1 .. (Len(s) - 1)
      /\ \A k \in 1 .. (Len(s) - 1) : Tail(s)[k] = s[k + 1]
  OBVIOUS
<1>2. \A k \in 1 .. (Len(s) - 1) : k + 1 \in DOMAIN s /\ k + 1 # 1
  BY <1>1
<1>3. \A k \in DOMAIN s : k = 1 \/ (k - 1 \in DOMAIN Tail(s) /\ Tail(s)[k - 1] = s[k])
  BY <1>1
<1>4. 1 \in DOMAIN s
  BY <1>1
<1>5. In(Tail(s), m) => In(s, m)
  BY <1>1, <1>2 DEF In
<1>6. In(s, m) /\ Head(s) # m => In(Tail(s), m)
  BY <1>1, <1>3 DEF In
<1>7. Head(s) = m => In(s, m)
  BY <1>1, <1>4 DEF In
<1>8. Single(s, m) => Single(Tail(s), m)
  BY <1>1, <1>2 DEF Single
<1>9. Single(s, m) /\ Head(s) = m => ~ In(Tail(s), m)
  BY <1>1, <1>2, <1>4 DEF Single, In
<1> QED
  BY <1>1, <1>5, <1>6, <1>7, <1>8, <1>9

LEMMA InPrefix ==
  ASSUME NEW S, NEW s \in Seq(S), NEW n \in 0 .. Len(s), NEW m
  PROVE  /\ SubSeq(s, 1, n) \in Seq(S)
         /\ In(SubSeq(s, 1, n), m) => In(s, m)
         /\ Single(s, m) => Single(SubSeq(s, 1, n), m)
<1>1. /\ SubSeq(s, 1, n) \in Seq(S) /\ DOMAIN SubSeq(s, 1, n) = 1 .. n
      /\ 1 .. n \subseteq DOMAIN s
      /\ \A k \in 1 .. n : SubSeq(s, 1, n)[k] = s[k]
  OBVIOUS
<1> QED
  BY <1>1 DEF In, Single

LEMMA CountSingle ==
  ASSUME NEW s, NEW m, Single(s, m)
  PROVE  Cardinality({k \in DOMAIN s : s[k] = m}) = IF In(s, m) THEN 1 ELSE 0
<1>1. CASE In(s, m)
  <2>1. PICK k \in DOMAIN s : s[k] = m
    BY <1>1 DEF In
  <2>2. {j \in DOMAIN s : s[j] = m} = {k}
    BY <2>1 DEF Single
  <2> QED
    BY <1>1, <2>2, FS_Singleton
<1>2. CASE ~ In(s, m)
  <2>1. {j \in DOMAIN s : s[j] = m} = {}
    BY <1>2 DEF In
  <2> QED
    BY <1>2, <2>1, FS_EmptySet
<1> QED
  BY <1>1, <1>2

------------------------------------------------------------------------------
(* Where a request and its answer are.                                          *)
InHost(q) == In(toHost, Message("request", q))
InClient(q) == In(toClient, Message("response", q))
InvokeInClient(q) == In(toClient, Message("invoke", q))
OnceHost(q) == Single(toHost, Message("request", q))
OnceClient(q) == Single(toClient, Message("response", q))
InFlight(q) == InHost(q) \/ InClient(q) \/ q \in tasks

(* A request in flight is in one place.  It is pending, or was rejected by a    *)
(* client that is closed for good; and a pending one is in flight as long as    *)
(* the host lives.  Every request but the first waits for the handshake.        *)
Flight(q) ==
  /\ OnceHost(q) /\ OnceClient(q)
  /\ ~ (InHost(q) /\ InClient(q)) /\ ~ (InHost(q) /\ q \in tasks)
  /\ ~ (InClient(q) /\ q \in tasks)
  /\ InFlight(q) => q \in pending \/ (outcome[q] = "rejected" /\ clientClosed)
  /\ q \in pending => HostDead \/ InFlight(q)
  /\ q # Hello /\ InFlight(q) => helloComplete
  /\ InvokeInClient(q) => q \in Requests

FlightInv == \A q \in Ids : Flight(q)
HelloInv == outcome[Hello] = "answered" \/ InClient(Hello) => helloComplete
LinkInv == TypeOK /\ FlightInv /\ HelloInv /\ ~ unknown

Messages == [kind : {"request", "response", "invoke"}, id : Ids]

LEMMA MessageFacts ==
  /\ \A q \in Ids : /\ Message("request", q) \in Messages
                    /\ Message("response", q) \in Messages
                    /\ Message("invoke", q) \in Messages
  /\ \A k, l, q, p : Message(k, q) = Message(l, p) <=> k = l /\ q = p
<1>1. \A q \in Ids : /\ Message("request", q) \in Messages
                     /\ Message("response", q) \in Messages
                     /\ Message("invoke", q) \in Messages
  BY DEF Message, Messages
<1>2. ASSUME NEW k, NEW l, NEW q, NEW p
      PROVE  Message(k, q) = Message(l, p) <=> k = l /\ q = p
  <2>1. /\ Message(k, q).kind = k /\ Message(k, q).id = q
        /\ Message(l, p).kind = l /\ Message(l, p).id = p
    BY DEF Message
  <2> QED
    BY <2>1
<1> QED
  BY <1>1, <1>2

(* A step that touches neither pipe nor tasks, and settles only by closing.     *)
LEMMA PipesKept ==
  ASSUME FlightInv, HelloInv, UNCHANGED <<toHost, toClient, tasks, helloComplete>>,
         HostDead => HostDead',
         \/ UNCHANGED <<pending, outcome>>
         \/ RejectPending /\ clientClosed',
         clientClosed => clientClosed',
         TypeOK
  PROVE  FlightInv' /\ HelloInv'
<1>1. ASSUME NEW q \in Ids
      PROVE  /\ InHost(q)' = InHost(q) /\ InClient(q)' = InClient(q)
             /\ InvokeInClient(q)' = InvokeInClient(q)
             /\ OnceHost(q)' = OnceHost(q) /\ OnceClient(q)' = OnceClient(q)
             /\ InFlight(q)' = InFlight(q)
  BY DEF InHost, InClient, InvokeInClient, OnceHost, OnceClient, InFlight
<1>2. /\ pending' \subseteq pending
      /\ \A q \in Ids : q \in pending' => outcome'[q] = outcome[q]
      /\ \A q \in Ids : q \in pending /\ q \notin pending' =>
                           outcome'[q] = "rejected" /\ clientClosed'
      /\ \A q \in Ids : q \notin pending => outcome'[q] = outcome[q]
  BY DEF RejectPending, TypeOK
<1>3. ASSUME NEW q \in Ids PROVE Flight(q)'
  <2>1. Flight(q)
    BY DEF FlightInv
  <2> QED
    BY <1>1, <1>2, <2>1 DEF Flight
<1>4. HelloInv'
  <2>1. Hello \in Ids
    BY DEF Ids
  <2>2. outcome'[Hello] = "answered" => outcome[Hello] = "answered"
    BY <2>1 DEF RejectPending
  <2> QED
    BY <1>1, <2>1, <2>2 DEF HelloInv
<1> QED
  BY <1>3, <1>4 DEF FlightInv

(* What the pipes hold after a message was written to one, or read from one.    *)
LEMMA HostWritten ==
  ASSUME TypeOK, NEW q \in Ids, NEW kind \in {"request", "response"},
         toHost' = Append(toHost, Message(kind, q)), UNCHANGED toClient, NEW p \in Ids
  PROVE  /\ toHost' \in Seq(Messages)
         /\ InHost(p)' <=> InHost(p) \/ (kind = "request" /\ p = q)
         /\ OnceHost(p) /\ (kind = "request" /\ p = q => ~ InHost(p)) => OnceHost(p)'
         /\ InClient(p)' = InClient(p) /\ OnceClient(p)' = OnceClient(p)
         /\ InvokeInClient(p)' = InvokeInClient(p)
<1>1. toHost \in Seq(Messages) /\ Message(kind, q) \in Messages
  BY MessageFacts DEF TypeOK, Messages
<1>2. Message(kind, q) = Message("request", p) <=> kind = "request" /\ p = q
  BY MessageFacts
<1> QED
  BY <1>1, <1>2, InAppend DEF InHost, OnceHost, InClient, OnceClient, InvokeInClient

LEMMA ClientWritten ==
  ASSUME TypeOK, NEW q \in Ids, NEW kind \in {"invoke", "response"},
         toClient' = Append(toClient, Message(kind, q)), UNCHANGED toHost, NEW p \in Ids
  PROVE  /\ toClient' \in Seq(Messages)
         /\ InClient(p)' <=> InClient(p) \/ (kind = "response" /\ p = q)
         /\ OnceClient(p) /\ (kind = "response" /\ p = q => ~ InClient(p)) => OnceClient(p)'
         /\ InvokeInClient(p)' <=> InvokeInClient(p) \/ (kind = "invoke" /\ p = q)
         /\ InHost(p)' = InHost(p) /\ OnceHost(p)' = OnceHost(p)
<1>1. toClient \in Seq(Messages) /\ Message(kind, q) \in Messages
  BY MessageFacts DEF TypeOK, Messages
<1>2. /\ Message(kind, q) = Message("response", p) <=> kind = "response" /\ p = q
      /\ Message(kind, q) = Message("invoke", p) <=> kind = "invoke" /\ p = q
  BY MessageFacts
<1> QED
  BY <1>1, <1>2, InAppend DEF InHost, OnceHost, InClient, OnceClient, InvokeInClient

LEMMA HostRead ==
  ASSUME TypeOK, NEW q \in Ids, NEW kind \in {"request", "response"},
         toHost # <<>>, Head(toHost) = Message(kind, q), toHost' = Tail(toHost),
         UNCHANGED toClient, NEW p \in Ids
  PROVE  /\ toHost' \in Seq(Messages)
         /\ InHost(p)' => InHost(p)
         /\ InHost(p) /\ ~ (kind = "request" /\ p = q) => InHost(p)'
         /\ kind = "request" => InHost(q)
         /\ OnceHost(p) => OnceHost(p)'
         /\ OnceHost(p) /\ kind = "request" /\ p = q => ~ InHost(p)'
         /\ InClient(p)' = InClient(p) /\ OnceClient(p)' = OnceClient(p)
         /\ InvokeInClient(p)' = InvokeInClient(p)
<1>1. toHost \in Seq(Messages)
  BY DEF TypeOK, Messages
<1>2. Head(toHost) = Message("request", p) <=> kind = "request" /\ p = q
  BY MessageFacts
<1>3. kind = "request" => Head(toHost) = Message("request", q)
  OBVIOUS
<1> QED
  BY <1>1, <1>2, <1>3, InTail DEF InHost, OnceHost, InClient, OnceClient, InvokeInClient

LEMMA ClientRead ==
  ASSUME TypeOK, NEW q \in Ids, NEW kind \in {"invoke", "response"},
         toClient # <<>>, Head(toClient) = Message(kind, q), toClient' = Tail(toClient),
         UNCHANGED toHost, NEW p \in Ids
  PROVE  /\ toClient' \in Seq(Messages)
         /\ InClient(p)' => InClient(p)
         /\ InClient(p) /\ ~ (kind = "response" /\ p = q) => InClient(p)'
         /\ kind = "response" => InClient(q)
         /\ kind = "invoke" => InvokeInClient(q)
         /\ OnceClient(p) => OnceClient(p)'
         /\ OnceClient(p) /\ kind = "response" /\ p = q => ~ InClient(p)'
         /\ InvokeInClient(p)' => InvokeInClient(p)
         /\ InHost(p)' = InHost(p) /\ OnceHost(p)' = OnceHost(p)
<1>1. toClient \in Seq(Messages)
  BY DEF TypeOK, Messages
<1>2. Head(toClient) = Message("response", p) <=> kind = "response" /\ p = q
  BY MessageFacts
<1>3. /\ kind = "response" => Head(toClient) = Message("response", q)
      /\ kind = "invoke" => Head(toClient) = Message("invoke", q)
  OBVIOUS
<1> QED
  BY <1>1, <1>2, <1>3, InTail DEF InHost, OnceHost, InClient, OnceClient, InvokeInClient

LEMMA ClientCut ==
  ASSUME TypeOK, NEW n \in 0 .. Len(toClient), toClient' = SubSeq(toClient, 1, n),
         UNCHANGED toHost, NEW p \in Ids
  PROVE  /\ toClient' \in Seq(Messages)
         /\ InClient(p)' => InClient(p)
         /\ OnceClient(p) => OnceClient(p)'
         /\ InvokeInClient(p)' => InvokeInClient(p)
         /\ InHost(p)' = InHost(p) /\ OnceHost(p)' = OnceHost(p)
<1>1. toClient \in Seq(Messages)
  BY DEF TypeOK, Messages
<1> QED
  BY <1>1, InPrefix DEF InHost, OnceHost, InClient, OnceClient, InvokeInClient

------------------------------------------------------------------------------
(* One lemma per kind of step of the client ...                                 *)
LEMMA HelloInIds == Hello \in Ids /\ Shutdown \in Ids /\ Requests \subseteq Ids
  BY DEF Ids

LEMMA SendKeeps ==
  ASSUME LinkInv, NEW q \in Ids, q # Hello, Send(q), closing' \in {"no", "asked", "done"}
  PROVE  LinkInv'
<1>0. TypeOK /\ FlightInv /\ HelloInv /\ ~ unknown
  BY DEF LinkInv
<1>1. outcome[q] = "none" /\ q \notin pending /\ helloComplete /\ ~ InFlight(q)
  BY <1>0 DEF Send, HelloInv, FlightInv, Flight
<1>2. CASE /\ ~ clientClosed /\ pending' = pending \union {q} /\ UNCHANGED outcome
           /\ toHost' = Append(toHost, Message("request", q))
  <2>1. ASSUME NEW p \in Ids
        PROVE  /\ toHost' \in Seq(Messages)
               /\ InHost(p)' <=> InHost(p) \/ p = q
               /\ OnceHost(p) /\ (p = q => ~ InHost(p)) => OnceHost(p)'
               /\ InClient(p)' = InClient(p) /\ OnceClient(p)' = OnceClient(p)
               /\ InvokeInClient(p)' = InvokeInClient(p)
    BY <1>0, <1>2, HostWritten DEF Send
  <2>2. TypeOK'
    BY <1>0, <1>1, <1>2, <2>1 DEF TypeOK, Send, hostVars, Messages
  <2>3. ASSUME NEW p \in Ids PROVE Flight(p)'
    <3>1. Flight(p)
      BY <1>0 DEF FlightInv
    <3>2. UNCHANGED <<clientClosed, host, tasks, helloComplete>>
      BY DEF Send, hostVars
    <3> QED
      BY <1>1, <1>2, <2>1, <3>1, <3>2 DEF Flight, InFlight, HostDead
  <2>4. HelloInv'
    BY <1>0, <1>2, <2>1, HelloInIds DEF HelloInv, Send, hostVars
  <2> QED
    BY <1>0, <2>2, <2>3, <2>4 DEF LinkInv, FlightInv, Send
<1>3. CASE /\ outcome' = [outcome EXCEPT ![q] = "rejected"] /\ UNCHANGED <<pending, toHost>>
  <2>1. /\ UNCHANGED <<clientClosed, host, tasks, helloComplete, toClient, unknown>>
    BY DEF Send, hostVars
  <2>2. TypeOK'
    BY <1>0, <1>1, <1>3 DEF TypeOK, Send, hostVars
  <2>3. ASSUME NEW p \in Ids PROVE Flight(p)'
    <3>1. Flight(p)
      BY <1>0 DEF FlightInv
    <3>2. outcome'[p] = outcome[p] \/ (p = q /\ outcome'[p] = "rejected")
      BY <1>0, <1>3 DEF TypeOK
    <3> QED
      BY <1>1, <1>3, <2>1, <3>1, <3>2
         DEF Flight, InFlight, HostDead, InHost, InClient, InvokeInClient, OnceHost, OnceClient
  <2>4. HelloInv'
    <3>1. outcome'[Hello] = outcome[Hello]
      BY <1>0, <1>3, HelloInIds DEF TypeOK
    <3> QED
      BY <1>0, <1>3, <2>1, <3>1 DEF HelloInv, InClient
  <2> QED
    BY <1>0, <2>1, <2>2, <2>3, <2>4 DEF LinkInv, FlightInv
<1> QED
  BY <1>2, <1>3 DEF Send

LEMMA AnsweredKeeps ==
  ASSUME LinkInv, NEW q \in Ids, ReceiveResponse(q)
  PROVE  LinkInv'
<1>0. TypeOK /\ FlightInv /\ HelloInv /\ ~ unknown
  BY DEF LinkInv
<1>1. /\ q \in pending /\ pending' = pending \ {q}
      /\ outcome' = [outcome EXCEPT ![q] = "answered"]
      /\ toClient' = Tail(toClient)
      /\ UNCHANGED <<clientClosed, host, tasks, helloComplete, toHost, unknown>>
  BY DEF ReceiveResponse, Settle, hostVars
<1>2. ASSUME NEW p \in Ids
      PROVE  /\ toClient' \in Seq(Messages)
             /\ InClient(p)' => InClient(p)
             /\ InClient(p) /\ p # q => InClient(p)'
             /\ InClient(q)
             /\ OnceClient(p) => OnceClient(p)'
             /\ OnceClient(p) /\ p = q => ~ InClient(p)'
             /\ InvokeInClient(p)' => InvokeInClient(p)
             /\ InHost(p)' = InHost(p) /\ OnceHost(p)' = OnceHost(p)
  BY <1>0, <1>1, ClientRead DEF ReceiveResponse
<1>3. TypeOK'
  BY <1>0, <1>1, <1>2 DEF TypeOK, ReceiveResponse, hostVars, Messages
<1>4. ASSUME NEW p \in Ids PROVE Flight(p)'
  <2>1. Flight(p)
    BY <1>0 DEF FlightInv
  <2>2. outcome'[p] = IF p = q THEN "answered" ELSE outcome[p]
    BY <1>0, <1>1 DEF TypeOK
  <2> QED
    BY <1>1, <1>2, <2>1, <2>2 DEF Flight, InFlight, HostDead
<1>5. HelloInv'
  <2>1. outcome'[Hello] = IF Hello = q THEN "answered" ELSE outcome[Hello]
    BY <1>0, <1>1, HelloInIds DEF TypeOK
  <2> QED
    BY <1>0, <1>1, <1>2, <2>1, HelloInIds DEF HelloInv
<1> QED
  BY <1>0, <1>1, <1>3, <1>4, <1>5 DEF LinkInv, FlightInv

(* A response nobody waits for only comes to a client that is closed.           *)
LEMMA UnknownKeeps ==
  ASSUME LinkInv, NEW q \in Ids, ReceiveUnknown(q)
  PROVE  LinkInv'
<1>0. TypeOK /\ FlightInv /\ HelloInv /\ ~ unknown
  BY DEF LinkInv
<1>1. q \notin pending /\ toClient' = Tail(toClient) /\ UNCHANGED <<toHost, hostVars>>
  BY DEF ReceiveUnknown
<1>2. ASSUME NEW p \in Ids
      PROVE  /\ toClient' \in Seq(Messages)
             /\ InClient(p)' => InClient(p)
             /\ InClient(p) /\ p # q => InClient(p)'
             /\ InClient(q)
             /\ OnceClient(p) => OnceClient(p)'
             /\ InvokeInClient(p)' => InvokeInClient(p)
             /\ InHost(p)' = InHost(p) /\ OnceHost(p)' = OnceHost(p)
  BY <1>0, <1>1, ClientRead DEF ReceiveUnknown
<1>3. clientClosed
  BY <1>0, <1>1, <1>2 DEF FlightInv, Flight, InFlight
<1>4. UNCHANGED <<clientClosed, pending, outcome, signalled, unknown>>
  BY <1>0, <1>3 DEF ReceiveUnknown, Fail, TypeOK
<1>5. TypeOK'
  BY <1>0, <1>1, <1>2, <1>4 DEF TypeOK, ReceiveUnknown, hostVars, Messages
<1>6. ASSUME NEW p \in Ids PROVE Flight(p)'
  <2>1. Flight(p)
    BY <1>0 DEF FlightInv
  <2> QED
    BY <1>1, <1>2, <1>4, <2>1 DEF Flight, InFlight, HostDead, hostVars
<1>7. HelloInv'
  BY <1>0, <1>1, <1>2, <1>4, HelloInIds DEF HelloInv, hostVars
<1> QED
  BY <1>0, <1>4, <1>5, <1>6, <1>7 DEF LinkInv, FlightInv

LEMMA InvokedKeeps ==
  ASSUME LinkInv, NEW q \in Ids, ReceiveInvoke(q)
  PROVE  LinkInv'
<1>0. TypeOK /\ FlightInv /\ HelloInv /\ ~ unknown
  BY DEF LinkInv
<1>1. /\ toClient' = Tail(toClient)
      /\ UNCHANGED <<clientClosed, pending, outcome, toHost, host, tasks, helloComplete, unknown>>
  BY DEF ReceiveInvoke, hostVars
<1>2. ASSUME NEW p \in Ids
      PROVE  /\ toClient' \in Seq(Messages)
             /\ InClient(p)' <=> InClient(p)
             /\ InvokeInClient(q)
             /\ OnceClient(p) => OnceClient(p)'
             /\ InvokeInClient(p)' => InvokeInClient(p)
             /\ InHost(p)' = InHost(p) /\ OnceHost(p)' = OnceHost(p)
  BY <1>0, <1>1, ClientRead DEF ReceiveInvoke
<1>3. q \in Requests
  BY <1>0, <1>2 DEF FlightInv, Flight
<1>4. TypeOK'
  BY <1>0, <1>1, <1>2, <1>3 DEF TypeOK, ReceiveInvoke, hostVars, Messages
<1>5. ASSUME NEW p \in Ids PROVE Flight(p)'
  <2>1. Flight(p)
    BY <1>0 DEF FlightInv
  <2> QED
    BY <1>1, <1>2, <2>1 DEF Flight, InFlight, HostDead
<1>6. HelloInv'
  BY <1>0, <1>1, <1>2, HelloInIds DEF HelloInv
<1> QED
  BY <1>0, <1>1, <1>4, <1>5, <1>6 DEF LinkInv, FlightInv

LEMMA HandledKeeps ==
  ASSUME LinkInv, NEW q \in Requests, Handle(q)
  PROVE  LinkInv'
<1>0. TypeOK /\ FlightInv /\ HelloInv /\ ~ unknown
  BY DEF LinkInv
<1>1. CASE HandlerSettles(q)
  <2>0. q \in Ids
    BY HelloInIds
  <2>1. /\ toHost' = Append(toHost, Message("response", q))
        /\ UNCHANGED <<clientClosed, pending, outcome, toClient, host, tasks, helloComplete,
                       unknown>>
    BY <1>1 DEF HandlerSettles, hostVars
  <2>2. ASSUME NEW p \in Ids
        PROVE  /\ toHost' \in Seq(Messages)
               /\ InHost(p)' <=> InHost(p)
               /\ OnceHost(p) => OnceHost(p)'
               /\ InClient(p)' = InClient(p) /\ OnceClient(p)' = OnceClient(p)
               /\ InvokeInClient(p)' = InvokeInClient(p)
    BY <1>0, <2>0, <2>1, HostWritten
  <2>3. TypeOK'
    BY <1>0, <1>1, <2>0, <2>1, <2>2 DEF TypeOK, HandlerSettles, hostVars, Messages
  <2>4. ASSUME NEW p \in Ids PROVE Flight(p)'
    <3>1. Flight(p)
      BY <1>0 DEF FlightInv
    <3> QED
      BY <2>1, <2>2, <3>1 DEF Flight, InFlight, HostDead
  <2>5. HelloInv'
    BY <1>0, <2>1, <2>2, HelloInIds DEF HelloInv
  <2> QED
    BY <1>0, <2>1, <2>3, <2>4, <2>5 DEF LinkInv, FlightInv
<1>2. CASE HandlerUnhandled(q)
  <2>1. TypeOK'
    BY <1>0, <1>2 DEF TypeOK, HandlerUnhandled, hostVars
  <2>2. /\ UNCHANGED <<toHost, toClient, tasks, helloComplete, host, pending, outcome,
                       clientClosed, unknown>>
    BY <1>2 DEF HandlerUnhandled, hostVars
  <2>3. FlightInv' /\ HelloInv'
    BY <1>0, <2>2, PipesKept DEF HostDead
  <2> QED
    BY <1>0, <2>1, <2>2, <2>3 DEF LinkInv
<1> QED
  BY <1>1, <1>2 DEF Handle

(* The steps that close or lose the link.                                       *)
LEMMA FailKeeps ==
  ASSUME LinkInv, Fail, input' \in {"open", "ended", "destroyed"},
         UNCHANGED <<closing, handling, unknown, crashed, toHost, toClient, hostVars>>
  PROVE  LinkInv'
<1>0. TypeOK /\ FlightInv /\ HelloInv /\ ~ unknown
  BY DEF LinkInv
<1>1. UNCHANGED <<host, tasks, helloComplete, unknown>>
  BY DEF hostVars
<1>2. \/ RejectPending /\ clientClosed' = TRUE
      \/ UNCHANGED <<pending, outcome, clientClosed>>
  BY DEF Fail
<1>3. FlightInv' /\ HelloInv'
  BY <1>0, <1>1, <1>2, PipesKept DEF HostDead
<1>4. TypeOK'
  <2>1. CASE RejectPending /\ clientClosed' = TRUE /\ signalled' = TRUE
    BY <1>0, <2>1 DEF TypeOK, RejectPending, hostVars
  <2>2. CASE UNCHANGED <<clientClosed, pending, outcome, signalled>>
    BY <1>0, <2>2 DEF TypeOK, hostVars
  <2> QED
    BY <2>1, <2>2 DEF Fail
<1> QED
  BY <1>0, <1>1, <1>3, <1>4 DEF LinkInv

LEMMA CloseInputKeeps == ASSUME LinkInv, CloseInput PROVE LinkInv'
<1>0. TypeOK /\ FlightInv /\ HelloInv /\ ~ unknown
  BY DEF LinkInv
<1>1. /\ UNCHANGED <<toHost, toClient, tasks, helloComplete, host, pending, outcome, unknown>>
      /\ clientClosed' = TRUE
  BY DEF CloseInput, hostVars
<1>2. FlightInv' /\ HelloInv'
  BY <1>0, <1>1, PipesKept DEF HostDead
<1>3. TypeOK'
  BY <1>0 DEF TypeOK, CloseInput, hostVars
<1> QED
  BY <1>0, <1>1, <1>2, <1>3 DEF LinkInv

LEMMA ChildKeeps == ASSUME LinkInv, Child PROVE LinkInv'
<1>1. CASE InputError
  BY <1>1, FailKeeps DEF InputError
<1>2. CASE ChildExit
  <2>0. TypeOK /\ FlightInv /\ HelloInv /\ ~ unknown
    BY DEF LinkInv
  <2>1. UNCHANGED <<toHost, toClient, tasks, helloComplete, host, pending, outcome, unknown,
                    clientClosed>>
    BY <1>2 DEF ChildExit, hostVars
  <2>2. FlightInv' /\ HelloInv'
    BY <2>0, <2>1, PipesKept DEF HostDead
  <2>3. TypeOK'
    BY <1>2, <2>0 DEF TypeOK, ChildExit, hostVars
  <2> QED
    BY <2>0, <2>1, <2>2, <2>3 DEF LinkInv
<1>3. CASE ChildClose
  <2>1. input' \in {"open", "ended", "destroyed"}
    BY <1>3 DEF ChildClose
  <2> QED
    BY <1>3, <2>1, FailKeeps DEF ChildClose
<1> QED
  BY <1>1, <1>2, <1>3 DEF Child

LEMMA KillKeeps == ASSUME LinkInv, Kill PROVE LinkInv'
<1>1. input' \in {"open", "ended", "destroyed"}
  BY DEF Kill, LinkInv, TypeOK
<1> QED
  BY <1>1, FailKeeps DEF Kill

------------------------------------------------------------------------------
(* ... and of the host.                                                         *)
LEMMA RequestReadKeeps ==
  ASSUME LinkInv, NEW q \in Ids, HostReceiveRequest(q)
  PROVE  LinkInv'
<1>0. TypeOK /\ FlightInv /\ HelloInv /\ ~ unknown
  BY DEF LinkInv
<1>1. /\ toHost' = Tail(toHost) /\ tasks' = tasks \union {q}
      /\ UNCHANGED <<toClient, host, helloComplete, clientClosed, pending, outcome, unknown>>
  BY DEF HostReceiveRequest, HostUnchanged, clientVars
<1>2. ASSUME NEW p \in Ids
      PROVE  /\ toHost' \in Seq(Messages)
             /\ InHost(p)' => InHost(p)
             /\ InHost(p) /\ p # q => InHost(p)'
             /\ InHost(q)
             /\ OnceHost(p) => OnceHost(p)'
             /\ OnceHost(p) /\ p = q => ~ InHost(p)'
             /\ InClient(p)' = InClient(p) /\ OnceClient(p)' = OnceClient(p)
             /\ InvokeInClient(p)' = InvokeInClient(p)
  BY <1>0, <1>1, HostRead DEF HostReceiveRequest
<1>3. TypeOK'
  BY <1>0, <1>1, <1>2 DEF TypeOK, HostReceiveRequest, HostUnchanged, clientVars, Messages
<1>4. ASSUME NEW p \in Ids PROVE Flight(p)'
  <2>1. Flight(p)
    BY <1>0 DEF FlightInv
  <2> QED
    BY <1>1, <1>2, <2>1 DEF Flight, InFlight, HostDead
<1>5. HelloInv'
  BY <1>0, <1>1, <1>2, HelloInIds DEF HelloInv
<1> QED
  BY <1>0, <1>1, <1>3, <1>4, <1>5 DEF LinkInv, FlightInv

LEMMA ResponseReadKeeps ==
  ASSUME LinkInv, NEW q \in Ids, HostReceiveResponse(q)
  PROVE  LinkInv'
<1>0. TypeOK /\ FlightInv /\ HelloInv /\ ~ unknown
  BY DEF LinkInv
<1>1. /\ toHost' = Tail(toHost)
      /\ UNCHANGED <<toClient, host, tasks, helloComplete, clientClosed, pending, outcome, unknown>>
  BY DEF HostReceiveResponse, HostUnchanged, clientVars
<1>2. ASSUME NEW p \in Ids
      PROVE  /\ toHost' \in Seq(Messages)
             /\ InHost(p)' <=> InHost(p)
             /\ OnceHost(p) => OnceHost(p)'
             /\ InClient(p)' = InClient(p) /\ OnceClient(p)' = OnceClient(p)
             /\ InvokeInClient(p)' = InvokeInClient(p)
  BY <1>0, <1>1, HostRead DEF HostReceiveResponse
<1>3. TypeOK'
  BY <1>0, <1>1, <1>2 DEF TypeOK, HostReceiveResponse, HostUnchanged, clientVars, Messages
<1>4. ASSUME NEW p \in Ids PROVE Flight(p)'
  <2>1. Flight(p)
    BY <1>0 DEF FlightInv
  <2> QED
    BY <1>1, <1>2, <2>1 DEF Flight, InFlight, HostDead
<1>5. HelloInv'
  BY <1>0, <1>1, <1>2, HelloInIds DEF HelloInv
<1> QED
  BY <1>0, <1>1, <1>3, <1>4, <1>5 DEF LinkInv, FlightInv

LEMMA TaskKeeps ==
  ASSUME LinkInv, NEW q \in Ids, TaskAnswers(q)
  PROVE  LinkInv'
<1>0. TypeOK /\ FlightInv /\ HelloInv /\ ~ unknown
  BY DEF LinkInv
<1>1. /\ toClient' = Append(toClient, Message("response", q))
      /\ q \in tasks /\ tasks' = tasks \ {q}
      /\ helloComplete' = (helloComplete \/ q = Hello)
      /\ UNCHANGED <<toHost, host, clientClosed, pending, outcome, unknown>>
  BY DEF TaskAnswers, HostUnchanged, clientVars
<1>2. ASSUME NEW p \in Ids
      PROVE  /\ toClient' \in Seq(Messages)
             /\ InClient(p)' <=> InClient(p) \/ p = q
             /\ OnceClient(p) /\ (p = q => ~ InClient(p)) => OnceClient(p)'
             /\ InvokeInClient(p)' <=> InvokeInClient(p)
             /\ InHost(p)' = InHost(p) /\ OnceHost(p)' = OnceHost(p)
  BY <1>0, <1>1, ClientWritten
<1>3. TypeOK'
  BY <1>0, <1>1, <1>2 DEF TypeOK, TaskAnswers, HostUnchanged, clientVars, Messages
<1>4. ASSUME NEW p \in Ids PROVE Flight(p)'
  <2>1. Flight(p)
    BY <1>0 DEF FlightInv
  <2> QED
    BY <1>1, <1>2, <2>1 DEF Flight, InFlight, HostDead
<1>5. HelloInv'
  BY <1>0, <1>1, <1>2, HelloInIds DEF HelloInv
<1> QED
  BY <1>0, <1>1, <1>3, <1>4, <1>5 DEF LinkInv, FlightInv

LEMMA InvokeToolKeeps ==
  ASSUME LinkInv, NEW q \in Requests, InvokeTool(q)
  PROVE  LinkInv'
<1>0. TypeOK /\ FlightInv /\ HelloInv /\ ~ unknown
  BY DEF LinkInv
<1>1. /\ toClient' = Append(toClient, Message("invoke", q)) /\ q \in Ids
      /\ UNCHANGED <<toHost, host, tasks, helloComplete, clientClosed, pending, outcome, unknown>>
  BY HelloInIds DEF InvokeTool, HostUnchanged, clientVars
<1>2. ASSUME NEW p \in Ids
      PROVE  /\ toClient' \in Seq(Messages)
             /\ InClient(p)' <=> InClient(p)
             /\ OnceClient(p) => OnceClient(p)'
             /\ InvokeInClient(p)' <=> InvokeInClient(p) \/ p = q
             /\ InHost(p)' = InHost(p) /\ OnceHost(p)' = OnceHost(p)
  BY <1>0, <1>1, ClientWritten
<1>3. TypeOK'
  BY <1>0, <1>1, <1>2 DEF TypeOK, InvokeTool, HostUnchanged, clientVars, Messages
<1>4. ASSUME NEW p \in Ids PROVE Flight(p)'
  <2>1. Flight(p)
    BY <1>0 DEF FlightInv
  <2> QED
    BY <1>1, <1>2, <2>1 DEF Flight, InFlight, HostDead
<1>5. HelloInv'
  BY <1>0, <1>1, <1>2, HelloInIds DEF HelloInv
<1> QED
  BY <1>0, <1>1, <1>3, <1>4, <1>5 DEF LinkInv, FlightInv

LEMMA LeaveLoopKeeps == ASSUME LinkInv, LeaveLoop PROVE LinkInv'
<1>0. TypeOK /\ FlightInv /\ HelloInv /\ ~ unknown
  BY DEF LinkInv
<1>1. /\ host = "running" /\ host' = "stopping"
      /\ UNCHANGED <<toHost, toClient, tasks, helloComplete, clientClosed, pending, outcome,
                     unknown>>
  BY DEF LeaveLoop, HostUnchanged, clientVars
<1>2. FlightInv' /\ HelloInv'
  BY <1>0, <1>1, PipesKept DEF HostDead
<1>3. TypeOK'
  BY <1>0 DEF TypeOK, LeaveLoop, HostUnchanged, clientVars
<1> QED
  BY <1>0, <1>1, <1>2, <1>3 DEF LinkInv

(* With the host any part of the tail of what it wrote may be lost.             *)
LEMMA StopKeeps ==
  ASSUME LinkInv, NEW how \in {"exited", "killed"}, Stop(how)
  PROVE  LinkInv'
<1>0. TypeOK /\ FlightInv /\ HelloInv /\ ~ unknown
  BY DEF LinkInv
<1>1. /\ HostDead'
      /\ UNCHANGED <<toHost, tasks, helloComplete, clientClosed, pending, outcome, unknown>>
  BY DEF Stop, HostDead, HostUnchanged, clientVars
<1>2. PICK n \in 0 .. Len(toClient) : toClient' = SubSeq(toClient, 1, n)
  BY DEF Stop
<1>3. ASSUME NEW p \in Ids
      PROVE  /\ toClient' \in Seq(Messages)
             /\ InClient(p)' => InClient(p)
             /\ OnceClient(p) => OnceClient(p)'
             /\ InvokeInClient(p)' => InvokeInClient(p)
             /\ InHost(p)' = InHost(p) /\ OnceHost(p)' = OnceHost(p)
  BY <1>0, <1>1, <1>2, ClientCut
<1>4. TypeOK'
  BY <1>0, <1>3, HelloInIds DEF TypeOK, Stop, HostUnchanged, clientVars, Messages
<1>5. ASSUME NEW p \in Ids PROVE Flight(p)'
  <2>1. Flight(p)
    BY <1>0 DEF FlightInv
  <2> QED
    BY <1>1, <1>3, <2>1 DEF Flight, InFlight
<1>6. HelloInv'
  BY <1>0, <1>1, <1>3, HelloInIds DEF HelloInv
<1> QED
  BY <1>0, <1>1, <1>4, <1>5, <1>6 DEF LinkInv, FlightInv

------------------------------------------------------------------------------
LEMMA InitLink == Init => LinkInv
<1> SUFFICES ASSUME Init PROVE LinkInv
  OBVIOUS
<1>0. Hello \in Ids /\ Message("request", Hello) \in Messages
  BY HelloInIds, MessageFacts
<1>1. toHost = <<Message("request", Hello)>> /\ toClient = <<>> /\ tasks = {}
  BY DEF Init
<1>2. ASSUME NEW p \in Ids
      PROVE  /\ InHost(p) <=> p = Hello
             /\ OnceHost(p) /\ OnceClient(p) /\ ~ InClient(p) /\ ~ InvokeInClient(p)
  <2>1. Message("request", Hello) = Message("request", p) <=> p = Hello
    BY MessageFacts
  <2> QED
    BY <1>1, <2>1, InEmpty, InOne DEF InHost, OnceHost, InClient, OnceClient, InvokeInClient
<1>3. TypeOK
  <2>1. toHost \in Seq(Messages) /\ toClient \in Seq(Messages)
    BY <1>0, <1>1
  <2> QED
    BY <1>0, <2>1 DEF Init, TypeOK, Messages
<1>4. FlightInv
  BY <1>1, <1>2 DEF FlightInv, Flight, InFlight, Init
<1>5. HelloInv
  BY <1>0, <1>2 DEF HelloInv, Init
<1> QED
  BY <1>3, <1>4, <1>5 DEF LinkInv, Init

LEMMA NextKeepsLink == ASSUME LinkInv, [Next]_vars PROVE LinkInv'
<1>1. ASSUME NEW q \in Requests, SendRequest(q) \/ Handle(q) \/ InvokeTool(q) PROVE LinkInv'
  <2>1. CASE SendRequest(q)
    <3>1. q \in Ids /\ q # Hello
      BY LinkAssumption DEF Ids
    <3>2. closing' \in {"no", "asked", "done"}
      BY <2>1 DEF SendRequest, LinkInv, TypeOK
    <3> QED
      BY <2>1, <3>1, <3>2, SendKeeps DEF SendRequest
  <2> QED
    BY <1>1, <2>1, HandledKeeps, InvokeToolKeeps
<1>2. ASSUME NEW q \in Ids, Receive(q) PROVE LinkInv'
  BY <1>2, AnsweredKeeps, UnknownKeeps, InvokedKeeps DEF Receive
<1>3. ASSUME NEW q \in Ids, HostReceive(q) \/ TaskAnswers(q) PROVE LinkInv'
  BY <1>3, RequestReadKeeps, ResponseReadKeeps, TaskKeeps DEF HostReceive
<1>4. CASE Close
  <2>1. Shutdown # Hello /\ closing' = "asked" /\ Send(Shutdown)
    BY <1>4, LinkAssumption DEF Close
  <2> QED
    BY <2>1, HelloInIds, SendKeeps
<1>5. CASE CloseInput \/ Kill \/ Child
  BY <1>5, CloseInputKeeps, KillKeeps, ChildKeeps
<1>6. CASE LeaveLoop \/ HostExit \/ HostDies
  BY <1>6, LeaveLoopKeeps, StopKeeps DEF HostExit, HostDies
<1>7. CASE UNCHANGED vars
  BY <1>7 DEF vars, clientVars, hostVars, LinkInv, TypeOK, FlightInv, Flight, HelloInv,
              InFlight, InHost, InClient, InvokeInClient, OnceHost, OnceClient, HostDead
<1> QED
  BY <1>1, <1>2, <1>3, <1>4, <1>5, <1>6, <1>7 DEF Next

(* While the host lives a pending request is in exactly one place, every        *)
(* request waits for the handshake, and no response is ever one too many.       *)
THEOREM SpecRequestTracked == Spec => []RequestTracked
<1>1. LinkInv /\ [Next]_vars => LinkInv'
  BY NextKeepsLink
<1>2. LinkInv => RequestTracked
  <2> SUFFICES ASSUME LinkInv PROVE RequestTracked
    OBVIOUS
  <2>1. TypeOK /\ FlightInv /\ ~ unknown
    BY DEF LinkInv
  <2>2. ASSUME NEW q \in pending, ~ HostDead
        PROVE  Cardinality({k \in DOMAIN toHost : toHost[k] = Message("request", q)})
               + Cardinality({k \in DOMAIN toClient : toClient[k] = Message("response", q)})
               + Cardinality(tasks \cap {q}) = 1
    <3>1. q \in Ids
      BY <2>1 DEF TypeOK
    <3>2. Flight(q)
      BY <2>1, <3>1 DEF FlightInv
    <3>3. Cardinality({k \in DOMAIN toHost : toHost[k] = Message("request", q)})
            = IF InHost(q) THEN 1 ELSE 0
      BY <3>2, CountSingle DEF Flight, OnceHost, InHost
    <3>4. Cardinality({k \in DOMAIN toClient : toClient[k] = Message("response", q)})
            = IF InClient(q) THEN 1 ELSE 0
      BY <3>2, CountSingle DEF Flight, OnceClient, InClient
    <3>5. Cardinality(tasks \cap {q}) = IF q \in tasks THEN 1 ELSE 0
      <4>1. CASE q \in tasks
        <5>1. tasks \cap {q} = {q}
          BY <4>1
        <5> QED
          BY <4>1, <5>1, FS_Singleton
      <4>2. CASE q \notin tasks
        <5>1. tasks \cap {q} = {}
          BY <4>2
        <5> QED
          BY <4>2, <5>1, FS_EmptySet
      <4> QED
        BY <4>1, <4>2
    <3> QED
      BY <2>2, <3>2, <3>3, <3>4, <3>5 DEF Flight, InFlight
  <2>3. tasks \subseteq {Hello} \/ helloComplete
    BY <2>1 DEF TypeOK, FlightInv, Flight, InFlight
  <2> QED
    BY <2>1, <2>2, <2>3 DEF RequestTracked
<1> QED
  BY InitLink, <1>1, <1>2, PTL DEF Spec
-----------------------------------------------------------------------------
(* Stretches of a stream                                                   *)

\* The bytes of a stream after the first a, up to the b-th.
Slice(s, a, b) == SubSeq(s, a + 1, b)

IsSlice(r, S, s, a, b) ==
  /\ r \in Seq(S) /\ Len(r) = b - a
  /\ \A k \in 1 .. b - a : r[k] = s[a + k]

\* A stretch has the elements of the stream that it covers.
LEMMA SliceFacts ==
  ASSUME NEW S, NEW s \in Seq(S), NEW a \in Nat, NEW b \in Nat, a <= b, b <= Len(s)
  PROVE  IsSlice(Slice(s, a, b), S, s, a, b)
<1>1. /\ Len(s) \in Nat /\ a + 1 \in 1 .. Len(s) + 1 /\ b \in 0 .. Len(s) /\ a + 1 <= b + 1
      /\ b - (a + 1) + 1 = b - a /\ \A k \in 1 .. b - a : a + 1 + k - 1 = a + k
  OBVIOUS
<1>2. /\ SubSeq(s, a + 1, b) \in Seq(S)
      /\ Len(SubSeq(s, a + 1, b)) = b - (a + 1) + 1
      /\ \A k \in 1 .. b - (a + 1) + 1 : SubSeq(s, a + 1, b)[k] = s[a + 1 + k - 1]
  BY <1>1, SubSeqFacts
<1> QED
  BY <1>1, <1>2 DEF Slice, IsSlice

\* Two sequences with the same elements are one.
LEMMA SameSequence ==
  ASSUME NEW S, NEW s \in Seq(S), NEW t \in Seq(S), Len(s) = Len(t),
         \A k \in 1 .. Len(s) : s[k] = t[k]
  PROVE  s = t
OBVIOUS

\* A stretch of a stretch is one of the stream.
LEMMA SliceOfSlice ==
  ASSUME NEW S, NEW s \in Seq(S), NEW a \in Nat, NEW b \in Nat, a <= b, b <= Len(s),
         NEW c \in Nat, NEW d \in Nat, c <= d, d <= b - a
  PROVE  Slice(Slice(s, a, b), c, d) = Slice(s, a + c, a + d)
<1> DEFINE t == Slice(s, a, b)
           u == Slice(t, c, d)
           v == Slice(s, a + c, a + d)
<1>1. IsSlice(t, S, s, a, b)
  BY SliceFacts
<1> HIDE DEF t
<1>2. IsSlice(u, S, t, c, d)
  <2>1. t \in Seq(S) /\ d <= Len(t)
    BY <1>1 DEF IsSlice
  <2> QED
    BY <2>1, SliceFacts
<1>3. /\ a + c \in Nat /\ a + d \in Nat /\ a + c <= a + d /\ a + d <= Len(s) /\ (a + d) - (a + c) = d - c
      /\ \A k \in 1 .. d - c : (a + c) + k = a + (c + k) /\ c + k \in 1 .. b - a
  BY SMT
<1>4. IsSlice(v, S, s, a + c, a + d)
  BY <1>3, SliceFacts
<1> HIDE DEF u, v
<1>5. /\ u \in Seq(S) /\ v \in Seq(S) /\ Len(u) = d - c /\ Len(v) = d - c
      /\ \A k \in 1 .. d - c : u[k] = v[k]
  BY <1>1, <1>2, <1>3, <1>4 DEF IsSlice
<1>6. u = v
  BY <1>5, SameSequence
<1> QED
  BY <1>6 DEF u, v, t

\* Two stretches, the second where the first ends, make one.
LEMMA SliceConcat ==
  ASSUME NEW S, NEW s \in Seq(S), NEW a \in Nat, NEW b \in Nat, NEW c \in Nat,
         a <= b, b <= c, c <= Len(s)
  PROVE  Slice(s, a, b) \o Slice(s, b, c) = Slice(s, a, c)
<1> DEFINE t == Slice(s, a, b)
           u == Slice(s, b, c)
           v == Slice(s, a, c)
<1>0. a <= c /\ b <= Len(s)
  OBVIOUS
<1>1. t \in Seq(S) /\ Len(t) = b - a /\ \A k \in 1 .. b - a : t[k] = s[a + k]
  <2>1. IsSlice(t, S, s, a, b)
    BY <1>0, SliceFacts
  <2> QED
    BY <2>1 DEF IsSlice
<1>2. u \in Seq(S) /\ Len(u) = c - b /\ \A k \in 1 .. c - b : u[k] = s[b + k]
  <2>1. IsSlice(u, S, s, b, c)
    BY <1>0, SliceFacts
  <2> QED
    BY <2>1 DEF IsSlice
<1>3. v \in Seq(S) /\ Len(v) = c - a /\ \A k \in 1 .. c - a : v[k] = s[a + k]
  <2>1. IsSlice(v, S, s, a, c)
    BY <1>0, SliceFacts
  <2> QED
    BY <2>1 DEF IsSlice
<1> HIDE DEF t, u, v
<1>4. /\ t \o u \in Seq(S) /\ Len(t \o u) = Len(t) + Len(u)
      /\ \A k \in 1 .. Len(t) : (t \o u)[k] = t[k]
      /\ \A k \in 1 .. Len(u) : (t \o u)[Len(t) + k] = u[k]
  <2>1. t \in Seq(S) /\ u \in Seq(S)
    BY <1>1, <1>2
  <2> QED
    BY ONLY <2>1
<1>5. ASSUME NEW k \in 1 .. c - a PROVE (t \o u)[k] = v[k]
  <2>1. CASE k <= b - a
    <3>1. k \in 1 .. b - a
      BY <2>1
    <3> QED
      BY <1>1, <1>3, <1>4, <3>1
  <2>2. CASE ~(k <= b - a)
    <3> DEFINE l == k - (b - a)
    <3>1. l \in 1 .. c - b /\ (b - a) + l = k /\ b + l = a + k
      BY <2>2
    <3> HIDE DEF l
    <3>2. (t \o u)[k] = u[l]
      BY <1>1, <1>2, <1>4, <3>1
    <3> QED
      BY <1>2, <1>3, <3>1, <3>2
  <2> QED
    BY <2>1, <2>2
<1>6. Len(t \o u) = Len(v) /\ Len(v) = c - a
  BY <1>1, <1>2, <1>3, <1>4
<1>7. t \o u = v
  BY <1>3, <1>4, <1>5, <1>6, SameSequence
<1> QED
  BY <1>7 DEF t, u, v

\* The stretch over all of a stream is the stream.
LEMMA SliceWhole == ASSUME NEW S, NEW s \in Seq(S) PROVE Slice(s, 0, Len(s)) = s
<1>1. 0 \in Nat /\ Len(s) \in Nat /\ 0 <= Len(s) /\ Len(s) - 0 = Len(s) /\ \A k \in 1 .. Len(s) : 0 + k = k
  OBVIOUS
<1>2. IsSlice(Slice(s, 0, Len(s)), S, s, 0, Len(s))
  BY <1>1, SliceFacts
<1>3. /\ Slice(s, 0, Len(s)) \in Seq(S) /\ Len(Slice(s, 0, Len(s))) = Len(s)
      /\ \A k \in 1 .. Len(s) : Slice(s, 0, Len(s))[k] = s[k]
  BY <1>1, <1>2 DEF IsSlice
<1> QED
  BY <1>3, SameSequence

\* A sequence that starts with another, and goes on with a third.
LEMMA SlicesOfConcat ==
  ASSUME NEW S, NEW s \in Seq(S), NEW t \in Seq(S)
  PROVE  Slice(s \o t, 0, Len(s)) = s /\ Slice(s \o t, Len(s), Len(s) + Len(t)) = t
<1> DEFINE u == s \o t
<1>1. /\ u \in Seq(S) /\ Len(u) = Len(s) + Len(t)
      /\ \A k \in 1 .. Len(s) : u[k] = s[k]
      /\ \A k \in 1 .. Len(t) : u[Len(s) + k] = t[k]
  BY ConcatFacts
<1> HIDE DEF u
<1>2. /\ 0 \in Nat /\ Len(s) \in Nat /\ Len(t) \in Nat /\ 0 <= Len(s) /\ Len(s) <= Len(s) + Len(t)
      /\ Len(s) + Len(t) \in Nat /\ Len(s) - 0 = Len(s) /\ (Len(s) + Len(t)) - Len(s) = Len(t)
      /\ \A k \in 1 .. Len(s) : 0 + k = k
  OBVIOUS
<1>3. /\ Slice(u, 0, Len(s)) \in Seq(S) /\ Len(Slice(u, 0, Len(s))) = Len(s)
      /\ \A k \in 1 .. Len(s) : Slice(u, 0, Len(s))[k] = u[k]
  <2>1. IsSlice(Slice(u, 0, Len(s)), S, u, 0, Len(s))
    BY <1>1, <1>2, SliceFacts
  <2> QED
    BY <1>2, <2>1 DEF IsSlice
<1>4. /\ Slice(u, Len(s), Len(s) + Len(t)) \in Seq(S) /\ Len(Slice(u, Len(s), Len(s) + Len(t))) = Len(t)
      /\ \A k \in 1 .. Len(t) : Slice(u, Len(s), Len(s) + Len(t))[k] = u[Len(s) + k]
  <2>1. IsSlice(Slice(u, Len(s), Len(s) + Len(t)), S, u, Len(s), Len(s) + Len(t))
    BY <1>1, <1>2, SliceFacts
  <2> QED
    BY <1>2, <2>1 DEF IsSlice
<1>5. Slice(u, 0, Len(s)) = s
  BY <1>1, <1>3, SameSequence
<1>6. Slice(u, Len(s), Len(s) + Len(t)) = t
  BY <1>1, <1>4, SameSequence
<1> QED
  BY <1>5, <1>6 DEF u
-----------------------------------------------------------------------------
(* Frames                                                                  *)

\* What the bounded sequences of the library are.
LEMMA BoundedSeqFacts ==
  ASSUME NEW S, NEW n \in Nat
  PROVE  \A p : p \in BoundedSeq(S, n) <=> p \in Seq(S) /\ Len(p) <= n
<1>1. ASSUME NEW p \in BoundedSeq(S, n) PROVE p \in Seq(S) /\ Len(p) <= n
  <2>1. PICK m \in 0 .. n : p \in [1 .. m -> S]
    BY <1>1 DEF BoundedSeq, SeqOf
  <2>2. m \in Nat /\ m <= n
    OBVIOUS
  <2> QED
    BY <2>1, <2>2
<1>2. ASSUME NEW p \in Seq(S), Len(p) <= n PROVE p \in BoundedSeq(S, n)
  <2>1. Len(p) \in 0 .. n /\ p \in [1 .. Len(p) -> S]
    BY <1>2
  <2> QED
    BY <2>1 DEF BoundedSeq, SeqOf
<1> QED
  BY <1>1, <1>2

\* A payload is any bytes up to the limit.
LEMMA PayloadFacts == \A p : p \in Payloads <=> p \in Seq(Bytes) /\ Len(p) <= MaxFrame
<1>1. MaxFrame \in Nat
  BY FramingAssumption
<1> QED
  BY <1>1, BoundedSeqFacts DEF Payloads

\* A header says one length, and each says some.
HeaderLaws ==
  /\ HeaderBytes \in Nat /\ HeaderBytes >= 1 /\ MaxFrame \in Nat /\ MaxStream \in Nat
  /\ Lengths \subseteq Nat /\ 0 .. MaxFrame \subseteq Lengths
  /\ \A n \in Lengths : Header[n] \in Seq(Bytes) /\ Len(Header[n]) = HeaderBytes
  /\ \A m, n \in Lengths : Header[m] = Header[n] => m = n
  /\ \A h \in Seq(Bytes) : Len(h) = HeaderBytes => \E n \in Lengths : Header[n] = h

\* What the assumption says of the header, element by element.
LEMMA HeaderFacts == HeaderLaws
<1>1. HeaderBytes \in Nat \ {0} /\ MaxFrame \in Nat /\ MaxStream \in Nat
  BY FramingAssumption
<1>2. Lengths \subseteq Nat /\ 0 .. MaxFrame \subseteq Lengths
  BY FramingAssumption
<1>3. Header \in Injection(Lengths, [1 .. HeaderBytes -> Bytes])
      /\ Header \in Surjection(Lengths, [1 .. HeaderBytes -> Bytes])
  BY FramingAssumption DEF Bijection
<1>4. Header \in [Lengths -> [1 .. HeaderBytes -> Bytes]] /\ IsInjective(Header)
  BY <1>3 DEF Injection
<1>5. \A h \in [1 .. HeaderBytes -> Bytes] : \E n \in Lengths : Header[n] = h
  BY <1>3 DEF Surjection
<1>6. ASSUME NEW n \in Lengths PROVE Header[n] \in Seq(Bytes) /\ Len(Header[n]) = HeaderBytes
  <2>1. Header[n] \in [1 .. HeaderBytes -> Bytes]
    BY <1>4
  <2> QED
    BY <1>1, <2>1
<1>7. ASSUME NEW m \in Lengths, NEW n \in Lengths, Header[m] = Header[n] PROVE m = n
  BY <1>4, <1>7 DEF IsInjective
<1>8. ASSUME NEW h \in Seq(Bytes), Len(h) = HeaderBytes PROVE \E n \in Lengths : Header[n] = h
  <2>1. h \in [1 .. HeaderBytes -> Bytes]
    BY <1>8
  <2> QED
    BY <1>5, <2>1
<1> QED
  BY <1>1, <1>2, <1>6, <1>7, <1>8 DEF HeaderLaws

\* readUInt32LE reads the length whose header the bytes are.
ReadsLength(buffer) ==
  /\ FrameLength(buffer) \in Lengths /\ FrameLength(buffer) \in Nat
  /\ Header[FrameLength(buffer)] = Slice(buffer, 0, HeaderBytes)

\* The length is there, because every header says one.
LEMMA FrameLengthFacts ==
  ASSUME NEW buffer \in Seq(Bytes), HasHeader(buffer)
  PROVE  ReadsLength(buffer)
<1>1. HeaderLaws
  BY HeaderFacts
<1>2. SubSeq(buffer, 1, HeaderBytes) = Slice(buffer, 0, HeaderBytes)
  BY DEF Slice
<1> DEFINE h == Slice(buffer, 0, HeaderBytes)
<1>3. h \in Seq(Bytes) /\ Len(h) = HeaderBytes
  <2>1. /\ 0 \in Nat /\ HeaderBytes \in Nat /\ 0 <= HeaderBytes /\ HeaderBytes <= Len(buffer)
        /\ HeaderBytes - 0 = HeaderBytes
    BY <1>1 DEF HeaderLaws, HasHeader
  <2>2. IsSlice(h, Bytes, buffer, 0, HeaderBytes)
    BY <2>1, SliceFacts
  <2> QED
    BY <2>1, <2>2 DEF IsSlice
<1> HIDE DEF h
<1>4. \E n \in Lengths : Header[n] = h
  BY <1>1, <1>3 DEF HeaderLaws
<1>5. FrameLength(buffer) = CHOOSE n \in Lengths : Header[n] = h
  BY <1>2 DEF FrameLength, h
<1>6. FrameLength(buffer) \in Lengths /\ Header[FrameLength(buffer)] = h
  BY <1>4, <1>5
<1>7. FrameLength(buffer) \in Nat
  BY <1>1, <1>6 DEF HeaderLaws
<1> QED
  BY <1>6, <1>7 DEF ReadsLength, h

\* A frame has its header, and then its payload.
FrameLaws(p) ==
  /\ p \in Seq(Bytes) /\ Len(p) \in Lengths /\ Len(p) \in Nat /\ Len(p) <= MaxFrame
  /\ EncodeFrame(p) \in Seq(Bytes) /\ Len(EncodeFrame(p)) = HeaderBytes + Len(p)
  /\ Slice(EncodeFrame(p), 0, HeaderBytes) = Header[Len(p)]
  /\ Slice(EncodeFrame(p), HeaderBytes, HeaderBytes + Len(p)) = p

\* What encodeFrame writes can be taken apart again.
LEMMA FrameFacts ==
  ASSUME NEW p \in Payloads
  PROVE  FrameLaws(p)
<1>1. HeaderLaws
  BY HeaderFacts
<1>2. p \in Seq(Bytes) /\ Len(p) <= MaxFrame
  BY PayloadFacts
<1>3. Len(p) \in Lengths /\ Len(p) \in Nat
  BY <1>1, <1>2 DEF HeaderLaws
<1> DEFINE h == Header[Len(p)]
<1>4. h \in Seq(Bytes) /\ Len(h) = HeaderBytes
  BY <1>1, <1>3 DEF HeaderLaws
<1> HIDE DEF h
<1>5. h \o p \in Seq(Bytes) /\ Len(h \o p) = HeaderBytes + Len(p)
  BY <1>2, <1>4
<1>6. Slice(h \o p, 0, Len(h)) = h /\ Slice(h \o p, Len(h), Len(h) + Len(p)) = p
  BY <1>2, <1>4, SlicesOfConcat
<1> QED
  BY <1>2, <1>3, <1>4, <1>5, <1>6 DEF FrameLaws, EncodeFrame, h

\* A stream has a frame with the payload p after its first a bytes.
FrameAt(s, a, p) ==
  /\ a + HeaderBytes + Len(p) <= Len(s)
  /\ Slice(s, a, a + HeaderBytes + Len(p)) = EncodeFrame(p)

\* What the decoder sees of a stream between a and b.
LEMMA SightFacts ==
  ASSUME NEW s \in Seq(Bytes), NEW a \in Nat, NEW b \in Nat, a <= b, b <= Len(s)
  PROVE  /\ Slice(s, a, b) \in Seq(Bytes) /\ Len(Slice(s, a, b)) = b - a
         /\ HasHeader(Slice(s, a, b)) <=> a + HeaderBytes <= b
         /\ HasHeader(Slice(s, a, b)) =>
              /\ ReadsLength(Slice(s, a, b))
              /\ Slice(Slice(s, a, b), 0, HeaderBytes) = Slice(s, a, a + HeaderBytes)
<1> DEFINE t == Slice(s, a, b)
<1>1. HeaderBytes \in Nat /\ HeaderBytes >= 1
  BY HeaderFacts DEF HeaderLaws
<1>2. IsSlice(t, Bytes, s, a, b)
  BY SliceFacts
<1>3. t \in Seq(Bytes) /\ Len(t) = b - a
  BY <1>2 DEF IsSlice
<1>4. HasHeader(t) <=> a + HeaderBytes <= b
  BY <1>1, <1>3 DEF HasHeader
<1>5. ASSUME HasHeader(t) PROVE Slice(t, 0, HeaderBytes) = Slice(s, a, a + HeaderBytes)
  <2>1. 0 \in Nat /\ 0 <= HeaderBytes /\ HeaderBytes <= b - a /\ a + 0 = a
    BY <1>1, <1>4, <1>5
  <2>2. Slice(Slice(s, a, b), 0, HeaderBytes) = Slice(s, a + 0, a + HeaderBytes)
    BY <1>1, <2>1, SliceOfSlice
  <2> QED
    BY <2>1, <2>2
<1> HIDE DEF t
<1>6. HasHeader(t) => ReadsLength(t)
  BY <1>3, FrameLengthFacts
<1> QED
  BY <1>3, <1>4, <1>5, <1>6 DEF t

\* More of the stream does not change what a header says.
LEMMA SameHeader ==
  ASSUME NEW s \in Seq(Bytes), NEW a \in Nat, NEW b \in Nat, NEW c \in Nat,
         a <= b, b <= c, c <= Len(s), HasHeader(Slice(s, a, b))
  PROVE  HasHeader(Slice(s, a, c)) /\ FrameLength(Slice(s, a, b)) = FrameLength(Slice(s, a, c))
<1> DEFINE t == Slice(s, a, b)
           u == Slice(s, a, c)
           h == Slice(s, a, a + HeaderBytes)
<1>0. a <= c /\ b <= Len(s) /\ HeaderBytes \in Nat
  BY HeaderFacts DEF HeaderLaws
<1>1. a + HeaderBytes <= b /\ ReadsLength(t) /\ Slice(t, 0, HeaderBytes) = h
  BY <1>0, SightFacts
<1>2. a + HeaderBytes <= c
  BY <1>0, <1>1
<1>3. HasHeader(u) /\ ReadsLength(u) /\ Slice(u, 0, HeaderBytes) = h
  BY <1>0, <1>2, SightFacts
<1> HIDE DEF t, u, h
<1>4. /\ FrameLength(t) \in Lengths /\ FrameLength(u) \in Lengths
      /\ Header[FrameLength(t)] = Header[FrameLength(u)]
  BY <1>1, <1>3 DEF ReadsLength
<1>5. FrameLength(t) = FrameLength(u)
  BY <1>4, HeaderFacts DEF HeaderLaws
<1> QED
  BY <1>3, <1>5 DEF t, u

\* A frame that has begun is seen as what it is, and leaves what comes after it.
LEMMA FrameSeen ==
  ASSUME NEW s \in Seq(Bytes), NEW a \in Nat, NEW b \in Nat, a <= b, b <= Len(s),
         NEW p \in Payloads, FrameAt(s, a, p), HasHeader(Slice(s, a, b))
  PROVE  /\ FrameLength(Slice(s, a, b)) = Len(p) /\ ~TooLarge(Slice(s, a, b))
         /\ Whole(Slice(s, a, b)) <=> a + HeaderBytes + Len(p) <= b
         /\ Whole(Slice(s, a, b)) =>
              /\ Payload(Slice(s, a, b)) = p
              /\ Rest(Slice(s, a, b)) = Slice(s, a + HeaderBytes + Len(p), b)
<1> DEFINE t == Slice(s, a, b)
           e == a + HeaderBytes + Len(p)
           f == Slice(s, a, e)
<1>1. FrameLaws(p)
  BY FrameFacts
<1>2. HeaderBytes \in Nat /\ HeaderBytes >= 1 /\ MaxFrame \in Nat /\ Len(p) \in Nat
  BY <1>1, HeaderFacts DEF HeaderLaws, FrameLaws
<1>3. /\ t \in Seq(Bytes) /\ Len(t) = b - a /\ a + HeaderBytes <= b /\ ReadsLength(t)
      /\ Slice(t, 0, HeaderBytes) = Slice(s, a, a + HeaderBytes)
  BY SightFacts
<1>4. e \in Nat /\ a <= e /\ e <= Len(s) /\ e - a = HeaderBytes + Len(p) /\ f = EncodeFrame(p)
  BY <1>2 DEF FrameAt
<1>5. Slice(f, 0, HeaderBytes) = Slice(s, a, a + HeaderBytes)
  <2>1. 0 \in Nat /\ 0 <= HeaderBytes /\ HeaderBytes <= e - a /\ a + 0 = a
    BY <1>2, <1>4
  <2>2. Slice(Slice(s, a, e), 0, HeaderBytes) = Slice(s, a + 0, a + HeaderBytes)
    BY <1>2, <1>4, <2>1, SliceOfSlice
  <2> QED
    BY <2>1, <2>2
<1>6. Header[FrameLength(t)] = Header[Len(p)] /\ Len(p) \in Lengths /\ FrameLength(t) \in Lengths
  BY <1>1, <1>3, <1>4, <1>5 DEF ReadsLength, FrameLaws
<1> HIDE DEF t, e, f
<1>7. FrameLength(t) = Len(p)
  BY <1>6, HeaderFacts DEF HeaderLaws
<1>8. ~TooLarge(t)
  BY <1>1, <1>2, <1>7 DEF TooLarge, FrameLaws
<1>9. Whole(t) <=> e <= b
  BY <1>2, <1>3, <1>7 DEF Whole, e
<1>10. ASSUME Whole(t) PROVE Payload(t) = p /\ Rest(t) = Slice(s, e, b)
  <2>1. /\ HeaderBytes + Len(p) \in Nat /\ HeaderBytes <= HeaderBytes + Len(p)
        /\ HeaderBytes + Len(p) <= b - a /\ HeaderBytes + Len(p) <= e - a
        /\ b - a \in Nat /\ b - a <= b - a /\ a + (HeaderBytes + Len(p)) = e /\ a + (b - a) = b
    BY <1>2, <1>4, <1>9, <1>10 DEF e
  <2>2. Payload(t) = Slice(t, HeaderBytes, HeaderBytes + Len(p))
    BY <1>7 DEF Payload, Slice
  <2>3. Rest(t) = Slice(t, HeaderBytes + Len(p), b - a)
    BY <1>3, <1>7 DEF Rest, Slice
  <2>4. Slice(Slice(s, a, b), HeaderBytes, HeaderBytes + Len(p))
          = Slice(s, a + HeaderBytes, a + (HeaderBytes + Len(p)))
    BY <1>2, <2>1, SliceOfSlice
  <2>5. Slice(Slice(s, a, e), HeaderBytes, HeaderBytes + Len(p))
          = Slice(s, a + HeaderBytes, a + (HeaderBytes + Len(p)))
    BY <1>2, <1>4, <2>1, SliceOfSlice
  <2>6. Slice(f, HeaderBytes, HeaderBytes + Len(p)) = p
    BY <1>1, <1>4 DEF FrameLaws
  <2>7. Payload(t) = p
    BY <2>2, <2>4, <2>5, <2>6 DEF t, f
  <2>8. Slice(Slice(s, a, b), HeaderBytes + Len(p), b - a) = Slice(s, a + (HeaderBytes + Len(p)), a + (b - a))
    BY <2>1, SliceOfSlice
  <2> QED
    BY <2>1, <2>3, <2>7, <2>8 DEF t
<1> QED
  BY <1>7, <1>8, <1>9, <1>10 DEF t, e

\* What is taken for a whole frame is one.
LEMMA SeenIsFrame ==
  ASSUME NEW s \in Seq(Bytes), NEW a \in Nat, NEW b \in Nat, a <= b, b <= Len(s),
         HasHeader(Slice(s, a, b)), ~TooLarge(Slice(s, a, b)), Whole(Slice(s, a, b))
  PROVE  \E p \in Payloads : FrameAt(s, a, p)
<1> DEFINE t == Slice(s, a, b)
           n == FrameLength(t)
           h == a + HeaderBytes
           p == Slice(s, h, h + n)
<1>1. HeaderBytes \in Nat /\ HeaderBytes >= 1 /\ MaxFrame \in Nat
  BY HeaderFacts DEF HeaderLaws
<1>2. /\ t \in Seq(Bytes) /\ Len(t) = b - a /\ a + HeaderBytes <= b /\ ReadsLength(t)
      /\ Slice(t, 0, HeaderBytes) = Slice(s, a, a + HeaderBytes)
  BY SightFacts
<1> HIDE DEF t
<1>3. n \in Nat /\ Header[n] = Slice(s, a, h)
  BY <1>2 DEF ReadsLength
<1>4. n <= MaxFrame /\ n + HeaderBytes <= b - a
  BY <1>1, <1>2, <1>3 DEF TooLarge, Whole, t
<1> HIDE DEF n
<1>5. /\ h \in Nat /\ h + n \in Nat /\ a <= h /\ h <= h + n /\ h + n <= Len(s) /\ (h + n) - h = n
      /\ a + HeaderBytes + n = h + n
  BY <1>1, <1>3, <1>4
<1> HIDE DEF h
<1>6. IsSlice(p, Bytes, s, h, h + n)
  BY <1>5, SliceFacts
<1>7. p \in Seq(Bytes) /\ Len(p) = n
  BY <1>5, <1>6 DEF IsSlice
<1>8. p \in Payloads
  BY <1>4, <1>7, PayloadFacts
<1>9. EncodeFrame(p) = Slice(s, a, h) \o p
  BY <1>3, <1>7 DEF EncodeFrame
<1>10. Slice(s, a, h) \o Slice(s, h, h + n) = Slice(s, a, h + n)
  BY <1>5, SliceConcat
<1>11. EncodeFrame(p) = Slice(s, a, a + HeaderBytes + Len(p))
  BY <1>5, <1>7, <1>9, <1>10
<1>12. a + HeaderBytes + Len(p) <= Len(s)
  BY <1>5, <1>7
<1> HIDE DEF p
<1> QED
  BY <1>8, <1>11, <1>12 DEF FrameAt
-----------------------------------------------------------------------------
(* The frames of a stream                                                  *)

EncodingsFollow(frames) ==
  /\ Encodings(frames)[0] = <<>>
  /\ \A k \in 0 .. Len(frames) : Encodings(frames)[k] \in Seq(Bytes)
  /\ \A k \in 1 .. Len(frames) :
       Encodings(frames)[k] = Encodings(frames)[k - 1] \o EncodeFrame(frames[k])

\* The recursive function Encodings has a solution, and follows its equations.
LEMMA EncodingsFacts ==
  ASSUME NEW frames \in Seq(Payloads)
  PROVE  EncodingsFollow(frames)
<1> DEFINE n == Len(frames)
           V == Seq(Bytes)
           Body(g, k) == IF k = 0 THEN <<>> ELSE g[k - 1] \o EncodeFrame(frames[k])
           step == [v \in V |-> [k \in 1 .. n |-> v \o EncodeFrame(frames[k])]]
           IsIt(g) == g = [k \in 0 .. n |-> Body(g, k)]
           bytes == CHOOSE g : IsIt(g)
<1>1. Encodings(frames) = bytes
  BY DEF Encodings
<1>2. n \in Nat /\ <<>> \in V /\ \A k \in 1 .. n : k - 1 \in 0 .. n /\ k \in 0 .. n /\ k # 0
  OBVIOUS
<1>3. \A k \in 1 .. n : EncodeFrame(frames[k]) \in V
  <2>1. ASSUME NEW k \in 1 .. n PROVE EncodeFrame(frames[k]) \in V
    <3>1. frames[k] \in Payloads
      OBVIOUS
    <3>2. FrameLaws(frames[k])
      BY <3>1, FrameFacts
    <3> QED
      BY <3>2 DEF FrameLaws
  <2> QED
    BY <2>1
<1> HIDE DEF n
<1>4. step \in StepsOver(V, n)
  BY <1>3 DEF StepsOver
<1>5. \A v \in V : \A k \in 1 .. n : step[v][k] = v \o EncodeFrame(frames[k])
  OBVIOUS
<1> HIDE DEF V, step
<1>6. PICK g \in [0 .. n -> V] : Iterates(g, <<>>, step, n)
  BY <1>2, <1>4, IteratesExist
<1>7. \A k \in 1 .. n : g[k] = g[k - 1] \o EncodeFrame(frames[k])
  BY <1>2, <1>5, <1>6 DEF Iterates
<1>8. IsIt(g)
  <2>1. ASSUME NEW k \in 0 .. n PROVE g[k] = Body(g, k)
    <3>1. CASE k = 0
      BY <1>6, <3>1 DEF Iterates
    <3>2. CASE k # 0
      <4>1. k \in 1 .. n
        BY <1>2, <3>2
      <4> QED
        BY <1>7, <3>2, <4>1
    <3> QED
      BY <3>1, <3>2
  <2>2. g = [k \in 0 .. n |-> g[k]]
    BY <1>6
  <2> HIDE DEF Body
  <2> QED
    BY <2>1, <2>2
<1> HIDE DEF IsIt
<1>9. IsIt(bytes)
  BY <1>8
<1> HIDE DEF bytes
<1>10. bytes[0] = <<>> /\ \A k \in 1 .. n : bytes[k] = bytes[k - 1] \o EncodeFrame(frames[k])
  <2>1. \A k \in 0 .. n : bytes[k] = Body(bytes, k)
    BY <1>9 DEF IsIt
  <2>2. 0 \in 0 .. n
    BY <1>2
  <2> QED
    BY <1>2, <2>1, <2>2
<1>11. \A k \in 0 .. n : bytes[k] \in V
  <2>1. \A k \in 1 .. n : bytes[k - 1] \in V => bytes[k] = step[bytes[k - 1]][k]
    BY <1>5, <1>10
  <2> QED
    BY <1>2, <1>4, <1>10, <2>1, IteratesType
<1> QED
  BY <1>1, <1>10, <1>11 DEF EncodingsFollow, n, V

\* Where the k-th frame ends.
End(frames, k) == Len(Encodings(frames)[k])

\* Each frame ends a header and a payload after the one before.
LEMMA EndFacts ==
  ASSUME NEW frames \in Seq(Payloads)
  PROVE  /\ End(frames, 0) = 0
         /\ \A k \in 0 .. Len(frames) : End(frames, k) \in Nat
         /\ \A k \in 1 .. Len(frames) :
              /\ frames[k] \in Payloads /\ Len(frames[k]) \in Nat
              /\ End(frames, k) = End(frames, k - 1) + HeaderBytes + Len(frames[k])
<1>1. EncodingsFollow(frames)
  BY EncodingsFacts
<1>2. End(frames, 0) = 0
  BY <1>1 DEF EncodingsFollow, End
<1>3. \A k \in 0 .. Len(frames) : End(frames, k) \in Nat
  BY <1>1 DEF EncodingsFollow, End
<1>4. HeaderBytes \in Nat
  BY HeaderFacts DEF HeaderLaws
<1>5. ASSUME NEW k \in 1 .. Len(frames)
      PROVE  /\ frames[k] \in Payloads /\ Len(frames[k]) \in Nat
             /\ End(frames, k) = End(frames, k - 1) + HeaderBytes + Len(frames[k])
  <2> DEFINE b == Encodings(frames)[k - 1]
             f == EncodeFrame(frames[k])
  <2>1. frames[k] \in Payloads
    OBVIOUS
  <2>2. FrameLaws(frames[k])
    BY <2>1, FrameFacts
  <2>3. k - 1 \in 0 .. Len(frames)
    OBVIOUS
  <2>4. b \in Seq(Bytes) /\ Encodings(frames)[k] = b \o f
    BY <1>1, <2>3 DEF EncodingsFollow
  <2>5. f \in Seq(Bytes) /\ Len(f) = HeaderBytes + Len(frames[k]) /\ Len(frames[k]) \in Nat
    BY <2>2 DEF FrameLaws
  <2> HIDE DEF b, f
  <2>6. Len(b \o f) = Len(b) + Len(f)
    <3>1. b \in Seq(Bytes) /\ f \in Seq(Bytes)
      BY <2>4, <2>5
    <3> QED
      BY ONLY <3>1
  <2>7. Len(b) = End(frames, k - 1) /\ Len(b) \in Nat
    BY <2>4 DEF End, b
  <2>8. End(frames, k) = Len(b \o f)
    BY <2>4 DEF End
  <2> DEFINE l == Len(frames[k])
             c == End(frames, k - 1)
             d == Len(f)
  <2>9. End(frames, k) = c + d /\ c \in Nat
    BY ONLY <2>6, <2>7, <2>8
  <2>10. d = HeaderBytes + l /\ l \in Nat
    BY <2>5
  <2> HIDE DEF c, d, l
  <2>11. c + d = c + HeaderBytes + l
    BY ONLY <1>4, <2>9, <2>10
  <2> QED
    BY <2>1, <2>9, <2>10, <2>11 DEF c, l
<1> QED
  BY <1>2, <1>3, <1>5

\* A stretch of the first bytes.
LEMMA SliceOfPrefix ==
  ASSUME NEW S, NEW s \in Seq(S), NEW b \in Nat, b <= Len(s), NEW c \in Nat, NEW d \in Nat, c <= d, d <= b
  PROVE  Slice(Slice(s, 0, b), c, d) = Slice(s, c, d)
<1>1. ASSUME NEW a \in Nat, a = 0 PROVE Slice(Slice(s, a, b), c, d) = Slice(s, c, d)
  <2>1. a <= b /\ d <= b - a /\ a + c = c /\ a + d = d
    BY <1>1
  <2>2. Slice(Slice(s, a, b), c, d) = Slice(s, a + c, a + d)
    BY <2>1, SliceOfSlice
  <2> QED
    BY <2>1, <2>2
<1> QED
  BY <1>1

\* A frame takes a header at least.
LEMMA FramesTakeHeaders ==
  ASSUME NEW frames \in Seq(Payloads)
  PROVE  \A k \in 0 .. Len(frames) : k * HeaderBytes <= End(frames, k)
<1> DEFINE n == Len(frames)
           P == {k \in 0 .. n : k * HeaderBytes <= End(frames, k)}
<1>1. HeaderBytes \in Nat /\ n \in Nat /\ End(frames, 0) = 0
  BY HeaderFacts, EndFacts DEF HeaderLaws
<1>2. 0 \in P
  BY <1>1
<1>3. ASSUME NEW m \in 1 .. n, m - 1 \in P PROVE m \in P
  <2>1. (m - 1) * HeaderBytes <= End(frames, m - 1) /\ m \in 0 .. n /\ m - 1 \in 0 .. n
    BY <1>3
  <2>2. /\ End(frames, m) = End(frames, m - 1) + HeaderBytes + Len(frames[m])
        /\ Len(frames[m]) \in Nat /\ End(frames, m - 1) \in Nat
    BY <2>1, EndFacts
  <2>3. m * HeaderBytes = (m - 1) * HeaderBytes + HeaderBytes /\ (m - 1) * HeaderBytes \in Nat
    BY <1>1, <2>1
  <2>4. m * HeaderBytes <= End(frames, m)
    BY <1>1, <2>1, <2>2, <2>3
  <2> QED
    BY <2>1, <2>4
<1> HIDE DEF P
<1>4. \A m \in 1 .. n : m - 1 \in P => m \in P
  BY <1>3
<1>5. \A k \in 0 .. n : k \in P
  BY <1>1, <1>2, <1>4, CountUp
<1> QED
  BY <1>5 DEF P

\* A prefix is a first stretch.
LEMMA PrefixFacts ==
  ASSUME NEW s \in Seq(Bytes), NEW x \in Seq(Bytes)
  PROVE  IsPrefix(x, s) <=> Len(x) <= Len(s) /\ Slice(s, 0, Len(x)) = x
<1>1. Slice(x, 0, Len(x)) = x
  BY SliceWhole
<1>2. SubSeq(x, 1, Len(x)) = x
  BY <1>1 DEF Slice
<1>3. SubSeq(s, 1, Len(x)) = Slice(s, 0, Len(x))
  BY DEF Slice
<1> QED
  BY <1>2, <1>3 DEF IsPrefix

\* What begins with frames begins with each number of them.
LEMMA PrefixOfEach ==
  ASSUME NEW s \in Seq(Bytes), NEW frames \in Seq(Payloads), IsPrefix(Encoded(frames), s)
  PROVE  \A k \in 0 .. Len(frames) :
           End(frames, k) <= Len(s) /\ Slice(s, 0, End(frames, k)) = Encodings(frames)[k]
<1> DEFINE n == Len(frames)
           Held(k) == End(frames, k) <= Len(s) /\ Slice(s, 0, End(frames, k)) = Encodings(frames)[k]
           Bad == {d \in 0 .. n : ~Held(n - d)}
<1>1. SUFFICES ASSUME Bad # {} PROVE FALSE
  <2>1. SUFFICES ASSUME NEW k \in 0 .. n, ~Held(k), Bad = {} PROVE FALSE
    OBVIOUS
  <2>2. n - k \in 0 .. n /\ n - (n - k) = k
    OBVIOUS
  <2>3. n - k \in Bad
    BY <2>1, <2>2
  <2> QED
    BY <2>1, <2>3
<1>2. Bad \in SUBSET Nat /\ n \in Nat
  OBVIOUS
<1>3. EncodingsFollow(frames)
  BY EncodingsFacts
<1>4. Held(n)
  <2>1. n \in 0 .. n /\ Encoded(frames) = Encodings(frames)[n]
    BY <1>2 DEF Encoded
  <2>2. Encoded(frames) \in Seq(Bytes)
    BY <1>3, <2>1 DEF EncodingsFollow
  <2>3. Len(Encoded(frames)) <= Len(s) /\ Slice(s, 0, Len(Encoded(frames))) = Encoded(frames)
    BY <2>2, PrefixFacts
  <2> QED
    BY <2>1, <2>3 DEF End
<1> HIDE DEF Bad
<1> DEFINE m == Min(Bad)
<1>5. m \in Bad /\ \A y \in Bad : m <= y
  BY <1>1, <1>2, LeastNatural
<1> HIDE DEF m, Held
<1>6. m \in 0 .. n /\ ~Held(n - m) /\ \A y \in 0 .. n : ~Held(n - y) => m <= y
  BY <1>5 DEF Bad
<1>7. m # 0
  <2>1. n - 0 = n
    BY <1>2
  <2> QED
    BY <1>4, <1>6, <2>1
<1> DEFINE k == n - (m - 1)
<1>8. k \in 1 .. n /\ k - 1 = n - m /\ k - 1 \in 0 .. n /\ m - 1 \in 0 .. n /\ ~(m <= m - 1)
  BY <1>2, <1>6, <1>7
<1>9. Held(k)
  BY <1>6, <1>8
<1> HIDE DEF k
<1> DEFINE b == Encodings(frames)[k - 1]
           f == EncodeFrame(frames[k])
<1>10. b \in Seq(Bytes) /\ Encodings(frames)[k] = b \o f /\ f \in Seq(Bytes)
  <2>1. frames[k] \in Payloads
    BY <1>8
  <2>2. FrameLaws(frames[k])
    BY <2>1, FrameFacts
  <2> QED
    BY <1>3, <1>8, <2>2 DEF EncodingsFollow, FrameLaws
<1>11. End(frames, k - 1) = Len(b) /\ End(frames, k) = Len(b \o f)
  BY <1>10 DEF End
<1>12. End(frames, k) <= Len(s) /\ Slice(s, 0, End(frames, k)) = b \o f
  BY <1>9, <1>10 DEF Held
<1> HIDE DEF b, f
<1>13. Len(b \o f) = Len(b) + Len(f) /\ Len(b) \in Nat /\ Len(f) \in Nat
  BY <1>10
<1>14. Slice(b \o f, 0, Len(b)) = b
  BY <1>10, SlicesOfConcat
<1> DEFINE e == End(frames, k)
           d == End(frames, k - 1)
<1>15. e \in Nat /\ d \in Nat /\ d <= e /\ e <= Len(s) /\ 0 <= d /\ 0 \in Nat /\ d <= Len(s)
  BY <1>11, <1>12, <1>13
<1> HIDE DEF e, d
<1>16. Slice(Slice(s, 0, e), 0, d) = Slice(s, 0, d)
  BY <1>15, SliceOfPrefix
<1>17. Slice(s, 0, d) = b
  BY <1>11, <1>12, <1>14, <1>15, <1>16 DEF e, d
<1>18. Held(k - 1)
  BY <1>15, <1>17 DEF Held, d, b
<1> QED
  BY <1>6, <1>8, <1>18

\* A stream begins with frames, and no other follows.
Layout(s, frames) ==
  /\ s \in Seq(Bytes) /\ frames \in Seq(Payloads)
  /\ \A k \in 1 .. Len(frames) : FrameAt(s, End(frames, k - 1), frames[k])
  /\ \A k \in 0 .. Len(frames) : End(frames, k) <= Len(s)
  /\ \A p \in Payloads : ~FrameAt(s, End(frames, Len(frames)), p)

\* A stream that begins with the bytes of some frames has each where the one before ends.
LEMMA PrefixHasFrames ==
  ASSUME NEW s \in Seq(Bytes), NEW frames \in Seq(Payloads), IsPrefix(Encoded(frames), s),
         NEW k \in 1 .. Len(frames)
  PROVE  FrameAt(s, End(frames, k - 1), frames[k])
<1> DEFINE d == End(frames, k - 1)
           e == End(frames, k)
           b == Encodings(frames)[k - 1]
           f == EncodeFrame(frames[k])
<1>1. k \in 0 .. Len(frames) /\ k - 1 \in 0 .. Len(frames)
  OBVIOUS
<1>2. EncodingsFollow(frames)
  BY EncodingsFacts
<1>3. FrameLaws(frames[k])
  <2>1. frames[k] \in Payloads
    OBVIOUS
  <2> QED
    BY <2>1, FrameFacts
<1>4. b \in Seq(Bytes) /\ f \in Seq(Bytes) /\ Encodings(frames)[k] = b \o f /\ Len(b) = d
  BY <1>1, <1>2, <1>3 DEF EncodingsFollow, FrameLaws, End
<1>5. e <= Len(s) /\ Slice(s, 0, e) = b \o f
  BY <1>1, <1>4, PrefixOfEach
<1>6. /\ e = d + HeaderBytes + Len(frames[k]) /\ e \in Nat /\ d \in Nat
      /\ HeaderBytes \in Nat /\ Len(frames[k]) \in Nat
  BY <1>1, EndFacts, HeaderFacts DEF HeaderLaws
<1>7. Len(f) = HeaderBytes + Len(frames[k])
  BY <1>3 DEF FrameLaws
<1> HIDE DEF d, e, b, f
<1>8. Slice(b \o f, Len(b), Len(b) + Len(f)) = f
  BY <1>4, SlicesOfConcat
<1>9. Len(b) = d /\ Len(b) + Len(f) = e /\ d <= e /\ e <= e
  <2>1. Len(b) = d
    BY <1>4
  <2> DEFINE l == Len(frames[k])
  <2>2. e = d + HeaderBytes + l /\ e \in Nat /\ d \in Nat /\ HeaderBytes \in Nat /\ l \in Nat
    BY <1>6
  <2>3. Len(f) = HeaderBytes + l
    BY <1>7
  <2> HIDE DEF l
  <2>4. d + (HeaderBytes + l) = e /\ d <= e /\ e <= e
    BY ONLY <2>2
  <2> QED
    BY ONLY <2>1, <2>3, <2>4
<1>10. d \in Nat /\ e \in Nat /\ e <= Len(s)
  BY <1>5, <1>6
<1>11. Slice(Slice(s, 0, e), d, e) = Slice(s, d, e)
  BY <1>9, <1>10, SliceOfPrefix
<1>12. Slice(s, d, e) = f
  BY <1>5, <1>8, <1>9, <1>11
<1> QED
  BY <1>5, <1>6, <1>12 DEF FrameAt, f, d

\* One frame more.
LEMMA EncodedAppend ==
  ASSUME NEW frames \in Seq(Payloads), NEW p \in Payloads
  PROVE  /\ Encoded(frames) \in Seq(Bytes) /\ Len(Encoded(frames)) = End(frames, Len(frames))
         /\ Append(frames, p) \in Seq(Payloads) /\ Len(Append(frames, p)) = Len(frames) + 1
         /\ Encoded(Append(frames, p)) = Encoded(frames) \o EncodeFrame(p)
<1> DEFINE n == Len(frames)
           more == Append(frames, p)
           P == {k \in 0 .. n : Encodings(more)[k] = Encodings(frames)[k]}
<1>1. /\ more \in Seq(Payloads) /\ Len(more) = n + 1 /\ n \in Nat /\ more[n + 1] = p
      /\ \A k \in 1 .. n : more[k] = frames[k]
  OBVIOUS
<1> HIDE DEF more
<1>2. EncodingsFollow(frames)
  BY EncodingsFacts
<1>3. EncodingsFollow(more)
  BY <1>1, EncodingsFacts
<1>4. \A k \in 0 .. n : k \in P
  <2>1. 0 \in P
    BY <1>1, <1>2, <1>3 DEF EncodingsFollow
  <2>2. ASSUME NEW m \in 1 .. n, m - 1 \in P PROVE m \in P
    <3>1. m \in 1 .. n + 1 /\ m \in 0 .. n
      BY <1>1
    <3>2. Encodings(more)[m - 1] = Encodings(frames)[m - 1]
      BY <2>2
    <3>3. Encodings(frames)[m] = Encodings(frames)[m - 1] \o EncodeFrame(frames[m])
      BY <1>2 DEF EncodingsFollow
    <3>4. Encodings(more)[m] = Encodings(more)[m - 1] \o EncodeFrame(more[m])
      BY <1>1, <1>3, <3>1 DEF EncodingsFollow
    <3> QED
      BY <1>1, <3>1, <3>2, <3>3, <3>4
  <2> HIDE DEF P
  <2>3. \A m \in 1 .. n : m - 1 \in P => m \in P
    BY <2>2
  <2> QED
    BY <1>1, <2>1, <2>3, CountUp
<1> HIDE DEF n
<1>5. Encodings(more)[n] = Encodings(frames)[n]
  BY <1>1, <1>4
<1>6. Encodings(more)[n + 1] = Encodings(more)[n] \o EncodeFrame(p)
  <2>1. n + 1 \in 1 .. Len(more) /\ (n + 1) - 1 = n
    BY <1>1
  <2> QED
    BY <1>1, <1>3, <2>1 DEF EncodingsFollow
<1>7. Encoded(frames) = Encodings(frames)[n] /\ Encoded(more) = Encodings(more)[n + 1]
  BY <1>1 DEF Encoded, n
<1>8. Encodings(frames)[n] \in Seq(Bytes)
  BY <1>1, <1>2 DEF EncodingsFollow, n
<1>9. Len(Encoded(frames)) = End(frames, n)
  BY <1>7 DEF End
<1> QED
  BY <1>1, <1>5, <1>6, <1>7, <1>8, <1>9 DEF n, more

\* One frame more, if it is there.
LEMMA LongerPrefix ==
  ASSUME NEW s \in Seq(Bytes), NEW frames \in Seq(Payloads), IsPrefix(Encoded(frames), s),
         NEW p \in Payloads, FrameAt(s, End(frames, Len(frames)), p)
  PROVE  IsPrefix(Encoded(Append(frames, p)), s)
<1> DEFINE d == End(frames, Len(frames))
           e == d + HeaderBytes + Len(p)
           b == Encoded(frames)
           f == EncodeFrame(p)
<1>1. b \in Seq(Bytes) /\ Len(b) = d /\ Encoded(Append(frames, p)) = b \o f
  BY EncodedAppend
<1>2. FrameLaws(p)
  BY FrameFacts
<1>3. f \in Seq(Bytes) /\ Len(f) = HeaderBytes + Len(p) /\ Len(p) \in Nat
  BY <1>2 DEF FrameLaws
<1>4. d <= Len(s) /\ Slice(s, 0, d) = b
  BY <1>1, PrefixFacts
<1>5. e <= Len(s) /\ Slice(s, d, e) = f
  BY DEF FrameAt
<1>6. HeaderBytes \in Nat
  BY HeaderFacts DEF HeaderLaws
<1> HIDE DEF b, f
<1>7. d \in Nat /\ e \in Nat /\ 0 \in Nat /\ 0 <= d /\ d <= e
  BY <1>1, <1>3, <1>6
<1> HIDE DEF d
<1>8. b \o f \in Seq(Bytes) /\ Len(b \o f) = e
  <2>1. Len(b) = d /\ b \in Seq(Bytes) /\ f \in Seq(Bytes)
    BY <1>1, <1>3
  <2>2. b \o f \in Seq(Bytes) /\ Len(b \o f) = Len(b) + Len(f)
    BY ONLY <2>1
  <2> QED
    BY ONLY <1>3, <1>6, <1>7, <2>1, <2>2
<1> HIDE DEF e
<1>9. Slice(s, 0, d) \o Slice(s, d, e) = Slice(s, 0, e)
  BY <1>5, <1>7, SliceConcat
<1>10. Len(b \o f) <= Len(s) /\ Slice(s, 0, Len(b \o f)) = b \o f
  BY <1>4, <1>5, <1>8, <1>9
<1>11. IsPrefix(b \o f, s)
  BY <1>8, <1>10, PrefixFacts
<1> QED
  BY <1>1, <1>11

\* Longer frames end later.
LEMMA EndsGrow ==
  ASSUME NEW frames \in Seq(Payloads), NEW i \in 0 .. Len(frames)
  PROVE  \A j \in 0 .. Len(frames) :
           /\ i <= j => End(frames, i) <= End(frames, j)
           /\ i < j => End(frames, i) + HeaderBytes <= End(frames, j)
<1> DEFINE n == Len(frames)
           Later(j) == End(frames, i) + HeaderBytes <= End(frames, j)
           Bad == {j \in i + 1 .. n : ~Later(j)}
<1>1. HeaderBytes \in Nat /\ HeaderBytes >= 1 /\ n \in Nat /\ i \in Nat
  BY HeaderFacts DEF HeaderLaws
<1>2. \A k \in 0 .. n : End(frames, k) \in Nat
  BY EndFacts
<1>3. \A k \in 1 .. n : End(frames, k - 1) + HeaderBytes <= End(frames, k)
  <2>1. SUFFICES ASSUME NEW k \in 1 .. n PROVE End(frames, k - 1) + HeaderBytes <= End(frames, k)
    OBVIOUS
  <2>2. End(frames, k) = End(frames, k - 1) + HeaderBytes + Len(frames[k]) /\ Len(frames[k]) \in Nat
    BY EndFacts
  <2>3. k - 1 \in 0 .. n
    OBVIOUS
  <2>4. End(frames, k - 1) \in Nat
    BY <1>2, <2>3
  <2> DEFINE a == End(frames, k - 1)
             l == Len(frames[k])
  <2>5. a \in Nat /\ l \in Nat /\ End(frames, k) = a + HeaderBytes + l
    BY <2>2, <2>4
  <2> HIDE DEF a, l
  <2>6. a + HeaderBytes <= End(frames, k)
    BY ONLY <1>1, <2>5
  <2> QED
    BY <2>6 DEF a
<1>4. Bad = {}
  <2>1. SUFFICES ASSUME Bad # {} PROVE FALSE
    OBVIOUS
  <2>2. Bad \in SUBSET Nat
    BY <1>1
  <2> HIDE DEF Bad
  <2> DEFINE m == Min(Bad)
  <2>3. m \in Bad /\ \A y \in Bad : m <= y
    BY <2>1, <2>2, LeastNatural
  <2> HIDE DEF m, Later
  <2>4. m \in i + 1 .. n /\ ~Later(m) /\ \A y \in i + 1 .. n : ~Later(y) => m <= y
    BY <2>3 DEF Bad
  <2>5. m \in 1 .. n /\ m \in Nat /\ m - 1 \in 0 .. n /\ m \in 0 .. n
    BY <1>1, <2>4
  <2> DEFINE a == End(frames, i)
             b == End(frames, m - 1)
             c == End(frames, m)
  <2>6. a \in Nat /\ b \in Nat /\ c \in Nat /\ b + HeaderBytes <= c
    BY <1>2, <1>3, <2>5
  <2>7. CASE m = i + 1
    <3>1. m - 1 = i
      BY <1>1, <2>7
    <3> QED
      BY <2>4, <2>6, <3>1 DEF Later
  <2>8. CASE m # i + 1
    <3>1. m - 1 \in i + 1 .. n /\ ~(m <= m - 1)
      BY <1>1, <2>4, <2>5, <2>8
    <3>2. a + HeaderBytes <= b
      BY <2>4, <3>1 DEF Later
    <3> HIDE DEF a, b, c
    <3>3. a + HeaderBytes <= c
      BY ONLY <1>1, <2>6, <3>2
    <3> QED
      BY <2>4, <3>3 DEF Later, a, c
  <2> QED
    BY <2>7, <2>8
<1>5. ASSUME NEW j \in 0 .. n, i < j PROVE Later(j)
  <2>1. j \in i + 1 .. n
    BY <1>1, <1>5
  <2> QED
    BY <1>4, <2>1
<1>6. ASSUME NEW j \in 0 .. n, i <= j PROVE End(frames, i) <= End(frames, j)
  <2>1. End(frames, i) \in Nat /\ End(frames, j) \in Nat
    BY <1>2
  <2>2. CASE i = j
    BY <2>1, <2>2
  <2>3. CASE i < j
    BY <1>1, <1>5, <2>1, <2>3
  <2> QED
    BY <1>1, <1>6, <2>2, <2>3
<1> QED
  BY <1>5, <1>6

\* A stream has no more frames than headers fit in it.
LEMMA ProductBound ==
  ASSUME NEW n \in Nat, NEW m \in Nat, NEW h \in Nat \ {0}, n * h <= m
  PROVE  n <= m \div h
OBVIOUS

\* A stream has its frames, with no other after them, and what is left.
LEMMA FramesFacts ==
  ASSUME NEW s \in Streams
  PROVE  /\ Layout(s, Frames[s])
         /\ LeftOver(s) = Slice(s, End(Frames[s], Len(Frames[s])), Len(s))
<1> DEFINE M == MaxStream \div HeaderBytes
           Begin(frames) == frames \in Seq(Payloads) /\ IsPrefix(Encoded(frames), s)
           Counts == {m \in 0 .. M : \E frames : Begin(frames) /\ Len(frames) = M - m}
           Longest(frames) == \A p \in Payloads : ~IsPrefix(Encoded(Append(frames, p)), s)
<1>1. HeaderBytes \in Nat \ {0} /\ HeaderBytes \in Nat /\ MaxStream \in Nat /\ M \in Nat
  BY HeaderFacts DEF HeaderLaws
<1>2. s \in Seq(Bytes) /\ Len(s) <= MaxStream
  BY <1>1, BoundedSeqFacts DEF Streams
<1>3. ASSUME NEW frames, Begin(frames) PROVE Len(frames) \in 0 .. M
  <2> DEFINE n == Len(frames)
  <2>1. n * HeaderBytes <= End(frames, n) /\ End(frames, n) <= Len(s) /\ n \in Nat /\ End(frames, n) \in Nat
    <3>1. frames \in Seq(Payloads) /\ n \in 0 .. Len(frames)
      BY <1>3
    <3> QED
      BY <1>2, <1>3, <3>1, FramesTakeHeaders, PrefixOfEach, EndFacts
  <2> HIDE DEF n
  <2>2. n * HeaderBytes <= MaxStream
    <3>1. n * HeaderBytes \in Nat /\ Len(s) \in Nat
      BY <1>1, <1>2, <2>1
    <3> QED
      BY <1>1, <1>2, <2>1, <3>1
  <2>3. n <= M
    BY <1>1, <2>1, <2>2, ProductBound
  <2> QED
    BY <1>1, <2>1, <2>3 DEF n
<1> HIDE DEF M
<1>4. Begin(<<>>)
  <2>1. <<>> \in Seq(Payloads) /\ Len(<<>>) = 0
    OBVIOUS
  <2>2. EncodingsFollow(<<>>)
    BY <2>1, EncodingsFacts
  <2>3. Encoded(<<>>) = <<>>
    BY <2>1, <2>2 DEF Encoded, EncodingsFollow
  <2>4. SubSeq(s, 1, 0) = <<>> /\ SubSeq(<<>>, 1, 0) = <<>> /\ Len(<<>>) <= Len(s)
    BY <1>2
  <2> QED
    BY <2>1, <2>3, <2>4 DEF IsPrefix
<1>5. Counts # {}
  <2>1. M \in 0 .. M /\ Len(<<>>) = M - M
    BY <1>1
  <2> HIDE DEF Begin
  <2> QED
    BY <1>4, <2>1
<1>6. Counts \in SUBSET Nat
  OBVIOUS
<1> HIDE DEF Counts
<1> DEFINE c == Min(Counts)
<1>7. c \in Counts /\ \A y \in Counts : c <= y
  BY <1>5, <1>6, LeastNatural
<1> HIDE DEF c
<1>8. PICK longest : Begin(longest) /\ Len(longest) = M - c
  BY <1>7 DEF Counts
<1>9. Longest(longest)
  <2>1. SUFFICES ASSUME NEW p \in Payloads, IsPrefix(Encoded(Append(longest, p)), s) PROVE FALSE
    OBVIOUS
  <2> DEFINE more == Append(longest, p)
  <2>2. Begin(more) /\ Len(more) = Len(longest) + 1
    BY <1>8, <2>1, EncodedAppend
  <2> HIDE DEF Begin, more
  <2>3. Len(more) \in 0 .. M
    BY <1>3, <2>2
  <2>4. c \in 0 .. M
    BY <1>7 DEF Counts
  <2>5. M - Len(more) \in 0 .. M /\ ~(c <= M - Len(more)) /\ Len(more) = M - (M - Len(more))
    BY <1>1, <1>8, <2>2, <2>3, <2>4
  <2>6. M - Len(more) \in Counts
    BY <2>2, <2>5 DEF Counts
  <2> QED
    BY <1>7, <2>5, <2>6
<1>10. longest \in BoundedSeq(Payloads, M)
  <2>1. longest \in Seq(Payloads) /\ Len(longest) <= M
    BY <1>1, <1>3, <1>8
  <2> QED
    BY <1>1, <2>1, BoundedSeqFacts
<1> DEFINE frames == Frames[s]
<1>11. frames = CHOOSE x \in BoundedSeq(Payloads, M) : IsPrefix(Encoded(x), s) /\ Longest(x)
  BY DEF Frames, M
<1>12. frames \in BoundedSeq(Payloads, M) /\ IsPrefix(Encoded(frames), s) /\ Longest(frames)
  <2>1. IsPrefix(Encoded(longest), s)
    BY <1>8
  <2> HIDE DEF Longest, frames
  <2> QED
    BY <1>9, <1>10, <1>11, <2>1
<1> HIDE DEF frames
<1>13. frames \in Seq(Payloads)
  BY <1>1, <1>12, BoundedSeqFacts
<1>14. \A k \in 1 .. Len(frames) : FrameAt(s, End(frames, k - 1), frames[k])
  BY <1>2, <1>12, <1>13, PrefixHasFrames
<1>15. \A k \in 0 .. Len(frames) : End(frames, k) <= Len(s)
  BY <1>2, <1>12, <1>13, PrefixOfEach
<1>16. ASSUME NEW p \in Payloads, FrameAt(s, End(frames, Len(frames)), p) PROVE FALSE
  <2>1. IsPrefix(Encoded(Append(frames, p)), s)
    BY <1>2, <1>12, <1>13, <1>16, LongerPrefix
  <2> QED
    BY <1>12, <2>1
<1>17. Layout(s, frames)
  BY <1>2, <1>13, <1>14, <1>15, <1>16 DEF Layout
<1>18. LeftOver(s) = Slice(s, End(frames, Len(frames)), Len(s))
  BY DEF LeftOver, Slice, End, Encoded, frames
<1> QED
  BY <1>17, <1>18 DEF frames

\* The good frames at the head: as far as all are good, and the next is not.
GoodHead(decoder, frames, m) ==
  /\ m \in 0 .. Len(frames) /\ \A k \in 1 .. m : Good(decoder, frames[k])
  /\ m < Len(frames) => ~Good(decoder, frames[m + 1])

\* The good frames at the head exist, and are as many in one way only.
LEMMA SoundFacts ==
  ASSUME NEW decoder, NEW frames \in Seq(Payloads)
  PROVE  /\ GoodHead(decoder, frames, Sound(decoder, frames))
         /\ \A m : GoodHead(decoder, frames, m) => m = Sound(decoder, frames)
<1> DEFINE n == Len(frames)
           Bad == {k \in 1 .. n : ~Good(decoder, frames[k])}
<1>1. n \in Nat
  OBVIOUS
<1>2. \E m \in 0 .. n : GoodHead(decoder, frames, m)
  <2>1. CASE Bad = {}
    <3>1. n \in 0 .. n /\ ~(n < n)
      BY <1>1
    <3>2. GoodHead(decoder, frames, n)
      BY <2>1, <3>1 DEF GoodHead
    <3> QED
      BY <3>1, <3>2
  <2>2. CASE Bad # {}
    <3>1. Bad \in SUBSET Nat
      OBVIOUS
    <3> HIDE DEF Bad
    <3> DEFINE c == Min(Bad)
    <3>2. c \in Bad /\ \A y \in Bad : c <= y
      BY <2>2, <3>1, LeastNatural
    <3> HIDE DEF c
    <3>3. c \in 1 .. n /\ ~Good(decoder, frames[c]) /\ \A y \in 1 .. n : ~Good(decoder, frames[y]) => c <= y
      BY <3>2 DEF Bad
    <3>4. c - 1 \in 0 .. n /\ (c - 1) + 1 = c /\ \A y \in 1 .. c - 1 : y \in 1 .. n /\ ~(c <= y)
      BY <1>1, <3>3
    <3>5. GoodHead(decoder, frames, c - 1)
      BY <3>3, <3>4 DEF GoodHead
    <3> QED
      BY <3>4, <3>5
  <2> QED
    BY <2>1, <2>2
<1>3. Sound(decoder, frames) = CHOOSE m \in 0 .. n : GoodHead(decoder, frames, m)
  <2>1. \A m \in 0 .. n :
          GoodHead(decoder, frames, m) <=>
            /\ \A k \in 1 .. m : Good(decoder, frames[k])
            /\ m < n => ~Good(decoder, frames[m + 1])
    BY DEF GoodHead
  <2> QED
    BY <2>1 DEF Sound
<1>4. GoodHead(decoder, frames, Sound(decoder, frames))
  BY <1>2, <1>3
<1>5. ASSUME NEW m, NEW l, GoodHead(decoder, frames, m), GoodHead(decoder, frames, l), m < l PROVE FALSE
  <2>1. m + 1 \in 1 .. l /\ m < n
    BY <1>1, <1>5 DEF GoodHead
  <2> QED
    BY <1>5, <2>1 DEF GoodHead
<1>6. ASSUME NEW m, GoodHead(decoder, frames, m) PROVE m = Sound(decoder, frames)
  <2>1. m \in Nat /\ Sound(decoder, frames) \in Nat
    BY <1>4, <1>6 DEF GoodHead
  <2>2. ~(m < Sound(decoder, frames)) /\ ~(Sound(decoder, frames) < m)
    BY <1>4, <1>5, <1>6
  <2> QED
    BY <2>1, <2>2
<1> QED
  BY <1>4, <1>6
-----------------------------------------------------------------------------
(* A push                                                                  *)

\* What a decoder makes of the payloads.
Msgs(decoder) == {decoder[p] : p \in Payloads}

\* What the frames say, one message for each.
LEMMA ParsedFacts ==
  ASSUME NEW decoder, NEW frames \in Seq(Payloads)
  PROVE  /\ Parsed(decoder, frames) \in Seq(Msgs(decoder)) /\ Len(Parsed(decoder, frames)) = Len(frames)
         /\ \A k \in 1 .. Len(frames) : Parsed(decoder, frames)[k] = decoder[frames[k]]
<1>1. DOMAIN frames = 1 .. Len(frames) /\ Len(frames) \in Nat /\ \A k \in 1 .. Len(frames) : frames[k] \in Payloads
  OBVIOUS
<1>2. \A k \in 1 .. Len(frames) : decoder[frames[k]] \in Msgs(decoder)
  BY <1>1 DEF Msgs
<1>3. Parsed(decoder, frames) = [k \in 1 .. Len(frames) |-> decoder[frames[k]]]
  BY <1>1 DEF Parsed
<1> QED
  BY <1>1, <1>2, <1>3

\* A stretch and the element after it.
LEMMA SliceAppend ==
  ASSUME NEW S, NEW s \in Seq(S), NEW a \in Nat, NEW b \in Nat, a <= b, b < Len(s)
  PROVE  Append(Slice(s, a, b), s[b + 1]) = Slice(s, a, b + 1)
<1> DEFINE t == Slice(s, a, b)
           u == Slice(s, a, b + 1)
           v == Append(t, s[b + 1])
<1>1. /\ b + 1 \in Nat /\ a <= b + 1 /\ b + 1 <= Len(s) /\ b <= Len(s) /\ (b + 1) - a = (b - a) + 1
      /\ a + ((b - a) + 1) = b + 1 /\ s[b + 1] \in S
  OBVIOUS
<1>2. t \in Seq(S) /\ Len(t) = b - a /\ \A k \in 1 .. b - a : t[k] = s[a + k]
  <2>1. IsSlice(t, S, s, a, b)
    BY <1>1, SliceFacts
  <2> QED
    BY <2>1 DEF IsSlice
<1>3. u \in Seq(S) /\ Len(u) = (b - a) + 1 /\ \A k \in 1 .. (b - a) + 1 : u[k] = s[a + k]
  <2>1. IsSlice(u, S, s, a, b + 1)
    BY <1>1, SliceFacts
  <2> QED
    BY <1>1, <2>1 DEF IsSlice
<1> HIDE DEF t, u
<1>4. v \in Seq(S) /\ Len(v) = (b - a) + 1 /\ v[(b - a) + 1] = s[b + 1] /\ \A k \in 1 .. b - a : v[k] = t[k]
  <2>1. Len(t) = b - a /\ b - a \in Nat
    BY <1>2
  <2> QED
    BY <1>1, <1>2, <2>1
<1> HIDE DEF v
<1>5. ASSUME NEW k \in 1 .. (b - a) + 1 PROVE v[k] = u[k]
  <2>1. CASE k = (b - a) + 1
    BY <1>1, <1>3, <1>4, <2>1
  <2>2. CASE k # (b - a) + 1
    <3>1. k \in 1 .. b - a
      BY <2>2
    <3> QED
      BY <1>2, <1>3, <1>4, <3>1
  <2> QED
    BY <2>1, <2>2
<1>6. v = u
  BY <1>3, <1>4, <1>5, SameSequence
<1> QED
  BY <1>6 DEF v, u, t

\* A stretch that ends where it starts is empty.
LEMMA EmptySlice == ASSUME NEW S, NEW s \in Seq(S), NEW a \in Nat, a <= Len(s) PROVE Slice(s, a, a) = <<>>
<1>1. IsSlice(Slice(s, a, a), S, s, a, a)
  BY SliceFacts
<1>2. Slice(s, a, a) \in Seq(S) /\ Len(Slice(s, a, a)) = 0
  BY <1>1 DEF IsSlice
<1> QED
  BY <1>2

\* A whole frame in a buffer: its payload is one, and the rest is shorter.
LEMMA WholeFacts ==
  ASSUME NEW t \in Seq(Bytes), HasHeader(t), ~TooLarge(t), Whole(t)
  PROVE  /\ Payload(t) \in Payloads /\ Rest(t) \in Seq(Bytes) /\ Len(Rest(t)) + HeaderBytes <= Len(t)
<1> DEFINE n == FrameLength(t)
           h == HeaderBytes
<1>1. h \in Nat /\ h >= 1 /\ MaxFrame \in Nat
  BY HeaderFacts DEF HeaderLaws
<1>2. n \in Nat
  BY FrameLengthFacts DEF ReadsLength
<1>3. n <= MaxFrame /\ h + n <= Len(t) /\ Len(t) \in Nat
  BY <1>1, <1>2 DEF TooLarge, Whole
<1>4. Payload(t) = Slice(t, h, h + n) /\ Rest(t) = Slice(t, h + n, Len(t))
  BY DEF Payload, Rest, Slice
<1> HIDE DEF n, h
<1>5. h + n \in Nat /\ h <= h + n /\ (h + n) - h = n
  BY <1>1, <1>2
<1>6. Slice(t, h, h + n) \in Seq(Bytes) /\ Len(Slice(t, h, h + n)) = n
  <2>1. IsSlice(Slice(t, h, h + n), Bytes, t, h, h + n)
    BY <1>1, <1>3, <1>5, SliceFacts
  <2> QED
    BY <1>5, <2>1 DEF IsSlice
<1>7. Slice(t, h + n, Len(t)) \in Seq(Bytes) /\ Len(Slice(t, h + n, Len(t))) = Len(t) - (h + n)
  <2>1. IsSlice(Slice(t, h + n, Len(t)), Bytes, t, h + n, Len(t))
    BY <1>3, <1>5, SliceFacts
  <2> QED
    BY <2>1 DEF IsSlice
<1>8. Payload(t) \in Payloads
  BY <1>3, <1>4, <1>6, PayloadFacts
<1>9. Len(Rest(t)) + h <= Len(t)
  BY <1>1, <1>2, <1>3, <1>4, <1>7
<1> QED
  BY <1>4, <1>7, <1>8, <1>9 DEF h

Pushes == [buffer : Seq(Bytes), messages : Seq(Msgs(ClientDecoder)), threw : BOOLEAN]

\* A pass keeps the types of a push.
LEMMA PassType == ASSUME NEW v \in Pushes PROVE Pass(v) \in Pushes
<1> DEFINE t == v.buffer
<1>1. t \in Seq(Bytes) /\ v.messages \in Seq(Msgs(ClientDecoder)) /\ v.threw \in BOOLEAN
  BY DEF Pushes
<1>2. CASE v.threw \/ ~HasHeader(t)
  BY <1>2 DEF Pass
<1>3. CASE ~v.threw /\ HasHeader(t) /\ TooLarge(t)
  <2>1. Pass(v) = [v EXCEPT !.threw = TRUE]
    BY <1>3 DEF Pass
  <2> QED
    BY <2>1 DEF Pushes
<1>4. CASE ~v.threw /\ HasHeader(t) /\ ~TooLarge(t) /\ ~Whole(t)
  BY <1>4 DEF Pass
<1>5. CASE ~v.threw /\ HasHeader(t) /\ ~TooLarge(t) /\ Whole(t)
  <2>1. Payload(t) \in Payloads /\ Rest(t) \in Seq(Bytes)
    BY <1>1, <1>5, WholeFacts
  <2>2. ClientDecoder[Payload(t)] \in Msgs(ClientDecoder)
    BY <2>1 DEF Msgs
  <2> DEFINE m == ClientDecoder[Payload(t)]
             r == Rest(t)
  <2>3. Append(v.messages, m) \in Seq(Msgs(ClientDecoder))
    BY <1>1, <2>2
  <2>4. CASE Good(ClientDecoder, Payload(t))
    <3>1. Pass(v) = [buffer |-> r, threw |-> FALSE, messages |-> Append(v.messages, m)]
      BY <1>5, <2>4 DEF Pass
    <3> HIDE DEF m, r
    <3> QED
      BY <2>1, <2>3, <3>1 DEF Pushes, r
  <2>5. CASE ~Good(ClientDecoder, Payload(t))
    <3>1. Pass(v) = [v EXCEPT !.buffer = r, !.threw = TRUE]
      BY <1>5, <2>5 DEF Pass
    <3> HIDE DEF r
    <3>2. r \in Seq(Bytes)
      BY <2>1 DEF r
    <3> QED
      BY <3>1, <3>2 DEF Pushes
  <2> QED
    BY <2>4, <2>5
<1> QED
  BY <1>1, <1>2, <1>3, <1>4, <1>5

NewPush(buffer) == [buffer |-> buffer, messages |-> <<>>, threw |-> FALSE]

PassesFollow(buffer) ==
  /\ Passes(buffer)[0] = NewPush(buffer)
  /\ \A k \in 0 .. Len(buffer) : Passes(buffer)[k] \in Pushes
  /\ \A k \in 1 .. Len(buffer) : Passes(buffer)[k] = Pass(Passes(buffer)[k - 1])

\* The recursive function Passes has a solution, and follows its equations.
LEMMA PassesFacts ==
  ASSUME NEW buffer \in Seq(Bytes)
  PROVE  PassesFollow(buffer)
<1> DEFINE n == Len(buffer)
           first == NewPush(buffer)
           Body(g, k) == IF k = 0 THEN first ELSE Pass(g[k - 1])
           step == [v \in Pushes |-> [k \in 1 .. n |-> Pass(v)]]
           IsIt(g) == g = [k \in 0 .. n |-> Body(g, k)]
           after == CHOOSE g : IsIt(g)
<1>1. Passes(buffer) = after
  BY DEF Passes, NewPush
<1>2. n \in Nat /\ \A k \in 1 .. n : k - 1 \in 0 .. n /\ k \in 0 .. n /\ k # 0
  OBVIOUS
<1>3. first \in Pushes
  BY DEF NewPush, Pushes
<1> HIDE DEF n, first
<1>4. step \in StepsOver(Pushes, n)
  BY PassType DEF StepsOver
<1>5. \A v \in Pushes : \A k \in 1 .. n : step[v][k] = Pass(v)
  OBVIOUS
<1> HIDE DEF step
<1>6. PICK g \in [0 .. n -> Pushes] : Iterates(g, first, step, n)
  BY <1>2, <1>3, <1>4, IteratesExist
<1>7. \A k \in 1 .. n : g[k] = Pass(g[k - 1])
  BY <1>2, <1>5, <1>6 DEF Iterates
<1>8. IsIt(g)
  <2>1. ASSUME NEW k \in 0 .. n PROVE g[k] = Body(g, k)
    <3>1. CASE k = 0
      BY <1>6, <3>1 DEF Iterates
    <3>2. CASE k # 0
      <4>1. k \in 1 .. n
        BY <1>2, <3>2
      <4> QED
        BY <1>7, <3>2, <4>1
    <3> QED
      BY <3>1, <3>2
  <2>2. g = [k \in 0 .. n |-> g[k]]
    BY <1>6
  <2> HIDE DEF Body
  <2> QED
    BY <2>1, <2>2
<1> HIDE DEF IsIt
<1>9. IsIt(after)
  BY <1>8
<1> HIDE DEF after
<1>10. after[0] = first /\ \A k \in 1 .. n : after[k] = Pass(after[k - 1])
  <2>1. \A k \in 0 .. n : after[k] = Body(after, k)
    BY <1>9 DEF IsIt
  <2>2. 0 \in 0 .. n
    BY <1>2
  <2> QED
    BY <1>2, <2>1, <2>2
<1>11. \A k \in 0 .. n : after[k] \in Pushes
  <2>1. \A k \in 1 .. n : after[k - 1] \in Pushes => after[k] = step[after[k - 1]][k]
    BY <1>5, <1>10
  <2> QED
    BY <1>2, <1>3, <1>4, <1>10, <2>1, IteratesType
<1> QED
  BY <1>1, <1>10, <1>11 DEF PassesFollow, n, first

\* What the decoder makes of a stream from the end of its g-th frame: the next frame once it
\* is whole; after the last, none.
Looks(s, frames, g, b, t) ==
  /\ t \in Seq(Bytes) /\ Len(t) = b - End(frames, g)
  /\ g < Len(frames) =>
       /\ frames[g + 1] \in Payloads
       /\ HasHeader(t) => ~TooLarge(t)
       /\ HasHeader(t) /\ Whole(t) <=> End(frames, g + 1) <= b
       /\ HasHeader(t) /\ Whole(t) =>
            Payload(t) = frames[g + 1] /\ Rest(t) = Slice(s, End(frames, g + 1), b)
  /\ g = Len(frames) => ~(HasHeader(t) /\ ~TooLarge(t) /\ Whole(t))

\* The decoder sees the next frame just when all of it has come, and nothing after the last.
LEMMA LooksFacts ==
  ASSUME NEW s, NEW frames, Layout(s, frames), NEW g \in 0 .. Len(frames),
         NEW b \in Nat, End(frames, g) <= b, b <= Len(s)
  PROVE  Looks(s, frames, g, b, Slice(s, End(frames, g), b))
<1> DEFINE n == Len(frames)
           a == End(frames, g)
           t == Slice(s, a, b)
<1>1. s \in Seq(Bytes) /\ frames \in Seq(Payloads) /\ n \in Nat
  BY DEF Layout
<1>2. a \in Nat
  BY <1>1, EndFacts
<1>3. HeaderBytes \in Nat /\ HeaderBytes >= 1
  BY HeaderFacts DEF HeaderLaws
<1>4. t \in Seq(Bytes) /\ Len(t) = b - a /\ (HasHeader(t) <=> a + HeaderBytes <= b)
  BY <1>1, <1>2, SightFacts
<1>5. ASSUME g < n
      PROVE  /\ frames[g + 1] \in Payloads
             /\ HasHeader(t) => ~TooLarge(t)
             /\ HasHeader(t) /\ Whole(t) <=> End(frames, g + 1) <= b
             /\ HasHeader(t) /\ Whole(t) =>
                  Payload(t) = frames[g + 1] /\ Rest(t) = Slice(s, End(frames, g + 1), b)
  <2> DEFINE p == frames[g + 1]
             e == End(frames, g + 1)
  <2>1. g + 1 \in 1 .. n /\ (g + 1) - 1 = g
    BY <1>1, <1>5
  <2>2. p \in Payloads /\ Len(p) \in Nat /\ e = a + HeaderBytes + Len(p)
    <3>1. p \in Payloads /\ Len(p) \in Nat /\ e = End(frames, (g + 1) - 1) + HeaderBytes + Len(p)
      BY <1>1, <2>1, EndFacts
    <3> QED
      BY <2>1, <3>1
  <2>3. FrameAt(s, a, p)
    <3>1. FrameAt(s, End(frames, (g + 1) - 1), p)
      BY <2>1 DEF Layout
    <3> QED
      BY <2>1, <3>1
  <2> HIDE DEF p, e, a, t
  <2>4. e <= b => a + HeaderBytes <= b
    BY <1>2, <1>3, <2>2
  <2>5. ASSUME HasHeader(t)
        PROVE  ~TooLarge(t) /\ (Whole(t) <=> e <= b) /\ (Whole(t) => Payload(t) = p /\ Rest(t) = Slice(s, e, b))
    <3>1. HasHeader(Slice(s, a, b)) /\ a <= b
      BY <2>5 DEF t, a
    <3>2. /\ ~TooLarge(Slice(s, a, b)) /\ (Whole(Slice(s, a, b)) <=> a + HeaderBytes + Len(p) <= b)
          /\ Whole(Slice(s, a, b)) =>
               Payload(Slice(s, a, b)) = p /\ Rest(Slice(s, a, b)) = Slice(s, a + HeaderBytes + Len(p), b)
      BY <1>1, <1>2, <2>2, <2>3, <3>1, FrameSeen
    <3> QED
      BY <2>2, <3>2 DEF t
  <2>6. HasHeader(t) => ~TooLarge(t)
    BY <2>5
  <2>7. HasHeader(t) /\ Whole(t) <=> e <= b
    BY <1>4, <2>4, <2>5
  <2>8. HasHeader(t) /\ Whole(t) => Payload(t) = p /\ Rest(t) = Slice(s, e, b)
    BY <2>5
  <2> QED
    BY <2>2, <2>6, <2>7, <2>8 DEF p, e
<1>6. ASSUME g = n, HasHeader(t), ~TooLarge(t), Whole(t) PROVE FALSE
  <2>1. PICK p \in Payloads : FrameAt(s, a, p)
    BY <1>1, <1>2, <1>6, SeenIsFrame
  <2> QED
    BY <1>6, <2>1 DEF Layout
<1> QED
  BY <1>4, <1>5, <1>6 DEF Looks

\* The stretch from a to b begins with a header of no frame.
OverAt(s, a, b) == HasHeader(Slice(s, a, b)) /\ TooLarge(Slice(s, a, b))

\* What a push that began at the i-th frame has become: the good frames up to the g-th are
\* its messages, and it is after the j-th.
Pushed(s, frames, i, b, v, g, j) ==
  /\ v \in Pushes /\ g \in i .. Len(frames) /\ j \in g .. Len(frames)
  /\ \A k \in i + 1 .. g : Good(ClientDecoder, frames[k])
  /\ End(frames, j) <= b /\ v.buffer = Slice(s, End(frames, j), b)
  /\ v.messages = Slice(Parsed(ClientDecoder, frames), i, g)
  /\ ~v.threw => j = g
  /\ v.threw => \/ j = g + 1 /\ ~Good(ClientDecoder, frames[j])
                \/ j = g /\ g = Len(frames) /\ OverAt(s, End(frames, Len(frames)), b)

\* It has nothing to do: it threw, or what is left is no whole frame.
Stopped(v) == v.threw \/ ~HasHeader(v.buffer) \/ (~TooLarge(v.buffer) /\ ~Whole(v.buffer))

\* A pass keeps what a push has taken, and takes a byte at least unless it has nothing to do.
LEMMA PassStep ==
  ASSUME NEW s, NEW frames, Layout(s, frames), NEW b \in Nat, b <= Len(s),
         NEW i \in 0 .. Len(frames), NEW v, NEW g, NEW j, Pushed(s, frames, i, b, v, g, j)
  PROVE  /\ \E h, l : Pushed(s, frames, i, b, Pass(v), h, l)
         /\ Stopped(v) => Pass(v) = v
         /\ Stopped(Pass(v)) \/ Len(Pass(v).buffer) + 1 <= Len(v.buffer)
<1> DEFINE n == Len(frames)
           t == v.buffer
           w == Pass(v)
<1>0. frames \in Seq(Payloads) /\ n \in Nat
  BY DEF Layout
<1>1. v \in Pushes /\ w \in Pushes
  BY PassType DEF Pushed
<1>2. t \in Seq(Bytes) /\ v.threw \in BOOLEAN /\ w.buffer \in Seq(Bytes) /\ w.threw \in BOOLEAN
  BY <1>1 DEF Pushes
<1>3. CASE Stopped(v)
  <2>1. w = v
    BY <1>3 DEF Stopped, Pass
  <2>2. Pushed(s, frames, i, b, w, g, j)
    BY <2>1
  <2> HIDE DEF w
  <2> QED
    BY <1>3, <2>1, <2>2 DEF w
<1>4. ASSUME ~Stopped(v) PROVE ~v.threw /\ HasHeader(t) /\ (TooLarge(t) \/ Whole(t))
  BY <1>4 DEF Stopped
<1>5. ASSUME ~Stopped(v)
      PROVE  /\ g = j /\ g \in i .. n /\ g \in 0 .. n /\ g \in Nat /\ Looks(s, frames, g, b, t)
             /\ t = Slice(s, End(frames, g), b) /\ End(frames, g) <= b
  <2>1. g = j /\ g \in i .. n /\ g \in 0 .. n /\ g \in Nat /\ End(frames, g) <= b /\ t = Slice(s, End(frames, g), b)
    <3>1. n \in Nat
      BY DEF Layout
    <3> QED
      BY <1>4, <1>5, <3>1 DEF Pushed
  <2> HIDE DEF t
  <2>2. Looks(s, frames, g, b, Slice(s, End(frames, g), b))
    BY <2>1, LooksFacts
  <2> QED
    BY <2>1, <2>2
<1>6. CASE ~Stopped(v) /\ TooLarge(t)
  <2>1. w = [v EXCEPT !.threw = TRUE]
    BY <1>4, <1>6 DEF Pass
  <2>2. w.threw = TRUE /\ w.buffer = t /\ w.messages = v.messages
    BY <1>1, <2>1 DEF Pushes
  <2>3. g = n
    <3>1. ~(g < n)
      BY <1>4, <1>5, <1>6 DEF Looks
    <3> QED
      BY <1>0, <1>5, <1>6, <3>1
  <2>4. OverAt(s, End(frames, n), b)
    BY <1>4, <1>5, <1>6, <2>3 DEF OverAt
  <2> HIDE DEF w
  <2>5. Pushed(s, frames, i, b, w, g, j)
    <3>1. w \in Pushes
      BY <1>1 DEF w
    <3>2. j = g /\ g = n
      BY <1>5, <1>6, <2>3
    <3> QED
      BY <2>2, <2>4, <3>1, <3>2 DEF Pushed
  <2>6. Stopped(w)
    BY <2>2 DEF Stopped
  <2> QED
    BY <1>6, <2>5, <2>6 DEF w
<1>7. CASE ~Stopped(v) /\ ~TooLarge(t)
  <2> DEFINE p == frames[g + 1]
             m == ClientDecoder[p]
  <2>1. g < n /\ g # n
    <3>1. g # n
      BY <1>4, <1>5, <1>7 DEF Looks
    <3> QED
      BY <1>0, <1>5, <1>7, <3>1
  <2>2. Payload(t) = p /\ Rest(t) = Slice(s, End(frames, g + 1), b) /\ End(frames, g + 1) <= b
    BY <1>4, <1>5, <1>7, <2>1 DEF Looks
  <2>3. g + 1 \in i .. n /\ g + 1 \in g .. n /\ i \in Nat /\ n \in Nat /\ i <= g
    BY <1>5, <1>7, <2>1 DEF Layout
  <2>4. Len(Rest(t)) + 1 <= Len(t)
    <3>1. Rest(t) \in Seq(Bytes) /\ Len(Rest(t)) + HeaderBytes <= Len(t)
      BY <1>2, <1>4, <1>7, WholeFacts
    <3>2. HeaderBytes \in Nat /\ HeaderBytes >= 1
      BY HeaderFacts DEF HeaderLaws
    <3>3. Len(Rest(t)) \in Nat /\ Len(t) \in Nat
      BY <1>2, <3>1
    <3> QED
      BY <3>1, <3>2, <3>3
  <2>5. v.messages = Slice(Parsed(ClientDecoder, frames), i, g) /\ \A k \in i + 1 .. g : Good(ClientDecoder, frames[k])
    BY DEF Pushed
  <2>6. CASE Good(ClientDecoder, p)
    <3>1. w = [buffer |-> Rest(t), threw |-> FALSE, messages |-> Append(v.messages, m)]
      BY <1>4, <1>7, <2>2, <2>6 DEF Pass
    <3>2. Append(v.messages, m) = Slice(Parsed(ClientDecoder, frames), i, g + 1)
      <4>1. Parsed(ClientDecoder, frames) \in Seq(Msgs(ClientDecoder)) /\ Len(Parsed(ClientDecoder, frames)) = n /\ Parsed(ClientDecoder, frames)[g + 1] = m
        <5>1. g + 1 \in 1 .. n
          BY <1>5, <1>7, <2>3
        <5> QED
          BY <1>0, <5>1, ParsedFacts
      <4>2. Append(Slice(Parsed(ClientDecoder, frames), i, g), Parsed(ClientDecoder, frames)[g + 1]) = Slice(Parsed(ClientDecoder, frames), i, g + 1)
        BY <1>5, <1>7, <2>1, <2>3, <4>1, SliceAppend
      <4> QED
        BY <2>5, <4>1, <4>2
    <3>3. w.buffer = Rest(t) /\ w.threw = FALSE /\ w.messages = Slice(Parsed(ClientDecoder, frames), i, g + 1)
      BY <3>1, <3>2
    <3>4. \A k \in i + 1 .. g + 1 : Good(ClientDecoder, frames[k])
      <4>1. \A k \in i + 1 .. g + 1 : k \in i + 1 .. g \/ k = g + 1
        BY <1>5, <1>7, <2>3
      <4> QED
        BY <2>5, <2>6, <4>1
    <3>5. w \in Pushes
      BY <1>1
    <3> HIDE DEF w
    <3>6. Pushed(s, frames, i, b, w, g + 1, g + 1)
      <4>1. g + 1 \in g + 1 .. n
        BY <2>3
      <4> QED
        BY <2>2, <2>3, <3>3, <3>4, <3>5, <4>1 DEF Pushed
    <3> QED
      BY <1>7, <2>4, <3>3, <3>6 DEF w
  <2>7. CASE ~Good(ClientDecoder, p)
    <3>1. w = [v EXCEPT !.buffer = Rest(t), !.threw = TRUE]
      BY <1>4, <1>7, <2>2, <2>7 DEF Pass
    <3>2. w.buffer = Rest(t) /\ w.threw = TRUE /\ w.messages = v.messages
      BY <1>1, <3>1 DEF Pushes
    <3>3. w \in Pushes
      BY <1>1
    <3> HIDE DEF w
    <3>4. Pushed(s, frames, i, b, w, g, g + 1)
      BY <1>5, <1>7, <2>2, <2>3, <2>5, <2>7, <3>2, <3>3 DEF Pushed
    <3>5. Stopped(w)
      BY <3>2 DEF Stopped
    <3> QED
      BY <1>7, <3>4, <3>5 DEF w
  <2> QED
    BY <2>6, <2>7
<1> QED
  BY <1>3, <1>6, <1>7

\* No frame more is whole, and none over the limit has begun.
AsFar(s, frames, b, j) ==
  /\ j < Len(frames) => b < End(frames, j + 1)
  /\ j = Len(frames) => ~OverAt(s, End(frames, Len(frames)), b)

\* A push that has nothing to do, and did not throw, took all that has come.
LEMMA StoppedFacts ==
  ASSUME NEW s, NEW frames, Layout(s, frames), NEW b \in Nat, b <= Len(s), NEW i \in 0 .. Len(frames),
         NEW v, NEW g, NEW j, Pushed(s, frames, i, b, v, g, j), Stopped(v), ~v.threw
  PROVE  AsFar(s, frames, b, j)
<1> DEFINE t == v.buffer
<1>1. /\ frames \in Seq(Payloads) /\ Len(frames) \in Nat /\ s \in Seq(Bytes)
      /\ j \in i .. Len(frames) /\ j \in 0 .. Len(frames) /\ End(frames, j) <= b /\ t = Slice(s, End(frames, j), b)
  <2>1. Len(frames) \in Nat
    BY DEF Layout
  <2> QED
    BY <2>1 DEF Pushed, Layout
<1>2. ~(HasHeader(t) /\ (TooLarge(t) \/ Whole(t)))
  BY DEF Stopped
<1>3. Looks(s, frames, j, b, t)
  <2>1. Looks(s, frames, j, b, Slice(s, End(frames, j), b))
    BY <1>1, LooksFacts
  <2> QED
    BY <1>1, <2>1
<1> HIDE DEF t
<1>4. ASSUME j < Len(frames) PROVE b < End(frames, j + 1)
  <2>1. ~(End(frames, j + 1) <= b)
    BY <1>2, <1>3, <1>4 DEF Looks
  <2>2. j + 1 \in 0 .. Len(frames)
    BY <1>1, <1>4
  <2>3. End(frames, j + 1) \in Nat
    BY <1>1, <2>2, EndFacts
  <2> QED
    BY <2>1, <2>3
<1>5. ASSUME j = Len(frames) PROVE ~OverAt(s, End(frames, Len(frames)), b)
  BY <1>1, <1>2, <1>5 DEF OverAt
<1> QED
  BY <1>4, <1>5 DEF AsFar

\* A push takes every whole frame up to the first that is no envelope.
LEMMA PushFacts ==
  ASSUME NEW s, NEW frames, Layout(s, frames), NEW b \in Nat, b <= Len(s),
         NEW i \in 0 .. Len(frames), End(frames, i) <= b
  PROVE  /\ Push(Slice(s, End(frames, i), b)) \in Pushes
         /\ \E g, j : /\ Pushed(s, frames, i, b, Push(Slice(s, End(frames, i), b)), g, j)
                      /\ ~Push(Slice(s, End(frames, i), b)).threw => AsFar(s, frames, b, j)
<1> DEFINE n == Len(frames)
           t == Slice(s, End(frames, i), b)
           after == Passes(t)
           m == Len(t)
           Going(k) == /\ \E g, j : Pushed(s, frames, i, b, after[k], g, j)
                       /\ Stopped(after[k]) \/ Len(after[k].buffer) + k <= m
           P == {k \in 0 .. m : Going(k)}
<1>1. s \in Seq(Bytes) /\ frames \in Seq(Payloads) /\ n \in Nat /\ i \in Nat /\ End(frames, i) \in Nat
  <2>1. s \in Seq(Bytes) /\ frames \in Seq(Payloads) /\ n \in Nat /\ i \in Nat
    BY DEF Layout
  <2> QED
    BY <2>1, EndFacts
<1>2. t \in Seq(Bytes)
  <2>1. IsSlice(t, Bytes, s, End(frames, i), b)
    BY <1>1, SliceFacts
  <2> QED
    BY <2>1 DEF IsSlice
<1> HIDE DEF t
<1>3. PassesFollow(t)
  BY <1>2, PassesFacts
<1>4. /\ m \in Nat /\ after[0] = NewPush(t) /\ \A k \in 0 .. m : after[k] \in Pushes
      /\ \A k \in 1 .. m : after[k] = Pass(after[k - 1])
  BY <1>2, <1>3 DEF PassesFollow
<1> HIDE DEF after
<1>5. \A k \in 0 .. m : after[k].buffer \in Seq(Bytes) /\ Len(after[k].buffer) \in Nat
  BY <1>4 DEF Pushes
<1> HIDE DEF m
<1>6. 0 \in P
  <2> DEFINE v == after[0]
  <2>1. v = NewPush(t) /\ v \in Pushes
    BY <1>4
  <2>2. v.buffer = t /\ v.messages = <<>> /\ v.threw = FALSE
    BY <2>1 DEF NewPush
  <2>3. Slice(Parsed(ClientDecoder, frames), i, i) = <<>>
    <3>1. Parsed(ClientDecoder, frames) \in Seq(Msgs(ClientDecoder)) /\ i <= Len(Parsed(ClientDecoder, frames))
      BY <1>1, ParsedFacts
    <3> QED
      BY <1>1, <3>1, EmptySlice
  <2>4. i \in i .. n /\ \A k \in i + 1 .. i : FALSE
    BY <1>1
  <2> HIDE DEF v
  <2>5. Pushed(s, frames, i, b, v, i, i)
    BY <2>1, <2>2, <2>3, <2>4 DEF Pushed, t
  <2>6. Len(v.buffer) + 0 <= m
    BY <1>4, <2>2 DEF m
  <2>7. Going(0)
    BY <2>5, <2>6 DEF v
  <2> HIDE DEF Going
  <2> QED
    BY <1>4, <2>7
<1>7. ASSUME NEW k \in 1 .. m, k - 1 \in P PROVE k \in P
  <2> DEFINE v == after[k - 1]
             w == Pass(v)
  <2>1. k \in 0 .. m /\ k - 1 \in 0 .. m /\ k \in Nat
    BY <1>4
  <2>2. after[k] = w
    BY <1>4
  <2>3. PICK g, j : Pushed(s, frames, i, b, v, g, j)
    BY <1>7
  <2>4. Stopped(v) \/ Len(v.buffer) + (k - 1) <= m
    BY <1>7
  <2>5. Len(v.buffer) \in Nat /\ Len(w.buffer) \in Nat
    BY <1>5, <2>1, <2>2
  <2> HIDE DEF v
  <2>6. /\ \E h, l : Pushed(s, frames, i, b, w, h, l)
        /\ Stopped(v) => w = v
        /\ Stopped(w) \/ Len(w.buffer) + 1 <= Len(v.buffer)
    BY <2>3, PassStep
  <2> HIDE DEF w
  <2>7. Stopped(w) \/ Len(w.buffer) + k <= m
    <3>1. CASE Stopped(v)
      BY <2>6, <3>1
    <3>2. CASE ~Stopped(v)
      <4> DEFINE c == Len(v.buffer)
                 d == Len(w.buffer)
      <4>1. c + (k - 1) <= m /\ (Stopped(w) \/ d + 1 <= c)
        BY <2>4, <2>6, <3>2
      <4>2. c \in Nat /\ d \in Nat /\ k \in Nat /\ m \in Nat
        BY <1>4, <2>1, <2>5
      <4> HIDE DEF c, d
      <4>3. Stopped(w) \/ d + k <= m
        BY ONLY <4>1, <4>2
      <4> QED
        BY <4>3 DEF d
    <3> QED
      BY <3>1, <3>2
  <2>8. Going(k)
    BY <2>2, <2>6, <2>7
  <2> HIDE DEF Going
  <2> QED
    BY <2>1, <2>8
<1> HIDE DEF P
<1>8. m \in P
  <2>1. \A k \in 1 .. m : k - 1 \in P => k \in P
    BY <1>7
  <2>2. \A k \in 0 .. m : k \in P
    BY <1>4, <1>6, <2>1, CountUp
  <2> QED
    BY <1>4, <2>2
<1> DEFINE v == after[m]
<1>9. Push(t) = v
  BY DEF Push, after, m
<1>10. PICK g, j : Pushed(s, frames, i, b, v, g, j)
  BY <1>8 DEF P
<1>11. Stopped(v) \/ Len(v.buffer) + m <= m
  BY <1>8 DEF P
<1>12. v \in Pushes /\ Len(v.buffer) \in Nat
  BY <1>4, <1>5
<1> HIDE DEF v
<1>13. Stopped(v)
  <2>1. ASSUME Len(v.buffer) + m <= m PROVE ~HasHeader(v.buffer)
    <3>1. HeaderBytes \in Nat /\ HeaderBytes >= 1
      BY HeaderFacts DEF HeaderLaws
    <3> QED
      BY <1>4, <1>12, <2>1, <3>1 DEF HasHeader
  <2> QED
    BY <1>11, <2>1 DEF Stopped
<1>14. ~v.threw => AsFar(s, frames, b, j)
  BY <1>10, <1>13, StoppedFacts
<1>15. Push(t) \in Pushes /\ \E h, l : Pushed(s, frames, i, b, Push(t), h, l) /\ (~Push(t).threw => AsFar(s, frames, b, l))
  BY <1>9, <1>10, <1>12, <1>14
<1> QED
  BY <1>15 DEF t
-----------------------------------------------------------------------------
(* The chunks                                                              *)

\* A stretch is a sequence, the empty one when it ends before it starts.
LEMMA AnySlice ==
  ASSUME NEW S, NEW s \in Seq(S), NEW a \in Nat, NEW b \in 0 .. Len(s)
  PROVE  Slice(s, a, b) \in Seq(S)
<1>1. b \in Nat /\ b <= Len(s)
  OBVIOUS
<1>2. CASE a <= b
  <2>1. IsSlice(Slice(s, a, b), S, s, a, b)
    BY <1>1, <1>2, SliceFacts
  <2> QED
    BY <2>1 DEF IsSlice
<1>3. CASE b < a
  <2>1. Slice(s, a, b) = <<>>
    BY <1>1, <1>3 DEF Slice
  <2> QED
    BY <2>1
<1> QED
  BY <1>1, <1>2, <1>3

\* A push has the type of its passes.
LEMMA PushType == ASSUME NEW buffer \in Seq(Bytes) PROVE Push(buffer) \in Pushes
<1>1. PassesFollow(buffer)
  BY PassesFacts
<1>2. Len(buffer) \in 0 .. Len(buffer)
  OBVIOUS
<1> QED
  BY <1>1, <1>2 DEF PassesFollow, Push

Links == [buffer : Seq(Bytes), closed : BOOLEAN, received : Seq(Msgs(ClientDecoder))]

\* What Data makes of a link, given the push.
IsData(next, link, push) ==
  /\ next \in Links
  /\ next.buffer = push.buffer /\ next.closed = (link.closed \/ push.threw)
  /\ push.threw => next.received = link.received
  /\ ~push.threw => next.received = link.received \o push.messages

\* What the data handler does, by whether the push throws.
LEMMA DataFacts ==
  ASSUME NEW link \in Links, NEW chunk \in Seq(Bytes)
  PROVE  IsData(Data(link, chunk), link, Push(link.buffer \o chunk))
<1> DEFINE push == Push(link.buffer \o chunk)
           more == IF push.threw THEN <<>> ELSE push.messages
           next == Data(link, chunk)
<1>1. link.buffer \in Seq(Bytes) /\ link.closed \in BOOLEAN /\ link.received \in Seq(Msgs(ClientDecoder))
  BY DEF Links
<1>2. push \in Pushes
  <2>1. link.buffer \o chunk \in Seq(Bytes)
    BY <1>1
  <2> QED
    BY <2>1, PushType
<1>3. next = [buffer |-> push.buffer, closed |-> link.closed \/ push.threw, received |-> link.received \o more]
  BY DEF Data
<1> HIDE DEF push
<1>4. push.buffer \in Seq(Bytes) /\ push.threw \in BOOLEAN /\ push.messages \in Seq(Msgs(ClientDecoder))
  BY <1>2 DEF Pushes
<1>5. more \in Seq(Msgs(ClientDecoder)) /\ (~push.threw => more = push.messages) /\ (push.threw => more = <<>>)
  BY <1>4
<1> HIDE DEF more
<1>6. link.received \o more \in Seq(Msgs(ClientDecoder)) /\ (push.threw => link.received \o more = link.received)
  <2>1. link.received \o <<>> = link.received
    BY <1>1
  <2>2. link.received \o more \in Seq(Msgs(ClientDecoder))
    BY <1>1, <1>5
  <2> QED
    BY <1>5, <2>1, <2>2
<1>7. (link.closed \/ push.threw) \in BOOLEAN
  OBVIOUS
<1>8. /\ next.buffer = push.buffer /\ next.closed = (link.closed \/ push.threw)
      /\ next.received = link.received \o more
  BY <1>3
<1>9. next \in Links
  BY <1>3, <1>4, <1>6, <1>7 DEF Links
<1> HIDE DEF next
<1> QED
  BY <1>5, <1>6, <1>8, <1>9 DEF IsData, push, next

Reached == [link : Links, read : Nat]
Cut(v, s, k) == [link |-> Data(v.link, SubSeq(s, v.read + 1, k)), read |-> k]

DeliveriesFollow(s, cuts) ==
  LET after == Deliveries(s, cuts)
  IN  /\ after[0] = [link |-> NewLink, read |-> 0]
      /\ \A k \in 0 .. Len(s) : after[k] \in Reached
      /\ \A k \in 1 .. Len(s) : /\ k \in cuts => after[k] = Cut(after[k - 1], s, k)
                                /\ k \notin cuts => after[k] = after[k - 1]

\* The recursive function Deliveries has a solution, and follows its equations.
LEMMA DeliveriesFacts ==
  ASSUME NEW s \in Seq(Bytes), NEW cuts
  PROVE  DeliveriesFollow(s, cuts)
<1> DEFINE n == Len(s)
           first == [link |-> NewLink, read |-> 0]
           Body(g, k) == IF k = 0 THEN first ELSE IF k \in cuts THEN Cut(g[k - 1], s, k) ELSE g[k - 1]
           step == [v \in Reached |-> [k \in 1 .. n |-> IF k \in cuts THEN Cut(v, s, k) ELSE v]]
           IsIt(g) == g = [k \in 0 .. n |-> Body(g, k)]
           after == CHOOSE g : IsIt(g)
<1>1. Deliveries(s, cuts) = after
  BY DEF Deliveries, Cut
<1>2. n \in Nat /\ \A k \in 1 .. n : k - 1 \in 0 .. n /\ k \in 0 .. n /\ k # 0
  OBVIOUS
<1>3. first \in Reached
  <2>1. <<>> \in Seq(Bytes) /\ <<>> \in Seq(Msgs(ClientDecoder)) /\ FALSE \in BOOLEAN
    OBVIOUS
  <2>2. NewLink \in Links
    BY <2>1 DEF NewLink, Links
  <2> QED
    BY <2>2 DEF Reached
<1>4. ASSUME NEW v \in Reached, NEW k \in 1 .. n PROVE Cut(v, s, k) \in Reached
  <2>1. v.link \in Links /\ v.read \in Nat /\ k \in 0 .. Len(s) /\ k \in Nat
    BY <1>2 DEF Reached
  <2>2. Slice(s, v.read, k) \in Seq(Bytes)
    BY <2>1, AnySlice
  <2> DEFINE next == Data(v.link, SubSeq(s, v.read + 1, k))
  <2>3. next \in Links
    <3>1. IsData(Data(v.link, Slice(s, v.read, k)), v.link, Push(v.link.buffer \o Slice(s, v.read, k)))
      BY <2>1, <2>2, DataFacts
    <3> QED
      BY <3>1 DEF IsData, Slice
  <2> HIDE DEF next
  <2>4. [link |-> next, read |-> k] \in Reached
    BY <2>1, <2>3 DEF Reached
  <2> QED
    BY <2>4 DEF Cut, next
<1> HIDE DEF n, first
<1>5. step \in StepsOver(Reached, n)
  BY <1>4 DEF StepsOver
<1>6. \A v \in Reached : \A k \in 1 .. n : step[v][k] = IF k \in cuts THEN Cut(v, s, k) ELSE v
  OBVIOUS
<1> HIDE DEF step
<1>7. PICK g \in [0 .. n -> Reached] : Iterates(g, first, step, n)
  BY <1>2, <1>3, <1>5, IteratesExist
<1>8. \A k \in 1 .. n : g[k] = IF k \in cuts THEN Cut(g[k - 1], s, k) ELSE g[k - 1]
  BY <1>2, <1>6, <1>7 DEF Iterates
<1>9. IsIt(g)
  <2>1. ASSUME NEW k \in 0 .. n PROVE g[k] = Body(g, k)
    <3>1. CASE k = 0
      BY <1>7, <3>1 DEF Iterates
    <3>2. CASE k # 0
      <4>1. k \in 1 .. n
        BY <1>2, <3>2
      <4> QED
        BY <1>8, <3>2, <4>1
    <3> QED
      BY <3>1, <3>2
  <2>2. g = [k \in 0 .. n |-> g[k]]
    BY <1>7
  <2> HIDE DEF Body
  <2> QED
    BY <2>1, <2>2
<1> HIDE DEF IsIt
<1>10. IsIt(after)
  BY <1>9
<1> HIDE DEF after
<1>11. /\ after[0] = first
       /\ \A k \in 1 .. n : after[k] = IF k \in cuts THEN Cut(after[k - 1], s, k) ELSE after[k - 1]
  <2>1. \A k \in 0 .. n : after[k] = Body(after, k)
    BY <1>10 DEF IsIt
  <2>2. 0 \in 0 .. n
    BY <1>2
  <2> QED
    BY <1>2, <2>1, <2>2
<1>12. \A k \in 0 .. n : after[k] \in Reached
  <2>1. \A k \in 1 .. n : after[k - 1] \in Reached => after[k] = step[after[k - 1]][k]
    BY <1>6, <1>11
  <2> QED
    BY <1>2, <1>3, <1>5, <1>11, <2>1, IteratesType
<1>13. \A k \in 1 .. n : /\ k \in cuts => after[k] = Cut(after[k - 1], s, k)
                         /\ k \notin cuts => after[k] = after[k - 1]
  BY <1>11
<1> QED
  BY <1>1, <1>11, <1>12, <1>13 DEF DeliveriesFollow, n, first

\* Each message is one of the first j frames, each taken once, and in their order.
Arrived(messages, frames, j) ==
  \E from \in [1 .. Len(messages) -> 1 .. j] :
    /\ \A k \in 1 .. Len(messages) :
         Good(ClientDecoder, frames[from[k]]) /\ messages[k] = Parsed(ClientDecoder, frames)[from[k]]
    /\ \A k, l \in 1 .. Len(messages) : k < l => from[k] < from[l]

\* The messages of the next good frames may follow those that arrived.
LEMMA ArrivedMore ==
  ASSUME NEW frames \in Seq(Payloads), NEW j \in 0 .. Len(frames), NEW g \in j .. Len(frames),
         NEW received \in Seq(Msgs(ClientDecoder)), Arrived(received, frames, j),
         \A k \in j + 1 .. g : Good(ClientDecoder, frames[k])
  PROVE  Arrived(received \o Slice(Parsed(ClientDecoder, frames), j, g), frames, g)
<1> DEFINE n == Len(frames)
           c == Len(received)
           new == Slice(Parsed(ClientDecoder, frames), j, g)
           both == received \o new
<1>1. /\ n \in Nat /\ j \in Nat /\ g \in Nat /\ j <= g /\ g <= n /\ c \in Nat /\ g - j \in Nat
  OBVIOUS
<1>2. Parsed(ClientDecoder, frames) \in Seq(Msgs(ClientDecoder)) /\ Len(Parsed(ClientDecoder, frames)) = n
  BY ParsedFacts
<1>3. new \in Seq(Msgs(ClientDecoder)) /\ Len(new) = g - j /\ \A k \in 1 .. g - j : new[k] = Parsed(ClientDecoder, frames)[j + k]
  <2>1. IsSlice(new, Msgs(ClientDecoder), Parsed(ClientDecoder, frames), j, g)
    BY <1>1, <1>2, SliceFacts
  <2> QED
    BY <2>1 DEF IsSlice
<1> HIDE DEF new
<1>4. /\ both \in Seq(Msgs(ClientDecoder)) /\ Len(both) = c + Len(new)
      /\ \A k \in 1 .. c : both[k] = received[k]
      /\ \A k \in 1 .. Len(new) : both[c + k] = new[k]
  <2>1. received \in Seq(Msgs(ClientDecoder)) /\ new \in Seq(Msgs(ClientDecoder))
    BY <1>3
  <2> HIDE DEF Msgs
  <2> QED
    BY ONLY <2>1, ConcatFacts
<1> HIDE DEF both
<1>5. PICK from \in [1 .. c -> 1 .. j] :
        /\ \A k \in 1 .. c : Good(ClientDecoder, frames[from[k]]) /\ received[k] = Parsed(ClientDecoder, frames)[from[k]]
        /\ \A k, l \in 1 .. c : k < l => from[k] < from[l]
  BY DEF Arrived
<1> HIDE DEF c, n
<1> DEFINE d == c + (g - j)
           more == [k \in 1 .. d |-> IF k <= c THEN from[k] ELSE j + (k - c)]
<1>6. d \in Nat /\ Len(both) = d /\ c <= d
  BY <1>1, <1>3, <1>4
<1>7. ASSUME NEW k \in 1 .. d, k <= c PROVE k \in 1 .. c /\ more[k] = from[k] /\ more[k] \in 1 .. j
  <2>1. k \in 1 .. c
    BY <1>1, <1>7
  <2>2. more[k] = from[k]
    BY <1>7
  <2> QED
    BY <1>5, <2>1, <2>2
<1>8. ASSUME NEW k \in 1 .. d, ~(k <= c)
      PROVE  k - c \in 1 .. g - j /\ c + (k - c) = k /\ more[k] = j + (k - c) /\ more[k] \in j + 1 .. g
  <2>1. k - c \in 1 .. g - j /\ c + (k - c) = k /\ j + (k - c) \in j + 1 .. g
    BY <1>1, <1>6, <1>8
  <2>2. more[k] = j + (k - c)
    BY <1>8
  <2> QED
    BY <2>1, <2>2
<1>9. DOMAIN more = 1 .. d
  OBVIOUS
<1>10. more \in [1 .. d -> 1 .. g]
  <2>1. ASSUME NEW k \in 1 .. d PROVE more[k] \in 1 .. g
    <3>1. \A x \in 1 .. j : x \in 1 .. g
      BY <1>1
    <3>2. \A x \in j + 1 .. g : x \in 1 .. g
      BY <1>1
    <3> HIDE DEF more, d
    <3> QED
      BY <1>7, <1>8, <3>1, <3>2
  <2>2. more = [k \in 1 .. d |-> more[k]]
    OBVIOUS
  <2> HIDE DEF more, d
  <2> QED
    BY <2>1, <2>2
<1> HIDE DEF more, d
<1>11. ASSUME NEW k \in 1 .. d PROVE Good(ClientDecoder, frames[more[k]]) /\ both[k] = Parsed(ClientDecoder, frames)[more[k]]
  <2>1. CASE k <= c
    BY <1>4, <1>5, <1>7, <2>1
  <2>2. CASE ~(k <= c)
    <3>1. k - c \in 1 .. Len(new) /\ c + (k - c) = k /\ more[k] = j + (k - c) /\ more[k] \in j + 1 .. g
      BY <1>3, <1>8, <2>2
    <3>2. both[k] = new[k - c]
      BY <1>4, <3>1
    <3>3. new[k - c] = Parsed(ClientDecoder, frames)[j + (k - c)]
      BY <1>3, <3>1
    <3> QED
      BY <3>1, <3>2, <3>3
  <2> QED
    BY <2>1, <2>2
<1>12. ASSUME NEW k \in 1 .. d, NEW l \in 1 .. d, k < l PROVE more[k] < more[l]
  <2>1. k \in Nat /\ l \in Nat
    BY <1>6
  <2>2. CASE l <= c
    <3>1. k <= c
      BY <1>1, <1>12, <2>1, <2>2
    <3> QED
      BY <1>5, <1>7, <1>12, <2>2, <3>1
  <2>3. CASE k <= c /\ ~(l <= c)
    <3>1. more[k] \in 1 .. j /\ more[l] \in j + 1 .. g
      BY <1>7, <1>8, <2>3
    <3> QED
      BY <1>1, <3>1
  <2>4. CASE ~(k <= c) /\ ~(l <= c)
    <3>1. more[k] = j + (k - c) /\ more[l] = j + (l - c)
      BY <1>8, <2>4
    <3> QED
      BY <1>1, <1>12, <2>1, <3>1
  <2> QED
    BY <2>2, <2>3, <2>4
<1> QED
  BY <1>6, <1>10, <1>11, <1>12 DEF Arrived, both, new

\* The link after the first b bytes, up to the end of the j-th frame.
LinkAt(s, frames, b, link, j) ==
  /\ link \in Links /\ j \in 0 .. Len(frames)
  /\ End(frames, j) <= b /\ link.buffer = Slice(s, End(frames, j), b)
  /\ Arrived(link.received, frames, j)
  /\ ~link.closed => /\ link.received = Slice(Parsed(ClientDecoder, frames), 0, j)
                     /\ \A k \in 1 .. j : Good(ClientDecoder, frames[k])
                     /\ AsFar(s, frames, b, j)
  /\ link.closed => \/ \E k \in 1 .. j : ~Good(ClientDecoder, frames[k])
                    \/ j = Len(frames) /\ OverAt(s, End(frames, Len(frames)), b)

\* What was received stays.
Grows(old, new) == Len(old) <= Len(new) /\ \A k \in 1 .. Len(old) : new[k] = old[k]

\* A header over the limit stays one when more has come.
LEMMA OverStays ==
  ASSUME NEW s \in Seq(Bytes), NEW a \in Nat, NEW b \in Nat, NEW c \in Nat, a <= b, b <= c, c <= Len(s),
         OverAt(s, a, b)
  PROVE  OverAt(s, a, c)
<1>1. HasHeader(Slice(s, a, c)) /\ FrameLength(Slice(s, a, b)) = FrameLength(Slice(s, a, c))
  BY SameHeader DEF OverAt
<1> QED
  BY <1>1 DEF OverAt, TooLarge

\* Nothing was delivered at first.
LEMMA FirstLink ==
  ASSUME NEW s, NEW frames, Layout(s, frames)
  PROVE  LinkAt(s, frames, 0, NewLink, 0)
<1> DEFINE n == Len(frames)
<1>1. s \in Seq(Bytes) /\ frames \in Seq(Payloads) /\ n \in Nat /\ 0 <= Len(s)
  BY DEF Layout
<1>2. End(frames, 0) = 0 /\ HeaderBytes \in Nat /\ HeaderBytes >= 1 /\ 0 \in 0 .. n
  BY <1>1, EndFacts, HeaderFacts DEF HeaderLaws
<1>3. Slice(s, 0, 0) = <<>>
  BY <1>1, EmptySlice
<1>4. Slice(Parsed(ClientDecoder, frames), 0, 0) = <<>>
  <2>1. Parsed(ClientDecoder, frames) \in Seq(Msgs(ClientDecoder)) /\ 0 <= Len(Parsed(ClientDecoder, frames))
    BY <1>1, ParsedFacts
  <2> QED
    BY <2>1, EmptySlice
<1>5. /\ NewLink \in Links /\ NewLink.buffer = <<>> /\ NewLink.received = <<>> /\ NewLink.closed = FALSE
  <2>1. <<>> \in Seq(Bytes) /\ <<>> \in Seq(Msgs(ClientDecoder)) /\ FALSE \in BOOLEAN
    OBVIOUS
  <2> QED
    BY <2>1 DEF NewLink, Links
<1>6. Arrived(<<>>, frames, 0)
  <2> DEFINE from == [k \in 1 .. Len(<<>>) |-> 1]
  <2>1. Len(<<>>) = 0 /\ \A k \in 1 .. 0 : FALSE
    OBVIOUS
  <2>2. from \in [1 .. Len(<<>>) -> 1 .. 0]
    BY <2>1
  <2> HIDE DEF from
  <2> QED
    BY <2>1, <2>2 DEF Arrived
<1>7. AsFar(s, frames, 0, 0)
  <2>1. ASSUME 0 < n PROVE 0 < End(frames, 0 + 1)
    <3>1. 1 \in 0 .. n /\ 0 < 1 /\ 0 + 1 = 1
      BY <1>1, <2>1
    <3>2. End(frames, 0) + HeaderBytes <= End(frames, 1) /\ End(frames, 1) \in Nat
      BY <1>1, <1>2, <3>1, EndsGrow, EndFacts
    <3>3. 0 + HeaderBytes = HeaderBytes
      BY <1>2
    <3> QED
      BY <1>2, <3>1, <3>2, <3>3
  <2>2. ASSUME 0 = n PROVE ~OverAt(s, End(frames, n), 0)
    <3>1. Slice(s, End(frames, n), 0) = <<>>
      BY <1>2, <1>3, <2>2
    <3>2. ~HasHeader(<<>>)
      BY <1>2 DEF HasHeader
    <3> QED
      BY <3>1, <3>2 DEF OverAt
  <2> QED
    BY <2>1, <2>2 DEF AsFar
<1>8. \A k \in 1 .. 0 : Good(ClientDecoder, frames[k])
  OBVIOUS
<1>9. 0 <= 0
  OBVIOUS
<1> QED
  BY <1>2, <1>3, <1>4, <1>5, <1>6, <1>7, <1>8, <1>9 DEF LinkAt

\* A chunk keeps what the client holds in step with the stream, and takes nothing back.
LEMMA DataStep ==
  ASSUME NEW s, NEW frames, Layout(s, frames), NEW a \in Nat, NEW b \in Nat, a <= b, b <= Len(s),
         NEW link, NEW i, LinkAt(s, frames, a, link, i)
  PROVE  /\ \E j : LinkAt(s, frames, b, Data(link, Slice(s, a, b)), j)
         /\ Grows(link.received, Data(link, Slice(s, a, b)).received)
<1> DEFINE n == Len(frames)
           chunk == Slice(s, a, b)
           whole == Slice(s, End(frames, i), b)
           next == Data(link, chunk)
           push == Push(whole)
<1>1. /\ s \in Seq(Bytes) /\ frames \in Seq(Payloads) /\ n \in Nat
      /\ i \in 0 .. n /\ i \in Nat /\ End(frames, i) \in Nat /\ End(frames, i) <= a
  <2>1. s \in Seq(Bytes) /\ frames \in Seq(Payloads) /\ n \in Nat
    BY DEF Layout
  <2>2. i \in 0 .. n /\ End(frames, i) <= a
    BY DEF LinkAt
  <2> QED
    BY <2>1, <2>2, EndFacts
<1>2. End(frames, i) <= b /\ a <= Len(s) /\ b \in 0 .. Len(s)
  BY <1>1
<1>3. link \in Links /\ link.buffer \o chunk = whole
  <2>1. link \in Links /\ link.buffer = Slice(s, End(frames, i), a)
    BY DEF LinkAt
  <2>2. Slice(s, End(frames, i), a) \o Slice(s, a, b) = Slice(s, End(frames, i), b)
    BY <1>1, SliceConcat
  <2> QED
    BY <2>1, <2>2
<1>4. IsData(next, link, push)
  <2>1. chunk \in Seq(Bytes)
    BY <1>1, <1>2, AnySlice
  <2> HIDE DEF chunk
  <2>2. IsData(Data(link, chunk), link, Push(link.buffer \o chunk))
    BY <1>3, <2>1, DataFacts
  <2> QED
    BY <1>3, <2>2
<1>5. PICK g, j : Pushed(s, frames, i, b, push, g, j) /\ (~push.threw => AsFar(s, frames, b, j))
  BY <1>1, <1>2, PushFacts
<1> HIDE DEF push, next, whole, chunk
<1>6. /\ push \in Pushes /\ g \in i .. n /\ j \in g .. n /\ g \in Nat /\ j \in Nat /\ j \in 0 .. n
      /\ i <= g /\ g <= j /\ j <= n /\ End(frames, j) <= b /\ push.buffer = Slice(s, End(frames, j), b)
      /\ \A k \in i + 1 .. g : Good(ClientDecoder, frames[k])
      /\ push.messages = Slice(Parsed(ClientDecoder, frames), i, g)
  <2>1. push \in Pushes /\ g \in i .. n /\ j \in g .. n /\ End(frames, j) <= b
        /\ push.buffer = Slice(s, End(frames, j), b) /\ (\A k \in i + 1 .. g : Good(ClientDecoder, frames[k]))
        /\ push.messages = Slice(Parsed(ClientDecoder, frames), i, g)
    BY <1>5 DEF Pushed
  <2> QED
    BY <1>1, <2>1
<1>7. /\ link.received \in Seq(Msgs(ClientDecoder)) /\ link.closed \in BOOLEAN /\ push.threw \in BOOLEAN
      /\ push.messages \in Seq(Msgs(ClientDecoder)) /\ next.received \in Seq(Msgs(ClientDecoder))
  BY <1>3, <1>4, <1>6 DEF Links, Pushes, IsData
<1>8. Arrived(link.received, frames, i)
  BY DEF LinkAt
<1>9. Parsed(ClientDecoder, frames) \in Seq(Msgs(ClientDecoder)) /\ Len(Parsed(ClientDecoder, frames)) = n
  BY <1>1, ParsedFacts
<1>10. ASSUME NEW x \in 0 .. n, i <= x, Arrived(link.received, frames, i) PROVE Arrived(link.received, frames, x)
  <2>1. \A y \in 1 .. i : y \in 1 .. x
    BY <1>1, <1>10
  <2>2. ASSUME NEW D, NEW from \in [D -> 1 .. i] PROVE from \in [D -> 1 .. x]
    BY <2>1
  <2>3. PICK from \in [1 .. Len(link.received) -> 1 .. i] :
          /\ \A k \in 1 .. Len(link.received) :
               Good(ClientDecoder, frames[from[k]]) /\ link.received[k] = Parsed(ClientDecoder, frames)[from[k]]
          /\ \A k, l \in 1 .. Len(link.received) : k < l => from[k] < from[l]
    BY <1>10 DEF Arrived
  <2>4. from \in [1 .. Len(link.received) -> 1 .. x]
    BY <2>2
  <2> QED
    BY <2>3, <2>4 DEF Arrived
<1>11. CASE push.threw
  <2>1. next.received = link.received /\ next.closed /\ next.buffer = push.buffer /\ next \in Links
    BY <1>4, <1>11 DEF IsData
  <2>2. \/ \E k \in 1 .. j : ~Good(ClientDecoder, frames[k])
        \/ j = n /\ OverAt(s, End(frames, n), b)
    <3>1. CASE j = g + 1 /\ ~Good(ClientDecoder, frames[j])
      <4>1. j \in 1 .. j
        BY <1>6, <3>1
      <4> QED
        BY <3>1, <4>1
    <3>2. CASE j = g /\ g = n /\ OverAt(s, End(frames, n), b)
      BY <3>2
    <3> QED
      BY <1>5, <1>11, <3>1, <3>2 DEF Pushed
  <2>3. Arrived(link.received, frames, j)
    <3>1. i <= j
      BY <1>1, <1>6
    <3> QED
      BY <1>6, <1>8, <1>10, <3>1
  <2>4. LinkAt(s, frames, b, next, j)
    BY <1>6, <2>1, <2>2, <2>3 DEF LinkAt
  <2>5. Grows(link.received, next.received)
    <3>1. Len(link.received) <= Len(link.received)
      BY <1>7
    <3> QED
      BY <2>1, <3>1 DEF Grows
  <2> QED
    BY <2>4, <2>5 DEF next, chunk
<1>12. CASE ~push.threw
  <2>1. /\ next.received = link.received \o push.messages /\ next.closed = link.closed
        /\ next.buffer = push.buffer /\ next \in Links
    BY <1>4, <1>7, <1>12 DEF IsData
  <2>2. j = g /\ AsFar(s, frames, b, j)
    BY <1>5, <1>12 DEF Pushed
  <2>3. Arrived(next.received, frames, j)
    <3>1. Arrived(link.received \o Slice(Parsed(ClientDecoder, frames), i, g), frames, g)
      BY <1>1, <1>6, <1>7, <1>8, ArrivedMore
    <3> QED
      BY <1>6, <2>1, <2>2, <3>1
  <2>4. ASSUME ~next.closed
        PROVE  next.received = Slice(Parsed(ClientDecoder, frames), 0, j) /\ \A k \in 1 .. j : Good(ClientDecoder, frames[k])
    <3>1. link.received = Slice(Parsed(ClientDecoder, frames), 0, i) /\ \A k \in 1 .. i : Good(ClientDecoder, frames[k])
      BY <2>1, <2>4 DEF LinkAt
    <3>2. Slice(Parsed(ClientDecoder, frames), 0, i) \o Slice(Parsed(ClientDecoder, frames), i, g) = Slice(Parsed(ClientDecoder, frames), 0, g)
      <4>1. /\ 0 \in Nat /\ i \in Nat /\ g \in Nat /\ 0 <= i /\ i <= g
            /\ Parsed(ClientDecoder, frames) \in Seq(Msgs(ClientDecoder)) /\ g <= Len(Parsed(ClientDecoder, frames))
        BY <1>1, <1>6, <1>9, <2>2
      <4> QED
        BY ONLY <4>1, SliceConcat
    <3>3. \A k \in 1 .. j : k \in 1 .. i \/ k \in i + 1 .. g
      BY <1>1, <1>6, <2>2
    <3>4. \A k \in 1 .. j : Good(ClientDecoder, frames[k])
      BY <1>6, <3>1, <3>3
    <3> QED
      BY <1>6, <2>1, <2>2, <3>1, <3>2, <3>4
  <2>5. ASSUME next.closed
        PROVE  (\E k \in 1 .. j : ~Good(ClientDecoder, frames[k])) \/ (j = n /\ OverAt(s, End(frames, n), b))
    <3>1. (\E k \in 1 .. i : ~Good(ClientDecoder, frames[k])) \/ (i = n /\ OverAt(s, End(frames, n), a))
      BY <2>1, <2>5 DEF LinkAt
    <3>2. CASE \E k \in 1 .. i : ~Good(ClientDecoder, frames[k])
      <4>1. \A k \in 1 .. i : k \in 1 .. j
        BY <1>1, <1>6
      <4> QED
        BY <3>2, <4>1
    <3>3. CASE i = n /\ OverAt(s, End(frames, n), a)
      <4>1. j = n
        BY <1>1, <1>6, <3>3
      <4>2. OverAt(s, End(frames, i), b)
        BY <1>1, <3>3, OverStays
      <4> QED
        BY <3>3, <4>1, <4>2
    <3> QED
      BY <3>1, <3>2, <3>3
  <2>6. LinkAt(s, frames, b, next, j)
    BY <1>6, <2>1, <2>2, <2>3, <2>4, <2>5 DEF LinkAt
  <2>7. Grows(link.received, next.received)
    <3>1. link.received \in Seq(Msgs(ClientDecoder)) /\ push.messages \in Seq(Msgs(ClientDecoder))
      BY <1>7
    <3> DEFINE old == link.received
               new == push.messages
    <3> HIDE DEF old, new, Msgs
    <3>2. /\ Len(old \o new) = Len(old) + Len(new) /\ Len(old) \in Nat /\ Len(new) \in Nat
          /\ \A k \in 1 .. Len(old) : (old \o new)[k] = old[k]
      <4>1. old \in Seq(Msgs(ClientDecoder)) /\ new \in Seq(Msgs(ClientDecoder))
        BY <3>1 DEF old, new
      <4> QED
        BY ONLY <4>1
    <3>3. Len(old) <= Len(old \o new)
      BY <3>2
    <3> QED
      BY <2>1, <3>2, <3>3 DEF Grows, old, new
  <2> QED
    BY <2>6, <2>7 DEF next, chunk
<1> QED
  BY <1>7, <1>11, <1>12

\* What is delivered by then.
At(s, frames, cuts, k) ==
  LET after == Deliveries(s, cuts)[k]
  IN  /\ after.read \in 0 .. k /\ (k = 0 \/ k \in cuts => after.read = k)
      /\ \E j : LinkAt(s, frames, after.read, after.link, j)

\* The client is in step with the stream after every chunk.
LEMMA DeliveryFacts ==
  ASSUME NEW s, NEW frames, Layout(s, frames), NEW cuts
  PROVE  /\ \A k \in 0 .. Len(s) : At(s, frames, cuts, k)
         /\ \A k \in 1 .. Len(s) :
              Grows(Deliveries(s, cuts)[k - 1].link.received, Deliveries(s, cuts)[k].link.received)
<1> DEFINE n == Len(s)
           after == Deliveries(s, cuts)
           P == {k \in 0 .. n : At(s, frames, cuts, k)}
<1>1. s \in Seq(Bytes) /\ n \in Nat
  BY DEF Layout
<1>2. DeliveriesFollow(s, cuts)
  BY <1>1, DeliveriesFacts
<1>3. /\ after[0] = [link |-> NewLink, read |-> 0]
      /\ \A k \in 0 .. n : after[k] \in Reached
      /\ \A k \in 1 .. n : /\ k \in cuts => after[k] = Cut(after[k - 1], s, k)
                           /\ k \notin cuts => after[k] = after[k - 1]
  BY <1>2 DEF DeliveriesFollow
<1> HIDE DEF after
<1>4. 0 \in P
  <2>1. after[0].read = 0 /\ after[0].link = NewLink /\ 0 \in 0 .. 0 /\ 0 \in 0 .. n
    BY <1>1, <1>3
  <2>2. LinkAt(s, frames, 0, NewLink, 0)
    BY FirstLink
  <2>3. At(s, frames, cuts, 0)
    BY <2>1, <2>2 DEF At, after
  <2> QED
    BY <2>1, <2>3
<1>5. ASSUME NEW k \in 1 .. n, At(s, frames, cuts, k - 1)
      PROVE  At(s, frames, cuts, k) /\ Grows(after[k - 1].link.received, after[k].link.received)
  <2> DEFINE v == after[k - 1]
             a == v.read
             link == v.link
  <2>1. k - 1 \in 0 .. n /\ k \in Nat /\ k <= n /\ k # 0 /\ k \in 0 .. k
    BY <1>1
  <2>2. PICK j : LinkAt(s, frames, a, link, j)
    BY <1>5 DEF At, after
  <2>3. a \in 0 .. k - 1
    BY <1>5 DEF At, after
  <2>4. a \in Nat /\ a <= k /\ a \in 0 .. k
    BY <2>1, <2>3
  <2>5. CASE k \in cuts
    <3>1. after[k] = Cut(v, s, k)
      BY <1>3, <2>5
    <3>2. after[k].link = Data(link, Slice(s, a, k)) /\ after[k].read = k
      BY <3>1 DEF Cut, Slice
    <3> HIDE DEF link, a
    <3>3. /\ \E l : LinkAt(s, frames, k, Data(link, Slice(s, a, k)), l)
          /\ Grows(link.received, Data(link, Slice(s, a, k)).received)
      BY <2>1, <2>2, <2>4, DataStep
    <3>4. At(s, frames, cuts, k)
      BY <2>1, <3>2, <3>3 DEF At, after
    <3> QED
      BY <3>2, <3>3, <3>4 DEF link
  <2>6. CASE k \notin cuts
    <3>1. after[k] = v
      BY <1>3, <2>6
    <3>2. At(s, frames, cuts, k)
      BY <2>1, <2>2, <2>4, <2>6, <3>1 DEF At, after
    <3>3. Grows(link.received, link.received)
      <4>1. link.received \in Seq(Msgs(ClientDecoder))
        BY <1>3, <2>1 DEF Reached, Links
      <4>2. Len(link.received) <= Len(link.received)
        BY <4>1
      <4> QED
        BY <4>2 DEF Grows
    <3> QED
      BY <3>1, <3>2, <3>3
  <2> QED
    BY <2>5, <2>6
<1>6. \A k \in 0 .. n : At(s, frames, cuts, k)
  <2>1. \A k \in 1 .. n : k - 1 \in P => k \in P
    <3>1. \A k \in 1 .. n : k \in 0 .. n
      OBVIOUS
    <3> QED
      BY <1>5, <3>1
  <2> HIDE DEF P
  <2>2. \A k \in 0 .. n : k \in P
    BY <1>1, <1>4, <2>1, CountUp
  <2> QED
    BY <2>2 DEF P
<1>7. \A k \in 1 .. n : Grows(after[k - 1].link.received, after[k].link.received)
  <2>1. \A k \in 1 .. n : k - 1 \in 0 .. n
    BY <1>1
  <2> QED
    BY <1>5, <1>6, <2>1
<1> QED
  BY <1>6, <1>7 DEF after

\* The decoder refuses some frame, or what is left is over the limit.
Breaks(decoder, s, frames) ==
  Sound(decoder, frames) < Len(frames) \/ OverAt(s, End(frames, Len(frames)), Len(s))

\* What the first frames say is the first of what they say.
LEMMA ParsedSlice ==
  ASSUME NEW decoder, NEW frames \in Seq(Payloads), NEW m \in 0 .. Len(frames)
  PROVE  Parsed(decoder, SubSeq(frames, 1, m)) = Slice(Parsed(decoder, frames), 0, m)
<1> DEFINE before == Slice(frames, 0, m)
           t == Parsed(decoder, before)
           u == Slice(Parsed(decoder, frames), 0, m)
<1>1. /\ m \in Nat /\ 0 \in Nat /\ 0 <= m /\ m <= Len(frames) /\ m - 0 = m /\ Len(frames) \in Nat
      /\ \A k \in 1 .. m : 0 + k = k /\ k \in 1 .. Len(frames)
  OBVIOUS
<1>2. SubSeq(frames, 1, m) = before
  BY DEF Slice
<1>3. before \in Seq(Payloads) /\ Len(before) = m /\ \A k \in 1 .. m : before[k] = frames[k]
  <2>1. IsSlice(before, Payloads, frames, 0, m)
    BY <1>1, SliceFacts
  <2> QED
    BY <1>1, <2>1 DEF IsSlice
<1>4. /\ Parsed(decoder, frames) \in Seq(Msgs(decoder)) /\ Len(Parsed(decoder, frames)) = Len(frames)
      /\ \A k \in 1 .. Len(frames) : Parsed(decoder, frames)[k] = decoder[frames[k]]
  BY ParsedFacts
<1>5. u \in Seq(Msgs(decoder)) /\ Len(u) = m /\ \A k \in 1 .. m : u[k] = Parsed(decoder, frames)[k]
  <2>1. IsSlice(u, Msgs(decoder), Parsed(decoder, frames), 0, m)
    BY <1>1, <1>4, SliceFacts
  <2> QED
    BY <1>1, <2>1 DEF IsSlice
<1> HIDE DEF before, u
<1>6. t \in Seq(Msgs(decoder)) /\ Len(t) = m /\ \A k \in 1 .. m : t[k] = decoder[before[k]]
  BY <1>3, ParsedFacts
<1> HIDE DEF t
<1>7. \A k \in 1 .. m : t[k] = u[k]
  BY <1>1, <1>3, <1>4, <1>5, <1>6
<1>8. t = u
  BY <1>5, <1>6, <1>7, SameSequence
<1> QED
  BY <1>2, <1>8 DEF t, u

\* The client, at the end of a stream.
ClientLaws(s, frames, link) ==
  /\ link.closed <=> Breaks(ClientDecoder, s, frames)
  /\ ~Breaks(ClientDecoder, s, frames) =>
       /\ link.received = Parsed(ClientDecoder, frames)
       /\ link.buffer = Slice(s, End(frames, Len(frames)), Len(s))
  /\ ArrivedFrom(link.received, frames)
  /\ link.received \in Seq(Msgs(ClientDecoder))

\* However a stream is cut, the client ends as it should.
LEMMA ClientFacts ==
  ASSUME NEW s, NEW frames, Layout(s, frames), NEW cuts, Len(s) = 0 \/ Len(s) \in cuts
  PROVE  ClientLaws(s, frames, Delivered(s, cuts))
<1> DEFINE n == Len(frames)
           N == Len(s)
           after == Deliveries(s, cuts)[N]
           link == after.link
<1>1. s \in Seq(Bytes) /\ frames \in Seq(Payloads) /\ n \in Nat /\ N \in Nat /\ N \in 0 .. N
  BY DEF Layout
<1>2. At(s, frames, cuts, N)
  BY <1>1, DeliveryFacts
<1>3. after.read = N /\ \E j : LinkAt(s, frames, after.read, link, j)
  BY <1>2 DEF At
<1>4. Delivered(s, cuts) = link
  BY DEF Delivered
<1> HIDE DEF link, after
<1>5. PICK j : LinkAt(s, frames, N, link, j)
  BY <1>3
<1>6. /\ j \in 0 .. n /\ j \in Nat /\ link \in Links /\ link.buffer = Slice(s, End(frames, j), N)
      /\ Arrived(link.received, frames, j)
  <2>1. j \in 0 .. n /\ link \in Links /\ link.buffer = Slice(s, End(frames, j), N)
        /\ Arrived(link.received, frames, j)
    BY <1>5 DEF LinkAt
  <2> QED
    BY <1>1, <2>1
<1>7. link.received \in Seq(Msgs(ClientDecoder)) /\ link.closed \in BOOLEAN
  BY <1>6 DEF Links
<1>8. GoodHead(ClientDecoder, frames, Sound(ClientDecoder, frames))
  BY <1>1, SoundFacts
<1>9. ASSUME ~link.closed
      PROVE  ~Breaks(ClientDecoder, s, frames) /\ link.received = Parsed(ClientDecoder, frames) /\ link.buffer = Slice(s, End(frames, n), N)
  <2>1. /\ link.received = Slice(Parsed(ClientDecoder, frames), 0, j) /\ (\A k \in 1 .. j : Good(ClientDecoder, frames[k]))
        /\ AsFar(s, frames, N, j)
    BY <1>5, <1>9 DEF LinkAt
  <2>2. j = n
    <3>1. SUFFICES ASSUME j < n PROVE FALSE
      BY <1>1, <1>6
    <3>2. j + 1 \in 0 .. n
      BY <1>1, <1>6, <3>1
    <3>3. End(frames, j + 1) <= N /\ End(frames, j + 1) \in Nat
      BY <1>1, <3>2, EndFacts DEF Layout
    <3>4. N < End(frames, j + 1)
      BY <2>1, <3>1 DEF AsFar
    <3> QED
      BY <1>1, <3>3, <3>4
  <2>3. ~OverAt(s, End(frames, n), N)
    BY <2>1, <2>2 DEF AsFar
  <2>4. ~(Sound(ClientDecoder, frames) < n)
    <3>1. SUFFICES ASSUME Sound(ClientDecoder, frames) < n PROVE FALSE
      OBVIOUS
    <3>2. Sound(ClientDecoder, frames) + 1 \in 1 .. n /\ ~Good(ClientDecoder, frames[Sound(ClientDecoder, frames) + 1])
      BY <1>1, <1>8, <3>1 DEF GoodHead
    <3> QED
      BY <2>1, <2>2, <3>2
  <2>5. Slice(Parsed(ClientDecoder, frames), 0, n) = Parsed(ClientDecoder, frames)
    <3>1. Parsed(ClientDecoder, frames) \in Seq(Msgs(ClientDecoder)) /\ Len(Parsed(ClientDecoder, frames)) = n
      BY <1>1, ParsedFacts
    <3>2. Slice(Parsed(ClientDecoder, frames), 0, Len(Parsed(ClientDecoder, frames))) = Parsed(ClientDecoder, frames)
      BY <3>1, SliceWhole
    <3> QED
      BY <3>1, <3>2
  <2> QED
    BY <1>6, <2>1, <2>2, <2>3, <2>4, <2>5 DEF Breaks
<1>10. ASSUME link.closed PROVE Breaks(ClientDecoder, s, frames)
  <2>1. (\E k \in 1 .. j : ~Good(ClientDecoder, frames[k])) \/ (j = n /\ OverAt(s, End(frames, n), N))
    BY <1>5, <1>10 DEF LinkAt
  <2>2. ASSUME NEW k \in 1 .. j, ~Good(ClientDecoder, frames[k]) PROVE Sound(ClientDecoder, frames) < n
    <3>1. Sound(ClientDecoder, frames) \in 0 .. n /\ (\A l \in 1 .. Sound(ClientDecoder, frames) : Good(ClientDecoder, frames[l]))
      BY <1>8 DEF GoodHead
    <3>2. k \notin 1 .. Sound(ClientDecoder, frames)
      BY <2>2, <3>1
    <3> QED
      BY <1>1, <1>6, <3>1, <3>2
  <2> QED
    BY <2>1, <2>2 DEF Breaks
<1>11. ArrivedFrom(link.received, frames)
  <2> DEFINE messages == link.received
  <2>1. PICK from \in [1 .. Len(messages) -> 1 .. j] :
          /\ \A k \in 1 .. Len(messages) : Good(ClientDecoder, frames[from[k]]) /\ messages[k] = Parsed(ClientDecoder, frames)[from[k]]
          /\ \A k, l \in 1 .. Len(messages) : k < l => from[k] < from[l]
    BY <1>6 DEF Arrived
  <2>2. /\ DOMAIN messages = 1 .. Len(messages) /\ DOMAIN frames = 1 .. n
        /\ \A k \in 1 .. j : k \in 1 .. n
    BY <1>1, <1>6, <1>7
  <2>3. from \in [DOMAIN messages -> DOMAIN frames]
    BY <2>1, <2>2
  <2>4. \A k \in 1 .. n : Parsed(ClientDecoder, frames)[k] = ClientDecoder[frames[k]]
    BY <1>1, ParsedFacts
  <2>5. \A k \in DOMAIN messages :
          Good(ClientDecoder, frames[from[k]]) /\ messages[k] = ClientDecoder[frames[from[k]]]
    BY <2>1, <2>2, <2>4
  <2>6. \A k, l \in DOMAIN messages : k < l => from[k] < from[l]
    BY <2>1, <2>2
  <2> QED
    BY <2>3, <2>5, <2>6 DEF ArrivedFrom
<1>12. ClientLaws(s, frames, link)
  BY <1>7, <1>9, <1>10, <1>11 DEF ClientLaws
<1> QED
  BY <1>4, <1>12

\* When each byte is a chunk, the good frames at the head are received.
LEMMA SingleFacts ==
  ASSUME NEW s, NEW frames, Layout(s, frames)
  PROVE  IsPrefix(Parsed(ClientDecoder, SubSeq(frames, 1, Sound(ClientDecoder, frames))), Delivered(s, 1 .. Len(s)).received)
<1> DEFINE n == Len(frames)
           N == Len(s)
           cuts == 1 .. N
           after == Deliveries(s, cuts)
           x == Sound(ClientDecoder, frames)
           e == End(frames, x)
           before == Slice(Parsed(ClientDecoder, frames), 0, x)
           Has(k) == Grows(before, after[k].link.received)
           P == {d \in 0 .. N - e : Has(e + d)}
<1>1. s \in Seq(Bytes) /\ frames \in Seq(Payloads) /\ n \in Nat /\ N \in Nat
  BY DEF Layout
<1>2. GoodHead(ClientDecoder, frames, x) /\ x \in 0 .. n /\ x \in Nat /\ \A k \in 1 .. x : Good(ClientDecoder, frames[k])
  <2>1. GoodHead(ClientDecoder, frames, x)
    BY <1>1, SoundFacts
  <2>2. x \in 0 .. n /\ \A k \in 1 .. x : Good(ClientDecoder, frames[k])
    BY <2>1 DEF GoodHead
  <2> QED
    BY <1>1, <2>1, <2>2
<1>3. e \in Nat /\ e <= N /\ e \in 0 .. N /\ N - e \in Nat
  <2>1. e \in Nat /\ e <= N
    BY <1>1, <1>2, EndFacts DEF Layout
  <2> QED
    BY <1>1, <2>1
<1>4. Parsed(ClientDecoder, frames) \in Seq(Msgs(ClientDecoder)) /\ Len(Parsed(ClientDecoder, frames)) = n
  BY <1>1, ParsedFacts
<1>5. before \in Seq(Msgs(ClientDecoder)) /\ Len(before) = x /\ \A k \in 1 .. x : before[k] = Parsed(ClientDecoder, frames)[k]
  <2>1. 0 \in Nat /\ 0 <= x /\ x <= Len(Parsed(ClientDecoder, frames)) /\ x - 0 = x /\ \A k \in 1 .. x : 0 + k = k
    BY <1>1, <1>2, <1>4
  <2>2. IsSlice(before, Msgs(ClientDecoder), Parsed(ClientDecoder, frames), 0, x)
    BY <1>2, <1>4, <2>1, SliceFacts
  <2> QED
    BY <2>1, <2>2 DEF IsSlice
<1>6. /\ \A k \in 0 .. N : At(s, frames, cuts, k)
      /\ \A k \in 1 .. N : Grows(after[k - 1].link.received, after[k].link.received)
  BY DeliveryFacts
<1> HIDE DEF e, before, x, cuts
<1>7. ASSUME NEW k \in 0 .. N PROVE after[k].link.received \in Seq(Msgs(ClientDecoder)) /\ \E j : LinkAt(s, frames, k, after[k].link, j)
  <2>1. At(s, frames, cuts, k)
    BY <1>6
  <2>2. k = 0 \/ k \in cuts
    BY <1>1 DEF cuts
  <2>3. \E j : LinkAt(s, frames, k, after[k].link, j)
    BY <2>1, <2>2 DEF At
  <2>4. after[k].link \in Links
    BY <2>3 DEF LinkAt
  <2> QED
    BY <2>3, <2>4 DEF Links
<1> HIDE DEF after
<1>8. Has(e)
  <2> DEFINE link == after[e].link
  <2>1. link.received \in Seq(Msgs(ClientDecoder))
    BY <1>3, <1>7
  <2>2. PICK j : LinkAt(s, frames, e, link, j)
    BY <1>3, <1>7
  <2> HIDE DEF link
  <2>3. j \in 0 .. n /\ j \in Nat /\ End(frames, j) <= e /\ End(frames, j) \in Nat
    <3>1. j \in 0 .. n /\ End(frames, j) <= e
      BY <2>2 DEF LinkAt
    <3> QED
      BY <1>1, <3>1, EndFacts
  <2>4. ~(x < j)
    <3>1. SUFFICES ASSUME x < j PROVE FALSE
      OBVIOUS
    <3>2. End(frames, x) + HeaderBytes <= End(frames, j)
      BY <1>1, <1>2, <2>3, <3>1, EndsGrow
    <3>3. HeaderBytes \in Nat /\ HeaderBytes >= 1
      BY HeaderFacts DEF HeaderLaws
    <3> QED
      BY <1>3, <2>3, <3>2, <3>3 DEF e
  <2>5. ~link.closed
    <3>1. SUFFICES ASSUME link.closed PROVE FALSE
      OBVIOUS
    <3>2. (\E k \in 1 .. j : ~Good(ClientDecoder, frames[k])) \/ (j = n /\ OverAt(s, End(frames, n), e))
      BY <2>2, <3>1 DEF LinkAt
    <3>3. \A k \in 1 .. j : Good(ClientDecoder, frames[k])
      <4>1. \A k \in 1 .. j : k \in 1 .. x
        BY <1>2, <2>3, <2>4
      <4> QED
        BY <1>2, <4>1
    <3>4. j = n /\ x = n /\ OverAt(s, End(frames, n), e)
      <4>1. j = n /\ OverAt(s, End(frames, n), e)
        BY <3>2, <3>3
      <4> QED
        BY <1>1, <1>2, <2>3, <2>4, <4>1
    <3>5. Slice(s, e, e) = <<>> /\ OverAt(s, e, e)
      <4>1. Slice(s, e, e) = <<>>
        BY <1>1, <1>3, EmptySlice
      <4> QED
        BY <3>4, <4>1 DEF e
    <3>6. ~HasHeader(<<>>)
      <4>1. HeaderBytes \in Nat /\ HeaderBytes >= 1
        BY HeaderFacts DEF HeaderLaws
      <4> QED
        BY <4>1 DEF HasHeader
    <3> QED
      BY <3>5, <3>6 DEF OverAt
  <2>6. link.received = Slice(Parsed(ClientDecoder, frames), 0, j) /\ AsFar(s, frames, e, j)
    BY <2>2, <2>5 DEF LinkAt
  <2>7. j = x
    <3>1. SUFFICES ASSUME j < x PROVE FALSE
      BY <1>2, <2>3, <2>4
    <3>2. j + 1 \in 0 .. n /\ j + 1 <= x /\ j < n
      BY <1>1, <1>2, <2>3, <3>1
    <3>3. End(frames, j + 1) <= End(frames, x)
      BY <1>1, <1>2, <3>2, EndsGrow
    <3>4. e < End(frames, j + 1) /\ End(frames, j + 1) \in Nat
      BY <1>1, <2>6, <3>2, EndFacts DEF AsFar
    <3> QED
      BY <1>3, <3>3, <3>4 DEF e
  <2>8. link.received = before
    BY <2>6, <2>7 DEF before
  <2>9. Len(before) <= Len(before)
    BY <1>2, <1>5
  <2> QED
    BY <2>8, <2>9 DEF Grows, link
<1>9. 0 \in P
  <2>1. 0 \in 0 .. N - e /\ e + 0 = e
    BY <1>3
  <2> HIDE DEF Has
  <2> QED
    BY <1>8, <2>1
<1>10. ASSUME NEW d \in 1 .. N - e, d - 1 \in P PROVE d \in P
  <2> DEFINE k == e + d
  <2>1. k \in 1 .. N /\ k \in 0 .. N /\ k - 1 \in 0 .. N /\ e + (d - 1) = k - 1 /\ d \in 0 .. N - e
    BY <1>1, <1>3
  <2>2. Has(k - 1)
    <3>1. Has(e + (d - 1))
      BY <1>10
    <3> QED
      BY <2>1, <3>1
  <2>3. Grows(after[k - 1].link.received, after[k].link.received)
    BY <1>6, <2>1
  <2>4. after[k - 1].link.received \in Seq(Msgs(ClientDecoder)) /\ after[k].link.received \in Seq(Msgs(ClientDecoder))
    BY <1>7, <2>1
  <2> HIDE DEF k
  <2>5. Has(k)
    <3> DEFINE old == after[k - 1].link.received
               new == after[k].link.received
    <3>1. Len(old) \in Nat /\ Len(new) \in Nat
      <4>1. old \in Seq(Msgs(ClientDecoder)) /\ new \in Seq(Msgs(ClientDecoder))
        BY <2>4
      <4> HIDE DEF old, new
      <4> QED
        BY ONLY <4>1
    <3>2. Len(before) <= Len(old) /\ Len(old) <= Len(new)
      BY <2>2, <2>3 DEF Grows
    <3>3. \A l \in 1 .. Len(before) : l \in 1 .. Len(old)
      BY <1>2, <1>5, <3>1, <3>2
    <3>4. \A l \in 1 .. Len(before) : new[l] = before[l]
      BY <2>2, <2>3, <3>3 DEF Grows
    <3>5. Len(before) <= Len(new)
      <4>1. Len(before) \in Nat
        BY <1>2, <1>5
      <4> QED
        BY ONLY <3>1, <3>2, <4>1
    <3> QED
      BY <3>4, <3>5 DEF Grows
  <2> HIDE DEF Has
  <2> QED
    BY <2>1, <2>5 DEF k
<1> HIDE DEF P
<1>11. N - e \in P
  <2>1. \A d \in 1 .. N - e : d - 1 \in P => d \in P
    BY <1>10
  <2>2. \A d \in 0 .. N - e : d \in P
    BY <1>3, <1>9, <2>1, CountUp
  <2>3. N - e \in 0 .. N - e
    BY <1>3
  <2> QED
    BY <2>2, <2>3
<1>12. Has(N)
  <2>1. e + (N - e) = N
    BY <1>1, <1>3
  <2>2. Has(e + (N - e))
    BY <1>11 DEF P
  <2> QED
    BY <2>1, <2>2
<1> DEFINE all == Delivered(s, 1 .. N).received
<1>13. all = after[N].link.received
  BY DEF Delivered, after, cuts
<1>14. all \in Seq(Msgs(ClientDecoder)) /\ Len(before) <= Len(all) /\ \A k \in 1 .. Len(before) : all[k] = before[k]
  <2>1. N \in 0 .. N
    BY <1>1
  <2> QED
    BY <1>7, <1>12, <1>13, <2>1 DEF Grows
<1> HIDE DEF all
<1>15. Slice(all, 0, Len(before)) = Slice(before, 0, Len(before))
  <2>1. IsSlice(Slice(all, 0, x), Msgs(ClientDecoder), all, 0, x)
    BY <1>2, <1>5, <1>14, SliceFacts
  <2>2. IsSlice(Slice(before, 0, x), Msgs(ClientDecoder), before, 0, x)
    BY <1>2, <1>5, SliceFacts
  <2>3. x - 0 = x /\ \A k \in 1 .. x : 0 + k = k
    BY <1>2
  <2> DEFINE t == Slice(all, 0, x)
             u == Slice(before, 0, x)
  <2>4. t \in Seq(Msgs(ClientDecoder)) /\ u \in Seq(Msgs(ClientDecoder)) /\ Len(t) = x /\ Len(u) = x /\ \A k \in 1 .. x : t[k] = u[k]
    BY <1>5, <1>14, <2>1, <2>2, <2>3 DEF IsSlice
  <2> HIDE DEF t, u
  <2>5. t = u
    BY <2>4, SameSequence
  <2> QED
    BY <1>5, <2>5 DEF t, u
<1>16. IsPrefix(before, all)
  BY <1>14, <1>15 DEF IsPrefix, Slice
<1>17. Parsed(ClientDecoder, SubSeq(frames, 1, x)) = before
  BY <1>1, <1>2, ParsedSlice DEF before
<1> QED
  BY <1>16, <1>17 DEF all, x
-----------------------------------------------------------------------------
(* The host                                                                *)

Inputs == [stream : Seq(Bytes), sent : Seq(Msgs(HostDecoder)),
           end : {"none", "end of stream", "too large", "io", "invalid"}]

\* A round of read_stdin keeps the types.
LEMMA ReadFrameType == ASSUME NEW v \in Inputs PROVE ReadFrame(v) \in Inputs
<1> DEFINE t == v.stream
           w == ReadFrame(v)
<1>1. t \in Seq(Bytes) /\ v.sent \in Seq(Msgs(HostDecoder))
  BY DEF Inputs
<1>2. CASE v.end # "none"
  BY <1>2 DEF ReadFrame
<1>3. CASE v.end = "none" /\ ~HasHeader(t)
  <2>1. w = [v EXCEPT !.end = "end of stream"]
    BY <1>3 DEF ReadFrame
  <2> QED
    BY <2>1 DEF Inputs
<1>4. CASE v.end = "none" /\ HasHeader(t) /\ TooLarge(t)
  <2>1. w = [v EXCEPT !.end = "too large"]
    BY <1>4 DEF ReadFrame
  <2> QED
    BY <2>1 DEF Inputs
<1>5. CASE v.end = "none" /\ HasHeader(t) /\ ~TooLarge(t) /\ Len(t) < HeaderBytes + FrameLength(t)
  <2>1. w = [v EXCEPT !.end = "io"]
    BY <1>5 DEF ReadFrame
  <2> QED
    BY <2>1 DEF Inputs
<1>6. CASE v.end = "none" /\ HasHeader(t) /\ ~TooLarge(t) /\ ~(Len(t) < HeaderBytes + FrameLength(t))
  <2>1. Whole(t)
    <3>1. ReadsLength(t) /\ HeaderBytes \in Nat /\ Len(t) \in Nat
      BY <1>1, <1>6, FrameLengthFacts, HeaderFacts DEF HeaderLaws
    <3>2. FrameLength(t) \in Nat
      BY <3>1 DEF ReadsLength
    <3> QED
      BY <1>6, <3>1, <3>2 DEF Whole
  <2>2. Payload(t) \in Payloads /\ Rest(t) \in Seq(Bytes)
    BY <1>1, <1>6, <2>1, WholeFacts
  <2>3. CASE Good(HostDecoder, Payload(t))
    <3> DEFINE m == HostDecoder[Payload(t)]
               r == Rest(t)
    <3>1. w = [stream |-> r, end |-> "none", sent |-> Append(v.sent, m)]
      BY <1>6, <2>3 DEF ReadFrame
    <3>2. m \in Msgs(HostDecoder) /\ r \in Seq(Bytes)
      BY <2>2 DEF Msgs
    <3> HIDE DEF m, r
    <3>3. Append(v.sent, m) \in Seq(Msgs(HostDecoder))
      BY <1>1, <3>2
    <3> DEFINE sent == Append(v.sent, m)
    <3> HIDE DEF sent
    <3>4. [stream |-> r, end |-> "none", sent |-> sent] \in Inputs
      BY <3>2, <3>3 DEF Inputs, sent
    <3> QED
      BY <3>1, <3>4 DEF sent
  <2>4. CASE ~Good(HostDecoder, Payload(t))
    <3>1. w = [v EXCEPT !.end = "invalid"]
      BY <1>6, <2>4 DEF ReadFrame
    <3> QED
      BY <3>1 DEF Inputs
  <2> QED
    BY <2>3, <2>4
<1> QED
  BY <1>2, <1>3, <1>4, <1>5, <1>6

NewInput(s) == [stream |-> s, sent |-> <<>>, end |-> "none"]

ReadsFollow(s) ==
  /\ Reads(s)[0] = NewInput(s)
  /\ \A k \in 0 .. Len(s) + 1 : Reads(s)[k] \in Inputs
  /\ \A k \in 1 .. Len(s) + 1 : Reads(s)[k] = ReadFrame(Reads(s)[k - 1])

\* The recursive function Reads has a solution, and follows its equations.
LEMMA ReadsFacts ==
  ASSUME NEW s \in Seq(Bytes)
  PROVE  ReadsFollow(s)
<1> DEFINE n == Len(s) + 1
           first == NewInput(s)
           Body(g, k) == IF k = 0 THEN first ELSE ReadFrame(g[k - 1])
           step == [v \in Inputs |-> [k \in 1 .. n |-> ReadFrame(v)]]
           IsIt(g) == g = [k \in 0 .. n |-> Body(g, k)]
           after == CHOOSE g : IsIt(g)
<1>1. Reads(s) = after
  BY DEF Reads, NewInput
<1>2. n \in Nat /\ \A k \in 1 .. n : k - 1 \in 0 .. n /\ k \in 0 .. n /\ k # 0
  OBVIOUS
<1>3. first \in Inputs
  BY DEF NewInput, Inputs
<1> HIDE DEF n, first
<1>4. step \in StepsOver(Inputs, n)
  BY ReadFrameType DEF StepsOver
<1>5. \A v \in Inputs : \A k \in 1 .. n : step[v][k] = ReadFrame(v)
  OBVIOUS
<1> HIDE DEF step
<1>6. PICK g \in [0 .. n -> Inputs] : Iterates(g, first, step, n)
  BY <1>2, <1>3, <1>4, IteratesExist
<1>7. \A k \in 1 .. n : g[k] = ReadFrame(g[k - 1])
  BY <1>2, <1>5, <1>6 DEF Iterates
<1>8. IsIt(g)
  <2>1. ASSUME NEW k \in 0 .. n PROVE g[k] = Body(g, k)
    <3>1. CASE k = 0
      BY <1>6, <3>1 DEF Iterates
    <3>2. CASE k # 0
      <4>1. k \in 1 .. n
        BY <1>2, <3>2
      <4> QED
        BY <1>7, <3>2, <4>1
    <3> QED
      BY <3>1, <3>2
  <2>2. g = [k \in 0 .. n |-> g[k]]
    BY <1>6
  <2> HIDE DEF Body
  <2> QED
    BY <2>1, <2>2
<1> HIDE DEF IsIt
<1>9. IsIt(after)
  BY <1>8
<1> HIDE DEF after
<1>10. after[0] = first /\ \A k \in 1 .. n : after[k] = ReadFrame(after[k - 1])
  <2>1. \A k \in 0 .. n : after[k] = Body(after, k)
    BY <1>9 DEF IsIt
  <2>2. 0 \in 0 .. n
    BY <1>2
  <2> QED
    BY <1>2, <2>1, <2>2
<1>11. \A k \in 0 .. n : after[k] \in Inputs
  <2>1. \A k \in 1 .. n : after[k - 1] \in Inputs => after[k] = step[after[k - 1]][k]
    BY <1>5, <1>10
  <2> QED
    BY <1>2, <1>3, <1>4, <1>10, <2>1, IteratesType
<1> QED
  BY <1>1, <1>10, <1>11 DEF ReadsFollow, n, first

\* What the host has read: the first g frames, which are good, and, when it ended, why.
ReadAt(s, frames, v, g) ==
  /\ v \in Inputs /\ g \in 0 .. Len(frames) /\ \A k \in 1 .. g : Good(HostDecoder, frames[k])
  /\ v.sent = Slice(Parsed(HostDecoder, frames), 0, g)
  /\ v.stream = Slice(s, End(frames, g), Len(s))
  /\ v.end = "invalid" => g < Len(frames) /\ ~Good(HostDecoder, frames[g + 1])
  /\ v.end \in {"end of stream", "too large", "io"} => g = Len(frames)
  /\ v.end = "too large" <=> v.end \in {"end of stream", "too large", "io"} /\ OverAt(s, End(frames, g), Len(s))
  /\ v.end = "io" => HasHeader(v.stream)

\* A round keeps what the host has read, and takes a byte at least unless it has ended.
LEMMA ReadStep ==
  ASSUME NEW s, NEW frames, Layout(s, frames), NEW v, NEW g, ReadAt(s, frames, v, g)
  PROVE  /\ \E h : ReadAt(s, frames, ReadFrame(v), h)
         /\ v.end # "none" => ReadFrame(v).end # "none"
         /\ ReadFrame(v).end # "none" \/ Len(ReadFrame(v).stream) + 1 <= Len(v.stream)
<1> DEFINE n == Len(frames)
           N == Len(s)
           t == v.stream
           w == ReadFrame(v)
           Ended(why) == w = [v EXCEPT !.end = why]
<1>1. /\ s \in Seq(Bytes) /\ frames \in Seq(Payloads) /\ n \in Nat /\ N \in Nat
      /\ v \in Inputs /\ w \in Inputs /\ g \in 0 .. n /\ g \in Nat
  <2>1. s \in Seq(Bytes) /\ frames \in Seq(Payloads) /\ n \in Nat /\ N \in Nat
    BY DEF Layout
  <2>2. v \in Inputs /\ g \in 0 .. n
    BY DEF ReadAt
  <2>3. w \in Inputs
    BY <2>2, ReadFrameType
  <2> QED
    BY <2>1, <2>2, <2>3
<1>2. /\ t = Slice(s, End(frames, g), N) /\ (\A k \in 1 .. g : Good(HostDecoder, frames[k]))
      /\ v.sent = Slice(Parsed(HostDecoder, frames), 0, g)
  BY DEF ReadAt
<1>3. t \in Seq(Bytes) /\ Len(t) \in Nat
  <2>1. v \in Inputs
    BY <1>1
  <2>2. t \in Seq(Bytes)
    BY ONLY <2>1 DEF Inputs
  <2> HIDE DEF t
  <2> QED
    BY <2>2
<1> HIDE DEF t
<1>4. Looks(s, frames, g, N, t)
  <2>1. End(frames, g) <= N
    BY <1>1 DEF Layout
  <2>2. Looks(s, frames, g, N, Slice(s, End(frames, g), N))
    BY <1>1, <2>1, LooksFacts
  <2> QED
    BY <1>2, <2>2
<1>5. g < n => End(frames, g + 1) <= N
  <2>1. ASSUME g < n PROVE g + 1 \in 0 .. n
    BY <1>1, <2>1
  <2> QED
    BY <2>1 DEF Layout
<1>6. g < n => HasHeader(t) /\ Whole(t) /\ ~TooLarge(t)
  BY <1>4, <1>5 DEF Looks
<1>7. OverAt(s, End(frames, g), N) <=> HasHeader(t) /\ TooLarge(t)
  BY <1>2 DEF OverAt
<1>8. CASE v.end # "none"
  <2>1. w = v
    BY <1>8 DEF ReadFrame
  <2> HIDE DEF w
  <2>2. \E h : ReadAt(s, frames, w, h)
    BY <2>1
  <2> QED
    BY <1>8, <2>1, <2>2 DEF w
<1>9. ASSUME v.end = "none", NEW why \in {"end of stream", "too large", "io"}, Ended(why), g = n,
             why = "too large" <=> OverAt(s, End(frames, g), N), why = "io" => HasHeader(t)
      PROVE  ReadAt(s, frames, w, g) /\ w.end # "none"
  <2>1. w.end = why /\ w.stream = t /\ w.sent = v.sent
    BY <1>1, <1>9 DEF Inputs, t
  <2> HIDE DEF w
  <2>2. why # "none" /\ why # "invalid"
    OBVIOUS
  <2> QED
    BY <1>1, <1>2, <1>9, <2>1, <2>2 DEF ReadAt
<1>10. CASE v.end = "none" /\ ~HasHeader(t)
  <2>1. Ended("end of stream")
    BY <1>10 DEF ReadFrame, t
  <2>2. g = n /\ ~OverAt(s, End(frames, g), N)
    BY <1>1, <1>6, <1>7, <1>10
  <2> HIDE DEF Ended, w
  <2>3. ReadAt(s, frames, w, g) /\ w.end # "none"
    BY <1>9, <1>10, <2>1, <2>2
  <2> QED
    BY <1>10, <2>3 DEF w
<1>11. CASE v.end = "none" /\ HasHeader(t) /\ TooLarge(t)
  <2>1. Ended("too large")
    BY <1>11 DEF ReadFrame, t
  <2>2. g = n /\ OverAt(s, End(frames, g), N)
    BY <1>1, <1>6, <1>7, <1>11
  <2> HIDE DEF Ended, w
  <2>3. ReadAt(s, frames, w, g) /\ w.end # "none"
    BY <1>9, <2>1, <2>2, <1>11
  <2> QED
    BY <1>11, <2>3 DEF w
<1>12. ASSUME HasHeader(t) PROVE Whole(t) <=> ~(Len(t) < HeaderBytes + FrameLength(t))
  <2>1. ReadsLength(t) /\ HeaderBytes \in Nat
    BY <1>3, <1>12, FrameLengthFacts, HeaderFacts DEF HeaderLaws
  <2>2. FrameLength(t) \in Nat
    BY <2>1 DEF ReadsLength
  <2> QED
    BY <1>3, <2>1, <2>2 DEF Whole
<1>13. CASE v.end = "none" /\ HasHeader(t) /\ ~TooLarge(t) /\ ~Whole(t)
  <2>1. Ended("io")
    BY <1>12, <1>13 DEF ReadFrame, t
  <2>2. g = n /\ ~OverAt(s, End(frames, g), N)
    BY <1>1, <1>6, <1>7, <1>13
  <2> HIDE DEF Ended, w
  <2>3. ReadAt(s, frames, w, g) /\ w.end # "none"
    BY <1>9, <1>13, <2>1, <2>2
  <2> QED
    BY <1>13, <2>3 DEF w
<1>14. CASE v.end = "none" /\ HasHeader(t) /\ ~TooLarge(t) /\ Whole(t)
  <2> DEFINE p == frames[g + 1]
             m == HostDecoder[p]
  <2>1. g < n /\ g + 1 \in 0 .. n /\ g + 1 \in 1 .. n
    <3>1. g # n
      BY <1>4, <1>14 DEF Looks
    <3> QED
      BY <1>1, <3>1
  <2>2. Payload(t) = p /\ Rest(t) = Slice(s, End(frames, g + 1), N)
    BY <1>4, <1>14, <2>1 DEF Looks
  <2>3. Len(Rest(t)) + 1 <= Len(t)
    <3>1. Rest(t) \in Seq(Bytes) /\ Len(Rest(t)) + HeaderBytes <= Len(t)
      BY <1>3, <1>14, WholeFacts
    <3>2. HeaderBytes \in Nat /\ HeaderBytes >= 1
      BY HeaderFacts DEF HeaderLaws
    <3>3. Len(Rest(t)) \in Nat
      BY <3>1
    <3> QED
      BY <1>3, <3>1, <3>2, <3>3
  <2>4. CASE Good(HostDecoder, p)
    <3>1. w = [stream |-> Rest(t), end |-> "none", sent |-> Append(v.sent, m)]
      BY <1>12, <1>14, <2>2, <2>4 DEF ReadFrame, t
    <3>2. w.stream = Rest(t) /\ w.end = "none" /\ w.sent = Append(v.sent, m)
      BY <3>1
    <3>3. Append(v.sent, m) = Slice(Parsed(HostDecoder, frames), 0, g + 1)
      <4>1. Parsed(HostDecoder, frames) \in Seq(Msgs(HostDecoder)) /\ Len(Parsed(HostDecoder, frames)) = n /\ Parsed(HostDecoder, frames)[g + 1] = m
        BY <1>1, <2>1, ParsedFacts
      <4>2. 0 \in Nat /\ 0 <= g /\ g < Len(Parsed(HostDecoder, frames))
        BY <1>1, <2>1, <4>1
      <4>3. Append(Slice(Parsed(HostDecoder, frames), 0, g), Parsed(HostDecoder, frames)[g + 1]) = Slice(Parsed(HostDecoder, frames), 0, g + 1)
        BY <1>1, <4>1, <4>2, SliceAppend
      <4> QED
        BY <1>2, <4>1, <4>3
    <3>4. \A k \in 1 .. g + 1 : Good(HostDecoder, frames[k])
      <4>1. \A k \in 1 .. g + 1 : k \in 1 .. g \/ k = g + 1
        BY <1>1
      <4> QED
        BY <1>2, <2>4, <4>1
    <3> HIDE DEF w
    <3>5. ReadAt(s, frames, w, g + 1)
      <4>1. w \in Inputs
        BY <1>1 DEF w
      <4> HIDE DEF m
      <4> QED
        BY <2>1, <2>2, <3>2, <3>3, <3>4, <4>1 DEF ReadAt
    <3> QED
      BY <1>14, <2>3, <3>2, <3>5 DEF w, t
  <2>5. CASE ~Good(HostDecoder, p)
    <3>1. w = [v EXCEPT !.end = "invalid"]
      BY <1>12, <1>14, <2>2, <2>5 DEF ReadFrame, t
    <3>2. w.end = "invalid" /\ w.stream = t /\ w.sent = v.sent
      BY <1>1, <3>1 DEF Inputs, t
    <3> HIDE DEF w
    <3>3. ReadAt(s, frames, w, g)
      <4>1. w \in Inputs
        BY <1>1 DEF w
      <4> QED
        BY <1>1, <1>2, <2>1, <2>5, <3>2, <4>1 DEF ReadAt
    <3> QED
      BY <1>14, <3>2, <3>3 DEF w
  <2> QED
    BY <2>4, <2>5
<1> QED
  BY <1>8, <1>10, <1>11, <1>13, <1>14

\* The host, at the end of a stream.
HostLaws(s, frames, v) ==
  /\ v.end # "none" /\ v.end \in {"none", "end of stream", "too large", "io", "invalid"}
  /\ ReadAt(s, frames, v, Sound(HostDecoder, frames))

\* The host ends, with the good frames at the head read.
LEMMA HostFacts ==
  ASSUME NEW s, NEW frames, Layout(s, frames)
  PROVE  HostLaws(s, frames, ReadStdin(s))
<1> DEFINE n == Len(frames)
           N == Len(s)
           m == N + 1
           after == Reads(s)
           Going(k) == /\ \E g : ReadAt(s, frames, after[k], g)
                       /\ after[k].end # "none" \/ Len(after[k].stream) + k <= N
           P == {k \in 0 .. m : Going(k)}
<1>1. s \in Seq(Bytes) /\ frames \in Seq(Payloads) /\ n \in Nat /\ N \in Nat /\ m \in Nat /\ m > N
  BY DEF Layout
<1>2. ReadsFollow(s)
  BY <1>1, ReadsFacts
<1>3. /\ after[0] = NewInput(s) /\ \A k \in 0 .. m : after[k] \in Inputs
      /\ \A k \in 1 .. m : after[k] = ReadFrame(after[k - 1])
  BY <1>2 DEF ReadsFollow
<1>4. ReadStdin(s) = after[m]
  BY DEF ReadStdin
<1> HIDE DEF after, m
<1>5. \A k \in 0 .. m : Len(after[k].stream) \in Nat /\ after[k].end \in {"none", "end of stream", "too large", "io", "invalid"}
  <2>1. ASSUME NEW v \in Inputs
        PROVE  Len(v.stream) \in Nat /\ v.end \in {"none", "end of stream", "too large", "io", "invalid"}
    <3>1. v.stream \in Seq(Bytes) /\ v.end \in {"none", "end of stream", "too large", "io", "invalid"}
      BY ONLY <2>1 DEF Inputs
    <3> DEFINE t == v.stream
    <3>2. t \in Seq(Bytes)
      BY <3>1
    <3> HIDE DEF t
    <3>3. Len(t) \in Nat
      BY <3>2
    <3> QED
      BY <3>1, <3>3 DEF t
  <2> QED
    BY <1>3, <2>1
<1>6. 0 \in P
  <2> DEFINE v == after[0]
  <2>1. v \in Inputs /\ v.stream = s /\ v.sent = <<>> /\ v.end = "none" /\ 0 \in 0 .. m /\ 0 \in 0 .. n
    BY <1>1, <1>3 DEF NewInput
  <2>2. Slice(Parsed(HostDecoder, frames), 0, 0) = <<>>
    <3>1. Parsed(HostDecoder, frames) \in Seq(Msgs(HostDecoder)) /\ 0 <= Len(Parsed(HostDecoder, frames))
      BY <1>1, ParsedFacts
    <3> QED
      BY <3>1, EmptySlice
  <2>3. Slice(s, End(frames, 0), N) = s
    <3>1. End(frames, 0) = 0 /\ Slice(s, 0, N) = s
      BY <1>1, EndFacts, SliceWhole
    <3> QED
      BY <3>1
  <2>4. \A k \in 1 .. 0 : Good(HostDecoder, frames[k])
    OBVIOUS
  <2> HIDE DEF v
  <2>5. ReadAt(s, frames, v, 0)
    BY <2>1, <2>2, <2>3, <2>4 DEF ReadAt
  <2>6. Len(v.stream) + 0 <= N
    BY <1>1, <2>1
  <2>7. Going(0)
    BY <2>5, <2>6 DEF v
  <2> HIDE DEF Going
  <2> QED
    BY <2>1, <2>7
<1>7. ASSUME NEW k \in 1 .. m, k - 1 \in P PROVE k \in P
  <2> DEFINE v == after[k - 1]
             w == ReadFrame(v)
  <2>1. k \in 0 .. m /\ k - 1 \in 0 .. m /\ k \in Nat
    BY <1>1
  <2>2. after[k] = w
    BY <1>3
  <2>3. PICK g : ReadAt(s, frames, v, g)
    BY <1>7
  <2>4. v.end # "none" \/ Len(v.stream) + (k - 1) <= N
    BY <1>7
  <2>5. Len(v.stream) \in Nat /\ Len(w.stream) \in Nat
    BY <1>5, <2>1, <2>2
  <2> HIDE DEF v
  <2>6. /\ \E h : ReadAt(s, frames, w, h)
        /\ v.end # "none" => w.end # "none"
        /\ w.end # "none" \/ Len(w.stream) + 1 <= Len(v.stream)
    BY <2>3, ReadStep
  <2> HIDE DEF w
  <2>7. w.end # "none" \/ Len(w.stream) + k <= N
    BY <1>1, <2>1, <2>4, <2>5, <2>6
  <2>8. Going(k)
    BY <2>2, <2>6, <2>7
  <2> HIDE DEF Going
  <2> QED
    BY <2>1, <2>8
<1> HIDE DEF P
<1>8. m \in P /\ m \in 0 .. m
  <2>1. \A k \in 1 .. m : k - 1 \in P => k \in P
    BY <1>7
  <2>2. \A k \in 0 .. m : k \in P
    BY <1>1, <1>6, <2>1, CountUp
  <2> QED
    BY <1>1, <2>2
<1> DEFINE v == after[m]
<1>9. v.end # "none"
  <2>1. v.end # "none" \/ Len(v.stream) + m <= N
    BY <1>8 DEF P
  <2>2. Len(v.stream) \in Nat
    BY <1>5, <1>8
  <2> HIDE DEF v
  <2> QED
    BY <1>1, <2>1, <2>2
<1>10. PICK g : ReadAt(s, frames, v, g)
  BY <1>8 DEF P
<1>11. v.end \in {"none", "end of stream", "too large", "io", "invalid"}
  BY <1>5, <1>8
<1> HIDE DEF v
<1>12. g = Sound(HostDecoder, frames)
  <2>1. g \in 0 .. n /\ (\A k \in 1 .. g : Good(HostDecoder, frames[k]))
    BY <1>10 DEF ReadAt
  <2>2. g < n => ~Good(HostDecoder, frames[g + 1])
    <3>1. v.end \in {"end of stream", "too large", "io"} => g = n
      BY <1>10 DEF ReadAt
    <3>2. v.end = "invalid" => ~Good(HostDecoder, frames[g + 1])
      BY <1>10 DEF ReadAt
    <3>3. CASE v.end = "invalid"
      BY <3>2, <3>3
    <3>4. CASE v.end \in {"end of stream", "too large", "io"}
      <4>1. g = n
        BY <3>1, <3>4
      <4>2. ~(g < n)
        BY <1>1, <4>1
      <4> QED
        BY <4>2
    <3>5. v.end = "invalid" \/ v.end \in {"end of stream", "too large", "io"}
      BY <1>9, <1>11
    <3> QED
      BY <3>3, <3>4, <3>5
  <2>3. GoodHead(HostDecoder, frames, g)
    BY <2>1, <2>2 DEF GoodHead
  <2> QED
    BY <1>1, <2>3, SoundFacts
<1>13. HostLaws(s, frames, v)
  BY <1>9, <1>10, <1>11, <1>12 DEF HostLaws
<1> QED
  BY <1>4, <1>13 DEF v

\* The frames of a stream arrive: whole, once and in order on the client's side however the
\* stream is cut, and on the host's as far as serde_json takes them
\* (framing.ts:14-34, client.ts:49-55, server.rs:146-183).
THEOREM FramesArriveInOrder == FramesInOrder
<1> SUFFICES ASSUME NEW s \in Streams
             PROVE  LET frames == Frames[s]
                        single == Delivered(s, 1 .. Len(s))
                        told   == ReadStdin(s)
                    IN  /\ \A cuts \in SUBSET (1 .. Len(s)) : Len(s) \in cuts =>
                             LET link == Delivered(s, cuts)
                             IN  /\ link.closed <=> Broken(ClientDecoder, s)
                                 /\ ~Broken(ClientDecoder, s) =>
                                      /\ link.received = Parsed(ClientDecoder, frames)
                                      /\ link.buffer = LeftOver(s)
                                 /\ ArrivedFrom(link.received, frames)
                        /\ IsPrefix(Parsed(ClientDecoder, SoundFrames(ClientDecoder, frames)),
                                    single.received)
                        /\ told.sent = Parsed(HostDecoder, SoundFrames(HostDecoder, frames))
                        /\ told.end \in {"too large", "invalid"} <=> Broken(HostDecoder, s)
                        /\ ~Broken(ClientDecoder, s) /\ ~Broken(HostDecoder, s) =>
                             (Finishes(single) <=>
                                (told.end = "end of stream" /\ LeftOver(s) = <<>>))
  BY DEF FramesInOrder
<1> DEFINE frames == Frames[s]
           n == Len(frames)
           before == SoundFrames(ClientDecoder, frames)
           taken == SoundFrames(HostDecoder, frames)
           broken == Broken(ClientDecoder, s)
           refused == Broken(HostDecoder, s)
           single == Delivered(s, 1 .. Len(s))
           told == ReadStdin(s)
           left == Slice(s, End(frames, n), Len(s))
<1>1. Layout(s, frames) /\ LeftOver(s) = left
  BY FramesFacts
<1>3. (broken <=> Breaks(ClientDecoder, s, frames)) /\ (refused <=> Breaks(HostDecoder, s, frames))
  BY <1>1 DEF OverLimit, Broken, Breaks, OverAt
<1> HIDE DEF frames, broken, refused
<1>2. s \in Seq(Bytes) /\ frames \in Seq(Payloads) /\ n \in Nat /\ Len(s) \in Nat
  BY <1>1 DEF Layout
<1>4. ASSUME NEW cuts, Len(s) = 0 \/ Len(s) \in cuts
      PROVE  LET link == Delivered(s, cuts)
             IN  /\ link.closed <=> broken
                 /\ ~broken => /\ link.received = Parsed(ClientDecoder, frames)
                               /\ link.buffer = left
                 /\ ArrivedFrom(link.received, frames)
  <2>1. ClientLaws(s, frames, Delivered(s, cuts))
    BY <1>1, <1>4, ClientFacts
  <2> QED
    BY <1>3, <2>1 DEF ClientLaws
<1>5. Len(s) = 0 \/ Len(s) \in 1 .. Len(s)
  BY <1>2
<1>6. ~broken => single.buffer = left
  BY <1>4, <1>5
<1>7. IsPrefix(Parsed(ClientDecoder, before), single.received)
  BY <1>1, SingleFacts DEF SoundFrames
<1>8. HostLaws(s, frames, told)
  BY <1>1, HostFacts
<1> DEFINE x == Sound(HostDecoder, frames)
<1>9. GoodHead(HostDecoder, frames, x)
  BY <1>2, SoundFacts
<1>10. x \in 0 .. n /\ x \in Nat
  BY <1>2, <1>9 DEF GoodHead
<1>11. Parsed(HostDecoder, taken) = Slice(Parsed(HostDecoder, frames), 0, x)
  BY <1>2, <1>10, ParsedSlice DEF SoundFrames
<1>20. refused <=> x < n \/ OverAt(s, End(frames, n), Len(s))
  BY <1>3 DEF Breaks
<1> HIDE DEF n, before, taken, single, told, left, x
<1>12. ReadAt(s, frames, told, x)
  BY <1>8 DEF HostLaws, x
<1>13. told.sent = Parsed(HostDecoder, taken)
  BY <1>11, <1>12 DEF ReadAt
<1>14. told.end = "invalid" \/ told.end \in {"end of stream", "too large", "io"}
  BY <1>8 DEF HostLaws
<1>15. told.end = "invalid" => refused
  <2>1. told.end = "invalid" => x < n
    BY <1>12 DEF ReadAt, n
  <2> QED
    BY <1>20, <2>1
<1>16. ASSUME told.end \in {"end of stream", "too large", "io"}
       PROVE  x = n /\ (refused <=> told.end = "too large")
  <2>1. x = n /\ (told.end = "too large" <=> OverAt(s, End(frames, x), Len(s)))
    BY <1>12, <1>16 DEF ReadAt, n
  <2>2. ~(x < n)
    <3>1. x = n /\ n \in Nat
      BY <1>2, <2>1 DEF n
    <3> QED
      BY ONLY <3>1
  <2>3. refused <=> OverAt(s, End(frames, n), Len(s))
    BY <1>20, <2>2
  <2> QED
    BY <2>1, <2>3
<1>17. told.end \in {"too large", "invalid"} <=> refused
  <2>1. CASE told.end = "invalid"
    BY <1>15, <2>1
  <2>2. CASE told.end \in {"end of stream", "too large", "io"}
    BY <1>16, <2>2
  <2> QED
    BY <1>14, <2>1, <2>2
<1>18. ASSUME ~broken, ~refused
       PROVE  Finishes(single) <=> (told.end = "end of stream" /\ left = <<>>)
  <2>1. Finishes(single) <=> left = <<>>
    BY <1>6, <1>18 DEF Finishes
  <2>2. ASSUME left = <<>>, told.end = "io" PROVE FALSE
    <3>1. x = n
      BY <1>16, <2>2
    <3>2. HasHeader(told.stream) /\ told.stream = Slice(s, End(frames, x), Len(s))
      BY <1>12, <2>2 DEF ReadAt
    <3>3. HasHeader(<<>>)
      BY <2>2, <3>1, <3>2 DEF left
    <3>4. HeaderBytes \in Nat /\ HeaderBytes >= 1
      BY HeaderFacts DEF HeaderLaws
    <3> QED
      BY <3>3, <3>4 DEF HasHeader
  <2>3. told.end = "end of stream" \/ told.end = "io"
    <3>1. told.end # "invalid" /\ told.end # "too large"
      BY <1>17, <1>18
    <3> QED
      BY <1>14, <3>1
  <2> QED
    BY <2>1, <2>2, <2>3
<1>19. \A cuts \in SUBSET (1 .. Len(s)) : Len(s) \in cuts =>
         LET link == Delivered(s, cuts)
         IN  /\ link.closed <=> broken
             /\ ~broken => /\ link.received = Parsed(ClientDecoder, frames)
                           /\ link.buffer = left
             /\ ArrivedFrom(link.received, frames)
  BY <1>4
<1> QED
  BY <1>1, <1>7, <1>13, <1>17, <1>18, <1>19 DEF broken, refused, before, taken, single, told, frames

\* The frames of both directions are read as each side's decoder reads a payload, in any
\* behaviour of the link.
THEOREM FramesAreSound == Spec => []FramingSound
<1>1. FramingSound
  BY FramesArriveInOrder DEF FramingSound
<1>2. Spec => []FramingSound
  BY <1>1, PTL
<1> QED
  BY <1>2
==============================================================================
