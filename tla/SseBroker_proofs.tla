-------------------------- MODULE SseBroker_proofs --------------------------
(***************************************************************************)
(* Proofs about server-sent events, for any threads, connections and       *)
(* events: types, the writes of a connection, and what it is sent.         *)
(***************************************************************************)
EXTENDS SseBroker, SequenceTheorems, FiniteSetTheorems, TLAPS

(* writing_ is set while a write is on its way or under way, and there is  *)
(* never more than that one.                                               *)
SockFields == {"open", "writing", "buf", "note", "kicks", "chunks"}
Sound(s) ==
    /\ DOMAIN s = SockFields
    /\ s.kicks \in {0, 1}
    /\ s.chunks = <<>> \/ \E x : s.chunks = <<x>>
    /\ s.kicks = 1 => s.writing /\ s.chunks = <<>>
    /\ s.chunks # <<>> => s.writing
    /\ s.writing => s.kicks = 1 \/ s.chunks # <<>>

SockInv == DOMAIN sock = Conns /\ \A c \in Conns : Sound(sock[c])

LEMMA NewSockIsSound == Sound(NewSock)
  BY DEF Sound, NewSock, SockFields

(* A message that is sent starts a write only if there is none.            *)
LEMMA SendKeeps == ASSUME SockInv, NEW c \in Conns, NEW m, Send(c, m) PROVE SockInv'
<1>1. Sound(sock[c])
  BY DEF SockInv
<1>2. CASE ~sock[c].open
  BY <1>2 DEF SockInv, Send
<1>3. CASE sock[c].open
  <2> DEFINE s == [sock[c] EXCEPT !.buf = Join(@, m), !.note = @ \/ m = Quiet, !.writing = TRUE,
                                  !.kicks = IF sock[c].writing THEN @ ELSE @ + 1]
  <2>1. sock' = [sock EXCEPT ![c] = s]
    BY <1>3 DEF Send
  <2>2. Sound(s)
    BY <1>1 DEF Sound, SockFields
  <2> HIDE DEF s
  <2>3. QED
    BY <2>1, <2>2 DEF SockInv
<1>4. QED
  BY <1>2, <1>3

(* A write begins with all that is in the buffer.                          *)
LEMMA DoWriteKeeps == ASSUME SockInv, NEW c \in Conns, DoWrite(c) PROVE SockInv'
<1>1. Sound(sock[c]) /\ sock[c].kicks = 1 /\ sock[c].chunks = <<>>
  BY DEF SockInv, Sound, DoWrite
<1> DEFINE s == [sock[c] EXCEPT !.kicks = @ - 1, !.buf = <<>>, !.note = FALSE,
                                !.writing = Waits(c),
                                !.chunks = IF Waits(c) THEN Append(@, sock[c].buf) ELSE @]
<1>2. sock' = [sock EXCEPT ![c] = s]
  BY DEF DoWrite
<1>3. DOMAIN s = SockFields
  BY <1>1 DEF Sound, SockFields
<1>4. s.writing <=> Waits(c)
  BY <1>1, Zenon DEF Sound, SockFields
<1>5. s.kicks = 0
  BY <1>1 DEF Sound, SockFields
<1>6. s.chunks = IF Waits(c) THEN <<sock[c].buf>> ELSE <<>>
  BY <1>1 DEF Sound, SockFields
<1> HIDE DEF s
<1>7. Sound(s)
  <2>1. CASE ~Waits(c)
    BY <1>3, <1>4, <1>5, <1>6, <2>1 DEF Sound
  <2>2. CASE Waits(c)
    BY <1>3, <1>4, <1>5, <1>6, <2>2 DEF Sound
  <2>3. QED
    BY <2>1, <2>2
<1>8. QED
  BY <1>2, <1>7 DEF SockInv

(* A write ends, and the next begins if something came in meanwhile.       *)
LEMMA WriteEnds == ASSUME SockInv, NEW c \in Conns, Written(c) \/ WriteFails(c) PROVE SockInv'
<1>1. Sound(sock[c]) /\ sock[c].chunks # <<>>
  BY DEF SockInv, Written, Deliver, WriteFails
<1>2. sock[c].kicks = 0 /\ Tail(sock[c].chunks) = <<>>
  <2>1. PICK x : sock[c].chunks = <<x>>
    BY <1>1 DEF Sound
  <2>2. QED
    BY <1>1, <2>1 DEF Sound
<1>3. CASE Written(c)
  <2> DEFINE s == [sock[c] EXCEPT !.chunks = Tail(@), !.writing = Waits(c),
                                  !.kicks = IF Waits(c) THEN @ + 1 ELSE @]
  <2>1. sock' = [sock EXCEPT ![c] = s]
    BY <1>3 DEF Written
  <2>2. s.chunks = <<>> /\ DOMAIN s = SockFields
    BY <1>1, <1>2 DEF Sound, SockFields
  <2>3. s.writing <=> Waits(c)
    BY <1>1, Zenon DEF Sound, SockFields
  <2>4. s.kicks = IF Waits(c) THEN 1 ELSE 0
    BY <1>1, <1>2 DEF Sound, SockFields
  <2> HIDE DEF s
  <2>5. Sound(s)
    BY <2>2, <2>3, <2>4 DEF Sound
  <2>6. QED
    BY <2>1, <2>5 DEF SockInv
<1>4. CASE WriteFails(c)
  <2> DEFINE s == [sock[c] EXCEPT !.chunks = Tail(@), !.writing = FALSE, !.open = FALSE]
  <2>1. sock' = [sock EXCEPT ![c] = s]
    BY <1>4 DEF WriteFails
  <2>2. s.chunks = <<>> /\ DOMAIN s = SockFields /\ s.kicks = 0 /\ ~s.writing
    BY <1>1, <1>2 DEF Sound, SockFields
  <2> HIDE DEF s
  <2>3. Sound(s)
    BY <2>2 DEF Sound
  <2>4. QED
    BY <2>1, <2>3 DEF SockInv
<1>5. QED
  BY <1>3, <1>4

LEMMA CloseKeeps == ASSUME SockInv, NEW c \in Conns, Close(c) PROVE SockInv'
<1> DEFINE s == [sock[c] EXCEPT !.open = FALSE]
<1>1. sock' = [sock EXCEPT ![c] = s]
  BY DEF Close
<1>2. Sound(s)
  BY DEF SockInv, Sound, SockFields
<1> HIDE DEF s
<1>3. QED
  BY <1>1, <1>2 DEF SockInv

LEMMA SockStep == SockInv /\ [Next]_vars => SockInv'
<1> SUFFICES ASSUME SockInv, [Next]_vars PROVE SockInv'
  OBVIOUS
<1>1. ASSUME UNCHANGED sock PROVE SockInv'
  BY <1>1 DEF SockInv
<1>2. CASE ResumeFound \/ CloseAll \/ UNCHANGED vars
  BY <1>1, <1>2 DEF ResumeFound, CloseAll, vars
<1>3. ASSUME NEW b \in Broadcasters, Broadcast(b) PROVE SockInv'
  BY <1>1, <1>3, SendKeeps DEF Broadcast, Number, List, SendTo
<1>4. ASSUME NEW c \in Conns, Handshake(c) \/ KeepAlive(c) PROVE SockInv'
  <2>1. UNCHANGED sock \/ \E m : Send(c, m)
    BY <1>4 DEF Handshake, Add, ReadHistory, Replay, SendInit, TakeResume, KeepAlive
  <2>2. QED
    BY <1>1, <2>1, SendKeeps
<1>5. ASSUME NEW c \in Conns, Connect(c) \/ Reap(c) \/ Write(c) \/ Close(c) PROVE SockInv'
  BY <1>1, <1>5, DoWriteKeeps, WriteEnds, CloseKeeps DEF Connect, Reap, Write
<1>6. QED
  BY <1>2, <1>3, <1>4, <1>5 DEF Next

(* However many threads send to a connection and whenever its writes end   *)
(* or fail, it never has two asynchronous writes (SseSubscriber::send,     *)
(* do_write).                                                              *)
THEOREM WritesDoNotMeet == Spec => []OneWriteAtATime
<1>1. Init => SockInv
  BY NewSockIsSound DEF Init, SockInv
<1>2. SockInv => OneWriteAtATime
  <2> SUFFICES ASSUME SockInv, NEW c \in Conns PROVE sock[c].kicks + Len(sock[c].chunks) =< 1
    BY DEF OneWriteAtATime
  <2>1. Sound(sock[c])
    BY DEF SockInv
  <2>2. CASE sock[c].chunks = <<>>
    BY <2>1, <2>2 DEF Sound
  <2>3. CASE sock[c].chunks # <<>>
    <3>1. PICK x : sock[c].chunks = <<x>>
      BY <2>1, <2>3 DEF Sound
    <3>2. sock[c].kicks = 0 /\ Len(sock[c].chunks) = 1
      BY <2>1, <3>1 DEF Sound
    <3>3. QED
      BY <3>2
  <2>4. QED
    BY <2>2, <2>3
<1>3. QED
  BY <1>1, <1>2, SockStep, PTL DEF Spec

-----------------------------------------------------------------------------
(* Types.  The history holds the newest events, one after the other.       *)
Sends == [at : {"idle", "list", "send"}, id : 0..MaxEvents, todo : SUBSET Conns]
Clients == [at : {"none", "add", "read", "replay", "init", "take", "live", "gone"},
            last : 0..MaxEvents, missed : SUBSET Event]
Sockets == [open : BOOLEAN, writing : BOOLEAN, buf : Seq(Event), note : BOOLEAN,
            kicks : Nat, chunks : Seq(Seq(Event))]

Contiguous ==
    /\ Len(history) < nextId
    /\ \A i \in 1 .. Len(history) : history[i] = nextId - Len(history) + i - 1
TypeInv == TypeOK /\ Contiguous

LEMMA SendTyped ==
    ASSUME sock \in [Conns -> Sockets], NEW c \in Conns, NEW m \in 0 .. MaxEvents, Send(c, m)
    PROVE  sock' \in [Conns -> Sockets]
<1>1. CASE ~sock[c].open
  BY <1>1 DEF Send
<1>2. CASE sock[c].open
  <2> DEFINE b == Join(sock[c].buf, m)
             n == sock[c].note \/ m = Quiet
             k == IF sock[c].writing THEN sock[c].kicks ELSE sock[c].kicks + 1
  <2>1. sock[c] \in Sockets
    OBVIOUS
  <2>2. b \in Seq(Event)
    <3>1. sock[c].buf \in Seq(Event)
      BY <2>1 DEF Sockets
    <3>2. m = Quiet \/ m \in Event
      BY SseAssumption DEF Quiet, Event
    <3>3. QED
      BY <3>1, <3>2 DEF Join
  <2>3. n \in BOOLEAN
    BY DEF Sockets
  <2>4. k \in Nat
    BY <2>1 DEF Sockets
  <2>5. sock' = [sock EXCEPT ![c] = [sock[c] EXCEPT !.buf = b, !.note = n, !.writing = TRUE,
                                                    !.kicks = k]]
    BY <1>2 DEF Send
  <2> HIDE DEF b, n, k
  <2>6. [sock[c] EXCEPT !.buf = b, !.note = n, !.writing = TRUE, !.kicks = k] \in Sockets
    BY <2>1, <2>2, <2>3, <2>4 DEF Sockets
  <2>7. QED
    BY <2>5, <2>6
<1>3. QED
  BY <1>1, <1>2

LEMMA WriteTyped ==
    ASSUME sock \in [Conns -> Sockets], got \in [Conns -> Seq(Event)], NEW c \in Conns, Write(c)
    PROVE  sock' \in [Conns -> Sockets] /\ got' \in [Conns -> Seq(Event)]
<1>0. sock[c] \in Sockets
  OBVIOUS
<1>1. CASE DoWrite(c)
  <2>1. sock[c].kicks - 1 \in Nat /\ Waits(c) \in BOOLEAN
    BY <1>0, <1>1 DEF DoWrite, Sockets, Waits
  <2>2. (IF Waits(c) THEN Append(sock[c].chunks, sock[c].buf) ELSE sock[c].chunks) \in Seq(Seq(Event))
    BY <1>0 DEF Sockets
  <2> DEFINE k == sock[c].kicks - 1
             w == Waits(c)
             x == IF Waits(c) THEN Append(sock[c].chunks, sock[c].buf) ELSE sock[c].chunks
             none == <<>>
  <2>3. /\ sock' = [sock EXCEPT ![c] = [sock[c] EXCEPT !.kicks = k, !.buf = none, !.note = FALSE,
                                                       !.writing = w, !.chunks = x]]
        /\ got' = got
    BY <1>1 DEF DoWrite
  <2>4. k \in Nat /\ w \in BOOLEAN /\ x \in Seq(Seq(Event)) /\ none \in Seq(Event)
    BY <2>1, <2>2
  <2> HIDE DEF k, w, x, none
  <2>5. [sock[c] EXCEPT !.kicks = k, !.buf = none, !.note = FALSE, !.writing = w, !.chunks = x]
          \in Sockets
    BY <1>0, <2>4 DEF Sockets
  <2>6. QED
    BY <2>3, <2>5
<1>2. ASSUME sock[c].chunks # <<>>
      PROVE  Tail(sock[c].chunks) \in Seq(Seq(Event)) /\ Head(sock[c].chunks) \in Seq(Event)
  BY <1>0, <1>2 DEF Sockets
<1>3. CASE Written(c)
  <2>1. (IF Waits(c) THEN sock[c].kicks + 1 ELSE sock[c].kicks) \in Nat /\ Waits(c) \in BOOLEAN
    BY <1>0 DEF Sockets, Waits
  <2>2. sock' \in [Conns -> Sockets]
    BY <1>0, <1>2, <1>3, <2>1 DEF Written, Deliver, Sockets
  <2>3. got' \in [Conns -> Seq(Event)]
    BY <1>2, <1>3 DEF Written, Deliver
  <2>4. QED
    BY <2>2, <2>3
<1>4. CASE WriteFails(c)
  BY <1>0, <1>2, <1>4 DEF WriteFails, Sockets
<1>5. QED
  BY <1>1, <1>3, <1>4 DEF Write

(* The first event a reader of the history lacks exists, if it lacks any.  *)
LEMMA ClaimGrows ==
    ASSUME TypeInv, NEW c \in Conns
    PROVE  /\ Min(Lacking(c) \cup {from[c]}) \in Lacking(c) \cup {from[c]}
           /\ \A x \in Lacking(c) \cup {from[c]} : Min(Lacking(c) \cup {from[c]}) =< x
<1> DEFINE S == Lacking(c) \cup {from[c]}
           low == nextId - Len(history)
           first == IF conn[c].last >= low THEN conn[c].last + 1 ELSE low
<1>1. /\ nextId \in Nat /\ Len(history) \in Nat /\ history \in Seq(Event)
      /\ from[c] \in Nat /\ conn[c].last \in Nat /\ low \in Nat
  BY SseAssumption DEF TypeInv, TypeOK, Contiguous, Event
<1>2. Lacking(c) = {e \in Nat : first =< e /\ e < nextId}
  <2>1. ToSet(history) = {e \in Nat : low =< e /\ e < nextId}
    <3>1. \A e \in Nat : low =< e /\ e < nextId =>
             e - low + 1 \in 1 .. Len(history) /\ history[e - low + 1] = e
      BY <1>1 DEF TypeInv, Contiguous
    <3>2. \A i \in 1 .. Len(history) : history[i] \in Nat /\ low =< history[i] /\ history[i] < nextId
      BY <1>1 DEF TypeInv, Contiguous
    <3>3. DOMAIN history = 1 .. Len(history)
      BY <1>1
    <3>4. QED
      BY <3>1, <3>2, <3>3 DEF ToSet
  <2>2. QED
    BY <2>1, <1>1 DEF Lacking
<1>3. \E x \in S : \A y \in S : x =< y
  <2>1. CASE first < nextId /\ first =< from[c]
    <3>1. first \in S /\ \A y \in S : first =< y
      BY <1>1, <1>2, <2>1
    <3>2. QED
      BY <3>1
  <2>2. CASE ~(first < nextId /\ first =< from[c])
    <3>1. from[c] \in S /\ \A y \in S : from[c] =< y
      BY <1>1, <1>2, <2>2
    <3>2. QED
      BY <3>1
  <2>3. QED
    BY <2>1, <2>2
<1>4. QED
  BY <1>3 DEF Min

(* An event gets the next number, and the oldest leaves a full history.    *)
LEMMA NumberTyped ==
    ASSUME TypeInv, NEW b \in Broadcasters, Number(b)
    PROVE  /\ nextId' \in 1 .. MaxEvents + 1
           /\ history' \in Seq(Event) /\ Len(history') =< HistoryMax
           /\ bc' \in [Broadcasters -> Sends] /\ sender' \in Seq(Broadcasters)
           /\ Contiguous'
<1>1. /\ nextId \in Nat \ {0} /\ nextId =< MaxEvents /\ nextId' = nextId + 1 /\ nextId \in Event
      /\ MaxEvents \in Nat /\ HistoryMax \in Nat \ {0}
  BY SseAssumption DEF TypeInv, TypeOK, Number, Event
<1>2. history \in Seq(Event) /\ Len(history) \in Nat /\ Len(history) =< HistoryMax
  BY DEF TypeInv, TypeOK
<1> DEFINE h == Append(history, nextId)
<1>3. /\ h \in Seq(Event) /\ Len(h) = Len(history) + 1
      /\ \A i \in 1 .. Len(h) : h[i] = nextId - Len(history) + i - 1
  BY <1>1, <1>2 DEF TypeInv, Contiguous
<1>4. history' = IF Len(h) > HistoryMax THEN Tail(h) ELSE h
  BY DEF Number
<1> HIDE DEF h
<1>5. /\ Tail(h) \in Seq(Event) /\ Len(Tail(h)) = Len(history)
      /\ \A i \in 1 .. Len(history) : Tail(h)[i] = h[i + 1]
  BY <1>2, <1>3
<1>6. bc' \in [Broadcasters -> Sends]
  BY <1>1, SseAssumption DEF TypeInv, TypeOK, Number, Sends
<1>7. sender' \in Seq(Broadcasters)
  BY DEF TypeInv, TypeOK, Number
<1>8. CASE Len(h) > HistoryMax
  <2>1. history' = Tail(h) /\ Len(history') = Len(history)
    BY <1>4, <1>5, <1>8
  <2>2. \A i \in 1 .. Len(history) : history'[i] = nextId' - Len(history) + i - 1
    BY <1>1, <1>2, <1>3, <1>5, <2>1
  <2>3. Contiguous'
    <3>1. Len(history)' = Len(history) /\ Len(history)' < nextId'
      BY <1>1, <1>2, <2>1 DEF TypeInv, Contiguous
    <3>2. \A i \in 1 .. Len(history)' : history'[i] = nextId' - Len(history)' + i - 1
      BY <2>2, <3>1
    <3>3. QED
      BY <3>1, <3>2 DEF Contiguous
  <2>4. QED
    BY <1>1, <1>2, <1>5, <1>6, <1>7, <2>1, <2>3
<1>9. CASE ~(Len(h) > HistoryMax)
  <2>1. history' = h
    BY <1>4, <1>9
  <2>2. Contiguous'
    <3>1. Len(history)' = Len(h) /\ Len(history)' < nextId'
      BY <1>1, <1>2, <1>3, <2>1 DEF TypeInv, Contiguous
    <3>2. \A i \in 1 .. Len(h) : history'[i] = nextId' - Len(h) + i - 1
      BY <1>1, <1>2, <1>3, <2>1
    <3>3. QED
      BY <3>1, <3>2 DEF Contiguous
  <2>3. QED
    BY <1>1, <1>2, <1>3, <1>6, <1>7, <1>9, <2>1, <2>2
<1>10. QED
  BY <1>8, <1>9

LEMMA TypeStep == TypeInv /\ [Next]_vars => TypeInv'
<1> SUFFICES ASSUME TypeInv, [Next]_vars PROVE TypeInv'
  OBVIOUS
<1>0. /\ bc \in [Broadcasters -> Sends] /\ conn \in [Conns -> Clients]
      /\ sock \in [Conns -> Sockets] /\ got \in [Conns -> Seq(Event)]
      /\ subs \in SUBSET Conns /\ toClose \in SUBSET Conns
      /\ from \in [Conns -> 1 .. MaxEvents + 1] /\ nextId \in 1 .. MaxEvents + 1
  BY DEF TypeInv, TypeOK, Sends, Clients, Sockets
<1>f. ASSUME UNCHANGED <<nextId, history, sender>>,
             bc' \in [Broadcasters -> Sends], conn' \in [Conns -> Clients],
             sock' \in [Conns -> Sockets], got' \in [Conns -> Seq(Event)],
             subs' \in SUBSET Conns, toClose' \in SUBSET Conns,
             from' \in [Conns -> 1 .. MaxEvents + 1],
             pending' \in {"none", "set", "taken"}, closes' \in 0 .. 2
      PROVE  TypeInv'
  BY <1>f DEF TypeInv, TypeOK, Contiguous, Sends, Clients, Sockets
<1>1. CASE ResumeFound \/ CloseAll \/ UNCHANGED vars
  <2>1. pending' \in {"none", "set", "taken"} /\ closes' \in 0 .. 2
    BY <1>1 DEF ResumeFound, CloseAll, vars, server, TypeInv, TypeOK
  <2>2. subs' \in SUBSET Conns /\ toClose' \in SUBSET Conns
    BY <1>0, <1>1 DEF ResumeFound, CloseAll, vars, server
  <2>3. UNCHANGED <<nextId, history, sender, bc, conn, sock, got, from>>
    BY <1>1 DEF ResumeFound, CloseAll, vars, broker
  <2>4. QED
    BY <1>0, <1>f, <2>1, <2>2, <2>3
<1>2. ASSUME NEW b \in Broadcasters, Broadcast(b) PROVE TypeInv'
  <2>1. CASE Number(b)
    BY <2>1, NumberTyped DEF Number, server, TypeInv, TypeOK, Sends
  <2>2. ASSUME NEW todo \in SUBSET Conns, SendNext(b, todo) PROVE bc' \in [Broadcasters -> Sends]
    <3>1. NoSend \in Sends
      BY SseAssumption DEF NoSend, Sends, Quiet
    <3>2. [bc[b] EXCEPT !.at = "send", !.todo = todo] \in Sends
      <4>1. bc[b] \in Sends
        BY <1>0
      <4>2. QED
        BY <4>1 DEF Sends
    <3>3. CASE todo = {}
      BY <1>0, <2>2, <3>1, <3>3 DEF SendNext
    <3>4. CASE todo # {}
      <4>1. bc' = [bc EXCEPT ![b] = [bc[b] EXCEPT !.at = "send", !.todo = todo]]
        BY <2>2, <3>4 DEF SendNext
      <4>2. QED
        BY <1>0, <3>2, <4>1
    <3>5. QED
      BY <3>3, <3>4
  <2>3. CASE List(b)
    BY <1>0, <1>f, <2>2, <2>3 DEF List, server, TypeInv, TypeOK
  <2>4. ASSUME NEW c \in Conns, SendTo(b, c) PROVE TypeInv'
    <3>1. bc[b] \in Sends /\ bc[b].todo \ {c} \in SUBSET Conns /\ bc[b].id \in 0 .. MaxEvents
      BY <1>0 DEF Sends
    <3>2. sock' \in [Conns -> Sockets]
      BY <1>0, <2>4, <3>1, SendTyped DEF SendTo
    <3>3. QED
      BY <1>0, <1>f, <2>2, <2>4, <3>1, <3>2 DEF SendTo, server, TypeInv, TypeOK
  <2>5. QED
    BY <1>2, <2>1, <2>3, <2>4 DEF Broadcast
<1>3. ASSUME NEW c \in Conns, Connect(c) \/ Handshake(c) \/ KeepAlive(c) \/ Reap(c) PROVE TypeInv'
  <2>0. conn[c] \in Clients /\ Quiet \in 0 .. MaxEvents
    BY <1>0, SseAssumption DEF Quiet
  <2>1. conn' \in [Conns -> Clients]
    <3>1. ASSUME NEW p, NEW t \in {"init", "read", "take", "live", "gone"}, Goto(c, p, t)
          PROVE  conn' \in [Conns -> Clients]
      <4>1. [conn[c] EXCEPT !.at = t] \in Clients
        BY <2>0, <3>1 DEF Clients
      <4>2. conn' = [conn EXCEPT ![c] = [conn[c] EXCEPT !.at = t]]
        BY <3>1 DEF Goto
      <4>3. QED
        BY <1>0, <4>1, <4>2
    <3>2. CASE Connect(c)
      <4>1. PICK n \in 0 .. MaxEvents :
               conn' = [conn EXCEPT ![c] = [conn[c] EXCEPT !.at = "add", !.last = n]]
        BY <3>2 DEF Connect
      <4>2. [conn[c] EXCEPT !.at = "add", !.last = n] \in Clients
        BY <2>0 DEF Clients
      <4>3. QED
        BY <1>0, <4>1, <4>2
    <3>3. CASE Add(c)
      BY <3>1, <3>3 DEF Add
    <3>4. CASE ReadHistory(c)
      <4>1. Missed(c) \in SUBSET Event
        BY DEF Missed, ToSet, TypeInv, TypeOK
      <4>2. QED
        <5>1. [conn[c] EXCEPT !.at = "replay", !.missed = Missed(c)] \in Clients
          BY <2>0, <4>1 DEF Clients
        <5>2. conn' = [conn EXCEPT ![c] = [conn[c] EXCEPT !.at = "replay", !.missed = Missed(c)]]
          BY <3>4 DEF ReadHistory
        <5>3. QED
          BY <1>0, <5>1, <5>2
    <3>5. CASE Replay(c)
      <4>1. \A e : conn[c].missed \ {e} \in SUBSET Event
        BY <2>0 DEF Clients
      <4>2. QED
        <5>1. CASE conn' = [conn EXCEPT ![c].at = "init"]
          <6>1. conn' = [conn EXCEPT ![c] = [conn[c] EXCEPT !.at = "init"]]
            BY <5>1
          <6>2. [conn[c] EXCEPT !.at = "init"] \in Clients
            BY <2>0 DEF Clients
          <6>3. QED
            BY <1>0, <6>1, <6>2
        <5>2. ASSUME NEW e, conn' = [conn EXCEPT ![c].missed = @ \ {e}]
              PROVE  conn' \in [Conns -> Clients]
          <6>1. conn' = [conn EXCEPT ![c] = [conn[c] EXCEPT !.missed = @ \ {e}]]
            BY <5>2
          <6>2. [conn[c] EXCEPT !.missed = @ \ {e}] \in Clients
            BY <2>0, <4>1 DEF Clients
          <6>3. QED
            BY <1>0, <6>1, <6>2
        <5>3. QED
          BY <3>5, <5>1, <5>2 DEF Replay
    <3>6. CASE SendInit(c) \/ TakeResume(c) \/ Reap(c)
      BY <3>1, <3>6 DEF SendInit, TakeResume, Reap
    <3>7. CASE KeepAlive(c)
      BY <1>0, <3>7 DEF KeepAlive
    <3>8. QED
      BY <1>3, <3>2, <3>3, <3>4, <3>5, <3>6, <3>7 DEF Handshake
  <2>2. sock' \in [Conns -> Sockets]
    <3>1. \A e \in Oldest(c) : e \in 0 .. MaxEvents
      BY <2>0 DEF Oldest, Clients, Event
    <3>2. sock' = sock \/ \E m \in 0 .. MaxEvents : Send(c, m)
      BY <1>3, <2>0, <3>1 DEF Connect, Handshake, Add, ReadHistory, Replay, SendInit, TakeResume,
         KeepAlive, Reap
    <3>3. QED
      BY <1>0, <3>2, SendTyped
  <2>3. from' \in [Conns -> 1 .. MaxEvents + 1]
    <3>1. CASE Add(c)
      BY <1>0, <3>1 DEF Add
    <3>2. CASE ReadHistory(c)
      <4>1. Lacking(c) \cup {from[c]} \subseteq 1 .. MaxEvents + 1
        BY <1>0, SseAssumption DEF Lacking, ToSet, TypeInv, TypeOK, Event
      <4>2. QED
        BY <1>0, <3>2, <4>1, ClaimGrows DEF ReadHistory
    <3>3. CASE from' = from
      BY <1>0, <3>3
    <3>4. QED
      BY <1>3, <3>1, <3>2, <3>3 DEF Connect, Handshake, Replay, SendInit, TakeResume, KeepAlive, Reap
  <2>4. subs' \in SUBSET Conns
    BY <1>0, <1>3 DEF Connect, Handshake, Add, ReadHistory, Replay, SendInit, TakeResume, KeepAlive, Reap
  <2>5. pending' \in {"none", "set", "taken"} /\ closes' \in 0 .. 2
    BY <1>3 DEF Connect, Handshake, Add, ReadHistory, Replay, SendInit, TakeResume, KeepAlive, Reap,
       server, TypeInv, TypeOK
  <2>6. UNCHANGED <<nextId, history, sender, bc, got, toClose>>
    BY <1>3 DEF Connect, Handshake, Add, ReadHistory, Replay, SendInit, TakeResume, KeepAlive, Reap,
       server, broker
  <2>7. QED
    BY <1>0, <1>f, <2>1, <2>2, <2>3, <2>4, <2>5, <2>6
<1>4. ASSUME NEW c \in Conns, Write(c) PROVE TypeInv'
  <2>1. UNCHANGED <<nextId, history, sender, bc, conn, subs, toClose, from, pending, closes>>
    BY <1>4 DEF Write, DoWrite, Written, WriteFails, server, broker
  <2>2. QED
    BY <1>0, <1>4, <1>f, <2>1, WriteTyped DEF TypeInv, TypeOK
<1>5. ASSUME NEW c \in Conns, Close(c) PROVE TypeInv'
  <2>1. sock' \in [Conns -> Sockets]
    BY <1>0, <1>5 DEF Close, Sockets
  <2>2. QED
    BY <1>0, <1>5, <1>f, <2>1 DEF Close, broker, TypeInv, TypeOK
<1>6. QED
  BY <1>1, <1>2, <1>3, <1>4, <1>5 DEF Next

(* Every variable has its type: the history never exceeds its bound, and   *)
(* no number is given beyond those of the events.                          *)
THEOREM SseTypeCorrect == Spec => []TypeOK
<1>1. Init => TypeInv
  BY SseAssumption DEF Init, TypeInv, TypeOK, Contiguous, NoSend, NoConn, NewSock, Quiet, Event
<1>2. TypeInv => TypeOK
  BY DEF TypeInv
<1>3. QED
  BY <1>1, <1>2, TypeStep, PTL DEF Spec

---------------------------------------------------------------------------
(* The events a connection is sent: none is missed, none comes twice       *)
(* without need, and those of one thread keep their order.  All are about  *)
(* Stream, what was sent to a connection: a write moves its parts and      *)
(* leaves the whole as it is, or breaks the connection and loses a part    *)
(* from the middle; a send appends.                                        *)

(* With at most one chunk there is nothing to flatten.                     *)
LEMMA FlattenNone == FlattenSeq(<<>>) = <<>>
  BY DEF FlattenSeq

LEMMA FlattenOne == ASSUME NEW x PROVE FlattenSeq(<<x>>) = x
<1> DEFINE s == <<x>>
           f == CHOOSE g : g = [i \in 1 .. Len(s) |-> IF i = 1 THEN s[i] ELSE g[i - 1] \o s[i]]
<1>1. Len(s) = 1 /\ s[1] = x
  OBVIOUS
<1>2. FlattenSeq(s) = f[Len(s)]
  BY <1>1 DEF FlattenSeq
<1> HIDE DEF s
<1> DEFINE h == [i \in 1 .. Len(s) |-> x]
<1>3. h = [i \in 1 .. Len(s) |-> IF i = 1 THEN s[i] ELSE h[i - 1] \o s[i]]
  BY <1>1
<1>4. f = [i \in 1 .. Len(s) |-> IF i = 1 THEN s[i] ELSE f[i - 1] \o s[i]]
  BY <1>3
<1>5. f[1] = x
  BY <1>1, <1>4
<1>6. QED
  BY <1>1, <1>2, <1>5 DEF s

(* Stream of the parts of a connection.                                    *)
Whole(g, x, b) == g \o FlattenSeq(x) \o b

LEMMA WholeTyped ==
    ASSUME NEW g \in Seq(Event), NEW b \in Seq(Event), NEW x \in Seq(Seq(Event)),
           x = <<>> \/ \E y : x = <<y>>
    PROVE  FlattenSeq(x) \in Seq(Event) /\ Whole(g, x, b) \in Seq(Event)
<1>1. FlattenSeq(x) \in Seq(Event)
  <2>1. CASE x = <<>>
    <3>1. FlattenSeq(x) = <<>>
      BY <2>1, FlattenNone, Zenon
    <3>2. QED
      BY <3>1
  <2>2. CASE x # <<>>
    <3>1. PICK y : x = <<y>>
      BY <2>2
    <3>2. y \in Seq(Event)
      BY <3>1
    <3>3. QED
      BY <3>1, <3>2, FlattenOne
  <2>3. QED
    BY <2>1, <2>2
<1>2. QED
  BY <1>1, ConcatProperties DEF Whole

LEMMA ConcatAppend ==
    ASSUME NEW u \in Seq(Event), NEW b \in Seq(Event), NEW m \in Event
    PROVE  u \o Append(b, m) = Append(u \o b, m)
<1>1. <<m>> \in Seq(Event)
  OBVIOUS
<1>2. Append(b, m) = b \o <<m>>
  BY AppendIsConcat
<1>3. u \o Append(b, m) = (u \o b) \o <<m>>
  BY <1>1, <1>2, ConcatAssociative
<1>4. u \o b \in Seq(Event)
  BY ConcatProperties
<1>5. QED
  BY <1>3, <1>4, AppendIsConcat

LEMMA WholeMoves ==
    ASSUME NEW g \in Seq(Event), NEW b \in Seq(Event)
    PROVE  /\ Whole(g, <<>>, b) = g \o b
           /\ Whole(g, <<b>>, <<>>) = g \o b
           /\ \A y \in Seq(Event) : Whole(g, <<y>>, b) = Whole(g \o y, <<>>, b)
<1>1. Whole(g, <<>>, b) = g \o b
  BY FlattenNone, ConcatEmptySeq DEF Whole
<1>2. Whole(g, <<b>>, <<>>) = g \o b
  <2>1. g \o b \in Seq(Event)
    BY ConcatProperties
  <2>2. QED
    BY <2>1, FlattenOne, ConcatEmptySeq DEF Whole
<1>3. ASSUME NEW y \in Seq(Event) PROVE Whole(g, <<y>>, b) = Whole(g \o y, <<>>, b)
  <2>1. g \o y \in Seq(Event)
    BY ConcatProperties
  <2>2. (g \o y) \o <<>> = g \o y
    BY <2>1, ConcatEmptySeq
  <2>3. QED
    BY <2>2, FlattenNone, FlattenOne DEF Whole
<1>4. QED
  BY <1>1, <1>2, <1>3

-----------------------------------------------------------------------------
(* What a step does to a stream.                                           *)
LEMMA StreamTyped ==
    ASSUME TypeInv, SockInv, NEW c \in Conns
    PROVE  /\ Stream(c) = Whole(got[c], sock[c].chunks, sock[c].buf) /\ Stream(c) \in Seq(Event)
           /\ got[c] \in Seq(Event) /\ sock[c].buf \in Seq(Event)
           /\ sock[c].chunks \in Seq(Seq(Event)) /\ sock[c] \in Sockets
           /\ sock[c].chunks = <<>> \/ \E y : sock[c].chunks = <<y>>
<1>1. /\ got[c] \in Seq(Event) /\ sock[c].buf \in Seq(Event)
      /\ sock[c].chunks \in Seq(Seq(Event)) /\ sock[c] \in Sockets
  BY DEF TypeInv, TypeOK, Sockets
<1>2. sock[c].chunks = <<>> \/ \E y : sock[c].chunks = <<y>>
  BY DEF SockInv, Sound
<1>3. Stream(c) = Whole(got[c], sock[c].chunks, sock[c].buf)
  BY DEF Stream, Whole
<1>4. QED
  BY <1>1, <1>2, <1>3, WholeTyped

LEMMA StreamKept ==
    ASSUME NEW c \in Conns, got'[c] = got[c], sock'[c] = sock[c]
    PROVE  Stream(c)' = Stream(c) /\ sock'[c].open = sock[c].open
  BY DEF Stream

LEMMA StreamOfSend ==
    ASSUME TypeInv, SockInv, NEW c \in Conns, NEW m \in 0 .. MaxEvents, Send(c, m), got' = got,
           NEW d \in Conns
    PROVE  /\ sock'[d].open = sock[d].open
           /\ Stream(d)' = IF d = c /\ sock[c].open /\ m # Quiet THEN Append(Stream(d), m)
                           ELSE Stream(d)
<1>0. /\ Stream(c) = Whole(got[c], sock[c].chunks, sock[c].buf)
      /\ got[c] \in Seq(Event) /\ sock[c].buf \in Seq(Event)
      /\ sock[c].chunks \in Seq(Seq(Event)) /\ sock[c] \in Sockets
      /\ sock[c].chunks = <<>> \/ \E y : sock[c].chunks = <<y>>
  BY StreamTyped
<1>1. CASE d # c \/ ~sock[c].open
  <2>1. sock'[d] = sock[d]
    BY <1>1 DEF Send, TypeInv, TypeOK
  <2>2. QED
    BY <1>1, <2>1, StreamKept
<1>2. CASE d = c /\ sock[c].open
  <2>1. sock[c] \in Sockets /\ sock \in [Conns -> Sockets]
    BY StreamTyped DEF TypeInv, TypeOK, Sockets
  <2>2. /\ sock'[c].open = sock[c].open /\ sock'[c].chunks = sock[c].chunks
        /\ sock'[c].buf = Join(sock[c].buf, m)
    BY <1>2, <2>1 DEF Send, Sockets
  <2>3. Stream(c)' = Whole(got[c], sock[c].chunks, Join(sock[c].buf, m))
    BY <2>2 DEF Stream, Whole
  <2>4. CASE m = Quiet
    BY <1>2, <2>2, <2>3, <2>4, StreamTyped DEF Join
  <2>5. CASE m # Quiet
    <3>1. m \in Event
      BY <2>5, SseAssumption DEF Quiet, Event
    <3>2. Stream(c)' = Whole(got[c], sock[c].chunks, Append(sock[c].buf, m))
      BY <2>3, <2>5 DEF Join
    <3>3. Whole(got[c], sock[c].chunks, Append(sock[c].buf, m)) = Append(Stream(c), m)
      <4> DEFINE u == got[c] \o FlattenSeq(sock[c].chunks)
                 w == sock[c].buf
      <4>1. u \in Seq(Event) /\ w \in Seq(Event)
        BY <1>0, WholeTyped, ConcatProperties
      <4>2. Stream(c) = u \o w
        BY DEF Stream
      <4>3. Whole(got[c], sock[c].chunks, Append(sock[c].buf, m)) = u \o Append(w, m)
        BY DEF Whole
      <4> HIDE DEF u, w
      <4>4. QED
        BY <3>1, <4>1, <4>2, <4>3, ConcatAppend
    <3>4. QED
      BY <1>2, <2>2, <2>5, <3>2, <3>3
  <2>6. QED
    BY <2>4, <2>5
<1>3. QED
  BY <1>1, <1>2

(* What is left of a sequence has kept its places among each other.        *)
Cut(t, s) ==
    /\ t \in Seq(Event) /\ s \in Seq(Event)
    /\ \E f \in [1 .. Len(t) -> 1 .. Len(s)] :
          /\ \A i \in 1 .. Len(t) : s[f[i]] = t[i]
          /\ \A i, k \in 1 .. Len(t) : k < i => f[k] < f[i]

LEMMA CutPlaces ==
    ASSUME NEW a \in Seq(Event), NEW x \in Seq(Event), NEW z \in Seq(Event)
    PROVE  Cut(a \o z, (a \o x) \o z)
<1> DEFINE t == a \o z
           s == (a \o x) \o z
           at(i) == IF i =< Len(a) THEN i ELSE i + Len(x)
<1>1. Len(a) \in Nat /\ Len(x) \in Nat /\ Len(z) \in Nat
  OBVIOUS
<1>2. /\ Len(t) = Len(a) + Len(z) /\ DOMAIN t = 1 .. Len(t)
      /\ \A i \in 1 .. Len(a) + Len(z) : t[i] = IF i =< Len(a) THEN a[i] ELSE z[i - Len(a)]
  BY ConcatProperties
<1>3. /\ a \o x \in Seq(Event) /\ Len(a \o x) = Len(a) + Len(x)
      /\ \A i \in 1 .. Len(a) + Len(x) :
            (a \o x)[i] = IF i =< Len(a) THEN a[i] ELSE x[i - Len(a)]
  BY ConcatProperties
<1>4. /\ Len(s) = Len(a) + Len(x) + Len(z) /\ DOMAIN s = 1 .. Len(s)
      /\ \A i \in 1 .. Len(a) + Len(x) + Len(z) :
            s[i] = IF i =< Len(a) + Len(x) THEN (a \o x)[i] ELSE z[i - (Len(a) + Len(x))]
  BY <1>3, ConcatProperties
<1> HIDE DEF t, s
<1>5. ASSUME NEW i \in 1 .. Len(t) PROVE at(i) \in 1 .. Len(s) /\ s[at(i)] = t[i]
  <2>1. at(i) \in 1 .. Len(s)
    BY <1>1, <1>2, <1>4
  <2>2. CASE i =< Len(a)
    <3>1. /\ i \in 1 .. Len(a) + Len(x) /\ i \in 1 .. Len(a) + Len(x) + Len(z)
          /\ i \in 1 .. Len(a) + Len(z)
      BY <1>1, <1>2, <2>2
    <3>2. s[i] = (a \o x)[i] /\ (a \o x)[i] = a[i]
      BY <1>1, <1>3, <1>4, <2>2, <3>1
    <3>3. t[i] = a[i]
      BY <1>2, <2>2, <3>1
    <3>4. QED
      BY <2>1, <2>2, <3>2, <3>3
  <2>3. CASE ~(i =< Len(a))
    <3>1. i + Len(x) - (Len(a) + Len(x)) = i - Len(a) /\ ~(i + Len(x) =< Len(a) + Len(x))
      BY <1>1, <2>3
    <3>2. QED
      BY <1>1, <1>2, <1>4, <2>1, <2>3, <3>1
  <2>4. QED
    BY <2>2, <2>3
<1>6. \A i, k \in 1 .. Len(t) : k < i => at(k) < at(i)
  BY <1>1, <1>2
<1>7. \E f \in [1 .. Len(t) -> 1 .. Len(s)] :
         /\ \A i \in 1 .. Len(t) : s[f[i]] = t[i]
         /\ \A i, k \in 1 .. Len(t) : k < i => f[k] < f[i]
  <2> DEFINE g == [i \in 1 .. Len(t) |-> at(i)]
  <2>1. g \in [1 .. Len(t) -> 1 .. Len(s)] /\ \A i \in 1 .. Len(t) : g[i] = at(i)
    BY <1>5
  <2> HIDE DEF g, at
  <2>2. QED
    BY <1>5, <1>6, <2>1
<1>8. t \in Seq(Event) /\ s \in Seq(Event)
  BY <1>3, ConcatProperties DEF t, s
<1>9. QED
  BY <1>7, <1>8 DEF Cut, t, s

(* A write moves what it takes, or breaks the connection and loses a part. *)
Broken(c) == Cut(Stream(c)', Stream(c))

LEMMA StreamOfWrite ==
    ASSUME TypeInv, SockInv, NEW c \in Conns, Write(c), NEW d \in Conns
    PROVE  \/ Stream(d)' = Stream(d) /\ sock'[d].open = sock[d].open
           \/ Broken(d) /\ ~sock'[d].open
<1>0. sock[c] \in Sockets /\ sock \in [Conns -> Sockets] /\ got \in [Conns -> Seq(Event)]
  BY StreamTyped DEF TypeInv, TypeOK, Sockets
<1>s. /\ Stream(c) = Whole(got[c], sock[c].chunks, sock[c].buf)
      /\ got[c] \in Seq(Event) /\ sock[c].buf \in Seq(Event) /\ <<>> \in Seq(Event)
  BY StreamTyped
<1>1. CASE d # c
  BY <1>0, <1>1, StreamKept DEF Write, DoWrite, Written, Deliver, WriteFails
<1>2. CASE d = c /\ DoWrite(c)
  <2>1. sock[c].chunks = <<>>
    BY <1>2 DEF SockInv, Sound, DoWrite
  <2>2. Stream(c) = got[c] \o sock[c].buf
    BY <1>s, <2>1, WholeMoves
  <2>3. /\ got'[c] = got[c] /\ sock'[c].open = sock[c].open /\ sock'[c].buf = <<>>
        /\ sock'[c].chunks = IF Waits(c) THEN <<sock[c].buf>> ELSE <<>>
    BY <1>0, <1>2, <2>1 DEF DoWrite, Sockets
  <2>4. Stream(c)' = Whole(got[c], IF Waits(c) THEN <<sock[c].buf>> ELSE <<>>, <<>>)
    BY <2>3 DEF Stream, Whole
  <2>5. CASE Waits(c)
    BY <1>2, <1>s, <2>2, <2>3, <2>4, <2>5, WholeMoves
  <2>6. CASE ~Waits(c)
    <3>1. sock[c].buf = <<>>
      BY <2>6 DEF Waits
    <3>2. Stream(c)' = got[c] \o <<>>
      BY <1>s, <2>4, <2>6, WholeMoves
    <3>3. QED
      BY <1>2, <2>2, <2>3, <3>1, <3>2
  <2>7. QED
    BY <2>5, <2>6
<1>3. ASSUME sock[c].chunks # <<>>
      PROVE  \E y \in Seq(Event) : sock[c].chunks = <<y>>
  BY <1>3, StreamTyped
<1>4. CASE d = c /\ Written(c)
  <2>1. PICK y \in Seq(Event) : sock[c].chunks = <<y>>
    BY <1>3, <1>4 DEF Written, Deliver
  <2>2. /\ got'[c] = got[c] \o y /\ sock'[c].open = sock[c].open
        /\ sock'[c].buf = sock[c].buf /\ sock'[c].chunks = <<>>
    BY <1>0, <1>4, <2>1 DEF Written, Deliver, Sockets
  <2>3. Stream(c)' = Whole(got[c] \o y, <<>>, sock[c].buf)
    BY <2>2 DEF Stream, Whole
  <2>4. Stream(c)' = Stream(c)
    <3>1. Stream(c) = Whole(got[c], <<y>>, sock[c].buf)
      BY <1>s, <2>1
    <3>2. QED
      BY <1>s, <2>3, <3>1, WholeMoves
  <2>5. QED
    BY <1>4, <2>2, <2>4
<1>5. CASE d = c /\ WriteFails(c)
  <2>1. PICK y \in Seq(Event) : sock[c].chunks = <<y>>
    BY <1>3, <1>5 DEF WriteFails
  <2>2. /\ got'[c] = got[c] /\ ~sock'[c].open
        /\ sock'[c].buf = sock[c].buf /\ sock'[c].chunks = <<>>
    BY <1>0, <1>5, <2>1 DEF WriteFails, Sockets
  <2>3. Stream(c)' = Whole(got[c], <<>>, sock[c].buf)
    BY <2>2 DEF Stream, Whole
  <2>4. Stream(c)' = got[c] \o sock[c].buf
    BY <1>s, <2>3, WholeMoves
  <2>5. Stream(c) = (got[c] \o y) \o sock[c].buf
    BY <2>1, StreamTyped, FlattenOne DEF Whole
  <2>6. QED
    BY <1>5, <1>s, <2>2, <2>4, <2>5, CutPlaces DEF Broken
<1>6. QED
  BY <1>1, <1>2, <1>4, <1>5 DEF Write

LEMMA SseInit == Init => TypeInv /\ SockInv
<1>1. Init => TypeInv
  BY SseAssumption DEF Init, TypeInv, TypeOK, Contiguous, NoSend, NoConn, NewSock, Quiet, Event
<1>2. Init => SockInv
  BY NewSockIsSound DEF Init, SockInv
<1>3. QED
  BY <1>1, <1>2

-----------------------------------------------------------------------------
(* Nothing is missed.                                                      *)
ClaimInv ==
    /\ \A b \in Broadcasters : bc[b].at # "send" => bc[b].todo = {}
    /\ \A c \in Conns : conn[c].at # "replay" => conn[c].missed = {}
    /\ NothingMissed

LEMMA AppendContains ==
    ASSUME NEW s \in Seq(Event), NEW m \in Event
    PROVE  /\ Contains(Append(s, m), m)
           /\ \A e : Contains(s, e) => Contains(Append(s, m), e)
<1>1. /\ Len(Append(s, m)) = Len(s) + 1 /\ Append(s, m)[Len(s) + 1] = m /\ Len(s) \in Nat
      /\ \A i \in 1 .. Len(s) : Append(s, m)[i] = s[i]
  BY AppendProperties
<1>2. 1 .. Len(s) \subseteq 1 .. Len(s) + 1 /\ Len(s) + 1 \in 1 .. Len(s) + 1
  BY <1>1
<1>3. QED
  BY <1>1, <1>2 DEF Contains

LEMMA SendContains ==
    ASSUME TypeInv, SockInv, NEW c \in Conns, NEW m \in 0 .. MaxEvents, Send(c, m), got' = got,
           NEW d \in Conns
    PROVE  /\ \A e : Contains(Stream(d), e) => Contains(Stream(d), e)'
           /\ d = c /\ sock[c].open /\ m # Quiet => Contains(Stream(c), m)'
           /\ sock'[d].open = sock[d].open
<1>1. /\ sock'[d].open = sock[d].open
      /\ Stream(d)' = IF d = c /\ sock[c].open /\ m # Quiet THEN Append(Stream(d), m)
                      ELSE Stream(d)
  BY StreamOfSend
<1>2. Stream(d) \in Seq(Event) /\ (m # Quiet => m \in Event)
  BY StreamTyped, SseAssumption DEF Quiet, Event
<1>3. CASE d = c /\ sock[c].open /\ m # Quiet
  <2>1. Contains(Append(Stream(d), m), m)
    BY <1>2, <1>3, AppendContains
  <2>2. \A e : Contains(Stream(d), e) => Contains(Append(Stream(d), m), e)
    BY <1>2, <1>3, AppendContains
  <2>3. QED
    BY <1>1, <1>3, <2>1, <2>2
<1>4. CASE ~(d = c /\ sock[c].open /\ m # Quiet)
  BY <1>1, <1>4
<1>5. QED
  BY <1>3, <1>4

(* What was owed to a subscriber has been sent to it, or is still owed.    *)
Owed(c, e) == e \in conn[c].missed \/ Promised(c, e)

LEMMA OwedSuffices ==
    ASSUME ClaimInv, subs' \subseteq subs, UNCHANGED <<from, nextId>>,
           \A c \in subs : sock'[c].open =>
               /\ sock[c].open
               /\ \A e : Contains(Stream(c), e) => Contains(Stream(c), e)'
               /\ \A e \in from[c] .. nextId - 1 :
                     Owed(c, e) => Contains(Stream(c), e)' \/ Owed(c, e)'
    PROVE  NothingMissed'
  BY DEF ClaimInv, NothingMissed, Owed

(* A new event is promised to every subscriber by the thread that numbers  *)
(* it; the thread keeps the promise, one subscriber at a time.             *)
LEMMA BroadcastClaims ==
    ASSUME TypeInv, SockInv, ClaimInv, NEW b \in Broadcasters, Broadcast(b)
    PROVE  ClaimInv'
<1>0. /\ bc \in [Broadcasters -> Sends] /\ bc[b] \in Sends /\ subs \in SUBSET Conns
      /\ from \in [Conns -> 1 .. MaxEvents + 1] /\ nextId \in Nat \ {0} /\ nextId =< MaxEvents + 1
  BY SseAssumption DEF TypeInv, TypeOK, Sends
<1>1. /\ UNCHANGED <<conn, subs, from>>
      /\ \A x \in Broadcasters : x # b => bc'[x] = bc[x]
  BY <1>0 DEF Broadcast, Number, List, SendTo, SendNext
<1>2. \A c \in Conns : conn'[c].at # "replay" => conn'[c].missed = {}
  BY <1>1 DEF ClaimInv
<1>3. CASE Number(b)
  <2>1. bc'[b] = [at |-> "list", id |-> nextId, todo |-> {}] /\ bc[b].at = "idle" /\ bc[b].todo = {}
    BY <1>0, <1>3 DEF Number, ClaimInv
  <2>2. \A x \in Broadcasters : bc'[x].at # "send" => bc'[x].todo = {}
    BY <1>1, <2>1 DEF ClaimInv
  <2>3. nextId' = nextId + 1 /\ UNCHANGED <<sock, got>>
    BY <1>3 DEF Number
  <2>4. ASSUME NEW c \in subs, sock'[c].open, NEW e \in from[c] .. nextId
        PROVE  Contains(Stream(c), e)' \/ Owed(c, e)'
    <3>1. c \in Conns /\ Stream(c)' = Stream(c) /\ sock[c].open
      BY <1>0, <2>3, <2>4, StreamKept
    <3>2. CASE e = nextId
      BY <2>1, <3>2 DEF Owed, Promised
    <3>3. CASE e # nextId
      <4>1. e \in from[c] .. nextId - 1
        BY <1>0, <3>1, <3>3
      <4>2. Contains(Stream(c), e) \/ Owed(c, e)
        BY <3>1, <4>1 DEF ClaimInv, NothingMissed, Owed
      <4>3. Promised(c, e) => Promised(c, e)'
        BY <1>1, <2>1 DEF Promised
      <4>4. QED
        BY <1>1, <3>1, <4>2, <4>3 DEF Owed
    <3>4. QED
      BY <3>2, <3>3
  <2>5. NothingMissed'
    BY <1>0, <1>1, <2>3, <2>4 DEF NothingMissed, Owed
  <2>6. QED
    BY <1>2, <2>2, <2>5 DEF ClaimInv
<1>4. CASE List(b)
  <2>1. /\ bc[b].at = "list" /\ bc[b].todo = {} /\ UNCHANGED <<sock, got, nextId>>
        /\ bc'[b] = IF subs = {} THEN NoSend ELSE [bc[b] EXCEPT !.at = "send", !.todo = subs]
    BY <1>0, <1>4 DEF List, SendNext, ClaimInv
  <2>2. \A x \in Broadcasters : bc'[x].at # "send" => bc'[x].todo = {}
    <3>1. bc'[b].at # "send" => bc'[b].todo = {}
      BY <1>0, <2>1 DEF NoSend, Sends
    <3>2. QED
      BY <1>1, <3>1 DEF ClaimInv
  <2>3. ASSUME NEW c \in subs, NEW e, Owed(c, e) PROVE Owed(c, e)'
    <3>1. bc'[b].id = bc[b].id /\ bc'[b].todo = subs
      BY <1>0, <2>1, <2>3 DEF Sends
    <3>2. Promised(c, e) => Promised(c, e)'
      BY <1>1, <2>1, <2>3, <3>1 DEF Promised
    <3>3. QED
      BY <1>1, <2>3, <3>2 DEF Owed
  <2>4. \A c \in subs : Stream(c)' = Stream(c) /\ sock'[c].open = sock[c].open
    BY <1>0, <2>1, StreamKept
  <2>5. NothingMissed'
    BY <1>1, <2>1, <2>3, <2>4, OwedSuffices
  <2>6. QED
    BY <1>2, <2>2, <2>5 DEF ClaimInv
<1>5. ASSUME NEW d \in Conns, SendTo(b, d) PROVE ClaimInv'
  <2> DEFINE left == bc[b].todo \ {d}
  <2>1. /\ bc[b].at = "send" /\ d \in bc[b].todo /\ bc[b].id \in 0 .. MaxEvents
        /\ Send(d, bc[b].id) /\ UNCHANGED <<got, nextId>>
        /\ bc'[b] = IF left = {} THEN NoSend ELSE [bc[b] EXCEPT !.at = "send", !.todo = left]
    BY <1>0, <1>5 DEF SendTo, SendNext, ClaimInv, Sends
  <2>2. \A x \in Broadcasters : bc'[x].at # "send" => bc'[x].todo = {}
    <3>1. bc'[b].at # "send" => bc'[b].todo = {}
      BY <1>0, <2>1 DEF NoSend, Sends
    <3>2. QED
      BY <1>1, <3>1 DEF ClaimInv
  <2>3. ASSUME NEW c \in subs, sock'[c].open, NEW e \in from[c] .. nextId - 1, Owed(c, e)
        PROVE  Contains(Stream(c), e)' \/ Owed(c, e)'
    <3>1. CASE e \in conn[c].missed \/ \E x \in Broadcasters \ {b} :
                  bc[x].id = e /\ (bc[x].at = "list" \/ c \in bc[x].todo)
      BY <1>1, <3>1 DEF Owed, Promised
    <3>2. CASE bc[b].id = e /\ c \in left
      <4>1. bc'[b].id = e /\ bc'[b].todo = left
        BY <1>0, <2>1, <3>2 DEF Sends
      <4>2. QED
        BY <3>2, <4>1 DEF Owed, Promised
    <3>3. CASE bc[b].id = e /\ c = d
      <4>1. sock[d].open /\ e # Quiet
        BY <1>0, <2>1, <2>3, <3>3, SendContains DEF Quiet
      <4>2. QED
        BY <2>1, <3>3, <4>1, SendContains
    <3>4. QED
      BY <2>1, <2>3, <3>1, <3>2, <3>3 DEF Owed, Promised
  <2>4. \A c \in subs : /\ sock'[c].open = sock[c].open
                        /\ \A e : Contains(Stream(c), e) => Contains(Stream(c), e)'
    BY <1>0, <2>1, SendContains
  <2>5. NothingMissed'
    BY <1>1, <2>1, <2>3, <2>4, OwedSuffices
  <2>6. QED
    BY <1>2, <2>2, <2>5 DEF ClaimInv
<1>6. QED
  BY <1>3, <1>4, <1>5 DEF Broadcast

(* A connection is added before it reads the history: what comes later is  *)
(* promised to it, what came before is in the history it reads.            *)
LEMMA HandshakeClaims ==
    ASSUME TypeInv, SockInv, ClaimInv, NEW c \in Conns,
           Connect(c) \/ Handshake(c) \/ KeepAlive(c) \/ Reap(c)
    PROVE  ClaimInv'
<1>0. /\ conn \in [Conns -> Clients] /\ conn[c] \in Clients /\ subs \in SUBSET Conns
      /\ from \in [Conns -> 1 .. MaxEvents + 1] /\ nextId \in Nat \ {0} /\ nextId =< MaxEvents + 1
  BY SseAssumption DEF TypeInv, TypeOK, Clients
<1>1. UNCHANGED <<bc, nextId, history, got>>
  BY DEF Connect, Handshake, Add, ReadHistory, Replay, SendInit, TakeResume, KeepAlive, Reap, broker
<1>2. \A x \in Broadcasters : bc'[x].at # "send" => bc'[x].todo = {}
  BY <1>1 DEF ClaimInv
<1>3. \A d \in Conns : d # c => conn'[d] = conn[d]
  BY <1>0 DEF Connect, Handshake, Add, ReadHistory, Replay, SendInit, TakeResume, KeepAlive, Reap, Goto
<1>4. \A d \in Conns : \A e : Promised(d, e)' = Promised(d, e)
  BY <1>1 DEF Promised
<1>5. sock' = sock \/ \E m \in 0 .. MaxEvents : Send(c, m)
  <2>1. Quiet \in 0 .. MaxEvents /\ \A e \in Oldest(c) : e \in 0 .. MaxEvents
    BY <1>0, SseAssumption DEF Oldest, Clients, Event, Quiet
  <2>2. QED
    BY <2>1 DEF Connect, Handshake, Add, ReadHistory, Replay, SendInit, TakeResume, KeepAlive, Reap
<1>6. \A d \in Conns : /\ sock'[d].open = sock[d].open
                       /\ \A e : Contains(Stream(d), e) => Contains(Stream(d), e)'
  <2>1. CASE sock' = sock
    BY <1>1, <2>1, StreamKept
  <2>2. CASE sock' # sock
    BY <1>1, <1>5, <2>2, SendContains
  <2>3. QED
    BY <2>1, <2>2
<1>7. CASE ReadHistory(c)
  <2>1. /\ conn'[c].at = "replay" /\ conn'[c].missed = Missed(c) /\ conn[c].missed = {}
        /\ from' = [from EXCEPT ![c] = Min(Lacking(c) \cup {@})]
        /\ sock' = sock /\ subs' = subs
    BY <1>0, <1>7 DEF ReadHistory, Clients, ClaimInv
  <2>2. \A d \in Conns : conn'[d].at # "replay" => conn'[d].missed = {}
    BY <1>3, <2>1 DEF ClaimInv
  <2>3. ASSUME NEW d \in subs, sock'[d].open, NEW e \in from'[d] .. nextId - 1
        PROVE  Contains(Stream(d), e)' \/ Owed(d, e)'
    <3>0. d \in Conns /\ sock[d].open
      BY <1>0, <2>1, <2>3
    <3>1. CASE e \in from[d] .. nextId - 1
      <4>1. Contains(Stream(d), e) \/ e \in conn[d].missed \/ Promised(d, e)
        BY <3>0, <3>1 DEF ClaimInv, NothingMissed
      <4>2. e \in conn[d].missed => e \in conn'[d].missed
        BY <1>3, <2>1, <3>0
      <4>3. QED
        BY <1>4, <1>6, <3>0, <4>1, <4>2 DEF Owed
    <3>2. CASE e \notin from[d] .. nextId - 1
      <4>1. d = c
        BY <1>0, <2>1, <2>3, <3>0, <3>2
      <4> DEFINE low == Min(Lacking(c) \cup {from[c]})
      <4>2. from'[c] = low /\ low \in Lacking(c) \cup {from[c]}
        BY <1>0, <2>1, ClaimGrows
      <4>3. low \in Lacking(c)
        BY <2>3, <3>2, <4>1, <4>2
      <4> HIDE DEF low
      <4>4. e \in Missed(c)
        <5>1. /\ history \in Seq(Event) /\ Len(history) \in Nat /\ Len(history) < nextId
              /\ \A i \in 1 .. Len(history) : history[i] = nextId - Len(history) + i - 1
          BY DEF TypeInv, TypeOK, Contiguous
        <5>2. PICK i \in 1 .. Len(history) : history[i] = low
          BY <4>3, <5>1 DEF Lacking, ToSet
        <5>3. low = nextId - Len(history) + i - 1 /\ low > conn[c].last /\ low \in Nat
          BY <1>0, <4>3, <5>1, <5>2 DEF Lacking
        <5>4. e \in Nat /\ low =< e /\ e < nextId
          BY <1>0, <2>3, <4>1, <4>2, <5>3
        <5> DEFINE j == e - nextId + Len(history) + 1
        <5>5. j \in 1 .. Len(history) /\ history[j] = e
          <6>1. j \in 1 .. Len(history) /\ nextId - Len(history) + j - 1 = e
            BY <1>0, <5>1, <5>2, <5>3, <5>4
          <6>2. QED
            BY <5>1, <6>1
        <5>6. e > conn[c].last
          BY <1>0, <5>3, <5>4 DEF Clients
        <5>7. QED
          BY <5>1, <5>5, <5>6 DEF Missed, ToSet
      <4>5. QED
        BY <2>1, <4>1, <4>4 DEF Owed
    <3>3. QED
      BY <3>1, <3>2
  <2>4. NothingMissed'
    BY <1>1, <2>1, <2>3 DEF NothingMissed, Owed
  <2>5. QED
    BY <1>2, <2>2, <2>4 DEF ClaimInv
<1>8. CASE Add(c)
  <2>1. /\ subs' = subs \cup {c} /\ from' = [from EXCEPT ![c] = nextId]
        /\ conn'[c].missed = conn[c].missed /\ conn[c].missed = {}
    BY <1>0, <1>8 DEF Add, Goto, Clients, ClaimInv
  <2>2. \A d \in Conns : conn'[d].at # "replay" => conn'[d].missed = {}
    BY <1>3, <2>1 DEF ClaimInv
  <2>3. ASSUME NEW d \in subs', sock'[d].open, NEW e \in from'[d] .. nextId - 1
        PROVE  Contains(Stream(d), e)' \/ Owed(d, e)'
    <3>1. d # c
      BY <1>0, <2>1, <2>3
    <3>2. /\ d \in subs /\ d \in Conns /\ sock[d].open /\ e \in from[d] .. nextId - 1
      BY <1>0, <1>6, <2>1, <2>3, <3>1
    <3>3. Contains(Stream(d), e) \/ e \in conn[d].missed \/ Promised(d, e)
      BY <3>2 DEF ClaimInv, NothingMissed
    <3>4. QED
      BY <1>3, <1>4, <1>6, <3>1, <3>2, <3>3 DEF Owed
  <2>4. NothingMissed'
    BY <1>1, <2>3 DEF NothingMissed, Owed
  <2>5. QED
    BY <1>2, <2>2, <2>4 DEF ClaimInv
<1>9. CASE Replay(c)
  <2>0. UNCHANGED <<from, subs>>
    BY <1>9 DEF Replay
  <2>1. CASE conn[c].missed = {} /\ conn' = [conn EXCEPT ![c].at = "init"]
    <3>1. conn'[c].missed = {}
      BY <1>0, <2>1 DEF Clients
    <3>2. \A d \in Conns : conn'[d].missed = conn[d].missed
      BY <1>3, <2>1, <3>1
    <3>3. \A d \in Conns : conn'[d].at # "replay" => conn'[d].missed = {}
      BY <1>3, <3>1 DEF ClaimInv
    <3>4. NothingMissed'
      BY <1>0, <1>1, <1>4, <1>6, <2>0, <3>2, OwedSuffices DEF Owed
    <3>5. QED
      BY <1>2, <3>3, <3>4 DEF ClaimInv
  <2>2. ASSUME NEW m \in Oldest(c), Send(c, m), conn' = [conn EXCEPT ![c].missed = @ \ {m}]
        PROVE  ClaimInv'
    <3>1. conn'[c].missed = conn[c].missed \ {m} /\ conn'[c].at = "replay" /\ m \in 1 .. MaxEvents
      BY <1>0, <1>9, <2>2 DEF Replay, Clients, Oldest, Event
    <3>2. \A d \in Conns : conn'[d].at # "replay" => conn'[d].missed = {}
      BY <1>3, <3>1 DEF ClaimInv
    <3>3. sock[c].open => Contains(Stream(c), m)'
      BY <1>1, <2>2, <3>1, SendContains, SseAssumption DEF Quiet
    <3>4. ASSUME NEW d \in subs, sock'[d].open, NEW e, Owed(d, e)
          PROVE  Contains(Stream(d), e)' \/ Owed(d, e)'
      BY <1>0, <1>3, <1>4, <1>6, <3>1, <3>3, <3>4 DEF Owed
    <3>5. NothingMissed'
      BY <1>0, <1>1, <1>6, <2>0, <3>4, OwedSuffices
    <3>6. QED
      BY <1>2, <3>2, <3>5 DEF ClaimInv
  <2>3. QED
    BY <1>9, <2>1, <2>2 DEF Replay
<1>10. CASE Connect(c) \/ SendInit(c) \/ TakeResume(c) \/ KeepAlive(c) \/ Reap(c)
  <2>1. conn'[c].missed = conn[c].missed /\ conn[c].missed = {}
    BY <1>0, <1>10 DEF Connect, SendInit, TakeResume, KeepAlive, Reap, Goto, Clients, ClaimInv
  <2>2. from' = from /\ subs' \subseteq subs
    BY <1>10 DEF Connect, SendInit, TakeResume, KeepAlive, Reap
  <2>3. \A d \in Conns : conn'[d].missed = conn[d].missed
    BY <1>3, <2>1
  <2>4. \A d \in Conns : conn'[d].at # "replay" => conn'[d].missed = {}
    BY <1>3, <2>1 DEF ClaimInv
  <2>5. NothingMissed'
    BY <1>0, <1>1, <1>4, <1>6, <2>2, <2>3, OwedSuffices DEF Owed
  <2>6. QED
    BY <1>2, <2>4, <2>5 DEF ClaimInv
<1>11. QED
  BY <1>7, <1>8, <1>9, <1>10 DEF Handshake

(* A write moves events on, or its connection breaks and is owed nothing.  *)
LEMMA WriteClaims ==
    ASSUME TypeInv, SockInv, ClaimInv, NEW c \in Conns, Write(c) PROVE ClaimInv'
<1>0. subs \in SUBSET Conns
  BY DEF TypeInv, TypeOK
<1>1. UNCHANGED <<bc, nextId, conn, from, subs>>
  BY DEF Write, DoWrite, Written, WriteFails, broker
<1>2. \A d \in subs : sock'[d].open => Stream(d)' = Stream(d) /\ sock[d].open
  BY <1>0, StreamOfWrite
<1>3. \A d \in subs : \A e : Owed(d, e)' = Owed(d, e)
  BY <1>1 DEF Owed, Promised
<1>4. NothingMissed'
  BY <1>1, <1>2, <1>3, OwedSuffices
<1>5. QED
  BY <1>1, <1>4 DEF ClaimInv

LEMMA ClaimStep == TypeInv /\ SockInv /\ ClaimInv /\ [Next]_vars => ClaimInv'
<1> SUFFICES ASSUME TypeInv, SockInv, ClaimInv, [Next]_vars PROVE ClaimInv'
  OBVIOUS
<1>0. subs \in SUBSET Conns /\ sock \in [Conns -> Sockets]
  BY DEF TypeInv, TypeOK, Sockets
<1>1. ASSUME UNCHANGED <<bc, conn, nextId, from, got>>, subs' \subseteq subs,
             \A c \in Conns : sock'[c] = sock[c] \/ ~sock'[c].open
      PROVE  ClaimInv'
  <2>1. \A c \in subs : sock'[c].open => Stream(c)' = Stream(c) /\ sock[c].open
    BY <1>0, <1>1, StreamKept
  <2>2. \A c \in subs : \A e : Owed(c, e)' = Owed(c, e)
    BY <1>1 DEF Owed, Promised
  <2>3. NothingMissed'
    BY <1>1, <2>1, <2>2, OwedSuffices
  <2>4. QED
    BY <1>1, <2>3 DEF ClaimInv
<1>2. CASE ResumeFound \/ CloseAll \/ UNCHANGED vars
  BY <1>0, <1>1, <1>2 DEF ResumeFound, CloseAll, vars, broker
<1>3. ASSUME NEW c \in Conns, Close(c) PROVE ClaimInv'
  <2>1. \A d \in Conns : sock'[d] = sock[d] \/ ~sock'[d].open
    BY <1>0, <1>3 DEF Close, Sockets
  <2>2. QED
    BY <1>0, <1>1, <1>3, <2>1 DEF Close, broker
<1>4. QED
  BY <1>2, <1>3, BroadcastClaims, HandshakeClaims, WriteClaims DEF Next

(* Whatever the order in which threads broadcast and connections arrive:   *)
(* a subscriber has been sent every event since it was added, and every    *)
(* one it lacked that the history held when it was read, or is still to    *)
(* be sent it (SseBroker::broadcast_with_id, replay_to, handle_sse).       *)
THEOREM EventsAreNotMissed == Spec => []NothingMissed
<1>1. Init => ClaimInv
  BY DEF Init, ClaimInv, NothingMissed, NoSend, NoConn
<1>2. ClaimInv => NothingMissed
  BY DEF ClaimInv
<1>3. QED
  BY SseInit, <1>1, <1>2, TypeStep, SockStep, ClaimStep, PTL DEF Spec

-----------------------------------------------------------------------------
(* The events of one thread keep their order.                              *)
InOrder(s, by) ==
    \A i \in 1 .. Len(s) : \A k \in 1 .. i - 1 : by[s[k]] = by[s[i]] => s[k] < s[i]

LEMMA AppendOrder ==
    ASSUME NEW s \in Seq(Event), NEW m \in Event, NEW by
    PROVE  /\ ToSet(Append(s, m)) = ToSet(s) \cup {m}
           /\ InOrder(s, by) /\ (\A e \in ToSet(s) : by[e] = by[m] => e < m)
                => InOrder(Append(s, m), by)
<1> DEFINE t == Append(s, m)
<1>1. /\ Len(t) = Len(s) + 1 /\ t[Len(s) + 1] = m /\ Len(s) \in Nat
      /\ \A i \in 1 .. Len(s) : t[i] = s[i]
      /\ DOMAIN t = 1 .. Len(t) /\ DOMAIN s = 1 .. Len(s)
  BY AppendProperties
<1> HIDE DEF t
<1>2. ToSet(t) = ToSet(s) \cup {m}
  <2>1. 1 .. Len(t) = 1 .. Len(s) \cup {Len(s) + 1}
    BY <1>1
  <2>2. QED
    BY <1>1, <2>1 DEF ToSet
<1>3. ASSUME InOrder(s, by), \A e \in ToSet(s) : by[e] = by[m] => e < m
      PROVE  InOrder(t, by)
  <2> SUFFICES ASSUME NEW i \in 1 .. Len(t), NEW k \in 1 .. i - 1, by[t[k]] = by[t[i]]
               PROVE  t[k] < t[i]
    BY DEF InOrder
  <2>1. k \in 1 .. Len(s) /\ t[k] = s[k]
    BY <1>1
  <2>2. CASE i = Len(s) + 1
    BY <1>1, <1>3, <2>1, <2>2 DEF ToSet
  <2>3. CASE i # Len(s) + 1
    BY <1>1, <1>3, <2>1, <2>3 DEF InOrder
  <2>4. QED
    BY <2>2, <2>3
<1>4. QED
  BY <1>2, <1>3 DEF t

LEMMA CutOrder ==
    ASSUME NEW s, NEW t, Cut(t, s), NEW by
    PROVE  ToSet(t) \subseteq ToSet(s) /\ (InOrder(s, by) => InOrder(t, by))
<1>1. t \in Seq(Event) /\ s \in Seq(Event)
  BY DEF Cut
<1>2. PICK f \in [1 .. Len(t) -> 1 .. Len(s)] :
         /\ \A i \in 1 .. Len(t) : s[f[i]] = t[i]
         /\ \A i, k \in 1 .. Len(t) : k < i => f[k] < f[i]
  BY DEF Cut
<1>3. Len(t) \in Nat /\ Len(s) \in Nat /\ DOMAIN t = 1 .. Len(t) /\ DOMAIN s = 1 .. Len(s)
  BY <1>1
<1>4. ToSet(t) \subseteq ToSet(s)
  BY <1>2, <1>3 DEF ToSet
<1>5. ASSUME InOrder(s, by), NEW i \in 1 .. Len(t), NEW k \in 1 .. i - 1, by[t[k]] = by[t[i]]
      PROVE  t[k] < t[i]
  <2>1. k \in 1 .. Len(t) /\ k < i
    BY <1>3
  <2>2. f[i] \in 1 .. Len(s) /\ f[k] \in 1 .. f[i] - 1
    BY <1>2, <1>3, <2>1
  <2>3. s[f[i]] = t[i] /\ s[f[k]] = t[k]
    BY <1>2, <2>1
  <2>4. QED
    BY <1>5, <2>2, <2>3 DEF InOrder
<1>6. QED
  BY <1>4, <1>5 DEF InOrder

(* A thread that still has to send its event to a connection has sent it   *)
(* only earlier ones.                                                      *)
Sending(b, c) == bc[b].at = "list" \/ c \in bc[b].todo
Ahead(b, c) == \A e \in ToSet(Stream(c)) : sender[e] = b => e < bc[b].id

InTurn(c) ==
    /\ ToSet(Stream(c)) \subseteq 1 .. nextId - 1 /\ conn[c].missed \subseteq 1 .. nextId - 1
    /\ conn[c].last = 0 => conn[c].at \notin {"read", "replay"}
    /\ conn[c].at = "none" => conn[c].last = 0
    /\ conn[c].last = 0 => /\ InOrder(Stream(c), sender)
                           /\ \A b \in Broadcasters : Sending(b, c) => Ahead(b, c)

OrderInv ==
    /\ Len(sender) = nextId - 1
    /\ \A b \in Broadcasters : bc[b].at # "idle" => bc[b].id \in 1 .. nextId - 1 /\ sender[bc[b].id] = b
    /\ \A b \in Broadcasters : bc[b].at # "send" => bc[b].todo = {}
    /\ \A c \in Conns : InTurn(c)

LEMMA StreamsAreSeqs ==
    ASSUME TypeInv, SockInv, NEW c \in Conns
    PROVE  /\ Stream(c) \in Seq(Event) /\ DOMAIN Stream(c) = 1 .. Len(Stream(c))
           /\ \A i \in 1 .. Len(Stream(c)) : Stream(c)[i] \in ToSet(Stream(c))
<1>1. Stream(c) \in Seq(Event)
  BY StreamTyped
<1>2. QED
  BY <1>1 DEF ToSet

(* An event is later than all before it.                                   *)
LEMMA NumberInTurn ==
    ASSUME TypeInv, SockInv, OrderInv, NEW b \in Broadcasters, Number(b)
    PROVE  OrderInv'
<1>0. /\ nextId \in Nat \ {0} /\ sender \in Seq(Broadcasters) /\ Len(sender) = nextId - 1
      /\ bc \in [Broadcasters -> Sends] /\ nextId' = nextId + 1 /\ sender' = Append(sender, b)
      /\ UNCHANGED <<sock, got, conn>>
      /\ bc' = [bc EXCEPT ![b] = [at |-> "list", id |-> nextId, todo |-> {}]]
  BY DEF Number, TypeInv, TypeOK, OrderInv, Sends
<1>1. /\ Len(sender') = nextId' - 1 /\ sender'[nextId] = b
      /\ \A e \in 1 .. nextId - 1 : sender'[e] = sender[e]
  BY <1>0, AppendProperties
<1>2. \A x \in Broadcasters : bc'[x].at # "idle" =>
         bc'[x].id \in 1 .. nextId' - 1 /\ sender'[bc'[x].id] = x
  <2>1. ASSUME NEW x \in Broadcasters, bc'[x].at # "idle"
        PROVE  bc'[x].id \in 1 .. nextId' - 1 /\ sender'[bc'[x].id] = x
    <3>1. CASE x = b
      BY <1>0, <1>1, <3>1
    <3>2. CASE x # b
      BY <1>0, <1>1, <2>1, <3>2 DEF OrderInv
    <3>3. QED
      BY <3>1, <3>2
  <2>2. QED
    BY <2>1
<1>3. \A x \in Broadcasters : bc'[x].at # "send" => bc'[x].todo = {}
  BY <1>0 DEF OrderInv
<1>4. ASSUME NEW c \in Conns PROVE InTurn(c)'
  <2>1. Stream(c)' = Stream(c) /\ InTurn(c)
    BY <1>0, StreamKept DEF OrderInv
  <2> DEFINE s == Stream(c)
  <2>2. /\ s \in Seq(Event) /\ ToSet(s) \subseteq 1 .. nextId - 1
        /\ \A i \in 1 .. Len(s) : s[i] \in ToSet(s)
    BY <2>1, StreamsAreSeqs DEF InTurn
  <2>3. ToSet(s) \subseteq 1 .. nextId' - 1 /\ conn'[c].missed \subseteq 1 .. nextId' - 1
    BY <1>0, <2>1, <2>2 DEF InTurn
  <2> HIDE DEF s
  <2>4. ASSUME InOrder(s, sender) PROVE InOrder(s, sender')
    <3> SUFFICES ASSUME NEW i \in 1 .. Len(s), NEW k \in 1 .. i - 1, sender'[s[k]] = sender'[s[i]]
                 PROVE  s[k] < s[i]
      BY DEF InOrder
    <3>1. k \in 1 .. Len(s)
      BY <2>2
    <3>2. sender'[s[k]] = sender[s[k]] /\ sender'[s[i]] = sender[s[i]]
      BY <1>1, <2>2, <3>1
    <3>3. QED
      BY <2>4, <3>2 DEF InOrder
  <2>5. ASSUME conn[c].last = 0, NEW x \in Broadcasters, Sending(x, c)', NEW e \in ToSet(s),
               sender'[e] = x
        PROVE  e < bc'[x].id
    <3>1. e \in 1 .. nextId - 1 /\ sender[e] = x
      BY <1>1, <2>2, <2>5
    <3>2. CASE x = b
      BY <1>0, <3>1, <3>2
    <3>3. CASE x # b
      <4>1. bc'[x] = bc[x]
        BY <1>0, <3>3
      <4>2. Sending(x, c)
        BY <2>5, <4>1 DEF Sending
      <4>3. QED
        BY <2>1, <2>5, <3>1, <4>1, <4>2 DEF InTurn, Ahead, s
    <3>4. QED
      BY <3>2, <3>3
  <2>6. conn' = conn
    BY <1>0
  <2>7. conn[c].last = 0 => InOrder(s, sender') /\ \A x \in Broadcasters : Sending(x, c)' => Ahead(x, c)'
    BY <2>1, <2>4, <2>5 DEF InTurn, Ahead, s
  <2>8. QED
    BY <2>1, <2>3, <2>6, <2>7 DEF InTurn, s
<1>5. QED
  BY <1>1, <1>2, <1>3, <1>4 DEF OrderInv

(* A step that adds nothing to a stream and promises nothing.              *)
LEMMA TurnKept ==
    ASSUME NEW c \in Conns, InTurn(c), UNCHANGED <<nextId, sender>>,
           ToSet(Stream(c)') \subseteq ToSet(Stream(c)),
           InOrder(Stream(c), sender) => InOrder(Stream(c)', sender),
           conn'[c].missed \subseteq conn[c].missed, conn'[c].last = conn[c].last,
           conn'[c].at = conn[c].at \/ conn'[c].at \notin {"none", "read", "replay"},
           \A b \in Broadcasters : Sending(b, c)' => Sending(b, c) /\ bc'[b].id = bc[b].id
    PROVE  InTurn(c)'
<1>1. /\ ToSet(Stream(c)') \subseteq 1 .. nextId' - 1 /\ conn'[c].missed \subseteq 1 .. nextId' - 1
      /\ conn'[c].last = 0 => conn'[c].at \notin {"read", "replay"}
      /\ conn'[c].at = "none" => conn'[c].last = 0
  BY DEF InTurn
<1>2. ASSUME conn'[c].last = 0
      PROVE  /\ InOrder(Stream(c)', sender')
             /\ \A b \in Broadcasters : Sending(b, c)' => Ahead(b, c)'
  <2>1. InOrder(Stream(c), sender) /\ \A b \in Broadcasters : Sending(b, c) => Ahead(b, c)
    BY <1>2 DEF InTurn
  <2>2. InOrder(Stream(c)', sender')
    BY <2>1
  <2>3. ASSUME NEW b \in Broadcasters, Sending(b, c)' PROVE Ahead(b, c)'
    <3>1. Ahead(b, c) /\ bc'[b].id = bc[b].id
      BY <2>1, <2>3
    <3>2. QED
      BY <3>1 DEF Ahead
  <2>4. QED
    BY <2>2, <2>3
<1>3. QED
  BY <1>1, <1>2 DEF InTurn

(* A thread sends its event to each of the subscribers once.               *)
LEMMA SendInTurn ==
    ASSUME TypeInv, SockInv, OrderInv, NEW b \in Broadcasters,
           List(b) \/ \E c \in Conns : SendTo(b, c)
    PROVE  OrderInv'
<1>t. /\ bc \in [Broadcasters -> Sends] /\ bc[b] \in Sends
      /\ nextId \in Nat \ {0} /\ nextId =< MaxEvents + 1
  BY SseAssumption DEF TypeInv, TypeOK, Sends
<1>n. PICK todo : SendNext(b, todo)
  BY DEF List, SendTo
<1>0. /\ bc \in [Broadcasters -> Sends] /\ bc[b] \in Sends
      /\ UNCHANGED <<nextId, sender, conn>> /\ nextId \in Nat \ {0} /\ nextId =< MaxEvents + 1
  BY <1>t DEF List, SendTo
<1>1. \A x \in Broadcasters : x # b => bc'[x] = bc[x]
  BY <1>n, <1>t DEF SendNext
<1>2. /\ bc[b].at # "idle" /\ bc[b].id \in 1 .. nextId - 1 /\ sender[bc[b].id] = b
      /\ bc'[b] = NoSend \/ (bc'[b].id = bc[b].id /\ bc'[b].at = "send")
  <2>1. bc[b].at # "idle"
    BY DEF List, SendTo, OrderInv
  <2>2. bc'[b] = NoSend \/ (bc'[b].id = bc[b].id /\ bc'[b].at = "send")
    BY <1>n, <1>t DEF SendNext, Sends
  <2>3. QED
    BY <2>1, <2>2 DEF OrderInv
<1>3. \A x \in Broadcasters : bc'[x].at # "idle" =>
         bc'[x].id \in 1 .. nextId' - 1 /\ sender'[bc'[x].id] = x
  BY <1>0, <1>1, <1>2 DEF OrderInv, NoSend
<1>4. \A x \in Broadcasters : bc'[x].at # "send" => bc'[x].todo = {}
  BY <1>1, <1>2 DEF OrderInv, NoSend
<1>5. CASE List(b)
  <2>1. UNCHANGED <<sock, got>> /\ bc[b].at = "list"
    BY <1>5 DEF List
  <2>2. ASSUME NEW c \in Conns PROVE InTurn(c)'
    <3>1. Stream(c)' = Stream(c) /\ InTurn(c)
      BY <2>1, StreamKept DEF OrderInv
    <3>2. \A x \in Broadcasters : Sending(x, c)' => Sending(x, c) /\ bc'[x].id = bc[x].id
      BY <1>1, <1>2, <2>1 DEF Sending, NoSend
    <3>3. QED
      BY <1>0, <3>1, <3>2, TurnKept
  <2>3. QED
    BY <1>0, <1>3, <1>4, <2>2 DEF OrderInv
<1>6. ASSUME NEW d \in Conns, SendTo(b, d) PROVE OrderInv'
  <2> DEFINE m == bc[b].id
             s == Stream(d)
  <2>1. /\ Send(d, m) /\ got' = got /\ d \in bc[b].todo /\ bc[b].at = "send"
        /\ d \notin bc'[b].todo /\ bc'[b].at # "list" /\ bc'[b].todo \subseteq bc[b].todo
    BY <1>0, <1>6 DEF SendTo, SendNext, OrderInv, NoSend, Sends
  <2>2. m \in Event /\ m # Quiet /\ m \in 0 .. MaxEvents
    BY <1>0, <1>2, SseAssumption DEF Event, Quiet
  <2>3. ASSUME NEW c \in Conns PROVE Stream(c)' = IF c = d /\ sock[d].open THEN Append(Stream(c), m)
                                                  ELSE Stream(c)
    <3>1. Stream(c)' = IF c = d /\ sock[d].open /\ m # Quiet THEN Append(Stream(c), m)
                       ELSE Stream(c)
      BY <2>1, <2>2, StreamOfSend
    <3>2. QED
      BY <2>2, <3>1
  <2>4. \A c \in Conns, x \in Broadcasters :
           Sending(x, c)' => Sending(x, c) /\ bc'[x].id = bc[x].id /\ (c = d => x # b)
    BY <1>1, <1>2, <2>1 DEF Sending, NoSend
  <2>5. \A c \in Conns : InTurn(c)
    BY DEF OrderInv
  <2>6. ASSUME NEW c \in Conns, c # d \/ ~sock[d].open PROVE InTurn(c)'
    <3>1. Stream(c)' = Stream(c)
      BY <2>3, <2>6
    <3>2. QED
      BY <1>0, <2>4, <2>5, <3>1, TurnKept
  <2>7. CASE sock[d].open
    <3>1. Stream(d)' = Append(s, m) /\ s \in Seq(Event)
      BY <2>3, <2>7, StreamTyped
    <3>2. InTurn(d)
      BY <2>5
    <3>3. sender[m] = b /\ m \in 1 .. nextId - 1
      BY <1>2
    <3> HIDE DEF m
    <3>4. ToSet(Stream(d)') = ToSet(s) \cup {m}
      BY <2>2, <3>1, AppendOrder
    <3>5. /\ ToSet(Stream(d)') \subseteq 1 .. nextId' - 1 /\ conn'[d].missed \subseteq 1 .. nextId' - 1
          /\ conn'[d].last = 0 => conn'[d].at \notin {"read", "replay"}
          /\ conn'[d].at = "none" => conn'[d].last = 0
      BY <1>0, <3>2, <3>3, <3>4 DEF InTurn
    <3>6. ASSUME conn[d].last = 0 PROVE InOrder(Stream(d)', sender)
      <4>1. InOrder(s, sender) /\ (Sending(b, d) => Ahead(b, d))
        BY <3>2, <3>6 DEF InTurn
      <4>2. \A e \in ToSet(s) : sender[e] = sender[m] => e < m
        BY <2>1, <3>3, <4>1 DEF Sending, Ahead, m
      <4>3. QED
        BY <2>2, <3>1, <4>1, <4>2, AppendOrder
    <3>7. ASSUME conn[d].last = 0, NEW x \in Broadcasters, Sending(x, d)', NEW e \in ToSet(Stream(d)'),
                 sender[e] = x
          PROVE  e < bc'[x].id
      <4>1. Sending(x, d) /\ bc'[x].id = bc[x].id /\ x # b
        BY <2>4, <3>7
      <4>2. e \in ToSet(s)
        BY <3>3, <3>4, <3>7, <4>1
      <4>3. QED
        BY <3>2, <3>7, <4>1, <4>2 DEF InTurn, Ahead
    <3>8. InTurn(d)'
      BY <1>0, <3>5, <3>6, <3>7 DEF InTurn, Ahead
    <3>9. QED
      BY <1>0, <1>3, <1>4, <2>6, <3>8 DEF OrderInv
  <2>8. CASE ~sock[d].open
    BY <1>0, <1>3, <1>4, <2>6, <2>8 DEF OrderInv
  <2>9. QED
    BY <2>7, <2>8
<1>7. QED
  BY <1>5, <1>6

(* Only a connection that has named an event is sent a replay.             *)
LEMMA HandshakeInTurn ==
    ASSUME TypeInv, SockInv, OrderInv, NEW c \in Conns,
           Connect(c) \/ Handshake(c) \/ KeepAlive(c) \/ Reap(c)
    PROVE  OrderInv'
<1>0. /\ conn \in [Conns -> Clients] /\ conn[c] \in Clients /\ nextId \in Nat \ {0}
  BY SseAssumption DEF TypeInv, TypeOK, Clients
<1>1. UNCHANGED <<bc, nextId, sender, got>>
  BY DEF Connect, Handshake, Add, ReadHistory, Replay, SendInit, TakeResume, KeepAlive, Reap, broker
<1>2. \A d \in Conns : d # c => conn'[d] = conn[d]
  BY <1>0 DEF Connect, Handshake, Add, ReadHistory, Replay, SendInit, TakeResume, KeepAlive, Reap, Goto
<1>3. \A b \in Broadcasters, d \in Conns : Sending(b, d)' => Sending(b, d) /\ bc'[b].id = bc[b].id
  BY <1>1 DEF Sending
<1>4. ASSUME InTurn(c)', \A d \in Conns : d # c => Stream(d)' = Stream(d) PROVE OrderInv'
  <2>1. ASSUME NEW d \in Conns, d # c PROVE InTurn(d)'
    <3>1. InTurn(d) /\ conn'[d] = conn[d] /\ Stream(d)' = Stream(d)
      BY <1>2, <1>4, <2>1 DEF OrderInv
    <3>2. QED
      BY <1>1, <1>3, <3>1, TurnKept
  <2>2. QED
    BY <1>1, <1>4, <2>1 DEF OrderInv
<1>5. InTurn(c)
  BY DEF OrderInv
<1>6. CASE Replay(c) /\ conn[c].missed # {}
  <2>1. PICK m \in Oldest(c) : Send(c, m) /\ conn' = [conn EXCEPT ![c].missed = @ \ {m}]
    BY <1>6 DEF Replay
  <2>2. /\ m \in conn[c].missed /\ m \in Event /\ m \in 0 .. MaxEvents /\ m \in 1 .. nextId - 1
        /\ conn'[c].missed \subseteq conn[c].missed /\ conn'[c].last = conn[c].last
        /\ conn'[c].at = "replay" /\ conn[c].at = "replay"
    BY <1>0, <1>5, <1>6, <2>1, SseAssumption DEF Replay, Clients, Oldest, Event, InTurn
  <2>3. ASSUME NEW d \in Conns
        PROVE  Stream(d)' = Stream(d) \/ (d = c /\ Stream(d)' = Append(Stream(d), m))
    BY <1>1, <2>1, <2>2, StreamOfSend
  <2>4. ToSet(Stream(c)') \subseteq ToSet(Stream(c)) \cup {m}
    <3>1. Stream(c) \in Seq(Event)
      BY StreamTyped
    <3>2. ToSet(Append(Stream(c), m)) = ToSet(Stream(c)) \cup {m}
      BY <2>2, <3>1, AppendOrder
    <3>3. QED
      BY <2>3, <3>2
  <2>5. conn[c].last # 0
    BY <1>5, <2>2 DEF InTurn
  <2>6. InTurn(c)'
    BY <1>1, <1>5, <2>2, <2>4, <2>5 DEF InTurn
  <2>7. QED
    BY <1>4, <2>3, <2>6
<1>7. CASE ~(Replay(c) /\ conn[c].missed # {})
  <2>1. sock' = sock \/ Send(c, Quiet)
    BY <1>7 DEF Connect, Handshake, Add, ReadHistory, Replay, SendInit, TakeResume, KeepAlive, Reap,
       Oldest
  <2>2. ASSUME NEW d \in Conns PROVE Stream(d)' = Stream(d)
    <3>1. CASE sock' = sock
      BY <1>1, <3>1, StreamKept
    <3>2. CASE Send(c, Quiet)
      <4>1. Quiet \in 0 .. MaxEvents
        BY SseAssumption DEF Quiet
      <4>2. QED
        BY <1>1, <3>2, <4>1, StreamOfSend
    <3>3. QED
      BY <2>1, <3>1, <3>2
  <2>3. CASE Connect(c)
    <3>1. PICK n \in 0 .. MaxEvents : conn' = [conn EXCEPT ![c].at = "add", ![c].last = n]
      BY <2>3 DEF Connect
    <3>2. /\ conn'[c].at = "add" /\ conn'[c].missed = conn[c].missed /\ conn[c].last = 0
      BY <1>0, <1>5, <2>3, <3>1 DEF Connect, Clients, InTurn
    <3>3. InOrder(Stream(c), sender) /\ \A b \in Broadcasters : Sending(b, c) => Ahead(b, c)
      BY <1>5, <3>2 DEF InTurn
    <3>4. InTurn(c)'
      BY <1>1, <1>5, <2>2, <3>2, <3>3 DEF InTurn, Sending, Ahead
    <3>5. QED
      BY <1>4, <2>2, <3>4
  <2>4. CASE Add(c)
    <3>1. /\ conn'[c].at = IF conn[c].last > 0 THEN "read" ELSE "init"
          /\ conn'[c].missed = conn[c].missed /\ conn'[c].last = conn[c].last
      BY <1>0, <2>4 DEF Add, Goto, Clients
    <3>2. InTurn(c)'
      BY <1>1, <1>5, <2>2, <3>1 DEF InTurn, Sending, Ahead
    <3>3. QED
      BY <1>4, <2>2, <3>2
  <2>5. CASE ReadHistory(c)
    <3>1. /\ conn'[c].at = "replay" /\ conn'[c].missed = Missed(c) /\ conn'[c].last = conn[c].last
          /\ conn[c].last # 0
      BY <1>0, <1>5, <2>5 DEF ReadHistory, Clients, InTurn
    <3>2. Missed(c) \subseteq 1 .. nextId - 1
      <4>1. /\ history \in Seq(Event) /\ Len(history) \in Nat /\ Len(history) < nextId
            /\ \A i \in 1 .. Len(history) : history[i] = nextId - Len(history) + i - 1
        BY DEF TypeInv, TypeOK, Contiguous
      <4>2. \A i \in 1 .. Len(history) : history[i] \in 1 .. nextId - 1
        BY <1>0, <4>1
      <4>3. QED
        BY <4>1, <4>2 DEF Missed, ToSet
    <3>3. InTurn(c)'
      BY <1>1, <1>5, <2>2, <3>1, <3>2 DEF InTurn
    <3>4. QED
      BY <1>4, <2>2, <3>3
  <2>6. CASE Replay(c) \/ SendInit(c) \/ TakeResume(c) \/ KeepAlive(c) \/ Reap(c)
    <3>1. /\ conn'[c].missed = conn[c].missed /\ conn'[c].last = conn[c].last
          /\ conn'[c].at = conn[c].at \/ conn'[c].at \in {"init", "take", "live", "gone"}
      BY <1>0, <1>7, <2>6 DEF Replay, SendInit, TakeResume, KeepAlive, Reap, Goto, Clients, Oldest
    <3>2. InTurn(c)'
      BY <1>1, <1>3, <1>5, <2>2, <3>1, TurnKept
    <3>3. QED
      BY <1>4, <2>2, <3>2
  <2>7. QED
    BY <2>3, <2>4, <2>5, <2>6 DEF Handshake
<1>8. QED
  BY <1>6, <1>7

LEMMA OrderStep == TypeInv /\ SockInv /\ OrderInv /\ [Next]_vars => OrderInv'
<1> SUFFICES ASSUME TypeInv, SockInv, OrderInv, [Next]_vars PROVE OrderInv'
  OBVIOUS
<1>1. ASSUME UNCHANGED <<bc, nextId, sender, conn>>,
             \A c \in Conns : Stream(c)' = Stream(c) \/ Broken(c)
      PROVE  OrderInv'
  <2>1. ASSUME NEW c \in Conns PROVE InTurn(c)'
    <3>1. ToSet(Stream(c)') \subseteq ToSet(Stream(c))
      BY <1>1, CutOrder DEF Broken
    <3>2. InOrder(Stream(c), sender) => InOrder(Stream(c)', sender)
      <4>1. CASE Stream(c)' = Stream(c)
        BY <4>1
      <4>2. CASE Broken(c)
        BY <4>2, CutOrder DEF Broken
      <4>3. QED
        BY <1>1, <4>1, <4>2
    <3>3. InTurn(c) /\ \A b \in Broadcasters : Sending(b, c)' => Sending(b, c) /\ bc'[b].id = bc[b].id
      BY <1>1 DEF OrderInv, Sending
    <3>4. QED
      BY <1>1, <3>1, <3>2, <3>3, TurnKept
  <2>2. QED
    BY <1>1, <2>1 DEF OrderInv
<1>2. CASE ResumeFound \/ CloseAll \/ UNCHANGED vars
  <2>1. \A c \in Conns : Stream(c)' = Stream(c)
    BY <1>2 DEF ResumeFound, CloseAll, vars, Stream
  <2>2. QED
    BY <1>1, <1>2, <2>1 DEF ResumeFound, CloseAll, vars, broker
<1>3. ASSUME NEW c \in Conns, Write(c) PROVE OrderInv'
  <2>1. \A d \in Conns : Stream(d)' = Stream(d) \/ Broken(d)
    BY <1>3, StreamOfWrite
  <2>2. QED
    BY <1>1, <1>3, <2>1 DEF Write, DoWrite, Written, WriteFails, broker
<1>4. ASSUME NEW c \in Conns, Close(c) PROVE OrderInv'
  <2>1. \A d \in Conns : sock'[d].buf = sock[d].buf /\ sock'[d].chunks = sock[d].chunks
    BY <1>4 DEF Close, TypeInv, TypeOK
  <2>2. \A d \in Conns : Stream(d)' = Stream(d)
    BY <1>4, <2>1 DEF Close, Stream
  <2>3. QED
    BY <1>1, <1>4, <2>2 DEF Close, broker
<1>5. ASSUME NEW b \in Broadcasters, Broadcast(b) PROVE OrderInv'
  BY <1>5, NumberInTurn, SendInTurn DEF Broadcast
<1>6. QED
  BY <1>2, <1>3, <1>4, <1>5, HandshakeInTurn DEF Next

(* Nothing has been sent.                                                  *)
LEMMA NoStream == ASSUME Init, NEW c \in Conns PROVE Stream(c) = <<>>
<1>1. got[c] = <<>> /\ sock[c].chunks = <<>> /\ sock[c].buf = <<>> /\ <<>> \in Seq(Event)
  BY DEF Init, NewSock
<1>2. Stream(c) = Whole(<<>>, <<>>, <<>>)
  BY <1>1 DEF Stream, Whole
<1>3. QED
  BY <1>1, <1>2, WholeMoves, ConcatEmptySeq

LEMMA OrderInit == Init => OrderInv
<1> SUFFICES ASSUME Init PROVE OrderInv
  OBVIOUS
<1>1. \A c \in Conns : InTurn(c)
  BY NoStream DEF Init, InTurn, InOrder, ToSet, Sending, NoSend, NoConn
<1>2. QED
  BY <1>1 DEF Init, OrderInv, NoSend

(* A thread sends an event to all before it numbers the next one, so that  *)
(* its events reach a connection in their order, whatever the others send  *)
(* in between (SseBroker::broadcast_with_id, SseSubscriber::send).         *)
THEOREM ThreadsKeepTheirOrder == Spec => []PerThreadOrder
<1>1. OrderInv => PerThreadOrder
  BY DEF OrderInv, InTurn, InOrder, PerThreadOrder
<1>2. QED
  BY SseInit, OrderInit, <1>1, TypeStep, SockStep, OrderStep, PTL DEF Spec

-----------------------------------------------------------------------------
(* No event comes twice without a replay.                                  *)
LEMMA TimesTyped ==
    ASSUME NEW s \in Seq(Event), NEW e
    PROVE  /\ IsFiniteSet({i \in DOMAIN s : s[i] = e}) /\ Times(s, e) \in Nat
           /\ e \notin ToSet(s) => Times(s, e) = 0
<1> DEFINE P == {i \in DOMAIN s : s[i] = e}
<1>1. DOMAIN s = 1 .. Len(s) /\ Len(s) \in Nat
  OBVIOUS
<1>2. IsFiniteSet(1 .. Len(s))
  BY <1>1, FS_Interval
<1>3. P \in SUBSET (1 .. Len(s))
  BY <1>1
<1>4. IsFiniteSet(P)
  BY <1>2, <1>3, FS_Subset
<1>5. Cardinality(P) \in Nat
  BY <1>4, FS_CardinalityType
<1>6. e \notin ToSet(s) => P = {}
  BY DEF ToSet
<1>7. QED
  BY <1>4, <1>5, <1>6, FS_EmptySet DEF Times

LEMMA TimesAppend ==
    ASSUME NEW s \in Seq(Event), NEW m \in Event, NEW e
    PROVE  Times(Append(s, m), e) = IF e = m THEN Times(s, e) + 1 ELSE Times(s, e)
<1> DEFINE t == Append(s, m)
           P == {i \in DOMAIN s : s[i] = e}
           Q == {i \in DOMAIN t : t[i] = e}
<1>1. /\ DOMAIN s = 1 .. Len(s) /\ Len(s) \in Nat /\ DOMAIN t = 1 .. Len(s) + 1
      /\ t[Len(s) + 1] = m /\ \A i \in 1 .. Len(s) : t[i] = s[i]
  BY AppendProperties
<1> HIDE DEF t
<1>2. IsFiniteSet(P) /\ Len(s) + 1 \notin P
  <2>1. IsFiniteSet(P)
    BY TimesTyped
  <2>2. Len(s) + 1 \notin P
    BY <1>1
  <2>3. QED
    BY <2>1, <2>2
<1>3. Times(t, e) = Cardinality(Q) /\ Times(s, e) = Cardinality(P)
  BY DEF Times
<1>4. CASE e = m
  <2>1. Q = P \cup {Len(s) + 1}
    BY <1>1, <1>4
  <2> HIDE DEF P, Q
  <2>2. Cardinality(P \cup {Len(s) + 1}) = Cardinality(P) + 1
    BY <1>2, FS_AddElement
  <2>3. QED
    BY <1>3, <1>4, <2>1, <2>2 DEF t
<1>5. CASE e # m
  <2>1. Q = P
    BY <1>1, <1>5
  <2>2. QED
    BY <1>3, <1>5, <2>1 DEF t
<1>6. QED
  BY <1>4, <1>5

LEMMA TimesGrow ==
    ASSUME NEW s \in Seq(Event), NEW m \in Event, NEW t, t = s \/ t = Append(s, m), NEW e
    PROVE  /\ Times(t, e) \in Nat /\ Times(s, e) \in Nat
           /\ Times(t, e) =< Times(s, e) + 1
           /\ t = s \/ e # m => Times(t, e) = Times(s, e)
<1>1. Times(s, e) \in Nat
  BY TimesTyped
<1>2. Times(Append(s, m), e) = IF e = m THEN Times(s, e) + 1 ELSE Times(s, e)
  BY TimesAppend
<1>3. CASE t = s
  BY <1>1, <1>3
<1>4. CASE t = Append(s, m) /\ t # s
  <2>1. Times(t, e) = IF e = m THEN Times(s, e) + 1 ELSE Times(s, e)
    BY <1>2, <1>4
  <2>2. QED
    BY <1>1, <1>4, <2>1
<1>5. QED
  BY <1>3, <1>4

LEMMA TimesCut ==
    ASSUME NEW s, NEW t, Cut(t, s), NEW e
    PROVE  Times(t, e) =< Times(s, e)
<1> DEFINE P == {i \in DOMAIN s : s[i] = e}
           Q == {i \in DOMAIN t : t[i] = e}
<1>1. /\ t \in Seq(Event) /\ s \in Seq(Event) /\ DOMAIN t = 1 .. Len(t) /\ DOMAIN s = 1 .. Len(s)
      /\ Len(t) \in Nat /\ Len(s) \in Nat
  BY DEF Cut
<1>2. PICK f \in [1 .. Len(t) -> 1 .. Len(s)] :
         /\ \A i \in 1 .. Len(t) : s[f[i]] = t[i]
         /\ \A i, k \in 1 .. Len(t) : k < i => f[k] < f[i]
  BY DEF Cut
<1> DEFINE g == [i \in Q |-> f[i]]
<1>3. g \in [Q -> P] /\ \A i \in Q : g[i] = f[i] /\ i \in 1 .. Len(t)
  BY <1>1, <1>2
<1>4. ASSUME NEW i \in Q, NEW k \in Q, g[i] = g[k] PROVE i = k
  <2>1. /\ i \in 1 .. Len(t) /\ k \in 1 .. Len(t) /\ f[i] = f[k]
        /\ f[i] \in Nat /\ f[k] \in Nat
    BY <1>1, <1>2, <1>3, <1>4
  <2>2. ~(k < i) /\ ~(i < k)
    BY <1>2, <2>1
  <2>3. QED
    BY <2>1, <2>2
<1> HIDE DEF g
<1>5. g \in Injection(Q, P)
  BY <1>3, <1>4 DEF Injection, IsInjective
<1>6. IsFiniteSet(P)
  BY <1>1, TimesTyped
<1> HIDE DEF P, Q
<1>7. Cardinality(Q) =< Cardinality(P)
  BY <1>5, <1>6, FS_Injection
<1>8. QED
  BY <1>7 DEF Times, P, Q

(* What of an event a connection has and can still come by: a copy that is *)
(* left in its replay, one a thread still sends, and the replay itself.    *)
Due(c, e) == IF e \in conn[c].missed THEN 1 ELSE 0
Coming(c, e) == IF \E b \in Broadcasters : Sending(b, c) /\ bc[b].id = e THEN 1 ELSE 0
Asks(c) == IF conn[c].last > 0 /\ conn[c].at \in {"none", "add", "read"} THEN 1 ELSE 0
Copies(c) == IF conn[c].last > 0 THEN 2 ELSE 1

DupInv ==
    \A c \in Conns : \A e \in Event :
        Times(Stream(c), e) + Due(c, e) + Coming(c, e) + Asks(c) =< Copies(c)

LEMMA CountsTyped ==
    ASSUME NEW c, NEW e
    PROVE  /\ Due(c, e) \in {0, 1} /\ Coming(c, e) \in {0, 1} /\ Asks(c) \in {0, 1}
           /\ Copies(c) \in {1, 2}
  BY DEF Due, Coming, Asks, Copies

LEMMA StreamTimes ==
    ASSUME TypeInv, SockInv, NEW c \in Conns, NEW e
    PROVE  Times(Stream(c), e) \in Nat
  BY StreamTyped, TimesTyped

LEMMA BroadcastCounts ==
    ASSUME TypeInv, SockInv, OrderInv, DupInv, NEW b \in Broadcasters, Broadcast(b)
    PROVE  DupInv'
<1>0. /\ bc \in [Broadcasters -> Sends] /\ bc[b] \in Sends /\ conn' = conn
      /\ \A c \in Conns : InTurn(c)
  BY DEF Broadcast, Number, List, SendTo, TypeInv, TypeOK, Sends, OrderInv
<1>1. \A c : Asks(c)' = Asks(c) /\ Copies(c)' = Copies(c)
  BY <1>0 DEF Asks, Copies
<1>2. \A c, e : Due(c, e)' = Due(c, e)
  BY <1>0 DEF Due
<1>3. \A x \in Broadcasters : x # b => bc'[x] = bc[x]
  BY <1>0 DEF Broadcast, Number, List, SendTo, SendNext
<1>4. CASE Number(b)
  <2>1. /\ bc'[b] = [at |-> "list", id |-> nextId, todo |-> {}] /\ UNCHANGED <<sock, got>>
        /\ nextId \in Nat
    BY <1>0, <1>4 DEF Number, TypeInv, TypeOK
  <2>2. ASSUME NEW c \in Conns, NEW e \in Event
        PROVE  (Times(Stream(c), e) + Due(c, e) + Coming(c, e) + Asks(c) =< Copies(c))'
    <3>1. Stream(c)' = Stream(c)
      BY <2>1, StreamKept
    <3>2. /\ Times(Stream(c), e) + Due(c, e) + Coming(c, e) + Asks(c) =< Copies(c)
          /\ Times(Stream(c), e) \in Nat /\ Times(Stream(c), e)' = Times(Stream(c), e)
      BY <3>1, StreamTimes DEF DupInv
    <3>3. CASE e # nextId
      <4>1. Coming(c, e)' = 1 => Coming(c, e) = 1
        BY <1>3, <2>1, <3>3 DEF Coming, Sending
      <4>2. Coming(c, e)' \in {0, 1} /\ Coming(c, e) \in {0, 1}
        BY DEF Coming
      <4>3. QED
        BY <1>1, <1>2, <3>2, <4>1, <4>2, CountsTyped
    <3>4. CASE e = nextId
      <4>1. e \notin ToSet(Stream(c)) /\ e \notin conn[c].missed
        BY <1>0, <2>1, <3>4 DEF InTurn
      <4>2. Times(Stream(c), e) = 0 /\ Due(c, e) = 0
        BY <4>1, StreamTyped, TimesTyped DEF Due
      <4>3. Coming(c, e)' \in {0, 1} /\ Asks(c) \in {0, 1} /\ (Asks(c) = 1 => Copies(c) = 2)
            /\ Copies(c) \in {1, 2}
        BY DEF Coming, Asks, Copies
      <4>4. QED
        BY <1>1, <1>2, <3>2, <4>2, <4>3
    <3>5. QED
      BY <3>3, <3>4
  <2>3. QED
    BY <2>2 DEF DupInv
<1>5. CASE List(b)
  <2>1. /\ bc[b].at = "list" /\ UNCHANGED <<sock, got>>
        /\ bc'[b] = NoSend \/ (bc'[b].id = bc[b].id /\ bc'[b].at = "send")
    BY <1>0, <1>5 DEF List, SendNext, Sends
  <2>2. ASSUME NEW c \in Conns, NEW e \in Event
        PROVE  (Times(Stream(c), e) + Due(c, e) + Coming(c, e) + Asks(c) =< Copies(c))'
    <3>1. Stream(c)' = Stream(c)
      BY <2>1, StreamKept
    <3>2. /\ Times(Stream(c), e) + Due(c, e) + Coming(c, e) + Asks(c) =< Copies(c)
          /\ Times(Stream(c), e) \in Nat /\ Times(Stream(c), e)' = Times(Stream(c), e)
      BY <3>1, StreamTimes DEF DupInv
    <3>3. Coming(c, e)' = 1 => Coming(c, e) = 1
      BY <1>3, <2>1 DEF Coming, Sending, NoSend
    <3>4. Coming(c, e)' \in {0, 1} /\ Coming(c, e) \in {0, 1}
      BY DEF Coming
    <3>5. QED
      BY <1>1, <1>2, <3>2, <3>3, <3>4, CountsTyped
  <2>3. QED
    BY <2>2 DEF DupInv
<1>6. ASSUME NEW d \in Conns, SendTo(b, d) PROVE DupInv'
  <2> DEFINE m == bc[b].id
  <2>1. /\ Send(d, m) /\ got' = got /\ d \in bc[b].todo /\ d \notin bc'[b].todo
        /\ bc'[b].at # "list" /\ bc'[b].todo \subseteq bc[b].todo
        /\ bc'[b] = NoSend \/ bc'[b].id = m
    BY <1>0, <1>6 DEF SendTo, SendNext, NoSend, Sends
  <2>2. m \in 1 .. nextId - 1 /\ sender[m] = b /\ m \in 0 .. MaxEvents /\ m \in Event
    BY <1>0, <2>1, SseAssumption DEF OrderInv, Sends, Event
  <2>g. ASSUME NEW c \in Conns, NEW e, Stream(c)' = Stream(c) \/ Stream(c)' = Append(Stream(c), m)
        PROVE  /\ Times(Stream(c)', e) \in Nat /\ Times(Stream(c)', e) =< Times(Stream(c), e) + 1
               /\ Stream(c)' = Stream(c) \/ e # m => Times(Stream(c)', e) = Times(Stream(c), e)
    <3>1. Stream(c) \in Seq(Event)
      BY StreamTyped
    <3> HIDE DEF m
    <3>2. QED
      BY <2>2, <2>g, <3>1, TimesGrow
  <2>3. ASSUME NEW c \in Conns, NEW e \in Event
        PROVE  (Times(Stream(c), e) + Due(c, e) + Coming(c, e) + Asks(c) =< Copies(c))'
    <3>1. Stream(c)' = Stream(c) \/ (c = d /\ Stream(c)' = Append(Stream(c), m))
      BY <2>1, <2>2, StreamOfSend
    <3>2. /\ Times(Stream(c), e) + Due(c, e) + Coming(c, e) + Asks(c) =< Copies(c)
          /\ Times(Stream(c), e) \in Nat
      BY StreamTimes DEF DupInv
    <3>3. Coming(c, e)' = 1 => Coming(c, e) = 1
      BY <1>3, <2>1, <2>2 DEF Coming, Sending, NoSend
    <3>4. Coming(c, e)' \in {0, 1} /\ Coming(c, e) \in {0, 1}
      BY DEF Coming
    <3>5. CASE c # d \/ e # m
      <4>1. Times(Stream(c), e)' = Times(Stream(c), e)
        BY <2>g, <3>1, <3>5
      <4>2. QED
        BY <1>1, <1>2, <3>2, <3>3, <3>4, <4>1, CountsTyped
    <3>6. CASE c = d /\ e = m
      <4>1. Coming(c, e) = 1
        BY <2>1, <3>6 DEF Coming, Sending
      <4>2. Coming(c, e)' = 0
        <5>1. \A x \in Broadcasters : Sending(x, c)' => bc'[x].id # e
          BY <1>3, <2>1, <2>2, <3>6 DEF Sending, OrderInv
        <5>2. QED
          BY <5>1 DEF Coming
      <4>3. Times(Stream(c), e)' =< Times(Stream(c), e) + 1 /\ Times(Stream(c), e)' \in Nat
        BY <2>g, <3>1
      <4>4. QED
        BY <1>1, <1>2, <3>2, <4>1, <4>2, <4>3, CountsTyped
    <3>7. QED
      BY <3>5, <3>6
  <2>4. QED
    BY <2>3 DEF DupInv
<1>7. QED
  BY <1>4, <1>5, <1>6 DEF Broadcast

(* A step that sends nothing of a number and promises nothing.             *)
LEMMA CountsKept ==
    ASSUME TypeInv, SockInv, DupInv, UNCHANGED bc, NEW c \in Conns, NEW e \in Event,
           Times(Stream(c)', e) \in Nat, Times(Stream(c)', e) =< Times(Stream(c), e),
           Due(c, e)' + Asks(c)' - Copies(c)' =< Due(c, e) + Asks(c) - Copies(c)
    PROVE  (Times(Stream(c), e) + Due(c, e) + Coming(c, e) + Asks(c) =< Copies(c))'
<1>1. /\ Times(Stream(c), e) + Due(c, e) + Coming(c, e) + Asks(c) =< Copies(c)
      /\ Times(Stream(c), e) \in Nat
  BY StreamTimes DEF DupInv
<1>2. Coming(c, e)' = Coming(c, e)
  BY DEF Coming, Sending
<1>3. /\ Due(c, e)' \in {0, 1} /\ Asks(c)' \in {0, 1} /\ Copies(c)' \in {1, 2}
  BY DEF Due, Asks, Copies
<1>4. QED
  BY <1>1, <1>2, <1>3, CountsTyped

LEMMA HandshakeCounts ==
    ASSUME TypeInv, SockInv, OrderInv, DupInv, NEW c \in Conns,
           Connect(c) \/ Handshake(c) \/ KeepAlive(c) \/ Reap(c),
           \A d \in Conns : conn[d].at # "replay" => conn[d].missed = {}
    PROVE  DupInv'
<1>0. /\ conn \in [Conns -> Clients] /\ conn[c] \in Clients /\ InTurn(c)
  BY DEF TypeInv, TypeOK, Clients, OrderInv
<1>1. UNCHANGED <<bc, got>>
  BY DEF Connect, Handshake, Add, ReadHistory, Replay, SendInit, TakeResume, KeepAlive, Reap, broker
<1>2. \A d \in Conns : d # c => conn'[d] = conn[d]
  BY <1>0 DEF Connect, Handshake, Add, ReadHistory, Replay, SendInit, TakeResume, KeepAlive, Reap, Goto
<1>3. ASSUME NEW d \in Conns, d # c, Stream(d)' = Stream(d), NEW e \in Event
      PROVE  (Times(Stream(d), e) + Due(d, e) + Coming(d, e) + Asks(d) =< Copies(d))'
  <2>1. Due(d, e)' = Due(d, e) /\ Asks(d)' = Asks(d) /\ Copies(d)' = Copies(d)
    BY <1>2, <1>3 DEF Due, Asks, Copies
  <2>2. Times(Stream(d)', e) = Times(Stream(d), e) /\ Times(Stream(d), e) \in Nat
    BY <1>3, StreamTimes
  <2>3. Due(d, e)' + Asks(d)' - Copies(d)' =< Due(d, e) + Asks(d) - Copies(d)
    BY <2>1, CountsTyped
  <2>4. QED
    BY <1>1, <2>2, <2>3, CountsKept
<1>4. CASE Replay(c) /\ conn[c].missed # {}
  <2>1. PICK m \in Oldest(c) : Send(c, m) /\ conn' = [conn EXCEPT ![c].missed = @ \ {m}]
    BY <1>4 DEF Replay
  <2>2. /\ m \in conn[c].missed /\ m \in Event /\ m \in 0 .. MaxEvents
        /\ conn'[c].missed = conn[c].missed \ {m} /\ conn'[c].last = conn[c].last
        /\ conn'[c].at = conn[c].at
    BY <1>0, <1>4, <2>1, SseAssumption DEF Replay, Clients, Oldest, Event
  <2>3. ASSUME NEW d \in Conns
        PROVE  Stream(d)' = Stream(d) \/ (d = c /\ Stream(d)' = Append(Stream(d), m))
    BY <1>1, <2>1, <2>2, StreamOfSend
  <2>4. ASSUME NEW e \in Event
        PROVE  (Times(Stream(c), e) + Due(c, e) + Coming(c, e) + Asks(c) =< Copies(c))'
    <3>1. /\ Times(Stream(c)', e) \in Nat /\ Times(Stream(c), e) \in Nat
          /\ Times(Stream(c)', e) =< Times(Stream(c), e) + 1
          /\ e # m => Times(Stream(c)', e) = Times(Stream(c), e)
      <4>1. Stream(c) \in Seq(Event) /\ (Stream(c)' = Stream(c) \/ Stream(c)' = Append(Stream(c), m))
        BY <2>3, StreamTyped
      <4>2. QED
        BY <2>2, <4>1, TimesGrow
    <3>2. /\ Times(Stream(c), e) + Due(c, e) + Coming(c, e) + Asks(c) =< Copies(c)
          /\ Coming(c, e)' = Coming(c, e) /\ Asks(c)' = Asks(c) /\ Copies(c)' = Copies(c)
      BY <1>1, <2>2 DEF DupInv, Coming, Sending, Asks, Copies
    <3>3. CASE e = m
      <4>1. Due(c, e) = 1 /\ Due(c, e)' = 0
        BY <2>2, <3>3 DEF Due
      <4>2. QED
        BY <3>1, <3>2, <4>1, CountsTyped
    <3>4. CASE e # m
      <4>1. Due(c, e)' = Due(c, e)
        BY <2>2, <3>4 DEF Due
      <4>2. QED
        BY <3>1, <3>2, <3>4, <4>1, CountsTyped
    <3>5. QED
      BY <3>3, <3>4
  <2>5. QED
    BY <1>3, <2>3, <2>4 DEF DupInv
<1>5. CASE ~(Replay(c) /\ conn[c].missed # {})
  <2>1. sock' = sock \/ Send(c, Quiet)
    BY <1>5 DEF Connect, Handshake, Add, ReadHistory, Replay, SendInit, TakeResume, KeepAlive, Reap,
       Oldest
  <2>2. ASSUME NEW d \in Conns PROVE Stream(d)' = Stream(d)
    <3>1. CASE sock' = sock
      BY <1>1, <3>1, StreamKept
    <3>2. CASE Send(c, Quiet)
      <4>1. Quiet \in 0 .. MaxEvents
        BY SseAssumption DEF Quiet
      <4>2. QED
        BY <1>1, <3>2, <4>1, StreamOfSend
    <3>3. QED
      BY <2>1, <3>1, <3>2
  <2>3. ASSUME NEW e \in Event,
               Due(c, e)' + Asks(c)' - Copies(c)' =< Due(c, e) + Asks(c) - Copies(c)
        PROVE  (Times(Stream(c), e) + Due(c, e) + Coming(c, e) + Asks(c) =< Copies(c))'
    <3>1. Times(Stream(c)', e) = Times(Stream(c), e) /\ Times(Stream(c), e) \in Nat
      BY <2>2, StreamTimes
    <3>2. QED
      BY <1>1, <2>3, <3>1, CountsKept
  <2>4. ASSUME NEW e \in Event
        PROVE  Due(c, e)' + Asks(c)' - Copies(c)' =< Due(c, e) + Asks(c) - Copies(c)
    <3>1. CASE Connect(c)
      <4>1. PICK n \in 0 .. MaxEvents : conn' = [conn EXCEPT ![c].at = "add", ![c].last = n]
        BY <3>1 DEF Connect
      <4>2. /\ conn'[c].at = "add" /\ conn'[c].last = n /\ conn'[c].missed = conn[c].missed
            /\ conn[c].last = 0 /\ n \in Nat
        <5>1. conn[c].last = 0 /\ n \in Nat
          <6>1. conn[c].at = "none"
            BY <3>1 DEF Connect
          <6>2. n \in Nat
            BY SseAssumption
          <6>3. QED
            BY <1>0, <6>1, <6>2 DEF InTurn
        <5>2. QED
          BY <1>0, <4>1, <5>1 DEF Clients
      <4>3. Due(c, e)' = Due(c, e) /\ Asks(c) = 0 /\ Copies(c) = 1
        BY <4>2 DEF Due, Asks, Copies
      <4>4. (Asks(c)' = 0 /\ Copies(c)' = 1) \/ (Asks(c)' = 1 /\ Copies(c)' = 2)
        BY <4>2 DEF Asks, Copies
      <4>5. QED
        BY <4>3, <4>4, CountsTyped
    <3>2. CASE ReadHistory(c)
      <4>1. /\ conn'[c].at = "replay" /\ conn'[c].last = conn[c].last /\ conn[c].last > 0
            /\ conn[c].at = "read" /\ conn[c].missed = {}
        BY <1>0, <3>2 DEF ReadHistory, Clients, InTurn
      <4>2. /\ Asks(c) = 1 /\ Asks(c)' = 0 /\ Copies(c)' = Copies(c) /\ Due(c, e) = 0
            /\ Due(c, e)' \in {0, 1}
        BY <4>1 DEF Asks, Copies, Due
      <4>3. QED
        BY <4>2, CountsTyped
    <3>3. CASE ~Connect(c) /\ ~ReadHistory(c)
      <4>1. /\ conn'[c].missed = conn[c].missed /\ conn'[c].last = conn[c].last
            /\ conn'[c].at \in {"none", "add", "read"} => conn[c].last = 0 \/ conn[c].at \in {"none", "add", "read"}
        BY <1>0, <1>5, <3>3 DEF Handshake, Add, Replay, SendInit, TakeResume, KeepAlive, Reap, Goto,
           Clients, Oldest
      <4>2. Due(c, e)' = Due(c, e) /\ Copies(c)' = Copies(c) /\ (Asks(c)' = 1 => Asks(c) = 1)
        BY <1>0, <4>1 DEF Asks, Copies, Due, Clients
      <4>3. Asks(c)' \in {0, 1}
        BY DEF Asks
      <4>4. QED
        BY <4>2, <4>3, CountsTyped
    <3>4. QED
      BY <3>1, <3>2, <3>3
  <2>5. QED
    BY <1>3, <2>2, <2>3, <2>4 DEF DupInv
<1>6. QED
  BY <1>4, <1>5

LEMMA DupStep == TypeInv /\ SockInv /\ ClaimInv /\ OrderInv /\ DupInv /\ [Next]_vars => DupInv'
<1> SUFFICES ASSUME TypeInv, SockInv, ClaimInv, OrderInv, DupInv, [Next]_vars PROVE DupInv'
  OBVIOUS
<1>1. ASSUME UNCHANGED <<bc, conn>>, \A c \in Conns : Stream(c)' = Stream(c) \/ Broken(c)
      PROVE  DupInv'
  <2>1. ASSUME NEW c \in Conns, NEW e \in Event
        PROVE  (Times(Stream(c), e) + Due(c, e) + Coming(c, e) + Asks(c) =< Copies(c))'
    <3>1. Times(Stream(c)', e) \in Nat /\ Times(Stream(c)', e) =< Times(Stream(c), e)
      <4>1. CASE Stream(c)' = Stream(c)
        BY <4>1, StreamTimes
      <4>2. CASE Broken(c)
        <5>1. Cut(Stream(c)', Stream(c)) /\ Stream(c)' \in Seq(Event)
          BY <4>2 DEF Broken, Cut
        <5>2. QED
          BY <5>1, TimesTyped, TimesCut
      <4>3. QED
        BY <1>1, <4>1, <4>2
    <3>2. Due(c, e)' = Due(c, e) /\ Asks(c)' = Asks(c) /\ Copies(c)' = Copies(c)
      BY <1>1 DEF Due, Asks, Copies
    <3>3. Due(c, e)' + Asks(c)' - Copies(c)' =< Due(c, e) + Asks(c) - Copies(c)
      BY <3>2, CountsTyped
    <3>4. QED
      BY <1>1, <3>1, <3>3, CountsKept
  <2>2. QED
    BY <2>1 DEF DupInv
<1>2. CASE ResumeFound \/ CloseAll \/ UNCHANGED vars
  <2>1. \A c \in Conns : Stream(c)' = Stream(c)
    BY <1>2 DEF ResumeFound, CloseAll, vars, Stream
  <2>2. QED
    BY <1>1, <1>2, <2>1 DEF ResumeFound, CloseAll, vars, broker
<1>3. ASSUME NEW c \in Conns, Write(c) PROVE DupInv'
  <2>1. \A d \in Conns : Stream(d)' = Stream(d) \/ Broken(d)
    BY <1>3, StreamOfWrite
  <2>2. QED
    BY <1>1, <1>3, <2>1 DEF Write, DoWrite, Written, WriteFails, broker
<1>4. ASSUME NEW c \in Conns, Close(c) PROVE DupInv'
  <2>1. \A d \in Conns : sock'[d].buf = sock[d].buf /\ sock'[d].chunks = sock[d].chunks
    BY <1>4 DEF Close, TypeInv, TypeOK
  <2>2. \A d \in Conns : Stream(d)' = Stream(d)
    BY <1>4, <2>1 DEF Close, Stream
  <2>3. QED
    BY <1>1, <1>4, <2>2 DEF Close, broker
<1>5. ASSUME NEW c \in Conns, Connect(c) \/ Handshake(c) \/ KeepAlive(c) \/ Reap(c) PROVE DupInv'
  BY <1>5, HandshakeCounts DEF ClaimInv
<1>6. QED
  BY <1>2, <1>3, <1>4, <1>5, BroadcastCounts DEF Next

(* However the replay of a connection and the broadcasts to it interleave: *)
(* an event is sent to it once, and a second time only if it has asked for *)
(* a replay (SseBroker::broadcast_with_id, replay_to).                     *)
THEOREM EventsComeOnce == Spec => []NoNeedlessDuplicate
<1>1. Init => ClaimInv
  BY DEF Init, ClaimInv, NothingMissed, NoSend, NoConn
<1>2. Init => DupInv
  <2> SUFFICES ASSUME Init, NEW c \in Conns, NEW e \in Event
               PROVE  Times(Stream(c), e) + Due(c, e) + Coming(c, e) + Asks(c) =< Copies(c)
    BY DEF DupInv
  <2>1. Stream(c) \in Seq(Event) /\ e \notin ToSet(Stream(c))
    <3>1. Stream(c) = <<>>
      BY NoStream
    <3>2. QED
      BY <3>1 DEF ToSet
  <2>2. Times(Stream(c), e) = 0
    BY <2>1, TimesTyped
  <2>3. Due(c, e) = 0 /\ Coming(c, e) = 0 /\ Asks(c) = 0 /\ Copies(c) = 1
    BY DEF Init, Due, Coming, Asks, Copies, Sending, NoSend, NoConn
  <2>4. QED
    BY <2>2, <2>3
<1>3. TypeInv /\ SockInv /\ DupInv => NoNeedlessDuplicate
  <2> SUFFICES ASSUME TypeInv, SockInv, DupInv, NEW c \in Conns, NEW e \in Event
               PROVE  Times(Stream(c), e) + Due(c, e) =< Copies(c)
    BY DEF NoNeedlessDuplicate, Due, Copies
  <2>1. /\ Times(Stream(c), e) + Due(c, e) + Coming(c, e) + Asks(c) =< Copies(c)
        /\ Times(Stream(c), e) \in Nat
    BY StreamTimes DEF DupInv
  <2>2. QED
    BY <2>1, CountsTyped
<1>4. QED
  BY SseInit, OrderInit, <1>1, <1>2, <1>3, TypeStep, SockStep, ClaimStep, OrderStep, DupStep, PTL
     DEF Spec

=============================================================================
