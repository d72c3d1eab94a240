----------------------------- MODULE SseBroker -----------------------------
(***************************************************************************)
(* Server-sent events: SseBroker and SseSubscriber of src/sse_broker.cpp,  *)
(* and the part of src/http_server.cpp that turns a request into a         *)
(* subscriber.  Any thread may broadcast: it numbers the event and puts it *)
(* into a bounded history, copies the set of subscribers, and then sends   *)
(* to each.  A new connection is added first and then, if it names the     *)
(* last event it has seen, is sent what the history holds of the later     *)
(* ones.  A subscriber gathers what is sent to it in a buffer, of which    *)
(* one asynchronous write at a time takes all there is.                    *)
(*                                                                         *)
(* A step is one section under the broker's or the subscriber's mutex, or  *)
(* the completion of a write.  An event is its number.  Of the messages    *)
(* that carry none (init, resumed, keep-alive: Quiet) a buffer only knows  *)
(* whether there is one (`note').  A thread that sets writing_             *)
(* goes on to do_write: `kicks' counts those on their way there, and the   *)
(* model lets the thread take its next step first, which only adds         *)
(* behaviours.                                                             *)
(***************************************************************************)
EXTENDS Naturals, FiniteSets, Sequences, SequencesExt

CONSTANTS Broadcasters,  \* threads that broadcast
          Conns,         \* connections to GET /events
          HistoryMax,    \* SseBroker::HISTORY_MAX
          MaxEvents      \* bound: events broadcast in the life of the process

ASSUME SseAssumption ==
    /\ IsFiniteSet(Broadcasters) /\ IsFiniteSet(Conns)
    /\ HistoryMax \in Nat \ {0} /\ MaxEvents \in Nat

Event == 1 .. MaxEvents
Quiet == 0

VARIABLES nextId,    \* next_id_
          history,   \* history_, the numbers only
          subs,      \* subs_
          bc,        \* a broadcaster: its place, the event, whom it still sends to
          conn,      \* a connection: its place, Last-Event-ID, the replay left
          sock,      \* its SseSubscriber: open_, writing_, write_buf_, the writes
          pending,   \* SyncService::pending_resume_
          closes,    \* close_all calls of main that have begun
          toClose,   \* the subscribers the last one still closes
          got,       \* history: the events written to a connection, in order
          from,      \* history: the first event a connection has a claim to
          sender     \* history: who broadcast an event

broker == <<nextId, history, bc, sender>>
server == <<pending, closes, toClose>>
vars == <<broker, subs, conn, sock, server, got, from>>

NoSend == [at |-> "idle", id |-> Quiet, todo |-> {}]
NoConn == [at |-> "none", last |-> 0, missed |-> {}]
NewSock == [open |-> TRUE, writing |-> FALSE, buf |-> <<>>, note |-> FALSE,
            kicks |-> 0, chunks |-> <<>>]

Init ==
    /\ nextId = 1 /\ history = <<>> /\ subs = {}
    /\ bc = [b \in Broadcasters |-> NoSend] /\ sender = <<>>
    /\ conn = [c \in Conns |-> NoConn]
    /\ sock = [c \in Conns |-> NewSock]
    /\ pending = "none" /\ closes = 0 /\ toClose = {}
    /\ got = [c \in Conns |-> <<>>] /\ from = [c \in Conns |-> 1]

-----------------------------------------------------------------------------
(* SseSubscriber.                                                          *)

\* write_buf_, of which only the events keep their places.
Join(buf, m) == IF m = Quiet THEN buf ELSE Append(buf, m)
Waits(c) == sock[c].buf # <<>> \/ sock[c].note

\* Mutant: writing_ is not tested, every send starts a write.
SendUnguarded(c, m) ==
    sock' = IF ~sock[c].open THEN sock
            ELSE [sock EXCEPT ![c].buf = Join(@, m), ![c].note = @ \/ m = Quiet,
                              ![c].writing = TRUE, ![c].kicks = @ + 1]

\* Mutant: the newest message goes to the front.
SendInFront(c, m) ==
    sock' = IF ~sock[c].open THEN sock
            ELSE [sock EXCEPT ![c].buf = Join(<<>>, m) \o @, ![c].note = @ \/ m = Quiet,
                              ![c].writing = TRUE,
                              ![c].kicks = IF sock[c].writing THEN @ ELSE @ + 1]

Send(c, m) ==
    sock' = IF ~sock[c].open THEN sock
            ELSE [sock EXCEPT ![c].buf = Join(@, m), ![c].note = @ \/ m = Quiet,
                              ![c].writing = TRUE,
                              ![c].kicks = IF sock[c].writing THEN @ ELSE @ + 1]

DoWrite(c) ==
    /\ sock[c].kicks > 0
    /\ sock' = [sock EXCEPT ![c].kicks = @ - 1,
                            ![c].buf = <<>>, ![c].note = FALSE,
                            ![c].writing = Waits(c),
                            ![c].chunks = IF Waits(c) THEN Append(@, sock[c].buf) ELSE @]
    /\ UNCHANGED <<broker, subs, conn, server, got, from>>

Deliver(c) ==
    /\ sock[c].chunks # <<>>
    /\ got' = [got EXCEPT ![c] = @ \o Head(sock[c].chunks)]

\* Mutant: what came in during the write waits for the next send.
WrittenForgetful(c) ==
    /\ Deliver(c)
    /\ sock' = [sock EXCEPT ![c].chunks = Tail(@), ![c].writing = FALSE]
    /\ UNCHANGED <<broker, subs, conn, server, from>>

\* The completion handler: the next write takes what came in meanwhile.
Written(c) ==
    /\ Deliver(c)
    /\ sock' = [sock EXCEPT ![c].chunks = Tail(@),
                            ![c].writing = Waits(c),
                            ![c].kicks = IF Waits(c) THEN @ + 1 ELSE @]
    /\ UNCHANGED <<broker, subs, conn, server, from>>

WriteFails(c) ==
    /\ sock[c].chunks # <<>>
    /\ sock' = [sock EXCEPT ![c].chunks = Tail(@), ![c].writing = FALSE, ![c].open = FALSE]
    /\ UNCHANGED <<broker, subs, conn, server, got, from>>

-----------------------------------------------------------------------------
(* SseBroker::broadcast_with_id.                                           *)

\* Mutant: the history is never cut.
NumberUnbounded(b) ==
    /\ bc[b].at = "idle" /\ nextId =< MaxEvents
    /\ nextId' = nextId + 1
    /\ history' = Append(history, nextId)
    /\ bc' = [bc EXCEPT ![b] = [at |-> "list", id |-> nextId, todo |-> {}]]
    /\ sender' = Append(sender, b)
    /\ UNCHANGED <<subs, conn, sock, server, got, from>>

\* The first section: number the event, and keep the newest HistoryMax.
Number(b) ==
    /\ bc[b].at = "idle" /\ nextId =< MaxEvents
    /\ nextId' = nextId + 1
    /\ history' = LET h == Append(history, nextId)
                  IN  IF Len(h) > HistoryMax THEN Tail(h) ELSE h
    /\ bc' = [bc EXCEPT ![b] = [at |-> "list", id |-> nextId, todo |-> {}]]
    /\ sender' = Append(sender, b)
    /\ UNCHANGED <<subs, conn, sock, server, got, from>>

SendNext(b, todo) ==
    bc' = [bc EXCEPT ![b] = IF todo = {} THEN NoSend ELSE [@ EXCEPT !.at = "send", !.todo = todo]]

\* The second section: copy the set of subscribers.
List(b) ==
    /\ bc[b].at = "list"
    /\ SendNext(b, subs)
    /\ UNCHANGED <<nextId, history, sender, subs, conn, sock, server, got, from>>

SendTo(b, c) ==
    /\ c \in bc[b].todo
    /\ Send(c, bc[b].id)
    /\ SendNext(b, bc[b].todo \ {c})
    /\ UNCHANGED <<nextId, history, sender, subs, conn, server, got, from>>

-----------------------------------------------------------------------------
(* HttpSession::handle_sse.                                                *)

Goto(c, place, to) == conn[c].at = place /\ conn' = [conn EXCEPT ![c].at = to]

\* The headers are written.  The client may name any event: it can have seen it
\* in an earlier life of the process, which numbered its events from 1, too.
Connect(c) ==
    /\ conn[c].at = "none"
    /\ \E last \in 0 .. MaxEvents : conn' = [conn EXCEPT ![c].at = "add", ![c].last = last]
    /\ UNCHANGED <<broker, subs, sock, server, got, from>>

\* Mutant: a replay for everyone.
AddAndReplay(c) ==
    /\ Goto(c, "add", "read")
    /\ subs' = subs \cup {c}
    /\ from' = [from EXCEPT ![c] = nextId]
    /\ UNCHANGED <<broker, sock, server, got>>

Add(c) ==
    /\ Goto(c, "add", IF conn[c].last > 0 THEN "read" ELSE "init")
    /\ subs' = subs \cup {c}
    /\ from' = [from EXCEPT ![c] = nextId]
    /\ UNCHANGED <<broker, sock, server, got>>

\* Mutant: the event the client has named is not the last one it has seen.
MissedAfterNext(c) == {e \in ToSet(history) : e > conn[c].last + 1}

Missed(c) == {e \in ToSet(history) : e > conn[c].last}

\* What a client lacks when its last event is the one it has named.
Lacking(c) == {e \in ToSet(history) : e > conn[c].last}

\* replay_to: copy what was missed ...
ReadHistory(c) ==
    /\ conn[c].at = "read"
    /\ conn' = [conn EXCEPT ![c].at = "replay", ![c].missed = Missed(c)]
    /\ from' = [from EXCEPT ![c] = Min(Lacking(c) \cup {@})]
    /\ UNCHANGED <<broker, subs, sock, server, got>>

\* ... and send it, one event at a time, in the order of the history.
Oldest(c) == {e \in conn[c].missed : \A x \in conn[c].missed : e =< x}

Replay(c) ==
    /\ conn[c].at = "replay"
    /\ \/ conn[c].missed = {} /\ conn' = [conn EXCEPT ![c].at = "init"] /\ UNCHANGED sock
       \/ \E e \in Oldest(c) : Send(c, e) /\ conn' = [conn EXCEPT ![c].missed = @ \ {e}]
    /\ UNCHANGED <<broker, subs, server, got, from>>

\* The init message with the newest webhooks.
SendInit(c) ==
    /\ Goto(c, "init", "take")
    /\ Send(c, Quiet)
    /\ UNCHANGED <<broker, subs, server, got, from>>

\* take_pending_resume: the first connection that comes here is told.
TakeResume(c) ==
    /\ Goto(c, "take", "live")
    /\ IF pending = "set" THEN pending' = "taken" /\ Send(c, Quiet)
       ELSE UNCHANGED <<pending, sock>>
    /\ UNCHANGED <<broker, subs, closes, toClose, got, from>>

\* SyncService::resume_on_start, while connections may already come in.
ResumeFound ==
    /\ pending = "none" /\ pending' = "set"
    /\ UNCHANGED <<broker, subs, conn, sock, closes, toClose, got, from>>

\* The detached thread of a connection: a keep-alive every 15 seconds ...
KeepAlive(c) ==
    /\ conn[c].at = "live" /\ sock[c].open
    /\ Send(c, Quiet)
    /\ UNCHANGED <<broker, subs, conn, server, got, from>>

\* Mutant: the thread ends, the subscriber stays.
ReapThread(c) ==
    /\ ~sock[c].open
    /\ Goto(c, "live", "gone")
    /\ UNCHANGED <<broker, subs, sock, server, got, from>>

\* ... until it finds the subscriber closed.
Reap(c) ==
    /\ ~sock[c].open
    /\ Goto(c, "live", "gone")
    /\ subs' = subs \ {c}
    /\ UNCHANGED <<broker, sock, server, got, from>>

-----------------------------------------------------------------------------
(* Shutdown: main calls close_all, and HttpServer::stop calls it again.    *)

CloseAll ==
    /\ closes < 2 /\ toClose = {}
    /\ closes' = closes + 1
    /\ toClose' = subs /\ subs' = {}
    /\ UNCHANGED <<broker, conn, sock, pending, got, from>>

Close(c) ==
    /\ c \in toClose
    /\ toClose' = toClose \ {c}
    /\ sock' = [sock EXCEPT ![c].open = FALSE]
    /\ UNCHANGED <<broker, subs, conn, pending, closes, got, from>>

-----------------------------------------------------------------------------
Broadcast(b) == Number(b) \/ List(b) \/ \E c \in Conns : SendTo(b, c)
Handshake(c) == Add(c) \/ ReadHistory(c) \/ Replay(c) \/ SendInit(c) \/ TakeResume(c)
Write(c) == DoWrite(c) \/ Written(c) \/ WriteFails(c)

Next ==
    \/ ResumeFound \/ CloseAll
    \/ \E b \in Broadcasters : Broadcast(b)
    \/ \E c \in Conns :
          Connect(c) \/ Handshake(c) \/ KeepAlive(c) \/ Reap(c) \/ Write(c) \/ Close(c)

\* Threads that have begun are carried on, a write completes one way or the
\* other, and the keep-alive thread wakes up.  No one has to broadcast.
Fairness ==
    /\ \A b \in Broadcasters : WF_vars(List(b)) /\ \A c \in Conns : WF_vars(SendTo(b, c))
    /\ \A c \in Conns :
          WF_vars(Handshake(c)) /\ WF_vars(Write(c)) /\ WF_vars(Reap(c)) /\ WF_vars(Close(c))

Spec == Init /\ [][Next]_vars
FairSpec == Spec /\ Fairness

-----------------------------------------------------------------------------
TypeOK ==
    /\ nextId \in 1 .. MaxEvents + 1
    /\ history \in Seq(Event) /\ Len(history) =< HistoryMax
    /\ subs \in SUBSET Conns /\ toClose \in SUBSET Conns
    /\ bc \in [Broadcasters -> [at : {"idle", "list", "send"}, id : 0..MaxEvents,
                                todo : SUBSET Conns]]
    /\ conn \in [Conns -> [at : {"none", "add", "read", "replay", "init", "take", "live", "gone"},
                           last : 0..MaxEvents, missed : SUBSET Event]]
    /\ sock \in [Conns -> [open : BOOLEAN, writing : BOOLEAN, buf : Seq(Event), note : BOOLEAN,
                           kicks : Nat, chunks : Seq(Seq(Event))]]
    /\ pending \in {"none", "set", "taken"} /\ closes \in 0..2
    /\ got \in [Conns -> Seq(Event)]
    /\ from \in [Conns -> 1 .. MaxEvents + 1]
    /\ sender \in Seq(Broadcasters)

\* What was sent to a connection, in order: written, being written, buffered.
Stream(c) == got[c] \o FlattenSeq(sock[c].chunks) \o sock[c].buf

\* A socket has at most one asynchronous write at a time: asio may mix the
\* bytes of two (sse_broker.cpp:21-28, 41-79).
OneWriteAtATime == \A c \in Conns : sock[c].kicks + Len(sock[c].chunks) =< 1

\* Some broadcaster is still to send event e to connection c, if it is added.
Promised(c, e) ==
    \E b \in Broadcasters : bc[b].id = e /\ (bc[b].at = "list" \/ c \in bc[b].todo)

\* No event falls between the replay and the broadcast: a subscriber has, or
\* will be sent, every event since it was added and every later one than it
\* named that the history still held when it was read (http_server.cpp:131-142).
NothingMissed ==
    \A c \in subs : sock[c].open =>
        \A e \in from[c] .. nextId - 1 :
            Contains(Stream(c), e) \/ e \in conn[c].missed \/ Promised(c, e)

Times(s, e) == Cardinality({i \in DOMAIN s : s[i] = e})

\* An event reaches a connection once, and a second time only if the connection
\* asked for a replay (sse_broker.cpp:157).
NoNeedlessDuplicate ==
    \A c \in Conns : \A e \in Event :
        LET due == IF e \in conn[c].missed THEN 1 ELSE 0
        IN  Times(Stream(c), e) + due =< IF conn[c].last > 0 THEN 2 ELSE 1

\* The events of one thread (the progress of one pull) arrive in the order in
\* which it broadcast them, unless a replay comes in between.
PerThreadOrder ==
    \A c \in Conns : conn[c].last = 0 =>
        LET s == Stream(c)
        IN  \A i \in 1 .. Len(s) : \A k \in 1 .. i - 1 :
                sender[s[k]] = sender[s[i]] => s[k] < s[i]

\* An event a subscriber has a claim to is written to it, or its connection
\* breaks: no wakeup of the writer is lost (sse_broker.cpp:64-77).
EventIsWritten ==
    \A c \in Conns : \A e \in Event :
        (c \in subs /\ from[c] =< e /\ e < nextId) ~> (Contains(got[c], e) \/ ~sock[c].open)

\* A broken connection is taken out of the broker (http_server.cpp:168-177).
BrokenIsForgotten == \A c \in Conns : ~sock[c].open ~> c \notin subs

=============================================================================
