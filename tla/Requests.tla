------------------------------ MODULE Requests ------------------------------
(***************************************************************************)
(* The console's server, a thread for each connection: a client that may   *)
(* stop at any byte, the checks a request passes before its body is read,  *)
(* the body, the operation, and the draining of what was refused unread.   *)
(* src/python/jester/console/server.py                                     *)
(***************************************************************************)
EXTENDS Naturals

CONSTANTS Conns,      \* connections, each one used once: the server speaks HTTP/1.0
          Calls,      \* the requests a client may make
          BodyLimit,  \* MAX_BODY_BYTES, in chunks
          DrainLimit  \* _BODY_DRAIN_LIMIT, a little above it

\* A request: its verb, the first check it does not pass, how its body is
\* framed and how long it is declared, whether that is an object, and whether
\* its operation is the migration.
ASSUME RequestsAssumption ==
    /\ BodyLimit \in Nat /\ DrainLimit \in Nat /\ BodyLimit < DrainLimit
    /\ Calls \subseteq [verb : {"get", "post"}, wall : {"none", "host", "origin", "readonly", "token", "path"},
                         framing : {"length", "chunked", "unreadable"}, body : 0..(DrainLimit + 1),
                         object : BOOLEAN, migrate : BOOLEAN]

VARIABLES at,        \* where the thread of a connection is
          ask,       \* its request
          timed,     \* whether its socket has a timeout
          unsent,    \* chunks of its declared body that the client has not sent
          unread,    \* chunks that wait in the socket
          left,      \* chunks the thread still wants
          reply,     \* the status it answered, 0 for none
          current,   \* whether the archive has the schema of this build
          slow       \* the connections whose client outlasted a drain, or cut its body

requestVars == <<at, ask, timed, unsent, unread, left, reply, current, slow>>
wire == <<ask, timed, unsent, unread>>

Nothing == [verb |-> "none"]
RequestsInit ==
    /\ at = [k \in Conns |-> "none"] /\ ask = [k \in Conns |-> Nothing]
    /\ timed = [k \in Conns |-> FALSE]
    /\ unsent = [k \in Conns |-> 0] /\ unread = [k \in Conns |-> 0] /\ left = [k \in Conns |-> 0]
    /\ reply = [k \in Conns |-> 0] /\ current \in BOOLEAN /\ slow = {}

Goes(k, step) == at' = [at EXCEPT ![k] = step]
Reply(k, status) == reply' = [reply EXCEPT ![k] = status]

-----------------------------------------------------------------------------
(* The client                                                              *)

\* setup gives the socket its timeout before the request line is read.
SetupMutant(k) == UNCHANGED timed
Setup(k) == timed' = [timed EXCEPT ![k] = TRUE]
Connect(k, r) ==
    /\ at[k] = "none" /\ Goes(k, "head") /\ Setup(k)
    /\ ask' = [ask EXCEPT ![k] = r] /\ unsent' = [unsent EXCEPT ![k] = r.body]
    /\ UNCHANGED <<unread, left, reply, current, slow>>

HeadArrives(k) ==
    /\ at[k] = "head" /\ Goes(k, "route")
    /\ UNCHANGED <<wire, left, reply, current, slow>>

BodyArrives(k) ==
    /\ at[k] \notin {"none", "head"} /\ unsent[k] > 0
    /\ unsent' = [unsent EXCEPT ![k] = @ - 1] /\ unread' = [unread EXCEPT ![k] = @ + 1]
    /\ UNCHANGED <<at, ask, timed, left, reply, current, slow>>

-----------------------------------------------------------------------------
(* The answers                                                             *)

\* Answered, and the connection is closed.
Close(k, status) ==
    /\ Goes(k, "closed") /\ Reply(k, status) /\ UNCHANGED <<wire, left, current, slow>>

\* _refuse: answered, and then what was declared is read off the socket, so
\* that closing it does not take the answer back; a length that is no number
\* is taken for none.
Drainable(r) ==
    IF r.framing = "unreadable" THEN 0 ELSE IF r.body < DrainLimit THEN r.body ELSE DrainLimit
RefuseMutant(k, status) == Close(k, status)
Refuse(k, status) ==
    /\ Goes(k, "drain") /\ Reply(k, status) /\ left' = [left EXCEPT ![k] = Drainable(ask[k])]
    /\ UNCHANGED <<wire, current, slow>>

Drain(k) ==
    /\ at[k] = "drain" /\ left[k] > 0 /\ unread[k] > 0
    /\ left' = [left EXCEPT ![k] = @ - 1] /\ unread' = [unread EXCEPT ![k] = @ - 1]
    /\ UNCHANGED <<at, ask, timed, unsent, reply, current, slow>>
DrainEnds(k) ==
    /\ at[k] = "drain" /\ (unread[k] = 0 \/ left[k] = 0) /\ Goes(k, "closed")
    /\ slow' = IF left[k] > 0 THEN slow \cup {k} ELSE slow
    /\ UNCHANGED <<wire, left, reply, current>>

\* The socket times out, or the client goes, before the request is read.
HeadTimeout(k) ==
    /\ at[k] = "head" /\ timed[k] /\ Goes(k, "closed")
    /\ UNCHANGED <<wire, left, reply, current, slow>>

-----------------------------------------------------------------------------
(* Routing                                                                 *)

Foreign(r) == r.wall = "host"
CrossOrigin(r) == r.wall = "origin"
ReadOnly(r) == r.wall = "readonly"
Unauthorized(r) == r.wall = "token"
Unknown(r) == r.wall = "path"
\* Only the migration may be asked of an archive with another schema.
Stale(r) == ~r.migrate /\ ~current

\* The foreign host is refused before routing; a read needs a token only when
\* reads are protected, and the schema only under /api/.
RouteGet(k) == LET r == ask[k] IN
    /\ at[k] = "route" /\ r.verb = "get"
    /\ IF Foreign(r) THEN Refuse(k, 403)
       ELSE IF Unauthorized(r) THEN Close(k, 401)
       ELSE IF Stale(r) /\ ~Unknown(r) THEN Refuse(k, 503)
       ELSE Close(k, IF Unknown(r) THEN 404 ELSE 200)

\* Every write passes the same checks, in this order, before its body is read.
RoutePost(k) == LET r == ask[k] IN
    /\ at[k] = "route" /\ r.verb = "post"
    /\ IF Foreign(r) \/ CrossOrigin(r) \/ ReadOnly(r) THEN Refuse(k, 403)
       ELSE IF Unauthorized(r) THEN Refuse(k, 401)
       ELSE IF Stale(r) THEN Refuse(k, 503)
       ELSE Goes(k, "body") /\ UNCHANGED <<wire, left, reply, current, slow>>

\* The archive could not be opened: answered, not dropped.
RouteCrashes(k) == at[k] = "route" /\ ~Foreign(ask[k]) /\ Close(k, 500)

ReadBody(k) == LET r == ask[k] IN
    /\ at[k] = "body"
    /\ CASE r.framing = "chunked" -> Refuse(k, 411)
         [] r.framing = "unreadable" -> Close(k, 400)
         [] r.framing = "length" /\ r.body > BodyLimit -> Refuse(k, 413)
         [] OTHER -> /\ Goes(k, "reading") /\ left' = [left EXCEPT ![k] = r.body]
                     /\ UNCHANGED <<wire, reply, current, slow>>
ReadChunk(k) ==
    /\ at[k] = "reading" /\ left[k] > 0 /\ unread[k] > 0
    /\ left' = [left EXCEPT ![k] = @ - 1] /\ unread' = [unread EXCEPT ![k] = @ - 1]
    /\ UNCHANGED <<at, ask, timed, unsent, reply, current, slow>>
BodyTimeout(k) ==
    /\ at[k] = "reading" /\ left[k] > 0 /\ unread[k] = 0
    /\ Goes(k, "closed") /\ Reply(k, 408) /\ slow' = slow \cup {k}
    /\ UNCHANGED <<wire, left, current>>

BadBody(k) == at[k] = "reading" /\ left[k] = 0 /\ ask[k].body > 0 /\ ~ask[k].object /\ Close(k, 400)

\* The operation of the path, which may raise.
Operate(k) == LET r == ask[k] IN
    \/ /\ r.wall = "none" /\ (Reply(k, 200) \/ Reply(k, 500))
       /\ current' \in IF r.migrate THEN {current, TRUE} ELSE {current}
    \/ r.wall = "path" /\ Reply(k, 404) /\ UNCHANGED current
Perform(k) ==
    /\ at[k] = "reading" /\ left[k] = 0 /\ (ask[k].body = 0 \/ ask[k].object)
    /\ Goes(k, "closed") /\ Operate(k) /\ UNCHANGED <<wire, left, slow>>

\* The client shuts its side in the middle of the body.  What came is no
\* object; a body of which nothing came is an empty one, and is acted upon.
BodyCut(k) ==
    /\ at[k] = "reading" /\ left[k] > 0 /\ unread[k] = 0
    /\ Goes(k, "closed") /\ slow' = slow \cup {k} /\ UNCHANGED <<wire, left>>
    /\ IF left[k] = ask[k].body THEN Operate(k) ELSE Reply(k, 400) /\ UNCHANGED current

Serve(k) ==
    \/ HeadTimeout(k) \/ RouteGet(k) \/ RoutePost(k) \/ RouteCrashes(k) \/ ReadBody(k)
    \/ ReadChunk(k) \/ BodyTimeout(k) \/ BodyCut(k) \/ BadBody(k) \/ Perform(k) \/ Drain(k) \/ DrainEnds(k)

\* Another program migrates the archive, or puts an older one in its place.
ArchiveChanges == current' = ~current /\ UNCHANGED <<at, wire, left, reply, slow>>

RequestsNext ==
    \/ \E k \in Conns :
          \/ \E r \in Calls : Connect(k, r)
          \/ HeadArrives(k) \/ BodyArrives(k) \/ Serve(k)
    \/ ArchiveChanges

\* A thread of the server is never stopped: what it waits for comes, or its
\* socket times out.  A client owes nothing.
RequestsSpec == RequestsInit /\ [][RequestsNext]_requestVars /\ \A k \in Conns : WF_requestVars(Serve(k))

-----------------------------------------------------------------------------
(* What must hold                                                          *)

\* Every connection ends, wherever its client stops: none holds a thread of
\* the server for good (Handler.setup, _guard).
ConnectionsEnd == \A k \in Conns : at[k] # "none" ~> at[k] = "closed"

\* A request that was answered without being read keeps its answer: when the
\* connection is closed nothing of it waits in the socket, however the arrival
\* of its body was mixed with the reading (_refuse, _discard_body).
AnswerArrives ==
    \A k \in Conns :
        at[k] = "closed" /\ reply[k] \notin {0, 500} /\ k \notin slow
        /\ ask[k].framing = "length" /\ ask[k].body <= DrainLimit =>
            unread[k] = 0 /\ unsent[k] = 0
=============================================================================
