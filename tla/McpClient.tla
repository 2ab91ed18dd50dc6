----------------------------- MODULE McpClient -----------------------------
(***************************************************************************)
(* One MCP server connection of bitty-ai-mcp: the supervised stdio child   *)
(* or the Streamable-HTTP transport, the initialize handshake, the paged   *)
(* import of the allowlisted tools, and the McpToolAdapter that dispatches *)
(* tool calls over it, denies while its tool list is stale, and re-lists   *)
(* on the host's request.                                                  *)
(*                                                                         *)
(* The client is single-flight: every operation sends one request and then *)
(* reads frames until one answers its id or its deadline passes.  One step *)
(* of the model is one frame read.  The server is the environment: it may  *)
(* run a tool without answering, answer late, push notifications and       *)
(* requests of its own between any two steps, change its tool list and its *)
(* declared capability, and exit.                                          *)
(***************************************************************************)
EXTENDS Naturals, Sequences, FiniteSets

CONSTANTS
    Kinds,        \* transports: a subset of {"stdio", "http"}
    Tools,        \* raw tool names
    Allowlists,   \* what the host may import
    Cursors,      \* paging tokens the server may hand out
    NoCursor,     \* the last page
    NoPin,        \* an adapter built without a protocol pin
    MaxPages,     \* MAX_TOOL_PAGES
    SurfacedCap,  \* MAX_SURFACED_FRAMES
    QueueCap,     \* MAX_SSE_FRAMES_PER_RESPONSE
    MaxId,        \* bound: highest request id the adapter mints
    MaxListing,   \* bound: changes of the server's tool list
    Shapes,       \* protocol version and tools capability the server may declare
    MaxPushed,    \* bound: frames the server starts on its own
    MaxUnread,    \* bound: frames of a stdio server not yet read
    MaxConns,     \* bound: connection attempts
    MaxVersion    \* bound: list versions the host adds by mark_stale

ASSUME CapsPositive ==
    /\ MaxPages \in Nat \ {0}
    /\ SurfacedCap \in Nat \ {0}
    /\ QueueCap \in Nat \ {0}
    /\ 0 \in Shapes /\ Shapes \subseteq Nat
    /\ \A allow \in Allowlists : allow # {} /\ allow \subseteq Tools

VARIABLES
    kind,       \* which transport
    dead,       \* SupervisedServer.dead / HttpLineTransport.closed
    alive,      \* the child process runs
    drained,    \* the drain worker has reported the end of stdout
    inbox,      \* frames decoded and not yet read by the client
    nextId,     \* McpToolAdapter.next_id (list_tools' counter before that)
    stale,      \* list_stale
    version,    \* list_version
    tools,      \* imported tools: name -> list version of its page
    pinned,     \* protocol_pin
    pc,         \* what the client waits for
    want,       \* the id it waits for
    allowed,    \* the allowlist of the import in progress
    raws,       \* entries of the pages read so far: name -> list version
    used,       \* used_cursors
    surfaced,   \* notifications stashed by this operation
    settled,    \* call id -> outcome reported to the bus
    listing,    \* server: version of its tool list
    signalled,  \* server: version it last announced
    due,        \* server: requests received and not answered
    ran,        \* server: calls it executed
    pushed,     \* server: frames it started on its own
    heard,      \* history: newest announced version the client read
    lastShape,  \* history: capability of the last initialize answer read
    conns       \* connection attempts

link == <<dead, alive, drained, inbox>>
adapter == <<nextId, stale, version, tools, pinned>>
progress == <<pc, want, allowed, raws, used, surfaced>>
server == <<listing, signalled, pushed>>
effects == <<due, ran>>
vars == <<kind, link, adapter, progress, settled, server, effects, heard,
          lastShape, conns>>

Empty == <<>>      \* the function with an empty domain

Waiting == {"handshake", "import", "call", "list", "pin"}

Frame(t, id, k, v, names, next) ==
    [t |-> t, id |-> id, k |-> k, v |-> v, names |-> names, next |-> next]
Answer(id, k) == Frame("answer", id, k, 0, {}, NoCursor)
Page(id, v, names, next) == Frame("answer", id, "page", v, names, next)
InitAnswer(id, s) == Frame("answer", id, "init", s, {}, NoCursor)
Changed == Frame("changed", 0, "", listing, {}, NoCursor)
Note == Frame("note", 0, "", 0, {}, NoCursor)
ServerRequest(id) == Frame("request", id, "", 0, {}, NoCursor)
Oversize == Frame("oversize", 0, "", 0, {}, NoCursor)
Eof == Frame("eof", 0, "", 0, {}, NoCursor)

Request(id, op) == [id |-> id, op |-> op]

Init ==
    /\ kind \in Kinds
    /\ dead = TRUE /\ alive = FALSE /\ drained = TRUE /\ inbox = <<>>
    /\ nextId = 2 /\ stale = FALSE /\ version = 0 /\ tools = Empty
    /\ pinned = NoPin
    /\ pc = "down" /\ want = 0 /\ allowed = {} /\ raws = Empty
    /\ used = {} /\ surfaced = <<>>
    /\ settled = Empty
    /\ listing = 0 /\ signalled = 0 /\ pushed = 0
    /\ due = {} /\ ran = {}
    /\ heard = 0 /\ lastShape = 0 /\ conns = 0

-----------------------------------------------------------------------------
(* The server: what it may put on the wire.                                *)

(* Answers a conforming server may give to a request it received.  A       *)
(* pre-execution rejection code promises that the tool did not run.        *)
AnswersTo(r) ==
    CASE r.op = "call" ->
           {Answer(r.id, k) : k \in {"ok", "big", "failed"}
                                    \cup (IF r.id \in ran THEN {} ELSE {"rejected"})}
      [] r.op = "list" ->
           {Answer(r.id, "failed")}
           \cup {Page(r.id, listing, names, next) :
                    names \in SUBSET Tools, next \in Cursors \cup {NoCursor}}
      [] r.op = "init" -> {Answer(r.id, "failed")} \cup {InitAnswer(r.id, s) : s \in Shapes}

Answered(frames) == {frames[i].id : i \in {j \in DOMAIN frames : frames[j].t = "answer"}}

(* Calls that a successful or an oversize result shows to have run.        *)
ShownRun(frames) ==
    {frames[i].id : i \in {j \in DOMAIN frames : frames[j].k \in {"ok", "big"}}}

(* Frames the server starts on its own: the announcement of a list change, *)
(* another notification, or a request under an id of the server's choosing.*)
PushedFrames ==
    (IF signalled < listing THEN {Changed} ELSE {})
    \cup {Note} \cup {ServerRequest(id) : id \in {want} \cap 2..MaxId}

(* HTTP: the frames of one response body, a JSON frame or an event stream: *)
(* nothing, an answer (to this request or a late one), a frame of the      *)
(* server's own, or that and then an answer.                               *)
Bodies(reqs) ==
    LET answers == UNION {AnswersTo(r) : r \in reqs}
        own == IF pushed < MaxPushed THEN PushedFrames ELSE {}
    IN  {<<>>} \cup {<<f>> : f \in answers \cup own}
        \cup {<<f, g>> : f \in own, g \in answers}

Pushes(frames) == {i \in DOMAIN frames : frames[i].t # "answer"}

-----------------------------------------------------------------------------
(* McpTransport::send_line.  `reqs` is the request in the frame (empty for *)
(* a reply or a notification), `id` its JSON-RPC id (0 when it has none),  *)
(* `box` the unread frames, `ok` whether the send succeeds.                *)

SendStdio(reqs, box, ok) ==
    /\ kind = "stdio"
    /\ inbox' = box
    /\ \/ /\ ok /\ ~dead /\ alive
          /\ due' = due \cup reqs
          /\ UNCHANGED <<dead, alive>>
       \/ /\ ~ok /\ ~dead /\ ~alive        \* is_alive reaps and marks dead
          /\ dead' = TRUE
          /\ UNCHANGED <<alive, due>>
       \/ /\ ~ok /\ ~dead /\ alive         \* write failed: shutdown
          /\ dead' = TRUE /\ alive' = FALSE
          /\ UNCHANGED due
       \/ /\ ~ok /\ dead
          /\ UNCHANGED <<dead, alive, due>>
    /\ UNCHANGED <<drained, ran, pushed, signalled>>

(* The bound is on the whole queue, whatever response filled it.           *)
Room(box) == IF Len(box) < QueueCap THEN QueueCap - Len(box) ELSE 0

(* enqueue_or_reject: a refused POST becomes an error answer under the     *)
(* outgoing id; a frame without an id reports the refusal directly.        *)
SendHttp(reqs, id, box, ok) ==
    /\ kind = "http"
    /\ \/ (* closed, capability or pin refusal, network error, oversize     *)
          (* body: nothing is queued, the server may have the request       *)
          /\ ~ok
          /\ due' \in {due, due \cup reqs}
          /\ inbox' = box
          /\ UNCHANGED <<ran, pushed, signalled>>
       \/ (* non-2xx status, bad content type or malformed body             *)
          /\ due' \in {due, due \cup reqs}
          /\ \/ /\ id # 0 /\ Room(box) > 0
                /\ ok
                /\ inbox' = Append(box, Answer(id, "failed"))
             \/ /\ id = 0 \/ Room(box) = 0
                /\ ~ok
                /\ inbox' = box
          /\ UNCHANGED <<ran, pushed, signalled>>
       \/ (* a JSON frame or an event stream                                *)
          \E body \in Bodies(due \cup reqs) :
            /\ ok = (Len(body) <= Room(box))
            /\ inbox' = box \o SubSeq(body, 1, IF ok THEN Len(body) ELSE Room(box))
            /\ due' = {r \in due \cup reqs : r.id \notin Answered(body)}
            /\ ran' = ran \cup ShownRun(body)
            /\ pushed' = pushed + Cardinality(Pushes(body))
            /\ signalled' = IF \E i \in DOMAIN body : body[i].t = "changed"
                            THEN listing ELSE signalled
    /\ UNCHANGED <<dead, alive, drained>>

Send(reqs, id, box, ok) ==
    SendStdio(reqs, box, ok) \/ SendHttp(reqs, id, box, ok)

(* A step that reads without sending.                                      *)
NoSend(box) ==
    /\ inbox' = box
    /\ UNCHANGED <<effects, drained, pushed, signalled>>

-----------------------------------------------------------------------------
(* Staleness.                                                              *)

(* is_tools_list_changed_notification over the stashed frames.             *)
Signals(frames) == Cardinality({i \in DOMAIN frames : frames[i].t = "changed"})

(* observe_notification for each stashed frame, from a given stale flag    *)
(* and version: mark_stale per signal.                                     *)
Route(frames, flag, base) ==
    /\ stale' = (flag \/ Signals(frames) > 0)
    /\ version' = base + Signals(frames)

(* The operation ends and the client is idle again.                        *)
Idle ==
    /\ pc' = "idle" /\ want' = 0 /\ allowed' = {} /\ raws' = Empty
    /\ used' = {} /\ surfaced' = <<>>

(* The host drops a connection whose handshake or import failed.           *)
Down ==
    /\ pc' = "down" /\ want' = 0 /\ allowed' = {} /\ raws' = Empty
    /\ used' = {} /\ surfaced' = <<>>
    /\ stale' = FALSE /\ version' = 0 /\ tools' = Empty /\ pinned' = NoPin
    /\ UNCHANGED settled

Settle(id, outcome) ==
    settled' = [i \in DOMAIN settled \cup {id} |->
                    IF i = id THEN outcome ELSE settled[i]]

(* revalidate_protocol_pin failed: signals first, then at least one stale  *)
(* mark.                                                                   *)
PinFails(frames) ==
    /\ IF stale \/ Signals(frames) > 0
       THEN Route(frames, stale, version)
       ELSE Route(frames, TRUE, version + 1)
    /\ Idle
    /\ UNCHANGED <<tools, pinned, settled>>

(* The wait, or a send of it, failed.  Stashed signals are routed first.   *)
OpFails(frames) ==
    \/ /\ pc \in {"handshake", "import"}
       /\ Down
    \/ /\ pc = "call"
       /\ Settle(want, "Unknown")
       /\ Route(frames, stale, version)
       /\ Idle
       /\ UNCHANGED <<tools, pinned>>
    \/ /\ pc = "list"
       /\ Route(frames, stale, version)
       /\ Idle
       /\ UNCHANGED <<tools, pinned, settled>>
    \/ /\ pc = "pin"
       /\ PinFails(frames)

-----------------------------------------------------------------------------
(* Connecting.                                                             *)

(* spawn_server or HttpLineTransport::new.  The old transport is gone.     *)
Spawn ==
    /\ pc = "down" /\ conns < MaxConns
    /\ conns' = conns + 1
    /\ \/ UNCHANGED <<link, pc, effects, settled>>      \* config, pin, spawn
       \/ /\ dead' = FALSE /\ alive' = TRUE /\ drained' = FALSE /\ inbox' = <<>>
          /\ pc' = "spawned"
          /\ due' = {} /\ ran' = {} /\ settled' = Empty
    /\ UNCHANGED <<kind, adapter, want, allowed, raws, used, surfaced, server,
                   heard, lastShape>>

(* handshake: initialize under id 1.                                       *)
Handshake ==
    /\ pc = "spawned"
    /\ \E ok \in BOOLEAN :
         /\ Send({Request(1, "init")}, 1, inbox, ok)
         /\ IF ok
            THEN /\ pc' = "handshake" /\ want' = 1
                 /\ UNCHANGED <<allowed, raws, used, surfaced, stale, version,
                                tools, pinned, settled>>
            ELSE Down
    /\ UNCHANGED <<kind, nextId, listing, heard, lastShape, conns>>

(* list_tools before the adapter exists, with a counter of its own from 2. *)
Import ==
    /\ pc = "connected"
    /\ \E allow \in Allowlists, ok \in BOOLEAN :
         /\ Send({Request(2, "list")}, 2, inbox, ok)
         /\ nextId' = 3
         /\ IF ok
            THEN /\ pc' = "import" /\ want' = 2 /\ allowed' = allow
                 /\ raws' = Empty /\ used' = {} /\ surfaced' = <<>>
                 /\ UNCHANGED <<stale, version, tools, pinned, settled>>
            ELSE Down
    /\ UNCHANGED <<kind, listing, heard, lastShape, conns>>

(* The host gives the connection up: the transport is dropped.             *)
Drop ==
    /\ pc = "idle"
    /\ Down
    /\ dead' = TRUE /\ alive' = FALSE
    /\ UNCHANGED <<kind, drained, inbox, nextId, effects, server, heard,
                   lastShape, conns>>

-----------------------------------------------------------------------------
(* McpToolAdapter::execute_inner.  Only the gates that the adapter's own   *)
(* state decides are separate; the tier, the authorizer and the consent    *)
(* ledger refuse on the same path.                                         *)

Execute ==
    /\ pc = "idle" /\ ~stale
    /\ tools # Empty
    /\ nextId <= MaxId
    /\ nextId' = nextId + 1
    /\ \/ /\ Settle(nextId, "ArgumentsTooLarge")        \* before any contact
          /\ UNCHANGED <<link, effects, progress, stale, version, pushed, signalled>>
       \/ \E ok \in BOOLEAN :
            /\ Send({Request(nextId, "call")}, nextId, inbox, ok)
            /\ IF ok
               THEN /\ pc' = "call" /\ want' = nextId /\ surfaced' = <<>>
                    /\ UNCHANGED <<allowed, raws, used, settled>>
               ELSE /\ Settle(nextId, "Unknown")
                    /\ UNCHANGED progress
            /\ UNCHANGED <<stale, version>>
    /\ UNCHANGED <<kind, tools, pinned, listing, heard, lastShape, conns>>

(* McpToolAdapter::relist, up to the first page request.                   *)
Relist ==
    /\ pc = "idle"
    /\ nextId <= MaxId
    /\ \E allow \in Allowlists, ok \in BOOLEAN :
         /\ Send({Request(nextId, "list")}, nextId, inbox, ok)
         /\ nextId' = nextId + 1
         /\ IF ok
            THEN /\ pc' = "list" /\ want' = nextId /\ allowed' = allow
                 /\ raws' = Empty /\ used' = {} /\ surfaced' = <<>>
            ELSE UNCHANGED progress
    /\ UNCHANGED <<kind, stale, version, tools, pinned, settled, listing,
                   heard, lastShape, conns>>

(* mark_stale called by the host for a signal it polled.                   *)
MarkStale ==
    /\ pc = "idle" /\ version < MaxVersion
    /\ stale' = TRUE
    /\ version' = version + 1
    /\ UNCHANGED <<kind, link, nextId, tools, pinned, progress, settled, server,
                   effects, heard, lastShape, conns>>

-----------------------------------------------------------------------------
(* wait_for_response: one frame per step.                                  *)

(* A frame was consumed without an answer: the loop goes on, unless the    *)
(* deadline passed meanwhile.                                              *)
KeepWaiting(frames) ==
    \/ /\ surfaced' = frames
       /\ UNCHANGED <<pc, want, allowed, raws, used, stale, version, tools,
                      pinned, settled>>
    \/ OpFails(frames)

(* Mutant: response_id_matches accepts any response.                       *)
AnyAnswer(f) == f.t = "answer"

Matches(f) == f.t = "answer" /\ f.id = want

(* A notification is stashed up to MAX_SURFACED_FRAMES, then dropped.      *)
HasRoom == Len(surfaced) < SurfacedCap

RecvNotification ==
    LET f == Head(inbox)
        kept == HasRoom
    IN  /\ f.t \in {"changed", "note"}
        /\ NoSend(Tail(inbox))
        /\ KeepWaiting(IF kept THEN Append(surfaced, f) ELSE surfaced)
        /\ heard' = IF kept /\ f.t = "changed" /\ f.v > heard THEN f.v ELSE heard
        /\ UNCHANGED <<nextId, dead, alive, lastShape>>

(* A server request is answered inline under the id the server chose.      *)
RecvRequest ==
    LET f == Head(inbox)
    IN  /\ f.t = "request"
        /\ \E ok \in BOOLEAN :
             /\ Send({}, f.id, Tail(inbox), ok)
             /\ IF ok THEN KeepWaiting(surfaced) ELSE OpFails(surfaced)
        /\ UNCHANGED <<nextId, heard, lastShape>>

(* A response for another id: an earlier operation that timed out.         *)
RecvOther ==
    LET f == Head(inbox)
    IN  /\ f.t = "answer" /\ ~Matches(f)
        /\ NoSend(Tail(inbox))
        /\ KeepWaiting(surfaced)
        /\ UNCHANGED <<nextId, dead, alive, heard, lastShape>>

(* SupervisedServer::recv_line: an oversize line fails the wait and leaves *)
(* the child; the end of stdout shuts it down.                             *)
RecvBroken ==
    LET f == Head(inbox)
    IN  /\ f.t \in {"oversize", "eof"}
        /\ NoSend(Tail(inbox))
        /\ OpFails(surfaced)
        /\ dead' = (f.t = "eof")
        /\ alive' = (alive /\ f.t # "eof")
        /\ UNCHANGED <<nextId, heard, lastShape>>

(* parse_initialize_result, then notifications/initialized.                *)
HandshakeAnswer(f, rest) ==
    /\ pc = "handshake"
    /\ \/ /\ f.k # "init"
          /\ NoSend(rest) /\ Down
          /\ UNCHANGED <<dead, alive, lastShape>>
       \/ /\ f.k = "init"
          /\ lastShape' = f.v
          /\ \E ok \in BOOLEAN :
               /\ Send({}, 0, rest, ok)
               /\ IF ok
                  THEN /\ pc' = "connected" /\ want' = 0 /\ surfaced' = <<>>
                       /\ UNCHANGED <<allowed, raws, used, stale, version, tools,
                                      pinned, settled>>
                  ELSE Down
    /\ UNCHANGED nextId

(* Entries of all pages so far; a name keeps its first entry.              *)
Merged(f) ==
    [n \in DOMAIN raws \cup f.names |-> IF n \in DOMAIN raws THEN raws[n] ELSE f.v]

(* The page loop of list_tools after a page that names a next cursor.      *)
NextPage(f, rest) ==
    LET refused == f.next \in used \/ Cardinality(used) + 1 >= MaxPages
    IN  /\ f.k = "page" /\ f.next # NoCursor
        /\ \/ /\ refused
              /\ NoSend(rest) /\ OpFails(surfaced)
              /\ UNCHANGED <<dead, alive, nextId>>
           \/ /\ ~refused
              /\ nextId' = nextId + 1
              /\ \E ok \in BOOLEAN :
                   /\ Send({Request(nextId, "list")}, nextId, rest, ok)
                   /\ IF ok
                      THEN /\ want' = nextId /\ raws' = Merged(f)
                           /\ used' = used \cup {f.next}
                           /\ UNCHANGED <<pc, allowed, surfaced, stale, version,
                                          tools, pinned, settled>>
                      ELSE OpFails(surfaced)

(* The allowlisted entries, when every one of them was listed.             *)
Fresh(entries) == [n \in allowed |-> entries[n]]

(* Mutant: the signals seen during the refresh are routed before the       *)
(* refresh clears the stale flag.                                          *)
RefreshThenForget(fresh) ==
    /\ tools' = fresh
    /\ Route(<<>>, FALSE, version + 1 + Signals(surfaced))
    /\ Idle
    /\ UNCHANGED <<pinned, settled>>

(* relist's commit: swap, bump, clear, and only then route the signals.    *)
Refresh(fresh) ==
    /\ tools' = fresh
    /\ Route(surfaced, FALSE, version + 1)
    /\ Idle
    /\ UNCHANGED <<pinned, settled>>

(* McpToolAdapter::new or new_with_pin over the import, and the host       *)
(* routing what the import surfaced.                                       *)
NewAdapter(fresh) ==
    /\ tools' = fresh
    /\ pinned' \in {NoPin, lastShape}
    /\ nextId' = 2
    /\ Route(surfaced, FALSE, 0)
    /\ Idle
    /\ UNCHANGED settled

(* list_tools after the last page: a missing or malformed allowlisted tool *)
(* fails the whole import.  A pinned relist goes on to initialize again.   *)
LastPage(f, rest) ==
    LET entries == Merged(f)
        found == allowed \subseteq DOMAIN entries
    IN  /\ f.k = "page" /\ f.next = NoCursor
        /\ \/ /\ NoSend(rest) /\ OpFails(surfaced)
              /\ UNCHANGED <<dead, alive, nextId>>
           \/ /\ found /\ pc = "import"
              /\ NoSend(rest) /\ NewAdapter(Fresh(entries))
              /\ UNCHANGED <<dead, alive>>
           \/ /\ found /\ pc = "list" /\ pinned = NoPin
              /\ NoSend(rest) /\ Refresh(Fresh(entries))
              /\ UNCHANGED <<dead, alive, nextId>>
           \/ /\ found /\ pc = "list" /\ pinned # NoPin
              /\ nextId' = nextId + 1
              /\ \E ok \in BOOLEAN :
                   /\ Send({Request(nextId, "init")}, nextId, rest, ok)
                   /\ IF ok
                      THEN /\ pc' = "pin" /\ want' = nextId
                           /\ raws' = Fresh(entries) /\ used' = {}
                           /\ UNCHANGED <<allowed, surfaced, stale, version,
                                          tools, pinned, settled>>
                      ELSE PinFails(surfaced)

ListAnswer(f, rest) ==
    /\ pc \in {"import", "list"}
    /\ \/ /\ f.k # "page"
          /\ NoSend(rest) /\ OpFails(surfaced)
          /\ UNCHANGED <<dead, alive, nextId>>
       \/ NextPage(f, rest)
       \/ LastPage(f, rest)
    /\ UNCHANGED lastShape

PinMatches(v) == v = pinned

(* verify_pin on the fresh initialize answer, then the commit.             *)
PinAnswer(f, rest) ==
    /\ pc = "pin"
    /\ NoSend(rest)
    /\ \/ /\ f.k # "init"
          /\ PinFails(surfaced)
          /\ UNCHANGED lastShape
       \/ /\ f.k = "init" /\ PinMatches(f.v)
          /\ lastShape' = f.v
          /\ Refresh(raws)
       \/ /\ f.k = "init" /\ ~PinMatches(f.v)
          /\ lastShape' = f.v
          /\ Route(surfaced, TRUE, IF stale THEN version ELSE version + 1)
          /\ Idle
          /\ UNCHANGED <<tools, pinned, settled>>
    /\ UNCHANGED <<dead, alive, nextId>>

(* parse_call_result: what the bus is told.                                *)
Outcome(f) ==
    CASE f.k = "ok" -> "Success"
      [] f.k = "big" -> "ResultTooLarge"
      [] f.k = "rejected" -> "ProtocolRejected"
      [] OTHER -> "Failed"

CallAnswer(f, rest) ==
    /\ pc = "call"
    /\ NoSend(rest)
    /\ Settle(want, Outcome(f))
    /\ Route(surfaced, stale, version)
    /\ Idle
    /\ UNCHANGED <<tools, pinned, dead, alive, nextId, lastShape>>

RecvAnswer ==
    LET f == Head(inbox)
        rest == Tail(inbox)
    IN  /\ Matches(f)
        /\ \/ HandshakeAnswer(f, rest)
           \/ ListAnswer(f, rest)
           \/ PinAnswer(f, rest)
           \/ CallAnswer(f, rest)
        /\ UNCHANGED heard

Recv ==
    /\ pc \in Waiting /\ inbox # <<>>
    /\ \/ RecvNotification
       \/ RecvRequest
       \/ RecvOther
       \/ RecvBroken
       \/ RecvAnswer
    /\ UNCHANGED <<kind, listing, conns>>

(* Mutant: an empty poll of a live server is retried past the deadline.    *)
TimeoutWhenDead ==
    /\ pc \in Waiting /\ inbox = <<>>
    /\ kind = "stdio" /\ ~alive
    /\ OpFails(surfaced)
    /\ dead' = TRUE
    /\ UNCHANGED <<kind, alive, drained, inbox, nextId, server, effects, heard,
                   lastShape, conns>>

(* The deadline passes with nothing to read.  A stdio wait reaps a child   *)
(* that exited without its end of stdout having arrived.                   *)
Timeout ==
    /\ pc \in Waiting /\ inbox = <<>>
    /\ OpFails(surfaced)
    /\ dead' = (kind = "stdio" /\ ~alive)
    /\ UNCHANGED <<kind, alive, drained, inbox, nextId, server, effects, heard,
                   lastShape, conns>>

-----------------------------------------------------------------------------
(* The stdio server and the drain worker.                                  *)

Client == <<kind, adapter, progress, settled, heard, lastShape, conns>>

(* The client reads only while it waits, so what the server writes between *)
(* two operations is what it writes at the start of the next wait: its     *)
(* moves other than exiting are taken there.                               *)
Listening == pc \in Waiting

Writable == Listening /\ kind = "stdio" /\ ~drained /\ Len(inbox) < MaxUnread

Talking == Writable /\ alive

ServerAnswers ==
    /\ Talking
    /\ \E r \in due : \E f \in AnswersTo(r) :
         /\ inbox' = Append(inbox, f)
         /\ due' = due \ {r}
         /\ ran' = ran \cup ShownRun(<<f>>)
    /\ UNCHANGED <<Client, dead, alive, drained, server>>

ServerPushes ==
    /\ Talking /\ pushed < MaxPushed
    /\ \E f \in PushedFrames \cup {Oversize} :
         /\ inbox' = Append(inbox, f)
         /\ signalled' = IF f.t = "changed" THEN listing ELSE signalled
    /\ pushed' = pushed + 1
    /\ UNCHANGED <<Client, dead, alive, drained, listing, effects>>

ServerExits ==
    /\ pc # "down" /\ kind = "stdio" /\ alive
    /\ alive' = FALSE
    /\ UNCHANGED <<Client, dead, drained, inbox, server, effects>>

(* drain_stdout reaches the end of the pipe: the child exited, or closed   *)
(* its stdout and goes on.                                                 *)
DrainEnds ==
    /\ Writable /\ ~dead
    /\ drained' = TRUE
    /\ inbox' = Append(inbox, Eof)
    /\ UNCHANGED <<Client, dead, alive, server, effects>>

(* Either kind of server executes a call it has received.                  *)
ServerRuns ==
    /\ Listening /\ alive
    /\ \E r \in due : r.op = "call" /\ r.id \notin ran /\ ran' = ran \cup {r.id}
    /\ UNCHANGED <<Client, link, server, due>>

ServerChanges ==
    /\ Listening
    /\ listing < MaxListing
    /\ listing' = listing + 1
    /\ UNCHANGED <<Client, link, signalled, pushed, effects>>

Next ==
    \/ Spawn \/ Handshake \/ Import \/ Drop
    \/ Execute \/ Relist \/ MarkStale
    \/ Recv \/ Timeout
    \/ ServerAnswers \/ ServerPushes \/ ServerExits \/ DrainEnds
    \/ ServerRuns \/ ServerChanges

(* The wait loop is the client's own code: it polls until its deadline.    *)
Spec == Init /\ [][Next]_vars /\ WF_vars(Recv \/ Timeout)

-----------------------------------------------------------------------------
(* Properties.                                                             *)

FrameOK(f) ==
    /\ f.t \in {"answer", "changed", "note", "request", "oversize", "eof"}
    /\ f.id \in Nat /\ f.v \in Nat
    /\ f.names \subseteq Tools /\ f.next \in Cursors \cup {NoCursor}

(* Every variable of the connection keeps its type, and the HTTP queue and *)
(* the stash of notifications keep their bounds.                           *)
TypeOK ==
    /\ kind \in Kinds
    /\ dead \in BOOLEAN /\ alive \in BOOLEAN /\ drained \in BOOLEAN
    /\ \A i \in DOMAIN inbox : FrameOK(inbox[i])
    /\ kind = "http" => Len(inbox) <= QueueCap
    /\ nextId \in Nat /\ nextId >= 2
    /\ stale \in BOOLEAN /\ version \in Nat
    /\ DOMAIN tools \subseteq Tools /\ \A n \in DOMAIN tools : tools[n] \in Nat
    /\ pinned \in Shapes \cup {NoPin}
    /\ pc \in Waiting \cup {"down", "spawned", "connected", "idle"}
    /\ want \in Nat
    /\ Len(surfaced) <= SurfacedCap
    /\ used \subseteq Cursors
    /\ listing \in 0..MaxListing /\ lastShape \in Shapes
    /\ signalled \in 0..listing /\ heard \in 0..signalled

(* What the bus records about a call is true of the server: a success or   *)
(* an oversize result belongs to a call that ran, and a call reported as   *)
(* refused before execution did not run, whatever late answers of earlier  *)
(* calls, replies and pushes are on the wire (call_tool, execute_inner).   *)
OutcomeTrue ==
    \A id \in DOMAIN settled :
        /\ settled[id] \in {"Success", "ResultTooLarge"} => id \in ran
        /\ settled[id] \in {"ProtocolRejected", "ArgumentsTooLarge"} => id \notin ran

(* Between operations an adapter that would dispatch holds, for each tool, *)
(* an entry at least as new as the newest list change it was told about:   *)
(* a signal read during a call, a failed relist or the relist itself is    *)
(* never forgotten (observe_notification, relist); and a pinned one has    *)
(* last seen the capability it was pinned to (verify_pin,                  *)
(* revalidate_protocol_pin).                                               *)
FreshUnlessStale ==
    pc = "idle" /\ ~stale => /\ \A n \in DOMAIN tools : tools[n] >= heard
                             /\ pinned # NoPin => lastShape = pinned

(* Every operation of the client returns, whatever the server does         *)
(* (wait_for_response's deadline, MAX_TOOL_PAGES, recv_line).              *)
OpReturns == pc \in Waiting ~> pc \notin Waiting

=============================================================================
