-------------------------- MODULE McpClientProofs --------------------------
(***************************************************************************)
(* One MCP connection (McpClient), for every set of tools, cursors and     *)
(* shapes and every bound: what the bus is told of a call is true of the   *)
(* server, and an adapter that would dispatch holds entries as new as the  *)
(* newest list change it was told about.                                   *)
(***************************************************************************)
EXTENDS McpClient, FiniteSetTheorems, SequenceTheorems, TLAPS

Frames ==
    [t : {"answer", "changed", "note", "request", "oversize", "eof"}, id : Nat,
     k : {"ok", "big", "failed", "rejected", "page", "init", ""}, v : Nat,
     names : SUBSET Tools, next : Cursors \cup {NoCursor}]

Requests == [id : Nat, op : {"init", "list", "call"}]

Connecting == {"spawned", "handshake", "connected", "import"}
Adapted == {"idle", "call", "list", "pin"}

(***************************************************************************)
(* The wire.  An answer not yet read is true of the server and stays true: *)
(* a result's call ran, a rejected call will not run, and a request that   *)
(* was answered by a page is not answered again.                           *)
(***************************************************************************)
Sound(f) ==
    /\ f.k \in {"ok", "big"} => f.id \in ran
    /\ f.k = "rejected" => f.id \notin ran /\ Request(f.id, "call") \notin due
    /\ f.k = "page" => Request(f.id, "list") \notin due
    /\ f.t = "changed" => f.v <= signalled

\* No two unread pages answer one request.
Apart(box) ==
    \A i, j \in DOMAIN box : (box[i].k = "page" /\ box[j].k = "page" /\ box[i].id = box[j].id) => i = j

Wire ==
    /\ inbox \in Seq(Frames) /\ due \subseteq Requests /\ ran \subseteq Nat
    /\ \A i \in DOMAIN inbox : Sound(inbox[i])
    /\ Apart(inbox)

\* The client has heard of nothing the server did not announce.
Announced ==
    /\ listing \in Nat /\ signalled \in Nat /\ heard \in Nat
    /\ heard <= signalled /\ signalled <= listing

(* A step of the wire: what is unread after it was unread in box, or answers *)
(* a request that was due or is sent with the step.                          *)
Answers(f, reqs) ==
    /\ f.k \in {"ok", "big", "rejected"} => Request(f.id, "call") \in due \cup reqs
    /\ f.k = "page" => Request(f.id, "list") \in due \cup reqs /\ f.v = listing

Moved(box, reqs) ==
    /\ due' \subseteq due \cup reqs
    /\ ran \subseteq ran'
    /\ \A i \in ran' : i \in ran \/ Request(i, "call") \in due \cup reqs
    /\ \A i \in DOMAIN inbox' : (\E j \in DOMAIN box : inbox'[i] = box[j]) \/ Answers(inbox'[i], reqs)

\* A frame that arrives with a step.
Arrives(f, reqs) ==
    /\ f.k \in {"ok", "big"} => f.id \in ran' /\ Request(f.id, "call") \in due \cup reqs
    /\ f.k = "rejected" => f.id \notin ran' /\ Request(f.id, "call") \in (due \cup reqs) \ due'
    /\ f.k = "page" => Request(f.id, "list") \in (due \cup reqs) \ due' /\ f.v = listing
    /\ f.t = "changed" => f.v <= signalled'

\* No unread answer is to a request that is only now sent.
Unasked(reqs) ==
    \A i \in DOMAIN inbox :
      /\ inbox[i].k = "rejected" => Request(inbox[i].id, "call") \notin reqs
      /\ inbox[i].k = "page" => Request(inbox[i].id, "list") \notin reqs

Rest(box) == box = inbox \/ (inbox # <<>> /\ box = Tail(inbox))

LEMMA FrameFields ==
    ASSUME NEW f \in Frames
    PROVE  f.id \in Nat /\ f.v \in Nat
  BY DEF Frames

\* What is left of the inbox is unread frames of it, in order.
LEMMA RestOf ==
    ASSUME inbox \in Seq(Frames), NEW box, Rest(box)
    PROVE  /\ box \in Seq(Frames)
           /\ \E d \in {0, 1} : \A i \in DOMAIN box : i + d \in DOMAIN inbox /\ box[i] = inbox[i + d]
           /\ box # inbox => \A i \in DOMAIN box : i + 1 \in DOMAIN inbox /\ box[i] = inbox[i + 1]
  <1>1. CASE box = inbox
    BY <1>1
  <1>2. CASE inbox # <<>> /\ box = Tail(inbox)
    <2>1. /\ box \in Seq(Frames) /\ DOMAIN box = 1 .. (Len(inbox) - 1)
          /\ DOMAIN inbox = 1 .. Len(inbox) /\ Len(inbox) \in Nat
          /\ \A i \in DOMAIN box : box[i] = inbox[i + 1]
      BY <1>2
    <2> QED
      BY <2>1
  <1> QED
    BY <1>1, <1>2 DEF Rest

\* The wire stays sound when the frames that arrive are.
LEMMA Arrival ==
    ASSUME Wire, Announced, NEW box, Rest(box), NEW reqs, reqs \subseteq Requests, Unasked(reqs),
           NEW new \in Seq(Frames), inbox' = box \o new,
           due' \subseteq due \cup reqs, ran \subseteq ran',
           \A i \in ran' : i \in ran \/ Request(i, "call") \in due \cup reqs, ran' \subseteq Nat,
           signalled' \in Nat, signalled <= signalled',
           \A i \in DOMAIN new : Arrives(new[i], reqs),
           \A i, j \in DOMAIN new : (new[i].k = "page" /\ new[j].k = "page") => i = j
    PROVE  Wire' /\ Moved(box, reqs)
  <1>1. inbox \in Seq(Frames) /\ due \subseteq Requests /\ ran \subseteq Nat
    BY DEF Wire
  <1>2. box \in Seq(Frames)
    BY <1>1, RestOf
  <1>3. PICK d \in {0, 1} : \A i \in DOMAIN box : i + d \in DOMAIN inbox /\ box[i] = inbox[i + d]
    BY <1>1, RestOf
  <1>4. /\ inbox' \in Seq(Frames) /\ DOMAIN inbox' = 1 .. (Len(box) + Len(new))
        /\ DOMAIN box = 1 .. Len(box) /\ DOMAIN new = 1 .. Len(new)
        /\ Len(box) \in Nat /\ Len(new) \in Nat
        /\ \A i \in 1 .. Len(box) : inbox'[i] = box[i]
        /\ \A i \in 1 .. (Len(box) + Len(new)) : i \notin 1 .. Len(box) =>
             i - Len(box) \in 1 .. Len(new) /\ inbox'[i] = new[i - Len(box)]
    BY <1>2
  <1>5. \A i \in DOMAIN box : Sound(box[i]) /\ box[i] \in Frames
    BY <1>2, <1>3 DEF Wire
  <1>6. \A i \in DOMAIN box :
          /\ box[i].k = "rejected" => Request(box[i].id, "call") \notin reqs
          /\ box[i].k = "page" => Request(box[i].id, "list") \notin reqs
    BY <1>3 DEF Unasked
  <1>7. \A i \in DOMAIN box : Sound(box[i])'
    <2> SUFFICES ASSUME NEW i \in DOMAIN box PROVE Sound(box[i])'
      OBVIOUS
    <2>1. box[i].v \in Nat /\ signalled \in Nat
      BY <1>5, FrameFields DEF Announced
    <2> DEFINE f == box[i]
    <2>2. f.k \in {"ok", "big"} => f.id \in ran'
      BY <1>5 DEF Sound
    <2>3. f.k = "rejected" => f.id \notin ran' /\ Request(f.id, "call") \notin due'
      BY <1>5, <1>6 DEF Sound
    <2>4. f.k = "page" => Request(f.id, "list") \notin due'
      BY <1>5, <1>6 DEF Sound
    <2>5. f.t = "changed" => f.v <= signalled'
      BY <1>5, <2>1 DEF Sound
    <2> QED
      BY <2>2, <2>3, <2>4, <2>5 DEF Sound
  <1>8. \A i \in DOMAIN new : Sound(new[i])'
    BY DEF Arrives, Sound
  <1>9. \A i \in DOMAIN inbox' : Sound(inbox[i])'
    <2> SUFFICES ASSUME NEW i \in DOMAIN inbox' PROVE Sound(inbox[i])'
      OBVIOUS
    <2>1. CASE i \in DOMAIN box
      BY <1>4, <1>7, <2>1 DEF Sound
    <2>2. CASE i \notin DOMAIN box
      BY <1>4, <1>8, <2>2 DEF Sound
    <2> QED
      BY <2>1, <2>2
  <1>10. Apart(inbox')
    <2> SUFFICES ASSUME NEW i \in DOMAIN inbox', NEW j \in DOMAIN inbox',
                        inbox'[i].k = "page", inbox'[j].k = "page", inbox'[i].id = inbox'[j].id
                 PROVE  i = j
      BY DEF Apart
    <2>1. CASE i \in DOMAIN box /\ j \in DOMAIN box
      <3>1. /\ i + d \in DOMAIN inbox /\ inbox'[i] = inbox[i + d]
            /\ j + d \in DOMAIN inbox /\ inbox'[j] = inbox[j + d]
        BY <1>3, <1>4, <2>1
      <3>2. i + d = j + d
        BY <3>1 DEF Wire, Apart
      <3> QED
        BY <1>4, <2>1, <3>2
    <2>2. CASE i \notin DOMAIN box /\ j \notin DOMAIN box
      BY <1>4, <2>2
    <2>3. ASSUME NEW a \in DOMAIN box, NEW b \in DOMAIN new,
                 box[a].k = "page", new[b].k = "page", box[a].id = new[b].id
          PROVE  FALSE
      BY <1>5, <1>6, <2>3 DEF Sound, Arrives
    <2> QED
      BY <1>4, <2>1, <2>2, <2>3
  <1>11. Wire'
    BY <1>1, <1>4, <1>9, <1>10 DEF Wire
  <1>12. \A i \in DOMAIN inbox' :
           (\E j \in DOMAIN box : inbox'[i] = box[j]) \/ Answers(inbox'[i], reqs)
    <2> SUFFICES ASSUME NEW i \in DOMAIN inbox', i \notin DOMAIN box
                 PROVE  Answers(inbox'[i], reqs)
      BY <1>4
    <2>1. i - Len(box) \in DOMAIN new /\ inbox'[i] = new[i - Len(box)]
      BY <1>4
    <2> QED
      BY <2>1 DEF Arrives, Answers
  <1> QED
    BY <1>11, <1>12 DEF Moved

(***************************************************************************)
(* What the server puts on the wire.                                       *)
(***************************************************************************)
LEMMA AnswerFacts ==
    ASSUME NEW r \in Requests, NEW f \in AnswersTo(r), listing \in Nat
    PROVE  /\ f \in Frames /\ f.t = "answer" /\ f.id = r.id
           /\ f.k \in {"ok", "big", "rejected"} => r = Request(f.id, "call")
           /\ f.k = "rejected" => f.id \notin ran
           /\ f.k = "page" => r = Request(f.id, "list") /\ f.v = listing
  <1> USE DEF Answer, Page, InitAnswer
  <1>1. r.id \in Nat /\ r.op \in {"init", "list", "call"} /\ r = Request(r.id, r.op)
    BY DEF Requests, Request
  <1>2. CASE r.op = "call"
    <2>1. PICK k \in {"ok", "big", "failed", "rejected"} :
            f = Answer(r.id, k) /\ (k = "rejected" => r.id \notin ran)
      BY <1>2 DEF AnswersTo
    <2>2. f = Frame("answer", r.id, k, 0, {}, NoCursor)
      BY <2>1
    <2>3. f \in Frames /\ f.t = "answer" /\ f.id = r.id /\ f.k = k
      BY <1>1, <2>2 DEF Frame, Frames
    <2> QED
      BY <1>1, <1>2, <2>1, <2>3
  <1>3. CASE r.op = "list"
    <2>1. \/ f = Answer(r.id, "failed")
          \/ \E names \in SUBSET Tools, next \in Cursors \cup {NoCursor} :
               f = Page(r.id, listing, names, next)
      BY <1>3 DEF AnswersTo
    <2>2. CASE f = Answer(r.id, "failed")
      <3>1. f \in Frames /\ f.t = "answer" /\ f.id = r.id /\ f.k = "failed"
        BY <1>1, <2>2 DEF Frame, Frames
      <3> QED
        BY <3>1
    <2>3. ASSUME NEW names \in SUBSET Tools, NEW next \in Cursors \cup {NoCursor},
                 f = Page(r.id, listing, names, next)
          PROVE  f \in Frames /\ f.t = "answer" /\ f.id = r.id /\ f.k = "page" /\ f.v = listing
      BY <1>1, <2>3 DEF Frame, Frames
    <2> QED
      BY <1>1, <1>3, <2>1, <2>2, <2>3
  <1>4. CASE r.op = "init"
    <2>1. f = Answer(r.id, "failed") \/ \E s \in Shapes : f = InitAnswer(r.id, s)
      BY <1>4 DEF AnswersTo
    <2>2. \A s \in Shapes : s \in Nat
      BY CapsPositive
    <2>3. CASE f = Answer(r.id, "failed")
      <3>1. f \in Frames /\ f.t = "answer" /\ f.id = r.id /\ f.k = "failed"
        BY <1>1, <2>3 DEF Frame, Frames
      <3> QED
        BY <3>1
    <2>4. ASSUME NEW s \in Shapes, f = InitAnswer(r.id, s)
          PROVE  f \in Frames /\ f.t = "answer" /\ f.id = r.id /\ f.k = "init"
      BY <1>1, <2>2, <2>4 DEF Frame, Frames
    <2> QED
      BY <2>1, <2>3, <2>4
  <1> QED
    BY <1>1, <1>2, <1>3, <1>4

LEMMA PushedFacts ==
    ASSUME NEW f \in PushedFrames \cup {Oversize, Eof}, listing \in Nat, want \in Nat
    PROVE  f \in Frames /\ f.t # "answer" /\ f.k = "" /\ (f.t = "changed" => f.v = listing)
  <1>1. f = Changed \/ f = Note \/ f = ServerRequest(want) \/ f = Oversize \/ f = Eof
    BY DEF PushedFrames
  <1>2. CASE f = Changed
    <2>1. f \in Frames /\ f.t = "changed" /\ f.k = "" /\ f.v = listing
      BY <1>2 DEF Frame, Frames, Changed
    <2> QED
      BY <2>1
  <1>3. CASE f = Note
    <2>1. f \in Frames /\ f.t = "note" /\ f.k = ""
      BY <1>3 DEF Frame, Frames, Note
    <2> QED
      BY <2>1
  <1>5. CASE f = Oversize
    <2>1. f \in Frames /\ f.t = "oversize" /\ f.k = ""
      BY <1>5 DEF Frame, Frames, Oversize
    <2> QED
      BY <2>1
  <1>6. CASE f = Eof
    <2>1. f \in Frames /\ f.t = "eof" /\ f.k = ""
      BY <1>6 DEF Frame, Frames, Eof
    <2> QED
      BY <2>1
  <1>4. CASE f = ServerRequest(want)
    <2>1. f \in Frames /\ f.t = "request" /\ f.k = ""
      BY <1>4 DEF Frame, Frames, ServerRequest
    <2> QED
      BY <2>1
  <1> QED
    BY <1>1, <1>2, <1>3, <1>4, <1>5, <1>6

LEMMA FailedFacts ==
    ASSUME NEW id \in Nat
    PROVE  Answer(id, "failed") \in Frames /\ Answer(id, "failed").k = "failed"
           /\ Answer(id, "failed").t = "answer"
  BY DEF Answer, Frame, Frames

\* A frame the server starts on its own.
OwnFrame(f) == f.t # "answer" /\ f.k = "" /\ (f.t = "changed" => f.v = listing)

\* A response body: at most a frame of the server's own and then an answer.
LEMMA BodyFacts ==
    ASSUME NEW R, R \subseteq Requests, NEW body \in Bodies(R), listing \in Nat, want \in Nat
    PROVE  /\ body \in Seq(Frames) /\ Len(body) \in 0 .. 2
           /\ \A i \in DOMAIN body :
                OwnFrame(body[i]) \/ (i = Len(body) /\ \E r \in R : body[i] \in AnswersTo(r))
  <1> DEFINE answers == UNION {AnswersTo(r) : r \in R}
             own == IF pushed < MaxPushed THEN PushedFrames ELSE {}
  <1>1. \A f \in own : f \in Frames /\ OwnFrame(f)
    BY PushedFacts DEF OwnFrame
  <1>2. \A f \in answers : f \in Frames /\ \E r \in R : f \in AnswersTo(r)
    BY AnswerFacts
  <1>3. \/ body = <<>> \/ (\E f \in answers \cup own : body = <<f>>)
        \/ (\E f \in own, g \in answers : body = <<f, g>>)
    BY DEF Bodies
  <1> HIDE DEF answers, own
  <1>4. CASE body = <<>>
    BY <1>4
  <1>5. CASE \E f \in answers \cup own : body = <<f>>
    <2>1. PICK f \in answers \cup own : body = <<f>>
      BY <1>5
    <2>2. f \in Frames
      BY <1>1, <1>2
    <2>3. body \in Seq(Frames) /\ Len(body) = 1 /\ DOMAIN body = {1} /\ body[1] = f
      BY <2>1, <2>2
    <2> QED
      BY <1>1, <1>2, <2>3
  <1>6. CASE \E f \in own, g \in answers : body = <<f, g>>
    <2>1. PICK f \in own, g \in answers : body = <<f, g>>
      BY <1>6
    <2>2. f \in Frames /\ g \in Frames
      BY <1>1, <1>2
    <2>3. body \in Seq(Frames) /\ Len(body) = 2 /\ DOMAIN body = {1, 2} /\ body[1] = f /\ body[2] = g
      BY <2>1, <2>2
    <2> QED
      BY <1>1, <1>2, <2>3
  <1> QED
    BY <1>3, <1>4, <1>5, <1>6

\* Nothing arrives: a frame is read or dropped, nothing is sent or lost but it.
LEMMA NothingArrives ==
    ASSUME Wire, Announced, NEW box, Rest(box), NEW reqs, reqs \subseteq Requests, Unasked(reqs),
           inbox' = box, due' \subseteq due \cup reqs, ran' = ran,
           signalled' = signalled
    PROVE  Wire' /\ Moved(box, reqs)
  <1> DEFINE new == <<>>
  <1>1. box \in Seq(Frames)
    BY RestOf DEF Wire
  <1>2. new \in Seq(Frames) /\ DOMAIN new = {}
    OBVIOUS
  <1>3. inbox' = box \o new
    BY <1>1
  <1> HIDE DEF new
  <1>4. ran' \subseteq Nat /\ signalled' \in Nat /\ signalled <= signalled'
    BY DEF Wire, Announced
  <1> QED
    BY <1>2, <1>3, <1>4, Arrival

\* One frame arrives.
LEMMA OneArrives ==
    ASSUME Wire, Announced, NEW box, Rest(box), NEW reqs, reqs \subseteq Requests, Unasked(reqs),
           NEW f \in Frames, inbox' = Append(box, f),
           due' \subseteq due \cup reqs, ran \subseteq ran',
           \A i \in ran' : i \in ran \/ Request(i, "call") \in due \cup reqs, ran' \subseteq Nat,
           signalled' \in Nat, signalled <= signalled',
           Arrives(f, reqs)
    PROVE  Wire' /\ Moved(box, reqs)
  <1> DEFINE new == <<f>>
  <1>1. box \in Seq(Frames)
    BY RestOf DEF Wire
  <1>2. new \in Seq(Frames) /\ DOMAIN new = {1} /\ new[1] = f
    OBVIOUS
  <1>3. inbox' = box \o new
    BY <1>1
  <1> HIDE DEF new
  <1> QED
    BY <1>2, <1>3, Arrival

(***************************************************************************)
(* Steps of the wire.                                                      *)
(***************************************************************************)
WireStep(box, reqs) ==
    /\ Wire' /\ Moved(box, reqs)
    /\ signalled' \in Nat /\ signalled <= signalled' /\ signalled' <= listing

LEMMA SendStdioStep ==
    ASSUME Wire, Announced, NEW box, Rest(box), NEW reqs, reqs \subseteq Requests, Unasked(reqs),
           NEW ok, SendStdio(reqs, box, ok)
    PROVE  WireStep(box, reqs)
  <1>1. inbox' = box /\ due' \subseteq due \cup reqs /\ ran' = ran /\ signalled' = signalled
    BY DEF SendStdio
  <1> QED
    BY <1>1, NothingArrives DEF WireStep, Announced

\* The frames kept of a response body, all of them or as many as have room.
LEMMA BodyArrives ==
    ASSUME Wire, Announced, want \in Nat, NEW box, Rest(box), NEW reqs, reqs \subseteq Requests,
           Unasked(reqs), NEW body \in Bodies(due \cup reqs), NEW n \in 0 .. Len(body),
           inbox' = box \o SubSeq(body, 1, n),
           due' = {r \in due \cup reqs : r.id \notin Answered(body)},
           ran' = ran \cup ShownRun(body),
           signalled' = IF \E i \in DOMAIN body : body[i].t = "changed" THEN listing ELSE signalled
    PROVE  WireStep(box, reqs)
  <1> DEFINE new == SubSeq(body, 1, n)
             R == due \cup reqs
  <1>1. R \subseteq Requests /\ ran \subseteq Nat /\ listing \in Nat /\ signalled \in Nat
        /\ signalled <= listing
    BY DEF Wire, Announced
  <1>2. /\ body \in Seq(Frames) /\ Len(body) \in 0 .. 2 /\ DOMAIN body = 1 .. Len(body)
        /\ \A i \in DOMAIN body :
             OwnFrame(body[i]) \/ (i = Len(body) /\ \E r \in R : body[i] \in AnswersTo(r))
    <2> HIDE DEF R
    <2>1. /\ body \in Seq(Frames) /\ Len(body) \in 0 .. 2
          /\ \A i \in DOMAIN body :
               OwnFrame(body[i]) \/ (i = Len(body) /\ \E r \in R : body[i] \in AnswersTo(r))
      BY <1>1, BodyFacts DEF R
    <2> QED
      BY <2>1
  <1>3. new \in Seq(Frames) /\ Len(new) = n /\ DOMAIN new = 1 .. n /\ \A i \in 1 .. n : new[i] = body[i]
    BY <1>2
  <1>4. \A i \in DOMAIN body : body[i].t = "answer" => body[i].id \in Answered(body)
    BY DEF Answered
  <1>5. \A i \in DOMAIN body : body[i].k \in {"ok", "big"} => body[i].id \in ran'
    BY DEF ShownRun
  <1>6. ASSUME NEW i \in DOMAIN body, ~OwnFrame(body[i])
        PROVE  /\ i = Len(body) /\ body[i].t = "answer"
               /\ body[i].k \in {"ok", "big", "rejected"} => Request(body[i].id, "call") \in R
               /\ body[i].k = "rejected" => body[i].id \notin ran
               /\ body[i].k = "page" => Request(body[i].id, "list") \in R /\ body[i].v = listing
    <2>1. PICK r \in R : body[i] \in AnswersTo(r) /\ i = Len(body)
      BY <1>2, <1>6
    <2>2. r \in Requests
      BY <1>1
    <2> QED
      BY <1>1, <2>1, <2>2, AnswerFacts
  <1>7. \A i \in DOMAIN body : body[i].k # "" => ~OwnFrame(body[i])
    BY DEF OwnFrame
  <1>8. ShownRun(body) \subseteq {body[i].id : i \in {j \in DOMAIN body : body[j].k \in {"ok", "big"}}}
    BY DEF ShownRun
  <1>9. \A x \in ran' : x \in ran \/ Request(x, "call") \in R
    BY <1>6, <1>7, <1>8
  <1>10. ran' \subseteq Nat
    <2>1. \A i \in DOMAIN body : body[i].id \in Nat
      BY <1>2, FrameFields
    <2> QED
      BY <1>1, <1>8, <2>1
  <1>11. \A x : Request(x, "call").id = x /\ Request(x, "list").id = x
    BY DEF Request
  <1>12. ASSUME NEW i \in DOMAIN new PROVE Arrives(new[i], reqs)
    <2> DEFINE f == new[i]
    <2>1. i \in DOMAIN body /\ f = body[i]
      BY <1>2, <1>3
    <2> HIDE DEF f
    <2>2. f.k \in {"ok", "big"} => f.id \in ran' /\ Request(f.id, "call") \in due \cup reqs
      BY <1>5, <1>6, <1>7, <2>1
    <2>3. f.k = "rejected" => f.id \notin ran' /\ Request(f.id, "call") \in (due \cup reqs) \ due'
      <3> SUFFICES ASSUME f.k = "rejected"
                   PROVE  f.id \notin ran' /\ Request(f.id, "call") \in (due \cup reqs) \ due'
        OBVIOUS
      <3>1. /\ i = Len(body) /\ f.t = "answer" /\ Request(f.id, "call") \in R /\ f.id \notin ran
        BY <1>6, <1>7, <2>1
      <3>2. \A j \in DOMAIN body : j # i => body[j].k = ""
        BY <1>6, <3>1 DEF OwnFrame
      <3>3. ShownRun(body) = {}
        BY <1>8, <2>1, <3>2
      <3> QED
        BY <1>4, <1>11, <2>1, <3>1, <3>3
    <2>4. f.k = "page" => Request(f.id, "list") \in (due \cup reqs) \ due' /\ f.v = listing
      BY <1>4, <1>6, <1>7, <1>11, <2>1
    <2>5. f.t = "changed" => f.v <= signalled'
      <3> SUFFICES ASSUME f.t = "changed" PROVE f.v <= signalled'
        OBVIOUS
      <3>1. OwnFrame(f)
        BY <1>6, <2>1
      <3>2. signalled' = listing
        BY <2>1
      <3>3. f.v = listing
        BY <3>1 DEF OwnFrame
      <3> QED
        BY <1>1, <3>2, <3>3
    <2> QED
      BY <2>2, <2>3, <2>4, <2>5 DEF Arrives, f
  <1>13. \A i, j \in DOMAIN new : (new[i].k = "page" /\ new[j].k = "page") => i = j
    <2>1. ASSUME NEW i \in DOMAIN new, new[i].k = "page" PROVE i = Len(body)
      <3>1. i \in DOMAIN body /\ new[i] = body[i]
        BY <1>2, <1>3
      <3>2. ~OwnFrame(body[i])
        BY <1>7, <2>1, <3>1
      <3> QED
        BY <1>6, <3>1, <3>2
    <2> QED
      BY <2>1
  <1>14. signalled' \in Nat /\ signalled <= signalled' /\ signalled' <= listing
    BY <1>1
  <1>15. due' \subseteq due \cup reqs /\ ran \subseteq ran' /\ inbox' = box \o new
    OBVIOUS
  <1> HIDE DEF new, R
  <1> QED
    BY <1>3, <1>9, <1>10, <1>12, <1>13, <1>14, <1>15, Arrival DEF WireStep, R

LEMMA SendHttpStep ==
    ASSUME Wire, Announced, want \in Nat, NEW box, Rest(box), NEW reqs, reqs \subseteq Requests,
           Unasked(reqs), NEW id \in Nat, NEW ok \in BOOLEAN, SendHttp(reqs, id, box, ok)
    PROVE  WireStep(box, reqs)
  <1>1. CASE inbox' = box /\ due' \subseteq due \cup reqs /\ UNCHANGED <<ran, pushed, signalled>>
    BY <1>1, NothingArrives DEF WireStep, Announced
  <1>2. CASE inbox' = Append(box, Answer(id, "failed")) /\ due' \subseteq due \cup reqs
             /\ UNCHANGED <<ran, pushed, signalled>>
    <2> DEFINE f == Answer(id, "failed")
    <2>1. f \in Frames /\ f.k = "failed" /\ f.t = "answer"
      BY FailedFacts
    <2> HIDE DEF f
    <2>2. Arrives(f, reqs)
      BY <2>1 DEF Arrives
    <2>3. ran' \subseteq Nat /\ signalled' \in Nat /\ signalled' = signalled /\ ran' = ran
      BY <1>2 DEF Wire, Announced
    <2> QED
      BY <1>2, <2>1, <2>2, <2>3, OneArrives DEF WireStep, Announced, f
  <1>3. CASE \E body \in Bodies(due \cup reqs) :
            /\ ok = (Len(body) <= Room(box))
            /\ inbox' = box \o SubSeq(body, 1, IF ok THEN Len(body) ELSE Room(box))
            /\ due' = {r \in due \cup reqs : r.id \notin Answered(body)}
            /\ ran' = ran \cup ShownRun(body)
            /\ pushed' = pushed + Cardinality(Pushes(body))
            /\ signalled' = IF \E i \in DOMAIN body : body[i].t = "changed"
                            THEN listing ELSE signalled
    <2>1. PICK body \in Bodies(due \cup reqs) :
            /\ ok = (Len(body) <= Room(box))
            /\ inbox' = box \o SubSeq(body, 1, IF ok THEN Len(body) ELSE Room(box))
            /\ due' = {r \in due \cup reqs : r.id \notin Answered(body)}
            /\ ran' = ran \cup ShownRun(body)
            /\ signalled' = IF \E i \in DOMAIN body : body[i].t = "changed"
                            THEN listing ELSE signalled
      BY <1>3
    <2> DEFINE n == IF ok THEN Len(body) ELSE Room(box)
    <2>2. Len(body) \in Nat
      <3>1. due \cup reqs \subseteq Requests /\ listing \in Nat
        BY DEF Wire, Announced
      <3> QED
        BY <3>1, BodyFacts
    <2>3. Room(box) \in Nat
      <3>1. box \in Seq(Frames)
        BY RestOf DEF Wire
      <3> QED
        BY <3>1, CapsPositive DEF Room
    <2>4. n \in 0 .. Len(body)
      <3>1. CASE ok
        BY <2>2, <3>1
      <3>2. CASE ~ok
        <4>1. ~(Len(body) <= Room(box))
          BY <2>1, <3>2, Zenon
        <4> QED
          BY <2>2, <2>3, <3>2, <4>1
      <3> QED
        BY <3>1, <3>2
    <2>5. inbox' = box \o SubSeq(body, 1, n)
      BY <2>1
    <2> HIDE DEF n
    <2> QED
      BY <2>1, <2>4, <2>5, BodyArrives
  <1> QED
    BY <1>1, <1>2, <1>3 DEF SendHttp

LEMMA SendStep ==
    ASSUME Wire, Announced, want \in Nat, NEW box, Rest(box), NEW reqs, reqs \subseteq Requests,
           Unasked(reqs), NEW id \in Nat, NEW ok \in BOOLEAN, Send(reqs, id, box, ok)
    PROVE  WireStep(box, reqs)
  BY SendStdioStep, SendHttpStep DEF Send

LEMMA NoSendStep ==
    ASSUME Wire, Announced, NEW box, Rest(box), NoSend(box)
    PROVE  WireStep(box, {})
  <1>1. inbox' = box /\ due' \subseteq due \cup {} /\ ran' = ran /\ signalled' = signalled
    BY DEF NoSend, effects
  <1>2. Unasked({})
    BY DEF Unasked
  <1> QED
    BY <1>1, <1>2, NothingArrives DEF WireStep, Announced

(***************************************************************************)
(* The client.  Calls: ids are minted once a connection, so a call that    *)
(* was refused is not sent again, and nothing ran before the adapter is    *)
(* there.  Lists: an import waits for one page at a time, and leaves none  *)
(* behind when the adapter starts its ids over.  Freshness: what is read   *)
(* of a list change is in the stash of the operation, or in the stale      *)
(* flag, or older than the entries.                                        *)
(***************************************************************************)
ClientTypes ==
    /\ pc \in Connecting \cup Adapted \cup {"down"} /\ want \in Nat /\ nextId \in Nat
    /\ stale \in BOOLEAN /\ surfaced \in Seq(Frames)
    /\ \A n \in DOMAIN raws : raws[n] \in Nat
    /\ \A n \in DOMAIN tools : tools[n] \in Nat

Justified(id, outcome) ==
    /\ outcome \in {"Success", "ResultTooLarge"} => id \in ran
    /\ outcome \in {"ProtocolRejected", "ArgumentsTooLarge"} =>
         id \notin ran /\ Request(id, "call") \notin due

NoCalls ==
    /\ ran = {} /\ DOMAIN settled = {}
    /\ \A r \in due : r.op # "call"
    /\ \A i \in DOMAIN inbox : inbox[i].k \notin {"ok", "big", "rejected"}

CallsMinted ==
    /\ \A id \in ran : id < nextId
    /\ \A id \in DOMAIN settled : id \in Nat /\ id < nextId
    /\ \A r \in due : r.op = "call" => r.id < nextId
    /\ \A i \in DOMAIN inbox : inbox[i].k = "rejected" => inbox[i].id < nextId
    /\ pc = "call" => want < nextId

CallInv ==
    /\ \A id \in DOMAIN settled : Justified(id, settled[id])
    /\ pc \in Connecting => NoCalls
    /\ pc \in Adapted => CallsMinted

NoLists ==
    /\ \A r \in due : r.op # "list"
    /\ \A i \in DOMAIN inbox : inbox[i].k # "page"

OneList ==
    /\ \A r \in due : r.op = "list" => r.id = want
    /\ \A i \in DOMAIN inbox : inbox[i].k = "page" => inbox[i].id = want
    /\ want < nextId

ListsMinted ==
    /\ \A r \in due : r.op = "list" => r.id < nextId
    /\ \A i \in DOMAIN inbox : inbox[i].k = "page" => inbox[i].id < nextId

ListInv ==
    /\ pc \in {"spawned", "handshake", "connected"} => NoLists
    /\ pc = "import" => OneList
    /\ pc \in Adapted => ListsMinted

Heard(frames) == \E i \in DOMAIN frames : frames[i].t = "changed"

AsNew(entries) == \A n \in DOMAIN entries : entries[n] >= heard

PagesAsNew ==
    \A i \in DOMAIN inbox : (inbox[i].k = "page" /\ inbox[i].id = want) => inbox[i].v >= heard

FreshInv ==
    /\ pc \in {"import", "list"} => Heard(surfaced) \/ (AsNew(raws) /\ PagesAsNew)
    /\ pc = "pin" => Heard(surfaced) \/ AsNew(raws)
    /\ (pc \in Adapted /\ ~stale) => /\ Heard(surfaced) \/ AsNew(tools)
                                     /\ pinned # NoPin => lastShape = pinned
    /\ pc = "idle" => surfaced = <<>>

ConnInv == ClientTypes /\ Announced /\ Wire /\ CallInv /\ ListInv /\ FreshInv

LEMMA SignalsHeard ==
    ASSUME NEW s \in Seq(Frames)
    PROVE  Signals(s) > 0 <=> Heard(s)
  <1> DEFINE S == {i \in DOMAIN s : s[i].t = "changed"}
  <1>1. IsFiniteSet(S)
    <2>1. IsFiniteSet(1 .. Len(s)) /\ S \subseteq 1 .. Len(s)
      BY FS_Interval
    <2> QED
      BY <2>1, FS_Subset
  <1>2. Cardinality(S) \in Nat /\ (Cardinality(S) = 0 <=> S = {})
    BY <1>1, FS_CardinalityType, FS_EmptySet
  <1>3. Signals(s) = Cardinality(S)
    BY DEF Signals
  <1>4. Heard(s) <=> S # {}
    BY DEF Heard
  <1> HIDE DEF S
  <1> QED
    BY <1>2, <1>3, <1>4

\* What is unread after a step was unread before it, or answers a request.
LEMMA Unread ==
    ASSUME Wire, NEW box, Rest(box), NEW reqs, Moved(box, reqs), NEW i \in DOMAIN inbox'
    PROVE  (\E j \in DOMAIN inbox : inbox'[i] = inbox[j]) \/ Answers(inbox'[i], reqs)
  <1>1. PICK d \in {0, 1} : \A j \in DOMAIN box : j + d \in DOMAIN inbox /\ box[j] = inbox[j + d]
    BY RestOf DEF Wire
  <1> QED
    BY <1>1 DEF Moved

LEMMA RequestFields ==
    ASSUME NEW id, NEW op
    PROVE  Request(id, op).id = id /\ Request(id, op).op = op
  BY DEF Request

(* Calls are kept by every step that sends no call, or a call under a new id, *)
(* and reports only what is so.                                              *)
LEMMA CallsKept ==
    ASSUME ClientTypes, Wire, CallInv, NEW box, Rest(box), NEW reqs, reqs \subseteq Requests,
           Moved(box, reqs), nextId' \in Nat,
           \A r \in reqs : r.op = "call" => pc \in Adapted /\ nextId <= r.id /\ r.id < nextId',
           \A id \in DOMAIN settled' :
             \/ id \in DOMAIN settled /\ settled'[id] = settled[id]
             \/ pc \in Adapted /\ id \in Nat /\ id < nextId' /\ Justified(id, settled[id])',
           pc' \in Connecting => pc \in Connecting,
           pc' \in Adapted => \/ pc \in Adapted /\ nextId <= nextId'
                              \/ pc \in Connecting,
           pc' = "call" => want' < nextId'
    PROVE  CallInv'
  <1>1. due \subseteq Requests /\ ran \subseteq Nat /\ nextId \in Nat
    BY DEF Wire, ClientTypes
  <1>2. pc \in Connecting => pc \notin Adapted
    BY DEF Connecting, Adapted
  <1>3. \A r \in Requests : r = Request(r.id, r.op) /\ r.id \in Nat
    BY DEF Requests, Request
  <1>4. ASSUME NEW id \in DOMAIN settled' PROVE Justified(id, settled[id])'
    <2> SUFFICES ASSUME id \in DOMAIN settled, settled'[id] = settled[id]
                 PROVE  Justified(id, settled[id])'
      OBVIOUS
    <2>1. Justified(id, settled[id])
      BY DEF CallInv
    <2>2. Request(id, "call") \in reqs => FALSE
      <3> SUFFICES ASSUME Request(id, "call") \in reqs PROVE FALSE
        OBVIOUS
      <3>1. pc \in Adapted /\ nextId <= id
        BY RequestFields
      <3>2. id < nextId
        BY <3>1 DEF CallInv, CallsMinted
      <3>3. id \in Nat
        BY <1>3, RequestFields
      <3> QED
        BY <1>1, <3>1, <3>2, <3>3
    <2> QED
      BY <2>1, <2>2 DEF Justified, Moved
  <1>5. ASSUME pc' \in Connecting PROVE NoCalls'
    <2>1. NoCalls /\ pc \notin Adapted
      BY <1>2, <1>5 DEF CallInv
    <2>2. \A r \in due \cup reqs : r.op # "call"
      BY <2>1 DEF NoCalls
    <2>3. \A id : Request(id, "call") \notin due \cup reqs
      BY <2>2, RequestFields
    <2>4. ran' = {} /\ \A r \in due' : r.op # "call"
      BY <2>1, <2>2, <2>3 DEF NoCalls, Moved
    <2>5. DOMAIN settled' = {}
      BY <2>1 DEF NoCalls
    <2>6. \A i \in DOMAIN inbox' : inbox'[i].k \notin {"ok", "big", "rejected"}
      BY <2>1, <2>3, Unread DEF NoCalls, Answers
    <2> QED
      BY <2>4, <2>5, <2>6 DEF NoCalls
  <1>6. ASSUME pc' \in Adapted PROVE CallsMinted'
    <2>1. \A r \in due \cup reqs : r.op = "call" => r.id < nextId'
      <3>1. CASE pc \in Connecting
        BY <1>2, <3>1 DEF CallInv, NoCalls
      <3>2. CASE pc \in Adapted /\ nextId <= nextId'
        BY <1>1, <1>3, <3>2 DEF CallInv, CallsMinted
      <3> QED
        BY <1>6, <3>1, <3>2
    <2>2. \A id : Request(id, "call") \in due \cup reqs => id < nextId'
      BY <2>1, RequestFields
    <2>3. \A id \in ran' : id < nextId'
      <3>1. \A id \in ran : id < nextId'
        BY <1>1, <1>6 DEF CallInv, CallsMinted, NoCalls
      <3> QED
        BY <2>2, <3>1 DEF Moved
    <2>4. \A id \in DOMAIN settled' : id \in Nat /\ id < nextId'
      <3> SUFFICES ASSUME NEW id \in DOMAIN settled PROVE id \in Nat /\ id < nextId'
        OBVIOUS
      <3>1. pc \in Adapted /\ nextId <= nextId' /\ id \in Nat /\ id < nextId
        BY <1>6 DEF CallInv, NoCalls, CallsMinted
      <3> QED
        BY <1>1, <3>1
    <2>5. ASSUME NEW i \in DOMAIN inbox', inbox'[i].k = "rejected" PROVE inbox'[i].id < nextId'
      <3>1. CASE Answers(inbox'[i], reqs)
        BY <2>2, <2>5, <3>1 DEF Answers
      <3>2. ASSUME NEW j \in DOMAIN inbox, inbox'[i] = inbox[j] PROVE inbox'[i].id < nextId'
        <4>1. inbox[j].id \in Nat
          BY FrameFields DEF Wire
        <4> QED
          BY <1>1, <1>6, <2>5, <3>2, <4>1 DEF CallInv, CallsMinted, NoCalls
      <3> QED
        BY <3>1, <3>2, Unread
    <2>6. \A r \in due' : r.op = "call" => r.id < nextId'
      BY <2>1 DEF Moved
    <2> QED
      BY <2>3, <2>4, <2>5, <2>6 DEF CallsMinted
  <1> QED
    BY <1>4, <1>5, <1>6 DEF CallInv

LEMMA ListsMintedKept ==
    ASSUME ClientTypes, Wire, ListInv, NEW box, Rest(box), NEW reqs, reqs \subseteq Requests,
           Moved(box, reqs), pc \in Adapted, pc' \in Adapted, nextId' \in Nat, nextId <= nextId',
           \A r \in reqs : r.op = "list" => r.id < nextId'
    PROVE  ListInv'
  <1>1. due \subseteq Requests /\ nextId \in Nat /\ ListsMinted
    BY DEF Wire, ClientTypes, ListInv
  <1>2. \A r \in due \cup reqs : r.op = "list" => r.id < nextId'
    <2>1. \A r \in due : r.id \in Nat
      BY <1>1 DEF Requests
    <2> QED
      BY <1>1, <2>1 DEF ListsMinted
  <1>3. \A id : Request(id, "list") \in due \cup reqs => id < nextId'
    BY <1>2, RequestFields
  <1>4. ASSUME NEW i \in DOMAIN inbox', inbox'[i].k = "page" PROVE inbox'[i].id < nextId'
    <2>1. CASE Answers(inbox'[i], reqs)
      BY <1>3, <1>4, <2>1 DEF Answers
    <2>2. ASSUME NEW j \in DOMAIN inbox, inbox'[i] = inbox[j] PROVE inbox'[i].id < nextId'
      <3>1. inbox[j].id \in Nat
        BY FrameFields DEF Wire
      <3> QED
        BY <1>1, <1>4, <2>2, <3>1 DEF ListsMinted
    <2> QED
      BY <2>1, <2>2, Unread
  <1>5. \A r \in due' : r.op = "list" => r.id < nextId'
    BY <1>2 DEF Moved
  <1>6. ListsMinted'
    BY <1>4, <1>5 DEF ListsMinted
  <1> QED
    BY <1>6 DEF ListInv, Adapted

LEMMA NoListsKept ==
    ASSUME Wire, NoLists, NEW box, Rest(box), NEW reqs, Moved(box, reqs), \A r \in reqs : r.op # "list"
    PROVE  NoLists'
  <1>1. \A r \in due \cup reqs : r.op # "list"
    BY DEF NoLists
  <1>2. \A id : Request(id, "list") \notin due \cup reqs
    BY <1>1, RequestFields
  <1>3. \A i \in DOMAIN inbox' : inbox'[i].k # "page"
    BY <1>2, Unread DEF NoLists, Answers
  <1> QED
    BY <1>1, <1>3 DEF NoLists, Moved

LEMMA OneListKept ==
    ASSUME Wire, OneList, NEW box, Rest(box), Moved(box, {}), want' = want, nextId' = nextId
    PROVE  OneList'
  <1>1. \A id : Request(id, "list") \in due => id = want
    BY RequestFields DEF OneList
  <1>2. \A i \in DOMAIN inbox' : inbox'[i].k = "page" => inbox'[i].id = want
    BY <1>1, Unread DEF OneList, Answers
  <1> QED
    BY <1>2 DEF OneList, Moved

\* What the client learns of list changes is in the frames it stashed.
Learns(frames) ==
    /\ frames \in Seq(Frames) /\ (Heard(surfaced) => Heard(frames))
    /\ heard' \in Nat /\ heard' <= signalled' /\ (heard' = heard \/ Heard(frames))
    /\ listing' = listing

\* The operation ends with its tools as they were and its signals routed.
LEMMA IdleFresh ==
    ASSUME FreshInv, ClientTypes, pc \in Adapted, NEW frames, Learns(frames), NEW flag \in BOOLEAN,
           stale => flag, stale' = (flag \/ Signals(frames) > 0),
           UNCHANGED <<tools, pinned>>, flag \/ lastShape' = lastShape, Idle
    PROVE  FreshInv' /\ stale' \in BOOLEAN
  <1>1. stale' \in BOOLEAN
    OBVIOUS
  <1>2. pc' = "idle" /\ surfaced' = <<>>
    BY DEF Idle
  <1>3. ASSUME ~stale'
        PROVE  AsNew(tools)' /\ (pinned' # NoPin => lastShape' = pinned')
    <2>1. ~flag /\ ~(Signals(frames) > 0)
      BY <1>3
    <2>2. ~stale /\ lastShape' = lastShape
      BY <2>1 DEF ClientTypes
    <2>3. ~Heard(frames) /\ ~Heard(surfaced) /\ heard' = heard
      BY <2>1, SignalsHeard DEF Learns
    <2> QED
      BY <2>2, <2>3 DEF FreshInv, AsNew
  <1> QED
    BY <1>1, <1>2, <1>3 DEF FreshInv

LEMMA IdleTypes ==
    ASSUME ClientTypes, Idle, stale' \in BOOLEAN, nextId' \in Nat,
           \A n \in DOMAIN tools' : tools'[n] \in Nat
    PROVE  ClientTypes'
  <1>1. /\ pc' = "idle" /\ want' = 0 /\ raws' = Empty /\ surfaced' = <<>>
    BY DEF Idle
  <1>2. DOMAIN raws' = {} /\ surfaced' \in Seq(Frames)
    BY <1>1 DEF Empty
  <1> QED
    BY <1>1, <1>2 DEF ClientTypes, Adapted

LEMMA AnnouncedKept ==
    ASSUME Announced, NEW box, NEW reqs, WireStep(box, reqs), heard' \in Nat, heard' <= signalled',
           listing' = listing
    PROVE  Announced'
  BY DEF Announced, WireStep

\* A wait that failed, for whatever reason, ends the operation or the connection.
LEMMA FailsKept ==
    ASSUME ConnInv, NEW box, Rest(box), NEW reqs, reqs \subseteq Requests, WireStep(box, reqs),
           \A r \in reqs : r.op # "call" /\ (r.op = "list" => r.id < nextId'),
           nextId' \in Nat, nextId <= nextId', NEW frames, Learns(frames), OpFails(frames),
           lastShape' = lastShape
    PROVE  ConnInv'
  <1>1. ClientTypes /\ Announced /\ Wire /\ CallInv /\ ListInv /\ FreshInv
    BY DEF ConnInv
  <1>2. Wire' /\ Moved(box, reqs) /\ Announced'
    BY <1>1, AnnouncedKept DEF WireStep, Learns
  <1>3. CASE Down
    <2>1. /\ pc' = "down" /\ want' = 0 /\ raws' = Empty /\ surfaced' = <<>> /\ stale' = FALSE
          /\ tools' = Empty /\ settled' = settled
      BY <1>3 DEF Down
    <2>2. DOMAIN raws' = {} /\ DOMAIN tools' = {} /\ surfaced' \in Seq(Frames)
      BY <2>1 DEF Empty
    <2>3. ClientTypes'
      BY <2>1, <2>2 DEF ClientTypes
    <2>4. CallInv'
      BY <1>1, <1>2, <2>1, CallsKept DEF Connecting, Adapted
    <2>5. ListInv' /\ FreshInv'
      BY <2>1 DEF ListInv, FreshInv, Adapted
    <2> QED
      BY <1>2, <2>3, <2>4, <2>5 DEF ConnInv
  <1>4. CASE pc \in Adapted
    <2> DEFINE flag == IF pc = "pin" THEN (IF stale \/ Signals(frames) > 0 THEN stale ELSE TRUE) ELSE stale
    <2>1. /\ pc \in {"call", "list", "pin"} /\ Idle /\ UNCHANGED <<tools, pinned>>
          /\ stale' = (flag \/ Signals(frames) > 0)
      BY <1>4 DEF OpFails, PinFails, Route, Adapted
    <2>2. stale \in BOOLEAN
      BY <1>1 DEF ClientTypes
    <2>3. flag \in BOOLEAN /\ (stale => flag)
      BY <2>2
    <2> HIDE DEF flag
    <2>4. FreshInv' /\ stale' \in BOOLEAN
      BY <1>1, <1>4, <2>1, <2>3, IdleFresh
    <2>5. ClientTypes'
      BY <1>1, <2>1, <2>4, IdleTypes DEF ClientTypes
    <2>6. pc' = "idle" /\ pc' \in Adapted /\ pc' \notin Connecting
      BY <2>1 DEF Idle, Adapted, Connecting
    <2>7. ListInv'
      BY <1>1, <1>2, <1>4, <2>6, ListsMintedKept
    <2>8. \A id \in DOMAIN settled' :
            \/ id \in DOMAIN settled /\ settled'[id] = settled[id]
            \/ pc \in Adapted /\ id \in Nat /\ id < nextId' /\ Justified(id, settled[id])'
      <3>1. CASE settled' = settled
        BY <3>1
      <3>2. CASE pc = "call" /\ Settle(want, "Unknown")
        <4>1. want \in Nat /\ want < nextId'
          BY <1>1, <1>4, <3>2 DEF ClientTypes, CallInv, CallsMinted
        <4>2. /\ DOMAIN settled' = DOMAIN settled \cup {want}
              /\ \A id \in DOMAIN settled' : settled'[id] = IF id = want THEN "Unknown" ELSE settled[id]
          BY <3>2 DEF Settle
        <4>3. ASSUME NEW id, id = want PROVE Justified(id, settled[id])'
          BY <4>2, <4>3 DEF Justified
        <4> QED
          BY <1>4, <4>1, <4>2, <4>3
      <3> QED
        BY <1>4, <3>1, <3>2 DEF OpFails, PinFails, Adapted
    <2>9. CallInv'
      BY <1>1, <1>2, <1>4, <2>6, <2>8, CallsKept
    <2> QED
      BY <1>2, <2>4, <2>5, <2>7, <2>9 DEF ConnInv
  <1> QED
    BY <1>3, <1>4 DEF OpFails, Adapted

\* A frame was read and the wait goes on.
LEMMA WaitKept ==
    ASSUME ConnInv, NEW box, Rest(box), WireStep(box, {}), NEW frames, Learns(frames), surfaced' = frames,
           pc \in Waiting,
           UNCHANGED <<pc, want, allowed, raws, used, stale, version, tools, pinned, settled, nextId, lastShape>>
    PROVE  ConnInv'
  <1>1. ClientTypes /\ Announced /\ Wire /\ CallInv /\ ListInv /\ FreshInv
    BY DEF ConnInv
  <1>2. Wire' /\ Moved(box, {}) /\ Announced'
    BY <1>1, AnnouncedKept DEF WireStep, Learns
  <1>3. ClientTypes'
    BY <1>1 DEF ClientTypes, Learns
  <1>4. CallInv'
    <2>1. pc' \in Adapted => pc \in Adapted /\ nextId <= nextId'
      BY <1>1 DEF ClientTypes
    <2>2. pc' = "call" => want' < nextId'
      BY <1>1 DEF CallInv, CallsMinted, Adapted
    <2> QED
      BY <1>1, <1>2, <1>3, <2>1, <2>2, CallsKept DEF ClientTypes
  <1>5. ListInv'
    <2>1. CASE pc \in Adapted
      BY <1>1, <1>2, <1>3, <2>1, ListsMintedKept DEF ClientTypes
    <2>2. CASE pc = "import"
      BY <1>1, <1>2, <2>2, OneListKept DEF ListInv, Adapted
    <2>3. CASE pc = "handshake"
      BY <1>1, <1>2, <2>3, NoListsKept DEF ListInv, Adapted
    <2> QED
      BY <2>1, <2>2, <2>3 DEF Waiting, Adapted
  <1>6. FreshInv'
    <2>1. CASE Heard(frames)
      BY <2>1, <1>1 DEF FreshInv, Waiting
    <2>2. CASE ~Heard(frames)
      <3>1. ~Heard(surfaced) /\ heard' = heard /\ heard \in Nat /\ heard <= listing
        BY <1>1, <2>2 DEF Learns, Announced
      <3>2. AsNew(raws)' = AsNew(raws) /\ AsNew(tools)' = AsNew(tools)
        BY <3>1 DEF AsNew
      <3>3. PagesAsNew => PagesAsNew'
        <4> SUFFICES ASSUME PagesAsNew, NEW i \in DOMAIN inbox', inbox'[i].k = "page", inbox'[i].id = want
                     PROVE  inbox'[i].v >= heard
          BY <3>1 DEF PagesAsNew
        <4>1. ASSUME Answers(inbox'[i], {}) PROVE inbox'[i].v >= heard
          <5>1. inbox'[i].v = listing /\ listing \in Nat
            BY <1>1, <4>1 DEF Answers, Announced
          <5> QED
            BY <3>1, <5>1
        <4>2. ASSUME NEW j \in DOMAIN inbox, inbox'[i] = inbox[j] PROVE inbox'[i].v >= heard
          <5>1. inbox[j].k = "page" /\ inbox[j].id = want
            BY <4>2
          <5>2. inbox[j].v >= heard
            BY <5>1 DEF PagesAsNew
          <5> QED
            BY <4>2, <5>2
        <4> QED
          BY <1>1, <1>2, <4>1, <4>2, Unread
      <3> QED
        BY <1>1, <3>1, <3>2, <3>3 DEF FreshInv, Waiting
    <2> QED
      BY <2>1, <2>2
  <1> QED
    BY <1>2, <1>3, <1>4, <1>5, <1>6 DEF ConnInv

LEMMA KeepWaitingKept ==
    ASSUME ConnInv, pc \in Waiting, NEW box, Rest(box), WireStep(box, {}), NEW frames, Learns(frames),
           KeepWaiting(frames), UNCHANGED <<nextId, lastShape>>
    PROVE  ConnInv'
  <1>1. CASE OpFails(frames)
    <2>1. nextId' \in Nat /\ nextId <= nextId' /\ {} \subseteq Requests
      BY DEF ConnInv, ClientTypes
    <2> QED
      BY <1>1, <2>1, FailsKept
  <1>2. CASE surfaced' = frames
             /\ UNCHANGED <<pc, want, allowed, raws, used, stale, version, tools, pinned, settled>>
    BY <1>2, WaitKept
  <1> QED
    BY <1>1, <1>2 DEF KeepWaiting

\* A wait that failed without minting an id.
LEMMA GivesUp ==
    ASSUME ConnInv, NEW box, Rest(box), WireStep(box, {}), Learns(surfaced), OpFails(surfaced),
           UNCHANGED <<nextId, lastShape>>
    PROVE  ConnInv'
  <1>1. nextId' \in Nat /\ nextId <= nextId' /\ {} \subseteq Requests
    BY DEF ConnInv, ClientTypes
  <1> QED
    BY <1>1, FailsKept

LEMMA HeadFacts ==
    ASSUME Wire, inbox # <<>>
    PROVE  /\ Head(inbox) \in Frames /\ 1 \in DOMAIN inbox /\ Head(inbox) = inbox[1]
           /\ Sound(Head(inbox)) /\ Rest(Tail(inbox))
  <1>1. Head(inbox) \in Frames /\ 1 \in DOMAIN inbox /\ Head(inbox) = inbox[1]
    BY DEF Wire
  <1> QED
    BY <1>1 DEF Wire, Rest

LEMMA Learned ==
    ASSUME ConnInv, NEW box, NEW reqs, WireStep(box, reqs), UNCHANGED <<heard, listing>>
    PROVE  Learns(surfaced)
  BY DEF ConnInv, ClientTypes, Announced, WireStep, Learns

(***************************************************************************)
(* Reading a frame that is not the answer.                                 *)
(***************************************************************************)
LEMMA RecvNotificationKept ==
    ASSUME ConnInv, pc \in Waiting, inbox # <<>>, RecvNotification, listing' = listing
    PROVE  ConnInv'
  <1> DEFINE f == Head(inbox)
             frames == IF HasRoom THEN Append(surfaced, f) ELSE surfaced
  <1>1. Wire /\ Announced /\ ClientTypes
    BY DEF ConnInv
  <1>2. f \in Frames /\ Sound(f) /\ Rest(Tail(inbox))
    BY <1>1, HeadFacts
  <1>3. WireStep(Tail(inbox), {})
    BY <1>1, <1>2, NoSendStep DEF RecvNotification
  <1>4. /\ f.t \in {"changed", "note"} /\ KeepWaiting(frames) /\ UNCHANGED <<nextId, lastShape>>
        /\ heard' = IF HasRoom /\ f.t = "changed" /\ f.v > heard THEN f.v ELSE heard
    BY DEF RecvNotification
  <1> HIDE DEF f
  <1>5. frames \in Seq(Frames) /\ (Heard(surfaced) => Heard(frames))
        /\ (HasRoom /\ f.t = "changed" => Heard(frames))
    <2>1. surfaced \in Seq(Frames)
      BY <1>1 DEF ClientTypes
    <2>2. CASE ~HasRoom
      BY <2>1, <2>2
    <2>3. CASE HasRoom
      <3>1. /\ frames = Append(surfaced, f) /\ frames \in Seq(Frames)
            /\ DOMAIN frames = 1 .. (Len(surfaced) + 1) /\ DOMAIN surfaced = 1 .. Len(surfaced)
            /\ Len(surfaced) \in Nat
            /\ \A i \in DOMAIN surfaced : frames[i] = surfaced[i]
            /\ frames[Len(surfaced) + 1] = f
        BY <1>2, <2>1, <2>3
      <3> HIDE DEF frames
      <3>2. Heard(surfaced) => Heard(frames)
        BY <3>1 DEF Heard
      <3>3. f.t = "changed" => Heard(frames)
        BY <3>1 DEF Heard
      <3> QED
        BY <3>1, <3>2, <3>3
    <2> QED
      BY <2>2, <2>3
  <1> HIDE DEF frames
  <1>6. /\ signalled \in Nat /\ signalled' \in Nat /\ signalled <= signalled'
        /\ heard \in Nat /\ heard <= signalled /\ f.v \in Nat
    BY <1>1, <1>2, <1>3, FrameFields DEF Announced, WireStep
  <1>7. heard' \in Nat /\ heard' <= signalled' /\ (heard' = heard \/ Heard(frames))
    BY <1>2, <1>4, <1>5, <1>6 DEF Sound
  <1>8. Learns(frames)
    BY <1>5, <1>7 DEF Learns
  <1> QED
    BY <1>2, <1>3, <1>4, <1>8, KeepWaitingKept

LEMMA RecvRequestKept ==
    ASSUME ConnInv, pc \in Waiting, inbox # <<>>, RecvRequest, listing' = listing
    PROVE  ConnInv'
  <1> DEFINE f == Head(inbox)
  <1>1. Wire /\ Announced /\ ClientTypes
    BY DEF ConnInv
  <1>2. f \in Frames /\ f.id \in Nat /\ Rest(Tail(inbox))
    BY <1>1, HeadFacts, FrameFields
  <1>3. PICK ok \in BOOLEAN : /\ Send({}, f.id, Tail(inbox), ok)
                              /\ IF ok THEN KeepWaiting(surfaced) ELSE OpFails(surfaced)
    BY DEF RecvRequest
  <1>4. UNCHANGED <<nextId, heard, lastShape>>
    BY DEF RecvRequest
  <1> HIDE DEF f
  <1>5. WireStep(Tail(inbox), {})
    <2>1. {} \subseteq Requests /\ Unasked({}) /\ want \in Nat
      BY <1>1 DEF Unasked, ClientTypes
    <2> QED
      BY <1>1, <1>2, <1>3, <2>1, SendStep
  <1>6. Learns(surfaced)
    BY <1>4, <1>5, Learned
  <1> QED
    BY <1>2, <1>3, <1>4, <1>5, <1>6, KeepWaitingKept, GivesUp

LEMMA RecvOtherKept ==
    ASSUME ConnInv, pc \in Waiting, inbox # <<>>, RecvOther, listing' = listing
    PROVE  ConnInv'
  <1>1. Wire /\ Announced /\ Rest(Tail(inbox))
    BY HeadFacts DEF ConnInv
  <1>2. WireStep(Tail(inbox), {})
    BY <1>1, NoSendStep DEF RecvOther
  <1>3. Learns(surfaced)
    BY <1>2, Learned DEF RecvOther
  <1> QED
    BY <1>1, <1>2, <1>3, KeepWaitingKept DEF RecvOther

LEMMA RecvBrokenKept ==
    ASSUME ConnInv, pc \in Waiting, inbox # <<>>, RecvBroken, listing' = listing
    PROVE  ConnInv'
  <1>1. Wire /\ Announced /\ Rest(Tail(inbox))
    BY HeadFacts DEF ConnInv
  <1>2. WireStep(Tail(inbox), {})
    BY <1>1, NoSendStep DEF RecvBroken
  <1>3. Learns(surfaced)
    BY <1>2, Learned DEF RecvBroken
  <1> QED
    BY <1>1, <1>2, <1>3, GivesUp DEF RecvBroken

LEMMA TimeoutKept ==
    ASSUME ConnInv, Timeout
    PROVE  ConnInv'
  <1>1. Wire /\ Announced /\ Rest(inbox)
    BY DEF ConnInv, Rest
  <1>2. inbox' = inbox /\ UNCHANGED <<due, ran, signalled, listing, heard, nextId, lastShape>>
    BY DEF Timeout, server, effects
  <1>3. WireStep(inbox, {})
    <2>1. Unasked({}) /\ {} \subseteq Requests
      BY DEF Unasked
    <2> QED
      BY <1>1, <1>2, <2>1, NothingArrives DEF WireStep, Announced
  <1>4. Learns(surfaced)
    BY <1>2, <1>3, Learned
  <1> QED
    BY <1>1, <1>2, <1>3, <1>4, GivesUp DEF Timeout

(***************************************************************************)
(* Connecting.                                                             *)
(***************************************************************************)
LEMMA DownKept ==
    ASSUME ConnInv, NEW box, Rest(box), NEW reqs, reqs \subseteq Requests, \A r \in reqs : r.op # "call",
           WireStep(box, reqs), UNCHANGED <<heard, listing>>, nextId' \in Nat, Down
    PROVE  ConnInv'
  <1>1. ClientTypes /\ Announced /\ Wire /\ CallInv
    BY DEF ConnInv
  <1>2. Wire' /\ Moved(box, reqs) /\ Announced'
    BY <1>1 DEF WireStep, Announced
  <1>3. /\ pc' = "down" /\ want' = 0 /\ raws' = Empty /\ surfaced' = <<>> /\ stale' = FALSE
        /\ tools' = Empty /\ settled' = settled
    BY DEF Down
  <1>4. DOMAIN raws' = {} /\ DOMAIN tools' = {} /\ surfaced' \in Seq(Frames)
    BY <1>3 DEF Empty
  <1>5. ClientTypes'
    BY <1>3, <1>4 DEF ClientTypes
  <1>6. CallInv'
    BY <1>1, <1>2, <1>3, CallsKept DEF Connecting, Adapted
  <1>7. ListInv' /\ FreshInv'
    BY <1>3 DEF ListInv, FreshInv, Adapted
  <1> QED
    BY <1>2, <1>5, <1>6, <1>7 DEF ConnInv

\* The handshake goes on, or the connection is dropped.
LEMMA ConnectKept ==
    ASSUME ConnInv, pc \in {"spawned", "handshake"}, NEW box, Rest(box), NEW reqs, reqs \subseteq Requests,
           \A r \in reqs : r.op = "init", WireStep(box, reqs), UNCHANGED <<heard, listing, nextId>>,
           \/ Down
           \/ /\ pc' \in {"handshake", "connected"} /\ want' \in Nat
              /\ surfaced' = surfaced \/ surfaced' = <<>>
              /\ UNCHANGED <<raws, stale, tools, settled>>
    PROVE  ConnInv'
  <1>1. ClientTypes /\ Announced /\ Wire /\ CallInv /\ ListInv
    BY DEF ConnInv
  <1>2. nextId' \in Nat /\ \A r \in reqs : r.op # "call" /\ r.op # "list"
    BY <1>1 DEF ClientTypes
  <1>3. CASE Down
    BY <1>2, <1>3, DownKept
  <1>4. CASE /\ pc' \in {"handshake", "connected"} /\ want' \in Nat
             /\ surfaced' = surfaced \/ surfaced' = <<>>
             /\ UNCHANGED <<raws, stale, tools, settled>>
    <2>1. Wire' /\ Moved(box, reqs) /\ Announced'
      BY <1>1 DEF WireStep, Announced
    <2>2. ClientTypes'
      <3>1. surfaced' \in Seq(Frames)
        <4>1. CASE surfaced' = <<>>
          BY <4>1
        <4>2. CASE surfaced' = surfaced
          BY <1>1, <4>2 DEF ClientTypes
        <4> QED
          BY <1>4, <4>1, <4>2
      <3>2. pc' \in Connecting
        BY <1>4 DEF Connecting
      <3> QED
        BY <1>1, <1>2, <1>4, <3>1, <3>2 DEF ClientTypes
    <2>3. CallInv'
      BY <1>1, <1>2, <1>4, <2>1, CallsKept DEF Connecting, Adapted
    <2>4. NoLists'
      BY <1>1, <1>2, <2>1, NoListsKept DEF ListInv
    <2>5. ListInv' /\ FreshInv'
      BY <1>4, <2>4 DEF ListInv, FreshInv, Adapted
    <2> QED
      BY <2>1, <2>2, <2>3, <2>5 DEF ConnInv
  <1> QED
    BY <1>3, <1>4

LEMMA HandshakeKept ==
    ASSUME ConnInv, Handshake
    PROVE  ConnInv'
  <1> DEFINE reqs == {Request(1, "init")}
  <1>1. Wire /\ Announced /\ want \in Nat /\ Rest(inbox)
    BY DEF ConnInv, ClientTypes, Rest
  <1>2. reqs \subseteq Requests /\ (\A r \in reqs : r.op = "init") /\ Unasked(reqs)
    BY DEF Requests, Request, Unasked
  <1>3. PICK ok \in BOOLEAN :
          /\ Send(reqs, 1, inbox, ok)
          /\ \/ Down
             \/ pc' = "handshake" /\ want' = 1 /\ UNCHANGED <<surfaced, raws, stale, tools, settled>>
    BY DEF Handshake
  <1> HIDE DEF reqs
  <1>4. WireStep(inbox, reqs)
    BY <1>1, <1>2, <1>3, SendStep
  <1>5. pc = "spawned" /\ UNCHANGED <<heard, listing, nextId>>
    BY DEF Handshake
  <1> QED
    BY <1>1, <1>2, <1>3, <1>4, <1>5, ConnectKept

LEMMA HandshakeAnswerKept ==
    ASSUME ConnInv, inbox # <<>>, NEW f, HandshakeAnswer(f, Tail(inbox)), UNCHANGED <<heard, listing>>
    PROVE  ConnInv'
  <1>1. Wire /\ Announced /\ want \in Nat /\ Rest(Tail(inbox)) /\ {} \subseteq Requests /\ Unasked({})
    BY HeadFacts DEF ConnInv, ClientTypes, Unasked
  <1>2. pc = "handshake" /\ nextId' = nextId
    BY DEF HandshakeAnswer
  <1>3. CASE NoSend(Tail(inbox)) /\ Down
    BY <1>1, <1>2, <1>3, NoSendStep, ConnectKept
  <1>4. ASSUME NEW ok \in BOOLEAN, Send({}, 0, Tail(inbox), ok),
               \/ Down
               \/ pc' = "connected" /\ want' = 0 /\ surfaced' = <<>> /\ UNCHANGED <<raws, stale, tools, settled>>
        PROVE  ConnInv'
    <2>1. WireStep(Tail(inbox), {})
      BY <1>1, <1>4, SendStep
    <2> QED
      BY <1>1, <1>2, <1>4, <2>1, ConnectKept
  <1> QED
    BY <1>3, <1>4 DEF HandshakeAnswer

\* Pages under a new id are no older than what the client has heard of.
LEMMA NewPages ==
    ASSUME Wire, Announced, NEW box, Rest(box), NEW reqs, Moved(box, reqs), heard' = heard,
           \A i \in DOMAIN inbox : inbox[i].k = "page" => inbox[i].id # want'
    PROVE  PagesAsNew'
  <1> SUFFICES ASSUME NEW i \in DOMAIN inbox', inbox'[i].k = "page", inbox'[i].id = want'
               PROVE  inbox'[i].v >= heard
    BY DEF PagesAsNew
  <1>1. Answers(inbox'[i], reqs)
    BY Unread
  <1>2. inbox'[i].v = listing /\ listing \in Nat /\ heard \in Nat /\ heard <= listing
    BY <1>1 DEF Answers, Announced
  <1> QED
    BY <1>2

LEMMA ImportKept ==
    ASSUME ConnInv, Import
    PROVE  ConnInv'
  <1> DEFINE reqs == {Request(2, "list")}
  <1>1. ClientTypes /\ Announced /\ Wire /\ CallInv /\ ListInv /\ Rest(inbox)
    BY DEF ConnInv, Rest
  <1>2. pc = "connected" /\ NoLists /\ nextId' = 3 /\ UNCHANGED <<heard, listing, lastShape>>
    BY <1>1 DEF Import, ListInv
  <1>3. /\ reqs \subseteq Requests /\ (\A r \in reqs : r.op # "call" /\ r.id = 2)
        /\ \A id : Request(id, "list") \in reqs => id = 2
    BY DEF Requests, Request
  <1>4. Unasked(reqs)
    BY <1>2 DEF Unasked, NoLists, Request
  <1>5. PICK ok \in BOOLEAN :
          /\ Send(reqs, 2, inbox, ok)
          /\ \/ Down
             \/ /\ pc' = "import" /\ want' = 2 /\ raws' = Empty /\ surfaced' = <<>>
                /\ UNCHANGED <<stale, tools, settled>>
    BY DEF Import
  <1> HIDE DEF reqs
  <1>6. WireStep(inbox, reqs)
    BY <1>1, <1>3, <1>4, <1>5, SendStep DEF ClientTypes
  <1>7. CASE Down
    BY <1>1, <1>2, <1>3, <1>6, <1>7, DownKept
  <1>8. CASE /\ pc' = "import" /\ want' = 2 /\ raws' = Empty /\ surfaced' = <<>>
             /\ UNCHANGED <<stale, tools, settled>>
    <2>1. Wire' /\ Moved(inbox, reqs) /\ Announced'
      BY <1>1, <1>2, <1>6 DEF WireStep, Announced
    <2>2. DOMAIN raws' = {} /\ surfaced' \in Seq(Frames)
      BY <1>8 DEF Empty
    <2>3. ClientTypes'
      BY <1>1, <1>2, <1>8, <2>2 DEF ClientTypes, Connecting
    <2>4. CallInv'
      BY <1>1, <1>2, <1>3, <1>8, <2>1, CallsKept DEF Connecting, Adapted
    <2>5. OneList'
      <3>1. \A r \in due' : r.op = "list" => r.id = 2
        BY <1>2, <1>3, <2>1 DEF NoLists, Moved
      <3>2. \A id : Request(id, "list") \in due \cup reqs => id = 2
        BY <1>2, <1>3, RequestFields DEF NoLists
      <3>3. \A i \in DOMAIN inbox' : inbox'[i].k = "page" => inbox'[i].id = 2
        BY <1>1, <1>2, <2>1, <3>2, Unread DEF NoLists, Answers
      <3> QED
        BY <1>2, <1>8, <3>1, <3>3 DEF OneList
    <2>6. PagesAsNew'
      BY <1>1, <1>2, <2>1, NewPages DEF NoLists
    <2>7. AsNew(raws)'
      BY <2>2 DEF AsNew
    <2>8. ListInv' /\ FreshInv'
      BY <1>8, <2>5, <2>6, <2>7 DEF ListInv, FreshInv, Adapted
    <2> QED
      BY <2>1, <2>3, <2>4, <2>8 DEF ConnInv
  <1> QED
    BY <1>5, <1>7, <1>8

LEMMA StutterKept ==
    ASSUME ConnInv, UNCHANGED <<inbox, due, ran, nextId, stale, tools, pinned, pc, want, raws, surfaced,
                                settled, listing, signalled, heard, lastShape>>
    PROVE  ConnInv'
  <1> USE DEF ConnInv
  <1>1. ClientTypes' /\ Announced'
    BY DEF ClientTypes, Announced
  <1>2. Wire'
    BY DEF Wire, Sound, Apart
  <1>3. CallInv' /\ ListInv'
    BY DEF CallInv, Justified, NoCalls, CallsMinted, ListInv, NoLists, OneList, ListsMinted
  <1>4. FreshInv'
    BY DEF FreshInv, Heard, AsNew, PagesAsNew
  <1> QED
    BY <1>1, <1>2, <1>3, <1>4

LEMMA SpawnKept ==
    ASSUME ConnInv, Spawn
    PROVE  ConnInv'
  <1>1. UNCHANGED <<nextId, stale, tools, pinned, want, raws, surfaced, listing, signalled, heard, lastShape>>
    BY DEF Spawn, adapter, server
  <1>2. CASE UNCHANGED <<link, pc, effects, settled>>
    BY <1>1, <1>2, StutterKept DEF link, effects
  <1>3. CASE inbox' = <<>> /\ pc' = "spawned" /\ due' = {} /\ ran' = {} /\ settled' = Empty
    <2>1. ClientTypes' /\ Announced'
      BY <1>1, <1>3 DEF ConnInv, ClientTypes, Announced, Connecting
    <2>2. inbox' \in Seq(Frames) /\ DOMAIN inbox' = {} /\ DOMAIN settled' = {}
      BY <1>3 DEF Empty
    <2>3. Wire'
      BY <1>3, <2>2 DEF Wire, Apart
    <2>4. CallInv' /\ ListInv'
      BY <1>3, <2>2 DEF CallInv, ListInv, NoCalls, NoLists, Adapted
    <2>5. FreshInv'
      BY <1>3 DEF FreshInv, Adapted
    <2> QED
      BY <2>1, <2>3, <2>4, <2>5 DEF ConnInv
  <1> QED
    BY <1>2, <1>3 DEF Spawn

LEMMA DropKept ==
    ASSUME ConnInv, Drop
    PROVE  ConnInv'
  <1>1. Wire /\ Announced /\ ClientTypes /\ Rest(inbox) /\ {} \subseteq Requests /\ Unasked({})
    BY DEF ConnInv, Rest, Unasked
  <1>2. UNCHANGED <<inbox, due, ran, signalled, listing, heard, nextId>> /\ Down
    BY DEF Drop, server, effects
  <1>3. WireStep(inbox, {})
    BY <1>1, <1>2, NothingArrives DEF WireStep, Announced
  <1> QED
    BY <1>1, <1>2, <1>3, DownKept DEF ClientTypes

(***************************************************************************)
(* The server and the host.                                                *)
(***************************************************************************)
\* A step of the server: the client's own state is as it was.
LEMMA ServerKept ==
    ASSUME ConnInv, pc \in Waiting, WireStep(inbox, {}), UNCHANGED Client, listing' = listing
    PROVE  ConnInv'
  <1>1. UNCHANGED <<pc, want, allowed, raws, used, surfaced, stale, version, tools, pinned, settled,
                    nextId, lastShape, heard>>
    BY DEF Client, adapter, progress
  <1>2. Learns(surfaced) /\ Rest(inbox)
    BY <1>1, Learned DEF Rest
  <1> QED
    BY <1>1, <1>2, WaitKept

LEMMA ServerAnswersKept ==
    ASSUME ConnInv, ServerAnswers
    PROVE  ConnInv'
  <1>1. Wire /\ Announced /\ Rest(inbox) /\ {} \subseteq Requests /\ Unasked({})
    BY DEF ConnInv, Rest, Unasked
  <1>2. PICK r \in due : \E f \in AnswersTo(r) : inbox' = Append(inbox, f) /\ due' = due \ {r}
                                                 /\ ran' = ran \cup ShownRun(<<f>>)
    BY DEF ServerAnswers
  <1>3. PICK f \in AnswersTo(r) : inbox' = Append(inbox, f) /\ due' = due \ {r}
                                  /\ ran' = ran \cup ShownRun(<<f>>)
    BY <1>2
  <1>4. r \in Requests /\ listing \in Nat /\ ran \subseteq Nat
    BY <1>1 DEF Wire, Announced
  <1>5. /\ f \in Frames /\ f.t = "answer" /\ f.id = r.id
        /\ f.k \in {"ok", "big", "rejected"} => r = Request(f.id, "call")
        /\ f.k = "rejected" => f.id \notin ran
        /\ f.k = "page" => r = Request(f.id, "list") /\ f.v = listing
    BY <1>4, AnswerFacts
  <1>6. ShownRun(<<f>>) = IF f.k \in {"ok", "big"} THEN {f.id} ELSE {}
    BY DEF ShownRun
  <1>7. f.id \in Nat
    BY <1>5, FrameFields
  <1>8. UNCHANGED <<Client, signalled, listing>> /\ pc \in Waiting
    BY DEF ServerAnswers, server, Talking, Writable, Listening
  <1>9. Arrives(f, {})
    BY <1>2, <1>3, <1>5, <1>6 DEF Arrives
  <1>10. /\ due' \subseteq due \cup {} /\ ran \subseteq ran' /\ ran' \subseteq Nat
         /\ \A i \in ran' : i \in ran \/ Request(i, "call") \in due \cup {}
    BY <1>3, <1>4, <1>5, <1>6, <1>7
  <1>11. signalled' \in Nat /\ signalled <= signalled' /\ signalled' <= listing
    BY <1>1, <1>8 DEF Announced
  <1>12. WireStep(inbox, {})
    BY <1>1, <1>3, <1>5, <1>9, <1>10, <1>11, OneArrives DEF WireStep
  <1> QED
    BY <1>8, <1>12, ServerKept

\* A frame of the server's own arrives.
LEMMA OwnArrives ==
    ASSUME ConnInv, pc \in Waiting, NEW f \in PushedFrames \cup {Oversize, Eof}, inbox' = Append(inbox, f),
           signalled' = IF f.t = "changed" THEN listing ELSE signalled,
           UNCHANGED <<Client, due, ran, listing>>
    PROVE  ConnInv'
  <1>1. Wire /\ Announced /\ Rest(inbox) /\ {} \subseteq Requests /\ Unasked({}) /\ want \in Nat
    BY DEF ConnInv, ClientTypes, Rest, Unasked
  <1>2. listing \in Nat /\ signalled \in Nat /\ signalled <= listing /\ ran \subseteq Nat
    BY <1>1 DEF Announced, Wire
  <1>3. f \in Frames /\ f.t # "answer" /\ f.k = "" /\ (f.t = "changed" => f.v = listing)
    BY <1>1, <1>2, PushedFacts
  <1>4. signalled' \in Nat /\ signalled <= signalled' /\ signalled' <= listing
    BY <1>2
  <1>5. Arrives(f, {})
    <2>1. ASSUME f.t = "changed" PROVE f.v <= signalled'
      <3>1. signalled' = listing /\ f.v = listing
        BY <1>3, <2>1
      <3> QED
        BY <1>2, <3>1
    <2> QED
      BY <1>3, <2>1 DEF Arrives
  <1>6. WireStep(inbox, {})
    BY <1>1, <1>2, <1>3, <1>4, <1>5, OneArrives DEF WireStep
  <1> QED
    BY <1>6, ServerKept

LEMMA ServerPushesKept ==
    ASSUME ConnInv, ServerPushes
    PROVE  ConnInv'
  <1>1. PICK f \in PushedFrames \cup {Oversize} :
          /\ inbox' = Append(inbox, f)
          /\ signalled' = IF f.t = "changed" THEN listing ELSE signalled
    BY DEF ServerPushes
  <1>2. UNCHANGED <<Client, due, ran, listing>> /\ pc \in Waiting
    BY DEF ServerPushes, effects, Talking, Writable, Listening
  <1> QED
    BY <1>1, <1>2, OwnArrives

LEMMA DrainEndsKept ==
    ASSUME ConnInv, DrainEnds
    PROVE  ConnInv'
  <1>1. UNCHANGED <<Client, due, ran, listing, signalled>> /\ pc \in Waiting /\ inbox' = Append(inbox, Eof)
    BY DEF DrainEnds, effects, server, Writable, Listening
  <1>2. Eof.t = "eof"
    BY DEF Eof, Frame
  <1> QED
    BY <1>1, <1>2, OwnArrives

LEMMA ServerRunsKept ==
    ASSUME ConnInv, ServerRuns
    PROVE  ConnInv'
  <1> DEFINE new == <<>>
  <1>1. Wire /\ Announced /\ Rest(inbox) /\ {} \subseteq Requests /\ Unasked({})
    BY DEF ConnInv, Rest, Unasked
  <1>2. PICK r \in due : r.op = "call" /\ ran' = ran \cup {r.id}
    BY DEF ServerRuns
  <1>3. UNCHANGED <<Client, inbox, due, listing, signalled>> /\ pc \in Waiting
    BY DEF ServerRuns, link, server, Listening
  <1>4. r.id \in Nat /\ r = Request(r.id, "call") /\ ran \subseteq Nat
    BY <1>1, <1>2 DEF Wire, Requests, Request
  <1>5. /\ due' \subseteq due \cup {} /\ ran \subseteq ran' /\ ran' \subseteq Nat
        /\ \A i \in ran' : i \in ran \/ Request(i, "call") \in due \cup {}
    BY <1>2, <1>3, <1>4
  <1>6. new \in Seq(Frames) /\ DOMAIN new = {} /\ inbox' = inbox \o new
    BY <1>1, <1>3 DEF Wire
  <1> HIDE DEF new
  <1>7. signalled' \in Nat /\ signalled <= signalled' /\ signalled' <= listing
    BY <1>1, <1>3 DEF Announced
  <1>8. WireStep(inbox, {})
    BY <1>1, <1>5, <1>6, <1>7, Arrival DEF WireStep
  <1> QED
    BY <1>3, <1>8, ServerKept

LEMMA ServerChangesKept ==
    ASSUME ConnInv, ServerChanges
    PROVE  ConnInv'
  <1> USE DEF ConnInv
  <1>1. UNCHANGED <<inbox, due, ran, nextId, stale, tools, pinned, pc, want, raws, surfaced,
                    settled, signalled, heard, lastShape>> /\ listing' = listing + 1
    BY DEF ServerChanges, Client, adapter, progress, link, effects
  <1>2. ClientTypes' /\ Announced'
    BY <1>1 DEF ClientTypes, Announced
  <1>3. Wire'
    BY <1>1 DEF Wire, Sound, Apart
  <1>4. CallInv' /\ ListInv'
    BY <1>1 DEF CallInv, Justified, NoCalls, CallsMinted, ListInv, NoLists, OneList, ListsMinted
  <1>5. FreshInv'
    BY <1>1 DEF FreshInv, Heard, AsNew, PagesAsNew
  <1> QED
    BY <1>2, <1>3, <1>4, <1>5

LEMMA MarkStaleKept ==
    ASSUME ConnInv, MarkStale
    PROVE  ConnInv'
  <1> USE DEF ConnInv
  <1>1. UNCHANGED <<inbox, due, ran, nextId, tools, pinned, pc, want, raws, surfaced, settled, listing,
                    signalled, heard, lastShape>> /\ stale' = TRUE /\ pc = "idle"
    BY DEF MarkStale, progress, link, effects, server
  <1>2. ClientTypes' /\ Announced'
    BY <1>1 DEF ClientTypes, Announced
  <1>3. Wire'
    BY <1>1 DEF Wire, Sound, Apart
  <1>4. CallInv' /\ ListInv'
    BY <1>1 DEF CallInv, Justified, NoCalls, CallsMinted, ListInv, NoLists, OneList, ListsMinted
  <1>5. FreshInv'
    BY <1>1 DEF FreshInv, Heard, AsNew, PagesAsNew
  <1> QED
    BY <1>2, <1>3, <1>4, <1>5

(***************************************************************************)
(* The adapter's operations.                                               *)
(***************************************************************************)
\* The adapter's ids are new: nothing on the wire is under the next one.
LEMMA NewId ==
    ASSUME ConnInv, pc \in Adapted
    PROVE  /\ \A i \in DOMAIN inbox : inbox[i].k \in {"rejected", "page"} => inbox[i].id # nextId
           /\ nextId \notin ran /\ \A op \in {"call", "list"} : Request(nextId, op) \notin due
           /\ \A op \in {"call", "list", "init"} : {Request(nextId, op)} \subseteq Requests /\ Unasked({Request(nextId, op)})
  <1>1. CallsMinted /\ ListsMinted /\ nextId \in Nat /\ inbox \in Seq(Frames)
    BY DEF ConnInv, CallInv, ListInv, ClientTypes, Wire
  <1>2. \A i \in DOMAIN inbox : inbox[i].k \in {"rejected", "page"} => inbox[i].id # nextId
    BY <1>1 DEF CallsMinted, ListsMinted
  <1>3. nextId \notin ran /\ \A op \in {"call", "list"} : Request(nextId, op) \notin due
    BY <1>1, RequestFields DEF CallsMinted, ListsMinted
  <1>4. \A op \in {"call", "list", "init"} : {Request(nextId, op)} \subseteq Requests
    BY <1>1 DEF Requests, Request
  <1>5. \A op \in {"call", "list", "init"} : Unasked({Request(nextId, op)})
    BY <1>2, RequestFields DEF Unasked
  <1> QED
    BY <1>2, <1>3, <1>4, <1>5

\* A new entry in the settled calls, under the id minted for it.
LEMMA SettleNew ==
    ASSUME nextId \in Nat, nextId' = nextId + 1, pc \in Adapted, NEW outcome,
           Settle(nextId, outcome), \A id : id = nextId => Justified(id, outcome)'
    PROVE  \A id \in DOMAIN settled' :
             \/ id \in DOMAIN settled /\ settled'[id] = settled[id]
             \/ pc \in Adapted /\ id \in Nat /\ id < nextId' /\ Justified(id, settled[id])'
  <1>1. /\ DOMAIN settled' = DOMAIN settled \cup {nextId}
        /\ \A id \in DOMAIN settled' : settled'[id] = IF id = nextId THEN outcome ELSE settled[id]
    BY DEF Settle
  <1>2. ASSUME NEW id, id = nextId PROVE Justified(id, settled[id])'
    BY <1>1, <1>2 DEF Justified
  <1> QED
    BY <1>1, <1>2

LEMMA ExecuteKept ==
    ASSUME ConnInv, Execute
    PROVE  ConnInv'
  <1> DEFINE reqs == {Request(nextId, "call")}
  <1>1. ClientTypes /\ Announced /\ Wire /\ CallInv /\ ListInv /\ FreshInv /\ Rest(inbox)
    BY DEF ConnInv, Rest
  <1>2. /\ pc = "idle" /\ pc \in Adapted /\ ~stale /\ nextId \in Nat /\ nextId' = nextId + 1
        /\ UNCHANGED <<tools, pinned, listing, heard, lastShape, stale>>
    BY <1>1 DEF Execute, Adapted, ClientTypes
  <1>3. /\ reqs \subseteq Requests /\ Unasked(reqs) /\ Request(nextId, "call") \notin due /\ nextId \notin ran
        /\ \A r \in reqs : r.op = "call" /\ r.id = nextId
    BY <1>2, NewId, RequestFields
  <1>4. surfaced = <<>> /\ AsNew(tools) /\ (pinned # NoPin => lastShape = pinned)
    BY <1>1, <1>2 DEF FreshInv, Heard
  <1>5. CASE Settle(nextId, "ArgumentsTooLarge") /\ UNCHANGED <<link, effects, progress, signalled>>
    <2>1. UNCHANGED <<inbox, due, ran, pc, want, raws, surfaced, signalled>>
      BY <1>5 DEF link, effects, progress
    <2>2. Unasked({}) /\ {} \subseteq Requests
      BY DEF Unasked
    <2>3. Wire' /\ Moved(inbox, {}) /\ Announced'
      BY <1>1, <1>2, <2>1, <2>2, NothingArrives DEF Announced
    <2>4. ASSUME NEW id, id = nextId PROVE Justified(id, "ArgumentsTooLarge")'
      BY <1>3, <2>1, <2>4 DEF Justified
    <2>5. CallInv'
      BY <1>1, <1>2, <1>5, <2>1, <2>2, <2>3, <2>4, SettleNew, CallsKept DEF Adapted, Connecting
    <2>6. ListInv'
      BY <1>1, <1>2, <2>1, <2>2, <2>3, ListsMintedKept
    <2>7. ClientTypes'
      BY <1>1, <1>2, <2>1 DEF ClientTypes
    <2>8. FreshInv'
      BY <1>2, <1>4, <2>1 DEF FreshInv, AsNew
    <2> QED
      BY <2>3, <2>5, <2>6, <2>7, <2>8 DEF ConnInv
  <1>6. ASSUME NEW ok \in BOOLEAN, Send(reqs, nextId, inbox, ok),
               \/ pc' = "call" /\ want' = nextId /\ surfaced' = <<>> /\ UNCHANGED <<raws, settled>>
               \/ Settle(nextId, "Unknown") /\ UNCHANGED progress
        PROVE  ConnInv'
    <2> HIDE DEF reqs
    <2>1. WireStep(inbox, reqs)
      BY <1>1, <1>2, <1>3, <1>6, SendStep DEF ClientTypes
    <2>2. Wire' /\ Moved(inbox, reqs) /\ Announced'
      BY <1>1, <1>2, <2>1 DEF WireStep, Announced
    <2>3. /\ pc' \in {"idle", "call"} /\ want' \in Nat /\ (pc' = "call" => want' < nextId') /\ surfaced' = <<>>
          /\ raws' = raws
      BY <1>1, <1>2, <1>4, <1>6 DEF progress, ClientTypes
    <2>4. \A id \in DOMAIN settled' :
            \/ id \in DOMAIN settled /\ settled'[id] = settled[id]
            \/ pc \in Adapted /\ id \in Nat /\ id < nextId' /\ Justified(id, settled[id])'
      <3>1. \A id : id = nextId => Justified(id, "Unknown")'
        BY DEF Justified
      <3> QED
        BY <1>2, <1>6, <3>1, SettleNew
    <2>5. CallInv'
      BY <1>1, <1>2, <1>3, <2>2, <2>3, <2>4, CallsKept DEF Adapted, Connecting
    <2>6. ListInv'
      BY <1>1, <1>2, <1>3, <2>2, <2>3, ListsMintedKept DEF Adapted
    <2>7. ClientTypes'
      <3>1. surfaced' \in Seq(Frames) /\ pc' \in Adapted
        BY <2>3 DEF Adapted
      <3> QED
        BY <1>1, <1>2, <2>3, <3>1 DEF ClientTypes
    <2>8. FreshInv'
      BY <1>2, <1>4, <2>3 DEF FreshInv, AsNew
    <2> QED
      BY <2>2, <2>5, <2>6, <2>7, <2>8 DEF ConnInv
  <1> QED
    BY <1>5, <1>6 DEF Execute

LEMMA RelistKept ==
    ASSUME ConnInv, Relist
    PROVE  ConnInv'
  <1> DEFINE reqs == {Request(nextId, "list")}
  <1>1. ClientTypes /\ Announced /\ Wire /\ CallInv /\ ListInv /\ FreshInv /\ Rest(inbox)
    BY DEF ConnInv, Rest
  <1>2. /\ pc = "idle" /\ pc \in Adapted /\ nextId \in Nat /\ nextId' = nextId + 1
        /\ UNCHANGED <<tools, pinned, listing, heard, lastShape, stale, settled>>
    BY <1>1 DEF Relist, Adapted, ClientTypes
  <1>3. /\ reqs \subseteq Requests /\ Unasked(reqs)
        /\ \A i \in DOMAIN inbox : inbox[i].k = "page" => inbox[i].id # nextId
        /\ \A r \in reqs : r.op = "list" /\ r.id = nextId
    BY <1>2, NewId, RequestFields
  <1>4. PICK ok \in BOOLEAN :
          /\ Send(reqs, nextId, inbox, ok)
          /\ \/ pc' = "list" /\ want' = nextId /\ raws' = Empty /\ surfaced' = <<>>
             \/ UNCHANGED progress
    BY DEF Relist
  <1> HIDE DEF reqs
  <1>5. WireStep(inbox, reqs)
    BY <1>1, <1>2, <1>3, <1>4, SendStep DEF ClientTypes
  <1>6. Wire' /\ Moved(inbox, reqs) /\ Announced'
    BY <1>1, <1>2, <1>5 DEF WireStep, Announced
  <1>7. surfaced = <<>> /\ (~stale => AsNew(tools) /\ (pinned # NoPin => lastShape = pinned))
    BY <1>1, <1>2 DEF FreshInv, Heard
  <1>8. CASE UNCHANGED progress
    <2>1. UNCHANGED <<pc, want, raws, surfaced>>
      BY <1>8 DEF progress
    <2>2. CallInv'
      BY <1>1, <1>2, <1>3, <1>6, <2>1, CallsKept DEF Adapted, Connecting
    <2>3. ListInv'
      BY <1>1, <1>2, <1>3, <1>6, <2>1, ListsMintedKept
    <2>4. ClientTypes' /\ FreshInv'
      BY <1>1, <1>2, <1>7, <2>1 DEF ClientTypes, FreshInv, AsNew
    <2> QED
      BY <1>6, <2>2, <2>3, <2>4 DEF ConnInv
  <1>9. CASE pc' = "list" /\ want' = nextId /\ raws' = Empty /\ surfaced' = <<>>
    <2>1. DOMAIN raws' = {} /\ surfaced' \in Seq(Frames) /\ pc' \in Adapted
      BY <1>9 DEF Empty, Adapted
    <2>2. CallInv'
      BY <1>1, <1>2, <1>3, <1>6, <1>9, CallsKept DEF Adapted, Connecting
    <2>3. ListInv'
      BY <1>1, <1>2, <1>3, <1>6, <2>1, ListsMintedKept
    <2>4. ClientTypes'
      BY <1>1, <1>2, <1>9, <2>1 DEF ClientTypes
    <2>5. PagesAsNew'
      BY <1>1, <1>2, <1>3, <1>6, <1>9, NewPages
    <2>6. AsNew(raws)'
      BY <2>1 DEF AsNew
    <2>7. FreshInv'
      BY <1>2, <1>7, <1>9, <2>5, <2>6 DEF FreshInv, AsNew
    <2> QED
      BY <1>6, <2>2, <2>3, <2>4, <2>7 DEF ConnInv
  <1> QED
    BY <1>4, <1>8, <1>9

(***************************************************************************)
(* Answers.                                                                *)
(***************************************************************************)
\* A page that was read leaves no list request of the import unanswered.
LEMMA Consumed ==
    ASSUME Wire, OneList, inbox # <<>>, Head(inbox).k = "page"
    PROVE  /\ \A r \in due : r.op # "list"
           /\ \A i \in DOMAIN Tail(inbox) : Tail(inbox)[i].k # "page"
  <1> DEFINE f == Head(inbox)
             box == Tail(inbox)
  <1>1. f = inbox[1] /\ 1 \in DOMAIN inbox /\ Sound(f) /\ f.k = "page" /\ f.id = want
    BY HeadFacts DEF OneList
  <1>2. \A r \in due : r = Request(r.id, r.op)
    BY DEF Wire, Requests, Request
  <1>3. \A r \in due : r.op # "list"
    BY <1>1, <1>2 DEF Sound, OneList
  <1>4. \A i \in DOMAIN box : i + 1 \in DOMAIN inbox /\ box[i] = inbox[i + 1] /\ i + 1 # 1
    BY DEF Wire
  <1>5. \A i \in DOMAIN box : box[i].k # "page"
    BY <1>1, <1>4 DEF Wire, Apart, OneList
  <1> QED
    BY <1>3, <1>5

\* The entries of the pages read so far, the one just read included.
LEMMA MergedFacts ==
    ASSUME ConnInv, pc \in {"import", "list"}, inbox # <<>>, NEW f, f = Head(inbox), Matches(f), f.k = "page"
    PROVE  /\ DOMAIN Merged(f) = DOMAIN raws \cup f.names
           /\ \A n \in DOMAIN Merged(f) : Merged(f)[n] \in Nat
           /\ ~Heard(surfaced) => \A n \in DOMAIN Merged(f) : Merged(f)[n] >= heard
  <1>1. ClientTypes /\ FreshInv /\ Wire
    BY DEF ConnInv
  <1>2. f \in Frames /\ f.v \in Nat /\ 1 \in DOMAIN inbox /\ f = inbox[1]
    BY <1>1, HeadFacts, FrameFields
  <1>3. ~Heard(surfaced) => AsNew(raws) /\ f.v >= heard
    BY <1>1, <1>2 DEF FreshInv, PagesAsNew, Matches
  <1>4. /\ DOMAIN Merged(f) = DOMAIN raws \cup f.names
        /\ \A n \in DOMAIN Merged(f) : Merged(f)[n] = IF n \in DOMAIN raws THEN raws[n] ELSE f.v
    BY DEF Merged
  <1> QED
    BY <1>1, <1>2, <1>3, <1>4 DEF ClientTypes, AsNew

\* The next page is asked for.
LEMMA MorePages ==
    ASSUME ConnInv, pc \in {"import", "list"}, inbox # <<>>, NEW f, f = Head(inbox), Matches(f), f.k = "page",
           NEW ok \in BOOLEAN, Send({Request(nextId, "list")}, nextId, Tail(inbox), ok), nextId' = nextId + 1,
           \/ OpFails(surfaced)
           \/ want' = nextId /\ raws' = Merged(f) /\ UNCHANGED <<pc, surfaced, stale, tools, pinned, settled>>,
           UNCHANGED <<heard, listing, lastShape>>
    PROVE  ConnInv'
  <1> DEFINE reqs == {Request(nextId, "list")}
             box == Tail(inbox)
  <1>1. ClientTypes /\ Announced /\ Wire /\ CallInv /\ ListInv /\ FreshInv /\ Rest(box) /\ nextId \in Nat /\ want \in Nat
    BY HeadFacts DEF ConnInv, ClientTypes
  <1>2. /\ reqs \subseteq Requests /\ \A r \in reqs : r.op = "list" /\ r.id = nextId
        /\ \A id : Request(id, "list") \in reqs => id = nextId
        /\ \A id : Request(id, "call") \notin reqs
    BY <1>1 DEF Requests, Request
  <1>3. \A i \in DOMAIN inbox : inbox[i].k = "page" => inbox[i].id # nextId
    <2>1. CASE pc = "import"
      BY <1>1, <2>1 DEF ListInv, OneList
    <2>2. CASE pc = "list"
      BY <2>2, NewId DEF Adapted
    <2> QED
      BY <2>1, <2>2
  <1>4. Unasked(reqs)
    BY <1>2, <1>3 DEF Unasked
  <1> HIDE DEF reqs
  <1>5. WireStep(box, reqs)
    BY <1>1, <1>2, <1>4, SendStep DEF reqs
  <1>6. Wire' /\ Moved(box, reqs) /\ Announced'
    BY <1>1, <1>5 DEF WireStep, Announced
  <1>7. CASE OpFails(surfaced)
    <2>1. Learns(surfaced)
      BY <1>5, Learned
    <2>2. nextId' \in Nat /\ nextId <= nextId' /\ \A r \in reqs : r.op # "call" /\ r.id < nextId'
      BY <1>1, <1>2
    <2> QED
      BY <1>1, <1>2, <1>5, <1>7, <2>1, <2>2, FailsKept
  <1>8. CASE want' = nextId /\ raws' = Merged(f) /\ UNCHANGED <<pc, surfaced, stale, tools, pinned, settled>>
    <2>1. nextId' \in Nat /\ nextId <= nextId' /\ \A r \in reqs : r.op # "call" /\ r.id < nextId'
      BY <1>1, <1>2
    <2>2. ClientTypes'
      BY <1>1, <1>8, <2>1, MergedFacts DEF ClientTypes
    <2>3. CallInv'
      BY <1>1, <1>2, <1>6, <1>8, <2>1, CallsKept DEF Connecting, Adapted
    <2>4. PagesAsNew'
      BY <1>1, <1>3, <1>6, <1>8, NewPages
    <2>5. ListInv'
      <3>1. CASE pc = "list"
        BY <1>1, <1>2, <1>6, <1>8, <2>1, <3>1, ListsMintedKept DEF Adapted
      <3>2. CASE pc = "import"
        <4>1. OneList
          BY <1>1, <3>2 DEF ListInv
        <4>2. (\A r \in due : r.op # "list") /\ \A i \in DOMAIN box : box[i].k # "page"
          BY <1>1, <4>1, Consumed
        <4> HIDE DEF box
        <4>3. \A r \in due' : r.op = "list" => r.id = nextId
          BY <1>2, <1>6, <4>2 DEF Moved
        <4>4. \A id : Request(id, "list") \in due \cup reqs => id = nextId
          BY <1>2, <4>2, RequestFields
        <4>5. \A i \in DOMAIN inbox' : inbox'[i].k = "page" => inbox'[i].id = nextId
          BY <1>6, <4>2, <4>4 DEF Moved, Answers
        <4>6. OneList'
          BY <1>1, <1>8, <4>3, <4>5 DEF OneList
        <4> QED
          BY <1>8, <3>2, <4>6 DEF ListInv, Adapted
      <3> QED
        BY <3>1, <3>2
    <2>6. FreshInv'
      <3>1. ~Heard(surfaced) => AsNew(raws)'
        BY <1>8, MergedFacts DEF AsNew
      <3> QED
        BY <1>1, <1>8, <2>4, <3>1 DEF FreshInv, Heard, AsNew
    <2> QED
      BY <1>6, <2>2, <2>3, <2>5, <2>6 DEF ConnInv
  <1> QED
    BY <1>7, <1>8

\* The step that reads the answer without sending.
LEMMA AnswerRead ==
    ASSUME ConnInv, inbox # <<>>, NoSend(Tail(inbox)), UNCHANGED <<heard, listing>>
    PROVE  WireStep(Tail(inbox), {}) /\ Rest(Tail(inbox)) /\ Learns(surfaced)
  <1>1. Wire /\ Announced /\ Rest(Tail(inbox))
    BY HeadFacts DEF ConnInv
  <1>2. WireStep(Tail(inbox), {})
    BY <1>1, NoSendStep
  <1> QED
    BY <1>1, <1>2, Learned

\* An operation that commits entries as new as all it has read.
LEMMA Commits ==
    ASSUME NEW entries, tools' = entries, stale' = (Signals(surfaced) > 0), surfaced \in Seq(Frames),
           ~Heard(surfaced) => \A n \in DOMAIN entries : entries[n] >= heard, heard' = heard,
           pinned' # NoPin => lastShape' = pinned', Idle
    PROVE  FreshInv' /\ stale' \in BOOLEAN
  <1>1. stale' \in BOOLEAN /\ pc' = "idle" /\ surfaced' = <<>>
    BY DEF Idle
  <1>2. ~stale' => AsNew(tools)'
    BY SignalsHeard DEF AsNew
  <1> QED
    BY <1>1, <1>2 DEF FreshInv

LEMMA FreshFacts ==
    ASSUME ConnInv, pc \in {"import", "list"}, inbox # <<>>, NEW f, f = Head(inbox), Matches(f), f.k = "page",
           allowed \subseteq DOMAIN Merged(f)
    PROVE  /\ DOMAIN Fresh(Merged(f)) = allowed
           /\ \A n \in allowed : Fresh(Merged(f))[n] \in Nat
           /\ ~Heard(surfaced) => \A n \in allowed : Fresh(Merged(f))[n] >= heard
  <1> DEFINE entries == Merged(f)
  <1>1. /\ \A n \in DOMAIN entries : entries[n] \in Nat
        /\ ~Heard(surfaced) => \A n \in DOMAIN entries : entries[n] >= heard
    BY MergedFacts
  <1> HIDE DEF entries
  <1>2. DOMAIN Fresh(entries) = allowed /\ \A n \in allowed : Fresh(entries)[n] = entries[n]
    BY DEF Fresh
  <1> QED
    BY <1>1, <1>2 DEF entries

LEMMA NewAdapterKept ==
    ASSUME ConnInv, pc = "import", inbox # <<>>, NEW f, f = Head(inbox), Matches(f), f.k = "page",
           allowed \subseteq DOMAIN Merged(f), NoSend(Tail(inbox)), NewAdapter(Fresh(Merged(f))),
           UNCHANGED <<heard, listing, lastShape>>
    PROVE  ConnInv'
  <1> DEFINE box == Tail(inbox)
             entries == Fresh(Merged(f))
  <1>1. ClientTypes /\ Announced /\ Wire /\ CallInv /\ ListInv
    BY DEF ConnInv
  <1>2. WireStep(box, {}) /\ Rest(box)
    BY AnswerRead
  <1>3. Wire' /\ Moved(box, {}) /\ Announced'
    BY <1>1, <1>2 DEF WireStep, Announced
  <1>4. DOMAIN entries = allowed /\ (\A n \in allowed : entries[n] \in Nat)
        /\ (~Heard(surfaced) => \A n \in allowed : entries[n] >= heard)
    BY FreshFacts
  <1> HIDE DEF entries
  <1>5. /\ tools' = entries /\ stale' = (Signals(surfaced) > 0) /\ Idle /\ nextId' = 2 /\ settled' = settled
        /\ pinned' # NoPin => lastShape' = pinned'
    BY DEF NewAdapter, Route, entries
  <1>6. surfaced \in Seq(Frames)
    BY <1>1 DEF ClientTypes
  <1>7. FreshInv' /\ stale' \in BOOLEAN
    BY <1>4, <1>5, <1>6, Commits
  <1>8. ClientTypes'
    BY <1>1, <1>4, <1>5, <1>7, IdleTypes
  <1>9. pc' = "idle"
    BY <1>5 DEF Idle
  <1>10. CallInv'
    BY <1>1, <1>2, <1>3, <1>5, <1>9, CallsKept DEF Connecting, Adapted
  <1>11. ListsMinted'
    <2>1. (\A r \in due : r.op # "list") /\ \A i \in DOMAIN box : box[i].k # "page"
      BY <1>1, Consumed DEF ListInv
    <2>2. due' = due /\ inbox' = box
      BY DEF NoSend, effects
    <2> HIDE DEF box
    <2> QED
      BY <2>1, <2>2 DEF ListsMinted
  <1>12. ListInv'
    BY <1>9, <1>11 DEF ListInv
  <1> QED
    BY <1>3, <1>7, <1>8, <1>10, <1>12 DEF ConnInv

\* The refresh of a list, pinned or not, and the report of a call.
LEMMA EndsIdle ==
    ASSUME ConnInv, pc \in Adapted, inbox # <<>>, NoSend(Tail(inbox)), UNCHANGED <<heard, listing, nextId>>,
           Idle, FreshInv', stale' \in BOOLEAN, \A n \in DOMAIN tools' : tools'[n] \in Nat,
           \A id \in DOMAIN settled' :
             \/ id \in DOMAIN settled /\ settled'[id] = settled[id]
             \/ pc \in Adapted /\ id \in Nat /\ id < nextId' /\ Justified(id, settled[id])'
    PROVE  ConnInv'
  <1> DEFINE box == Tail(inbox)
  <1>1. ClientTypes /\ Announced /\ Wire /\ CallInv /\ ListInv
    BY DEF ConnInv
  <1>2. WireStep(box, {}) /\ Rest(box)
    BY AnswerRead
  <1>3. Wire' /\ Moved(box, {}) /\ Announced'
    BY <1>1, <1>2 DEF WireStep, Announced
  <1> HIDE DEF box
  <1>4. nextId' \in Nat /\ nextId <= nextId'
    BY <1>1 DEF ClientTypes
  <1>5. pc' = "idle" /\ pc' \in Adapted /\ pc' \notin Connecting
    BY DEF Idle, Adapted, Connecting
  <1>6. ClientTypes'
    BY <1>1, <1>4, IdleTypes
  <1>7. CallInv'
    BY <1>1, <1>2, <1>3, <1>4, <1>5, CallsKept
  <1>8. ListInv'
    BY <1>1, <1>2, <1>3, <1>4, <1>5, ListsMintedKept
  <1> QED
    BY <1>3, <1>6, <1>7, <1>8 DEF ConnInv

LEMMA RefreshKept ==
    ASSUME ConnInv, pc \in {"list", "pin"}, inbox # <<>>, NoSend(Tail(inbox)),
           UNCHANGED <<heard, listing, nextId>>, NEW entries, Refresh(entries),
           \A n \in DOMAIN entries : entries[n] \in Nat,
           ~Heard(surfaced) => \A n \in DOMAIN entries : entries[n] >= heard,
           pinned # NoPin => lastShape' = pinned
    PROVE  ConnInv'
  <1>1. /\ tools' = entries /\ stale' = (Signals(surfaced) > 0) /\ Idle /\ settled' = settled /\ pinned' = pinned
    BY DEF Refresh, Route
  <1>2. surfaced \in Seq(Frames)
    BY DEF ConnInv, ClientTypes
  <1>3. FreshInv' /\ stale' \in BOOLEAN
    BY <1>1, <1>2, Commits
  <1> QED
    BY <1>1, <1>3, EndsIdle DEF Adapted

LEMMA CallAnswerKept ==
    ASSUME ConnInv, inbox # <<>>, Matches(Head(inbox)), CallAnswer(Head(inbox), Tail(inbox)),
           UNCHANGED <<heard, listing>>
    PROVE  ConnInv'
  <1> DEFINE f == Head(inbox)
  <1>1. ClientTypes /\ Announced /\ Wire /\ CallInv /\ ListInv /\ FreshInv
    BY DEF ConnInv
  <1>2. /\ pc = "call" /\ pc \in Adapted /\ NoSend(Tail(inbox)) /\ Settle(want, Outcome(f))
        /\ stale' = (stale \/ Signals(surfaced) > 0) /\ Idle /\ UNCHANGED <<tools, pinned, nextId, lastShape>>
    BY DEF CallAnswer, Route, Adapted
  <1>3. Sound(f) /\ f.id = want
    BY <1>1, HeadFacts DEF Matches
  <1>4. stale \in BOOLEAN /\ Learns(surfaced)
    BY <1>1, <1>2, AnswerRead DEF ClientTypes
  <1>5. FreshInv' /\ stale' \in BOOLEAN
    BY <1>1, <1>2, <1>4, IdleFresh
  <1>6. UNCHANGED <<due, ran>>
    BY <1>2 DEF NoSend, effects
  <1>7. want \in Nat /\ want < nextId'
    BY <1>1, <1>2 DEF ClientTypes, CallInv, CallsMinted
  <1>8. /\ DOMAIN settled' = DOMAIN settled \cup {want}
        /\ \A id \in DOMAIN settled' : settled'[id] = IF id = want THEN Outcome(f) ELSE settled[id]
    BY <1>2 DEF Settle
  <1>9. ASSUME NEW id, id = want PROVE Justified(id, settled[id])'
    <2>1. settled'[id] = Outcome(f)
      BY <1>8, <1>9
    <2>2. /\ Outcome(f) \in {"Success", "ResultTooLarge"} => f.k \in {"ok", "big"}
          /\ Outcome(f) \in {"ProtocolRejected", "ArgumentsTooLarge"} => f.k = "rejected"
      BY DEF Outcome
    <2> HIDE DEF f
    <2> QED
      BY <1>3, <1>6, <1>9, <2>1, <2>2 DEF Justified, Sound
  <1>10. \A n \in DOMAIN tools' : tools'[n] \in Nat
    BY <1>1, <1>2 DEF ClientTypes
  <1> QED
    BY <1>2, <1>5, <1>7, <1>8, <1>9, <1>10, EndsIdle

LEMMA PinAnswerKept ==
    ASSUME ConnInv, inbox # <<>>, NEW f, PinAnswer(f, Tail(inbox)), UNCHANGED <<heard, listing>>
    PROVE  ConnInv'
  <1>1. ClientTypes /\ FreshInv
    BY DEF ConnInv
  <1>2. pc = "pin" /\ pc \in Adapted /\ NoSend(Tail(inbox)) /\ nextId' = nextId
    BY DEF PinAnswer, Adapted
  <1>3. stale \in BOOLEAN /\ Learns(surfaced)
    BY <1>1, <1>2, AnswerRead DEF ClientTypes
  <1>4. CASE PinFails(surfaced) /\ lastShape' = lastShape
    <2>1. OpFails(surfaced)
      BY <1>2, <1>4 DEF OpFails
    <2> QED
      BY <1>2, <1>3, <1>4, <2>1, AnswerRead, GivesUp
  <1>5. CASE PinMatches(f.v) /\ lastShape' = f.v /\ Refresh(raws)
    <2>1. /\ \A n \in DOMAIN raws : raws[n] \in Nat
          /\ ~Heard(surfaced) => \A n \in DOMAIN raws : raws[n] >= heard
          /\ lastShape' = pinned
      BY <1>1, <1>2, <1>5 DEF ClientTypes, FreshInv, AsNew, PinMatches
    <2> QED
      BY <1>2, <1>5, <2>1, RefreshKept
  <1>6. CASE /\ Route(surfaced, TRUE, IF stale THEN version ELSE version + 1) /\ Idle
             /\ UNCHANGED <<tools, pinned, settled>>
    <2>1. stale' = (TRUE \/ Signals(surfaced) > 0)
      BY <1>6 DEF Route
    <2>2. FreshInv' /\ stale' \in BOOLEAN
      BY <1>1, <1>2, <1>3, <1>6, <2>1, IdleFresh
    <2>3. \A n \in DOMAIN tools' : tools'[n] \in Nat
      BY <1>1, <1>6 DEF ClientTypes
    <2> QED
      BY <1>2, <1>6, <2>2, <2>3, EndsIdle
  <1> QED
    BY <1>4, <1>5, <1>6 DEF PinAnswer

\* A pinned relist goes on to initialize again.
LEMMA PinAsked ==
    ASSUME ConnInv, pc = "list", pinned # NoPin, inbox # <<>>, NEW entries,
           NEW ok \in BOOLEAN, Send({Request(nextId, "init")}, nextId, Tail(inbox), ok), nextId' = nextId + 1,
           \/ PinFails(surfaced)
           \/ /\ pc' = "pin" /\ want' = nextId /\ raws' = entries
              /\ UNCHANGED <<surfaced, stale, tools, pinned, settled>>,
           \A n \in DOMAIN entries : entries[n] \in Nat,
           ~Heard(surfaced) => \A n \in DOMAIN entries : entries[n] >= heard,
           UNCHANGED <<heard, listing, lastShape>>
    PROVE  ConnInv'
  <1> DEFINE reqs == {Request(nextId, "init")}
             box == Tail(inbox)
  <1>1. ClientTypes /\ Announced /\ Wire /\ CallInv /\ ListInv /\ FreshInv /\ Rest(box) /\ nextId \in Nat
        /\ want \in Nat /\ pc \in Adapted
    BY HeadFacts DEF ConnInv, ClientTypes, Adapted
  <1>2. reqs \subseteq Requests /\ Unasked(reqs) /\ \A r \in reqs : r.op = "init"
    BY <1>1, NewId, RequestFields
  <1> HIDE DEF reqs, box
  <1>3. WireStep(box, reqs)
    BY <1>1, <1>2, SendStep DEF reqs, box
  <1>4. Wire' /\ Moved(box, reqs) /\ Announced'
    BY <1>1, <1>3 DEF WireStep, Announced
  <1>5. nextId' \in Nat /\ nextId <= nextId' /\ \A r \in reqs : r.op # "call" /\ r.op # "list"
    BY <1>1, <1>2
  <1>7. CASE PinFails(surfaced)
    <2>1. Learns(surfaced)
      BY <1>3, Learned
    <2>2. PinFails(surfaced)
      BY <1>7
    <2> DEFINE flag == IF stale \/ Signals(surfaced) > 0 THEN stale ELSE TRUE
    <2>3. /\ stale' = (flag \/ Signals(surfaced) > 0) /\ Idle /\ UNCHANGED <<tools, pinned, settled>>
      BY <2>2 DEF PinFails, Route
    <2>4. stale \in BOOLEAN
      BY <1>1 DEF ClientTypes
    <2>5. flag \in BOOLEAN /\ (stale => flag)
      BY <2>4
    <2> HIDE DEF flag
    <2>6. FreshInv' /\ stale' \in BOOLEAN
      BY <1>1, <2>1, <2>3, <2>5, IdleFresh
    <2>7. pc' = "idle" /\ pc' \in Adapted /\ pc' \notin Connecting
      BY <2>3 DEF Idle, Adapted, Connecting
    <2>8. ClientTypes'
      BY <1>1, <1>5, <2>3, <2>6, IdleTypes DEF ClientTypes
    <2>9. CallInv'
      BY <1>1, <1>2, <1>4, <1>5, <2>3, <2>7, CallsKept
    <2>10. ListInv'
      BY <1>1, <1>2, <1>4, <1>5, <2>7, ListsMintedKept
    <2> QED
      BY <1>4, <2>6, <2>8, <2>9, <2>10 DEF ConnInv
  <1>8. CASE /\ pc' = "pin" /\ want' = nextId /\ raws' = entries
             /\ UNCHANGED <<surfaced, stale, tools, pinned, settled>>
    <2>1. pc' \in Adapted /\ pc' \notin Connecting
      BY <1>8 DEF Adapted, Connecting
    <2>2. ClientTypes'
      BY <1>1, <1>5, <1>8, <2>1 DEF ClientTypes
    <2>3. CallInv'
      BY <1>1, <1>2, <1>4, <1>5, <1>8, <2>1, CallsKept
    <2>4. ListInv'
      BY <1>1, <1>2, <1>4, <1>5, <2>1, ListsMintedKept
    <2>5. FreshInv'
      BY <1>1, <1>8 DEF FreshInv, Heard, AsNew
    <2> QED
      BY <1>4, <2>2, <2>3, <2>4, <2>5 DEF ConnInv
  <1> QED
    BY <1>7, <1>8

LEMMA ListAnswerKept ==
    ASSUME ConnInv, inbox # <<>>, NEW f, f = Head(inbox), Matches(f), ListAnswer(f, Tail(inbox)),
           UNCHANGED <<heard, listing>>
    PROVE  ConnInv'
  <1> DEFINE box == Tail(inbox)
             fresh == Fresh(Merged(f))
  <1>1. pc \in {"import", "list"} /\ lastShape' = lastShape
    BY DEF ListAnswer
  <1>2. CASE NoSend(box) /\ OpFails(surfaced) /\ nextId' = nextId
    BY <1>1, <1>2, AnswerRead, GivesUp
  <1>3. CASE NextPage(f, box)
    <2>1. f.k = "page"
      BY <1>3 DEF NextPage
    <2>2. ASSUME NEW ok \in BOOLEAN, Send({Request(nextId, "list")}, nextId, box, ok), nextId' = nextId + 1,
                 \/ OpFails(surfaced)
                 \/ want' = nextId /\ raws' = Merged(f) /\ UNCHANGED <<pc, surfaced, stale, tools, pinned, settled>>
          PROVE  ConnInv'
      BY <1>1, <2>1, <2>2, MorePages
    <2> QED
      BY <1>2, <1>3, <2>2 DEF NextPage
  <1>4. CASE LastPage(f, box)
    <2>1. f.k = "page"
      BY <1>4 DEF LastPage
    <2>2. ASSUME allowed \subseteq DOMAIN Merged(f)
          PROVE  /\ DOMAIN fresh = allowed /\ \A n \in DOMAIN fresh : fresh[n] \in Nat
                 /\ ~Heard(surfaced) => \A n \in DOMAIN fresh : fresh[n] >= heard
      <3>1. /\ DOMAIN fresh = allowed /\ \A n \in allowed : fresh[n] \in Nat
            /\ ~Heard(surfaced) => \A n \in allowed : fresh[n] >= heard
        BY <1>1, <2>1, <2>2, FreshFacts
      <3> HIDE DEF fresh
      <3> QED
        BY <3>1
    <2>3. ASSUME allowed \subseteq DOMAIN Merged(f), pc = "import", NoSend(box), NewAdapter(fresh)
          PROVE  ConnInv'
      BY <1>1, <2>1, <2>3, NewAdapterKept
    <2>4. ASSUME allowed \subseteq DOMAIN Merged(f), pc = "list", pinned = NoPin, NoSend(box), Refresh(fresh),
                 nextId' = nextId
          PROVE  ConnInv'
      <3> HIDE DEF fresh
      <3> QED
        BY <1>1, <2>2, <2>4, RefreshKept
    <2>5. ASSUME allowed \subseteq DOMAIN Merged(f), pc = "list", pinned # NoPin, nextId' = nextId + 1,
                 NEW ok \in BOOLEAN, Send({Request(nextId, "init")}, nextId, box, ok),
                 \/ PinFails(surfaced)
                 \/ /\ pc' = "pin" /\ want' = nextId /\ raws' = fresh
                    /\ UNCHANGED <<surfaced, stale, tools, pinned, settled>>
          PROVE  ConnInv'
      <3> HIDE DEF fresh
      <3> QED
        BY <1>1, <2>2, <2>5, PinAsked
    <2> HIDE DEF box
    <2> QED
      BY <1>2, <1>4, <2>3, <2>4, <2>5 DEF LastPage, fresh
  <1> HIDE DEF box
  <1> QED
    BY <1>2, <1>3, <1>4 DEF ListAnswer, box

LEMMA RecvKept ==
    ASSUME ConnInv, Recv
    PROVE  ConnInv'
  <1>1. pc \in Waiting /\ inbox # <<>> /\ listing' = listing
    BY DEF Recv
  <1>2. CASE RecvAnswer
    <2>1. Matches(Head(inbox)) /\ heard' = heard
      BY <1>2 DEF RecvAnswer
    <2>2. \/ HandshakeAnswer(Head(inbox), Tail(inbox)) \/ ListAnswer(Head(inbox), Tail(inbox))
          \/ PinAnswer(Head(inbox), Tail(inbox)) \/ CallAnswer(Head(inbox), Tail(inbox))
      BY <1>2 DEF RecvAnswer
    <2>3. CASE HandshakeAnswer(Head(inbox), Tail(inbox))
      BY <1>1, <2>1, <2>3, HandshakeAnswerKept
    <2>4. CASE ListAnswer(Head(inbox), Tail(inbox))
      BY <1>1, <2>1, <2>4, ListAnswerKept
    <2>5. CASE PinAnswer(Head(inbox), Tail(inbox))
      BY <1>1, <2>1, <2>5, PinAnswerKept
    <2>6. CASE CallAnswer(Head(inbox), Tail(inbox))
      BY <1>1, <2>1, <2>6, CallAnswerKept
    <2> QED
      BY <2>2, <2>3, <2>4, <2>5, <2>6
  <1> QED
    BY <1>1, <1>2, RecvNotificationKept, RecvRequestKept, RecvOtherKept, RecvBrokenKept DEF Recv

(***************************************************************************)
(* The theorems.                                                           *)
(***************************************************************************)
LEMMA InitHolds ==
    ASSUME Init
    PROVE  ConnInv
  <1>1. /\ inbox = <<>> /\ due = {} /\ ran = {} /\ pc = "down" /\ want = 0 /\ nextId = 2 /\ stale = FALSE
        /\ surfaced = <<>> /\ DOMAIN raws = {} /\ DOMAIN tools = {} /\ DOMAIN settled = {}
        /\ listing = 0 /\ signalled = 0 /\ heard = 0
    BY DEF Init, Empty
  <1>2. inbox \in Seq(Frames) /\ DOMAIN inbox = {} /\ surfaced \in Seq(Frames)
    BY <1>1
  <1>3. ClientTypes /\ Announced
    <2>1. stale \in BOOLEAN
      BY <1>1
    <2>2. want \in Nat /\ nextId \in Nat /\ Announced
      BY <1>1 DEF Announced
    <2> QED
      BY <1>1, <1>2, <2>1, <2>2 DEF ClientTypes
  <1>4. Wire
    BY <1>1, <1>2 DEF Wire, Apart
  <1>5. CallInv /\ ListInv /\ FreshInv
    BY <1>1 DEF CallInv, ListInv, FreshInv, Connecting, Adapted
  <1> QED
    BY <1>3, <1>4, <1>5 DEF ConnInv

LEMMA NextKeeps ==
    ASSUME ConnInv, [Next]_vars
    PROVE  ConnInv'
  <1>1. CASE UNCHANGED vars
    BY <1>1, StutterKept DEF vars, link, adapter, progress, server, effects
  <1>2. CASE ServerExits
    BY <1>2, StutterKept DEF ServerExits, Client, adapter, progress, server, effects
  <1>3. CASE Next
    BY <1>2, <1>3, SpawnKept, HandshakeKept, ImportKept, DropKept, ExecuteKept, RelistKept, MarkStaleKept,
       RecvKept, TimeoutKept, ServerAnswersKept, ServerPushesKept, DrainEndsKept, ServerRunsKept,
       ServerChangesKept, Zenon DEF Next
  <1> QED
    BY <1>1, <1>3

(* What the bus is told of a call is true of the server, for every         *)
(* transport, every bound and every interleaving of late answers, pushes   *)
(* and exits (call_tool, execute_inner, wait_for_response).                *)
THEOREM CallOutcomesAreTrue == Spec => []OutcomeTrue
  <1>1. Init => ConnInv
    BY InitHolds
  <1>2. ConnInv /\ [Next]_vars => ConnInv'
    BY NextKeeps
  <1>3. ConnInv => OutcomeTrue
    BY DEF ConnInv, CallInv, Justified, OutcomeTrue
  <1> QED
    BY <1>1, <1>2, <1>3, PTL DEF Spec

(* Between operations an adapter that would dispatch holds entries as new  *)
(* as the newest list change it read, and its pin is the last capability   *)
(* seen (observe_notification, relist, revalidate_protocol_pin).           *)
THEOREM DispatchIsFresh == Spec => []FreshUnlessStale
  <1>1. Init => ConnInv
    BY InitHolds
  <1>2. ConnInv /\ [Next]_vars => ConnInv'
    BY NextKeeps
  <1>3. ConnInv => FreshUnlessStale
    <2> SUFFICES ASSUME ConnInv, pc = "idle", ~stale
                 PROVE  AsNew(tools) /\ (pinned # NoPin => lastShape = pinned)
      BY DEF FreshUnlessStale, AsNew
    <2>1. surfaced = <<>> /\ FreshInv /\ pc \in Adapted
      BY DEF ConnInv, FreshInv, Adapted
    <2>2. ~Heard(surfaced)
      BY <2>1 DEF Heard
    <2> QED
      BY <2>1, <2>2 DEF FreshInv
  <1> QED
    BY <1>1, <1>2, <1>3, PTL DEF Spec

=============================================================================
