---------------------------- MODULE UploadsProofs ----------------------------
(***************************************************************************)
(* Proofs about Uploads.tla for any users, connections and uploads, any    *)
(* number of requests and files, with or without bad uploads.              *)
(***************************************************************************)
EXTENDS Uploads, TLAPS

\* Upload w still has files to store, or the row.
Live(w) == up[w] # Idle /\ up[w].pc \in {"files", "finalize"}

\* What is known of the requests in flight, and what TypeOK needs to be
\* inductive: a parked request belongs to an earlier turn of its connection and,
\* if it is about a profile, brings an avatar; an upload has a message ID that was
\* drawn for it or the stamp of its avatar; what is about to be stored without an
\* upload has no stamp that a client has sent.
InFlight ==
  /\ \A c \in Conns : loop[c] # Idle => loop[c].req.conn = c /\ loop[c].req.seq = seq[c]
  /\ \A r \in pending : /\ r.seq <= seq[r.conn]
                        /\ r.kind = "profile" => "avatar" \in r.set
  /\ \A w \in Uploaders : up[w] # Idle =>
       /\ up[w].req.seq <= seq[up[w].req.conn]
       /\ up[w].req.kind = "send" => up[w].id \in 1..issued
       /\ up[w].req.kind = "profile" => up[w].req.val.avatar \in 1..clock
  /\ \A c \in Conns : loop[c] # Idle /\ loop[c].pc = "finalize" /\ loop[c].req.kind = "profile"
       => loop[c].req.val.avatar \in 0..clock

TypeInv == TypeOK /\ InFlight

-----------------------------------------------------------------------------
\* A parked or running request is one of its kind, with the fields of its kind.
LEMMA RequestFields ==
  ASSUME NEW r \in Request
  PROVE  /\ r.conn \in Conns /\ r.seq \in 1..MaxRequests
         /\ r.kind \in {"send", "profile"}
         /\ r.kind = "send" => r.attach \in BOOLEAN
         /\ r.kind = "profile" => /\ r.user \in Users /\ r.set \in SUBSET Fields
                                  /\ r.val \in Value /\ r.read \in Nat
BY DEF Request

\* Every request a client may make is one.
LEMMA RequestsType ==
  ASSUME NEW c \in Conns, NEW n \in 1..MaxRequests, NEW r \in Requests(c, n)
  PROVE  r \in Request /\ r.conn = c /\ r.seq = n
<1>1. CASE r.kind = "send"
  BY <1>1, UploadsAssumption DEF Requests, Request
<1>2. CASE r.kind # "send"
  <2>1. PICK u \in Users, s \in SUBSET Fields, x \in {0, 1}, a \in {0, Wanted} :
          r = [kind |-> "profile", conn |-> c, seq |-> n, user |-> u, set |-> s,
               val |-> [name |-> IF "name" \in s THEN x ELSE 0,
                        text |-> IF "text" \in s THEN x ELSE 0,
                        avatar |-> IF "avatar" \in s THEN a ELSE 0], read |-> 0]
    BY <1>2 DEF Requests
  <2> QED
    BY <2>1 DEF Request, Value, Wanted
<1> QED
  BY <1>1, <1>2

\* The request with its fields filled in.
LEMMA FilledType ==
  ASSUME TypeOK, NEW r \in Request, r.kind = "profile"
  PROVE  /\ Filled(r) \in Request
         /\ Filled(r).conn = r.conn /\ Filled(r).seq = r.seq /\ Filled(r).kind = "profile"
         /\ Filled(r).user = r.user /\ Filled(r).set = r.set
         /\ Filled(r).read = stores[r.user]
         /\ \A f \in {"name", "text", "avatar"} :
              Filled(r).val[f] = IF f \in r.set THEN r.val[f] ELSE profile[r.user][f]
<1>1. r.val \in Value /\ profile[r.user] \in Value /\ stores[r.user] \in Nat
  BY RequestFields DEF TypeOK
<1>2. DOMAIN r.val = {"name", "text", "avatar"}
  BY <1>1 DEF Value
<1> DEFINE v == [f \in DOMAIN r.val |-> IF f \in r.set THEN r.val[f] ELSE profile[r.user][f]]
<1>3. v \in Value
  BY <1>1, <1>2 DEF Value
<1>4. Filled(r) = [r EXCEPT !.val = v, !.read = stores[r.user]]
  BY DEF Filled
<1>5. r \in [kind : {"profile"}, conn : Conns, seq : 1..MaxRequests, user : Users,
             set : SUBSET Fields, val : Value, read : Nat]
  BY DEF Request
<1>6. /\ Filled(r) \in Request /\ Filled(r).val = v /\ Filled(r).read = stores[r.user]
      /\ Filled(r).conn = r.conn /\ Filled(r).seq = r.seq /\ Filled(r).kind = "profile"
      /\ Filled(r).user = r.user /\ Filled(r).set = r.set
  BY <1>1, <1>3, <1>4, <1>5 DEF Request
<1> QED
  BY <1>2, <1>6

\* The request with the time as the stamp of its avatar.
LEMMA StampedType ==
  ASSUME NEW r \in Request, r.kind = "profile", NEW t \in Nat
  PROVE  LET s == [r EXCEPT !.val.avatar = t]
         IN /\ s \in Request
            /\ s.conn = r.conn /\ s.seq = r.seq /\ s.kind = "profile"
            /\ s.user = r.user /\ s.set = r.set /\ s.read = r.read
            /\ s.val.avatar = t /\ s.val.name = r.val.name /\ s.val.text = r.val.text
<1> DEFINE v == [r.val EXCEPT !.avatar = t]
<1>1. r \in [kind : {"profile"}, conn : Conns, seq : 1..MaxRequests, user : Users,
             set : SUBSET Fields, val : Value, read : Nat]
  BY DEF Request
<1>2. v \in Value /\ v.avatar = t /\ v.name = r.val.name /\ v.text = r.val.text
  BY <1>1 DEF Value
<1>3. [r EXCEPT !.val.avatar = t] = [r EXCEPT !.val = v]
  OBVIOUS
<1> QED
  BY <1>1, <1>2, <1>3 DEF Request

\* What the second half of a request without files adds to the messages.
LEMMA FinalizeStores ==
  ASSUME NEW c \in Conns, Finalize(c)
  PROVE  /\ loop[c].pc = "finalize" /\ messages \subseteq messages'
         /\ \A m \in messages' \ messages :
              m = [id |-> issued + 1, conn |-> loop[c].req.conn, seq |-> loop[c].req.seq,
                   files |-> {}] /\ issued' = issued + 1
         /\ \A m, n \in messages' \ messages : m = n
<1>1. CASE messages' = messages
  BY <1>1 DEF Finalize
<1>2. CASE /\ FinalizeMessageSendRequest(loop[c].req, issued + 1, {})
           /\ issued' = issued + 1
  BY <1>2 DEF Finalize, FinalizeMessageSendRequest
<1> QED
  BY <1>1, <1>2 DEF Finalize, FinalizeUserUpdateRequest

\* What the second half of a request with files adds to the messages.
LEMMA FinalizeUploadStores ==
  ASSUME NEW w \in Uploaders, FinalizeUpload(w)
  PROVE  /\ up[w].pc = "finalize" /\ messages \subseteq messages'
         /\ \A m \in messages' \ messages :
              /\ up[w].req.kind = "send"
              /\ m = [id |-> up[w].id, conn |-> up[w].req.conn, seq |-> up[w].req.seq,
                      files |-> 1..up[w].got]
         /\ \A m, n \in messages' \ messages : m = n
<1>1. CASE messages' = messages
  BY <1>1 DEF FinalizeUpload
<1>2. CASE /\ up[w].req.kind = "send"
           /\ FinalizeMessageSendRequest(up[w].req, up[w].id, 1..up[w].got)
  BY <1>2 DEF FinalizeUpload, FinalizeMessageSendRequest
<1> QED
  BY <1>1, <1>2 DEF FinalizeUpload, FinalizeUserUpdateRequest

\* What the steps of a loop and of an upload leave alone.
LEMMA LoopKeeps ==
  ASSUME TypeOK, NEW c \in Conns,
         \/ Process(c) \/ HandleMessageSendRequest(c) \/ HandleUserUpdateRequest(c)
         \/ Finalize(c) \/ Answer(c)
  PROVE  /\ UNCHANGED <<up, clock, store, avatars, dropped>>
         /\ \A d \in Conns \ {c} : loop'[d] = loop[d] /\ seq'[d] = seq[d]
<1>0. /\ \A x : loop' = [loop EXCEPT ![c] = x] => \A d \in Conns \ {c} : loop'[d] = loop[d]
      /\ \A x : seq' = [seq EXCEPT ![c] = x] => \A d \in Conns \ {c} : seq'[d] = seq[d]
  BY DEF TypeOK
<1>1. CASE Process(c)
  BY <1>0, <1>1 DEF Process, disk
<1>2. CASE HandleMessageSendRequest(c)
  BY <1>0, <1>2 DEF HandleMessageSendRequest, PushPendingRequest, GoTo, disk
<1>5. CASE HandleUserUpdateRequest(c)
  <2>1. \E x : loop' = [loop EXCEPT ![c] = x]
    BY <1>5 DEF HandleUserUpdateRequest, PushPendingRequest, GoTo
  <2> QED
    BY <1>0, <1>5, <2>1 DEF HandleUserUpdateRequest, disk
<1>3. CASE Finalize(c)
  BY <1>0, <1>3 DEF Finalize, GoTo, disk
<1>4. CASE Answer(c)
  BY <1>0, <1>4 DEF Answer, disk
<1> QED
  BY <1>1, <1>2, <1>3, <1>4, <1>5

LEMMA UploadKeeps ==
  ASSUME TypeOK, NEW w \in Uploaders,
         \/ HandleGatewayUpload(w) \/ UploadAttachment(w) \/ UploadAttachmentFails(w)
         \/ EndFiles(w) \/ UploadAvatar(w) \/ UploadAvatarFails(w)
         \/ FinalizeUpload(w) \/ AnswerUpload(w)
  PROVE  /\ loop' = loop /\ seq' = seq /\ pending' \subseteq pending
         /\ \A v \in Uploaders \ {w} : up'[v] = up[v]
<1>0. \A x : up' = [up EXCEPT ![w] = x] => \A v \in Uploaders \ {w} : up'[v] = up[v]
  BY DEF TypeOK
<1>1. CASE HandleGatewayUpload(w)
  <2>1. PICK r \in pending : PopPendingRequest(r) /\ (StartSend(w, r) \/ StartAvatar(w, r))
    BY <1>1 DEF HandleGatewayUpload
  <2>2. \E x : up' = [up EXCEPT ![w] = x]
    BY <2>1 DEF StartSend, StartAvatar
  <2> QED
    BY <1>0, <1>1, <2>1, <2>2 DEF HandleGatewayUpload, PopPendingRequest
<1>2. CASE UploadAttachment(w)
  BY <1>0, <1>2 DEF UploadAttachment
<1>3. CASE UploadAttachmentFails(w)
  BY <1>0, <1>3 DEF UploadAttachmentFails, Advance
<1>4. CASE EndFiles(w) \/ UploadAvatar(w)
  BY <1>0, <1>4 DEF EndFiles, UploadAvatar, Advance
<1>5. CASE UploadAvatarFails(w)
  BY <1>0, <1>5 DEF UploadAvatarFails, Advance
<1>6. CASE FinalizeUpload(w)
  BY <1>0, <1>6 DEF FinalizeUpload, Advance
<1>7. CASE AnswerUpload(w)
  BY <1>0, <1>7 DEF AnswerUpload
<1> QED
  BY <1>1, <1>2, <1>3, <1>4, <1>5, <1>6, <1>7

\* The upload of an avatar begins: the stamp is the time, the rest stays.
LEMMA StartAvatarFacts ==
  ASSUME TypeOK, NEW w \in Uploaders, NEW r \in Request, StartAvatar(w, r)
  PROVE  /\ r.kind = "profile" /\ clock' \in Nat /\ clock' # 0 /\ clock <= clock'
         /\ up'[w].req = [r EXCEPT !.val.avatar = clock'] /\ up'[w].pc = "files"
         /\ up'[w].req \in Request
         /\ up'[w].req.conn = r.conn /\ up'[w].req.seq = r.seq /\ up'[w].req.kind = "profile"
         /\ up'[w].req.user = r.user /\ up'[w].req.set = r.set /\ up'[w].req.read = r.read
         /\ up'[w].req.val.avatar = clock'
         /\ up'[w].req.val.name = r.val.name /\ up'[w].req.val.text = r.val.text
<1>1. r.kind = "profile" /\ clock' \in Nat /\ clock' # 0 /\ clock <= clock'
  BY DEF StartAvatar, TypeOK
<1>2. up'[w] = [pc |-> "files", req |-> [r EXCEPT !.val.avatar = clock'], id |-> 0, got |-> 0]
  BY DEF StartAvatar, TypeOK
<1>3. PICK t \in Nat : t = clock'
  BY <1>1
<1>4. PICK s : s = [r EXCEPT !.val.avatar = t]
  OBVIOUS
<1>5. /\ s \in Request
      /\ s.conn = r.conn /\ s.seq = r.seq /\ s.kind = "profile"
      /\ s.user = r.user /\ s.set = r.set /\ s.read = r.read
      /\ s.val.avatar = t /\ s.val.name = r.val.name /\ s.val.text = r.val.text
  BY <1>1, <1>4, StampedType
<1>6. up'[w] = [pc |-> "files", req |-> s, id |-> 0, got |-> 0]
  BY <1>2, <1>3, <1>4
<1>7. up'[w].req = s /\ up'[w].pc = "files"
  BY <1>6
<1> QED
  BY <1>1, <1>3, <1>4, <1>5, <1>7

\* The steps between the start of an upload and its second half.
LEMMA FilesStep ==
  ASSUME TypeOK, NEW w \in Uploaders,
         \/ UploadAttachment(w) \/ UploadAttachmentFails(w) \/ EndFiles(w)
         \/ UploadAvatar(w) \/ UploadAvatarFails(w)
  PROVE  /\ up[w] # Idle /\ up[w] \in Upload /\ up[w].pc = "files"
         /\ up'[w].req = up[w].req /\ up'[w].id = up[w].id
         /\ UNCHANGED <<seq, loop, pending, issued, clock, messages, profile, stores>>
<1>1. up[w].pc = "files"
  BY DEF UploadAttachment, UploadAttachmentFails, EndFiles, UploadAvatar, UploadAvatarFails
<1>2. up[w] # Idle
  BY <1>1 DEF Idle
<1>3. up[w] \in Upload /\ up \in [Uploaders -> {Idle} \cup Upload]
  BY <1>2 DEF TypeOK
<1>4. CASE UploadAttachment(w)
  BY <1>1, <1>2, <1>3, <1>4 DEF UploadAttachment, Upload
<1>5. CASE UploadAttachmentFails(w)
  BY <1>1, <1>2, <1>3, <1>5 DEF UploadAttachmentFails, Advance, Upload
<1>6. CASE EndFiles(w)
  BY <1>1, <1>2, <1>3, <1>6 DEF EndFiles, Advance, Upload
<1>7. CASE UploadAvatar(w)
  BY <1>1, <1>2, <1>3, <1>7 DEF UploadAvatar, Advance, Upload
<1>8. CASE UploadAvatarFails(w)
  BY <1>1, <1>2, <1>3, <1>8 DEF UploadAvatarFails, Advance, Upload
<1> QED
  BY <1>4, <1>5, <1>6, <1>7, <1>8

\* An upload works for one request until it ends.
LEMMA UploadGoesOn ==
  ASSUME TypeOK, NEW w \in Uploaders,
         \/ UploadAttachment(w) \/ UploadAttachmentFails(w) \/ EndFiles(w)
         \/ UploadAvatar(w) \/ UploadAvatarFails(w)
         \/ FinalizeUpload(w) \/ AnswerUpload(w)
  PROVE  up[w] # Idle /\ (up'[w] = Idle \/ up'[w].req = up[w].req)
<1>1. CASE FinalizeUpload(w)
  <2>1. up[w] # Idle
    BY <1>1 DEF FinalizeUpload, Idle
  <2>2. up[w] \in Upload /\ up \in [Uploaders -> {Idle} \cup Upload]
    BY <2>1 DEF TypeOK
  <2>3. up' = [up EXCEPT ![w] = Idle] \/ up' = [up EXCEPT ![w].pc = "answer"]
    BY <1>1 DEF FinalizeUpload, Advance
  <2> QED
    BY <2>1, <2>2, <2>3 DEF Upload
<1>2. CASE AnswerUpload(w)
  BY <1>2 DEF AnswerUpload, Idle, TypeOK
<1> QED
  BY <1>1, <1>2, FilesStep

-----------------------------------------------------------------------------
\* The type invariant holds before the first request.
LEMMA InitType == Init => TypeInv
BY UploadsAssumption DEF Init, TypeInv, TypeOK, InFlight, Value, Wanted

\* The steps of a connection's loop keep the types.
LEMMA LoopType ==
  ASSUME TypeInv, NEW c \in Conns,
         \/ Process(c) \/ HandleMessageSendRequest(c) \/ HandleUserUpdateRequest(c)
         \/ Finalize(c) \/ Answer(c)
  PROVE  TypeInv'
<1> USE UploadsAssumption DEF TypeInv, TypeOK, InFlight, disk
<1>1. CASE Process(c)
  <2>1. PICK r \in Requests(c, seq[c] + 1) :
          loop' = [loop EXCEPT ![c] = [pc |-> "handle", req |-> r]]
    BY <1>1 DEF Process
  <2>2. r \in Request /\ r.conn = c /\ r.seq = seq[c] + 1
    BY <1>1, RequestsType DEF Process
  <2>3. loop'[c] \in Task /\ loop'[c].req = r /\ loop'[c].pc = "handle"
    BY <2>1, <2>2 DEF Task, Idle
  <2>4. \A d \in Conns \ {c} : loop'[d] = loop[d] /\ seq'[d] = seq[d]
    BY <1>1, <2>1 DEF Process
  <2>5. seq' \in [Conns -> 0..MaxRequests] /\ seq'[c] = seq[c] + 1
    BY <1>1 DEF Process
  <2>6. \A r1 \in pending : r1.seq <= seq'[r1.conn]
    BY <2>4, <2>5, RequestFields
  <2>7. \A w \in Uploaders : up[w] # Idle => up[w].req.seq <= seq'[up[w].req.conn]
    BY <2>4, <2>5, RequestFields DEF Upload
  <2>8. UNCHANGED <<up, pending, issued, clock, messages, profile, disk, answers, stores>>
    BY <1>1 DEF Process
  <2>9. loop' \in [Conns -> {Idle} \cup Task]
    BY <2>1, <2>3, <2>4
  <2>10. TypeOK'
    BY <2>5, <2>8, <2>9
  <2>11. InFlight'
    BY <2>2, <2>3, <2>4, <2>5, <2>6, <2>7, <2>8
  <2> QED
    BY <2>10, <2>11
<1>2. CASE HandleMessageSendRequest(c)
  <2>1. loop[c] \in Task /\ loop[c].req \in Request /\ loop[c].req.kind = "send"
    BY <1>2 DEF HandleMessageSendRequest, Task, Idle
  <2>2. pending' \subseteq pending \cup {loop[c].req}
    BY <1>2 DEF HandleMessageSendRequest, PushPendingRequest
  <2>3. /\ loop' \in [Conns -> {Idle} \cup Task]
        /\ loop'[c].req = loop[c].req
        /\ \A d \in Conns \ {c} : loop'[d] = loop[d]
    BY <1>2, <2>1 DEF HandleMessageSendRequest, PushPendingRequest, GoTo, Task
  <2>4. UNCHANGED <<seq, up, issued, clock, messages, profile, disk, answers, stores>>
    BY <1>2 DEF HandleMessageSendRequest
  <2> QED
    BY <2>1, <2>2, <2>3, <2>4 DEF Task, Idle
<1>3. CASE HandleUserUpdateRequest(c)
  <2> DEFINE r == loop[c].req
  <2>1. loop[c] \in Task /\ r \in Request /\ r.kind = "profile" /\ r.conn = c /\ r.seq = seq[c]
    BY <1>3 DEF HandleUserUpdateRequest, Task, Idle
  <2>2. /\ Filled(r) \in Request /\ Filled(r).kind = "profile"
        /\ Filled(r).conn = c /\ Filled(r).seq = seq[c] /\ Filled(r).set = r.set
        /\ ~("avatar" \in r.set /\ r.val.avatar # 0) => Filled(r).val.avatar \in 0..clock
    BY <2>1, FilledType, RequestFields
  <2>3. CASE GoTo(c, "answer") /\ UNCHANGED pending
    <3>1. /\ loop' \in [Conns -> {Idle} \cup Task]
          /\ loop'[c].req = r /\ loop'[c].pc = "answer"
          /\ \A d \in Conns \ {c} : loop'[d] = loop[d]
      BY <2>1, <2>3 DEF GoTo, Task
    <3>2. UNCHANGED <<seq, up, pending, issued, clock, messages, profile, disk, answers, stores>>
      BY <1>3, <2>3 DEF HandleUserUpdateRequest
    <3> QED
      BY <2>1, <3>1, <3>2
  <2>4. CASE "avatar" \in r.set /\ r.val.avatar # 0 /\ PushPendingRequest(c, Filled(r))
    <3>1. /\ loop' \in [Conns -> {Idle} \cup Task]
          /\ loop'[c].req = r /\ loop'[c].pc = "answer"
          /\ \A d \in Conns \ {c} : loop'[d] = loop[d]
      BY <2>1, <2>4 DEF PushPendingRequest, GoTo, Task
    <3>2. pending' = pending \cup {Filled(r)}
      BY <2>4 DEF PushPendingRequest
    <3>3. \A x \in pending' : /\ x \in Request /\ x.seq <= seq[x.conn]
                              /\ x.kind = "profile" => "avatar" \in x.set
      BY <2>2, <2>4, <3>2
    <3>4. UNCHANGED <<seq, up, issued, clock, messages, profile, disk, answers, stores>>
      BY <1>3 DEF HandleUserUpdateRequest
    <3>5. pending' \in SUBSET Request
      BY <3>3
    <3> QED
      BY <2>1, <3>1, <3>3, <3>4, <3>5
  <2>5. CASE /\ ~("avatar" \in r.set /\ r.val.avatar # 0) /\ UNCHANGED pending
             /\ loop' = [loop EXCEPT ![c] = [pc |-> "finalize", req |-> Filled(r)]]
    <3>1. /\ loop' \in [Conns -> {Idle} \cup Task]
          /\ loop'[c].req = Filled(r) /\ loop'[c].pc = "finalize"
          /\ \A d \in Conns \ {c} : loop'[d] = loop[d]
      BY <2>2, <2>5 DEF Task
    <3>2. UNCHANGED <<seq, up, pending, issued, clock, messages, profile, disk, answers, stores>>
      BY <1>3, <2>5 DEF HandleUserUpdateRequest
    <3>3. TypeOK'
      BY <3>1, <3>2
    <3>4. InFlight'
      BY <2>2, <2>5, <3>1, <3>2
    <3> QED
      BY <3>3, <3>4
  <2> QED
    BY <1>3, <2>3, <2>4, <2>5 DEF HandleUserUpdateRequest
<1>4. CASE Finalize(c)
  <2> DEFINE r == loop[c].req
  <2>1. loop[c] \in Task /\ r \in Request /\ r.conn = c
    BY <1>4 DEF Finalize, Task, Idle
  <2>2. /\ loop' \in [Conns -> {Idle} \cup Task]
        /\ loop'[c] = Idle \/ (loop'[c].req = r /\ loop'[c].pc = "answer")
        /\ \A d \in Conns \ {c} : loop'[d] = loop[d]
    BY <1>4, <2>1 DEF Finalize, GoTo, Task
  <2>3. issued' \in {issued, issued + 1}
    BY <1>4 DEF Finalize
  <2>4. /\ profile' \in [Users -> Value] /\ stores' \in [Users -> Nat]
        /\ \A u \in Users : profile'[u].avatar \in 0..clock
    <3>1. CASE UNCHANGED <<profile, stores>>
      BY <3>1
    <3>2. CASE r.kind = "profile" /\ FinalizeUserUpdateRequest(r)
      <4>1. r.val \in Value /\ r.val.avatar \in 0..clock /\ Owner[c] \in Users
        BY <1>4, <2>1, <3>2, RequestFields DEF Finalize, Idle
      <4> QED
        BY <2>1, <3>2, <4>1 DEF FinalizeUserUpdateRequest
    <3> QED
      BY <1>4, <3>1, <3>2 DEF Finalize, FinalizeMessageSendRequest
  <2>5. \A m \in messages' : m.id \in 1..issued' /\ m.files \subseteq 1..MaxFiles
    <3>1. \A m \in messages' \ messages : m.id = issued' /\ issued' = issued + 1 /\ m.files = {}
      BY <1>4, FinalizeStores
    <3>2. issued \in Nat /\ \A m \in messages : m.id \in 1..issued /\ m.files \subseteq 1..MaxFiles
      OBVIOUS
    <3>3. ASSUME NEW m \in messages' PROVE m.id \in 1..issued' /\ m.files \subseteq 1..MaxFiles
      BY <2>3, <3>1, <3>2
    <3> QED
      BY <3>3
  <2>8. UNCHANGED <<seq, up, pending, clock, disk, answers>>
    BY <1>4 DEF Finalize
  <2>6. TypeOK'
    BY <2>2, <2>3, <2>4, <2>5, <2>8
  <2>7. \A d \in Conns : loop'[d] # Idle =>
          /\ loop'[d].req = loop[d].req
          /\ loop[d] # Idle
          /\ loop'[d].pc = "finalize" => loop[d].pc = "finalize"
    BY <2>1, <2>2 DEF Idle, Task
  <2> QED
    BY <2>3, <2>6, <2>7, <2>8
<1>5. CASE Answer(c)
  BY <1>5 DEF Answer
<1> QED
  BY <1>1, <1>2, <1>3, <1>4, <1>5

\* The steps of an upload keep the types.
LEMMA UploadType ==
  ASSUME TypeInv, NEW w \in Uploaders,
         \/ HandleGatewayUpload(w) \/ UploadAttachment(w) \/ UploadAttachmentFails(w)
         \/ EndFiles(w) \/ UploadAvatar(w) \/ UploadAvatarFails(w)
         \/ FinalizeUpload(w) \/ AnswerUpload(w)
  PROVE  TypeInv'
<1> USE UploadsAssumption DEF TypeInv, TypeOK, InFlight, disk
<1>1. CASE HandleGatewayUpload(w)
  <2>1. PICK r \in pending : PopPendingRequest(r) /\ (StartSend(w, r) \/ StartAvatar(w, r))
    BY <1>1 DEF HandleGatewayUpload
  <2>2. r \in Request /\ pending' \subseteq pending
    BY <2>1 DEF PopPendingRequest
  <2>3. CASE StartSend(w, r)
    <3>1. up'[w] = [pc |-> "files", req |-> r, id |-> issued + 1, got |-> 0]
      BY <2>3 DEF StartSend
    <3>2. up'[w] \in Upload
      BY <2>2, <3>1 DEF Upload
    <3>3. up' \in [Uploaders -> {Idle} \cup Upload] /\ \A v \in Uploaders \ {w} : up'[v] = up[v]
      BY <2>3, <3>1, <3>2 DEF StartSend
    <3> QED
      BY <1>1, <2>2, <2>3, <3>1, <3>3 DEF HandleGatewayUpload, StartSend
  <2>4. CASE StartAvatar(w, r)
    <3> DEFINE s == [r EXCEPT !.val.avatar = clock']
    <3>1. clock' \in Nat /\ clock <= clock' /\ clock' \in 1..clock'
      BY <2>4 DEF StartAvatar
    <3>3. /\ s \in Request /\ s.seq = r.seq /\ s.conn = r.conn /\ s.kind = "profile"
          /\ s.val.avatar = clock'
      BY <2>2, <2>4, <3>1, StampedType DEF StartAvatar
    <3>4. up'[w] = [pc |-> "files", req |-> s, id |-> 0, got |-> 0]
      BY <2>4 DEF StartAvatar
    <3>5. up'[w] \in Upload
      BY <3>3, <3>4 DEF Upload
    <3>6. up' \in [Uploaders -> {Idle} \cup Upload] /\ \A v \in Uploaders \ {w} : up'[v] = up[v]
      BY <2>4, <3>4, <3>5 DEF StartAvatar
    <3>7. TypeOK'
      BY <1>1, <2>2, <2>4, <3>1, <3>6 DEF HandleGatewayUpload, StartAvatar
    <3>8. UNCHANGED <<seq, loop, issued>>
      BY <1>1, <2>4 DEF HandleGatewayUpload, StartAvatar
    <3>9. up'[w].req.seq <= seq'[up'[w].req.conn] /\ up'[w].req.kind = "profile"
          /\ up'[w].req.val.avatar \in 1..clock'
      <4>1. r.seq <= seq[r.conn]
        OBVIOUS
      <4>2. up'[w].req = s
        BY <3>4
      <4> HIDE DEF s
      <4> QED
        BY ONLY <3>1, <3>3, <3>8, <4>1, <4>2
    <3>10. \A t \in Int : t <= clock => t <= clock'
      BY <3>1
    <3>11. InFlight'
      BY <2>2, <3>6, <3>8, <3>9, <3>10
    <3> QED
      BY <3>7, <3>11
  <2> QED
    BY <2>1, <2>3, <2>4
<1>2. CASE UploadAttachment(w)
  <2>1. up[w] \in Upload /\ up[w].req.kind = "send" /\ up[w].got + 1 \in 0..MaxFiles
    BY <1>2 DEF UploadAttachment, Upload, Idle
  <2>2. /\ up' \in [Uploaders -> {Idle} \cup Upload]
        /\ up'[w].req = up[w].req /\ up'[w].id = up[w].id
        /\ \A v \in Uploaders \ {w} : up'[v] = up[v]
    BY <1>2, <2>1 DEF UploadAttachment, Upload
  <2>3. \A f \in store' : f[1] \in 1..issued
    BY <1>2, <2>1 DEF UploadAttachment, Idle
  <2>4. up[w] # Idle
    BY <1>2 DEF UploadAttachment, Idle
  <2>5. UNCHANGED <<seq, loop, pending, issued, clock, messages, profile, avatars, dropped, answers, stores>>
    BY <1>2 DEF UploadAttachment
  <2> QED
    BY <2>2, <2>3, <2>4, <2>5
<1>3. ASSUME up[w] \in Upload, NEW pc \in {"finalize", "answer"}, Advance(w, pc)
      PROVE  /\ up' \in [Uploaders -> {Idle} \cup Upload]
             /\ up'[w].req = up[w].req /\ up'[w].id = up[w].id
             /\ \A v \in Uploaders \ {w} : up'[v] = up[v]
  BY <1>3 DEF Advance, Upload
<1>4. up[w] # Idle => up[w] \in Upload /\ up[w].req \in Request
  BY DEF Upload
<1>5. CASE UploadAttachmentFails(w) \/ EndFiles(w)
  <2>1. up[w] # Idle /\ store' \subseteq store
    BY <1>5 DEF UploadAttachmentFails, EndFiles, Idle
  <2>2. Advance(w, "answer") \/ Advance(w, "finalize")
    BY <1>5 DEF UploadAttachmentFails, EndFiles
  <2>3. UNCHANGED <<seq, loop, pending, issued, clock, messages, profile, avatars, dropped, answers, stores>>
    BY <1>5 DEF UploadAttachmentFails, EndFiles
  <2>4. /\ up' \in [Uploaders -> {Idle} \cup Upload]
        /\ up'[w].req = up[w].req /\ up'[w].id = up[w].id
        /\ \A v \in Uploaders \ {w} : up'[v] = up[v]
    BY <1>3, <1>4, <2>1, <2>2
  <2> QED
    BY <2>1, <2>3, <2>4
<1>6. CASE UploadAvatar(w) \/ UploadAvatarFails(w)
  <2>6. up[w] # Idle /\ up[w].req.kind = "profile"
    BY ONLY <1>6 DEF UploadAvatar, UploadAvatarFails, Idle
  <2>1. up[w] # Idle /\ up[w].req.user \in Users
    BY <1>4, <2>6, RequestFields
  <2>7. <<up[w].req.user, up[w].req.val.avatar>> \in Users \X (1..clock)
    BY <2>1, <2>6
  <2>8. /\ avatars \subseteq Users \X (1..clock) /\ dropped \subseteq Users \X (1..clock)
        /\ clock' = clock
    BY <1>6 DEF UploadAvatar, UploadAvatarFails
  <2>2. /\ avatars' \subseteq Users \X (1..clock) /\ dropped' \subseteq Users \X (1..clock)
    <3>1. CASE UploadAvatar(w)
      BY <2>7, <2>8, <3>1 DEF UploadAvatar
    <3>2. CASE UploadAvatarFails(w)
      BY <2>7, <2>8, <3>2 DEF UploadAvatarFails
    <3> QED
      BY <1>6, <3>1, <3>2
  <2>3. Advance(w, "finalize")
    BY <1>6 DEF UploadAvatar, UploadAvatarFails
  <2>4. UNCHANGED <<seq, loop, pending, issued, clock, messages, profile, store, stores>>
    BY <1>6 DEF UploadAvatar, UploadAvatarFails
  <2>5. /\ up' \in [Uploaders -> {Idle} \cup Upload]
        /\ up'[w].req = up[w].req /\ up'[w].id = up[w].id
        /\ \A v \in Uploaders \ {w} : up'[v] = up[v]
    BY <1>3, <1>4, <2>1, <2>3
  <2> QED
    BY <1>4, <2>1, <2>2, <2>4, <2>5
<1>7. CASE FinalizeUpload(w)
  <2>1. up[w] # Idle
    BY <1>7 DEF FinalizeUpload, Idle
  <2>2. /\ up' \in [Uploaders -> {Idle} \cup Upload]
        /\ up'[w] = Idle \/ (up'[w].req = up[w].req /\ up'[w].id = up[w].id)
        /\ \A v \in Uploaders \ {w} : up'[v] = up[v]
    BY <1>3, <1>4, <1>7, <2>1 DEF FinalizeUpload
  <2>3. \A m \in messages' : m.id \in 1..issued /\ m.files \subseteq 1..MaxFiles
    <3>1. up[w].got \in 0..MaxFiles /\ (up[w].req.kind = "send" => up[w].id \in 1..issued)
      BY <1>4, <2>1 DEF Upload
    <3>2. \A m \in messages' \ messages :
            up[w].req.kind = "send" /\ m.id = up[w].id /\ m.files = 1..up[w].got
      BY <1>7, FinalizeUploadStores
    <3>3. \A m \in messages : m.id \in 1..issued /\ m.files \subseteq 1..MaxFiles
      OBVIOUS
    <3>4. 1..up[w].got \subseteq 1..MaxFiles
      BY <3>1
    <3> QED
      BY <3>1, <3>2, <3>3, <3>4
  <2>4. /\ profile' \in [Users -> Value] /\ stores' \in [Users -> Nat]
        /\ \A u \in Users : profile'[u].avatar \in 0..clock
    <3>1. CASE UNCHANGED <<profile, stores>>
      BY <3>1
    <3>2. CASE up[w].req.kind = "profile" /\ FinalizeUserUpdateRequest(up[w].req)
      <4>1. /\ up[w].req.val \in Value /\ up[w].req.val.avatar \in 0..clock
            /\ Owner[up[w].req.conn] \in Users
        BY <1>4, <2>1, <3>2, RequestFields
      <4> QED
        BY <3>2, <4>1 DEF FinalizeUserUpdateRequest
    <3> QED
      BY <1>7, <3>1, <3>2 DEF FinalizeUpload, FinalizeMessageSendRequest
  <2>5. UNCHANGED <<seq, loop, pending, issued, clock, disk, answers>>
    BY <1>7 DEF FinalizeUpload
  <2> QED
    BY <1>4, <2>1, <2>2, <2>3, <2>4, <2>5
<1>8. CASE AnswerUpload(w)
  BY <1>8 DEF AnswerUpload
<1> QED
  BY <1>1, <1>2, <1>5, <1>6, <1>7, <1>8

\* Every step preserves the type invariant.
LEMMA NextType == TypeInv /\ [Next]_vars => TypeInv'
<1> SUFFICES ASSUME TypeInv, [Next]_vars
             PROVE  TypeInv'
  OBVIOUS
<1>1. CASE Crash
  BY <1>1 DEF Crash, TypeInv, TypeOK, InFlight, disk
<1>2. CASE UNCHANGED vars
  BY <1>2 DEF vars, disk, TypeInv, TypeOK, InFlight
<1> QED
  BY <1>1, <1>2, LoopType, UploadType DEF Next, Done

\* Every variable keeps its type.  Above all, no profile ever holds a stamp that a
\* client has sent, which HandleUserUpdateRequest parks and only
\* HandleUserUpdateUpload replaces, or one of the future.
THEOREM UploadsTypeCorrect == Spec => []TypeOK
<1>1. TypeInv => TypeOK
  BY DEF TypeInv
<1> QED
  BY <1>1, InitType, NextType, PTL DEF Spec

-----------------------------------------------------------------------------
(* One message per slot.                                                   *)

SameSlot(r, s) == r.conn = s.conn /\ r.seq = s.seq

\* The request of connection c's loop has stored or parked nothing yet.
Fresh(c) == loop[c] # Idle /\ loop[c].pc \in {"handle", "finalize"}

\* A request is in one place only: with its loop, parked, with an upload, or stored.
\* SlotsOnce alone is not inductive: it says nothing of what is on its way.
SlotInv ==
  /\ \A r, s \in pending : SameSlot(r, s) => r = s
  /\ \A v, w \in Uploaders :
       Live(v) /\ Live(w) /\ SameSlot(up[v].req, up[w].req) => v = w
  /\ \A r \in pending, w \in Uploaders : Live(w) => ~SameSlot(r, up[w].req)
  /\ \A m \in messages :
       /\ m.conn \in Conns /\ m.seq \in Nat /\ m.seq <= seq[m.conn]
       /\ \A r \in pending : ~SameSlot(m, r)
       /\ \A w \in Uploaders : Live(w) => ~SameSlot(m, up[w].req)
  /\ \A c \in Conns : Fresh(c) =>
       /\ \A r \in pending : ~SameSlot(loop[c].req, r)
       /\ \A w \in Uploaders : Live(w) => ~SameSlot(loop[c].req, up[w].req)
       /\ \A m \in messages : ~SameSlot(loop[c].req, m)
  /\ SlotsOnce

\* The loop's part: a new request has a number of its own.
LEMMA LoopSlot ==
  ASSUME TypeInv, SlotInv, NEW c \in Conns,
         \/ Process(c) \/ HandleMessageSendRequest(c) \/ HandleUserUpdateRequest(c)
         \/ Finalize(c) \/ Answer(c)
  PROVE  SlotInv'
<1> USE DEF SlotInv, SlotsOnce, SameSlot, Fresh, Live
<1>1. /\ up' = up
      /\ \A d \in Conns \ {c} : loop'[d] = loop[d] /\ seq'[d] = seq[d]
  BY LoopKeeps DEF TypeInv
<1>7. \A d \in Conns : loop[d] # Idle => loop[d].req.conn = d /\ loop[d] \in Task
  BY DEF TypeInv, TypeOK, InFlight
<1>2. CASE Process(c)
  <2>1. PICK r \in Requests(c, seq[c] + 1) :
          loop' = [loop EXCEPT ![c] = [pc |-> "handle", req |-> r]]
    BY <1>2 DEF Process
  <2>2. r.conn = c /\ r.seq = seq[c] + 1 /\ loop'[c].req = r /\ seq'[c] = seq[c] + 1
    <3>1. seq[c] + 1 \in 1..MaxRequests
      BY <1>2, UploadsAssumption DEF Process, TypeInv, TypeOK
    <3>2. r.conn = c /\ r.seq = seq[c] + 1
      BY <3>1, RequestsType
    <3> QED
      BY <1>2, <2>1, <3>2 DEF Process, TypeInv, TypeOK
  <2>3. seq[c] \in Nat
    BY DEF TypeInv, TypeOK
  <2>4. \A x \in pending : x.seq \in Nat /\ (x.conn = c => x.seq <= seq[c])
    BY RequestFields DEF TypeInv, TypeOK, InFlight
  <2>5. \A w \in Uploaders : up[w] # Idle =>
          up[w].req.seq \in Nat /\ (up[w].req.conn = c => up[w].req.seq <= seq[c])
    BY RequestFields DEF TypeInv, TypeOK, InFlight, Upload
  <2>6. \A m \in messages : m.seq <= seq'[m.conn]
    BY <1>1, <2>2, <2>3
  <2> QED
    BY <1>1, <1>2, <2>2, <2>3, <2>4, <2>5, <2>6 DEF Process
<1>3. CASE HandleMessageSendRequest(c)
  <2>1. loop[c] \in Task /\ Fresh(c)
    BY <1>3 DEF HandleMessageSendRequest, Idle, TypeInv, TypeOK
  <2>2. /\ loop'[c].req = loop[c].req
        /\ \/ pending' = pending
           \/ pending' = pending \cup {loop[c].req} /\ loop'[c].pc = "answer"
    BY <1>3, <2>1 DEF HandleMessageSendRequest, PushPendingRequest, GoTo, Task, TypeInv, TypeOK
  <2>3. UNCHANGED <<seq, messages>>
    BY <1>3 DEF HandleMessageSendRequest
  <2> QED
    BY <1>1, <1>7, <2>1, <2>2, <2>3
<1>4. CASE HandleUserUpdateRequest(c)
  <2> DEFINE r == loop[c].req
  <2>1. loop[c] \in Task /\ Fresh(c) /\ SameSlot(Filled(r), r)
    <3>1. Fresh(c) /\ r.kind = "profile"
      BY <1>4 DEF HandleUserUpdateRequest, Idle
    <3>2. loop[c] \in Task /\ r \in Request /\ TypeOK
      BY <3>1 DEF Task, TypeInv, TypeOK
    <3>3. Filled(r).conn = r.conn /\ Filled(r).seq = r.seq
      BY ONLY <3>1, <3>2, FilledType
    <3> QED
      BY <3>1, <3>2, <3>3
  <2>2. \/ /\ pending' = pending
           /\ loop'[c].pc = "answer" \/ loop'[c].req = Filled(r)
        \/ pending' = pending \cup {Filled(r)} /\ loop'[c].pc = "answer"
    BY <1>4, <2>1 DEF HandleUserUpdateRequest, PushPendingRequest, GoTo, Task, TypeInv, TypeOK
  <2>3. UNCHANGED <<seq, messages>>
    BY <1>4 DEF HandleUserUpdateRequest
  <2> QED
    BY <1>1, <1>7, <2>1, <2>2, <2>3
<1>5. CASE Finalize(c)
  <2>1. /\ loop[c] \in Task /\ Fresh(c)
        /\ loop[c].req.conn = c /\ loop[c].req.seq = seq[c] /\ seq[c] \in Nat
    BY <1>5 DEF Finalize, Idle, TypeInv, TypeOK, InFlight
  <2>2. loop'[c] = Idle \/ loop'[c].pc = "answer"
    BY <1>5, <2>1 DEF Finalize, GoTo, Task, TypeInv, TypeOK
  <2>3. \A m \in messages' \ messages : SameSlot(m, loop[c].req)
    BY <1>5, FinalizeStores DEF SameSlot
  <2>4. \A m, n \in messages' \ messages : m = n
    BY <1>5, FinalizeStores
  <2>5. \A m \in messages' : m \in messages \/ m \in messages' \ messages
    OBVIOUS
  <2>6. UNCHANGED <<seq, pending>>
    BY <1>5 DEF Finalize
  <2> QED
    BY <1>1, <1>7, <2>1, <2>2, <2>3, <2>4, <2>5, <2>6
<1>6. CASE Answer(c)
  BY <1>1, <1>6 DEF Answer, TypeInv, TypeOK
<1> QED
  BY <1>2, <1>3, <1>4, <1>5, <1>6

\* The uploads' part: whoever takes a parked request out of its slot is the only one
\* to finish it.
LEMMA UploadSlot ==
  ASSUME TypeInv, SlotInv, NEW w \in Uploaders,
         \/ HandleGatewayUpload(w) \/ UploadAttachment(w) \/ UploadAttachmentFails(w)
         \/ EndFiles(w) \/ UploadAvatar(w) \/ UploadAvatarFails(w)
         \/ FinalizeUpload(w) \/ AnswerUpload(w)
  PROVE  SlotInv'
<1> USE DEF SlotInv, SlotsOnce, SameSlot, Fresh, Live
<1>1. /\ UNCHANGED <<seq, loop>>
      /\ \A v \in Uploaders \ {w} : up'[v] = up[v]
  BY UploadKeeps DEF TypeInv
<1>2. CASE HandleGatewayUpload(w)
  <2>1. PICK r \in pending : PopPendingRequest(r) /\ (StartSend(w, r) \/ StartAvatar(w, r))
    BY <1>2 DEF HandleGatewayUpload
  <2>2. pending' = pending \ {r} /\ up[w] = Idle /\ UNCHANGED messages
    BY <1>2, <2>1 DEF PopPendingRequest, HandleGatewayUpload
  <2>3. SameSlot(up'[w].req, r)
    <3>1. CASE StartSend(w, r)
      BY <3>1 DEF StartSend, TypeInv, TypeOK
    <3>2. CASE StartAvatar(w, r)
      <4>1. TypeOK /\ r \in Request
        BY DEF TypeInv, TypeOK
      <4>2. up'[w].req.conn = r.conn /\ up'[w].req.seq = r.seq
        BY ONLY <3>2, <4>1, StartAvatarFacts
      <4> QED
        BY <4>2
    <3> QED
      BY <2>1, <3>1, <3>2
  <2> QED
    BY <1>1, <2>1, <2>2, <2>3
<1>3. CASE \/ UploadAttachment(w) \/ UploadAttachmentFails(w) \/ EndFiles(w)
           \/ UploadAvatar(w) \/ UploadAvatarFails(w)
  <2>1. /\ Live(w) /\ up'[w].req = up[w].req
        /\ UNCHANGED <<pending, messages>>
    BY <1>3, FilesStep DEF TypeInv
  <2> QED
    BY <1>1, <2>1
<1>4. CASE FinalizeUpload(w)
  <2>1. /\ Live(w) /\ UNCHANGED pending
        /\ up[w].req.conn \in Conns /\ up[w].req.seq \in Nat
        /\ up[w].req.seq <= seq[up[w].req.conn]
    <3>1. up[w] # Idle /\ Live(w) /\ UNCHANGED pending
      BY <1>4 DEF FinalizeUpload, Idle
    <3>2. up[w].req \in Request /\ up[w].req.seq <= seq[up[w].req.conn]
      BY <3>1 DEF Upload, TypeInv, TypeOK, InFlight
    <3> QED
      BY <3>1, <3>2, RequestFields
  <2>2. ~Live(w)'
    BY <1>4, <2>1 DEF FinalizeUpload, Advance, Upload, TypeInv, TypeOK
  <2>3. \A m \in messages' \ messages : SameSlot(m, up[w].req)
    BY <1>4, FinalizeUploadStores DEF SameSlot
  <2>4. \A m, n \in messages' \ messages : m = n
    BY <1>4, FinalizeUploadStores
  <2>5. \A m \in messages' : m \in messages \/ m \in messages' \ messages
    OBVIOUS
  <2> QED
    BY <1>1, <2>1, <2>2, <2>3, <2>4, <2>5
<1>5. CASE AnswerUpload(w)
  BY <1>1, <1>5 DEF AnswerUpload, TypeInv, TypeOK
<1> QED
  BY <1>2, <1>3, <1>4, <1>5

\* A parked request becomes one message at most, from however many goroutines and
\* however often its slot is uploaded to, and whatever the process dies in
\* (PopPendingRequest).
THEOREM UploadsSlotsOnce == Spec => []SlotsOnce
<1> DEFINE I == TypeInv /\ SlotInv
<1>1. Init => I
  BY InitType DEF Init, SlotInv, SlotsOnce, Fresh, Live
<1>2. I /\ [Next]_vars => I'
  <2> SUFFICES ASSUME TypeInv, SlotInv, [Next]_vars
               PROVE  SlotInv'
    BY NextType
  <2>1. CASE Crash
    BY <2>1 DEF Crash, SlotInv, SlotsOnce, SameSlot, Fresh, Live
  <2>2. CASE UNCHANGED vars
    BY <2>2 DEF vars, SlotInv, SlotsOnce, SameSlot, Fresh, Live
  <2> QED
    BY <2>1, <2>2, LoopSlot, UploadSlot DEF Next, Done
<1>3. I => SlotsOnce
  BY DEF SlotInv
<1> QED
  BY <1>1, <1>2, <1>3, PTL DEF Spec

-----------------------------------------------------------------------------
(* Rows and files.                                                         *)

\* The files of a message that is being uploaded are there, and its ID is that of no
\* other: a failing upload takes files of its own message only.
FileInv ==
  /\ \A v, w \in Uploaders :
       /\ Live(v) /\ up[v].req.kind = "send"
       /\ Live(w) /\ up[w].req.kind = "send"
       /\ up[v].id = up[w].id
       => v = w
  /\ \A w \in Uploaders : Live(w) /\ up[w].req.kind = "send" =>
       /\ \A m \in messages : m.id # up[w].id
       /\ \A i \in 1..up[w].got : <<up[w].id, i>> \in store
  /\ AttachmentsStored

\* The loop stores messages without files, under a new ID.
LEMMA LoopFiles ==
  ASSUME TypeInv, FileInv, NEW c \in Conns,
         \/ Process(c) \/ HandleMessageSendRequest(c) \/ HandleUserUpdateRequest(c)
         \/ Finalize(c) \/ Answer(c)
  PROVE  FileInv'
<1>1. UNCHANGED <<up, store>>
  BY LoopKeeps DEF TypeInv
<1>2. \A m \in messages' : m \in messages \/ (m.id = issued + 1 /\ m.files = {})
  <2>1. CASE Process(c) \/ HandleMessageSendRequest(c)
    BY <2>1 DEF Process, HandleMessageSendRequest
  <2>2. CASE HandleUserUpdateRequest(c) \/ Answer(c)
    BY <2>2 DEF HandleUserUpdateRequest, Answer
  <2>3. CASE Finalize(c)
    BY <2>3, FinalizeStores
  <2> QED
    BY <2>1, <2>2, <2>3
<1> USE DEF FileInv, AttachmentsStored, Live
<1>3. \A w \in Uploaders : Live(w) /\ up[w].req.kind = "send" => up[w].id # issued + 1
  BY DEF TypeInv, TypeOK, InFlight
<1> QED
  BY <1>1, <1>2, <1>3

\* An upload stores the row after the files, and a failure takes files before there
\* is a row.
LEMMA UploadFiles ==
  ASSUME TypeInv, FileInv, NEW w \in Uploaders,
         \/ HandleGatewayUpload(w) \/ UploadAttachment(w) \/ UploadAttachmentFails(w)
         \/ EndFiles(w) \/ UploadAvatar(w) \/ UploadAvatarFails(w)
         \/ FinalizeUpload(w) \/ AnswerUpload(w)
  PROVE  FileInv'
<1> USE DEF FileInv, AttachmentsStored, Live
<1>1. \A v \in Uploaders \ {w} : up'[v] = up[v]
  BY UploadKeeps DEF TypeInv
<1>2. /\ \A v \in Uploaders : up[v] # Idle => up[v] \in Upload
      /\ \A v \in Uploaders : Live(v) /\ up[v].req.kind = "send" => up[v].id \in 1..issued
      /\ \A m \in messages : m.id \in 1..issued
      /\ issued \in Nat
  BY DEF TypeInv, TypeOK, InFlight
<1>3. CASE HandleGatewayUpload(w)
  <2>1. PICK r \in pending : StartSend(w, r) \/ StartAvatar(w, r)
    BY <1>3 DEF HandleGatewayUpload
  <2>2. UNCHANGED <<messages, store>>
    BY <1>3 DEF HandleGatewayUpload, disk
  <2>3. CASE StartSend(w, r)
    <3>1. up'[w].id = issued + 1 /\ up'[w].got = 0
      BY <2>3 DEF StartSend, TypeInv, TypeOK
    <3> QED
      BY <1>1, <1>2, <2>2, <3>1
  <2>4. CASE StartAvatar(w, r)
    <3>1. /\ r \in Request /\ clock' \in Nat /\ r.kind = "profile"
          /\ up'[w].req = [r EXCEPT !.val.avatar = clock']
      BY <2>4 DEF StartAvatar, TypeInv, TypeOK
    <3>2. up'[w].req.kind = "profile"
      BY <3>1, StampedType
    <3> QED
      BY <1>1, <1>2, <2>2, <3>2
  <2> QED
    BY <2>1, <2>3, <2>4
<1>4. CASE UploadAttachment(w)
  <2>1. up[w] \in Upload /\ Live(w) /\ up[w].req.kind = "send"
    BY <1>2, <1>4 DEF UploadAttachment, Idle
  <2>2. /\ up'[w].id = up[w].id /\ up'[w].got = up[w].got + 1
        /\ store' = store \cup {<<up[w].id, up[w].got + 1>>}
        /\ UNCHANGED messages
    BY <1>4, <2>1 DEF UploadAttachment, Upload, TypeInv, TypeOK
  <2>3. \A i \in 1..up'[w].got : i \in 1..up[w].got \/ i = up[w].got + 1
    BY <2>1, <2>2 DEF Upload
  <2> QED
    BY <1>1, <2>1, <2>2, <2>3
<1>5. CASE UploadAttachmentFails(w)
  <2>1. /\ Live(w) /\ up[w].req.kind = "send" /\ up'[w].pc = "answer"
        /\ {f \in store : f[1] # up[w].id} \subseteq store'
        /\ UNCHANGED messages
    BY <1>2, <1>5 DEF UploadAttachmentFails, Advance, Idle, Upload, TypeInv, TypeOK
  <2>2. \A m \in messages : m.id # up[w].id
    BY <2>1
  <2>3. \A m \in messages : \A i \in m.files : <<m.id, i>> \in store'
    BY <2>1, <2>2
  <2>4. \A v \in Uploaders \ {w} : Live(v) /\ up[v].req.kind = "send" =>
          \A i \in 1..up[v].got : <<up[v].id, i>> \in store'
    BY <2>1
  <2> QED
    BY <1>1, <2>1, <2>3, <2>4
<1>6. CASE EndFiles(w) \/ UploadAvatar(w) \/ UploadAvatarFails(w)
  <2>1. /\ Live(w) /\ up'[w].req = up[w].req /\ up'[w].id = up[w].id /\ up'[w].got = up[w].got
        /\ UNCHANGED <<messages, store>>
    <3>1. Live(w) /\ up'[w].req = up[w].req /\ up'[w].id = up[w].id /\ UNCHANGED messages
      BY <1>6, FilesStep DEF TypeInv
    <3>2. Advance(w, "finalize") /\ UNCHANGED store
      BY <1>6 DEF EndFiles, UploadAvatar, UploadAvatarFails, disk
    <3>3. up'[w].got = up[w].got
      BY <1>2, <3>1, <3>2 DEF Advance, Upload, TypeInv, TypeOK
    <3> QED
      BY <3>1, <3>2, <3>3
  <2> QED
    BY <1>1, <2>1
<1>7. CASE FinalizeUpload(w)
  <2>1. Live(w) /\ UNCHANGED store
    BY <1>2, <1>7 DEF FinalizeUpload, Idle, disk
  <2>2. ~Live(w)'
    BY <1>2, <1>7, <2>1 DEF FinalizeUpload, Advance, Upload, TypeInv, TypeOK
  <2>3. \A m \in messages' :
          m \in messages \/ (/\ up[w].req.kind = "send"
                             /\ m.id = up[w].id /\ m.files = 1..up[w].got)
    BY <1>7, FinalizeUploadStores
  <2>4. \A m \in messages' : \A i \in m.files : <<m.id, i>> \in store'
    BY <2>1, <2>3
  <2>5. \A v \in Uploaders : Live(v)' => v # w /\ Live(v) /\ up'[v] = up[v]
    BY <1>1, <2>2
  <2>6. \A v \in Uploaders : Live(v)' /\ up'[v].req.kind = "send" =>
          \A m \in messages' : m.id # up'[v].id
    BY <2>1, <2>3, <2>5
  <2>7. \A v \in Uploaders : Live(v)' /\ up'[v].req.kind = "send" =>
          \A i \in 1..up'[v].got : <<up'[v].id, i>> \in store'
    BY <2>1, <2>5
  <2>8. \A v, x \in Uploaders :
          /\ Live(v)' /\ up'[v].req.kind = "send"
          /\ Live(x)' /\ up'[x].req.kind = "send"
          /\ up'[v].id = up'[x].id
          => v = x
    BY <2>5
  <2> QED
    BY <2>4, <2>6, <2>7, <2>8
<1>8. CASE AnswerUpload(w)
  BY <1>1, <1>8 DEF AnswerUpload, disk, TypeInv, TypeOK
<1> QED
  BY <1>3, <1>4, <1>5, <1>6, <1>7, <1>8

\* Every attachment a stored message names has its file, although files and rows
\* are stored apart, a failing file removes the others of its upload, and the
\* process may die between any two of these steps (WriteFile,
\* HandleMessageSendUpload).
THEOREM UploadsAttachmentsStored == Spec => []AttachmentsStored
<1> DEFINE I == TypeInv /\ FileInv
<1>1. Init => I
  BY InitType DEF Init, FileInv, AttachmentsStored, Live
<1>2. I /\ [Next]_vars => I'
  <2> SUFFICES ASSUME TypeInv, FileInv, [Next]_vars
               PROVE  FileInv'
    BY NextType
  <2>1. CASE Crash
    BY <2>1 DEF Crash, FileInv, AttachmentsStored, Live, disk
  <2>2. CASE UNCHANGED vars
    BY <2>2 DEF vars, disk, FileInv, AttachmentsStored, Live
  <2> QED
    BY <2>1, <2>2, LoopFiles, UploadFiles DEF Next, Done
<1>3. I => AttachmentsStored
  BY DEF FileInv
<1> QED
  BY <1>1, <1>2, <1>3, PTL DEF Spec

-----------------------------------------------------------------------------
(* Answers.                                                                *)

\* An answer carries the number of the request it answers, or of a later one if an
\* upload gives it: the loop takes no other request before it has answered one, and
\* the numbers of a connection only grow (Write).
THEOREM UploadsAnswersInStep == Spec => []AnswersInStep
<1> DEFINE I == TypeInv /\ AnswersInStep
<1>1. Init => I
  BY InitType DEF Init, AnswersInStep
<1>2. I /\ [Next]_vars => I'
  <2> SUFFICES ASSUME TypeInv, AnswersInStep, [Next]_vars
               PROVE  AnswersInStep'
    BY NextType
  <2> USE DEF AnswersInStep
  <2>1. ASSUME NEW c \in Conns, Answer(c)
        PROVE  AnswersInStep'
    <3>1. loop[c] # Idle
      BY <2>1 DEF Answer, Idle
    <3>2. loop[c].req.conn = c /\ loop[c].req.seq = seq[c]
      BY <3>1 DEF TypeInv, InFlight
    <3>3. \A a \in answers' : a \in answers \/ (a.by = "loop" /\ a.seq = a.to)
      BY <2>1, <3>2 DEF Answer, Write
    <3> QED
      BY <3>3
  <2>2. ASSUME NEW w \in Uploaders, UploadAvatarFails(w) \/ AnswerUpload(w)
        PROVE  AnswersInStep'
    <3>1. up[w] # Idle
      BY <2>2 DEF UploadAvatarFails, AnswerUpload, Idle
    <3>2. up[w].req.seq <= seq[up[w].req.conn]
      BY <3>1 DEF TypeInv, InFlight
    <3>3. \A a \in answers' : a \in answers \/ (a.by = "upload" /\ a.to <= a.seq)
      BY <2>2, <3>2 DEF UploadAvatarFails, AnswerUpload, Write
    <3>4. up[w].req.seq \in Int /\ seq[up[w].req.conn] \in Int
      BY <3>1, RequestFields, UploadsAssumption DEF TypeInv, TypeOK, Upload
    <3>5. \A a \in answers' : a \in answers \/ (a.by = "upload" /\ a.seq >= a.to)
      BY <2>2, <3>2, <3>4 DEF UploadAvatarFails, AnswerUpload, Write
    <3> QED
      BY <3>5
  <2>3. CASE UNCHANGED answers
    BY <2>3
  <2> QED
    BY <2>1, <2>2, <2>3
       DEF Next, Process, HandleMessageSendRequest, HandleUserUpdateRequest, Finalize,
           HandleGatewayUpload, UploadAttachment, UploadAttachmentFails, EndFiles,
           UploadAvatar, FinalizeUpload, Crash, Done, vars
<1>3. I => AnswersInStep
  OBVIOUS
<1> QED
  BY <1>1, <1>2, <1>3, PTL DEF Spec

-----------------------------------------------------------------------------
(* Profiles.                                                               *)

Profile(r) == r.kind = "profile"

\* Connection c's loop is about to store a profile.
Storer(c) == loop[c] # Idle /\ loop[c].pc = "finalize" /\ Profile(loop[c].req)

\* Upload w is working for one.
Bringer(w) == up[w] # Idle /\ Profile(up[w].req)

\* The fields a request does not set hold what it has read, unless the profile has
\* been stored since.
Untouched(r) ==
  /\ r.read <= stores[r.user]
  /\ r.read = stores[r.user] =>
       \A f \in {"name", "text", "avatar"} \ r.set : r.val[f] = profile[r.user][f]

ReadInv ==
  /\ \A c \in Conns : Storer(c) => Untouched(loop[c].req)
  /\ \A r \in pending : Profile(r) => Untouched(r)
  /\ \A w \in Uploaders : Bringer(w) => "avatar" \in up[w].req.set /\ Untouched(up[w].req)

\* Storing a profile leaves what has been read of another as it is, and counts as a
\* store for whatever has been read of the same.
LEMMA StoreUntouched ==
  ASSUME TypeInv, NEW r \in Request, Profile(r), Untouched(r),
         UNCHANGED <<profile, stores>> \/ \E s \in Request : FinalizeUserUpdateRequest(s)
  PROVE  Untouched(r)'
<1>1. r.user \in Users /\ r.read \in Nat
  BY RequestFields DEF Profile
<1>2. profile \in [Users -> Value] /\ stores \in [Users -> Nat]
  BY DEF TypeInv, TypeOK
<1>3. CASE UNCHANGED <<profile, stores>>
  BY <1>3 DEF Untouched
<1>4. ASSUME NEW s \in Request, FinalizeUserUpdateRequest(s)
      PROVE  Untouched(r)'
  <2>1. CASE r.user = Owner[s.conn]
    BY <1>1, <1>2, <1>4, <2>1 DEF Untouched, FinalizeUserUpdateRequest
  <2>2. CASE r.user # Owner[s.conn]
    BY <1>1, <1>2, <1>4, <2>2 DEF Untouched, FinalizeUserUpdateRequest
  <2> QED
    BY <2>1, <2>2
<1> QED
  BY <1>3, <1>4

\* What a request reads when its fields are filled in is what is stored.
LEMMA FilledUntouched ==
  ASSUME TypeInv, NEW r \in Request, Profile(r)
  PROVE  /\ Filled(r) \in Request /\ Profile(Filled(r))
         /\ Filled(r).set = r.set /\ Untouched(Filled(r))
<1>1. r.user \in Users /\ stores[r.user] \in Nat
  BY RequestFields DEF Profile, TypeInv, TypeOK
<1> QED
  BY <1>1, FilledType DEF Profile, Untouched, TypeInv

\* The loop's part.
LEMMA LoopReads ==
  ASSUME TypeInv, ReadInv, NEW c \in Conns,
         \/ Process(c) \/ HandleMessageSendRequest(c) \/ HandleUserUpdateRequest(c)
         \/ Finalize(c) \/ Answer(c)
  PROVE  ReadInv'
<1> USE DEF ReadInv, Storer, Bringer
<1>1. /\ up' = up
      /\ \A d \in Conns \ {c} : loop'[d] = loop[d]
  BY DEF Process, HandleMessageSendRequest, HandleUserUpdateRequest, Finalize, Answer,
         GoTo, PushPendingRequest, TypeInv, TypeOK
<1>2. /\ \A d \in Conns : loop[d] # Idle => loop[d] \in Task /\ loop[d].req \in Request
      /\ \A w \in Uploaders : up[w] # Idle => up[w].req \in Request
      /\ pending \subseteq Request
  BY DEF TypeInv, TypeOK, Task, Upload
<1>3. /\ UNCHANGED <<profile, stores>>
         \/ \E s \in Request : FinalizeUserUpdateRequest(s)
  BY <1>2 DEF Process, HandleMessageSendRequest, HandleUserUpdateRequest, Finalize, Answer,
         FinalizeMessageSendRequest, Idle
<1>4. \A r \in Request : Profile(r) /\ Untouched(r) => Untouched(r)'
  BY <1>3, StoreUntouched
<1>5. /\ \A d \in Conns \ {c} : Storer(d) => Untouched(loop[d].req)'
      /\ \A r \in pending : Profile(r) => Untouched(r)'
      /\ \A w \in Uploaders : Bringer(w) => "avatar" \in up[w].req.set /\ Untouched(up[w].req)'
  BY <1>2, <1>4, <1>1
<1>6. /\ Storer(c)' => Untouched(loop[c].req)'
      /\ \A r \in pending' \ pending : Profile(r) => Untouched(r)'
  <2>1. CASE HandleUserUpdateRequest(c)
    <3> DEFINE r == loop[c].req
    <3>1. loop[c] # Idle /\ r \in Request /\ Profile(r)
      BY <1>2, <2>1 DEF HandleUserUpdateRequest, Idle, Profile
    <3>2. PICK q \in Request : q = Filled(r)
      BY <3>1, FilledUntouched
    <3>3. Untouched(q)'
      BY <1>4, <3>1, <3>2, FilledUntouched
    <3>4. /\ pending' \subseteq pending \cup {q}
          /\ loop'[c].pc = "answer" \/ loop'[c].req = q
      BY <1>2, <2>1, <3>1, <3>2
         DEF HandleUserUpdateRequest, PushPendingRequest, GoTo, Task, TypeInv, TypeOK
    <3> QED
      BY <3>3, <3>4
  <2>2. CASE HandleMessageSendRequest(c)
    <3>1. loop[c] # Idle /\ loop[c] \in Task /\ loop[c].req.kind = "send"
      BY <1>2, <2>2 DEF HandleMessageSendRequest, Idle
    <3>2. loop'[c].req.kind = "send" /\ pending' \subseteq pending \cup {loop[c].req}
      BY <2>2, <3>1
         DEF HandleMessageSendRequest, PushPendingRequest, GoTo, Task, TypeInv, TypeOK
    <3> QED
      BY <3>1, <3>2 DEF Profile
  <2>3. CASE Process(c) \/ Finalize(c) \/ Answer(c)
    <3>1. pending' = pending /\ (loop'[c] = Idle \/ loop'[c].pc \in {"handle", "answer"})
      BY <1>2, <2>3 DEF Process, Finalize, Answer, GoTo, Task, Idle, TypeInv, TypeOK
    <3> QED
      BY <3>1
  <2> QED
    BY <2>1, <2>2, <2>3
<1> QED
  BY <1>1, <1>5, <1>6

\* The uploads' part: the stamp they give is for the field they are there for.
LEMMA UploadReads ==
  ASSUME TypeInv, ReadInv, NEW w \in Uploaders,
         \/ HandleGatewayUpload(w) \/ UploadAttachment(w) \/ UploadAttachmentFails(w)
         \/ EndFiles(w) \/ UploadAvatar(w) \/ UploadAvatarFails(w)
         \/ FinalizeUpload(w) \/ AnswerUpload(w)
  PROVE  ReadInv'
<1> USE DEF ReadInv, Storer, Bringer
<1>1. /\ loop' = loop /\ pending' \subseteq pending
      /\ \A v \in Uploaders \ {w} : up'[v] = up[v]
  BY UploadKeeps DEF TypeInv
<1>2. /\ \A d \in Conns : loop[d] # Idle => loop[d].req \in Request
      /\ \A v \in Uploaders : up[v] # Idle => up[v] \in Upload /\ up[v].req \in Request
      /\ pending \subseteq Request
  BY DEF TypeInv, TypeOK, Task, Upload
<1>3. /\ UNCHANGED <<profile, stores>>
         \/ \E s \in Request : FinalizeUserUpdateRequest(s)
  <2>1. CASE HandleGatewayUpload(w) \/ AnswerUpload(w)
    BY <2>1 DEF HandleGatewayUpload, AnswerUpload
  <2>2. CASE FinalizeUpload(w)
    <3>1. up[w] # Idle
      BY <2>2 DEF FinalizeUpload, Idle
    <3>2. UNCHANGED <<profile, stores>> \/ FinalizeUserUpdateRequest(up[w].req)
      BY <2>2 DEF FinalizeUpload, FinalizeMessageSendRequest
    <3> QED
      BY <1>2, <3>1, <3>2
  <2> QED
    BY <2>1, <2>2, FilesStep DEF TypeInv
<1>4. \A r \in Request : Profile(r) /\ Untouched(r) => Untouched(r)'
  BY <1>3, StoreUntouched
<1>5. /\ \A d \in Conns : Storer(d) => Untouched(loop[d].req)'
      /\ \A r \in pending : Profile(r) => Untouched(r)'
      /\ \A v \in Uploaders \ {w} :
           Bringer(v) => "avatar" \in up[v].req.set /\ Untouched(up[v].req)'
  BY <1>1, <1>2, <1>4
<1>6. Bringer(w)' => "avatar" \in up'[w].req.set /\ Untouched(up[w].req)'
  <2>1. CASE HandleGatewayUpload(w)
    <3>1. PICK r \in pending : StartSend(w, r) \/ StartAvatar(w, r)
      BY <2>1 DEF HandleGatewayUpload
    <3>2. CASE StartSend(w, r)
      BY <3>2 DEF StartSend, Profile, TypeInv, TypeOK
    <3>3. CASE StartAvatar(w, r)
      <4>1. /\ r \in Request /\ Profile(r)
            /\ "avatar" \in r.set /\ Untouched(r)
            /\ UNCHANGED <<profile, stores>>
        BY <2>1, <3>3 DEF StartAvatar, HandleGatewayUpload, Profile, TypeInv, TypeOK, InFlight
      <4>4. /\ up'[w].req.user = r.user /\ up'[w].req.set = r.set /\ up'[w].req.read = r.read
            /\ up'[w].req.val.name = r.val.name /\ up'[w].req.val.text = r.val.text
        BY <3>3, <4>1, StartAvatarFacts DEF TypeInv
      <4> QED
        BY <4>1, <4>4 DEF Untouched
    <3> QED
      BY <3>1, <3>2, <3>3
  <2>2. CASE \/ UploadAttachment(w) \/ UploadAttachmentFails(w) \/ EndFiles(w)
             \/ UploadAvatar(w) \/ UploadAvatarFails(w) \/ FinalizeUpload(w) \/ AnswerUpload(w)
    <3>1. up[w] # Idle /\ (up'[w] = Idle \/ up'[w].req = up[w].req)
      BY <2>2, UploadGoesOn DEF TypeInv
    <3>2. CASE Bringer(w)
      <4>1. PICK q \in Request : q = up[w].req
        BY <1>2, <3>1
      <4> QED
        BY <1>4, <3>1, <3>2, <4>1
    <3> QED
      BY <3>1, <3>2
  <2> QED
    BY <2>1, <2>2
<1> QED
  BY <1>1, <1>5, <1>6

\* The invariant holds in every state.
LEMMA ReadInvariant == Spec => [](TypeInv /\ ReadInv)
<1>1. Init => TypeInv /\ ReadInv
  BY InitType DEF Init, ReadInv, Storer, Bringer
<1>2. TypeInv /\ ReadInv /\ [Next]_vars => (TypeInv /\ ReadInv)'
  <2> SUFFICES ASSUME TypeInv, ReadInv, [Next]_vars
               PROVE  ReadInv'
    BY NextType
  <2>1. CASE Crash
    BY <2>1 DEF Crash, ReadInv, Storer, Bringer
  <2>2. CASE UNCHANGED vars
    BY <2>2 DEF vars, ReadInv, Storer, Bringer, Untouched
  <2> QED
    BY <2>1, <2>2, LoopReads, UploadReads DEF Next, Done
<1> QED
  BY <1>1, <1>2, PTL DEF Spec

\* Storing one's own profile keeps the fields the request has not set, as long as no
\* other request has stored the profile between its reading and its storing
\* (HandleUserUpdateRequest, FinalizeUserUpdateRequest).  The invariant goes back
\* to the reading, which for an avatar may be many requests ago.
THEOREM UploadsUnsetFieldsKept == Spec => UnsetFieldsKept
<1> DEFINE Kept(r) ==
      r.user = Owner[r.conn] /\ stores[r.user] = r.read /\ profile' # profile =>
        \A f \in {"name", "text", "avatar"} \ r.set : profile'[r.user][f] = profile[r.user][f]
<1>1. ASSUME TypeInv, ReadInv, Next, profile' # profile, NEW r \in Storing
      PROVE  Kept(r)
  <2>1. ASSUME NEW s \in Request, FinalizeUserUpdateRequest(s), Untouched(s), r = s
        PROVE  Kept(r)
    <3>1. Owner[s.conn] \in Users
      BY UploadsAssumption, RequestFields
    <3>2. profile' = [profile EXCEPT ![Owner[s.conn]] = s.val]
      BY <2>1 DEF FinalizeUserUpdateRequest
    <3> QED
      BY <2>1, <3>1, <3>2 DEF Untouched, TypeInv, TypeOK
  <2>2. r.kind = "profile" /\ Stored(r)
    BY DEF Storing
  <2>3. ASSUME NEW c \in Conns, Finalize(c)
        PROVE  Kept(r)
    <3>1. Storer(c) /\ FinalizeUserUpdateRequest(loop[c].req)
      BY <1>1, <2>3 DEF Finalize, FinalizeMessageSendRequest, Storer, Profile, Idle
    <3>2. \A d \in Conns : loop[d].pc = "finalize" /\ loop'[d] = Idle => d = c
      BY <1>1, <2>3 DEF Finalize, GoTo, Idle, TypeInv, TypeOK
    <3>3. \A w \in Uploaders : up[w].pc = "finalize" => up'[w] # Idle
      BY <2>3 DEF Finalize, Idle
    <3>4. r = loop[c].req
      BY <2>2, <3>2, <3>3 DEF Stored
    <3>5. loop[c].req \in Request /\ Untouched(loop[c].req)
      BY <1>1, <3>1 DEF TypeInv, TypeOK, Task, ReadInv, Storer
    <3> QED
      BY <2>1, <3>1, <3>4, <3>5
  <2>4. ASSUME NEW w \in Uploaders, FinalizeUpload(w)
        PROVE  Kept(r)
    <3>1. Bringer(w) /\ FinalizeUserUpdateRequest(up[w].req)
      BY <1>1, <2>4 DEF FinalizeUpload, FinalizeMessageSendRequest, Bringer, Profile, Idle
    <3>2. \A v \in Uploaders : up[v].pc = "finalize" /\ up'[v] = Idle => v = w
      BY <1>1, <2>4 DEF FinalizeUpload, Advance, Idle, TypeInv, TypeOK
    <3>3. \A c \in Conns : loop[c].pc = "finalize" => loop'[c] # Idle
      BY <2>4 DEF FinalizeUpload, Idle
    <3>4. r = up[w].req
      BY <2>2, <3>2, <3>3 DEF Stored
    <3>5. up[w].req \in Request /\ Untouched(up[w].req)
      BY <1>1, <3>1 DEF TypeInv, TypeOK, Upload, ReadInv, Bringer
    <3> QED
      BY <2>1, <3>1, <3>4, <3>5
  <2> QED
    BY <1>1, <2>3, <2>4
       DEF Next, Process, HandleMessageSendRequest, HandleUserUpdateRequest, Answer,
           HandleGatewayUpload, UploadAttachment, UploadAttachmentFails, EndFiles,
           UploadAvatar, UploadAvatarFails, AnswerUpload, Crash, Done, vars
<1>2. TypeInv /\ ReadInv /\ [Next]_vars => [\A r \in Storing : Kept(r)]_vars
  <2> SUFFICES ASSUME TypeInv, ReadInv, Next, NEW r \in Storing
               PROVE  Kept(r)
    OBVIOUS
  <2>1. CASE profile' = profile
    BY <2>1
  <2>2. CASE profile' # profile
    BY <1>1, <2>2
  <2> QED
    BY <2>1, <2>2
<1> HIDE DEF Kept
<1>3. Spec => [][\A r \in Storing : Kept(r)]_vars
  BY <1>2, ReadInvariant, PTL DEF Spec
<1> QED
  BY <1>3 DEF UnsetFieldsKept, Kept

-----------------------------------------------------------------------------
(* Avatars.                                                                *)

\* The stamp v of a profile of user u, if any, names a file or a failed upload.
Named(u, v) == v.avatar # 0 => <<u, v.avatar>> \in avatars \cup dropped

\* Users ask for their own profiles, and what they have read or brought names an
\* avatar before the row does.
AvatarInv ==
  /\ \A c \in Conns : Storer(c) =>
       loop[c].req.user = Owner[c] /\ Named(Owner[c], loop[c].req.val)
  /\ \A r \in pending : Profile(r) => r.user = Owner[r.conn]
  /\ \A w \in Uploaders : Bringer(w) =>
       /\ up[w].req.user = Owner[up[w].req.conn]
       /\ up[w].pc = "finalize" => Named(up[w].req.user, up[w].req.val)
  /\ AvatarsServed

\* Stamps go on naming what they named: a failing upload that takes a file is
\* remembered.
LEMMA NamedStays ==
  ASSUME Next
  PROVE  avatars \cup dropped \subseteq avatars' \cup dropped'
<1>1. CASE \E c \in Conns : \/ Process(c) \/ HandleMessageSendRequest(c)
                            \/ HandleUserUpdateRequest(c) \/ Finalize(c) \/ Answer(c)
  BY <1>1 DEF Process, HandleMessageSendRequest, HandleUserUpdateRequest, Answer, Finalize, disk
<1>2. CASE \E w \in Uploaders : \/ HandleGatewayUpload(w) \/ UploadAttachment(w)
                                \/ UploadAttachmentFails(w) \/ EndFiles(w)
  BY <1>2 DEF HandleGatewayUpload, UploadAttachment, UploadAttachmentFails, EndFiles, disk
<1>3. CASE \E w \in Uploaders : UploadAvatar(w) \/ UploadAvatarFails(w)
  BY <1>3 DEF UploadAvatar, UploadAvatarFails
<1>4. CASE \E w \in Uploaders : FinalizeUpload(w) \/ AnswerUpload(w)
  BY <1>4 DEF FinalizeUpload, AnswerUpload, disk
<1>5. CASE Crash \/ Done
  BY <1>5 DEF Crash, Done, vars, disk
<1> QED
  BY <1>1, <1>2, <1>3, <1>4, <1>5 DEF Next

\* The loop's part: an own profile read for an update names an avatar.
LEMMA LoopAvatars ==
  ASSUME Managers = {}, TypeInv, AvatarInv, NEW c \in Conns,
         \/ Process(c) \/ HandleMessageSendRequest(c) \/ HandleUserUpdateRequest(c)
         \/ Finalize(c) \/ Answer(c)
  PROVE  AvatarInv'
<1> USE DEF AvatarInv, Storer, Bringer, Named, AvatarsServed
<1>1. /\ UNCHANGED <<up, avatars, dropped>>
      /\ \A d \in Conns \ {c} : loop'[d] = loop[d]
  BY LoopKeeps DEF TypeInv
<1>2. \A d \in Conns : loop[d] # Idle =>
        loop[d] \in Task /\ loop[d].req \in Request /\ loop[d].req.conn = d
  BY DEF TypeInv, TypeOK, InFlight, Task
<1>3. CASE HandleUserUpdateRequest(c)
  <2> DEFINE r == loop[c].req
  <2>1. /\ loop[c] # Idle /\ loop[c] \in Task /\ r \in Request /\ r.kind = "profile" /\ r.conn = c
        /\ profile' = profile
    <3>1. loop[c] # Idle /\ r.kind = "profile" /\ profile' = profile
      BY ONLY <1>3 DEF HandleUserUpdateRequest, Idle
    <3> QED
      BY <1>2, <3>1
  <2>2. CASE GoTo(c, "answer") /\ UNCHANGED pending
    <3>1. loop'[c].pc = "answer"
      BY <2>1, <2>2 DEF GoTo, Task, TypeInv, TypeOK
    <3> QED
      BY <1>1, <2>1, <2>2, <3>1
  <2>3. ASSUME Permitted(r)
        PROVE  Filled(r).user = Owner[c] /\ Filled(r).conn = c
    BY <2>1, <2>3, FilledType DEF Permitted, TypeInv
  <2>4. CASE Permitted(r) /\ PushPendingRequest(c, Filled(r))
    <3>1. loop'[c].pc = "answer" /\ pending' = pending \cup {Filled(r)}
      BY <2>1, <2>4 DEF PushPendingRequest, GoTo, Task, TypeInv, TypeOK
    <3> QED
      BY <1>1, <2>1, <2>3, <2>4, <3>1
  <2>5. CASE /\ Permitted(r) /\ ~("avatar" \in r.set /\ r.val.avatar # 0) /\ UNCHANGED pending
             /\ loop' = [loop EXCEPT ![c] = [pc |-> "finalize", req |-> Filled(r)]]
    <3>1. loop'[c].req = Filled(r)
      BY <2>5 DEF TypeInv, TypeOK
    <3>2. Owner[c] \in Users
      BY UploadsAssumption
    <3>3. Named(Owner[c], Filled(r).val)
      BY <2>1, <2>3, <2>5, <3>2, FilledType DEF TypeInv
    <3>4. \A d \in Conns \ {c} : Storer(d)' => Storer(d) /\ loop'[d] = loop[d]
      BY <1>1
    <3>5. loop'[c].req.user = Owner[c] /\ Named(Owner[c], loop'[c].req.val)
      BY <2>3, <2>5, <3>1, <3>3
    <3>6. UNCHANGED <<up, pending, avatars, dropped, profile>>
      BY <1>1, <2>1, <2>5
    <3> QED
      BY <3>4, <3>5, <3>6
  <2> QED
    BY <1>3, <2>2, <2>4, <2>5 DEF HandleUserUpdateRequest
<1>4. CASE HandleMessageSendRequest(c)
  <2>1. loop[c] # Idle /\ loop[c].req.kind = "send" /\ loop[c] \in Task
    BY <1>2, <1>4 DEF HandleMessageSendRequest, Idle
  <2>2. loop'[c].req.kind = "send" /\ pending' \subseteq pending \cup {loop[c].req}
    BY <1>4, <2>1 DEF HandleMessageSendRequest, PushPendingRequest, GoTo, Task, TypeInv, TypeOK
  <2>3. profile' = profile
    BY <1>4 DEF HandleMessageSendRequest
  <2> QED
    BY <1>1, <2>1, <2>2, <2>3 DEF Profile
<1>5. CASE Process(c) \/ Finalize(c) \/ Answer(c)
  <2>1. pending' = pending /\ (loop'[c] = Idle \/ loop'[c].pc \in {"handle", "answer"})
    <3>1. CASE Process(c)
      BY <3>1 DEF Process, TypeInv, TypeOK
    <3>2. CASE Finalize(c)
      <4>1. loop[c] # Idle /\ pending' = pending
        BY <3>2 DEF Finalize, Idle
      <4>2. loop[c] \in Task /\ loop \in [Conns -> {Idle} \cup Task]
        BY <1>2, <4>1 DEF TypeInv, TypeOK
      <4>3. loop' = [loop EXCEPT ![c] = Idle] \/ loop' = [loop EXCEPT ![c].pc = "answer"]
        BY <3>2 DEF Finalize, GoTo
      <4> QED
        BY <4>1, <4>2, <4>3 DEF Task
    <3>3. CASE Answer(c)
      BY <3>3 DEF Answer, TypeInv, TypeOK
    <3> QED
      BY <1>5, <3>1, <3>2, <3>3
  <2>2. AvatarsServed'
    <3>1. CASE UNCHANGED profile
      BY <1>1, <3>1
    <3>2. CASE Storer(c) /\ FinalizeUserUpdateRequest(loop[c].req)
      <4>1. Owner[c] \in Users /\ loop[c].req.conn = c
        BY <1>2, <3>2, UploadsAssumption
      <4>2. profile' = [profile EXCEPT ![Owner[c]] = loop[c].req.val]
        BY <3>2, <4>1 DEF FinalizeUserUpdateRequest
      <4>3. profile \in [Users -> Value]
        BY DEF TypeInv, TypeOK
      <4> QED
        BY <1>1, <3>2, <4>1, <4>2, <4>3
    <3> QED
      <4>1. CASE Process(c) \/ Answer(c)
        BY <3>1, <4>1 DEF Process, Answer
      <4>2. CASE Finalize(c)
        <5>1. \/ UNCHANGED profile
              \/ loop[c].req.kind = "profile" /\ FinalizeUserUpdateRequest(loop[c].req)
          BY <4>2 DEF Finalize, FinalizeMessageSendRequest
        <5>2. loop[c] # Idle /\ loop[c].pc = "finalize"
          BY <4>2 DEF Finalize, Idle
        <5> QED
          BY <3>1, <3>2, <5>1, <5>2 DEF Profile
      <4> QED
        BY <1>5, <4>1, <4>2
  <2> QED
    BY <1>1, <2>1, <2>2
<1> QED
  BY <1>3, <1>4, <1>5

\* The uploads' part: the file comes before the row.
LEMMA UploadAvatars ==
  ASSUME Managers = {}, TypeInv, AvatarInv, NEW w \in Uploaders,
         \/ HandleGatewayUpload(w) \/ UploadAttachment(w) \/ UploadAttachmentFails(w)
         \/ EndFiles(w) \/ UploadAvatar(w) \/ UploadAvatarFails(w)
         \/ FinalizeUpload(w) \/ AnswerUpload(w)
  PROVE  AvatarInv'
<1> USE DEF AvatarInv, Storer, Bringer, Named, AvatarsServed
<1>1. /\ loop' = loop /\ pending' \subseteq pending
      /\ \A v \in Uploaders \ {w} : up'[v] = up[v]
  BY UploadKeeps DEF TypeInv
<1>2. avatars \cup dropped \subseteq avatars' \cup dropped'
  BY NamedStays DEF Next
<1>3. \A v \in Uploaders : up[v] # Idle => up[v] \in Upload /\ up[v].req \in Request
  BY DEF TypeInv, TypeOK, Upload
<1>4. CASE HandleGatewayUpload(w)
  <2>1. PICK r \in pending : StartSend(w, r) \/ StartAvatar(w, r)
    BY <1>4 DEF HandleGatewayUpload
  <2>2. UNCHANGED <<profile, avatars, dropped>>
    BY <1>4 DEF HandleGatewayUpload, disk
  <2>3. CASE StartSend(w, r)
    BY <1>1, <2>2, <2>3 DEF StartSend, Profile, TypeInv, TypeOK
  <2>4. CASE StartAvatar(w, r)
    <3>1. r \in Request
      BY DEF TypeInv, TypeOK
    <3>2. /\ r.kind = "profile" /\ up'[w].pc = "files"
          /\ up'[w].req.user = r.user /\ up'[w].req.conn = r.conn
      BY <2>4, <3>1, StartAvatarFacts DEF TypeInv
    <3>3. r.user = Owner[r.conn]
      BY <3>2 DEF Profile
    <3> QED
      BY <1>1, <2>2, <3>2, <3>3
  <2> QED
    BY <2>1, <2>3, <2>4
<1>5. CASE UploadAttachment(w) \/ UploadAttachmentFails(w) \/ EndFiles(w) \/ AnswerUpload(w)
  <2>1. /\ up[w] # Idle /\ UNCHANGED <<profile, avatars, dropped>>
        /\ \/ up'[w] = Idle
           \/ up'[w].req = up[w].req /\ up[w].req.kind = "send"
    <3>1. CASE AnswerUpload(w)
      BY <3>1 DEF AnswerUpload, Idle, disk, TypeInv, TypeOK
    <3>2. CASE UploadAttachment(w) \/ UploadAttachmentFails(w) \/ EndFiles(w)
      <4>1. up[w].req.kind = "send" /\ UNCHANGED <<avatars, dropped>>
        BY <3>2 DEF UploadAttachment, UploadAttachmentFails, EndFiles, disk
      <4> QED
        BY <3>2, <4>1, FilesStep DEF TypeInv
    <3> QED
      BY <1>5, <3>1, <3>2
  <2> QED
    BY <1>1, <2>1 DEF Profile
<1>6. CASE UploadAvatar(w) \/ UploadAvatarFails(w)
  <2>1. /\ Bringer(w) /\ up'[w].req = up[w].req /\ UNCHANGED profile
        /\ <<up[w].req.user, up[w].req.val.avatar>> \in avatars' \cup dropped'
    <3>1. /\ up[w] # Idle /\ up'[w].req = up[w].req /\ UNCHANGED profile
      BY <1>6, FilesStep DEF TypeInv
    <3>2. /\ up[w].req.kind = "profile"
          /\ <<up[w].req.user, up[w].req.val.avatar>> \in avatars' \cup dropped'
      BY <1>6 DEF UploadAvatar, UploadAvatarFails
    <3> QED
      BY <3>1, <3>2 DEF Profile
  <2> QED
    BY <1>1, <1>2, <2>1
<1>7. CASE FinalizeUpload(w)
  <2>1. /\ up[w] # Idle /\ up[w].pc = "finalize" /\ UNCHANGED <<avatars, dropped>>
        /\ up'[w] = Idle \/ (up'[w].req = up[w].req /\ up'[w].pc = "answer")
    BY <1>3, <1>7 DEF FinalizeUpload, Advance, Idle, Upload, disk, TypeInv, TypeOK
  <2>2. AvatarsServed'
    <3>1. CASE UNCHANGED profile
      BY <2>1, <3>1
    <3>2. CASE Bringer(w) /\ FinalizeUserUpdateRequest(up[w].req)
      <4>1. /\ Owner[up[w].req.conn] \in Users
            /\ profile' = [profile EXCEPT ![Owner[up[w].req.conn]] = up[w].req.val]
            /\ profile \in [Users -> Value]
        BY <1>3, <3>2, UploadsAssumption, RequestFields
           DEF FinalizeUserUpdateRequest, TypeInv, TypeOK
      <4> QED
        BY <2>1, <3>2, <4>1
    <3> QED
      BY <1>7, <2>1, <3>1, <3>2 DEF FinalizeUpload, FinalizeMessageSendRequest, Profile
  <2> QED
    BY <1>1, <2>1, <2>2
<1> QED
  BY <1>4, <1>5, <1>6, <1>7

\* Where nobody manages the profiles of others, every stamp in a profile names an
\* avatar that was stored, or one whose upload failed or had no file part: files come before rows, and a
\* stale stamp still names a file (HandleUserUpdateUpload, HandleUserUpdateRequest).
THEOREM UploadsAvatarsServed ==
  ASSUME Managers = {}
  PROVE  Spec => []AvatarsServed
<1> DEFINE I == TypeInv /\ AvatarInv
<1>1. Init => I
  BY InitType DEF Init, AvatarInv, AvatarsServed, Storer, Bringer
<1>2. I /\ [Next]_vars => I'
  <2> SUFFICES ASSUME TypeInv, AvatarInv, [Next]_vars
               PROVE  AvatarInv'
    BY NextType
  <2>1. CASE Crash
    BY <2>1 DEF Crash, AvatarInv, AvatarsServed, Storer, Bringer, disk
  <2>2. CASE UNCHANGED vars
    BY <2>2 DEF vars, disk, AvatarInv, AvatarsServed, Storer, Bringer, Named
  <2> QED
    BY <2>1, <2>2, LoopAvatars, UploadAvatars DEF Next, Done
<1>3. I => AvatarsServed
  BY DEF AvatarInv
<1> QED
  BY <1>1, <1>2, <1>3, PTL DEF Spec
=============================================================================
