------------------------------- MODULE Uploads -------------------------------
(***************************************************************************)
(* Requests in two halves (chat/handlers.go, chat/gateway.go, and the      *)
(* files of storage/files.go): sending a message and changing a profile.   *)
(*                                                                         *)
(* A request that comes with files is parked under a slot, and an HTTP     *)
(* upload for that slot finishes it, on another goroutine and any time     *)
(* later, while the connection's loop goes on with other requests.  A      *)
(* profile is read in one transaction and stored in another even without   *)
(* files.  The files and the rows that name them are stored separately,    *)
(* and the process may die in between.                                     *)
(*                                                                         *)
(* A request is named by its connection and sequence number, which name    *)
(* its slot as well.  A profile has a name, a text (all that SetProfile    *)
(* covers) and the time stamp of its avatar, 0 for the default value.      *)
(* Connections stay registered (see Gateway.tla), so an upload finds the   *)
(* session of its slot; one for a slot that is not pending changes         *)
(* nothing.  Permissions do not change here: see IndexSync.tla.            *)
(***************************************************************************)
EXTENDS Integers, FiniteSets

CONSTANTS Users, Conns, Uploaders,
          Owner,        \* the user a connection has authenticated as
          Changers,     \* users with PermissionChangeProfile
          Managers,     \* ... PermissionManageProfiles
          Admins,       \* ... PermissionAdministrator
          Kinds,        \* requests clients make, of "send" and "profile"
          Fields,       \* profile fields they set
          MaxRequests,  \* bound: requests per connection
          MaxFiles,     \* bound: files per upload
          BadUploads    \* whether an upload may be cut short or unusable

ASSUME UploadsAssumption ==
  /\ Owner \in [Conns -> Users]
  /\ Changers \cup Managers \cup Admins \subseteq Users
  /\ Kinds \subseteq {"send", "profile"}
  /\ Fields \subseteq {"name", "text", "avatar"}
  /\ MaxRequests \in Nat /\ MaxFiles \in Nat /\ BadUploads \in BOOLEAN

VARIABLES
  seq,       \* GatewayConnection.seq
  loop,      \* what Process is doing for a connection
  up,        \* what an HTTP upload is doing
  pending,   \* Gateway.pending: the parked requests
  issued,    \* message IDs handed out by snowflake.New
  clock,     \* time.Now().UnixMilli()
  messages,  \* rows of messages, with the attachments of each
  store,     \* files under attachments/: <<message ID, number>>
  profile,   \* rows of users
  avatars,   \* files under avatars/: <<user, time stamp>>
  answers,   \* history: the answers written, and with which sequence number
  stores,    \* history: how often each profile was stored
  dropped    \* history: avatars <<user, time stamp>> whose upload failed

disk == <<store, avatars, dropped>>
vars == <<seq, loop, up, pending, issued, clock, messages, profile, disk, answers, stores>>

Wanted == -1     \* the client's own AvatarModified, other than 0

Value == [name : {0, 1}, text : {0, 1}, avatar : {Wanted} \cup Nat]

Request ==
  [kind : {"send"}, conn : Conns, seq : 1..MaxRequests, attach : BOOLEAN]
  \cup [kind : {"profile"}, conn : Conns, seq : 1..MaxRequests, user : Users,
        set : SUBSET Fields, val : Value, read : Nat]

Idle == [pc |-> "idle"]

Task == [pc : {"handle", "finalize", "answer"}, req : Request]
Upload == [pc : {"files", "finalize", "answer"}, req : Request, id : Nat, got : 0..MaxFiles]

\* The last conjunct but two says that the stamp of a stored avatar is the
\* server's, never one the client has sent.
TypeOK ==
  /\ seq \in [Conns -> 0..MaxRequests]
  /\ loop \in [Conns -> {Idle} \cup Task]
  /\ up \in [Uploaders -> {Idle} \cup Upload]
  /\ pending \subseteq Request
  /\ issued \in Nat /\ clock \in Nat
  /\ \A m \in messages : m.id \in 1..issued /\ m.files \subseteq 1..MaxFiles
  /\ \A f \in store : f[1] \in 1..issued
  /\ profile \in [Users -> Value]
  /\ \A u \in Users : profile[u].avatar \in 0..clock
  /\ avatars \subseteq Users \X (1..clock)
  /\ stores \in [Users -> Nat]
  /\ dropped \subseteq Users \X (1..clock)

Init ==
  /\ seq = [c \in Conns |-> 0]
  /\ loop = [c \in Conns |-> Idle]
  /\ up = [w \in Uploaders |-> Idle]
  /\ pending = {}
  /\ issued = 0 /\ clock = 0
  /\ messages = {} /\ store = {} /\ avatars = {} /\ dropped = {}
  /\ profile = [u \in Users |-> [name |-> 0, text |-> 0, avatar |-> 0]]
  /\ answers = {}
  /\ stores = [u \in Users |-> 0]

-----------------------------------------------------------------------------
(* The connection's loop.                                                  *)

Requests(c, n) ==
  (IF "send" \in Kinds
   THEN {[kind |-> "send", conn |-> c, seq |-> n, attach |-> a] : a \in BOOLEAN} ELSE {})
  \cup
  (IF "profile" \in Kinds
   THEN {[kind |-> "profile", conn |-> c, seq |-> n, user |-> u, set |-> s,
          val |-> [name |-> IF "name" \in s THEN x ELSE 0,
                   text |-> IF "text" \in s THEN x ELSE 0,
                   avatar |-> IF "avatar" \in s THEN a ELSE 0], read |-> 0] :
            u \in Users, s \in SUBSET Fields, x \in {0, 1}, a \in {0, Wanted}}
   ELSE {})

\* Process reads a request and remembers its sequence number.
Process(c) ==
  /\ loop[c] = Idle /\ seq[c] < MaxRequests
  /\ seq' = [seq EXCEPT ![c] = @ + 1]
  /\ \E r \in Requests(c, seq[c] + 1) :
       loop' = [loop EXCEPT ![c] = [pc |-> "handle", req |-> r]]
  /\ UNCHANGED <<up, pending, issued, clock, messages, profile, disk, answers, stores>>

GoTo(c, pc) == loop' = [loop EXCEPT ![c].pc = pc]

\* PushPendingRequest; the slot's number is the answer.
PushPendingRequest(c, r) ==
  /\ pending' = pending \cup {r}
  /\ GoTo(c, "answer")

\* Permissions missing, or for a slot, or without files.
HandleMessageSendRequest(c) ==
  /\ loop[c].pc = "handle" /\ loop[c].req.kind = "send"
  /\ \/ GoTo(c, "answer") /\ UNCHANGED pending
     \/ loop[c].req.attach /\ PushPendingRequest(c, loop[c].req)
     \/ ~loop[c].req.attach /\ GoTo(c, "finalize") /\ UNCHANGED pending
  /\ UNCHANGED <<seq, up, issued, clock, messages, profile, disk, answers, stores>>

\* Whether the owner of r's connection may make r: one's own profile, or others'
\* with ManageProfiles, and then, unless an administrator, to reset it only.
Permitted(r) ==
  LET a == Owner[r.conn]
  IN IF r.user = a THEN a \in Changers
     ELSE /\ a \in Managers
          /\ \/ a \in Admins
             \/ /\ "avatar" \in r.set => r.val.avatar = 0
                /\ "text" \in r.set => r.val.text \in {0, profile[r.user].text}

\* Mutant: the avatar's stamp is not filled in.
FilledButAvatar(r) ==
  [r EXCEPT !.val = [f \in DOMAIN r.val |->
                       IF f \in r.set \cup {"avatar"} THEN r.val[f]
                       ELSE profile[r.user][f]],
            !.read = stores[r.user]]

\* The fields that are not set, from the row of the user the request names.
Filled(r) ==
  [r EXCEPT !.val = [f \in DOMAIN r.val |->
                       IF f \in r.set THEN r.val[f] ELSE profile[r.user][f]],
            !.read = stores[r.user]]

HandleUserUpdateRequest(c) ==
  LET r == loop[c].req
  IN /\ loop[c].pc = "handle" /\ r.kind = "profile"
     /\ \/ ~Permitted(r) /\ GoTo(c, "answer") /\ UNCHANGED pending
        \/ /\ Permitted(r)
           /\ "avatar" \in r.set /\ r.val.avatar # 0
           /\ PushPendingRequest(c, Filled(r))
        \/ /\ Permitted(r)
           /\ ~("avatar" \in r.set /\ r.val.avatar # 0)
           /\ loop' = [loop EXCEPT ![c] = [pc |-> "finalize", req |-> Filled(r)]]
           /\ UNCHANGED pending
     /\ UNCHANGED <<seq, up, issued, clock, messages, profile, disk, answers, stores>>

\* Write puts the connection's current sequence number in the answer to r,
\* whatever number its caller has filled in.
Write(r, by) ==
  answers' = answers \cup {[conn |-> r.conn, to |-> r.seq, seq |-> seq[r.conn], by |-> by]}

Answer(c) ==
  /\ loop[c].pc = "answer"
  /\ Write(loop[c].req, "loop")
  /\ loop' = [loop EXCEPT ![c] = Idle]
  /\ UNCHANGED <<seq, up, pending, issued, clock, messages, profile, disk, stores>>

\* FinalizeMessageSendRequest: one transaction, then the answer.
FinalizeMessageSendRequest(r, id, files) ==
  /\ messages' = messages \cup {[id |-> id, conn |-> r.conn, seq |-> r.seq, files |-> files]}
  /\ UNCHANGED <<profile, stores>>

\* FinalizeUserUpdateRequest stores every field, and for the user who asks.
FinalizeUserUpdateRequest(r) ==
  /\ profile' = [profile EXCEPT ![Owner[r.conn]] = r.val]
  /\ stores' = [stores EXCEPT ![Owner[r.conn]] = @ + 1]
  /\ UNCHANGED messages

\* The second half of a request without files.  A profile update is not
\* answered, except with an error.
Finalize(c) ==
  /\ loop[c].pc = "finalize"
  /\ \/ /\ loop[c].req.kind = "send"
        /\ issued' = issued + 1
        /\ FinalizeMessageSendRequest(loop[c].req, issued + 1, {})
        /\ GoTo(c, "answer")
     \/ /\ loop[c].req.kind = "profile"
        /\ FinalizeUserUpdateRequest(loop[c].req)
        /\ loop' = [loop EXCEPT ![c] = Idle]
        /\ UNCHANGED issued
     \/ GoTo(c, "answer") /\ UNCHANGED <<messages, profile, stores, issued>>
  /\ UNCHANGED <<seq, up, pending, clock, disk, answers>>

-----------------------------------------------------------------------------
(* The uploads.                                                            *)

Advance(w, pc) == up' = [up EXCEPT ![w].pc = pc]

\* HandleMessageSendUpload draws the message's ID.
StartSend(w, r) ==
  /\ r.kind = "send"
  /\ issued' = issued + 1
  /\ up' = [up EXCEPT ![w] = [pc |-> "files", req |-> r, id |-> issued + 1, got |-> 0]]
  /\ UNCHANGED clock

\* Mutant: the stamp is left as the client sent it.
StartAvatarUnstamped(w, r) ==
  /\ r.kind = "profile"
  /\ clock' \in {clock, clock + 1} \ {0}
  /\ up' = [up EXCEPT ![w] = [pc |-> "files", req |-> r, id |-> 0, got |-> 0]]
  /\ UNCHANGED issued

\* HandleUserUpdateUpload stamps the avatar with the time, which may not have
\* moved since the last one.
StartAvatar(w, r) ==
  /\ r.kind = "profile"
  /\ clock' \in {clock, clock + 1} \ {0}
  /\ up' = [up EXCEPT ![w] = [pc |-> "files", req |-> [r EXCEPT !.val.avatar = clock'],
                              id |-> 0, got |-> 0]]
  /\ UNCHANGED issued

\* Mutant: the slot is looked up and left.
PopPendingRequestKeeps(r) == r \in pending /\ UNCHANGED pending

\* PopPendingRequest, by whichever upload comes first.
PopPendingRequest(r) == r \in pending /\ pending' = pending \ {r}

\* Mutant: the connection's sequence number is set back to the parked request's.
HandleGatewayUploadRestoring(w) ==
  /\ up[w] = Idle
  /\ \E r \in pending : /\ PopPendingRequest(r)
                        /\ StartSend(w, r) \/ StartAvatar(w, r)
                        /\ seq' = [seq EXCEPT ![r.conn] = r.seq]
  /\ UNCHANGED <<loop, messages, profile, disk, answers, stores>>

HandleGatewayUpload(w) ==
  /\ up[w] = Idle
  /\ \E r \in pending : PopPendingRequest(r) /\ (StartSend(w, r) \/ StartAvatar(w, r))
  /\ UNCHANGED <<seq, loop, messages, profile, disk, answers, stores>>

\* UploadAttachment stores the next file.
UploadAttachment(w) ==
  /\ up[w].pc = "files" /\ up[w].req.kind = "send" /\ up[w].got < MaxFiles
  /\ store' = store \cup {<<up[w].id, up[w].got + 1>>}
  /\ up' = [up EXCEPT ![w].got = @ + 1]
  /\ UNCHANGED <<seq, loop, pending, issued, clock, messages, profile, avatars, dropped, answers, stores>>

\* Mutant: the failure is taken for the end of the upload.
UploadAttachmentFailsOn(w) ==
  /\ BadUploads
  /\ up[w].pc = "files" /\ up[w].req.kind = "send"
  /\ store' \in {{f \in store : f[1] # up[w].id}, store}
  /\ Advance(w, "finalize")
  /\ UNCHANGED <<seq, loop, pending, issued, clock, messages, profile, avatars, dropped, answers, stores>>

\* WriteFile removes the directory of a file whose copy breaks off, the other
\* files of the message with it; a file that cannot be created, described or
\* previewed leaves them.  The request ends with an error.
UploadAttachmentFails(w) ==
  /\ BadUploads
  /\ up[w].pc = "files" /\ up[w].req.kind = "send"
  /\ store' \in {{f \in store : f[1] # up[w].id}, store}
  /\ Advance(w, "answer")
  /\ UNCHANGED <<seq, loop, pending, issued, clock, messages, profile, avatars, dropped, answers, stores>>

\* The last part has been read.  The number of files is not compared with the
\* request's AttachmentCount.
EndFiles(w) ==
  /\ up[w].pc = "files" /\ up[w].req.kind = "send"
  /\ Advance(w, "finalize")
  /\ UNCHANGED <<seq, loop, pending, issued, clock, messages, profile, disk, answers, stores>>

\* Mutant: the row first, the file later or never.
UploadAvatarLate(w) ==
  /\ up[w].pc = "files" /\ up[w].req.kind = "profile"
  /\ Advance(w, "finalize")
  /\ UNCHANGED <<seq, loop, pending, issued, clock, messages, profile, disk, answers, stores>>

\* UploadAvatar stores the file of the user the request names.
UploadAvatar(w) ==
  /\ up[w].pc = "files" /\ up[w].req.kind = "profile"
  /\ avatars' = avatars \cup {<<up[w].req.user, up[w].req.val.avatar>>}
  /\ Advance(w, "finalize")
  /\ UNCHANGED <<seq, loop, pending, issued, clock, messages, profile, store, dropped, answers, stores>>

\* An avatar that cannot be decoded or stored is dropped in silence, with
\* whatever the directory of the same stamp held, an upload that breaks off is
\* reported, and one without a file part brings no avatar at all (ReadFiles ends
\* without an error); the profile is stored with the new stamp all the same.
UploadAvatarFails(w) ==
  LET avatar == <<up[w].req.user, up[w].req.val.avatar>>
  IN /\ BadUploads
     /\ up[w].pc = "files" /\ up[w].req.kind = "profile"
     /\ avatars' \in {avatars, avatars \ {avatar}}
     /\ dropped' = dropped \cup {avatar}
     /\ Write(up[w].req, "upload") \/ UNCHANGED answers
     /\ Advance(w, "finalize")
     /\ UNCHANGED <<seq, loop, pending, issued, clock, messages, profile, store, stores>>

\* The second half of a request with files.
FinalizeUpload(w) ==
  /\ up[w].pc = "finalize"
  /\ \/ /\ up[w].req.kind = "send"
        /\ FinalizeMessageSendRequest(up[w].req, up[w].id, 1..up[w].got)
        /\ Advance(w, "answer")
     \/ /\ up[w].req.kind = "profile"
        /\ FinalizeUserUpdateRequest(up[w].req)
        /\ up' = [up EXCEPT ![w] = Idle]
     \/ Advance(w, "answer") /\ UNCHANGED <<messages, profile, stores>>
  /\ UNCHANGED <<seq, loop, pending, issued, clock, disk, answers>>

AnswerUpload(w) ==
  /\ up[w].pc = "answer"
  /\ Write(up[w].req, "upload")
  /\ up' = [up EXCEPT ![w] = Idle]
  /\ UNCHANGED <<seq, loop, pending, issued, clock, messages, profile, disk, stores>>

\* The process dies and starts again: rows and files stay.
Crash ==
  /\ loop' = [c \in Conns |-> Idle]
  /\ up' = [w \in Uploaders |-> Idle]
  /\ pending' = {}
  /\ UNCHANGED <<seq, issued, clock, messages, profile, disk, answers, stores>>

\* Every request has been made and finished.
Done ==
  /\ \A c \in Conns : loop[c] = Idle /\ seq[c] = MaxRequests
  /\ \A w \in Uploaders : up[w] = Idle
  /\ UNCHANGED vars

Next ==
  \/ \E c \in Conns : Process(c)
  \/ \E c \in Conns : HandleMessageSendRequest(c)
  \/ \E c \in Conns : HandleUserUpdateRequest(c)
  \/ \E c \in Conns : Finalize(c)
  \/ \E c \in Conns : Answer(c)
  \/ \E w \in Uploaders : HandleGatewayUpload(w)
  \/ \E w \in Uploaders : UploadAttachment(w)
  \/ \E w \in Uploaders : UploadAttachmentFails(w)
  \/ \E w \in Uploaders : EndFiles(w)
  \/ \E w \in Uploaders : UploadAvatar(w)
  \/ \E w \in Uploaders : UploadAvatarFails(w)
  \/ \E w \in Uploaders : FinalizeUpload(w)
  \/ \E w \in Uploaders : AnswerUpload(w)
  \/ Crash
  \/ Done

Spec == Init /\ [][Next]_vars

-----------------------------------------------------------------------------
(* Properties.                                                             *)

\* A parked request becomes one message at most, however often and from how
\* many goroutines its slot is uploaded to (PopPendingRequest).
SlotsOnce ==
  \A m, n \in messages : m.conn = n.conn /\ m.seq = n.seq => m = n

\* Every attachment of a stored message has its file, although a failing file
\* takes the earlier ones of the same upload with it (WriteFile) and the process
\* may die between the files and the row.
AttachmentsStored ==
  \A m \in messages : \A i \in m.files : <<m.id, i>> \in store

\* While users change their own profiles only, the stamp of every profile names a
\* stored avatar, or one whose upload failed or had no file part (gateway.go:401-446,
\* handlers.go:831-839 take that for a success): the file comes before the row, and
\* a stale stamp filled in by another update names an older file that is still
\* there (HandleUserUpdateUpload, HandleUserUpdateRequest).
AvatarsServed ==
  \A u \in Users : profile[u].avatar # 0 => <<u, profile[u].avatar>> \in avatars \cup dropped

\* The requests whose second half this step stores.
Stored(r) ==
  \/ \E c \in Conns : loop[c].pc = "finalize" /\ loop[c].req = r /\ loop'[c] = Idle
  \/ \E w \in Uploaders : up[w].pc = "finalize" /\ up[w].req = r /\ up'[w] = Idle

Storing == {r \in {loop[c].req : c \in {d \in Conns : loop[d] # Idle}}
                  \cup {up[w].req : w \in {v \in Uploaders : up[v] # Idle}} :
              r.kind = "profile" /\ Stored(r)}

\* Storing one's own profile leaves the fields the request did not set as they
\* are, unless another update of the profile was stored after this one had read
\* it, which for an avatar may be long before (HandleUserUpdateRequest).
UnsetFieldsKept ==
  [][\A r \in Storing :
       r.user = Owner[r.conn] /\ stores[r.user] = r.read /\ profile' # profile =>
         \A f \in {"name", "text", "avatar"} \ r.set :
            profile'[r.user][f] = profile[r.user][f]]_vars

\* The answers of a connection's loop carry the number of the request they
\* answer, although uploads for the same connection answer meanwhile; an upload's
\* answer carries that of its own request or of a later one (Write, which
\* overwrites the number kept in the slot).
AnswersInStep ==
  \A a \in answers : IF a.by = "loop" THEN a.seq = a.to ELSE a.seq >= a.to

\* A profile changes only when a request that names its user is stored.  The
\* comment in HandleUserUpdateRequest speaks of "setting other peoples profile".
NamedUserChanges ==
  [][\A u \in Users : profile'[u] # profile[u] => \E r \in Storing : r.user = u]_vars
=============================================================================
