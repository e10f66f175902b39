------------------------------- MODULE Messages -------------------------------
(***************************************************************************)
(* The messages of a server, with their embeds, mentions and reactions     *)
(* (the message handlers of chat/handlers.go and the queries they make,    *)
(* storage/transactions.go), the goroutines that fetch embeds after a      *)
(* message was stored (TryEmbedURLs), the goroutines that relay its events *)
(* (chat/relay.go), and one client that shows a channel from the pages it  *)
(* asks for and the events it gets.                                        *)
(*                                                                         *)
(* A handler's transaction is one step: it begins with reads, and one that *)
(* another commit has overtaken fails when it turns to writing.  So is a   *)
(* fetch's, which holds the write lock from its first row on.  What takes  *)
(* time lies outside: between drawing a message's ID and storing it,       *)
(* between storing it and fetching, between a commit and the writing of    *)
(* its event to the client's socket, between reading a page and writing it *)
(* there.  Events wait for a goroutine each and then in the queue of the   *)
(* connection, which may be full and drop them; pages pass them by.        *)
(***************************************************************************)
EXTENDS Integers, FiniteSets, SequencesExt

CONSTANTS Users,        \* each on a connection of its own
          Nobody,       \* an ID in a mention that is no user's
          MayEmbed,     \* users with PermissionEmbedLinks
          MayManage,    \* users with PermissionManageMessages
          MayReact,     \* users with PermissionAddReactions
          Channels,
          Watched,      \* the channel the client shows
          Contents,     \* message texts, as ParseMessageContent sees them
          Page,         \* the URL a page says it has: embed.URL, by the URL fetched
          Fetchers,     \* bound: TryEmbedURLs goroutines at a time
          MaxId,        \* bound: messages ever sent
          MaxRequests,  \* bound: requests that may change something
          PageSize      \* the limit of the client's requests

Ids == 1 .. MaxId
Urls == DOMAIN Page

ASSUME MessagesAssumption ==
  /\ Nobody \notin Users
  /\ MayEmbed \subseteq Users /\ MayManage \subseteq Users /\ MayReact \subseteq Users
  /\ Watched \in Channels
  /\ \A c \in Contents : /\ c.urls \in Seq(Urls)
                         /\ c.mentions \in Seq(Users \cup {Nobody})
  /\ MaxId \in Nat /\ MaxRequests \in Nat /\ PageSize \in Nat \ {0}

VARIABLES
  messages,     \* table: ID -> [author, channel, content, reference (0: NULL)]
  embeds,       \* table: by message, the rows [url, from] in the order of their IDs
  mentions,     \* table: by message, the users mentioned
  reactions,    \* table: <<message, user>>, of one emoji
  lastId,       \* the last ID snowflake.New has drawn for a message
  sending,      \* by user, the message FinalizeMessageSendRequest is about to store
  fetches,      \* by goroutine, the message and the URLs it fetches
  flight,       \* by message, the event that is not written to the client yet
  page,         \* the page that was read and not yet written to the client
  view,         \* the client's copies: by message, none or one
  oldest,       \* the client has asked for everything from here on
  unsure,       \* history: messages whose events met on the way or were dropped
  raced,        \* history: messages edited during a fetch
  repeated,     \* history: messages a text of which repeated a link
  requests      \* the number of requests so far

db     == <<messages, embeds, mentions, reactions>>
server == <<lastId, sending, fetches>>
client == <<page, view, oldest>>
vars   == <<db, server, flight, client, unsure, raced, repeated, requests>>

NoMessage == [id |-> 0]
NoFetch   == [id |-> 0, urls |-> <<>>]
NoPage    == [oldest |-> 0, rows |-> <<>>]

Stored == DOMAIN messages

\* The elements of s that are in T, in their order: SelectSeq with a set for its
\* test, so that theorems can be stated about it.
Filter(s, T) ==
  LET f[n \in 0 .. Len(s)] == IF n = 0 THEN <<>>
                              ELSE IF s[n] \in T THEN Append(f[n - 1], s[n])
                              ELSE f[n - 1]
  IN f[Len(s)]

\* What message_query reads of a message, but for its reference: none or one row.
Row(id) ==
  {[content |-> messages[m].content, embeds |-> embeds[m], mentions |-> mentions[m],
    reactions |-> {u \in Users : <<m, u>> \in reactions}] : m \in {id} \cap Stored}

Init ==
  /\ messages = <<>>
  /\ embeds = [id \in Ids |-> <<>>]
  /\ mentions = [id \in Ids |-> {}]
  /\ reactions = {}
  /\ lastId = 0
  /\ sending = [u \in Users |-> NoMessage]
  /\ fetches = [f \in Fetchers |-> NoFetch]
  /\ flight = [id \in Ids |-> {}]
  /\ page = NoPage
  /\ view = [id \in Ids |-> {}]
  /\ oldest = MaxId + 1
  /\ unsure = {}
  /\ raced = {}
  /\ repeated = {}
  /\ requests = 0

-----------------------------------------------------------------------------
(* Relays.  A goroutine per event puts it in the client's queue, and another *)
(* one writes it; the client is entitled to the channel it shows.  When a    *)
(* second event of a message sets out before the first is written, either    *)
(* may be written first, and when one is dropped the client's copy is stale: *)
(* nothing more is said of that message.  It is unsure, and its events are   *)
(* not followed any longer.                                                  *)

Event(type, rows, user) == [type |-> type, rows |-> rows, user |-> user]

\* RelayByChannel of an event of message id.
RelayByChannel(id, event, channel) ==
  IF channel # Watched \/ id \in unsure
    THEN UNCHANGED <<flight, unsure>>
    ELSE IF flight[id] = {}
      THEN flight' = [flight EXCEPT ![id] = {event}] /\ UNCHANGED unsure
      ELSE flight' = [flight EXCEPT ![id] = {}] /\ unsure' = unsure \cup {id}

\* The copy a client has of a message after an event.
Apply(event, copy) ==
  CASE event.type = "add"     -> event.rows
    [] event.type = "update"  -> IF copy = {} THEN {} ELSE event.rows
    [] event.type = "delete"  -> {}
    [] event.type = "react"   -> {[m EXCEPT !.reactions = @ \cup {event.user}] : m \in copy}
    [] event.type = "unreact" -> {[m EXCEPT !.reactions = @ \ {event.user}] : m \in copy}

\* An event comes to the head of the client's queue and is written to its socket.  A
\* page that was read before and is written after it may undo it.
Deliver(id) ==
  \E event \in flight[id] :
    /\ flight' = [flight EXCEPT ![id] = {}]
    /\ view' = [view EXCEPT ![id] = Apply(event, @)]
    /\ unsure' = IF id \in DOMAIN page.rows THEN unsure \cup {id} ELSE unsure
    /\ UNCHANGED <<db, server, page, oldest, raced, repeated, requests>>

\* Mutant: a drop is taken for a delivery.
DropUnnoticed(id) ==
  /\ flight[id] # {}
  /\ flight' = [flight EXCEPT ![id] = {}]
  /\ UNCHANGED <<db, server, client, unsure, raced, repeated, requests>>

\* The queue is full (Gateway.tla says when): the event is gone for good, and what the
\* client shows of the message stays as it was.
Drop(id) ==
  /\ flight[id] # {}
  /\ flight' = [flight EXCEPT ![id] = {}]
  /\ unsure' = unsure \cup {id}
  /\ UNCHANGED <<db, server, client, raced, repeated, requests>>

-----------------------------------------------------------------------------
(* Sending.                                                                 *)

\* A text that repeats a link is remembered.
Note(id, content) ==
  repeated' = IF IsInjective(content.urls) THEN repeated ELSE repeated \cup {id}

\* A request to change something.
Request == requests < MaxRequests /\ requests' = requests + 1

\* HandleMessageSendRequest draws the ID; a reply names a message the user has seen.
HandleMessageSendRequest(u, channel, content, reference) ==
  /\ Request
  /\ sending[u] = NoMessage /\ lastId < MaxId
  /\ lastId' = lastId + 1
  /\ sending' = [sending EXCEPT ![u] =
       [id |-> lastId', channel |-> channel, content |-> content, reference |-> reference]]
  /\ UNCHANGED <<db, fetches, flight, client, unsure, raced, repeated>>

\* Mutant: foreign keys are not enforced, and repetitions are skipped.
AcceptedAll(content) == Range(content.mentions)

\* The mentions AddMessage stores: the first one that is no user's or was there
\* before ends SetMessageMentions with an error, which AddMessage ignores.
Accepted(content) ==
  LET bad(i) == content.mentions[i] = Nobody
                \/ \E j \in 1 .. i - 1 : content.mentions[j] = content.mentions[i]
  IN {content.mentions[i] : i \in {i \in DOMAIN content.mentions : \A j \in 1 .. i : ~bad(j)}}

\* All of them are accepted.
Clean(content) == IsInjective(content.mentions) /\ Nobody \notin Range(content.mentions)

\* A goroutine starts to fetch embeds.
StartFetch(id, urls) ==
  \E f \in Fetchers : /\ fetches[f] = NoFetch
                      /\ fetches' = [fetches EXCEPT ![f] = [id |-> id, urls |-> urls]]

\* A message that refers to one that is gone violates a foreign key.
AddMessage(id, message) ==
  /\ message.reference \in Stored \cup {0}
  /\ messages' = [x \in Stored \cup {id} |-> IF x = id THEN message ELSE messages[x]]
  /\ mentions' = [mentions EXCEPT ![id] = Accepted(message.content)]
  /\ UNCHANGED <<embeds, reactions>>

\* FinalizeMessageSendRequest, up to the goroutines it starts.
FinalizeMessageSendRequest(u, id) ==
  /\ sending[u].id = id
  /\ LET m == sending[u]
         urls == IF u \in MayEmbed THEN m.content.urls ELSE <<>>
     IN /\ AddMessage(id, [author |-> u, channel |-> m.channel, content |-> m.content,
                           reference |-> m.reference])
        /\ RelayByChannel(id, Event("add", Row(id)', Nobody), m.channel)
        /\ IF urls = <<>> THEN UNCHANGED fetches ELSE StartFetch(id, urls)
        /\ Note(id, m.content)
  /\ sending' = [sending EXCEPT ![u] = NoMessage]
  /\ UNCHANGED <<lastId, client, raced, requests>>

\* The message it replies to is gone: nothing is stored.
FinalizeFails(u) ==
  /\ sending[u] # NoMessage
  /\ sending[u].reference \notin Stored \cup {0}
  /\ sending' = [sending EXCEPT ![u] = NoMessage]
  /\ UNCHANGED <<db, lastId, fetches, flight, client, unsure, raced, repeated, requests>>

-----------------------------------------------------------------------------
(* Editing, deleting, reacting.                                             *)

\* Mutant: everything in the text is fetched again.
AddedURLsAll(urls, rows) == urls

\* Mutant: the embeds of links that are gone are kept.
KeptEmbedsAll(urls, rows) == rows

\* The embeds an edit keeps: those whose own URL is in the text.
KeptEmbeds(urls, rows) == Filter(rows, {e \in Range(rows) : e.url \in Range(urls)})

\* The URLs of the text that are no embed's own.
AddedURLs(urls, rows) == Filter(urls, Range(urls) \ {e.url : e \in Range(rows)})

Fetching(id) == \E f \in Fetchers : fetches[f].id = id

\* SetMessage.  Mentions that are not accepted undo the whole edit.
SetMessage(id, content) ==
  /\ Clean(content)
  /\ messages' = [messages EXCEPT ![id].content = content]
  /\ mentions' = [mentions EXCEPT ![id] = Range(content.mentions)]
  /\ embeds' = [embeds EXCEPT ![id] = KeptEmbeds(content.urls, @)]
  /\ UNCHANGED reactions

\* HandleMessageUpdateRequest.  A fetch starts even when there are no new links.
HandleMessageUpdateRequest(u, id, content) ==
  /\ Request
  /\ id \in Stored /\ messages[id].author = u
  /\ SetMessage(id, content)
  /\ RelayByChannel(id, Event("update", Row(id)', Nobody), messages[id].channel)
  /\ IF u \in MayEmbed THEN StartFetch(id, AddedURLs(content.urls, embeds[id]))
                       ELSE UNCHANGED fetches
  /\ raced' = IF Fetching(id) THEN raced \cup {id}
              ELSE IF embeds'[id] = <<>> THEN raced \ {id} ELSE raced
  /\ Note(id, content)
  /\ UNCHANGED <<lastId, sending, client>>

\* Mutant: the rows that refer to a message stay.
DeleteMessageOnly(id) ==
  /\ messages' = [m \in Stored \ {id} |-> messages[m]]
  /\ UNCHANGED <<embeds, mentions, reactions>>

\* DeleteMessage, with what the schema cascades.
DeleteMessage(id) ==
  /\ messages' = [m \in Stored \ {id} |->
       [messages[m] EXCEPT !.reference = IF @ = id THEN 0 ELSE @]]
  /\ embeds' = [embeds EXCEPT ![id] = <<>>]
  /\ mentions' = [mentions EXCEPT ![id] = {}]
  /\ reactions' = {r \in reactions : r[1] # id}

HandleMessageDeleteRequest(u, id) ==
  /\ Request
  /\ id \in Stored
  /\ messages[id].author = u \/ u \in MayManage
  /\ DeleteMessage(id)
  /\ RelayByChannel(id, Event("delete", {}, Nobody), messages[id].channel)
  /\ raced' = raced \ {id}
  /\ UNCHANGED <<server, client, repeated>>

\* The table refuses a reaction that is there.
AddReaction(id, u) == <<id, u>> \notin reactions /\ reactions' = reactions \cup {<<id, u>>}
DeleteReaction(id, u) == reactions' = reactions \ {<<id, u>>}
GetReactionCount(id) == Cardinality({u \in Users : <<id, u>> \in reactions})

\* A user without PermissionAddReactions may join a reaction that is there.
HandleMessageReactionAddRequest(u, id) ==
  /\ Request
  /\ id \in Stored
  /\ u \in MayReact \/ GetReactionCount(id) > 0
  /\ AddReaction(id, u)
  /\ RelayByChannel(id, Event("react", {}, u), messages[id].channel)
  /\ UNCHANGED <<messages, embeds, mentions, server, client, raced, repeated>>

\* The event goes out whether or not there was a reaction.
HandleMessageReactionDeleteRequest(u, id) ==
  /\ Request
  /\ id \in Stored
  /\ DeleteReaction(id, u)
  /\ RelayByChannel(id, Event("unreact", {}, u), messages[id].channel)
  /\ UNCHANGED <<messages, embeds, mentions, server, client, raced, repeated>>

-----------------------------------------------------------------------------
(* TryEmbedURLs.                                                            *)

\* GetEmbedFromURL: the page's own URL, if it has one, is the embed's.
GetEmbedFromURL(url) == [url |-> Page[url], from |-> url]

\* The rows of the fetches that succeeded follow those that are there.
AddEmbeds(id, urls) ==
  embeds' = [embeds EXCEPT ![id] = @ \o [i \in DOMAIN urls |-> GetEmbedFromURL(urls[i])]]

\* Mutant: nobody is told of the embeds.
TryEmbedURLsQuietly(f, id) ==
  /\ fetches[f].id = id /\ id \in Stored
  /\ AddEmbeds(id, fetches[f].urls)
  /\ fetches' = [fetches EXCEPT ![f] = NoFetch]
  /\ UNCHANGED <<messages, mentions, reactions, lastId, sending, flight, client, unsure,
                 raced, repeated, requests>>

\* The elements of s at some places, in their order.
AtPlaces(s, places) ==
  LET chosen == Filter([i \in DOMAIN s |-> i], places)
  IN [i \in DOMAIN chosen |-> s[chosen[i]]]

\* The goroutine is done: the fetches that succeeded, of a repeated link each on its
\* own, are stored with one commit, and the message is announced, changed or not.
TryEmbedURLs(f, id) ==
  /\ fetches[f].id = id /\ id \in Stored
  /\ \E got \in SUBSET DOMAIN fetches[f].urls :
       AddEmbeds(id, AtPlaces(fetches[f].urls, got))
  /\ UNCHANGED <<messages, mentions, reactions>>
  /\ RelayByChannel(id, Event("update", Row(id)', Nobody), messages[id].channel)
  /\ fetches' = [fetches EXCEPT ![f] = NoFetch]
  /\ UNCHANGED <<lastId, sending, client, raced, repeated, requests>>

\* The message is gone: an insert violates the foreign key, or GetMessage finds
\* nothing; the transaction is rolled back.
TryEmbedURLsFails(f) ==
  /\ fetches[f] # NoFetch
  /\ fetches[f].id \notin Stored
  /\ fetches' = [fetches EXCEPT ![f] = NoFetch]
  /\ UNCHANGED <<db, lastId, sending, flight, client, unsure, raced, repeated, requests>>

-----------------------------------------------------------------------------
(* Pages.                                                                   *)

\* Mutant: the anchor is part of the page.
InChannelWithAnchor(channel, anchor, before) ==
  {id \in Stored : /\ messages[id].channel = channel
                   /\ anchor = 0 \/ IF before THEN id <= anchor ELSE id >= anchor}

\* The WHERE clause of GetMessagesByAnchor.
InChannel(channel, anchor, before) ==
  {id \in Stored : /\ messages[id].channel = channel
                   /\ anchor = 0 \/ IF before THEN id < anchor ELSE id > anchor}

\* ORDER BY m.id.
Ascending(ids) == Filter([id \in Ids |-> id], ids)

\* Mutant: the rows are always read in ascending order.
GetMessagesAscending(channel, anchor, limit, before) ==
  LET rows == Ascending(InChannel(channel, anchor, before))
  IN IF limit < 0 \/ limit >= Len(rows) THEN rows ELSE SubSeq(rows, 1, limit)

\* The IDs of the page: ordered away from the anchor, cut off at the limit (a
\* negative one is none), and brought into ascending order.
GetMessagesByAnchor(channel, anchor, limit, before) ==
  LET descending == anchor = 0 \/ before
      rows  == Ascending(InChannel(channel, anchor, before))
      away  == IF descending THEN Reverse(rows) ELSE rows
      first == IF limit < 0 \/ limit >= Len(away) THEN away ELSE SubSeq(away, 1, limit)
  IN IF descending THEN Reverse(first) ELSE first

\* HandleMessagesRequest with an anchor on both sides, which is taken to exist.
GetMessagesAround(channel, anchor, limit) ==
  GetMessagesByAnchor(channel, anchor, limit, TRUE) \o <<anchor>>
    \o GetMessagesByAnchor(channel, anchor, limit, FALSE)

\* The client asks for what precedes the oldest it has asked for, at first for the
\* latest; the answer is read.
HandleMessagesRequest ==
  /\ page = NoPage /\ oldest > 1
  /\ LET anchor == IF oldest > MaxId THEN 0 ELSE oldest
         ids == GetMessagesByAnchor(Watched, anchor, PageSize, TRUE)
     IN page' = [rows   |-> [id \in Range(ids) |-> Row(id)],
                 oldest |-> IF Len(ids) = PageSize THEN ids[1] ELSE 1]
  /\ UNCHANGED <<db, server, flight, view, oldest, unsure, raced, repeated, requests>>

\* The handler writes it to the socket itself, past the events that are queued.
MessagesResponse ==
  /\ page # NoPage
  /\ view' = [id \in Ids |-> IF id \in DOMAIN page.rows THEN page.rows[id] ELSE view[id]]
  /\ oldest' = page.oldest
  /\ page' = NoPage
  /\ UNCHANGED <<db, server, flight, unsure, raced, repeated, requests>>

\* The process ends, or is brought down by a page GetEmbedFromURL cannot handle;
\* the database stays, and the client connects afresh.
Crash ==
  /\ sending' = [u \in Users |-> NoMessage]
  /\ fetches' = [f \in Fetchers |-> NoFetch]
  /\ flight' = [id \in Ids |-> {}]
  /\ page' = NoPage
  /\ view' = [id \in Ids |-> {}]
  /\ oldest' = MaxId + 1
  /\ unsure' = {}
  /\ UNCHANGED <<db, lastId, raced, repeated, requests>>

Next ==
  \/ \E u \in Users, channel \in Channels, content \in Contents, reference \in Stored \cup {0} :
       HandleMessageSendRequest(u, channel, content, reference)
  \/ \E u \in Users : FinalizeFails(u) \/ \E id \in Ids : FinalizeMessageSendRequest(u, id)
  \/ \E u \in Users, id \in Ids, content \in Contents :
       HandleMessageUpdateRequest(u, id, content)
  \/ \E u \in Users, id \in Ids : HandleMessageDeleteRequest(u, id)
  \/ \E u \in Users, id \in Ids : HandleMessageReactionAddRequest(u, id)
  \/ \E u \in Users, id \in Ids : HandleMessageReactionDeleteRequest(u, id)
  \/ \E f \in Fetchers : TryEmbedURLsFails(f) \/ \E id \in Ids : TryEmbedURLs(f, id)
  \/ \E id \in Ids : Deliver(id) \/ Drop(id)
  \/ HandleMessagesRequest
  \/ MessagesResponse
  \/ Crash

Spec == Init /\ [][Next]_vars

-----------------------------------------------------------------------------
Copy == [content : Contents, embeds : Seq([url : Range(Page), from : Urls]),
         mentions : SUBSET Users, reactions : SUBSET Users]

TypeOK ==
  /\ messages \in
       [Stored -> [author : Users, channel : Channels, content : Contents, reference : 0 .. MaxId]]
  /\ Stored \subseteq Ids
  /\ embeds \in [Ids -> Seq([url : Range(Page), from : Urls])]
  /\ mentions \in [Ids -> SUBSET Users] /\ reactions \subseteq Ids \X Users
  /\ lastId \in 0 .. MaxId
  /\ sending \in [Users -> {NoMessage} \cup
       [id : Ids, channel : Channels, content : Contents, reference : 0 .. MaxId]]
  /\ fetches \in [Fetchers -> [id : 0 .. MaxId, urls : Seq(Urls)]]
  /\ flight \in [Ids -> SUBSET
       ([type : {"add", "update", "delete"}, rows : SUBSET Copy, user : {Nobody}]
        \cup [type : {"react", "unreact"}, rows : {{}}, user : Users])]
  /\ page = [oldest |-> page.oldest, rows |-> page.rows]
  /\ page.oldest \in 0 .. MaxId
  /\ DOMAIN page.rows \subseteq Ids /\ page.rows \in [DOMAIN page.rows -> SUBSET Copy]
  /\ view \in [Ids -> SUBSET Copy]
  /\ oldest \in 1 .. MaxId + 1
  /\ unsure \subseteq Ids /\ raced \subseteq Ids /\ repeated \subseteq Ids
  /\ requests \in 0 .. MaxRequests

\* Whatever an edit, a fetch or a reaction in progress meets, what is stored about a
\* message is stored about one that exists: it goes with it (DeleteMessage and the
\* schema), and what comes later is refused (TryEmbedURLs, handlers.go:872-903).
NoOrphans ==
  /\ \A id \in Ids \ Stored : embeds[id] = <<>> /\ mentions[id] = {}
  /\ \A r \in reactions : r[1] \in Stored
  /\ \A id \in Stored : messages[id].reference \in Stored \cup {0}

\* The rows about a message follow its text through its edits
\* (handlers.go:515-547): unless one came during a fetch, every embed belongs to
\* a link of the text, and the users mentioned are those of the text, or fewer
\* if the text it was sent with mentioned one twice or nobody.
RowsFollowContent ==
  \A id \in Stored :
    LET content == messages[id].content
    IN /\ id \notin raced => \A i \in DOMAIN embeds[id] :
            {embeds[id][i].url, embeds[id][i].from} \cap Range(content.urls) # {}
       /\ mentions[id] \subseteq Range(content.mentions)
       /\ Clean(content) => mentions[id] = Range(content.mentions)

\* However often a message is edited, a link is embedded once (handlers.go:531-542),
\* unless an edit came during a fetch or a text of the message had a link twice: nobody
\* looks for repetitions (ingest.go:50-55), so each of them is embedded.  A page that
\* goes by another's URL counts as that page, and both may be in a text.
EmbedsOnce ==
  \A id \in Stored \ (raced \cup repeated), url \in Urls :
    (Page[url] = url /\ \A other \in Urls \ {url} : Page[other] # url)
      => Cardinality({i \in DOMAIN embeds[id] : embeds[id][i].url = url}) <= 1

\* A client that merges pages and events has, of everything from the oldest message
\* it asked for on, the row that is stored, whatever order messages were stored
\* in, wherever a page was cut and whichever queued events it overtook: every commit
\* that changes what is shown of a message is announced, completely (OnMessageAdd,
\* OnMessageUpdate, OnMessageDelete, OnReactionAdd, OnReactionDelete).  Not so for a
\* message of which an event was dropped by a full queue (gateway.go:176-180), of which
\* two events overlapped, or of which one was written between the reading of a page
\* with it and the page's writing: those copies stay stale.
ViewAgrees ==
  \A id \in Ids \ unsure :
    (flight[id] = {} /\ (id \in Stored => messages[id].channel = Watched)
      /\ (id >= oldest \/ view[id] # {}))
      => view[id] = Row(id)

IsAscending(ids) == \A i, j \in DOMAIN ids : i < j => ids[i] < ids[j]

Limits == {-1, 1, 2}

\* The page is the part of the channel next to the anchor, in ascending order.
IsWindow(ids, channel, anchor, limit, before) ==
  LET rows == {id \in Stored : /\ messages[id].channel = channel
                               /\ anchor = 0 \/ (id < anchor <=> before)
                               /\ id # anchor}
  IN /\ IsAscending(ids)
     /\ Range(ids) \subseteq rows
     /\ Len(ids) = limit \/ (Range(ids) = rows /\ (limit < 0 \/ Len(ids) < limit))
     /\ \A id \in rows \ Range(ids), listed \in Range(ids) :
          IF anchor = 0 \/ before THEN id < listed ELSE id > listed

\* Whatever was deleted in between and in whatever order messages were stored,
\* each page is the window of the channel it was asked for, so that pages asked for
\* by each other's ends neither overlap nor leave a gap (GetMessagesByAnchor,
\* handlers.go:235-256).  Pages do not depend on the client: this looks at the
\* tables there are while it has asked for nothing, which are all there can be.
PagesExact ==
  oldest > MaxId /\ page = NoPage =>
    \A channel \in Channels, limit \in Limits :
      /\ \A anchor \in 0 .. MaxId + 1, before \in BOOLEAN :
           IsWindow(GetMessagesByAnchor(channel, anchor, limit, before),
                    channel, anchor, limit, before)
      /\ \A id \in Stored : messages[id].channel = channel =>
           IsAscending(GetMessagesAround(channel, id, limit))
=============================================================================
