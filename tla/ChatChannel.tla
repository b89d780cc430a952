---------------------------- MODULE ChatChannel ------------------------------
(***************************************************************************)
(* One workspace channel: its rows, the socket handlers that change them,  *)
(* and the browser tabs that show them.                                    *)
(*                                                                         *)
(* A tab shows a change before the server has heard of it, and then has it *)
(* confirmed by the ack of its own call, by the broadcast to the room, or  *)
(* by a timeout that takes it back.  Its first page of history comes over  *)
(* HTTP, past all of these.  A connection that drops takes with it what is *)
(* on its way in both directions; what a tab emits while it has none waits *)
(* in the client and is sent when it has one again.                        *)
(*                                                                         *)
(* Only an author changes a message, so the tabs are taken to be theirs:   *)
(* anybody else's is one that never writes.                                *)
(***************************************************************************)
EXTENDS Naturals, Sequences

CONSTANTS
    Tabs,       \* browser tabs on the channel
    Messages,   \* rows of the table, bounding how many are ever sent
    Writes,     \* calls of send, edit and remove, bounding how many are made
    None,       \* what a tab shows of a message it does not hold
    Tombstone,  \* a deleted message, its content gone
    MaxDrops    \* how often the connection of one tab may drop

ASSUME ChatChannelAssumption ==
    /\ None \notin Writes \cup Messages /\ Tombstone \notin Writes \cup {None}
    /\ MaxDrops \in Nat

VARIABLES
    row,       \* row[m]: the text, named by the write it came from, and deletedAt
    write,     \* write[w]: the call and how far it has come
    connected, \* the tabs whose socket is connected
    room,      \* the tabs whose socket has joined the channel's room
    drops,     \* drops[t]: how often t has lost its connection
    inbox,     \* inbox[t]: events on their way to t, in order
    page,      \* page[t]: the first page of history: still due, read, or merged
    bubble,    \* bubble[t][m]: what t shows of the message
    pending,   \* sends whose optimistic bubble is on their tab's screen
    behind,    \* history: behind[t], messages of which t was not told something in time
    contended, \* history: messages changed while another change was on its way
    adrift     \* history: calls that timed out while their tab had no connection

client == <<page, bubble, pending>>
history == <<behind, contended, adrift>>
chatVars == <<row, write, connected, room, drops, inbox, client, history>>

-----------------------------------------------------------------------------
(* Rows, calls and events *)

Views == Writes \cup {Tombstone}
Row == [text : Writes \cup {None}, deleted : BOOLEAN]

\* "sent" is on the wire, "over" is answered, refused or lost.
Phases == {"buffered", "sent", "loaded", "written", "over"}
Kinds == {"send", "edit", "remove"}
NoMessage == None

Unmade == [kind |-> "none"]
Calls ==
    {Unmade} \cup
    [kind : Kinds, tab : Tabs, message : Messages \cup {NoMessage}, before : Writes \cup {None},
     phase : Phases,
     line : BOOLEAN,      \* it was not cut off from the connection it takes
     waiting : BOOLEAN,   \* requestAck is still waiting
     answer : Views \cup {None}]

Events ==
    [kind : {"new"}, message : Messages, view : Views, write : Writes]
      \cup [kind : {"edited"}, message : Messages, view : Views]
      \cup [kind : {"deleted"}, message : Messages]
      \cup [kind : {"ack"}, message : Messages, view : Views, write : Writes]

\* What toMessage makes of a row.
Exists(m) == row[m].text # None
View(m) == IF row[m].deleted THEN Tombstone ELSE row[m].text

ChatTypeOK ==
    /\ row \in [Messages -> Row]
    /\ write \in [Writes -> Calls]
    /\ connected \subseteq Tabs /\ room \subseteq connected
    /\ drops \in [Tabs -> 0..MaxDrops]
    /\ inbox \in [Tabs -> Seq(Events)]
    /\ page \in [Tabs -> [state : {"due", "read", "merged"}, rows : [Messages -> Views \cup {None}]]]
    /\ bubble \in [Tabs -> [Messages -> Views \cup {None}]]
    /\ pending \subseteq Writes
    /\ behind \in [Tabs -> SUBSET Messages]
    /\ contended \subseteq Messages /\ adrift \subseteq Writes
    /\ \A t \in Tabs, m \in Messages : bubble[t][m] # None => Exists(m)

Made(w) == write[w] # Unmade
Of(m) == {w \in Writes : Made(w) /\ write[w].message = m}
Under(w) == Made(w) /\ (write[w].phase # "over" \/ write[w].waiting)
About(t) == {inbox[t][i].message : i \in DOMAIN inbox[t]}

\* Something that concerns the message has not come to rest yet.
Busy(m) == (\E w \in Of(m) : Under(w)) \/ \E t \in Tabs : m \in About(t)

-----------------------------------------------------------------------------
(* Plausible slips *)

DrawnTwice(held, w) == held         \* the echoed clientId is not matched
OnlyOthers(t) == room \ {t}         \* socket.to for nsp.to
JoinsAtOnce(t) == t \notin room     \* the join is not left to "connect"

-----------------------------------------------------------------------------
(* The tab: chat-send.ts and chat-messages.ts *)

\* replaceMessage and tombstoneMessage: "Unknown id: ignored".
Replaced(t, m, view) == IF bubble[t][m] = None THEN bubble ELSE [bubble EXCEPT ![t][m] = view]

\* An emit goes out at once, or waits for the connection.
Emitted(t) == IF t \in connected THEN "sent" ELSE "buffered"

\* requestAck
Call(w, kind, t, m) ==
    /\ ~Made(w)
    /\ write' = [write EXCEPT ![w] =
         [kind |-> kind, tab |-> t, message |-> m,
          before |-> IF m = NoMessage THEN None ELSE bubble[t][m],
          phase |-> Emitted(t), line |-> TRUE, waiting |-> TRUE, answer |-> None]]
    /\ contended' = IF m # NoMessage /\ Busy(m) THEN contended \cup {m} ELSE contended
    /\ UNCHANGED <<row, connected, room, drops, inbox, page, behind, adrift>>

\* sendMessage draws its bubble under an id of its own.
SendMessage(t, w) ==
    /\ Call(w, "send", t, NoMessage)
    /\ pending' = pending \cup {w}
    /\ UNCHANGED bubble

\* editMessage and deleteMessage, from the menu of a bubble that shows a text.
Shows(t, m) == bubble[t][m] \in Writes

EditMessage(t, w, m) ==
    /\ Shows(t, m)
    /\ Call(w, "edit", t, m)
    /\ bubble' = Replaced(t, m, w)
    /\ UNCHANGED pending

DeleteMessage(t, w, m) ==
    /\ Shows(t, m)
    /\ Call(w, "remove", t, m)
    /\ bubble' = Replaced(t, m, Tombstone)
    /\ UNCHANGED pending

\* dropPending, or replaceMessage with the row as it was held.
TakenBack(t, w) ==
    IF write[w].kind = "send" THEN bubble ELSE Replaced(t, write[w].message, write[w].before)

Answered(w) == \E i \in DOMAIN inbox[write[w].tab] :
                  /\ inbox[write[w].tab][i].kind = "ack" /\ inbox[write[w].tab][i].write = w

\* No answer in ACK_TIMEOUT_MS: "a failure" if the socket is connected, and "a
\* wait" if it is not.
TimeOut(w) ==
    LET t == write[w].tab IN
    /\ Made(w) /\ write[w].waiting
    /\ write' = [write EXCEPT ![w].waiting = FALSE]
    /\ IF t \in connected
       THEN bubble' = TakenBack(t, w) /\ pending' = pending \ {w} /\ UNCHANGED adrift
       ELSE adrift' = adrift \cup {w} /\ UNCHANGED <<bubble, pending>>
    /\ behind' = IF Answered(w) THEN [behind EXCEPT ![t] = @ \cup {write[w].message}] ELSE behind
    /\ UNCHANGED <<row, connected, room, drops, inbox, page, contended>>

\* appendMessage: by id, and by clientId.
Appended(t, m, view) == [bubble EXCEPT ![t][m] = view]
Undrawn(held, w) == held \ {w}

\* A broadcast.  An edit or a deletion of a message the tab does not hold is
\* nothing to it.
HearBroadcast(t, e) ==
    LET Known == bubble[t][e.message] # None IN
    \/ /\ e.kind = "new"
       /\ bubble' = Appended(t, e.message, e.view)
       /\ pending' = IF write[e.write].tab = t THEN Undrawn(pending, e.write) ELSE pending
       /\ UNCHANGED <<write, behind>>
    \/ /\ e.kind \in {"edited", "deleted"}
       /\ bubble' = Replaced(t, e.message, IF e.kind = "edited" THEN e.view ELSE Tombstone)
       /\ behind' = IF Known THEN behind ELSE [behind EXCEPT ![t] = @ \cup {e.message}]
       /\ UNCHANGED <<write, pending>>

\* The answer to a call; the tab may have stopped waiting for it.
HearAck(t, e) ==
    LET q == write[e.write] IN
    /\ e.kind = "ack"
    /\ write' = [write EXCEPT ![e.write].waiting = FALSE]
    /\ bubble' = CASE q.waiting /\ q.kind = "send" -> Appended(t, e.message, e.view)
                   [] q.waiting /\ q.kind = "edit" -> Replaced(t, e.message, e.view)
                   [] OTHER -> bubble
    /\ pending' = IF q.waiting THEN Undrawn(pending, e.write) ELSE pending
    /\ UNCHANGED behind

\* The next event of a tab.
Receive(t) ==
    LET e == Head(inbox[t]) IN
    /\ inbox[t] # <<>>
    /\ inbox' = [inbox EXCEPT ![t] = Tail(@)]
    /\ HearBroadcast(t, e) \/ HearAck(t, e)
    /\ UNCHANGED <<row, connected, room, drops, page, contended, adrift>>

NoPage(state) == [state |-> state, rows |-> [m \in Messages |-> None]]

\* listMessages reads the first page, and mergeOlder keeps what is already held.
ReadPage(t) ==
    /\ page[t].state = "due"
    /\ page' = [page EXCEPT ![t] =
         [state |-> "read", rows |-> [m \in Messages |-> IF Exists(m) THEN View(m) ELSE None]]]
    /\ UNCHANGED <<row, write, connected, room, drops, inbox, bubble, pending, history>>

\* Rows the tab can learn of only from its page: their broadcast is past it.
PastBroadcast(t) ==
    {m \in Messages :
       /\ Exists(m) /\ bubble[t][m] = None
       /\ \A w \in Of(m) : write[w].kind = "send" => write[w].phase # "written"
       /\ \A i \in DOMAIN inbox[t] : inbox[t][i].kind = "new" => inbox[t][i].message # m}

\* getMessages answers a failure with an empty page, which is merged like any.
MissPage(t) ==
    /\ page[t].state = "due"
    /\ page' = [page EXCEPT ![t] = NoPage("read")]
    /\ behind' = [behind EXCEPT ![t] = @ \cup PastBroadcast(t)]
    /\ UNCHANGED <<row, write, connected, room, drops, inbox, bubble, pending, contended, adrift>>

MergedOlder(t) ==
    [m \in Messages |-> IF bubble[t][m] = None THEN page[t].rows[m] ELSE bubble[t][m]]

MergePage(t) ==
    /\ page[t].state = "read"
    /\ bubble' = [bubble EXCEPT ![t] = MergedOlder(t)]
    /\ page' = [page EXCEPT ![t] = NoPage("merged")]
    /\ UNCHANGED <<row, write, connected, room, drops, inbox, pending, history>>

-----------------------------------------------------------------------------
(* The connection: use-chat-socket.ts *)

Mine(t) == {w \in Writes : Made(w) /\ write[w].tab = t}

\* The token runs out, or the network does.  Calls that have reached the server
\* run on, with nobody to answer.
Drop(t) ==
    /\ t \in connected /\ drops[t] < MaxDrops
    /\ drops' = [drops EXCEPT ![t] = @ + 1]
    /\ connected' = connected \ {t} /\ room' = room \ {t}
    /\ inbox' = [inbox EXCEPT ![t] = <<>>]
    /\ write' = [w \in Writes |->
         CASE w \in Mine(t) /\ write[w].phase = "sent" -> [write[w] EXCEPT !.phase = "over"]
           [] w \in Mine(t) /\ write[w].phase \in {"loaded", "written"} ->
                [write[w] EXCEPT !.line = FALSE]
           [] OTHER -> write[w]]
    /\ behind' = [behind EXCEPT ![t] =
         @ \cup About(t) \cup {m \in Messages : \E w \in Of(m) \cap Mine(t) : Under(w)}]
    /\ UNCHANGED <<row, client, contended, adrift>>

\* What was buffered is sent before the tab asks to join.
Connect(t) ==
    /\ t \notin connected
    /\ connected' = connected \cup {t}
    /\ write' = [w \in Writes |->
         IF w \in Mine(t) /\ write[w].phase = "buffered" THEN [write[w] EXCEPT !.phase = "sent"]
                                                         ELSE write[w]]
    /\ UNCHANGED <<row, room, drops, inbox, client, history>>

\* channel:join, which takes a membership check; no history comes with it.
MayJoin(t) == t \in connected \ room

JoinChannel(t) ==
    /\ MayJoin(t)
    /\ room' = room \cup {t}
    /\ UNCHANGED <<row, write, connected, drops, inbox, client, history>>

-----------------------------------------------------------------------------
(* The handlers: chat.namespace.js and chat.service.js *)

Running(w, kind, phase) == Made(w) /\ write[w].kind = kind /\ write[w].phase = phase

\* message:send: the row first.
Insert(w, m) ==
    /\ Running(w, "send", "sent")
    /\ ~Exists(m)
    /\ row' = [row EXCEPT ![m] = [text |-> w, deleted |-> FALSE]]
    /\ write' = [write EXCEPT ![w].message = m, ![w].phase = "written", ![w].answer = w]
    /\ UNCHANGED <<connected, room, drops, inbox, client, history>>

\* loadForWrite, and what the service judges of the row.
Load(w) ==
    /\ \/ Running(w, "edit", "sent") /\ ~row[write[w].message].deleted
       \/ Running(w, "remove", "sent")
    /\ write' = [write EXCEPT ![w].phase = "loaded"]
    /\ UNCHANGED <<row, connected, room, drops, inbox, client, history>>

\* updateMessage leaves deletedAt alone and returns the row.
Returned(w) == IF row[write[w].message].deleted THEN Tombstone ELSE w

Update(w) ==
    /\ Running(w, "edit", "loaded")
    /\ row' = [row EXCEPT ![write[w].message].text = w]
    /\ write' = [write EXCEPT ![w].phase = "written", ![w].answer = Returned(w)]
    /\ UNCHANGED <<connected, room, drops, inbox, client, history>>

\* softDeleteMessage, or the tombstone that is there already.
SoftDeleteMessage(w) ==
    /\ Running(w, "remove", "loaded")
    /\ row' = [row EXCEPT ![write[w].message].deleted = TRUE]
    /\ write' = [write EXCEPT ![w].phase = "written", ![w].answer = Tombstone]
    /\ UNCHANGED <<connected, room, drops, inbox, client, history>>

\* "To the whole room INCLUDING the sender", and then the ack.
Audience(t) == room
Acked(w) == IF write[w].line THEN {write[w].tab} ELSE {}

Broadcast(w) ==
    LET q == write[w] IN
    CASE q.kind = "send" ->
           [kind |-> "new", message |-> q.message, view |-> q.answer, write |-> w]
      [] q.kind = "edit" -> [kind |-> "edited", message |-> q.message, view |-> q.answer]
      [] q.kind = "remove" -> [kind |-> "deleted", message |-> q.message]

Ack(w) ==
    [kind |-> "ack", message |-> write[w].message, view |-> write[w].answer, write |-> w]

\* A tab outside the room hears nothing, and need not if its page, still to be
\* read, is to bring it the message.
Answer(w) ==
    LET m == write[w].message IN
    /\ Made(w) /\ write[w].phase = "written"
    /\ inbox' = [t \in Tabs |->
         inbox[t] \o (IF t \in Audience(write[w].tab) THEN <<Broadcast(w)>> ELSE <<>>)
                  \o (IF t \in Acked(w) THEN <<Ack(w)>> ELSE <<>>)]
    /\ behind' = [t \in Tabs |->
         IF t \in room \/ (page[t].state = "due" /\ bubble[t][m] = None)
         THEN behind[t] ELSE behind[t] \cup {m}]
    /\ write' = [write EXCEPT ![w].phase = "over"]
    /\ UNCHANGED <<row, connected, room, drops, client, contended, adrift>>

\* chat:error: too many messages, no member any more, a message that is gone, a
\* database that fails.  The notice does not settle the call.
Refuse(w) ==
    LET q == write[w] IN
    /\ Made(w) /\ q.phase \in {"sent", "loaded"}
    /\ write' = [write EXCEPT ![w].phase = "over"]
    /\ behind' = IF q.waiting \/ q.message = NoMessage
                 THEN behind ELSE [behind EXCEPT ![q.tab] = @ \cup {q.message}]
    /\ UNCHANGED <<row, connected, room, drops, inbox, client, contended, adrift>>

-----------------------------------------------------------------------------
\* Tabs that have just been opened on an empty channel.
ChatInit ==
    /\ row = [m \in Messages |-> [text |-> None, deleted |-> FALSE]]
    /\ write = [w \in Writes |-> Unmade]
    /\ connected = {} /\ room = {}
    /\ drops = [t \in Tabs |-> 0]
    /\ inbox = [t \in Tabs |-> <<>>]
    /\ page = [t \in Tabs |-> NoPage("due")]
    /\ bubble = [t \in Tabs |-> [m \in Messages |-> None]]
    /\ pending = {}
    /\ behind = [t \in Tabs |-> {}] /\ contended = {} /\ adrift = {}

TabStep(t) ==
    \/ \E w \in Writes : SendMessage(t, w) \/ \E m \in Messages : EditMessage(t, w, m) \/ DeleteMessage(t, w, m)
    \/ Receive(t) \/ ReadPage(t) \/ MissPage(t) \/ MergePage(t)
    \/ Drop(t) \/ Connect(t) \/ JoinChannel(t)

WriteStep(w) ==
    \/ \E m \in Messages : Insert(w, m)
    \/ Load(w) \/ Update(w) \/ SoftDeleteMessage(w) \/ Answer(w) \/ Refuse(w) \/ TimeOut(w)

ChatNext == (\E t \in Tabs : TabStep(t)) \/ (\E w \in Writes : WriteStep(w))

ChatSpec == ChatInit /\ [][ChatNext]_chatVars

-----------------------------------------------------------------------------
(* Properties *)

\* The thread a tab has put together agrees with the table once nothing about a
\* message is on its way, whatever was drawn early, acked late, timed out or
\* taken back: except for what the tab was not told, and for a message that was
\* changed while another change of it was under way.
ThreadsAgree ==
    \A t \in Tabs, m \in Messages :
        Exists(m) /\ page[t].state = "merged" /\ ~Busy(m) /\ m \notin behind[t] \cup contended =>
            bubble[t][m] = View(m)

\* "The bubble then spins with no way out": a bubble is pending only as long as
\* its send is under way, unless the call timed out while the tab was offline.
NoStuckBubble ==
    \A w \in pending : Under(w) \/ w \in adrift

\* "The ack is addressed to this socket alone, so it always arrives": the same
\* without the exception.
BubblesSettle ==
    \A w \in pending : Under(w)

\* The same as ThreadsAgree for a tab that never lost its connection, without
\* the exceptions.
ThreadsAlwaysAgree ==
    \A t \in Tabs, m \in Messages :
        Exists(m) /\ page[t].state = "merged" /\ ~Busy(m) /\ drops[t] = 0 /\ t \in room =>
            bubble[t][m] = View(m)

\* "Editing a deleted message is 404": no text is written into a tombstone.
NoTextInTombstones ==
    [][\A m \in Messages : row[m].deleted => row'[m] = row[m]]_chatVars

\* The same, except for a message changed while another change of it was on its
\* way: a tombstone is written to only by an edit that had been let in before.
TombstonesStay ==
    [][\A m \in Messages \ contended : row[m].deleted => row'[m] = row[m]]_chatVars

=============================================================================
