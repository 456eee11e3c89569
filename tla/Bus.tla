---------------------------------- MODULE Bus ----------------------------------
(***************************************************************************)
(* Instant notifications (addons/bus): messages are rows of bus_bus; the   *)
(* commit of their transaction sends a PostgreSQL NOTIFY to the dispatcher *)
(* of each server process, which wakes the requests that wait for one of   *)
(* the channels.  A client asks again and again for what is newer than the *)
(* last message it has (longpolling_bus.js).                               *)
(*                                                                         *)
(* This is the dispatcher of a threaded server: a request may be           *)
(* interrupted between looking up the set of a channel and adding its      *)
(* event to it.  A request and its event have one name.                    *)
(***************************************************************************)
EXTENDS Naturals, FiniteSets

CONSTANTS Sender,     \* transactions that send
          Client,     \* browser tabs
          Request,    \* threads that answer polls
          Channel,
          channelsOf, \* the channels of each client
          NoOne,      \* no client
          Nothing,    \* no channel
          Orphan,     \* a set of events that is not in the dictionary any more
          MaxId,      \* bound on the messages sent
          MaxFaults   \* bound on polls that fail or are aborted

ASSUME BusAssumption ==
    /\ channelsOf \in [Client -> SUBSET Channel]
    /\ MaxId \in Nat /\ MaxFaults \in Nat
    /\ NoOne \notin Client
    /\ {Nothing, Orphan} \cap Channel = {} /\ Nothing # Orphan

VARIABLES
    ids,       \* last id given out
    sending,   \* the message of each transaction, and whether it is committed
    table,     \* the committed messages
    old,       \* those older than TIMEOUT
    loop,      \* the state of the dispatcher's thread
    queue,     \* channels notified to its connection
    batch,     \* channels it has read and not yet looked up
    woken,     \* events it is about to set
    channels,  \* the events registered for each channel
    req,       \* the requests
    event,     \* the events that are set
    last,      \* the newest id each client has
    got,       \* the messages it has handled
    faults,    \* number of failed and aborted polls
    due        \* channels on which a message was committed for a registered event

sender == <<ids, sending, table, old>>
dispatcher == <<loop, queue, batch, woken>>
client == <<last, got>>
vars == <<sender, dispatcher, client, channels, req, event, faults, due>>

Message == [id : 1..MaxId, channel : Channel]

Idle == [state |-> "idle"]

(* `todo' are the channels to register for, `set' is the one whose set of   *)
(* events was just looked up; `live' unless the client has given up.        *)
Free == [state |-> "free", by |-> NoOne]
Waiting(c, todo, set, live) ==
    [state |-> "wait", by |-> c, live |-> live, todo |-> todo, set |-> set]
Answer(c, answer, live) ==
    [state |-> "answer", by |-> c, live |-> live, answer |-> answer]

TypeOK ==
    /\ ids \in 0..MaxId
    /\ sending \in [Sender -> {Idle} \cup [state : {"open", "committed"}, msg : Message]]
    /\ table \subseteq Message /\ old \subseteq table
    /\ \A m, n \in table : m.id = n.id => m = n
    /\ loop \in {"off", "starting", "listening", "sleeping"}
    /\ queue \subseteq Channel /\ batch \subseteq Channel
    /\ loop # "listening" => queue = {} /\ batch = {}
    /\ woken \subseteq Request
    /\ channels \in [Channel -> SUBSET Request]
    /\ req \in [Request ->
           {Free} \cup [state : {"wait"}, by : Client, live : BOOLEAN, todo : SUBSET Channel,
                        set : Channel \cup {Nothing, Orphan}]
                  \cup [state : {"answer"}, by : Client, live : BOOLEAN, answer : SUBSET Message]]
    /\ event \subseteq Request
    /\ last \in [Client -> 0..MaxId]
    /\ got \in [Client -> SUBSET Message]
    /\ faults \in 0..MaxFaults
    /\ due \in [Request -> SUBSET Channel]

Init ==
    /\ ids = 0
    /\ sending = [s \in Sender |-> Idle]
    /\ table = {} /\ old = {}
    /\ loop = "off"
    /\ queue = {} /\ batch = {} /\ woken = {}
    /\ channels = [ch \in Channel |-> {}]
    /\ req = [r \in Request |-> Free]
    /\ event = {}
    /\ last = [c \in Client |-> 0]
    /\ got = [c \in Client |-> {}]
    /\ faults = 0
    /\ due = [r \in Request |-> {}]

-----------------------------------------------------------------------------
(* sendmany(): the row is created, the id drawn *)
Send(s, ch) ==
    /\ sending[s] = Idle
    /\ ids < MaxId
    /\ ids' = ids + 1
    /\ sending' = [sending EXCEPT ![s] = [state |-> "open", msg |-> [id |-> ids + 1, channel |-> ch]]]
    /\ UNCHANGED <<table, old, dispatcher, client, channels, req, event, faults, due>>

Rollback(s) ==
    /\ sending[s].state = "open"
    /\ sending' = [sending EXCEPT ![s] = Idle]
    /\ UNCHANGED <<ids, table, old, dispatcher, client, channels, req, event, faults, due>>

Commit(s) ==
    /\ sending[s].state = "open"
    /\ sending' = [sending EXCEPT ![s].state = "committed"]
    /\ table' = table \cup {sending[s].msg}
    /\ due' = [r \in Request |-> IF r \in channels[sending[s].msg.channel]
                                 THEN due[r] \cup {sending[s].msg.channel} ELSE due[r]]
    /\ UNCHANGED <<ids, old, dispatcher, client, channels, req, event, faults>>

(* What was to be notified on channel ch is lost. *)
NotDue(ch) == due' = [r \in Request |-> due[r] \ {ch}]

(* the commit hook of sendmany(): nobody hears it while the loop is down,    *)
(* and it may not be sent at all                                            *)
Notify(s) ==
    /\ sending[s].state = "committed"
    /\ sending' = [sending EXCEPT ![s] = Idle]
    /\ \/ /\ loop = "listening"
          /\ queue' = queue \cup {sending[s].msg.channel}
          /\ UNCHANGED due
       \/ /\ NotDue(sending[s].msg.channel)
          /\ UNCHANGED queue
    /\ UNCHANGED <<ids, table, old, loop, batch, woken, client, channels, req, event, faults>>

Age(m) ==
    /\ m \in table \ old
    /\ old' = old \cup {m}
    /\ UNCHANGED <<ids, sending, table, dispatcher, client, channels, req, event, faults, due>>

(* gc(), of messages older than two TIMEOUTs *)
Gc(m) ==
    /\ m \in old
    /\ table' = table \ {m}
    /\ old' = old \ {m}
    /\ UNCHANGED <<ids, sending, dispatcher, client, channels, req, event, faults, due>>

-----------------------------------------------------------------------------
(* ImBus.poll(): what a client that has `from' is answered *)
News(c, from) ==
    { m \in table : /\ m.channel \in channelsOf[c]
                    /\ IF from = 0 THEN m \notin old ELSE m.id > from }

Polling(c) == \E r \in Request : req[r].by = c /\ req[r].live

(* The client polls and the request looks for past messages; if there are   *)
(* none it starts the loop, should it be the first, and registers.          *)
Poll(c, r) ==
    /\ ~Polling(c)
    /\ req[r] = Free
    /\ IF News(c, last[c]) # {}
       THEN /\ req' = [req EXCEPT ![r] = Answer(c, News(c, last[c]), TRUE)]
            /\ UNCHANGED loop
       ELSE /\ req' = [req EXCEPT ![r] = Waiting(c, channelsOf[c], Nothing, TRUE)]
            /\ loop' = IF loop = "off" THEN "starting" ELSE loop
    /\ UNCHANGED <<sender, queue, batch, woken, client, channels, event, faults, due>>

(* setdefault(channel, set()) ... *)
LookUp(r, ch) ==
    /\ req[r].state = "wait"
    /\ req[r].set = Nothing
    /\ ch \in req[r].todo
    /\ req' = [req EXCEPT ![r].set = ch, ![r].todo = req[r].todo \ {ch}]
    /\ UNCHANGED <<sender, dispatcher, client, channels, event, faults, due>>

(* ... .add(event), to a set that the loop may have taken out meanwhile *)
Add(r) ==
    /\ req[r].state = "wait"
    /\ req[r].set # Nothing
    /\ channels' = [ch \in Channel |-> IF ch = req[r].set THEN channels[ch] \cup {r} ELSE channels[ch]]
    /\ req' = [req EXCEPT ![r].set = Nothing]
    /\ UNCHANGED <<sender, dispatcher, client, event, faults, due>>

Registered(r) == req[r].state = "wait" /\ req[r].todo = {} /\ req[r].set = Nothing

(* event.wait(timeout) returns when the event is set, and when it is not *)
Returns_NoTimeout(r) == r \in event

Returns(r) == TRUE

Unregistered_Not(r) == channels

Unregistered(r) == [ch \in Channel |-> channels[ch] \ {r}]

(* Nobody waits for the event any more: setting it has no effect. *)
Forgotten(r) ==
    /\ event' = event \ {r}
    /\ woken' = woken \ {r}
    /\ due' = [due EXCEPT ![r] = {}]

(* The second look for messages, and the finally clause.  The answer is     *)
(* for the number the poll came with, which the client still has if it      *)
(* is going to use it.                                                      *)
Wake(r) ==
    /\ Registered(r)
    /\ Returns(r)
    /\ req' = [req EXCEPT ![r] = Answer(@.by, News(@.by, last[@.by]), @.live)]
    /\ channels' = Unregistered(r)
    /\ Forgotten(r)
    /\ UNCHANGED <<sender, loop, queue, batch, client, faults>>

(* the second look raises: except Exception: pass *)
WakeRaises(r) ==
    /\ Registered(r)
    /\ Returns(r)
    /\ faults < MaxFaults
    /\ faults' = faults + 1
    /\ req' = [req EXCEPT ![r] = Answer(@.by, {}, @.live)]
    /\ channels' = Unregistered(r)
    /\ Forgotten(r)
    /\ UNCHANGED <<sender, loop, queue, batch, client>>

(* _onPoll() of the client *)
Newest(n, answer) ==
    CHOOSE i \in {n} \cup { m.id : m \in answer } : i >= n /\ \A m \in answer : i >= m.id

Handle_Aborted(r) ==
    LET c == req[r].by IN
    /\ req[r].state = "answer"
    /\ req' = [req EXCEPT ![r] = Free]
    /\ last' = [last EXCEPT ![c] = Newest(@, req[r].answer)]
    /\ got' = IF req[r].live THEN [got EXCEPT ![c] = @ \cup req[r].answer] ELSE got
    /\ UNCHANGED <<sender, dispatcher, channels, event, faults, due>>

Handle(r) ==
    LET c == req[r].by IN
    /\ req[r].state = "answer"
    /\ req' = [req EXCEPT ![r] = Free]
    /\ IF req[r].live
       THEN /\ last' = [last EXCEPT ![c] = Newest(@, req[r].answer)]
            /\ got' = [got EXCEPT ![c] = @ \cup req[r].answer]
       ELSE UNCHANGED client
    /\ UNCHANGED <<sender, dispatcher, channels, event, faults, due>>

(* addChannel() and deleteChannel() abort the poll, errors end it: the       *)
(* request goes on for nobody.                                              *)
Abort(r) ==
    /\ req[r].state # "free"
    /\ req[r].live
    /\ faults < MaxFaults
    /\ faults' = faults + 1
    /\ req' = [req EXCEPT ![r].live = FALSE]
    /\ UNCHANGED <<sender, dispatcher, client, channels, event, due>>

-----------------------------------------------------------------------------
Listen ==
    /\ loop \in {"starting", "sleeping"}
    /\ loop' = "listening"
    /\ UNCHANGED <<sender, queue, batch, woken, client, channels, req, event, faults, due>>

(* select() and conn.poll(): all the notifications there are *)
Fetch ==
    /\ batch = {} /\ woken = {}
    /\ queue # {}
    /\ batch' = queue
    /\ queue' = {}
    /\ UNCHANGED <<sender, loop, woken, client, channels, req, event, faults, due>>

(* self.channels.pop(channel, set()) *)
Taken_OnlyOne(ch) ==
    IF channels[ch] = {} THEN {} ELSE {CHOOSE r \in channels[ch] : TRUE}

Taken(ch) == channels[ch]

Dispatch(ch) ==
    /\ ch \in batch
    /\ batch' = batch \ {ch}
    /\ woken' = woken \cup Taken(ch)
    /\ channels' = [channels EXCEPT ![ch] = {}]
    /\ req' = [r \in Request |-> IF req[r].state = "wait" /\ req[r].set = ch
                                 THEN [req[r] EXCEPT !.set = Orphan] ELSE req[r]]
    /\ UNCHANGED <<sender, loop, queue, client, event, faults, due>>

SetEvent(r) ==
    /\ batch = {}
    /\ r \in woken
    /\ woken' = woken \ {r}
    /\ event' = event \cup {r}
    /\ UNCHANGED <<sender, loop, queue, batch, client, channels, req, faults, due>>

(* The connection is lost, and what was notified to it; run() sleeps and     *)
(* listens again.                                                           *)
AfterLoss == {}

LoopRaises ==
    /\ loop = "listening"
    /\ batch = {} /\ woken = {}
    /\ loop' = "sleeping"
    /\ queue' = AfterLoss
    /\ due' = [r \in Request |-> {}]
    /\ UNCHANGED <<sender, batch, woken, client, channels, req, event, faults>>

Next ==
    \/ \E s \in Sender, ch \in Channel : Send(s, ch)
    \/ \E s \in Sender : Rollback(s)
    \/ \E s \in Sender : Commit(s)
    \/ \E s \in Sender : Notify(s)
    \/ \E m \in Message : Age(m)
    \/ \E m \in Message : Gc(m)
    \/ \E c \in Client, r \in Request : Poll(c, r)
    \/ \E r \in Request, ch \in Channel : LookUp(r, ch)
    \/ \E r \in Request : Add(r)
    \/ \E r \in Request : Wake(r)
    \/ \E r \in Request : WakeRaises(r)
    \/ \E r \in Request : Handle(r)
    \/ \E r \in Request : Abort(r)
    \/ Listen
    \/ Fetch
    \/ \E ch \in Channel : Dispatch(ch)
    \/ \E r \in Request : SetEvent(r)
    \/ LoopRaises

Spec == Init /\ [][Next]_vars

(* Clients go on polling, requests go on and time out.  Nothing is assumed  *)
(* of senders and of the loop.                                              *)
Fairness ==
    /\ \A c \in Client : WF_vars(\E r \in Request : Poll(c, r))
    /\ \A r \in Request :
        /\ \A ch \in Channel : WF_vars(LookUp(r, ch))
        /\ WF_vars(Add(r))
        /\ WF_vars(Wake(r))
        /\ WF_vars(Handle(r))

FairSpec == Spec /\ Fairness

-----------------------------------------------------------------------------
(* An event that was registered when a message was committed will be set by *)
(* the NOTIFY of this message, or by an earlier one, as long as the loop    *)
(* listens and the NOTIFY is sent: "some concurrent threads will be         *)
(* awakened", whatever the other channels and requests do.                  *)
Awakened ==
    \A r \in Request : \A ch \in due[r] :
        \/ r \in event \cup woken
        \/ /\ r \in channels[ch]
           /\ \/ ch \in queue \cup batch
              \/ \E s \in Sender : /\ sending[s].state = "committed"
                                  /\ sending[s].msg.channel = ch

(* "gc pointers to event": only requests that wait are registered, for the  *)
(* channels of their client that they came to.                              *)
NothingLeaks ==
    \A ch \in Channel : \A r \in channels[ch] :
        /\ req[r].state = "wait"
        /\ ch \in channelsOf[req[r].by] \ req[r].todo

(* Messages do not wait for ever: when the senders pause, every client comes *)
(* to have nothing new to ask for, although wake-ups get lost (between the   *)
(* look at the table and the registration, while the loop is down, with a   *)
(* set of events that was taken out).                                       *)
CatchesUp == \A c \in Client : []<>(News(c, last[c]) = {})

(* poll() "returns the unread notifications": a client does not come past a *)
(* message it has not got, whatever polls are aborted or fail, as long as   *)
(* messages are committed in the order of their ids.  When a transaction    *)
(* overtakes another this is lost (MCBusUnread.cfg).                        *)
Unread ==
    \A c \in Client : \A m \in table \ old :
        m.channel \in channelsOf[c] /\ m.id <= last[c] => m \in got[c]
=============================================================================
