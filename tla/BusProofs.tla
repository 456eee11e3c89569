------------------------------- MODULE BusProofs -------------------------------
(* Instant notifications, for any number of transactions, tabs, requests    *)
(* and channels.  What is registered is what a request that waits has asked *)
(* for and looked up (Asked, NothingLeaks), which makes an event that is    *)
(* due either set or still to be found by the loop (Awakened).  When        *)
(* messages are committed in the order of their ids (InOrder) the answer of *)
(* a poll has no gaps (Gapless), and nothing is skipped (Unread).           *)
EXTENDS Bus, WellFoundedInduction, TLAPS

Waits == [state : {"wait"}, by : Client, live : BOOLEAN, todo : SUBSET Channel,
          set : Channel \cup {Nothing, Orphan}]
Answers == [state : {"answer"}, by : Client, live : BOOLEAN, answer : SUBSET Message]

(* No two messages have one id.                                             *)
Open(s) == sending[s].state = "open"
Numbered ==
    /\ \A m \in table : m.id <= ids
    /\ \A s \in Sender : Open(s) => /\ sending[s].msg.id <= ids
                                    /\ \A m \in table : m.id # sending[s].msg.id
    /\ \A s, u \in Sender : Open(s) /\ Open(u) /\ s # u => sending[s].msg.id # sending[u].msg.id

(* A request that waits registers for channels of its client.               *)
Asked == \A r \in Request : req[r].state = "wait" =>
    /\ req[r].todo \subseteq channelsOf[req[r].by]
    /\ req[r].set \in Channel => req[r].set \in channelsOf[req[r].by] \ req[r].todo

IInv == TypeOK /\ Numbered /\ Asked /\ NothingLeaks /\ Awakened

(* What is committed later has a larger id than what anyone has or is told. *)
InOrder ==
    /\ \A c \in Client : last[c] <= ids
    /\ \A r \in Request : req[r].state = "answer" => \A m \in req[r].answer : m.id <= ids
    /\ \A s \in Sender : Open(s) =>
         /\ \A m \in table : m.id < sending[s].msg.id
         /\ \A c \in Client : last[c] < sending[s].msg.id
         /\ \A r \in Request : req[r].state = "answer" =>
              \A m \in req[r].answer : m.id < sending[s].msg.id

(* A tab has one poll that it waits for.                                    *)
Live(r, c) == req[r].state # "free" /\ req[r].by = c /\ req[r].live
OnePoll == \A c \in Client : \A r, q \in Request : Live(r, c) /\ Live(q, c) => r = q

(* Its answer leaves out nothing between what the tab has and what it says. *)
Gapless == \A c \in Client : \A r \in Request :
    Live(r, c) /\ req[r].state = "answer" =>
        \A m \in table \ old : \A n \in req[r].answer :
            m.channel \in channelsOf[c] /\ last[c] < m.id /\ m.id <= n.id => m \in req[r].answer

UInv == IInv /\ InOrder /\ OnePoll /\ Gapless /\ Unread

(* Transactions that send do not overlap.                                   *)
OneAtATime == \A s, u \in Sender : s = u

-----------------------------------------------------------------------------
(* The largest of some numbers up to MaxId.                                 *)
LEMMA HasMax ==
    ASSUME NEW S \in SUBSET (0..MaxId), S # {}
    PROVE  \E i \in S : \A j \in S : i >= j
<1> DEFINE T == {MaxId - i : i \in S}
           R == {ss \in Nat \X Nat : ss[1] < ss[2]}
<1>0. MaxId \in Nat
  BY BusAssumption
<1>1. IsWellFoundedOn(R, Nat)
  BY NatLessThanWellFounded DEF OpToRel
<1>2. T \subseteq Nat /\ T # {}
  <2>1. \A i \in S : i \in 0..MaxId
    OBVIOUS
  <2>2. \A i \in 0..MaxId : MaxId - i \in Nat
    BY <1>0
  <2> QED
    BY <2>1, <2>2
<1>3. PICK x \in T : \A y \in T : ~(<<y, x>> \in R)
  <2> HIDE DEF R, T
  <2> QED
    BY <1>1, <1>2, WFMin
<1>4. PICK i \in S : x = MaxId - i
  BY <1>3
<1>5. ASSUME NEW j \in S PROVE i >= j
  <2>1. MaxId - j \in T /\ MaxId - j \in Nat /\ x \in Nat
    BY <1>2
  <2>2. ~(MaxId - j < x)
    BY <1>3, <2>1
  <2> QED
    BY <1>0, <1>4, <2>1, <2>2
<1> QED
  BY <1>5

(* The last id of an answer is that of one of its messages, or the one      *)
(* asked from.                                                              *)
LEMMA NewestIs ==
    ASSUME NEW n \in 0..MaxId, NEW answer \in SUBSET Message
    PROVE  /\ Newest(n, answer) \in {n} \cup {m.id : m \in answer}
           /\ Newest(n, answer) \in 0..MaxId
           /\ Newest(n, answer) >= n /\ \A m \in answer : Newest(n, answer) >= m.id
<1> DEFINE S == {n} \cup {m.id : m \in answer}
<1>1. S \in SUBSET (0..MaxId) /\ S # {}
  BY BusAssumption DEF Message
<1>2. \E i \in S : i >= n /\ \A m \in answer : i >= m.id
  BY <1>1, HasMax
<1>3. Newest(n, answer) \in S /\ Newest(n, answer) >= n /\ \A m \in answer : Newest(n, answer) >= m.id
  BY <1>2 DEF Newest
<1> QED
  BY <1>1, <1>3

(* Polls answer with rows of bus_bus.                                       *)
LEMMA NewsAreMessages == ASSUME NEW c, NEW from PROVE News(c, from) \subseteq table
BY DEF News

(* A request is free, waits or is answered, and has what belongs to that.   *)
LEMMA Kinds ==
    ASSUME TypeOK, NEW r \in Request
    PROVE  /\ req[r].state \in {"free", "wait", "answer"}
           /\ req[r].state = "free" => req[r] = Free
           /\ req[r].state = "wait" => req[r] \in Waits
           /\ req[r].state = "answer" => req[r] \in Answers
           /\ req[r].state # "free" => req[r].by \in Client /\ req[r].live \in BOOLEAN
BY DEF TypeOK, Waits, Answers, Free

(* The requests that polls make are of these kinds.                         *)
LEMMA Made ==
    ASSUME NEW c \in Client, NEW live \in BOOLEAN
    PROVE  /\ \A answer \in SUBSET Message :
                /\ Answer(c, answer, live) \in Answers
                /\ Answer(c, answer, live).state = "answer" /\ Answer(c, answer, live).answer = answer
                /\ Answer(c, answer, live).by = c
           /\ \A todo \in SUBSET Channel, set \in Channel \cup {Nothing, Orphan} :
                /\ Waiting(c, todo, set, live) \in Waits
                /\ Waiting(c, todo, set, live).state = "wait" /\ Waiting(c, todo, set, live).by = c
                /\ Waiting(c, todo, set, live).todo = todo /\ Waiting(c, todo, set, live).set = set
BY DEF Answer, Answers, Waiting, Waits

(* So are all requests.                                                     *)
LEMMA Known == TypeOK => req \in [Request -> {Free} \cup Waits \cup Answers]
BY DEF TypeOK, Waits, Answers

(* What a step makes of a request.                                          *)
LEMMA Changed ==
    ASSUME TypeOK, NEW r \in Request, NEW q \in {Free} \cup Waits \cup Answers,
           req' = [req EXCEPT ![r] = q]
    PROVE  req' \in [Request -> {Free} \cup Waits \cup Answers] /\ req'[r] = q
           /\ \A p \in Request \ {r} : req'[p] = req[p]
BY Known

-----------------------------------------------------------------------------
(* The senders and the table                                                *)
SenderType ==
    /\ ids \in 0..MaxId
    /\ sending \in [Sender -> {Idle} \cup [state : {"open", "committed"}, msg : Message]]
    /\ table \subseteq Message /\ old \subseteq table
    /\ \A m, n \in table : m.id = n.id => m = n

(* Every step keeps that no two messages have one id.                       *)
LEMMA SenderStep ==
    ASSUME SenderType, Numbered, [Next]_vars
    PROVE  SenderType' /\ Numbered'
<1> USE DEF SenderType
<1>1. ASSUME NEW s \in Sender, NEW ch \in Channel, Send(s, ch) PROVE SenderType' /\ Numbered'
  <2> DEFINE m == [id |-> ids + 1, channel |-> ch]
             x == [state |-> "open", msg |-> m]
  <2>1. /\ UNCHANGED <<table, old>> /\ ids < MaxId /\ ids' = ids + 1
        /\ sending' = [sending EXCEPT ![s] = x]
    BY <1>1 DEF Send
  <2>2. MaxId \in Nat
    BY BusAssumption
  <2>3. ids + 1 \in 1..MaxId /\ ids \in Nat
    BY <2>1, <2>2
  <2>4. x \in [state : {"open", "committed"}, msg : Message] /\ x.state = "open" /\ x.msg.id = ids + 1
    BY <2>3 DEF Message
  <2>5. ASSUME NEW n \in Message PROVE n.id \in Int
    BY <2>2 DEF Message
  <2> HIDE DEF x
  <2>6. sending'[s] = x /\ \A u \in Sender \ {s} : sending'[u] = sending[u]
    BY <2>1
  <2>7. \A u \in Sender : Open(u) => sending[u].msg \in Message
    BY DEF Open, Idle
  <2>8. SenderType'
    BY <2>1, <2>3, <2>4
  <2> QED
    BY <2>1, <2>3, <2>4, <2>5, <2>6, <2>7, <2>8 DEF Numbered, Open
<1>2. ASSUME NEW s \in Sender, Rollback(s) \/ Notify(s) PROVE SenderType' /\ Numbered'
  <2>1. UNCHANGED <<ids, table, old>> /\ sending' = [sending EXCEPT ![s] = Idle]
    BY <1>2 DEF Rollback, Notify
  <2>2. sending'[s] = Idle /\ \A u \in Sender \ {s} : sending'[u] = sending[u]
    BY <2>1
  <2>3. \A u \in Sender : Open(u)' => u # s /\ Open(u) /\ sending'[u] = sending[u]
    BY <2>2 DEF Open, Idle
  <2>4. SenderType'
    BY <2>1
  <2> QED
    BY <2>1, <2>3, <2>4 DEF Numbered
<1>3. ASSUME NEW s \in Sender, Commit(s) PROVE SenderType' /\ Numbered'
  <2>1. /\ UNCHANGED <<ids, old>> /\ sending' = [sending EXCEPT ![s].state = "committed"]
        /\ Open(s) /\ table' = table \cup {sending[s].msg}
    BY <1>3 DEF Commit, Open
  <2>2. sending[s] \in [state : {"open", "committed"}, msg : Message]
    BY <2>1 DEF Open, Idle
  <2>3. sending'[s] \in [state : {"open", "committed"}, msg : Message] /\ sending'[s].state = "committed"
    BY <2>1, <2>2
  <2>4. \A u \in Sender \ {s} : sending'[u] = sending[u]
    BY <2>1
  <2>5. \A u \in Sender : Open(u)' => u # s /\ Open(u) /\ sending'[u] = sending[u]
    BY <2>3, <2>4 DEF Open
  <2>6. sending' \in [Sender -> {Idle} \cup [state : {"open", "committed"}, msg : Message]]
    BY <2>1, <2>3, <2>4
  <2>7. SenderType'
    BY <2>1, <2>2, <2>6 DEF Numbered
  <2> QED
    BY <2>1, <2>5, <2>7 DEF Numbered
<1>4. CASE UNCHANGED sending /\ UNCHANGED ids /\ table' \subseteq table /\ old' \subseteq table'
  BY <1>4 DEF Numbered, Open
<1>5. ASSUME NEW m \in Message, Age(m) \/ Gc(m) PROVE SenderType' /\ Numbered'
  BY <1>4, <1>5 DEF Age, Gc
<1>6. CASE UNCHANGED sender
  BY <1>4, <1>6 DEF sender
<1>7. CASE UNCHANGED vars
  BY <1>6, <1>7 DEF vars
<1> QED
  BY <1>1, <1>2, <1>3, <1>5, <1>6, <1>7
     DEF Next, Poll, LookUp, Add, Wake, WakeRaises, Handle, Abort, Listen, Fetch, Dispatch, SetEvent, LoopRaises

(* The loop                                                                 *)
LoopType ==
    /\ loop \in {"off", "starting", "listening", "sleeping"}
    /\ queue \subseteq Channel /\ batch \subseteq Channel
    /\ loop # "listening" => queue = {} /\ batch = {}

(* The dispatcher's thread keeps the types of its own variables.            *)
LEMMA LoopStep == ASSUME TypeOK, [Next]_vars PROVE LoopType'
<1> USE DEF LoopType
<1>0. LoopType
  BY DEF TypeOK
<1>1. ASSUME NEW s \in Sender, Notify(s) PROVE LoopType'
  <2>1. sending[s].msg.channel \in Channel
    BY <1>1 DEF Notify, TypeOK, Idle, Message
  <2> QED
    BY <1>0, <1>1, <2>1 DEF Notify
<1>2. CASE Listen \/ Fetch \/ LoopRaises \/ \E ch \in Channel : Dispatch(ch)
  BY <1>0, <1>2 DEF Listen, Fetch, LoopRaises, Dispatch, AfterLoss
<1>3. CASE \E c \in Client, r \in Request : Poll(c, r)
  BY <1>0, <1>3 DEF Poll
<1>4. CASE UNCHANGED <<loop, queue, batch>>
  BY <1>0, <1>4
<1>5. CASE UNCHANGED vars
  BY <1>4, <1>5 DEF vars, dispatcher
<1> QED
  BY <1>1, <1>2, <1>3, <1>4, <1>5
     DEF Next, Send, Rollback, Commit, Age, Gc, LookUp, Add, Wake, WakeRaises, Handle, Abort, SetEvent, dispatcher

(* The requests and the clients                                             *)
RequestType ==
    /\ req \in [Request -> {Free} \cup Waits \cup Answers]
    /\ woken \subseteq Request /\ event \subseteq Request
    /\ channels \in [Channel -> SUBSET Request]
    /\ last \in [Client -> 0..MaxId]
    /\ got \in [Client -> SUBSET Message]
    /\ faults \in 0..MaxFaults
    /\ due \in [Request -> SUBSET Channel]

(* Requests keep theirs.                                                    *)
LEMMA RequestStep == ASSUME TypeOK, [Next]_vars PROVE RequestType'
<1>0. RequestType
  BY Known DEF TypeOK, RequestType
<1> USE DEF RequestType
<1>1. ASSUME NEW c \in Client, NEW r \in Request, Poll(c, r) PROVE RequestType'
  <2>1. Answer(c, News(c, last[c]), TRUE) \in Answers
    BY Made, NewsAreMessages DEF TypeOK
  <2>2. Waiting(c, channelsOf[c], Nothing, TRUE) \in Waits
    BY Made, BusAssumption
  <2>3. req' \in [Request -> {Free} \cup Waits \cup Answers]
    BY <1>0, <1>1, <2>1, <2>2 DEF Poll
  <2> QED
    BY <1>0, <1>1, <2>3 DEF Poll, sender, client
<1>2. ASSUME NEW r \in Request, NEW ch \in Channel, LookUp(r, ch) PROVE RequestType'
  <2>1. req[r] \in Waits
    BY <1>2, Kinds DEF LookUp
  <2>2. [req[r] EXCEPT !.set = ch, !.todo = req[r].todo \ {ch}] \in Waits
    BY <2>1 DEF Waits
  <2>3. req' = [req EXCEPT ![r] = [req[r] EXCEPT !.set = ch, !.todo = req[r].todo \ {ch}]]
    BY <1>0, <1>2 DEF LookUp
  <2>4. req' \in [Request -> {Free} \cup Waits \cup Answers]
    BY <1>0, <2>2, <2>3
  <2> QED
    BY <1>0, <1>2, <2>4 DEF LookUp, dispatcher, client
<1>3. ASSUME NEW r \in Request, Add(r) PROVE RequestType'
  <2>1. req[r] \in Waits
    BY <1>3, Kinds DEF Add
  <2>2. [req[r] EXCEPT !.set = Nothing] \in Waits
    BY <2>1 DEF Waits
  <2>3. req' \in [Request -> {Free} \cup Waits \cup Answers]
    BY <1>0, <1>3, <2>2 DEF Add
  <2> QED
    BY <1>0, <1>3, <2>3 DEF Add, dispatcher, client
<1>4. ASSUME NEW r \in Request, Wake(r) \/ WakeRaises(r) PROVE RequestType'
  <2>1. req[r].by \in Client /\ req[r].live \in BOOLEAN
    BY <1>4, Kinds DEF Wake, WakeRaises, Registered
  <2>2. PICK answer \in SUBSET Message : req' = [req EXCEPT ![r] = Answer(req[r].by, answer, req[r].live)]
    BY <1>4, NewsAreMessages DEF Wake, WakeRaises, TypeOK
  <2>3. Answer(req[r].by, answer, req[r].live) \in Answers
    BY <2>1, Made
  <2>4. req' \in [Request -> {Free} \cup Waits \cup Answers]
    BY <1>0, <2>2, <2>3
  <2>5. faults' \in 0..MaxFaults
    BY <1>0, <1>4, BusAssumption DEF Wake, WakeRaises
  <2> QED
    BY <1>0, <1>4, <2>4, <2>5 DEF Wake, WakeRaises, Forgotten, Unregistered, client
<1>5. ASSUME NEW r \in Request, Handle(r) PROVE RequestType'
  <2>1. req[r] \in Answers
    BY <1>5, Kinds DEF Handle
  <2>2. req[r].answer \in SUBSET Message /\ req[r].by \in Client
    BY <2>1 DEF Answers
  <2>3. Newest(last[req[r].by], req[r].answer) \in 0..MaxId
    BY <1>0, <2>2, NewestIs
  <2>4. last' \in [Client -> 0..MaxId] /\ got' \in [Client -> SUBSET Message]
    BY <1>0, <1>5, <2>2, <2>3 DEF Handle, client
  <2> QED
    BY <1>0, <1>5, <2>4 DEF Handle, dispatcher
<1>6. ASSUME NEW r \in Request, Abort(r) PROVE RequestType'
  <2>1. req[r] \in Waits \cup Answers
    BY <1>6, Kinds DEF Abort
  <2>2. [req[r] EXCEPT !.live = FALSE] \in Waits \cup Answers
    BY <2>1 DEF Waits, Answers
  <2>3. req' \in [Request -> {Free} \cup Waits \cup Answers]
    BY <1>0, <1>6, <2>2 DEF Abort
  <2>4. faults' \in 0..MaxFaults
    BY <1>0, <1>6, BusAssumption DEF Abort
  <2> QED
    BY <1>0, <1>6, <2>3, <2>4 DEF Abort, dispatcher, client
<1>7. ASSUME NEW ch \in Channel, Dispatch(ch) PROVE RequestType'
  <2>1. ASSUME NEW r \in Request, req[r].state = "wait"
        PROVE  [req[r] EXCEPT !.set = Orphan] \in Waits
    BY <2>1, Kinds DEF Waits
  <2>2. req' \in [Request -> {Free} \cup Waits \cup Answers]
    BY <1>0, <1>7, <2>1 DEF Dispatch
  <2> QED
    BY <1>0, <1>7, <2>2 DEF Dispatch, Taken, client
<1>8. ASSUME NEW s \in Sender, Commit(s) \/ Notify(s) PROVE RequestType'
  <2>1. sending[s].msg.channel \in Channel
    BY <1>8 DEF Commit, Notify, TypeOK, Idle, Message
  <2>2. due' \in [Request -> SUBSET Channel]
    BY <1>0, <1>8, <2>1 DEF Commit, Notify, NotDue
  <2> QED
    BY <1>0, <1>8, <2>2 DEF Commit, Notify, dispatcher, client
<1>9. CASE \E r \in Request : SetEvent(r)
  BY <1>0, <1>9 DEF SetEvent, client
<1>10. CASE LoopRaises
  BY <1>0, <1>10 DEF LoopRaises, client
<1>11. CASE UNCHANGED <<req, woken, event, channels, last, got, faults, due>>
  BY <1>0, <1>11
<1>12. CASE Listen \/ Fetch \/ UNCHANGED vars
  BY <1>11, <1>12 DEF Listen, Fetch, vars, client, dispatcher
<1>13. CASE \/ \E s \in Sender : Rollback(s) \/ \E ch \in Channel : Send(s, ch)
            \/ \E m \in Message : Age(m) \/ Gc(m)
  BY <1>11, <1>13 DEF Rollback, Send, Age, Gc, client, dispatcher
<1> QED
  BY <1>1, <1>2, <1>3, <1>4, <1>5, <1>6, <1>7, <1>8, <1>9, <1>10, <1>12, <1>13 DEF Next

(* All types, and the numbering of the messages, are kept.                  *)
LEMMA TypeStep == ASSUME TypeOK, Numbered, [Next]_vars PROVE TypeOK' /\ Numbered'
<1>1. SenderType' /\ Numbered'
  BY SenderStep DEF TypeOK, SenderType
<1> QED
  BY <1>1, LoopStep, RequestStep DEF TypeOK, SenderType, LoopType, RequestType, Waits, Answers

-----------------------------------------------------------------------------

(* A poll that takes the dispatcher's way waits for the channels of its     *)
(* client or answers with the news of them.                                 *)
LEMMA Polled ==
    ASSUME TypeOK, NEW c \in Client, NEW r \in Request, Poll(c, r)
    PROVE  \E q \in Waits \cup Answers :
              /\ req' = [req EXCEPT ![r] = q]
              /\ q.by = c
              /\ q.state = "wait" => q.todo = channelsOf[c] /\ q.set = Nothing
              /\ q.state = "answer" => q.answer = News(c, last[c])
<1> PICK live \in BOOLEAN : live = TRUE
  OBVIOUS
<1>1. News(c, last[c]) \in SUBSET Message /\ channelsOf[c] \in SUBSET Channel
  BY NewsAreMessages, BusAssumption DEF TypeOK
<1>2. CASE News(c, last[c]) # {}
  <2> DEFINE q == Answer(c, News(c, last[c]), live)
  <2>1. q \in Answers /\ q.state = "answer" /\ q.answer = News(c, last[c]) /\ q.by = c
    BY <1>1 DEF Answer, Answers
  <2>2. req' = [req EXCEPT ![r] = q]
    BY <1>2 DEF Poll
  <2> HIDE DEF q
  <2> QED
    BY <2>1, <2>2
<1>3. CASE News(c, last[c]) = {}
  <2> DEFINE q == Waiting(c, channelsOf[c], Nothing, live)
  <2>1. q \in Waits /\ q.state = "wait" /\ q.todo = channelsOf[c] /\ q.set = Nothing /\ q.by = c
    BY <1>1 DEF Waiting, Waits
  <2>2. req' = [req EXCEPT ![r] = q]
    BY <1>3 DEF Poll
  <2> HIDE DEF q
  <2> QED
    BY <2>1, <2>2
<1> QED
  BY <1>2, <1>3

(* Every step keeps that who waits has asked for channels of its client,    *)
(* and that no answer has a message of another.                             *)
LEMMA AskedStep == ASSUME IInv, [Next]_vars PROVE Asked' /\ NothingLeaks'
<1> USE DEF IInv, Asked, NothingLeaks
<1>0. TypeOK /\ channels \in [Channel -> SUBSET Request]
  BY DEF TypeOK
<1>1. ASSUME NEW c \in Client, NEW r \in Request, Poll(c, r) PROVE Asked' /\ NothingLeaks'
  <2>1. req[r].state = "free" /\ UNCHANGED channels
    BY <1>1 DEF Poll, Free
  <2>2. PICK q \in Waits \cup Answers :
          /\ req' = [req EXCEPT ![r] = q]
          /\ q.by = c
          /\ q.state = "wait" => q.todo = channelsOf[c] /\ q.set = Nothing
    BY <1>0, <1>1, Polled
  <2>3. req'[r] = q /\ \A p \in Request \ {r} : req'[p] = req[p]
    BY <2>2, Changed
  <2> QED
    BY <1>0, <2>1, <2>2, <2>3, BusAssumption
<1>2. ASSUME NEW r \in Request, NEW ch \in Channel, LookUp(r, ch) PROVE Asked' /\ NothingLeaks'
  <2> DEFINE q == [req[r] EXCEPT !.set = ch, !.todo = req[r].todo \ {ch}]
  <2>1. req[r] \in Waits /\ ch \in req[r].todo /\ UNCHANGED channels
    BY <1>2, Kinds DEF LookUp
  <2>2. /\ q \in Waits /\ q.state = "wait" /\ q.by = req[r].by
        /\ q.todo = req[r].todo \ {ch} /\ q.set = ch
    BY <2>1 DEF Waits
  <2>3. req' = [req EXCEPT ![r] = q]
    BY <1>0, <1>2, Known DEF LookUp
  <2> HIDE DEF q
  <2>4. req'[r] = q /\ \A p \in Request \ {r} : req'[p] = req[p]
    BY <2>2, <2>3, Changed
  <2>5. req[r].state = "wait"
    BY <1>2 DEF LookUp
  <2> QED
    BY <1>0, <2>1, <2>2, <2>4, <2>5
<1>3. ASSUME NEW r \in Request, Add(r) PROVE Asked' /\ NothingLeaks'
  <2> DEFINE q == [req[r] EXCEPT !.set = Nothing]
  <2>1. req[r] \in Waits /\ req[r].state = "wait"
    BY <1>3, Kinds DEF Add
  <2>2. q \in Waits /\ q.state = "wait" /\ q.by = req[r].by /\ q.todo = req[r].todo /\ q.set = Nothing
    BY <2>1 DEF Waits
  <2>3. req' = [req EXCEPT ![r] = q]
    BY <1>3 DEF Add
  <2> HIDE DEF q
  <2>4. req'[r] = q /\ \A p \in Request \ {r} : req'[p] = req[p]
    BY <2>2, <2>3, Changed
  <2>5. \A ch \in Channel : \A p \in channels'[ch] : p \in channels[ch] \/ (p = r /\ ch = req[r].set)
    BY <1>3 DEF Add
  <2> QED
    BY <1>0, <2>1, <2>2, <2>4, <2>5, BusAssumption
<1>4. ASSUME NEW r \in Request, Wake(r) \/ WakeRaises(r) PROVE Asked' /\ NothingLeaks'
  <2>1. req[r].by \in Client /\ req[r].live \in BOOLEAN
    BY <1>4, Kinds DEF Wake, WakeRaises, Registered
  <2>2. PICK answer \in SUBSET Message : req' = [req EXCEPT ![r] = Answer(req[r].by, answer, req[r].live)]
    BY <1>4, NewsAreMessages DEF Wake, WakeRaises, TypeOK
  <2> DEFINE q == Answer(req[r].by, answer, req[r].live)
  <2>3. q \in Answers /\ q.state = "answer"
    BY <2>1, Made
  <2> HIDE DEF q
  <2>4. req'[r] = q /\ \A p \in Request \ {r} : req'[p] = req[p]
    BY <2>2, <2>3, Changed DEF q
  <2>5. \A ch \in Channel : channels'[ch] = channels[ch] \ {r}
    BY <1>4 DEF Wake, WakeRaises, Unregistered
  <2> QED
    BY <1>0, <2>3, <2>4, <2>5
<1>5. ASSUME NEW r \in Request, Handle(r) PROVE Asked' /\ NothingLeaks'
  <2>1. req[r].state = "answer" /\ UNCHANGED channels /\ req' = [req EXCEPT ![r] = Free]
    BY <1>5 DEF Handle
  <2>2. req'[r] = Free /\ \A p \in Request \ {r} : req'[p] = req[p]
    BY <2>1, Changed
  <2> QED
    BY <1>0, <2>1, <2>2 DEF Free
<1>6. ASSUME NEW r \in Request, Abort(r) PROVE Asked' /\ NothingLeaks'
  <2> DEFINE q == [req[r] EXCEPT !.live = FALSE]
  <2>1. req[r] \in Waits \cup Answers /\ UNCHANGED channels
    BY <1>6, Kinds DEF Abort
  <2>2. /\ q \in Waits \cup Answers /\ q.state = req[r].state /\ q.by = req[r].by
        /\ q.state = "wait" => q.todo = req[r].todo /\ q.set = req[r].set
    BY <2>1 DEF Waits, Answers
  <2>3. req' = [req EXCEPT ![r] = q]
    BY <1>6 DEF Abort
  <2> HIDE DEF q
  <2>4. req'[r] = q /\ \A p \in Request \ {r} : req'[p] = req[p]
    BY <2>2, <2>3, Changed
  <2> QED
    BY <1>0, <2>1, <2>2, <2>4
<1>7. ASSUME NEW ch \in Channel, Dispatch(ch) PROVE Asked' /\ NothingLeaks'
  <2>1. \A r \in Request : req'[r] = IF req[r].state = "wait" /\ req[r].set = ch
                                     THEN [req[r] EXCEPT !.set = Orphan] ELSE req[r]
    BY <1>7 DEF Dispatch
  <2>2. ASSUME NEW r \in Request
        PROVE  /\ req'[r].state = req[r].state
               /\ req[r].state = "wait" => /\ req'[r].by = req[r].by /\ req'[r].todo = req[r].todo
                                           /\ req'[r].set \in {req[r].set, Orphan}
    <3>1. CASE req[r].state = "wait"
      <4>1. req[r] \in Waits
        BY <3>1, Kinds
      <4> QED
        BY <2>1, <4>1 DEF Waits
    <3>2. CASE req[r].state # "wait"
      BY <2>1, <3>2
    <3> QED
      BY <3>1, <3>2
  <2>3. \A c \in Channel : channels'[c] \subseteq channels[c]
    BY <1>0, <1>7 DEF Dispatch
  <2> QED
    BY <1>0, <2>2, <2>3, BusAssumption
<1>8. CASE UNCHANGED <<req, channels>>
  BY <1>8
<1>9. CASE UNCHANGED vars
  BY <1>8, <1>9 DEF vars
<1> QED
  BY <1>1, <1>2, <1>3, <1>4, <1>5, <1>6, <1>7, <1>8, <1>9
     DEF Next, Send, Rollback, Commit, Notify, Age, Gc, Listen, Fetch, SetEvent, LoopRaises

-----------------------------------------------------------------------------
(* The NOTIFY of a message that was committed on ch will be sent.           *)
Told(ch) == \E s \in Sender : sending[s].state = "committed" /\ sending[s].msg.channel = ch

(* Every step keeps that what has come for a waiting request has set its    *)
(* event, or is still to be found by the loop.                              *)
LEMMA AwakenedStep == ASSUME IInv, [Next]_vars PROVE Awakened'
<1>0. TypeOK /\ Awakened
  BY DEF IInv
<1>1. Awakened <=> \A r \in Request : \A ch \in due[r] :
                     r \in event \cup woken \/ (r \in channels[ch] /\ (ch \in queue \cup batch \/ Told(ch)))
  BY DEF Awakened, Told
<1>2. Awakened' <=> \A r \in Request : \A ch \in due'[r] :
                     \/ r \in event' \cup woken'
                     \/ r \in channels'[ch] /\ (ch \in queue' \cup batch' \/ Told(ch)')
  BY DEF Awakened, Told
<1>3. /\ channels \in [Channel -> SUBSET Request] /\ due \in [Request -> SUBSET Channel]
      /\ queue \subseteq Channel
  BY <1>0 DEF TypeOK
<1>4. ASSUME UNCHANGED <<sending, event, woken, channels, queue, batch, due>> PROVE Awakened'
  BY <1>0, <1>1, <1>2, <1>4 DEF Told
<1>5. ASSUME NEW s \in Sender, NEW ch \in Channel, Send(s, ch) PROVE Awakened'
  <2>1. sending[s] = Idle /\ \A u \in Sender \ {s} : sending'[u] = sending[u]
    BY <1>0, <1>5 DEF Send, TypeOK
  <2>2. \A x \in Channel : Told(x) => Told(x)'
    BY <2>1 DEF Told, Idle
  <2> QED
    BY <1>0, <1>1, <1>2, <1>3, <1>5, <2>2 DEF Send, dispatcher
<1>6. ASSUME NEW s \in Sender, Rollback(s) PROVE Awakened'
  <2>1. sending[s].state = "open" /\ \A u \in Sender \ {s} : sending'[u] = sending[u]
    BY <1>0, <1>6 DEF Rollback, TypeOK
  <2>2. \A x \in Channel : Told(x) => Told(x)'
    BY <2>1 DEF Told
  <2> QED
    BY <1>0, <1>1, <1>2, <1>3, <1>6, <2>2 DEF Rollback, dispatcher
<1>7. ASSUME NEW s \in Sender, Commit(s) PROVE Awakened'
  <2> DEFINE ch == sending[s].msg.channel
  <2>1. sending[s].state = "open" /\ sending' = [sending EXCEPT ![s].state = "committed"]
    BY <1>7 DEF Commit
  <2>2. sending[s] \in [state : {"open", "committed"}, msg : Message]
    BY <1>0, <2>1 DEF TypeOK, Idle
  <2>3. sending'[s].state = "committed" /\ sending'[s].msg.channel = ch
    BY <1>0, <2>1, <2>2 DEF TypeOK
  <2>4. \A u \in Sender \ {s} : sending'[u] = sending[u]
    BY <1>0, <2>1 DEF TypeOK
  <2>5. \A x \in Channel : Told(x) => Told(x)'
    BY <2>1, <2>4 DEF Told
  <2>6. ASSUME NEW x, x = ch PROVE Told(x)'
    BY <2>3, <2>6 DEF Told
  <2>7. \A r \in Request : due'[r] = IF r \in channels[ch] THEN due[r] \cup {ch} ELSE due[r]
    BY <1>7 DEF Commit
  <2>8. UNCHANGED <<event, woken, channels, queue, batch>>
    BY <1>7 DEF Commit, dispatcher
  <2>9. ASSUME NEW r \in Request, NEW x \in due'[r]
        PROVE  \/ r \in event' \cup woken'
               \/ r \in channels'[x] /\ (x \in queue' \cup batch' \/ Told(x)')
    <3>1. CASE x \in due[r]
      BY <1>0, <1>1, <1>3, <2>5, <2>8, <3>1
    <3>2. CASE x \notin due[r]
      BY <2>6, <2>7, <2>8, <2>9, <3>2
    <3> QED
      BY <3>1, <3>2
  <2> QED
    BY <1>2, <2>9
<1>8. ASSUME NEW s \in Sender, Notify(s) PROVE Awakened'
  <2> PICK ch : ch = sending[s].msg.channel
    OBVIOUS
  <2>1. \A u \in Sender \ {s} : sending'[u] = sending[u]
    BY <1>0, <1>8 DEF Notify, TypeOK
  <2>2. ASSUME NEW x, x # ch, Told(x) PROVE Told(x)'
    BY <2>1, <2>2 DEF Told
  <2>3. UNCHANGED <<event, woken, channels, batch>>
    BY <1>8 DEF Notify
  <2>4. CASE queue' = queue \cup {ch} /\ UNCHANGED due
    BY <1>0, <1>1, <1>2, <2>2, <2>3, <2>4
  <2>5. CASE NotDue(ch) /\ UNCHANGED queue
    BY <1>0, <1>1, <1>2, <2>2, <2>3, <2>5 DEF NotDue
  <2> QED
    BY <1>8, <2>4, <2>5 DEF Notify
<1>9. ASSUME UNCHANGED sending PROVE \A x : Told(x) <=> Told(x)'
  BY <1>9 DEF Told
<1>10. ASSUME NEW r \in Request, Wake(r) \/ WakeRaises(r) PROVE Awakened'
  <2>1. UNCHANGED <<sending, queue, batch>>
    BY <1>10 DEF Wake, WakeRaises, sender
  <2>2. /\ event' = event \ {r} /\ woken' = woken \ {r} /\ due' = [due EXCEPT ![r] = {}]
        /\ \A ch \in Channel : channels'[ch] = channels[ch] \ {r}
    BY <1>10 DEF Wake, WakeRaises, Forgotten, Unregistered
  <2> QED
    BY <1>0, <1>1, <1>2, <1>3, <1>9, <2>1, <2>2
<1>11. ASSUME NEW r \in Request, Add(r) PROVE Awakened'
  <2>1. UNCHANGED <<sending, event, woken, queue, batch, due>>
    BY <1>11 DEF Add, sender, dispatcher
  <2>2. \A ch \in Channel : channels[ch] \subseteq channels'[ch]
    BY <1>11 DEF Add
  <2> QED
    BY <1>0, <1>1, <1>2, <1>3, <1>9, <2>1, <2>2
<1>12. CASE Fetch
  BY <1>0, <1>1, <1>2, <1>3, <1>9, <1>12 DEF Fetch, sender
<1>13. ASSUME NEW ch \in Channel, Dispatch(ch) PROVE Awakened'
  BY <1>0, <1>1, <1>2, <1>3, <1>9, <1>13 DEF Dispatch, Taken, sender
<1>14. ASSUME NEW r \in Request, SetEvent(r) PROVE Awakened'
  BY <1>0, <1>1, <1>2, <1>9, <1>14 DEF SetEvent, sender
<1>15. CASE LoopRaises
  BY <1>2, <1>15 DEF LoopRaises
<1> QED
  BY <1>4, <1>5, <1>6, <1>7, <1>8, <1>10, <1>11, <1>12, <1>13, <1>14, <1>15
     DEF Next, Age, Gc, Poll, LookUp, Handle, Abort, Listen, vars, sender, dispatcher

-----------------------------------------------------------------------------

(* No message and no request at first.                                      *)
LEMMA InitIInv == Init => IInv
<1> SUFFICES ASSUME Init PROVE IInv
  OBVIOUS
<1>1. MaxId \in Nat /\ MaxFaults \in Nat
  BY BusAssumption
<1>2. TypeOK
  BY <1>1 DEF Init, TypeOK
<1>3. Numbered /\ Asked
  BY DEF Init, Numbered, Asked, Open, Idle, Free
<1> QED
  BY <1>2, <1>3 DEF Init, IInv, NothingLeaks, Awakened

(* The parts of the invariant, together.                                    *)
LEMMA NextIInv == IInv /\ [Next]_vars => IInv'
BY TypeStep, AskedStep, AwakenedStep DEF IInv

(* The invariant holds in every reachable state, for any clients, channels  *)
(* and messages.                                                            *)
THEOREM Inductive == Spec => []IInv
BY InitIInv, NextIInv, PTL DEF Spec

(* Every variable keeps its type; two messages never have one id.           *)
THEOREM TypeCorrect == Spec => []TypeOK
<1>1. IInv => TypeOK
  BY DEF IInv
<1> QED
  BY <1>1, Inductive, PTL

(* Only requests that wait are registered, on channels they came to.        *)
THEOREM NoLeak == Spec => []NothingLeaks
<1>1. IInv => NothingLeaks
  BY DEF IInv
<1> QED
  BY <1>1, Inductive, PTL

(* A registered event is not forgotten between a commit and its NOTIFY.     *)
THEOREM AllAwakened == Spec => []Awakened
<1>1. IInv => Awakened
  BY DEF IInv
<1> QED
  BY <1>1, Inductive, PTL

-----------------------------------------------------------------------------
(* Unread, when no transaction overtakes another.                           *)
LEMMA OpenMessage ==
    ASSUME TypeOK, NEW s \in Sender, Open(s)
    PROVE  sending[s].msg \in Message /\ sending[s].msg.id \in Nat
<1>1. sending[s].msg \in Message
  BY DEF TypeOK, Open, Idle
<1>2. \A m \in Message : m.id \in Nat
  BY BusAssumption DEF Message
<1> QED
  BY <1>1, <1>2

Reading == InOrder /\ OnePoll /\ Gapless /\ Unread

(* Transactions end, messages grow old and go.                              *)
LEMMA SendersRead ==
    ASSUME UInv, UNCHANGED <<ids, req, last, got>>,
           table' \subseteq table, table' \ old' \subseteq table \ old,
           \A s \in Sender : Open(s)' => Open(s) /\ sending'[s] = sending[s]
    PROVE  Reading'
<1> USE DEF UInv
<1>1. InOrder'
  BY DEF InOrder
<1>2. OnePoll' /\ Gapless'
  BY DEF OnePoll, Gapless, Live
<1> QED
  BY <1>1, <1>2 DEF Reading, Unread

(* Nobody is told anything.                                                 *)
LEMMA SilentRead ==
    ASSUME UInv, UNCHANGED <<ids, sending, table, old, last, got>>,
           \A r \in Request : req'[r].state = "answer" =>
               req[r].state = "answer" /\ req'[r].answer = req[r].answer,
           \A r \in Request, c \in Client : Live(r, c)' => Live(r, c)
    PROVE  Reading'
<1> USE DEF UInv
<1>1. InOrder'
  BY DEF InOrder, Open
<1>2. OnePoll'
  BY DEF OnePoll
<1>3. Gapless'
  BY DEF Gapless
<1> QED
  BY <1>1, <1>2, <1>3 DEF Reading, Unread

(* A request becomes another.                                               *)
LEMMA LiveThen ==
    ASSUME TypeOK, NEW r \in Request, NEW q \in {Free} \cup Waits \cup Answers,
           req' = [req EXCEPT ![r] = q], q.state # "free" /\ q.live => Live(r, q.by)
    PROVE  \A p \in Request, c \in Client : Live(p, c)' => Live(p, c)
<1>1. req'[r] = q /\ \A p \in Request \ {r} : req'[p] = req[p]
  BY Changed
<1>2. ASSUME NEW c \in Client, Live(r, c)' PROVE Live(r, c)
  BY <1>1, <1>2 DEF Live
<1>3. ASSUME NEW p \in Request \ {r}, NEW c \in Client, Live(p, c)' PROVE Live(p, c)
  BY <1>1, <1>3 DEF Live
<1> QED
  BY <1>2, <1>3

(* A poll is answered with all the news, or with nothing.                   *)
LEMMA ToldRead ==
    ASSUME UInv, UNCHANGED <<ids, sending, table, old, last, got>>,
           NEW r \in Request, NEW q \in Waits \cup Answers, req' = [req EXCEPT ![r] = q],
           q.live => \A p \in Request \ {r} : ~Live(p, q.by),
           q.state = "answer" => q.answer \in {{}, News(q.by, last[q.by])}
    PROVE  Reading'
<1>0. TypeOK
  BY DEF UInv, IInv
<1>1. req'[r] = q /\ \A p \in Request \ {r} : req'[p] = req[p]
  BY <1>0, Changed
<1>2. q.state = "answer" => q.answer \subseteq table
  BY NewsAreMessages
<1>3. InOrder'
  BY <1>1, <1>2 DEF UInv, IInv, InOrder, Numbered, Open
<1>4. ASSUME NEW p \in Request \ {r}, NEW c \in Client, Live(p, c)' PROVE Live(p, c) /\ ~Live(r, c)'
  <2>1. Live(p, c)
    BY <1>1, <1>4 DEF Live
  <2> QED
    BY <1>1, <2>1 DEF Live
<1>5. OnePoll'
  BY <1>4 DEF UInv, OnePoll
<1>6. ASSUME NEW c \in Client, NEW p \in Request, Live(p, c)', req'[p].state = "answer",
             NEW m \in table \ old, NEW n \in req'[p].answer,
             m.channel \in channelsOf[c], last[c] < m.id, m.id <= n.id
      PROVE  m \in req'[p].answer
  <2>1. CASE p = r
    <3>1. q.answer = News(c, last[c])
      BY <1>1, <1>6, <2>1 DEF Live
    <3>2. last[c] \in Nat /\ m.id \in Nat
      BY <1>0, BusAssumption DEF TypeOK, Message
    <3>3. m \in News(c, last[c])
      BY <1>6, <3>2 DEF News
    <3> QED
      BY <1>1, <2>1, <3>1, <3>3
  <2>2. CASE p # r
    BY <1>1, <1>4, <1>6, <2>2 DEF UInv, Gapless
  <2> QED
    BY <2>1, <2>2
<1>7. Gapless'
  BY <1>6 DEF Gapless
<1> QED
  BY <1>3, <1>5, <1>7 DEF UInv, Reading, Unread

(* A tab takes the answer it waited for.                                    *)
LEMMA HandleRead ==
    ASSUME UInv, NEW r \in Request, Handle(r), req[r].live
    PROVE  Reading'
<1> PICK c \in Client : c = req[r].by
  BY Kinds DEF UInv, IInv, Handle
<1> DEFINE answer == req[r].answer
           i == Newest(last[c], answer)
<1>0. TypeOK /\ req[r] \in Answers /\ req[r].state = "answer"
  BY Kinds DEF UInv, IInv, Handle
<1>1. /\ req' = [req EXCEPT ![r] = Free] /\ UNCHANGED <<ids, sending, table, old>>
      /\ last' = [last EXCEPT ![c] = i] /\ got' = [got EXCEPT ![c] = @ \cup answer]
  BY DEF Handle, sender
<1>2. req'[r] = Free /\ \A p \in Request \ {r} : req'[p] = req[p]
  BY <1>0, <1>1, Changed
<1>3. /\ last'[c] = i /\ got'[c] = got[c] \cup answer
      /\ \A d \in Client \ {c} : last'[d] = last[d] /\ got'[d] = got[d]
      /\ last[c] \in 0..MaxId
  BY <1>0, <1>1 DEF TypeOK
<1>4. i \in {last[c]} \cup {m.id : m \in answer}
  BY <1>0, <1>3, NewestIs DEF Answers
<1>5. Live(r, c) /\ \A d \in Client : ~Live(r, d)'
  BY <1>0, <1>2 DEF Live, Free
<1>6. \A p \in Request \ {r}, d \in Client : Live(p, d)' <=> Live(p, d)
  BY <1>2 DEF Live
<1>7. \A p \in Request \ {r} : ~Live(p, c)
  BY <1>5 DEF UInv, OnePoll
<1> HIDE DEF i, answer
<1>8. InOrder'
  <2>1. /\ i <= ids /\ \A s \in Sender : Open(s) => i < sending[s].msg.id
        /\ \A m \in answer : m.id <= ids
    BY <1>0, <1>4 DEF UInv, InOrder, answer
  <2>2. req'[r].state # "answer"
    BY <1>2 DEF Free
  <2> QED
    BY <1>1, <1>2, <1>3, <2>1, <2>2 DEF UInv, InOrder, Open
<1>9. OnePoll'
  BY <1>5, <1>6 DEF UInv, OnePoll
<1>10. Gapless'
  BY <1>1, <1>2, <1>3, <1>5, <1>6, <1>7 DEF UInv, Gapless
<1>11. ASSUME NEW m \in table \ old, m.channel \in channelsOf[c], m.id <= i
       PROVE  m \in got[c] \cup answer
  <2>1. m.id \in Nat /\ last[c] \in Nat
    BY <1>0, <1>3, BusAssumption DEF TypeOK, Message
  <2>2. CASE m.id <= last[c]
    BY <1>11, <2>2 DEF UInv, Unread
  <2>3. CASE ~(m.id <= last[c])
    <3>1. PICK n \in answer : i = n.id
      BY <1>4, <1>11, <2>3
    <3> QED
      BY <1>0, <1>5, <1>11, <2>1, <2>3, <3>1 DEF UInv, Gapless, answer
  <2> QED
    BY <2>2, <2>3
<1>12. Unread'
  BY <1>1, <1>3, <1>11 DEF UInv, Unread
<1> QED
  BY <1>8, <1>9, <1>10, <1>12 DEF Reading

(* With one sender at a time, every step keeps that who has read up to an   *)
(* id has read all before it.                                               *)
LEMMA ReadingStep == ASSUME OneAtATime, UInv, [Next]_vars PROVE Reading'
<1>0. TypeOK /\ Numbered
  BY DEF UInv, IInv
<1>1. ASSUME NEW s \in Sender, NEW ch \in Channel, Send(s, ch) PROVE Reading'
  <2>1. UNCHANGED <<table, old, req, last, got>> /\ ids' = ids + 1 /\ ids \in Nat
    BY <1>0, <1>1 DEF Send, client, TypeOK
  <2>2. sending'[s].msg.id = ids + 1 /\ \A u \in Sender : u = s
    BY <1>0, <1>1 DEF Send, TypeOK, OneAtATime
  <2>3. /\ \A m \in Message : m.id \in Nat
        /\ \A c \in Client : last[c] \in Nat
        /\ \A r \in Request : req[r].state = "answer" => req[r].answer \subseteq Message
    BY <1>0, Kinds, BusAssumption DEF TypeOK, Message, Answers
  <2>4. InOrder'
    <3>1. \A m \in table : m.id <= ids /\ m.id \in Nat
      BY <1>0, <2>3 DEF Numbered, TypeOK
    <3>2. \A c \in Client : last[c] <= ids
      BY DEF UInv, InOrder
    <3>3. ASSUME NEW r \in Request, req[r].state = "answer", NEW m \in req[r].answer
          PROVE  m.id <= ids /\ m.id \in Nat
      BY <2>3, <3>3 DEF UInv, InOrder
    <3> QED
      BY <2>1, <2>2, <2>3, <3>1, <3>2, <3>3 DEF InOrder
  <2> QED
    BY <2>1, <2>4 DEF UInv, Reading, OnePoll, Gapless, Unread, Live
<1>2. ASSUME NEW s \in Sender, Rollback(s) \/ Notify(s) PROVE Reading'
  <2>1. UNCHANGED <<ids, table, old, req, last, got>> /\ sending' = [sending EXCEPT ![s] = Idle]
    BY <1>2 DEF Rollback, Notify, client
  <2>2. \A u \in Sender : Open(u)' => Open(u) /\ sending'[u] = sending[u]
    BY <1>0, <2>1 DEF TypeOK, Open, Idle
  <2> QED
    BY <2>1, <2>2, SendersRead
<1>3. ASSUME NEW s \in Sender, Commit(s) PROVE Reading'
  <2> PICK m : m = sending[s].msg
    OBVIOUS
  <2>1. Open(s) /\ UNCHANGED <<ids, old, req, last, got>> /\ table' = table \cup {m}
    BY <1>3 DEF Commit, Open, client
  <2>2. sending' = [sending EXCEPT ![s].state = "committed"]
    BY <1>3 DEF Commit
  <2>3. sending[s] \in [state : {"open", "committed"}, msg : Message]
    BY <1>0, <2>1 DEF TypeOK, Open, Idle
  <2>4. sending'[s].state = "committed"
    BY <1>0, <2>2, <2>3 DEF TypeOK
  <2>5. \A u \in Sender : ~Open(u)'
    BY <2>4 DEF OneAtATime, Open
  <2>6. InOrder'
    BY <2>1, <2>5 DEF UInv, InOrder
  <2>7. m.id \in Nat
    BY <1>0, <2>1, OpenMessage
  <2>8. /\ \A c \in Client : last[c] < m.id /\ last[c] \in Nat
        /\ \A r \in Request : req[r].state = "answer" => \A n \in req[r].answer : n.id < m.id /\ n.id \in Nat
    <3>1. \A n \in Message : n.id \in Nat
      BY BusAssumption DEF Message
    <3>2. \A r \in Request : req[r].state = "answer" => req[r].answer \subseteq Message
      BY <1>0, Kinds DEF Answers
    <3> QED
      BY <1>0, <2>1, <3>1, <3>2, BusAssumption DEF UInv, InOrder, TypeOK
  <2>9. Gapless'
    BY <2>1, <2>7, <2>8 DEF UInv, Gapless, Live
  <2>10. Unread'
    BY <2>1, <2>7, <2>8 DEF UInv, Unread
  <2> QED
    BY <2>1, <2>6, <2>9, <2>10 DEF UInv, Reading, OnePoll, Live
<1>4. ASSUME NEW m \in Message, Age(m) \/ Gc(m) PROVE Reading'
  BY <1>4, SendersRead DEF Age, Gc, client, Open
<1>5. ASSUME NEW c \in Client, NEW r \in Request, Poll(c, r) PROVE Reading'
  <2>1. PICK q \in Waits \cup Answers :
          /\ req' = [req EXCEPT ![r] = q]
          /\ q.by = c
          /\ q.state = "answer" => q.answer = News(c, last[c])
    BY <1>0, <1>5, Polled
  <2>2. \A p \in Request : ~Live(p, c)
    BY <1>5 DEF Poll, Polling, Live
  <2> QED
    BY <1>5, <2>1, <2>2, ToldRead DEF Poll, sender, client
<1>6. ASSUME NEW r \in Request, NEW ch \in Channel, LookUp(r, ch) PROVE Reading'
  <2> DEFINE q == [req[r] EXCEPT !.set = ch, !.todo = req[r].todo \ {ch}]
  <2>1. req[r] \in Waits /\ req[r].state = "wait" /\ ch \in req[r].todo
    BY <1>0, <1>6, Kinds DEF LookUp
  <2>2. q \in Waits /\ q.state = "wait" /\ q.by = req[r].by /\ (q.live => req[r].live)
    BY <2>1 DEF Waits
  <2>3. req' = [req EXCEPT ![r] = q]
    BY <1>0, <1>6, Known DEF LookUp
  <2> HIDE DEF q
  <2>4. req'[r] = q /\ \A p \in Request \ {r} : req'[p] = req[p]
    BY <1>0, <2>2, <2>3, Changed
  <2>5. \A p \in Request, c \in Client : Live(p, c)' => Live(p, c)
    BY <1>0, <2>1, <2>2, <2>3, LiveThen DEF Live
  <2> QED
    BY <1>6, <2>2, <2>4, <2>5, SilentRead DEF LookUp, sender, client
<1>7. ASSUME NEW r \in Request, Add(r) PROVE Reading'
  <2> DEFINE q == [req[r] EXCEPT !.set = Nothing]
  <2>1. req[r] \in Waits /\ req[r].state = "wait"
    BY <1>0, <1>7, Kinds DEF Add
  <2>2. q \in Waits /\ q.state = "wait" /\ q.by = req[r].by /\ (q.live => req[r].live)
    BY <2>1 DEF Waits
  <2>3. req' = [req EXCEPT ![r] = q]
    BY <1>7 DEF Add
  <2> HIDE DEF q
  <2>4. req'[r] = q /\ \A p \in Request \ {r} : req'[p] = req[p]
    BY <1>0, <2>2, <2>3, Changed
  <2>5. \A p \in Request, c \in Client : Live(p, c)' => Live(p, c)
    BY <1>0, <2>1, <2>2, <2>3, LiveThen DEF Live
  <2> QED
    BY <1>7, <2>2, <2>4, <2>5, SilentRead DEF Add, sender, client
<1>8. ASSUME NEW r \in Request, Wake(r) \/ WakeRaises(r) PROVE Reading'
  <2>1. req[r].by \in Client /\ req[r].live \in BOOLEAN /\ req[r].state = "wait"
    BY <1>0, <1>8, Kinds DEF Wake, WakeRaises, Registered
  <2>2. PICK answer \in {{}, News(req[r].by, last[req[r].by])} :
           req' = [req EXCEPT ![r] = Answer(req[r].by, answer, req[r].live)]
    BY <1>8 DEF Wake, WakeRaises
  <2> DEFINE q == Answer(req[r].by, answer, req[r].live)
  <2>3. answer \in SUBSET Message
    BY <1>0, <2>2, NewsAreMessages DEF TypeOK
  <2>4. q \in Answers /\ q.by = req[r].by /\ q.answer = answer /\ (q.live => req[r].live)
    BY <2>1, <2>3 DEF Answer, Answers
  <2>5. req' = [req EXCEPT ![r] = q]
    BY <2>2
  <2> HIDE DEF q
  <2>6. q.live => \A p \in Request \ {r} : ~Live(p, q.by)
    BY <2>1, <2>4 DEF UInv, OnePoll, Live
  <2> QED
    BY <1>8, <2>2, <2>4, <2>5, <2>6, ToldRead DEF Wake, WakeRaises, sender, client
<1>9. ASSUME NEW r \in Request, Handle(r) PROVE Reading'
  <2>1. CASE req[r].live
    BY <1>9, <2>1, HandleRead
  <2>2. CASE ~req[r].live
    <3>1. req' = [req EXCEPT ![r] = Free] /\ UNCHANGED <<ids, sending, table, old, last, got>>
      BY <1>9, <2>2 DEF Handle, sender, client
    <3>2. req'[r] = Free /\ \A p \in Request \ {r} : req'[p] = req[p]
      BY <1>0, <3>1, Changed
    <3>3. \A p \in Request, c \in Client : Live(p, c)' => Live(p, c)
      BY <1>0, <3>1, LiveThen DEF Free
    <3> QED
      BY <3>1, <3>2, <3>3, SilentRead DEF Free
  <2> QED
    BY <2>1, <2>2
<1>10. ASSUME NEW r \in Request, Abort(r) PROVE Reading'
  <2> DEFINE q == [req[r] EXCEPT !.live = FALSE]
  <2>1. req[r] \in Waits \cup Answers
    BY <1>0, <1>10, Kinds DEF Abort
  <2>2. /\ q \in Waits \cup Answers /\ q.state = req[r].state /\ ~q.live
        /\ q.state = "answer" => q.answer = req[r].answer
    BY <2>1 DEF Waits, Answers
  <2>3. req' = [req EXCEPT ![r] = q]
    BY <1>10 DEF Abort
  <2> HIDE DEF q
  <2>4. req'[r] = q /\ \A p \in Request \ {r} : req'[p] = req[p]
    BY <1>0, <2>2, <2>3, Changed
  <2>5. \A p \in Request, c \in Client : Live(p, c)' => Live(p, c)
    BY <1>0, <2>2, <2>3, LiveThen
  <2> QED
    BY <1>10, <2>2, <2>4, <2>5, SilentRead DEF Abort, sender, client
<1>11. ASSUME NEW ch \in Channel, Dispatch(ch) PROVE Reading'
  <2>1. \A r \in Request : req'[r] = IF req[r].state = "wait" /\ req[r].set = ch
                                     THEN [req[r] EXCEPT !.set = Orphan] ELSE req[r]
    BY <1>11 DEF Dispatch
  <2>2. ASSUME NEW r \in Request
        PROVE  /\ req'[r].state = req[r].state /\ req'[r].by = req[r].by
               /\ req'[r].live => req[r].live
               /\ req[r].state = "answer" => req'[r].answer = req[r].answer
    <3>1. CASE req[r].state = "wait"
      <4>1. req[r] \in Waits
        BY <1>0, <3>1, Kinds
      <4> QED
        BY <2>1, <3>1, <4>1 DEF Waits
    <3>2. CASE req[r].state # "wait"
      BY <2>1, <3>2
    <3> QED
      BY <3>1, <3>2
  <2>3. \A r \in Request, c \in Client : Live(r, c)' => Live(r, c)
    BY <2>2 DEF Live
  <2> QED
    BY <1>11, <2>2, <2>3, SilentRead DEF Dispatch, sender, client
<1>12. CASE UNCHANGED <<ids, sending, table, old, req, last, got>>
  BY <1>12, SilentRead DEF Live
<1>13. CASE Listen \/ Fetch \/ LoopRaises \/ UNCHANGED vars \/ \E r \in Request : SetEvent(r)
  BY <1>12, <1>13 DEF Listen, Fetch, LoopRaises, SetEvent, vars, sender, client
<1> QED
  BY <1>1, <1>2, <1>3, <1>4, <1>5, <1>6, <1>7, <1>8, <1>9, <1>10, <1>11, <1>13 DEF Next

(* A tab does not come past a message it has not got, as long as senders do *)
(* not overlap, so that messages are committed in the order of their ids.   *)
THEOREM NothingSkipped == ASSUME OneAtATime PROVE Spec => []Unread
<1>1. Init => UInv
  <2> SUFFICES ASSUME Init PROVE UInv
    OBVIOUS
  <2>1. \A r \in Request : req[r].state = "free"
    BY DEF Init, Free
  <2>2. \A c \in Client : ~(\E m \in table : TRUE) /\ last[c] = 0
    BY DEF Init
  <2>3. \A s \in Sender : ~Open(s)
    BY DEF Init, Open, Idle
  <2>4. ids = 0
    BY DEF Init
  <2> QED
    BY <2>1, <2>2, <2>3, <2>4, InitIInv DEF UInv, InOrder, OnePoll, Gapless, Unread, Live
<1>2. UInv /\ [Next]_vars => UInv'
  BY NextIInv, ReadingStep DEF UInv, Reading
<1>3. UInv => Unread
  BY DEF UInv
<1> QED
  BY <1>1, <1>2, <1>3, PTL DEF Spec
=================================================================================
