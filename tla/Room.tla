-------------------------------- MODULE Room --------------------------------
(***************************************************************************)
(* The room server (src/examples/simple_room_server/MyMesh.cpp with its    *)
(* table of clients, src/src/helpers/ClientACL.cpp) and the chat nodes     *)
(* that use it (src/src/helpers/BaseChatMesh.cpp).                         *)
(*                                                                         *)
(* The server keeps the last posts in a ring and pushes them to its        *)
(* clients, one client a pass, one post at a time, each until the client's *)
(* ack moves its `since' on.  It answers a text with an ack and stores it  *)
(* as a post unless its timestamp says that it is a retry.  The network    *)
(* delays, reorders and loses; timers may run out at any pass.             *)
(*                                                                         *)
(* Abstractions.  A post is its timestamp.  getCurrentTimeUnique() keeps   *)
(* the posts since the start apart and in order; after a restart the clock *)
(* may be back where it was long ago, and be set right at any time.  The   *)
(* ack of a push names what it is a hash of: the post, which is one of the *)
(* posts since a start, and the attempt.                                   *)
(* last_activity is kept as a rank, 0 for never.  Routes, replies to       *)
(* commands and to logins and the timers are left out: a pass may come at  *)
(* any time after the last and finds any set of the ack timeouts over;     *)
(* POST_SYNC_DELAY_SECS only puts off the pass that finds a post.          *)
(***************************************************************************)
EXTENDS Integers, FiniteSets, FiniteSetsExt, SequencesExt

CONSTANTS
  Nodes,        \* the chat nodes
  NoNode,       \* the id of a seat never used, and the server's own as author
  Capacity,     \* MAX_CLIENTS
  RingSize,     \* MAX_UNSYNCED_POSTS
  MaxFailures,  \* pushes without an answer before the server gives up: 3
  Rooms         \* the settings, see Setting

Perms == {"guest", "readOnly", "readWrite", "admin"}
Acks == [stamp : Nat, boot : Nat, attempt : Nat]
NoAck == [stamp |-> 0, boot |-> 0, attempt |-> 0]
NoPost == [stamp |-> 0, author |-> NoNode]

\* ClientInfo
Entry == [id : Nodes \union {NoNode}, perm : Perms, last : Int, since : Nat,
          pending : Acks, pushed : Nat, failures : Nat, activity : Nat]

\* handleCommand()'s, as far as they are modelled
Commands == [op : {"post"}] \union [op : {"setperm"}, id : Nodes, perm : Perms]

\* who has a seat and knows which password, who does what how often, what may go
\* wrong, and how far the clock may be ahead of all posts so far (leap)
Setting ==
  [seated : Seq(Entry), passwords : [Nodes -> SUBSET {"admin", "member", "wrong", "blank"}],
   logins : [Nodes -> Nat], texts : [Nodes -> Nat], orders : [Nodes -> SUBSET Commands],
   console : SUBSET Commands, askers : SUBSET Nodes, retries : SUBSET Nodes, attempts : SUBSET Nat,
   readOnly : BOOLEAN, sameSecond : BOOLEAN, restarts : Nat, lossy : BOOLEAN, leap : Nat \ {0}]

\* a node that has neither been heard since the start nor been pushed anything
Unserved(entry) ==
  entry.id \in Nodes /\ entry.last = 0 /\ entry.since = 0 /\ entry.pending = NoAck /\ entry.failures = 0

ASSUME NodeAssumption == NoNode \notin Nodes
ASSUME SizeAssumption == Capacity \in Nat \ {0} /\ RingSize \in Nat \ {0} /\ MaxFailures \in Nat
ASSUME RoomAssumption ==
  \A r \in Rooms :
    /\ r \in Setting /\ Len(r.seated) <= Capacity
    /\ \A i \in DOMAIN r.seated : Unserved(r.seated[i])
    /\ \A i, j \in DOMAIN r.seated : r.seated[i].id = r.seated[j].id => i = j

VARIABLES
  room,        \* the setting
  clients,     \* ClientACL::clients, the array of seats
  num,         \* ClientACL::num_clients
  nextClient,  \* next_client_idx
  posts,       \* the ring of posts
  nextPost,    \* next_post_idx
  last_unique, \* RTCClock::last_unique, the timestamp of the last post since the start
  newest,      \* history: the highest timestamp any post has had
  past,        \* history: `newest' at the last restart
  saved,       \* the file /s_contacts
  dirty,       \* dirty_contacts_expiry is set
  boots,       \* restarts so far
  net,         \* the messages under way
  app,         \* what each chat node has sent, received and been told
  tally        \* what the properties count: see Init

table == <<clients, num, nextClient>>
ring == <<posts, nextPost, last_unique, newest, past>>
disk == <<saved, dirty, boots>>
vars == <<room, table, ring, disk, net, app, tally>>

Seats == 1..Capacity

\* ClientInfo as putClient() and load() leave it
Blank(id, perm) ==
  [id |-> id, perm |-> perm, last |-> 0, since |-> 0, pending |-> NoAck,
   pushed |-> 0, failures |-> 0, activity |-> 0]

-----------------------------------------------------------------------------
(* ClientACL.cpp *)

Taken == 1..num
Holds(id) == \E i \in Taken : clients[i].id = id
SeatOf(id) == CHOOSE i \in Taken : clients[i].id = id

\* the first of the least active seats that are no admin's; the last seat when all are
Oldest ==
  LET others == {i \in Taken : clients[i].perm # "admin"}
      least == Min({clients[i].activity : i \in others})
  IN IF others = {} THEN Capacity
     ELSE Min({i \in others : clients[i].activity = least})

Seat(id) ==
  IF Holds(id) THEN SeatOf(id) ELSE IF num < Capacity THEN num + 1 ELSE Oldest

\* putClient() on the array t
putClient(t, id) ==
  [table |-> IF Holds(id) THEN t ELSE [t EXCEPT ![Seat(id)] = Blank(id, "guest")],
   num |-> IF Holds(id) \/ num = Capacity THEN num ELSE num + 1,
   lives |-> IF Holds(id) THEN tally.lives ELSE [tally.lives EXCEPT ![id] = @ + 1]]

\* last_activity of seat i becomes the latest of all
Touched(t, i) ==
  LET others == {k \in Taken \ {i} : t[k].activity # 0}
      Rank(j) == Cardinality({k \in others : t[k].activity <= t[j].activity})
  IN [j \in Seats |-> [t[j] EXCEPT !.activity =
        IF j = i THEN Cardinality(others) + 1 ELSE IF j \in others THEN Rank(j) ELSE @]]

\* the array after the entry of seat i was deleted: the last seat keeps its old content
Without(t, i) == [j \in Seats |-> IF j >= i /\ j < num THEN t[j + 1] ELSE t[j]]

\* what acl.save() writes: the administrators, in the order of their seats
Admins == {i \in Taken : clients[i].perm = "admin"}
InOrder(S) == {f \in [1..Cardinality(S) -> S] : \A i, j \in DOMAIN f : i < j => f[i] < f[j]}
Written(file) == \E f \in InOrder(Admins) : file = [k \in DOMAIN f |-> clients[f[k]]]

Init ==
  /\ room \in Rooms
  /\ clients = [i \in Seats |-> IF i <= Len(room.seated) THEN room.seated[i] ELSE Blank(NoNode, "guest")]
  /\ num = Len(room.seated) /\ nextClient = 0
  /\ posts = [k \in 0..RingSize - 1 |-> NoPost]
  /\ nextPost = 0 /\ last_unique = 0 /\ newest = 0 /\ past = 0
  /\ Written(saved) /\ dirty = FALSE /\ boots = 0
  /\ net = {}
  \* stamp: the node's own clock; since: sync_since of its contact for the room;
  \* got: posts shown; sent: the texts sent, with their stamps; acked: those acknowledged
  /\ app = [c \in Nodes |-> [stamp |-> 0, since |-> 0, got |-> {}, logins |-> 0,
                             sent |-> << >>, acked |-> {}, orders |-> {}]]
  \* stored: how often each text became a post; lives: how often a node was given
  \* a new seat; unheard: pushes to a node since the server last heard it;
  \* ambiguous: the stamps of its texts that say nothing of whether a text was stored
  /\ tally = [stored |-> [c \in Nodes |-> << >>], lives |-> [c \in Nodes |-> IF Holds(c) THEN 1 ELSE 0],
              unheard |-> [c \in Nodes |-> 0], removals |-> 0, ambiguous |-> [c \in Nodes |-> {}]]

-----------------------------------------------------------------------------
(* The server's handlers.  A message of a node without a seat is not for the *)
(* server: searchPeersByHash() finds nobody to decrypt it with.              *)

Heard(id) == [tally EXCEPT !.unheard[id] = 0]

\* later than all since the start: the clock's, wherever that is, or the next one
getCurrentTimeUnique == last_unique + 1 .. newest + room.leap

\* storePost(): into the ring, over the oldest post when it is full
storePost(author) ==
  /\ \E stamp \in getCurrentTimeUnique :
       /\ posts' = [posts EXCEPT ![nextPost] = [stamp |-> stamp, author |-> author]]
       /\ last_unique' = stamp
       /\ newest' = IF stamp > newest THEN stamp ELSE newest
  /\ nextPost' = (nextPost + 1) % RingSize
  /\ UNCHANGED past

\* a blank password asks for the seat the node has
Recognised(m) == m.password = "blank" /\ Holds(m.from)

\* The password decides on the permissions.
Granted(m) ==
  CASE m.password = "admin" -> "admin"
    [] m.password = "member" -> "readWrite"
    [] OTHER -> IF room.readOnly THEN "guest" ELSE "refused"

LoggedIn(entry, m) ==
  [entry EXCEPT !.last = m.stamp, !.since = m.since, !.pending = NoAck,
                !.failures = 0, !.perm = Granted(m)]

\* onAnonDataRecv(): putClient() comes before the test for a replay
RecvLogin(m) ==
  LET put == putClient(clients, m.from)
      entry == put.table[Seat(m.from)]
  IN /\ m.kind = "login"
     /\ net' = net \ {m}
     /\ IF Recognised(m) THEN tally' = Heard(m.from) /\ UNCHANGED <<table, disk>>
        ELSE IF Granted(m) = "refused" THEN UNCHANGED <<table, disk, tally>>
        ELSE /\ num' = put.num
             /\ IF m.stamp <= entry.last
                THEN /\ clients' = put.table
                     /\ tally' = [tally EXCEPT !.lives = put.lives]
                     /\ UNCHANGED dirty
                ELSE /\ clients' = Touched([put.table EXCEPT ![Seat(m.from)] = LoggedIn(@, m)],
                                           Seat(m.from))
                     /\ tally' = [Heard(m.from) EXCEPT !.lives = put.lives]
                     /\ dirty' = TRUE
             /\ UNCHANGED <<nextClient, saved, boots>>
     /\ UNCHANGED <<room, ring, app>>

\* Mutant: the failures of the pushes stay counted.
AliveStillFailed(m) ==
  LET i == SeatOf(m.from)
  IN Touched([clients EXCEPT ![i].last = m.stamp], i)

\* what a text, a command and a request have in common: the node is alive
Alive(m) ==
  LET i == SeatOf(m.from)
  IN Touched([clients EXCEPT ![i].last = m.stamp, ![i].failures = 0], i)

\* Mutant: a retry is taken for a new text.
IsRetryNever(m) == FALSE

IsRetry(m) == m.stamp = clients[SeatOf(m.from)].last
IsReplay(m) == m.stamp < clients[SeatOf(m.from)].last
MayPost(m) == clients[SeatOf(m.from)].perm # "guest"

\* onPeerDataRecv(), TXT_TYPE_PLAIN: a retry is acknowledged and not stored again
RecvText(m) ==
  /\ m.kind = "text"
  /\ IF ~Holds(m.from) \/ IsReplay(m)
     THEN net' = net \ {m} /\ UNCHANGED <<table, ring, tally>>
     ELSE /\ clients' = Alive(m)
          /\ IF MayPost(m) /\ ~IsRetry(m)
             THEN /\ storePost(m.from)
                  /\ tally' = [Heard(m.from) EXCEPT !.stored[m.from][m.text] = @ + 1]
             ELSE /\ tally' = [Heard(m.from) EXCEPT !.ambiguous[m.from] = @ \union IF MayPost(m) THEN {} ELSE {m.stamp}]
                  /\ UNCHANGED ring
          /\ net' = (net \ {m}) \union
               IF MayPost(m) THEN {[kind |-> "ack", to |-> m.from, text |-> m.text]} ELSE {}
          /\ UNCHANGED <<num, nextClient>>
  /\ UNCHANGED <<room, disk, app>>

\* setperm: guest deletes the entry, every other role is given one if need be
setperm(t, counts, cmd) ==
  IF cmd.perm = "guest"
  THEN IF Holds(cmd.id)
       THEN /\ clients' = Without(t, SeatOf(cmd.id))
            /\ num' = num - 1
            /\ tally' = [counts EXCEPT !.removals = @ + 1]
            /\ dirty' = TRUE
       ELSE clients' = t /\ tally' = counts /\ UNCHANGED <<num, dirty>>
  ELSE LET put == putClient(t, cmd.id)
       IN /\ clients' = [put.table EXCEPT ![Seat(cmd.id)].perm = cmd.perm]
          /\ num' = put.num
          /\ tally' = [counts EXCEPT !.lives = put.lives]
          /\ dirty' = TRUE

\* handleCommand(): setperm and room.post, the latter as a post of the server
handleCommand(t, counts, cmd) ==
  IF cmd.op = "post"
  THEN /\ storePost(NoNode)
       /\ clients' = t /\ tally' = counts
       /\ UNCHANGED <<num, dirty>>
  ELSE setperm(t, counts, cmd) /\ UNCHANGED ring

Console(cmd) ==
  /\ cmd \in room.console
  /\ room' = [room EXCEPT !.console = @ \ {cmd}]
  /\ handleCommand(clients, tally, cmd)
  /\ UNCHANGED <<nextClient, saved, boots, net, app>>

\* onPeerDataRecv(), TXT_TYPE_CLI_DATA: an admin's command runs once
RecvCommand(m) ==
  /\ m.kind = "command"
  /\ net' = net \ {m}
  /\ IF ~Holds(m.from) \/ IsReplay(m)
     THEN UNCHANGED <<clients, num, ring, dirty, tally>>
     ELSE IF clients[SeatOf(m.from)].perm = "admin" /\ ~IsRetry(m)
     THEN handleCommand(Alive(m), Heard(m.from), m.cmd)
     ELSE /\ clients' = Alive(m) /\ tally' = Heard(m.from)
          /\ UNCHANGED <<num, ring, dirty>>
  /\ UNCHANGED <<room, nextClient, saved, boots, app>>

\* onPeerDataRecv(), PAYLOAD_TYPE_REQ.  Only KEEP_ALIVE by a direct route takes
\* the node's `since' over and gives up the push under way.
RecvRequest(m, direct) ==
  LET i == SeatOf(m.from)
  IN /\ m.kind = "request"
     /\ net' = net \ {m}
     /\ IF ~Holds(m.from) \/ IsReplay(m)
        THEN UNCHANGED <<clients, tally>>
        ELSE /\ clients' = IF direct
                  THEN [Alive(m) EXCEPT ![i].since = IF m.since > 0 THEN m.since ELSE @,
                                        ![i].pending = NoAck]
                  ELSE Alive(m)
             /\ tally' = Heard(m.from)
     /\ UNCHANGED <<room, num, nextClient, ring, disk, app>>

\* Mutant: any ack of a push is taken for that of the last.
AwaitedAny(m) == Holds(m.from) /\ clients[SeatOf(m.from)].pending # NoAck

\* processAck(): the post pushed last is synced.  An ack may come inside a path
\* (onPeerPathRecv), which counts as activity whatever it holds.
Awaited(m) == Holds(m.from) /\ clients[SeatOf(m.from)].pending = m.ack
Synced(entry) ==
  [entry EXCEPT !.pending = NoAck, !.failures = 0, !.since = entry.pushed]

RecvPushAck(m, byPath) ==
  /\ m.kind = "pushAck"
  /\ net' = net \ {m}
  /\ LET i == SeatOf(m.from)
         heard == IF byPath /\ Holds(m.from) THEN Touched(clients, i) ELSE clients
     IN /\ clients' = IF Awaited(m) THEN [heard EXCEPT ![i] = Synced(@)] ELSE heard
        /\ tally' = IF Awaited(m) \/ (byPath /\ Holds(m.from)) THEN Heard(m.from) ELSE tally
  /\ UNCHANGED <<room, num, nextClient, ring, disk, app>>

-----------------------------------------------------------------------------
(* loop() *)

\* Mutant: the push is tried again, and that is all.
TimedOutUncounted(late) ==
  [i \in Seats |-> [clients[i] EXCEPT !.pending = IF i \in late THEN NoAck ELSE @]]

\* the entries whose ack has not come in time
TimedOut(late) ==
  [i \in Seats |-> IF i \in late
                   THEN [clients[i] EXCEPT !.pending = NoAck, !.failures = @ + 1]
                   ELSE clients[i]]

Waiting == {i \in Taken : clients[i].pending # NoAck}

\* Mutant: one failure more.
PushableOnceMore(entry) ==
  entry.pending = NoAck /\ entry.activity # 0 /\ entry.failures <= MaxFailures

Pushable(entry) ==
  entry.pending = NoAck /\ entry.activity # 0 /\ entry.failures < MaxFailures

Unsynced(entry, p) ==
  /\ p.stamp > entry.since
  /\ p.author # entry.id

\* The scan meets the posts in this order, the oldest first.
InTurn(k) == posts[(nextPost + k) % RingSize]
DuePosts(entry) == {k \in 0..RingSize - 1 : Unsynced(entry, InTurn(k))}

\* pushPostToClient(); without a packet in the pool only push_post_timestamp is set
Push(t, i, p, attempt, pool) ==
  LET ack == [stamp |-> p.stamp, boot |-> boots, attempt |-> attempt]
  IN /\ clients' = [t EXCEPT ![i].pushed = p.stamp, ![i].pending = IF pool THEN ack ELSE NoAck]
     /\ net' = IF pool THEN net \union {[kind |-> "push", to |-> t[i].id, ack |-> ack]} ELSE net
     /\ tally' = IF pool THEN [tally EXCEPT !.unheard[t[i].id] = @ + 1] ELSE tally

\* One pass: the timeouts of all, then a post for the next client in turn.  The
\* index of the turn may have been left behind by a deletion.
Pass(late, attempt, pool) ==
  LET t == TimedOut(late)
      i == nextClient + 1
      due == IF Pushable(t[i]) THEN DuePosts(t[i]) ELSE {}
  IN /\ num > 0
     /\ late \subseteq Waiting
     /\ IF due # {} THEN Push(t, i, InTurn(Min(due)), attempt, pool)
        ELSE clients' = t /\ UNCHANGED <<net, tally>>
     /\ nextClient' = (nextClient + 1) % num
     /\ UNCHANGED <<room, num, ring, disk, app>>

Save ==
  /\ dirty /\ dirty' = FALSE
  /\ Written(saved')
  /\ UNCHANGED <<room, table, ring, boots, net, app, tally>>

\* The node restarts: begin() loads the file, with how far the clients had come; the
\* posts are gone, and last_unique with them.
Loaded == {saved[i].id : i \in DOMAIN saved}

Restart ==
  /\ boots < room.restarts /\ boots' = boots + 1
  /\ clients' = [i \in Seats |->
       IF i <= Len(saved) THEN [Blank(saved[i].id, saved[i].perm) EXCEPT !.since = saved[i].since]
       ELSE Blank(NoNode, "guest")]
  /\ num' = Len(saved) /\ nextClient' = 0
  /\ posts' = [k \in DOMAIN posts |-> NoPost] /\ nextPost' = 0
  /\ last_unique' = 0 /\ past' = newest
  /\ dirty' = FALSE
  /\ tally' = [tally EXCEPT !.lives = [c \in Nodes |-> @[c] + IF c \in Loaded THEN 1 ELSE 0],
                          !.unheard = [c \in Nodes |-> 0]]
  /\ UNCHANGED <<room, newest, saved, net, app>>

-----------------------------------------------------------------------------
(* The chat nodes: BaseChatMesh.cpp.  Stamps are even, so that the requests  *)
(* between two messages can share the odd one between theirs.                *)

send(m) == net' = net \union {m}
Server == <<table, ring, disk, tally>>

\* sendLogin(): with the timestamp of the newest post the node has
Login(c, password) ==
  /\ app[c].logins < room.logins[c]
  /\ app' = [app EXCEPT ![c].logins = @ + 1, ![c].stamp = @ + 2]
  /\ send([kind |-> "login", from |-> c, stamp |-> app[c].stamp + 2, since |-> app[c].since,
           password |-> password])
  /\ UNCHANGED <<room, Server>>

Text(c, n) == [kind |-> "text", from |-> c, stamp |-> app[c].sent[n], text |-> n]

\* sendMessage(): the stamp is the app's, in seconds: a text may have that of the
\* message before it
SendText(c, stamp) ==
  /\ Len(app[c].sent) < room.texts[c]
  /\ \/ stamp = app[c].stamp + 2
     \/ room.sameSecond /\ stamp = app[c].stamp /\ stamp > 0
  /\ app' = [app EXCEPT ![c].stamp = stamp, ![c].sent = Append(@, stamp)]
  /\ tally' = [tally EXCEPT !.stored[c] = Append(@, 0),
                          !.ambiguous[c] = @ \union IF stamp = app[c].stamp THEN {stamp} ELSE {}]
  /\ send([kind |-> "text", from |-> c, stamp |-> stamp, text |-> Len(app[c].sent) + 1])
  /\ UNCHANGED <<room, table, ring, disk>>

\* the app tries a text again for which it has seen no ack
Resend(c, n) ==
  /\ c \in room.retries /\ n \in DOMAIN app[c].sent \ app[c].acked
  /\ Text(c, n) \notin net /\ send(Text(c, n))
  /\ UNCHANGED <<room, Server, app>>

\* sendCommandData()
Order(c, cmd) ==
  /\ cmd \in room.orders[c] \ app[c].orders
  /\ app' = [app EXCEPT ![c].stamp = @ + 2, ![c].orders = @ \union {cmd}]
  /\ send([kind |-> "command", from |-> c, stamp |-> app[c].stamp + 2, cmd |-> cmd])
  /\ UNCHANGED <<room, Server>>

\* sendRequest(), and the KEEP_ALIVE of checkConnections()
Request(c) ==
  /\ c \in room.askers
  /\ ~\E m \in net : m.kind = "request" /\ m.from = c
  /\ send([kind |-> "request", from |-> c, stamp |-> app[c].stamp + 1, since |-> app[c].since])
  /\ UNCHANGED <<room, Server, app>>

\* onPeerDataRecv(), TXT_TYPE_SIGNED_PLAIN: shown, remembered, acknowledged
RecvPush(m) ==
  /\ m.kind = "push"
  /\ app' = [app EXCEPT ![m.to].got = @ \union {m.ack.stamp},
                        ![m.to].since = IF m.ack.stamp > @ THEN m.ack.stamp ELSE @]
  /\ net' = (net \ {m}) \union {[kind |-> "pushAck", from |-> m.to, ack |-> m.ack]}
  /\ UNCHANGED <<room, Server>>

\* onAckRecv()
RecvAck(m) ==
  /\ m.kind = "ack"
  /\ app' = [app EXCEPT ![m.to].acked = @ \union {m.text}]
  /\ net' = net \ {m}
  /\ UNCHANGED <<room, Server>>

Lose(m) == room.lossy /\ net' = net \ {m} /\ UNCHANGED <<room, Server, app>>

-----------------------------------------------------------------------------
Receive(m) ==
  \/ RecvLogin(m) \/ RecvText(m) \/ RecvCommand(m)
  \/ \E direct \in BOOLEAN : RecvRequest(m, direct)
  \/ \E byPath \in BOOLEAN : RecvPushAck(m, byPath)
  \/ RecvPush(m) \/ RecvAck(m)

Node(c) ==
  \/ \E password \in room.passwords[c] : Login(c, password)
  \/ \E stamp \in {app[c].stamp, app[c].stamp + 2} : SendText(c, stamp)
  \/ \E n \in DOMAIN app[c].sent : Resend(c, n)
  \/ \E cmd \in room.orders[c] : Order(c, cmd)
  \/ Request(c)

APass == \E late \in SUBSET Waiting, attempt \in room.attempts, pool \in {TRUE, ~room.lossy} :
           Pass(late, attempt, pool)

Next ==
  \/ \E m \in net : Receive(m) \/ Lose(m)
  \/ \E c \in Nodes : Node(c)
  \/ APass \/ Save \/ Restart
  \/ \E cmd \in room.console : Console(cmd)

(* Fairness.  The server loops, the time passes, and in a network that loses *)
(* nothing what is under way arrives; an ack gets back before its timeout    *)
(* now and then, and a node asks for something now and then.                 *)
Arrives(c) ==
  /\ WF_vars(\E m \in net : RecvPush(m) /\ m.to = c)
  /\ WF_vars(\E m \in net : RecvLogin(m) /\ m.from = c)
  /\ WF_vars(\E m \in net, direct \in BOOLEAN : m.kind = "request" /\ m.from = c /\ RecvRequest(m, direct))
PushInTime(c) ==
  \E m \in net : m.kind = "push" /\ m.to = c /\ Holds(c) /\ clients[SeatOf(c)].pending = m.ack /\ RecvPush(m)
AckInTime(c) ==
  \E m \in net : m.kind = "pushAck" /\ m.from = c /\ Awaited(m) /\ RecvPushAck(m, FALSE)

Fairness ==
  /\ WF_vars(APass)
  /\ \A c \in Nodes : Arrives(c) /\ SF_vars(PushInTime(c)) /\ SF_vars(AckInTime(c)) /\ WF_vars(Request(c))

Spec == Init /\ [][Next]_vars /\ Fairness

-----------------------------------------------------------------------------
(* Properties *)

\* The array, the ring and the file keep their shape; seats hold different nodes.
TypeOK ==
  /\ num \in 0..Capacity /\ nextClient \in 0..Capacity - 1
  /\ nextPost \in DOMAIN posts
  /\ \A i, j \in Taken : clients[i].id = clients[j].id => i = j
  /\ \A i \in Taken : clients[i].id \in Nodes /\ clients[i].failures \in 0..MaxFailures
  /\ dirty \in BOOLEAN /\ Len(saved) <= Capacity

\* A post that `since' has passed was received: when the server takes a client to
\* be synced up to a timestamp, the client has every post up to there that is still
\* in the ring and not its own, whatever was lost, late or answered twice.  A post
\* is excepted if the clock had gone back with a restart and its timestamp is not
\* above those before the restart (`past'): the file and the nodes remember a
\* `since' of the old time, so that loop() takes it for an old post and skips it.
\* (Above `past' a timestamp is given once, and names the post in `got'.)
NoPostSkipped ==
  \A i \in Taken, k \in DOMAIN posts :
    posts[k].stamp \in past + 1 .. clients[i].since /\ posts[k].author # clients[i].id
      => posts[k].stamp \in app[clients[i].id].got

\* A text becomes a post at most once for each time its author was given a seat, and
\* an author that has an ack for it has it stored, unless an earlier message of his has
\* its timestamp or it came while he was a guest: the server tells retries from new
\* texts by their timestamps alone, and notes the timestamp of a guest's text too.
AckedIsStoredOnce ==
  \A c \in Nodes : \A n \in DOMAIN app[c].sent :
    /\ tally.stored[c][n] <= tally.lives[c]
    /\ n \in app[c].acked /\ app[c].sent[n] \notin tally.ambiguous[c] => tally.stored[c][n] > 0

\* A node the server does not hear is pushed to MaxFailures times and left alone
\* then; a deletion can cost one push more, when the turn is on the seat it vacated.
PushesStop == \A c \in Nodes : tally.unheard[c] <= MaxFailures + tally.removals

\* A node that keeps asking gets every post of the others that stays in the ring, as
\* long as it has a seat, if the clock had not gone back.
Served(c) ==
  Holds(c) => \A k \in DOMAIN posts :
    posts[k].stamp > past /\ posts[k].author # c => posts[k].stamp \in app[c].got
EveryPostArrives == \A c \in Nodes : <>[](~room.lossy /\ c \in room.askers => Served(c))

\* A client that logs in will receive the posts it has not seen: once the login is
\* answered, the server pushes to it.
LoginResumes ==
  [][\A m \in net : m.kind = "login" /\ Recognised(m) /\ RecvLogin(m)
       => LET entry == clients'[SeatOf(m.from)]
          IN entry.activity # 0 /\ entry.failures < MaxFailures]_vars

=============================================================================
