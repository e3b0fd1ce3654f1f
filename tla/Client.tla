------------------------------- MODULE Client -------------------------------
(***************************************************************************)
(* Two chat clients, from the first Chat to the last Close: the methods of *)
(* client.Client over DiskSessionManager, whose session files are keyed by *)
(* session id and whose map sessions names the id to use for a peer.  Each *)
(* client knows one peer.  The mutex of Client.sm makes every method one   *)
(* step; a process may die between two of them.                            *)
(*                                                                         *)
(* The inbox of a client is a topic of the message bus, a log that it reads *)
(* by position.  Position and map are written to disk by                   *)
(* DiskSessionManager.Close only, session files by every Put.  Both        *)
(* clients have run and exited before, so that a position is on disk;      *)
(* positions are counted from there.                                       *)
(***************************************************************************)
EXTENDS Xochimilco, TLC, Functions

CONSTANTS
  Openers,     \* the clients whose user begins a chat
  EagerSend,   \* whether a user may write before the pending ack was sent
  MaxOffers,   \* bound on the offers of each opener
  MaxSend,     \* bound on the texts, of both clients together
  MaxCloses,   \* bound on the Close calls
  MaxFaults,   \* bound on the posts, lookups and calls that go wrong
  MaxExits,    \* bound on orderly exits
  MaxCrashes   \* bound on crashes

ASSUME UseAssumption == Openers \subseteq Party /\ EagerSend \in BOOLEAN
ASSUME BoundsAssumption ==
  {MaxOffers, MaxSend, MaxCloses, MaxFaults, MaxExits, MaxCrashes} \subseteq Nat

VARIABLES
  sessions,    \* sessions[p]: the id the map has for the peer, NoUUID if none
  files,       \* files[p]: the session files of p, a function of ids
  inbox,       \* inbox[p]: the log of messages posted to p
  pos,         \* pos[p]: how many of them p has read
  disk,        \* disk[p]: the map and the position last written by Close
  shown,       \* shown[p]: positions handed to the OnMessageReceived handlers
  sent,        \* sent[p]: the data messages whose Send returned nil
  offers, calls, closes, faults, exits, crashes,   \* for the bounds
  next         \* next[p]: how many key pairs and ids p has made

vars == <<sessions, files, inbox, pos, disk, shown, sent, offers, calls, closes,
          faults, exits, crashes, next>>

bounds == <<offers, calls, closes, faults, exits, crashes>>

IdKey(p) == IF p = Alice THEN 1 ELSE 2

\* The k-th new key pair or id in a step of p; the clients make different ones.
Fresh(p, k) == 2 * (next[p] + k) + IdKey(p)

Made(p, k) == next' = [next EXCEPT ![p] = @ + k]

Init ==
  /\ sessions = [p \in Party |-> NoUUID]
  /\ files = [p \in Party |-> << >>]
  /\ inbox = [p \in Party |-> << >>]
  /\ pos = [p \in Party |-> 0]
  /\ disk = [p \in Party |-> [sessions |-> NoUUID, pos |-> 0]]
  /\ shown = [p \in Party |-> << >>]
  /\ sent = [p \in Party |-> {}]
  /\ offers = [p \in Party |-> 0]
  /\ calls = 0 /\ closes = 0 /\ faults = 0 /\ exits = 0 /\ crashes = 0
  /\ next = [p \in Party |-> 0]

-----------------------------------------------------------------------------
(* DiskSessionManager *)

\* Mutant: a new id whether or not the map has one.
ByNameFresh(p) == Fresh(p, 1)

\* The id for the peer; an id that ByName makes is put into the map.
ByName(p) == IF sessions[p] = NoUUID THEN Fresh(p, 1) ELSE sessions[p]

Named(p) == sessions' = [sessions EXCEPT ![p] = ByName(p)]

Exists(p, id) == id \in DOMAIN files[p]

\* Get: the identity key is not in the file, and needed only for the handshake.
Get(p, id) ==
  LET s == files[p][id].session
  IN IF Active(s) THEN [s EXCEPT !.doubleRatchet = Restored(@)]
     ELSE [s EXCEPT !.identityKey = IdKey(p)]

New(p) == NewSession(ByName(p), IdKey(p))

\* Mutant: the file lies under the id of the peer's session.
PutUnderRemote(p, s, ack) ==
  files' = [files EXCEPT ![p] =
    (s.remoteUUID :> [session |-> [s EXCEPT !.identityKey = NoKey], pendingAck |-> ack])
      @@ files[p]]

Put(p, s, ack) ==
  files' = [files EXCEPT ![p] =
    (s.localUUID :> [session |-> [s EXCEPT !.identityKey = NoKey], pendingAck |-> ack])
      @@ files[p]]

\* Mutant: the id stays in the map.
DeleteFileOnly(p, id) ==
  /\ sessions' = sessions
  /\ files' = [files EXCEPT ![p] = Restrict(@, DOMAIN @ \ {id})]

\* The name is removed from the map even if it stands for another session.
Delete(p, id) ==
  /\ sessions' = [sessions EXCEPT ![p] = NoUUID]
  /\ files' = [files EXCEPT ![p] = Restrict(@, DOMAIN @ \ {id})]

-----------------------------------------------------------------------------
(* sendMsg, and what its caller does next.  "dropped": the bus answered with *)
(* an error status, which sendMsg does not look at.  "unsaved": the message  *)
(* is in the inbox, but the answer was lost, and the caller returns early.   *)
(* A post that fails outright changes nothing but what CallMisses does.      *)

Outcomes == {"posted", "dropped", "unsaved"}

Posts(p, m, outcome) ==
  /\ outcome # "posted" => faults < MaxFaults
  /\ faults' = IF outcome = "posted" THEN faults ELSE faults + 1
  /\ inbox' = [inbox EXCEPT ![Peer(p)] =
                 IF outcome = "dropped" THEN @ ELSE Append(@, m)]

PutAfter(p, s, ack, outcome) ==
  IF outcome = "unsaved" THEN UNCHANGED files ELSE Put(p, s, ack)

\* Chat with a peer for whom there is no session file.
ChatOffer(p, outcome) ==
  LET r == Offer(New(p), Fresh(p, 2)) IN
  /\ p \in Openers /\ offers[p] < MaxOffers
  /\ ~Exists(p, ByName(p))
  /\ Named(p)
  /\ Posts(p, r.msg, outcome)
  /\ PutAfter(p, r.sess, NoReply, outcome)
  /\ offers' = [offers EXCEPT ![p] = @ + 1]
  /\ Made(p, 2)
  /\ UNCHANGED <<pos, disk, shown, sent, calls, closes, exits, crashes>>

\* Chat with a peer whose offer waits for an answer.  With any other session
\* Chat changes nothing.
ChatAck(p, outcome) ==
  LET id == sessions[p] IN
  /\ Exists(p, id) /\ files[p][id].pendingAck # NoReply
  /\ Posts(p, files[p][id].pendingAck, outcome)
  /\ PutAfter(p, Get(p, id), NoReply, outcome)
  /\ UNCHANGED <<sessions, pos, disk, shown, sent, offers, calls, closes, exits,
                 crashes, next>>

\* Mutant: the session is not saved.
SendWithoutPut(p, outcome) ==
  LET id == sessions[p]
      r  == sessSend(Get(p, id), calls + 1, NoKey)
  IN
  /\ calls < MaxSend
  /\ Exists(p, id) /\ r.ok
  /\ EagerSend \/ files[p][id].pendingAck = NoReply
  /\ calls' = calls + 1
  /\ Posts(p, r.msg, outcome)
  /\ sent' = [sent EXCEPT ![p] = IF outcome = "unsaved" THEN @ ELSE @ \cup {r.msg}]
  /\ UNCHANGED <<files, sessions, pos, disk, shown, offers, closes, exits, crashes, next>>

\* An active session always has a sending chain, so that no key is generated.
\* Send without a session that can encrypt changes no more than CallMisses.
Send(p, outcome) ==
  LET id == sessions[p]
      r  == sessSend(Get(p, id), calls + 1, NoKey)
  IN
  /\ calls < MaxSend
  /\ Exists(p, id) /\ r.ok
  /\ EagerSend \/ files[p][id].pendingAck = NoReply
  /\ calls' = calls + 1
  /\ Posts(p, r.msg, outcome)
  /\ PutAfter(p, r.sess, files[p][id].pendingAck, outcome)
  /\ sent' = [sent EXCEPT ![p] = IF outcome = "unsaved" THEN @ ELSE @ \cup {r.msg}]
  /\ UNCHANGED <<sessions, pos, disk, shown, offers, closes, exits, crashes, next>>

Close(p, outcome) ==
  LET id == sessions[p] IN
  /\ closes < MaxCloses
  /\ closes' = closes + 1
  /\ Exists(p, id)
  /\ Posts(p, sessClose(Get(p, id)).msg, outcome)
  /\ IF outcome = "unsaved" THEN UNCHANGED <<sessions, files>> ELSE Delete(p, id)
  /\ UNCHANGED <<pos, disk, shown, sent, offers, calls, exits, crashes, next>>

\* Send or Close with a peer for whom there is no session file, or Chat if the
\* lookup of the peer fails: an error, but ByName has put a new id into the map.
CallMisses(p) ==
  /\ sessions[p] = NoUUID
  /\ faults < MaxFaults
  /\ faults' = faults + 1
  /\ Named(p)
  /\ Made(p, 1)
  /\ UNCHANGED <<files, inbox, pos, disk, shown, sent, offers, calls, closes, exits,
                 crashes>>

-----------------------------------------------------------------------------
(* handleRatchet, for the next message of the inbox *)

Incoming(p) == inbox[p][pos[p] + 1]

Read(p) ==
  /\ pos[p] < Len(inbox[p])
  /\ pos' = [pos EXCEPT ![p] = @ + 1]

\* An offer makes a new session, under the id the map has for the peer.
InputOffer(p) ==
  LET r == receiveOffer(New(p), IdKey(Peer(p)), Incoming(p),
                        Fresh(p, 2), Fresh(p, 3)) IN
  /\ Read(p) /\ Incoming(p).type = "offer"
  /\ Named(p)
  /\ IF r.ok THEN Put(p, r.sess, r.msg) ELSE UNCHANGED files
  /\ Made(p, 3)
  /\ UNCHANGED <<inbox, disk, shown, sent, bounds>>

\* The lookup of the peer fails, and the offer is gone.
InputOfferLost(p) ==
  /\ Read(p) /\ Incoming(p).type = "offer"
  /\ faults < MaxFaults
  /\ faults' = faults + 1
  /\ Named(p)
  /\ Made(p, 1)
  /\ UNCHANGED <<files, inbox, disk, shown, sent, offers, calls, closes, exits,
                 crashes>>

\* An ack, data or close for an id without file is ignored.
InputIgnored(p) ==
  /\ Read(p)
  /\ Incoming(p).type # "offer" /\ ~Exists(p, Incoming(p).uuid)
  /\ UNCHANGED <<sessions, files, inbox, disk, shown, sent, bounds, next>>

Received(p, m) ==
  IF m.type = "ack" THEN receiveAck(Get(p, m.uuid), IdKey(Peer(p)), m, Fresh(p, 1))
                    ELSE receiveData(Get(p, m.uuid), m, Fresh(p, 1))

\* An ack or data that is refused leaves the file as it is.
InputMessage(p) ==
  LET m == Incoming(p)
      r == Received(p, m)
  IN
  /\ Read(p) /\ m.type \in {"ack", "data"} /\ Exists(p, m.uuid)
  /\ IF r.ok
     THEN Put(p, r.sess, IF m.type = "ack" THEN NoReply ELSE files[p][m.uuid].pendingAck)
     ELSE UNCHANGED files
  /\ shown' = [shown EXCEPT ![p] =
                 IF r.ok /\ m.type = "data" THEN Append(@, pos[p] + 1) ELSE @]
  /\ Made(p, 1)
  /\ UNCHANGED <<sessions, inbox, disk, sent, bounds>>

InputClose(p) ==
  /\ Read(p) /\ Incoming(p).type = "close" /\ Exists(p, Incoming(p).uuid)
  /\ Delete(p, Incoming(p).uuid)
  /\ UNCHANGED <<inbox, disk, shown, sent, bounds, next>>

-----------------------------------------------------------------------------
(* The process *)

\* DiskSessionManager.Close, and Load by the next process.
Exit(p) ==
  /\ exits < MaxExits
  /\ exits' = exits + 1
  /\ disk' = [disk EXCEPT ![p] = [sessions |-> sessions[p], pos |-> pos[p]]]
  /\ UNCHANGED <<sessions, files, inbox, pos, shown, sent, offers, calls, closes,
                 faults, crashes, next>>

\* Death without Close, and Load by the next process.
Crash(p) ==
  /\ crashes < MaxCrashes
  /\ crashes' = crashes + 1
  /\ sessions' = [sessions EXCEPT ![p] = disk[p].sessions]
  /\ pos' = [pos EXCEPT ![p] = disk[p].pos]
  /\ UNCHANGED <<files, inbox, disk, shown, sent, offers, calls, closes, faults,
                 exits, next>>

Next ==
  \E p \in Party :
    \/ \E o \in Outcomes : ChatOffer(p, o) \/ ChatAck(p, o) \/ Send(p, o) \/ Close(p, o)
    \/ CallMisses(p)
    \/ InputOffer(p) \/ InputOfferLost(p) \/ InputIgnored(p)
    \/ InputMessage(p) \/ InputClose(p)
    \/ Exit(p) \/ Crash(p)

\* The subscription hands out what is in the inbox; nothing is assumed of the
\* users.  Only the Input actions move a position forward, and one of them can
\* whenever Read can.
Spec == Init /\ [][Next]_vars /\ \A p \in Party : WF_pos(Read(p))

-----------------------------------------------------------------------------
\* Ids, positions and session files are of the right kind, and every session
\* file lies under the id of the session in it (New, Get, Put and Delete).
TypeOK ==
  \A p \in Party :
    /\ sessions[p] \in Nat /\ disk[p].sessions \in Nat
    /\ pos[p] \in 0 .. Len(inbox[p]) /\ disk[p].pos \in 0 .. Len(inbox[p])
    /\ \A id \in DOMAIN files[p] :
         LET s == files[p][id].session IN
         /\ s.localUUID = id /\ s.remoteUUID \in Nat /\ s.identityKey = NoKey
         /\ Active(s) => [s.doubleRatchet EXCEPT !.associatedData = AD] \in Ratchets
    /\ shown[p] \in Seq(1 .. Len(inbox[p]))

\* What a user reads was posted to them, is shown in the order of the inbox and
\* only once: whoever opens, answers, closes or writes when, whatever posts fail,
\* and though a client that died reads part of its inbox again.
D == INSTANCE Delivery WITH Reader <- Party,
                            posted <- [p \in Party |-> Len(inbox[p])]
DeliverySpec == D!Spec

\* No two texts for which Send returned nil are sealed with one key, though
\* sessions are replaced under their ids and Sends fail half-way.
SentKeysUnique ==
  \A p, q \in Party : \A m \in sent[p], w \in sent[q] :
    m.payload.key = w.payload.key => p = q /\ m = w

\* As long as a client did not die it has at most one session file for the peer,
\* the one its map leads to: closed and replaced sessions leave none behind.
OneSession ==
  crashes = 0 => \A p \in Party : DOMAIN files[p] \subseteq {sessions[p]}

\* "Once the first party finally receives the acknowledgement (Receive), the
\* connection is established.  Now both parties can create encrypted messages
\* directed to the other": a text that arrives for a session file of the reader
\* is decrypted.
TextsReadable ==
  \A p \in Party :
    /\ pos[p] < Len(inbox[p])
    /\ Incoming(p).type = "data" /\ Exists(p, Incoming(p).uuid)
    /\ pos[p] + 1 \notin Range(shown[p])
    => Received(p, Incoming(p)).ok

\* p has an offer out, and the answer to it is in the inbox.
Answered(p) ==
  \E id \in DOMAIN files[p] :
    /\ ~Active(files[p][id].session)
    /\ \E i \in DOMAIN inbox[p] : inbox[p][i].type = "ack" /\ inbox[p][i].uuid = id

\* Once an offer is answered, the session of the client that made it gets
\* active, unless it is closed first: the wait for the other side ends.
AnswerEndsWait == \A p \in Party : Answered(p) ~> ~Answered(p)
=============================================================================
