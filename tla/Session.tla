------------------------------ MODULE Session ------------------------------
(***************************************************************************)
(* Two applications that use xochimilco.Session the way its documentation  *)
(* asks: Bob opens with Offer, Alice answers his first offer with          *)
(* Acknowledge, and every other message is passed to Receive; whoever is   *)
(* told that the session was closed sends nothing more.  (Roles are named  *)
(* as in Ratchet: who acknowledges holds the active ratchet.)              *)
(*                                                                         *)
(* net[p] is everything ever sent to p: messages may be lost, repeated and *)
(* reordered, except that a data message of an older chain is not handed   *)
(* over after one of a newer (see DoubleRatchet for why).                  *)
(***************************************************************************)
EXTENDS Xochimilco

CONSTANT MaxSend     \* bound on the Send calls of each party

ASSUME MaxSendAssumption == MaxSend \in Nat

VARIABLES
  sess,      \* sess[p]: the Session of p
  net,       \* net[p]: the messages addressed to p
  got,       \* got[p]: the data messages whose plaintext p was given
  started,   \* the parties whose handshake call reported success
  told,      \* the parties whose Receive reported isClosed
  over,      \* the parties that called Close
  calls,     \* calls[p]: how often p called Send; names the plaintexts
  nextKey    \* the next prekey or ratchet key pair to be generated

vars == <<sess, net, got, started, told, over, calls, nextKey>>

IdKey(p) == IF p = Alice THEN AliceId ELSE BobId
LocalUUID(p) == IF p = Alice THEN 11 ELSE 12

Init ==
  /\ sess = [p \in Party |-> NewSession(LocalUUID(p), IdKey(p))]
  /\ net = [p \in Party |-> {}]
  /\ got = [p \in Party |-> {}]
  /\ started = {} /\ told = {} /\ over = {}
  /\ calls = [p \in Party |-> 0]
  /\ nextKey = 1

\* What a call leaves behind: its session, and its message on the way.
Leaves(p, r) ==
  /\ sess' = [sess EXCEPT ![p] = r.sess]
  /\ net' = [net EXCEPT ![Peer(p)] = IF r.msg = NoReply THEN @ ELSE @ \cup {r.msg}]

\* dhKeyPair was called if the ratchet now has the pair on offer.
Generated(s) ==
  IF Active(s) /\ s.doubleRatchet.dhPub = nextKey THEN nextKey + 1 ELSE nextKey

OpenSession ==
  /\ sess[Bob].spk = NoKey /\ Bob \notin started \cup over
  /\ Leaves(Bob, Offer(sess[Bob], nextKey))
  /\ nextKey' = nextKey + 1
  /\ UNCHANGED <<got, started, told, over, calls>>

\* One call succeeds, so that there is one ephemeral key.
Acknowledge(m) ==
  LET r == receiveOffer(sess[Alice], IdKey(Bob), m, AliceEphemeral, nextKey) IN
  /\ m \in net[Alice] /\ m.type = "offer"
  /\ Alice \notin started \cup over
  /\ Leaves(Alice, r)
  /\ nextKey' = nextKey + 1
  /\ started' = IF r.ok THEN started \cup {Alice} ELSE started
  /\ UNCHANGED <<got, told, over, calls>>

ReceiveAck(p, m) ==
  LET r == receiveAck(sess[p], IdKey(Peer(p)), m, nextKey) IN
  /\ m \in net[p] /\ m.type = "ack" /\ p \notin over
  /\ Leaves(p, r)
  /\ nextKey' = Generated(r.sess)
  /\ started' = IF r.ok THEN started \cup {p} ELSE started
  /\ UNCHANGED <<got, told, over, calls>>

Late(p, m) == Active(sess[p]) /\ m.payload.dhPub < sess[p].doubleRatchet.peerDhPub

ReceiveData(p, m) ==
  LET r == receiveData(sess[p], m, nextKey) IN
  /\ m \in net[p] /\ m.type = "data" /\ p \notin over
  /\ ~Late(p, m)
  /\ Leaves(p, r)
  /\ nextKey' = Generated(r.sess)
  /\ got' = [got EXCEPT ![p] = IF r.ok THEN @ \cup {m} ELSE @]
  /\ UNCHANGED <<started, told, over, calls>>

ReceiveClose(p, m) ==
  /\ m \in net[p] /\ m.type = "close" /\ p \notin over
  /\ told' = told \cup {p}
  /\ UNCHANGED <<sess, net, got, started, over, calls, nextKey>>

Send(p) ==
  LET r == sessSend(sess[p], calls[p], nextKey) IN
  /\ p \in started /\ p \notin told \cup over
  /\ calls[p] < MaxSend
  /\ calls' = [calls EXCEPT ![p] = @ + 1]
  /\ Leaves(p, r)
  /\ nextKey' = Generated(r.sess)
  /\ UNCHANGED <<got, started, told, over>>

Close(p) ==
  /\ p \notin over
  /\ over' = over \cup {p}
  /\ Leaves(p, sessClose(sess[p]))
  /\ UNCHANGED <<got, started, told, calls, nextKey>>

Next ==
  \/ OpenSession
  \/ \E m \in net[Alice] : Acknowledge(m)
  \/ \E p \in Party : \E m \in net[p] :
       ReceiveAck(p, m) \/ ReceiveData(p, m) \/ ReceiveClose(p, m)
  \/ \E p \in Party : Send(p) \/ Close(p)

\* An offer and an ack are not lost (the message bus keeps them in a log, and
\* nothing sends them again), and the applications pass on what has arrived.
Fairness ==
  /\ WF_vars(\E m \in net[Alice] : Acknowledge(m))
  /\ WF_vars(\E m \in net[Bob] : ReceiveAck(Bob, m))

Spec == Init /\ [][Next]_vars /\ Fairness

-----------------------------------------------------------------------------
\* Sessions hold ids, keys and ratchets of the right kind through Offer,
\* Acknowledge, Receive, Send and Close, and plaintexts come from the network.
TypeOK ==
  /\ \A p \in Party :
       /\ sess[p].localUUID = LocalUUID(p)
       /\ sess[p].remoteUUID \in {NoUUID, LocalUUID(Alice), LocalUUID(Bob)}
       /\ sess[p].identityKey \in {NoKey, IdKey(p)}
       /\ sess[p].spk \in Nat
       /\ Active(sess[p]) => sess[p].doubleRatchet \in Ratchets
       /\ got[p] \subseteq net[p]
       /\ calls[p] \in 0 .. MaxSend
  /\ started \subseteq Party /\ told \subseteq Party /\ over \subseteq Party
  /\ nextKey \in Nat

SessKeyOf(s) == SubSeq(s.doubleRatchet.rootKey, 1, 3)

\* Once both parties were told that the session is established, and as long as
\* neither has closed it, they hold the same session key and associated data,
\* and each knows the id by which the other looks the session up.
EstablishedAgree ==
  started = Party /\ over = {} =>
    /\ SessKeyOf(sess[Alice]) = SessKeyOf(sess[Bob])
    /\ sess[Alice].doubleRatchet.associatedData = sess[Bob].doubleRatchet.associatedData
    /\ \A p \in Party : sess[p].remoteUUID = LocalUUID(Peer(p))

\* An ack that reaches the party that waits for it establishes the session,
\* whatever else was sent, repeated or reordered before it: receiveAck never
\* gives up with a ratchet made and the prekey gone.
AckEstablishes ==
  \A m \in net[Bob] :
    m.type = "ack" /\ ~Active(sess[Bob]) /\ Bob \notin over
      => receiveAck(sess[Bob], IdKey(Alice), m, nextKey).ok

\* A data message that reaches an active session for the first time, within the
\* window of skipMsgKeys, is decrypted, the messages Alice sends right after
\* Acknowledge and those that overtake each other included.
DataReadable ==
  \A p \in Party : \A m \in net[p] \ got[p] :
    /\ m.type = "data" /\ Active(sess[p]) /\ ~Late(p, m)
    /\ InWindow(sess[p].doubleRatchet, m.payload)
    => receiveData(sess[p], m, nextKey).ok

\* An offer leads to a session established on both sides, or to a Close.
OfferLeadsToSession ==
  (sess[Bob].spk # NoKey) ~> (started = Party \/ over # {})
=============================================================================
