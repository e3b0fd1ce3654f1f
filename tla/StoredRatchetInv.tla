-------------------------- MODULE StoredRatchetInv --------------------------
(***************************************************************************)
(* The inductive invariant of StoredRatchet, and what it says of a file    *)
(* and the inbox that is read with it.  Restored loses keys and the number *)
(* prevSendNo, so that the argument of DoubleRatchet does not carry over:  *)
(* what makes delivery ordered here is that an inbox is a log, and that    *)
(* what lies behind the last message opened cannot be opened any more.     *)
(***************************************************************************)
EXTENDS StoredRatchet, RestoredRatchetProofs

USE SMTT(30), ZenonT(60)

\* m was sealed by q in an epoch q has reached.  Number 0 of Alice's first chain
\* is the ack's.  A message whose Send could not save has the number of the next.
Genuine(q, m) ==
  LET e == Epoch(file[q]) IN
  /\ m.dhPub >= 2 /\ m.dhPub <= e + 1
  /\ m.dhPub % 2 = (IF q = Alice THEN 0 ELSE 1)
  /\ m.key = [root |-> Root(m.dhPub - 1), n |-> m.msgNo]
  /\ m.prevNo = 0
  /\ m.dhPub = e + 1 => m.msgNo <= file[q].sendNo
  /\ m.dhPub = 2 => m.msgNo > 0

\* A text for which Send returned nil: its key is behind the one in the file.
Kept(q, m) == Genuine(q, m) /\ (m.dhPub = Epoch(file[q]) + 1 => m.msgNo < file[q].sendNo)

Lockstep ==
  LET a == Epoch(file[Alice])
      b == Epoch(file[Bob])
  IN /\ (a = b + 1 /\ b >= 2) \/ (b = a + 1 /\ a >= 1)
     /\ nextKey = 2 + (IF a > b THEN a ELSE b)
     /\ a = 1 => file[Alice].sendNo > 0

\* Position i was opened, and it was the last message of its chain that was.
Latest(p, i) == inbox[p][i].dhPub = file[p].peerDhPub /\ inbox[p][i].msgNo + 1 = file[p].recvNo

\* recvNo is that of the last message opened; at first that is the ack's, and
\* Alice has read nothing.
LastRead(p) ==
  \/ \E i \in opened[p] : Latest(p, i)
  \/ p = Bob /\ Epoch(file[p]) = 2 /\ file[p].recvNo = 1
  \/ p = Alice /\ Epoch(file[p]) = 1

\* Everything up to the position, and everything before a message that was
\* opened, has been read: it opened then or never will.
Passed(p, i) == i <= pos[p] \/ \E j \in opened[p] : i <= j

\* The file of p, and how far p got with the chain of its peer.
Filed(p) == Sound(p, file[p]) /\ Skipped(file[p]) /\ LastRead(p)

\* The inbox of p is a log of what its peer sealed, in that order.
Logged(p) ==
  /\ \A i \in DOMAIN inbox[p] : Genuine(Peer(p), inbox[p][i])
  /\ \A i, j \in DOMAIN inbox[p] : i < j => Precedes(inbox[p][i], inbox[p][j])

ReadOnce(p) ==
  /\ savedPos[p] <= pos[p]
  /\ \A i \in DOMAIN inbox[p] : Passed(p, i) => Unreadable(file[p], inbox[p][i])

\* What was passed without being opened was beyond the window, and is, unless an
\* earlier message was sealed with its key.
Missed(p) ==
  \A i \in DOMAIN inbox[p] :
    Passed(p, i) /\ i \notin opened[p] /\ ~Shadowed(p, i) => ~InWindow(file[p], inbox[p][i])

Confirmed(p) ==
  /\ \A m \in confirmed[p] : Kept(p, m)
  /\ \A m, w \in confirmed[p] : m.dhPub = w.dhPub /\ m.msgNo = w.msgNo => m = w

IInv ==
  /\ TypeOK
  /\ Lockstep
  /\ \A p \in Party : Filed(p) /\ Logged(p) /\ ReadOnce(p) /\ Missed(p) /\ Confirmed(p)

-----------------------------------------------------------------------------
(* Both clients *)

\* What the invariant says of one client and its peer.
LEMMA InvSound ==
  ASSUME IInv, NEW p \in Party
  PROVE  /\ Peer(p) \in Party /\ Peer(p) # p /\ Peer(Peer(p)) = p /\ Party = {p, Peer(p)}
         /\ Sound(p, file[p]) /\ Skipped(file[p]) /\ LastRead(p)
         /\ Epoch(file[p]) \in Nat /\ Epoch(file[p]) >= 1
         /\ file[p].dhPub = Epoch(file[p]) + 1 /\ file[p].peerDhPub = Epoch(file[p])
         /\ file[p] \in Ratchets /\ file[p].recvNo \in Nat /\ file[p].sendNo \in Nat
<1>1. Peer(p) \in Party /\ Peer(p) # p /\ Peer(Peer(p)) = p /\ Party = {p, Peer(p)}
  BY ZenonT(60) DEF Party, Peer, Alice, Bob
<1>2. Sound(p, file[p]) /\ Skipped(file[p]) /\ LastRead(p)
  BY ZenonT(60) DEF IInv, Filed
<1>3. Epoch(file[Alice]) \in Nat /\ Epoch(file[Bob]) \in Nat
  BY ZenonT(60) DEF IInv, Filed, Sound, InEpoch, Party
<1>4. Epoch(file[p]) \in Nat /\ Epoch(file[p]) >= 1
  BY <1>3 DEF IInv, Lockstep, Party
<1>5. file[p].dhPub = Epoch(file[p]) + 1 /\ file[p].peerDhPub = Epoch(file[p])
  BY <1>2, <1>4, EpochPairs
<1>6. file[p] \in Ratchets /\ file[p].recvNo \in Nat /\ file[p].sendNo \in Nat
  BY ZenonT(60), <1>2 DEF Sound, Ratchets
<1>. QED BY ZenonT(60), <1>1, <1>2, <1>4, <1>5, <1>6

\* The epochs of the two files, as one of the clients sees them.
LEMMA InStep ==
  ASSUME IInv, NEW p \in Party, NEW e, e = Epoch(file[p]), NEW o, o = Epoch(file[Peer(p)])
  PROVE  /\ o = e + 1 \/ e = o + 1
         /\ nextKey = 2 + (IF e > o THEN e ELSE o) /\ nextKey \in Nat
         /\ e % 2 = (IF p = Alice THEN 1 ELSE 0)
<1>1. e \in Nat /\ o \in Nat /\ e >= 1 /\ nextKey \in Nat
  BY ZenonT(60), InvSound DEF IInv, TypeOK
<1>2. e % 2 = (IF p = Alice THEN 1 ELSE 0)
  <2>1. InEpoch(p, file[p], e)
    BY ZenonT(60), InvSound DEF Sound
  <2>. QED BY <1>1, <2>1 DEF InEpoch
<1>3. CASE p = Alice
  BY ZenonT(60), <1>1, <1>2, <1>3 DEF IInv, Lockstep, Peer
<1>4. CASE p # Alice
  BY <1>1, <1>2, <1>4 DEF IInv, Lockstep, Peer, Party
<1>. QED BY ZenonT(60), <1>3, <1>4

\* A message of the inbox: its fields, and who sealed it when.
LEMMA InboxMessage ==
  ASSUME IInv, NEW p \in Party, NEW i \in DOMAIN inbox[p], NEW m, m = inbox[p][i]
  PROVE  /\ m \in Messages /\ m.dhPub \in Nat /\ m.msgNo \in Nat /\ m.msgNo \in HeaderNos
         /\ i \in Nat /\ i >= 1 /\ i <= Len(inbox[p])
         /\ Genuine(Peer(p), m)
         /\ Meets(p, file[p], m, nextKey)
<1>1. inbox[p] \in Seq(Messages)
  BY ZenonT(60) DEF IInv, TypeOK
<1>2. m \in Messages /\ i \in Nat /\ i >= 1 /\ i <= Len(inbox[p])
  BY <1>1
<1>3. m.dhPub \in Nat /\ m.msgNo \in Nat /\ m.msgNo \in HeaderNos
  BY <1>2, HeaderAssumption DEF Messages, HeaderNos
<1>4. Genuine(Peer(p), m)
  BY ZenonT(60) DEF IInv, Logged
<1>. DEFINE e == Epoch(file[p])
            o == Epoch(file[Peer(p)])
<1>5. /\ m.dhPub >= 2 /\ m.dhPub <= o + 1 /\ m.prevNo = 0
      /\ m.dhPub % 2 = (IF p = Alice THEN 1 ELSE 0)
      /\ m.key = [root |-> Root(m.dhPub - 1), n |-> m.msgNo]
  BY ZenonT(60), <1>4 DEF Genuine, Peer, Party, Alice, Bob
<1>6. e \in Nat /\ o \in Nat /\ e >= 1 /\ file[p].peerDhPub = e
  BY ZenonT(60), InvSound
<1>7. /\ o = e + 1 \/ e = o + 1
      /\ nextKey = 2 + (IF e > o THEN e ELSE o)
      /\ e % 2 = (IF p = Alice THEN 1 ELSE 0)
  BY InStep
<1>. HIDE DEF e, o
<1>8. m.dhPub > e => m.dhPub = e + 2 /\ nextKey = e + 3
  BY <1>3, <1>5, <1>6, <1>7
<1>9. Meets(p, file[p], m, nextKey)
  BY <1>2, <1>5, <1>6, <1>8 DEF Meets, e
<1>. QED BY ZenonT(60), <1>2, <1>3, <1>4, <1>9

\* What lies behind everything that was opened is not behind the file.
LEMMA NotBehind ==
  ASSUME IInv, NEW p \in Party, NEW i \in DOMAIN inbox[p], \A j \in opened[p] : j < i,
         NEW m, m = inbox[p][i]
  PROVE  /\ ~(m.dhPub < file[p].peerDhPub)
         /\ m.dhPub = file[p].peerDhPub => m.msgNo + 1 >= file[p].recvNo
         /\ m.dhPub = file[p].peerDhPub /\ m.msgNo < file[p].recvNo => Shadowed(p, i)
<1>1. /\ m.dhPub \in Nat /\ m.msgNo \in Nat /\ i \in Nat
      /\ file[p].recvNo \in Nat /\ file[p].peerDhPub = Epoch(file[p])
      /\ m.dhPub >= 2 /\ (m.dhPub = 2 => m.msgNo > 0)
      /\ m.key = [root |-> Root(m.dhPub - 1), n |-> m.msgNo]
  <2>1. Genuine(Peer(p), m) /\ m.dhPub \in Nat /\ m.msgNo \in Nat /\ i \in Nat
    BY ZenonT(60), InboxMessage
  <2>2. file[p].recvNo \in Nat /\ file[p].peerDhPub = Epoch(file[p])
    BY ZenonT(60), InvSound
  <2>. QED BY ZenonT(60), <2>1, <2>2 DEF Genuine
<1>2. CASE \E j \in opened[p] : Latest(p, j)
  <2>1. PICK j \in opened[p] : Latest(p, j)
    BY ZenonT(60), <1>2
  <2>2. j \in DOMAIN inbox[p] /\ j < i /\ j \in 1 .. i - 1
    <3>1. opened[p] \subseteq 1 .. Len(inbox[p]) /\ inbox[p] \in Seq(Messages)
      BY ZenonT(60) DEF IInv, TypeOK
    <3>. QED BY <1>1, <3>1
  <2>3. PICK v : v = inbox[p][j]
    BY ZenonT(60)
  <2>4. Precedes(v, m) /\ v.dhPub \in Nat /\ v.msgNo \in Nat
        /\ v.key = [root |-> Root(v.dhPub - 1), n |-> v.msgNo]
    BY ZenonT(60), <2>2, <2>3, InboxMessage DEF IInv, Logged, Genuine
  <2>5. v.dhPub = file[p].peerDhPub /\ v.msgNo + 1 = file[p].recvNo
    BY ZenonT(60), <2>1, <2>3 DEF Latest
  <2>6. m.dhPub = file[p].peerDhPub /\ m.msgNo < file[p].recvNo => m.key = v.key
    BY <1>1, <2>4, <2>5 DEF Precedes
  <2>7. m.key = v.key => Shadowed(p, i)
    BY ZenonT(60), <2>2, <2>3 DEF Shadowed
  <2>8. v.dhPub < m.dhPub \/ (v.dhPub = m.dhPub /\ v.msgNo <= m.msgNo)
    BY ZenonT(60), <2>4 DEF Precedes
  <2>9. ~(m.dhPub < v.dhPub) /\ (m.dhPub = v.dhPub => m.msgNo + 1 >= v.msgNo + 1)
    <3>1. m.dhPub \in Nat /\ m.msgNo \in Nat /\ v.dhPub \in Nat /\ v.msgNo \in Nat
      BY ZenonT(60), <1>1, <2>4
    <3>. QED BY <2>8, <3>1
  <2>. QED BY ZenonT(60), <2>5, <2>6, <2>7, <2>9
<1>3. CASE Epoch(file[p]) = 2 /\ file[p].recvNo = 1
  BY <1>1, <1>3
<1>4. CASE Epoch(file[p]) = 1
  BY <1>1, <1>4
<1>. QED BY ZenonT(60), <1>2, <1>3, <1>4, InvSound DEF LastRead

\* What Encrypt makes of the restored file of p.
LEMMA SealedNext ==
  ASSUME IInv, NEW p \in Party, NEW r, r = Sealing(p), r.ok
  PROVE  /\ Sound(p, r.dr) /\ Epoch(r.dr) = Epoch(file[p])
         /\ r.dr.dhPub = file[p].dhPub /\ r.dr.peerDhPub = file[p].peerDhPub
         /\ r.dr.recvNo = file[p].recvNo
         /\ \A k, n : Cached(r.dr.msgKeyBuffer, k, n) => Cached(file[p].msgKeyBuffer, k, n)
         /\ r.msg \in Messages /\ r.msg.prevNo = 0
         /\ r.msg.dhPub = Epoch(file[p]) + 1 /\ r.msg.msgNo = file[p].sendNo
         /\ r.dr.sendNo = file[p].sendNo + 1
         /\ r.msg.key = [root |-> Root(Epoch(file[p])), n |-> file[p].sendNo]
<1>. PICK f, e : f = file[p] /\ e = Epoch(f)
  OBVIOUS
<1>1. PICK c : c = Restored(f)
  OBVIOUS
<1>2. Sound(p, f) /\ e \in Nat /\ e >= 1
  BY ZenonT(60), InvSound
<1>3. /\ Sound(p, c) /\ Epoch(c) = e /\ c.dhPub = f.dhPub /\ c.peerDhPub = f.peerDhPub
      /\ c.sendNo = f.sendNo /\ c.recvNo = f.recvNo /\ c.prevSendNo = 0
      /\ \A k, n : Cached(c.msgKeyBuffer, k, n) => Cached(f.msgKeyBuffer, k, n)
  BY <1>1, <1>2, RestoredSound
<1>4. calls[p] + 1 \in Nat /\ nextKey \in Nat
  BY BoundsAssumption DEF IInv, TypeOK
<1>5. r = Encrypt(c, calls[p] + 1, nextKey)
  BY ZenonT(60), <1>1 DEF Sealing
<1>6. /\ Sound(p, r.dr) /\ Epoch(r.dr) = IF p = Alice /\ Epoch(c) = 0 THEN 1 ELSE Epoch(c)
      /\ r.dr.dhPub = c.dhPub /\ r.dr.peerDhPub = c.peerDhPub
      /\ r.dr.recvNo = c.recvNo /\ r.dr.msgKeyBuffer = c.msgKeyBuffer
      /\ r.msg \in Messages
      /\ r.msg.dhPub = Epoch(r.dr) + 1
      /\ r.msg.msgNo = c.sendNo /\ r.dr.sendNo = c.sendNo + 1
      /\ r.msg.key = [root |-> Root(Epoch(r.dr)), n |-> c.sendNo]
  <2>1. Encrypts(p, c, r)
    BY ZenonT(60), <1>3, <1>4, <1>5, EncryptSound
  <2>. QED BY ZenonT(60), <2>1 DEF Encrypts
<1>7. Epoch(r.dr) = e
  BY <1>2, <1>3, <1>6
<1>8. r.msg.prevNo = 0
  BY <1>2, <1>3, <1>5, SealedPrev
<1>. QED BY ZenonT(60), <1>3, <1>6, <1>7, <1>8

\* Opening a message of the inbox of p is Decrypt on the restored file.
LEMMA OpeningRestored ==
  ASSUME IInv, NEW p \in Party, NEW i \in DOMAIN inbox[p], NEW c, c = Restored(file[p])
  PROVE  /\ Sound(p, c) /\ Skipped(c) /\ Meets(p, c, inbox[p][i], nextKey)
         /\ Epoch(c) = Epoch(file[p]) /\ c.dhPub = file[p].dhPub
         /\ c.peerDhPub = file[p].peerDhPub
         /\ c.recvNo = file[p].recvNo /\ c.sendNo = file[p].sendNo
         /\ \A v : Unreadable(file[p], v) => Unreadable(c, v)
         /\ Opening(p, i) = Decrypt(c, inbox[p][i], nextKey)
         /\ Opening(p, i).ok <=> ~Unreadable(c, inbox[p][i])
<1>1. /\ Sound(p, file[p]) /\ Skipped(file[p]) /\ nextKey \in Nat
  BY ZenonT(60), InvSound DEF IInv, TypeOK
<1>2. /\ Sound(p, c) /\ Epoch(c) = Epoch(file[p]) /\ c.dhPub = file[p].dhPub
      /\ c.peerDhPub = file[p].peerDhPub
      /\ c.recvNo = file[p].recvNo /\ c.sendNo = file[p].sendNo
      /\ \A k, n : Cached(c.msgKeyBuffer, k, n) => Cached(file[p].msgKeyBuffer, k, n)
  BY <1>1, RestoredSound
<1>3. Skipped(c)
  BY ZenonT(60), <1>1, <1>2 DEF Skipped
<1>4. \A v : Unreadable(file[p], v) => Unreadable(c, v)
  BY ZenonT(60), <1>2, StillUnreadable
<1>5. Meets(p, c, inbox[p][i], nextKey)
  <2>1. Meets(p, file[p], inbox[p][i], nextKey)
    BY ZenonT(60), InboxMessage
  <2>. QED BY ZenonT(60), <1>2, <2>1 DEF Meets
<1>6. Opening(p, i) = Decrypt(c, inbox[p][i], nextKey)
  BY ZenonT(60) DEF Opening
<1>7. Opening(p, i).ok <=> ~Unreadable(c, inbox[p][i])
  BY ZenonT(60), <1>1, <1>2, <1>5, <1>6, Outcome
<1>. QED BY ZenonT(60), <1>2, <1>3, <1>4, <1>5, <1>6, <1>7

\* Position i was not passed, and r.dr is the file that has read the message m there.
OpensAt(p, i, r, m) ==
  /\ ~Passed(p, i) /\ \A j \in opened[p] : j < i
  /\ Sound(p, r.dr) /\ Skipped(r.dr)
  /\ r.dr.peerDhPub = m.dhPub /\ r.dr.recvNo = m.msgNo + 1
  /\ \/ /\ Epoch(r.dr) = Epoch(file[p])
        /\ r.dr.dhPub = file[p].dhPub /\ r.dr.sendNo = file[p].sendNo
     \/ /\ m.dhPub = Epoch(file[p]) + 2 /\ Epoch(r.dr) = Epoch(file[p]) + 2
        /\ r.dr.dhPub = nextKey /\ r.dr.sendNo = 0
  /\ \A v \in Messages : Precedes(v, m) /\ Unreadable(file[p], v) => Unreadable(r.dr, v)
  /\ Unreadable(r.dr, m)

\* What opens at position i was not passed, and what handleRatchet then saves.
LEMMA OpenedNext ==
  ASSUME IInv, NEW p \in Party, NEW i \in DOMAIN inbox[p], NEW r, r = Opening(p, i), r.ok,
         NEW m, m = inbox[p][i]
  PROVE  OpensAt(p, i, r, m)
<1>. PICK c : c = Restored(file[p])
  BY ZenonT(60)
<1>1. /\ Sound(p, c) /\ Skipped(c) /\ Meets(p, c, m, nextKey)
      /\ Epoch(c) = Epoch(file[p]) /\ c.dhPub = file[p].dhPub
      /\ c.peerDhPub = file[p].peerDhPub
      /\ c.recvNo = file[p].recvNo /\ c.sendNo = file[p].sendNo
      /\ \A v : Unreadable(file[p], v) => Unreadable(c, v)
      /\ r = Decrypt(c, m, nextKey)
      /\ r.ok <=> ~Unreadable(c, m)
  BY ZenonT(60), OpeningRestored
<1>2. ~Passed(p, i)
  <2>1. Passed(p, i) => Unreadable(file[p], m)
    BY ZenonT(60) DEF IInv, ReadOnce
  <2>. QED BY ZenonT(60), <1>1, <2>1
<1>3. \A j \in opened[p] : j < i
  <2>1. i \in Nat /\ opened[p] \subseteq Nat
    BY ZenonT(60), InboxMessage DEF IInv, TypeOK
  <2>. QED BY <1>2, <2>1 DEF Passed
<1>4. /\ ~(m.dhPub < c.peerDhPub)
      /\ m.dhPub = c.peerDhPub => m.msgNo + 1 >= c.recvNo
  BY ZenonT(60), <1>1, <1>3, NotBehind
<1>5. nextKey \in Nat
  BY ZenonT(60) DEF IInv, TypeOK
<1>6. /\ Sound(p, r.dr) /\ Skipped(r.dr)
      /\ r.dr.peerDhPub = m.dhPub /\ r.dr.recvNo = m.msgNo + 1
      /\ \/ /\ m.dhPub = c.peerDhPub /\ Epoch(r.dr) = Epoch(c)
            /\ r.dr.dhPub = c.dhPub /\ r.dr.sendNo = c.sendNo
         \/ /\ m.dhPub > c.peerDhPub /\ Epoch(r.dr) = Epoch(c) + 2
            /\ r.dr.dhPub = nextKey /\ r.dr.sendNo = 0
      /\ \A v \in Messages : Precedes(v, m) /\ Unreadable(c, v) => Unreadable(r.dr, v)
      /\ Unreadable(r.dr, m)
  <2>1. ReadsOn(p, c, m, nextKey, r)
    BY ZenonT(60), <1>1, <1>4, <1>5, ReadNext
  <2>. QED BY ZenonT(60), <2>1 DEF ReadsOn
<1>7. m.dhPub > c.peerDhPub => m.dhPub = Epoch(file[p]) + 2
  BY ZenonT(60), <1>1 DEF Meets
<1>. QED BY ZenonT(60), <1>1, <1>2, <1>3, <1>6, <1>7 DEF OpensAt

\* What does not open will not open later either: the keys that Restored loses
\* are those of messages that lie before what was opened.
LEMMA FailedNext ==
  ASSUME IInv, NEW p \in Party, NEW i \in DOMAIN inbox[p], ~Opening(p, i).ok
  PROVE  Unreadable(file[p], inbox[p][i]) \/ \E j \in opened[p] : i < j
<1>. SUFFICES ASSUME \A j \in opened[p] : ~(i < j), ~Passed(p, i)
              PROVE  Unreadable(file[p], inbox[p][i])
  BY ZenonT(60) DEF IInv, ReadOnce
<1>. PICK c, m : c = Restored(file[p]) /\ m = inbox[p][i]
  OBVIOUS
<1>1. \A j \in opened[p] : j < i
  <2>1. i \in Nat /\ opened[p] \subseteq Nat
    BY ZenonT(60), InboxMessage DEF IInv, TypeOK
  <2>. QED BY <2>1 DEF Passed
<1>2. /\ c.peerDhPub = file[p].peerDhPub /\ c.recvNo = file[p].recvNo
      /\ Unreadable(c, m)
  BY ZenonT(60), OpeningRestored
<1>3. m.dhPub = file[p].peerDhPub => m.msgNo + 1 >= file[p].recvNo
  BY ZenonT(60), <1>1, NotBehind
<1>4. /\ m.msgNo \in HeaderNos /\ m.msgNo \in Nat /\ file[p].recvNo \in Nat
      /\ Skipped(file[p])
  BY ZenonT(60), InboxMessage, InvSound
<1>5. m.dhPub = file[p].peerDhPub => ~Cached(file[p].msgKeyBuffer, m.dhPub, m.msgNo)
  BY <1>3, <1>4 DEF Skipped
<1>. QED BY ZenonT(60), <1>2, <1>5 DEF Unreadable, SkipRefused

\* What lies beyond the window is not in it once a later message was opened.
LEMMA MissedStays ==
  ASSUME IInv, NEW p \in Party, NEW i \in DOMAIN inbox[p], NEW r, r = Opening(p, i), r.ok,
         NEW j \in DOMAIN inbox[p], NEW v, v = inbox[p][j], Precedes(v, inbox[p][i]),
         ~InWindow(file[p], v)
  PROVE  ~InWindow(r.dr, v)
<1>. PICK c, m, f : c = Restored(file[p]) /\ m = inbox[p][i] /\ f = file[p]
  BY ZenonT(60)
<1>1. /\ ~Unreadable(c, m) /\ c.peerDhPub = f.peerDhPub /\ c.recvNo = f.recvNo
  BY ZenonT(60), OpeningRestored
<1>2. r.dr.peerDhPub = m.dhPub /\ r.dr.recvNo = m.msgNo + 1
  <2>1. OpensAt(p, i, r, m)
    BY ZenonT(60), OpenedNext
  <2>. QED BY ZenonT(60), <2>1 DEF OpensAt
<1>3. /\ m.dhPub \in Nat /\ m.msgNo \in Nat /\ v.dhPub \in Nat /\ v.msgNo \in Nat
      /\ v.prevNo = 0 /\ f.recvNo \in Nat /\ MaxSkipElements \in Nat /\ f.peerDhPub \in Nat
  <2>1. m.dhPub \in Nat /\ m.msgNo \in Nat
    BY ZenonT(60), InboxMessage
  <2>2. v.dhPub \in Nat /\ v.msgNo \in Nat /\ v.prevNo = 0
    BY ZenonT(60), InboxMessage DEF Genuine
  <2>3. f.recvNo \in Nat /\ MaxSkipElements \in Nat /\ f.peerDhPub \in Nat
    BY ZenonT(60), InvSound, SkipElementsAssumption
  <2>. QED BY ZenonT(60), <2>1, <2>2, <2>3
<1>4. /\ v.dhPub = f.peerDhPub => v.msgNo > f.recvNo + MaxSkipElements
      /\ v.dhPub # f.peerDhPub => v.msgNo > MaxSkipElements
  <2>1. \A a, b \in Nat : 0 <= a + b /\ (~(a <= b) => a > b)
    OBVIOUS
  <2>2. f.recvNo + MaxSkipElements \in Nat /\ 0 <= f.recvNo + MaxSkipElements
    BY <1>3
  <2>. QED BY ZenonT(60), <1>3, <2>1, <2>2 DEF InWindow
<1>5. /\ ~(m.dhPub < f.peerDhPub)
      /\ m.dhPub = f.peerDhPub => m.msgNo <= f.recvNo + MaxSkipElements
      /\ m.dhPub > f.peerDhPub => m.msgNo <= MaxSkipElements
  <2>1. \A a, b \in Nat : ~(a < b) => b <= a
    OBVIOUS
  <2>2. f.recvNo + MaxSkipElements \in Nat
    BY <1>3
  <2>. QED BY ZenonT(60), <1>1, <1>3, <2>1, <2>2 DEF Unreadable, SkipRefused
<1>6. v.dhPub # m.dhPub
  <2>1. CASE v.dhPub = m.dhPub /\ v.msgNo <= m.msgNo
    BY <1>3, <1>4, <1>5, <2>1
  <2>. QED BY <1>3, <2>1 DEF Precedes
<1>7. v.dhPub # r.dr.peerDhPub /\ ~(v.msgNo <= MaxSkipElements)
  <2>1. v.msgNo > MaxSkipElements
    BY <1>3, <1>4
  <2>. QED BY <1>2, <1>3, <1>6, <2>1
<1>. QED BY ZenonT(60), <1>7 DEF InWindow

\* A message that nobody tried to open before does open, in the window.
LEMMA FirstOpens ==
  ASSUME IInv, NEW p \in Party, NEW i \in DOMAIN inbox[p], ~Passed(p, i), ~Shadowed(p, i),
         InWindow(file[p], inbox[p][i])
  PROVE  Opening(p, i).ok
<1>. PICK c, m, f : c = Restored(file[p]) /\ m = inbox[p][i] /\ f = file[p]
  OBVIOUS
<1>1. \A j \in opened[p] : j < i
  <2>1. i \in Nat /\ opened[p] \subseteq Nat
    BY ZenonT(60), InboxMessage DEF IInv, TypeOK
  <2>. QED BY <2>1 DEF Passed
<1>2. /\ Opening(p, i).ok <=> ~Unreadable(c, m)
      /\ c.peerDhPub = f.peerDhPub /\ c.recvNo = f.recvNo
  BY ZenonT(60), OpeningRestored
<1>3. /\ ~(m.dhPub < f.peerDhPub)
      /\ m.dhPub = f.peerDhPub => ~(m.msgNo < f.recvNo)
  BY ZenonT(60), <1>1, NotBehind
<1>4. /\ m.dhPub \in Nat /\ m.msgNo \in Nat
      /\ f.recvNo \in Nat /\ MaxSkipElements \in Nat /\ f.peerDhPub \in Nat
  BY ZenonT(60), InboxMessage, InvSound, SkipElementsAssumption
<1>5. \A a, b \in Nat : a <= b => ~(b < a)
  OBVIOUS
<1>6. f.recvNo + MaxSkipElements \in Nat /\ (m.dhPub > f.peerDhPub => m.dhPub # f.peerDhPub)
  BY <1>4
<1>. QED BY ZenonT(60), <1>2, <1>3, <1>4, <1>5, <1>6 DEF Unreadable, SkipRefused, InWindow

-----------------------------------------------------------------------------
(* A text that is sealed *)

\* Send, whether or not the post was stored and the ratchet saved: d is what is
\* in the file then, box the inbox of the peer, kept the texts confirmed.
Seals(p, d, box, kept) ==
  /\ Sending(p) /\ Sealing(p).ok
  /\ d = file[p] \/ d = Sealing(p).dr
  /\ file' = [file EXCEPT ![p] = d]
  /\ box = inbox[Peer(p)] \/ box = Append(inbox[Peer(p)], Sealing(p).msg)
  /\ inbox' = [inbox EXCEPT ![Peer(p)] = box]
  /\ \/ kept = confirmed[p]
     \/ d = Sealing(p).dr /\ kept = confirmed[p] \cup {Sealing(p).msg}
  /\ confirmed' = [confirmed EXCEPT ![p] = kept]
  /\ faults' \in 0 .. MaxFaults

\* A Send that sealed a text, posted and saved or not, keeps the files in step.
LEMMA SealInv ==
  ASSUME IInv, NEW p \in Party, NEW d, NEW box, NEW kept, Seals(p, d, box, kept)
  PROVE  IInv'
<1>. PICK f, e, q, r : f = file[p] /\ e = Epoch(f) /\ q = Peer(p) /\ r = Sealing(p)
  OBVIOUS
<1>k. Sending(p) /\ r.ok
  BY ZenonT(60) DEF Seals
<1>s. /\ d = f \/ d = r.dr
      /\ file' = [file EXCEPT ![p] = d] /\ inbox' = [inbox EXCEPT ![q] = box]
      /\ confirmed' = [confirmed EXCEPT ![p] = kept] /\ faults' \in 0 .. MaxFaults
      /\ box = inbox[q] \/ box = Append(inbox[q], r.msg)
      /\ kept = confirmed[p] \/ (d = r.dr /\ kept = confirmed[p] \cup {r.msg})
  BY ZenonT(60) DEF Seals
<1>1. /\ q \in Party /\ q # p /\ Peer(q) = p /\ Party = {p, q}
      /\ Sound(p, f) /\ Skipped(f) /\ LastRead(p) /\ Filed(q)
      /\ e \in Nat /\ e >= 1 /\ f.sendNo \in Nat /\ f.recvNo \in Nat /\ f.peerDhPub \in Nat
  BY ZenonT(60), InvSound DEF IInv, Filed
<1>2. /\ file \in [Party -> Ratchets] /\ inbox \in [Party -> Seq(Messages)]
      /\ confirmed \in [Party -> SUBSET Messages] /\ calls \in [Party -> 0 .. MaxSend]
      /\ inbox[q] \in Seq(Messages) /\ inbox[p] \in Seq(Messages)
      /\ \A x \in Party : /\ pos[x] \in Nat /\ pos[x] <= Len(inbox[x])
                          /\ opened[x] \subseteq 1 .. Len(inbox[x])
  BY ZenonT(60), <1>1 DEF IInv, TypeOK
<1>3. /\ Sound(p, r.dr) /\ Epoch(r.dr) = e
      /\ r.dr.dhPub = f.dhPub /\ r.dr.peerDhPub = f.peerDhPub /\ r.dr.recvNo = f.recvNo
      /\ \A k, n : Cached(r.dr.msgKeyBuffer, k, n) => Cached(f.msgKeyBuffer, k, n)
      /\ r.msg \in Messages /\ r.msg.prevNo = 0
      /\ r.msg.dhPub = e + 1 /\ r.msg.msgNo = f.sendNo /\ r.dr.sendNo = f.sendNo + 1
      /\ r.msg.key = [root |-> Root(e), n |-> f.sendNo]
  BY ZenonT(60), <1>k, SealedNext
<1>4. /\ Sound(p, d) /\ Epoch(d) = e /\ d.peerDhPub = f.peerDhPub /\ d.recvNo = f.recvNo
      /\ \A k, n : Cached(d.msgKeyBuffer, k, n) => Cached(f.msgKeyBuffer, k, n)
      /\ d.sendNo \in Nat /\ d.sendNo >= f.sendNo /\ d \in Ratchets
      /\ d = r.dr => d.sendNo = f.sendNo + 1
  <2>1. f.sendNo >= f.sendNo /\ f.sendNo + 1 >= f.sendNo /\ f.sendNo + 1 \in Nat
    <3>1. f.sendNo \in Nat
      BY ZenonT(60), <1>1
    <3>. QED BY <3>1
  <2>. QED BY ZenonT(60), <1>1, <1>3, <1>s, <2>1 DEF Sound
<1>n. /\ \A x \in Nat : x <= f.sendNo => x <= d.sendNo
      /\ \A x \in Nat : x < f.sendNo => x < d.sendNo /\ x # f.sendNo
      /\ \A x \in Nat : x <= e + 1 => x < e + 1 \/ x = e + 1
      /\ f.sendNo <= f.sendNo /\ f.sendNo <= d.sendNo /\ f.sendNo < f.sendNo + 1
      /\ f.sendNo > 0 => d.sendNo > 0
      /\ e + 1 >= 2 /\ e + 1 <= e + 1 /\ (e + 1) - 1 = e /\ (e + 1 = 2 => e = 1)
  <2>1. e \in Nat /\ e >= 1 /\ f.sendNo \in Nat /\ d.sendNo \in Nat /\ d.sendNo >= f.sendNo
    BY ZenonT(60), <1>1, <1>4
  <2>. QED BY <2>1
<1>m. \A m \in Messages : m.dhPub \in Nat /\ m.msgNo \in Nat
  BY HeaderAssumption DEF Messages, HeaderNos
<1>5. /\ file'[p] = d /\ file'[q] = file[q] /\ inbox'[p] = inbox[p] /\ inbox'[q] = box
      /\ confirmed'[p] = kept /\ confirmed'[q] = confirmed[q]
      /\ UNCHANGED <<pos, savedPos, opened, shown, nextKey, exits, crashes>>
      /\ calls' = [calls EXCEPT ![p] = @ + 1] /\ calls[p] + calls[q] < MaxSend
  <2>1. /\ file'[p] = d /\ file'[q] = file[q] /\ inbox'[p] = inbox[p] /\ inbox'[q] = box
        /\ confirmed'[p] = kept /\ confirmed'[q] = confirmed[q]
    BY ZenonT(60), <1>1, <1>2, <1>s
  <2>. QED BY ZenonT(60), <1>k, <2>1 DEF Sending
<1>6. /\ Len(box) \in Nat /\ Len(box) >= Len(inbox[q]) /\ box \in Seq(Messages)
      /\ \A i \in DOMAIN inbox[q] : i \in DOMAIN box /\ box[i] = inbox[q][i]
      /\ \A i \in DOMAIN box : \/ i \in DOMAIN inbox[q]
                               \/ /\ i = Len(inbox[q]) + 1 /\ box[i] = r.msg
                                  /\ \A j \in DOMAIN inbox[q] : j < i
  <2>0. inbox[q] \in Seq(Messages) /\ r.msg \in Messages
    BY ZenonT(60), <1>2, <1>3
  <2>1. CASE box = inbox[q]
    BY <2>0, <2>1
  <2>2. CASE box = Append(inbox[q], r.msg)
    BY <2>0, <2>2
  <2>. QED BY ZenonT(60), <1>s, <2>1, <2>2
<1>i. /\ \A i \in DOMAIN box : i \in Nat /\ i >= 1
      /\ DOMAIN inbox[q] = 1 .. Len(inbox[q]) /\ Len(inbox[q]) \in Nat /\ Len(inbox[p]) \in Nat
  <2>1. inbox[q] \in Seq(Messages) /\ inbox[p] \in Seq(Messages) /\ box \in Seq(Messages)
    BY ZenonT(60), <1>2, <1>6
  <2>. QED BY <2>1
<1>j. \A i \in DOMAIN box : Passed(q, i) => i \in DOMAIN inbox[q]
  <2>1. pos[q] \in Nat /\ pos[q] <= Len(inbox[q]) /\ opened[q] \subseteq 1 .. Len(inbox[q])
    BY ZenonT(60), <1>1, <1>2
  <2>. QED BY <1>i, <2>1 DEF Passed
<1>7. TypeOK'
  <2>1. file' \in [Party -> Ratchets] /\ inbox' \in [Party -> Seq(Messages)]
    BY ZenonT(60), <1>1, <1>2, <1>4, <1>6, <1>s
  <2>2. confirmed' \in [Party -> SUBSET Messages]
    BY ZenonT(60), <1>2, <1>3, <1>s
  <2>3. calls' \in [Party -> 0 .. MaxSend]
    <3>1. calls[p] \in Nat /\ calls[q] \in Nat /\ MaxSend \in Nat
      <4>1. calls[p] \in 0 .. MaxSend /\ calls[q] \in 0 .. MaxSend
        BY ZenonT(60), <1>1, <1>2
      <4>. QED BY <4>1, BoundsAssumption
    <3>2. calls[p] + 1 \in 0 .. MaxSend
      <4>1. calls[p] + calls[q] < MaxSend
        BY ZenonT(60), <1>5
      <4>. QED BY <3>1, <4>1
    <3>. QED BY ZenonT(60), <1>2, <1>5, <3>2
  <2>4. \A x \in Party : Len(inbox'[x]) >= Len(inbox[x]) /\ Len(inbox'[x]) \in Nat /\ Len(inbox[x]) \in Nat
    <3>1. \A n \in Nat : n >= n
      OBVIOUS
    <3>. QED BY ZenonT(60), <1>1, <1>5, <1>6, <1>i, <3>1
  <2>5. \A x \in Party : /\ pos[x] <= Len(inbox'[x]) /\ savedPos[x] <= Len(inbox'[x])
                         /\ opened[x] \subseteq 1 .. Len(inbox'[x])
    <3>1. \A x \in Party : /\ pos[x] \in Nat /\ pos[x] <= Len(inbox[x])
                           /\ savedPos[x] \in Nat /\ savedPos[x] <= Len(inbox[x])
                           /\ opened[x] \subseteq 1 .. Len(inbox[x])
      BY ZenonT(60) DEF IInv, TypeOK
    <3>. QED BY <2>4, <3>1
  <2>. QED BY ZenonT(60), <1>5, <1>s, <2>1, <2>2, <2>3, <2>5 DEF IInv, TypeOK
<1>8. Lockstep'
  <2>1. CASE p = Alice
    BY ZenonT(60), <1>1, <1>4, <1>5, <1>n, <2>1 DEF IInv, Lockstep, Peer
  <2>2. CASE p # Alice
    BY ZenonT(60), <1>1, <1>4, <1>5, <2>2 DEF IInv, Lockstep, Peer, Party
  <2>. QED BY ZenonT(60), <2>1, <2>2
<1>9. Filed(p)'
  <2>1. Skipped(d)
    BY ZenonT(60), <1>1, <1>4 DEF Skipped
  <2>2. LastRead(p)'
    BY ZenonT(60), <1>1, <1>4, <1>5 DEF LastRead, Latest
  <2>. QED BY ZenonT(60), <1>4, <1>5, <2>1, <2>2 DEF Filed
<1>10. Filed(q)'
  <2>1. \A i \in opened[q] : inbox'[q][i] = inbox[q][i]
    BY ZenonT(60), <1>1, <1>2, <1>5, <1>6, <1>i
  <2>. QED BY ZenonT(60), <1>1, <1>5, <2>1 DEF Filed, LastRead, Latest
<1>11. Logged(p)'
  <2>1. \A m : Genuine(q, m) => Genuine(q, m)'
    BY ZenonT(60), <1>5 DEF Genuine
  <2>2. Logged(p)
    BY ZenonT(60) DEF IInv
  <2>. QED BY ZenonT(60), <1>5, <2>1, <2>2 DEF Logged
<1>12. Genuine(p, r.msg)'
  <2>1. /\ e % 2 = (IF p = Alice THEN 1 ELSE 0)
        /\ e = 1 => f.sendNo > 0
    <3>1. e % 2 = (IF p = Alice THEN 1 ELSE 0)
      BY ZenonT(60), InStep
    <3>2. e = 1 => p = Alice
      BY <3>1
    <3>. QED BY ZenonT(60), <3>1, <3>2 DEF IInv, Lockstep
  <2>2. (e + 1) % 2 = (IF p = Alice THEN 0 ELSE 1)
    <3>1. e \in Nat
      BY ZenonT(60), <1>1
    <3>. QED BY <2>1, <3>1
  <2>. QED BY ZenonT(60), <1>3, <1>4, <1>5, <1>n, <2>1, <2>2 DEF Genuine
<1>13. \A m \in Messages : Genuine(p, m) => Genuine(p, m)' /\ Precedes(m, r.msg)
  BY ZenonT(60), <1>3, <1>4, <1>5, <1>m, <1>n DEF Genuine, Precedes
<1>14. Logged(q)'
  <2>1. \A i \in DOMAIN inbox[q] : inbox[q][i] \in Messages /\ Genuine(p, inbox[q][i])
    <3>1. \A i \in DOMAIN inbox[q] : inbox[q][i] \in Messages
      <4>1. inbox[q] \in Seq(Messages)
        BY ZenonT(60), <1>2
      <4>. QED BY <4>1
    <3>. QED BY ZenonT(60), <1>1, <3>1 DEF IInv, Logged
  <2>2. \A i \in DOMAIN box : Genuine(p, box[i])'
    BY ZenonT(60), <1>6, <1>12, <1>13, <2>1
  <2>3. \A i, j \in DOMAIN box : i < j => Precedes(box[i], box[j])
    <3>. SUFFICES ASSUME NEW i \in DOMAIN box, NEW j \in DOMAIN box, i < j
                  PROVE  Precedes(box[i], box[j])
      OBVIOUS
    <3>1. i \in DOMAIN inbox[q]
      <4>1. i \in DOMAIN inbox[q] \/ i = Len(inbox[q]) + 1
        BY ZenonT(60), <1>6
      <4>2. j \in DOMAIN inbox[q] \/ j = Len(inbox[q]) + 1
        BY ZenonT(60), <1>6
      <4>. QED BY <1>i, <4>1, <4>2
    <3>2. CASE j \in DOMAIN inbox[q]
      BY ZenonT(60), <1>1, <1>6, <3>1, <3>2 DEF IInv, Logged
    <3>3. CASE box[j] = r.msg
      BY ZenonT(60), <1>6, <1>13, <2>1, <3>1, <3>3
    <3>. QED BY ZenonT(60), <1>6, <3>2, <3>3
  <2>. QED BY ZenonT(60), <1>1, <1>5, <2>2, <2>3 DEF Logged
<1>15. ReadOnce(p)'
  <2>1. \A m : Unreadable(f, m) => Unreadable(d, m)
    BY ZenonT(60), <1>4, StillUnreadable
  <2>. QED BY ZenonT(60), <1>5, <2>1 DEF IInv, ReadOnce, Passed
<1>16. ReadOnce(q)'
  BY ZenonT(60), <1>1, <1>5, <1>6, <1>j DEF IInv, ReadOnce, Passed
<1>17. Confirmed(p)'
  <2>1. \A m \in confirmed[p] : m \in Messages /\ m.dhPub \in Nat /\ m.msgNo \in Nat
    BY ZenonT(60), <1>2, <1>m
  <2>2. \A m \in confirmed[p] : Kept(p, m)' /\ ~(m.dhPub = r.msg.dhPub /\ m.msgNo = r.msg.msgNo)
    <3>. SUFFICES ASSUME NEW m \in confirmed[p]
                  PROVE  Kept(p, m)' /\ ~(m.dhPub = r.msg.dhPub /\ m.msgNo = r.msg.msgNo)
      OBVIOUS
    <3>1. Kept(p, m) /\ m \in Messages /\ m.msgNo \in Nat
      BY ZenonT(60), <2>1 DEF IInv, Confirmed
    <3>2. m.dhPub = e + 1 => m.msgNo < d.sendNo /\ m.msgNo # f.sendNo
      BY ZenonT(60), <1>n, <3>1 DEF Kept
    <3>3. Epoch(file'[p]) = e /\ file'[p].sendNo = d.sendNo
      BY ZenonT(60), <1>4, <1>5
    <3>4. Genuine(p, m)'
      BY ZenonT(60), <1>13, <3>1 DEF Kept
    <3>5. r.msg.dhPub = e + 1 /\ r.msg.msgNo = f.sendNo
      BY ZenonT(60), <1>3
    <3>. QED BY ZenonT(60), <3>2, <3>3, <3>4, <3>5 DEF Kept
  <2>3. d = r.dr => Kept(p, r.msg)'
    <3>1. d = r.dr => file'[p].sendNo = f.sendNo + 1
      BY ZenonT(60), <1>4, <1>5
    <3>. QED BY ZenonT(60), <1>3, <1>4, <1>5, <1>12, <1>n, <3>1 DEF Kept
  <2>. QED BY ZenonT(60), <1>5, <1>s, <2>2, <2>3 DEF IInv, Confirmed
<1>18. Confirmed(q)'
  BY ZenonT(60), <1>1, <1>5 DEF IInv, Confirmed, Kept, Genuine
<1>19. Missed(p)'
  BY ZenonT(60), <1>4, <1>5 DEF IInv, Missed, Passed, Shadowed, InWindow
<1>20. Missed(q)'
  <2>. SUFFICES ASSUME NEW i \in DOMAIN box, Passed(q, i)', i \notin opened'[q], ~Shadowed(q, i)'
                PROVE  ~InWindow(file[q], box[i])
    BY ZenonT(60), <1>5 DEF Missed
  <2>1. Passed(q, i)
    BY ZenonT(60), <1>5 DEF Passed
  <2>2. i \in DOMAIN inbox[q] /\ i \in Nat /\ inbox[q][i] = box[i]
    BY ZenonT(60), <1>6, <1>i, <1>j, <2>1
  <2>3. \A j \in 1 .. i - 1 : j \in DOMAIN inbox[q] /\ inbox[q][j] = box[j]
    <3>1. \A j \in 1 .. i - 1 : j \in DOMAIN inbox[q]
      BY <1>i, <2>2
    <3>. QED BY ZenonT(60), <1>6, <3>1
  <2>4. ~Shadowed(q, i)
    BY ZenonT(60), <1>5, <2>2, <2>3 DEF Shadowed
  <2>. QED BY ZenonT(60), <1>1, <1>5, <2>1, <2>2, <2>4 DEF IInv, Missed
<1>. QED BY ZenonT(60), <1>1, <1>7, <1>8, <1>9, <1>10, <1>11, <1>14, <1>15, <1>16, <1>17, <1>18, <1>19,
            <1>20 DEF IInv
=============================================================================
