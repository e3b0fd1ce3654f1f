------------------------ MODULE DoubleRatchetProofs ------------------------
(***************************************************************************)
(* Theorems about DoubleRatchet: the type invariant and every safety       *)
(* invariant of it, for every size of the key buffer, of the skip window   *)
(* and of the header fields, and for any number of calls.  Each follows    *)
(* from the inductive invariant IInv: both ratchets move through the epochs*)
(* in lockstep, and all keys in buffers and messages are those that their  *)
(* numbers and epochs stand for.                                           *)
(***************************************************************************)
EXTENDS DoubleRatchet, RatchetProofs

USE SMTT(30), ZenonT(60)

\* m was sealed by q in an epoch q has reached, with the key of its number.
Genuine(q, m) ==
  LET e == Epoch(dr[q]) IN
  /\ m.dhPub >= 2 /\ m.dhPub <= e + 1
  /\ m.dhPub % 2 = (IF q = Alice THEN 0 ELSE 1)
  /\ m.key = [root |-> Root(m.dhPub - 1), n |-> m.msgNo]
  /\ m.dhPub = e + 1 => m.msgNo < dr[q].sendNo

Lockstep ==
  LET a == Epoch(dr[Alice])
      b == Epoch(dr[Bob])
  IN /\ (a = 0 /\ b = 0) \/ a = b + 1 \/ (a >= 1 /\ b = a + 1)
     /\ nextKey = 2 + (IF a = 0 THEN 1 ELSE IF a > b THEN a ELSE b)

\* p is not ahead of q in the chain q is sending with.
NotAhead(p, q) ==
  Epoch(dr[p]) >= 2 /\ dr[p].peerDhPub = dr[q].dhPub => dr[p].recvNo <= dr[q].sendNo

\* What p has read, and what it can still read, of the chain it follows.
Accounted(p, m) ==
  LET d == dr[p] IN
  /\ m \in got[p] => m.dhPub <= d.peerDhPub
  /\ m \in got[p] /\ m.dhPub = d.peerDhPub => m.msgNo < d.recvNo
  /\ m.dhPub = d.peerDhPub /\ m.msgNo < d.recvNo =>
       m \in got[p] \/ Cached(d.msgKeyBuffer, m.dhPub, m.msgNo)

IInv ==
  /\ TypeOK
  /\ Lockstep
  /\ \A p \in Party :
       /\ InEpoch(p, dr[p], Epoch(dr[p]))
       /\ BufferGenuine(dr[p].msgKeyBuffer, dr[p].peerDhPub, dr[p].recvNo)
       /\ NotAhead(p, Peer(p))
       /\ \A m \in net[p] : Genuine(Peer(p), m) /\ Accounted(p, m)
       /\ \A m, w \in net[p] : m.dhPub = w.dhPub /\ m.msgNo = w.msgNo => m = w

-----------------------------------------------------------------------------
(* Both ratchets *)

\* What the invariant says of one party and its peer.
LEMMA InvSound ==
  ASSUME IInv, NEW p \in Party
  PROVE  Sound(p, dr[p]) /\ Epoch(dr[p]) \in Nat /\ Peer(p) \in Party /\ Peer(p) # p
         /\ Peer(Peer(p)) = p
BY ZenonT(60) DEF IInv, Sound, TypeOK, InEpoch, Party, Peer, Alice, Bob

\* A message that is not late belongs to the chain p follows or to the next.
LEMMA Turn ==
  ASSUME IInv, NEW p \in Party, NEW m \in net[p], ~Late(p, m)
  PROVE  \/ m.dhPub = dr[p].peerDhPub /\ Epoch(dr[p]) >= 2
         \/ /\ m.dhPub = Epoch(dr[p]) + 2
            /\ nextKey = Epoch(dr[p]) + 3
            /\ p = Alice => Epoch(dr[p]) > 0
            /\ Epoch(dr[Peer(p)]) = Epoch(dr[p]) + 1
<1>. DEFINE e == Epoch(dr[p])
            o == Epoch(dr[Peer(p)])
<1>1. e \in Nat /\ o \in Nat /\ m.dhPub \in Nat
  BY InvSound DEF IInv, TypeOK, Messages
<1>2. /\ m.dhPub >= 2 /\ m.dhPub <= o + 1
      /\ m.dhPub % 2 = (IF p = Alice THEN 1 ELSE 0)
  BY ZenonT(60) DEF IInv, Genuine, Peer, Party, Alice, Bob
<1>3. /\ e > 0 => e % 2 = (IF p = Alice THEN 1 ELSE 0)
      /\ dr[p].peerDhPub = IF p = Alice /\ e = 0 THEN 1 ELSE e
  BY ZenonT(60) DEF IInv, InEpoch, BobKey
<1>4. m.dhPub >= dr[p].peerDhPub
  BY <1>1, <1>3 DEF Late
<1>5. CASE p = Alice
  <2>1. /\ (e = 0 /\ o = 0) \/ e = o + 1 \/ (e >= 1 /\ o = e + 1)
        /\ nextKey = 2 + (IF e = 0 THEN 1 ELSE IF e > o THEN e ELSE o)
    BY ZenonT(60), <1>5 DEF IInv, Lockstep, Peer
  <2>. HIDE DEF e, o
  <2>2. (m.dhPub = dr[p].peerDhPub /\ e >= 2) \/ (o = e + 1 /\ e >= 1 /\ m.dhPub \in {e, e + 1, e + 2})
    BY <1>1, <1>2, <1>3, <1>4, <1>5, <2>1
  <2>3. m.dhPub # e + 1 \/ e = 0
    BY <1>1, <1>2, <1>3, <1>5
  <2>4. m.dhPub = e => e >= 2
    BY ZenonT(60), <1>2
  <2>. QED BY <1>1, <1>3, <2>1, <2>2, <2>3, <2>4 DEF e, o
<1>6. CASE p # Alice
  <2>1. /\ (e = 0 /\ o = 0) \/ o = e + 1 \/ (o >= 1 /\ e = o + 1)
        /\ nextKey = 2 + (IF o = 0 THEN 1 ELSE IF o > e THEN o ELSE e)
    BY ZenonT(60), <1>6 DEF IInv, Lockstep, Peer, Party
  <2>. HIDE DEF e, o
  <2>2. (m.dhPub = dr[p].peerDhPub /\ e >= 2) \/ (o = e + 1 /\ m.dhPub \in {e, e + 1, e + 2})
    BY <1>1, <1>2, <1>3, <1>4, <1>6, <2>1
  <2>3. m.dhPub # e + 1
    BY <1>1, <1>2, <1>3, <1>6
  <2>4. m.dhPub = e => e >= 2
    BY ZenonT(60), <1>2
  <2>. QED BY <1>1, <1>3, <1>6, <2>1, <2>2, <2>3, <2>4 DEF e, o
<1>. QED BY ZenonT(60), <1>5, <1>6

\* The key pair on offer is not one a party holds.
LEMMA OfferedKeyIsNew ==
  ASSUME IInv, NEW p \in Party
  PROVE  nextKey \in Nat /\ dr[p].dhPub # nextKey
<1>1. /\ Epoch(dr[Alice]) \in Nat /\ Epoch(dr[Bob]) \in Nat
      /\ dr[Alice].dhPub = IF Epoch(dr[Alice]) = 0 THEN 2 ELSE Epoch(dr[Alice]) + 1
      /\ dr[Bob].dhPub = Epoch(dr[Bob]) + 1
  BY ZenonT(60) DEF IInv, InEpoch, Party, AliceKey, Alice, Bob
<1>2. dr[Alice].dhPub # nextKey /\ dr[Bob].dhPub # nextKey
  BY <1>1 DEF IInv, Lockstep
<1>. QED BY ZenonT(60), <1>2 DEF IInv, TypeOK, Party

\* Encrypt and the hand-over to the network keep the invariant.
LEMMA SendInv ==
  ASSUME IInv, NEW p \in Party, Send(p)
  PROVE  IInv'
<1>. DEFINE q == Peer(p)
            e == Epoch(dr[p])
<1>1. PICK r : r = Encrypt(dr[p], calls[p], nextKey)
  OBVIOUS
<1>2. /\ dr' = [dr EXCEPT ![p] = r.dr]
      /\ nextKey' = IF r.dr.dhPub = nextKey THEN nextKey + 1 ELSE nextKey
      /\ net' = [net EXCEPT ![q] = IF r.ok THEN @ \cup {r.msg} ELSE @]
      /\ calls' = [calls EXCEPT ![p] = @ + 1]
      /\ got' = got
  BY ZenonT(60), <1>1 DEF Send, Generated
<1>3. /\ q \in Party /\ q # p /\ Peer(q) = p /\ Party = {p, q}
      /\ Sound(p, dr[p]) /\ Sound(q, dr[q]) /\ e \in Nat /\ Epoch(dr[q]) \in Nat
      /\ calls[p] \in Nat
      /\ dr \in [Party -> Ratchets] /\ net \in [Party -> SUBSET Messages]
      /\ got \in [Party -> SUBSET Messages] /\ calls \in [Party -> Nat]
      /\ nextKey \in Nat
  BY ZenonT(60), InvSound DEF IInv, TypeOK, Party, Peer, Alice, Bob
<1>4. /\ Sound(p, r.dr)
      /\ Epoch(r.dr) = IF p = Alice /\ e = 0 THEN 1 ELSE e
      /\ r.dr.dhPub = dr[p].dhPub /\ r.dr.peerDhPub = dr[p].peerDhPub
      /\ r.dr.recvNo = dr[p].recvNo /\ r.dr.msgKeyBuffer = dr[p].msgKeyBuffer
      /\ r.dr.sendNo >= dr[p].sendNo
      /\ r.ok => /\ r.msg \in Messages
                 /\ Epoch(r.dr) > 0 /\ r.msg.dhPub = Epoch(r.dr) + 1
                 /\ r.msg.msgNo = dr[p].sendNo /\ r.dr.sendNo = dr[p].sendNo + 1
                 /\ r.msg.key = [root |-> Root(Epoch(r.dr)), n |-> dr[p].sendNo]
  <2>1. Sound(p, dr[p]) /\ calls[p] \in Nat /\ nextKey \in Nat
    BY ZenonT(60), <1>3
  <2>2. Encrypts(p, dr[p], r)
    BY ZenonT(60), <1>1, <2>1, EncryptSound
  <2>. QED BY ZenonT(60), <1>1, <2>2 DEF Encrypts
<1>5. nextKey' = nextKey
  BY ZenonT(60), <1>2, <1>4, OfferedKeyIsNew
<1>6. /\ dr'[p] = r.dr /\ dr'[q] = dr[q]
      /\ net'[p] = net[p] /\ net'[q] = IF r.ok THEN net[q] \cup {r.msg} ELSE net[q]
  BY ZenonT(60), <1>2, <1>3
<1>7. /\ dr[p].sendNo \in Nat /\ r.dr.sendNo \in Nat /\ dr[q].recvNo \in Nat
      /\ r.dr \in Ratchets /\ dr[p].dhPub \in Nat
      /\ \A w \in net[q] : w \in Messages /\ w.dhPub \in Nat /\ w.msgNo \in Nat
  <2>1. r.dr \in Ratchets /\ dr[p] \in Ratchets /\ dr[q] \in Ratchets
    BY ZenonT(60), <1>3, <1>4 DEF Sound
  <2>2. \A w \in net[q] : w \in Messages
    BY ZenonT(60), <1>3
  <2>3. \A w \in Messages : w.dhPub \in Nat /\ w.msgNo \in Nat
    BY HeaderAssumption DEF Messages, HeaderNos
  <2>4. \A d \in Ratchets : d.sendNo \in Nat /\ d.recvNo \in Nat /\ d.dhPub \in Nat
    BY ZenonT(60) DEF Ratchets
  <2>. QED BY ZenonT(60), <2>1, <2>2, <2>3, <2>4
<1>8. TypeOK'
  <2>1. dr' \in [Party -> Ratchets] /\ calls' \in [Party -> Nat]
    <3>1. calls[p] + 1 \in Nat
      BY <1>3
    <3>. QED BY ZenonT(60), <1>2, <1>3, <1>7, <3>1
  <2>2. net' \in [Party -> SUBSET Messages]
    BY ZenonT(60), <1>2, <1>3, <1>4
  <2>3. \A x \in Party : got'[x] \subseteq net'[x]
    BY ZenonT(60), <1>2, <1>3, <1>6 DEF IInv, TypeOK
  <2>. QED BY ZenonT(60), <1>2, <1>3, <1>5, <2>1, <2>2, <2>3 DEF TypeOK
<1>9. Lockstep'
  <2>1. CASE p = Alice
    <3>1. dr'[Alice] = r.dr /\ dr'[Bob] = dr[Bob] /\ q = Bob
      BY ZenonT(60), <1>6, <2>1 DEF Peer
    <3>2. CASE e = 0
      <4>1. \/ e = 0 /\ Epoch(dr[Bob]) = 0
            \/ e = Epoch(dr[Bob]) + 1
            \/ e >= 1 /\ Epoch(dr[Bob]) = e + 1
        BY ZenonT(60), <2>1 DEF IInv, Lockstep
      <4>2. Epoch(dr[Bob]) = 0
        BY <1>3, <3>1, <3>2, <4>1
      <4>3. nextKey = 2 + 1
        BY ZenonT(60), <2>1, <3>2 DEF IInv, Lockstep
      <4>4. Epoch(dr'[Alice]) = 1 /\ Epoch(dr'[Bob]) = 0 /\ nextKey' = 2 + 1
        BY ZenonT(60), <1>4, <1>5, <2>1, <3>1, <3>2, <4>2, <4>3
      <4>. QED BY <4>4 DEF Lockstep
    <3>3. CASE e # 0
      <4>1. Epoch(dr'[Alice]) = Epoch(dr[Alice]) /\ Epoch(dr'[Bob]) = Epoch(dr[Bob])
        BY ZenonT(60), <1>4, <2>1, <3>1, <3>3
      <4>. QED BY ZenonT(60), <1>5, <4>1 DEF IInv, Lockstep
    <3>. QED BY ZenonT(60), <3>2, <3>3
  <2>2. CASE p # Alice
    <3>1. dr'[Bob] = r.dr /\ dr'[Alice] = dr[Alice] /\ p = Bob
      BY ZenonT(60), <1>6, <2>2 DEF Peer, Party
    <3>. QED BY ZenonT(60), <1>3, <1>4, <1>5, <2>2, <3>1 DEF IInv, Lockstep
  <2>. QED BY ZenonT(60), <2>1, <2>2
<1>10. \A x \in Party : InEpoch(x, dr'[x], Epoch(dr'[x]))
                        /\ BufferGenuine(dr'[x].msgKeyBuffer, dr'[x].peerDhPub, dr'[x].recvNo)
  <2>1. Sound(p, dr'[p]) /\ Sound(q, dr'[q])
    BY ZenonT(60), <1>3, <1>4, <1>6
  <2>2. \A x \in Party : Sound(x, dr'[x])
    BY ZenonT(60), <1>3, <2>1
  <2>. QED BY ZenonT(60), <2>2 DEF Sound
<1>11. NotAhead(p, q)'
  <2>1. NotAhead(p, q)
    BY ZenonT(60) DEF IInv
  <2>2. Epoch(r.dr) >= 2 => e >= 2
    BY <1>3, <1>4
  <2>. QED BY ZenonT(60), <1>4, <1>6, <2>1, <2>2 DEF NotAhead
<1>12. NotAhead(q, p)'
  <2>1. NotAhead(q, p)
    BY ZenonT(60), <1>3 DEF IInv
  <2>2. \A i, j, k \in Nat : i <= j /\ k >= j => i <= k
    OBVIOUS
  <2>. QED BY ZenonT(60), <1>4, <1>6, <1>7, <2>1, <2>2 DEF NotAhead
<1>13. \A w \in net[p] : Genuine(q, w)' /\ Accounted(p, w)'
  <2>. SUFFICES ASSUME NEW w \in net[p] PROVE Genuine(q, w)' /\ Accounted(p, w)'
    OBVIOUS
  <2>1. Genuine(q, w) /\ Accounted(p, w)
    BY ZenonT(60) DEF IInv
  <2>2. Genuine(q, w)'
    BY ZenonT(60), <1>6, <2>1 DEF Genuine
  <2>3. Accounted(p, w)'
    BY ZenonT(60), <1>2, <1>4, <1>6, <2>1 DEF Accounted
  <2>. QED BY ZenonT(60), <2>2, <2>3
<1>14. \A w \in net[q] : /\ Genuine(p, w) /\ Accounted(q, w)
                         /\ e > 0
                         /\ w.dhPub = e + 1 => w.msgNo < dr[p].sendNo
  <2>1. \A w \in net[q] : Genuine(p, w) /\ Accounted(q, w)
    BY ZenonT(60), <1>3 DEF IInv
  <2>2. \A i, j \in Nat : i >= 2 /\ i <= j + 1 => j > 0
    OBVIOUS
  <2>. QED BY ZenonT(60), <1>3, <1>7, <2>1, <2>2 DEF Genuine
<1>15. \A w \in net[q] : Genuine(p, w)' /\ Accounted(q, w)'
  <2>. SUFFICES ASSUME NEW w \in net[q] PROVE Genuine(p, w)' /\ Accounted(q, w)'
    OBVIOUS
  <2>1. Genuine(p, w)'
    <3>1. e # 0
      <4>1. \A i \in Nat : i > 0 => i # 0
        OBVIOUS
      <4>. QED BY ZenonT(60), <1>3, <1>14, <4>1
    <3>2. Epoch(dr'[p]) = e
      BY ZenonT(60), <1>4, <1>6, <3>1
    <3>3. w.msgNo < dr[p].sendNo => w.msgNo < dr'[p].sendNo
      <4>1. \A i, j, k \in Nat : i < j /\ k >= j => i < k
        OBVIOUS
      <4>. QED BY ZenonT(60), <1>4, <1>6, <1>7, <4>1
    <3>. QED BY ZenonT(60), <1>14, <3>2, <3>3 DEF Genuine
  <2>2. Accounted(q, w)'
    BY ZenonT(60), <1>2, <1>6, <1>14 DEF Accounted
  <2>. QED BY ZenonT(60), <2>1, <2>2
<1>16. ASSUME r.ok
       PROVE  /\ Genuine(p, r.msg)' /\ Accounted(q, r.msg)'
              /\ \A w \in net[q] : ~(w.dhPub = r.msg.dhPub /\ w.msgNo = r.msg.msgNo)
  <2>1. \A w \in net[q] : ~(w.dhPub = r.msg.dhPub /\ w.msgNo = r.msg.msgNo)
    <3>1. \A i, j \in Nat : (i > 0 => i # 0) /\ (i < j => i # j)
      OBVIOUS
    <3>2. \A w \in net[q] : e # 0 /\ (w.dhPub = e + 1 => w.msgNo # dr[p].sendNo)
      BY ZenonT(60), <1>3, <1>7, <1>14, <3>1
    <3>3. e # 0 => Epoch(r.dr) = e
      BY ZenonT(60), <1>4
    <3>4. r.msg.dhPub = Epoch(r.dr) + 1 /\ r.msg.msgNo = dr[p].sendNo
      BY ZenonT(60), <1>4, <1>16
    <3>. QED BY ZenonT(60), <3>2, <3>3, <3>4
  <2>2. Genuine(p, r.msg)'
    <3>1. Epoch(r.dr) \in Nat /\ Epoch(r.dr) % 2 = (IF p = Alice THEN 1 ELSE 0)
      BY ZenonT(60), <1>4, <1>16 DEF Sound, InEpoch
    <3>2. (Epoch(r.dr) + 1) % 2 = (IF p = Alice THEN 0 ELSE 1)
      BY <3>1
    <3>3. r.msg.dhPub - 1 = Epoch(r.dr)
      BY <1>4, <1>16, <3>1
    <3>4. r.msg.dhPub >= 2 /\ r.msg.dhPub <= Epoch(r.dr) + 1 /\ r.msg.msgNo < r.dr.sendNo
      <4>1. \A i \in Nat : (i > 0 => i + 1 >= 2) /\ i + 1 <= i + 1 /\ i < i + 1
        OBVIOUS
      <4>. QED BY ZenonT(60), <1>4, <1>7, <1>16, <3>1, <4>1
    <3>5. /\ r.msg.dhPub % 2 = (IF p = Alice THEN 0 ELSE 1)
          /\ r.msg.key = [root |-> Root(r.msg.dhPub - 1), n |-> r.msg.msgNo]
      BY ZenonT(60), <1>4, <1>16, <3>2, <3>3
    <3>. QED BY ZenonT(60), <1>6, <3>4, <3>5 DEF Genuine
  <2>3. r.msg \notin got[q]
    BY ZenonT(60), <1>3, <2>1 DEF IInv, TypeOK
  <2>4. ~(r.msg.dhPub = dr[q].peerDhPub /\ r.msg.msgNo < dr[q].recvNo)
    <3>. SUFFICES ASSUME r.msg.dhPub = dr[q].peerDhPub PROVE dr[q].recvNo <= dr[p].sendNo
      <4>1. \A i, j \in Nat : i <= j => ~(j < i)
        OBVIOUS
      <4>. QED BY ZenonT(60), <1>4, <1>7, <1>16, <4>1
    <3>1. r.msg.dhPub = r.dr.dhPub /\ r.msg.dhPub >= 2
      <4>1. \A i \in Nat : i > 0 => i + 1 >= 2
        OBVIOUS
      <4>2. Epoch(r.dr) \in Nat
        BY ZenonT(60), <1>4 DEF Sound, InEpoch
      <4>3. r.dr.dhPub = Epoch(r.dr) + 1
        BY ZenonT(60), <1>4, <1>16, EpochPairs
      <4>. QED BY ZenonT(60), <1>4, <1>16, <4>1, <4>2, <4>3
    <3>2. Epoch(dr[q]) >= 2
      <4>1. dr[q].peerDhPub = IF q = Alice /\ Epoch(dr[q]) = 0 THEN 1 ELSE Epoch(dr[q])
        BY ZenonT(60), <1>3, AnyEpochPairs
      <4>2. dr[q].peerDhPub # 1
        BY <3>1
      <4>3. dr[q].peerDhPub = Epoch(dr[q])
        BY ZenonT(60), <4>1, <4>2
      <4>. QED BY ZenonT(60), <3>1, <4>3
    <3>. QED BY ZenonT(60), <1>3, <1>4, <3>1, <3>2 DEF IInv, NotAhead
  <2>5. Accounted(q, r.msg)'
    BY ZenonT(60), <1>2, <1>6, <2>3, <2>4 DEF Accounted
  <2>. QED BY ZenonT(60), <2>1, <2>2, <2>5
<1>17. \A x \in Party : \A m, w \in net'[x] : m.dhPub = w.dhPub /\ m.msgNo = w.msgNo => m = w
  <2>1. \A x \in Party : \A m, w \in net[x] : m.dhPub = w.dhPub /\ m.msgNo = w.msgNo => m = w
    BY ZenonT(60) DEF IInv
  <2>2. \A m, w \in net'[p] : m.dhPub = w.dhPub /\ m.msgNo = w.msgNo => m = w
    BY ZenonT(60), <1>6, <2>1
  <2>3. \A m, w \in net'[q] : m.dhPub = w.dhPub /\ m.msgNo = w.msgNo => m = w
    BY <1>3, <1>6, <1>16, <2>1
  <2>. QED BY ZenonT(60), <1>3, <2>2, <2>3
<1>18. \A x \in Party : \A m \in net'[x] : Genuine(Peer(x), m)' /\ Accounted(x, m)'
  BY <1>3, <1>6, <1>13, <1>15, <1>16
<1>19. \A x \in Party : NotAhead(x, Peer(x))'
  BY ZenonT(60), <1>3, <1>11, <1>12
<1>. QED BY ZenonT(60), <1>8, <1>9, <1>10, <1>17, <1>18, <1>19 DEF IInv

\* A refused Decrypt that changes nothing keeps the invariant.
LEMMA StutterInv ==
  ASSUME IInv, UNCHANGED vars
  PROVE  IInv'
<1>1. dr' = dr /\ net' = net /\ got' = got /\ calls' = calls /\ nextKey' = nextKey
  BY DEF vars
<1>. QED BY ZenonT(60), <1>1 DEF IInv, TypeOK, Lockstep, NotAhead, Genuine, Accounted

\* Decrypt of a message that is not late keeps the invariant.
LEMMA ReceiveInv ==
  ASSUME IInv, NEW p \in Party, NEW m \in net[p], ~Late(p, m), Receive(p, m)
  PROVE  IInv'
<1>. DEFINE q == Peer(p)
            d == dr[p]
            e == Epoch(dr[p])
<1>1. PICK r : r = Decrypt(d, m, nextKey)
  OBVIOUS
<1>2. /\ dr' = [dr EXCEPT ![p] = r.dr]
      /\ nextKey' = IF r.dr.dhPub = nextKey THEN nextKey + 1 ELSE nextKey
      /\ got' = [got EXCEPT ![p] = IF r.ok THEN @ \cup {m} ELSE @]
      /\ net' = net /\ calls' = calls
  BY ZenonT(60), <1>1 DEF Receive, Generated
<1>3. /\ q \in Party /\ q # p /\ Peer(q) = p /\ Party = {p, q}
      /\ Sound(p, d) /\ Sound(q, dr[q]) /\ e \in Nat /\ Epoch(dr[q]) \in Nat
      /\ dr \in [Party -> Ratchets] /\ net \in [Party -> SUBSET Messages]
      /\ got \in [Party -> SUBSET Messages] /\ calls \in [Party -> Nat]
      /\ nextKey \in Nat
  BY ZenonT(60), InvSound DEF IInv, TypeOK, Party, Peer, Alice, Bob
<1>4. /\ m \in Messages /\ m.msgNo \in HeaderNos /\ m.msgNo \in Nat
      /\ Genuine(q, m) /\ m.key = [root |-> Root(m.dhPub - 1), n |-> m.msgNo]
  <2>1. m \in Messages /\ Genuine(q, m)
    BY ZenonT(60), <1>3 DEF IInv
  <2>. QED BY <2>1, HeaderAssumption DEF Messages, HeaderNos, Genuine
<1>5. CASE FollowRefused(d, m)
  <2>1. r.dr = d /\ ~r.ok
    BY ZenonT(60), <1>1, <1>5 DEF Decrypt
  <2>2. dr' = dr /\ got' = got
    BY ZenonT(60), <1>2, <1>3, <2>1
  <2>3. nextKey' = nextKey
    BY ZenonT(60), <1>2, <2>1, OfferedKeyIsNew
  <2>. QED BY ZenonT(60), <1>2, <2>2, <2>3, StutterInv DEF vars
<1>6. CASE ~FollowRefused(d, m)
  <2>1. PICK u : u = Follow(d, m, nextKey)
    OBVIOUS
  <2>2. \/ u = d /\ m.dhPub = d.peerDhPub /\ e >= 2
        \/ /\ Sound(p, u) /\ Epoch(u) = e + 2 /\ u.dhPub = e + 3
           /\ u.peerDhPub = e + 2 /\ u.sendNo = 0 /\ u.recvNo = 0
           /\ m.dhPub = e + 2 /\ nextKey = e + 3 /\ Epoch(dr[q]) = e + 1
           /\ p = Alice => e > 0
    <3>1. CASE m.dhPub = d.peerDhPub /\ e >= 2
      BY ZenonT(60), <2>1, <3>1 DEF Follow
    <3>2. CASE /\ m.dhPub = e + 2 /\ nextKey = e + 3
               /\ p = Alice => e > 0
               /\ Epoch(dr[q]) = e + 1
      <4>1. u = Follow(d, m, e + 3)
        BY ZenonT(60), <2>1, <3>2
      <4>2. /\ Sound(p, d) /\ m \in Messages /\ m.dhPub = Epoch(d) + 2
            /\ p = Alice => Epoch(d) > 0
        BY ZenonT(60), <1>3, <1>4, <3>2
      <4>3. /\ Sound(p, u) /\ Epoch(u) = Epoch(d) + 2 /\ u.dhPub = Epoch(d) + 3
            /\ u.peerDhPub = m.dhPub /\ u.sendNo = 0 /\ u.recvNo = 0
        BY <4>1, <4>2, FollowSound
      <4>. QED BY ZenonT(60), <3>2, <4>3
    <3>. QED BY ZenonT(60), <3>1, <3>2, Turn
  <2>3. Sound(p, u) /\ Epoch(u) >= 2 /\ u.peerDhPub = m.dhPub /\ u.recvNo \in Nat
        /\ u.sendNo \in Nat
    <3>1. Sound(p, u) /\ Epoch(u) >= 2 /\ u.peerDhPub = m.dhPub
      <4>1. \A i \in Nat : i + 2 >= 2
        OBVIOUS
      <4>. QED BY ZenonT(60), <1>3, <2>2, <4>1
    <3>. QED BY ZenonT(60), <3>1 DEF Sound, Ratchets
  <2>4. /\ Sound(p, r.dr)
        /\ r.dr.rootKey = u.rootKey /\ r.dr.dhPub = u.dhPub
        /\ r.dr.peerDhPub = u.peerDhPub /\ r.dr.sendNo = u.sendNo
        /\ r.dr.recvNo >= u.recvNo
        /\ r.dr.recvNo = u.recvNo \/ r.dr.recvNo = m.msgNo + 1
        /\ r.ok => m.msgNo < r.dr.recvNo
        /\ \A n \in HeaderNos : Cached(u.msgKeyBuffer, m.dhPub, n) =>
                                  Cached(r.dr.msgKeyBuffer, m.dhPub, n)
        /\ \A n \in HeaderNos : n < r.dr.recvNo =>
             \/ n = m.msgNo /\ r.ok
             \/ n < u.recvNo
             \/ Cached(r.dr.msgKeyBuffer, m.dhPub, n)
    <3>1. ReadBy(p, u, m, r)
      BY ZenonT(60), <1>1, <1>4, <1>6, <2>1, <2>3, ReadSound
    <3>. QED BY ZenonT(60), <3>1 DEF ReadBy
  <2>5. Epoch(r.dr) = Epoch(u)
    BY ZenonT(60), <2>4 DEF Epoch
  <2>6. dr'[p] = r.dr /\ dr'[q] = dr[q]
    BY ZenonT(60), <1>2, <1>3
  <2>7. /\ got'[q] = got[q]
        /\ \A w \in net[p] : w \in got'[p] <=> w \in got[p] \/ (r.ok /\ w = m)
    BY ZenonT(60), <1>2, <1>3
  <2>8. /\ \A w \in Messages : w.dhPub \in Nat /\ w.msgNo \in Nat /\ w.msgNo \in HeaderNos
        /\ r.dr \in Ratchets /\ dr[q] \in Ratchets /\ r.dr.recvNo \in Nat
        /\ dr[q].sendNo \in Nat /\ d.recvNo \in Nat /\ d.sendNo \in Nat
    <3>1. r.dr \in Ratchets /\ d \in Ratchets /\ dr[q] \in Ratchets
      BY ZenonT(60), <1>3, <2>4 DEF Sound
    <3>2. \A x \in Ratchets : x.sendNo \in Nat /\ x.recvNo \in Nat
      BY ZenonT(60) DEF Ratchets
    <3>3. \A w \in Messages : w.dhPub \in Nat /\ w.msgNo \in Nat /\ w.msgNo \in HeaderNos
      BY HeaderAssumption DEF Messages, HeaderNos
    <3>. QED BY ZenonT(60), <3>1, <3>2, <3>3
  <2>9. nextKey' = IF u = d THEN nextKey ELSE e + 4
    <3>1. CASE u = d
      BY ZenonT(60), <1>2, <2>4, <3>1, OfferedKeyIsNew
    <3>2. CASE u # d
      <4>1. \A i \in Nat : (i + 3) + 1 = i + 4
        OBVIOUS
      <4>. QED BY ZenonT(60), <1>2, <1>3, <2>2, <2>4, <3>2, <4>1
    <3>. QED BY ZenonT(60), <3>1, <3>2
  <2>10. TypeOK'
    <3>1. dr' \in [Party -> Ratchets]
      BY ZenonT(60), <1>2, <1>3, <2>8
    <3>2. got' \in [Party -> SUBSET Messages] /\ \A x \in Party : got'[x] \subseteq net[x]
      <4>1. got[p] \subseteq net[p] /\ got[q] \subseteq net[q]
        BY ZenonT(60), <1>3 DEF IInv, TypeOK
      <4>2. got'[p] \subseteq net[p] /\ got'[q] \subseteq net[q]
        BY ZenonT(60), <1>2, <1>3, <4>1
      <4>. QED BY ZenonT(60), <1>2, <1>3, <1>4, <4>2
    <3>3. nextKey' \in Nat
      BY <1>3, <2>9
    <3>. QED BY ZenonT(60), <1>2, <1>3, <3>1, <3>2, <3>3 DEF TypeOK
  <2>11. \A x \in Party : Sound(x, dr'[x])
    BY ZenonT(60), <1>3, <2>4, <2>6
  <2>12. dr[q].dhPub = IF q = Alice /\ Epoch(dr[q]) = 0 THEN 2 ELSE Epoch(dr[q]) + 1
    BY ZenonT(60), <1>3, AnyEpochPairs
  <2>13. m.dhPub = Epoch(dr[q]) + 1 => m.msgNo < dr[q].sendNo
    BY ZenonT(60), <1>4 DEF Genuine
  <2>14. Epoch(dr[q]) > 0
    BY <1>3, <1>4, <2>8 DEF Genuine
  <2>15. Lockstep'
    <3>1. CASE u = d
      <4>1. Epoch(dr'[p]) = e /\ nextKey' = nextKey
        BY ZenonT(60), <2>5, <2>6, <2>9, <3>1
      <4>2. Epoch(dr'[Alice]) = Epoch(dr[Alice]) /\ Epoch(dr'[Bob]) = Epoch(dr[Bob])
        BY ZenonT(60), <1>3, <2>6, <4>1 DEF Party, Alice, Bob
      <4>. QED BY ZenonT(60), <4>1, <4>2 DEF IInv, Lockstep
    <3>2. CASE u # d
      <4>1. /\ Epoch(dr'[p]) = e + 2 /\ nextKey' = e + 4 /\ Epoch(dr'[q]) = e + 1
            /\ p = Alice => e > 0
        BY ZenonT(60), <2>2, <2>5, <2>6, <2>9, <3>2
      <4>2. (p = Alice /\ q = Bob) \/ (p = Bob /\ q = Alice)
        BY ZenonT(60) DEF Party, Peer, Alice, Bob
      <4>. QED BY <1>3, <4>1, <4>2 DEF Lockstep, Alice, Bob
    <3>. QED BY ZenonT(60), <3>1, <3>2
  <2>16. NotAhead(p, q)'
    <3>1. CASE r.dr.recvNo = m.msgNo + 1
      <4>1. \A i, j \in Nat : (i > 0 => i # 0) /\ (i < j => i + 1 <= j)
        OBVIOUS
      <4>2. dr[q].dhPub = Epoch(dr[q]) + 1
        BY ZenonT(60), <1>3, <2>12, <2>14, <4>1
      <4>3. m.dhPub = dr[q].dhPub => r.dr.recvNo <= dr[q].sendNo
        BY ZenonT(60), <1>4, <2>8, <2>13, <3>1, <4>1, <4>2
      <4>. QED BY ZenonT(60), <2>3, <2>4, <2>6, <4>3 DEF NotAhead
    <3>2. CASE r.dr.recvNo = u.recvNo /\ u = d
      BY ZenonT(60), <1>3, <2>4, <2>5, <2>6, <3>2 DEF NotAhead, IInv
    <3>3. CASE r.dr.recvNo = u.recvNo /\ u # d
      <4>1. \A i \in Nat : 0 <= i
        OBVIOUS
      <4>. QED BY ZenonT(60), <2>2, <2>6, <2>8, <3>3, <4>1 DEF NotAhead
    <3>. QED BY ZenonT(60), <2>4, <3>1, <3>2, <3>3
  <2>17. NotAhead(q, p)'
    <3>1. dr[q].peerDhPub <= Epoch(dr[q]) + 1
      BY <1>3, AnyEpochPairs
    <3>2. CASE u = d
      <4>1. NotAhead(q, p)
        BY ZenonT(60), <1>3 DEF IInv
      <4>. QED BY ZenonT(60), <2>4, <2>6, <3>2, <4>1 DEF NotAhead
    <3>3. CASE u # d
      <4>1. r.dr.dhPub = e + 3 /\ dr[q].peerDhPub <= e + 2 /\ dr[q].peerDhPub \in Nat
        <5>1. dr[q].peerDhPub \in Nat
          BY ZenonT(60), <2>8 DEF Ratchets
        <5>2. \A i \in Nat : (i + 1) + 1 = i + 2
          OBVIOUS
        <5>. QED BY ZenonT(60), <1>3, <2>2, <2>4, <3>1, <3>3, <5>1, <5>2
      <4>2. \A i, j \in Nat : i <= j + 2 => i # j + 3
        OBVIOUS
      <4>. QED BY ZenonT(60), <1>3, <2>6, <4>1, <4>2 DEF NotAhead
    <3>. QED BY ZenonT(60), <3>2, <3>3
  <2>18. \A w \in net[q] : Genuine(p, w)' /\ Accounted(q, w)'
    <3>. SUFFICES ASSUME NEW w \in net[q] PROVE Genuine(p, w)' /\ Accounted(q, w)'
      OBVIOUS
    <3>1. Genuine(p, w) /\ Accounted(q, w) /\ w \in Messages
      BY ZenonT(60), <1>3 DEF IInv
    <3>2. Accounted(q, w)'
      BY ZenonT(60), <2>6, <2>7, <3>1 DEF Accounted
    <3>3. CASE u = d
      BY ZenonT(60), <2>4, <2>5, <2>6, <3>1, <3>2, <3>3 DEF Genuine
    <3>4. CASE u # d
      <4>1. Epoch(dr'[p]) = e + 2 /\ w.dhPub \in Nat
        BY ZenonT(60), <2>2, <2>5, <2>6, <2>8, <3>1, <3>4
      <4>2. Genuine(p, w)'
        BY <1>3, <3>1, <4>1 DEF Genuine
      <4>. QED BY ZenonT(60), <3>2, <4>2
    <3>. QED BY ZenonT(60), <3>3, <3>4
  <2>19. \A w \in net[p] : Genuine(q, w)' /\ Accounted(p, w)'
    <3>. SUFFICES ASSUME NEW w \in net[p] PROVE Genuine(q, w)' /\ Accounted(p, w)'
      OBVIOUS
    <3>1. Genuine(q, w) /\ Accounted(p, w) /\ w \in Messages
      BY ZenonT(60), <1>3 DEF IInv
    <3>2. Genuine(q, w)'
      BY ZenonT(60), <2>6, <3>1 DEF Genuine
    <3>3. w.dhPub = m.dhPub /\ w.msgNo = m.msgNo => w = m
      BY ZenonT(60) DEF IInv
    <3>4. w.dhPub \in Nat /\ w.msgNo \in HeaderNos /\ w.msgNo \in Nat /\ m.dhPub \in Nat
      BY ZenonT(60), <1>4, <2>8, <3>1
    <3>5. /\ w \in got[p] => w.dhPub <= m.dhPub
          /\ w \in got[p] /\ w.dhPub = m.dhPub => w.msgNo < r.dr.recvNo
          /\ w.dhPub = m.dhPub /\ w.msgNo < u.recvNo =>
               w \in got[p] \/ Cached(r.dr.msgKeyBuffer, m.dhPub, w.msgNo)
      <4>1. CASE u = d
        <5>1. /\ w \in got[p] => w.dhPub <= m.dhPub
              /\ w \in got[p] /\ w.dhPub = m.dhPub => w.msgNo < u.recvNo
              /\ w.dhPub = m.dhPub /\ w.msgNo < u.recvNo =>
                   w \in got[p] \/ Cached(u.msgKeyBuffer, m.dhPub, w.msgNo)
          BY ZenonT(60), <2>3, <3>1, <4>1 DEF Accounted
        <5>2. \A i, j, k \in Nat : i < j /\ k >= j => i < k
          OBVIOUS
        <5>. QED BY ZenonT(60), <2>3, <2>4, <2>8, <3>4, <5>1, <5>2
      <4>2. CASE u # d
        <5>a. d.peerDhPub = IF p = Alice /\ e = 0 THEN 1 ELSE e
          BY ZenonT(60), <1>3, AnyEpochPairs
        <5>1. w \in got[p] => w.dhPub <= e + 1
          <6>1. w \in got[p] => w.dhPub <= d.peerDhPub
            BY ZenonT(60), <3>1 DEF Accounted
          <6>. QED BY <1>3, <3>4, <5>a, <6>1
        <5>2. \A i, j \in Nat : i <= j + 1 => i <= j + 2 /\ i # j + 2
          OBVIOUS
        <5>3. \A i \in Nat : ~(i < 0)
          OBVIOUS
        <5>. QED BY ZenonT(60), <1>3, <2>2, <3>4, <4>2, <5>1, <5>2, <5>3
      <4>. QED BY ZenonT(60), <4>1, <4>2
    <3>6. Accounted(p, w)'
      BY <2>3, <2>4, <2>6, <2>7, <3>3, <3>4, <3>5 DEF Accounted
    <3>. QED BY ZenonT(60), <3>2, <3>6
  <2>20. \A x \in Party : \A w \in net'[x] : Genuine(Peer(x), w)' /\ Accounted(x, w)'
    BY ZenonT(60), <1>2, <1>3, <2>18, <2>19
  <2>21. \A x \in Party : NotAhead(x, Peer(x))'
    BY ZenonT(60), <1>3, <2>16, <2>17
  <2>22. \A x \in Party : \A v, w \in net'[x] : v.dhPub = w.dhPub /\ v.msgNo = w.msgNo => v = w
    BY ZenonT(60), <1>2 DEF IInv
  <2>23. \A x \in Party :
           /\ InEpoch(x, dr'[x], Epoch(dr'[x]))
           /\ BufferGenuine(dr'[x].msgKeyBuffer, dr'[x].peerDhPub, dr'[x].recvNo)
    BY ZenonT(60), <2>11 DEF Sound
  <2>. QED BY ZenonT(60), <2>10, <2>15, <2>20, <2>21, <2>22, <2>23 DEF IInv
<1>. QED BY ZenonT(60), <1>5, <1>6

\* CreateActive and CreatePassive establish the invariant.
LEMMA InitInv == Init => IInv
<1>. SUFFICES ASSUME Init PROVE IInv
  OBVIOUS
<1>. PICK a, b : /\ a = CreateActive(SessKey, AD, AliceKey, BobKey)
                 /\ b = CreatePassive(SessKey, AD, BobKey)
  OBVIOUS
<1>1. Sound(Alice, a) /\ Epoch(a) = 0 /\ Sound(Bob, b) /\ Epoch(b) = 0
  BY ZenonT(60), CreatedSound
<1>2. dr[Alice] = a /\ dr[Bob] = b /\ dr \in [Party -> Ratchets] /\ Alice # Bob
  BY ZenonT(60), <1>1 DEF Init, Sound, Party, Alice, Bob
<1>3. \A p \in Party : net[p] = {} /\ got[p] = {}
  BY ZenonT(60) DEF Init
<1>4. TypeOK
  BY ZenonT(60), <1>2, <1>3 DEF TypeOK, Init
<1>5. Lockstep
  BY <1>1, <1>2 DEF Lockstep, Init
<1>6. \A p \in Party : /\ InEpoch(p, dr[p], Epoch(dr[p]))
                       /\ BufferGenuine(dr[p].msgKeyBuffer, dr[p].peerDhPub, dr[p].recvNo)
                       /\ NotAhead(p, Peer(p))
  <2>1. \A p \in Party : Sound(p, dr[p]) /\ Epoch(dr[p]) = 0
    BY ZenonT(60), <1>1, <1>2 DEF Party
  <2>. QED BY <2>1 DEF NotAhead, Sound
<1>. QED BY ZenonT(60), <1>3, <1>4, <1>5, <1>6 DEF IInv

\* Encrypt and Decrypt keep it.
LEMMA NextInv == IInv /\ [Next]_vars => IInv'
BY ZenonT(60), SendInv, ReceiveInv, StutterInv DEF Next

\* The two ratchets move through the epochs in lockstep, and the buffers hold
\* genuine keys only, in every reachable state.
THEOREM Inductive == Spec => []IInv
BY InitInv, NextInv, PTL DEF Spec

-----------------------------------------------------------------------------
(* What follows from it *)

\* Every reachable state of the two ratchets is well typed.
THEOREM TypeCorrect == Spec => []TypeOK
<1>1. IInv => TypeOK
  BY ZenonT(60) DEF IInv
<1>. QED BY <1>1, Inductive, PTL

\* The message key of a ciphertext tells its chain and its number.
LEMMA GenuineKey ==
  ASSUME NEW q, NEW m, Genuine(q, m)
  PROVE  m.key.root = Root(m.dhPub - 1) /\ m.key.n = m.msgNo
BY DEF Genuine

\* No two ciphertexts that Encrypt ever returns are sealed with one key.
THEOREM NoKeyReuse == Spec => []KeysNeverReused
<1>1. IInv => KeysNeverReused
  <2>. SUFFICES ASSUME IInv, NEW p \in Party, NEW q \in Party,
                       NEW m \in net[p], NEW w \in net[q], m.key = w.key
                PROVE  p = q /\ m = w
    BY ZenonT(60) DEF KeysNeverReused
  <2>1. Genuine(Peer(p), m) /\ Genuine(Peer(q), w)
    BY ZenonT(60) DEF IInv
  <2>2. m.dhPub \in Nat /\ w.dhPub \in Nat
    BY DEF IInv, TypeOK, Messages
  <2>3. Root(m.dhPub - 1) = Root(w.dhPub - 1) /\ m.msgNo = w.msgNo
    <3>1. m.key.root = Root(m.dhPub - 1) /\ m.key.n = m.msgNo
      BY ZenonT(60), <2>1, GenuineKey
    <3>2. w.key.root = Root(w.dhPub - 1) /\ w.key.n = w.msgNo
      BY ZenonT(60), <2>1, GenuineKey
    <3>. QED BY ZenonT(60), <3>1, <3>2
  <2>4. m.dhPub = w.dhPub
    <3>1. m.dhPub - 1 \in Nat /\ w.dhPub - 1 \in Nat
      BY <2>1, <2>2 DEF Genuine
    <3>2. m.dhPub - 1 = w.dhPub - 1
      BY ZenonT(60), <2>3, <3>1, RootInjective
    <3>. QED BY <2>2, <3>2
  <2>5. p = q
    BY <2>1, <2>4 DEF Genuine, Peer, Party, Alice, Bob
  <2>. QED BY ZenonT(60), <2>3, <2>4, <2>5 DEF IInv
<1>. QED BY <1>1, Inductive, PTL

\* A party that follows the other's sending chain derives its keys from the
\* same root and has not run ahead of it.
THEOREM Agreement == Spec => []ChainsAgree
<1>1. IInv => ChainsAgree
  <2>. SUFFICES ASSUME IInv, NEW p \in Party,
                       dr[p].peerDhPub = dr[Peer(p)].dhPub, dr[p].chainKeyRecv # NoChain
                PROVE  /\ dr[p].chainKeyRecv.root = dr[Peer(p)].chainKeySend.root
                       /\ dr[p].chainKeyRecv.n <= dr[Peer(p)].chainKeySend.n
    BY ZenonT(60) DEF ChainsAgree
  <2>. PICK q, d, x : q = Peer(p) /\ d = dr[p] /\ x = dr[q]
    OBVIOUS
  <2>. PICK e, o : e = Epoch(d) /\ o = Epoch(x)
    OBVIOUS
  <2>1. q \in Party /\ q # p /\ e \in Nat /\ o \in Nat
    BY ZenonT(60), InvSound
  <2>2. Sound(p, d) /\ Sound(q, x)
    BY ZenonT(60), InvSound
  <2>3. e >= 2
    BY <2>1, <2>2, RecvChain
  <2>4. d.peerDhPub = e
    BY <2>1, <2>2, <2>3, EpochPairs
  <2>5. d.chainKeyRecv = [root |-> Root(e - 1), n |-> d.recvNo]
    BY ZenonT(60), <2>2, <2>3, EpochChains
  <2>6. x.dhPub = e
    BY ZenonT(60), <2>4
  <2>7. o > 0
    <3>1. (q = Alice /\ p = Bob) \/ (q = Bob /\ p = Alice)
      BY ZenonT(60), <2>1 DEF Party, Alice, Bob
    <3>2. CASE q = Alice
      <4>1. e = Epoch(dr[Bob]) /\ o = Epoch(dr[Alice])
        BY ZenonT(60), <3>1, <3>2 DEF Alice, Bob
      <4>. QED BY <2>1, <2>3, <4>1 DEF IInv, Lockstep
    <3>3. CASE q = Bob
      <4>1. x.dhPub = o + 1
        BY ZenonT(60), <2>1, <2>2, <3>3, EpochPairs
      <4>. QED BY <2>1, <2>3, <2>6, <4>1
    <3>. QED BY ZenonT(60), <3>1, <3>2, <3>3
  <2>8. x.dhPub = o + 1
    BY ZenonT(60), <2>1, <2>2, <2>7, EpochPairs
  <2>9. x.chainKeySend = [root |-> Root(o), n |-> x.sendNo]
    BY ZenonT(60), <2>1, <2>2, <2>7, EpochChains
  <2>10. e - 1 = o
    BY <2>1, <2>6, <2>8
  <2>11. NotAhead(p, q)
    BY ZenonT(60) DEF IInv
  <2>12. d.recvNo <= x.sendNo
    BY ZenonT(60), <2>3, <2>4, <2>6, <2>11 DEF NotAhead
  <2>13. d.chainKeyRecv.root = x.chainKeySend.root /\ d.chainKeyRecv.n <= x.chainKeySend.n
    BY <2>5, <2>9, <2>10, <2>12
  <2>. QED BY ZenonT(60), <2>13
<1>. QED BY <1>1, Inductive, PTL

\* Where Decrypt stands once it has followed the header of a message that is
\* not late: on the chain of that message, as far as it was, or at its start.
LEMMA Followed ==
  ASSUME IInv, NEW p \in Party, NEW m \in net[p], ~Late(p, m),
         NEW d, d = dr[p], NEW u, u = Follow(d, m, nextKey)
  PROVE  /\ Sound(p, u) /\ Epoch(u) >= 2 /\ u.peerDhPub = m.dhPub
         /\ (m.dhPub = d.peerDhPub /\ u = d) \/ (m.dhPub # d.peerDhPub /\ u.recvNo = 0)
<1>1. Sound(p, d) /\ Epoch(d) \in Nat
  BY ZenonT(60), InvSound
<1>2. m \in Messages
  BY ZenonT(60) DEF IInv, TypeOK
<1>3. CASE m.dhPub = d.peerDhPub /\ Epoch(d) >= 2
  BY ZenonT(60), <1>1, <1>3 DEF Follow
<1>4. CASE m.dhPub = Epoch(d) + 2 /\ nextKey = Epoch(d) + 3 /\ (p = Alice => Epoch(d) > 0)
  <2>1. d.peerDhPub = Epoch(d)
    BY ZenonT(60), <1>1, <1>4, EpochPairs DEF Party, Alice, Bob
  <2>2. m.dhPub # d.peerDhPub
    BY <1>1, <1>4, <2>1
  <2>3. /\ Sound(p, u) /\ Epoch(u) = Epoch(d) + 2
        /\ u.peerDhPub = m.dhPub /\ u.recvNo = 0
    BY <1>1, <1>2, <1>4, FollowSound
  <2>. QED BY <1>1, <2>2, <2>3
<1>. QED BY ZenonT(60), <1>3, <1>4, Turn

\* Whatever was lost, repeated or reordered before, a message within the
\* window of skipMsgKeys that was not read yet can be.
THEOREM Decryptable == Spec => []FreshDecryptable
<1>1. IInv => FreshDecryptable
  <2>. SUFFICES ASSUME IInv, NEW p \in Party, NEW m \in net[p], m \notin got[p],
                       ~Late(p, m), InWindow(dr[p], m)
                PROVE  Decrypt(dr[p], m, nextKey).ok
    BY ZenonT(60) DEF FreshDecryptable
  <2>. PICK d, u, r : d = dr[p] /\ u = Follow(d, m, nextKey) /\ r = Decrypt(d, m, nextKey)
    BY ZenonT(60)
  <2>1. /\ Sound(p, u) /\ Epoch(u) >= 2 /\ u.peerDhPub = m.dhPub
        /\ (m.dhPub = d.peerDhPub /\ u = d) \/ (m.dhPub # d.peerDhPub /\ u.recvNo = 0)
    BY Followed
  <2>2. m \in Messages /\ Genuine(Peer(p), m) /\ Accounted(p, m)
    BY ZenonT(60) DEF IInv, TypeOK
  <2>3. m.key = [root |-> Root(m.dhPub - 1), n |-> m.msgNo]
    BY ZenonT(60), <2>2 DEF Genuine
  <2>4. /\ m.msgNo \in Nat /\ m.prevNo \in Nat /\ d.recvNo \in Nat
        /\ MaxSkipElements \in Nat
    <3>1. d \in Ratchets
      BY ZenonT(60) DEF IInv, TypeOK
    <3>. QED BY <2>2, <3>1, HeaderAssumption, SkipElementsAssumption
             DEF Messages, HeaderNos, Ratchets
  <2>5. ~FollowRefused(d, m) /\ ~SkipRefused(u, m.msgNo)
    BY <2>1, <2>4 DEF InWindow, FollowRefused, SkipRefused
  <2>6. m.msgNo < u.recvNo => Cached(u.msgKeyBuffer, m.dhPub, m.msgNo)
    BY <2>1, <2>2, <2>4 DEF Accounted
  <2>7. r.ok
    BY ZenonT(60), <2>1, <2>2, <2>3, <2>5, <2>6, ReadSound DEF ReadBy
  <2>. QED BY ZenonT(60), <2>7
<1>. QED BY <1>1, Inductive, PTL

\* A late message does not open.
LEMMA LateUnreadable ==
  ASSUME IInv, NEW p \in Party, NEW m \in net[p], Late(p, m)
  PROVE  ~Decrypt(dr[p], m, nextKey).ok
<1>1. Sound(p, dr[p]) /\ nextKey \in Nat
  BY ZenonT(60), InvSound DEF IInv, TypeOK
<1>2. m \in Messages /\ Genuine(Peer(p), m)
  BY ZenonT(60) DEF IInv, TypeOK
<1>3. /\ m.dhPub >= 2 /\ m.dhPub < dr[p].peerDhPub
      /\ m.key = [root |-> Root(m.dhPub - 1), n |-> m.msgNo]
  BY ZenonT(60), <1>2 DEF Genuine, Late
<1>. QED BY ZenonT(60), <1>1, <1>2, <1>3, LateRefused

\* A ciphertext is accepted a second time only while its chain is followed and
\* only if its key had been cached: find leaves it in the buffer.
THEOREM Replay == Spec => []ReplayRejected
<1>1. IInv => ReplayRejected
  <2>. SUFFICES ASSUME IInv, NEW p \in Party, NEW m \in got[p],
                       Decrypt(dr[p], m, nextKey).ok
                PROVE  /\ m.dhPub = dr[p].peerDhPub
                       /\ Cached(dr[p].msgKeyBuffer, m.dhPub, m.msgNo)
    BY ZenonT(60) DEF ReplayRejected
  <2>1. m \in net[p] /\ m \in Messages
    BY ZenonT(60) DEF IInv, TypeOK
  <2>2. ~Late(p, m)
    BY ZenonT(60), <2>1, LateUnreadable
  <2>. PICK d, u, r : d = dr[p] /\ u = Follow(d, m, nextKey) /\ r = Decrypt(d, m, nextKey)
    BY ZenonT(60)
  <2>3. Accounted(p, m) /\ Genuine(Peer(p), m)
    BY ZenonT(60), <2>1 DEF IInv
  <2>4. m.key = [root |-> Root(m.dhPub - 1), n |-> m.msgNo]
    BY ZenonT(60), <2>3 DEF Genuine
  <2>5. m.dhPub = d.peerDhPub
    <3>1. m.dhPub \in Nat /\ d.peerDhPub \in Nat
      BY ZenonT(60), <2>1 DEF IInv, TypeOK, Messages, Ratchets
    <3>2. m.dhPub <= d.peerDhPub /\ ~(m.dhPub < d.peerDhPub)
      BY ZenonT(60), <2>2, <2>3 DEF Accounted, Late
    <3>. QED BY <3>1, <3>2
  <2>6. Sound(p, u) /\ Epoch(u) >= 2 /\ u.peerDhPub = m.dhPub /\ u = d
    BY <2>1, <2>2, <2>5, Followed
  <2>7. ~FollowRefused(d, m) /\ m.msgNo < u.recvNo
    BY ZenonT(60), <2>3, <2>5, <2>6 DEF FollowRefused, Accounted
  <2>8. r.ok
    BY ZenonT(60)
  <2>9. r.ok /\ m.msgNo < u.recvNo => Cached(u.msgKeyBuffer, m.dhPub, m.msgNo)
    <3>1. Sound(p, u) /\ Epoch(u) >= 2 /\ u.peerDhPub = m.dhPub
      BY ZenonT(60), <2>6
    <3>. QED BY ZenonT(60), <2>1, <2>4, <2>7, <3>1, ReadSound DEF ReadBy
  <2>. QED BY ZenonT(60), <2>5, <2>6, <2>7, <2>8, <2>9
<1>. QED BY <1>1, Inductive, PTL

\* The key buffer has one element per chain, and none of them is empty.
THEOREM BufferShape == Spec => []BufferWellFormed
<1>1. IInv => BufferWellFormed
  BY ZenonT(60) DEF IInv, BufferGenuine, BufferWellFormed
<1>. QED BY <1>1, Inductive, PTL
=============================================================================
