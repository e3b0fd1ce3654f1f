----------------------- MODULE RestoredRatchetProofs -----------------------
(***************************************************************************)
(* Lemmas about a ratchet that is saved, restored from what MarshalBinary  *)
(* keeps and given messages in the order of their sealing: which of them   *)
(* it opens, and what it cannot open any more.                             *)
(***************************************************************************)
EXTENDS RatchetProofs

USE SMTT(30), ZenonT(60)

\* v comes after m in the chains of one sender, or has its number.
Precedes(m, v) == m.dhPub < v.dhPub \/ (m.dhPub = v.dhPub /\ m.msgNo <= v.msgNo)

\* m does not open with d: its chain was left, its key was used or lost, or its
\* number is beyond the window.
Unreadable(d, m) ==
  \/ m.dhPub < d.peerDhPub
  \/ m.dhPub = d.peerDhPub /\ m.msgNo < d.recvNo /\ ~Cached(d.msgKeyBuffer, m.dhPub, m.msgNo)
  \/ m.dhPub = d.peerDhPub /\ SkipRefused(d, m.msgNo)
  \/ m.dhPub > d.peerDhPub /\ MaxSkipElements < m.msgNo

\* The skipped keys of the chain being followed lie before its last message.
Skipped(d) ==
  \A n \in HeaderNos : Cached(d.msgKeyBuffer, d.peerDhPub, n) => n + 1 < d.recvNo

\* A key that is cached in a genuine buffer is that of an element of its chain.
LEMMA CachedSlot ==
  ASSUME NEW kb, NEW peer, NEW r, BufferGenuine(kb, peer, r), NEW k, NEW n
  PROVE  Cached(kb, k, n) <=>
           \E i \in Slots : kb[i] # NoElement /\ kb[i].dhPub = k /\ kb[i].msgKeys[n] # NoChain
<1>1. ASSUME NEW i \in ElementsOf(kb, k)
      PROVE  elementFind(kb, k) = i /\ ElementsOf(kb, k) = {i}
  BY FindUnique
<1>. QED BY ZenonT(60), <1>1 DEF Cached, ElementsOf

\* The numbers of the chain being followed that are cached have been passed.
LEMMA CachedBelow ==
  ASSUME NEW p \in Party, NEW d, Sound(p, d), NEW n \in HeaderNos,
         Cached(d.msgKeyBuffer, d.peerDhPub, n)
  PROVE  n < d.recvNo
<1>1. BufferGenuine(d.msgKeyBuffer, d.peerDhPub, d.recvNo)
  BY DEF Sound
<1>2. PICK i \in Slots : d.msgKeyBuffer[i].dhPub = d.peerDhPub /\ d.msgKeyBuffer[i].msgKeys[n] # NoChain
  BY <1>1, CachedSlot
<1>. QED BY ZenonT(60), <1>1, <1>2 DEF BufferGenuine

\* The oldest element of a ring that has any is the one in the last slot taken.
LEMMA Oldest ==
  ASSUME NEW kb, Filled(kb), NEW live, live = {i \in Slots : kb[i] # NoElement}, live # {}
  PROVE  (CHOOSE i \in live : \A j \in live : j <= i) \in live
<1>1. PICK n \in 0 .. MaxSkipChains : \A i \in Slots : kb[i] # NoElement <=> i <= n
  BY DEF Filled
<1>2. n \in live
  BY <1>1, SkipChainsAssumption DEF Slots
<1>3. \A j \in live : j <= n
  BY <1>1
<1>. QED BY ZenonT(60), <1>2, <1>3

\* UnmarshalBinary gives back a ratchet of the same epoch, with no key in its
\* buffer that was not there before.
LEMMA RestoredSound ==
  ASSUME NEW p \in Party, NEW d, Sound(p, d), NEW r, r = Restored(d)
  PROVE  /\ Sound(p, r) /\ Epoch(r) = Epoch(d)
         /\ r.rootKey = d.rootKey /\ r.dhPub = d.dhPub /\ r.peerDhPub = d.peerDhPub
         /\ r.sendNo = d.sendNo /\ r.recvNo = d.recvNo /\ r.prevSendNo = 0
         /\ \A k, n : Cached(r.msgKeyBuffer, k, n) => Cached(d.msgKeyBuffer, k, n)
<1>. DEFINE kb == d.msgKeyBuffer
            new == RestoredBuffer(kb)
            live == {i \in Slots : kb[i] # NoElement}
<1>1. /\ d \in Ratchets /\ kb \in [Slots -> Elements]
      /\ BufferGenuine(kb, d.peerDhPub, d.recvNo) /\ InEpoch(p, d, Epoch(d))
  BY ZenonT(60) DEF Sound, Ratchets
<1>2. NoElement \in Elements /\ NoElement.msgKeys = NoMsgKeys /\ NoMsgKeys = [n \in HeaderNos |-> NoChain]
  BY DEF NoElement, Elements, NoMsgKeys, NoKey, ChainKeys, NoChain
<1>3. /\ new \in [Slots -> Elements]
      /\ \A i \in Slots : i # 1 => new[i] = NoElement
      /\ \A i \in Slots : new[i] # NoElement => \E j \in Slots : new[i] = kb[j]
  <2>1. CASE live = {}
    <3>1. new = [i \in Slots |-> NoElement]
      BY ZenonT(60), <2>1 DEF RestoredBuffer
    <3>. QED BY <1>2, <3>1
  <2>2. CASE live # {}
    <3>1. PICK o : o = CHOOSE i \in live : \A j \in live : j <= i
      OBVIOUS
    <3>2. new = [i \in Slots |-> IF i = 1 THEN kb[o] ELSE NoElement]
      BY <2>2, <3>1 DEF RestoredBuffer
    <3>3. o \in Slots
      <4>1. Filled(kb)
        BY ZenonT(60), <1>1 DEF BufferGenuine
      <4>2. o \in live
        BY ZenonT(60), <2>2, <3>1, <4>1, Oldest
      <4>. QED BY <4>2
    <3>. QED BY ZenonT(60), <1>1, <1>2, <3>2, <3>3
  <2>. QED BY ZenonT(60), <2>1, <2>2
<1>4. r = [d EXCEPT !.prevSendNo = 0, !.msgKeyBuffer = new]
  BY DEF Restored
<1>. HIDE DEF new, kb, live
<1>5. r \in Ratchets
  <2>1. 0 \in Nat
    OBVIOUS
  <2>. QED BY ZenonT(60), <1>1, <1>3, <1>4, <2>1 DEF Ratchets
<1>6. /\ r.rootKey = d.rootKey /\ r.dhPub = d.dhPub /\ r.dhrPeerDhPub = d.dhrPeerDhPub
      /\ r.peerDhPub = d.peerDhPub /\ r.isActive = d.isActive
      /\ r.isInitialized = d.isInitialized /\ r.prevSendNo = 0
      /\ r.sendNo = d.sendNo /\ r.recvNo = d.recvNo /\ r.msgKeyBuffer = new
      /\ r.chainKeySend = d.chainKeySend /\ r.chainKeyRecv = d.chainKeyRecv
  BY <1>1, <1>4 DEF Ratchets
<1>7. Epoch(r) = Epoch(d)
  BY <1>6 DEF Epoch
<1>8. InEpoch(p, r, Epoch(r))
  BY ZenonT(60), <1>1, <1>6, <1>7 DEF InEpoch
<1>9. BufferGenuine(new, d.peerDhPub, d.recvNo)
  <2>1. \A i \in Slots : new[i] # NoElement =>
          /\ new[i].dhPub >= 2 /\ new[i].dhPub <= d.peerDhPub
          /\ new[i].msgKeys # NoMsgKeys
          /\ i = 1
          /\ \A n \in HeaderNos : new[i].msgKeys[n] # NoChain =>
               /\ new[i].msgKeys[n] = [root |-> Root(new[i].dhPub - 1), n |-> n]
               /\ new[i].dhPub = d.peerDhPub => n < d.recvNo
    BY <1>1, <1>3 DEF BufferGenuine
  <2>2. \A n \in HeaderNos : NoElement.msgKeys[n] = NoChain
    BY <1>2
  <2>3. \A i \in Slots : new[i] = NoElement => new[i].dhPub = 0
    BY DEF NoElement, NoKey
  <2>4. Filled(new)
    <3>1. 1 \in Slots /\ 1 \in 0 .. MaxSkipChains /\ 0 \in 0 .. MaxSkipChains
          /\ \A i \in Slots : ~(i <= 0) /\ (i <= 1 <=> i = 1)
      BY SkipChainsAssumption DEF Slots
    <3>2. CASE new[1] = NoElement
      BY <1>3, <3>1, <3>2 DEF Filled
    <3>3. CASE new[1] # NoElement
      BY <1>3, <3>1, <3>3 DEF Filled
    <3>. QED BY <3>2, <3>3
  <2>. QED BY <2>1, <2>2, <2>3, <2>4 DEF BufferGenuine
<1>10. \A k, n : Cached(new, k, n) => Cached(kb, k, n)
  BY <1>1, <1>3, <1>9, CachedSlot
<1>. QED BY <1>5, <1>6, <1>7, <1>8, <1>9, <1>10 DEF Sound, kb

\* A restored ratchet has forgotten the length of its previous sending chain.
LEMMA SealedPrev ==
  ASSUME NEW p \in Party, NEW d, Sound(p, d), Epoch(d) > 0, d.prevSendNo = 0,
         NEW body, NEW fresh, NEW r, r = Encrypt(d, body, fresh), r.ok
  PROVE  r.msg.prevNo = 0
<1>1. d.chainKeySend # NoChain
  BY RecvChain
<1>2. r.msg = Sealed(d, body)
  BY <1>1 DEF Encrypt
<1>. QED BY <1>2, HeaderAssumption DEF Sealed, Uint16

\* m is a message of the peer that d may be given: of a chain d has left, of the
\* one it follows, or of the next.
Meets(p, d, m, fresh) ==
  /\ m \in Messages /\ m.dhPub >= 2 /\ m.prevNo = 0
  /\ m.key = [root |-> Root(m.dhPub - 1), n |-> m.msgNo]
  /\ m.dhPub = d.peerDhPub => Epoch(d) >= 2
  /\ m.dhPub > d.peerDhPub =>
       /\ m.dhPub = Epoch(d) + 2 /\ fresh = Epoch(d) + 3
       /\ p = Alice => Epoch(d) > 0

\* Where Decrypt stands once it has followed the header of such a message.
LEMMA MeetsFollow ==
  ASSUME NEW p \in Party, NEW d, Sound(p, d), NEW m, NEW fresh, Meets(p, d, m, fresh),
         ~(m.dhPub < d.peerDhPub), NEW u, u = Follow(d, m, fresh)
  PROVE  /\ ~FollowRefused(d, m)
         /\ Sound(p, u) /\ Epoch(u) >= 2 /\ u.peerDhPub = m.dhPub
         /\ \/ m.dhPub = d.peerDhPub /\ u = d
            \/ /\ m.dhPub > d.peerDhPub /\ u.recvNo = 0 /\ u.sendNo = 0
               /\ Epoch(u) = Epoch(d) + 2 /\ u.dhPub = fresh
<1>1. /\ Epoch(d) \in Nat /\ d.recvNo \in Nat /\ d.peerDhPub \in Nat
      /\ m.dhPub \in Nat /\ m.prevNo = 0
  BY ZenonT(60), RecvChain DEF Sound, Ratchets, Meets, Messages
<1>2. ~FollowRefused(d, m)
  BY <1>1, SkipElementsAssumption DEF FollowRefused, SkipRefused
<1>3. CASE m.dhPub = d.peerDhPub
  BY <1>2, <1>3 DEF Follow, Meets
<1>4. CASE m.dhPub > d.peerDhPub
  <2>1. /\ m \in Messages /\ m.dhPub = Epoch(d) + 2 /\ fresh = Epoch(d) + 3
        /\ p = Alice => Epoch(d) > 0
    BY <1>4 DEF Meets
  <2>. QED BY <1>1, <1>2, <1>4, <2>1, FollowSound
<1>. QED BY <1>1, <1>3, <1>4

\* Such a message opens exactly if it is not Unreadable.
LEMMA Outcome ==
  ASSUME NEW p \in Party, NEW d, Sound(p, d), NEW m, NEW fresh \in Nat, Meets(p, d, m, fresh),
         NEW r, r = Decrypt(d, m, fresh)
  PROVE  r.ok <=> ~Unreadable(d, m)
<1>1. /\ m \in Messages /\ m.dhPub \in Nat /\ m.msgNo \in Nat /\ m.dhPub >= 2
      /\ m.key = [root |-> Root(m.dhPub - 1), n |-> m.msgNo]
      /\ d.peerDhPub \in Nat /\ d.recvNo \in Nat /\ MaxSkipElements \in Nat
  BY HeaderAssumption, SkipElementsAssumption DEF Meets, Messages, HeaderNos, Sound, Ratchets
<1>2. CASE m.dhPub < d.peerDhPub
  BY <1>1, <1>2, LateRefused DEF Unreadable
<1>3. CASE ~(m.dhPub < d.peerDhPub)
  <2>1. PICK u : u = Follow(d, m, fresh)
    OBVIOUS
  <2>2. /\ ~FollowRefused(d, m)
        /\ Sound(p, u) /\ Epoch(u) >= 2 /\ u.peerDhPub = m.dhPub
        /\ \/ m.dhPub = d.peerDhPub /\ u = d
           \/ m.dhPub > d.peerDhPub /\ u.recvNo = 0
    BY <1>3, <2>1, MeetsFollow
  <2>3. /\ r.ok /\ m.msgNo < u.recvNo => Cached(u.msgKeyBuffer, m.dhPub, m.msgNo)
        /\ /\ ~SkipRefused(u, m.msgNo)
           /\ m.msgNo < u.recvNo => Cached(u.msgKeyBuffer, m.dhPub, m.msgNo)
           => r.ok
    <3>1. ReadBy(p, u, m, r)
      BY <1>1, <2>1, <2>2, ReadSound
    <3>. QED BY ZenonT(60), <3>1 DEF ReadBy
  <2>4. m.msgNo >= u.recvNo /\ SkipRefused(u, m.msgNo) => ~r.ok
    BY <1>1, <2>1, <2>2 DEF Decrypt
  <2>5. CASE u = d /\ m.dhPub = d.peerDhPub
    <3>1. SkipRefused(u, m.msgNo) => m.msgNo >= u.recvNo
      BY <1>1, <2>5 DEF SkipRefused
    <3>. QED BY <1>1, <2>3, <2>4, <2>5, <3>1 DEF Unreadable
  <2>6. CASE m.dhPub > d.peerDhPub /\ u.recvNo = 0
    BY <1>1, <2>3, <2>4, <2>6 DEF Unreadable, SkipRefused
  <2>. QED BY <2>2, <2>5, <2>6
<1>. QED BY <1>2, <1>3

\* The result r of Decrypt of m, and that nothing that precedes m can be opened
\* afterwards.
ReadsOn(p, d, m, fresh, r) ==
  /\ Sound(p, r.dr) /\ Skipped(r.dr)
  /\ r.dr.peerDhPub = m.dhPub /\ r.dr.recvNo = m.msgNo + 1
  /\ \/ /\ m.dhPub = d.peerDhPub /\ Epoch(r.dr) = Epoch(d)
        /\ r.dr.dhPub = d.dhPub /\ r.dr.sendNo = d.sendNo
     \/ /\ m.dhPub > d.peerDhPub /\ Epoch(r.dr) = Epoch(d) + 2
        /\ r.dr.dhPub = fresh /\ r.dr.sendNo = 0
  /\ \A v \in Messages : Precedes(v, m) /\ Unreadable(d, v) => Unreadable(r.dr, v)
  /\ Unreadable(r.dr, m)

\* Decrypt of a message that is not behind the last one.
LEMMA ReadNext ==
  ASSUME NEW p \in Party, NEW d, Sound(p, d), Skipped(d), NEW m, NEW fresh \in Nat,
         Meets(p, d, m, fresh),
         ~(m.dhPub < d.peerDhPub), m.dhPub = d.peerDhPub => m.msgNo + 1 >= d.recvNo,
         NEW r, r = Decrypt(d, m, fresh), r.ok
  PROVE  ReadsOn(p, d, m, fresh, r)
<1>1. /\ m \in Messages /\ m.dhPub \in Nat /\ m.msgNo \in Nat /\ m.msgNo \in HeaderNos
      /\ m.key = [root |-> Root(m.dhPub - 1), n |-> m.msgNo]
      /\ d.peerDhPub \in Nat /\ d.recvNo \in Nat /\ MaxSkipElements \in Nat
      /\ HeaderNos \subseteq Nat
      /\ \A v \in Messages : v.dhPub \in Nat /\ v.msgNo \in Nat /\ v.msgNo \in HeaderNos
  <2>1. \A v \in Messages : v.dhPub \in Nat /\ v.msgNo \in Nat /\ v.msgNo \in HeaderNos
    BY HeaderAssumption DEF Messages, HeaderNos
  <2>2. m \in Messages /\ m.key = [root |-> Root(m.dhPub - 1), n |-> m.msgNo]
    BY DEF Meets
  <2>3. HeaderNos \subseteq Nat /\ MaxSkipElements \in Nat
    BY HeaderAssumption, SkipElementsAssumption DEF HeaderNos
  <2>4. d.peerDhPub \in Nat /\ d.recvNo \in Nat
    BY DEF Sound, Ratchets
  <2>. QED BY <2>1, <2>2, <2>3, <2>4
<1>2. PICK u : u = Follow(d, m, fresh)
  OBVIOUS
<1>3. /\ ~FollowRefused(d, m)
      /\ Sound(p, u) /\ Epoch(u) >= 2 /\ u.peerDhPub = m.dhPub
      /\ \/ m.dhPub = d.peerDhPub /\ u = d
         \/ /\ m.dhPub > d.peerDhPub /\ u.recvNo = 0 /\ u.sendNo = 0
            /\ Epoch(u) = Epoch(d) + 2 /\ u.dhPub = fresh
  BY <1>2, MeetsFollow
<1>4. /\ Sound(p, r.dr)
      /\ r.dr.rootKey = u.rootKey /\ r.dr.dhPub = u.dhPub
      /\ r.dr.peerDhPub = u.peerDhPub /\ r.dr.sendNo = u.sendNo
      /\ r.dr.recvNo = u.recvNo \/ r.dr.recvNo = m.msgNo + 1
      /\ m.msgNo < r.dr.recvNo
      /\ m.msgNo < u.recvNo => Cached(u.msgKeyBuffer, m.dhPub, m.msgNo)
      /\ \A n \in HeaderNos : Cached(r.dr.msgKeyBuffer, m.dhPub, n) =>
           \/ Cached(u.msgKeyBuffer, m.dhPub, n)
           \/ u.recvNo <= n /\ n < m.msgNo
  <2>1. ReadBy(p, u, m, r)
    BY <1>1, <1>2, <1>3, ReadSound
  <2>. QED BY ZenonT(60), <2>1 DEF ReadBy
<1>5. u.recvNo \in Nat /\ u.recvNo <= m.msgNo
  <2>1. CASE m.dhPub = d.peerDhPub /\ u = d
    <3>1. ~(m.msgNo < d.recvNo)
      <4>. SUFFICES ASSUME m.msgNo < d.recvNo PROVE FALSE
        OBVIOUS
      <4>1. Cached(d.msgKeyBuffer, d.peerDhPub, m.msgNo)
        BY <1>4, <2>1
      <4>. QED BY <1>1, <2>1, <4>1 DEF Skipped
    <3>. QED BY <1>1, <2>1, <3>1
  <2>2. CASE u.recvNo = 0
    BY <1>1, <2>2
  <2>. QED BY <1>3, <2>1, <2>2
<1>6. r.dr.recvNo = m.msgNo + 1
  BY <1>1, <1>4, <1>5
<1>7. Epoch(r.dr) = Epoch(u)
  BY <1>4 DEF Epoch
<1>8. \A n \in HeaderNos : Cached(r.dr.msgKeyBuffer, m.dhPub, n) =>
        \/ m.dhPub = d.peerDhPub /\ Cached(d.msgKeyBuffer, m.dhPub, n)
        \/ u.recvNo <= n /\ n < m.msgNo
  <2>. SUFFICES ASSUME NEW n \in HeaderNos, Cached(r.dr.msgKeyBuffer, m.dhPub, n),
                       ~(u.recvNo <= n /\ n < m.msgNo)
                PROVE  m.dhPub = d.peerDhPub /\ Cached(d.msgKeyBuffer, m.dhPub, n)
    OBVIOUS
  <2>1. Cached(u.msgKeyBuffer, u.peerDhPub, n)
    BY ZenonT(60), <1>3, <1>4
  <2>2. n < u.recvNo /\ n \in Nat
    BY <1>1, <1>3, <2>1, CachedBelow
  <2>3. u.recvNo # 0
    BY <2>2
  <2>. QED BY <1>3, <2>1, <2>3
<1>9. Skipped(r.dr)
  <2>. SUFFICES ASSUME NEW n \in HeaderNos, Cached(r.dr.msgKeyBuffer, m.dhPub, n)
                PROVE  n < m.msgNo
    BY <1>1, <1>3, <1>4, <1>6 DEF Skipped
  <2>1. CASE m.dhPub = d.peerDhPub /\ Cached(d.msgKeyBuffer, m.dhPub, n)
    BY <1>1, <2>1 DEF Skipped
  <2>. QED BY ZenonT(60), <1>8, <2>1
<1>10. Unreadable(r.dr, m)
  <2>1. ~Cached(r.dr.msgKeyBuffer, m.dhPub, m.msgNo)
    BY <1>1, <1>3, <1>4, <1>6, <1>9 DEF Skipped
  <2>. QED BY ZenonT(60), <1>1, <1>3, <1>4, <1>6, <2>1 DEF Unreadable
<1>11. ASSUME NEW v \in Messages, Precedes(v, m), Unreadable(d, v)
       PROVE  Unreadable(r.dr, v)
  <2>1. CASE v.dhPub < m.dhPub
    BY <1>3, <1>4, <2>1 DEF Unreadable
  <2>2. CASE v.dhPub = m.dhPub /\ v.msgNo <= m.msgNo
    <3>1. /\ v.dhPub \in Nat /\ v.msgNo \in Nat /\ v.msgNo \in HeaderNos
          /\ v.msgNo < r.dr.recvNo /\ r.dr.peerDhPub = v.dhPub
      BY <1>1, <1>3, <1>4, <1>6, <2>2
    <3>2. ~Unreadable(d, m)
      BY Outcome
    <3>3. CASE m.dhPub = d.peerDhPub
      <4>1. ~SkipRefused(d, v.msgNo)
        BY <1>1, <2>2, <3>1, <3>2, <3>3 DEF Unreadable, SkipRefused
      <4>2. v.msgNo < d.recvNo /\ ~Cached(d.msgKeyBuffer, v.dhPub, v.msgNo)
        BY ZenonT(60), <1>1, <1>11, <2>2, <3>1, <3>3, <4>1 DEF Unreadable
      <4>3. u = d
        BY <1>1, <1>3, <3>3
      <4>4. ~Cached(r.dr.msgKeyBuffer, v.dhPub, v.msgNo)
        BY <1>1, <1>8, <2>2, <3>1, <4>2, <4>3
      <4>. QED BY <3>1, <4>4 DEF Unreadable
    <3>4. CASE m.dhPub > d.peerDhPub
      BY <1>1, <1>11, <2>2, <3>1, <3>2, <3>4 DEF Unreadable
    <3>. QED BY <1>1, <3>3, <3>4
  <2>. QED BY <1>11, <2>1, <2>2 DEF Precedes
<1>. QED BY ZenonT(60), <1>3, <1>4, <1>6, <1>7, <1>9, <1>10, <1>11 DEF ReadsOn

\* A ratchet that differs from another in its sending side, or has lost cached
\* keys, opens no message that the other does not.
LEMMA StillUnreadable ==
  ASSUME NEW f, NEW d, NEW m, Unreadable(f, m),
         d.peerDhPub = f.peerDhPub, d.recvNo = f.recvNo,
         \A k, n : Cached(d.msgKeyBuffer, k, n) => Cached(f.msgKeyBuffer, k, n)
  PROVE  Unreadable(d, m)
BY ZenonT(60) DEF Unreadable, SkipRefused

\* The first message of the conversation: the ciphertext of the ack.
FirstMessage(m) ==
  /\ m \in Messages /\ m.dhPub = 2 /\ m.msgNo = 0 /\ m.prevNo = 0
  /\ m.key = [root |-> Root(1), n |-> 0]

\* Alice's ratchet after the handshake, which seals the ciphertext of the ack.
LEMMA FirstSealed ==
  ASSUME NEW a, a = CreateActive(SessKey, AD, AliceKey, BobKey),
         NEW body \in Nat, NEW z \in Nat, NEW r, r = Encrypt(a, body, z)
  PROVE  /\ r.ok /\ FirstMessage(r.msg)
         /\ Sound(Alice, r.dr) /\ Skipped(r.dr) /\ Epoch(r.dr) = 1 /\ r.dr.sendNo = 1
<1>1. /\ Sound(Alice, a) /\ Epoch(a) = 0 /\ a.msgKeyBuffer = newKeyBuffer
      /\ \A k, n : ~Cached(newKeyBuffer, k, n)
  BY CreatedSound
<1>2. Alice \in Party
  BY DEF Party
<1>3. a.sendNo = 0
  BY <1>1 DEF Sound, InEpoch
<1>4. r.ok /\ r.msg.prevNo = 0
  <2>1. PICK u : u = dhStep(a, z)
    OBVIOUS
  <2>2. Sound(Alice, u) /\ Epoch(u) = 1 /\ u.sendNo = 0 /\ u.prevSendNo = 0
    BY <1>1, <1>2, <2>1, FirstStepSound
  <2>3. a.chainKeySend = NoChain /\ u.chainKeySend # NoChain
    BY <1>1, <1>2, <2>2, RecvChain
  <2>4. ~HeaderRefused(u.prevSendNo, u.sendNo)
    BY <2>2, HeaderAssumption DEF HeaderRefused
  <2>5. r.ok /\ r.msg = Sealed(u, body)
    BY <2>1, <2>3, <2>4 DEF Encrypt
  <2>6. Uint16(0) = 0
    BY Uint16Exact, HeaderAssumption
  <2>. QED BY <2>2, <2>5, <2>6 DEF Sealed
<1>5. Encrypts(Alice, a, r)
  BY ZenonT(60), <1>1, <1>2, EncryptSound
<1>6. /\ Sound(Alice, r.dr) /\ Epoch(r.dr) = 1 /\ r.dr.sendNo = 1
      /\ r.dr.msgKeyBuffer = a.msgKeyBuffer
  BY <1>1, <1>3, <1>4, <1>5 DEF Encrypts
<1>7. FirstMessage(r.msg)
  BY <1>3, <1>4, <1>5, <1>6 DEF Encrypts, FirstMessage
<1>8. Skipped(r.dr)
  BY ZenonT(60), <1>1, <1>6 DEF Skipped
<1>. QED BY ZenonT(60), <1>4, <1>6, <1>7, <1>8

\* Bob's ratchet after the handshake, which has read that ciphertext.
LEMMA FirstDecrypted ==
  ASSUME NEW b, b = CreatePassive(SessKey, AD, BobKey), NEW m, FirstMessage(m),
         NEW t, t = 3, NEW w, w = Decrypt(b, m, t)
  PROVE  /\ w.ok
         /\ Sound(Bob, w.dr) /\ Skipped(w.dr) /\ Epoch(w.dr) = 2 /\ w.dr.recvNo = 1
<1>1. /\ Sound(Bob, b) /\ Epoch(b) = 0 /\ b.msgKeyBuffer = newKeyBuffer
      /\ \A k, n : ~Cached(newKeyBuffer, k, n)
  BY CreatedSound
<1>2. Bob \in Party /\ Alice # Bob /\ t \in Nat
  BY DEF Party, Alice, Bob
<1>3. b.peerDhPub = 0
  BY <1>1, <1>2 DEF Sound, InEpoch
<1>4. /\ m \in Messages /\ m.dhPub = 2 /\ m.msgNo = 0 /\ m.prevNo = 0
      /\ m.key = [root |-> Root(1), n |-> 0]
  BY ZenonT(60) DEF FirstMessage
<1>5. Meets(Bob, b, m, t)
  BY <1>1, <1>2, <1>3, <1>4 DEF Meets
<1>6. ~(m.dhPub < b.peerDhPub) /\ m.dhPub # b.peerDhPub
  BY <1>3, <1>4
<1>7. w.ok
  <2>1. ~Unreadable(b, m)
    BY <1>3, <1>4, SkipElementsAssumption DEF Unreadable
  <2>. QED BY ZenonT(60), <1>1, <1>2, <1>5, <2>1, Outcome
<1>8. Skipped(b)
  BY ZenonT(60), <1>1 DEF Skipped
<1>9. /\ Sound(Bob, w.dr) /\ Skipped(w.dr)
      /\ w.dr.recvNo = m.msgNo + 1 /\ Epoch(w.dr) = Epoch(b) + 2
  <2>1. ReadsOn(Bob, b, m, t, w)
    BY ZenonT(60), <1>1, <1>2, <1>5, <1>6, <1>7, <1>8, ReadNext
  <2>. QED BY ZenonT(60), <1>6, <2>1 DEF ReadsOn
<1>. QED BY <1>1, <1>4, <1>7, <1>9
=============================================================================
