--------------------------- MODULE RatchetProofs ---------------------------
(***************************************************************************)
(* Lemmas about one ratchet: what the operators of Ratchet return, for     *)
(* every size of the key buffer, of the skip window and of the header.     *)
(*                                                                         *)
(* They number the ratchet steps.  Two parties in conversation take turns, *)
(* so that the n-th secret fed into rootKdf is that of the key pairs n and *)
(* n + 1; the epoch of a party is how many its root key was derived from.  *)
(***************************************************************************)
EXTENDS Ratchet, TLAPS

USE SMTT(30), ZenonT(60)

\* The root key after k steps of a conversation that stays in lockstep.
Root(k) == [i \in 1 .. k + 3 |-> IF i <= 3 THEN SessKey[i] ELSE {i - 3, i - 2}]

Epoch(d) == Len(d.rootKey) - 3

\* A ratchet of p in epoch e: which keys it holds, and from which roots.
InEpoch(p, d, e) ==
  /\ e \in Nat
  /\ e > 0 => e % 2 = (IF p = Alice THEN 1 ELSE 0)
  /\ d.rootKey = Root(e)
  /\ d.isActive <=> p = Alice
  /\ p = Alice => (d.isInitialized <=> e > 0)
  /\ d.dhPub = (IF p = Alice /\ e = 0 THEN AliceKey ELSE e + 1)
  /\ d.peerDhPub = (IF p = Alice /\ e = 0 THEN BobKey ELSE e)
  /\ p = Alice => d.dhrPeerDhPub # NoKey
  /\ p = Alice /\ e = 0 => d.dhrPeerDhPub = BobKey
  /\ d.chainKeySend = IF e = 0 THEN NoChain ELSE [root |-> Root(e), n |-> d.sendNo]
  /\ d.chainKeyRecv = IF e <= 1 THEN NoChain
                      ELSE [root |-> Root(e - 1), n |-> d.recvNo]
  /\ e <= 1 => d.recvNo = 0
  /\ e = 0 => d.sendNo = 0

\* The elements of the ring take its first slots.
Filled(kb) == \E n \in 0 .. MaxSkipChains : \A i \in Slots : kb[i] # NoElement <=> i <= n

\* The buffer of a ratchet holds genuine keys only: number n of the chain of
\* key pair k is the n-th key derived from the root of epoch k - 1.
BufferGenuine(kb, peerDhPub, recvNo) ==
  /\ Filled(kb)
  /\ \A i \in Slots : kb[i] # NoElement => kb[i].dhPub >= 2 /\ kb[i].dhPub <= peerDhPub
  /\ \A i \in Slots, n \in HeaderNos :
       kb[i].msgKeys[n] # NoChain =>
         /\ kb[i].msgKeys[n] = [root |-> Root(kb[i].dhPub - 1), n |-> n]
         /\ kb[i].dhPub = peerDhPub => n < recvNo
  /\ \A i \in Slots : kb[i] # NoElement => kb[i].msgKeys # NoMsgKeys
  /\ \A i, j \in Slots : kb[i] # NoElement /\ kb[i].dhPub = kb[j].dhPub => i = j

-----------------------------------------------------------------------------
(* Roots and chain keys *)

\* The session key is the root key before the first call of rootKdf.
LEMMA SessionRoot ==
  SessKey \in Seq(SUBSET Int) /\ Len(SessKey) = 3 /\ Root(0) = SessKey
<1>1. SessKey \in Seq(SUBSET Int) /\ Len(SessKey) = 3
  BY DEF SessKey, dh, AliceId, BobId, AliceEphemeral, BobKey
<1>2. Root(0) = SessKey
  BY <1>1 DEF Root
<1>. QED BY <1>1, <1>2

\* Root(k), the root key after k calls of rootKdf, is the session key and the
\* k secrets.
LEMMA RootLength ==
  ASSUME NEW k \in Nat
  PROVE  Root(k) \in Seq(SUBSET Int) /\ Len(Root(k)) = k + 3
<1>1. \A i \in 1 .. 3 : SessKey[i] \in SUBSET Int
  BY DEF SessKey, dh, AliceId, BobId, AliceEphemeral, BobKey
<1>2. \A i \in 1 .. k + 3 : i > 3 => {i - 3, i - 2} \in SUBSET Int
  OBVIOUS
<1>. QED BY <1>1, <1>2 DEF Root

\* A root key is a sequence of secrets.
LEMMA RootType ==
  ASSUME NEW k \in Nat
  PROVE  Root(k) \in Seq(SUBSET Int)
BY RootLength

\* The step of rootKdf that both parties take next.
LEMMA RootStep ==
  ASSUME NEW k \in Nat
  PROVE  rootKdf(Root(k), {k + 1, k + 2}) = Root(k + 1)
BY DEF Root, rootKdf

\* Roots of different epochs differ, and none is the one of a nil chain key.
LEMMA RootInjective ==
  ASSUME NEW j \in Nat, NEW k \in Nat, Root(j) = Root(k)
  PROVE  j = k
BY RootLength

\* A chain key derived by rootKdf is never the nil one.
LEMMA RootNotNil ==
  ASSUME NEW k \in Nat, k > 0, NEW n
  PROVE  [root |-> Root(k), n |-> n] # NoChain
<1>1. Len(Root(k)) # Len(<< >>)
  BY RootLength
<1>. QED BY <1>1 DEF NoChain

-----------------------------------------------------------------------------
(* The key buffer *)

\* A genuine buffer has at most one element of a chain, and elementFind finds
\* it: the order in which the ring is walked does not matter.
LEMMA FindUnique ==
  ASSUME NEW kb, NEW peer, NEW r, BufferGenuine(kb, peer, r),
         NEW k, NEW i \in ElementsOf(kb, k)
  PROVE  elementFind(kb, k) = i /\ ElementsOf(kb, k) = {i}
<1>1. ElementsOf(kb, k) = {i}
  BY DEF BufferGenuine, ElementsOf
<1>2. i <= i
  BY DEF ElementsOf, Slots
<1>. QED BY <1>1, <1>2 DEF elementFind

\* insert of the keys lo .. hi - 1 of the chain being followed keeps the
\* buffer genuine and adds exactly these keys, even if it evicts an element.
LEMMA InsertGenuine ==
  ASSUME NEW kb \in [Slots -> Elements], NEW peer \in Nat, peer >= 2,
         NEW lo \in Nat, NEW hi \in HeaderNos, lo < hi,
         BufferGenuine(kb, peer, lo),
         NEW ks \in [HeaderNos -> ChainKeys],
         \A n \in HeaderNos :
           ks[n] = IF lo <= n /\ n < hi
                   THEN [root |-> Root(peer - 1), n |-> n] ELSE NoChain
  PROVE  /\ insert(kb, peer, ks) \in [Slots -> Elements]
         /\ BufferGenuine(insert(kb, peer, ks), peer, hi)
         /\ \A n \in HeaderNos :
              Cached(insert(kb, peer, ks), peer, n) <=>
                Cached(kb, peer, n) \/ (lo <= n /\ n < hi)
<1>. DEFINE new == insert(kb, peer, ks)
<1>h. hi \in Nat /\ lo \in HeaderNos /\ HeaderNos \subseteq Nat
  BY HeaderAssumption DEF HeaderNos
<1>k. \A n \in HeaderNos : ks[n] # NoChain <=> lo <= n /\ n < hi
  BY RootNotNil
<1>n. ks # NoMsgKeys
  BY <1>h, <1>k DEF NoMsgKeys
<1>s. 1 \in Slots /\ Slots \subseteq Nat
  BY SkipChainsAssumption DEF Slots
<1>1. CASE ElementsOf(kb, peer) = {}
  <2>. DEFINE kbe == [dhPub |-> peer, msgKeys |-> ks]
  <2>1. new = [i \in Slots |-> IF i = 1 THEN kbe ELSE kb[i - 1]]
    BY <1>1 DEF insert, elementAdd
  <2>2. kbe \in Elements /\ kbe # NoElement
    BY DEF Elements, NoElement, NoKey
  <2>3. \A i \in Slots : i # 1 => i - 1 \in Slots
    BY SkipChainsAssumption DEF Slots
  <2>4. new \in [Slots -> Elements]
    BY <2>1, <2>2, <2>3
  <2>5. \A i \in Slots : kb[i] # NoElement => kb[i].dhPub # peer
    BY <1>1 DEF ElementsOf
  <2>f. Filled(new)
    <3>1. PICK n \in 0 .. MaxSkipChains : \A i \in Slots : kb[i] # NoElement <=> i <= n
      BY ZenonT(60) DEF BufferGenuine, Filled
    <3>2. PICK l : l = IF n = MaxSkipChains THEN n ELSE n + 1
      OBVIOUS
    <3>3. l \in 0 .. MaxSkipChains /\ l >= 1 /\ \A i \in Slots : i <= l <=> i = 1 \/ i - 1 <= n
      BY <3>2, SkipChainsAssumption DEF Slots
    <3>4. \A i \in Slots : new[i] # NoElement <=> i <= l
      BY <2>1, <2>2, <2>3, <3>1, <3>3
    <3>. QED BY <3>3, <3>4 DEF Filled
  <2>6. BufferGenuine(new, peer, hi)
    BY <1>h, <1>k, <1>n, <1>s, <2>1, <2>2, <2>3, <2>5, <2>f DEF BufferGenuine, NoElement, NoKey
  <2>7. 1 \in ElementsOf(new, peer)
    BY <1>s, <2>1, <2>2 DEF ElementsOf
  <2>8. elementFind(new, peer) = 1
    BY <2>6, <2>7, FindUnique
  <2>9. new[1].msgKeys = ks
    BY <1>s, <2>1
  <2>10. \A n \in HeaderNos : Cached(new, peer, n) <=> lo <= n /\ n < hi
    BY ZenonT(60), <1>k, <2>7, <2>8, <2>9 DEF Cached
  <2>11. \A n \in HeaderNos : ~Cached(kb, peer, n)
    BY <1>1 DEF Cached
  <2>. QED BY ZenonT(60), <2>4, <2>6, <2>10, <2>11
<1>2. CASE ElementsOf(kb, peer) # {}
  <2>1. PICK k \in ElementsOf(kb, peer) : TRUE
    BY <1>2
  <2>2. elementFind(kb, peer) = k /\ k \in Slots /\ kb[k] # NoElement /\ kb[k].dhPub = peer
    BY FindUnique DEF ElementsOf
  <2>. DEFINE kbe == [kb[k] EXCEPT !.msgKeys = Overlay(@, ks)]
  <2>3. new = [kb EXCEPT ![k] = kbe]
    BY <1>2, <2>2 DEF insert
  <2>4. kbe \in Elements /\ kbe.dhPub = peer
    BY ZenonT(60), <2>2 DEF Elements, Overlay
  <2>5. \A n \in HeaderNos : kbe.msgKeys[n] = IF ks[n] # NoChain THEN ks[n] ELSE kb[k].msgKeys[n]
    BY <2>2 DEF Elements, Overlay
  <2>6. kbe # NoElement /\ kbe.msgKeys # NoMsgKeys
    BY <1>h, <1>k, <2>4, <2>5 DEF NoElement, NoKey, NoMsgKeys
  <2>7. new \in [Slots -> Elements]
    BY <2>2, <2>3, <2>4
  <2>f. Filled(new)
    <3>1. \A i \in Slots : new[i] # NoElement <=> kb[i] # NoElement
      BY ZenonT(60), <2>2, <2>3, <2>6
    <3>2. Filled(kb)
      BY ZenonT(60) DEF BufferGenuine
    <3>. QED BY <3>1, <3>2 DEF Filled
  <2>8. BufferGenuine(new, peer, hi)
    BY <1>h, <1>k, <2>2, <2>3, <2>4, <2>5, <2>6, <2>f DEF BufferGenuine
  <2>9. k \in ElementsOf(new, peer)
    BY ZenonT(60), <2>2, <2>3, <2>4, <2>6 DEF ElementsOf
  <2>10. elementFind(new, peer) = k
    BY <2>8, <2>9, FindUnique
  <2>. QED BY ZenonT(60), <1>2, <1>k, <2>2, <2>3, <2>5, <2>7, <2>8, <2>9, <2>10 DEF Cached
<1>. QED BY ZenonT(60), <1>1, <1>2

-----------------------------------------------------------------------------
(* One ratchet *)

\* All that the invariant says of the ratchet of p by itself.
Sound(p, d) ==
  /\ d \in Ratchets
  /\ InEpoch(p, d, Epoch(d))
  /\ BufferGenuine(d.msgKeyBuffer, d.peerDhPub, d.recvNo)

\* p has a receiving chain exactly from the second epoch on.
LEMMA RecvChain ==
  ASSUME NEW p \in Party, NEW d, Sound(p, d)
  PROVE  /\ Epoch(d) \in Nat
         /\ d.chainKeyRecv = NoChain <=> Epoch(d) <= 1
         /\ d.chainKeySend = NoChain <=> Epoch(d) = 0
<1>1. Epoch(d) \in Nat
  BY DEF Sound, InEpoch
<1>2. CASE Epoch(d) >= 2
  BY <1>1, <1>2, RootNotNil DEF Sound, InEpoch
<1>3. CASE Epoch(d) < 2
  BY <1>1, <1>3, RootNotNil DEF Sound, InEpoch
<1>. QED BY <1>1, <1>2, <1>3

\* The key pairs a ratchet holds, those of CreateActive included.
LEMMA AnyEpochPairs ==
  ASSUME NEW p \in Party, NEW d, Sound(p, d)
  PROVE  /\ d.dhPub = IF p = Alice /\ Epoch(d) = 0 THEN 2 ELSE Epoch(d) + 1
         /\ d.peerDhPub = IF p = Alice /\ Epoch(d) = 0 THEN 1 ELSE Epoch(d)
BY DEF Sound, InEpoch, AliceKey, BobKey

\* The key pairs a ratchet holds once the conversation has begun.
LEMMA EpochPairs ==
  ASSUME NEW p \in Party, NEW d, Sound(p, d), p = Bob \/ Epoch(d) > 0
  PROVE  d.dhPub = Epoch(d) + 1 /\ d.peerDhPub = Epoch(d)
<1>1. ~(p = Alice /\ Epoch(d) = 0)
  BY DEF Alice, Bob
<1>. QED BY ZenonT(60), <1>1 DEF Sound, InEpoch

\* The roots of the chains of a ratchet.
LEMMA EpochChains ==
  ASSUME NEW p \in Party, NEW d, Sound(p, d)
  PROVE  /\ Epoch(d) > 0 => d.chainKeySend = [root |-> Root(Epoch(d)), n |-> d.sendNo]
         /\ Epoch(d) >= 2 => d.chainKeyRecv = [root |-> Root(Epoch(d) - 1), n |-> d.recvNo]
BY DEF Sound, InEpoch

\* s is d with the chain it receives on moved to the message until, the keys
\* before it cached.
Skips(p, d, until, s) ==
  /\ Sound(p, s)
  /\ s.rootKey = d.rootKey /\ s.dhPub = d.dhPub /\ s.peerDhPub = d.peerDhPub
  /\ s.sendNo = d.sendNo
  /\ s.recvNo = IF Epoch(d) >= 2 /\ d.recvNo < until THEN until ELSE d.recvNo
  /\ \A n \in HeaderNos :
       Cached(s.msgKeyBuffer, d.peerDhPub, n) <=>
         \/ Cached(d.msgKeyBuffer, d.peerDhPub, n)
         \/ Epoch(d) >= 2 /\ d.recvNo <= n /\ n < until

\* The loop of skipMsgKeys caches the keys it passes and changes nothing else
\* but the position in the receiving chain.
LEMMA SkipSound ==
  ASSUME NEW p \in Party, NEW d, Sound(p, d), NEW until \in HeaderNos,
         NEW s, s = skipMsgKeys(d, until)
  PROVE  Skips(p, d, until, s)
<1>t. Epoch(d) \in Nat /\ d.recvNo \in Nat /\ until \in Nat /\ HeaderNos \subseteq Nat
  BY HeaderAssumption DEF Sound, InEpoch, Ratchets, HeaderNos
<1>1. CASE Epoch(d) <= 1 \/ until <= d.recvNo
  <2>1. s = d
    BY <1>1, RecvChain DEF skipMsgKeys
  <2>. QED BY <1>1, <1>t, <2>1 DEF Skips
<1>2. CASE Epoch(d) >= 2 /\ d.recvNo < until
  <2>. DEFINE ks == SkippedKeys(d, until)
              kb == insert(d.msgKeyBuffer, d.peerDhPub, ks)
  <2>1. s = [d EXCEPT !.recvNo = until,
                      !.chainKeyRecv = chainKdf(d.chainKeyRecv, until - d.recvNo),
                      !.msgKeyBuffer = kb]
    BY <1>2, <1>t, RecvChain DEF skipMsgKeys
  <2>2. d.chainKeyRecv = [root |-> Root(Epoch(d) - 1), n |-> d.recvNo]
    BY <1>2, <1>t DEF Sound, InEpoch
  <2>3. d.peerDhPub = Epoch(d)
    BY <1>2 DEF Sound, InEpoch
  <2>4. \A n \in HeaderNos :
          ks[n] = IF d.recvNo <= n /\ n < until
                  THEN [root |-> Root(d.peerDhPub - 1), n |-> n] ELSE NoChain
    BY <1>t, <2>2, <2>3 DEF SkippedKeys, chainKdf
  <2>5. NoChain \in ChainKeys
    BY DEF NoChain, ChainKeys
  <2>6. \A n \in HeaderNos : [root |-> Root(d.peerDhPub - 1), n |-> n] \in ChainKeys
    BY <1>2, <1>t, <2>3, RootType DEF ChainKeys
  <2>7. ks \in [HeaderNos -> ChainKeys]
    <3>1. ks = [n \in HeaderNos |-> ks[n]]
      BY DEF SkippedKeys
    <3>2. \A n \in HeaderNos : ks[n] \in ChainKeys
      BY ZenonT(60), <2>4, <2>5, <2>6
    <3>. QED BY <3>1, <3>2
  <2>8. d.msgKeyBuffer \in [Slots -> Elements] /\ d.peerDhPub \in Nat
    BY DEF Sound, Ratchets
  <2>9. /\ kb \in [Slots -> Elements]
        /\ BufferGenuine(kb, d.peerDhPub, until)
        /\ \A n \in HeaderNos : Cached(kb, d.peerDhPub, n) <=>
             Cached(d.msgKeyBuffer, d.peerDhPub, n) \/ (d.recvNo <= n /\ n < until)
    <3>. HIDE DEF ks
    <3>. QED BY <1>2, <1>t, <2>3, <2>4, <2>7, <2>8, InsertGenuine DEF Sound
  <2>10. chainKdf(d.chainKeyRecv, until - d.recvNo) = [root |-> Root(Epoch(d) - 1), n |-> until]
    BY <1>t, <2>2 DEF chainKdf
  <2>11. [root |-> Root(Epoch(d) - 1), n |-> until] \in ChainKeys
    BY <1>2, <1>t, RootType DEF ChainKeys
  <2>. HIDE DEF kb, ks
  <2>12. s \in Ratchets
    BY ZenonT(60), <1>t, <2>1, <2>9, <2>10, <2>11 DEF Sound, Ratchets
  <2>13. /\ s.rootKey = d.rootKey /\ s.dhPub = d.dhPub /\ s.peerDhPub = d.peerDhPub
         /\ s.sendNo = d.sendNo /\ s.recvNo = until /\ s.msgKeyBuffer = kb
         /\ s.chainKeyRecv = [root |-> Root(Epoch(d) - 1), n |-> until]
         /\ s.chainKeySend = d.chainKeySend /\ s.isActive = d.isActive
         /\ s.isInitialized = d.isInitialized /\ s.dhrPeerDhPub = d.dhrPeerDhPub
    BY <2>1, <2>10 DEF Sound, Ratchets
  <2>14. Epoch(s) = Epoch(d)
    BY <2>13 DEF Epoch
  <2>15. InEpoch(p, s, Epoch(s))
    BY <1>2, <1>t, <2>13, <2>14 DEF Sound, InEpoch
  <2>. QED BY ZenonT(60), <1>2, <2>9, <2>12, <2>13, <2>15 DEF Sound, Skips
<1>. QED BY <1>1, <1>2, <1>t

\* A number that HeaderRefused lets pass survives its two bytes, and every
\* number comes out of them as one of a header.
LEMMA Uint16Exact ==
  /\ \A n \in Nat : Uint16(n) \in HeaderNos
  /\ \A n \in Nat : n < HeaderLimit => Uint16(n) = n
BY HeaderAssumption, SMT DEF Uint16, HeaderNos

\* dhStep on meeting the next key pair of the peer: both parties get to the
\* roots of the next two epochs.
LEMMA StepSound ==
  ASSUME NEW p \in Party, NEW d, Sound(p, d), NEW e, e = Epoch(d),
         p = Alice => e > 0,
         NEW r, r = dhStep([d EXCEPT !.peerDhPub = e + 2], e + 3)
  PROVE  /\ Sound(p, r)
         /\ Epoch(r) = e + 2 /\ r.dhPub = e + 3 /\ r.peerDhPub = e + 2
         /\ r.sendNo = 0 /\ r.recvNo = 0
         /\ r.msgKeyBuffer = d.msgKeyBuffer
<1>. DEFINE s == [d EXCEPT !.peerDhPub = e + 2]
<1>1. e \in Nat /\ d.rootKey = Root(e) /\ d.dhPub = e + 1 /\ d.peerDhPub = e
  BY DEF Sound, InEpoch, Party, Alice, Bob
<1>2. s \in Ratchets /\ s.peerDhPub = e + 2 /\ s.dhPub = e + 1 /\ s.rootKey = Root(e)
      /\ s.isActive = d.isActive /\ s.isInitialized = d.isInitialized
      /\ s.msgKeyBuffer = d.msgKeyBuffer
  <2>1. d \in Ratchets
    BY DEF Sound
  <2>2. e + 2 \in Nat
    BY <1>1
  <2>. QED BY ZenonT(60), <1>1, <2>1, <2>2 DEF Ratchets
<1>3. ~InitialStep(s) /\ ~DhStepFails(s)
  BY <1>1, <1>2 DEF Sound, InEpoch, InitialStep, DhStepFails, NoKey
<1>4. rootKdf(Root(e), dh(e + 1, e + 2)) = Root(e + 1)
  BY <1>1, RootStep DEF dh
<1>5. rootKdf(Root(e + 1), dh(e + 3, e + 2)) = Root(e + 2)
  <2>1. dh(e + 3, e + 2) = {(e + 1) + 1, (e + 1) + 2}
    BY <1>1 DEF dh
  <2>. QED BY <1>1, <2>1, RootStep
<1>. HIDE DEF s
<1>6. r = [StartCounters(s) EXCEPT !.rootKey = Root(e + 2), !.dhPub = e + 3,
             !.dhrPeerDhPub = e + 2,
             !.chainKeyRecv = ChainOf(Root(e + 1)), !.chainKeySend = ChainOf(Root(e + 2))]
  BY ZenonT(60), <1>2, <1>3, <1>4, <1>5 DEF dhStep, s
<1>7. /\ Root(e + 1) \in Seq(SUBSET Int) /\ Root(e + 2) \in Seq(SUBSET Int)
      /\ Len(Root(e + 2)) = e + 5
  BY <1>1, RootLength
<1>a. /\ ChainOf(Root(e + 1)) = [root |-> Root(e + 1), n |-> 0]
      /\ ChainOf(Root(e + 2)) = [root |-> Root(e + 2), n |-> 0]
      /\ NoChain \in ChainKeys
      /\ ChainOf(Root(e + 1)) \in ChainKeys /\ ChainOf(Root(e + 2)) \in ChainKeys
  BY <1>7 DEF ChainOf, ChainKeys, NoChain
<1>b. PICK t : t = StartCounters(s)
  OBVIOUS
<1>c. /\ t \in Ratchets
      /\ t.peerDhPub = e + 2 /\ t.isActive = d.isActive
      /\ t.isInitialized = d.isInitialized /\ t.sendNo = 0 /\ t.recvNo = 0
      /\ t.msgKeyBuffer = d.msgKeyBuffer
  BY ZenonT(60), <1>2, <1>a, <1>b DEF Ratchets, StartCounters
<1>d. r = [t EXCEPT !.rootKey = Root(e + 2), !.dhPub = e + 3, !.dhrPeerDhPub = e + 2,
             !.chainKeyRecv = ChainOf(Root(e + 1)), !.chainKeySend = ChainOf(Root(e + 2))]
  BY <1>6, <1>b
<1>e. e + 2 \in Nat /\ e + 3 \in Nat
  BY <1>1
<1>f. r \in Ratchets
  BY ZenonT(60), <1>7, <1>a, <1>c, <1>d, <1>e DEF Ratchets
<1>8. /\ r.rootKey = Root(e + 2) /\ r.dhPub = e + 3 /\ r.peerDhPub = e + 2
      /\ r.dhrPeerDhPub = e + 2 /\ r.isActive = d.isActive
      /\ r.isInitialized = d.isInitialized /\ r.sendNo = 0 /\ r.recvNo = 0
      /\ r.chainKeySend = [root |-> Root(e + 2), n |-> 0]
      /\ r.chainKeyRecv = [root |-> Root(e + 1), n |-> 0]
      /\ r.msgKeyBuffer = d.msgKeyBuffer
  BY ZenonT(60), <1>a, <1>c, <1>d DEF Ratchets
<1>9. Epoch(r) = e + 2
  BY <1>1, <1>7, <1>8 DEF Epoch
<1>10. InEpoch(p, r, e + 2)
  BY <1>1, <1>8 DEF Sound, InEpoch, NoKey
<1>11. BufferGenuine(d.msgKeyBuffer, e + 2, 0)
  <2>1. d.msgKeyBuffer \in [Slots -> Elements]
    BY DEF Sound, Ratchets
  <2>2. \A i \in Slots : d.msgKeyBuffer[i].dhPub \in Nat
    BY <2>1 DEF Elements
  <2>3. \A i \in Slots : d.msgKeyBuffer[i].dhPub <= e
    BY <1>1, <2>2 DEF Sound, BufferGenuine, NoElement, NoKey
  <2>. QED BY <1>1, <2>2, <2>3 DEF Sound, BufferGenuine
<1>. QED BY ZenonT(60), <1>8, <1>9, <1>10, <1>11, <1>f DEF Sound

\* dhStep before the first message: Alice derives her first sending chain, Bob
\* has no key to derive one with and stays where he is.
LEMMA FirstStepSound ==
  ASSUME NEW p \in Party, NEW d, Sound(p, d), Epoch(d) = 0, NEW fresh \in Nat,
         NEW r, r = dhStep(d, fresh)
  PROVE  /\ Sound(p, r)
         /\ Epoch(r) = IF p = Alice THEN 1 ELSE 0
         /\ r.dhPub = d.dhPub /\ r.peerDhPub = d.peerDhPub
         /\ r.sendNo = 0 /\ r.recvNo = 0 /\ r.prevSendNo = 0
         /\ r.msgKeyBuffer = d.msgKeyBuffer
<1>1. /\ d \in Ratchets /\ d.rootKey = Root(0) /\ d.sendNo = 0 /\ d.recvNo = 0
      /\ d.isActive <=> p = Alice
      /\ p = Alice => /\ ~d.isInitialized /\ d.dhPub = AliceKey
                      /\ d.dhrPeerDhPub = BobKey /\ d.peerDhPub = BobKey
      /\ p # Alice => d.peerDhPub = 0 /\ d.dhPub = 1
      /\ BufferGenuine(d.msgKeyBuffer, d.peerDhPub, 0)
  BY DEF Sound, InEpoch
<1>a. NoChain \in ChainKeys
  BY DEF NoChain, ChainKeys
<1>b. PICK t : t = StartCounters(d)
  OBVIOUS
<1>c. /\ t \in Ratchets /\ t.rootKey = d.rootKey /\ t.dhPub = d.dhPub
      /\ t.dhrPeerDhPub = d.dhrPeerDhPub
      /\ t.peerDhPub = d.peerDhPub /\ t.isActive = d.isActive
      /\ t.isInitialized = d.isInitialized /\ t.sendNo = 0 /\ t.recvNo = 0
      /\ t.prevSendNo = 0 /\ t.msgKeyBuffer = d.msgKeyBuffer
      /\ t.chainKeySend = NoChain /\ t.chainKeyRecv = NoChain
  BY ZenonT(60), <1>1, <1>a, <1>b DEF Ratchets, StartCounters
<1>2. CASE p = Alice
  <2>1. InitialStep(d) /\ ~DhStepFails(d)
    BY <1>1, <1>2 DEF InitialStep, DhStepFails, NoKey, BobKey
  <2>2. rootKdf(d.rootKey, dh(d.dhPub, d.dhrPeerDhPub)) = Root(1)
    <3>1. dh(d.dhPub, d.dhrPeerDhPub) = {0 + 1, 0 + 2}
      BY <1>1, <1>2 DEF dh, AliceKey, BobKey
    <3>. QED BY <1>1, <3>1, RootStep
  <2>3. r = [t EXCEPT !.rootKey = Root(1), !.isInitialized = TRUE,
                      !.chainKeySend = ChainOf(Root(1))]
    BY <1>b, <2>1, <2>2 DEF dhStep
  <2>4. /\ Root(1) \in Seq(SUBSET Int) /\ Len(Root(1)) = 4
        /\ ChainOf(Root(1)) = [root |-> Root(1), n |-> 0]
        /\ ChainOf(Root(1)) \in ChainKeys
    <3>1. Len(Root(1)) = 1 + 3 /\ Root(1) \in Seq(SUBSET Int)
      BY ZenonT(60), RootLength
    <3>. QED BY <3>1 DEF ChainOf, ChainKeys
  <2>5. r \in Ratchets
    BY ZenonT(60), <1>c, <2>3, <2>4 DEF Ratchets
  <2>6. /\ r.rootKey = Root(1) /\ r.dhPub = d.dhPub /\ r.dhrPeerDhPub = d.dhrPeerDhPub
        /\ r.peerDhPub = d.peerDhPub /\ r.isActive = d.isActive /\ r.isInitialized
        /\ r.sendNo = 0 /\ r.recvNo = 0 /\ r.prevSendNo = 0
        /\ r.msgKeyBuffer = d.msgKeyBuffer
        /\ r.chainKeySend = [root |-> Root(1), n |-> 0] /\ r.chainKeyRecv = NoChain
    BY ZenonT(60), <1>c, <2>3, <2>4 DEF Ratchets
  <2>7. Epoch(r) = 1
    BY <2>4, <2>6 DEF Epoch
  <2>8. InEpoch(p, r, 1)
    BY <1>1, <1>2, <2>6 DEF InEpoch, AliceKey, BobKey, NoKey
  <2>. QED BY ZenonT(60), <1>1, <1>2, <2>5, <2>6, <2>7, <2>8 DEF Sound
<1>3. CASE p # Alice
  <2>1. ~InitialStep(d) /\ DhStepFails(d)
    BY <1>1, <1>3 DEF InitialStep, DhStepFails, NoKey
  <2>2. r = [t EXCEPT !.dhrPeerDhPub = d.peerDhPub]
    BY <1>b, <2>1 DEF dhStep
  <2>3. r \in Ratchets
    BY ZenonT(60), <1>1, <1>c, <2>2 DEF Ratchets
  <2>4. /\ r.rootKey = d.rootKey /\ r.dhPub = d.dhPub
        /\ r.peerDhPub = d.peerDhPub /\ r.isActive = d.isActive
        /\ r.sendNo = 0 /\ r.recvNo = 0 /\ r.prevSendNo = 0
        /\ r.msgKeyBuffer = d.msgKeyBuffer
        /\ r.chainKeySend = NoChain /\ r.chainKeyRecv = NoChain
    BY <1>c, <2>2 DEF Ratchets
  <2>5. Epoch(r) = 0
    BY <2>4 DEF Epoch
  <2>6. InEpoch(p, r, 0)
    BY <1>1, <1>3, <2>4 DEF InEpoch
  <2>. QED BY ZenonT(60), <1>1, <1>3, <2>3, <2>4, <2>5, <2>6 DEF Sound
<1>. QED BY <1>2, <1>3

\* The result r of Encrypt on the ratchet d of p.
Encrypts(p, d, r) ==
  /\ Sound(p, r.dr)
  /\ Epoch(r.dr) = IF p = Alice /\ Epoch(d) = 0 THEN 1 ELSE Epoch(d)
  /\ r.dr.dhPub = d.dhPub /\ r.dr.peerDhPub = d.peerDhPub
  /\ r.dr.recvNo = d.recvNo /\ r.dr.msgKeyBuffer = d.msgKeyBuffer
  /\ r.dr.sendNo >= d.sendNo
  /\ r.ok => /\ r.msg \in Messages
             /\ Epoch(r.dr) > 0 /\ r.msg.dhPub = Epoch(r.dr) + 1
             /\ r.msg.msgNo = d.sendNo /\ r.dr.sendNo = d.sendNo + 1
             /\ r.msg.key = [root |-> Root(Epoch(r.dr)), n |-> d.sendNo]

\* Encrypt leaves the receiving side alone, stays in its epoch unless it is
\* Alice's first, and seals with the next key of the sending chain.
LEMMA EncryptSound ==
  ASSUME NEW p \in Party, NEW d, Sound(p, d), NEW body \in Nat, NEW fresh \in Nat,
         NEW r, r = Encrypt(d, body, fresh)
  PROVE  Encrypts(p, d, r)
<1>1. PICK u : u = IF d.chainKeySend = NoChain THEN dhStep(d, fresh) ELSE d
  OBVIOUS
<1>2. /\ Sound(p, u)
      /\ Epoch(u) = IF p = Alice /\ Epoch(d) = 0 THEN 1 ELSE Epoch(d)
      /\ u.dhPub = d.dhPub /\ u.peerDhPub = d.peerDhPub
      /\ u.sendNo = d.sendNo /\ u.recvNo = d.recvNo
      /\ u.msgKeyBuffer = d.msgKeyBuffer
  <2>1. CASE Epoch(d) = 0
    <3>1. u = dhStep(d, fresh)
      BY <1>1, <2>1, RecvChain
    <3>2. d.sendNo = 0 /\ d.recvNo = 0
      BY <2>1 DEF Sound, InEpoch
    <3>. QED BY <2>1, <3>1, <3>2, FirstStepSound
  <2>2. CASE Epoch(d) # 0
    BY <1>1, <2>2, RecvChain
  <2>. QED BY <2>1, <2>2
<1>3. /\ u \in Ratchets /\ Epoch(u) \in Nat /\ u.sendNo \in Nat
      /\ u.prevSendNo \in Nat /\ u.associatedData = AD /\ u.dhPub \in Nat
      /\ u.chainKeySend = NoChain <=> Epoch(u) = 0
  BY ZenonT(60), <1>2, RecvChain DEF Sound, Ratchets
<1>n. u.sendNo >= u.sendNo /\ u.sendNo + 1 >= u.sendNo
  <2>1. \A n \in Nat : n >= n /\ n + 1 >= n
    OBVIOUS
  <2>. QED BY ZenonT(60), <1>3, <2>1
<1>4. PICK f : f = [u EXCEPT !.chainKeySend = chainKdf(u.chainKeySend, 1), !.sendNo = u.sendNo + 1]
  OBVIOUS
<1>5. r = CASE u.chainKeySend = NoChain -> [dr |-> u, ok |-> FALSE, msg |-> NoMsg]
            [] u.chainKeySend # NoChain /\ HeaderRefused(u.prevSendNo, u.sendNo) ->
                 [dr |-> f, ok |-> FALSE, msg |-> NoMsg]
            [] OTHER -> [dr |-> f, ok |-> TRUE, msg |-> Sealed(u, body)]
  BY ZenonT(60), <1>1, <1>4 DEF Encrypt
<1>6. CASE Epoch(u) = 0
  <2>1. r.dr = u /\ ~r.ok
    BY <1>3, <1>5, <1>6
  <2>. QED BY ZenonT(60), <1>2, <1>n, <2>1 DEF Encrypts
<1>7. CASE Epoch(u) > 0
  <2>1. u.chainKeySend = [root |-> Root(Epoch(u)), n |-> u.sendNo]
    BY <1>2, <1>3, <1>7 DEF Sound, InEpoch
  <2>2. chainKdf(u.chainKeySend, 1) = [root |-> Root(Epoch(u)), n |-> u.sendNo + 1]
    BY <1>3, <2>1 DEF chainKdf
  <2>3. [root |-> Root(Epoch(u)), n |-> u.sendNo + 1] \in ChainKeys
    <3>1. Root(Epoch(u)) \in Seq(SUBSET Int)
      BY <1>3, RootType
    <3>2. u.sendNo + 1 \in Nat
      BY <1>3
    <3>. QED BY <3>1, <3>2 DEF ChainKeys
  <2>a. f = [u EXCEPT !.chainKeySend = [root |-> Root(Epoch(u)), n |-> u.sendNo + 1],
                      !.sendNo = u.sendNo + 1]
    BY ZenonT(60), <1>4, <2>2
  <2>b. u.sendNo + 1 \in Nat
    BY <1>3
  <2>4. f \in Ratchets
    BY ZenonT(60), <1>3, <2>a, <2>b, <2>3 DEF Ratchets
  <2>5. /\ f.rootKey = u.rootKey /\ f.dhPub = u.dhPub /\ f.dhrPeerDhPub = u.dhrPeerDhPub
        /\ f.peerDhPub = u.peerDhPub /\ f.isActive = u.isActive
        /\ f.isInitialized = u.isInitialized
        /\ f.sendNo = u.sendNo + 1 /\ f.recvNo = u.recvNo
        /\ f.msgKeyBuffer = u.msgKeyBuffer /\ f.chainKeyRecv = u.chainKeyRecv
        /\ f.chainKeySend = [root |-> Root(Epoch(u)), n |-> u.sendNo + 1]
    BY <1>3, <1>4, <2>2 DEF Ratchets
  <2>6. Epoch(f) = Epoch(u)
    BY ZenonT(60), <2>5 DEF Epoch
  <2>7. InEpoch(p, f, Epoch(f))
    <3>1. InEpoch(p, u, Epoch(u))
      BY ZenonT(60), <1>2 DEF Sound
    <3>2. Epoch(u) # 0
      BY <1>3, <1>7
    <3>. QED BY ZenonT(60), <2>5, <2>6, <3>1, <3>2 DEF InEpoch
  <2>8. Sound(p, f)
    BY ZenonT(60), <1>2, <2>4, <2>5, <2>7 DEF Sound
  <2>9. CASE HeaderRefused(u.prevSendNo, u.sendNo)
    <3>1. r.dr = f /\ ~r.ok
      BY <1>3, <1>5, <1>7, <2>9
    <3>. QED BY ZenonT(60), <1>2, <1>n, <2>5, <2>6, <2>8, <3>1 DEF Encrypts
  <2>10. CASE ~HeaderRefused(u.prevSendNo, u.sendNo)
    <3>1. r.dr = f /\ r.msg = Sealed(u, body)
      BY <1>3, <1>5, <1>7, <2>10
    <3>2. Uint16(u.sendNo) = u.sendNo /\ Uint16(u.sendNo) \in HeaderNos
          /\ Uint16(u.prevSendNo) \in HeaderNos
      BY <1>3, <2>10, HeaderAssumption, Uint16Exact DEF HeaderRefused
    <3>3. u.chainKeySend \in ChainKeys
      BY <1>3 DEF Ratchets
    <3>4. /\ r.msg \in Messages /\ r.msg.dhPub = u.dhPub /\ r.msg.msgNo = u.sendNo
          /\ r.msg.key = u.chainKeySend
      BY <1>3, <3>1, <3>2, <3>3 DEF Sealed, Messages
    <3>5. u.dhPub = Epoch(u) + 1
      <4>1. InEpoch(p, u, Epoch(u)) /\ Epoch(u) \in Nat
        BY ZenonT(60), <1>2, <1>3 DEF Sound
      <4>. QED BY <1>7, <4>1 DEF InEpoch
    <3>. QED BY ZenonT(60), <1>2, <1>7, <1>n, <2>1, <2>5, <2>6, <2>8, <3>1, <3>4, <3>5 DEF Encrypts
  <2>. QED BY <2>9, <2>10
<1>. QED BY <1>3, <1>6, <1>7

\* A key that is cached is the one its message was sealed with.
LEMMA FindGenuine ==
  ASSUME NEW kb \in [Slots -> Elements], NEW peer, NEW r, BufferGenuine(kb, peer, r),
         NEW k, NEW n \in HeaderNos, Cached(kb, k, n)
  PROVE  find(kb, k, n) = [root |-> Root(k - 1), n |-> n]
<1>1. PICK i \in ElementsOf(kb, k) : TRUE
  BY DEF Cached
<1>2. elementFind(kb, k) = i /\ i \in Slots /\ kb[i].dhPub = k
  BY ZenonT(60), <1>1, FindUnique DEF ElementsOf
<1>. QED BY <1>2 DEF Cached, find, BufferGenuine

\* What Decrypt, with the result r, makes of a message m of the chain u follows: it
\* reads m if the window and the buffer allow, and no number gets below recvNo
\* without having been read or cached.
ReadBy(p, u, m, r) ==
  /\ Sound(p, r.dr)
  /\ r.dr.rootKey = u.rootKey /\ r.dr.dhPub = u.dhPub
  /\ r.dr.peerDhPub = u.peerDhPub /\ r.dr.sendNo = u.sendNo
  /\ r.dr.recvNo >= u.recvNo
  /\ r.dr.recvNo = u.recvNo \/ r.dr.recvNo = m.msgNo + 1
  /\ r.ok => m.msgNo < r.dr.recvNo
  /\ r.ok /\ m.msgNo < u.recvNo => Cached(u.msgKeyBuffer, m.dhPub, m.msgNo)
  /\ \A n \in HeaderNos : Cached(u.msgKeyBuffer, m.dhPub, n) =>
                            Cached(r.dr.msgKeyBuffer, m.dhPub, n)
  /\ \A n \in HeaderNos : n < r.dr.recvNo =>
       \/ n = m.msgNo /\ r.ok
       \/ n < u.recvNo
       \/ Cached(r.dr.msgKeyBuffer, m.dhPub, n)
  /\ \A n \in HeaderNos : Cached(r.dr.msgKeyBuffer, m.dhPub, n) =>
       \/ Cached(u.msgKeyBuffer, m.dhPub, n)
       \/ u.recvNo <= n /\ n < m.msgNo
  /\ /\ ~SkipRefused(u, m.msgNo)
     /\ m.msgNo < u.recvNo => Cached(u.msgKeyBuffer, m.dhPub, m.msgNo)
     => r.ok

\* Decrypt of a genuine message of the chain u now follows.
LEMMA ReadSound ==
  ASSUME NEW p \in Party, NEW d, NEW fresh, NEW m \in Messages, ~FollowRefused(d, m),
         NEW u, u = Follow(d, m, fresh), Sound(p, u), Epoch(u) >= 2,
         u.peerDhPub = m.dhPub, m.key = [root |-> Root(m.dhPub - 1), n |-> m.msgNo],
         NEW r, r = Decrypt(d, m, fresh)
  PROVE  ReadBy(p, u, m, r)
<1>t. /\ u \in Ratchets /\ u.recvNo \in Nat /\ m.msgNo \in HeaderNos /\ m.msgNo \in Nat
      /\ HeaderNos \subseteq Nat /\ m.ad = AD /\ u.associatedData = AD /\ Epoch(u) \in Nat
      /\ u.msgKeyBuffer \in [Slots -> Elements] /\ MaxSkipElements \in Nat
      /\ BufferGenuine(u.msgKeyBuffer, u.peerDhPub, u.recvNo)
  <2>1. u \in Ratchets /\ BufferGenuine(u.msgKeyBuffer, u.peerDhPub, u.recvNo)
    BY DEF Sound
  <2>2. Epoch(u) \in Nat
    BY RecvChain
  <2>3. u.recvNo \in Nat /\ u.associatedData = AD /\ u.msgKeyBuffer \in [Slots -> Elements]
    BY ZenonT(60), <2>1 DEF Ratchets
  <2>4. m.msgNo \in HeaderNos /\ m.ad = AD
    BY DEF Messages
  <2>5. HeaderNos \subseteq Nat /\ m.msgNo \in Nat
    BY <2>4, HeaderAssumption DEF HeaderNos
  <2>. QED BY ZenonT(60), <2>1, <2>2, <2>3, <2>4, <2>5, SkipElementsAssumption
<1>1. u.chainKeyRecv # NoChain /\ m.dhPub = Epoch(u)
  <2>1. Epoch(u) \in Nat
    BY ZenonT(60), <1>t
  <2>2. ~(Epoch(u) <= 1) /\ Epoch(u) # 0
    BY <2>1
  <2>. QED BY ZenonT(60), <2>2, RecvChain DEF Sound, InEpoch
<1>n. /\ u.recvNo >= u.recvNo
      /\ m.msgNo >= u.recvNo => ~(m.msgNo < u.recvNo)
      /\ m.msgNo < u.recvNo \/ m.msgNo >= u.recvNo
  <2>1. u.recvNo \in Nat /\ m.msgNo \in Nat
    BY ZenonT(60), <1>t
  <2>. QED BY <2>1
<1>2. CASE m.msgNo < u.recvNo
  <2>1. /\ r.dr = u
        /\ r.ok <=> /\ Cached(u.msgKeyBuffer, m.dhPub, m.msgNo)
                    /\ Opens(u, m, find(u.msgKeyBuffer, m.dhPub, m.msgNo))
    BY <1>2, <1>t DEF Decrypt
  <2>2. Cached(u.msgKeyBuffer, m.dhPub, m.msgNo)
          => find(u.msgKeyBuffer, m.dhPub, m.msgNo) = m.key
    BY ZenonT(60), <1>t, FindGenuine
  <2>3. r.ok <=> Cached(u.msgKeyBuffer, m.dhPub, m.msgNo)
    BY ZenonT(60), <1>t, <2>1, <2>2 DEF Opens
  <2>. QED BY ZenonT(60), <1>2, <1>n, <2>1, <2>3 DEF ReadBy
<1>3. CASE m.msgNo >= u.recvNo /\ SkipRefused(u, m.msgNo)
  <2>1. r.dr = u /\ ~r.ok
    BY <1>3, <1>t DEF Decrypt
  <2>. QED BY ZenonT(60), <1>3, <1>n, <2>1 DEF ReadBy
<1>4. CASE m.msgNo >= u.recvNo /\ ~SkipRefused(u, m.msgNo)
  <2>1. PICK f : f = skipMsgKeys(u, m.msgNo)
    OBVIOUS
  <2>2. /\ r.dr = [f EXCEPT !.chainKeyRecv = chainKdf(f.chainKeyRecv, 1), !.recvNo = f.recvNo + 1]
        /\ r.ok <=> Opens(f, m, f.chainKeyRecv)
    BY <1>1, <1>4, <1>t, <2>1 DEF Decrypt
  <2>3. /\ Sound(p, f) /\ f.rootKey = u.rootKey /\ f.dhPub = u.dhPub
        /\ f.peerDhPub = u.peerDhPub /\ f.sendNo = u.sendNo /\ f.recvNo = m.msgNo
        /\ \A n \in HeaderNos : Cached(f.msgKeyBuffer, m.dhPub, n) <=>
             \/ Cached(u.msgKeyBuffer, m.dhPub, n)
             \/ u.recvNo <= n /\ n < m.msgNo
    <3>1. Skips(p, u, m.msgNo, f)
      BY ZenonT(60), <1>t, <2>1, SkipSound
    <3>2. u.recvNo < m.msgNo \/ u.recvNo = m.msgNo
      <4>1. u.recvNo \in Nat /\ m.msgNo \in Nat
        BY ZenonT(60), <1>t
      <4>. QED BY <1>4, <4>1
    <3>. QED BY ZenonT(60), <3>1, <3>2 DEF Skips
  <2>4. Epoch(f) = Epoch(u) /\ f \in Ratchets /\ f.associatedData = AD
    BY ZenonT(60), <2>3 DEF Epoch, Sound, Ratchets
  <2>5. f.chainKeyRecv = [root |-> Root(Epoch(u) - 1), n |-> m.msgNo]
    BY ZenonT(60), <1>t, <2>3, <2>4, EpochChains
  <2>6. r.ok
    BY ZenonT(60), <1>1, <1>t, <2>2, <2>4, <2>5 DEF Opens
  <2>7. chainKdf(f.chainKeyRecv, 1) = [root |-> Root(Epoch(u) - 1), n |-> m.msgNo + 1]
    BY <1>t, <2>5 DEF chainKdf
  <2>8. [root |-> Root(Epoch(u) - 1), n |-> m.msgNo + 1] \in ChainKeys /\ m.msgNo + 1 \in Nat
    <3>1. m.msgNo + 1 \in Nat /\ Epoch(u) - 1 \in Nat
      BY <1>t
    <3>2. Root(Epoch(u) - 1) \in Seq(SUBSET Int)
      BY <3>1, RootType
    <3>. QED BY ZenonT(60), <3>1, <3>2 DEF ChainKeys
  <2>9. r.dr = [f EXCEPT !.chainKeyRecv = [root |-> Root(Epoch(u) - 1), n |-> m.msgNo + 1],
                         !.recvNo = m.msgNo + 1]
    BY ZenonT(60), <2>2, <2>3, <2>7
  <2>10. r.dr \in Ratchets
    BY ZenonT(60), <2>4, <2>8, <2>9 DEF Ratchets
  <2>11. /\ r.dr.rootKey = f.rootKey /\ r.dr.dhPub = f.dhPub
         /\ r.dr.dhrPeerDhPub = f.dhrPeerDhPub
         /\ r.dr.peerDhPub = f.peerDhPub /\ r.dr.isActive = f.isActive
         /\ r.dr.isInitialized = f.isInitialized
         /\ r.dr.sendNo = f.sendNo /\ r.dr.recvNo = m.msgNo + 1
         /\ r.dr.msgKeyBuffer = f.msgKeyBuffer /\ r.dr.chainKeySend = f.chainKeySend
         /\ r.dr.chainKeyRecv = [root |-> Root(Epoch(u) - 1), n |-> m.msgNo + 1]
    BY <2>4, <2>9 DEF Ratchets
  <2>12. Epoch(r.dr) = Epoch(u)
    BY ZenonT(60), <2>3, <2>11 DEF Epoch
  <2>13. InEpoch(p, r.dr, Epoch(r.dr))
    <3>1. InEpoch(p, f, Epoch(u))
      BY ZenonT(60), <2>3, <2>4 DEF Sound
    <3>2. ~(Epoch(u) <= 1)
      <4>1. Epoch(u) \in Nat
        BY ZenonT(60), <1>t
      <4>. QED BY <4>1
    <3>. QED BY ZenonT(60), <2>11, <2>12, <3>1, <3>2 DEF InEpoch
  <2>14. BufferGenuine(f.msgKeyBuffer, f.peerDhPub, m.msgNo + 1)
    <3>1. BufferGenuine(f.msgKeyBuffer, f.peerDhPub, m.msgNo)
      BY ZenonT(60), <2>3 DEF Sound
    <3>2. \A n \in HeaderNos : n < m.msgNo => n < m.msgNo + 1
      <4>1. \A a, b \in Nat : a < b => a < b + 1
        OBVIOUS
      <4>. QED BY ZenonT(60), <1>t, <4>1
    <3>. QED BY ZenonT(60), <3>1, <3>2 DEF BufferGenuine
  <2>15. Sound(p, r.dr)
    BY ZenonT(60), <2>10, <2>11, <2>13, <2>14 DEF Sound
  <2>16. \A n \in HeaderNos : Cached(r.dr.msgKeyBuffer, m.dhPub, n) <=>
           Cached(u.msgKeyBuffer, m.dhPub, n) \/ (u.recvNo <= n /\ n < m.msgNo)
    BY ZenonT(60), <2>3, <2>11
  <2>17. \A n \in HeaderNos : n < m.msgNo + 1 =>
           n = m.msgNo \/ n < u.recvNo \/ (u.recvNo <= n /\ n < m.msgNo)
    <3>1. \A a, b, c \in Nat : a < b + 1 => a = b \/ a < c \/ (c <= a /\ a < b)
      OBVIOUS
    <3>. QED BY ZenonT(60), <1>t, <3>1
  <2>18. ~(m.msgNo < u.recvNo) /\ m.msgNo + 1 >= u.recvNo /\ m.msgNo < m.msgNo + 1
    BY <1>4, <1>t
  <2>. QED BY ZenonT(60), <2>3, <2>6, <2>11, <2>15, <2>16, <2>17, <2>18 DEF ReadBy
<1>. QED BY ZenonT(60), <1>2, <1>3, <1>4, <1>n

\* Following the next chain of the peer; none of its keys is cached yet.
LEMMA FollowSound ==
  ASSUME NEW p \in Party, NEW d, Sound(p, d), NEW m \in Messages,
         m.dhPub = Epoch(d) + 2, p = Alice => Epoch(d) > 0,
         NEW u, u = Follow(d, m, Epoch(d) + 3)
  PROVE  /\ Sound(p, u)
         /\ Epoch(u) = Epoch(d) + 2 /\ u.dhPub = Epoch(d) + 3
         /\ u.peerDhPub = m.dhPub /\ u.sendNo = 0 /\ u.recvNo = 0
<1>1. m.prevNo \in HeaderNos /\ Epoch(d) \in Nat /\ d.peerDhPub = Epoch(d)
  BY DEF Messages, Sound, InEpoch
<1>2. PICK s : s = skipMsgKeys(d, m.prevNo)
  OBVIOUS
<1>3. Sound(p, s) /\ Epoch(s) = Epoch(d)
  <2>1. Skips(p, d, m.prevNo, s)
    BY ZenonT(60), <1>1, <1>2, SkipSound
  <2>. QED BY ZenonT(60), <2>1 DEF Epoch, Skips
<1>4. u = dhStep([s EXCEPT !.peerDhPub = Epoch(s) + 2], Epoch(s) + 3)
  BY <1>1, <1>2, <1>3 DEF Follow
<1>. QED BY <1>3, <1>4, StepSound

\* A message of a chain that was left makes Decrypt leave the conversation's
\* sequence of roots, so that it does not open.
LEMMA LateRefused ==
  ASSUME NEW p \in Party, NEW d, Sound(p, d), NEW m \in Messages, NEW fresh \in Nat,
         m.dhPub >= 2, m.dhPub < d.peerDhPub,
         m.key = [root |-> Root(m.dhPub - 1), n |-> m.msgNo]
  PROVE  ~Decrypt(d, m, fresh).ok
<1>. PICK e, u, r : e = Epoch(d) /\ u = Follow(d, m, fresh) /\ r = Decrypt(d, m, fresh)
  OBVIOUS
<1>1. e \in Nat
  BY RecvChain
<1>3. /\ m.dhPub \in Nat /\ m.dhPub >= 2
      /\ m.msgNo \in Nat /\ m.msgNo \in HeaderNos /\ m.prevNo \in HeaderNos
      /\ d.peerDhPub \in Nat /\ m.dhPub < d.peerDhPub
  BY HeaderAssumption DEF Messages, HeaderNos, Sound, Ratchets
<1>4. e >= 3 /\ m.dhPub < e
  <2>1. d.peerDhPub = IF p = Alice /\ e = 0 THEN 1 ELSE e
    BY ZenonT(60), <1>1, AnyEpochPairs
  <2>. QED BY <1>1, <1>3, <2>1
<1>5. Len(m.key.root) = m.dhPub + 2
  <2>1. m.key.root = Root(m.dhPub - 1) /\ m.dhPub - 1 \in Nat
    BY <1>3
  <2>2. Len(Root(m.dhPub - 1)) = (m.dhPub - 1) + 3
    BY ZenonT(60), <2>1, RootLength
  <2>. QED BY <1>3, <2>1, <2>2
<1>6. PICK s : s = skipMsgKeys(d, m.prevNo)
  OBVIOUS
<1>7. Sound(p, s) /\ Epoch(s) = e
  <2>1. Skips(p, d, m.prevNo, s)
    BY ZenonT(60), <1>1, <1>3, <1>6, SkipSound
  <2>. QED BY ZenonT(60), <1>3, <2>1 DEF Epoch, Skips
<1>8. PICK t : t = [s EXCEPT !.peerDhPub = m.dhPub]
  BY ZenonT(60)
<1>9. t \in Ratchets /\ t.peerDhPub = m.dhPub /\ t.rootKey = Root(e)
  <2>1. s \in Ratchets /\ s.rootKey = Root(e)
    BY ZenonT(60), <1>7 DEF Sound, InEpoch
  <2>. QED BY ZenonT(60), <1>3, <1>8, <2>1 DEF Ratchets
<1>a. (t.isActive <=> p = Alice) /\ (p = Alice => t.isInitialized)
  <2>1. /\ s \in Ratchets /\ (s.isActive <=> p = Alice)
        /\ p = Alice => (s.isInitialized <=> e > 0)
    BY ZenonT(60), <1>7 DEF Sound, InEpoch
  <2>2. (t.isActive <=> s.isActive) /\ (t.isInitialized <=> s.isInitialized)
    BY <1>8, <2>1 DEF Ratchets
  <2>. QED BY <1>1, <1>4, <2>1, <2>2
<1>10. ~InitialStep(t) /\ ~DhStepFails(t)
  BY <1>3, <1>9, <1>a DEF InitialStep, DhStepFails, NoKey
<1>11. u = dhStep(t, fresh)
  BY <1>3, <1>6, <1>8 DEF Follow
<1>12. PICK k : k = rootKdf(Root(e), dh(t.dhPub, m.dhPub))
  OBVIOUS
<1>13. k \in Seq(SUBSET Int) /\ Len(k) = e + 4
  <2>1. Root(e) \in Seq(SUBSET Int) /\ Len(Root(e)) = e + 3
    BY ZenonT(60), <1>1, RootLength
  <2>2. dh(t.dhPub, m.dhPub) \in SUBSET Int
    BY <1>3, <1>9 DEF dh, Ratchets
  <2>. QED BY <1>1, <1>12, <2>1, <2>2 DEF rootKdf
<1>14. u \in Ratchets /\ u.recvNo = 0 /\ u.chainKeyRecv = [root |-> k, n |-> 0]
  <2>1. PICK v, send : v = StartCounters(t) /\ send = rootKdf(k, dh(fresh, m.dhPub))
    OBVIOUS
  <2>2. NoChain \in ChainKeys
    BY DEF NoChain, ChainKeys
  <2>3. v \in Ratchets /\ v.recvNo = 0
    BY ZenonT(60), <1>9, <2>1, <2>2 DEF StartCounters, Ratchets
  <2>5. send \in Seq(SUBSET Int)
    <3>1. dh(fresh, m.dhPub) \in SUBSET Int
      BY <1>3 DEF dh
    <3>. QED BY <1>13, <2>1, <3>1 DEF rootKdf
  <2>6. ChainOf(k) \in ChainKeys /\ ChainOf(send) \in ChainKeys
    BY <1>13, <2>5 DEF ChainOf, ChainKeys
  <2>7. u = [v EXCEPT !.rootKey = send, !.dhPub = fresh, !.dhrPeerDhPub = m.dhPub,
                      !.chainKeyRecv = ChainOf(k), !.chainKeySend = ChainOf(send)]
    BY ZenonT(60), <1>9, <1>10, <1>11, <1>12, <2>1 DEF dhStep
  <2>8. u \in Ratchets
    BY ZenonT(60), <1>3, <2>3, <2>5, <2>6, <2>7 DEF Ratchets
  <2>9. u.recvNo = 0 /\ u.chainKeyRecv = ChainOf(k)
    BY <2>3, <2>7 DEF Ratchets
  <2>. QED BY ZenonT(60), <2>8, <2>9 DEF ChainOf
<1>15. PICK f : f = skipMsgKeys(u, m.msgNo)
  OBVIOUS
<1>16. f.chainKeyRecv.root = k
  <2>1. CASE u.chainKeyRecv = NoChain \/ m.msgNo <= u.recvNo
    BY <1>14, <1>15, <2>1 DEF skipMsgKeys
  <2>2. CASE ~(u.chainKeyRecv = NoChain \/ m.msgNo <= u.recvNo)
    <3>1. PICK ck, kb : /\ ck = chainKdf(u.chainKeyRecv, m.msgNo - u.recvNo)
                        /\ kb = insert(u.msgKeyBuffer, u.peerDhPub, SkippedKeys(u, m.msgNo))
      OBVIOUS
    <3>2. f = [u EXCEPT !.recvNo = m.msgNo, !.chainKeyRecv = ck, !.msgKeyBuffer = kb]
      BY ZenonT(60), <1>15, <2>2, <3>1 DEF skipMsgKeys
    <3>3. f.chainKeyRecv = ck
      BY ZenonT(60), <1>14, <3>2 DEF Ratchets
    <3>4. ck.root = k
      BY <1>14, <3>1 DEF chainKdf
    <3>. QED BY ZenonT(60), <3>3, <3>4
  <2>. QED BY ZenonT(60), <2>1, <2>2
<1>17. m.key # f.chainKeyRecv
  BY <1>1, <1>3, <1>4, <1>5, <1>13, <1>16
<1>18. ~r.ok
  <2>1. ~(m.msgNo < u.recvNo)
    BY <1>3, <1>14
  <2>2. ~Opens(f, m, f.chainKeyRecv)
    BY ZenonT(60), <1>17 DEF Opens
  <2>. QED BY ZenonT(60), <2>1, <2>2, <1>15 DEF Decrypt
<1>. QED BY <1>18

\* CreateActive for Alice and CreatePassive for Bob: epoch 0, nothing cached.
LEMMA CreatedSound ==
  ASSUME NEW a, a = CreateActive(SessKey, AD, AliceKey, BobKey),
         NEW b, b = CreatePassive(SessKey, AD, BobKey)
  PROVE  /\ Sound(Alice, a) /\ Epoch(a) = 0 /\ Sound(Bob, b) /\ Epoch(b) = 0
         /\ a.msgKeyBuffer = newKeyBuffer /\ b.msgKeyBuffer = newKeyBuffer
         /\ \A k, n : ~Cached(newKeyBuffer, k, n)
<1>1. NoChain \in ChainKeys /\ NoElement \in Elements /\ newKeyBuffer \in [Slots -> Elements]
  BY DEF NoChain, ChainKeys, NoElement, Elements, NoMsgKeys, NoKey, newKeyBuffer
<1>2. Root(0) = SessKey /\ SessKey \in Seq(SUBSET Int) /\ Len(SessKey) = 3
  BY SessionRoot
<1>3. /\ a \in Ratchets /\ a.rootKey = SessKey /\ a.isActive /\ ~a.isInitialized
      /\ a.dhPub = 2 /\ a.peerDhPub = 1 /\ a.dhrPeerDhPub = 1
      /\ a.chainKeySend = NoChain /\ a.chainKeyRecv = NoChain
      /\ a.sendNo = 0 /\ a.recvNo = 0 /\ a.msgKeyBuffer = newKeyBuffer
  BY ZenonT(60), <1>1, <1>2 DEF CreateActive, Ratchets, AliceKey, BobKey
<1>4. /\ b \in Ratchets /\ b.rootKey = SessKey /\ ~b.isActive
      /\ b.dhPub = 1 /\ b.peerDhPub = 0
      /\ b.chainKeySend = NoChain /\ b.chainKeyRecv = NoChain
      /\ b.sendNo = 0 /\ b.recvNo = 0 /\ b.msgKeyBuffer = newKeyBuffer
  <2>1. PICK c : c = CreateActive(SessKey, AD, BobKey, NoKey)
    OBVIOUS
  <2>2. /\ c \in Ratchets /\ c.rootKey = SessKey
        /\ c.dhPub = 1 /\ c.peerDhPub = 0
        /\ c.chainKeySend = NoChain /\ c.chainKeyRecv = NoChain
        /\ c.sendNo = 0 /\ c.recvNo = 0 /\ c.msgKeyBuffer = newKeyBuffer
    BY ZenonT(60), <1>1, <1>2, <2>1 DEF CreateActive, Ratchets, BobKey, NoKey
  <2>3. b = [c EXCEPT !.isActive = FALSE]
    BY <2>1 DEF CreatePassive
  <2>. QED BY ZenonT(60), <2>2, <2>3 DEF Ratchets
<1>5. Epoch(a) = 0 /\ Epoch(b) = 0
  BY <1>2, <1>3, <1>4 DEF Epoch
<1>6. InEpoch(Alice, a, 0) /\ InEpoch(Bob, b, 0)
  BY <1>2, <1>3, <1>4 DEF InEpoch, AliceKey, BobKey, NoKey, Alice, Bob
<1>f. Filled(newKeyBuffer)
  <2>1. \A i \in Slots : ~(i <= 0)
    BY SkipChainsAssumption DEF Slots
  <2>2. 0 \in 0 .. MaxSkipChains
    BY SkipChainsAssumption
  <2>. QED BY <2>1, <2>2 DEF Filled, newKeyBuffer
<1>7. \A x, y : BufferGenuine(newKeyBuffer, x, y)
  BY ZenonT(60), <1>f DEF BufferGenuine, newKeyBuffer, NoElement, NoMsgKeys
<1>8. \A k : ElementsOf(newKeyBuffer, k) = {}
  BY DEF ElementsOf, newKeyBuffer
<1>. QED BY ZenonT(60), <1>3, <1>4, <1>5, <1>6, <1>7, <1>8 DEF Sound, Cached
=============================================================================
