------------------------------ MODULE Ratchet ------------------------------
(***************************************************************************)
(* The operations of package doubleratchet as operators on values: a       *)
(* ratchet is a record, and Encrypt, Decrypt and UnmarshalBinary return the *)
(* record they leave behind together with their outcome.  The modules that *)
(* use them (DoubleRatchet, StoredRatchet) add the parties and the network.*)
(*                                                                         *)
(* Cryptography is symbolic.  A DH key pair of a ratchet is a natural      *)
(* number, 0 is nil, and the pairs of the key agreement are negative; the  *)
(* secret of pairs a and b is the set {a, b}; a root key is the session    *)
(* key followed by the secrets fed into rootKdf; a chain key is the root   *)
(* it was derived with and the number of times chainKdf was applied to it, *)
(* and the message key chainKdf derives next to it bears the same name.    *)
(***************************************************************************)
EXTENDS Integers, Sequences

CONSTANTS
  MaxSkipChains,     \* maxSkipChains, 8 in key_buff.go
  MaxSkipElements,   \* maxSkipElements, 32 in key_buff.go
  HeaderLimit        \* 1<<16 in msg_header.go

ASSUME SkipChainsAssumption == MaxSkipChains \in Nat \ {0}
ASSUME SkipElementsAssumption == MaxSkipElements \in Nat
ASSUME HeaderAssumption == HeaderLimit \in Nat \ {0}

Slots == 1 .. MaxSkipChains

(***************************************************************************)
(* Keys                                                                    *)
(***************************************************************************)
NoKey == 0

dh(a, b) == {a, b}

NoChain == [root |-> << >>, n |-> 0]

rootKdf(rootKey, secret) == Append(rootKey, secret)

\* The chain key that rootKdf returns along with the new root key.
ChainOf(rootKey) == [root |-> rootKey, n |-> 0]

\* chainKdf applied k times; the message keys on the way are ck.n, ck.n + 1, ...
chainKdf(ck, k) == [ck EXCEPT !.n = @ + k]

(***************************************************************************)
(* keyBuffer: the ring as its Do method sees it, slot 1 being the current  *)
(* pointer.  Moving the pointer to Prev shifts every slot by one and makes *)
(* the oldest slot the new first one.                                      *)
(***************************************************************************)
HeaderNos == 0 .. HeaderLimit - 1

\* The map msgKeys; only numbers read from a header are ever looked up or
\* inserted, and NoChain stands for an absent entry.
NoMsgKeys == [n \in HeaderNos |-> NoChain]

NoElement == [dhPub |-> NoKey, msgKeys |-> NoMsgKeys]

newKeyBuffer == [i \in Slots |-> NoElement]

\* The slots elementFind would stop at; it returns the last of them.
ElementsOf(kb, dhPub) ==
  {i \in Slots : kb[i] # NoElement /\ kb[i].dhPub = dhPub}

elementFind(kb, dhPub) ==
  CHOOSE i \in ElementsOf(kb, dhPub) : \A j \in ElementsOf(kb, dhPub) : j <= i

\* Mutant: the ring grows instead of overwriting its oldest slot.
GrowingElementAdd(kb, kbe) ==
  [i \in 1 .. MaxSkipChains + 1 |-> IF i = 1 THEN kbe ELSE kb[i - 1]]

elementAdd(kb, kbe) == [i \in Slots |-> IF i = 1 THEN kbe ELSE kb[i - 1]]

Cached(kb, dhPub, msgNo) ==
  /\ ElementsOf(kb, dhPub) # {}
  /\ kb[elementFind(kb, dhPub)].msgKeys[msgNo] # NoChain

find(kb, dhPub, msgNo) == kb[elementFind(kb, dhPub)].msgKeys[msgNo]

\* Mutant: the keys skipped earlier in the chain are dropped.
OverlayDropping(f, g) == g

Overlay(f, g) == [n \in HeaderNos |-> IF g[n] # NoChain THEN g[n] ELSE f[n]]

\* Mutant: a new element even if the chain has one.
InsertWithoutFind(kb, dhPub, msgKeys) ==
  elementAdd(kb, [dhPub |-> dhPub, msgKeys |-> msgKeys])

\* insert for every entry of the map msgKeys.
insert(kb, dhPub, msgKeys) ==
  IF ElementsOf(kb, dhPub) = {}
  THEN elementAdd(kb, [dhPub |-> dhPub, msgKeys |-> msgKeys])
  ELSE [kb EXCEPT ![elementFind(kb, dhPub)].msgKeys = Overlay(@, msgKeys)]

(***************************************************************************)
(* Creation                                                                *)
(***************************************************************************)
CreateActive(sessKey, ad, dhPub, peerDhPub) ==
  [associatedData |-> ad, rootKey |-> sessKey, dhPub |-> dhPub,
   dhrPeerDhPub |-> peerDhPub, isActive |-> TRUE, isInitialized |-> FALSE,
   peerDhPub |-> peerDhPub, chainKeySend |-> NoChain, chainKeyRecv |-> NoChain,
   sendNo |-> 0, recvNo |-> 0, prevSendNo |-> 0, msgKeyBuffer |-> newKeyBuffer]

CreatePassive(sessKey, ad, dhPub) ==
  [CreateActive(sessKey, ad, dhPub, NoKey) EXCEPT !.isActive = FALSE]

(***************************************************************************)
(* The Diffie-Hellman ratchet.  fresh is the key pair dhKeyPair would      *)
(* generate.  A nil peer key makes dh fail once the counters are reset and *)
(* both chain keys are overwritten by step's nil results.                  *)
(***************************************************************************)
InitialStep(d) == d.isActive /\ ~d.isInitialized

DhStepFails(d) ==
  IF InitialStep(d) THEN d.dhrPeerDhPub = NoKey ELSE d.peerDhPub = NoKey

StartCounters(d) ==
  [d EXCEPT !.prevSendNo = d.sendNo, !.sendNo = 0, !.recvNo = 0,
            !.chainKeySend = NoChain, !.chainKeyRecv = NoChain]

\* Mutant: the receiving chain is derived with the new key pair.
DhStepFreshFirst(d, fresh) ==
  LET r     == StartCounters(d)
      first == rootKdf(d.rootKey, dh(d.dhPub, d.dhrPeerDhPub))
      recv  == rootKdf(d.rootKey, dh(fresh, d.peerDhPub))
      send  == rootKdf(recv, dh(fresh, d.peerDhPub))
  IN IF InitialStep(d)
     THEN [r EXCEPT !.rootKey = first, !.isInitialized = TRUE,
                    !.chainKeySend = ChainOf(first)]
     ELSE [r EXCEPT !.rootKey = send, !.dhPub = fresh, !.dhrPeerDhPub = d.peerDhPub,
                    !.chainKeyRecv = ChainOf(recv), !.chainKeySend = ChainOf(send)]

dhStep(d, fresh) ==
  LET r     == StartCounters(d)
      first == rootKdf(d.rootKey, dh(d.dhPub, d.dhrPeerDhPub))
      recv  == rootKdf(d.rootKey, dh(d.dhPub, d.peerDhPub))
      send  == rootKdf(recv, dh(fresh, d.peerDhPub))
  IN CASE InitialStep(d) /\ DhStepFails(d) -> r
       [] InitialStep(d) /\ ~DhStepFails(d) ->
            [r EXCEPT !.rootKey = first, !.isInitialized = TRUE,
                      !.chainKeySend = ChainOf(first)]
       [] ~InitialStep(d) /\ DhStepFails(d) ->
            [r EXCEPT !.dhrPeerDhPub = d.peerDhPub]
       [] OTHER ->
            [r EXCEPT !.rootKey = send, !.dhPub = fresh,
                      !.dhrPeerDhPub = d.peerDhPub,
                      !.chainKeyRecv = ChainOf(recv),
                      !.chainKeySend = ChainOf(send)]

(***************************************************************************)
(* Encrypt.  The header numbers travel as two bytes each; a number that    *)
(* does not fit is refused, after the chain and sendNo have advanced.      *)
(***************************************************************************)
HeaderRefused(prevNo, msgNo) == prevNo >= HeaderLimit \/ msgNo >= HeaderLimit

Uint16(n) == n % HeaderLimit

Sealed(d, body) ==
  [dhPub |-> d.dhPub, prevNo |-> Uint16(d.prevSendNo), msgNo |-> Uint16(d.sendNo),
   key |-> d.chainKeySend, ad |-> d.associatedData, body |-> body]

NoMsg == [dhPub |-> NoKey]

\* Mutant: the sending chain does not move on.
EncryptWithoutChain(d, body, fresh) ==
  LET e == IF d.chainKeySend = NoChain THEN dhStep(d, fresh) ELSE d
      f == [e EXCEPT !.sendNo = @ + 1]
  IN IF e.chainKeySend = NoChain \/ HeaderRefused(e.prevSendNo, e.sendNo)
     THEN [dr |-> f, ok |-> FALSE, msg |-> NoMsg]
     ELSE [dr |-> f, ok |-> TRUE, msg |-> Sealed(e, body)]

Encrypt(d, body, fresh) ==
  LET e == IF d.chainKeySend = NoChain THEN dhStep(d, fresh) ELSE d
      f == [e EXCEPT !.chainKeySend = chainKdf(@, 1), !.sendNo = @ + 1]
  IN CASE e.chainKeySend = NoChain -> [dr |-> e, ok |-> FALSE, msg |-> NoMsg]
       [] e.chainKeySend # NoChain /\ HeaderRefused(e.prevSendNo, e.sendNo) ->
            [dr |-> f, ok |-> FALSE, msg |-> NoMsg]
       [] OTHER -> [dr |-> f, ok |-> TRUE, msg |-> Sealed(e, body)]

(***************************************************************************)
(* Decrypt.  A ciphertext opens with exactly the key and the associated    *)
(* data it was sealed with.                                                *)
(***************************************************************************)
\* Mutant: the last number of the window is refused.
SkipRefusedEarly(d, until) == d.recvNo + MaxSkipElements <= until

SkipRefused(d, until) == d.recvNo + MaxSkipElements < until

SkippedKeys(d, until) ==
  [n \in HeaderNos |-> IF d.recvNo <= n /\ n < until
                       THEN chainKdf(d.chainKeyRecv, n - d.recvNo) ELSE NoChain]

\* The loop of skipMsgKeys, whose guard is SkipRefused.
skipMsgKeys(d, until) ==
  IF d.chainKeyRecv = NoChain \/ until <= d.recvNo THEN d
  ELSE [d EXCEPT
         !.recvNo = until,
         !.chainKeyRecv = chainKdf(@, until - d.recvNo),
         !.msgKeyBuffer = insert(@, d.peerDhPub, SkippedKeys(d, until))]

\* The ratchet once Decrypt has followed the header to the sender's chain.
Follow(d, m, fresh) ==
  IF m.dhPub = d.peerDhPub THEN d
  ELSE dhStep([skipMsgKeys(d, m.prevNo) EXCEPT !.peerDhPub = m.dhPub], fresh)

FollowRefused(d, m) == m.dhPub # d.peerDhPub /\ SkipRefused(d, m.prevNo)

Opens(d, m, key) == m.key = key /\ m.ad = d.associatedData

\* Mutant: the receiving chain does not move past the message just read.
DecryptWithoutAdvance(d, m, fresh) ==
  LET e == Follow(d, m, fresh)
      f == skipMsgKeys(e, m.msgNo)
  IN CASE FollowRefused(d, m) -> [dr |-> d, ok |-> FALSE]
       [] ~FollowRefused(d, m) /\ m.msgNo < e.recvNo ->
            [dr |-> e, ok |-> /\ Cached(e.msgKeyBuffer, m.dhPub, m.msgNo)
                              /\ Opens(e, m, find(e.msgKeyBuffer, m.dhPub, m.msgNo))]
       [] OTHER -> [dr |-> f, ok |-> Opens(f, m, f.chainKeyRecv)]

Decrypt(d, m, fresh) ==
  LET e == Follow(d, m, fresh)
      f == skipMsgKeys(e, m.msgNo)
  IN CASE FollowRefused(d, m) -> [dr |-> d, ok |-> FALSE]
       [] ~FollowRefused(d, m) /\ m.msgNo < e.recvNo ->
            [dr |-> e, ok |-> /\ Cached(e.msgKeyBuffer, m.dhPub, m.msgNo)
                              /\ Opens(e, m, find(e.msgKeyBuffer, m.dhPub, m.msgNo))]
       [] ~FollowRefused(d, m) /\ m.msgNo >= e.recvNo
            /\ (SkipRefused(e, m.msgNo) \/ e.chainKeyRecv = NoChain) ->
            [dr |-> e, ok |-> FALSE]
       [] OTHER ->
            [dr |-> [f EXCEPT !.chainKeyRecv = chainKdf(@, 1), !.recvNo = @ + 1],
             ok |-> Opens(f, m, f.chainKeyRecv)]

\* skipMsgKeys would accept the numbers in the header of m.
InWindow(d, m) ==
  IF m.dhPub = d.peerDhPub THEN m.msgNo <= d.recvNo + MaxSkipElements
  ELSE /\ m.prevNo <= d.recvNo + MaxSkipElements
       /\ m.msgNo <= MaxSkipElements

(***************************************************************************)
(* UnmarshalBinary of what MarshalBinary wrote: prevSendNo is written but  *)
(* not read back, and the elements, written in ring order, are all stored  *)
(* into the same slot, so that the oldest one remains.                     *)
(***************************************************************************)
RestoredBuffer(kb) ==
  LET live   == {i \in Slots : kb[i] # NoElement}
      oldest == CHOOSE i \in live : \A j \in live : j <= i
  IN [i \in Slots |-> IF i = 1 /\ live # {} THEN kb[oldest] ELSE NoElement]

\* Mutant: isInitialized is not read back.
RestoredUninitialized(d) ==
  [d EXCEPT !.prevSendNo = 0, !.isInitialized = FALSE,
            !.msgKeyBuffer = RestoredBuffer(@)]

Restored(d) ==
  [d EXCEPT !.prevSendNo = 0, !.msgKeyBuffer = RestoredBuffer(@)]

(***************************************************************************)
(* The two ends of a session.  Alice holds the active ratchet.             *)
(***************************************************************************)
Alice == "Alice"
Bob == "Bob"
Party == {Alice, Bob}
Peer(p) == IF p = Alice THEN Bob ELSE Alice

BobKey == 1          \* the key pair of Bob that CreateActive is given
AliceKey == 2        \* the key pair dhRatchetActive generates

AliceId == -1        \* the identity keys
BobId == -2
AliceEphemeral == -3

\* The key and the associated data that X3DH makes both parties agree on.
SessKey == <<dh(AliceId, BobKey), dh(AliceEphemeral, BobId), dh(AliceEphemeral, BobKey)>>
AD == <<AliceId, BobId>>

(***************************************************************************)
(* Types                                                                   *)
(***************************************************************************)
ChainKeys == [root : Seq(SUBSET Int), n : Nat]

Elements == [dhPub : Nat, msgKeys : [HeaderNos -> ChainKeys]]

Ratchets ==
  [associatedData : {AD}, rootKey : Seq(SUBSET Int), dhPub : Nat,
   dhrPeerDhPub : Nat, isActive : BOOLEAN, isInitialized : BOOLEAN,
   peerDhPub : Nat, chainKeySend : ChainKeys, chainKeyRecv : ChainKeys,
   sendNo : Nat, recvNo : Nat, prevSendNo : Nat,
   msgKeyBuffer : [Slots -> Elements]]

Messages ==
  [dhPub : Nat, prevNo : HeaderNos, msgNo : HeaderNos, key : ChainKeys,
   ad : {AD}, body : Nat]
=============================================================================
