--------------------------- MODULE DoubleRatchet ---------------------------
(***************************************************************************)
(* Two parties that keep their ratchets in memory and exchange ciphertexts *)
(* over a network that may lose, repeat and reorder them: Alice holds the  *)
(* active ratchet, Bob the passive one.                                    *)
(*                                                                         *)
(* net[p] is everything ever sent to p.  A ciphertext that stays there     *)
(* unread is lost, one that is read twice is repeated.                     *)
(***************************************************************************)
EXTENDS Ratchet

CONSTANT MaxSend     \* MaxSend[p]: bound on the Encrypt calls of p

ASSUME MaxSendAssumption == MaxSend \in [Party -> Nat]

VARIABLES
  dr,        \* dr[p]: the DoubleRatchet of p
  net,       \* net[p]: the ciphertexts addressed to p
  got,       \* got[p]: the ciphertexts of net[p] that Decrypt has returned
  calls,     \* calls[p]: how often p called Encrypt; names the plaintexts
  nextKey    \* the next key pair dhKeyPair generates

vars == <<dr, net, got, calls, nextKey>>

Init ==
  /\ dr = [p \in Party |-> IF p = Alice
                           THEN CreateActive(SessKey, AD, AliceKey, BobKey)
                           ELSE CreatePassive(SessKey, AD, BobKey)]
  /\ net = [p \in Party |-> {}]
  /\ got = [p \in Party |-> {}]
  /\ calls = [p \in Party |-> 0]
  /\ nextKey = 3

\* dhKeyPair was called if the ratchet now has the pair on offer.
Generated(d) == IF d.dhPub = nextKey THEN nextKey + 1 ELSE nextKey

Send(p) ==
  LET r == Encrypt(dr[p], calls[p], nextKey) IN
  /\ calls[p] < MaxSend[p]
  /\ calls' = [calls EXCEPT ![p] = @ + 1]
  /\ dr' = [dr EXCEPT ![p] = r.dr]
  /\ nextKey' = Generated(r.dr)
  /\ net' = [net EXCEPT ![Peer(p)] = IF r.ok THEN @ \cup {r.msg} ELSE @]
  /\ UNCHANGED got

Receive(p, m) ==
  LET r == Decrypt(dr[p], m, nextKey) IN
  /\ m \in net[p]
  /\ dr' = [dr EXCEPT ![p] = r.dr]
  /\ nextKey' = Generated(r.dr)
  /\ got' = [got EXCEPT ![p] = IF r.ok THEN @ \cup {m} ELSE @]
  /\ UNCHANGED <<net, calls>>

\* m belongs to a chain its sender left before the one p follows.
Late(p, m) == m.dhPub < dr[p].peerDhPub

\* A network that reorders and repeats at will.
AnyOrderNext == \E p \in Party : Send(p) \/ \E m \in net[p] : Receive(p, m)

\* One that reorders and repeats within a chain, but does not go back to a
\* chain once a message of a later one was handed over.
Next ==
  \E p \in Party : Send(p) \/ \E m \in net[p] : ~Late(p, m) /\ Receive(p, m)

AnyOrderSpec == Init /\ [][AnyOrderNext]_vars
Spec == Init /\ [][Next]_vars

-----------------------------------------------------------------------------
\* The fields of the DoubleRatchet, header and keyBuffer structs keep their
\* types through every Encrypt and Decrypt, and what was decrypted had been sent.
TypeOK ==
  /\ dr \in [Party -> Ratchets]
  /\ net \in [Party -> SUBSET Messages]
  /\ got \in [Party -> SUBSET Messages]
  /\ \A p \in Party : got[p] \subseteq net[p]
  /\ calls \in [Party -> Nat]
  /\ nextKey \in Nat

\* Encrypt never seals two plaintexts with one message key, whatever ratchet
\* steps, losses and refused headers lie between the two calls.
KeysNeverReused ==
  \A p, q \in Party : \A m \in net[p], w \in net[q] :
    m.key = w.key => p = q /\ m = w

\* When p follows the chain q is sending with, both derived it from the same
\* root, and p is not ahead of q in it (Decrypt against Encrypt and dhStep).
ChainsAgree ==
  \A p \in Party :
    LET mine == dr[p].chainKeyRecv
        theirs == dr[Peer(p)].chainKeySend
    IN /\ dr[p].peerDhPub = dr[Peer(p)].dhPub
       /\ mine # NoChain
       => mine.root = theirs.root /\ mine.n <= theirs.n

\* A ciphertext that was not read yet can be read, in whatever order those
\* before it came and however many of them were lost or repeated, as long as
\* it is within the window of skipMsgKeys and no later chain was begun.
FreshDecryptable ==
  \A p \in Party : \A m \in net[p] \ got[p] :
    ~Late(p, m) /\ InWindow(dr[p], m) => Decrypt(dr[p], m, nextKey).ok

\* Decrypt returns a ciphertext a second time only if it belongs to the chain
\* being followed and its number was once skipped: find does not delete keys.
ReplayRejected ==
  \A p \in Party : \A m \in got[p] :
    Decrypt(dr[p], m, nextKey).ok =>
      m.dhPub = dr[p].peerDhPub /\ Cached(dr[p].msgKeyBuffer, m.dhPub, m.msgNo)

\* keyBuffer has at most one element per chain and none without keys, though
\* elementAdd evicts old ones: elementFind has one answer, and no element is
\* written out with an empty map (gob would read it back as a nil map, which
\* insert cannot write to).
BufferWellFormed ==
  \A p \in Party : LET kb == dr[p].msgKeyBuffer IN
    \A i, j \in Slots :
      /\ kb[i] # NoElement => kb[i].msgKeys # NoMsgKeys
      /\ kb[i] # NoElement /\ kb[i].dhPub = kb[j].dhPub => i = j

=============================================================================
