----------------------------- MODULE Xochimilco -----------------------------
(***************************************************************************)
(* The methods of xochimilco.Session as operators on a session record.     *)
(* Each returns the session it leaves behind, ok for a nil error, and the  *)
(* message it creates, if any.  VerifyPeer is the comparison with the      *)
(* identity key of the expected peer.                                      *)
(***************************************************************************)
EXTENDS X3DH

NoUUID == 0
NoRatchet == [rootKey |-> << >>]
NoReply == [type |-> "none"]

NewSession(localUUID, idKey) ==
  [localUUID |-> localUUID, remoteUUID |-> NoUUID, identityKey |-> idKey,
   spk |-> NoKey, doubleRatchet |-> NoRatchet]

Active(s) == s.doubleRatchet # NoRatchet

Failed(s) == [sess |-> s, ok |-> FALSE, msg |-> NoReply]

\* createOffer with the new prekey spk, and Offer around it.
Offer(s, spk) ==
  LET new == CreateNewSpk(s.identityKey, spk)
  IN [sess |-> [s EXCEPT !.spk = new.spkPub],
      ok   |-> TRUE,
      msg  |-> [type |-> "offer", uuid |-> s.localUUID, idKey |-> s.identityKey,
                spKey |-> new.spkPub, spSig |-> new.spkSig]]

AckOf(s, offer, ek, cipher) ==
  [type |-> "ack", idKey |-> s.identityKey, eKey |-> ek, uuid |-> offer.uuid,
   cipher |-> cipher]

\* Mutant: the ratchet is kept as it was before the initial ciphertext.
ReceiveOfferStaleRatchet(s, peer, offer, ek, fresh) ==
  LET init == CreateInitialMessage(s.identityKey, offer.idKey, offer.spKey, offer.spSig, ek)
      new  == CreateActive(init.sessKey, init.associatedData, fresh, offer.spKey)
      enc  == Encrypt(new, s.localUUID, NoKey)
  IN IF offer.idKey # peer \/ ~init.ok THEN Failed(s)
     ELSE [sess |-> [s EXCEPT !.remoteUUID = offer.uuid, !.doubleRatchet = new,
                              !.identityKey = NoKey],
           ok   |-> TRUE,
           msg  |-> AckOf(s, offer, init.ekPub, enc.msg)]

\* Mutant: the id in the offer is taken for one's own.
ReceiveOfferLocalUUID(s, peer, offer, ek, fresh) ==
  LET init == CreateInitialMessage(s.identityKey, offer.idKey, offer.spKey, offer.spSig, ek)
      new  == CreateActive(init.sessKey, init.associatedData, fresh, offer.spKey)
      enc  == Encrypt(new, s.localUUID, NoKey)
  IN IF offer.idKey # peer \/ ~init.ok THEN Failed(s)
     ELSE [sess |-> [s EXCEPT !.localUUID = offer.uuid, !.doubleRatchet = enc.dr,
                              !.identityKey = NoKey],
           ok   |-> TRUE,
           msg  |-> AckOf(s, offer, init.ekPub, enc.msg)]

\* ek and fresh are the key pairs CreateInitialMessage and CreateActive make.
\* The initial ciphertext, the first of its chain, always fits its header.
receiveOffer(s, peer, offer, ek, fresh) ==
  LET init == CreateInitialMessage(s.identityKey, offer.idKey, offer.spKey, offer.spSig, ek)
      new  == CreateActive(init.sessKey, init.associatedData, fresh, offer.spKey)
      enc  == Encrypt(new, s.localUUID, NoKey)
  IN IF offer.idKey # peer \/ ~init.ok THEN Failed(s)
     ELSE [sess |-> [s EXCEPT !.remoteUUID = offer.uuid, !.doubleRatchet = enc.dr,
                              !.identityKey = NoKey],
           ok   |-> TRUE,
           msg  |-> AckOf(s, offer, init.ekPub, enc.msg)]

\* Mutant: the id of the ack, which is one's own, is taken for the peer's.
ReceiveAckOwnUUID(s, peer, ack, fresh) ==
  LET init == ReceiveInitialMessage(s.identityKey, ack.idKey, s.spk, ack.eKey)
      new  == CreatePassive(init.sessKey, init.associatedData, s.spk)
      dec  == Decrypt(new, ack.cipher, fresh)
  IN IF Active(s) \/ ack.idKey # peer \/ ~init.ok \/ ~dec.ok THEN Failed(s)
     ELSE [sess |-> [s EXCEPT !.spk = NoKey, !.doubleRatchet = dec.dr,
                              !.remoteUUID = ack.uuid, !.identityKey = NoKey],
           ok   |-> TRUE, msg |-> NoReply]

\* A ciphertext that does not open leaves the new ratchet and no prekey behind.
receiveAck(s, peer, ack, fresh) ==
  LET init == ReceiveInitialMessage(s.identityKey, ack.idKey, s.spk, ack.eKey)
      new  == CreatePassive(init.sessKey, init.associatedData, s.spk)
      dec  == Decrypt(new, ack.cipher, fresh)
      left == [s EXCEPT !.spk = NoKey, !.doubleRatchet = dec.dr]
  IN CASE Active(s) \/ ack.idKey # peer \/ ~init.ok -> Failed(s)
       [] ~(Active(s) \/ ack.idKey # peer \/ ~init.ok) /\ ~dec.ok -> Failed(left)
       [] OTHER -> [sess |-> [left EXCEPT !.remoteUUID = ack.cipher.body,
                                          !.identityKey = NoKey],
                    ok   |-> TRUE, msg |-> NoReply]

\* The ratchet moves even if the payload does not open.
receiveData(s, data, fresh) ==
  LET dec == Decrypt(s.doubleRatchet, data.payload, fresh)
  IN IF ~Active(s) THEN Failed(s)
     ELSE [sess |-> [s EXCEPT !.doubleRatchet = dec.dr], ok |-> dec.ok, msg |-> NoReply]

\* The id in the data message has its time overwritten; receivers look only at
\* the rest of it, which is what remoteUUID stands for.
sessSend(s, body, fresh) ==
  LET enc == Encrypt(s.doubleRatchet, body, fresh)
      new == [s EXCEPT !.doubleRatchet = enc.dr]
  IN IF ~Active(s) THEN Failed(s)
     ELSE IF ~enc.ok THEN Failed(new)
     ELSE [sess |-> new, ok |-> TRUE,
           msg  |-> [type |-> "data", uuid |-> s.remoteUUID, payload |-> enc.msg]]

\* IdentityKey and the two ids stay as they are.
sessClose(s) ==
  [sess |-> [s EXCEPT !.spk = NoKey, !.doubleRatchet = NoRatchet],
   ok   |-> TRUE, msg |-> [type |-> "close", uuid |-> s.remoteUUID]]
=============================================================================
