------------------------------- MODULE X3DH -------------------------------
(***************************************************************************)
(* Package x3dh as operators.  Identity keys, signed prekeys (SPK) and     *)
(* ephemeral keys (EK) are key pairs as in Ratchet; the session key that   *)
(* kdf derives is named by the three secrets it is derived from, in order. *)
(***************************************************************************)
EXTENDS Ratchet

\* A new prekey pair spk, its public part signed by the identity key.
CreateNewSpk(idKey, spk) ==
  [spkPub |-> spk, spkSig |-> [by |-> idKey, of |-> spk]]

Verify(idKey, spkPub, spkSig) == spkSig = [by |-> idKey, of |-> spkPub]

\* ek is the ephemeral key pair generated on the way.
CreateInitialMessage(idKey, peerIdKey, spkPub, spkSig, ek) ==
  [ok |-> Verify(peerIdKey, spkPub, spkSig),
   sessKey |-> <<dh(idKey, spkPub), dh(ek, peerIdKey), dh(ek, spkPub)>>,
   associatedData |-> <<idKey, peerIdKey>>,
   ekPub |-> ek]

\* Mutant: the associated data in the order of the caller.
ReceiveInitialMessageOwnFirst(idKey, peerIdKey, spkPriv, ekPub) ==
  [ok |-> spkPriv # NoKey,
   sessKey |-> <<dh(spkPriv, peerIdKey), dh(idKey, ekPub), dh(spkPriv, ekPub)>>,
   associatedData |-> <<idKey, peerIdKey>>]

\* Mutant: the first two secrets swapped.
ReceiveInitialMessageSwapped(idKey, peerIdKey, spkPriv, ekPub) ==
  [ok |-> spkPriv # NoKey,
   sessKey |-> <<dh(idKey, ekPub), dh(spkPriv, peerIdKey), dh(spkPriv, ekPub)>>,
   associatedData |-> <<peerIdKey, idKey>>]

\* X25519 refuses a nil prekey.
ReceiveInitialMessage(idKey, peerIdKey, spkPriv, ekPub) ==
  [ok |-> spkPriv # NoKey,
   sessKey |-> <<dh(spkPriv, peerIdKey), dh(idKey, ekPub), dh(spkPriv, ekPub)>>,
   associatedData |-> <<peerIdKey, idKey>>]
=============================================================================
