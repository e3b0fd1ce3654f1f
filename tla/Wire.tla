-------------------------------- MODULE Wire --------------------------------
(***************************************************************************)
(* What becomes of one message between the method of xochimilco.Session    *)
(* that makes it and the session file of the client that reads it: padding *)
(* and encryption of the plaintext, the header, the four message structs,  *)
(* the sealed envelope, the text posted to the message bus, and all of it  *)
(* in reverse.                                                             *)
(*                                                                         *)
(* A byte string is a sequence of numbers.  Ciphertext is symbolic: a byte *)
(* b encrypted with key number k is the number 256 * k + b, so that        *)
(* ciphertext keeps its length and is never mistaken for plaintext.  That  *)
(* both sides use the same message key is the subject of DoubleRatchet.    *)
(***************************************************************************)
EXTENDS Integers, Sequences

CONSTANTS
  KeyLen,        \* bytes of a public key, 32
  SigLen,        \* bytes of a signature, 64
  TimeLen,       \* bytes of the time in a ulid.ULID, 6
  EntropyLen,    \* bytes of the entropy in a ulid.ULID, 10
  RandomLen,     \* random bytes in the first payload, 7
  BlockSize,     \* aes.BlockSize, 16
  MacLen,        \* sha256.Size, 32
  BoxLen,        \* bytes that box.SealAnonymous adds, 48
  Uuids, Keys, Sigs, Nicks, Plaintexts, Times, Numbers   \* the inputs

Byte == 0 .. 255
UUIDLen == TimeLen + EntropyLen

IsUint16(n) == n \in Nat /\ n < 256 * 256

ASSUME LengthsAssumption ==
  /\ {KeyLen, SigLen, TimeLen, EntropyLen, MacLen, BoxLen} \subseteq Nat \ {0}
  /\ RandomLen \in Nat
  /\ BlockSize \in 1 .. 255
ASSUME InputsAssumption ==
  /\ \A u \in Uuids : u \in Seq(Byte) /\ Len(u) = UUIDLen
  /\ \A k \in Keys : k \in Seq(Byte) /\ Len(k) = KeyLen
  /\ \A s \in Sigs : s \in Seq(Byte) /\ Len(s) = SigLen
  /\ \A t \in Times : t \in Seq(Byte) /\ Len(t) = TimeLen
  /\ Nicks \subseteq Seq(Byte) /\ Plaintexts \subseteq Seq(Byte)
  /\ \A n \in Numbers : IsUint16(n)

-----------------------------------------------------------------------------
(* Slices *)

\* data[from:to]
Slice(data, from, to) == [i \in 1 .. to - from |-> data[from + i]]

\* copy into w fresh bytes: cut off, or filled up with zeros.
Field(data, w) == [i \in 1 .. w |-> IF i <= Len(data) THEN data[i] ELSE 0]

Repeat(b, n) == [i \in 1 .. n |-> b]

Failed == [type |-> "error"]

-----------------------------------------------------------------------------
(* pkcs7.go *)

\* Mutant: no padding if the data is aligned.
PadUnlessAligned(data, blockSize) ==
  LET padLen == (blockSize - (Len(data) % blockSize)) % blockSize
  IN data \o Repeat(padLen, padLen)

pkcs7Pad(data, blockSize) ==
  LET padLen == blockSize - (Len(data) % blockSize)
  IN data \o Repeat(padLen, padLen)

\* The checks of pkcs7Unpad, in their order.
Padded(data, blockSize) ==
  /\ Len(data) % blockSize = 0 /\ Len(data) # 0
  /\ LET padLen == data[Len(data)] IN
     /\ padLen # 0 /\ padLen <= blockSize
     /\ Slice(data, Len(data) - padLen, Len(data)) = Repeat(padLen, padLen)

Unpadded(data) == Slice(data, 0, Len(data) - data[Len(data)])

-----------------------------------------------------------------------------
(* msg_header.go *)

headerLen == KeyLen + 2 + 2

\* binary.BigEndian
PutUint16(n) == <<(n \div 256) % 256, n % 256>>
Uint16(data) == 256 * data[1] + data[2]

headerMarshal(h) == Field(h.dhPub, KeyLen) \o (PutUint16(h.prevNo) \o PutUint16(h.msgNo))

parseHeader(data) ==
  [dhPub  |-> Slice(data, 0, KeyLen),
   prevNo |-> Uint16(Slice(data, KeyLen, KeyLen + 2)),
   msgNo  |-> Uint16(Slice(data, KeyLen + 2, KeyLen + 2 + 2))]

-----------------------------------------------------------------------------
(* encrypt and decrypt of primitives.go, inside Encrypt and Decrypt; the key *)
(* has number 1.                                                             *)

CryptBlocks(data) == [i \in DOMAIN data |-> 256 + data[i]]
DecryptBlocks(data) == [i \in DOMAIN data |-> data[i] - 256]
Mac == Repeat(511, MacLen)

Encrypt(h, plaintext) ==
  headerMarshal(h) \o (CryptBlocks(pkcs7Pad(plaintext, BlockSize)) \o Mac)

Decrypt(data) ==
  LET h         == parseHeader(data)
      body      == Slice(data, headerLen, Len(data))
      aesCipher == Slice(body, 0, Len(body) - MacLen)
      padded    == DecryptBlocks(aesCipher)
  IN IF /\ Len(data) > headerLen
        /\ Len(body) >= MacLen
        /\ Len(aesCipher) % BlockSize = 0
        /\ Padded(padded, BlockSize)
        /\ Slice(body, Len(aesCipher), Len(body)) = Mac
     THEN [type |-> "opened", header |-> h, plaintext |-> Unpadded(padded)]
     ELSE Failed

-----------------------------------------------------------------------------
(* message.go: MarshalBinary and UnmarshalBinary of the message structs *)

offerLen == KeyLen + KeyLen + SigLen + UUIDLen
ackLen == KeyLen + KeyLen + UUIDLen

MarshalBinary(m) ==
  CASE m.type = "offer" ->
         Field(m.idKey, KeyLen) \o (Field(m.spKey, KeyLen) \o
         (Field(m.spSig, SigLen) \o (Field(m.uuid, UUIDLen) \o m.nick)))
    [] m.type = "ack" ->
         Field(m.idKey, KeyLen) \o (Field(m.eKey, KeyLen) \o
         (Field(m.uuid, UUIDLen) \o m.cipher))
    [] m.type \in {"data", "close"} -> Field(m.uuid, UUIDLen) \o m.payload

offerUnmarshal(data) ==
  IF Len(data) < offerLen THEN Failed
  ELSE [type  |-> "offer",
        idKey |-> Slice(data, 0, KeyLen),
        spKey |-> Slice(data, KeyLen, KeyLen + KeyLen),
        spSig |-> Slice(data, KeyLen + KeyLen, KeyLen + KeyLen + SigLen),
        uuid  |-> Slice(data, KeyLen + KeyLen + SigLen, offerLen),
        nick  |-> Slice(data, offerLen, Len(data))]

ackUnmarshal(data) ==
  IF Len(data) <= ackLen THEN Failed
  ELSE [type   |-> "ack",
        idKey  |-> Slice(data, 0, KeyLen),
        eKey   |-> Slice(data, KeyLen, KeyLen + KeyLen),
        uuid   |-> Slice(data, KeyLen + KeyLen, ackLen),
        cipher |-> Slice(data, ackLen, Len(data))]

\* dataMessage and closeMessage
payloadUnmarshal(t, data) ==
  IF Len(data) <= UUIDLen THEN Failed
  ELSE [type    |-> t,
        uuid    |-> Slice(data, 0, UUIDLen),
        payload |-> Slice(data, UUIDLen, Len(data))]

\* The payload of every closeMessage.
closePayload == <<255>>

closeUnmarshal(data) ==
  LET m == payloadUnmarshal("close", data)
  IN IF m.type = "close" /\ m.payload = closePayload THEN m ELSE Failed

sealedUnmarshal(data) ==
  IF Len(data) <= 1 THEN Failed ELSE [type |-> "sealed", box |-> data]

\* messageType, and the digit that stands for it in a text
messageType(m) ==
  CASE m.type = "offer" -> 1 [] m.type = "ack" -> 2 [] m.type = "data" -> 3
    [] m.type = "close" -> 4 [] m.type = "sealed" -> 5

Digit(t) == 48 + t

\* container, and UnmarshalBinary of what it returns
Unmarshal(t, data) ==
  CASE t = 1 -> offerUnmarshal(data)
    [] t = 2 -> ackUnmarshal(data)
    [] t = 3 -> payloadUnmarshal("data", data)
    [] t = 4 -> closeUnmarshal(data)
    [] t = 5 -> sealedUnmarshal(data)
    [] OTHER -> Failed

\* The anonymous box for a key pair; keyNo names it in each byte it adds.
SealAnonymous(keyNo, data) == Repeat(256 * keyNo, BoxLen) \o data

OpenAnonymous(box) == Slice(box, BoxLen, Len(box))

Seal(m, keyNo) ==
  [type |-> "sealed",
   box  |-> SealAnonymous(keyNo, <<Digit(messageType(m))>> \o MarshalBinary(m))]

Unseal(m, keyNo) ==
  IF Len(m.box) < BoxLen \/ m.box[1] # 256 * keyNo THEN Failed
  ELSE LET data == OpenAnonymous(m.box)
       IN Unmarshal(data[1] - 48, Slice(data, 1, Len(data)))

\* The text between Prefix and Suffix; base64 loses nothing.
marshalMessage(m) ==
  [prefix |-> "!RAT!", digit |-> Digit(messageType(m)),
   base64 |-> IF m.type = "sealed" THEN m.box ELSE MarshalBinary(m),
   suffix |-> "!CHT!"]

unmarshalMessage(text) ==
  IF text.prefix = "!RAT!" /\ text.suffix = "!CHT!"
  THEN Unmarshal(text.digit - 48, text.base64)
  ELSE Failed

-----------------------------------------------------------------------------
(* Session ids *)

\* Mutant: the time moves into the entropy.
EncTimeShifted(id, now) ==
  [i \in 1 .. UUIDLen |-> IF i \in 2 .. TimeLen + 1 THEN now[i - 1] ELSE Field(id, UUIDLen)[i]]

\* encTime: the first bytes of an id are set to the current time.
encTime(id, now) ==
  [i \in 1 .. UUIDLen |-> IF i <= TimeLen THEN now[i] ELSE Field(id, UUIDLen)[i]]

\* sessionhash of toULID(id), for the client that owns the file; a hash is as
\* good as what it is taken of.
sessionhash(id) == Slice(Field(id, UUIDLen), TimeLen, UUIDLen)

-----------------------------------------------------------------------------
(* One message.  op is the method that makes it and s what it makes it from; *)
(* remoteUUID is the id of the session of the reader, nil before the ack.    *)

VARIABLES
  op, s,
  now,      \* the clock when the message is made
  text,     \* what is posted to the bus
  got       \* what the reader made of it so far

vars == <<op, s, now, text, got>>

NoText == [prefix |-> "", digit |-> 0, base64 |-> << >>, suffix |-> ""]
Nothing == [type |-> "none"]

ReaderKey == 2      \* the key pair a sealed offer is for

Headers == [dhPub : Keys, prevNo : Numbers, msgNo : Numbers]

\* What a Session can be asked to make a message from.
Inputs ==
  /\ op \in {"Offer", "OfferSealed", "Acknowledge", "Send", "Close"}
  /\ s \in [localUUID : Uuids, remoteUUID : Uuids \cup {<< >>},
            idKey : Keys, key : Keys, sig : Sigs \cup {<< >>}, me : Nicks \cup {<< >>},
            header : Headers \cup {Nothing}, plaintext : Plaintexts \cup {<< >>}]
  /\ op \in {"Acknowledge", "Send"} <=> s.header # Nothing
  /\ op \in {"Offer", "OfferSealed"} => s.remoteUUID = << >>
  /\ op \in {"Acknowledge", "Send"} => s.remoteUUID # << >>
  /\ op \in {"Offer", "OfferSealed"} <=> s.sig # << >>
  /\ op \in {"Acknowledge", "Send", "Close"} => s.me = << >>
  /\ op \in {"Offer", "OfferSealed", "Close"} => s.plaintext = << >>
  /\ op = "Acknowledge" => Len(s.plaintext) = RandomLen
  /\ now \in Times

Init ==
  /\ Inputs
  /\ text = NoText
  /\ got = Nothing

createOffer ==
  [type |-> "offer", idKey |-> s.idKey, spKey |-> s.key, spSig |-> s.sig,
   uuid |-> s.localUUID, nick |-> s.me]

\* The plaintext in an ack: the id of the session that acknowledges, then noise.
InitialPayload == Field(s.localUUID, UUIDLen) \o s.plaintext

Made ==
  CASE op = "Offer" -> createOffer
    [] op = "OfferSealed" -> Seal(createOffer, ReaderKey)
    [] op = "Acknowledge" ->
         [type |-> "ack", idKey |-> s.idKey, eKey |-> s.key, uuid |-> s.remoteUUID,
          cipher |-> Encrypt(s.header, InitialPayload)]
    [] op = "Send" ->
         [type |-> "data", uuid |-> encTime(s.remoteUUID, now),
          payload |-> Encrypt(s.header, s.plaintext)]
    [] op = "Close" -> [type |-> "close", uuid |-> s.remoteUUID, payload |-> closePayload]

Post ==
  /\ text = NoText
  /\ text' = marshalMessage(Made)
  /\ UNCHANGED <<op, s, now, got>>

\* readMsg
Parse ==
  /\ text # NoText /\ got = Nothing
  /\ got' = unmarshalMessage(text)
  /\ UNCHANGED <<op, s, now, text>>

OpenSealed ==
  /\ got.type = "sealed"
  /\ got' = Unseal(got, ReaderKey)
  /\ UNCHANGED <<op, s, now, text>>

\* receiveAck and receiveData call Decrypt.
OpenCipher ==
  /\ got.type \in {"ack", "data"}
  /\ got' = LET r == Decrypt(IF got.type = "ack" THEN got.cipher ELSE got.payload)
            IN IF r.type = "opened"
               THEN [type |-> "opened", of |-> got, header |-> r.header,
                     plaintext |-> r.plaintext]
               ELSE Failed
  /\ UNCHANGED <<op, s, now, text>>

Next == Post \/ Parse \/ OpenSealed \/ OpenCipher

Spec == Init /\ [][Next]_vars

-----------------------------------------------------------------------------
\* The reader is at one of the stages of unmarshalMessage, Unseal and Decrypt.
TypeOK ==
  /\ text = NoText \/ text = marshalMessage(Made)
  /\ got.type \in {"none", "offer", "ack", "close", "data", "sealed", "opened"}

\* No message that a Session makes is refused on the way to Session.ReceiveMsg,
\* and the reader ends up with what the writer put in: the fields of the offer,
\* sealed or not, header and plaintext of a text of any length, the keys of an
\* ack and, as the first bytes of its plaintext (RemoteUUID = plaintext[:16]),
\* the id of the session that acknowledged.
PathFaithful ==
  /\ got.type # "error"
  /\ got.type = "offer" => got = createOffer
  /\ got.type = "opened" =>
       /\ got.header = s.header
       /\ op = "Send" => got.plaintext = s.plaintext
       /\ op = "Acknowledge" =>
            /\ got.of.idKey = s.idKey /\ got.of.eKey = s.key
            /\ Slice(got.plaintext, 0, UUIDLen) = s.localUUID

Id(m) == IF m.type = "opened" THEN m.of.uuid ELSE m.uuid

\* An ack, a text or a close leads to the session file of the reader's session,
\* though encTime has put the current time into the id of a text; an offer tells
\* the id under which its maker will look for the answer.  A close sent before
\* the ack names no session: its id is all zeros.
Routed ==
  got.type \in {"offer", "ack", "data", "close", "opened"} =>
    sessionhash(Id(got)) =
      IF got.type = "offer" THEN sessionhash(s.localUUID)
      ELSE IF s.remoteUUID = << >> THEN Repeat(0, EntropyLen)
      ELSE sessionhash(s.remoteUUID)
=============================================================================
