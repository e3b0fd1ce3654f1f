--------------------------- MODULE StoredRatchet ---------------------------
(***************************************************************************)
(* Two clients that keep their ratchets in files.  Every Send and every    *)
(* message read from the inbox loads the session (DiskSessionManager.Get), *)
(* works on the copy and writes it back (Put) unless an error came first.  *)
(*                                                                         *)
(* The inbox of a client is a topic of the message bus: a log that the     *)
(* client reads by position.  The position is written to disk only by      *)
(* DiskSessionManager.Close, so that a client that dies reads again what   *)
(* it had read since.  Both clients start after a handshake and an orderly *)
(* exit; inboxes and positions are counted from there.                     *)
(***************************************************************************)
EXTENDS Ratchet

CONSTANTS
  MaxSend,     \* bound on the Send calls of both clients together
  MaxFaults,   \* bound on lost and half-done posts
  MaxExits,    \* bound on orderly exits
  MaxCrashes   \* bound on crashes

ASSUME BoundsAssumption == {MaxSend, MaxFaults, MaxExits, MaxCrashes} \subseteq Nat

VARIABLES
  file,        \* file[p]: the ratchet in the session file of p
  inbox,       \* inbox[p]: the log of ciphertexts posted to p
  pos,         \* pos[p]: how much of it p has read (Position in memory)
  savedPos,    \* savedPos[p]: the Position on disk
  opened,      \* opened[p]: positions whose ciphertext was decrypted and saved
  shown,       \* shown[p]: positions handed to the OnMessageReceived handlers
  confirmed,   \* confirmed[p]: the ciphertexts whose Send by p returned nil
  calls,       \* calls[p]: how often p called Send; names the plaintexts
  nextKey,     \* the name of the next key pair that gets into a file
  faults, exits, crashes     \* for the bounds

vars == <<file, inbox, pos, savedPos, opened, shown, confirmed, calls, nextKey,
          faults, exits, crashes>>

\* The handshake: Alice's first ciphertext travels in the ack, and Bob reads it.
AckMsg == Encrypt(CreateActive(SessKey, AD, AliceKey, BobKey), 0, NoKey)
AckRead == Decrypt(CreatePassive(SessKey, AD, BobKey), AckMsg.msg, 3)

Init ==
  /\ file = [p \in Party |-> IF p = Alice THEN AckMsg.dr ELSE AckRead.dr]
  /\ inbox = [p \in Party |-> << >>]
  /\ pos = [p \in Party |-> 0]
  /\ savedPos = [p \in Party |-> 0]
  /\ opened = [p \in Party |-> {}]
  /\ shown = [p \in Party |-> << >>]
  /\ confirmed = [p \in Party |-> {}]
  /\ calls = [p \in Party |-> 0]
  /\ nextKey = 4
  /\ faults = 0
  /\ exits = 0
  /\ crashes = 0

-----------------------------------------------------------------------------
\* Client.Send up to the post: the session is loaded and the text encrypted.
Sealing(p) == Encrypt(Restored(file[p]), calls[p] + 1, nextKey)

Sending(p) ==
  /\ calls[p] + calls[Peer(p)] < MaxSend
  /\ calls' = [calls EXCEPT ![p] = @ + 1]
  /\ UNCHANGED <<pos, savedPos, opened, shown, nextKey, exits, crashes>>

Posted(p, m) == inbox' = [inbox EXCEPT ![Peer(p)] = Append(@, m)]

Put(p, d) == file' = [file EXCEPT ![p] = d]

\* Mutant: the session is not written back.
SendWithoutPut(p) ==
  /\ Sending(p)
  /\ Sealing(p).ok
  /\ Posted(p, Sealing(p).msg)
  /\ confirmed' = [confirmed EXCEPT ![p] = @ \cup {Sealing(p).msg}]
  /\ UNCHANGED <<file, faults>>

\* Posted, saved, and nil returned.
Send(p) ==
  /\ Sending(p)
  /\ Sealing(p).ok
  /\ Posted(p, Sealing(p).msg)
  /\ Put(p, Sealing(p).dr)
  /\ confirmed' = [confirmed EXCEPT ![p] = @ \cup {Sealing(p).msg}]
  /\ UNCHANGED faults

\* Encrypt returned an error: nothing is posted, nothing is saved.
SendRefused(p) ==
  /\ Sending(p)
  /\ ~Sealing(p).ok
  /\ UNCHANGED <<file, inbox, confirmed, faults>>

\* The bus answered, but with a status that says it did not store the message:
\* sendMsg does not look at the status, and Send goes on as if it had.
SendDropped(p) ==
  /\ Sending(p)
  /\ Sealing(p).ok
  /\ faults < MaxFaults
  /\ faults' = faults + 1
  /\ Put(p, Sealing(p).dr)
  /\ confirmed' = [confirmed EXCEPT ![p] = @ \cup {Sealing(p).msg}]
  /\ UNCHANGED inbox

\* The bus stored the message, but its answer was lost or p died before Put.
SendUnsaved(p) ==
  /\ Sending(p)
  /\ Sealing(p).ok
  /\ faults < MaxFaults
  /\ faults' = faults + 1
  /\ Posted(p, Sealing(p).msg)
  /\ UNCHANGED <<file, confirmed>>

-----------------------------------------------------------------------------
Opening(p, i) == Decrypt(Restored(file[p]), inbox[p][i], nextKey)

Generated(d) == IF d.dhPub = nextKey THEN nextKey + 1 ELSE nextKey

\* The subscription hands p the next message, and the position moves.
Read(p) ==
  /\ pos[p] < Len(inbox[p])
  /\ pos' = [pos EXCEPT ![p] = @ + 1]

\* Mutant: the ratchet is saved even if the message did not open.
InputSavingAlways(p) ==
  LET i == pos[p] + 1
      r == Opening(p, i)
  IN /\ Read(p)
     /\ Put(p, r.dr)
     /\ IF r.ok
        THEN /\ opened' = [opened EXCEPT ![p] = @ \cup {i}]
             /\ shown' = [shown EXCEPT ![p] = Append(@, i)]
        ELSE UNCHANGED <<opened, shown>>
     /\ nextKey' = Generated(r.dr)
     /\ UNCHANGED <<inbox, savedPos, confirmed, calls, faults, exits, crashes>>

\* Mutant: the session is not written back.
InputWithoutPut(p) ==
  LET i == pos[p] + 1
      r == Opening(p, i)
  IN /\ Read(p)
     /\ IF r.ok
        THEN /\ opened' = [opened EXCEPT ![p] = @ \cup {i}]
             /\ shown' = [shown EXCEPT ![p] = Append(@, i)]
        ELSE UNCHANGED <<opened, shown>>
     /\ nextKey' = Generated(r.dr)
     /\ UNCHANGED <<file, inbox, savedPos, confirmed, calls, faults, exits, crashes>>

\* handleRatchet for that message; one that does not open leaves the file alone.
\* A key pair that Decrypt generated before it failed is gone with the copy of
\* the ratchet, so that the next new pair can have its name.
Input(p) ==
  LET i == pos[p] + 1
      r == Opening(p, i)
  IN /\ Read(p)
     /\ IF r.ok
        THEN /\ Put(p, r.dr)
             /\ opened' = [opened EXCEPT ![p] = @ \cup {i}]
             /\ shown' = [shown EXCEPT ![p] = Append(@, i)]
             /\ nextKey' = Generated(r.dr)
        ELSE UNCHANGED <<file, opened, shown, nextKey>>
     /\ UNCHANGED <<inbox, savedPos, confirmed, calls, faults, exits, crashes>>

\* Restart without DiskSessionManager.Close: the position on disk is older.
Restart(p) ==
  /\ crashes < MaxCrashes
  /\ crashes' = crashes + 1
  /\ pos' = [pos EXCEPT ![p] = savedPos[p]]
  /\ UNCHANGED <<inbox, savedPos, shown, confirmed, calls, faults, exits>>

Crash(p) == Restart(p) /\ UNCHANGED <<file, opened, nextKey>>

\* p dies after Put and before the handlers ran.
InputCrash(p) ==
  LET i == pos[p] + 1
      r == Opening(p, i)
  IN /\ i <= Len(inbox[p])
     /\ r.ok
     /\ Put(p, r.dr)
     /\ opened' = [opened EXCEPT ![p] = @ \cup {i}]
     /\ nextKey' = Generated(r.dr)
     /\ Restart(p)

\* Mutant: the position after the next message is saved.
CloseOffByOne(p) ==
  /\ exits < MaxExits
  /\ exits' = exits + 1
  /\ savedPos' = [savedPos EXCEPT ![p] = pos[p] + 1]
  /\ UNCHANGED <<file, inbox, pos, opened, shown, confirmed, calls, nextKey,
                 faults, crashes>>

\* DiskSessionManager.Close at an orderly exit; Load reads the same position.
Close(p) ==
  /\ exits < MaxExits
  /\ exits' = exits + 1
  /\ savedPos' = [savedPos EXCEPT ![p] = pos[p]]
  /\ UNCHANGED <<file, inbox, pos, opened, shown, confirmed, calls, nextKey,
                 faults, crashes>>

Next ==
  \E p \in Party :
    \/ Send(p) \/ SendRefused(p) \/ SendDropped(p) \/ SendUnsaved(p)
    \/ Input(p) \/ InputCrash(p) \/ Crash(p) \/ Close(p)

\* The subscription goes on as long as there are messages; only Input moves a
\* position forward, and it can whenever Read can.
Spec == Init /\ [][Next]_vars /\ \A p \in Party : WF_pos(Read(p))

-----------------------------------------------------------------------------
\* The session files hold ratchets, the inboxes ciphertexts, and the positions
\* lie within the inboxes, whatever Send, handleRatchet and restarts do.
TypeOK ==
  /\ file \in [Party -> Ratchets]
  /\ inbox \in [Party -> Seq(Messages)]
  /\ pos \in [Party -> Nat] /\ savedPos \in [Party -> Nat]
  /\ opened \in [Party -> SUBSET Nat] /\ shown \in [Party -> Seq(Nat)]
  /\ confirmed \in [Party -> SUBSET Messages]
  /\ calls \in [Party -> 0 .. MaxSend]
  /\ \A p \in Party :
       /\ pos[p] <= Len(inbox[p]) /\ savedPos[p] <= Len(inbox[p])
       /\ opened[p] \subseteq 1 .. Len(inbox[p])
       /\ shown[p] \in Seq(opened[p])
  /\ nextKey \in Nat
  /\ faults \in 0 .. MaxFaults
  /\ exits \in 0 .. MaxExits
  /\ crashes \in 0 .. MaxCrashes

\* An earlier message of the inbox was sealed with the same key: the Send that
\* posted it did not get to save the ratchet.
Shadowed(p, i) == \E j \in 1 .. i - 1 : inbox[p][j].key = inbox[p][i].key

\* The file of the receiver follows the chain in the file of the sender, and is
\* ahead of it by at most the one message whose Send could not save the ratchet.
FilesAgree ==
  \A p \in Party :
    LET mine == file[p].chainKeyRecv
        theirs == file[Peer(p)].chainKeySend
    IN file[p].peerDhPub = file[Peer(p)].dhPub
         => mine.root = theirs.root /\ mine.n <= theirs.n + 1

\* No two texts for which Client.Send returned nil are sealed with one key,
\* though a Send that failed half-way leaves its key to the next one.
ConfirmedKeysUnique ==
  \A p, q \in Party : \A m \in confirmed[p], w \in confirmed[q] :
    m.key = w.key => p = q /\ m = w

\* The next message of an inbox opens when it is read for the first time, after
\* whatever losses, restarts and repeated reads: the copies of the ratchet that
\* a failed Decrypt has spoilt never get into the file.
FirstReadSucceeds ==
  \A p \in Party : LET i == pos[p] + 1 IN
    /\ i <= Len(inbox[p])
    /\ i \notin opened[p]
    /\ ~Shadowed(p, i)
    /\ InWindow(Restored(file[p]), inbox[p][i])
    => Opening(p, i).ok

\* What was decrypted and saved once is never decrypted again, wherever a
\* restart makes the client resume.
OpenedOnce ==
  \A p \in Party : \A i \in opened[p] : ~Opening(p, i).ok

\* The two clients together implement lossy, ordered, at-most-once delivery.
D == INSTANCE Delivery WITH Reader <- Party,
                            posted <- [p \in Party |-> Len(inbox[p])]
DeliverySpec == D!Spec

\* Every message in an inbox is opened sooner or later, unless an earlier one
\* was sealed with its key, as long as fewer posts are lost than skipMsgKeys
\* can bridge (handleRatchet under a subscription that goes on).
EventuallyOpened ==
  MaxFaults <= MaxSkipElements =>
    \A p \in Party : \A i \in 1 .. MaxSend :
      (i <= Len(inbox[p]) /\ ~Shadowed(p, i)) ~> (i \in opened[p])

-----------------------------------------------------------------------------
(* What the documentation says and the stored ratchet does not do. *)

\* "A buffer to allow skipping lost or out-of-order messages is implemented to
\* support up to eight previous chains": the keys in the file are those that
\* UnmarshalBinary brings back.
SkippedKeysSurvive ==
  \A p \in Party : \A k \in 1 .. nextKey, n \in HeaderNos :
    Cached(file[p].msgKeyBuffer, k, n) => Cached(Restored(file[p]).msgKeyBuffer, k, n)
=============================================================================
