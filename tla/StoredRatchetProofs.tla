------------------------ MODULE StoredRatchetProofs ------------------------
(***************************************************************************)
(* Theorems about StoredRatchet: every safety property of it, and that it  *)
(* implements Delivery, for every size of the key buffer, of the skip      *)
(* window and of the header fields, and for any number of sends, faults,   *)
(* exits and crashes.                                                      *)
(***************************************************************************)
EXTENDS StoredRatchetInv

USE SMTT(30), ZenonT(60)

-----------------------------------------------------------------------------
(* The steps of a client *)

\* handleRatchet with a message that opened: the position is then at, and what
\* the handlers have been shown is seen, whether or not the client died before.
OpensNext(p, at, seen) ==
  LET i == pos[p] + 1
      r == Opening(p, i)
  IN /\ i <= Len(inbox[p]) /\ r.ok
     /\ file' = [file EXCEPT ![p] = r.dr]
     /\ opened' = [opened EXCEPT ![p] = @ \cup {i}]
     /\ nextKey' = Generated(r.dr)
     /\ at = i \/ at = savedPos[p]
     /\ pos' = [pos EXCEPT ![p] = at]
     /\ seen = shown[p] \/ seen = Append(shown[p], i)
     /\ shown' = [shown EXCEPT ![p] = seen]
     /\ UNCHANGED <<inbox, savedPos, confirmed, calls, faults, exits>>
     /\ crashes' \in 0 .. MaxCrashes

\* A message that handleRatchet decrypted and saved keeps the files in step, and
\* nothing before it will open any more.
LEMMA OpenInv ==
  ASSUME IInv, NEW p \in Party, NEW at, NEW seen, OpensNext(p, at, seen)
  PROVE  IInv'
<1>. PICK i, r : i = pos[p] + 1 /\ r = Opening(p, i)
  OBVIOUS
<1>. PICK q, m, e, o : q = Peer(p) /\ m = inbox[p][i] /\ e = Epoch(file[p]) /\ o = Epoch(file[q])
  OBVIOUS
<1>k. i <= Len(inbox[p]) /\ r.ok
  BY ZenonT(60) DEF OpensNext
<1>s. /\ file' = [file EXCEPT ![p] = r.dr]
      /\ opened' = [opened EXCEPT ![p] = @ \cup {i}]
      /\ nextKey' = Generated(r.dr)
      /\ at = i \/ at = savedPos[p]
      /\ pos' = [pos EXCEPT ![p] = at]
      /\ seen = shown[p] \/ seen = Append(shown[p], i)
      /\ shown' = [shown EXCEPT ![p] = seen]
      /\ UNCHANGED <<inbox, savedPos, confirmed, calls, faults, exits>>
      /\ crashes' \in 0 .. MaxCrashes
  BY ZenonT(60) DEF OpensNext
<1>1. /\ q \in Party /\ q # p /\ Peer(q) = p /\ Party = {p, q}
      /\ e \in Nat /\ e >= 1 /\ file[p].dhPub = e + 1 /\ o \in Nat /\ o >= 1
  BY ZenonT(60), InvSound
<1>e. e \in Nat /\ e >= 1 /\ o \in Nat
  BY ZenonT(60), <1>1
<1>2. /\ file \in [Party -> Ratchets] /\ opened \in [Party -> SUBSET Nat]
      /\ shown \in [Party -> Seq(Nat)] /\ pos \in [Party -> Nat] /\ savedPos \in [Party -> Nat]
      /\ inbox[p] \in Seq(Messages) /\ pos[p] \in Nat /\ savedPos[p] \in Nat
      /\ savedPos[p] <= pos[p] /\ opened[p] \subseteq Nat
  BY ZenonT(60) DEF IInv, TypeOK, ReadOnce
<1>3. i \in DOMAIN inbox[p] /\ i \in Nat /\ i >= 1 /\ i \in 1 .. Len(inbox[p])
  BY <1>2, <1>k
<1>4. /\ \A j \in opened[p] : j < i
      /\ Sound(p, r.dr) /\ Skipped(r.dr)
      /\ r.dr.peerDhPub = m.dhPub /\ r.dr.recvNo = m.msgNo + 1
      /\ \/ /\ Epoch(r.dr) = e /\ r.dr.dhPub = file[p].dhPub /\ r.dr.sendNo = file[p].sendNo
         \/ /\ m.dhPub = e + 2 /\ Epoch(r.dr) = e + 2
            /\ r.dr.dhPub = nextKey /\ r.dr.sendNo = 0
      /\ \A v \in Messages : Precedes(v, m) /\ Unreadable(file[p], v) => Unreadable(r.dr, v)
      /\ Unreadable(r.dr, m)
  <2>1. OpensAt(p, i, r, m)
    BY ZenonT(60), <1>3, <1>k, OpenedNext
  <2>. QED BY ZenonT(60), <2>1 DEF OpensAt
<1>5. /\ file'[p] = r.dr /\ file'[q] = file[q] /\ UNCHANGED <<inbox, savedPos, confirmed>>
      /\ opened'[p] = opened[p] \cup {i} /\ opened'[q] = opened[q]
      /\ pos'[p] = at /\ pos'[q] = pos[q] /\ shown'[p] = seen /\ shown'[q] = shown[q]
  BY ZenonT(60), <1>1, <1>2, <1>s
<1>6. at \in Nat /\ at <= i /\ savedPos[p] <= at
  BY <1>2, <1>3, <1>s
<1>7. /\ o = e + 1 \/ e = o + 1
      /\ nextKey = 2 + (IF e > o THEN e ELSE o) /\ nextKey \in Nat
  BY InStep
<1>8. m.dhPub = e + 2 => o = e + 1
  <2>1. m.dhPub <= o + 1
    BY ZenonT(60), <1>3, InboxMessage DEF Genuine
  <2>. QED BY <1>e, <1>7, <2>1
<1>9. TypeOK'
  <2>1. file' \in [Party -> Ratchets]
    BY ZenonT(60), <1>2, <1>4, <1>s DEF Sound
  <2>2. nextKey' \in Nat
    BY <1>7, <1>s DEF Generated
  <2>3. opened' \in [Party -> SUBSET Nat] /\ pos' \in [Party -> Nat]
    BY ZenonT(60), <1>2, <1>3, <1>6, <1>s
  <2>4. opened'[p] \subseteq 1 .. Len(inbox[p]) /\ pos'[p] <= Len(inbox[p])
    <3>1. opened[p] \subseteq 1 .. Len(inbox[p]) /\ savedPos[p] <= Len(inbox[p])
      BY ZenonT(60) DEF IInv, TypeOK
    <3>2. \A n : n \in 1 .. Len(inbox[p]) => n <= Len(inbox[p])
      OBVIOUS
    <3>. QED BY ZenonT(60), <1>3, <1>5, <1>s, <3>1, <3>2
  <2>5. seen \in Seq(opened'[p]) /\ seen \in Seq(Nat)
    <3>1. shown[p] \in Seq(opened[p])
      BY ZenonT(60) DEF IInv, TypeOK
    <3>2. shown[p] \in Seq(opened'[p]) /\ i \in opened'[p] /\ opened'[p] \subseteq Nat
      BY <1>2, <1>3, <1>5, <3>1
    <3>3. CASE seen = shown[p]
      BY ZenonT(60), <1>2, <3>2, <3>3
    <3>4. CASE seen = Append(shown[p], i)
      <4>1. seen \in Seq(opened'[p])
        <5>1. \A S : shown[p] \in Seq(S) /\ i \in S => Append(shown[p], i) \in Seq(S)
          OBVIOUS
        <5>. QED BY ZenonT(60), <3>2, <3>4, <5>1
      <4>2. seen \in Seq(Nat)
        <5>1. shown[p] \in Seq(Nat)
          BY ZenonT(60), <1>2
        <5>. QED BY <1>3, <3>4, <5>1
      <4>. QED BY ZenonT(60), <4>1, <4>2
    <3>. QED BY ZenonT(60), <1>s, <3>3, <3>4
  <2>6. shown' \in [Party -> Seq(Nat)]
    BY ZenonT(60), <1>2, <1>s, <2>5
  <2>7. \A x \in Party : /\ pos'[x] <= Len(inbox[x]) /\ savedPos[x] <= Len(inbox[x])
                         /\ opened'[x] \subseteq 1 .. Len(inbox[x])
                         /\ shown'[x] \in Seq(opened'[x])
    BY ZenonT(60), <1>1, <1>5, <2>4, <2>5 DEF IInv, TypeOK
  <2>. QED BY ZenonT(60), <1>5, <1>s, <2>1, <2>2, <2>3, <2>6, <2>7 DEF IInv, TypeOK
<1>10. Lockstep'
  <2>1. CASE Epoch(r.dr) = e /\ r.dr.dhPub = file[p].dhPub /\ r.dr.sendNo = file[p].sendNo
    <3>1. nextKey' = nextKey
      <4>1. file[p].dhPub = e + 1 /\ e \in Nat /\ o \in Nat /\ nextKey' = Generated(r.dr)
        BY ZenonT(60), <1>1, <1>s
      <4>. QED BY <1>7, <2>1, <4>1 DEF Generated
    <3>2. CASE p = Alice
      BY ZenonT(60), <1>1, <1>5, <2>1, <3>1, <3>2 DEF IInv, Lockstep, Peer
    <3>3. CASE p # Alice
      BY ZenonT(60), <1>1, <1>5, <2>1, <3>1, <3>3 DEF IInv, Lockstep, Peer, Party
    <3>. QED BY ZenonT(60), <3>2, <3>3
  <2>2. CASE m.dhPub = e + 2 /\ Epoch(r.dr) = e + 2 /\ r.dr.dhPub = nextKey
    <3>1. nextKey' = nextKey + 1 /\ o = e + 1 /\ nextKey = 2 + o
      <4>1. o = e + 1 /\ nextKey' = nextKey + 1
        BY ZenonT(60), <1>8, <1>s, <2>2 DEF Generated
      <4>2. ~(e > o)
        BY <1>e, <4>1
      <4>. QED BY ZenonT(60), <1>7, <4>1, <4>2
    <3>2. Epoch(file'[p]) = e + 2 /\ Epoch(file'[q]) = e + 1
      BY ZenonT(60), <1>5, <2>2, <3>1
    <3>3. e + 2 >= 3 /\ e + 1 >= 2 /\ nextKey' = 2 + (e + 2)
      BY <1>e, <3>1
    <3>4. CASE p = Alice
      <4>1. q = Bob
        BY ZenonT(60), <3>4 DEF Peer
      <4>2. e + 2 = (e + 1) + 1 /\ e + 2 > e + 1 /\ e + 2 # 1
        BY <1>e
      <4>. QED BY ZenonT(60), <3>2, <3>3, <3>4, <4>1, <4>2 DEF Lockstep
    <3>5. CASE p # Alice
      <4>1. p = Bob /\ q = Alice
        BY ZenonT(60), <3>5 DEF Peer, Party
      <4>2. e + 2 = (e + 1) + 1 /\ ~(e + 1 > e + 2) /\ e + 1 # 1 /\ e + 1 >= 1
        BY <1>e
      <4>. QED BY ZenonT(60), <3>2, <3>3, <4>1, <4>2 DEF Lockstep
    <3>. QED BY ZenonT(60), <3>4, <3>5
  <2>. QED BY ZenonT(60), <1>4, <2>1, <2>2
<1>11. Filed(p)'
  <2>1. Latest(p, i)'
    BY ZenonT(60), <1>4, <1>5 DEF Latest
  <2>. QED BY ZenonT(60), <1>4, <1>5, <2>1 DEF Filed, LastRead
<1>12. Filed(q)'
  <2>1. Filed(q)
    BY ZenonT(60), <1>1 DEF IInv
  <2>. QED BY ZenonT(60), <1>5, <2>1 DEF Filed, LastRead, Latest
<1>13. \A x : Genuine(q, x) => Genuine(q, x)'
  BY ZenonT(60), <1>5 DEF Genuine
<1>14. \A x \in Messages : /\ Genuine(p, x) => Genuine(p, x)'
                           /\ Kept(p, x) => Kept(p, x)'
  <2>1. \A x \in Messages : x.dhPub \in Nat
    BY ZenonT(60) DEF Messages
  <2>2. CASE Epoch(r.dr) = e /\ r.dr.sendNo = file[p].sendNo
    BY ZenonT(60), <1>5, <2>2 DEF Genuine, Kept
  <2>3. CASE Epoch(r.dr) = e + 2
    <3>1. /\ \A x \in Nat : x <= e + 1 => x <= (e + 2) + 1
          /\ \A x \in Nat : x = (e + 2) + 1 => ~(x <= e + 1)
      BY <1>e
    <3>2. Epoch(file'[p]) = e + 2
      BY ZenonT(60), <1>5, <2>3
    <3>. QED BY ZenonT(60), <2>1, <3>1, <3>2 DEF Genuine, Kept
  <2>. QED BY ZenonT(60), <1>4, <2>2, <2>3
<1>15. Logged(p)'
  <2>1. Logged(p)
    BY ZenonT(60) DEF IInv
  <2>. QED BY ZenonT(60), <1>5, <1>13, <2>1 DEF Logged
<1>16. Logged(q)'
  <2>1. Logged(q) /\ \A j \in DOMAIN inbox[q] : inbox[q][j] \in Messages
    BY ZenonT(60), <1>1, InboxMessage DEF IInv
  <2>. QED BY ZenonT(60), <1>1, <1>5, <1>14, <2>1 DEF Logged
<1>p. ASSUME NEW j \in Nat, Passed(p, j)', j # i
      PROVE  j < i /\ Passed(p, j)
  <2>1. j <= at \/ \E k \in opened[p] \cup {i} : j <= k
    BY ZenonT(60), <1>5, <1>p DEF Passed
  <2>2. j <= i
    <3>1. \A k \in opened[p] : k \in Nat /\ k < i
      BY ZenonT(60), <1>2, <1>4
    <3>. QED BY <1>3, <1>6, <2>1, <3>1
  <2>3. j < i /\ j <= pos[p]
    BY <1>2, <1>3, <1>p, <2>2
  <2>. QED BY ZenonT(60), <2>3 DEF Passed
<1>17. ReadOnce(p)'
  <2>1. \A j \in DOMAIN inbox[p] : Passed(p, j)' => j = i \/ (j < i /\ Passed(p, j))
    <3>1. \A j \in DOMAIN inbox[p] : j \in Nat
      BY <1>2
    <3>. QED BY ZenonT(60), <1>p, <3>1
  <2>2. \A j \in DOMAIN inbox[p] : j < i /\ Passed(p, j) => Unreadable(r.dr, inbox[p][j])
    <3>1. \A j \in DOMAIN inbox[p] : j < i => Precedes(inbox[p][j], m)
      BY ZenonT(60), <1>3 DEF IInv, Logged
    <3>2. \A j \in DOMAIN inbox[p] : Passed(p, j) => Unreadable(file[p], inbox[p][j])
      BY ZenonT(60) DEF IInv, ReadOnce
    <3>3. \A j \in DOMAIN inbox[p] : inbox[p][j] \in Messages
      BY <1>2
    <3>. QED BY ZenonT(60), <1>4, <3>1, <3>2, <3>3
  <2>. QED BY ZenonT(60), <1>4, <1>5, <1>6, <2>1, <2>2 DEF ReadOnce
<1>18. ReadOnce(q)'
  <2>1. ReadOnce(q)
    BY ZenonT(60), <1>1 DEF IInv
  <2>. QED BY ZenonT(60), <1>5, <2>1 DEF ReadOnce, Passed
<1>19. Confirmed(p)'
  <2>1. Confirmed(p) /\ confirmed[p] \subseteq Messages
    BY ZenonT(60) DEF IInv, TypeOK
  <2>. QED BY ZenonT(60), <1>5, <1>14, <2>1 DEF Confirmed
<1>20. Confirmed(q)'
  <2>1. Confirmed(q)
    BY ZenonT(60), <1>1 DEF IInv
  <2>2. \A x : Kept(q, x) => Kept(q, x)'
    BY ZenonT(60), <1>5, <1>13 DEF Kept
  <2>. QED BY ZenonT(60), <1>5, <2>1, <2>2 DEF Confirmed
<1>21. Missed(p)'
  <2>. SUFFICES ASSUME NEW j \in DOMAIN inbox[p], Passed(p, j)', j \notin opened'[p],
                       ~Shadowed(p, j)'
                PROVE  ~InWindow(r.dr, inbox[p][j])
    BY ZenonT(60), <1>5 DEF Missed
  <2>1. j < i /\ Passed(p, j) /\ j \notin opened[p]
    <3>1. j \in Nat
      BY <1>2
    <3>2. j # i /\ j \notin opened[p]
      BY ZenonT(60), <1>5
    <3>. QED BY ZenonT(60), <1>p, <3>1, <3>2
  <2>2. PICK v : v = inbox[p][j]
    BY ZenonT(60)
  <2>3. ~Shadowed(p, j)
    BY ZenonT(60), <1>5 DEF Shadowed
  <2>4. ~InWindow(file[p], v)
    BY ZenonT(60), <2>1, <2>2, <2>3 DEF IInv, Missed
  <2>5. Precedes(v, m)
    BY ZenonT(60), <1>3, <2>1, <2>2 DEF IInv, Logged
  <2>. QED BY ZenonT(60), <1>3, <1>k, <2>2, <2>4, <2>5, MissedStays
<1>22. Missed(q)'
  <2>1. Missed(q)
    BY ZenonT(60), <1>1 DEF IInv
  <2>. QED BY ZenonT(60), <1>5, <2>1 DEF Missed, Passed, Shadowed
<1>. QED BY ZenonT(60), <1>1, <1>9, <1>10, <1>11, <1>12, <1>15, <1>16, <1>17, <1>18, <1>19, <1>20, <1>21,
            <1>22 DEF IInv

\* A message that did not open, a restart, an exit and a refused Send change no
\* file and no inbox; the positions are then at and disk.
Moves(p, at, disk) ==
  LET i == pos[p] + 1 IN
  /\ \/ at = pos[p] \/ at = savedPos[p]
     \/ at = i /\ i <= Len(inbox[p]) /\ ~Opening(p, i).ok
  /\ pos' = [pos EXCEPT ![p] = at]
  /\ disk = savedPos[p] \/ (disk = pos[p] /\ at = pos[p])
  /\ savedPos' = [savedPos EXCEPT ![p] = disk]
  /\ UNCHANGED <<file, inbox, opened, shown, confirmed, nextKey, faults>>
  /\ calls' \in [Party -> 0 .. MaxSend]
  /\ exits' \in 0 .. MaxExits /\ crashes' \in 0 .. MaxCrashes

\* A client that only moves in its inbox passes over what does not open.
LEMMA MoveInv ==
  ASSUME IInv, NEW p \in Party, NEW at, NEW disk, Moves(p, at, disk)
  PROVE  IInv'
<1>s. /\ \/ at = pos[p] \/ at = savedPos[p]
         \/ at = pos[p] + 1 /\ pos[p] + 1 <= Len(inbox[p]) /\ ~Opening(p, pos[p] + 1).ok
      /\ disk = savedPos[p] \/ (disk = pos[p] /\ at = pos[p])
  BY ZenonT(60) DEF Moves
<1>u. /\ pos' = [pos EXCEPT ![p] = at] /\ savedPos' = [savedPos EXCEPT ![p] = disk]
      /\ UNCHANGED <<file, inbox, opened, shown, confirmed, nextKey, faults>>
      /\ calls' \in [Party -> 0 .. MaxSend]
      /\ exits' \in 0 .. MaxExits /\ crashes' \in 0 .. MaxCrashes
  BY ZenonT(60) DEF Moves
<1>. PICK q : q = Peer(p)
  OBVIOUS
<1>1. /\ q \in Party /\ q # p /\ Party = {p, q}
      /\ pos \in [Party -> Nat] /\ savedPos \in [Party -> Nat] /\ inbox[p] \in Seq(Messages)
      /\ pos[p] \in Nat /\ savedPos[p] \in Nat /\ savedPos[p] <= pos[p]
      /\ pos[p] <= Len(inbox[p]) /\ savedPos[p] <= Len(inbox[p])
      /\ opened[p] \subseteq Nat
  BY ZenonT(60), InvSound DEF IInv, TypeOK, ReadOnce
<1>2. /\ pos'[p] = at /\ pos'[q] = pos[q] /\ savedPos'[p] = disk /\ savedPos'[q] = savedPos[q]
      /\ UNCHANGED <<file, inbox, opened, confirmed>>
  BY ZenonT(60), <1>1, <1>u
<1>3. at \in Nat /\ disk \in Nat /\ disk <= at /\ at <= Len(inbox[p])
  BY <1>1, <1>s
<1>4. TypeOK'
  <2>1. pos' \in [Party -> Nat] /\ savedPos' \in [Party -> Nat]
    BY ZenonT(60), <1>1, <1>3, <1>u
  <2>2. \A x \in Party : pos'[x] <= Len(inbox[x]) /\ savedPos'[x] <= Len(inbox[x])
    <3>1. pos[q] <= Len(inbox[q]) /\ savedPos[q] <= Len(inbox[q])
      BY ZenonT(60), <1>1 DEF IInv, TypeOK
    <3>2. Len(inbox[p]) \in Nat
      BY <1>1
    <3>. QED BY <1>1, <1>2, <1>3, <3>1, <3>2
  <2>. QED BY ZenonT(60), <1>u, <2>1, <2>2 DEF IInv, TypeOK
<1>5. Lockstep'
  BY ZenonT(60), <1>u DEF IInv, Lockstep
<1>6. \A x \in Party : Filed(x)' /\ Logged(x)' /\ Confirmed(x)'
  <2>. SUFFICES ASSUME NEW x \in Party
                PROVE  Filed(x)' /\ Logged(x)' /\ Confirmed(x)'
    OBVIOUS
  <2>1. Filed(x) /\ Logged(x) /\ Confirmed(x)
    BY ZenonT(60) DEF IInv
  <2>2. Filed(x)'
    BY ZenonT(60), <1>u, <2>1 DEF Filed, LastRead, Latest
  <2>3. Logged(x)'
    BY ZenonT(60), <1>u, <2>1 DEF Logged, Genuine
  <2>4. Confirmed(x)'
    BY ZenonT(60), <1>u, <2>1 DEF Confirmed, Kept, Genuine
  <2>. QED BY ZenonT(60), <2>2, <2>3, <2>4
<1>7. ReadOnce(p)'
  <2>. SUFFICES ASSUME NEW j \in DOMAIN inbox[p], Passed(p, j)'
                PROVE  Unreadable(file[p], inbox[p][j])
    BY ZenonT(60), <1>2, <1>3 DEF ReadOnce
  <2>1. j \in Nat
    BY <1>1
  <2>2. CASE Passed(p, j)
    BY ZenonT(60), <2>2 DEF IInv, ReadOnce
  <2>3. CASE ~Passed(p, j)
    <3>1. ~Opening(p, j).ok
      BY <1>1, <1>2, <1>s, <2>1, <2>3 DEF Passed
    <3>2. ~(\E k \in opened[p] : j < k)
      BY <1>1, <2>1, <2>3 DEF Passed
    <3>. QED BY ZenonT(60), <3>1, <3>2, FailedNext
  <2>. QED BY ZenonT(60), <2>2, <2>3
<1>8. ReadOnce(q)'
  <2>1. ReadOnce(q)
    BY ZenonT(60), <1>1 DEF IInv
  <2>. QED BY ZenonT(60), <1>2, <2>1 DEF ReadOnce, Passed
<1>9. Missed(p)'
  <2>. SUFFICES ASSUME NEW j \in DOMAIN inbox[p], Passed(p, j)', j \notin opened[p],
                       ~Shadowed(p, j)
                PROVE  ~InWindow(file[p], inbox[p][j])
    BY ZenonT(60), <1>2 DEF Missed, Shadowed
  <2>1. j \in Nat
    BY <1>1
  <2>2. CASE Passed(p, j)
    BY ZenonT(60), <2>2 DEF IInv, Missed
  <2>3. CASE ~Passed(p, j)
    <3>1. ~Opening(p, j).ok
      BY <1>1, <1>2, <1>s, <2>1, <2>3 DEF Passed
    <3>. QED BY ZenonT(60), <2>3, <3>1, FirstOpens
  <2>. QED BY ZenonT(60), <2>2, <2>3
<1>10. Missed(q)'
  <2>1. Missed(q)
    BY ZenonT(60), <1>1 DEF IInv
  <2>. QED BY ZenonT(60), <1>2, <2>1 DEF Missed, Passed, Shadowed
<1>. QED BY ZenonT(60), <1>1, <1>4, <1>5, <1>6, <1>7, <1>8, <1>9, <1>10 DEF IInv

-----------------------------------------------------------------------------
(* The inductive invariant *)

\* Both clients after the handshake and an orderly exit.
LEMMA InitInv == Init => IInv
<1>. SUFFICES ASSUME Init PROVE IInv
  OBVIOUS
<1>1. /\ Sound(Alice, file[Alice]) /\ Skipped(file[Alice])
      /\ Epoch(file[Alice]) = 1 /\ file[Alice].sendNo = 1
      /\ Sound(Bob, file[Bob]) /\ Skipped(file[Bob])
      /\ Epoch(file[Bob]) = 2 /\ file[Bob].recvNo = 1
  <2>. PICK a, b, z, t : /\ a = CreateActive(SessKey, AD, AliceKey, BobKey)
                         /\ b = CreatePassive(SessKey, AD, BobKey)
                         /\ z \in Nat /\ z = 0 /\ t = 3
    OBVIOUS
  <2>. PICK r : r = Encrypt(a, z, z)
    OBVIOUS
  <2>. PICK m : m = r.msg
    OBVIOUS
  <2>. PICK w : w = Decrypt(b, m, t)
    OBVIOUS
  <2>1. file[Alice] = r.dr /\ file[Bob] = w.dr
    BY ZenonT(60) DEF Init, AckMsg, AckRead, NoKey, Party, Alice, Bob
  <2>2. /\ Sound(Alice, r.dr) /\ Skipped(r.dr) /\ Epoch(r.dr) = 1 /\ r.dr.sendNo = 1
        /\ FirstMessage(m)
    BY ZenonT(60), FirstSealed
  <2>3. Sound(Bob, w.dr) /\ Skipped(w.dr) /\ Epoch(w.dr) = 2 /\ w.dr.recvNo = 1
    BY <2>2, FirstDecrypted
  <2>. QED BY ZenonT(60), <2>1, <2>2, <2>3
<1>2. \A p \in Party : /\ inbox[p] = << >> /\ opened[p] = {} /\ confirmed[p] = {}
                       /\ pos[p] = 0 /\ savedPos[p] = 0 /\ shown[p] = << >>
  BY ZenonT(60) DEF Init
<1>3. \A p \in Party : Sound(p, file[p]) /\ Skipped(file[p]) /\ file[p] \in Ratchets
  BY ZenonT(60), <1>1 DEF Party, Sound
<1>4. TypeOK
  <2>1. file \in [Party -> Ratchets]
    BY ZenonT(60), <1>3 DEF Init
  <2>. QED BY <1>2, <2>1, BoundsAssumption DEF Init, TypeOK
<1>5. Lockstep
  BY <1>1 DEF Lockstep, Init
<1>6. \A p \in Party : Filed(p)
  BY ZenonT(60), <1>1, <1>3 DEF Filed, LastRead, Party
<1>. QED BY <1>2, <1>4, <1>5, <1>6 DEF IInv, Logged, ReadOnce, Missed, Confirmed

\* Every step of a client keeps the invariant.
LEMMA NextInv == IInv /\ [Next]_vars => IInv'
<1>. SUFFICES ASSUME IInv, [Next]_vars PROVE IInv'
  OBVIOUS
<1>1. CASE UNCHANGED vars
  <2>1. TypeOK' /\ Lockstep'
    BY ZenonT(60), <1>1 DEF vars, IInv, TypeOK, Lockstep
  <2>. SUFFICES ASSUME NEW p \in Party
                PROVE  Filed(p)' /\ Logged(p)' /\ ReadOnce(p)' /\ Missed(p)' /\ Confirmed(p)'
    BY ZenonT(60), <2>1 DEF IInv
  <2>2. Filed(p) /\ Logged(p) /\ ReadOnce(p) /\ Missed(p) /\ Confirmed(p)
    BY ZenonT(60) DEF IInv
  <2>3. Filed(p)'
    BY ZenonT(60), <1>1, <2>2 DEF vars, Filed, LastRead, Latest
  <2>4. Logged(p)'
    BY ZenonT(60), <1>1, <2>2 DEF vars, Logged, Genuine
  <2>5. ReadOnce(p)'
    BY ZenonT(60), <1>1, <2>2 DEF vars, ReadOnce, Passed
  <2>6. Missed(p)'
    BY ZenonT(60), <1>1, <2>2 DEF vars, Missed, Passed, Shadowed
  <2>7. Confirmed(p)'
    BY ZenonT(60), <1>1, <2>2 DEF vars, Confirmed, Kept, Genuine
  <2>. QED BY ZenonT(60), <2>3, <2>4, <2>5, <2>6, <2>7
<1>2. ASSUME NEW p \in Party, Send(p) \/ SendDropped(p) \/ SendUnsaved(p)
      PROVE  IInv'
  <2>1. /\ file \in [Party -> Ratchets] /\ inbox \in [Party -> Seq(Messages)]
        /\ confirmed \in [Party -> SUBSET Messages] /\ Peer(p) \in Party
    BY ZenonT(60), InvSound DEF IInv, TypeOK
  <2>2. faults' \in 0 .. MaxFaults
    <3>1. faults \in 0 .. MaxFaults /\ MaxFaults \in Nat
      BY ZenonT(60), BoundsAssumption DEF IInv, TypeOK
    <3>. QED BY <1>2, <3>1 DEF Send, SendDropped, SendUnsaved
  <2>3. Sending(p) /\ Sealing(p).ok
    BY ZenonT(60), <1>2 DEF Send, SendDropped, SendUnsaved
  <2>4. ASSUME Send(p) PROVE Seals(p, file'[p], inbox'[Peer(p)], confirmed'[p])
    BY ZenonT(60), <2>1, <2>2, <2>3, <2>4 DEF Send, Put, Posted, Seals
  <2>5. ASSUME SendDropped(p) PROVE Seals(p, file'[p], inbox'[Peer(p)], confirmed'[p])
    BY ZenonT(60), <2>1, <2>2, <2>3, <2>5 DEF SendDropped, Put, Seals
  <2>6. ASSUME SendUnsaved(p) PROVE Seals(p, file'[p], inbox'[Peer(p)], confirmed'[p])
    BY ZenonT(60), <2>1, <2>2, <2>3, <2>6 DEF SendUnsaved, Posted, Seals
  <2>. QED BY ZenonT(60), <1>2, <2>4, <2>5, <2>6, SealInv
<1>3. ASSUME NEW p \in Party, Opening(p, pos[p] + 1).ok, Input(p) \/ InputCrash(p)
      PROVE  IInv'
  <2>1. /\ pos[p] \in Nat /\ Len(inbox[p]) \in Nat
        /\ pos \in [Party -> Nat] /\ shown \in [Party -> Seq(Nat)]
        /\ crashes \in 0 .. MaxCrashes /\ MaxCrashes \in Nat
    <3>1. inbox[p] \in Seq(Messages)
      BY ZenonT(60) DEF IInv, TypeOK
    <3>. QED BY <3>1, BoundsAssumption DEF IInv, TypeOK
  <2>2. ASSUME Input(p) PROVE OpensNext(p, pos'[p], shown'[p])
    <3>1. pos'[p] = pos[p] + 1 /\ shown'[p] = Append(shown[p], pos[p] + 1)
      BY ZenonT(60), <1>3, <2>1, <2>2 DEF Input, Read
    <3>2. pos[p] + 1 <= Len(inbox[p])
      BY <2>1, <2>2 DEF Input, Read
    <3>. QED BY ZenonT(60), <1>3, <2>1, <2>2, <3>1, <3>2 DEF Input, Read, Put, OpensNext
  <2>3. ASSUME InputCrash(p) PROVE OpensNext(p, pos'[p], shown'[p])
    BY <1>3, <2>1, <2>3 DEF InputCrash, Put, Restart, OpensNext
  <2>. QED BY ZenonT(60), <1>3, <2>2, <2>3, OpenInv
<1>4. ASSUME NEW p \in Party,
             \/ Input(p) /\ ~Opening(p, pos[p] + 1).ok
             \/ Crash(p) \/ Close(p) \/ SendRefused(p)
      PROVE  IInv'
  <2>1. /\ pos \in [Party -> Nat] /\ savedPos \in [Party -> Nat]
        /\ crashes \in 0 .. MaxCrashes /\ MaxCrashes \in Nat
        /\ exits \in 0 .. MaxExits /\ MaxExits \in Nat
        /\ calls \in [Party -> 0 .. MaxSend] /\ MaxSend \in Nat
    BY ZenonT(60), BoundsAssumption DEF IInv, TypeOK
  <2>2. pos[p] \in Nat /\ Len(inbox[p]) \in Nat
    <3>1. inbox[p] \in Seq(Messages)
      BY ZenonT(60) DEF IInv, TypeOK
    <3>. QED BY <2>1, <3>1
  <2>3. ASSUME Input(p), ~Opening(p, pos[p] + 1).ok PROVE Moves(p, pos'[p], savedPos'[p])
    BY <2>1, <2>2, <2>3 DEF Input, Read, Moves
  <2>4. ASSUME Crash(p) PROVE Moves(p, pos'[p], savedPos'[p])
    BY <2>1, <2>4 DEF Crash, Restart, Moves
  <2>5. ASSUME Close(p) PROVE Moves(p, pos'[p], savedPos'[p])
    BY <2>1, <2>5 DEF Close, Moves
  <2>6. ASSUME SendRefused(p) PROVE Moves(p, pos'[p], savedPos'[p])
    <3>1. calls[p] \in Nat /\ calls[Peer(p)] \in Nat
      BY <2>1, InvSound
    <3>2. calls[p] + 1 \in 0 .. MaxSend
      BY <2>1, <2>6, <3>1 DEF SendRefused, Sending
    <3>3. calls' \in [Party -> 0 .. MaxSend]
      BY ZenonT(60), <2>1, <2>6, <3>2 DEF SendRefused, Sending
    <3>. QED BY ZenonT(60), <2>1, <2>6, <3>3 DEF SendRefused, Sending, Moves
  <2>. QED BY ZenonT(60), <1>4, <2>3, <2>4, <2>5, <2>6, MoveInv
<1>5. \A p \in Party : InputCrash(p) => Opening(p, pos[p] + 1).ok
  BY ZenonT(60) DEF InputCrash
<1>. QED BY ZenonT(60), <1>1, <1>2, <1>3, <1>4, <1>5 DEF Next

\* The files stay in lockstep, the inboxes are logs, and what was passed will
\* not open again, in every reachable state.
THEOREM Inductive == Spec => []IInv
BY InitInv, NextInv, PTL DEF Spec

-----------------------------------------------------------------------------
(* What follows from it *)

\* The session files hold ratchets, the inboxes ciphertexts, and the positions
\* lie within the inboxes, whatever Send, handleRatchet and restarts do.
THEOREM TypeCorrect == Spec => []TypeOK
<1>1. IInv => TypeOK
  BY ZenonT(60) DEF IInv
<1>. QED BY <1>1, Inductive, PTL

\* The file of the receiver follows the chain in the file of the sender, and is
\* ahead of it by at most the one message that Send posted and did not save.
THEOREM Agreement == Spec => []FilesAgree
<1>1. IInv => FilesAgree
  <2>. SUFFICES ASSUME IInv, NEW p \in Party, file[p].peerDhPub = file[Peer(p)].dhPub
                PROVE  /\ file[p].chainKeyRecv.root = file[Peer(p)].chainKeySend.root
                       /\ file[p].chainKeyRecv.n <= file[Peer(p)].chainKeySend.n + 1
    BY ZenonT(60) DEF FilesAgree
  <2>. PICK q, f, g, e, o : /\ q = Peer(p) /\ f = file[p] /\ g = file[q]
                            /\ e = Epoch(f) /\ o = Epoch(g)
    BY ZenonT(60)
  <2>1. /\ q \in Party /\ Sound(p, f) /\ Sound(q, g) /\ LastRead(p)
        /\ e \in Nat /\ f.peerDhPub = e /\ f.recvNo \in Nat
        /\ o \in Nat /\ o >= 1 /\ g.dhPub = o + 1 /\ g.sendNo \in Nat
    BY ZenonT(60), InvSound
  <2>2. e = o + 1 /\ e >= 2 /\ e - 1 = o
    <3>1. f.peerDhPub = g.dhPub
      BY ZenonT(60)
    <3>. QED BY <2>1, <3>1
  <2>3. /\ f.chainKeyRecv = [root |-> Root(e - 1), n |-> f.recvNo]
        /\ g.chainKeySend = [root |-> Root(o), n |-> g.sendNo]
    <3>1. f.chainKeyRecv = [root |-> Root(Epoch(f) - 1), n |-> f.recvNo]
      BY ZenonT(60), <2>1, <2>2, EpochChains
    <3>2. g.chainKeySend = [root |-> Root(Epoch(g)), n |-> g.sendNo]
      <4>1. q \in Party /\ Sound(q, g) /\ Epoch(g) > 0
        BY <2>1
      <4>. QED BY ZenonT(60), <4>1, EpochChains
    <3>. QED BY ZenonT(60), <3>1, <3>2
  <2>4. f.recvNo <= g.sendNo + 1
    <3>1. CASE \E i \in opened[p] : Latest(p, i)
      <4>1. PICK i \in opened[p] : Latest(p, i)
        BY ZenonT(60), <3>1
      <4>2. i \in DOMAIN inbox[p]
        <5>1. inbox[p] \in Seq(Messages) /\ opened[p] \subseteq 1 .. Len(inbox[p])
          BY ZenonT(60) DEF IInv, TypeOK
        <5>. QED BY <5>1
      <4>3. /\ Genuine(q, inbox[p][i]) /\ inbox[p][i].msgNo \in Nat
        BY ZenonT(60), <4>2, InboxMessage
      <4>4. inbox[p][i].dhPub = o + 1 /\ inbox[p][i].msgNo + 1 = f.recvNo
        BY ZenonT(60), <2>1, <2>2, <4>1 DEF Latest
      <4>. QED BY <2>1, <4>3, <4>4 DEF Genuine
    <3>2. CASE f.recvNo = 1
      BY <2>1, <3>2
    <3>. QED BY <2>1, <2>2, <3>1, <3>2 DEF LastRead
  <2>. QED BY <2>2, <2>3, <2>4
<1>. QED BY <1>1, Inductive, PTL

\* The message key of a ciphertext tells its chain and its number.
LEMMA GenuineKey ==
  ASSUME NEW q, NEW m, Genuine(q, m)
  PROVE  m.key.root = Root(m.dhPub - 1) /\ m.key.n = m.msgNo
BY DEF Genuine

\* No two texts for which Client.Send returned nil are sealed with one key.
THEOREM ConfirmedUnique == Spec => []ConfirmedKeysUnique
<1>1. IInv => ConfirmedKeysUnique
  <2>. SUFFICES ASSUME IInv, NEW p \in Party, NEW q \in Party,
                       NEW m \in confirmed[p], NEW w \in confirmed[q], m.key = w.key
                PROVE  p = q /\ m = w
    BY ZenonT(60) DEF ConfirmedKeysUnique
  <2>1. Genuine(p, m) /\ Genuine(q, w)
    BY ZenonT(60) DEF IInv, Confirmed, Kept
  <2>2. m.dhPub \in Nat /\ w.dhPub \in Nat
    <3>1. m \in Messages /\ w \in Messages
      BY ZenonT(60) DEF IInv, TypeOK
    <3>. QED BY ZenonT(60), <3>1 DEF Messages
  <2>3. m.dhPub >= 2 /\ w.dhPub >= 2
    BY ZenonT(60), <2>1 DEF Genuine
  <2>4. Root(m.dhPub - 1) = Root(w.dhPub - 1) /\ m.msgNo = w.msgNo
    <3>1. m.key.root = Root(m.dhPub - 1) /\ m.key.n = m.msgNo
      BY ZenonT(60), <2>1, GenuineKey
    <3>2. w.key.root = Root(w.dhPub - 1) /\ w.key.n = w.msgNo
      BY ZenonT(60), <2>1, GenuineKey
    <3>. QED BY ZenonT(60), <3>1, <3>2
  <2>5. m.dhPub = w.dhPub
    <3>1. m.dhPub - 1 \in Nat /\ w.dhPub - 1 \in Nat
      BY <2>2, <2>3
    <3>2. m.dhPub - 1 = w.dhPub - 1
      BY ZenonT(60), <2>4, <3>1, RootInjective
    <3>. QED BY <2>2, <3>2
  <2>6. p = q
    BY <2>1, <2>5 DEF Genuine, Party, Alice, Bob
  <2>. QED BY ZenonT(60), <2>4, <2>5, <2>6 DEF IInv, Confirmed
<1>. QED BY <1>1, Inductive, PTL

\* The next message of an inbox opens when handleRatchet is given it for the
\* first time, after whatever losses, restarts and repeated reads.
THEOREM FirstRead == Spec => []FirstReadSucceeds
<1>1. IInv => FirstReadSucceeds
  <2>. SUFFICES ASSUME IInv, NEW p \in Party, NEW i, i = pos[p] + 1,
                       i <= Len(inbox[p]), i \notin opened[p], ~Shadowed(p, i),
                       InWindow(Restored(file[p]), inbox[p][i])
                PROVE  Opening(p, i).ok
    BY ZenonT(60) DEF FirstReadSucceeds
  <2>1. i \in DOMAIN inbox[p]
    <3>1. inbox[p] \in Seq(Messages) /\ pos[p] \in Nat
      BY ZenonT(60) DEF IInv, TypeOK
    <3>. QED BY <3>1
  <2>2. PICK c : c = Restored(file[p])
    BY ZenonT(60)
  <2>3. c.peerDhPub = file[p].peerDhPub /\ c.recvNo = file[p].recvNo
    BY ZenonT(60), <2>1, <2>2, OpeningRestored
  <2>4. InWindow(file[p], inbox[p][i])
    BY ZenonT(60), <2>2, <2>3 DEF InWindow
  <2>5. ~Passed(p, i)
    BY ZenonT(60), <2>1, <2>4 DEF IInv, Missed
  <2>. QED BY ZenonT(60), <2>1, <2>4, <2>5, FirstOpens
<1>. QED BY <1>1, Inductive, PTL

\* What was decrypted and saved once is never decrypted again, wherever a
\* restart makes the client resume.
THEOREM AtMostOnce == Spec => []OpenedOnce
<1>1. IInv => OpenedOnce
  <2>. SUFFICES ASSUME IInv, NEW p \in Party, NEW i \in opened[p]
                PROVE  ~Opening(p, i).ok
    BY ZenonT(60) DEF OpenedOnce
  <2>1. i \in DOMAIN inbox[p] /\ i \in Nat
    <3>1. inbox[p] \in Seq(Messages) /\ opened[p] \subseteq 1 .. Len(inbox[p])
      BY ZenonT(60) DEF IInv, TypeOK
    <3>. QED BY <3>1
  <2>2. Passed(p, i)
    BY <2>1 DEF Passed
  <2>3. Opening(p, i).ok => OpensAt(p, i, Opening(p, i), inbox[p][i])
    BY ZenonT(60), <2>1, OpenedNext
  <2>. QED BY ZenonT(60), <2>2, <2>3 DEF OpensAt
<1>. QED BY <1>1, Inductive, PTL

\* The two clients implement lossy, ordered, at-most-once delivery: what Send
\* appends to an inbox is a Post, what handleRatchet hands on is a Show of a
\* later position, and nothing else shows through.
THEOREM Refinement == Spec => DeliverySpec
<1>1. Init => D!Init
  BY DEF Init, D!Init
<1>2. IInv /\ [Next]_vars => [D!Next]_(D!vars)
  <2>. SUFFICES ASSUME IInv, [Next]_vars PROVE [D!Next]_(D!vars)
    OBVIOUS
  <2>1. CASE UNCHANGED <<inbox, shown>>
    BY ZenonT(60), <2>1 DEF D!vars
  <2>2. ASSUME NEW p \in Party, NEW m, Posted(p, m), UNCHANGED shown
        PROVE  D!Next
    <3>1. Peer(p) \in Party /\ inbox \in [Party -> Seq(Messages)]
      BY ZenonT(60), InvSound DEF IInv, TypeOK
    <3>2. \A x \in Party : Len(inbox'[x]) = IF x = Peer(p) THEN Len(inbox[x]) + 1 ELSE Len(inbox[x])
      BY <2>2, <3>1 DEF Posted
    <3>3. D!Post(Peer(p))
      BY ZenonT(60), <2>2, <3>1, <3>2 DEF D!Post
    <3>. QED BY ZenonT(60), <3>1, <3>3 DEF D!Next
  <2>3. ASSUME NEW p \in Party, Opening(p, pos[p] + 1).ok, Input(p)
        PROVE  D!Next
    <3>. PICK i : i = pos[p] + 1
      OBVIOUS
    <3>1. /\ pos[p] \in Nat /\ inbox[p] \in Seq(Messages) /\ opened[p] \subseteq Nat
          /\ shown[p] \in Seq(opened[p])
      BY ZenonT(60) DEF IInv, TypeOK
    <3>2. i \in DOMAIN inbox[p] /\ i \in 1 .. Len(inbox[p])
      <4>1. i <= Len(inbox[p])
        BY <2>3, <3>1 DEF Input, Read
      <4>. QED BY <3>1, <4>1
    <3>3. \A j \in opened[p] : j < i
      <4>1. OpensAt(p, i, Opening(p, i), inbox[p][i])
        BY ZenonT(60), <2>3, <3>2, OpenedNext
      <4>. QED BY ZenonT(60), <4>1 DEF OpensAt
    <3>4. D!LastShown(p) \in Nat /\ D!LastShown(p) < i
      BY <3>1, <3>2, <3>3 DEF D!LastShown
    <3>5. i \in D!LastShown(p) + 1 .. Len(inbox[p])
      BY <3>2, <3>4
    <3>6. shown' = [shown EXCEPT ![p] = Append(@, i)] /\ inbox' = inbox
      BY ZenonT(60), <2>3 DEF Input
    <3>7. D!Show(p)
      BY ZenonT(60), <3>5, <3>6 DEF D!Show
    <3>. QED BY ZenonT(60), <3>7 DEF D!Next
  <2>4. ASSUME NEW p \in Party, ~Opening(p, pos[p] + 1).ok, Input(p)
        PROVE  UNCHANGED <<inbox, shown>>
    BY ZenonT(60), <2>4 DEF Input
  <2>5. ASSUME NEW p \in Party,
               \/ SendRefused(p) \/ SendDropped(p) \/ InputCrash(p) \/ Crash(p) \/ Close(p)
        PROVE  UNCHANGED <<inbox, shown>>
    BY ZenonT(60), <2>5 DEF SendRefused, SendDropped, Sending, InputCrash, Crash, Restart, Close
  <2>6. ASSUME NEW p \in Party, Send(p) \/ SendUnsaved(p)
        PROVE  Posted(p, Sealing(p).msg) /\ UNCHANGED shown
    BY ZenonT(60), <2>6 DEF Send, SendUnsaved, Sending
  <2>7. CASE UNCHANGED vars
    BY ZenonT(60), <2>1, <2>7 DEF vars
  <2>. QED BY ZenonT(60), <2>1, <2>2, <2>3, <2>4, <2>5, <2>6, <2>7 DEF Next
<1>. QED BY <1>1, <1>2, Inductive, PTL DEF Spec, DeliverySpec, D!Spec
=============================================================================
