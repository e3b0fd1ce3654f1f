------------------------- MODULE DiskSessionsProofs -------------------------
(***************************************************************************)
(* What holds in DiskSessions, for any names, processes and bounds: the    *)
(* types, the owner of an id and which files are torn, however processes   *)
(* overlap; and as long as no two overlap, which session a name leads to,  *)
(* that none is orphaned, and that no state is used twice.                 *)
(***************************************************************************)
EXTENDS DiskSessions, TLAPS

USE SMTT(30), ZenonT(60)

-----------------------------------------------------------------------------
(* However processes overlap *)

\* What an id belongs to, counting the session that a process works on.
Holds(n, i) == Owns(n, i) \/ \E p \in Process : Busy(p) /\ id[p] = i /\ sess[p].name = n

OwnerInv ==
  \A i \in Id : \A n \in Name : Holds(n, i) =>
    i <= made /\ \A m \in Name : Holds(m, i) => m = n

-----------------------------------------------------------------------------
\* Absent, Empty, a session and an index are told apart by their kind.
LEMMA Kinds ==
  /\ Absent.kind = "absent" /\ Empty.kind = "empty"
  /\ \A s \in Contents : s.kind = "session" /\ s.name \in Name /\ s.pending \in BOOLEAN
  /\ \A n \in Name : \A a \in BOOLEAN : Session(n, a) \in Contents /\ Session(n, a).name = n
  /\ \A m : Saved(m).kind = "map" /\ Saved(m).map = m
  /\ Absent # Empty /\ Absent \notin Contents /\ Empty \notin Contents
  /\ \A m : Saved(m) # Absent /\ Saved(m) # Empty
<1>1. /\ Absent.kind = "absent" /\ Empty.kind = "empty"
      /\ \A s \in Contents : s.kind = "session" /\ s.name \in Name /\ s.pending \in BOOLEAN
      /\ \A n \in Name : \A a \in BOOLEAN : Session(n, a) \in Contents /\ Session(n, a).name = n
      /\ \A m : Saved(m).kind = "map" /\ Saved(m).map = m
  BY ZenonT(60) DEF Absent, Empty, Contents, Session, Saved
<1>2. /\ Absent # Empty /\ Absent \notin Contents /\ Empty \notin Contents
      /\ \A m : Saved(m) # Absent /\ Saved(m) # Empty
  BY ZenonT(60), <1>1
<1> QED BY ZenonT(60), <1>1, <1>2

LEMMA IndexMap == ASSUME DiskOK, index.kind = "map" PROVE index.map \in [Name -> Entry]
BY Kinds DEF DiskOK

LEMMA TypeInit == Init => TypeOK
<1> SUFFICES ASSUME Init PROVE TypeOK
  OBVIOUS
<1>1. DiskOK
  BY ZenonT(60) DEF Init, DiskOK
<1>2. JobOK
  BY ZenonT(60) DEF Init, JobOK, Busy, Entry
<1>3. MapOK
  BY BoundsAssumption DEF BoundsAssumption, Init, MapOK, NoEntries, Entry
<1>4. HistoryOK
  <2>1. deaths \in 0 .. MaxDeaths
    BY BoundsAssumption DEF BoundsAssumption, Init
  <2> QED BY <2>1, ZenonT(60) DEF Init, HistoryOK
<1> QED BY ZenonT(60), <1>1, <1>2, <1>3, <1>4 DEF TypeOK

\* Work keeps the types of the job.
LEMMA WorkType ==
  ASSUME JobOK, NEW p \in Process, NEW o, NEW i, NEW s, NEW next,
         Work(p, o, i, s, next),
         \/ /\ next \in {"post", "put", "write", "delete"}
            /\ o \in {"offer", "accept", "send", "close", "receive", "receive close"}
            /\ i \in Id /\ s \in Contents
         \/ next \in {"off", "idle"} /\ o = "none" /\ i = NoId /\ s = Empty
  PROVE  /\ JobOK'
         /\ \A q \in Process : q # p => pc'[q] = pc[q]
         /\ pc'[p] = next
BY ZenonT(60) DEF JobOK, Work, Set, Busy, Entry

\* ByName returns an id, new or in the map, and keeps the types.
LEMMA ByNameType ==
  ASSUME MapOK, NEW p \in Process, NEW n \in Name, NEW i \in Id, ByName(p, n, i)
  PROVE  /\ sessions' \in [Process -> [Name -> Entry]]
         /\ made' \in 0 .. MaxId
         /\ \A q \in Process : q # p => sessions'[q] = sessions[q]
<1>1. made' \in 0 .. MaxId
  BY BoundsAssumption DEF BoundsAssumption, MapOK, ByName, Id
<1>2. /\ sessions' \in [Process -> [Name -> Entry]]
      /\ \A q \in Process : q # p => sessions'[q] = sessions[q]
  BY ZenonT(60) DEF MapOK, ByName, Set, Entry
<1> QED BY ZenonT(60), <1>1, <1>2

\* A step of an operation that starts.
LEMMA StartType ==
  ASSUME TypeOK, NEW p \in Process, pc[p] = "idle", MapOK => sessions' \in [Process -> [Name -> Entry]],
         made' \in 0 .. MaxId, \A q \in Process : q # p => sessions'[q] = sessions[q],
         \/ UNCHANGED job
         \/ \E o \in {"offer", "accept", "send", "close", "receive", "receive close"},
               i \in Id, s \in Contents, next \in {"post", "put"} : Work(p, o, i, s, next),
         UNCHANGED <<disk, history>>
  PROVE  TypeOK'
<1>1. JobOK' /\ pc'[p] # "off" /\ \A q \in Process : q # p => pc'[q] = pc[q]
  <2>1. CASE UNCHANGED job
    BY ZenonT(60), <2>1 DEF TypeOK, JobOK, job, Busy
  <2>2. CASE ~UNCHANGED job
    BY ZenonT(60), <2>2, WorkType DEF TypeOK
  <2> QED BY ZenonT(60), <2>1, <2>2
<1>2. MapOK'
  BY ZenonT(60), <1>1 DEF TypeOK, MapOK
<1> QED BY ZenonT(60), <1>1, <1>2 DEF TypeOK, DiskOK, HistoryOK, disk, history, marks

LEMMA TypeNext == TypeOK /\ [Next]_vars => TypeOK'
<1> SUFFICES ASSUME TypeOK, [Next]_vars PROVE TypeOK'
  OBVIOUS
<1> USE DEF TypeOK, disk, job, marks, history
<1>0. CASE UNCHANGED vars
  BY ZenonT(60), <1>0 DEF vars, Busy, DiskOK, JobOK, MapOK, HistoryOK
<1>1. ASSUME NEW p \in Process, Load(p) PROVE TypeOK'
  <2>1. MapOK'
    <3>1. (IF index = Absent THEN NoEntries ELSE index.map) \in [Name -> Entry]
      BY <1>1, Kinds DEF DiskOK, Load, NoEntries, Entry
    <3>2. \A q \in Process : pc'[q] = "off" => pc[q] = "off" /\ q # p
      BY ZenonT(60), <1>1 DEF JobOK, Load, Set
    <3> QED BY ZenonT(60), <1>1, <3>1, <3>2 DEF MapOK, Load, Set
  <2>2. JobOK'
    BY ZenonT(60), <1>1 DEF JobOK, Load, Set, Busy
  <2> QED BY ZenonT(60), <1>1, <2>1, <2>2 DEF Load, DiskOK, HistoryOK
<1>2. ASSUME NEW p \in Process, sendMsg(p) PROVE TypeOK'
  <2>1. JobOK' /\ \A q \in Process : pc'[q] = "off" => pc[q] = "off"
    <3>1. CASE Done(p)
      <4>1. JobOK' /\ pc'[p] = "idle" /\ \A q \in Process : q # p => pc'[q] = pc[q]
        BY ZenonT(60), <3>1, WorkType DEF Done
      <4> QED BY ZenonT(60), <4>1
    <3>2. CASE ~Done(p)
      BY ZenonT(60), <1>2, <3>2 DEF sendMsg, JobOK, Set, Busy
    <3> QED BY ZenonT(60), <3>1, <3>2
  <2>2. HistoryOK'
    BY ZenonT(60), <1>2 DEF HistoryOK, JobOK, sendMsg, Kept, Busy
  <2> QED BY ZenonT(60), <1>2, <2>1, <2>2 DEF sendMsg, DiskOK, MapOK
<1>3. ASSUME NEW p \in Process, PutTruncate(p) PROVE TypeOK'
  <2>1. JobOK' /\ \A q \in Process : pc'[q] = "off" => pc[q] = "off"
    BY ZenonT(60), <1>3 DEF JobOK, PutTruncate, Set, Busy
  <2> QED BY ZenonT(60), <1>3, <2>1 DEF DiskOK, MapOK, HistoryOK, PutTruncate, Set
<1>4. ASSUME NEW p \in Process, PutWrite(p) PROVE TypeOK'
  <2>1. JobOK' /\ \A q \in Process : pc'[q] = "off" => pc[q] = "off"
    <3>1. CASE Done(p)
      <4>1. JobOK' /\ pc'[p] = "idle" /\ \A q \in Process : q # p => pc'[q] = pc[q]
        BY ZenonT(60), <3>1, WorkType DEF Done
      <4> QED BY ZenonT(60), <4>1
    <3>2. CASE ~Done(p)
      BY ZenonT(60), <1>4, <3>2 DEF PutWrite, JobOK, Set, Busy
    <3> QED BY ZenonT(60), <3>1, <3>2
  <2>2. DiskOK'
    BY ZenonT(60), <1>4 DEF DiskOK, JobOK, PutWrite, Set, Busy
  <2>3. HistoryOK'
    BY ZenonT(60), <1>4 DEF HistoryOK, PutWrite, Kept, OfName
  <2> QED BY ZenonT(60), <1>4, <2>1, <2>2, <2>3 DEF PutWrite, MapOK
<1>5. ASSUME NEW p \in Process, Delete(p) PROVE TypeOK'
  <2>1. JobOK' /\ \A q \in Process : pc'[q] = "off" => pc[q] = "off" /\ q # p
    BY ZenonT(60), <1>5 DEF JobOK, Delete, Set, Busy, Entry
  <2>2. DiskOK'
    BY ZenonT(60), <1>5 DEF DiskOK, Delete, Set
  <2>3. sess[p].name \in Name
    BY ZenonT(60), <1>5, Kinds DEF JobOK, Delete, Busy
  <2>4. HistoryOK'
    BY ZenonT(60), <1>5, <2>3 DEF HistoryOK, Delete, Kept
  <2>5. MapOK'
    BY ZenonT(60), <1>5, <2>1 DEF MapOK, Delete, Set, Entry
  <2> QED BY ZenonT(60), <2>1, <2>2, <2>4, <2>5
<1>6. ASSUME NEW p \in Process, Exit(p) PROVE TypeOK'
  BY ZenonT(60), <1>6 DEF DiskOK, JobOK, MapOK, HistoryOK, Exit, Set, Busy
<1>7. ASSUME NEW p \in Process, CloseTruncate(p) PROVE TypeOK'
  BY ZenonT(60), <1>7 DEF DiskOK, JobOK, MapOK, HistoryOK, CloseTruncate, Set, Busy
<1>8. ASSUME NEW p \in Process, Gone(p), UNCHANGED made PROVE JobOK' /\ MapOK'
  <2>1. JobOK' /\ \A q \in Process : q # p => pc'[q] = pc[q]
    BY ZenonT(60), <1>8, WorkType DEF Gone
  <2> QED BY ZenonT(60), <1>8, <2>1 DEF Gone, Set, MapOK, NoEntries, Entry
<1>9. ASSUME NEW p \in Process, CloseWrite(p) PROVE TypeOK'
  <2>1. DiskOK'
    BY ZenonT(60), <1>9 DEF DiskOK, MapOK, CloseWrite
  <2> QED BY ZenonT(60), <1>8, <1>9, <2>1 DEF HistoryOK, CloseWrite
<1>10. ASSUME NEW p \in Process, GetPanics(p) PROVE TypeOK'
  <2>1. JobOK' /\ MapOK'
    <3>1. CASE Gone(p)
      BY ZenonT(60), <1>8, <1>10, <3>1 DEF GetPanics
    <3>2. CASE ~Gone(p)
      <4>1. /\ pc[p] = "idle" /\ pc' = Set(pc, p, "save")
            /\ UNCHANGED <<op, id, sess, linked, sessions, made>>
        BY ZenonT(60), <1>10, <3>2 DEF GetPanics
      <4> QED BY ZenonT(60), <4>1 DEF JobOK, MapOK, Set, Busy
    <3> QED BY ZenonT(60), <3>1, <3>2
  <2> QED BY ZenonT(60), <1>10, <2>1 DEF DiskOK, HistoryOK, GetPanics
<1>11. ASSUME NEW p \in Process, Die(p) PROVE TypeOK'
  <2>1. HistoryOK'
    <3>1. deaths' \in 0 .. MaxDeaths
      BY <1>11, BoundsAssumption DEF BoundsAssumption, HistoryOK, Die
    <3>2. cut' \subseteq Id \cup {IndexFile}
      BY ZenonT(60), <1>11 DEF HistoryOK, JobOK, Die, Busy
    <3> QED BY ZenonT(60), <1>11, <3>1, <3>2 DEF HistoryOK, Die
  <2> QED BY ZenonT(60), <1>8, <1>11, <2>1 DEF DiskOK, Die
<1>12. ASSUME NEW p \in Process, NEW n \in Name, Chat(p, n) PROVE TypeOK'
  <2>1. PICK i \in Id :
          /\ ByName(p, n, i)
          /\ \/ UNCHANGED job
             \/ Work(p, "offer", i, Session(n, FALSE), "post")
             \/ /\ file[i].kind = "session"
                /\ Work(p, "send", i, [file[i] EXCEPT !.pending = FALSE], "post")
    BY ZenonT(60), <1>12 DEF Chat
  <2>2. file[i].kind = "session" => [file[i] EXCEPT !.pending = FALSE] \in Contents
    <3>1. file[i].kind = "session" => file[i] \in Contents
      BY ZenonT(60), Kinds DEF DiskOK
    <3> QED BY ZenonT(60), <3>1 DEF Contents
  <2> QED BY ZenonT(60), <1>12, <2>1, <2>2, StartType, ByNameType, Kinds DEF Chat
<1>13. ASSUME NEW p \in Process, NEW n \in Name, Send(p, n) PROVE TypeOK'
  <2>1. PICK i \in Id :
          /\ ByName(p, n, i)
          /\ \/ UNCHANGED job
             \/ /\ file[i].kind = "session"
                /\ \E o \in {"send", "close"} : Work(p, o, i, file[i], "post")
    BY ZenonT(60), <1>13 DEF Send
  <2>2. file[i].kind = "session" => file[i] \in Contents
    BY ZenonT(60), Kinds DEF DiskOK
  <2> QED BY ZenonT(60), <1>13, <2>1, <2>2, StartType, ByNameType DEF Send
<1>14. ASSUME NEW p \in Process, NEW n \in Name, ReceiveOffer(p, n) PROVE TypeOK'
  <2>1. PICK i \in Id :
          ByName(p, n, i) /\ (UNCHANGED job \/ Work(p, "accept", i, Session(n, TRUE), "put"))
    BY ZenonT(60), <1>14 DEF ReceiveOffer
  <2> QED BY ZenonT(60), <1>14, <2>1, StartType, ByNameType, Kinds DEF ReceiveOffer
<1>15. ASSUME NEW p \in Process, NEW i \in Id, Receive(p, i) PROVE TypeOK'
  <2>1. file[i] \in Contents
    BY ZenonT(60), <1>15, Kinds DEF DiskOK, Receive
  <2> QED BY ZenonT(60), <1>15, <2>1, StartType DEF Receive, MapOK
<1> QED
  BY ZenonT(60), <1>0, <1>1, <1>2, <1>3, <1>4, <1>5, <1>6, <1>7, <1>9, <1>10, <1>11, <1>12, <1>13,
     <1>14, <1>15 DEF Next

\* The types of DiskSessions, with a process that holds a session only in an operation.
THEOREM TypeCorrect == Spec => []TypeOK
BY TypeInit, TypeNext, PTL DEF Spec

-----------------------------------------------------------------------------
\* The four ways an id may belong to a name.
InIndex(n, i) == index.kind = "map" /\ index.map[n] = i
InMap(n, i) == \E p \in Process : sessions[p][n] = i
InFile(n, i) == file[i].kind = "session" /\ file[i].name = n
InJob(n, i) == \E p \in Process : Busy(p) /\ id[p] = i /\ sess[p].name = n

LEMMA HoldsBy ==
  ASSUME NEW n, NEW i
  PROVE  /\ Holds(n, i) <=> InIndex(n, i) \/ InMap(n, i) \/ InFile(n, i) \/ InJob(n, i)
         /\ Holds(n, i)' <=> InIndex(n, i)' \/ InMap(n, i)' \/ InFile(n, i)' \/ InJob(n, i)'
BY ZenonT(60) DEF Holds, Owns, InIndex, InMap, InFile, InJob

\* A step that gives an id to no other name keeps OwnerInv.
LEMMA OwnerKept ==
  ASSUME TypeOK, OwnerInv, made' = made,
         \A n \in Name : \A i \in Id : Holds(n, i)' => Holds(n, i)
  PROVE  OwnerInv'
BY ZenonT(60) DEF OwnerInv

\* Nor does a step that gives a new id to one name.
LEMMA OwnerNew ==
  ASSUME TypeOK, OwnerInv, NEW m \in Name, made' = made + 1,
         \A n \in Name : \A i \in Id : Holds(n, i)' => Holds(n, i) \/ (n = m /\ i = made + 1)
  PROVE  OwnerInv'
<1> SUFFICES ASSUME NEW i \in Id, NEW n \in Name, Holds(n, i)'
             PROVE  i <= made' /\ \A k \in Name : Holds(k, i)' => k = n
  BY ZenonT(60) DEF OwnerInv
<1>1. made \in Nat /\ i \in Nat
  BY DEF TypeOK, MapOK, Id
<1>2. CASE Holds(n, i)
  BY <1>1, <1>2 DEF OwnerInv
<1>3. CASE ~Holds(n, i)
  <2>1. n = m /\ i = made + 1
    BY ZenonT(60), <1>3
  <2>2. ASSUME NEW k \in Name, Holds(k, i) PROVE FALSE
    BY <1>1, <2>1, <2>2 DEF OwnerInv
  <2> QED BY <1>1, <2>1, <2>2
<1> QED BY ZenonT(60), <1>2, <1>3

\* An operation that starts gives an id to no name that does not have it, but
\* for a new one.
LEMMA OwnerStart ==
  ASSUME TypeOK, OwnerInv, NEW p \in Process, pc[p] = "idle", NEW n \in Name, NEW j \in Id,
         ByName(p, n, j), UNCHANGED disk,
         \/ UNCHANGED job
         \/ \E o, s, next : Work(p, o, j, s, next) /\ s.name = n
  PROVE  OwnerInv'
<1>1. ASSUME NEW m \in Name, NEW i \in Id
      PROVE  /\ InIndex(m, i)' => InIndex(m, i)
             /\ InFile(m, i)' => InFile(m, i)
             /\ InMap(m, i)' => InMap(m, i) \/ (m = n /\ i = j)
             /\ InJob(m, i)' => InJob(m, i) \/ (m = n /\ i = j)
  <2>1. InIndex(m, i)' => InIndex(m, i)
    BY ZenonT(60) DEF InIndex, disk
  <2>2. InFile(m, i)' => InFile(m, i)
    BY ZenonT(60) DEF InFile, disk
  <2>3. InMap(m, i)' => InMap(m, i) \/ (m = n /\ i = j)
    BY ZenonT(60) DEF InMap, ByName, Set, TypeOK, MapOK
  <2>4. InJob(m, i)' => InJob(m, i) \/ (m = n /\ i = j)
    BY ZenonT(60) DEF InJob, job, Work, Set, TypeOK, JobOK, Busy
  <2> QED BY ZenonT(60), <2>1, <2>2, <2>3, <2>4
<1>2. ASSUME NEW m \in Name, NEW i \in Id, Holds(m, i)'
      PROVE  Holds(m, i) \/ (m = n /\ i = j)
  BY <1>1, <1>2, HoldsBy, ZenonT(60)
<1>3. made \in Nat /\ j \in Nat /\ j # NoId
  BY DEF TypeOK, MapOK, Id, NoId
<1>4. CASE sessions[p][n] # NoId
  <2>1. j = sessions[p][n] /\ Holds(n, j)
    BY ZenonT(60), <1>4, HoldsBy DEF ByName, InMap
  <2>2. made' = made
    BY <1>3, <2>1 DEF OwnerInv, ByName
  <2> QED BY ZenonT(60), <1>2, <2>1, <2>2, OwnerKept
<1>5. CASE sessions[p][n] = NoId
  <2>1. j = made + 1 /\ made' = made + 1
    BY <1>3, <1>5 DEF ByName
  <2> QED BY ZenonT(60), <1>2, <2>1, OwnerNew
<1> QED BY ZenonT(60), <1>4, <1>5

\* A session found through ByName is one with that name, and was in the map.
LEMMA FoundByName ==
  ASSUME TypeOK, OwnerInv, NEW p \in Process, NEW n \in Name, NEW j \in Id,
         ByName(p, n, j), file[j].kind = "session"
  PROVE  file[j] \in Contents /\ file[j].name = n /\ sessions[p][n] = j /\ sessions' = sessions
<1>1. file[j] \in Contents /\ file[j].name \in Name
  BY ZenonT(60), Kinds DEF TypeOK, DiskOK
<1>2. Holds(file[j].name, j)
  BY ZenonT(60), HoldsBy DEF InFile
<1>3. made \in Nat /\ j \in Nat /\ j <= made
  BY <1>1, <1>2 DEF TypeOK, MapOK, Id, OwnerInv
<1>4. sessions[p][n] = j
  BY <1>3 DEF ByName
<1>5. Holds(n, j)
  BY ZenonT(60), <1>4, HoldsBy DEF InMap
<1>6. sessions' = sessions
  BY ZenonT(60), <1>4 DEF ByName, Set, TypeOK, MapOK
<1> QED BY ZenonT(60), <1>1, <1>2, <1>4, <1>5, <1>6 DEF OwnerInv

LEMMA OwnerNext == TypeOK /\ OwnerInv /\ [Next]_vars => OwnerInv'
<1> SUFFICES ASSUME TypeOK, OwnerInv, [Next]_vars PROVE OwnerInv'
  OBVIOUS
<1> USE DEF disk, job, marks, history
\* It is enough that each of the four ways leads back to an owner.
<1>a. ASSUME made' = made,
             \A n \in Name : \A i \in Id :
               /\ InIndex(n, i)' => Holds(n, i)
               /\ InMap(n, i)' => Holds(n, i)
               /\ InFile(n, i)' => Holds(n, i)
               /\ InJob(n, i)' => Holds(n, i)
      PROVE  OwnerInv'
  BY <1>a, HoldsBy, OwnerKept, ZenonT(60)
<1>b. \A n, i : /\ InIndex(n, i) => Holds(n, i)
                /\ InMap(n, i) => Holds(n, i)
                /\ InFile(n, i) => Holds(n, i)
                /\ InJob(n, i) => Holds(n, i)
  BY HoldsBy, ZenonT(60)
\* What an action leaves alone.
<1>c. /\ UNCHANGED index => \A n, i : InIndex(n, i)' => InIndex(n, i)
      /\ UNCHANGED sessions => \A n, i : InMap(n, i)' => InMap(n, i)
      /\ UNCHANGED file => \A n, i : InFile(n, i)' => InFile(n, i)
  BY ZenonT(60) DEF InIndex, InMap, InFile
<1>d. ASSUME \A q \in Process : Busy(q)' => Busy(q) /\ id'[q] = id[q] /\ sess'[q] = sess[q]
      PROVE  \A n, i : InJob(n, i)' => InJob(n, i)
  BY ZenonT(60), <1>d DEF InJob
<1>0. CASE UNCHANGED vars
  <2>1. \A q \in Process : Busy(q)' => Busy(q) /\ id'[q] = id[q] /\ sess'[q] = sess[q]
    BY ZenonT(60), <1>0 DEF vars, Busy
  <2> QED BY ZenonT(60), <1>0, <2>1, <1>a, <1>b, <1>c, <1>d DEF vars
<1>1. ASSUME NEW p \in Process, Load(p) PROVE OwnerInv'
  <2>1. \A q \in Process : Busy(q)' => Busy(q) /\ id'[q] = id[q] /\ sess'[q] = sess[q]
    BY ZenonT(60), <1>1 DEF Load, Busy, Set, TypeOK, JobOK
  <2>2. ASSUME NEW n \in Name, NEW i \in Id, InMap(n, i)' PROVE Holds(n, i)
    <3>1. InMap(n, i) \/ (index # Absent /\ index.map[n] = i)
      BY ZenonT(60), <1>1, <2>2 DEF Load, InMap, Set, TypeOK, MapOK, NoEntries, Id, NoId
    <3>2. index # Absent => index.kind = "map"
      BY <1>1, Kinds DEF Load, TypeOK, DiskOK
    <3> QED BY ZenonT(60), <3>1, <3>2, <1>b DEF InIndex
  <2> QED BY ZenonT(60), <1>1, <2>1, <2>2, <1>a, <1>b, <1>c, <1>d DEF Load
<1>2. ASSUME NEW p \in Process, sendMsg(p) PROVE OwnerInv'
  <2>1. \A q \in Process : Busy(q)' => Busy(q) /\ id'[q] = id[q] /\ sess'[q] = sess[q]
    BY ZenonT(60), <1>2 DEF sendMsg, Done, Work, Busy, Set, TypeOK, JobOK
  <2> QED BY ZenonT(60), <1>2, <2>1, <1>a, <1>b, <1>c, <1>d DEF sendMsg
<1>3. ASSUME NEW p \in Process, PutTruncate(p) PROVE OwnerInv'
  <2>1. \A q \in Process : Busy(q)' => Busy(q) /\ id'[q] = id[q] /\ sess'[q] = sess[q]
    BY ZenonT(60), <1>3 DEF PutTruncate, Busy, Set, TypeOK, JobOK
  <2>2. ASSUME NEW n \in Name, NEW i \in Id, InFile(n, i)' PROVE Holds(n, i)
    <3>1. InFile(n, i)
      BY ZenonT(60), <1>3, <2>2, Kinds DEF PutTruncate, InFile, Set, TypeOK, DiskOK
    <3> QED BY ZenonT(60), <3>1, <1>b
  <2> QED BY ZenonT(60), <1>3, <2>1, <2>2, <1>a, <1>b, <1>c, <1>d DEF PutTruncate
<1>4. ASSUME NEW p \in Process, PutWrite(p) PROVE OwnerInv'
  <2>1. \A q \in Process : Busy(q)' => Busy(q) /\ id'[q] = id[q] /\ sess'[q] = sess[q]
    <3>1. /\ pc[p] = "write"
          /\ Done(p) \/ (pc' = Set(pc, p, "delete") /\ UNCHANGED <<op, id, sess, linked>>)
      BY ZenonT(60), <1>4 DEF PutWrite
    <3> QED BY ZenonT(60), <3>1 DEF Done, Work, Busy, Set, TypeOK, JobOK
  <2>2. ASSUME NEW n \in Name, NEW i \in Id, InFile(n, i)' PROVE Holds(n, i)
    <3>1. InFile(n, i) \/ InJob(n, i)
      BY ZenonT(60), <1>4, <2>2 DEF PutWrite, InFile, InJob, Set, TypeOK, DiskOK, Busy
    <3> QED BY ZenonT(60), <3>1, <1>b
  <2> QED BY ZenonT(60), <1>4, <2>1, <2>2, <1>a, <1>b, <1>c, <1>d DEF PutWrite
<1>5. ASSUME NEW p \in Process, Delete(p) PROVE OwnerInv'
  <2>1. \A q \in Process : Busy(q)' => Busy(q) /\ id'[q] = id[q] /\ sess'[q] = sess[q]
    BY ZenonT(60), <1>5 DEF Delete, Busy, Set, TypeOK, JobOK
  <2>2. ASSUME NEW n \in Name, NEW i \in Id, InFile(n, i)' PROVE Holds(n, i)
    <3>1. InFile(n, i)
      BY ZenonT(60), <1>5, <2>2, Kinds DEF Delete, InFile, Set, TypeOK, DiskOK
    <3> QED BY ZenonT(60), <3>1, <1>b
  <2>3. ASSUME NEW n \in Name, NEW i \in Id, InMap(n, i)' PROVE Holds(n, i)
    <3>1. InMap(n, i)
      BY <1>5, <2>3 DEF Delete, InMap, Set, TypeOK, MapOK, Id, NoId
    <3> QED BY ZenonT(60), <3>1, <1>b
  <2> QED BY ZenonT(60), <1>5, <2>1, <2>2, <2>3, <1>a, <1>b, <1>c, <1>d DEF Delete
<1>6. ASSUME NEW p \in Process, Exit(p) PROVE OwnerInv'
  <2>1. \A q \in Process : Busy(q)' => Busy(q) /\ id'[q] = id[q] /\ sess'[q] = sess[q]
    BY ZenonT(60), <1>6 DEF Exit, Busy, Set, TypeOK, JobOK
  <2> QED BY ZenonT(60), <1>6, <2>1, <1>a, <1>b, <1>c, <1>d DEF Exit
<1>7. ASSUME NEW p \in Process, CloseTruncate(p) PROVE OwnerInv'
  <2>1. \A q \in Process : Busy(q)' => Busy(q) /\ id'[q] = id[q] /\ sess'[q] = sess[q]
    BY ZenonT(60), <1>7 DEF CloseTruncate, Busy, Set, TypeOK, JobOK
  <2>2. \A n, i : ~InIndex(n, i)'
    BY ZenonT(60), <1>7, Kinds DEF CloseTruncate, InIndex
  <2> QED BY ZenonT(60), <1>7, <2>1, <2>2, <1>a, <1>b, <1>c, <1>d DEF CloseTruncate
<1>8. ASSUME NEW p \in Process, Gone(p)
      PROVE  /\ \A q \in Process : Busy(q)' => Busy(q) /\ id'[q] = id[q] /\ sess'[q] = sess[q]
             /\ \A n \in Name : \A i \in Id : InMap(n, i)' => InMap(n, i)
  <2>1. \A q \in Process : Busy(q)' => Busy(q) /\ id'[q] = id[q] /\ sess'[q] = sess[q]
    BY ZenonT(60), <1>8 DEF Gone, Work, Busy, Set, TypeOK, JobOK
  <2>2. \A n \in Name : \A i \in Id : InMap(n, i)' => InMap(n, i)
    BY <1>8 DEF Gone, InMap, Set, TypeOK, MapOK, NoEntries, Id, NoId
  <2> QED BY ZenonT(60), <2>1, <2>2
<1>9. ASSUME NEW p \in Process, CloseWrite(p) PROVE OwnerInv'
  <2>1. ASSUME NEW n \in Name, NEW i \in Id, InIndex(n, i)' PROVE Holds(n, i)
    <3>1. InMap(n, i)
      BY ZenonT(60), <1>9, <2>1, Kinds DEF CloseWrite, InIndex, InMap
    <3> QED BY ZenonT(60), <3>1, <1>b
  <2> QED BY ZenonT(60), <1>8, <1>9, <2>1, <1>a, <1>b, <1>c, <1>d DEF CloseWrite
<1>10. ASSUME NEW p \in Process, GetPanics(p) PROVE OwnerInv'
  <2>1. CASE Gone(p)
    BY ZenonT(60), <1>8, <1>10, <2>1, <1>a, <1>b, <1>c, <1>d DEF GetPanics
  <2>2. CASE ~Gone(p)
    <3>1. /\ pc[p] = "idle" /\ pc' = Set(pc, p, "save")
          /\ UNCHANGED <<disk, op, id, sess, linked, sessions, made>>
      BY ZenonT(60), <1>10, <2>2 DEF GetPanics
    <3>2. \A q \in Process : Busy(q)' => Busy(q) /\ id'[q] = id[q] /\ sess'[q] = sess[q]
      BY ZenonT(60), <3>1 DEF Busy, Set, TypeOK, JobOK
    <3> QED BY ZenonT(60), <3>1, <3>2, <1>a, <1>b, <1>c, <1>d
  <2> QED BY ZenonT(60), <2>1, <2>2
<1>11. ASSUME NEW p \in Process, Die(p) PROVE OwnerInv'
  BY ZenonT(60), <1>8, <1>11, <1>a, <1>b, <1>c, <1>d DEF Die
<1>12. ASSUME NEW p \in Process, NEW n \in Name, Chat(p, n) PROVE OwnerInv'
  <2>1. PICK i \in Id :
          /\ ByName(p, n, i)
          /\ \/ UNCHANGED job
             \/ Work(p, "offer", i, Session(n, FALSE), "post")
             \/ /\ file[i].kind = "session"
                /\ Work(p, "send", i, [file[i] EXCEPT !.pending = FALSE], "post")
    BY ZenonT(60), <1>12 DEF Chat
  <2>2. file[i].kind = "session" => [file[i] EXCEPT !.pending = FALSE].name = n
    <3>1. file[i].kind = "session" => file[i] \in Contents /\ file[i].name = n
      BY ZenonT(60), <2>1, FoundByName
    <3> QED BY ZenonT(60), <3>1 DEF Contents
  <2>3. Session(n, FALSE).name = n
    BY ZenonT(60) DEF Session
  <2>4. pc[p] = "idle" /\ UNCHANGED disk
    BY ZenonT(60), <1>12 DEF Chat
  <2> HIDE DEF job, disk
  <2> QED BY ZenonT(60), <2>1, <2>2, <2>3, <2>4, OwnerStart
<1>13. ASSUME NEW p \in Process, NEW n \in Name, Send(p, n) PROVE OwnerInv'
  <2>1. PICK i \in Id :
          /\ ByName(p, n, i)
          /\ \/ UNCHANGED job
             \/ /\ file[i].kind = "session"
                /\ \E o \in {"send", "close"} : Work(p, o, i, file[i], "post")
    BY ZenonT(60), <1>13 DEF Send
  <2>2. file[i].kind = "session" => file[i].name = n
    BY <2>1, FoundByName
  <2>3. pc[p] = "idle" /\ UNCHANGED disk
    BY ZenonT(60), <1>13 DEF Send
  <2> HIDE DEF job, disk
  <2> QED BY ZenonT(60), <2>1, <2>2, <2>3, OwnerStart
<1>14. ASSUME NEW p \in Process, NEW n \in Name, ReceiveOffer(p, n) PROVE OwnerInv'
  <2>1. PICK i \in Id :
          ByName(p, n, i) /\ (UNCHANGED job \/ Work(p, "accept", i, Session(n, TRUE), "put"))
    BY ZenonT(60), <1>14 DEF ReceiveOffer
  <2>2. Session(n, TRUE).name = n
    BY ZenonT(60) DEF Session
  <2>3. pc[p] = "idle" /\ UNCHANGED disk
    BY ZenonT(60), <1>14 DEF ReceiveOffer
  <2> HIDE DEF job, disk
  <2> QED BY ZenonT(60), <2>1, <2>2, <2>3, OwnerStart
<1>15. ASSUME NEW p \in Process, NEW j \in Id, Receive(p, j) PROVE OwnerInv'
  <2>1. ASSUME NEW n \in Name, NEW i \in Id, InJob(n, i)' PROVE Holds(n, i)
    <3>1. PICK q \in Process : Busy(q)' /\ id'[q] = i /\ sess'[q].name = n
      BY ZenonT(60), <2>1 DEF InJob
    <3>2. PICK o : Work(p, o, j, file[j], "put")
      BY ZenonT(60), <1>15 DEF Receive
    <3>3. CASE q = p
      BY ZenonT(60), <1>15, <3>1, <3>2, <3>3, <1>b DEF Receive, InFile, Work, Set, TypeOK, JobOK
    <3>4. CASE q # p
      BY ZenonT(60), <3>1, <3>2, <3>4, <1>b DEF InJob, Work, Set, Busy, TypeOK, JobOK
    <3> QED BY ZenonT(60), <3>3, <3>4
  <2> QED BY ZenonT(60), <1>15, <2>1, <1>a, <1>b, <1>c DEF Receive
<1> QED
  BY ZenonT(60), <1>0, <1>1, <1>2, <1>3, <1>4, <1>5, <1>6, <1>7, <1>9, <1>10, <1>11, <1>12, <1>13,
     <1>14, <1>15 DEF Next

LEMMA OwnerInit == Init => OwnerInv
<1> SUFFICES ASSUME Init, NEW n \in Name, NEW i \in Id, Holds(n, i) PROVE FALSE
  BY ZenonT(60) DEF OwnerInv
<1>1. ~InIndex(n, i) /\ ~InFile(n, i)
  BY ZenonT(60), Kinds DEF Init, InIndex, InFile
<1>2. ~InMap(n, i) /\ ~InJob(n, i)
  BY DEF Init, InMap, InJob, NoEntries, Busy, Id, NoId
<1> QED BY ZenonT(60), <1>1, <1>2, HoldsBy

\* Whatever processes share the directory and wherever they die, an id never
\* belongs to two names: ByName and New give every peer a session of its own.
THEOREM EveryIdHasOneOwner == Spec => []OneOwner
<1>1. Init => TypeOK /\ OwnerInv
  BY ZenonT(60), TypeInit, OwnerInit
<1>2. TypeOK /\ OwnerInv /\ [Next]_vars => TypeOK' /\ OwnerInv'
  BY ZenonT(60), TypeNext, OwnerNext
<1>3. OwnerInv => OneOwner
  BY ZenonT(60) DEF OwnerInv, OneOwner, Holds
<1> QED BY <1>1, <1>2, <1>3, PTL DEF Spec

-----------------------------------------------------------------------------
TornIndex == index = Empty => IndexFile \in cut \/ \E p \in Process : pc[p] = "saving"

TornFile ==
  \A i \in Id : file[i] = Empty =>
    i \in cut \/ \E p \in Process : pc[p] = "write" /\ linked[p] /\ id[p] = i

\* A step that leaves the disk and cut alone, and every process that writes.
LEMMA TornKept ==
  ASSUME TornIndex, TornFile, UNCHANGED <<index, file, cut>>,
         \A q \in Process : pc[q] \in {"write", "saving"} =>
           pc'[q] = pc[q] /\ linked'[q] = linked[q] /\ id'[q] = id[q]
  PROVE  TornIndex' /\ TornFile'
BY DEF TornIndex, TornFile

LEMMA NotAnId == IndexFile \notin Id /\ NoId \notin Id
BY DEF IndexFile, NoId, Id

LEMMA TornNext == TypeOK /\ TornIndex /\ TornFile /\ [Next]_vars => TornIndex' /\ TornFile'
<1> SUFFICES ASSUME TypeOK, TornIndex, TornFile, [Next]_vars PROVE TornIndex' /\ TornFile'
  OBVIOUS
<1> USE DEF TypeOK, JobOK, disk, job, marks, history
<1>0. CASE UNCHANGED vars
  BY ZenonT(60), <1>0, TornKept DEF vars
<1>1. ASSUME NEW p \in Process, Load(p) PROVE TornIndex' /\ TornFile'
  BY ZenonT(60), <1>1, TornKept DEF Load, Set
<1>2. ASSUME NEW p \in Process, sendMsg(p) PROVE TornIndex' /\ TornFile'
  BY ZenonT(60), <1>2, TornKept DEF sendMsg, Done, Work, Set
<1>3. ASSUME NEW p \in Process, PutTruncate(p) PROVE TornIndex' /\ TornFile'
  <2>1. TornIndex'
    BY ZenonT(60), <1>3 DEF PutTruncate, Set, TornIndex
  <2>2. TornFile'
    BY ZenonT(60), <1>3 DEF PutTruncate, Set, TornFile, DiskOK
  <2> QED BY ZenonT(60), <2>1, <2>2
<1>4. ASSUME NEW p \in Process, PutWrite(p) PROVE TornIndex' /\ TornFile'
  <2>1. /\ pc[p] = "write" /\ UNCHANGED index
        /\ cut' = IF linked[p] THEN cut \ {id[p]} ELSE cut
        /\ file' = IF linked[p] THEN Set(file, id[p], sess[p]) ELSE file
        /\ Done(p) \/ (pc' = Set(pc, p, "delete") /\ UNCHANGED <<op, id, sess, linked>>)
    BY ZenonT(60), <1>4 DEF PutWrite
  <2>2. id[p] \in Id /\ sess[p] # Empty
    BY ZenonT(60), <2>1, Kinds DEF Busy
  <2>3. /\ pc'[p] \in {"idle", "delete"}
        /\ \A q \in Process : q # p => pc'[q] = pc[q] /\ id'[q] = id[q] /\ linked'[q] = linked[q]
    BY ZenonT(60), <2>1 DEF Done, Work, Set
  <2>4. TornIndex'
    <3>1. IndexFile \in cut => IndexFile \in cut'
      BY ZenonT(60), <2>1, <2>2, NotAnId
    <3>2. \A q \in Process : pc[q] = "saving" => pc'[q] = "saving"
      BY ZenonT(60), <2>1, <2>3
    <3> QED BY ZenonT(60), <2>1, <3>1, <3>2 DEF TornIndex
  <2>5. ASSUME NEW i \in Id, file'[i] = Empty
        PROVE  i \in cut' \/ \E q \in Process : pc'[q] = "write" /\ linked'[q] /\ id'[q] = i
    <3>1. file[i] = Empty /\ ~(linked[p] /\ id[p] = i)
      BY ZenonT(60), <2>1, <2>2, <2>5 DEF Set, DiskOK
    <3>2. CASE i \in cut
      BY ZenonT(60), <2>1, <3>1, <3>2
    <3>3. CASE i \notin cut
      <4>1. PICK q \in Process : pc[q] = "write" /\ linked[q] /\ id[q] = i
        BY ZenonT(60), <3>1, <3>3 DEF TornFile
      <4> QED BY ZenonT(60), <2>3, <3>1, <4>1
    <3> QED BY ZenonT(60), <3>2, <3>3
  <2> QED BY ZenonT(60), <2>4, <2>5 DEF TornFile
<1>5. ASSUME NEW p \in Process, Delete(p) PROVE TornIndex' /\ TornFile'
  <2>1. id[p] \in Id
    BY ZenonT(60), <1>5 DEF Delete, Busy
  <2>2. TornIndex'
    <3>1. IndexFile \in cut => IndexFile \in cut'
      BY ZenonT(60), <1>5, <2>1, NotAnId DEF Delete
    <3>2. \A q \in Process : pc[q] = "saving" => pc'[q] = "saving"
      BY ZenonT(60), <1>5 DEF Delete, Set
    <3> QED BY ZenonT(60), <1>5, <3>1, <3>2 DEF TornIndex, Delete
  <2>3. TornFile'
    <3> SUFFICES ASSUME NEW i \in Id, file'[i] = Empty
                 PROVE  i \in cut' \/ \E q \in Process : pc'[q] = "write" /\ linked'[q] /\ id'[q] = i
      BY ZenonT(60) DEF TornFile
    <3>1. i # id[p] /\ file[i] = Empty
      BY ZenonT(60), <1>5, <2>1, Kinds DEF Delete, Set, DiskOK
    <3>2. CASE i \in cut
      BY ZenonT(60), <1>5, <3>1, <3>2 DEF Delete
    <3>3. CASE i \notin cut
      <4>1. PICK q \in Process : pc[q] = "write" /\ linked[q] /\ id[q] = i
        BY ZenonT(60), <3>1, <3>3 DEF TornFile
      <4> QED BY ZenonT(60), <1>5, <3>1, <4>1 DEF Delete, Set
    <3> QED BY ZenonT(60), <3>2, <3>3
  <2> QED BY ZenonT(60), <2>2, <2>3
<1>6. ASSUME NEW p \in Process, Exit(p) PROVE TornIndex' /\ TornFile'
  BY ZenonT(60), <1>6, TornKept DEF Exit, Set
<1>7. ASSUME NEW p \in Process, CloseTruncate(p) PROVE TornIndex' /\ TornFile'
  <2>1. TornIndex'
    BY ZenonT(60), <1>7 DEF CloseTruncate, Set, TornIndex
  <2>2. TornFile'
    BY ZenonT(60), <1>7 DEF CloseTruncate, Set, TornFile
  <2> QED BY ZenonT(60), <2>1, <2>2
<1>8. ASSUME NEW p \in Process, CloseWrite(p) PROVE TornIndex' /\ TornFile'
  <2>1. TornIndex'
    BY ZenonT(60), <1>8, Kinds DEF CloseWrite, TornIndex
  <2>2. TornFile'
    <3>1. \A i \in Id : i \in cut => i \in cut'
      BY ZenonT(60), <1>8, NotAnId DEF CloseWrite
    <3>2. \A q \in Process : pc[q] = "write" =>
            pc'[q] = "write" /\ linked'[q] = linked[q] /\ id'[q] = id[q]
      BY ZenonT(60), <1>8 DEF CloseWrite, Gone, Work, Set
    <3>3. UNCHANGED file
      BY ZenonT(60), <1>8 DEF CloseWrite
    <3>4. ASSUME NEW i \in Id, file[i] = Empty
          PROVE  i \in cut' \/ \E q \in Process : pc'[q] = "write" /\ linked'[q] /\ id'[q] = i
      <4>1. CASE i \in cut
        BY ZenonT(60), <3>1, <4>1
      <4>2. CASE i \notin cut
        <5>1. PICK q \in Process : pc[q] = "write" /\ linked[q] /\ id[q] = i
          BY ZenonT(60), <3>4, <4>2 DEF TornFile
        <5> QED BY ZenonT(60), <3>2, <5>1
      <4> QED BY ZenonT(60), <4>1, <4>2
    <3> QED BY ZenonT(60), <3>3, <3>4 DEF TornFile
  <2> QED BY ZenonT(60), <2>1, <2>2
<1>9. ASSUME NEW p \in Process, GetPanics(p) PROVE TornIndex' /\ TornFile'
  <2>1. /\ pc[p] = "idle" /\ UNCHANGED <<index, file, cut>>
        /\ Gone(p) \/ (pc' = Set(pc, p, "save") /\ UNCHANGED <<op, id, sess, linked>>)
    BY ZenonT(60), <1>9 DEF GetPanics
  <2> QED BY ZenonT(60), <2>1, TornKept DEF Gone, Work, Set
<1>10. ASSUME NEW p \in Process, Die(p) PROVE TornIndex' /\ TornFile'
  <2>1. TornIndex'
    BY ZenonT(60), <1>10 DEF Die, Gone, Work, Set, TornIndex
  <2>2. TornFile'
    BY ZenonT(60), <1>10 DEF Die, Gone, Work, Set, TornFile
  <2> QED BY ZenonT(60), <2>1, <2>2
<1>11. ASSUME NEW p \in Process, NEW n \in Name, Chat(p, n) PROVE TornIndex' /\ TornFile'
  <2>1. /\ pc[p] = "idle" /\ UNCHANGED <<index, file, cut>>
        /\ UNCHANGED job \/ \E o, i, s, next : Work(p, o, i, s, next)
    BY ZenonT(60), <1>11 DEF Chat
  <2> QED BY ZenonT(60), <2>1, TornKept DEF Work, Set
<1>12. ASSUME NEW p \in Process, NEW n \in Name, Send(p, n) PROVE TornIndex' /\ TornFile'
  <2>1. /\ pc[p] = "idle" /\ UNCHANGED <<index, file, cut>>
        /\ UNCHANGED job \/ \E o, i, s, next : Work(p, o, i, s, next)
    BY ZenonT(60), <1>12 DEF Send
  <2> QED BY ZenonT(60), <2>1, TornKept DEF Work, Set
<1>13. ASSUME NEW p \in Process, NEW n \in Name, ReceiveOffer(p, n) PROVE TornIndex' /\ TornFile'
  <2>1. /\ pc[p] = "idle" /\ UNCHANGED <<index, file, cut>>
        /\ UNCHANGED job \/ \E o, i, s, next : Work(p, o, i, s, next)
    BY ZenonT(60), <1>13 DEF ReceiveOffer
  <2> QED BY ZenonT(60), <2>1, TornKept DEF Work, Set
<1>14. ASSUME NEW p \in Process, NEW i \in Id, Receive(p, i) PROVE TornIndex' /\ TornFile'
  <2>1. /\ pc[p] = "idle" /\ UNCHANGED <<index, file, cut>>
        /\ \E o, s, next : Work(p, o, i, s, next)
    BY ZenonT(60), <1>14 DEF Receive
  <2> QED BY ZenonT(60), <2>1, TornKept DEF Work, Set
<1> QED
  BY ZenonT(60), <1>0, <1>1, <1>2, <1>3, <1>4, <1>5, <1>6, <1>7, <1>8, <1>9, <1>10, <1>11, <1>12,
     <1>13, <1>14 DEF Next

\* Only a process that dies between the truncation and the write of Put or Close
\* leaves an empty session file or index behind, however many run and die.
THEOREM EmptyFilesComeFromDeaths == Spec => []TornOnlyByDeath
<1>1. Init => TypeOK /\ TornIndex /\ TornFile
  <2>1. Init => TornIndex /\ TornFile
    BY Kinds DEF Init, TornIndex, TornFile
  <2> QED BY ZenonT(60), <2>1, TypeInit
<1>2. TypeOK /\ TornIndex /\ TornFile /\ [Next]_vars => TypeOK' /\ TornIndex' /\ TornFile'
  BY ZenonT(60), TypeNext, TornNext
<1>3. TornIndex /\ TornFile => TornOnlyByDeath
  BY ZenonT(60) DEF TornIndex, TornFile, TornOnlyByDeath
<1> QED BY <1>1, <1>2, <1>3, PTL DEF Spec

-----------------------------------------------------------------------------
(* One process at a time *)

\* Where a name may lead, now or after the next Load.
Leads(n, i) ==
  \/ \E p \in Process : sessions[p][n] = i
  \/ index.kind = "map" /\ index.map[n] = i

Alone == \A p, q \in Process : pc[p] # "off" /\ pc[q] # "off" => p = q

\* The marks of a single process.
SpentInv ==
  /\ \A p \in Process : linked[p]
  /\ \A i \in spent : \E p \in Process : id[p] = i /\ pc[p] \in {"put", "write", "delete"}

\* A session that a name may lead to is the newest; an entry of the index that
\* the map does not have leads to no session.
NewestInv ==
  /\ \A p \in Process : op[p] \in {"offer", "accept"} => sessions[p][sess[p].name] = id[p]
  /\ \A i \in stale : i <= made
  /\ \A n \in Name \ unmapped : \A i \in Id :
       Leads(n, i) /\ i \in stale =>
         /\ file[i].kind # "session"
         /\ \A p \in Process : id[p] = i => op[p] \in {"offer", "accept"}
  /\ \A n \in Name \ unmapped : \A j \in Id : \A p \in Process :
       pc[p] # "off" /\ index.kind = "map" /\ index.map[n] = j /\ sessions[p][n] # j =>
         file[j].kind # "session" /\ id[p] # j

\* Without deaths.
OrphanInv ==
  /\ cut = {}
  /\ \A p \in Process : Busy(p) => sessions[p][sess[p].name] = id[p]
  /\ \A i \in Id : file[i].kind = "session" =>
       /\ \A p \in Process : pc[p] # "off" => sessions[p][file[i].name] = i
       /\ (\A p \in Process : pc[p] = "off") =>
            index.kind = "map" /\ index.map[file[i].name] = i

AloneInv ==
  ~overlap => Alone /\ SpentInv /\ NewestInv /\ (deaths = 0 => OrphanInv)

-----------------------------------------------------------------------------
\* What Chat, Send and ReceiveOffer for n have in common: they work on session j
\* that ByName returns, if they do not end at once.
StartsOn(p, n, j) ==
  /\ pc[p] = "idle" /\ ByName(p, n, j) /\ UNCHANGED <<disk, history>>
  /\ \/ UNCHANGED job
     \/ \E o \in {"offer", "accept", "send", "close"}, s \in Contents, next \in {"post", "put"} :
          /\ Work(p, o, j, s, next) /\ s.name = n
          /\ o \notin {"offer", "accept"} => file[j].kind = "session"

LEMMA Starts ==
  ASSUME TypeOK, OwnerInv, NEW p \in Process, NEW n \in Name,
         Chat(p, n) \/ Send(p, n) \/ ReceiveOffer(p, n)
  PROVE  \E j \in Id : StartsOn(p, n, j)
<1>1. ASSUME Chat(p, n) PROVE \E j \in Id : StartsOn(p, n, j)
  <2>1. PICK i \in Id :
          /\ ByName(p, n, i)
          /\ \/ UNCHANGED job
             \/ Work(p, "offer", i, Session(n, FALSE), "post")
             \/ /\ file[i].kind = "session"
                /\ Work(p, "send", i, [file[i] EXCEPT !.pending = FALSE], "post")
    BY ZenonT(60), <1>1 DEF Chat
  <2>2. file[i].kind = "session" =>
          [file[i] EXCEPT !.pending = FALSE] \in Contents /\ [file[i] EXCEPT !.pending = FALSE].name = n
    <3>1. file[i].kind = "session" => file[i] \in Contents /\ file[i].name = n
      BY ZenonT(60), <2>1, FoundByName
    <3> QED BY ZenonT(60), <3>1 DEF Contents
  <2>3. Session(n, FALSE) \in Contents /\ Session(n, FALSE).name = n
    BY ZenonT(60), Kinds
  <2>4. pc[p] = "idle" /\ UNCHANGED <<disk, history>>
    BY ZenonT(60), <1>1 DEF Chat
  <2> QED BY ZenonT(60), <2>1, <2>2, <2>3, <2>4 DEF StartsOn
<1>2. ASSUME Send(p, n) PROVE \E j \in Id : StartsOn(p, n, j)
  <2>1. PICK i \in Id :
          /\ ByName(p, n, i)
          /\ \/ UNCHANGED job
             \/ /\ file[i].kind = "session"
                /\ \E o \in {"send", "close"} : Work(p, o, i, file[i], "post")
    BY ZenonT(60), <1>2 DEF Send
  <2>2. file[i].kind = "session" => file[i] \in Contents /\ file[i].name = n
    BY <2>1, FoundByName
  <2>3. pc[p] = "idle" /\ UNCHANGED <<disk, history>>
    BY ZenonT(60), <1>2 DEF Send
  <2> QED BY ZenonT(60), <2>1, <2>2, <2>3 DEF StartsOn
<1>3. ASSUME ReceiveOffer(p, n) PROVE \E j \in Id : StartsOn(p, n, j)
  <2>1. PICK i \in Id :
          ByName(p, n, i) /\ (UNCHANGED job \/ Work(p, "accept", i, Session(n, TRUE), "put"))
    BY ZenonT(60), <1>3 DEF ReceiveOffer
  <2>2. Session(n, TRUE) \in Contents /\ Session(n, TRUE).name = n
    BY ZenonT(60), Kinds
  <2>3. pc[p] = "idle" /\ UNCHANGED <<disk, history>>
    BY ZenonT(60), <1>3 DEF ReceiveOffer
  <2> QED BY ZenonT(60), <2>1, <2>2, <2>3 DEF StartsOn
<1> QED BY ZenonT(60), <1>1, <1>2, <1>3

\* What PutWrite does while processes do not overlap.
LEMMA Writes ==
  ASSUME TypeOK, NEW p \in Process, PutWrite(p), ~overlap, linked[p]
  PROVE  /\ pc[p] = "write" /\ id[p] \in Id /\ sess[p] \in Contents
         /\ file' = Set(file, id[p], sess[p]) /\ cut' = cut \ {id[p]} /\ spent' = spent \ {id[p]}
         /\ stale' = IF op[p] \in {"offer", "accept"}
                     THEN (stale \cup OfName(sess[p].name)) \ {id[p]} ELSE stale
         /\ Done(p) \/ (pc' = Set(pc, p, "delete") /\ op[p] = "receive close"
                                                   /\ UNCHANGED <<op, id, sess, linked>>)
         /\ UNCHANGED <<index, sessions, made, unmapped, deaths, overlap>>
BY ZenonT(60) DEF PutWrite, Kept, TypeOK, JobOK, Busy

\* What Load does while no process runs.
LEMMA Loads ==
  ASSUME TypeOK, NEW p \in Process, Load(p), \A q \in Process : pc[q] = "off", ~overlap'
  PROVE  /\ UNCHANGED <<index, file, op, id, sess, made, stale, unmapped, cut>>
         /\ pc'[p] = "idle"
         /\ \A q \in Process : q # p => pc'[q] = "off" /\ sessions'[q] = sessions[q]
         /\ index.kind = "map" => sessions'[p] = index.map
         /\ index.kind # "map" => sessions'[p] = NoEntries
<1>1. /\ UNCHANGED <<index, file, op, id, sess, made, stale, unmapped, cut>>
      /\ pc' = Set(pc, p, "idle") /\ index # Empty
      /\ sessions' = Set(sessions, p, IF index = Absent THEN NoEntries ELSE index.map)
  BY ZenonT(60) DEF Load, disk
<1>2. pc'[p] = "idle" /\ \A q \in Process : q # p => pc'[q] = "off"
  BY ZenonT(60), <1>1 DEF Set, TypeOK, JobOK
<1>3. /\ \A q \in Process : q # p => sessions'[q] = sessions[q]
      /\ sessions'[p] = IF index = Absent THEN NoEntries ELSE index.map
  BY ZenonT(60), <1>1 DEF Set, TypeOK, MapOK
<1>4. index = Absent <=> index.kind # "map"
  BY <1>1, Kinds DEF TypeOK, DiskOK
<1> QED BY ZenonT(60), <1>1, <1>2, <1>3, <1>4

LEMMA Panics ==
  ASSUME NEW p \in Process, GetPanics(p)
  PROVE  /\ pc[p] = "idle" /\ UNCHANGED <<disk, made, history>>
         /\ Gone(p) \/ (pc' = Set(pc, p, "save") /\ UNCHANGED <<op, id, sess, linked, sessions>>)
BY ZenonT(60) DEF GetPanics

\* Next, with the operations that start put together.
LEMMA NextCases ==
  ASSUME TypeOK, OwnerInv, [Next]_vars
  PROVE  \/ UNCHANGED vars
         \/ \E p \in Process :
              \/ Load(p) \/ sendMsg(p) \/ PutTruncate(p) \/ PutWrite(p) \/ Delete(p)
              \/ Exit(p) \/ CloseTruncate(p) \/ CloseWrite(p) \/ GetPanics(p) \/ Die(p)
              \/ \E n \in Name, j \in Id : StartsOn(p, n, j)
              \/ \E i \in Id : Receive(p, i)
BY ZenonT(60), Starts DEF Next

\* No process starts beside another, and nobody runs after it is off.
LEMMA AloneNext ==
  ASSUME TypeOK, OwnerInv, ~overlap => Alone, [Next]_vars, ~overlap'
  PROVE  ~overlap /\ Alone /\ Alone'
<1> USE DEF TypeOK, JobOK, disk, job, marks, history
<1>a. ASSUME UNCHANGED overlap, \A q \in Process : pc'[q] # "off" => pc[q] # "off"
      PROVE  ~overlap /\ Alone /\ Alone'
  BY ZenonT(60), <1>a DEF Alone
<1>0. CASE UNCHANGED vars
  BY ZenonT(60), <1>0, <1>a DEF vars
<1>1. ASSUME NEW p \in Process, Load(p) PROVE ~overlap /\ Alone /\ Alone'
  <2>1. ~overlap /\ \A q \in Process : pc[q] = "off"
    BY ZenonT(60), <1>1 DEF Load
  <2> QED BY ZenonT(60), <1>1, <2>1 DEF Load, Set, Alone
<1>2. ASSUME NEW p \in Process, sendMsg(p) PROVE ~overlap /\ Alone /\ Alone'
  BY ZenonT(60), <1>2, <1>a DEF sendMsg, Done, Work, Set
<1>3. ASSUME NEW p \in Process, PutTruncate(p) PROVE ~overlap /\ Alone /\ Alone'
  BY ZenonT(60), <1>3, <1>a DEF PutTruncate, Set
<1>4. ASSUME NEW p \in Process, PutWrite(p) PROVE ~overlap /\ Alone /\ Alone'
  <2>1. /\ pc[p] = "write" /\ UNCHANGED overlap
        /\ Done(p) \/ pc' = Set(pc, p, "delete")
    BY ZenonT(60), <1>4 DEF PutWrite
  <2> QED BY ZenonT(60), <2>1, <1>a DEF Done, Work, Set
<1>5. ASSUME NEW p \in Process, Delete(p) PROVE ~overlap /\ Alone /\ Alone'
  BY ZenonT(60), <1>5, <1>a DEF Delete, Set
<1>6. ASSUME NEW p \in Process, Exit(p) PROVE ~overlap /\ Alone /\ Alone'
  BY ZenonT(60), <1>6, <1>a DEF Exit, Set
<1>7. ASSUME NEW p \in Process, CloseTruncate(p) PROVE ~overlap /\ Alone /\ Alone'
  BY ZenonT(60), <1>7, <1>a DEF CloseTruncate, Set
<1>8. ASSUME NEW p \in Process, CloseWrite(p) PROVE ~overlap /\ Alone /\ Alone'
  BY ZenonT(60), <1>8, <1>a DEF CloseWrite, Gone, Work, Set
<1>9. ASSUME NEW p \in Process, GetPanics(p) PROVE ~overlap /\ Alone /\ Alone'
  BY ZenonT(60), <1>9, <1>a, Panics DEF Gone, Work, Set
<1>10. ASSUME NEW p \in Process, Die(p) PROVE ~overlap /\ Alone /\ Alone'
  BY ZenonT(60), <1>10, <1>a DEF Die, Gone, Work, Set
<1>11. ASSUME NEW p \in Process, NEW n \in Name, NEW j \in Id, StartsOn(p, n, j)
       PROVE  ~overlap /\ Alone /\ Alone'
  BY ZenonT(60), <1>11, <1>a DEF StartsOn, Work, Set
<1>12. ASSUME NEW p \in Process, NEW i \in Id, Receive(p, i) PROVE ~overlap /\ Alone /\ Alone'
  BY ZenonT(60), <1>12, <1>a DEF Receive, Work, Set
<1> QED
  BY ZenonT(60), NextCases, <1>0, <1>1, <1>2, <1>3, <1>4, <1>5, <1>6, <1>7, <1>8, <1>9, <1>10,
     <1>11, <1>12

-----------------------------------------------------------------------------
\* A step that leaves the marks alone, and a process that has posted.
LEMMA SpentKept ==
  ASSUME SpentInv, UNCHANGED spent, \A q \in Process : linked[q] => linked'[q],
         \A q \in Process : pc[q] \in {"put", "write", "delete"} =>
           pc'[q] \in {"put", "write", "delete"} /\ id'[q] = id[q]
  PROVE  SpentInv'
BY DEF SpentInv

\* A step after which id[p] is not spent.
LEMMA SpentSaved ==
  ASSUME SpentInv, NEW p \in Process, spent' = spent \ {id[p]},
         \A q \in Process : linked[q] => linked'[q],
         \A q \in Process : q # p => pc'[q] = pc[q] /\ id'[q] = id[q]
  PROVE  SpentInv'
<1> SUFFICES ASSUME NEW i \in spent'
             PROVE  \E q \in Process : id'[q] = i /\ pc'[q] \in {"put", "write", "delete"}
  BY ZenonT(60) DEF SpentInv
<1>1. PICK q \in Process : id[q] = i /\ pc[q] \in {"put", "write", "delete"}
  BY ZenonT(60) DEF SpentInv
<1> QED BY ZenonT(60), <1>1

LEMMA SpentNext ==
  ASSUME TypeOK, OwnerInv, ~overlap, Alone, SpentInv, [Next]_vars, ~overlap'
  PROVE  SpentInv'
<1> USE DEF TypeOK, JobOK, disk, job, marks, history
<1>0. CASE UNCHANGED vars
  BY ZenonT(60), <1>0, SpentKept DEF vars
<1>1. ASSUME NEW p \in Process, Load(p) PROVE SpentInv'
  BY ZenonT(60), <1>1, SpentKept DEF Load, Set
<1>2. ASSUME NEW p \in Process, sendMsg(p) PROVE SpentInv'
  <2>1. CASE Done(p)
    BY ZenonT(60), <1>2, <2>1, SpentKept DEF sendMsg, Done, Work, Set
  <2>2. CASE ~Done(p)
    <3>1. /\ pc[p] = "post" /\ UNCHANGED <<id, linked>>
          /\ spent' \subseteq spent \cup {id[p]}
          /\ pc'[p] \in {"put", "delete"} /\ \A q \in Process : q # p => pc'[q] = pc[q]
      BY ZenonT(60), <1>2, <2>2 DEF sendMsg, Kept, Set
    <3>2. ASSUME NEW i \in spent'
          PROVE  \E q \in Process : id'[q] = i /\ pc'[q] \in {"put", "write", "delete"}
      <4>1. CASE i = id[p]
        BY ZenonT(60), <3>1, <4>1
      <4>2. CASE i # id[p]
        <5>1. PICK q \in Process : id[q] = i /\ pc[q] \in {"put", "write", "delete"}
          BY ZenonT(60), <3>1, <3>2, <4>2 DEF SpentInv
        <5> QED BY ZenonT(60), <3>1, <4>2, <5>1
      <4> QED BY ZenonT(60), <4>1, <4>2
    <3> QED BY ZenonT(60), <3>1, <3>2 DEF SpentInv
  <2> QED BY ZenonT(60), <2>1, <2>2
<1>3. ASSUME NEW p \in Process, PutTruncate(p) PROVE SpentInv'
  BY ZenonT(60), <1>3, SpentKept DEF PutTruncate, Set
<1>4. ASSUME NEW p \in Process, PutWrite(p) PROVE SpentInv'
  <2>1. linked[p]
    BY ZenonT(60) DEF SpentInv
  <2>2. /\ spent' = spent \ {id[p]}
        /\ Done(p) \/ (pc' = Set(pc, p, "delete") /\ UNCHANGED <<op, id, sess, linked>>)
    BY ZenonT(60), <1>4, <2>1, Writes
  <2> QED BY ZenonT(60), <2>2, SpentSaved DEF Done, Work, Set
<1>5. ASSUME NEW p \in Process, Delete(p) PROVE SpentInv'
  <2>1. \A q \in Process : q # p => id[q] # id[p]
    <3>1. \A q \in Process : q # p => pc[q] = "off"
      BY ZenonT(60), <1>5 DEF Delete, Alone
    <3>2. id[p] \in Id
      BY ZenonT(60), <1>5 DEF Delete, Busy
    <3>3. \A q \in Process : q # p => id[q] = NoId
      BY ZenonT(60), <3>1 DEF Busy
    <3> QED BY ZenonT(60), <3>2, <3>3, NotAnId
  <2> QED BY ZenonT(60), <1>5, <2>1, SpentSaved DEF Delete, Set
<1>6. ASSUME NEW p \in Process, Exit(p) PROVE SpentInv'
  BY ZenonT(60), <1>6, SpentKept DEF Exit, Set
<1>7. ASSUME NEW p \in Process, CloseTruncate(p) PROVE SpentInv'
  BY ZenonT(60), <1>7, SpentKept DEF CloseTruncate, Set
<1>8. ASSUME NEW p \in Process, CloseWrite(p) PROVE SpentInv'
  BY ZenonT(60), <1>8, SpentKept DEF CloseWrite, Gone, Work, Set
<1>9. ASSUME NEW p \in Process, GetPanics(p) PROVE SpentInv'
  BY ZenonT(60), <1>9, Panics, SpentKept DEF Gone, Work, Set
<1>10. ASSUME NEW p \in Process, Die(p) PROVE SpentInv'
  BY ZenonT(60), <1>10, SpentSaved DEF Die, Gone, Work, Set
<1>11. ASSUME NEW p \in Process, NEW n \in Name, NEW j \in Id, StartsOn(p, n, j)
       PROVE  SpentInv'
  BY ZenonT(60), <1>11, SpentKept DEF StartsOn, Work, Set
<1>12. ASSUME NEW p \in Process, NEW i \in Id, Receive(p, i) PROVE SpentInv'
  BY ZenonT(60), <1>12, SpentKept DEF Receive, Work, Set
<1> QED
  BY ZenonT(60), NextCases, <1>0, <1>1, <1>2, <1>3, <1>4, <1>5, <1>6, <1>7, <1>8, <1>9, <1>10,
     <1>11, <1>12

-----------------------------------------------------------------------------
LEMMA LeadsBy ==
  ASSUME NEW n, NEW i
  PROVE  /\ Leads(n, i) <=> InMap(n, i) \/ InIndex(n, i)
         /\ Leads(n, i)' <=> InMap(n, i)' \/ InIndex(n, i)'
BY ZenonT(60) DEF Leads, InMap, InIndex

\* A step that starts no operation, writes no session and maps no name.
LEMMA NewestKept ==
  ASSUME NewestInv, UNCHANGED <<unmapped, stale, made>>,
         \A q \in Process : op'[q] \in {"offer", "accept"} =>
           op[q] = op'[q] /\ sess'[q] = sess[q] /\ id'[q] = id[q] /\ sessions'[q] = sessions[q],
         \A q \in Process : id'[q] \in Id => id'[q] = id[q] /\ op'[q] = op[q],
         \A i \in Id : file'[i].kind = "session" => file[i].kind = "session",
         \A n \in Name : \A i \in Id : Leads(n, i)' => Leads(n, i),
         \A n \in Name : \A j \in Id : \A q \in Process :
           pc'[q] # "off" /\ InIndex(n, j)' /\ sessions'[q][n] # j =>
             pc[q] # "off" /\ InIndex(n, j) /\ sessions[q][n] # j
  PROVE  NewestInv'
<1>1. /\ \A q \in Process : op'[q] \in {"offer", "accept"} => sessions'[q][sess'[q].name] = id'[q]
      /\ \A i \in stale' : i <= made'
  BY DEF NewestInv
<1>2. ASSUME NEW n \in Name \ unmapped, NEW i \in Id, Leads(n, i)', i \in stale
      PROVE  /\ file'[i].kind # "session"
             /\ \A q \in Process : id'[q] = i => op'[q] \in {"offer", "accept"}
  <2>1. Leads(n, i)
    BY ZenonT(60), <1>2
  <2>2. /\ file[i].kind # "session"
        /\ \A q \in Process : id[q] = i => op[q] \in {"offer", "accept"}
    BY ZenonT(60), <1>2, <2>1 DEF NewestInv
  <2> QED BY ZenonT(60), <2>2
<1>3. ASSUME NEW n \in Name \ unmapped, NEW j \in Id, NEW q \in Process,
             pc'[q] # "off", InIndex(n, j)', sessions'[q][n] # j
      PROVE  file'[j].kind # "session" /\ id'[q] # j
  <2>1. pc[q] # "off" /\ InIndex(n, j) /\ sessions[q][n] # j
    BY ZenonT(60), <1>3
  <2>2. file[j].kind # "session" /\ id[q] # j
    BY <2>1 DEF NewestInv, InIndex
  <2> QED BY ZenonT(60), <2>2
<1> QED BY <1>1, <1>2, <1>3 DEF NewestInv, InIndex

\* While processes do not overlap, only the map of the one that runs has entries.
LEMMA MapOfOne ==
  ASSUME TypeOK, Alone, NEW p \in Process, pc[p] # "off"
  PROVE  /\ \A q \in Process : q # p => pc[q] = "off" /\ id[q] = NoId /\ op[q] = "none"
         /\ \A n \in Name : \A i \in Id : InMap(n, i) <=> sessions[p][n] = i
<1>1. \A q \in Process : q # p => pc[q] = "off" /\ id[q] = NoId /\ op[q] = "none"
  BY ZenonT(60) DEF Alone, TypeOK, JobOK, Busy
<1>2. \A q \in Process : q # p => sessions[q] = NoEntries
  BY ZenonT(60), <1>1 DEF TypeOK, MapOK
<1>3. \A n \in Name : \A i \in Id : InMap(n, i) <=> sessions[p][n] = i
  BY ZenonT(60), <1>2, NotAnId DEF InMap, NoEntries
<1> QED BY ZenonT(60), <1>1, <1>3

LEMMA NewestWrite ==
  ASSUME TypeOK, OwnerInv, ~overlap, Alone, SpentInv, NewestInv, NEW p \in Process, PutWrite(p)
  PROVE  NewestInv'
<1> DEFINE i == id[p]  m == sess[p].name
<1>1. /\ pc[p] = "write" /\ i \in Id /\ sess[p] \in Contents
      /\ file' = Set(file, i, sess[p])
      /\ stale' = IF op[p] \in {"offer", "accept"} THEN (stale \cup OfName(m)) \ {i} ELSE stale
      /\ Done(p) \/ (pc' = Set(pc, p, "delete") /\ op[p] = "receive close"
                                                /\ UNCHANGED <<op, id, sess, linked>>)
      /\ UNCHANGED <<index, sessions, made, unmapped>>
  <2>1. linked[p]
    BY ZenonT(60) DEF SpentInv
  <2> QED BY ZenonT(60), <2>1, Writes
<1>2. m \in Name
  BY ZenonT(60), <1>1, Kinds
<1>3. /\ \A q \in Process : q # p => pc[q] = "off" /\ id[q] = NoId /\ op[q] = "none"
      /\ \A n \in Name : \A j \in Id : InMap(n, j) <=> sessions[p][n] = j
  BY ZenonT(60), <1>1, MapOfOne
<1>4. /\ \A q \in Process : op'[q] \notin {"offer", "accept"}
      /\ \A q \in Process : q # p => pc'[q] = "off" /\ id'[q] = NoId
      /\ id'[p] \in {NoId, i}
      /\ op[p] \in {"offer", "accept"} => id'[p] = NoId
      /\ id'[p] = i => op'[p] = op[p]
  <2>1. CASE Done(p)
    BY ZenonT(60), <1>1, <1>3, <2>1, NotAnId DEF Done, Work, Set, TypeOK, JobOK
  <2>2. CASE ~Done(p)
    BY ZenonT(60), <1>1, <1>3, <2>2, NotAnId DEF Set, TypeOK, JobOK
  <2> QED BY ZenonT(60), <2>1, <2>2
<1>5. \A j \in Id : j # i => file'[j] = file[j]
  BY ZenonT(60), <1>1 DEF Set, TypeOK, DiskOK
<1>6. \A j \in OfName(m) : j \in Id /\ file[j].kind = "session" /\ Holds(m, j) /\ j <= made
  <2>1. \A j \in OfName(m) : j \in Id /\ file[j].kind = "session" /\ Holds(m, j)
    BY ZenonT(60), HoldsBy DEF OfName, InFile
  <2> QED BY ZenonT(60), <2>1, <1>2 DEF OwnerInv
<1>7. \A j \in stale' : j <= made'
  BY ZenonT(60), <1>1, <1>6 DEF NewestInv
<1>8. \A n, j : Leads(n, j)' <=> Leads(n, j)
  BY ZenonT(60), <1>1 DEF Leads
<1>9. ASSUME NEW n \in Name \ unmapped, NEW j \in Id, Leads(n, j), j \in stale'
      PROVE  /\ file'[j].kind # "session"
             /\ \A q \in Process : id'[q] = j => op'[q] \in {"offer", "accept"}
  <2>1. CASE j \in stale
    <3>1. /\ file[j].kind # "session"
          /\ \A q \in Process : id[q] = j => op[q] \in {"offer", "accept"}
      BY ZenonT(60), <1>9, <2>1 DEF NewestInv
    <3>2. j # i
      BY ZenonT(60), <1>1, <1>9, <3>1
    <3>3. \A q \in Process : id'[q] # j
      BY ZenonT(60), <1>4, <3>2, NotAnId
    <3> QED BY ZenonT(60), <1>5, <3>1, <3>2, <3>3
  <2>2. CASE j \notin stale
    <3>1. j # i /\ j \in OfName(m) /\ op[p] \in {"offer", "accept"}
      BY ZenonT(60), <1>1, <1>9, <2>2
    <3>2. Holds(n, j)
      BY ZenonT(60), <1>9, LeadsBy, HoldsBy
    <3>3. m = n
      BY ZenonT(60), <1>2, <1>6, <3>1, <3>2 DEF OwnerInv
    <3>4. sessions[p][n] = i
      BY ZenonT(60), <3>1, <3>3 DEF NewestInv
    <3>5. InIndex(n, j)
      BY ZenonT(60), <1>3, <1>9, <3>1, <3>4, LeadsBy
    <3>6. file[j].kind # "session"
      BY ZenonT(60), <1>1, <3>1, <3>4, <3>5 DEF NewestInv, InIndex
    <3> QED BY ZenonT(60), <1>6, <3>1, <3>6
  <2> QED BY ZenonT(60), <2>1, <2>2
<1>10. ASSUME NEW n \in Name \ unmapped, NEW j \in Id, NEW q \in Process,
              pc'[q] # "off", InIndex(n, j)', sessions'[q][n] # j
       PROVE  file'[j].kind # "session" /\ id'[q] # j
  <2>1. q = p /\ InIndex(n, j) /\ sessions[p][n] # j
    BY ZenonT(60), <1>1, <1>4, <1>10 DEF InIndex
  <2>2. file[j].kind # "session" /\ i # j
    BY ZenonT(60), <1>1, <2>1 DEF NewestInv, InIndex
  <2> QED BY ZenonT(60), <1>4, <1>5, <2>1, <2>2, NotAnId
<1>11. /\ \A q \in Process : op'[q] \in {"offer", "accept"} => sessions'[q][sess'[q].name] = id'[q]
       /\ unmapped' = unmapped
  BY ZenonT(60), <1>1, <1>4
<1>12. \A n \in Name \ unmapped' : \A j \in Id : Leads(n, j)' /\ j \in stale' =>
         /\ file'[j].kind # "session"
         /\ \A q \in Process : id'[q] = j => op'[q] \in {"offer", "accept"}
  BY ZenonT(60), <1>8, <1>9, <1>11
<1>13. \A n \in Name \ unmapped' : \A j \in Id : \A q \in Process :
         pc'[q] # "off" /\ InIndex(n, j)' /\ sessions'[q][n] # j =>
           file'[j].kind # "session" /\ id'[q] # j
  BY <1>10, <1>11
<1> QED BY <1>7, <1>11, <1>12, <1>13 DEF NewestInv, InIndex

LEMMA NewestDelete ==
  ASSUME TypeOK, OwnerInv, ~overlap, Alone, NewestInv, NEW p \in Process, Delete(p)
  PROVE  NewestInv'
<1> DEFINE i == id[p]  m == sess[p].name
<1>1. /\ pc[p] = "delete" /\ UNCHANGED <<index, made>>
      /\ sessions' = Set(sessions, p, Set(sessions[p], m, NoId))
      /\ file' = Set(file, i, Absent)
      /\ stale' = stale \ {i}
      /\ pc' = Set(pc, p, "idle") /\ op' = Set(op, p, "none") /\ id' = Set(id, p, NoId)
      /\ unmapped' = IF sessions[p][m] \in {NoId, i} THEN unmapped ELSE unmapped \cup {m}
  BY ZenonT(60) DEF Delete, Kept
<1>2. i \in Id /\ sess[p] \in Contents /\ m \in Name
  BY ZenonT(60), <1>1, Kinds DEF TypeOK, JobOK, Busy
<1>3. /\ \A q \in Process : q # p => pc[q] = "off" /\ id[q] = NoId /\ op[q] = "none"
      /\ \A n \in Name : \A j \in Id : InMap(n, j) <=> sessions[p][n] = j
  BY ZenonT(60), <1>1, MapOfOne
<1>4. \A q \in Process : op'[q] = "none" /\ id'[q] = NoId
  BY ZenonT(60), <1>1, <1>3 DEF Set, TypeOK, JobOK
<1>5. file'[i] = Absent /\ \A j \in Id : j # i => file'[j] = file[j]
  BY ZenonT(60), <1>1, <1>2 DEF Set, TypeOK, DiskOK
<1>6. /\ \A n \in Name : n # m => sessions'[p][n] = sessions[p][n]
      /\ \A q \in Process : q # p => sessions'[q] = sessions[q] /\ pc'[q] = pc[q]
      /\ sessions'[p][m] = NoId
  BY ZenonT(60), <1>1, <1>2 DEF Set, TypeOK, MapOK, JobOK
<1>7. \A n \in Name : \A j \in Id : Leads(n, j)' => Leads(n, j)
  <2>1. \A n \in Name : \A j \in Id : InMap(n, j)' => InMap(n, j)
    BY ZenonT(60), <1>6, NotAnId DEF InMap
  <2>2. \A n, j : InIndex(n, j)' <=> InIndex(n, j)
    BY ZenonT(60), <1>1 DEF InIndex
  <2> QED BY ZenonT(60), <2>1, <2>2, LeadsBy
<1>8. ASSUME NEW n \in Name \ unmapped', NEW j \in Id, Leads(n, j)', j \in stale'
      PROVE  /\ file'[j].kind # "session"
             /\ \A q \in Process : id'[q] = j => op'[q] \in {"offer", "accept"}
  <2>1. j \in stale /\ j # i /\ n \notin unmapped
    BY ZenonT(60), <1>1, <1>8
  <2>2. file[j].kind # "session"
    BY ZenonT(60), <1>7, <1>8, <2>1 DEF NewestInv
  <2> QED BY ZenonT(60), <1>4, <1>5, <2>1, <2>2, NotAnId
<1>9. ASSUME NEW n \in Name \ unmapped', NEW j \in Id, NEW q \in Process,
             pc'[q] # "off", InIndex(n, j)', sessions'[q][n] # j
      PROVE  file'[j].kind # "session" /\ id'[q] # j
  <2>1. q = p /\ InIndex(n, j) /\ n \notin unmapped
    BY ZenonT(60), <1>1, <1>3, <1>6, <1>9 DEF InIndex
  <2>2. CASE sessions[p][n] # j
    <3>1. file[j].kind # "session"
      BY ZenonT(60), <1>1, <2>1, <2>2 DEF NewestInv, InIndex
    <3> QED BY <1>4, <1>5, <3>1, Kinds, NotAnId
  <2>3. CASE sessions[p][n] = j
    <3>1. n = m
      BY ZenonT(60), <1>6, <1>9, <2>1, <2>3
    <3>2. j = i
      BY ZenonT(60), <1>1, <1>9, <2>3, <3>1, NotAnId
    <3> QED BY <1>4, <1>5, <3>2, Kinds, NotAnId
  <2> QED BY ZenonT(60), <2>2, <2>3
<1>10. /\ \A q \in Process : op'[q] \in {"offer", "accept"} => sessions'[q][sess'[q].name] = id'[q]
       /\ \A j \in stale' : j <= made'
  BY ZenonT(60), <1>1, <1>4 DEF NewestInv
<1> QED BY <1>8, <1>9, <1>10 DEF NewestInv, InIndex

LEMMA NewestStart ==
  ASSUME TypeOK, OwnerInv, Alone, NewestInv, NEW p \in Process, NEW n \in Name, NEW j \in Id,
         StartsOn(p, n, j)
  PROVE  NewestInv'
<1>1. /\ pc[p] = "idle" /\ ByName(p, n, j) /\ UNCHANGED <<index, file, stale, unmapped>>
      /\ sessions'[p][n] = j
      /\ \A m \in Name : m # n => sessions'[p][m] = sessions[p][m]
      /\ \A q \in Process : q # p => sessions'[q] = sessions[q]
  BY ZenonT(60) DEF StartsOn, ByName, Set, TypeOK, MapOK, disk, history, marks
<1>2. /\ \A q \in Process : q # p => pc'[q] = pc[q] /\ op'[q] = op[q] /\ id'[q] = id[q]
      /\ \/ op'[p] = "none" /\ id'[p] = NoId
         \/ /\ id'[p] = j /\ sess'[p].name = n
            /\ op'[p] \notin {"offer", "accept"} => file[j].kind = "session"
  <2>1. CASE UNCHANGED job
    BY ZenonT(60), <1>1, <2>1 DEF job, TypeOK, JobOK, Busy
  <2>2. CASE ~UNCHANGED job
    <3>1. PICK o \in {"offer", "accept", "send", "close"}, s \in Contents, next \in {"post", "put"} :
            /\ Work(p, o, j, s, next) /\ s.name = n
            /\ o \notin {"offer", "accept"} => file[j].kind = "session"
      BY ZenonT(60), <2>2 DEF StartsOn
    <3> QED BY ZenonT(60), <3>1 DEF Work, Set, TypeOK, JobOK
  <2> QED BY ZenonT(60), <2>1, <2>2
<1>3. /\ \A q \in Process : q # p => pc[q] = "off" /\ id[q] = NoId /\ op[q] = "none"
      /\ \A m \in Name : \A i \in Id : InMap(m, i) <=> sessions[p][m] = i
  BY ZenonT(60), <1>1, MapOfOne
<1>4. made \in Nat /\ j \in Nat /\ made' \in Nat /\ made <= made' /\ (sessions[p][n] # j => j = made + 1)
  BY <1>1 DEF TypeOK, MapOK, Id, ByName
<1>5. \A m \in Name : Holds(m, j) => sessions[p][n] = j /\ m = n
  <2>1. ASSUME NEW m \in Name, Holds(m, j) PROVE sessions[p][n] = j /\ m = n
    <3>1. sessions[p][n] = j
      BY <1>4, <2>1 DEF OwnerInv
    <3>2. Holds(n, j)
      BY ZenonT(60), <1>3, <3>1, HoldsBy
    <3> QED BY ZenonT(60), <2>1, <3>1, <3>2 DEF OwnerInv
  <2> QED BY ZenonT(60), <2>1
<1>6. \A m \in Name : \A i \in Id : Leads(m, i)' => Leads(m, i) \/ (m = n /\ i = j)
  <2>1. \A m \in Name : \A i \in Id : InMap(m, i)' => InMap(m, i) \/ (m = n /\ i = j)
    BY ZenonT(60), <1>1 DEF InMap
  <2>2. \A m, i : InIndex(m, i)' <=> InIndex(m, i)
    BY ZenonT(60), <1>1 DEF InIndex
  <2> QED BY ZenonT(60), <2>1, <2>2, LeadsBy
<1>7. \A i \in stale : i <= made'
  BY <1>4 DEF NewestInv, TypeOK, HistoryOK, Id
<1>8. ASSUME NEW m \in Name \ unmapped, NEW i \in Id, Leads(m, i)', i \in stale
      PROVE  /\ file[i].kind # "session"
             /\ \A q \in Process : id'[q] = i => op'[q] \in {"offer", "accept"}
  <2>1. Leads(m, i)
    <3>1. CASE i # j \/ m # n
      BY ZenonT(60), <1>6, <1>8, <3>1
    <3>2. CASE i = j /\ m = n
      <4>1. j <= made
        BY ZenonT(60), <1>8, <3>2 DEF NewestInv
      <4>2. sessions[p][n] = j
        BY <1>4, <4>1
      <4> QED BY ZenonT(60), <1>3, <3>2, <4>2, LeadsBy
    <3> QED BY ZenonT(60), <3>1, <3>2
  <2>2. file[i].kind # "session"
    BY ZenonT(60), <1>8, <2>1 DEF NewestInv
  <2>3. \A q \in Process : id'[q] = i => op'[q] \in {"offer", "accept"}
    BY <1>2, <1>3, <2>2, NotAnId
  <2> QED BY ZenonT(60), <2>2, <2>3
<1>9. ASSUME NEW m \in Name \ unmapped, NEW i \in Id, NEW q \in Process,
             pc'[q] # "off", InIndex(m, i), sessions'[q][m] # i
      PROVE  file[i].kind # "session" /\ id'[q] # i
  <2>1. q = p
    BY ZenonT(60), <1>2, <1>3, <1>9
  <2>2. i # j
    <3> SUFFICES ASSUME i = j PROVE FALSE
      BY ZenonT(60)
    <3>1. Holds(m, j)
      BY ZenonT(60), <1>9, HoldsBy
    <3> QED BY ZenonT(60), <1>1, <1>5, <1>9, <2>1, <3>1
  <2>3. sessions[p][m] # i
    <3>1. CASE m = n
      <4>1. sessions[p][n] = i => sessions'[p][n] = i
        BY ZenonT(60), <1>1, NotAnId DEF ByName
      <4> QED BY ZenonT(60), <1>9, <2>1, <3>1, <4>1
    <3>2. CASE m # n
      BY ZenonT(60), <1>1, <1>9, <2>1, <3>2
    <3> QED BY ZenonT(60), <3>1, <3>2
  <2>4. file[i].kind # "session"
    BY ZenonT(60), <1>1, <1>9, <2>3 DEF NewestInv, InIndex
  <2> QED BY ZenonT(60), <1>2, <2>1, <2>2, <2>4, NotAnId
<1>10. \A q \in Process : op'[q] \in {"offer", "accept"} => sessions'[q][sess'[q].name] = id'[q]
  BY ZenonT(60), <1>1, <1>2, <1>3
<1>11. \A m \in Name \ unmapped' : \A i \in Id : Leads(m, i)' /\ i \in stale' =>
         /\ file'[i].kind # "session"
         /\ \A q \in Process : id'[q] = i => op'[q] \in {"offer", "accept"}
  BY ZenonT(60), <1>1, <1>8
<1>12. \A m \in Name \ unmapped' : \A i \in Id : \A q \in Process :
         pc'[q] # "off" /\ InIndex(m, i)' /\ sessions'[q][m] # i =>
           file'[i].kind # "session" /\ id'[q] # i
  <2>1. \A m, i : InIndex(m, i)' <=> InIndex(m, i)
    BY ZenonT(60), <1>1 DEF InIndex
  <2> QED BY ZenonT(60), <1>1, <1>9, <2>1
<1>13. \A i \in stale' : i <= made'
  BY ZenonT(60), <1>1, <1>7
<1> QED BY <1>10, <1>11, <1>12, <1>13 DEF NewestInv, InIndex

LEMMA NewestReceive ==
  ASSUME TypeOK, Alone, NewestInv, NEW p \in Process, NEW j \in Id, Receive(p, j)
  PROVE  NewestInv'
<1>1. /\ pc[p] = "idle" /\ file[j].kind = "session"
      /\ UNCHANGED <<index, file, sessions, made, stale, unmapped>>
      /\ \E o \in {"receive", "receive close"} : Work(p, o, j, file[j], "put")
  BY ZenonT(60) DEF Receive, disk, history, marks
<1>2. /\ op'[p] \notin {"offer", "accept"} /\ id'[p] = j
      /\ \A q \in Process : q # p => pc'[q] = pc[q] /\ op'[q] = op[q] /\ id'[q] = id[q]
  BY ZenonT(60), <1>1 DEF Work, Set, TypeOK, JobOK
<1>3. \A q \in Process : q # p => pc[q] = "off" /\ id[q] = NoId /\ op[q] = "none"
  BY ZenonT(60), <1>1, MapOfOne
<1>4. \A n, i : (Leads(n, i)' <=> Leads(n, i)) /\ (InIndex(n, i)' <=> InIndex(n, i))
  BY ZenonT(60), <1>1 DEF Leads, InIndex
<1>5. /\ \A q \in Process : op'[q] \in {"offer", "accept"} => sessions'[q][sess'[q].name] = id'[q]
      /\ \A i \in stale' : i <= made'
  BY ZenonT(60), <1>1, <1>2, <1>3 DEF NewestInv
<1>6. ASSUME NEW n \in Name \ unmapped', NEW i \in Id, Leads(n, i)', i \in stale'
      PROVE  /\ file'[i].kind # "session"
             /\ \A q \in Process : id'[q] = i => op'[q] \in {"offer", "accept"}
  <2>1. file[i].kind # "session"
    BY ZenonT(60), <1>1, <1>4, <1>6 DEF NewestInv
  <2> QED BY ZenonT(60), <1>1, <1>2, <1>3, <2>1, NotAnId
<1>7. ASSUME NEW n \in Name \ unmapped', NEW i \in Id, NEW q \in Process,
             pc'[q] # "off", InIndex(n, i)', sessions'[q][n] # i
      PROVE  file'[i].kind # "session" /\ id'[q] # i
  <2>1. q = p
    BY ZenonT(60), <1>2, <1>3, <1>7
  <2>2. InIndex(n, i) /\ n \notin unmapped /\ sessions[p][n] # i
    BY ZenonT(60), <1>1, <1>4, <1>7, <2>1
  <2>3. file[i].kind # "session"
    BY ZenonT(60), <1>1, <2>2 DEF NewestInv, InIndex
  <2> QED BY ZenonT(60), <1>1, <1>2, <2>1, <2>3
<1> QED BY <1>5, <1>6, <1>7 DEF NewestInv, InIndex

LEMMA NewestNext ==
  ASSUME TypeOK, OwnerInv, ~overlap, Alone, SpentInv, NewestInv, [Next]_vars, ~overlap'
  PROVE  NewestInv'
<1> USE DEF TypeOK, JobOK, disk, job, marks, history
\* What is left of the premises of NewestKept when index and maps stay.
<1>a. ASSUME UNCHANGED <<index, sessions, unmapped, stale, made>>,
             \A q \in Process : pc'[q] # "off" => pc[q] # "off",
             \A q \in Process : UNCHANGED <<op[q], sess[q], id[q]>> \/ (op'[q] = "none" /\ id'[q] = NoId),
             \A i \in Id : file'[i].kind = "session" => file[i].kind = "session"
      PROVE  NewestInv'
  <2>1. \A n, i : (Leads(n, i)' <=> Leads(n, i)) /\ (InIndex(n, i)' <=> InIndex(n, i))
    BY ZenonT(60), <1>a DEF Leads, InIndex
  <2> QED BY ZenonT(60), <1>a, <2>1, NewestKept, NotAnId
\* The process is off, and so are all.
<1>b. ASSUME NEW p \in Process, pc[p] # "off", Gone(p), UNCHANGED <<file, unmapped, stale, made>>,
             UNCHANGED index \/ index' = Saved(sessions[p])
      PROVE  NewestInv'
  <2>1. \A q \in Process : pc'[q] = "off" /\ op'[q] = "none" /\ id'[q] = NoId
    BY ZenonT(60), <1>b, MapOfOne DEF Gone, Work, Set
  <2>2. \A n \in Name : \A i \in Id : InMap(n, i)' => InMap(n, i)
    BY ZenonT(60), <1>b, NotAnId DEF Gone, InMap, Set, MapOK, NoEntries
  <2>3. \A n \in Name : \A i \in Id : InIndex(n, i)' => InIndex(n, i) \/ InMap(n, i)
    <3>1. CASE UNCHANGED index
      BY ZenonT(60), <3>1 DEF InIndex
    <3>2. CASE index' = Saved(sessions[p])
      <4>1. index'.map = sessions[p]
        BY ZenonT(60), <3>2, Kinds
      <4> QED BY ZenonT(60), <4>1 DEF InIndex, InMap
    <3> QED BY ZenonT(60), <1>b, <3>1, <3>2
  <2>4. \A n \in Name : \A i \in Id : Leads(n, i)' => Leads(n, i)
    BY ZenonT(60), <2>2, <2>3, LeadsBy
  <2> QED BY ZenonT(60), <1>b, <2>1, <2>4, NewestKept, NotAnId
<1>0. CASE UNCHANGED vars
  BY ZenonT(60), <1>0, <1>a DEF vars
<1>1. ASSUME NEW p \in Process, Load(p) PROVE NewestInv'
  <2>1. \A q \in Process : pc[q] = "off"
    BY ZenonT(60), <1>1 DEF Load
  <2>2. /\ UNCHANGED <<index, file, op, id, sess, made, stale, unmapped>>
        /\ \A q \in Process : q # p => pc'[q] = "off" /\ sessions'[q] = sessions[q]
        /\ index.kind = "map" => sessions'[p] = index.map
        /\ index.kind # "map" => sessions'[p] = NoEntries
    BY ZenonT(60), <1>1, <2>1, Loads
  <2>3. \A n, i : InIndex(n, i)' <=> InIndex(n, i)
    BY ZenonT(60), <2>2 DEF InIndex
  <2>4. \A n \in Name : \A i \in Id : InMap(n, i)' => InMap(n, i) \/ InIndex(n, i)
    <3> SUFFICES ASSUME NEW n \in Name, NEW i \in Id, NEW q \in Process, sessions'[q][n] = i
                 PROVE  InMap(n, i) \/ InIndex(n, i)
      BY ZenonT(60) DEF InMap
    <3>1. CASE q = p
      <4>1. index.kind = "map"
        BY ZenonT(60), <2>2, <3>1, NotAnId DEF NoEntries
      <4> QED BY ZenonT(60), <2>2, <3>1, <4>1 DEF InIndex
    <3>2. CASE q # p
      BY ZenonT(60), <2>2, <3>2 DEF InMap
    <3> QED BY ZenonT(60), <3>1, <3>2
  <2>5. \A q \in Process : op'[q] = "none" /\ id'[q] = NoId
    BY ZenonT(60), <2>1, <2>2 DEF Busy
  <2>6. \A n \in Name : \A i \in Id : Leads(n, i)' => Leads(n, i)
    BY ZenonT(60), <2>3, <2>4, LeadsBy
  <2>7. \A n \in Name : \A i \in Id : \A q \in Process :
          ~(pc'[q] # "off" /\ InIndex(n, i)' /\ sessions'[q][n] # i)
    BY ZenonT(60), <2>2, <2>3 DEF InIndex
  <2>8. \A q \in Process : op'[q] \notin {"offer", "accept"} /\ id'[q] \notin Id
    BY ZenonT(60), <2>5, NotAnId
  <2>9. \A i \in Id : file'[i].kind = "session" => file[i].kind = "session"
    BY ZenonT(60), <2>2
  <2> HIDE DEF TypeOK, JobOK
  <2> QED BY ZenonT(60), <2>2, <2>6, <2>7, <2>8, <2>9, NewestKept
<1>2. ASSUME NEW p \in Process, sendMsg(p) PROVE NewestInv'
  BY ZenonT(60), <1>2, <1>a DEF sendMsg, Done, Work, Set
<1>3. ASSUME NEW p \in Process, PutTruncate(p) PROVE NewestInv'
  <2>1. \A i \in Id : file'[i].kind = "session" => file[i].kind = "session"
    BY ZenonT(60), <1>3, Kinds DEF PutTruncate, Set, DiskOK
  <2> QED BY ZenonT(60), <1>3, <2>1, <1>a DEF PutTruncate, Set
<1>4. ASSUME NEW p \in Process, PutWrite(p) PROVE NewestInv'
  BY ZenonT(60), <1>4, NewestWrite
<1>5. ASSUME NEW p \in Process, Delete(p) PROVE NewestInv'
  BY ZenonT(60), <1>5, NewestDelete
<1>6. ASSUME NEW p \in Process, Exit(p) PROVE NewestInv'
  BY ZenonT(60), <1>6, <1>a DEF Exit, Set
<1>7. ASSUME NEW p \in Process, CloseTruncate(p) PROVE NewestInv'
  <2>1. \A n, i : ~InIndex(n, i)'
    BY ZenonT(60), <1>7, Kinds DEF CloseTruncate, InIndex
  <2>2. \A n, i : InMap(n, i)' <=> InMap(n, i)
    BY ZenonT(60), <1>7 DEF CloseTruncate, InMap
  <2>3. \A n \in Name : \A i \in Id : Leads(n, i)' => Leads(n, i)
    BY ZenonT(60), <2>1, <2>2, LeadsBy
  <2> QED BY ZenonT(60), <1>7, <2>1, <2>3, NewestKept DEF CloseTruncate
<1>8. ASSUME NEW p \in Process, CloseWrite(p) PROVE NewestInv'
  BY ZenonT(60), <1>8, <1>b DEF CloseWrite
<1>9. ASSUME NEW p \in Process, GetPanics(p) PROVE NewestInv'
  <2>1. CASE Gone(p)
    BY ZenonT(60), <1>9, <2>1, <1>b, Panics
  <2>2. CASE ~Gone(p)
    BY ZenonT(60), <1>9, <2>2, <1>a, Panics DEF Set
  <2> QED BY ZenonT(60), <2>1, <2>2
<1>10. ASSUME NEW p \in Process, Die(p) PROVE NewestInv'
  BY ZenonT(60), <1>10, <1>b DEF Die
<1>11. ASSUME NEW p \in Process, NEW n \in Name, NEW j \in Id, StartsOn(p, n, j)
       PROVE  NewestInv'
  BY ZenonT(60), <1>11, NewestStart
<1>12. ASSUME NEW p \in Process, NEW i \in Id, Receive(p, i) PROVE NewestInv'
  BY ZenonT(60), <1>12, NewestReceive
<1> QED
  BY ZenonT(60), NextCases, <1>0, <1>1, <1>2, <1>3, <1>4, <1>5, <1>6, <1>7, <1>8, <1>9, <1>10,
     <1>11, <1>12

-----------------------------------------------------------------------------
\* A step of the process that runs, or of none, that writes no session and
\* leaves index and maps alone.
LEMMA OrphanKept ==
  ASSUME OrphanInv, UNCHANGED <<sessions, cut>>,
         \A q \in Process : Busy(q)' => Busy(q) /\ sess'[q] = sess[q] /\ id'[q] = id[q],
         \A q \in Process : pc'[q] # "off" <=> pc[q] # "off",
         \A i \in Id : file'[i].kind = "session" => file'[i] = file[i],
         UNCHANGED index \/ \E q \in Process : pc'[q] # "off"
  PROVE  OrphanInv'
<1>1. cut' = {} /\ \A q \in Process : Busy(q)' => sessions'[q][sess'[q].name] = id'[q]
  BY ZenonT(60) DEF OrphanInv
<1>2. ASSUME NEW i \in Id, file'[i].kind = "session"
      PROVE  /\ \A q \in Process : pc'[q] # "off" => sessions'[q][file'[i].name] = i
             /\ (\A q \in Process : pc'[q] = "off") =>
                  index'.kind = "map" /\ index'.map[file'[i].name] = i
  <2>1. file'[i] = file[i] /\ file[i].kind = "session"
    BY ZenonT(60), <1>2
  <2>2. /\ \A q \in Process : pc[q] # "off" => sessions[q][file[i].name] = i
        /\ (\A q \in Process : pc[q] = "off") => index.kind = "map" /\ index.map[file[i].name] = i
    BY ZenonT(60), <2>1 DEF OrphanInv
  <2> QED BY ZenonT(60), <2>1, <2>2
<1> QED BY ZenonT(60), <1>1, <1>2 DEF OrphanInv

LEMMA FileName ==
  ASSUME TypeOK, NEW i \in Id, file[i].kind = "session" PROVE file[i].name \in Name
BY ZenonT(60), Kinds DEF TypeOK, DiskOK

LEMMA OneIsNotZero == 0 + 1 # 0
OBVIOUS

LEMMA OrphanNext ==
  ASSUME TypeOK, OwnerInv, TornFile, ~overlap, Alone, SpentInv, deaths = 0, OrphanInv,
         [Next]_vars, ~overlap', deaths' = 0
  PROVE  OrphanInv'
<1> USE DEF TypeOK, JobOK, disk, job, marks, history
<1>0. CASE UNCHANGED vars
  BY ZenonT(60), <1>0, OrphanKept DEF vars, Busy
<1>1. ASSUME NEW p \in Process, Load(p) PROVE OrphanInv'
  <2>1. \A q \in Process : pc[q] = "off"
    BY ZenonT(60), <1>1 DEF Load
  <2>2. /\ UNCHANGED <<index, file, cut>> /\ pc'[p] = "idle"
        /\ \A q \in Process : q # p => pc'[q] = "off"
        /\ index.kind = "map" => sessions'[p] = index.map
    BY ZenonT(60), <1>1, <2>1, Loads
  <2>3. cut' = {} /\ \A q \in Process : ~Busy(q)'
    BY ZenonT(60), <2>2 DEF OrphanInv, Busy
  <2>4. ASSUME NEW i \in Id, file[i].kind = "session" PROVE sessions'[p][file[i].name] = i
    <3>1. index.kind = "map" /\ index.map[file[i].name] = i
      BY ZenonT(60), <2>1, <2>4 DEF OrphanInv
    <3> QED BY ZenonT(60), <2>2, <3>1
  <2> HIDE DEF TypeOK, JobOK
  <2> QED BY ZenonT(60), <2>2, <2>3, <2>4 DEF OrphanInv
<1>2. ASSUME NEW p \in Process, sendMsg(p) PROVE OrphanInv'
  BY ZenonT(60), <1>2, OrphanKept DEF sendMsg, Done, Work, Set, Busy
<1>3. ASSUME NEW p \in Process, PutTruncate(p) PROVE OrphanInv'
  <2>1. \A i \in Id : file'[i].kind = "session" => file'[i] = file[i]
    BY ZenonT(60), <1>3, Kinds DEF PutTruncate, Set, DiskOK
  <2> QED BY ZenonT(60), <1>3, <2>1, OrphanKept DEF PutTruncate, Set, Busy
<1>4. ASSUME NEW p \in Process, PutWrite(p) PROVE OrphanInv'
  <2>1. /\ pc[p] = "write" /\ id[p] \in Id /\ sess[p] \in Contents
        /\ file' = Set(file, id[p], sess[p]) /\ cut' = cut \ {id[p]}
        /\ Done(p) \/ (pc' = Set(pc, p, "delete") /\ UNCHANGED <<op, id, sess, linked>>)
        /\ UNCHANGED sessions
    <3>1. linked[p]
      BY ZenonT(60) DEF SpentInv
    <3> QED BY ZenonT(60), <1>4, <3>1, Writes
  <2>2. \A q \in Process : q # p => pc[q] = "off"
    BY ZenonT(60), <2>1, MapOfOne
  <2>3. /\ \A q \in Process : q # p => pc'[q] = "off"
        /\ pc'[p] # "off" /\ (Busy(p)' => id'[p] = id[p] /\ sess'[p] = sess[p])
    BY ZenonT(60), <2>1, <2>2 DEF Done, Work, Set, Busy
  <2>4. sessions[p][sess[p].name] = id[p]
    BY ZenonT(60), <2>1 DEF OrphanInv, Busy
  <2>5. cut' = {} /\ \A q \in Process : Busy(q)' => sessions'[q][sess'[q].name] = id'[q]
    <3>1. cut' = {}
      BY ZenonT(60), <2>1 DEF OrphanInv
    <3>2. \A q \in Process : Busy(q)' => q = p
      BY ZenonT(60), <2>3 DEF Busy
    <3> QED BY ZenonT(60), <2>1, <2>3, <2>4, <3>1, <3>2
  <2>6. ASSUME NEW i \in Id, file'[i].kind = "session" PROVE sessions'[p][file'[i].name] = i
    <3>1. CASE i = id[p]
      BY ZenonT(60), <2>1, <2>4, <3>1 DEF Set, DiskOK
    <3>2. CASE i # id[p]
      BY ZenonT(60), <2>1, <2>6, <3>2 DEF Set, DiskOK, OrphanInv
    <3> QED BY ZenonT(60), <3>1, <3>2
  <2> QED BY ZenonT(60), <2>3, <2>5, <2>6 DEF OrphanInv
<1>5. ASSUME NEW p \in Process, Delete(p) PROVE OrphanInv'
  <2> DEFINE i == id[p]  m == sess[p].name
  <2>1. /\ pc[p] = "delete" /\ cut' = cut \ {i}
        /\ sessions' = Set(sessions, p, Set(sessions[p], m, NoId))
        /\ file' = Set(file, i, Absent)
        /\ pc' = Set(pc, p, "idle")
    BY ZenonT(60), <1>5 DEF Delete
  <2>2. i \in Id /\ m \in Name /\ sessions[p][m] = i
    BY ZenonT(60), <2>1, Kinds DEF OrphanInv, Busy
  <2>3. pc'[p] = "idle" /\ \A q \in Process : q # p => pc'[q] = "off"
    BY ZenonT(60), <2>1, MapOfOne DEF Set
  <2>4. ASSUME NEW j \in Id, file'[j].kind = "session" PROVE sessions'[p][file'[j].name] = j
    <3>1. j # i /\ file'[j] = file[j]
      BY ZenonT(60), <2>1, <2>2, <2>4, Kinds DEF Set, DiskOK
    <3>2. sessions[p][file[j].name] = j /\ file[j].name \in Name
      <4>1. file[j].kind = "session"
        BY ZenonT(60), <2>4, <3>1
      <4> QED BY ZenonT(60), <2>1, <4>1, FileName DEF OrphanInv
    <3>3. file[j].name # m
      BY ZenonT(60), <2>2, <3>1, <3>2
    <3> QED BY ZenonT(60), <2>1, <3>1, <3>2, <3>3 DEF Set, MapOK
  <2>5. cut' = {} /\ \A q \in Process : ~Busy(q)'
    BY ZenonT(60), <2>1, <2>3 DEF OrphanInv, Busy
  <2> QED BY ZenonT(60), <2>3, <2>4, <2>5 DEF OrphanInv
<1>6. ASSUME NEW p \in Process, Exit(p) PROVE OrphanInv'
  BY ZenonT(60), <1>6, OrphanKept DEF Exit, Set, Busy
<1>7. ASSUME NEW p \in Process, CloseTruncate(p) PROVE OrphanInv'
  BY ZenonT(60), <1>7, OrphanKept DEF CloseTruncate, Set, Busy
<1>8. ASSUME NEW p \in Process, CloseWrite(p) PROVE OrphanInv'
  <2>1. /\ pc[p] = "saving" /\ UNCHANGED file /\ cut' = cut \ {IndexFile}
        /\ index'.kind = "map" /\ index'.map = sessions[p]
    BY ZenonT(60), <1>8, Kinds DEF CloseWrite
  <2>2. \A q \in Process : pc'[q] = "off"
    BY ZenonT(60), <1>8, <2>1, MapOfOne DEF CloseWrite, Gone, Work, Set
  <2>3. cut' = {} /\ \A q \in Process : ~Busy(q)'
    BY ZenonT(60), <2>1, <2>2 DEF OrphanInv, Busy
  <2>4. \A i \in Id : file[i].kind = "session" => sessions[p][file[i].name] = i
    BY ZenonT(60), <2>1 DEF OrphanInv
  <2> HIDE DEF TypeOK, JobOK
  <2> QED BY ZenonT(60), <2>1, <2>2, <2>3, <2>4 DEF OrphanInv
<1>9. ASSUME NEW p \in Process, GetPanics(p) PROVE OrphanInv'
  <2>1. PICK i \in Id : file[i] = Empty
    BY ZenonT(60), <1>9 DEF GetPanics
  <2>2. pc[p] = "idle"
    BY ZenonT(60), <1>9 DEF GetPanics
  <2>3. \A q \in Process : pc[q] # "write"
    BY ZenonT(60), <2>2, MapOfOne
  <2> QED BY ZenonT(60), <2>1, <2>3 DEF TornFile, OrphanInv
<1>10. ASSUME NEW p \in Process, Die(p) PROVE OrphanInv'
  <2>1. deaths' = deaths + 1
    BY ZenonT(60), <1>10 DEF Die
  <2> QED BY <2>1, OneIsNotZero, ZenonT(60)
<1>11. ASSUME NEW p \in Process, NEW n \in Name, NEW j \in Id, StartsOn(p, n, j)
       PROVE  OrphanInv'
  <2>1. /\ pc[p] = "idle" /\ ByName(p, n, j) /\ UNCHANGED <<file, cut>>
        /\ sessions'[p][n] = j
        /\ \A m \in Name : m # n => sessions'[p][m] = sessions[p][m]
    BY ZenonT(60), <1>11 DEF StartsOn, ByName, Set, MapOK
  <2>2. \A q \in Process : q # p => pc[q] = "off"
    BY ZenonT(60), <2>1, MapOfOne
  <2>3. /\ \A q \in Process : q # p => pc'[q] = "off"
        /\ pc'[p] # "off" /\ (Busy(p)' => id'[p] = j /\ sess'[p].name = n)
    <3>1. CASE UNCHANGED job
      BY ZenonT(60), <2>1, <2>2, <3>1 DEF Busy
    <3>2. CASE ~UNCHANGED job
      <4>1. PICK o \in {"offer", "accept", "send", "close"}, s \in Contents, next \in {"post", "put"} :
              Work(p, o, j, s, next) /\ s.name = n
        BY ZenonT(60), <1>11, <3>2 DEF StartsOn
      <4> QED BY ZenonT(60), <2>2, <4>1 DEF Work, Set
    <3> QED BY ZenonT(60), <3>1, <3>2
  <2>4. ASSUME NEW i \in Id, file[i].kind = "session" PROVE sessions'[p][file[i].name] = i
    <3>1. sessions[p][file[i].name] = i /\ file[i].name \in Name
      BY ZenonT(60), <2>1, <2>4, FileName DEF OrphanInv
    <3>2. CASE file[i].name = n
      BY ZenonT(60), <2>1, <3>1, <3>2, NotAnId DEF ByName
    <3>3. CASE file[i].name # n
      BY ZenonT(60), <2>1, <3>1, <3>3
    <3> QED BY ZenonT(60), <3>2, <3>3
  <2>5. cut' = {} /\ \A q \in Process : Busy(q)' => sessions'[q][sess'[q].name] = id'[q]
    BY ZenonT(60), <2>1, <2>3 DEF OrphanInv, Busy
  <2> QED BY ZenonT(60), <2>1, <2>3, <2>4, <2>5 DEF OrphanInv
<1>12. ASSUME NEW p \in Process, NEW j \in Id, Receive(p, j) PROVE OrphanInv'
  <2>1. /\ pc[p] = "idle" /\ file[j].kind = "session" /\ UNCHANGED <<file, cut, sessions>>
        /\ \E o : Work(p, o, j, file[j], "put")
    BY ZenonT(60), <1>12 DEF Receive
  <2>2. \A q \in Process : q # p => pc[q] = "off"
    BY ZenonT(60), <2>1, MapOfOne
  <2>3. /\ \A q \in Process : q # p => pc'[q] = "off"
        /\ pc'[p] # "off" /\ id'[p] = j /\ sess'[p] = file[j]
    BY ZenonT(60), <2>1, <2>2 DEF Work, Set
  <2>4. \A i \in Id : file[i].kind = "session" => sessions[p][file[i].name] = i
    BY ZenonT(60), <2>1 DEF OrphanInv
  <2>5. cut' = {} /\ \A q \in Process : Busy(q)' => sessions'[q][sess'[q].name] = id'[q]
    <3>1. cut' = {}
      BY ZenonT(60), <2>1 DEF OrphanInv
    <3>2. \A q \in Process : Busy(q)' => q = p
      BY ZenonT(60), <2>3 DEF Busy
    <3>3. sessions'[p][sess'[p].name] = id'[p]
      BY ZenonT(60), <2>1, <2>3, <2>4
    <3> QED BY ZenonT(60), <3>1, <3>2, <3>3
  <2> QED BY ZenonT(60), <2>1, <2>3, <2>4, <2>5 DEF OrphanInv
<1> QED
  BY ZenonT(60), NextCases, <1>0, <1>1, <1>2, <1>3, <1>4, <1>5, <1>6, <1>7, <1>8, <1>9, <1>10,
     <1>11, <1>12

-----------------------------------------------------------------------------
\* The dead stay dead.
LEMMA DeathsGrow ==
  ASSUME TypeOK, OwnerInv, [Next]_vars, deaths' = 0
  PROVE  deaths = 0
<1> USE DEF disk, marks, history
<1>1. ASSUME NEW p \in Process, Die(p) PROVE deaths = 0
  <2>1. deaths' = deaths + 1 /\ deaths \in Nat
    BY <1>1, BoundsAssumption DEF BoundsAssumption, Die, TypeOK, HistoryOK
  <2>2. \A d \in Nat : d + 1 # 0
    OBVIOUS
  <2> QED BY ZenonT(60), <2>1, <2>2
<1>2. UNCHANGED deaths \/ \E p \in Process : Die(p)
  BY ZenonT(60), NextCases DEF vars, Load, sendMsg, PutTruncate, PutWrite, Delete, Exit, CloseTruncate,
     CloseWrite, GetPanics, StartsOn, Receive
<1> QED BY ZenonT(60), <1>1, <1>2

AllInv == TypeOK /\ OwnerInv /\ TornIndex /\ TornFile /\ AloneInv

LEMMA AllInit == Init => AllInv
<1> SUFFICES ASSUME Init PROVE AllInv
  OBVIOUS
<1>1. TornIndex /\ TornFile
  BY ZenonT(60), Kinds DEF Init, TornIndex, TornFile
<1>2. Alone /\ SpentInv
  BY ZenonT(60) DEF Init, Alone, SpentInv
<1>3. NewestInv
  BY ZenonT(60), Kinds DEF Init, NewestInv
<1>4. OrphanInv
  BY ZenonT(60), Kinds DEF Init, OrphanInv, Busy
<1> QED BY ZenonT(60), <1>1, <1>2, <1>3, <1>4, TypeInit, OwnerInit DEF AllInv, AloneInv

LEMMA AllNext == AllInv /\ [Next]_vars => AllInv'
<1> SUFFICES ASSUME AllInv, [Next]_vars PROVE AllInv'
  OBVIOUS
<1>1. TypeOK' /\ OwnerInv' /\ TornIndex' /\ TornFile'
  BY ZenonT(60), TypeNext, OwnerNext, TornNext DEF AllInv
<1>2. ASSUME ~overlap' PROVE Alone' /\ SpentInv' /\ NewestInv' /\ (deaths' = 0 => OrphanInv')
  <2>1. ~overlap /\ Alone /\ Alone'
    BY ZenonT(60), <1>2, AloneNext DEF AllInv, AloneInv
  <2>2. SpentInv /\ NewestInv /\ (deaths = 0 => OrphanInv)
    BY ZenonT(60), <2>1 DEF AllInv, AloneInv
  <2>3. SpentInv'
    BY ZenonT(60), <1>2, <2>1, <2>2, SpentNext DEF AllInv
  <2>4. NewestInv'
    BY ZenonT(60), <1>2, <2>1, <2>2, NewestNext DEF AllInv
  <2>5. ASSUME deaths' = 0 PROVE OrphanInv'
    <3>1. deaths = 0
      BY ZenonT(60), <2>5, DeathsGrow DEF AllInv
    <3> QED BY ZenonT(60), <1>2, <2>1, <2>2, <2>5, <3>1, OrphanNext DEF AllInv
  <2> QED BY ZenonT(60), <2>1, <2>3, <2>4, <2>5
<1> QED BY ZenonT(60), <1>1, <1>2 DEF AllInv, AloneInv

\* What AllInv says of the entries that the properties speak of.
LEMMA EntriesLead ==
  ASSUME TypeOK, Alone
  PROVE  /\ \A p \in Process : pc[p] # "off" => Entries = sessions[p]
         /\ (\A p \in Process : pc[p] = "off") =>
              Entries = IF index.kind = "map" THEN index.map ELSE NoEntries
BY ZenonT(60) DEF Entries, Alone

\* Unless processes overlap, a name never leads to a session older than the last
\* one saved for it, whatever index a death left behind: Delete and ByName keep
\* the sessions that an old index names from coming back.
THEOREM NoOlderSession == Spec => []NewestOrNone
<1>1. AllInv => NewestOrNone
  <2> SUFFICES ASSUME AllInv, ~overlap, NEW n \in Name \ unmapped,
                      Entries[n] # NoId, file[Entries[n]].kind = "session", Entries[n] \in stale
               PROVE  FALSE
    BY ZenonT(60) DEF NewestOrNone
  <2>1. TypeOK /\ Alone /\ NewestInv
    BY ZenonT(60) DEF AllInv, AloneInv
  <2>2. Entries[n] \in Id
    BY ZenonT(60), <2>1 DEF TypeOK, HistoryOK
  <2>3. Leads(n, Entries[n])
    <3>1. CASE \E p \in Process : pc[p] # "off"
      BY ZenonT(60), <2>1, <3>1, EntriesLead DEF Leads
    <3>2. CASE \A p \in Process : pc[p] = "off"
      <4>1. Entries = IF index.kind = "map" THEN index.map ELSE NoEntries
        BY ZenonT(60), <2>1, <3>2, EntriesLead
      <4>2. index.kind = "map"
        BY ZenonT(60), <4>1 DEF NoEntries
      <4> QED BY ZenonT(60), <4>1, <4>2 DEF Leads
    <3> QED BY ZenonT(60), <3>1, <3>2
  <2> QED BY ZenonT(60), <2>1, <2>2, <2>3 DEF NewestInv
<1> QED BY <1>1, AllInit, AllNext, PTL DEF Spec

\* Unless processes overlap or die, every session file is found by the name of
\* its peer: no order of offers, closes and restarts leaves one behind.
THEOREM NothingOrphaned == Spec => []NoOrphans
<1>1. AllInv => NoOrphans
  <2> SUFFICES ASSUME AllInv, ~overlap, deaths = 0, NEW i \in Id, file[i].kind = "session"
               PROVE  Entries[file[i].name] = i
    BY ZenonT(60) DEF NoOrphans
  <2>1. TypeOK /\ Alone /\ OrphanInv
    BY ZenonT(60) DEF AllInv, AloneInv
  <2>2. CASE \E p \in Process : pc[p] # "off"
    BY <2>1, <2>2, EntriesLead DEF OrphanInv
  <2>3. CASE \A p \in Process : pc[p] = "off"
    <3>1. index.kind = "map" /\ index.map[file[i].name] = i
      BY ZenonT(60), <2>1, <2>3 DEF OrphanInv
    <3> QED BY ZenonT(60), <2>1, <2>3, <3>1, EntriesLead
  <2> QED BY ZenonT(60), <2>2, <2>3
<1> QED BY <1>1, AllInit, AllNext, PTL DEF Spec

\* Unless processes overlap, a state of a session that a message was posted from
\* is replaced before the next message is made from it, but for a death before
\* the save or a post without an answer.
THEOREM NoStateReused == Spec => []NoReuse
<1>1. AllInv => NoReuse
  <2> SUFFICES ASSUME AllInv, ~overlap, NEW p \in Process, pc[p] = "post", id[p] \in spent
               PROVE  FALSE
    BY ZenonT(60) DEF NoReuse
  <2>1. TypeOK /\ Alone /\ SpentInv
    BY ZenonT(60) DEF AllInv, AloneInv
  <2>2. PICK q \in Process : id[q] = id[p] /\ pc[q] \in {"put", "write", "delete"}
    BY ZenonT(60), <2>1 DEF SpentInv
  <2>3. q = p
    BY ZenonT(60), <2>1, <2>2 DEF Alone
  <2> QED BY ZenonT(60), <2>2, <2>3
<1> QED BY <1>1, AllInit, AllNext, PTL DEF Spec

=============================================================================
