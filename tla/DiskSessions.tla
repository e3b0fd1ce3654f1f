---------------------------- MODULE DiskSessions ----------------------------
(***************************************************************************)
(* The state directory of a user: one file per session and the index       *)
(* sess-<me>.json, which DiskSessionManager reads when a process starts    *)
(* and writes back when it ends.  A file is saved by truncating and then   *)
(* writing it; the process may die anywhere between, a post to the bus may *)
(* fail with or without having been taken, and two processes may work on   *)
(* one directory.  A process is a chat or one of the commands of           *)
(* cli/basic.go; within it the client's mutex runs one operation at a time.*)
(*                                                                         *)
(* Of a session the model keeps the name of the peer and whether an ack is *)
(* pending; what its ratchet is in is told by the history variables.       *)
(***************************************************************************)
EXTENDS Integers, FiniteSets

CONSTANTS
  Name, Process,
  MaxId, MaxDeaths     \* bounds on ulid.Make and Die

ASSUME BoundsAssumption == MaxId \in Nat /\ MaxDeaths \in Nat

\* ids, as ulid.Make hands them out
Id == 1 .. MaxId
NoId == 0

VARIABLES
  index,      \* sess-<me>.json
  file,       \* the session files, by id
  pc, op,     \* where a process is, and in which operation
  sessions,   \* the map of its DiskSessionManager
  id, sess,   \* the session it works on
  linked,     \* whether the file it has open still has a name
  made,       \* the last id that ulid.Make has returned
  \* History, for the properties only (the first three until processes overlap):
  spent,      \* files with a state of the ratchet that a message was posted from
  stale,      \* files of a session made before the last one saved for its name
  unmapped,   \* names that lost their entry to the Delete of another session
  cut,        \* files (and index) left empty by a process that died while writing
  deaths, overlap

disk == <<index, file>>
job == <<pc, op, id, sess, linked>>
marks == <<spent, stale, unmapped>>
history == <<marks, cut, deaths, overlap>>
vars == <<disk, job, sessions, made, history>>

Absent == [kind |-> "absent"]
Empty == [kind |-> "empty"]
Session(n, a) == [kind |-> "session", name |-> n, pending |-> a]
NoEntries == [n \in Name |-> NoId]
Saved(m) == [kind |-> "map", map |-> m]
IndexFile == -1      \* stands for the index in cut

Init ==
  /\ index = Absent
  /\ file = [i \in Id |-> Absent]
  /\ pc = [p \in Process |-> "off"]
  /\ op = [p \in Process |-> "none"]
  /\ sessions = [p \in Process |-> NoEntries]
  /\ id = [p \in Process |-> NoId]
  /\ sess = [p \in Process |-> Empty]
  /\ linked = [p \in Process |-> TRUE]
  /\ made = 0
  /\ spent = {} /\ stale = {} /\ unmapped = {} /\ cut = {}
  /\ deaths = 0
  /\ overlap = FALSE

-----------------------------------------------------------------------------
Set(f, x, v) == [f EXCEPT ![x] = v]

Kept(marked) == IF overlap THEN {} ELSE marked

\* Operation o starts on session s with id i.
Work(p, o, i, s, next) ==
  /\ pc' = Set(pc, p, next)
  /\ op' = Set(op, p, o)
  /\ id' = Set(id, p, i)
  /\ sess' = Set(sess, p, s)
  /\ linked' = Set(linked, p, TRUE)

\* The operation is over, and what it worked on is forgotten.
Done(p) == Work(p, "none", NoId, Empty, "idle")

\* The process is over.
Gone(p) == Work(p, "none", NoId, Empty, "off") /\ sessions' = Set(sessions, p, NoEntries)

\* NewSessionManager and Load; an index that cannot be decoded ends the process.
Load(p) ==
  /\ pc[p] = "off"
  /\ index # Empty
  /\ pc' = Set(pc, p, "idle")
  /\ sessions' = Set(sessions, p, IF index = Absent THEN NoEntries ELSE index.map)
  /\ overlap' = (overlap \/ \E q \in Process : pc[q] # "off")
  /\ spent' = IF overlap' THEN {} ELSE spent
  /\ stale' = IF overlap' THEN {} ELSE stale
  /\ unmapped' = IF overlap' THEN {} ELSE unmapped
  /\ UNCHANGED <<disk, op, id, sess, linked, made, cut, deaths>>

\* Mutant: the last id is returned again.
ByNameRepeats(p, n, i) ==
  /\ i = IF sessions[p][n] # NoId THEN sessions[p][n] ELSE IF made = 0 THEN 1 ELSE made
  /\ sessions' = Set(sessions, p, Set(sessions[p], n, i))
  /\ made' = IF i > made THEN i ELSE made

\* ByName(n) returns i.
ByName(p, n, i) ==
  /\ i = IF sessions[p][n] # NoId THEN sessions[p][n] ELSE made + 1
  /\ sessions' = Set(sessions, p, Set(sessions[p], n, i))
  /\ made' = IF i > made THEN i ELSE made

\* Chat: an offer if there is no session, a pending ack if there is one.  Nothing
\* happens if the key of the peer is not found.
Chat(p, n) ==
  /\ pc[p] = "idle"
  /\ \E i \in Id :
       /\ ByName(p, n, i)
       /\ \/ file[i] = Absent /\ Work(p, "offer", i, Session(n, FALSE), "post")
          \/ /\ file[i].kind = "session" /\ file[i].pending
             /\ Work(p, "send", i, [file[i] EXCEPT !.pending = FALSE], "post")
          \/ /\ file[i].kind = "session" => ~file[i].pending
             /\ file[i] # Empty
             /\ UNCHANGED job
  /\ UNCHANGED <<disk, history>>

\* Mutant: an error if the file is not there, but not if it is empty.
SendUnchecked(p, n) ==
  /\ pc[p] = "idle"
  /\ \E i \in Id :
       /\ ByName(p, n, i)
       /\ \/ file[i] = Absent /\ UNCHANGED job
          \/ /\ file[i] # Absent
             /\ \E o \in {"send", "close"} : Work(p, o, i, file[i], "post")
  /\ UNCHANGED <<disk, history>>

\* Send and Close: an error if there is no session.
Send(p, n) ==
  /\ pc[p] = "idle"
  /\ \E i \in Id :
       /\ ByName(p, n, i)
       /\ \/ file[i] = Absent /\ UNCHANGED job
          \/ /\ file[i].kind = "session"
             /\ \E o \in {"send", "close"} : Work(p, o, i, file[i], "post")
  /\ UNCHANGED <<disk, history>>

\* handleRatchet for an offer from n: New, whatever session there was.  Nothing
\* more happens if the key is not found or ReceiveMsg refuses the offer.
ReceiveOffer(p, n) ==
  /\ pc[p] = "idle"
  /\ \E i \in Id :
       /\ ByName(p, n, i)
       /\ Work(p, "accept", i, Session(n, TRUE), "put") \/ UNCHANGED job
  /\ UNCHANGED <<disk, history>>

\* Mutant: the name of the peer leads to the session again.
ReceiveRemaps(p, i) ==
  /\ pc[p] = "idle"
  /\ file[i].kind = "session"
  /\ \E o \in {"receive", "receive close"} : Work(p, o, i, file[i], "put")
  /\ sessions' = Set(sessions, p, Set(sessions[p], file[i].name, i))
  /\ UNCHANGED <<disk, made, history>>

\* handleRatchet for an ack, a text or a close that names session i, if
\* ReceiveMsg accepts it; it changes nothing if not, or if there is no file.
Receive(p, i) ==
  /\ pc[p] = "idle"
  /\ file[i].kind = "session"
  /\ \E o \in {"receive", "receive close"} : Work(p, o, i, file[i], "put")
  /\ UNCHANGED <<disk, sessions, made, history>>

\* Get of an empty file leaves no session, and Active panics.  The index is
\* still written if the panic passes the deferred close of cli/basic.go.
GetPanics(p) ==
  /\ pc[p] = "idle"
  /\ \E i \in Id : file[i] = Empty
       /\ \/ /\ \E n \in Name : sessions[p][n] = i
             /\ pc' = Set(pc, p, "save")
             /\ UNCHANGED <<op, id, sess, linked, sessions>>
          \/ Gone(p)
  /\ UNCHANGED <<disk, made, history>>

-----------------------------------------------------------------------------
\* Mutant: Send forgets to save the session.
sendMsgOnly(p) ==
  /\ pc[p] = "post"
  /\ spent' = IF op[p] = "offer" THEN spent ELSE Kept(spent \cup {id[p]})
  /\ Done(p)
  /\ UNCHANGED <<disk, sessions, made, stale, unmapped, cut, deaths, overlap>>

\* sendMsg: the message is taken, or it is refused, or it is taken and no answer
\* comes.  Chat, Send and Close return an error in the last two cases and save
\* nothing; the state that was posted from is then not counted as spent.
sendMsg(p) ==
  /\ pc[p] = "post"
  /\ \/ /\ spent' = IF op[p] = "offer" THEN spent ELSE Kept(spent \cup {id[p]})
        /\ pc' = Set(pc, p, IF op[p] = "close" THEN "delete" ELSE "put")
        /\ UNCHANGED <<op, id, sess, linked>>
     \/ Done(p) /\ UNCHANGED spent
  /\ UNCHANGED <<disk, sessions, made, stale, unmapped, cut, deaths, overlap>>

\* Put, first half: OpenFile with O_TRUNC and O_CREATE.
PutTruncate(p) ==
  /\ pc[p] = "put"
  /\ file' = Set(file, id[p], Empty)
  /\ linked' = Set(linked, p, TRUE)
  /\ pc' = Set(pc, p, "write")
  /\ UNCHANGED <<index, op, id, sess, sessions, made, history>>

\* The files of sessions with n.
OfName(n) == {i \in Id : file[i].kind = "session" /\ file[i].name = n}

\* Put, second half: the next state of the session is written, if only to a file
\* that another process has removed.
PutWrite(p) ==
  /\ pc[p] = "write"
  /\ IF linked[p]
     THEN /\ file' = Set(file, id[p], sess[p])
          /\ cut' = cut \ {id[p]}
          /\ spent' = spent \ {id[p]}
          /\ stale' = IF op[p] \in {"offer", "accept"}
                      THEN Kept((stale \cup OfName(sess[p].name)) \ {id[p]})
                      ELSE stale
     ELSE UNCHANGED <<file, cut, spent, stale>>
  /\ IF op[p] = "receive close"
     THEN pc' = Set(pc, p, "delete") /\ UNCHANGED <<op, id, sess, linked>>
     ELSE Done(p)
  /\ UNCHANGED <<index, sessions, made, unmapped, deaths, overlap>>

\* Mutant: the file stays.
DeleteEntry(p) ==
  /\ pc[p] = "delete"
  /\ sessions' = Set(sessions, p, Set(sessions[p], sess[p].name, NoId))
  /\ Done(p)
  /\ UNCHANGED <<disk, made, history>>

\* Delete: the entry of the name goes, whichever session it leads to.
Delete(p) ==
  LET n == sess[p].name  i == id[p] IN
  /\ pc[p] = "delete"
  /\ sessions' = Set(sessions, p, Set(sessions[p], n, NoId))
  /\ file' = Set(file, i, Absent)
  /\ cut' = cut \ {i} /\ spent' = spent \ {i} /\ stale' = stale \ {i}
  /\ linked' = [q \in Process |-> linked[q] /\ (q = p \/ id[q] # i)]
  /\ pc' = Set(pc, p, "idle")
  /\ op' = Set(op, p, "none")
  /\ id' = Set(id, p, NoId)
  /\ sess' = Set(sess, p, Empty)
  /\ unmapped' = IF sessions[p][n] \in {NoId, i} THEN unmapped
                 ELSE Kept(unmapped \cup {n})
  /\ UNCHANGED <<index, made, deaths, overlap>>

-----------------------------------------------------------------------------
\* The command is over, or /quit or an interrupt ends the chat.
Exit(p) ==
  /\ pc[p] = "idle"
  /\ pc' = Set(pc, p, "save")
  /\ UNCHANGED <<disk, op, id, sess, linked, sessions, made, history>>

\* Close, first half: OpenFile with O_TRUNC and O_CREATE.
CloseTruncate(p) ==
  /\ pc[p] = "save"
  /\ index' = Empty
  /\ pc' = Set(pc, p, "saving")
  /\ UNCHANGED <<file, op, id, sess, linked, sessions, made, history>>

\* Mutant: nothing is written if there are no sessions.
CloseIfAny(p) ==
  /\ pc[p] = "saving"
  /\ index' = IF sessions[p] = NoEntries THEN index ELSE Saved(sessions[p])
  /\ cut' = cut \ {IndexFile}
  /\ Gone(p)
  /\ UNCHANGED <<file, made, marks, deaths, overlap>>

\* Close, second half: the map is encoded.
CloseWrite(p) ==
  /\ pc[p] = "saving"
  /\ index' = Saved(sessions[p])
  /\ cut' = cut \ {IndexFile}
  /\ Gone(p)
  /\ UNCHANGED <<file, made, marks, deaths, overlap>>

\* The process is killed, or the machine stops.  A state that was posted from
\* and not replaced yet is not counted as spent.
Die(p) ==
  /\ pc[p] # "off"
  /\ deaths < MaxDeaths
  /\ deaths' = deaths + 1
  /\ Gone(p)
  /\ cut' = cut \cup (IF pc[p] = "write" /\ linked[p] THEN {id[p]} ELSE {})
                \cup (IF pc[p] = "saving" THEN {IndexFile} ELSE {})
  /\ spent' = spent \ {id[p]}
  /\ UNCHANGED <<disk, made, stale, unmapped, overlap>>

Next == \E p \in Process :
  \/ Load(p) \/ sendMsg(p) \/ PutTruncate(p) \/ PutWrite(p) \/ Delete(p)
  \/ Exit(p) \/ CloseTruncate(p) \/ CloseWrite(p) \/ GetPanics(p) \/ Die(p)
  \/ \E n \in Name : Chat(p, n) \/ Send(p, n) \/ ReceiveOffer(p, n)
  \/ \E i \in Id : Receive(p, i)

Spec == Init /\ [][Next]_vars

-----------------------------------------------------------------------------
Busy(p) == pc[p] \in {"post", "put", "write", "delete"}

Contents == [kind : {"session"}, name : Name, pending : BOOLEAN]

Entry == Id \cup {NoId}

DiskOK ==
  /\ index \in {Absent, Empty} \cup {Saved(m) : m \in [Name -> Entry]}
  /\ file \in [Id -> Contents \cup {Absent, Empty}]

JobOK ==
  /\ pc \in [Process -> {"off", "idle", "post", "put", "write", "delete", "save", "saving"}]
  /\ op \in [Process -> {"none", "offer", "accept", "send", "close", "receive", "receive close"}]
  /\ id \in [Process -> Entry]
  /\ sess \in [Process -> Contents \cup {Empty}]
  /\ linked \in [Process -> BOOLEAN]
  /\ \A p \in Process :
       IF Busy(p) THEN id[p] \in Id /\ sess[p] \in Contents /\ op[p] # "none"
       ELSE id[p] = NoId /\ sess[p] = Empty /\ op[p] = "none"

MapOK ==
  /\ sessions \in [Process -> [Name -> Entry]]
  /\ \A p \in Process : pc[p] = "off" => sessions[p] = NoEntries
  /\ made \in 0 .. MaxId

HistoryOK ==
  /\ spent \subseteq Id /\ stale \subseteq Id /\ unmapped \subseteq Name
  /\ cut \subseteq Id \cup {IndexFile}
  /\ deaths \in 0 .. MaxDeaths /\ overlap \in BOOLEAN

\* The types of the variables; a process that is not busy holds no session.
TypeOK == DiskOK /\ JobOK /\ MapOK /\ HistoryOK

\* An id belongs to one name: no index, no map of a process and no session file
\* gives it to two, however processes overlap and die.
Owns(n, i) ==
  \/ index.kind = "map" /\ index.map[n] = i
  \/ \E p \in Process : sessions[p][n] = i
  \/ file[i].kind = "session" /\ file[i].name = n
OneOwner == \A i \in Id : \A m, n \in Name : Owns(m, i) /\ Owns(n, i) => m = n

\* A session file or the index is empty only while a process is between
\* truncating and writing it, or after one died there.
TornOnlyByDeath ==
  /\ index = Empty => IndexFile \in cut \/ \E p \in Process : pc[p] = "saving"
  /\ \A i \in Id : file[i] = Empty =>
       i \in cut \/ \E p \in Process : pc[p] = "write" /\ linked[p] /\ id[p] = i

\* Where a name leads: through the map of a process that runs, else the index.
Entries ==
  IF \E p \in Process : pc[p] # "off"
  THEN sessions[CHOOSE p \in Process : pc[p] # "off"]
  ELSE IF index.kind = "map" THEN index.map ELSE NoEntries

\* Unless processes overlap or die, every session file is found by the name of
\* its peer: none is left behind that Chat, Send and Close do not see.
NoOrphans ==
  ~overlap /\ deaths = 0 =>
    \A i \in Id : file[i].kind = "session" => Entries[file[i].name] = i

\* Unless processes overlap, a name leads to the last session saved for it, or to
\* none: an index that is out of date after a death does not bring an older one
\* back.  (A name that lost its entry to the Delete of a session left behind by
\* an earlier death is not covered.)
NewestOrNone ==
  ~overlap => \A n \in Name \ unmapped :
    LET i == Entries[n]
    IN i # NoId /\ file[i].kind = "session" => i \notin stale

\* Unless processes overlap, no message is made from a state of a session that
\* another was posted from before (with the message key of that other one),
\* except after a death before that state was replaced, or a post without answer.
NoReuse ==
  ~overlap => \A p \in Process : pc[p] = "post" /\ op[p] # "offer" => id[p] \notin spent
=============================================================================
