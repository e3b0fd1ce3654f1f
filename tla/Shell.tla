------------------------------- MODULE Shell --------------------------------
(***************************************************************************)
(* The running program, as "ratchet chat" (interactive.go, MemSession) or  *)
(* "ratchet ui" (ui/chat.go): a thread "sub" that hands the messages of    *)
(* the bus to Client.Input, a thread "user" that runs what is typed, the   *)
(* main goroutine that saves the index when the program ends, and the      *)
(* lock of Client.sm between them.  Handlers are dispatched under that     *)
(* lock.  Close of the session manager does not take it.                   *)
(*                                                                         *)
(* Sessions are kept in DiskSessions; here only their deletions are, which *)
(* the log of the chat has to tell.  The lock of the logs is taken for one *)
(* update or one read and never while waiting, so a step that takes it is  *)
(* atomic.  What is printed is left out, but for the prompt.               *)
(***************************************************************************)
EXTENDS Integers, Sequences

CONSTANTS
  Peer, Me, NoOne,
  Inbox,                  \* what is on the bus: "ratchet", "salty" or "other"
  MaxStarts, MaxKills     \* bounds on Start and Kill

ASSUME InboxAssumption == Inbox \in Seq({"ratchet", "salty", "other"}) /\ Inbox # <<>>
ASSUME BoundsAssumption == MaxStarts \in Nat /\ MaxKills \in Nat
ASSUME NamesAssumption == Me \notin Peer /\ NoOne \notin Peer \cup {Me}

VARIABLES
  main,       \* "off", "run", or "encode": in Close, the index truncated
  front,      \* "chat" or "ui"
  stop,       \* "no"; "quit": Run is to return; "done": so is all that has the context
  saved,      \* the position in the index: Torn if the file is empty
  pos,        \* the position of the session manager
  cursor,     \* the next message of the subscription
  lock,       \* who has Client.sm
  sub, user,  \* the threads
  job,        \* of either: the event to be logged, the handler that sets the prompt
  gone,       \* peers whose session the chat has deleted
  last,       \* the last of started and closed in the log of a peer
  them, prompt,
  \* History, for the properties only:
  starts, kills,
  handled, twice,  \* messages handled, and handled again
  missed,          \* messages not subscribed to, or whose handler was cut off
  rewound          \* a program was killed, or cli.Recv has set the position

program == <<main, front, stop>>
store == <<saved, pos, cursor>>
threads == <<lock, sub, user, job>>
shown == <<gone, last, them, prompt>>
history == <<starts, kills, handled, twice, missed, rewound>>
vars == <<program, store, threads, shown, history>>

Thread == {"sub", "user"}
Name == Peer \cup {Me}
Ids == DOMAIN Inbox
Fresh == -1          \* no position: the subscription starts at the end
Torn == 0

NoJob == [kind |-> "none", of |-> NoOne, log |-> FALSE, handler |-> "done", left |-> {}]
Waiting == [pc |-> "idle", id |-> 0]
User(pc, c, n, left) == [pc |-> pc, cmd |-> c, arg |-> n, left |-> left]
Ended == User("ended", "none", NoOne, {})
AtPrompt == User("prompt", "none", NoOne, {})
Call(c, n) == User("lock", c, n, {})
Setting(c, n) == User("set", c, n, {"text", "len"})
Prompt(n) == [text |-> n, len |-> n]

Init ==
  /\ main = "off" /\ front = "chat" /\ stop = "no"
  /\ saved = Fresh /\ pos = Fresh /\ cursor = 1
  /\ lock = "free" /\ sub = Waiting /\ user = Ended /\ job = [t \in Thread |-> NoJob]
  /\ gone = {} /\ last = [n \in Peer |-> "none"]
  /\ them = NoOne /\ prompt = Prompt(NoOne)
  /\ starts = 0 /\ kills = 0 /\ handled = {} /\ twice = {} /\ missed = {} /\ rewound = FALSE

-----------------------------------------------------------------------------
\* run: NewSessionManager, client.New and the threads.  A torn index is an error.
\* A subscription without a position starts behind messages that nobody saw.
Start(f, n) ==
  /\ main = "off" /\ starts < MaxStarts /\ saved # Torn
  /\ main' = "run" /\ front' = f
  /\ pos' = saved
  /\ IF saved = Fresh
     THEN /\ cursor' \in {c \in 1 .. Len(Inbox) + 1 : \A i \in handled \cup missed : i < c}
          /\ missed' = missed \cup {i \in Ids \ handled : i < cursor'}
     ELSE cursor' = saved /\ UNCHANGED missed
  /\ user' = User("register", "none", n, {})
  /\ them' = n /\ prompt' = Prompt(IF f = "ui" THEN n ELSE NoOne)
  /\ starts' = starts + 1
  /\ UNCHANGED <<stop, saved, lock, sub, job, gone, last, kills, handled, twice, rewound>>

\* The program is over: what its threads were at is lost.
Over ==
  /\ main' = "off" /\ front' = "chat" /\ stop' = "no"
  /\ pos' = Fresh /\ cursor' = 1
  /\ lock' = "free" /\ sub' = Waiting /\ user' = Ended /\ job' = [t \in Thread |-> NoJob]
  /\ gone' = {} /\ last' = [n \in Peer |-> "none"]
  /\ them' = NoOne /\ prompt' = Prompt(NoOne)
  /\ missed' = IF sub.pc = "idle" THEN missed ELSE missed \cup {sub.id}

\* It is killed; or the runtime ends it, because a map is written while another
\* thread uses it: the handlers in Register, the sessions in CloseWrite.
Kill ==
  /\ main # "off" /\ kills < MaxKills
  /\ Over
  /\ kills' = kills + 1 /\ rewound' = TRUE
  /\ UNCHANGED <<saved, starts, handled, twice>>

-----------------------------------------------------------------------------
\* dispatch by thread t, which waits for the handlers: in the chat, MemSession.Update
\* and, for a closed session, the handler that sets the prompt.  That one may be
\* missing while the handlers are being registered.
Dispatch(t, k, n) ==
  \E h \in {"check", "done"} :
    /\ h = "check" => k = "closed"
    /\ h = "done" => k = "started" \/ user.pc = "register"
    /\ job' = [job EXCEPT ![t] = [kind |-> k, of |-> n, log |-> TRUE, handler |-> h, left |-> {}]]

Dispatched(t) == ~job[t].log /\ job[t].handler = "done"

\* Mutants: nothing is logged when a session is closed; Update takes the lock that
\* dispatch is called under.
UpdateStarted(t) ==
  /\ job[t].log
  /\ last' = IF job[t].kind = "started" THEN [last EXCEPT ![job[t].of] = "started"] ELSE last
  /\ job' = [job EXCEPT ![t].log = FALSE]
  /\ UNCHANGED <<program, store, lock, sub, user, gone, them, prompt, history>>

UpdateLocked(t) ==
  /\ job[t].log /\ lock = "free"
  /\ last' = [last EXCEPT ![job[t].of] = job[t].kind]
  /\ job' = [job EXCEPT ![t].log = FALSE]
  /\ UNCHANGED <<program, store, lock, sub, user, gone, them, prompt, history>>

\* MemSession.Update; its Use may give up once the context is done.
Update(t) ==
  /\ job[t].log
  /\ \/ last' = [last EXCEPT ![job[t].of] = job[t].kind]
     \/ stop = "done" /\ UNCHANGED last
  /\ job' = [job EXCEPT ![t].log = FALSE]
  /\ UNCHANGED <<program, store, lock, sub, user, gone, them, prompt, history>>

\* Sets one of the two words of the string svc.prompt, which may come in any order.
Assign(part, n) == prompt' = [prompt EXCEPT ![part] = n]

\* The handler of OnSessionClosed looks at them, and then sets the prompt.
HandlerChecks(t) ==
  /\ job[t].handler = "check"
  /\ job' = [job EXCEPT ![t].handler = IF them = job[t].of THEN "set" ELSE "done",
                        ![t].left = IF them = job[t].of THEN {"text", "len"} ELSE {}]
  /\ UNCHANGED <<program, store, lock, sub, user, shown, history>>

HandlerSets(t) ==
  /\ job[t].handler = "set"
  /\ \E part \in job[t].left :
       /\ Assign(part, NoOne)
       /\ job' = [job EXCEPT ![t].left = @ \ {part},
                             ![t].handler = IF job[t].left = {part} THEN "done" ELSE "set"]
  /\ UNCHANGED <<program, store, lock, sub, user, gone, last, them, history>>

-----------------------------------------------------------------------------
\* hdlr and Input: the next message.  handleOther, and handleRatchet if it cannot
\* parse the message, take no lock and set no position.
Input ==
  /\ main = "run" /\ sub.pc = "idle" /\ cursor \in Ids
  /\ cursor' = cursor + 1
  /\ IF Inbox[cursor] = "other"
     THEN handled' = handled \cup {cursor} /\ UNCHANGED sub
     ELSE sub' = [pc |-> "lock", id |-> cursor] /\ UNCHANGED handled
  /\ UNCHANGED <<program, saved, pos, lock, user, job, shown, starts, kills, twice, missed, rewound>>

\* Mutants: the position of the message itself, or of the one after the next, which
\* there may not be.
SetPositionHere ==
  /\ sub.pc = "lock" /\ lock = "free"
  /\ lock' = "sub" /\ pos' = sub.id
  /\ sub' = [sub EXCEPT !.pc = "work"]
  /\ UNCHANGED <<program, saved, cursor, user, job, shown, history>>

SetPositionFar ==
  /\ sub.pc = "lock" /\ lock = "free"
  /\ lock' = "sub" /\ pos' = IF sub.id = Len(Inbox) THEN sub.id + 1 ELSE sub.id + 2
  /\ sub' = [sub EXCEPT !.pc = "work"]
  /\ UNCHANGED <<program, saved, cursor, user, job, shown, history>>

SetPositionTwo ==
  /\ sub.pc = "lock" /\ lock = "free"
  /\ lock' = "sub" /\ pos' = sub.id + 2
  /\ sub' = [sub EXCEPT !.pc = "work"]
  /\ UNCHANGED <<program, saved, cursor, user, job, shown, history>>

\* handleRatchet and handleSaltPack have the lock, and set the position first.
SetPosition ==
  /\ sub.pc = "lock" /\ lock = "free"
  /\ lock' = "sub" /\ pos' = sub.id + 1
  /\ sub' = [sub EXCEPT !.pc = "work"]
  /\ UNCHANGED <<program, saved, cursor, user, job, shown, history>>

\* Use gives up once the context is done.
InputGivesUp ==
  /\ sub.pc = "lock" /\ stop = "done"
  /\ sub' = Waiting
  /\ missed' = missed \cup {sub.id}
  /\ UNCHANGED <<program, store, lock, user, job, shown, starts, kills, handled, twice, rewound>>

\* What the message does: nothing that is kept here (a text, a refused message), or
\* an offer, an ack or a close of a session; another file of that peer may be left.
Handle ==
  /\ sub.pc = "work"
  /\ sub' = [sub EXCEPT !.pc = "wait"]
  /\ \/ UNCHANGED <<gone, job>>
     \/ /\ Inbox[sub.id] = "ratchet" /\ front = "chat"
        /\ \E n \in Peer :
             \/ gone' = gone \ {n} /\ UNCHANGED job
             \/ n \notin gone /\ Dispatch("sub", "started", n) /\ UNCHANGED gone
             \/ n \notin gone /\ Dispatch("sub", "closed", n) /\ gone' \in {gone, gone \cup {n}}
  /\ UNCHANGED <<program, store, lock, user, last, them, prompt, history>>

\* dispatch and Use return, and so does Input.
InputReturns ==
  /\ sub.pc = "wait" /\ Dispatched("sub")
  /\ lock' = "free" /\ sub' = Waiting /\ job' = [job EXCEPT !["sub"] = NoJob]
  /\ handled' = handled \cup {sub.id}
  /\ twice' = IF sub.id \in handled THEN twice \cup {sub.id} ELSE twice
  /\ UNCHANGED <<program, store, user, shown, starts, kills, missed, rewound>>

-----------------------------------------------------------------------------
\* The handlers are registered, and the chat sets its prompt.
Register ==
  /\ user.pc = "register"
  /\ user' = IF front = "ui" THEN AtPrompt ELSE Setting("first", user.arg)
  /\ UNCHANGED <<program, store, lock, sub, job, shown, history>>

\* doChat and doClose set them, and then the prompt; so does the ui, whose prompt no
\* other thread looks at.
SetThem(c, n, to) ==
  /\ them' = to
  /\ IF front = "ui" THEN prompt' = Prompt(to) /\ user' = Call(c, n)
     ELSE user' = Setting(c, n) /\ UNCHANGED prompt

\* A line is typed, or the chat takes "/chat" of the peer on its command line for
\* one.  "/chat" of oneself is refused by the chat only.  "/close" without a name
\* means them, and it forgets them whoever it names.
Type(c, n) ==
  /\ user.pc = "prompt" /\ (front = "chat" => stop # "done")
  /\ user.arg # NoOne => c = "chat" /\ n = user.arg
  /\ \/ c = "chat" /\ n # NoOne /\ (front = "chat" => n # Me) /\ SetThem(c, n, n)
     \/ /\ c = "chat" /\ n = Me /\ front = "chat"
        /\ user' = AtPrompt /\ UNCHANGED <<them, prompt>>
     \/ /\ c = "close"
        /\ LET target == IF n = NoOne THEN them ELSE n IN
           target # NoOne /\ SetThem(c, target, NoOne)
     \/ /\ c = "send" /\ n = them /\ n # NoOne
        /\ user' = Call(c, NoOne) /\ UNCHANGED <<them, prompt>>
     \/ /\ c = "salty" /\ n # NoOne
        /\ user' = Call("send", NoOne) /\ UNCHANGED <<them, prompt>>
  /\ UNCHANGED <<program, store, lock, sub, job, gone, last, history>>

\* Mutant: the prompt is set to the name that was typed.
SetPromptTyped ==
  /\ user.pc = "set"
  /\ \E part \in user.left :
       /\ Assign(part, user.arg)
       /\ user' = IF user.left # {part} THEN [user EXCEPT !.left = @ \ {part}]
                  ELSE IF user.cmd = "first" THEN [AtPrompt EXCEPT !.arg = user.arg]
                  ELSE Call(user.cmd, user.arg)
       /\ them' = IF user.left = {part} /\ user.cmd = "first" THEN NoOne ELSE them
  /\ UNCHANGED <<program, store, lock, sub, job, gone, last, history>>

\* setPrompt of the chat.  After the first, the peer on the command line is the
\* first line to be run, and them is empty until then.
SetPrompt ==
  /\ user.pc = "set"
  /\ \E part \in user.left :
       /\ Assign(part, IF user.cmd = "close" THEN NoOne ELSE user.arg)
       /\ user' = IF user.left # {part} THEN [user EXCEPT !.left = @ \ {part}]
                  ELSE IF user.cmd = "first" THEN [AtPrompt EXCEPT !.arg = user.arg]
                  ELSE Call(user.cmd, user.arg)
       /\ them' = IF user.left = {part} /\ user.cmd = "first" THEN NoOne ELSE them
  /\ UNCHANGED <<program, store, lock, sub, job, gone, last, history>>

\* ReadLog gives up before the prompt is set, once the context is done.
ReadLogFails ==
  /\ user.pc = "set" /\ user.cmd = "chat" /\ user.left = {"text", "len"} /\ stop = "done"
  /\ user' = AtPrompt
  /\ UNCHANGED <<program, store, lock, sub, job, shown, history>>

\* The command has the lock: it fails, or it sends and waits for the bus to answer.
CommandLocks ==
  /\ user.pc = "lock" /\ lock = "free"
  /\ lock' = "user"
  /\ \E pc \in {"post", "wait"} : user' = [user EXCEPT !.pc = pc]
  /\ UNCHANGED <<program, store, sub, job, shown, history>>

CommandGivesUp ==
  /\ user.pc = "lock" /\ stop = "done"
  /\ user' = AtPrompt
  /\ UNCHANGED <<program, store, lock, sub, job, shown, history>>

\* The answer: Chat has sent an offer or the pending ack.  Close tells the handlers
\* before it deletes the session.
Answer ==
  /\ user.pc = "post"
  /\ user' = [user EXCEPT !.pc = "wait"]
  /\ \/ UNCHANGED <<gone, job>>
     \/ user.cmd = "chat" /\ user.arg \in gone /\ gone' = gone \ {user.arg} /\ UNCHANGED job
     \/ /\ front = "chat" /\ user.arg \in Peer \ gone /\ UNCHANGED gone
        /\ \/ user.cmd = "chat" /\ Dispatch("user", "started", user.arg)
           \/ user.cmd = "close" /\ Dispatch("user", "closed", user.arg)
  /\ UNCHANGED <<program, store, lock, sub, last, them, prompt, history>>

\* Mutant: the lock is not given back.
CommandKeeps ==
  /\ user.pc = "wait" /\ Dispatched("user")
  /\ IF job["user"].kind = "closed" THEN gone' \in {gone, gone \cup {job["user"].of}} ELSE UNCHANGED gone
  /\ user' = AtPrompt /\ job' = [job EXCEPT !["user"] = NoJob]
  /\ UNCHANGED <<program, store, lock, sub, last, them, prompt, history>>

\* Use of the command returns.
CommandReturns ==
  /\ user.pc = "wait" /\ Dispatched("user")
  /\ IF job["user"].kind = "closed" THEN gone' \in {gone, gone \cup {job["user"].of}} ELSE UNCHANGED gone
  /\ lock' = "free" /\ user' = AtPrompt /\ job' = [job EXCEPT !["user"] = NoJob]
  /\ UNCHANGED <<program, store, sub, last, them, prompt, history>>

-----------------------------------------------------------------------------
\* "/quit" or Escape.  In the ui it cancels the context of all.
Quit ==
  /\ main = "run" /\ user = AtPrompt /\ (front = "chat" => stop # "done")
  /\ user' = Ended
  /\ stop' = IF front = "ui" THEN "done" ELSE "quit"
  /\ UNCHANGED <<main, front, store, lock, sub, job, shown, history>>

Interrupt ==
  /\ main = "run" /\ stop # "done"
  /\ stop' = "done"
  /\ UNCHANGED <<main, front, store, threads, shown, history>>

\* The loop of the chat ends with the context.
ChatEnds ==
  /\ user.pc = "prompt" /\ stop = "done" /\ front = "chat"
  /\ user' = Ended
  /\ UNCHANGED <<program, store, lock, sub, job, shown, history>>

\* Mutant: Close of the session manager waits for the lock.
CloseLocked ==
  /\ main = "run" /\ stop # "no" /\ (front = "ui" => user.pc = "ended") /\ lock = "free"
  /\ main' = "encode" /\ saved' = Torn
  /\ UNCHANGED <<front, stop, pos, cursor, threads, shown, history>>

\* Client.Run returns, and run calls its deferred close; the ui waits for its loop.
CloseTruncate ==
  /\ main = "run" /\ stop # "no" /\ (front = "ui" => user.pc = "ended")
  /\ main' = "encode" /\ saved' = Torn
  /\ UNCHANGED <<front, stop, pos, cursor, threads, shown, history>>

CloseWrite ==
  /\ main = "encode"
  /\ saved' = pos
  /\ Over
  /\ UNCHANGED <<starts, kills, handled, twice, rewound>>

\* cli.Recv, between two programs: its message has position 1.
Recv ==
  /\ main = "off" /\ saved \notin {Torn, 2}
  /\ saved' = 2 /\ rewound' = TRUE
  /\ missed' = missed \cup {i \in Ids : i < saved'}
  /\ UNCHANGED <<program, pos, cursor, threads, shown, starts, kills, handled, twice>>

Launch == \E f \in {"chat", "ui"}, n \in Name \cup {NoOne} : Start(f, n)
Command == \E c \in {"chat", "close", "send", "salty"}, n \in Name \cup {NoOne} : Type(c, n)
Handlers(t) == Update(t) \/ HandlerChecks(t) \/ HandlerSets(t)

Next ==
  \/ Launch \/ Command \/ \E t \in Thread : Handlers(t)
  \/ Kill \/ Recv \/ Interrupt \/ Quit \/ ChatEnds \/ CloseTruncate \/ CloseWrite
  \/ Input \/ SetPosition \/ InputGivesUp \/ Handle \/ InputReturns
  \/ Register \/ SetPrompt \/ ReadLogFails
  \/ CommandLocks \/ CommandGivesUp \/ Answer \/ CommandReturns

Spec == Init /\ [][Next]_vars

\* The goroutines run, and one that waits for the lock gets it in its turn.  The
\* bus may never answer, and nobody has to type.
FairSpec ==
  /\ Spec
  /\ SF_vars(SetPosition) /\ WF_vars(Handle \/ Handlers("sub") \/ InputReturns)
  /\ SF_vars(CommandLocks) /\ WF_vars(SetPrompt \/ Handlers("user") \/ CommandReturns)
  /\ WF_vars(CloseTruncate \/ CloseWrite)

-----------------------------------------------------------------------------
Parts == {"text", "len"}
Position == {Fresh} \cup 1 .. Len(Inbox) + 1

ProgramOK ==
  /\ main \in {"off", "run", "encode"} /\ front \in {"chat", "ui"} /\ stop \in {"no", "quit", "done"}
StoreOK ==
  saved \in Position \cup {Torn} /\ pos \in Position /\ cursor \in 1 .. Len(Inbox) + 1
Job == {NoJob} \cup [kind : {"started", "closed"}, of : Peer, log : BOOLEAN,
                      handler : {"check", "set", "done"}, left : SUBSET Parts]
ThreadsOK ==
  /\ lock \in {"free"} \cup Thread
  /\ sub \in {Waiting} \cup [pc : {"lock", "work", "wait"}, id : Ids]
  /\ user \in [pc : {"ended", "register", "prompt", "set", "lock", "post", "wait"},
               cmd : {"none", "first", "chat", "close", "send"},
               arg : Name \cup {NoOne}, left : SUBSET Parts]
  /\ job \in [Thread -> Job]
ShownOK ==
  /\ gone \subseteq Peer /\ last \in [Peer -> {"none", "started", "closed"}]
  /\ them \in Name \cup {NoOne} /\ prompt \in [Parts -> Name \cup {NoOne}]
HistoryOK ==
  /\ starts \in 0 .. MaxStarts /\ kills \in 0 .. MaxKills
  /\ handled \subseteq Ids /\ twice \subseteq handled /\ missed \subseteq Ids /\ rewound \in BOOLEAN

\* Every variable keeps its type: a position is none, or names a message of the
\* inbox or the next to come.
TypeOK == ProgramOK /\ StoreOK /\ ThreadsOK /\ ShownOK /\ HistoryOK

\* The prompt of the chat and the ui: when a line can be typed, the prompt names
\* nobody but them, the peer that a line is sent to (or oneself, after "chat" of
\* oneself).  In the chat this is so for each of the two words of the string, which
\* Interactive and the handler of OnSessionClosed write without a lock.
PromptNames ==
  user = AtPrompt /\ stop # "done" =>
    \A part \in Parts : prompt[part] \in {NoOne, Me, them}

\* SetPosition, Close and Load: as long as no program was killed and cli.Recv has
\* not set the position, no message of a session and no salty message is handled
\* twice, in whatever state the program was ended and started again.
HandledOnce == ~rewound => twice = {}

\* SetPosition, Close and Load: the saved position is never behind a message that
\* was neither handled nor cut off by the end of a program nor missed for want of a
\* position.
NothingSkipped == \A i \in Ids : i < saved => i \in handled \cup missed

\* MemSession.Update under the lock of the sessions: while no one has the lock, a
\* session of which the log of the peer says last that it started has not been
\* deleted, by a message or by a command.
LogTrue == lock = "free" /\ stop # "done" => \A n \in gone : last[n] # "started"

\* Use, dispatch and the handlers: a command that waits for the lock or its handlers
\* comes back to the prompt, or to waiting for the bus.
CallsReturn == user.pc \in {"set", "lock", "wait"} ~> user.pc \in {"post", "prompt", "ended"}

\* The same of Input: a message is done with, unless a command holds the lock while
\* it waits for the bus.
MessagesFinish == sub.pc # "idle" ~> sub.pc = "idle" \/ user.pc = "post"

\* run: after "/quit", Escape, or an interrupt of the chat the program ends, even if
\* the bus never answers a command.
QuitEnds == main = "run" /\ stop # "no" /\ (front = "chat" \/ user.pc = "ended") ~> main = "off"
=============================================================================
