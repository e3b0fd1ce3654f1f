---------------------------- MODULE ShellProofs -----------------------------
(***************************************************************************)
(* The safety properties of Shell, for any peers, any inbox and any number *)
(* of starts and kills.                                                    *)
(*                                                                         *)
(* Each rests on an inductive invariant of its own, and these on TypeOK:   *)
(*   - SkipInv: all messages below the cursor are accounted for, but for   *)
(*     the one at hand, and no position is beyond the cursor;              *)
(*   - OnceInv: the position is beyond every message handled, and not      *)
(*     beyond the one at hand until its handler has the lock;              *)
(*   - PromptInv: what the prompt may name at each point of the loop;      *)
(*   - LogInv: what the log still has to be told by a thread that has the  *)
(*     lock, and LockInv: which thread that is.                            *)
(***************************************************************************)
EXTENDS Shell, TLAPS

USE SMTT(30), ZenonT(60)

-----------------------------------------------------------------------------
(* Every step keeps the types *)

\* What is running, and whether it is to stop.
LEMMA ProgramStep == ProgramOK /\ [Next]_vars => ProgramOK'
<1> SUFFICES ASSUME ProgramOK, [Next]_vars PROVE ProgramOK'
  OBVIOUS
<1> USE DEF ProgramOK, program
<1>1. CASE UNCHANGED <<main, front, stop>>
  BY ZenonT(60), <1>1
<1>2. CASE Launch
  BY ZenonT(60), <1>2 DEF Launch, Start, User, Prompt
<1>3. CASE Kill
  BY ZenonT(60), <1>3 DEF Kill, Over, Waiting, Ended, Prompt, NoJob, User
<1>4. CASE CloseWrite
  BY ZenonT(60), <1>4 DEF CloseWrite, Over, Waiting, Ended, Prompt, NoJob, User
<1>5. CASE Interrupt
  BY ZenonT(60), <1>5 DEF Interrupt, store, threads, shown, history
<1>6. CASE Quit
  BY ZenonT(60), <1>6 DEF Quit, Ended, AtPrompt, store, shown, history, User
<1>7. CASE CloseTruncate
  BY ZenonT(60), <1>7 DEF CloseTruncate, threads, shown, history
<1> HIDE DEF ProgramOK, program
<1>8. ASSUME Recv \/ ChatEnds \/ Input \/ SetPosition \/ InputGivesUp
     PROVE  UNCHANGED <<main, front, stop>>
  BY ZenonT(60), <1>8 DEF Recv, program, threads, shown, ChatEnds, store, history, Input, SetPosition,
    InputGivesUp
<1>9. ASSUME Handle \/ InputReturns \/ Register \/ SetPrompt \/ ReadLogFails
     PROVE  UNCHANGED <<main, front, stop>>
  BY ZenonT(60), <1>9 DEF Handle, program, store, history, InputReturns, shown, Register, SetPrompt, Assign,
    ReadLogFails
<1>10. ASSUME CommandLocks \/ CommandGivesUp \/ Answer \/ CommandReturns \/ Command
     PROVE  UNCHANGED <<main, front, stop>>
  BY ZenonT(60), <1>10 DEF CommandLocks, program, store, shown, history, CommandGivesUp, Answer,
    CommandReturns, Command, Type, SetThem
<1>11. ASSUME (\E t \in Thread : Update(t)) \/ (\E t \in Thread : HandlerChecks(t)) \/ (\E t \in
    Thread : HandlerSets(t))
     PROVE  UNCHANGED <<main, front, stop>>
  BY ZenonT(60), <1>11 DEF Update, program, store, history, HandlerChecks, shown, HandlerSets, Assign
<1>12. ASSUME UNCHANGED vars PROVE UNCHANGED <<main, front, stop>>
  BY ZenonT(60), <1>12 DEF vars, program, store, threads, shown, history
<1>13. QED
  BY ZenonT(60), <1>1, <1>2, <1>3, <1>4, <1>5, <1>6, <1>7, <1>8, <1>9, <1>10, <1>11, <1>12 DEF Next, Handlers

\* The positions of an inbox are numbers.
LEMMA InboxIds == Len(Inbox) \in Nat \ {0} /\ Ids = 1 .. Len(Inbox)
  BY InboxAssumption DEF InboxAssumption, Ids

\* A handler at work is at a message of the inbox.
LEMMA AtMessage == ThreadsOK /\ sub.pc # "idle" => sub.id \in Ids
  BY DEF ThreadsOK, Waiting

\* The positions, which Start, Input and SetPosition move.
LEMMA StoreStep == StoreOK /\ ThreadsOK /\ [Next]_vars => StoreOK'
<1> SUFFICES ASSUME StoreOK, ThreadsOK, [Next]_vars PROVE StoreOK'
  OBVIOUS
<1> USE DEF StoreOK, Position, Fresh, Torn, store
<1>1. CASE UNCHANGED <<saved, pos, cursor>>
  BY ZenonT(60), <1>1, InboxIds
<1>2. CASE Launch
  BY ZenonT(60), <1>2, InboxIds DEF Launch, Start, User, Prompt
<1>3. CASE Kill
  BY <1>3, InboxIds DEF Kill, Over, Waiting, Ended, Prompt, NoJob, User
<1>4. CASE CloseWrite
  BY <1>4, InboxIds DEF CloseWrite, Over, Waiting, Ended, Prompt, NoJob, User
<1>5. CASE CloseTruncate
  BY ZenonT(60), <1>5, InboxIds DEF CloseTruncate, threads, shown, history
<1>6. CASE Recv
  BY <1>6, InboxIds DEF Recv, program, threads, shown
<1>7. CASE Input
  BY <1>7, InboxIds DEF Input, program, shown
<1>8. CASE SetPosition
  BY <1>8, AtMessage, InboxIds DEF SetPosition
<1> HIDE DEF StoreOK, Position, Fresh, Torn, store
<1>9. ASSUME Interrupt \/ Quit \/ ChatEnds \/ InputGivesUp \/ Handle
     PROVE  UNCHANGED <<saved, pos, cursor>>
  BY ZenonT(60), <1>9 DEF Interrupt, store, threads, shown, history, Quit, ChatEnds, program, InputGivesUp,
    Handle
<1>10. ASSUME InputReturns \/ Register \/ SetPrompt \/ ReadLogFails \/ CommandLocks
     PROVE  UNCHANGED <<saved, pos, cursor>>
  BY ZenonT(60), <1>10 DEF InputReturns, program, store, shown, Register, history, SetPrompt, Assign,
    ReadLogFails, CommandLocks
<1>11. ASSUME CommandGivesUp \/ Answer \/ CommandReturns \/ Command \/ (\E t \in Thread : Update(t))
     PROVE  UNCHANGED <<saved, pos, cursor>>
  BY ZenonT(60), <1>11 DEF CommandGivesUp, program, store, shown, history, Answer, CommandReturns,
    Command, Type, SetThem, Update
<1>12. ASSUME (\E t \in Thread : HandlerChecks(t)) \/ (\E t \in Thread : HandlerSets(t))
     PROVE  UNCHANGED <<saved, pos, cursor>>
  BY ZenonT(60), <1>12 DEF HandlerChecks, program, store, shown, history, HandlerSets, Assign
<1>13. ASSUME UNCHANGED vars PROVE UNCHANGED <<saved, pos, cursor>>
  BY ZenonT(60), <1>13 DEF vars, program, store, threads, shown, history
<1>14. QED
  BY ZenonT(60), <1>1, <1>2, <1>3, <1>4, <1>5, <1>6, <1>7, <1>8, <1>9, <1>10, <1>11, <1>12, <1>13 DEF Next,
    Handlers

\* The history, which names messages of the inbox.
LEMMA HistoryStep == HistoryOK /\ ThreadsOK /\ [Next]_vars => HistoryOK'
<1> SUFFICES ASSUME HistoryOK, ThreadsOK, [Next]_vars PROVE HistoryOK'
  OBVIOUS
<1> USE DEF HistoryOK, history
<1>1. CASE UNCHANGED <<starts, kills, handled, twice, missed, rewound>>
  BY ZenonT(60), <1>1
<1>2. CASE Launch
  <2>1. starts' \in 0 .. MaxStarts
    BY <1>2, BoundsAssumption DEF Launch, Start, BoundsAssumption
  <2>2. missed' \subseteq Ids
    BY ZenonT(60), <1>2 DEF Launch, Start
  <2>3. QED
    BY ZenonT(60), <1>2, <2>1, <2>2 DEF Launch, Start
<1>3. CASE Kill
  <2>1. kills' \in 0 .. MaxKills
    BY <1>3, BoundsAssumption DEF Kill, BoundsAssumption
  <2>2. missed' \subseteq Ids
    BY ZenonT(60), <1>3, AtMessage DEF Kill, Over
  <2>3. QED
    BY ZenonT(60), <1>3, <2>1, <2>2 DEF Kill
<1>4. CASE CloseWrite
  BY ZenonT(60), <1>4, AtMessage DEF CloseWrite, Over
<1>5. CASE Recv
  BY ZenonT(60), <1>5 DEF Recv, program, threads, shown
<1>6. CASE Input
  BY ZenonT(60), <1>6 DEF Input, program, shown
<1>7. CASE InputGivesUp
  BY ZenonT(60), <1>7, AtMessage DEF InputGivesUp
<1>8. CASE InputReturns
  BY ZenonT(60), <1>8, AtMessage DEF InputReturns
<1> HIDE DEF HistoryOK, history
<1>9. ASSUME Interrupt \/ Quit \/ ChatEnds \/ CloseTruncate \/ SetPosition
     PROVE  UNCHANGED <<starts, kills, handled, twice, missed, rewound>>
  BY ZenonT(60), <1>9 DEF Interrupt, store, threads, shown, history, Quit, ChatEnds, program, CloseTruncate,
    SetPosition
<1>10. ASSUME Handle \/ Register \/ SetPrompt \/ ReadLogFails \/ CommandLocks
     PROVE  UNCHANGED <<starts, kills, handled, twice, missed, rewound>>
  BY ZenonT(60), <1>10 DEF Handle, program, store, history, Register, shown, SetPrompt, Assign, ReadLogFails,
    CommandLocks
<1>11. ASSUME CommandGivesUp \/ Answer \/ CommandReturns \/ Command \/ (\E t \in Thread : Update(t))
     PROVE  UNCHANGED <<starts, kills, handled, twice, missed, rewound>>
  BY ZenonT(60), <1>11 DEF CommandGivesUp, program, store, shown, history, Answer, CommandReturns,
    Command, Type, SetThem, Update
<1>12. ASSUME (\E t \in Thread : HandlerChecks(t)) \/ (\E t \in Thread : HandlerSets(t))
     PROVE  UNCHANGED <<starts, kills, handled, twice, missed, rewound>>
  BY ZenonT(60), <1>12 DEF HandlerChecks, program, store, shown, history, HandlerSets, Assign
<1>13. ASSUME UNCHANGED vars PROVE UNCHANGED <<starts, kills, handled, twice, missed, rewound>>
  BY ZenonT(60), <1>13 DEF vars, program, store, threads, shown, history
<1>14. QED
  BY ZenonT(60), <1>1, <1>2, <1>3, <1>4, <1>5, <1>6, <1>7, <1>8, <1>9, <1>10, <1>11, <1>12, <1>13 DEF Next,
    Handlers

\* What the log and the prompt show.
LEMMA ShownStep == ShownOK /\ ThreadsOK /\ [Next]_vars => ShownOK'
<1> SUFFICES ASSUME ShownOK, ThreadsOK, [Next]_vars PROVE ShownOK'
  OBVIOUS
<1> USE DEF ShownOK, Prompt, Parts, shown
<1>1. CASE UNCHANGED <<gone, last, them, prompt>>
  BY ZenonT(60), <1>1
<1>2. CASE Launch
  BY <1>2 DEF Launch, Start, User, Prompt
<1>3. CASE Kill
  BY <1>3 DEF Kill, Over, Waiting, Ended, Prompt, NoJob, User
<1>4. CASE CloseWrite
  BY <1>4 DEF CloseWrite, Over, Waiting, Ended, Prompt, NoJob, User
<1>5. CASE \E t \in Thread : Update(t)
  <2>1. PICK t \in Thread : Update(t)
    BY ZenonT(60), <1>5
  <2>2. job[t].kind \in {"none", "started", "closed"}
    BY DEF ThreadsOK, Job, NoJob
  <2>3. last' \in [Peer -> {"none", "started", "closed"}]
    BY ZenonT(60), <2>1, <2>2 DEF Update
  <2>4. QED
    BY ZenonT(60), <2>1, <2>3 DEF Update
<1>6. CASE \E t \in Thread : HandlerSets(t)
  <2>1. PICK t \in Thread : HandlerSets(t)
    BY ZenonT(60), <1>6
  <2>2. prompt' \in [Parts -> Name \cup {NoOne}]
    BY ZenonT(60), <2>1 DEF HandlerSets, Assign
  <2>3. QED
    BY ZenonT(60), <2>1, <2>2 DEF HandlerSets
<1>7. CASE Handle
  BY ZenonT(60), <1>7 DEF Handle, program, store, history
<1>8. CASE Command
  BY <1>8 DEF Command, Type, AtPrompt, Call, SetThem, program, store, history, User, Setting, Prompt
<1>9. CASE SetPrompt
  <2>1. user.arg \in Name \cup {NoOne} /\ user.left \subseteq Parts
    BY ZenonT(60) DEF ThreadsOK
  <2>2. prompt' \in [Parts -> Name \cup {NoOne}]
    BY ZenonT(60), <1>9, <2>1 DEF SetPrompt, Assign
  <2>3. QED
    BY ZenonT(60), <1>9, <2>2 DEF SetPrompt
<1>10. CASE Answer
  BY ZenonT(60), <1>10 DEF Answer, program, store, history
<1>11. CASE CommandReturns
  <2>1. gone' \subseteq Peer
    BY <1>11 DEF CommandReturns, ThreadsOK, Job, NoJob, Thread
  <2>2. QED
    BY ZenonT(60), <1>11, <2>1 DEF CommandReturns
<1> HIDE DEF ShownOK, Prompt, Parts, shown
<1>12. ASSUME Recv \/ Interrupt \/ Quit \/ ChatEnds \/ CloseTruncate
     PROVE  UNCHANGED <<gone, last, them, prompt>>
  BY ZenonT(60), <1>12 DEF Recv, program, threads, shown, Interrupt, store, history, Quit, ChatEnds,
    CloseTruncate
<1>13. ASSUME Input \/ SetPosition \/ InputGivesUp \/ InputReturns \/ Register
     PROVE  UNCHANGED <<gone, last, them, prompt>>
  BY ZenonT(60), <1>13 DEF Input, program, shown, SetPosition, history, InputGivesUp, store, InputReturns,
    Register
<1>14. ASSUME ReadLogFails \/ CommandLocks \/ CommandGivesUp \/ (\E t \in Thread : HandlerChecks(t))
     PROVE  UNCHANGED <<gone, last, them, prompt>>
  BY ZenonT(60), <1>14 DEF ReadLogFails, program, store, shown, history, CommandLocks, CommandGivesUp,
    HandlerChecks
<1>15. ASSUME UNCHANGED vars PROVE UNCHANGED <<gone, last, them, prompt>>
  BY ZenonT(60), <1>15 DEF vars, program, store, threads, shown, history
<1>16. QED
  BY ZenonT(60), <1>1, <1>2, <1>3, <1>4, <1>5, <1>6, <1>7, <1>8, <1>9, <1>10, <1>11, <1>12, <1>13, <1>14,
    <1>15 DEF Next, Handlers

\* Handlers are dispatched and finish one by one.
LEMMA DispatchJob ==
  ASSUME NEW t \in Thread, NEW k \in {"started", "closed"}, NEW n \in Peer, ThreadsOK, Dispatch(t, k, n)
  PROVE  job' \in [Thread -> Job]
<1>1. PICK h \in {"check", "done"} :
        job' = [job EXCEPT ![t] = [kind |-> k, of |-> n, log |-> TRUE, handler |-> h, left |-> {}]]
  BY ZenonT(60) DEF Dispatch
<1>2. [kind |-> k, of |-> n, log |-> TRUE, handler |-> h, left |-> {}] \in Job
  BY ZenonT(60) DEF Job
<1>3. QED
  BY ZenonT(60), <1>1, <1>2 DEF ThreadsOK

\* What HandlerSets makes of the job.
LEMMA SetsJob ==
  ASSUME NEW t \in Thread, ThreadsOK, HandlerSets(t),
         job[t] \in [kind : {"started", "closed"}, of : Peer, log : BOOLEAN,
                     handler : {"check", "set", "done"}, left : SUBSET Parts]
  PROVE  \E h \in {"set", "done"}, p \in SUBSET Parts :
           job' = [job EXCEPT ![t] = [job[t] EXCEPT !.left = p, !.handler = h]]
<1>1. PICK part \in job[t].left :
        job' = [job EXCEPT ![t].left = job[t].left \ {part},
                           ![t].handler = IF job[t].left = {part} THEN "done" ELSE "set"]
  BY ZenonT(60) DEF HandlerSets, ThreadsOK
<1> DEFINE p == job[t].left \ {part}
           h == IF job[t].left = {part} THEN "done" ELSE "set"
<1>2. job' = [job EXCEPT ![t] = [job[t] EXCEPT !.left = p, !.handler = h]]
  BY ZenonT(60), <1>1 DEF ThreadsOK
<1>3. h \in {"set", "done"} /\ p \in SUBSET Parts
  OBVIOUS
<1> HIDE DEF p, h
<1>4. QED
  BY ZenonT(60), <1>2, <1>3

LEMMA HandlersJob ==
  ASSUME NEW t \in Thread, ThreadsOK, Update(t) \/ HandlerChecks(t) \/ HandlerSets(t)
  PROVE  job' \in [Thread -> Job]
<1>1. job[t] \in Job /\ job \in [Thread -> Job]
  BY ZenonT(60) DEF ThreadsOK
<1>2. job[t] # NoJob
  BY DEF Update, HandlerChecks, HandlerSets, NoJob
<1>3. job[t] \in [kind : {"started", "closed"}, of : Peer, log : BOOLEAN,
                  handler : {"check", "set", "done"}, left : SUBSET Parts]
  BY ZenonT(60), <1>1, <1>2 DEF Job
<1>4. CASE Update(t)
  <2>1. [job[t] EXCEPT !.log = FALSE] \in Job
    BY ZenonT(60), <1>3 DEF Job
  <2>2. job' = [job EXCEPT ![t] = [job[t] EXCEPT !.log = FALSE]]
    BY ZenonT(60), <1>1, <1>4 DEF Update
  <2>3. QED
    BY ZenonT(60), <1>1, <2>1, <2>2
<1>5. CASE HandlerChecks(t)
  <2>1. PICK h \in {"set", "done"}, p \in SUBSET Parts :
          job' = [job EXCEPT ![t] = [job[t] EXCEPT !.handler = h, !.left = p]]
    BY ZenonT(60), <1>1, <1>5 DEF HandlerChecks, Parts
  <2>2. [job[t] EXCEPT !.handler = h, !.left = p] \in Job
    BY ZenonT(60), <1>3 DEF Job
  <2>3. QED
    BY ZenonT(60), <1>1, <2>1, <2>2
<1>6. CASE HandlerSets(t)
  <2>1. PICK h \in {"set", "done"}, p \in SUBSET Parts :
          job' = [job EXCEPT ![t] = [job[t] EXCEPT !.left = p, !.handler = h]]
    BY ZenonT(60), <1>3, <1>6, SetsJob
  <2>2. [job[t] EXCEPT !.left = p, !.handler = h] \in Job
    BY ZenonT(60), <1>3 DEF Job
  <2>3. QED
    BY ZenonT(60), <1>1, <2>1, <2>2
<1>7. QED
  BY ZenonT(60), <1>4, <1>5, <1>6

\* The threads.
LEMMA ThreadsStep == ThreadsOK /\ ShownOK /\ [Next]_vars => ThreadsOK'
<1> SUFFICES ASSUME ThreadsOK, ShownOK, [Next]_vars PROVE ThreadsOK'
  OBVIOUS
<1> USE DEF ThreadsOK, threads
<1>1. CASE UNCHANGED <<lock, sub, user, job>>
  BY ZenonT(60), <1>1
<1>2. CASE Launch
  BY <1>2 DEF Launch, Start, User, Prompt, Ended, AtPrompt, Call, Setting, Parts
<1>3. CASE Kill
  BY ZenonT(60), <1>3 DEF Kill, Over, Waiting, Ended, Prompt, NoJob, User, Job
<1>4. CASE Quit
  BY ZenonT(60), <1>4 DEF Quit, Ended, AtPrompt, store, shown, history, User, Call, Setting, Parts
<1>5. CASE ChatEnds
  BY ZenonT(60), <1>5 DEF ChatEnds, Ended, program, store, shown, history, User, AtPrompt, Call, Setting, Parts
<1>6. CASE CloseWrite
  BY ZenonT(60), <1>6 DEF CloseWrite, Over, Waiting, Ended, Prompt, NoJob, User, Job
<1>7. CASE Input
  BY <1>7 DEF Input, program, shown
<1>8. CASE SetPosition
  BY <1>8 DEF SetPosition, program, shown, history, Waiting, Thread
<1>9. CASE InputGivesUp
  BY ZenonT(60), <1>9 DEF InputGivesUp, Waiting, program, store, shown
<1>10. CASE Handle
  <2>1. job' \in [Thread -> Job]
    <3>1. UNCHANGED job \/ \E k \in {"started", "closed"}, n \in Peer : Dispatch("sub", k, n)
      BY ZenonT(60), <1>10 DEF Handle
    <3>2. QED
      BY ZenonT(60), <3>1, DispatchJob DEF Thread
  <2>2. sub' \in [pc : {"lock", "work", "wait"}, id : Ids]
    BY <1>10 DEF Handle, Waiting
  <2>3. QED
    BY ZenonT(60), <1>10, <2>1, <2>2 DEF Handle
<1>11. CASE InputReturns
  BY ZenonT(60), <1>11 DEF InputReturns, Waiting, NoJob, program, store, shown, Job
<1>12. CASE Register
  BY ZenonT(60), <1>12 DEF Register, AtPrompt, Setting, program, store, shown, history, User, Ended, Call, Parts
<1>13. CASE SetPrompt
  BY <1>13 DEF SetPrompt, AtPrompt, Call, Assign, program, store, history, User, Ended, Setting,
    Parts
<1>14. CASE ReadLogFails
  BY ZenonT(60), <1>14 DEF ReadLogFails, AtPrompt, program, store, shown, history, User, Ended, Call, Setting,
    Parts
<1>15. CASE CommandLocks
  BY ZenonT(60), <1>15 DEF CommandLocks, program, store, shown, history, Thread
<1>16. CASE CommandGivesUp
  BY ZenonT(60), <1>16 DEF CommandGivesUp, AtPrompt, program, store, shown, history, User, Ended, Call,
    Setting, Parts
<1>17. CASE Answer
  <2>1. job' \in [Thread -> Job]
    <3>1. UNCHANGED job \/ \E k \in {"started", "closed"}, n \in Peer : Dispatch("user", k, n)
      BY ZenonT(60), <1>17 DEF Answer
    <3>2. QED
      BY ZenonT(60), <3>1, DispatchJob DEF Thread
  <2>2. QED
    BY ZenonT(60), <1>17, <2>1 DEF Answer
<1>18. CASE CommandReturns
  BY ZenonT(60), <1>18 DEF CommandReturns, AtPrompt, NoJob, program, store, history, User, Job
<1>19. CASE Command
  <2>1. PICK c \in {"chat", "close", "send", "salty"}, n \in Name \cup {NoOne} : Type(c, n)
    BY ZenonT(60), <1>19 DEF Command
  <2>2. \E d \in {"none", "chat", "close", "send"}, m \in Name \cup {NoOne} :
          user' = Call(d, m) \/ user' = Setting(d, m) \/ user' = AtPrompt
    BY ZenonT(60), <2>1 DEF Type, SetThem, ShownOK
  <2>3. QED
    BY <2>1, <2>2 DEF Type, User, AtPrompt, Call, Setting, Parts
<1>20. CASE \E t \in Thread : Update(t)
  <2>1. job' \in [Thread -> Job]
    BY ZenonT(60), <1>20, HandlersJob
  <2>2. QED
    BY ZenonT(60), <1>20, <2>1 DEF Update, program, store, history
<1>21. CASE \E t \in Thread : HandlerChecks(t)
  <2>1. job' \in [Thread -> Job]
    BY ZenonT(60), <1>21, HandlersJob
  <2>2. QED
    BY ZenonT(60), <1>21, <2>1 DEF HandlerChecks, program, store, shown, history
<1>22. CASE \E t \in Thread : HandlerSets(t)
  <2>1. job' \in [Thread -> Job]
    BY ZenonT(60), <1>22, HandlersJob
  <2>2. QED
    BY ZenonT(60), <1>22, <2>1 DEF HandlerSets, Assign, program, store, history
<1> HIDE DEF ThreadsOK, threads
<1>23. ASSUME Recv \/ Interrupt \/ CloseTruncate
     PROVE  UNCHANGED <<lock, sub, user, job>>
  BY ZenonT(60), <1>23 DEF Recv, program, threads, shown, Interrupt, store, history, CloseTruncate
<1>24. ASSUME UNCHANGED vars PROVE UNCHANGED <<lock, sub, user, job>>
  BY ZenonT(60), <1>24 DEF vars, program, store, threads, shown, history
<1>25. QED
  BY ZenonT(60), <1>1, <1>2, <1>3, <1>4, <1>5, <1>6, <1>7, <1>8, <1>9, <1>10, <1>11, <1>12, <1>13, <1>14,
    <1>15, <1>16, <1>17, <1>18, <1>19, <1>20, <1>21, <1>22, <1>23, <1>24 DEF Next, Handlers

-----------------------------------------------------------------------------
(* The strengthenings *)

SkipInv ==
  /\ main = "off" => sub = Waiting
  /\ sub.pc # "idle" => sub.id + 1 = cursor
  /\ pos <= cursor
  /\ \A i \in Ids : i < cursor => i \in handled \cup missed \/ (sub.pc # "idle" /\ i = sub.id)
  /\ \A i \in Ids : i < saved => i \in handled \cup missed

Kept == {i \in handled : Inbox[i] # "other"}

OnceInv ==
  /\ main = "off" => sub = Waiting
  /\ sub.pc # "idle" => sub.id + 1 = cursor /\ Inbox[sub.id] # "other"
  /\ pos <= cursor
  /\ sub.pc = "lock" => pos <= sub.id
  /\ ~rewound =>
       /\ twice = {}
       /\ main = "off" => \A i \in Kept : i < saved
       /\ main # "off" /\ sub.pc \in {"idle", "lock"} => \A i \in Kept : i < pos
       /\ sub.pc \in {"work", "wait"} => pos = cursor /\ \A i \in Kept : i < sub.id

Named(n) == \A part \in Parts : prompt[part] \in {NoOne, n}
Target == IF user.cmd = "close" THEN NoOne ELSE user.arg

PromptInv ==
  /\ main = "off" => stop = "no" /\ user = Ended
  /\ stop # "done" =>
       /\ user.pc = "register" => Named(them)
       /\ user.pc = "set" => /\ \A part \in Parts \ user.left : prompt[part] \in {NoOne, Target}
                             /\ user.cmd # "first" => them = Target
       /\ user.pc = "prompt" /\ user.arg # NoOne => Named(user.arg)
       /\ (user.pc = "prompt" /\ user.arg = NoOne) \/ user.pc \in {"lock", "post", "wait"} =>
            \A part \in Parts : prompt[part] \in {NoOne, Me, them}

LockInv ==
  /\ main = "off" => lock = "free" /\ sub = Waiting /\ user = Ended
  /\ lock = "sub" <=> sub.pc \in {"work", "wait"}
  /\ lock = "user" <=> user.pc \in {"post", "wait"}
  /\ job["sub"] # NoJob => sub.pc = "wait"
  /\ job["user"] # NoJob => user.pc = "wait"

LogInv ==
  /\ \A t \in Thread : job[t].kind = "started" => job[t].of \notin gone
  /\ job["user"].kind = "closed" => job["user"].of \notin gone
  /\ stop # "done" =>
       /\ job["user"].kind = "closed" /\ ~job["user"].log => last[job["user"].of] = "closed"
       /\ \A n \in gone : last[n] = "started" =>
            job["sub"].kind = "closed" /\ job["sub"].log /\ job["sub"].of = n
-----------------------------------------------------------------------------
\* Every message below the cursor stays accounted for.
LEMMA SkipStep == StoreOK /\ ThreadsOK /\ SkipInv /\ [Next]_vars => SkipInv'
<1> SUFFICES ASSUME StoreOK, ThreadsOK, SkipInv, [Next]_vars PROVE SkipInv'
  OBVIOUS
<1> USE DEF SkipInv, StoreOK, Position, Fresh, Torn, Waiting
<1>1. CASE UNCHANGED <<main, saved, pos, cursor, sub, handled, missed>>
  BY ZenonT(60), <1>1, InboxIds, AtMessage
<1>2. CASE Launch
  BY <1>2, InboxIds, AtMessage DEF Launch, Start, User, Prompt
<1>3. CASE Kill
  BY <1>3, InboxIds, AtMessage DEF Kill, Over, Waiting, Ended, Prompt, NoJob, User
<1>4. CASE CloseWrite
  BY <1>4, InboxIds, AtMessage DEF CloseWrite, Over, Waiting, Ended, Prompt, NoJob, User
<1>5. CASE CloseTruncate
  BY <1>5, InboxIds, AtMessage DEF CloseTruncate, threads, shown, history
<1>6. CASE Recv
  BY ZenonT(60), <1>6, InboxIds, AtMessage DEF Recv, program, threads, shown
<1>7. CASE Input
  BY <1>7, InboxIds, AtMessage DEF Input, program, shown
<1>8. CASE SetPosition
  BY <1>8, InboxIds, AtMessage DEF SetPosition, program, shown, history
<1>9. CASE InputGivesUp
  BY ZenonT(60), <1>9, InboxIds, AtMessage DEF InputGivesUp, Waiting, program, store, shown
<1>10. CASE Handle
  BY <1>10, InboxIds, AtMessage DEF Handle, program, store, history
<1>11. CASE InputReturns
  BY ZenonT(60), <1>11, InboxIds, AtMessage DEF InputReturns, Waiting, NoJob, program, store, shown
<1> HIDE DEF SkipInv, StoreOK, Position, Fresh, Torn, Waiting
<1>12. ASSUME Interrupt \/ Quit \/ ChatEnds \/ Register \/ SetPrompt
     PROVE  UNCHANGED <<main, saved, pos, cursor, sub, handled, missed>>
  BY ZenonT(60), <1>12 DEF Interrupt, store, threads, shown, history, Quit, ChatEnds, program, Register,
    SetPrompt, Assign
<1>13. ASSUME ReadLogFails \/ CommandLocks \/ CommandGivesUp \/ Answer \/ CommandReturns
     PROVE  UNCHANGED <<main, saved, pos, cursor, sub, handled, missed>>
  BY ZenonT(60), <1>13 DEF ReadLogFails, program, store, shown, history, CommandLocks, CommandGivesUp, Answer,
    CommandReturns
<1>14. ASSUME Command \/ (\E t \in Thread : Update(t)) \/ (\E t \in Thread : HandlerChecks(t)) \/
    (\E t \in Thread : HandlerSets(t))
     PROVE  UNCHANGED <<main, saved, pos, cursor, sub, handled, missed>>
  BY ZenonT(60), <1>14 DEF Command, Type, SetThem, program, store, history, Update, HandlerChecks,
    shown, HandlerSets, Assign
<1>15. ASSUME UNCHANGED vars PROVE UNCHANGED <<main, saved, pos, cursor, sub, handled, missed>>
  BY ZenonT(60), <1>15 DEF vars, program, store, threads, shown, history
<1>16. QED
  BY ZenonT(60), <1>1, <1>2, <1>3, <1>4, <1>5, <1>6, <1>7, <1>8, <1>9, <1>10, <1>11, <1>12, <1>13, <1>14,
    <1>15 DEF Next, Handlers

\* The position stays beyond every message that was handled.
LEMMA OnceStep == StoreOK /\ ThreadsOK /\ HistoryOK /\ OnceInv /\ [Next]_vars => OnceInv'
<1> SUFFICES ASSUME StoreOK, ThreadsOK, HistoryOK, OnceInv, [Next]_vars PROVE OnceInv'
  OBVIOUS
<1> USE DEF OnceInv, StoreOK, Position, Fresh, Torn, Waiting
<1>1. CASE UNCHANGED <<main, saved, pos, cursor, sub, handled, missed, twice, rewound>>
  BY ZenonT(60), <1>1 DEF Kept
<1>2. CASE Launch
  BY <1>2, InboxIds, AtMessage DEF Launch, Start, User, Prompt, HistoryOK, Kept
<1>3. CASE Kill
  BY <1>3, InboxIds, AtMessage DEF Kill, Over, Waiting, Ended, Prompt, NoJob, User, HistoryOK, Kept
<1>4. CASE CloseWrite
  <2>1. \A i \in Kept : i \in Int /\ Inbox[i] # "other" /\ i \in handled
    BY InboxIds DEF HistoryOK, Kept
  <2>2. sub.pc \in {"idle", "lock", "work", "wait"}
    BY DEF ThreadsOK, Waiting
  <2>3. ~rewound => \A i \in Kept : i < pos
    BY <1>4, <2>1, <2>2, InboxIds, AtMessage DEF CloseWrite
  <2>4. Kept' = Kept
    BY ZenonT(60), <1>4 DEF CloseWrite, Kept
  <2>5. QED
    BY <1>4, <2>3, <2>4, InboxIds DEF CloseWrite, Over
<1>5. CASE CloseTruncate
  BY ZenonT(60), <1>5, InboxIds, AtMessage DEF CloseTruncate, threads, shown, history, HistoryOK, Kept
<1>6. CASE Recv
  BY ZenonT(60), <1>6, InboxIds, AtMessage DEF Recv, program, threads, shown, HistoryOK, Kept
<1>7. CASE Input
  <2>1. \A i \in Kept : i \in Int /\ Inbox[i] # "other" /\ i \in handled
    BY InboxIds DEF HistoryOK, Kept
  <2>2. Kept' = Kept
    BY ZenonT(60), <1>7, InboxIds DEF Input, Kept
  <2>3. QED
    BY <1>7, <2>1, <2>2, InboxIds DEF Input, program
<1>8. CASE SetPosition
  <2>1. \A i \in Kept : i \in Int /\ Inbox[i] # "other" /\ i \in handled
    BY InboxIds DEF HistoryOK, Kept
  <2>2. Kept' = Kept
    BY ZenonT(60), <1>8 DEF SetPosition, Kept, history
  <2>3. ~rewound => \A i \in Kept : i < sub.id
    BY <1>8, <2>1, InboxIds, AtMessage DEF SetPosition
  <2>4. sub' = [pc |-> "work", id |-> sub.id]
    BY ZenonT(60), <1>8 DEF SetPosition, ThreadsOK
  <2>5. QED
    BY <1>8, <2>2, <2>3, <2>4, InboxIds, AtMessage DEF SetPosition, program, history
<1>9. CASE InputGivesUp
  BY ZenonT(60), <1>9, InboxIds, AtMessage DEF InputGivesUp, Waiting, program, store, shown, HistoryOK, Kept
<1>10. CASE Handle
  BY <1>10, InboxIds, AtMessage DEF Handle, program, store, history, HistoryOK, Kept
<1>11. CASE InputReturns
  <2>1. \A i \in Kept : i \in Int /\ Inbox[i] # "other" /\ i \in handled
    BY InboxIds DEF HistoryOK, Kept
  <2>2. Kept' \subseteq Kept \cup {sub.id}
    BY ZenonT(60), <1>11 DEF InputReturns, Kept
  <2>3. ~rewound => \A i \in Kept' : i < pos
    BY <1>11, <2>1, <2>2, InboxIds, AtMessage DEF InputReturns
  <2>4. ~rewound => sub.id \notin handled
    BY <1>11, <2>1, InboxIds, AtMessage DEF InputReturns, Kept
  <2>5. QED
    BY <1>11, <2>3, <2>4, InboxIds DEF InputReturns, program, store
<1> HIDE DEF OnceInv, StoreOK, Position, Fresh, Torn, Waiting
<1>12. ASSUME Interrupt \/ Quit \/ ChatEnds \/ Register \/ SetPrompt
     PROVE  UNCHANGED <<main, saved, pos, cursor, sub, handled, missed, twice, rewound>>
  BY ZenonT(60), <1>12 DEF Interrupt, store, threads, shown, history, Quit, ChatEnds, program, Register,
    SetPrompt, Assign
<1>13. ASSUME ReadLogFails \/ CommandLocks \/ CommandGivesUp \/ Answer \/ CommandReturns
     PROVE  UNCHANGED <<main, saved, pos, cursor, sub, handled, missed, twice, rewound>>
  BY ZenonT(60), <1>13 DEF ReadLogFails, program, store, shown, history, CommandLocks, CommandGivesUp, Answer,
    CommandReturns
<1>14. ASSUME Command \/ (\E t \in Thread : Update(t)) \/ (\E t \in Thread : HandlerChecks(t)) \/
    (\E t \in Thread : HandlerSets(t))
     PROVE  UNCHANGED <<main, saved, pos, cursor, sub, handled, missed, twice, rewound>>
  BY ZenonT(60), <1>14 DEF Command, Type, SetThem, program, store, history, Update, HandlerChecks,
    shown, HandlerSets, Assign
<1>15. ASSUME UNCHANGED vars PROVE UNCHANGED <<main, saved, pos, cursor, sub, handled, missed,
    twice, rewound>>
  BY ZenonT(60), <1>15 DEF vars, program, store, threads, shown, history
<1>16. QED
  BY ZenonT(60), <1>1, <1>2, <1>3, <1>4, <1>5, <1>6, <1>7, <1>8, <1>9, <1>10, <1>11, <1>12, <1>13, <1>14,
    <1>15 DEF Next, Handlers

\* Dispatch is of the one thread only.
LEMMA DispatchOne ==
  ASSUME NEW t \in Thread, NEW k, NEW n, ThreadsOK, Dispatch(t, k, n)
  PROVE  /\ \A u \in Thread \ {t} : job'[u] = job[u]
         /\ job'[t].kind = k /\ job'[t].of = n /\ job'[t].log
  BY DEF Dispatch, ThreadsOK

\* Nor do handlers do anything for a thread that has not dispatched.
LEMMA HandlersOne ==
  ASSUME NEW t \in Thread, ThreadsOK, Update(t) \/ HandlerChecks(t) \/ HandlerSets(t)
  PROVE  /\ job[t] # NoJob
         /\ \A u \in Thread \ {t} : job'[u] = job[u]
         /\ job'[t].kind = job[t].kind /\ job'[t].of = job[t].of
         /\ Update(t) => job[t].log /\ ~job'[t].log
         /\ HandlerChecks(t) \/ HandlerSets(t) => job'[t].log = job[t].log
<1>1. job \in [Thread -> Job]
  BY ZenonT(60) DEF ThreadsOK
<1>2. job[t] # NoJob
  BY DEF Update, HandlerChecks, HandlerSets, NoJob
<1>3. job[t] \in [kind : {"started", "closed"}, of : Peer, log : BOOLEAN,
                  handler : {"check", "set", "done"}, left : SUBSET Parts]
  BY ZenonT(60), <1>1, <1>2 DEF Job
<1> DEFINE Frame == /\ \A u \in Thread \ {t} : job'[u] = job[u]
                    /\ job'[t].kind = job[t].kind /\ job'[t].of = job[t].of
<1>4. Update(t) => Frame /\ job[t].log /\ ~job'[t].log
  BY ZenonT(60), <1>1, <1>3 DEF Update
<1>5. HandlerChecks(t) => Frame /\ job'[t].log = job[t].log
  BY <1>1, <1>3 DEF HandlerChecks
<1>6. HandlerSets(t) => Frame /\ job'[t].log = job[t].log
  <2>1. SUFFICES ASSUME HandlerSets(t) PROVE Frame /\ job'[t].log = job[t].log
    OBVIOUS
  <2>2. PICK h \in {"set", "done"}, p \in SUBSET Parts :
          job' = [job EXCEPT ![t] = [job[t] EXCEPT !.left = p, !.handler = h]]
    BY ZenonT(60), <1>3, <2>1, SetsJob
  <2>3. QED
    BY ZenonT(60), <1>1, <1>3, <2>2
<1>7. QED
  BY ZenonT(60), <1>2, <1>4, <1>5, <1>6

\* Where the records of the two threads are.
LEMMA UserAt ==
  /\ Waiting.pc = "idle" /\ Ended.pc = "ended"
  /\ AtPrompt.pc = "prompt" /\ AtPrompt.arg = NoOne
  /\ \A c, n : /\ Call(c, n).pc = "lock"
               /\ Setting(c, n).pc = "set" /\ Setting(c, n).cmd = c
               /\ Setting(c, n).arg = n /\ Setting(c, n).left = Parts
  BY ZenonT(60) DEF Waiting, Ended, AtPrompt, Call, Setting, User, Parts

\* Between two calls the loop has nothing to do with the lock.
LEMMA LoopStays ==
  ASSUME ThreadsOK,
         Register \/ Command \/ SetPrompt \/ ReadLogFails \/ CommandGivesUp \/ Quit \/ ChatEnds
  PROVE  /\ user.pc \notin {"ended", "post", "wait"} /\ user'.pc \notin {"post", "wait"}
         /\ UNCHANGED <<main, lock, sub, job>>
<1>1. CASE Register
  BY ZenonT(60), <1>1, UserAt DEF Register, program
<1>2. CASE Command
  <2>1. PICK c \in {"chat", "close", "send", "salty"}, n \in Name \cup {NoOne} : Type(c, n)
    BY ZenonT(60), <1>2 DEF Command
  <2>2. user.pc = "prompt" /\ UNCHANGED <<main, lock, sub, job>>
    BY ZenonT(60), <2>1 DEF Type, program
  <2>3. \E d, m : user' = Call(d, m) \/ user' = Setting(d, m) \/ user' = AtPrompt
    BY ZenonT(60), <2>1 DEF Type, SetThem
  <2>4. QED
    BY <2>2, <2>3, UserAt
<1>3. CASE SetPrompt
  <2>1. user.pc = "set" /\ UNCHANGED <<main, lock, sub, job>>
    BY ZenonT(60), <1>3 DEF SetPrompt, program
  <2>2. PICK part \in user.left :
          user' = IF user.left # {part} THEN [user EXCEPT !.left = user.left \ {part}]
                  ELSE IF user.cmd = "first" THEN [AtPrompt EXCEPT !.arg = user.arg]
                  ELSE Call(user.cmd, user.arg)
    BY ZenonT(60), <1>3 DEF SetPrompt
  <2>3. [user EXCEPT !.left = user.left \ {part}].pc = user.pc
    BY ZenonT(60) DEF ThreadsOK
  <2>4. [AtPrompt EXCEPT !.arg = user.arg].pc = "prompt"
    BY ZenonT(60) DEF AtPrompt, User
  <2>5. QED
    BY ZenonT(60), <2>1, <2>2, <2>3, <2>4, UserAt
<1>4. CASE ReadLogFails \/ CommandGivesUp
  BY ZenonT(60), <1>4, UserAt DEF ReadLogFails, CommandGivesUp, program
<1>5. CASE Quit \/ ChatEnds
  BY ZenonT(60), <1>5, UserAt DEF Quit, ChatEnds, program
<1>6. QED
  BY ZenonT(60), <1>1, <1>2, <1>3, <1>4, <1>5

\* What is left when a program is over.
LEMMA OverLeaves ==
  ASSUME Kill \/ CloseWrite
  PROVE  /\ main' = "off" /\ stop' = "no" /\ lock' = "free" /\ sub' = Waiting /\ user' = Ended
         /\ job' = [t \in Thread |-> NoJob] /\ gone' = {}
  BY ZenonT(60) DEF Kill, CloseWrite, Over

\* The lock is with the thread that is between taking it and giving it back.
LEMMA LockStep == ThreadsOK /\ LockInv /\ [Next]_vars => LockInv'
<1> SUFFICES ASSUME ThreadsOK, LockInv, [Next]_vars PROVE LockInv'
  OBVIOUS
<1>1. CASE UNCHANGED <<main, lock, sub, user, job>>
  BY ZenonT(60), <1>1 DEF LockInv
<1>2. CASE Launch
  <2>1. main = "off" /\ main' = "run" /\ user'.pc = "register" /\ UNCHANGED <<lock, sub, job>>
    <3>1. \A n : User("register", "none", n, {}).pc = "register"
      BY ZenonT(60) DEF User
    <3> QED BY ZenonT(60), <1>2, <3>1 DEF Launch, Start
  <2>2. QED
    BY ZenonT(60), <2>1, UserAt DEF LockInv
<1>3. CASE Kill
  <2>1. job'["sub"] = NoJob /\ job'["user"] = NoJob
    BY ZenonT(60), <1>3, OverLeaves DEF Thread
  <2>2. QED
    BY ZenonT(60), <1>3, <2>1, OverLeaves, UserAt DEF LockInv
<1>4. CASE Quit
  BY ZenonT(60), <1>4, LoopStays, UserAt DEF LockInv
<1>5. CASE ChatEnds
  BY ZenonT(60), <1>5, LoopStays, UserAt DEF LockInv
<1>6. CASE CloseTruncate
  BY ZenonT(60), <1>6 DEF LockInv, CloseTruncate, threads
<1>7. CASE CloseWrite
  <2>1. job'["sub"] = NoJob /\ job'["user"] = NoJob
    BY ZenonT(60), <1>7, OverLeaves DEF Thread
  <2>2. QED
    BY ZenonT(60), <1>7, <2>1, OverLeaves, UserAt DEF LockInv
<1>8. CASE Input
  <2>1. sub.pc = "idle" /\ sub'.pc \in {"idle", "lock"}
    BY <1>8 DEF Input
  <2>2. main = "run" /\ UNCHANGED <<main, lock, user, job>>
    BY ZenonT(60), <1>8 DEF Input, program
  <2>3. QED
    BY ZenonT(60), <2>1, <2>2 DEF LockInv
<1>9. CASE SetPosition
  <2>1. sub.pc = "lock" /\ sub'.pc = "work"
    BY ZenonT(60), <1>9 DEF SetPosition, ThreadsOK, Waiting
  <2>2. lock = "free" /\ lock' = "sub" /\ UNCHANGED <<main, user, job>>
    BY ZenonT(60), <1>9 DEF SetPosition, program
  <2>3. QED
    BY ZenonT(60), <2>1, <2>2, UserAt DEF LockInv
<1>10. CASE InputGivesUp
  <2>1. sub.pc = "lock" /\ sub' = Waiting /\ UNCHANGED <<main, lock, user, job>>
    BY ZenonT(60), <1>10 DEF InputGivesUp, program
  <2>2. QED
    BY ZenonT(60), <2>1, UserAt DEF LockInv
<1>11. CASE Handle
  <2>1. job'["user"] = job["user"]
    <3>1. UNCHANGED job \/ \E k \in {"started", "closed"}, n \in Peer : Dispatch("sub", k, n)
      BY ZenonT(60), <1>11 DEF Handle
    <3>2. QED
      BY ZenonT(60), <3>1, DispatchOne DEF Thread
  <2>2. sub.pc = "work" /\ sub'.pc = "wait" /\ UNCHANGED <<main, lock, user>>
    BY <1>11 DEF Handle, ThreadsOK, program
  <2>3. QED
    BY ZenonT(60), <2>1, <2>2, UserAt DEF LockInv
<1>12. CASE InputReturns
  <2>1. job'["sub"] = NoJob /\ job'["user"] = job["user"]
    BY ZenonT(60), <1>12 DEF InputReturns, ThreadsOK, Thread
  <2>2. sub.pc = "wait" /\ sub' = Waiting /\ lock' = "free" /\ UNCHANGED <<main, user>>
    BY ZenonT(60), <1>12 DEF InputReturns, program
  <2>3. QED
    BY ZenonT(60), <2>1, <2>2, UserAt DEF LockInv
<1>13. CASE Register
  BY ZenonT(60), <1>13, LoopStays, UserAt DEF LockInv
<1>14. CASE SetPrompt
  BY ZenonT(60), <1>14, LoopStays, UserAt DEF LockInv
<1>15. CASE ReadLogFails
  BY ZenonT(60), <1>15, LoopStays, UserAt DEF LockInv
<1>16. CASE CommandLocks
  <2>1. user.pc = "lock" /\ user'.pc \in {"post", "wait"}
    BY ZenonT(60), <1>16 DEF CommandLocks, ThreadsOK
  <2>2. lock = "free" /\ lock' = "user" /\ UNCHANGED <<main, sub, job>>
    BY ZenonT(60), <1>16 DEF CommandLocks, program
  <2>3. QED
    BY ZenonT(60), <2>1, <2>2, UserAt DEF LockInv
<1>17. CASE CommandGivesUp
  BY ZenonT(60), <1>17, LoopStays, UserAt DEF LockInv
<1>18. CASE Answer
  <2>1. job'["sub"] = job["sub"]
    <3>1. UNCHANGED job \/ \E k \in {"started", "closed"}, n \in Peer : Dispatch("user", k, n)
      BY ZenonT(60), <1>18 DEF Answer
    <3>2. QED
      BY ZenonT(60), <3>1, DispatchOne DEF Thread
  <2>2. user.pc = "post" /\ user'.pc = "wait" /\ UNCHANGED <<main, lock, sub>>
    BY ZenonT(60), <1>18 DEF Answer, ThreadsOK, program
  <2>3. QED
    BY ZenonT(60), <2>1, <2>2, UserAt DEF LockInv
<1>19. CASE CommandReturns
  <2>1. job'["user"] = NoJob /\ job'["sub"] = job["sub"]
    BY ZenonT(60), <1>19 DEF CommandReturns, ThreadsOK, Thread
  <2>2. user.pc = "wait" /\ user' = AtPrompt /\ lock' = "free" /\ UNCHANGED <<main, sub>>
    BY ZenonT(60), <1>19 DEF CommandReturns, program
  <2>3. QED
    BY ZenonT(60), <2>1, <2>2, UserAt DEF LockInv
<1>20. CASE Command
  BY ZenonT(60), <1>20, LoopStays, UserAt DEF LockInv
<1>21. CASE \E t \in Thread : Update(t)
  <2>1. PICK t \in Thread : Update(t)
    BY ZenonT(60), <1>21
  <2>2. UNCHANGED <<main, lock, sub, user>>
    BY ZenonT(60), <2>1 DEF Update, program
  <2>3. \A u \in Thread : job'[u] # NoJob => job[u] # NoJob
    BY ZenonT(60), <2>1, HandlersOne
  <2>4. QED
    BY ZenonT(60), <2>2, <2>3 DEF LockInv, Thread
<1>22. CASE \E t \in Thread : HandlerChecks(t)
  <2>1. PICK t \in Thread : HandlerChecks(t)
    BY ZenonT(60), <1>22
  <2>2. UNCHANGED <<main, lock, sub, user>>
    BY ZenonT(60), <2>1 DEF HandlerChecks, program
  <2>3. \A u \in Thread : job'[u] # NoJob => job[u] # NoJob
    BY ZenonT(60), <2>1, HandlersOne
  <2>4. QED
    BY ZenonT(60), <2>2, <2>3 DEF LockInv, Thread
<1>23. CASE \E t \in Thread : HandlerSets(t)
  <2>1. PICK t \in Thread : HandlerSets(t)
    BY ZenonT(60), <1>23
  <2>2. UNCHANGED <<main, lock, sub, user>>
    BY ZenonT(60), <2>1 DEF HandlerSets, program
  <2>3. \A u \in Thread : job'[u] # NoJob => job[u] # NoJob
    BY ZenonT(60), <2>1, HandlersOne
  <2>4. QED
    BY ZenonT(60), <2>2, <2>3 DEF LockInv, Thread
<1>24. ASSUME Recv \/ Interrupt
     PROVE  UNCHANGED <<main, lock, sub, user, job>>
  BY ZenonT(60), <1>24 DEF Recv, program, threads, shown, Interrupt, store, history
<1>25. ASSUME UNCHANGED vars PROVE UNCHANGED <<main, lock, sub, user, job>>
  BY ZenonT(60), <1>25 DEF vars, program, store, threads, shown, history
<1>26. QED
  BY ZenonT(60), <1>1, <1>2, <1>3, <1>4, <1>5, <1>6, <1>7, <1>8, <1>9, <1>10, <1>11, <1>12, <1>13, <1>14,
    <1>15, <1>16, <1>17, <1>18, <1>19, <1>20, <1>21, <1>22, <1>23, <1>24, <1>25 DEF Next, Handlers

\* The prompt names nobody else at any point of the loop.
LEMMA PromptStep == ThreadsOK /\ ShownOK /\ PromptInv /\ [Next]_vars => PromptInv'
<1> SUFFICES ASSUME ThreadsOK, ShownOK, PromptInv, [Next]_vars PROVE PromptInv'
  OBVIOUS
<1>1. CASE UNCHANGED <<main, stop, user, them, prompt>>
  BY ZenonT(60), <1>1 DEF PromptInv, Named, Target
<1>2. CASE Launch
  <2>1. PICK f \in {"chat", "ui"}, n \in Name \cup {NoOne} : Start(f, n)
    BY ZenonT(60), <1>2 DEF Launch
  <2>2. main' = "run" /\ user'.pc = "register" /\ them' = n
    BY ZenonT(60), <2>1 DEF Start, User
  <2>3. \A part \in Parts : prompt'[part] \in {NoOne, n}
    BY <2>1 DEF Start, Prompt, Parts
  <2>4. QED
    BY ZenonT(60), <2>2, <2>3 DEF PromptInv, Named
<1>3. CASE Kill
  BY ZenonT(60), <1>3, OverLeaves, UserAt DEF PromptInv
<1>4. CASE CloseWrite
  BY ZenonT(60), <1>4, OverLeaves, UserAt DEF PromptInv
<1>5. CASE CloseTruncate
  <2>1. main' = "encode" /\ UNCHANGED <<stop, user, them, prompt>>
    BY ZenonT(60), <1>5 DEF CloseTruncate, threads, shown
  <2>2. QED
    BY ZenonT(60), <2>1, <2>1 DEF PromptInv, Named, Target
<1>6. CASE Interrupt
  <2>1. main' = "run" /\ stop' = "done"
    BY ZenonT(60), <1>6 DEF Interrupt
  <2>2. QED
    BY ZenonT(60), <2>1, UserAt DEF PromptInv
<1>7. CASE Quit
  <2>1. main' = "run" /\ user' = Ended
    BY ZenonT(60), <1>7 DEF Quit
  <2>2. QED
    BY ZenonT(60), <2>1, UserAt DEF PromptInv
<1>8. CASE ChatEnds
  <2>1. user.pc = "prompt" /\ user' = Ended /\ UNCHANGED <<main, stop>>
    BY ZenonT(60), <1>8 DEF ChatEnds, program
  <2>2. QED
    BY ZenonT(60), <2>1, UserAt DEF PromptInv
<1>9. CASE Register
  <2>1. user.pc = "register" /\ UNCHANGED <<main, stop, them, prompt>>
    BY ZenonT(60), <1>9 DEF Register, program, shown
  <2>2. user' = AtPrompt \/ user' = Setting("first", user.arg)
    BY ZenonT(60), <1>9 DEF Register
  <2>3. QED
    BY <2>1, <2>2, UserAt DEF PromptInv, Named, Target
<1>10. CASE SetPrompt
  <2>1. PICK part \in user.left :
          /\ Assign(part, Target)
          /\ user' = IF user.left # {part} THEN [user EXCEPT !.left = user.left \ {part}]
                     ELSE IF user.cmd = "first" THEN [AtPrompt EXCEPT !.arg = user.arg]
                     ELSE Call(user.cmd, user.arg)
          /\ them' = IF user.left = {part} /\ user.cmd = "first" THEN NoOne ELSE them
    BY ZenonT(60), <1>10 DEF SetPrompt, Target
  <2>2. /\ \A p \in Parts : prompt'[p] = IF p = part THEN Target ELSE prompt[p]
        /\ user.pc = "set" /\ UNCHANGED <<main, stop>> /\ part \in Parts
    BY ZenonT(60), <1>10, <2>1 DEF SetPrompt, Assign, ShownOK, ThreadsOK, program
  <2>3. CASE user.left # {part}
    <3>1. /\ user'.pc = "set" /\ user'.cmd = user.cmd /\ user'.arg = user.arg
          /\ user'.left = user.left \ {part}
      BY ZenonT(60), <2>1, <2>2, <2>3 DEF ThreadsOK
    <3>2. Target' = Target /\ them' = them
      BY ZenonT(60), <2>1, <2>3, <3>1 DEF Target
    <3>3. QED
      BY ZenonT(60), <2>2, <3>1, <3>2, UserAt DEF PromptInv
  <2>4. CASE user.left = {part} /\ user.cmd = "first"
    <3>1. user'.pc = "prompt" /\ user'.arg = user.arg /\ them' = NoOne /\ Target = user.arg
      BY ZenonT(60), <2>1, <2>4 DEF AtPrompt, User, Target
    <3>2. main # "off" /\ (stop # "done" => \A p \in Parts : prompt'[p] \in {NoOne, user.arg})
      BY ZenonT(60), <2>2, <2>4, <3>1, UserAt DEF PromptInv
    <3>3. QED
      BY ZenonT(60), <2>2, <3>1, <3>2 DEF PromptInv, Named
  <2>5. CASE user.left = {part} /\ user.cmd # "first"
    <3>1. user'.pc = "lock" /\ them' = them
      BY <2>1, <2>5, UserAt
    <3>2. QED
      BY <2>2, <2>5, <3>1, UserAt DEF PromptInv
  <2>6. QED
    BY ZenonT(60), <2>3, <2>4, <2>5
<1>11. CASE ReadLogFails
  <2>1. stop = "done" /\ user.pc # "ended" /\ UNCHANGED <<main, stop>>
    BY ZenonT(60), <1>11 DEF ReadLogFails, CommandGivesUp, program
  <2>2. QED
    BY ZenonT(60), <2>1, UserAt DEF PromptInv
<1>12. CASE CommandLocks
  <2>1. user.pc = "lock" /\ user'.pc \in {"post", "wait"}
        /\ UNCHANGED <<main, stop, them, prompt>>
    BY ZenonT(60), <1>12 DEF CommandLocks, ThreadsOK, program, shown
  <2>2. QED
    BY ZenonT(60), <2>1, UserAt DEF PromptInv
<1>13. CASE CommandGivesUp
  <2>1. stop = "done" /\ user.pc # "ended" /\ UNCHANGED <<main, stop>>
    BY ZenonT(60), <1>13 DEF ReadLogFails, CommandGivesUp, program
  <2>2. QED
    BY ZenonT(60), <2>1, UserAt DEF PromptInv
<1>14. CASE Answer
  <2>1. user.pc = "post" /\ user'.pc = "wait" /\ UNCHANGED <<main, stop, them, prompt>>
    BY ZenonT(60), <1>14 DEF Answer, ThreadsOK, program
  <2>2. QED
    BY ZenonT(60), <2>1, UserAt DEF PromptInv
<1>15. CASE CommandReturns
  <2>1. user.pc = "wait" /\ user' = AtPrompt /\ UNCHANGED <<main, stop, them, prompt>>
    BY ZenonT(60), <1>15 DEF CommandReturns, program
  <2>2. QED
    BY ZenonT(60), <2>1, UserAt DEF PromptInv
<1>16. CASE Command
  <2>1. PICK c \in {"chat", "close", "send", "salty"}, n \in Name \cup {NoOne} : Type(c, n)
    BY ZenonT(60), <1>16 DEF Command
  <2>2. user.pc = "prompt" /\ UNCHANGED <<main, stop>> /\ (user.arg # NoOne => c = "chat" /\ n =
    user.arg)
    BY ZenonT(60), <2>1 DEF Type, program
  <2>3. ASSUME NEW m, NEW to, to = (IF c = "close" THEN NoOne ELSE m), SetThem(c, m, to)
        PROVE  PromptInv'
    <3>1. CASE prompt' = Prompt(to) /\ user' = Call(c, m)
      <4>1. them' = to /\ \A part \in Parts : prompt'[part] = to
        BY <2>3, <3>1 DEF SetThem, Prompt, Parts
      <4>2. QED
        BY ZenonT(60), <2>2, <3>1, <4>1, UserAt DEF PromptInv
    <3>2. CASE user' = Setting(c, m)
      <4>1. them' = to /\ (c = "first" \/ to = Target')
        BY <2>3, <3>2, UserAt DEF SetThem, Target
      <4>2. QED
        BY ZenonT(60), <2>2, <3>2, <4>1, UserAt DEF PromptInv
    <3>3. QED
      BY ZenonT(60), <2>3, <3>1, <3>2 DEF SetThem
  <2>4. CASE UNCHANGED <<them, prompt>> /\ (user' = AtPrompt \/ \E d : user' = Call(d, NoOne)) /\
    (c # "chat" \/ n = Me)
    BY <2>2, <2>4, UserAt, NamesAssumption DEF PromptInv, Named, NamesAssumption
  <2>5. QED
    BY ZenonT(60), <2>1, <2>3, <2>4 DEF Type
<1>17. CASE \E t \in Thread : HandlerSets(t)
  <2>1. PICK t \in Thread : HandlerSets(t)
    BY ZenonT(60), <1>17
  <2>2. UNCHANGED <<main, stop, user, them>>
    BY ZenonT(60), <2>1 DEF HandlerSets, program
  <2>3. \A part \in Parts : prompt'[part] \in {NoOne, prompt[part]}
    BY ZenonT(60), <2>1 DEF HandlerSets, Assign, ShownOK
  <2>4. QED
    BY ZenonT(60), <2>2, <2>3 DEF PromptInv, Named, Target
<1>18. ASSUME Recv \/ Input \/ SetPosition \/ InputGivesUp \/ Handle
     PROVE  UNCHANGED <<main, stop, user, them, prompt>>
  BY ZenonT(60), <1>18 DEF Recv, program, threads, shown, Input, SetPosition, history, InputGivesUp, store,
    Handle
<1>19. ASSUME InputReturns \/ (\E t \in Thread : Update(t)) \/ (\E t \in Thread : HandlerChecks(t))
     PROVE  UNCHANGED <<main, stop, user, them, prompt>>
  BY ZenonT(60), <1>19 DEF InputReturns, program, store, shown, Update, history, HandlerChecks
<1>20. ASSUME UNCHANGED vars PROVE UNCHANGED <<main, stop, user, them, prompt>>
  BY ZenonT(60), <1>20 DEF vars, program, store, threads, shown, history
<1>21. QED
  BY ZenonT(60), <1>1, <1>2, <1>3, <1>4, <1>5, <1>6, <1>7, <1>8, <1>9, <1>10, <1>11, <1>12, <1>13, <1>14,
    <1>15, <1>16, <1>17, <1>18, <1>19, <1>20 DEF Next, Handlers

\* Only one thread dispatches at a time, if it is about sessions.
LEMMA OneJob == LockInv => job["sub"] = NoJob \/ job["user"] = NoJob
  BY ZenonT(60) DEF LockInv

\* The log is told of what is done under the lock before the lock is given back.
LEMMA LogStep == ProgramOK /\ ThreadsOK /\ ShownOK /\ LockInv /\ LogInv /\ [Next]_vars => LogInv'
<1> SUFFICES ASSUME ProgramOK, ThreadsOK, ShownOK, LockInv, LogInv, [Next]_vars PROVE LogInv'
  BY ZenonT(60)
<1>1. CASE UNCHANGED <<stop, gone, last, job>>
  BY ZenonT(60), <1>1 DEF LogInv
<1>2. CASE Launch
  <2>1. UNCHANGED <<stop, gone, last, job>>
    BY ZenonT(60), <1>2 DEF Launch, Start
  <2>2. QED
    BY ZenonT(60), <2>1 DEF LogInv
<1>3. CASE Kill
  <2>1. gone' = {} /\ \A t \in Thread : job'[t].kind = "none"
    BY <1>3, OverLeaves DEF NoJob
  <2>2. QED
    BY ZenonT(60), <2>1 DEF LogInv, Thread
<1>4. CASE CloseWrite
  <2>1. gone' = {} /\ \A t \in Thread : job'[t].kind = "none"
    BY <1>4, OverLeaves DEF NoJob
  <2>2. QED
    BY ZenonT(60), <2>1 DEF LogInv, Thread
<1>5. CASE CloseTruncate
  <2>1. UNCHANGED <<stop, gone, last, job>>
    BY ZenonT(60), <1>5 DEF CloseTruncate, threads, shown
  <2>2. QED
    BY ZenonT(60), <2>1 DEF LogInv
<1>6. CASE Interrupt
  <2>1. UNCHANGED <<gone, last, job>> /\ (stop = "done" => stop' = "done")
    BY ZenonT(60), <1>6 DEF Interrupt, threads, shown
  <2>2. QED
    BY ZenonT(60), <2>1 DEF LogInv
<1>7. CASE Quit
  <2>1. UNCHANGED <<gone, last, job>> /\ (stop = "done" => stop' = "done")
    BY ZenonT(60), <1>7 DEF Quit, shown, ProgramOK
  <2>2. QED
    BY ZenonT(60), <2>1 DEF LogInv
<1>8. CASE \E t \in Thread : Update(t)
  <2>1. PICK t \in Thread : Update(t)
    BY ZenonT(60), <1>8
  <2>2. /\ \A u \in Thread : job'[u].kind = job[u].kind /\ job'[u].of = job[u].of
        /\ \A u \in Thread \ {t} : job'[u].log = job[u].log
        /\ job[t].log /\ ~job'[t].log /\ job[t] # NoJob
    BY ZenonT(60), <2>1, HandlersOne
  <2>3. job[t].of \in Peer /\ job[t].kind \in {"started", "closed"}
    BY ZenonT(60), <2>2 DEF ThreadsOK, Job
  <2>4. UNCHANGED <<stop, gone>> /\ (stop # "done" => last' = [last EXCEPT ![job[t].of] =
    job[t].kind])
    BY ZenonT(60), <2>1 DEF Update, program, store, threads, shown, history
  <2>5. \A u \in Thread \ {t} : job[u].kind = "none"
    <3>1. NoJob.kind = "none"
      BY ZenonT(60) DEF NoJob
    <3>2. QED
      BY ZenonT(60), <2>2, <3>1, OneJob DEF Thread
  <2>6. QED
    BY <2>2, <2>3, <2>4, <2>5 DEF LogInv, Thread, ShownOK
<1>9. CASE \E t \in Thread : HandlerChecks(t)
  <2>1. PICK t \in Thread : HandlerChecks(t)
    BY ZenonT(60), <1>9
  <2>2. UNCHANGED <<stop, gone, last>>
    BY ZenonT(60), <2>1 DEF HandlerChecks, program, store, shown, history
  <2>4. \A u \in Thread : job'[u].kind = job[u].kind /\ job'[u].of = job[u].of /\ job'[u].log =
    job[u].log
    BY ZenonT(60), <2>1, HandlersOne
  <2>5. QED
    BY ZenonT(60), <2>2, <2>4 DEF LogInv, Thread
<1>10. CASE \E t \in Thread : HandlerSets(t)
  <2>1. PICK t \in Thread : HandlerSets(t)
    BY ZenonT(60), <1>10
  <2>2. UNCHANGED <<stop, gone, last>>
    BY ZenonT(60), <2>1 DEF HandlerSets, Assign, program, store, history
  <2>4. \A u \in Thread : job'[u].kind = job[u].kind /\ job'[u].of = job[u].of /\ job'[u].log =
    job[u].log
    BY ZenonT(60), <2>1, HandlersOne
  <2>5. QED
    BY ZenonT(60), <2>2, <2>4 DEF LogInv, Thread
<1>11. CASE Handle
  <2>1. job["sub"] = NoJob /\ job["user"] = NoJob
    BY ZenonT(60), <1>11 DEF Handle, LockInv
  <2>2. stop # "done" => \A n \in gone : last[n] # "started"
    BY ZenonT(60), <2>1 DEF LogInv, NoJob
  <2>3. UNCHANGED <<stop, last>>
    BY ZenonT(60), <1>11 DEF Handle, program
  <2>4. CASE UNCHANGED job /\ gone' \subseteq gone
    BY ZenonT(60), <2>1, <2>2, <2>3, <2>4 DEF LogInv, Thread, NoJob
  <2>5. ASSUME NEW n \in Peer \ gone, Dispatch("sub", "started", n), UNCHANGED gone
        PROVE  LogInv'
    BY <2>1, <2>2, <2>3, <2>5, DispatchOne DEF LogInv, Thread, NoJob
  <2>6. ASSUME NEW n \in Peer \ gone, Dispatch("sub", "closed", n), gone' \in {gone, gone \cup {n}}
        PROVE  LogInv'
    BY <2>1, <2>2, <2>3, <2>6, DispatchOne DEF LogInv, Thread, NoJob
  <2>7. QED
    BY ZenonT(60), <1>11, <2>4, <2>5, <2>6 DEF Handle
<1>12. CASE InputReturns
  <2>1. job'["sub"] = NoJob /\ job'["user"] = job["user"]
    BY ZenonT(60), <1>12 DEF InputReturns, ThreadsOK, Thread
  <2>2. UNCHANGED <<stop, gone, last>> /\ ~job["sub"].log
    BY ZenonT(60), <1>12 DEF InputReturns, Dispatched, program, shown
  <2>3. QED
    BY <2>1, <2>2 DEF LogInv, Thread, NoJob
<1>13. CASE Answer
  <2>1. job["sub"] = NoJob /\ job["user"] = NoJob
    BY ZenonT(60), <1>13 DEF Answer, LockInv
  <2>2. stop # "done" => \A n \in gone : last[n] # "started"
    BY ZenonT(60), <2>1 DEF LogInv, NoJob
  <2>3. UNCHANGED <<stop, last>>
    BY ZenonT(60), <1>13 DEF Answer, program
  <2>4. CASE UNCHANGED job /\ gone' \subseteq gone
    BY ZenonT(60), <2>1, <2>2, <2>3, <2>4 DEF LogInv, Thread, NoJob
  <2>5. ASSUME NEW n \in Peer \ gone, NEW k \in {"started", "closed"}, Dispatch("user", k, n),
    UNCHANGED gone
        PROVE  LogInv'
    BY <2>1, <2>2, <2>3, <2>5, DispatchOne DEF LogInv, Thread, NoJob
  <2>6. QED
    BY ZenonT(60), <1>13, <2>4, <2>5 DEF Answer
<1>14. CASE CommandReturns
  <2>1. job'["user"] = NoJob /\ job'["sub"] = job["sub"]
    BY ZenonT(60), <1>14 DEF CommandReturns, ThreadsOK, Thread
  <2>2. UNCHANGED <<stop, last>> /\ ~job["user"].log
    BY ZenonT(60), <1>14 DEF CommandReturns, Dispatched, program
  <2>3. job["sub"] = NoJob
    BY ZenonT(60), <1>14 DEF CommandReturns, LockInv
  <2>4. gone' = gone \/ (job["user"].kind = "closed" /\ gone' = gone \cup {job["user"].of})
    BY ZenonT(60), <1>14 DEF CommandReturns
  <2>5. job["sub"].kind = "none" /\ \A t \in Thread : job'[t].kind = "none"
    BY <2>1, <2>3 DEF Thread, NoJob
  <2>6. QED
    BY ZenonT(60), <2>2, <2>4, <2>5 DEF LogInv, Thread
<1>15. ASSUME Recv \/ ChatEnds \/ Input \/ SetPosition \/ InputGivesUp
     PROVE  UNCHANGED <<stop, gone, last, job>>
  BY ZenonT(60), <1>15 DEF Recv, program, threads, shown, ChatEnds, store, history, Input, SetPosition,
    InputGivesUp
<1>16. ASSUME Register \/ SetPrompt \/ ReadLogFails \/ CommandLocks \/ CommandGivesUp
     PROVE  UNCHANGED <<stop, gone, last, job>>
  BY ZenonT(60), <1>16 DEF Register, program, store, shown, history, SetPrompt, Assign, ReadLogFails,
    CommandLocks, CommandGivesUp
<1>17. ASSUME Command
     PROVE  UNCHANGED <<stop, gone, last, job>>
  BY ZenonT(60), <1>17 DEF Command, Type, SetThem, program, store, history
<1>18. ASSUME UNCHANGED vars PROVE UNCHANGED <<stop, gone, last, job>>
  BY ZenonT(60), <1>18 DEF vars, program, store, threads, shown, history
<1>19. QED
  BY ZenonT(60), <1>1, <1>2, <1>3, <1>4, <1>5, <1>6, <1>7, <1>8, <1>9, <1>10, <1>11, <1>12, <1>13, <1>14,
    <1>15, <1>16, <1>17, <1>18 DEF Next, Handlers

-----------------------------------------------------------------------------
AllInv == TypeOK /\ SkipInv /\ OnceInv /\ PromptInv /\ LockInv /\ LogInv

\* All of it holds when nothing has been started yet.
LEMMA InitAll == Init => AllInv
<1> SUFFICES ASSUME Init PROVE AllInv
  OBVIOUS
<1>1. ProgramOK
  BY ZenonT(60) DEF Init, ProgramOK
<1>2. StoreOK
  BY InboxIds DEF Init, StoreOK, Position, Fresh
<1>3. HistoryOK
  <2>1. 0 \in 0 .. MaxStarts /\ 0 \in 0 .. MaxKills
    BY BoundsAssumption DEF BoundsAssumption
  <2>2. QED
    BY ZenonT(60), <2>1 DEF Init, HistoryOK
<1>4. ThreadsOK
  <2>1. user \in [pc : {"ended", "register", "prompt", "set", "lock", "post", "wait"},
                  cmd : {"none", "first", "chat", "close", "send"},
                  arg : Name \cup {NoOne}, left : SUBSET Parts]
    BY ZenonT(60) DEF Init, Ended, User
  <2>2. job \in [Thread -> Job]
    BY ZenonT(60) DEF Init, Job
  <2>3. QED
    BY ZenonT(60), <2>1, <2>2 DEF Init, ThreadsOK
<1>5. ShownOK
  BY DEF Init, ShownOK, Prompt, Parts
<1>6. SkipInv /\ OnceInv
  <2>1. /\ saved = -1 /\ pos = -1 /\ cursor = 1 /\ sub = Waiting
        /\ handled = {} /\ twice = {} /\ main = "off"
    BY ZenonT(60) DEF Init, Fresh
  <2>2. SkipInv
    BY <2>1, InboxIds, UserAt DEF SkipInv
  <2>3. OnceInv
    BY <2>1, InboxIds, UserAt DEF OnceInv, Kept
  <2>4. QED
    BY ZenonT(60), <2>2, <2>3
<1>7. PromptInv
  BY ZenonT(60), UserAt DEF Init, PromptInv
<1>8. LockInv /\ LogInv
  <2>1. job["sub"] = NoJob /\ job["user"] = NoJob
    BY ZenonT(60) DEF Init, Thread
  <2>2. LockInv
    BY ZenonT(60), <2>1, UserAt DEF Init, LockInv
  <2>3. gone = {} /\ \A t \in Thread : job[t].kind = "none"
    BY ZenonT(60), <2>1 DEF Init, Thread, NoJob
  <2>4. LogInv
    BY ZenonT(60), <2>3 DEF LogInv, Thread
  <2>5. QED
    BY ZenonT(60), <2>2, <2>4
<1>9. QED
  BY ZenonT(60), <1>1, <1>2, <1>3, <1>4, <1>5, <1>6, <1>7, <1>8 DEF AllInv, TypeOK

\* All of it is kept by every step.
LEMMA StepAll == AllInv /\ [Next]_vars => AllInv'
<1> SUFFICES ASSUME AllInv, [Next]_vars PROVE AllInv'
  OBVIOUS
<1>1. ProgramOK /\ StoreOK /\ ThreadsOK /\ ShownOK /\ HistoryOK
  BY ZenonT(60) DEF AllInv, TypeOK
<1>2. TypeOK'
  BY ZenonT(60), <1>1, ProgramStep, StoreStep, ThreadsStep, ShownStep, HistoryStep DEF TypeOK
<1>3. SkipInv' /\ OnceInv'
  BY ZenonT(60), <1>1, SkipStep, OnceStep DEF AllInv
<1>4. PromptInv'
  BY ZenonT(60), <1>1, PromptStep DEF AllInv
<1>5. LockInv' /\ LogInv'
  BY ZenonT(60), <1>1, LockStep, LogStep DEF AllInv
<1>6. QED
  BY ZenonT(60), <1>2, <1>3, <1>4, <1>5 DEF AllInv

\* AllInv is an invariant of the program.
THEOREM ShellInvariant == Spec => []AllInv
  BY InitAll, StepAll, PTL DEF Spec

\* Every variable of the running program keeps its type.
THEOREM TypeCorrect == Spec => []TypeOK
<1>1. AllInv => TypeOK
  BY ZenonT(60) DEF AllInv
<1>2. QED
  BY <1>1, ShellInvariant, PTL

\* setPrompt: the prompt names nobody but the peer that a typed line is sent to,
\* although two goroutines write it.
THEOREM PromptIsRight == Spec => []PromptNames
<1>1. AllInv => PromptNames
  BY ZenonT(60), UserAt DEF AllInv, PromptInv, PromptNames
<1>2. QED
  BY <1>1, ShellInvariant, PTL

\* SetPosition, Close and Load: without a kill and cli.Recv, no message is handled
\* twice.
THEOREM NothingTwice == Spec => []HandledOnce
<1>1. AllInv => HandledOnce
  BY ZenonT(60) DEF AllInv, OnceInv, HandledOnce
<1>2. QED
  BY <1>1, ShellInvariant, PTL

\* SetPosition, Close and Load: the saved position skips no message.
THEOREM NoneSkipped == Spec => []NothingSkipped
<1>1. AllInv => NothingSkipped
  BY ZenonT(60) DEF AllInv, SkipInv, NothingSkipped
<1>2. QED
  BY <1>1, ShellInvariant, PTL

\* MemSession.Update: outside the lock, no log says last of a deleted session that
\* it started.
THEOREM LogIsTrue == Spec => []LogTrue
<1>1. ASSUME AllInv PROVE LogTrue
  <2>1. lock = "free" => job["sub"] = NoJob
    BY ZenonT(60), <1>1 DEF AllInv, LockInv
  <2>2. QED
    BY <1>1, <2>1 DEF AllInv, LogInv, LogTrue, NoJob
<1>2. QED
  BY <1>1, ShellInvariant, PTL

=============================================================================
