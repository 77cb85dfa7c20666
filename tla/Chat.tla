-------------------------------- MODULE Chat --------------------------------
(***************************************************************************)
(* mgmtd's side of the assistant: tickets for the turns and reads a browser *)
(* polls for, the pool of gRPC workers, the one streaming thread that a    *)
(* tech-doc refresh and a benchtest run share, the configuration and keys  *)
(* pushed to pretzel-ai, and the conversations engined stores.             *)
(*                                                                         *)
(* mgmtd's loop is one thread: a request handler, a poll of the gRPC       *)
(* client and engined's handling of a frame are each one step.  A worker   *)
(* and the stream thread touch only the two guarded queues, grpcTasks and  *)
(* grpcDone.  pretzel-ai is external: it may answer, refuse, stop or throw *)
(* at any point of a call.                                                 *)
(***************************************************************************)
EXTENDS Integers, Sequences, FiniteSets

CONSTANTS Sessions,    \* conversation oids a browser made up
          Owners,      \* local_users oids
          Workers,     \* threads of the pool, 4 in the code
          MaxTurns,    \* bound: chat turns
          MaxReads,    \* bound: unary reads
          MaxPartials, \* bound: batches of a streamed answer
          MaxStreams,  \* bound: refreshes and runs
          MaxProgress, \* bound: progress messages of a stream
          MaxPushes,   \* bound: configuration pushes
          MaxChatFaults, \* bound: statements the database refuses
          HeldAnswers, \* 256 in the code, for results, partials and contexts
          HeldCases    \* 2000 in the code

VARIABLES
  chatTicket,   \* m_chatTicket, the next ticket
  grpcTasks,    \* TaskQueue
  working,      \* what the workers hold, with the batches reported so far
  grpcDone,     \* ResultQueue
  chatResults,  \* m_chatResults: tickets with an answer
  chatPartials, \* m_chatPartials: ticket to batches held
  chatContexts, \* m_chatContexts: ticket to the turn to store
  takenTickets, \* answers a browser read
  droppedTickets, \* answers dropped for room
  streaming,    \* the stream thread's flag
  stream,       \* what the stream thread runs and how far it is
  refreshing, benchRunning,   \* m_corpusRefreshing, m_benchtestRunning
  heldCases,    \* m_benchtestCases, counted
  toChat,       \* frames to engined
  chatSessions, \* chat_session: oid to owner
  chatMessages, \* chat_message
  aiKey,        \* the sealed vendor key in engined's table, 0 for none
  aiSaved,      \* the key the operator saved last
  served,       \* the key pretzel-ai was last given
  spoiled,      \* history: why the last push may not leave pretzel-ai on the table's key
  keyDropped,   \* history: engined did not store the key it was sent last
  chatCount     \* counters for the bounds

chatVars == <<chatTicket, grpcTasks, working, grpcDone, chatResults, chatPartials,
              chatContexts, takenTickets, droppedTickets, streaming, stream, refreshing, benchRunning,
              heldCases, toChat, chatSessions, chatMessages, aiKey, aiSaved, served,
              spoiled, keyDropped, chatCount>>

ticketVars == <<chatTicket, chatResults, chatPartials, chatContexts, takenTickets, droppedTickets>>
streamVars == <<streaming, stream, refreshing, benchRunning, heldCases>>
storeVars  == <<toChat, chatSessions, chatMessages, aiKey>>
pushVars   == <<aiSaved, served, spoiled, keyDropped>>

NoStream == [cmd |-> "none", phase |-> "none", sawFinal |-> FALSE, cancelled |-> FALSE, sent |-> 0]

ChatInit ==
  /\ chatTicket = 1 /\ grpcTasks = <<>> /\ working = {} /\ grpcDone = <<>>
  /\ chatResults = {} /\ chatPartials = <<>> /\ chatContexts = <<>>
  /\ takenTickets = {} /\ droppedTickets = {}
  /\ streaming = FALSE /\ stream = NoStream
  /\ refreshing = FALSE /\ benchRunning = FALSE /\ heldCases = 0
  /\ toChat = <<>> /\ chatSessions = <<>> /\ chatMessages = {}
  /\ aiKey = 0 /\ aiSaved = 0 /\ served = 0 /\ spoiled = FALSE /\ keyDropped = FALSE
  /\ chatCount = [turns |-> 0, reads |-> 0, streams |-> 0, pushes |-> 0, faults |-> 0]

\* A GrpcMessage; push numbers the configurations, which all have ticket 0.
Task(cmd, ticket, key) == [cmd |-> cmd, ticket |-> ticket, key |-> key, push |-> chatCount.pushes]

Counted(what, bound) == chatCount[what] < bound /\ chatCount' = [chatCount EXCEPT ![what] = @ + 1]
Without(f, k) == [x \in DOMAIN f \ {k} |-> f[x]]
With(f, k, v) == [x \in DOMAIN f \cup {k} |-> IF x = k THEN v ELSE f[x]]

\* Every bounded store of the service manager: past the limit it is emptied.
Bounded(f) == IF Cardinality(DOMAIN f) > HeldAnswers THEN <<>> ELSE f

-----------------------------------------------------------------------------
(* Requests.                                                               *)

\* ChatController::send: the context waits for the poll that takes the answer.
\* owner is ownerOf's answer, "" when the session or the lookup is gone; seq is
\* the browser's, the place of the question in the conversation.
Send(session, owner, seq) ==
  /\ Counted("turns", MaxTurns)
  /\ chatContexts' = With(Bounded(chatContexts), chatTicket,
                          [session |-> session, owner |-> owner, seq |-> seq])
  /\ grpcTasks' = Append(grpcTasks, Task("Chat", chatTicket, 0))
  /\ chatTicket' = chatTicket + 1
  /\ UNCHANGED <<working, grpcDone, chatResults, chatPartials, takenTickets, droppedTickets, streamVars,
                 storeVars, pushVars>>

\* The reads of ChatController, TechDocController and BenchtestController: a
\* ticket and one unary call; a filter that is not sound is refused before.
Read ==
  /\ Counted("reads", MaxReads)
  /\ grpcTasks' = Append(grpcTasks, Task("Read", chatTicket, 0))
  /\ chatTicket' = chatTicket + 1
  /\ UNCHANGED <<working, grpcDone, chatResults, chatPartials, chatContexts, takenTickets,
                 droppedTickets, streamVars, storeVars, pushVars>>

\* storeTurn of mgmtd: both halves of the turn in one frame.
TurnFrame(ctx, ticket) ==
  [kind |-> "turn", session |-> ctx.session, owner |-> ctx.owner,
   question |-> [oid |-> <<ticket, "user">>, session |-> ctx.session, seq |-> ctx.seq],
   answer   |-> [oid |-> <<ticket, "assistant">>, session |-> ctx.session, seq |-> ctx.seq + 1]]

\* result of the three controllers: the answer is taken, what was accumulating
\* for it is dropped, and a turn with an owner is handed to engined.
Result(t) ==
  /\ t \in chatResults
  /\ chatResults' = chatResults \ {t} /\ takenTickets' = takenTickets \cup {t}
  /\ chatPartials' = Without(chatPartials, t)
  /\ chatContexts' = Without(chatContexts, t)
  /\ toChat' = IF t \in DOMAIN chatContexts /\ chatContexts[t].owner # ""
               THEN Append(toChat, TurnFrame(chatContexts[t], t)) ELSE toChat
  /\ UNCHANGED <<chatTicket, droppedTickets, grpcTasks, working, grpcDone, streamVars, chatSessions,
                 chatMessages, aiKey, pushVars, chatCount>>

\* sessionDelete and sessionPatch: the frame carries the caller as owner.
SessionFrame(kind, session, owner) ==
  /\ Counted("turns", MaxTurns)
  /\ toChat' = Append(toChat, [kind |-> kind, session |-> session, owner |-> owner])
  /\ UNCHANGED <<ticketVars, grpcTasks, working, grpcDone, streamVars, chatSessions,
                 chatMessages, aiKey, pushVars>>

\* unreachableDoc: what a caller is told when pretzel-ai said nothing.  Only a
\* refresh's document says that it is final.
UnreachableDoc(cmd) ==
  [cmd |-> cmd, ticket |-> 0, what |-> IF cmd = "Refresh" THEN "final" ELSE "error"]

\* egress of a stream command: refused while the thread's flag is set.
Egress(cmd) ==
  IF streaming
    THEN /\ grpcDone' = Append(grpcDone, UnreachableDoc(cmd))
         /\ UNCHANGED <<streaming, stream>>
    ELSE /\ streaming' = TRUE
         /\ stream' = [NoStream EXCEPT !.cmd = cmd, !.phase = "reading"]
         /\ UNCHANGED grpcDone

\* The thread that is joined before a new one starts has nothing left to report.
CanJoin == ~streaming => stream.phase # "thrown"

\* TechDocController::refresh with beginCorpusRefresh.
Refresh ==
  /\ Counted("streams", MaxStreams) /\ CanJoin
  /\ ~refreshing /\ refreshing' = TRUE
  /\ Egress("Refresh")
  /\ UNCHANGED <<ticketVars, grpcTasks, working, benchRunning, heldCases, storeVars, pushVars>>

\* BenchtestController::runStart with beginBenchtestRun.
RunStart ==
  /\ Counted("streams", MaxStreams) /\ CanJoin
  /\ ~benchRunning /\ benchRunning' = TRUE /\ heldCases' = 0
  /\ Egress("Run")
  /\ UNCHANGED <<ticketVars, grpcTasks, working, refreshing, storeVars, pushVars>>

\* cancel and runCancel: TryCancel on the call in flight, if there is one.
Cancel(cmd) ==
  /\ cmd = "Refresh" => refreshing
  /\ stream.cmd = cmd /\ stream.phase = "reading" /\ ~stream.cancelled
  /\ stream' = [stream EXCEPT !.cancelled = TRUE]
  /\ UNCHANGED <<ticketVars, grpcTasks, working, grpcDone, streaming, refreshing, benchRunning,
                 heldCases, storeVars, pushVars, chatCount>>

\* runProgress: the queued cases are drained.
RunProgress ==
  /\ heldCases > 0 /\ heldCases' = 0
  /\ UNCHANGED <<ticketVars, grpcTasks, working, grpcDone, streaming, stream, refreshing,
                 benchRunning, storeVars, pushVars, chatCount>>

-----------------------------------------------------------------------------
(* Configuration and keys for pretzel-ai.                                  *)

Applying == \/ \E i \in 1..Len(grpcTasks) : grpcTasks[i].cmd = "Apply"
            \/ \E w \in working : w.cmd = "Apply"
KeyOnItsWay == \E i \in 1..Len(toChat) : toChat[i].kind = "key"

\* Fault: the push reads the key back from the table.
PushReadsBack(key, isOverride) ==
  /\ Counted("pushes", MaxPushes)
  /\ spoiled' = (Applying \/ (~isOverride /\ KeyOnItsWay))
  /\ grpcTasks' = Append(grpcTasks, Task("Apply", 0, aiKey))

\* unsealedKeys: the key of the table, or none when the table cannot be read, the row does
\* not open or the appliance has no credentials.key; the push is made all the same.
unsealedKeys == {aiKey, 0}

\* push: the running config with the keys of the table, the one being stored taken from the
\* caller because engined has not written it yet.  A push is spoiled when the workers may
\* apply an earlier one after it, when a key is still on its way to the table it was read
\* from, or when the table's key was not read.
Push(key, isOverride) ==
  /\ Counted("pushes", MaxPushes)
  /\ \E k \in IF isOverride THEN {key} ELSE unsealedKeys :
       /\ grpcTasks' = Append(grpcTasks, Task("Apply", 0, k))
       /\ spoiled' = (Applying \/ (~isOverride /\ (KeyOnItsWay \/ k # aiKey)))

\* credentialStore: seal, hand to engined, push; 0 is an operator's clear.
CredentialStore(key) ==
  /\ toChat' = Append(toChat, [kind |-> "key", key |-> key])
  /\ aiSaved' = key
  /\ Push(key, TRUE)
  /\ UNCHANGED <<ticketVars, working, grpcDone, streamVars, chatSessions, chatMessages, aiKey,
                 served, keyDropped>>

\* The other pushes: at start, after a commit, and when poll sees `reconnected`.
PushAiConfig ==
  /\ Push(0, FALSE)
  /\ UNCHANGED <<ticketVars, working, grpcDone, streamVars, storeVars, aiSaved, served, keyDropped>>

-----------------------------------------------------------------------------
(* The worker pool.                                                        *)

\* A message a worker has taken on, nothing done for it yet.
Started(task) ==
  [cmd |-> task.cmd, ticket |-> task.ticket, key |-> task.key, push |-> task.push,
   applied |-> FALSE, sent |-> 0]

\* TaskQueue::pop by an idle worker.
Pop ==
  /\ grpcTasks # <<>> /\ Cardinality(working) < Workers
  /\ working' = working \cup {Started(Head(grpcTasks))}
  /\ grpcTasks' = Tail(grpcTasks)
  /\ UNCHANGED <<ticketVars, grpcDone, streamVars, storeVars, pushVars, chatCount>>

\* runChat's flush: a batch of the answer is reported before the turn is over.
ReportPartial(w) ==
  /\ w \in working /\ w.cmd = "Chat" /\ w.sent < MaxPartials
  /\ working' = (working \ {w}) \cup {[w EXCEPT !.sent = @ + 1]}
  /\ grpcDone' = Append(grpcDone, [cmd |-> "Chat", ticket |-> w.ticket, what |-> "partial"])
  /\ UNCHANGED <<ticketVars, grpcTasks, streamVars, storeVars, pushVars, chatCount>>

\* pretzel-ai takes the configuration a call carries (external).
Apply(w) ==
  /\ w \in working /\ w.cmd = "Apply" /\ ~w.applied
  /\ served' = w.key
  /\ working' = (working \ {w}) \cup {[w EXCEPT !.applied = TRUE]}
  /\ UNCHANGED <<ticketVars, grpcTasks, grpcDone, streamVars, storeVars, aiSaved, spoiled,
                 keyDropped, chatCount>>

\* A configuration that pretzel-ai did not take: nobody makes the push again.
Refused(w) ==
  IF w.cmd = "Apply" /\ ~w.applied
    THEN Counted("faults", MaxChatFaults) /\ spoiled' = TRUE
    ELSE UNCHANGED <<spoiled, chatCount>>

\* Fault: the worker answers and then flushes what is left of the text.
RunUnaryLateFlush(w) ==
  /\ w \in working /\ working' = working \ {w}
  /\ Refused(w)
  /\ grpcDone' = grpcDone \o <<[cmd |-> w.cmd, ticket |-> w.ticket, what |-> "final"],
                               [cmd |-> w.cmd, ticket |-> w.ticket, what |-> "partial"]>>
  /\ UNCHANGED <<ticketVars, grpcTasks, streamVars, storeVars, aiSaved, served, keyDropped>>

\* runUnary and run: an answer, a refusal, silence or an exception, the ticket
\* gets exactly one last document.
RunUnary(w) ==
  /\ w \in working /\ working' = working \ {w}
  /\ Refused(w)
  /\ grpcDone' = Append(grpcDone, [cmd |-> w.cmd, ticket |-> w.ticket, what |-> "final"])
  /\ UNCHANGED <<ticketVars, grpcTasks, streamVars, storeVars, aiSaved, served, keyDropped>>

-----------------------------------------------------------------------------
(* The stream thread.                                                      *)

\* onProgress: pretzel-ai's next message; a run also reports its cases.  sawFinal looks for
\* the text "final" and a later "true": a passed case, "final": false and then "ok": true,
\* sets it too.  What toJson cannot render arrives as "{}", which is progress.
StreamProgress(what) ==
  /\ stream.phase = "reading"
  /\ stream.sent < MaxProgress
  /\ what = "case" => stream.cmd = "Run"
  /\ \E passed \in BOOLEAN :
       /\ passed => what = "case"
       /\ stream' = [stream EXCEPT !.sent = @ + 1, !.sawFinal = @ \/ what = "final" \/ passed]
  /\ grpcDone' = Append(grpcDone, [cmd |-> stream.cmd, ticket |-> 0, what |-> what])
  /\ UNCHANGED <<ticketVars, grpcTasks, working, streaming, refreshing, benchRunning, heldCases,
                 storeVars, pushVars, chatCount>>

\* runStream after the call: a last message when pretzel-ai sent none.  Only
\* refreshCorpus reports a cancelled call as an error, benchtestRun hides it.
StreamEnd(cancelSeen) ==
  IF stream.sawFinal THEN grpcDone
  ELSE IF stream.cancelled /\ cancelSeen
    THEN Append(grpcDone, [cmd |-> stream.cmd, ticket |-> 0, what |-> "final"])
    ELSE Append(grpcDone, UnreachableDoc(stream.cmd))

StreamFinish ==
  /\ stream.phase = "reading"
  /\ grpcDone' = StreamEnd(stream.cmd = "Refresh")
  /\ stream' = [stream EXCEPT !.phase = "ended"]
  /\ UNCHANGED <<ticketVars, grpcTasks, working, streaming, refreshing, benchRunning, heldCases,
                 storeVars, pushVars, chatCount>>

\* ClearStreaming, after the last report.
StreamClear ==
  /\ stream.phase = "ended"
  /\ stream' = NoStream /\ streaming' = FALSE
  /\ UNCHANGED <<ticketVars, grpcTasks, working, grpcDone, refreshing, benchRunning, heldCases,
                 storeVars, pushVars, chatCount>>

\* runStreamGuarded: an exception clears the flag first and reports after.
StreamThrow ==
  /\ stream.phase = "reading"
  /\ stream' = [stream EXCEPT !.phase = "thrown"] /\ streaming' = FALSE
  /\ UNCHANGED <<ticketVars, grpcTasks, working, grpcDone, refreshing, benchRunning, heldCases,
                 storeVars, pushVars, chatCount>>

StreamCatch ==
  /\ stream.phase = "thrown" /\ stream' = NoStream
  /\ grpcDone' = Append(grpcDone, UnreachableDoc(stream.cmd))
  /\ UNCHANGED <<ticketVars, grpcTasks, working, streaming, refreshing, benchRunning, heldCases,
                 storeVars, pushVars, chatCount>>

-----------------------------------------------------------------------------
(* poll, drain and WebGrpcEvent::dispatch on the loop.                     *)

\* A message that says final ends a run.
Ends(d) == d.what = "final"

\* One document; the loop drains them all, in this order, before it reads the
\* next request, and no handler looks at what is still queued.
Dispatch ==
  /\ grpcDone # <<>> /\ grpcDone' = Tail(grpcDone)
  /\ LET d == Head(grpcDone)
         results == IF Cardinality(chatResults) > HeldAnswers THEN {} ELSE chatResults
         partials == Bounded(chatPartials)
     IN \/ /\ d.what = "partial"
           /\ chatPartials' = With(partials, d.ticket,
                IF d.ticket \in DOMAIN partials THEN partials[d.ticket] + 1 ELSE 1)
           /\ UNCHANGED <<chatResults, droppedTickets, refreshing, benchRunning, heldCases>>
        \/ /\ d.what = "final" /\ d.cmd \in {"Chat", "Read"}
           /\ chatResults' = results \cup {d.ticket}
           /\ droppedTickets' = droppedTickets \cup (chatResults \ results)
           /\ UNCHANGED <<chatPartials, refreshing, benchRunning, heldCases>>
        \/ /\ d.cmd = "Refresh"
           /\ refreshing' = (refreshing /\ ~Ends(d))
           /\ UNCHANGED <<chatResults, chatPartials, droppedTickets, benchRunning, heldCases>>
        \/ /\ d.cmd = "Run"
           /\ benchRunning' = (benchRunning /\ ~Ends(d))
           /\ heldCases' = IF d.what # "case" THEN heldCases
                           ELSE IF heldCases >= HeldCases THEN heldCases ELSE heldCases + 1
           /\ UNCHANGED <<chatResults, chatPartials, droppedTickets, refreshing>>
        \/ /\ d.cmd = "Apply"
           /\ UNCHANGED <<chatResults, chatPartials, droppedTickets, refreshing, benchRunning, heldCases>>
  /\ UNCHANGED <<chatTicket, takenTickets, grpcTasks, working, chatContexts, streaming, stream, storeVars,
                 pushVars, chatCount>>

-----------------------------------------------------------------------------
(* engined: ChatService and ApiCredentialService::storeAiCredential.       *)

\* INSERT ... ON CONFLICT DO NOTHING: a taken oid or place absorbs the row.
InsertMessage(rows, m) ==
  IF \E r \in rows : r.oid = m.oid \/ (r.session = m.session /\ r.seq = m.seq)
  THEN rows ELSE rows \cup {m}

\* storeTurn of engined: the owner is written on insert only.
StoreTurn(f) ==
  /\ chatSessions' = IF f.session \in DOMAIN chatSessions THEN chatSessions
                     ELSE With(chatSessions, f.session, f.owner)
  /\ chatMessages' = InsertMessage(InsertMessage(chatMessages, f.question), f.answer)
  /\ UNCHANGED aiKey

\* removeSession: the messages go by cascade.
RemoveSession(f) ==
  LET mine == f.session \in DOMAIN chatSessions /\ chatSessions[f.session] = f.owner
  IN /\ chatSessions' = IF mine THEN Without(chatSessions, f.session) ELSE chatSessions
     /\ chatMessages' = IF mine THEN {r \in chatMessages : r.session # f.session} ELSE chatMessages
     /\ UNCHANGED aiKey

\* storeAiCredential: a clear is an instruction of its own.
StoreAiCredential(old, new) == new

\* handleEvent; a statement that is refused leaves the rows alone.  patchSession
\* changes a title and a draft, which nothing here tells apart.
ChatHandle ==
  /\ toChat # <<>> /\ toChat' = Tail(toChat)
  /\ LET f == Head(toChat)
     IN \/ f.kind = "turn" /\ StoreTurn(f) /\ UNCHANGED chatCount
        \/ f.kind = "delete" /\ RemoveSession(f) /\ UNCHANGED chatCount
        \/ /\ f.kind = "patch"
           /\ UNCHANGED <<chatSessions, chatMessages, aiKey, chatCount>>
        \/ /\ f.kind = "key" /\ aiKey' = StoreAiCredential(aiKey, f.key)
           /\ UNCHANGED <<chatSessions, chatMessages, chatCount>>
        \/ /\ Counted("faults", MaxChatFaults)
           /\ UNCHANGED <<chatSessions, chatMessages, aiKey>>
  /\ keyDropped' = IF Head(toChat).kind # "key" THEN keyDropped ELSE aiKey' # Head(toChat).key
  /\ UNCHANGED <<ticketVars, grpcTasks, working, grpcDone, streamVars, aiSaved, served, spoiled>>

\* prune, pruneIfDue: a conversation nobody talked in for the retention time.
Prune(session) ==
  /\ session \in DOMAIN chatSessions
  /\ chatSessions' = Without(chatSessions, session)
  /\ chatMessages' = {r \in chatMessages : r.session # session}
  /\ UNCHANGED <<ticketVars, grpcTasks, working, grpcDone, streamVars, toChat, aiKey, pushVars,
                 chatCount>>

-----------------------------------------------------------------------------
Places == {0, 2}  \* where in a conversation a turn goes, its answer one further

TurnNext ==
  \/ \E s \in Sessions, o \in Owners \cup {""}, n \in Places : Send(s, o, n)
  \/ Read
  \/ \E t \in chatResults : Result(t)
  \/ \E k \in {"delete", "patch"}, s \in Sessions, o \in Owners : SessionFrame(k, s, o)
  \/ \E s \in Sessions : Prune(s)
  \/ \E w \in working : ReportPartial(w)

StreamNext ==
  \/ Refresh \/ RunStart \/ RunProgress
  \/ \E c \in {"Refresh", "Run"} : Cancel(c)
  \/ \E x \in {"progress", "case", "final"} : StreamProgress(x)
  \/ StreamFinish \/ StreamClear \/ StreamThrow \/ StreamCatch

PushNext ==
  \/ \E k \in {0, chatCount.pushes + 1} : CredentialStore(k)
  \/ PushAiConfig
  \/ \E w \in working : Apply(w)

LoopNext == Pop \/ (\E w \in working : RunUnary(w)) \/ Dispatch \/ ChatHandle

ChatNext == TurnNext \/ StreamNext \/ PushNext \/ LoopNext

ChatSpec == ChatInit /\ [][ChatNext]_chatVars

-----------------------------------------------------------------------------
(* Properties.                                                             *)

\* Where a ticket is: queued, with a worker, answered and not yet delivered, or filed.
Whereabouts(t) ==
  {<<"queued", i>> : i \in {k \in 1..Len(grpcTasks) : grpcTasks[k].ticket = t}}
  \cup {<<"worked", w>> : w \in {x \in working : x.ticket = t}}
  \cup {<<"answered", i>> : i \in {k \in 1..Len(grpcDone) :
                                     grpcDone[k].ticket = t /\ grpcDone[k].what = "final"}}
  \cup {<<"filed", r>> : r \in {x \in chatResults : x = t}}

\* Every ticket a browser holds is in one place; one that was read, or dropped
\* for room, is nowhere.  So a poll ends, once.
TicketTracked ==
  \A t \in 1..(chatTicket - 1) :
    IF t \in takenTickets \cup droppedTickets
    THEN Whereabouts(t) = {}
    ELSE \E p \in Whereabouts(t) : Whereabouts(t) = {p}

\* The text of an answer that is being written never outlives the turn, whatever
\* the workers and the loop interleave: once a browser has read the answer no
\* batch of it is queued and none is held.
NoLatePartial ==
  \A t \in takenTickets : /\ \A i \in 1..Len(grpcDone) : grpcDone[i].ticket # t
                          /\ t \notin DOMAIN chatPartials

\* A refresh the console calls running is one: its stream is alive or the message
\* that ends it is on its way.  A refusal, an exception, a cancel and a stream
\* that dies all reach beginCorpusRefresh's flag.
RefreshTracked ==
  refreshing => \/ stream.cmd = "Refresh" /\ stream.phase \in {"reading", "thrown"}
                \/ \E i \in 1..Len(grpcDone) : grpcDone[i].cmd = "Refresh" /\ Ends(grpcDone[i])

\* The same of a benchtest run.
RunTracked ==
  benchRunning => \/ stream.cmd = "Run" /\ stream.phase \in {"reading", "thrown"}
                  \/ \E i \in 1..Len(grpcDone) : grpcDone[i].cmd = "Run" /\ Ends(grpcDone[i])

\* A stored question has its own turn's answer after it, whatever was retried,
\* deleted or sent from two windows at the same place.
TurnWhole ==
  chatCount.faults = 0 =>
    \A q \in chatMessages : q.oid[2] = "user" =>
      \E a \in chatMessages : /\ a.oid = <<q.oid[1], "assistant">>
                              /\ a.session = q.session /\ a.seq = q.seq + 1

\* Every browser that waits for the assistant is answered, once, with what was stored.
AnswersTracked == TicketTracked /\ NoLatePartial /\ RefreshTracked /\ TurnWhole

\* One undisturbed push repairs whatever went before it: AiConfig.h says "a lost push is
\* repaired by the next one".  However many pushes overlapped, were refused or went out
\* without keys, and however many writes failed, once nothing is on its way the table has
\* the key the operator saved or cleared last unless the write of that one failed, and
\* pretzel-ai runs on it unless the LAST push was spoiled.  (Nothing makes that next push.)
PushCarriesKey ==
  ~Applying /\ ~KeyOnItsWay /\ ~keyDropped =>
    /\ aiKey = aiSaved
    /\ ~spoiled /\ chatCount.pushes > 0 => served = aiSaved

=============================================================================
