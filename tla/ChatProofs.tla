----------------------------- MODULE ChatProofs -----------------------------
(***************************************************************************)
(* The assistant, as a browser sees it: each ticket in one place, no batch *)
(* of an answer after the answer, a refresh that is running while the      *)
(* console says so, whole turns in the table, and pretzel-ai on the key    *)
(* that was saved last.                                                    *)
(*                                                                         *)
(* The four parts have little in common, so each has an invariant of its   *)
(* own over the variables it is about, and every action is first reduced   *)
(* to what it does to those.                                               *)
(***************************************************************************)
EXTENDS Chat, SequenceTheorems, TLAPS

Cmds == {"Chat", "Read", "Apply"}

\* A queued message: a turn or a read has a ticket, a configuration has none.
TaskRecs == {x \in [cmd : Cmds, ticket : Nat, key : Nat, push : Nat] :
               x.ticket = 0 <=> x.cmd = "Apply"}

\* A message with a worker.
HeldRecs == {x \in [cmd : Cmds, ticket : Nat, key : Nat, push : Nat,
                    applied : BOOLEAN, sent : Nat] :
               x.ticket = 0 <=> x.cmd = "Apply"}

\* A document on its way to the loop: those of a turn or a read have its ticket,
\* and only a turn has parts.
DocRecs == {x \in [cmd : Cmds \cup {"Refresh", "Run"}, ticket : Nat,
                   what : {"partial", "final", "progress", "case", "error"}] :
              /\ x.ticket = 0 <=> x.cmd \notin {"Chat", "Read"}
              /\ x.ticket # 0 => x.what \in {"partial", "final"}
              /\ x.what = "partial" => x.cmd = "Chat"}

TicketTypes ==
  /\ chatTicket \in Nat \ {0}
  /\ grpcTasks \in Seq(TaskRecs) /\ working \in SUBSET HeldRecs /\ grpcDone \in Seq(DocRecs)

\* The tickets in a queue of messages, with the workers, and finally answered.
Queued(s) == {s[i].ticket : i \in 1..Len(s)} \ {0}
Worked(W) == {w.ticket : w \in W} \ {0}
Finals(s) == {s[i].ticket : i \in {k \in 1..Len(s) : s[k].what = "final"}} \ {0}

\* No ticket is there twice.
OnceQueued(s) == \A i, j \in 1..Len(s) : s[i].ticket # 0 /\ s[i].ticket = s[j].ticket => i = j
OnceWorked(W) == \A v, w \in W : v.ticket # 0 /\ v.ticket = w.ticket => v = w
OnceFinal(s) == \A i, j \in 1..Len(s) :
  s[i].ticket # 0 /\ s[i].ticket = s[j].ticket /\ s[i].what = "final" /\ s[j].what = "final" => i = j

Apart(A, B) == A \cap B = {}

Closed == takenTickets \cup droppedTickets

\* The tickets handed out are parted into those queued, worked on, answered,
\* filed and closed.
Parted ==
  /\ Queued(grpcTasks) \cup Worked(working) \cup Finals(grpcDone) \cup chatResults \cup Closed
       = 1..(chatTicket - 1)
  /\ Apart(Queued(grpcTasks), Worked(working)) /\ Apart(Queued(grpcTasks), Finals(grpcDone))
  /\ Apart(Queued(grpcTasks), chatResults) /\ Apart(Queued(grpcTasks), Closed)
  /\ Apart(Worked(working), Finals(grpcDone)) /\ Apart(Worked(working), chatResults)
  /\ Apart(Worked(working), Closed)
  /\ Apart(Finals(grpcDone), chatResults) /\ Apart(Finals(grpcDone), Closed)
  /\ Apart(chatResults, Closed)
  /\ OnceQueued(grpcTasks) /\ OnceWorked(working) /\ OnceFinal(grpcDone)

\* A part of an answer is followed by the answer, or its worker is still at it;
\* and what is held of an answer goes when the answer is read.
PartsInv ==
  /\ \A i \in 1..Len(grpcDone) : grpcDone[i].what = "partial" =>
       \/ grpcDone[i].ticket \in Worked(working)
       \/ \E j \in 1..Len(grpcDone) : /\ j > i /\ grpcDone[j].what = "final"
                                      /\ grpcDone[j].ticket = grpcDone[i].ticket
  /\ Apart(takenTickets, DOMAIN chatPartials)

TicketInv == TicketTypes /\ Parted /\ PartsInv

-----------------------------------------------------------------------------
(* Queues.                                                                 *)

\* What Append and Tail do to a queue.
LEMMA AppendTo ==
  ASSUME NEW S, NEW s \in Seq(S), NEW x \in S
  PROVE  /\ Append(s, x) \in Seq(S) /\ Len(Append(s, x)) = Len(s) + 1 /\ Len(s) \in Nat
         /\ \A i \in 1..Len(s) : Append(s, x)[i] = s[i]
         /\ Append(s, x)[Len(s) + 1] = x
         /\ \A i \in 1..Len(Append(s, x)) : i \in 1..Len(s) \/ i = Len(s) + 1
         /\ \A i \in 1..Len(s) : i \in 1..Len(Append(s, x)) /\ i # Len(s) + 1 /\ i < Len(s) + 1
         /\ Len(s) + 1 \in 1..Len(Append(s, x))
<1>1. Len(s) \in Nat
  OBVIOUS
<1>2. /\ Append(s, x) \in Seq(S) /\ Len(Append(s, x)) = Len(s) + 1
      /\ \A i \in 1..Len(s) : Append(s, x)[i] = s[i]
      /\ Append(s, x)[Len(s) + 1] = x
  BY AppendProperties
<1>3. \A n \in Nat : /\ \A i \in 1..(n + 1) : i \in 1..n \/ i = n + 1
                     /\ \A i \in 1..n : i \in 1..(n + 1) /\ i # n + 1 /\ i < n + 1
                     /\ n + 1 \in 1..(n + 1)
  OBVIOUS
<1> QED BY <1>1, <1>2, <1>3

\* Delivering or taking the oldest entry of a queue.
LEMMA TailOf ==
  ASSUME NEW S, NEW s \in Seq(S), s # <<>>
  PROVE  /\ Head(s) \in S /\ Head(s) = s[1] /\ 1 \in 1..Len(s)
         /\ Tail(s) \in Seq(S) /\ Len(Tail(s)) = Len(s) - 1
         /\ \A i \in 1..Len(Tail(s)) : i + 1 \in 1..Len(s) /\ i + 1 # 1 /\ Tail(s)[i] = s[i + 1]
         /\ \A k \in 1..Len(s) : k # 1 => k - 1 \in 1..Len(Tail(s)) /\ Tail(s)[k - 1] = s[k]
<1>1. Len(s) \in Nat /\ Len(s) # 0
  BY EmptySeq
<1>2. /\ Head(s) \in S /\ Head(s) = s[1]
      /\ Tail(s) \in Seq(S) /\ Len(Tail(s)) = Len(s) - 1
      /\ \A i \in 1..Len(Tail(s)) : Tail(s)[i] = s[i + 1]
  BY HeadTailProperties
<1>3. \A n \in Nat : n # 0 =>
        /\ 1 \in 1..n
        /\ \A i \in 1..(n - 1) : i + 1 \in 1..n /\ i + 1 # 1
        /\ \A k \in 1..n : k # 1 => k - 1 \in 1..(n - 1) /\ (k - 1) + 1 = k
  OBVIOUS
<1>4. /\ 1 \in 1..Len(s)
      /\ \A i \in 1..(Len(s) - 1) : i + 1 \in 1..Len(s) /\ i + 1 # 1
      /\ \A k \in 1..Len(s) : k # 1 => k - 1 \in 1..(Len(s) - 1) /\ (k - 1) + 1 = k
  BY <1>1, <1>3
<1> QED BY <1>2, <1>4

\* A message is queued.
LEMMA QueuedAppend ==
  ASSUME NEW s \in Seq(TaskRecs), NEW x \in TaskRecs, OnceQueued(s), x.ticket \notin Queued(s)
  PROVE  Queued(Append(s, x)) = (Queued(s) \cup {x.ticket}) \ {0} /\ OnceQueued(Append(s, x))
<1>1. Queued(Append(s, x)) = (Queued(s) \cup {x.ticket}) \ {0}
  BY AppendTo DEF Queued
<1>2. \A i \in 1..Len(s) : s[i].ticket # 0 => s[i].ticket # x.ticket
  BY DEF Queued
<1>3. OnceQueued(Append(s, x))
  BY <1>2, AppendTo DEF OnceQueued
<1> QED BY <1>1, <1>3

\* A message leaves the queue.
LEMMA QueuedTail ==
  ASSUME NEW s \in Seq(TaskRecs), s # <<>>, OnceQueued(s)
  PROVE  /\ Queued(Tail(s)) = Queued(s) \ {Head(s).ticket} /\ OnceQueued(Tail(s))
         /\ Head(s).ticket # 0 => Head(s).ticket \in Queued(s)
<1>1. \A k \in 1..Len(s) : k # 1 => s[k].ticket = 0 \/ s[k].ticket # Head(s).ticket
  BY TailOf DEF OnceQueued
<1>2. Queued(Tail(s)) \subseteq Queued(s) \ {Head(s).ticket}
  BY <1>1, TailOf DEF Queued
<1>3. Queued(s) \ {Head(s).ticket} \subseteq Queued(Tail(s))
  BY TailOf DEF Queued
<1>4. OnceQueued(Tail(s))
  <2> SUFFICES ASSUME NEW i \in 1..Len(Tail(s)), NEW j \in 1..Len(Tail(s)),
                      Tail(s)[i].ticket # 0, Tail(s)[i].ticket = Tail(s)[j].ticket
               PROVE  i = j
    BY DEF OnceQueued
  <2>1. i + 1 = j + 1
    BY TailOf DEF OnceQueued
  <2> QED BY <2>1
<1>5. Head(s).ticket # 0 => Head(s).ticket \in Queued(s)
  BY TailOf DEF Queued
<1> QED BY <1>2, <1>3, <1>4, <1>5

\* A document is reported: a last one adds its ticket, any other none.
LEMMA FinalsAppend ==
  ASSUME NEW s \in Seq(DocRecs), NEW x \in DocRecs, OnceFinal(s),
         x.what = "final" => x.ticket \notin Finals(s)
  PROVE  /\ Finals(Append(s, x)) = IF x.what = "final" THEN (Finals(s) \cup {x.ticket}) \ {0}
                                                       ELSE Finals(s)
         /\ OnceFinal(Append(s, x))
<1>1. CASE x.what = "final"
  <2>1. Finals(Append(s, x)) = (Finals(s) \cup {x.ticket}) \ {0}
    BY <1>1, AppendTo DEF Finals
  <2>2. \A i \in 1..Len(s) : s[i].what = "final" /\ s[i].ticket # 0 => s[i].ticket # x.ticket
    BY <1>1 DEF Finals
  <2>3. OnceFinal(Append(s, x))
    BY <2>2, AppendTo DEF OnceFinal
  <2> QED BY <1>1, <2>1, <2>3
<1>2. CASE x.what # "final"
  <2>1. Finals(Append(s, x)) = Finals(s)
    BY <1>2, AppendTo DEF Finals
  <2>2. OnceFinal(Append(s, x))
    BY <1>2, AppendTo DEF OnceFinal
  <2> QED BY <1>2, <2>1, <2>2
<1> QED BY <1>1, <1>2

\* A document is delivered.
LEMMA FinalsTail ==
  ASSUME NEW s \in Seq(DocRecs), s # <<>>, OnceFinal(s)
  PROVE  /\ Finals(Tail(s)) = IF Head(s).what = "final" THEN Finals(s) \ {Head(s).ticket}
                                                        ELSE Finals(s)
         /\ OnceFinal(Tail(s))
         /\ Head(s).what = "final" /\ Head(s).ticket # 0 => Head(s).ticket \in Finals(s)
<1>1. Head(s).what = "final" =>
        \A k \in 1..Len(s) : k # 1 /\ s[k].what = "final" => s[k].ticket = 0 \/ s[k].ticket # Head(s).ticket
  BY TailOf DEF OnceFinal
<1>2. Head(s).what = "final" => Finals(Tail(s)) \subseteq Finals(s) \ {Head(s).ticket}
  BY <1>1, TailOf DEF Finals
<1>3. Head(s).what = "final" => Finals(s) \ {Head(s).ticket} \subseteq Finals(Tail(s))
  <2> SUFFICES ASSUME NEW t \in Finals(s), t # Head(s).ticket PROVE t \in Finals(Tail(s))
    OBVIOUS
  <2>1. PICK k \in 1..Len(s) : s[k].what = "final" /\ s[k].ticket = t /\ t # 0
    BY DEF Finals
  <2>2. k # 1
    BY <2>1, TailOf
  <2>3. k - 1 \in 1..Len(Tail(s)) /\ Tail(s)[k - 1] = s[k]
    BY <2>2, TailOf
  <2> QED BY <2>1, <2>3 DEF Finals
<1>4. Head(s).what # "final" => Finals(Tail(s)) \subseteq Finals(s)
  BY TailOf DEF Finals
<1>5. Head(s).what # "final" => Finals(s) \subseteq Finals(Tail(s))
  <2> SUFFICES ASSUME NEW t \in Finals(s), Head(s).what # "final" PROVE t \in Finals(Tail(s))
    OBVIOUS
  <2>1. PICK k \in 1..Len(s) : s[k].what = "final" /\ s[k].ticket = t /\ t # 0
    BY DEF Finals
  <2>2. k # 1
    BY <2>1, TailOf
  <2>3. k - 1 \in 1..Len(Tail(s)) /\ Tail(s)[k - 1] = s[k]
    BY <2>2, TailOf
  <2> QED BY <2>1, <2>3 DEF Finals
<1>6. OnceFinal(Tail(s))
  <2> SUFFICES ASSUME NEW i \in 1..Len(Tail(s)), NEW j \in 1..Len(Tail(s)),
                      Tail(s)[i].ticket # 0, Tail(s)[i].ticket = Tail(s)[j].ticket,
                      Tail(s)[i].what = "final", Tail(s)[j].what = "final"
               PROVE  i = j
    BY DEF OnceFinal
  <2>1. i + 1 = j + 1
    BY TailOf DEF OnceFinal
  <2> QED BY <2>1
<1>7. Head(s).what = "final" /\ Head(s).ticket # 0 => Head(s).ticket \in Finals(s)
  BY TailOf DEF Finals
<1> QED BY <1>2, <1>3, <1>4, <1>5, <1>6, <1>7

-----------------------------------------------------------------------------
(* What a step does to the tickets.                                        *)

ticketState == <<chatTicket, grpcTasks, working, grpcDone, chatResults, takenTickets, droppedTickets,
                 chatPartials>>

\* A step that leaves the tickets alone.
LEMMA TicketFrame ==
  ASSUME TicketInv, UNCHANGED ticketState
  PROVE  TicketInv'
<1>1. /\ chatTicket' = chatTicket /\ grpcTasks' = grpcTasks /\ working' = working
      /\ grpcDone' = grpcDone /\ chatResults' = chatResults /\ takenTickets' = takenTickets
      /\ chatPartials' = chatPartials /\ Closed' = Closed
  BY DEF ticketState, Closed
<1>2. TicketTypes'
  BY <1>1 DEF TicketInv, TicketTypes
<1>3. Parted'
  BY <1>1 DEF TicketInv, Parted
<1>4. PartsInv'
  BY <1>1 DEF TicketInv, PartsInv
<1> QED BY <1>2, <1>3, <1>4 DEF TicketInv

\* A turn or a read gets the next ticket, which is nowhere yet.
LEMMA TicketAsked ==
  ASSUME TicketInv, NEW x \in TaskRecs, x.ticket = chatTicket,
         grpcTasks' = Append(grpcTasks, x), chatTicket' = chatTicket + 1,
         UNCHANGED <<working, grpcDone, chatResults, takenTickets, droppedTickets, chatPartials>>
  PROVE  TicketInv'
<1>1. chatTicket \in Nat \ {0} /\ grpcTasks \in Seq(TaskRecs)
  BY DEF TicketInv, TicketTypes
<1>2. chatTicket \notin 1..(chatTicket - 1) /\ 1..(chatTicket' - 1) = 1..(chatTicket - 1) \cup {chatTicket}
      /\ chatTicket' \in Nat \ {0}
  BY <1>1
<1>3. chatTicket \notin Queued(grpcTasks) \cup Worked(working) \cup Finals(grpcDone) \cup chatResults \cup Closed
  BY <1>2 DEF TicketInv, Parted
<1>4. OnceQueued(grpcTasks)
  BY DEF TicketInv, Parted
<1>5. Queued(grpcTasks') = Queued(grpcTasks) \cup {chatTicket} /\ OnceQueued(grpcTasks')
  <2>1. Queued(grpcTasks') = (Queued(grpcTasks) \cup {chatTicket}) \ {0} /\ OnceQueued(grpcTasks')
    BY <1>1, <1>3, <1>4, QueuedAppend
  <2>2. 0 \notin Queued(grpcTasks)
    BY DEF Queued
  <2> QED BY <1>1, <2>1, <2>2
<1>6. Closed' = Closed /\ Worked(working') = Worked(working) /\ Finals(grpcDone') = Finals(grpcDone)
  BY DEF Closed
<1>7. Parted'
  BY <1>2, <1>3, <1>5, <1>6 DEF TicketInv, Parted, Apart
<1>8. TicketTypes'
  BY <1>1, <1>2, AppendTo DEF TicketInv, TicketTypes
<1>9. PartsInv'
  BY <1>6 DEF TicketInv, PartsInv
<1> QED BY <1>7, <1>8, <1>9 DEF TicketInv

\* A configuration is queued; it has no ticket.
LEMMA TicketlessTask ==
  ASSUME TicketInv, NEW x \in TaskRecs, x.ticket = 0,
         grpcTasks' = Append(grpcTasks, x),
         UNCHANGED <<chatTicket, working, grpcDone, chatResults, takenTickets, droppedTickets, chatPartials>>
  PROVE  TicketInv'
<1>1. grpcTasks \in Seq(TaskRecs) /\ OnceQueued(grpcTasks) /\ 0 \notin Queued(grpcTasks)
  BY DEF TicketInv, TicketTypes, Parted, Queued
<1>2. Queued(grpcTasks') = (Queued(grpcTasks) \cup {0}) \ {0} /\ OnceQueued(grpcTasks')
  BY <1>1, QueuedAppend
<1>3. Queued(grpcTasks') = Queued(grpcTasks)
  BY <1>1, <1>2
<1>4. Closed' = Closed /\ Worked(working') = Worked(working) /\ Finals(grpcDone') = Finals(grpcDone)
  BY DEF Closed
<1>5. Parted'
  BY <1>2, <1>3, <1>4 DEF TicketInv, Parted, Apart
<1>6. TicketTypes'
  BY <1>1, AppendTo DEF TicketInv, TicketTypes
<1>7. PartsInv'
  BY <1>4 DEF TicketInv, PartsInv
<1> QED BY <1>5, <1>6, <1>7 DEF TicketInv

\* A worker takes the oldest message.
LEMMA TicketPopped ==
  ASSUME TicketInv, Pop
  PROVE  TicketInv'
<1>1. /\ grpcTasks # <<>> /\ grpcTasks' = Tail(grpcTasks)
      /\ working' = working \cup {Started(Head(grpcTasks))}
      /\ UNCHANGED <<chatTicket, grpcDone, chatResults, takenTickets, droppedTickets, chatPartials>>
  BY DEF Pop, ticketVars
<1>2. grpcTasks \in Seq(TaskRecs) /\ OnceQueued(grpcTasks) /\ working \in SUBSET HeldRecs
  BY DEF TicketInv, TicketTypes, Parted
<1>3. Head(grpcTasks) \in TaskRecs /\ grpcTasks' \in Seq(TaskRecs)
  BY <1>1, <1>2, TailOf
<1>4. PICK t : t = Head(grpcTasks).ticket
  OBVIOUS
<1>5. /\ Queued(grpcTasks') = Queued(grpcTasks) \ {t} /\ OnceQueued(grpcTasks')
      /\ t # 0 => t \in Queued(grpcTasks)
  BY <1>1, <1>2, <1>4, QueuedTail
<1>6. Started(Head(grpcTasks)) \in HeldRecs /\ Started(Head(grpcTasks)).ticket = t
  BY <1>3, <1>4 DEF TaskRecs, HeldRecs, Started
<1>7. t # 0 => t \notin Worked(working)
  BY <1>5 DEF TicketInv, Parted, Apart
<1>8. Worked(working') = (Worked(working) \cup {t}) \ {0}
  BY <1>1, <1>6 DEF Worked
<1>9. OnceWorked(working')
  <2>1. \A w \in working : w.ticket # 0 => w.ticket # t
    BY <1>7 DEF Worked
  <2> QED BY <1>1, <1>6, <2>1 DEF OnceWorked, TicketInv, Parted
<1>10. Closed' = Closed /\ Finals(grpcDone') = Finals(grpcDone)
  BY <1>1 DEF Closed
<1>11. 0 \notin Queued(grpcTasks) /\ 0 \notin Worked(working)
  BY DEF Queued, Worked
<1>12. Parted'
  <2>1. CASE t = 0
    <3>1. Queued(grpcTasks') = Queued(grpcTasks) /\ Worked(working') = Worked(working)
      BY <1>5, <1>8, <1>11, <2>1
    <3> QED BY <1>1, <1>5, <1>9, <1>10, <3>1 DEF TicketInv, Parted, Apart
  <2>2. CASE t # 0
    <3>1. t \in Queued(grpcTasks) /\ Worked(working') = Worked(working) \cup {t}
      BY <1>5, <1>8, <1>11, <2>2
    <3>2. Queued(grpcTasks') \cup Worked(working') = Queued(grpcTasks) \cup Worked(working)
      BY <1>5, <3>1
    <3>3. t \notin Finals(grpcDone) \cup chatResults \cup Closed
      BY <3>1 DEF TicketInv, Parted, Apart
    <3>4. /\ Apart(Queued(grpcTasks'), Worked(working')) /\ Apart(Queued(grpcTasks'), Finals(grpcDone))
          /\ Apart(Queued(grpcTasks'), chatResults) /\ Apart(Queued(grpcTasks'), Closed)
          /\ Apart(Worked(working'), Finals(grpcDone)) /\ Apart(Worked(working'), chatResults)
          /\ Apart(Worked(working'), Closed)
      BY <1>5, <3>1, <3>3 DEF TicketInv, Parted, Apart
    <3> QED BY <1>1, <1>5, <1>9, <1>10, <3>2, <3>4 DEF TicketInv, Parted
  <2> QED BY <2>1, <2>2
<1>13. TicketTypes'
  BY <1>1, <1>3, <1>6 DEF TicketInv, TicketTypes
<1>14. PartsInv'
  <2>1. \A u \in Worked(working) : u \in Worked(working')
    BY <1>8, <1>11
  <2> QED BY <1>1, <2>1 DEF TicketInv, PartsInv
<1> QED BY <1>12, <1>13, <1>14 DEF TicketInv

\* A worker goes on with its message.
LEMMA SameWorker ==
  ASSUME TicketInv, NEW w \in working, NEW v \in HeldRecs, v.ticket = w.ticket,
         working' = (working \ {w}) \cup {v}
  PROVE  Worked(working') = Worked(working) /\ OnceWorked(working') /\ working' \in SUBSET HeldRecs
<1>1. working \in SUBSET HeldRecs /\ OnceWorked(working)
  BY DEF TicketInv, TicketTypes, Parted
<1>2. Worked(working') = Worked(working)
  BY DEF Worked
<1>3. OnceWorked(working')
  BY <1>1 DEF OnceWorked
<1> QED BY <1>1, <1>2, <1>3

\* A document without a ticket is reported, by the stream or for a configuration.
LEMMA TicketlessDoc ==
  ASSUME TicketInv, NEW x \in DocRecs, x.ticket = 0, grpcDone' = Append(grpcDone, x),
         UNCHANGED <<chatTicket, grpcTasks, working, chatResults, takenTickets, droppedTickets, chatPartials>>
  PROVE  TicketInv'
<1>1. grpcDone \in Seq(DocRecs) /\ OnceFinal(grpcDone) /\ 0 \notin Finals(grpcDone)
  BY DEF TicketInv, TicketTypes, Parted, Finals
<1>2. Finals(grpcDone') = Finals(grpcDone) /\ OnceFinal(grpcDone')
  <2>1. /\ Finals(grpcDone') = IF x.what = "final" THEN (Finals(grpcDone) \cup {0}) \ {0} ELSE Finals(grpcDone)
        /\ OnceFinal(grpcDone')
    BY <1>1, FinalsAppend
  <2> QED BY <1>1, <2>1
<1>3. Closed' = Closed
  BY DEF Closed
<1>4. Parted'
  BY <1>2, <1>3 DEF TicketInv, Parted
<1>5. TicketTypes'
  BY <1>1, AppendTo DEF TicketInv, TicketTypes
<1>6. PartsInv'
  <2>1. x.what # "partial"
    BY DEF DocRecs
  <2>2. /\ \A i \in 1..Len(grpcDone) : grpcDone'[i] = grpcDone[i] /\ i \in 1..Len(grpcDone')
        /\ \A i \in 1..Len(grpcDone') : i \in 1..Len(grpcDone) \/ grpcDone'[i] = x
    BY <1>1, AppendTo
  <2> QED BY <2>1, <2>2 DEF TicketInv, PartsInv
<1> QED BY <1>4, <1>5, <1>6 DEF TicketInv

\* A worker reports a part of an answer.
LEMMA TicketReported ==
  ASSUME TicketInv, NEW w, ReportPartial(w)
  PROVE  TicketInv'
<1> DEFINE x == [cmd |-> "Chat", ticket |-> w.ticket, what |-> "partial"]
           v == [w EXCEPT !.sent = @ + 1]
<1>1. /\ w \in working /\ w.cmd = "Chat" /\ working' = (working \ {w}) \cup {v}
      /\ grpcDone' = Append(grpcDone, x)
      /\ UNCHANGED <<chatTicket, grpcTasks, chatResults, takenTickets, droppedTickets, chatPartials>>
  BY DEF ReportPartial, ticketVars
<1>2. w \in HeldRecs
  BY <1>1 DEF TicketInv, TicketTypes
<1>3. w.ticket \in Nat /\ w.ticket # 0
  BY <1>1, <1>2 DEF HeldRecs
<1>4. v \in HeldRecs /\ v.ticket = w.ticket
  BY <1>2 DEF HeldRecs
<1>5. x \in DocRecs /\ x.what = "partial" /\ x.ticket = w.ticket
  BY <1>3 DEF DocRecs, Cmds
<1>6. w.ticket \in Worked(working)
  BY <1>1, <1>3 DEF Worked
<1> HIDE DEF x, v
<1>7. Worked(working') = Worked(working) /\ OnceWorked(working') /\ working' \in SUBSET HeldRecs
  BY <1>1, <1>4, SameWorker
<1>8. grpcDone \in Seq(DocRecs) /\ OnceFinal(grpcDone)
  BY DEF TicketInv, TicketTypes, Parted
<1>9. Finals(grpcDone') = Finals(grpcDone) /\ OnceFinal(grpcDone')
  BY <1>1, <1>5, <1>8, FinalsAppend
<1>10. Closed' = Closed
  BY <1>1 DEF Closed
<1>11. Parted'
  BY <1>1, <1>7, <1>9, <1>10 DEF TicketInv, Parted
<1>12. TicketTypes'
  BY <1>1, <1>5, <1>7, <1>8, AppendTo DEF TicketInv, TicketTypes
<1>13. PartsInv'
  <2>1. /\ \A i \in 1..Len(grpcDone) : grpcDone'[i] = grpcDone[i] /\ i \in 1..Len(grpcDone')
        /\ \A i \in 1..Len(grpcDone') : i \in 1..Len(grpcDone) \/ grpcDone'[i] = x
    BY <1>1, <1>5, <1>8, AppendTo
  <2> QED BY <1>1, <1>5, <1>6, <1>7, <2>1 DEF TicketInv, PartsInv
<1> QED BY <1>11, <1>12, <1>13 DEF TicketInv

\* pretzel-ai takes a configuration; the worker keeps the message.
LEMMA TicketApplied ==
  ASSUME TicketInv, NEW w, Apply(w)
  PROVE  TicketInv'
<1> DEFINE v == [w EXCEPT !.applied = TRUE]
<1>1. /\ w \in working /\ working' = (working \ {w}) \cup {v}
      /\ UNCHANGED <<chatTicket, grpcTasks, grpcDone, chatResults, takenTickets, droppedTickets, chatPartials>>
  BY DEF Apply, ticketVars
<1>2. w \in HeldRecs
  BY <1>1 DEF TicketInv, TicketTypes
<1>3. v \in HeldRecs /\ v.ticket = w.ticket
  BY <1>2 DEF HeldRecs
<1> HIDE DEF v
<1>4. Worked(working') = Worked(working) /\ OnceWorked(working') /\ working' \in SUBSET HeldRecs
  BY <1>1, <1>3, SameWorker
<1>5. Closed' = Closed
  BY <1>1 DEF Closed
<1>6. Parted'
  BY <1>1, <1>4, <1>5 DEF TicketInv, Parted
<1>7. TicketTypes'
  BY <1>1, <1>4 DEF TicketInv, TicketTypes
<1>8. PartsInv'
  BY <1>1, <1>4 DEF TicketInv, PartsInv
<1> QED BY <1>6, <1>7, <1>8 DEF TicketInv

\* A call ends: its one last document is reported after every part.
LEMMA TicketAnswered ==
  ASSUME TicketInv, NEW w, RunUnary(w)
  PROVE  TicketInv'
<1> DEFINE x == [cmd |-> w.cmd, ticket |-> w.ticket, what |-> "final"]
<1>1. /\ w \in working /\ working' = working \ {w} /\ grpcDone' = Append(grpcDone, x)
      /\ UNCHANGED <<chatTicket, grpcTasks, chatResults, takenTickets, droppedTickets, chatPartials>>
  BY DEF RunUnary, ticketVars
<1>2. w \in HeldRecs /\ working \in SUBSET HeldRecs /\ OnceWorked(working)
      /\ grpcDone \in Seq(DocRecs) /\ OnceFinal(grpcDone)
  BY <1>1 DEF TicketInv, TicketTypes, Parted
<1>3. x \in DocRecs /\ x.what = "final" /\ x.ticket = w.ticket
  BY <1>2 DEF HeldRecs, DocRecs, Cmds
<1> HIDE DEF x
<1>4. Worked(working') = Worked(working) \ {w.ticket} /\ OnceWorked(working')
      /\ (w.ticket # 0 => w.ticket \in Worked(working))
  BY <1>1, <1>2 DEF Worked, OnceWorked
<1>5. 0 \notin Worked(working) /\ 0 \notin Finals(grpcDone)
  BY DEF Worked, Finals
<1>6. w.ticket \notin Finals(grpcDone)
  BY <1>4, <1>5 DEF TicketInv, Parted, Apart
<1>7. Finals(grpcDone') = (Finals(grpcDone) \cup {w.ticket}) \ {0} /\ OnceFinal(grpcDone')
  BY <1>1, <1>2, <1>3, <1>6, FinalsAppend
<1>8. Closed' = Closed
  BY <1>1 DEF Closed
<1>9. Parted'
  <2>1. CASE w.ticket = 0
    <3>1. Finals(grpcDone') = Finals(grpcDone) /\ Worked(working') = Worked(working)
      BY <1>4, <1>5, <1>7, <2>1
    <3> QED BY <1>1, <1>4, <1>7, <1>8, <3>1 DEF TicketInv, Parted
  <2>2. CASE w.ticket # 0
    <3>1. Finals(grpcDone') = Finals(grpcDone) \cup {w.ticket} /\ w.ticket \in Worked(working)
      BY <1>4, <1>5, <1>7, <2>2
    <3>2. Worked(working') \cup Finals(grpcDone') = Worked(working) \cup Finals(grpcDone)
      BY <1>4, <3>1
    <3>3. w.ticket \notin Queued(grpcTasks) \cup chatResults \cup Closed
      BY <3>1 DEF TicketInv, Parted, Apart
    <3>4. /\ Apart(Queued(grpcTasks), Worked(working')) /\ Apart(Queued(grpcTasks), Finals(grpcDone'))
          /\ Apart(Worked(working'), Finals(grpcDone')) /\ Apart(Worked(working'), chatResults)
          /\ Apart(Worked(working'), Closed)
          /\ Apart(Finals(grpcDone'), chatResults) /\ Apart(Finals(grpcDone'), Closed)
      BY <1>4, <3>1, <3>3 DEF TicketInv, Parted, Apart
    <3> QED BY <1>1, <1>4, <1>7, <1>8, <3>2, <3>4 DEF TicketInv, Parted
  <2> QED BY <2>1, <2>2
<1>10. TicketTypes'
  BY <1>1, <1>2, <1>3, AppendTo DEF TicketInv, TicketTypes
<1>11. PartsInv'
  <2>1. /\ \A i \in 1..Len(grpcDone) : grpcDone'[i] = grpcDone[i] /\ i \in 1..Len(grpcDone')
                                       /\ Len(grpcDone) + 1 > i
        /\ \A i \in 1..Len(grpcDone') : i \in 1..Len(grpcDone) \/ grpcDone'[i] = x
        /\ Len(grpcDone) + 1 \in 1..Len(grpcDone') /\ grpcDone'[Len(grpcDone) + 1] = x
    BY <1>1, <1>2, <1>3, AppendTo
  <2>2. ASSUME NEW i \in 1..Len(grpcDone'), grpcDone'[i].what = "partial"
        PROVE  \/ grpcDone'[i].ticket \in Worked(working')
               \/ \E j \in 1..Len(grpcDone') : /\ j > i /\ grpcDone'[j].what = "final"
                                               /\ grpcDone'[j].ticket = grpcDone'[i].ticket
    <3>1. i \in 1..Len(grpcDone) /\ grpcDone'[i] = grpcDone[i]
      BY <1>3, <2>1, <2>2
    <3>2. CASE grpcDone[i].ticket \in Worked(working)
      BY <1>3, <1>4, <2>1, <3>1, <3>2
    <3>3. CASE grpcDone[i].ticket \notin Worked(working)
      BY <2>1, <2>2, <3>1, <3>3 DEF TicketInv, PartsInv
    <3> QED BY <3>2, <3>3
  <2>3. Apart(takenTickets', DOMAIN chatPartials')
    BY <1>1 DEF TicketInv, PartsInv
  <2> QED BY <2>2, <2>3 DEF PartsInv
<1> QED BY <1>9, <1>10, <1>11 DEF TicketInv

\* Delivering a document keeps the parts in front of their answers.
LEMMA PartsTail ==
  ASSUME TicketInv, grpcDone # <<>>, grpcDone' = Tail(grpcDone), UNCHANGED working
  PROVE  \A i \in 1..Len(grpcDone') : grpcDone'[i].what = "partial" =>
           \/ grpcDone'[i].ticket \in Worked(working')
           \/ \E j \in 1..Len(grpcDone') : /\ j > i /\ grpcDone'[j].what = "final"
                                           /\ grpcDone'[j].ticket = grpcDone'[i].ticket
<1>1. grpcDone \in Seq(DocRecs) /\ Len(grpcDone) \in Nat
  BY DEF TicketInv, TicketTypes
<1>2. /\ \A i \in 1..Len(grpcDone') : i + 1 \in 1..Len(grpcDone) /\ grpcDone'[i] = grpcDone[i + 1]
      /\ \A k \in 1..Len(grpcDone) : k # 1 => k - 1 \in 1..Len(grpcDone') /\ grpcDone'[k - 1] = grpcDone[k]
  BY <1>1, TailOf
<1> SUFFICES ASSUME NEW i \in 1..Len(grpcDone'), grpcDone'[i].what = "partial",
                    grpcDone'[i].ticket \notin Worked(working')
             PROVE  \E j \in 1..Len(grpcDone') : /\ j > i /\ grpcDone'[j].what = "final"
                                                 /\ grpcDone'[j].ticket = grpcDone'[i].ticket
  OBVIOUS
<1>3. i + 1 \in 1..Len(grpcDone) /\ grpcDone'[i] = grpcDone[i + 1]
  BY <1>2
<1>4. PICK k \in 1..Len(grpcDone) : /\ k > i + 1 /\ grpcDone[k].what = "final"
                                    /\ grpcDone[k].ticket = grpcDone[i + 1].ticket
  BY <1>3 DEF TicketInv, PartsInv
<1>5. k # 1 /\ k - 1 > i
  <2>1. k > i + 1
    BY <1>4, Zenon
  <2>2. i \in Nat /\ k \in Nat /\ i >= 1
    BY <1>1, <1>3
  <2> QED BY <2>1, <2>2
<1>6. k - 1 \in 1..Len(grpcDone') /\ grpcDone'[k - 1] = grpcDone[k]
  BY <1>2, <1>5
<1> QED BY <1>3, <1>4, <1>5, <1>6

\* The loop delivers one document.
LEMMA TicketDelivered ==
  ASSUME TicketInv, Dispatch
  PROVE  TicketInv'
<1> DEFINE results == IF Cardinality(chatResults) > HeldAnswers THEN {} ELSE chatResults
           partials == Bounded(chatPartials)
<1>1. /\ grpcDone # <<>> /\ grpcDone' = Tail(grpcDone)
      /\ UNCHANGED <<chatTicket, takenTickets, grpcTasks, working>>
  BY DEF Dispatch
<1>2. grpcDone \in Seq(DocRecs) /\ OnceFinal(grpcDone) /\ 0 \notin Finals(grpcDone)
  BY DEF TicketInv, TicketTypes, Parted, Finals
<1>3. PICK d \in DocRecs : d = Head(grpcDone)
  BY <1>1, <1>2, TailOf
<1>4. /\ Finals(grpcDone') = IF d.what = "final" THEN Finals(grpcDone) \ {d.ticket} ELSE Finals(grpcDone)
      /\ OnceFinal(grpcDone')
      /\ d.what = "final" /\ d.ticket # 0 => d.ticket \in Finals(grpcDone)
  BY <1>1, <1>2, <1>3, FinalsTail
<1>5. grpcDone' \in Seq(DocRecs) /\ TicketTypes'
  BY <1>1, <1>2, TailOf DEF TicketInv, TicketTypes
<1>6. CASE /\ d.what = "partial"
           /\ chatPartials' = With(partials, d.ticket,
                IF d.ticket \in DOMAIN partials THEN partials[d.ticket] + 1 ELSE 1)
           /\ UNCHANGED <<chatResults, droppedTickets>>
  <2>1. Finals(grpcDone') = Finals(grpcDone) /\ Closed' = Closed
    BY <1>1, <1>4, <1>6 DEF Closed
  <2>2. Parted'
    BY <1>1, <1>4, <1>6, <2>1 DEF TicketInv, Parted
  <2>3. DOMAIN partials \subseteq DOMAIN chatPartials
    BY DEF Bounded
  <2>4. DOMAIN chatPartials' \subseteq DOMAIN chatPartials \cup {d.ticket}
    BY <1>6, <2>3 DEF With
  <2>5. d.ticket \notin takenTickets
    <3>1. 1 \in 1..Len(grpcDone) /\ grpcDone[1] = d /\ d.ticket # 0
      BY <1>1, <1>2, <1>3, <1>6, TailOf DEF DocRecs
    <3>2. d.ticket \in Worked(working) \/ d.ticket \in Finals(grpcDone)
      BY <1>6, <3>1 DEF TicketInv, PartsInv, Finals
    <3> QED BY <3>2 DEF TicketInv, Parted, Apart, Closed
  <2>6. Apart(takenTickets', DOMAIN chatPartials')
    BY <1>1, <2>4, <2>5 DEF TicketInv, PartsInv, Apart
  <2>7. PartsInv'
    BY <1>1, <2>6, PartsTail DEF PartsInv
  <2> QED BY <1>5, <2>2, <2>7 DEF TicketInv
<1>7. CASE /\ d.what = "final" /\ d.cmd \in {"Chat", "Read"}
           /\ chatResults' = results \cup {d.ticket}
           /\ droppedTickets' = droppedTickets \cup (chatResults \ results)
           /\ UNCHANGED chatPartials
  <2>1. d.ticket \in Finals(grpcDone) /\ Finals(grpcDone') = Finals(grpcDone) \ {d.ticket}
    BY <1>4, <1>7 DEF DocRecs
  <2>2. results \subseteq chatResults
    OBVIOUS
  <2>3. Closed' = Closed \cup (chatResults \ results)
    BY <1>1, <1>7 DEF Closed
  <2> HIDE DEF results
  <2>4. d.ticket \notin Queued(grpcTasks) \cup Worked(working) \cup chatResults \cup Closed
    BY <2>1 DEF TicketInv, Parted, Apart
  <2>5. Finals(grpcDone') \cup chatResults' \cup Closed' = Finals(grpcDone) \cup chatResults \cup Closed
    BY <1>7, <2>1, <2>2, <2>3
  <2>6. /\ Apart(Queued(grpcTasks), Finals(grpcDone')) /\ Apart(Queued(grpcTasks), chatResults')
        /\ Apart(Queued(grpcTasks), Closed')
    BY <1>7, <2>1, <2>2, <2>3, <2>4 DEF TicketInv, Parted, Apart
  <2>7. /\ Apart(Worked(working), Finals(grpcDone')) /\ Apart(Worked(working), chatResults')
        /\ Apart(Worked(working), Closed')
    BY <1>7, <2>1, <2>2, <2>3, <2>4 DEF TicketInv, Parted, Apart
  <2>8. /\ Apart(Finals(grpcDone'), chatResults') /\ Apart(Finals(grpcDone'), Closed')
        /\ Apart(chatResults', Closed')
    BY <1>7, <2>1, <2>2, <2>3, <2>4 DEF TicketInv, Parted, Apart
  <2>9. Queued(grpcTasks) \cup Worked(working) \cup Finals(grpcDone') \cup chatResults' \cup Closed'
          = 1..(chatTicket - 1)
    BY <2>5 DEF TicketInv, Parted
  <2>10. Parted'
    BY <1>1, <1>4, <2>6, <2>7, <2>8, <2>9 DEF TicketInv, Parted
  <2>11. PartsInv'
    BY <1>1, <1>7, PartsTail DEF TicketInv, PartsInv
  <2> QED BY <1>5, <2>10, <2>11 DEF TicketInv
<1>8. CASE d.cmd \in {"Refresh", "Run", "Apply"} /\ UNCHANGED <<chatResults, chatPartials, droppedTickets>>
  <2>1. d.ticket = 0
    BY <1>8 DEF DocRecs
  <2>2. Finals(grpcDone') = Finals(grpcDone) /\ Closed' = Closed
    BY <1>1, <1>2, <1>4, <1>8, <2>1 DEF Closed
  <2>3. Parted'
    BY <1>1, <1>4, <1>8, <2>2 DEF TicketInv, Parted
  <2>4. PartsInv'
    BY <1>1, <1>8, PartsTail DEF TicketInv, PartsInv
  <2> QED BY <1>5, <2>3, <2>4 DEF TicketInv
<1> HIDE DEF results, partials
<1> QED BY <1>3, <1>6, <1>7, <1>8 DEF Dispatch, results, partials

\* A browser reads the answer: the ticket is closed and nothing is held for it.
LEMMA TicketRead ==
  ASSUME TicketInv, NEW t, Result(t)
  PROVE  TicketInv'
<1>1. /\ t \in chatResults /\ chatResults' = chatResults \ {t} /\ takenTickets' = takenTickets \cup {t}
      /\ chatPartials' = Without(chatPartials, t)
      /\ UNCHANGED <<chatTicket, droppedTickets, grpcTasks, working, grpcDone>>
  BY DEF Result
<1>2. Closed' = Closed \cup {t}
  BY <1>1 DEF Closed
<1>3. t \notin Queued(grpcTasks) \cup Worked(working) \cup Finals(grpcDone)
  BY <1>1 DEF TicketInv, Parted, Apart
<1>4. chatResults' \cup Closed' = chatResults \cup Closed
  BY <1>1, <1>2
<1>5. /\ Apart(Queued(grpcTasks), chatResults') /\ Apart(Queued(grpcTasks), Closed')
      /\ Apart(Worked(working), chatResults') /\ Apart(Worked(working), Closed')
      /\ Apart(Finals(grpcDone), chatResults') /\ Apart(Finals(grpcDone), Closed')
      /\ Apart(chatResults', Closed')
  BY <1>1, <1>2, <1>3 DEF TicketInv, Parted, Apart
<1>6. Queued(grpcTasks) \cup Worked(working) \cup Finals(grpcDone) \cup chatResults' \cup Closed'
        = 1..(chatTicket - 1)
  BY <1>4 DEF TicketInv, Parted
<1>7. Parted'
  BY <1>1, <1>5, <1>6 DEF TicketInv, Parted
<1>8. DOMAIN chatPartials' = DOMAIN chatPartials \ {t}
  BY <1>1 DEF Without
<1>9. PartsInv'
  BY <1>1, <1>8 DEF TicketInv, PartsInv, Apart
<1>10. TicketTypes'
  BY <1>1 DEF TicketInv, TicketTypes
<1> QED BY <1>7, <1>9, <1>10 DEF TicketInv

-----------------------------------------------------------------------------
(* The stream thread and the refresh.                                      *)

Streams == [cmd : {"none", "Refresh", "Run"}, phase : {"none", "reading", "ended", "thrown"},
            sawFinal : BOOLEAN, cancelled : BOOLEAN, sent : Nat]

\* The message that ends a refresh is on its way.
EndComes == \E i \in 1..Len(grpcDone) : grpcDone[i].cmd = "Refresh" /\ Ends(grpcDone[i])

\* The flag of the thread says what the thread does, and a refresh is running
\* because its stream has yet to say final, because its exception has yet to be
\* reported, or because the message that ends it is queued.
RefreshInv ==
  /\ stream \in Streams
  /\ stream.phase # "none" => stream.cmd # "none"
  /\ streaming \in BOOLEAN
  /\ streaming <=> stream.phase \in {"reading", "ended"}
  /\ refreshing =>
       \/ stream.cmd = "Refresh" /\ stream.phase = "reading" /\ ~stream.sawFinal
       \/ stream.cmd = "Refresh" /\ stream.phase = "thrown"
       \/ EndComes

\* A report does not take the end away, and one that ends brings it.
LEMMA EndReported ==
  ASSUME grpcDone \in Seq(DocRecs), NEW x \in DocRecs, grpcDone' = Append(grpcDone, x)
  PROVE  /\ EndComes => EndComes'
         /\ x.cmd = "Refresh" /\ x.what = "final" => EndComes'
<1>1. /\ \A i \in 1..Len(grpcDone) : grpcDone'[i] = grpcDone[i] /\ i \in 1..Len(grpcDone')
      /\ Len(grpcDone) + 1 \in 1..Len(grpcDone') /\ grpcDone'[Len(grpcDone) + 1] = x
  BY AppendTo
<1> QED BY <1>1 DEF EndComes, Ends

\* The documents of the stream thread have no ticket.
LEMMA StreamDocs ==
  ASSUME NEW c \in {"Refresh", "Run"}
  PROVE  /\ UnreachableDoc(c) \in DocRecs /\ UnreachableDoc(c).ticket = 0 /\ UnreachableDoc(c).cmd = c
         /\ c = "Refresh" => UnreachableDoc(c).what = "final"
         /\ \A x \in {"progress", "case", "final"} :
              [cmd |-> c, ticket |-> 0, what |-> x] \in DocRecs
BY DEF UnreachableDoc, DocRecs, Cmds

\* What the steps of the stream thread and its two callers do to the documents.
LEMMA StreamReports ==
  ASSUME RefreshInv, StreamNext
  PROVE  /\ UNCHANGED <<chatTicket, chatResults, chatPartials, chatContexts, takenTickets, droppedTickets,
                        grpcTasks, working, toChat, chatSessions, chatMessages, aiKey, aiSaved, served,
                        spoiled, keyDropped>>
         /\ \/ UNCHANGED grpcDone
            \/ \E x \in DocRecs : x.ticket = 0 /\ grpcDone' = Append(grpcDone, x)
<1> USE DEF ticketVars, storeVars, pushVars
<1>1. CASE Refresh
  <2>1. UNCHANGED grpcDone \/ grpcDone' = Append(grpcDone, UnreachableDoc("Refresh"))
    BY <1>1 DEF Refresh, Egress
  <2> QED BY <1>1, <2>1, StreamDocs DEF Refresh
<1>2. CASE RunStart
  <2>1. UNCHANGED grpcDone \/ grpcDone' = Append(grpcDone, UnreachableDoc("Run"))
    BY <1>2 DEF RunStart, Egress
  <2> QED BY <1>2, <2>1, StreamDocs DEF RunStart
<1>3. CASE RunProgress \/ \E c \in {"Refresh", "Run"} : Cancel(c)
  BY <1>3 DEF RunProgress, Cancel
<1>4. ASSUME NEW x \in {"progress", "case", "final"}, StreamProgress(x)
      PROVE  /\ UNCHANGED <<chatTicket, chatResults, chatPartials, chatContexts, takenTickets, droppedTickets,
                            grpcTasks, working, toChat, chatSessions, chatMessages, aiKey, aiSaved,
                            served, spoiled, keyDropped>>
             /\ \E y \in DocRecs : y.ticket = 0 /\ grpcDone' = Append(grpcDone, y)
  <2>1. stream.cmd \in {"Refresh", "Run"}
    BY <1>4 DEF StreamProgress, RefreshInv, Streams
  <2>2. PICK y : y = [cmd |-> stream.cmd, ticket |-> 0, what |-> x]
    OBVIOUS
  <2>3. y \in DocRecs /\ y.ticket = 0
    BY <2>1, <2>2, StreamDocs
  <2> QED BY <1>4, <2>2, <2>3 DEF StreamProgress
<1>5. CASE StreamFinish
  <2>1. stream.cmd \in {"Refresh", "Run"}
    BY <1>5 DEF StreamFinish, RefreshInv, Streams
  <2>2. PICK y : y = [cmd |-> stream.cmd, ticket |-> 0, what |-> "final"]
    OBVIOUS
  <2>3. y \in DocRecs /\ y.ticket = 0
    BY <2>1, <2>2, StreamDocs
  <2>4. \/ grpcDone' = grpcDone \/ grpcDone' = Append(grpcDone, y)
        \/ grpcDone' = Append(grpcDone, UnreachableDoc(stream.cmd))
    BY <1>5, <2>2 DEF StreamFinish, StreamEnd
  <2> QED BY <1>5, <2>1, <2>3, <2>4, StreamDocs DEF StreamFinish
<1>6. CASE StreamClear \/ StreamThrow
  BY <1>6 DEF StreamClear, StreamThrow
<1>7. CASE StreamCatch
  <2>1. stream.cmd \in {"Refresh", "Run"}
    BY <1>7 DEF StreamCatch, RefreshInv, Streams
  <2> QED BY <1>7, <2>1, StreamDocs DEF StreamCatch
<1> QED BY <1>1, <1>2, <1>3, <1>4, <1>5, <1>6, <1>7 DEF StreamNext

\* Streams and their callers keep the refresh tracked.
LEMMA RefreshStreams ==
  ASSUME grpcDone \in Seq(DocRecs), RefreshInv, StreamNext
  PROVE  RefreshInv'
<1>1. \/ UNCHANGED grpcDone
      \/ \E x \in DocRecs : x.ticket = 0 /\ grpcDone' = Append(grpcDone, x)
  BY StreamReports
<1>2. EndComes => EndComes'
  BY <1>1, EndReported DEF EndComes
<1>3. CASE Refresh
  <2>1. CASE streaming
    <3>1. grpcDone' = Append(grpcDone, UnreachableDoc("Refresh")) /\ UNCHANGED <<streaming, stream>>
      BY <1>3, <2>1 DEF Refresh, Egress
    <3>2. EndComes'
      BY <3>1, StreamDocs, EndReported
    <3> QED BY <3>1, <3>2 DEF RefreshInv
  <2>2. CASE ~streaming
    <3>1. streaming' = TRUE /\ stream' = [NoStream EXCEPT !.cmd = "Refresh", !.phase = "reading"]
      BY <1>3, <2>2 DEF Refresh, Egress
    <3>2. stream' \in Streams /\ stream'.cmd = "Refresh" /\ stream'.phase = "reading" /\ ~stream'.sawFinal
      BY <3>1 DEF NoStream, Streams
    <3> QED BY <3>1, <3>2 DEF RefreshInv
  <2> QED BY <2>1, <2>2
<1>4. CASE RunStart
  <2>1. UNCHANGED refreshing
    BY <1>4 DEF RunStart
  <2>2. CASE streaming
    <3>1. UNCHANGED <<streaming, stream>>
      BY <1>4, <2>2 DEF RunStart, Egress
    <3> QED BY <1>2, <2>1, <3>1 DEF RefreshInv
  <2>3. CASE ~streaming
    <3>1. streaming' = TRUE /\ stream' = [NoStream EXCEPT !.cmd = "Run", !.phase = "reading"]
      BY <1>4, <2>3 DEF RunStart, Egress
    <3>2. stream' \in Streams /\ stream'.cmd = "Run" /\ stream'.phase = "reading"
      BY <3>1 DEF NoStream, Streams
    <3>3. stream.phase # "thrown" /\ stream.phase # "reading"
      BY <1>4, <2>3 DEF RunStart, CanJoin, RefreshInv
    <3> QED BY <1>2, <2>1, <3>1, <3>2, <3>3 DEF RefreshInv
  <2> QED BY <2>2, <2>3
<1>5. CASE RunProgress
  BY <1>2, <1>5 DEF RunProgress, RefreshInv
<1>6. ASSUME NEW c \in {"Refresh", "Run"}, Cancel(c) PROVE RefreshInv'
  <2>1. stream' = [stream EXCEPT !.cancelled = TRUE] /\ UNCHANGED <<streaming, refreshing>>
    BY <1>6 DEF Cancel
  <2>2. /\ stream' \in Streams /\ stream'.cmd = stream.cmd /\ stream'.phase = stream.phase
        /\ stream'.sawFinal = stream.sawFinal
    BY <2>1 DEF RefreshInv, Streams
  <2> QED BY <1>2, <2>1, <2>2 DEF RefreshInv
<1>7. ASSUME NEW x \in {"progress", "case", "final"}, StreamProgress(x) PROVE RefreshInv'
  <2>1. PICK b \in BOOLEAN :
          /\ stream.phase = "reading" /\ UNCHANGED <<streaming, refreshing>>
          /\ x = "case" => stream.cmd = "Run"
          /\ b => x = "case"
          /\ stream' = [stream EXCEPT !.sent = @ + 1, !.sawFinal = @ \/ x = "final" \/ b]
          /\ grpcDone' = Append(grpcDone, [cmd |-> stream.cmd, ticket |-> 0, what |-> x])
    BY <1>7 DEF StreamProgress
  <2>2. /\ stream' \in Streams /\ stream'.cmd = stream.cmd /\ stream'.phase = stream.phase
        /\ stream.cmd = "Refresh" => (stream'.sawFinal <=> stream.sawFinal \/ x = "final")
    <3>1. stream \in Streams
      BY DEF RefreshInv
    <3>2. PICK c \in BOOLEAN : c <=> (stream.sawFinal \/ x = "final" \/ b)
      OBVIOUS
    <3>3. c = (stream.sawFinal \/ x = "final" \/ b)
      BY <3>2
    <3>4. stream' = [[stream EXCEPT !.sent = @ + 1] EXCEPT !.sawFinal = c]
      <4>1. [stream EXCEPT !.sent = @ + 1].sawFinal = stream.sawFinal
        BY <3>1 DEF Streams
      <4> QED BY <2>1, <3>3, <4>1
    <3>5. PICK mid \in Streams : /\ mid = [stream EXCEPT !.sent = @ + 1]
                                 /\ mid.cmd = stream.cmd /\ mid.phase = stream.phase
      <4>1. [stream EXCEPT !.sent = @ + 1] \in Streams
        BY <3>1 DEF Streams
      <4> QED BY <3>1, <4>1 DEF Streams
    <3>6. stream' = [mid EXCEPT !.sawFinal = c]
      BY <3>4, <3>5
    <3>7. /\ stream' \in Streams /\ stream'.cmd = mid.cmd /\ stream'.phase = mid.phase
          /\ stream'.sawFinal = c
      BY <3>6 DEF Streams
    <3>8. stream.cmd = "Refresh" => ~b
      BY <2>1
    <3> QED BY <3>2, <3>5, <3>7, <3>8
  <2>3. stream.cmd \in {"Refresh", "Run"}
    BY <2>1 DEF RefreshInv, Streams
  <2>4. x = "final" /\ stream.cmd = "Refresh" => EndComes'
    <3>1. PICK y : y = [cmd |-> stream.cmd, ticket |-> 0, what |-> x]
      OBVIOUS
    <3>2. y \in DocRecs /\ y.cmd = stream.cmd /\ y.what = x
      BY <2>3, <3>1, StreamDocs
    <3> QED BY <2>1, <3>1, <3>2, EndReported
  <2> QED BY <1>2, <2>1, <2>2, <2>4 DEF RefreshInv
<1>8. CASE StreamFinish
  <2>1. /\ stream.phase = "reading" /\ UNCHANGED <<streaming, refreshing>>
        /\ stream' = [stream EXCEPT !.phase = "ended"]
        /\ grpcDone' = StreamEnd(stream.cmd = "Refresh")
    BY <1>8 DEF StreamFinish
  <2>2. stream' \in Streams /\ stream'.cmd = stream.cmd /\ stream'.phase = "ended"
    BY <2>1 DEF RefreshInv, Streams
  <2>3. stream.cmd = "Refresh" /\ ~stream.sawFinal => EndComes'
    <3> SUFFICES ASSUME stream.cmd = "Refresh", ~stream.sawFinal PROVE EndComes'
      OBVIOUS
    <3>1. PICK y : y = [cmd |-> "Refresh", ticket |-> 0, what |-> "final"]
      OBVIOUS
    <3>2. y \in DocRecs /\ y.cmd = "Refresh" /\ y.what = "final"
      BY <3>1, StreamDocs
    <3>3. grpcDone' = Append(grpcDone, y) \/ grpcDone' = Append(grpcDone, UnreachableDoc("Refresh"))
      BY <2>1, <3>1 DEF StreamEnd
    <3> QED BY <3>2, <3>3, StreamDocs, EndReported
  <2> QED BY <1>2, <2>1, <2>2, <2>3 DEF RefreshInv
<1>9. CASE StreamClear
  <2>1. stream.phase = "ended" /\ stream' = NoStream /\ streaming' = FALSE /\ UNCHANGED refreshing
    BY <1>9 DEF StreamClear
  <2>2. stream' \in Streams /\ stream'.phase = "none"
    BY <2>1 DEF NoStream, Streams
  <2> QED BY <1>2, <2>1, <2>2 DEF RefreshInv
<1>10. CASE StreamThrow
  <2>1. /\ stream.phase = "reading" /\ UNCHANGED refreshing /\ streaming' = FALSE
        /\ stream' = [stream EXCEPT !.phase = "thrown"]
    BY <1>10 DEF StreamThrow
  <2>2. stream' \in Streams /\ stream'.cmd = stream.cmd /\ stream'.phase = "thrown"
    BY <2>1 DEF RefreshInv, Streams
  <2> QED BY <1>2, <2>1, <2>2 DEF RefreshInv
<1>11. CASE StreamCatch
  <2>1. /\ stream.phase = "thrown" /\ stream' = NoStream /\ UNCHANGED <<streaming, refreshing>>
        /\ grpcDone' = Append(grpcDone, UnreachableDoc(stream.cmd))
    BY <1>11 DEF StreamCatch
  <2>2. stream' \in Streams /\ stream'.phase = "none"
    BY <2>1 DEF NoStream, Streams
  <2>3. stream.cmd = "Refresh" => EndComes'
    BY <2>1, StreamDocs, EndReported
  <2> QED BY <1>2, <2>1, <2>2, <2>3 DEF RefreshInv
<1> QED BY <1>3, <1>4, <1>5, <1>6, <1>7, <1>8, <1>9, <1>10, <1>11 DEF StreamNext

\* A step of the pool reports at most a document of its own.
LEMMA RefreshReported ==
  ASSUME grpcDone \in Seq(DocRecs), RefreshInv, UNCHANGED <<streaming, stream, refreshing>>,
         \/ UNCHANGED grpcDone
         \/ \E x \in DocRecs : grpcDone' = Append(grpcDone, x)
  PROVE  RefreshInv'
<1>1. EndComes => EndComes'
  BY EndReported DEF EndComes
<1> QED BY <1>1 DEF RefreshInv

\* The loop delivers a document; the one that ends a refresh clears the flag.
LEMMA RefreshDelivered ==
  ASSUME grpcDone \in Seq(DocRecs), RefreshInv, Dispatch
  PROVE  RefreshInv'
<1>1. grpcDone # <<>> /\ grpcDone' = Tail(grpcDone) /\ UNCHANGED <<streaming, stream>>
  BY DEF Dispatch
<1>2. PICK d \in DocRecs : d = Head(grpcDone)
  BY <1>1, TailOf
<1>3. EndComes => EndComes' \/ (d.cmd = "Refresh" /\ Ends(d))
  <2> SUFFICES ASSUME NEW k \in 1..Len(grpcDone), grpcDone[k].cmd = "Refresh", Ends(grpcDone[k]),
                      ~(d.cmd = "Refresh" /\ Ends(d))
               PROVE  EndComes'
    BY DEF EndComes
  <2>1. k # 1
    BY <1>1, <1>2, TailOf
  <2>2. k - 1 \in 1..Len(grpcDone') /\ grpcDone'[k - 1] = grpcDone[k]
    BY <1>1, <2>1, TailOf
  <2> QED BY <2>2 DEF EndComes, Ends
<1>4. CASE d.cmd = "Refresh" /\ refreshing' = (refreshing /\ ~Ends(d))
  BY <1>1, <1>3, <1>4 DEF RefreshInv
<1>5. CASE d.cmd # "Refresh" /\ UNCHANGED refreshing
  BY <1>1, <1>3, <1>5 DEF RefreshInv
<1>6. d.what = "partial" => d.cmd = "Chat"
  BY DEF DocRecs
<1> QED BY <1>2, <1>4, <1>5, <1>6 DEF Dispatch

-----------------------------------------------------------------------------
(* What is stored, and the key of pretzel-ai.                              *)

\* The two halves of a turn are stored at even and odd places of a conversation.
QuestionRows == [oid : Nat \X {"user"}, session : Sessions, seq : Places]
AnswerRows == [oid : Nat \X {"assistant"}, session : Sessions, seq : {p + 1 : p \in Places}]

\* The answer of a question.
Answers(a, q) == a.oid = <<q.oid[1], "assistant">> /\ a.session = q.session /\ a.seq = q.seq + 1

TurnFrames == {f \in [kind : {"turn"}, session : Sessions, owner : Owners \cup {""},
                      question : QuestionRows, answer : AnswerRows] : Answers(f.answer, f.question)}
PageFrames == [kind : {"delete", "patch"}, session : Sessions, owner : Owners]
KeyFrames == [kind : {"key"}, key : Nat]
Frames == TurnFrames \cup PageFrames \cup KeyFrames

Contexts == [session : Sessions, owner : Owners \cup {""}, seq : Places]
Counts == [turns : Nat, reads : Nat, streams : Nat, pushes : Nat, faults : Nat]

DataTypes ==
  /\ chatCount \in Counts
  /\ aiKey \in Nat /\ aiSaved \in Nat /\ served \in Nat
  /\ toChat \in Seq(Frames)
  /\ \A t \in DOMAIN chatContexts : chatContexts[t] \in Contexts

\* Questions and answers are stored in pairs, both or neither.
PairsInv ==
  /\ chatMessages \in SUBSET (QuestionRows \cup AnswerRows)
  /\ \A q \in chatMessages \cap QuestionRows : \E a \in chatMessages \cap AnswerRows : Answers(a, q)
  /\ \A a \in chatMessages \cap AnswerRows : \E q \in chatMessages \cap QuestionRows : Answers(a, q)

\* The last key on its way to the table is the one saved last; with none on its
\* way the table has it, unless it was dropped.
KeySent ==
  /\ \A i \in 1..Len(toChat) : toChat[i].kind = "key" =>
       \/ toChat[i].key = aiSaved
       \/ \E j \in 1..Len(toChat) : j > i /\ toChat[j].kind = "key"
  /\ ~KeyOnItsWay /\ ~keyDropped => aiKey = aiSaved

\* Every configuration with the workers has the key saved last, and pretzel-ai
\* has it once they are done.
KeyGood ==
  /\ \A i \in 1..Len(grpcTasks) : grpcTasks[i].cmd = "Apply" => grpcTasks[i].key = aiSaved
  /\ \A w \in working : w.cmd = "Apply" => w.key = aiSaved /\ (w.applied => served = aiSaved)
  /\ ~Applying => served = aiSaved

\* The last push was a sound one: of a key being saved, or of the table's when
\* that was the key saved last.
Sound == ~spoiled /\ (keyDropped => KeyOnItsWay)

KeyInv == KeySent /\ (Sound => KeyGood)

ChatInv == TicketInv /\ RefreshInv /\ DataTypes /\ PairsInv /\ KeyInv

\* A counter goes up by one.
LEMMA CountedUp ==
  ASSUME chatCount \in Counts, NEW what \in {"turns", "reads", "streams", "pushes", "faults"},
         NEW bound, Counted(what, bound)
  PROVE  /\ chatCount' \in Counts
         /\ what # "faults" => chatCount'.faults = chatCount.faults
         /\ what = "faults" => chatCount'.faults # 0
BY DEF Counted, Counts

\* Putting into and taking from a map keeps what its values are.
LEMMA MapMoves ==
  ASSUME NEW f, NEW V, \A t \in DOMAIN f : f[t] \in V, NEW k
  PROVE  /\ \A t \in DOMAIN Without(f, k) : Without(f, k)[t] \in V
         /\ \A v \in V : \A t \in DOMAIN With(f, k, v) : With(f, k, v)[t] \in V
         /\ \A t \in DOMAIN Bounded(f) : Bounded(f)[t] \in V
<1>1. \A t \in DOMAIN Without(f, k) : Without(f, k)[t] \in V
  BY DEF Without
<1>2. \A v \in V : \A t \in DOMAIN With(f, k, v) : With(f, k, v)[t] \in V
  BY DEF With
<1>3. \A t \in DOMAIN Bounded(f) : Bounded(f)[t] \in V
  BY DEF Bounded
<1> QED BY <1>1, <1>2, <1>3

\* A turn's frame pairs its question with its answer.
LEMMA TurnFrameType ==
  ASSUME NEW ctx \in Contexts, NEW t \in Nat
  PROVE  TurnFrame(ctx, t) \in TurnFrames /\ TurnFrame(ctx, t) \in Frames
         /\ TurnFrame(ctx, t).kind = "turn"
<1> DEFINE q == [oid |-> <<t, "user">>, session |-> ctx.session, seq |-> ctx.seq]
           a == [oid |-> <<t, "assistant">>, session |-> ctx.session, seq |-> ctx.seq + 1]
           f == [kind |-> "turn", session |-> ctx.session, owner |-> ctx.owner, question |-> q, answer |-> a]
<1>1. ctx.session \in Sessions /\ ctx.owner \in Owners \cup {""} /\ ctx.seq \in Places
  BY DEF Contexts
<1>2. q \in QuestionRows /\ a \in AnswerRows
  BY <1>1 DEF QuestionRows, AnswerRows
<1>3. Answers(a, q)
  BY DEF Answers
<1>4. TurnFrame(ctx, t) = f
  BY DEF TurnFrame
<1> HIDE DEF q, a
<1>5. f \in TurnFrames /\ f.kind = "turn"
  BY <1>1, <1>2, <1>3 DEF TurnFrames
<1> QED BY <1>4, <1>5 DEF Frames

\* Frames are told apart by their kind.
LEMMA FrameKinds ==
  ASSUME NEW f \in Frames
  PROVE  /\ f.kind = "turn" => f \in TurnFrames
         /\ f.kind = "key" => f.key \in Nat
BY DEF Frames, TurnFrames, PageFrames, KeyFrames

\* A turn, a read, a browser's poll, a page action or a worker's report.
LEMMA DataTurns ==
  ASSUME TicketInv, DataTypes, TurnNext
  PROVE  DataTypes'
<1> USE DEF ticketVars, streamVars, storeVars, pushVars
<1>0. chatCount \in Counts /\ toChat \in Seq(Frames) /\ \A t \in DOMAIN chatContexts : chatContexts[t] \in Contexts
  BY DEF DataTypes
<1>1. ASSUME NEW s \in Sessions, NEW o \in Owners \cup {""}, NEW n \in Places, Send(s, o, n)
      PROVE  DataTypes'
  <2>1. PICK ctx \in Contexts : ctx = [session |-> s, owner |-> o, seq |-> n]
    BY DEF Contexts
  <2>2. PICK held : held = Bounded(chatContexts)
    OBVIOUS
  <2>3. chatContexts' = With(held, chatTicket, ctx)
    BY <1>1, <2>1, <2>2 DEF Send
  <2>4. \A t \in DOMAIN held : held[t] \in Contexts
    BY <1>0, <2>2, MapMoves
  <2>5. \A t \in DOMAIN chatContexts' : chatContexts'[t] \in Contexts
    BY <2>3, <2>4, MapMoves
  <2>6. chatCount' \in Counts
    BY <1>0, <1>1, CountedUp DEF Send
  <2> QED BY <1>1, <2>5, <2>6 DEF Send, DataTypes
<1>2. CASE Read
  <2>1. chatCount' \in Counts
    BY <1>0, <1>2, CountedUp DEF Read
  <2> QED BY <1>2, <2>1 DEF Read, DataTypes
<1>3. ASSUME NEW t \in chatResults, Result(t) PROVE DataTypes'
  <2>1. \A u \in DOMAIN chatContexts' : chatContexts'[u] \in Contexts
    BY <1>0, <1>3, MapMoves DEF Result
  <2>2. t \in Nat
    BY <1>3 DEF TicketInv, Parted, TicketTypes
  <2>3. toChat' \in Seq(Frames)
    <3>1. CASE t \in DOMAIN chatContexts /\ chatContexts[t].owner # ""
      <4>1. TurnFrame(chatContexts[t], t) \in Frames
        BY <1>0, <2>2, <3>1, TurnFrameType
      <4>2. toChat' = Append(toChat, TurnFrame(chatContexts[t], t))
        BY <1>3, <3>1 DEF Result
      <4> QED BY <1>0, <4>1, <4>2, AppendTo
    <3>2. CASE ~(t \in DOMAIN chatContexts /\ chatContexts[t].owner # "")
      BY <1>0, <1>3, <3>2 DEF Result
    <3> QED BY <3>1, <3>2
  <2> QED BY <1>3, <2>1, <2>3 DEF Result, DataTypes
<1>4. ASSUME NEW k \in {"delete", "patch"}, NEW s \in Sessions, NEW o \in Owners, SessionFrame(k, s, o)
      PROVE  DataTypes'
  <2>1. PICK f : f = [kind |-> k, session |-> s, owner |-> o]
    OBVIOUS
  <2>2. f \in Frames
    BY <2>1 DEF Frames, PageFrames
  <2>3. toChat' = Append(toChat, f)
    BY <1>4, <2>1 DEF SessionFrame
  <2>4. chatCount' \in Counts
    BY <1>0, <1>4, CountedUp DEF SessionFrame
  <2> QED BY <1>0, <1>4, <2>2, <2>3, <2>4, AppendTo DEF SessionFrame, DataTypes
<1>5. CASE (\E s \in Sessions : Prune(s)) \/ (\E w \in working : ReportPartial(w))
  BY <1>5 DEF Prune, ReportPartial, DataTypes
<1> QED BY <1>1, <1>2, <1>3, <1>4, <1>5 DEF TurnNext

\* The stream thread and its callers.
LEMMA DataStreams ==
  ASSUME RefreshInv, DataTypes, StreamNext
  PROVE  DataTypes' /\ chatCount'.faults = chatCount.faults
<1>0. chatCount \in Counts
  BY DEF DataTypes
<1>1. \/ UNCHANGED chatCount
      \/ Counted("streams", MaxStreams)
  BY DEF StreamNext, Refresh, RunStart, RunProgress, Cancel, StreamProgress, StreamFinish, StreamClear,
         StreamThrow, StreamCatch
<1>2. chatCount' \in Counts /\ chatCount'.faults = chatCount.faults
  BY <1>0, <1>1, CountedUp
<1> QED BY <1>2, StreamReports DEF DataTypes

\* Saving a key and pushing the configuration.
LEMMA DataPushes ==
  ASSUME TicketInv, DataTypes, PushNext
  PROVE  DataTypes'
<1> USE DEF ticketVars, streamVars, storeVars, pushVars
<1>0. chatCount \in Counts /\ toChat \in Seq(Frames) /\ chatCount.pushes + 1 \in Nat
  BY DEF DataTypes, Counts
<1>1. ASSUME NEW k \in {0, chatCount.pushes + 1}, CredentialStore(k) PROVE DataTypes'
  <2>1. k \in Nat
    BY <1>0
  <2>2. PICK f : f = [kind |-> "key", key |-> k]
    OBVIOUS
  <2>3. f \in Frames
    BY <2>1, <2>2 DEF Frames, KeyFrames
  <2>4. toChat' = Append(toChat, f)
    BY <1>1, <2>2 DEF CredentialStore
  <2>5. chatCount' \in Counts
    BY <1>0, <1>1, CountedUp DEF CredentialStore, Push
  <2>6. toChat' \in Seq(Frames)
    BY <1>0, <2>3, <2>4, AppendTo
  <2> QED BY <1>1, <2>1, <2>5, <2>6 DEF CredentialStore, DataTypes
<1>2. CASE PushAiConfig
  <2>1. chatCount' \in Counts
    BY <1>0, <1>2, CountedUp DEF PushAiConfig, Push
  <2> QED BY <1>2, <2>1 DEF PushAiConfig, DataTypes
<1>3. ASSUME NEW w \in working, Apply(w) PROVE DataTypes'
  <2>1. served' = w.key /\ w.key \in Nat
    BY <1>3 DEF Apply, TicketInv, TicketTypes, HeldRecs
  <2> QED BY <1>3, <2>1 DEF Apply, DataTypes
<1> QED BY <1>1, <1>2, <1>3 DEF PushNext

\* The pool, the loop and engined.
LEMMA DataLoop ==
  ASSUME DataTypes, LoopNext
  PROVE  DataTypes'
<1> USE DEF ticketVars, streamVars, storeVars, pushVars
<1>0. chatCount \in Counts /\ toChat \in Seq(Frames)
  BY DEF DataTypes
<1>1. CASE Pop \/ Dispatch
  BY <1>1 DEF Pop, Dispatch, DataTypes
<1>2. ASSUME NEW w \in working, RunUnary(w) PROVE DataTypes'
  <2>1. UNCHANGED chatCount \/ Counted("faults", MaxChatFaults)
    BY <1>2 DEF RunUnary, Refused
  <2>2. chatCount' \in Counts
    BY <1>0, <2>1, CountedUp
  <2> QED BY <1>2, <2>2 DEF RunUnary, DataTypes
<1>3. CASE ChatHandle
  <2>1. toChat # <<>> /\ toChat' = Tail(toChat)
    BY <1>3 DEF ChatHandle
  <2>2. toChat' \in Seq(Frames)
    BY <1>0, <2>1, TailOf
  <2>3. PICK f \in Frames : f = Head(toChat)
    BY <1>0, <2>1, TailOf
  <2>4. chatCount' \in Counts
    <3>1. UNCHANGED chatCount \/ Counted("faults", MaxChatFaults)
      BY <1>3 DEF ChatHandle
    <3> QED BY <1>0, <3>1, CountedUp
  <2>5. aiKey' \in Nat
    <3>1. \/ UNCHANGED aiKey
          \/ f.kind = "key" /\ aiKey' = f.key
      BY <1>3, <2>3 DEF ChatHandle, StoreTurn, RemoveSession, StoreAiCredential
    <3> QED BY <3>1, FrameKinds DEF DataTypes
  <2> QED BY <1>3, <2>2, <2>4, <2>5 DEF ChatHandle, DataTypes
<1> QED BY <1>1, <1>2, <1>3 DEF LoopNext

\* No row is a question and an answer, and no place is both.
LEMMA HalvesDiffer ==
  /\ QuestionRows \cap AnswerRows = {}
  /\ \A q \in QuestionRows, a \in AnswerRows : q.seq # a.seq /\ q.oid # a.oid
<1>1. \A q \in QuestionRows, a \in AnswerRows : q.oid[2] = "user" /\ a.oid[2] = "assistant"
  BY DEF QuestionRows, AnswerRows
<1>2. \A q \in QuestionRows, a \in AnswerRows : q.seq # a.seq
  BY DEF QuestionRows, AnswerRows, Places
<1> QED BY <1>1, <1>2

\* storeTurn inserts both halves or neither: a question that finds its place or
\* its oid taken finds the answer's taken too, and one that finds them free
\* finds the answer's free.
LEMMA PairsStored ==
  ASSUME PairsInv, NEW q \in QuestionRows, NEW a \in AnswerRows, Answers(a, q),
         chatMessages' = InsertMessage(InsertMessage(chatMessages, q), a)
  PROVE  PairsInv'
<1> DEFINE Taken(rows, m) == \E r \in rows : r.oid = m.oid \/ (r.session = m.session /\ r.seq = m.seq)
<1>1. chatMessages \in SUBSET (QuestionRows \cup AnswerRows)
  BY DEF PairsInv
<1>2. CASE Taken(chatMessages, q)
  <2>1. PICK r \in chatMessages : r.oid = q.oid \/ (r.session = q.session /\ r.seq = q.seq)
    BY <1>2
  <2>2. r \in QuestionRows
    BY <1>1, <2>1, HalvesDiffer
  <2>3. PICK b \in chatMessages \cap AnswerRows : Answers(b, r)
    BY <2>2 DEF PairsInv
  <2>4. b.oid = a.oid \/ (b.session = a.session /\ b.seq = a.seq)
    BY <2>1, <2>3 DEF Answers
  <2>5. chatMessages' = chatMessages
    BY <1>2, <2>3, <2>4 DEF InsertMessage
  <2> QED BY <2>5 DEF PairsInv
<1>3. CASE ~Taken(chatMessages, q)
  <2>1. InsertMessage(chatMessages, q) = chatMessages \cup {q}
    BY <1>3 DEF InsertMessage
  <2>2. ASSUME NEW r \in chatMessages, r.oid = a.oid \/ (r.session = a.session /\ r.seq = a.seq)
        PROVE  FALSE
    <3>1. r \in AnswerRows
      BY <1>1, <2>2, HalvesDiffer
    <3>2. PICK p \in chatMessages \cap QuestionRows : Answers(r, p)
      BY <3>1 DEF PairsInv
    <3>3. p.oid = q.oid \/ (p.session = q.session /\ p.seq = q.seq)
      <4>1. CASE r.oid = a.oid
        <5>1. <<p.oid[1], "assistant">> = <<q.oid[1], "assistant">>
          BY <3>2, <4>1 DEF Answers
        <5>2. p.oid[1] = q.oid[1]
          BY <5>1
        <5>3. p.oid = <<p.oid[1], "user">> /\ q.oid = <<q.oid[1], "user">>
          BY <3>2 DEF QuestionRows
        <5> QED BY <5>2, <5>3
      <4>2. CASE r.session = a.session /\ r.seq = a.seq
        <5>1. p.session = q.session /\ p.seq + 1 = q.seq + 1
          BY <3>2, <4>2 DEF Answers
        <5>2. p.seq \in Nat /\ q.seq \in Nat
          BY <3>2 DEF QuestionRows, Places
        <5>3. p.seq = q.seq
          BY <5>1, <5>2
        <5> QED BY <5>1, <5>3
      <4> QED BY <2>2, <4>1, <4>2
    <3> QED BY <1>3, <3>2, <3>3
  <2>3. q.oid # a.oid /\ q.seq # a.seq
    BY HalvesDiffer
  <2>4. ~Taken(chatMessages \cup {q}, a)
    BY <2>2, <2>3
  <2>5. chatMessages' = chatMessages \cup {q, a}
    BY <2>1, <2>4 DEF InsertMessage
  <2>6. q \notin AnswerRows /\ a \notin QuestionRows
    BY HalvesDiffer
  <2> QED BY <1>1, <2>5, <2>6 DEF PairsInv
<1> QED BY <1>2, <1>3

\* A conversation goes with all its rows.
LEMMA PairsRemoved ==
  ASSUME PairsInv, NEW s, chatMessages' = {r \in chatMessages : r.session # s}
  PROVE  PairsInv'
BY DEF PairsInv, Answers

\* Only engined touches the rows.
LEMMA PairsStep ==
  ASSUME TicketInv, RefreshInv, DataTypes, PairsInv, ChatNext
  PROVE  PairsInv'
<1>1. CASE UNCHANGED chatMessages
  BY <1>1 DEF PairsInv
<1>2. CASE ChatHandle
  <2>1. PICK f \in Frames : f = Head(toChat)
    BY <1>2, TailOf DEF ChatHandle, DataTypes
  <2>2. CASE f.kind = "turn" /\ chatMessages' = InsertMessage(InsertMessage(chatMessages, f.question), f.answer)
    <3>1. f.question \in QuestionRows /\ f.answer \in AnswerRows /\ Answers(f.answer, f.question)
      BY <2>2, FrameKinds DEF TurnFrames
    <3> QED BY <2>2, <3>1, PairsStored
  <2>3. CASE \E s : chatMessages' = {r \in chatMessages : r.session # s}
    BY <2>3, PairsRemoved
  <2> QED BY <1>1, <1>2, <2>1, <2>2, <2>3 DEF ChatHandle, StoreTurn, RemoveSession
<1>3. CASE \E s \in Sessions : Prune(s)
  BY <1>3, PairsRemoved DEF Prune
<1>4. CASE StreamNext
  BY <1>1, <1>4, StreamReports
<1>5. CASE PushNext
  BY <1>1, <1>5 DEF PushNext, CredentialStore, PushAiConfig, Apply, storeVars
<1>6. CASE Pop \/ Dispatch \/ \E w \in working : RunUnary(w)
  BY <1>1, <1>6 DEF Pop, Dispatch, RunUnary, storeVars
<1>7. CASE \/ \E s \in Sessions, o \in Owners \cup {""}, n \in Places : Send(s, o, n)
           \/ Read
           \/ \E t \in chatResults : Result(t)
           \/ \E k \in {"delete", "patch"}, s \in Sessions, o \in Owners : SessionFrame(k, s, o)
           \/ \E w \in working : ReportPartial(w)
  BY <1>1, <1>7 DEF Send, Read, Result, SessionFrame, ReportPartial, storeVars
<1> QED BY <1>2, <1>3, <1>4, <1>5, <1>6, <1>7 DEF ChatNext, TurnNext, LoopNext

\* A step that leaves the key and its copies alone.
LEMMA KeyFrame ==
  ASSUME KeyInv, UNCHANGED <<grpcTasks, working, toChat, aiKey, aiSaved, served, spoiled, keyDropped>>
  PROVE  KeyInv'
BY DEF KeyInv, KeySent, Sound, KeyGood, Applying, KeyOnItsWay

\* A step that leaves the key of the table and the one being sent to it alone.
LEMMA SentFrame ==
  ASSUME KeySent, UNCHANGED <<toChat, aiKey, aiSaved, keyDropped>>
  PROVE  KeySent' /\ (KeyOnItsWay' <=> KeyOnItsWay)
BY DEF KeySent, KeyOnItsWay

\* A message that is no configuration is queued.
LEMMA KeyTasks ==
  ASSUME KeyInv, grpcTasks \in Seq(TaskRecs), NEW x \in TaskRecs, x.cmd # "Apply",
         grpcTasks' = Append(grpcTasks, x),
         UNCHANGED <<working, toChat, aiKey, aiSaved, served, spoiled, keyDropped>>
  PROVE  KeyInv'
<1>1. /\ \A i \in 1..Len(grpcTasks) : grpcTasks'[i] = grpcTasks[i] /\ i \in 1..Len(grpcTasks')
      /\ \A i \in 1..Len(grpcTasks') : i \in 1..Len(grpcTasks) \/ grpcTasks'[i] = x
  BY AppendTo
<1>2. Applying => Applying'
  BY <1>1 DEF Applying
<1>3. KeySent' /\ (Sound' => Sound)
  BY SentFrame DEF KeyInv, Sound
<1>4. KeyGood => KeyGood'
  BY <1>1, <1>2 DEF KeyGood
<1> QED BY <1>3, <1>4 DEF KeyInv

\* A frame that is no key is sent to engined.
LEMMA KeyNotSent ==
  ASSUME KeyInv, toChat \in Seq(Frames), NEW f \in Frames, f.kind # "key",
         toChat' = Append(toChat, f),
         UNCHANGED <<grpcTasks, working, aiKey, aiSaved, served, spoiled, keyDropped>>
  PROVE  KeyInv'
<1>1. /\ \A i \in 1..Len(toChat) : toChat'[i] = toChat[i] /\ i \in 1..Len(toChat')
      /\ \A i \in 1..Len(toChat') : i \in 1..Len(toChat) \/ toChat'[i] = f
  BY AppendTo
<1>2. KeyOnItsWay <=> KeyOnItsWay'
  BY <1>1 DEF KeyOnItsWay
<1>3. KeySent'
  BY <1>1, <1>2 DEF KeyInv, KeySent
<1>4. KeyGood => KeyGood'
  BY DEF KeyGood, Applying
<1> QED BY <1>2, <1>3, <1>4 DEF KeyInv, Sound

\* A worker takes a message, with its key.
LEMMA KeyPopped ==
  ASSUME KeyInv, TicketInv, Pop
  PROVE  KeyInv'
<1>1. /\ grpcTasks # <<>> /\ grpcTasks' = Tail(grpcTasks)
      /\ working' = working \cup {Started(Head(grpcTasks))}
      /\ UNCHANGED <<toChat, aiKey, aiSaved, served, spoiled, keyDropped>>
  BY DEF Pop, storeVars, pushVars
<1>2. grpcTasks \in Seq(TaskRecs)
  BY DEF TicketInv, TicketTypes
<1>3. PICK v : v = Started(Head(grpcTasks))
  OBVIOUS
<1>4. PICK h : h = grpcTasks[1]
  OBVIOUS
<1>5. v.cmd = h.cmd /\ v.key = h.key /\ ~v.applied /\ 1 \in 1..Len(grpcTasks)
  BY <1>1, <1>2, <1>3, <1>4, TailOf DEF Started
<1>6. /\ \A i \in 1..Len(grpcTasks') : i + 1 \in 1..Len(grpcTasks) /\ grpcTasks'[i] = grpcTasks[i + 1]
      /\ \A k \in 1..Len(grpcTasks) : k # 1 => k - 1 \in 1..Len(grpcTasks') /\ grpcTasks'[k - 1] = grpcTasks[k]
  BY <1>1, <1>2, TailOf
<1>7. Applying => Applying'
  <2>1. ASSUME NEW k \in 1..Len(grpcTasks), grpcTasks[k].cmd = "Apply" PROVE Applying'
    <3>1. CASE k = 1
      BY <1>1, <1>3, <1>4, <1>5, <2>1, <3>1 DEF Applying
    <3>2. CASE k # 1
      BY <1>6, <2>1, <3>2 DEF Applying
    <3> QED BY <3>1, <3>2
  <2>2. ASSUME NEW w \in working, w.cmd = "Apply" PROVE Applying'
    BY <1>1, <2>2 DEF Applying
  <2> QED BY <2>1, <2>2 DEF Applying
<1>8. KeyGood => \A w \in working' : w.cmd = "Apply" => w.key = aiSaved /\ (w.applied => served = aiSaved)
  BY <1>1, <1>3, <1>4, <1>5 DEF KeyGood
<1>9. KeyGood => \A i \in 1..Len(grpcTasks') : grpcTasks'[i].cmd = "Apply" => grpcTasks'[i].key = aiSaved
  BY <1>6 DEF KeyGood
<1>10. KeySent' /\ (Sound' => Sound)
  BY <1>1, SentFrame DEF KeyInv, Sound
<1>11. KeyGood => KeyGood'
  BY <1>1, <1>7, <1>8, <1>9 DEF KeyGood
<1> QED BY <1>10, <1>11 DEF KeyInv

\* A worker reports a part of an answer.
LEMMA KeyReported ==
  ASSUME KeyInv, TicketInv, NEW w, ReportPartial(w)
  PROVE  KeyInv'
<1>1. PICK v : v = [w EXCEPT !.sent = @ + 1]
  OBVIOUS
<1>2. /\ w \in working /\ w.cmd = "Chat" /\ working' = (working \ {w}) \cup {v}
      /\ UNCHANGED <<grpcTasks, toChat, aiKey, aiSaved, served, spoiled, keyDropped>>
  BY <1>1 DEF ReportPartial, storeVars, pushVars
<1>3. w \in HeldRecs
  BY <1>2 DEF TicketInv, TicketTypes
<1>4. v.cmd = "Chat"
  BY <1>1, <1>2, <1>3 DEF HeldRecs
<1>5. Applying => Applying'
  BY <1>2, <1>4 DEF Applying
<1>6. KeySent' /\ (Sound' => Sound)
  BY <1>2, SentFrame DEF KeyInv, Sound
<1>7. KeyGood => KeyGood'
  BY <1>2, <1>4, <1>5 DEF KeyGood
<1> QED BY <1>6, <1>7 DEF KeyInv

\* pretzel-ai takes the key a configuration carries.
LEMMA KeyApplied ==
  ASSUME KeyInv, TicketInv, NEW w, Apply(w)
  PROVE  KeyInv'
<1>1. PICK v : v = [w EXCEPT !.applied = TRUE]
  OBVIOUS
<1>2. /\ w \in working /\ w.cmd = "Apply" /\ working' = (working \ {w}) \cup {v} /\ served' = w.key
      /\ UNCHANGED <<grpcTasks, toChat, aiKey, aiSaved, spoiled, keyDropped>>
  BY <1>1 DEF Apply, storeVars
<1>3. w \in HeldRecs
  BY <1>2 DEF TicketInv, TicketTypes
<1>4. v.cmd = "Apply" /\ v.key = w.key
  BY <1>1, <1>2, <1>3 DEF HeldRecs
<1>5. KeyGood => w.key = aiSaved /\ served' = aiSaved'
  BY <1>2 DEF KeyGood
<1>6. KeySent' /\ (Sound' => Sound)
  BY <1>2, SentFrame DEF KeyInv, Sound
<1>7. KeyGood => KeyGood'
  BY <1>2, <1>4, <1>5 DEF KeyGood
<1> QED BY <1>6, <1>7 DEF KeyInv

\* A call ends; a configuration that was not taken spoils the push.
LEMMA KeyAnswered ==
  ASSUME KeyInv, NEW w, RunUnary(w)
  PROVE  KeyInv'
<1>1. w \in working /\ working' = working \ {w}
      /\ UNCHANGED <<grpcTasks, toChat, aiKey, aiSaved, served, keyDropped>>
  BY DEF RunUnary, storeVars
<1>2. KeySent' /\ (KeyOnItsWay' <=> KeyOnItsWay)
  BY <1>1, SentFrame DEF KeyInv
<1>3. CASE w.cmd = "Apply" /\ ~w.applied
  <2>1. spoiled'
    BY <1>3 DEF RunUnary, Refused
  <2> QED BY <1>2, <2>1 DEF KeyInv, Sound
<1>4. CASE ~(w.cmd = "Apply" /\ ~w.applied)
  <2>1. spoiled' = spoiled
    BY <1>4 DEF RunUnary, Refused
  <2>2. KeyGood /\ w.cmd = "Apply" => served = aiSaved
    BY <1>1, <1>4 DEF KeyGood
  <2>3. w.cmd # "Apply" => (Applying => Applying')
    BY <1>1 DEF Applying
  <2>4. KeyGood => KeyGood'
    BY <1>1, <2>2, <2>3 DEF KeyGood
  <2> QED BY <1>1, <1>2, <2>1, <2>4 DEF KeyInv, Sound
<1> QED BY <1>3, <1>4

\* With no other about, the configuration that is queued is the one to be applied.
LEMMA OnlyPush ==
  ASSUME TicketInv, ~Applying, NEW x \in TaskRecs, x.cmd = "Apply", x.key = aiSaved',
         grpcTasks' = Append(grpcTasks, x), UNCHANGED working
  PROVE  KeyGood'
<1>1. grpcTasks \in Seq(TaskRecs)
  BY DEF TicketInv, TicketTypes
<1>2. /\ \A i \in 1..Len(grpcTasks) : grpcTasks'[i] = grpcTasks[i]
      /\ \A i \in 1..Len(grpcTasks') : i \in 1..Len(grpcTasks) \/ grpcTasks'[i] = x
      /\ Len(grpcTasks) + 1 \in 1..Len(grpcTasks') /\ grpcTasks'[Len(grpcTasks) + 1] = x
  BY <1>1, AppendTo
<1>3. Applying'
  BY <1>2 DEF Applying
<1>4. /\ \A i \in 1..Len(grpcTasks') : grpcTasks'[i].cmd = "Apply" => grpcTasks'[i].key = aiSaved'
      /\ \A w \in working' : w.cmd # "Apply"
  BY <1>2 DEF Applying
<1> QED BY <1>3, <1>4 DEF KeyGood

\* A push of the table: unless it is spoiled, the one copy there is has the table's key.
LEMMA KeyPushed ==
  ASSUME KeyInv, TicketInv, DataTypes, PushAiConfig
  PROVE  KeyInv'
<1>1. PICK k \in unsealedKeys :
        /\ grpcTasks' = Append(grpcTasks, Task("Apply", 0, k))
        /\ spoiled' = (Applying \/ (~FALSE /\ (KeyOnItsWay \/ k # aiKey)))
  BY DEF PushAiConfig, Push
<1>2. UNCHANGED <<working, toChat, aiKey, aiSaved, served, keyDropped>>
  BY DEF PushAiConfig, storeVars
<1>3. KeySent' /\ (KeyOnItsWay' <=> KeyOnItsWay)
  BY <1>2, SentFrame DEF KeyInv
<1>4. SUFFICES ASSUME Sound' PROVE KeyGood'
  BY <1>3 DEF KeyInv
<1>5. ~Applying /\ ~KeyOnItsWay /\ k = aiKey /\ ~keyDropped
  BY <1>1, <1>2, <1>3, <1>4 DEF Sound
<1>6. k = aiSaved /\ k \in Nat
  BY <1>5 DEF KeyInv, KeySent, DataTypes
<1>7. PICK x : x = Task("Apply", 0, k)
  OBVIOUS
<1>8. x \in TaskRecs /\ x.cmd = "Apply" /\ x.key = aiSaved
  BY <1>6, <1>7 DEF Task, TaskRecs, Cmds, DataTypes, Counts
<1>9. KeyGood'
  BY <1>1, <1>2, <1>5, <1>7, <1>8, OnlyPush
<1> QED BY <1>9

\* A key is saved: it is the last on its way to the table, and in the
\* configuration that is queued.
LEMMA KeySaved ==
  ASSUME TicketInv, DataTypes, NEW k \in Nat, CredentialStore(k)
  PROVE  KeyInv'
<1>1. PICK x : x = Task("Apply", 0, k)
  OBVIOUS
<1>2. PICK f : f = [kind |-> "key", key |-> k]
  OBVIOUS
<1>3. /\ grpcTasks' = Append(grpcTasks, x) /\ toChat' = Append(toChat, f)
      /\ aiSaved' = k /\ UNCHANGED working /\ (~spoiled' => ~Applying)
  BY <1>1, <1>2 DEF CredentialStore, Push
<1>4. x \in TaskRecs /\ x.cmd = "Apply" /\ x.key = k
  BY <1>1 DEF Task, TaskRecs, Cmds, DataTypes, Counts
<1>5. f \in Frames /\ f.kind = "key" /\ f.key = k
  BY <1>2 DEF Frames, KeyFrames
<1>6. toChat \in Seq(Frames)
  BY DEF DataTypes
<1>7. /\ \A i \in 1..Len(toChat') : i \in 1..Len(toChat) \/ i = Len(toChat) + 1
      /\ \A i \in 1..Len(toChat) : i < Len(toChat) + 1
      /\ Len(toChat) + 1 \in 1..Len(toChat') /\ toChat'[Len(toChat) + 1] = f
  BY <1>3, <1>5, <1>6, AppendTo
<1>8. KeyOnItsWay'
  BY <1>5, <1>7 DEF KeyOnItsWay
<1>9. KeySent'
  <2> SUFFICES ASSUME NEW i \in 1..Len(toChat'), toChat'[i].kind = "key"
               PROVE  \/ toChat'[i].key = aiSaved'
                      \/ \E j \in 1..Len(toChat') : j > i /\ toChat'[j].kind = "key"
    BY <1>8 DEF KeySent
  <2>1. CASE i = Len(toChat) + 1
    BY <1>3, <1>5, <1>7, <2>1
  <2>2. CASE i \in 1..Len(toChat)
    <3>1. Len(toChat) + 1 > i
      BY <1>7, <2>2
    <3> QED BY <1>5, <1>7, <3>1
  <2> QED BY <1>7, <2>1, <2>2
<1>10. Sound' => KeyGood'
  BY <1>3, <1>4, OnlyPush DEF Sound
<1> QED BY <1>9, <1>10 DEF KeyInv

\* engined writes or refuses the key, or a frame of a conversation passes.
LEMMA KeyHandled ==
  ASSUME KeyInv, DataTypes, ChatHandle
  PROVE  KeyInv'
<1>1. toChat # <<>> /\ toChat' = Tail(toChat) /\ UNCHANGED <<grpcTasks, working, aiSaved, served, spoiled>>
  BY DEF ChatHandle
<1>2. toChat \in Seq(Frames)
  BY DEF DataTypes
<1>3. PICK f : f = Head(toChat)
  OBVIOUS
<1>4. /\ f = toChat[1] /\ 1 \in 1..Len(toChat)
      /\ \A i \in 1..Len(toChat') : i + 1 \in 1..Len(toChat) /\ toChat'[i] = toChat[i + 1]
      /\ \A k \in 1..Len(toChat) : k # 1 => k - 1 \in 1..Len(toChat') /\ toChat'[k - 1] = toChat[k]
  BY <1>1, <1>2, <1>3, TailOf
<1>5. /\ f.kind # "key" => aiKey' = aiKey /\ keyDropped' = keyDropped
      /\ f.kind = "key" => keyDropped' = (aiKey' # f.key)
  <2>1. keyDropped' = IF f.kind # "key" THEN keyDropped ELSE aiKey' # f.key
    BY <1>3 DEF ChatHandle
  <2>2. \/ f.kind = "turn" /\ StoreTurn(f)
        \/ f.kind = "delete" /\ RemoveSession(f)
        \/ UNCHANGED aiKey
        \/ f.kind = "key"
    BY <1>3 DEF ChatHandle
  <2>3. f.kind # "key" => aiKey' = aiKey
    BY <2>2 DEF StoreTurn, RemoveSession
  <2> QED BY <2>1, <2>3
<1>6. KeyOnItsWay' => KeyOnItsWay
  BY <1>4 DEF KeyOnItsWay
<1>7. f.kind # "key" => (KeyOnItsWay => KeyOnItsWay')
  <2> SUFFICES ASSUME f.kind # "key", NEW k \in 1..Len(toChat), toChat[k].kind = "key" PROVE KeyOnItsWay'
    BY DEF KeyOnItsWay
  <2>1. k # 1
    BY <1>4
  <2>2. k - 1 \in 1..Len(toChat') /\ toChat'[k - 1] = toChat[k]
    BY <1>4, <2>1
  <2> QED BY <2>2 DEF KeyOnItsWay
<1>8. f.kind = "key" => KeyOnItsWay
  BY <1>4 DEF KeyOnItsWay
<1>9. \A i \in 1..Len(toChat') : toChat'[i].kind = "key" =>
        \/ toChat'[i].key = aiSaved
        \/ \E j \in 1..Len(toChat') : j > i /\ toChat'[j].kind = "key"
  <2> SUFFICES ASSUME NEW i \in 1..Len(toChat'), toChat'[i].kind = "key", toChat'[i].key # aiSaved
               PROVE  \E j \in 1..Len(toChat') : j > i /\ toChat'[j].kind = "key"
    OBVIOUS
  <2>1. i + 1 \in 1..Len(toChat) /\ toChat'[i] = toChat[i + 1]
    BY <1>4
  <2>2. PICK j \in 1..Len(toChat) : j > i + 1 /\ toChat[j].kind = "key"
    BY <2>1 DEF KeyInv, KeySent
  <2>3. j # 1 /\ j - 1 > i
    BY <2>2
  <2>4. j - 1 \in 1..Len(toChat') /\ toChat'[j - 1] = toChat[j]
    BY <1>4, <2>3
  <2> QED BY <2>2, <2>3, <2>4
<1>10. f.kind = "key" /\ ~KeyOnItsWay' => f.key = aiSaved
  <2> SUFFICES ASSUME f.kind = "key", f.key # aiSaved PROVE KeyOnItsWay'
    OBVIOUS
  <2>1. PICK j \in 1..Len(toChat) : j > 1 /\ toChat[j].kind = "key"
    BY <1>4 DEF KeyInv, KeySent
  <2>2. j # 1
    BY <2>1
  <2>3. j - 1 \in 1..Len(toChat') /\ toChat'[j - 1] = toChat[j]
    BY <1>4, <2>2
  <2> QED BY <2>1, <2>3 DEF KeyOnItsWay
<1>11. KeySent'
  <2>1. ~KeyOnItsWay' /\ ~keyDropped' => aiKey' = aiSaved
    <3>1. CASE f.kind = "key"
      <4>1. keyDropped' = (aiKey' # f.key)
        BY <1>5, <3>1
      <4> QED BY <1>10, <3>1, <4>1
    <3>2. CASE f.kind # "key"
      <4>1. aiKey' = aiKey /\ keyDropped' = keyDropped
        BY <1>5, <3>2
      <4>2. ~KeyOnItsWay /\ ~keyDropped => aiKey = aiSaved
        BY DEF KeyInv, KeySent
      <4> QED BY <1>7, <3>2, <4>1, <4>2
    <3> QED BY <3>1, <3>2
  <2> QED BY <1>1, <1>9, <2>1 DEF KeySent
<1>12. Sound' => Sound
  BY <1>1, <1>5, <1>6, <1>8 DEF Sound
<1>13. KeyGood => KeyGood'
  BY <1>1 DEF KeyGood, Applying
<1> QED BY <1>11, <1>12, <1>13 DEF KeyInv

-----------------------------------------------------------------------------
(* The invariant, step by step.                                            *)

\* The invariant holds when mgmtd starts: nothing asked, nothing queued.
LEMMA ChatStarts == ChatInit => ChatInv
<1> SUFFICES ASSUME ChatInit PROVE ChatInv
  OBVIOUS
<1>1. /\ chatTicket = 1 /\ grpcTasks = <<>> /\ working = {} /\ grpcDone = <<>> /\ chatResults = {}
      /\ chatPartials = <<>> /\ chatContexts = <<>> /\ takenTickets = {} /\ droppedTickets = {}
      /\ toChat = <<>> /\ chatMessages = {}
  BY DEF ChatInit
<1>2. /\ \A i \in 1..Len(grpcTasks) : FALSE
      /\ \A i \in 1..Len(grpcDone) : FALSE
      /\ \A i \in 1..Len(toChat) : FALSE
      /\ DOMAIN chatPartials = {} /\ DOMAIN chatContexts = {} /\ 1..(chatTicket - 1) = {}
  BY <1>1
<1>3. TicketTypes
  BY <1>1 DEF TicketTypes
<1>4. Queued(grpcTasks) = {} /\ Worked(working) = {} /\ Finals(grpcDone) = {} /\ Closed = {}
  BY <1>1, <1>2 DEF Queued, Worked, Finals, Closed
<1>5. OnceQueued(grpcTasks) /\ OnceWorked(working) /\ OnceFinal(grpcDone)
  BY <1>1, <1>2 DEF OnceQueued, OnceWorked, OnceFinal
<1>6. Parted
  BY <1>1, <1>2, <1>4, <1>5 DEF Parted, Apart
<1>7. PartsInv
  BY <1>1, <1>2 DEF PartsInv, Apart
<1>8. RefreshInv
  <2>1. stream = NoStream /\ streaming = FALSE /\ refreshing = FALSE
    BY DEF ChatInit
  <2> QED BY <2>1 DEF RefreshInv, NoStream, Streams
<1>9. DataTypes
  <2>1. chatCount \in Counts
    BY DEF ChatInit, Counts
  <2>2. aiKey \in Nat /\ aiSaved \in Nat /\ served \in Nat
    BY DEF ChatInit
  <2>3. toChat \in Seq(Frames)
    BY <1>1
  <2> QED BY <1>2, <2>1, <2>2, <2>3 DEF DataTypes
<1>10. PairsInv
  BY <1>1 DEF PairsInv
<1>11. KeyInv
  <2>1. aiKey = aiSaved /\ served = aiSaved
    BY DEF ChatInit
  <2> QED BY <1>1, <1>2, <2>1 DEF KeyInv, KeySent, KeyGood
<1> QED BY <1>3, <1>6, <1>7, <1>8, <1>9, <1>10, <1>11 DEF ChatInv, TicketInv

\* Every queued message is well formed.
LEMMA TaskType ==
  ASSUME chatCount \in Counts
  PROVE  /\ \A t \in Nat \ {0}, c \in {"Chat", "Read"} :
              Task(c, t, 0) \in TaskRecs /\ Task(c, t, 0).ticket = t /\ Task(c, t, 0).cmd = c
         /\ \A k \in Nat : Task("Apply", 0, k) \in TaskRecs /\ Task("Apply", 0, k).ticket = 0
<1>1. chatCount.pushes \in Nat
  BY DEF Counts
<1> QED BY <1>1 DEF Task, TaskRecs, Cmds

\* A turn, a read, a poll, a page action, a sweep or a report.
LEMMA ChatTurns ==
  ASSUME ChatInv, TurnNext
  PROVE  TicketInv' /\ RefreshInv' /\ KeyInv'
<1> USE DEF ticketVars, streamVars, storeVars, pushVars
<1>0. TicketInv /\ RefreshInv /\ DataTypes /\ KeyInv
  BY DEF ChatInv
<1>1. /\ grpcDone \in Seq(DocRecs) /\ grpcTasks \in Seq(TaskRecs) /\ chatTicket \in Nat \ {0}
      /\ chatCount \in Counts /\ toChat \in Seq(Frames)
  BY <1>0 DEF TicketInv, TicketTypes, DataTypes
<1>2. ASSUME NEW x \in TaskRecs, x.ticket = chatTicket, x.cmd # "Apply",
             grpcTasks' = Append(grpcTasks, x), chatTicket' = chatTicket + 1,
             UNCHANGED <<working, grpcDone, chatResults, takenTickets, droppedTickets, chatPartials,
                         streaming, stream, refreshing, toChat, aiKey, aiSaved, served,
                         spoiled, keyDropped>>
      PROVE  TicketInv' /\ RefreshInv' /\ KeyInv'
  <2>1. TicketInv'
    BY <1>0, <1>2, TicketAsked
  <2>2. RefreshInv'
    BY <1>0, <1>1, <1>2, RefreshReported
  <2>3. KeyInv'
    BY <1>0, <1>1, <1>2, KeyTasks
  <2> QED BY <2>1, <2>2, <2>3
<1>3. ASSUME NEW s \in Sessions, NEW o \in Owners \cup {""}, NEW n \in Places, Send(s, o, n)
      PROVE  TicketInv' /\ RefreshInv' /\ KeyInv'
  <2>1. PICK x \in TaskRecs : x = Task("Chat", chatTicket, 0) /\ x.ticket = chatTicket /\ x.cmd # "Apply"
    BY <1>1, TaskType
  <2>2. grpcTasks' = Append(grpcTasks, x) /\ chatTicket' = chatTicket + 1
    BY <1>3, <2>1 DEF Send
  <2> QED BY <1>2, <1>3, <2>1, <2>2 DEF Send
<1>4. CASE Read
  <2>1. PICK x \in TaskRecs : x = Task("Read", chatTicket, 0) /\ x.ticket = chatTicket /\ x.cmd # "Apply"
    BY <1>1, TaskType
  <2>2. grpcTasks' = Append(grpcTasks, x) /\ chatTicket' = chatTicket + 1
    BY <1>4, <2>1 DEF Read
  <2> QED BY <1>2, <1>4, <2>1, <2>2 DEF Read
<1>5. ASSUME NEW t \in chatResults, Result(t) PROVE TicketInv' /\ RefreshInv' /\ KeyInv'
  <2>1. TicketInv'
    BY <1>0, <1>5, TicketRead
  <2>2. RefreshInv'
    BY <1>0, <1>1, <1>5, RefreshReported DEF Result
  <2>3. KeyInv'
    <3>1. CASE t \in DOMAIN chatContexts /\ chatContexts[t].owner # ""
      <4>1. t \in Nat
        BY <1>0, <1>5 DEF TicketInv, Parted, TicketTypes
      <4>2. PICK f \in Frames : f = TurnFrame(chatContexts[t], t) /\ f.kind = "turn"
        BY <1>0, <3>1, <4>1, TurnFrameType DEF DataTypes
      <4>3. toChat' = Append(toChat, f)
        BY <1>5, <3>1, <4>2 DEF Result
      <4>4. UNCHANGED <<grpcTasks, working, aiKey, aiSaved, served, spoiled, keyDropped>>
        BY <1>5 DEF Result
      <4> QED BY <1>0, <1>1, <4>2, <4>3, <4>4, KeyNotSent
    <3>2. CASE ~(t \in DOMAIN chatContexts /\ chatContexts[t].owner # "")
      <4>1. UNCHANGED <<grpcTasks, working, toChat, aiKey, aiSaved, served, spoiled, keyDropped>>
        BY <1>5, <3>2 DEF Result
      <4> QED BY <1>0, <4>1, KeyFrame
    <3> QED BY <3>1, <3>2
  <2> QED BY <2>1, <2>2, <2>3
<1>6. ASSUME NEW k \in {"delete", "patch"}, NEW s \in Sessions, NEW o \in Owners, SessionFrame(k, s, o)
      PROVE  TicketInv' /\ RefreshInv' /\ KeyInv'
  <2>1. TicketInv'
    BY <1>0, <1>6, TicketFrame DEF SessionFrame, ticketState
  <2>2. RefreshInv'
    BY <1>0, <1>1, <1>6, RefreshReported DEF SessionFrame
  <2>3. PICK f : f = [kind |-> k, session |-> s, owner |-> o]
    OBVIOUS
  <2>4. f \in Frames /\ f.kind # "key"
    BY <2>3 DEF Frames, PageFrames
  <2>5. toChat' = Append(toChat, f) /\ UNCHANGED <<grpcTasks, working, aiKey, aiSaved, served, spoiled, keyDropped>>
    BY <1>6, <2>3 DEF SessionFrame
  <2>6. KeyInv'
    BY <1>0, <1>1, <2>4, <2>5, KeyNotSent
  <2> QED BY <2>1, <2>2, <2>6
<1>7. ASSUME NEW s \in Sessions, Prune(s) PROVE TicketInv' /\ RefreshInv' /\ KeyInv'
  <2>1. TicketInv'
    BY <1>0, <1>7, TicketFrame DEF Prune, ticketState
  <2>2. RefreshInv'
    BY <1>0, <1>1, <1>7, RefreshReported DEF Prune
  <2>3. KeyInv'
    BY <1>0, <1>7, KeyFrame DEF Prune
  <2> QED BY <2>1, <2>2, <2>3
<1>8. ASSUME NEW w \in working, ReportPartial(w) PROVE TicketInv' /\ RefreshInv' /\ KeyInv'
  <2>1. TicketInv'
    BY <1>0, <1>8, TicketReported
  <2>2. w.ticket \in Nat /\ w.ticket # 0
    BY <1>0, <1>8 DEF ReportPartial, TicketInv, TicketTypes, HeldRecs
  <2>3. PICK x : x = [cmd |-> "Chat", ticket |-> w.ticket, what |-> "partial"]
    OBVIOUS
  <2>4. x \in DocRecs
    BY <2>2, <2>3 DEF DocRecs, Cmds
  <2>5. grpcDone' = Append(grpcDone, x)
    BY <1>8, <2>3 DEF ReportPartial
  <2>6. RefreshInv'
    BY <1>0, <1>1, <1>8, <2>4, <2>5, RefreshReported DEF ReportPartial
  <2>7. KeyInv'
    BY <1>0, <1>8, KeyReported
  <2> QED BY <2>1, <2>6, <2>7
<1> QED BY <1>3, <1>4, <1>5, <1>6, <1>7, <1>8 DEF TurnNext

\* The stream thread and its callers.
LEMMA ChatStreams ==
  ASSUME ChatInv, StreamNext
  PROVE  TicketInv' /\ RefreshInv' /\ KeyInv'
<1>0. TicketInv /\ RefreshInv /\ DataTypes /\ KeyInv /\ grpcDone \in Seq(DocRecs)
  BY DEF ChatInv, TicketInv, TicketTypes
<1>1. TicketInv'
  <2>1. CASE UNCHANGED grpcDone
    BY <1>0, <2>1, StreamReports, TicketFrame DEF ticketState
  <2>2. CASE \E x \in DocRecs : x.ticket = 0 /\ grpcDone' = Append(grpcDone, x)
    BY <1>0, <2>2, StreamReports, TicketlessDoc
  <2> QED BY <1>0, <2>1, <2>2, StreamReports
<1>2. RefreshInv'
  BY <1>0, RefreshStreams
<1>3. KeyInv'
  BY <1>0, StreamReports, KeyFrame
<1> QED BY <1>1, <1>2, <1>3

\* Saving a key, pushing and applying the configuration.
LEMMA ChatPushes ==
  ASSUME ChatInv, PushNext
  PROVE  TicketInv' /\ RefreshInv' /\ KeyInv'
<1> USE DEF ticketVars, streamVars, storeVars, pushVars
<1>0. TicketInv /\ RefreshInv /\ DataTypes /\ KeyInv
  BY DEF ChatInv
<1>1. /\ grpcDone \in Seq(DocRecs) /\ chatCount \in Counts /\ chatCount.pushes + 1 \in Nat /\ aiKey \in Nat
  BY <1>0 DEF TicketInv, TicketTypes, DataTypes, Counts
<1>2. ASSUME NEW k \in {0, chatCount.pushes + 1}, CredentialStore(k) PROVE TicketInv' /\ RefreshInv' /\ KeyInv'
  <2>1. k \in Nat
    BY <1>1
  <2>2. PICK x \in TaskRecs : x = Task("Apply", 0, k) /\ x.ticket = 0
    BY <1>1, <2>1, TaskType
  <2>3. grpcTasks' = Append(grpcTasks, x)
    BY <1>2, <2>2 DEF CredentialStore, Push
  <2>4. TicketInv'
    BY <1>0, <1>2, <2>2, <2>3, TicketlessTask DEF CredentialStore
  <2>5. RefreshInv'
    BY <1>0, <1>1, <1>2, RefreshReported DEF CredentialStore
  <2>6. KeyInv'
    BY <1>0, <1>2, <2>1, KeySaved
  <2> QED BY <2>4, <2>5, <2>6
<1>3. CASE PushAiConfig
  <2>1. PICK k \in unsealedKeys : grpcTasks' = Append(grpcTasks, Task("Apply", 0, k))
    BY <1>3 DEF PushAiConfig, Push
  <2>2. k \in Nat
    BY <1>1 DEF unsealedKeys
  <2>3. PICK x \in TaskRecs : x = Task("Apply", 0, k) /\ x.ticket = 0
    BY <1>1, <2>2, TaskType
  <2>4. grpcTasks' = Append(grpcTasks, x)
    BY <2>1, <2>3
  <2>5. TicketInv'
    BY <1>0, <1>3, <2>3, <2>4, TicketlessTask DEF PushAiConfig
  <2>6. RefreshInv'
    BY <1>0, <1>1, <1>3, RefreshReported DEF PushAiConfig
  <2>7. KeyInv'
    BY <1>0, <1>3, KeyPushed
  <2> QED BY <2>5, <2>6, <2>7
<1>4. ASSUME NEW w \in working, Apply(w) PROVE TicketInv' /\ RefreshInv' /\ KeyInv'
  <2>1. TicketInv'
    BY <1>0, <1>4, TicketApplied
  <2>2. RefreshInv'
    BY <1>0, <1>1, <1>4, RefreshReported DEF Apply
  <2>3. KeyInv'
    BY <1>0, <1>4, KeyApplied
  <2> QED BY <2>1, <2>2, <2>3
<1> QED BY <1>2, <1>3, <1>4 DEF PushNext

\* The pool, the loop and engined.
LEMMA ChatLoop ==
  ASSUME ChatInv, LoopNext
  PROVE  TicketInv' /\ RefreshInv' /\ KeyInv'
<1> USE DEF ticketVars, streamVars, storeVars, pushVars
<1>0. TicketInv /\ RefreshInv /\ DataTypes /\ KeyInv
  BY DEF ChatInv
<1>1. grpcDone \in Seq(DocRecs) /\ chatCount \in Counts
  BY <1>0 DEF TicketInv, TicketTypes, DataTypes
<1>2. CASE Pop
  <2>1. RefreshInv'
    BY <1>0, <1>1, <1>2, RefreshReported DEF Pop
  <2>2. TicketInv' /\ KeyInv'
    BY <1>0, <1>2, TicketPopped, KeyPopped
  <2> QED BY <2>1, <2>2
<1>3. ASSUME NEW w \in working, RunUnary(w) PROVE TicketInv' /\ RefreshInv' /\ KeyInv'
  <2>1. TicketInv'
    BY <1>0, <1>3, TicketAnswered
  <2>2. w \in HeldRecs
    BY <1>0 DEF TicketInv, TicketTypes
  <2>3. PICK x : x = [cmd |-> w.cmd, ticket |-> w.ticket, what |-> "final"]
    OBVIOUS
  <2>4. x \in DocRecs
    BY <2>2, <2>3 DEF DocRecs, HeldRecs, Cmds
  <2>5. grpcDone' = Append(grpcDone, x)
    BY <1>3, <2>3 DEF RunUnary
  <2>6. RefreshInv'
    BY <1>0, <1>1, <1>3, <2>4, <2>5, RefreshReported DEF RunUnary
  <2>7. KeyInv'
    BY <1>0, <1>3, KeyAnswered
  <2> QED BY <2>1, <2>6, <2>7
<1>4. CASE Dispatch
  <2>1. TicketInv' /\ RefreshInv'
    BY <1>0, <1>1, <1>4, TicketDelivered, RefreshDelivered
  <2>2. KeyInv'
    BY <1>0, <1>4, KeyFrame DEF Dispatch
  <2> QED BY <2>1, <2>2
<1>5. CASE ChatHandle
  <2>1. TicketInv'
    BY <1>0, <1>5, TicketFrame DEF ChatHandle, ticketState
  <2>2. RefreshInv'
    BY <1>0, <1>1, <1>5, RefreshReported DEF ChatHandle
  <2>3. KeyInv'
    BY <1>0, <1>5, KeyHandled
  <2> QED BY <2>1, <2>2, <2>3
<1> QED BY <1>2, <1>3, <1>4, <1>5 DEF LoopNext

\* Every step keeps the invariant.
LEMMA ChatSteps == ChatInv /\ [ChatNext]_chatVars => ChatInv'
<1> SUFFICES ASSUME ChatInv, [ChatNext]_chatVars PROVE ChatInv'
  OBVIOUS
<1>0. TicketInv /\ RefreshInv /\ DataTypes /\ PairsInv /\ KeyInv /\ grpcDone \in Seq(DocRecs)
  BY DEF ChatInv, TicketInv, TicketTypes
<1>1. CASE UNCHANGED chatVars
  <2>1. TicketInv'
    BY <1>0, <1>1, TicketFrame DEF chatVars, ticketState
  <2>2. RefreshInv'
    BY <1>0, <1>1, RefreshReported DEF chatVars
  <2>3. DataTypes' /\ PairsInv'
    BY <1>0, <1>1 DEF chatVars, DataTypes, PairsInv
  <2>4. KeyInv'
    BY <1>0, <1>1, KeyFrame DEF chatVars
  <2> QED BY <2>1, <2>2, <2>3, <2>4 DEF ChatInv
<1>2. CASE ChatNext
  <2>1. TicketInv' /\ RefreshInv' /\ KeyInv'
    BY <1>2, ChatTurns, ChatStreams, ChatPushes, ChatLoop DEF ChatNext
  <2>2. DataTypes'
    BY <1>0, <1>2, DataTurns, DataStreams, DataPushes, DataLoop DEF ChatNext
  <2>3. PairsInv'
    BY <1>0, <1>2, PairsStep
  <2> QED BY <2>1, <2>2, <2>3 DEF ChatInv
<1> QED BY <1>1, <1>2

-----------------------------------------------------------------------------
(* The properties.                                                         *)

\* Parted tickets are each in one place.
LEMMA PartedIsTracked == TicketInv => TicketTracked
<1> SUFFICES ASSUME TicketInv, NEW t \in 1..(chatTicket - 1)
             PROVE  IF t \in takenTickets \cup droppedTickets
                    THEN Whereabouts(t) = {}
                    ELSE \E p \in Whereabouts(t) : Whereabouts(t) = {p}
  BY DEF TicketTracked
<1> DEFINE Q == {<<"queued", i>> : i \in {k \in 1..Len(grpcTasks) : grpcTasks[k].ticket = t}}
           W == {<<"worked", w>> : w \in {x \in working : x.ticket = t}}
           F == {<<"answered", i>> : i \in {k \in 1..Len(grpcDone) :
                                              grpcDone[k].ticket = t /\ grpcDone[k].what = "final"}}
           R == {<<"filed", r>> : r \in {x \in chatResults : x = t}}
<1>1. Whereabouts(t) = Q \cup W \cup F \cup R
  BY DEF Whereabouts
<1>2. t # 0
  BY DEF TicketInv, TicketTypes
<1>3. /\ t \notin Queued(grpcTasks) => Q = {}
      /\ t \notin Worked(working) => W = {}
      /\ t \notin Finals(grpcDone) => F = {}
      /\ t \notin chatResults => R = {}
  BY <1>2 DEF Queued, Worked, Finals
<1>4. t \in Queued(grpcTasks) => \E p : Q = {p}
  <2> SUFFICES ASSUME t \in Queued(grpcTasks) PROVE \E p : Q = {p}
    OBVIOUS
  <2>1. PICK i \in 1..Len(grpcTasks) : grpcTasks[i].ticket = t
    BY DEF Queued
  <2>2. \A k \in 1..Len(grpcTasks) : grpcTasks[k].ticket = t => k = i
    BY <1>2, <2>1 DEF TicketInv, Parted, OnceQueued
  <2>3. Q = {<<"queued", i>>}
    BY <2>1, <2>2
  <2> QED BY <2>3
<1>5. t \in Worked(working) => \E p : W = {p}
  <2> SUFFICES ASSUME t \in Worked(working) PROVE \E p : W = {p}
    OBVIOUS
  <2>1. PICK w \in working : w.ticket = t
    BY DEF Worked
  <2>2. \A v \in working : v.ticket = t => v = w
    BY <1>2, <2>1 DEF TicketInv, Parted, OnceWorked
  <2>3. W = {<<"worked", w>>}
    BY <2>1, <2>2
  <2> QED BY <2>3
<1>6. t \in Finals(grpcDone) => \E p : F = {p}
  <2> SUFFICES ASSUME t \in Finals(grpcDone) PROVE \E p : F = {p}
    OBVIOUS
  <2>1. PICK i \in 1..Len(grpcDone) : grpcDone[i].ticket = t /\ grpcDone[i].what = "final"
    BY DEF Finals
  <2>2. \A k \in 1..Len(grpcDone) : grpcDone[k].ticket = t /\ grpcDone[k].what = "final" => k = i
    BY <1>2, <2>1 DEF TicketInv, Parted, OnceFinal
  <2>3. F = {<<"answered", i>>}
    BY <2>1, <2>2
  <2> QED BY <2>3
<1>7. t \in chatResults => R = {<<"filed", t>>}
  OBVIOUS
<1>8. /\ t \in Queued(grpcTasks) => t \notin Worked(working) \cup Finals(grpcDone) \cup chatResults \cup Closed
      /\ t \in Worked(working) => t \notin Finals(grpcDone) \cup chatResults \cup Closed
      /\ t \in Finals(grpcDone) => t \notin chatResults \cup Closed
      /\ t \in chatResults => t \notin Closed
  BY DEF TicketInv, Parted, Apart
<1>9. t \in Queued(grpcTasks) \cup Worked(working) \cup Finals(grpcDone) \cup chatResults \cup Closed
  BY DEF TicketInv, Parted
<1> HIDE DEF Q, W, F, R
<1>10. CASE t \in Closed
  BY <1>1, <1>3, <1>8, <1>10 DEF Closed
<1>11. CASE t \notin Closed
  <2>1. \E p : Q \cup W \cup F \cup R = {p}
    BY <1>3, <1>4, <1>5, <1>6, <1>7, <1>8, <1>9, <1>11
  <2> QED BY <1>1, <1>11, <2>1 DEF Closed
<1> QED BY <1>10, <1>11

\* Every browser that waits for the assistant is answered, once: each ticket is
\* in one place, no batch of an answer is left when it was read, a refresh is
\* running while the console says so, and turns are stored whole.
THEOREM AnswersTrackedAlways == ChatSpec => []AnswersTracked
<1>1. ChatInv => AnswersTracked
  <2> SUFFICES ASSUME ChatInv PROVE AnswersTracked
    OBVIOUS
  <2>1. TicketTracked
    BY PartedIsTracked DEF ChatInv
  <2>2. NoLatePartial
    <3> SUFFICES ASSUME NEW t \in takenTickets
                 PROVE  /\ \A i \in 1..Len(grpcDone) : grpcDone[i].ticket # t
                        /\ t \notin DOMAIN chatPartials
      BY DEF NoLatePartial
    <3>1. t \notin DOMAIN chatPartials
      BY DEF ChatInv, TicketInv, PartsInv, Apart
    <3>2. t \notin Worked(working) /\ t \notin Finals(grpcDone) /\ t # 0
      BY DEF ChatInv, TicketInv, TicketTypes, Parted, Apart, Closed
    <3>3. ASSUME NEW i \in 1..Len(grpcDone), grpcDone[i].ticket = t PROVE FALSE
      <4>1. grpcDone[i] \in DocRecs
        BY DEF ChatInv, TicketInv, TicketTypes
      <4>2. grpcDone[i].what \in {"partial", "final"}
        BY <3>2, <3>3, <4>1 DEF DocRecs
      <4>3. CASE grpcDone[i].what = "final"
        BY <3>2, <3>3, <4>3 DEF Finals
      <4>4. CASE grpcDone[i].what = "partial"
        BY <3>2, <3>3, <4>4 DEF ChatInv, TicketInv, PartsInv, Finals
      <4> QED BY <4>2, <4>3, <4>4
    <3> QED BY <3>1, <3>3
  <2>3. RefreshTracked
    BY DEF ChatInv, RefreshInv, RefreshTracked, EndComes
  <2>4. TurnWhole
    <3> SUFFICES ASSUME NEW q \in chatMessages, q.oid[2] = "user"
                 PROVE  \E a \in chatMessages : /\ a.oid = <<q.oid[1], "assistant">>
                                                /\ a.session = q.session /\ a.seq = q.seq + 1
      BY DEF TurnWhole
    <3>1. q \in QuestionRows
      BY DEF ChatInv, PairsInv, AnswerRows
    <3> QED BY <3>1 DEF ChatInv, PairsInv, Answers
  <2> QED BY <2>1, <2>2, <2>3, <2>4 DEF AnswersTracked
<1> QED BY <1>1, ChatStarts, ChatSteps, PTL DEF ChatSpec

\* One undisturbed push repairs whatever went before it: with no push and no key
\* on its way, the table has the key saved or cleared last unless the write of that
\* one failed, and pretzel-ai runs on it unless the last push was spoiled.
THEOREM PushCarriesKeyAlways == ChatSpec => []PushCarriesKey
<1>1. ChatInv => PushCarriesKey
  BY DEF ChatInv, KeyInv, KeySent, Sound, KeyGood, PushCarriesKey
<1> QED BY <1>1, ChatStarts, ChatSteps, PTL DEF ChatSpec
=============================================================================
