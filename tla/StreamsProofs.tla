----------------------------- MODULE StreamsProofs -----------------------------
(***************************************************************************)
(* What a caller is told of its tasks is true, and a reader of a task's    *)
(* messages follows the log of what was kept: proofs for any set of tasks, *)
(* readers and payloads.  The two kinds of stream share no state, so each  *)
(* has an inductive invariant of its own.                                  *)
(***************************************************************************)
EXTENDS Streams, Sequences, TLAPS

(***************************************************************************)
(* Subscriptions.  A message is true when it is made and stays true: a     *)
(* task that is over and a proof that is gone stay so.                     *)
(***************************************************************************)
Messages == Answers \cup {Heartbeat, EndOfStream}

\* What a message says of its task is so.
Truthful(m) ==
    /\ m[2] = "Succeeded" => task[m[1]] = "Succeeded"
    /\ m[2] = "FailedFatal" => task[m[1]] = "FailedFatal" \/ gone
    /\ m[2] = "UnknownTask" => gone

\* A client's call names tasks, and a call that looks them up the channel it copied.
CallOK(c) ==
    c.kind # None => c.tasks \subseteq Tasks /\ c.tx \in Nat

SubscriptionTypes ==
    /\ task \in [Tasks -> {"live", "Succeeded", "FailedFatal"}]
    /\ gone \in BOOLEAN /\ listed \subseteq Tasks /\ tasks_set \subseteq Tasks
    /\ sub \in Nat /\ handler \in Nat /\ opened \in Nat
    /\ sub <= opened /\ handler <= opened
    /\ outer \subseteq Messages /\ wire \subseteq Messages /\ DOMAIN unacked \subseteq Messages
    /\ unacked \in [DOMAIN unacked -> 0..MaxResends]
    /\ DOMAIN call = {"reader", "asker"} /\ \A w \in {"reader", "asker"} : CallOK(call[w])
    /\ told \in [Tasks -> SUBSET {"Succeeded", "FailedFatal"}]

SubscriptionInv ==
    /\ SubscriptionTypes
    /\ \A m \in outer \cup wire \cup DOMAIN unacked : Truthful(m)
    /\ ToldTheTruth

(***************************************************************************)
(* Message channels.                                                       *)
(***************************************************************************)
\* What a stream is made of: payloads and the end.
Items == Payloads \cup {Channel!Eos}

ChannelTypes ==
    /\ status \in {"running", "retry", "final", "unknown"} /\ failures \in Nat
    /\ logs \in Seq(Seq(Payloads)) /\ entry \in {"absent", "open", "closed"}
    /\ attached \subseteq Readers
    /\ sends \in [Payloads -> {"new", "calling", "waiting", "kept", "dropped"}]
    /\ client \in [Readers -> {"calling", "waiting", "reading", "ended"}]
    /\ stream \in [Readers -> Seq(Items)]
    /\ forwarded \in [Readers -> Seq(Payloads)]
    /\ endedBy \in [Readers -> Nat]

\* An entry has a buffer; an open one belongs to a task that can still send, and
\* only an open one has readers attached; a closed one was closed by an end or a
\* failure of the task.
EntryInv ==
    /\ entry # "absent" => logs # <<>>
    /\ entry = "open" => status \in {"running", "retry"}
    /\ entry = "closed" => status \in {"final", "unknown"} \/ failures > 0
    /\ attached # {} => entry = "open"

\* What is true of one reader r: its stream s, what it has forwarded f, the log e it
\* was attached to last and the state c of its client, against the readers attached
\* (att), the entry's state en and the logs L.

\* How many payloads a stream holds; whether its last item is the end.
HeldIn(s) == Len(Channel!BeforeEnd(s))
Ending(s) == s # <<>> /\ s[Len(s)] = Channel!Eos

\* Only a reading client has a stream, and the end is nowhere but last in it.  It
\* is attached exactly as long as the end has not been put into its stream.
StreamOK(r, s, c, att) ==
    /\ \A i \in 1 .. Len(s) - 1 : s[i] # Channel!Eos
    /\ c # "reading" => s = <<>> /\ r \notin att
    /\ c = "reading" => (r \in att <=> ~Ending(s))

\* The log a reader follows: as long as it is attached it has, or its stream has,
\* all of the last log; once it was told the end that log changes no more.
LogOK(r, s, c, f, e, att, L, en) ==
    /\ e <= Len(L)
    /\ r \in att => e = Len(L)
    /\ c \in {"reading", "ended"} /\ e # 0 => Len(f) + HeldIn(s) >= Len(L[e])
    /\ c \in {"reading", "ended"} /\ r \notin att /\ en = "open" => e # Len(L)

\* With no log nothing was forwarded; with one log, what was forwarded and what the
\* stream holds are its first items in order, and all of them for an attached reader.
PrefixOK(r, s, f, att, L) ==
    /\ Len(L) = 0 => Len(f) = 0 /\ HeldIn(s) = 0
    /\ Len(L) = 1 =>
          /\ Len(f) + HeldIn(s) <= Len(L[1])
          /\ \A i \in 1 .. Len(f) : f[i] = L[1][i]
          /\ \A i \in 1 .. HeldIn(s) : s[i] = L[1][Len(f) + i]
          /\ r \in att => Len(f) + HeldIn(s) = Len(L[1])

\* L2 is L with a payload n more in its last log.
Grown(L, L2, n) ==
    /\ L2 \in Seq(Seq(Payloads)) /\ Len(L2) = Len(L) /\ Len(L) > 0
    /\ \A i \in 1 .. Len(L) - 1 : L2[i] = L[i]
    /\ L2[Len(L)] = Append(L[Len(L)], n)

ReaderOK(r, s, c, f, e, att, L, en) ==
    StreamOK(r, s, c, att) /\ LogOK(r, s, c, f, e, att, L, en) /\ PrefixOK(r, s, f, att, L)

ChannelInv ==
    /\ ChannelTypes /\ EntryInv
    /\ \A r \in Readers :
          ReaderOK(r, stream[r], client[r], forwarded[r], endedBy[r], attached, logs, entry)

\* The calls a client makes are well formed, whatever tasks they name.
LEMMA CallsOK ==
    ASSUME NEW T, T \subseteq Tasks, NEW c \in Nat
    PROVE  CallOK(NoCall) /\ CallOK(Update(T)) /\ CallOK(Open(T)) /\ CallOK(Looking(T, c))
BY Zenon DEF CallOK, NoCall, Update, Open, Looking, None

\* A call that is replaced by a well-formed one leaves the calls well formed (the
\* client's reader and asker).
LEMMA CallReplaced ==
    ASSUME DOMAIN call = {"reader", "asker"}, \A w \in {"reader", "asker"} : CallOK(call[w]),
           NEW v, NEW c, CallOK(c), call' = [call EXCEPT ![v] = c]
    PROVE  DOMAIN call' = {"reader", "asker"} /\ \A w \in {"reader", "asker"} : CallOK(call'[w])
<1>1. \A w \in {"reader", "asker"} : call'[w] \in {c, call[w]}
    BY Zenon
<1> QED
    BY <1>1, Zenon

\* A subscription starts with nothing said (Init).
LEMMA SubscriptionInit == Init => SubscriptionInv
<1> SUFFICES ASSUME Init PROVE SubscriptionInv
    BY Zenon
<1>1. SubscriptionTypes
  <2>1. CallOK(Open({})) /\ CallOK(NoCall)
      BY CallsOK, Zenon
  <2>2. DOMAIN call = {"reader", "asker"} /\ \A w \in {"reader", "asker"} : CallOK(call[w])
      BY <2>1 DEF Init
  <2>3. DOMAIN unacked = {} /\ unacked \in [DOMAIN unacked -> 0..MaxResends]
      BY Zenon DEF Init
  <2>4. /\ task \in [Tasks -> {"live", "Succeeded", "FailedFatal"}] /\ gone \in BOOLEAN
        /\ told \in [Tasks -> SUBSET {"Succeeded", "FailedFatal"}]
      BY Zenon DEF Init
  <2>5. /\ listed \subseteq Tasks /\ tasks_set \subseteq Tasks
        /\ sub \in Nat /\ handler \in Nat /\ opened \in Nat /\ sub <= opened /\ handler <= opened
        /\ outer \subseteq Messages /\ wire \subseteq Messages
      BY DEF Init
  <2> QED
      BY <2>2, <2>3, <2>4, <2>5, Zenon DEF SubscriptionTypes
<1> QED
    BY <1>1, Zenon DEF Init, SubscriptionInv, ToldTheTruth, SubscriptionTypes

\* What is said of a task, by a message or to the caller, is true after every step
\* of the coordinator, the sender task and the client.
LEMMA SubscriptionStep == SubscriptionInv /\ [Next]_vars => SubscriptionInv'
<1> SUFFICES ASSUME SubscriptionInv, [Next]_vars PROVE SubscriptionInv'
    BY Zenon
<1> DEFINE Said == outer \cup wire \cup DOMAIN unacked
           Calls == DOMAIN call = {"reader", "asker"} /\ \A w \in {"reader", "asker"} : CallOK(call[w])
           Unacked == DOMAIN unacked \subseteq Messages /\ unacked \in [DOMAIN unacked -> 0..MaxResends]
           Wire == outer \subseteq Messages /\ wire \subseteq Messages
           Channels == /\ sub \in Nat /\ handler \in Nat /\ opened \in Nat
                       /\ sub <= opened /\ handler <= opened
           True(m) == Truthful(m)
<1>1. /\ task \in [Tasks -> {"live", "Succeeded", "FailedFatal"}] /\ gone \in BOOLEAN
      /\ listed \subseteq Tasks /\ tasks_set \subseteq Tasks
      /\ Channels /\ Wire /\ Unacked /\ Calls
      /\ told \in [Tasks -> SUBSET {"Succeeded", "FailedFatal"}]
      /\ (\A m \in Said : True(m)) /\ ToldTheTruth
    BY Zenon DEF SubscriptionInv, SubscriptionTypes

\* A step that ends no task: what was said stays true, and what is new must be.
<1>2. ASSUME UNCHANGED <<task, gone, told>>,
             listed' \subseteq Tasks, tasks_set' \subseteq Tasks,
             Channels', Wire', Unacked', Calls', \A m \in Said' : m \in Said \/ True(m)
      PROVE  SubscriptionInv'
  <2>1. \A m : True(m)' <=> True(m)
      BY <1>2, Zenon DEF Truthful
  <2>2. SubscriptionTypes'
      BY <1>1, <1>2, Zenon DEF SubscriptionTypes
  <2>3. \A m \in Said' : True(m)'
      BY <1>1, <1>2, <2>1, Zenon
  <2>4. ToldTheTruth'
      BY <1>1, <1>2, Zenon DEF ToldTheTruth
  <2> QED
      BY <2>2, <2>3, <2>4, Zenon DEF SubscriptionInv

\* Tasks and proof end: what was said before stays true.
<1>3. ASSUME NEW t \in Tasks, NEW s \in Outcomes, TaskEnds(t, s) PROVE SubscriptionInv'
  <2>1. /\ s \in {"Succeeded", "FailedFatal"} /\ task[t] = "live" /\ ~gone /\ gone' = gone
        /\ task' = [task EXCEPT ![t] = s] /\ UNCHANGED <<wire, unacked, told, tasks_set, call, sub, handler, opened>>
        /\ listed' \subseteq Tasks
      BY <1>1, <1>3, SubscribersAssumption, Zenon DEF TaskEnds, readerVars
  <2>2. outer' \subseteq outer \cup {<<t, s>>}
      BY <1>3, Zenon DEF TaskEnds, NotifySubscribers, Sent
  <2>3. <<t, s>> \in Messages /\ True(<<t, s>>)'
      BY <1>1, <2>1, Zenon DEF Messages, Answers, Truthful
  <2>4. ASSUME NEW m \in Messages, True(m) PROVE True(m)'
      BY <1>1, <2>1, <2>4 DEF Messages, Answers, Truthful, Heartbeat, EndOfStream
  <2>5. Wire' /\ \A m \in Said' : True(m)'
      BY <1>1, <2>1, <2>2, <2>3, <2>4, Zenon
  <2>6. ToldTheTruth'
      BY <1>1, <2>1, Zenon DEF ToldTheTruth
  <2>7. SubscriptionTypes'
      BY <1>1, <2>1, <2>5, Zenon DEF SubscriptionTypes, CallOK
  <2> QED
      BY <2>5, <2>6, <2>7, Zenon DEF SubscriptionInv
<1>4. ASSUME ProofRemoved PROVE SubscriptionInv'
  <2>1. /\ ~gone /\ gone' /\ gone' \in BOOLEAN /\ listed' = {}
        /\ UNCHANGED <<task, wire, unacked, told, tasks_set, call, sub, handler, opened>>
      BY <1>4, Zenon DEF ProofRemoved, readerVars
  <2>2. outer' \subseteq outer \cup {<<t, "FailedFatal">> : t \in Tasks}
      BY <1>4, Zenon DEF ProofRemoved, NotifySubscribers, Sent
  <2>3. ASSUME NEW t \in Tasks PROVE <<t, "FailedFatal">> \in Messages /\ True(<<t, "FailedFatal">>)'
      BY <2>1, Zenon DEF Messages, Answers, Truthful
  <2>4. ASSUME NEW m, True(m) PROVE True(m)'
      BY <2>1, <2>4, Zenon DEF Truthful
  <2>5. Wire' /\ \A m \in Said' : True(m)'
      BY <1>1, <2>1, <2>2, <2>3, <2>4, SMTT(30)
  <2>6. ToldTheTruth'
      BY <1>1, <2>1, Zenon DEF ToldTheTruth
  <2>7. SubscriptionTypes'
      BY <1>1, <2>1, <2>5, Zenon DEF SubscriptionTypes, CallOK
  <2> QED
      BY <2>5, <2>6, <2>7, Zenon DEF SubscriptionInv
<1>5. CASE EvictSubscriber \/ GoesStale
    BY <1>1, <1>2, <1>5 DEF EvictSubscriber, GoesStale, serverVars, readerVars
<1>6. ASSUME NEW m \in {Heartbeat, EndOfStream}, Sent(sub, {m}),
             UNCHANGED <<coordVars, handler, opened, unacked, wire, call, readerVars>>
      PROVE  SubscriptionInv'
  <2>1. outer' \subseteq outer \cup {m}
      BY <1>6, Zenon DEF Sent
  <2>2. m \in Messages /\ True(m)
      BY <1>6 DEF Messages, Truthful, Heartbeat, EndOfStream
  <2> QED
      BY <1>1, <1>2, <1>6, <2>1, <2>2, Zenon DEF coordVars, readerVars
<1>7. CASE SendHeartbeat \/ Shutdown
    BY <1>6, <1>7, Zenon DEF SendHeartbeat, Shutdown
<1>8. ASSUME NEW m \in outer, Forward(m) PROVE SubscriptionInv'
  <2>1. /\ outer' \subseteq outer /\ wire' \subseteq wire \cup {m} /\ DOMAIN unacked' = DOMAIN unacked \cup {m}
        /\ UNCHANGED <<coordVars, handler, opened, call, readerVars>>
      BY <1>8, Zenon DEF Forward, OnWire
  <2>2. unacked' \in [DOMAIN unacked' -> 0..MaxResends]
      BY <1>1, <1>8, SubscribersAssumption DEF Forward
  <2> QED
      BY <1>1, <1>2, <2>1, <2>2, Zenon DEF coordVars, readerVars
<1>9. ASSUME NEW M \in SUBSET DOMAIN unacked, Resend(M) PROVE SubscriptionInv'
  <2>1. /\ outer' = outer /\ wire' \subseteq wire \cup DOMAIN unacked /\ DOMAIN unacked' \subseteq DOMAIN unacked
        /\ UNCHANGED <<coordVars, handler, opened, call, readerVars>>
      BY <1>9, Zenon DEF Resend, OnWire
  <2>2. unacked' \in [DOMAIN unacked' -> 0..MaxResends]
      BY <1>1, <1>9, SubscribersAssumption DEF Resend, KeepsTrying
  <2> QED
      BY <1>1, <1>2, <2>1, <2>2, Zenon DEF coordVars, readerVars
<1>10. CASE SenderEnds
  <2>1. DOMAIN unacked' = {} /\ unacked' \in [DOMAIN unacked' -> 0..MaxResends]
      BY <1>10, Zenon DEF SenderEnds
  <2> QED
      BY <1>1, <1>2, <1>10, <2>1 DEF SenderEnds, coordVars, readerVars
<1>11. CASE OpenSub
  <2>1. /\ sub' = opened + 1 /\ handler' = opened + 1 /\ opened' = opened + 1
        /\ outer' = {} /\ wire' = {Heartbeat} /\ UNCHANGED <<task, gone, listed, readerVars>>
        /\ unacked' = (IF handler = 0 THEN [x \in {} |-> 0] ELSE unacked)
        /\ After("reader", call.reader.tasks, opened + 1) /\ call.reader.kind = "open"
      BY <1>11, Zenon DEF OpenSub, CreateSubscriber
  <2>2. Channels' /\ Wire'
      BY <1>1, <2>1 DEF Messages
  <2>3. Unacked' /\ DOMAIN unacked' \subseteq DOMAIN unacked
    <3>1. CASE handler = 0
      <4>1. DOMAIN unacked' = {} /\ unacked' \in [DOMAIN unacked' -> 0..MaxResends]
          BY <2>1, <3>1, Zenon
      <4> QED
          BY <4>1, Zenon
    <3>2. CASE handler # 0
        BY <1>1, <2>1, <3>2, Zenon
    <3> QED
        BY <3>1, <3>2, Zenon
  <2>4. True(Heartbeat)
      BY Zenon DEF Truthful, Heartbeat
  <2>5. call.reader.tasks \subseteq Tasks
      BY <1>1, <2>1, Zenon DEF CallOK, None
  <2>6. Calls'
    <3> opened + 1 \in Nat
        BY <1>1
    <3>1. CallOK(Looking(call.reader.tasks, opened + 1)) /\ CallOK(NoCall)
        BY <2>5, CallsOK, Zenon
    <3>2. PICK c : CallOK(c) /\ call' = [call EXCEPT !["reader"] = c]
        BY <2>1, <3>1, Zenon DEF After
    <3> QED
        BY <1>1, <3>2, CallReplaced, Zenon
  <2> QED
      BY <1>1, <1>2, <2>1, <2>2, <2>3, <2>4, <2>6, Zenon DEF readerVars
<1>12. ASSUME NEW w \in {"reader", "asker"} PROVE call[w].kind # None => call[w].tasks \subseteq Tasks /\ call[w].tx \in Nat
    BY <1>1, Zenon DEF CallOK
<1>13. ASSUME NEW w \in {"reader", "asker"}, UpdateSub(w) \/ UpdateNotFound(w) PROVE SubscriptionInv'
  <2>1. Calls'
    <3>1. call[w].tasks \subseteq Tasks
        BY <1>12, <1>13, Zenon DEF UpdateSub, UpdateNotFound, None
    <3> QED
        BY <1>1, <1>13, <3>1, CallsOK, CallReplaced, ZenonT(30) DEF UpdateSub, UpdateNotFound, After
  <2> QED
      BY <1>1, <1>2, <1>13, <2>1, Zenon DEF UpdateSub, UpdateNotFound, serverVars, coordVars, readerVars
<1>14. ASSUME NEW w \in {"reader", "asker"}, AddSubscriptions(w) PROVE SubscriptionInv'
  <2>1. call[w].tasks \subseteq Tasks
      BY <1>12, <1>14, Zenon DEF AddSubscriptions, None
  <2>2. Calls'
      BY <1>1, <1>14, CallsOK, CallReplaced, Zenon DEF AddSubscriptions
  <2>3. outer' \subseteq outer \cup AnswersFor(call[w].tasks)
      BY <1>14, Zenon DEF AddSubscriptions, Sent
  <2>4. ASSUME NEW m \in AnswersFor(call[w].tasks) PROVE m \in Messages /\ True(m)
    <3>1. PICK t \in call[w].tasks : (gone \/ task[t] # "live") /\ m = <<t, IF gone THEN "UnknownTask" ELSE task[t]>>
        BY Zenon DEF AnswersFor
    <3> QED
        BY <1>1, <2>1, <3>1, Zenon DEF Messages, Answers, Truthful
  <2>5. Wire' /\ \A m \in Said' : m \in Said \/ True(m)
      BY <1>1, <1>14, <2>3, <2>4, Zenon DEF AddSubscriptions
  <2> QED
      BY <1>1, <1>2, <1>14, <2>1, <2>2, <2>5, Zenon DEF AddSubscriptions, readerVars
<1>15. CASE ReaderRetries \/ AskLost
  <2>1. Calls'
    <3>1. call.reader.kind = "looking" => call.reader.tasks \subseteq Tasks
        BY <1>12, Zenon DEF None
    <3> QED
        BY <1>1, <1>15, <3>1, CallsOK, CallReplaced, Zenon DEF ReaderRetries, AskLost
  <2> QED
      BY <1>1, <1>2, <1>15, <2>1, Zenon DEF ReaderRetries, AskLost, serverVars, coordVars, readerVars
<1>16. ASSUME NEW t \in Tasks, Ask(t) PROVE SubscriptionInv'
  <2>1. Calls'
      BY <1>1, <1>16, CallsOK, CallReplaced, Zenon DEF Ask
  <2> QED
      BY <1>1, <1>2, <1>16, <2>1, Zenon DEF Ask, serverVars, coordVars
<1>17. ASSUME NEW m, Acked(m)
       PROVE  DOMAIN unacked' \subseteq DOMAIN unacked /\ unacked' \in [DOMAIN unacked' -> 0..MaxResends]
    BY <1>1, <1>17, Zenon DEF Acked, Restrict
<1>18. CASE Close \/ Leave \/ StreamBreaks
    BY <1>1, <1>2, <1>18, Zenon DEF Close, Leave, StreamBreaks, ReadEnds, coordVars, serverVars, readerVars
<1>19. CASE ReadEndOfStream
    BY <1>1, <1>2, <1>17, <1>19, Zenon DEF ReadEndOfStream, ReadEnds, coordVars
<1>20. CASE ReadHeartbeat
  <2>1. Calls'
    <3>1. PICK S \in KeepAliveNames(tasks_set) : call' = [call EXCEPT !.reader = Update(S)]
        BY <1>20, Zenon DEF ReadHeartbeat
    <3>2. S \subseteq Tasks
        BY <1>1, <3>1, Zenon DEF KeepAliveNames
    <3> QED
        BY <1>1, <3>1, <3>2, CallsOK, CallReplaced, Zenon
  <2> QED
      BY <1>1, <1>2, <1>17, <1>20, <2>1, Zenon DEF ReadHeartbeat, coordVars, readerVars
<1>21. CASE Reopen
  <2>1. Calls'
      BY <1>1, <1>21, CallsOK, CallReplaced, Zenon DEF Reopen
  <2> QED
      BY <1>1, <1>2, <1>21, <2>1, Zenon DEF Reopen, coordVars, readerVars
<1>22. ASSUME NEW t \in Tasks, NEW s \in {"Succeeded", "FailedFatal", "UnknownTask"}, ReadAnswer(t, s)
       PROVE  SubscriptionInv'
  <2>1. /\ <<t, s>> \in wire /\ wire' \subseteq wire /\ tasks_set' \subseteq tasks_set
        /\ told' = [told EXCEPT ![t] = @ \cup {Reported(s)}]
        /\ UNCHANGED <<coordVars, handler, opened, outer, call>>
      BY <1>22, Zenon DEF ReadAnswer
  <2>2. Unacked' /\ DOMAIN unacked' \subseteq DOMAIN unacked
      BY <1>1, <1>17, <1>22, Zenon DEF ReadAnswer
  <2>3. True(<<t, s>>)
      BY <1>1, <2>1, Zenon
  <2>4. ToldTheTruth'
    <3>1. /\ Reported(s) = "Succeeded" => task[t] = "Succeeded"
          /\ Reported(s) = "FailedFatal" => task[t] = "FailedFatal" \/ gone
        BY <2>3, Zenon DEF Reported, Truthful
    <3> QED
        BY <1>1, <2>1, <3>1, Zenon DEF ToldTheTruth, coordVars
  <2>5. told' \in [Tasks -> SUBSET {"Succeeded", "FailedFatal"}]
      BY <1>1, <2>1, Zenon DEF Reported
  <2>6. SubscriptionTypes'
      BY <1>1, <2>1, <2>2, <2>5, Zenon DEF SubscriptionTypes, CallOK, coordVars
  <2>7. \A m \in Said' : True(m)'
      BY <1>1, <2>1, <2>2, Zenon DEF Truthful, coordVars
  <2> QED
      BY <2>4, <2>6, <2>7, Zenon DEF SubscriptionInv
<1>23. CASE UNCHANGED vars
    BY <1>1, <1>2, <1>23, Zenon DEF vars, coordVars, serverVars, readerVars
<1> QED
    BY <1>1, <1>3, <1>4, <1>5, <1>7, <1>8, <1>9, <1>10, <1>11, <1>13, <1>14, <1>15, <1>16, <1>18,
       <1>19, <1>20, <1>21, <1>22, <1>23, ZenonT(30) DEF Next

\* The subscription's inductive invariant holds throughout.
THEOREM SubscriptionSafe == Spec => []SubscriptionInv
BY SubscriptionInit, SubscriptionStep, PTL DEF Spec

\* The types of a subscription, and: the caller is told Succeeded only of a task
\* that succeeded and FailedFatal only of one that failed or whose proof is gone,
\* through resends, reopened streams and evictions (notify_subscribers,
\* add_subscriptions, the client's subscriber).
THEOREM AnswersTrue == Spec => []AnswersAreTrue
<1>1. SubscriptionInv => AnswersAreTrue
    BY Zenon DEF SubscriptionInv, SubscriptionTypes, AnswersAreTrue, TypeOK, Messages
<1> QED
    BY <1>1, SubscriptionSafe, PTL

\* The payloads of a stream are its items without the end.
LEMMA HeldItems ==
    ASSUME NEW s \in Seq(Items)
    PROVE  /\ HeldIn(s) = IF Ending(s) THEN Len(s) - 1 ELSE Len(s)
           /\ HeldIn(s) \in Nat
           /\ Channel!BeforeEnd(s) \in Seq(Items)
           /\ \A i \in 1 .. HeldIn(s) : Channel!BeforeEnd(s)[i] = s[i]
<1>1. CASE Ending(s)
  <2>1. Len(s) \in Nat /\ Len(s) > 0
      BY <1>1 DEF Ending
  <2>2. Channel!BeforeEnd(s) = SubSeq(s, 1, Len(s) - 1)
      BY <1>1, Zenon DEF Ending, Channel!BeforeEnd
  <2>3. ASSUME NEW k \in Nat, k <= Len(s)
        PROVE  LET u == SubSeq(s, 1, k) IN u \in Seq(Items) /\ Len(u) = k /\ \A i \in 1 .. k : u[i] = s[i]
      BY <2>3
  <2>4. Len(s) - 1 \in Nat /\ Len(s) - 1 <= Len(s)
      BY <2>1
  <2> QED
      BY <1>1, <2>2, <2>3, <2>4, ZenonT(30) DEF HeldIn
<1>2. CASE ~Ending(s)
    BY <1>2 DEF Ending, HeldIn, Channel!BeforeEnd
<1> QED
    BY <1>1, <1>2, Zenon

\* A payload pushed to a stream that has not ended (push).
LEMMA PayloadAppended ==
    ASSUME NEW s \in Seq(Items), NEW n \in Payloads, ~Ending(s),
           \A i \in 1 .. Len(s) - 1 : s[i] # Channel!Eos
    PROVE  LET t == Append(s, n) IN
           /\ t \in Seq(Items) /\ ~Ending(t) /\ HeldIn(t) = HeldIn(s) + 1 /\ HeldIn(s) = Len(s)
           /\ \A i \in 1 .. Len(t) - 1 : t[i] # Channel!Eos
           /\ \A i \in 1 .. HeldIn(s) : t[i] = s[i]
           /\ t[HeldIn(s) + 1] = n
<1> DEFINE t == Append(s, n)
<1>1. t \in Seq(Items) /\ Len(t) = Len(s) + 1 /\ t[Len(s) + 1] = n /\ \A i \in 1 .. Len(s) : t[i] = s[i]
    BY DEF Items
<1>2. n # Channel!Eos
    BY PayloadsAssumption, Zenon
<1>3. ~Ending(t)
    BY <1>1, <1>2, Zenon DEF Ending
<1>4. HeldIn(s) = Len(s) /\ HeldIn(t) = Len(t)
    BY <1>1, <1>3, HeldItems, ZenonT(30)
<1>5. \A i \in 1 .. Len(s) : s[i] # Channel!Eos
    BY DEF Ending
<1> QED
    BY <1>1, <1>3, <1>4, <1>5

\* The end put behind the payloads of a stream (close_task_channel).
LEMMA EndAppended ==
    ASSUME NEW s \in Seq(Items), ~Ending(s), \A i \in 1 .. Len(s) - 1 : s[i] # Channel!Eos
    PROVE  LET t == Append(s, Channel!Eos) IN
           /\ t \in Seq(Items) /\ Ending(t) /\ HeldIn(t) = HeldIn(s) /\ HeldIn(s) = Len(s)
           /\ \A i \in 1 .. Len(t) - 1 : t[i] # Channel!Eos
           /\ \A i \in 1 .. HeldIn(s) : t[i] = s[i]
<1> DEFINE t == Append(s, Channel!Eos)
<1>1. /\ t \in Seq(Items) /\ Len(t) = Len(s) + 1 /\ t[Len(s) + 1] = Channel!Eos
      /\ \A i \in 1 .. Len(s) : t[i] = s[i]
    BY DEF Items
<1>3. Ending(t)
    BY <1>1 DEF Ending
<1>4. HeldIn(s) = Len(s) /\ HeldIn(t) = Len(t) - 1
    BY <1>1, <1>3, HeldItems, ZenonT(30)
<1>5. \A i \in 1 .. Len(s) : s[i] # Channel!Eos
    BY DEF Ending
<1> QED
    BY <1>1, <1>3, <1>4, <1>5

\* The first item of a stream, a payload, is read (drive_message_stream).
LEMMA PayloadRead ==
    ASSUME NEW s \in Seq(Items), s # <<>>, Head(s) # Channel!Eos,
           \A i \in 1 .. Len(s) - 1 : s[i] # Channel!Eos
    PROVE  LET t == Tail(s) IN
           /\ t \in Seq(Items) /\ (Ending(t) <=> Ending(s)) /\ HeldIn(s) = HeldIn(t) + 1
           /\ Head(s) \in Payloads /\ Head(s) = s[1]
           /\ \A i \in 1 .. Len(t) - 1 : t[i] # Channel!Eos
           /\ \A i \in 1 .. HeldIn(t) : t[i] = s[i + 1]
<1> DEFINE t == Tail(s)
<1>1. /\ t \in Seq(Items) /\ Len(t) = Len(s) - 1 /\ Len(s) \in Nat /\ Len(s) > 0
      /\ \A i \in 1 .. Len(t) : t[i] = s[i + 1]
      /\ Head(s) = s[1] /\ Head(s) \in Items
    OBVIOUS
<1>2. Head(s) \in Payloads
    BY <1>1, Zenon DEF Items
<1> HIDE DEF t
<1>3. Ending(t) <=> Ending(s)
  <2>1. CASE Len(s) = 1
    <3>1. s[1] # Channel!Eos
        BY <1>1, Zenon
    <3>2. Len(t) = 0
        BY <1>1, <2>1
    <3>3. t = <<>>
        BY <1>1, <3>2
    <3> QED
        BY <2>1, <3>1, <3>3, Zenon DEF Ending
  <2>2. CASE Len(s) > 1
    <3>1. t # <<>> /\ Len(t) \in 1 .. Len(t) /\ Len(t) + 1 = Len(s)
        BY <1>1, <2>2
    <3>2. t[Len(t)] = s[Len(s)]
        BY <1>1, <3>1, Zenon
    <3> QED
        BY <3>1, <3>2, Zenon DEF Ending
  <2> QED
      BY <1>1, <2>1, <2>2
<1>4. HeldIn(s) = HeldIn(t) + 1 /\ HeldIn(t) <= Len(t) /\ HeldIn(t) \in Nat
  <2>1. /\ HeldIn(s) = IF Ending(s) THEN Len(s) - 1 ELSE Len(s)
        /\ HeldIn(t) = IF Ending(t) THEN Len(t) - 1 ELSE Len(t)
        /\ HeldIn(t) \in Nat
      BY <1>1, HeldItems, ZenonT(30)
  <2> QED
      BY <1>1, <1>3, <2>1
<1> QED
    BY <1>1, <1>2, <1>3, <1>4 DEF t

\* A reader that a step does not touch, when no entry opens and no log changes.
LEMMA ReaderStays ==
    ASSUME NEW r, NEW s \in Seq(Items), NEW c, NEW f \in Seq(Payloads), NEW e \in Nat,
           NEW att, NEW L \in Seq(Seq(Payloads)), NEW en, ReaderOK(r, s, c, f, e, att, L, en),
           NEW att2, r \in att2 <=> r \in att, NEW en2, en2 = en \/ en2 # "open"
    PROVE  ReaderOK(r, s, c, f, e, att2, L, en2)
BY Zenon DEF ReaderOK, StreamOK, LogOK, PrefixOK

\* A reader that is not attached, when another payload is pushed to the open entry:
\* its own log is an older one, or the only one, of which it has a prefix.
LEMMA ReaderPassedBy ==
    ASSUME NEW r, NEW s \in Seq(Items), NEW c, NEW f \in Seq(Payloads), NEW e \in Nat,
           NEW att, NEW L \in Seq(Seq(Payloads)), ReaderOK(r, s, c, f, e, att, L, "open"),
           r \notin att, NEW n \in Payloads, NEW L2, Grown(L, L2, n)
    PROVE  ReaderOK(r, s, c, f, e, att, L2, "open")
<1> Len(L2) = Len(L) /\ Len(L) > 0 /\ (\A i \in 1 .. Len(L) - 1 : L2[i] = L[i]) /\ L2[Len(L)] = Append(L[Len(L)], n)
    BY Zenon DEF Grown
<1>1. HeldIn(s) \in Nat /\ Len(L) \in Nat /\ L[Len(L)] \in Seq(Payloads)
  <2>1. Len(L) \in 1 .. Len(L)
      OBVIOUS
  <2> QED
      BY <2>1, HeldItems
<1>2. StreamOK(r, s, c, att) /\ LogOK(r, s, c, f, e, att, L, "open") /\ PrefixOK(r, s, f, att, L)
    BY Zenon DEF ReaderOK
<1>3. LogOK(r, s, c, f, e, att, L2, "open")
  <2>1. c \in {"reading", "ended"} /\ e # 0 => e \in 1 .. Len(L) - 1
      BY <1>1, <1>2, SMTT(30) DEF LogOK
  <2> QED
      BY <1>2, <2>1, Zenon DEF LogOK
<1>4. PrefixOK(r, s, f, att, L2)
  <2>1. CASE Len(L) = 1
    <3>1. L[1] \in Seq(Payloads) /\ L2[1] = Append(L[1], n)
        BY <1>1, <2>1, Zenon
    <3>2. Len(L2[1]) = Len(L[1]) + 1 /\ \A i \in 1 .. Len(L[1]) : L2[1][i] = L[1][i]
        BY <3>1
    <3>3. /\ Len(f) + HeldIn(s) <= Len(L[1])
          /\ \A i \in 1 .. Len(f) : f[i] = L[1][i]
          /\ \A i \in 1 .. HeldIn(s) : s[i] = L[1][Len(f) + i]
        BY <1>2, <2>1, Zenon DEF PrefixOK
    <3>4. \A i \in 1 .. Len(f) : f[i] = L2[1][i]
        BY <1>1, <3>1, <3>2, <3>3, SMTT(30)
    <3>5. \A i \in 1 .. HeldIn(s) : s[i] = L2[1][Len(f) + i]
        BY <1>1, <3>1, <3>2, <3>3, SMTT(30)
    <3>6. Len(f) + HeldIn(s) <= Len(L2[1])
        BY <1>1, <3>1, <3>2, <3>3, SMTT(30)
    <3> QED
        BY <2>1, <3>4, <3>5, <3>6, SMTT(30) DEF PrefixOK
  <2> QED
      BY <2>1 DEF PrefixOK
<1> QED
    BY <1>2, <1>3, <1>4, Zenon DEF ReaderOK

\* A reader that is not attached, when a new entry opens with a log of its own.
LEMMA ReaderSeesNewLog ==
    ASSUME NEW r, NEW s \in Seq(Items), NEW c, NEW f \in Seq(Payloads), NEW e \in Nat,
           NEW att, NEW L \in Seq(Seq(Payloads)), NEW en, ReaderOK(r, s, c, f, e, att, L, en),
           r \notin att, NEW att2, r \notin att2, NEW L2, Len(L2) = Len(L) + 1,
           \A i \in 1 .. Len(L) : L2[i] = L[i], L2[Len(L) + 1] \in Seq(Payloads)
    PROVE  ReaderOK(r, s, c, f, e, att2, L2, "open")
<1>1. HeldIn(s) \in Nat /\ Len(L) \in Nat
    BY HeldItems
<1>2. StreamOK(r, s, c, att) /\ LogOK(r, s, c, f, e, att, L, en) /\ PrefixOK(r, s, f, att, L)
    BY Zenon DEF ReaderOK
<1>3. LogOK(r, s, c, f, e, att2, L2, "open")
    BY <1>1, <1>2 DEF LogOK
<1>4. PrefixOK(r, s, f, att2, L2)
  <2>1. CASE Len(L) = 0
    <3>1. Len(f) = 0 /\ HeldIn(s) = 0 /\ Len(L2[1]) \in Nat
        BY <1>2, <2>1 DEF PrefixOK
    <3> QED
        BY <2>1, <3>1 DEF PrefixOK
  <2>2. CASE Len(L) # 0
      BY <1>1, <2>2, SMTT(30) DEF PrefixOK
  <2> QED
      BY <2>1, <2>2, Zenon
<1> QED
    BY <1>2, <1>3, <1>4, Zenon DEF ReaderOK, StreamOK

\* An attached reader, when a payload is pushed: log and stream grow by it (push).
LEMMA ReaderPushed ==
    ASSUME NEW r, NEW s \in Seq(Items), NEW c, NEW f \in Seq(Payloads), NEW e \in Nat,
           NEW att, NEW L \in Seq(Seq(Payloads)), NEW en, ReaderOK(r, s, c, f, e, att, L, en),
           r \in att, NEW n \in Payloads, NEW L2, Grown(L, L2, n)
    PROVE  Append(s, n) \in Seq(Items) /\ ReaderOK(r, Append(s, n), c, f, e, att, L2, en)
<1> Len(L2) = Len(L) /\ Len(L) > 0 /\ (\A i \in 1 .. Len(L) - 1 : L2[i] = L[i]) /\ L2[Len(L)] = Append(L[Len(L)], n)
    BY Zenon DEF Grown
<1>1. HeldIn(s) \in Nat /\ Len(L) \in Nat /\ L[Len(L)] \in Seq(Payloads)
  <2>1. Len(L) \in 1 .. Len(L)
      OBVIOUS
  <2> QED
      BY <2>1, HeldItems
<1>2. StreamOK(r, s, c, att) /\ LogOK(r, s, c, f, e, att, L, en) /\ PrefixOK(r, s, f, att, L)
    BY Zenon DEF ReaderOK
<1> DEFINE t == Append(s, n)
<1>3. c = "reading" /\ ~Ending(s) /\ (\A i \in 1 .. Len(s) - 1 : s[i] # Channel!Eos)
    BY <1>2, Zenon DEF StreamOK
<1>4. /\ t \in Seq(Items) /\ ~Ending(t) /\ HeldIn(t) = HeldIn(s) + 1
      /\ \A i \in 1 .. Len(t) - 1 : t[i] # Channel!Eos
      /\ \A i \in 1 .. HeldIn(s) : t[i] = s[i]
      /\ t[HeldIn(s) + 1] = n
    BY <1>3, PayloadAppended, ZenonT(30)
<1> HIDE DEF t
<1>5. StreamOK(r, t, c, att)
    BY <1>3, <1>4, Zenon DEF StreamOK
<1>6. Len(L2[Len(L)]) = Len(L[Len(L)]) + 1
    BY <1>1, SMTT(30)
<1>7. LogOK(r, t, c, f, e, att, L2, en)
    BY <1>1, <1>2, <1>3, <1>4, <1>6, SMTT(30) DEF LogOK
<1>8. PrefixOK(r, t, f, att, L2)
  <2>1. CASE Len(L) = 1
    <3>1. L[1] \in Seq(Payloads) /\ L2[1] = Append(L[1], n)
        BY <1>1, <2>1, Zenon
    <3>2. /\ Len(L2[1]) = Len(L[1]) + 1 /\ \A i \in 1 .. Len(L[1]) : L2[1][i] = L[1][i]
          /\ L2[1][Len(L[1]) + 1] = n
        BY <3>1, SMTT(30)
    <3>3. /\ Len(f) + HeldIn(s) = Len(L[1])
          /\ \A i \in 1 .. Len(f) : f[i] = L[1][i]
          /\ \A i \in 1 .. HeldIn(s) : s[i] = L[1][Len(f) + i]
        BY <1>2, <2>1, Zenon DEF PrefixOK
    <3>4. \A i \in 1 .. Len(f) : f[i] = L2[1][i]
        BY <1>1, <3>1, <3>2, <3>3, SMTT(30)
    <3>5. ASSUME NEW i \in 1 .. HeldIn(t) PROVE t[i] = L2[1][Len(f) + i]
      <4>1. CASE i \in 1 .. HeldIn(s)
        <5>1. Len(f) + i \in 1 .. Len(L[1])
            BY <1>1, <3>1, <3>3, <4>1, SMTT(30)
        <5> QED
            BY <1>4, <3>2, <3>3, <4>1, <5>1, ZenonT(30)
      <4>2. CASE i = HeldIn(s) + 1
          BY <1>1, <1>4, <3>1, <3>2, <3>3, <4>2, SMTT(30)
      <4>3. HeldIn(t) = HeldIn(s) + 1
          BY <1>4, Zenon
      <4>4. HeldIn(s) \in Nat
          BY <1>1, Zenon
      <4>5. i \in 1 .. HeldIn(s) \/ i = HeldIn(s) + 1
          BY <4>3, <4>4, SMTT(30)
      <4> QED
          BY <4>1, <4>2, <4>5, Zenon
    <3>6. Len(f) + HeldIn(t) = Len(L2[1])
        BY <1>1, <1>4, <3>1, <3>2, <3>3, SMTT(30)
    <3> QED
        BY <1>1, <1>4, <2>1, <3>4, <3>5, <3>6 DEF PrefixOK
  <2>2. CASE Len(L) # 1
      BY <1>1, <2>2, SMTT(30) DEF PrefixOK
  <2> QED
      BY <2>1, <2>2, Zenon
<1> QED
    BY <1>4, <1>5, <1>7, <1>8, Zenon DEF ReaderOK, t

\* An attached reader, when the entry is closed (close_task_channel).
LEMMA ReaderEnds ==
    ASSUME NEW r, NEW s \in Seq(Items), NEW c, NEW f \in Seq(Payloads), NEW e \in Nat,
           NEW att, NEW L \in Seq(Seq(Payloads)), NEW en, ReaderOK(r, s, c, f, e, att, L, en),
           r \in att, NEW en2, en2 # "open"
    PROVE  /\ Append(s, Channel!Eos) \in Seq(Items)
           /\ ReaderOK(r, Append(s, Channel!Eos), c, f, e, {}, L, en2)
<1>1. HeldIn(s) \in Nat
    BY HeldItems, Zenon
<1>2. StreamOK(r, s, c, att) /\ LogOK(r, s, c, f, e, att, L, en) /\ PrefixOK(r, s, f, att, L)
    BY Zenon DEF ReaderOK
<1> DEFINE t == Append(s, Channel!Eos)
<1>3. c = "reading" /\ ~Ending(s) /\ (\A i \in 1 .. Len(s) - 1 : s[i] # Channel!Eos)
    BY <1>2, Zenon DEF StreamOK
<1>4. /\ t \in Seq(Items) /\ Ending(t) /\ HeldIn(t) = HeldIn(s)
      /\ \A i \in 1 .. Len(t) - 1 : t[i] # Channel!Eos
      /\ \A i \in 1 .. HeldIn(s) : t[i] = s[i]
    BY <1>3, EndAppended, ZenonT(30)
<1> HIDE DEF t
<1>5. StreamOK(r, t, c, {}) /\ LogOK(r, t, c, f, e, {}, L, en2)
    BY <1>2, <1>3, <1>4, Zenon DEF StreamOK, LogOK
<1>6. PrefixOK(r, t, f, {}, L)
    BY <1>2, <1>4, Zenon DEF PrefixOK
<1> QED
    BY <1>4, <1>5, <1>6, Zenon DEF ReaderOK, t

\* What is replayed of a buffer from an offset on (attach_subscriber).
LEMMA ReplayItems ==
    ASSUME NEW l \in Seq(Payloads), NEW k \in Nat
    PROVE  LET t == Channel!Replay(l, k) IN
           /\ t \in Seq(Items) /\ ~Ending(t) /\ HeldIn(t) = Len(t)
           /\ k + Len(t) >= Len(l) /\ (k <= Len(l) => k + Len(t) = Len(l))
           /\ \A i \in 1 .. Len(t) : t[i] # Channel!Eos /\ t[i] = l[k + i]
<1> DEFINE t == Channel!Replay(l, k)
<1>1. t \in Seq(Payloads) /\ Len(l) \in Nat
    BY DEF Channel!Replay
<1>2. Len(t) = IF k <= Len(l) THEN Len(l) - k ELSE 0
    BY <1>1 DEF Channel!Replay
<1>3. \A i \in 1 .. Len(t) : t[i] = l[k + i]
    BY <1>1, <1>2 DEF Channel!Replay
<1> HIDE DEF t
<1>4. \A i \in 1 .. Len(t) : t[i] \in Payloads /\ t[i] # Channel!Eos
    BY <1>1, PayloadsAssumption
<1>5. t \in Seq(Items)
    BY <1>1 DEF Items
<1>6. ~Ending(t)
    BY <1>1, <1>4 DEF Ending
<1>7. HeldIn(t) = Len(t)
    BY <1>5, <1>6, HeldItems, ZenonT(30)
<1> QED
    BY <1>1, <1>2, <1>3, <1>4, <1>5, <1>6, <1>7, SMTT(30) DEF t

\* A client that subscribes and finds an entry: its stream begins with the buffer
\* from its offset on, and ends there if the entry is closed (attach_subscriber).
LEMMA ReaderAttaches ==
    ASSUME NEW r, NEW s \in Seq(Items), NEW c, c # "reading", NEW f \in Seq(Payloads), NEW e \in Nat,
           NEW att, NEW L \in Seq(Seq(Payloads)), NEW en, ReaderOK(r, s, c, f, e, att, L, en),
           Len(L) > 0
    PROVE  LET t == Channel!Replay(L[Len(L)], Len(f)) IN
           /\ t \in Seq(Items) /\ Append(t, Channel!Eos) \in Seq(Items)
           /\ ReaderOK(r, t, "reading", f, Len(L), att \cup {r}, L, "open")
           /\ att = {} => ReaderOK(r, Append(t, Channel!Eos), "reading", f, Len(L), att, L, "closed")
<1> DEFINE t == Channel!Replay(L[Len(L)], Len(f))
           u == Append(t, Channel!Eos)
<1>1. Len(L) \in Nat /\ Len(f) \in Nat /\ L[Len(L)] \in Seq(Payloads)
  <2>1. Len(L) \in 1 .. Len(L)
      BY SMTT(30)
  <2> QED
      BY <2>1
<1>2. /\ t \in Seq(Items) /\ ~Ending(t) /\ HeldIn(t) = Len(t)
      /\ Len(f) + Len(t) >= Len(L[Len(L)])
      /\ Len(f) <= Len(L[Len(L)]) => Len(f) + Len(t) = Len(L[Len(L)])
      /\ \A i \in 1 .. Len(t) : t[i] # Channel!Eos /\ t[i] = L[Len(L)][Len(f) + i]
    BY <1>1, ReplayItems, ZenonT(30)
<1> HIDE DEF t
<1>3. /\ u \in Seq(Items) /\ Ending(u) /\ HeldIn(u) = HeldIn(t)
      /\ \A i \in 1 .. Len(u) - 1 : u[i] # Channel!Eos
      /\ \A i \in 1 .. HeldIn(t) : u[i] = t[i]
  <2>1. ~Ending(t) /\ \A i \in 1 .. Len(t) - 1 : t[i] # Channel!Eos
      BY <1>2
  <2> QED
      BY <1>2, <2>1, EndAppended, Zenon
<1> HIDE DEF u
<1>4. StreamOK(r, t, "reading", att \cup {r}) /\ LogOK(r, t, "reading", f, Len(L), att \cup {r}, L, "open")
  <2>1. Len(t) \in Nat /\ \A i \in 1 .. Len(t) - 1 : t[i] # Channel!Eos
      BY <1>2
  <2>2. StreamOK(r, t, "reading", att \cup {r})
      BY <1>2, <2>1, ZenonT(30) DEF StreamOK
  <2>3. LogOK(r, t, "reading", f, Len(L), att \cup {r}, L, "open")
      BY <1>1, <1>2, <2>1, SMTT(30) DEF LogOK
  <2> QED
      BY <2>2, <2>3, ZenonT(30)
<1>5. att = {} => StreamOK(r, u, "reading", att) /\ LogOK(r, u, "reading", f, Len(L), att, L, "closed")
    BY <1>1, <1>2, <1>3, SMTT(30) DEF StreamOK, LogOK
<1>6. CASE Len(L) = 1
  <2>1. HeldIn(s) = 0
    <3>1. s = <<>>
        BY Zenon DEF ReaderOK, StreamOK
    <3> QED
        BY <3>1, HeldItems, ZenonT(30) DEF Ending
  <2>2. Len(f) <= Len(L[1]) /\ \A i \in 1 .. Len(f) : f[i] = L[1][i]
      BY <1>1, <1>6, <2>1 DEF ReaderOK, PrefixOK
  <2>3. PrefixOK(r, t, f, att \cup {r}, L)
      BY <1>1, <1>2, <1>6, <2>2, SMTT(30) DEF PrefixOK
  <2>4. att = {} => PrefixOK(r, u, f, att, L)
      BY <1>1, <1>2, <1>3, <1>6, <2>2, SMTT(30) DEF PrefixOK
  <2> QED
      BY <1>2, <1>3, <1>4, <1>5, <2>3, <2>4, ZenonT(30) DEF ReaderOK, t, u
<1>7. CASE Len(L) # 1
  <2>1. PrefixOK(r, t, f, att \cup {r}, L) /\ PrefixOK(r, u, f, att, L)
      BY <1>1, <1>7 DEF PrefixOK
  <2> QED
      BY <1>2, <1>3, <1>4, <1>5, <2>1, ZenonT(30) DEF ReaderOK, t, u
<1> QED
    BY <1>6, <1>7, ZenonT(30)

\* A client that subscribes first: the entry opens with an empty buffer.
LEMMA ReaderOpens ==
    ASSUME NEW r, NEW s \in Seq(Items), NEW c, NEW f \in Seq(Payloads), NEW e \in Nat,
           NEW att, NEW L \in Seq(Seq(Payloads)), NEW en, ReaderOK(r, s, c, f, e, att, L, en)
    PROVE  LET t == Channel!Replay(<<>>, Len(f)) IN
           t \in Seq(Items) /\ ReaderOK(r, t, "reading", f, Len(L) + 1, att \cup {r}, Append(L, <<>>), "open")
<1> DEFINE t == Channel!Replay(<<>>, Len(f))
           L2 == Append(L, <<>>)
<1>1. Len(L) \in Nat /\ Len(f) \in Nat /\ <<>> \in Seq(Payloads) /\ Len(L2) = Len(L) + 1 /\ L2[Len(L) + 1] = <<>>
    OBVIOUS
<1>2. t \in Seq(Items) /\ ~Ending(t) /\ HeldIn(t) = Len(t) /\ Len(t) = 0
  <2>1. Len(t) = 0
      BY <1>1 DEF Channel!Replay
  <2> QED
      BY <1>1, <2>1, ReplayItems, ZenonT(30)
<1> HIDE DEF t, L2
<1>3. StreamOK(r, t, "reading", att \cup {r}) /\ LogOK(r, t, "reading", f, Len(L) + 1, att \cup {r}, L2, "open")
    BY <1>1, <1>2 DEF StreamOK, LogOK
<1>4. PrefixOK(r, t, f, att \cup {r}, L2)
  <2>1. Len(L) = 0 => Len(f) = 0
      BY Zenon DEF ReaderOK, PrefixOK
  <2> QED
      BY <1>1, <1>2, <2>1, SMTT(30) DEF PrefixOK
<1> QED
    BY <1>2, <1>3, <1>4, Zenon DEF ReaderOK, t, L2

\* The streams with nothing but the end, and with nothing.
LEMMA EmptyStreams ==
    /\ <<>> \in Seq(Items) /\ ~Ending(<<>>) /\ HeldIn(<<>>) = 0
    /\ <<Channel!Eos>> \in Seq(Items) /\ Ending(<<Channel!Eos>>) /\ HeldIn(<<Channel!Eos>>) = 0
    /\ Len(<<>>) = 0 /\ Len(<<Channel!Eos>>) = 1
<1>1. <<>> \in Seq(Items) /\ <<Channel!Eos>> \in Seq(Items) /\ Len(<<>>) = 0 /\ Len(<<Channel!Eos>>) = 1
    BY DEF Items
<1>2. ~Ending(<<>>) /\ Ending(<<Channel!Eos>>)
    BY Zenon DEF Ending
<1>3. HeldIn(<<>>) = 0
    BY <1>1, <1>2, HeldItems, ZenonT(30)
<1>4. HeldIn(<<Channel!Eos>>) = 0
  <2> DEFINE t == <<Channel!Eos>>
  <2>1. t \in Seq(Items) /\ Ending(t) /\ Len(t) = 1
      BY <1>1, <1>2, ZenonT(30)
  <2> HIDE DEF t
  <2>2. HeldIn(t) = Len(t) - 1
      BY <2>1, HeldItems, ZenonT(30)
  <2> QED
      BY <2>1, <2>2 DEF t
<1> QED
    BY <1>1, <1>2, <1>3, <1>4, Zenon

\* A client that subscribes when there is no entry and the task cannot send any
\* more: it is told the end at once (subscribe_task_channel).
LEMMA ReaderToldBareEnd ==
    ASSUME NEW r, NEW s \in Seq(Items), NEW c, c # "reading", NEW f \in Seq(Payloads), NEW e \in Nat,
           NEW att, NEW L \in Seq(Seq(Payloads)), NEW en, en # "open", ReaderOK(r, s, c, f, e, att, L, en)
    PROVE  ReaderOK(r, <<Channel!Eos>>, "reading", f, 0, att, L, en)
<1> DEFINE t == <<Channel!Eos>>
<1>1. t \in Seq(Items) /\ Ending(t) /\ HeldIn(t) = 0 /\ Len(t) = 1 /\ Len(L) \in Nat
    BY EmptyStreams
<1>2. s = <<>> /\ r \notin att
    BY Zenon DEF ReaderOK, StreamOK
<1>3. HeldIn(s) = 0
    BY <1>2, EmptyStreams, Zenon
<1> HIDE DEF t
<1>4. StreamOK(r, t, "reading", att) /\ LogOK(r, t, "reading", f, 0, att, L, en)
    BY <1>1, <1>2, SMTT(30) DEF StreamOK, LogOK
<1>5. PrefixOK(r, t, f, att, L)
    BY <1>1, <1>2, <1>3, SMTT(30) DEF ReaderOK, PrefixOK
<1> QED
    BY <1>4, <1>5, Zenon DEF ReaderOK, t

\* A payload goes from the stream to the caller (drive_message_stream).
LEMMA ReaderReads ==
    ASSUME NEW r, NEW s \in Seq(Items), NEW c, c = "reading", NEW f \in Seq(Payloads), NEW e \in Nat,
           NEW att, NEW L \in Seq(Seq(Payloads)), NEW en, ReaderOK(r, s, c, f, e, att, L, en),
           s # <<>>, Head(s) # Channel!Eos
    PROVE  /\ Tail(s) \in Seq(Items) /\ Append(f, Head(s)) \in Seq(Payloads)
           /\ ReaderOK(r, Tail(s), c, Append(f, Head(s)), e, att, L, en)
<1> DEFINE t == Tail(s)
           g == Append(f, Head(s))
<1>1. StreamOK(r, s, c, att) /\ LogOK(r, s, c, f, e, att, L, en) /\ PrefixOK(r, s, f, att, L)
    BY Zenon DEF ReaderOK
<1>2. \A i \in 1 .. Len(s) - 1 : s[i] # Channel!Eos
    BY <1>1, ZenonT(30) DEF StreamOK
<1>3. /\ t \in Seq(Items) /\ (Ending(t) <=> Ending(s)) /\ HeldIn(s) = HeldIn(t) + 1
      /\ Head(s) \in Payloads /\ Head(s) = s[1]
      /\ \A i \in 1 .. Len(t) - 1 : t[i] # Channel!Eos
      /\ \A i \in 1 .. HeldIn(t) : t[i] = s[i + 1]
    BY <1>2, PayloadRead, Zenon
<1>4. HeldIn(t) \in Nat /\ HeldIn(s) \in Nat
    BY <1>3, HeldItems, ZenonT(30)
<1>5. /\ g \in Seq(Payloads) /\ Len(g) = Len(f) + 1 /\ Len(f) \in Nat
      /\ g[Len(f) + 1] = s[1] /\ \A i \in 1 .. Len(f) : g[i] = f[i]
    BY <1>3
<1> HIDE DEF t, g
<1>6. StreamOK(r, t, c, att)
    BY <1>1, <1>3, Zenon DEF StreamOK
<1>7. Len(g) + HeldIn(t) = Len(f) + HeldIn(s)
    BY <1>3, <1>4, <1>5, SMTT(30)
<1>8. LogOK(r, t, c, g, e, att, L, en)
    BY <1>1, <1>7, Zenon DEF LogOK
<1>9. CASE Len(L) = 1
  <2>1. /\ Len(f) + HeldIn(s) <= Len(L[1])
        /\ \A i \in 1 .. Len(f) : f[i] = L[1][i]
        /\ \A i \in 1 .. HeldIn(s) : s[i] = L[1][Len(f) + i]
        /\ r \in att => Len(f) + HeldIn(s) = Len(L[1])
      BY <1>1, <1>9, Zenon DEF PrefixOK
  <2>2. s[1] = L[1][Len(f) + 1]
      BY <1>3, <1>4, <2>1, SMTT(30)
  <2>3. ASSUME NEW i \in 1 .. Len(g) PROVE g[i] = L[1][i]
    <3>1. i \in 1 .. Len(f) \/ i = Len(f) + 1
        BY <1>5
    <3> QED
        BY <1>5, <2>1, <2>2, <3>1, Zenon
  <2>4. ASSUME NEW i \in 1 .. HeldIn(t) PROVE t[i] = L[1][Len(g) + i]
    <3>1. i + 1 \in 1 .. HeldIn(s) /\ Len(f) + (i + 1) = Len(g) + i
        BY <1>3, <1>4, <1>5, SMTT(30)
    <3> QED
        BY <1>3, <2>1, <3>1, ZenonT(30)
  <2>5. PrefixOK(r, t, g, att, L)
      BY <1>7, <1>9, <2>1, <2>3, <2>4, SMTT(30) DEF PrefixOK
  <2> QED
      BY <1>3, <1>5, <1>6, <1>8, <2>5, ZenonT(30) DEF ReaderOK, t, g
<1>10. CASE Len(L) # 1
  <2>1. Len(L) # 0
      BY <1>1, <1>3, <1>4, SMTT(30) DEF PrefixOK
  <2>2. PrefixOK(r, t, g, att, L)
      BY <1>10, <2>1, Zenon DEF PrefixOK
  <2> QED
      BY <1>3, <1>5, <1>6, <1>8, <2>2, ZenonT(30) DEF ReaderOK, t, g
<1> QED
    BY <1>9, <1>10, Zenon

\* The end is read: the reader was told all of its log (drive_message_stream).
LEMMA ReaderReadsEnd ==
    ASSUME NEW r, NEW s \in Seq(Items), NEW c, c = "reading", NEW f \in Seq(Payloads), NEW e \in Nat,
           NEW att, NEW L \in Seq(Seq(Payloads)), NEW en, ReaderOK(r, s, c, f, e, att, L, en),
           s # <<>>, Head(s) = Channel!Eos
    PROVE  ReaderOK(r, <<>>, "ended", f, e, att, L, en)
<1>1. StreamOK(r, s, c, att) /\ LogOK(r, s, c, f, e, att, L, en) /\ PrefixOK(r, s, f, att, L)
    BY Zenon DEF ReaderOK
<1>2. Len(s) \in Nat /\ Len(s) > 0 /\ Head(s) = s[1]
    OBVIOUS
<1>3. Len(s) = 1
  <2>1. \A i \in 1 .. Len(s) - 1 : s[i] # Channel!Eos
      BY <1>1, Zenon DEF StreamOK
  <2>2. s[1] = Channel!Eos
      BY <1>2, Zenon
  <2>3. ~(1 \in 1 .. Len(s) - 1)
      BY <2>1, <2>2, ZenonT(30)
  <2>4. \A k \in Nat : k > 0 /\ ~(1 \in 1 .. k - 1) => k = 1
      OBVIOUS
  <2> QED
      BY <1>2, <2>3, <2>4, Zenon
<1>4. Ending(s)
    BY <1>2, <1>3, Zenon DEF Ending
<1>5. HeldIn(s) = 0
  <2>1. HeldIn(s) = Len(s) - 1
      BY <1>4, HeldItems, Zenon
  <2> QED
      BY <1>3, <2>1
<1>6. r \notin att
    BY <1>1, <1>4, Zenon DEF StreamOK
<1>7. StreamOK(r, <<>>, "ended", att)
  <2>1. \A i \in 1 .. Len(<<>>) - 1 : <<>>[i] # Channel!Eos
      BY EmptyStreams
  <2> QED
      BY <1>6, <2>1, Zenon DEF StreamOK
<1>8. LogOK(r, <<>>, "ended", f, e, att, L, en)
    BY <1>1, <1>5, <1>6, EmptyStreams, Zenon DEF LogOK
<1>9. PrefixOK(r, <<>>, f, att, L)
  <2>1. HeldIn(<<>>) = HeldIn(s) /\ HeldIn(<<>>) = 0
      BY <1>5, EmptyStreams, Zenon
  <2> QED
      BY <1>1, <1>6, <2>1, SMTT(30) DEF PrefixOK
<1> QED
    BY <1>7, <1>8, <1>9, Zenon DEF ReaderOK

\* The stream breaks: what it held is lost, what was forwarded stays.
LEMMA ReaderBreaks ==
    ASSUME NEW r, NEW s \in Seq(Items), NEW c, NEW f \in Seq(Payloads), NEW e \in Nat,
           NEW att, NEW L \in Seq(Seq(Payloads)), NEW en, ReaderOK(r, s, c, f, e, att, L, en)
    PROVE  ReaderOK(r, <<>>, "calling", f, e, att \ {r}, L, en)
<1>1. LogOK(r, s, c, f, e, att, L, en) /\ PrefixOK(r, s, f, att, L)
    BY Zenon DEF ReaderOK
<1>2. HeldIn(s) \in Nat
    BY HeldItems, Zenon
<1>3. StreamOK(r, <<>>, "calling", att \ {r}) /\ LogOK(r, <<>>, "calling", f, e, att \ {r}, L, en)
    BY <1>1, EmptyStreams DEF StreamOK, LogOK
<1>4. PrefixOK(r, <<>>, f, att \ {r}, L)
  <2>1. CASE Len(L) = 1
    <3>1. Len(L[1]) \in Nat /\ Len(f) \in Nat
      <4>1. 1 \in 1 .. Len(L)
          BY <2>1, SMTT(30)
      <4> QED
          BY <4>1
    <3> QED
        BY <1>1, <1>2, <2>1, <3>1, EmptyStreams, SMTT(30) DEF PrefixOK
  <2>2. CASE Len(L) # 1
      BY <1>1, <2>2, EmptyStreams, Zenon DEF PrefixOK
  <2> QED
      BY <2>1, <2>2, Zenon
<1> QED
    BY <1>3, <1>4, Zenon DEF ReaderOK

\* The last log grows by a payload, the others stay (push).
LEMMA LastGrows ==
    ASSUME NEW L \in Seq(Seq(Payloads)), Len(L) > 0, NEW n \in Payloads
    PROVE  Grown(L, SubSeq(L, 1, Len(L) - 1) \o <<Append(L[Len(L)], n)>>, n)
<1> DEFINE x == Append(L[Len(L)], n)
           A == SubSeq(L, 1, Len(L) - 1)
           L2 == A \o <<x>>
<1>1. Len(L) \in Nat /\ Len(L) - 1 \in Nat /\ Len(L) - 1 <= Len(L) /\ Len(L) \in 1 .. Len(L)
    OBVIOUS
<1>2. x \in Seq(Payloads)
    BY <1>1
<1> HIDE DEF x
<1>3. ASSUME NEW k \in Nat, k <= Len(L)
      PROVE  LET u == SubSeq(L, 1, k) IN u \in Seq(Seq(Payloads)) /\ Len(u) = k /\ \A i \in 1 .. k : u[i] = L[i]
    BY <1>3
<1>4. A \in Seq(Seq(Payloads)) /\ Len(A) = Len(L) - 1 /\ \A i \in 1 .. Len(L) - 1 : A[i] = L[i]
    BY <1>1, <1>3, Zenon
<1> HIDE DEF A
<1>5. L2 \in Seq(Seq(Payloads)) /\ Len(L2) = Len(A) + 1
    BY <1>2, <1>4
<1>6. L2[Len(A) + 1] = x
    BY <1>2, <1>4
<1>7. \A i \in 1 .. Len(A) : L2[i] = A[i]
    BY <1>2, <1>4
<1> HIDE DEF L2
<1>8. Len(A) + 1 = Len(L)
    BY <1>1, <1>4, SMTT(30)
<1>9. Grown(L, L2, n)
    BY <1>4, <1>5, <1>6, <1>7, <1>8, ZenonT(30) DEF Grown, x
<1> QED
    BY <1>9, Zenon DEF A, L2, x

\* The channel starts without an entry (Init).
LEMMA ChannelInit == Channel!Init => ChannelInv
<1> SUFFICES ASSUME Channel!Init PROVE ChannelInv
    BY Zenon
<1>1. ChannelTypes /\ EntryInv
  <2>1. <<>> \in Seq(Items) /\ <<>> \in Seq(Payloads) /\ <<>> \in Seq(Seq(Payloads))
      OBVIOUS
  <2> QED
      BY <2>1, Zenon DEF Channel!Init, ChannelTypes, EntryInv
<1>2. ASSUME NEW r \in Readers
      PROVE  ReaderOK(r, stream[r], client[r], forwarded[r], endedBy[r], attached, logs, entry)
  <2>1. /\ stream[r] = <<>> /\ client[r] = "calling" /\ forwarded[r] = <<>> /\ endedBy[r] = 0
        /\ attached = {} /\ logs = <<>> /\ entry = "absent"
      BY Zenon DEF Channel!Init
  <2>2. StreamOK(r, <<>>, "calling", {}) /\ LogOK(r, <<>>, "calling", <<>>, 0, {}, <<>>, "absent")
      BY EmptyStreams DEF StreamOK, LogOK
  <2>3. PrefixOK(r, <<>>, <<>>, {}, <<>>)
      BY EmptyStreams DEF PrefixOK
  <2> QED
      BY <2>1, <2>2, <2>3, Zenon DEF ReaderOK
<1> QED
    BY <1>1, <1>2, Zenon DEF ChannelInv

\* A reader of the entry, and the entry itself, keep to the invariant in every step
\* of the task, of a sender and of a client.
LEMMA ChannelStep == ChannelInv /\ [Channel!Next]_Channel!vars => ChannelInv'
<1> SUFFICES ASSUME ChannelInv, [Channel!Next]_Channel!vars PROVE ChannelInv'
    BY Zenon
<1> DEFINE Readable(r) == ReaderOK(r, stream[r], client[r], forwarded[r], endedBy[r], attached, logs, entry)
<1>1. /\ ChannelTypes /\ EntryInv /\ \A r \in Readers : Readable(r)
    BY Zenon DEF ChannelInv
<1>2. ASSUME NEW r \in Readers
      PROVE  stream[r] \in Seq(Items) /\ forwarded[r] \in Seq(Payloads) /\ endedBy[r] \in Nat
    BY <1>1, Zenon DEF ChannelTypes
<1>3. logs \in Seq(Seq(Payloads)) /\ Len(logs) \in Nat
      /\ (entry # "absent" => Len(logs) > 0 /\ logs[Len(logs)] \in Seq(Payloads))
  <2>1. logs \in Seq(Seq(Payloads)) /\ (entry # "absent" => logs # <<>>)
      BY <1>1, Zenon DEF ChannelTypes, EntryInv
  <2>2. logs # <<>> => Len(logs) \in 1 .. Len(logs)
      BY <2>1, SMTT(30)
  <2> QED
      BY <2>1, <2>2, SMTT(30)

\* Steps that leave the entry's buffer and the readers alone.
<1>4. ASSUME UNCHANGED <<logs, attached, client, stream, forwarded, endedBy>>,
             entry' = entry \/ entry' # "open", ChannelTypes', EntryInv'
      PROVE  ChannelInv'
  <2>1. ASSUME NEW r \in Readers PROVE Readable(r)'
      BY <1>1, <1>2, <1>3, <1>4, ReaderStays, ZenonT(30)
  <2> QED
      BY <1>4, <2>1, Zenon DEF ChannelInv
<1>5. ASSUME Channel!CloseTaskChannel, UNCHANGED <<logs, client, forwarded, endedBy>>
      PROVE  /\ \A r \in Readers : Readable(r)'
             /\ stream' \in [Readers -> Seq(Items)] /\ attached' = {}
             /\ entry' = IF entry = "open" THEN "closed" ELSE entry
  <2>1. /\ entry' = (IF entry = "open" THEN "closed" ELSE entry) /\ entry' # "open" /\ attached' = {}
        /\ stream' = [r \in Readers |-> IF r \in attached THEN Append(stream[r], Channel!Eos) ELSE stream[r]]
      BY <1>5, Zenon DEF Channel!CloseTaskChannel
  <2>2. ASSUME NEW r \in Readers PROVE stream'[r] \in Seq(Items) /\ Readable(r)'
    <3>1. CASE r \in attached
      <4>1. stream'[r] = Append(stream[r], Channel!Eos)
          BY <2>1, <3>1, Zenon
      <4>2. /\ Append(stream[r], Channel!Eos) \in Seq(Items)
            /\ ReaderOK(r, Append(stream[r], Channel!Eos), client[r], forwarded[r], endedBy[r], {}, logs, entry')
          BY <1>1, <1>2, <1>3, <2>1, <3>1, ReaderEnds, SMTT(30)
      <4> QED
          BY <1>5, <2>1, <4>1, <4>2, ZenonT(30)
    <3>2. CASE r \notin attached
      <4>1. stream'[r] = stream[r]
          BY <2>1, <3>2, Zenon
      <4>2. ReaderOK(r, stream[r], client[r], forwarded[r], endedBy[r], {}, logs, entry')
          BY <1>1, <1>2, <1>3, <2>1, <3>2, ReaderStays, Zenon
      <4> QED
          BY <1>2, <1>5, <2>1, <4>1, <4>2, ZenonT(30)
    <3> QED
        BY <3>1, <3>2, Zenon
  <2>3. stream' \in [Readers -> Seq(Items)]
      BY <2>1, <2>2, Zenon
  <2> QED
      BY <2>1, <2>2, <2>3, ZenonT(30)
<1>6. CASE Channel!TaskEnds \/ Channel!TaskFailsRetryable \/ Channel!ProofRemoved
  <2>1. /\ Channel!CloseTaskChannel /\ UNCHANGED <<logs, client, forwarded, endedBy, sends>>
        /\ \/ status' \in {"final", "unknown"} /\ failures' = failures
           \/ status' = "retry" /\ failures' = failures + 1
      BY <1>6, Zenon DEF Channel!TaskEnds, Channel!TaskFailsRetryable, Channel!ProofRemoved
  <2>2. ChannelTypes'
      BY <1>1, <1>5, <2>1, SMTT(30) DEF ChannelTypes
  <2>3. EntryInv'
      BY <1>1, <1>5, <2>1, SMTT(30) DEF EntryInv, ChannelTypes
  <2> QED
      BY <1>5, <2>1, <2>2, <2>3, ZenonT(30) DEF ChannelInv
<1>7. CASE Channel!TaskRunsAgain \/ Channel!Collect
  <2>1. ChannelTypes' /\ EntryInv'
      BY <1>1, <1>7, Zenon DEF Channel!TaskRunsAgain, Channel!Collect, Channel!entryVars, Channel!taskVars,
            Channel!readerVars, ChannelTypes, EntryInv
  <2> QED
      BY <1>4, <1>7, <2>1, Zenon DEF Channel!TaskRunsAgain, Channel!Collect, Channel!entryVars, Channel!readerVars

\* A payload pushed to the entry that is there, or to one it opens.
<1>8. ASSUME NEW n \in Payloads, NEW l, Channel!Push(n, l), UNCHANGED <<status, failures, client, forwarded, endedBy>>,
             entry # "absent" => l = logs[Len(logs)],
             entry = "absent" => l = <<>> /\ status \in {"running", "retry"}
      PROVE  ChannelInv'
  <2>1. CASE entry = "closed"
    <3>1. UNCHANGED <<logs, entry, attached, stream>> /\ sends' = [sends EXCEPT ![n] = "dropped"]
        BY <1>8, <2>1, Zenon DEF Channel!Push, Channel!entryVars
    <3>2. ChannelTypes' /\ EntryInv'
        BY <1>1, <1>8, <3>1, ZenonT(30) DEF ChannelTypes, EntryInv
    <3> QED
        BY <1>4, <1>8, <3>1, <3>2, ZenonT(30)
  <2>2. CASE entry # "closed"
    <3>1. /\ sends' = [sends EXCEPT ![n] = "kept"] /\ entry' = "open" /\ attached' = attached
          /\ logs' = (IF entry = "absent" THEN logs ELSE SubSeq(logs, 1, Len(logs) - 1)) \o <<Append(l, n)>>
          /\ stream' = [r \in Readers |-> IF r \in attached THEN Append(stream[r], n) ELSE stream[r]]
        BY <1>8, <2>2, ZenonT(30) DEF Channel!Push
    <3>2. CASE entry = "open"
      <4>1. /\ logs' = SubSeq(logs, 1, Len(logs) - 1) \o <<Append(logs[Len(logs)], n)>>
            /\ Len(logs) > 0 /\ logs[Len(logs)] \in Seq(Payloads)
          BY <1>3, <1>8, <3>1, <3>2, ZenonT(30)
      <4>2. Grown(logs, logs', n)
          BY <1>3, <4>1, LastGrows, ZenonT(30)
      <4>3. ASSUME NEW r \in Readers PROVE stream'[r] \in Seq(Items) /\ Readable(r)'
        <5>1. CASE r \in attached
          <6>1. stream'[r] = Append(stream[r], n)
              BY <3>1, <5>1, Zenon
          <6>2. /\ Append(stream[r], n) \in Seq(Items)
                /\ ReaderOK(r, Append(stream[r], n), client[r], forwarded[r], endedBy[r], attached, logs', entry)
              BY <1>1, <1>2, <1>3, <4>2, <5>1, ReaderPushed, ZenonT(30)
          <6> QED
              BY <1>8, <3>1, <3>2, <6>1, <6>2, ZenonT(30)
        <5>2. CASE r \notin attached
          <6>1. stream'[r] = stream[r]
              BY <3>1, <5>2, Zenon
          <6>2. ReaderOK(r, stream[r], client[r], forwarded[r], endedBy[r], attached, logs', "open")
              BY <1>1, <1>2, <1>3, <3>2, <4>2, <5>2, ReaderPassedBy, ZenonT(30)
          <6> QED
              BY <1>2, <1>8, <3>1, <6>1, <6>2, ZenonT(30)
        <5> QED
            BY <5>1, <5>2, Zenon
      <4>4. ChannelTypes'
          BY <1>1, <1>8, <3>1, <4>2, <4>3, ZenonT(30) DEF ChannelTypes, Grown
      <4>5. EntryInv'
        <5>1. logs' # <<>>
            BY <1>3, <4>2, SMTT(30) DEF Grown
        <5> QED
            BY <1>1, <1>8, <3>1, <3>2, <5>1, ZenonT(30) DEF EntryInv
      <4> QED
          BY <4>3, <4>4, <4>5, Zenon DEF ChannelInv
    <3>3. CASE entry = "absent"
      <4>1. logs' = logs \o <<Append(<<>>, n)>> /\ attached = {}
          BY <1>1, <1>8, <3>1, <3>3, Zenon DEF EntryInv
      <4>2. Append(<<>>, n) \in Seq(Payloads)
          OBVIOUS
      <4>3. /\ logs' \in Seq(Seq(Payloads)) /\ Len(logs') = Len(logs) + 1
            /\ \A i \in 1 .. Len(logs) : logs'[i] = logs[i]
            /\ logs'[Len(logs) + 1] = Append(<<>>, n)
          BY <1>3, <4>1, <4>2, SMTT(30)
      <4>4. ASSUME NEW r \in Readers PROVE stream'[r] \in Seq(Items) /\ Readable(r)'
        <5>1. stream'[r] = stream[r]
            BY <3>1, <4>1, Zenon
        <5>2. ReaderOK(r, stream[r], client[r], forwarded[r], endedBy[r], attached, logs', "open")
            BY <1>1, <1>2, <1>3, <4>1, <4>2, <4>3, ReaderSeesNewLog, ZenonT(30)
        <5> QED
            BY <1>2, <1>8, <3>1, <5>1, <5>2, ZenonT(30)
      <4>5. ChannelTypes'
          BY <1>1, <1>8, <3>1, <4>3, <4>4, ZenonT(30) DEF ChannelTypes
      <4>6. EntryInv'
        <5>1. logs' # <<>>
            BY <1>3, <4>3, SMTT(30)
        <5> QED
            BY <1>8, <3>1, <3>3, <4>1, <5>1, ZenonT(30) DEF EntryInv
      <4> QED
          BY <4>4, <4>5, <4>6, Zenon DEF ChannelInv
    <3> QED
        BY <1>1, <2>2, <3>2, <3>3, ZenonT(30) DEF ChannelTypes
  <2> QED
      BY <2>1, <2>2, Zenon
<1>9. ASSUME NEW n \in Payloads, Channel!SendCalled(n) \/ Channel!SendFindsNone(n) \/ Channel!SendRepeated(n)
      PROVE  ChannelInv'
  <2>1. ChannelTypes' /\ EntryInv'
      BY <1>1, <1>9, ZenonT(30) DEF Channel!SendCalled, Channel!SendFindsNone, Channel!SendRepeated, Channel!entryVars,
            Channel!taskVars, Channel!readerVars, ChannelTypes, EntryInv
  <2> QED
      BY <1>4, <1>9, <2>1, Zenon DEF Channel!SendCalled, Channel!SendFindsNone, Channel!SendRepeated,
            Channel!entryVars, Channel!readerVars
<1>10. ASSUME NEW n \in Payloads, Channel!SendFindsEntry(n) PROVE ChannelInv'
    BY <1>8, <1>10, Zenon DEF Channel!SendFindsEntry, Channel!taskVars, Channel!Buffer
<1>11. ASSUME NEW n \in Payloads, Channel!SendLocked(n) PROVE ChannelInv'
  <2>1. CASE entry # "absent" /\ Channel!Push(n, Channel!Buffer)
      BY <1>8, <1>11, <2>1, Zenon DEF Channel!SendLocked, Channel!taskVars, Channel!Buffer
  <2>2. CASE entry = "absent" /\ Channel!TaskCanStillSend(status) /\ Channel!Push(n, <<>>)
      BY <1>8, <1>11, <2>2, ZenonT(30) DEF Channel!SendLocked, Channel!taskVars, Channel!TaskCanStillSend
  <2>3. CASE sends' = [sends EXCEPT ![n] = "dropped"] /\ UNCHANGED <<Channel!entryVars, stream>>
    <3>1. ChannelTypes' /\ EntryInv'
        BY <1>1, <1>11, <2>3, ZenonT(30) DEF Channel!SendLocked, Channel!entryVars, Channel!taskVars, ChannelTypes, EntryInv
    <3> QED
        BY <1>4, <1>11, <2>3, <3>1, ZenonT(30) DEF Channel!SendLocked, Channel!entryVars
  <2> QED
      BY <1>11, <2>1, <2>2, <2>3, ZenonT(30) DEF Channel!SendLocked

\* A client attaches to the entry that is there, or to one it opens.
<1>12. ASSUME NEW r \in Readers, client[r] # "reading", Channel!Attach(r),
              UNCHANGED <<status, failures, sends, forwarded>>,
              entry = "absent" => status \in {"running", "retry"}
       PROVE  ChannelInv'
  <2> DEFINE t == Channel!Replay(IF entry = "absent" THEN <<>> ELSE logs[Len(logs)], Len(forwarded[r]))
  <2>1. /\ logs' = (IF entry = "absent" THEN Append(logs, <<>>) ELSE logs)
        /\ entry' = (IF entry = "absent" THEN "open" ELSE entry)
        /\ attached' = (IF entry = "closed" THEN attached ELSE attached \cup {r})
        /\ stream' = [stream EXCEPT ![r] = IF entry = "closed" THEN Append(t, Channel!Eos) ELSE t]
        /\ endedBy' = [endedBy EXCEPT ![r] = Len(logs')]
        /\ client' = [client EXCEPT ![r] = "reading"]
      BY <1>12, ZenonT(30) DEF Channel!Attach, Channel!Buffer
  <2>2. Readable(r) /\ stream[r] \in Seq(Items) /\ forwarded[r] \in Seq(Payloads) /\ endedBy[r] \in Nat
      BY <1>1, <1>2, Zenon
  <2>3. /\ stream'[r] = (IF entry = "closed" THEN Append(t, Channel!Eos) ELSE t)
        /\ endedBy'[r] = Len(logs') /\ client'[r] = "reading" /\ forwarded'[r] = forwarded[r]
      BY <1>1, <1>12, <2>1, ZenonT(30) DEF ChannelTypes
  <2>4. ASSUME NEW q \in Readers, q # r
        PROVE  /\ stream'[q] = stream[q] /\ endedBy'[q] = endedBy[q] /\ client'[q] = client[q]
               /\ forwarded'[q] = forwarded[q] /\ (q \in attached' <=> q \in attached)
      BY <1>1, <1>12, <2>1, <2>4, ZenonT(30) DEF ChannelTypes
  <2>5. CASE entry = "absent"
    <3>1. attached = {} /\ attached' = {r} /\ entry' = "open" /\ logs' = Append(logs, <<>>)
        BY <1>1, <2>1, <2>5, Zenon DEF EntryInv
    <3>2. <<>> \in Seq(Payloads)
        OBVIOUS
    <3>3. /\ logs' \in Seq(Seq(Payloads)) /\ Len(logs') = Len(logs) + 1 /\ logs'[Len(logs) + 1] = <<>>
          /\ \A i \in 1 .. Len(logs) : logs'[i] = logs[i]
        BY <1>3, <3>1, <3>2, SMTT(30)
    <3>4. stream'[r] \in Seq(Items) /\ Readable(r)'
      <4>1. stream'[r] = Channel!Replay(<<>>, Len(forwarded[r])) /\ endedBy'[r] = Len(logs) + 1 /\ attached' = attached \cup {r}
          BY <2>3, <2>5, <3>1, <3>3, Zenon
      <4>2. /\ Channel!Replay(<<>>, Len(forwarded[r])) \in Seq(Items)
            /\ ReaderOK(r, Channel!Replay(<<>>, Len(forwarded[r])), "reading", forwarded[r], Len(logs) + 1,
                        attached \cup {r}, Append(logs, <<>>), "open")
          BY <1>3, <2>2, ReaderOpens, ZenonT(30)
      <4> QED
          BY <2>3, <3>1, <4>1, <4>2, ZenonT(30)
    <3>5. ASSUME NEW q \in Readers, q # r PROVE Readable(q)'
      <4>1. ReaderOK(q, stream[q], client[q], forwarded[q], endedBy[q], attached', logs', "open")
          BY <1>1, <1>2, <1>3, <3>1, <3>2, <3>3, <3>5, ReaderSeesNewLog, ZenonT(30)
      <4> QED
          BY <2>4, <3>1, <3>5, <4>1, ZenonT(30)
    <3>6. ChannelTypes'
        BY <1>1, <1>3, <1>12, <2>1, <3>1, <3>3, <3>4 DEF ChannelTypes
    <3>7. EntryInv'
      <4>1. logs' # <<>>
          BY <1>3, <3>3, SMTT(30)
      <4> QED
          BY <1>12, <2>5, <3>1, <4>1, Zenon DEF EntryInv
    <3> QED
        BY <3>4, <3>5, <3>6, <3>7, ZenonT(30) DEF ChannelInv
  <2>6. CASE entry # "absent"
    <3>1. logs' = logs /\ entry' = entry /\ t = Channel!Replay(logs[Len(logs)], Len(forwarded[r]))
        BY <2>1, <2>6, Zenon
    <3>2. entry = "closed" => attached = {}
        BY <1>1, Zenon DEF EntryInv
    <3>3. /\ t \in Seq(Items) /\ Append(t, Channel!Eos) \in Seq(Items)
          /\ ReaderOK(r, t, "reading", forwarded[r], Len(logs), attached \cup {r}, logs, "open")
          /\ attached = {} => ReaderOK(r, Append(t, Channel!Eos), "reading", forwarded[r], Len(logs),
                                       attached, logs, "closed")
        BY <1>3, <1>12, <2>2, <2>6, <3>1, ReaderAttaches, ZenonT(30)
    <3> HIDE DEF t
    <3>4. stream'[r] \in Seq(Items) /\ Readable(r)'
      <4>1. CASE entry = "closed"
          BY <2>1, <2>3, <3>1, <3>2, <3>3, <4>1, ZenonT(30)
      <4>2. CASE entry = "open"
          BY <2>1, <2>3, <3>1, <3>3, <4>2, ZenonT(30)
      <4> QED
          BY <1>1, <2>6, <4>1, <4>2, ZenonT(30) DEF ChannelTypes
    <3>5. ASSUME NEW q \in Readers, q # r PROVE Readable(q)'
      <4>1. ReaderOK(q, stream[q], client[q], forwarded[q], endedBy[q], attached', logs, entry)
          BY <1>1, <1>2, <1>3, <2>4, <3>5, ReaderStays, ZenonT(30)
      <4> QED
          BY <2>4, <3>1, <3>5, <4>1, ZenonT(30)
    <3>6. ChannelTypes'
        BY <1>1, <1>3, <1>12, <2>1, <3>1, <3>4, ZenonT(30) DEF ChannelTypes
    <3>7. EntryInv'
        BY <1>1, <1>12, <2>1, <2>6, <3>1, <3>2, ZenonT(30) DEF EntryInv, ChannelTypes
    <3> QED
        BY <3>4, <3>5, <3>6, <3>7, Zenon DEF ChannelInv
  <2> QED
      BY <2>5, <2>6, Zenon
<1>13. ASSUME NEW r \in Readers, Channel!SubscribeFindsEntry(r) PROVE ChannelInv'
    BY <1>12, <1>13, Zenon DEF Channel!SubscribeFindsEntry, Channel!taskVars

\* Steps in which one reader's state moves and the entry's does not.
<1>14. ASSUME NEW r \in Readers, UNCHANGED <<status, failures, logs, entry, sends>>, attached' \subseteq attached,
              \A q \in Readers : q # r =>
                  /\ stream'[q] = stream[q] /\ endedBy'[q] = endedBy[q] /\ client'[q] = client[q]
                  /\ forwarded'[q] = forwarded[q] /\ (q \in attached' <=> q \in attached),
              Readable(r)', ChannelTypes'
       PROVE  ChannelInv'
  <2>1. ASSUME NEW q \in Readers, q # r PROVE Readable(q)'
    <3>1. ReaderOK(q, stream[q], client[q], forwarded[q], endedBy[q], attached', logs, entry)
        BY <1>1, <1>2, <1>3, <1>14, <2>1, ReaderStays, ZenonT(30)
    <3> QED
        BY <1>14, <2>1, <3>1, ZenonT(30)
  <2>2. EntryInv'
      BY <1>1, <1>14, ZenonT(30) DEF EntryInv
  <2> QED
      BY <1>14, <2>1, <2>2, ZenonT(30) DEF ChannelInv
<1>15. ASSUME NEW r \in Readers, Channel!SubscribeFindsNone(r) PROVE ChannelInv'
  <2>1. /\ UNCHANGED <<status, failures, logs, entry, attached, sends, stream, forwarded, endedBy>>
        /\ client[r] = "calling" /\ client' = [client EXCEPT ![r] = "waiting"]
      BY <1>15, Zenon DEF Channel!SubscribeFindsNone, Channel!taskVars, Channel!entryVars
  <2>2. client'[r] = "waiting" /\ ChannelTypes'
      BY <1>1, <2>1, Zenon DEF ChannelTypes
  <2>3. ReaderOK(r, stream[r], "waiting", forwarded[r], endedBy[r], attached, logs, entry)
    <3>1. ReaderOK(r, stream[r], "calling", forwarded[r], endedBy[r], attached, logs, entry)
        BY <1>1, <2>1, Zenon
    <3> QED
        BY <3>1, Zenon DEF ReaderOK, StreamOK, LogOK
  <2>4. Readable(r)'
      BY <2>1, <2>2, <2>3, Zenon
  <2> QED
      BY <1>1, <1>14, <2>1, <2>2, <2>4, ZenonT(30) DEF ChannelTypes
<1>16. ASSUME NEW r \in Readers, Channel!SubscribeLocked(r) PROVE ChannelInv'
  <2>1. CASE (entry # "absent" \/ Channel!TaskCanStillSend(status)) /\ Channel!Attach(r)
      BY <1>12, <1>16, <2>1, Zenon DEF Channel!SubscribeLocked, Channel!taskVars, Channel!TaskCanStillSend
  <2>2. CASE /\ entry = "absent" /\ stream' = [stream EXCEPT ![r] = <<Channel!Eos>>]
             /\ endedBy' = [endedBy EXCEPT ![r] = 0] /\ client' = [client EXCEPT ![r] = "reading"]
             /\ UNCHANGED Channel!entryVars
    <3>1. UNCHANGED <<status, failures, logs, entry, attached, sends, forwarded>> /\ client[r] # "reading"
        BY <1>16, <2>2, Zenon DEF Channel!SubscribeLocked, Channel!taskVars, Channel!entryVars
    <3>2. ChannelTypes' /\ stream'[r] = <<Channel!Eos>> /\ endedBy'[r] = 0 /\ client'[r] = "reading"
      <4>1. <<Channel!Eos>> \in Seq(Items)
          BY EmptyStreams, Zenon
      <4> QED
          BY <1>1, <2>2, <3>1, <4>1, ZenonT(30) DEF ChannelTypes
    <3>3. ReaderOK(r, <<Channel!Eos>>, "reading", forwarded[r], 0, attached, logs, entry)
        BY <1>1, <1>2, <1>3, <2>2, <3>1, ReaderToldBareEnd, ZenonT(30)
    <3>4. Readable(r)'
        BY <3>1, <3>2, <3>3, Zenon
    <3> QED
        BY <1>1, <1>14, <2>2, <3>1, <3>2, <3>4, ZenonT(30) DEF ChannelTypes
  <2> QED
      BY <1>16, <2>1, <2>2, Zenon DEF Channel!SubscribeLocked
<1>17. ASSUME NEW r \in Readers, Channel!ReadPayload(r) PROVE ChannelInv'
  <2>1. /\ client[r] = "reading" /\ stream[r] # <<>> /\ Head(stream[r]) # Channel!Eos
        /\ forwarded' = [forwarded EXCEPT ![r] = Append(@, Head(stream[r]))]
        /\ stream' = [stream EXCEPT ![r] = Tail(@)]
        /\ UNCHANGED <<status, failures, logs, entry, attached, sends, client, endedBy>>
      BY <1>17, Zenon DEF Channel!ReadPayload, Channel!taskVars, Channel!entryVars
  <2>2. /\ Tail(stream[r]) \in Seq(Items) /\ Append(forwarded[r], Head(stream[r])) \in Seq(Payloads)
        /\ ReaderOK(r, Tail(stream[r]), client[r], Append(forwarded[r], Head(stream[r])), endedBy[r],
                    attached, logs, entry)
      BY <1>1, <1>2, <1>3, <2>1, ReaderReads, ZenonT(30)
  <2>3. /\ ChannelTypes' /\ stream'[r] = Tail(stream[r])
        /\ forwarded'[r] = Append(forwarded[r], Head(stream[r]))
      BY <1>1, <2>1, <2>2, Zenon DEF ChannelTypes
  <2>4. Readable(r)'
      BY <2>1, <2>2, <2>3, Zenon
  <2> QED
      BY <1>1, <1>14, <2>1, <2>3, <2>4, ZenonT(30) DEF ChannelTypes
<1>18. ASSUME NEW r \in Readers, Channel!ReadEndOfStream(r) PROVE ChannelInv'
  <2>1. /\ client[r] = "reading" /\ stream[r] # <<>> /\ Head(stream[r]) = Channel!Eos
        /\ client' = [client EXCEPT ![r] = "ended"] /\ stream' = [stream EXCEPT ![r] = <<>>]
        /\ UNCHANGED <<status, failures, logs, entry, attached, sends, forwarded, endedBy>>
      BY <1>18, Zenon DEF Channel!ReadEndOfStream, Channel!taskVars, Channel!entryVars
  <2>2. ReaderOK(r, <<>>, "ended", forwarded[r], endedBy[r], attached, logs, entry)
      BY <1>1, <1>2, <1>3, <2>1, ReaderReadsEnd, ZenonT(30)
  <2>3. ChannelTypes' /\ stream'[r] = <<>> /\ client'[r] = "ended"
      BY <1>1, <2>1, EmptyStreams, Zenon DEF ChannelTypes
  <2>4. Readable(r)'
      BY <2>1, <2>2, <2>3, ZenonT(30)
  <2> QED
      BY <1>1, <1>14, <2>1, <2>3, <2>4, ZenonT(30) DEF ChannelTypes
<1>19. ASSUME NEW r \in Readers, Channel!StreamBreaks(r) PROVE ChannelInv'
  <2>1. /\ client' = [client EXCEPT ![r] = "calling"] /\ stream' = [stream EXCEPT ![r] = <<>>]
        /\ attached' = attached \ {r}
        /\ UNCHANGED <<status, failures, logs, entry, sends, forwarded, endedBy>>
      BY <1>19, Zenon DEF Channel!StreamBreaks, Channel!taskVars
  <2>2. ReaderOK(r, <<>>, "calling", forwarded[r], endedBy[r], attached \ {r}, logs, entry)
      BY <1>1, <1>2, <1>3, ReaderBreaks, ZenonT(30)
  <2>3. ChannelTypes' /\ stream'[r] = <<>> /\ client'[r] = "calling"
      BY <1>1, <2>1, EmptyStreams, Zenon DEF ChannelTypes
  <2>4. Readable(r)'
      BY <2>1, <2>2, <2>3, ZenonT(30)
  <2> QED
      BY <1>1, <1>14, <2>1, <2>3, <2>4, ZenonT(30) DEF ChannelTypes
<1>20. CASE UNCHANGED Channel!vars
  <2>1. UNCHANGED <<status, failures, logs, entry, attached, sends, client, stream, forwarded, endedBy>>
      BY <1>20, Zenon DEF Channel!vars, Channel!taskVars, Channel!entryVars, Channel!readerVars
  <2>2. ChannelTypes' /\ EntryInv'
      BY <1>1, <2>1, Zenon DEF ChannelTypes, EntryInv
  <2> QED
      BY <1>4, <2>1, <2>2, Zenon
<1> QED
    BY <1>6, <1>7, <1>9, <1>10, <1>11, <1>13, <1>15, <1>16, <1>17, <1>18, <1>19, <1>20, ZenonT(30) DEF Channel!Next

\* The channel's inductive invariant holds throughout.
THEOREM ChannelSafe == Channel!Spec => []ChannelInv
BY ChannelInit, ChannelStep, PTL DEF Channel!Spec

\* What was forwarded and what the stream still holds is a prefix of the log, as
\* sequences.
LEMMA PrefixOfLog ==
    ASSUME NEW f \in Seq(Items), NEW b \in Seq(Items), NEW l \in Seq(Items),
           Len(f) + Len(b) <= Len(l), \A i \in 1 .. Len(f) : f[i] = l[i],
           \A i \in 1 .. Len(b) : b[i] = l[Len(f) + i]
    PROVE  Len(f \o b) <= Len(l) /\ f \o b = SubSeq(l, 1, Len(f \o b))
<1> DEFINE p == f \o b
           k == Len(f) + Len(b)
<1>1. p \in Seq(Items) /\ Len(p) = k /\ k \in Nat /\ k <= Len(l) /\ Len(f) \in Nat /\ Len(b) \in Nat
    OBVIOUS
<1>2. ASSUME NEW i \in 1 .. k PROVE p[i] = l[i]
  <2>1. CASE i <= Len(f)
      BY <2>1
  <2>2. CASE i > Len(f)
    <3>1. i - Len(f) \in 1 .. Len(b) /\ Len(f) + (i - Len(f)) = i
        BY <1>1, <2>2, SMTT(30)
    <3>2. p[i] = b[i - Len(f)]
        BY <1>1, <2>2, SMTT(30)
    <3> QED
        BY <3>1, <3>2, Zenon
  <2> QED
      BY <1>1, <2>1, <2>2, SMTT(30)
<1> HIDE DEF p, k
<1>3. p = [i \in 1 .. k |-> p[i]] /\ SubSeq(l, 1, k) = [i \in 1 .. k |-> l[i]]
    BY <1>1
<1>4. p = SubSeq(l, 1, k)
    BY <1>2, <1>3, Zenon
<1> QED
    BY <1>1, <1>4, Zenon DEF p, k

\* A reader of a task's messages gets what was kept, in order and once, gets the
\* end of the stream only after the last of it, and has an end coming whenever the
\* task sends no more, through broken streams, repeated calls, retries of the task
\* and collected entries (attach_subscriber, push, close_task_channel,
\* drive_message_stream).
THEOREM ReadersAreServed == Channel!Spec => []ReadersFollow
<1>1. ChannelInv => ReadersFollow
  <2> SUFFICES ASSUME ChannelInv PROVE ReadersFollow
      BY Zenon
  <2>1. ChannelTypes /\ EntryInv
      BY Zenon DEF ChannelInv
  <2>2. ASSUME NEW r \in Readers
        PROVE  /\ StreamOK(r, stream[r], client[r], attached)
               /\ LogOK(r, stream[r], client[r], forwarded[r], endedBy[r], attached, logs, entry)
               /\ PrefixOK(r, stream[r], forwarded[r], attached, logs)
      BY ZenonT(30) DEF ChannelInv, ReaderOK
  <2>3. ASSUME NEW r \in Readers PROVE stream[r] \in Seq(Items) /\ forwarded[r] \in Seq(Payloads)
      BY <2>1, Zenon DEF ChannelTypes
  <2>4. ASSUME Len(logs) = 1, NEW r \in Readers
        PROVE  LET got == forwarded[r] \o Channel!BeforeEnd(stream[r])
               IN  Len(got) <= Len(logs[1]) /\ got = SubSeq(logs[1], 1, Len(got))
    <3> DEFINE b == Channel!BeforeEnd(stream[r])
    <3>1. b \in Seq(Items) /\ Len(b) = HeldIn(stream[r]) /\ \A i \in 1 .. Len(b) : b[i] = stream[r][i]
        BY <2>3, HeldItems, Zenon DEF HeldIn
    <3>2. logs[1] \in Seq(Payloads)
      <4>1. logs \in Seq(Seq(Payloads)) /\ 1 \in 1 .. Len(logs)
          BY <2>1, <2>4 DEF ChannelTypes
      <4> QED
          BY <4>1
    <3>3. logs[1] \in Seq(Items) /\ forwarded[r] \in Seq(Items)
        BY <2>3, <3>2 DEF Items
    <3> HIDE DEF b
    <3>4. /\ Len(forwarded[r]) + Len(b) <= Len(logs[1])
          /\ \A i \in 1 .. Len(forwarded[r]) : forwarded[r][i] = logs[1][i]
          /\ \A i \in 1 .. Len(b) : b[i] = logs[1][Len(forwarded[r]) + i]
        BY <2>2, <2>4, <3>1, ZenonT(30) DEF PrefixOK
    <3>5. Len(forwarded[r] \o b) <= Len(logs[1]) /\ forwarded[r] \o b = SubSeq(logs[1], 1, Len(forwarded[r] \o b))
        BY <3>1, <3>3, <3>4, PrefixOfLog, ZenonT(30)
    <3> QED
        BY <3>5, ZenonT(30) DEF b
  <2>5. ASSUME NEW r \in Readers, client[r] = "ended", endedBy[r] # 0
        PROVE  Len(forwarded[r]) >= Len(logs[endedBy[r]])
    <3>1. stream[r] = <<>>
        BY <2>2, <2>5, ZenonT(30) DEF StreamOK
    <3>2. HeldIn(stream[r]) = 0
        BY <3>1, EmptyStreams, Zenon
    <3>3. Len(forwarded[r]) + HeldIn(stream[r]) >= Len(logs[endedBy[r]])
        BY <2>2, <2>5, Zenon DEF LogOK
    <3>4. Len(forwarded[r]) \in Nat
        BY <2>3
    <3> QED
        BY <3>2, <3>3, <3>4, SMTT(30)
  <2>6. ASSUME NEW r \in Readers, client[r] = "reading", ~\E i \in DOMAIN stream[r] : stream[r][i] = Channel!Eos
        PROVE  r \in attached /\ entry = "open" /\ status \in {"running", "retry"}
    <3>1. ~Ending(stream[r])
      <4>1. SUFFICES ASSUME Ending(stream[r]) PROVE FALSE
          BY Zenon
      <4>2. Len(stream[r]) \in DOMAIN stream[r]
          BY <2>3, <4>1, SMTT(30) DEF Ending
      <4> QED
          BY <2>6, <4>1, <4>2, Zenon DEF Ending
    <3>2. r \in attached
        BY <2>2, <2>6, <3>1, Zenon DEF StreamOK
    <3> QED
        BY <2>1, <3>2, Zenon DEF EntryInv
  <2>7. Channel!ReaderFollowsLog /\ Channel!EndMeansAll
      BY <2>4, <2>5, Zenon DEF Channel!ReaderFollowsLog, Channel!EndMeansAll
  <2>8. Channel!StreamWillEnd
      BY <2>1, <2>6, Zenon DEF Channel!StreamWillEnd, EntryInv
  <2> QED
      BY <2>7, <2>8, Zenon DEF ReadersFollow
<1> QED
    BY <1>1, ChannelSafe, PTL

\* What the first run of a task sends is kept: a payload is dropped only when the
\* task is over or unknown, or has failed before (send_task_message).
THEOREM FirstRunKept == Channel!Spec => FirstRunLosesNothing
<1> DEFINE Dropped == \A n \in Payloads : sends[n] \in {"calling", "waiting"} /\ sends'[n] = "dropped" =>
                          status \in {"final", "unknown"} \/ failures > 0
<1>1. ChannelInv /\ [Channel!Next]_Channel!vars => [Dropped]_Channel!vars
  <2> SUFFICES ASSUME ChannelInv, Channel!Next, NEW n \in Payloads, sends[n] \in {"calling", "waiting"},
                      sends'[n] = "dropped"
               PROVE  status \in {"final", "unknown"} \/ failures > 0
      BY Zenon
  <2>1. ChannelTypes /\ EntryInv
      BY Zenon DEF ChannelInv
  <2>2. sends \in [Payloads -> {"new", "calling", "waiting", "kept", "dropped"}]
      BY <2>1, Zenon DEF ChannelTypes
  <2>3. sends' # sends
      BY Zenon
  <2>4. ASSUME NEW m \in Payloads, NEW l, Channel!Push(m, l), entry # "closed" PROVE FALSE
      BY <2>2, <2>4, Zenon DEF Channel!Push
  <2>5. ASSUME NEW m \in Payloads,
               Channel!SendCalled(m) \/ Channel!SendFindsNone(m) \/ Channel!SendRepeated(m)
        PROVE  FALSE
      BY <2>2, <2>5, Zenon DEF Channel!SendCalled, Channel!SendFindsNone, Channel!SendRepeated
  <2>6. ASSUME NEW m \in Payloads, Channel!SendFindsEntry(m) \/ Channel!SendLocked(m)
        PROVE  entry = "closed" \/ status \notin {"running", "retry"}
      BY <2>4, <2>6, Zenon DEF Channel!SendFindsEntry, Channel!SendLocked, Channel!TaskCanStillSend
  <2>7. \E m \in Payloads : \/ Channel!SendCalled(m) \/ Channel!SendFindsNone(m) \/ Channel!SendRepeated(m)
                            \/ Channel!SendFindsEntry(m) \/ Channel!SendLocked(m)
      BY <2>3, Zenon DEF Channel!Next, Channel!TaskEnds, Channel!TaskFailsRetryable, Channel!TaskRunsAgain,
            Channel!ProofRemoved, Channel!Collect, Channel!SubscribeFindsEntry, Channel!SubscribeFindsNone,
            Channel!SubscribeLocked, Channel!ReadPayload, Channel!ReadEndOfStream, Channel!StreamBreaks
  <2> QED
      BY <2>1, <2>5, <2>6, <2>7, Zenon DEF EntryInv, ChannelTypes
<1> QED
    BY <1>1, ChannelSafe, PTL DEF Channel!Spec, FirstRunLosesNothing, Channel!FirstRunLosesNothing
================================================================================
