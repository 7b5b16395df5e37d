-------------------------- MODULE EventStreamProofs --------------------------
(***************************************************************************)
(* Proofs about EventStream for any number of writers, streams, events,    *)
(* lost connections and quiet slices, and for every bus.                   *)
(***************************************************************************)
EXTENDS EventStream, SequenceTheorems, TLAPS

(* What the client of s has received, and what is under way to it. *)
Got(s) == seen[s] \o wire[s]

(* A writer holds the id of a row while it has something to put, and puts  *)
(* into subscriptions that are open.                                       *)
WriterInv ==
  \A w \in Writers :
    /\ holding[w] <= log
    /\ targets[w] # {} => holding[w] # 0
    /\ targets[w] \subseteq subs \cup { "all" }
    /\ "all" \in targets[w] => targets[w] = { "all" }

TypeInv == TypeOK /\ WriterInv

(* What was sent is increasing and not above last_sent; rows fetched and   *)
(* not yet sent follow it without a gap.                                   *)
OrderInv(s) ==
  /\ \A i, j \in DOMAIN Got(s) : i < j => Got(s)[i] < Got(s)[j]
  /\ at[s] # "off" => \A i \in DOMAIN Got(s) : Got(s)[i] <= last[s]
  /\ at[s] = "off" => wire[s] = << >>
  /\ at[s] # "sending" => batch[s] = << >>
  /\ \A i \in DOMAIN batch[s] : batch[s][i] = last[s] + i

(* As long as no two writers overlapped, the id in flight is the newest.   *)
NewestInv ==
  ~overlapped =>
    \A v, w \in Writers : holding[w] # 0 => holding[w] = log /\ (holding[v] # 0 => v = w)

(* The subscriptions are those of the open streams. *)
SubscriptionInv ==
  \A s \in Streams :
    /\ s \in subs <=> at[s] \notin Closed
    /\ at[s] \in Closed => q[s] = << >>
    /\ bus = "remote" => q[s] = << >> /\ \A w \in Writers : s \notin targets[w]

(* The newest row is still to be put into the queue of s. *)
Pending(s) == \E w \in Writers : targets[w] = { "all" } \/ s \in targets[w]

(* The last id that was put for s, or passed before s subscribed. *)
Passed(s) == IF Pending(s) THEN log - 1 ELSE log

(* The last id sent when the batch is through. *)
Reach(s) == last[s] + Len(batch[s])

(* What is queued ends with the last id that was put, and what is sent and *)
(* fetched reaches up to what is queued.                                   *)
QueueInv(s) ==
  /\ \A i \in DOMAIN q[s] : q[s][i] = Passed(s) - Len(q[s]) + i
  /\ at[s] \notin Closed \cup { "open" } => Passed(s) - Len(q[s]) <= Reach(s)

(* The client has the first events of the log, up to last_sent. *)
PrefixInv(s) ==
  /\ \A i \in DOMAIN Got(s) : Got(s)[i] = i
  /\ at[s] # "off" => Len(Got(s)) = last[s]

StreamInv ==
  /\ NewestInv /\ SubscriptionInv
  /\ \A s \in Streams :
       /\ OrderInv(s)
       /\ bus = "memory" /\ ~overlapped => QueueInv(s)
       /\ Reliable => PrefixInv(s)

-----------------------------------------------------------------------------
(* Queues and frames hold ids, before and after any step, and the ids that *)
(* writers hold are those of rows.                                         *)

(* What get_events_since returns has ids that are in the log. *)
LEMMA SinceType ==
  ASSUME TypeOK, NEW s \in Streams
  PROVE  /\ Since(s) \in Seq(Ids)
         /\ Len(Since(s)) = IF log >= last[s] THEN log - last[s] ELSE 0
         /\ \A i \in DOMAIN Since(s) : Since(s)[i] = last[s] + i
<1>1. log \in 0 .. MaxEvents /\ last[s] \in 0 .. MaxEvents /\ MaxEvents \in Nat
  BY ConstantsAssumption DEF TypeOK
<1>2. CASE log >= last[s]
  <2>1. log - last[s] \in Nat
    BY <1>1, <1>2
  <2> DEFINE n == log - last[s]
  <2>2. \A i \in 1 .. n : last[s] + i \in Ids
    BY <1>1, <1>2 DEF Ids
  <2>3. Since(s) \in [1 .. n -> Ids]
    BY <2>2 DEF Since
  <2>4. Since(s) \in Seq(Ids)
    BY <2>1, <2>3, SeqDef
  <2> QED
    BY <1>2, <2>1, <2>3, <2>4, LenProperties DEF Since
<1>3. CASE ~(log >= last[s])
  <2>1. 1 .. log - last[s] = {}
    BY <1>1, <1>3
  <2>2. Since(s) = << >>
    BY <2>1 DEF Since
  <2> QED
    BY <1>3, <2>2, EmptySeq
<1> QED
  BY <1>2, <1>3

(* The empty log, the closed streams and the idle writers have their       *)
(* types.                                                                  *)
LEMMA TypeInit == Init => TypeInv
<1> SUFFICES ASSUME Init PROVE TypeInv
  OBVIOUS
<1>1. 0 \in 0 .. MaxEvents /\ 0 \in 0 .. Grace /\ 0 \in 0 .. MaxDrops
  BY ConstantsAssumption
<1>2. << >> \in Seq(Ids)
  BY EmptySeq
<1>3. TypeOK
  BY <1>1, <1>2 DEF Init, TypeOK, Places
<1>4. WriterInv
  BY DEF Init, WriterInv
<1> QED
  BY <1>3, <1>4 DEF TypeInv

(* A writer that inserts, publishes or ends leaves all in its type, and    *)
(* puts only where somebody listens.                                       *)
LEMMA WriterTypes ==
  ASSUME TypeInv, NEW w \in Writers,
         Write(w) \/ Publish(w) \/ Finish(w)
  PROVE  TypeInv'
<1> USE ConstantsAssumption DEF TypeInv, TypeOK, WriterInv, setup, writerVars, busVars,
        streamVars, clientVars
<1>1. CASE Write(w)
  <2>1. log + 1 \in 1 .. MaxEvents
    BY <1>1 DEF Write
  <2> QED
    BY <1>1, <2>1 DEF Write
<1>2. CASE CopySubscribers(w)
  <2>1. PICK reached \in SUBSET subs : targets' = [targets EXCEPT ![w] = reached]
    BY <1>2 DEF CopySubscribers
  <2>2. "all" \notin reached
    BY <2>1
  <2> QED
    BY <1>2, <2>1, <2>2 DEF CopySubscribers
<1>3. ASSUME NEW s \in Streams, Put(w, s) PROVE TypeInv'
  <2>1. holding[w] \in Ids
    BY <1>3 DEF Put, Ids
  <2>2. Append(q[s], holding[w]) \in Seq(Ids)
    BY <2>1, AppendProperties
  <2> QED
    BY <1>3, <2>2 DEF Put
<1>4. CASE Published(w)
  BY <1>4 DEF Published
<1>5. CASE Finish(w)
  BY <1>5 DEF Finish
<1> QED
  BY <1>1, <1>2, <1>3, <1>4, <1>5 DEF Publish

(* A stream that opens, merges, sends or loses its client leaves all in    *)
(* its type.                                                               *)
LEMMA StreamTypes ==
  ASSUME TypeOK, NEW s \in Streams,
         Open(s) \/ Merge(s) \/ Receive(s) \/ Disconnect(s)
  PROVE  TypeOK'
<1> USE DEF TypeOK, setup, writerVars, busVars, streamVars, clientVars
<1>0. /\ << >> \in Seq(Ids) /\ 0 \in 0 .. MaxEvents /\ 0 \in 0 .. Grace
      /\ Grace \in Nat /\ MaxDrops \in Nat
      /\ Places = { "off", "open", "sending", "live", "silent", "quiet", "ended" }
  BY EmptySeq, ConstantsAssumption DEF Places
<1>a. ASSUME NEW id \in Ids, Send(s, id)
      PROVE  wire' \in [Streams -> Seq(Ids)] /\ last' \in [Streams -> 0 .. MaxEvents]
  <2>1. Append(wire[s], id) \in Seq(Ids)
    BY AppendProperties
  <2>2. id \in 0 .. MaxEvents
    BY DEF Ids
  <2> QED
    BY <1>a, <2>1, <2>2 DEF Send
<1>1. CASE Open(s)
  <2>1. at' \in [Streams -> Places] /\ subs' \subseteq Streams
    BY <1>0, <1>1 DEF Open
  <2>2. idle' \in [Streams -> 0 .. Grace]
    BY <1>0, <1>1 DEF Open
  <2>3. seen[s] # << >> => Last(seen[s]) \in 0 .. MaxEvents
    <3>1. ASSUME seen[s] # << >> PROVE Len(seen[s]) \in 1 .. Len(seen[s])
      BY <3>1, EmptySeq
    <3>2. ASSUME seen[s] # << >> PROVE Last(seen[s]) \in Ids
      BY <3>1, <3>2, ElementOfSeq DEF Last
    <3> QED
      BY <3>2 DEF Ids
  <2>4. last' \in [Streams -> 0 .. MaxEvents]
    BY <1>0, <1>1, <2>3 DEF Open
  <2>5. seen' \in [Streams -> Seq(Ids)]
    BY <1>0, <1>1 DEF Open
  <2> QED
    BY <1>1, <2>1, <2>2, <2>4, <2>5 DEF Open
<1>2. CASE Replay(s)
  BY <1>0, <1>2, SinceType DEF Replay
<1>3. CASE SendRow(s)
  <2>1. CASE batch[s] = << >>
    BY <1>0, <1>3, <2>1 DEF SendRow
  <2>2. CASE batch[s] # << >>
    <3>1. Head(batch[s]) \in Ids /\ Tail(batch[s]) \in Seq(Ids)
      BY <2>2, HeadTailProperties
    <3>2. wire' \in [Streams -> Seq(Ids)] /\ last' \in [Streams -> 0 .. MaxEvents]
      BY <1>3, <1>a, <2>2, <3>1 DEF SendRow
    <3> QED
      BY <1>0, <1>3, <2>2, <3>1, <3>2 DEF SendRow
  <2> QED
    BY <2>1, <2>2
<1>4. CASE TakeLive(s)
  <2>1. Head(q[s]) \in Ids /\ Tail(q[s]) \in Seq(Ids)
    BY <1>4, HeadTailProperties DEF TakeLive
  <2>2. wire' \in [Streams -> Seq(Ids)] /\ last' \in [Streams -> 0 .. MaxEvents]
    BY <1>4, <1>a, <2>1 DEF TakeLive
  <2>3. q' \in [Streams -> Seq(Ids)]
    BY <1>4, <2>1 DEF TakeLive
  <2>4. idle' \in [Streams -> 0 .. Grace]
    BY <1>0, <1>4 DEF TakeLive
  <2> QED
    BY <1>4, <2>2, <2>3, <2>4 DEF TakeLive
<1>5. CASE Timeout(s)
  BY <1>0, <1>5 DEF Timeout
<1>6. CASE CatchUp(s)
  BY <1>0, <1>6, SinceType DEF CatchUp
<1>7. CASE CheckEnd(s)
  <2>1. at' \in [Streams -> Places]
    BY <1>0, <1>7 DEF CheckEnd
  <2>2. subs' = subs \/ subs' = subs \ { s }
    BY <1>7 DEF CheckEnd
  <2>3. q' = q \/ q' = [q EXCEPT ![s] = << >>]
    BY <1>7 DEF CheckEnd
  <2>4. subs' \subseteq Streams
    BY <2>2
  <2>5. q' \in [Streams -> Seq(Ids)]
    BY <1>0, <2>3
  <2>6. targets' \in [Writers -> SUBSET (Streams \cup { "all" })]
    BY <1>7 DEF CheckEnd
  <2> QED
    BY <1>7, <2>1, <2>4, <2>5, <2>6 DEF CheckEnd
<1>8. CASE Receive(s)
  <2>1. Head(wire[s]) \in Ids /\ Tail(wire[s]) \in Seq(Ids)
    BY <1>8, HeadTailProperties DEF Receive
  <2>2. Append(seen[s], Head(wire[s])) \in Seq(Ids)
    BY <2>1, AppendProperties
  <2> QED
    BY <1>8, <2>1, <2>2 DEF Receive
<1>9. CASE Disconnect(s)
  BY <1>0, <1>9 DEF Disconnect
<1> QED
  BY <1>1, <1>2, <1>3, <1>4, <1>5, <1>6, <1>7, <1>8, <1>9 DEF Merge

(* A stream writes no row; one that closes leaves no writer with its queue.*)
LEMMA StreamKeepsWriters ==
  ASSUME TypeInv, NEW s \in Streams,
         Open(s) \/ Merge(s) \/ Receive(s) \/ Disconnect(s)
  PROVE  WriterInv'
<1> USE DEF TypeInv, TypeOK, WriterInv, writerVars, busVars
<1>1. CASE CheckEnd(s)
  BY <1>1 DEF CheckEnd
<1>2. CASE Disconnect(s)
  BY <1>2 DEF Disconnect
<1>3. CASE Open(s)
  BY <1>3 DEF Open
<1> QED
  BY <1>1, <1>2, <1>3 DEF Merge, Replay, SendRow, TakeLive, Timeout, CatchUp, Receive

(* Every step keeps the types.                                             *)
LEMMA TypeStep == TypeInv /\ [Next]_vars => TypeInv'
<1> SUFFICES ASSUME TypeInv, [Next]_vars PROVE TypeInv'
  OBVIOUS
<1>1. CASE UNCHANGED vars
  BY <1>1 DEF vars, setup, writerVars, busVars, streamVars, clientVars, TypeInv, TypeOK,
              WriterInv
<1> QED
  BY <1>1, WriterTypes, StreamTypes, StreamKeepsWriters DEF Next, TypeInv

(* Ids are those of rows, queues and frames hold ids, and a stream is at a *)
(* place of its loop: every variable keeps its type.                       *)
THEOREM TypeCorrect == Spec => []TypeOK
<1>1. TypeInv => TypeOK
  BY DEF TypeInv
<1> QED
  BY <1>1, TypeInit, TypeStep, PTL DEF Spec

-----------------------------------------------------------------------------
(* The order of what a client receives *)

(* Nothing of the stream of s itself changes. *)
Same(s) == /\ at'[s] = at[s] /\ batch'[s] = batch[s] /\ last'[s] = last[s]
           /\ wire'[s] = wire[s] /\ seen'[s] = seen[s]

(* A frame is sent and last_sent follows it. *)
Sends(s, id) == /\ wire'[s] = Append(wire[s], id) /\ last'[s] = id
                /\ at'[s] = at[s] /\ seen'[s] = seen[s]

(* What the thread of one stream does leaves the others alone. *)
LEMMA OthersStay ==
  ASSUME TypeOK, NEW s \in Streams, NEW t \in Streams, t # s,
         Open(t) \/ Merge(t) \/ Receive(t) \/ Disconnect(t)
  PROVE  Same(s)
<1> USE DEF Same, TypeOK, streamVars, clientVars
<1>1. CASE Open(t) \/ Receive(t) \/ Disconnect(t)
  BY <1>1 DEF Open, Receive, Disconnect
<1>2. CASE Replay(t) \/ SendRow(t)
  BY <1>2 DEF Replay, SendRow, Send
<1>3. CASE TakeLive(t) \/ Timeout(t)
  BY <1>3 DEF TakeLive, Timeout, Send
<1>4. CASE CatchUp(t) \/ CheckEnd(t)
  BY <1>4 DEF CatchUp, CheckEnd
<1> QED
  BY <1>1, <1>2, <1>3, <1>4 DEF Merge

(* A step that changes the stream of s is one of its thread or its client. *)
LEMMA OneStreamMoves ==
  ASSUME TypeOK, [Next]_vars, NEW s \in Streams
  PROVE  Same(s) \/ Open(s) \/ Merge(s) \/ Receive(s) \/ Disconnect(s)
<1>1. ASSUME NEW w \in Writers, Write(w) \/ Publish(w) \/ Finish(w) PROVE Same(s)
  BY <1>1 DEF Same, streamVars, clientVars, Write, Publish, CopySubscribers, Put, Published,
              Finish
<1>2. CASE UNCHANGED vars
  BY <1>2 DEF Same, vars, streamVars, clientVars
<1> QED
  BY <1>1, <1>2, OthersStay DEF Next

(* Two sequences of ids, one after the other. *)
LEMMA Joined ==
  ASSUME NEW a \in Seq(Ids), NEW b \in Seq(Ids)
  PROVE  /\ a \o b \in Seq(Ids)
         /\ Len(a) \in Nat /\ Len(b) \in Nat /\ Len(a \o b) = Len(a) + Len(b)
         /\ DOMAIN (a \o b) = 1 .. Len(a) + Len(b)
         /\ \A i \in 1 .. Len(a) : (a \o b)[i] = a[i]
         /\ \A i \in 1 .. Len(b) : (a \o b)[Len(a) + i] = b[i]
<1>1. /\ a \o b \in Seq(Ids) /\ Len(a \o b) = Len(a) + Len(b)
      /\ \A i \in 1 .. Len(a) + Len(b) :
           (a \o b)[i] = IF i <= Len(a) THEN a[i] ELSE b[i - Len(a)]
  BY ConcatProperties
<1>2. Len(a) \in Nat /\ Len(b) \in Nat
  BY LenProperties
<1>3. \A i \in 1 .. Len(a) : i \in 1 .. Len(a) + Len(b) /\ i <= Len(a)
  BY <1>2
<1>4. \A i \in 1 .. Len(b) :
        Len(a) + i \in 1 .. Len(a) + Len(b) /\ ~(Len(a) + i <= Len(a)) /\ Len(a) + i - Len(a) = i
  BY <1>2
<1>5. DOMAIN (a \o b) = 1 .. Len(a) + Len(b)
  BY <1>1, LenProperties
<1>6. \A i \in 1 .. Len(a) : (a \o b)[i] = a[i]
  BY <1>1, <1>3
<1>7. \A i \in 1 .. Len(b) : (a \o b)[Len(a) + i] = b[i]
  BY <1>1, <1>4
<1> QED
  BY <1>1, <1>2, <1>5, <1>6, <1>7

(* Receiving a frame moves it from what is under way to what was received. *)
LEMMA ReceivingKeeps ==
  ASSUME NEW a \in Seq(Ids), NEW b \in Seq(Ids), b # << >>
  PROVE  Append(a, Head(b)) \o Tail(b) = a \o b
<1>1. Head(b) \in Ids /\ Tail(b) \in Seq(Ids) /\ << Head(b) >> \in Seq(Ids)
  BY HeadTailProperties
<1>2. Append(a, Head(b)) = a \o << Head(b) >>
  BY <1>1, AppendIsConcat
<1>3. (a \o << Head(b) >>) \o Tail(b) = a \o (<< Head(b) >> \o Tail(b))
  BY <1>1, ConcatAssociative
<1>4. << Head(b) >> \o Tail(b) = b
  <2>1. /\ Len(b) \in Nat \ { 0 } /\ Head(b) = b[1] /\ Len(Tail(b)) = Len(b) - 1
        /\ \A i \in 1 .. Len(b) - 1 : Tail(b)[i] = b[i + 1]
    BY EmptySeq, HeadTailProperties
  <2>2. /\ << Head(b) >> \o Tail(b) \in Seq(Ids)
        /\ Len(<< Head(b) >> \o Tail(b)) = Len(b)
        /\ (<< Head(b) >> \o Tail(b))[1] = b[1]
        /\ \A i \in 1 .. Len(b) - 1 : (<< Head(b) >> \o Tail(b))[1 + i] = Tail(b)[i]
    BY <1>1, <2>1, Joined
  <2>3. \A i \in 1 .. Len(b) : i = 1 \/ (i - 1 \in 1 .. Len(b) - 1 /\ 1 + (i - 1) = i)
    BY <2>1
  <2>4. \A i \in 1 .. Len(b) : (<< Head(b) >> \o Tail(b))[i] = b[i]
    BY <2>1, <2>2, <2>3
  <2> QED
    BY <2>2, <2>4, SeqEqual
<1> QED
  BY <1>2, <1>3, <1>4

(* A frame sent comes after everything received and under way. *)
LEMMA SendingAppends ==
  ASSUME NEW a \in Seq(Ids), NEW b \in Seq(Ids), NEW id \in Ids
  PROVE  /\ a \o Append(b, id) \in Seq(Ids)
         /\ Len(a \o Append(b, id)) = Len(a \o b) + 1
         /\ \A i \in 1 .. Len(a \o b) : (a \o Append(b, id))[i] = (a \o b)[i]
         /\ (a \o Append(b, id))[Len(a \o b) + 1] = id
<1>1. Append(b, id) = b \o << id >> /\ << id >> \in Seq(Ids)
  BY AppendIsConcat
<1>2. a \o Append(b, id) = (a \o b) \o << id >>
  BY <1>1, ConcatAssociative
<1>3. a \o b \in Seq(Ids)
  BY ConcatProperties
<1>4. a \o Append(b, id) = Append(a \o b, id)
  BY <1>2, <1>3, AppendIsConcat
<1> QED
  BY <1>3, <1>4, AppendProperties

(* A frame with an id above last_sent keeps the order. *)
LEMMA SendingKeepsOrder ==
  ASSUME TypeOK, NEW s \in Streams, OrderInv(s), at[s] # "off",
         NEW id \in Ids, id > last[s], Sends(s, id)
  PROVE  /\ \A i, j \in DOMAIN Got(s)' : i < j => Got(s)'[i] < Got(s)'[j]
         /\ \A i \in DOMAIN Got(s)' : Got(s)'[i] <= last'[s]
<1>1. /\ seen[s] \in Seq(Ids) /\ wire[s] \in Seq(Ids) /\ Got(s) \in Seq(Ids)
      /\ last[s] \in Int /\ id \in Int
  BY ConcatProperties DEF TypeOK, Got, Ids
<1>2. Got(s)' = seen[s] \o Append(wire[s], id)
  BY DEF Sends, Got
<1> DEFINE n == Len(Got(s))
<1>3. /\ Got(s)' \in Seq(Ids) /\ Len(Got(s)') = n + 1 /\ n \in Nat
      /\ \A i \in 1 .. n : Got(s)'[i] = Got(s)[i]
      /\ Got(s)'[n + 1] = id
  <2>1. n \in Nat
    BY <1>1, LenProperties
  <2>2. Got(s) = seen[s] \o wire[s]
    BY DEF Got
  <2>3. /\ seen[s] \o Append(wire[s], id) \in Seq(Ids)
        /\ Len(seen[s] \o Append(wire[s], id)) = Len(seen[s] \o wire[s]) + 1
        /\ \A i \in 1 .. Len(seen[s] \o wire[s]) :
             (seen[s] \o Append(wire[s], id))[i] = (seen[s] \o wire[s])[i]
        /\ (seen[s] \o Append(wire[s], id))[Len(seen[s] \o wire[s]) + 1] = id
    BY <1>1, SendingAppends, Zenon
  <2> QED
    BY <1>2, <2>1, <2>2, <2>3
<1>4. DOMAIN Got(s)' = 1 .. n + 1 /\ DOMAIN Got(s) = 1 .. n
  BY <1>1, <1>3, LenProperties
<1>5. \A i \in 1 .. n : Got(s)[i] \in Int /\ Got(s)[i] <= last[s]
  <2>1. \A i \in 1 .. n : Got(s)[i] \in Ids
    BY <1>1, ElementOfSeq
  <2> QED
    BY <1>4, <2>1 DEF OrderInv, Ids
<1>6. \A i, j \in 1 .. n : i < j => Got(s)[i] < Got(s)[j]
  BY <1>4 DEF OrderInv
<1>7. \A i \in 1 .. n + 1 : i \in 1 .. n \/ i = n + 1
  BY <1>3
<1>8. last'[s] = id
  BY DEF Sends
<1> HIDE DEF n
<1>9. \A i \in 1 .. n + 1 : Got(s)'[i] <= id
  BY <1>1, <1>3, <1>5, <1>7
<1>10. ASSUME NEW i \in 1 .. n + 1, NEW j \in 1 .. n + 1, i < j
       PROVE  Got(s)'[i] < Got(s)'[j]
  <2>1. i \in 1 .. n
    BY <1>3, <1>10
  <2>2. CASE j \in 1 .. n
    BY <1>3, <1>6, <1>10, <2>1, <2>2
  <2>3. CASE j = n + 1
    <3>1. Got(s)[i] < id
      BY <1>1, <1>5, <2>1
    <3> QED
      BY <1>3, <2>1, <2>3, <3>1
  <2> QED
    BY <1>7, <2>2, <2>3
<1> QED
  BY <1>4, <1>8, <1>9, <1>10

(* last_sent only grows and what is sent is above it: no step disturbs the *)
(* order of what a client has.                                             *)
LEMMA OrderStep ==
  ASSUME TypeOK, NEW s \in Streams, OrderInv(s), [Next]_vars
  PROVE  OrderInv(s)'
<1>0. /\ seen[s] \in Seq(Ids) /\ wire[s] \in Seq(Ids) /\ batch[s] \in Seq(Ids)
      /\ q[s] \in Seq(Ids) /\ Got(s) \in Seq(Ids) /\ last[s] \in 0 .. MaxEvents
      /\ MaxEvents \in Nat
  BY ConcatProperties, ConstantsAssumption DEF TypeOK, Got
<1>1. CASE Same(s)
  <2>1. Got(s)' = Got(s)
    BY <1>1 DEF Same, Got
  <2> QED
    BY <1>1, <2>1 DEF Same, OrderInv
<1>2. CASE Open(s)
  <2>1. /\ at[s] = "off" /\ at'[s] = "open" /\ batch'[s] = batch[s] /\ wire'[s] = wire[s]
        /\ wire[s] = << >> /\ batch[s] = << >>
    BY <1>2 DEF Open, TypeOK, OrderInv
  <2>2. CASE resumes[s]
    <3>1. seen'[s] = seen[s] /\ Got(s) = seen[s] /\ Got(s)' = seen[s]
      BY <1>0, <1>2, <2>1, <2>2, ConcatEmptySeq DEF Open, Got
    <3>2. last'[s] = IF seen[s] = << >> THEN 0 ELSE seen[s][Len(seen[s])]
      BY <1>2, <2>2 DEF Open, Last, TypeOK
    <3>3. \A i \in DOMAIN seen[s] : seen[s][i] <= last'[s]
      <4>1. CASE seen[s] = << >>
        BY <4>1
      <4>2. ASSUME seen[s] # << >>, NEW i \in DOMAIN seen[s] PROVE seen[s][i] <= last'[s]
        <5>1. /\ Len(seen[s]) \in Nat \ { 0 } /\ DOMAIN seen[s] = 1 .. Len(seen[s])
              /\ \A k \in 1 .. Len(seen[s]) : seen[s][k] \in Ids
          BY <1>0, <4>2, EmptySeq, LenProperties, ElementOfSeq
        <5>2. i < Len(seen[s]) \/ i = Len(seen[s])
          BY <4>2, <5>1
        <5>3. i < Len(seen[s]) => seen[s][i] < seen[s][Len(seen[s])]
          BY <3>1, <4>2, <5>1 DEF OrderInv
        <5>4. seen[s][i] \in Int /\ seen[s][Len(seen[s])] \in Int
          BY <4>2, <5>1 DEF Ids
        <5> QED
          BY <3>2, <4>2, <5>2, <5>3, <5>4
      <4> QED
        BY <4>1, <4>2
    <3> QED
      BY <2>1, <3>1, <3>3 DEF OrderInv
  <2>3. CASE ~resumes[s]
    <3>1. Got(s)' = << >>
      BY <1>0, <1>2, <2>1, <2>3, ConcatEmptySeq DEF Open, Got, TypeOK
    <3> QED
      BY <2>1, <3>1 DEF OrderInv
  <2> QED
    BY <2>2, <2>3
<1>3. CASE Replay(s) \/ CatchUp(s)
  <2>1. /\ at[s] # "off" /\ at'[s] # "off" /\ last'[s] = last[s] /\ batch'[s] = Since(s)
        /\ at'[s] # "sending" => Since(s) = << >>
        /\ wire'[s] = wire[s] /\ Got(s)' = Got(s)
    BY <1>3 DEF Replay, CatchUp, TypeOK, Got, clientVars
  <2> QED
    BY <2>1, SinceType DEF OrderInv
<1>4. CASE SendRow(s)
  <2>1. CASE batch[s] = << >>
    <3>1. /\ at[s] = "sending" /\ at'[s] = "live" /\ last'[s] = last[s] /\ wire'[s] = wire[s]
          /\ batch'[s] = << >> /\ Got(s)' = Got(s)
      BY <1>4, <2>1 DEF SendRow, TypeOK, Got
    <3> QED
      BY <3>1 DEF OrderInv
  <2>2. CASE batch[s] # << >>
    <3>1. /\ Head(batch[s]) = batch[s][1] /\ Head(batch[s]) \in Ids
          /\ Len(batch[s]) \in Nat \ { 0 } /\ DOMAIN batch[s] = 1 .. Len(batch[s])
          /\ Tail(batch[s]) \in Seq(Ids) /\ Len(Tail(batch[s])) = Len(batch[s]) - 1
          /\ \A i \in 1 .. Len(Tail(batch[s])) : Tail(batch[s])[i] = batch[s][i + 1]
      BY <1>0, <2>2, HeadTailProperties, EmptySeq, LenProperties
    <3>2. Head(batch[s]) = last[s] + 1
      BY <3>1 DEF OrderInv
    <3>3. /\ Sends(s, Head(batch[s])) /\ batch'[s] = Tail(batch[s])
          /\ at[s] = "sending" /\ at'[s] = "sending"
      BY <1>4, <2>2 DEF SendRow, Send, Sends, TypeOK
    <3>4. \A i \in DOMAIN batch'[s] : batch'[s][i] = last'[s] + i
      <4>1. DOMAIN batch'[s] = 1 .. Len(batch[s]) - 1
        BY <3>1, <3>3, LenProperties
      <4>2. last'[s] = last[s] + 1
        BY <3>2, <3>3 DEF Sends
      <4>3. ASSUME NEW i \in 1 .. Len(batch[s]) - 1
            PROVE  i + 1 \in 1 .. Len(batch[s]) /\ last[s] + (i + 1) = last[s] + 1 + i
        <5>1. Len(batch[s]) \in Nat /\ last[s] \in Int
          BY <1>0, <3>1
        <5> QED
          BY <5>1
      <4> QED
        BY <3>1, <3>3, <4>1, <4>2, <4>3 DEF OrderInv
    <3>5. Head(batch[s]) > last[s]
      BY <1>0, <3>2
    <3> QED
      BY <3>1, <3>3, <3>4, <3>5, SendingKeepsOrder DEF OrderInv
  <2> QED
    BY <2>1, <2>2
<1>5. CASE TakeLive(s)
  <2>1. /\ at[s] = "live" /\ at'[s] = "live" /\ batch'[s] = << >> /\ seen'[s] = seen[s]
    BY <1>5 DEF TakeLive, OrderInv
  <2>2. CASE Fresh(s)
    <3>1. Head(q[s]) \in Ids /\ Head(q[s]) > last[s] /\ Sends(s, Head(q[s]))
      BY <1>0, <1>5, <2>2, HeadTailProperties DEF TakeLive, Fresh, Send, Sends, TypeOK
    <3> QED
      BY <2>1, <3>1, SendingKeepsOrder DEF OrderInv
  <2>3. CASE ~Fresh(s)
    <3>1. last'[s] = last[s] /\ Got(s)' = Got(s)
      BY <1>5, <2>3 DEF TakeLive, Got
    <3> QED
      BY <2>1, <3>1 DEF OrderInv
  <2> QED
    BY <2>2, <2>3
<1>6. CASE Timeout(s) \/ CheckEnd(s)
  <2>1. /\ at[s] \in { "live", "quiet" } /\ at'[s] \in { "silent", "live", "ended" }
        /\ batch'[s] = batch[s] /\ last'[s] = last[s] /\ wire'[s] = wire[s] /\ Got(s)' = Got(s)
    BY <1>6 DEF Timeout, CheckEnd, TypeOK, Got, clientVars
  <2> QED
    BY <2>1 DEF OrderInv
<1>7. CASE Receive(s)
  <2>1. /\ at' = at /\ batch' = batch /\ last' = last
    BY <1>7 DEF Receive, streamVars
  <2>2. Got(s)' = Got(s)
    <3>1. wire[s] # << >> /\ seen'[s] = Append(seen[s], Head(wire[s])) /\ wire'[s] = Tail(wire[s])
      BY <1>7 DEF Receive, TypeOK
    <3> QED
      BY <1>0, <3>1, ReceivingKeeps DEF Got
  <2>3. at[s] # "off"
    BY <1>7 DEF Receive, OrderInv
  <2> QED
    BY <2>1, <2>2, <2>3 DEF OrderInv
<1>8. CASE Disconnect(s)
  <2>1. /\ at'[s] = "off" /\ batch'[s] = << >> /\ wire'[s] = << >> /\ seen'[s] = seen[s]
    BY <1>8 DEF Disconnect, TypeOK
  <2>2. Got(s)' = seen[s]
    BY <1>0, <2>1, ConcatEmptySeq DEF Got
  <2>3. /\ DOMAIN seen[s] \subseteq DOMAIN Got(s)
        /\ \A i \in DOMAIN seen[s] : Got(s)[i] = seen[s][i]
    <3>1. DOMAIN seen[s] = 1 .. Len(seen[s])
      BY <1>0, LenProperties
    <3>2. /\ Len(seen[s]) \in Nat /\ Len(wire[s]) \in Nat
          /\ DOMAIN Got(s) = 1 .. Len(seen[s]) + Len(wire[s])
          /\ \A i \in 1 .. Len(seen[s]) : Got(s)[i] = seen[s][i]
      BY <1>0, Joined, Zenon DEF Got
    <3>3. \A m, n \in Nat : 1 .. m \subseteq 1 .. m + n
      OBVIOUS
    <3> QED
      BY <3>1, <3>2, <3>3, Zenon
  <2> QED
    BY <2>1, <2>2, <2>3 DEF OrderInv
<1> QED
  BY <1>1, <1>2, <1>3, <1>4, <1>5, <1>6, <1>7, <1>8, OneStreamMoves DEF Merge

(* A client that is not connected has received nothing.                    *)
LEMMA OrderInit == Init => \A s \in Streams : OrderInv(s)
<1> SUFFICES ASSUME Init, NEW s \in Streams PROVE OrderInv(s)
  OBVIOUS
<1>1. /\ seen[s] = << >> /\ wire[s] = << >> /\ batch[s] = << >> /\ at[s] = "off"
  BY DEF Init
<1>2. Got(s) = << >>
  BY <1>1, EmptySeq, ConcatEmptySeq DEF Got
<1> QED
  BY <1>1, <1>2 DEF OrderInv

(* What every thread keeps, whatever the bus does with its messages. *)
THEOREM OrderInvariant == Spec => [](TypeInv /\ \A s \in Streams : OrderInv(s))
<1>1. Init => TypeInv /\ \A s \in Streams : OrderInv(s)
  BY TypeInit, OrderInit
<1>2. ASSUME TypeInv /\ \A s \in Streams : OrderInv(s), [Next]_vars
      PROVE  (TypeInv /\ \A s \in Streams : OrderInv(s))'
  BY <1>2, TypeStep, OrderStep DEF TypeInv
<1> QED
  BY <1>1, <1>2, PTL DEF Spec

(* Whatever the bus loses or reorders, and however often a client comes    *)
(* back, it never receives an event twice or before an earlier one.        *)
THEOREM ClientsReceiveInOrder == Spec => []ReceivedInOrder
<1>1. (\A s \in Streams : OrderInv(s)) => ReceivedInOrder
  BY DEF OrderInv, ReceivedInOrder, Got
<1> QED
  BY <1>1, OrderInvariant, PTL

-----------------------------------------------------------------------------
(* Completeness, where the bus neither loses nor reorders *)

(* A second INSERT while an id is in flight is an overlap; without one the *)
(* id in flight stays the newest.                                          *)
LEMMA NewestStep ==
  ASSUME TypeInv, NewestInv, [Next]_vars
  PROVE  NewestInv'
<1> USE DEF TypeInv, TypeOK, NewestInv, writerVars
<1>1. ASSUME NEW w \in Writers, Write(w) PROVE NewestInv'
  BY <1>1 DEF Write
<1>2. ASSUME NEW w \in Writers, Publish(w) PROVE NewestInv'
  BY <1>2 DEF Publish, CopySubscribers, Put, Published
<1>3. ASSUME NEW w \in Writers, Finish(w) PROVE NewestInv'
  BY <1>3 DEF Finish
<1>4. ASSUME NEW s \in Streams, Open(s) \/ Merge(s) \/ Receive(s) \/ Disconnect(s)
      PROVE  UNCHANGED << overlapped, log, holding >>
  BY <1>4 DEF Open, Merge, Replay, SendRow, TakeLive, Timeout, CatchUp, CheckEnd, Receive,
              Disconnect
<1>5. CASE UNCHANGED vars
  BY <1>5 DEF vars
<1> QED
  BY <1>1, <1>2, <1>3, <1>4, <1>5 DEF Next

(* A stream subscribes when it opens and unsubscribes when it closes;      *)
(* Redis fills no queue of the process.                                    *)
LEMMA SubscriptionStep ==
  ASSUME TypeInv, SubscriptionInv, [Next]_vars
  PROVE  SubscriptionInv'
<1> USE ConstantsAssumption DEF TypeInv, TypeOK, WriterInv, SubscriptionInv, Closed, setup,
        writerVars, busVars, streamVars
<1>1. ASSUME NEW w \in Writers, Write(w) \/ Published(w) \/ Finish(w)
      PROVE  SubscriptionInv'
  <2>1. UNCHANGED << bus, subs, at, q >>
    BY <1>1 DEF Write, Published, Finish
  <2>2. ASSUME NEW s \in Streams, NEW v \in Writers, s \notin targets[v]
        PROVE  s \notin targets'[v]
    <3>1. \/ targets' = targets
          \/ targets' = [targets EXCEPT ![w] = { "all" }]
      BY <1>1 DEF Write, Published, Finish
    <3>2. s # "all"
      OBVIOUS
    <3>3. targets'[v] = targets[v] \/ targets'[v] = { "all" }
      BY <3>1
    <3> QED
      BY <2>2, <3>2, <3>3
  <2> QED
    BY <2>1, <2>2
<1>2. ASSUME NEW w \in Writers, CopySubscribers(w) PROVE SubscriptionInv'
  BY <1>2 DEF CopySubscribers
<1>3. ASSUME NEW w \in Writers, NEW s \in Streams, Put(w, s) PROVE SubscriptionInv'
  BY <1>3 DEF Put
<1>4. ASSUME NEW s \in Streams, Open(s) PROVE SubscriptionInv'
  BY <1>4 DEF Open
<1>5. ASSUME NEW s \in Streams, Replay(s) \/ CatchUp(s) \/ Timeout(s) PROVE SubscriptionInv'
  <2>1. /\ UNCHANGED << bus, targets, subs, q >>
        /\ at[s] \in { "open", "silent", "live" }
        /\ \E p \in { "sending", "quiet", "silent" } : at' = [at EXCEPT ![s] = p]
    BY <1>5 DEF Replay, CatchUp, Timeout
  <2> QED
    BY <2>1
<1>6. ASSUME NEW s \in Streams, SendRow(s) PROVE SubscriptionInv'
  <2>1. /\ UNCHANGED << bus, targets, subs, q >>
        /\ at[s] = "sending"
        /\ at' = at \/ at' = [at EXCEPT ![s] = "live"]
    BY <1>6 DEF SendRow
  <2> QED
    BY <2>1
<1>7. ASSUME NEW s \in Streams, TakeLive(s) PROVE SubscriptionInv'
  BY <1>7 DEF TakeLive
<1>8. ASSUME NEW s \in Streams, CheckEnd(s) PROVE SubscriptionInv'
  BY <1>8 DEF CheckEnd
<1>9. ASSUME NEW s \in Streams, Receive(s) PROVE SubscriptionInv'
  BY <1>9 DEF Receive
<1>10. ASSUME NEW s \in Streams, Disconnect(s) PROVE SubscriptionInv'
  BY <1>10 DEF Disconnect
<1>11. CASE UNCHANGED vars
  BY <1>11 DEF vars
<1> QED
  BY <1>1, <1>2, <1>3, <1>4, <1>5, <1>6, <1>7, <1>8, <1>9, <1>10, <1>11
  DEF Next, Publish, Merge

(* A put, the only step of a writer that adds to the queue of s, adds the  *)
(* next id; no other step of a writer changes what has passed.             *)
LEMMA PutContinues ==
  ASSUME TypeInv, NewestInv, NewestInv', SubscriptionInv, NEW s \in Streams, QueueInv(s),
         bus = "memory", ~overlapped', NEW w \in Writers,
         Write(w) \/ Publish(w) \/ Finish(w)
  PROVE  QueueInv(s)'
<1>0. /\ log \in Nat /\ q[s] \in Seq(Ids) /\ Len(q[s]) \in Nat /\ "all" \notin Streams
      /\ DOMAIN q[s] = 1 .. Len(q[s]) /\ ~overlapped
      /\ at' = at /\ last' = last /\ batch' = batch
  BY ConstantsAssumption, LenProperties
  DEF TypeInv, TypeOK, Write, Publish, CopySubscribers, Put, Published, Finish, writerVars,
      streamVars
<1>1. Reach(s)' = Reach(s)
  BY <1>0 DEF Reach
<1>2. ASSUME q'[s] = q[s], Passed(s)' = Passed(s) PROVE QueueInv(s)'
  BY <1>0, <1>1, <1>2 DEF QueueInv
<1>3. CASE Write(w)
  <2>1. \A v \in Writers : targets[v] = {}
    BY <1>0, <1>3 DEF Write, TypeInv, WriterInv
  <2>2. Passed(s) = log
    BY <2>1 DEF Passed, Pending
  <2>3. Passed(s)' = log
    <3>1. Pending(s)' /\ log' = log + 1
      BY <1>3 DEF Write, Pending, TypeInv, TypeOK
    <3> QED
      BY <1>0, <3>1 DEF Passed
  <2> QED
    BY <1>2, <1>3, <2>2, <2>3 DEF Write, busVars
<1>4. CASE CopySubscribers(w)
  <2>1. targets' = [targets EXCEPT ![w] = subs] /\ targets[w] = { "all" }
        /\ UNCHANGED << log, subs, q >>
    BY <1>4 DEF CopySubscribers, busVars
  <2>2. CASE s \in subs
    <3>1. Pending(s) /\ Pending(s)'
      BY <2>1, <2>2 DEF Pending, TypeInv, TypeOK
    <3> QED
      BY <1>2, <2>1, <3>1 DEF Passed
  <2>3. CASE s \notin subs
    BY <1>0, <2>1, <2>3, EmptySeq DEF QueueInv, SubscriptionInv
  <2> QED
    BY <2>2, <2>3
<1>5. ASSUME NEW t \in Streams, t # s, Put(w, t) PROVE QueueInv(s)'
  <2>1. q'[s] = q[s] /\ log' = log /\ targets' = [targets EXCEPT ![w] = @ \ { t }]
        /\ t \in targets[w]
    BY <1>5 DEF Put, TypeInv, TypeOK
  <2>2. Pending(s)' <=> Pending(s)
    <3>1. "all" \notin targets[w] /\ t # "all"
      BY <1>0, <2>1 DEF TypeInv, WriterInv
    <3> QED
      BY <1>5, <2>1, <3>1 DEF Pending, TypeInv, TypeOK
  <2> QED
    BY <1>2, <2>1, <2>2 DEF Passed
<1>6. CASE Put(w, s)
  <2>1. /\ q'[s] = Append(q[s], holding[w]) /\ log' = log /\ s \in targets[w]
        /\ targets' = [targets EXCEPT ![w] = @ \ { s }]
    BY <1>6 DEF Put, TypeInv, TypeOK
  <2>2. holding[w] = log /\ holding[w] \in Ids
    BY <1>0, <2>1 DEF TypeInv, TypeOK, WriterInv, NewestInv, Ids
  <2>3. Pending(s)
    BY <2>1 DEF Pending
  <2>4. ~Pending(s)'
    <3>1. \A v \in Writers : v # w => targets[v] = {}
      BY <1>0, <2>1 DEF TypeInv, WriterInv, NewestInv
    <3>2. "all" \notin targets[w] \ { s }
      BY <1>0, <2>1 DEF TypeInv, WriterInv
    <3>3. \A v \in Writers : targets'[v] # { "all" } /\ s \notin targets'[v]
      BY <2>1, <3>1, <3>2 DEF TypeInv, TypeOK
    <3> QED
      BY <3>3 DEF Pending
  <2>5. Passed(s) = log - 1 /\ Passed(s)' = log
    BY <2>1, <2>3, <2>4 DEF Passed
  <2>6. /\ Len(q'[s]) = Len(q[s]) + 1 /\ DOMAIN q'[s] = 1 .. Len(q[s]) + 1
        /\ \A i \in 1 .. Len(q[s]) : q'[s][i] = q[s][i]
        /\ q'[s][Len(q[s]) + 1] = log
    BY <1>0, <2>1, <2>2, AppendProperties, LenProperties
  <2>7. \A i \in 1 .. Len(q[s]) : q[s][i] = log - 1 - Len(q[s]) + i
    BY <1>0, <2>5 DEF QueueInv
  <2>8. ASSUME NEW i \in 1 .. Len(q[s]) + 1
        PROVE  q'[s][i] = log - (Len(q[s]) + 1) + i
    <3>1. CASE i \in 1 .. Len(q[s])
      <4>1. log - 1 - Len(q[s]) + i = log - (Len(q[s]) + 1) + i
        BY <1>0
      <4> QED
        BY <2>6, <2>7, <3>1, <4>1
    <3>2. CASE i = Len(q[s]) + 1
      BY <1>0, <2>6, <3>2
    <3> QED
      BY <1>0, <3>1, <3>2
  <2>9. log - (Len(q[s]) + 1) = log - 1 - Len(q[s])
    BY <1>0
  <2> QED
    BY <1>0, <1>1, <2>5, <2>6, <2>8, <2>9 DEF QueueInv
<1>7. CASE Published(w) \/ Finish(w)
  BY <1>2, <1>7 DEF Published, Finish, busVars, Passed, Pending
<1> QED
  BY <1>3, <1>4, <1>5, <1>6, <1>7 DEF Publish

(* A put of another writer, or a step of another stream, does not touch s. *)
LEMMA OthersKeepQueue ==
  ASSUME TypeInv, NEW s \in Streams, QueueInv(s), Same(s), q'[s] = q[s],
         log' = log, NEW t \in Streams,
         targets' = targets \/ targets' = [w \in Writers |-> targets[w] \ { t }], t # s
  PROVE  QueueInv(s)'
<1>1. ASSUME NEW w \in Writers
      PROVE  (targets'[w] = { "all" } \/ s \in targets'[w]) <=> (targets[w] = { "all" } \/ s \in targets[w])
  <2>1. targets'[w] = targets[w] \/ targets'[w] = targets[w] \ { t }
    OBVIOUS
  <2>2. t # "all" /\ ("all" \in targets[w] => targets[w] = { "all" })
    BY ConstantsAssumption DEF TypeInv, WriterInv
  <2> QED
    BY <2>1, <2>2
<1>2. Pending(s)' <=> Pending(s)
  BY <1>1 DEF Pending
<1> QED
  BY <1>2 DEF Passed, QueueInv, Reach, Same

(* What a stream takes from its queue or fetches moves Reach and never     *)
(* past what is queued.                                                    *)
LEMMA StreamKeepsQueue ==
  ASSUME TypeInv, SubscriptionInv, NEW s \in Streams, OrderInv(s), OrderInv(s)', QueueInv(s),
         Open(s) \/ Merge(s) \/ Receive(s) \/ Disconnect(s)
  PROVE  QueueInv(s)'
<1> DEFINE n == Len(q[s])
           p == Passed(s)
<1>0. /\ log \in Nat /\ q[s] \in Seq(Ids) /\ n \in Nat /\ DOMAIN q[s] = 1 .. n
      /\ p \in Int /\ p <= log /\ last[s] \in Nat
      /\ batch[s] \in Seq(Ids) /\ Len(batch[s]) \in Nat
      /\ \A i \in 1 .. n : q[s][i] = p - n + i
  BY ConstantsAssumption, LenProperties DEF TypeInv, TypeOK, Passed, QueueInv
<1>1. ASSUME UNCHANGED << log, targets >> PROVE Passed(s)' = p
  BY <1>1 DEF Passed, Pending
<1>2. CASE Open(s) \/ Disconnect(s) \/ (CheckEnd(s) /\ at'[s] = "ended")
  <2>1. q'[s] = << >> /\ at'[s] \in Closed \cup { "open" }
    BY <1>2 DEF Open, Disconnect, CheckEnd, TypeInv, TypeOK, SubscriptionInv, Closed
  <2> QED
    BY <1>0, <2>1, EmptySeq DEF QueueInv
<1>3. CASE Replay(s) \/ CatchUp(s)
  <2>1. /\ batch'[s] = Since(s) /\ UNCHANGED << log, targets, q, last >>
    BY <1>3 DEF Replay, CatchUp, TypeInv, TypeOK, writerVars, busVars
  <2>2. log <= Reach(s)'
    <3>1. Len(Since(s)) = IF log >= last[s] THEN log - last[s] ELSE 0
      BY SinceType DEF TypeInv
    <3> QED
      BY <1>0, <2>1, <3>1 DEF Reach
  <2>3. Reach(s)' \in Int
    BY <1>0, <2>1, SinceType, LenProperties DEF Reach, TypeInv
  <2>4. p - n <= Reach(s)'
    BY <1>0, <2>2, <2>3
  <2> QED
    BY <1>0, <1>1, <2>1, <2>4 DEF QueueInv
<1>4. CASE SendRow(s)
  <2>1. UNCHANGED << log, targets, q >> /\ at[s] = "sending" /\ at'[s] \in { "sending", "live" }
    BY <1>4 DEF SendRow, TypeInv, TypeOK, writerVars, busVars
  <2>2. Reach(s)' = Reach(s)
    <3>1. CASE batch[s] = << >>
      BY <1>4, <3>1 DEF SendRow, Reach
    <3>2. CASE batch[s] # << >>
      <4>1. /\ batch'[s] = Tail(batch[s]) /\ last'[s] = Head(batch[s])
        BY <1>4, <3>2 DEF SendRow, Send, TypeInv, TypeOK
      <4>2. /\ Len(Tail(batch[s])) = Len(batch[s]) - 1 /\ Head(batch[s]) = batch[s][1]
            /\ 1 \in DOMAIN batch[s]
        BY <1>0, <3>2, HeadTailProperties, EmptySeq, LenProperties
      <4>3. last'[s] = last[s] + 1
        BY <4>1, <4>2 DEF OrderInv
      <4> QED
        BY <1>0, <4>1, <4>2, <4>3 DEF Reach
    <3> QED
      BY <3>1, <3>2
  <2> QED
    BY <1>0, <1>1, <2>1, <2>2 DEF QueueInv, Closed
<1>5. CASE TakeLive(s)
  <2>1. /\ UNCHANGED << log, targets, at, batch >> /\ at[s] = "live" /\ batch[s] = << >>
        /\ q[s] # << >> /\ q'[s] = Tail(q[s])
    BY <1>5 DEF TakeLive, OrderInv, TypeInv, TypeOK, writerVars
  <2>2. /\ Tail(q[s]) \in Seq(Ids) /\ Len(Tail(q[s])) = n - 1 /\ n > 0 /\ Head(q[s]) = q[s][1]
        /\ \A i \in 1 .. n - 1 : Tail(q[s])[i] = q[s][i + 1]
        /\ DOMAIN Tail(q[s]) = 1 .. n - 1
    BY <1>0, <2>1, HeadTailProperties, EmptySeq, LenProperties
  <2>3. Reach(s) = last[s] /\ Reach(s)' = last'[s]
    BY <1>0, <2>1, EmptySeq, <1>5 DEF Reach, TakeLive, Send, TypeInv, TypeOK
  <2>4. Head(q[s]) = p - n + 1
    BY <1>0, <2>2
  <2>5. p - (n - 1) <= last'[s]
    BY <1>0, <1>5, <2>4 DEF TakeLive, Fresh, Send, TypeInv, TypeOK
  <2>6. \A i \in 1 .. n - 1 : q'[s][i] = p - (n - 1) + i
    <3>1. ASSUME NEW i \in 1 .. n - 1
          PROVE  i + 1 \in 1 .. n /\ p - n + (i + 1) = p - (n - 1) + i
      <4>1. n \in Nat /\ p \in Int
        BY <1>0
      <4> HIDE DEF n, p
      <4> QED
        BY <4>1
    <3> QED
      BY <1>0, <2>1, <2>2, <3>1
  <2> QED
    BY <1>1, <2>1, <2>2, <2>3, <2>5, <2>6 DEF QueueInv
<1>6. CASE Timeout(s) \/ Receive(s) \/ (CheckEnd(s) /\ at'[s] # "ended")
  <2>1. /\ UNCHANGED << log, targets, q, last, batch >>
        /\ at'[s] \in Closed \cup { "open" } \/ at[s] \notin Closed \cup { "open" }
    BY <1>6 DEF Timeout, Receive, CheckEnd, TypeInv, TypeOK, Closed, writerVars, busVars, streamVars
  <2> QED
    BY <1>0, <1>1, <2>1 DEF QueueInv, Reach
<1> QED
  BY <1>2, <1>3, <1>4, <1>5, <1>6 DEF Merge

(* The next id taken from the bus continues what was sent. *)
LEMMA FreshIsNext ==
  ASSUME TypeInv, SubscriptionInv, NEW s \in Streams, OrderInv(s), Reliable,
         bus = "memory" => QueueInv(s), TakeLive(s), Fresh(s)
  PROVE  Head(q[s]) = last[s] + 1
<1>1. q[s] # << >> /\ at[s] = "live" /\ batch[s] = << >>
  BY DEF TakeLive, OrderInv
<1>2. bus = "memory" /\ QueueInv(s)
  BY <1>1 DEF Reliable, SubscriptionInv
<1>3. /\ Head(q[s]) = q[s][1] /\ Len(q[s]) \in Nat \ { 0 } /\ DOMAIN q[s] = 1 .. Len(q[s])
      /\ Len(batch[s]) = 0 /\ last[s] \in Nat /\ Passed(s) \in Int
  BY <1>1, ConstantsAssumption, EmptySeq, LenProperties DEF TypeInv, TypeOK, Passed
<1>4. Head(q[s]) = Passed(s) - Len(q[s]) + 1 /\ Passed(s) - Len(q[s]) <= last[s]
  BY <1>1, <1>2, <1>3 DEF QueueInv, Reach, Closed
<1> QED
  BY <1>3, <1>4 DEF Fresh

(* Sending the id after last_sent makes the prefix one longer.             *)
LEMMA SendingKeepsPrefix ==
  ASSUME TypeOK, NEW s \in Streams, PrefixInv(s), at[s] # "off",
         Sends(s, last[s] + 1), last[s] + 1 \in Ids
  PROVE  PrefixInv(s)'
<1>1. seen[s] \in Seq(Ids) /\ wire[s] \in Seq(Ids) /\ Got(s) \in Seq(Ids) /\ last[s] \in Nat
  BY ConcatProperties, ConstantsAssumption DEF TypeOK, Got
<1>2. Got(s)' = seen[s] \o Append(wire[s], last[s] + 1) /\ Got(s) = seen[s] \o wire[s]
  BY DEF Sends, Got
<1>3. /\ Got(s)' \in Seq(Ids) /\ Len(Got(s)') = Len(Got(s)) + 1
      /\ \A i \in 1 .. Len(Got(s)) : Got(s)'[i] = Got(s)[i]
      /\ Got(s)'[Len(Got(s)) + 1] = last[s] + 1
  <2>1. LET a == seen[s]  b == wire[s]  id == last[s] + 1
        IN  /\ a \o Append(b, id) \in Seq(Ids)
            /\ Len(a \o Append(b, id)) = Len(a \o b) + 1
            /\ \A i \in 1 .. Len(a \o b) : (a \o Append(b, id))[i] = (a \o b)[i]
            /\ (a \o Append(b, id))[Len(a \o b) + 1] = id
    BY <1>1, SendingAppends, Zenon
  <2> QED
    BY <1>2, <2>1
<1>4. /\ Len(Got(s)) = last[s] /\ DOMAIN Got(s) = 1 .. last[s]
      /\ DOMAIN Got(s)' = 1 .. last[s] + 1
  BY <1>1, <1>3, LenProperties DEF PrefixInv
<1>5. \A i \in 1 .. last[s] + 1 : i \in 1 .. last[s] \/ i = last[s] + 1
  BY <1>1
<1>6. \A i \in DOMAIN Got(s)' : Got(s)'[i] = i
  BY <1>3, <1>4, <1>5 DEF PrefixInv
<1> QED
  BY <1>3, <1>4, <1>6 DEF PrefixInv, Sends

(* What a connection leaves behind are the first events. *)
LEMMA ReceivedIsPrefix ==
  ASSUME TypeOK, NEW s \in Streams, PrefixInv(s)
  PROVE  /\ seen[s] \in Seq(Ids) /\ Len(seen[s]) \in Nat
         /\ DOMAIN seen[s] = 1 .. Len(seen[s])
         /\ \A i \in DOMAIN seen[s] : seen[s][i] = i
<1>1. seen[s] \in Seq(Ids) /\ wire[s] \in Seq(Ids)
  BY DEF TypeOK
<1>2. DOMAIN seen[s] = 1 .. Len(seen[s])
  BY <1>1, LenProperties
<1>3. /\ Len(seen[s]) \in Nat /\ Len(wire[s]) \in Nat
      /\ DOMAIN Got(s) = 1 .. Len(seen[s]) + Len(wire[s])
      /\ \A i \in 1 .. Len(seen[s]) : Got(s)[i] = seen[s][i]
  BY <1>1, Joined, Zenon DEF Got
<1>4. \A m, n \in Nat : 1 .. m \subseteq 1 .. m + n
  OBVIOUS
<1>5. \A i \in DOMAIN seen[s] : i \in DOMAIN Got(s) /\ Got(s)[i] = seen[s][i]
  BY <1>2, <1>3, <1>4, Zenon
<1> QED
  BY <1>1, <1>2, <1>3, <1>5 DEF PrefixInv

(* A reliable bus makes every step send the next id, repeat nothing and    *)
(* leave nothing out.                                                      *)
LEMMA PrefixStep ==
  ASSUME TypeInv, TypeOK', SubscriptionInv, NEW s \in Streams, OrderInv(s), PrefixInv(s), Reliable,
         bus = "memory" => QueueInv(s), [Next]_vars
  PROVE  PrefixInv(s)'
<1>0. /\ seen[s] \in Seq(Ids) /\ wire[s] \in Seq(Ids) /\ batch[s] \in Seq(Ids)
      /\ q[s] \in Seq(Ids) /\ TypeOK
  BY DEF TypeInv, TypeOK
<1>1. ASSUME Got(s)' = Got(s), last'[s] = last[s], at[s] # "off" \/ at'[s] = "off"
      PROVE  PrefixInv(s)'
  BY <1>1 DEF PrefixInv
<1>2. CASE Same(s)
  BY <1>1, <1>2 DEF Same, Got
<1>3. CASE Open(s)
  <2>1. at[s] = "off" /\ at'[s] = "open" /\ wire'[s] = << >>
    BY <1>3 DEF Open, OrderInv, TypeInv, TypeOK
  <2>2. Got(s)' = seen'[s]
    <3>1. seen'[s] \in Seq(Ids)
      BY DEF TypeOK
    <3> QED
      BY <2>1, <3>1, ConcatEmptySeq DEF Got
  <2>3. CASE resumes[s]
    <3>1. seen'[s] = seen[s] /\ last'[s] = IF seen[s] = << >> THEN 0 ELSE seen[s][Len(seen[s])]
      BY <1>3, <2>3 DEF Open, Last, TypeInv, TypeOK
    <3>2. last'[s] = Len(seen[s])
      <4>1. seen[s] # << >> => Len(seen[s]) \in DOMAIN seen[s]
        BY <1>0, EmptySeq, LenProperties
      <4> QED
        BY <1>0, <3>1, <4>1, ReceivedIsPrefix, EmptySeq
    <3> QED
      BY <1>0, <2>2, <3>1, <3>2, ReceivedIsPrefix DEF PrefixInv
  <2>4. CASE ~resumes[s]
    <3>1. seen'[s] = << >> /\ last'[s] = 0
      BY <1>3, <2>4 DEF Open, TypeInv, TypeOK
    <3> QED
      BY <2>2, <3>1, EmptySeq DEF PrefixInv
  <2> QED
    BY <2>3, <2>4
<1>4. CASE Replay(s) \/ CatchUp(s) \/ Timeout(s) \/ CheckEnd(s)
  <2>1. /\ at[s] # "off" /\ last' = last /\ UNCHANGED << wire, seen >>
    BY <1>4 DEF Replay, CatchUp, Timeout, CheckEnd, clientVars
  <2> QED
    BY <1>1, <2>1 DEF Got
<1>5. CASE SendRow(s)
  <2>1. CASE batch[s] = << >>
    BY <1>1, <1>5, <2>1 DEF SendRow, Got
  <2>2. CASE batch[s] # << >>
    <3>1. /\ Head(batch[s]) = batch[s][1] /\ Head(batch[s]) \in Ids /\ 1 \in DOMAIN batch[s]
      BY <1>0, <2>2, HeadTailProperties, EmptySeq, LenProperties
    <3>2. Head(batch[s]) = last[s] + 1
      BY <3>1 DEF OrderInv
    <3>3. at[s] # "off" /\ Sends(s, Head(batch[s]))
      BY <1>5, <2>2 DEF SendRow, Send, Sends, TypeInv, TypeOK
    <3> QED
      BY <1>0, <3>1, <3>2, <3>3, SendingKeepsPrefix
  <2> QED
    BY <2>1, <2>2
<1>6. CASE TakeLive(s)
  <2>1. CASE Fresh(s)
    <3>1. Head(q[s]) = last[s] + 1
      BY <1>6, <2>1, FreshIsNext
    <3>2. /\ at[s] # "off" /\ Head(q[s]) \in Ids /\ Sends(s, Head(q[s]))
      BY <1>0, <1>6, <2>1, HeadTailProperties DEF TakeLive, Send, Sends, TypeInv, TypeOK
    <3> QED
      BY <1>0, <3>1, <3>2, SendingKeepsPrefix
  <2>2. CASE ~Fresh(s)
    BY <1>1, <1>6, <2>2 DEF TakeLive, Got
  <2> QED
    BY <2>1, <2>2
<1>7. CASE Receive(s)
  <2>1. /\ wire[s] # << >> /\ at[s] # "off" /\ last' = last
        /\ seen'[s] = Append(seen[s], Head(wire[s])) /\ wire'[s] = Tail(wire[s])
    BY <1>7 DEF Receive, OrderInv, TypeInv, TypeOK, streamVars
  <2> QED
    BY <1>0, <1>1, <2>1, ReceivingKeeps DEF Got
<1>8. CASE Disconnect(s)
  <2>1. /\ at'[s] = "off" /\ wire'[s] = << >> /\ seen'[s] = seen[s]
    BY <1>8 DEF Disconnect, TypeInv, TypeOK
  <2>2. Got(s)' = seen[s]
    BY <1>0, <2>1, ConcatEmptySeq DEF Got
  <2> QED
    BY <1>0, <2>1, <2>2, ReceivedIsPrefix DEF PrefixInv
<1> QED
  BY <1>0, <1>2, <1>3, <1>4, <1>5, <1>6, <1>7, <1>8, OneStreamMoves DEF Merge

-----------------------------------------------------------------------------
MergeInv == TypeInv /\ StreamInv

(* At the start no stream is open and nothing is queued.                   *)
LEMMA MergeInit == Init => MergeInv
<1> SUFFICES ASSUME Init PROVE StreamInv
  BY TypeInit DEF MergeInv
<1>1. NewestInv /\ SubscriptionInv
  BY DEF Init, NewestInv, SubscriptionInv, Closed
<1>2. ASSUME NEW s \in Streams PROVE QueueInv(s) /\ PrefixInv(s)
  <2>1. /\ q[s] = << >> /\ seen[s] = << >> /\ wire[s] = << >> /\ at[s] = "off"
    BY DEF Init
  <2>2. Got(s) = << >>
    BY <2>1, EmptySeq, ConcatEmptySeq DEF Got
  <2> QED
    BY <2>1, <2>2, EmptySeq DEF QueueInv, PrefixInv, Closed
<1> QED
  BY <1>1, <1>2, OrderInit DEF StreamInv

(* The bus is chosen once, and two writers that met have met for good. *)
LEMMA SetupKept == [Next]_vars => bus' = bus /\ (overlapped => overlapped')
<1> SUFFICES ASSUME [Next]_vars PROVE bus' = bus /\ (overlapped => overlapped')
  OBVIOUS
<1> USE DEF setup, writerVars
<1>1. ASSUME NEW w \in Writers, Write(w) \/ Publish(w) \/ Finish(w)
      PROVE  bus' = bus /\ (overlapped => overlapped')
  <2>1. CASE Write(w)
    <3>1. bus' = bus /\ overlapped' = (overlapped \/ \E v \in Writers : holding[v] # 0)
      BY <2>1 DEF Write
    <3> QED
      BY <3>1, Zenon
  <2>2. CASE Publish(w) \/ Finish(w)
    BY <2>2 DEF Publish, CopySubscribers, Put, Published, Finish
  <2> QED
    BY <1>1, <2>1, <2>2
<1>2. ASSUME NEW s \in Streams, Open(s) \/ Merge(s) \/ Receive(s) \/ Disconnect(s)
      PROVE  bus' = bus /\ overlapped' = overlapped
  BY <1>2 DEF Open, Merge, Replay, SendRow, TakeLive, Timeout, CatchUp, CheckEnd, Receive,
              Disconnect
<1> QED
  BY <1>1, <1>2 DEF Next, vars

(* Every step keeps queue and log together, while writers do not overlap.  *)
LEMMA QueueStep ==
  ASSUME MergeInv, NEW s \in Streams, OrderInv(s)', NewestInv', [Next]_vars,
         bus = "memory", ~overlapped'
  PROVE  QueueInv(s)'
<1>0. ~overlapped
  BY SetupKept
<1>1. /\ TypeInv /\ TypeOK /\ NewestInv /\ SubscriptionInv /\ OrderInv(s) /\ QueueInv(s)
  BY <1>0 DEF MergeInv, StreamInv, TypeInv
<1>2. ASSUME NEW w \in Writers, Write(w) \/ Publish(w) \/ Finish(w) PROVE QueueInv(s)'
  BY <1>1, <1>2, PutContinues
<1>3. CASE Open(s) \/ Merge(s) \/ Receive(s) \/ Disconnect(s)
  BY <1>1, <1>3, StreamKeepsQueue
<1>4. ASSUME NEW t \in Streams, t # s, Open(t) \/ Merge(t) \/ Receive(t) \/ Disconnect(t)
      PROVE  QueueInv(s)'
  <2>1. q'[s] = q[s] /\ log' = log
    BY <1>1, <1>4 DEF Open, Merge, Replay, SendRow, TakeLive, Timeout, CatchUp, CheckEnd, Receive,
            Disconnect, TypeOK, writerVars, busVars
  <2>2. targets' = targets \/ targets' = [w \in Writers |-> targets[w] \ { t }]
    BY <1>4 DEF Open, Merge, Replay, SendRow, TakeLive, Timeout, CatchUp, CheckEnd, Receive,
            Disconnect, writerVars
  <2>3. Same(s)
    BY <1>1, <1>4, OthersStay
  <2> QED
    BY <1>1, <1>4, <2>1, <2>2, <2>3, OthersKeepQueue
<1>5. CASE UNCHANGED vars
  BY <1>1, <1>5 DEF vars, writerVars, busVars, streamVars, QueueInv, Passed, Pending, Reach
<1> QED
  BY <1>2, <1>3, <1>4, <1>5 DEF Next

(* Every step keeps the whole invariant of replay, push and catch-up.      *)
LEMMA MergeStep == MergeInv /\ [Next]_vars => MergeInv'
<1> SUFFICES ASSUME MergeInv, [Next]_vars PROVE MergeInv'
  OBVIOUS
<1>1. TypeInv /\ TypeInv' /\ TypeOK /\ TypeOK'
  BY TypeStep DEF MergeInv, TypeInv
<1>2. NewestInv' /\ SubscriptionInv' /\ NewestInv /\ SubscriptionInv
  BY <1>1, NewestStep, SubscriptionStep DEF MergeInv, StreamInv
<1>3. bus' = bus /\ (overlapped => overlapped')
  BY SetupKept
<1>4. ASSUME NEW s \in Streams
      PROVE  /\ OrderInv(s)'
             /\ bus' = "memory" /\ ~overlapped' => QueueInv(s)'
             /\ Reliable' => PrefixInv(s)'
  <2>1. OrderInv(s) /\ OrderInv(s)'
    BY <1>1, OrderStep DEF MergeInv, StreamInv
  <2>2. bus' = "memory" /\ ~overlapped' => QueueInv(s)'
    BY <1>2, <1>3, <2>1, QueueStep
  <2>3. ASSUME Reliable' PROVE PrefixInv(s)'
    <3>1. Reliable /\ PrefixInv(s) /\ (bus = "memory" => QueueInv(s))
      BY <1>3, <2>3 DEF Reliable, MergeInv, StreamInv
    <3> QED
      BY <1>1, <1>2, <2>1, <3>1, PrefixStep
  <2> QED
    BY <2>1, <2>2, <2>3
<1> QED
  BY <1>1, <1>2, <1>4 DEF MergeInv, StreamInv

(* While the bus of one process is used by one thread at a time, or pushes *)
(* nothing at all, replay, push, catch-up and reconnects leave neither a   *)
(* gap nor a repeat: a client has exactly the first events of the log.     *)
THEOREM ClientsSeeThePrefix == Spec => []ClientSeesPrefix
<1>1. ASSUME MergeInv PROVE ClientSeesPrefix
  <2> SUFFICES ASSUME NEW s \in Streams, Reliable
               PROVE  Got(s) = [i \in 1 .. Len(Got(s)) |-> i]
    BY DEF ClientSeesPrefix, Got
  <2>1. Got(s) \in Seq(Ids) /\ \A i \in DOMAIN Got(s) : Got(s)[i] = i
    BY <1>1, ConcatProperties DEF MergeInv, TypeInv, TypeOK, StreamInv, PrefixInv, Got
  <2>2. Got(s) \in [1 .. Len(Got(s)) -> Ids]
    BY <2>1, LenProperties
  <2> QED
    BY <2>1, <2>2
<1> QED
  BY <1>1, MergeInit, MergeStep, PTL DEF Spec

=============================================================================
