----------------------------- MODULE EventStream -----------------------------
(***************************************************************************)
(* The live log of one run: Repository.add_event writes a row and then     *)
(* publishes it on the event bus; every open stream merges the rows it     *)
(* finds in table events with what the bus pushes, deduplicated by the     *)
(* event id (_event_stream for SSE, stream_run_ws for WebSocket).          *)
(*                                                                         *)
(* Ids are the positions in the log of this run.  The INSERT assigns the   *)
(* id and makes the row visible in one step, as SQLite does.  A stream is  *)
(* a thread: each action is what it does between two points where another  *)
(* thread can come in.  Time is left out except for the slices a stream    *)
(* counts while the bus is quiet; heartbeats and the snapshot's content    *)
(* are left out.                                                           *)
(***************************************************************************)
EXTENDS Integers, Sequences, SequencesExt

CONSTANTS
  Writers,      \* threads that call add_event for the run
  Streams,      \* clients that may open a stream
  Buses,        \* what get_bus may return: "memory", one process; "remote",
                \* the in-process bus of another process; "redis", pub/sub,
                \* which may lose a message
  Grace,        \* _STREAM_END_GRACE in slices of _STREAM_WAIT_SLICE
  MaxEvents,    \* bound: rows in the log
  MaxDrops      \* bound: how often a client loses its connection

ASSUME ConstantsAssumption ==
  /\ Buses \subseteq { "memory", "remote", "redis" } /\ "all" \notin Streams
  /\ Grace \in Nat /\ MaxEvents \in Nat /\ MaxDrops \in Nat

VARIABLES
  bus,        \* the bus of this installation
  resumes,    \* by stream: TRUE for SSE (Last-Event-ID), FALSE for WebSocket
  overlapped, \* history: two threads were in add_event at once
  log,        \* the number of rows in table events
  terminal,   \* the status of the run is terminal
  holding,    \* by writer: the id written and not yet published, or 0
  targets,    \* by writer: subscriptions still to be put to; "all" before
              \* publish() copied the list of subscribers
  subs,       \* the subscriptions the bus knows
  q,          \* by stream: the queue of its subscription
  at,         \* by stream: where its generator is
  batch,      \* by stream: rows fetched from the log, not yet sent
  last,       \* by stream: last_sent
  idle,       \* by stream: quiet slices, capped at Grace
  wire,       \* by stream: frames sent and not yet received
  seen,       \* by stream: the ids the client received
  drops       \* history: connections lost

setup      == << bus, resumes >>
writerVars == << overlapped, log, terminal, holding, targets >>
busVars    == << subs, q >>
streamVars == << at, batch, last, idle >>
clientVars == << wire, seen, drops >>
vars == << setup, writerVars, busVars, streamVars, clientVars >>

Ids == 1 .. MaxEvents
Places == { "off", "open", "sending", "live", "silent", "quiet", "ended" }
Closed == { "off", "ended" }

Init ==
  /\ bus \in Buses /\ resumes \in [Streams -> BOOLEAN] /\ overlapped = FALSE
  /\ log = 0 /\ terminal = FALSE
  /\ holding = [w \in Writers |-> 0] /\ targets = [w \in Writers |-> {}]
  /\ subs = {} /\ q = [s \in Streams |-> << >>]
  /\ at = [s \in Streams |-> "off"] /\ batch = [s \in Streams |-> << >>]
  /\ last = [s \in Streams |-> 0] /\ idle = [s \in Streams |-> 0]
  /\ wire = [s \in Streams |-> << >>] /\ seen = [s \in Streams |-> << >>]
  /\ drops = 0

-----------------------------------------------------------------------------
(* add_event, in the thread of a writer *)

Write(w) ==
  /\ holding[w] = 0 /\ log < MaxEvents
  /\ log' = log + 1
  /\ holding' = [holding EXCEPT ![w] = log + 1]
  /\ targets' = [targets EXCEPT ![w] = { "all" }]
  /\ overlapped' = (overlapped \/ \E v \in Writers : holding[v] # 0)
  /\ UNCHANGED << setup, terminal, busVars, streamVars, clientVars >>

(* publish(): the list of subscribers is copied under the lock.  Streams   *)
(* of another process are never in it; Redis reaches some or none.         *)
CopySubscribers(w) ==
  /\ targets[w] = { "all" }
  /\ \/ bus = "memory" /\ targets' = [targets EXCEPT ![w] = subs]
     \/ bus = "remote" /\ targets' = [targets EXCEPT ![w] = {}]
     \/ bus = "redis" /\ \E reached \in SUBSET subs :
                             targets' = [targets EXCEPT ![w] = reached]
  /\ UNCHANGED << setup, overlapped, log, terminal, holding, busVars, streamVars, clientVars >>

(* put_nowait into one of the copied subscriptions, outside the lock. *)
Put(w, s) ==
  /\ s \in targets[w]
  /\ q' = [q EXCEPT ![s] = Append(@, holding[w])]
  /\ targets' = [targets EXCEPT ![w] = @ \ { s }]
  /\ UNCHANGED << setup, overlapped, log, terminal, holding, subs, streamVars, clientVars >>

Published(w) ==
  /\ holding[w] # 0 /\ targets[w] = {}
  /\ holding' = [holding EXCEPT ![w] = 0]
  /\ UNCHANGED << setup, overlapped, log, terminal, targets, busVars, streamVars, clientVars >>

(* A driver persists a terminal status, between two of its events: the one *)
(* that tells of it is written afterwards.                                 *)
Finish(w) ==
  /\ ~terminal /\ holding[w] = 0
  /\ terminal' = TRUE
  /\ UNCHANGED << setup, overlapped, log, holding, targets, busVars, streamVars, clientVars >>

-----------------------------------------------------------------------------
(* The stream *)

(* Deliberately wrong: the row a client already has is fetched again. *)
SinceInclusive(s) == [i \in 1 .. log - last[s] + 1 |-> last[s] + i - 1]

(* get_events_since(last_sent): id > last_sent, in the order of the ids. *)
Since(s) == [i \in 1 .. log - last[s] |-> last[s] + i]

(* Deliberately wrong: what the bus pushes is not compared with last_sent. *)
AlwaysFresh(s) == TRUE

Fresh(s) == Head(q[s]) > last[s]

Send(s, id) ==
  /\ wire' = [wire EXCEPT ![s] = Append(@, id)]
  /\ last' = [last EXCEPT ![s] = id]

(* Subscribe before reading the log.  An SSE client resumes from the last  *)
(* id it received; a WebSocket client starts again from the first event.   *)
Open(s) ==
  /\ at[s] = "off"
  /\ at' = [at EXCEPT ![s] = "open"]
  /\ subs' = subs \cup { s }
  /\ IF resumes[s]
     THEN /\ last' = [last EXCEPT ![s] = IF seen[s] = << >> THEN 0 ELSE Last(seen[s])]
          /\ seen' = seen
     ELSE /\ last' = [last EXCEPT ![s] = 0]
          /\ seen' = [seen EXCEPT ![s] = << >>]
  /\ idle' = [idle EXCEPT ![s] = 0]
  /\ UNCHANGED << setup, writerVars, q, batch, wire, drops >>

Replay(s) ==
  /\ at[s] = "open"
  /\ batch' = [batch EXCEPT ![s] = Since(s)]
  /\ at' = [at EXCEPT ![s] = "sending"]
  /\ UNCHANGED << setup, writerVars, busVars, last, idle, clientVars >>

(* The rows of a replay or of a catch-up, one frame each. *)
SendRow(s) ==
  /\ at[s] = "sending"
  /\ IF batch[s] = << >>
     THEN /\ at' = [at EXCEPT ![s] = "live"]
          /\ UNCHANGED << batch, last, wire >>
     ELSE /\ Send(s, Head(batch[s]))
          /\ batch' = [batch EXCEPT ![s] = Tail(@)]
          /\ at' = at
  /\ idle' = [idle EXCEPT ![s] = 0]
  /\ UNCHANGED << setup, writerVars, busVars, seen, drops >>

(* sub.get returned an event: it is sent, or dropped as a duplicate. *)
TakeLive(s) ==
  /\ at[s] = "live" /\ q[s] # << >>
  /\ q' = [q EXCEPT ![s] = Tail(@)]
  /\ IF Fresh(s)
     THEN Send(s, Head(q[s])) /\ idle' = [idle EXCEPT ![s] = 0]
     ELSE UNCHANGED << wire, last, idle >>
  /\ UNCHANGED << setup, writerVars, subs, at, batch, seen, drops >>

(* Deliberately wrong: quiet slices are not counted. *)
TimeoutUncounted(s) ==
  /\ at[s] = "live" /\ (q[s] = << >> \/ bus = "redis")
  /\ at' = [at EXCEPT ![s] = "silent"]
  /\ UNCHANGED << setup, writerVars, busVars, batch, last, idle, clientVars >>

(* sub.get timed out: over Redis, messages may still be under way. *)
Timeout(s) ==
  /\ at[s] = "live" /\ (q[s] = << >> \/ bus = "redis")
  /\ idle' = [idle EXCEPT ![s] = IF @ < Grace THEN @ + 1 ELSE @]
  /\ at' = [at EXCEPT ![s] = "silent"]
  /\ UNCHANGED << setup, writerVars, busVars, batch, last, clientVars >>

(* Deliberately wrong: only the bus is trusted while the stream is live. *)
NoCatchUp(s) ==
  /\ at[s] = "silent"
  /\ at' = [at EXCEPT ![s] = "quiet"]
  /\ UNCHANGED << setup, writerVars, busVars, batch, last, idle, clientVars >>

(* The bus is quiet: the rows of the log after last_sent, if any. *)
CatchUp(s) ==
  /\ at[s] = "silent"
  /\ batch' = [batch EXCEPT ![s] = Since(s)]
  /\ at' = [at EXCEPT ![s] = IF Since(s) = << >> THEN "quiet" ELSE "sending"]
  /\ UNCHANGED << setup, writerVars, busVars, last, idle, clientVars >>

(* The status is read after the log: end, or wait for another slice. *)
CheckEnd(s) ==
  /\ at[s] = "quiet"
  /\ IF terminal /\ idle[s] >= Grace
     THEN /\ at' = [at EXCEPT ![s] = "ended"]
          /\ subs' = subs \ { s } /\ q' = [q EXCEPT ![s] = << >>]
          /\ targets' = [w \in Writers |-> targets[w] \ { s }]
     ELSE at' = [at EXCEPT ![s] = "live"] /\ UNCHANGED << targets, busVars >>
  /\ UNCHANGED << setup, overlapped, log, terminal, holding, batch, last, idle, clientVars >>

-----------------------------------------------------------------------------
(* The client *)

Receive(s) ==
  /\ wire[s] # << >>
  /\ seen' = [seen EXCEPT ![s] = Append(@, Head(wire[s]))]
  /\ wire' = [wire EXCEPT ![s] = Tail(@)]
  /\ UNCHANGED << setup, writerVars, busVars, streamVars, drops >>

(* The connection breaks, with the frames under way; sub.close() drops the *)
(* subscription, and what is still put into its queue is read by nobody.   *)
Disconnect(s) ==
  /\ at[s] \notin Closed /\ drops < MaxDrops
  /\ drops' = drops + 1
  /\ at' = [at EXCEPT ![s] = "off"]
  /\ subs' = subs \ { s } /\ q' = [q EXCEPT ![s] = << >>]
  /\ targets' = [w \in Writers |-> targets[w] \ { s }]
  /\ batch' = [batch EXCEPT ![s] = << >>]
  /\ wire' = [wire EXCEPT ![s] = << >>]
  /\ UNCHANGED << setup, overlapped, log, terminal, holding, last, idle, seen >>

-----------------------------------------------------------------------------
Publish(w) == CopySubscribers(w) \/ Published(w) \/ \E s \in Streams : Put(w, s)

Merge(s) ==
  Replay(s) \/ SendRow(s) \/ TakeLive(s) \/ Timeout(s) \/ CatchUp(s) \/ CheckEnd(s)

Next ==
  \/ \E w \in Writers : Write(w) \/ Publish(w) \/ Finish(w)
  \/ \E s \in Streams : Open(s) \/ Merge(s) \/ Receive(s) \/ Disconnect(s)

Spec == Init /\ [][Next]_vars

(* Threads that run keep running, and a connection delivers what it holds. *)
(* Nobody has to write, to finish the run, or to open a stream.            *)
FairSpec ==
  /\ Spec
  /\ \A w \in Writers : WF_vars(Publish(w))
  /\ \A s \in Streams : WF_vars(Merge(s)) /\ WF_vars(Receive(s))

-----------------------------------------------------------------------------
(* Properties *)

(* Every variable has its type. *)
TypeOK ==
  /\ bus \in Buses /\ resumes \in [Streams -> BOOLEAN] /\ overlapped \in BOOLEAN
  /\ log \in 0 .. MaxEvents /\ terminal \in BOOLEAN
  /\ holding \in [Writers -> 0 .. MaxEvents]
  /\ targets \in [Writers -> SUBSET (Streams \cup { "all" })]
  /\ subs \subseteq Streams
  /\ q \in [Streams -> Seq(Ids)] /\ batch \in [Streams -> Seq(Ids)]
  /\ at \in [Streams -> Places]
  /\ last \in [Streams -> 0 .. MaxEvents] /\ idle \in [Streams -> 0 .. Grace]
  /\ wire \in [Streams -> Seq(Ids)] /\ seen \in [Streams -> Seq(Ids)]
  /\ drops \in 0 .. MaxDrops

(* Nothing is lost or reordered on the way to the streams: no message is   *)
(* pushed at all, or each is, in the order of the ids.                     *)
Reliable == bus = "remote" \/ (bus = "memory" /\ ~overlapped)

(* A client has received the first events of the log, each once and in the *)
(* order they were written, and the frames under way continue them: the    *)
(* subscription made before the replay leaves no gap, the comparison with  *)
(* last_sent leaves no duplicate, and a reconnect loses nothing.           *)
ClientSeesPrefix ==
  \A s \in Streams :
    LET got == seen[s] \o wire[s]
    IN Reliable => got = [i \in 1 .. Len(got) |-> i]

(* Whatever pub/sub loses, and in whatever order two threads publish, a    *)
(* client never receives an event twice or before an earlier one, over all *)
(* the connections of its stream.                                          *)
ReceivedInOrder ==
  \A s \in Streams :
    LET got == seen[s] \o wire[s]
    IN \A i, j \in DOMAIN got : i < j => got[i] < got[j]

(* Every row of the log reaches a client that stays connected, also when   *)
(* nothing is ever pushed to it.                                           *)
EveryEventArrives ==
  \A s \in Streams : \A n \in Ids :
    (log >= n /\ at[s] \notin Closed) ~>
      (at[s] \in Closed \/ ~Reliable \/ \E i \in DOMAIN seen[s] : seen[s][i] = n)

(* A stream does not outlive its run: once the status is terminal it is    *)
(* closed by the server, whatever trails.                                  *)
StreamsEnd ==
  \A s \in Streams : (terminal /\ at[s] # "off") ~> at[s] \in Closed

=============================================================================
