---------------------------- MODULE PipelineProofs ----------------------------
(* Proofs about the write path, for any accounts, pipeline size, writes and    *)
(* faults: every assertion of the client holds, its answers are matched with   *)
(* the writes they are for, and it implements the ordered queue of WriteQueue. *)
EXTENDS WritePipeline, SequenceTheorems, TLAPS

Rec == [s : Store, c : Call]

Owns(u, n) == n \in DOMAIN owner /\ owner[n] = u

Room(q) == IF Len(q) < MaxPendingWrites THEN Len(q) ELSE MaxPendingWrites

(* The messages of a call that the server has not taken. *)
Outgoing(c) == c.wire \o c.buffer

Expected(r) == IF r.s.shaken THEN r.s.pipe ELSE <<Hello>>

(* The stream of record r and its call.                                        *)
StreamOk(r) ==
    /\ r.c.live <=> r.s.state = "Open"
    /\ ~r.c.live => r.c = NoCall
    /\ r.s.shaken => r.c.live
    /\ r.s.idle => r.s.shaken /\ r.s.pipe = <<>>
    /\ r.c.finished => "read" \notin r.c.ops /\ r.c.end # "open"
    /\ "finish" \in r.c.ops => r.c.finished

(* A token is awaited by a stream that is starting, and only once. *)
AskedOk(r) ==
    /\ \A a \in r.s.asked :
        /\ a.closes <= r.s.closes
        /\ a.closes = r.s.closes => r.s.state = "Starting"
    /\ \A a, b \in r.s.asked : a.closes = r.s.closes /\ b.closes = r.s.closes => a = b

(* What is sent belongs to u, and so does the call. *)
CallOk(r, u) ==
    /\ r.c.live => r.c.user = u
    /\ \A n \in Range(Outgoing(r.c)) : n = Hello \/ Owns(u, n)

Current(t, r) == t.kind # "user" /\ t.closes = r.s.closes

(* The tasks that are of the stream and the call of r. *)
TasksOk(ts, r, u) ==
    /\ \A i \in DOMAIN ts : ts[i].kind # "user" => ts[i].closes <= r.s.closes
    /\ \A i \in DOMAIN ts : Current(ts[i], r) =>
        /\ ts[i].kind # "token" => r.c.live
        /\ ts[i].kind = "token" =>
            /\ r.s.state = "Starting"
            /\ \A a \in r.s.asked : a.closes # r.s.closes
            /\ \A j \in DOMAIN ts : ts[j].kind = "token" /\ Current(ts[j], r) => i = j
            /\ (\A j \in 1 .. i - 1 : ts[j].kind # "user") => ts[i].user \in {u, NoToken}
        /\ ts[i].kind = "broken" => r.c.end # "open"
        /\ ts[i].kind = "finished" => r.c.finished /\ ts[i].end = r.c.end
        /\ ts[i].kind = "read" /\ ~r.c.finished =>
            /\ "read" \notin r.c.ops
            /\ \A j \in DOMAIN ts : ts[j].kind = "read" /\ Current(ts[j], r) => i = j

(* The last change of the user on the worker queue is the latest one. *)
UsersOk(ts, u) ==
    \/ u = auth /\ \A i \in DOMAIN ts : ts[i].kind # "user"
    \/ \E i \in DOMAIN ts :
        /\ ts[i].kind = "user" /\ ts[i].user = auth
        /\ \A j \in i + 1 .. Len(ts) : ts[j].kind # "user"

ReadsIn(ts, r) == {i \in DOMAIN ts : ts[i].kind = "read" /\ Current(ts[i], r) /\ ~r.c.finished}

(* Unhandled, of the tasks ts and the call of r. *)
Answers(ts, r) ==
    (IF ReadsIn(ts, r) = {} THEN <<>> ELSE <<ts[CHOOSE i \in ReadsIn(ts, r) : TRUE].msg>>)
        \o r.c.back

(* What the answers say: they are those to the first messages expected, which  *)
(* the server has applied, and the rest is on its way.                         *)
AnswersOk(r, un) ==
    /\ \A i \in DOMAIN un : un[i] = Hello \/ un[i] \in applied
    /\ r.c.live /\ ~r.c.finished =>
        /\ IsPrefix(un, Expected(r))
        /\ r.c.end = "open" => un \o Outgoing(r.c) = Expected(r)

(* A call that ended for good met a batch the server refuses, after others     *)
(* that were applied.                                                          *)
EndOk(r) ==
    r.c.end = "permanent" =>
        /\ r.s.shaken
        /\ \E i \in DOMAIN r.s.pipe :
            r.s.pipe[i] \in Bad /\ \A j \in 1 .. i - 1 : r.s.pipe[j] \in applied

QueuesOk ==
    \A u \in User :
        /\ \A i \in DOMAIN queue[u] : Owns(u, queue[u][i])
        /\ \A i, j \in DOMAIN queue[u] : i < j => queue[u][i] < queue[u][j]

PipeInv ==
    /\ PipelineTypeOK
    /\ QueuesOk
    /\ applied \intersect Bad = {}
    /\ PipelineIsFull
    /\ StreamOk(Now) /\ AskedOk(Now) /\ CallOk(Now, user)
    /\ TasksOk(tasks, Now, user) /\ UsersOk(tasks, user)
    /\ AnswersOk(Now, Answers(tasks, Now))
    /\ EndOk(Now)

------------------------------------------------------------------------------
(* Sequences of batches. *)

LEMMA Assoc ==
    ASSUME NEW s \in Seq(Nat), NEW t \in Seq(Nat), NEW v \in Seq(Nat)
    PROVE  (s \o t) \o v = s \o (t \o v)
<1> DEFINE a == (s \o t) \o v
           b == s \o (t \o v)
<1>1. /\ s \o t \in Seq(Nat) /\ Len(s \o t) = Len(s) + Len(t)
      /\ t \o v \in Seq(Nat) /\ Len(t \o v) = Len(t) + Len(v)
  OBVIOUS
<1>2. /\ a \in Seq(Nat) /\ Len(a) = Len(s) + Len(t) + Len(v)
      /\ b \in Seq(Nat) /\ Len(b) = Len(s) + Len(t) + Len(v)
  BY <1>1
<1>3. \A i \in 1 .. Len(a) : a[i] = b[i]
  BY <1>1, <1>2
<1>4. a = b
  <2> HIDE DEF a, b
  <2> QED BY <1>2, <1>3, SeqEqual
<1> QED BY <1>4

------------------------------------------------------------------------------
(* The parts of the handlers.  Grows is what those leave alone that neither    *)
(* close the stream nor open it.                                               *)
Grows(a, r) ==
    /\ a \in Rec
    /\ a.s.closes = r.s.closes /\ a.s.shaken = r.s.shaken
    /\ a.c.live = r.c.live /\ a.c.user = r.c.user /\ a.c.finished = r.c.finished
    /\ a.c.end = r.c.end /\ a.c.back = r.c.back
    /\ "read" \in a.c.ops <=> "read" \in r.c.ops
    /\ "finish" \in a.c.ops <=> "finish" \in r.c.ops

LEMMA TryStartWriteFacts ==
    ASSUME NEW c \in Call
    PROVE  /\ TryStartWrite(c) \in Call
           /\ TryStartWrite(c).live = c.live /\ TryStartWrite(c).user = c.user
           /\ TryStartWrite(c).finished = c.finished
           /\ TryStartWrite(c).end = c.end /\ TryStartWrite(c).back = c.back
           /\ "read" \in TryStartWrite(c).ops <=> "read" \in c.ops
           /\ "finish" \in TryStartWrite(c).ops <=> "finish" \in c.ops
           /\ Outgoing(TryStartWrite(c)) = Outgoing(c)
<1>1. CASE c.buffer = <<>> \/ c.busy
  BY <1>1 DEF TryStartWrite
<1>2. CASE ~(c.buffer = <<>> \/ c.busy)
  <2> DEFINE d == [c EXCEPT !.busy = TRUE, !.ops = @ \union {"write"},
                            !.wire = Append(@, Head(c.buffer)), !.buffer = Tail(@)]
  <2>1. TryStartWrite(c) = d
    BY <1>2 DEF TryStartWrite
  <2>2. /\ c.wire \in Seq(Nat) /\ c.buffer \in Seq(Nat) /\ c.buffer # <<>>
        /\ c.ops \subseteq {"read", "write", "finish"}
    BY <1>2 DEF Call, Message
  <2>3. Head(c.buffer) \in Nat /\ Tail(c.buffer) \in Seq(Nat)
        /\ Append(c.wire, Head(c.buffer)) \in Seq(Nat)
    BY <2>2, HeadTailProperties, AppendProperties
  <2>4. d \in Call
    BY <2>2, <2>3 DEF Call, Message
  <2>5. /\ d.live = c.live /\ d.user = c.user /\ d.finished = c.finished
        /\ d.end = c.end /\ d.back = c.back
        /\ d.ops = c.ops \union {"write"}
        /\ d.wire = Append(c.wire, Head(c.buffer)) /\ d.buffer = Tail(c.buffer)
    BY DEF Call
  <2> HIDE DEF d
  <2>6. Outgoing(d) = Outgoing(c)
    <3>1. <<Head(c.buffer)>> \in Seq(Nat)
      BY <2>3
    <3>2. Append(c.wire, Head(c.buffer)) = c.wire \o <<Head(c.buffer)>>
      BY <2>2, <2>3, AppendIsConcat
    <3>3. <<Head(c.buffer)>> \o Tail(c.buffer) = c.buffer
      BY <2>2, <2>3
    <3>4. (c.wire \o <<Head(c.buffer)>>) \o Tail(c.buffer)
              = c.wire \o (<<Head(c.buffer)>> \o Tail(c.buffer))
      <4>1. PICK x \in Seq(Nat), y \in Seq(Nat), z \in Seq(Nat) :
                x = c.wire /\ y = <<Head(c.buffer)>> /\ z = Tail(c.buffer)
        BY <2>2, <2>3, <3>1
      <4>2. (x \o y) \o z = x \o (y \o z)
        BY Assoc
      <4> QED BY <4>1, <4>2
    <3> QED BY <2>5, <3>2, <3>3, <3>4 DEF Outgoing
  <2> QED BY <2>1, <2>4, <2>5, <2>6
<1> QED BY <1>1, <1>2

LEMMA WriteAllFacts ==
    ASSUME NEW r \in Rec, NEW msgs \in Seq(Nat)
    PROVE  /\ Grows(WriteAll(r, msgs), r)
           /\ WriteAll(r, msgs).s.pipe = r.s.pipe
           /\ WriteAll(r, msgs).s.state = r.s.state
           /\ WriteAll(r, msgs).s.asked = r.s.asked
           /\ WriteAll(r, msgs).s.idle => r.s.idle /\ msgs = <<>>
           /\ Outgoing(WriteAll(r, msgs).c) = Outgoing(r.c) \o msgs
<1>0. r.s \in Store /\ r.c \in Call /\ r.c.wire \in Seq(Nat) /\ r.c.buffer \in Seq(Nat)
  BY DEF Rec, Call, Message
<1>1. CASE msgs = <<>>
  <2>1. Outgoing(r.c) \in Seq(Nat)
    BY <1>0, ConcatProperties DEF Outgoing
  <2>2. Outgoing(r.c) \o msgs = Outgoing(r.c)
    BY <1>1, <2>1, ConcatEmptySeq
  <2> QED BY <1>1, <2>2 DEF WriteAll, Grows
<1>2. CASE msgs # <<>>
  <2> DEFINE s1 == [r.s EXCEPT !.idle = FALSE]
             c1 == [r.c EXCEPT !.buffer = @ \o msgs]
  <2>1. WriteAll(r, msgs) = [s |-> s1, c |-> TryStartWrite(c1)]
    BY <1>2 DEF WriteAll
  <2>2. /\ s1 \in Store /\ s1.pipe = r.s.pipe /\ s1.state = r.s.state /\ s1.asked = r.s.asked
        /\ ~s1.idle /\ s1.closes = r.s.closes /\ s1.shaken = r.s.shaken
    BY <1>0 DEF Store
  <2>3. r.c.buffer \o msgs \in Seq(Nat)
    BY <1>0, ConcatProperties
  <2>4. /\ c1 \in Call /\ c1.live = r.c.live /\ c1.user = r.c.user
        /\ c1.finished = r.c.finished /\ c1.end = r.c.end /\ c1.back = r.c.back
        /\ c1.ops = r.c.ops /\ c1.wire = r.c.wire /\ c1.buffer = r.c.buffer \o msgs
    BY <1>0, <2>3 DEF Call, Message
  <2> HIDE DEF s1, c1
  <2>5. Outgoing(c1) = Outgoing(r.c) \o msgs
    <3>1. (r.c.wire \o r.c.buffer) \o msgs = r.c.wire \o (r.c.buffer \o msgs)
      BY <1>0, Assoc
    <3> QED BY <2>4, <3>1 DEF Outgoing
  <2>6. [s |-> s1, c |-> TryStartWrite(c1)] \in Rec
    BY <2>2, <2>4, TryStartWriteFacts DEF Rec
  <2> QED BY <2>1, <2>2, <2>4, <2>5, <2>6, TryStartWriteFacts DEF Grows
<1> QED BY <1>1, <1>2

LEMMA StartFacts ==
    ASSUME NEW r \in Rec, changes \in Nat
    PROVE  LET a == StartIfNeeded(r) IN
           /\ Grows(a, r) /\ a.c = r.c
           /\ a.s.pipe = r.s.pipe /\ a.s.idle = r.s.idle
           /\ \/ a = r
              \/ r.s.state = "Error" /\ a.s.state = "Backoff" /\ a.s.asked = r.s.asked
              \/ /\ r.s.state = "Initial" /\ a.s.state = "Starting"
                 /\ a.s.asked = r.s.asked \union {[closes |-> r.s.closes, counter |-> changes]}
<1>0. r.s \in Store /\ r.c \in Call /\ r = [s |-> r.s, c |-> r.c]
  BY DEF Rec
<1>1. CASE IsStarted(r.s) \/ r.s.pipe = <<>>
  BY <1>1 DEF StartIfNeeded, Grows
<1>2. CASE ~(IsStarted(r.s) \/ r.s.pipe = <<>>) /\ r.s.state = "Error"
  <2> DEFINE a == [r EXCEPT !.s.state = "Backoff"]
  <2>1. StartIfNeeded(r) = a
    BY <1>2 DEF StartIfNeeded
  <2>2. /\ a \in Rec /\ a.c = r.c /\ a.s.state = "Backoff"
        /\ a.s.pipe = r.s.pipe /\ a.s.idle = r.s.idle /\ a.s.asked = r.s.asked
        /\ a.s.closes = r.s.closes /\ a.s.shaken = r.s.shaken
    BY <1>0 DEF Rec, Store, StreamStates
  <2> HIDE DEF a
  <2> QED BY <1>2, <2>1, <2>2 DEF Grows
<1>3. CASE ~(IsStarted(r.s) \/ r.s.pipe = <<>>) /\ r.s.state # "Error"
  <2> DEFINE a == [r EXCEPT !.s.state = "Starting",
                            !.s.asked = @ \union {[closes |-> r.s.closes, counter |-> changes]}]
  <2>1. StartIfNeeded(r) = a
    BY <1>3 DEF StartIfNeeded
  <2>2. [closes |-> r.s.closes, counter |-> changes] \in [closes : Nat, counter : Nat]
    BY <1>0 DEF Store
  <2>3. /\ a \in Rec /\ a.c = r.c /\ a.s.state = "Starting"
        /\ a.s.pipe = r.s.pipe /\ a.s.idle = r.s.idle
        /\ a.s.asked = r.s.asked \union {[closes |-> r.s.closes, counter |-> changes]}
        /\ a.s.closes = r.s.closes /\ a.s.shaken = r.s.shaken
    BY <1>0, <2>2 DEF Rec, Store, StreamStates
  <2>4. r.s.state = "Initial"
    BY <1>0, <1>3 DEF IsStarted, Store, StreamStates
  <2> HIDE DEF a
  <2> QED BY <2>1, <2>3, <2>4 DEF Grows
<1> QED BY <1>1, <1>2, <1>3

Sorted(q) == q \in Seq(Nat) /\ \A i, j \in DOMAIN q : i < j => q[i] < q[j]

LEMMA RoomFacts ==
    ASSUME NEW q \in Seq(Nat)
    PROVE  /\ MaxPendingWrites \in Nat \ {0} /\ Len(q) \in Nat
           /\ Room(q) \in 0 .. Len(q) /\ Room(q) <= MaxPendingWrites
           /\ q # <<>> => Room(q) > 0
           /\ Room(q) < MaxPendingWrites => Room(q) = Len(q)
BY PipelineAssumption DEF PipelineAssumption, Room

LEMMA NextFacts ==
    ASSUME NEW q, Sorted(q), NEW k \in 0 .. Room(q)
    PROVE  /\ NextBatches(q, SubSeq(q, 1, k)) = SubSeq(q, k + 1, Room(q))
           /\ SubSeq(q, 1, k) \in Seq(Nat) /\ Len(SubSeq(q, 1, k)) = k
           /\ SubSeq(q, k + 1, Room(q)) \in Seq(Nat)
           /\ SubSeq(q, 1, k) \o SubSeq(q, k + 1, Room(q)) = SubSeq(q, 1, Room(q))
<1> DEFINE pipe == SubSeq(q, 1, k)
           newer == {i \in DOMAIN q : pipe = <<>> \/ q[i] > Last(pipe)}
           first == CHOOSE i \in newer : \A j \in newer : i <= j
           space == MaxPendingWrites - Len(pipe)
<1>1. /\ q \in Seq(Nat) /\ Room(q) \in 0 .. Len(q) /\ Len(q) \in Nat /\ k \in 0 .. Len(q)
      /\ DOMAIN q = 1 .. Len(q) /\ Room(q) <= MaxPendingWrites /\ MaxPendingWrites \in Nat \ {0}
      /\ \A i \in 1 .. Len(q) : q[i] \in Nat
  BY RoomFacts, LenProperties DEF Sorted
<1>2. /\ pipe \in Seq(Nat) /\ Len(pipe) = k /\ \A i \in 1 .. k : pipe[i] = q[i]
      /\ SubSeq(q, k + 1, Room(q)) \in Seq(Nat)
  BY <1>1
<1>3. newer = (k + 1) .. Len(q)
  <2>1. CASE k = 0
    <3>1. pipe = <<>>
      BY <1>2, <2>1
    <3> HIDE DEF pipe
    <3> QED BY <1>1, <2>1, <3>1
  <2>2. CASE k # 0
    <3>1. pipe # <<>> /\ Last(pipe) = q[k]
      BY <1>1, <1>2, <2>2 DEF Last
    <3> HIDE DEF pipe
    <3>2. \A i \in 1 .. Len(q) : q[i] > q[k] <=> i > k
      <4>1. k \in 1 .. Len(q) /\ q[k] \in Nat
        BY <1>1, <2>2
      <4>2. ASSUME NEW i \in 1 .. Len(q) PROVE q[i] > q[k] <=> i > k
        <5>1. q[i] \in Nat
          BY <1>1
        <5>2. /\ i < k => q[i] < q[k]
              /\ k < i => q[k] < q[i]
          BY <1>1, <4>1 DEF Sorted
        <5>3. i = k => q[i] = q[k]
          OBVIOUS
        <5> QED BY <4>1, <5>1, <5>2, <5>3
      <4> QED BY <4>2
    <3> QED BY <1>1, <2>2, <3>1, <3>2
  <2> QED BY <2>1, <2>2
<1>4. NextBatches(q, pipe)
         = IF newer = {} THEN <<>>
           ELSE SubSeq(q, first, IF first + space - 1 < Len(q) THEN first + space - 1 ELSE Len(q))
  BY DEF NextBatches
<1>5. NextBatches(q, pipe) = SubSeq(q, k + 1, Room(q))
  <2>1. CASE k = Len(q)
    <3>1. newer = {} /\ Room(q) < k + 1
      BY <1>1, <1>3, <2>1
    <3>2. SubSeq(q, k + 1, Room(q)) = <<>>
      BY <1>1, <3>1, SubSeqEmpty
    <3> QED BY <1>4, <3>1, <3>2
  <2>2. CASE k # Len(q)
    <3>1. newer # {} /\ first = k + 1
      <4> HIDE DEF newer
      <4>0. k \in Nat /\ Len(q) \in Nat /\ k + 1 <= Len(q)
        <5>1. Len(q) \in Nat /\ k \in 0 .. Len(q)
          BY <1>1
        <5> QED BY <2>2, <5>1
      <4>1. k + 1 \in newer /\ \A j \in newer : k + 1 <= j /\ j \in Nat
        BY <1>3, <4>0
      <4>2. first \in newer /\ \A j \in newer : first <= j
        BY <4>1
      <4> HIDE DEF first
      <4> QED BY <1>1, <4>1, <4>2
    <3>2. space = MaxPendingWrites - k
      BY <1>2
    <3> HIDE DEF first, space, newer
    <3>3. (IF first + space - 1 < Len(q) THEN first + space - 1 ELSE Len(q)) = Room(q)
      BY <1>1, <3>1, <3>2 DEF Room
    <3> QED BY <1>4, <3>1, <3>3
  <2> QED BY <2>1, <2>2
<1>6. pipe \o SubSeq(q, k + 1, Room(q)) = SubSeq(q, 1, Room(q))
  <2>1. 1 \in 1 .. Len(q) + 1 /\ k \in 1 - 1 .. Len(q)
        /\ (k <= Room(q) => Room(q) \in k .. Len(q)) /\ k <= Room(q)
    BY <1>1
  <2> QED BY <1>1, <2>1, ConcatAdjacentSubSeq
<1> QED BY <1>2, <1>5, <1>6

(* What FillWritePipeline does, given a pipeline that is a front of the queue. *)
LEMMA FillFacts ==
    ASSUME NEW r \in Rec, StreamOk(r), AskedOk(r), NEW q, Sorted(q), NEW k \in 0 .. Room(q),
           r.s.pipe = SubSeq(q, 1, k), changes \in Nat,
           r.s.state = "Open" /\ ~r.s.shaken => q # <<>>
    PROVE  LET a == FillWritePipeline(r, q) IN
           /\ Grows(a, r) /\ StreamOk(a) /\ AskedOk(a)
           /\ a.s.pipe = SubSeq(q, 1, Room(q))
           /\ r.s.state = "Starting" => a.s.state = "Starting" /\ a.s.asked = r.s.asked
           /\ Outgoing(a.c) =
                IF r.s.state = "Open" /\ r.s.shaken THEN Outgoing(r.c) \o SubSeq(q, k + 1, Room(q))
                ELSE Outgoing(r.c)
<1> DEFINE more == SubSeq(q, k + 1, Room(q))
           full == [r EXCEPT !.s.pipe = SubSeq(q, 1, Room(q))]
           a == FillWritePipeline(r, q)
<1>0. /\ r.s \in Store /\ r.c \in Call /\ r.s.state \in StreamStates
      /\ r.s.asked \subseteq [closes : Nat, counter : Nat] /\ r.s.closes \in Nat
  BY DEF Rec, Store
<1>1. /\ more \in Seq(Nat) /\ SubSeq(q, 1, Room(q)) \in Seq(Nat)
      /\ NextBatches(q, r.s.pipe) = more /\ r.s.pipe \o more = SubSeq(q, 1, Room(q))
  <2>1. NextBatches(q, r.s.pipe) = more /\ r.s.pipe \o more = SubSeq(q, 1, Room(q))
        /\ more \in Seq(Nat)
    BY NextFacts
  <2>2. SubSeq(q, 1, Room(q)) \in Seq(Nat)
    BY RoomFacts, NextFacts DEF Sorted
  <2> QED BY <2>1, <2>2
<1>2. /\ full \in Rec /\ full.c = r.c /\ full.s.pipe = SubSeq(q, 1, Room(q))
      /\ full.s.state = r.s.state /\ full.s.asked = r.s.asked /\ full.s.idle = r.s.idle
      /\ full.s.closes = r.s.closes /\ full.s.shaken = r.s.shaken
  BY <1>0, <1>1 DEF Rec, Store
<1>3. full = [r EXCEPT !.s.pipe = @ \o more]
  BY <1>1
<1> HIDE DEF more
<1>4. a = StartIfNeeded(
            IF r.s.state = "Open" /\ full.s.pipe = <<>> THEN [full EXCEPT !.s.idle = TRUE]
            ELSE IF r.s.state = "Open" /\ r.s.shaken THEN WriteAll(full, more)
            ELSE full)
  BY <1>1, <1>3, Zenon DEF FillWritePipeline
<1>5. q # <<>> => SubSeq(q, 1, Room(q)) # <<>>
  BY RoomFacts DEF Sorted
<1> HIDE DEF full, a
<1>6. CASE r.s.state = "Open" /\ full.s.pipe = <<>>
  <2> DEFINE b == [full EXCEPT !.s.idle = TRUE]
  <2>1. /\ b \in Rec /\ b.c = r.c /\ b.s.pipe = SubSeq(q, 1, Room(q))
        /\ b.s.state = r.s.state /\ b.s.asked = r.s.asked /\ b.s.idle
        /\ b.s.closes = r.s.closes /\ b.s.shaken = r.s.shaken
    BY <1>2 DEF Rec, Store
  <2> HIDE DEF b
  <2>2. a = StartIfNeeded(b)
    BY <1>4, <1>6 DEF b
  <2>3. a = b
    BY <1>6, <2>1, <2>2 DEF StartIfNeeded, IsStarted
  <2>4. r.s.shaken /\ r.c.live
    BY <1>2, <1>5, <1>6 DEF StreamOk
  <2>5. Outgoing(r.c) \o more = Outgoing(r.c)
    <3>1. more = <<>>
      BY <1>1, <1>2, <1>6, ConcatEqualIffEmpty, NextFacts DEF more
    <3>2. Outgoing(r.c) \in Seq(Nat)
      BY <1>0, ConcatProperties DEF Outgoing, Call, Message
    <3> QED BY <3>1, <3>2, ConcatEmptySeq
  <2>6. Grows(a, r)
    BY <2>1, <2>3 DEF Grows
  <2>7. StreamOk(a)
    BY <1>2, <1>6, <2>1, <2>3, <2>4 DEF StreamOk
  <2>8. AskedOk(a)
    BY <2>1, <2>3 DEF AskedOk
  <2> QED BY <1>6, <2>1, <2>3, <2>4, <2>5, <2>6, <2>7, <2>8 DEF a, more
<1>7. CASE r.s.state = "Open" /\ full.s.pipe # <<>> /\ r.s.shaken
  <2> DEFINE b == WriteAll(full, more)
  <2>1. /\ Grows(b, full) /\ b.s.pipe = full.s.pipe /\ b.s.state = "Open"
        /\ b.s.asked = full.s.asked /\ (b.s.idle => full.s.idle /\ more = <<>>)
        /\ Outgoing(b.c) = Outgoing(r.c) \o more
    <3>1. /\ Grows(b, full) /\ b.s.pipe = full.s.pipe /\ b.s.state = full.s.state
          /\ b.s.asked = full.s.asked /\ (b.s.idle => full.s.idle /\ more = <<>>)
          /\ Outgoing(b.c) = Outgoing(full.c) \o more
      BY <1>1, <1>2, WriteAllFacts
    <3> QED BY <1>2, <1>7, <3>1
  <2>2. a = StartIfNeeded(b)
    BY <1>4, <1>7
  <2> HIDE DEF b
  <2>3. a = b
    BY <2>1, <2>2 DEF StartIfNeeded, IsStarted
  <2>4. Grows(a, r)
    BY <1>2, <2>1, <2>3 DEF Grows
  <2>5. ~a.s.idle
    <3>1. ASSUME a.s.idle PROVE FALSE
      <4>1. r.s.idle /\ more = <<>> /\ r.s.pipe = <<>>
        BY <1>2, <2>1, <2>3, <3>1 DEF StreamOk
      <4>2. r.s.pipe \o more = <<>>
        BY <4>1
      <4> QED BY <1>1, <1>2, <1>7, <4>2
    <3> QED BY <3>1
  <2>6. StreamOk(a)
    BY <1>7, <2>1, <2>3, <2>4, <2>5 DEF StreamOk, Grows
  <2>7. AskedOk(a)
    BY <1>2, <1>7, <2>1, <2>3, <2>4 DEF AskedOk, Grows
  <2> QED BY <1>2, <1>7, <2>1, <2>3, <2>4, <2>6, <2>7 DEF a, more
<1>8. CASE ~(r.s.state = "Open" /\ full.s.pipe = <<>>) /\ ~(r.s.state = "Open" /\ r.s.shaken)
  <2>1. a = StartIfNeeded(full)
    BY <1>4, <1>8, Zenon
  <2>2. /\ Grows(a, full) /\ a.c = r.c /\ a.s.pipe = full.s.pipe /\ a.s.idle = r.s.idle
        /\ \/ a = full
           \/ r.s.state = "Error" /\ a.s.state = "Backoff" /\ a.s.asked = r.s.asked
           \/ /\ r.s.state = "Initial" /\ a.s.state = "Starting"
              /\ a.s.asked = r.s.asked \union {[closes |-> r.s.closes, counter |-> changes]}
    BY <1>2, <2>1, StartFacts
  <2>3. Grows(a, r)
    BY <1>2, <2>2 DEF Grows
  <2>4. ~a.s.idle
    <3>1. ~r.s.shaken
      BY <1>8 DEF StreamOk
    <3> QED BY <2>2, <3>1 DEF StreamOk
  <2>5. StreamOk(a)
    BY <1>2, <2>2, <2>3, <2>4 DEF StreamOk, Grows
  <2>6. AskedOk(a)
    BY <1>0, <1>2, <2>2, <2>3 DEF AskedOk, Grows
  <2> QED BY <1>2, <1>8, <2>2, <2>3, <2>5, <2>6 DEF a, more
<1> QED BY <1>6, <1>7, <1>8

(* A stream that closes, and what can be said once all tasks are of streams    *)
(* that were closed before.                                                    *)
LEMMA NoCallFacts ==
    /\ NoCall \in Call /\ ~NoCall.live /\ ~NoCall.finished /\ NoCall.ops = {}
    /\ NoCall.end = "open" /\ NoCall.back = <<>> /\ Outgoing(NoCall) = <<>>
    /\ NoCall.wire = <<>> /\ NoCall.buffer = <<>>
<1>1. /\ NoCall \in Call /\ ~NoCall.live /\ ~NoCall.finished /\ NoCall.ops = {}
      /\ NoCall.end = "open" /\ NoCall.back = <<>> /\ NoCall.wire = <<>> /\ NoCall.buffer = <<>>
  BY DEF NoCall, Call, Message
<1>2. <<>> \o <<>> = <<>>
  BY EmptySeq, ConcatEmptySeq
<1> QED BY <1>1, <1>2 DEF Outgoing

LEMMA CloseFacts ==
    ASSUME NEW r \in Rec, AskedOk(r), NEW state \in {"Initial", "Error"}
    PROVE  LET a == Close(r, state) IN
           /\ a \in Rec /\ StreamOk(a) /\ AskedOk(a)
           /\ a.s.pipe = r.s.pipe /\ a.s.state = state /\ ~a.s.shaken
           /\ a.s.closes = r.s.closes + 1 /\ a.c = NoCall
<1> DEFINE a == Close(r, state)
<1>1. r.s \in Store /\ r.s.closes \in Nat /\ r.s.asked \subseteq [closes : Nat, counter : Nat]
  BY DEF Rec, Store
<1>2. /\ a \in Rec /\ a.s.pipe = r.s.pipe /\ a.s.state = state /\ ~a.s.shaken /\ ~a.s.idle
      /\ a.s.closes = r.s.closes + 1 /\ a.s.asked = r.s.asked /\ a.c = NoCall
  <2> DEFINE s1 == [r.s EXCEPT !.state = state, !.shaken = FALSE, !.idle = FALSE, !.closes = @ + 1]
  <2>1. /\ s1 \in Store /\ s1.pipe = r.s.pipe /\ s1.state = state /\ ~s1.shaken /\ ~s1.idle
        /\ s1.closes = r.s.closes + 1 /\ s1.asked = r.s.asked
    <3>1. s1 \in Store
      <4>1. \A Asked, States : \A s \in [pipe : Seq(Nat), state : States, shaken : BOOLEAN,
                                        idle : BOOLEAN, closes : Nat, asked : Asked],
                st \in States, n \in Nat :
              [s EXCEPT !.state = st, !.shaken = FALSE, !.idle = FALSE, !.closes = n]
                \in [pipe : Seq(Nat), state : States, shaken : BOOLEAN, idle : BOOLEAN,
                     closes : Nat, asked : Asked]
        OBVIOUS
      <4>2. state \in StreamStates /\ r.s.closes + 1 \in Nat
        BY <1>1 DEF StreamStates
      <4> QED BY <1>1, <4>1, <4>2, Zenon DEF Store
    <3>2. s1.pipe = r.s.pipe /\ s1.state = state /\ s1.asked = r.s.asked
      BY <1>1 DEF Store
    <3>3. ~s1.shaken /\ ~s1.idle
      BY <1>1 DEF Store
    <3>4. s1.closes = r.s.closes + 1
      BY <1>1 DEF Store
    <3> HIDE DEF s1
    <3> QED BY <3>1, <3>2, <3>3, <3>4
  <2> HIDE DEF s1
  <2>2. a = [s |-> s1, c |-> NoCall]
    BY DEF Close, s1
  <2> QED BY <2>1, <2>2, NoCallFacts DEF Rec
<1> HIDE DEF a
<1>3. StreamOk(a)
  BY <1>2, NoCallFacts DEF StreamOk
<1>4. AskedOk(a)
  BY <1>1, <1>2 DEF AskedOk
<1> QED BY <1>2, <1>3, <1>4 DEF a

AllOutdated(ts, r) == \A i \in DOMAIN ts : ts[i].kind # "user" => ts[i].closes < r.s.closes

LEMMA ClosedOk ==
    ASSUME NEW r \in Rec, r.c = NoCall, NEW ts \in Seq(Task), AllOutdated(ts, r), NEW u
    PROVE  /\ CallOk(r, u) /\ TasksOk(ts, r, u) /\ EndOk(r)
           /\ AnswersOk(r, Answers(ts, r))
<1>1. \A i \in DOMAIN ts : ts[i].kind # "user" => ts[i].closes \in Nat
  <2>1. \A i \in DOMAIN ts : ts[i] \in Task
    BY ElementOfSeq, LenProperties
  <2> QED BY <2>1 DEF Task
<1>2. r.s.closes \in Nat
  BY DEF Rec, Store
<1>3. \A i \in DOMAIN ts : ~Current(ts[i], r)
  BY <1>1, <1>2 DEF Current, AllOutdated
<1>4. TasksOk(ts, r, u)
  BY <1>1, <1>2, <1>3 DEF TasksOk, AllOutdated
<1>5. CallOk(r, u)
  BY NoCallFacts DEF CallOk, Range
<1>6. Answers(ts, r) = <<>>
  <2>1. ReadsIn(ts, r) = {}
    BY <1>3 DEF ReadsIn
  <2>2. <<>> \o <<>> = <<>>
    BY EmptySeq, ConcatEmptySeq
  <2> QED BY <2>1, <2>2, NoCallFacts DEF Answers
<1>7. AnswersOk(r, <<>>) /\ EndOk(r)
  BY NoCallFacts DEF AnswersOk, EndOk
<1> QED BY <1>4, <1>5, <1>6, <1>7

(* The next state, when the handler has worked out the record a. *)
LEMMA Reached ==
    ASSUME NEW a \in Rec, Becomes(a), NEW u \in User, u = user', NEW ts \in Seq(Task),
           ts = tasks', NEW un, un = Answers(ts, a),
           owner' \in Seq(User), applied' \subseteq Nat, applied' \intersect Bad = {},
           auth' \in User, acked' \subseteq Nat, refused' \subseteq Nat, changes' \in Nat,
           faults' \in Nat, queue' \in [User -> Seq(Nat)], QueuesOk',
           a.s.pipe = SubSeq(queue'[u], 1, Room(queue'[u])),
           StreamOk(a), AskedOk(a), CallOk(a, u)', TasksOk(ts, a, u),
           UsersOk(ts, u)', AnswersOk(a, un)', EndOk(a)'
    PROVE  PipeInv'
<1>1. Now' = a /\ store' = a.s /\ call' = a.c
  BY DEF Becomes, Now, Rec
<1>2. PipelineIsFull'
  BY <1>1 DEF PipelineIsFull, Room
<1>3. Len(a.s.pipe) <= MaxPendingWrites
  <2>1. queue'[u] \in Seq(Nat)
    OBVIOUS
  <2>2. \A q \in Seq(Nat) : Len(SubSeq(q, 1, Room(q))) <= MaxPendingWrites
    BY RoomFacts
  <2> QED BY <2>1, <2>2
<1>4. PipelineTypeOK'
  BY <1>1, <1>3 DEF PipelineTypeOK, Rec
<1>5. StreamOk(Now)' /\ AskedOk(Now)'
  BY <1>1 DEF StreamOk, AskedOk
<1>6. CallOk(Now, user)'
  BY <1>1 DEF CallOk, Owns
<1>7. TasksOk(tasks, Now, user)'
  BY <1>1 DEF TasksOk, Current
<1>8. UsersOk(tasks, user)'
  BY DEF UsersOk
<1>9. AnswersOk(Now, Answers(tasks, Now))'
  <2>1. Answers(tasks, Now)' = un
    BY <1>1 DEF Answers, ReadsIn, Current
  <2> QED BY <1>1, <2>1 DEF AnswersOk, Expected
<1>10. EndOk(Now)'
  BY <1>1 DEF EndOk
<1> QED BY <1>2, <1>4, <1>5, <1>6, <1>7, <1>8, <1>9, <1>10 DEF PipeInv

LEMMA InvFacts ==
    ASSUME PipeInv
    PROVE  /\ Now \in Rec /\ Now.s = store /\ Now.c = call
           /\ owner \in Seq(User) /\ queue \in [User -> Seq(Nat)]
           /\ applied \subseteq Nat /\ acked \subseteq Nat /\ refused \subseteq Nat
           /\ auth \in User /\ user \in User /\ changes \in Nat /\ faults \in Nat
           /\ tasks \in Seq(Task)
           /\ \A u \in User : Sorted(queue[u])
           /\ store.pipe = SubSeq(queue[user], 1, Room(queue[user]))
           /\ call.finished => call.end # "open"
<1>1. PipelineTypeOK
  BY DEF PipeInv
<1>2. Now \in Rec /\ Now.s = store /\ Now.c = call
  BY <1>1 DEF Now, Rec, PipelineTypeOK
<1>3. \A u \in User : Sorted(queue[u])
  BY <1>1 DEF PipeInv, QueuesOk, Sorted, PipelineTypeOK
<1>4. store.pipe = SubSeq(queue[user], 1, Room(queue[user]))
  BY DEF PipeInv, PipelineIsFull, Room
<1>5. call.finished => call.end # "open"
  BY <1>2 DEF PipeInv, StreamOk
<1> QED BY <1>1, <1>2, <1>3, <1>4, <1>5 DEF PipelineTypeOK

(* What holds of a record as long as the app and the server do nothing. *)
LEMMA StillOk ==
    ASSUME NEW a, UNCHANGED <<owner, applied>>
    PROVE  /\ \A u : CallOk(a, u) => CallOk(a, u)'
           /\ \A un : AnswersOk(a, un) => AnswersOk(a, un)'
           /\ EndOk(a) => EndOk(a)'
<1>1. \A u : CallOk(a, u) => CallOk(a, u)'
  BY DEF CallOk, Owns
<1>2. \A un : AnswersOk(a, un) => AnswersOk(a, un)'
  BY DEF AnswersOk
<1>3. EndOk(a) => EndOk(a)'
  BY DEF EndOk
<1> QED BY <1>1, <1>2, <1>3

(* A handler during which the app, the server and the credentials do nothing. *)
LEMMA HandlerSteps ==
    ASSUME PipeInv, NEW a \in Rec, Becomes(a), UNCHANGED <<owner, applied, auth, changes>>,
           acked' \subseteq Nat, refused' \subseteq Nat, faults' \in Nat,
           user' \in User, tasks' \in Seq(Task), queue' \in [User -> Seq(Nat)], QueuesOk',
           a.s.pipe = SubSeq(queue'[user'], 1, Room(queue'[user'])),
           StreamOk(a), AskedOk(a), CallOk(a, user'), TasksOk(tasks', a, user'),
           UsersOk(tasks', user'), AnswersOk(a, Answers(tasks', a)), EndOk(a)
    PROVE  PipeInv'
<1>1. applied \intersect Bad = {}
  BY DEF PipeInv
<1>2. \A ts, u : UsersOk(ts, u) => UsersOk(ts, u)'
  BY DEF UsersOk
<1> QED BY <1>1, <1>2, InvFacts, StillOk, Reached

(* One that touches the stream and its call only. *)
LEMMA StreamSteps ==
    ASSUME PipeInv, NEW a \in Rec, Becomes(a),
           UNCHANGED <<owner, queue, applied, acked, refused, auth, changes, user>>,
           faults' \in Nat, tasks' \in Seq(Task), a.s.pipe = store.pipe,
           StreamOk(a), AskedOk(a), CallOk(a, user), TasksOk(tasks', a, user),
           UsersOk(tasks', user), AnswersOk(a, Answers(tasks', a)), EndOk(a)
    PROVE  PipeInv'
<1>1. QueuesOk'
  BY DEF PipeInv, QueuesOk, Owns
<1> QED BY <1>1, InvFacts, HandlerSteps

(* One that closes the stream. *)
LEMMA ClosingSteps ==
    ASSUME PipeInv, NEW a \in Rec, Becomes(a), UNCHANGED <<owner, applied, auth, changes>>,
           acked' \subseteq Nat, refused' \subseteq Nat, faults' \in Nat,
           user' \in User, tasks' \in Seq(Task), queue' \in [User -> Seq(Nat)], QueuesOk',
           a.s.pipe = SubSeq(queue'[user'], 1, Room(queue'[user'])),
           StreamOk(a), AskedOk(a), a.c = NoCall, AllOutdated(tasks', a),
           UsersOk(tasks', user')
    PROVE  PipeInv'
<1>1. /\ CallOk(a, user') /\ TasksOk(tasks', a, user') /\ EndOk(a)
      /\ AnswersOk(a, Answers(tasks', a))
  BY ClosedOk
<1> QED BY <1>1, HandlerSteps

------------------------------------------------------------------------------
(* The worker queue. *)

LEMMA TaskFacts ==
    ASSUME NEW ts \in Seq(Task), ts # <<>>
    PROVE  /\ Head(ts) = ts[1] /\ 1 \in DOMAIN ts /\ Head(ts) \in Task
           /\ Tail(ts) \in Seq(Task) /\ Len(Tail(ts)) = Len(ts) - 1 /\ Len(ts) \in Nat \ {0}
           /\ DOMAIN ts = 1 .. Len(ts) /\ DOMAIN Tail(ts) = 1 .. Len(ts) - 1
           /\ \A i \in DOMAIN Tail(ts) : i + 1 \in DOMAIN ts /\ Tail(ts)[i] = ts[i + 1]
           /\ \A i \in DOMAIN ts : i # 1 => i - 1 \in DOMAIN Tail(ts) /\ Tail(ts)[i - 1] = ts[i]
<1>1. /\ Tail(ts) \in Seq(Task) /\ Len(Tail(ts)) = Len(ts) - 1 /\ Len(ts) \in Nat \ {0}
      /\ DOMAIN ts = 1 .. Len(ts) /\ Head(ts) = ts[1]
  BY HeadTailProperties, EmptySeq, LenProperties
<1>2. DOMAIN Tail(ts) = 1 .. Len(ts) - 1
  BY <1>1, LenProperties
<1>3. \A i \in 1 .. Len(Tail(ts)) : Tail(ts)[i] = ts[i + 1]
  BY HeadTailProperties
<1> QED BY <1>1, <1>2, <1>3

LEMMA AnswersAre ==
    ASSUME NEW r, NEW u, NEW ts, TasksOk(ts, r, u), NEW i \in ReadsIn(ts, r)
    PROVE  /\ \A j \in ReadsIn(ts, r) : i = j
           /\ Answers(ts, r) = <<ts[i].msg>> \o r.c.back
<1>1. \A j \in ReadsIn(ts, r) : i = j
  BY DEF TasksOk, ReadsIn, Current
<1>2. (CHOOSE j \in ReadsIn(ts, r) : TRUE) = i
  BY <1>1
<1> QED BY <1>1, <1>2 DEF Answers

LEMMA UsersTail ==
    ASSUME NEW ts \in Seq(Task), ts # <<>>, NEW u, UsersOk(ts, u)
    PROVE  UsersOk(Tail(ts), IF Head(ts).kind = "user" THEN Head(ts).user ELSE u)
<1>1. CASE u = auth /\ \A i \in DOMAIN ts : ts[i].kind # "user"
  BY <1>1, TaskFacts DEF UsersOk
<1>2. ASSUME NEW i \in DOMAIN ts, ts[i].kind = "user", ts[i].user = auth,
             \A j \in i + 1 .. Len(ts) : ts[j].kind # "user"
      PROVE  UsersOk(Tail(ts), IF Head(ts).kind = "user" THEN Head(ts).user ELSE u)
  <2>1. CASE i = 1
    <3>1. \A j \in DOMAIN Tail(ts) : Tail(ts)[j].kind # "user"
      BY <1>2, <2>1, TaskFacts
    <3>2. Head(ts).kind = "user" /\ Head(ts).user = auth
      BY <1>2, <2>1, TaskFacts
    <3> QED BY <3>1, <3>2 DEF UsersOk
  <2>2. CASE i # 1
    <3>1. i - 1 \in DOMAIN Tail(ts) /\ Tail(ts)[i - 1] = ts[i]
      BY <2>2, TaskFacts
    <3>2. \A j \in i - 1 + 1 .. Len(Tail(ts)) : Tail(ts)[j].kind # "user"
      BY <1>2, TaskFacts
    <3> QED BY <1>2, <3>1, <3>2 DEF UsersOk
  <2> QED BY <2>1, <2>2
<1> QED BY <1>1, <1>2 DEF UsersOk

(* A task that is not a change of the user leaves the worker queue. *)
LEMMA TasksTail ==
    ASSUME NEW r, NEW u, NEW ts \in Seq(Task), ts # <<>>, TasksOk(ts, r, u),
           Head(ts).kind # "user"
    PROVE  /\ TasksOk(Tail(ts), r, u)
           /\ ~(Head(ts).kind = "read" /\ Current(Head(ts), r) /\ ~r.c.finished) =>
                 Answers(Tail(ts), r) = Answers(ts, r)
<1> DEFINE tl == Tail(ts)
<1>1. /\ Head(ts) = ts[1] /\ DOMAIN ts = 1 .. Len(ts) /\ DOMAIN tl = 1 .. Len(ts) - 1
      /\ Len(ts) \in Nat \ {0}
      /\ \A i \in DOMAIN tl : i + 1 \in DOMAIN ts /\ tl[i] = ts[i + 1] /\ i \in Nat
      /\ \A i \in DOMAIN ts : i # 1 => i - 1 \in DOMAIN tl /\ tl[i - 1] = ts[i]
  BY TaskFacts
<1> HIDE DEF tl
<1>2. TasksOk(tl, r, u)
  <2>1. \A i \in DOMAIN tl : tl[i].kind # "user" => tl[i].closes <= r.s.closes
    BY <1>1 DEF TasksOk
  <2>2. ASSUME NEW i \in DOMAIN tl, Current(tl[i], r)
        PROVE  /\ tl[i].kind # "token" => r.c.live
               /\ tl[i].kind = "token" =>
                    /\ r.s.state = "Starting"
                    /\ \A a \in r.s.asked : a.closes # r.s.closes
                    /\ \A j \in DOMAIN tl : tl[j].kind = "token" /\ Current(tl[j], r) => i = j
                    /\ (\A j \in 1 .. i - 1 : tl[j].kind # "user") => tl[i].user \in {u, NoToken}
               /\ tl[i].kind = "broken" => r.c.end # "open"
               /\ tl[i].kind = "finished" => r.c.finished /\ tl[i].end = r.c.end
               /\ tl[i].kind = "read" /\ ~r.c.finished =>
                    /\ "read" \notin r.c.ops
                    /\ \A j \in DOMAIN tl : tl[j].kind = "read" /\ Current(tl[j], r) => i = j
    <3>0. i + 1 \in DOMAIN ts /\ tl[i] = ts[i + 1] /\ Current(ts[i + 1], r) /\ i \in Nat
      BY <1>1, <2>2
    <3>1. /\ tl[i].kind # "token" => r.c.live
          /\ tl[i].kind = "token" => r.s.state = "Starting"
          /\ tl[i].kind = "token" => \A a \in r.s.asked : a.closes # r.s.closes
          /\ tl[i].kind = "broken" => r.c.end # "open"
          /\ tl[i].kind = "finished" => r.c.finished /\ tl[i].end = r.c.end
          /\ tl[i].kind = "read" /\ ~r.c.finished => "read" \notin r.c.ops
      BY <3>0 DEF TasksOk
    <3>2. ASSUME tl[i].kind = "token", NEW j \in DOMAIN tl, tl[j].kind = "token", Current(tl[j], r)
          PROVE  i = j
      <4>1. j + 1 \in DOMAIN ts /\ tl[j] = ts[j + 1] /\ j \in Nat
        BY <1>1
      <4>2. i + 1 = j + 1
        BY <3>0, <3>2, <4>1 DEF TasksOk
      <4> QED BY <3>0, <4>1, <4>2
    <3>3. ASSUME tl[i].kind = "read", ~r.c.finished,
                 NEW j \in DOMAIN tl, tl[j].kind = "read", Current(tl[j], r)
          PROVE  i = j
      <4>1. j + 1 \in DOMAIN ts /\ tl[j] = ts[j + 1] /\ j \in Nat
        BY <1>1
      <4>2. i + 1 = j + 1
        BY <3>0, <3>3, <4>1 DEF TasksOk
      <4> QED BY <3>0, <4>1, <4>2
    <3>4. ASSUME tl[i].kind = "token", \A j \in 1 .. i - 1 : tl[j].kind # "user"
          PROVE  tl[i].user \in {u, NoToken}
      <4>1. \A j \in 1 .. i + 1 - 1 : ts[j].kind # "user"
        <5> SUFFICES ASSUME NEW j \in 1 .. i + 1 - 1 PROVE ts[j].kind # "user"
          OBVIOUS
        <5>1. CASE j = 1
          BY <1>1, <5>1
        <5>2. CASE j # 1
          <6>1. j - 1 \in 1 .. i - 1 /\ j \in DOMAIN ts
            BY <1>1, <3>0, <5>2
          <6> QED BY <1>1, <3>4, <5>2, <6>1
        <5> QED BY <5>1, <5>2
      <4> QED BY <3>0, <3>4, <4>1 DEF TasksOk
    <3> QED BY <3>1, <3>2, <3>3, <3>4
  <2> QED BY <2>1, <2>2 DEF TasksOk
<1>3. ASSUME ~(Head(ts).kind = "read" /\ Current(Head(ts), r) /\ ~r.c.finished)
      PROVE  Answers(tl, r) = Answers(ts, r)
  <2>1. CASE ReadsIn(tl, r) = {}
    <3>1. ASSUME NEW i \in ReadsIn(ts, r) PROVE FALSE
      <4>1. i # 1
        BY <1>1, <1>3, <3>1 DEF ReadsIn
      <4>2. i - 1 \in ReadsIn(tl, r)
        BY <1>1, <3>1, <4>1 DEF ReadsIn
      <4> QED BY <2>1, <4>2
    <3> QED BY <2>1, <3>1 DEF Answers
  <2>2. CASE ReadsIn(tl, r) # {}
    <3>1. PICK i \in ReadsIn(tl, r) : TRUE
      BY <2>2
    <3>2. i + 1 \in ReadsIn(ts, r) /\ tl[i] = ts[i + 1]
      BY <1>1, <3>1 DEF ReadsIn
    <3>3. Answers(tl, r) = <<tl[i].msg>> \o r.c.back
      BY <1>2, <3>1, AnswersAre
    <3>4. Answers(ts, r) = <<ts[i + 1].msg>> \o r.c.back
      BY <3>2, AnswersAre
    <3> QED BY <3>2, <3>3, <3>4
  <2> QED BY <2>1, <2>2
<1> QED BY <1>2, <1>3 DEF tl

(* The stream goes on: what the tasks are of does not change. *)
GoesOn(a, r) ==
    /\ a.s.closes = r.s.closes
    /\ r.c.live => a.c.live
    /\ r.s.state = "Starting" => a.s.state = "Starting" /\ a.s.asked \subseteq r.s.asked
    /\ r.c.end # "open" => a.c.end = r.c.end
    /\ r.c.finished => a.c.finished

LEMMA TasksKept ==
    ASSUME NEW r, NEW a, NEW u, NEW ts, TasksOk(ts, r, u), GoesOn(a, r),
           r.c.finished => r.c.end # "open",
           ~a.c.finished /\ "read" \in a.c.ops => "read" \in r.c.ops \/ ReadsIn(ts, r) = {}
    PROVE  TasksOk(ts, a, u)
<1>1. \A i \in DOMAIN ts : ts[i].kind # "user" => ts[i].closes <= a.s.closes
  BY DEF TasksOk, GoesOn
<1>2. \A i \in DOMAIN ts : Current(ts[i], a) <=> Current(ts[i], r)
  BY DEF Current, GoesOn
<1>3. ASSUME NEW i \in DOMAIN ts, Current(ts[i], r)
      PROVE  /\ ts[i].kind # "token" => a.c.live
             /\ ts[i].kind = "broken" => a.c.end # "open"
             /\ ts[i].kind = "finished" => a.c.finished /\ ts[i].end = a.c.end
  BY <1>3 DEF TasksOk, GoesOn
<1>4. ASSUME NEW i \in DOMAIN ts, Current(ts[i], r), ts[i].kind = "token"
      PROVE  /\ a.s.state = "Starting"
             /\ \A b \in a.s.asked : b.closes # a.s.closes
             /\ \A j \in DOMAIN ts : ts[j].kind = "token" /\ Current(ts[j], a) => i = j
             /\ (\A j \in 1 .. i - 1 : ts[j].kind # "user") => ts[i].user \in {u, NoToken}
  BY <1>2, <1>4 DEF TasksOk, GoesOn
<1>5. ASSUME NEW i \in DOMAIN ts, Current(ts[i], r), ts[i].kind = "read", ~a.c.finished
      PROVE  /\ "read" \notin a.c.ops
             /\ \A j \in DOMAIN ts : ts[j].kind = "read" /\ Current(ts[j], a) => i = j
  <2>1. ~r.c.finished
    BY <1>5 DEF GoesOn
  <2>2. i \in ReadsIn(ts, r)
    BY <1>5, <2>1 DEF ReadsIn
  <2> QED BY <1>2, <1>5, <2>1, <2>2 DEF TasksOk
<1> QED BY <1>1, <1>2, <1>3, <1>4, <1>5 DEF TasksOk

(* A callback is posted on the worker queue. *)
LEMMA UsersPosted ==
    ASSUME NEW ts \in Seq(Task), NEW t \in Task, t.kind # "user", NEW u, UsersOk(ts, u)
    PROVE  UsersOk(Append(ts, t), u)
<1>1. /\ DOMAIN ts = 1 .. Len(ts) /\ Len(ts) \in Nat
      /\ DOMAIN Append(ts, t) = 1 .. Len(ts) + 1 /\ Len(Append(ts, t)) = Len(ts) + 1
      /\ \A i \in 1 .. Len(ts) : Append(ts, t)[i] = ts[i]
      /\ Append(ts, t)[Len(ts) + 1] = t
  BY AppendProperties, LenProperties
<1>2. CASE u = auth /\ \A i \in DOMAIN ts : ts[i].kind # "user"
  BY <1>1, <1>2 DEF UsersOk
<1>3. ASSUME NEW i \in DOMAIN ts, ts[i].kind = "user", ts[i].user = auth,
             \A j \in i + 1 .. Len(ts) : ts[j].kind # "user"
      PROVE  UsersOk(Append(ts, t), u)
  <2>1. i \in DOMAIN Append(ts, t) /\ Append(ts, t)[i] = ts[i] /\ i \in Nat
    BY <1>1
  <2>2. \A j \in i + 1 .. Len(Append(ts, t)) : Append(ts, t)[j].kind # "user"
    BY <1>1, <1>3, <2>1
  <2> QED BY <1>3, <2>1, <2>2 DEF UsersOk
<1> QED BY <1>2, <1>3 DEF UsersOk

LEMMA TasksPosted ==
    ASSUME NEW ts \in Seq(Task), NEW t \in Task, t.kind # "user", NEW a, NEW u,
           TasksOk(ts, a, u), t.closes <= a.s.closes,
           Current(t, a) =>
            /\ t.kind # "token" => a.c.live
            /\ t.kind = "token" =>
                /\ a.s.state = "Starting"
                /\ \A b \in a.s.asked : b.closes # a.s.closes
                /\ \A j \in DOMAIN ts : ~(ts[j].kind = "token" /\ Current(ts[j], a))
                /\ (\A j \in DOMAIN ts : ts[j].kind # "user") => t.user \in {u, NoToken}
            /\ t.kind = "broken" => a.c.end # "open"
            /\ t.kind = "finished" => a.c.finished /\ t.end = a.c.end
            /\ t.kind = "read" /\ ~a.c.finished => "read" \notin a.c.ops /\ ReadsIn(ts, a) = {}
    PROVE  /\ TasksOk(Append(ts, t), a, u)
           /\ t.kind # "read" => Answers(Append(ts, t), a) = Answers(ts, a)
           /\ t.kind = "read" /\ Current(t, a) /\ ~a.c.finished =>
                /\ Answers(Append(ts, t), a) = <<t.msg>> \o a.c.back
                /\ Answers(ts, a) = <<>> \o a.c.back
<1> DEFINE more == Append(ts, t)
           last == Len(ts) + 1
<1>1. /\ DOMAIN ts = 1 .. Len(ts) /\ Len(ts) \in Nat
      /\ DOMAIN more = 1 .. Len(ts) + 1
      /\ \A i \in 1 .. Len(ts) : more[i] = ts[i]
      /\ more[last] = t
  BY AppendProperties, LenProperties
<1> HIDE DEF more
<1>2. TasksOk(more, a, u)
  <2>1. ASSUME NEW i \in DOMAIN more, more[i].kind # "user"
        PROVE  more[i].closes <= a.s.closes
    BY <1>1, <2>1 DEF TasksOk
  <2>2. ASSUME NEW i \in DOMAIN more, Current(more[i], a)
        PROVE  /\ more[i].kind # "token" => a.c.live
               /\ more[i].kind = "broken" => a.c.end # "open"
               /\ more[i].kind = "finished" => a.c.finished /\ more[i].end = a.c.end
               /\ more[i].kind = "read" /\ ~a.c.finished => "read" \notin a.c.ops
               /\ more[i].kind = "token" =>
                    a.s.state = "Starting" /\ \A b \in a.s.asked : b.closes # a.s.closes
    <3>1. CASE i \in DOMAIN ts
      <4>1. more[i] = ts[i] /\ Current(ts[i], a)
        BY <1>1, <2>2, <3>1
      <4> QED BY <3>1, <4>1 DEF TasksOk
    <3>2. CASE i = last
      BY <1>1, <2>2, <3>2
    <3> QED BY <1>1, <3>1, <3>2
  <2>3. ASSUME NEW i \in DOMAIN more, Current(more[i], a), more[i].kind = "token",
               NEW j \in DOMAIN more, more[j].kind = "token", Current(more[j], a)
        PROVE  i = j
    <3>1. CASE i \in DOMAIN ts /\ j \in DOMAIN ts
      <4>1. more[i] = ts[i] /\ more[j] = ts[j]
        BY <1>1, <3>1
      <4> QED BY <2>3, <3>1, <4>1 DEF TasksOk
    <3>2. CASE i = last /\ j \in DOMAIN ts
      <4>1. more[i] = t /\ more[j] = ts[j]
        BY <1>1, <3>2
      <4> QED BY <2>3, <3>2, <4>1
    <3>3. CASE j = last /\ i \in DOMAIN ts
      <4>1. more[j] = t /\ more[i] = ts[i]
        BY <1>1, <3>3
      <4> QED BY <2>3, <3>3, <4>1
    <3> QED BY <1>1, <3>1, <3>2, <3>3
  <2>4. ASSUME NEW i \in DOMAIN more, Current(more[i], a), more[i].kind = "token",
               \A j \in 1 .. i - 1 : more[j].kind # "user"
        PROVE  more[i].user \in {u, NoToken}
    <3>1. CASE i \in DOMAIN ts
      <4>1. more[i] = ts[i] /\ \A j \in 1 .. i - 1 : j \in DOMAIN ts /\ more[j] = ts[j]
        BY <1>1, <3>1
      <4> QED BY <2>4, <3>1, <4>1 DEF TasksOk
    <3>2. CASE i = last
      <4>1. more[i] = t /\ \A j \in DOMAIN ts : j \in 1 .. i - 1 /\ more[j] = ts[j]
        BY <1>1, <3>2
      <4> QED BY <2>4, <4>1
    <3> QED BY <1>1, <3>1, <3>2
  <2>5. ASSUME NEW i \in DOMAIN more, Current(more[i], a), more[i].kind = "read", ~a.c.finished,
               NEW j \in DOMAIN more, more[j].kind = "read", Current(more[j], a)
        PROVE  i = j
    <3>1. CASE i \in DOMAIN ts /\ j \in DOMAIN ts
      <4>1. more[i] = ts[i] /\ more[j] = ts[j]
        BY <1>1, <3>1
      <4> QED BY <2>5, <3>1, <4>1 DEF TasksOk
    <3>2. CASE i = last /\ j \in DOMAIN ts
      <4>1. more[i] = t /\ more[j] = ts[j]
        BY <1>1, <3>2
      <4>2. j \in ReadsIn(ts, a)
        BY <2>5, <3>2, <4>1 DEF ReadsIn
      <4> QED BY <2>5, <4>1, <4>2
    <3>3. CASE j = last /\ i \in DOMAIN ts
      <4>1. more[j] = t /\ more[i] = ts[i]
        BY <1>1, <3>3
      <4>2. i \in ReadsIn(ts, a)
        BY <2>5, <3>3, <4>1 DEF ReadsIn
      <4> QED BY <2>5, <4>1, <4>2
    <3> QED BY <1>1, <3>1, <3>2, <3>3
  <2> QED BY <2>1, <2>2, <2>3, <2>4, <2>5 DEF TasksOk
<1>3. ASSUME t.kind # "read"
      PROVE  Answers(more, a) = Answers(ts, a)
  <2>1. ReadsIn(more, a) = ReadsIn(ts, a)
    BY <1>1, <1>3 DEF ReadsIn
  <2>2. CASE ReadsIn(ts, a) = {}
    BY <2>1, <2>2 DEF Answers
  <2>3. CASE ReadsIn(ts, a) # {}
    <3>1. PICK i \in ReadsIn(ts, a) : TRUE
      BY <2>3
    <3>2. more[i] = ts[i] /\ i \in ReadsIn(more, a)
      BY <1>1, <2>1, <3>1 DEF ReadsIn
    <3>3. Answers(ts, a) = <<ts[i].msg>> \o a.c.back
      BY <3>1, AnswersAre
    <3>4. Answers(more, a) = <<more[i].msg>> \o a.c.back
      BY <1>2, <3>2, AnswersAre
    <3> QED BY <3>2, <3>3, <3>4
  <2> QED BY <2>2, <2>3
<1>4. ASSUME t.kind = "read", Current(t, a), ~a.c.finished
      PROVE  /\ Answers(more, a) = <<t.msg>> \o a.c.back
             /\ Answers(ts, a) = <<>> \o a.c.back
  <2>1. last \in ReadsIn(more, a) /\ more[last] = t
    BY <1>1, <1>4 DEF ReadsIn
  <2>2. Answers(more, a) = <<more[last].msg>> \o a.c.back
    BY <1>2, <2>1, AnswersAre
  <2>3. ReadsIn(ts, a) = {}
    BY <1>4
  <2> QED BY <2>1, <2>2, <2>3 DEF Answers
<1> QED BY <1>2, <1>3, <1>4 DEF more

------------------------------------------------------------------------------
(* Streams that close.                                                         *)

(* Only a stream that starts or is open is waited for. *)
LEMMA NothingCurrent ==
    ASSUME PipeInv, store.state \notin {"Starting", "Open"}
    PROVE  AllOutdated(tasks, Now) /\ call = NoCall
<1>1. ~call.live /\ call = NoCall
  BY InvFacts DEF PipeInv, StreamOk
<1>2. ASSUME NEW i \in DOMAIN tasks, tasks[i].kind # "user"
      PROVE  tasks[i].closes < store.closes
  <2>1. tasks[i].closes <= store.closes /\ ~Current(tasks[i], Now)
    BY <1>1, <1>2, InvFacts DEF PipeInv, TasksOk
  <2>2. tasks[i] \in Task /\ store.closes \in Nat
    BY InvFacts, ElementOfSeq, LenProperties DEF Rec, Store
  <2>3. tasks[i].closes \in Nat
    BY <1>2, <2>2 DEF Task
  <2> QED BY <1>2, <2>1, <2>2, <2>3, InvFacts DEF Current
<1> QED BY <1>1, <1>2, InvFacts DEF AllOutdated

LEMMA ClosingOutdates ==
    ASSUME PipeInv, NEW a, a.s.closes = store.closes + 1
    PROVE  AllOutdated(tasks, a)
<1> SUFFICES ASSUME NEW i \in DOMAIN tasks, tasks[i].kind # "user"
             PROVE  tasks[i].closes < a.s.closes
  BY DEF AllOutdated
<1>1. tasks[i].closes <= store.closes
  BY InvFacts DEF PipeInv, TasksOk
<1>2. tasks[i] \in Task /\ store.closes \in Nat
  BY InvFacts, ElementOfSeq, LenProperties DEF Rec, Store
<1>3. tasks[i].closes \in Nat
  BY <1>2 DEF Task
<1> QED BY <1>1, <1>2, <1>3

LEMMA TailOutdated ==
    ASSUME NEW a, NEW ts \in Seq(Task), ts # <<>>, AllOutdated(ts, a)
    PROVE  AllOutdated(Tail(ts), a)
BY TaskFacts DEF AllOutdated

LEMMA StartOk ==
    ASSUME NEW r \in Rec, r.c = NoCall, StreamOk(r), AskedOk(r), changes \in Nat
    PROVE  StreamOk(StartIfNeeded(r)) /\ AskedOk(StartIfNeeded(r))
<1> DEFINE a == StartIfNeeded(r)
<1>1. /\ Grows(a, r) /\ a.c = r.c /\ a.s.pipe = r.s.pipe /\ a.s.idle = r.s.idle
      /\ \/ a = r
         \/ r.s.state = "Error" /\ a.s.state = "Backoff" /\ a.s.asked = r.s.asked
         \/ /\ r.s.state = "Initial" /\ a.s.state = "Starting"
            /\ a.s.asked = r.s.asked \union {[closes |-> r.s.closes, counter |-> changes]}
  BY StartFacts
<1>2. r.s.closes \in Nat
  BY DEF Rec, Store
<1> HIDE DEF a
<1>3. StreamOk(a)
  BY <1>1 DEF StreamOk, Grows
<1>4. AskedOk(a)
  BY <1>1, <1>2 DEF AskedOk, Grows
<1> QED BY <1>3, <1>4 DEF a

LEMMA RetryFacts ==
    ASSUME PipeInv
    PROVE  LET a == CloseAndRetry(Now) IN
           /\ a \in Rec /\ StreamOk(a) /\ AskedOk(a) /\ a.c = NoCall
           /\ a.s.pipe = store.pipe /\ AllOutdated(tasks, a)
<1> DEFINE b == Close(Now, "Error")
           a == StartIfNeeded(b)
<1>1. Now \in Rec /\ Now.s = store /\ AskedOk(Now) /\ changes \in Nat
  BY InvFacts DEF PipeInv
<1>2. /\ b \in Rec /\ StreamOk(b) /\ AskedOk(b)
      /\ b.s.pipe = store.pipe /\ b.s.closes = store.closes + 1 /\ b.c = NoCall
  BY <1>1, CloseFacts
<1> HIDE DEF b
<1>3. StreamOk(a) /\ AskedOk(a)
  BY <1>1, <1>2, StartOk
<1>4. Grows(a, b) /\ a.c = b.c /\ a.s.pipe = b.s.pipe
  BY <1>1, <1>2, StartFacts
<1> HIDE DEF a
<1>5. a \in Rec /\ a.s.closes = store.closes + 1
  BY <1>2, <1>4 DEF Grows
<1>6. AllOutdated(tasks, a)
  BY <1>5, ClosingOutdates
<1> QED BY <1>2, <1>3, <1>4, <1>5, <1>6 DEF a, b, CloseAndRetry

LEMMA StopFacts ==
    ASSUME PipeInv
    PROVE  LET a == Stop(Now) IN
           /\ a \in Rec /\ StreamOk(a) /\ AskedOk(a) /\ a.c = NoCall
           /\ a.s.pipe = store.pipe /\ AllOutdated(tasks, a) /\ a.s.state # "Open"
<1>1. Now \in Rec /\ Now.s = store /\ Now.c = call /\ StreamOk(Now) /\ AskedOk(Now)
  BY InvFacts DEF PipeInv
<1>2. CASE IsStarted(store)
  <2> DEFINE a == Close(Now, "Initial")
  <2>1. /\ a \in Rec /\ StreamOk(a) /\ AskedOk(a) /\ a.s.state = "Initial"
        /\ a.s.pipe = store.pipe /\ a.s.closes = store.closes + 1 /\ a.c = NoCall
    BY <1>1, CloseFacts
  <2> HIDE DEF a
  <2>2. AllOutdated(tasks, a)
    BY <2>1, ClosingOutdates
  <2> QED BY <1>1, <1>2, <2>1, <2>2 DEF a, Stop
<1>3. CASE ~IsStarted(store)
  BY <1>1, <1>3, NothingCurrent DEF Stop, IsStarted
<1> QED BY <1>2, <1>3

LEMMA WithPipe ==
    ASSUME NEW r \in Rec, NEW p \in Seq(Nat)
    PROVE  LET b == [r EXCEPT !.s.pipe = p] IN
           /\ b \in Rec /\ b.c = r.c /\ b.s.pipe = p /\ b.s.state = r.s.state
           /\ b.s.closes = r.s.closes /\ b.s.asked = r.s.asked
           /\ b.s.idle = r.s.idle /\ b.s.shaken = r.s.shaken
BY DEF Rec, Store

(* The oldest batch of a queue leaves it and the pipeline. *)
LEMMA DropFacts ==
    ASSUME NEW q, Sorted(q), SubSeq(q, 1, Room(q)) # <<>>
    PROVE  /\ q # <<>> /\ Sorted(Tail(q)) /\ Head(q) \in Nat
           /\ SubSeq(q, 1, Room(q)) \in Seq(Nat)
           /\ Head(SubSeq(q, 1, Room(q))) = Head(q)
           /\ Tail(SubSeq(q, 1, Room(q))) = SubSeq(Tail(q), 1, Room(q) - 1)
           /\ Room(q) - 1 \in 0 .. Room(Tail(q))
<1> DEFINE n == Room(q)
           p == SubSeq(q, 1, n)
<1>1. /\ q \in Seq(Nat) /\ Len(q) \in Nat /\ n \in 0 .. Len(q) /\ n <= MaxPendingWrites
      /\ MaxPendingWrites \in Nat \ {0} /\ (n < MaxPendingWrites => n = Len(q))
      /\ \A i \in 1 .. Len(q) : q[i] \in Nat
  BY RoomFacts DEF Sorted
<1> HIDE DEF n
<1>2. n # 0 /\ n \in Nat /\ n <= Len(q)
  <2>1. ASSUME n = 0 PROVE FALSE
    BY <1>1, <2>1, SubSeqEmpty DEF n
  <2> QED BY <1>1, <2>1
<1>3. /\ p \in Seq(Nat) /\ Len(p) = n /\ \A i \in 1 .. n : p[i] = q[i]
  BY <1>1, <1>2
<1>4. q # <<>> /\ Head(q) = q[1] /\ Head(p) = q[1] /\ q[1] \in Nat
  BY <1>1, <1>2, <1>3
<1>5. /\ Tail(q) \in Seq(Nat) /\ Len(Tail(q)) = Len(q) - 1
      /\ \A i \in 1 .. Len(q) - 1 : Tail(q)[i] = q[i + 1]
  BY <1>1, <1>4, HeadTailProperties
<1>6. Sorted(Tail(q))
  <2> SUFFICES ASSUME NEW i \in 1 .. Len(q) - 1, NEW j \in 1 .. Len(q) - 1, i < j
               PROVE  Tail(q)[i] < Tail(q)[j]
    BY <1>5, LenProperties DEF Sorted
  <2>1. i + 1 \in DOMAIN q /\ j + 1 \in DOMAIN q /\ i + 1 < j + 1
    BY <1>1
  <2>2. q[i + 1] < q[j + 1]
    BY <2>1 DEF Sorted
  <2> QED BY <1>5, <2>2
<1>7. n - 1 \in 0 .. Room(Tail(q))
  <2>1. Room(Tail(q)) = IF Len(q) - 1 < MaxPendingWrites THEN Len(q) - 1 ELSE MaxPendingWrites
    BY <1>5 DEF Room
  <2> QED BY <1>1, <1>2, <2>1
<1>8. Tail(p) = SubSeq(Tail(q), 1, n - 1)
  <2> DEFINE t == Tail(p)
             v == SubSeq(Tail(q), 1, n - 1)
  <2>1. p # <<>>
    BY DEF n
  <2> HIDE DEF p
  <2>2. t \in Seq(Nat) /\ Len(t) = n - 1 /\ \A i \in 1 .. n - 1 : t[i] = p[i + 1]
    BY <1>2, <1>3, <2>1, HeadTailProperties
  <2>3. n - 1 \in Nat /\ n - 1 <= Len(Tail(q))
    BY <1>2, <1>5
  <2>4. v \in Seq(Nat) /\ Len(v) = n - 1 /\ \A i \in 1 .. n - 1 : v[i] = Tail(q)[i]
    <3>1. \A s \in Seq(Nat), k \in Nat : k <= Len(s) =>
            /\ SubSeq(s, 1, k) \in Seq(Nat) /\ Len(SubSeq(s, 1, k)) = k
            /\ \A i \in 1 .. k : SubSeq(s, 1, k)[i] = s[i]
      OBVIOUS
    <3> QED BY <1>5, <2>3, <3>1
  <2>5. \A i \in 1 .. n - 1 : i + 1 \in 1 .. n /\ i \in 1 .. Len(q) - 1
    BY <1>1, <1>2
  <2>6. \A i \in 1 .. n - 1 : t[i] = v[i]
    BY <1>3, <1>5, <2>2, <2>4, <2>5
  <2> HIDE DEF t, v
  <2>7. t = v
    BY <2>2, <2>4, <2>6, SeqEqual
  <2> QED BY <2>7 DEF t, v
<1> QED BY <1>3, <1>4, <1>6, <1>7, <1>8 DEF n

LEMMA QueuesTail ==
    ASSUME PipeInv, queue' = [queue EXCEPT ![user] = Tail(@)], queue[user] # <<>>,
           UNCHANGED <<owner, user>>
    PROVE  queue' \in [User -> Seq(Nat)] /\ QueuesOk' /\ queue'[user] = Tail(queue[user])
<1>1. /\ queue \in [User -> Seq(Nat)] /\ user \in User /\ queue[user] \in Seq(Nat)
      /\ Tail(queue[user]) \in Seq(Nat) /\ QueuesOk
  BY InvFacts, HeadTailProperties DEF PipeInv
<1>2. queue' \in [User -> Seq(Nat)] /\ queue'[user] = Tail(queue[user])
  BY <1>1
<1>3. ASSUME NEW u \in User
      PROVE  /\ \A i \in DOMAIN queue'[u] : queue'[u][i] \in DOMAIN owner /\ owner[queue'[u][i]] = u
             /\ \A i, j \in DOMAIN queue'[u] : i < j => queue'[u][i] < queue'[u][j]
  <2>1. CASE u # user
    <3>1. queue'[u] = queue[u]
      BY <1>1, <2>1
    <3> QED BY <1>1, <3>1 DEF QueuesOk, Owns
  <2>2. CASE u = user
    <3>1. DOMAIN queue'[u] = 1 .. Len(queue[u]) - 1
          /\ \A i \in 1 .. Len(queue[u]) - 1 :
                queue'[u][i] = queue[u][i + 1] /\ i + 1 \in DOMAIN queue[u] /\ i \in Nat
      BY <1>1, <1>2, <2>2, HeadTailProperties, LenProperties
    <3>2. \A i \in DOMAIN queue'[u] : queue'[u][i] \in DOMAIN owner /\ owner[queue'[u][i]] = u
      BY <1>1, <3>1 DEF QueuesOk, Owns
    <3>3. ASSUME NEW i \in DOMAIN queue'[u], NEW j \in DOMAIN queue'[u], i < j
          PROVE  queue'[u][i] < queue'[u][j]
      <4>1. i + 1 \in DOMAIN queue[u] /\ j + 1 \in DOMAIN queue[u] /\ i + 1 < j + 1
        BY <3>1, <3>3
      <4>2. queue[u][i + 1] < queue[u][j + 1]
        BY <1>1, <4>1 DEF QueuesOk
      <4> QED BY <3>1, <4>2
    <3> QED BY <3>2, <3>3
  <2> QED BY <2>1, <2>2
<1>4. QueuesOk'
  BY <1>3 DEF QueuesOk, Owns
<1> QED BY <1>2, <1>4

(* FillWritePipeline of a closed stream. *)
LEMMA FillClosed ==
    ASSUME NEW r \in Rec, StreamOk(r), AskedOk(r), r.c = NoCall, NEW q, Sorted(q),
           NEW k \in 0 .. Room(q), r.s.pipe = SubSeq(q, 1, k), changes \in Nat
    PROVE  LET a == FillWritePipeline(r, q) IN
           /\ a \in Rec /\ StreamOk(a) /\ AskedOk(a) /\ a.c = NoCall
           /\ a.s.pipe = SubSeq(q, 1, Room(q)) /\ a.s.closes = r.s.closes
<1> DEFINE a == FillWritePipeline(r, q)
<1>1. ~r.c.live /\ r.s.state # "Open"
  BY NoCallFacts DEF StreamOk
<1>2. Grows(a, r) /\ StreamOk(a) /\ AskedOk(a) /\ a.s.pipe = SubSeq(q, 1, Room(q))
  BY <1>1, FillFacts
<1> HIDE DEF a
<1>3. a \in Rec /\ ~a.c.live /\ a.s.closes = r.s.closes
  BY <1>1, <1>2 DEF Grows
<1>4. a.c = NoCall
  BY <1>2, <1>3 DEF StreamOk
<1> QED BY <1>2, <1>3, <1>4 DEF a

------------------------------------------------------------------------------
(* The handlers that leave the stream closed. *)

LEMMA BackoffElapsedKeeps ==
    ASSUME PipeInv, BackoffElapsed
    PROVE  PipeInv'
<1> DEFINE r == [Now EXCEPT !.s.state = "Initial"]
           a == StartIfNeeded(r)
<1>1. /\ Now \in Rec /\ Now.s = store /\ Now.c = call /\ store.state = "Backoff" /\ changes \in Nat
      /\ StreamOk(Now) /\ AskedOk(Now)
  BY InvFacts DEF BackoffElapsed, PipeInv
<1>2. call = NoCall /\ AllOutdated(tasks, Now)
  BY <1>1, NothingCurrent
<1>3. /\ r \in Rec /\ r.c = NoCall /\ r.s.state = "Initial" /\ r.s.pipe = store.pipe
      /\ r.s.closes = store.closes /\ r.s.asked = store.asked
      /\ r.s.idle = store.idle /\ r.s.shaken = store.shaken
  BY <1>1, <1>2 DEF Rec, Store, StreamStates
<1> HIDE DEF r
<1>4. StreamOk(r) /\ AskedOk(r)
  BY <1>1, <1>2, <1>3, NoCallFacts DEF StreamOk, AskedOk
<1>5. /\ StreamOk(a) /\ AskedOk(a) /\ Grows(a, r) /\ a.c = NoCall /\ a.s.pipe = store.pipe
  BY <1>1, <1>3, <1>4, StartOk, StartFacts
<1>6. Becomes(a)
  BY DEF BackoffElapsed, r
<1> HIDE DEF a
<1>7. a \in Rec /\ AllOutdated(tasks, a)
  BY <1>1, <1>2, <1>3, <1>5 DEF Grows, AllOutdated
<1>8. /\ CallOk(a, user) /\ TasksOk(tasks, a, user) /\ EndOk(a)
      /\ AnswersOk(a, Answers(tasks, a))
  BY <1>5, <1>7, InvFacts, ClosedOk
<1>9. /\ UNCHANGED <<owner, queue, applied, acked, refused, auth, changes, user>>
      /\ faults' \in Nat /\ tasks' = tasks /\ UsersOk(tasks, user) /\ tasks \in Seq(Task)
  BY InvFacts DEF BackoffElapsed, serverVars, appVars, authVars, PipeInv
<1> QED BY <1>5, <1>6, <1>7, <1>8, <1>9, StreamSteps

(* A closed stream that keeps the pipeline, whatever became of the tasks. *)
LEMMA ClosedKeeps ==
    ASSUME PipeInv, NEW a \in Rec, Becomes(a), StreamOk(a), AskedOk(a), a.c = NoCall,
           a.s.pipe = store.pipe, AllOutdated(tasks', a), tasks' \in Seq(Task),
           UsersOk(tasks', user), faults' \in Nat,
           UNCHANGED <<owner, queue, applied, acked, refused, auth, changes, user>>
    PROVE  PipeInv'
<1>1. /\ CallOk(a, user) /\ TasksOk(tasks', a, user) /\ EndOk(a)
      /\ AnswersOk(a, Answers(tasks', a))
  BY ClosedOk
<1> QED BY <1>1, StreamSteps

LEMMA IdleTimeoutKeeps ==
    ASSUME PipeInv, IdleTimeout
    PROVE  PipeInv'
<1> DEFINE a == Stop(Now)
<1>1. /\ a \in Rec /\ StreamOk(a) /\ AskedOk(a) /\ a.c = NoCall
      /\ a.s.pipe = store.pipe /\ AllOutdated(tasks, a)
  BY StopFacts
<1>2. Becomes(a)
  BY DEF IdleTimeout
<1>3. /\ UNCHANGED <<owner, queue, applied, acked, refused, auth, changes, user>>
      /\ faults' \in Nat /\ tasks' = tasks /\ UsersOk(tasks, user) /\ tasks \in Seq(Task)
  BY InvFacts DEF IdleTimeout, serverVars, appVars, authVars, PipeInv
<1> HIDE DEF a
<1> QED BY <1>1, <1>2, <1>3, ClosedKeeps

LEMMA ConnectivityChangeKeeps ==
    ASSUME PipeInv, ConnectivityChange
    PROVE  PipeInv'
<1> DEFINE a == CloseAndRetry(Now)
<1>1. /\ a \in Rec /\ StreamOk(a) /\ AskedOk(a) /\ a.c = NoCall
      /\ a.s.pipe = store.pipe /\ AllOutdated(tasks, a)
  BY RetryFacts
<1>2. Becomes(a)
  BY DEF ConnectivityChange
<1>3. /\ UNCHANGED <<owner, queue, applied, acked, refused, auth, changes, user>>
      /\ tasks' = tasks /\ UsersOk(tasks, user) /\ tasks \in Seq(Task)
  BY InvFacts DEF ConnectivityChange, serverVars, appVars, authVars, PipeInv
<1>4. faults' \in Nat
  BY InvFacts DEF ConnectivityChange, Fault
<1> HIDE DEF a
<1> QED BY <1>1, <1>2, <1>3, <1>4, ClosedKeeps

LEMMA RestartKeeps ==
    ASSUME PipeInv, Restart
    PROVE  PipeInv'
<1> DEFINE r == [s |-> [pipe |-> <<>>, state |-> "Initial", shaken |-> FALSE, idle |-> FALSE,
                        closes |-> 0, asked |-> {}],
                 c |-> NoCall]
           q == queue[auth]
           a == FillWritePipeline(r, q)
<1>1. /\ r \in Rec /\ r.c = NoCall /\ r.s.pipe = <<>> /\ r.s.closes = 0
      /\ StreamOk(r) /\ AskedOk(r)
  <2>1. r \in Rec
    BY NoCallFacts DEF Rec, Store, StreamStates
  <2>2. StreamOk(r)
    BY NoCallFacts DEF StreamOk
  <2>3. AskedOk(r)
    BY DEF AskedOk
  <2> QED BY <2>1, <2>2, <2>3
<1>2. Becomes(a) /\ user' = auth /\ tasks' = <<>>
  BY DEF Restart
<1> HIDE DEF r
<1>3. /\ Sorted(q) /\ changes \in Nat /\ 0 \in 0 .. Room(q) /\ r.s.pipe = SubSeq(q, 1, 0)
  <2>1. Sorted(q) /\ changes \in Nat /\ q \in Seq(Nat)
    BY InvFacts DEF Sorted
  <2>2. SubSeq(q, 1, 0) = <<>>
    BY <2>1, SubSeqEmpty
  <2> QED BY <1>1, <2>1, <2>2, RoomFacts
<1>4. /\ a \in Rec /\ StreamOk(a) /\ AskedOk(a) /\ a.c = NoCall
      /\ a.s.pipe = SubSeq(q, 1, Room(q))
  BY <1>1, <1>3, FillClosed
<1>5. /\ UNCHANGED <<owner, queue, applied, acked, refused, auth, changes>>
      /\ faults' \in Nat
  BY InvFacts DEF Restart, Fault, serverVars, appVars, authVars
<1>6. QueuesOk'
  BY <1>5 DEF PipeInv, QueuesOk, Owns
<1>7. AllOutdated(tasks', a) /\ UsersOk(tasks', user') /\ tasks' \in Seq(Task)
  BY <1>2, EmptySeq DEF AllOutdated, UsersOk
<1> HIDE DEF a, q
<1>8. a.s.pipe = SubSeq(queue'[user'], 1, Room(queue'[user']))
  BY <1>2, <1>4, <1>5 DEF q
<1>9. /\ acked' \subseteq Nat /\ refused' \subseteq Nat /\ user' \in User
      /\ queue' \in [User -> Seq(Nat)]
  BY <1>2, <1>5, InvFacts
<1> QED BY <1>2, <1>4, <1>5, <1>6, <1>7, <1>8, <1>9, ClosingSteps

LEMMA RunUserKeeps ==
    ASSUME PipeInv, RunUser
    PROVE  PipeInv'
<1> DEFINE u == Head(tasks).user
           q == queue[u]
           r == [Stop(Now) EXCEPT !.s.pipe = <<>>]
           a == FillWritePipeline(r, q)
<1>1. /\ Becomes(a) /\ user' = u /\ tasks' = Tail(tasks) /\ tasks # <<>> /\ Head(tasks).kind = "user"
      /\ UNCHANGED <<owner, queue, applied, acked, refused, auth, changes, faults>>
  BY DEF RunUser, Run, serverVars, appVars, authVars
<1>2. u \in User
  BY <1>1, InvFacts, TaskFacts DEF Task
<1>3. /\ Stop(Now) \in Rec /\ StreamOk(Stop(Now)) /\ AskedOk(Stop(Now)) /\ Stop(Now).c = NoCall
      /\ AllOutdated(tasks, Stop(Now))
  BY StopFacts
<1>4. /\ r \in Rec /\ r.c = NoCall /\ r.s.pipe = <<>> /\ r.s.state = Stop(Now).s.state
      /\ r.s.closes = Stop(Now).s.closes /\ r.s.asked = Stop(Now).s.asked
      /\ r.s.idle = Stop(Now).s.idle /\ r.s.shaken = Stop(Now).s.shaken
  BY <1>3, EmptySeq, WithPipe
<1> HIDE DEF r
<1>5. StreamOk(r) /\ AskedOk(r) /\ AllOutdated(tasks, r)
  BY <1>3, <1>4, NoCallFacts DEF StreamOk, AskedOk, AllOutdated
<1>6. /\ Sorted(q) /\ changes \in Nat /\ 0 \in 0 .. Room(q) /\ r.s.pipe = SubSeq(q, 1, 0)
  <2>1. Sorted(q) /\ changes \in Nat /\ q \in Seq(Nat)
    BY <1>2, InvFacts DEF Sorted
  <2>2. SubSeq(q, 1, 0) = <<>>
    BY <2>1, SubSeqEmpty
  <2> QED BY <1>4, <2>1, <2>2, RoomFacts
<1>7. /\ a \in Rec /\ StreamOk(a) /\ AskedOk(a) /\ a.c = NoCall
      /\ a.s.pipe = SubSeq(q, 1, Room(q)) /\ a.s.closes = r.s.closes
  BY <1>4, <1>5, <1>6, FillClosed
<1> HIDE DEF a, q, u
<1>8. AllOutdated(Tail(tasks), a)
  <2>1. AllOutdated(tasks, a)
    BY <1>5, <1>7 DEF AllOutdated
  <2> QED BY <1>1, <2>1, InvFacts, TailOutdated
<1>9. UsersOk(Tail(tasks), u) /\ Tail(tasks) \in Seq(Task)
  <2>1. UsersOk(tasks, user) /\ tasks \in Seq(Task)
    BY InvFacts DEF PipeInv
  <2>2. UsersOk(Tail(tasks), IF Head(tasks).kind = "user" THEN Head(tasks).user ELSE user)
    BY <1>1, <2>1, UsersTail
  <2> QED BY <1>1, <2>1, <2>2, TaskFacts DEF u
<1>10. QueuesOk'
  BY <1>1 DEF PipeInv, QueuesOk, Owns
<1>11. a.s.pipe = SubSeq(queue'[user'], 1, Room(queue'[user']))
  BY <1>1, <1>7 DEF q
<1>12. /\ acked' \subseteq Nat /\ refused' \subseteq Nat /\ user' \in User
       /\ queue' \in [User -> Seq(Nat)] /\ faults' \in Nat
  BY <1>1, <1>2, InvFacts
<1> QED BY <1>1, <1>7, <1>8, <1>9, <1>10, <1>11, <1>12, ClosingSteps

(* A task that is not a change of the user is taken from the worker queue. *)
LEMMA TaskTaken ==
    ASSUME PipeInv, tasks # <<>>, Head(tasks).kind # "user", tasks' = Tail(tasks)
    PROVE  /\ tasks' \in Seq(Task) /\ UsersOk(tasks', user) /\ TasksOk(tasks', Now, user)
           /\ Head(tasks) = tasks[1] /\ Head(tasks) \in Task /\ 1 \in DOMAIN tasks
           /\ \A a : AllOutdated(tasks, a) => AllOutdated(tasks', a)
<1>1. UsersOk(tasks, user) /\ TasksOk(tasks, Now, user) /\ tasks \in Seq(Task)
  BY InvFacts DEF PipeInv
<1>2. UsersOk(Tail(tasks), IF Head(tasks).kind = "user" THEN Head(tasks).user ELSE user)
  BY <1>1, UsersTail
<1>3. TasksOk(Tail(tasks), Now, user)
  BY <1>1, TasksTail
<1> QED BY <1>1, <1>2, <1>3, TaskFacts, TailOutdated

LEMMA RunFinishedKeeps ==
    ASSUME PipeInv, RunFinished
    PROVE  PipeInv'
<1> DEFINE blamed == Head(tasks).end = "permanent" /\ store.shaken /\ store.pipe # <<>>
           q == queue[user]
<1>1. /\ tasks # <<>> /\ Head(tasks).kind = "finished" /\ tasks' = Tail(tasks)
      /\ UNCHANGED <<owner, applied, acked, auth, changes, user, faults>>
  BY DEF RunFinished, Run, serverVars, authVars
<1>2. /\ tasks' \in Seq(Task) /\ UsersOk(tasks', user)
      /\ \A a : AllOutdated(tasks, a) => AllOutdated(tasks', a)
  BY <1>1, TaskTaken
<1>3. CASE blamed
  <2> DEFINE b == Close(Now, "Initial")
             d == Dropped(b)
             a == FillWritePipeline(d, Tail(q))
  <2>1. /\ refused' = refused \union {Head(store.pipe)}
        /\ queue' = [queue EXCEPT ![user] = Tail(@)]
        /\ Becomes(FillWritePipeline(d, queue'[user]))
    BY <1>3 DEF RunFinished
  <2>2. /\ Now \in Rec /\ Now.s = store /\ AskedOk(Now) /\ changes \in Nat /\ Sorted(q)
        /\ store.pipe = SubSeq(q, 1, Room(q)) /\ store.pipe # <<>>
    BY <1>3, InvFacts DEF PipeInv
  <2>3. /\ q # <<>> /\ Sorted(Tail(q)) /\ Head(q) \in Nat /\ Head(store.pipe) = Head(q)
        /\ store.pipe \in Seq(Nat) /\ Tail(store.pipe) \in Seq(Nat)
        /\ Tail(store.pipe) = SubSeq(Tail(q), 1, Room(q) - 1)
        /\ Room(q) - 1 \in 0 .. Room(Tail(q))
    BY <2>2, DropFacts, HeadTailProperties
  <2>4. queue' \in [User -> Seq(Nat)] /\ QueuesOk' /\ queue'[user] = Tail(q)
    BY <1>1, <2>1, <2>3, QueuesTail
  <2>5. /\ b \in Rec /\ StreamOk(b) /\ AskedOk(b)
        /\ b.s.pipe = store.pipe /\ b.s.closes = store.closes + 1 /\ b.c = NoCall
    BY <2>2, CloseFacts
  <2>6. d = [b EXCEPT !.s.pipe = Tail(store.pipe)]
    BY <2>5 DEF Dropped
  <2> HIDE DEF b, d
  <2>7. /\ d \in Rec /\ d.c = NoCall /\ d.s.pipe = Tail(store.pipe) /\ d.s.state = b.s.state
        /\ d.s.closes = store.closes + 1 /\ d.s.asked = b.s.asked
        /\ d.s.idle = b.s.idle /\ d.s.shaken = b.s.shaken
    BY <2>3, <2>5, <2>6, WithPipe
  <2>8. StreamOk(d) /\ AskedOk(d)
    BY <2>5, <2>7, NoCallFacts DEF StreamOk, AskedOk
  <2>9. /\ a \in Rec /\ StreamOk(a) /\ AskedOk(a) /\ a.c = NoCall
        /\ a.s.pipe = SubSeq(Tail(q), 1, Room(Tail(q))) /\ a.s.closes = d.s.closes
    BY <2>2, <2>3, <2>7, <2>8, FillClosed
  <2>10. Becomes(a)
    BY <2>1, <2>4
  <2> HIDE DEF a, q
  <2>11. AllOutdated(tasks', a)
    BY <1>2, <2>7, <2>9, ClosingOutdates
  <2>12. /\ acked' \subseteq Nat /\ refused' \subseteq Nat /\ user' \in User /\ faults' \in Nat
    BY <1>1, <2>1, <2>3, InvFacts
  <2> QED BY <1>1, <1>2, <2>4, <2>9, <2>10, <2>11, <2>12, ClosingSteps
<1>4. CASE ~blamed
  <2> DEFINE a == CloseAndRetry(Now)
  <2>1. Becomes(a) /\ UNCHANGED <<refused, queue>>
    BY <1>4 DEF RunFinished
  <2>2. /\ a \in Rec /\ StreamOk(a) /\ AskedOk(a) /\ a.c = NoCall
        /\ a.s.pipe = store.pipe /\ AllOutdated(tasks, a)
    BY RetryFacts
  <2> HIDE DEF a
  <2>3. faults' \in Nat
    BY <1>1, InvFacts
  <2> QED BY <1>1, <1>2, <2>1, <2>2, <2>3, ClosedKeeps
<1> QED BY <1>3, <1>4

------------------------------------------------------------------------------
(* The handlers that leave it as it is, or open it. *)

LEMMA StoreIsNow ==
    Becomes(Now) <=> UNCHANGED <<store, call>>
BY DEF Becomes, Now

LEMMA RunCancelledKeeps ==
    ASSUME PipeInv, RunCancelled
    PROVE  PipeInv'
<1>1. /\ tasks # <<>> /\ Head(tasks).kind \in {"read", "wrote", "broken", "finished"}
      /\ tasks' = Tail(tasks) /\ Cancelled(Head(tasks))
      /\ UNCHANGED <<owner, queue, applied, acked, refused, auth, changes, user, faults>>
      /\ Becomes(Now)
  BY StoreIsNow DEF RunCancelled, Run, serverVars, authVars, appVars
<1>2. /\ tasks' \in Seq(Task) /\ UsersOk(tasks', user) /\ TasksOk(tasks', Now, user)
  BY <1>1, TaskTaken
<1>3. /\ Now \in Rec /\ Now.s = store /\ Now.c = call /\ tasks \in Seq(Task) /\ faults \in Nat
      /\ StreamOk(Now) /\ AskedOk(Now) /\ CallOk(Now, user) /\ EndOk(Now)
      /\ TasksOk(tasks, Now, user) /\ AnswersOk(Now, Answers(tasks, Now))
  BY InvFacts DEF PipeInv
<1>4. ~(Head(tasks).kind = "read" /\ Current(Head(tasks), Now) /\ ~call.finished)
  BY <1>1, <1>3 DEF Cancelled, Current
<1>5. Answers(tasks', Now) = Answers(tasks, Now)
  BY <1>1, <1>3, <1>4, TasksTail
<1> QED BY <1>1, <1>2, <1>3, <1>5, StreamSteps

LEMMA HelloFacts ==
    ASSUME NEW u \in User
    PROVE  /\ NewCall(u) \in Call /\ NewCall(u).live /\ NewCall(u).user = u
           /\ ~NewCall(u).finished /\ "finish" \notin NewCall(u).ops
           /\ NewCall(u).back = <<>> /\ NewCall(u).end = "open"
           /\ Outgoing(NewCall(u)) = <<Hello>>
<1> DEFINE c == NewCall(u)
<1>1. NoCall \in Call /\ <<Hello>> \in Seq(Nat)
  BY NoCallFacts DEF Hello
<1>2. c \in Call
  BY <1>1 DEF NewCall, Call, Message
<1>3. /\ c.live /\ c.user = u /\ ~c.finished /\ c.ops = {"read", "write"}
      /\ c.back = <<>> /\ c.end = "open" /\ c.wire = <<Hello>> /\ c.buffer = <<>>
  BY <1>1 DEF NewCall, NoCall
<1>4. <<Hello>> \o <<>> = <<Hello>>
  BY <1>1, ConcatEmptySeq
<1> QED BY <1>2, <1>3, <1>4 DEF Outgoing

LEMMA RunTokenKeeps ==
    ASSUME PipeInv, RunToken
    PROVE  PipeInv'
<1> DEFINE t == Head(tasks)
<1>1. /\ tasks # <<>> /\ t.kind = "token" /\ tasks' = Tail(tasks)
      /\ UNCHANGED <<owner, queue, applied, acked, refused, auth, changes, user, faults>>
  BY DEF RunToken, Run, serverVars, authVars, appVars
<1>2. /\ tasks' \in Seq(Task) /\ UsersOk(tasks', user) /\ TasksOk(tasks', Now, user)
      /\ t = tasks[1] /\ t \in Task /\ 1 \in DOMAIN tasks
      /\ \A a : AllOutdated(tasks, a) => AllOutdated(tasks', a)
  BY <1>1, TaskTaken
<1>3. /\ Now \in Rec /\ Now.s = store /\ Now.c = call /\ tasks \in Seq(Task) /\ faults' \in Nat
      /\ StreamOk(Now) /\ AskedOk(Now) /\ CallOk(Now, user) /\ EndOk(Now)
      /\ TasksOk(tasks, Now, user) /\ AnswersOk(Now, Answers(tasks, Now))
      /\ user \in User /\ store \in Store
  BY <1>1, InvFacts DEF PipeInv, Rec
<1>4. CASE Outdated(t)
  <2>1. Becomes(Now)
    BY <1>4, StoreIsNow DEF RunToken
  <2>2. Answers(tasks', Now) = Answers(tasks, Now)
    BY <1>1, <1>3, TasksTail
  <2> QED BY <1>1, <1>2, <1>3, <2>1, <2>2, StreamSteps
<1>5. CASE ~Outdated(t) /\ t.user = NoToken
  <2> DEFINE a == CloseAndRetry(Now)
  <2>1. Becomes(a)
    BY <1>5 DEF RunToken
  <2>2. /\ a \in Rec /\ StreamOk(a) /\ AskedOk(a) /\ a.c = NoCall
        /\ a.s.pipe = store.pipe /\ AllOutdated(tasks, a)
    BY RetryFacts
  <2> HIDE DEF a
  <2> QED BY <1>1, <1>2, <1>3, <2>1, <2>2, ClosedKeeps
<1>6. CASE ~Outdated(t) /\ t.user # NoToken
  <2> DEFINE s1 == [store EXCEPT !.state = "Open", !.idle = FALSE]
             c1 == NewCall(t.user)
             a == [s |-> s1, c |-> c1]
  <2>1. Becomes(a)
    BY <1>6 DEF RunToken, Becomes
  <2>2. Current(t, Now)
    BY <1>1, <1>3, <1>6 DEF Outdated, Current
  <2>3. /\ store.state = "Starting" /\ \A b \in store.asked : b.closes # store.closes
        /\ \A j \in DOMAIN tasks : tasks[j].kind = "token" /\ Current(tasks[j], Now) => j = 1
        /\ t.user = user
    BY <1>1, <1>2, <1>3, <1>6, <2>2 DEF TasksOk
  <2>4. /\ ~call.live /\ ~store.shaken
    BY <1>3, <2>3, NoCallFacts DEF StreamOk
  <2>5. /\ s1 \in Store /\ s1.state = "Open" /\ ~s1.idle /\ s1.pipe = store.pipe
        /\ ~s1.shaken /\ s1.closes = store.closes /\ s1.asked = store.asked
    BY <1>3, <2>4 DEF Store, StreamStates
  <2>6. /\ c1 \in Call /\ c1.live /\ c1.user = user /\ ~c1.finished /\ "finish" \notin c1.ops
        /\ c1.back = <<>> /\ c1.end = "open" /\ Outgoing(c1) = <<Hello>>
    BY <1>3, <2>3, HelloFacts
  <2> HIDE DEF s1, c1
  <2>7. a \in Rec /\ a.s = s1 /\ a.c = c1
    BY <2>5, <2>6 DEF Rec
  <2> HIDE DEF a
  <2>8. \A i \in DOMAIN tasks : Current(tasks[i], Now) => i = 1
    BY <1>3, <2>3, <2>4 DEF TasksOk
  <2>9. \A i \in DOMAIN tasks' : ~Current(tasks'[i], a)
    <3>1. \A i \in DOMAIN Tail(tasks) : i + 1 \in DOMAIN tasks /\ Tail(tasks)[i] = tasks[i + 1]
          /\ i + 1 # 1
      BY <1>1, <1>3, TaskFacts
    <3> QED BY <1>1, <1>3, <2>5, <2>7, <2>8, <3>1 DEF Current
  <2>10. TasksOk(tasks', a, user)
    BY <1>2, <1>3, <2>5, <2>7, <2>9 DEF TasksOk
  <2>11. StreamOk(a) /\ AskedOk(a)
    <3>1. StreamOk(a)
      BY <2>5, <2>6, <2>7 DEF StreamOk
    <3>2. AskedOk(a)
      BY <1>3, <2>3, <2>5, <2>7 DEF AskedOk
    <3> QED BY <3>1, <3>2
  <2>12. CallOk(a, user)
    BY <2>6, <2>7 DEF CallOk, Range
  <2>13. Answers(tasks', a) = <<>>
    <3>1. ReadsIn(tasks', a) = {}
      BY <2>9 DEF ReadsIn
    <3>2. <<>> \o <<>> = <<>>
      BY EmptySeq, ConcatEmptySeq
    <3> QED BY <2>6, <2>7, <3>1, <3>2 DEF Answers
  <2>14. AnswersOk(a, <<>>)
    <3>1. Expected(a) = <<Hello>>
      BY <2>5, <2>7 DEF Expected
    <3>2. <<>> \o <<Hello>> = <<Hello>> /\ IsPrefix(<<>>, <<Hello>>)
      BY ConcatEmptySeq DEF IsPrefix, Hello
    <3> QED BY <2>6, <2>7, <3>1, <3>2 DEF AnswersOk
  <2>15. EndOk(a)
    BY <2>6, <2>7 DEF EndOk
  <2> QED BY <1>1, <1>2, <1>3, <2>1, <2>5, <2>7, <2>10, <2>11, <2>12, <2>13, <2>14, <2>15,
             StreamSteps
<1> QED BY <1>4, <1>5, <1>6

------------------------------------------------------------------------------
(* Answers, and what they are a front of.                                      *)

LEMMA PrefixIs ==
    ASSUME NEW s \in Seq(Nat), NEW t \in Seq(Nat)
    PROVE  IsPrefix(s, t) <=> Len(s) <= Len(t) /\ \A i \in 1 .. Len(s) : s[i] = t[i]
<1>1. Len(s) \in Nat /\ Len(t) \in Nat /\ SubSeq(s, 1, Len(s)) = s
  OBVIOUS
<1>2. ASSUME Len(s) <= Len(t)
      PROVE  s = SubSeq(t, 1, Len(s)) <=> \A i \in 1 .. Len(s) : s[i] = t[i]
  <2> DEFINE v == SubSeq(t, 1, Len(s))
  <2>1. v \in Seq(Nat) /\ Len(v) = Len(s) /\ \A i \in 1 .. Len(s) : v[i] = t[i]
    BY <1>1, <1>2
  <2> HIDE DEF v
  <2>2. (\A i \in 1 .. Len(s) : s[i] = t[i]) => s = v
    BY <2>1, SeqEqual
  <2>3. s = v => \A i \in 1 .. Len(s) : s[i] = t[i]
    BY <2>1
  <2> QED BY <2>2, <2>3 DEF v
<1> QED BY <1>1, <1>2 DEF IsPrefix

LEMMA EmptyPrefix ==
    ASSUME NEW t \in Seq(Nat)
    PROVE  IsPrefix(<<>>, t)
<1>1. \A s \in Seq(Nat) : s = <<>> => Len(s) = 0
  OBVIOUS
<1>2. PICK s \in Seq(Nat) : s = <<>>
  BY EmptySeq
<1>3. Len(s) <= Len(t) /\ \A i \in 1 .. Len(s) : s[i] = t[i]
  BY <1>1, <1>2, LenProperties
<1> QED BY <1>2, <1>3, PrefixIs

LEMMA PrefixGrows ==
    ASSUME NEW s \in Seq(Nat), NEW t \in Seq(Nat), NEW v \in Seq(Nat), IsPrefix(s, t)
    PROVE  IsPrefix(s, t \o v)
<1> DEFINE w == t \o v
<1>1. /\ w \in Seq(Nat) /\ Len(w) = Len(t) + Len(v)
      /\ \A i \in 1 .. Len(t) : w[i] = t[i]
      /\ Len(s) \in Nat /\ Len(t) \in Nat /\ Len(v) \in Nat
  BY ConcatProperties
<1> HIDE DEF w
<1>2. Len(s) <= Len(t) /\ \A i \in 1 .. Len(s) : s[i] = t[i]
  BY PrefixIs
<1>3. Len(s) <= Len(w) /\ \A i \in 1 .. Len(s) : s[i] = w[i]
  BY <1>1, <1>2
<1>4. IsPrefix(s, w)
  BY <1>1, <1>3, PrefixIs
<1> QED BY <1>4 DEF w

LEMMA OneMore ==
    ASSUME NEW m \in Nat, NEW s \in Seq(Nat)
    PROVE  /\ <<m>> \o s \in Seq(Nat) /\ Len(<<m>> \o s) = Len(s) + 1 /\ Len(s) \in Nat
           /\ (<<m>> \o s)[1] = m /\ \A i \in 1 .. Len(s) : (<<m>> \o s)[i + 1] = s[i]
           /\ Head(<<m>> \o s) = m /\ Tail(<<m>> \o s) = s
<1>1. <<m>> \in Seq(Nat) /\ Len(<<m>>) = 1 /\ <<m>>[1] = m
  OBVIOUS
<1>2. /\ <<m>> \o s \in Seq(Nat) /\ Len(<<m>> \o s) = Len(s) + 1 /\ Len(s) \in Nat
      /\ (<<m>> \o s)[1] = m /\ \A i \in 1 .. Len(s) : (<<m>> \o s)[i + 1] = s[i]
  BY <1>1
<1>3. Head(<<m>> \o s) = m /\ Tail(<<m>> \o s) = s
  <2> DEFINE v == <<m>> \o s
  <2>1. v # <<>>
    BY <1>2, EmptySeq
  <2> HIDE DEF v
  <2>2. v \in Seq(Nat) /\ Len(v) = Len(s) + 1 /\ v[1] = m /\ \A i \in 1 .. Len(s) : v[i + 1] = s[i]
    BY <1>2 DEF v
  <2>3. Head(v) = m /\ Tail(v) \in Seq(Nat) /\ Len(Tail(v)) = Len(s)
        /\ \A i \in 1 .. Len(s) : Tail(v)[i] = v[i + 1]
    BY <1>2, <2>1, <2>2, HeadTailProperties
  <2>4. Tail(v) = s
    BY <2>2, <2>3, SeqEqual
  <2> QED BY <2>3, <2>4 DEF v
<1> QED BY <1>2, <1>3

(* The first answer is to the first message that was expected. *)
LEMMA PrefixTail ==
    ASSUME NEW m \in Nat, NEW s \in Seq(Nat), NEW t \in Seq(Nat), IsPrefix(<<m>> \o s, t)
    PROVE  t # <<>> /\ Head(t) = m /\ Tail(t) \in Seq(Nat) /\ IsPrefix(s, Tail(t))
<1> DEFINE v == <<m>> \o s
<1>1. /\ v \in Seq(Nat) /\ Len(v) = Len(s) + 1 /\ Len(s) \in Nat
      /\ v[1] = m /\ \A i \in 1 .. Len(s) : v[i + 1] = s[i]
  BY OneMore
<1> HIDE DEF v
<1>2. Len(v) <= Len(t) /\ \A i \in 1 .. Len(v) : v[i] = t[i]
  BY <1>1, PrefixIs DEF v
<1>3. Len(t) \in Nat /\ t # <<>>
  BY <1>1, <1>2, LenProperties, EmptySeq
<1>4. /\ Tail(t) \in Seq(Nat) /\ Len(Tail(t)) = Len(t) - 1 /\ Head(t) = t[1]
      /\ \A i \in 1 .. Len(t) - 1 : Tail(t)[i] = t[i + 1]
  BY <1>3, HeadTailProperties
<1>5. \A i \in 1 .. Len(s) : i + 1 \in 1 .. Len(v) /\ i \in 1 .. Len(t) - 1
  BY <1>1, <1>2, <1>3
<1>6. Len(s) <= Len(Tail(t)) /\ \A i \in 1 .. Len(s) : s[i] = Tail(t)[i]
  BY <1>1, <1>2, <1>3, <1>4, <1>5
<1>7. IsPrefix(s, Tail(t))
  BY <1>4, <1>6, PrefixIs
<1>8. Head(t) = m
  BY <1>1, <1>2, <1>3, <1>4
<1> QED BY <1>3, <1>4, <1>7, <1>8

LEMMA AnswersTyped ==
    ASSUME NEW ts \in Seq(Task), NEW r \in Rec
    PROVE  /\ r.c.back \in Seq(Nat) /\ Outgoing(r.c) \in Seq(Nat)
           /\ r.s.pipe \in Seq(Nat) /\ Expected(r) \in Seq(Nat)
           /\ \A i \in ReadsIn(ts, r) : ts[i].msg \in Nat
           /\ Answers(ts, r) \in Seq(Nat)
           /\ ReadsIn(ts, r) = {} => Answers(ts, r) = r.c.back
<1>1. /\ r.c.back \in Seq(Nat) /\ r.c.wire \in Seq(Nat) /\ r.c.buffer \in Seq(Nat)
      /\ r.s.pipe \in Seq(Nat) /\ <<Hello>> \in Seq(Nat)
  BY DEF Rec, Call, Message, Store, Hello
<1>2. Outgoing(r.c) \in Seq(Nat)
  BY <1>1, ConcatProperties DEF Outgoing
<1>3. ASSUME NEW i \in ReadsIn(ts, r) PROVE ts[i].msg \in Nat
  <2>1. ts[i] \in Task /\ ts[i].kind = "read"
    BY ElementOfSeq, LenProperties DEF ReadsIn
  <2> QED BY <2>1 DEF Task, Message
<1>4. <<>> \o r.c.back = r.c.back
  BY <1>1, ConcatEmptySeq
<1>5. ReadsIn(ts, r) = {} => Answers(ts, r) = r.c.back
  BY <1>4 DEF Answers
<1>6. ASSUME ReadsIn(ts, r) # {} PROVE Answers(ts, r) \in Seq(Nat)
  <2>1. ts[CHOOSE i \in ReadsIn(ts, r) : TRUE].msg \in Nat
    BY <1>3, <1>6
  <2> DEFINE m == ts[CHOOSE i \in ReadsIn(ts, r) : TRUE].msg
  <2>2. Answers(ts, r) = <<m>> \o r.c.back
    BY <1>6 DEF Answers
  <2> HIDE DEF m
  <2>3. m \in Nat
    BY <2>1 DEF m
  <2> QED BY <1>1, <2>2, <2>3, OneMore
<1> QED BY <1>1, <1>2, <1>3, <1>5, <1>6 DEF Expected

LEMMA AnswersSame ==
    ASSUME NEW ts, NEW a, NEW r, a.s.closes = r.s.closes, a.c.finished = r.c.finished,
           a.c.back = r.c.back
    PROVE  Answers(ts, a) = Answers(ts, r) /\ ReadsIn(ts, a) = ReadsIn(ts, r)
<1>1. ReadsIn(ts, a) = ReadsIn(ts, r)
  BY DEF ReadsIn, Current
<1> QED BY <1>1 DEF Answers

(* The answers still to be read are true whatever became of the call. *)
LEMMA BackTrue ==
    ASSUME NEW ts \in Seq(Task), NEW r \in Rec, AnswersOk(r, Answers(ts, r))
    PROVE  \A i \in DOMAIN r.c.back : r.c.back[i] = Hello \/ r.c.back[i] \in applied
<1>1. CASE ReadsIn(ts, r) = {}
  BY <1>1, AnswersTyped DEF AnswersOk
<1>2. CASE ReadsIn(ts, r) # {}
  <2> DEFINE m == ts[CHOOSE i \in ReadsIn(ts, r) : TRUE].msg
  <2>1. Answers(ts, r) = <<m>> \o r.c.back
    BY <1>2 DEF Answers
  <2>2. m \in Nat
    BY <1>2, AnswersTyped
  <2> HIDE DEF m
  <2>3. /\ \A i \in 1 .. Len(r.c.back) : (<<m>> \o r.c.back)[i + 1] = r.c.back[i]
        /\ Len(<<m>> \o r.c.back) = Len(r.c.back) + 1 /\ Len(r.c.back) \in Nat
        /\ <<m>> \o r.c.back \in Seq(Nat) /\ r.c.back \in Seq(Nat)
    BY <2>2, AnswersTyped, OneMore
  <2>4. /\ DOMAIN r.c.back = 1 .. Len(r.c.back)
        /\ DOMAIN (<<m>> \o r.c.back) = 1 .. Len(r.c.back) + 1
    BY <2>3, LenProperties
  <2>5. \A i \in 1 .. Len(r.c.back) : i + 1 \in 1 .. Len(r.c.back) + 1
    BY <2>3
  <2> QED BY <2>1, <2>3, <2>4, <2>5 DEF AnswersOk
<1> QED BY <1>1, <1>2

------------------------------------------------------------------------------
(* The call and its completions. *)

WithCall(c) == [s |-> store, c |-> c]

(* Something happens to a live call. *)
LEMMA CallSteps ==
    ASSUME PipeInv, call.live, NEW c \in Call, store' = store, call' = c,
           UNCHANGED <<owner, queue, applied, acked, refused, auth, changes, user>>,
           c.live, c.user = call.user, Outgoing(c) = Outgoing(call),
           c.finished => "read" \notin c.ops /\ c.end # "open",
           "finish" \in c.ops => c.finished,
           c.end = "permanent" => call.end = "permanent",
           faults' \in Nat, tasks' \in Seq(Task), UsersOk(tasks', user),
           TasksOk(tasks', WithCall(c), user),
           AnswersOk(WithCall(c), Answers(tasks', WithCall(c)))
    PROVE  PipeInv'
<1> DEFINE a == WithCall(c)
<1>1. /\ Now.s = store /\ Now.c = call /\ store \in Store
      /\ StreamOk(Now) /\ AskedOk(Now) /\ CallOk(Now, user) /\ EndOk(Now)
  BY InvFacts DEF PipeInv, Rec
<1>2. a \in Rec /\ a.s = store /\ a.c = c /\ Becomes(a)
  BY <1>1 DEF WithCall, Rec, Becomes
<1> HIDE DEF a
<1>3. StreamOk(a) /\ AskedOk(a) /\ CallOk(a, user) /\ EndOk(a)
  <2>1. StreamOk(a)
    BY <1>1, <1>2 DEF StreamOk
  <2>2. AskedOk(a)
    BY <1>1, <1>2 DEF AskedOk
  <2>3. CallOk(a, user)
    BY <1>1, <1>2 DEF CallOk
  <2>4. EndOk(a)
    BY <1>1, <1>2 DEF EndOk
  <2> QED BY <2>1, <2>2, <2>3, <2>4
<1> QED BY <1>2, <1>3, StreamSteps DEF a

(* The tasks that are left, and those there were, of a call that goes on. *)
LEMMA CallTasks ==
    ASSUME PipeInv, NEW c \in Call, c.live, c.end = call.end \/ call.end = "open",
           NEW ts \in Seq(Task), TasksOk(ts, Now, user),
           ~c.finished /\ "read" \in c.ops => "read" \in call.ops \/ ReadsIn(ts, Now) = {},
           call.finished => c.finished
    PROVE  TasksOk(ts, WithCall(c), user)
<1>1. /\ Now.s = store /\ Now.c = call /\ (call.finished => call.end # "open")
      /\ WithCall(c).s = store /\ WithCall(c).c = c
  BY InvFacts DEF WithCall
<1>2. GoesOn(WithCall(c), Now)
  BY <1>1 DEF GoesOn
<1> QED BY <1>1, <1>2, TasksKept

LEMMA RunWroteKeeps ==
    ASSUME PipeInv, RunWrote
    PROVE  PipeInv'
<1> DEFINE d == [call EXCEPT !.busy = FALSE]
           c == TryStartWrite(d)
<1>1. /\ tasks # <<>> /\ Head(tasks).kind = "wrote" /\ tasks' = Tail(tasks)
      /\ ~Cancelled(Head(tasks)) /\ store' = store /\ call' = c
      /\ UNCHANGED <<owner, queue, applied, acked, refused, auth, changes, user, faults>>
  BY DEF RunWrote, Run, serverVars, authVars, appVars
<1>2. /\ tasks' \in Seq(Task) /\ UsersOk(tasks', user) /\ TasksOk(tasks', Now, user)
      /\ Head(tasks) = tasks[1] /\ 1 \in DOMAIN tasks
  BY <1>1, TaskTaken
<1>3. /\ Now \in Rec /\ Now.s = store /\ Now.c = call /\ call \in Call
      /\ tasks \in Seq(Task) /\ faults' \in Nat
      /\ StreamOk(Now) /\ TasksOk(tasks, Now, user) /\ AnswersOk(Now, Answers(tasks, Now))
  BY <1>1, InvFacts DEF PipeInv, Rec
<1>4. call.live
  BY <1>1, <1>2, <1>3 DEF TasksOk, Cancelled, Current
<1>5. /\ d \in Call /\ d.live = call.live /\ d.user = call.user /\ d.finished = call.finished
      /\ d.ops = call.ops /\ d.end = call.end /\ d.back = call.back
      /\ d.wire = call.wire /\ d.buffer = call.buffer
  BY <1>3 DEF Call
<1> HIDE DEF d
<1>6. /\ c \in Call /\ c.live = call.live /\ c.user = call.user
      /\ c.finished = call.finished /\ c.end = call.end /\ c.back = call.back
      /\ ("read" \in c.ops <=> "read" \in call.ops)
      /\ ("finish" \in c.ops <=> "finish" \in call.ops)
      /\ Outgoing(c) = Outgoing(call)
  <2>1. Outgoing(d) = Outgoing(call)
    BY <1>5 DEF Outgoing
  <2>2. /\ c \in Call /\ c.live = d.live /\ c.user = d.user
        /\ c.finished = d.finished /\ c.end = d.end /\ c.back = d.back
        /\ ("read" \in c.ops <=> "read" \in d.ops)
        /\ ("finish" \in c.ops <=> "finish" \in d.ops)
        /\ Outgoing(c) = Outgoing(d)
    BY <1>5, TryStartWriteFacts
  <2> HIDE DEF c
  <2> QED BY <1>5, <2>1, <2>2
<1> HIDE DEF c
<1>7. TasksOk(tasks', WithCall(c), user)
  BY <1>2, <1>4, <1>6, CallTasks
<1>8. Answers(tasks', WithCall(c)) = Answers(tasks, Now)
  <2>1. Answers(tasks', Now) = Answers(tasks, Now)
    BY <1>1, <1>3, TasksTail
  <2> QED BY <1>3, <1>6, <2>1, AnswersSame DEF WithCall
<1>9. AnswersOk(WithCall(c), Answers(tasks', WithCall(c)))
  BY <1>3, <1>6, <1>8 DEF AnswersOk, WithCall, Expected
<1>10. /\ c.finished => "read" \notin c.ops /\ c.end # "open"
       /\ "finish" \in c.ops => c.finished
  BY <1>3, <1>6 DEF StreamOk
<1> QED BY <1>1, <1>2, <1>3, <1>4, <1>6, <1>7, <1>9, <1>10, CallSteps

LEMMA RunBrokenKeeps ==
    ASSUME PipeInv, RunBroken
    PROVE  PipeInv'
<1> DEFINE c == [call EXCEPT !.finished = TRUE, !.ops = {"finish"}]
<1>1. /\ tasks # <<>> /\ Head(tasks).kind = "broken" /\ tasks' = Tail(tasks)
      /\ ~Cancelled(Head(tasks)) /\ store' = store /\ call' = c
      /\ UNCHANGED <<owner, queue, applied, acked, refused, auth, changes, user, faults>>
  BY DEF RunBroken, Run, serverVars, authVars, appVars
<1>2. /\ tasks' \in Seq(Task) /\ UsersOk(tasks', user) /\ TasksOk(tasks', Now, user)
      /\ Head(tasks) = tasks[1] /\ 1 \in DOMAIN tasks
  BY <1>1, TaskTaken
<1>3. /\ Now \in Rec /\ Now.s = store /\ Now.c = call /\ call \in Call
      /\ tasks \in Seq(Task) /\ faults' \in Nat
      /\ TasksOk(tasks, Now, user) /\ AnswersOk(Now, Answers(tasks, Now))
  BY <1>1, InvFacts DEF PipeInv, Rec
<1>4. call.live /\ call.end # "open"
  BY <1>1, <1>2, <1>3 DEF TasksOk, Cancelled, Current
<1>5. /\ c \in Call /\ c.live = call.live /\ c.user = call.user /\ c.finished
      /\ c.ops = {"finish"} /\ c.end = call.end /\ c.back = call.back
      /\ c.wire = call.wire /\ c.buffer = call.buffer
  BY <1>3 DEF Call
<1> HIDE DEF c
<1>6. Outgoing(c) = Outgoing(call)
  BY <1>5 DEF Outgoing
<1>7. TasksOk(tasks', WithCall(c), user)
  BY <1>2, <1>4, <1>5, CallTasks
<1>8. Answers(tasks', WithCall(c)) = c.back
  <2>1. ReadsIn(tasks', WithCall(c)) = {}
    BY <1>5 DEF ReadsIn, WithCall
  <2>2. WithCall(c) \in Rec /\ WithCall(c).c = c
    BY <1>3, <1>5 DEF Rec, WithCall
  <2> QED BY <1>2, <2>1, <2>2, AnswersTyped
<1>9. AnswersOk(WithCall(c), Answers(tasks', WithCall(c)))
  <2>1. \A i \in DOMAIN call.back : call.back[i] = Hello \/ call.back[i] \in applied
    BY <1>3, BackTrue
  <2> QED BY <1>5, <1>8, <2>1 DEF AnswersOk, WithCall
<1> QED BY <1>1, <1>2, <1>3, <1>4, <1>5, <1>6, <1>7, <1>9, CallSteps

(* A completion that is not an answer. *)
LEMMA CompletionSteps ==
    ASSUME PipeInv, NEW op \in call.ops, NEW t \in Task, Posts(op, t),
           t.kind \in {"wrote", "broken", "finished"}, t.closes = store.closes,
           t.kind = "broken" => call.end # "open",
           t.kind = "finished" => call.finished /\ t.end = call.end,
           NEW ops, ops \subseteq call.ops, call' = [call EXCEPT !.ops = ops]
    PROVE  PipeInv'
<1> DEFINE c == [call EXCEPT !.ops = ops]
<1>1. /\ tasks' = Append(tasks, t) /\ store' = store /\ call' = c
      /\ UNCHANGED <<owner, queue, applied, acked, refused, auth, changes, user, faults>>
  BY DEF Posts, serverVars, authVars, appVars
<1>2. /\ Now \in Rec /\ Now.s = store /\ Now.c = call /\ call \in Call /\ store \in Store
      /\ tasks \in Seq(Task) /\ faults' \in Nat /\ StreamOk(Now) /\ UsersOk(tasks, user)
      /\ TasksOk(tasks, Now, user) /\ AnswersOk(Now, Answers(tasks, Now))
  BY <1>1, InvFacts DEF PipeInv, Rec
<1>3. call.live
  BY <1>2, NoCallFacts DEF StreamOk
<1>4. /\ c \in Call /\ c.live = call.live /\ c.user = call.user /\ c.finished = call.finished
      /\ c.ops = ops /\ c.end = call.end /\ c.back = call.back
      /\ c.wire = call.wire /\ c.buffer = call.buffer
  BY <1>2 DEF Call
<1> HIDE DEF c
<1>5. Outgoing(c) = Outgoing(call)
  BY <1>4 DEF Outgoing
<1>6. WithCall(c).s = store /\ WithCall(c).c = c
  BY DEF WithCall
<1>7. TasksOk(tasks, WithCall(c), user)
  BY <1>2, <1>3, <1>4, CallTasks
<1>8. t.closes <= store.closes
  BY <1>2 DEF Store
<1>9. /\ TasksOk(Append(tasks, t), WithCall(c), user)
      /\ Answers(Append(tasks, t), WithCall(c)) = Answers(tasks, WithCall(c))
  <2> DEFINE w == WithCall(c)
  <2>1. /\ w.s = store /\ w.c.live /\ w.c.finished = call.finished /\ w.c.end = call.end
        /\ TasksOk(tasks, w, user)
    BY <1>3, <1>4, <1>6, <1>7
  <2>2. /\ t.kind # "user" /\ t.kind # "read" /\ t.kind # "token"
        /\ t.kind = "broken" => w.c.end # "open"
        /\ t.kind = "finished" => w.c.finished /\ t.end = w.c.end
        /\ t.closes <= w.s.closes
    BY <1>8, <2>1
  <2> HIDE DEF w
  <2> QED BY <1>2, <2>1, <2>2, TasksPosted DEF w
<1>10. Answers(tasks, WithCall(c)) = Answers(tasks, Now)
  BY <1>2, <1>4, <1>6, AnswersSame
<1>11. AnswersOk(WithCall(c), Answers(tasks', WithCall(c)))
  BY <1>1, <1>2, <1>4, <1>5, <1>6, <1>9, <1>10 DEF AnswersOk, Expected
<1>12. tasks' \in Seq(Task) /\ UsersOk(tasks', user)
  BY <1>1, <1>2, AppendProperties, UsersPosted
<1>13. /\ c.finished => "read" \notin c.ops /\ c.end # "open"
       /\ "finish" \in c.ops => c.finished
  BY <1>2, <1>4 DEF StreamOk
<1> QED BY <1>1, <1>2, <1>3, <1>4, <1>5, <1>9, <1>11, <1>12, <1>13, CallSteps

LEMMA CompletesKeeps ==
    ASSUME PipeInv, ReadBroken \/ WriteDone \/ WriteBroken \/ FinishDone
    PROVE  PipeInv'
<1>1. /\ Now.c = call /\ StreamOk(Now) /\ store.closes \in Nat
      /\ call.end \in {"open", "transient", "permanent"}
      /\ call.ops \subseteq {"read", "write", "finish"}
  BY InvFacts DEF PipeInv, Rec, Store, Call
<1>2. CASE ReadBroken
  <2> DEFINE t == Completion("broken")
             ops == call.ops \ {"read"}
  <2>1. /\ t \in Task /\ t.kind = "broken" /\ t.closes = store.closes
    BY <1>1 DEF Completion, Task
  <2>2. /\ Posts("read", t) /\ "read" \in call.ops /\ call.end # "open"
        /\ call' = [call EXCEPT !.ops = ops] /\ ops \subseteq call.ops
    BY <1>2 DEF ReadBroken, Posts
  <2> HIDE DEF t, ops
  <2> QED BY <2>1, <2>2, CompletionSteps
<1>3. CASE WriteDone
  <2> DEFINE t == Completion("wrote")
             ops == call.ops \ {"write"}
  <2>1. /\ t \in Task /\ t.kind = "wrote" /\ t.closes = store.closes
    BY <1>1 DEF Completion, Task
  <2>2. /\ Posts("write", t) /\ "write" \in call.ops
        /\ call' = [call EXCEPT !.ops = ops] /\ ops \subseteq call.ops
    BY <1>3 DEF WriteDone, Posts
  <2> HIDE DEF t, ops
  <2> QED BY <2>1, <2>2, CompletionSteps
<1>4. CASE WriteBroken
  <2> DEFINE t == Completion("broken")
             ops == call.ops \ {"write"}
  <2>1. /\ t \in Task /\ t.kind = "broken" /\ t.closes = store.closes
    BY <1>1 DEF Completion, Task
  <2>2. /\ Posts("write", t) /\ "write" \in call.ops /\ call.end # "open"
        /\ call' = [call EXCEPT !.ops = ops] /\ ops \subseteq call.ops
    BY <1>4 DEF WriteBroken, Posts
  <2> HIDE DEF t, ops
  <2> QED BY <2>1, <2>2, CompletionSteps
<1>5. CASE FinishDone
  <2> DEFINE t == [kind |-> "finished", closes |-> store.closes, end |-> call.end]
             ops == {}
  <2>1. /\ t \in Task /\ t.kind = "finished" /\ t.closes = store.closes /\ t.end = call.end
    BY <1>1 DEF Task
  <2>2. /\ Posts("finish", t) /\ "finish" \in call.ops /\ call.finished
        /\ call' = [call EXCEPT !.ops = ops] /\ ops \subseteq call.ops
    BY <1>1, <1>5 DEF FinishDone, Posts, StreamOk
  <2> HIDE DEF t, ops
  <2> QED BY <2>1, <2>2, CompletionSteps
<1> QED BY <1>2, <1>3, <1>4, <1>5

LEMMA ReadDoneKeeps ==
    ASSUME PipeInv, ReadDone
    PROVE  PipeInv'
<1> DEFINE t == [kind |-> "read", closes |-> store.closes, msg |-> Head(call.back)]
           c == [call EXCEPT !.ops = @ \ {"read"}, !.back = Tail(@)]
           w == WithCall(c)
<1>1. /\ call.back # <<>> /\ "read" \in call.ops
      /\ tasks' = Append(tasks, t) /\ store' = store /\ call' = c
      /\ UNCHANGED <<owner, queue, applied, acked, refused, auth, changes, user, faults>>
  BY DEF ReadDone, Posts, serverVars, authVars, appVars
<1>2. /\ Now \in Rec /\ Now.s = store /\ Now.c = call /\ call \in Call /\ store \in Store
      /\ tasks \in Seq(Task) /\ faults' \in Nat /\ StreamOk(Now) /\ UsersOk(tasks, user)
      /\ TasksOk(tasks, Now, user) /\ AnswersOk(Now, Answers(tasks, Now))
  BY <1>1, InvFacts DEF PipeInv, Rec
<1>3. call.live /\ ~call.finished
  BY <1>1, <1>2, NoCallFacts DEF StreamOk
<1>4. /\ call.back \in Seq(Nat) /\ Head(call.back) \in Nat /\ Tail(call.back) \in Seq(Nat)
      /\ <<Head(call.back)>> \o Tail(call.back) = call.back
  <2>1. call.back \in Seq(Nat)
    BY <1>2 DEF Call, Message
  <2>2. Head(call.back) \in Nat /\ Tail(call.back) \in Seq(Nat)
    BY <1>1, <2>1, HeadTailProperties
  <2> QED BY <1>1, <2>1, <2>2
<1>5. /\ c \in Call /\ c.live = call.live /\ c.user = call.user /\ c.finished = call.finished
      /\ c.ops = call.ops \ {"read"} /\ c.end = call.end /\ c.back = Tail(call.back)
      /\ c.wire = call.wire /\ c.buffer = call.buffer
  <2>1. c \in Call
    BY <1>2, <1>4 DEF Call, Message
  <2> QED BY <1>2, <2>1 DEF Call
<1> HIDE DEF c
<1>6. Outgoing(c) = Outgoing(call)
  BY <1>5 DEF Outgoing
<1>7. w.s = store /\ w.c = c
  BY DEF WithCall
<1>8. TasksOk(tasks, w, user)
  BY <1>2, <1>3, <1>5, CallTasks
<1> HIDE DEF w
<1>9. ReadsIn(tasks, Now) = {} /\ ReadsIn(tasks, w) = {}
  BY <1>1, <1>2, <1>3, <1>5, <1>7 DEF TasksOk, ReadsIn, Current
<1>10. /\ t \in Task /\ t.kind = "read" /\ t.closes = store.closes /\ t.msg = Head(call.back)
       /\ store.closes \in Nat
  BY <1>2, <1>4 DEF Task, Message, Store
<1> HIDE DEF t
<1>11. Current(t, w) /\ t.closes <= w.s.closes
  BY <1>7, <1>10 DEF Current
<1>12. /\ TasksOk(Append(tasks, t), w, user)
       /\ Answers(Append(tasks, t), w) = call.back
  <2>1. /\ t.kind = "read" /\ ~w.c.finished => "read" \notin w.c.ops /\ ReadsIn(tasks, w) = {}
        /\ w.c.live
    BY <1>3, <1>5, <1>7, <1>9
  <2>2. /\ TasksOk(Append(tasks, t), w, user)
        /\ t.kind = "read" /\ Current(t, w) /\ ~w.c.finished =>
              Answers(Append(tasks, t), w) = <<t.msg>> \o w.c.back
    BY <1>2, <1>8, <1>10, <1>11, <2>1, TasksPosted
  <2> QED BY <1>3, <1>4, <1>5, <1>7, <1>10, <1>11, <2>2
<1>13. Answers(tasks, Now) = call.back
  BY <1>2, <1>9, AnswersTyped
<1>14. AnswersOk(w, Answers(tasks', w))
  BY <1>1, <1>2, <1>3, <1>5, <1>6, <1>7, <1>12, <1>13 DEF AnswersOk, Expected
<1>15. tasks' \in Seq(Task) /\ UsersOk(tasks', user)
  BY <1>1, <1>2, <1>10, AppendProperties, UsersPosted
<1>16. /\ ~c.finished /\ "finish" \in c.ops => c.finished
  BY <1>2, <1>3, <1>5 DEF StreamOk
<1> QED BY <1>1, <1>2, <1>3, <1>5, <1>6, <1>12, <1>14, <1>15, <1>16, CallSteps DEF w

LEMMA CallBreaksKeeps ==
    ASSUME PipeInv, CallBreaks
    PROVE  PipeInv'
<1>1. PICK n \in 0 .. Len(call.back) :
        call' = [call EXCEPT !.end = "transient", !.back = SubSeq(@, 1, n)]
  BY DEF CallBreaks
<1> DEFINE front == SubSeq(call.back, 1, n)
           c == [call EXCEPT !.end = "transient", !.back = front]
           w == WithCall(c)
<1>2. /\ call.live /\ call.end = "open" /\ call' = c /\ store' = store /\ tasks' = tasks
      /\ UNCHANGED <<owner, queue, applied, acked, refused, auth, changes, user>>
      /\ faults' = faults + 1
  BY <1>1 DEF CallBreaks, Fault, serverVars, authVars, appVars
<1>3. /\ Now \in Rec /\ Now.s = store /\ Now.c = call /\ call \in Call /\ store \in Store
      /\ tasks \in Seq(Task) /\ faults' \in Nat /\ StreamOk(Now) /\ UsersOk(tasks, user)
      /\ TasksOk(tasks, Now, user) /\ AnswersOk(Now, Answers(tasks, Now))
  BY <1>2, InvFacts DEF PipeInv, Rec
<1>4. /\ call.back \in Seq(Nat) /\ front \in Seq(Nat) /\ Len(front) = n
      /\ n \in Nat /\ n <= Len(call.back) /\ \A i \in 1 .. n : front[i] = call.back[i]
  <2>1. call.back \in Seq(Nat) /\ Len(call.back) \in Nat
    BY <1>3 DEF Call, Message
  <2>2. n \in Nat /\ n <= Len(call.back)
    BY <2>1
  <2> QED BY <2>1, <2>2
<1> HIDE DEF front
<1>5. /\ c \in Call /\ c.live = call.live /\ c.user = call.user /\ c.finished = call.finished
      /\ c.ops = call.ops /\ c.end = "transient" /\ c.back = front
      /\ c.wire = call.wire /\ c.buffer = call.buffer
  BY <1>3, <1>4 DEF Call, Message
<1> HIDE DEF c
<1>6. Outgoing(c) = Outgoing(call)
  BY <1>5 DEF Outgoing
<1>7. w.s = store /\ w.c = c
  BY DEF WithCall
<1>8. TasksOk(tasks, w, user)
  BY <1>2, <1>3, <1>5, CallTasks
<1>9. w \in Rec
  BY <1>3, <1>5 DEF WithCall, Rec
<1> HIDE DEF w
<1>10. ReadsIn(tasks, w) = ReadsIn(tasks, Now)
  BY <1>3, <1>5, <1>7 DEF ReadsIn, Current
<1> DEFINE old == Answers(tasks, Now)
           new == Answers(tasks, w)
<1>11. /\ old \in Seq(Nat) /\ new \in Seq(Nat) /\ Len(new) <= Len(old)
       /\ \A i \in 1 .. Len(new) : new[i] = old[i]
  <2>1. CASE ReadsIn(tasks, Now) = {}
    <3>1. old = call.back /\ new = front
      BY <1>3, <1>5, <1>7, <1>9, <1>10, <2>1, AnswersTyped
    <3> QED BY <1>4, <3>1
  <2>2. CASE ReadsIn(tasks, Now) # {}
    <3> DEFINE m == tasks[CHOOSE i \in ReadsIn(tasks, Now) : TRUE].msg
    <3>1. old = <<m>> \o call.back /\ new = <<m>> \o front
      BY <1>3, <1>5, <1>7, <1>10, <2>2 DEF Answers
    <3>2. m \in Nat
      BY <1>3, <2>2, AnswersTyped
    <3> HIDE DEF m, old, new
    <3>3. /\ old \in Seq(Nat) /\ Len(old) = Len(call.back) + 1 /\ old[1] = m
          /\ \A i \in 1 .. Len(call.back) : old[i + 1] = call.back[i]
          /\ Len(call.back) \in Nat
      <4>1. PICK k \in Nat, t \in Seq(Nat) : k = m /\ t = call.back
        BY <1>4, <3>2
      <4>2. /\ <<k>> \o t \in Seq(Nat) /\ Len(<<k>> \o t) = Len(t) + 1 /\ (<<k>> \o t)[1] = k
            /\ \A i \in 1 .. Len(t) : (<<k>> \o t)[i + 1] = t[i]
            /\ Len(t) \in Nat
        BY OneMore
      <4> QED BY <3>1, <4>1, <4>2
    <3>4. /\ new \in Seq(Nat) /\ Len(new) = n + 1 /\ new[1] = m
          /\ \A i \in 1 .. n : new[i + 1] = front[i]
      BY <1>4, <3>1, <3>2, OneMore
    <3>5. ASSUME NEW i \in 1 .. n + 1 PROVE new[i] = old[i]
      <4>1. CASE i = 1
        BY <3>3, <3>4, <4>1
      <4>2. CASE i # 1
        <5>1. i - 1 \in 1 .. n /\ i - 1 \in 1 .. Len(call.back) /\ i - 1 + 1 = i
          BY <1>4, <3>3, <4>2
        <5>2. new[i - 1 + 1] = front[i - 1] /\ old[i - 1 + 1] = call.back[i - 1]
              /\ front[i - 1] = call.back[i - 1]
          BY <1>4, <3>3, <3>4, <5>1
        <5> QED BY <5>1, <5>2
      <4> QED BY <4>1, <4>2
    <3>6. Len(new) <= Len(old) /\ \A i \in 1 .. Len(new) : new[i] = old[i]
      BY <1>4, <3>3, <3>4, <3>5
    <3> QED BY <3>3, <3>4, <3>6 DEF old, new
  <2> QED BY <2>1, <2>2
<1> HIDE DEF old, new
<1>12. AnswersOk(w, new)
  <2>1. DOMAIN old = 1 .. Len(old) /\ DOMAIN new = 1 .. Len(new) /\ Len(old) \in Nat
        /\ Len(new) \in Nat /\ \A i \in 1 .. Len(new) : i \in 1 .. Len(old)
    BY <1>11, LenProperties
  <2>2. \A i \in DOMAIN new : new[i] = Hello \/ new[i] \in applied
    <3>1. \A i \in DOMAIN old : old[i] = Hello \/ old[i] \in applied
      BY <1>3 DEF AnswersOk, old
    <3> QED BY <1>11, <2>1, <3>1
  <2>3. ASSUME call.live, ~call.finished PROVE IsPrefix(new, Expected(w))
    <3>1. IsPrefix(old, Expected(Now)) /\ Expected(w) = Expected(Now)
      BY <1>3, <1>7, <2>3 DEF AnswersOk, Expected, old
    <3>2. Expected(Now) \in Seq(Nat)
      BY <1>3, AnswersTyped
    <3> DEFINE e == Expected(Now)
    <3> HIDE DEF e
    <3>3. Len(old) <= Len(e) /\ \A i \in 1 .. Len(old) : old[i] = e[i]
      BY <1>11, <3>1, <3>2, PrefixIs DEF e
    <3>4. Len(new) <= Len(e) /\ \A i \in 1 .. Len(new) : new[i] = e[i]
      BY <1>11, <2>1, <3>2, <3>3, LenProperties DEF e
    <3> QED BY <1>11, <3>1, <3>2, <3>4, PrefixIs DEF e
  <2> QED BY <1>5, <1>7, <2>2, <2>3 DEF AnswersOk
<1>13. /\ c.finished => "read" \notin c.ops /\ c.end # "open"
       /\ "finish" \in c.ops => c.finished
  BY <1>3, <1>5 DEF StreamOk
<1> QED BY <1>2, <1>3, <1>5, <1>6, <1>8, <1>12, <1>13, CallSteps DEF w, new

------------------------------------------------------------------------------
(* Credentials. *)

(* A change of the user is posted on the worker queue. *)
LEMMA ChangePosted ==
    ASSUME NEW ts \in Seq(Task), NEW t \in Task, t.kind = "user", NEW r, NEW u, TasksOk(ts, r, u)
    PROVE  TasksOk(Append(ts, t), r, u) /\ Answers(Append(ts, t), r) = Answers(ts, r)
<1> DEFINE more == Append(ts, t)
           last == Len(ts) + 1
<1>1. /\ DOMAIN ts = 1 .. Len(ts) /\ Len(ts) \in Nat
      /\ DOMAIN more = 1 .. Len(ts) + 1
      /\ \A i \in 1 .. Len(ts) : more[i] = ts[i]
      /\ more[last] = t
  BY AppendProperties, LenProperties
<1> HIDE DEF more
<1>2. \A i \in DOMAIN more : (i \in DOMAIN ts /\ more[i] = ts[i]) \/ more[i].kind = "user"
  BY <1>1
<1>3. ASSUME NEW i \in DOMAIN more, Current(more[i], r)
      PROVE  /\ i \in DOMAIN ts /\ more[i] = ts[i] /\ Current(ts[i], r)
             /\ \A j \in 1 .. i - 1 : j \in DOMAIN ts /\ more[j] = ts[j]
  <2>1. i \in DOMAIN ts /\ more[i] = ts[i]
    BY <1>2, <1>3 DEF Current
  <2> QED BY <1>1, <1>3, <2>1
<1>4. TasksOk(more, r, u)
  <2>1. \A i \in DOMAIN more : more[i].kind # "user" => more[i].closes <= r.s.closes
    BY <1>2 DEF TasksOk
  <2>2. ASSUME NEW i \in DOMAIN more, Current(more[i], r)
        PROVE  /\ more[i].kind # "token" => r.c.live
               /\ more[i].kind = "broken" => r.c.end # "open"
               /\ more[i].kind = "finished" => r.c.finished /\ more[i].end = r.c.end
               /\ more[i].kind = "read" /\ ~r.c.finished => "read" \notin r.c.ops
               /\ more[i].kind = "token" =>
                    r.s.state = "Starting" /\ \A a \in r.s.asked : a.closes # r.s.closes
    BY <1>3, <2>2 DEF TasksOk
  <2>3. ASSUME NEW i \in DOMAIN more, Current(more[i], r), more[i].kind = "token",
               \A j \in 1 .. i - 1 : more[j].kind # "user"
        PROVE  more[i].user \in {u, NoToken}
    BY <1>3, <2>3 DEF TasksOk
  <2>4. ASSUME NEW i \in DOMAIN more, Current(more[i], r), more[i].kind = "token",
               NEW j \in DOMAIN more, more[j].kind = "token", Current(more[j], r)
        PROVE  i = j
    <3>1. /\ i \in DOMAIN ts /\ more[i] = ts[i] /\ Current(ts[i], r)
          /\ j \in DOMAIN ts /\ more[j] = ts[j] /\ Current(ts[j], r)
      BY <1>3, <2>4
    <3> QED BY <2>4, <3>1 DEF TasksOk
  <2>5. ASSUME NEW i \in DOMAIN more, Current(more[i], r), more[i].kind = "read", ~r.c.finished,
               NEW j \in DOMAIN more, more[j].kind = "read", Current(more[j], r)
        PROVE  i = j
    <3>1. /\ i \in DOMAIN ts /\ more[i] = ts[i] /\ Current(ts[i], r)
          /\ j \in DOMAIN ts /\ more[j] = ts[j] /\ Current(ts[j], r)
      BY <1>3, <2>5
    <3> QED BY <2>5, <3>1 DEF TasksOk
  <2> QED BY <2>1, <2>2, <2>3, <2>4, <2>5 DEF TasksOk
<1>5. ReadsIn(more, r) = ReadsIn(ts, r)
  BY <1>1, <1>2 DEF ReadsIn
<1>6. Answers(more, r) = Answers(ts, r)
  <2>1. CASE ReadsIn(ts, r) = {}
    BY <1>5, <2>1 DEF Answers
  <2>2. CASE ReadsIn(ts, r) # {}
    <3>1. PICK i \in ReadsIn(ts, r) : TRUE
      BY <2>2
    <3>2. more[i] = ts[i] /\ i \in ReadsIn(more, r)
      BY <1>1, <1>5, <3>1 DEF ReadsIn
    <3>3. Answers(ts, r) = <<ts[i].msg>> \o r.c.back
      BY <3>1, AnswersAre
    <3>4. Answers(more, r) = <<more[i].msg>> \o r.c.back
      BY <1>4, <3>2, AnswersAre
    <3> QED BY <3>2, <3>3, <3>4
  <2> QED BY <2>1, <2>2
<1> QED BY <1>4, <1>6 DEF more

LEMMA CredentialChangeKeeps ==
    ASSUME PipeInv, NEW v \in User, CredentialChange(v)
    PROVE  PipeInv'
<1> DEFINE t == [kind |-> "user", user |-> v]
<1>1. /\ changes' = changes + 1 /\ auth' = v /\ tasks' = Append(tasks, t) /\ Becomes(Now)
      /\ UNCHANGED <<owner, queue, applied, acked, refused, user, faults>>
  BY StoreIsNow DEF CredentialChange, serverVars, appVars
<1>2. /\ Now \in Rec /\ Now.s = store /\ Now.c = call /\ tasks \in Seq(Task)
      /\ StreamOk(Now) /\ AskedOk(Now) /\ CallOk(Now, user) /\ EndOk(Now)
      /\ TasksOk(tasks, Now, user) /\ AnswersOk(Now, Answers(tasks, Now))
      /\ applied \intersect Bad = {} /\ user \in User
      /\ store.pipe = SubSeq(queue[user], 1, Room(queue[user]))
  BY InvFacts DEF PipeInv
<1>3. t \in Task /\ t.kind = "user" /\ t.user = v
  BY DEF Task
<1> HIDE DEF t
<1>4. PICK r \in Rec : r = Now
  BY <1>2
<1>5. PICK u \in User : u = user
  BY <1>2
<1>6. Append(tasks, t) \in Seq(Task)
  BY <1>2, <1>3, AppendProperties
<1>7. PICK ts \in Seq(Task) : ts = Append(tasks, t)
  BY <1>6
<1>8. /\ Len(ts) = Len(tasks) + 1 /\ ts[Len(tasks) + 1] = t
      /\ Len(tasks) \in Nat /\ DOMAIN ts = 1 .. Len(tasks) + 1
  BY <1>2, <1>3, <1>7, AppendProperties, LenProperties
<1>9. TasksOk(ts, r, u) /\ Answers(ts, r) = Answers(tasks, Now)
  BY <1>2, <1>3, <1>4, <1>5, <1>7, ChangePosted
<1>10. UsersOk(ts, u)'
  <2>1. /\ Len(tasks) + 1 \in DOMAIN ts /\ ts[Len(tasks) + 1].kind = "user"
        /\ ts[Len(tasks) + 1].user = auth'
        /\ \A j \in Len(tasks) + 1 + 1 .. Len(ts) : ts[j].kind # "user"
    BY <1>1, <1>3, <1>8
  <2>2. PICK last : last = Len(tasks) + 1
    OBVIOUS
  <2> QED BY <2>1, <2>2 DEF UsersOk
<1>11. PICK un : un = Answers(ts, r)
  OBVIOUS
<1>12. AnswersOk(r, un)' /\ CallOk(r, u)' /\ EndOk(r)'
  BY <1>1, <1>2, <1>4, <1>5, <1>9, <1>11, StillOk
<1>13. QueuesOk'
  BY <1>1 DEF PipeInv, QueuesOk, Owns
<1>14. /\ r.s.pipe = SubSeq(queue'[u], 1, Room(queue'[u])) /\ Becomes(r)
       /\ StreamOk(r) /\ AskedOk(r) /\ u = user' /\ ts = tasks'
  BY <1>1, <1>2, <1>4, <1>5, <1>7
<1>15. /\ owner' \in Seq(User) /\ applied' \subseteq Nat /\ applied' \intersect Bad = {}
       /\ auth' \in User /\ acked' \subseteq Nat /\ refused' \subseteq Nat
       /\ changes' \in Nat /\ faults' \in Nat /\ queue' \in [User -> Seq(Nat)]
  BY <1>1, <1>2, InvFacts
<1> QED BY <1>9, <1>10, <1>11, <1>12, <1>13, <1>14, <1>15, Reached

LEMMA GetTokenAnswerKeeps ==
    ASSUME PipeInv, NEW req \in store.asked, GetTokenAnswer(req)
    PROVE  PipeInv'
<1> DEFINE s1 == [store EXCEPT !.asked = @ \ {req}]
           a == [s |-> s1, c |-> call]
<1>1. /\ Now \in Rec /\ Now.s = store /\ Now.c = call /\ tasks \in Seq(Task)
      /\ store \in Store /\ call \in Call /\ auth \in User /\ faults \in Nat
      /\ StreamOk(Now) /\ AskedOk(Now) /\ CallOk(Now, user) /\ EndOk(Now)
      /\ TasksOk(tasks, Now, user) /\ AnswersOk(Now, Answers(tasks, Now))
      /\ UsersOk(tasks, user)
      /\ (call.finished => call.end # "open")
  BY InvFacts DEF PipeInv, Rec
<1>2. PICK v \in {auth, NoToken} :
        tasks' = Append(tasks, [kind |-> "token", closes |-> req.closes, user |-> v])
  BY DEF GetTokenAnswer
<1> DEFINE t == [kind |-> "token", closes |-> req.closes, user |-> v]
<1>3. /\ tasks' = Append(tasks, t) /\ Becomes(a) /\ faults' \in {faults, faults + 1}
      /\ UNCHANGED <<owner, queue, applied, acked, refused, auth, changes, user>>
  BY <1>2 DEF GetTokenAnswer, Becomes, serverVars, appVars, authVars
<1>4. /\ req.closes \in Nat /\ req.closes <= store.closes
      /\ req.closes = store.closes => store.state = "Starting"
      /\ store.asked \ {req} \in SUBSET [closes : Nat, counter : Nat]
  <2>1. req \in [closes : Nat, counter : Nat]
        /\ store.asked \ {req} \in SUBSET [closes : Nat, counter : Nat]
    BY <1>1 DEF Store
  <2> QED BY <1>1, <2>1 DEF AskedOk
<1>5. t \in Task /\ t.kind = "token" /\ t.closes = req.closes /\ t.user = v
  BY <1>1, <1>2, <1>4 DEF Task
<1> HIDE DEF t
<1>6. /\ s1 \in Store /\ s1.asked = store.asked \ {req} /\ s1.pipe = store.pipe
      /\ s1.state = store.state /\ s1.shaken = store.shaken /\ s1.idle = store.idle
      /\ s1.closes = store.closes
  BY <1>1, <1>4 DEF Store
<1> HIDE DEF s1
<1>7. a \in Rec /\ a.s = s1 /\ a.c = call
  BY <1>1, <1>6 DEF Rec
<1> HIDE DEF a
<1>8. StreamOk(a) /\ AskedOk(a) /\ CallOk(a, user) /\ EndOk(a)
  <2>1. StreamOk(a)
    BY <1>1, <1>6, <1>7 DEF StreamOk
  <2>2. AskedOk(a)
    BY <1>1, <1>6, <1>7 DEF AskedOk
  <2>3. CallOk(a, user) /\ EndOk(a)
    BY <1>1, <1>6, <1>7 DEF CallOk, EndOk
  <2> QED BY <2>1, <2>2, <2>3
<1>9. TasksOk(tasks, a, user)
  <2>1. GoesOn(a, Now)
    BY <1>1, <1>6, <1>7 DEF GoesOn
  <2> QED BY <1>1, <1>7, <2>1, TasksKept
<1>10. Current(t, a) =>
        /\ a.s.state = "Starting"
        /\ \A b \in a.s.asked : b.closes # a.s.closes
        /\ \A j \in DOMAIN tasks : ~(tasks[j].kind = "token" /\ Current(tasks[j], a))
        /\ (\A j \in DOMAIN tasks : tasks[j].kind # "user") => t.user \in {user, NoToken}
  <2> SUFFICES ASSUME Current(t, a)
               PROVE  /\ a.s.state = "Starting"
                      /\ \A b \in a.s.asked : b.closes # a.s.closes
                      /\ \A j \in DOMAIN tasks :
                            ~(tasks[j].kind = "token" /\ Current(tasks[j], a))
                      /\ (\A j \in DOMAIN tasks : tasks[j].kind # "user") =>
                            t.user \in {user, NoToken}
    OBVIOUS
  <2>1. req.closes = store.closes
    BY <1>5, <1>6, <1>7 DEF Current
  <2>2. a.s.state = "Starting"
    BY <1>4, <1>6, <1>7, <2>1
  <2>3. \A b \in a.s.asked : b.closes # a.s.closes
    BY <1>1, <1>6, <1>7, <2>1 DEF AskedOk
  <2>4. \A j \in DOMAIN tasks : ~(tasks[j].kind = "token" /\ Current(tasks[j], a))
    BY <1>1, <1>6, <1>7, <2>1 DEF TasksOk, Current
  <2>5. (\A j \in DOMAIN tasks : tasks[j].kind # "user") => t.user \in {user, NoToken}
    BY <1>1, <1>2, <1>5 DEF UsersOk
  <2> QED BY <2>2, <2>3, <2>4, <2>5
<1>11. t.closes <= a.s.closes
  BY <1>4, <1>5, <1>6, <1>7
<1>12. /\ TasksOk(Append(tasks, t), a, user)
       /\ Answers(Append(tasks, t), a) = Answers(tasks, a)
  BY <1>1, <1>5, <1>9, <1>10, <1>11, TasksPosted
<1>13. AnswersOk(a, Answers(tasks', a))
  <2>1. Answers(tasks, a) = Answers(tasks, Now)
    BY <1>1, <1>6, <1>7, AnswersSame
  <2> QED BY <1>1, <1>3, <1>6, <1>7, <1>12, <2>1 DEF AnswersOk, Expected
<1>14. tasks' \in Seq(Task) /\ UsersOk(tasks', user) /\ faults' \in Nat
  BY <1>1, <1>3, <1>5, AppendProperties, UsersPosted
<1> QED BY <1>3, <1>6, <1>7, <1>8, <1>12, <1>13, <1>14, StreamSteps

------------------------------------------------------------------------------
(* FillWritePipeline of a stream that may be open. *)

LEMMA ConcatRange ==
    ASSUME NEW s \in Seq(Nat), NEW t \in Seq(Nat)
    PROVE  \A n : n \in Range(s \o t) <=> n \in Range(s) \/ n \in Range(t)
<1> DEFINE v == s \o t
<1>1. /\ DOMAIN s = 1 .. Len(s) /\ DOMAIN t = 1 .. Len(t) /\ DOMAIN v = 1 .. Len(s) + Len(t)
      /\ Len(s) \in Nat /\ Len(t) \in Nat
      /\ \A i \in 1 .. Len(s) : v[i] = s[i]
      /\ \A i \in 1 .. Len(t) : v[Len(s) + i] = t[i]
  BY ConcatProperties, LenProperties
<1> HIDE DEF v
<1>2. ASSUME NEW i \in DOMAIN v PROVE v[i] \in Range(s) \/ v[i] \in Range(t)
  <2>1. CASE i <= Len(s)
    BY <1>1, <2>1 DEF Range
  <2>2. CASE ~(i <= Len(s))
    <3>1. i - Len(s) \in 1 .. Len(t) /\ Len(s) + (i - Len(s)) = i
      BY <1>1, <2>2
    <3>2. v[i] = t[i - Len(s)]
      BY <1>1, <3>1
    <3> QED BY <1>1, <3>1, <3>2 DEF Range
  <2> QED BY <2>1, <2>2
<1>3. ASSUME NEW i \in DOMAIN s PROVE s[i] \in Range(v)
  <2>1. i \in DOMAIN v /\ v[i] = s[i]
    BY <1>1
  <2> QED BY <2>1 DEF Range
<1>4. ASSUME NEW i \in DOMAIN t PROVE t[i] \in Range(v)
  <2>1. Len(s) + i \in DOMAIN v /\ v[Len(s) + i] = t[i]
    BY <1>1
  <2> QED BY <2>1 DEF Range
<1>5. \A n : n \in Range(v) <=> n \in Range(s) \/ n \in Range(t)
  BY <1>2, <1>3, <1>4 DEF Range
<1> QED BY <1>5 DEF v

(* What is sent of the queue q, and what becomes of the answers. *)
LEMMA FillKeeps ==
    ASSUME NEW r \in Rec, StreamOk(r), AskedOk(r), NEW q, Sorted(q), NEW k \in 0 .. Room(q),
           r.s.pipe = SubSeq(q, 1, k), changes \in Nat,
           r.s.state = "Open" /\ ~r.s.shaken => q # <<>>,
           NEW un \in Seq(Nat), AnswersOk(r, un), EndOk(r)
    PROVE  LET a == FillWritePipeline(r, q) IN
           /\ AnswersOk(a, un) /\ EndOk(a) /\ GoesOn(a, r)
           /\ \A n \in Range(Outgoing(a.c)) :
                n \in Range(Outgoing(r.c)) \/ \E i \in DOMAIN q : n = q[i]
<1> DEFINE a == FillWritePipeline(r, q)
           more == SubSeq(q, k + 1, Room(q))
<1>1. /\ Grows(a, r) /\ StreamOk(a) /\ AskedOk(a)
      /\ a.s.pipe = SubSeq(q, 1, Room(q))
      /\ r.s.state = "Starting" => a.s.state = "Starting" /\ a.s.asked = r.s.asked
      /\ Outgoing(a.c) =
            IF r.s.state = "Open" /\ r.s.shaken THEN Outgoing(r.c) \o more ELSE Outgoing(r.c)
  BY FillFacts
<1>2. /\ more \in Seq(Nat) /\ r.s.pipe \o more = SubSeq(q, 1, Room(q))
      /\ r.s.pipe \in Seq(Nat) /\ Len(r.s.pipe) = k
      /\ Outgoing(r.c) \in Seq(Nat) /\ q \in Seq(Nat) /\ k \in Nat
  <2>1. /\ more \in Seq(Nat) /\ r.s.pipe \o more = SubSeq(q, 1, Room(q))
        /\ r.s.pipe \in Seq(Nat) /\ Len(r.s.pipe) = k /\ q \in Seq(Nat)
    BY NextFacts DEF Sorted
  <2>2. Outgoing(r.c) \in Seq(Nat)
    BY EmptySeq, AnswersTyped
  <2> QED BY <2>1, <2>2, LenProperties
<1> HIDE DEF a
<1>3. GoesOn(a, r)
  BY <1>1 DEF GoesOn, Grows
<1>4. AnswersOk(a, un)
  <2>1. \A i \in DOMAIN un : un[i] = Hello \/ un[i] \in applied
    BY DEF AnswersOk
  <2>2. ASSUME r.c.live, ~r.c.finished
        PROVE  /\ IsPrefix(un, Expected(a))
               /\ r.c.end = "open" => un \o Outgoing(a.c) = Expected(a)
    <3>1. r.s.state = "Open" /\ IsPrefix(un, Expected(r))
          /\ (r.c.end = "open" => un \o Outgoing(r.c) = Expected(r))
      BY <2>2 DEF StreamOk, AnswersOk
    <3>2. CASE r.s.shaken
      <4>1. Expected(a) = r.s.pipe \o more /\ Expected(r) = r.s.pipe
        BY <1>1, <1>2, <3>2 DEF Expected, Grows
      <4>2. IsPrefix(un, Expected(a))
        <5> HIDE DEF more
        <5> QED BY <1>2, <3>1, <4>1, PrefixGrows
      <4>3. Outgoing(a.c) = Outgoing(r.c) \o more
        BY <1>1, <3>1, <3>2
      <4>4. (un \o Outgoing(r.c)) \o more = un \o (Outgoing(r.c) \o more)
        <5> HIDE DEF more
        <5> QED BY <1>2, Assoc
      <4> QED BY <3>1, <4>1, <4>2, <4>3, <4>4
    <3>3. CASE ~r.s.shaken
      <4>1. Expected(a) = Expected(r) /\ Outgoing(a.c) = Outgoing(r.c)
        BY <1>1, <3>3 DEF Expected, Grows
      <4> QED BY <3>1, <4>1
    <3> QED BY <3>2, <3>3
  <2> QED BY <1>1, <2>1, <2>2 DEF AnswersOk, Grows
<1>5. EndOk(a)
  <2> SUFFICES ASSUME r.c.end = "permanent"
               PROVE  /\ r.s.shaken
                      /\ \E i \in DOMAIN a.s.pipe : a.s.pipe[i] \in Bad
                            /\ \A j \in 1 .. i - 1 : a.s.pipe[j] \in applied
    BY <1>1 DEF EndOk, Grows
  <2>1. r.s.shaken
    BY DEF EndOk
  <2>2. PICK i \in DOMAIN r.s.pipe :
            r.s.pipe[i] \in Bad /\ \A j \in 1 .. i - 1 : r.s.pipe[j] \in applied
    BY DEF EndOk
  <2> DEFINE p == r.s.pipe \o more
  <2> HIDE DEF more
  <2>3. /\ DOMAIN p = 1 .. k + Len(more) /\ DOMAIN r.s.pipe = 1 .. k /\ Len(more) \in Nat
        /\ \A j \in 1 .. k : p[j] = r.s.pipe[j]
    BY <1>2, ConcatProperties, LenProperties
  <2>4. a.s.pipe = p
    BY <1>1, <1>2
  <2> HIDE DEF p
  <2>5. i \in DOMAIN p /\ p[i] = r.s.pipe[i] /\ \A j \in 1 .. i - 1 : p[j] = r.s.pipe[j]
    BY <1>2, <2>2, <2>3
  <2> QED BY <2>1, <2>2, <2>4, <2>5
<1>6. ASSUME NEW n \in Range(Outgoing(a.c))
      PROVE  n \in Range(Outgoing(r.c)) \/ \E i \in DOMAIN q : n = q[i]
  <2>1. n \in Range(Outgoing(r.c)) \/ n \in Range(more)
    <3>1. CASE r.s.state = "Open" /\ r.s.shaken
      <4>1. Outgoing(a.c) = Outgoing(r.c) \o more
        BY <1>1, <3>1
      <4> HIDE DEF more
      <4> QED BY <1>2, <1>6, <4>1, ConcatRange
    <3>2. CASE ~(r.s.state = "Open" /\ r.s.shaken)
      BY <1>1, <1>6, <3>2
    <3> QED BY <3>1, <3>2
  <2>2. \A m \in Range(more) : m \in Range(q)
    <3>1. \A m \in Range(more) : m \in Range(r.s.pipe \o more)
      <4> HIDE DEF more
      <4> QED BY <1>2, ConcatRange
    <3>2. Room(q) \in Nat /\ Room(q) <= Len(q) /\ Len(q) \in Nat /\ DOMAIN q = 1 .. Len(q)
      <4>1. Room(q) \in 0 .. Len(q) /\ Len(q) \in Nat
        BY <1>2, RoomFacts
      <4> QED BY <1>2, <4>1, LenProperties
    <3> DEFINE front == SubSeq(q, 1, Room(q))
    <3>3. front \in Seq(Nat) /\ Len(front) = Room(q) /\ \A i \in 1 .. Room(q) : front[i] = q[i]
      <4>1. q \in Seq(Nat)
        BY <1>2
      <4>2. \A m \in Nat : m <= Len(q) =>
                /\ SubSeq(q, 1, m) \in Seq(Nat) /\ Len(SubSeq(q, 1, m)) = m
                /\ \A i \in 1 .. m : SubSeq(q, 1, m)[i] = q[i]
        BY <4>1
      <4> QED BY <3>2, <4>2
    <3>4. DOMAIN front = 1 .. Room(q)
      BY <3>3, LenProperties
    <3>5. r.s.pipe \o more = front
      BY <1>2
    <3> HIDE DEF front, more
    <3>6. \A m \in Range(front) : m \in Range(q)
      BY <3>2, <3>3, <3>4 DEF Range
    <3> QED BY <3>1, <3>5, <3>6
  <2> HIDE DEF more
  <2> QED BY <2>1, <2>2 DEF Range
<1> QED BY <1>3, <1>4, <1>5, <1>6 DEF a

(* The batches of the pipeline are of the user in force; none is the handshake. *)
LEMMA PipeOwned ==
    ASSUME PipeInv
    PROVE  /\ \A i \in DOMAIN queue[user] : Owns(user, queue[user][i])
           /\ \A n \in Range(store.pipe) : Owns(user, n)
           /\ \A n : Owns(user, n) => n # Hello /\ n \in Nat
<1> DEFINE q == queue[user]
<1>1. /\ user \in User /\ q \in Seq(Nat) /\ store.pipe = SubSeq(q, 1, Room(q)) /\ owner \in Seq(User)
  BY InvFacts
<1>2. \A i \in DOMAIN q : Owns(user, q[i])
  BY <1>1 DEF PipeInv, QueuesOk
<1> HIDE DEF q
<1>3. Room(q) \in Nat /\ Room(q) <= Len(q) /\ Len(q) \in Nat /\ DOMAIN q = 1 .. Len(q)
  <2>1. Room(q) \in 0 .. Len(q) /\ Len(q) \in Nat
    BY <1>1, RoomFacts
  <2> QED BY <1>1, <2>1, LenProperties
<1>4. \A m \in Nat : m <= Len(q) =>
        /\ SubSeq(q, 1, m) \in Seq(Nat) /\ Len(SubSeq(q, 1, m)) = m
        /\ \A i \in 1 .. m : SubSeq(q, 1, m)[i] = q[i]
  BY <1>1
<1>5. /\ store.pipe \in Seq(Nat) /\ DOMAIN store.pipe = 1 .. Room(q)
      /\ \A i \in 1 .. Room(q) : store.pipe[i] = q[i] /\ i \in DOMAIN q
  BY <1>1, <1>3, <1>4, LenProperties
<1>6. \A n \in Range(store.pipe) : Owns(user, n)
  BY <1>2, <1>5 DEF Range
<1>7. \A n : Owns(user, n) => n # Hello /\ n \in Nat
  BY <1>1, LenProperties DEF Owns, Hello
<1> QED BY <1>2, <1>6, <1>7 DEF q

(* The answer that is handled is the first there is. *)
LEMMA ReadFacts ==
    ASSUME PipeInv, Run("read"), ~Cancelled(Head(tasks))
    PROVE  /\ call.live /\ ~call.finished /\ "read" \notin call.ops /\ "finish" \notin call.ops
           /\ store.state = "Open" /\ Head(tasks).msg \in Nat /\ call.back \in Seq(Nat)
           /\ Answers(tasks, Now) = <<Head(tasks).msg>> \o call.back
           /\ ReadsIn(tasks', Now) = {}
           /\ tasks' \in Seq(Task) /\ UsersOk(tasks', user) /\ TasksOk(tasks', Now, user)
<1>1. /\ tasks # <<>> /\ Head(tasks).kind = "read" /\ tasks' = Tail(tasks)
  BY DEF Run
<1>2. /\ tasks' \in Seq(Task) /\ UsersOk(tasks', user) /\ TasksOk(tasks', Now, user)
      /\ Head(tasks) = tasks[1] /\ 1 \in DOMAIN tasks
  BY <1>1, TaskTaken
<1>3. /\ Now \in Rec /\ Now.s = store /\ Now.c = call /\ tasks \in Seq(Task)
      /\ StreamOk(Now) /\ TasksOk(tasks, Now, user)
  BY InvFacts DEF PipeInv
<1>4. 1 \in ReadsIn(tasks, Now) /\ ~call.finished /\ Current(tasks[1], Now)
  BY <1>1, <1>2, <1>3 DEF ReadsIn, Current, Cancelled
<1>5. call.live /\ "read" \notin call.ops
  BY <1>1, <1>2, <1>3, <1>4 DEF TasksOk
<1>6. "finish" \notin call.ops /\ store.state = "Open"
  BY <1>3, <1>4, <1>5 DEF StreamOk
<1>7. /\ Answers(tasks, Now) = <<Head(tasks).msg>> \o call.back
      /\ \A j \in ReadsIn(tasks, Now) : 1 = j
  BY <1>2, <1>3, <1>4, AnswersAre
<1>8. Head(tasks).msg \in Nat /\ call.back \in Seq(Nat)
  BY <1>2, <1>3, <1>4, AnswersTyped
<1>9. ReadsIn(tasks', Now) = {}
  <2>1. \A i \in DOMAIN Tail(tasks) : i + 1 \in DOMAIN tasks /\ Tail(tasks)[i] = tasks[i + 1]
        /\ i + 1 # 1
    BY <1>1, <1>3, TaskFacts
  <2>2. \A i \in ReadsIn(Tail(tasks), Now) : i + 1 \in ReadsIn(tasks, Now) /\ i + 1 # 1
    BY <2>1 DEF ReadsIn
  <2> QED BY <1>1, <1>7, <2>2
<1> QED BY <1>2, <1>4, <1>5, <1>6, <1>7, <1>8, <1>9

LEMMA RunReadKeeps ==
    ASSUME PipeInv, RunRead
    PROVE  PipeInv'
<1> DEFINE next == [Now EXCEPT !.c.ops = @ \union {"read"}]
           m == Head(tasks).msg
           q == queue[user]
<1>1. /\ Run("read") /\ ~Cancelled(Head(tasks))
      /\ UNCHANGED <<owner, applied, refused, auth, changes, user, faults>>
  BY DEF RunRead, serverVars, authVars
<1>2. /\ Now \in Rec /\ Now.s = store /\ Now.c = call /\ store \in Store /\ call \in Call
      /\ StreamOk(Now) /\ AskedOk(Now) /\ CallOk(Now, user) /\ EndOk(Now)
      /\ AnswersOk(Now, Answers(tasks, Now)) /\ applied \intersect Bad = {}
      /\ user \in User /\ changes \in Nat /\ faults' \in Nat /\ Sorted(q)
      /\ store.pipe = SubSeq(q, 1, Room(q))
  BY <1>1, InvFacts DEF PipeInv, Rec
<1>3. /\ call.live /\ ~call.finished /\ "read" \notin call.ops /\ "finish" \notin call.ops
      /\ store.state = "Open" /\ m \in Nat /\ call.back \in Seq(Nat)
      /\ Answers(tasks, Now) = <<m>> \o call.back
      /\ ReadsIn(tasks', Now) = {}
      /\ tasks' \in Seq(Task) /\ UsersOk(tasks', user) /\ TasksOk(tasks', Now, user)
  BY <1>1, ReadFacts
<1>4. /\ IsPrefix(<<m>> \o call.back, Expected(Now))
      /\ call.end = "open" => (<<m>> \o call.back) \o Outgoing(call) = Expected(Now)
      /\ Expected(Now) \in Seq(Nat) /\ Outgoing(call) \in Seq(Nat) /\ store.pipe \in Seq(Nat)
  BY <1>2, <1>3, EmptySeq, AnswersTyped DEF AnswersOk
<1>5. /\ next \in Rec /\ next.s = store /\ next.c.live /\ next.c.user = call.user
      /\ ~next.c.finished /\ next.c.ops = call.ops \union {"read"}
      /\ next.c.end = call.end /\ next.c.back = call.back
      /\ next.c.wire = call.wire /\ next.c.buffer = call.buffer
  <2>1. call.ops \union {"read"} \subseteq {"read", "write", "finish"}
    BY <1>2 DEF Call
  <2> QED BY <1>2, <1>3, <2>1 DEF Rec, Call
<1>6. Outgoing(next.c) = Outgoing(call)
  BY <1>5 DEF Outgoing
<1> HIDE DEF m, q
<1>7. CASE ~store.shaken
  <2> DEFINE b == [next EXCEPT !.s.shaken = TRUE]
             a == WriteAll(b, store.pipe)
  <2>1. Becomes(a) /\ UNCHANGED <<queue, acked>>
    BY <1>7 DEF RunRead
  <2>2. /\ b \in Rec /\ b.c = next.c /\ b.s.shaken /\ b.s.pipe = store.pipe
        /\ b.s.state = store.state /\ b.s.idle = store.idle /\ b.s.closes = store.closes
        /\ b.s.asked = store.asked
    BY <1>2, <1>5 DEF Rec, Store
  <2> HIDE DEF next, b
  <2>3. /\ Grows(a, b) /\ a.s.pipe = store.pipe /\ a.s.state = "Open"
        /\ a.s.asked = store.asked /\ (a.s.idle => store.idle)
        /\ Outgoing(a.c) = Outgoing(call) \o store.pipe
    <3>1. /\ Grows(a, b) /\ a.s.pipe = b.s.pipe /\ a.s.state = b.s.state
          /\ a.s.asked = b.s.asked /\ (a.s.idle => b.s.idle)
          /\ Outgoing(a.c) = Outgoing(b.c) \o store.pipe
      BY <1>4, <2>2, WriteAllFacts
    <3> HIDE DEF a
    <3> QED BY <1>3, <1>6, <2>2, <3>1
  <2> HIDE DEF a
  <2>4. /\ a \in Rec /\ a.s.closes = store.closes /\ a.s.shaken
        /\ a.c.live /\ a.c.user = call.user /\ ~a.c.finished /\ a.c.end = call.end
        /\ a.c.back = call.back /\ "finish" \notin a.c.ops
    BY <1>3, <1>5, <2>2, <2>3 DEF Grows
  <2>5. StreamOk(a) /\ AskedOk(a)
    <3>1. ~store.idle
      BY <1>2, <1>7 DEF StreamOk
    <3>2. StreamOk(a)
      BY <2>3, <2>4, <3>1 DEF StreamOk
    <3>3. AskedOk(a)
      BY <1>2, <1>3, <2>3, <2>4 DEF AskedOk
    <3> QED BY <3>2, <3>3
  <2>6. TasksOk(tasks', a, user)
    <3>1. GoesOn(a, Now)
      BY <1>2, <1>3, <2>4 DEF GoesOn
    <3> QED BY <1>2, <1>3, <3>1, TasksKept
  <2>7. call.back = <<>> /\ (call.end = "open" => Outgoing(call) = <<>>)
    <3>1. Expected(Now) = <<Hello>> /\ Len(<<Hello>>) = 1 /\ <<Hello>> \in Seq(Nat)
      BY <1>2, <1>7 DEF Expected, Hello
    <3>2. Len(<<m>> \o call.back) = Len(call.back) + 1 /\ <<m>> \o call.back \in Seq(Nat)
          /\ Len(call.back) \in Nat
      BY <1>3, OneMore
    <3>3. Len(call.back) = 0
      <4>1. Len(<<m>> \o call.back) <= 1
        BY <1>4, <3>1, <3>2, PrefixIs
      <4> QED BY <3>2, <4>1
    <3>4. call.back = <<>>
      BY <1>3, <3>3, EmptySeq
    <3>5. ASSUME call.end = "open" PROVE Outgoing(call) = <<>>
      <4> DEFINE un == <<m>> \o call.back
      <4>1. un \in Seq(Nat) /\ Len(un) = 1 /\ un \o Outgoing(call) = <<Hello>>
        BY <1>4, <3>1, <3>2, <3>3, <3>5
      <4> HIDE DEF un
      <4>2. Len(un \o Outgoing(call)) = Len(un) + Len(Outgoing(call)) /\ Len(Outgoing(call)) \in Nat
        <5>1. \A x, y \in Seq(Nat) : Len(x \o y) = Len(x) + Len(y) /\ Len(y) \in Nat
          OBVIOUS
        <5> QED BY <1>4, <4>1, <5>1
      <4>3. Len(Outgoing(call)) = 0
        BY <3>1, <4>1, <4>2
      <4> QED BY <1>4, <4>3, EmptySeq
    <3> QED BY <3>4, <3>5
  <2>8. Answers(tasks', a) = <<>>
    <3>1. ReadsIn(tasks', a) = {}
      BY <1>2, <1>3, <2>4 DEF ReadsIn, Current
    <3> QED BY <1>3, <2>4, <2>7, <3>1, AnswersTyped
  <2>9. AnswersOk(a, <<>>)
    <3>1. Expected(a) = store.pipe /\ <<>> \o store.pipe = store.pipe
      BY <1>4, <2>3, <2>4, ConcatEmptySeq DEF Expected
    <3>2. IsPrefix(<<>>, store.pipe)
      BY <1>4, EmptyPrefix
    <3>3. call.end = "open" => <<>> \o Outgoing(a.c) = store.pipe
      BY <2>3, <2>7, <3>1
    <3>4. \A un : DOMAIN un = {} => \A i \in DOMAIN un : un[i] = Hello \/ un[i] \in applied
      OBVIOUS
    <3> QED BY <2>4, <3>1, <3>2, <3>3 DEF AnswersOk
  <2>10. CallOk(a, user)
    <3>1. \A n \in Range(Outgoing(a.c)) : n \in Range(Outgoing(call)) \/ n \in Range(store.pipe)
      BY <1>4, <2>3, ConcatRange
    <3> QED BY <1>2, <1>3, <2>4, <3>1, PipeOwned DEF CallOk
  <2>11. EndOk(a)
    BY <1>2, <1>7, <2>4 DEF EndOk
  <2> QED BY <1>1, <1>2, <1>3, <2>1, <2>3, <2>4, <2>5, <2>6, <2>8, <2>9, <2>10, <2>11,
             StreamSteps
<1>8. CASE store.shaken
  <2> DEFINE d == [next EXCEPT !.s.pipe = Tail(store.pipe)]
             a == FillWritePipeline(d, Tail(q))
  <2>1. /\ acked' = acked \union {Head(store.pipe)}
        /\ queue' = [queue EXCEPT ![user] = Tail(@)]
        /\ Becomes(FillWritePipeline(Dropped(next), queue'[user]))
    BY <1>8 DEF RunRead
  <2>2. store.pipe # <<>> /\ Head(store.pipe) = m /\ IsPrefix(call.back, Tail(store.pipe))
    <3>1. Expected(Now) = store.pipe
      BY <1>2, <1>8 DEF Expected
    <3> QED BY <1>3, <1>4, <3>1, PrefixTail
  <2>3. /\ q # <<>> /\ Sorted(Tail(q)) /\ Head(q) \in Nat /\ Head(store.pipe) = Head(q)
        /\ Tail(store.pipe) \in Seq(Nat)
        /\ Tail(store.pipe) = SubSeq(Tail(q), 1, Room(q) - 1)
        /\ Room(q) - 1 \in 0 .. Room(Tail(q))
    BY <1>2, <1>4, <2>2, DropFacts, HeadTailProperties
  <2>4. queue' \in [User -> Seq(Nat)] /\ QueuesOk' /\ queue'[user] = Tail(q)
    BY <1>1, <2>1, <2>3, QueuesTail DEF q
  <2>5. Dropped(next) = d
    BY <1>5 DEF Dropped
  <2>6. /\ d \in Rec /\ d.c = next.c /\ d.s.pipe = Tail(store.pipe) /\ d.s.state = "Open"
        /\ d.s.closes = store.closes /\ d.s.asked = store.asked
        /\ d.s.idle = store.idle /\ d.s.shaken
    <3> HIDE DEF next
    <3>1. /\ d \in Rec /\ d.c = next.c /\ d.s.pipe = Tail(store.pipe) /\ d.s.state = next.s.state
          /\ d.s.closes = next.s.closes /\ d.s.asked = next.s.asked
          /\ d.s.idle = next.s.idle /\ d.s.shaken = next.s.shaken
      BY <1>5, <2>3, WithPipe
    <3> HIDE DEF d
    <3> QED BY <1>3, <1>5, <1>8, <3>1
  <2>7. Becomes(a)
    BY <2>1, <2>4, <2>5
  <2> HIDE DEF next, d
  <2>8. StreamOk(d) /\ AskedOk(d)
    <3>1. ~store.idle
      BY <1>2, <2>2 DEF StreamOk
    <3>2. StreamOk(d)
      BY <1>3, <1>5, <2>6, <3>1 DEF StreamOk
    <3>3. AskedOk(d)
      BY <1>2, <1>3, <2>6 DEF AskedOk
    <3> QED BY <3>2, <3>3
  <2>9. AnswersOk(d, call.back)
    <3>1. \A i \in DOMAIN call.back : call.back[i] = Hello \/ call.back[i] \in applied
      BY <1>2, BackTrue, InvFacts DEF PipeInv
    <3>2. Expected(d) = Tail(store.pipe)
      BY <2>6 DEF Expected
    <3>3. ASSUME call.end = "open" PROVE call.back \o Outgoing(call) = Tail(store.pipe)
      <4>1. <<m>> \in Seq(Nat)
        BY <1>3
      <4>2. (<<m>> \o call.back) \o Outgoing(call) = <<m>> \o (call.back \o Outgoing(call))
        BY <1>3, <1>4, <4>1, Assoc
      <4>3. <<m>> \o (call.back \o Outgoing(call)) = store.pipe
        BY <1>2, <1>4, <1>8, <3>3, <4>2 DEF Expected
      <4>4. call.back \o Outgoing(call) \in Seq(Nat)
        BY <1>3, <1>4, ConcatProperties
      <4>5. \A o \in Seq(Nat) : Tail(<<m>> \o o) = o
        <5>1. PICK k \in Nat : k = m
          BY <1>3
        <5>2. \A o \in Seq(Nat) : Tail(<<k>> \o o) = o
          BY OneMore
        <5> QED BY <5>1, <5>2
      <4>6. Tail(<<m>> \o (call.back \o Outgoing(call))) = call.back \o Outgoing(call)
        BY <4>4, <4>5
      <4> QED BY <4>3, <4>6
    <3> QED BY <1>5, <1>6, <2>2, <2>6, <3>1, <3>2, <3>3 DEF AnswersOk
  <2>10. EndOk(d)
    <3> SUFFICES ASSUME call.end = "permanent"
                 PROVE  \E i \in DOMAIN Tail(store.pipe) : Tail(store.pipe)[i] \in Bad
                            /\ \A j \in 1 .. i - 1 : Tail(store.pipe)[j] \in applied
      BY <1>5, <2>6 DEF EndOk
    <3>1. PICK i \in DOMAIN store.pipe :
              store.pipe[i] \in Bad /\ \A j \in 1 .. i - 1 : store.pipe[j] \in applied
      BY <1>2 DEF EndOk
    <3>2. m \in applied
      <4>1. /\ (<<m>> \o call.back)[1] = m
            /\ 1 \in DOMAIN (<<m>> \o call.back)
        <5>1. /\ (<<m>> \o call.back)[1] = m /\ Len(<<m>> \o call.back) = Len(call.back) + 1
              /\ <<m>> \o call.back \in Seq(Nat) /\ Len(call.back) \in Nat
          BY <1>3, OneMore
        <5>2. DOMAIN (<<m>> \o call.back) = 1 .. Len(call.back) + 1
          BY <5>1, LenProperties
        <5> QED BY <5>1, <5>2
      <4>2. m = Hello \/ m \in applied
        BY <1>2, <1>3, <4>1 DEF AnswersOk
      <4>3. m \in Range(store.pipe)
        <5>1. 1 \in DOMAIN store.pipe /\ store.pipe[1] = m
          BY <1>4, <2>2, HeadTailProperties, EmptySeq, LenProperties
        <5> QED BY <5>1 DEF Range
      <4> QED BY <4>2, <4>3, PipeOwned
    <3>3. /\ Len(Tail(store.pipe)) = Len(store.pipe) - 1 /\ Len(store.pipe) \in Nat \ {0}
          /\ DOMAIN Tail(store.pipe) = 1 .. Len(store.pipe) - 1
          /\ DOMAIN store.pipe = 1 .. Len(store.pipe)
          /\ \A j \in 1 .. Len(store.pipe) - 1 : Tail(store.pipe)[j] = store.pipe[j + 1]
          /\ store.pipe[1] = m
      <4>1. PICK s \in Seq(Nat) : s = store.pipe
        BY <1>4
      <4>2. s # <<>> /\ Head(s) = m
        BY <2>2, <4>1
      <4>3. Len(s) \in Nat \ {0} /\ DOMAIN s = 1 .. Len(s) /\ s[1] = m
        BY <4>2
      <4>4. /\ Len(Tail(s)) = Len(s) - 1 /\ DOMAIN Tail(s) = 1 .. Len(s) - 1
            /\ \A j \in 1 .. Len(s) - 1 : Tail(s)[j] = s[j + 1]
        BY <4>2
      <4> QED BY <4>1, <4>3, <4>4
    <3>4. i # 1
      BY <1>2, <3>1, <3>2, <3>3
    <3>5. i - 1 \in DOMAIN Tail(store.pipe) /\ Tail(store.pipe)[i - 1] = store.pipe[i]
      BY <3>3, <3>4
    <3>6. \A j \in 1 .. i - 1 - 1 : Tail(store.pipe)[j] = store.pipe[j + 1] /\ j + 1 \in 1 .. i - 1
      BY <3>3, <3>4
    <3>7. \A j \in 1 .. i - 1 - 1 : Tail(store.pipe)[j] \in applied
      BY <3>1, <3>6
    <3> DEFINE p == Tail(store.pipe)
               k == i - 1
    <3>8. k \in DOMAIN p /\ p[k] \in Bad /\ \A j \in 1 .. k - 1 : p[j] \in applied
      BY <3>1, <3>5, <3>7
    <3> HIDE DEF p, k
    <3> QED BY <3>8 DEF p
  <2>11. /\ Grows(a, d) /\ StreamOk(a) /\ AskedOk(a)
         /\ a.s.pipe = SubSeq(Tail(q), 1, Room(Tail(q)))
    BY <1>2, <2>3, <2>6, <2>8, FillFacts
  <2>12. /\ AnswersOk(a, call.back) /\ EndOk(a) /\ GoesOn(a, d)
         /\ \A n \in Range(Outgoing(a.c)) :
              n \in Range(Outgoing(call)) \/ \E i \in DOMAIN Tail(q) : n = Tail(q)[i]
    <3>0. /\ d \in Rec /\ StreamOk(d) /\ AskedOk(d) /\ Sorted(Tail(q)) /\ changes \in Nat
          /\ d.s.pipe = SubSeq(Tail(q), 1, Room(q) - 1) /\ d.s.shaken
          /\ Room(q) - 1 \in 0 .. Room(Tail(q))
          /\ call.back \in Seq(Nat) /\ AnswersOk(d, call.back) /\ EndOk(d)
      BY <1>2, <1>3, <2>3, <2>6, <2>8, <2>9, <2>10
    <3>1. /\ AnswersOk(a, call.back) /\ EndOk(a) /\ GoesOn(a, d)
          /\ \A n \in Range(Outgoing(a.c)) :
               n \in Range(Outgoing(d.c)) \/ \E i \in DOMAIN Tail(q) : n = Tail(q)[i]
      BY <3>0, FillKeeps
    <3>2. Outgoing(d.c) = Outgoing(call)
      BY <1>6, <2>6
    <3> HIDE DEF a
    <3> QED BY <3>1, <3>2
  <2> HIDE DEF a
  <2>13. /\ a \in Rec /\ a.s.closes = store.closes /\ a.c.live /\ a.c.user = call.user
         /\ ~a.c.finished /\ a.c.end = call.end /\ a.c.back = call.back
    BY <1>5, <2>6, <2>11 DEF Grows
  <2>14. TasksOk(tasks', a, user)
    <3>1. GoesOn(a, Now)
      BY <1>2, <1>3, <2>13 DEF GoesOn
    <3> QED BY <1>2, <1>3, <3>1, TasksKept
  <2>15. Answers(tasks', a) = call.back
    <3>1. ReadsIn(tasks', a) = {}
      BY <1>2, <1>3, <2>13 DEF ReadsIn, Current
    <3> QED BY <1>3, <2>13, <3>1, AnswersTyped
  <2>16. CallOk(a, user)
    <3>1. \A i \in DOMAIN Tail(q) : Owns(user, Tail(q)[i])
      <4>1. q \in Seq(Nat)
        BY <1>2 DEF Sorted
      <4>2. \A i \in DOMAIN Tail(q) : i + 1 \in DOMAIN q /\ Tail(q)[i] = q[i + 1]
        BY <2>3, <4>1, HeadTailProperties, EmptySeq, LenProperties
      <4> QED BY <4>2, PipeOwned DEF q
    <3> QED BY <1>2, <1>3, <2>12, <2>13, <3>1 DEF CallOk
  <2>17. acked' \subseteq Nat /\ refused' \subseteq Nat
    BY <1>1, <2>1, <2>3, InvFacts
  <2> QED BY <1>1, <1>2, <1>3, <2>4, <2>7, <2>11, <2>12, <2>13, <2>14, <2>15, <2>16, <2>17,
             HandlerSteps
<1> QED BY <1>7, <1>8

(* The app writes: the batch is the youngest of its owner. *)
LEMMA WriteFacts ==
    ASSUME PipeInv, WriteMutations
    PROVE  /\ owner' \in Seq(User) /\ queue' \in [User -> Seq(Nat)] /\ QueuesOk'
           /\ Sorted(queue'[user]) /\ queue'[user] # <<>>
           /\ Room(queue[user]) \in 0 .. Room(queue'[user])
           /\ store.pipe = SubSeq(queue'[user], 1, Room(queue[user]))
           /\ \A i \in DOMAIN queue'[user] :
                queue'[user][i] \in DOMAIN owner' /\ owner'[queue'[user][i]] = user
           /\ \A u, n : Owns(u, n) => Owns(u, n)'
<1> DEFINE n == Len(owner) + 1
           q == queue[user]
           new == Append(q, n)
<1>1. /\ owner \in Seq(User) /\ queue \in [User -> Seq(Nat)] /\ user \in User /\ q \in Seq(Nat)
      /\ Sorted(q) /\ store.pipe = SubSeq(q, 1, Room(q)) /\ QueuesOk
  BY InvFacts DEF PipeInv
<1>2. owner' = Append(owner, user) /\ queue' = [queue EXCEPT ![user] = new]
  BY DEF WriteMutations
<1>3. /\ owner' \in Seq(User) /\ Len(owner) \in Nat /\ n \in Nat /\ n >= 1
      /\ DOMAIN owner = 1 .. Len(owner) /\ DOMAIN owner' = 1 .. n /\ owner'[n] = user
      /\ \A i \in 1 .. Len(owner) : owner'[i] = owner[i]
  BY <1>1, <1>2, AppendProperties, LenProperties
<1>4. /\ new \in Seq(Nat) /\ Len(new) = Len(q) + 1 /\ Len(q) \in Nat /\ new # <<>>
      /\ DOMAIN q = 1 .. Len(q) /\ DOMAIN new = 1 .. Len(q) + 1
      /\ \A i \in 1 .. Len(q) : new[i] = q[i]
      /\ new[Len(q) + 1] = n
  <2> HIDE DEF n, q
  <2>1. /\ new \in Seq(Nat) /\ Len(new) = Len(q) + 1 /\ new # <<>>
        /\ \A i \in 1 .. Len(q) : new[i] = q[i]
        /\ new[Len(q) + 1] = n
    <3>1. \A s \in Seq(Nat), m \in Nat :
            /\ Append(s, m) \in Seq(Nat) /\ Len(Append(s, m)) = Len(s) + 1 /\ Append(s, m) # <<>>
            /\ \A i \in 1 .. Len(s) : Append(s, m)[i] = s[i]
            /\ Append(s, m)[Len(s) + 1] = m
      BY AppendProperties
    <3>2. q \in Seq(Nat) /\ n \in Nat
      BY <1>1, <1>3
    <3> QED BY <3>1, <3>2
  <2>2. Len(q) \in Nat /\ DOMAIN q = 1 .. Len(q)
    BY <1>1, LenProperties
  <2>3. DOMAIN new = 1 .. Len(new)
    BY <2>1, LenProperties
  <2> QED BY <2>1, <2>2, <2>3
<1> HIDE DEF n, new
<1>5. queue' \in [User -> Seq(Nat)] /\ queue'[user] = new /\ \A u \in User \ {user} : queue'[u] = queue[u]
  BY <1>1, <1>2, <1>4
<1>6. \A u, m : m \in DOMAIN owner /\ owner[m] = u => m \in DOMAIN owner' /\ owner'[m] = u
  BY <1>3 DEF n
<1>7. \A i \in DOMAIN q : q[i] \in DOMAIN owner /\ owner[q[i]] = user
  BY <1>1 DEF QueuesOk, Owns
<1>8. ASSUME NEW i \in DOMAIN new
      PROVE  new[i] \in DOMAIN owner' /\ owner'[new[i]] = user
  <2>1. CASE i \in DOMAIN q
    BY <1>4, <1>6, <1>7, <2>1
  <2>2. CASE i \notin DOMAIN q
    <3>1. i = Len(q) + 1
      BY <1>4, <2>2
    <3> QED BY <1>3, <1>4, <3>1
  <2> QED BY <2>1, <2>2
<1>9. ASSUME NEW i \in DOMAIN new, NEW j \in DOMAIN new, i < j
      PROVE  new[i] < new[j]
  <2>1. i \in DOMAIN q /\ new[i] = q[i]
    BY <1>4, <1>9
  <2>2. CASE j \in DOMAIN q
    BY <1>1, <1>4, <1>9, <2>1, <2>2 DEF Sorted
  <2>3. CASE j \notin DOMAIN q
    <3>1. j = Len(q) + 1
      BY <1>4, <2>3
    <3>2. q[i] \in 1 .. Len(owner)
      BY <1>3, <1>7, <2>1
    <3> QED BY <1>3, <1>4, <2>1, <3>1, <3>2 DEF n
  <2> QED BY <2>2, <2>3
<1>10. QueuesOk'
  <2> SUFFICES ASSUME NEW u \in User
               PROVE  /\ \A i \in DOMAIN queue'[u] :
                            queue'[u][i] \in DOMAIN owner' /\ owner'[queue'[u][i]] = u
                      /\ \A i, j \in DOMAIN queue'[u] : i < j => queue'[u][i] < queue'[u][j]
    BY DEF QueuesOk, Owns
  <2>1. CASE u = user
    BY <1>5, <1>8, <1>9, <2>1
  <2>2. CASE u # user
    BY <1>1, <1>5, <1>6, <2>2 DEF QueuesOk, Owns
  <2> QED BY <2>1, <2>2
<1>11. Sorted(new)
  BY <1>4, <1>9 DEF Sorted
<1>12. Room(q) \in 0 .. Room(new)
  <2>1. Room(new) = IF Len(q) + 1 < MaxPendingWrites THEN Len(q) + 1 ELSE MaxPendingWrites
    BY <1>4 DEF Room
  <2>2. Room(q) = IF Len(q) < MaxPendingWrites THEN Len(q) ELSE MaxPendingWrites
    BY DEF Room
  <2>3. MaxPendingWrites \in Nat
    BY <1>1, RoomFacts
  <2> QED BY <1>4, <2>1, <2>2, <2>3
<1>13. SubSeq(q, 1, Room(q)) = SubSeq(new, 1, Room(q))
  <2>1. Room(q) \in Nat /\ Room(q) <= Len(q)
    <3>1. Room(q) \in 0 .. Len(q)
      BY <1>1, RoomFacts
    <3> QED BY <1>4, <3>1
  <2>2. \A s \in Seq(Nat), k \in Nat : k <= Len(s) =>
            /\ SubSeq(s, 1, k) \in Seq(Nat) /\ Len(SubSeq(s, 1, k)) = k
            /\ \A i \in 1 .. k : SubSeq(s, 1, k)[i] = s[i]
    OBVIOUS
  <2> DEFINE x == SubSeq(q, 1, Room(q))
             y == SubSeq(new, 1, Room(q))
  <2>3. x \in Seq(Nat) /\ Len(x) = Room(q) /\ \A i \in 1 .. Room(q) : x[i] = q[i]
    BY <1>1, <2>1, <2>2
  <2>4. y \in Seq(Nat) /\ Len(y) = Room(q) /\ \A i \in 1 .. Room(q) : y[i] = new[i]
    <3>1. Room(q) <= Len(new)
      BY <1>4, <2>1
    <3> QED BY <1>4, <2>1, <2>2, <3>1
  <2>5. \A i \in 1 .. Room(q) : i \in 1 .. Len(q)
    BY <1>4, <2>1
  <2>6. \A i \in 1 .. Len(x) : x[i] = y[i]
    BY <1>4, <2>3, <2>4, <2>5
  <2> HIDE DEF x, y
  <2>7. x = y
    BY <2>3, <2>4, <2>6, SeqEqual
  <2> QED BY <2>7 DEF x, y
<1>14. \A u, m : Owns(u, m) => Owns(u, m)'
  BY <1>6 DEF Owns
<1> QED BY <1>1, <1>3, <1>4, <1>5, <1>8, <1>10, <1>11, <1>12, <1>13, <1>14

LEMMA WriteMutationsKeeps ==
    ASSUME PipeInv, WriteMutations
    PROVE  PipeInv'
<1> DEFINE q == queue'[user]
           b == FillWritePipeline(Now, q)
<1>1. /\ Becomes(b)
      /\ UNCHANGED <<applied, acked, refused, auth, changes, user, tasks, faults>>
  BY DEF WriteMutations, serverVars, authVars
<1>2. /\ Now \in Rec /\ Now.s = store /\ Now.c = call /\ tasks \in Seq(Task)
      /\ StreamOk(Now) /\ AskedOk(Now) /\ CallOk(Now, user) /\ EndOk(Now)
      /\ TasksOk(tasks, Now, user) /\ AnswersOk(Now, Answers(tasks, Now))
      /\ UsersOk(tasks, user) /\ applied \intersect Bad = {} /\ user \in User
      /\ changes \in Nat /\ (call.finished => call.end # "open")
      /\ Answers(tasks, Now) \in Seq(Nat)
  BY InvFacts, AnswersTyped DEF PipeInv
<1>3. /\ owner' \in Seq(User) /\ queue' \in [User -> Seq(Nat)] /\ QueuesOk'
      /\ Sorted(q) /\ q # <<>> /\ Room(queue[user]) \in 0 .. Room(q)
      /\ Now.s.pipe = SubSeq(q, 1, Room(queue[user]))
      /\ \A i \in DOMAIN q : q[i] \in DOMAIN owner' /\ owner'[q[i]] = user
      /\ \A u, n : Owns(u, n) => Owns(u, n)'
  BY <1>2, WriteFacts
<1> HIDE DEF q
<1>4. /\ Grows(b, Now) /\ StreamOk(b) /\ AskedOk(b) /\ b.s.pipe = SubSeq(q, 1, Room(q))
  BY <1>2, <1>3, FillFacts
<1>5. /\ AnswersOk(b, Answers(tasks, Now)) /\ EndOk(b) /\ GoesOn(b, Now)
      /\ \A n \in Range(Outgoing(b.c)) :
            n \in Range(Outgoing(Now.c)) \/ \E i \in DOMAIN q : n = q[i]
  <2> DEFINE un == Answers(tasks, Now)
  <2>1. un \in Seq(Nat) /\ AnswersOk(Now, un)
    BY <1>2
  <2> HIDE DEF un
  <2>2. /\ AnswersOk(b, un) /\ EndOk(b) /\ GoesOn(b, Now)
        /\ \A n \in Range(Outgoing(b.c)) :
              n \in Range(Outgoing(Now.c)) \/ \E i \in DOMAIN q : n = q[i]
    BY <1>2, <1>3, <2>1, FillKeeps
  <2> QED BY <2>2 DEF un
<1> HIDE DEF b
<1>6. b \in Rec
  BY <1>4 DEF Grows
<1>7. PICK a \in Rec : a = b
  BY <1>6
<1>8. PICK u \in User : u = user
  BY <1>2
<1>9. PICK ts \in Seq(Task) : ts = tasks
  BY <1>2
<1>10. PICK un : un = Answers(ts, a)
  OBVIOUS
<1>11. un = Answers(tasks, Now)
  BY <1>4, <1>7, <1>9, <1>10, AnswersSame DEF Grows
<1>12. TasksOk(ts, a, u)
  BY <1>2, <1>4, <1>5, <1>7, <1>8, <1>9, TasksKept DEF Grows
<1>13. CallOk(a, u)'
  <2>1. a.c.live => a.c.user = u
    BY <1>2, <1>4, <1>7, <1>8 DEF CallOk, Grows
  <2>2. \A n \in Range(Outgoing(a.c)) : n = Hello \/ (n \in DOMAIN owner' /\ owner'[n] = u)
    BY <1>2, <1>3, <1>5, <1>7, <1>8 DEF CallOk, Owns
  <2> QED BY <2>1, <2>2 DEF CallOk, Owns
<1>14. UsersOk(ts, u)'
  BY <1>1, <1>2, <1>8, <1>9 DEF UsersOk
<1>15. AnswersOk(a, un)' /\ EndOk(a)'
  <2>1. AnswersOk(a, un) /\ EndOk(a)
    BY <1>5, <1>7, <1>11
  <2>2. AnswersOk(a, un)'
    BY <1>1, <2>1 DEF AnswersOk
  <2>3. EndOk(a)'
    BY <1>1, <2>1 DEF EndOk
  <2> QED BY <2>2, <2>3
<1>16. /\ Becomes(a) /\ u = user' /\ ts = tasks' /\ StreamOk(a) /\ AskedOk(a)
       /\ a.s.pipe = SubSeq(queue'[u], 1, Room(queue'[u]))
  BY <1>1, <1>4, <1>7, <1>8, <1>9 DEF q
<1>17. /\ applied' \subseteq Nat /\ applied' \intersect Bad = {}
       /\ auth' \in User /\ acked' \subseteq Nat /\ refused' \subseteq Nat
       /\ changes' \in Nat /\ faults' \in Nat
  BY <1>1, <1>2, InvFacts
<1> QED BY <1>3, <1>10, <1>12, <1>13, <1>14, <1>15, <1>16, <1>17, Reached

------------------------------------------------------------------------------
(* The server. *)

LEMMA MoreAnswers ==
    ASSUME NEW ts \in Seq(Task), NEW r \in Rec, NEW a, NEW m \in Nat, a.s.closes = r.s.closes,
           a.c.finished = r.c.finished, a.c.back = Append(r.c.back, m)
    PROVE  Answers(ts, a) = Answers(ts, r) \o <<m>>
<1>1. ReadsIn(ts, a) = ReadsIn(ts, r)
  BY DEF ReadsIn, Current
<1>2. r.c.back \in Seq(Nat) /\ <<m>> \in Seq(Nat)
  BY AnswersTyped
<1>3. Append(r.c.back, m) = r.c.back \o <<m>>
  BY <1>2, AppendIsConcat
<1> DEFINE first == IF ReadsIn(ts, r) = {} THEN <<>>
                    ELSE <<ts[CHOOSE i \in ReadsIn(ts, r) : TRUE].msg>>
<1>4. Answers(ts, r) = first \o r.c.back
  BY DEF Answers
<1>5. Answers(ts, a) = first \o (r.c.back \o <<m>>)
  BY <1>1, <1>3 DEF Answers
<1>6. first \in Seq(Nat)
  <2>1. CASE ReadsIn(ts, r) = {}
    BY <2>1, EmptySeq
  <2>2. CASE ReadsIn(ts, r) # {}
    <3>1. ts[CHOOSE i \in ReadsIn(ts, r) : TRUE].msg \in Nat
      BY <2>2, AnswersTyped
    <3>2. \A k \in Nat : <<k>> \in Seq(Nat)
      OBVIOUS
    <3> QED BY <2>2, <3>1, <3>2
  <2> QED BY <2>1, <2>2
<1> HIDE DEF first
<1>7. (first \o r.c.back) \o <<m>> = first \o (r.c.back \o <<m>>)
  BY <1>2, <1>6, Assoc
<1> QED BY <1>4, <1>5, <1>7

(* The message that the server takes is the first that has no answer. *)
LEMMA TakenFacts ==
    ASSUME PipeInv, ServerTakes
    PROVE  LET msg == Head(call.wire)
               rest == Tail(call.wire) \o call.buffer
               un == Answers(tasks, Now)
               e == Expected(Now)
           IN
           /\ call.live /\ call.end = "open" /\ ~call.finished
           /\ msg \in Nat /\ Tail(call.wire) \in Seq(Nat)
           /\ Outgoing(call) = <<msg>> \o rest /\ rest \in Seq(Nat)
           /\ un \in Seq(Nat) /\ e \in Seq(Nat) /\ un \o <<msg>> \in Seq(Nat)
           /\ e = (un \o <<msg>>) \o rest
           /\ Len(un) \in Nat /\ Len(un) + 1 \in DOMAIN e /\ e[Len(un) + 1] = msg
           /\ \A i \in 1 .. Len(un) : e[i] = un[i]
           /\ (Len(e) = 1 => Len(un) = 0)
<1> DEFINE msg == Head(call.wire)
           rest == Tail(call.wire) \o call.buffer
           un == Answers(tasks, Now)
           e == Expected(Now)
<1>1. call.live /\ call.end = "open" /\ call.wire # <<>>
  BY DEF ServerTakes
<1>2. /\ Now \in Rec /\ Now.s = store /\ Now.c = call /\ tasks \in Seq(Task)
      /\ AnswersOk(Now, Answers(tasks, Now)) /\ (call.finished => call.end # "open")
      /\ call.wire \in Seq(Nat) /\ call.buffer \in Seq(Nat)
  BY InvFacts DEF PipeInv, Rec, Call, Message
<1>3. /\ msg \in Nat /\ Tail(call.wire) \in Seq(Nat) /\ rest \in Seq(Nat)
      /\ <<msg>> \in Seq(Nat) /\ <<msg>> \o Tail(call.wire) = call.wire
  <2>1. msg \in Nat /\ Tail(call.wire) \in Seq(Nat)
    BY <1>1, <1>2, HeadTailProperties
  <2>2. \A s, t \in Seq(Nat) : s \o t \in Seq(Nat)
    OBVIOUS
  <2>3. \A s \in Seq(Nat) : s # <<>> => <<Head(s)>> \o Tail(s) = s
    OBVIOUS
  <2>4. \A k \in Nat : <<k>> \in Seq(Nat)
    OBVIOUS
  <2>5. rest \in Seq(Nat)
    BY <1>2, <2>1, <2>2
  <2>6. <<msg>> \in Seq(Nat)
    BY <2>1, <2>4
  <2>7. <<msg>> \o Tail(call.wire) = call.wire
    BY <1>1, <1>2, <2>3
  <2> QED BY <2>1, <2>5, <2>6, <2>7
<1>4. Outgoing(call) = <<msg>> \o rest
  <2>1. PICK x \in Seq(Nat), y \in Seq(Nat), z \in Seq(Nat) :
            x = <<msg>> /\ y = Tail(call.wire) /\ z = call.buffer
    BY <1>2, <1>3
  <2>2. (x \o y) \o z = x \o (y \o z)
    BY Assoc
  <2> QED BY <1>3, <2>1, <2>2 DEF Outgoing
<1>5. /\ un \in Seq(Nat) /\ e \in Seq(Nat) /\ un \o Outgoing(call) = e
  BY <1>1, <1>2, AnswersTyped DEF AnswersOk
<1> HIDE DEF msg, rest, un, e
<1>6. e = (un \o <<msg>>) \o rest
  <2>1. PICK x \in Seq(Nat), y \in Seq(Nat), z \in Seq(Nat) :
            x = un /\ y = <<msg>> /\ z = rest
    BY <1>3, <1>5
  <2>2. (x \o y) \o z = x \o (y \o z)
    BY Assoc
  <2> QED BY <1>4, <1>5, <2>1, <2>2
<1> DEFINE v == un \o <<msg>>
<1>7. \A s, t \in Seq(Nat) :
        /\ s \o t \in Seq(Nat) /\ Len(s \o t) = Len(s) + Len(t) /\ Len(s) \in Nat
        /\ \A i \in 1 .. Len(s) : (s \o t)[i] = s[i]
        /\ \A i \in 1 .. Len(t) : (s \o t)[Len(s) + i] = t[i]
  OBVIOUS
<1>8. /\ v \in Seq(Nat) /\ Len(v) = Len(un) + 1 /\ Len(un) \in Nat
      /\ \A i \in 1 .. Len(un) : v[i] = un[i]
      /\ v[Len(un) + 1] = msg
  <2>1. Len(<<msg>>) = 1 /\ <<msg>>[1] = msg
    OBVIOUS
  <2> QED BY <1>3, <1>5, <1>7, <2>1
<1> HIDE DEF v
<1>9. /\ Len(e) = Len(v) + Len(rest) /\ Len(rest) \in Nat
      /\ \A i \in 1 .. Len(v) : e[i] = v[i]
  <2>1. PICK x \in Seq(Nat), y \in Seq(Nat) : x = v /\ y = rest
    BY <1>3, <1>8
  <2>2. e = x \o y
    BY <1>6, <2>1 DEF v
  <2>3. /\ Len(x \o y) = Len(x) + Len(y) /\ Len(y) \in Nat
        /\ \A i \in 1 .. Len(x) : (x \o y)[i] = x[i]
    BY <1>7
  <2> QED BY <2>1, <2>2, <2>3
<1>10. Len(un) + 1 \in 1 .. Len(v) /\ \A i \in 1 .. Len(un) : i \in 1 .. Len(v)
  BY <1>8
<1>11. Len(un) + 1 \in DOMAIN e
  <2>1. DOMAIN e = 1 .. Len(e)
    BY <1>5, LenProperties
  <2> QED BY <1>8, <1>9, <2>1
<1>12. e[Len(un) + 1] = msg /\ \A i \in 1 .. Len(un) : e[i] = un[i]
  BY <1>8, <1>9, <1>10
<1>13. Len(e) = 1 => Len(un) = 0
  <2>1. PICK x \in Nat, y \in Nat : x = Len(un) /\ y = Len(rest)
    BY <1>8, <1>9
  <2>2. Len(e) = x + 1 + y
    BY <1>8, <1>9, <2>1
  <2>3. x + 1 + y = 1 => x = 0
    OBVIOUS
  <2> QED BY <2>1, <2>2, <2>3
<1> QED BY <1>1, <1>2, <1>3, <1>4, <1>5, <1>6, <1>8, <1>11, <1>12, <1>13 DEF v, msg, rest, un, e

LEMMA ServerTakesKeeps ==
    ASSUME PipeInv, ServerTakes
    PROVE  PipeInv'
<1> DEFINE msg == Head(call.wire)
           rest == Tail(call.wire) \o call.buffer
           e == Expected(Now)
<1>1. /\ call.live /\ call.end = "open" /\ ~call.finished
      /\ msg \in Nat /\ Tail(call.wire) \in Seq(Nat)
      /\ Outgoing(call) = <<msg>> \o rest /\ rest \in Seq(Nat)
      /\ Answers(tasks, Now) \in Seq(Nat) /\ e \in Seq(Nat)
      /\ Answers(tasks, Now) \o <<msg>> \in Seq(Nat)
      /\ e = (Answers(tasks, Now) \o <<msg>>) \o rest
      /\ Len(Answers(tasks, Now)) \in Nat
      /\ Len(Answers(tasks, Now)) + 1 \in DOMAIN e /\ e[Len(Answers(tasks, Now)) + 1] = msg
      /\ \A i \in 1 .. Len(Answers(tasks, Now)) : e[i] = Answers(tasks, Now)[i]
      /\ (Len(e) = 1 => Len(Answers(tasks, Now)) = 0)
  BY TakenFacts
<1>2. /\ Now \in Rec /\ Now.s = store /\ Now.c = call /\ tasks \in Seq(Task)
      /\ store \in Store /\ call \in Call
      /\ StreamOk(Now) /\ AskedOk(Now) /\ CallOk(Now, user)
      /\ TasksOk(tasks, Now, user) /\ AnswersOk(Now, Answers(tasks, Now))
      /\ UsersOk(tasks, user) /\ applied \intersect Bad = {} /\ user \in User
      /\ store.pipe = SubSeq(queue[user], 1, Room(queue[user]))
  BY InvFacts DEF PipeInv, Rec
<1>3. UNCHANGED <<owner, queue, acked, refused, auth, changes, user, store, tasks, faults>>
  BY DEF ServerTakes, appVars, authVars
<1>4. QueuesOk'
  BY <1>3 DEF PipeInv, QueuesOk, Owns
<1>5. \A n \in Range(rest) : n \in Range(Outgoing(call))
  <2>1. \A k \in Nat : <<k>> \in Seq(Nat)
    OBVIOUS
  <2> HIDE DEF msg, rest
  <2>2. <<msg>> \in Seq(Nat)
    BY <1>1, <2>1
  <2> QED BY <1>1, <2>2, ConcatRange
<1>6. /\ owner' \in Seq(User) /\ auth' \in User /\ acked' \subseteq Nat /\ refused' \subseteq Nat
      /\ changes' \in Nat /\ faults' \in Nat /\ queue' \in [User -> Seq(Nat)]
  BY <1>3, InvFacts
<1>7. PICK u \in User : u = user
  BY <1>2
<1>8. PICK ts \in Seq(Task) : ts = tasks
  BY <1>2
<1>9. UsersOk(ts, u)' /\ u = user' /\ ts = tasks'
  BY <1>2, <1>3, <1>7, <1>8 DEF UsersOk
<1>10. CASE msg \in Bad
  <2> DEFINE c == [call EXCEPT !.wire = Tail(@), !.end = "permanent"]
             un == Answers(tasks, Now)
  <2>1. call' = c /\ applied' = applied
    BY <1>10 DEF ServerTakes
  <2>2. /\ c \in Call /\ c.live /\ c.user = call.user /\ ~c.finished /\ c.ops = call.ops
        /\ c.finished = call.finished
        /\ c.back = call.back /\ c.end = "permanent"
        /\ c.wire = Tail(call.wire) /\ c.buffer = call.buffer
    BY <1>1, <1>2 DEF Call, Message
  <2> HIDE DEF c
  <2>3. WithCall(c) \in Rec
    BY <1>2, <2>2 DEF WithCall, Rec
  <2>4. PICK a \in Rec : a = WithCall(c)
    BY <2>3
  <2>5. a.s = store /\ a.c = c /\ Becomes(a)
    BY <1>3, <2>1, <2>4 DEF WithCall, Becomes
  <2>6. TasksOk(ts, a, u)
    BY <1>1, <1>2, <1>7, <1>8, <2>2, <2>4, CallTasks
  <2>7. PICK w : w = Answers(ts, a)
    OBVIOUS
  <2>8. w = un
    <3>1. a.s.closes = Now.s.closes /\ a.c.finished = Now.c.finished /\ a.c.back = Now.c.back
      BY <1>1, <1>2, <2>2, <2>5
    <3>2. Answers(ts, a) = Answers(ts, Now)
      BY <3>1, AnswersSame
    <3> QED BY <1>8, <2>7, <3>2
  <2>9. AnswersOk(a, w)'
    <3>1. \A i \in DOMAIN un : un[i] = Hello \/ un[i] \in applied
      BY <1>2 DEF AnswersOk
    <3>2. IsPrefix(un, Expected(a))
      BY <1>1, <1>2, <2>5 DEF AnswersOk, Expected
    <3> QED BY <2>1, <2>2, <2>5, <2>8, <3>1, <3>2 DEF AnswersOk
  <2>10. CallOk(a, u)'
    <3>1. Outgoing(a.c) = rest
      BY <2>2, <2>5 DEF Outgoing
    <3> QED BY <1>1, <1>2, <1>3, <1>5, <1>7, <2>2, <2>5, <3>1 DEF CallOk, Owns
  <2>11. StreamOk(a) /\ AskedOk(a)
    <3>1. StreamOk(a)
      BY <1>1, <1>2, <2>2, <2>5 DEF StreamOk
    <3>2. AskedOk(a)
      BY <1>2, <2>5 DEF AskedOk
    <3> QED BY <3>1, <3>2
  <2>12. store.shaken
    <3>1. ASSUME ~store.shaken PROVE FALSE
      <4>1. e = <<Hello>>
        BY <1>2, <3>1 DEF Expected
      <4>2. Len(<<Hello>>) = 1 /\ <<Hello>>[1] = Hello
        OBVIOUS
      <4> HIDE DEF msg, e, un
      <4>3. Len(e) = 1 /\ e[1] = Hello
        BY <4>1, <4>2
      <4>4. Len(un) = 0
        BY <1>1, <4>3 DEF un
      <4>5. e[Len(un) + 1] = msg
        BY <1>1 DEF un
      <4>6. Len(un) + 1 = 1
        BY <4>4
      <4>7. msg = Hello
        BY <4>3, <4>5, <4>6
      <4> QED BY <1>10, <4>7, PipelineAssumption DEF PipelineAssumption, Hello
    <3> QED BY <3>1
  <2>13. EndOk(a)'
    <3>1. e = store.pipe
      BY <1>2, <2>12 DEF Expected
    <3>2. ASSUME NEW j \in 1 .. Len(un) PROVE store.pipe[j] \in applied
      <4>1. DOMAIN un = 1 .. Len(un) /\ DOMAIN e = 1 .. Len(e) /\ Len(e) \in Nat
        BY <1>1, LenProperties
      <4>2. un[j] = Hello \/ un[j] \in applied
        BY <1>2, <4>1 DEF AnswersOk
      <4>3. j \in DOMAIN e
        <5> HIDE DEF e, un
        <5>1. Len(un) + 1 \in 1 .. Len(e) /\ Len(un) \in Nat
          BY <1>1, <4>1 DEF un
        <5> QED BY <4>1, <5>1
      <4>4. store.pipe[j] \in Range(store.pipe) /\ store.pipe[j] = un[j]
        BY <1>1, <3>1, <4>3 DEF Range
      <4> QED BY <4>2, <4>4, PipeOwned
    <3> DEFINE i == Len(un) + 1
    <3>3. i \in DOMAIN store.pipe /\ store.pipe[i] \in Bad
      BY <1>1, <1>10, <3>1
    <3>4. \A j \in 1 .. i - 1 : store.pipe[j] \in applied
      BY <1>1, <3>2
    <3> HIDE DEF i
    <3> QED BY <2>1, <2>5, <2>12, <3>3, <3>4 DEF EndOk
  <2>14. applied' \subseteq Nat /\ applied' \intersect Bad = {}
    BY <1>2, <2>1, InvFacts
  <2>15. a.s.pipe = SubSeq(queue'[u], 1, Room(queue'[u]))
    BY <1>2, <1>3, <1>7, <2>5
  <2> QED BY <1>4, <1>6, <1>9, <2>5, <2>6, <2>7, <2>9, <2>10, <2>11, <2>13, <2>14, <2>15, Reached
<1>11. CASE msg \notin Bad
  <2> DEFINE c == [call EXCEPT !.wire = Tail(@), !.back = Append(@, msg)]
             un == Answers(tasks, Now)
  <2>1. call' = c /\ applied' = applied \union ({msg} \ {Hello})
    BY <1>11 DEF ServerTakes
  <2>2. /\ c \in Call /\ c.live /\ c.user = call.user /\ ~c.finished /\ c.ops = call.ops
        /\ c.finished = call.finished
        /\ c.back = Append(call.back, msg) /\ c.end = "open"
        /\ c.wire = Tail(call.wire) /\ c.buffer = call.buffer
    <3>1. \A s \in Seq(Nat), k \in Nat : Append(s, k) \in Seq(Nat)
      OBVIOUS
    <3>2. Append(call.back, msg) \in Seq(Nat)
      BY <1>1, <1>2, <3>1 DEF Call, Message
    <3> HIDE DEF msg
    <3> QED BY <1>1, <1>2, <3>2 DEF Call, Message
  <2> HIDE DEF c
  <2>3. WithCall(c) \in Rec
    BY <1>2, <2>2 DEF WithCall, Rec
  <2>4. PICK a \in Rec : a = WithCall(c)
    BY <2>3
  <2>5. a.s = store /\ a.c = c /\ Becomes(a)
    BY <1>3, <2>1, <2>4 DEF WithCall, Becomes
  <2>6. TasksOk(ts, a, u)
    BY <1>1, <1>2, <1>7, <1>8, <2>2, <2>4, CallTasks
  <2>7. PICK w : w = Answers(ts, a)
    OBVIOUS
  <2>8. w = un \o <<msg>>
    <3>1. PICK m \in Nat, r \in Rec : m = msg /\ r = Now
      BY <1>1, <1>2
    <3>2. /\ a.s.closes = r.s.closes /\ a.c.finished = r.c.finished
          /\ a.c.back = Append(r.c.back, m)
      BY <1>1, <1>2, <2>2, <2>5, <3>1
    <3>3. Answers(ts, a) = Answers(ts, r) \o <<m>>
      BY <3>2, MoreAnswers
    <3> QED BY <1>8, <2>7, <3>1, <3>3
  <2>9. Outgoing(a.c) = rest
    BY <2>2, <2>5 DEF Outgoing
  <2>10. AnswersOk(a, w)'
    <3> HIDE DEF msg, rest, un, e
    <3>1. \A i \in DOMAIN un : un[i] = Hello \/ un[i] \in applied'
      BY <1>2, <2>1 DEF AnswersOk, un
    <3>2. /\ DOMAIN un = 1 .. Len(un) /\ Len(un) \in Nat /\ un \in Seq(Nat)
          /\ DOMAIN w = 1 .. Len(un) + 1 /\ w[Len(un) + 1] = msg
          /\ \A i \in 1 .. Len(un) : w[i] = un[i]
      <4>1. \A s \in Seq(Nat), k \in Nat :
                /\ s \o <<k>> \in Seq(Nat) /\ Len(s \o <<k>>) = Len(s) + 1 /\ Len(s) \in Nat
                /\ (s \o <<k>>)[Len(s) + 1] = k
                /\ \A i \in 1 .. Len(s) : (s \o <<k>>)[i] = s[i]
        OBVIOUS
      <4>2. un \in Seq(Nat) /\ msg \in Nat
        BY <1>1 DEF un
      <4>3. /\ w \in Seq(Nat) /\ Len(w) = Len(un) + 1 /\ Len(un) \in Nat /\ w[Len(un) + 1] = msg
            /\ \A i \in 1 .. Len(un) : w[i] = un[i]
        BY <2>8, <4>1, <4>2
      <4> QED BY <4>2, <4>3, LenProperties
    <3>3. \A i \in DOMAIN w : w[i] = Hello \/ w[i] \in applied'
      <4>1. ASSUME NEW i \in DOMAIN w PROVE w[i] = Hello \/ w[i] \in applied'
        <5>1. CASE i = Len(un) + 1
          BY <2>1, <3>2, <5>1
        <5>2. CASE i # Len(un) + 1
          <6>1. i \in DOMAIN un /\ w[i] = un[i]
            BY <3>2, <5>2
          <6> QED BY <3>1, <6>1
        <5> QED BY <5>1, <5>2
      <4> QED BY <4>1
    <3>4. Expected(a) = e /\ e = w \o rest
      BY <1>1, <1>2, <2>5, <2>8 DEF Expected, un, e
    <3>5. IsPrefix(w, e)
      <4>1. w \in Seq(Nat)
        BY <1>1, <2>8 DEF un
      <4>2. IsPrefix(w, w)
        BY <4>1, PrefixIs, LenProperties
      <4> QED BY <1>1, <3>4, <4>1, <4>2, PrefixGrows
    <3> QED BY <2>2, <2>5, <2>9, <3>3, <3>4, <3>5 DEF AnswersOk
  <2>11. CallOk(a, u)'
    BY <1>1, <1>2, <1>3, <1>5, <1>7, <2>2, <2>5, <2>9 DEF CallOk, Owns
  <2>12. StreamOk(a) /\ AskedOk(a)
    <3>1. StreamOk(a)
      BY <1>1, <1>2, <2>2, <2>5 DEF StreamOk
    <3>2. AskedOk(a)
      BY <1>2, <2>5 DEF AskedOk
    <3> QED BY <3>1, <3>2
  <2>13. EndOk(a)'
    BY <2>2, <2>5 DEF EndOk
  <2>14. applied' \subseteq Nat /\ applied' \intersect Bad = {}
    BY <1>1, <1>2, <1>11, <2>1, InvFacts
  <2>15. a.s.pipe = SubSeq(queue'[u], 1, Room(queue'[u]))
    BY <1>2, <1>3, <1>7, <2>5
  <2> QED BY <1>4, <1>6, <1>9, <2>5, <2>6, <2>7, <2>10, <2>11, <2>12, <2>13, <2>14, <2>15, Reached
<1> QED BY <1>10, <1>11

------------------------------------------------------------------------------
(* The invariant. *)

LEMMA InitOk ==
    ASSUME PipelineInit
    PROVE  PipeInv
<1>1. /\ owner = <<>> /\ applied = {} /\ acked = {} /\ refused = {} /\ auth \in User
      /\ user = auth /\ changes = 0 /\ call = NoCall /\ tasks = <<>> /\ faults = 0
      /\ \A u \in User : queue[u] = <<>>
      /\ queue \in [User -> Seq(Nat)]
  <2>1. <<>> \in Seq(Nat)
    BY EmptySeq
  <2> QED BY <2>1 DEF PipelineInit
<1>2. /\ store.pipe = <<>> /\ store.state = "Initial" /\ ~store.shaken /\ ~store.idle
      /\ store.closes = 0 /\ store.asked = {} /\ store \in Store
  <2>1. <<>> \in Seq(Nat)
    BY EmptySeq
  <2> QED BY <2>1 DEF PipelineInit, Store, StreamStates
<1>3. Now \in Rec /\ Now.s = store /\ Now.c = call
  BY <1>1, <1>2, NoCallFacts DEF Now, Rec
<1>4. owner \in Seq(User) /\ tasks \in Seq(Task) /\ DOMAIN tasks = {}
  BY <1>1, EmptySeq
<1>5. MaxPendingWrites \in Nat \ {0} /\ Len(<<>>) = 0
  BY PipelineAssumption, EmptySeq DEF PipelineAssumption
<1>6. PipelineTypeOK
  BY <1>1, <1>2, <1>4, <1>5, NoCallFacts DEF PipelineTypeOK
<1>7. QueuesOk
  <2>1. DOMAIN <<>> = {}
    OBVIOUS
  <2> QED BY <1>1, <2>1 DEF QueuesOk
<1>8. PipelineIsFull
  <2>1. queue[user] = <<>>
    BY <1>1
  <2>2. SubSeq(<<>>, 1, 0) = <<>>
    OBVIOUS
  <2> QED BY <1>2, <1>5, <2>1, <2>2 DEF PipelineIsFull
<1>9. StreamOk(Now) /\ AskedOk(Now)
  BY <1>1, <1>2, <1>3, NoCallFacts DEF StreamOk, AskedOk
<1>10. AllOutdated(tasks, Now)
  BY <1>4 DEF AllOutdated
<1>11. /\ CallOk(Now, user) /\ TasksOk(tasks, Now, user) /\ EndOk(Now)
       /\ AnswersOk(Now, Answers(tasks, Now))
  <2>1. PICK r \in Rec : r = Now
    BY <1>3
  <2>2. r.c = NoCall /\ AllOutdated(tasks, r)
    BY <1>1, <1>3, <1>10, <2>1
  <2>3. /\ CallOk(r, user) /\ TasksOk(tasks, r, user) /\ EndOk(r)
        /\ AnswersOk(r, Answers(tasks, r))
    BY <1>4, <2>2, ClosedOk
  <2> QED BY <2>1, <2>3
<1>12. UsersOk(tasks, user)
  BY <1>1, <1>4 DEF UsersOk
<1> QED BY <1>1, <1>6, <1>7, <1>8, <1>9, <1>11, <1>12 DEF PipeInv

LEMMA StutterKeeps ==
    ASSUME PipeInv, UNCHANGED pipelineVars
    PROVE  PipeInv'
<1>1. /\ UNCHANGED <<owner, queue, applied, acked, refused, auth, changes, user, faults>>
      /\ Becomes(Now) /\ tasks' = tasks
  BY StoreIsNow DEF pipelineVars
<1>2. /\ PipeInv
      /\ Now.s.pipe = store.pipe /\ StreamOk(Now) /\ AskedOk(Now) /\ CallOk(Now, user)
      /\ TasksOk(tasks, Now, user) /\ UsersOk(tasks, user)
      /\ AnswersOk(Now, Answers(tasks, Now)) /\ EndOk(Now)
      /\ faults \in Nat /\ tasks \in Seq(Task) /\ Now \in Rec
  BY InvFacts DEF PipeInv
<1>3. PICK a \in Rec : a = Now
  BY <1>2
<1> QED BY <1>1, <1>2, <1>3, StreamSteps

LEMMA NextOk ==
    ASSUME PipeInv, [PipelineNext]_pipelineVars
    PROVE  PipeInv'
<1>1. CASE WriteMutations
  BY <1>1, WriteMutationsKeeps
<1>2. ASSUME NEW u \in User, CredentialChange(u) PROVE PipeInv'
  BY <1>2, CredentialChangeKeeps
<1>3. CASE TokenAnswers
  BY <1>3, GetTokenAnswerKeeps DEF TokenAnswers
<1>4. CASE RunTask
  BY <1>4, RunCancelledKeeps, RunTokenKeeps, RunUserKeeps, RunReadKeeps, RunWroteKeeps,
     RunBrokenKeeps, RunFinishedKeeps DEF RunTask
<1>5. CASE BackoffElapsed \/ IdleTimeout \/ ConnectivityChange \/ Restart
  BY <1>5, BackoffElapsedKeeps, IdleTimeoutKeeps, ConnectivityChangeKeeps, RestartKeeps
<1>6. CASE Completes
  BY <1>6, ReadDoneKeeps, CompletesKeeps DEF Completes
<1>7. CASE ServerTakes
  BY <1>7, ServerTakesKeeps
<1>8. CASE CallBreaks
  BY <1>8, CallBreaksKeeps
<1>9. CASE UNCHANGED pipelineVars
  BY <1>9, StutterKeeps
<1> QED BY <1>1, <1>2, <1>3, <1>4, <1>5, <1>6, <1>7, <1>8, <1>9 DEF PipelineNext

(* The strengthened invariant holds in every state: what is on disk, in the    *)
(* pipeline, on the call and on the worker queue always fits together.         *)
THEOREM PipeInvariant == PipelineSpec => []PipeInv
<1>1. PipelineInit => PipeInv
  BY InitOk
<1>2. PipeInv /\ [PipelineNext]_pipelineVars => PipeInv'
  BY NextOk
<1> QED BY <1>1, <1>2, PTL DEF PipelineSpec

(* Every variable keeps its type, and the pipeline never holds more batches    *)
(* than kMaxPendingWrites.                                                     *)
THEOREM PipelineTypeCorrect == PipelineSpec => []PipelineTypeOK
<1>1. PipeInv => PipelineTypeOK
  BY DEF PipeInv
<1>2. PipelineSpec => []PipeInv
  BY PipeInvariant
<1> QED BY <1>1, <1>2, PTL

(* Between two tasks the pipeline holds the oldest batches of the user in      *)
(* force, as many as it has room for: no handler leaves a write behind.        *)
THEOREM PipelineStaysFull == PipelineSpec => []PipelineIsFull
<1>1. PipeInv => PipelineIsFull
  BY DEF PipeInv
<1>2. PipelineSpec => []PipeInv
  BY PipeInvariant
<1> QED BY <1>1, <1>2, PTL

------------------------------------------------------------------------------
(* What the invariant says of the answers, the credentials and the assertions. *)

LEMMA ReadsAre ==
    ASSUME PipeInv, call.live, ~call.finished
    PROVE  ReadsToHandle = ReadsIn(tasks, Now) /\ Unhandled = Answers(tasks, Now)
<1>1. Now.s = store /\ Now.c = call
  BY InvFacts
<1>2. ReadsToHandle = ReadsIn(tasks, Now)
  BY <1>1 DEF ReadsToHandle, ReadsIn, Cancelled, Current
<1> QED BY <1>1, <1>2 DEF Unhandled, Answers

LEMMA MatchOk ==
    ASSUME PipeInv
    PROVE  AnswersMatchPipeline
<1> SUFFICES ASSUME call.live, ~call.finished
             PROVE  /\ \A i, j \in ReadsToHandle : i = j
                    /\ IsPrefix(Unhandled, Expected(Now))
                    /\ call.end = "open" =>
                            Unhandled \o call.wire \o call.buffer = Expected(Now)
  <2>1. Expected(Now) = IF store.shaken THEN store.pipe ELSE <<Hello>>
    BY InvFacts DEF Expected
  <2> QED BY <2>1 DEF AnswersMatchPipeline
<1>1. /\ Now \in Rec /\ Now.s = store /\ Now.c = call /\ tasks \in Seq(Task)
      /\ TasksOk(tasks, Now, user) /\ AnswersOk(Now, Answers(tasks, Now))
      /\ call.wire \in Seq(Nat) /\ call.buffer \in Seq(Nat)
  BY InvFacts DEF PipeInv, Rec, Call, Message
<1>2. ReadsToHandle = ReadsIn(tasks, Now) /\ Unhandled = Answers(tasks, Now)
  BY ReadsAre
<1>3. \A i, j \in ReadsToHandle : i = j
  BY <1>1, <1>2, AnswersAre
<1>4. /\ IsPrefix(Unhandled, Expected(Now))
      /\ call.end = "open" => Unhandled \o Outgoing(call) = Expected(Now)
  BY <1>1, <1>2 DEF AnswersOk
<1>5. Unhandled \o call.wire \o call.buffer = Unhandled \o Outgoing(call)
  <2>1. Unhandled \in Seq(Nat)
    BY <1>1, <1>2, AnswersTyped
  <2>2. PICK x \in Seq(Nat), y \in Seq(Nat), z \in Seq(Nat) :
            x = Unhandled /\ y = call.wire /\ z = call.buffer
    BY <1>1, <2>1
  <2>3. (x \o y) \o z = x \o (y \o z)
    BY Assoc
  <2> QED BY <2>2, <2>3 DEF Outgoing
<1> QED BY <1>3, <1>4, <1>5

LEMMA CredentialsOk ==
    ASSUME PipeInv
    PROVE  OwnCredentials
<1>1. /\ Now.c = call /\ CallOk(Now, user) /\ (~call.live => call = NoCall)
      /\ call.wire \in Seq(Nat) /\ call.buffer \in Seq(Nat)
  BY InvFacts DEF PipeInv, StreamOk, Rec, Call, Message
<1> SUFFICES ASSUME NEW n \in Range(call.wire)
             PROVE  n = Hello \/ owner[n] = call.user
  BY DEF OwnCredentials
<1>2. call.live
  <2>1. ASSUME ~call.live PROVE FALSE
    <3>1. call.wire = <<>>
      BY <1>1, <2>1, NoCallFacts
    <3>2. Range(<<>>) = {}
      BY DEF Range
    <3> QED BY <3>1, <3>2
  <2> QED BY <2>1
<1>3. n \in Range(Outgoing(call))
  BY <1>1, ConcatRange DEF Outgoing
<1> QED BY <1>1, <1>2, <1>3 DEF CallOk, Owns

(* The first batch of a pipeline that is not empty is the oldest of the queue. *)
LEMMA FrontOk ==
    ASSUME PipeInv, store.pipe # <<>>
    PROVE  /\ queue[user] # <<>> /\ Head(store.pipe) = Head(queue[user])
           /\ \A i \in DOMAIN store.pipe :
                i \in DOMAIN queue[user] /\ store.pipe[i] = queue[user][i]
<1>1. /\ Sorted(queue[user]) /\ queue[user] \in Seq(Nat)
      /\ store.pipe = SubSeq(queue[user], 1, Room(queue[user]))
  BY InvFacts DEF Sorted
<1>2. PICK q \in Seq(Nat) : q = queue[user]
  BY <1>1
<1>3. q # <<>> /\ Head(store.pipe) = Head(q)
  BY <1>1, <1>2, DropFacts
<1>4. Room(q) \in 0 .. Len(q)
  BY RoomFacts
<1>5. \A s \in Seq(Nat), k \in Nat : k <= Len(s) =>
        /\ DOMAIN SubSeq(s, 1, k) = 1 .. k
        /\ \A i \in 1 .. k : i \in DOMAIN s /\ SubSeq(s, 1, k)[i] = s[i]
  OBVIOUS
<1>6. Room(q) \in Nat /\ Room(q) <= Len(q)
  BY <1>4
<1> QED BY <1>1, <1>2, <1>3, <1>5, <1>6

(* A read that is not cancelled answers the first message that is expected.    *)
LEMMA ReadAnswers ==
    ASSUME PipeInv, tasks # <<>>, Head(tasks).kind = "read", ~Cancelled(Head(tasks)),
           store.shaken
    PROVE  /\ store.state = "Open" /\ store.pipe # <<>>
           /\ Head(store.pipe) \in applied
<1> DEFINE m == Head(tasks).msg
<1>1. /\ Now \in Rec /\ Now.s = store /\ Now.c = call /\ tasks \in Seq(Task)
      /\ TasksOk(tasks, Now, user) /\ AnswersOk(Now, Answers(tasks, Now))
      /\ (call.live <=> store.state = "Open")
  BY InvFacts DEF PipeInv, StreamOk
<1>2. Head(tasks) = tasks[1] /\ 1 \in DOMAIN tasks
  BY <1>1, TaskFacts
<1>3. 1 \in ReadsIn(tasks, Now)
  BY <1>1, <1>2 DEF ReadsIn, Cancelled, Current
<1>4. call.live /\ ~call.finished
  BY <1>1, <1>3 DEF ReadsIn, TasksOk
<1>5. /\ m \in Nat /\ call.back \in Seq(Nat) /\ store.pipe \in Seq(Nat)
      /\ Answers(tasks, Now) = <<m>> \o call.back
  <2>1. call.back \in Seq(Nat) /\ store.pipe \in Seq(Nat) /\ m \in Nat
    BY <1>1, <1>2, <1>3, AnswersTyped
  <2>2. Answers(tasks, Now) = <<tasks[1].msg>> \o Now.c.back
    BY <1>1, <1>3, AnswersAre
  <2> QED BY <1>1, <1>2, <2>1, <2>2
<1>6. IsPrefix(<<m>> \o call.back, store.pipe)
  BY <1>1, <1>4, <1>5 DEF AnswersOk, Expected
<1> HIDE DEF m
<1>7. store.pipe # <<>> /\ Head(store.pipe) = m
  BY <1>5, <1>6, PrefixTail
<1>8. m = Hello \/ m \in applied
  <2>1. /\ 1 \in DOMAIN (<<m>> \o call.back) /\ (<<m>> \o call.back)[1] = m
    <3>1. /\ <<m>> \o call.back \in Seq(Nat) /\ Len(<<m>> \o call.back) = Len(call.back) + 1
          /\ (<<m>> \o call.back)[1] = m /\ Len(call.back) \in Nat
      BY <1>5, OneMore
    <3> QED BY <3>1, LenProperties
  <2> QED BY <1>1, <1>5, <2>1 DEF AnswersOk
<1>9. Head(store.pipe) \in Range(store.pipe)
  <2>1. Len(store.pipe) \in Nat \ {0} /\ DOMAIN store.pipe = 1 .. Len(store.pipe)
    BY <1>5, <1>7, LenProperties, EmptySeq
  <2>2. Head(store.pipe) = store.pipe[1] /\ 1 \in DOMAIN store.pipe
    BY <1>5, <1>7, <2>1
  <2> QED BY <2>2 DEF Range
<1>10. m # Hello
  BY <1>7, <1>9, PipeOwned
<1> QED BY <1>1, <1>4, <1>7, <1>8, <1>10

(* A permanent error met a batch of the pipeline that the server refuses.      *)
LEMMA FinishBlames ==
    ASSUME PipeInv, tasks # <<>>, Head(tasks).kind = "finished", ~Cancelled(Head(tasks))
    PROVE  /\ store.state = "Open" /\ Head(tasks).end # "open"
           /\ Head(tasks).end = "permanent" =>
                /\ store.pipe # <<>>
                /\ \E i \in DOMAIN queue[user] :
                    /\ queue[user][i] \in Bad
                    /\ \A j \in 1 .. i - 1 : queue[user][j] \in applied
<1>1. /\ Now \in Rec /\ Now.s = store /\ Now.c = call /\ tasks \in Seq(Task)
      /\ TasksOk(tasks, Now, user) /\ EndOk(Now)
      /\ (call.live <=> store.state = "Open") /\ (call.finished => call.end # "open")
      /\ store.pipe \in Seq(Nat)
  BY InvFacts, AnswersTyped DEF PipeInv, StreamOk
<1>2. Head(tasks) = tasks[1] /\ 1 \in DOMAIN tasks
  BY <1>1, TaskFacts
<1>3. Current(tasks[1], Now)
  BY <1>1, <1>2 DEF Cancelled, Current
<1>4. call.live /\ call.finished /\ Head(tasks).end = call.end
  BY <1>1, <1>2, <1>3 DEF TasksOk
<1>5. ASSUME Head(tasks).end = "permanent"
      PROVE  /\ store.pipe # <<>>
             /\ \E i \in DOMAIN queue[user] :
                    /\ queue[user][i] \in Bad
                    /\ \A j \in 1 .. i - 1 : queue[user][j] \in applied
  <2>1. PICK i \in DOMAIN store.pipe :
            store.pipe[i] \in Bad /\ \A j \in 1 .. i - 1 : store.pipe[j] \in applied
    BY <1>1, <1>4, <1>5 DEF EndOk
  <2>2. store.pipe # <<>>
    BY <2>1
  <2>3. \A j \in DOMAIN store.pipe :
            j \in DOMAIN queue[user] /\ store.pipe[j] = queue[user][j]
    BY <2>2, FrontOk
  <2>4. \A j \in 1 .. i - 1 : j \in DOMAIN store.pipe
    <3>1. DOMAIN store.pipe = 1 .. Len(store.pipe) /\ Len(store.pipe) \in Nat
      BY <1>1, LenProperties
    <3> QED BY <2>1, <3>1
  <2> QED BY <2>1, <2>2, <2>3, <2>4
<1> QED BY <1>1, <1>4, <1>5

LEMMA AssertionsOk ==
    ASSUME PipeInv
    PROVE  NoAssertionFails
<1> DEFINE t == Head(tasks)
           front == store.pipe # <<>> /\ Head(store.pipe) = Head(queue[user])
<1>1. /\ Now.s = store /\ Now.c = call /\ tasks \in Seq(Task)
      /\ TasksOk(tasks, Now, user)
      /\ (call.live <=> store.state = "Open") /\ (store.idle => store.pipe = <<>>)
  BY InvFacts DEF PipeInv, StreamOk
<1>2. ASSUME tasks # <<>>, t.kind = "token", ~Outdated(t) PROVE store.state = "Starting"
  <2>1. t = tasks[1] /\ 1 \in DOMAIN tasks
    BY <1>1, <1>2, TaskFacts
  <2>2. Current(tasks[1], Now)
    BY <1>1, <1>2, <2>1 DEF Outdated, Current
  <2> QED BY <1>1, <1>2, <2>1, <2>2 DEF TasksOk
<1>3. ASSUME tasks # <<>>, t.kind = "read", ~Cancelled(t)
      PROVE  IsStarted(store) /\ (store.shaken => front)
  <2>1. t = tasks[1] /\ 1 \in DOMAIN tasks
    BY <1>1, <1>3, TaskFacts
  <2>2. Current(tasks[1], Now)
    BY <1>1, <1>3, <2>1 DEF Cancelled, Current
  <2>3. call.live
    BY <1>1, <1>3, <2>1, <2>2 DEF TasksOk
  <2>4. store.shaken => front
    BY <1>3, ReadAnswers, FrontOk
  <2> QED BY <1>1, <2>3, <2>4 DEF IsStarted
<1>4. ASSUME tasks # <<>>, t.kind = "finished", ~Cancelled(t)
      PROVE  IsStarted(store) /\ t.end # "open" /\ (t.end = "permanent" => front)
  <2>1. /\ store.state = "Open" /\ t.end # "open"
        /\ t.end = "permanent" => store.pipe # <<>>
    BY <1>4, FinishBlames
  <2> QED BY <2>1, FrontOk DEF IsStarted
<1> QED BY <1>1, <1>2, <1>3, <1>4 DEF NoAssertionFails

(* Whatever the server answered, is being sent or waits to be, is the pipeline *)
(* in its order: an answer settles the write it is for.                        *)
THEOREM AnswersStayMatched == PipelineSpec => []AnswersMatchPipeline
<1>1. PipeInv => AnswersMatchPipeline
  BY MatchOk
<1>2. PipelineSpec => []PipeInv
  BY PipeInvariant
<1> QED BY <1>1, <1>2, PTL

(* No write is sent under the credentials of another account.                  *)
THEOREM CredentialsStayOwn == PipelineSpec => []OwnCredentials
<1>1. PipeInv => OwnCredentials
  BY CredentialsOk
<1>2. PipelineSpec => []PipeInv
  BY PipeInvariant
<1> QED BY <1>1, <1>2, PTL

(* No task that the worker queue is about to run meets an assertion of the     *)
(* stream, the remote store or the mutation queue that fails.                  *)
THEOREM AssertionsHold == PipelineSpec => []NoAssertionFails
<1>1. PipeInv => NoAssertionFails
  BY AssertionsOk
<1>2. PipelineSpec => []PipeInv
  BY PipeInvariant
<1> QED BY <1>1, <1>2, PTL

------------------------------------------------------------------------------
(* The ordered queue. *)

LEMMA AddStep ==
    ASSUME PipeInv, WriteMutations
    PROVE  Queue!QueueNext
<1>1. user \in User
  BY InvFacts
<1>2. Queue!Add(user)
  BY DEF WriteMutations, serverVars, Queue!Add
<1> QED BY <1>1, <1>2 DEF Queue!QueueNext

LEMMA AcceptStep ==
    ASSUME PipeInv, RunRead
    PROVE  [Queue!QueueNext]_(Queue!queueVars)
<1>1. /\ tasks # <<>> /\ Head(tasks).kind = "read" /\ ~Cancelled(Head(tasks))
      /\ UNCHANGED <<owner, applied, refused>>
  BY DEF RunRead, Run, serverVars
<1>2. CASE ~store.shaken
  <2>1. UNCHANGED <<queue, acked>>
    BY <1>2 DEF RunRead
  <2> QED BY <1>1, <2>1 DEF Queue!queueVars
<1>3. CASE store.shaken
  <2>1. /\ acked' = acked \union {Head(store.pipe)}
        /\ queue' = [queue EXCEPT ![user] = Tail(@)]
    BY <1>3 DEF RunRead
  <2>2. /\ queue[user] # <<>> /\ Head(store.pipe) = Head(queue[user])
        /\ Head(store.pipe) \in applied
    BY <1>1, <1>3, ReadAnswers, FrontOk
  <2>3. Queue!Accept(user)
    BY <1>1, <2>1, <2>2 DEF Queue!Accept
  <2>4. user \in User
    BY InvFacts
  <2> QED BY <2>3, <2>4 DEF Queue!QueueNext
<1> QED BY <1>2, <1>3

LEMMA GiveUpStep ==
    ASSUME PipeInv, RunFinished
    PROVE  [Queue!QueueNext]_(Queue!queueVars)
<1> DEFINE blamed == Head(tasks).end = "permanent" /\ store.shaken /\ store.pipe # <<>>
<1>1. /\ tasks # <<>> /\ Head(tasks).kind = "finished" /\ ~Cancelled(Head(tasks))
      /\ UNCHANGED <<owner, applied, acked>>
  BY DEF RunFinished, Run, serverVars
<1>2. CASE ~blamed
  <2>1. UNCHANGED <<refused, queue>>
    BY <1>2 DEF RunFinished
  <2> QED BY <1>1, <2>1 DEF Queue!queueVars
<1>3. CASE blamed
  <2>1. /\ refused' = refused \union {Head(store.pipe)}
        /\ queue' = [queue EXCEPT ![user] = Tail(@)]
    BY <1>3 DEF RunFinished
  <2>2. /\ Head(store.pipe) = Head(queue[user])
        /\ \E i \in DOMAIN queue[user] :
                /\ queue[user][i] \in Bad
                /\ \A j \in 1 .. i - 1 : queue[user][j] \in applied
    BY <1>1, <1>3, FinishBlames, FrontOk
  <2>3. Queue!GiveUp(user)
    BY <1>1, <2>1, <2>2 DEF Queue!GiveUp, Queue!InLine
  <2>4. user \in User
    BY InvFacts
  <2> QED BY <2>3, <2>4 DEF Queue!QueueNext
<1> QED BY <1>2, <1>3

LEMMA ApplyStep ==
    ASSUME PipeInv, ServerTakes
    PROVE  [Queue!QueueNext]_(Queue!queueVars)
<1> DEFINE msg == Head(call.wire)
           rest == Tail(call.wire) \o call.buffer
           un == Answers(tasks, Now)
           e == Expected(Now)
<1>1. /\ un \in Seq(Nat) /\ e \in Seq(Nat) /\ Len(un) \in Nat
      /\ Len(un) + 1 \in DOMAIN e /\ e[Len(un) + 1] = msg
      /\ \A i \in 1 .. Len(un) : e[i] = un[i]
  BY TakenFacts
<1>2. UNCHANGED <<owner, queue, acked, refused>>
  BY DEF ServerTakes, appVars
<1>3. CASE applied' = applied
  BY <1>2, <1>3 DEF Queue!queueVars
<1>4. CASE applied' # applied
  <2>1. msg \notin Bad /\ applied' = applied \union ({msg} \ {Hello})
    BY <1>4 DEF ServerTakes
  <2>2. msg # Hello /\ applied' = applied \union {msg}
    BY <1>4, <2>1
  <2>3. Now.s = store /\ Now.c = call /\ AnswersOk(Now, un) /\ user \in User
    BY InvFacts DEF PipeInv
  <2> HIDE DEF msg, rest, un
  <2>4. store.shaken
    <3>1. ASSUME ~store.shaken PROVE FALSE
      <4>1. e = <<Hello>>
        BY <2>3, <3>1 DEF Expected
      <4> HIDE DEF e
      <4>2. DOMAIN <<Hello>> = {1} /\ <<Hello>>[1] = Hello
        OBVIOUS
      <4>3. Len(un) + 1 = 1
        BY <1>1, <4>1, <4>2
      <4> QED BY <1>1, <2>2, <4>1, <4>2, <4>3
    <3> QED BY <3>1
  <2>5. e = store.pipe
    BY <2>3, <2>4 DEF Expected
  <2> HIDE DEF e
  <2> DEFINE i == Len(un) + 1
  <2>6. i \in DOMAIN store.pipe /\ store.pipe[i] = msg
    BY <1>1, <2>5
  <2>7. \A j \in DOMAIN store.pipe :
            j \in DOMAIN queue[user] /\ store.pipe[j] = queue[user][j]
    <3>1. store.pipe # <<>>
      BY <2>6
    <3> QED BY <3>1, FrontOk
  <2>8. ASSUME NEW j \in 1 .. i - 1 PROVE queue[user][j] \in applied
    <3>1. j \in 1 .. Len(un)
      BY <1>1
    <3>2. DOMAIN e = 1 .. Len(e) /\ DOMAIN un = 1 .. Len(un) /\ Len(e) \in Nat
      BY <1>1, LenProperties
    <3>3. Len(un) + 1 <= Len(e)
      BY <1>1, <3>2
    <3>4. j \in DOMAIN e
      BY <1>1, <3>1, <3>2, <3>3
    <3>5. un[j] = Hello \/ un[j] \in applied
      BY <2>3, <3>1, <3>2 DEF AnswersOk
    <3>6. store.pipe[j] \in Range(store.pipe) /\ store.pipe[j] = un[j]
      BY <1>1, <2>5, <3>1, <3>4 DEF Range
    <3>7. store.pipe[j] # Hello
      BY <3>6, PipeOwned
    <3> QED BY <2>5, <2>7, <3>4, <3>5, <3>6, <3>7
  <2> HIDE DEF i
  <2>9. Queue!Apply(user)
    <3>1. /\ i \in DOMAIN queue[user] /\ queue[user][i] = msg
          /\ Queue!InLine(user, i)
      BY <2>6, <2>7, <2>8 DEF Queue!InLine
    <3> QED BY <1>2, <2>1, <2>2, <3>1 DEF Queue!Apply
  <2> QED BY <2>3, <2>9 DEF Queue!QueueNext
<1> QED BY <1>3, <1>4

LEMMA StepOk ==
    ASSUME PipeInv, [PipelineNext]_pipelineVars
    PROVE  [Queue!QueueNext]_(Queue!queueVars)
<1> USE DEF Queue!queueVars
<1>1. CASE WriteMutations
  BY <1>1, AddStep
<1>2. ASSUME NEW u \in User, CredentialChange(u)
      PROVE  [Queue!QueueNext]_(Queue!queueVars)
  BY <1>2 DEF CredentialChange, serverVars, appVars
<1>3. CASE TokenAnswers
  BY <1>3 DEF TokenAnswers, GetTokenAnswer, serverVars, appVars
<1>4. CASE RunTask
  <2>1. CASE RunRead
    BY <2>1, AcceptStep
  <2>2. CASE RunFinished
    BY <2>2, GiveUpStep
  <2>3. CASE RunCancelled \/ RunToken \/ RunUser \/ RunWrote \/ RunBroken
    BY <2>3 DEF RunCancelled, RunToken, RunUser, RunWrote, RunBroken, serverVars, appVars
  <2> QED BY <1>4, <2>1, <2>2, <2>3 DEF RunTask
<1>5. CASE BackoffElapsed \/ IdleTimeout \/ ConnectivityChange \/ Restart
  BY <1>5 DEF BackoffElapsed, IdleTimeout, ConnectivityChange, Restart, serverVars, appVars
<1>6. CASE Completes
  BY <1>6 DEF Completes, ReadDone, ReadBroken, WriteDone, WriteBroken, FinishDone, Posts,
              serverVars, appVars
<1>7. CASE ServerTakes
  BY <1>7, ApplyStep
<1>8. CASE CallBreaks
  BY <1>8 DEF CallBreaks, serverVars, appVars
<1>9. CASE UNCHANGED pipelineVars
  BY <1>9 DEF pipelineVars
<1> QED BY <1>1, <1>2, <1>3, <1>4, <1>5, <1>6, <1>7, <1>8, <1>9 DEF PipelineNext

(* The write path is an ordered queue that delivers at least once: the server  *)
(* applies a write only while it is queued and after the older ones of its     *)
(* user, and the app is told that it is done only after it was applied,        *)
(* whatever breaks, however often the credentials change and the app restarts. *)
THEOREM PipelineImplementsQueue == PipelineSpec => QueueIsImplemented
<1>1. PipelineInit => Queue!QueueInit
  BY DEF PipelineInit, Queue!QueueInit
<1>2. PipeInv /\ [PipelineNext]_pipelineVars => [Queue!QueueNext]_(Queue!queueVars)
  BY StepOk
<1>3. PipelineSpec => []PipeInv
  BY PipeInvariant
<1> QED BY <1>1, <1>2, <1>3, PTL DEF PipelineSpec, QueueIsImplemented, Queue!QueueSpec

------------------------------------------------------------------------------
(* What the app can rely on is proved of the queue, and carried over.          *)

Waits(u, n) == \E i \in DOMAIN queue[u] : queue[u][i] = n

Settled(n) == n \in acked \/ n \in refused

(* The promises of the queue, without ranges. *)
Fate ==
    /\ \A n : n \in DOMAIN owner <=> (\E u \in User : Waits(u, n)) \/ Settled(n)
    /\ \A u \in User : \A n : ~(Waits(u, n) /\ Settled(n))
    /\ \A n : ~(n \in acked /\ n \in refused)

Order ==
    \A u \in User : \A n, m : Waits(u, n) /\ Settled(m) /\ owner[m] = u => m < n

QueueInv ==
    /\ owner \in Seq(User)
    /\ queue \in [User -> Seq(Nat)]
    /\ applied \subseteq DOMAIN owner
    /\ QueuesOk
    /\ Fate
    /\ Order
    /\ NoWriteOvertakes

LEMMA PromisesAre ==
    /\ Fate => EveryWriteHasOneFate
    /\ Order => ReportsInOrder
<1>1. \A n : n \in Queue!Queued <=> \E u \in User : Waits(u, n)
  BY DEF Queue!Queued, Waits, Queue!Range
<1>2. ASSUME Fate PROVE EveryWriteHasOneFate
  <2>1. DOMAIN owner = Queue!Queued \union acked \union refused
    BY <1>1, <1>2 DEF Fate, Settled
  <2> QED BY <1>1, <1>2, <2>1 DEF Fate, Settled, EveryWriteHasOneFate, Queue!OneFate
<1>3. Order => ReportsInOrder
  BY DEF Order, Settled, ReportsInOrder, Queue!ReportedInOrder, Waits, Queue!Range
<1> QED BY <1>2, <1>3

LEMMA QueueInvInit == Queue!QueueInit => QueueInv
<1> SUFFICES ASSUME Queue!QueueInit PROVE QueueInv
  OBVIOUS
<1>1. /\ owner = <<>> /\ queue = [u \in User |-> <<>>]
      /\ applied = {} /\ acked = {} /\ refused = {}
  BY DEF Queue!QueueInit
<1>2. owner \in Seq(User) /\ DOMAIN owner = {} /\ queue \in [User -> Seq(Nat)]
  BY <1>1, EmptySeq
<1>3. \A u \in User : DOMAIN queue[u] = {}
  BY <1>1, EmptySeq
<1>4. QueuesOk /\ Fate /\ Order
  BY <1>1, <1>2, <1>3 DEF QueuesOk, Fate, Order, Waits, Settled
<1> QED BY <1>1, <1>2, <1>4 DEF QueueInv, NoWriteOvertakes, Queue!AppliedInOrder

(* A write is added behind all others. *)
LEMMA QueueAdd ==
    ASSUME QueueInv, NEW u \in User, Queue!Add(u)
    PROVE  QueueInv'
<1> DEFINE n == Len(owner) + 1
<1>1. /\ owner \in Seq(User) /\ queue \in [User -> Seq(Nat)] /\ applied \subseteq DOMAIN owner
      /\ QueuesOk /\ Fate /\ Order /\ NoWriteOvertakes
  BY DEF QueueInv
<1>2. /\ owner' = Append(owner, u) /\ queue' = [queue EXCEPT ![u] = Append(queue[u], n)]
      /\ applied' = applied /\ acked' = acked /\ refused' = refused
  BY DEF Queue!Add
<1>3. n \in Nat /\ DOMAIN owner = 1 .. n - 1 /\ n - 1 \in Nat
  BY <1>1, LenProperties
<1>4. /\ owner' \in Seq(User) /\ DOMAIN owner' = DOMAIN owner \union {n}
      /\ owner'[n] = u /\ \A m \in DOMAIN owner : owner'[m] = owner[m]
  <2>1. /\ owner' \in Seq(User) /\ Len(owner') = n
        /\ \A m \in 1 .. n - 1 : owner'[m] = owner[m]
        /\ owner'[n] = u
    BY <1>1, <1>2, <1>3, AppendProperties
  <2>2. DOMAIN owner' = 1 .. n
    BY <2>1, LenProperties
  <2> QED BY <1>3, <2>1, <2>2
<1> HIDE DEF n
<1>5. /\ queue' \in [User -> Seq(Nat)]
      /\ \A v \in User : v # u => queue'[v] = queue[v]
      /\ queue'[u] = Append(queue[u], n)
  <2>1. Append(queue[u], n) \in Seq(Nat)
    BY <1>1, <1>3, AppendProperties
  <2> QED BY <1>1, <1>2, <2>1
<1>6. PICK k \in Nat :
        /\ DOMAIN queue[u] = 1 .. k /\ DOMAIN queue'[u] = 1 .. k + 1
        /\ queue'[u][k + 1] = n /\ \A i \in 1 .. k : queue'[u][i] = queue[u][i]
  <2> DEFINE q == queue[u]
  <2>1. q \in Seq(Nat) /\ Len(q) \in Nat /\ DOMAIN q = 1 .. Len(q)
    BY <1>1, LenProperties
  <2>2. /\ Append(q, n) \in Seq(Nat) /\ Len(Append(q, n)) = Len(q) + 1
        /\ \A i \in 1 .. Len(q) : Append(q, n)[i] = q[i]
        /\ Append(q, n)[Len(q) + 1] = n
    BY <1>3, <2>1, AppendProperties
  <2>3. DOMAIN Append(q, n) = 1 .. Len(q) + 1
    BY <2>2, LenProperties
  <2> HIDE DEF q
  <2>4. queue[u] = q /\ queue'[u] = Append(q, n)
    BY <1>5 DEF q
  <2> QED BY <2>1, <2>2, <2>3, <2>4
<1>7. /\ \A v \in User : \A m : Waits(v, m)' <=> Waits(v, m) \/ (v = u /\ m = n)
      /\ \A m : Settled(m)' <=> Settled(m)
  <2>1. \A v \in User : \A m : v # u => (Waits(v, m)' <=> Waits(v, m))
    BY <1>5 DEF Waits
  <2>2. \A m : Waits(u, m)' <=> Waits(u, m) \/ m = n
    BY <1>6 DEF Waits
  <2> QED BY <1>2, <2>1, <2>2 DEF Settled
<1>8. \A v \in User : \A m : Waits(v, m) => m \in DOMAIN owner /\ m < n
  BY <1>1, <1>3 DEF QueuesOk, Owns, Waits
<1>9. \A m : Settled(m) => m \in DOMAIN owner /\ m < n
  BY <1>1, <1>3 DEF Fate
<1>10. QueuesOk'
  <2>1. \A v \in User : v # u =>
            /\ \A i \in DOMAIN queue'[v] : queue'[v][i] \in DOMAIN owner' /\ owner'[queue'[v][i]] = v
            /\ \A i, j \in DOMAIN queue'[v] : i < j => queue'[v][i] < queue'[v][j]
    <3> TAKE v \in User
    <3> HAVE v # u
    <3>1. queue'[v] = queue[v]
      BY <1>5
    <3>2. /\ \A i \in DOMAIN queue[v] : queue[v][i] \in DOMAIN owner /\ owner[queue[v][i]] = v
          /\ \A i, j \in DOMAIN queue[v] : i < j => queue[v][i] < queue[v][j]
      BY <1>1 DEF QueuesOk, Owns
    <3> QED BY <1>4, <3>1, <3>2
  <2>2. \A i \in 1 .. k + 1 : (i \in 1 .. k /\ i < k + 1) \/ i = k + 1
    OBVIOUS
  <2>3. \A i \in 1 .. k + 1 : queue'[u][i] \in DOMAIN owner' /\ owner'[queue'[u][i]] = u
    <3>1. \A i \in 1 .. k : queue[u][i] \in DOMAIN owner /\ owner[queue[u][i]] = u
      BY <1>1, <1>6 DEF QueuesOk, Owns
    <3>2. \A i \in 1 .. k : queue'[u][i] \in DOMAIN owner' /\ owner'[queue'[u][i]] = u
      <4> TAKE i \in 1 .. k
      <4>1. queue'[u][i] = queue[u][i]
        BY <1>6
      <4> QED BY <1>4, <3>1, <4>1
    <3>3. queue'[u][k + 1] \in DOMAIN owner' /\ owner'[queue'[u][k + 1]] = u
      BY <1>4, <1>6
    <3> QED BY <2>2, <3>2, <3>3
  <2>4. \A i \in 1 .. k : queue[u][i] < n
    BY <1>6, <1>8 DEF Waits
  <2>5. \A i, j \in 1 .. k + 1 : i < j => queue'[u][i] < queue'[u][j]
    <3> SUFFICES ASSUME NEW i \in 1 .. k + 1, NEW j \in 1 .. k + 1, i < j
                 PROVE  queue'[u][i] < queue'[u][j]
      OBVIOUS
    <3>1. i \in 1 .. k
      OBVIOUS
    <3>2. CASE j = k + 1
      BY <1>6, <2>4, <3>1, <3>2
    <3>3. CASE j \in 1 .. k
      <4>1. queue[u][i] < queue[u][j]
        BY <1>1, <1>6, <3>1, <3>3 DEF QueuesOk
      <4> QED BY <1>6, <3>1, <3>3, <4>1
    <3> QED BY <2>2, <3>2, <3>3
  <2> QED BY <1>6, <2>1, <2>3, <2>5 DEF QueuesOk, Owns
<1>11. Fate'
  <2>1. \A m : m \in DOMAIN owner' <=> (\E v \in User : Waits(v, m)') \/ Settled(m)'
    BY <1>1, <1>4, <1>7 DEF Fate
  <2>2. \A v \in User : \A m : ~(Waits(v, m)' /\ Settled(m)')
    <3>1. ~Settled(n)
      BY <1>3, <1>9
    <3> QED BY <1>1, <1>7, <3>1 DEF Fate
  <2>3. \A m : ~(m \in acked' /\ m \in refused')
    BY <1>1, <1>2 DEF Fate
  <2> QED BY <2>1, <2>2, <2>3 DEF Fate
<1>12. Order'
  <2> SUFFICES ASSUME NEW v \in User, NEW x, NEW m,
                      Waits(v, x)', Settled(m)', owner'[m] = v
               PROVE  m < x
    BY DEF Order
  <2>1. Settled(m) /\ m < n /\ owner[m] = v
    BY <1>4, <1>7, <1>9
  <2>2. CASE x = n
    BY <2>1, <2>2
  <2>3. CASE Waits(v, x)
    BY <1>1, <2>1, <2>3 DEF Order
  <2> QED BY <1>7, <2>2, <2>3
<1>13. NoWriteOvertakes'
  <2>1. acked' \subseteq applied'
    BY <1>1, <1>2 DEF NoWriteOvertakes, Queue!AppliedInOrder
  <2>2. ASSUME NEW x \in applied', NEW m \in 1 .. (x - 1), owner'[m] = owner'[x]
        PROVE  m \in applied' \union refused'
    <3>1. x \in 1 .. n - 1
      BY <1>1, <1>2, <1>3
    <3>2. m \in 1 .. n - 1
      BY <1>3, <3>1
    <3>3. owner[m] = owner[x]
      BY <1>3, <1>4, <2>2, <3>1, <3>2
    <3> QED BY <1>1, <1>2, <3>3 DEF NoWriteOvertakes, Queue!AppliedInOrder
  <2> QED BY <2>1, <2>2 DEF NoWriteOvertakes, Queue!AppliedInOrder
<1>14. applied' \subseteq DOMAIN owner'
  BY <1>1, <1>2, <1>4
<1> QED BY <1>4, <1>5, <1>10, <1>11, <1>12, <1>13, <1>14 DEF QueueInv

(* A write is applied after the older ones of its user. *)
LEMMA QueueApply ==
    ASSUME QueueInv, NEW u \in User, Queue!Apply(u)
    PROVE  QueueInv'
<1>1. /\ owner \in Seq(User) /\ queue \in [User -> Seq(Nat)] /\ applied \subseteq DOMAIN owner
      /\ QueuesOk /\ Fate /\ Order /\ NoWriteOvertakes
  BY DEF QueueInv
<1>2. PICK i \in DOMAIN queue[u] :
        /\ \A j \in 1 .. (i - 1) : queue[u][j] \in applied
        /\ applied' = applied \union {queue[u][i]}
  BY DEF Queue!Apply, Queue!InLine
<1>3. owner' = owner /\ queue' = queue /\ acked' = acked /\ refused' = refused
  BY DEF Queue!Apply
<1>4. Owns(u, queue[u][i]) /\ queue[u][i] \in Nat
  BY <1>1, LenProperties DEF QueuesOk
<1>5. \A m \in 1 .. (queue[u][i] - 1) : owner[m] = u => m \in applied \union refused
  <2> SUFFICES ASSUME NEW m \in 1 .. (queue[u][i] - 1), owner[m] = u,
                      m \notin applied, m \notin refused
               PROVE  FALSE
    OBVIOUS
  <2>1. m \in DOMAIN owner
    <3>1. DOMAIN owner = 1 .. Len(owner) /\ Len(owner) \in Nat
      BY <1>1, LenProperties
    <3> QED BY <1>4, <3>1 DEF Owns
  <2>2. m \notin acked
    BY <1>1 DEF NoWriteOvertakes, Queue!AppliedInOrder
  <2>3. PICK v \in User : Waits(v, m)
    BY <1>1, <2>1, <2>2 DEF Fate, Settled
  <2>4. v = u
    BY <1>1, <2>3 DEF QueuesOk, Owns, Waits
  <2>5. PICK j \in DOMAIN queue[u] : queue[u][j] = m
    BY <2>3, <2>4 DEF Waits
  <2>6. PICK k \in Nat : DOMAIN queue[u] = 1 .. k
    BY <1>1, LenProperties
  <2>7. i \in 1 .. k /\ j \in 1 .. k
    BY <2>6
  <2>8. ~(i < j) /\ i # j
    <3>1. m < queue[u][i]
      BY <1>4
    <3>2. i < j => queue[u][i] < queue[u][j]
      BY <1>1 DEF QueuesOk
    <3> QED BY <1>4, <2>5, <3>1, <3>2
  <2>9. j \in 1 .. (i - 1)
    BY <2>7, <2>8
  <2> QED BY <1>2, <2>5, <2>9
<1>6. NoWriteOvertakes'
  <2>1. acked' \subseteq applied'
    BY <1>1, <1>2, <1>3 DEF NoWriteOvertakes, Queue!AppliedInOrder
  <2>2. ASSUME NEW x \in applied', NEW m \in 1 .. (x - 1), owner[m] = owner[x]
        PROVE  m \in applied' \union refused
    <3>1. CASE x = queue[u][i]
      BY <1>2, <1>4, <1>5, <2>2, <3>1 DEF Owns
    <3>2. CASE x \in applied
      BY <1>1, <1>2, <2>2, <3>2 DEF NoWriteOvertakes, Queue!AppliedInOrder
    <3> QED BY <1>2, <3>1, <3>2
  <2> QED BY <1>3, <2>1, <2>2 DEF NoWriteOvertakes, Queue!AppliedInOrder
<1>7. QueuesOk' /\ Fate' /\ Order'
  BY <1>1, <1>3 DEF QueuesOk, Owns, Fate, Order, Waits, Settled
<1>8. applied' \subseteq DOMAIN owner'
  BY <1>1, <1>2, <1>3, <1>4 DEF Owns
<1> QED BY <1>1, <1>3, <1>6, <1>7, <1>8 DEF QueueInv

(* The oldest write of u leaves its queue and is settled. *)
LEMMA QueueTake ==
    ASSUME QueueInv, NEW u \in User, queue[u] # <<>>, owner' = owner, applied' = applied,
           queue' = [queue EXCEPT ![u] = Tail(queue[u])],
           \/ acked' = acked \union {Head(queue[u])} /\ refused' = refused
                /\ Head(queue[u]) \in applied
           \/ acked' = acked /\ refused' = refused \union {Head(queue[u])}
    PROVE  QueueInv'
<1> DEFINE q == queue[u]
<1>1. /\ owner \in Seq(User) /\ queue \in [User -> Seq(Nat)] /\ applied \subseteq DOMAIN owner
      /\ QueuesOk /\ Fate /\ Order /\ NoWriteOvertakes
  BY DEF QueueInv
<1>2. q \in Seq(Nat) /\ q # <<>>
  BY <1>1
<1>3. PICK k \in Nat, h \in Nat :
        /\ DOMAIN q = 1 .. k + 1 /\ DOMAIN Tail(q) = 1 .. k
        /\ Tail(q) \in Seq(Nat) /\ h = Head(q) /\ h = q[1]
        /\ \A i \in 1 .. k : Tail(q)[i] = q[i + 1]
  <2>1. /\ Head(q) \in Nat /\ Tail(q) \in Seq(Nat) /\ Head(q) = q[1]
        /\ Len(Tail(q)) = Len(q) - 1 /\ \A i \in 1 .. Len(Tail(q)) : Tail(q)[i] = q[i + 1]
    BY <1>2, HeadTailProperties
  <2>2. /\ Len(q) \in Nat /\ DOMAIN q = 1 .. Len(q)
        /\ Len(Tail(q)) \in Nat /\ DOMAIN Tail(q) = 1 .. Len(Tail(q))
    BY <1>2, <2>1, LenProperties
  <2> HIDE DEF q
  <2>3. Len(q) = Len(Tail(q)) + 1
    BY <2>1, <2>2
  <2> QED BY <2>1, <2>2, <2>3
<1>4. /\ queue' \in [User -> Seq(Nat)] /\ queue'[u] = Tail(q)
      /\ \A v \in User : v # u => queue'[v] = queue[v]
  BY <1>1, <1>3
<1>5. /\ \A i \in DOMAIN q : Owns(u, q[i])
      /\ \A i, j \in DOMAIN q : i < j => q[i] < q[j]
  BY <1>1 DEF QueuesOk
<1>6. /\ applied' = applied
      /\ \/ acked' = acked \union {h} /\ refused' = refused /\ h \in applied
         \/ acked' = acked /\ refused' = refused \union {h}
  BY <1>3
<1>7. q = queue[u]
  OBVIOUS
<1> HIDE DEF q
<1>8. Waits(u, h) /\ ~Settled(h) /\ h \in DOMAIN owner /\ owner[h] = u
  <2>1. 1 \in DOMAIN q
    BY <1>3
  <2>2. Waits(u, h)
    BY <1>3, <1>7, <2>1 DEF Waits
  <2> QED BY <1>1, <1>3, <1>5, <2>1, <2>2 DEF Fate, Owns
<1>9. /\ \A m : Waits(u, m)' <=> Waits(u, m) /\ m # h
      /\ \A m : Waits(u, m)' => h < m
  <2>1. \A i \in 1 .. k : i + 1 \in 1 .. k + 1 /\ 1 < i + 1 /\ 1 \in 1 .. k + 1
    OBVIOUS
  <2>2. \A i \in 1 .. k : h < Tail(q)[i]
    <3> TAKE i \in 1 .. k
    <3>1. q[1] < q[i + 1]
      BY <1>3, <1>5, <2>1
    <3> QED BY <1>3, <3>1
  <2>3. \A m : (\E i \in 1 .. k : Tail(q)[i] = m) => (\E i \in 1 .. k + 1 : q[i] = m)
    BY <1>3, <2>1
  <2>4. \A i \in 1 .. k : Tail(q)[i] # h
    <3> TAKE i \in 1 .. k
    <3>1. h < Tail(q)[i]
      BY <2>2
    <3> QED BY <1>3, <3>1
  <2>5. \A m : (\E i \in 1 .. k + 1 : q[i] = m) /\ m # h => (\E i \in 1 .. k : Tail(q)[i] = m)
    <3> SUFFICES ASSUME NEW i \in 1 .. k + 1, q[i] # h
                 PROVE  \E j \in 1 .. k : Tail(q)[j] = q[i]
      OBVIOUS
    <3>1. i # 1
      BY <1>3
    <3>2. i - 1 \in 1 .. k /\ (i - 1) + 1 = i
      BY <3>1
    <3> QED BY <1>3, <3>2
  <2>6. /\ \A m : Waits(u, m) <=> \E i \in 1 .. k + 1 : q[i] = m
        /\ \A m : Waits(u, m)' <=> \E i \in 1 .. k : Tail(q)[i] = m
    BY <1>3, <1>4, <1>7 DEF Waits
  <2> QED BY <2>2, <2>3, <2>4, <2>5, <2>6
<1>10. /\ \A v \in User : \A m : v # u => (Waits(v, m)' <=> Waits(v, m))
       /\ \A m : Settled(m)' <=> Settled(m) \/ m = h
  BY <1>4, <1>6 DEF Waits, Settled
<1>11. \A v \in User : \A m : Waits(v, m) => owner[m] = v
  BY <1>1 DEF QueuesOk, Owns, Waits
<1>12. QueuesOk'
  <2>1. /\ \A i \in DOMAIN Tail(q) : Tail(q)[i] \in DOMAIN owner /\ owner[Tail(q)[i]] = u
        /\ \A i, j \in DOMAIN Tail(q) : i < j => Tail(q)[i] < Tail(q)[j]
    <3>1. \A i \in 1 .. k : i + 1 \in 1 .. k + 1
      OBVIOUS
    <3>2. \A i \in 1 .. k : Tail(q)[i] \in DOMAIN owner /\ owner[Tail(q)[i]] = u
      BY <1>3, <1>5, <3>1 DEF Owns
    <3>3. \A i, j \in 1 .. k : i < j => Tail(q)[i] < Tail(q)[j]
      <4> SUFFICES ASSUME NEW i \in 1 .. k, NEW j \in 1 .. k, i < j
                   PROVE  Tail(q)[i] < Tail(q)[j]
        OBVIOUS
      <4>1. i + 1 < j + 1 /\ i + 1 \in 1 .. k + 1 /\ j + 1 \in 1 .. k + 1
        OBVIOUS
      <4>2. q[i + 1] < q[j + 1]
        BY <1>3, <1>5, <4>1
      <4> QED BY <1>3, <4>2
    <3> QED BY <1>3, <3>2, <3>3
  <2>2. \A v \in User : v # u =>
            /\ \A i \in DOMAIN queue[v] : queue[v][i] \in DOMAIN owner /\ owner[queue[v][i]] = v
            /\ \A i, j \in DOMAIN queue[v] : i < j => queue[v][i] < queue[v][j]
    BY <1>1 DEF QueuesOk, Owns
  <2>3. ASSUME NEW v \in User
        PROVE  /\ \A i \in DOMAIN queue'[v] : queue'[v][i] \in DOMAIN owner' /\ owner'[queue'[v][i]] = v
               /\ \A i, j \in DOMAIN queue'[v] : i < j => queue'[v][i] < queue'[v][j]
    <3>1. CASE v = u
      BY <1>4, <2>1, <3>1
    <3>2. CASE v # u
      BY <1>4, <2>2, <3>2
    <3> QED BY <3>1, <3>2
  <2> QED BY <2>3 DEF QueuesOk, Owns
<1>13. Fate'
  <2>1. \A m : (\E v \in User : Waits(v, m)') \/ Settled(m)'
                <=> (\E v \in User : Waits(v, m)) \/ Settled(m)
    BY <1>8, <1>9, <1>10
  <2>2. \A m : m \in DOMAIN owner' <=> (\E v \in User : Waits(v, m)') \/ Settled(m)'
    BY <1>1, <2>1 DEF Fate
  <2>3. \A v \in User : \A m : ~(Waits(v, m)' /\ Settled(m)')
    <3>1. \A v \in User : \A m : ~(Waits(v, m) /\ Settled(m))
      BY <1>1 DEF Fate
    <3>2. \A m : ~(Waits(u, m)' /\ Settled(m)')
      BY <1>9, <1>10, <3>1
    <3>3. \A v \in User : \A m : v # u => ~(Waits(v, m)' /\ Settled(m)')
      BY <1>8, <1>10, <1>11, <3>1
    <3> QED BY <3>2, <3>3
  <2>4. \A m : ~(m \in acked' /\ m \in refused')
    BY <1>1, <1>6, <1>8 DEF Fate, Settled
  <2> QED BY <2>2, <2>3, <2>4 DEF Fate
<1>14. Order'
  BY <1>1, <1>8, <1>9, <1>10 DEF Order
<1>15. NoWriteOvertakes'
  BY <1>1, <1>6 DEF NoWriteOvertakes, Queue!AppliedInOrder
<1>16. owner' \in Seq(User) /\ applied' \subseteq DOMAIN owner'
  BY <1>1, <1>6
<1> QED BY <1>4, <1>12, <1>13, <1>14, <1>15, <1>16 DEF QueueInv

LEMMA QueueInvNext ==
    QueueInv /\ [Queue!QueueNext]_(Queue!queueVars) => QueueInv'
<1> SUFFICES ASSUME QueueInv, [Queue!QueueNext]_(Queue!queueVars) PROVE QueueInv'
  OBVIOUS
<1>1. ASSUME NEW u \in User, Queue!Accept(u) PROVE QueueInv'
  BY <1>1, QueueTake DEF Queue!Accept
<1>2. ASSUME NEW u \in User, Queue!GiveUp(u) PROVE QueueInv'
  <2>1. queue[u] # <<>>
    BY <1>2, EmptySeq DEF Queue!GiveUp
  <2> QED BY <1>2, <2>1, QueueTake DEF Queue!GiveUp
<1>3. CASE UNCHANGED Queue!queueVars
  BY <1>3 DEF Queue!queueVars, QueueInv, QueuesOk, Owns, Fate, Order, Waits, Settled,
              NoWriteOvertakes, Queue!AppliedInOrder
<1> QED BY <1>1, <1>2, <1>3, QueueAdd, QueueApply DEF Queue!QueueNext

(* The invariant of the queue holds in every behaviour of the write path,      *)
(* because the write path is such a queue.                                     *)
LEMMA QueueInvariant == PipelineSpec => []QueueInv
<1>1. Queue!QueueInit => QueueInv
  BY QueueInvInit
<1>2. QueueInv /\ [Queue!QueueNext]_(Queue!queueVars) => QueueInv'
  BY QueueInvNext
<1>3. PipelineSpec => Queue!QueueInit /\ [][Queue!QueueNext]_(Queue!queueVars)
  BY PipelineImplementsQueue DEF QueueIsImplemented, Queue!QueueSpec
<1> QED BY <1>1, <1>2, <1>3, PTL

(* No write is lost or reported twice: it is queued, reported as done or       *)
(* reported as failed, and never two of these, through every broken stream,    *)
(* change of the account and restart of the app.                               *)
THEOREM WritesHaveOneFate == PipelineSpec => []EveryWriteHasOneFate
<1>1. QueueInv => EveryWriteHasOneFate
  BY PromisesAre DEF QueueInv
<1> QED BY <1>1, QueueInvariant, PTL

(* The app hears of the writes of an account in the order in which it made     *)
(* them, whichever of them failed.                                             *)
THEOREM WritesAreReportedInOrder == PipelineSpec => []ReportsInOrder
<1>1. QueueInv => ReportsInOrder
  BY PromisesAre DEF QueueInv
<1> QED BY <1>1, QueueInvariant, PTL

(* What the app was told is done is on the server, and no write is there       *)
(* before an older one of the same account, unless that one was given up.      *)
THEOREM WritesDoNotOvertake == PipelineSpec => []NoWriteOvertakes
<1>1. QueueInv => NoWriteOvertakes
  BY DEF QueueInv
<1> QED BY <1>1, QueueInvariant, PTL
===============================================================================
