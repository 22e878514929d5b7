-------------------------- MODULE AgentPort_proofs --------------------------
(***************************************************************************)
(* The tokens, the buffers, the wakeups and the asserts of the agent's port,  *)
(* for windows, devices and uses of any size.                                 *)
(***************************************************************************)
EXTENDS AgentPort, SequenceParts_proofs

Pending == {"write", "read", "writing", "write_refused", "reading", "read_failed", "start",
            "wrote", "did_read", "goodbye", "accept", "reset", "removed"}
Faults == {"none", "no dev_client", "buf of another message", "token violation",
           "client wasn't found", "recv_from_client_buf", "message is not the buffer"}
Down == [type : {"INIT", "INIT_AGENT", "CONNECTED", "DISCONNECTED", "TOKEN"}, n : Nat]
Up   == {"START", "DATA", "TOKEN"}

\* The state of the server has these fields.  The counters are not bounded yet.
Flags == {"vdagent", "vm", "conn", "base", "running", "active", "retry", "client", "didW", "didR",
          "got", "started", "accept", "mouse"}
Counters == {"self", "tok", "free", "send", "left", "held", "bufs", "out"}
Fields == Flags \cup Counters
          \cup {"queue", "cur", "busyW", "busyR", "calls", "msg", "pipe", "fault"}

Typed(st) ==
    /\ DOMAIN st = Fields
    /\ \A f \in Flags : st[f] \in BOOLEAN
    /\ \A f \in Counters : st[f] \in Nat
    /\ st.queue \in Seq(Origins) /\ st.cur \in Origins \cup {NoBuf}
    /\ st.busyW \in 0 .. 2 /\ st.busyR \in 0 .. 2
    /\ st.calls \in Seq(Pending) /\ st.pipe \in Seq(Down)
    /\ st.msg \in {"none", "malloc", "buf"} /\ st.fault \in Faults

\* r differs from st in the fields of F at most.
Only(r, st, F) == DOMAIN r = DOMAIN st /\ \A f \in Fields \ F : r[f] = st[f]

TypeInv ==
    /\ Typed(s)
    /\ room \in 0 .. Room /\ agent \in Nat /\ up \in Seq(Up) /\ mode \in Modes
    /\ peer \in [tok : Nat, agent : BOOLEAN, owed : Nat]
    /\ count \in [data : Nat, agent : Nat, mouse : Nat, plugs : Nat, conns : Nat, stops : Nat]
    /\ agent <= count.agent /\ count.agent <= mode.agent /\ count.conns <= mode.conns

\* One if x is y, or in C.
Is(x, y) == IF x = y THEN 1 ELSE 0
In(x, C) == IF x \in C THEN 1 ELSE 0

\* The calls under way that are in C, and the buffers of an origin.
Under(st, C) == Count(st.calls, C)
Bufs(st, o)  == Count(st.queue, {o}) + Is(st.cur, o)

\* What is there without what: a message that has a buffer is the one of the present
\* connection, and a buffer left behind is the one of an earlier connection.
LinkInv(st, n) ==
    /\ st.vdagent => st.base
    /\ st.client => st.base /\ st.conn
    /\ st.running => st.vm
    /\ st.conn => n > 0
    /\ st.held <= n
    /\ st.msg # "none" => st.conn
    /\ st.msg = "buf" => st.held = n
    /\ st.conn /\ st.held = n => st.msg = "buf"
    /\ st.msg = "buf" /\ st.accept => st.client
    /\ Under(st, {"accept"}) > 0 => st.msg = "none"

\* Where the tokens of the client are, and those of the server.  Buffer b is in hand: taken off
\* and not released yet.
TokenInv(st, n, b) ==
    /\ st.free < Interval
    /\ st.client => st.tok + st.free + Bufs(st, "client") + Is(b, "client") + Is(st.held, n)
                        = Window
    /\ ~st.client => st.tok = 0 /\ st.free = 0 /\ Bufs(st, "client") + Is(b, "client") = 0
SelfInv(st, b) ==
    /\ st.base => st.self + Bufs(st, "server") + Is(b, "server") = SelfTokens
    /\ ~st.base => st.self = 0 /\ Bufs(st, "server") + Is(b, "server") = 0
ReadBufInv(st) == st.bufs + st.out = ReadBufs

\* A write or a read is under way once, and its counter says so; in a device that is being
\* reset neither is.
Busy(k) == IF k > 0 THEN 1 ELSE 0
Writes == {"writing", "write_refused"}
Reads  == {"reading", "read_failed"}
StackInv(st) ==
    /\ Under(st, Writes) = Busy(st.busyW)
    /\ Under(st, Reads) = Busy(st.busyR)
    /\ Under(st, {"reset"}) > 0 => ~st.running /\ st.busyW = 0 /\ st.busyR = 0
    /\ Under(st, {"write_refused"}) > 0 => st.cur # NoBuf

\* What is left to write is going to be tried again, by a call under way or by an event: the
\* device has room for fr buffers, and reports it if nt.
CanServe(st) == st.base /\ st.running /\ st.vdagent
ToWrite(st) == st.cur # NoBuf \/ st.queue # <<>>
WillWrite == {"write", "writing", "start"}
WriteInv(st, fr, nt) ==
    /\ ~(nt /\ st.retry)
    /\ CanServe(st) /\ ToWrite(st) =>
          \/ st.retry \/ (nt /\ fr = 0) \/ st.busyW = 2 \/ Under(st, WillWrite) > 0
          \/ ~nt /\ Under(st, {"write_refused"}) > 0

\* The same for what is left to read, ag messages.  While a read is under way, the tokens it
\* found at its start are those of the client.
WillRead == {"read", "reading", "start", "wrote"}
ReadInv(st, ag) ==
    /\ st.client /\ st.busyR > 0 => st.left = st.send
    /\ CanServe(st) /\ st.client /\ ag > 0 /\ st.bufs > 0 /\ st.send > 0 =>
          st.busyR = 2 \/ Under(st, WillRead) > 0

Good(st, b, n, fr, ag, nt) ==
    /\ LinkInv(st, n) /\ TokenInv(st, n, b) /\ SelfInv(st, b) /\ ReadBufInv(st)
    /\ StackInv(st) /\ WriteInv(st, fr, nt) /\ ReadInv(st, ag)

PortInv == TypeInv /\ Good(s, NoBuf, count.conns, room, agent, mode.notify)

-----------------------------------------------------------------------------
(* The types of the fields. *)

\* A state that differs in some fields has the types of the other if those fields have theirs.
Fits(v, f) ==
    /\ f \in Flags => v \in BOOLEAN
    /\ f \in Counters => v \in Nat
    /\ f = "queue" => v \in Seq(Origins)
    /\ f = "cur" => v \in Origins \cup {NoBuf}
    /\ f \in {"busyW", "busyR"} => v \in 0 .. 2
    /\ f = "calls" => v \in Seq(Pending)
    /\ f = "pipe" => v \in Seq(Down)
    /\ f = "msg" => v \in {"none", "malloc", "buf"}
    /\ f = "fault" => v \in Faults

\* The values that a field may have, kind by kind.
LEMMA FitsKinds ==
  /\ \A f \in Flags, v \in BOOLEAN : Fits(v, f)
  /\ \A f \in Counters, v \in Nat : Fits(v, f)
  /\ \A v \in 0 .. 2 : Fits(v, "busyW") /\ Fits(v, "busyR")
  /\ \A v \in Origins \cup {NoBuf} : Fits(v, "cur")
  /\ \A v \in {"none", "malloc", "buf"} : Fits(v, "msg")
  /\ \A v \in Faults : Fits(v, "fault")
BY DEF Fits, Flags, Counters

\* The same for the fields that are sequences.
LEMMA FitsSeqs ==
  /\ \A v \in Seq(Origins) : Fits(v, "queue")
  /\ \A v \in Seq(Pending) : Fits(v, "calls")
  /\ \A v \in Seq(Down) : Fits(v, "pipe")
BY DEF Fits, Flags, Counters

\* So only the fields that change have to be looked at.
LEMMA TypedFits ==
  ASSUME NEW st, Typed(st), NEW r, NEW F, Only(r, st, F), \A f \in F : Fits(r[f], f)
  PROVE  Typed(r)
<1>1. DOMAIN r = Fields /\ \A f \in Fields : f \in F \/ r[f] = st[f]
  BY DEF Typed, Only
<1>2. \A f \in Fields : Fits(st[f], f)
  BY DEF Typed, Fits
<1>3. \A f \in Fields : Fits(r[f], f)
  BY <1>1, <1>2
<1>4. Flags \subseteq Fields /\ Counters \subseteq Fields
  BY DEF Fields
<1>5. \A f \in Flags : r[f] \in BOOLEAN
  BY <1>3, <1>4 DEF Fits
<1>6. \A f \in Counters : r[f] \in Nat
  BY <1>3, <1>4 DEF Fits
<1>7. {"queue", "cur", "busyW", "busyR", "calls", "msg", "pipe", "fault"} \subseteq Fields
  BY DEF Fields
<1>8. /\ r.queue \in Seq(Origins) /\ r.cur \in Origins \cup {NoBuf}
      /\ r.busyW \in 0 .. 2 /\ r.busyR \in 0 .. 2
      /\ r.calls \in Seq(Pending) /\ r.pipe \in Seq(Down)
      /\ r.msg \in {"none", "malloc", "buf"} /\ r.fault \in Faults
  BY <1>3, <1>7 DEF Fits
<1> QED
  BY <1>1, <1>5, <1>6, <1>8 DEF Typed

-----------------------------------------------------------------------------
(* The calls under way. *)

\* The constants are numbers, and an interval is within a window.
LEMMA PortConstants ==
  /\ Window \in Nat /\ Window > 0 /\ Interval \in Nat /\ Interval > 0 /\ Interval <= Window
  /\ SelfTokens \in Nat /\ SelfTokens > 0 /\ ReadBufs \in Nat /\ ReadBufs > 0
  /\ SendTokens \in Nat /\ SendTokens > 0 /\ Room \in Nat /\ Room > 0
BY PortAssumption

\* How many calls of a kind are under way is a number, and so is how many buffers there are.
LEMMA UnderType ==
  ASSUME NEW st, Typed(st)
  PROVE  /\ \A C : Under(st, C) \in Nat
         /\ \A o : Bufs(st, o) \in Nat
<1>1. \A C : Under(st, C) \in Nat
  BY CountType DEF Under, Typed
<1>2. ASSUME NEW o PROVE Bufs(st, o) \in Nat
  <2>1. PICK n \in Nat : n = Count(st.queue, {o})
    BY CountType DEF Typed
  <2>2. PICK k \in Nat : k = Is(st.cur, o)
    BY DEF Is
  <2> QED
    BY <2>1, <2>2 DEF Bufs
<1> QED
  BY <1>1, <1>2

\* Both ends of a sequence.
LEMMA CountEnds ==
  ASSUME NEW T, NEW q \in Seq(T), NEW C
  PROVE  /\ \A e \in T : Count(Append(q, e), C) = Count(q, C) + In(e, C)
         /\ q # <<>> => Count(Tail(q), C) = Count(q, C) - In(Head(q), C)
         /\ \A e : Count(<<e>>, C) = In(e, C) /\ In(e, C) \in Nat
<1>1. \A e : One(e \in C) = In(e, C)
  BY DEF One, In
<1>2. \A e : In(e, C) \in Nat
  BY DEF In
<1>3. \A e : Count(<<e>>, C) = In(e, C)
  BY <1>1, CountShort
<1>4. ASSUME NEW e \in T PROVE Count(Append(q, e), C) = Count(q, C) + In(e, C)
  BY <1>1, CountQueue
<1>5. ASSUME q # <<>> PROVE Count(Tail(q), C) = Count(q, C) - In(Head(q), C)
  BY <1>1, <1>5, CountQueue
<1> QED
  BY <1>2, <1>3, <1>4, <1>5

\* Sequences of one, two and three calls.
LEMMA FewCalls ==
  ASSUME NEW a \in Pending, NEW b \in Pending, NEW d \in Pending, NEW C
  PROVE  /\ <<a>> \in Seq(Pending) /\ Count(<<a>>, C) = In(a, C)
         /\ <<a, b>> \in Seq(Pending) /\ Count(<<a, b>>, C) = In(a, C) + In(b, C)
         /\ <<a, b>> \o <<d>> \in Seq(Pending)
         /\ Count(<<a, b>> \o <<d>>, C) = In(a, C) + In(b, C) + In(d, C)
         /\ <<>> \in Seq(Pending) /\ Count(<<>>, C) = 0
<1>1. <<a>> \in Seq(Pending) /\ <<b>> \in Seq(Pending) /\ <<d>> \in Seq(Pending)
  OBVIOUS
<1>2. Count(<<a>>, C) = In(a, C) /\ Count(<<b>>, C) = In(b, C) /\ Count(<<d>>, C) = In(d, C)
  BY <1>1, CountEnds
<1>c. <<a, b>> \in Seq(Pending)
  OBVIOUS
<1>3. PICK z \in Seq(Pending) : z = <<a, b>>
  BY <1>c
<1>a. z # <<>> /\ Head(z) = a /\ Tail(z) = <<b>>
  BY <1>3
<1>4. Count(z, C) = In(a, C) + In(b, C)
  <2>1. Count(Tail(z), C) = Count(z, C) - In(Head(z), C)
    BY <1>a, CountEnds
  <2>2. In(b, C) = Count(z, C) - In(a, C)
    BY <1>2, <1>a, <2>1
  <2>3. Count(z, C) \in Nat /\ In(a, C) \in Nat /\ In(b, C) \in Nat
    BY CountType DEF In
  <2> QED
    BY <2>2, <2>3
<1>b. PICK y \in Seq(Pending) : y = <<d>>
  BY <1>1
<1>5. z \o y \in Seq(Pending)
  BY <1>b, ConcatProperties
<1>6. Count(z \o y, C) = Count(z, C) + Count(y, C)
  BY <1>3, <1>b, CountConcat
<1>7. Count(z \o y, C) = In(a, C) + In(b, C) + In(d, C)
  BY <1>2, <1>4, <1>6, <1>b
<1> QED
  BY <1>1, <1>2, <1>3, <1>4, <1>5, <1>7, <1>b, CountShort

\* A call begins.
LEMMA CallEffect ==
  ASSUME NEW st, Typed(st), NEW c \in Seq(Pending), NEW r, r = Call(st, c)
  PROVE  /\ Typed(r) /\ Only(r, st, {"calls"}) /\ r.calls = c \o st.calls
         /\ \A C : Under(r, C) = Count(c, C) + Under(st, C)
<1>1. PICK q \in Seq(Pending) : q = st.calls
  BY DEF Typed
<1>2. PICK p \in Seq(Pending) : p = c \o q
  BY <1>1, ConcatProperties
<1>3. r = [st EXCEPT !.calls = p]
  BY <1>1, <1>2 DEF Call
<1>4. r.calls = p /\ Only(r, st, {"calls"})
  BY <1>3 DEF Typed, Only, Fields
<1>5. Typed(r)
  <2>2. Fits(r.calls, "calls")
    BY <1>4, FitsSeqs
  <2>3. \A f \in {"calls"} : Fits(r[f], f)
    BY <2>2
  <2> QED
    BY <1>4, <2>3, TypedFits
<1>6. \A C : Count(p, C) = Count(c, C) + Count(q, C)
  BY <1>1, <1>2, CountConcat
<1> QED
  BY <1>1, <1>2, <1>4, <1>5, <1>6 DEF Under

\* A call ends.
LEMMA ReturnEffect ==
  ASSUME NEW st, Typed(st), st.calls # <<>>, NEW a \in Pending, Head(st.calls) = a, NEW r, r = Return(st)
  PROVE  /\ Typed(r) /\ Only(r, st, {"calls"}) /\ r.calls = Tail(st.calls)
         /\ \A C : Under(r, C) = Under(st, C) - In(a, C)
         /\ \A C : a \in C => Under(st, C) > 0
<1>1. PICK q \in Seq(Pending) : q = st.calls
  BY DEF Typed
<1>a. q # <<>>
  BY <1>1
<1>b. Tail(q) \in Seq(Pending)
  BY <1>a
<1>2. PICK p \in Seq(Pending) : p = Tail(q)
  BY <1>b
<1>3. r = [st EXCEPT !.calls = p]
  BY <1>1, <1>2 DEF Return
<1>4. r.calls = p /\ Only(r, st, {"calls"})
  BY <1>3 DEF Typed, Only, Fields
<1>5. Typed(r)
  <2>2. Fits(r.calls, "calls")
    BY <1>4, FitsSeqs
  <2>3. \A f \in {"calls"} : Fits(r[f], f)
    BY <2>2
  <2> QED
    BY <1>4, <2>3, TypedFits
<1>6. \A C : Count(p, C) = Count(q, C) - In(Head(q), C)
  BY <1>2, <1>a, CountEnds
<1>7. \A C : Under(r, C) = Under(st, C) - In(a, C)
  BY <1>1, <1>4, <1>6 DEF Under
<1>8. \A C : Under(r, C) \in Nat /\ Under(st, C) \in Nat
  BY <1>5, UnderType
<1> QED
  BY <1>1, <1>2, <1>4, <1>5, <1>7, <1>8 DEF In

-----------------------------------------------------------------------------
(* What keeps the invariant, whatever the state of the server is. *)

\* The fields that the invariant does not mention.
Silent == {"active", "didW", "didR", "got", "started", "mouse", "pipe", "fault"}

\* The fields that it mentions.
LEMMA OnlySilent ==
  ASSUME NEW r, NEW st, Only(r, st, Silent)
  PROVE  /\ r.vdagent = st.vdagent /\ r.vm = st.vm /\ r.conn = st.conn /\ r.base = st.base
         /\ r.running = st.running /\ r.queue = st.queue /\ r.cur = st.cur
         /\ r.retry = st.retry /\ r.self = st.self /\ r.client = st.client /\ r.tok = st.tok
         /\ r.free = st.free /\ r.send = st.send /\ r.busyW = st.busyW /\ r.busyR = st.busyR
         /\ r.left = st.left /\ r.calls = st.calls /\ r.accept = st.accept
         /\ r.held = st.held /\ r.msg = st.msg /\ r.bufs = st.bufs /\ r.out = st.out
BY DEF Only, Silent, Fields, Flags, Counters

\* What the invariant does not read may change.
LEMMA GoodFrame ==
  ASSUME NEW r, NEW st, Only(r, st, Silent), NEW b, NEW n, NEW fr, NEW ag, NEW nt,
         Good(st, b, n, fr, ag, nt)
  PROVE  Good(r, b, n, fr, ag, nt)
<1>1. LinkInv(r, n)
  BY OnlySilent DEF Good, LinkInv, Under
<1>2. TokenInv(r, n, b) /\ SelfInv(r, b) /\ ReadBufInv(r)
  BY OnlySilent DEF Good, TokenInv, SelfInv, ReadBufInv, Bufs
<1>3. StackInv(r)
  BY OnlySilent DEF Good, StackInv, Under
<1>4. WriteInv(r, fr, nt) /\ ReadInv(r, ag)
  BY OnlySilent DEF Good, WriteInv, ReadInv, Under, CanServe, ToWrite
<1> QED
  BY <1>1, <1>2, <1>3, <1>4 DEF Good

\* Any call may begin but those that a handler is in the middle of.
Free == {"write", "read", "start", "wrote", "did_read", "goodbye", "removed"}

\* Calls that are free to begin at any time only promise work.
LEMMA GoodCall ==
  ASSUME NEW st, Typed(st), NEW c \in Seq(Pending), NEW r, r = Call(st, c),
         \A C : C \cap Free = {} => Count(c, C) = 0,
         NEW b, NEW n, NEW fr, NEW ag, NEW nt, Good(st, b, n, fr, ag, nt)
  PROVE  Typed(r) /\ Good(r, b, n, fr, ag, nt)
<1>1. Typed(r) /\ Only(r, st, {"calls"}) /\ \A C : Under(r, C) = Count(c, C) + Under(st, C)
  BY CallEffect
<1>2. \A C : Under(st, C) \in Nat /\ Count(c, C) \in Nat
  BY UnderType, CountType
<1>3. /\ Under(r, {"accept"}) = Under(st, {"accept"}) /\ Under(r, {"reset"}) = Under(st, {"reset"})
      /\ Under(r, {"write_refused"}) = Under(st, {"write_refused"})
      /\ Under(r, Writes) = Under(st, Writes) /\ Under(r, Reads) = Under(st, Reads)
  <2>1. /\ {"accept"} \cap Free = {} /\ {"reset"} \cap Free = {} /\ {"write_refused"} \cap Free = {}
        /\ Writes \cap Free = {} /\ Reads \cap Free = {}
    BY DEF Free, Writes, Reads
  <2>2. \A C : C \cap Free = {} => Under(r, C) = Under(st, C)
    BY <1>1, <1>2
  <2> QED
    BY <2>1, <2>2
<1>5. /\ r.vdagent = st.vdagent /\ r.vm = st.vm /\ r.conn = st.conn /\ r.base = st.base
      /\ r.running = st.running /\ r.queue = st.queue /\ r.cur = st.cur
      /\ r.retry = st.retry /\ r.self = st.self /\ r.client = st.client /\ r.tok = st.tok
      /\ r.free = st.free /\ r.send = st.send /\ r.busyW = st.busyW /\ r.busyR = st.busyR
      /\ r.left = st.left /\ r.accept = st.accept
      /\ r.held = st.held /\ r.msg = st.msg /\ r.bufs = st.bufs /\ r.out = st.out
  BY <1>1 DEF Only, Fields, Flags, Counters
<1>6. LinkInv(r, n)
  BY <1>3, <1>5 DEF Good, LinkInv
<1>7. TokenInv(r, n, b) /\ SelfInv(r, b) /\ ReadBufInv(r)
  BY <1>5 DEF Good, TokenInv, SelfInv, ReadBufInv, Bufs
<1>8. StackInv(r)
  BY <1>3, <1>5 DEF Good, StackInv
<1>9. WriteInv(r, fr, nt)
  <2>1. Under(st, WillWrite) > 0 => Under(r, WillWrite) > 0
    BY <1>1, <1>2
  <2> QED
    BY <2>1, <1>3, <1>5 DEF Good, WriteInv, CanServe, ToWrite
<1>10. ReadInv(r, ag)
  <2>1. Under(st, WillRead) > 0 => Under(r, WillRead) > 0
    BY <1>1, <1>2
  <2> QED
    BY <2>1, <1>5 DEF Good, ReadInv, CanServe
<1> QED
  BY <1>1, <1>6, <1>7, <1>8, <1>9, <1>10 DEF Good

\* One such call, or two, or three.
LEMMA GoodCalls ==
  ASSUME NEW st, Typed(st), NEW b, NEW n, NEW fr, NEW ag, NEW nt, Good(st, b, n, fr, ag, nt)
  PROVE  /\ \A x \in Free : LET r == Call(st, <<x>>) IN Typed(r) /\ Good(r, b, n, fr, ag, nt)
         /\ \A x, y \in Free :
              LET r == Call(st, <<x, y>>) IN Typed(r) /\ Good(r, b, n, fr, ag, nt)
         /\ \A x, y, z \in Free :
              LET r == Call(st, <<x, y>> \o <<z>>) IN Typed(r) /\ Good(r, b, n, fr, ag, nt)
         /\ LET r == Call(st, <<>>) IN Typed(r) /\ Good(r, b, n, fr, ag, nt)
<1>1. Free \subseteq Pending
  BY DEF Free, Pending
<1>2. ASSUME NEW x \in Free, NEW y \in Free, NEW z \in Free
      PROVE  /\ Typed(Call(st, <<x>>)) /\ Good(Call(st, <<x>>), b, n, fr, ag, nt)
             /\ Typed(Call(st, <<x, y>>)) /\ Good(Call(st, <<x, y>>), b, n, fr, ag, nt)
             /\ Typed(Call(st, <<x, y>> \o <<z>>)) /\ Good(Call(st, <<x, y>> \o <<z>>), b, n, fr, ag, nt)
  <2>1. PICK p \in Seq(Pending), q \in Seq(Pending), o \in Seq(Pending) :
            p = <<x>> /\ q = <<x, y>> /\ o = <<x, y>> \o <<z>>
    BY <1>1, <1>2, FewCalls
  <2>2. ASSUME NEW C, C \cap Free = {}
        PROVE  Count(p, C) = 0 /\ Count(q, C) = 0 /\ Count(o, C) = 0
    <3>1. In(x, C) = 0 /\ In(y, C) = 0 /\ In(z, C) = 0
      BY <2>2 DEF In
    <3> QED
      BY <1>1, <2>1, <3>1, FewCalls
  <2>3. Typed(Call(st, p)) /\ Good(Call(st, p), b, n, fr, ag, nt)
    BY <2>2, GoodCall
  <2>4. Typed(Call(st, q)) /\ Good(Call(st, q), b, n, fr, ag, nt)
    BY <2>2, GoodCall
  <2>5. Typed(Call(st, o)) /\ Good(Call(st, o), b, n, fr, ag, nt)
    BY <2>2, GoodCall
  <2> QED
    BY <2>1, <2>3, <2>4, <2>5
<1>3. Typed(Call(st, <<>>)) /\ Good(Call(st, <<>>), b, n, fr, ag, nt)
  <2>0. <<>> \in Seq(Pending)
    OBVIOUS
  <2>1. PICK p \in Seq(Pending) : p = <<>>
    BY <2>0
  <2>2. \A C : Count(p, C) = 0
    BY <2>1, CountShort
  <2>3. Typed(Call(st, p)) /\ Good(Call(st, p), b, n, fr, ag, nt)
    BY <2>2, GoodCall
  <2> QED
    BY <2>1, <2>3
<1> QED
  BY <1>2, <1>3

-----------------------------------------------------------------------------
(* Buffers. *)

\* A buffer that comes to the end of the queue, or that is taken from its start.
LEMMA BufsQueue ==
  ASSUME NEW q \in Seq(Origins), NEW o
  PROVE  /\ \A x \in Origins : Append(q, x) \in Seq(Origins)
                               /\ Count(Append(q, x), {o}) = Count(q, {o}) + Is(x, o)
         /\ q # <<>> => /\ Tail(q) \in Seq(Origins) /\ Head(q) \in Origins
                        /\ Count(Tail(q), {o}) = Count(q, {o}) - Is(Head(q), o)
<1>1. \A x : In(x, {o}) = Is(x, o)
  BY DEF In, Is
<1>2. ASSUME NEW x \in Origins
      PROVE  Append(q, x) \in Seq(Origins) /\ Count(Append(q, x), {o}) = Count(q, {o}) + Is(x, o)
  <2>1. Count(Append(q, x), {o}) = Count(q, {o}) + In(x, {o})
    BY CountEnds
  <2>2. In(x, {o}) = Is(x, o)
    BY <1>1
  <2>3. Append(q, x) \in Seq(Origins)
    OBVIOUS
  <2> QED
    BY <2>1, <2>2, <2>3
<1>3. ASSUME q # <<>>
      PROVE  /\ Tail(q) \in Seq(Origins) /\ Head(q) \in Origins
             /\ Count(Tail(q), {o}) = Count(q, {o}) - Is(Head(q), o)
  <2>1. Count(Tail(q), {o}) = Count(q, {o}) - In(Head(q), {o})
    BY <1>3, CountEnds
  <2>2. In(Head(q), {o}) = Is(Head(q), o)
    BY <1>1
  <2>3. Tail(q) \in Seq(Origins) /\ Head(q) \in Origins
    BY <1>3
  <2> QED
    BY <2>1, <2>2, <2>3
<1> QED
  BY <1>2, <1>3

\* spice_char_device_write_buffer_add, of a buffer that is in hand.
LEMMA AddEffect ==
  ASSUME NEW st, Typed(st), NEW x \in Origins, NEW r, r = WriteBufferAdd(st, x)
  PROVE  /\ Typed(r) /\ Only(r, st, {"queue", "calls"}) /\ r.queue = Append(st.queue, x)
         /\ r.calls = <<"write">> \o st.calls
         /\ \A C : Under(r, C) = Under(st, C) + In("write", C)
         /\ \A o : Bufs(r, o) = Bufs(st, o) + Is(x, o)
<1>1. PICK q \in Seq(Origins) : q = st.queue
  BY DEF Typed
<1>2. PICK p \in Seq(Origins) : p = Append(q, x)
  BY BufsQueue
<1>3. PICK t : t = [st EXCEPT !.queue = p]
  OBVIOUS
<1>4. Only(t, st, {"queue"}) /\ t.queue = p
  BY <1>3 DEF Typed, Only, Fields
<1>5. Typed(t)
  <2>2. Fits(t.queue, "queue")
    BY <1>4, FitsSeqs
  <2>3. \A f \in {"queue"} : Fits(t[f], f)
    BY <2>2
  <2> QED
    BY <1>4, <2>3, TypedFits
<1>a. "write" \in Pending
  BY DEF Pending
<1>6. PICK c \in Seq(Pending) : c = <<"write">> /\ \A C : Count(c, C) = In("write", C)
  BY <1>a, FewCalls
<1>7. r = Call(t, c)
  BY <1>1, <1>2, <1>3, <1>6 DEF WriteBufferAdd
<1>8. /\ Typed(r) /\ Only(r, t, {"calls"}) /\ r.calls = c \o t.calls
      /\ \A C : Under(r, C) = Count(c, C) + Under(t, C)
  BY <1>5, <1>7, CallEffect
<1>9. t.calls = st.calls /\ t.cur = st.cur
  BY <1>4 DEF Only, Fields
<1>10. r.queue = p /\ r.cur = st.cur
  BY <1>4, <1>8, <1>9 DEF Only, Fields
<1>11. Only(r, st, {"queue", "calls"})
  BY <1>4, <1>8 DEF Only, Fields
<1>12. \A C : Under(r, C) = Under(st, C) + In("write", C)
  <2>1. \A C : Under(t, C) = Under(st, C) /\ Under(st, C) \in Nat /\ In("write", C) \in Nat
    BY <1>9, UnderType DEF Under, In
  <2> QED
    BY <1>6, <1>8, <2>1
<1>13. ASSUME NEW o PROVE Bufs(r, o) = Bufs(st, o) + Is(x, o)
  <2>1. Count(p, {o}) = Count(q, {o}) + Is(x, o)
    <3>1. Count(Append(q, x), {o}) = Count(q, {o}) + Is(x, o)
      BY BufsQueue
    <3> QED
      BY <1>2, <3>1
  <2>2. PICK k \in Nat, m \in Nat : k = Count(q, {o}) /\ m = Is(x, o)
    BY CountType DEF Is
  <2>3. PICK l \in Nat : l = Is(st.cur, o)
    BY DEF Is
  <2> QED
    BY <1>1, <1>10, <2>1, <2>2, <2>3 DEF Bufs
<1> QED
  BY <1>1, <1>2, <1>6, <1>8, <1>9, <1>10, <1>11, <1>12, <1>13

\* The buffer in hand joins the queue, and a write is tried.
LEMMA AddGood ==
  ASSUME NEW st, Typed(st), NEW x \in Origins, NEW r, r = WriteBufferAdd(st, x),
         NEW n, NEW fr, NEW ag, NEW nt, Good(st, x, n, fr, ag, nt)
  PROVE  Typed(r) /\ Good(r, NoBuf, n, fr, ag, nt)
<1>1. /\ Typed(r) /\ Only(r, st, {"queue", "calls"})
      /\ \A C : Under(r, C) = Under(st, C) + In("write", C)
      /\ \A o : Bufs(r, o) = Bufs(st, o) + Is(x, o)
  BY AddEffect
<1>2. \A C : Under(st, C) \in Nat
  BY UnderType
<1>3. /\ Under(r, {"accept"}) = Under(st, {"accept"}) /\ Under(r, {"reset"}) = Under(st, {"reset"})
      /\ Under(r, {"write_refused"}) = Under(st, {"write_refused"})
      /\ Under(r, Writes) = Under(st, Writes) /\ Under(r, Reads) = Under(st, Reads)
      /\ Under(r, WillRead) = Under(st, WillRead) /\ Under(r, WillWrite) = Under(st, WillWrite) + 1
  BY <1>1, <1>2 DEF In, Writes, Reads, WillRead, WillWrite
<1>4. Under(r, WillWrite) > 0
  BY <1>2, <1>3
<1>5. /\ r.vdagent = st.vdagent /\ r.vm = st.vm /\ r.conn = st.conn /\ r.base = st.base
      /\ r.running = st.running /\ r.cur = st.cur
      /\ r.retry = st.retry /\ r.self = st.self /\ r.client = st.client /\ r.tok = st.tok
      /\ r.free = st.free /\ r.send = st.send /\ r.busyW = st.busyW /\ r.busyR = st.busyR
      /\ r.left = st.left /\ r.accept = st.accept
      /\ r.held = st.held /\ r.msg = st.msg /\ r.bufs = st.bufs /\ r.out = st.out
  BY <1>1 DEF Only, Fields, Flags, Counters
<1>6. LinkInv(r, n)
  BY <1>3, <1>5 DEF Good, LinkInv
<1>7. /\ Is(NoBuf, "client") = 0 /\ Is(NoBuf, "server") = 0
      /\ Is(x, "client") \in Nat /\ Is(x, "server") \in Nat
      /\ Bufs(st, "client") \in Nat /\ Bufs(st, "server") \in Nat
  BY UnderType DEF Is, NoBuf
<1>8. TokenInv(r, n, NoBuf)
  <2>1. Bufs(r, "client") + Is(NoBuf, "client") = Bufs(st, "client") + Is(x, "client")
    BY <1>1, <1>7
  <2>2. st.tok \in Nat /\ st.free \in Nat
    BY DEF Typed, Counters
  <2>3. PICK h \in Nat : h = Is(st.held, n)
    BY DEF Is
  <2> QED
    BY <1>1, <1>5, <1>7, <2>1, <2>2, <2>3 DEF Good, TokenInv
<1>9. SelfInv(r, NoBuf) /\ ReadBufInv(r)
  <2>1. Bufs(r, "server") + Is(NoBuf, "server") = Bufs(st, "server") + Is(x, "server")
    BY <1>1, <1>7
  <2>2. st.self \in Nat
    BY DEF Typed, Counters
  <2> QED
    BY <1>1, <1>5, <1>7, <2>1, <2>2 DEF Good, SelfInv, ReadBufInv
<1>10. StackInv(r)
  BY <1>3, <1>5 DEF Good, StackInv
<1>11. WriteInv(r, fr, nt)
  BY <1>4, <1>5 DEF Good, WriteInv
<1>12. ReadInv(r, ag)
  BY <1>3, <1>5 DEF Good, ReadInv, CanServe
<1> QED
  BY <1>1, <1>6, <1>8, <1>9, <1>10, <1>11, <1>12 DEF Good

\* Tokens move between the counters and a buffer in hand.
LEMMA GoodTokens ==
  ASSUME NEW st, NEW r, Only(r, st, Silent \cup {"self", "tok", "free"}),
         NEW b, NEW n, NEW fr, NEW ag, NEW nt, Good(st, b, n, fr, ag, nt),
         NEW c, TokenInv(r, n, c), SelfInv(r, c)
  PROVE  Good(r, c, n, fr, ag, nt)
<1>1. /\ r.vdagent = st.vdagent /\ r.vm = st.vm /\ r.conn = st.conn /\ r.base = st.base
      /\ r.running = st.running /\ r.queue = st.queue /\ r.cur = st.cur
      /\ r.retry = st.retry /\ r.client = st.client
      /\ r.send = st.send /\ r.busyW = st.busyW /\ r.busyR = st.busyR
      /\ r.left = st.left /\ r.calls = st.calls /\ r.accept = st.accept
      /\ r.held = st.held /\ r.msg = st.msg /\ r.bufs = st.bufs /\ r.out = st.out
  BY DEF Only, Silent, Fields, Flags, Counters
<1>2. LinkInv(r, n)
  BY <1>1 DEF Good, LinkInv, Under
<1>3. ReadBufInv(r)
  BY <1>1 DEF Good, ReadBufInv
<1>4. StackInv(r)
  BY <1>1 DEF Good, StackInv, Under
<1>5. WriteInv(r, fr, nt) /\ ReadInv(r, ag)
  BY <1>1 DEF Good, WriteInv, ReadInv, Under, CanServe, ToWrite
<1> QED
  BY <1>2, <1>3, <1>4, <1>5 DEF Good

\* reds_handle_agent_mouse_event: a token is paid for the message, or the event waits.
LEMMA MouseGood ==
  ASSUME NEW st, Typed(st), NEW r, r = AgentMouseEvent(st),
         NEW n, NEW fr, NEW ag, NEW nt, Good(st, NoBuf, n, fr, ag, nt)
  PROVE  Typed(r) /\ Good(r, NoBuf, n, fr, ag, nt)
<1>1. CASE ~st.base
  BY <1>1 DEF AgentMouseEvent
<1>2. CASE st.base /\ st.self = 0
  <2>1. r = [st EXCEPT !.mouse = TRUE]
    BY <1>2 DEF AgentMouseEvent
  <2>2. Only(r, st, {"mouse"}) /\ r.mouse = TRUE
    BY <2>1 DEF Typed, Only, Fields, Flags
  <2>3. Typed(r)
    <3>1. {"mouse"} \subseteq Flags
      BY DEF Flags
    <3>2. Fits(r.mouse, "mouse")
      BY <2>2, <3>1, FitsKinds
    <3>3. \A f \in {"mouse"} : Fits(r[f], f)
      BY <3>2
    <3> QED
      BY <2>2, <3>3, TypedFits
  <2>4. Only(r, st, Silent)
    BY <2>2 DEF Only, Silent
  <2> QED
    BY <2>3, <2>4, GoodFrame
<1>3. CASE st.base /\ st.self # 0
  <2>1. PICK k \in Nat : k = st.self - 1
    BY <1>3 DEF Typed, Counters
  <2>2. PICK t : t = [st EXCEPT !.self = k, !.mouse = FALSE]
    OBVIOUS
  <2>3. r = WriteBufferAdd(t, "server")
    BY <1>3, <2>1, <2>2 DEF AgentMouseEvent
  <2>4. Only(t, st, {"self", "mouse"}) /\ t.self = k /\ t.mouse = FALSE
    BY <2>2 DEF Typed, Only, Fields, Flags, Counters
  <2>5. Typed(t)
    <3>1. {"mouse"} \subseteq Flags /\ {"self"} \subseteq Counters
      BY DEF Flags, Counters
    <3>2. Fits(t.mouse, "mouse")
      BY <2>1, <2>4, <3>1, FitsKinds
    <3>3. Fits(t.self, "self")
      BY <2>1, <2>4, <3>1, FitsKinds
    <3>4. \A f \in {"self", "mouse"} : Fits(t[f], f)
      BY <3>2, <3>3
    <3> QED
      BY <2>4, <3>4, TypedFits
  <2>6. /\ t.base = st.base /\ t.client = st.client /\ t.tok = st.tok /\ t.free = st.free
        /\ t.held = st.held /\ t.queue = st.queue /\ t.cur = st.cur
    BY <2>4 DEF Only, Fields, Flags, Counters
  <2>7. \A o : Bufs(t, o) = Bufs(st, o) /\ Bufs(st, o) \in Nat
    BY <2>6, UnderType DEF Bufs
  <2>8. /\ Is(NoBuf, "server") = 0 /\ Is("server", "server") = 1
        /\ Is(NoBuf, "client") = 0 /\ Is("server", "client") = 0
    BY DEF Is, NoBuf
  <2>9. TokenInv(t, n, "server")
    BY <2>6, <2>7, <2>8 DEF Good, TokenInv
  <2>10. SelfInv(t, "server")
    <3>1. st.self + Bufs(st, "server") = SelfTokens
      BY <1>3, <2>7, <2>8 DEF Good, SelfInv, Typed, Counters
    <3>2. k + Bufs(t, "server") + 1 = SelfTokens
      BY <2>1, <2>7, <3>1 DEF Typed, Counters
    <3> QED
      BY <1>3, <2>4, <2>6, <2>8, <3>2 DEF SelfInv
  <2>11. Only(t, st, Silent \cup {"self", "tok", "free"})
    BY <2>4 DEF Only, Silent
  <2>12. Good(t, "server", n, fr, ag, nt)
    BY <2>9, <2>10, <2>11, GoodTokens
  <2>13. "server" \in Origins
    BY DEF Origins
  <2> QED
    BY <2>3, <2>5, <2>12, <2>13, AddGood
<1> QED
  BY <1>1, <1>2, <1>3

\* spice_char_device_client_tokens_add: the token of a buffer of the client is counted, and
\* an interval of them goes back to it.
LEMMA TokensAddEffect ==
  ASSUME NEW st, Typed(st), st.free < Interval, NEW r, r = ClientTokensAdd(st)
  PROVE  /\ Typed(r) /\ Only(r, st, {"tok", "free", "pipe"}) /\ r.free < Interval
         /\ r.tok + r.free = st.tok + st.free + 1
         /\ \/ r.tok = st.tok /\ r.pipe = st.pipe
            \/ /\ r.tok = st.tok + Interval
               /\ r.pipe = Append(st.pipe, [type |-> "TOKEN", n |-> Interval])
<1>1. st.free \in Nat /\ st.tok \in Nat /\ Interval \in Nat /\ Interval > 0
  BY PortConstants DEF Typed, Counters
<1>2. CASE st.free + 1 >= Interval
  <2>1. st.free + 1 = Interval
    BY <1>1, <1>2
  <2>2. PICK k \in Nat : k = st.tok + Interval
    BY <1>1
  <2>3. PICK m \in Down : m = [type |-> "TOKEN", n |-> Interval]
    BY <1>1 DEF Down
  <2>4. PICK q \in Seq(Down) : q = st.pipe
    BY DEF Typed
  <2>a. Append(q, m) \in Seq(Down)
    OBVIOUS
  <2>5. PICK p \in Seq(Down) : p = Append(q, m)
    BY <2>a
  <2>6. r = [st EXCEPT !.tok = k, !.free = 0, !.pipe = p]
    BY <1>2, <2>1, <2>2, <2>3, <2>4, <2>5 DEF ClientTokensAdd, ToClient
  <2>7. Only(r, st, {"tok", "free", "pipe"}) /\ r.tok = k /\ r.free = 0 /\ r.pipe = p
    BY <2>6 DEF Typed, Only, Fields, Flags, Counters
  <2>8. Typed(r)
    <3>1. DOMAIN r = Fields /\ \A f \in Flags : r[f] \in BOOLEAN
      BY <2>7 DEF Typed, Only, Fields, Flags
    <3>2. \A f \in Counters : r[f] \in Nat
      <4>1. \A f \in Counters \ {"tok", "free"} : f \in Fields \ {"tok", "free", "pipe"}
        BY DEF Fields, Counters
      <4>2. \A f \in Counters \ {"tok", "free"} : r[f] \in Nat
        BY <2>7, <4>1 DEF Typed, Only
      <4>3. r["tok"] \in Nat /\ r["free"] \in Nat
        BY <2>7
      <4> QED
        BY <4>2, <4>3
    <3>3. /\ r.queue = st.queue /\ r.cur = st.cur /\ r.busyW = st.busyW /\ r.busyR = st.busyR
          /\ r.calls = st.calls /\ r.msg = st.msg /\ r.fault = st.fault
      BY <2>7 DEF Only, Fields
    <3> QED
      BY <2>7, <3>1, <3>2, <3>3 DEF Typed
  <2> QED
    BY <1>1, <2>1, <2>2, <2>3, <2>4, <2>5, <2>7, <2>8
<1>3. CASE ~(st.free + 1 >= Interval)
  <2>1. PICK k \in Nat : k = st.free + 1
    BY <1>1
  <2>2. r = [st EXCEPT !.free = k]
    BY <1>3, <2>1 DEF ClientTokensAdd
  <2>3. Only(r, st, {"free"}) /\ r.free = k
    BY <2>2 DEF Typed, Only, Fields, Flags, Counters
  <2>4. Typed(r)
    <3>1. {"free"} \subseteq Counters
      BY DEF Counters
    <3>2. Fits(r.free, "free")
      BY <2>3, <3>1, FitsKinds
    <3>3. \A f \in {"free"} : Fits(r[f], f)
      BY <3>2
    <3> QED
      BY <2>3, <3>3, TypedFits
  <2>5. r.tok = st.tok /\ r.pipe = st.pipe /\ Only(r, st, {"tok", "free", "pipe"})
    BY <2>3 DEF Only, Fields, Flags, Counters
  <2> QED
    BY <1>1, <1>3, <2>1, <2>3, <2>4, <2>5
<1> QED
  BY <1>2, <1>3

\* spice_char_device_write_buffer_release, of a buffer in hand.  The client whose buffer it is
\* is always found.
LEMMA ReleaseGood ==
  ASSUME NEW st, Typed(st), NEW b \in Origins \cup {NoBuf}, NEW r, r = WriteBufferRelease(st, b),
         NEW n, NEW fr, NEW ag, NEW nt, Good(st, b, n, fr, ag, nt)
  PROVE  Typed(r) /\ Good(r, NoBuf, n, fr, ag, nt)
<1>1. \A o : Bufs(st, o) \in Nat
  BY UnderType
<1>2. /\ Is(NoBuf, "server") = 0 /\ Is("server", "server") = 1
      /\ Is(NoBuf, "client") = 0 /\ Is("server", "client") = 0
      /\ Is("client", "client") = 1 /\ Is("client", "server") = 0
  BY DEF Is, NoBuf
<1>3. CASE b = "client"
  <2>1. st.client
    BY <1>1, <1>2, <1>3 DEF Good, TokenInv, Typed, Flags
  <2>2. r = ClientTokensAdd(st) /\ st.free < Interval
    BY <1>3, <2>1 DEF WriteBufferRelease, Good, TokenInv
  <2>3. /\ Typed(r) /\ Only(r, st, {"tok", "free", "pipe"}) /\ r.free < Interval
        /\ r.tok + r.free = st.tok + st.free + 1
    BY <2>2, TokensAddEffect
  <2>4. /\ r.base = st.base /\ r.client = st.client /\ r.self = st.self
        /\ r.held = st.held /\ r.queue = st.queue /\ r.cur = st.cur
    BY <2>3 DEF Only, Fields, Flags, Counters
  <2>5. \A o : Bufs(r, o) = Bufs(st, o)
    BY <2>4 DEF Bufs
  <2>6. TokenInv(r, n, NoBuf)
    <3>1. st.tok + st.free + Bufs(st, "client") + 1 + Is(st.held, n) = Window
      BY <1>2, <1>3, <2>1 DEF Good, TokenInv
    <3>2. PICK h \in Nat : h = Is(st.held, n)
      BY DEF Is
    <3>3. st.tok \in Nat /\ st.free \in Nat /\ r.tok \in Nat /\ r.free \in Nat
      BY <2>3 DEF Typed, Counters
    <3>4. r.tok + r.free + Bufs(st, "client") + 0 + h = Window
      BY <1>1, <2>3, <3>1, <3>2, <3>3
    <3>5. r.tok + r.free + Bufs(r, "client") + Is(NoBuf, "client") + Is(r.held, n) = Window
      BY <1>2, <2>4, <2>5, <3>2, <3>4
    <3> QED
      BY <2>1, <2>3, <2>4, <3>5 DEF TokenInv
  <2>7. SelfInv(r, NoBuf)
    BY <1>2, <1>3, <2>4, <2>5 DEF Good, SelfInv
  <2>8. Only(r, st, Silent \cup {"self", "tok", "free"})
    BY <2>3 DEF Only, Silent
  <2> QED
    BY <2>3, <2>6, <2>7, <2>8, GoodTokens
<1>4. CASE b = "server"
  <2>1. st.base
    BY <1>1, <1>2, <1>4 DEF Good, SelfInv, Typed, Flags
  <2>2. PICK k \in Nat : k = st.self + 1
    BY DEF Typed, Counters
  <2>3. PICK t : t = [st EXCEPT !.self = k]
    OBVIOUS
  <2>4. r = IF st.mouse THEN AgentMouseEvent(t) ELSE t
    BY <1>4, <2>2, <2>3 DEF WriteBufferRelease
  <2>5. Only(t, st, {"self"}) /\ t.self = k
    BY <2>3 DEF Typed, Only, Fields, Flags, Counters
  <2>6. Typed(t)
    BY <2>5 DEF Typed, Only, Fields, Flags, Counters
  <2>7. /\ t.base = st.base /\ t.client = st.client /\ t.tok = st.tok /\ t.free = st.free
        /\ t.held = st.held /\ t.queue = st.queue /\ t.cur = st.cur
    BY <2>5 DEF Only, Fields, Flags, Counters
  <2>8. \A o : Bufs(t, o) = Bufs(st, o)
    BY <2>7 DEF Bufs
  <2>9. TokenInv(t, n, NoBuf)
    BY <1>2, <1>4, <2>7, <2>8 DEF Good, TokenInv
  <2>10. SelfInv(t, NoBuf)
    <3>1. st.self + Bufs(st, "server") + 1 = SelfTokens
      BY <1>2, <1>4, <2>1 DEF Good, SelfInv
    <3>2. k + Bufs(t, "server") + 0 = SelfTokens
      BY <1>1, <2>2, <2>8, <3>1 DEF Typed, Counters
    <3> QED
      BY <1>2, <2>1, <2>5, <2>7, <3>2 DEF SelfInv
  <2>11. Only(t, st, Silent \cup {"self", "tok", "free"})
    BY <2>5 DEF Only
  <2>12. Good(t, NoBuf, n, fr, ag, nt)
    BY <2>9, <2>10, <2>11, GoodTokens
  <2> QED
    BY <2>4, <2>6, <2>12, MouseGood
<1>5. CASE b # "client" /\ b # "server"
  <2>1. r = st
    BY <1>5 DEF WriteBufferRelease
  <2>2. Is(b, "client") = Is(NoBuf, "client") /\ Is(b, "server") = Is(NoBuf, "server")
    BY <1>5 DEF Is, NoBuf
  <2>3. TokenInv(r, n, NoBuf) /\ SelfInv(r, NoBuf)
    BY <2>1, <2>2 DEF Good, TokenInv, SelfInv
  <2> QED
    BY <2>1, <2>3 DEF Good
<1> QED
  BY <1>3, <1>4, <1>5

\* spice_char_device_client_remove: the client's buffers are dropped from the queue, and the
\* one that is being written loses its origin.
LEMMA RemoveEffect ==
  ASSUME NEW st, Typed(st), NEW r, r = ClientRemove(st)
  PROVE  /\ Typed(r) /\ Only(r, st, {"client", "tok", "free", "send", "queue", "cur"})
         /\ r.client = FALSE
         /\ st.client => r.tok = 0 /\ r.free = 0 /\ r.send = 0 /\ Bufs(r, "client") = 0
         /\ ~st.client => r.tok = st.tok /\ r.free = st.free /\ r.send = st.send
                          /\ Bufs(r, "client") = Bufs(st, "client")
         /\ Bufs(r, "server") = Bufs(st, "server")
         /\ r.cur = NoBuf <=> st.cur = NoBuf
         /\ r.queue # <<>> => st.queue # <<>>
<1>1. CASE ~st.client
  <2>1. r = st
    BY <1>1 DEF ClientRemove
  <2> QED
    BY <1>1, <2>1 DEF Only, Typed, Flags
<1>2. CASE st.client
  <2>1. PICK q \in Seq(Origins) : q = st.queue
    BY DEF Typed
  <2>2. PICK p \in Seq(Origins) : p = Kept(q, Origins \ {"client"})
    BY KeptPositions
  <2>3. PICK c \in Origins \cup {NoBuf} : c = IF st.cur = "client" THEN "none" ELSE st.cur
    BY DEF Typed, Origins
  <2>4. r = [st EXCEPT !.client = FALSE, !.tok = 0, !.free = 0, !.send = 0, !.queue = p, !.cur = c]
    BY <1>2, <2>1, <2>2, <2>3 DEF ClientRemove
  <2>5. /\ Only(r, st, {"client", "tok", "free", "send", "queue", "cur"})
        /\ r.client = FALSE /\ r.tok = 0 /\ r.free = 0 /\ r.send = 0 /\ r.queue = p /\ r.cur = c
    BY <2>4 DEF Typed, Only, Fields, Flags, Counters
  <2>6. Typed(r)
    <3>1. DOMAIN r = Fields
      BY <2>5 DEF Typed, Only
    <3>2. \A f \in Flags : r[f] \in BOOLEAN
      <4>1. \A f \in Flags \ {"client"} :
                f \in Fields \ {"client", "tok", "free", "send", "queue", "cur"}
        BY DEF Fields, Flags
      <4>2. \A f \in Flags \ {"client"} : r[f] \in BOOLEAN
        BY <2>5, <4>1 DEF Typed, Only
      <4> QED
        BY <2>5, <4>2
    <3>3. \A f \in Counters : r[f] \in Nat
      <4>1. \A f \in Counters \ {"tok", "free", "send"} :
                f \in Fields \ {"client", "tok", "free", "send", "queue", "cur"}
        BY DEF Fields, Counters
      <4>2. \A f \in Counters \ {"tok", "free", "send"} : r[f] \in Nat
        BY <2>5, <4>1 DEF Typed, Only
      <4>3. r["tok"] \in Nat /\ r["free"] \in Nat /\ r["send"] \in Nat
        BY <2>5
      <4> QED
        BY <4>2, <4>3
    <3>4. /\ r.busyW = st.busyW /\ r.busyR = st.busyR /\ r.pipe = st.pipe
          /\ r.calls = st.calls /\ r.msg = st.msg /\ r.fault = st.fault
      BY <2>5 DEF Only, Fields
    <3> QED
      BY <2>5, <3>1, <3>2, <3>3, <3>4 DEF Typed
  <2>7. Count(p, {"client"}) = 0 /\ Count(p, {"server"}) = Count(q, {"server"})
    <3>1. /\ {"client"} \cap (Origins \ {"client"}) = {}
          /\ {"server"} \cap (Origins \ {"client"}) = {"server"}
      BY DEF Origins
    <3>2. Count(p, {"client"}) = Count(q, {}) /\ Count(p, {"server"}) = Count(q, {"server"})
      BY <2>2, <3>1, KeptCount
    <3>3. Count(q, {}) = 0
      BY FS_EmptySet DEF Count
    <3> QED
      BY <3>2, <3>3
  <2>8. Is(c, "client") = 0 /\ Is(c, "server") = Is(st.cur, "server") /\ (c = NoBuf <=> st.cur = NoBuf)
    BY <2>3 DEF Is, NoBuf
  <2>9. p # <<>> => q # <<>>
    <3>1. Len(p) <= Len(q)
      BY <2>2, KeptElements
    <3> QED
      BY <3>1, EmptySeq, LenProperties
  <2>10. Bufs(r, "client") = 0 /\ Bufs(r, "server") = Bufs(st, "server")
    BY <2>1, <2>5, <2>7, <2>8 DEF Bufs
  <2> QED
    BY <1>2, <2>1, <2>5, <2>6, <2>8, <2>9, <2>10
<1> QED
  BY <1>1, <1>2 DEF Typed, Flags

\* reds_client_disconnect, before it says goodbye to the agent.
Gone(st) ==
    [ClientRemove(st) EXCEPT !.conn = FALSE, !.accept = FALSE, !.out = 0, !.bufs = @ + st.out,
                             !.pipe = <<>>, !.msg = "none"]

\* The client's share of the state is gone, and the buffers of the agent's messages are back.
LEMMA GoneEffect ==
  ASSUME NEW st, Typed(st), NEW r, r = Gone(st)
  PROVE  /\ Typed(r)
         /\ Only(r, st, {"client", "tok", "free", "send", "queue", "cur", "conn", "accept", "out",
                         "bufs", "pipe", "msg"})
         /\ r.client = FALSE /\ r.conn = FALSE /\ r.accept = FALSE /\ r.pipe = <<>> /\ r.msg = "none"
         /\ r.out = 0 /\ r.bufs = st.bufs + st.out
         /\ st.client => r.tok = 0 /\ r.free = 0 /\ Bufs(r, "client") = 0
         /\ ~st.client => r.tok = st.tok /\ r.free = st.free /\ Bufs(r, "client") = Bufs(st, "client")
         /\ Bufs(r, "server") = Bufs(st, "server")
         /\ r.cur = NoBuf <=> st.cur = NoBuf
         /\ r.queue # <<>> => st.queue # <<>>
<1>1. PICK t : t = ClientRemove(st)
  OBVIOUS
<1>2. /\ Typed(t) /\ Only(t, st, {"client", "tok", "free", "send", "queue", "cur"})
      /\ t.client = FALSE
      /\ st.client => t.tok = 0 /\ t.free = 0 /\ t.send = 0 /\ Bufs(t, "client") = 0
      /\ ~st.client => t.tok = st.tok /\ t.free = st.free /\ t.send = st.send
                       /\ Bufs(t, "client") = Bufs(st, "client")
      /\ Bufs(t, "server") = Bufs(st, "server")
      /\ t.cur = NoBuf <=> st.cur = NoBuf
      /\ t.queue # <<>> => st.queue # <<>>
  BY <1>1, RemoveEffect
<1>3. t.bufs = st.bufs /\ t.bufs \in Nat /\ st.out \in Nat
  BY <1>2 DEF Only, Fields, Counters, Typed
<1>4. PICK k \in Nat : k = st.bufs + st.out
  BY <1>3
<1>5. r = [t EXCEPT !.conn = FALSE, !.accept = FALSE, !.out = 0, !.bufs = k, !.pipe = <<>>,
                    !.msg = "none"]
  BY <1>1, <1>3, <1>4 DEF Gone
<1>6. Only(r, t, {"conn", "accept", "out", "bufs", "pipe", "msg"})
  BY <1>2, <1>5 DEF Only, Typed
<1>7. /\ r.conn = FALSE /\ r.accept = FALSE /\ r.out = 0 /\ r.bufs = k /\ r.pipe = <<>>
      /\ r.msg = "none"
  BY <1>2, <1>5 DEF Typed, Fields, Flags, Counters
<1>8. Typed(r)
  <2>1. DOMAIN r = Fields
    BY <1>2, <1>6 DEF Typed, Only
  <2>2. \A f \in Flags : r[f] \in BOOLEAN
    <3>1. \A f \in Flags \ {"conn", "accept"} :
              f \in Fields \ {"conn", "accept", "out", "bufs", "pipe", "msg"}
      BY DEF Fields, Flags
    <3>2. \A f \in Flags \ {"conn", "accept"} : r[f] \in BOOLEAN
      BY <1>2, <1>6, <3>1 DEF Typed, Only
    <3> QED
      BY <1>7, <3>2
  <2>3. \A f \in Counters : r[f] \in Nat
    <3>1. \A f \in Counters \ {"out", "bufs"} :
              f \in Fields \ {"conn", "accept", "out", "bufs", "pipe", "msg"}
      BY DEF Fields, Counters
    <3>2. \A f \in Counters \ {"out", "bufs"} : r[f] \in Nat
      BY <1>2, <1>6, <3>1 DEF Typed, Only
    <3>3. r["out"] \in Nat /\ r["bufs"] \in Nat
      BY <1>7
    <3> QED
      BY <3>2, <3>3
  <2>4. /\ r.busyW = t.busyW /\ r.busyR = t.busyR /\ r.queue = t.queue /\ r.cur = t.cur
        /\ r.calls = t.calls /\ r.fault = t.fault
    BY <1>6 DEF Only, Fields
  <2> QED
    BY <1>2, <1>7, <2>1, <2>2, <2>3, <2>4 DEF Typed
<1>9. /\ r.client = t.client /\ r.tok = t.tok /\ r.free = t.free /\ r.queue = t.queue
      /\ r.cur = t.cur
  BY <1>6 DEF Only, Fields, Flags, Counters
<1>10. \A o : Bufs(r, o) = Bufs(t, o)
  BY <1>9 DEF Bufs
<1>11. Only(r, st, {"client", "tok", "free", "send", "queue", "cur", "conn", "accept", "out",
                    "bufs", "pipe", "msg"})
  BY <1>2, <1>6 DEF Only
<1> QED
  BY <1>2, <1>4, <1>7, <1>8, <1>9, <1>10, <1>11

\* reds_client_disconnect.
LEMMA DisconnectGood ==
  ASSUME NEW st, Typed(st), NEW r, r = ClientDisconnect(st),
         NEW n, NEW fr, NEW ag, NEW nt, Good(st, NoBuf, n, fr, ag, nt)
  PROVE  Typed(r) /\ Good(r, NoBuf, n, fr, ag, nt)
<1>1. PICK g : g = Gone(st)
  OBVIOUS
<1>2. /\ Typed(g)
      /\ Only(g, st, {"client", "tok", "free", "send", "queue", "cur", "conn", "accept", "out",
                      "bufs", "pipe", "msg"})
      /\ g.client = FALSE /\ g.conn = FALSE /\ g.accept = FALSE /\ g.pipe = <<>> /\ g.msg = "none"
      /\ g.out = 0 /\ g.bufs = st.bufs + st.out
      /\ st.client => g.tok = 0 /\ g.free = 0 /\ Bufs(g, "client") = 0
      /\ ~st.client => g.tok = st.tok /\ g.free = st.free /\ Bufs(g, "client") = Bufs(st, "client")
      /\ Bufs(g, "server") = Bufs(st, "server")
      /\ g.cur = NoBuf <=> st.cur = NoBuf
      /\ g.queue # <<>> => st.queue # <<>>
  BY <1>1, GoneEffect
<1>3. /\ g.vdagent = st.vdagent /\ g.vm = st.vm /\ g.base = st.base
      /\ g.running = st.running /\ g.retry = st.retry /\ g.self = st.self
      /\ g.busyW = st.busyW /\ g.busyR = st.busyR
      /\ g.calls = st.calls /\ g.held = st.held
  BY <1>2 DEF Only, Fields, Flags, Counters
<1>4. LinkInv(g, n)
  BY <1>2, <1>3 DEF Good, LinkInv, Under
<1>5. TokenInv(g, n, NoBuf)
  <2>1. Is(NoBuf, "client") = 0 /\ 0 < Interval /\ (g.client <=> FALSE)
    BY <1>2, PortConstants DEF Is, NoBuf
  <2>2. CASE st.client
    BY <1>2, <2>1, <2>2 DEF TokenInv
  <2>3. CASE ~st.client
    BY <1>2, <2>1, <2>3 DEF TokenInv, Good
  <2> QED
    BY <2>2, <2>3
<1>6. SelfInv(g, NoBuf) /\ ReadBufInv(g)
  <2>1. st.bufs \in Nat /\ st.out \in Nat
    BY DEF Typed, Counters
  <2> QED
    BY <1>2, <1>3, <2>1 DEF Good, SelfInv, ReadBufInv
<1>7. StackInv(g)
  BY <1>2, <1>3 DEF Good, StackInv, Under
<1>8. WriteInv(g, fr, nt)
  BY <1>2, <1>3 DEF Good, WriteInv, Under, CanServe, ToWrite
<1>9. ReadInv(g, ag)
  BY <1>2 DEF ReadInv
<1>10. Good(g, NoBuf, n, fr, ag, nt)
  BY <1>4, <1>5, <1>6, <1>7, <1>8, <1>9 DEF Good
<1>11. {"write", "read", "goodbye"} \subseteq Free
  BY DEF Free
<1>12. \/ r = Call(g, <<>>) \/ r = Call(g, <<"goodbye">>)
       \/ r = Call(g, <<"write", "read">> \o <<"goodbye">>)
  <2>1. <<>> \o <<"goodbye">> = <<"goodbye">>
    OBVIOUS
  <2> QED
    BY <1>1, <2>1 DEF ClientDisconnect, Gone, Wakeup
<1> QED
  BY <1>2, <1>10, <1>11, <1>12, GoodCalls


-----------------------------------------------------------------------------
(* Writes and reads of the device. *)

\* The calls of a smaller set are fewer; without calls none is under way.
LEMMA UnderLess ==
  ASSUME NEW st, Typed(st)
  PROVE  /\ \A C, D : C \subseteq D => Under(st, C) <= Under(st, D)
         /\ st.calls = <<>> => \A C : Under(st, C) = 0
<1>1. PICK q \in Seq(Pending) : q = st.calls
  BY DEF Typed
<1>2. ASSUME NEW C, NEW D, C \subseteq D PROVE Count(q, C) <= Count(q, D)
  <2>1. {i \in DOMAIN q : q[i] \in C} \subseteq {i \in DOMAIN q : q[i] \in D}
    BY <1>2
  <2>2. IsFiniteSet({i \in DOMAIN q : q[i] \in D})
    BY CountType
  <2> QED
    BY <2>1, <2>2, FS_Subset DEF Count
<1> QED
  BY <1>1, <1>2, CountShort DEF Under

\* The main thread that waits for events is neither writing nor reading.
LEMMA IdleStack ==
  ASSUME NEW st, Typed(st), StackInv(st), st.calls = <<>>
  PROVE  st.busyW = 0 /\ st.busyR = 0 /\ \A C : Under(st, C) = 0
<1>1. \A C : Under(st, C) = 0
  BY UnderLess
<1>2. st.busyW = 0
  BY <1>1 DEF StackInv, Busy, Typed
<1>3. st.busyR = 0
  BY <1>1 DEF StackInv, Busy, Typed
<1> QED
  BY <1>1, <1>2, <1>3

\* The innermost call ends and another begins in its place.
LEMMA SwapEffect ==
  ASSUME NEW st, Typed(st), st.calls # <<>>, NEW a \in Pending, Head(st.calls) = a,
         NEW t, Typed(t), t.calls = Tail(st.calls), NEW x \in Pending, NEW r, r = Call(t, <<x>>)
  PROVE  /\ Typed(r) /\ Only(r, t, {"calls"})
         /\ \A C : Under(r, C) = Under(st, C) - In(a, C) + In(x, C)
<1>d. ASSUME NEW C PROVE Count(<<x>>, C) = In(x, C)
  BY CountShort DEF One, In
<1>a. <<x>> \in Seq(Pending) /\ \A C : Count(<<x>>, C) = In(x, C)
  BY <1>d
<1>1. PICK c \in Seq(Pending) : c = <<x>>
  BY <1>a
<1>b. \A C : Count(c, C) = In(x, C)
  BY <1>1, <1>a
<1>c. r = Call(t, c)
  BY <1>1
<1>2. Typed(r) /\ Only(r, t, {"calls"}) /\ \A C : Under(r, C) = Count(c, C) + Under(t, C)
  BY <1>c, CallEffect
<1>3. PICK y : y = Return(st)
  OBVIOUS
<1>4. \A C : Under(y, C) = Under(st, C) - In(a, C) /\ y.calls = Tail(st.calls)
  BY <1>3, ReturnEffect
<1>5. \A C : Under(t, C) = Under(st, C) - In(a, C)
  BY <1>4 DEF Under
<1>6. \A C : Under(st, C) \in Nat /\ In(a, C) \in Nat /\ In(x, C) \in Nat
  BY UnderType DEF In
<1>7. \A C : Under(r, C) = Under(st, C) - In(a, C) + In(x, C)
  BY <1>2, <1>5, <1>6, <1>b
<1> QED
  BY <1>2, <1>7

\* What concerns the calls under way alone.
Stacked == Silent \cup {"calls", "busyW", "busyR", "retry", "left"}

\* Only the calls under way, and what goes with them, have to be looked at.
LEMMA GoodStack ==
  ASSUME NEW st, Typed(st), NEW r, Typed(r), Only(r, st, Stacked),
         NEW b, NEW n, NEW fr, NEW ag, NEW nt, Good(st, b, n, fr, ag, nt),
         Under(r, {"accept"}) > 0 => Under(st, {"accept"}) > 0,
         StackInv(r), WriteInv(r, fr, nt), ReadInv(r, ag)
  PROVE  Good(r, b, n, fr, ag, nt)
<1>1. /\ r.vdagent = st.vdagent /\ r.vm = st.vm /\ r.conn = st.conn /\ r.base = st.base
      /\ r.running = st.running /\ r.queue = st.queue /\ r.cur = st.cur
      /\ r.self = st.self /\ r.client = st.client /\ r.tok = st.tok
      /\ r.free = st.free /\ r.accept = st.accept
      /\ r.held = st.held /\ r.msg = st.msg /\ r.bufs = st.bufs /\ r.out = st.out
  BY DEF Only, Stacked, Silent, Fields, Flags, Counters
<1>2. LinkInv(r, n)
  BY <1>1 DEF Good, LinkInv
<1>3. TokenInv(r, n, b) /\ SelfInv(r, b) /\ ReadBufInv(r)
  BY <1>1 DEF Good, TokenInv, SelfInv, ReadBufInv, Bufs
<1> QED
  BY <1>2, <1>3 DEF Good

\* The state of the server is what remains to be shown of a step.
LEMMA PortStep ==
  ASSUME PortInv, Typed(s'), Good(s', NoBuf, count'.conns, room', agent', mode'.notify),
         room' \in 0 .. Room, agent' \in Nat, up' \in Seq(Up), mode' = mode,
         peer' \in [tok : Nat, agent : BOOLEAN, owed : Nat],
         count' \in [data : Nat, agent : Nat, mouse : Nat, plugs : Nat, conns : Nat, stops : Nat],
         agent' <= count'.agent, count'.agent <= mode.agent, count'.conns <= mode.conns
  PROVE  PortInv'
BY DEF PortInv, TypeInv

\* A step of the server that leaves the others alone.
LEMMA ServerStep ==
  ASSUME PortInv, UNCHANGED <<device, world>>, Typed(s'),
         Good(s', NoBuf, count.conns, room, agent, mode.notify)
  PROVE  PortInv'
BY DEF PortInv, TypeInv, device, world

\* spice_char_device_write_to_device begins, or asks the one under way to go on.
LEMMA CallWriteStep == ASSUME PortInv, CallWrite PROVE PortInv'
<1>1. /\ Typed(s) /\ s.calls # <<>> /\ Head(s.calls) = "write" /\ "write" \in Pending
      /\ Good(s, NoBuf, count.conns, room, agent, mode.notify) /\ UNCHANGED <<device, world>>
  BY DEF PortInv, TypeInv, CallWrite, Top, Pending
<1>2. PICK y : y = Return(s)
  OBVIOUS
<1>3. /\ Typed(y) /\ Only(y, s, {"calls"}) /\ y.calls = Tail(s.calls)
      /\ \A C : Under(y, C) = Under(s, C) - In("write", C)
  BY <1>1, <1>2, ReturnEffect
<1>4. \A C : Under(s, C) \in Nat
  BY <1>1, UnderType
<1>5. /\ Under(y, {"accept"}) = Under(s, {"accept"}) /\ Under(y, {"reset"}) = Under(s, {"reset"})
      /\ Under(y, {"write_refused"}) = Under(s, {"write_refused"})
      /\ Under(y, Writes) = Under(s, Writes) /\ Under(y, Reads) = Under(s, Reads)
      /\ Under(y, WillRead) = Under(s, WillRead)
  BY <1>3, <1>4 DEF In, Writes, Reads, WillRead
<1>6. CASE ~Eligible
  <2>1. s' = [y EXCEPT !.got = FALSE]
    BY <1>2, <1>6 DEF CallWrite
  <2>2. Only(s', y, {"got"}) /\ s'.got = FALSE
    BY <1>3, <2>1 DEF Only, Typed, Fields, Flags
  <2>3. Typed(s')
    BY <1>3, <2>2, TypedFits DEF Fits, Counters
  <2>4. Only(s', s, {"calls", "got"}) /\ s'.calls = y.calls
    BY <1>3, <2>2 DEF Only, Fields
  <2>5. \A C : Under(s', C) = Under(y, C)
    BY <2>4 DEF Under
  <2>6. /\ s'.busyW = s.busyW /\ s'.busyR = s.busyR /\ s'.cur = s.cur /\ s'.queue = s.queue
        /\ s'.running = s.running /\ s'.base = s.base /\ s'.vdagent = s.vdagent
        /\ s'.retry = s.retry /\ s'.client = s.client /\ s'.left = s.left /\ s'.send = s.send
        /\ s'.bufs = s.bufs
    BY <2>4 DEF Only, Fields, Flags, Counters
  <2>7. StackInv(s')
    BY <1>1, <1>5, <2>5, <2>6 DEF Good, StackInv
  <2>8. WriteInv(s', room, mode.notify) /\ ReadInv(s', agent)
    BY <1>1, <1>5, <1>6, <2>5, <2>6 DEF Good, WriteInv, ReadInv, Eligible, CanServe
  <2>9. Only(s', s, Stacked)
    BY <2>4 DEF Only, Stacked, Silent
  <2>10. Good(s', NoBuf, count.conns, room, agent, mode.notify)
    BY <1>1, <1>5, <2>3, <2>5, <2>7, <2>8, <2>9, GoodStack
  <2> QED
    BY <1>1, <2>3, <2>10, ServerStep
<1>7. CASE Eligible /\ s.busyW > 0
  <2>1. s' = [y EXCEPT !.busyW = 2, !.got = FALSE]
    BY <1>2, <1>7 DEF CallWrite
  <2>2. Only(s', y, {"busyW", "got"}) /\ s'.got = FALSE /\ s'.busyW = 2
    BY <1>3, <2>1 DEF Only, Typed, Fields, Flags
  <2>3. Typed(s')
    <3>1. {"got"} \subseteq Flags
      BY DEF Flags
    <3>2. Fits(s'.got, "got")
      BY <2>2, <3>1, FitsKinds
    <3>3. Fits(s'.busyW, "busyW")
      BY <2>2, FitsKinds
    <3>4. \A f \in {"busyW", "got"} : Fits(s'[f], f)
      BY <3>2, <3>3
    <3> QED
      BY <1>3, <2>2, <3>4, TypedFits
  <2>4. Only(s', s, {"calls", "got", "busyW"}) /\ s'.calls = y.calls
    BY <1>3, <2>2 DEF Only, Fields
  <2>5. \A C : Under(s', C) = Under(y, C)
    BY <2>4 DEF Under
  <2>6. /\ s'.busyR = s.busyR /\ s'.cur = s.cur /\ s'.queue = s.queue
        /\ s'.running = s.running /\ s'.base = s.base /\ s'.vdagent = s.vdagent
        /\ s'.retry = s.retry /\ s'.client = s.client /\ s'.left = s.left /\ s'.send = s.send
        /\ s'.bufs = s.bufs
    BY <2>4 DEF Only, Fields, Flags, Counters
  <2>7. StackInv(s')
    <3>1. Busy(s.busyW) = 1 /\ Busy(s'.busyW) = 1
      BY <1>1, <1>7, <2>2 DEF Busy, Typed
    <3>2. ~(Under(s, {"reset"}) > 0)
      BY <1>1, <1>7 DEF Good, StackInv, Eligible
    <3> QED
      BY <1>1, <1>5, <2>5, <2>6, <3>1, <3>2 DEF Good, StackInv
  <2>8. WriteInv(s', room, mode.notify) /\ ReadInv(s', agent)
    BY <1>1, <1>5, <2>2, <2>5, <2>6 DEF Good, WriteInv, ReadInv, CanServe
  <2>9. Only(s', s, Stacked)
    BY <2>4 DEF Only, Stacked, Silent
  <2>10. Good(s', NoBuf, count.conns, room, agent, mode.notify)
    BY <1>1, <1>5, <2>3, <2>5, <2>7, <2>8, <2>9, GoodStack
  <2> QED
    BY <1>1, <2>3, <2>10, ServerStep
<1>8. CASE Eligible /\ ~(s.busyW > 0)
  <2>1. PICK t : t = [y EXCEPT !.busyW = 1, !.didW = FALSE, !.retry = FALSE]
    OBVIOUS
  <2>2. s' = Call(t, <<"writing">>) /\ "writing" \in Pending
    BY <1>2, <1>8, <2>1 DEF CallWrite, Pending
  <2>3. /\ Only(t, y, {"busyW", "didW", "retry"}) /\ t.busyW = 1 /\ t.didW = FALSE
        /\ t.retry = FALSE
    BY <1>3, <2>1 DEF Only, Typed, Fields, Flags
  <2>4. Typed(t)
    <3>1. {"didW", "retry"} \subseteq Flags
      BY DEF Flags
    <3>2. Fits(t.didW, "didW") /\ Fits(t.retry, "retry")
      BY <2>3, <3>1, FitsKinds
    <3>3. Fits(t.busyW, "busyW")
      BY <2>3, FitsKinds
    <3>4. \A f \in {"busyW", "didW", "retry"} : Fits(t[f], f)
      BY <3>2, <3>3
    <3> QED
      BY <1>3, <2>3, <3>4, TypedFits
  <2>5. t.calls = Tail(s.calls)
    BY <1>3, <2>3 DEF Only, Fields
  <2>6. /\ Typed(s') /\ Only(s', t, {"calls"})
        /\ \A C : Under(s', C) = Under(s, C) - In("write", C) + In("writing", C)
    BY <1>1, <2>2, <2>4, <2>5, SwapEffect
  <2>7. /\ Under(s', {"accept"}) = Under(s, {"accept"}) /\ Under(s', {"reset"}) = Under(s, {"reset"})
        /\ Under(s', {"write_refused"}) = Under(s, {"write_refused"})
        /\ Under(s', Writes) = Under(s, Writes) + 1 /\ Under(s', Reads) = Under(s, Reads)
        /\ Under(s', WillRead) = Under(s, WillRead) /\ Under(s', WillWrite) = Under(s, WillWrite)
    BY <1>4, <2>6 DEF In, Writes, Reads, WillRead, WillWrite
  <2>8. Only(s', s, {"calls", "busyW", "didW", "retry"})
    BY <1>3, <2>3, <2>6 DEF Only, Fields
  <2>9. /\ s'.busyR = s.busyR /\ s'.cur = s.cur /\ s'.queue = s.queue
        /\ s'.running = s.running /\ s'.base = s.base /\ s'.vdagent = s.vdagent
        /\ s'.client = s.client /\ s'.left = s.left /\ s'.send = s.send
        /\ s'.bufs = s.bufs /\ s'.busyW = 1 /\ s'.retry = FALSE
    BY <2>3, <2>6, <2>8 DEF Only, Fields, Flags, Counters
  <2>10. StackInv(s')
    <3>1. Under(s, Writes) = 0 /\ Busy(s'.busyW) = 1
      BY <1>1, <1>8, <2>9 DEF Busy, Typed, Good, StackInv
    <3>2. ~(Under(s, {"reset"}) > 0)
      BY <1>1, <1>8 DEF Good, StackInv, Eligible
    <3> QED
      BY <1>1, <2>7, <2>9, <3>1, <3>2 DEF Good, StackInv
  <2>11. WriteInv(s', room, mode.notify)
    <3>1. Under(s', WillWrite) > 0
      BY <1>1, <1>3, <2>7, ReturnEffect DEF WillWrite
    <3> QED
      BY <2>9, <3>1 DEF WriteInv
  <2>12. ReadInv(s', agent)
    BY <1>1, <2>7, <2>9 DEF Good, ReadInv, CanServe
  <2>13. Only(s', s, Stacked)
    BY <2>8 DEF Only, Stacked, Silent
  <2>14. Good(s', NoBuf, count.conns, room, agent, mode.notify)
    BY <1>1, <2>6, <2>7, <2>10, <2>11, <2>12, <2>13, GoodStack
  <2> QED
    BY <1>1, <2>6, <2>14, ServerStep
<1> QED
  BY <1>6, <1>7, <1>8

\* The end of a write.
LEMMA WriteDoneEffect ==
  ASSUME NEW st, Typed(st), NEW a \in Writes, st.calls # <<>>, Head(st.calls) = a, StackInv(st),
         NEW r, r = WriteDone(st)
  PROVE  /\ Typed(r) /\ Only(r, st, {"calls", "retry", "active", "busyW", "got"})
         /\ r.busyW = 0 /\ (r.retry <=> st.cur # NoBuf /\ ~mode.notify)
         /\ \A C : Under(r, C) = Under(st, C) - In(a, C)
         /\ Under(r, Writes) = 0
<1>0. a \in Pending
  BY DEF Writes, Pending
<1>1. PICK y : y = Return(st)
  OBVIOUS
<1>2. /\ Typed(y) /\ Only(y, st, {"calls"}) /\ y.calls = Tail(st.calls)
      /\ \A C : Under(y, C) = Under(st, C) - In(a, C)
      /\ \A C : a \in C => Under(st, C) > 0
  BY <1>0, <1>1, ReturnEffect
<1>3. y.active \in BOOLEAN /\ st.didW \in BOOLEAN
  BY <1>2 DEF Typed, Flags
<1>4. PICK p \in BOOLEAN, q \in BOOLEAN, d \in BOOLEAN :
          p = (st.cur # NoBuf /\ ~mode.notify) /\ q = (y.active \/ st.didW) /\ d = st.didW
  BY <1>3
<1>5. r = [y EXCEPT !.retry = p, !.active = q, !.busyW = 0, !.got = d]
  BY <1>1, <1>4 DEF WriteDone
<1>6. /\ Only(r, y, {"retry", "active", "busyW", "got"})
      /\ r.retry = p /\ r.active = q /\ r.busyW = 0 /\ r.got = d
  BY <1>2, <1>5 DEF Only, Typed, Fields, Flags
<1>7. Typed(r)
  <2>1. {"retry", "active", "got"} \subseteq Flags
    BY DEF Flags
  <2>2. Fits(r.retry, "retry") /\ Fits(r.active, "active") /\ Fits(r.got, "got")
    BY <1>6, <2>1, FitsKinds
  <2>3. Fits(r.busyW, "busyW")
    BY <1>6, FitsKinds
  <2>4. \A f \in {"retry", "active", "got", "busyW"} : Fits(r[f], f)
    BY <2>2, <2>3
  <2> QED
    BY <1>2, <1>6, <2>4, TypedFits
<1>8. Only(r, st, {"calls", "retry", "active", "busyW", "got"}) /\ r.calls = y.calls
  BY <1>2, <1>6 DEF Only, Fields
<1>9. \A C : Under(r, C) = Under(st, C) - In(a, C)
  BY <1>2, <1>8 DEF Under
<1>10. Under(r, Writes) = 0
  <2>1. Under(st, Writes) > 0 /\ In(a, Writes) = 1
    BY <1>2 DEF In
  <2>2. Under(st, Writes) = 1
    BY <2>1 DEF StackInv, Busy
  <2> QED
    BY <1>9, <2>1, <2>2
<1> QED
  BY <1>4, <1>6, <1>7, <1>8, <1>9, <1>10

\* The end of spice_char_device_write_to_device: the timer takes over what is left.
LEMMA WriteDoneGood ==
  ASSUME NEW st, Typed(st), NEW a \in Writes, st.calls # <<>>, Head(st.calls) = a,
         NEW r, r = WriteDone(st), NEW n, NEW fr, NEW ag,
         Good(st, NoBuf, n, fr, ag, mode.notify), mode.notify \in BOOLEAN,
         IF a = "writing" THEN ~ToWrite(st) ELSE st.busyW # 2
  PROVE  Typed(r) /\ Good(r, NoBuf, n, fr, ag, mode.notify)
<1>1. /\ Typed(r) /\ Only(r, st, {"calls", "retry", "active", "busyW", "got"})
      /\ r.busyW = 0 /\ (r.retry <=> st.cur # NoBuf /\ ~mode.notify)
      /\ \A C : Under(r, C) = Under(st, C) - In(a, C)
      /\ Under(r, Writes) = 0
  BY WriteDoneEffect DEF Good
<1>2. \A C : Under(st, C) \in Nat
  BY UnderType
<1>3. /\ Under(r, {"accept"}) = Under(st, {"accept"}) /\ Under(r, {"reset"}) = Under(st, {"reset"})
      /\ Under(r, Reads) = Under(st, Reads) /\ Under(r, WillRead) = Under(st, WillRead)
      /\ Under(r, {"write_refused"}) <= Under(st, {"write_refused"})
      /\ a = "write_refused" => Under(r, WillWrite) = Under(st, WillWrite)
  BY <1>1, <1>2 DEF In, Writes, Reads, WillRead, WillWrite
<1>4. /\ r.busyR = st.busyR /\ r.cur = st.cur /\ r.queue = st.queue
      /\ r.running = st.running /\ r.base = st.base /\ r.vdagent = st.vdagent
      /\ r.client = st.client /\ r.left = st.left /\ r.send = st.send
      /\ r.bufs = st.bufs
  BY <1>1 DEF Only, Fields, Flags, Counters
<1>5. StackInv(r)
  <2>1. Busy(r.busyW) = 0
    BY <1>1 DEF Busy
  <2>2. Under(r, {"write_refused"}) > 0 => Under(st, {"write_refused"}) > 0
    BY <1>1, <1>2, <1>3, UnderType
  <2> QED
    BY <1>1, <1>3, <1>4, <2>1, <2>2 DEF Good, StackInv
<1>6. WriteInv(r, fr, mode.notify)
  <2>1. CASE a = "writing"
    BY <1>1, <1>4, <2>1 DEF WriteInv, ToWrite
  <2>2. CASE a = "write_refused"
    <3>1. st.cur # NoBuf
      <4>1. PICK y : y = Return(st)
        OBVIOUS
      <4>2. Under(st, {"write_refused"}) > 0
        BY <2>2, <4>1, ReturnEffect DEF Pending
      <4> QED
        BY <4>2 DEF Good, StackInv
    <3>2. CASE mode.notify
      BY <1>1, <1>3, <1>4, <2>2, <3>2 DEF Good, WriteInv, ToWrite, CanServe
    <3>3. CASE ~mode.notify
      BY <1>1, <3>1, <3>3 DEF WriteInv
    <3> QED
      BY <3>2, <3>3
  <2> QED
    BY <2>1, <2>2 DEF Writes
<1>7. ReadInv(r, ag)
  BY <1>3, <1>4 DEF Good, ReadInv, CanServe
<1>8. Only(r, st, Stacked)
  BY <1>1 DEF Only, Stacked, Silent
<1> QED
  BY <1>1, <1>3, <1>5, <1>6, <1>7, <1>8, GoodStack

\* Everything is written.
LEMMA WriteNothingLeftStep == ASSUME PortInv, WriteNothingLeft PROVE PortInv'
<1>1. /\ Typed(s) /\ s.calls # <<>> /\ Head(s.calls) = "writing" /\ "writing" \in Writes
      /\ Good(s, NoBuf, count.conns, room, agent, mode.notify) /\ UNCHANGED <<device, world>>
      /\ ~ToWrite(s) /\ s' = WriteDone(s)
  BY DEF PortInv, TypeInv, WriteNothingLeft, Top, Writes, ToWrite
<1>2. mode.notify \in BOOLEAN
  BY PortAssumption DEF PortInv, TypeInv, Mode
<1>3. Typed(s') /\ Good(s', NoBuf, count.conns, room, agent, mode.notify)
  BY <1>1, <1>2, WriteDoneGood
<1> QED
  BY <1>1, <1>3, ServerStep

\* sif->write returns: the loop goes on if it was asked to, and ends otherwise.
LEMMA WriteBlockedStep == ASSUME PortInv, WriteBlocked PROVE PortInv'
<1>1. /\ Typed(s) /\ s.calls # <<>> /\ Head(s.calls) = "write_refused"
      /\ "write_refused" \in Writes /\ "write_refused" \in Pending
      /\ Good(s, NoBuf, count.conns, room, agent, mode.notify) /\ UNCHANGED <<device, world>>
  BY DEF PortInv, TypeInv, WriteBlocked, Top, Writes, Pending
<1>2. mode.notify \in BOOLEAN
  BY PortAssumption DEF PortInv, TypeInv, Mode
<1>3. CASE s.busyW > 1
  <2>1. PICK y : y = Return(s)
    OBVIOUS
  <2>2. Typed(y) /\ Only(y, s, {"calls"}) /\ y.calls = Tail(s.calls)
    BY <1>1, <2>1, ReturnEffect
  <2>3. PICK t : t = [y EXCEPT !.busyW = 1]
    OBVIOUS
  <2>4. s' = Call(t, <<"writing">>) /\ "writing" \in Pending
    BY <1>3, <2>1, <2>3 DEF WriteBlocked, Pending
  <2>5. Only(t, y, {"busyW"}) /\ t.busyW = 1
    BY <2>2, <2>3 DEF Only, Typed, Fields, Flags
  <2>6. Typed(t)
    <3>2. Fits(t.busyW, "busyW")
      BY <2>5, FitsKinds
    <3>3. \A f \in {"busyW"} : Fits(t[f], f)
      BY <3>2
    <3> QED
      BY <2>2, <2>5, <3>3, TypedFits
  <2>7. t.calls = Tail(s.calls)
    BY <2>2, <2>5 DEF Only, Fields
  <2>8. /\ Typed(s') /\ Only(s', t, {"calls"})
        /\ \A C : Under(s', C) = Under(s, C) - In("write_refused", C) + In("writing", C)
    BY <1>1, <2>4, <2>6, <2>7, SwapEffect
  <2>9. \A C : Under(s, C) \in Nat /\ Under(s', C) \in Nat
    BY <1>1, <2>8, UnderType
  <2>10. /\ Under(s', {"accept"}) = Under(s, {"accept"}) /\ Under(s', {"reset"}) = Under(s, {"reset"})
         /\ Under(s', {"write_refused"}) = Under(s, {"write_refused"}) - 1
         /\ Under(s', Writes) = Under(s, Writes) /\ Under(s', Reads) = Under(s, Reads)
         /\ Under(s', WillRead) = Under(s, WillRead)
         /\ Under(s', WillWrite) = Under(s, WillWrite) + 1
    BY <2>8, <2>9 DEF In, Writes, Reads, WillRead, WillWrite
  <2>11. Only(s', s, {"calls", "busyW"})
    BY <2>2, <2>5, <2>8 DEF Only, Fields
  <2>12. /\ s'.busyR = s.busyR /\ s'.cur = s.cur /\ s'.queue = s.queue
         /\ s'.running = s.running /\ s'.base = s.base /\ s'.vdagent = s.vdagent
         /\ s'.client = s.client /\ s'.left = s.left /\ s'.send = s.send
         /\ s'.bufs = s.bufs /\ s'.busyW = 1 /\ s'.retry = s.retry
    BY <2>5, <2>8, <2>11 DEF Only, Fields, Flags, Counters
  <2>13. StackInv(s')
    <3>1. Busy(s.busyW) = 1 /\ Busy(s'.busyW) = 1
      BY <1>1, <1>3, <2>12 DEF Busy, Typed
    <3>2. ~(Under(s, {"reset"}) > 0)
      BY <1>1, <1>3 DEF Good, StackInv
    <3>3. Under(s', {"write_refused"}) > 0 => Under(s, {"write_refused"}) > 0
      BY <2>9, <2>10
    <3> QED
      BY <1>1, <2>10, <2>12, <3>1, <3>2, <3>3 DEF Good, StackInv
  <2>14. WriteInv(s', room, mode.notify)
    <3>1. Under(s', WillWrite) > 0
      BY <2>9, <2>10
    <3> QED
      BY <1>1, <2>12, <3>1 DEF WriteInv, Good
  <2>15. ReadInv(s', agent)
    BY <1>1, <2>10, <2>12 DEF Good, ReadInv, CanServe
  <2>16. Only(s', s, Stacked)
    BY <2>11 DEF Only, Stacked, Silent
  <2>17. Good(s', NoBuf, count.conns, room, agent, mode.notify)
    BY <1>1, <2>8, <2>10, <2>13, <2>14, <2>15, <2>16, GoodStack
  <2> QED
    BY <1>1, <2>8, <2>17, ServerStep
<1>4. CASE ~(s.busyW > 1)
  <2>1. s' = WriteDone(s) /\ s.busyW # 2
    BY <1>4 DEF WriteBlocked
  <2>2. Typed(s') /\ Good(s', NoBuf, count.conns, room, agent, mode.notify)
    BY <1>1, <1>2, <2>1, WriteDoneGood
  <2> QED
    BY <1>1, <2>2, ServerStep
<1> QED
  BY <1>3, <1>4

\* spice_char_device_read_from_device begins, or asks the one under way to go on.
LEMMA CallReadStep == ASSUME PortInv, CallRead PROVE PortInv'
<1>1. /\ Typed(s) /\ s.calls # <<>> /\ Head(s.calls) = "read" /\ "read" \in Pending
      /\ Good(s, NoBuf, count.conns, room, agent, mode.notify) /\ UNCHANGED <<device, world>>
  BY DEF PortInv, TypeInv, CallRead, Top, Pending
<1>2. PICK y : y = Return(s)
  OBVIOUS
<1>3. /\ Typed(y) /\ Only(y, s, {"calls"}) /\ y.calls = Tail(s.calls)
      /\ \A C : Under(y, C) = Under(s, C) - In("read", C)
  BY <1>1, <1>2, ReturnEffect
<1>4. \A C : Under(s, C) \in Nat
  BY <1>1, UnderType
<1>5. /\ Under(y, {"accept"}) = Under(s, {"accept"}) /\ Under(y, {"reset"}) = Under(s, {"reset"})
      /\ Under(y, {"write_refused"}) = Under(s, {"write_refused"})
      /\ Under(y, Writes) = Under(s, Writes) /\ Under(y, Reads) = Under(s, Reads)
      /\ Under(y, WillWrite) = Under(s, WillWrite)
  BY <1>3, <1>4 DEF In, Writes, Reads, WillWrite
<1>6. CASE ~Eligible
  <2>1. s' = [y EXCEPT !.got = FALSE]
    BY <1>2, <1>6 DEF CallRead
  <2>2. Only(s', y, {"got"}) /\ s'.got = FALSE
    BY <1>3, <2>1 DEF Only, Typed, Fields, Flags
  <2>3. Typed(s')
    BY <1>3, <2>2, TypedFits DEF Fits, Counters
  <2>4. Only(s', s, {"calls", "got"}) /\ s'.calls = y.calls
    BY <1>3, <2>2 DEF Only, Fields
  <2>5. \A C : Under(s', C) = Under(y, C)
    BY <2>4 DEF Under
  <2>6. /\ s'.busyW = s.busyW /\ s'.busyR = s.busyR /\ s'.cur = s.cur /\ s'.queue = s.queue
        /\ s'.running = s.running /\ s'.base = s.base /\ s'.vdagent = s.vdagent
        /\ s'.retry = s.retry /\ s'.client = s.client /\ s'.left = s.left /\ s'.send = s.send
        /\ s'.bufs = s.bufs
    BY <2>4 DEF Only, Fields, Flags, Counters
  <2>7. StackInv(s')
    BY <1>1, <1>5, <2>5, <2>6 DEF Good, StackInv
  <2>8. WriteInv(s', room, mode.notify) /\ ReadInv(s', agent)
    BY <1>1, <1>5, <1>6, <2>5, <2>6 DEF Good, WriteInv, ReadInv, Eligible, CanServe
  <2>9. Only(s', s, Stacked)
    BY <2>4 DEF Only, Stacked, Silent
  <2>10. Good(s', NoBuf, count.conns, room, agent, mode.notify)
    BY <1>1, <1>5, <2>3, <2>5, <2>7, <2>8, <2>9, GoodStack
  <2> QED
    BY <1>1, <2>3, <2>10, ServerStep
<1>7. CASE Eligible /\ s.busyR > 0
  <2>1. s' = [y EXCEPT !.busyR = 2, !.got = FALSE]
    BY <1>2, <1>7 DEF CallRead
  <2>2. Only(s', y, {"busyR", "got"}) /\ s'.got = FALSE /\ s'.busyR = 2
    BY <1>3, <2>1 DEF Only, Typed, Fields, Flags
  <2>3. Typed(s')
    <3>1. {"got"} \subseteq Flags
      BY DEF Flags
    <3>2. Fits(s'.got, "got")
      BY <2>2, <3>1, FitsKinds
    <3>3. Fits(s'.busyR, "busyR")
      BY <2>2, FitsKinds
    <3>4. \A f \in {"busyR", "got"} : Fits(s'[f], f)
      BY <3>2, <3>3
    <3> QED
      BY <1>3, <2>2, <3>4, TypedFits
  <2>4. Only(s', s, {"calls", "got", "busyR"}) /\ s'.calls = y.calls
    BY <1>3, <2>2 DEF Only, Fields
  <2>5. \A C : Under(s', C) = Under(y, C)
    BY <2>4 DEF Under
  <2>6. /\ s'.busyW = s.busyW /\ s'.cur = s.cur /\ s'.queue = s.queue
        /\ s'.running = s.running /\ s'.base = s.base /\ s'.vdagent = s.vdagent
        /\ s'.retry = s.retry /\ s'.client = s.client /\ s'.left = s.left /\ s'.send = s.send
        /\ s'.bufs = s.bufs
    BY <2>4 DEF Only, Fields, Flags, Counters
  <2>7. StackInv(s')
    <3>1. Busy(s.busyR) = 1 /\ Busy(s'.busyR) = 1
      BY <1>1, <1>7, <2>2 DEF Busy, Typed
    <3>2. ~(Under(s, {"reset"}) > 0)
      BY <1>1, <1>7 DEF Good, StackInv, Eligible
    <3> QED
      BY <1>1, <1>5, <2>5, <2>6, <3>1, <3>2 DEF Good, StackInv
  <2>8. WriteInv(s', room, mode.notify)
    BY <1>1, <1>5, <2>2, <2>5, <2>6 DEF Good, WriteInv, CanServe, ToWrite
  <2>11. ReadInv(s', agent)
    BY <1>1, <1>7, <2>2, <2>6 DEF Good, ReadInv
  <2>9. Only(s', s, Stacked)
    BY <2>4 DEF Only, Stacked, Silent
  <2>10. Good(s', NoBuf, count.conns, room, agent, mode.notify)
    BY <1>1, <1>5, <2>3, <2>5, <2>7, <2>8, <2>9, <2>11, GoodStack
  <2> QED
    BY <1>1, <2>3, <2>10, ServerStep
<1>8. CASE Eligible /\ ~(s.busyR > 0)
  <2>a. PICK l \in Nat : l = IF s.client THEN s.send ELSE 0
    BY <1>1 DEF Typed, Counters
  <2>1. PICK t : t = [y EXCEPT !.busyR = 1, !.didR = FALSE, !.left = l]
    OBVIOUS
  <2>2. s' = Call(t, <<"reading">>) /\ "reading" \in Pending
    BY <1>2, <1>8, <2>1, <2>a DEF CallRead, Pending
  <2>3. /\ Only(t, y, {"busyR", "didR", "left"}) /\ t.busyR = 1 /\ t.didR = FALSE
        /\ t.left = l
    BY <1>3, <2>1 DEF Only, Typed, Fields, Flags, Counters
  <2>4. Typed(t)
    <3>1. {"didR"} \subseteq Flags /\ {"left"} \subseteq Counters
      BY DEF Flags, Counters
    <3>2. Fits(t.didR, "didR")
      BY <2>3, <3>1, FitsKinds
    <3>3. Fits(t.left, "left")
      BY <2>3, <3>1, FitsKinds
    <3>4. Fits(t.busyR, "busyR")
      BY <2>3, FitsKinds
    <3>5. \A f \in {"busyR", "didR", "left"} : Fits(t[f], f)
      BY <3>2, <3>3, <3>4
    <3> QED
      BY <1>3, <2>3, <3>5, TypedFits
  <2>5. t.calls = Tail(s.calls)
    BY <1>3, <2>3 DEF Only, Fields
  <2>6. /\ Typed(s') /\ Only(s', t, {"calls"})
        /\ \A C : Under(s', C) = Under(s, C) - In("read", C) + In("reading", C)
    BY <1>1, <2>2, <2>4, <2>5, SwapEffect
  <2>7. /\ Under(s', {"accept"}) = Under(s, {"accept"}) /\ Under(s', {"reset"}) = Under(s, {"reset"})
        /\ Under(s', {"write_refused"}) = Under(s, {"write_refused"})
        /\ Under(s', Reads) = Under(s, Reads) + 1 /\ Under(s', Writes) = Under(s, Writes)
        /\ Under(s', WillRead) = Under(s, WillRead) /\ Under(s', WillWrite) = Under(s, WillWrite)
    BY <1>4, <2>6 DEF In, Writes, Reads, WillRead, WillWrite
  <2>8. Only(s', s, {"calls", "busyR", "didR", "left"})
    BY <1>3, <2>3, <2>6 DEF Only, Fields
  <2>9. /\ s'.busyW = s.busyW /\ s'.cur = s.cur /\ s'.queue = s.queue
        /\ s'.running = s.running /\ s'.base = s.base /\ s'.vdagent = s.vdagent
        /\ s'.client = s.client /\ s'.left = l /\ s'.send = s.send
        /\ s'.bufs = s.bufs /\ s'.busyR = 1 /\ s'.retry = s.retry
    BY <2>3, <2>6, <2>8 DEF Only, Fields, Flags, Counters
  <2>10. StackInv(s')
    <3>1. Under(s, Reads) = 0 /\ Busy(s'.busyR) = 1
      BY <1>1, <1>8, <2>9 DEF Busy, Typed, Good, StackInv
    <3>2. ~(Under(s, {"reset"}) > 0)
      BY <1>1, <1>8 DEF Good, StackInv, Eligible
    <3> QED
      BY <1>1, <2>7, <2>9, <3>1, <3>2 DEF Good, StackInv
  <2>11. WriteInv(s', room, mode.notify)
    BY <1>1, <2>7, <2>9 DEF Good, WriteInv, CanServe, ToWrite
  <2>12. ReadInv(s', agent)
    <3>1. Under(s', WillRead) > 0
      BY <1>1, <1>3, <2>7, ReturnEffect DEF WillRead
    <3> QED
      BY <2>9, <2>a, <3>1 DEF ReadInv
  <2>13. Only(s', s, Stacked)
    BY <2>8 DEF Only, Stacked, Silent
  <2>14. Good(s', NoBuf, count.conns, room, agent, mode.notify)
    BY <1>1, <2>6, <2>7, <2>10, <2>11, <2>12, <2>13, GoodStack
  <2> QED
    BY <1>1, <2>6, <2>14, ServerStep
<1> QED
  BY <1>6, <1>7, <1>8

\* The end of a read: nothing that could be read is left.
LEMMA ReadDoneGood ==
  ASSUME NEW st, Typed(st), NEW a \in Reads, st.calls # <<>>, Head(st.calls) = a,
         NEW r, r = ReadDone(st), NEW n, NEW fr, NEW ag, NEW nt,
         Good(st, NoBuf, n, fr, ag, nt),
         IF a = "reading" THEN st.client /\ st.left = 0 ELSE st.busyR # 2
  PROVE  Typed(r) /\ Good(r, NoBuf, n, fr, ag, nt)
<1>0. a \in Pending
  BY DEF Reads, Pending
<1>1. PICK y : y = Return(st)
  OBVIOUS
<1>2. /\ Typed(y) /\ Only(y, st, {"calls"}) /\ y.calls = Tail(st.calls)
      /\ \A C : Under(y, C) = Under(st, C) - In(a, C)
      /\ \A C : a \in C => Under(st, C) > 0
  BY <1>0, <1>1, ReturnEffect
<1>3. y.active \in BOOLEAN /\ st.didR \in BOOLEAN
  BY <1>2 DEF Typed, Flags
<1>4. PICK q \in BOOLEAN, d \in BOOLEAN : q = (y.active \/ st.didR) /\ d = st.didR
  BY <1>3
<1>5. r = [y EXCEPT !.busyR = 0, !.active = q, !.got = d]
  BY <1>1, <1>4 DEF ReadDone
<1>6. /\ Only(r, y, {"active", "busyR", "got"})
      /\ r.active = q /\ r.busyR = 0 /\ r.got = d
  BY <1>2, <1>5 DEF Only, Typed, Fields, Flags
<1>7. Typed(r)
  <2>1. {"active", "got"} \subseteq Flags
    BY DEF Flags
  <2>2. Fits(r.active, "active") /\ Fits(r.got, "got")
    BY <1>6, <2>1, FitsKinds
  <2>3. Fits(r.busyR, "busyR")
    BY <1>6, FitsKinds
  <2>4. \A f \in {"active", "got", "busyR"} : Fits(r[f], f)
    BY <2>2, <2>3
  <2> QED
    BY <1>2, <1>6, <2>4, TypedFits
<1>8. Only(r, st, {"calls", "active", "busyR", "got"}) /\ r.calls = y.calls
  BY <1>2, <1>6 DEF Only, Fields
<1>9. \A C : Under(r, C) = Under(st, C) - In(a, C)
  BY <1>2, <1>8 DEF Under
<1>a. \A C : Under(st, C) \in Nat
  BY UnderType
<1>10. Under(r, Reads) = 0 /\ st.busyR > 0
  <2>1. Under(st, Reads) > 0 /\ In(a, Reads) = 1
    BY <1>2 DEF In
  <2>2. Under(st, Reads) = 1 /\ st.busyR > 0
    BY <2>1 DEF Good, StackInv, Busy
  <2> QED
    BY <1>9, <2>1, <2>2
<1>11. /\ Under(r, {"accept"}) = Under(st, {"accept"}) /\ Under(r, {"reset"}) = Under(st, {"reset"})
       /\ Under(r, {"write_refused"}) = Under(st, {"write_refused"})
       /\ Under(r, Writes) = Under(st, Writes) /\ Under(r, WillWrite) = Under(st, WillWrite)
       /\ a = "read_failed" => Under(r, WillRead) = Under(st, WillRead)
  BY <1>9, <1>a DEF In, Writes, Reads, WillRead, WillWrite
<1>12. /\ r.busyW = st.busyW /\ r.cur = st.cur /\ r.queue = st.queue
       /\ r.running = st.running /\ r.base = st.base /\ r.vdagent = st.vdagent
       /\ r.client = st.client /\ r.left = st.left /\ r.send = st.send
       /\ r.bufs = st.bufs /\ r.retry = st.retry
  BY <1>8 DEF Only, Fields, Flags, Counters
<1>13. StackInv(r)
  <2>1. Busy(r.busyR) = 0
    BY <1>6 DEF Busy
  <2> QED
    BY <1>6, <1>10, <1>11, <1>12, <2>1 DEF Good, StackInv
<1>14. WriteInv(r, fr, nt)
  BY <1>11, <1>12 DEF Good, WriteInv, CanServe, ToWrite
<1>15. ReadInv(r, ag)
  <2>1. CASE a = "reading"
    <3>1. st.send = 0
      BY <1>10, <2>1 DEF Good, ReadInv
    <3> QED
      BY <1>6, <1>12, <3>1 DEF ReadInv
  <2>2. CASE a = "read_failed"
    BY <1>6, <1>11, <1>12, <2>2 DEF Good, ReadInv, CanServe
  <2> QED
    BY <2>1, <2>2 DEF Reads
<1>16. Only(r, st, Stacked)
  BY <1>8 DEF Only, Stacked, Silent
<1> QED
  BY <1>7, <1>11, <1>13, <1>14, <1>15, <1>16, GoodStack

\* The tokens of the client are spent.
LEMMA ReadNoMoreStep == ASSUME PortInv, ReadNoMore PROVE PortInv'
<1>1. /\ Typed(s) /\ s.calls # <<>> /\ Head(s.calls) = "reading" /\ "reading" \in Reads
      /\ Good(s, NoBuf, count.conns, room, agent, mode.notify) /\ UNCHANGED <<device, world>>
      /\ s' = ReadDone(s)
  BY DEF PortInv, TypeInv, ReadNoMore, Top, Reads
<1>2. s.client /\ s.left = 0
  BY <1>1 DEF ReadNoMore, Reading, Typed, Counters
<1>3. Typed(s') /\ Good(s', NoBuf, count.conns, room, agent, mode.notify)
  BY <1>1, <1>2, ReadDoneGood
<1> QED
  BY <1>1, <1>3, ServerStep

\* The read found nothing, or has no buffer to read into.
LEMMA ReadFailsStep == ASSUME PortInv, ReadFails PROVE PortInv'
<1>1. /\ Typed(s) /\ s.calls # <<>> /\ Head(s.calls) = "reading"
      /\ "reading" \in Pending /\ "read_failed" \in Pending
      /\ Good(s, NoBuf, count.conns, room, agent, mode.notify) /\ UNCHANGED <<device, world>>
      /\ s' = Call(Return(s), <<"read_failed">>) /\ (agent = 0 \/ s.bufs = 0)
  BY DEF PortInv, TypeInv, ReadFails, Reading, Top, Pending
<1>2. PICK y : y = Return(s)
  OBVIOUS
<1>3. Typed(y) /\ Only(y, s, {"calls"}) /\ y.calls = Tail(s.calls)
  BY <1>1, <1>2, ReturnEffect
<1>4. /\ Typed(s') /\ Only(s', y, {"calls"})
      /\ \A C : Under(s', C) = Under(s, C) - In("reading", C) + In("read_failed", C)
  BY <1>1, <1>2, <1>3, SwapEffect
<1>5. \A C : Under(s, C) \in Nat
  BY <1>1, UnderType
<1>6. /\ Under(s', {"accept"}) = Under(s, {"accept"}) /\ Under(s', {"reset"}) = Under(s, {"reset"})
      /\ Under(s', {"write_refused"}) = Under(s, {"write_refused"})
      /\ Under(s', Reads) = Under(s, Reads) /\ Under(s', Writes) = Under(s, Writes)
      /\ Under(s', WillWrite) = Under(s, WillWrite)
  BY <1>4, <1>5 DEF In, Writes, Reads, WillWrite
<1>7. Only(s', s, {"calls"})
  BY <1>3, <1>4 DEF Only, Fields
<1>8. /\ s'.busyW = s.busyW /\ s'.cur = s.cur /\ s'.queue = s.queue
      /\ s'.running = s.running /\ s'.base = s.base /\ s'.vdagent = s.vdagent
      /\ s'.client = s.client /\ s'.left = s.left /\ s'.send = s.send
      /\ s'.bufs = s.bufs /\ s'.busyR = s.busyR /\ s'.retry = s.retry
  BY <1>7 DEF Only, Fields, Flags, Counters
<1>9. StackInv(s')
  BY <1>1, <1>6, <1>8 DEF Good, StackInv
<1>10. WriteInv(s', room, mode.notify)
  BY <1>1, <1>6, <1>8 DEF Good, WriteInv, CanServe, ToWrite
<1>11. ReadInv(s', agent)
  BY <1>1, <1>8 DEF Good, ReadInv
<1>12. Only(s', s, Stacked)
  BY <1>7 DEF Only, Stacked, Silent
<1>13. Good(s', NoBuf, count.conns, room, agent, mode.notify)
  BY <1>1, <1>4, <1>6, <1>9, <1>10, <1>11, <1>12, GoodStack
<1> QED
  BY <1>1, <1>4, <1>13, ServerStep

\* sif->read returns: the loop goes on if it was asked to, and ends otherwise.
LEMMA ReadNullStep == ASSUME PortInv, ReadNull PROVE PortInv'
<1>1. /\ Typed(s) /\ s.calls # <<>> /\ Head(s.calls) = "read_failed"
      /\ "read_failed" \in Reads /\ "read_failed" \in Pending
      /\ Good(s, NoBuf, count.conns, room, agent, mode.notify) /\ UNCHANGED <<device, world>>
  BY DEF PortInv, TypeInv, ReadNull, Top, Reads, Pending
<1>2. CASE s.busyR > 1
  <2>1. PICK y : y = Return(s)
    OBVIOUS
  <2>2. Typed(y) /\ Only(y, s, {"calls"}) /\ y.calls = Tail(s.calls)
    BY <1>1, <2>1, ReturnEffect
  <2>3. PICK t : t = [y EXCEPT !.busyR = 1]
    OBVIOUS
  <2>4. s' = Call(t, <<"reading">>) /\ "reading" \in Pending
    BY <1>2, <2>1, <2>3 DEF ReadNull, Pending
  <2>5. Only(t, y, {"busyR"}) /\ t.busyR = 1
    BY <2>2, <2>3 DEF Only, Typed, Fields, Flags
  <2>6. Typed(t)
    <3>2. Fits(t.busyR, "busyR")
      BY <2>5, FitsKinds
    <3>3. \A f \in {"busyR"} : Fits(t[f], f)
      BY <3>2
    <3> QED
      BY <2>2, <2>5, <3>3, TypedFits
  <2>7. t.calls = Tail(s.calls)
    BY <2>2, <2>5 DEF Only, Fields
  <2>8. /\ Typed(s') /\ Only(s', t, {"calls"})
        /\ \A C : Under(s', C) = Under(s, C) - In("read_failed", C) + In("reading", C)
    BY <1>1, <2>4, <2>6, <2>7, SwapEffect
  <2>9. \A C : Under(s, C) \in Nat /\ Under(s', C) \in Nat
    BY <1>1, <2>8, UnderType
  <2>10. /\ Under(s', {"accept"}) = Under(s, {"accept"}) /\ Under(s', {"reset"}) = Under(s, {"reset"})
         /\ Under(s', {"write_refused"}) = Under(s, {"write_refused"})
         /\ Under(s', Writes) = Under(s, Writes) /\ Under(s', Reads) = Under(s, Reads)
         /\ Under(s', WillWrite) = Under(s, WillWrite)
         /\ Under(s', WillRead) = Under(s, WillRead) + 1
    BY <2>8, <2>9 DEF In, Writes, Reads, WillRead, WillWrite
  <2>11. Only(s', s, {"calls", "busyR"})
    BY <2>2, <2>5, <2>8 DEF Only, Fields
  <2>12. /\ s'.busyW = s.busyW /\ s'.cur = s.cur /\ s'.queue = s.queue
         /\ s'.running = s.running /\ s'.base = s.base /\ s'.vdagent = s.vdagent
         /\ s'.client = s.client /\ s'.left = s.left /\ s'.send = s.send
         /\ s'.bufs = s.bufs /\ s'.busyR = 1 /\ s'.retry = s.retry
    BY <2>5, <2>8, <2>11 DEF Only, Fields, Flags, Counters
  <2>13. StackInv(s')
    <3>1. Busy(s.busyR) = 1 /\ Busy(s'.busyR) = 1
      BY <1>1, <1>2, <2>12 DEF Busy, Typed
    <3>2. ~(Under(s, {"reset"}) > 0)
      BY <1>1, <1>2 DEF Good, StackInv
    <3> QED
      BY <1>1, <2>10, <2>12, <3>1, <3>2 DEF Good, StackInv
  <2>14. WriteInv(s', room, mode.notify)
    BY <1>1, <2>10, <2>12 DEF WriteInv, Good, CanServe, ToWrite
  <2>15. ReadInv(s', agent)
    <3>1. Under(s', WillRead) > 0
      BY <2>9, <2>10
    <3>2. s.busyR > 0
      BY <1>1, <1>2 DEF Typed
    <3> QED
      BY <1>1, <2>12, <3>1, <3>2 DEF Good, ReadInv
  <2>16. Only(s', s, Stacked)
    BY <2>11 DEF Only, Stacked, Silent
  <2>17. Good(s', NoBuf, count.conns, room, agent, mode.notify)
    BY <1>1, <2>8, <2>10, <2>13, <2>14, <2>15, <2>16, GoodStack
  <2> QED
    BY <1>1, <2>8, <2>17, ServerStep
<1>3. CASE ~(s.busyR > 1)
  <2>1. s' = ReadDone(s) /\ s.busyR # 2
    BY <1>3 DEF ReadNull
  <2>2. Typed(s') /\ Good(s', NoBuf, count.conns, room, agent, mode.notify)
    BY <1>1, <2>1, ReadDoneGood
  <2> QED
    BY <1>1, <2>2, ServerStep
<1> QED
  BY <1>2, <1>3

\* The innermost call is replaced by calls that go on with its work.
LEMMA ReplaceGood ==
  ASSUME NEW st, Typed(st), st.calls # <<>>, NEW a \in Pending, Head(st.calls) = a,
         NEW c \in Seq(Pending), NEW r, r = Call(Return(st), c),
         \A C : C \in {{"accept"}, {"reset"}, {"write_refused"}, Writes, Reads}
                    => Count(c, C) = In(a, C),
         In(a, WillWrite) <= Count(c, WillWrite), In(a, WillRead) <= Count(c, WillRead),
         NEW b, NEW n, NEW fr, NEW ag, NEW nt, Good(st, b, n, fr, ag, nt)
  PROVE  Typed(r) /\ Good(r, b, n, fr, ag, nt)
<1>1. PICK y : y = Return(st)
  OBVIOUS
<1>2. /\ Typed(y) /\ Only(y, st, {"calls"})
      /\ \A C : Under(y, C) = Under(st, C) - In(a, C)
  BY <1>1, ReturnEffect
<1>3. /\ Typed(r) /\ Only(r, y, {"calls"})
      /\ \A C : Under(r, C) = Count(c, C) + Under(y, C)
  BY <1>1, <1>2, CallEffect
<1>4. \A C : Under(st, C) \in Nat /\ Count(c, C) \in Nat /\ In(a, C) \in Nat
  BY UnderType, CountType DEF In
<1>5. \A C : Under(r, C) = Under(st, C) - In(a, C) + Count(c, C)
  BY <1>2, <1>3, <1>4
<1>6. \A C : C \in {{"accept"}, {"reset"}, {"write_refused"}, Writes, Reads}
                 => Under(r, C) = Under(st, C)
  <2>1. ASSUME NEW C, C \in {{"accept"}, {"reset"}, {"write_refused"}, Writes, Reads}
        PROVE  Under(r, C) = Under(st, C)
    <3>1. PICK u \in Nat, i \in Nat, k \in Nat : u = Under(st, C) /\ i = In(a, C) /\ k = Count(c, C)
      BY <1>4
    <3>2. i = k
      BY <2>1, <3>1
    <3>3. Under(r, C) = u - i + k
      BY <1>5, <3>1
    <3> QED
      BY <3>1, <3>2, <3>3
  <2> QED
    BY <2>1
<1>7. Under(r, WillWrite) >= Under(st, WillWrite) /\ Under(r, WillRead) >= Under(st, WillRead)
  BY <1>4, <1>5
<1>8. Only(r, st, {"calls"})
  BY <1>2, <1>3 DEF Only, Fields
<1>9. /\ r.busyW = st.busyW /\ r.cur = st.cur /\ r.queue = st.queue
      /\ r.running = st.running /\ r.base = st.base /\ r.vdagent = st.vdagent
      /\ r.client = st.client /\ r.left = st.left /\ r.send = st.send
      /\ r.bufs = st.bufs /\ r.busyR = st.busyR /\ r.retry = st.retry
  BY <1>8 DEF Only, Fields, Flags, Counters
<1>10. StackInv(r)
  BY <1>6, <1>9 DEF Good, StackInv
<1>a. /\ Under(st, WillWrite) > 0 => Under(r, WillWrite) > 0
      /\ Under(st, WillRead) > 0 => Under(r, WillRead) > 0
  BY <1>3, <1>4, <1>7, UnderType
<1>11. WriteInv(r, fr, nt)
  BY <1>6, <1>a, <1>9 DEF Good, WriteInv, CanServe, ToWrite
<1>12. ReadInv(r, ag)
  BY <1>a, <1>9 DEF Good, ReadInv, CanServe
<1>13. Only(r, st, Stacked)
  BY <1>8 DEF Only, Stacked, Silent
<1> QED
  BY <1>3, <1>6, <1>10, <1>11, <1>12, <1>13, GoodStack

\* Two calls, one after the other.
LEMMA TwoCalls ==
  ASSUME NEW a \in Pending, NEW b \in Pending, NEW C
  PROVE  /\ <<a, b>> \in Seq(Pending) /\ Count(<<a, b>>, C) = In(a, C) + In(b, C)
         /\ In(a, C) \in Nat /\ In(b, C) \in Nat
<1>1. <<a, b>> \in Seq(Pending)
  OBVIOUS
<1>2. PICK z \in Seq(Pending) : z = <<a, b>>
  BY <1>1
<1>3. z # <<>> /\ Head(z) = a /\ Tail(z) = <<b>>
  BY <1>2
<1>4. Count(<<b>>, C) = In(b, C)
  BY CountShort DEF One, In
<1>5. Count(Tail(z), C) = Count(z, C) - In(Head(z), C)
  BY <1>3, CountEnds
<1>6. In(b, C) = Count(z, C) - In(a, C)
  BY <1>3, <1>4, <1>5
<1>7. Count(z, C) \in Nat /\ In(a, C) \in Nat /\ In(b, C) \in Nat
  BY CountType DEF In
<1>8. Count(z, C) = In(a, C) + In(b, C)
  BY <1>6, <1>7
<1> QED
  BY <1>2, <1>7, <1>8

\* The loop of spice_char_device_start writes and reads until neither does anything.
LEMMA StartLoopStep == ASSUME PortInv, StartLoop PROVE PortInv'
<1>1. /\ Typed(s) /\ Good(s, NoBuf, count.conns, room, agent, mode.notify)
      /\ UNCHANGED <<device, world>>
  BY DEF PortInv, TypeInv, StartLoop
<1>2. PICK a \in {"start", "wrote", "did_read"} : s.calls # <<>> /\ Head(s.calls) = a
  BY DEF StartLoop, Top
<1>a. {"start", "wrote", "did_read", "write", "read"} \subseteq Pending
  BY DEF Pending
<1>3. ASSUME NEW c \in Seq(Pending), s' = Call(Return(s), c),
             \A C : C \cap Free = {} => Count(c, C) = 0,
             In(a, WillWrite) <= Count(c, WillWrite), In(a, WillRead) <= Count(c, WillRead)
      PROVE  PortInv'
  <2>1. ASSUME NEW C, C \in {{"accept"}, {"reset"}, {"write_refused"}, Writes, Reads}
        PROVE  Count(c, C) = In(a, C)
    <3>1. C \cap Free = {} /\ a \notin C
      BY <1>2, <2>1 DEF Writes, Reads, Free
    <3> QED
      BY <1>3, <3>1 DEF In
  <2>2. Typed(s') /\ Good(s', NoBuf, count.conns, room, agent, mode.notify)
    BY <1>1, <1>2, <1>3, <1>a, <2>1, ReplaceGood
  <2> QED
    BY <1>1, <2>2, ServerStep
<1>4. ASSUME NEW x \in Free, NEW z \in Free
      PROVE  /\ x \in Pending /\ z \in Pending
             /\ \A C : C \cap Free = {} => In(x, C) = 0 /\ In(z, C) = 0
  BY DEF Free, Pending, In
<1>5. ASSUME NEW C PROVE Count(<<"write", "wrote">>, C) = In("write", C) + In("wrote", C)
  <2>1. "write" \in Pending /\ "wrote" \in Pending
    BY <1>a
  <2> QED
    BY <2>1, TwoCalls
<1>6. ASSUME NEW C PROVE Count(<<"read", "did_read">>, C) = In("read", C) + In("did_read", C)
  <2>1. "read" \in Pending /\ "did_read" \in Pending
    BY <1>a
  <2> QED
    BY <2>1, TwoCalls
<1>7. \A C : Count(<<"start">>, C) = In("start", C)
  BY <1>a, FewCalls
<1>8. \A C : Count(<<>>, C) = 0
  BY CountShort
<1>9. CASE s' = Call(Return(s), <<"write", "wrote">>) /\ a = "start"
  <2>1. PICK c \in Seq(Pending) : c = <<"write", "wrote">>
    BY <1>a, FewCalls
  <2>2. ASSUME NEW C, C \cap Free = {} PROVE Count(c, C) = 0
    BY <1>4, <1>5, <2>1, <2>2 DEF Free
  <2>3. In(a, WillWrite) <= Count(c, WillWrite) /\ In(a, WillRead) <= Count(c, WillRead)
    BY <1>5, <1>9, <2>1 DEF In, WillWrite, WillRead
  <2> QED
    BY <1>3, <1>9, <2>1, <2>2, <2>3
<1>10. CASE s' = Call(Return(s), <<"read", "did_read">>) /\ a = "wrote"
  <2>1. PICK c \in Seq(Pending) : c = <<"read", "did_read">>
    BY <1>a, FewCalls
  <2>2. ASSUME NEW C, C \cap Free = {} PROVE Count(c, C) = 0
    BY <1>4, <1>6, <2>1, <2>2 DEF Free
  <2>3. In(a, WillWrite) <= Count(c, WillWrite) /\ In(a, WillRead) <= Count(c, WillRead)
    BY <1>6, <1>10, <2>1 DEF In, WillWrite, WillRead
  <2> QED
    BY <1>3, <1>10, <2>1, <2>2, <2>3
<1>11. CASE s' = Call(Return(s), <<"start">>) /\ a \in {"wrote", "did_read"}
  <2>1. PICK c \in Seq(Pending) : c = <<"start">>
    BY <1>a, FewCalls
  <2>2. ASSUME NEW C, C \cap Free = {} PROVE Count(c, C) = 0
    BY <1>4, <1>7, <2>1, <2>2 DEF Free
  <2>3. In(a, WillWrite) <= Count(c, WillWrite) /\ In(a, WillRead) <= Count(c, WillRead)
    BY <1>7, <1>11, <2>1 DEF In, WillWrite, WillRead
  <2> QED
    BY <1>3, <1>11, <2>1, <2>2, <2>3
<1>12. CASE s' = Call(Return(s), <<>>) /\ a = "did_read"
  <2>1. PICK c \in Seq(Pending) : c = <<>>
    BY <1>a, FewCalls
  <2>2. ASSUME NEW C, C \cap Free = {} PROVE Count(c, C) = 0
    BY <1>8, <2>1
  <2>3. In(a, WillWrite) <= Count(c, WillWrite) /\ In(a, WillRead) <= Count(c, WillRead)
    BY <1>8, <1>12, <2>1 DEF In, WillWrite, WillRead
  <2> QED
    BY <1>3, <1>12, <2>1, <2>2, <2>3
<1> QED
  BY <1>2, <1>9, <1>10, <1>11, <1>12 DEF StartLoop, Top

\* The end of the calls that come after others.
LEMMA ReturnGood ==
  ASSUME NEW st, Typed(st), st.calls # <<>>, NEW a \in {"goodbye", "removed", "accept"},
         Head(st.calls) = a, NEW r, r = Return(st),
         NEW b, NEW n, NEW fr, NEW ag, NEW nt, Good(st, b, n, fr, ag, nt)
  PROVE  Typed(r) /\ Good(r, b, n, fr, ag, nt) /\ Only(r, st, {"calls"})
<1>0. a \in Pending
  BY DEF Pending
<1>1. /\ Typed(r) /\ Only(r, st, {"calls"})
      /\ \A C : Under(r, C) = Under(st, C) - In(a, C)
  BY <1>0, ReturnEffect
<1>2. \A C : Under(st, C) \in Nat /\ Under(r, C) \in Nat
  BY <1>1, UnderType
<1>3. /\ Under(r, {"reset"}) = Under(st, {"reset"})
      /\ Under(r, {"write_refused"}) = Under(st, {"write_refused"})
      /\ Under(r, Reads) = Under(st, Reads) /\ Under(r, Writes) = Under(st, Writes)
      /\ Under(r, WillWrite) = Under(st, WillWrite) /\ Under(r, WillRead) = Under(st, WillRead)
  BY <1>1, <1>2 DEF In, Writes, Reads, WillWrite, WillRead
<1>4. Under(r, {"accept"}) > 0 => Under(st, {"accept"}) > 0
  BY <1>1, <1>2 DEF In
<1>5. /\ r.busyW = st.busyW /\ r.cur = st.cur /\ r.queue = st.queue
      /\ r.running = st.running /\ r.base = st.base /\ r.vdagent = st.vdagent
      /\ r.client = st.client /\ r.left = st.left /\ r.send = st.send
      /\ r.bufs = st.bufs /\ r.busyR = st.busyR /\ r.retry = st.retry
  BY <1>1 DEF Only, Fields, Flags, Counters
<1>6. StackInv(r)
  BY <1>3, <1>5 DEF Good, StackInv
<1>7. WriteInv(r, fr, nt)
  BY <1>3, <1>5 DEF Good, WriteInv, CanServe, ToWrite
<1>8. ReadInv(r, ag)
  BY <1>3, <1>5 DEF Good, ReadInv, CanServe
<1>9. Only(r, st, Stacked)
  BY <1>1 DEF Only, Stacked, Silent
<1> QED
  BY <1>1, <1>4, <1>6, <1>7, <1>8, <1>9, GoodStack

\* The rest of reds_agent_remove.
LEMMA RemovedGood ==
  ASSUME NEW st, Typed(st), NEW r, r = Removed(st),
         NEW b, NEW n, NEW fr, NEW ag, NEW nt, Good(st, b, n, fr, ag, nt)
  PROVE  Typed(r) /\ Good(r, b, n, fr, ag, nt) /\ Only(r, st, {"vdagent", "pipe"})
<1>1. PICK q \in Seq(Down) : q = st.pipe
  BY DEF Typed
<1>2. [type |-> "DISCONNECTED", n |-> 0] \in Down
  BY DEF Down
<1>3. Append(q, [type |-> "DISCONNECTED", n |-> 0]) \in Seq(Down)
  BY <1>2
<1>4. PICK p \in Seq(Down) : p = IF st.conn THEN Append(q, [type |-> "DISCONNECTED", n |-> 0]) ELSE q
  BY <1>3
<1>5. r = [st EXCEPT !.vdagent = FALSE, !.pipe = p]
  BY <1>1, <1>4 DEF Removed, ToClient
<1>6. Only(r, st, {"vdagent", "pipe"}) /\ r.vdagent = FALSE /\ r.pipe = p
  BY <1>5 DEF Only, Typed, Fields, Flags
<1>7. Typed(r)
  <2>1. {"vdagent"} \subseteq Flags
    BY DEF Flags
  <2>2. Fits(r.vdagent, "vdagent")
    BY <1>6, <2>1, FitsKinds
  <2>3. Fits(r.pipe, "pipe")
    BY <1>6, FitsSeqs
  <2>4. \A f \in {"vdagent", "pipe"} : Fits(r[f], f)
    BY <2>2, <2>3
  <2> QED
    BY <1>6, <2>4, TypedFits
<1>8. /\ r.vm = st.vm /\ r.conn = st.conn /\ r.base = st.base
      /\ r.running = st.running /\ r.queue = st.queue /\ r.cur = st.cur
      /\ r.retry = st.retry /\ r.self = st.self /\ r.client = st.client /\ r.tok = st.tok
      /\ r.free = st.free /\ r.send = st.send /\ r.busyW = st.busyW /\ r.busyR = st.busyR
      /\ r.left = st.left /\ r.calls = st.calls /\ r.accept = st.accept
      /\ r.held = st.held /\ r.msg = st.msg /\ r.bufs = st.bufs /\ r.out = st.out
  BY <1>6 DEF Only, Fields, Flags, Counters
<1>9. LinkInv(r, n)
  BY <1>6, <1>8 DEF Good, LinkInv, Under
<1>10. TokenInv(r, n, b) /\ SelfInv(r, b) /\ ReadBufInv(r)
  BY <1>8 DEF Good, TokenInv, SelfInv, ReadBufInv, Bufs
<1>11. StackInv(r)
  BY <1>8 DEF Good, StackInv, Under
<1>12. WriteInv(r, fr, nt) /\ ReadInv(r, ag)
  BY <1>6, <1>8 DEF Good, WriteInv, ReadInv, CanServe
<1> QED
  BY <1>6, <1>7, <1>9, <1>10, <1>11, <1>12 DEF Good

\* The end of reds_agent_remove.
LEMMA AgentRemovedStep == ASSUME PortInv, AgentRemoved PROVE PortInv'
<1>1. /\ Typed(s) /\ s.calls # <<>> /\ Head(s.calls) = "removed"
      /\ Good(s, NoBuf, count.conns, room, agent, mode.notify) /\ UNCHANGED <<device, world>>
      /\ s' = Removed(Return(s))
  BY DEF PortInv, TypeInv, AgentRemoved, Top
<1>2. PICK y : y = Return(s)
  OBVIOUS
<1>3. Typed(y) /\ Good(y, NoBuf, count.conns, room, agent, mode.notify)
  BY <1>1, <1>2, ReturnGood
<1>4. Typed(s') /\ Good(s', NoBuf, count.conns, room, agent, mode.notify)
  BY <1>1, <1>2, <1>3, RemovedGood
<1> QED
  BY <1>1, <1>4, ServerStep

\* The rest of reds_client_disconnect: a message without a token.
LEMMA GoodbyeStep == ASSUME PortInv, Goodbye PROVE PortInv'
<1>1. /\ Typed(s) /\ s.calls # <<>> /\ Head(s.calls) = "goodbye"
      /\ Good(s, NoBuf, count.conns, room, agent, mode.notify) /\ UNCHANGED <<device, world>>
      /\ s' = WriteBufferAdd(Return(s), "no_token")
  BY DEF PortInv, TypeInv, Goodbye, Top
<1>2. PICK y : y = Return(s)
  OBVIOUS
<1>3. Typed(y) /\ Good(y, NoBuf, count.conns, room, agent, mode.notify)
  BY <1>1, <1>2, ReturnGood
<1>4. Good(y, "no_token", count.conns, room, agent, mode.notify)
  <2>1. /\ Is("no_token", "client") = Is(NoBuf, "client")
        /\ Is("no_token", "server") = Is(NoBuf, "server")
    BY DEF Is, NoBuf
  <2> QED
    BY <1>3, <2>1 DEF Good, TokenInv, SelfInv
<1>5. "no_token" \in Origins
  BY DEF Origins
<1>6. Typed(s') /\ Good(s', NoBuf, count.conns, room, agent, mode.notify)
  BY <1>1, <1>2, <1>3, <1>4, <1>5, AddGood
<1> QED
  BY <1>1, <1>6, ServerStep

\* The rest of reds_on_main_agent_start: the messages of the client are for the agent now.
LEMMA AcceptStep == ASSUME PortInv, Accept PROVE PortInv'
<1>1. /\ Typed(s) /\ s.calls # <<>> /\ Head(s.calls) = "accept" /\ "accept" \in Pending
      /\ Good(s, NoBuf, count.conns, room, agent, mode.notify) /\ UNCHANGED <<device, world>>
      /\ s' = [Return(s) EXCEPT !.accept = TRUE]
  BY DEF PortInv, TypeInv, Accept, Top, Pending
<1>2. PICK y : y = Return(s)
  OBVIOUS
<1>3. Typed(y) /\ Good(y, NoBuf, count.conns, room, agent, mode.notify) /\ Only(y, s, {"calls"})
  BY <1>1, <1>2, ReturnGood
<1>4. y.msg = "none"
  <2>1. Under(s, {"accept"}) > 0
    BY <1>1, <1>2, ReturnEffect
  <2> QED
    BY <1>1, <1>3, <2>1 DEF Good, LinkInv, Only, Fields
<1>5. Only(s', y, {"accept"}) /\ s'.accept = TRUE
  BY <1>1, <1>2, <1>3 DEF Only, Typed, Fields, Flags
<1>6. Typed(s')
  <2>1. {"accept"} \subseteq Flags
    BY DEF Flags
  <2>2. Fits(s'.accept, "accept")
    BY <1>5, <2>1, FitsKinds
  <2>3. \A f \in {"accept"} : Fits(s'[f], f)
    BY <2>2
  <2> QED
    BY <1>3, <1>5, <2>3, TypedFits
<1>7. /\ s'.vdagent = y.vdagent /\ s'.vm = y.vm /\ s'.conn = y.conn /\ s'.base = y.base
      /\ s'.running = y.running /\ s'.queue = y.queue /\ s'.cur = y.cur
      /\ s'.retry = y.retry /\ s'.self = y.self /\ s'.client = y.client /\ s'.tok = y.tok
      /\ s'.free = y.free /\ s'.send = y.send /\ s'.busyW = y.busyW /\ s'.busyR = y.busyR
      /\ s'.left = y.left /\ s'.calls = y.calls
      /\ s'.held = y.held /\ s'.msg = y.msg /\ s'.bufs = y.bufs /\ s'.out = y.out
  BY <1>5 DEF Only, Fields, Flags, Counters
<1>8. LinkInv(s', count.conns)
  BY <1>3, <1>4, <1>7 DEF Good, LinkInv, Under
<1>9. TokenInv(s', count.conns, NoBuf) /\ SelfInv(s', NoBuf) /\ ReadBufInv(s')
  BY <1>3, <1>7 DEF Good, TokenInv, SelfInv, ReadBufInv, Bufs
<1>10. StackInv(s')
  BY <1>3, <1>7 DEF Good, StackInv, Under
<1>11. WriteInv(s', room, mode.notify) /\ ReadInv(s', agent)
  BY <1>3, <1>7 DEF Good, WriteInv, ReadInv, Under, CanServe, ToWrite
<1>12. Good(s', NoBuf, count.conns, room, agent, mode.notify)
  BY <1>8, <1>9, <1>10, <1>11 DEF Good
<1> QED
  BY <1>1, <1>6, <1>12, ServerStep

\* Within the loop of spice_char_device_write_to_device.
LEMMA TopWriting ==
  ASSUME NEW st, Typed(st), StackInv(st), st.calls # <<>>, Head(st.calls) = "writing"
  PROVE  /\ Under(st, WillWrite) > 0 /\ Under(st, {"write_refused"}) = 0
         /\ Under(st, {"reset"}) = 0 /\ st.busyW > 0
<1>1. PICK y : y = Return(st)
  OBVIOUS
<1>2. /\ Typed(y) /\ \A C : Under(y, C) = Under(st, C) - In("writing", C)
      /\ \A C : "writing" \in C => Under(st, C) > 0
  BY <1>1, ReturnEffect DEF Pending
<1>3. \A C : Under(st, C) \in Nat /\ Under(y, C) \in Nat
  BY <1>2, UnderType
<1>4. Under(st, Writes) > 0 /\ Under(st, WillWrite) > 0
  BY <1>2 DEF Writes, WillWrite
<1>5. Under(st, Writes) = 1 /\ st.busyW > 0
  BY <1>4 DEF StackInv, Busy
<1>6. Under(y, Writes) = 0 /\ Under(y, {"write_refused"}) = Under(st, {"write_refused"})
  BY <1>2, <1>3, <1>5 DEF In, Writes
<1>7. Under(y, {"write_refused"}) <= Under(y, Writes)
  BY <1>2, UnderLess DEF Writes
<1>8. Under(st, {"write_refused"}) = 0
  BY <1>3, <1>6, <1>7
<1>9. Under(st, {"reset"}) = 0
  BY <1>3, <1>5 DEF StackInv
<1> QED
  BY <1>4, <1>5, <1>8, <1>9

\* The buffer to write is the one that was not written entirely, or the first in the queue.
LEMMA TakenGood ==
  ASSUME NEW st, Typed(st), st.calls # <<>>, Head(st.calls) = "writing", ToWrite(st),
         NEW r, r = Taken(st), NEW n, NEW fr, NEW ag, NEW nt, Good(st, NoBuf, n, fr, ag, nt)
  PROVE  /\ Typed(r) /\ Only(r, st, {"queue", "cur"}) /\ Good(r, NoBuf, n, fr, ag, nt)
         /\ r.cur \in Origins /\ r.cur # NoBuf
<1>1. CASE st.cur # NoBuf
  BY <1>1 DEF Taken, Typed, Only
<1>2. CASE st.cur = NoBuf
  <2>1. PICK q \in Seq(Origins) : q = st.queue
    BY DEF Typed
  <2>2. q # <<>>
    BY <1>2, <2>1 DEF ToWrite
  <2>3. /\ Tail(q) \in Seq(Origins) /\ Head(q) \in Origins
        /\ \A o : Count(Tail(q), {o}) = Count(q, {o}) - Is(Head(q), o)
    BY <2>2, BufsQueue
  <2>4. PICK p \in Seq(Origins), h \in Origins : p = Tail(q) /\ h = Head(q)
    BY <2>3
  <2>5. r = [st EXCEPT !.cur = h, !.queue = p]
    BY <1>2, <2>1, <2>4 DEF Taken
  <2>6. Only(r, st, {"queue", "cur"}) /\ r.cur = h /\ r.queue = p
    BY <2>5 DEF Only, Typed, Fields
  <2>7. Typed(r)
    <3>2. Fits(r.queue, "queue")
      BY <2>6, FitsSeqs
    <3>3. Fits(r.cur, "cur")
      BY <2>6, FitsKinds
    <3>4. \A f \in {"queue", "cur"} : Fits(r[f], f)
      BY <3>2, <3>3
    <3> QED
      BY <2>6, <3>4, TypedFits
  <2>8. h # NoBuf
    BY DEF Origins, NoBuf
  <2>9. ASSUME NEW o \in Origins PROVE Bufs(r, o) = Bufs(st, o)
    <3>1. PICK k \in Nat, m \in Nat : k = Count(q, {o}) /\ m = Is(h, o)
      BY CountType DEF Is
    <3>2. Count(p, {o}) = k - m
      BY <2>3, <2>4, <3>1
    <3>3. Is(st.cur, o) = 0
      BY <1>2 DEF Is, NoBuf, Origins
    <3> QED
      BY <2>1, <2>6, <3>1, <3>2, <3>3 DEF Bufs
  <2>10. /\ r.vdagent = st.vdagent /\ r.vm = st.vm /\ r.conn = st.conn /\ r.base = st.base
         /\ r.running = st.running
         /\ r.retry = st.retry /\ r.self = st.self /\ r.client = st.client /\ r.tok = st.tok
         /\ r.free = st.free /\ r.send = st.send /\ r.busyW = st.busyW /\ r.busyR = st.busyR
         /\ r.left = st.left /\ r.calls = st.calls /\ r.accept = st.accept
         /\ r.held = st.held /\ r.msg = st.msg /\ r.bufs = st.bufs /\ r.out = st.out
    BY <2>6 DEF Only, Fields, Flags, Counters
  <2>11. LinkInv(r, n)
    BY <2>10 DEF Good, LinkInv, Under
  <2>12. Bufs(r, "client") = Bufs(st, "client") /\ Bufs(r, "server") = Bufs(st, "server")
    BY <2>9 DEF Origins
  <2>13. TokenInv(r, n, NoBuf) /\ SelfInv(r, NoBuf) /\ ReadBufInv(r)
    BY <2>10, <2>12 DEF Good, TokenInv, SelfInv, ReadBufInv
  <2>14. StackInv(r)
    BY <2>6, <2>8, <2>10 DEF Good, StackInv, Under
  <2>15. WriteInv(r, fr, nt)
    <3>1. Under(r, WillWrite) > 0
      BY <2>10, TopWriting DEF Good, Under
    <3> QED
      BY <2>10, <3>1 DEF Good, WriteInv
  <2>16. ReadInv(r, ag)
    BY <2>10 DEF Good, ReadInv, CanServe, Under
  <2> QED
    BY <2>6, <2>7, <2>8, <2>11, <2>13, <2>14, <2>15, <2>16 DEF Good
<1> QED
  BY <1>1, <1>2

\* The device took it, whatever it has room for now.
LEMMA HandGood ==
  ASSUME NEW st, Typed(st), st.calls # <<>>, Head(st.calls) = "writing", st.cur # NoBuf,
         NEW r, r = [st EXCEPT !.cur = NoBuf, !.didW = TRUE],
         NEW n, NEW fr, NEW ag, NEW nt, Good(st, NoBuf, n, fr, ag, nt), NEW fr2
  PROVE  /\ Typed(r) /\ Only(r, st, {"cur", "didW"})
         /\ Good(r, st.cur, n, fr2, ag, nt)
<1>1. Only(r, st, {"cur", "didW"}) /\ r.cur = NoBuf /\ r.didW = TRUE
  BY DEF Only, Typed, Fields, Flags
<1>2. Typed(r)
  <2>1. {"didW"} \subseteq Flags
    BY DEF Flags
  <2>2. Fits(r.didW, "didW")
    BY <1>1, <2>1, FitsKinds
  <2>3. Fits(r.cur, "cur")
    BY <1>1, FitsKinds
  <2>4. \A f \in {"cur", "didW"} : Fits(r[f], f)
    BY <2>2, <2>3
  <2> QED
    BY <1>1, <2>4, TypedFits
<1>3. /\ r.vdagent = st.vdagent /\ r.vm = st.vm /\ r.conn = st.conn /\ r.base = st.base
      /\ r.running = st.running /\ r.queue = st.queue
      /\ r.retry = st.retry /\ r.self = st.self /\ r.client = st.client /\ r.tok = st.tok
      /\ r.free = st.free /\ r.send = st.send /\ r.busyW = st.busyW /\ r.busyR = st.busyR
      /\ r.left = st.left /\ r.calls = st.calls /\ r.accept = st.accept
      /\ r.held = st.held /\ r.msg = st.msg /\ r.bufs = st.bufs /\ r.out = st.out
  BY <1>1 DEF Only, Fields, Flags, Counters
<1>4. LinkInv(r, n)
  BY <1>3 DEF Good, LinkInv, Under
<1>5. ASSUME NEW o \in {"client", "server"}
      PROVE  Bufs(r, o) + Is(st.cur, o) = Bufs(st, o) + Is(NoBuf, o)
  <2>1. PICK k \in Nat, m \in Nat : k = Count(st.queue, {o}) /\ m = Is(st.cur, o)
    BY CountType DEF Is, Typed
  <2>2. Is(NoBuf, o) = 0
    BY <1>5 DEF Is, NoBuf
  <2> QED
    BY <1>1, <1>3, <2>1, <2>2 DEF Bufs
<1>6. TokenInv(r, n, st.cur)
  <2>1. PICK p \in Nat, q \in Nat, v \in Nat, w \in Nat :
            p = Bufs(r, "client") /\ q = Is(st.cur, "client") /\ v = Bufs(st, "client") /\ w = Is(NoBuf, "client")
    BY <1>2, UnderType DEF Is
  <2>2. p + q = v + w
    BY <1>5, <2>1
  <2>3. st.tok \in Nat /\ st.free \in Nat
    BY DEF Typed, Counters
  <2>4. PICK h \in Nat : h = Is(st.held, n)
    BY DEF Is
  <2>5. CASE st.client
    <3>1. st.tok + st.free + v + w + h = Window
      BY <2>1, <2>4, <2>5 DEF Good, TokenInv
    <3>2. st.tok + st.free + p + q + h = Window
      <4>1. PICK a \in Nat, b \in Nat : a = st.tok /\ b = st.free
        BY <2>3
      <4>2. a + b + v + w + h = Window
        BY <3>1, <4>1
      <4>3. a + b + p + q + h = a + b + (p + q) + h /\ a + b + v + w + h = a + b + (v + w) + h
        OBVIOUS
      <4> QED
        BY <2>2, <4>1, <4>2, <4>3
    <3> QED
      BY <1>3, <2>1, <2>4, <2>5, <3>2 DEF Good, TokenInv
  <2>6. CASE ~st.client
    BY <1>3, <2>1, <2>2, <2>6 DEF Good, TokenInv
  <2> QED
    BY <2>5, <2>6
<1>7. SelfInv(r, st.cur) /\ ReadBufInv(r)
  <2>1. PICK p \in Nat, q \in Nat, v \in Nat, w \in Nat :
            p = Bufs(r, "server") /\ q = Is(st.cur, "server") /\ v = Bufs(st, "server") /\ w = Is(NoBuf, "server")
    BY <1>2, UnderType DEF Is
  <2>2. p + q = v + w
    BY <1>5, <2>1
  <2>3. st.self \in Nat
    BY DEF Typed, Counters
  <2> QED
    BY <1>3, <2>1, <2>2, <2>3 DEF Good, SelfInv, ReadBufInv
<1>8. StackInv(r)
  <2>1. Under(r, {"write_refused"}) = 0
    BY <1>3, TopWriting DEF Good, Under
  <2> QED
    BY <1>3, <2>1 DEF Good, StackInv, Under
<1>9. WriteInv(r, fr2, nt)
  <2>1. Under(r, WillWrite) > 0
    BY <1>3, TopWriting DEF Good, Under
  <2> QED
    BY <1>3, <2>1 DEF Good, WriteInv
<1>10. ReadInv(r, ag)
  BY <1>3 DEF Good, ReadInv, CanServe, Under
<1> QED
  BY <1>1, <1>2, <1>4, <1>6, <1>7, <1>8, <1>9, <1>10 DEF Good

\* A buffer in hand is released; the client may be found gone.
LEMMA ReleasedGood ==
  ASSUME NEW st, Typed(st), NEW b \in Origins \cup {NoBuf}, Released(st, b),
         NEW n, NEW fr, NEW ag, NEW nt, Good(st, b, n, fr, ag, nt), up \in Seq(Up)
  PROVE  Typed(s') /\ Good(s', NoBuf, n, fr, ag, nt) /\ up' \in Seq(Up)
<1>1. PICK d : d = WriteBufferRelease(st, b)
  OBVIOUS
<1>2. Typed(d) /\ Good(d, NoBuf, n, fr, ag, nt)
  BY <1>1, ReleaseGood
<1>3. (s' = d /\ up' = up) \/ (s' = ClientDisconnect(d) /\ up' = <<>>)
  BY <1>1 DEF Released
<1>4. <<>> \in Seq(Up)
  OBVIOUS
<1>5. CASE s' = d /\ up' = up
  BY <1>2, <1>5
<1>6. CASE s' = ClientDisconnect(d) /\ up' = <<>>
  BY <1>2, <1>4, <1>6, DisconnectGood
<1> QED
  BY <1>3, <1>5, <1>6

\* The device takes a buffer, and it is released.
LEMMA WriteBufferStep == ASSUME PortInv, WriteBuffer PROVE PortInv'
<1>1. /\ Typed(s) /\ s.calls # <<>> /\ Head(s.calls) = "writing" /\ ToWrite(s)
      /\ Good(s, NoBuf, count.conns, room, agent, mode.notify)
      /\ UNCHANGED <<agent, mode, peer, count>> /\ room' = room - 1 /\ up \in Seq(Up)
  BY DEF PortInv, TypeInv, WriteBuffer, Writing, Top, ToWrite
<1>2. room' \in 0 .. Room
  <2>1. room \in 0 .. Room /\ room > 0 /\ room' = room - 1
    BY DEF PortInv, TypeInv, WriteBuffer
  <2> QED
    BY <2>1, PortConstants
<1>3. PICK t : t = Taken(s)
  OBVIOUS
<1>4. /\ Typed(t) /\ Only(t, s, {"queue", "cur"}) /\ t.cur \in Origins /\ t.cur # NoBuf
      /\ Good(t, NoBuf, count.conns, room, agent, mode.notify)
  BY <1>1, <1>3, TakenGood
<1>5. t.calls = s.calls
  BY <1>4 DEF Only, Fields
<1>6. PICK w : w = [t EXCEPT !.cur = NoBuf, !.didW = TRUE]
  OBVIOUS
<1>7. Typed(w) /\ Good(w, t.cur, count.conns, room', agent, mode.notify)
  BY <1>1, <1>4, <1>5, <1>6, HandGood
<1>8. Released(w, t.cur)
  BY <1>3, <1>6 DEF WriteBuffer
<1>9. Typed(s') /\ Good(s', NoBuf, count.conns, room', agent, mode.notify) /\ up' \in Seq(Up)
  BY <1>1, <1>4, <1>7, <1>8, ReleasedGood
<1> QED
  BY <1>1, <1>2, <1>9 DEF PortInv, TypeInv

\* The device takes no more.
LEMMA WriteRefusedStep == ASSUME PortInv, WriteRefused PROVE PortInv'
<1>1. /\ Typed(s) /\ s.calls # <<>> /\ Head(s.calls) = "writing" /\ ToWrite(s)
      /\ "writing" \in Pending /\ "write_refused" \in Pending
      /\ Good(s, NoBuf, count.conns, room, agent, mode.notify)
      /\ UNCHANGED <<device, world>> /\ room = 0
  BY DEF PortInv, TypeInv, WriteRefused, Writing, Top, ToWrite, Pending
<1>2. PICK part \in BOOLEAN :
          s' = Call([Return(Taken(s)) EXCEPT !.didW = @ \/ part], <<"write_refused">>)
  BY DEF WriteRefused
<1>3. PICK t : t = Taken(s)
  OBVIOUS
<1>4. /\ Typed(t) /\ Only(t, s, {"queue", "cur"}) /\ t.cur \in Origins /\ t.cur # NoBuf
      /\ Good(t, NoBuf, count.conns, room, agent, mode.notify)
  BY <1>1, <1>3, TakenGood
<1>5. t.calls # <<>> /\ Head(t.calls) = "writing"
  BY <1>1, <1>4 DEF Only, Fields
<1>6. PICK y : y = Return(t)
  OBVIOUS
<1>7. Typed(y) /\ Only(y, t, {"calls"}) /\ y.calls = Tail(t.calls)
  BY <1>1, <1>4, <1>5, <1>6, ReturnEffect
<1>8. y.didW \in BOOLEAN
  BY <1>7 DEF Typed, Flags
<1>9. PICK d \in BOOLEAN : d = (y.didW \/ part)
  BY <1>8
<1>10. PICK w : w = [y EXCEPT !.didW = d]
  OBVIOUS
<1>11. s' = Call(w, <<"write_refused">>)
  BY <1>2, <1>3, <1>6, <1>9, <1>10
<1>12. Only(w, y, {"didW"}) /\ w.didW = d
  BY <1>7, <1>10 DEF Only, Typed, Fields, Flags
<1>13. Typed(w)
  <2>1. {"didW"} \subseteq Flags
    BY DEF Flags
  <2>2. Fits(w.didW, "didW")
    BY <1>12, <2>1, FitsKinds
  <2>3. \A f \in {"didW"} : Fits(w[f], f)
    BY <2>2
  <2> QED
    BY <1>7, <1>12, <2>3, TypedFits
<1>14. w.calls = Tail(t.calls)
  BY <1>7, <1>12 DEF Only, Fields
<1>15. /\ Typed(s') /\ Only(s', w, {"calls"})
       /\ \A C : Under(s', C) = Under(t, C) - In("writing", C) + In("write_refused", C)
  BY <1>1, <1>4, <1>5, <1>11, <1>13, <1>14, SwapEffect
<1>16. \A C : Under(t, C) \in Nat
  BY <1>4, UnderType
<1>17. /\ Under(s', {"accept"}) = Under(t, {"accept"}) /\ Under(s', {"reset"}) = Under(t, {"reset"})
       /\ Under(s', {"write_refused"}) = Under(t, {"write_refused"}) + 1
       /\ Under(s', Reads) = Under(t, Reads) /\ Under(s', Writes) = Under(t, Writes)
       /\ Under(s', WillRead) = Under(t, WillRead)
  BY <1>15, <1>16 DEF In, Writes, Reads, WillRead
<1>18. Only(s', t, {"calls", "didW"})
  BY <1>7, <1>12, <1>15 DEF Only, Fields
<1>19. /\ s'.busyW = t.busyW /\ s'.cur = t.cur /\ s'.queue = t.queue
       /\ s'.running = t.running /\ s'.base = t.base /\ s'.vdagent = t.vdagent
       /\ s'.client = t.client /\ s'.left = t.left /\ s'.send = t.send
       /\ s'.bufs = t.bufs /\ s'.busyR = t.busyR /\ s'.retry = t.retry
  BY <1>18 DEF Only, Fields, Flags, Counters
<1>20. StackInv(s')
  BY <1>4, <1>17, <1>19 DEF Good, StackInv
<1>21. WriteInv(s', room, mode.notify)
  <2>1. Under(s', {"write_refused"}) > 0
    BY <1>16, <1>17
  <2> QED
    BY <1>1, <1>4, <1>19, <2>1 DEF Good, WriteInv
<1>22. ReadInv(s', agent)
  BY <1>4, <1>17, <1>19 DEF Good, ReadInv, CanServe
<1>23. Only(s', t, Stacked)
  BY <1>18 DEF Only, Stacked, Silent
<1>24. Good(s', NoBuf, count.conns, room, agent, mode.notify)
  BY <1>4, <1>15, <1>17, <1>20, <1>21, <1>22, <1>23, GoodStack
<1> QED
  BY <1>1, <1>15, <1>24, ServerStep

-----------------------------------------------------------------------------
(* spice_char_device_reset. *)

\* A buffer comes to hand, and nothing else changes in the accounts.
LEMMA HandTokens ==
  ASSUME NEW st, Typed(st), NEW r, NEW n, NEW h,
         TokenInv(st, n, NoBuf), SelfInv(st, NoBuf),
         r.base = st.base, r.self = st.self, r.client = st.client, r.tok = st.tok,
         r.free = st.free, r.held = st.held,
         \A o \in {"client", "server"} :
            /\ Bufs(r, o) + Is(h, o) = Bufs(st, o) + Is(NoBuf, o)
            /\ Bufs(r, o) \in Nat /\ Is(h, o) \in Nat /\ Bufs(st, o) \in Nat /\ Is(NoBuf, o) \in Nat
  PROVE  TokenInv(r, n, h) /\ SelfInv(r, h)
<1>1. TokenInv(r, n, h)
  <2>1. PICK p \in Nat, q \in Nat, v \in Nat, w \in Nat :
            /\ p = Bufs(r, "client") /\ q = Is(h, "client") /\ v = Bufs(st, "client")
            /\ w = Is(NoBuf, "client") /\ p + q = v + w
    OBVIOUS
  <2>2. PICK k \in Nat : k = Is(st.held, n)
    BY DEF Is
  <2>3. st.tok \in Nat /\ st.free \in Nat
    BY DEF Typed, Counters
  <2>4. CASE st.client
    <3>1. st.tok + st.free + v + w + k = Window
      BY <2>1, <2>2, <2>4 DEF TokenInv
    <3>2. st.tok + st.free + p + q + k = Window
      BY <2>1, <2>3, <3>1
    <3> QED
      BY <2>1, <2>2, <2>4, <3>2 DEF TokenInv
  <2>5. CASE ~st.client
    BY <2>1, <2>5 DEF TokenInv
  <2> QED
    BY <2>4, <2>5
<1>2. SelfInv(r, h)
  <2>1. PICK p \in Nat, q \in Nat, v \in Nat, w \in Nat :
            /\ p = Bufs(r, "server") /\ q = Is(h, "server") /\ v = Bufs(st, "server")
            /\ w = Is(NoBuf, "server") /\ p + q = v + w
    OBVIOUS
  <2>2. st.self \in Nat
    BY DEF Typed, Counters
  <2> QED
    BY <2>1, <2>2 DEF SelfInv
<1> QED
  BY <1>1, <1>2

\* The oldest buffer is taken off the queue ...
LEMMA ResetQueueStep == ASSUME PortInv, ResetQueue PROVE PortInv'
<1>1. /\ Typed(s) /\ s.calls # <<>> /\ Head(s.calls) = "reset" /\ "reset" \in Pending
      /\ Good(s, NoBuf, count.conns, room, agent, mode.notify)
      /\ UNCHANGED <<device, peer, count>> /\ up \in Seq(Up)
  BY DEF PortInv, TypeInv, ResetQueue, Top, Pending
<1>2. PICK q \in Seq(Origins) : q = s.queue
  BY <1>1 DEF Typed
<1>3. q # <<>>
  BY <1>2 DEF ResetQueue
<1>4. /\ Tail(q) \in Seq(Origins) /\ Head(q) \in Origins
      /\ \A o : Count(Tail(q), {o}) = Count(q, {o}) - Is(Head(q), o)
  BY <1>3, BufsQueue
<1>5. PICK p \in Seq(Origins), h \in Origins : p = Tail(q) /\ h = Head(q)
  BY <1>4
<1>6. PICK t : t = [s EXCEPT !.queue = p]
  OBVIOUS
<1>7. Released(t, h)
  BY <1>2, <1>5, <1>6 DEF ResetQueue
<1>8. Only(t, s, {"queue"}) /\ t.queue = p
  BY <1>1, <1>6 DEF Only, Typed, Fields
<1>9. Typed(t)
  <2>2. Fits(t.queue, "queue")
    BY <1>8, FitsSeqs
  <2>3. \A f \in {"queue"} : Fits(t[f], f)
    BY <2>2
  <2> QED
    BY <1>1, <1>8, <2>3, TypedFits
<1>10. /\ t.vdagent = s.vdagent /\ t.vm = s.vm /\ t.conn = s.conn /\ t.base = s.base
       /\ t.running = s.running /\ t.cur = s.cur
       /\ t.retry = s.retry /\ t.self = s.self /\ t.client = s.client /\ t.tok = s.tok
       /\ t.free = s.free /\ t.send = s.send /\ t.busyW = s.busyW /\ t.busyR = s.busyR
       /\ t.left = s.left /\ t.calls = s.calls /\ t.accept = s.accept
       /\ t.held = s.held /\ t.msg = s.msg /\ t.bufs = s.bufs /\ t.out = s.out
  BY <1>8 DEF Only, Fields, Flags, Counters
<1>11. ASSUME NEW o \in {"client", "server"}
       PROVE  /\ Bufs(t, o) + Is(h, o) = Bufs(s, o) + Is(NoBuf, o)
              /\ Bufs(t, o) \in Nat /\ Is(h, o) \in Nat /\ Bufs(s, o) \in Nat /\ Is(NoBuf, o) \in Nat
  <2>1. PICK k \in Nat, m \in Nat, l \in Nat : k = Count(q, {o}) /\ m = Is(h, o) /\ l = Is(s.cur, o)
    BY CountType DEF Is
  <2>2. Is(NoBuf, o) = 0
    BY <1>11 DEF Is, NoBuf
  <2>3. Count(p, {o}) = k - m
    BY <1>4, <1>5, <2>1
  <2>4. Bufs(t, o) = k - m + l /\ Bufs(s, o) = k + l
    BY <1>2, <1>8, <1>10, <2>1, <2>3 DEF Bufs
  <2>5. Bufs(t, o) \in Nat
    BY <1>9, UnderType
  <2>6. PICK e \in Nat, d \in Nat : e = Bufs(t, o) /\ d = Bufs(s, o)
    BY <1>1, <2>5, UnderType
  <2>7. e = k - m + l /\ d = k + l
    BY <2>4, <2>6
  <2>8. e + m = d + 0
    BY <2>7
  <2> QED
    BY <2>1, <2>2, <2>6, <2>8
<1>12. TokenInv(t, count.conns, h) /\ SelfInv(t, h)
  BY <1>1, <1>10, <1>11, HandTokens DEF Good
<1>13. LinkInv(t, count.conns) /\ ReadBufInv(t)
  BY <1>1, <1>10 DEF Good, LinkInv, ReadBufInv, Under
<1>14. StackInv(t)
  BY <1>1, <1>10 DEF Good, StackInv, Under
<1>15. WriteInv(t, room, mode.notify)
  <2>1. Under(s, {"reset"}) > 0
    BY <1>1, ReturnEffect
  <2>2. ~s.running
    BY <1>1, <2>1 DEF Good, StackInv
  <2> QED
    BY <1>1, <1>10, <2>2 DEF Good, WriteInv, CanServe
<1>16. ReadInv(t, agent)
  BY <1>1, <1>10 DEF Good, ReadInv, CanServe, Under
<1>17. Good(t, h, count.conns, room, agent, mode.notify)
  BY <1>12, <1>13, <1>14, <1>15, <1>16 DEF Good
<1>18. Typed(s') /\ Good(s', NoBuf, count.conns, room, agent, mode.notify) /\ up' \in Seq(Up)
  BY <1>1, <1>7, <1>9, <1>17, ReleasedGood
<1> QED
  BY <1>1, <1>18 DEF PortInv, TypeInv, device

\* ... and last the one that was being written.
LEMMA ResetCurrentStep == ASSUME PortInv, ResetCurrent PROVE PortInv'
<1>1. /\ Typed(s) /\ s.calls # <<>> /\ Head(s.calls) = "reset" /\ "reset" \in Pending
      /\ Good(s, NoBuf, count.conns, room, agent, mode.notify)
      /\ UNCHANGED <<device, peer, count>> /\ up \in Seq(Up)
  BY DEF PortInv, TypeInv, ResetCurrent, Top, Pending
<1>2. PICK y : y = Return(s)
  OBVIOUS
<1>3. /\ Typed(y) /\ Only(y, s, {"calls"})
      /\ \A C : Under(y, C) = Under(s, C) - In("reset", C)
      /\ Under(s, {"reset"}) > 0
  BY <1>1, <1>2, ReturnEffect
<1>4. PICK t : t = [y EXCEPT !.cur = NoBuf]
  OBVIOUS
<1>5. Released(t, s.cur)
  BY <1>2, <1>4 DEF ResetCurrent
<1>6. Only(t, y, {"cur"}) /\ t.cur = NoBuf
  BY <1>3, <1>4 DEF Only, Typed, Fields
<1>7. Typed(t)
  <2>2. Fits(t.cur, "cur")
    BY <1>6, FitsKinds
  <2>3. \A f \in {"cur"} : Fits(t[f], f)
    BY <2>2
  <2> QED
    BY <1>3, <1>6, <2>3, TypedFits
<1>8. Only(t, s, {"calls", "cur"}) /\ t.calls = y.calls
  BY <1>3, <1>6 DEF Only, Fields
<1>9. /\ t.vdagent = s.vdagent /\ t.vm = s.vm /\ t.conn = s.conn /\ t.base = s.base
      /\ t.running = s.running /\ t.queue = s.queue
      /\ t.retry = s.retry /\ t.self = s.self /\ t.client = s.client /\ t.tok = s.tok
      /\ t.free = s.free /\ t.send = s.send /\ t.busyW = s.busyW /\ t.busyR = s.busyR
      /\ t.left = s.left /\ t.accept = s.accept
      /\ t.held = s.held /\ t.msg = s.msg /\ t.bufs = s.bufs /\ t.out = s.out
  BY <1>8 DEF Only, Fields, Flags, Counters
<1>10. \A C : Under(s, C) \in Nat /\ Under(t, C) \in Nat
  BY <1>1, <1>7, UnderType
<1>11. \A C : Under(t, C) = Under(s, C) - In("reset", C)
  BY <1>3, <1>8 DEF Under
<1>12. /\ Under(t, {"accept"}) = Under(s, {"accept"})
       /\ Under(t, {"write_refused"}) = Under(s, {"write_refused"})
       /\ Under(t, Reads) = Under(s, Reads) /\ Under(t, Writes) = Under(s, Writes)
       /\ Under(t, WillRead) = Under(s, WillRead)
  BY <1>10, <1>11 DEF In, Writes, Reads, WillRead
<1>13. ~s.running /\ s.busyW = 0 /\ s.busyR = 0
  BY <1>1, <1>3 DEF Good, StackInv
<1>14. ASSUME NEW o \in {"client", "server"}
       PROVE  /\ Bufs(t, o) + Is(s.cur, o) = Bufs(s, o) + Is(NoBuf, o)
              /\ Bufs(t, o) \in Nat /\ Is(s.cur, o) \in Nat /\ Bufs(s, o) \in Nat /\ Is(NoBuf, o) \in Nat
  <2>1. PICK k \in Nat, m \in Nat : k = Count(s.queue, {o}) /\ m = Is(s.cur, o)
    BY <1>1, CountType DEF Is, Typed
  <2>2. Is(NoBuf, o) = 0
    BY <1>14 DEF Is, NoBuf
  <2> QED
    BY <1>6, <1>9, <2>1, <2>2 DEF Bufs
<1>15. TokenInv(t, count.conns, s.cur) /\ SelfInv(t, s.cur)
  BY <1>1, <1>9, <1>14, HandTokens DEF Good
<1>16. LinkInv(t, count.conns) /\ ReadBufInv(t)
  BY <1>1, <1>9, <1>12 DEF Good, LinkInv, ReadBufInv
<1>17. StackInv(t)
  <2>1. Under(s, Writes) = 0
    BY <1>1, <1>13 DEF Good, StackInv, Busy
  <2>2. Under(s, {"write_refused"}) <= Under(s, Writes)
    BY <1>1, UnderLess DEF Writes
  <2>3. Under(t, {"write_refused"}) = 0
    BY <1>10, <1>12, <2>1, <2>2
  <2> QED
    BY <1>1, <1>9, <1>12, <1>13, <2>3 DEF Good, StackInv
<1>18. WriteInv(t, room, mode.notify)
  BY <1>1, <1>9, <1>13 DEF Good, WriteInv, CanServe
<1>19. ReadInv(t, agent)
  BY <1>1, <1>9, <1>13 DEF Good, ReadInv, CanServe
<1>20. Good(t, s.cur, count.conns, room, agent, mode.notify)
  BY <1>15, <1>16, <1>17, <1>18, <1>19 DEF Good
<1>21. s.cur \in Origins \cup {NoBuf}
  BY <1>1 DEF Typed
<1>22. Typed(s') /\ Good(s', NoBuf, count.conns, room, agent, mode.notify) /\ up' \in Seq(Up)
  BY <1>1, <1>5, <1>7, <1>20, <1>21, ReleasedGood
<1> QED
  BY <1>1, <1>22 DEF PortInv, TypeInv, device

-----------------------------------------------------------------------------
(* Events of the device. *)

\* What is known when a handler begins.
LEMMA PortFacts ==
  ASSUME PortInv
  PROVE  /\ Typed(s) /\ Good(s, NoBuf, count.conns, room, agent, mode.notify)
         /\ mode.notify \in BOOLEAN /\ mode.agent \in Nat /\ mode.conns \in Nat
         /\ room \in 0 .. Room /\ agent \in Nat /\ up \in Seq(Up) /\ count.conns \in Nat
         /\ s.calls = <<>> => s.busyW = 0 /\ s.busyR = 0 /\ \A C : Under(s, C) = 0
<1>1. Typed(s) /\ StackInv(s)
  BY DEF PortInv, TypeInv, Good
<1>2. s.calls = <<>> => s.busyW = 0 /\ s.busyR = 0 /\ \A C : Under(s, C) = 0
  BY <1>1, IdleStack
<1> QED
  BY <1>2, PortAssumption DEF PortInv, TypeInv, Mode

\* spice_char_device_wakeup is called.
LEMMA WakeupGood ==
  ASSUME NEW st, Typed(st), NEW r, r = Call(st, Wakeup),
         NEW b, NEW n, NEW fr, NEW ag, NEW nt, Good(st, b, n, fr, ag, nt)
  PROVE  /\ Typed(r) /\ Good(r, b, n, fr, ag, nt) /\ Only(r, st, {"calls"})
         /\ Under(r, WillWrite) > 0 /\ Under(r, WillRead) > 0
<1>1. "write" \in Free /\ "read" \in Free /\ "write" \in Pending /\ "read" \in Pending
  BY DEF Free, Pending
<1>2. Typed(r) /\ Good(r, b, n, fr, ag, nt)
  BY <1>1, GoodCalls DEF Wakeup
<1>3. PICK c \in Seq(Pending) : c = <<"write", "read">>
  BY <1>1, TwoCalls
<1>4. \A C : Count(c, C) = In("write", C) + In("read", C)
  BY <1>1, <1>3, TwoCalls
<1>a. r = Call(st, c)
  BY <1>3 DEF Wakeup
<1>5. Only(r, st, {"calls"}) /\ \A C : Under(r, C) = Count(c, C) + Under(st, C)
  BY <1>a, CallEffect
<1>6. \A C : Under(st, C) \in Nat
  BY UnderType
<1>7. In("write", WillWrite) = 1 /\ In("read", WillWrite) = 0
      /\ In("write", WillRead) = 0 /\ In("read", WillRead) = 1
  BY DEF In, WillWrite, WillRead
<1>8. Under(r, WillWrite) > 0 /\ Under(r, WillRead) > 0
  BY <1>4, <1>5, <1>6, <1>7
<1> QED
  BY <1>2, <1>5, <1>8

\* An event of the device may come from within its read or its write.
LEMMA InsideGood ==
  ASSUME PortInv, NEW t, t = Inside(s)
  PROVE  /\ Typed(t) /\ Good(t, NoBuf, count.conns, room, agent, mode.notify)
         /\ Only(t, s, {"queue", "cur"})
<1>1. CASE Writing
  <2>1. s.calls # <<>> /\ Head(s.calls) = "writing" /\ ToWrite(s) /\ t = Taken(s)
    BY <1>1 DEF Writing, Top, ToWrite, Inside
  <2> QED
    BY <2>1, PortFacts, TakenGood
<1>2. CASE ~Writing
  <2>1. t = s
    BY <1>2 DEF Inside
  <2> QED
    BY <2>1, PortFacts DEF Only
<1> QED
  BY <1>1, <1>2

\* The device has room again, and says so if it can.
LEMMA GuestReadsStep == ASSUME PortInv, GuestReads PROVE PortInv'
<1>1. PICK t : t = Inside(s)
  OBVIOUS
<1>2. Typed(t) /\ Good(t, NoBuf, count.conns, room, agent, mode.notify)
  BY <1>1, InsideGood
<1>3. UNCHANGED <<agent, mode, world>> /\ room' = room + 1 /\ room' \in 0 .. Room
  BY PortFacts, PortConstants DEF GuestReads
<1>4. CASE mode.notify
  <2>1. s' = Call(t, Wakeup)
    BY <1>1, <1>4 DEF GuestReads
  <2>2. /\ Typed(s') /\ Good(s', NoBuf, count.conns, room, agent, mode.notify)
        /\ Under(s', WillWrite) > 0
    BY <1>2, <2>1, WakeupGood
  <2>3. WriteInv(s', room', mode.notify)
    BY <2>2 DEF Good, WriteInv
  <2>4. Good(s', NoBuf, count.conns, room', agent, mode.notify)
    BY <2>2, <2>3 DEF Good
  <2> QED
    BY <1>3, <2>2, <2>4 DEF PortInv, TypeInv, world
<1>5. CASE ~mode.notify
  <2>1. s' = Call(t, <<>>)
    BY <1>1, <1>5 DEF GuestReads
  <2>2. Typed(s') /\ Good(s', NoBuf, count.conns, room, agent, mode.notify)
    BY <1>2, <2>1, GoodCalls
  <2>3. WriteInv(s', room', mode.notify)
    BY <1>5, <2>2 DEF Good, WriteInv
  <2>4. Good(s', NoBuf, count.conns, room', agent, mode.notify)
    BY <2>2, <2>3 DEF Good
  <2> QED
    BY <1>3, <2>2, <2>4 DEF PortInv, TypeInv, world
<1> QED
  BY <1>4, <1>5

\* A message of the agent, in the event loop or from within a read or a write.
LEMMA GuestWritesStep == ASSUME PortInv, GuestWrites PROVE PortInv'
<1>1. PICK t : t = Inside(s)
  OBVIOUS
<1>2. Typed(t) /\ Good(t, NoBuf, count.conns, room, agent, mode.notify)
  BY <1>1, InsideGood
<1>3. /\ UNCHANGED <<room, mode, up, peer>> /\ agent' = agent + 1
      /\ count' = [count EXCEPT !.agent = @ + 1] /\ count.agent < mode.agent
      /\ s' = Call(t, Wakeup)
  BY <1>1 DEF GuestWrites
<1>a. /\ count \in [data : Nat, agent : Nat, mouse : Nat, plugs : Nat, conns : Nat, stops : Nat]
      /\ agent <= count.agent /\ agent \in Nat /\ mode.agent \in Nat
  BY PortFacts DEF PortInv, TypeInv
<1>4. /\ count' \in [data : Nat, agent : Nat, mouse : Nat, plugs : Nat, conns : Nat, stops : Nat]
      /\ count'.agent = count.agent + 1 /\ count'.conns = count.conns /\ count.agent \in Nat
  BY <1>3, <1>a
<1>5. agent' \in Nat /\ agent' <= count'.agent /\ count'.agent <= mode.agent
  BY <1>3, <1>4, <1>a
<1>6. /\ Typed(s') /\ Good(s', NoBuf, count.conns, room, agent, mode.notify)
      /\ Under(s', WillRead) > 0
  BY <1>2, <1>3, WakeupGood
<1>7. ReadInv(s', agent')
  BY <1>6 DEF Good, ReadInv
<1>8. Good(s', NoBuf, count'.conns, room, agent', mode.notify)
  BY <1>4, <1>6, <1>7 DEF Good
<1> QED
  BY <1>3, <1>4, <1>5, <1>6, <1>8 DEF PortInv, TypeInv

\* spice_char_dev_write_retry
LEMMA WriteRetryStep == ASSUME PortInv, WriteRetry PROVE PortInv'
<1>1. /\ Typed(s) /\ Good(s, NoBuf, count.conns, room, agent, mode.notify)
      /\ UNCHANGED <<device, world>>
  BY PortFacts DEF WriteRetry
<1>2. PICK t : t = [s EXCEPT !.retry = FALSE]
  OBVIOUS
<1>3. s' = Call(t, <<"write">>) /\ "write" \in Pending
  BY <1>2 DEF WriteRetry, Pending
<1>4. Only(t, s, {"retry"}) /\ t.retry = FALSE
  BY <1>1, <1>2 DEF Only, Typed, Fields, Flags
<1>5. Typed(t)
  <2>1. {"retry"} \subseteq Flags
    BY DEF Flags
  <2>2. Fits(t.retry, "retry")
    BY <1>4, <2>1, FitsKinds
  <2>3. \A f \in {"retry"} : Fits(t[f], f)
    BY <2>2
  <2> QED
    BY <1>1, <1>4, <2>3, TypedFits
<1>a. <<"write">> \in Seq(Pending)
  BY <1>3
<1>6. PICK c \in Seq(Pending) : c = <<"write">>
  BY <1>a
<1>b. s' = Call(t, c)
  BY <1>3, <1>6
<1>7. \A C : Count(c, C) = In("write", C)
  <2>1. ASSUME NEW C PROVE Count(<<"write">>, C) = In("write", C)
    BY CountShort DEF One, In
  <2> QED
    BY <1>6, <2>1
<1>8. /\ Typed(s') /\ Only(s', t, {"calls"})
      /\ \A C : Under(s', C) = Count(c, C) + Under(t, C)
  BY <1>5, <1>b, CallEffect
<1>9. \A C : Under(s, C) \in Nat /\ Under(t, C) = Under(s, C)
  BY <1>1, <1>4, UnderType DEF Only, Fields, Under
<1>10. /\ Under(s', {"accept"}) = Under(s, {"accept"}) /\ Under(s', {"reset"}) = Under(s, {"reset"})
       /\ Under(s', {"write_refused"}) = Under(s, {"write_refused"})
       /\ Under(s', Reads) = Under(s, Reads) /\ Under(s', Writes) = Under(s, Writes)
       /\ Under(s', WillRead) = Under(s, WillRead) /\ Under(s', WillWrite) = Under(s, WillWrite) + 1
  BY <1>7, <1>8, <1>9 DEF In, Writes, Reads, WillRead, WillWrite
<1>11. Only(s', s, {"calls", "retry"})
  BY <1>4, <1>8 DEF Only, Fields
<1>12. /\ s'.busyW = s.busyW /\ s'.cur = s.cur /\ s'.queue = s.queue
       /\ s'.running = s.running /\ s'.base = s.base /\ s'.vdagent = s.vdagent
       /\ s'.client = s.client /\ s'.left = s.left /\ s'.send = s.send
       /\ s'.bufs = s.bufs /\ s'.busyR = s.busyR /\ s'.retry = FALSE
  BY <1>4, <1>8, <1>11 DEF Only, Fields, Flags, Counters
<1>13. StackInv(s')
  BY <1>1, <1>10, <1>12 DEF Good, StackInv
<1>14. WriteInv(s', room, mode.notify)
  <2>1. Under(s', WillWrite) > 0
    BY <1>9, <1>10
  <2> QED
    BY <1>12, <2>1 DEF WriteInv
<1>15. ReadInv(s', agent)
  BY <1>1, <1>10, <1>12 DEF Good, ReadInv, CanServe
<1>16. Only(s', s, Stacked)
  BY <1>11 DEF Only, Stacked, Silent
<1>17. Good(s', NoBuf, count.conns, room, agent, mode.notify)
  BY <1>1, <1>8, <1>10, <1>13, <1>14, <1>15, <1>16, GoodStack
<1> QED
  BY <1>1, <1>8, <1>17, ServerStep

\* A device that is stopped waits for nothing.
LEMMA HaltedGood ==
  ASSUME NEW st, Typed(st), st.calls = <<>>, st.busyW = 0, st.busyR = 0, ~st.running,
         NEW n, NEW fr, NEW ag, NEW nt, LinkInv(st, n), TokenInv(st, n, NoBuf), SelfInv(st, NoBuf),
         ReadBufInv(st), ~(nt /\ st.retry)
  PROVE  Good(st, NoBuf, n, fr, ag, nt)
<1>1. \A C : Under(st, C) = 0
  BY UnderLess
<1>2. StackInv(st)
  BY <1>1 DEF StackInv, Busy
<1>3. WriteInv(st, fr, nt) /\ ReadInv(st, ag)
  BY DEF WriteInv, ReadInv, CanServe
<1> QED
  BY <1>2, <1>3 DEF Good

\* spice_char_device_start: a device that starts writes and reads.
LEMMA StartedGood ==
  ASSUME NEW st, Typed(st), st.calls = <<>>, st.busyW = 0, st.busyR = 0, st.vm,
         NEW n, NEW fr, NEW ag, NEW nt, LinkInv(st, n), TokenInv(st, n, NoBuf), SelfInv(st, NoBuf),
         ReadBufInv(st), ~(nt /\ st.retry),
         NEW r, r = Call([st EXCEPT !.running = TRUE], <<"start">>)
  PROVE  Typed(r) /\ Good(r, NoBuf, n, fr, ag, nt) /\ Only(r, st, {"running", "calls"})
<1>1. PICK t : t = [st EXCEPT !.running = TRUE]
  OBVIOUS
<1>2. Only(t, st, {"running"}) /\ t.running = TRUE
  BY <1>1 DEF Only, Typed, Fields, Flags
<1>3. Typed(t)
  <2>1. {"running"} \subseteq Flags
    BY DEF Flags
  <2>2. Fits(t.running, "running")
    BY <1>2, <2>1, FitsKinds
  <2>3. \A f \in {"running"} : Fits(t[f], f)
    BY <2>2
  <2> QED
    BY <1>2, <2>3, TypedFits
<1>4. <<"start">> \in Seq(Pending)
  BY DEF Pending
<1>5. PICK c \in Seq(Pending) : c = <<"start">>
  BY <1>4
<1>6. \A C : Count(c, C) = In("start", C)
  <2>1. ASSUME NEW C PROVE Count(<<"start">>, C) = In("start", C)
    BY CountShort DEF One, In
  <2> QED
    BY <1>5, <2>1
<1>7. r = Call(t, c)
  BY <1>1, <1>5
<1>8. /\ Typed(r) /\ Only(r, t, {"calls"})
      /\ \A C : Under(r, C) = Count(c, C) + Under(t, C)
  BY <1>3, <1>7, CallEffect
<1>9. \A C : Under(t, C) = 0
  BY <1>2, UnderLess DEF Only, Fields, Under
<1>10. ASSUME NEW C PROVE Under(r, C) = In("start", C)
  <2>1. PICK k \in Nat : k = In("start", C)
    BY DEF In
  <2>2. Under(r, C) = Count(c, C) + Under(t, C) /\ Count(c, C) = k /\ Under(t, C) = 0
    BY <1>6, <1>8, <1>9, <2>1
  <2> QED
    BY <2>1, <2>2
<1>11. /\ Under(r, {"accept"}) = 0 /\ Under(r, {"reset"}) = 0 /\ Under(r, {"write_refused"}) = 0
       /\ Under(r, Reads) = 0 /\ Under(r, Writes) = 0
       /\ Under(r, WillRead) = 1 /\ Under(r, WillWrite) = 1
  BY <1>10 DEF In, Writes, Reads, WillRead, WillWrite
<1>12. Only(r, st, {"running", "calls"})
  BY <1>2, <1>8 DEF Only, Fields
<1>13. /\ r.vdagent = st.vdagent /\ r.vm = st.vm /\ r.conn = st.conn /\ r.base = st.base
       /\ r.queue = st.queue /\ r.cur = st.cur
       /\ r.retry = st.retry /\ r.self = st.self /\ r.client = st.client /\ r.tok = st.tok
       /\ r.free = st.free /\ r.send = st.send /\ r.busyW = st.busyW /\ r.busyR = st.busyR
       /\ r.left = st.left /\ r.accept = st.accept
       /\ r.held = st.held /\ r.msg = st.msg /\ r.bufs = st.bufs /\ r.out = st.out
  BY <1>12 DEF Only, Fields, Flags, Counters
<1>14. LinkInv(r, n)
  <2>1. ~(Under(r, {"accept"}) > 0)
    BY <1>11
  <2>2. r.vm
    BY <1>13
  <2> QED
    BY <1>13, <2>1, <2>2 DEF LinkInv
<1>15. TokenInv(r, n, NoBuf) /\ SelfInv(r, NoBuf) /\ ReadBufInv(r)
  BY <1>13 DEF TokenInv, SelfInv, ReadBufInv, Bufs
<1>16. StackInv(r)
  BY <1>11, <1>13 DEF StackInv, Busy
<1>17. WriteInv(r, fr, nt) /\ ReadInv(r, ag)
  BY <1>11, <1>13 DEF WriteInv, ReadInv
<1> QED
  BY <1>8, <1>12, <1>14, <1>15, <1>16, <1>17 DEF Good

\* spice_server_vm_stop
LEMMA VmStopStep == ASSUME PortInv, VmStop PROVE PortInv'
<1>1. /\ Typed(s) /\ Good(s, NoBuf, count.conns, room, agent, mode.notify)
      /\ s.calls = <<>> /\ s.busyW = 0 /\ s.busyR = 0
      /\ UNCHANGED <<device, up, peer>> /\ count' = [count EXCEPT !.stops = @ + 1]
  BY PortFacts DEF VmStop, Quiet, Idle
<1>2. s' = [s EXCEPT !.vm = FALSE, !.running = FALSE, !.active = FALSE, !.retry = FALSE]
  <2>1. PICK t : t = [s EXCEPT !.vm = FALSE]
    OBVIOUS
  <2>2. s' = [t EXCEPT !.running = FALSE, !.active = FALSE, !.retry = FALSE]
    BY <2>1 DEF VmStop, Stop
  <2> QED
    BY <1>1, <2>1, <2>2 DEF Typed, Fields, Flags
<1>3. /\ Only(s', s, {"vm", "running", "active", "retry"})
      /\ s'.vm = FALSE /\ s'.running = FALSE /\ s'.active = FALSE /\ s'.retry = FALSE
  BY <1>1, <1>2 DEF Only, Typed, Fields, Flags
<1>4. Typed(s')
  <2>1. {"vm", "running", "active", "retry"} \subseteq Flags
    BY DEF Flags
  <2>2. /\ Fits(s'.vm, "vm") /\ Fits(s'.running, "running")
        /\ Fits(s'.active, "active") /\ Fits(s'.retry, "retry")
    BY <1>3, <2>1, FitsKinds
  <2>3. \A f \in {"vm", "running", "active", "retry"} : Fits(s'[f], f)
    BY <2>2
  <2> QED
    BY <1>1, <1>3, <2>3, TypedFits
<1>5. /\ s'.vdagent = s.vdagent /\ s'.conn = s.conn /\ s'.base = s.base
      /\ s'.queue = s.queue /\ s'.cur = s.cur
      /\ s'.self = s.self /\ s'.client = s.client /\ s'.tok = s.tok
      /\ s'.free = s.free /\ s'.send = s.send /\ s'.busyW = s.busyW /\ s'.busyR = s.busyR
      /\ s'.left = s.left /\ s'.calls = s.calls /\ s'.accept = s.accept
      /\ s'.held = s.held /\ s'.msg = s.msg /\ s'.bufs = s.bufs /\ s'.out = s.out
  BY <1>3 DEF Only, Fields, Flags, Counters
<1>6. LinkInv(s', count.conns)
  BY <1>1, <1>3, <1>5 DEF Good, LinkInv, Under
<1>7. TokenInv(s', count.conns, NoBuf) /\ SelfInv(s', NoBuf) /\ ReadBufInv(s')
  BY <1>1, <1>5 DEF Good, TokenInv, SelfInv, ReadBufInv, Bufs
<1>8. ~s'.running /\ ~s'.retry
  BY <1>3
<1>9. Good(s', NoBuf, count.conns, room, agent, mode.notify)
  BY <1>1, <1>4, <1>5, <1>6, <1>7, <1>8, HaltedGood
<1>10. /\ count' \in [data : Nat, agent : Nat, mouse : Nat, plugs : Nat, conns : Nat, stops : Nat]
       /\ count'.agent = count.agent /\ count'.conns = count.conns
  <2>1. count \in [data : Nat, agent : Nat, mouse : Nat, plugs : Nat, conns : Nat, stops : Nat]
    BY DEF PortInv, TypeInv
  <2> QED
    BY <1>1, <2>1
<1> QED
  BY <1>1, <1>4, <1>9, <1>10 DEF PortInv, TypeInv, device

\* spice_server_vm_start
LEMMA VmStartStep == ASSUME PortInv, VmStart PROVE PortInv'
<1>1. /\ Typed(s) /\ Good(s, NoBuf, count.conns, room, agent, mode.notify)
      /\ s.calls = <<>> /\ s.busyW = 0 /\ s.busyR = 0 /\ ~s.vm
      /\ UNCHANGED <<device, world>>
  BY PortFacts DEF VmStart, Quiet, Idle
<1>2. PICK t : t = [s EXCEPT !.vm = TRUE]
  OBVIOUS
<1>3. Only(t, s, {"vm"}) /\ t.vm = TRUE
  BY <1>1, <1>2 DEF Only, Typed, Fields, Flags
<1>4. Typed(t)
  <2>1. {"vm"} \subseteq Flags
    BY DEF Flags
  <2>2. Fits(t.vm, "vm")
    BY <1>3, <2>1, FitsKinds
  <2>3. \A f \in {"vm"} : Fits(t[f], f)
    BY <2>2
  <2> QED
    BY <1>1, <1>3, <2>3, TypedFits
<1>5. /\ t.vdagent = s.vdagent /\ t.conn = s.conn /\ t.base = s.base
      /\ t.running = s.running /\ t.queue = s.queue /\ t.cur = s.cur
      /\ t.retry = s.retry /\ t.self = s.self /\ t.client = s.client /\ t.tok = s.tok
      /\ t.free = s.free /\ t.send = s.send /\ t.busyW = s.busyW /\ t.busyR = s.busyR
      /\ t.left = s.left /\ t.calls = s.calls /\ t.accept = s.accept
      /\ t.held = s.held /\ t.msg = s.msg /\ t.bufs = s.bufs /\ t.out = s.out
  BY <1>3 DEF Only, Fields, Flags, Counters
<1>6. LinkInv(t, count.conns)
  BY <1>1, <1>3, <1>5 DEF Good, LinkInv, Under
<1>7. TokenInv(t, count.conns, NoBuf) /\ SelfInv(t, NoBuf) /\ ReadBufInv(t)
  BY <1>1, <1>5 DEF Good, TokenInv, SelfInv, ReadBufInv, Bufs
<1>8. ~(mode.notify /\ t.retry) /\ t.vm /\ ~t.running
  BY <1>1, <1>3, <1>5 DEF Good, WriteInv, LinkInv
<1>9. CASE s.base
  <2>1. s' = Call([t EXCEPT !.running = TRUE], <<"start">>)
    BY <1>2, <1>9 DEF VmStart
  <2>2. Typed(s') /\ Good(s', NoBuf, count.conns, room, agent, mode.notify)
    BY <1>1, <1>4, <1>5, <1>6, <1>7, <1>8, <2>1, StartedGood
  <2> QED
    BY <1>1, <2>2, ServerStep
<1>10. CASE ~s.base
  <2>1. s' = t
    BY <1>2, <1>10 DEF VmStart
  <2>2. Good(s', NoBuf, count.conns, room, agent, mode.notify)
    BY <1>1, <1>4, <1>5, <1>6, <1>7, <1>8, <2>1, HaltedGood
  <2> QED
    BY <1>1, <1>4, <2>1, <2>2, ServerStep
<1> QED
  BY <1>9, <1>10

\* attach_to_red_agent: the state of the device is made, unless it outlived an agent.
LEMMA AttachStep == ASSUME PortInv, Attach PROVE PortInv'
<1>1. /\ Typed(s) /\ Good(s, NoBuf, count.conns, room, agent, mode.notify)
      /\ s.calls = <<>> /\ s.busyW = 0 /\ s.busyR = 0
      /\ UNCHANGED <<mode, up, peer>> /\ room' = Room /\ agent' = 0
      /\ count' = [count EXCEPT !.plugs = @ + 1]
  BY PortFacts DEF Attach, Quiet, Idle
<1>2. SelfTokens \in Nat /\ Window \in Nat /\ Room \in Nat
  BY PortConstants
<1>3. PICK q \in Seq(Down) : q = s.pipe
  BY <1>1 DEF Typed
<1>4. [type |-> "CONNECTED", n |-> Window] \in Down
  BY <1>2 DEF Down
<1>5. Append(q, [type |-> "CONNECTED", n |-> Window]) \in Seq(Down)
  BY <1>4
<1>6. PICK p \in Seq(Down) : p = IF s.conn THEN Append(q, [type |-> "CONNECTED", n |-> Window]) ELSE q
  BY <1>5
<1>7. PICK k \in Nat : k = IF s.base THEN s.self ELSE SelfTokens
  BY <1>1, <1>2 DEF Typed, Counters
<1>8. PICK u : u = IF s.base THEN s ELSE Create(s)
  OBVIOUS
<1>9. Only(u, s, {"base", "self"}) /\ u.base = TRUE /\ u.self = k
  <2>1. CASE s.base
    BY <1>1, <1>7, <1>8, <2>1 DEF Only, Typed, Flags
  <2>2. CASE ~s.base
    <3>1. u = [s EXCEPT !.base = TRUE, !.self = k]
      BY <1>7, <1>8, <2>2 DEF Create
    <3> QED
      BY <1>1, <3>1 DEF Only, Typed, Fields, Flags, Counters
  <2> QED
    BY <2>1, <2>2
<1>10. Typed(u)
  <2>1. {"base"} \subseteq Flags /\ {"self"} \subseteq Counters
    BY DEF Flags, Counters
  <2>2. Fits(u.base, "base")
    BY <1>9, <2>1, FitsKinds
  <2>3. Fits(u.self, "self")
    BY <1>9, <2>1, FitsKinds
  <2>4. \A f \in {"base", "self"} : Fits(u[f], f)
    BY <2>2, <2>3
  <2> QED
    BY <1>1, <1>9, <2>4, TypedFits
<1>11. PICK t : t = [u EXCEPT !.vdagent = TRUE, !.pipe = p]
  OBVIOUS
<1>12. Only(t, u, {"vdagent", "pipe"}) /\ t.vdagent = TRUE /\ t.pipe = p
  BY <1>10, <1>11 DEF Only, Typed, Fields, Flags
<1>13. Typed(t)
  <2>1. {"vdagent"} \subseteq Flags
    BY DEF Flags
  <2>2. Fits(t.vdagent, "vdagent")
    BY <1>12, <2>1, FitsKinds
  <2>3. Fits(t.pipe, "pipe")
    BY <1>12, FitsSeqs
  <2>4. \A f \in {"vdagent", "pipe"} : Fits(t[f], f)
    BY <2>2, <2>3
  <2> QED
    BY <1>10, <1>12, <2>4, TypedFits
<1>14. s' = IF s.vm THEN Call([t EXCEPT !.running = TRUE], <<"start">>) ELSE t
  <2>1. u.pipe = s.pipe
    BY <1>9 DEF Only, Fields
  <2> QED
    BY <1>3, <1>6, <1>8, <1>11, <2>1 DEF Attach, ToClient
<1>15. Only(t, s, {"base", "self", "vdagent", "pipe"}) /\ t.base = TRUE /\ t.self = k
  BY <1>9, <1>12 DEF Only, Fields, Flags, Counters
<1>16. /\ t.vm = s.vm /\ t.conn = s.conn
       /\ t.running = s.running /\ t.queue = s.queue /\ t.cur = s.cur
       /\ t.retry = s.retry /\ t.client = s.client /\ t.tok = s.tok
       /\ t.free = s.free /\ t.send = s.send /\ t.busyW = s.busyW /\ t.busyR = s.busyR
       /\ t.left = s.left /\ t.calls = s.calls /\ t.accept = s.accept
       /\ t.held = s.held /\ t.msg = s.msg /\ t.bufs = s.bufs /\ t.out = s.out
  BY <1>15 DEF Only, Fields, Flags, Counters
<1>17. LinkInv(t, count.conns)
  BY <1>1, <1>15, <1>16 DEF Good, LinkInv, Under
<1>18. TokenInv(t, count.conns, NoBuf) /\ ReadBufInv(t)
  BY <1>1, <1>16 DEF Good, TokenInv, ReadBufInv, Bufs
<1>19. SelfInv(t, NoBuf)
  <2>1. Bufs(t, "server") = Bufs(s, "server") /\ Bufs(s, "server") \in Nat
    BY <1>1, <1>16, UnderType DEF Bufs
  <2>2. Is(NoBuf, "server") = 0
    BY DEF Is, NoBuf
  <2>3. k + Bufs(s, "server") + 0 = SelfTokens
    <3>1. CASE s.base
      BY <1>1, <1>7, <2>2, <3>1 DEF Good, SelfInv
    <3>2. CASE ~s.base
      BY <1>1, <1>2, <1>7, <2>1, <2>2, <3>2 DEF Good, SelfInv
    <3> QED
      BY <3>1, <3>2
  <2> QED
    BY <1>15, <2>1, <2>2, <2>3 DEF SelfInv
<1>20. ~(mode.notify /\ t.retry)
  BY <1>1, <1>16 DEF Good, WriteInv
<1>21. Typed(s') /\ Good(s', NoBuf, count.conns, Room, 0, mode.notify)
  <2>1. CASE s.vm
    BY <1>1, <1>13, <1>14, <1>16, <1>17, <1>18, <1>19, <1>20, <2>1, StartedGood
  <2>2. CASE ~s.vm
    <3>1. ~t.running
      BY <1>1, <1>16, <2>2 DEF Good, LinkInv
    <3> QED
      BY <1>1, <1>13, <1>14, <1>16, <1>17, <1>18, <1>19, <1>20, <2>2, <3>1, HaltedGood
  <2> QED
    BY <2>1, <2>2
<1>22. /\ count' \in [data : Nat, agent : Nat, mouse : Nat, plugs : Nat, conns : Nat, stops : Nat]
       /\ count'.agent = count.agent /\ count'.conns = count.conns /\ count.agent \in Nat
  <2>1. count \in [data : Nat, agent : Nat, mouse : Nat, plugs : Nat, conns : Nat, stops : Nat]
    BY DEF PortInv, TypeInv
  <2> QED
    BY <1>1, <2>1
<1>23. room' \in 0 .. Room /\ agent' \in Nat /\ agent' <= count'.agent
  BY <1>1, <1>2, <1>22
<1> QED
  BY <1>1, <1>21, <1>22, <1>23 DEF PortInv, TypeInv

\* spice_char_device_state_destroy
LEMMA DestroyEffect ==
  ASSUME NEW st, Typed(st), NEW r, r = Destroy(st)
  PROVE  /\ Typed(r)
         /\ Only(r, st, {"client", "tok", "free", "send", "queue", "cur", "base", "running",
                         "active", "retry", "self"})
         /\ r.client = FALSE /\ r.base = FALSE /\ r.running = FALSE /\ r.retry = FALSE
         /\ r.self = 0 /\ Bufs(r, "client") = 0 /\ Bufs(r, "server") = 0
         /\ st.client => r.tok = 0 /\ r.free = 0
         /\ ~st.client => r.tok = st.tok /\ r.free = st.free
<1>1. PICK t : t = ClientRemove(st)
  OBVIOUS
<1>2. /\ Typed(t) /\ Only(t, st, {"client", "tok", "free", "send", "queue", "cur"})
      /\ t.client = FALSE
      /\ st.client => t.tok = 0 /\ t.free = 0
      /\ ~st.client => t.tok = st.tok /\ t.free = st.free
  BY <1>1, RemoveEffect
<1>3. r = [t EXCEPT !.base = FALSE, !.running = FALSE, !.active = FALSE, !.retry = FALSE,
                    !.queue = <<>>, !.cur = NoBuf, !.self = 0]
  BY <1>1 DEF Destroy
<1>4. /\ Only(r, t, {"base", "running", "active", "retry", "queue", "cur", "self"})
      /\ r.base = FALSE /\ r.running = FALSE /\ r.active = FALSE /\ r.retry = FALSE
      /\ r.queue = <<>> /\ r.cur = NoBuf /\ r.self = 0
  BY <1>2, <1>3 DEF Only, Typed, Fields, Flags, Counters
<1>a. r.queue \in Seq(Origins)
  <2>1. <<>> \in Seq(Origins)
    OBVIOUS
  <2> QED
    BY <1>4, <2>1
<1>5. Typed(r)
  <2>1. /\ {"base", "running", "active", "retry"} \subseteq Flags
        /\ {"self"} \subseteq Counters
    BY DEF Flags, Counters
  <2>2. /\ Fits(r.base, "base") /\ Fits(r.running, "running")
        /\ Fits(r.active, "active") /\ Fits(r.retry, "retry")
    BY <1>4, <1>a, <2>1, FitsKinds
  <2>3. Fits(r.self, "self")
    BY <1>4, <1>a, <2>1, FitsKinds
  <2>4. Fits(r.queue, "queue")
    BY <1>4, <1>a, FitsSeqs
  <2>5. Fits(r.cur, "cur")
    BY <1>4, <1>a, FitsKinds
  <2>6. \A f \in {"base", "running", "active", "retry", "queue", "cur", "self"} : Fits(r[f], f)
    BY <2>2, <2>3, <2>4, <2>5
  <2> QED
    BY <1>2, <1>4, <2>6, TypedFits
<1>6. r.client = t.client /\ r.tok = t.tok /\ r.free = t.free
  BY <1>4 DEF Only, Fields, Flags, Counters
<1>7. Only(r, st, {"client", "tok", "free", "send", "queue", "cur", "base", "running",
                   "active", "retry", "self"})
  BY <1>2, <1>4 DEF Only
<1>8. Bufs(r, "client") = 0 /\ Bufs(r, "server") = 0
  <2>1. Count(r.queue, {"client"}) = 0 /\ Count(r.queue, {"server"}) = 0
    BY <1>4, CountShort
  <2>2. Is(r.cur, "client") = 0 /\ Is(r.cur, "server") = 0
    BY <1>4 DEF Is, NoBuf
  <2> QED
    BY <2>1, <2>2 DEF Bufs
<1> QED
  BY <1>2, <1>4, <1>5, <1>6, <1>7, <1>8

\* reds_agent_remove: the state of the device is destroyed, or reset and kept.
LEMMA DetachStep == ASSUME PortInv, Detach PROVE PortInv'
<1>1. /\ Typed(s) /\ Good(s, NoBuf, count.conns, room, agent, mode.notify)
      /\ s.calls = <<>> /\ s.busyW = 0 /\ s.busyR = 0
      /\ UNCHANGED <<mode, world>> /\ room' = Room /\ agent' = 0
  BY PortFacts DEF Detach, Quiet, Idle
<1>2. PICK t : t = [s EXCEPT !.started = FALSE, !.accept = FALSE]
  OBVIOUS
<1>3. Only(t, s, {"started", "accept"}) /\ t.started = FALSE /\ t.accept = FALSE
  BY <1>1, <1>2 DEF Only, Typed, Fields, Flags
<1>4. Typed(t)
  <2>1. {"started", "accept"} \subseteq Flags
    BY DEF Flags
  <2>2. Fits(t.started, "started") /\ Fits(t.accept, "accept")
    BY <1>3, <2>1, FitsKinds
  <2>3. \A f \in {"started", "accept"} : Fits(t[f], f)
    BY <2>2
  <2> QED
    BY <1>1, <1>3, <2>3, TypedFits
<1>5. s' = Removed(Destroy(t)) \/ s' = Call(Stop(t), <<"reset", "removed">>)
  BY <1>2 DEF Detach
<1>6. CASE s' = Removed(Destroy(t))
  <2>1. PICK d : d = Destroy(t)
    OBVIOUS
  <2>2. /\ Typed(d)
        /\ Only(d, t, {"client", "tok", "free", "send", "queue", "cur", "base", "running",
                       "active", "retry", "self"})
        /\ d.client = FALSE /\ d.base = FALSE /\ d.running = FALSE /\ d.retry = FALSE
        /\ d.self = 0 /\ Bufs(d, "client") = 0 /\ Bufs(d, "server") = 0
        /\ t.client => d.tok = 0 /\ d.free = 0
        /\ ~t.client => d.tok = t.tok /\ d.free = t.free
    BY <1>4, <2>1, DestroyEffect
  <2>3. PICK p : p = IF d.conn THEN Append(d.pipe, ToClient("DISCONNECTED", 0)) ELSE d.pipe
    OBVIOUS
  <2>4. p \in Seq(Down)
    <3>1. PICK q \in Seq(Down) : q = d.pipe
      BY <2>2 DEF Typed
    <3>2. ToClient("DISCONNECTED", 0) \in Down
      BY DEF Down, ToClient
    <3>3. Append(q, ToClient("DISCONNECTED", 0)) \in Seq(Down)
      BY <3>2
    <3> QED
      BY <2>3, <3>1, <3>3
  <2>5. s' = [d EXCEPT !.vdagent = FALSE, !.pipe = p]
    BY <1>6, <2>1, <2>3 DEF Removed
  <2>6. Only(s', d, {"vdagent", "pipe"}) /\ s'.vdagent = FALSE /\ s'.pipe = p
    BY <2>2, <2>5 DEF Only, Typed, Fields, Flags
  <2>7. Typed(s')
    <3>1. {"vdagent"} \subseteq Flags
      BY DEF Flags
    <3>2. Fits(s'.vdagent, "vdagent")
      BY <2>4, <2>6, <3>1, FitsKinds
    <3>3. Fits(s'.pipe, "pipe")
      BY <2>4, <2>6, FitsSeqs
    <3>4. \A f \in {"vdagent", "pipe"} : Fits(s'[f], f)
      BY <3>2, <3>3
    <3> QED
      BY <2>2, <2>6, <3>4, TypedFits
  <2>8. /\ s'.client = d.client /\ s'.base = d.base /\ s'.running = d.running
        /\ s'.retry = d.retry /\ s'.self = d.self /\ s'.tok = d.tok /\ s'.free = d.free
        /\ s'.queue = d.queue /\ s'.cur = d.cur
    BY <2>6 DEF Only, Fields, Flags, Counters
  <2>9. Only(s', s, {"client", "tok", "free", "send", "queue", "cur", "base", "running",
                     "active", "retry", "self", "started", "accept", "vdagent", "pipe"})
    BY <1>3, <2>2, <2>6 DEF Only
  <2>10. /\ s'.vm = s.vm /\ s'.conn = s.conn /\ s'.busyW = s.busyW /\ s'.busyR = s.busyR
         /\ s'.calls = s.calls /\ s'.held = s.held /\ s'.msg = s.msg
         /\ s'.bufs = s.bufs /\ s'.out = s.out
    BY <2>9 DEF Only, Fields, Flags, Counters
  <2>a. s'.accept = FALSE
    BY <1>3, <2>2, <2>6 DEF Only, Fields, Flags
  <2>11. LinkInv(s', count.conns)
    BY <1>1, <2>2, <2>6, <2>8, <2>10, <2>a DEF Good, LinkInv, Under
  <2>12. ReadBufInv(s')
    BY <1>1, <2>10 DEF Good, ReadBufInv
  <2>13. /\ Bufs(s', "client") = 0 /\ Bufs(s', "server") = 0
         /\ Is(NoBuf, "client") = 0 /\ Is(NoBuf, "server") = 0
    BY <2>2, <2>8 DEF Bufs, Is, NoBuf
  <2>14. SelfInv(s', NoBuf)
    BY <2>2, <2>8, <2>13 DEF SelfInv
  <2>15. TokenInv(s', count.conns, NoBuf)
    <3>1. s'.tok = 0 /\ s'.free = 0
      <4>1. t.client = s.client /\ t.tok = s.tok /\ t.free = s.free
        BY <1>3 DEF Only, Fields, Flags, Counters
      <4>2. CASE t.client
        BY <2>2, <2>8, <4>2
      <4>3. CASE ~t.client
        BY <1>1, <2>2, <2>8, <4>1, <4>3 DEF Good, TokenInv
      <4> QED
        BY <4>2, <4>3
    <3>2. ~s'.client /\ 0 < Interval
      BY <2>2, <2>8, PortConstants
    <3> QED
      BY <2>13, <3>1, <3>2 DEF TokenInv
  <2>16. ~s'.running /\ ~s'.retry
    BY <2>2, <2>8
  <2>17. Good(s', NoBuf, count.conns, Room, 0, mode.notify)
    BY <1>1, <2>7, <2>10, <2>11, <2>12, <2>14, <2>15, <2>16, HaltedGood
  <2> QED
    BY <1>1, <2>7, <2>17, PortConstants DEF PortInv, TypeInv, world
<1>7. CASE s' = Call(Stop(t), <<"reset", "removed">>)
  <2>1. PICK u : u = Stop(t)
    OBVIOUS
  <2>2. /\ Only(u, t, {"running", "active", "retry"}) /\ u.running = FALSE /\ u.active = FALSE
        /\ u.retry = FALSE
    BY <1>4, <2>1 DEF Stop, Only, Typed, Fields, Flags
  <2>3. Typed(u)
    <3>1. {"running", "active", "retry"} \subseteq Flags
      BY DEF Flags
    <3>2. /\ Fits(u.running, "running") /\ Fits(u.active, "active")
          /\ Fits(u.retry, "retry")
      BY <2>2, <3>1, FitsKinds
    <3>3. \A f \in {"running", "active", "retry"} : Fits(u[f], f)
      BY <3>2
    <3> QED
      BY <1>4, <2>2, <3>3, TypedFits
  <2>4. "reset" \in Pending /\ "removed" \in Pending
    BY DEF Pending
  <2>5. PICK c \in Seq(Pending) : c = <<"reset", "removed">>
    BY <2>4, TwoCalls
  <2>6. s' = Call(u, c)
    BY <1>7, <2>1, <2>5
  <2>7. /\ Typed(s') /\ Only(s', u, {"calls"})
        /\ \A C : Under(s', C) = Count(c, C) + Under(u, C)
    BY <2>3, <2>6, CallEffect
  <2>8. Only(s', s, {"started", "accept", "running", "active", "retry", "calls"}) /\ u.calls = <<>>
    BY <1>1, <1>3, <2>2, <2>7 DEF Only, Fields
  <2>9. \A C : Under(u, C) = 0
    BY <2>3, <2>8, UnderLess
  <2>10. ASSUME NEW C PROVE Under(s', C) = In("reset", C) + In("removed", C)
    <3>1. Count(c, C) = In("reset", C) + In("removed", C) /\ Count(c, C) \in Nat
      BY <2>4, <2>5, TwoCalls, CountType
    <3>2. Under(s', C) = Count(c, C) + 0
      BY <2>7, <2>9
    <3> QED
      BY <3>1, <3>2
  <2>11. /\ Under(s', {"accept"}) = 0 /\ Under(s', {"write_refused"}) = 0
         /\ Under(s', Reads) = 0 /\ Under(s', Writes) = 0
    BY <2>10 DEF In, Writes, Reads
  <2>12. /\ s'.vdagent = s.vdagent /\ s'.vm = s.vm /\ s'.conn = s.conn /\ s'.base = s.base
         /\ s'.queue = s.queue /\ s'.cur = s.cur
         /\ s'.self = s.self /\ s'.client = s.client /\ s'.tok = s.tok
         /\ s'.free = s.free /\ s'.send = s.send /\ s'.busyW = s.busyW /\ s'.busyR = s.busyR
         /\ s'.left = s.left
         /\ s'.held = s.held /\ s'.msg = s.msg /\ s'.bufs = s.bufs /\ s'.out = s.out
    BY <2>8 DEF Only, Fields, Flags, Counters
  <2>13. s'.running = FALSE /\ s'.retry = FALSE /\ s'.accept = FALSE
    BY <1>3, <2>2, <2>7 DEF Only, Fields, Flags
  <2>14. LinkInv(s', count.conns)
    BY <1>1, <2>11, <2>12, <2>13 DEF Good, LinkInv
  <2>15. TokenInv(s', count.conns, NoBuf) /\ SelfInv(s', NoBuf) /\ ReadBufInv(s')
    BY <1>1, <2>12 DEF Good, TokenInv, SelfInv, ReadBufInv, Bufs
  <2>16. StackInv(s')
    BY <1>1, <2>11, <2>12, <2>13 DEF StackInv, Busy
  <2>17. WriteInv(s', Room, mode.notify) /\ ReadInv(s', 0)
    BY <1>1, <2>12, <2>13 DEF WriteInv, ReadInv, CanServe
  <2>18. Good(s', NoBuf, count.conns, Room, 0, mode.notify)
    BY <2>14, <2>15, <2>16, <2>17 DEF Good
  <2> QED
    BY <1>1, <2>7, <2>18, PortConstants DEF PortInv, TypeInv, world
<1> QED
  BY <1>5, <1>6, <1>7

-----------------------------------------------------------------------------
(* Messages of the agent. *)

\* A message that nobody gets: the filter discards it.
LEMMA ReadDiscardedStep == ASSUME PortInv, ReadDiscarded PROVE PortInv'
<1>1. /\ Typed(s) /\ Good(s, NoBuf, count.conns, room, agent, mode.notify) /\ agent \in Nat
      /\ UNCHANGED <<room, mode, world>> /\ agent' = agent - 1 /\ agent > 0
      /\ s' = Call(s, Wakeup)
  BY PortFacts DEF ReadDiscarded
<1>2. agent' \in Nat /\ agent' <= agent
  BY <1>1
<1>3. /\ Typed(s') /\ Good(s', NoBuf, count.conns, room, agent, mode.notify)
      /\ Under(s', WillRead) > 0
  BY <1>1, WakeupGood
<1>4. ReadInv(s', agent')
  BY <1>3 DEF Good, ReadInv
<1>5. Good(s', NoBuf, count.conns, room, agent', mode.notify)
  BY <1>3, <1>4 DEF Good
<1>6. agent' <= count.agent
  <2>1. count.agent \in Nat /\ agent <= count.agent
    BY DEF PortInv, TypeInv
  <2> QED
    BY <1>1, <1>2, <2>1
<1> QED
  BY <1>1, <1>2, <1>3, <1>5, <1>6 DEF PortInv, TypeInv, world

\* Within the loop of spice_char_device_read_from_device.
LEMMA TopReading ==
  ASSUME NEW st, Typed(st), StackInv(st), st.calls # <<>>, Head(st.calls) = "reading"
  PROVE  /\ Under(st, WillRead) > 0 /\ Under(st, {"reset"}) = 0 /\ st.busyR > 0
<1>1. PICK y : y = Return(st)
  OBVIOUS
<1>2. \A C : "reading" \in C => Under(st, C) > 0
  BY <1>1, ReturnEffect DEF Pending
<1>3. \A C : Under(st, C) \in Nat
  BY UnderType
<1>4. Under(st, Reads) > 0 /\ Under(st, WillRead) > 0
  BY <1>2 DEF Reads, WillRead
<1>5. st.busyR > 0
  BY <1>4 DEF StackInv, Busy
<1>6. Under(st, {"reset"}) = 0
  BY <1>3, <1>5 DEF StackInv
<1> QED
  BY <1>4, <1>5, <1>6

\* A message is dropped, or pushed to the client, which may be found gone.
LEMMA ReadMessageStep == ASSUME PortInv, ReadMessage PROVE PortInv'
<1>1. /\ Typed(s) /\ Good(s, NoBuf, count.conns, room, agent, mode.notify) /\ agent \in Nat
      /\ UNCHANGED <<room, mode, peer, count>> /\ agent' = agent - 1 /\ agent > 0 /\ s.bufs > 0
      /\ s.calls # <<>> /\ Head(s.calls) = "reading" /\ (s.left > 0 \/ ~s.client)
      /\ up \in Seq(Up)
  BY PortFacts DEF ReadMessage, Reading, Top
<1>2. Under(s, WillRead) > 0 /\ s.busyR > 0
  BY <1>1, TopReading DEF Good
<1>3. agent' \in Nat /\ agent' <= agent /\ agent' <= count.agent
  <2>1. count.agent \in Nat /\ agent <= count.agent
    BY DEF PortInv, TypeInv
  <2> QED
    BY <1>1, <2>1
<1>4. PICK l \in Nat : l = OneLess(s.left)
  <2>1. s.left \in Nat /\ mode.agent \in Nat
    BY <1>1, PortFacts DEF Typed, Counters
  <2> QED
    BY <2>1 DEF OneLess
<1>5. PICK t : t = [s EXCEPT !.didR = TRUE, !.left = l]
  OBVIOUS
<1>6. Only(t, s, {"didR", "left"}) /\ t.didR = TRUE /\ t.left = l
  BY <1>1, <1>5 DEF Only, Typed, Fields, Flags, Counters
<1>7. Typed(t)
  <2>1. {"didR"} \subseteq Flags /\ {"left"} \subseteq Counters
    BY DEF Flags, Counters
  <2>2. Fits(t.didR, "didR")
    BY <1>6, <2>1, FitsKinds
  <2>3. Fits(t.left, "left")
    BY <1>6, <2>1, FitsKinds
  <2>4. \A f \in {"didR", "left"} : Fits(t[f], f)
    BY <2>2, <2>3
  <2> QED
    BY <1>1, <1>6, <2>4, TypedFits
<1>8. CASE ~s.client /\ s' = Call(t, Wakeup) /\ up' = up
  <2>1. /\ t.client = s.client /\ t.bufs = s.bufs /\ t.busyR = s.busyR /\ t.send = s.send
        /\ t.vdagent = s.vdagent /\ t.base = s.base /\ t.running = s.running /\ t.queue = s.queue
        /\ t.cur = s.cur /\ t.retry = s.retry /\ t.busyW = s.busyW /\ t.calls = s.calls
    BY <1>6 DEF Only, Fields, Flags, Counters
  <2>2. StackInv(t) /\ WriteInv(t, room, mode.notify)
    BY <1>1, <2>1 DEF Good, StackInv, WriteInv, Under, CanServe, ToWrite
  <2>3. ReadInv(t, agent')
    BY <1>8, <2>1 DEF ReadInv
  <2>4. Only(t, s, Stacked) /\ Under(t, {"accept"}) = Under(s, {"accept"})
    BY <1>6, <2>1 DEF Only, Stacked, Silent, Under
  <2>5. Good(s, NoBuf, count.conns, room, agent', mode.notify)
    <3>1. ReadInv(s, agent')
      BY <1>8 DEF ReadInv
    <3> QED
      BY <1>1, <3>1 DEF Good
  <2>6. Good(t, NoBuf, count.conns, room, agent', mode.notify)
    BY <1>1, <1>7, <2>2, <2>3, <2>4, <2>5, GoodStack
  <2>7. Typed(s') /\ Good(s', NoBuf, count.conns, room, agent', mode.notify)
    BY <1>7, <1>8, <2>6, WakeupGood
  <2> QED
    BY <1>1, <1>3, <1>8, <2>7 DEF PortInv, TypeInv
<1>9. ASSUME s.client, NEW w, w = [t EXCEPT !.send = @ - 1, !.bufs = @ - 1, !.out = @ + 1]
      PROVE  Typed(w) /\ Good(w, NoBuf, count.conns, room, agent', mode.notify)
  <2>1. t.send = s.send /\ t.bufs = s.bufs /\ t.out = s.out
    BY <1>6 DEF Only, Fields, Counters
  <2>2. s.left = s.send /\ s.left > 0 /\ s.left \in Nat /\ s.bufs \in Nat /\ s.out \in Nat
    BY <1>1, <1>2, <1>9 DEF Good, ReadInv, Typed, Counters
  <2>3. l = s.send - 1
    BY <1>4, <2>2 DEF OneLess
  <2>4. PICK a \in Nat, b \in Nat, c \in Nat : a = s.send - 1 /\ b = s.bufs - 1 /\ c = s.out + 1
    BY <1>1, <2>2, SMTT(30)
  <2>5. w = [t EXCEPT !.send = a, !.bufs = b, !.out = c]
    BY <1>9, <2>1, <2>4
  <2>6. Only(w, t, {"send", "bufs", "out"}) /\ w.send = a /\ w.bufs = b /\ w.out = c
    BY <1>7, <2>5 DEF Only, Typed, Fields, Counters
  <2>7. Typed(w)
    <3>1. {"send", "bufs", "out"} \subseteq Counters
      BY DEF Counters
    <3>2. Fits(w.send, "send") /\ Fits(w.bufs, "bufs") /\ Fits(w.out, "out")
      BY <2>6, <3>1, FitsKinds
    <3>3. \A f \in {"send", "bufs", "out"} : Fits(w[f], f)
      BY <3>2
    <3> QED
      BY <1>7, <2>6, <3>3, TypedFits
  <2>8. Only(w, s, {"didR", "left", "send", "bufs", "out"}) /\ w.left = l
    BY <1>6, <2>6 DEF Only, Fields, Counters
  <2>9. /\ w.vdagent = s.vdagent /\ w.vm = s.vm /\ w.conn = s.conn /\ w.base = s.base
        /\ w.running = s.running /\ w.queue = s.queue /\ w.cur = s.cur
        /\ w.retry = s.retry /\ w.self = s.self /\ w.client = s.client /\ w.tok = s.tok
        /\ w.free = s.free /\ w.busyW = s.busyW /\ w.busyR = s.busyR
        /\ w.calls = s.calls /\ w.accept = s.accept
        /\ w.held = s.held /\ w.msg = s.msg
    BY <2>8 DEF Only, Fields, Flags, Counters
  <2>10. LinkInv(w, count.conns)
    BY <1>1, <2>9 DEF Good, LinkInv, Under
  <2>11. TokenInv(w, count.conns, NoBuf) /\ SelfInv(w, NoBuf)
    BY <1>1, <2>9 DEF Good, TokenInv, SelfInv, Bufs
  <2>12. ReadBufInv(w)
    <3>1. s.bufs + s.out = ReadBufs
      BY <1>1 DEF Good, ReadBufInv
    <3>2. b + c = ReadBufs
      BY <2>2, <2>4, <3>1
    <3> QED
      BY <2>6, <3>2 DEF ReadBufInv
  <2>13. StackInv(w) /\ WriteInv(w, room, mode.notify)
    BY <1>1, <2>9 DEF Good, StackInv, WriteInv, Under, CanServe, ToWrite
  <2>14. ReadInv(w, agent')
    <3>1. Under(w, WillRead) > 0
      BY <1>2, <2>9 DEF Under
    <3> QED
      BY <2>3, <2>4, <2>6, <2>8, <3>1 DEF ReadInv
  <2> QED
    BY <2>7, <2>10, <2>11, <2>12, <2>13, <2>14 DEF Good
<1>10. PICK w : w = [t EXCEPT !.send = @ - 1, !.bufs = @ - 1, !.out = @ + 1]
  OBVIOUS
<1>11. CASE s.client /\ s' = w /\ up' = up
  <2>1. Typed(s') /\ Good(s', NoBuf, count.conns, room, agent', mode.notify)
    BY <1>9, <1>10, <1>11
  <2> QED
    BY <1>1, <1>3, <1>11, <2>1 DEF PortInv, TypeInv
<1>12. CASE s.client /\ s' = ClientDisconnect(w) /\ up' = <<>>
  <2>1. Typed(w) /\ Good(w, NoBuf, count.conns, room, agent', mode.notify)
    BY <1>9, <1>10, <1>12
  <2>2. Typed(s') /\ Good(s', NoBuf, count.conns, room, agent', mode.notify)
    BY <1>12, <2>1, DisconnectGood
  <2>3. up' \in Seq(Up)
    <3>1. <<>> \in Seq(Up)
      OBVIOUS
    <3> QED
      BY <1>12, <3>1
  <2> QED
    BY <1>1, <1>3, <2>2, <2>3 DEF PortInv, TypeInv
<1> QED
  BY <1>4, <1>5, <1>8, <1>10, <1>11, <1>12 DEF ReadMessage

\* vdi_port_read_buf_release: a buffer is free again.
LEMMA AgentDataSentStep == ASSUME PortInv, AgentDataSent PROVE PortInv'
<1>1. /\ Typed(s) /\ Good(s, NoBuf, count.conns, room, agent, mode.notify)
      /\ UNCHANGED <<device, up, count>> /\ s.out > 0 /\ peer' = [peer EXCEPT !.owed = @ + 1]
  BY PortFacts DEF AgentDataSent
<1>2. s.out \in Nat /\ s.bufs \in Nat
  BY <1>1 DEF Typed, Counters
<1>3. PICK a \in Nat, b \in Nat : a = s.out - 1 /\ b = s.bufs + 1
  BY <1>1, <1>2
<1>4. PICK t : t = [s EXCEPT !.out = a, !.bufs = b]
  OBVIOUS
<1>5. s' = Call(t, IF s.base THEN Wakeup ELSE <<>>)
  BY <1>3, <1>4 DEF AgentDataSent
<1>6. Only(t, s, {"out", "bufs"}) /\ t.out = a /\ t.bufs = b
  BY <1>1, <1>4 DEF Only, Typed, Fields, Counters
<1>7. Typed(t)
  <2>1. {"out", "bufs"} \subseteq Counters
    BY DEF Counters
  <2>2. Fits(t.out, "out") /\ Fits(t.bufs, "bufs")
    BY <1>6, <2>1, FitsKinds
  <2>3. \A f \in {"out", "bufs"} : Fits(t[f], f)
    BY <2>2
  <2> QED
    BY <1>1, <1>6, <2>3, TypedFits
<1>8. /\ t.vdagent = s.vdagent /\ t.vm = s.vm /\ t.conn = s.conn /\ t.base = s.base
      /\ t.running = s.running /\ t.queue = s.queue /\ t.cur = s.cur
      /\ t.retry = s.retry /\ t.self = s.self /\ t.client = s.client /\ t.tok = s.tok
      /\ t.free = s.free /\ t.send = s.send /\ t.busyW = s.busyW /\ t.busyR = s.busyR
      /\ t.left = s.left /\ t.calls = s.calls /\ t.accept = s.accept
      /\ t.held = s.held /\ t.msg = s.msg
  BY <1>6 DEF Only, Fields, Flags, Counters
<1>9. LinkInv(t, count.conns)
  BY <1>1, <1>8 DEF Good, LinkInv, Under
<1>10. TokenInv(t, count.conns, NoBuf) /\ SelfInv(t, NoBuf)
  BY <1>1, <1>8 DEF Good, TokenInv, SelfInv, Bufs
<1>11. ReadBufInv(t)
  BY <1>1, <1>2, <1>3, <1>6 DEF Good, ReadBufInv
<1>12. StackInv(t) /\ WriteInv(t, room, mode.notify)
  BY <1>1, <1>8 DEF Good, StackInv, WriteInv, Under, CanServe, ToWrite
<1>13. Typed(s') /\ Good(s', NoBuf, count.conns, room, agent, mode.notify)
  <2>1. Good(t, NoBuf, count.conns, room, 0, mode.notify)
    <3>1. ReadInv(t, 0)
      BY <1>1, <1>8 DEF Good, ReadInv
    <3> QED
      BY <1>9, <1>10, <1>11, <1>12, <3>1 DEF Good
  <2>2. CASE s.base
    <3>1. /\ Typed(s') /\ Good(s', NoBuf, count.conns, room, 0, mode.notify)
          /\ Under(s', WillRead) > 0
      BY <1>5, <1>7, <2>1, <2>2, WakeupGood
    <3>2. ReadInv(s', agent)
      BY <3>1 DEF Good, ReadInv
    <3> QED
      BY <3>1, <3>2 DEF Good
  <2>3. CASE ~s.base
    <3>1. Typed(s') /\ Good(s', NoBuf, count.conns, room, 0, mode.notify)
      BY <1>5, <1>7, <2>1, <2>3, GoodCalls
    <3>2. ~s'.client
      <4>1. ~t.client
        BY <1>1, <1>8, <2>3 DEF Good, LinkInv
      <4>2. s'.client = t.client
        <5>1. s' = [t EXCEPT !.calls = <<>> \o @]
          BY <1>5, <2>3 DEF Call
        <5> QED
          BY <1>7, <5>1 DEF Typed, Fields, Flags
      <4> QED
        BY <4>1, <4>2
    <3>3. ReadInv(s', agent)
      BY <3>2 DEF ReadInv
    <3> QED
      BY <3>1, <3>3 DEF Good
  <2> QED
    BY <2>2, <2>3
<1>14. peer' \in [tok : Nat, agent : BOOLEAN, owed : Nat]
  <2>1. peer \in [tok : Nat, agent : BOOLEAN, owed : Nat]
    BY DEF PortInv, TypeInv
  <2> QED
    BY <1>1, <2>1
<1> QED
  BY <1>1, <1>13, <1>14 DEF PortInv, TypeInv, device

-----------------------------------------------------------------------------
(* Events of the channels. *)

\* spice_assert and spice_error: the state is the one that they were met in.
LEMMA FailGood ==
  ASSUME NEW st, Typed(st), NEW what \in Faults, NEW r, r = Fail(st, what),
         NEW b, NEW n, NEW fr, NEW ag, NEW nt, Good(st, b, n, fr, ag, nt)
  PROVE  Typed(r) /\ Good(r, b, n, fr, ag, nt)
<1>1. Only(r, st, {"fault"}) /\ r.fault = what
  BY DEF Fail, Only, Typed, Fields
<1>2. Typed(r)
  <2>2. Fits(r.fault, "fault")
    BY <1>1, FitsKinds
  <2>3. \A f \in {"fault"} : Fits(r[f], f)
    BY <2>2
  <2> QED
    BY <1>1, <2>3, TypedFits
<1>3. Only(r, st, Silent)
  BY <1>1 DEF Only, Silent
<1> QED
  BY <1>2, <1>3, GoodFrame

\* The message that is being received is given up, its buffer is in hand.
LetGo(st) == [st EXCEPT !.held = 0, !.msg = "none"]

\* The message that was being received is over; its buffer is in hand.
LEMMA LetGoGood ==
  ASSUME NEW st, Typed(st), NEW r, r = LetGo(st),
         NEW n \in Nat, NEW fr, NEW ag, NEW nt, Good(st, NoBuf, n, fr, ag, nt)
  PROVE  /\ Typed(r) /\ Only(r, st, {"held", "msg"}) /\ r.msg = "none" /\ r.held = 0
         /\ st.held = 0 \/ ~st.client => Good(r, NoBuf, n, fr, ag, nt)
         /\ st.msg = "buf" /\ st.client => Good(r, "client", n, fr, ag, nt)
<1>1. Only(r, st, {"held", "msg"}) /\ r.held = 0 /\ r.msg = "none"
  BY DEF LetGo, Only, Typed, Fields, Counters
<1>2. Typed(r)
  <2>1. {"held"} \subseteq Counters
    BY DEF Counters
  <2>2. Fits(r.held, "held")
    BY <1>1, <2>1, FitsKinds
  <2>3. Fits(r.msg, "msg")
    BY <1>1, FitsKinds
  <2>4. \A f \in {"held", "msg"} : Fits(r[f], f)
    BY <2>2, <2>3
  <2> QED
    BY <1>1, <2>4, TypedFits
<1>3. /\ r.vdagent = st.vdagent /\ r.vm = st.vm /\ r.conn = st.conn /\ r.base = st.base
      /\ r.running = st.running /\ r.queue = st.queue /\ r.cur = st.cur
      /\ r.retry = st.retry /\ r.self = st.self /\ r.client = st.client /\ r.tok = st.tok
      /\ r.free = st.free /\ r.send = st.send /\ r.busyW = st.busyW /\ r.busyR = st.busyR
      /\ r.left = st.left /\ r.calls = st.calls /\ r.accept = st.accept
      /\ r.bufs = st.bufs /\ r.out = st.out
  BY <1>1 DEF Only, Fields, Flags, Counters
<1>4. LinkInv(r, n)
  BY <1>1, <1>3 DEF Good, LinkInv, Under
<1>5. StackInv(r) /\ ReadBufInv(r)
  BY <1>3 DEF Good, StackInv, ReadBufInv, Under
<1>6. WriteInv(r, fr, nt) /\ ReadInv(r, ag)
  BY <1>3 DEF Good, WriteInv, ReadInv, Under, CanServe, ToWrite
<1>7. \A o : Bufs(r, o) = Bufs(st, o) /\ Bufs(st, o) \in Nat
  BY <1>3, UnderType DEF Bufs
<1>8. /\ Is("client", "client") = 1 /\ Is("client", "server") = 0
      /\ Is(NoBuf, "client") = 0 /\ Is(NoBuf, "server") = 0
  BY DEF Is, NoBuf
<1>9. SelfInv(r, NoBuf) /\ SelfInv(r, "client")
  BY <1>3, <1>7, <1>8 DEF Good, SelfInv
<1>10. ASSUME st.held = 0 \/ ~st.client PROVE TokenInv(r, n, NoBuf)
  BY <1>1, <1>3, <1>7, <1>10 DEF Good, TokenInv
<1>11. ASSUME st.msg = "buf", st.client PROVE TokenInv(r, n, "client")
  <2>1. st.held = n /\ n # 0
    BY <1>11 DEF Good, LinkInv
  <2>2. Is(st.held, n) = 1 /\ Is(r.held, n) = 0
    BY <1>1, <2>1 DEF Is
  <2>3. st.tok \in Nat /\ st.free \in Nat
    BY DEF Typed, Counters
  <2>4. st.tok + st.free + Bufs(st, "client") + 0 + 1 = Window
    BY <1>8, <1>11, <2>2 DEF Good, TokenInv
  <2>5. st.tok + st.free + Bufs(st, "client") + 1 + 0 = Window
    BY <1>7, <2>3, <2>4
  <2>6. r.tok + r.free + Bufs(r, "client") + Is("client", "client") + Is(r.held, n) = Window
    BY <1>3, <1>7, <1>8, <2>2, <2>5
  <2> QED
    BY <1>3, <1>11, <2>6 DEF Good, TokenInv
<1> QED
  BY <1>1, <1>2, <1>4, <1>5, <1>6, <1>9, <1>10, <1>11 DEF Good

\* reds_release_agent_data_buffer
LEMMA GiveUpGood ==
  ASSUME NEW st, Typed(st), NEW r, r = ReleaseAgentDataBuffer(st),
         NEW n \in Nat, NEW fr, NEW ag, NEW nt, Good(st, NoBuf, n, fr, ag, nt)
  PROVE  Typed(r) /\ Good(r, NoBuf, n, fr, ag, nt)
<1>1. PICK d : d = LetGo(st)
  OBVIOUS
<1>2. /\ Typed(d) /\ Only(d, st, {"held", "msg"})
      /\ st.held = 0 \/ ~st.client => Good(d, NoBuf, n, fr, ag, nt)
      /\ st.msg = "buf" /\ st.client => Good(d, "client", n, fr, ag, nt)
  BY <1>1, LetGoGood
<1>3. {"buf of another message", "no dev_client"} \subseteq Faults
  BY DEF Faults
<1>4. CASE st.held = 0
  BY <1>1, <1>2, <1>4 DEF ReleaseAgentDataBuffer, LetGo
<1>5. CASE st.held # 0 /\ st.msg # "buf"
  BY <1>3, <1>5, FailGood DEF ReleaseAgentDataBuffer, LetGo
<1>6. CASE st.held # 0 /\ st.msg = "buf" /\ ~st.base
  <2>1. ~st.client
    BY <1>6 DEF Good, LinkInv
  <2> QED
    BY <1>1, <1>2, <1>6, <2>1 DEF ReleaseAgentDataBuffer, LetGo
<1>7. CASE st.held # 0 /\ st.msg = "buf" /\ st.base
  <2>1. r = WriteBufferRelease(d, "client") /\ d.client = st.client
    BY <1>1, <1>2, <1>7 DEF ReleaseAgentDataBuffer, LetGo, Only, Fields, Flags
  <2>2. CASE st.client
    <3>1. "client" \in Origins
      BY DEF Origins
    <3> QED
      BY <1>2, <1>7, <2>1, <2>2, <3>1, ReleaseGood
  <2>3. CASE ~st.client
    <3>1. r = Fail(d, "no dev_client")
      BY <2>1, <2>3 DEF WriteBufferRelease
    <3> QED
      BY <1>2, <1>3, <2>3, <3>1, FailGood
  <2> QED
    BY <2>2, <2>3
<1> QED
  BY <1>4, <1>5, <1>6, <1>7

\* The stream is closed while a message may be half received.
LEMMA ReadErrorStep == ASSUME PortInv, ReadError PROVE PortInv'
<1>1. /\ Typed(s) /\ Good(s, NoBuf, count.conns, room, agent, mode.notify) /\ count.conns \in Nat
      /\ UNCHANGED <<device, peer, count>> /\ up' = <<>>
  BY PortFacts DEF ReadError
<1>2. PICK t : t = IF s.msg = "none" THEN s ELSE ReleaseAgentDataBuffer(s)
  OBVIOUS
<1>3. Typed(t) /\ Good(t, NoBuf, count.conns, room, agent, mode.notify)
  BY <1>1, <1>2, GiveUpGood
<1>4. s' = ClientDisconnect(t) \/ s' = t
  BY <1>2 DEF ReadError
<1>5. Typed(s') /\ Good(s', NoBuf, count.conns, room, agent, mode.notify)
  BY <1>3, <1>4, DisconnectGood
<1>6. up' \in Seq(Up)
  <2>1. <<>> \in Seq(Up)
    OBVIOUS
  <2> QED
    BY <1>1, <2>1
<1> QED
  BY <1>1, <1>5, <1>6 DEF PortInv, TypeInv, device

\* The client is given up.
LEMMA WriteErrorStep == ASSUME PortInv, WriteError PROVE PortInv'
<1>1. /\ Typed(s) /\ Good(s, NoBuf, count.conns, room, agent, mode.notify)
      /\ UNCHANGED <<device, peer, count>> /\ up' = <<>> /\ s' = ClientDisconnect(s)
  BY PortFacts DEF WriteError
<1>2. Typed(s') /\ Good(s', NoBuf, count.conns, room, agent, mode.notify)
  BY <1>1, DisconnectGood
<1>3. up' \in Seq(Up)
  <2>1. <<>> \in Seq(Up)
    OBVIOUS
  <2> QED
    BY <1>1, <2>1
<1> QED
  BY <1>1, <1>2, <1>3 DEF PortInv, TypeInv, device

\* A new connection: what is left of an earlier one is told from what belongs to it.
LEMMA ConnectStep == ASSUME PortInv, Connect PROVE PortInv'
<1>1. /\ Typed(s) /\ Good(s, NoBuf, count.conns, room, agent, mode.notify) /\ count.conns \in Nat
      /\ UNCHANGED device /\ up' = <<>> /\ peer' = [tok |-> 0, agent |-> FALSE, owed |-> 0]
      /\ ~s.conn /\ count.conns < mode.conns /\ count' = [count EXCEPT !.conns = @ + 1]
  BY PortFacts DEF Connect
<1>2. PICK p : p = <<ToClient(IF s.vdagent THEN "INIT_AGENT" ELSE "INIT", Window)>>
  OBVIOUS
<1>3. p \in Seq(Down)
  <2>1. ToClient(IF s.vdagent THEN "INIT_AGENT" ELSE "INIT", Window) \in Down
    BY PortConstants DEF ToClient, Down
  <2> QED
    BY <1>2, <2>1
<1>4. s' = [s EXCEPT !.conn = TRUE, !.pipe = p]
  BY <1>2 DEF Connect
<1>5. Only(s', s, {"conn", "pipe"}) /\ s'.conn = TRUE /\ s'.pipe = p
  BY <1>1, <1>4 DEF Only, Typed, Fields, Flags
<1>6. Typed(s')
  <2>1. {"conn"} \subseteq Flags
    BY DEF Flags
  <2>2. Fits(s'.conn, "conn")
    BY <1>3, <1>5, <2>1, FitsKinds
  <2>3. Fits(s'.pipe, "pipe")
    BY <1>3, <1>5, FitsSeqs
  <2>4. \A f \in {"conn", "pipe"} : Fits(s'[f], f)
    BY <2>2, <2>3
  <2> QED
    BY <1>1, <1>5, <2>4, TypedFits
<1>7. /\ s'.vdagent = s.vdagent /\ s'.vm = s.vm /\ s'.base = s.base
      /\ s'.running = s.running /\ s'.queue = s.queue /\ s'.cur = s.cur
      /\ s'.retry = s.retry /\ s'.self = s.self /\ s'.client = s.client /\ s'.tok = s.tok
      /\ s'.free = s.free /\ s'.send = s.send /\ s'.busyW = s.busyW /\ s'.busyR = s.busyR
      /\ s'.left = s.left /\ s'.calls = s.calls /\ s'.accept = s.accept
      /\ s'.held = s.held /\ s'.msg = s.msg /\ s'.bufs = s.bufs /\ s'.out = s.out
  BY <1>5 DEF Only, Fields, Flags, Counters
<1>8. /\ count' \in [data : Nat, agent : Nat, mouse : Nat, plugs : Nat, conns : Nat, stops : Nat]
      /\ count'.agent = count.agent /\ count'.conns = count.conns + 1
  <2>1. count \in [data : Nat, agent : Nat, mouse : Nat, plugs : Nat, conns : Nat, stops : Nat]
    BY DEF PortInv, TypeInv
  <2> QED
    BY <1>1, <2>1
<1>9. count'.conns <= mode.conns
  BY <1>1, <1>8, PortFacts
<1>10. s.msg = "none" /\ ~s.client /\ s.held <= count.conns /\ s.held \in Nat
  BY <1>1 DEF Good, LinkInv, Typed, Counters
<1>11. s.held # count'.conns /\ s.held <= count'.conns /\ count'.conns > 0
  BY <1>1, <1>8, <1>10
<1>12. LinkInv(s', count'.conns)
  BY <1>1, <1>7, <1>10, <1>11 DEF Good, LinkInv, Under
<1>13. TokenInv(s', count'.conns, NoBuf)
  BY <1>1, <1>7, <1>10 DEF Good, TokenInv, Bufs
<1>14. SelfInv(s', NoBuf) /\ ReadBufInv(s')
  BY <1>1, <1>7 DEF Good, SelfInv, ReadBufInv, Bufs
<1>15. StackInv(s')
  BY <1>1, <1>7 DEF Good, StackInv, Under
<1>16. WriteInv(s', room, mode.notify) /\ ReadInv(s', agent)
  BY <1>1, <1>7 DEF Good, WriteInv, ReadInv, Under, CanServe, ToWrite
<1>17. Good(s', NoBuf, count'.conns, room, agent, mode.notify)
  BY <1>12, <1>13, <1>14, <1>15, <1>16 DEF Good
<1>18. up' \in Seq(Up) /\ peer' \in [tok : Nat, agent : BOOLEAN, owed : Nat]
  <2>1. <<>> \in Seq(Up)
    OBVIOUS
  <2> QED
    BY <1>1, <2>1
<1> QED
  BY <1>1, <1>6, <1>8, <1>9, <1>17, <1>18 DEF PortInv, TypeInv, device

\* A read is going to be tried, whatever there is to read.
LEMMA ReadCallGood ==
  ASSUME NEW st, Typed(st), NEW r, r = Call(st, <<"read">>) \/ r = Call(st, Wakeup),
         NEW b, NEW n, NEW fr, NEW nt, Good(st, b, n, fr, 0, nt), NEW ag
  PROVE  Typed(r) /\ Good(r, b, n, fr, ag, nt) /\ Only(r, st, {"calls"})
<1>1. Typed(r) /\ Good(r, b, n, fr, 0, nt) /\ Only(r, st, {"calls"}) /\ Under(r, WillRead) > 0
  <2>1. CASE r = Call(st, Wakeup)
    BY <2>1, WakeupGood
  <2>2. CASE r = Call(st, <<"read">>)
    <3>1. "read" \in Free
      BY DEF Free
    <3>2. Typed(r) /\ Good(r, b, n, fr, 0, nt)
      BY <2>2, <3>1, GoodCalls
    <3>3. <<"read">> \in Seq(Pending)
      BY DEF Pending
    <3>4. PICK c \in Seq(Pending) : c = <<"read">>
      BY <3>3
    <3>5. r = Call(st, c)
      BY <2>2, <3>4
    <3>6. Only(r, st, {"calls"}) /\ Under(r, WillRead) = Count(c, WillRead) + Under(st, WillRead)
      BY <3>5, CallEffect
    <3>7. Count(c, WillRead) = 1
      BY <3>4, CountShort DEF One, WillRead
    <3>8. Under(st, WillRead) \in Nat
      BY UnderType
    <3>9. Under(r, WillRead) > 0
      BY <3>6, <3>7, <3>8
    <3> QED
      BY <3>2, <3>6, <3>9
  <2> QED
    BY <2>1, <2>2
<1>2. ReadInv(r, ag)
  BY <1>1 DEF Good, ReadInv
<1> QED
  BY <1>1, <1>2 DEF Good

\* The tokens of the server change while no read is under way.
LEMMA SendGood ==
  ASSUME NEW st, Typed(st), st.busyR = 0, NEW k \in Nat, NEW r, r = [st EXCEPT !.send = k],
         NEW b, NEW n, NEW fr, NEW ag, NEW nt, Good(st, b, n, fr, ag, nt)
  PROVE  Typed(r) /\ Good(r, b, n, fr, 0, nt) /\ Only(r, st, {"send"}) /\ r.send = k
<1>1. Only(r, st, {"send"}) /\ r.send = k
  BY DEF Only, Typed, Fields, Counters
<1>2. Typed(r)
  <2>1. {"send"} \subseteq Counters
    BY DEF Counters
  <2>2. Fits(r.send, "send")
    BY <1>1, <2>1, FitsKinds
  <2>3. \A f \in {"send"} : Fits(r[f], f)
    BY <2>2
  <2> QED
    BY <1>1, <2>3, TypedFits
<1>3. /\ r.vdagent = st.vdagent /\ r.vm = st.vm /\ r.conn = st.conn /\ r.base = st.base
      /\ r.running = st.running /\ r.queue = st.queue /\ r.cur = st.cur
      /\ r.retry = st.retry /\ r.self = st.self /\ r.client = st.client /\ r.tok = st.tok
      /\ r.free = st.free /\ r.busyW = st.busyW /\ r.busyR = st.busyR
      /\ r.left = st.left /\ r.calls = st.calls /\ r.accept = st.accept
      /\ r.held = st.held /\ r.msg = st.msg /\ r.bufs = st.bufs /\ r.out = st.out
  BY <1>1 DEF Only, Fields, Flags, Counters
<1>4. LinkInv(r, n)
  BY <1>3 DEF Good, LinkInv, Under
<1>5. TokenInv(r, n, b) /\ SelfInv(r, b) /\ ReadBufInv(r)
  BY <1>3 DEF Good, TokenInv, SelfInv, ReadBufInv, Bufs
<1>6. StackInv(r)
  BY <1>3 DEF Good, StackInv, Under
<1>7. WriteInv(r, fr, nt)
  BY <1>3 DEF Good, WriteInv, Under, CanServe, ToWrite
<1>8. ReadInv(r, 0)
  BY <1>3 DEF ReadInv
<1> QED
  BY <1>1, <1>2, <1>4, <1>5, <1>6, <1>7, <1>8 DEF Good

\* spice_char_device_send_to_client_tokens_absorb
LEMMA AbsorbGood ==
  ASSUME NEW st, Typed(st), st.busyR = 0, NEW k \in Nat, k > 0, NEW r, r = TokensAbsorb(st, k),
         NEW b, NEW n, NEW fr, NEW ag, NEW nt, Good(st, b, n, fr, ag, nt), NEW ag2
  PROVE  Typed(r) /\ Good(r, b, n, fr, ag2, nt) /\ Only(r, st, {"send", "calls"})
<1>1. st.send \in Nat
  BY DEF Typed, Counters
<1>2. PICK m \in Nat : m = st.send + k
  BY <1>1
<1>3. PICK t : t = [st EXCEPT !.send = m]
  OBVIOUS
<1>4. Typed(t) /\ Good(t, b, n, fr, 0, nt) /\ Only(t, st, {"send"}) /\ t.send = m
  BY <1>3, SendGood
<1>5. m > 0
  BY <1>1, <1>2
<1>6. r = Call(t, <<"read">>)
  BY <1>2, <1>3, <1>4, <1>5 DEF TokensAbsorb
<1>7. Typed(r) /\ Good(r, b, n, fr, ag2, nt) /\ Only(r, t, {"calls"})
  BY <1>4, <1>6, ReadCallGood
<1>8. Only(r, st, {"send", "calls"})
  BY <1>4, <1>7 DEF Only
<1> QED
  BY <1>7, <1>8

\* The client is known to the device from now on.
Joined(st) == [st EXCEPT !.client = TRUE, !.tok = Window, !.free = 0, !.send = SendTokens]

\* Its tokens are the whole window, and what was left of an earlier connection does not count.
LEMMA JoinedGood ==
  ASSUME NEW st, Typed(st), st.busyR = 0, st.base, st.conn, ~st.client, st.msg = "none",
         NEW r, r = Joined(st),
         NEW n, NEW fr, NEW ag, NEW nt, Good(st, NoBuf, n, fr, ag, nt)
  PROVE  /\ Typed(r) /\ Good(r, NoBuf, n, fr, 0, nt)
         /\ Only(r, st, {"client", "tok", "free", "send"}) /\ r.client = TRUE
         /\ r.tok = Window
<1>0. Window \in Nat /\ SendTokens \in Nat /\ 0 < Interval
  BY PortConstants
<1>1. /\ Only(r, st, {"client", "tok", "free", "send"})
      /\ r.client = TRUE /\ r.tok = Window /\ r.free = 0 /\ r.send = SendTokens
  BY DEF Joined, Only, Typed, Fields, Flags, Counters
<1>2. Typed(r)
  <2>1. {"client"} \subseteq Flags /\ {"tok", "free", "send"} \subseteq Counters
    BY DEF Flags, Counters
  <2>2. Fits(r.client, "client")
    BY <1>0, <1>1, <2>1, FitsKinds
  <2>3. Fits(r.tok, "tok") /\ Fits(r.free, "free") /\ Fits(r.send, "send")
    BY <1>0, <1>1, <2>1, FitsKinds
  <2>4. \A f \in {"client", "tok", "free", "send"} : Fits(r[f], f)
    BY <2>2, <2>3
  <2> QED
    BY <1>1, <2>4, TypedFits
<1>3. /\ r.vdagent = st.vdagent /\ r.vm = st.vm /\ r.conn = st.conn /\ r.base = st.base
      /\ r.running = st.running /\ r.queue = st.queue /\ r.cur = st.cur
      /\ r.retry = st.retry /\ r.self = st.self
      /\ r.busyW = st.busyW /\ r.busyR = st.busyR
      /\ r.left = st.left /\ r.calls = st.calls /\ r.accept = st.accept
      /\ r.held = st.held /\ r.msg = st.msg /\ r.bufs = st.bufs /\ r.out = st.out
  BY <1>1 DEF Only, Fields, Flags, Counters
<1>4. LinkInv(r, n)
  <2>1. r.base /\ r.conn /\ r.msg = "none"
    BY <1>3
  <2> QED
    BY <1>3, <2>1 DEF Good, LinkInv, Under
<1>5. TokenInv(r, n, NoBuf)
  <2>1. Bufs(st, "client") = 0
    <3>1. Bufs(st, "client") \in Nat /\ Is(NoBuf, "client") = 0
      BY UnderType DEF Is, NoBuf
    <3> QED
      BY <3>1 DEF Good, TokenInv
  <2>2. Bufs(r, "client") = 0 /\ Is(NoBuf, "client") = 0
    BY <1>3, <2>1 DEF Bufs, Is, NoBuf
  <2>3. st.held # n
    BY DEF Good, LinkInv
  <2>4. Is(r.held, n) = 0
    BY <1>3, <2>3 DEF Is
  <2>5. r.tok + r.free + Bufs(r, "client") + Is(NoBuf, "client") + Is(r.held, n) = Window
    BY <1>0, <1>1, <2>2, <2>4
  <2> QED
    BY <1>0, <1>1, <2>5 DEF TokenInv
<1>6. SelfInv(r, NoBuf) /\ ReadBufInv(r)
  BY <1>3 DEF Good, SelfInv, ReadBufInv, Bufs
<1>7. StackInv(r)
  BY <1>3 DEF Good, StackInv, Under
<1>8. WriteInv(r, fr, nt)
  BY <1>3 DEF Good, WriteInv, Under, CanServe, ToWrite
<1>9. ReadInv(r, 0)
  BY <1>3 DEF ReadInv
<1> QED
  BY <1>1, <1>2, <1>4, <1>5, <1>6, <1>7, <1>8, <1>9 DEF Good

\* reds_on_main_agent_start goes on after the calls that it makes.
Starting(st) == Call([st EXCEPT !.started = TRUE], <<"accept">>)

\* The rest of it waits for the calls.
LEMMA StartingGood ==
  ASSUME NEW st, Typed(st), st.msg = "none", NEW r, r = Starting(st),
         NEW b, NEW n, NEW fr, NEW ag, NEW nt, Good(st, b, n, fr, ag, nt)
  PROVE  Typed(r) /\ Good(r, b, n, fr, ag, nt) /\ Only(r, st, {"started", "calls"})
<1>1. PICK t : t = [st EXCEPT !.started = TRUE]
  OBVIOUS
<1>2. Only(t, st, {"started"}) /\ t.started = TRUE
  BY <1>1 DEF Only, Typed, Fields, Flags
<1>3. Typed(t)
  <2>1. {"started"} \subseteq Flags
    BY DEF Flags
  <2>2. Fits(t.started, "started")
    BY <1>2, <2>1, FitsKinds
  <2>3. \A f \in {"started"} : Fits(t[f], f)
    BY <2>2
  <2> QED
    BY <1>2, <2>3, TypedFits
<1>4. <<"accept">> \in Seq(Pending)
  BY DEF Pending
<1>5. PICK c \in Seq(Pending) : c = <<"accept">>
  BY <1>4
<1>6. \A C : Count(c, C) = In("accept", C)
  <2>1. ASSUME NEW C PROVE Count(<<"accept">>, C) = In("accept", C)
    BY CountShort DEF One, In
  <2> QED
    BY <1>5, <2>1
<1>7. r = Call(t, c)
  BY <1>1, <1>5 DEF Starting
<1>8. /\ Typed(r) /\ Only(r, t, {"calls"})
      /\ \A C : Under(r, C) = Count(c, C) + Under(t, C)
  BY <1>3, <1>7, CallEffect
<1>9. \A C : Under(st, C) \in Nat /\ Under(t, C) = Under(st, C)
  BY <1>2, UnderType DEF Only, Fields, Under
<1>10. /\ Under(r, {"reset"}) = Under(st, {"reset"})
       /\ Under(r, {"write_refused"}) = Under(st, {"write_refused"})
       /\ Under(r, Reads) = Under(st, Reads) /\ Under(r, Writes) = Under(st, Writes)
       /\ Under(r, WillRead) = Under(st, WillRead) /\ Under(r, WillWrite) = Under(st, WillWrite)
  BY <1>6, <1>8, <1>9 DEF In, Writes, Reads, WillRead, WillWrite
<1>11. Only(r, st, {"started", "calls"})
  BY <1>2, <1>8 DEF Only, Fields
<1>12. /\ r.vdagent = st.vdagent /\ r.vm = st.vm /\ r.conn = st.conn /\ r.base = st.base
       /\ r.running = st.running /\ r.queue = st.queue /\ r.cur = st.cur
       /\ r.retry = st.retry /\ r.self = st.self /\ r.client = st.client /\ r.tok = st.tok
       /\ r.free = st.free /\ r.send = st.send /\ r.busyW = st.busyW /\ r.busyR = st.busyR
       /\ r.left = st.left /\ r.accept = st.accept
       /\ r.held = st.held /\ r.msg = st.msg /\ r.bufs = st.bufs /\ r.out = st.out
  BY <1>11 DEF Only, Fields, Flags, Counters
<1>13. LinkInv(r, n)
  BY <1>12 DEF Good, LinkInv
<1>14. TokenInv(r, n, b) /\ SelfInv(r, b) /\ ReadBufInv(r)
  BY <1>12 DEF Good, TokenInv, SelfInv, ReadBufInv, Bufs
<1>15. StackInv(r)
  BY <1>10, <1>12 DEF Good, StackInv
<1>16. WriteInv(r, fr, nt) /\ ReadInv(r, ag)
  BY <1>10, <1>12 DEF Good, WriteInv, ReadInv, CanServe, ToWrite
<1> QED
  BY <1>8, <1>11, <1>13, <1>14, <1>15, <1>16 DEF Good

\* reds_on_main_agent_start: the client is added, or its tokens start anew.
LEMMA OnAgentStartStep == ASSUME PortInv, OnAgentStart PROVE PortInv'
<1>1. /\ Typed(s) /\ Good(s, NoBuf, count.conns, room, agent, mode.notify)
      /\ s.calls = <<>> /\ s.busyR = 0 /\ s.conn /\ s.msg = "none" /\ up \in Seq(Up) /\ up # <<>>
      /\ UNCHANGED <<device, peer, count>> /\ up' = Tail(up)
  BY PortFacts DEF OnAgentStart, Quiet, Idle, Received
<1>2. up' \in Seq(Up)
  BY <1>1
<1>3. PICK t : t = Starting(s)
  OBVIOUS
<1>4. /\ Typed(t) /\ Good(t, NoBuf, count.conns, room, agent, mode.notify)
      /\ Only(t, s, {"started", "calls"})
  BY <1>1, <1>3, StartingGood
<1>5. /\ t.busyR = 0 /\ t.base = s.base /\ t.conn = s.conn /\ t.client = s.client
      /\ t.msg = "none"
  BY <1>1, <1>4 DEF Only, Fields, Flags
<1>6. CASE ~s.vdagent
  <2>1. s' = s
    BY <1>6 DEF OnAgentStart
  <2> QED
    BY <1>1, <1>2, <2>1 DEF PortInv, TypeInv, device
<1>7. CASE s.vdagent /\ s.client
  <2>1. PICK u : u = [t EXCEPT !.send = 0]
    OBVIOUS
  <2>2. /\ Typed(u) /\ Good(u, NoBuf, count.conns, room, 0, mode.notify)
        /\ Only(u, t, {"send"})
    BY <1>4, <1>5, <2>1, SendGood
  <2>3. u.busyR = 0
    BY <1>5, <2>2 DEF Only, Fields
  <2>4. s' = TokensAbsorb(u, SendTokens)
    BY <1>3, <1>7, <2>1 DEF OnAgentStart, Starting
  <2>5. Typed(s') /\ Good(s', NoBuf, count.conns, room, agent, mode.notify)
    BY <2>2, <2>3, <2>4, PortConstants, AbsorbGood
  <2> QED
    BY <1>1, <1>2, <2>5 DEF PortInv, TypeInv, device
<1>8. CASE s.vdagent /\ ~s.client
  <2>1. PICK u : u = Joined(t)
    OBVIOUS
  <2>2. t.base /\ t.conn /\ ~t.client
    BY <1>1, <1>5, <1>8 DEF Good, LinkInv
  <2>3. Typed(u) /\ Good(u, NoBuf, count.conns, room, 0, mode.notify)
    BY <1>4, <1>5, <2>1, <2>2, JoinedGood
  <2>4. s' = Call(u, Wakeup)
    BY <1>3, <1>8, <2>1 DEF OnAgentStart, Starting, Joined, ClientAdd
  <2>5. Typed(s') /\ Good(s', NoBuf, count.conns, room, agent, mode.notify)
    BY <2>3, <2>4, ReadCallGood
  <2> QED
    BY <1>1, <1>2, <2>5 DEF PortInv, TypeInv, device
<1> QED
  BY <1>6, <1>7, <1>8

-----------------------------------------------------------------------------
(* Messages of the client. *)

\* reds_on_main_agent_tokens
LEMMA OnAgentTokensStep == ASSUME PortInv, OnAgentTokens PROVE PortInv'
<1>1. /\ Typed(s) /\ Good(s, NoBuf, count.conns, room, agent, mode.notify)
      /\ s.calls = <<>> /\ s.busyR = 0 /\ up \in Seq(Up) /\ up # <<>>
      /\ UNCHANGED <<device, peer, count>> /\ up' = Tail(up)
  BY PortFacts DEF OnAgentTokens, Quiet, Idle, Received
<1>2. up' \in Seq(Up)
  BY <1>1
<1>3. Typed(s') /\ Good(s', NoBuf, count.conns, room, agent, mode.notify)
  <2>1. CASE ~s.vdagent
    BY <1>1, <2>1 DEF OnAgentTokens
  <2>2. CASE s.vdagent /\ ~s.client
    <3>1. s' = Fail(s, "client wasn't found") /\ "client wasn't found" \in Faults
      BY <2>2 DEF OnAgentTokens, Faults
    <3> QED
      BY <1>1, <3>1, FailGood
  <2>3. CASE s.vdagent /\ s.client
    <3>1. s' = TokensAbsorb(s, 1) /\ 1 \in Nat /\ 1 > 0
      BY <2>3 DEF OnAgentTokens
    <3> QED
      BY <1>1, <3>1, AbsorbGood
  <2> QED
    BY <2>1, <2>2, <2>3
<1> QED
  BY <1>1, <1>2, <1>3 DEF PortInv, TypeInv, device

\* A message begins to arrive: with a buffer of the device, which costs a token, or without.
Arriving(st, k, h, m) == [st EXCEPT !.tok = k, !.held = h, !.msg = m]

\* The token that is paid is the one of the buffer.
LEMMA ArrivingGood ==
  ASSUME NEW st, Typed(st), st.calls = <<>>, st.conn, st.msg = "none",
         NEW k \in Nat, NEW h \in Nat, NEW m \in {"malloc", "buf"}, NEW r, r = Arriving(st, k, h, m),
         NEW n \in Nat, NEW fr, NEW ag, NEW nt, Good(st, NoBuf, n, fr, ag, nt),
         \/ m = "malloc" /\ k = st.tok /\ h = st.held
         \/ m = "buf" /\ st.client /\ st.tok = k + 1 /\ h = n
  PROVE  Typed(r) /\ Good(r, NoBuf, n, fr, ag, nt)
<1>1. Only(r, st, {"tok", "held", "msg"}) /\ r.tok = k /\ r.held = h /\ r.msg = m
  BY DEF Arriving, Only, Typed, Fields, Counters
<1>2. Typed(r)
  <2>1. {"tok", "held"} \subseteq Counters
    BY DEF Counters
  <2>2. Fits(r.tok, "tok") /\ Fits(r.held, "held")
    BY <1>1, <2>1, FitsKinds
  <2>3. Fits(r.msg, "msg")
    BY <1>1, FitsKinds
  <2>4. \A f \in {"tok", "held", "msg"} : Fits(r[f], f)
    BY <2>2, <2>3
  <2> QED
    BY <1>1, <2>4, TypedFits
<1>3. /\ r.vdagent = st.vdagent /\ r.vm = st.vm /\ r.conn = st.conn /\ r.base = st.base
      /\ r.running = st.running /\ r.queue = st.queue /\ r.cur = st.cur
      /\ r.retry = st.retry /\ r.self = st.self /\ r.client = st.client
      /\ r.free = st.free /\ r.send = st.send /\ r.busyW = st.busyW /\ r.busyR = st.busyR
      /\ r.left = st.left /\ r.calls = st.calls /\ r.accept = st.accept
      /\ r.bufs = st.bufs /\ r.out = st.out
  BY <1>1 DEF Only, Fields, Flags, Counters
<1>4. Under(r, {"accept"}) = 0
  BY <1>2, <1>3, UnderLess
<1>5. st.held # n
  BY DEF Good, LinkInv
<1>6. LinkInv(r, n)
  <2>1. CASE m = "malloc"
    BY <1>1, <1>3, <1>4, <1>5, <2>1 DEF Good, LinkInv
  <2>2. CASE m = "buf"
    BY <1>1, <1>3, <1>4, <2>2 DEF Good, LinkInv
  <2> QED
    BY <2>1, <2>2
<1>7. TokenInv(r, n, NoBuf)
  <2>1. CASE m = "malloc"
    BY <1>1, <1>3, <2>1 DEF Good, TokenInv, Bufs
  <2>2. CASE m = "buf"
    <3>1. Is(st.held, n) = 0 /\ Is(r.held, n) = 1
      BY <1>1, <1>5, <2>2 DEF Is
    <3>2. PICK q \in Nat : q = Bufs(st, "client")
      BY UnderType
    <3>3. Bufs(r, "client") = q /\ Is(NoBuf, "client") = 0
      BY <1>3, <3>2 DEF Bufs, Is, NoBuf
    <3>4. PICK f \in Nat : f = st.free
      BY DEF Typed, Counters
    <3>5. st.client /\ st.tok = k + 1 /\ h = n
      BY <2>2
    <3>6. (k + 1) + f + q + 0 + 0 = Window
      BY <3>1, <3>2, <3>3, <3>4, <3>5 DEF Good, TokenInv
    <3>7. k + f + q + 0 + 1 = Window /\ Window \in Nat
      BY <3>6, PortConstants
    <3>8. r.client /\ r.free = f /\ f < Interval
      BY <1>3, <3>4, <3>5 DEF Good, TokenInv
    <3> QED
      BY <1>1, <3>1, <3>3, <3>7, <3>8 DEF TokenInv
  <2> QED
    BY <2>1, <2>2
<1>8. SelfInv(r, NoBuf) /\ ReadBufInv(r)
  BY <1>3 DEF Good, SelfInv, ReadBufInv, Bufs
<1>9. StackInv(r)
  BY <1>3 DEF Good, StackInv, Under
<1>10. WriteInv(r, fr, nt) /\ ReadInv(r, ag)
  BY <1>3 DEF Good, WriteInv, ReadInv, Under, CanServe, ToWrite
<1> QED
  BY <1>2, <1>6, <1>7, <1>8, <1>9, <1>10 DEF Good

\* reds_get_agent_data_buffer
LEMMA GetAgentDataBufferStep == ASSUME PortInv, GetAgentDataBuffer PROVE PortInv'
<1>1. /\ Typed(s) /\ Good(s, NoBuf, count.conns, room, agent, mode.notify)
      /\ s.calls = <<>> /\ s.msg = "none" /\ s.conn /\ count.conns \in Nat
      /\ UNCHANGED <<device, world>>
  BY PortFacts DEF GetAgentDataBuffer, Quiet, Idle, Received
<1>2. s.tok \in Nat /\ s.held \in Nat /\ DOMAIN s = Fields
  BY <1>1 DEF Typed, Counters
<1>3. Typed(s') /\ Good(s', NoBuf, count.conns, room, agent, mode.notify)
  <2>1. CASE ~s.started
    <3>1. s' = [s EXCEPT !.msg = "malloc"]
      BY <2>1 DEF GetAgentDataBuffer
    <3>2. s' = Arriving(s, s.tok, s.held, "malloc")
      BY <1>2, <3>1 DEF Arriving, Fields, Counters
    <3> QED
      BY <1>1, <1>2, <3>2, ArrivingGood
  <2>2. CASE s.started /\ s.held # 0
    <3>1. s' = Fail(s, "recv_from_client_buf") /\ "recv_from_client_buf" \in Faults
      BY <2>2 DEF GetAgentDataBuffer, Faults
    <3> QED
      BY <1>1, <3>1, FailGood
  <2>3. CASE s.started /\ s.held = 0 /\ (~s.client \/ s.tok = 0)
    <3>1. s' = Fail(s, "token violation") /\ "token violation" \in Faults
      BY <2>3 DEF GetAgentDataBuffer, ClientBufferGet, Faults
    <3> QED
      BY <1>1, <3>1, FailGood
  <2>4. CASE s.started /\ s.held = 0 /\ s.client /\ s.tok # 0
    <3>1. PICK k \in Nat : s.tok = k + 1
      <4>1. s.tok - 1 \in Nat /\ s.tok = (s.tok - 1) + 1
        BY <1>2, <2>4
      <4> QED
        BY <4>1
    <3>2. s' = [s EXCEPT !.tok = @ - 1, !.held = count.conns, !.msg = "buf"]
      BY <2>4 DEF GetAgentDataBuffer, ClientBufferGet
    <3>3. s.tok - 1 = k
      BY <3>1
    <3>4. s' = Arriving(s, k, count.conns, "buf")
      BY <3>2, <3>3 DEF Arriving
    <3> QED
      BY <1>1, <2>4, <3>1, <3>4, ArrivingGood
  <2> QED
    BY <2>1, <2>2, <2>3, <2>4
<1> QED
  BY <1>1, <1>3, ServerStep

\* reds_on_main_agent_data
LEMMA OnAgentDataStep == ASSUME PortInv, OnAgentData PROVE PortInv'
<1>1. /\ Typed(s) /\ Good(s, NoBuf, count.conns, room, agent, mode.notify) /\ count.conns \in Nat
      /\ UNCHANGED <<device, peer, count>> /\ up' = Tail(up)
  BY PortFacts DEF OnAgentData
<1>2. Typed(s') /\ Good(s', NoBuf, count.conns, room, agent, mode.notify)
  <2>1. CASE ~s.accept
    BY <1>1, <2>1, GiveUpGood DEF OnAgentData
  <2>2. CASE s.accept /\ (s.held = 0 \/ s.msg # "buf")
    <3>1. s' = Fail(s, "message is not the buffer") /\ "message is not the buffer" \in Faults
      BY <2>2 DEF OnAgentData, Faults
    <3> QED
      BY <1>1, <3>1, FailGood
  <2>3. CASE s.accept /\ s.held # 0 /\ s.msg = "buf"
    <3>1. PICK t : t = LetGo(s)
      OBVIOUS
    <3>2. s' = WriteBufferAdd(t, "client")
      BY <2>3, <3>1 DEF OnAgentData, LetGo
    <3>3. s.client
      BY <1>1, <2>3 DEF Good, LinkInv
    <3>4. Typed(t) /\ Good(t, "client", count.conns, room, agent, mode.notify)
      BY <1>1, <2>3, <3>1, <3>3, LetGoGood
    <3>5. "client" \in Origins
      BY DEF Origins
    <3> QED
      BY <3>2, <3>4, <3>5, AddGood
  <2> QED
    BY <2>1, <2>2, <2>3
<1>3. up' \in Seq(Up)
  <2>1. up \in Seq(Up) /\ up # <<>>
    BY PortFacts DEF OnAgentData
  <2> QED
    BY <1>1, <2>1
<1> QED
  BY <1>1, <1>2, <1>3 DEF PortInv, TypeInv, device

\* A mouse event, in the client mouse mode.
LEMMA MouseEventStep == ASSUME PortInv, MouseEvent PROVE PortInv'
<1>1. /\ Typed(s) /\ Good(s, NoBuf, count.conns, room, agent, mode.notify)
      /\ UNCHANGED <<device, up, peer>> /\ count' = [count EXCEPT !.mouse = @ + 1]
      /\ s' = AgentMouseEvent(s)
  BY PortFacts DEF MouseEvent
<1>2. Typed(s') /\ Good(s', NoBuf, count.conns, room, agent, mode.notify)
  BY <1>1, MouseGood
<1>3. /\ count' \in [data : Nat, agent : Nat, mouse : Nat, plugs : Nat, conns : Nat, stops : Nat]
      /\ count'.agent = count.agent /\ count'.conns = count.conns
  <2>1. count \in [data : Nat, agent : Nat, mouse : Nat, plugs : Nat, conns : Nat, stops : Nat]
    BY DEF PortInv, TypeInv
  <2> QED
    BY <1>1, <2>1
<1> QED
  BY <1>1, <1>2, <1>3 DEF PortInv, TypeInv, device

-----------------------------------------------------------------------------
(* The client. *)

\* The client takes the first message of the pipe.
LEMMA PeerReceivesStep == ASSUME PortInv, PeerReceives PROVE PortInv'
<1>1. /\ Typed(s) /\ Good(s, NoBuf, count.conns, room, agent, mode.notify) /\ up \in Seq(Up)
      /\ UNCHANGED <<device, count>> /\ s.pipe # <<>> /\ s' = [s EXCEPT !.pipe = Tail(@)]
  BY PortFacts DEF PeerReceives
<1>2. PICK p \in Seq(Down) : p = s.pipe
  BY <1>1 DEF Typed
<1>3. Tail(p) \in Seq(Down) /\ Head(p) \in Down
  BY <1>1, <1>2
<1>4. Only(s', s, {"pipe"}) /\ s'.pipe = Tail(p)
  BY <1>1, <1>2 DEF Only, Typed, Fields
<1>5. Typed(s')
  <2>2. Fits(s'.pipe, "pipe")
    BY <1>3, <1>4, FitsSeqs
  <2>3. \A f \in {"pipe"} : Fits(s'[f], f)
    BY <2>2
  <2> QED
    BY <1>1, <1>4, <2>3, TypedFits
<1>6. Good(s', NoBuf, count.conns, room, agent, mode.notify)
  <2>1. Only(s', s, Silent)
    BY <1>4 DEF Only, Silent
  <2> QED
    BY <1>1, <2>1, GoodFrame
<1>7. up' \in Seq(Up)
  <2>1. up' = Append(up, "START") \/ up' = up
    BY DEF PeerReceives
  <2>2. "START" \in Up
    BY DEF Up
  <2>3. Append(up, "START") \in Seq(Up)
    BY <1>1, <2>2
  <2> QED
    BY <1>1, <2>1, <2>3
<1>8. peer' \in [tok : Nat, agent : BOOLEAN, owed : Nat]
  <2>1. peer \in [tok : Nat, agent : BOOLEAN, owed : Nat]
    BY DEF PortInv, TypeInv
  <2>2. Head(p).n \in Nat
    BY <1>3 DEF Down
  <2>3. PICK k \in Nat, g \in BOOLEAN : peer' = [peer EXCEPT !.agent = g, !.tok = k]
    <3>1. PICK h : h = Head(p)
      OBVIOUS
    <3>2. PICK g : g = (peer.agent \/ h.type \in {"INIT_AGENT", "CONNECTED"})
      OBVIOUS
    <3>3. PICK k : k = CASE h.type \in {"INIT", "INIT_AGENT"} -> h.n
                         [] h.type = "CONNECTED" /\ mode.caps -> h.n
                         [] h.type = "TOKEN" -> peer.tok + h.n
                         [] OTHER -> peer.tok
      OBVIOUS
    <3>4. g \in BOOLEAN
      BY <2>1, <3>2
    <3>5. peer.tok \in Nat /\ h.n \in Nat
      BY <2>1, <2>2, <3>1
    <3>6. k \in Nat
      <4>1. k = h.n \/ k = peer.tok + h.n \/ k = peer.tok
        BY <3>3
      <4> QED
        BY <3>5, <4>1
    <3>7. peer' = [peer EXCEPT !.agent = g, !.tok = k]
      BY <1>2, <3>1, <3>2, <3>3 DEF PeerReceives
    <3> QED
      BY <3>4, <3>6, <3>7
  <2> QED
    BY <2>1, <2>3
<1> QED
  BY <1>1, <1>5, <1>6, <1>7, <1>8 DEF PortInv, TypeInv, device

\* The client sends a message.
LEMMA PeerSendsStep == ASSUME PortInv, PeerSends PROVE PortInv'
<1>1. /\ peer \in [tok : Nat, agent : BOOLEAN, owed : Nat] /\ up \in Seq(Up)
      /\ count \in [data : Nat, agent : Nat, mouse : Nat, plugs : Nat, conns : Nat, stops : Nat]
  BY DEF PortInv, TypeInv
<1>2. /\ UNCHANGED <<s, device>> /\ peer.tok > 0 /\ peer' = [peer EXCEPT !.tok = @ - 1]
      /\ count' = [count EXCEPT !.data = @ + 1] /\ up' = Append(up, "DATA") /\ "DATA" \in Up
  BY DEF PeerSends, Up
<1>3. peer' \in [tok : Nat, agent : BOOLEAN, owed : Nat] /\ up' \in Seq(Up)
  <2>1. peer.tok - 1 \in Nat
    BY <1>1, <1>2
  <2>2. peer' \in [tok : Nat, agent : BOOLEAN, owed : Nat]
    BY <1>1, <1>2, <2>1
  <2>3. Append(up, "DATA") \in Seq(Up)
    BY <1>1, <1>2
  <2> QED
    BY <1>2, <2>2, <2>3
<1>4. /\ count' \in [data : Nat, agent : Nat, mouse : Nat, plugs : Nat, conns : Nat, stops : Nat]
      /\ count'.agent = count.agent /\ count'.conns = count.conns
  <2>1. count' = [count EXCEPT !.data = @ + 1]
    BY <1>2
  <2> QED
    BY <1>1, <2>1
<1> QED
  BY <1>2, <1>3, <1>4 DEF PortInv, TypeInv, device

\* The client gives a token back.
LEMMA PeerReturnsTokenStep == ASSUME PortInv, PeerReturnsToken PROVE PortInv'
<1>1. peer \in [tok : Nat, agent : BOOLEAN, owed : Nat] /\ up \in Seq(Up)
  BY DEF PortInv, TypeInv
<1>2. /\ UNCHANGED <<s, device, count>> /\ peer.owed > 0 /\ peer' = [peer EXCEPT !.owed = @ - 1]
      /\ up' = Append(up, "TOKEN") /\ "TOKEN" \in Up
  BY DEF PeerReturnsToken, Up
<1>3. peer' \in [tok : Nat, agent : BOOLEAN, owed : Nat] /\ up' \in Seq(Up)
  <2>1. peer.owed - 1 \in Nat
    BY <1>1, <1>2
  <2>2. peer' \in [tok : Nat, agent : BOOLEAN, owed : Nat]
    BY <1>1, <1>2, <2>1
  <2>3. Append(up, "TOKEN") \in Seq(Up)
    BY <1>1, <1>2
  <2> QED
    BY <1>2, <2>2, <2>3
<1> QED
  BY <1>2, <1>3 DEF PortInv, TypeInv, device

-----------------------------------------------------------------------------
(* The invariant. *)

\* No agent, no client, nothing to write or to read.
LEMMA InitPort == Init => PortInv
<1> SUFFICES ASSUME Init PROVE PortInv
  OBVIOUS
<1>1. /\ room = Room /\ agent = 0 /\ up = <<>> /\ mode \in Modes
      /\ peer = [tok |-> 0, agent |-> FALSE, owed |-> 0]
      /\ count = [data |-> 0, agent |-> 0, mouse |-> 0, plugs |-> 0, conns |-> 0, stops |-> 0]
  BY DEF Init
<1>2. /\ DOMAIN s = Fields
      /\ ~s.vdagent /\ ~s.conn /\ ~s.base /\ ~s.running /\ ~s.active /\ ~s.retry
      /\ ~s.client /\ ~s.didW /\ ~s.didR /\ ~s.got /\ ~s.started /\ ~s.accept /\ ~s.mouse
      /\ s.vm
  BY DEF Init, Fields, Flags, Counters
<1>3. /\ s.queue = <<>> /\ s.cur = NoBuf /\ s.self = 0 /\ s.tok = 0 /\ s.free = 0 /\ s.send = 0
      /\ s.busyW = 0 /\ s.busyR = 0 /\ s.left = 0 /\ s.calls = <<>> /\ s.held = 0
      /\ s.msg = "none" /\ s.bufs = ReadBufs /\ s.out = 0 /\ s.pipe = <<>> /\ s.fault = "none"
  BY DEF Init
<1>4. \A f \in Flags : s[f] \in BOOLEAN
  <2>1. /\ s.vdagent \in BOOLEAN /\ s.vm \in BOOLEAN /\ s.conn \in BOOLEAN /\ s.base \in BOOLEAN
        /\ s.running \in BOOLEAN /\ s.active \in BOOLEAN /\ s.retry \in BOOLEAN
    BY DEF Init
  <2>2. /\ s.client \in BOOLEAN /\ s.didW \in BOOLEAN /\ s.didR \in BOOLEAN /\ s.got \in BOOLEAN
        /\ s.started \in BOOLEAN /\ s.accept \in BOOLEAN /\ s.mouse \in BOOLEAN
    BY DEF Init
  <2> QED
    BY <2>1, <2>2 DEF Flags
<1>5. \A f \in Counters : s[f] \in Nat
  BY <1>3, PortConstants DEF Counters
<1>6. Typed(s)
  <2>1. <<>> \in Seq(Origins) /\ <<>> \in Seq(Pending) /\ <<>> \in Seq(Down)
    OBVIOUS
  <2> QED
    BY <1>2, <1>3, <1>4, <1>5, <2>1 DEF Typed, Faults
<1>7. TypeInv
  <2>1. <<>> \in Seq(Up)
    OBVIOUS
  <2>2. mode.agent \in Nat /\ mode.conns \in Nat
    BY <1>1, PortAssumption DEF Mode
  <2> QED
    BY <1>1, <1>6, <2>1, <2>2, PortConstants DEF TypeInv
<1>8. \A C : Under(s, C) = 0
  BY <1>3, <1>6, UnderLess
<1>9. \A o \in {"client", "server"} : Bufs(s, o) = 0 /\ Is(NoBuf, o) = 0
  <2>1. ASSUME NEW o \in {"client", "server"} PROVE Count(s.queue, {o}) = 0 /\ Is(NoBuf, o) = 0
    BY <1>3, CountShort DEF Is, NoBuf
  <2>2. Is(s.cur, "client") = 0 /\ Is(s.cur, "server") = 0
    BY <1>3 DEF Is, NoBuf
  <2>3. Bufs(s, "client") = 0 /\ Bufs(s, "server") = 0
    BY <2>1, <2>2 DEF Bufs
  <2> QED
    BY <2>1, <2>3
<1>10. LinkInv(s, 0)
  BY <1>2, <1>3, <1>8 DEF LinkInv
<1>11. TokenInv(s, 0, NoBuf) /\ SelfInv(s, NoBuf) /\ ReadBufInv(s)
  BY <1>2, <1>3, <1>9, PortConstants DEF TokenInv, SelfInv, ReadBufInv
<1>12. StackInv(s)
  BY <1>3, <1>8 DEF StackInv, Busy
<1>13. WriteInv(s, room, mode.notify) /\ ReadInv(s, agent)
  BY <1>2, <1>3 DEF WriteInv, ReadInv, CanServe
<1>14. count.conns = 0
  BY <1>1
<1> QED
  BY <1>7, <1>10, <1>11, <1>12, <1>13, <1>14 DEF PortInv, Good

\* The invariant is inductive.
LEMMA NextPort == ASSUME PortInv, [Next]_vars PROVE PortInv'
<1>1. CASE Server
  BY <1>1, CallWriteStep, WriteNothingLeftStep, WriteBufferStep, WriteRefusedStep, WriteBlockedStep,
     CallReadStep, ReadDiscardedStep, ReadMessageStep, ReadFailsStep, ReadNullStep, ReadNoMoreStep,
     StartLoopStep, ResetQueueStep, ResetCurrentStep, AgentRemovedStep, GoodbyeStep, AcceptStep
     DEF Server
<1>2. CASE Device
  BY <1>2, GuestReadsStep, GuestWritesStep, WriteRetryStep, AttachStep, DetachStep, VmStopStep,
     VmStartStep DEF Device
<1>3. CASE Channel
  BY <1>3, ConnectStep, ReadErrorStep, WriteErrorStep, AgentDataSentStep, OnAgentStartStep,
     OnAgentTokensStep, GetAgentDataBufferStep, OnAgentDataStep, MouseEventStep DEF Channel
<1>4. CASE Peer
  BY <1>4, PeerReceivesStep, PeerSendsStep, PeerReturnsTokenStep DEF Peer
<1>5. CASE UNCHANGED vars
  BY <1>5 DEF PortInv, TypeInv, vars
<1> QED
  BY <1>1, <1>2, <1>3, <1>4, <1>5 DEF Next, Aborted, Over

\* The tokens, the buffers, the calls under way and the retries go together, in every use of
\* the port.
THEOREM PortInvariant == Spec => []PortInv
<1>1. PortInv /\ [Next]_vars => PortInv'
  BY NextPort
<1> QED
  BY InitPort, <1>1, PTL DEF Spec

-----------------------------------------------------------------------------
(* What follows from it. *)

\* The server's state has the types of SpiceCharDeviceState and VDIPortState, and no counter of
\* tokens or of buffers leaves its bounds.
THEOREM PortTyped == Spec => []TypeOK
<1>1. PortInv => TypeOK
  <2> SUFFICES ASSUME PortInv PROVE TypeOK
    OBVIOUS
  <2>1. Typed(s) /\ Good(s, NoBuf, count.conns, room, agent, mode.notify)
    BY PortFacts
  <2>2. /\ {s.vdagent, s.vm, s.conn, s.base, s.running, s.active, s.retry, s.client, s.didW,
             s.didR, s.got, s.started, s.accept, s.mouse} \subseteq BOOLEAN
    BY <2>1 DEF Typed, Flags
  <2>3. /\ s.self \in Nat /\ s.tok \in Nat /\ s.free \in Nat /\ s.send \in Nat /\ s.left \in Nat
        /\ s.held \in Nat /\ s.bufs \in Nat /\ s.out \in Nat
    BY <2>1 DEF Typed, Counters
  <2>4. s.self \in 0 .. SelfTokens
    <3>1. PICK q \in Nat, i \in Nat : q = Bufs(s, "server") /\ i = Is(NoBuf, "server")
      BY <2>1, UnderType DEF Is
    <3>2. (s.base => s.self + q + i = SelfTokens) /\ (~s.base => s.self = 0)
      BY <2>1, <3>1 DEF Good, SelfInv
    <3> QED
      BY <2>3, <3>1, <3>2, PortConstants
  <2>5. s.tok \in 0 .. Window /\ s.free \in 0 .. Window
    <3>1. PICK q \in Nat, i \in Nat, h \in Nat : /\ q = Bufs(s, "client") /\ i = Is(NoBuf, "client")
                                                 /\ h = Is(s.held, count.conns)
      BY <2>1, UnderType DEF Is
    <3>2. /\ s.client => s.tok + s.free + q + i + h = Window
          /\ ~s.client => s.tok = 0 /\ s.free = 0
      BY <2>1, <3>1 DEF Good, TokenInv
    <3> QED
      BY <2>3, <3>1, <3>2, PortConstants
  <2>6. s.bufs \in 0 .. ReadBufs /\ s.out \in 0 .. ReadBufs
    BY <2>1, <2>3, PortConstants DEF Good, ReadBufInv
  <2>7. s.held \in 0 .. mode.conns /\ agent \in 0 .. mode.agent
    <3>1. /\ s.held <= count.conns /\ count.conns <= mode.conns /\ agent <= count.agent
          /\ count.agent <= mode.agent /\ agent \in Nat
      BY <2>1 DEF Good, LinkInv, PortInv, TypeInv
    <3>2. count.agent \in Nat /\ count.conns \in Nat /\ mode.agent \in Nat /\ mode.conns \in Nat
      BY PortFacts DEF PortInv, TypeInv
    <3> QED
      BY <2>3, <3>1, <3>2
  <2>8. /\ s.queue \in Seq(Origins) /\ s.cur \in Origins \cup {NoBuf}
        /\ s.busyW \in 0 .. 2 /\ s.busyR \in 0 .. 2 /\ s.msg \in {"none", "malloc", "buf"}
    BY <2>1 DEF Typed
  <2>9. room \in 0 .. Room
    BY PortFacts
  <2> QED
    BY <2>2, <2>3, <2>4, <2>5, <2>6, <2>7, <2>8, <2>9 DEF TypeOK
<1> QED
  BY PortInvariant, <1>1, PTL

\* Buffers are counted in the same way.
LEMMA QueuedBufs == ASSUME NEW o PROVE Queued(o) = Bufs(s, o)
BY DEF Queued, Bufs, One, Is

\* spice_char_device_client_tokens_add and its callers: no token of the client's window is lost
\* and none is made up.
THEOREM TokensAccounted == Spec => []TokenAccounting
<1>1. PortInv => TokenAccounting
  <2> SUFFICES ASSUME PortInv, s.client
               PROVE  s.tok + s.free + Queued("client")
                        + (IF s.held = count.conns THEN 1 ELSE 0) = Window
    BY DEF TokenAccounting
  <2>1. Typed(s) /\ Good(s, NoBuf, count.conns, room, agent, mode.notify)
    BY PortFacts
  <2>2. s.tok \in Nat /\ s.free \in Nat /\ Bufs(s, "client") \in Nat
    BY <2>1, UnderType DEF Typed, Counters
  <2>3. Is(NoBuf, "client") = 0
    BY DEF Is, NoBuf
  <2>4. s.tok + s.free + Bufs(s, "client") + 0 + Is(s.held, count.conns) = Window
    BY <2>1, <2>3 DEF Good, TokenInv
  <2>5. PICK h \in {0, 1} : /\ h = Is(s.held, count.conns)
                            /\ h = IF s.held = count.conns THEN 1 ELSE 0
    BY DEF Is
  <2>6. Queued("client") = Bufs(s, "client")
    BY QueuedBufs
  <2> QED
    BY <2>2, <2>4, <2>5, <2>6
<1> QED
  BY PortInvariant, <1>1, PTL

\* The tokens of the server's own messages, and the buffers of VDIPortState, are all accounted
\* for: spice_char_device_write_buffer_release, vdi_port_read_buf_release and reds_client_disconnect
\* give back what was taken.
THEOREM SelfAccounted == Spec => []SelfAccounting
<1>1. PortInv => SelfAccounting
  <2> SUFFICES ASSUME PortInv PROVE SelfAccounting
    OBVIOUS
  <2>1. Typed(s) /\ Good(s, NoBuf, count.conns, room, agent, mode.notify)
    BY PortFacts
  <2>2. s.self \in Nat /\ Bufs(s, "server") \in Nat /\ Is(NoBuf, "server") = 0
    BY <2>1, UnderType DEF Typed, Counters, Is, NoBuf
  <2>3. Queued("server") = Bufs(s, "server")
    BY QueuedBufs
  <2> QED
    BY <2>1, <2>2, <2>3 DEF Good, SelfInv, ReadBufInv, SelfAccounting
<1> QED
  BY PortInvariant, <1>1, PTL

\* spice_char_device_write_to_device: when the main thread waits for events, what is left to write
\* is tried again, whatever calls came from within the writes.
THEOREM WritesRetried == Spec => []WriteRetried
<1>1. PortInv => WriteRetried
  <2> SUFFICES ASSUME PortInv, Idle, Eligible, s.cur # NoBuf \/ s.queue # <<>>
               PROVE  s.retry \/ (mode.notify /\ room = 0)
    BY DEF WriteRetried
  <2>1. /\ Good(s, NoBuf, count.conns, room, agent, mode.notify)
        /\ s.busyW = 0 /\ \A C : Under(s, C) = 0
    BY PortFacts DEF Idle
  <2>2. CanServe(s) /\ ToWrite(s)
    BY DEF Eligible, CanServe, ToWrite
  <2>3. Under(s, WillWrite) = 0 /\ Under(s, {"write_refused"}) = 0
    BY <2>1
  <2> QED
    BY <2>1, <2>2, <2>3 DEF Good, WriteInv
<1> QED
  BY PortInvariant, <1>1, PTL

\* spice_char_device_read_from_device: when the main thread waits for events, a message of the
\* agent is left only for want of tokens or of a buffer, whatever calls came from within the reads.
THEOREM ReadsRetried == Spec => []ReadRetried
<1>1. PortInv => ReadRetried
  <2> SUFFICES ASSUME PortInv, Idle, Eligible, agent > 0, s.bufs > 0, s.client
               PROVE  s.send = 0
    BY DEF ReadRetried
  <2>1. /\ Typed(s) /\ Good(s, NoBuf, count.conns, room, agent, mode.notify)
        /\ s.busyR = 0 /\ \A C : Under(s, C) = 0
    BY PortFacts DEF Idle
  <2>2. CanServe(s) /\ Under(s, WillRead) = 0 /\ s.send \in Nat
    BY <2>1 DEF Eligible, CanServe, Typed, Counters
  <2> QED
    BY <2>1, <2>2 DEF Good, ReadInv
<1> QED
  BY PortInvariant, <1>1, PTL

-----------------------------------------------------------------------------
(* Mouse events. *)

\* The tokens of the server's own messages stay what they are.
Keeps(r, st) == DOMAIN r = Fields /\ r.self = st.self

\* The parts of the handlers that leave those tokens alone.
LEMMA PartsKeep ==
  ASSUME NEW st, DOMAIN st = Fields
  PROVE  /\ \A c : Keeps(Call(st, c), st)
         /\ Keeps(Return(st), st)
         /\ \A f : Keeps(Fail(st, f), st)
         /\ Keeps(ClientTokensAdd(st), st)
         /\ Keeps(ClientRemove(st), st)
         /\ Keeps(Taken(st), st)
<1>1. "self" \in Fields
  BY DEF Fields, Counters
<1>2. \A c : Keeps(Call(st, c), st)
  BY <1>1 DEF Keeps, Call
<1>3. Keeps(Return(st), st)
  BY <1>1 DEF Keeps, Return
<1>4. \A f : Keeps(Fail(st, f), st)
  BY <1>1 DEF Keeps, Fail
<1>5. Keeps(ClientTokensAdd(st), st)
  BY <1>1 DEF Keeps, ClientTokensAdd
<1>6. Keeps(ClientRemove(st), st)
  BY <1>1 DEF Keeps, ClientRemove
<1>7. Keeps(Taken(st), st)
  BY <1>1 DEF Keeps, Taken
<1> QED
  BY <1>2, <1>3, <1>4, <1>5, <1>6, <1>7

\* The handlers that leave those tokens alone.
LEMMA HandlersKeep ==
  ASSUME NEW st, DOMAIN st = Fields
  PROVE  /\ \A x : Keeps(WriteBufferAdd(st, x), st)
         /\ Keeps(ClientDisconnect(st), st)
         /\ \A k : Keeps(TokensAbsorb(st, k), st)
         /\ Keeps(ReleaseAgentDataBuffer(st), st)
         /\ Keeps(WriteDone(st), st) /\ Keeps(ReadDone(st), st)
<1>1. "self" \in Fields
  BY DEF Fields, Counters
<1>2. \A x : Keeps(WriteBufferAdd(st, x), st)
  <2>1. ASSUME NEW x PROVE Keeps(WriteBufferAdd(st, x), st)
    <3>1. PICK t : t = [st EXCEPT !.queue = Append(@, x)]
      OBVIOUS
    <3>2. DOMAIN t = Fields /\ t.self = st.self
      BY <1>1, <3>1
    <3>3. Keeps(Call(t, <<"write">>), t)
      BY <3>2, PartsKeep
    <3> QED
      BY <3>1, <3>2, <3>3 DEF Keeps, WriteBufferAdd
  <2> QED
    BY <2>1
<1>3. Keeps(ClientDisconnect(st), st)
  <2>1. Keeps(ClientRemove(st), st)
    BY PartsKeep
  <2>2. Keeps(Gone(st), st)
    BY <1>1, <2>1 DEF Keeps, Gone
  <2>3. \A c : Keeps(Call(Gone(st), c), Gone(st))
    BY <2>2, PartsKeep DEF Keeps
  <2>4. \E c : ClientDisconnect(st) = Call(Gone(st), c)
    BY DEF ClientDisconnect, Gone
  <2> QED
    BY <2>2, <2>3, <2>4 DEF Keeps
<1>4. \A k : Keeps(TokensAbsorb(st, k), st)
  <2>1. ASSUME NEW k PROVE Keeps(TokensAbsorb(st, k), st)
    <3>1. PICK t : t = [st EXCEPT !.send = @ + k]
      OBVIOUS
    <3>2. DOMAIN t = Fields /\ t.self = st.self
      BY <1>1, <3>1
    <3>3. Keeps(Call(t, <<"read">>), t)
      BY <3>2, PartsKeep
    <3> QED
      BY <3>1, <3>2, <3>3 DEF Keeps, TokensAbsorb
  <2> QED
    BY <2>1
<1>5. Keeps(ReleaseAgentDataBuffer(st), st)
  <2>1. PICK t : t = LetGo(st)
    OBVIOUS
  <2>2. Keeps(t, st)
    BY <1>1, <2>1 DEF Keeps, LetGo
  <2>3. Keeps(WriteBufferRelease(t, "client"), t)
    <3>1. WriteBufferRelease(t, "client") = ClientTokensAdd(t)
          \/ WriteBufferRelease(t, "client") = Fail(t, "no dev_client")
      BY DEF WriteBufferRelease
    <3>2. DOMAIN t = Fields
      BY <2>2 DEF Keeps
    <3>3. Keeps(ClientTokensAdd(t), t) /\ Keeps(Fail(t, "no dev_client"), t)
      BY <3>2, PartsKeep
    <3> QED
      BY <3>1, <3>3
  <2>4. Keeps(Fail(st, "buf of another message"), st)
    BY PartsKeep
  <2>5. \/ ReleaseAgentDataBuffer(st) = t
        \/ ReleaseAgentDataBuffer(st) = WriteBufferRelease(t, "client")
        \/ ReleaseAgentDataBuffer(st) = Fail(st, "buf of another message")
    BY <2>1 DEF ReleaseAgentDataBuffer, LetGo
  <2> QED
    BY <2>2, <2>3, <2>4, <2>5 DEF Keeps
<1>6. Keeps(WriteDone(st), st) /\ Keeps(ReadDone(st), st)
  <2>1. Keeps(Return(st), st)
    BY PartsKeep
  <2> QED
    BY <1>1, <2>1 DEF Keeps, WriteDone, ReadDone
<1> QED
  BY <1>2, <1>3, <1>4, <1>5, <1>6

\* spice_char_device_write_buffer_release: a token that becomes free is spent on the event that
\* waits for it.
LEMMA ReleaseServes ==
  ASSUME NEW st, DOMAIN st = Fields, st.base, st.mouse, st.self = 0, NEW x, NEW r,
         r = WriteBufferRelease(st, x)
  PROVE  DOMAIN r = Fields /\ r.self = 0
<1>1. DOMAIN st = Fields /\ "self" \in Fields /\ "base" \in Fields /\ "mouse" \in Fields
  BY DEF Fields, Flags, Counters
<1>2. CASE x = "client"
  <2>1. r = ClientTokensAdd(st) \/ r = Fail(st, "no dev_client")
    BY <1>2 DEF WriteBufferRelease
  <2>2. Keeps(ClientTokensAdd(st), st) /\ Keeps(Fail(st, "no dev_client"), st)
    BY <1>1, PartsKeep
  <2> QED
    BY <2>1, <2>2 DEF Keeps
<1>3. CASE x = "server"
  <2>1. PICK t : t = [st EXCEPT !.self = 1]
    OBVIOUS
  <2>2. r = AgentMouseEvent(t)
    BY <1>3, <2>1 DEF WriteBufferRelease
  <2>3. t.base /\ t.self = 1 /\ DOMAIN t = Fields
    BY <1>1, <2>1
  <2>4. PICK u : u = [t EXCEPT !.self = 0, !.mouse = FALSE]
    OBVIOUS
  <2>5. r = WriteBufferAdd(u, "server")
    BY <2>2, <2>3, <2>4 DEF AgentMouseEvent
  <2>6. DOMAIN u = Fields /\ u.self = 0
    BY <1>1, <2>3, <2>4
  <2> QED
    BY <2>5, <2>6, HandlersKeep DEF Keeps
<1>4. CASE x # "client" /\ x # "server"
  BY <1>1, <1>4 DEF WriteBufferRelease
<1> QED
  BY <1>2, <1>3, <1>4

\* The same when the push of the tokens finds the client gone.
LEMMA ReleasedServes ==
  ASSUME NEW st, DOMAIN st = Fields, st.base, st.mouse, st.self = 0, NEW x, Released(st, x)
  PROVE  s'.self = 0
<1>1. PICK d : d = WriteBufferRelease(st, x)
  OBVIOUS
<1>2. DOMAIN d = Fields /\ d.self = 0
  BY <1>1, ReleaseServes
<1>3. s' = d \/ s' = ClientDisconnect(d)
  BY <1>1 DEF Released
<1> QED
  BY <1>2, <1>3, HandlersKeep DEF Keeps

\* reds_handle_agent_mouse_event and spice_char_device_write_buffer_release: a token that becomes
\* free does not wait beside an event that waits for it.
LEMMA MouseStep ==
  ASSUME PortInv, [Next]_vars, s.base, s'.base, s.mouse, s.self = 0, s'.self > 0
  PROVE  FALSE
<1>1. /\ Typed(s) /\ DOMAIN s = Fields /\ "self" \in Fields /\ "mouse" \in Fields
      /\ "base" \in Fields /\ "queue" \in Fields /\ "cur" \in Fields /\ "calls" \in Fields
      /\ StackInv(s)
  BY PortFacts DEF Typed, Fields, Flags, Counters, Good
<1>2. \A st : DOMAIN st = Fields => /\ \A c : Keeps(Call(st, c), st)
                                    /\ Keeps(Return(st), st)
                                    /\ Keeps(Taken(st), st)
  BY PartsKeep
<1>3. \A st : DOMAIN st = Fields => /\ \A x : Keeps(WriteBufferAdd(st, x), st)
                                    /\ Keeps(ClientDisconnect(st), st)
                                    /\ Keeps(WriteDone(st), st) /\ Keeps(ReadDone(st), st)
  BY HandlersKeep
<1>4. PICK y : y = Return(s)
  OBVIOUS
<1>5. DOMAIN y = Fields /\ y.self = 0
  BY <1>1, <1>2, <1>4 DEF Keeps
<1>6. s'.self # 0
  OBVIOUS
<1>7. ASSUME CallWrite PROVE FALSE
  <2>1. PICK t : t = [y EXCEPT !.busyW = 1, !.didW = FALSE, !.retry = FALSE]
    OBVIOUS
  <2>2. DOMAIN t = Fields /\ t.self = 0
    BY <1>1, <1>5, <2>1
  <2>3. \/ s' = [y EXCEPT !.got = FALSE] \/ s' = [y EXCEPT !.busyW = 2, !.got = FALSE]
        \/ s' = Call(t, <<"writing">>)
    BY <1>4, <1>7, <2>1 DEF CallWrite
  <2>4. [y EXCEPT !.got = FALSE].self = 0 /\ [y EXCEPT !.busyW = 2, !.got = FALSE].self = 0
    BY <1>1, <1>5
  <2>5. Call(t, <<"writing">>).self = t.self
    BY <1>2, <2>2 DEF Keeps
  <2> QED
    BY <1>6, <2>2, <2>3, <2>4, <2>5
<1>8. ASSUME CallRead PROVE FALSE
  <2>1. PICK l : l = IF s.client THEN s.send ELSE 0
    OBVIOUS
  <2>2. PICK t : t = [y EXCEPT !.busyR = 1, !.didR = FALSE, !.left = l]
    OBVIOUS
  <2>3. DOMAIN t = Fields /\ t.self = 0
    BY <1>1, <1>5, <2>2
  <2>4. \/ s' = [y EXCEPT !.got = FALSE] \/ s' = [y EXCEPT !.busyR = 2, !.got = FALSE]
        \/ s' = Call(t, <<"reading">>)
    BY <1>4, <1>8, <2>1, <2>2 DEF CallRead
  <2>5. [y EXCEPT !.got = FALSE].self = 0 /\ [y EXCEPT !.busyR = 2, !.got = FALSE].self = 0
    BY <1>1, <1>5
  <2>6. Call(t, <<"reading">>).self = t.self
    BY <1>2, <2>3 DEF Keeps
  <2> QED
    BY <1>6, <2>3, <2>4, <2>5, <2>6
<1>9. ASSUME WriteNothingLeft \/ ReadNoMore PROVE FALSE
  BY <1>1, <1>3, <1>6, <1>9 DEF WriteNothingLeft, ReadNoMore, Keeps
<1>10. ASSUME WriteBlocked \/ ReadNull PROVE FALSE
  <2>1. PICK t, u : t = [y EXCEPT !.busyW = 1] /\ u = [y EXCEPT !.busyR = 1]
    OBVIOUS
  <2>2. DOMAIN t = Fields /\ t.self = 0 /\ DOMAIN u = Fields /\ u.self = 0
    BY <1>1, <1>5, <2>1
  <2>3. \/ s' = WriteDone(s) \/ s' = ReadDone(s)
        \/ s' = Call(t, <<"writing">>) \/ s' = Call(u, <<"reading">>)
    BY <1>4, <1>10, <2>1 DEF WriteBlocked, ReadNull
  <2>4. WriteDone(s).self = s.self /\ ReadDone(s).self = s.self
    BY <1>1, <1>3 DEF Keeps
  <2>5. Call(t, <<"writing">>).self = t.self /\ Call(u, <<"reading">>).self = u.self
    BY <1>2, <2>2 DEF Keeps
  <2> QED
    BY <1>6, <2>2, <2>3, <2>4, <2>5
<1>11. ASSUME NEW t, DOMAIN t = Fields, t.self = 0, t.base, t.mouse, NEW x, Released(t, x) PROVE FALSE
  BY <1>6, <1>11, ReleasedServes
<1>12. ASSUME WriteBuffer PROVE FALSE
  <2>1. PICK k : k = Taken(s)
    OBVIOUS
  <2>2. PICK t : t = [k EXCEPT !.cur = NoBuf, !.didW = TRUE]
    OBVIOUS
  <2>3. Released(t, k.cur)
    BY <1>12, <2>1, <2>2 DEF WriteBuffer
  <2>4. DOMAIN k = Fields /\ k.self = 0 /\ k.base /\ k.mouse
    BY <1>1, <2>1 DEF Taken
  <2>5. DOMAIN t = Fields /\ t.self = 0 /\ t.base /\ t.mouse
    BY <1>1, <2>2, <2>4
  <2> QED
    BY <1>11, <2>3, <2>5
<1>13. ASSUME WriteRefused PROVE FALSE
  <2>1. PICK k, z : k = Taken(s) /\ z = Return(k)
    OBVIOUS
  <2>2. DOMAIN k = Fields /\ k.self = 0 /\ DOMAIN z = Fields /\ z.self = 0
    BY <1>1, <1>2, <2>1 DEF Keeps
  <2>3. PICK part \in BOOLEAN : s' = Call([z EXCEPT !.didW = @ \/ part], <<"write_refused">>)
    BY <1>13, <2>1 DEF WriteRefused
  <2>4. PICK t : t = [z EXCEPT !.didW = @ \/ part]
    OBVIOUS
  <2>5. DOMAIN t = Fields /\ t.self = 0
    BY <1>1, <2>2, <2>4
  <2> QED
    BY <1>2, <1>6, <2>3, <2>4, <2>5 DEF Keeps
<1>14. ASSUME ReadDiscarded \/ ReadFails \/ StartLoop PROVE FALSE
  <2>1. \E c : s' = Call(s, c) \/ s' = Call(y, c)
    BY <1>4, <1>14 DEF ReadDiscarded, ReadFails, StartLoop
  <2> QED
    BY <1>1, <1>2, <1>5, <1>6, <2>1 DEF Keeps
<1>15. ASSUME ReadMessage PROVE FALSE
  <2>1. PICK l : l = OneLess(s.left)
    OBVIOUS
  <2>2. PICK t : t = [s EXCEPT !.didR = TRUE, !.left = l]
    OBVIOUS
  <2>3. PICK w : w = [t EXCEPT !.send = @ - 1, !.bufs = @ - 1, !.out = @ + 1]
    OBVIOUS
  <2>4. DOMAIN t = Fields /\ t.self = 0
    BY <1>1, <2>2
  <2>5. DOMAIN w = Fields /\ w.self = 0
    BY <1>1, <2>3, <2>4
  <2>6. s' = Call(t, Wakeup) \/ s' = w \/ s' = ClientDisconnect(w)
    BY <1>15, <2>1, <2>2, <2>3 DEF ReadMessage
  <2> QED
    BY <1>2, <1>3, <1>6, <2>4, <2>5, <2>6 DEF Keeps
<1>16. ASSUME ResetQueue PROVE FALSE
  <2>1. PICK t : t = [s EXCEPT !.queue = Tail(@)]
    OBVIOUS
  <2>2. Released(t, Head(s.queue)) /\ s.queue # <<>>
    BY <1>16, <2>1 DEF ResetQueue
  <2>3. DOMAIN t = Fields /\ t.self = 0 /\ t.base /\ t.mouse
    BY <1>1, <2>1
  <2> QED
    BY <1>11, <2>2, <2>3
<1>17. ASSUME ResetCurrent PROVE FALSE
  <2>1. PICK t : t = [y EXCEPT !.cur = NoBuf]
    OBVIOUS
  <2>2. Released(t, s.cur) /\ s.calls # <<>> /\ Head(s.calls) = "reset"
    BY <1>4, <1>17, <2>1 DEF ResetCurrent, Top
  <2>3. DOMAIN t = Fields /\ t.self = 0 /\ t.base /\ t.mouse
    BY <1>1, <1>4, <1>5, <2>1 DEF Return
  <2> QED
    BY <1>11, <2>2, <2>3
<1>18. ASSUME AgentRemoved \/ Goodbye \/ Accept PROVE FALSE
  <2>1. s' = Removed(y) \/ s' = WriteBufferAdd(y, "no_token") \/ s' = [y EXCEPT !.accept = TRUE]
    BY <1>4, <1>18 DEF AgentRemoved, Goodbye, Accept
  <2>2. Removed(y).self = 0 /\ [y EXCEPT !.accept = TRUE].self = 0
    BY <1>1, <1>5 DEF Removed
  <2>3. WriteBufferAdd(y, "no_token").self = y.self
    BY <1>3, <1>5 DEF Keeps
  <2> QED
    BY <1>5, <1>6, <2>1, <2>2, <2>3
<1>19. CASE Server
  BY <1>7, <1>8, <1>9, <1>10, <1>12, <1>13, <1>14, <1>15, <1>16, <1>17, <1>18, <1>19 DEF Server
<1>20. ASSUME GuestReads \/ GuestWrites PROVE FALSE
  <2>1. PICK k : k = Inside(s)
    OBVIOUS
  <2>2. DOMAIN k = Fields /\ k.self = 0
    BY <1>1, <1>2, <2>1 DEF Inside, Keeps
  <2>3. \E c : s' = Call(k, c)
    BY <1>20, <2>1 DEF GuestReads, GuestWrites
  <2> QED
    BY <1>2, <1>6, <2>2, <2>3 DEF Keeps
<1>21. ASSUME NEW t, DOMAIN t = Fields, t.self = 0, s' = t \/ \E c : s' = Call(t, c) PROVE FALSE
  BY <1>2, <1>6, <1>21 DEF Keeps
<1>22. ASSUME WriteRetry PROVE FALSE
  <2>1. PICK t : t = [s EXCEPT !.retry = FALSE]
    OBVIOUS
  <2>2. s' = Call(t, <<"write">>)
    BY <1>22, <2>1 DEF WriteRetry
  <2>3. DOMAIN t = Fields /\ t.self = 0
    BY <1>1, <2>1
  <2> QED
    BY <1>21, <2>2, <2>3
<1>23. ASSUME Attach PROVE FALSE
  <2>1. PICK p : p = IF s.conn THEN Append(s.pipe, ToClient("CONNECTED", Window)) ELSE s.pipe
    OBVIOUS
  <2>2. PICK t : t = [s EXCEPT !.vdagent = TRUE, !.pipe = p]
    OBVIOUS
  <2>3. PICK u : u = [t EXCEPT !.running = TRUE]
    OBVIOUS
  <2>4. s' = Call(u, <<"start">>) \/ s' = t
    BY <1>23, <2>1, <2>2, <2>3 DEF Attach
  <2>5. DOMAIN t = Fields /\ t.self = 0
    BY <1>1, <2>2
  <2>6. DOMAIN u = Fields /\ u.self = 0
    BY <1>1, <2>3, <2>5
  <2> QED
    BY <1>21, <2>4, <2>5, <2>6
<1>24. ASSUME Detach PROVE FALSE
  <2>1. PICK t : t = [s EXCEPT !.started = FALSE, !.accept = FALSE]
    OBVIOUS
  <2>2. DOMAIN t = Fields /\ t.self = 0
    BY <1>1, <2>1
  <2>3. s' = Removed(Destroy(t)) \/ s' = Call(Stop(t), <<"reset", "removed">>)
    BY <1>24, <2>1 DEF Detach
  <2>4. CASE s' = Removed(Destroy(t))
    <3>1. PICK r, d : r = ClientRemove(t) /\ d = Destroy(t)
      OBVIOUS
    <3>2. DOMAIN r = Fields
      BY <2>2, <3>1, PartsKeep DEF Keeps
    <3>3. DOMAIN d = Fields /\ d.self = 0
      BY <1>1, <3>1, <3>2 DEF Destroy
    <3>4. s'.self = 0
      BY <1>1, <2>4, <3>1, <3>3 DEF Removed
    <3> QED
      BY <1>6, <3>4
  <2>5. CASE s' = Call(Stop(t), <<"reset", "removed">>)
    <3>1. PICK u : u = Stop(t)
      OBVIOUS
    <3>2. DOMAIN u = Fields /\ u.self = 0
      BY <1>1, <2>2, <3>1 DEF Stop
    <3> QED
      BY <1>21, <2>5, <3>1, <3>2
  <2> QED
    BY <2>3, <2>4, <2>5
<1>25. ASSUME VmStop \/ VmStart PROVE FALSE
  <2>1. PICK t, u : t = [s EXCEPT !.vm = FALSE] /\ u = [s EXCEPT !.vm = TRUE]
    OBVIOUS
  <2>2. PICK w, z : w = Stop(t) /\ z = [u EXCEPT !.running = TRUE]
    OBVIOUS
  <2>3. s' = w \/ s' = u \/ s' = Call(z, <<"start">>)
    BY <1>25, <2>1, <2>2 DEF VmStop, VmStart
  <2>4. DOMAIN t = Fields /\ t.self = 0 /\ DOMAIN u = Fields /\ u.self = 0
    BY <1>1, <2>1
  <2>5. DOMAIN w = Fields /\ w.self = 0 /\ DOMAIN z = Fields /\ z.self = 0
    BY <1>1, <2>2, <2>4 DEF Stop
  <2> QED
    BY <1>21, <2>3, <2>4, <2>5
<1>26. CASE Device
  BY <1>20, <1>22, <1>23, <1>24, <1>25, <1>26 DEF Device
<1>27. ASSUME Connect PROVE FALSE
  <2>1. s'.self = s.self
    BY <1>1, <1>27 DEF Connect
  <2> QED
    BY <1>6, <2>1
<1>28. ASSUME ReadError \/ WriteError PROVE FALSE
  <2>1. PICK t : (t = s \/ t = ReleaseAgentDataBuffer(s)) /\ (s' = ClientDisconnect(t) \/ s' = t)
    BY <1>28 DEF ReadError, WriteError
  <2>2. DOMAIN t = Fields /\ t.self = 0
    BY <1>1, <2>1, HandlersKeep DEF Keeps
  <2> QED
    BY <1>3, <1>6, <2>1, <2>2 DEF Keeps
<1>29. ASSUME AgentDataSent PROVE FALSE
  <2>1. PICK t : t = [s EXCEPT !.out = @ - 1, !.bufs = @ + 1]
    OBVIOUS
  <2>2. DOMAIN t = Fields /\ t.self = 0
    BY <1>1, <2>1
  <2>3. \E c : s' = Call(t, c)
    BY <1>29, <2>1 DEF AgentDataSent
  <2> QED
    BY <1>21, <2>2, <2>3
<1>30. ASSUME OnAgentStart PROVE FALSE
  <2>1. PICK t : t = [s EXCEPT !.started = TRUE]
    OBVIOUS
  <2>2. PICK u : u = Call(t, <<"accept">>)
    OBVIOUS
  <2>3. DOMAIN t = Fields /\ t.self = 0
    BY <1>1, <2>1
  <2>4. DOMAIN u = Fields /\ u.self = 0
    BY <1>2, <2>2, <2>3 DEF Keeps
  <2>5. PICK w, z : w = [u EXCEPT !.send = 0] /\ z = Joined(u)
    OBVIOUS
  <2>6. DOMAIN w = Fields /\ w.self = 0 /\ DOMAIN z = Fields /\ z.self = 0
    BY <1>1, <2>4, <2>5 DEF Joined
  <2>7. s' = s \/ s' = TokensAbsorb(w, SendTokens) \/ s' = Call(z, Wakeup)
    BY <1>30, <2>1, <2>2, <2>5 DEF OnAgentStart, ClientAdd, Joined
  <2>8. TokensAbsorb(w, SendTokens).self = w.self /\ Call(z, Wakeup).self = z.self
    <3>1. Keeps(TokensAbsorb(w, SendTokens), w) /\ Keeps(Call(z, Wakeup), z)
      BY <2>6, PartsKeep, HandlersKeep
    <3> QED
      BY <3>1 DEF Keeps
  <2> QED
    BY <1>6, <2>6, <2>7, <2>8
<1>31. ASSUME OnAgentTokens PROVE FALSE
  <2>1. s' = s \/ s' = Fail(s, "client wasn't found") \/ s' = TokensAbsorb(s, 1)
    BY <1>31 DEF OnAgentTokens
  <2>2. Fail(s, "client wasn't found").self = s.self /\ TokensAbsorb(s, 1).self = s.self
    <3>1. Keeps(Fail(s, "client wasn't found"), s) /\ Keeps(TokensAbsorb(s, 1), s)
      BY <1>1, PartsKeep, HandlersKeep
    <3> QED
      BY <3>1 DEF Keeps
  <2> QED
    BY <1>6, <2>1, <2>2
<1>32. ASSUME GetAgentDataBuffer PROVE FALSE
  <2>1. s'.self = s.self
    BY <1>1, <1>32 DEF GetAgentDataBuffer, ClientBufferGet, Fail
  <2> QED
    BY <1>6, <2>1
<1>33. ASSUME OnAgentData PROVE FALSE
  <2>1. PICK t : t = LetGo(s)
    OBVIOUS
  <2>2. DOMAIN t = Fields /\ t.self = 0
    BY <1>1, <2>1 DEF LetGo
  <2>3. \/ s' = ReleaseAgentDataBuffer(s) \/ s' = Fail(s, "message is not the buffer")
        \/ s' = WriteBufferAdd(t, "client")
    BY <1>33, <2>1 DEF OnAgentData, LetGo
  <2>4. /\ ReleaseAgentDataBuffer(s).self = s.self /\ WriteBufferAdd(t, "client").self = t.self
        /\ Fail(s, "message is not the buffer").self = s.self
    <3>1. /\ Keeps(ReleaseAgentDataBuffer(s), s) /\ Keeps(WriteBufferAdd(t, "client"), t)
          /\ Keeps(Fail(s, "message is not the buffer"), s)
      BY <1>1, <2>2, PartsKeep, HandlersKeep
    <3> QED
      BY <3>1 DEF Keeps
  <2> QED
    BY <1>6, <2>2, <2>3, <2>4
<1>34. ASSUME MouseEvent PROVE FALSE
  <2>1. s'.self = s.self
    BY <1>1, <1>34 DEF MouseEvent, AgentMouseEvent
  <2> QED
    BY <1>6, <2>1
<1>35. CASE Channel
  BY <1>27, <1>28, <1>29, <1>30, <1>31, <1>32, <1>33, <1>34, <1>35 DEF Channel
<1>36. ASSUME PeerReceives PROVE FALSE
  <2>1. s'.self = s.self
    BY <1>1, <1>36 DEF PeerReceives
  <2> QED
    BY <1>6, <2>1
<1>37. CASE Peer
  BY <1>6, <1>36, <1>37 DEF Peer, PeerSends, PeerReturnsToken
<1>38. CASE UNCHANGED vars
  BY <1>6, <1>38 DEF vars
<1> QED
  BY <1>19, <1>26, <1>35, <1>37, <1>38 DEF Next, Aborted, Over

\* A token of the server's own messages that becomes free goes to the mouse event that waits for
\* it, within a write and within spice_char_device_reset.
THEOREM MouseAlwaysServed == Spec => MouseServed
<1>1. PortInv /\ [Next]_vars =>
        [s.base /\ s'.base /\ s.mouse /\ s.self = 0 /\ s'.self > 0 => ~s'.mouse]_vars
  BY MouseStep
<1> QED
  BY PortInvariant, <1>1, PTL DEF Spec, MouseServed

-----------------------------------------------------------------------------
(* Aborts. *)

\* The messages to the client that give tokens, and the tokens they give.
Greets == {"INIT", "INIT_AGENT"}
Right == {m \in Down : /\ m.type = "TOKEN" => m.n = Interval
                       /\ m.type \in Greets => m.n = Window}
Tokens(q) == Count(q, {m \in Down : m.type = "TOKEN"})
Inits(q)  == Count(q, {m \in Down : m.type \in Greets})

\* The tokens that the client has or that are on their way to it, and its messages on their way
\* to the server, are covered by the tokens of the server; of a client that is not known yet, by
\* those it is going to have.
Allowed(st) == (IF st.client THEN st.tok ELSE Window) + One(st.msg # "none")
Covered(st, u, p) ==
    /\ st.pipe \in Seq(Right)
    /\ Inits(st.pipe) > 0 => Inits(st.pipe) = 1 /\ Head(st.pipe).type \in Greets /\ p.tok = 0
    /\ p.tok + Count(u, {"DATA"}) + Interval * Tokens(st.pipe) + Window * Inits(st.pipe)
         <= Allowed(st)

\* A client that is not known yet starts the agent before it sends anything.
NotYet(st, u, p) ==
    st.started /\ ~st.client =>
        /\ p.agent => \E i \in DOMAIN u : u[i] = "START"
        /\ \A i \in DOMAIN u : u[i] = "DATA" => \E j \in DOMAIN u : j < i /\ u[j] = "START"

\* A client returns tokens only once it is known.
Returns(st, u, p) == p.owed > 0 \/ Count(u, {"TOKEN"}) > 0 => st.client

\* A message is received at once, into a buffer of the client if the agent was started.
Receives(st, u) ==
    /\ st.held # 0 <=> st.msg = "buf"
    /\ st.msg # "none" => st.calls = <<>> /\ u # <<>> /\ Head(u) = "DATA"
    /\ st.msg = "buf" => st.client
    /\ st.msg = "malloc" => ~st.started
Begun(st) ==
    /\ st.fault = "none"
    /\ st.started => st.vdagent
    /\ st.accept => st.started
    /\ Under(st, {"accept"}) > 0 => st.started
    /\ Under(st, {"removed"}) > 0 => ~st.started
    /\ st.out > 0 => st.client
Linked(st, u, p) == st.conn => Covered(st, u, p) /\ NotYet(st, u, p) /\ Returns(st, u, p)
Old(st, u, p) == Begun(st) /\ Receives(st, u) /\ Linked(st, u, p)

NeverInv == ~mode.caps /\ ~mode.split => Old(s, up, peer)

\* What those formulas read of the server's state; no call that they count is made.
Seen == {"vdagent", "conn", "client", "started", "accept", "tok", "held", "out", "msg", "pipe", "fault"}
Rare == {{"accept"}, {"removed"}}
Plain == Pending \ {"accept", "removed"}
Same(r, st) ==
    /\ DOMAIN r = Fields /\ r.calls \in Seq(Pending)
    /\ \A f \in Seen : r[f] = st[f]
    /\ \A C \in Rare : Under(r, C) <= Under(st, C)
Mild(c) == c \in Seq(Pending) /\ \A C \in Rare : Count(c, C) = 0

\* The calls that the handlers make.
LEMMA MildCalls ==
  /\ Mild(<<>>) /\ Mild(Wakeup)
  /\ \A a \in Plain : Mild(<<a>>)
  /\ \A a, b \in Plain : Mild(<<a, b>>) /\ Mild(<<a, b>> \o <<"goodbye">>)
<1>1. "goodbye" \in Plain /\ "write" \in Plain /\ "read" \in Plain /\ Plain \subseteq Pending
  BY DEF Pending, Plain
<1>2. \A a \in Plain, C \in Rare : In(a, C) = 0
  BY DEF In, Plain, Rare
<1>3. ASSUME NEW a \in Plain, NEW b \in Plain
      PROVE  Mild(<<a>>) /\ Mild(<<a, b>>) /\ Mild(<<a, b>> \o <<"goodbye">>) /\ Mild(<<>>)
  <2>1. a \in Pending /\ b \in Pending /\ "goodbye" \in Pending
    BY <1>1
  <2>2. ASSUME NEW C \in Rare
        PROVE  /\ <<a>> \in Seq(Pending) /\ Count(<<a>>, C) = 0
               /\ <<a, b>> \in Seq(Pending) /\ Count(<<a, b>>, C) = 0
               /\ <<a, b>> \o <<"goodbye">> \in Seq(Pending) /\ Count(<<a, b>> \o <<"goodbye">>, C) = 0
               /\ <<>> \in Seq(Pending) /\ Count(<<>>, C) = 0
    <3>1. In(a, C) = 0 /\ In(b, C) = 0 /\ In("goodbye", C) = 0
      BY <1>1, <1>2
    <3>2. /\ <<a>> \in Seq(Pending) /\ Count(<<a>>, C) = In(a, C)
          /\ <<a, b>> \in Seq(Pending) /\ Count(<<a, b>>, C) = In(a, C) + In(b, C)
          /\ <<a, b>> \o <<"goodbye">> \in Seq(Pending)
          /\ Count(<<a, b>> \o <<"goodbye">>, C) = In(a, C) + In(b, C) + In("goodbye", C)
          /\ <<>> \in Seq(Pending) /\ Count(<<>>, C) = 0
      BY <2>1, FewCalls
    <3> QED
      BY <3>1, <3>2
  <2>3. {"accept"} \in Rare
    BY DEF Rare
  <2> QED
    BY <2>2, <2>3 DEF Mild
<1>4. Mild(<<>>) /\ Mild(Wakeup)
  BY <1>1, <1>3 DEF Wakeup
<1> QED
  BY <1>3, <1>4

\* One change after another.
LEMMA SameTwice ==
  ASSUME NEW st, st.calls \in Seq(Pending), NEW t, Same(t, st), NEW r, Same(r, t)
  PROVE  Same(r, st)
<1>1. ASSUME NEW C \in Rare PROVE Under(r, C) <= Under(st, C)
  <2>1. Under(r, C) \in Nat /\ Under(t, C) \in Nat /\ Under(st, C) \in Nat
    BY CountType DEF Same, Under
  <2>2. Under(r, C) <= Under(t, C) /\ Under(t, C) <= Under(st, C)
    BY DEF Same
  <2> QED
    BY <2>1, <2>2
<1> QED
  BY <1>1 DEF Same

\* A change of other fields.
LEMMA SameFields ==
  ASSUME NEW st, st.calls \in Seq(Pending), NEW r, DOMAIN r = Fields, r.calls = st.calls,
         \A f \in Seen : r[f] = st[f]
  PROVE  Same(r, st)
<1>1. \A C : Under(r, C) \in Nat /\ Under(r, C) = Under(st, C)
  BY CountType DEF Under
<1> QED
  BY <1>1 DEF Same

\* The parts of the handlers.
LEMMA PartsSame ==
  ASSUME NEW st, DOMAIN st = Fields, st.calls \in Seq(Pending)
  PROVE  /\ \A c : Mild(c) => Same(Call(st, c), st)
         /\ st.calls # <<>> => Same(Return(st), st)
         /\ Same(Taken(st), st) /\ Same(Stop(st), st)
         /\ \A q, k, m : Same([st EXCEPT !.queue = q, !.self = k, !.mouse = m], st)
<1>1. Seen \subseteq Fields /\ {"calls", "queue", "self", "mouse"} \subseteq Fields
      /\ Seen \cap {"calls", "queue", "cur", "self", "mouse", "running", "active", "retry"} = {}
  BY DEF Seen, Fields, Flags, Counters
<1>2. ASSUME NEW c, Mild(c) PROVE Same(Call(st, c), st)
  <2>1. PICK r : r = Call(st, c)
    OBVIOUS
  <2>2. PICK q \in Seq(Pending) : q = st.calls
    OBVIOUS
  <2>3. c \in Seq(Pending) /\ \A C \in Rare : Count(c, C) = 0
    BY <1>2 DEF Mild
  <2>4. PICK p : p = c \o q
    OBVIOUS
  <2>a. p \in Seq(Pending)
    BY <2>3, <2>4, ConcatProperties
  <2>5. \A C : Count(p, C) = Count(c, C) + Count(q, C) /\ Count(q, C) \in Nat
    <3>1. c \in Seq(Pending)
      BY <2>3
    <3>2. \A C : Count(p, C) = Count(c, C) + Count(q, C)
      BY <2>4, <3>1, CountConcat
    <3>3. \A C : Count(q, C) \in Nat
      BY CountType
    <3> QED
      BY <3>2, <3>3
  <2>6. r = [st EXCEPT !.calls = p]
    BY <2>1, <2>2, <2>4 DEF Call
  <2>7. DOMAIN r = Fields /\ r.calls = p /\ \A f \in Seen : r[f] = st[f]
    BY <1>1, <2>6
  <2>8. \A C \in Rare : Count(p, C) <= Count(q, C)
    BY <2>3, <2>5
  <2> QED
    BY <2>1, <2>2, <2>7, <2>8, <2>a DEF Same, Under
<1>3. ASSUME st.calls # <<>> PROVE Same(Return(st), st)
  <2>1. PICK r : r = Return(st)
    OBVIOUS
  <2>2. PICK q \in Seq(Pending) : q = st.calls
    OBVIOUS
  <2>3. q # <<>>
    BY <1>3, <2>2
  <2>a. Tail(q) \in Seq(Pending)
    BY <2>3
  <2>4. PICK p \in Seq(Pending) : p = Tail(q)
    BY <2>a
  <2>5. \A C : Count(p, C) = Count(q, C) - In(Head(q), C)
    BY <2>3, <2>4, CountEnds
  <2>6. \A C : Count(p, C) \in Nat /\ Count(q, C) \in Nat /\ In(Head(q), C) \in Nat
    BY CountType DEF In
  <2>7. \A C : Count(p, C) <= Count(q, C)
    BY <2>5, <2>6
  <2>8. r = [st EXCEPT !.calls = p]
    BY <2>1, <2>2, <2>4 DEF Return
  <2>9. DOMAIN r = Fields /\ r.calls = p /\ \A f \in Seen : r[f] = st[f]
    BY <1>1, <2>8
  <2> QED
    BY <2>1, <2>2, <2>7, <2>9 DEF Same, Under
<1>4. ASSUME NEW r, DOMAIN r = Fields, r.calls = st.calls, \A f \in Seen : r[f] = st[f] PROVE Same(r, st)
  BY <1>4, SameFields
<1>5. Same(Taken(st), st)
  <2>1. PICK r : r = Taken(st)
    OBVIOUS
  <2>2. DOMAIN r = Fields /\ r.calls = st.calls /\ \A f \in Seen : r[f] = st[f]
    BY <1>1, <2>1 DEF Taken
  <2> QED
    BY <1>4, <2>1, <2>2
<1>6. Same(Stop(st), st)
  <2>1. PICK r : r = Stop(st)
    OBVIOUS
  <2>2. DOMAIN r = Fields /\ r.calls = st.calls /\ \A f \in Seen : r[f] = st[f]
    BY <1>1, <2>1 DEF Stop
  <2> QED
    BY <1>4, <2>1, <2>2
<1>7. ASSUME NEW q, NEW k, NEW m PROVE Same([st EXCEPT !.queue = q, !.self = k, !.mouse = m], st)
  <2>1. PICK r : r = [st EXCEPT !.queue = q, !.self = k, !.mouse = m]
    OBVIOUS
  <2>2. DOMAIN r = Fields /\ r.calls = st.calls /\ \A f \in Seen : r[f] = st[f]
    BY <1>1, <2>1
  <2> QED
    BY <1>4, <2>1, <2>2
<1> QED
  BY <1>2, <1>3, <1>5, <1>6, <1>7

\* The handlers.
LEMMA HandlersSame ==
  ASSUME NEW st, DOMAIN st = Fields, st.calls \in Seq(Pending)
  PROVE  /\ \A x : Same(WriteBufferAdd(st, x), st)
         /\ \A k : Same(TokensAbsorb(st, k), st)
         /\ Same(AgentMouseEvent(st), st)
         /\ st.calls # <<>> => Same(WriteDone(st), st) /\ Same(ReadDone(st), st)
<1>1. Seen \subseteq Fields /\ "calls" \in Fields /\ Seen \cap {"calls"} = {}
      /\ Seen \cap {"queue", "self", "mouse", "send", "retry", "active", "busyW", "busyR", "got"} = {}
  BY DEF Seen, Fields, Flags, Counters
<1>2. Mild(<<"write">>) /\ Mild(<<"read">>)
  <2>1. "write" \in Plain /\ "read" \in Plain
    BY DEF Pending, Plain
  <2> QED
    BY <2>1, MildCalls
<1>a. ASSUME NEW t, DOMAIN t = Fields, t.calls = st.calls, \A f \in Seen : t[f] = st[f],
             NEW c, Mild(c)
      PROVE  Same(t, st) /\ Same(Call(t, c), st)
  <2>1. Same(t, st)
    BY <1>a, SameFields
  <2>2. Same(Call(t, c), t)
    BY <1>a, PartsSame
  <2> QED
    BY <2>1, <2>2, SameTwice
<1>3. ASSUME NEW x PROVE Same(WriteBufferAdd(st, x), st)
  <2>1. PICK t : t = [st EXCEPT !.queue = Append(@, x)]
    OBVIOUS
  <2>2. DOMAIN t = Fields /\ t.calls = st.calls /\ \A f \in Seen : t[f] = st[f]
    BY <1>1, <2>1
  <2>3. WriteBufferAdd(st, x) = Call(t, <<"write">>)
    BY <2>1 DEF WriteBufferAdd
  <2> QED
    BY <1>2, <1>a, <2>2, <2>3
<1>4. ASSUME NEW k PROVE Same(TokensAbsorb(st, k), st)
  <2>1. PICK t : t = [st EXCEPT !.send = @ + k]
    OBVIOUS
  <2>2. DOMAIN t = Fields /\ t.calls = st.calls /\ \A f \in Seen : t[f] = st[f]
    BY <1>1, <2>1
  <2>3. TokensAbsorb(st, k) = Call(t, <<"read">>) \/ TokensAbsorb(st, k) = t
    BY <2>1 DEF TokensAbsorb
  <2> QED
    BY <1>2, <1>a, <2>2, <2>3
<1>5. Same(AgentMouseEvent(st), st)
  <2>1. PICK t, w : t = [st EXCEPT !.mouse = TRUE] /\ w = [st EXCEPT !.self = @ - 1, !.mouse = FALSE]
    OBVIOUS
  <2>2. DOMAIN t = Fields /\ t.calls = st.calls /\ \A f \in Seen : t[f] = st[f]
    BY <1>1, <2>1
  <2>3. PICK z : z = [w EXCEPT !.queue = Append(@, "server")]
    OBVIOUS
  <2>4. DOMAIN w = Fields /\ w.calls = st.calls /\ \A f \in Seen : w[f] = st[f]
    BY <1>1, <2>1
  <2>5. DOMAIN z = Fields /\ z.calls = st.calls /\ \A f \in Seen : z[f] = st[f]
    BY <1>1, <2>3, <2>4
  <2>6. AgentMouseEvent(st) = st \/ AgentMouseEvent(st) = t \/ AgentMouseEvent(st) = Call(z, <<"write">>)
    BY <2>1, <2>3 DEF AgentMouseEvent, WriteBufferAdd
  <2> QED
    BY <1>2, <1>a, <2>2, <2>5, <2>6
<1>6. ASSUME st.calls # <<>> PROVE Same(WriteDone(st), st) /\ Same(ReadDone(st), st)
  <2>1. PICK t : t = Return(st)
    OBVIOUS
  <2>2. Same(t, st)
    BY <1>6, <2>1, PartsSame
  <2>3. DOMAIN t = Fields /\ t.calls \in Seq(Pending)
    BY <2>2 DEF Same
  <2>4. PICK w, z : w = WriteDone(st) /\ z = ReadDone(st)
    OBVIOUS
  <2>5. DOMAIN w = Fields /\ w.calls = t.calls /\ \A f \in Seen : w[f] = t[f]
    BY <1>1, <2>1, <2>3, <2>4 DEF WriteDone
  <2>6. DOMAIN z = Fields /\ z.calls = t.calls /\ \A f \in Seen : z[f] = t[f]
    BY <1>1, <2>1, <2>3, <2>4 DEF ReadDone
  <2>7. Same(w, t) /\ Same(z, t)
    BY <2>3, <2>5, <2>6, SameFields
  <2> QED
    BY <2>2, <2>4, <2>7, SameTwice
<1> QED
  BY <1>3, <1>4, <1>5, <1>6

\* What is not read may change between two messages.
LEMMA OldSame ==
  ASSUME NEW st, st.calls \in Seq(Pending), NEW r, Same(r, st), NEW u, NEW p, Old(st, u, p), st.msg = "none"
  PROVE  Old(r, u, p) /\ r.msg = "none"
<1>1. /\ r.vdagent = st.vdagent /\ r.conn = st.conn /\ r.client = st.client /\ r.started = st.started
      /\ r.accept = st.accept /\ r.tok = st.tok /\ r.held = st.held /\ r.out = st.out
      /\ r.msg = st.msg /\ r.pipe = st.pipe /\ r.fault = st.fault
  BY DEF Same, Seen
<1>2. /\ Under(r, {"accept"}) > 0 => Under(st, {"accept"}) > 0
      /\ Under(r, {"removed"}) > 0 => Under(st, {"removed"}) > 0
  <2>1. \A C : Under(r, C) \in Nat /\ Under(st, C) \in Nat
    BY CountType DEF Same, Under
  <2>2. /\ Under(r, {"accept"}) <= Under(st, {"accept"})
        /\ Under(r, {"removed"}) <= Under(st, {"removed"})
    BY DEF Same, Rare
  <2> QED
    BY <2>1, <2>2
<1>3. Begun(r)
  BY <1>1, <1>2 DEF Old, Begun
<1>4. Receives(r, u)
  BY <1>1 DEF Old, Receives
<1>5. Linked(r, u, p)
  BY <1>1 DEF Old, Linked, Covered, Allowed, NotYet, Returns
<1> QED
  BY <1>1, <1>3, <1>4, <1>5 DEF Old

\* The messages on their way to the client.
LEMMA PipeEnds ==
  ASSUME NEW q \in Seq(Right)
  PROVE  /\ Tokens(q) \in Nat /\ Inits(q) \in Nat
         /\ \A m \in Right : /\ Append(q, m) \in Seq(Right)
                             /\ Tokens(Append(q, m)) = Tokens(q) + One(m.type = "TOKEN")
                             /\ Inits(Append(q, m)) = Inits(q) + One(m.type \in Greets)
                             /\ q # <<>> => Head(Append(q, m)) = Head(q)
         /\ q # <<>> => /\ Head(q) \in Right /\ Tail(q) \in Seq(Right)
                        /\ Tokens(Tail(q)) = Tokens(q) - One(Head(q).type = "TOKEN")
                        /\ Inits(Tail(q)) = Inits(q) - One(Head(q).type \in Greets)
<1> DEFINE T == {m \in Down : m.type = "TOKEN"}
           G == {m \in Down : m.type \in Greets}
<1>1. \A m \in Right : (m \in T <=> m.type = "TOKEN") /\ (m \in G <=> m.type \in Greets)
  BY DEF Right
<1>2. \A x : Tokens(x) = Count(x, T) /\ Inits(x) = Count(x, G)
  BY DEF Tokens, Inits
<1> HIDE DEF T, G
<1>3. Tokens(q) \in Nat /\ Inits(q) \in Nat
  BY <1>2, CountType
<1>4. ASSUME NEW m \in Right
      PROVE  /\ Append(q, m) \in Seq(Right) /\ q # <<>> => Head(Append(q, m)) = Head(q)
             /\ Tokens(Append(q, m)) = Tokens(q) + One(m.type = "TOKEN")
             /\ Inits(Append(q, m)) = Inits(q) + One(m.type \in Greets)
  <2>1. Append(q, m) \in Seq(Right)
    OBVIOUS
  <2>a. q # <<>> => Head(Append(q, m)) = Head(q)
    OBVIOUS
  <2>2. /\ Count(Append(q, m), T) = Count(q, T) + One(m \in T)
        /\ Count(Append(q, m), G) = Count(q, G) + One(m \in G)
    BY CountQueue
  <2>3. One(m \in T) = One(m.type = "TOKEN") /\ One(m \in G) = One(m.type \in Greets)
    BY <1>1 DEF One
  <2> QED
    BY <1>2, <2>1, <2>2, <2>3, <2>a
<1>5. ASSUME q # <<>>
      PROVE  /\ Head(q) \in Right /\ Tail(q) \in Seq(Right)
             /\ Tokens(Tail(q)) = Tokens(q) - One(Head(q).type = "TOKEN")
             /\ Inits(Tail(q)) = Inits(q) - One(Head(q).type \in Greets)
  <2>1. Head(q) \in Right /\ Tail(q) \in Seq(Right)
    BY <1>5
  <2>2. /\ Count(Tail(q), T) = Count(q, T) - One(Head(q) \in T)
        /\ Count(Tail(q), G) = Count(q, G) - One(Head(q) \in G)
    BY <1>5, CountQueue
  <2>3. One(Head(q) \in T) = One(Head(q).type = "TOKEN") /\ One(Head(q) \in G) = One(Head(q).type \in Greets)
    BY <1>1, <2>1 DEF One
  <2> QED
    BY <1>2, <2>1, <2>2, <2>3
<1> QED
  BY <1>3, <1>4, <1>5

Clients == [tok : Nat, agent : BOOLEAN, owed : Nat]

\* What is on the wires and with the client is counted.
LEMMA LinkNumbers ==
  ASSUME NEW q \in Seq(Right), NEW u \in Seq(Up), NEW p \in Clients
  PROVE  /\ p.tok \in Nat /\ p.owed \in Nat /\ Count(u, {"DATA"}) \in Nat /\ Count(u, {"TOKEN"}) \in Nat
         /\ Interval * Tokens(q) \in Nat /\ Window * Inits(q) \in Nat
<1>1. Tokens(q) \in Nat /\ Inits(q) \in Nat
  BY PipeEnds
<1>2. \A a, b \in Nat : a * b \in Nat
  OBVIOUS
<1>3. Count(u, {"DATA"}) \in Nat /\ Count(u, {"TOKEN"}) \in Nat
  BY CountType
<1> QED
  BY <1>1, <1>2, <1>3, PortConstants DEF Clients

\* spice_char_device_client_tokens_add: the tokens that the client gets are those that the server
\* counts for it.
LEMMA OldTokens ==
  ASSUME NEW st, Typed(st), st.msg = "none", st.client, st.free < Interval,
         NEW u \in Seq(Up), NEW p \in Clients, Old(st, u, p), NEW r, r = ClientTokensAdd(st)
  PROVE  Typed(r) /\ Old(r, u, p) /\ r.msg = "none"
<1>1. /\ Typed(r) /\ Only(r, st, {"tok", "free", "pipe"})
      /\ \/ r.tok = st.tok /\ r.pipe = st.pipe
         \/ /\ r.tok = st.tok + Interval
            /\ r.pipe = Append(st.pipe, [type |-> "TOKEN", n |-> Interval])
  BY TokensAddEffect
<1>2. /\ r.vdagent = st.vdagent /\ r.conn = st.conn /\ r.client = st.client /\ r.started = st.started
      /\ r.accept = st.accept /\ r.held = st.held /\ r.out = st.out /\ r.calls = st.calls
      /\ r.msg = st.msg /\ r.fault = st.fault
  BY <1>1 DEF Only, Fields, Flags, Counters
<1>3. Begun(r) /\ Receives(r, u)
  BY <1>2 DEF Old, Begun, Receives, Under
<1>4. ASSUME st.conn PROVE Covered(r, u, p)
  <2>1. Covered(st, u, p)
    BY <1>4 DEF Old, Linked
  <2>2. CASE r.tok = st.tok /\ r.pipe = st.pipe
    BY <1>2, <2>1, <2>2 DEF Covered, Allowed
  <2>3. CASE r.tok = st.tok + Interval /\ r.pipe = Append(st.pipe, [type |-> "TOKEN", n |-> Interval])
    <3>1. PICK m : m = [type |-> "TOKEN", n |-> Interval]
      OBVIOUS
    <3>2. m \in Right /\ m.type = "TOKEN" /\ m.type \notin Greets
      BY <3>1, PortConstants DEF Right, Down, Greets
    <3>3. PICK q \in Seq(Right) : q = st.pipe
      BY <2>1 DEF Covered
    <3>4. /\ Append(q, m) \in Seq(Right) /\ Tokens(Append(q, m)) = Tokens(q) + One(m.type = "TOKEN")
          /\ Inits(Append(q, m)) = Inits(q) + One(m.type \in Greets)
          /\ q # <<>> => Head(Append(q, m)) = Head(q)
      BY <3>2, PipeEnds
    <3>5. Tokens(q) \in Nat /\ Inits(q) \in Nat
      BY PipeEnds
    <3>6. PICK k, i : k = Tokens(q) /\ i = Inits(q)
      OBVIOUS
    <3>7. Tokens(r.pipe) = k + 1 /\ Inits(r.pipe) = i /\ r.pipe \in Seq(Right)
      BY <2>3, <3>1, <3>2, <3>3, <3>4, <3>5, <3>6 DEF One
    <3>8. Interval * (k + 1) = Interval * k + Interval
      BY <3>5, <3>6, PortConstants
    <3>9. PICK a, d, x, y : a = p.tok /\ d = Count(u, {"DATA"}) /\ x = Interval * k /\ y = Window * i
      OBVIOUS
    <3>10. a \in Nat /\ d \in Nat /\ x \in Nat /\ y \in Nat /\ st.tok \in Nat
      BY <3>6, <3>9, LinkNumbers DEF Typed, Counters
    <3>11. a + d + x + y <= st.tok
      BY <2>1, <3>3, <3>6, <3>9, <3>10 DEF Covered, Allowed, One
    <3>12. a + d + (x + Interval) + y <= st.tok + Interval
      BY <3>10, <3>11, PortConstants
    <3>13. Allowed(r) = st.tok + Interval
      BY <1>2, <2>3, <3>10, PortConstants DEF Allowed, One
    <3>14. i > 0 => i = 1 /\ Head(r.pipe).type \in Greets /\ p.tok = 0
      <4>1. i > 0 => i = 1 /\ Head(q).type \in Greets /\ p.tok = 0
        BY <2>1, <3>3, <3>6 DEF Covered
      <4>2. Inits(<<>>) = 0
        BY CountShort DEF Inits
      <4>3. i > 0 => Head(r.pipe) = Head(q)
        BY <2>3, <3>1, <3>3, <3>4, <3>6, <4>2
      <4> QED
        BY <4>1, <4>3
    <3> QED
      BY <3>7, <3>8, <3>9, <3>12, <3>13, <3>14 DEF Covered
  <2> QED
    BY <1>1, <2>2, <2>3
<1>5. Linked(r, u, p)
  BY <1>2, <1>4 DEF Old, Linked, NotYet, Returns
<1> QED
  BY <1>1, <1>2, <1>3, <1>5 DEF Old

\* spice_char_device_write_buffer_release, of a buffer of the client's or of another.
LEMMA OldRelease ==
  ASSUME NEW st, Typed(st), st.msg = "none", st.free < Interval, NEW u \in Seq(Up), NEW p \in Clients,
         Old(st, u, p), NEW b, b = "client" => st.client, NEW r, r = WriteBufferRelease(st, b)
  PROVE  Old(r, u, p) /\ r.msg = "none" /\ DOMAIN r = Fields /\ r.calls \in Seq(Pending)
<1>1. DOMAIN st = Fields /\ st.calls \in Seq(Pending) /\ "self" \in Fields
  BY DEF Typed, Fields, Counters
<1>2. CASE b = "client"
  <2>1. r = ClientTokensAdd(st)
    BY <1>2 DEF WriteBufferRelease
  <2> QED
    BY <1>2, <2>1, OldTokens DEF Typed
<1>3. CASE b = "server"
  <2>1. PICK t : t = [st EXCEPT !.self = @ + 1]
    OBVIOUS
  <2>2. DOMAIN t = Fields /\ t.calls = st.calls /\ \A f \in Seen : t[f] = st[f]
    BY <1>1, <2>1 DEF Seen, Fields, Flags, Counters
  <2>3. Same(t, st)
    BY <1>1, <2>2, SameFields
  <2>4. r = t \/ r = AgentMouseEvent(t)
    BY <1>3, <2>1 DEF WriteBufferRelease
  <2>5. Same(AgentMouseEvent(t), t)
    BY <1>1, <2>2, HandlersSame
  <2>6. Same(r, st)
    BY <1>1, <2>3, <2>4, <2>5, SameTwice
  <2> QED
    BY <1>1, <2>6, OldSame DEF Same
<1>4. CASE b # "client" /\ b # "server"
  BY <1>1, <1>4 DEF WriteBufferRelease
<1> QED
  BY <1>2, <1>3, <1>4

\* reds_client_disconnect: what remains when the client has gone.
LEMMA OldDisconnect ==
  ASSUME NEW st, DOMAIN st = Fields, st.calls \in Seq(Pending), st.msg = "none",
         NEW u, NEW p, Old(st, u, p), NEW r, r = ClientDisconnect(st), NEW v
  PROVE  Old(r, v, p)
<1>1. PICK k : k = ClientRemove(st)
  OBVIOUS
<1>2. /\ DOMAIN k = Fields /\ k.calls = st.calls /\ k.started = st.started /\ k.vdagent = st.vdagent
      /\ k.held = st.held /\ k.fault = st.fault
  BY <1>1 DEF ClientRemove, Fields, Flags, Counters
<1>3. PICK g : g = Gone(st)
  OBVIOUS
<1>4. /\ DOMAIN g = Fields /\ g.calls = st.calls /\ g.started = st.started /\ g.vdagent = st.vdagent
      /\ g.held = st.held /\ g.fault = st.fault /\ g.conn = FALSE /\ g.accept = FALSE /\ g.out = 0
      /\ g.msg = "none"
  BY <1>1, <1>2, <1>3 DEF Gone, Fields, Flags, Counters
<1>5. \E c : Mild(c) /\ r = Call(g, c)
  <2>1. "goodbye" \in Plain /\ "write" \in Plain /\ "read" \in Plain
    BY DEF Pending, Plain
  <2>2. Mild(<<>>) /\ Mild(Wakeup \o <<"goodbye">>)
    BY <2>1, MildCalls DEF Wakeup
  <2>3. Mild(<<>> \o <<"goodbye">>)
    <3>1. <<>> \o <<"goodbye">> = <<"goodbye">>
      OBVIOUS
    <3> QED
      BY <2>1, <3>1, MildCalls
  <2>4. \/ r = Call(g, <<>>) \/ r = Call(g, Wakeup \o <<"goodbye">>)
        \/ r = Call(g, <<>> \o <<"goodbye">>)
    BY <1>3 DEF ClientDisconnect, Gone
  <2> QED
    BY <2>2, <2>3, <2>4
<1>6. Same(r, g)
  BY <1>4, <1>5, PartsSame
<1>7. Old(g, v, p)
  <2>1. Begun(g)
    BY <1>4 DEF Old, Begun, Under
  <2>2. Receives(g, v)
    BY <1>4 DEF Old, Receives
  <2>3. Linked(g, v, p)
    BY <1>4 DEF Linked
  <2> QED
    BY <2>1, <2>2, <2>3 DEF Old
<1> QED
  BY <1>4, <1>6, <1>7, OldSame

\* A buffer is released, and the push of its tokens may find the client gone.
LEMMA OldReleased ==
  ASSUME NEW st, Typed(st), st.msg = "none", st.free < Interval, up \in Seq(Up), NEW p \in Clients,
         Old(st, up, p), NEW b, b = "client" => st.client, Released(st, b)
  PROVE  Old(s', up', p)
<1>1. PICK r : r = WriteBufferRelease(st, b)
  OBVIOUS
<1>2. Old(r, up, p) /\ r.msg = "none" /\ DOMAIN r = Fields /\ r.calls \in Seq(Pending)
  BY <1>1, OldRelease
<1>3. (s' = r /\ up' = up) \/ s' = ClientDisconnect(r)
  BY <1>1 DEF Released
<1>4. CASE s' = r /\ up' = up
  BY <1>2, <1>4
<1>5. CASE s' = ClientDisconnect(r)
  BY <1>2, <1>5, OldDisconnect
<1> QED
  BY <1>3, <1>4, <1>5

\* Where the main thread is when a step is taken.
LEMMA OldFacts ==
  ASSUME PortInv, ~mode.split, Old(s, up, peer)
  PROVE  /\ Typed(s) /\ DOMAIN s = Fields /\ s.calls \in Seq(Pending) /\ up \in Seq(Up)
         /\ peer \in Clients /\ s.free < Interval /\ count.conns \in Nat /\ s.tok \in Nat
         /\ s.client => s.base /\ s.conn
         /\ s.conn => count.conns > 0
         /\ s.calls # <<>> => s.msg = "none"
         /\ Quiet => s.msg = "none" /\ s.calls = <<>> /\ \A C : Under(s, C) = 0
         /\ InDevice => s.msg = "none"
         /\ s.msg = "none" => s.held = 0
<1>1. Typed(s) /\ Good(s, NoBuf, count.conns, room, agent, mode.notify) /\ up \in Seq(Up)
      /\ count.conns \in Nat /\ (s.calls = <<>> => \A C : Under(s, C) = 0)
  BY PortFacts
<1>2. DOMAIN s = Fields /\ s.calls \in Seq(Pending) /\ s.tok \in Nat
  BY <1>1 DEF Typed, Counters
<1>3. s.free < Interval /\ (s.client => s.base /\ s.conn) /\ (s.conn => count.conns > 0)
  BY <1>1 DEF Good, TokenInv, LinkInv
<1>4. peer \in Clients
  BY DEF PortInv, TypeInv, Clients
<1>5. /\ s.calls # <<>> => s.msg = "none"
      /\ s.msg = "none" => s.held = 0
  BY DEF Old, Receives
<1>6. Quiet => s.msg = "none" /\ s.calls = <<>> /\ \A C : Under(s, C) = 0
  BY <1>1 DEF Quiet, Idle
<1>7. InDevice => s.msg = "none"
  BY <1>5, <1>6 DEF InDevice, Writing, Reading, Top
<1> QED
  BY <1>1, <1>2, <1>3, <1>4, <1>5, <1>6, <1>7

\* The steps of the server that read and write, and call one another.
LEMMA ServerSame ==
  ASSUME PortInv, ~mode.split, Old(s, up, peer),
         \/ CallWrite \/ CallRead \/ WriteNothingLeft \/ ReadNoMore \/ WriteBlocked \/ ReadNull
         \/ WriteRefused \/ ReadDiscarded \/ ReadFails \/ StartLoop \/ Goodbye
  PROVE  Old(s', up', peer')
<1>1. DOMAIN s = Fields /\ s.calls \in Seq(Pending)
  BY OldFacts
<1>2. s.calls # <<>> /\ s.msg = "none" /\ UNCHANGED <<up, peer>>
  <2>1. s.calls # <<>>
    BY DEF CallWrite, CallRead, WriteNothingLeft, ReadNoMore, WriteBlocked, ReadNull, WriteRefused,
           ReadDiscarded, ReadFails, StartLoop, Goodbye, Top, Writing, Reading
  <2>2. UNCHANGED <<up, peer>>
    BY DEF CallWrite, CallRead, WriteNothingLeft, ReadNoMore, WriteBlocked, ReadNull, WriteRefused,
           ReadDiscarded, ReadFails, StartLoop, Goodbye, world
  <2> QED
    BY <2>1, <2>2, OldFacts
<1>3. PICK y : y = Return(s)
  OBVIOUS
<1>4. Same(y, s)
  BY <1>1, <1>2, <1>3, PartsSame
<1>5. DOMAIN y = Fields /\ y.calls \in Seq(Pending)
  BY <1>4 DEF Same
<1>6. Seen \subseteq Fields /\ "calls" \in Fields
      /\ Seen \cap {"calls", "got", "busyW", "busyR", "didW", "didR", "retry", "left"} = {}
  BY DEF Seen, Fields, Flags, Counters
<1>7. ASSUME NEW t, DOMAIN t = Fields, t.calls = y.calls, \A f \in Seen : t[f] = y[f],
             s' = t \/ \E c : Mild(c) /\ s' = Call(t, c)
      PROVE  Same(s', s)
  <2>1. Same(t, y)
    BY <1>5, <1>7, SameFields
  <2>2. Same(t, s)
    BY <1>1, <1>4, <2>1, SameTwice
  <2>3. \A c : Mild(c) => Same(Call(t, c), t)
    BY <1>5, <1>7, PartsSame
  <2>4. s' = t \/ Same(s', t)
    BY <1>7, <2>3
  <2> QED
    BY <1>1, <2>2, <2>4, SameTwice
<1>8. /\ Mild(<<>>) /\ Mild(Wakeup) /\ Mild(<<"writing">>) /\ Mild(<<"reading">>) /\ Mild(<<"write_refused">>)
      /\ Mild(<<"read_failed">>) /\ Mild(<<"start">>) /\ Mild(<<"write", "wrote">>)
      /\ Mild(<<"read", "did_read">>)
  <2>1. {"writing", "reading", "write_refused", "read_failed", "start", "write", "wrote", "read", "did_read"}
            \subseteq Plain
    BY DEF Pending, Plain
  <2> QED
    BY <2>1, MildCalls
<1>9. CASE CallWrite
  <2>1. PICK t : t = [y EXCEPT !.busyW = 1, !.didW = FALSE, !.retry = FALSE]
    OBVIOUS
  <2>2. PICK u, w : u = [y EXCEPT !.got = FALSE] /\ w = [y EXCEPT !.busyW = 2, !.got = FALSE]
    OBVIOUS
  <2>3. s' = u \/ s' = w \/ s' = Call(t, <<"writing">>)
    BY <1>3, <1>9, <2>1, <2>2 DEF CallWrite
  <2>4. DOMAIN t = Fields /\ t.calls = y.calls /\ \A f \in Seen : t[f] = y[f]
    BY <1>5, <1>6, <2>1
  <2>5. DOMAIN u = Fields /\ u.calls = y.calls /\ \A f \in Seen : u[f] = y[f]
    BY <1>5, <1>6, <2>2
  <2>6. DOMAIN w = Fields /\ w.calls = y.calls /\ \A f \in Seen : w[f] = y[f]
    BY <1>5, <1>6, <2>2
  <2>7. Same(s', s)
    BY <1>7, <1>8, <2>3, <2>4, <2>5, <2>6
  <2> QED
    BY <1>1, <1>2, <2>7, OldSame
<1>10. CASE CallRead
  <2>1. PICK l : l = IF s.client THEN s.send ELSE 0
    OBVIOUS
  <2>a. PICK t : t = [y EXCEPT !.busyR = 1, !.didR = FALSE, !.left = l]
    OBVIOUS
  <2>2. PICK u, w : u = [y EXCEPT !.got = FALSE] /\ w = [y EXCEPT !.busyR = 2, !.got = FALSE]
    OBVIOUS
  <2>3. s' = u \/ s' = w \/ s' = Call(t, <<"reading">>)
    BY <1>3, <1>10, <2>1, <2>2, <2>a DEF CallRead
  <2>4. DOMAIN t = Fields /\ t.calls = y.calls /\ \A f \in Seen : t[f] = y[f]
    BY <1>5, <1>6, <2>a
  <2>5. DOMAIN u = Fields /\ u.calls = y.calls /\ \A f \in Seen : u[f] = y[f]
    BY <1>5, <1>6, <2>2
  <2>6. DOMAIN w = Fields /\ w.calls = y.calls /\ \A f \in Seen : w[f] = y[f]
    BY <1>5, <1>6, <2>2
  <2>7. Same(s', s)
    BY <1>7, <1>8, <2>3, <2>4, <2>5, <2>6
  <2> QED
    BY <1>1, <1>2, <2>7, OldSame
<1>11. CASE WriteNothingLeft \/ ReadNoMore
  <2>1. s' = WriteDone(s) \/ s' = ReadDone(s)
    BY <1>11 DEF WriteNothingLeft, ReadNoMore
  <2>2. Same(s', s)
    BY <1>1, <1>2, <2>1, HandlersSame
  <2> QED
    BY <1>1, <1>2, <2>2, OldSame
<1>12. CASE WriteBlocked \/ ReadNull
  <2>1. PICK t, u : t = [y EXCEPT !.busyW = 1] /\ u = [y EXCEPT !.busyR = 1]
    OBVIOUS
  <2>2. DOMAIN t = Fields /\ t.calls = y.calls /\ \A f \in Seen : t[f] = y[f]
    BY <1>5, <1>6, <2>1
  <2>a. DOMAIN u = Fields /\ u.calls = y.calls /\ \A f \in Seen : u[f] = y[f]
    BY <1>5, <1>6, <2>1
  <2>3. \/ s' = WriteDone(s) \/ s' = ReadDone(s)
        \/ s' = Call(t, <<"writing">>) \/ s' = Call(u, <<"reading">>)
    BY <1>3, <1>12, <2>1 DEF WriteBlocked, ReadNull
  <2>4. Same(WriteDone(s), s) /\ Same(ReadDone(s), s)
    BY <1>1, <1>2, HandlersSame
  <2>5. Same(s', s)
    BY <1>7, <1>8, <2>2, <2>3, <2>4, <2>a
  <2> QED
    BY <1>1, <1>2, <2>5, OldSame
<1>13. CASE WriteRefused
  <2>1. PICK k : k = Taken(s)
    OBVIOUS
  <2>2. Same(k, s) /\ DOMAIN k = Fields /\ k.calls = s.calls
    <3>1. Same(k, s)
      BY <1>1, <2>1, PartsSame
    <3>2. k.calls = s.calls
      BY <1>1, <1>6, <2>1 DEF Taken
    <3> QED
      BY <3>1, <3>2 DEF Same
  <2>3. PICK z : z = Return(k)
    OBVIOUS
  <2>4. Same(z, k)
    BY <1>1, <1>2, <2>2, <2>3, PartsSame
  <2>5. PICK part \in BOOLEAN : s' = Call([z EXCEPT !.didW = @ \/ part], <<"write_refused">>)
    BY <1>13, <2>1, <2>3 DEF WriteRefused
  <2>6. PICK t : t = [z EXCEPT !.didW = @ \/ part]
    OBVIOUS
  <2>7. DOMAIN z = Fields /\ z.calls \in Seq(Pending)
    BY <2>4 DEF Same
  <2>8. DOMAIN t = Fields /\ t.calls = z.calls /\ \A f \in Seen : t[f] = z[f]
    BY <1>6, <2>6, <2>7
  <2>9. Same(t, z)
    BY <2>7, <2>8, SameFields
  <2>10. Same(s', t)
    BY <1>8, <2>5, <2>6, <2>7, <2>8, PartsSame
  <2>11. Same(z, s)
    BY <1>1, <2>2, <2>4, SameTwice
  <2>12. Same(t, s)
    BY <1>1, <2>9, <2>11, SameTwice
  <2>13. Same(s', s)
    BY <1>1, <2>10, <2>12, SameTwice
  <2> QED
    BY <1>1, <1>2, <2>13, OldSame
<1>14. CASE ReadDiscarded \/ ReadFails \/ StartLoop \/ Goodbye
  <2>1. \/ s' = Call(s, Wakeup) \/ s' = WriteBufferAdd(y, "no_token")
        \/ \E c : s' = Call(y, c) /\ Mild(c)
    BY <1>3, <1>8, <1>14 DEF ReadDiscarded, ReadFails, StartLoop, Goodbye
  <2>2. Same(Call(s, Wakeup), s)
    BY <1>1, <1>8, PartsSame
  <2>3. Same(WriteBufferAdd(y, "no_token"), y)
    BY <1>5, HandlersSame
  <2>4. Same(WriteBufferAdd(y, "no_token"), s)
    BY <1>1, <1>4, <2>3, SameTwice
  <2>5. Same(s', s)
    BY <1>5, <1>7, <2>1, <2>2, <2>4
  <2> QED
    BY <1>1, <1>2, <2>5, OldSame
<1> QED
  BY <1>9, <1>10, <1>11, <1>12, <1>13, <1>14

\* The events of the device that begin a write or a read, and the mouse.
LEMMA DeviceSame ==
  ASSUME PortInv, ~mode.split, Old(s, up, peer),
         GuestReads \/ GuestWrites \/ WriteRetry \/ VmStop \/ VmStart \/ MouseEvent
  PROVE  Old(s', up', peer')
<1>1. DOMAIN s = Fields /\ s.calls \in Seq(Pending)
  BY OldFacts
<1>2. s.msg = "none" /\ UNCHANGED <<up, peer>>
  <2>1. InDevice
    BY DEF InDevice, GuestReads, GuestWrites, WriteRetry, VmStop, VmStart, MouseEvent
  <2>2. UNCHANGED <<up, peer>>
    BY DEF GuestReads, GuestWrites, WriteRetry, VmStop, VmStart, MouseEvent, world
  <2> QED
    BY <2>1, <2>2, OldFacts
<1>3. Mild(<<>>) /\ Mild(Wakeup) /\ Mild(<<"write">>) /\ Mild(<<"start">>)
  <2>1. {"write", "start"} \subseteq Plain
    BY DEF Pending, Plain
  <2> QED
    BY <2>1, MildCalls
<1>4. ASSUME NEW t, Same(t, s), s' = t \/ s' = Stop(t) \/ \E c : Mild(c) /\ s' = Call(t, c)
      PROVE  Old(s', up', peer')
  <2>1. DOMAIN t = Fields /\ t.calls \in Seq(Pending)
    BY <1>4 DEF Same
  <2>2. s' = t \/ Same(s', t)
    BY <1>4, <2>1, PartsSame
  <2>3. Same(s', s)
    BY <1>1, <1>4, <2>2, SameTwice
  <2> QED
    BY <1>1, <1>2, <2>3, OldSame
<1>5. CASE GuestReads \/ GuestWrites
  <2>1. PICK k : k = Inside(s)
    OBVIOUS
  <2>2. Same(k, s)
    <3>1. Same(Taken(s), s)
      BY <1>1, PartsSame
    <3>2. Same(s, s)
      BY <1>1, SameFields
    <3> QED
      BY <2>1, <3>1, <3>2 DEF Inside
  <2>3. \E c : Mild(c) /\ s' = Call(k, c)
    BY <1>3, <1>5, <2>1 DEF GuestReads, GuestWrites
  <2> QED
    BY <1>4, <2>2, <2>3
<1>6. CASE WriteRetry \/ VmStop \/ VmStart
  <2>1. PICK t : t = [s EXCEPT !.retry = FALSE]
    OBVIOUS
  <2>2. PICK u, v : u = [s EXCEPT !.vm = FALSE] /\ v = [s EXCEPT !.vm = TRUE]
    OBVIOUS
  <2>3. PICK w : w = [v EXCEPT !.running = TRUE]
    OBVIOUS
  <2>4. Seen \subseteq Fields /\ "calls" \in Fields /\ Seen \cap {"calls", "retry", "vm", "running"} = {}
    BY DEF Seen, Fields, Flags, Counters
  <2>5. DOMAIN t = Fields /\ t.calls = s.calls /\ \A f \in Seen : t[f] = s[f]
    BY <1>1, <2>1, <2>4
  <2>6. DOMAIN u = Fields /\ u.calls = s.calls /\ \A f \in Seen : u[f] = s[f]
    BY <1>1, <2>2, <2>4
  <2>7. DOMAIN v = Fields /\ v.calls = s.calls /\ \A f \in Seen : v[f] = s[f]
    BY <1>1, <2>2, <2>4
  <2>8. DOMAIN w = Fields /\ w.calls = s.calls /\ \A f \in Seen : w[f] = s[f]
    BY <2>3, <2>4, <2>7
  <2>9. Same(t, s) /\ Same(u, s) /\ Same(v, s) /\ Same(w, s)
    BY <1>1, <2>5, <2>6, <2>7, <2>8, SameFields
  <2>10. s' = Call(t, <<"write">>) \/ s' = Stop(u) \/ s' = v \/ s' = Call(w, <<"start">>)
    BY <1>6, <2>1, <2>2, <2>3 DEF WriteRetry, VmStop, VmStart
  <2> QED
    BY <1>3, <1>4, <2>9, <2>10
<1>7. CASE MouseEvent
  <2>1. Same(s', s)
    BY <1>1, <1>7, HandlersSame DEF MouseEvent
  <2> QED
    BY <1>1, <1>2, <2>1, OldSame
<1> QED
  BY <1>5, <1>6, <1>7

\* A buffer of the client's is to be written only while the client is known.
LEMMA ClientBuffer ==
  ASSUME PortInv, s.cur = "client" \/ (s.queue # <<>> /\ Head(s.queue) = "client")
  PROVE  s.client
<1>1. Typed(s) /\ TokenInv(s, count.conns, NoBuf)
  BY DEF PortInv, TypeInv, Good
<1>2. PICK q \in Seq(Origins) : q = s.queue
  BY <1>1 DEF Typed
<1>3. PICK k \in Nat, m \in Nat : k = Count(q, {"client"}) /\ m = Is(s.cur, "client")
  BY CountType DEF Is
<1>4. q # <<>> => Count(Tail(q), {"client"}) = k - Is(Head(q), "client") /\ Tail(q) \in Seq(Origins)
  BY <1>3, BufsQueue
<1>5. q # <<>> => Count(Tail(q), {"client"}) \in Nat
  BY <1>4, CountType
<1>6. k + m > 0
  BY <1>2, <1>3, <1>4, <1>5 DEF Is
<1>7. Is(NoBuf, "client") = 0 /\ Bufs(s, "client") = k + m
  BY <1>2, <1>3 DEF Is, NoBuf, Bufs
<1>8. ~s.client => k + m + 0 = 0
  BY <1>1, <1>7 DEF TokenInv
<1> QED
  BY <1>6, <1>8

\* A buffer that was taken off is released.
LEMMA HandOld ==
  ASSUME PortInv, ~mode.split, Old(s, up, peer), s.msg = "none", NEW t, Typed(t), Same(t, s),
         t.free = s.free, NEW b, b = "client" => s.client, Released(t, b), peer' = peer
  PROVE  Old(s', up', peer')
<1>1. s.calls \in Seq(Pending) /\ up \in Seq(Up) /\ peer \in Clients /\ s.free < Interval
  BY OldFacts
<1>2. Old(t, up, peer) /\ t.msg = "none"
  BY <1>1, OldSame
<1>3. t.client = s.client
  BY DEF Same, Seen
<1> QED
  BY <1>1, <1>2, <1>3, OldReleased

\* The buffer at hand is written.
LEMMA WriteBufferOld == ASSUME PortInv, ~mode.split, Old(s, up, peer), WriteBuffer PROVE Old(s', up', peer')
<1>1. /\ Typed(s) /\ s.calls # <<>> /\ Head(s.calls) = "writing" /\ ToWrite(s)
      /\ Good(s, NoBuf, count.conns, room, agent, mode.notify) /\ peer' = peer
  BY DEF PortInv, TypeInv, WriteBuffer, Writing, Top, ToWrite
<1>2. DOMAIN s = Fields /\ s.calls \in Seq(Pending) /\ s.msg = "none"
  BY <1>1, OldFacts
<1>3. PICK t : t = Taken(s)
  OBVIOUS
<1>4. /\ Typed(t) /\ Only(t, s, {"queue", "cur"}) /\ t.cur \in Origins /\ t.cur # NoBuf
      /\ Good(t, NoBuf, count.conns, room, agent, mode.notify)
  BY <1>1, <1>3, TakenGood
<1>5. t.calls = s.calls
  BY <1>4 DEF Only, Fields
<1>6. PICK w : w = [t EXCEPT !.cur = NoBuf, !.didW = TRUE]
  OBVIOUS
<1>7. Typed(w) /\ Only(w, t, {"cur", "didW"})
  BY <1>1, <1>4, <1>5, <1>6, HandGood
<1>8. DOMAIN w = Fields /\ w.calls = s.calls /\ w.free = s.free /\ \A f \in Seen : w[f] = s[f]
  BY <1>2, <1>4, <1>7 DEF Only, Seen, Fields, Flags, Counters
<1>9. Same(w, s)
  BY <1>2, <1>8, SameFields
<1>10. Released(w, t.cur)
  BY <1>3, <1>6 DEF WriteBuffer
<1>11. t.cur = "client" => s.client
  <2>1. t.cur = s.cur \/ (s.queue # <<>> /\ t.cur = Head(s.queue))
    BY <1>1, <1>2, <1>3 DEF Taken, ToWrite, Fields
  <2> QED
    BY <2>1, ClientBuffer
<1> QED
  BY <1>1, <1>2, <1>7, <1>8, <1>9, <1>10, <1>11, HandOld

\* The buffers of a device that is reset.
LEMMA ResetQueueOld == ASSUME PortInv, ~mode.split, Old(s, up, peer), ResetQueue PROVE Old(s', up', peer')
<1>1. Typed(s) /\ s.calls # <<>> /\ s.queue # <<>> /\ peer' = peer
  BY DEF PortInv, TypeInv, ResetQueue, Top
<1>2. DOMAIN s = Fields /\ s.calls \in Seq(Pending) /\ s.msg = "none"
  BY <1>1, OldFacts
<1>3. PICK q \in Seq(Origins) : q = s.queue
  BY <1>1 DEF Typed
<1>4. Tail(q) \in Seq(Origins) /\ Head(q) \in Origins
  BY <1>1, <1>3, BufsQueue
<1>5. PICK p \in Seq(Origins), h \in Origins : p = Tail(q) /\ h = Head(q)
  BY <1>4
<1>6. PICK t : t = [s EXCEPT !.queue = p]
  OBVIOUS
<1>7. Released(t, h)
  BY <1>3, <1>5, <1>6 DEF ResetQueue
<1>8. Only(t, s, {"queue"}) /\ t.queue = p
  BY <1>2, <1>6 DEF Only, Fields
<1>9. Typed(t)
  <2>2. Fits(t.queue, "queue")
    BY <1>8, FitsSeqs
  <2>3. \A f \in {"queue"} : Fits(t[f], f)
    BY <2>2
  <2> QED
    BY <1>1, <1>8, <2>3, TypedFits
<1>10. DOMAIN t = Fields /\ t.calls = s.calls /\ t.free = s.free /\ \A f \in Seen : t[f] = s[f]
  BY <1>2, <1>8 DEF Only, Seen, Fields, Flags, Counters
<1>11. Same(t, s)
  BY <1>2, <1>10, SameFields
<1>12. h = "client" => s.client
  BY <1>1, <1>3, <1>5, ClientBuffer
<1> QED
  BY <1>1, <1>2, <1>7, <1>9, <1>10, <1>11, <1>12, HandOld

\* The buffer that was being written.
LEMMA ResetCurrentOld == ASSUME PortInv, ~mode.split, Old(s, up, peer), ResetCurrent PROVE Old(s', up', peer')
<1>1. /\ Typed(s) /\ s.calls # <<>> /\ Head(s.calls) = "reset" /\ "reset" \in Pending /\ peer' = peer
  BY DEF PortInv, TypeInv, ResetCurrent, Top, Pending
<1>2. DOMAIN s = Fields /\ s.calls \in Seq(Pending) /\ s.msg = "none"
  BY <1>1, OldFacts
<1>3. PICK y : y = Return(s)
  OBVIOUS
<1>4. Typed(y) /\ Only(y, s, {"calls"}) /\ Same(y, s)
  BY <1>1, <1>2, <1>3, ReturnEffect, PartsSame
<1>5. PICK t : t = [y EXCEPT !.cur = NoBuf]
  OBVIOUS
<1>6. Released(t, s.cur)
  BY <1>3, <1>5 DEF ResetCurrent
<1>7. Only(t, y, {"cur"}) /\ t.cur = NoBuf
  BY <1>4, <1>5 DEF Only, Typed, Fields
<1>8. Typed(t)
  <2>2. Fits(t.cur, "cur")
    BY <1>7, FitsKinds
  <2>3. \A f \in {"cur"} : Fits(t[f], f)
    BY <2>2
  <2> QED
    BY <1>4, <1>7, <2>3, TypedFits
<1>9. t.free = s.free
  BY <1>4, <1>7 DEF Only, Fields, Counters
<1>10. DOMAIN t = Fields /\ t.calls = y.calls /\ y.calls \in Seq(Pending) /\ \A f \in Seen : t[f] = y[f]
  BY <1>4, <1>7 DEF Only, Typed, Seen, Fields, Flags, Counters
<1>11. Same(t, y)
  BY <1>10, SameFields
<1>12. Same(t, s)
  BY <1>2, <1>4, <1>11, SameTwice
<1>13. s.cur = "client" => s.client
  BY ClientBuffer
<1> QED
  BY <1>1, <1>2, <1>6, <1>8, <1>9, <1>12, <1>13, HandOld

\* A message of the agent is read.
LEMMA ReadMessageOld == ASSUME PortInv, ~mode.split, Old(s, up, peer), ReadMessage PROVE Old(s', up', peer')
<1>1. s.calls # <<>> /\ peer' = peer
  BY DEF ReadMessage, Reading, Top
<1>2. DOMAIN s = Fields /\ s.calls \in Seq(Pending) /\ s.msg = "none" /\ Typed(s)
  BY <1>1, OldFacts
<1>3. PICK l : l = OneLess(s.left)
  OBVIOUS
<1>4. PICK t : t = [s EXCEPT !.didR = TRUE, !.left = l]
  OBVIOUS
<1>5. PICK w : w = [t EXCEPT !.send = @ - 1, !.bufs = @ - 1, !.out = @ + 1]
  OBVIOUS
<1>6. DOMAIN t = Fields /\ t.calls = s.calls /\ \A f \in Seen : t[f] = s[f]
  BY <1>2, <1>4 DEF Seen, Fields, Flags, Counters
<1>7. Same(t, s)
  BY <1>2, <1>6, SameFields
<1>8. \/ s' = Call(t, Wakeup) /\ up' = up
      \/ s.client /\ s' = w /\ up' = up
      \/ s.client /\ s' = ClientDisconnect(w)
  BY <1>3, <1>4, <1>5 DEF ReadMessage
<1>9. CASE s' = Call(t, Wakeup) /\ up' = up
  <2>1. Same(s', t)
    BY <1>2, <1>6, <1>9, MildCalls, PartsSame
  <2>2. Same(s', s)
    BY <1>2, <1>7, <2>1, SameTwice
  <2> QED
    BY <1>1, <1>2, <1>9, <2>2, OldSame
<1>10. ASSUME s.client PROVE Old(w, up, peer) /\ w.msg = "none" /\ DOMAIN w = Fields /\ w.calls \in Seq(Pending)
  <2>1. /\ w.vdagent = t.vdagent /\ w.conn = t.conn /\ w.client = t.client /\ w.started = t.started
        /\ w.accept = t.accept /\ w.tok = t.tok /\ w.held = t.held /\ w.calls = t.calls
        /\ w.msg = t.msg /\ w.pipe = t.pipe /\ w.fault = t.fault /\ DOMAIN w = Fields
    BY <1>5, <1>6 DEF Fields, Flags, Counters
  <2>2. Old(t, up, peer) /\ t.msg = "none" /\ t.client
    BY <1>2, <1>6, <1>7, <1>10, OldSame DEF Seen
  <2>3. Begun(w)
    BY <2>1, <2>2 DEF Old, Begun, Under
  <2>4. Receives(w, up) /\ Linked(w, up, peer)
    BY <2>1, <2>2 DEF Old, Receives, Linked, Covered, Allowed, NotYet, Returns
  <2> QED
    BY <1>2, <1>6, <2>1, <2>2, <2>3, <2>4 DEF Old
<1>11. CASE s.client /\ s' = w /\ up' = up
  BY <1>1, <1>10, <1>11
<1>12. CASE s.client /\ s' = ClientDisconnect(w)
  BY <1>1, <1>10, <1>12, OldDisconnect
<1> QED
  BY <1>8, <1>9, <1>11, <1>12

\* The client is told of an agent that comes or goes.
LEMMA OldTold ==
  ASSUME NEW st, NEW u \in Seq(Up), NEW p \in Clients, Old(st, u, p), st.msg = "none",
         NEW m \in {ToClient("CONNECTED", Window), ToClient("DISCONNECTED", 0)},
         NEW r, r.calls = st.calls, r.pipe = st.pipe \/ r.pipe = Append(st.pipe, m),
         \A f \in Seen \ {"vdagent", "pipe"} : r[f] = st[f], st.started => r.vdagent
  PROVE  Old(r, u, p) /\ r.msg = "none"
<1>1. /\ r.conn = st.conn /\ r.client = st.client /\ r.started = st.started
      /\ r.accept = st.accept /\ r.tok = st.tok /\ r.held = st.held /\ r.out = st.out
      /\ r.msg = st.msg /\ r.fault = st.fault
  BY DEF Seen
<1>2. Begun(r) /\ Receives(r, u)
  BY <1>1 DEF Old, Begun, Receives, Under
<1>3. ASSUME st.conn PROVE Covered(r, u, p)
  <2>1. Covered(st, u, p)
    BY <1>3 DEF Old, Linked
  <2>2. CASE r.pipe = st.pipe
    BY <1>1, <2>1, <2>2 DEF Covered, Allowed
  <2>3. CASE r.pipe = Append(st.pipe, m)
    <3>1. m \in Right /\ m.type # "TOKEN" /\ m.type \notin Greets
      BY PortConstants DEF Right, Down, Greets, ToClient
    <3>2. PICK q \in Seq(Right) : q = st.pipe
      BY <2>1 DEF Covered
    <3>3. /\ Append(q, m) \in Seq(Right) /\ Tokens(Append(q, m)) = Tokens(q) + One(m.type = "TOKEN")
          /\ Inits(Append(q, m)) = Inits(q) + One(m.type \in Greets)
          /\ q # <<>> => Head(Append(q, m)) = Head(q)
      BY <3>1, PipeEnds
    <3>4. Tokens(q) \in Nat /\ Inits(q) \in Nat
      BY PipeEnds
    <3>5. Tokens(r.pipe) = Tokens(q) /\ Inits(r.pipe) = Inits(q) /\ r.pipe \in Seq(Right)
      BY <2>3, <3>1, <3>2, <3>3, <3>4 DEF One
    <3>6. Inits(q) > 0 => Head(r.pipe) = Head(q)
      <4>1. Inits(<<>>) = 0
        BY CountShort DEF Inits
      <4> QED
        BY <2>3, <3>2, <3>3, <4>1
    <3>7. Allowed(r) = Allowed(st)
      BY <1>1 DEF Allowed
    <3> QED
      BY <2>1, <3>2, <3>5, <3>6, <3>7 DEF Covered
  <2> QED
    BY <2>2, <2>3
<1>4. Linked(r, u, p)
  BY <1>1, <1>3 DEF Old, Linked, NotYet, Returns
<1> QED
  BY <1>1, <1>2, <1>4 DEF Old

\* The end of reds_agent_remove: the agent was not started again meanwhile.
LEMMA AgentRemovedOld == ASSUME PortInv, ~mode.split, Old(s, up, peer), AgentRemoved PROVE Old(s', up', peer')
<1>1. /\ s.calls # <<>> /\ Head(s.calls) = "removed" /\ "removed" \in Pending /\ UNCHANGED <<up, peer>>
  BY DEF AgentRemoved, Top, Pending, world
<1>2. /\ Typed(s) /\ DOMAIN s = Fields /\ s.calls \in Seq(Pending) /\ s.msg = "none"
      /\ up \in Seq(Up) /\ peer \in Clients
  BY <1>1, OldFacts
<1>3. PICK y : y = Return(s)
  OBVIOUS
<1>4. Same(y, s)
  BY <1>1, <1>2, <1>3, PartsSame
<1>5. Old(y, up, peer) /\ y.msg = "none"
  BY <1>2, <1>4, OldSame
<1>6. ~s.started
  <2>1. Under(s, {"removed"}) > 0
    BY <1>1, <1>2, <1>3, ReturnEffect
  <2> QED
    BY <2>1 DEF Old, Begun
<1>7. ~y.started /\ DOMAIN y = Fields
  BY <1>4, <1>6 DEF Same, Seen
<1>8. s' = Removed(y)
  BY <1>3 DEF AgentRemoved
<1>9. PICK m : m = ToClient("DISCONNECTED", 0)
  OBVIOUS
<1>10. /\ s'.calls = y.calls /\ (s'.pipe = y.pipe \/ s'.pipe = Append(y.pipe, m))
       /\ \A f \in Seen \ {"vdagent", "pipe"} : s'[f] = y[f]
  <2>1. PICK q : (q = y.pipe \/ q = Append(y.pipe, m)) /\ s' = [y EXCEPT !.vdagent = FALSE, !.pipe = q]
    BY <1>8, <1>9 DEF Removed
  <2> QED
    BY <1>7, <2>1 DEF Seen, Fields, Flags, Counters
<1> QED
  BY <1>1, <1>2, <1>5, <1>7, <1>9, <1>10, OldTold

\* The end of reds_on_main_agent_start.
LEMMA AcceptOld == ASSUME PortInv, ~mode.split, Old(s, up, peer), Accept PROVE Old(s', up', peer')
<1>1. /\ s.calls # <<>> /\ Head(s.calls) = "accept" /\ "accept" \in Pending /\ UNCHANGED <<up, peer>>
  BY DEF Accept, Top, Pending, world
<1>2. Typed(s) /\ DOMAIN s = Fields /\ s.calls \in Seq(Pending) /\ s.msg = "none"
  BY <1>1, OldFacts
<1>3. PICK y : y = Return(s)
  OBVIOUS
<1>4. Same(y, s)
  BY <1>1, <1>2, <1>3, PartsSame
<1>5. Old(y, up, peer) /\ y.msg = "none"
  BY <1>2, <1>4, OldSame
<1>6. s.started
  <2>1. Under(s, {"accept"}) > 0
    BY <1>1, <1>2, <1>3, ReturnEffect
  <2> QED
    BY <2>1 DEF Old, Begun
<1>7. y.started /\ DOMAIN y = Fields
  BY <1>4, <1>6 DEF Same, Seen
<1>8. s' = [y EXCEPT !.accept = TRUE]
  BY <1>3 DEF Accept
<1>9. /\ s'.vdagent = y.vdagent /\ s'.conn = y.conn /\ s'.client = y.client /\ s'.started = y.started
      /\ s'.tok = y.tok /\ s'.held = y.held /\ s'.out = y.out /\ s'.calls = y.calls
      /\ s'.msg = y.msg /\ s'.pipe = y.pipe /\ s'.fault = y.fault
  BY <1>7, <1>8 DEF Fields, Flags, Counters
<1>10. Begun(s') /\ Receives(s', up)
  BY <1>5, <1>7, <1>9 DEF Old, Begun, Receives, Under
<1>11. Linked(s', up, peer)
  BY <1>5, <1>9 DEF Old, Linked, Covered, Allowed, NotYet, Returns
<1> QED
  BY <1>1, <1>10, <1>11 DEF Old

\* spice_server_char_device_add_interface.
LEMMA AttachOld == ASSUME PortInv, ~mode.split, Old(s, up, peer), Attach PROVE Old(s', up', peer')
<1>1. Quiet /\ UNCHANGED <<up, peer>>
  BY DEF Attach
<1>2. /\ Typed(s) /\ DOMAIN s = Fields /\ s.calls \in Seq(Pending) /\ s.msg = "none"
      /\ up \in Seq(Up) /\ peer \in Clients
  BY <1>1, OldFacts
<1>3. PICK y : y = IF s.base THEN s ELSE Create(s)
  OBVIOUS
<1>4. DOMAIN y = Fields /\ y.calls = s.calls /\ \A f \in Seen : y[f] = s[f]
  BY <1>2, <1>3 DEF Create, Seen, Fields, Flags, Counters
<1>5. Same(y, s)
  BY <1>2, <1>4, SameFields
<1>6. Old(y, up, peer) /\ y.msg = "none"
  BY <1>2, <1>5, OldSame
<1>7. PICK m : m = ToClient("CONNECTED", Window)
  OBVIOUS
<1>8. PICK q : q = IF s.conn THEN Append(y.pipe, m) ELSE y.pipe
  OBVIOUS
<1>9. PICK t : t = [y EXCEPT !.vdagent = TRUE, !.pipe = q]
  OBVIOUS
<1>10. /\ DOMAIN t = Fields /\ t.calls = y.calls /\ (t.pipe = y.pipe \/ t.pipe = Append(y.pipe, m))
       /\ t.vdagent = TRUE /\ \A f \in Seen \ {"vdagent", "pipe"} : t[f] = y[f]
  BY <1>4, <1>8, <1>9 DEF Seen, Fields, Flags, Counters
<1>11. Old(t, up, peer) /\ t.msg = "none"
  <2>1. m \in {ToClient("CONNECTED", Window), ToClient("DISCONNECTED", 0)} /\ (y.started => t.vdagent)
    BY <1>7, <1>10
  <2>2. up \in Seq(Up) /\ peer \in Clients
    BY <1>2
  <2>3. /\ t.calls = y.calls /\ (t.pipe = y.pipe \/ t.pipe = Append(y.pipe, m))
        /\ \A f \in Seen \ {"vdagent", "pipe"} : t[f] = y[f]
    BY <1>10
  <2> QED
    BY <1>6, <2>1, <2>2, <2>3, OldTold
<1>12. PICK w : w = [t EXCEPT !.running = TRUE]
  OBVIOUS
<1>13. s' = t \/ s' = Call(w, <<"start">>)
  BY <1>3, <1>7, <1>8, <1>9, <1>12 DEF Attach
<1>14. DOMAIN w = Fields /\ w.calls = t.calls /\ \A f \in Seen : w[f] = t[f]
  BY <1>10, <1>12 DEF Seen, Fields, Flags, Counters
<1>15. t.calls \in Seq(Pending) /\ w.calls \in Seq(Pending)
  BY <1>2, <1>4, <1>10, <1>14
<1>16. Same(w, t)
  BY <1>14, <1>15, SameFields
<1>17. Mild(<<"start">>)
  <2>1. "start" \in Plain
    BY DEF Pending, Plain
  <2> QED
    BY <2>1, MildCalls
<1>18. Same(Call(w, <<"start">>), w)
  BY <1>14, <1>15, <1>17, PartsSame
<1>19. Same(Call(w, <<"start">>), t)
  BY <1>15, <1>16, <1>18, SameTwice
<1>20. Old(Call(w, <<"start">>), up, peer)
  BY <1>11, <1>15, <1>19, OldSame
<1> QED
  BY <1>1, <1>11, <1>13, <1>20

\* reds_agent_remove: the client of a connection stays known, the agent is not started.
LEMMA DetachOld ==
  ASSUME PortInv, ~mode.split, ~mode.caps, Old(s, up, peer), Detach PROVE Old(s', up', peer')
<1>1. Quiet /\ UNCHANGED <<up, peer>>
  BY DEF Detach, world
<1>2. /\ Typed(s) /\ DOMAIN s = Fields /\ s.calls = <<>> /\ s.msg = "none"
      /\ s.held = 0 /\ (s.client => s.conn)
  BY <1>1, OldFacts
<1>3. PICK t : t = [s EXCEPT !.started = FALSE, !.accept = FALSE]
  OBVIOUS
<1>4. /\ DOMAIN t = Fields /\ t.calls = <<>> /\ t.started = FALSE /\ t.accept = FALSE
      /\ t.conn = s.conn /\ t.client = s.client /\ t.tok = s.tok /\ t.held = 0 /\ t.out = s.out
      /\ t.msg = "none" /\ t.pipe = s.pipe /\ t.fault = s.fault
  BY <1>2, <1>3 DEF Fields, Flags, Counters
<1>5. CASE s.conn
  <2>1. s' = Call(Stop(t), <<"reset", "removed">>)
    BY <1>3, <1>5 DEF Detach, TestRemoteCap
  <2>2. PICK c : c = <<"reset", "removed">>
    OBVIOUS
  <2>3. c \in Seq(Pending) /\ Count(c, {"accept"}) = 0
    <3>1. "reset" \in Pending /\ "removed" \in Pending
      BY DEF Pending
    <3>2. c \in Seq(Pending) /\ Count(c, {"accept"}) = In("reset", {"accept"}) + In("removed", {"accept"})
      BY <2>2, <3>1, TwoCalls
    <3> QED
      BY <3>2 DEF In
  <2>4. PICK w : w = Stop(t)
    OBVIOUS
  <2>5. /\ DOMAIN w = Fields /\ w.calls = <<>> /\ w.started = FALSE /\ w.accept = FALSE
        /\ w.conn = s.conn /\ w.client = s.client /\ w.tok = s.tok /\ w.held = 0 /\ w.out = s.out
        /\ w.msg = "none" /\ w.pipe = s.pipe /\ w.fault = s.fault
    BY <1>4, <2>4 DEF Stop, Fields, Flags, Counters
  <2>6. c \o w.calls = c
    BY <2>3, <2>5
  <2>7. s' = [w EXCEPT !.calls = c]
    BY <2>1, <2>2, <2>4, <2>6 DEF Call
  <2>8. /\ s'.calls = c /\ s'.started = FALSE /\ s'.accept = FALSE
        /\ s'.conn = s.conn /\ s'.client = s.client /\ s'.tok = s.tok /\ s'.held = 0 /\ s'.out = s.out
        /\ s'.msg = "none" /\ s'.pipe = s.pipe /\ s'.fault = s.fault
    BY <2>5, <2>7 DEF Fields, Flags, Counters
  <2>9. Begun(s') /\ Receives(s', up)
    BY <2>3, <2>8 DEF Old, Begun, Receives, Under
  <2>10. Linked(s', up, peer)
    BY <1>2, <2>8 DEF Old, Linked, Covered, Allowed, NotYet, Returns
  <2> QED
    BY <1>1, <2>9, <2>10 DEF Old
<1>6. CASE ~s.conn
  <2>1. s' = Removed(Destroy(t))
    BY <1>3, <1>6 DEF Detach, TestRemoteCap
  <2>2. ~s.client /\ s.out = 0
    <3>1. ~s.client /\ s.out \in Nat
      BY <1>2, <1>6 DEF Typed, Counters
    <3> QED
      BY <3>1 DEF Old, Begun
  <2>3. PICK d : d = Destroy(t)
    OBVIOUS
  <2>4. /\ DOMAIN d = Fields /\ d.calls = <<>> /\ d.started = FALSE /\ d.accept = FALSE
        /\ d.conn = s.conn /\ d.held = 0 /\ d.out = s.out /\ d.msg = "none" /\ d.fault = s.fault
    <3>1. ClientRemove(t) = t
      BY <1>4, <2>2 DEF ClientRemove
    <3> QED
      BY <1>4, <2>3, <3>1 DEF Destroy, Fields, Flags, Counters
  <2>5. /\ s'.calls = <<>> /\ s'.started = FALSE /\ s'.accept = FALSE
        /\ s'.conn = s.conn /\ s'.held = 0 /\ s'.out = s.out /\ s'.msg = "none" /\ s'.fault = s.fault
    BY <2>1, <2>3, <2>4 DEF Removed, Fields, Flags, Counters
  <2>6. Under(s', {"accept"}) = 0
    BY <2>5, CountShort DEF Under
  <2>7. Begun(s')
    BY <2>2, <2>5, <2>6 DEF Old, Begun
  <2>8. Receives(s', up) /\ Linked(s', up, peer)
    BY <1>6, <2>5 DEF Receives, Linked
  <2> QED
    BY <1>1, <2>7, <2>8 DEF Old
<1> QED
  BY <1>5, <1>6

\* reds_handle_main_link: the tokens of a new client are the ones that main_channel_push_init gives.
LEMMA ConnectOld == ASSUME PortInv, ~mode.split, Old(s, up, peer), Connect PROVE Old(s', up', peer')
<1>1. Quiet /\ ~s.conn /\ up' = <<>> /\ peer' = [tok |-> 0, agent |-> FALSE, owed |-> 0]
  BY DEF Connect
<1>2. DOMAIN s = Fields /\ s.calls = <<>> /\ s.msg = "none" /\ s.held = 0 /\ ~s.client
  BY <1>1, OldFacts
<1>3. PICK m : m = ToClient(IF s.vdagent THEN "INIT_AGENT" ELSE "INIT", Window)
  OBVIOUS
<1>4. m \in Right /\ m.type # "TOKEN" /\ m.type \in Greets
  BY <1>3, PortConstants DEF Right, Down, Greets, ToClient
<1>5. PICK q : q = <<m>>
  OBVIOUS
<1>6. q \in Seq(Right) /\ Tokens(q) = 0 /\ Inits(q) = 1 /\ Head(q) = m
  <2>1. <<>> \in Seq(Right) /\ Append(<<>>, m) = q /\ Head(q) = m
    BY <1>5
  <2>2. Tokens(<<>>) = 0 /\ Inits(<<>>) = 0
    BY CountShort DEF Tokens, Inits
  <2>3. /\ Append(<<>>, m) \in Seq(Right) /\ Tokens(Append(<<>>, m)) = Tokens(<<>>) + One(m.type = "TOKEN")
        /\ Inits(Append(<<>>, m)) = Inits(<<>>) + One(m.type \in Greets)
    BY <1>4, <2>1, PipeEnds
  <2>4. One(m.type = "TOKEN") = 0 /\ One(m.type \in Greets) = 1
    BY <1>4 DEF One
  <2>5. q \in Seq(Right) /\ Tokens(q) = 0 + 0 /\ Inits(q) = 0 + 1
    BY <2>1, <2>2, <2>3, <2>4
  <2> QED
    BY <2>1, <2>5
<1>7. s' = [s EXCEPT !.conn = TRUE, !.pipe = q]
  BY <1>3, <1>5 DEF Connect
<1>8. /\ s'.vdagent = s.vdagent /\ s'.client = s.client /\ s'.started = s.started
      /\ s'.accept = s.accept /\ s'.held = s.held /\ s'.out = s.out /\ s'.calls = s.calls
      /\ s'.msg = s.msg /\ s'.fault = s.fault /\ s'.pipe = q
  BY <1>2, <1>7 DEF Fields, Flags, Counters
<1>9. Begun(s') /\ Receives(s', up')
  BY <1>2, <1>8 DEF Old, Begun, Receives, Under
<1>10. Count(up', {"DATA"}) = 0 /\ Count(up', {"TOKEN"}) = 0 /\ DOMAIN up' = {}
  BY <1>1, CountShort
<1>11. Covered(s', up', peer')
  <2>1. Allowed(s') = Window
    BY <1>2, <1>8, PortConstants DEF Allowed, One
  <2>2. Interval * 0 = 0 /\ Window * 1 = Window
    BY PortConstants
  <2>3. peer'.tok + Count(up', {"DATA"}) + Interval * Tokens(q) + Window * Inits(q) = Window
    BY <1>1, <1>6, <1>10, <2>2, PortConstants
  <2> QED
    BY <1>1, <1>4, <1>6, <1>8, <2>1, <2>3, PortConstants DEF Covered
<1>12. NotYet(s', up', peer') /\ Returns(s', up', peer')
  BY <1>1, <1>10 DEF NotYet, Returns
<1> QED
  BY <1>9, <1>11, <1>12 DEF Old, Linked

\* The client is given up; no message is half received.
LEMMA GivenUpOld ==
  ASSUME PortInv, ~mode.split, Old(s, up, peer), ReadError \/ WriteError PROVE Old(s', up', peer')
<1>1. Quiet /\ peer' = peer
  BY DEF ReadError, WriteError
<1>2. DOMAIN s = Fields /\ s.calls \in Seq(Pending) /\ s.msg = "none" /\ s.fault = "none"
  BY <1>1, OldFacts DEF Old, Begun
<1>3. s' = ClientDisconnect(s)
  BY <1>2 DEF ReadError, WriteError
<1> QED
  BY <1>1, <1>2, <1>3, OldDisconnect

\* vdi_port_read_buf_release: only a client that is known owes tokens.
LEMMA AgentDataSentOld ==
  ASSUME PortInv, ~mode.split, Old(s, up, peer), AgentDataSent PROVE Old(s', up', peer')
<1>1. s.out > 0 /\ up' = up /\ peer' = [peer EXCEPT !.owed = @ + 1] /\ (Quiet \/ Reading)
  BY DEF AgentDataSent
<1>2. Typed(s) /\ DOMAIN s = Fields /\ s.calls \in Seq(Pending) /\ s.msg = "none" /\ peer \in Clients
  BY <1>1, OldFacts DEF InDevice
<1>3. s.client
  BY <1>1 DEF Old, Begun
<1>4. PICK t : t = [s EXCEPT !.out = @ - 1, !.bufs = @ + 1]
  OBVIOUS
<1>5. /\ DOMAIN t = Fields /\ t.vdagent = s.vdagent /\ t.conn = s.conn /\ t.client = s.client
      /\ t.started = s.started /\ t.accept = s.accept /\ t.tok = s.tok /\ t.held = s.held
      /\ t.calls = s.calls /\ t.msg = s.msg /\ t.pipe = s.pipe /\ t.fault = s.fault
  BY <1>2, <1>4 DEF Fields, Flags, Counters
<1>6. peer'.tok = peer.tok /\ peer'.agent = peer.agent
  BY <1>1, <1>2 DEF Clients
<1>7. Old(t, up, peer')
  <2>1. Begun(t) /\ Receives(t, up)
    BY <1>3, <1>5 DEF Old, Begun, Receives, Under
  <2>2. Linked(t, up, peer')
    BY <1>3, <1>5, <1>6 DEF Old, Linked, Covered, Allowed, NotYet, Returns
  <2> QED
    BY <2>1, <2>2 DEF Old
<1>8. s' = Call(t, Wakeup) \/ s' = Call(t, <<>>)
  BY <1>4 DEF AgentDataSent
<1>9. Same(s', t)
  BY <1>2, <1>5, <1>8, MildCalls, PartsSame
<1> QED
  BY <1>1, <1>2, <1>5, <1>7, <1>9, OldSame

\* The messages of the client on their way.
LEMMA UpEnds ==
  ASSUME NEW u \in Seq(Up)
  PROVE  /\ \A C : Count(u, C) \in Nat
         /\ \A x \in Up : \A C : Count(Append(u, x), C) = Count(u, C) + One(x \in C)
         /\ u # <<>> => /\ Tail(u) \in Seq(Up)
                        /\ \A C : /\ Count(Tail(u), C) = Count(u, C) - One(Head(u) \in C)
                                  /\ Count(Tail(u), C) \in Nat
<1>1. \A C : Count(u, C) \in Nat
  BY CountType
<1>2. \A x \in Up : \A C : Count(Append(u, x), C) = Count(u, C) + One(x \in C)
  BY CountQueue
<1>3. u # <<>> => Tail(u) \in Seq(Up)
  OBVIOUS
<1>4. u # <<>> => \A C : Count(Tail(u), C) = Count(u, C) - One(Head(u) \in C)
  BY CountQueue
<1>5. u # <<>> => \A C : Count(Tail(u), C) \in Nat
  BY <1>3, CountType
<1> QED
  BY <1>1, <1>2, <1>3, <1>4, <1>5

\* A message of the client that brings no data is handled.
LEMMA LinkedTail ==
  ASSUME NEW st, st.conn, NEW u \in Seq(Up), u # <<>>, Head(u) # "DATA", NEW p \in Clients, Linked(st, u, p),
         NEW r, r.conn, r.pipe = st.pipe, Allowed(r) = Allowed(st), r.started => r.client, st.client => r.client
  PROVE  Linked(r, Tail(u), p)
<1>1. Covered(r, Tail(u), p)
  <2>1. /\ Count(Tail(u), {"DATA"}) = Count(u, {"DATA"}) - One(Head(u) \in {"DATA"})
        /\ Count(u, {"DATA"}) \in Nat
    BY UpEnds
  <2>2. Count(Tail(u), {"DATA"}) = Count(u, {"DATA"})
    BY <2>1 DEF One
  <2> QED
    BY <2>2 DEF Linked, Covered
<1>2. Returns(r, Tail(u), p)
  <2>1. /\ Count(Tail(u), {"TOKEN"}) = Count(u, {"TOKEN"}) - One(Head(u) \in {"TOKEN"})
        /\ Count(u, {"TOKEN"}) \in Nat /\ Count(Tail(u), {"TOKEN"}) \in Nat
    BY UpEnds
  <2>2. Count(Tail(u), {"TOKEN"}) > 0 => Count(u, {"TOKEN"}) > 0
    BY <2>1 DEF One
  <2> QED
    BY <2>2 DEF Linked, Returns
<1>3. NotYet(r, Tail(u), p)
  BY DEF NotYet
<1> QED
  BY <1>1, <1>2, <1>3 DEF Linked

\* reds_on_main_agent_start: from now on the client is known.
LEMMA OnAgentStartOld ==
  ASSUME PortInv, ~mode.split, Old(s, up, peer), OnAgentStart PROVE Old(s', up', peer')
<1>1. /\ Quiet /\ s.conn /\ up # <<>> /\ Head(up) = "START" /\ up' = Tail(up) /\ peer' = peer
  BY DEF OnAgentStart, Received
<1>2. /\ Typed(s) /\ DOMAIN s = Fields /\ s.calls = <<>> /\ s.msg = "none" /\ s.held = 0
      /\ up \in Seq(Up) /\ peer \in Clients
  BY <1>1, OldFacts
<1>3. Linked(s, up, peer) /\ Begun(s)
  BY DEF Old
<1>4. CASE ~s.vdagent
  <2>1. s' = s /\ ~s.started
    BY <1>3, <1>4 DEF OnAgentStart, Begun
  <2>2. Linked(s', Tail(up), peer)
    BY <1>1, <1>2, <1>3, <2>1, LinkedTail
  <2>3. Receives(s', Tail(up))
    BY <1>2, <2>1 DEF Receives
  <2> QED
    BY <1>1, <1>3, <2>1, <2>2, <2>3 DEF Old
<1>5. CASE s.vdagent
  <2>1. PICK t : t = Call([s EXCEPT !.started = TRUE], <<"accept">>)
    OBVIOUS
  <2>2. PICK c : c = <<"accept">>
    OBVIOUS
  <2>3. c \in Seq(Pending) /\ Count(c, {"removed"}) = 0 /\ c \o <<>> = c
    <3>1. "accept" \in Pending
      BY DEF Pending
    <3>2. c \in Seq(Pending) /\ Count(c, {"removed"}) = In("accept", {"removed"})
      BY <2>2, <3>1, FewCalls
    <3> QED
      BY <3>2 DEF In
  <2>4. t = [s EXCEPT !.started = TRUE, !.calls = c]
    BY <1>2, <2>1, <2>2, <2>3 DEF Call, Fields, Flags
  <2>5. /\ DOMAIN t = Fields /\ t.calls = c /\ t.started = TRUE
        /\ t.vdagent = s.vdagent /\ t.conn = s.conn /\ t.client = s.client /\ t.accept = s.accept
        /\ t.tok = s.tok /\ t.held = 0 /\ t.out = s.out /\ t.msg = "none" /\ t.pipe = s.pipe
        /\ t.fault = s.fault
    BY <1>2, <2>4 DEF Fields, Flags, Counters
  <2>6. ASSUME NEW r, DOMAIN r = Fields, r.calls = c, r.started, r.client, r.vdagent = s.vdagent,
               r.conn = s.conn, r.accept = s.accept, r.tok = IF s.client THEN s.tok ELSE Window,
               r.held = 0, r.out = s.out, r.msg = "none", r.pipe = s.pipe, r.fault = s.fault
        PROVE  Old(r, Tail(up), peer)
    <3>1. Allowed(r) = Allowed(s)
      BY <1>2, <2>6 DEF Allowed
    <3>2. Linked(r, Tail(up), peer)
      BY <1>1, <1>2, <1>3, <2>6, <3>1, LinkedTail
    <3>3. Begun(r) /\ Receives(r, Tail(up))
      BY <1>3, <1>5, <2>3, <2>6 DEF Begun, Receives, Under
    <3> QED
      BY <3>2, <3>3 DEF Old
  <2>7. CASE s.client
    <3>1. PICK w : w = [t EXCEPT !.send = 0]
      OBVIOUS
    <3>2. s' = TokensAbsorb(w, SendTokens)
      BY <1>5, <2>1, <2>7, <3>1 DEF OnAgentStart
    <3>3. /\ DOMAIN w = Fields /\ w.calls = c /\ w.started /\ w.client /\ w.vdagent = s.vdagent
          /\ w.conn = s.conn /\ w.accept = s.accept /\ w.tok = s.tok /\ w.held = 0
          /\ w.out = s.out /\ w.msg = "none" /\ w.pipe = s.pipe /\ w.fault = s.fault
      BY <2>5, <2>7, <3>1 DEF Fields, Flags, Counters
    <3>4. Old(w, Tail(up), peer)
      BY <2>6, <2>7, <3>3
    <3>5. Same(s', w)
      BY <2>3, <3>2, <3>3, HandlersSame
    <3> QED
      BY <1>1, <2>3, <3>3, <3>4, <3>5, OldSame
  <2>8. CASE ~s.client
    <3>1. PICK w : w = Joined(t)
      OBVIOUS
    <3>2. s' = Call(w, Wakeup)
      BY <1>5, <2>1, <2>8, <3>1 DEF OnAgentStart, ClientAdd, Joined
    <3>3. /\ DOMAIN w = Fields /\ w.calls = c /\ w.started /\ w.client /\ w.vdagent = s.vdagent
          /\ w.conn = s.conn /\ w.accept = s.accept /\ w.tok = Window /\ w.held = 0
          /\ w.out = s.out /\ w.msg = "none" /\ w.pipe = s.pipe /\ w.fault = s.fault
      BY <2>5, <3>1 DEF Joined, Fields, Flags, Counters
    <3>4. Old(w, Tail(up), peer)
      BY <2>6, <2>8, <3>3
    <3>5. Same(s', w)
      BY <2>3, <3>2, <3>3, MildCalls, PartsSame
    <3> QED
      BY <1>1, <2>3, <3>3, <3>4, <3>5, OldSame
  <2> QED
    BY <2>7, <2>8
<1> QED
  BY <1>4, <1>5

\* reds_on_main_agent_tokens: a client that returns tokens is known.
LEMMA OnAgentTokensOld ==
  ASSUME PortInv, ~mode.split, Old(s, up, peer), OnAgentTokens PROVE Old(s', up', peer')
<1>1. /\ Quiet /\ s.conn /\ up # <<>> /\ Head(up) = "TOKEN" /\ up' = Tail(up) /\ peer' = peer
  BY DEF OnAgentTokens, Received
<1>2. /\ DOMAIN s = Fields /\ s.calls \in Seq(Pending) /\ s.msg = "none" /\ s.held = 0
      /\ up \in Seq(Up) /\ peer \in Clients
  BY <1>1, OldFacts
<1>3. s.client
  <2>1. /\ Count(Tail(up), {"TOKEN"}) = Count(up, {"TOKEN"}) - One(Head(up) \in {"TOKEN"})
        /\ Count(up, {"TOKEN"}) \in Nat /\ Count(Tail(up), {"TOKEN"}) \in Nat
    BY <1>1, <1>2, UpEnds
  <2>2. Count(up, {"TOKEN"}) > 0
    BY <1>1, <2>1 DEF One
  <2> QED
    BY <1>1, <2>2 DEF Old, Linked, Returns
<1>4. Old(s, Tail(up), peer)
  <2>1. Linked(s, Tail(up), peer)
    BY <1>1, <1>2, <1>3, LinkedTail DEF Old
  <2>2. Receives(s, Tail(up))
    BY <1>2 DEF Receives
  <2> QED
    BY <2>1, <2>2 DEF Old
<1>5. s' = s \/ s' = TokensAbsorb(s, 1)
  BY <1>3 DEF OnAgentTokens
<1>6. s' = s \/ Same(s', s)
  BY <1>2, <1>5, HandlersSame
<1> QED
  BY <1>1, <1>2, <1>4, <1>6, OldSame

\* reds_get_agent_data_buffer: a client that sends a message is known if the agent was started,
\* and it has a token left.
LEMMA GetAgentDataBufferOld ==
  ASSUME PortInv, ~mode.split, Old(s, up, peer), GetAgentDataBuffer PROVE Old(s', up', peer')
<1>1. Quiet /\ s.conn /\ up # <<>> /\ Head(up) = "DATA" /\ up' = up /\ peer' = peer
  BY DEF GetAgentDataBuffer, Received, world
<1>2. /\ Typed(s) /\ DOMAIN s = Fields /\ s.calls = <<>> /\ s.msg = "none" /\ s.held = 0
      /\ up \in Seq(Up) /\ peer \in Clients /\ s.tok \in Nat /\ count.conns > 0
  BY <1>1, OldFacts
<1>3. Covered(s, up, peer) /\ NotYet(s, up, peer) /\ Returns(s, up, peer) /\ Begun(s)
  BY <1>1 DEF Old, Linked
<1>4. CASE ~s.started
  <2>1. s' = [s EXCEPT !.msg = "malloc"]
    BY <1>4 DEF GetAgentDataBuffer
  <2>2. /\ s'.vdagent = s.vdagent /\ s'.conn = s.conn /\ s'.client = s.client /\ s'.started = s.started
        /\ s'.accept = s.accept /\ s'.tok = s.tok /\ s'.held = s.held /\ s'.out = s.out
        /\ s'.calls = s.calls /\ s'.pipe = s.pipe /\ s'.fault = s.fault /\ s'.msg = "malloc"
    BY <1>2, <2>1 DEF Fields, Flags, Counters
  <2>3. Begun(s') /\ Receives(s', up)
    BY <1>1, <1>2, <1>3, <1>4, <2>2 DEF Begun, Receives, Under
  <2>4. Covered(s', up, peer)
    <3>1. PICK a : a = IF s.client THEN s.tok ELSE Window
      OBVIOUS
    <3>2. a \in Nat /\ Allowed(s) = a + 0 /\ Allowed(s') = a + 1
      BY <1>2, <2>2, <3>1, PortConstants DEF Allowed, One
    <3>3. s.pipe \in Seq(Right)
      BY <1>3 DEF Covered
    <3>4. PICK x : x = peer.tok + Count(up, {"DATA"}) + Interval * Tokens(s.pipe) + Window * Inits(s.pipe)
      OBVIOUS
    <3>5. x \in Nat
      <4>1. /\ peer.tok \in Nat /\ Count(up, {"DATA"}) \in Nat
            /\ Interval * Tokens(s.pipe) \in Nat /\ Window * Inits(s.pipe) \in Nat
        BY <1>2, <3>3, LinkNumbers
      <4> QED
        BY <3>4, <4>1
    <3>6. x <= a + 0
      BY <1>3, <3>2, <3>4 DEF Covered
    <3>7. x <= a + 1
      BY <3>2, <3>5, <3>6
    <3> QED
      BY <1>3, <2>2, <3>2, <3>4, <3>7 DEF Covered
  <2>5. NotYet(s', up, peer) /\ Returns(s', up, peer)
    BY <1>3, <2>2 DEF NotYet, Returns
  <2> QED
    BY <1>1, <2>3, <2>4, <2>5 DEF Old, Linked
<1>5. CASE s.started
  <2>1. s.client
    <3>1. 1 \in DOMAIN up /\ up[1] = "DATA" /\ \A j \in DOMAIN up : ~(j < 1)
      BY <1>1, <1>2
    <3> QED
      BY <1>3, <1>5, <3>1 DEF NotYet
  <2>2. s.tok > 0
    <3>1. Count(up, {"DATA"}) > 0
      <4>1. /\ Count(Tail(up), {"DATA"}) = Count(up, {"DATA"}) - One(Head(up) \in {"DATA"})
            /\ Count(up, {"DATA"}) \in Nat /\ Count(Tail(up), {"DATA"}) \in Nat
        BY <1>1, <1>2, UpEnds
      <4> QED
        BY <1>1, <4>1 DEF One
    <3>2. s.pipe \in Seq(Right)
      BY <1>3 DEF Covered
    <3>3. /\ peer.tok \in Nat /\ Count(up, {"DATA"}) \in Nat
          /\ Interval * Tokens(s.pipe) \in Nat /\ Window * Inits(s.pipe) \in Nat
      BY <1>2, <3>2, LinkNumbers
    <3>4. peer.tok + Count(up, {"DATA"}) + Interval * Tokens(s.pipe) + Window * Inits(s.pipe) <= s.tok
      BY <1>2, <1>3, <2>1 DEF Covered, Allowed, One
    <3> QED
      BY <1>2, <3>1, <3>3, <3>4
  <2>3. s' = [s EXCEPT !.tok = @ - 1, !.held = count.conns, !.msg = "buf"]
    <3>1. s.tok # 0 /\ ~(s.held # 0) /\ ~(~s.client \/ s.tok = 0)
      BY <1>2, <2>1, <2>2
    <3> QED
      BY <1>5, <3>1 DEF GetAgentDataBuffer, ClientBufferGet
  <2>4. /\ s'.vdagent = s.vdagent /\ s'.conn = s.conn /\ s'.client = s.client /\ s'.started = s.started
        /\ s'.accept = s.accept /\ s'.tok = s.tok - 1 /\ s'.held = count.conns /\ s'.out = s.out
        /\ s'.calls = s.calls /\ s'.pipe = s.pipe /\ s'.fault = s.fault /\ s'.msg = "buf"
    BY <1>2, <2>3 DEF Fields, Flags, Counters
  <2>5. Begun(s') /\ Receives(s', up)
    BY <1>1, <1>2, <1>3, <2>1, <2>4 DEF Begun, Receives, Under
  <2>6. Allowed(s') = Allowed(s)
    BY <1>2, <2>1, <2>4 DEF Allowed, One
  <2>7. Covered(s', up, peer) /\ NotYet(s', up, peer) /\ Returns(s', up, peer)
    BY <1>3, <2>4, <2>6 DEF Covered, NotYet, Returns
  <2> QED
    BY <1>1, <2>5, <2>7 DEF Old, Linked
<1> QED
  BY <1>4, <1>5

\* reds_on_main_agent_data: the message is the one that was received, and its buffer goes to the
\* device or back.
LEMMA OnAgentDataOld ==
  ASSUME PortInv, ~mode.split, Old(s, up, peer), OnAgentData PROVE Old(s', up', peer')
<1>1. s.msg # "none" /\ s.conn /\ up # <<>> /\ up' = Tail(up) /\ peer' = peer
  BY DEF OnAgentData
<1>2. /\ Typed(s) /\ DOMAIN s = Fields /\ up \in Seq(Up) /\ peer \in Clients /\ s.tok \in Nat
      /\ s.free < Interval /\ (s.client => s.base)
      /\ Good(s, NoBuf, count.conns, room, agent, mode.notify) /\ count.conns \in Nat
  BY OldFacts, PortFacts
<1>3. /\ s.calls = <<>> /\ Head(up) = "DATA" /\ (s.held # 0 <=> s.msg = "buf")
      /\ (s.msg = "buf" => s.client) /\ (s.msg = "malloc" => ~s.started)
  BY <1>1 DEF Old, Receives
<1>4. Covered(s, up, peer) /\ Returns(s, up, peer) /\ Begun(s)
  BY <1>1 DEF Old, Linked
<1>5. PICK t : t = LetGo(s)
  OBVIOUS
<1>6. Typed(t) /\ Only(t, s, {"held", "msg"}) /\ t.msg = "none" /\ t.held = 0
  BY <1>2, <1>5, LetGoGood
<1>7. /\ t.vdagent = s.vdagent /\ t.conn = s.conn /\ t.client = s.client /\ t.started = s.started
      /\ t.accept = s.accept /\ t.tok = s.tok /\ t.out = s.out /\ t.free = s.free
      /\ t.calls = s.calls /\ t.pipe = s.pipe /\ t.fault = s.fault
  BY <1>6 DEF Only, Fields, Flags, Counters
<1>8. Old(t, Tail(up), peer)
  <2>1. Begun(t) /\ Receives(t, Tail(up))
    BY <1>4, <1>6, <1>7 DEF Begun, Receives, Under
  <2>2. Covered(t, Tail(up), peer)
    <3>1. s.pipe \in Seq(Right)
      BY <1>4 DEF Covered
    <3>2. PICK a, d, x, y : /\ a = peer.tok /\ d = Count(up, {"DATA"})
                            /\ x = Interval * Tokens(s.pipe) /\ y = Window * Inits(s.pipe)
      OBVIOUS
    <3>3. a \in Nat /\ d \in Nat /\ x \in Nat /\ y \in Nat
      BY <1>2, <3>1, <3>2, LinkNumbers
    <3>4. Count(Tail(up), {"DATA"}) = d - 1
      <4>1. Count(Tail(up), {"DATA"}) = Count(up, {"DATA"}) - One(Head(up) \in {"DATA"})
        BY <1>1, <1>2, UpEnds
      <4> QED
        BY <1>3, <3>2, <4>1 DEF One
    <3>5. PICK b : b = IF s.client THEN s.tok ELSE Window
      OBVIOUS
    <3>6. b \in Nat /\ Allowed(s) = b + 1 /\ Allowed(t) = b + 0
      BY <1>1, <1>2, <1>6, <1>7, <3>5, PortConstants DEF Allowed, One
    <3>7. a + d + x + y <= b + 1
      BY <1>4, <3>2, <3>6 DEF Covered
    <3>8. a + (d - 1) + x + y <= b + 0
      BY <3>3, <3>6, <3>7
    <3> QED
      BY <1>4, <1>7, <3>2, <3>4, <3>6, <3>8 DEF Covered
  <2>3. NotYet(t, Tail(up), peer)
    <3>1. s.started => s.client
      BY <1>1, <1>2, <1>3 DEF Typed
    <3> QED
      BY <1>7, <3>1 DEF NotYet
  <2>4. Returns(t, Tail(up), peer)
    <3>1. /\ Count(Tail(up), {"TOKEN"}) = Count(up, {"TOKEN"}) - One(Head(up) \in {"TOKEN"})
          /\ Count(up, {"TOKEN"}) \in Nat /\ Count(Tail(up), {"TOKEN"}) \in Nat
      BY <1>1, <1>2, UpEnds
    <3>2. Count(Tail(up), {"TOKEN"}) > 0 => Count(up, {"TOKEN"}) > 0
      BY <3>1 DEF One
    <3> QED
      BY <1>4, <1>7, <3>2 DEF Returns
  <2> QED
    BY <2>1, <2>2, <2>3, <2>4 DEF Old, Linked
<1>9. Tail(up) \in Seq(Up)
  BY <1>1, <1>2, UpEnds
<1>10. CASE ~s.accept /\ s.held = 0
  <2>1. s' = t
    BY <1>5, <1>10 DEF OnAgentData, ReleaseAgentDataBuffer, LetGo
  <2> QED
    BY <1>1, <1>8, <2>1
<1>11. CASE ~s.accept /\ s.held # 0
  <2>1. s.msg = "buf" /\ s.client /\ s.base
    BY <1>2, <1>3, <1>11
  <2>2. s' = ClientTokensAdd(t)
    BY <1>5, <1>7, <1>11, <2>1 DEF OnAgentData, ReleaseAgentDataBuffer, LetGo, WriteBufferRelease
  <2> QED
    BY <1>1, <1>2, <1>6, <1>7, <1>8, <1>9, <2>1, <2>2, OldTokens
<1>12. CASE s.accept
  <2>1. s.msg = "buf" /\ s.held # 0
    BY <1>1, <1>2, <1>3, <1>4, <1>12 DEF Begun, Typed
  <2>2. s' = WriteBufferAdd(t, "client")
    BY <1>5, <1>12, <2>1 DEF OnAgentData, LetGo
  <2>3. DOMAIN t = Fields /\ t.calls \in Seq(Pending)
    BY <1>6 DEF Typed
  <2>4. Same(s', t)
    BY <2>2, <2>3, HandlersSame
  <2> QED
    BY <1>1, <1>6, <1>8, <2>3, <2>4, OldSame
<1> QED
  BY <1>10, <1>11, <1>12

\* The client sends: data only once it sent an AGENT_START.
LEMMA NotYetAppend ==
  ASSUME NEW st, NEW u \in Seq(Up), NEW p, NotYet(st, u, p), NEW x \in Up,
         NEW r, r.started = st.started, r.client = st.client,
         NEW v, v.agent => p.agent \/ x = "START", x = "DATA" => p.agent
  PROVE  NotYet(r, Append(u, x), v)
<1> SUFFICES ASSUME st.started, ~st.client
             PROVE  /\ v.agent => \E i \in DOMAIN Append(u, x) : Append(u, x)[i] = "START"
                    /\ \A i \in DOMAIN Append(u, x) : Append(u, x)[i] = "DATA" =>
                           \E j \in DOMAIN Append(u, x) : j < i /\ Append(u, x)[j] = "START"
  BY DEF NotYet
<1>1. /\ p.agent => \E i \in DOMAIN u : u[i] = "START"
      /\ \A i \in DOMAIN u : u[i] = "DATA" => \E j \in DOMAIN u : j < i /\ u[j] = "START"
  BY DEF NotYet
<1>2. PICK w : w = Append(u, x)
  OBVIOUS
<1>3. PICK n \in Nat : n = Len(u) /\ DOMAIN u = 1 .. n
  OBVIOUS
<1>4. /\ DOMAIN w = 1 .. (n + 1) /\ w[n + 1] = x /\ \A i \in 1 .. n : w[i] = u[i]
  BY <1>2, <1>3
<1>5. v.agent => \E i \in DOMAIN w : w[i] = "START"
  <2>1. CASE x = "START"
    BY <1>4, <2>1
  <2>2. CASE p.agent
    <3>1. PICK i \in 1 .. n : u[i] = "START"
      BY <1>1, <1>3, <2>2
    <3>2. i \in DOMAIN w /\ w[i] = "START"
      BY <1>3, <1>4, <3>1
    <3> QED
      BY <3>2
  <2> QED
    BY <2>1, <2>2
<1>6. ASSUME NEW i \in DOMAIN w, w[i] = "DATA" PROVE \E j \in DOMAIN w : j < i /\ w[j] = "START"
  <2>1. CASE i = n + 1
    <3>1. PICK j \in 1 .. n : u[j] = "START"
      BY <1>1, <1>3, <1>4, <1>6, <2>1
    <3>2. j \in DOMAIN w /\ j < i /\ w[j] = "START"
      BY <1>3, <1>4, <2>1, <3>1
    <3> QED
      BY <3>2
  <2>2. CASE i \in 1 .. n
    <3>1. PICK j \in 1 .. n : j < i /\ u[j] = "START"
      BY <1>1, <1>3, <1>4, <1>6, <2>2
    <3>2. j \in DOMAIN w /\ j < i /\ w[j] = "START"
      BY <1>3, <1>4, <3>1
    <3> QED
      BY <3>2
  <2> QED
    BY <1>3, <1>4, <2>1, <2>2
<1> QED
  BY <1>2, <1>5, <1>6

\* agent_send_msg_queue
LEMMA PeerSendsOld ==
  ASSUME PortInv, ~mode.split, Old(s, up, peer), PeerSends PROVE Old(s', up', peer')
<1>1. /\ Quiet /\ s.conn /\ peer.agent /\ peer.tok > 0 /\ s' = s
      /\ peer' = [peer EXCEPT !.tok = @ - 1] /\ up' = Append(up, "DATA")
  BY DEF PeerSends
<1>2. s.msg = "none" /\ up \in Seq(Up) /\ peer \in Clients /\ "DATA" \in Up
  BY <1>1, OldFacts DEF Up
<1>3. Covered(s, up, peer) /\ NotYet(s, up, peer) /\ Returns(s, up, peer) /\ Begun(s)
  BY <1>1 DEF Old, Linked
<1>4. peer'.tok = peer.tok - 1 /\ peer'.agent = peer.agent /\ peer'.owed = peer.owed
  BY <1>1, <1>2 DEF Clients
<1>5. /\ Count(Append(up, "DATA"), {"DATA"}) = Count(up, {"DATA"}) + One("DATA" \in {"DATA"})
      /\ Count(Append(up, "DATA"), {"TOKEN"}) = Count(up, {"TOKEN"}) + One("DATA" \in {"TOKEN"})
      /\ Count(up, {"DATA"}) \in Nat /\ Count(up, {"TOKEN"}) \in Nat
  BY <1>2, UpEnds
<1>6. Count(up', {"DATA"}) = Count(up, {"DATA"}) + 1 /\ Count(up', {"TOKEN"}) = Count(up, {"TOKEN"})
  BY <1>1, <1>5 DEF One
<1>7. Covered(s, up', peer')
  <2>1. s.pipe \in Seq(Right)
    BY <1>3 DEF Covered
  <2>2. PICK a, d, x, y : /\ a = peer.tok /\ d = Count(up, {"DATA"})
                          /\ x = Interval * Tokens(s.pipe) /\ y = Window * Inits(s.pipe)
    OBVIOUS
  <2>3. a \in Nat /\ d \in Nat /\ x \in Nat /\ y \in Nat
    BY <1>2, <2>1, <2>2, LinkNumbers
  <2>4. (a - 1) + (d + 1) + x + y = a + d + x + y
    BY <2>3
  <2>5. ~(Inits(s.pipe) > 0)
    BY <1>1, <1>3, <2>2, <2>3 DEF Covered
  <2> QED
    BY <1>3, <1>4, <1>6, <2>2, <2>4, <2>5 DEF Covered
<1>8. NotYet(s', up', peer')
  BY <1>1, <1>2, <1>3, <1>4, NotYetAppend
<1>9. Returns(s, up', peer')
  BY <1>3, <1>4, <1>6 DEF Returns
<1>10. Receives(s, up')
  BY <1>2 DEF Old, Receives
<1> QED
  BY <1>1, <1>3, <1>7, <1>8, <1>9, <1>10 DEF Old, Linked

\* A client that returns tokens is known.
LEMMA PeerReturnsTokenOld ==
  ASSUME PortInv, ~mode.split, Old(s, up, peer), PeerReturnsToken PROVE Old(s', up', peer')
<1>1. /\ Quiet /\ s.conn /\ peer.owed > 0 /\ s' = s
      /\ peer' = [peer EXCEPT !.owed = @ - 1] /\ up' = Append(up, "TOKEN")
  BY DEF PeerReturnsToken
<1>2. s.msg = "none" /\ up \in Seq(Up) /\ peer \in Clients /\ "TOKEN" \in Up
  BY <1>1, OldFacts DEF Up
<1>3. Covered(s, up, peer) /\ s.client /\ Begun(s)
  BY <1>1 DEF Old, Linked, Returns
<1>4. peer'.tok = peer.tok
  BY <1>1, <1>2 DEF Clients
<1>5. /\ Count(Append(up, "TOKEN"), {"DATA"}) = Count(up, {"DATA"}) + One("TOKEN" \in {"DATA"})
      /\ Count(up, {"DATA"}) \in Nat
  BY <1>2, UpEnds
<1>6. Count(up', {"DATA"}) = Count(up, {"DATA"})
  BY <1>1, <1>5 DEF One
<1>7. Covered(s, up', peer')
  BY <1>3, <1>4, <1>6 DEF Covered
<1>8. NotYet(s, up', peer') /\ Returns(s, up', peer')
  BY <1>3 DEF NotYet, Returns
<1>9. Receives(s, up')
  BY <1>2 DEF Old, Receives
<1> QED
  BY <1>1, <1>3, <1>7, <1>8, <1>9 DEF Old, Linked

\* The client gets the tokens that were on their way, and starts an agent it meets.
LEMMA PeerReceivesOld ==
  ASSUME PortInv, ~mode.split, ~mode.caps, Old(s, up, peer), PeerReceives PROVE Old(s', up', peer')
<1>1. Quiet /\ s.conn /\ s.pipe # <<>>
  BY DEF PeerReceives
<1>2. DOMAIN s = Fields /\ s.msg = "none" /\ s.held = 0 /\ up \in Seq(Up) /\ peer \in Clients /\ "START" \in Up
  BY <1>1, OldFacts DEF Up
<1>3. Covered(s, up, peer) /\ NotYet(s, up, peer) /\ Returns(s, up, peer) /\ Begun(s)
  BY <1>1 DEF Old, Linked
<1>4. PICK q \in Seq(Right) : q = s.pipe
  BY <1>3 DEF Covered
<1>5. PICK m : m = Head(q)
  OBVIOUS
<1>6. /\ m \in Right /\ Tail(q) \in Seq(Right) /\ Tokens(q) \in Nat /\ Inits(q) \in Nat
      /\ Tokens(Tail(q)) = Tokens(q) - One(m.type = "TOKEN")
      /\ Inits(Tail(q)) = Inits(q) - One(m.type \in Greets)
  BY <1>1, <1>4, <1>5, PipeEnds
<1>7. Tokens(Tail(q)) \in Nat /\ Inits(Tail(q)) \in Nat
  BY <1>6, PipeEnds
<1> DEFINE start == m.type \in {"INIT_AGENT", "CONNECTED"}
<1>8. PICK k : k = CASE m.type \in {"INIT", "INIT_AGENT"} -> m.n
                     [] m.type = "CONNECTED" /\ mode.caps -> m.n
                     [] m.type = "TOKEN" -> peer.tok + m.n
                     [] OTHER -> peer.tok
  OBVIOUS
<1>9. /\ peer' = [peer EXCEPT !.agent = @ \/ start, !.tok = k]
      /\ up' = IF start THEN Append(up, "START") ELSE up
      /\ s' = [s EXCEPT !.pipe = Tail(@)]
  BY <1>4, <1>5, <1>8 DEF PeerReceives
<1>10. peer'.tok = k /\ peer'.owed = peer.owed /\ (peer'.agent => peer.agent \/ start)
  BY <1>2, <1>9 DEF Clients
<1>11. /\ s'.vdagent = s.vdagent /\ s'.conn = s.conn /\ s'.client = s.client /\ s'.started = s.started
       /\ s'.accept = s.accept /\ s'.tok = s.tok /\ s'.held = s.held /\ s'.out = s.out
       /\ s'.calls = s.calls /\ s'.msg = s.msg /\ s'.fault = s.fault /\ s'.pipe = Tail(q)
  BY <1>2, <1>4, <1>9 DEF Fields, Flags, Counters
<1>12. Count(up', {"DATA"}) = Count(up, {"DATA"}) /\ Count(up', {"TOKEN"}) = Count(up, {"TOKEN"})
  <2>1. /\ Count(Append(up, "START"), {"DATA"}) = Count(up, {"DATA"}) + One("START" \in {"DATA"})
        /\ Count(Append(up, "START"), {"TOKEN"}) = Count(up, {"TOKEN"}) + One("START" \in {"TOKEN"})
        /\ Count(up, {"DATA"}) \in Nat /\ Count(up, {"TOKEN"}) \in Nat
    BY <1>2, UpEnds
  <2>2. /\ Count(Append(up, "START"), {"DATA"}) = Count(up, {"DATA"})
        /\ Count(Append(up, "START"), {"TOKEN"}) = Count(up, {"TOKEN"})
    BY <2>1 DEF One
  <2> QED
    BY <1>9, <2>2
<1>13. Begun(s') /\ Receives(s', up')
  BY <1>2, <1>3, <1>11 DEF Begun, Receives, Under
<1>14. NotYet(s', up', peer')
  <2>1. CASE start
    <3>1. up' = Append(up, "START") /\ "START" # "DATA"
      BY <1>9, <2>1
    <3> QED
      BY <1>2, <1>3, <1>11, <3>1, NotYetAppend
  <2>2. CASE ~start
    BY <1>3, <1>9, <1>10, <1>11, <2>2 DEF NotYet
  <2> QED
    BY <2>1, <2>2
<1>15. Returns(s', up', peer')
  BY <1>3, <1>10, <1>11, <1>12 DEF Returns
<1>16. Covered(s', up', peer')
  <2>1. PICK a, d, t, i : /\ a = peer.tok /\ d = Count(up, {"DATA"}) /\ t = Tokens(q) /\ i = Inits(q)
    OBVIOUS
  <2>2. a \in Nat /\ d \in Nat /\ t \in Nat /\ i \in Nat /\ Interval * t \in Nat /\ Window * i \in Nat
    BY <1>2, <1>6, <2>1, LinkNumbers
  <2>3. a + d + Interval * t + Window * i <= Allowed(s')
    BY <1>3, <1>4, <1>11, <2>1 DEF Covered, Allowed
  <2>4. i > 0 => i = 1 /\ m.type \in Greets /\ a = 0
    BY <1>3, <1>4, <1>5, <2>1 DEF Covered
  <2>5. Inits(Tail(q)) = 0
    BY <1>6, <1>7, <2>1, <2>2, <2>4 DEF One
  <2>6. Window * 0 = 0
    BY PortConstants
  <2>7. k + d + Interval * Tokens(Tail(q)) + 0 = a + d + Interval * t + Window * i
    <3>1. CASE m.type \in Greets
      <4>1. k = Window /\ Tokens(Tail(q)) = t
        BY <1>6, <1>8, <2>1, <3>1 DEF Right, Greets, One
      <4>2. i = 1 /\ a = 0
        BY <1>6, <1>7, <2>1, <2>4, <3>1 DEF One
      <4>3. Window * 1 = Window
        BY PortConstants
      <4> QED
        BY <2>2, <4>1, <4>2, <4>3, PortConstants
    <3>2. CASE m.type = "TOKEN"
      <4>1. k = a + Interval /\ Tokens(Tail(q)) = t - 1
        BY <1>6, <1>8, <2>1, <3>2 DEF Right, One
      <4>2. i = 0
        BY <2>2, <2>4, <3>2 DEF Greets
      <4>3. Interval * (t - 1) = Interval * t - Interval
        BY <2>2, PortConstants
      <4>4. PICK x \in Nat : x = Interval * t
        BY <2>2
      <4>5. (a + Interval) + d + (x - Interval) + 0 = a + d + x + 0
        BY <2>2, PortConstants
      <4> QED
        BY <2>6, <4>1, <4>2, <4>3, <4>4, <4>5
    <3>3. CASE m.type \notin Greets /\ m.type # "TOKEN"
      <4>1. k = a
        BY <1>8, <2>1, <3>3 DEF Greets
      <4>2. i = 0 /\ Tokens(Tail(q)) = t
        BY <1>6, <2>1, <2>2, <2>4, <3>3 DEF One
      <4> QED
        BY <2>6, <4>1, <4>2
    <3> QED
      BY <3>1, <3>2, <3>3
  <2> QED
    BY <1>6, <1>10, <1>11, <1>12, <2>1, <2>3, <2>5, <2>6, <2>7 DEF Covered
<1> QED
  BY <1>13, <1>14, <1>15, <1>16 DEF Old, Linked

\* No agent, no client.
LEMMA InitNever == Init => NeverInv
<1> SUFFICES ASSUME Init PROVE Old(s, up, peer)
  BY DEF NeverInv
<1>1. /\ ~s.conn /\ ~s.started /\ ~s.accept /\ s.held = 0 /\ s.msg = "none" /\ s.out = 0
      /\ s.calls = <<>> /\ s.fault = "none"
  BY DEF Init
<1>2. \A C : Under(s, C) = 0
  BY <1>1, CountShort DEF Under
<1> QED
  BY <1>1, <1>2 DEF Old, Begun, Receives, Linked

\* The invariant is inductive, on top of the one of the tokens and buffers.
LEMMA NextNever == ASSUME PortInv, NeverInv, [Next]_vars PROVE NeverInv'
<1>1. mode' = mode
  BY DEF Next, Server, Device, Channel, Peer, Aborted, Over, vars, device, CallWrite, WriteNothingLeft,
         WriteBuffer, WriteRefused, WriteBlocked, CallRead, ReadDiscarded, ReadMessage, ReadFails,
         ReadNull, ReadNoMore, StartLoop, ResetQueue, ResetCurrent, AgentRemoved, Goodbye, Accept,
         GuestReads, GuestWrites, WriteRetry, Attach, Detach, VmStop, VmStart, Connect, ReadError,
         WriteError, AgentDataSent, OnAgentStart, OnAgentTokens, GetAgentDataBuffer, OnAgentData,
         MouseEvent, PeerReceives, PeerSends, PeerReturnsToken
<1> SUFFICES ASSUME ~mode.caps, ~mode.split PROVE Old(s', up', peer')
  BY <1>1 DEF NeverInv
<1>2. Old(s, up, peer)
  BY DEF NeverInv
<1>3. CASE Server
  BY <1>2, <1>3, ServerSame, WriteBufferOld, ReadMessageOld, ResetQueueOld, ResetCurrentOld,
     AgentRemovedOld, AcceptOld DEF Server
<1>4. CASE Device
  BY <1>2, <1>4, DeviceSame, AttachOld, DetachOld DEF Device
<1>5. CASE Channel
  BY <1>2, <1>5, ConnectOld, GivenUpOld, AgentDataSentOld, OnAgentStartOld, OnAgentTokensOld,
     GetAgentDataBufferOld, OnAgentDataOld, DeviceSame DEF Channel
<1>6. CASE Peer
  BY <1>2, <1>6, PeerReceivesOld, PeerSendsOld, PeerReturnsTokenOld DEF Peer
<1>7. CASE UNCHANGED vars
  BY <1>2, <1>7 DEF vars
<1> QED
  BY <1>3, <1>4, <1>5, <1>6, <1>7 DEF Next, Aborted, Over

\* No spice_assert and no spice_error of the port is reached, whatever the client, the agent and
\* the machine do, as long as the device state outlives the agent and a message is received at
\* once: no buffer of the client's is released without the client, no honest client is caught with
\* a token violation, no token of a client that is not known is returned, and the message that was
\* received is the buffer it was received into.
THEOREM ServerNeverAborts == Spec => []NeverAborts
<1>1. PortInv /\ NeverInv /\ [Next]_vars => NeverInv'
  BY NextNever
<1>2. NeverInv => NeverAborts
  BY DEF NeverInv, NeverAborts, Old, Begun, Alive
<1> QED
  BY InitNever, PortInvariant, <1>1, <1>2, PTL DEF Spec
=============================================================================
