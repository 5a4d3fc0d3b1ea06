------------------------- MODULE DistributeCacheProofs -------------------------
(***************************************************************************)
(* Theorems about DistributeCache, for any caches, threads, sizes of       *)
(* images, calls, and any number of failures: what a call reads is what    *)
(* the calls before it wrote, and a server thread at rest holds it, as     *)
(* long as no connection is accepted before the thread of the one before   *)
(* has read client_socket.                                                 *)
(*                                                                         *)
(* The argument.  On a connection that stands, what the client has been    *)
(* sent and what the server thread is about to send make up the reply to   *)
(* the message under way (Follows), and the units under way lead the       *)
(* server thread, one place of its loop after the other, to the image that *)
(* the calls wrote.  Otherwise the client has mistaken a part of the nonce *)
(* for its key (Misled) or the server thread has given up (Fails), and at  *)
(* most one status is to come: too short for the pixels of a row.  Once a  *)
(* connection has gone, nothing is added to what was under way (Answered). *)
(***************************************************************************)
EXTENDS DistributeCache, SequenceTheorems, TLAPS

\* The socket a server thread was started with is still in the variable of
\* the accept loop: what the code relies on and does not ensure.
FetchedInTime == \A h \in Clients : handler[h].pc = "created" => slot = h

-----------------------------------------------------------------------------
(* Types                                                                   *)

Cmds == {"o", "d"} \cup ReadCommands \cup WriteCommands

\* What the single recv() of the nonce may return.
Keys(c) == {<<>>, << <<"nonce", c, 1>> >>, Nonce(c)}
AllKeys == UNION {Keys(c) : c \in Clients}

Rectangles == {r \in [first : 1..Rows, last : 1..Rows] : r.first <= r.last}

Units ==
    ({"command"} \X Cmds) \cup ({"key"} \X AllKeys)
    \cup ({"args"} \X (Rectangles \cup {Attributes}))
    \cup ({"status"} \X BOOLEAN) \cup ({"nonce"} \X Clients \X {1, 2})
    \cup ({"data"} \X Planes \X Nat \X (1..Rows) \X (1..RowWords))

Images == [Planes -> [1..Rows -> [1..RowWords -> Units]]]

Calls == [pc : {"idle", "nonce", "sending", "receiving"}, cmd : Cmds,
          region : Regions \cup {NoOne}, row : Nat, out : Seq(Units), in : Seq(Units)]

Handlers ==
    [pc : {"unstarted", "created", "greeting", "command", "key", "args", "data", "status",
           "reply", "leaving", "done"},
     conn : Clients \cup {NoOne}, command : Units \cup {<<>>},
     args : Rectangles \cup {NoOne}, image : Images \cup {NoImage}, status : BOOLEAN,
     out : Seq(Units), in : Seq(Units)]

TypeInv ==
    /\ up \in [Clients -> Seq(Units)] /\ down \in [Clients -> Seq(Units)]
    /\ ends \in [Clients -> SUBSET {"client", "server"}]
    /\ backlog \in Seq(Clients) /\ slot \in Clients \cup {NoOne}
    /\ handler \in [Clients -> Handlers]
    /\ phase \in [Clients -> {"new", "connecting", "ready", "closed"}]
    /\ key \in [Clients -> AllKeys]
    /\ semaphore \in [Clients -> Threads \cup {NoOne}]
    /\ thread \in [Threads -> Calls]
    /\ calls \in [Clients -> Nat] /\ written \in [Clients -> Images]

-----------------------------------------------------------------------------
(* The invariant                                                           *)

\* A connection is queued once, and its server thread is not started yet.
BacklogInv ==
    /\ \A i \in 1..Len(backlog) :
          handler[backlog[i]].pc = "unstarted" /\ phase[backlog[i]] # "new"
    /\ \A i, j \in 1..Len(backlog) : backlog[i] = backlog[j] => i = j

\* The call in progress on c.
Me(c) == IF semaphore[c] = NoOne THEN ThreadIdle ELSE thread[semaphore[c]]

\* Who is in a call: the thread that holds the semaphore and no other.
Held(c) ==
    /\ semaphore[c] \in Threads => Owner[semaphore[c]] = c
    /\ \A t \in Threads : Owner[t] = c /\ t # semaphore[c] => thread[t] = ThreadIdle

\* The call me of a cache in phase ph.
Calling(ph, me) ==
    /\ ph \in {"new", "closed"} => me = ThreadIdle
    /\ ph = "connecting" <=> me.cmd = "o"
    /\ me.pc = "idle" => me = ThreadIdle
    /\ me.pc = "nonce" => ph = "connecting" /\ me.out = <<>>
    /\ me.pc # "receiving" => me.in = <<>>
    /\ me.pc = "receiving" => me.out = <<>> /\ me.cmd \notin WriteCommands
    /\ me.cmd \in ReadCommands \cup WriteCommands =>
          /\ me.region \in Regions
          /\ me.row \in me.region.first..me.region.last

\* The server thread h of cache c.
Serving(c, h) ==
    /\ h.pc \in {"unstarted", "created"} => h = [HandlerUnstarted EXCEPT !.pc = h.pc]
    /\ h.pc \notin {"unstarted", "created"} => h.conn = c
    /\ h.pc \notin Replying => h.out = <<>>
    /\ h.pc \in {"args", "data"} /\ h.command[2] # "o" => h.image # NoImage
    /\ h.pc = "data" => h.command[2] \in WriteCommands /\ h.args \in Rectangles

\* What a call waits for: the command and the rows.
Asked(cmd, args) == [cmd |-> cmd, args |-> args]
Nothing == Asked("none", Attributes)
AskedBy(me) ==
    IF me.cmd = "o" THEN Asked("o", Attributes)
    ELSE IF me.cmd \in ReadCommands
    THEN Asked(me.cmd, [first |-> me.row, last |-> LastOf(me.region, me.row)])
    ELSE Nothing

\* The reply to it, from an image.
Reply(ask, image) ==
    IF ask.cmd = "none" THEN <<>>
    ELSE IF ask.cmd = "o" THEN <<Status(TRUE)>>
    ELSE Content(image, Plane(ask.cmd), ask.args.first, ask.args.last)

\* The image once the message under way has been read.
Goal(me, image, n) ==
    IF me.cmd \in WriteCommands
    THEN Replaced(image, Plane(me.cmd), me.row, LastOf(me.region, me.row), n)
    ELSE image

Begins(s, t) == Len(s) <= Len(t) /\ \A i \in 1..Len(s) : s[i] = t[i]

\* The cache is being relinquished: what comes is for nobody.
Relinquished(me) == me.cmd = "d" /\ me.pc # "idle"

\* What a call may take for its answer, on a connection that has gone: a word
\* (while the cache is opened, two), or a beginning of what is right.
Answered(c, ph, me, received, image) ==
    /\ ph = "connecting" => IF me.pc = "nonce" THEN received \in Keys(c)
                            ELSE Len(me.in \o received) <= 2
    /\ ph = "ready" /\ ~Relinquished(me) =>
          \/ Len(me.in \o received) <= 1
          \/ /\ me.cmd \in ReadCommands /\ me.out = <<>>
             /\ Begins(me.in \o received, Reply(AskedBy(me), image))

\* The nonce is on its way.
Greets(c, h, sent, received) ==
    /\ sent = <<>> /\ h.image = NoImage /\ h.in = <<>> /\ ~h.status
    /\ \/ h.pc \in {"unstarted", "created"} /\ received = <<>>
       \/ h.pc \in {"greeting", "command"} /\ received \o h.out = Nonce(c)

\* The client has taken a part of the nonce for the key.  stream is what the
\* server thread has yet to read, answer what the client has been sent.
Misled(c, ph, k, h, stream, answer) ==
    /\ h.pc \in {"greeting", "command", "key", "leaving"}
    /\ h.pc \in {"greeting", "command"} /\ stream # <<>>
          => Len(stream) >= 2 /\ stream[2] = <<"key", k>>
    /\ h.pc = "key" => stream # <<>> /\ stream[1] = <<"key", k>>
    /\ Len(answer) + Len(h.out) + (IF h.pc = "leaving" THEN 0 ELSE 1)
          <= IF ph = "connecting" THEN 2 ELSE 1

\* The server thread has given the request up.
Fails(ph, h, answer) ==
    \/ /\ h.pc = "leaving"
       /\ ph = "ready" => Len(answer \o h.out) <= 1
       /\ ph = "connecting" => /\ Len(answer \o h.out) \in {1, 2}
                               /\ (answer \o h.out)[1] = False
    \/ /\ h.pc = "status" /\ ~h.status /\ ph = "connecting"
       /\ answer \o h.out = <<False>>

\* The server thread h is at place p in its reading of requests: before a
\* command, with the image it has or will have stored, or within a request.
IsAt(h, p) ==
    \/ /\ p.at = "command" /\ p.image = h.image
       /\ h.pc \in {"greeting", "command", "status", "reply"}
    \/ /\ p.at = "command" /\ h.pc = "data"
       /\ Len(h.in) = Count(h.args.first, h.args.last)
       /\ p.image = Store(h.image, Plane(h.command[2]), h.args.first, h.args.last, h.in)
    \/ /\ p.at \in {"key", "args"} /\ h.pc = p.at
       /\ p.cmd = h.command[2] /\ p.image = h.image
    \/ /\ p.at = "data" /\ h.pc = "data"
       /\ Len(h.in) < Count(h.args.first, h.args.last)
       /\ p.cmd = h.command[2] /\ p.image = h.image /\ p.args = h.args /\ p.words = h.in

\* Reading a unit takes the server thread of c from place p to q.
Eats(c, p, unit, q) ==
    \/ /\ p.at = "command" /\ q.at = "key"
       /\ unit = <<"command", q.cmd>> /\ q.image = p.image
    \/ /\ p.at = "key" /\ q.at = "args"
       /\ unit = <<"key", Nonce(c)>> /\ q.cmd = p.cmd /\ q.image = p.image
       /\ p.cmd # "d" /\ (p.cmd # "o" => p.image # NoImage)
    \/ /\ p.at = "args" /\ q.at = "command"
       /\ p.cmd = "o" /\ q.image = NewImage
    \/ /\ p.at = "args" /\ q.at = "command"
       /\ p.cmd \in ReadCommands /\ q.image = p.image
       /\ unit[1] = "args" /\ unit[2] \in Rectangles
    \/ /\ p.at = "args" /\ q.at = "data"
       /\ p.cmd \in WriteCommands /\ q.cmd = p.cmd /\ q.image = p.image
       /\ unit = <<"args", q.args>> /\ q.args \in Rectangles /\ q.words = <<>>
    \/ /\ p.at = "data" /\ q.at = "data"
       /\ q.cmd = p.cmd /\ q.image = p.image /\ q.args = p.args
       /\ q.words = Append(p.words, unit) /\ Len(q.words) < Count(q.args.first, q.args.last)
    \/ /\ p.at = "data" /\ q.at = "command"
       /\ Len(Append(p.words, unit)) = Count(p.args.first, p.args.last)
       /\ q.image = Store(p.image, Plane(p.cmd), p.args.first, p.args.last,
                          Append(p.words, unit))

\* The places T lead through the stream to the image that is wanted, and what
\* the client waits for is asked for last.
Path(c, stream, ask, image, T) ==
    LET n == Len(stream)
    IN  /\ \A i \in 1..n : Eats(c, T[i], stream[i], T[i + 1])
        /\ T[n + 1].at = "command" /\ T[n + 1].image = image
        /\ \A i \in 1..n :
              T[i].at = "args" /\ T[i].cmd \notin WriteCommands
              => i = n /\ ask.cmd = T[i].cmd /\ ask.args = stream[i][2]
        /\ ask.cmd # "none" /\ n > 0 => T[n].at = "args" /\ T[n].cmd \notin WriteCommands

\* All goes well.
Follows(c, h, stream, answer, ask, image) ==
    /\ h.pc \in {"greeting", "command", "key", "args", "data", "status", "reply"}
    /\ h.pc = "status" => h.status
    /\ h.pc # "data" => h.in = <<>>
    /\ h.pc = "data" /\ stream = <<>> => ask.cmd = "none"
    /\ answer \o h.out = IF stream = <<>> THEN Reply(ask, image) ELSE <<>>
    /\ \E T : IsAt(h, T[1]) /\ Path(c, stream, ask, image, T)

\* A connection that stands.
Standing(c, ph, k, h, me, sent, received, image, n) ==
    /\ ph \in {"connecting", "ready"}
    /\ me.pc = "nonce" => Greets(c, h, sent, received)
    /\ me.pc # "nonce" =>
          /\ k # Nonce(c) => k \in Keys(c) /\ Misled(c, ph, k, h, sent \o me.out, me.in \o received)
          /\ k = Nonce(c) /\ ~Relinquished(me) =>
                \/ Follows(c, h, sent \o me.out, me.in \o received, AskedBy(me),
                           Goal(me, image, n))
                \/ Fails(ph, h, me.in \o received)

CacheInv(c) ==
    /\ Held(c)
    /\ Calling(phase[c], Me(c))
    /\ Serving(c, handler[c])
    /\ phase[c] \in {"new", "closed"} => "client" \notin ends[c]
    /\ phase[c] = "new" => /\ handler[c].pc = "unstarted" 
                           /\ up[c] = <<>> /\ down[c] = <<>>
    /\ phase[c] \in {"new", "connecting"} => written[c] = NewImage
    /\ IF Gone(c) THEN Answered(c, phase[c], Me(c), down[c], written[c])
       ELSE Standing(c, phase[c], key[c], handler[c], Me(c), up[c], down[c], written[c],
                     calls[c])

IInv == TypeInv /\ BacklogInv /\ \A c \in Clients : CacheInv(c)

-----------------------------------------------------------------------------
(* Sequences                                                               *)

LEMMA MoveUnit ==
    ASSUME NEW S, NEW s \in Seq(S), NEW t \in Seq(S), t # <<>>
    PROVE  Append(s, Head(t)) \o Tail(t) = s \o t
<1>1. Head(t) \in S /\ Tail(t) \in Seq(S) /\ Len(Tail(t)) = Len(t) - 1
      /\ \A i \in 1..Len(Tail(t)) : Tail(t)[i] = t[i + 1]
  BY HeadTailProperties
<1>2. PICK a : a = Append(s, Head(t))
  OBVIOUS
<1>3. a \in Seq(S) /\ Len(a) = Len(s) + 1 /\ a[Len(s) + 1] = t[1]
      /\ \A i \in 1..Len(s) : a[i] = s[i]
  BY <1>1, <1>2, AppendProperties
<1>4. PICK b : b = Tail(t)
  OBVIOUS
<1>5. Len(a \o b) = Len(s \o t) /\ a \o b \in Seq(S) /\ s \o t \in Seq(S)
      /\ Len(s \o t) = Len(s) + Len(t)
  <2>1. Len(a \o b) = Len(a) + Len(b) /\ a \o b \in Seq(S)
    BY <1>1, <1>3, <1>4, ConcatProperties
  <2>2. Len(s \o t) = Len(s) + Len(t) /\ s \o t \in Seq(S)
    BY ConcatProperties
  <2> QED BY <1>1, <1>3, <1>4, <2>1, <2>2, LenProperties
<1>6. ASSUME NEW i \in 1..Len(a \o b) PROVE (a \o b)[i] = (s \o t)[i]
  <2>1. i \in 1..(Len(a) + Len(b)) /\ i \in 1..(Len(s) + Len(t))
    BY <1>1, <1>3, <1>4, <1>5, <1>6, ConcatProperties, LenProperties
  <2>2. /\ (a \o b)[i] = IF i <= Len(a) THEN a[i] ELSE b[i - Len(a)]
        /\ (s \o t)[i] = IF i <= Len(s) THEN s[i] ELSE t[i - Len(s)]
    BY <1>1, <1>3, <1>4, <2>1, ConcatProperties
  <2>3. CASE i <= Len(s)
    BY <1>3, <2>1, <2>2, <2>3, LenProperties
  <2>4. CASE i = Len(s) + 1
    BY <1>3, <2>2, <2>4, LenProperties
  <2>5. CASE i > Len(s) + 1
    <3>1. i - Len(a) \in 1..Len(b) /\ i - Len(a) + 1 = i - Len(s) /\ ~(i <= Len(a))
      BY <1>1, <1>3, <1>4, <2>1, <2>5, LenProperties
    <3> QED BY <1>1, <1>4, <2>2, <2>5, <3>1, LenProperties
  <2> QED BY <2>1, <2>3, <2>4, <2>5, LenProperties
<1> QED BY <1>2, <1>4, <1>5, <1>6, SeqEqual

LEMMA TakeUnit ==
    ASSUME NEW S, NEW s \in Seq(S), NEW t \in Seq(S), s # <<>>
    PROVE  /\ s \o t # <<>> /\ s \o t \in Seq(S)
           /\ (s \o t)[1] = Head(s) /\ Head(s \o t) = Head(s)
           /\ Tail(s) \o t = Tail(s \o t)
<1>1. Head(s) \in S /\ Tail(s) \in Seq(S) /\ Len(Tail(s)) = Len(s) - 1 /\ Head(s) = s[1]
      /\ \A i \in 1..Len(Tail(s)) : Tail(s)[i] = s[i + 1]
  BY HeadTailProperties
<1>2. Len(s) \in Nat \ {0} /\ Len(t) \in Nat
  BY EmptySeq, LenProperties
<1>3. s \o t \in Seq(S) /\ Len(s \o t) = Len(s) + Len(t)
      /\ \A i \in 1..(Len(s) + Len(t)) :
            (s \o t)[i] = IF i <= Len(s) THEN s[i] ELSE t[i - Len(s)]
  BY ConcatProperties
<1>4. s \o t # <<>> /\ (s \o t)[1] = s[1]
  BY <1>2, <1>3
<1>5. Tail(s \o t) \in Seq(S) /\ Len(Tail(s \o t)) = Len(s) + Len(t) - 1
      /\ \A i \in 1..Len(Tail(s \o t)) : Tail(s \o t)[i] = (s \o t)[i + 1]
  BY <1>3, <1>4, HeadTailProperties
<1>6. Tail(s) \o t \in Seq(S) /\ Len(Tail(s) \o t) = Len(s) - 1 + Len(t)
      /\ \A i \in 1..(Len(s) - 1 + Len(t)) :
            (Tail(s) \o t)[i] = IF i <= Len(s) - 1 THEN Tail(s)[i] ELSE t[i - (Len(s) - 1)]
  BY <1>1, ConcatProperties
<1>7. ASSUME NEW i \in 1..Len(Tail(s \o t)) PROVE (Tail(s) \o t)[i] = Tail(s \o t)[i]
  <2>1. /\ i \in 1..(Len(s) - 1 + Len(t)) /\ i + 1 \in 1..(Len(s) + Len(t))
        /\ (i <= Len(s) - 1 => i \in 1..Len(Tail(s))) /\ (i + 1 <= Len(s) <=> i <= Len(s) - 1)
        /\ i - (Len(s) - 1) = i + 1 - Len(s)
    BY <1>1, <1>2, <1>5, <1>7
  <2> QED BY <1>1, <1>3, <1>5, <1>6, <2>1
<1>8. Len(Tail(s) \o t) = Len(Tail(s \o t))
  BY <1>2, <1>5, <1>6
<1>9. Tail(s) \o t = Tail(s \o t)
  BY <1>5, <1>6, <1>7, <1>8, SeqEqual
<1> QED BY <1>1, <1>3, <1>4, <1>9

LEMMA OneUnit ==
    ASSUME NEW S, NEW s \in Seq(S), s # <<>>
    PROVE  /\ Len(s) \in Nat \ {0} /\ (Tail(s) = <<>> <=> Len(s) = 1)
           /\ Tail(s) \in Seq(S) /\ s[1] = Head(s) /\ Head(s) \in S
           /\ Len(Tail(s)) = Len(s) - 1
           /\ \A i \in 1..(Len(s) - 1) : Tail(s)[i] = s[i + 1]
<1>1. Len(s) \in Nat \ {0}
  BY EmptySeq
<1>2. Head(s) \in S /\ Tail(s) \in Seq(S) /\ Len(Tail(s)) = Len(s) - 1
      /\ \A i \in 1..Len(Tail(s)) : Tail(s)[i] = s[i + 1]
  BY HeadTailProperties
<1>3. Tail(s) = <<>> <=> Len(Tail(s)) = 0
  BY <1>2, EmptySeq
<1> QED BY <1>1, <1>2, <1>3

LEMMA Shorter ==
    ASSUME NEW S, NEW s \in Seq(S), NEW n \in 0..Len(s)
    PROVE  /\ SubSeq(s, 1, n) \in Seq(S) /\ Len(SubSeq(s, 1, n)) = n
           /\ \A i \in 1..n : SubSeq(s, 1, n)[i] = s[i]
<1>1. n \in Int /\ \A i \in 1..n : s[i] \in S
  BY LenProperties, ElementOfSeq
<1> QED BY <1>1, SubSeqProperties

LEMMA BeginsShorter ==
    ASSUME NEW S, NEW s \in Seq(S), NEW t \in Seq(S), NEW u \in Seq(S),
           NEW n \in 0..Len(t), Begins(s \o t, u)
    PROVE  Begins(s \o SubSeq(t, 1, n), u)
<1>1. PICK b : b = SubSeq(t, 1, n)
  OBVIOUS
<1>2. b \in Seq(S) /\ Len(b) = n /\ \A i \in 1..n : b[i] = t[i]
  BY <1>1, Shorter
<1>3. Len(s) \in Nat /\ Len(t) \in Nat /\ n \in Nat /\ n <= Len(t)
  BY LenProperties
<1>4. Len(s \o b) = Len(s) + n /\ Len(s \o t) = Len(s) + Len(t)
      /\ (\A i \in 1..(Len(s) + n) : (s \o b)[i] = IF i <= Len(s) THEN s[i] ELSE b[i - Len(s)])
      /\ (\A i \in 1..(Len(s) + Len(t)) :
            (s \o t)[i] = IF i <= Len(s) THEN s[i] ELSE t[i - Len(s)])
  BY <1>2, ConcatProperties
<1>5. ASSUME NEW i \in 1..(Len(s) + n) PROVE (s \o b)[i] = u[i]
  <2>1. i \in 1..(Len(s) + Len(t)) /\ (~(i <= Len(s)) => i - Len(s) \in 1..n)
    BY <1>3, <1>5
  <2>2. (s \o t)[i] = u[i]
    BY <1>4, <2>1 DEF Begins
  <2> QED BY <1>2, <1>4, <2>1, <2>2
<1>6. Len(s \o b) <= Len(u)
  BY <1>3, <1>4, LenProperties DEF Begins
<1> QED BY <1>1, <1>4, <1>5, <1>6 DEF Begins

LEMMA BeginsWhole ==
    ASSUME NEW S, NEW s \in Seq(S), NEW t \in Seq(S), NEW u \in Seq(S),
           Begins(s \o t, u), Len(s) = Len(u)
    PROVE  s = u /\ t = <<>>
<1>1. Len(s \o t) = Len(s) + Len(t) /\ Len(t) \in Nat /\ Len(s) \in Nat
      /\ \A i \in 1..(Len(s) + Len(t)) :
            (s \o t)[i] = IF i <= Len(s) THEN s[i] ELSE t[i - Len(s)]
  BY ConcatProperties, LenProperties
<1>2. Len(t) = 0
  BY <1>1 DEF Begins
<1>3. t = <<>>
  BY <1>2, EmptySeq
<1>4. s \o t = s
  BY <1>3, ConcatEmptySeq
<1>5. \A i \in 1..Len(s) : s[i] = u[i]
  BY <1>4 DEF Begins
<1> QED BY <1>3, <1>5, SeqEqual

LEMMA BeginsPart ==
    ASSUME NEW S, NEW s \in Seq(S), NEW t \in Seq(S)
    PROVE  Begins(s, s \o t) /\ Len(s \o t) = Len(s) + Len(t)
<1>1. Len(s \o t) = Len(s) + Len(t) /\ Len(t) \in Nat /\ Len(s) \in Nat
      /\ \A i \in 1..(Len(s) + Len(t)) :
            (s \o t)[i] = IF i <= Len(s) THEN s[i] ELSE t[i - Len(s)]
  BY ConcatProperties, LenProperties
<1> QED BY <1>1 DEF Begins

-----------------------------------------------------------------------------
(* Rows and words                                                          *)

LEMMA RowOfWord ==
    ASSUME NEW w \in Nat \ {0}, NEW a \in Nat, NEW i \in 1..(a * w)
    PROVE  /\ (i - 1) \div w \in 0..(a - 1) /\ (i - 1) % w \in 0..(w - 1)
<1>1. i - 1 \in Nat /\ i - 1 < a * w
  OBVIOUS
<1>2. i - 1 = w * ((i - 1) \div w) + ((i - 1) % w) /\ (i - 1) % w \in 0..(w - 1)
      /\ (i - 1) \div w \in Int
  BY <1>1
<1>3. PICK q \in Int : q = (i - 1) \div w
  BY <1>2
<1>4. w * q <= i - 1 /\ i - 1 < w * q + w
  BY <1>2, <1>3
<1>5. q < a
  BY <1>1, <1>3, <1>4
<1>6. 0 <= q
  BY <1>1, <1>3, <1>4
<1> QED BY <1>2, <1>3, <1>5, <1>6

LEMMA WordOfRow ==
    ASSUME NEW w \in Nat \ {0}, NEW q \in Nat, NEW k \in 1..w
    PROVE  (q * w + k - 1) \div w = q /\ (q * w + k - 1) % w = k - 1
<1>1. PICK n \in Nat : n = q * w + k - 1
  OBVIOUS
<1>2. n = w * (n \div w) + (n % w) /\ n % w \in 0..(w - 1) /\ n \div w \in Int
  BY <1>1
<1>3. PICK d \in Int : d = n \div w
  BY <1>2
<1>4. w * d <= n /\ n < w * d + w
  BY <1>2, <1>3
<1>5. d = q
  <2>1. ~(d < q)
    <3>1. d < q => w * d + w <= w * q
      BY <1>3
    <3> QED BY <1>1, <1>4, <3>1
  <2>2. ~(q < d)
    <3>1. q < d => w * q + w <= w * d
      BY <1>3
    <3> QED BY <1>1, <1>4, <3>1
  <2> QED BY <1>3, <2>1, <2>2
<1>6. n % w = n - w * d
  BY <1>1, <1>2, <1>3
<1>7. n - w * q = k - 1
  BY <1>1
<1> QED BY <1>1, <1>3, <1>5, <1>6, <1>7

LEMMA CountType ==
    ASSUME NEW first \in 1..Rows, NEW last \in 1..Rows, first <= last
    PROVE  Count(first, last) \in Nat \ {0} /\ Count(first, last) >= RowWords
<1>1. RowWords \in Nat \ {0} /\ Rows \in Nat
  BY DistributeCacheAssumption
<1>2. PICK a \in Nat \ {0} : a = last - first + 1
  BY <1>1
<1>3. a * RowWords >= RowWords /\ a * RowWords \in Nat
  BY <1>1
<1> QED BY <1>1, <1>2, <1>3 DEF Count

LEMMA Geometry ==
    /\ Rows \in Nat /\ RowWords \in Nat \ {0}
    /\ \A r \in Rectangles : /\ r.first \in 1..Rows /\ r.last \in 1..Rows /\ r.first <= r.last
                             /\ r = [first |-> r.first, last |-> r.last]
                             /\ Count(r.first, r.last) \in Nat \ {0}
    /\ \A f \in 1..Rows, l \in 1..Rows : f <= l => [first |-> f, last |-> l] \in Rectangles
    /\ Attributes \notin Rectangles
<1>1. Rows \in Nat /\ RowWords \in Nat \ {0}
  BY DistributeCacheAssumption
<1>2. \A r \in Rectangles : /\ r.first \in 1..Rows /\ r.last \in 1..Rows /\ r.first <= r.last
                            /\ r = [first |-> r.first, last |-> r.last]
  BY DEF Rectangles
<1>3. \A r \in Rectangles : Count(r.first, r.last) \in Nat \ {0}
  BY <1>2, CountType
<1>4. \A f \in 1..Rows, l \in 1..Rows : f <= l => [first |-> f, last |-> l] \in Rectangles
  BY DEF Rectangles
<1>5. Attributes \notin Rectangles
  BY <1>1, <1>2 DEF Attributes
<1> QED BY <1>1, <1>2, <1>3, <1>4, <1>5

-----------------------------------------------------------------------------
(* Units                                                                   *)

LEMMA UnitKinds ==
    /\ \A cmd \in Cmds : <<"command", cmd>> \in Units
    /\ \A k \in AllKeys : <<"key", k>> \in Units
    /\ \A r \in Rectangles \cup {Attributes} : <<"args", r>> \in Units
    /\ \A b \in BOOLEAN : Status(b) \in Units
    /\ \A c \in Clients : <<"nonce", c, 1>> \in Units /\ <<"nonce", c, 2>> \in Units
    /\ \A p \in Planes, n \in Nat, r \in 1..Rows, k \in 1..RowWords :
          <<"data", p, n, r, k>> \in Units
BY DEF Units, Status

LEMMA ArgsUnit ==
    ASSUME NEW u \in Units, u[1] = "args"
    PROVE  u[2] \in Rectangles \cup {Attributes}
BY DEF Units

LEMMA RegionUnit ==
    ASSUME NEW u \in Units, IsRegion(u)
    PROVE  u[2] \in Rectangles
BY ArgsUnit DEF IsRegion, Attributes

LEMMA NonceType ==
    ASSUME NEW c \in Clients
    PROVE  /\ Nonce(c) \in Seq(Units) /\ Len(Nonce(c)) = 2
           /\ Keys(c) \subseteq Seq(Units) /\ Keys(c) \subseteq AllKeys
           /\ Nonce(c) \in Keys(c) /\ <<>> \in Keys(c)
<1>1. <<"nonce", c, 1>> \in Units /\ <<"nonce", c, 2>> \in Units
  BY UnitKinds
<1> QED BY <1>1 DEF Nonce, Keys, AllKeys

LEMMA PlaneType == \A cmd : Plane(cmd) \in Planes
BY DEF Plane, Planes

LEMMA PaintedType ==
    ASSUME NEW n \in Nat
    PROVE  /\ Painted(n) \in Images
           /\ \A p \in Planes, r \in 1..Rows : Painted(n)[p][r] = RowData(p, n, r)
           /\ \A p \in Planes, r \in 1..Rows : RowData(p, n, r) \in [1..RowWords -> Units]
<1>1. \A p \in Planes, r \in 1..Rows : RowData(p, n, r) \in [1..RowWords -> Units]
  BY UnitKinds DEF RowData
<1> QED BY <1>1 DEF Painted, Images

LEMMA ImageNotNone == NoImage \notin Images
<1>1. \A image \in Images : DOMAIN image = Planes
  BY DEF Images
<1>2. "pixels" \in Planes /\ DOMAIN NoImage = {}
  BY DEF Planes, NoImage
<1> QED BY <1>1, <1>2

LEMMA ContentType ==
    ASSUME NEW image \in Images, NEW plane \in Planes,
           NEW first \in 1..Rows, NEW last \in 1..Rows, first <= last
    PROVE  /\ Content(image, plane, first, last) \in Seq(Units)
           /\ Len(Content(image, plane, first, last)) = Count(first, last)
           /\ \A i \in 1..Count(first, last) :
                 Content(image, plane, first, last)[i]
                 = image[plane][first + ((i - 1) \div RowWords)][1 + ((i - 1) % RowWords)]
<1>1. RowWords \in Nat \ {0} /\ Rows \in Nat
  BY DistributeCacheAssumption
<1>2. Count(first, last) \in Nat
  BY CountType
<1>3. ASSUME NEW i \in 1..Count(first, last)
      PROVE  image[plane][first + ((i - 1) \div RowWords)][1 + ((i - 1) % RowWords)] \in Units
  <2>1. PICK a \in Nat : a = last - first + 1
    BY <1>1
  <2>2. (i - 1) \div RowWords \in 0..(a - 1) /\ (i - 1) % RowWords \in 0..(RowWords - 1)
    BY <1>1, <1>3, <2>1, RowOfWord DEF Count
  <2>3. PICK q \in Int, m \in Int : q = (i - 1) \div RowWords /\ m = (i - 1) % RowWords
    BY <2>2
  <2>4. first + q \in 1..Rows /\ 1 + m \in 1..RowWords
    BY <1>1, <2>1, <2>2, <2>3
  <2>5. image[plane] \in [1..Rows -> [1..RowWords -> Units]]
    BY DEF Images
  <2>6. image[plane][first + q] \in [1..RowWords -> Units]
    BY <2>4, <2>5
  <2>7. image[plane][first + q][1 + m] \in Units
    BY <2>4, <2>6
  <2> QED BY <2>3, <2>7
<1>4. Content(image, plane, first, last) \in [1..Count(first, last) -> Units]
  BY <1>3 DEF Content
<1> QED BY <1>2, <1>4 DEF Content

LEMMA SameWords ==
    ASSUME NEW D, NEW S, NEW f \in [D -> S], NEW g \in [D -> S], \A k \in D : f[k] = g[k]
    PROVE  f = g
OBVIOUS

LEMMA StoreType ==
    ASSUME NEW image \in Images, NEW plane \in Planes,
           NEW first \in 1..Rows, NEW last \in 1..Rows, first <= last,
           NEW words \in Seq(Units), Len(words) = Count(first, last)
    PROVE  Store(image, plane, first, last, words) \in Images
<1>1. RowWords \in Nat \ {0} /\ Rows \in Nat
  BY DistributeCacheAssumption
<1>2. ASSUME NEW r \in 1..Rows, r \in first..last
      PROVE  SubSeq(words, (r - first) * RowWords + 1, (r - first + 1) * RowWords)
             \in [1..RowWords -> Units]
  <2>1. PICK q \in Nat, a \in Nat : q = r - first /\ a = last - first + 1
    BY <1>1, <1>2
  <2>2. PICK lo \in Nat, hi \in Nat : lo = q * RowWords + 1 /\ hi = (q + 1) * RowWords
    BY <1>1
  <2>3. hi = lo + RowWords - 1
    BY <1>1, <2>2
  <2>4. q + 1 <= a
    BY <1>1, <1>2, <2>1
  <2>5. hi <= a * RowWords
    BY <1>1, <2>2, <2>4
  <2>6. \A i \in lo..hi : words[i] \in Units
    <3>1. Len(words) = a * RowWords
      BY <2>1 DEF Count
    <3>2. \A i \in lo..hi : i \in 1..Len(words)
      BY <1>1, <2>2, <2>5, <3>1
    <3> QED BY <3>2, ElementOfSeq
  <2>7. SubSeq(words, lo, hi) \in Seq(Units) /\ Len(SubSeq(words, lo, hi)) = RowWords
    BY <1>1, <2>2, <2>3, <2>6, SubSeqProperties
  <2>8. SubSeq(words, lo, hi) \in [1..RowWords -> Units]
    BY <2>7, LenProperties
  <2> QED BY <2>1, <2>2, <2>8
<1>3. image[plane] \in [1..Rows -> [1..RowWords -> Units]]
  BY DEF Images
<1>4. [row \in 1..Rows |->
          IF row \in first..last
          THEN SubSeq(words, (row - first) * RowWords + 1, (row - first + 1) * RowWords)
          ELSE image[plane][row]] \in [1..Rows -> [1..RowWords -> Units]]
  BY <1>2, <1>3
<1> QED BY <1>4 DEF Store, Images

LEMMA ReplacedType ==
    ASSUME NEW image \in Images, NEW plane \in Planes, NEW first, NEW last, NEW n \in Nat
    PROVE  Replaced(image, plane, first, last, n) \in Images
<1>1. image[plane] \in [1..Rows -> [1..RowWords -> Units]]
  BY DEF Images
<1>2. [row \in 1..Rows |->
          IF row \in first..last THEN RowData(plane, n, row) ELSE image[plane][row]]
      \in [1..Rows -> [1..RowWords -> Units]]
  BY <1>1, PaintedType
<1> QED BY <1>2 DEF Replaced, Images

(* What a message carries is stored as what was written.                   *)
LEMMA StoreContent ==
    ASSUME NEW image \in Images, NEW plane \in Planes, NEW n \in Nat,
           NEW first \in 1..Rows, NEW last \in 1..Rows, first <= last
    PROVE  Store(image, plane, first, last, Content(Painted(n), plane, first, last))
           = Replaced(image, plane, first, last, n)
<1>1. RowWords \in Nat \ {0} /\ Rows \in Nat
  BY DistributeCacheAssumption
<1>2. PICK words : words = Content(Painted(n), plane, first, last)
  OBVIOUS
<1>3. /\ words \in Seq(Units) /\ Len(words) = Count(first, last)
      /\ \A i \in 1..Count(first, last) :
            words[i] = Painted(n)[plane][first + ((i - 1) \div RowWords)]
                                        [1 + ((i - 1) % RowWords)]
  BY <1>2, PaintedType, ContentType
<1>4. ASSUME NEW r \in 1..Rows, r \in first..last
      PROVE  SubSeq(words, (r - first) * RowWords + 1, (r - first + 1) * RowWords)
             = RowData(plane, n, r)
  <2>1. PICK q \in Nat, a \in Nat : q = r - first /\ a = last - first + 1
    BY <1>1, <1>4
  <2>2. PICK lo \in Nat, hi \in Nat : lo = q * RowWords + 1 /\ hi = (q + 1) * RowWords
    BY <1>1
  <2>3. hi = lo + RowWords - 1 /\ lo >= 1
    BY <1>1, <2>2
  <2>4. q + 1 <= a
    BY <1>1, <1>4, <2>1
  <2>5. hi <= a * RowWords
    BY <1>1, <2>2, <2>4
  <2>6. Len(words) = a * RowWords /\ Count(first, last) = a * RowWords
    BY <1>3, <2>1 DEF Count
  <2>7. \A i \in lo..hi : words[i] \in Units
    <3>1. \A i \in lo..hi : i \in 1..Len(words)
      BY <1>1, <2>2, <2>5, <2>6
    <3> QED BY <1>3, <3>1, ElementOfSeq
  <2>8. /\ SubSeq(words, lo, hi) \in Seq(Units) /\ Len(SubSeq(words, lo, hi)) = RowWords
        /\ \A k \in 1..RowWords : SubSeq(words, lo, hi)[k] = words[lo + k - 1]
    BY <1>1, <2>2, <2>3, <2>7, SubSeqProperties
  <2>9. SubSeq(words, lo, hi) \in [1..RowWords -> Units]
    BY <2>8, LenProperties
  <2>10. ASSUME NEW k \in 1..RowWords
         PROVE  SubSeq(words, lo, hi)[k] = RowData(plane, n, r)[k]
    <3>1. PICK i \in Nat : i = lo + k - 1
      BY <1>1, <2>2, <2>3
    <3>2. i \in 1..Count(first, last) /\ i - 1 = q * RowWords + k - 1
      BY <1>1, <2>2, <2>3, <2>5, <2>6, <3>1
    <3>3. (i - 1) \div RowWords = q /\ (i - 1) % RowWords = k - 1
      BY <1>1, <3>2, WordOfRow
    <3>4. first + q = r /\ 1 + (k - 1) = k
      BY <1>1, <2>1
    <3>5. words[i] = Painted(n)[plane][r][k]
      BY <1>3, <3>2, <3>3, <3>4
    <3> QED BY <2>8, <3>1, <3>5, PaintedType
  <2>11. RowData(plane, n, r) \in [1..RowWords -> Units]
    BY PaintedType
  <2>12. SubSeq(words, lo, hi) = RowData(plane, n, r)
    <3>1. PICK f, g : f = SubSeq(words, lo, hi) /\ g = RowData(plane, n, r)
      OBVIOUS
    <3>2. f \in [1..RowWords -> Units] /\ g \in [1..RowWords -> Units]
      BY <2>9, <2>11, <3>1
    <3>3. \A k \in 1..RowWords : f[k] = g[k]
      BY <2>10, <3>1
    <3>4. f = g
      <4>1. PICK D : D = 1..RowWords
        OBVIOUS
      <4>2. f \in [D -> Units] /\ g \in [D -> Units] /\ \A k \in D : f[k] = g[k]
        BY <3>2, <3>3, <4>1
      <4> QED BY ONLY <4>2, SameWords
    <3> QED BY <3>1, <3>4
  <2> QED BY <2>1, <2>2, <2>12
<1>5. [row \in 1..Rows |->
          IF row \in first..last
          THEN SubSeq(words, (row - first) * RowWords + 1, (row - first + 1) * RowWords)
          ELSE image[plane][row]]
      = [row \in 1..Rows |->
          IF row \in first..last THEN RowData(plane, n, row) ELSE image[plane][row]]
  BY <1>4
<1> QED BY <1>2, <1>5 DEF Store, Replaced

-----------------------------------------------------------------------------
(* Paths                                                                   *)

LEMMA ResultType == False \in Units /\ Status(TRUE) \in Units /\ Status(FALSE) = False
                    /\ Status(TRUE) # False
<1>1. Status(FALSE) = False
  BY DEF Status, False
<1>2. Status(TRUE) # False
  BY DEF Status, False
<1> QED BY <1>1, <1>2, UnitKinds

(* At the end of its path the server thread is before a command.           *)
LEMMA PathEnd ==
    ASSUME NEW c, NEW ask, NEW image, NEW T, Path(c, <<>>, ask, image, T)
    PROVE  T[1].at = "command" /\ T[1].image = image
<1>1. Len(<<>>) = 0
  BY EmptySeq
<1> QED BY <1>1 DEF Path

(* What it takes from place p to q: the first unit of a path.              *)
Takes(c, s, ask, image, p, q) ==
    /\ Eats(c, p, Head(s), q)
    /\ p.at = "args" /\ p.cmd \notin WriteCommands
          => Tail(s) = <<>> /\ ask.cmd = p.cmd /\ ask.args = Head(s)[2]
    /\ Tail(s) = <<>> =>
          /\ q.at = "command" /\ q.image = image
          /\ ask.cmd # "none" => p.at = "args" /\ p.cmd \notin WriteCommands
    /\ \E U : U[1] = q /\ Path(c, Tail(s), ask, image, U)

LEMMA PathStart ==
    ASSUME NEW c, NEW s \in Seq(Units), s # <<>>, NEW ask, NEW image, NEW T,
           Path(c, s, ask, image, T)
    PROVE  Takes(c, s, ask, image, T[1], T[2])
<1>1. PICK n \in Nat \ {0} : n = Len(s)
  BY OneUnit
<1>2. s[1] = Head(s) /\ Len(Tail(s)) = n - 1 /\ \A i \in 1..(n - 1) : Tail(s)[i] = s[i + 1]
      /\ (Tail(s) = <<>> <=> n = 1)
  BY <1>1, OneUnit
<1>3. /\ \A i \in 1..n : Eats(c, T[i], s[i], T[i + 1])
      /\ T[n + 1].at = "command" /\ T[n + 1].image = image
      /\ \A i \in 1..n :
            T[i].at = "args" /\ T[i].cmd \notin WriteCommands
            => i = n /\ ask.cmd = T[i].cmd /\ ask.args = s[i][2]
      /\ ask.cmd # "none" => T[n].at = "args" /\ T[n].cmd \notin WriteCommands
  BY <1>1 DEF Path
<1>4. PICK U : U = [i \in 1..Len(s) |-> T[i + 1]]
  OBVIOUS
<1>5. \A i \in 1..n : U[i] = T[i + 1]
  BY <1>1, <1>4
<1>6. 1 \in 1..n /\ n \in 1..n
  BY <1>1
<1>7. Eats(c, T[1], Head(s), T[2])
  <2>1. Eats(c, T[1], s[1], T[1 + 1])
    BY <1>3, <1>6
  <2> QED BY <1>2, <2>1
<1>8. T[1].at = "args" /\ T[1].cmd \notin WriteCommands
      => Tail(s) = <<>> /\ ask.cmd = T[1].cmd /\ ask.args = Head(s)[2]
  BY <1>2, <1>3, <1>6
<1>9. Tail(s) = <<>> =>
          /\ T[2].at = "command" /\ T[2].image = image
          /\ ask.cmd # "none" => T[1].at = "args" /\ T[1].cmd \notin WriteCommands
  <2>1. SUFFICES ASSUME n = 1
                 PROVE  /\ T[2].at = "command" /\ T[2].image = image
                        /\ ask.cmd # "none" => T[1].at = "args" /\ T[1].cmd \notin WriteCommands
    BY <1>2
  <2>2. n + 1 = 2
    BY <2>1
  <2> QED BY <1>3, <2>1, <2>2
<1>10. \A i \in 1..(n - 1) : Eats(c, U[i], Tail(s)[i], U[i + 1])
  <2>1. ASSUME NEW i \in 1..(n - 1) PROVE Eats(c, U[i], Tail(s)[i], U[i + 1])
    <3>1. PICK j \in 1..n : j = i + 1
      BY <1>1, <2>1
    <3>2. i \in 1..n /\ U[i] = T[j] /\ U[j] = T[j + 1] /\ Tail(s)[i] = s[j]
      BY <1>1, <1>2, <1>5, <2>1, <3>1
    <3>3. Eats(c, T[j], s[j], T[j + 1])
      BY <1>3
    <3> QED BY <3>1, <3>2, <3>3
  <2> QED BY <2>1
<1>11. U[n].at = "command" /\ U[n].image = image
  BY <1>3, <1>5, <1>6
<1>12. ASSUME NEW i \in 1..(n - 1), U[i].at = "args", U[i].cmd \notin WriteCommands
       PROVE  i = n - 1 /\ ask.cmd = U[i].cmd /\ ask.args = Tail(s)[i][2]
  <2>1. PICK j \in 1..n : j = i + 1
    BY <1>1, <1>12
  <2>2. i \in 1..n /\ U[i] = T[j] /\ Tail(s)[i] = s[j]
    BY <1>1, <1>2, <1>5, <1>12, <2>1
  <2>3. j = n /\ ask.cmd = T[j].cmd /\ ask.args = s[j][2]
    BY <1>3, <1>12, <2>2
  <2> QED BY <1>1, <2>1, <2>2, <2>3
<1>13. ask.cmd # "none" /\ n - 1 > 0 => U[n - 1].at = "args" /\ U[n - 1].cmd \notin WriteCommands
  <2>1. SUFFICES ASSUME ask.cmd # "none", n - 1 > 0
                 PROVE  U[n - 1].at = "args" /\ U[n - 1].cmd \notin WriteCommands
    OBVIOUS
  <2>2. n - 1 \in 1..n /\ (n - 1) + 1 = n
    BY <1>1, <2>1
  <2>3. U[n - 1] = T[n]
    BY <1>5, <2>2
  <2> QED BY <1>3, <2>1, <2>3
<1>14. Path(c, Tail(s), ask, image, U)
  <2>1. Len(Tail(s)) = n - 1 /\ (n - 1) + 1 = n
    BY <1>1, <1>2
  <2> QED BY <1>10, <1>11, <1>12, <1>13, <2>1 DEF Path
<1>15. U[1] = T[2]
  <2>1. 1 + 1 = 2
    OBVIOUS
  <2> QED BY <1>5, <1>6, <2>1
<1> QED BY <1>7, <1>8, <1>9, <1>14, <1>15 DEF Takes

(* A path goes on where another ends.                                      *)
LEMMA PathJoin ==
    ASSUME NEW c, NEW s \in Seq(Units), NEW m \in Seq(Units), m # <<>>,
           NEW ask, NEW between, NEW image, NEW T, NEW M,
           Path(c, s, Nothing, between, T), Path(c, m, ask, image, M),
           M[1].at = "command", M[1].image = between
    PROVE  \E U : U[1] = T[1] /\ Path(c, s \o m, ask, image, U)
<1>1. PICK n \in Nat, k \in Nat \ {0} : n = Len(s) /\ k = Len(m)
  BY OneUnit, LenProperties
<1>2. /\ \A i \in 1..n : Eats(c, T[i], s[i], T[i + 1])
      /\ T[n + 1].at = "command" /\ T[n + 1].image = between
      /\ \A i \in 1..n : T[i].at = "args" /\ T[i].cmd \notin WriteCommands
                         => i = n /\ Nothing.cmd = T[i].cmd
  BY <1>1 DEF Path
<1>3. /\ \A i \in 1..k : Eats(c, M[i], m[i], M[i + 1])
      /\ M[k + 1].at = "command" /\ M[k + 1].image = image
      /\ \A i \in 1..k : M[i].at = "args" /\ M[i].cmd \notin WriteCommands
                         => i = k /\ ask.cmd = M[i].cmd /\ ask.args = m[i][2]
      /\ ask.cmd # "none" => M[k].at = "args" /\ M[k].cmd \notin WriteCommands
  <2>1. Len(m) = k /\ k > 0
    BY <1>1
  <2>2. ask.cmd # "none" /\ k > 0 => M[k].at = "args" /\ M[k].cmd \notin WriteCommands
    BY <2>1 DEF Path
  <2> QED BY <2>1, <2>2 DEF Path
<1>4. s \o m \in Seq(Units) /\ Len(s \o m) = n + k
      /\ \A i \in 1..(n + k) : (s \o m)[i] = IF i <= n THEN s[i] ELSE m[i - n]
  BY <1>1, ConcatProperties
<1>5. PICK U : U = [i \in 1..(n + k + 1) |-> IF i <= n + 1 THEN T[i] ELSE M[i - n]]
  OBVIOUS
<1>6. \A i \in 1..(n + 1) : U[i] = T[i]
  BY <1>1, <1>5
<1>7. \A i \in 2..(k + 1) : U[n + i] = M[i]
  <2>1. ASSUME NEW i \in 2..(k + 1) PROVE U[n + i] = M[i]
    <3>1. n + i \in 1..(n + k + 1) /\ ~(n + i <= n + 1) /\ (n + i) - n = i
      BY <1>1, <2>1
    <3> QED BY <1>5, <3>1
  <2> QED BY <2>1
<1>8. ASSUME NEW i \in 1..n
      PROVE  /\ Eats(c, U[i], (s \o m)[i], U[i + 1])
             /\ ~(U[i].at = "args" /\ U[i].cmd \notin WriteCommands)
  <2>1. i \in 1..(n + 1) /\ i + 1 \in 1..(n + 1) /\ i \in 1..(n + k) /\ i <= n
    BY <1>1, <1>8
  <2>2. U[i] = T[i] /\ U[i + 1] = T[i + 1] /\ (s \o m)[i] = s[i]
    BY <1>4, <1>6, <2>1
  <2>3. ~(T[i].at = "args" /\ T[i].cmd \notin WriteCommands)
    <3>1. SUFFICES ASSUME T[i].at = "args", T[i].cmd \notin WriteCommands PROVE FALSE
      OBVIOUS
    <3>2. Nothing.cmd = T[i].cmd
      BY <1>2, <3>1 DEF Nothing, Asked
    <3>3. Eats(c, T[i], s[i], T[i + 1])
      BY <1>2
    <3>4. T[i].cmd \in {"o"} \cup ReadCommands
      BY <3>1, <3>3 DEF Eats
    <3> QED BY <3>2, <3>4 DEF Nothing, Asked, ReadCommands
  <2> QED BY <1>2, <2>2, <2>3
<1>9. ASSUME NEW i \in 1..k
      PROVE  /\ Eats(c, U[n + i], (s \o m)[n + i], U[n + i + 1])
             /\ U[n + i].at = "args" /\ U[n + i].cmd \notin WriteCommands
                  => i = k /\ ask.cmd = U[n + i].cmd /\ ask.args = (s \o m)[n + i][2]
  <2>1. n + i \in 1..(n + k) /\ ~(n + i <= n) /\ (n + i) - n = i /\ i + 1 \in 2..(k + 1)
        /\ n + i + 1 = n + (i + 1)
    BY <1>1, <1>9
  <2>2. (s \o m)[n + i] = m[i] /\ U[n + i + 1] = M[i + 1]
    BY <1>4, <1>7, <2>1
  <2>3. Eats(c, M[i], m[i], M[i + 1])
    BY <1>3
  <2>4. CASE i = 1
    <3>1. U[n + i] = T[n + 1]
      <4>1. n + 1 \in 1..(n + 1)
        BY <1>1
      <4> QED BY <1>6, <2>4, <4>1
    <3>2. Eats(c, T[n + 1], m[i], M[i + 1])
      BY <1>2, <2>3, <2>4 DEF Eats
    <3> QED BY <1>2, <2>2, <3>1, <3>2
  <2>5. CASE i # 1
    <3>1. U[n + i] = M[i]
      BY <1>1, <1>7, <1>9, <2>5
    <3> QED BY <1>3, <2>2, <2>3, <3>1
  <2> QED BY <2>4, <2>5
<1>10. U[n + k + 1].at = "command" /\ U[n + k + 1].image = image
  <2>1. k + 1 \in 2..(k + 1) /\ n + k + 1 = n + (k + 1)
    BY <1>1
  <2> QED BY <1>3, <1>7, <2>1
<1>11. ask.cmd # "none" => U[n + k].at = "args" /\ U[n + k].cmd \notin WriteCommands
  <2>1. SUFFICES ASSUME ask.cmd # "none"
                 PROVE  U[n + k].at = "args" /\ U[n + k].cmd \notin WriteCommands
    OBVIOUS
  <2>2. k # 1
    BY <1>3, <2>1
  <2>3. U[n + k] = M[k]
    BY <1>1, <1>7, <2>2
  <2> QED BY <1>3, <2>1, <2>3
<1>12. ASSUME NEW j \in 1..(n + k)
       PROVE  /\ Eats(c, U[j], (s \o m)[j], U[j + 1])
              /\ U[j].at = "args" /\ U[j].cmd \notin WriteCommands
                   => j = n + k /\ ask.cmd = U[j].cmd /\ ask.args = (s \o m)[j][2]
  <2>1. CASE j <= n
    <3>1. j \in 1..n
      BY <1>1, <1>12, <2>1
    <3> QED BY <1>8, <3>1
  <2>2. CASE ~(j <= n)
    <3>1. PICK i \in 1..k : j = n + i
      <4>1. j - n \in 1..k /\ j = n + (j - n)
        BY <1>1, <1>12, <2>2
      <4> QED BY <4>1
    <3> QED BY <1>9, <3>1
  <2> QED BY <2>1, <2>2
<1>13. Path(c, s \o m, ask, image, U)
  BY <1>4, <1>10, <1>11, <1>12 DEF Path
<1>14. U[1] = T[1]
  <2>1. 1 \in 1..(n + 1)
    BY <1>1
  <2> QED BY <1>6, <2>1
<1> QED BY <1>13, <1>14

-----------------------------------------------------------------------------
(* The paths of the messages                                               *)

Place(at, cmd, image, args, words) ==
    [at |-> at, cmd |-> cmd, image |-> image, args |-> args, words |-> words]

\* A request, as Request makes it of the right key.
RightRequest(c, cmd, args) ==
    << <<"command", cmd>>, <<"key", Nonce(c)>>, <<"args", args>> >>

LEMMA RightRequestType ==
    ASSUME NEW c \in Clients, NEW cmd \in Cmds, NEW args \in Rectangles \cup {Attributes}
    PROVE  /\ RightRequest(c, cmd, args) \in Seq(Units)
           /\ RightRequest(c, cmd, args) # <<>> /\ Len(RightRequest(c, cmd, args)) = 3
<1>1. Nonce(c) \in AllKeys
  BY NonceType
<1>2. <<"command", cmd>> \in Units /\ <<"key", Nonce(c)>> \in Units /\ <<"args", args>> \in Units
  BY <1>1, UnitKinds
<1> QED BY <1>2 DEF RightRequest

LEMMA RequestPath ==
    ASSUME NEW c \in Clients, NEW cmd \in {"o"} \cup ReadCommands,
           NEW args \in Rectangles \cup {Attributes}, NEW image,
           cmd = "o" => args = Attributes,
           cmd # "o" => args \in Rectangles /\ image # NoImage
    PROVE  \E M : /\ M[1].at = "command" /\ M[1].image = image
                  /\ Path(c, RightRequest(c, cmd, args), Asked(cmd, args),
                          IF cmd = "o" THEN NewImage ELSE image, M)
<1> DEFINE after == IF cmd = "o" THEN NewImage ELSE image
<1>1. PICK m : m = RightRequest(c, cmd, args)
  OBVIOUS
<1>2. m[1] = <<"command", cmd>> /\ m[2] = <<"key", Nonce(c)>> /\ m[3] = <<"args", args>>
      /\ Len(m) = 3
  BY <1>1 DEF RightRequest
<1>3. PICK p1, p2, p3, p4 :
         /\ p1 = Place("command", cmd, image, args, <<>>)
         /\ p2 = Place("key", cmd, image, args, <<>>)
         /\ p3 = Place("args", cmd, image, args, <<>>)
         /\ p4 = Place("command", cmd, after, args, <<>>)
  OBVIOUS
<1>4. /\ p1.at = "command" /\ p1.image = image
      /\ p2.at = "key" /\ p2.cmd = cmd /\ p2.image = image
      /\ p3.at = "args" /\ p3.cmd = cmd /\ p3.image = image
      /\ p4.at = "command" /\ p4.image = after
  BY <1>3 DEF Place
<1>5. Eats(c, p1, m[1], p2)
  BY <1>2, <1>4 DEF Eats
<1>6. Eats(c, p2, m[2], p3)
  <2>1. cmd # "d"
    BY DEF ReadCommands
  <2> QED BY <1>2, <1>4, <2>1 DEF Eats
<1>7. Eats(c, p3, m[3], p4)
  <2>1. m[3][1] = "args" /\ m[3][2] = args
    BY <1>2
  <2>2. CASE cmd = "o"
    BY <1>4, <2>2 DEF Eats
  <2>3. CASE cmd # "o"
    BY <1>4, <2>1, <2>3 DEF Eats
  <2> QED BY <2>2, <2>3
<1>8. cmd \notin WriteCommands
  BY DEF ReadCommands, WriteCommands
<1>9. PICK M, ask : M = <<p1, p2, p3, p4>> /\ ask = Asked(cmd, args)
  OBVIOUS
<1>10. M[1] = p1 /\ M[2] = p2 /\ M[3] = p3 /\ M[4] = p4
  BY <1>9
<1>14. ask.cmd = cmd /\ ask.args = args
  BY <1>9 DEF Asked
<1> HIDE DEF after
<1>11. \A i \in 1..3 :
          /\ Eats(c, M[i], m[i], M[i + 1])
          /\ M[i].at = "args" /\ M[i].cmd \notin WriteCommands
               => i = 3 /\ ask.cmd = M[i].cmd /\ ask.args = m[i][2]
  <2>1. ASSUME NEW i \in 1..3
        PROVE  /\ Eats(c, M[i], m[i], M[i + 1])
               /\ M[i].at = "args" /\ M[i].cmd \notin WriteCommands
                    => i = 3 /\ ask.cmd = M[i].cmd /\ ask.args = m[i][2]
    <3>1. CASE i = 1
      <4>1. i + 1 = 2
        BY <3>1
      <4> QED BY <1>4, <1>5, <1>10, <3>1, <4>1
    <3>2. CASE i = 2
      <4>1. i + 1 = 3
        BY <3>2
      <4> QED BY <1>4, <1>6, <1>10, <3>2, <4>1
    <3>3. CASE i = 3
      <4>1. i + 1 = 4
        BY <3>3
      <4> QED BY <1>2, <1>4, <1>7, <1>10, <1>14, <3>3, <4>1
    <3> QED BY <2>1, <3>1, <3>2, <3>3
  <2> QED BY <2>1
<1>12. M[3 + 1].at = "command" /\ M[3 + 1].image = after
  <2>1. 3 + 1 = 4
    OBVIOUS
  <2> QED BY <1>4, <1>10, <2>1
<1>13. Path(c, m, ask, after, M)
  BY <1>2, <1>4, <1>8, <1>10, <1>11, <1>12 DEF Path
<1> QED BY <1>1, <1>4, <1>9, <1>10, <1>13 DEF after

LEMMA Grow ==
    ASSUME NEW S, NEW s \in Seq(S), NEW j \in Nat, j < Len(s)
    PROVE  /\ Append(SubSeq(s, 1, j), s[j + 1]) = SubSeq(s, 1, j + 1)
           /\ Len(SubSeq(s, 1, j + 1)) = j + 1
<1>1. j \in 0..Len(s) /\ j + 1 \in 0..Len(s) /\ j + 1 \in 1..Len(s)
  BY LenProperties
<1>2. PICK a, b : a = SubSeq(s, 1, j) /\ b = SubSeq(s, 1, j + 1)
  OBVIOUS
<1>3. a \in Seq(S) /\ Len(a) = j /\ \A i \in 1..j : a[i] = s[i]
  BY <1>1, <1>2, Shorter
<1>4. b \in Seq(S) /\ Len(b) = j + 1 /\ \A i \in 1..(j + 1) : b[i] = s[i]
  BY <1>1, <1>2, Shorter
<1>5. s[j + 1] \in S
  BY <1>1, ElementOfSeq
<1>6. PICK e : e = Append(a, s[j + 1])
  OBVIOUS
<1>7. e \in Seq(S) /\ Len(e) = j + 1 /\ e[j + 1] = s[j + 1] /\ \A i \in 1..j : e[i] = a[i]
  BY <1>3, <1>5, <1>6, AppendProperties
<1>8. \A i \in 1..(j + 1) : e[i] = b[i]
  <2>1. \A i \in 1..(j + 1) : i \in 1..j \/ i = j + 1
    OBVIOUS
  <2> QED BY <1>3, <1>4, <1>7, <2>1
<1>9. e = b
  BY <1>4, <1>7, <1>8, SeqEqual
<1> QED BY <1>2, <1>4, <1>6, <1>9

LEMMA WritePath ==
    ASSUME NEW c \in Clients, NEW cmd \in WriteCommands, NEW image \in Images, NEW n \in Nat,
           NEW first \in 1..Rows, NEW last \in 1..Rows, first <= last
    PROVE  \E M :
              /\ M[1].at = "command" /\ M[1].image = image
              /\ Path(c, RightRequest(c, cmd, [first |-> first, last |-> last])
                         \o Content(Painted(n), Plane(cmd), first, last), Nothing,
                      Replaced(image, Plane(cmd), first, last, n), M)
<1> DEFINE after == Replaced(image, Plane(cmd), first, last, n)
<1>1. PICK args, words, r, m :
         /\ args = [first |-> first, last |-> last]
         /\ words = Content(Painted(n), Plane(cmd), first, last)
         /\ r = RightRequest(c, cmd, args)
         /\ m = r \o words
  OBVIOUS
<1>2. args \in Rectangles /\ args.first = first /\ args.last = last
  BY <1>1, Geometry
<1>3. Painted(n) \in Images /\ Plane(cmd) \in Planes
  BY PaintedType, PlaneType
<1>4. PICK k \in Nat \ {0} : k = Count(first, last)
  BY CountType
<1>5. words \in Seq(Units) /\ Len(words) = k
  BY <1>1, <1>3, <1>4, ContentType
<1>6. cmd \in Cmds
  BY DEF Cmds
<1>7. r \in Seq(Units) /\ Len(r) = 3
  BY <1>1, <1>2, <1>6, RightRequestType
<1>8. r[1] = <<"command", cmd>> /\ r[2] = <<"key", Nonce(c)>> /\ r[3] = <<"args", args>>
  BY <1>1 DEF RightRequest
<1>9. /\ Len(m) = 3 + k
      /\ \A i \in 1..(3 + k) : m[i] = IF i <= 3 THEN r[i] ELSE words[i - 3]
  <2>1. /\ Len(r \o words) = Len(r) + Len(words)
        /\ \A i \in 1..(Len(r) + Len(words)) :
              (r \o words)[i] = IF i <= Len(r) THEN r[i] ELSE words[i - Len(r)]
    BY <1>5, <1>7, ConcatProperties
  <2> QED BY <1>1, <1>5, <1>7, <2>1, ZenonT(60)
<1>10. Store(image, Plane(cmd), first, last, words) = after
  BY <1>1, <1>3, StoreContent
<1>11. PICK p1, p2, p3, p4 :
         /\ p1 = Place("command", cmd, image, args, <<>>)
         /\ p2 = Place("key", cmd, image, args, <<>>)
         /\ p3 = Place("args", cmd, image, args, <<>>)
         /\ p4 = Place("command", cmd, after, args, <<>>)
  OBVIOUS
<1> DEFINE data(i) == Place("data", cmd, image, args, SubSeq(words, 1, i - 4))
<1>12. PICK M : M = [i \in 1..(4 + k) |->
                        IF i = 1 THEN p1 ELSE IF i = 2 THEN p2 ELSE IF i = 3 THEN p3
                        ELSE IF i = 4 + k THEN p4 ELSE data(i)]
  OBVIOUS
<1>13. /\ M[1] = p1 /\ M[2] = p2 /\ M[3] = p3 /\ M[4 + k] = p4
       /\ \A i \in 4..(3 + k) : M[i] = data(i)
  <2>1. /\ 1 \in 1..(4 + k) /\ 2 \in 1..(4 + k) /\ 3 \in 1..(4 + k) /\ 4 + k \in 1..(4 + k)
        /\ 4 + k # 1 /\ 4 + k # 2 /\ 4 + k # 3 /\ 1 # 4 + k /\ 2 # 4 + k /\ 3 # 4 + k
        /\ \A i \in 4..(3 + k) : i \in 1..(4 + k) /\ i # 1 /\ i # 2 /\ i # 3 /\ i # 4 + k
    BY <1>4
  <2> HIDE DEF data
  <2>2. M[1] = p1 /\ M[2] = p2 /\ M[3] = p3
    BY <1>12, <2>1
  <2>3. M[4 + k] = p4
    BY <1>12, <2>1
  <2>4. \A i \in 4..(3 + k) : M[i] = data(i)
    BY <1>12, <2>1
  <2> QED BY <2>2, <2>3, <2>4
<1>14. /\ p1.at = "command" /\ p1.image = image
       /\ p2.at = "key" /\ p2.cmd = cmd /\ p2.image = image
       /\ p3.at = "args" /\ p3.cmd = cmd /\ p3.image = image
       /\ p4.at = "command" /\ p4.image = after
  BY <1>11 DEF Place
<1>15. ASSUME NEW i
       PROVE  /\ data(i).at = "data" /\ data(i).cmd = cmd /\ data(i).image = image
              /\ data(i).args = args /\ data(i).words = SubSeq(words, 1, i - 4)
  BY DEF Place
<1> HIDE DEF after, data
<1>16. image # NoImage /\ cmd # "d" /\ cmd # "o"
  BY ImageNotNone DEF WriteCommands
<1>17. Eats(c, p1, r[1], p2) /\ Eats(c, p2, r[2], p3)
  BY <1>8, <1>14, <1>16 DEF Eats
<1>18. Eats(c, p3, r[3], data(4))
  <2>1. SubSeq(words, 1, 4 - 4) = <<>>
    BY SubSeqEmpty
  <2>2. data(4).words = <<>>
    BY <1>15, <2>1
  <2> QED BY <1>2, <1>8, <1>14, <1>15, <2>2 DEF Eats
<1>19. ASSUME NEW i \in 4..(3 + k)
       PROVE  Eats(c, data(i), words[i - 3], IF i = 3 + k THEN p4 ELSE data(i + 1))
  <2>1. PICK j \in Nat : j = i - 4
    BY <1>4, <1>19
  <2>2. j < Len(words) /\ j + 1 = i - 3 /\ j + 1 = (i + 1) - 4 /\ (i = 3 + k <=> j + 1 = k)
        /\ j + 1 <= k
    BY <1>4, <1>5, <1>19, <2>1
  <2>3. /\ Append(SubSeq(words, 1, j), words[j + 1]) = SubSeq(words, 1, j + 1)
        /\ Len(SubSeq(words, 1, j + 1)) = j + 1
    BY <1>5, <2>2, Grow
  <2>4. data(i).words = SubSeq(words, 1, j)
    BY <1>15, <2>1
  <2>5. Append(data(i).words, words[i - 3]) = SubSeq(words, 1, j + 1)
    BY <2>2, <2>3, <2>4
  <2>6. CASE i = 3 + k
    <3>1. SubSeq(words, 1, j + 1) = words
      BY <1>5, <2>2, <2>6, SubSeqFull
    <3>2. Append(data(i).words, words[i - 3]) = words
      BY <2>5, <3>1
    <3>3. Eats(c, data(i), words[i - 3], p4)
      BY <1>2, <1>4, <1>5, <1>10, <1>14, <1>15, <3>2 DEF Eats
    <3> QED BY <2>6, <3>3
  <2>7. CASE i # 3 + k
    <3>1. data(i + 1).words = SubSeq(words, 1, j + 1)
      BY <1>15, <2>2
    <3>2. j + 1 < Count(first, last)
      BY <1>4, <2>2, <2>7
    <3>3. Eats(c, data(i), words[i - 3], data(i + 1))
      BY <1>2, <1>15, <2>3, <2>5, <3>1, <3>2 DEF Eats
    <3> QED BY <2>7, <3>3
  <2> QED BY <2>6, <2>7
<1>20. cmd \in WriteCommands /\ "data" # "args"
  OBVIOUS
<1>21. ASSUME NEW i \in 1..(3 + k)
       PROVE  /\ Eats(c, M[i], m[i], M[i + 1])
              /\ ~(M[i].at = "args" /\ M[i].cmd \notin WriteCommands)
  <2>1. CASE i = 1
    <3>1. i + 1 = 2 /\ m[i] = r[1]
      BY <1>4, <1>9, <2>1
    <3> QED BY <1>13, <1>14, <1>17, <2>1, <3>1
  <2>2. CASE i = 2
    <3>1. i + 1 = 3 /\ m[i] = r[2]
      BY <1>4, <1>9, <2>2
    <3> QED BY <1>13, <1>14, <1>17, <2>2, <3>1
  <2>3. CASE i = 3
    <3>1. i + 1 = 4 /\ m[i] = r[3] /\ 4 \in 4..(3 + k)
      BY <1>4, <1>9, <2>3
    <3> QED BY <1>13, <1>14, <1>18, <2>3, <3>1
  <2>4. CASE i \in 4..(3 + k)
    <3>1. m[i] = words[i - 3]
      BY <1>4, <1>9, <2>4
    <3>2. M[i] = data(i) /\ M[i].at = "data"
      BY <1>13, <1>15, <2>4
    <3>3. M[i + 1] = IF i = 3 + k THEN p4 ELSE data(i + 1)
      <4>1. CASE i = 3 + k
        <5>1. i + 1 = 4 + k
          BY <4>1, <1>4
        <5> QED BY <1>13, <4>1, <5>1
      <4>2. CASE i # 3 + k
        <5>1. i + 1 \in 4..(3 + k)
          BY <1>4, <2>4, <4>2
        <5> QED BY <1>13, <4>2, <5>1
      <4> QED BY <4>1, <4>2
    <3> QED BY <1>19, <2>4, <3>1, <3>2, <3>3
  <2>5. i = 1 \/ i = 2 \/ i = 3 \/ i \in 4..(3 + k)
    BY <1>4, <1>21
  <2> QED BY <2>1, <2>2, <2>3, <2>4, <2>5
<1>22. M[(3 + k) + 1].at = "command" /\ M[(3 + k) + 1].image = after
  <2>1. (3 + k) + 1 = 4 + k
    BY <1>4
  <2> QED BY <1>13, <1>14, <2>1
<1>23. Path(c, m, Nothing, after, M)
  <2>1. Nothing.cmd = "none"
    BY DEF Nothing, Asked
  <2> QED BY <1>9, <1>21, <1>22, <2>1 DEF Path
<1>24. M[1].at = "command" /\ M[1].image = image
  BY <1>13, <1>14
<1> QED BY <1>1, <1>23, <1>24 DEF after

-----------------------------------------------------------------------------
(* The server thread on the path                                           *)

LEMMA NothingLeft ==
    ASSUME NEW a \in Seq(Units), NEW b \in Seq(Units), a \o b = <<>>
    PROVE  a = <<>> /\ b = <<>>
BY ConcatEqualIffEmpty

LEMMA FollowsTake ==
    ASSUME NEW c, NEW h, h.out \in Seq(Units), NEW s \in Seq(Units), s # <<>>,
           NEW a \in Seq(Units), NEW ask, NEW image, Follows(c, h, s, a, ask, image)
    PROVE  /\ \E p, q : IsAt(h, p) /\ Takes(c, s, ask, image, p, q)
           /\ a = <<>> /\ h.out = <<>> /\ a \o h.out = <<>>
<1>1. PICK T : IsAt(h, T[1]) /\ Path(c, s, ask, image, T)
  BY DEF Follows
<1>2. Takes(c, s, ask, image, T[1], T[2])
  BY <1>1, PathStart
<1>3. a \o h.out = <<>>
  BY DEF Follows
<1>4. a = <<>> /\ h.out = <<>>
  BY <1>3, NothingLeft
<1> QED BY <1>1, <1>2, <1>3, <1>4

LEMMA FollowsCommand ==
    ASSUME NEW c, NEW h, h.out \in Seq(Units), NEW s \in Seq(Units), s # <<>>,
           NEW a \in Seq(Units), NEW ask, NEW image, Follows(c, h, s, a, ask, image),
           h.pc = "command",
           NEW g, g.pc = "key", g.command = Head(s), g.image = h.image, g.in = h.in,
           g.out = h.out
    PROVE  Follows(c, g, Tail(s), a, ask, image) /\ Tail(s) # <<>>
<1>0. PICK p, q : IsAt(h, p) /\ Takes(c, s, ask, image, p, q)
  BY FollowsTake
<1>20. a = <<>> /\ h.out = <<>> /\ a \o h.out = <<>>
  BY FollowsTake
<1>1. PICK U :
         /\ IsAt(h, p) /\ Eats(c, p, Head(s), q) /\ a = <<>> /\ h.out = <<>>
         /\ Tail(s) = <<>> => q.at = "command"
         /\ U[1] = q /\ Path(c, Tail(s), ask, image, U)
  BY <1>0, <1>20 DEF Takes
<1>2. p.at = "command" /\ p.image = h.image
  BY <1>1 DEF IsAt
<1>3. q.at = "key" /\ Head(s) = <<"command", q.cmd>> /\ q.image = h.image
  BY <1>1, <1>2 DEF Eats
<1>4. Head(s)[2] = q.cmd
  BY <1>3
<1>5. IsAt(g, q)
  BY <1>3, <1>4 DEF IsAt
<1>6. Tail(s) # <<>> /\ h.in = <<>>
  BY <1>1, <1>3 DEF Follows
<1>7. a \o g.out = <<>>
  BY <1>1 DEF Follows
<1> QED BY <1>1, <1>5, <1>6, <1>7 DEF Follows

LEMMA FollowsKey ==
    ASSUME NEW c, NEW h, h.out \in Seq(Units), NEW s \in Seq(Units), s # <<>>,
           NEW a \in Seq(Units), NEW ask, NEW image, Follows(c, h, s, a, ask, image),
           h.pc = "key"
    PROVE  /\ Head(s) = <<"key", Nonce(c)>> /\ h.command[2] # "d"
           /\ h.command[2] # "o" => h.image # NoImage
           /\ \A g : g.pc = "args" /\ g.command = h.command /\ g.image = h.image
                     /\ g.in = h.in /\ g.out = h.out
                     => Follows(c, g, Tail(s), a, ask, image)
<1>0. PICK p, q : IsAt(h, p) /\ Takes(c, s, ask, image, p, q)
  BY FollowsTake
<1>20. a = <<>> /\ h.out = <<>> /\ a \o h.out = <<>>
  BY FollowsTake
<1>1. PICK U :
         /\ IsAt(h, p) /\ Eats(c, p, Head(s), q) /\ a = <<>> /\ h.out = <<>>
         /\ Tail(s) = <<>> => q.at = "command"
         /\ U[1] = q /\ Path(c, Tail(s), ask, image, U)
  BY <1>0, <1>20 DEF Takes
<1>2. p.at = "key" /\ p.image = h.image /\ p.cmd = h.command[2]
  BY <1>1 DEF IsAt
<1>3. q.at = "args" /\ Head(s) = <<"key", Nonce(c)>> /\ q.image = h.image
      /\ q.cmd = h.command[2] /\ p.cmd # "d" /\ (p.cmd # "o" => p.image # NoImage)
  BY <1>1, <1>2 DEF Eats
<1>4. Tail(s) # <<>> /\ h.in = <<>> /\ a \o <<>> = <<>>
  BY <1>1, <1>3 DEF Follows
<1>5. ASSUME NEW g, g.pc = "args", g.command = h.command, g.image = h.image, g.in = h.in,
             g.out = h.out
      PROVE  Follows(c, g, Tail(s), a, ask, image)
  <2>1. IsAt(g, q)
    BY <1>3, <1>5 DEF IsAt
  <2> QED BY <1>1, <1>4, <1>5, <2>1 DEF Follows
<1> QED BY <1>2, <1>3, <1>5

LEMMA FollowsOpen ==
    ASSUME NEW c, NEW h, h.out \in Seq(Units), NEW s \in Seq(Units), s # <<>>,
           NEW a \in Seq(Units), NEW ask, NEW image, Follows(c, h, s, a, ask, image),
           h.pc = "args", h.command[2] = "o"
    PROVE  /\ a = <<>> /\ ask.cmd = "o"
           /\ \A g : g.pc = "status" /\ g.status /\ g.image = NewImage /\ g.in = h.in
                     /\ g.out = <<Status(TRUE)>>
                     => Follows(c, g, Tail(s), a, ask, image)
<1>0. PICK p, q : IsAt(h, p) /\ Takes(c, s, ask, image, p, q)
  BY FollowsTake
<1>20. a = <<>> /\ h.out = <<>> /\ a \o h.out = <<>>
  BY FollowsTake
<1>1. PICK U :
         /\ IsAt(h, p) /\ Eats(c, p, Head(s), q) /\ a = <<>> /\ h.out = <<>>
         /\ p.at = "args" /\ p.cmd \notin WriteCommands
              => Tail(s) = <<>> /\ ask.cmd = p.cmd /\ ask.args = Head(s)[2]
         /\ U[1] = q /\ Path(c, Tail(s), ask, image, U)
  BY <1>0, <1>20 DEF Takes
<1>2. p.at = "args" /\ p.cmd = "o"
  BY <1>1 DEF IsAt
<1>3. Tail(s) = <<>> /\ ask.cmd = "o" /\ ask.args = Head(s)[2]
  BY <1>1, <1>2 DEF WriteCommands
<1>4. q.at = "command" /\ q.image = NewImage
  BY <1>1, <1>2 DEF Eats, ReadCommands, WriteCommands
<1>5. h.in = <<>> /\ ask.cmd = "o" /\ Reply(ask, image) = <<Status(TRUE)>>
  BY <1>2, <1>3 DEF Follows, Reply, Asked
<1>6. a \o <<Status(TRUE)>> = <<Status(TRUE)>>
  BY <1>1, ResultType, ConcatEmptySeq
<1>7. ASSUME NEW g, g.pc = "status", g.status, g.image = NewImage, g.in = h.in,
             g.out = <<Status(TRUE)>>
      PROVE  Follows(c, g, Tail(s), a, ask, image)
  <2>1. IsAt(g, q)
    BY <1>4, <1>7 DEF IsAt
  <2> QED BY <1>1, <1>3, <1>5, <1>6, <1>7, <2>1 DEF Follows
<1> QED BY <1>1, <1>5, <1>7

LEMMA FollowsRead ==
    ASSUME NEW c, NEW h, h.out \in Seq(Units), NEW s \in Seq(Units), s # <<>>,
           NEW a \in Seq(Units), NEW ask, NEW image \in Images, Follows(c, h, s, a, ask, image),
           h.pc = "args", h.command[2] \in ReadCommands
    PROVE  /\ a = <<>> /\ ask.cmd = h.command[2]
           /\ \A g : g.pc = "reply" /\ g.image = h.image /\ g.in = h.in
                     /\ g.out = Content(h.image, Plane(h.command[2]), Head(s)[2].first,
                                        Head(s)[2].last)
                     => Follows(c, g, Tail(s), a, ask, image)
<1>0. PICK p, q : IsAt(h, p) /\ Takes(c, s, ask, image, p, q)
  BY FollowsTake
<1>20. a = <<>> /\ h.out = <<>> /\ a \o h.out = <<>>
  BY FollowsTake
<1>1. PICK U :
         /\ IsAt(h, p) /\ Eats(c, p, Head(s), q) /\ a = <<>> /\ h.out = <<>>
         /\ p.at = "args" /\ p.cmd \notin WriteCommands
              => Tail(s) = <<>> /\ ask.cmd = p.cmd /\ ask.args = Head(s)[2]
         /\ Tail(s) = <<>> => q.at = "command" /\ q.image = image
         /\ U[1] = q /\ Path(c, Tail(s), ask, image, U)
  BY <1>0, <1>20 DEF Takes
<1>2. p.at = "args" /\ p.cmd = h.command[2] /\ p.image = h.image
  BY <1>1 DEF IsAt
<1>3. p.cmd \notin WriteCommands /\ p.cmd # "o" /\ p.cmd # "none"
  BY <1>2 DEF ReadCommands, WriteCommands
<1>4. PICK args : args = Head(s)[2]
  OBVIOUS
<1>5. Tail(s) = <<>> /\ ask.cmd = p.cmd /\ ask.args = args
  BY <1>1, <1>2, <1>3, <1>4
<1>6. q.at = "command" /\ q.image = h.image /\ h.image = image /\ args \in Rectangles
  BY <1>1, <1>2, <1>3, <1>4, <1>5 DEF Eats
<1>7. ask.cmd = p.cmd /\ ask.args = args
  BY <1>5 DEF Asked
<1>8. Reply(ask, image) = Content(h.image, Plane(h.command[2]), args.first, args.last)
  BY <1>2, <1>3, <1>6, <1>7 DEF Reply
<1>9. Reply(ask, image) \in Seq(Units)
  <2>1. args.first \in 1..Rows /\ args.last \in 1..Rows /\ args.first <= args.last
    BY <1>6, Geometry
  <2> QED BY <1>6, <1>8, <2>1, ContentType, PlaneType
<1>10. a \o Reply(ask, image) = Reply(ask, image)
  BY <1>1, <1>9, ConcatEmptySeq
<1>11. h.in = <<>>
  BY DEF Follows
<1>12. ASSUME NEW g, g.pc = "reply", g.image = h.image, g.in = h.in,
              g.out = Content(h.image, Plane(h.command[2]), Head(s)[2].first,
                              Head(s)[2].last)
       PROVE  Follows(c, g, Tail(s), a, ask, image)
  <2>1. IsAt(g, q)
    BY <1>6, <1>12 DEF IsAt
  <2>2. g.out = Reply(ask, image)
    BY <1>4, <1>8, <1>12
  <2> QED BY <1>1, <1>5, <1>10, <1>11, <1>12, <2>1, <2>2 DEF Follows
<1> QED BY <1>1, <1>2, <1>7, <1>12

LEMMA FollowsWrite ==
    ASSUME NEW c, NEW h, h.out \in Seq(Units), NEW s \in Seq(Units), s # <<>>,
           NEW a \in Seq(Units), NEW ask, NEW image, Follows(c, h, s, a, ask, image),
           h.pc = "args", h.command[2] \in WriteCommands
    PROVE  /\ a = <<>>
           /\ \A g : g.pc = "data" /\ g.command = h.command /\ g.image = h.image
                     /\ g.args = Head(s)[2] /\ g.in = h.in /\ g.out = h.out
                     => Follows(c, g, Tail(s), a, ask, image)
<1>0. PICK p, q : IsAt(h, p) /\ Takes(c, s, ask, image, p, q)
  BY FollowsTake
<1>20. a = <<>> /\ h.out = <<>> /\ a \o h.out = <<>>
  BY FollowsTake
<1>1. PICK U :
         /\ IsAt(h, p) /\ Eats(c, p, Head(s), q) /\ a = <<>> /\ h.out = <<>>
         /\ Tail(s) = <<>> => q.at = "command"
         /\ U[1] = q /\ Path(c, Tail(s), ask, image, U)
  BY <1>0, <1>20 DEF Takes
<1>2. p.at = "args" /\ p.cmd = h.command[2] /\ p.image = h.image
  BY <1>1 DEF IsAt
<1>3. p.cmd \notin ReadCommands /\ p.cmd # "o"
  BY <1>2 DEF ReadCommands, WriteCommands
<1>4. q.at = "data" /\ q.cmd = p.cmd /\ q.image = p.image
      /\ Head(s) = <<"args", q.args>> /\ q.args \in Rectangles /\ q.words = <<>>
  BY <1>1, <1>2, <1>3 DEF Eats
<1>5. Head(s)[2] = q.args /\ Count(q.args.first, q.args.last) \in Nat \ {0}
  BY <1>4, Geometry
<1>6. Tail(s) # <<>> /\ h.in = <<>> /\ a \o <<>> = <<>> /\ Len(<<>>) = 0
  BY <1>1, <1>4 DEF Follows
<1>7. ASSUME NEW g, g.pc = "data", g.command = h.command, g.image = h.image,
             g.args = Head(s)[2], g.in = h.in, g.out = h.out
      PROVE  Follows(c, g, Tail(s), a, ask, image)
  <2>1. Len(g.in) < Count(g.args.first, g.args.last)
    BY <1>5, <1>6, <1>7
  <2>2. IsAt(g, q)
    BY <1>2, <1>4, <1>5, <1>6, <1>7, <2>1 DEF IsAt
  <2> QED BY <1>1, <1>6, <1>7, <2>2 DEF Follows
<1> QED BY <1>1, <1>7

LEMMA FollowsData ==
    ASSUME NEW c, NEW h, h.out \in Seq(Units), h.in \in Seq(Units),
           NEW s \in Seq(Units), s # <<>>,
           NEW a \in Seq(Units), NEW ask, NEW image, Follows(c, h, s, a, ask, image),
           h.pc = "data", Len(h.in) # Count(h.args.first, h.args.last),
           NEW g, g.pc = "data", g.command = h.command, g.image = h.image,
           g.args = h.args, g.in = Append(h.in, Head(s)), g.out = h.out
    PROVE  Follows(c, g, Tail(s), a, ask, image)
<1>0. PICK p, q : IsAt(h, p) /\ Takes(c, s, ask, image, p, q)
  BY FollowsTake
<1>20. a = <<>> /\ h.out = <<>> /\ a \o h.out = <<>>
  BY FollowsTake
<1>1. PICK U :
         /\ IsAt(h, p) /\ Eats(c, p, Head(s), q) /\ a = <<>> /\ h.out = <<>>
         /\ Tail(s) = <<>> => (ask.cmd # "none" => p.at = "args" /\ p.cmd \notin WriteCommands)
         /\ U[1] = q /\ Path(c, Tail(s), ask, image, U)
  BY <1>0, <1>20 DEF Takes
<1>2. p.at = "data" /\ p.cmd = h.command[2] /\ p.image = h.image /\ p.args = h.args
      /\ p.words = h.in
  BY <1>1 DEF IsAt
<1>3. Tail(s) = <<>> => ask.cmd = "none"
  BY <1>1, <1>2
<1>4. IsAt(g, q)
  <2>1. CASE q.at = "data"
    <3>1. /\ q.cmd = p.cmd /\ q.image = p.image /\ q.args = p.args
          /\ q.words = Append(p.words, Head(s))
          /\ Len(q.words) < Count(q.args.first, q.args.last)
      BY <1>1, <1>2, <2>1 DEF Eats
    <3> QED BY <1>2, <2>1, <3>1 DEF IsAt
  <2>2. CASE q.at # "data"
    <3>1. /\ q.at = "command"
          /\ Len(Append(p.words, Head(s))) = Count(p.args.first, p.args.last)
          /\ q.image = Store(p.image, Plane(p.cmd), p.args.first, p.args.last,
                             Append(p.words, Head(s)))
      BY <1>1, <1>2, <2>2 DEF Eats
    <3> QED BY <1>2, <3>1 DEF IsAt
  <2> QED BY <2>1, <2>2
<1>5. a \o g.out = IF Tail(s) = <<>> THEN Reply(ask, image) ELSE <<>>
  <2>1. a \o g.out = <<>>
    BY <1>1 DEF Follows
  <2>2. ask.cmd = "none" => Reply(ask, image) = <<>>
    BY DEF Reply
  <2> QED BY <1>3, <2>1, <2>2
<1> QED BY <1>1, <1>3, <1>4, <1>5 DEF Follows

LEMMA FollowsNothing ==
    ASSUME NEW c, NEW h, h.out \in Seq(Units), NEW s, NEW a \in Seq(Units), NEW ask, NEW image,
           Follows(c, h, s, a, ask, image), s # <<>> \/ ask.cmd = "none" \/ h.pc = "data"
    PROVE  a = <<>> /\ h.out = <<>>
<1>1. ask.cmd = "none" => Reply(ask, image) = <<>>
  BY DEF Reply
<1>2. a \o h.out = <<>>
  BY <1>1 DEF Follows
<1> QED BY <1>2, NothingLeft

LEMMA FollowsSync ==
    ASSUME NEW c, NEW h, h.out \in Seq(Units), NEW s, NEW a \in Seq(Units),
           NEW ask, NEW image, Follows(c, h, s, a, ask, image),
           h.pc = "data", Len(h.in) = Count(h.args.first, h.args.last), Len(h.in) \in Nat,
           NEW g, g.pc = "command", g.in = <<>>, g.out = h.out,
           g.image = Store(h.image, Plane(h.command[2]), h.args.first, h.args.last, h.in)
    PROVE  Follows(c, g, s, a, ask, image)
<1>1. PICK T : IsAt(h, T[1]) /\ Path(c, s, ask, image, T)
  BY DEF Follows
<1>2. T[1].at = "command" /\ T[1].image = g.image
  BY <1>1 DEF IsAt
<1>3. IsAt(g, T[1])
  BY <1>2 DEF IsAt
<1> QED BY <1>1, <1>3 DEF Follows

LEMMA FollowsSent ==
    ASSUME NEW c, NEW h, NEW s, NEW a, NEW ask, NEW image, Follows(c, h, s, a, ask, image),
           h.pc \in {"greeting", "status", "reply"},
           NEW g, g.pc = "command", g.in = h.in, g.out = h.out, g.image = h.image
    PROVE  Follows(c, g, s, a, ask, image)
<1>1. PICK T : IsAt(h, T[1]) /\ Path(c, s, ask, image, T)
  BY DEF Follows
<1>2. T[1].at = "command" /\ T[1].image = g.image
  BY <1>1 DEF IsAt
<1>3. IsAt(g, T[1])
  BY <1>2 DEF IsAt
<1> QED BY <1>1, <1>3 DEF Follows

LEMMA FollowsSend ==
    ASSUME NEW c, NEW h, NEW s, NEW a, NEW ask, NEW image, Follows(c, h, s, a, ask, image),
           h.pc \in Replying, NEW b,
           NEW g, g.pc = h.pc, g.in = h.in, g.image = h.image, g.status = h.status,
           b \o g.out = a \o h.out
    PROVE  Follows(c, g, s, b, ask, image)
<1>1. PICK T : IsAt(h, T[1]) /\ Path(c, s, ask, image, T)
  BY DEF Follows
<1>2. T[1].at = "command" /\ T[1].image = g.image
  BY <1>1 DEF IsAt, Replying
<1>3. IsAt(g, T[1])
  BY <1>1, <1>2 DEF IsAt, Replying, Follows
<1> QED BY <1>1, <1>3 DEF Follows, Replying

-----------------------------------------------------------------------------
(* The client on the path                                                  *)

LEMMA FollowsMessage ==
    ASSUME NEW c, NEW h, NEW s \in Seq(Units), NEW m \in Seq(Units), m # <<>>,
           NEW ask, NEW between, NEW image, NEW M,
           Follows(c, h, s, <<>>, Nothing, between), Path(c, m, ask, image, M),
           M[1].at = "command", M[1].image = between
    PROVE  Follows(c, h, s \o m, <<>>, ask, image)
<1>1. PICK T : IsAt(h, T[1]) /\ Path(c, s, Nothing, between, T)
  BY DEF Follows
<1>2. PICK U : U[1] = T[1] /\ Path(c, s \o m, ask, image, U)
  BY <1>1, PathJoin
<1>3. s \o m # <<>>
  BY ConcatEqualIffEmpty
<1>4. Reply(Nothing, between) = <<>>
  BY DEF Reply, Nothing, Asked
<1>5. <<>> \o h.out = <<>>
  BY <1>4 DEF Follows
<1> QED BY <1>1, <1>2, <1>3, <1>5 DEF Follows

LEMMA Regroup ==
    \A i, d, o \in Seq(Units) : (i \o d) \o o = i \o (d \o o)
<1> TAKE i, d, o \in Seq(Units)
<1> QED BY ConcatAssociative

(* The client has the whole reply.                                         *)
LEMMA FollowsReply ==
    ASSUME NEW c, NEW h, h.out \in Seq(Units), NEW s, NEW i \in Seq(Units), NEW d \in Seq(Units),
           NEW ask, NEW image, Reply(ask, image) \in Seq(Units),
           Follows(c, h, s, i \o d, ask, image),
           i # <<>>, Len(i) = Len(Reply(ask, image))
    PROVE  /\ s = <<>> /\ i = Reply(ask, image) /\ d = <<>> /\ h.out = <<>>
           /\ Follows(c, h, s, <<>>, Nothing, image)
<1>1. i \o d \in Seq(Units) /\ i \o d # <<>>
  BY TakeUnit
<1>2. (i \o d) \o h.out # <<>>
  BY <1>1, TakeUnit
<1>3. s = <<>>
  BY <1>2 DEF Follows
<1>4. (i \o d) \o h.out = Reply(ask, image)
  BY <1>3 DEF Follows
<1>5. i \o (d \o h.out) = Reply(ask, image) /\ d \o h.out \in Seq(Units)
  <2>1. i \o (d \o h.out) = (i \o d) \o h.out
    <3>1. PICK o \in Seq(Units) : o = h.out
      OBVIOUS
    <3>2. (i \o d) \o o = i \o (d \o o)
      BY Regroup, ZenonT(90)
    <3> QED BY <3>1, <3>2
  <2>2. d \o h.out \in Seq(Units)
    BY ConcatProperties
  <2> QED BY <1>4, <2>1, <2>2
<1>6. Begins(i \o (d \o h.out), Reply(ask, image))
  BY <1>5, LenProperties DEF Begins
<1>7. i = Reply(ask, image) /\ d \o h.out = <<>>
  BY <1>5, <1>6, BeginsWhole
<1>8. d = <<>> /\ h.out = <<>>
  BY <1>7, NothingLeft
<1>9. PICK T : IsAt(h, T[1]) /\ Path(c, s, ask, image, T)
  BY DEF Follows
<1>10. Path(c, s, Nothing, image, T)
  <2>1. Len(<<>>) = 0
    BY EmptySeq
  <2>2. ~(Len(s) > 0)
    BY <1>3, <2>1
  <2> QED BY <1>3, <1>9, <2>1, <2>2 DEF Path
<1>11. Reply(Nothing, image) = <<>> /\ <<>> \o <<>> = <<>>
  BY DEF Reply, Nothing, Asked
<1>12. <<>> \o h.out = Reply(Nothing, image)
  BY <1>8, <1>11
<1>13. Nothing.cmd = "none"
  BY DEF Nothing, Asked
<1> QED BY <1>3, <1>7, <1>8, <1>9, <1>10, <1>12, <1>13 DEF Follows

(* A write has been sent: its rows count as written from now on.           *)
LEMMA FollowsWritten ==
    ASSUME NEW c, NEW h, h.out \in Seq(Units), NEW s, NEW a \in Seq(Units), NEW image,
           Follows(c, h, s, a, Nothing, image)
    PROVE  a = <<>> /\ Follows(c, h, s, <<>>, Nothing, image)
<1>1. a = <<>>
  <2>1. Nothing.cmd = "none"
    BY DEF Nothing, Asked
  <2> QED BY <2>1, FollowsNothing
<1> QED BY <1>1

-----------------------------------------------------------------------------
(* A connection that stands: the steps of the server thread                *)

\* What is always true of the parts of a cache.
Typed(c, ph, k, h, me, sent, received, image, n) ==
    /\ c \in Clients /\ h \in Handlers /\ me \in Calls /\ n \in Nat
    /\ ph \in {"new", "connecting", "ready", "closed"}
    /\ sent \in Seq(Units) /\ received \in Seq(Units) /\ image \in Images
    /\ Calling(ph, me) /\ Serving(c, h)

LEMMA TypedParts ==
    ASSUME NEW c, NEW ph, NEW k, NEW h, NEW me, NEW u, NEW d, NEW w, NEW n,
           Typed(c, ph, k, h, me, u, d, w, n)
    PROVE  /\ h.out \in Seq(Units) /\ h.in \in Seq(Units)
           /\ me.in \in Seq(Units) /\ me.out \in Seq(Units)
           /\ u \o me.out \in Seq(Units) /\ me.in \o d \in Seq(Units)
           /\ Goal(me, w, n) \in Images
<1>1. h.out \in Seq(Units) /\ h.in \in Seq(Units) /\ me.in \in Seq(Units)
      /\ me.out \in Seq(Units)
  BY DEF Typed, Handlers, Calls
<1>2. u \in Seq(Units) /\ d \in Seq(Units) /\ w \in Images /\ n \in Nat
  BY DEF Typed
<1>3. u \o me.out \in Seq(Units) /\ me.in \o d \in Seq(Units)
  BY <1>1, <1>2, ConcatProperties
<1>4. Goal(me, w, n) \in Images
  BY <1>2, ReplacedType, PlaneType DEF Goal
<1> QED BY <1>1, <1>3, <1>4

LEMMA SendAnswer ==
    ASSUME NEW i \in Seq(Units), NEW d \in Seq(Units), NEW o \in Seq(Units), o # <<>>
    PROVE  /\ (i \o Append(d, Head(o))) \o Tail(o) = (i \o d) \o o
           /\ Len(i \o Append(d, Head(o))) + Len(Tail(o)) = Len(i \o d) + Len(o)
           /\ Append(d, Head(o)) \o Tail(o) = d \o o
<1>1. Head(o) \in Units /\ Tail(o) \in Seq(Units)
  BY HeadTailProperties
<1>2. PICK e \in Seq(Units), t \in Seq(Units) : e = Append(d, Head(o)) /\ t = Tail(o)
  BY <1>1, AppendProperties
<1>3. e \o t = d \o o
  BY <1>2, MoveUnit
<1>4. i \o e \in Seq(Units) /\ i \o d \in Seq(Units)
  BY ConcatProperties
<1>5. (i \o e) \o t = i \o (e \o t)
  BY Regroup, SMTT(60)
<1>8. (i \o d) \o o = i \o (d \o o)
  BY Regroup, ZenonT(90)
<1>6. (i \o e) \o t = (i \o d) \o o
  BY <1>3, <1>5, <1>8
<1>7. Len((i \o e) \o t) = Len(i \o e) + Len(t) /\ Len((i \o d) \o o) = Len(i \o d) + Len(o)
  BY <1>4, ConcatProperties
<1> QED BY <1>2, <1>3, <1>6, <1>7

(* A unit goes from the server thread to the connection.                   *)
LEMMA StandingSend ==
    ASSUME NEW c, NEW ph, NEW k, NEW h, NEW me, NEW u, NEW d, NEW w, NEW n,
           Typed(c, ph, k, h, me, u, d, w, n), Standing(c, ph, k, h, me, u, d, w, n),
           h.pc \in Replying, h.out # <<>>,
           NEW g, g.pc = h.pc, g.image = h.image, g.in = h.in, g.status = h.status,
           g.out = Tail(h.out)
    PROVE  Standing(c, ph, k, g, me, u, Append(d, Head(h.out)), w, n)
<1>1. PICK e : e = Append(d, Head(h.out))
  OBVIOUS
<1>2. h.out \in Seq(Units) /\ me.in \in Seq(Units) /\ d \in Seq(Units)
  BY TypedParts DEF Typed
<1>3. PICK b, a, o : b = me.in \o e /\ a = me.in \o d /\ o = h.out
  OBVIOUS
<1>4. /\ b \o g.out = a \o h.out /\ Len(b) + Len(g.out) = Len(a) + Len(h.out)
      /\ e \o g.out = d \o h.out
  <2>1. /\ (me.in \o Append(d, Head(o))) \o Tail(o) = (me.in \o d) \o o
        /\ Len(me.in \o Append(d, Head(o))) + Len(Tail(o)) = Len(me.in \o d) + Len(o)
        /\ Append(d, Head(o)) \o Tail(o) = d \o o
    BY <1>2, <1>3, SendAnswer, ZenonT(60)
  <2> QED BY <1>1, <1>3, <2>1
<1>5. Greets(c, h, u, d) => Greets(c, g, u, e)
  BY <1>4 DEF Greets, Replying
<1>6. Misled(c, ph, k, h, u \o me.out, a) => Misled(c, ph, k, g, u \o me.out, b)
  BY <1>4 DEF Misled
<1>7. Follows(c, h, u \o me.out, a, AskedBy(me), Goal(me, w, n))
      => Follows(c, g, u \o me.out, b, AskedBy(me), Goal(me, w, n))
  BY <1>4, FollowsSend
<1>8. Fails(ph, h, a) => Fails(ph, g, b)
  BY <1>4 DEF Fails
<1> QED BY <1>1, <1>3, <1>5, <1>6, <1>7, <1>8 DEF Standing

(* All is sent: on to the next command.                                    *)
LEMMA StandingSent ==
    ASSUME NEW c, NEW ph, NEW k, NEW h, NEW me, NEW u, NEW d, NEW w, NEW n,
           Typed(c, ph, k, h, me, u, d, w, n), Standing(c, ph, k, h, me, u, d, w, n),
           h.pc \in {"greeting", "status", "reply"}, h.pc = "status" => h.status,
           NEW g, g.pc = "command", g.image = h.image, g.out = h.out, h.out = <<>>,
           h.pc = "greeting" => g.in = h.in /\ g.status = h.status,
           h.pc # "greeting" => g.in = <<>>
    PROVE  Standing(c, ph, k, g, me, u, d, w, n)
<1>1. Greets(c, h, u, d) => Greets(c, g, u, d)
  BY DEF Greets
<1>2. Misled(c, ph, k, h, u \o me.out, me.in \o d) => Misled(c, ph, k, g, u \o me.out, me.in \o d)
  BY DEF Misled
<1>3. ASSUME Follows(c, h, u \o me.out, me.in \o d, AskedBy(me), Goal(me, w, n))
      PROVE  Follows(c, g, u \o me.out, me.in \o d, AskedBy(me), Goal(me, w, n))
  <2>1. h.in = <<>>
    BY <1>3 DEF Follows
  <2>2. g.in = h.in
    BY <2>1
  <2> QED BY <1>3, <2>2, FollowsSent
<1>4. ~Fails(ph, h, me.in \o d)
  BY DEF Fails
<1> QED BY <1>1, <1>2, <1>3, <1>4 DEF Standing

(* A failed 'o' is answered twice.                                         *)
LEMMA StandingFailed ==
    ASSUME NEW c, NEW ph, NEW k, NEW h, NEW me, NEW u, NEW d, NEW w, NEW n,
           Typed(c, ph, k, h, me, u, d, w, n), Standing(c, ph, k, h, me, u, d, w, n),
           h.pc = "status", ~h.status, h.out = <<>>,
           NEW g, g.pc = "leaving", g.out = <<False>>
    PROVE  Standing(c, ph, k, g, me, u, d, w, n)
<1>1. ~Greets(c, h, u, d)
  BY DEF Greets
<1>2. ~Misled(c, ph, k, h, u \o me.out, me.in \o d)
  BY DEF Misled
<1>3. ~Follows(c, h, u \o me.out, me.in \o d, AskedBy(me), Goal(me, w, n))
  BY DEF Follows
<1>4. ASSUME Fails(ph, h, me.in \o d) PROVE Fails(ph, g, me.in \o d)
  <2>1. PICK a \in Seq(Units) : a = me.in \o d
    BY TypedParts
  <2>2. a \o <<>> = <<False>> /\ ph = "connecting"
    BY <1>4, <2>1 DEF Fails
  <2>3. a = <<False>>
    BY <2>2, ConcatEmptySeq
  <2>4. Len(<<False>> \o <<False>>) = 2 /\ (<<False>> \o <<False>>)[1] = False
    OBVIOUS
  <2> QED BY <2>1, <2>2, <2>3, <2>4 DEF Fails
<1> QED BY <1>1, <1>2, <1>3, <1>4 DEF Standing

(* The units the server thread reads come from the stream.                 *)
LEMMA TakeStream ==
    ASSUME NEW c, NEW ph, NEW k, NEW h, NEW me, NEW u, NEW d, NEW w, NEW n,
           Typed(c, ph, k, h, me, u, d, w, n), u # <<>>
    PROVE  /\ u \o me.out # <<>> /\ Head(u \o me.out) = Head(u) /\ (u \o me.out)[1] = Head(u)
           /\ Tail(u) \o me.out = Tail(u \o me.out)
           /\ Head(u) \in Units /\ Tail(u) \in Seq(Units)
<1>1. u \in Seq(Units) /\ me.out \in Seq(Units)
  BY TypedParts DEF Typed
<1>2. Head(u) \in Units /\ Tail(u) \in Seq(Units)
  BY <1>1, HeadTailProperties
<1>3. PICK o \in Seq(Units) : o = me.out
  BY <1>1
<1>4. /\ u \o o # <<>> /\ (u \o o)[1] = Head(u) /\ Head(u \o o) = Head(u)
      /\ Tail(u) \o o = Tail(u \o o)
  BY <1>1, TakeUnit
<1> QED BY <1>2, <1>3, <1>4

LEMMA StandingCommand ==
    ASSUME NEW c, NEW ph, NEW k, NEW h, NEW me, NEW u, NEW d, NEW w, NEW n,
           Typed(c, ph, k, h, me, u, d, w, n), Standing(c, ph, k, h, me, u, d, w, n),
           u # <<>>, h.pc = "command",
           NEW g, g.pc = "key", g.command = Head(u), g.image = h.image, g.in = h.in,
           g.out = h.out
    PROVE  Standing(c, ph, k, g, me, Tail(u), d, w, n)
<1>1. PICK s \in Seq(Units) : s = u \o me.out
  BY TypedParts
<1>2. s # <<>> /\ Head(s) = Head(u) /\ s[1] = Head(u) /\ Tail(u) \o me.out = Tail(s)
  BY <1>1, TakeStream
<1>3. PICK a \in Seq(Units) : a = me.in \o d
  BY TypedParts
<1>4. ~Greets(c, h, u, d)
  BY DEF Greets
<1>5. ASSUME Misled(c, ph, k, h, s, a) PROVE Misled(c, ph, k, g, Tail(s), a)
  <2>1. Len(s) >= 2 /\ s[2] = <<"key", k>>
    BY <1>2, <1>5 DEF Misled
  <2>2. Tail(s) # <<>> /\ Tail(s)[1] = s[1 + 1]
    BY <1>2, <2>1, OneUnit
  <2>3. 1 + 1 = 2
    OBVIOUS
  <2>4. Tail(s)[1] = <<"key", k>>
    BY <2>1, <2>2, <2>3
  <2> QED BY <1>5, <2>2, <2>4 DEF Misled
<1>6. ASSUME Follows(c, h, s, a, AskedBy(me), Goal(me, w, n))
      PROVE  Follows(c, g, Tail(s), a, AskedBy(me), Goal(me, w, n))
  <2>1. h.out \in Seq(Units)
    BY TypedParts
  <2> QED BY <1>2, <1>6, <2>1, FollowsCommand
<1>7. ~Fails(ph, h, a)
  BY DEF Fails
<1> QED BY <1>1, <1>2, <1>3, <1>4, <1>5, <1>6, <1>7 DEF Standing

(* The loop is left with a status.                                         *)
LEMMA LeaveFails ==
    ASSUME NEW ph, NEW g, g.pc = "leaving", g.out = <<False>>
    PROVE  Fails(ph, g, <<>>)
<1>1. Len(<<>> \o <<False>>) = 1 /\ (<<>> \o <<False>>)[1] = False
  OBVIOUS
<1> QED BY <1>1 DEF Fails

LEMMA StandingKey ==
    ASSUME NEW c, NEW ph, NEW k, NEW h, NEW me, NEW u, NEW d, NEW w, NEW n,
           Typed(c, ph, k, h, me, u, d, w, n), Standing(c, ph, k, h, me, u, d, w, n),
           u # <<>>, h.pc = "key"
    PROVE  /\ \A g : g.pc = "args" /\ g.command = h.command /\ g.image = h.image
                     /\ g.in = h.in /\ g.out = h.out /\ Head(u) = <<"key", Nonce(c)>>
                     => Standing(c, ph, k, g, me, Tail(u), d, w, n)
           /\ \A g : g.pc = "leaving" /\ (\E b \in BOOLEAN : g.out = <<Status(b)>>)
                     /\ (Head(u) # <<"key", Nonce(c)>> \/ h.command[2] = "d"
                         \/ (h.command[2] # "o" /\ h.image = NoImage))
                     => Standing(c, ph, k, g, me, Tail(u), d, w, n)
<1>1. PICK s \in Seq(Units) : s = u \o me.out
  BY TypedParts
<1>2. s # <<>> /\ Head(s) = Head(u) /\ s[1] = Head(u) /\ Tail(u) \o me.out = Tail(s)
  BY <1>1, TakeStream
<1>3. PICK a \in Seq(Units) : a = me.in \o d
  BY TypedParts
<1>4. ~Greets(c, h, u, d) /\ ~Fails(ph, h, a)
  BY DEF Greets, Fails
<1>5. h.out \in Seq(Units)
  BY TypedParts
<1>6. ASSUME Misled(c, ph, k, h, s, a), k # Nonce(c)
      PROVE  /\ Head(u) # <<"key", Nonce(c)>>
             /\ \A g : g.pc = "leaving" /\ (\E b \in BOOLEAN : g.out = <<Status(b)>>)
                       => Misled(c, ph, k, g, Tail(s), a)
  <2>1. s[1] = <<"key", k>>
    BY <1>6 DEF Misled
  <2>2. Head(u) # <<"key", Nonce(c)>>
    BY <1>2, <1>6, <2>1
  <2>3. h.out = <<>>
    BY DEF Typed, Serving, Replying
  <2>4. Len(<<>>) = 0 /\ \A b : Len(<<Status(b)>>) = 1
    OBVIOUS
  <2>5. Len(a) + 1 <= IF ph = "connecting" THEN 2 ELSE 1
    BY <1>6, <2>3, <2>4, LenProperties DEF Misled
  <2>6. ASSUME NEW g, g.pc = "leaving", \E b \in BOOLEAN : g.out = <<Status(b)>>
        PROVE  Misled(c, ph, k, g, Tail(s), a)
    <3>1. Len(g.out) = 1
      BY <2>4, <2>6
    <3> QED BY <2>5, <2>6, <3>1, LenProperties DEF Misled
  <2> QED BY <2>2, <2>6
<1>7. ASSUME Follows(c, h, s, a, AskedBy(me), Goal(me, w, n))
      PROVE  /\ Head(u) = <<"key", Nonce(c)>> /\ h.command[2] # "d"
             /\ h.command[2] # "o" => h.image # NoImage
             /\ \A g : g.pc = "args" /\ g.command = h.command /\ g.image = h.image
                       /\ g.in = h.in /\ g.out = h.out
                       => Follows(c, g, Tail(s), a, AskedBy(me), Goal(me, w, n))
  BY <1>2, <1>5, <1>7, FollowsKey
<1>8. ASSUME NEW g, g.pc = "args", g.command = h.command, g.image = h.image,
             g.in = h.in, g.out = h.out, Head(u) = <<"key", Nonce(c)>>
      PROVE  Standing(c, ph, k, g, me, Tail(u), d, w, n)
  BY <1>1, <1>2, <1>3, <1>4, <1>6, <1>7, <1>8 DEF Standing
<1>9. ASSUME NEW g, g.pc = "leaving", \E b \in BOOLEAN : g.out = <<Status(b)>>,
             Head(u) # <<"key", Nonce(c)>> \/ h.command[2] = "d"
             \/ (h.command[2] # "o" /\ h.image = NoImage)
      PROVE  Standing(c, ph, k, g, me, Tail(u), d, w, n)
  BY <1>1, <1>2, <1>3, <1>4, <1>6, <1>7, <1>9 DEF Standing
<1> QED BY <1>8, <1>9


(* An 'o' request: AcquireImage succeeds or fails.                         *)
LEMMA StandingOpen ==
    ASSUME NEW c, NEW ph, NEW k, NEW h, NEW me, NEW u, NEW d, NEW w, NEW n,
           Typed(c, ph, k, h, me, u, d, w, n), Standing(c, ph, k, h, me, u, d, w, n),
           u # <<>>, h.pc = "args", h.command[2] = "o"
    PROVE  /\ \A g : g.pc = "status" /\ g.status /\ g.image = NewImage
                     /\ g.in = h.in /\ g.out = <<Status(TRUE)>>
                     => Standing(c, ph, k, g, me, Tail(u), d, w, n)
           /\ \A g : g.pc = "status" /\ ~g.status /\ g.out = <<False>>
                     => Standing(c, ph, k, g, me, Tail(u), d, w, n)
<1>1. PICK s \in Seq(Units) : s = u \o me.out
  BY TypedParts
<1>2. s # <<>> /\ Head(s) = Head(u) /\ Tail(u) \o me.out = Tail(s)
  BY <1>1, TakeStream
<1>3. PICK a \in Seq(Units) : a = me.in \o d
  BY TypedParts
<1>4. ~Greets(c, h, u, d) /\ ~Fails(ph, h, a) /\ ~Misled(c, ph, k, h, s, a)
  BY DEF Greets, Fails, Misled
<1>5. h.out \in Seq(Units)
  BY TypedParts
<1>6. ASSUME Follows(c, h, s, a, AskedBy(me), Goal(me, w, n))
      PROVE  /\ a = <<>> /\ AskedBy(me).cmd = "o"
             /\ \A g : g.pc = "status" /\ g.status /\ g.image = NewImage
                       /\ g.in = h.in /\ g.out = <<Status(TRUE)>>
                       => Follows(c, g, Tail(s), a, AskedBy(me), Goal(me, w, n))
  BY <1>2, <1>5, <1>6, FollowsOpen
<1>7. AskedBy(me).cmd = "o" => ph = "connecting"
  BY DEF Typed, Calling, AskedBy, Asked, Nothing, ReadCommands
<1>8. ASSUME NEW g, g.pc = "status", g.status, g.image = NewImage, g.in = h.in,
             g.out = <<Status(TRUE)>>
      PROVE  Standing(c, ph, k, g, me, Tail(u), d, w, n)
  BY <1>1, <1>2, <1>3, <1>4, <1>6, <1>8 DEF Standing
<1>9. ASSUME NEW g, g.pc = "status", ~g.status, g.out = <<False>>
      PROVE  Standing(c, ph, k, g, me, Tail(u), d, w, n)
  <2>1. ASSUME Follows(c, h, s, a, AskedBy(me), Goal(me, w, n)) PROVE Fails(ph, g, a)
    <3>1. a \o <<False>> = <<False>>
      BY <1>6, <2>1, ResultType, ConcatEmptySeq
    <3> QED BY <1>6, <1>7, <1>9, <2>1, <3>1 DEF Fails
  <2> QED BY <1>1, <1>2, <1>3, <1>4, <2>1 DEF Standing
<1> QED BY <1>8, <1>9

(* A request of a region is answered, or given up.                         *)
LEMMA StandingRead ==
    ASSUME NEW c, NEW ph, NEW k, NEW h, NEW me, NEW u, NEW d, NEW w, NEW n,
           Typed(c, ph, k, h, me, u, d, w, n), Standing(c, ph, k, h, me, u, d, w, n),
           u # <<>>, h.pc = "args", h.command[2] \in ReadCommands
    PROVE  /\ \A g : g.pc = "reply" /\ g.image = h.image /\ g.in = h.in
                     /\ g.out = Content(h.image, Plane(h.command[2]), Head(u)[2].first,
                                        Head(u)[2].last)
                     => Standing(c, ph, k, g, me, Tail(u), d, w, n)
           /\ \A g : g.pc = "leaving" /\ g.out = <<False>>
                     => Standing(c, ph, k, g, me, Tail(u), d, w, n)
<1>1. PICK s \in Seq(Units) : s = u \o me.out
  BY TypedParts
<1>2. s # <<>> /\ Head(s) = Head(u) /\ Tail(u) \o me.out = Tail(s)
  BY <1>1, TakeStream, SMTT(60)
<1>3. PICK a \in Seq(Units) : a = me.in \o d
  BY TypedParts
<1>4. ~Greets(c, h, u, d) /\ ~Fails(ph, h, a) /\ ~Misled(c, ph, k, h, s, a)
  BY DEF Greets, Fails, Misled
<1>5. h.out \in Seq(Units) /\ Goal(me, w, n) \in Images
  BY TypedParts
<1>6. ASSUME Follows(c, h, s, a, AskedBy(me), Goal(me, w, n))
      PROVE  /\ a = <<>>
             /\ \A g : g.pc = "reply" /\ g.image = h.image /\ g.in = h.in
                       /\ g.out = Content(h.image, Plane(h.command[2]), Head(s)[2].first,
                                          Head(s)[2].last)
                       => Follows(c, g, Tail(s), a, AskedBy(me), Goal(me, w, n))
  BY <1>2, <1>5, <1>6, FollowsRead
<1>8. ASSUME NEW g, g.pc = "reply", g.image = h.image, g.in = h.in,
             g.out = Content(h.image, Plane(h.command[2]), Head(u)[2].first, Head(u)[2].last)
      PROVE  Standing(c, ph, k, g, me, Tail(u), d, w, n)
  BY <1>1, <1>2, <1>3, <1>4, <1>6, <1>8 DEF Standing
<1>9. ASSUME NEW g, g.pc = "leaving", g.out = <<False>>
      PROVE  Standing(c, ph, k, g, me, Tail(u), d, w, n)
  BY <1>1, <1>2, <1>3, <1>4, <1>6, <1>9, LeaveFails DEF Standing
<1> QED BY <1>8, <1>9

LEMMA StandingWrite ==
    ASSUME NEW c, NEW ph, NEW k, NEW h, NEW me, NEW u, NEW d, NEW w, NEW n,
           Typed(c, ph, k, h, me, u, d, w, n), Standing(c, ph, k, h, me, u, d, w, n),
           u # <<>>, h.pc = "args", h.command[2] \in WriteCommands
    PROVE  /\ \A g : g.pc = "data" /\ g.command = h.command /\ g.image = h.image
                     /\ g.args = Head(u)[2] /\ g.in = h.in /\ g.out = h.out
                     => Standing(c, ph, k, g, me, Tail(u), d, w, n)
           /\ \A g : g.pc = "leaving" /\ g.out = <<False>>
                     => Standing(c, ph, k, g, me, Tail(u), d, w, n)
<1>1. PICK s \in Seq(Units) : s = u \o me.out
  BY TypedParts
<1>2. s # <<>> /\ Head(s) = Head(u) /\ Tail(u) \o me.out = Tail(s)
  BY <1>1, TakeStream, SMTT(60)
<1>3. PICK a \in Seq(Units) : a = me.in \o d
  BY TypedParts
<1>4. ~Greets(c, h, u, d) /\ ~Fails(ph, h, a) /\ ~Misled(c, ph, k, h, s, a)
  BY DEF Greets, Fails, Misled
<1>5. h.out \in Seq(Units)
  BY TypedParts
<1>6. ASSUME Follows(c, h, s, a, AskedBy(me), Goal(me, w, n))
      PROVE  /\ a = <<>>
             /\ \A g : g.pc = "data" /\ g.command = h.command /\ g.image = h.image
                       /\ g.args = Head(s)[2] /\ g.in = h.in /\ g.out = h.out
                       => Follows(c, g, Tail(s), a, AskedBy(me), Goal(me, w, n))
  BY <1>2, <1>5, <1>6, FollowsWrite
<1>8. ASSUME NEW g, g.pc = "data", g.command = h.command, g.image = h.image,
             g.args = Head(u)[2], g.in = h.in, g.out = h.out
      PROVE  Standing(c, ph, k, g, me, Tail(u), d, w, n)
  BY <1>1, <1>2, <1>3, <1>4, <1>6, <1>8 DEF Standing
<1>9. ASSUME NEW g, g.pc = "leaving", g.out = <<False>>
      PROVE  Standing(c, ph, k, g, me, Tail(u), d, w, n)
  BY <1>1, <1>2, <1>3, <1>4, <1>6, <1>9, LeaveFails DEF Standing
<1> QED BY <1>8, <1>9

(* The rows of a write arrive, and are stored, or given up.                *)
LEMMA StandingData ==
    ASSUME NEW c, NEW ph, NEW k, NEW h, NEW me, NEW u, NEW d, NEW w, NEW n,
           Typed(c, ph, k, h, me, u, d, w, n), Standing(c, ph, k, h, me, u, d, w, n),
           u # <<>>, h.pc = "data", Len(h.in) # Count(h.args.first, h.args.last),
           NEW g, g.pc = "data", g.command = h.command, g.image = h.image,
           g.args = h.args, g.in = Append(h.in, Head(u)), g.out = h.out
    PROVE  Standing(c, ph, k, g, me, Tail(u), d, w, n)
<1>1. PICK s \in Seq(Units) : s = u \o me.out
  BY TypedParts
<1>2. s # <<>> /\ Head(s) = Head(u) /\ Tail(u) \o me.out = Tail(s)
  BY <1>1, TakeStream, SMTT(60)
<1>3. PICK a \in Seq(Units) : a = me.in \o d
  BY TypedParts
<1>4. ~Greets(c, h, u, d) /\ ~Fails(ph, h, a) /\ ~Misled(c, ph, k, h, s, a)
  BY DEF Greets, Fails, Misled
<1>5. h.out \in Seq(Units) /\ h.in \in Seq(Units)
  BY TypedParts
<1>6. ASSUME Follows(c, h, s, a, AskedBy(me), Goal(me, w, n))
      PROVE  Follows(c, g, Tail(s), a, AskedBy(me), Goal(me, w, n))
  BY <1>2, <1>5, <1>6, FollowsData
<1> QED BY <1>1, <1>2, <1>3, <1>4, <1>6 DEF Standing

LEMMA StandingSync ==
    ASSUME NEW c, NEW ph, NEW k, NEW h, NEW me, NEW u, NEW d, NEW w, NEW n,
           Typed(c, ph, k, h, me, u, d, w, n), Standing(c, ph, k, h, me, u, d, w, n),
           h.pc = "data", Len(h.in) = Count(h.args.first, h.args.last)
    PROVE  /\ \A g : g.pc = "command" /\ g.in = <<>> /\ g.out = h.out
                     /\ g.image = Store(h.image, Plane(h.command[2]), h.args.first,
                                        h.args.last, h.in)
                     => Standing(c, ph, k, g, me, u, d, w, n)
           /\ \A g : g.pc = "leaving" /\ g.out = <<False>>
                     => Standing(c, ph, k, g, me, u, d, w, n)
<1>1. PICK s \in Seq(Units) : s = u \o me.out
  BY TypedParts
<1>3. PICK a \in Seq(Units) : a = me.in \o d
  BY TypedParts
<1>4. ~Greets(c, h, u, d) /\ ~Fails(ph, h, a) /\ ~Misled(c, ph, k, h, s, a)
  BY DEF Greets, Fails, Misled
<1>5. h.out \in Seq(Units) /\ Len(h.in) \in Nat
  BY TypedParts, LenProperties
<1>6. ASSUME Follows(c, h, s, a, AskedBy(me), Goal(me, w, n))
      PROVE  a = <<>>
  BY <1>5, <1>6, FollowsNothing
<1>8. ASSUME NEW g, g.pc = "command", g.in = <<>>, g.out = h.out,
             g.image = Store(h.image, Plane(h.command[2]), h.args.first, h.args.last, h.in)
      PROVE  Standing(c, ph, k, g, me, u, d, w, n)
  <2>1. ASSUME Follows(c, h, s, a, AskedBy(me), Goal(me, w, n))
        PROVE  Follows(c, g, s, a, AskedBy(me), Goal(me, w, n))
    BY <1>5, <1>8, <2>1, FollowsSync
  <2> QED BY <1>1, <1>3, <1>4, <2>1 DEF Standing
<1>9. ASSUME NEW g, g.pc = "leaving", g.out = <<False>>
      PROVE  Standing(c, ph, k, g, me, u, d, w, n)
  BY <1>1, <1>3, <1>4, <1>6, <1>9, LeaveFails DEF Standing
<1> QED BY <1>8, <1>9

(* The thread starts, and says its nonce: of the client, only Connect has  *)
(* run, or Relinquish on a connection whose nonce came whole.              *)
LEMMA StandingStart ==
    ASSUME NEW c, NEW ph, NEW k, NEW h, NEW me, NEW u, NEW d, NEW w, NEW n,
           Typed(c, ph, k, h, me, u, d, w, n), Standing(c, ph, k, h, me, u, d, w, n),
           h.pc \in {"unstarted", "created"}
    PROVE  /\ \A g : g.pc = "created" /\ g.image = h.image /\ g.in = h.in
                     /\ g.status = h.status
                     => Standing(c, ph, k, g, me, u, d, w, n)
           /\ \A g : g.pc = "greeting" /\ g.image = h.image /\ g.in = h.in
                     /\ g.status = h.status /\ g.out = Nonce(c)
                     => Standing(c, ph, k, g, me, u, d, w, n)
<1>1. ~Misled(c, ph, k, h, u \o me.out, me.in \o d) /\ ~Fails(ph, h, me.in \o d)
      /\ ~Follows(c, h, u \o me.out, me.in \o d, AskedBy(me), Goal(me, w, n))
  BY DEF Misled, Fails, Follows
<1>2. ASSUME NEW g, g.pc = "created", g.image = h.image, g.in = h.in, g.status = h.status
      PROVE  Standing(c, ph, k, g, me, u, d, w, n)
  <2>1. Greets(c, h, u, d) => Greets(c, g, u, d)
    BY <1>2 DEF Greets
  <2> QED BY <1>1, <2>1 DEF Standing
<1>3. ASSUME NEW g, g.pc = "greeting", g.image = h.image, g.in = h.in, g.status = h.status,
             g.out = Nonce(c)
      PROVE  Standing(c, ph, k, g, me, u, d, w, n)
  <2>1. Greets(c, h, u, d) => Greets(c, g, u, d)
    <3>1. <<>> \o Nonce(c) = Nonce(c)
      BY NonceType, ConcatEmptySeq DEF Typed
    <3> QED BY <1>3, <3>1 DEF Greets
  <2> QED BY <1>1, <2>1 DEF Standing
<1> QED BY <1>2, <1>3

-----------------------------------------------------------------------------
(* A connection that has gone                                              *)

LEMMA PartOfNonce ==
    ASSUME NEW c \in Clients, NEW d \in Seq(Units), NEW o \in Seq(Units),
           d \o o = Nonce(c)
    PROVE  /\ d \in Keys(c) /\ Len(d) + Len(o) = 2
           /\ d = Nonce(c) => o = <<>>
<1>1. PICK N \in Seq(Units), n1 \in Units, e \in Seq(Units) :
         N = Nonce(c) /\ n1 = <<"nonce", c, 1>> /\ e = <<n1>>
  <2>1. PICK n1 \in Units : n1 = <<"nonce", c, 1>>
    BY UnitKinds
  <2>2. <<n1>> \in Seq(Units)
    OBVIOUS
  <2> QED BY <2>1, <2>2, NonceType
<1>2. PICK x \in Nat, y \in Nat, z \in Nat : x = Len(d) /\ y = Len(o) /\ z = Len(N)
  BY LenProperties
<1>3. z = 2
  BY <1>1, <1>2, NonceType
<1>4. N \in Keys(c) /\ <<>> \in Keys(c) /\ e \in Keys(c)
  BY <1>1, NonceType DEF Keys
<1>5. N[1] = n1
  BY <1>1 DEF Nonce
<1>6. z = x + y /\ \A i \in 1..(x + y) : N[i] = IF i <= x THEN d[i] ELSE o[i - x]
  BY <1>1, <1>2, ConcatProperties
<1>7. y = 0 => o = <<>>
  BY <1>2, EmptySeq
<1>8. CASE x = 0
  <2>1. d = <<>>
    BY <1>2, <1>8, EmptySeq
  <2>2. d # N
    <3>1. d = N => x = z
      BY <1>2
    <3>2. x # z
      BY ONLY <1>3, <1>8
    <3> QED BY <3>1, <3>2
  <2> QED BY <1>1, <1>2, <1>3, <1>4, <1>6, <2>1, <2>2
<1>9. CASE x = 1
  <2>1. 1 \in 1..(x + y) /\ 1 <= x
    BY ONLY <1>2, <1>9
  <2>2. d[1] = n1
    BY <1>5, <1>6, <2>1
  <2>3. e \in Seq(Units) /\ e[1] = n1
    BY <1>1
  <2>4. PICK l : l = Len(e)
    OBVIOUS
  <2>5. l = 1
    BY <1>1, <2>4
  <2>6. Len(d) = Len(e)
    BY ONLY <1>2, <1>9, <2>4, <2>5
  <2>7. \A i \in 1..Len(d) : d[i] = e[i]
    <3>1. \A i \in 1..x : i = 1
      BY ONLY <1>9
    <3> QED BY <1>2, <2>2, <2>3, <3>1
  <2>8. d = e
    BY <2>3, <2>6, <2>7, SeqEqual
  <2>9. d # N
    <3>1. d = N => x = z
      BY <1>2
    <3>2. x # z
      BY ONLY <1>3, <1>9
    <3> QED BY <3>1, <3>2
  <2> QED BY <1>1, <1>2, <1>3, <1>4, <1>6, <2>8, <2>9
<1>10. CASE x = 2
  <2>1. y = 0
    BY ONLY <1>2, <1>3, <1>6, <1>10
  <2>2. d \o o = d
    BY <1>7, <2>1, ConcatEmptySeq
  <2>3. d = N
    BY <1>1, <2>2
  <2> QED BY <1>1, <1>2, <1>3, <1>4, <1>6, <1>7, <2>1, <2>3
<1>11. x = 0 \/ x = 1 \/ x = 2
  BY ONLY <1>2, <1>3, <1>6
<1> QED BY <1>8, <1>9, <1>10, <1>11

LEMMA KeysShorter ==
    ASSUME NEW c \in Clients, NEW d \in Keys(c), NEW m \in 0..Len(d)
    PROVE  SubSeq(d, 1, m) \in Keys(c)
<1>1. d \in Seq(Units)
  BY NonceType
<1>2. PICK e \in Seq(Units), x \in Nat, n1 \in Units, f \in Seq(Units) :
         e = SubSeq(d, 1, m) /\ x = Len(d) /\ n1 = <<"nonce", c, 1>> /\ f = <<n1>>
  <2>1. PICK n1 \in Units : n1 = <<"nonce", c, 1>>
    BY UnitKinds
  <2>2. <<n1>> \in Seq(Units)
    OBVIOUS
  <2>3. SubSeq(d, 1, m) \in Seq(Units) /\ Len(d) \in Nat
    BY <1>1, Shorter, LenProperties
  <2> QED BY <2>1, <2>2, <2>3
<1>3. e \in Seq(Units) /\ Len(e) = m /\ \A i \in 1..m : e[i] = d[i]
  BY <1>1, <1>2, Shorter
<1>4. f \in Keys(c) /\ <<>> \in Keys(c) /\ f \in Seq(Units) /\ f[1] = n1
  BY <1>2, NonceType DEF Keys
<1>5. d = <<>> \/ d = f \/ d = Nonce(c)
  BY <1>2 DEF Keys
<1>6. PICK l, z : l = Len(f) /\ z = Len(Nonce(c))
  OBVIOUS
<1>7. l = 1 /\ z = 2
  <2>1. l = 1
    BY <1>2, <1>6
  <2> QED BY <1>6, <2>1, NonceType
<1>8. d = <<>> => x = 0
  BY <1>2, EmptySeq
<1>9. m \in Nat /\ m <= x
  BY <1>2
<1>10. m = 0 \/ m = x \/ (d = Nonce(c) /\ m = 1)
  <2>1. (d = f => x = l) /\ (d = Nonce(c) => x = z)
    BY <1>2, <1>6
  <2>2. x = 0 => m = x
    BY ONLY <1>9
  <2>3. x = 1 => m = 0 \/ m = x
    BY ONLY <1>9
  <2>4. x = 2 => m = 0 \/ m = x \/ m = 1
    BY ONLY <1>9
  <2> QED BY <1>5, <1>7, <1>8, <2>1, <2>2, <2>3, <2>4
<1>11. CASE m = 0
  <2>1. e = <<>>
    BY <1>3, <1>11, EmptySeq
  <2> QED BY <1>2, <1>4, <2>1
<1>12. CASE m = x
  <2>1. m = Len(d)
    BY <1>2, <1>12
  <2> QED BY <1>1, <1>2, <2>1, SubSeqFull
<1>13. CASE d = Nonce(c) /\ m = 1
  <2>1. d[1] = n1
    BY <1>2, <1>13 DEF Nonce
  <2>2. e[1] = n1
    BY <1>3, <1>13, <2>1
  <2>3. Len(e) = Len(f)
    BY ONLY <1>3, <1>6, <1>7, <1>13
  <2>4. \A i \in 1..Len(e) : e[i] = f[i]
    <3>1. \A i \in 1..m : i = 1
      BY ONLY <1>13
    <3> QED BY <1>3, <1>4, <2>2, <3>1
  <2>5. e = f
    BY <1>3, <1>4, <2>3, <2>4, SeqEqual
  <2> QED BY <1>2, <1>4, <2>5
<1> QED BY <1>10, <1>11, <1>12, <1>13

(* What a call reads from is rows of the image.                            *)
LEMMA RowsAsked ==
    ASSUME NEW region \in Regions, NEW row \in region.first..region.last
    PROVE  /\ row \in 1..Rows /\ LastOf(region, row) \in 1..Rows
           /\ row <= LastOf(region, row) /\ LastOf(region, row) <= region.last
           /\ LastOf(region, row) \in Nat /\ row \in Nat
           /\ region.first \in Nat /\ region.last \in Nat
<1>1. region.first \in 1..Rows /\ region.last \in 1..Rows
  BY DistributeCacheAssumption
<1> QED BY <1>1, Geometry DEF LastOf

LEMMA ReplyType ==
    ASSUME NEW ph, NEW me, Calling(ph, me), NEW image \in Images
    PROVE  /\ AskedBy(me).cmd \in {"o", "none"} \cup ReadCommands
           /\ Reply(AskedBy(me), image) \in Seq(Units)
           /\ me.cmd \in ReadCommands =>
                 /\ Reply(AskedBy(me), image)
                    = Content(image, Plane(me.cmd), me.row, LastOf(me.region, me.row))
                 /\ Len(Reply(AskedBy(me), image))
                    = Count(me.row, LastOf(me.region, me.row))
                 /\ Count(me.row, LastOf(me.region, me.row)) \in Nat \ {0}
                 /\ Count(me.row, LastOf(me.region, me.row)) >= RowWords
           /\ me.cmd = "o" => Reply(AskedBy(me), image) = <<Status(TRUE)>>
           /\ me.cmd \notin {"o"} \cup ReadCommands => AskedBy(me) = Nothing
           /\ Reply(Nothing, image) = <<>>
<1>0. "o" \notin ReadCommands /\ "none" \notin ReadCommands
  BY DEF ReadCommands
<1>1. CASE me.cmd = "o"
  <2>1. AskedBy(me).cmd = "o"
    BY <1>1 DEF AskedBy, Asked
  <2>2. Reply(AskedBy(me), image) = <<Status(TRUE)>>
    BY <2>1 DEF Reply
  <2>4. Status(TRUE) \in Units
    BY ResultType
  <2>3. <<Status(TRUE)>> \in Seq(Units)
    <3>1. PICK st \in Units : st = Status(TRUE)
      BY <2>4
    <3>2. <<st>> \in Seq(Units)
      OBVIOUS
    <3> QED BY <3>1, <3>2
  <2> QED BY <1>0, <1>1, <2>1, <2>2, <2>3 DEF Reply, Nothing, Asked
<1>2. CASE me.cmd \in ReadCommands
  <2>1. me.region \in Regions /\ me.row \in me.region.first..me.region.last
    BY <1>2 DEF Calling
  <2>2. PICK last : last = LastOf(me.region, me.row)
    OBVIOUS
  <2>3. me.row \in 1..Rows /\ last \in 1..Rows /\ me.row <= last
    BY <2>1, <2>2, RowsAsked
  <2>4. PICK ask : ask = AskedBy(me)
    OBVIOUS
  <2>5. ask.cmd = me.cmd /\ ask.args = [first |-> me.row, last |-> last]
    BY <1>0, <1>2, <2>2, <2>4 DEF AskedBy, Asked
  <2>6. ask.args.first = me.row /\ ask.args.last = last
    BY <2>5
  <2>7. Reply(ask, image) = Content(image, Plane(me.cmd), me.row, last)
    BY <1>0, <1>2, <2>5, <2>6 DEF Reply
  <2>8. /\ Content(image, Plane(me.cmd), me.row, last) \in Seq(Units)
        /\ Len(Content(image, Plane(me.cmd), me.row, last)) = Count(me.row, last)
    BY <2>3, PlaneType, ContentType
  <2>9. Count(me.row, last) \in Nat \ {0} /\ Count(me.row, last) >= RowWords
    BY <2>3, CountType
  <2>10. Reply(Nothing, image) = <<>>
    BY DEF Reply, Nothing, Asked
  <2> QED BY <1>0, <1>2, <2>2, <2>4, <2>5, <2>7, <2>8, <2>9, <2>10
<1>3. CASE me.cmd \notin {"o"} \cup ReadCommands
  <2>1. AskedBy(me) = Nothing /\ Nothing.cmd = "none"
    BY <1>3 DEF AskedBy, Nothing, Asked
  <2>2. Reply(Nothing, image) = <<>>
    BY <2>1 DEF Reply
  <2>3. <<>> \in Seq(Units)
    OBVIOUS
  <2> QED BY <1>3, <2>1, <2>2, <2>3
<1> QED BY <1>1, <1>2, <1>3

(* The connection goes: what was under way is an answer.                   *)
LEMMA StandingAnswered ==
    ASSUME NEW c, NEW ph, NEW k, NEW h, NEW me, NEW u, NEW d, NEW w, NEW n,
           Typed(c, ph, k, h, me, u, d, w, n), Standing(c, ph, k, h, me, u, d, w, n)
    PROVE  Answered(c, ph, me, d, w)
<1>1. PICK a \in Seq(Units), s \in Seq(Units), o \in Seq(Units) :
         a = me.in \o d /\ s = u \o me.out /\ o = h.out
  BY TypedParts
<1>2. Len(a \o o) = Len(a) + Len(o) /\ Len(a) \in Nat /\ Len(o) \in Nat
  BY ConcatProperties, LenProperties
<1>3. Calling(ph, me) /\ c \in Clients /\ d \in Seq(Units) /\ w \in Images
  BY DEF Typed
<1>9. Len(h.out) \in Nat
  BY <1>1, <1>2
<1>4. ASSUME Misled(c, ph, k, h, s, a)
      PROVE  Len(a) <= IF ph = "connecting" THEN 2 ELSE 1
  <2>1. Len(a) + Len(h.out) + (IF h.pc = "leaving" THEN 0 ELSE 1)
          <= IF ph = "connecting" THEN 2 ELSE 1
    BY <1>4 DEF Misled
  <2>2. PICK x \in Nat, y \in Nat, b \in Nat, t \in Nat :
           /\ x = Len(a) /\ y = Len(h.out) /\ b = (IF h.pc = "leaving" THEN 0 ELSE 1)
           /\ t = (IF ph = "connecting" THEN 2 ELSE 1)
    <3>1. (IF h.pc = "leaving" THEN 0 ELSE 1) \in Nat
          /\ (IF ph = "connecting" THEN 2 ELSE 1) \in Nat
      OBVIOUS
    <3> QED BY <1>2, <1>9, <3>1
  <2>3. x + y + b <= t
    BY <2>1, <2>2
  <2>4. x <= t
    BY ONLY <2>3, x \in Nat, y \in Nat, b \in Nat, t \in Nat
  <2> QED BY <2>2, <2>4
<1>5. Fails(ph, h, a) /\ ph = "connecting" => Len(a) <= 2
  <2>1. Len(<<False>>) = 1
    OBVIOUS
  <2>2. Fails(ph, h, a) /\ ph = "connecting" => Len(a \o o) \in {1, 2}
    <3>1. a \o o = a \o h.out
      BY <1>1
    <3> QED BY <2>1, <3>1 DEF Fails
  <2> QED BY <1>2, <2>2
<1>6. Fails(ph, h, a) /\ ph = "ready" => Len(a) <= 1
  <2>1. Fails(ph, h, a) /\ ph = "ready" => Len(a \o o) <= 1
    <3>1. a \o o = a \o h.out
      BY <1>1
    <3> QED BY <3>1 DEF Fails
  <2> QED BY <1>2, <2>1
<1>7. ASSUME ph = "connecting"
      PROVE  IF me.pc = "nonce" THEN d \in Keys(c) ELSE Len(a) <= 2
  <2>1. me.cmd = "o"
    BY <1>3, <1>7 DEF Calling
  <2>2. ~Relinquished(me)
    BY <2>1 DEF Relinquished
  <2>3. ASSUME me.pc = "nonce" PROVE d \in Keys(c)
    <3>1. Greets(c, h, u, d)
      BY <2>3 DEF Standing
    <3>2. d = <<>> \/ d \o o = Nonce(c)
      BY <1>1, <3>1 DEF Greets
    <3> QED BY <1>3, <3>2, NonceType, PartOfNonce
  <2>4. ASSUME Follows(c, h, s, a, AskedBy(me), Goal(me, w, n)) PROVE Len(a) <= 2
    <3>1. PICK image \in Images : image = Goal(me, w, n)
      BY TypedParts
    <3>2. Reply(AskedBy(me), image) = <<Status(TRUE)>>
      BY <1>3, <2>1, ReplyType
    <3>3. a \o o = IF s = <<>> THEN <<Status(TRUE)>> ELSE <<>>
      BY <1>1, <2>4, <3>1, <3>2 DEF Follows
    <3>4. Len(<<Status(TRUE)>>) = 1 /\ Len(<<>>) = 0
      OBVIOUS
    <3> QED BY <1>2, <3>3, <3>4
  <2> QED BY <1>1, <1>4, <1>5, <1>7, <2>2, <2>3, <2>4 DEF Standing
<1>8. ASSUME ph = "ready", ~Relinquished(me)
      PROVE  \/ Len(a) <= 1
             \/ /\ me.cmd \in ReadCommands /\ me.out = <<>>
                /\ Begins(a, Reply(AskedBy(me), w))
  <2>1. me.pc # "nonce" /\ me.cmd # "o"
    BY <1>3, <1>8 DEF Calling
  <2>2. ASSUME Follows(c, h, s, a, AskedBy(me), Goal(me, w, n)), ~(Len(a) <= 1)
        PROVE  /\ me.cmd \in ReadCommands /\ me.out = <<>>
               /\ Begins(a, Reply(AskedBy(me), w))
    <3>1. PICK image \in Images : image = Goal(me, w, n)
      BY TypedParts
    <3>2. a \o o = IF s = <<>> THEN Reply(AskedBy(me), image) ELSE <<>>
      BY <1>1, <2>2, <3>1 DEF Follows
    <3>3. a \o o # <<>>
      <4>1. Len(<<>>) = 0
        OBVIOUS
      <4> QED BY <1>2, <2>2, <4>1
    <3>4. s = <<>> /\ a \o o = Reply(AskedBy(me), image)
      BY <3>2, <3>3
    <3>5. me.cmd \in ReadCommands
      <4>1. me.cmd \notin {"o"} \cup ReadCommands => Reply(AskedBy(me), image) = <<>>
        BY <1>3, ReplyType
      <4> QED BY <2>1, <3>3, <3>4, <4>1
    <3>6. me.out = <<>>
      <4>1. me.out \in Seq(Units) /\ u \in Seq(Units)
        BY TypedParts DEF Typed
      <4> QED BY <1>1, <3>4, <4>1, NothingLeft
    <3>7. image = w
      BY <3>1, <3>5 DEF Goal, ReadCommands, WriteCommands
    <3>8. Begins(a, a \o o)
      BY BeginsPart
    <3> QED BY <3>4, <3>5, <3>6, <3>7, <3>8
  <2> QED BY <1>1, <1>4, <1>6, <1>8, <2>1, <2>2 DEF Standing
<1> QED BY <1>1, <1>7, <1>8 DEF Answered

LEMMA AnsweredShorter ==
    ASSUME NEW c \in Clients, NEW ph, NEW me, NEW d \in Seq(Units), NEW w \in Images,
           Calling(ph, me), me.in \in Seq(Units),
           Answered(c, ph, me, d, w), NEW m \in 0..Len(d)
    PROVE  Answered(c, ph, me, SubSeq(d, 1, m), w)
<1>1. PICK e, i \in Seq(Units) : e = SubSeq(d, 1, m) /\ i = me.in
  BY Shorter
<1>2. e \in Seq(Units) /\ Len(e) = m
  BY <1>1, Shorter
<1>3. Len(i \o e) = Len(i) + m /\ Len(i \o d) = Len(i) + Len(d)
      /\ Len(i) \in Nat /\ Len(d) \in Nat
  BY <1>2, ConcatProperties, LenProperties
<1>4. Len(i \o e) <= Len(i \o d) /\ Len(i \o e) \in Nat /\ Len(i \o d) \in Nat
  BY <1>3
<1>5. d \in Keys(c) => e \in Keys(c)
  BY <1>1, KeysShorter
<1>6. Begins(i \o d, Reply(AskedBy(me), w)) => Begins(i \o e, Reply(AskedBy(me), w))
  BY <1>1, ReplyType, BeginsShorter
<1>7. (Len(i \o d) <= 2 => Len(i \o e) <= 2) /\ (Len(i \o d) <= 1 => Len(i \o e) <= 1)
  <2>1. PICK x \in Nat, y \in Nat : x = Len(i \o e) /\ y = Len(i \o d) /\ x <= y
    BY <1>4
  <2>2. (y <= 2 => x <= 2) /\ (y <= 1 => x <= 1)
    BY <2>1
  <2> QED BY <2>1, <2>2
<1>8. i \o d = me.in \o d /\ i \o e = me.in \o SubSeq(d, 1, m)
  BY <1>1
<1>9. Answered(c, ph, me, e, w)
  BY <1>1, <1>5, <1>6, <1>7, <1>8 DEF Answered
<1> QED BY <1>1, <1>9

-----------------------------------------------------------------------------
(* The connection: the steps of the client                                 *)

LEMMA ConnectingCommand ==
    ASSUME NEW ph, NEW me, Calling(ph, me)
    PROVE  /\ ph = "connecting" => me.cmd = "o" /\ ~Relinquished(me)
           /\ ph = "ready" => me.cmd # "o" /\ me.pc # "nonce"
           /\ me.cmd = "o" => ph = "connecting"
BY DEF Calling, Relinquished

(* A unit moves from the call to the connection, or back, or the call goes *)
(* on to wait for its answer.                                              *)
LEMMA StandingMoves ==
    ASSUME NEW c, NEW ph, NEW k, NEW h, NEW me, NEW u, NEW d, NEW w, NEW n,
           Standing(c, ph, k, h, me, u, d, w, n), me.pc # "nonce",
           NEW you, you.pc # "nonce", you.cmd = me.cmd, you.region = me.region,
           you.row = me.row, me.pc # "idle", you.pc # "idle",
           NEW v, NEW e, v \o you.out = u \o me.out, you.in \o e = me.in \o d
    PROVE  Standing(c, ph, k, h, you, v, e, w, n)
<1>1. AskedBy(you) = AskedBy(me)
  BY DEF AskedBy
<1>2. Goal(you, w, n) = Goal(me, w, n)
  BY DEF Goal
<1>3. Relinquished(me) => Relinquished(you)
  BY DEF Relinquished
<1> QED BY <1>1, <1>2, <1>3 DEF Standing

LEMMA AnsweredMoves ==
    ASSUME NEW c, NEW ph, NEW me, NEW d, NEW w, Answered(c, ph, me, d, w),
           me.pc # "nonce", NEW you, you.pc # "nonce", you.cmd = me.cmd,
           you.region = me.region, you.row = me.row, me.pc # "idle", you.pc # "idle",
           me.out = <<>> => you.out = <<>>, NEW e, you.in \o e = me.in \o d
    PROVE  Answered(c, ph, you, e, w)
<1>1. AskedBy(you) = AskedBy(me)
  BY DEF AskedBy
<1>3. Relinquished(me) => Relinquished(you)
  BY DEF Relinquished
<1> QED BY <1>1, <1>3 DEF Answered

(* Nothing but a word is under way.                                        *)
LEMMA AnsweredWord ==
    ASSUME NEW c, NEW me, NEW d, NEW w, Len(me.in \o d) <= 1
    PROVE  Answered(c, "ready", me, d, w)
BY DEF Answered

LEMMA AnsweredClosed ==
    ASSUME NEW c, NEW ph \in {"new", "closed"}, NEW me, NEW d, NEW w
    PROVE  Answered(c, ph, me, d, w)
BY DEF Answered

(* The message of a call.                                                  *)
RowMessage(k, cmd, first, last, n) ==
    << <<"command", cmd>>, <<"key", k>>, <<"args", [first |-> first, last |-> last]>> >>
    \o (IF cmd \in WriteCommands
        THEN Content(Painted(n), Plane(cmd), first, last)
        ELSE <<>>)

LEMMA MessageUnits ==
    ASSUME NEW k \in AllKeys, NEW cmd \in ReadCommands \cup WriteCommands,
           NEW first \in 1..Rows, NEW last \in 1..Rows, first <= last, NEW n \in Nat
    PROVE  /\ RowMessage(k, cmd, first, last, n) \in Seq(Units)
           /\ Len(RowMessage(k, cmd, first, last, n)) >= 2
           /\ RowMessage(k, cmd, first, last, n)[2] = <<"key", k>>
           /\ RowMessage(k, cmd, first, last, n) # <<>>
<1>1. PICK r1 \in Units, r2 \in Units, r3 \in Units :
         /\ r1 = <<"command", cmd>> /\ r2 = <<"key", k>>
         /\ r3 = <<"args", [first |-> first, last |-> last]>>
  <2>1. cmd \in Cmds
    BY DEF Cmds
  <2>2. [first |-> first, last |-> last] \in Rectangles
    BY Geometry
  <2> QED BY <2>1, <2>2, UnitKinds
<1>2. PICK r \in Seq(Units) : r = <<r1, r2, r3>>
  <2>1. <<r1, r2, r3>> \in Seq(Units)
    OBVIOUS
  <2> QED BY <2>1
<1>3. r[2] = r2 /\ Len(r) = 3
  BY <1>2
<1>4. PICK t \in Seq(Units) :
         t = (IF cmd \in WriteCommands THEN Content(Painted(n), Plane(cmd), first, last)
              ELSE <<>>)
  <2>1. Content(Painted(n), Plane(cmd), first, last) \in Seq(Units)
    BY PaintedType, PlaneType, ContentType
  <2>2. <<>> \in Seq(Units)
    OBVIOUS
  <2> QED BY <2>1, <2>2
<1>5. PICK m : m = r \o t
  OBVIOUS
<1>6. PICK x \in Nat, y \in Nat : x = Len(r) /\ y = Len(t)
  BY LenProperties
<1>7. x = 3
  BY <1>3, <1>6
<1>8. m \in Seq(Units) /\ Len(m) = x + y
      /\ \A i \in 1..(x + y) : m[i] = IF i <= x THEN r[i] ELSE t[i - x]
  BY <1>5, <1>6, ConcatProperties
<1>9. 2 \in 1..(x + y) /\ 2 <= x /\ x + y >= 2
  BY ONLY <1>7, y \in Nat
<1>10. m[2] = r2 /\ Len(m) >= 2
  BY <1>3, <1>8, <1>9
<1>11. m # <<>>
  <2>1. PICK z \in Nat : z = Len(m) /\ z >= 2
    BY <1>8, <1>9, <1>10
  <2>2. z # 0
    BY ONLY <2>1, z \in Nat
  <2> QED BY <2>1, <2>2, <1>8, EmptySeq
<1>12. m = RowMessage(k, cmd, first, last, n)
  BY <1>1, <1>2, <1>4, <1>5 DEF RowMessage
<1> QED BY <1>1, <1>8, <1>10, <1>11, <1>12

LEMMA MessagePath ==
    ASSUME NEW c \in Clients, NEW cmd \in ReadCommands \cup WriteCommands,
           NEW first \in 1..Rows, NEW last \in 1..Rows, first <= last, NEW n \in Nat,
           NEW image \in Images
    PROVE  \E M : /\ M[1].at = "command" /\ M[1].image = image
                  /\ Path(c, RowMessage(Nonce(c), cmd, first, last, n),
                          IF cmd \in WriteCommands THEN Nothing
                          ELSE Asked(cmd, [first |-> first, last |-> last]),
                          IF cmd \in WriteCommands
                          THEN Replaced(image, Plane(cmd), first, last, n) ELSE image, M)
<1>1. PICK args \in Rectangles : args = [first |-> first, last |-> last]
  BY Geometry
<1>2. CASE cmd \in WriteCommands
  <2>1. RowMessage(Nonce(c), cmd, first, last, n)
        = RightRequest(c, cmd, [first |-> first, last |-> last])
          \o Content(Painted(n), Plane(cmd), first, last)
    BY <1>2 DEF RowMessage, RightRequest
  <2>2. PICK M : /\ M[1].at = "command" /\ M[1].image = image
                 /\ Path(c, RightRequest(c, cmd, [first |-> first, last |-> last])
                            \o Content(Painted(n), Plane(cmd), first, last), Nothing,
                         Replaced(image, Plane(cmd), first, last, n), M)
    BY <1>2, WritePath
  <2>3. Path(c, RowMessage(Nonce(c), cmd, first, last, n), Nothing,
             Replaced(image, Plane(cmd), first, last, n), M)
    BY <2>1, <2>2
  <2> QED BY <1>2, <2>2, <2>3
<1>3. CASE cmd \notin WriteCommands
  <2>1. cmd \in ReadCommands /\ cmd # "o" /\ image # NoImage
    BY <1>3, ImageNotNone DEF ReadCommands
  <2>2. RightRequest(c, cmd, args) \in Seq(Units)
    BY <2>1, RightRequestType DEF Cmds
  <2>3. RightRequest(c, cmd, args) \o <<>> = RightRequest(c, cmd, args)
    BY <2>2, ConcatEmptySeq
  <2>4. RowMessage(Nonce(c), cmd, first, last, n) = RightRequest(c, cmd, args)
    BY <1>1, <1>3, <2>3 DEF RowMessage, RightRequest
  <2>5. PICK M : /\ M[1].at = "command" /\ M[1].image = image
                 /\ Path(c, RightRequest(c, cmd, args), Asked(cmd, args),
                         IF cmd = "o" THEN NewImage ELSE image, M)
    BY <2>1, RequestPath
  <2> QED BY <1>1, <1>3, <2>1, <2>4, <2>5
<1> QED BY <1>2, <1>3

(* A message begins, of a client that took a part of the nonce for its key.*)
LEMMA MisledMessage ==
    ASSUME NEW c, NEW ph, NEW k, NEW h, NEW s \in Seq(Units), NEW m \in Seq(Units), NEW a,
           Misled(c, ph, k, h, s, a), Len(m) >= 2, m[2] = <<"key", k>>
    PROVE  Misled(c, ph, k, h, s \o m, a)
<1>1. PICK x \in Nat, y \in Nat : x = Len(s) /\ y = Len(m)
  BY LenProperties
<1>2. y >= 2
  BY <1>1
<1>3. PICK t : t = s \o m
  OBVIOUS
<1>4. t \in Seq(Units) /\ Len(t) = x + y
      /\ \A i \in 1..(x + y) : t[i] = IF i <= x THEN s[i] ELSE m[i - x]
  BY <1>1, <1>3, ConcatProperties
<1>5. x + y >= 2 /\ 1 \in 1..(x + y) /\ 2 \in 1..(x + y)
  BY ONLY <1>2, x \in Nat, y \in Nat
<1>6. Len(t) >= 2
  BY <1>4, <1>5
<1>7. s # <<>> => x >= 1 /\ x # 0 /\ t[1] = s[1] /\ t # <<>>
  <2>1. SUFFICES ASSUME s # <<>> PROVE x >= 1 /\ x # 0 /\ t[1] = s[1] /\ t # <<>>
    OBVIOUS
  <2>2. x # 0
    BY <1>1, <2>1, EmptySeq
  <2>3. 1 <= x
    BY ONLY <2>2, x \in Nat
  <2>4. t[1] = s[1]
    BY <1>4, <1>5, <2>3
  <2>5. t # <<>>
    BY <1>3, <2>1, ConcatEqualIffEmpty
  <2> QED BY <2>2, <2>3, <2>4, <2>5
<1>8. ASSUME h.pc \in {"greeting", "command"} PROVE t[2] = <<"key", k>>
  <2>1. CASE s = <<>>
    <3>1. t = m
      BY <1>3, <2>1, ConcatEmptySeq
    <3> QED BY <3>1
  <2>2. CASE s # <<>>
    <3>1. Len(s) >= 2 /\ s[2] = <<"key", k>>
      BY <1>8, <2>2 DEF Misled
    <3>2. x >= 2
      BY <1>1, <3>1
    <3>3. 2 <= x
      BY ONLY <3>2, x \in Nat
    <3>4. t[2] = s[2]
      BY <1>4, <1>5, <3>3
    <3> QED BY <3>1, <3>4
  <2> QED BY <2>1, <2>2
<1>9. h.pc = "key" => t # <<>> /\ t[1] = <<"key", k>>
  BY <1>7 DEF Misled
<1> QED BY <1>3, <1>6, <1>8, <1>9 DEF Misled

(* The key has been received, the cache is asked to be opened.             *)
OpenMessage(k) == << <<"command", "o">>, <<"key", k>>, <<"args", Attributes>> >>

LEMMA OpenUnits ==
    ASSUME NEW k \in AllKeys
    PROVE  /\ OpenMessage(k) \in Seq(Units) /\ Len(OpenMessage(k)) >= 2
           /\ OpenMessage(k)[2] = <<"key", k>> /\ OpenMessage(k) # <<>>
<1>1. PICK r1 \in Units, r2 \in Units, r3 \in Units :
         r1 = <<"command", "o">> /\ r2 = <<"key", k>> /\ r3 = <<"args", Attributes>>
  BY UnitKinds DEF Cmds
<1>2. /\ <<r1, r2, r3>> \in Seq(Units) /\ Len(<<r1, r2, r3>>) = 3
      /\ <<r1, r2, r3>>[2] = r2
  OBVIOUS
<1>3. <<r1, r2, r3>> # <<>>
  OBVIOUS
<1>4. PICK m : m = <<r1, r2, r3>>
  OBVIOUS
<1>5. Len(m) >= 2
  <2>1. PICK x : x = Len(m)
    OBVIOUS
  <2>2. x = 3
    BY <1>2, <1>4, <2>1
  <2>3. x >= 2
    BY ONLY <2>2
  <2> QED BY <2>1, <2>3
<1>6. m = OpenMessage(k)
  BY <1>1, <1>4 DEF OpenMessage
<1> QED BY <1>1, <1>2, <1>3, <1>4, <1>5, <1>6

LEMMA GreetsKey ==
    ASSUME NEW c \in Clients, NEW h \in Handlers, NEW u, NEW d \in Seq(Units),
           Greets(c, h, u, d)
    PROVE  d \in Keys(c) /\ d \in AllKeys /\ u = <<>>
<1>1. PICK o \in Seq(Units) : o = h.out
  BY DEF Handlers
<1>2. d = <<>> \/ d \o o = Nonce(c)
  BY <1>1 DEF Greets
<1>3. d \in Keys(c)
  BY <1>2, PartOfNonce, NonceType
<1> QED BY <1>3, NonceType DEF Greets

LEMMA StandingNonce ==
    ASSUME NEW c, NEW ph, NEW k, NEW h, NEW me, NEW u, NEW d, NEW w, NEW n,
           Typed(c, ph, k, h, me, u, d, w, n), Standing(c, ph, k, h, me, u, d, w, n),
           me.pc = "nonce", d # <<>>, w = NewImage,
           NEW you, you.pc = "sending", you.cmd = me.cmd, you.in = me.in,
           you.out = OpenMessage(d)
    PROVE  Standing(c, ph, d, h, you, u, <<>>, w, n)
<1>1. /\ c \in Clients /\ h \in Handlers /\ d \in Seq(Units) /\ h.out \in Seq(Units)
      /\ Calling(ph, me)
  BY TypedParts DEF Typed
<1>2. me.cmd = "o" /\ ph = "connecting" /\ me.in = <<>>
  BY <1>1 DEF Calling
<1>3. Greets(c, h, u, d)
  BY DEF Standing
<1>4. d \in Keys(c) /\ d \in AllKeys /\ u = <<>>
  BY <1>1, <1>3, GreetsKey
<1>5. h.pc \in {"greeting", "command"} /\ d \o h.out = Nonce(c) /\ h.in = <<>>
      /\ h.image = NoImage
  BY <1>3 DEF Greets
<1>6. PICK o \in Seq(Units) : o = h.out
  BY <1>1
<1>7. Len(d) + Len(o) = 2 /\ (d = Nonce(c) => o = <<>>)
  BY <1>1, <1>5, <1>6, PartOfNonce
<1>8. /\ OpenMessage(d) \in Seq(Units) /\ Len(OpenMessage(d)) >= 2
      /\ OpenMessage(d)[2] = <<"key", d>> /\ OpenMessage(d) # <<>>
  BY <1>4, OpenUnits
<1>9. <<>> \o OpenMessage(d) = OpenMessage(d) /\ <<>> \o <<>> = <<>>
  BY <1>8, ConcatEmptySeq
<1>10. ASSUME d # Nonce(c) PROVE Misled(c, ph, d, h, OpenMessage(d), <<>>)
  <2>1. PICK x \in Nat, y \in Nat, z \in Nat : x = Len(d) /\ y = Len(o) /\ z = Len(<<>>)
    BY <1>1, LenProperties
  <2>2. x # 0
    BY <1>1, <2>1, EmptySeq
  <2>3. x + y = 2
    BY <1>7, <2>1
  <2>4. z = 0
    BY <2>1
  <2>5. z + y + 1 <= 2
    BY ONLY <2>2, <2>3, <2>4, x \in Nat, y \in Nat
  <2>6. Len(<<>>) + Len(h.out) + (IF h.pc = "leaving" THEN 0 ELSE 1) <= 2
    BY <1>5, <1>6, <2>1, <2>5
  <2> QED BY <1>2, <1>5, <1>8, <2>6 DEF Misled
<1>11. ASSUME d = Nonce(c)
       PROVE  Follows(c, h, OpenMessage(d), <<>>, AskedBy(you), Goal(you, w, n))
  <2>1. AskedBy(you) = Asked("o", Attributes) /\ Goal(you, w, n) = NewImage
    BY <1>2 DEF AskedBy, Goal, WriteCommands
  <2>2. OpenMessage(d) = RightRequest(c, "o", Attributes)
    BY <1>11 DEF OpenMessage, RightRequest
  <2>3. PICK M : /\ M[1].at = "command" /\ M[1].image = NoImage
                 /\ Path(c, RightRequest(c, "o", Attributes), Asked("o", Attributes),
                         NewImage, M)
    <3>1. PICK cmd \in {"o"} \cup ReadCommands, args \in Rectangles \cup {Attributes} :
             cmd = "o" /\ args = Attributes
      OBVIOUS
    <3>2. PICK image : image = NoImage
      OBVIOUS
    <3>3. PICK M : /\ M[1].at = "command" /\ M[1].image = image
                   /\ Path(c, RightRequest(c, cmd, args), Asked(cmd, args),
                           IF cmd = "o" THEN NewImage ELSE image, M)
      <4>1. /\ c \in Clients /\ (cmd = "o" => args = Attributes)
            /\ (cmd # "o" => args \in Rectangles /\ image # NoImage)
        BY <1>1, <3>1
      <4> QED BY <4>1, RequestPath
    <3>4. Path(c, RightRequest(c, cmd, args), Asked(cmd, args), NewImage, M)
      BY <3>1, <3>3
    <3> QED BY <3>1, <3>2, <3>3, <3>4
  <2>4. IsAt(h, M[1])
    BY <1>5, <2>3 DEF IsAt
  <2>5. <<>> \o h.out = <<>>
    BY <1>6, <1>7, <1>9, <1>11
  <2>6. Path(c, OpenMessage(d), AskedBy(you), Goal(you, w, n), M)
    BY <2>1, <2>2, <2>3
  <2> QED BY <1>5, <1>8, <2>4, <2>5, <2>6 DEF Follows
<1> QED BY <1>2, <1>4, <1>9, <1>10, <1>11 DEF Standing

(* The idle call.                                                          *)
LEMMA IdleCall ==
    ASSUME NEW w, NEW n
    PROVE  /\ ThreadIdle.pc = "idle" /\ ThreadIdle.in = <<>> /\ ThreadIdle.out = <<>>
           /\ AskedBy(ThreadIdle) = Nothing /\ Goal(ThreadIdle, w, n) = w
           /\ ~Relinquished(ThreadIdle)
BY DEF ThreadIdle, AskedBy, Goal, Relinquished, ReadCommands, WriteCommands

\* A connection that stands, between calls.
Resting(c, k, h, u, d, w) ==
    /\ k # Nonce(c) => k \in Keys(c) /\ Misled(c, "ready", k, h, u, d)
    /\ k = Nonce(c) => Follows(c, h, u, d, Nothing, w) \/ Fails("ready", h, d)

LEMMA StandingResting ==
    ASSUME NEW c, NEW k, NEW h, NEW u \in Seq(Units), NEW d \in Seq(Units), NEW w, NEW n
    PROVE  Standing(c, "ready", k, h, ThreadIdle, u, d, w, n) <=> Resting(c, k, h, u, d, w)
<1>1. u \o ThreadIdle.out = u /\ ThreadIdle.in \o d = d
  BY IdleCall, ConcatEmptySeq
<1> QED BY <1>1, IdleCall DEF Standing, Resting

(* A message begins.                                                       *)
LEMMA RestingCall ==
    ASSUME NEW c \in Clients, NEW k \in AllKeys, NEW h, h.out \in Seq(Units),
           NEW u \in Seq(Units), NEW d \in Seq(Units), NEW w \in Images, NEW n \in Nat,
           Resting(c, k, h, u, d, w),
           NEW me, me.pc = "sending", me.cmd \in ReadCommands \cup WriteCommands,
           me.region \in Regions, me.row \in me.region.first..me.region.last,
           me.in = <<>>,
           me.out = RowMessage(k, me.cmd, me.row, LastOf(me.region, me.row), n)
    PROVE  Standing(c, "ready", k, h, me, u, d, w, n)
<1>1. PICK last \in 1..Rows : last = LastOf(me.region, me.row)
  BY RowsAsked
<1>2. me.row \in 1..Rows /\ me.row <= last
  BY <1>1, RowsAsked
<1>3. PICK m \in Seq(Units) : m = RowMessage(k, me.cmd, me.row, last, n)
  BY <1>2, MessageUnits
<1>4. Len(m) >= 2 /\ m[2] = <<"key", k>> /\ m # <<>> /\ me.out = m
  BY <1>1, <1>2, <1>3, MessageUnits
<1>5. me.in \o d = d
  BY ConcatEmptySeq
<1>6. ~Relinquished(me)
  BY DEF Relinquished, ReadCommands, WriteCommands
<1>7. Misled(c, "ready", k, h, u, d) => Misled(c, "ready", k, h, u \o m, d)
  BY <1>4, MisledMessage
<1>8. ASSUME k = Nonce(c), Follows(c, h, u, d, Nothing, w)
      PROVE  Follows(c, h, u \o m, d, AskedBy(me), Goal(me, w, n))
  <2>1. d = <<>> /\ Follows(c, h, u, <<>>, Nothing, w)
    BY <1>8, FollowsWritten
  <2>2. PICK ask, goal :
          /\ ask = (IF me.cmd \in WriteCommands THEN Nothing
                    ELSE Asked(me.cmd, [first |-> me.row, last |-> last]))
          /\ goal = (IF me.cmd \in WriteCommands
                     THEN Replaced(w, Plane(me.cmd), me.row, last, n) ELSE w)
    OBVIOUS
  <2>3. PICK M : M[1].at = "command" /\ M[1].image = w /\ Path(c, m, ask, goal, M)
    <3>1. \E M : /\ M[1].at = "command" /\ M[1].image = w
                 /\ Path(c, RowMessage(Nonce(c), me.cmd, me.row, last, n),
                          IF me.cmd \in WriteCommands THEN Nothing
                          ELSE Asked(me.cmd, [first |-> me.row, last |-> last]),
                          IF me.cmd \in WriteCommands
                          THEN Replaced(w, Plane(me.cmd), me.row, last, n) ELSE w, M)
      BY <1>2, MessagePath
    <3> QED BY <1>3, <1>8, <2>2, <3>1
  <2>4. Follows(c, h, u \o m, <<>>, ask, goal)
    BY <1>4, <2>1, <2>3, FollowsMessage
  <2>5. ask = AskedBy(me)
    BY <1>1, <2>2 DEF AskedBy, ReadCommands, WriteCommands
  <2>6. goal = Goal(me, w, n)
    BY <1>1, <2>2 DEF Goal
  <2> QED BY <2>1, <2>4, <2>5, <2>6
<1> QED BY <1>4, <1>5, <1>6, <1>7, <1>8 DEF Resting, Standing

(* The cache is relinquished.                                              *)
LEMMA RestingRelinquish ==
    ASSUME NEW c \in Clients, NEW k \in AllKeys, NEW h,
           NEW u \in Seq(Units), NEW d \in Seq(Units), NEW w, NEW n,
           Resting(c, k, h, u, d, w),
           NEW me, me.pc = "sending", me.cmd = "d", me.in = <<>>,
           me.out = << <<"command", "d">>, <<"key", k>> >>
    PROVE  Standing(c, "ready", k, h, me, u, d, w, n)
<1>1. PICK r1 \in Units, r2 \in Units : r1 = <<"command", "d">> /\ r2 = <<"key", k>>
  BY UnitKinds DEF Cmds
<1>2. PICK m \in Seq(Units) : m = <<r1, r2>>
  <2>1. <<r1, r2>> \in Seq(Units)
    OBVIOUS
  <2> QED BY <2>1
<1>3. m[2] = <<"key", k>> /\ me.out = m
  BY <1>1, <1>2
<1>4. Len(m) >= 2
  <2>1. PICK x : x = Len(m)
    OBVIOUS
  <2>2. x = 2
    BY <1>2, <2>1
  <2>3. x >= 2
    BY ONLY <2>2
  <2> QED BY <2>1, <2>3
<1>5. me.in \o d = d
  BY ConcatEmptySeq
<1>6. Relinquished(me)
  BY DEF Relinquished
<1>7. Misled(c, "ready", k, h, u, d) => Misled(c, "ready", k, h, u \o m, d)
  BY <1>3, <1>4, MisledMessage
<1> QED BY <1>3, <1>5, <1>6, <1>7 DEF Resting, Standing

(* A write has been sent.                                                  *)
LEMMA StandingWritten ==
    ASSUME NEW c, NEW ph, NEW k, NEW h, NEW me, NEW u, NEW d, NEW w, NEW n,
           Typed(c, ph, k, h, me, u, d, w, n), Standing(c, ph, k, h, me, u, d, w, n),
           me.pc = "sending", me.out = <<>>, me.cmd \in WriteCommands
    PROVE  /\ ph = "ready"
           /\ Resting(c, k, h, u, d, Replaced(w, Plane(me.cmd), me.row,
                                              LastOf(me.region, me.row), n))
<1>1. /\ h.out \in Seq(Units) /\ u \in Seq(Units) /\ d \in Seq(Units) /\ Calling(ph, me)
      /\ c \in Clients
  BY TypedParts DEF Typed
<1>2. ph = "ready"
  <2>1. me.cmd # "o"
    BY DEF WriteCommands
  <2> QED BY <1>1, <2>1 DEF Calling, Standing
<1>3. me.in = <<>> /\ me.in \o d = d /\ u \o me.out = u
  <2>1. me.in = <<>>
    BY <1>1 DEF Calling
  <2> QED BY <1>1, <2>1, ConcatEmptySeq
<1>4. ~Relinquished(me)
  BY DEF Relinquished, WriteCommands
<1>5. AskedBy(me) = Nothing
  BY DEF AskedBy, ReadCommands, WriteCommands
<1>6. Goal(me, w, n) = Replaced(w, Plane(me.cmd), me.row, LastOf(me.region, me.row), n)
  BY DEF Goal
<1> QED BY <1>2, <1>3, <1>4, <1>5, <1>6 DEF Standing, Resting

(* Fewer words are under way than before.                                  *)
LEMMA FewerWords ==
    ASSUME NEW i \in Seq(Units), NEW d \in Seq(Units), NEW o \in Seq(Units)
    PROVE  /\ Len((i \o d) \o o) = Len(i) + Len(d) + Len(o)
           /\ Len(d \o o) = Len(d) + Len(o) /\ Len(i \o d) = Len(i) + Len(d)
           /\ Len(i) \in Nat /\ Len(d) \in Nat /\ Len(o) \in Nat
           /\ i # <<>> => /\ ((i \o d) \o o)[1] = i[1] /\ Len(i) # 0
<1>1. Len(i \o d) = Len(i) + Len(d) /\ i \o d \in Seq(Units)
  BY ConcatProperties
<1>2. Len((i \o d) \o o) = Len(i \o d) + Len(o)
  BY <1>1, ConcatProperties
<1>3. Len(d \o o) = Len(d) + Len(o)
  BY ConcatProperties
<1>4. Len(i) \in Nat /\ Len(d) \in Nat /\ Len(o) \in Nat
  BY LenProperties
<1>5. ASSUME i # <<>> PROVE ((i \o d) \o o)[1] = i[1] /\ Len(i) # 0
  <2>1. i \o d # <<>> /\ (i \o d)[1] = Head(i)
    BY <1>5, TakeUnit
  <2>2. ((i \o d) \o o)[1] = Head(i \o d) /\ Head(i \o d) = Head(i)
    BY <1>1, <1>5, <2>1, TakeUnit
  <2>3. Head(i) = i[1] /\ Len(i) # 0
    BY <1>5, OneUnit, EmptySeq
  <2> QED BY <2>2, <2>3
<1> QED BY <1>1, <1>2, <1>3, <1>4, <1>5

(* The reply to a read is complete.                                        *)
LEMMA StandingRows ==
    ASSUME NEW c, NEW ph, NEW k, NEW h, NEW me, NEW u, NEW d, NEW w, NEW n,
           Typed(c, ph, k, h, me, u, d, w, n), Standing(c, ph, k, h, me, u, d, w, n),
           me.pc = "receiving", me.cmd \in ReadCommands,
           Len(me.in) = Count(me.row, LastOf(me.region, me.row))
    PROVE  /\ ph = "ready" /\ Resting(c, k, h, u, d, w)
           /\ Follows(c, h, u \o me.out, me.in \o d, AskedBy(me), Goal(me, w, n))
                => me.in = Content(w, Plane(me.cmd), me.row, LastOf(me.region, me.row))
<1>1. PICK i \in Seq(Units), o \in Seq(Units) : i = me.in /\ o = h.out
  BY TypedParts
<1>2. /\ u \in Seq(Units) /\ d \in Seq(Units) /\ Calling(ph, me) /\ w \in Images
      /\ c \in Clients
  BY DEF Typed
<1>3. ph = "ready" /\ me.cmd # "o" /\ me.out = <<>>
  <2>1. me.cmd # "o" /\ me.out = <<>>
    BY <1>2 DEF Calling, ReadCommands
  <2> QED BY <1>2, <2>1 DEF Calling, Standing
<1>4. u \o me.out = u
  BY <1>2, <1>3, ConcatEmptySeq
<1>5. ~Relinquished(me)
  BY DEF Relinquished, ReadCommands
<1>6. Goal(me, w, n) = w
  BY DEF Goal, ReadCommands, WriteCommands
<1>7. PICK reply \in Seq(Units) : reply = Reply(AskedBy(me), w)
  BY <1>2, ReplyType
<1>8. /\ Len(i) = Len(reply) /\ Len(i) \in Nat \ {0}
      /\ reply = Content(w, Plane(me.cmd), me.row, LastOf(me.region, me.row))
  BY <1>1, <1>2, <1>7, ReplyType
<1>9. i # <<>>
  BY <1>8, EmptySeq
<1>10. ASSUME Follows(c, h, u, i \o d, AskedBy(me), w)
       PROVE  i = reply /\ Follows(c, h, u, d, Nothing, w)
  <2>1. /\ u = <<>> /\ i = Reply(AskedBy(me), w) /\ d = <<>>
        /\ Follows(c, h, u, <<>>, Nothing, w)
    <3>1. /\ h.out \in Seq(Units) /\ Reply(AskedBy(me), w) \in Seq(Units)
          /\ Len(i) = Len(Reply(AskedBy(me), w))
      BY <1>1, <1>7, <1>8
    <3> QED BY <1>2, <1>9, <1>10, <3>1, FollowsReply
  <2> QED BY <1>7, <2>1
<1>11. /\ Len((i \o d) \o o) = Len(i) + Len(d) + Len(o) /\ Len(d \o o) = Len(d) + Len(o)
       /\ Len(i \o d) = Len(i) + Len(d)
       /\ Len(i) \in Nat /\ Len(d) \in Nat /\ Len(o) \in Nat
  BY <1>2, FewerWords
<1>12. ASSUME Misled(c, "ready", k, h, u, i \o d) PROVE Misled(c, "ready", k, h, u, d)
  <2>1. Len(i \o d) + Len(h.out) + (IF h.pc = "leaving" THEN 0 ELSE 1) <= 1
    BY <1>12 DEF Misled
  <2>2. PICK x \in Nat, y \in Nat, z \in Nat, b \in Nat :
          /\ x = Len(i) /\ y = Len(d) /\ z = Len(h.out)
          /\ b = (IF h.pc = "leaving" THEN 0 ELSE 1)
    <3>1. (IF h.pc = "leaving" THEN 0 ELSE 1) \in Nat
      OBVIOUS
    <3> QED BY <1>1, <1>11, <3>1
  <2>3. x + y + z + b <= 1
    BY <1>11, <2>1, <2>2
  <2>4. y + z + b <= 1
    BY ONLY <2>3, x \in Nat, y \in Nat, z \in Nat, b \in Nat
  <2>5. Len(d) + Len(h.out) + (IF h.pc = "leaving" THEN 0 ELSE 1) <= 1
    BY <2>2, <2>4
  <2> QED BY <1>12, <2>5 DEF Misled
<1>13. ASSUME Fails("ready", h, i \o d) PROVE Fails("ready", h, d)
  <2>1. h.pc = "leaving" /\ Len((i \o d) \o h.out) <= 1
    BY <1>13 DEF Fails
  <2>2. PICK x \in Nat, y \in Nat, z \in Nat :
          x = Len(i) /\ y = Len(d) /\ z = Len(o)
    BY <1>11
  <2>3. x + y + z <= 1
    BY <1>1, <1>11, <2>1, <2>2
  <2>4. y + z <= 1
    BY ONLY <2>3, x \in Nat, y \in Nat, z \in Nat
  <2>5. Len(d \o h.out) <= 1
    BY <1>1, <1>11, <2>2, <2>4
  <2> QED BY <2>1, <2>5 DEF Fails
<1>14. Resting(c, k, h, u, d, w)
  BY <1>1, <1>3, <1>4, <1>5, <1>6, <1>10, <1>12, <1>13 DEF Standing, Resting
<1> QED BY <1>1, <1>3, <1>4, <1>6, <1>8, <1>10, <1>14

(* A status other than MagickFalse is there.                               *)
LEMMA StandingOpened ==
    ASSUME NEW c, NEW ph, NEW k, NEW h, NEW me, NEW u, NEW d, NEW w, NEW n,
           Typed(c, ph, k, h, me, u, d, w, n), Standing(c, ph, k, h, me, u, d, w, n),
           me.pc = "receiving", me.cmd = "o", Len(me.in) = 1, me.in[1] # False
    PROVE  ph = "connecting" /\ Resting(c, k, h, u, d, w)
<1>1. PICK i \in Seq(Units), o \in Seq(Units) : i = me.in /\ o = h.out
  BY TypedParts
<1>2. /\ u \in Seq(Units) /\ d \in Seq(Units) /\ Calling(ph, me) /\ w \in Images
      /\ c \in Clients
  BY DEF Typed
<1>3. ph = "connecting" /\ me.out = <<>>
  BY <1>2 DEF Calling
<1>4. u \o me.out = u
  BY <1>2, <1>3, ConcatEmptySeq
<1>5. ~Relinquished(me)
  BY DEF Relinquished
<1>6. Goal(me, w, n) = w
  BY DEF Goal, WriteCommands
<1>7. PICK reply \in Seq(Units) : reply = Reply(AskedBy(me), w)
  BY <1>2, ReplyType
<1>8. reply = <<Status(TRUE)>>
  BY <1>2, <1>7, ReplyType
<1>9. Len(i) = 1
  BY <1>1
<1>15. i # <<>>
  BY <1>9
<1>10. ASSUME Follows(c, h, u, i \o d, AskedBy(me), w)
       PROVE  Follows(c, h, u, d, Nothing, w)
  <2>1. Len(i) = Len(Reply(AskedBy(me), w))
    <3>1. PICK x : x = Len(reply)
      OBVIOUS
    <3>2. x = 1
      BY <1>8, <3>1
    <3> QED BY <1>7, <1>9, <3>1, <3>2
  <2>2. /\ u = <<>> /\ i = Reply(AskedBy(me), w) /\ d = <<>>
        /\ Follows(c, h, u, <<>>, Nothing, w)
    BY <1>1, <1>2, <1>7, <1>15, <1>10, <2>1, FollowsReply
  <2> QED BY <2>2
<1>11. /\ Len((i \o d) \o o) = Len(i) + Len(d) + Len(o) /\ Len(d \o o) = Len(d) + Len(o)
       /\ Len(i \o d) = Len(i) + Len(d) /\ ((i \o d) \o o)[1] = i[1]
       /\ Len(i) \in Nat /\ Len(d) \in Nat /\ Len(o) \in Nat
  BY <1>2, <1>15, FewerWords
<1>12. ASSUME Misled(c, "connecting", k, h, u, i \o d) PROVE Misled(c, "ready", k, h, u, d)
  <2>1. Len(i \o d) + Len(h.out) + (IF h.pc = "leaving" THEN 0 ELSE 1) <= 2
    BY <1>12 DEF Misled
  <2>2. PICK x \in Nat, y \in Nat, z \in Nat, b \in Nat :
          /\ x = Len(i) /\ y = Len(d) /\ z = Len(h.out)
          /\ b = (IF h.pc = "leaving" THEN 0 ELSE 1)
    <3>1. (IF h.pc = "leaving" THEN 0 ELSE 1) \in Nat
      OBVIOUS
    <3> QED BY <1>1, <1>11, <3>1
  <2>3. x + y + z + b <= 2 /\ x = 1
    BY <1>9, <1>11, <2>1, <2>2
  <2>4. y + z + b <= 1
    BY ONLY <2>3, x \in Nat, y \in Nat, z \in Nat, b \in Nat
  <2>5. Len(d) + Len(h.out) + (IF h.pc = "leaving" THEN 0 ELSE 1) <= 1
    BY <2>2, <2>4
  <2> QED BY <1>12, <2>5 DEF Misled
<1>13. ~Fails("connecting", h, i \o d)
  <2>1. SUFFICES ASSUME Fails("connecting", h, i \o d) PROVE FALSE
    OBVIOUS
  <2>2. ((i \o d) \o h.out)[1] = False
    <3>1. <<False>>[1] = False
      OBVIOUS
    <3> QED BY <2>1, <3>1 DEF Fails
  <2> QED BY <1>1, <1>11, <2>2
<1>14. Resting(c, k, h, u, d, w)
  BY <1>1, <1>3, <1>4, <1>5, <1>6, <1>10, <1>12, <1>13 DEF Standing, Resting
<1> QED BY <1>3, <1>14

(* A connection that has gone: the call takes what it has for its answer.  *)
LEMMA AnsweredLeft ==
    ASSUME NEW c, NEW me, NEW d \in Seq(Units), NEW w, Len(d) <= 1, me.in = <<>>
    PROVE  Answered(c, "ready", me, d, w)
<1>1. me.in \o d = d
  BY ConcatEmptySeq
<1> QED BY <1>1, AnsweredWord

LEMMA AnsweredIdle ==
    ASSUME NEW c, NEW d \in Seq(Units), NEW w, Answered(c, "ready", ThreadIdle, d, w)
    PROVE  Len(d) <= 1
<1>1. ThreadIdle.in \o d = d /\ ThreadIdle.cmd \notin ReadCommands
  BY IdleCall, ConcatEmptySeq DEF ThreadIdle, ReadCommands
<1> QED BY <1>1, IdleCall DEF Answered

LEMMA AnsweredUnsent ==
    ASSUME NEW c, NEW me, NEW d \in Seq(Units), NEW w, Answered(c, "ready", me, d, w),
           ~Relinquished(me), me.in = <<>>, me.out # <<>> \/ me.cmd \notin ReadCommands
    PROVE  Len(d) <= 1
<1>1. me.in \o d = d
  BY ConcatEmptySeq
<1> QED BY <1>1 DEF Answered

LEMMA AnsweredRows ==
    ASSUME NEW c, NEW me, NEW d \in Seq(Units), NEW w \in Images,
           me.in \in Seq(Units), Calling("ready", me), Answered(c, "ready", me, d, w),
           me.pc = "receiving", me.cmd \in ReadCommands,
           Len(me.in) = Count(me.row, LastOf(me.region, me.row))
    PROVE  /\ Len(d) <= 1
           /\ RowWords > 1
                => me.in = Content(w, Plane(me.cmd), me.row, LastOf(me.region, me.row))
<1>1. PICK i \in Seq(Units), reply \in Seq(Units) :
         i = me.in /\ reply = Reply(AskedBy(me), w)
  BY ReplyType
<1>2. /\ Len(i) = Len(reply) /\ Len(i) \in Nat \ {0} /\ Len(i) >= RowWords
      /\ reply = Content(w, Plane(me.cmd), me.row, LastOf(me.region, me.row))
  BY <1>1, ReplyType
<1>3. ~Relinquished(me)
  BY DEF Relinquished, ReadCommands
<1>4. Len(i \o d) <= 1 \/ Begins(i \o d, reply)
  BY <1>1, <1>3 DEF Answered
<1>5. Len(i \o d) = Len(i) + Len(d) /\ Len(d) \in Nat
  BY ConcatProperties, LenProperties
<1>6. CASE Len(i \o d) <= 1
  <2>1. PICK x \in Nat, y \in Nat : x = Len(i) /\ y = Len(d)
    BY <1>2, <1>5
  <2>2. x + y <= 1
    BY <1>5, <1>6, <2>1
  <2>3. x >= RowWords
    BY <1>2, <2>1
  <2>4. RowWords \in Nat
    BY DistributeCacheAssumption
  <2>5. y <= 1 /\ ~(RowWords > 1)
    BY ONLY <2>2, <2>3, <2>4, x \in Nat, y \in Nat
  <2> QED BY <2>1, <2>5
<1>7. CASE Begins(i \o d, reply)
  <2>1. i = reply /\ d = <<>>
    BY <1>2, <1>7, BeginsWhole
  <2>2. Len(d) <= 1
    <3>1. PICK y : y = Len(d)
      OBVIOUS
    <3>2. y = 0
      BY <2>1, <3>1
    <3>3. y <= 1
      BY ONLY <3>2
    <3> QED BY <3>1, <3>3
  <2> QED BY <1>1, <1>2, <2>1, <2>2
<1> QED BY <1>4, <1>6, <1>7

LEMMA AnsweredOpened ==
    ASSUME NEW c, NEW me, NEW d \in Seq(Units), NEW w, me.in \in Seq(Units),
           Answered(c, "connecting", me, d, w), me.pc = "receiving", Len(me.in) = 1
    PROVE  Len(d) <= 1
<1>1. PICK i \in Seq(Units) : i = me.in
  OBVIOUS
<1>2. Len(i \o d) = Len(i) + Len(d) /\ Len(d) \in Nat
  BY ConcatProperties, LenProperties
<1>3. Len(i \o d) <= 2
  BY <1>1 DEF Answered
<1>4. PICK x, y \in Nat : x = Len(i) /\ y = Len(d)
  BY <1>2, LenProperties
<1>5. x + y <= 2
  BY <1>2, <1>3, <1>4
<1>6. x = 1
  BY <1>1, <1>4
<1>7. y <= 1
  BY ONLY <1>5, <1>6, y \in Nat
<1> QED BY <1>4, <1>7

-----------------------------------------------------------------------------
(* Steps                                                                   *)

\* A step leaves a cache alone.
Kept(c) ==
    /\ up'[c] = up[c] /\ down'[c] = down[c] /\ ends'[c] = ends[c]
    /\ c \in broken' <=> c \in broken
    /\ handler'[c] = handler[c]
    /\ phase'[c] = phase[c] /\ key'[c] = key[c] /\ semaphore'[c] = semaphore[c]
    /\ calls'[c] = calls[c] /\ written'[c] = written[c]
    /\ \A t \in Threads : Owner[t] = c => thread'[t] = thread[t]

\* What is true of the connection of c.
Linked(c) ==
    IF Gone(c) THEN Answered(c, phase[c], Me(c), down[c], written[c])
    ELSE Standing(c, phase[c], key[c], handler[c], Me(c), up[c], down[c], written[c],
                  calls[c])

LEMMA Frame ==
    ASSUME NEW c \in Clients, TypeInv, CacheInv(c), Kept(c)
    PROVE  CacheInv(c)'
<1>1. semaphore[c] \in Threads \cup {NoOne}
  BY DEF TypeInv
<1>2. Held(c)
  BY DEF CacheInv
<1>3. Me(c)' = Me(c)
  BY <1>1, <1>2 DEF Kept, Held, Me
<1>4. Held(c)'
  BY <1>2 DEF Kept, Held
<1>5. Gone(c)' <=> Gone(c)
  BY DEF Kept, Gone
<1> QED BY <1>3, <1>4, <1>5 DEF CacheInv, Kept

LEMMA StepInv ==
    ASSUME IInv, NEW c \in Clients, TypeInv', BacklogInv', CacheInv(c)',
           \A x \in Clients : x # c => Kept(x)
    PROVE  IInv'
<1>1. \A x \in Clients : x # c => CacheInv(x)'
  BY Frame DEF IInv
<1>2. \A x \in Clients : CacheInv(x)'
  BY <1>1
<1> QED BY <1>2 DEF IInv

LEMMA CacheParts ==
    ASSUME IInv, NEW c \in Clients
    PROVE  /\ Typed(c, phase[c], key[c], handler[c], Me(c), up[c], down[c], written[c],
                    calls[c])
           /\ Linked(c) /\ Held(c) /\ key[c] \in AllKeys
           /\ phase[c] \in {"new", "closed"} => "client" \notin ends[c] /\ Gone(c)
           /\ phase[c] = "new" => /\ handler[c].pc = "unstarted" 
                                  /\ up[c] = <<>> /\ down[c] = <<>>
           /\ phase[c] \in {"new", "connecting"} => written[c] = NewImage
           /\ Me(c) \in Calls /\ Calling(phase[c], Me(c)) /\ Serving(c, handler[c])
<1>1. TypeInv /\ CacheInv(c)
  BY DEF IInv
<1>2. ThreadIdle \in Calls
  <2>1. <<>> \in Seq(Units)
    OBVIOUS
  <2> QED BY <2>1 DEF ThreadIdle, Calls, Cmds
<1>3. Me(c) \in Calls
  BY <1>1, <1>2 DEF TypeInv, Me
<1>4. Typed(c, phase[c], key[c], handler[c], Me(c), up[c], down[c], written[c], calls[c])
  BY <1>1, <1>3 DEF TypeInv, CacheInv, Typed
<1>5. Linked(c)
  BY <1>1 DEF CacheInv, Linked
<1> QED BY <1>1, <1>3, <1>4, <1>5 DEF CacheInv, TypeInv, Gone

(* A step of the server thread h.                                          *)
LEMMA ServerStep ==
    ASSUME IInv, NEW h \in Clients,
           up' \in [Clients -> Seq(Units)], down' \in [Clients -> Seq(Units)],
           ends' \in [Clients -> SUBSET {"client", "server"}],
           handler' \in [Clients -> Handlers],
           \A x \in Clients : x # h =>
              /\ up'[x] = up[x] /\ down'[x] = down[x] /\ ends'[x] = ends[x]
              /\ handler'[x] = handler[x],
           broken' = broken, backlog' = backlog, slot' = slot, UNCHANGED client,
           "client" \in ends'[h] => "client" \in ends[h],
           handler[h].pc # "unstarted", Serving(h, handler'[h]),
           IF Gone(h)' THEN Answered(h, phase[h], Me(h), down'[h], written[h])
           ELSE Standing(h, phase[h], key[h], handler'[h], Me(h), up'[h], down'[h],
                         written[h], calls[h])
    PROVE  IInv'
<1>1. TypeInv /\ BacklogInv /\ CacheInv(h)
  BY DEF IInv
<1>2. TypeInv'
  BY <1>1 DEF TypeInv, client
<1>3. BacklogInv'
  <2>1. backlog \in Seq(Clients)
    BY <1>1 DEF TypeInv
  <2>2. ASSUME NEW i \in 1..Len(backlog)
        PROVE  handler'[backlog[i]].pc = "unstarted" /\ phase'[backlog[i]] # "new"
    <3>1. backlog[i] \in Clients
      BY <2>1, ElementOfSeq
    <3>2. handler[backlog[i]].pc = "unstarted" /\ phase[backlog[i]] # "new"
      BY <1>1, <2>2 DEF BacklogInv
    <3>3. backlog[i] # h
      BY <3>2
    <3> QED BY <3>1, <3>2, <3>3 DEF client
  <2> QED BY <1>1, <2>2 DEF BacklogInv
<1>4. \A x \in Clients : x # h => Kept(x)
  BY DEF Kept, client
<1>5. Me(h)' = Me(h) /\ (Held(h)' <=> Held(h))
  BY DEF Me, Held, client
<1>6. phase' = phase /\ key' = key /\ written' = written /\ calls' = calls
  BY DEF client
<1>7. phase[h] # "new"
  BY <1>1 DEF CacheInv
<1>8. CacheInv(h)'
  BY <1>1, <1>5, <1>6, <1>7 DEF CacheInv
<1> QED BY <1>2, <1>3, <1>4, <1>8, StepInv

-----------------------------------------------------------------------------
(* The steps of a server thread                                            *)

LEMMA Put ==
    ASSUME NEW D, NEW S, NEW f \in [D -> S], NEW x \in D, NEW y \in S,
           NEW g, g = [f EXCEPT ![x] = y]
    PROVE  g \in [D -> S] /\ g[x] = y /\ \A z \in D : z # x => g[z] = f[z]
OBVIOUS

(* A step of h that leaves the connection alone.                           *)
LEMMA StayStep ==
    ASSUME IInv, NEW h \in Clients, NEW g \in Handlers,
           handler' = [handler EXCEPT ![h] = g], UNCHANGED <<wires, backlog, slot, client>>,
           handler[h].pc # "unstarted", Serving(h, g),
           ~Gone(h) => Standing(h, phase[h], key[h], g, Me(h), up[h], down[h], written[h],
                                calls[h])
    PROVE  IInv'
<1>1. /\ handler \in [Clients -> Handlers] /\ up \in [Clients -> Seq(Units)]
      /\ down \in [Clients -> Seq(Units)] /\ ends \in [Clients -> SUBSET {"client", "server"}]
  BY DEF IInv, TypeInv
<1>2. /\ handler' \in [Clients -> Handlers] /\ handler'[h] = g
      /\ \A z \in Clients : z # h => handler'[z] = handler[z]
  BY <1>1, Put
<1>3. up' = up /\ down' = down /\ ends' = ends /\ broken' = broken /\ backlog' = backlog
      /\ slot' = slot /\ UNCHANGED client
  BY DEF wires
<1>4. Gone(h)' <=> Gone(h)
  BY <1>3 DEF Gone
<1>5. IF Gone(h)' THEN Answered(h, phase[h], Me(h), down'[h], written[h])
      ELSE Standing(h, phase[h], key[h], handler'[h], Me(h), up'[h], down'[h],
                    written[h], calls[h])
  BY <1>2, <1>3, <1>4, CacheParts DEF Linked
<1> QED BY <1>1, <1>2, <1>3, <1>5, ServerStep

(* A step of h that reads a unit.                                          *)
LEMMA TakeStep ==
    ASSUME IInv, NEW h \in Clients, NEW g \in Handlers,
           handler' = [handler EXCEPT ![h] = g], Take(h), handler[h].conn = h,
           handler[h].pc # "unstarted", Serving(h, g),
           ~Gone(h) => Standing(h, phase[h], key[h], g, Me(h), Tail(up[h]), down[h],
                                written[h], calls[h])
    PROVE  IInv'
<1>1. /\ handler \in [Clients -> Handlers] /\ up \in [Clients -> Seq(Units)]
      /\ down \in [Clients -> Seq(Units)] /\ ends \in [Clients -> SUBSET {"client", "server"}]
  BY DEF IInv, TypeInv
<1>2. /\ handler' \in [Clients -> Handlers] /\ handler'[h] = g
      /\ \A z \in Clients : z # h => handler'[z] = handler[z]
  BY <1>1, Put
<1>3. /\ down' = down /\ ends' = ends /\ broken' = broken /\ backlog' = backlog
      /\ slot' = slot /\ UNCHANGED client /\ up' = [up EXCEPT ![h] = Tail(up[h])]
      /\ up[h] # <<>>
  BY DEF Take
<1>4. Tail(up[h]) \in Seq(Units)
  BY <1>1, <1>3, HeadTailProperties
<1>5. /\ up' \in [Clients -> Seq(Units)] /\ up'[h] = Tail(up[h])
      /\ \A z \in Clients : z # h => up'[z] = up[z]
  BY <1>1, <1>3, <1>4, Put
<1>6. Gone(h)' <=> Gone(h)
  BY <1>3 DEF Gone
<1>7. IF Gone(h)' THEN Answered(h, phase[h], Me(h), down'[h], written[h])
      ELSE Standing(h, phase[h], key[h], handler'[h], Me(h), up'[h], down'[h],
                    written[h], calls[h])
  BY <1>2, <1>3, <1>5, <1>6, CacheParts DEF Linked
<1> QED BY <1>1, <1>2, <1>3, <1>5, <1>7, ServerStep

(* What is known of the server thread h and its connection.                *)
LEMMA ServerParts ==
    ASSUME IInv, NEW h \in Clients, handler[h].pc \notin {"unstarted", "created"}
    PROVE  /\ handler[h] \in Handlers /\ handler[h].conn = h
           /\ handler[h].out \in Seq(Units) /\ handler[h].in \in Seq(Units)
           /\ up[h] \in Seq(Units) /\ down[h] \in Seq(Units)
           /\ handler[h].pc \notin Replying => handler[h].out = <<>>
           /\ handler[h].pc \in {"args", "data"} /\ handler[h].command[2] # "o"
                 => handler[h].image \in Images
           /\ handler[h].pc = "data" => /\ handler[h].command[2] \in WriteCommands
                                        /\ handler[h].args \in Rectangles
<1>1. handler[h] \in Handlers /\ up[h] \in Seq(Units) /\ down[h] \in Seq(Units)
  BY DEF IInv, TypeInv
<1>2. Serving(h, handler[h])
  BY CacheParts
<1>3. handler[h].image \in Images \cup {NoImage} /\ handler[h].out \in Seq(Units)
      /\ handler[h].in \in Seq(Units)
  BY <1>1 DEF Handlers
<1> QED BY <1>1, <1>2, <1>3 DEF Serving

\* The threads of the server as they leave.
Left(me, g) ==
    /\ g \in Handlers /\ g.pc = "leaving" /\ g.image = me.image /\ g.conn = me.conn

LEMMA LeaveMakes ==
    ASSUME NEW me \in Handlers, NEW b \in BOOLEAN, NEW g,
           g = [me EXCEPT !.pc = "leaving", !.status = b, !.out = <<Status(b)>>, !.in = <<>>]
    PROVE  Left(me, g) /\ g.out = <<Status(b)>>
<1>1. /\ g.pc = "leaving" /\ g.out = <<Status(b)>> /\ g.image = me.image /\ g.conn = me.conn
  BY DEF Handlers
<1>2. Status(b) \in Units
  BY UnitKinds
<1>3. PICK o \in Seq(Units), i \in Seq(Units) : o = <<Status(b)>> /\ i = <<>>
  <2>1. PICK st \in Units : st = Status(b)
    BY <1>2
  <2>2. <<st>> \in Seq(Units) /\ <<>> \in Seq(Units)
    OBVIOUS
  <2> QED BY <2>1, <2>2
<1>4. g = [me EXCEPT !.pc = "leaving", !.status = b, !.out = o, !.in = i]
  BY <1>3
<1>5. g \in Handlers
  BY <1>4 DEF Handlers
<1> QED BY <1>1, <1>5 DEF Left

LEMMA LeftServes ==
    ASSUME NEW h, NEW me, me.conn = h, NEW g, Left(me, g)
    PROVE  Serving(h, g)
BY DEF Left, Serving, Replying

(* The loop is left with b.                                                *)
LEMMA LeaveStep ==
    ASSUME IInv, NEW h \in Clients, NEW b \in BOOLEAN, Leave(h, b),
           handler[h].pc \notin {"unstarted", "created"}
    PROVE  \E g \in Handlers :
              /\ handler' = [handler EXCEPT ![h] = g] /\ Serving(h, g)
              /\ g.pc = "leaving" /\ g.out = <<Status(b)>>
<1>1. handler[h] \in Handlers /\ handler[h].conn = h
  BY ServerParts
<1>2. PICK g : g = [handler[h] EXCEPT !.pc = "leaving", !.status = b, !.out = <<Status(b)>>,
                                      !.in = <<>>]
  OBVIOUS
<1>3. Left(handler[h], g) /\ g.out = <<Status(b)>>
  BY <1>1, <1>2, LeaveMakes
<1>4. handler' = [handler EXCEPT ![h] = g]
  BY <1>2 DEF Leave
<1>5. Serving(h, g)
  BY <1>1, <1>3, LeftServes
<1> QED BY <1>3, <1>4, <1>5 DEF Left

LEMMA ServerSendStep ==
    ASSUME IInv, NEW h \in Clients, ServerSend(h)
    PROVE  IInv'
<1>1. PICK me \in Handlers : me = handler[h]
  BY DEF IInv, TypeInv
<1>2. me.pc \in Replying /\ me.out # <<>> /\ me.pc \notin {"unstarted", "created"}
  BY <1>1 DEF ServerSend, Replying
<1>3. me.conn = h /\ me.out \in Seq(Units) /\ down[h] \in Seq(Units)
  BY <1>1, <1>2, ServerParts
<1>4. Head(me.out) \in Units /\ Tail(me.out) \in Seq(Units)
  BY <1>2, <1>3, HeadTailProperties
<1>5. PICK g : g = [me EXCEPT !.out = Tail(me.out)]
  OBVIOUS
<1>6. g \in Handlers
  BY <1>4, <1>5 DEF Handlers
<1>7. /\ g.pc = me.pc /\ g.image = me.image /\ g.in = me.in /\ g.status = me.status
      /\ g.out = Tail(me.out) /\ g.conn = me.conn
  BY <1>5 DEF Handlers
<1>8. handler' = [handler EXCEPT ![h] = g]
  BY <1>1, <1>5 DEF ServerSend
<1>9. Serving(h, g)
  BY <1>2, <1>3, <1>7 DEF Serving, Replying
<1>10. /\ up' = up /\ ends' = ends /\ broken' = broken /\ backlog' = backlog /\ slot' = slot
       /\ UNCHANGED client
  BY DEF ServerSend
<1>11. CASE Gone(h)
  <2>1. down' = down
    BY <1>1, <1>3, <1>11 DEF ServerSend
  <2> QED BY <1>1, <1>2, <1>6, <1>8, <1>9, <1>10, <1>11, <2>1, StayStep DEF wires
<1>12. CASE ~Gone(h)
  <2>1. PICK d \in Seq(Units) : d = Append(down[h], Head(me.out))
    BY <1>3, <1>4, AppendProperties
  <2>2. down' = [down EXCEPT ![h] = d]
    BY <1>1, <1>3, <1>12, <2>1 DEF ServerSend
  <2>3. /\ handler \in [Clients -> Handlers] /\ up \in [Clients -> Seq(Units)]
        /\ down \in [Clients -> Seq(Units)] /\ ends \in [Clients -> SUBSET {"client", "server"}]
    BY DEF IInv, TypeInv
  <2>4. /\ handler' \in [Clients -> Handlers] /\ handler'[h] = g
        /\ \A z \in Clients : z # h => handler'[z] = handler[z]
    BY <1>6, <1>8, <2>3, Put
  <2>5. /\ down' \in [Clients -> Seq(Units)] /\ down'[h] = d
        /\ \A z \in Clients : z # h => down'[z] = down[z]
    BY <2>2, <2>3, Put
  <2>6. ~Gone(h)'
    BY <1>10, <1>12 DEF Gone
  <2>7. /\ Standing(h, phase[h], key[h], me, Me(h), up[h], down[h], written[h], calls[h])
        /\ Typed(h, phase[h], key[h], me, Me(h), up[h], down[h], written[h], calls[h])
    BY <1>1, <1>12, CacheParts DEF Linked
  <2>8. Standing(h, phase[h], key[h], g, Me(h), up[h], d, written[h], calls[h])
    BY <1>2, <1>7, <2>1, <2>7, StandingSend
  <2>9. Standing(h, phase[h], key[h], handler'[h], Me(h), up'[h], down'[h],
                 written[h], calls[h])
    BY <1>10, <2>4, <2>5, <2>8
  <2> QED BY <1>1, <1>2, <1>9, <1>10, <2>3, <2>4, <2>5, <2>6, <2>9, ServerStep
<1> QED BY <1>11, <1>12

LEMMA TurnMakes ==
    ASSUME NEW me \in Handlers, NEW g,
           g = [me EXCEPT !.pc = "command", !.status = TRUE, !.in = <<>>]
    PROVE  /\ g \in Handlers /\ g.pc = "command" /\ g.image = me.image /\ g.out = me.out
           /\ g.conn = me.conn /\ g.in = <<>>
<1>1. /\ g.pc = "command" /\ g.image = me.image /\ g.out = me.out /\ g.conn = me.conn
      /\ g.in = <<>>
  BY DEF Handlers
<1>2. PICK i \in Seq(Units) : i = <<>>
  <2>1. <<>> \in Seq(Units)
    OBVIOUS
  <2> QED BY <2>1
<1>3. g = [me EXCEPT !.pc = "command", !.status = TRUE, !.in = i]
  BY <1>2
<1>4. g \in Handlers
  BY <1>3 DEF Handlers
<1> QED BY <1>1, <1>4

LEMMA CommandServes ==
    ASSUME NEW h, NEW g, g.pc \in {"command", "done"}, g.conn = h, g.out = <<>>
    PROVE  Serving(h, g)
BY DEF Serving, Replying

LEMMA ServerSentStep ==
    ASSUME IInv, NEW h \in Clients, ServerSent(h)
    PROVE  IInv'
<1>1. PICK me \in Handlers : me = handler[h]
  BY DEF IInv, TypeInv
<1>2. me.pc \in {"greeting", "status", "reply"} /\ me.out = <<>>
      /\ UNCHANGED <<wires, backlog, slot, client>>
  BY <1>1 DEF ServerSent, Replying
<1>3. me.pc \notin {"unstarted", "created"} /\ me.conn = h
  BY <1>1, <1>2, ServerParts
<1>4. ~Gone(h) =>
        /\ Standing(h, phase[h], key[h], me, Me(h), up[h], down[h], written[h], calls[h])
        /\ Typed(h, phase[h], key[h], me, Me(h), up[h], down[h], written[h], calls[h])
  BY <1>1, CacheParts DEF Linked
<1>5. CASE me.pc = "greeting"
  <2>1. PICK g : g = [me EXCEPT !.pc = "command"]
    OBVIOUS
  <2>2. /\ g \in Handlers /\ g.pc = "command" /\ g.image = me.image /\ g.out = me.out
        /\ g.conn = me.conn /\ g.in = me.in /\ g.status = me.status
    BY <2>1 DEF Handlers
  <2>3. handler' = [handler EXCEPT ![h] = g]
    BY <1>1, <1>5, <2>1 DEF ServerSent
  <2>4. Serving(h, g)
    BY <1>2, <1>3, <2>2, CommandServes
  <2>5. ~Gone(h) => Standing(h, phase[h], key[h], g, Me(h), up[h], down[h], written[h],
                             calls[h])
    BY <1>2, <1>4, <1>5, <2>2, StandingSent
  <2> QED BY <1>1, <1>2, <1>3, <2>2, <2>3, <2>4, <2>5, StayStep
<1>6. CASE me.pc = "reply" \/ (me.pc = "status" /\ me.status)
  <2>1. PICK g : g = [me EXCEPT !.pc = "command", !.status = TRUE, !.in = <<>>]
    OBVIOUS
  <2>2. /\ g \in Handlers /\ g.pc = "command" /\ g.image = me.image /\ g.out = me.out
        /\ g.conn = me.conn /\ g.in = <<>>
    BY <2>1, TurnMakes
  <2>3. Turn(h, TRUE)
    BY <1>1, <1>6 DEF ServerSent, Turn
  <2>7. handler' = [handler EXCEPT ![h] = g]
    BY <1>1, <2>1, <2>3 DEF Turn
  <2>4. Serving(h, g)
    BY <1>2, <1>3, <2>2, CommandServes
  <2>5. ~Gone(h) => Standing(h, phase[h], key[h], g, Me(h), up[h], down[h], written[h],
                             calls[h])
    BY <1>2, <1>4, <1>6, <2>2, StandingSent
  <2> QED BY <1>1, <1>2, <1>3, <2>2, <2>7, <2>4, <2>5, StayStep
<1>7. CASE me.pc = "status" /\ ~me.status
  <2>1. Leave(h, FALSE)
    BY <1>1, <1>7 DEF ServerSent, Turn
  <2>2. PICK g \in Handlers : /\ handler' = [handler EXCEPT ![h] = g] /\ Serving(h, g)
                              /\ g.pc = "leaving" /\ g.out = <<Status(FALSE)>>
    BY <1>1, <1>3, <2>1, LeaveStep
  <2>3. g.out = <<False>>
    BY <2>2, ResultType
  <2>5. ~Gone(h) => Standing(h, phase[h], key[h], g, Me(h), up[h], down[h], written[h],
                             calls[h])
    BY <1>2, <1>4, <1>7, <2>2, <2>3, StandingFailed
  <2> QED BY <1>1, <1>2, <1>3, <2>2, <2>5, StayStep
<1> QED BY <1>2, <1>5, <1>6, <1>7

LEMMA ServerSendFailsStep ==
    ASSUME IInv, NEW h \in Clients, ServerSendFails(h)
    PROVE  IInv'
<1>1. PICK me \in Handlers : me = handler[h]
  BY DEF IInv, TypeInv
<1>2. me.pc \in Replying /\ me.pc \notin {"unstarted", "created"}
      /\ UNCHANGED <<wires, backlog, slot, client>>
  BY <1>1 DEF ServerSendFails, Replying
<1>3. me.conn = h
  BY <1>1, <1>2, ServerParts
<1>4. Gone(h)
  BY <1>1, <1>3 DEF ServerSendFails
<1>5. CASE me.pc = "reply"
  <2>1. Leave(h, FALSE)
    BY <1>1, <1>5 DEF ServerSendFails
  <2>2. PICK g \in Handlers : handler' = [handler EXCEPT ![h] = g] /\ Serving(h, g)
    BY <1>1, <1>2, <2>1, LeaveStep
  <2> QED BY <1>1, <1>2, <1>4, <2>2, StayStep
<1>6. CASE me.pc # "reply"
  <2>5. PICK o \in Seq(Units) : o = <<>>
    <3>1. <<>> \in Seq(Units)
      OBVIOUS
    <3> QED BY <3>1
  <2>1. PICK g : g = [me EXCEPT !.out = o]
    OBVIOUS
  <2>2. g \in Handlers /\ g.pc = me.pc /\ g.conn = me.conn /\ g.out = o
    BY <2>1 DEF Handlers
  <2>3. handler' = [handler EXCEPT ![h] = g]
    BY <1>1, <1>6, <2>1, <2>5 DEF ServerSendFails
  <2>4. Serving(h, g)
    BY <1>2, <1>3, <2>2, <2>5 DEF Serving, Replying
  <2> QED BY <1>1, <1>2, <1>4, <2>2, <2>3, <2>4, StayStep
<1> QED BY <1>5, <1>6

LEMMA CloseStep ==
    ASSUME IInv, NEW h \in Clients, Close(h)
    PROVE  IInv'
<1>1. PICK me \in Handlers : me = handler[h]
  BY DEF IInv, TypeInv
<1>2. me.pc = "leaving" /\ me.out = <<>>
  BY <1>1 DEF Close
<1>3. me.conn = h
  BY <1>1, <1>2, ServerParts
<1>4. PICK g : g = [me EXCEPT !.pc = "done", !.image = NoImage]
  OBVIOUS
<1>5. g \in Handlers /\ g.pc = "done" /\ g.conn = me.conn /\ g.out = me.out
  BY <1>4 DEF Handlers
<1>6. /\ handler \in [Clients -> Handlers] /\ up \in [Clients -> Seq(Units)]
      /\ down \in [Clients -> Seq(Units)] /\ ends \in [Clients -> SUBSET {"client", "server"}]
  BY DEF IInv, TypeInv
<1>7. /\ handler' = [handler EXCEPT ![h] = g] /\ up' = [up EXCEPT ![h] = <<>>]
      /\ ends' = [ends EXCEPT ![h] = ends[h] \ {"server"}]
      /\ down' = down /\ broken' = broken /\ backlog' = backlog /\ slot' = slot
      /\ UNCHANGED client
  BY <1>1, <1>3, <1>4 DEF Close
<1>8. /\ handler' \in [Clients -> Handlers] /\ handler'[h] = g
      /\ \A z \in Clients : z # h => handler'[z] = handler[z]
  BY <1>5, <1>6, <1>7, Put
<1>9. /\ up' \in [Clients -> Seq(Units)]
      /\ \A z \in Clients : z # h => up'[z] = up[z]
  <2>1. <<>> \in Seq(Units)
    OBVIOUS
  <2> QED BY <1>6, <1>7, <2>1, Put
<1>10. /\ ends' \in [Clients -> SUBSET {"client", "server"}]
       /\ ends'[h] = ends[h] \ {"server"}
       /\ \A z \in Clients : z # h => ends'[z] = ends[z]
  <2>1. ends[h] \ {"server"} \in SUBSET {"client", "server"}
    BY <1>6
  <2> QED BY <1>6, <1>7, <2>1, Put
<1>11. Serving(h, g)
  BY <1>2, <1>3, <1>5, CommandServes
<1>12. Gone(h)'
  BY <1>10 DEF Gone
<1>13. Answered(h, phase[h], Me(h), down[h], written[h])
  BY CacheParts, StandingAnswered DEF Linked
<1>14. "client" \in ends'[h] => "client" \in ends[h]
  BY <1>10
<1> QED BY <1>1, <1>2, <1>6, <1>7, <1>8, <1>9, <1>10, <1>11, <1>12, <1>13, <1>14, ServerStep

LEMMA ReadCommandStep ==
    ASSUME IInv, NEW h \in Clients, ReadCommand(h)
    PROVE  IInv'
<1>1. PICK me \in Handlers : me = handler[h]
  BY DEF IInv, TypeInv
<1>2. me.pc = "command" /\ Take(h)
  BY <1>1 DEF ReadCommand
<1>3. me.conn = h /\ me.out = <<>>
  BY <1>1, <1>2, ServerParts DEF Replying
<1>4. PICK u \in Seq(Units) : u = up[h] /\ u # <<>>
  BY <1>1, <1>2, <1>3, ServerParts DEF Take
<1>5. Head(u) \in Units
  BY <1>4, HeadTailProperties
<1>6. PICK g : g = [me EXCEPT !.pc = "key", !.command = Head(u)]
  OBVIOUS
<1>7. /\ g \in Handlers /\ g.pc = "key" /\ g.command = Head(u) /\ g.image = me.image
      /\ g.in = me.in /\ g.out = me.out /\ g.conn = me.conn
  BY <1>5, <1>6 DEF Handlers
<1>8. handler' = [handler EXCEPT ![h] = g]
  BY <1>1, <1>3, <1>4, <1>6 DEF ReadCommand
<1>9. Serving(h, g)
  BY <1>3, <1>7 DEF Serving, Replying
<1>10. ~Gone(h) =>
        /\ Standing(h, phase[h], key[h], me, Me(h), u, down[h], written[h], calls[h])
        /\ Typed(h, phase[h], key[h], me, Me(h), u, down[h], written[h], calls[h])
  BY <1>1, <1>4, CacheParts DEF Linked
<1>11. ~Gone(h) => Standing(h, phase[h], key[h], g, Me(h), Tail(u), down[h], written[h],
                            calls[h])
  BY <1>2, <1>4, <1>7, <1>10, StandingCommand
<1> QED BY <1>1, <1>2, <1>3, <1>4, <1>7, <1>8, <1>9, <1>11, TakeStep

LEMMA ReadKeyStep ==
    ASSUME IInv, NEW h \in Clients, ReadKey(h)
    PROVE  IInv'
<1>1. PICK me \in Handlers : me = handler[h]
  BY DEF IInv, TypeInv
<1>2. me.pc = "key" /\ Take(h) /\ me.status \in BOOLEAN
  BY <1>1 DEF ReadKey, Handlers
<1>3. me.conn = h /\ me.out = <<>> /\ me.pc \notin {"unstarted", "created"}
  BY <1>1, <1>2, ServerParts DEF Replying
<1>4. PICK u \in Seq(Units) : u = up[h] /\ u # <<>>
  BY <1>1, <1>2, <1>3, ServerParts DEF Take
<1>5. ~Gone(h) =>
        /\ Standing(h, phase[h], key[h], me, Me(h), u, down[h], written[h], calls[h])
        /\ Typed(h, phase[h], key[h], me, Me(h), u, down[h], written[h], calls[h])
  BY <1>1, <1>4, CacheParts DEF Linked
<1>6. ASSUME NEW b \in BOOLEAN, Leave(h, b),
             Head(u) # <<"key", Nonce(h)>> \/ me.command[2] = "d"
             \/ (me.command[2] # "o" /\ me.image = NoImage)
      PROVE  IInv'
  <2>1. PICK g \in Handlers : /\ handler' = [handler EXCEPT ![h] = g] /\ Serving(h, g)
                              /\ g.pc = "leaving" /\ g.out = <<Status(b)>>
    BY <1>1, <1>3, <1>6, LeaveStep
  <2>2. \E x \in BOOLEAN : g.out = <<Status(x)>>
    BY <2>1
  <2>3. ~Gone(h) => Standing(h, phase[h], key[h], g, Me(h), Tail(u), down[h], written[h],
                             calls[h])
    BY <1>2, <1>4, <1>5, <1>6, <2>1, <2>2, StandingKey
  <2> QED BY <1>1, <1>2, <1>3, <1>4, <2>1, <2>3, TakeStep
<1>7. ASSUME Head(u) = <<"key", Nonce(h)>>, me.command[2] # "d",
             me.command[2] # "o" => me.image # NoImage,
             handler' = [handler EXCEPT ![h].pc = "args"]
      PROVE  IInv'
  <2>1. PICK g : g = [me EXCEPT !.pc = "args"]
    OBVIOUS
  <2>2. /\ g \in Handlers /\ g.pc = "args" /\ g.command = me.command /\ g.image = me.image
        /\ g.in = me.in /\ g.out = me.out /\ g.conn = me.conn
    BY <2>1 DEF Handlers
  <2>3. handler' = [handler EXCEPT ![h] = g]
    BY <1>1, <1>7, <2>1
  <2>4. Serving(h, g)
    BY <1>3, <1>7, <2>2 DEF Serving, Replying
  <2>5. ~Gone(h) => Standing(h, phase[h], key[h], g, Me(h), Tail(u), down[h], written[h],
                             calls[h])
    BY <1>2, <1>4, <1>5, <1>7, <2>2, StandingKey
  <2> QED BY <1>1, <1>2, <1>3, <1>4, <2>2, <2>3, <2>4, <2>5, TakeStep
<1>8. \/ Head(u) # <<"key", Nonce(h)>> /\ Leave(h, me.status)
      \/ /\ Head(u) = <<"key", Nonce(h)>> /\ me.command[2] # "o"
         /\ me.command[2] # "d" => me.image = NoImage
         /\ Leave(h, me.command[2] = "d" /\ me.image # NoImage)
      \/ /\ Head(u) = <<"key", Nonce(h)>> /\ me.command[2] # "d"
         /\ me.command[2] # "o" => me.image # NoImage
         /\ handler' = [handler EXCEPT ![h].pc = "args"]
  BY <1>1, <1>3, <1>4 DEF ReadKey
<1>9. (me.command[2] = "d" /\ me.image # NoImage) \in BOOLEAN
  OBVIOUS
<1> QED BY <1>2, <1>6, <1>7, <1>8, <1>9

(* The server thread h is about to read a unit.                            *)
LEMMA TakeParts ==
    ASSUME IInv, NEW h \in Clients, handler[h].pc \in {"command", "key", "args", "data"},
           Take(h)
    PROVE  /\ handler[h].conn = h /\ handler[h].out = <<>>
           /\ up[h] \in Seq(Units) /\ up[h] # <<>> /\ Head(up[h]) \in Units
           /\ ~Gone(h) =>
                /\ Standing(h, phase[h], key[h], handler[h], Me(h), up[h], down[h],
                            written[h], calls[h])
                /\ Typed(h, phase[h], key[h], handler[h], Me(h), up[h], down[h],
                         written[h], calls[h])
<1>1. handler[h].conn = h /\ handler[h].out = <<>> /\ up[h] \in Seq(Units)
  BY ServerParts DEF Replying
<1>2. up[h] # <<>>
  BY <1>1 DEF Take
<1>3. Head(up[h]) \in Units
  BY <1>1, <1>2, HeadTailProperties
<1> QED BY <1>1, <1>2, <1>3, CacheParts DEF Linked

(* The request cannot be met.                                              *)
LEMMA GiveUpStep ==
    ASSUME IInv, NEW h \in Clients, handler[h].pc = "args", Take(h), Turn(h, FALSE),
           handler[h].command[2] \in ReadCommands \cup WriteCommands
    PROVE  IInv'
<1>1. PICK me \in Handlers : me = handler[h]
  BY DEF IInv, TypeInv
<1>2. PICK u \in Seq(Units) : u = up[h] /\ u # <<>>
  BY TakeParts
<1>3. Leave(h, FALSE)
  BY DEF Turn
<1>4. PICK g \in Handlers : /\ handler' = [handler EXCEPT ![h] = g] /\ Serving(h, g)
                            /\ g.pc = "leaving" /\ g.out = <<Status(FALSE)>>
  BY <1>3, LeaveStep
<1>5. g.out = <<False>>
  BY <1>4, ResultType
<1>6. ~Gone(h) =>
        /\ Standing(h, phase[h], key[h], me, Me(h), u, down[h], written[h], calls[h])
        /\ Typed(h, phase[h], key[h], me, Me(h), u, down[h], written[h], calls[h])
  BY <1>1, <1>2, TakeParts
<1>7. ~Gone(h) => Standing(h, phase[h], key[h], g, Me(h), Tail(u), down[h], written[h],
                           calls[h])
  <2>1. CASE me.command[2] \in ReadCommands
    BY <1>1, <1>2, <1>4, <1>5, <1>6, <2>1, StandingRead
  <2>2. CASE me.command[2] \in WriteCommands
    BY <1>1, <1>2, <1>4, <1>5, <1>6, <2>2, StandingWrite
  <2> QED BY <1>1, <2>1, <2>2
<1>8. handler[h].conn = h
  BY TakeParts
<1> QED BY <1>2, <1>4, <1>7, <1>8, TakeStep

LEMMA OpenStep ==
    ASSUME IInv, NEW h \in Clients, Open(h)
    PROVE  IInv'
<1>1. PICK me \in Handlers : me = handler[h]
  BY DEF IInv, TypeInv
<1>2. me.pc = "args" /\ me.command[2] = "o" /\ Take(h)
  BY <1>1 DEF Open
<1>3. PICK u \in Seq(Units) : u = up[h] /\ u # <<>>
  BY <1>1, <1>2, TakeParts
<1>4. me.conn = h /\ me.out = <<>>
  BY <1>1, <1>2, TakeParts
<1>5. ~Gone(h) =>
        /\ Standing(h, phase[h], key[h], me, Me(h), u, down[h], written[h], calls[h])
        /\ Typed(h, phase[h], key[h], me, Me(h), u, down[h], written[h], calls[h])
  BY <1>1, <1>2, <1>3, TakeParts
<1>6. PICK ok \in BOOLEAN :
        handler' = [handler EXCEPT ![h] =
           [handler[h] EXCEPT !.pc = "status", !.status = ok, !.out = <<Status(ok)>>,
                              !.image = IF ok THEN NewImage ELSE handler[h].image]]
  BY DEF Open
<1>7. PICK o \in Seq(Units) : o = <<Status(ok)>>
  <2>1. PICK st \in Units : st = Status(ok)
    BY UnitKinds
  <2>2. <<st>> \in Seq(Units)
    OBVIOUS
  <2> QED BY <2>1, <2>2
<1>8. PICK i \in Images \cup {NoImage} : i = IF ok THEN NewImage ELSE me.image
  <2>1. NewImage \in Images /\ me.image \in Images \cup {NoImage}
    BY PaintedType DEF NewImage, Handlers
  <2> QED BY <2>1
<1>9. PICK g : g = [me EXCEPT !.pc = "status", !.status = ok, !.out = o, !.image = i]
  OBVIOUS
<1>10. /\ g \in Handlers /\ g.pc = "status" /\ g.status = ok /\ g.out = o /\ g.image = i
       /\ g.in = me.in /\ g.conn = me.conn
  BY <1>9 DEF Handlers
<1>11. handler' = [handler EXCEPT ![h] = g]
  BY <1>1, <1>6, <1>7, <1>8, <1>9
<1>12. Serving(h, g)
  BY <1>4, <1>10 DEF Serving, Replying
<1>13. ~Gone(h) => Standing(h, phase[h], key[h], g, Me(h), Tail(u), down[h], written[h],
                            calls[h])
  <2>1. CASE ok
    <3>1. g.status /\ g.image = NewImage /\ g.out = <<Status(TRUE)>>
      BY <1>7, <1>8, <1>10, <2>1
    <3> QED BY <1>2, <1>3, <1>5, <1>10, <3>1, StandingOpen
  <2>2. CASE ~ok
    <3>1. ~g.status /\ g.out = <<False>>
      BY <1>7, <1>10, <2>2, ResultType
    <3> QED BY <1>2, <1>3, <1>5, <1>10, <3>1, StandingOpen
  <2> QED BY <2>1, <2>2
<1> QED BY <1>1, <1>2, <1>3, <1>4, <1>10, <1>11, <1>12, <1>13, TakeStep

LEMMA ReadRegionStep ==
    ASSUME IInv, NEW h \in Clients, ReadRegion(h)
    PROVE  IInv'
<1>1. PICK me \in Handlers : me = handler[h]
  BY DEF IInv, TypeInv
<1>2. me.pc = "args" /\ me.command[2] \in ReadCommands /\ Take(h)
  BY <1>1 DEF ReadRegion
<1>3. PICK u \in Seq(Units) : u = up[h] /\ u # <<>> /\ Head(u) \in Units
  BY <1>1, <1>2, TakeParts
<1>4. me.conn = h /\ me.out = <<>>
  BY <1>1, <1>2, TakeParts
<1>5. ~Gone(h) =>
        /\ Standing(h, phase[h], key[h], me, Me(h), u, down[h], written[h], calls[h])
        /\ Typed(h, phase[h], key[h], me, Me(h), u, down[h], written[h], calls[h])
  BY <1>1, <1>2, <1>3, TakeParts
<1>6. \/ Turn(h, FALSE)
      \/ /\ IsRegion(Head(u))
         /\ handler' = [handler EXCEPT ![h] =
               [me EXCEPT !.pc = "reply",
                          !.out = Content(me.image, Plane(me.command[2]),
                                          Head(u)[2].first, Head(u)[2].last)]]
  BY <1>1, <1>3, <1>4 DEF ReadRegion
<1>7. CASE Turn(h, FALSE)
  BY <1>1, <1>2, <1>7, GiveUpStep
<1>8. ASSUME IsRegion(Head(u)),
             handler' = [handler EXCEPT ![h] =
               [me EXCEPT !.pc = "reply",
                          !.out = Content(me.image, Plane(me.command[2]),
                                          Head(u)[2].first, Head(u)[2].last)]]
      PROVE  IInv'
  <2>1. PICK args \in Rectangles : args = Head(u)[2]
    BY <1>3, <1>8, RegionUnit
  <2>2. args.first \in 1..Rows /\ args.last \in 1..Rows /\ args.first <= args.last
    BY Geometry
  <2>3. me.image \in Images
    <3>1. me.command[2] # "o"
      BY <1>2 DEF ReadCommands
    <3> QED BY <1>1, <1>2, <3>1, ServerParts
  <2>4. PICK o \in Seq(Units) : o = Content(me.image, Plane(me.command[2]),
                                            Head(u)[2].first, Head(u)[2].last)
    BY <2>1, <2>2, <2>3, PlaneType, ContentType
  <2>5. PICK g : g = [me EXCEPT !.pc = "reply", !.out = o]
    OBVIOUS
  <2>6. /\ g \in Handlers /\ g.pc = "reply" /\ g.out = o /\ g.image = me.image
        /\ g.in = me.in /\ g.conn = me.conn
    BY <2>5 DEF Handlers
  <2>7. handler' = [handler EXCEPT ![h] = g]
    BY <1>8, <2>4, <2>5
  <2>8. Serving(h, g)
    BY <1>4, <2>6 DEF Serving, Replying
  <2>9. ~Gone(h) => Standing(h, phase[h], key[h], g, Me(h), Tail(u), down[h], written[h],
                             calls[h])
    BY <1>2, <1>3, <1>5, <2>4, <2>6, StandingRead
  <2> QED BY <1>1, <1>2, <1>3, <1>4, <2>6, <2>7, <2>8, <2>9, TakeStep
<1> QED BY <1>6, <1>7, <1>8

LEMMA WriteRegionStep ==
    ASSUME IInv, NEW h \in Clients, WriteRegion(h)
    PROVE  IInv'
<1>1. PICK me \in Handlers : me = handler[h]
  BY DEF IInv, TypeInv
<1>2. me.pc = "args" /\ me.command[2] \in WriteCommands /\ Take(h)
  BY <1>1 DEF WriteRegion
<1>3. PICK u \in Seq(Units) : u = up[h] /\ u # <<>> /\ Head(u) \in Units
  BY <1>1, <1>2, TakeParts
<1>4. me.conn = h /\ me.out = <<>>
  BY <1>1, <1>2, TakeParts
<1>5. ~Gone(h) =>
        /\ Standing(h, phase[h], key[h], me, Me(h), u, down[h], written[h], calls[h])
        /\ Typed(h, phase[h], key[h], me, Me(h), u, down[h], written[h], calls[h])
  BY <1>1, <1>2, <1>3, TakeParts
<1>6. \/ Turn(h, FALSE)
      \/ /\ IsRegion(Head(u))
         /\ handler' = [handler EXCEPT ![h] = [me EXCEPT !.pc = "data", !.args = Head(u)[2]]]
  BY <1>1, <1>3, <1>4 DEF WriteRegion
<1>7. CASE Turn(h, FALSE)
  BY <1>1, <1>2, <1>7, GiveUpStep
<1>8. ASSUME IsRegion(Head(u)),
             handler' = [handler EXCEPT ![h] = [me EXCEPT !.pc = "data", !.args = Head(u)[2]]]
      PROVE  IInv'
  <2>1. PICK args \in Rectangles : args = Head(u)[2]
    BY <1>3, <1>8, RegionUnit
  <2>3. me.image \in Images
    <3>1. me.command[2] # "o"
      BY <1>2 DEF WriteCommands
    <3> QED BY <1>1, <1>2, <3>1, ServerParts
  <2>5. PICK g : g = [me EXCEPT !.pc = "data", !.args = args]
    OBVIOUS
  <2>6. /\ g \in Handlers /\ g.pc = "data" /\ g.args = args /\ g.image = me.image
        /\ g.command = me.command /\ g.out = me.out /\ g.in = me.in /\ g.conn = me.conn
    BY <2>5 DEF Handlers
  <2>7. handler' = [handler EXCEPT ![h] = g]
    BY <1>8, <2>1, <2>5
  <2>8. Serving(h, g)
    BY <1>2, <1>4, <2>3, <2>6, ImageNotNone DEF Serving, Replying
  <2>9. ~Gone(h) => Standing(h, phase[h], key[h], g, Me(h), Tail(u), down[h], written[h],
                             calls[h])
    BY <1>2, <1>3, <1>5, <2>1, <2>6, StandingWrite
  <2> QED BY <1>1, <1>2, <1>3, <1>4, <2>6, <2>7, <2>8, <2>9, TakeStep
<1> QED BY <1>6, <1>7, <1>8

LEMMA ReadDataStep ==
    ASSUME IInv, NEW h \in Clients, ReadData(h)
    PROVE  IInv'
<1>1. PICK me \in Handlers : me = handler[h]
  BY DEF IInv, TypeInv
<1>2. me.pc = "data" /\ Take(h)
  BY <1>1 DEF ReadData
<1>3. PICK u \in Seq(Units) : u = up[h] /\ u # <<>> /\ Head(u) \in Units
  BY <1>1, <1>2, TakeParts
<1>4. me.conn = h /\ me.out = <<>> /\ me.in \in Seq(Units)
  BY <1>1, <1>2, TakeParts DEF Handlers
<1>5. ~Gone(h) =>
        /\ Standing(h, phase[h], key[h], me, Me(h), u, down[h], written[h], calls[h])
        /\ Typed(h, phase[h], key[h], me, Me(h), u, down[h], written[h], calls[h])
  BY <1>1, <1>2, <1>3, TakeParts
<1>6. /\ me.command[2] \in WriteCommands /\ me.args \in Rectangles
      /\ me.image \in Images
  <2>1. me.command[2] \in WriteCommands /\ me.args \in Rectangles
    BY <1>1, <1>2, ServerParts
  <2>2. me.command[2] # "o"
    BY <2>1 DEF WriteCommands
  <2> QED BY <1>1, <1>2, <2>1, <2>2, ServerParts
<1>7. Len(me.in) # Count(me.args.first, me.args.last)
  <2>1. PICK x \in Nat, y \in Nat : x = Len(me.in) /\ y = Count(me.args.first, me.args.last)
    BY <1>4, <1>6, Geometry, LenProperties
  <2>2. y - x > 0
    BY <1>1, <2>1 DEF ReadData, Missing
  <2>3. y # x
    BY ONLY <2>2, x \in Nat, y \in Nat
  <2> QED BY <2>1, <2>3
<1>8. PICK i \in Seq(Units) : i = Append(me.in, Head(u))
  BY <1>3, <1>4, AppendProperties
<1>9. PICK g : g = [me EXCEPT !.in = i]
  OBVIOUS
<1>10. /\ g \in Handlers /\ g.pc = "data" /\ g.args = me.args /\ g.image = me.image
       /\ g.command = me.command /\ g.out = me.out /\ g.in = i /\ g.conn = me.conn
  BY <1>2, <1>9 DEF Handlers
<1>11. handler' = [handler EXCEPT ![h] = g]
  BY <1>1, <1>3, <1>4, <1>8, <1>9 DEF ReadData
<1>12. Serving(h, g)
  BY <1>4, <1>6, <1>10, ImageNotNone DEF Serving, Replying
<1>13. ~Gone(h) => Standing(h, phase[h], key[h], g, Me(h), Tail(u), down[h], written[h],
                            calls[h])
  BY <1>2, <1>3, <1>5, <1>7, <1>8, <1>10, StandingData
<1> QED BY <1>1, <1>2, <1>3, <1>4, <1>10, <1>11, <1>12, <1>13, TakeStep

LEMMA SyncRegionStep ==
    ASSUME IInv, NEW h \in Clients, SyncRegion(h)
    PROVE  IInv'
<1>1. PICK me \in Handlers : me = handler[h]
  BY DEF IInv, TypeInv
<1>2. me.pc = "data" /\ UNCHANGED <<wires, backlog, slot, client>>
  BY <1>1 DEF SyncRegion
<1>3. me.conn = h /\ me.out = <<>> /\ me.in \in Seq(Units)
  BY <1>1, <1>2, ServerParts DEF Replying
<1>4. /\ me.command[2] \in WriteCommands /\ me.args \in Rectangles
      /\ me.image \in Images
  <2>1. me.command[2] \in WriteCommands /\ me.args \in Rectangles
    BY <1>1, <1>2, ServerParts
  <2>2. me.command[2] # "o"
    BY <2>1 DEF WriteCommands
  <2> QED BY <1>1, <1>2, <2>1, <2>2, ServerParts
<1>5. Len(me.in) = Count(me.args.first, me.args.last)
  <2>1. PICK x \in Nat, y \in Nat : x = Len(me.in) /\ y = Count(me.args.first, me.args.last)
    BY <1>3, <1>4, Geometry, LenProperties
  <2>2. y - x = 0
    BY <1>1, <2>1 DEF SyncRegion, Missing
  <2>3. y = x
    BY ONLY <2>2, x \in Nat, y \in Nat
  <2> QED BY <2>1, <2>3
<1>6. ~Gone(h) =>
        /\ Standing(h, phase[h], key[h], me, Me(h), up[h], down[h], written[h], calls[h])
        /\ Typed(h, phase[h], key[h], me, Me(h), up[h], down[h], written[h], calls[h])
  BY <1>1, CacheParts DEF Linked
<1>7. PICK stored \in Images :
         stored = Store(me.image, Plane(me.command[2]), me.args.first, me.args.last, me.in)
  <2>1. me.args.first \in 1..Rows /\ me.args.last \in 1..Rows /\ me.args.first <= me.args.last
    BY <1>4, Geometry
  <2> QED BY <1>3, <1>4, <1>5, <2>1, PlaneType, StoreType
<1>8. \/ Turn(h, FALSE)
      \/ handler' = [handler EXCEPT ![h] =
            [me EXCEPT !.pc = "command", !.status = TRUE, !.image = stored, !.in = <<>>]]
  BY <1>1, <1>7 DEF SyncRegion
<1>9. CASE Turn(h, FALSE)
  <2>1. Leave(h, FALSE)
    BY <1>9 DEF Turn
  <2>2. PICK g \in Handlers : /\ handler' = [handler EXCEPT ![h] = g] /\ Serving(h, g)
                              /\ g.pc = "leaving" /\ g.out = <<Status(FALSE)>>
    BY <1>1, <1>2, <2>1, LeaveStep
  <2>3. g.out = <<False>>
    BY <2>2, ResultType
  <2>4. ~Gone(h) => Standing(h, phase[h], key[h], g, Me(h), up[h], down[h], written[h],
                             calls[h])
    BY <1>2, <1>5, <1>6, <2>2, <2>3, StandingSync
  <2> QED BY <1>1, <1>2, <2>2, <2>4, StayStep
<1>10. ASSUME handler' = [handler EXCEPT ![h] =
                [me EXCEPT !.pc = "command", !.status = TRUE, !.image = stored, !.in = <<>>]]
       PROVE  IInv'
  <2>1. PICK i \in Seq(Units) : i = <<>>
    <3>1. <<>> \in Seq(Units)
      OBVIOUS
    <3> QED BY <3>1
  <2>2. PICK g : g = [me EXCEPT !.pc = "command", !.status = TRUE, !.image = stored, !.in = i]
    OBVIOUS
  <2>3. /\ g \in Handlers /\ g.pc = "command" /\ g.image = stored /\ g.in = i
        /\ g.out = me.out /\ g.conn = me.conn
    BY <2>2 DEF Handlers
  <2>4. handler' = [handler EXCEPT ![h] = g]
    BY <1>10, <2>1, <2>2
  <2>5. Serving(h, g)
    BY <1>3, <2>3, CommandServes
  <2>6. ~Gone(h) => Standing(h, phase[h], key[h], g, Me(h), up[h], down[h], written[h],
                             calls[h])
    BY <1>2, <1>5, <1>6, <1>7, <2>1, <2>3, StandingSync
  <2> QED BY <1>1, <1>2, <2>3, <2>4, <2>5, <2>6, StayStep
<1> QED BY <1>8, <1>9, <1>10

LEMMA ServerReadFailsStep ==
    ASSUME IInv, NEW h \in Clients, ServerReadFails(h)
    PROVE  IInv'
<1>1. PICK me \in Handlers : me = handler[h]
  BY DEF IInv, TypeInv
<1>2. me.pc \in {"command", "key", "args", "data"}
      /\ UNCHANGED <<wires, backlog, slot, client>> /\ me.status \in BOOLEAN
  BY <1>1 DEF ServerReadFails, Handlers
<1>3. me.conn = h
  BY <1>1, <1>2, ServerParts
<1>4. Gone(h)
  BY <1>1, <1>3 DEF ServerReadFails, AtEnd
<1>5. \/ \E b \in BOOLEAN : Leave(h, b)
      \/ handler' = [handler EXCEPT ![h] =
            [me EXCEPT !.pc = "status", !.status = FALSE, !.out = <<False>>]]
  <2>1. (me.pc \in {"command", "key"} /\ me.status) \in BOOLEAN
    OBVIOUS
  <2>2. \/ Leave(h, me.pc \in {"command", "key"} /\ me.status)
        \/ handler' = [handler EXCEPT ![h] =
              [me EXCEPT !.pc = "status", !.status = FALSE, !.out = <<False>>]]
    BY <1>1 DEF ServerReadFails
  <2> QED BY <2>1, <2>2
<1>6. ASSUME NEW b \in BOOLEAN, Leave(h, b)
      PROVE  IInv'
  <2>1. PICK g \in Handlers : handler' = [handler EXCEPT ![h] = g] /\ Serving(h, g)
    BY <1>1, <1>2, <1>6, LeaveStep
  <2> QED BY <1>1, <1>2, <1>4, <2>1, StayStep
<1>7. ASSUME handler' = [handler EXCEPT ![h] =
               [me EXCEPT !.pc = "status", !.status = FALSE, !.out = <<False>>]]
      PROVE  IInv'
  <2>1. PICK o \in Seq(Units) : o = <<False>>
    <3>1. PICK f \in Units : f = False
      BY ResultType
    <3>2. <<f>> \in Seq(Units)
      OBVIOUS
    <3> QED BY <3>1, <3>2
  <2>2. PICK g : g = [me EXCEPT !.pc = "status", !.status = FALSE, !.out = o]
    OBVIOUS
  <2>3. g \in Handlers /\ g.pc = "status" /\ g.conn = me.conn
    BY <2>2 DEF Handlers
  <2>4. handler' = [handler EXCEPT ![h] = g]
    BY <1>7, <2>1, <2>2
  <2>5. Serving(h, g)
    BY <1>3, <2>3 DEF Serving, Replying
  <2> QED BY <1>1, <1>2, <1>4, <2>3, <2>4, <2>5, StayStep
<1> QED BY <1>5, <1>6, <1>7

LEMMA FetchStep ==
    ASSUME IInv, FetchedInTime, NEW h \in Clients, Fetch(h)
    PROVE  IInv'
<1>1. PICK me \in Handlers : me = handler[h]
  BY DEF IInv, TypeInv
<1>2. me.pc = "created" /\ UNCHANGED <<wires, backlog, slot, client>> /\ slot = h
  BY <1>1 DEF Fetch, FetchedInTime
<1>3. PICK o \in Seq(Units) : o = Nonce(h)
  BY NonceType
<1>4. PICK g : g = [me EXCEPT !.pc = "greeting", !.conn = h, !.out = o]
  OBVIOUS
<1>5. /\ g \in Handlers /\ g.pc = "greeting" /\ g.conn = h /\ g.out = o
      /\ g.image = me.image /\ g.in = me.in /\ g.status = me.status
  BY <1>4 DEF Handlers
<1>6. handler' = [handler EXCEPT ![h] = g]
  BY <1>1, <1>2, <1>3, <1>4 DEF Fetch
<1>7. Serving(h, g)
  BY <1>5 DEF Serving, Replying
<1>8. ~Gone(h) => Standing(h, phase[h], key[h], g, Me(h), up[h], down[h], written[h],
                           calls[h])
  <2>1. ~Gone(h) =>
        /\ Standing(h, phase[h], key[h], me, Me(h), up[h], down[h], written[h], calls[h])
        /\ Typed(h, phase[h], key[h], me, Me(h), up[h], down[h], written[h], calls[h])
    BY <1>1, CacheParts DEF Linked
  <2> QED BY <1>2, <1>3, <1>5, <2>1, StandingStart
<1> QED BY <1>1, <1>2, <1>5, <1>6, <1>7, <1>8, StayStep

LEMMA AcceptStep ==
    ASSUME IInv, Accept
    PROVE  IInv'
<1>1. PICK q \in Seq(Clients) : q = backlog /\ q # <<>>
  BY DEF Accept, IInv, TypeInv
<1>2. /\ Tail(q) \in Seq(Clients) /\ Head(q) = q[1] /\ Head(q) \in Clients
      /\ Len(q) \in Nat \ {0} /\ Len(Tail(q)) = Len(q) - 1
      /\ \A i \in 1..(Len(q) - 1) : Tail(q)[i] = q[i + 1]
  BY <1>1, OneUnit
<1>3. PICK x \in Clients : x = Head(q)
  BY <1>2
<1>4. PICK n \in Nat \ {0} : n = Len(q)
  BY <1>2
<1>5. /\ \A i \in 1..n : handler[q[i]].pc = "unstarted" /\ phase[q[i]] # "new"
      /\ \A i, j \in 1..n : q[i] = q[j] => i = j
  BY <1>1, <1>4 DEF IInv, BacklogInv
<1>6. 1 \in 1..n
  BY ONLY n \in Nat \ {0}
<1>7. PICK me \in Handlers : me = handler[x]
  BY DEF IInv, TypeInv
<1>8. me.pc = "unstarted" /\ phase[x] # "new"
  BY <1>2, <1>3, <1>5, <1>6, <1>7
<1>9. PICK g : g = [me EXCEPT !.pc = "created"]
  OBVIOUS
<1>10. /\ g \in Handlers /\ g.pc = "created" /\ g.image = me.image /\ g.in = me.in
       /\ g.status = me.status
  BY <1>9 DEF Handlers
<1>11. handler' = [handler EXCEPT ![x] = g]
  BY <1>1, <1>3, <1>7, <1>9 DEF Accept
<1>12. /\ handler' \in [Clients -> Handlers] /\ handler'[x] = g
       /\ \A z \in Clients : z # x => handler'[z] = handler[z]
  <2>1. handler \in [Clients -> Handlers]
    BY DEF IInv, TypeInv
  <2> QED BY <1>10, <1>11, <2>1, Put
<1>13. /\ backlog' = Tail(q) /\ slot' = x
       /\ UNCHANGED <<wires, client>>
  BY <1>1, <1>3 DEF Accept
<1>14. TypeInv'
  BY <1>2, <1>12, <1>13 DEF IInv, TypeInv, wires, client
<1>15. BacklogInv'
  <2>1. \A i \in 1..(n - 1) : i \in 1..n /\ i + 1 \in 1..n /\ i + 1 # 1
    BY ONLY n \in Nat \ {0}
  <2>2. ASSUME NEW i \in 1..(n - 1)
        PROVE  handler'[Tail(q)[i]].pc = "unstarted" /\ phase[Tail(q)[i]] # "new"
    <3>1. PICK j \in 1..n : j = i + 1 /\ j # 1
      BY <2>1
    <3>2. Tail(q)[i] = q[j]
      BY <1>2, <1>4, <3>1
    <3>3. q[j] # x
      BY <1>2, <1>3, <1>5, <1>6, <3>1
    <3>4. q[j] \in Clients
      BY <1>4, ElementOfSeq
    <3>5. handler[q[j]].pc = "unstarted" /\ phase[q[j]] # "new"
      BY <1>5
    <3>6. handler'[q[j]] = handler[q[j]]
      BY <1>12, <3>3, <3>4
    <3> QED BY <3>2, <3>5, <3>6
  <2>3. ASSUME NEW i \in 1..(n - 1), NEW j \in 1..(n - 1), Tail(q)[i] = Tail(q)[j]
        PROVE  i = j
    <3>1. PICK k \in 1..n, l \in 1..n : k = i + 1 /\ l = j + 1
      BY <2>1
    <3>2. q[k] = q[l]
      BY <1>2, <1>4, <2>3, <3>1
    <3>3. k = l
      BY <1>5, <3>2
    <3> QED BY <3>1, <3>3
  <2>4. PICK m \in Nat : m = n - 1 /\ m = Len(Tail(q))
    <3>1. n - 1 \in Nat
      BY ONLY n \in Nat \ {0}
    <3> QED BY <1>2, <1>4, <3>1
  <2>5. 1..Len(backlog') = 1..(n - 1)
    BY <1>13, <2>4
  <2>6. backlog' = Tail(q) /\ phase' = phase
    BY <1>13 DEF client
  <2> QED BY <2>2, <2>3, <2>5, <2>6 DEF BacklogInv
<1>16. \A c \in Clients : c # x => Kept(c)
  BY <1>12, <1>13 DEF Kept, wires, client
<1>17. CacheInv(x)'
  <2>1. /\ up' = up /\ down' = down /\ ends' = ends /\ broken' = broken /\ phase' = phase
        /\ key' = key /\ written' = written /\ calls' = calls
    BY <1>13 DEF wires, client
  <2>2. Me(x)' = Me(x) /\ (Held(x)' <=> Held(x))
    BY <1>13 DEF Me, Held, client
  <2>3. Gone(x)' <=> Gone(x)
    BY <2>1 DEF Gone
  <2>4. Serving(x, g)
    <3>1. Serving(x, me)
      BY <1>7, CacheParts
    <3>2. me = [HandlerUnstarted EXCEPT !.pc = "unstarted"]
      BY <1>8, <3>1 DEF Serving
    <3>3. g = [HandlerUnstarted EXCEPT !.pc = "created"]
      BY <1>9, <3>2 DEF HandlerUnstarted
    <3>4. g.out = <<>>
      BY <3>3 DEF HandlerUnstarted
    <3>5. g.pc = "created"
      BY <1>10
    <3> QED BY <3>3, <3>4, <3>5 DEF Serving
  <2>5. ~Gone(x) => Standing(x, phase[x], key[x], g, Me(x), up[x], down[x], written[x],
                             calls[x])
    <3>1. ~Gone(x) =>
        /\ Standing(x, phase[x], key[x], me, Me(x), up[x], down[x], written[x], calls[x])
        /\ Typed(x, phase[x], key[x], me, Me(x), up[x], down[x], written[x], calls[x])
      BY <1>7, CacheParts DEF Linked
    <3> QED BY <1>8, <1>10, <3>1, StandingStart
  <2>6. CacheInv(x)
    BY DEF IInv
  <2> QED BY <1>8, <1>12, <2>1, <2>2, <2>3, <2>4, <2>5, <2>6 DEF CacheInv
<1> QED BY <1>14, <1>15, <1>16, <1>17, StepInv

-----------------------------------------------------------------------------
(* The steps of a call                                                     *)

LEMMA Types ==
    ASSUME IInv
    PROVE  /\ up \in [Clients -> Seq(Units)] /\ down \in [Clients -> Seq(Units)]
           /\ ends \in [Clients -> SUBSET {"client", "server"}]
           /\ backlog \in Seq(Clients) /\ slot \in Clients \cup {NoOne}
           /\ handler \in [Clients -> Handlers]
           /\ phase \in [Clients -> {"new", "connecting", "ready", "closed"}]
           /\ key \in [Clients -> AllKeys]
           /\ semaphore \in [Clients -> Threads \cup {NoOne}]
           /\ thread \in [Threads -> Calls]
           /\ calls \in [Clients -> Nat] /\ written \in [Clients -> Images]
BY DEF IInv, TypeInv

(* The cache of a call in progress.                                        *)
LEMMA CallParts ==
    ASSUME IInv, NEW t \in Threads, NEW c, c = Owner[t], thread[t].pc # "idle"
    PROVE  /\ c \in Clients /\ semaphore[c] = t /\ Me(c) = thread[t]
           /\ thread[t] \in Calls /\ handler[c] \in Handlers
           /\ \A x \in Threads : Owner[x] = c /\ x # t => thread[x] = ThreadIdle
           /\ phase[c] \in {"connecting", "ready"} /\ Calling(phase[c], thread[t])
           /\ calls[c] \in Nat /\ written[c] \in Images /\ key[c] \in AllKeys
           /\ up[c] \in Seq(Units) /\ down[c] \in Seq(Units)
           /\ phase[c] = "connecting" => written[c] = NewImage
           /\ Typed(c, phase[c], key[c], handler[c], thread[t], up[c], down[c], written[c],
                    calls[c])
           /\ Gone(c) => Answered(c, phase[c], thread[t], down[c], written[c])
           /\ ~Gone(c) => Standing(c, phase[c], key[c], handler[c], thread[t], up[c], down[c],
                                   written[c], calls[c])
<1>1. c \in Clients
  BY DistributeCacheAssumption
<1>2. Held(c) /\ Calling(phase[c], Me(c))
  BY <1>1, CacheParts
<1>3. semaphore[c] = t
  BY <1>2, IdleCall DEF Held
<1>4. Me(c) = thread[t] /\ Owner[t] = c
  BY <1>3, DistributeCacheAssumption DEF Me
<1>5. \A x \in Threads : Owner[x] = c /\ x # t => thread[x] = ThreadIdle
  BY <1>2, <1>3 DEF Held
<1>6. phase[c] \in {"new", "connecting", "ready", "closed"}
  BY <1>1, Types
<1>7. phase[c] \notin {"new", "closed"}
  BY <1>2, <1>4, IdleCall DEF Calling
<1>8. /\ thread[t] \in Calls /\ handler[c] \in Handlers /\ calls[c] \in Nat
      /\ written[c] \in Images /\ key[c] \in AllKeys
      /\ up[c] \in Seq(Units) /\ down[c] \in Seq(Units)
  BY <1>1, Types
<1>9. /\ Typed(c, phase[c], key[c], handler[c], thread[t], up[c], down[c], written[c],
               calls[c])
      /\ Gone(c) => Answered(c, phase[c], thread[t], down[c], written[c])
      /\ ~Gone(c) => Standing(c, phase[c], key[c], handler[c], thread[t], up[c], down[c],
                              written[c], calls[c])
      /\ phase[c] = "connecting" => written[c] = NewImage
  BY <1>1, <1>4, CacheParts DEF Linked
<1> QED BY <1>1, <1>2, <1>3, <1>4, <1>5, <1>6, <1>7, <1>8, <1>9

(* No call is in progress.                                                 *)
LEMMA IdleParts ==
    ASSUME IInv, NEW c \in Clients, Me(c).pc = "idle"
    PROVE  /\ Me(c) = ThreadIdle
           /\ \A x \in Threads : Owner[x] = c => thread[x] = ThreadIdle
           /\ Gone(c) => Answered(c, phase[c], ThreadIdle, down[c], written[c])
           /\ ~Gone(c) => Standing(c, phase[c], key[c], handler[c], ThreadIdle, up[c],
                                   down[c], written[c], calls[c])
<1>1. Held(c) /\ Calling(phase[c], Me(c)) /\ Linked(c)
  BY CacheParts
<1>2. Me(c) = ThreadIdle
  BY <1>1 DEF Calling
<1>3. ASSUME NEW x \in Threads, Owner[x] = c
      PROVE  thread[x] = ThreadIdle
  <2>1. CASE x = semaphore[c]
    BY <1>2, <2>1, DistributeCacheAssumption DEF Me
  <2>2. CASE x # semaphore[c]
    BY <1>1, <1>3, <2>2 DEF Held
  <2> QED BY <2>1, <2>2
<1> QED BY <1>1, <1>2, <1>3 DEF Linked

ClientTypes ==
    /\ up \in [Clients -> Seq(Units)] /\ down \in [Clients -> Seq(Units)]
    /\ ends \in [Clients -> SUBSET {"client", "server"}]
    /\ phase \in [Clients -> {"new", "connecting", "ready", "closed"}]
    /\ key \in [Clients -> AllKeys]
    /\ calls \in [Clients -> Nat] /\ written \in [Clients -> Images]

\* The step is one of cache c.
OthersKept(c) ==
    \A x \in Clients : x # c =>
       /\ up'[x] = up[x] /\ down'[x] = down[x] /\ ends'[x] = ends[x]
       /\ phase'[x] = phase[x] /\ key'[x] = key[x] /\ calls'[x] = calls[x]
       /\ written'[x] = written[x]

\* It leaves the call you in progress.
Brings(c, you) ==
    /\ Calling(phase'[c], you) /\ phase'[c] # "new"
    /\ phase'[c] = "closed" => "client" \notin ends'[c]
    /\ phase'[c] = "connecting" => written'[c] = NewImage
    /\ IF Gone(c)' THEN Answered(c, phase'[c], you, down'[c], written'[c])
       ELSE Standing(c, phase'[c], key'[c], handler[c], you, up'[c], down'[c],
                     written'[c], calls'[c])

(* Thread t comes to be in the call you of c.                              *)
LEMMA CallStep ==
    ASSUME IInv, NEW t \in Threads, NEW c, c = Owner[t], NEW you \in Calls, NEW s,
           s = t \/ (s = NoOne /\ you = ThreadIdle),
           \A x \in Threads : Owner[x] = c /\ x # t => thread[x] = ThreadIdle,
           thread' = [thread EXCEPT ![t] = you],
           semaphore' = [semaphore EXCEPT ![c] = s],
           ClientTypes', OthersKept(c), Brings(c, you),
           broken' = broken, handler' = handler, slot' = slot,
           backlog' \in Seq(Clients), BacklogInv'
    PROVE  IInv'
<1>1. c \in Clients
  BY DistributeCacheAssumption
<1>2. /\ thread' \in [Threads -> Calls] /\ thread'[t] = you
      /\ \A z \in Threads : z # t => thread'[z] = thread[z]
  BY Types, Put
<1>3. /\ semaphore' \in [Clients -> Threads \cup {NoOne}] /\ semaphore'[c] = s
      /\ \A z \in Clients : z # c => semaphore'[z] = semaphore[z]
  <2>1. s \in Threads \cup {NoOne}
    OBVIOUS
  <2> QED BY <1>1, <2>1, Types, Put
<1>4. TypeInv'
  BY <1>2, <1>3, Types DEF TypeInv, ClientTypes
<1>5. \A x \in Clients : x # c => Kept(x)
  BY <1>2, <1>3 DEF Kept, OthersKept
<1>6. Me(c)' = you
  BY <1>2, <1>3, DistributeCacheAssumption DEF Me
<1>7. Held(c)'
  <2>1. ASSUME NEW x \in Threads, Owner[x] = c, x # s
        PROVE  thread'[x] = ThreadIdle
    <3>1. CASE x = t
      BY <1>2, <2>1, <3>1
    <3>2. CASE x # t
      BY <1>2, <2>1, <3>2
    <3> QED BY <3>1, <3>2
  <2>2. s \in Threads => Owner[s] = c
    BY DistributeCacheAssumption
  <2> QED BY <1>3, <2>1, <2>2 DEF Held
<1>8. Serving(c, handler[c])
  BY <1>1, CacheParts
<1>9. CacheInv(c)'
  BY <1>6, <1>7, <1>8 DEF CacheInv, Brings
<1> QED BY <1>1, <1>4, <1>5, <1>9, StepInv

LEMMA SameBacklog ==
    ASSUME IInv, NEW c \in Clients, backlog' = backlog, handler' = handler,
           \A x \in Clients : x # c => phase'[x] = phase[x], phase'[c] # "new"
    PROVE  backlog' \in Seq(Clients) /\ BacklogInv'
<1>1. backlog \in Seq(Clients) /\ BacklogInv
  BY DEF IInv, TypeInv
<1>2. ASSUME NEW i \in 1..Len(backlog)
      PROVE  handler[backlog[i]].pc = "unstarted" /\ phase'[backlog[i]] # "new"
  <2>1. backlog[i] \in Clients
    BY <1>1, ElementOfSeq
  <2>2. handler[backlog[i]].pc = "unstarted" /\ phase[backlog[i]] # "new"
    BY <1>1 DEF BacklogInv
  <2> QED BY <2>1, <2>2
<1> QED BY <1>1, <1>2 DEF BacklogInv

LEMMA IdleInCalls == ThreadIdle \in Calls
<1>1. <<>> \in Seq(Units)
  OBVIOUS
<1> QED BY <1>1 DEF ThreadIdle, Calls, Cmds

LEMMA IdleCalling ==
    ASSUME NEW ph \in {"ready", "closed"}
    PROVE  Calling(ph, ThreadIdle)
BY DEF Calling, ThreadIdle, ReadCommands, WriteCommands

(* A call is over.                                                         *)
LEMMA EndStep ==
    ASSUME IInv, NEW t \in Threads, NEW c, c = Owner[t], thread[t].pc # "idle",
           NEW b \in BOOLEAN, EndCall(t, b), UNCHANGED <<up, broken, server, key, calls>>,
           NEW w \in Images, written' = [written EXCEPT ![c] = w],
           b => IF Gone(c) THEN Len(down[c]) <= 1
                ELSE Resting(c, key[c], handler[c], up[c], down[c], w)
    PROVE  IInv'
<1>1. /\ c \in Clients /\ up[c] \in Seq(Units) /\ down[c] \in Seq(Units)
      /\ \A x \in Threads : Owner[x] = c /\ x # t => thread[x] = ThreadIdle
  BY CallParts
<1>2. /\ up' = up /\ broken' = broken /\ handler' = handler /\ slot' = slot
      /\ backlog' = backlog /\ key' = key /\ calls' = calls
  BY DEF server
<1>3. /\ written' \in [Clients -> Images] /\ written'[c] = w
      /\ \A z \in Clients : z # c => written'[z] = written[z]
  BY <1>1, Types, Put
<1>4. /\ semaphore' = [semaphore EXCEPT ![c] = NoOne]
      /\ thread' = [thread EXCEPT ![t] = ThreadIdle]
  BY DEF EndCall
<1>5. CASE b
  <2>1. phase' = [phase EXCEPT ![c] = "ready"] /\ ends' = ends /\ down' = down
    BY <1>5 DEF EndCall
  <2>2. /\ phase' \in [Clients -> {"new", "connecting", "ready", "closed"}]
        /\ phase'[c] = "ready" /\ \A z \in Clients : z # c => phase'[z] = phase[z]
    BY <1>1, <2>1, Types, Put
  <2>3. backlog' \in Seq(Clients) /\ BacklogInv'
    BY <1>1, <1>2, <2>2, SameBacklog
  <2>4. Gone(c)' <=> Gone(c)
    BY <1>2, <2>1 DEF Gone
  <2>5. ASSUME Gone(c) PROVE Brings(c, ThreadIdle)
    <3>1. Answered(c, "ready", ThreadIdle, down[c], w)
      BY <1>1, <1>5, <2>5, IdleCall, AnsweredLeft
    <3>2. Answered(c, phase'[c], ThreadIdle, down'[c], written'[c])
      BY <1>3, <2>1, <2>2, <3>1
    <3> QED BY <2>2, <2>4, <2>5, <3>2, IdleCalling DEF Brings
  <2>6. ASSUME ~Gone(c) PROVE Brings(c, ThreadIdle)
    <3>1. Standing(c, "ready", key[c], handler[c], ThreadIdle, up[c], down[c], w, calls[c])
      BY <1>1, <1>5, <2>6, StandingResting
    <3>2. Standing(c, phase'[c], key'[c], handler[c], ThreadIdle, up'[c], down'[c],
                   written'[c], calls'[c])
      BY <1>2, <1>3, <2>1, <2>2, <3>1
    <3> QED BY <2>2, <2>4, <2>6, <3>2, IdleCalling DEF Brings
  <2>7. ClientTypes' /\ OthersKept(c)
    BY <1>1, <1>2, <1>3, <2>1, <2>2, Types DEF ClientTypes, OthersKept
  <2> QED BY <1>1, <1>2, <1>4, <2>3, <2>5, <2>6, <2>7, IdleInCalls, CallStep
<1>6. CASE ~b
  <2>1. /\ phase' = [phase EXCEPT ![c] = "closed"]
        /\ ends' = [ends EXCEPT ![c] = ends[c] \ {"client"}]
        /\ down' = [down EXCEPT ![c] = <<>>]
    BY <1>6 DEF EndCall, Closed
  <2>2. /\ phase' \in [Clients -> {"new", "connecting", "ready", "closed"}]
        /\ phase'[c] = "closed" /\ \A z \in Clients : z # c => phase'[z] = phase[z]
    BY <1>1, <2>1, Types, Put
  <2>3. /\ ends' \in [Clients -> SUBSET {"client", "server"}]
        /\ ends'[c] = ends[c] \ {"client"}
        /\ \A z \in Clients : z # c => ends'[z] = ends[z]
    <3>1. ends[c] \ {"client"} \in SUBSET {"client", "server"}
      BY <1>1, Types
    <3> QED BY <1>1, <2>1, <3>1, Types, Put
  <2>4. /\ down' \in [Clients -> Seq(Units)]
        /\ \A z \in Clients : z # c => down'[z] = down[z]
    <3>1. <<>> \in Seq(Units)
      OBVIOUS
    <3> QED BY <1>1, <2>1, <3>1, Types, Put
  <2>5. backlog' \in Seq(Clients) /\ BacklogInv'
    BY <1>1, <1>2, <2>2, SameBacklog
  <2>6. Gone(c)'
    BY <2>3 DEF Gone
  <2>7. Answered(c, phase'[c], ThreadIdle, down'[c], written'[c])
    BY <2>2, AnsweredClosed
  <2>8. Brings(c, ThreadIdle)
    BY <2>2, <2>3, <2>6, <2>7, IdleCalling DEF Brings
  <2>9. ClientTypes' /\ OthersKept(c)
    BY <1>1, <1>2, <1>3, <2>2, <2>3, <2>4, Types DEF ClientTypes, OthersKept
  <2> QED BY <1>1, <1>2, <1>4, <2>5, <2>8, <2>9, IdleInCalls, CallStep
<1> QED BY <1>5, <1>6

(* The message for a row, or for all of them, is to be sent.               *)
LEMMA RowStep ==
    ASSUME IInv, NEW t \in Threads, NEW c, c = Owner[t], phase[c] = "ready",
           \A x \in Threads : Owner[x] = c /\ x # t => thread[x] = ThreadIdle,
           NEW you, you.pc = "sending", you.cmd \in ReadCommands \cup WriteCommands,
           you.region \in Regions, you.row \in you.region.first..you.region.last,
           you.in = <<>>, NEW n \in Nat,
           you.out = RowMessage(key[c], you.cmd, you.row, LastOf(you.region, you.row), n),
           you \in Calls,
           thread' = [thread EXCEPT ![t] = you],
           semaphore' = [semaphore EXCEPT ![c] = t],
           UNCHANGED <<wires, server, phase, key>>,
           calls' = [calls EXCEPT ![c] = n],
           NEW w \in Images, written' = [written EXCEPT ![c] = w],
           IF Gone(c) THEN Len(down[c]) <= 1
           ELSE Resting(c, key[c], handler[c], up[c], down[c], w)
    PROVE  IInv'
<1>1. c \in Clients
  BY DistributeCacheAssumption
<1>2. /\ up[c] \in Seq(Units) /\ down[c] \in Seq(Units) /\ handler[c] \in Handlers
      /\ key[c] \in AllKeys /\ handler[c].out \in Seq(Units)
  BY <1>1, Types DEF Handlers
<1>3. /\ up' = up /\ down' = down /\ ends' = ends /\ broken' = broken /\ handler' = handler
      /\ slot' = slot /\ backlog' = backlog /\ phase' = phase /\ key' = key
  BY DEF wires, server
<1>4. /\ written' \in [Clients -> Images] /\ written'[c] = w
      /\ \A z \in Clients : z # c => written'[z] = written[z]
  BY <1>1, Types, Put
<1>5. /\ calls' \in [Clients -> Nat] /\ calls'[c] = n
      /\ \A z \in Clients : z # c => calls'[z] = calls[z]
  BY <1>1, Types, Put
<1>6. Gone(c)' <=> Gone(c)
  BY <1>3 DEF Gone
<1>7. Calling("ready", you)
  BY DEF Calling, ReadCommands, WriteCommands
<1>8. ASSUME Gone(c) PROVE Brings(c, you)
  <2>1. Answered(c, "ready", you, down[c], w)
    BY <1>2, <1>8, AnsweredLeft
  <2>2. Answered(c, phase'[c], you, down'[c], written'[c])
    BY <1>3, <1>4, <2>1
  <2>3. phase'[c] = "ready"
    BY <1>3
  <2> QED BY <1>6, <1>7, <1>8, <2>2, <2>3 DEF Brings
<1>9. ASSUME ~Gone(c) PROVE Brings(c, you)
  <2>1. Resting(c, key[c], handler[c], up[c], down[c], w)
    BY <1>9
  <2>2. Standing(c, "ready", key[c], handler[c], you, up[c], down[c], w, n)
    BY <1>1, <1>2, <2>1, RestingCall
  <2>3. Standing(c, phase'[c], key'[c], handler[c], you, up'[c], down'[c], written'[c],
                 calls'[c])
    BY <1>3, <1>4, <1>5, <2>2
  <2>4. phase'[c] = "ready"
    BY <1>3
  <2> QED BY <1>6, <1>7, <1>9, <2>3, <2>4 DEF Brings
<1>10. backlog' \in Seq(Clients) /\ BacklogInv'
  BY <1>1, <1>3, SameBacklog
<1>11. ClientTypes' /\ OthersKept(c)
  BY <1>3, <1>4, <1>5, Types DEF ClientTypes, OthersKept
<1> QED BY <1>3, <1>8, <1>9, <1>10, <1>11, CallStep

(* A message is done with.                                                 *)
LEMMA NextRowStep ==
    ASSUME IInv, NEW t \in Threads, NEW c, c = Owner[t], thread[t].pc # "idle",
           phase[c] = "ready", thread[t].cmd \in ReadCommands \cup WriteCommands,
           NextRow(t), UNCHANGED <<up, broken, server, key, calls>>,
           NEW w \in Images, written' = [written EXCEPT ![c] = w],
           IF Gone(c) THEN Len(down[c]) <= 1
           ELSE Resting(c, key[c], handler[c], up[c], down[c], w)
    PROVE  IInv'
<1>1. PICK me \in Calls : me = thread[t]
  BY CallParts
<1>2. /\ c \in Clients /\ key[c] \in AllKeys /\ calls[c] \in Nat /\ semaphore[c] = t
      /\ \A x \in Threads : Owner[x] = c /\ x # t => thread[x] = ThreadIdle
      /\ Calling("ready", me)
  BY <1>1, CallParts
<1>3. me.region \in Regions /\ me.row \in me.region.first..me.region.last
  BY <1>1, <1>2 DEF Calling
<1>4. PICK row \in Nat : row = LastOf(me.region, me.row) + 1
  BY <1>3, RowsAsked
<1>5. CASE row > me.region.last
  <2>1. EndCall(t, TRUE)
    BY <1>1, <1>4, <1>5 DEF NextRow
  <2> QED BY <2>1, EndStep
<1>6. CASE ~(row > me.region.last)
  <2>1. row \in me.region.first..me.region.last
    <3>1. /\ LastOf(me.region, me.row) \in Nat /\ me.row <= LastOf(me.region, me.row)
          /\ me.region.first \in Nat /\ me.region.last \in Nat /\ me.row \in Nat
          /\ me.region.first <= me.row
      BY <1>3, RowsAsked
    <3>2. PICK f \in Nat, l \in Nat, r \in Nat, s \in Nat :
             f = me.region.first /\ l = me.region.last /\ r = me.row
             /\ s = LastOf(me.region, me.row)
      BY <3>1
    <3>3. f <= r /\ r <= s /\ row = s + 1 /\ ~(row > l)
      BY <1>4, <1>6, <3>1, <3>2
    <3>4. row \in f..l
      BY ONLY <3>3, f \in Nat, l \in Nat, r \in Nat, s \in Nat, row \in Nat
    <3> QED BY <3>2, <3>4
  <2>2. LastOf(me.region, row) \in 1..Rows /\ row \in 1..Rows /\ row <= LastOf(me.region, row)
    BY <1>3, <2>1, RowsAsked
  <2>3. PICK o \in Seq(Units) :
           o = RowMessage(key[c], me.cmd, row, LastOf(me.region, row), calls[c])
    BY <1>1, <1>2, <2>2, MessageUnits
  <2>4. PICK i \in Seq(Units) : i = <<>>
    <3>1. <<>> \in Seq(Units)
      OBVIOUS
    <3> QED BY <3>1
  <2>5. PICK you : you = [me EXCEPT !.pc = "sending", !.row = row, !.in = i, !.out = o]
    OBVIOUS
  <2>6. /\ you \in Calls /\ you.pc = "sending" /\ you.cmd = me.cmd /\ you.region = me.region
        /\ you.row = row /\ you.in = <<>> /\ you.out = o
    BY <2>4, <2>5 DEF Calls
  <2>7. RegionMessage(c, me.cmd, me.region, row, calls[c]) = o
    BY <2>3 DEF RegionMessage, RowMessage, Request
  <2>8. /\ thread' = [thread EXCEPT ![t] =
              [thread[t] EXCEPT !.pc = "sending", !.row = LastOf(me.region, me.row) + 1,
                                !.in = <<>>,
                                !.out = RegionMessage(c, me.cmd, me.region,
                                           LastOf(me.region, me.row) + 1, calls[c])]]
        /\ UNCHANGED <<semaphore, phase, ends, down>>
    BY <1>1, <1>4, <1>6 DEF NextRow
  <2>9. thread' = [thread EXCEPT ![t] = you]
    BY <1>1, <1>4, <2>4, <2>5, <2>7, <2>8
  <2>10. semaphore' = [semaphore EXCEPT ![c] = t] /\ calls' = [calls EXCEPT ![c] = calls[c]]
    BY <1>2, <2>8, Types
  <2>11. UNCHANGED <<wires, server, phase, key>>
    BY <2>8 DEF wires
  <2>12. you.cmd \in ReadCommands \cup WriteCommands
    BY <1>1, <2>6
  <2>13. you.region \in Regions /\ you.row \in you.region.first..you.region.last
    BY <1>3, <2>1, <2>6
  <2>14. you.out = RowMessage(key[c], you.cmd, you.row, LastOf(you.region, you.row), calls[c])
    BY <2>3, <2>6
  <2> QED BY <1>2, <2>6, <2>9, <2>10, <2>11, <2>12, <2>13, <2>14, RowStep
<1> QED BY <1>5, <1>6

LEMMA BeginCallStep ==
    ASSUME IInv, NEW t \in Threads, NEW cmd \in ReadCommands \cup WriteCommands,
           NEW region \in Regions, BeginCall(t, cmd, region)
    PROVE  IInv'
<1>1. PICK c \in Clients : c = Owner[t]
  BY DistributeCacheAssumption
<1>2. /\ phase[c] = "ready" /\ semaphore[c] = NoOne
      /\ UNCHANGED <<wires, server, phase, key>> /\ written' = written
  BY <1>1 DEF BeginCall
<1>3. Me(c) = ThreadIdle
  BY <1>2 DEF Me
<1>4. /\ \A x \in Threads : Owner[x] = c => thread[x] = ThreadIdle
      /\ Gone(c) => Answered(c, "ready", ThreadIdle, down[c], written[c])
      /\ ~Gone(c) => Standing(c, "ready", key[c], handler[c], ThreadIdle, up[c],
                              down[c], written[c], calls[c])
  BY <1>2, <1>3, IdleCall, IdleParts
<1>5. /\ up[c] \in Seq(Units) /\ down[c] \in Seq(Units) /\ key[c] \in AllKeys
      /\ written[c] \in Images /\ calls[c] \in Nat
  BY Types
<1>6. PICK n \in Nat : n = calls[c] + 1
  BY <1>5
<1>7. PICK row \in region.first..region.last : row = region.first
  BY DistributeCacheAssumption
<1>8. /\ LastOf(region, row) \in 1..Rows /\ row \in 1..Rows /\ row <= LastOf(region, row)
      /\ row \in Nat
  BY <1>7, RowsAsked
<1>9. PICK o \in Seq(Units) : o = RowMessage(key[c], cmd, row, LastOf(region, row), n)
  BY <1>5, <1>8, MessageUnits
<1>10. PICK you : you = [ThreadIdle EXCEPT !.pc = "sending", !.cmd = cmd, !.region = region,
                                           !.row = row, !.out = o]
  OBVIOUS
<1>11. /\ you \in Calls /\ you.pc = "sending" /\ you.cmd = cmd /\ you.region = region
       /\ you.row = row /\ you.out = o /\ you.in = ThreadIdle.in
  <2>1. PICK me \in Calls : me = ThreadIdle
    BY IdleInCalls
  <2>2. cmd \in Cmds
    BY DEF Cmds
  <2> QED BY <1>8, <1>10, <2>1, <2>2 DEF Calls
<1>12. RegionMessage(c, cmd, region, row, n) = o
  BY <1>9 DEF RegionMessage, RowMessage, Request
<1>13. thread' = [thread EXCEPT ![t] =
              [thread[t] EXCEPT !.pc = "sending", !.cmd = cmd, !.region = region,
                        !.row = region.first,
                        !.out = RegionMessage(c, cmd, region, region.first, calls[c] + 1)]]
  BY <1>1 DEF BeginCall
<1>14. thread' = [thread EXCEPT ![t] = you]
  BY <1>1, <1>4, <1>6, <1>7, <1>10, <1>12, <1>13
<1>15. /\ semaphore' = [semaphore EXCEPT ![c] = t] /\ calls' = [calls EXCEPT ![c] = n]
       /\ written' = [written EXCEPT ![c] = written[c]]
  BY <1>1, <1>2, <1>6, Types DEF BeginCall
<1>16. IF Gone(c) THEN Len(down[c]) <= 1
       ELSE Resting(c, key[c], handler[c], up[c], down[c], written[c])
  BY <1>4, <1>5, AnsweredIdle, StandingResting
<1>17. you.in = <<>> /\ you.region \in Regions /\ you.row \in you.region.first..you.region.last
       /\ you.out = RowMessage(key[c], you.cmd, you.row, LastOf(you.region, you.row), n)
       /\ you.cmd \in ReadCommands \cup WriteCommands
  BY <1>7, <1>9, <1>11, IdleCall
<1>18. \A x \in Threads : Owner[x] = c /\ x # t => thread[x] = ThreadIdle
  BY <1>4
<1>19. you \in Calls /\ you.pc = "sending"
  BY <1>11
<1>20. phase[c] = "ready" /\ UNCHANGED <<wires, server, phase, key>> /\ c = Owner[t]
       /\ written[c] \in Images
  BY <1>1, <1>2, <1>5
<1> QED BY <1>14, <1>15, <1>16, <1>17, <1>18, <1>19, <1>20, RowStep

(* A step within a call: thread t comes to be in the call you.             *)
LEMMA WithinStep ==
    ASSUME IInv, NEW t \in Threads, NEW c, c = Owner[t], thread[t].pc # "idle",
           NEW you \in Calls, thread' = [thread EXCEPT ![t] = you],
           NEW u \in Seq(Units), up' = [up EXCEPT ![c] = u],
           NEW d \in Seq(Units), down' = [down EXCEPT ![c] = d],
           NEW k \in AllKeys, key' = [key EXCEPT ![c] = k],
           UNCHANGED <<ends, broken, server, phase, semaphore, calls, written>>,
           Calling(phase[c], you),
           Gone(c) => Answered(c, phase[c], you, d, written[c]),
           ~Gone(c) => Standing(c, phase[c], k, handler[c], you, u, d, written[c], calls[c])
    PROVE  IInv'
<1>1. /\ c \in Clients /\ semaphore[c] = t
      /\ \A x \in Threads : Owner[x] = c /\ x # t => thread[x] = ThreadIdle
      /\ phase[c] \in {"connecting", "ready"}
      /\ phase[c] = "connecting" => written[c] = NewImage
  BY CallParts
<1>2. /\ ends' = ends /\ broken' = broken /\ handler' = handler
      /\ slot' = slot /\ backlog' = backlog /\ phase' = phase /\ semaphore' = semaphore
      /\ calls' = calls /\ written' = written
  BY DEF server
<1>3. /\ up' \in [Clients -> Seq(Units)] /\ up'[c] = u
      /\ \A z \in Clients : z # c => up'[z] = up[z]
  BY <1>1, Types, Put
<1>4. /\ down' \in [Clients -> Seq(Units)] /\ down'[c] = d
      /\ \A z \in Clients : z # c => down'[z] = down[z]
  BY <1>1, Types, Put
<1>5. /\ key' \in [Clients -> AllKeys] /\ key'[c] = k
      /\ \A z \in Clients : z # c => key'[z] = key[z]
  BY <1>1, Types, Put
<1>6. Gone(c)' <=> Gone(c)
  BY <1>2 DEF Gone
<1>7. IF Gone(c)' THEN Answered(c, phase'[c], you, down'[c], written'[c])
      ELSE Standing(c, phase'[c], key'[c], handler[c], you, up'[c], down'[c],
                    written'[c], calls'[c])
  BY <1>2, <1>3, <1>4, <1>5, <1>6
<1>8. Brings(c, you)
  <2>1. Calling(phase'[c], you) /\ phase'[c] \in {"connecting", "ready"}
    BY <1>1, <1>2
  <2>2. phase'[c] = "connecting" => written'[c] = NewImage
    BY <1>1, <1>2
  <2> QED BY <1>7, <2>1, <2>2 DEF Brings
<1>9. backlog' \in Seq(Clients) /\ BacklogInv'
  BY <1>1, <1>2, SameBacklog
<1>10. ClientTypes' /\ OthersKept(c)
  BY <1>2, <1>3, <1>4, <1>5, Types DEF ClientTypes, OthersKept
<1>11. semaphore' = [semaphore EXCEPT ![c] = t]
  BY <1>1, <1>2, Types
<1>12. broken' = broken /\ handler' = handler /\ slot' = slot
  BY <1>2
<1>13. \A x \in Threads : Owner[x] = c /\ x # t => thread[x] = ThreadIdle
  BY <1>1
<1>14. thread' = [thread EXCEPT ![t] = you]
  OBVIOUS
<1>15. t \in Threads /\ c = Owner[t] /\ you \in Calls
  OBVIOUS
<1> QED BY ONLY IInv, <1>8, <1>9, <1>10, <1>11, <1>12, <1>13, <1>14, <1>15, CallStep

LEMMA Same ==
    ASSUME NEW D, NEW S, NEW f \in [D -> S], NEW x \in D, NEW y, y = f[x]
    PROVE  f = [f EXCEPT ![x] = y]
OBVIOUS

LEMMA ClientSendStep ==
    ASSUME IInv, NEW t \in Threads, ClientSend(t)
    PROVE  IInv'
<1>1. PICK c \in Clients : c = Owner[t]
  BY DistributeCacheAssumption
<1>2. PICK me \in Calls : me = thread[t]
  BY Types
<1>3. me.pc = "sending" /\ me.out # <<>>
      /\ UNCHANGED <<down, ends, broken, server, phase, key, semaphore, calls, written>>
  BY <1>1, <1>2 DEF ClientSend
<1>4. /\ Calling(phase[c], me)
      /\ up[c] \in Seq(Units) /\ down[c] \in Seq(Units) /\ key[c] \in AllKeys
      /\ Gone(c) => Answered(c, phase[c], me, down[c], written[c])
      /\ ~Gone(c) => Standing(c, phase[c], key[c], handler[c], me, up[c], down[c],
                              written[c], calls[c])
  BY <1>1, <1>2, <1>3, CallParts
<1>5. me.out \in Seq(Units) /\ me.in \in Seq(Units)
  BY DEF Calls
<1>6. Tail(me.out) \in Seq(Units) /\ Head(me.out) \in Units
  BY <1>3, <1>5, HeadTailProperties
<1>7. PICK you : you = [me EXCEPT !.out = Tail(me.out)]
  OBVIOUS
<1>8. /\ you \in Calls /\ you.pc = "sending" /\ you.cmd = me.cmd /\ you.region = me.region
      /\ you.row = me.row /\ you.in = me.in /\ you.out = Tail(me.out)
  BY <1>3, <1>6, <1>7 DEF Calls
<1>9. thread' = [thread EXCEPT ![t] = you]
  BY <1>2, <1>7 DEF ClientSend
<1>10. PICK u \in Seq(Units) : up' = [up EXCEPT ![c] = u]
                               /\ (~Gone(c) => u = Append(up[c], Head(me.out)))
  <2>1. CASE Gone(c)
    <3>1. up' = up
      BY <1>1, <2>1 DEF ClientSend
    <3> QED BY <1>4, <2>1, <3>1, Types, Same
  <2>2. CASE ~Gone(c)
    <3>1. PICK u \in Seq(Units) : u = Append(up[c], Head(me.out))
      BY <1>4, <1>6, AppendProperties
    <3>2. up' = [up EXCEPT ![c] = u]
      BY <1>1, <1>2, <2>2, <3>1 DEF ClientSend
    <3> QED BY <3>1, <3>2
  <2> QED BY <2>1, <2>2
<1>11. Calling(phase[c], you)
  <2>1. phase[c] \in {"connecting", "ready"}
    BY <1>1, <1>2, <1>3, CallParts
  <2>2. me.out # <<>>
    BY <1>3
  <2> QED BY <1>3, <1>4, <1>8, <2>1, <2>2 DEF Calling
<1>12. Gone(c) => Answered(c, phase[c], you, down[c], written[c])
  BY <1>3, <1>4, <1>8, AnsweredMoves
<1>13. ~Gone(c) => Standing(c, phase[c], key[c], handler[c], you, u, down[c], written[c],
                            calls[c])
  <2>1. Append(up[c], Head(me.out)) \o Tail(me.out) = up[c] \o me.out
    BY <1>3, <1>4, <1>5, MoveUnit
  <2>2. ~Gone(c) => u \o you.out = up[c] \o me.out
    BY <1>8, <1>10, <2>1
  <2> QED BY <1>3, <1>4, <1>8, <2>2, StandingMoves
<1>14. down' = [down EXCEPT ![c] = down[c]] /\ key' = [key EXCEPT ![c] = key[c]]
  BY <1>3, Types, Same
<1>15. thread[t].pc # "idle"
  BY <1>2, <1>3
<1>16. UNCHANGED <<ends, broken, server, phase, semaphore, calls, written>>
  BY <1>3
<1> QED BY <1>1, <1>4, <1>8, <1>9, <1>10, <1>11, <1>12, <1>13, <1>14, <1>15, <1>16, WithinStep

LEMMA ClientReceiveStep ==
    ASSUME IInv, NEW t \in Threads, ClientReceive(t)
    PROVE  IInv'
<1>1. PICK c \in Clients : c = Owner[t]
  BY DistributeCacheAssumption
<1>2. PICK me \in Calls : me = thread[t]
  BY Types
<1>3. me.pc = "receiving" /\ down[c] # <<>>
      /\ UNCHANGED <<up, ends, broken, server, phase, key, semaphore, calls, written>>
  BY <1>1, <1>2 DEF ClientReceive
<1>4. /\ Calling(phase[c], me)
      /\ up[c] \in Seq(Units) /\ down[c] \in Seq(Units) /\ key[c] \in AllKeys
      /\ Gone(c) => Answered(c, phase[c], me, down[c], written[c])
      /\ ~Gone(c) => Standing(c, phase[c], key[c], handler[c], me, up[c], down[c],
                              written[c], calls[c])
  BY <1>1, <1>2, <1>3, CallParts
<1>5. me.out \in Seq(Units) /\ me.in \in Seq(Units)
  BY DEF Calls
<1>6. Tail(down[c]) \in Seq(Units) /\ Head(down[c]) \in Units
  BY <1>3, <1>4, HeadTailProperties
<1>7. PICK i \in Seq(Units) : i = Append(me.in, Head(down[c]))
  BY <1>5, <1>6, AppendProperties
<1>8. PICK you : you = [me EXCEPT !.in = i]
  OBVIOUS
<1>9. /\ you \in Calls /\ you.pc = "receiving" /\ you.cmd = me.cmd /\ you.region = me.region
      /\ you.row = me.row /\ you.in = i /\ you.out = me.out
  BY <1>3, <1>8 DEF Calls
<1>10. thread' = [thread EXCEPT ![t] = you]
  BY <1>1, <1>2, <1>7, <1>8 DEF ClientReceive
<1>11. down' = [down EXCEPT ![c] = Tail(down[c])]
  BY <1>1 DEF ClientReceive
<1>12. you.in \o Tail(down[c]) = me.in \o down[c]
  <2>1. Append(me.in, Head(down[c])) \o Tail(down[c]) = me.in \o down[c]
    BY <1>3, <1>4, <1>5, MoveUnit
  <2> QED BY <1>7, <1>9, <2>1
<1>13. Calling(phase[c], you)
  <2>1. phase[c] \in {"connecting", "ready"}
    BY <1>1, <1>2, <1>3, CallParts
  <2> QED BY <1>3, <1>4, <1>9, <2>1 DEF Calling
<1>14. Gone(c) => Answered(c, phase[c], you, Tail(down[c]), written[c])
  BY <1>3, <1>4, <1>9, <1>12, AnsweredMoves
<1>15. ~Gone(c) => Standing(c, phase[c], key[c], handler[c], you, up[c], Tail(down[c]),
                            written[c], calls[c])
  BY <1>3, <1>4, <1>9, <1>12, StandingMoves
<1>16. up' = [up EXCEPT ![c] = up[c]] /\ key' = [key EXCEPT ![c] = key[c]]
  BY <1>3, Types, Same
<1>17. thread[t].pc # "idle"
  BY <1>2, <1>3
<1>18. UNCHANGED <<ends, broken, server, phase, semaphore, calls, written>>
  BY <1>3
<1> QED BY <1>1, <1>4, <1>6, <1>9, <1>10, <1>11, <1>13, <1>14, <1>15, <1>16, <1>17, <1>18,
           WithinStep

LEMMA ClientSentStep ==
    ASSUME IInv, NEW t \in Threads, ClientSent(t)
    PROVE  IInv'
<1>1. PICK c \in Clients : c = Owner[t]
  BY DistributeCacheAssumption
<1>2. PICK me \in Calls : me = thread[t]
  BY Types
<1>3. me.pc = "sending" /\ me.out = <<>> /\ UNCHANGED <<up, broken, server, key, calls>>
  BY <1>1, <1>2 DEF ClientSent
<1>4. /\ Calling(phase[c], me) /\ phase[c] \in {"connecting", "ready"}
      /\ up[c] \in Seq(Units) /\ down[c] \in Seq(Units) /\ key[c] \in AllKeys
      /\ written[c] \in Images /\ calls[c] \in Nat
      /\ Gone(c) => Answered(c, phase[c], me, down[c], written[c])
      /\ ~Gone(c) =>
           /\ Standing(c, phase[c], key[c], handler[c], me, up[c], down[c],
                       written[c], calls[c])
           /\ Typed(c, phase[c], key[c], handler[c], me, up[c], down[c], written[c], calls[c])
  BY <1>1, <1>2, <1>3, CallParts
<1>5. thread[t].pc # "idle"
  BY <1>2, <1>3
<1>6. CASE me.cmd \in WriteCommands
  <2>1. NextRow(t) /\ written' = [written EXCEPT ![c] =
           Replaced(written[c], Plane(me.cmd), me.row, LastOf(me.region, me.row), calls[c])]
    BY <1>1, <1>2, <1>6 DEF ClientSent
  <2>2. PICK w \in Images :
           w = Replaced(written[c], Plane(me.cmd), me.row, LastOf(me.region, me.row), calls[c])
    BY <1>4, PlaneType, ReplacedType
  <2>3. phase[c] = "ready"
    <3>1. me.cmd # "o"
      BY <1>6 DEF WriteCommands
    <3> QED BY <1>4, <3>1, ConnectingCommand
  <2>4. Gone(c) => Len(down[c]) <= 1
    <3>1. me.in = <<>>
      BY <1>3, <1>4 DEF Calling
    <3>2. ~Relinquished(me) /\ me.cmd \notin ReadCommands
      BY <1>6 DEF Relinquished, WriteCommands, ReadCommands
    <3> QED BY <1>4, <2>3, <3>1, <3>2, AnsweredUnsent
  <2>5. ~Gone(c) => Resting(c, key[c], handler[c], up[c], down[c], w)
    BY <1>3, <1>4, <1>6, <2>2, StandingWritten
  <2>6. thread[t].cmd \in ReadCommands \cup WriteCommands
    BY <1>2, <1>6
  <2>7. written' = [written EXCEPT ![c] = w]
    BY <2>1, <2>2
  <2>8. IF Gone(c) THEN Len(down[c]) <= 1
        ELSE Resting(c, key[c], handler[c], up[c], down[c], w)
    BY <2>4, <2>5
  <2>9. NextRow(t)
    BY <2>1
  <2>10. UNCHANGED <<up, broken, server, key, calls>>
    BY <1>3
  <2> QED BY <1>1, <1>5, <2>3, <2>6, <2>7, <2>8, <2>9, <2>10, NextRowStep
<1>7. CASE me.cmd \notin WriteCommands
  <2>1. /\ thread' = [thread EXCEPT ![t] = [me EXCEPT !.pc = "receiving"]]
        /\ UNCHANGED <<semaphore, phase, ends, down, written>>
    BY <1>2, <1>7 DEF ClientSent
  <2>2. PICK you : you = [me EXCEPT !.pc = "receiving"]
    OBVIOUS
  <2>3. /\ you \in Calls /\ you.pc = "receiving" /\ you.cmd = me.cmd /\ you.region = me.region
        /\ you.row = me.row /\ you.in = me.in /\ you.out = me.out
    BY <2>2 DEF Calls
  <2>4. Calling(phase[c], you)
    BY <1>3, <1>4, <1>7, <2>3 DEF Calling
  <2>5. Gone(c) => Answered(c, phase[c], you, down[c], written[c])
    BY <1>3, <1>4, <2>3, AnsweredMoves
  <2>6. ~Gone(c) => Standing(c, phase[c], key[c], handler[c], you, up[c], down[c],
                             written[c], calls[c])
    BY <1>3, <1>4, <2>3, StandingMoves
  <2>7. up' = [up EXCEPT ![c] = up[c]] /\ key' = [key EXCEPT ![c] = key[c]]
        /\ down' = [down EXCEPT ![c] = down[c]]
    BY <1>3, <2>1, Types, Same
  <2>8. UNCHANGED <<ends, broken, server, phase, semaphore, calls, written>>
    BY <1>3, <2>1
  <2>9. thread' = [thread EXCEPT ![t] = you]
    BY <2>1, <2>2
  <2> QED BY <1>1, <1>4, <1>5, <2>3, <2>4, <2>5, <2>6, <2>7, <2>8, <2>9, WithinStep
<1> QED BY <1>6, <1>7

LEMMA ClientReceivedStep ==
    ASSUME IInv, NEW t \in Threads, ClientReceived(t)
    PROVE  IInv'
<1>1. PICK c \in Clients : c = Owner[t]
  BY DistributeCacheAssumption
<1>2. PICK me \in Calls : me = thread[t]
  BY Types
<1>3. /\ me.pc = "receiving" /\ UNCHANGED <<up, broken, server, key, calls>>
      /\ written' = written /\ Len(me.in) = Wanted(t)
  BY <1>1, <1>2 DEF ClientReceived
<1>4. /\ Calling(phase[c], me) /\ phase[c] \in {"connecting", "ready"}
      /\ up[c] \in Seq(Units) /\ down[c] \in Seq(Units)
      /\ written[c] \in Images
      /\ Gone(c) => Answered(c, phase[c], me, down[c], written[c])
      /\ ~Gone(c) =>
           /\ Standing(c, phase[c], key[c], handler[c], me, up[c], down[c],
                       written[c], calls[c])
           /\ Typed(c, phase[c], key[c], handler[c], me, up[c], down[c], written[c], calls[c])
  BY <1>1, <1>2, <1>3, CallParts
<1>5. thread[t].pc # "idle" /\ me.in \in Seq(Units)
  BY <1>2, <1>3 DEF Calls
<1>6. written' = [written EXCEPT ![c] = written[c]]
  BY <1>3, Types, Same
<1>7. CASE me.cmd \in ReadCommands
  <2>1. NextRow(t)
    BY <1>2, <1>7 DEF ClientReceived
  <2>2. Len(me.in) = Count(me.row, LastOf(me.region, me.row))
    <3>1. Wanted(t) = Count(me.row, LastOf(me.region, me.row))
      <4>1. thread[t] = me /\ me.cmd \notin WriteCommands
        BY <1>2, <1>7 DEF ReadCommands, WriteCommands
      <4> QED BY <1>7, <4>1 DEF Wanted
    <3> QED BY <1>3, <3>1
  <2>3. phase[c] = "ready"
    <3>1. me.cmd # "o"
      BY <1>7 DEF ReadCommands
    <3> QED BY <1>4, <3>1, ConnectingCommand
  <2>4. Gone(c) => Len(down[c]) <= 1
    BY <1>3, <1>4, <1>5, <1>7, <2>2, <2>3, AnsweredRows
  <2>5. ~Gone(c) => Resting(c, key[c], handler[c], up[c], down[c], written[c])
    BY <1>3, <1>4, <1>7, <2>2, StandingRows
  <2>6. thread[t].cmd \in ReadCommands \cup WriteCommands
    BY <1>2, <1>7
  <2>7. IF Gone(c) THEN Len(down[c]) <= 1
        ELSE Resting(c, key[c], handler[c], up[c], down[c], written[c])
    BY <2>4, <2>5
  <2>8. UNCHANGED <<up, broken, server, key, calls>>
    BY <1>3
  <2> QED BY <1>1, <1>4, <1>5, <1>6, <2>1, <2>3, <2>6, <2>7, <2>8, NextRowStep
<1>8. CASE me.cmd \notin ReadCommands
  <2>1. PICK b \in BOOLEAN : b = (me.cmd = "o" /\ me.in[1] # False)
    OBVIOUS
  <2>2. EndCall(t, b)
    BY <1>2, <1>8, <2>1 DEF ClientReceived
  <2>3. b => IF Gone(c) THEN Len(down[c]) <= 1
             ELSE Resting(c, key[c], handler[c], up[c], down[c], written[c])
    <3>1. SUFFICES ASSUME me.cmd = "o", me.in[1] # False
                   PROVE  IF Gone(c) THEN Len(down[c]) <= 1
                          ELSE Resting(c, key[c], handler[c], up[c], down[c], written[c])
      BY <2>1
    <3>2. Len(me.in) = 1
      BY <1>2, <1>3, <3>1 DEF Wanted, ReadCommands, WriteCommands
    <3>3. phase[c] = "connecting"
      BY <1>4, <3>1, ConnectingCommand
    <3>4. Gone(c) => Len(down[c]) <= 1
      BY <1>3, <1>4, <1>5, <3>2, <3>3, AnsweredOpened
    <3>5. ~Gone(c) => Resting(c, key[c], handler[c], up[c], down[c], written[c])
      BY <1>3, <1>4, <3>1, <3>2, StandingOpened
    <3> QED BY <3>4, <3>5
  <2>4. UNCHANGED <<up, broken, server, key, calls>>
    BY <1>3
  <2>5. t \in Threads /\ b \in BOOLEAN /\ thread[t].pc # "idle" /\ written[c] \in Images
    BY <1>4, <1>5
  <2> QED BY ONLY IInv, <1>1, <1>6, <2>2, <2>3, <2>4, <2>5, EndStep
<1> QED BY <1>7, <1>8

LEMMA ClientSendFailsStep ==
    ASSUME IInv, NEW t \in Threads, ClientSendFails(t)
    PROVE  IInv'
<1>1. PICK c \in Clients : c = Owner[t]
  BY DistributeCacheAssumption
<1>2. PICK me \in Calls : me = thread[t]
  BY Types
<1>3. /\ me.pc = "sending" /\ me.out # <<>> /\ Gone(c)
      /\ UNCHANGED <<up, broken, server, key, calls>> /\ written' = written
      /\ EndCall(t, me.cmd \in ReadCommands \cup WriteCommands)
  BY <1>1, <1>2 DEF ClientSendFails
<1>4. /\ Calling(phase[c], me) /\ phase[c] \in {"connecting", "ready"}
      /\ down[c] \in Seq(Units) /\ written[c] \in Images
      /\ Answered(c, phase[c], me, down[c], written[c])
  BY <1>1, <1>2, <1>3, CallParts
<1>5. ASSUME me.cmd \in ReadCommands \cup WriteCommands
      PROVE  Len(down[c]) <= 1
  <2>1. me.cmd # "o" /\ me.cmd # "d"
    BY <1>5 DEF ReadCommands, WriteCommands
  <2>2. phase[c] = "ready"
    BY <1>4, <2>1, ConnectingCommand
  <2>3. me.in = <<>> /\ ~Relinquished(me)
    BY <1>3, <1>4, <2>1 DEF Calling, Relinquished
  <2> QED BY <1>3, <1>4, <2>2, <2>3, AnsweredUnsent
<1>6. written' = [written EXCEPT ![c] = written[c]]
  BY <1>3, Types, Same
<1>7. thread[t].pc # "idle"
  BY <1>2, <1>3
<1>8. UNCHANGED <<up, broken, server, key, calls>>
  BY <1>3
<1>9. PICK b \in BOOLEAN : b = (me.cmd \in ReadCommands \cup WriteCommands)
  <2>1. (me.cmd \in ReadCommands \cup WriteCommands) \in BOOLEAN
    OBVIOUS
  <2> QED BY <2>1
<1>10. EndCall(t, b)
  BY <1>3, <1>9
<1>11. b => IF Gone(c) THEN Len(down[c]) <= 1
            ELSE Resting(c, key[c], handler[c], up[c], down[c], written[c])
  BY <1>3, <1>5, <1>9
<1>12. t \in Threads /\ b \in BOOLEAN /\ written[c] \in Images
  BY <1>4
<1> QED BY ONLY IInv, <1>1, <1>6, <1>7, <1>8, <1>10, <1>11, <1>12, EndStep

LEMMA ClientReceiveFailsStep ==
    ASSUME IInv, NEW t \in Threads, ClientReceiveFails(t)
    PROVE  IInv'
<1>1. PICK c \in Clients : c = Owner[t]
  BY DistributeCacheAssumption
<1>2. PICK me \in Calls : me = thread[t]
  BY Types
<1>3. /\ me.pc = "receiving" /\ Gone(c) /\ down[c] = <<>>
      /\ UNCHANGED <<up, broken, server, key, calls>> /\ written' = written
      /\ EndCall(t, me.cmd \in ReadCommands)
  BY <1>1, <1>2 DEF ClientReceiveFails, AtEnd
<1>4. written[c] \in Images
  BY Types
<1>5. Len(down[c]) <= 1
  <2>1. PICK y : y = Len(down[c])
    OBVIOUS
  <2>2. y = 0
    BY <1>3, <2>1
  <2>3. y <= 1
    BY ONLY <2>2
  <2> QED BY <2>1, <2>3
<1>6. written' = [written EXCEPT ![c] = written[c]]
  BY <1>3, Types, Same
<1>7. thread[t].pc # "idle"
  BY <1>2, <1>3
<1>8. UNCHANGED <<up, broken, server, key, calls>>
  BY <1>3
<1>9. PICK b \in BOOLEAN : b = (me.cmd \in ReadCommands)
  <2>1. (me.cmd \in ReadCommands) \in BOOLEAN
    OBVIOUS
  <2> QED BY <2>1
<1>10. EndCall(t, b)
  BY <1>3, <1>9
<1>11. b => IF Gone(c) THEN Len(down[c]) <= 1
            ELSE Resting(c, key[c], handler[c], up[c], down[c], written[c])
  BY <1>3, <1>5
<1>12. t \in Threads /\ b \in BOOLEAN /\ written[c] \in Images
  BY <1>4
<1> QED BY ONLY IInv, <1>1, <1>6, <1>7, <1>8, <1>10, <1>11, <1>12, EndStep

LEMMA NonceFailsStep ==
    ASSUME IInv, NEW t \in Threads, NonceFails(t)
    PROVE  IInv'
<1>1. PICK c \in Clients : c = Owner[t]
  BY DistributeCacheAssumption
<1>2. /\ thread[t].pc = "nonce" /\ EndCall(t, FALSE)
      /\ UNCHANGED <<up, broken, server, key, calls>> /\ written' = written
  BY DEF NonceFails, EndCall
<1>3. thread[t].pc # "idle"
  BY <1>2
<1>4. written[c] \in Images /\ written' = [written EXCEPT ![c] = written[c]]
  BY <1>2, Types, Same
<1>5. PICK b \in BOOLEAN : b = FALSE
  OBVIOUS
<1>6. EndCall(t, b) /\ (b => IF Gone(c) THEN Len(down[c]) <= 1
                             ELSE Resting(c, key[c], handler[c], up[c], down[c], written[c]))
  BY <1>2, <1>5
<1>7. UNCHANGED <<up, broken, server, key, calls>>
  BY <1>2
<1>8. t \in Threads /\ b \in BOOLEAN
  OBVIOUS
<1> QED BY ONLY IInv, <1>1, <1>3, <1>4, <1>6, <1>7, <1>8, EndStep

LEMMA ReceiveNonceStep ==
    ASSUME IInv, NEW t \in Threads, ReceiveNonce(t)
    PROVE  IInv'
<1>1. PICK c \in Clients : c = Owner[t]
  BY DistributeCacheAssumption
<1>2. PICK me \in Calls : me = thread[t]
  BY Types
<1>3. /\ me.pc = "nonce" /\ (down[c] # <<>> \/ Gone(c))
      /\ UNCHANGED <<up, ends, broken, server, phase, semaphore, calls, written>>
  BY <1>1, <1>2 DEF ReceiveNonce
<1>4. /\ Calling(phase[c], me) /\ handler[c] \in Handlers
      /\ up[c] \in Seq(Units) /\ down[c] \in Seq(Units)
      /\ (phase[c] = "connecting" => written[c] = NewImage)
      /\ (Gone(c) => Answered(c, phase[c], me, down[c], written[c]))
      /\ (~Gone(c) =>
           /\ Standing(c, phase[c], key[c], handler[c], me, up[c], down[c],
                       written[c], calls[c])
           /\ Typed(c, phase[c], key[c], handler[c], me, up[c], down[c], written[c], calls[c]))
  BY <1>1, <1>2, <1>3, CallParts
<1>5. phase[c] = "connecting" /\ me.cmd = "o" /\ me.in = <<>>
  BY <1>3, <1>4 DEF Calling
<1>6. down[c] \in AllKeys
  <2>1. CASE Gone(c)
    <3>1. down[c] \in Keys(c)
      BY <1>3, <1>4, <1>5, <2>1 DEF Answered
    <3> QED BY <3>1, NonceType
  <2>2. CASE ~Gone(c)
    <3>1. Greets(c, handler[c], up[c], down[c])
      BY <1>3, <1>4, <2>2 DEF Standing
    <3> QED BY <1>4, <3>1, GreetsKey
  <2> QED BY <2>1, <2>2
<1>7. PICK k \in AllKeys : k = down[c]
  BY <1>6
<1>8. PICK o \in Seq(Units) : o = OpenMessage(k)
  BY OpenUnits
<1>9. PICK you : you = [me EXCEPT !.pc = "sending", !.out = o]
  OBVIOUS
<1>10. /\ you \in Calls /\ you.pc = "sending" /\ you.cmd = me.cmd /\ you.region = me.region
       /\ you.row = me.row /\ you.in = me.in /\ you.out = o
  BY <1>9 DEF Calls
<1>11. thread' = [thread EXCEPT ![t] = you]
  <2>1. thread' = [thread EXCEPT ![t] = [thread[t] EXCEPT !.pc = "sending",
           !.out = << <<"command", "o">>, <<"key", down[c]>>, <<"args", Attributes>> >>]]
    BY <1>1 DEF ReceiveNonce
  <2> QED BY <1>2, <1>7, <1>8, <1>9, <2>1 DEF OpenMessage
<1>12. key' = [key EXCEPT ![c] = k]
  BY <1>1, <1>7 DEF ReceiveNonce
<1>13. PICK d \in Seq(Units) : d = <<>>
  <2>1. <<>> \in Seq(Units)
    OBVIOUS
  <2> QED BY <2>1
<1>14. down' = [down EXCEPT ![c] = d]
  BY <1>1, <1>13 DEF ReceiveNonce
<1>15. up' = [up EXCEPT ![c] = up[c]]
  BY <1>3, Types, Same
<1>16. Calling(phase[c], you)
  BY <1>5, <1>10 DEF Calling, ReadCommands, WriteCommands
<1>17. Gone(c) => Answered(c, phase[c], you, d, written[c])
  <2>1. you.in \o d = d
    BY <1>5, <1>10, ConcatEmptySeq
  <2>2. Len(you.in \o d) <= 2
    <3>1. PICK y : y = Len(you.in \o d)
      OBVIOUS
    <3>2. y = 0
      BY <1>13, <2>1, <3>1
    <3>3. y <= 2
      BY ONLY <3>2
    <3> QED BY <3>1, <3>3
  <2> QED BY <1>5, <1>10, <2>2 DEF Answered
<1>18. ~Gone(c) => Standing(c, phase[c], k, handler[c], you, up[c], d, written[c], calls[c])
  <2>1. SUFFICES ASSUME ~Gone(c)
                 PROVE  Standing(c, phase[c], k, handler[c], you, up[c], d, written[c], calls[c])
    OBVIOUS
  <2>2. /\ Standing(c, phase[c], key[c], handler[c], me, up[c], down[c],
                    written[c], calls[c])
        /\ Typed(c, phase[c], key[c], handler[c], me, up[c], down[c], written[c], calls[c])
        /\ down[c] # <<>> /\ written[c] = NewImage
    BY <1>3, <1>4, <1>5, <2>1
  <2>3. you.out = OpenMessage(down[c])
    BY <1>7, <1>8, <1>10
  <2>4. Standing(c, phase[c], down[c], handler[c], you, up[c], <<>>, written[c], calls[c])
    BY <1>3, <1>10, <2>2, <2>3, StandingNonce
  <2> QED BY <1>7, <1>13, <2>4
<1>19. thread[t].pc # "idle"
  BY <1>2, <1>3
<1>20. UNCHANGED <<ends, broken, server, phase, semaphore, calls, written>>
  BY <1>3
<1> QED BY <1>1, <1>4, <1>10, <1>11, <1>12, <1>14, <1>15, <1>16, <1>17, <1>18, <1>19, <1>20,
           WithinStep

LEMMA RelinquishStep ==
    ASSUME IInv, NEW t \in Threads, Relinquish(t)
    PROVE  IInv'
<1>1. PICK c \in Clients : c = Owner[t]
  BY DistributeCacheAssumption
<1>2. /\ phase[c] = "ready" /\ \A x \in Threads : Owner[x] = c => thread[x].pc = "idle"
      /\ UNCHANGED <<wires, server, phase, key, calls, written>>
  BY <1>1 DEF Relinquish
<1>3. Me(c).pc = "idle"
  <2>1. CASE semaphore[c] = NoOne
    BY <2>1, IdleCall DEF Me
  <2>2. CASE semaphore[c] # NoOne
    <3>1. semaphore[c] \in Threads /\ Owner[semaphore[c]] = c
      BY <2>2, Types, CacheParts DEF Held
    <3> QED BY <1>2, <2>2, <3>1 DEF Me
  <2> QED BY <2>1, <2>2
<1>4. /\ \A x \in Threads : Owner[x] = c => thread[x] = ThreadIdle
      /\ ~Gone(c) => Standing(c, "ready", key[c], handler[c], ThreadIdle, up[c],
                              down[c], written[c], calls[c])
  BY <1>2, <1>3, IdleParts
<1>5. /\ up[c] \in Seq(Units) /\ down[c] \in Seq(Units) /\ key[c] \in AllKeys
  BY Types
<1>6. PICK o \in Seq(Units) : o = << <<"command", "d">>, <<"key", key[c]>> >>
  <2>1. PICK x \in Units, y \in Units : x = <<"command", "d">> /\ y = <<"key", key[c]>>
    <3>1. "d" \in Cmds
      BY DEF Cmds
    <3> QED BY <1>5, <3>1, UnitKinds
  <2>2. <<x, y>> \in Seq(Units)
    OBVIOUS
  <2> QED BY <2>1, <2>2
<1>7. PICK you : you = [ThreadIdle EXCEPT !.pc = "sending", !.cmd = "d", !.out = o]
  OBVIOUS
<1>8. /\ you \in Calls /\ you.pc = "sending" /\ you.cmd = "d" /\ you.out = o
      /\ you.in = ThreadIdle.in
  <2>1. PICK me \in Calls : me = ThreadIdle
    BY IdleInCalls
  <2>2. "d" \in Cmds
    BY DEF Cmds
  <2> QED BY <1>7, <2>1, <2>2 DEF Calls
<1>9. thread' = [thread EXCEPT ![t] = you]
  <2>1. thread' = [thread EXCEPT ![t] = [thread[t] EXCEPT !.pc = "sending", !.cmd = "d",
                             !.out = << <<"command", "d">>, <<"key", key[c]>> >>]]
    BY <1>1 DEF Relinquish
  <2> QED BY <1>1, <1>4, <1>6, <1>7, <2>1
<1>10. semaphore' = [semaphore EXCEPT ![c] = t]
  BY <1>1 DEF Relinquish
<1>11. /\ up' = up /\ down' = down /\ ends' = ends /\ broken' = broken /\ handler' = handler
       /\ slot' = slot /\ backlog' = backlog /\ phase' = phase /\ key' = key
       /\ calls' = calls /\ written' = written
  BY <1>2 DEF wires, server
<1>12. Gone(c)' <=> Gone(c)
  BY <1>11 DEF Gone
<1>13. Calling("ready", you)
  BY <1>8, IdleCall DEF Calling, ReadCommands, WriteCommands
<1>14. Answered(c, "ready", you, down[c], written[c])
  BY <1>8 DEF Answered, Relinquished
<1>15. ~Gone(c) => Standing(c, "ready", key[c], handler[c], you, up[c], down[c],
                            written[c], calls[c])
  <2>1. ~Gone(c) => Resting(c, key[c], handler[c], up[c], down[c], written[c])
    BY <1>4, <1>5, StandingResting
  <2>2. you.in = <<>> /\ you.out = << <<"command", "d">>, <<"key", key[c]>> >>
    BY <1>6, <1>8, IdleCall
  <2> QED BY <1>5, <1>8, <2>1, <2>2, RestingRelinquish
<1>16. Brings(c, you)
  <2>1. phase'[c] = "ready" /\ Calling(phase'[c], you)
    BY <1>2, <1>11, <1>13
  <2>2. IF Gone(c)' THEN Answered(c, phase'[c], you, down'[c], written'[c])
        ELSE Standing(c, phase'[c], key'[c], handler[c], you, up'[c], down'[c],
                      written'[c], calls'[c])
    BY <1>2, <1>11, <1>12, <1>14, <1>15
  <2> QED BY <2>1, <2>2 DEF Brings
<1>17. backlog' \in Seq(Clients) /\ BacklogInv'
  BY <1>2, <1>11, SameBacklog
<1>18. ClientTypes' /\ OthersKept(c)
  BY <1>11, Types DEF ClientTypes, OthersKept
<1>19. /\ \A x \in Threads : Owner[x] = c /\ x # t => thread[x] = ThreadIdle
       /\ broken' = broken /\ handler' = handler /\ slot' = slot
       /\ t \in Threads /\ you \in Calls
  BY <1>4, <1>8, <1>11
<1> QED BY ONLY IInv, <1>1, <1>9, <1>10, <1>16, <1>17, <1>18, <1>19, CallStep

LEMMA ConnectStep ==
    ASSUME IInv, NEW t \in Threads, Connect(t)
    PROVE  IInv'
<1>1. PICK c \in Clients : c = Owner[t]
  BY DistributeCacheAssumption
<1>2. /\ phase[c] = "new" /\ broken' = broken /\ handler' = handler /\ slot' = slot
      /\ up' = up /\ down' = down /\ key' = key /\ calls' = calls /\ written' = written
      /\ phase' = [phase EXCEPT ![c] = "connecting"]
      /\ ends' = [ends EXCEPT ![c] = {"client", "server"}]
      /\ backlog' = Append(backlog, c)
      /\ semaphore' = [semaphore EXCEPT ![c] = t]
  BY <1>1 DEF Connect
<1>3. /\ handler[c].pc = "unstarted" /\ up[c] = <<>> /\ down[c] = <<>>
      /\ written[c] = NewImage
  BY <1>2, CacheParts
<1>4. Greets(c, handler[c], <<>>, <<>>)
  <2>1. handler[c] = [HandlerUnstarted EXCEPT !.pc = handler[c].pc]
    BY <1>3, CacheParts DEF Serving
  <2>2. handler[c].image = NoImage /\ handler[c].in = <<>> /\ ~handler[c].status
    BY <2>1 DEF HandlerUnstarted
  <2> QED BY <1>3, <2>2 DEF Greets
<1>5. Me(c).pc = "idle"
  <2>1. Me(c) = ThreadIdle
    BY <1>2, CacheParts DEF Calling
  <2> QED BY <2>1, IdleCall
<1>6. \A x \in Threads : Owner[x] = c => thread[x] = ThreadIdle
  BY <1>5, IdleParts
<1>7. PICK you : you = [ThreadIdle EXCEPT !.pc = "nonce", !.cmd = "o"]
  OBVIOUS
<1>8. /\ you \in Calls /\ you.pc = "nonce" /\ you.cmd = "o" /\ you.out = ThreadIdle.out
      /\ you.in = ThreadIdle.in
  <2>1. PICK me \in Calls : me = ThreadIdle
    BY IdleInCalls
  <2>2. "o" \in Cmds
    BY DEF Cmds
  <2> QED BY <1>7, <2>1, <2>2 DEF Calls
<1>9. thread' = [thread EXCEPT ![t] = you]
  <2>1. thread' = [thread EXCEPT ![t] = [thread[t] EXCEPT !.pc = "nonce", !.cmd = "o"]]
    BY DEF Connect
  <2> QED BY <1>1, <1>6, <1>7, <2>1
<1>10. /\ phase' \in [Clients -> {"new", "connecting", "ready", "closed"}]
       /\ phase'[c] = "connecting" /\ \A z \in Clients : z # c => phase'[z] = phase[z]
  BY <1>2, Types, Put
<1>11. /\ ends' \in [Clients -> SUBSET {"client", "server"}]
       /\ ends'[c] = {"client", "server"} /\ \A z \in Clients : z # c => ends'[z] = ends[z]
  BY <1>2, Types, Put
<1>12. backlog' \in Seq(Clients) /\ BacklogInv'
  <2>1. PICK q \in Seq(Clients) : q = backlog
    BY Types
  <2>2. PICK n \in Nat : n = Len(q)
    BY LenProperties
  <2>3. /\ Append(q, c) \in Seq(Clients) /\ Len(Append(q, c)) = n + 1
        /\ \A i \in 1..n : Append(q, c)[i] = q[i]
        /\ Append(q, c)[n + 1] = c
    BY <2>2, AppendProperties
  <2>4. /\ \A i \in 1..n : handler[q[i]].pc = "unstarted" /\ phase[q[i]] # "new"
        /\ \A i, j \in 1..n : q[i] = q[j] => i = j
    BY <2>1, <2>2 DEF IInv, BacklogInv
  <2>5. \A i \in 1..n : q[i] \in Clients /\ q[i] # c
    <3>1. \A i \in 1..n : q[i] \in Clients
      BY <2>2, ElementOfSeq
    <3> QED BY <1>2, <2>4, <3>1
  <2>6. \A i \in 1..(n + 1) : i \in 1..n \/ i = n + 1
    BY ONLY n \in Nat
  <2>7. ASSUME NEW i \in 1..(n + 1)
        PROVE  handler[Append(q, c)[i]].pc = "unstarted" /\ phase'[Append(q, c)[i]] # "new"
    <3>1. CASE i \in 1..n
      <4>1. Append(q, c)[i] = q[i] /\ q[i] \in Clients /\ q[i] # c
        BY <2>3, <2>5, <3>1
      <4>2. handler[q[i]].pc = "unstarted" /\ phase[q[i]] # "new"
        BY <2>4, <3>1
      <4>3. phase'[q[i]] = phase[q[i]]
        BY <1>10, <4>1
      <4> QED BY <4>1, <4>2, <4>3
    <3>2. CASE i = n + 1
      BY <1>3, <1>10, <2>3, <3>2
    <3> QED BY <2>6, <3>1, <3>2
  <2>8. ASSUME NEW i \in 1..(n + 1), NEW j \in 1..(n + 1), Append(q, c)[i] = Append(q, c)[j]
        PROVE  i = j
    <3>1. CASE i \in 1..n /\ j \in 1..n
      <4>1. q[i] = q[j]
        BY <2>3, <2>8, <3>1
      <4> QED BY <2>4, <3>1, <4>1
    <3>2. CASE i \in 1..n /\ j = n + 1
      <4>1. q[i] = c
        BY <2>3, <2>8, <3>2
      <4> QED BY <2>5, <3>2, <4>1
    <3>3. CASE j \in 1..n /\ i = n + 1
      <4>1. q[j] = c
        BY <2>3, <2>8, <3>3
      <4> QED BY <2>5, <3>3, <4>1
    <3> QED BY <2>6, <3>1, <3>2, <3>3
  <2>9. backlog' = Append(q, c) /\ 1..Len(backlog') = 1..(n + 1)
    BY <1>2, <2>1, <2>3
  <2>10. handler' = handler
    BY <1>2
  <2> QED BY <2>3, <2>7, <2>8, <2>9, <2>10 DEF BacklogInv
<1>13. Calling("connecting", you)
  BY <1>8, IdleCall DEF Calling, ReadCommands, WriteCommands
<1>14. Answered(c, "connecting", you, <<>>, written[c])
  BY <1>8, NonceType DEF Answered
<1>15. Standing(c, "connecting", key[c], handler[c], you, <<>>, <<>>, written[c], calls[c])
  BY <1>4, <1>8 DEF Standing
<1>16. Brings(c, you)
  <2>1. phase'[c] = "connecting" /\ Calling(phase'[c], you) /\ written'[c] = NewImage
    BY <1>2, <1>3, <1>10, <1>13
  <2>2. /\ Answered(c, phase'[c], you, down'[c], written'[c])
        /\ Standing(c, phase'[c], key'[c], handler[c], you, up'[c], down'[c],
                      written'[c], calls'[c])
    BY <1>2, <1>3, <1>10, <1>14, <1>15
  <2> QED BY <2>1, <2>2 DEF Brings
<1>17. ClientTypes' /\ OthersKept(c)
  BY <1>2, <1>10, <1>11, Types DEF ClientTypes, OthersKept
<1>18. /\ \A x \in Threads : Owner[x] = c /\ x # t => thread[x] = ThreadIdle
       /\ broken' = broken /\ handler' = handler /\ slot' = slot
       /\ semaphore' = [semaphore EXCEPT ![c] = t]
       /\ t \in Threads /\ you \in Calls
  BY <1>2, <1>6, <1>8
<1> QED BY ONLY IInv, <1>1, <1>9, <1>12, <1>16, <1>17, <1>18, CallStep

LEMMA BreakStep ==
    ASSUME IInv, NEW c \in Clients, Break(c)
    PROVE  IInv'
<1>1. /\ phase[c] \in {"connecting", "ready"} /\ broken' = broken \cup {c}
      /\ ends' = ends /\ backlog' = backlog /\ slot' = slot /\ handler' = handler
      /\ phase' = phase /\ key' = key /\ semaphore' = semaphore /\ thread' = thread
      /\ calls' = calls /\ written' = written
  BY DEF Break, server, client
<1>2. up[c] \in Seq(Units) /\ down[c] \in Seq(Units) /\ written[c] \in Images
  BY Types
<1>3. PICK m \in 0..Len(up[c]), n \in 0..Len(down[c]) :
         /\ up' = [up EXCEPT ![c] = SubSeq(up[c], 1, m)]
         /\ down' = [down EXCEPT ![c] = SubSeq(down[c], 1, n)]
  BY DEF Break
<1>4. PICK u \in Seq(Units) : u = SubSeq(up[c], 1, m)
  BY <1>2, Shorter
<1>5. PICK d \in Seq(Units) : d = SubSeq(down[c], 1, n)
  BY <1>2, Shorter
<1>6. /\ up' \in [Clients -> Seq(Units)] /\ up'[c] = u
      /\ \A z \in Clients : z # c => up'[z] = up[z]
  BY <1>3, <1>4, Types, Put
<1>7. /\ down' \in [Clients -> Seq(Units)] /\ down'[c] = d
      /\ \A z \in Clients : z # c => down'[z] = down[z]
  BY <1>3, <1>5, Types, Put
<1>8. Gone(c)'
  BY <1>1 DEF Gone
<1>9. Me(c) \in Calls /\ Calling(phase[c], Me(c)) /\ Me(c).in \in Seq(Units)
  BY CacheParts DEF Calls
<1>10. Answered(c, phase[c], Me(c), down[c], written[c])
  BY CacheParts, StandingAnswered DEF Linked
<1>11. Answered(c, phase[c], Me(c), d, written[c])
  BY <1>2, <1>5, <1>9, <1>10, AnsweredShorter
<1>12. TypeInv'
  BY <1>1, <1>6, <1>7, Types DEF TypeInv
<1>13. BacklogInv'
  BY <1>1 DEF IInv, BacklogInv
<1>14. \A x \in Clients : x # c => Kept(x)
  BY <1>1, <1>6, <1>7 DEF Kept
<1>15. Me(c)' = Me(c) /\ (Held(c)' <=> Held(c))
  BY <1>1 DEF Me, Held
<1>16. CacheInv(c)'
  <2>1. CacheInv(c)
    BY DEF IInv
  <2>2. Answered(c, phase'[c], Me(c)', down'[c], written'[c])
    BY <1>1, <1>7, <1>11, <1>15
  <2> QED BY <1>1, <1>8, <1>15, <2>1, <2>2 DEF CacheInv
<1> QED BY <1>12, <1>13, <1>14, <1>16, StepInv

LEMMA CrashStep ==
    ASSUME IInv, NEW c \in Clients, Crash(c)
    PROVE  IInv'
<1>1. /\ phase[c] \in {"connecting", "ready"}
      /\ phase' = [phase EXCEPT ![c] = "closed"]
      /\ ends' = [ends EXCEPT ![c] = ends[c] \ {"client"}]
      /\ down' = [down EXCEPT ![c] = <<>>]
      /\ thread' = [t \in Threads |-> IF Owner[t] = c THEN ThreadIdle ELSE thread[t]]
      /\ semaphore' = [semaphore EXCEPT ![c] = NoOne]
      /\ up' = up /\ broken' = broken /\ backlog' = backlog /\ slot' = slot
      /\ handler' = handler /\ key' = key /\ calls' = calls /\ written' = written
  BY DEF Crash, Closed, server
<1>2. /\ phase' \in [Clients -> {"new", "connecting", "ready", "closed"}]
      /\ phase'[c] = "closed" /\ \A z \in Clients : z # c => phase'[z] = phase[z]
  BY <1>1, Types, Put
<1>3. /\ ends' \in [Clients -> SUBSET {"client", "server"}]
      /\ ends'[c] = ends[c] \ {"client"}
      /\ \A z \in Clients : z # c => ends'[z] = ends[z]
  <2>1. ends[c] \ {"client"} \in SUBSET {"client", "server"}
    BY Types
  <2> QED BY <1>1, <2>1, Types, Put
<1>4. /\ down' \in [Clients -> Seq(Units)] /\ \A z \in Clients : z # c => down'[z] = down[z]
  <2>1. <<>> \in Seq(Units)
    OBVIOUS
  <2> QED BY <1>1, <2>1, Types, Put
<1>5. /\ semaphore' \in [Clients -> Threads \cup {NoOne}] /\ semaphore'[c] = NoOne
      /\ \A z \in Clients : z # c => semaphore'[z] = semaphore[z]
  BY <1>1, Types, Put
<1>6. /\ thread' \in [Threads -> Calls]
      /\ \A t \in Threads : Owner[t] = c => thread'[t] = ThreadIdle
      /\ \A t \in Threads : Owner[t] # c => thread'[t] = thread[t]
  <2>1. \A t \in Threads : (IF Owner[t] = c THEN ThreadIdle ELSE thread[t]) \in Calls
    BY Types, IdleInCalls
  <2> QED BY <1>1, <2>1
<1>7. TypeInv'
  BY <1>1, <1>2, <1>3, <1>4, <1>5, <1>6, Types DEF TypeInv
<1>8. BacklogInv'
  BY <1>1, <1>2, SameBacklog
<1>9. \A x \in Clients : x # c => Kept(x)
  BY <1>1, <1>2, <1>3, <1>4, <1>5, <1>6 DEF Kept
<1>10. Me(c)' = ThreadIdle
  BY <1>5 DEF Me
<1>11. Held(c)'
  BY <1>5, <1>6, DistributeCacheAssumption DEF Held
<1>12. Gone(c)'
  BY <1>3 DEF Gone
<1>13. Answered(c, phase'[c], ThreadIdle, down'[c], written'[c])
  BY <1>2, AnsweredClosed
<1>14. Calling(phase'[c], ThreadIdle)
  BY <1>2, IdleCalling
<1>15. Serving(c, handler'[c])
  BY <1>1, CacheParts
<1>16. CacheInv(c)'
  BY <1>2, <1>3, <1>10, <1>11, <1>12, <1>13, <1>14, <1>15 DEF CacheInv
<1> QED BY <1>7, <1>8, <1>9, <1>16, StepInv

LEMMA OtherStep ==
    ASSUME IInv, UNCHANGED <<wires, server, client>>
    PROVE  IInv'
<1>1. /\ up' = up /\ down' = down /\ ends' = ends /\ broken' = broken
      /\ backlog' = backlog /\ slot' = slot /\ handler' = handler
      /\ phase' = phase /\ key' = key /\ semaphore' = semaphore /\ thread' = thread
      /\ calls' = calls /\ written' = written
  BY DEF wires, server, client
<1>2. TypeInv'
  BY <1>1, Types DEF TypeInv
<1>3. BacklogInv'
  BY <1>1 DEF IInv, BacklogInv
<1>4. \A x \in Clients : Kept(x)
  BY <1>1 DEF Kept
<1>5. \A x \in Clients : CacheInv(x)'
  BY <1>4, Frame DEF IInv
<1> QED BY <1>2, <1>3, <1>5 DEF IInv

-----------------------------------------------------------------------------
(* The invariant holds                                                     *)

LEMMA InitInv == Init => IInv
<1> SUFFICES ASSUME Init PROVE IInv
  OBVIOUS
<1>1. PICK h \in Handlers : h = HandlerUnstarted
  <2>1. <<>> \in Seq(Units)
    OBVIOUS
  <2>2. HandlerUnstarted \in Handlers
    BY <2>1 DEF HandlerUnstarted, Handlers
  <2> QED BY <2>2
<1>2. Serving(NoOne, h) /\ \A c : Serving(c, h)
  <2>1. h.pc = "unstarted" /\ h.out = <<>>
    BY <1>1 DEF HandlerUnstarted
  <2>2. h = [h EXCEPT !.pc = "unstarted"]
    BY <2>1 DEF Handlers
  <2>3. h = [HandlerUnstarted EXCEPT !.pc = h.pc]
    BY <1>1, <2>1, <2>2
  <2> QED BY <2>1, <2>3 DEF Serving
<1>3. NewImage \in Images
  BY PaintedType DEF NewImage
<1>4. TypeInv
  <2>1. \A c \in Clients : <<>> \in AllKeys
    BY NonceType
  <2>2. <<>> \in Seq(Units) /\ <<>> \in Seq(Clients)
    OBVIOUS
  <2> QED BY <1>1, <1>3, <2>1, <2>2, IdleInCalls DEF Init, TypeInv
<1>5. BacklogInv
  BY DEF Init, BacklogInv
<1>6. ASSUME NEW c \in Clients
      PROVE  CacheInv(c)
  <2>1. /\ phase[c] = "new" /\ handler[c] = h /\ up[c] = <<>> /\ down[c] = <<>>
        /\ ends[c] = {} /\ written[c] = NewImage /\ semaphore[c] = NoOne
        /\ \A t \in Threads : thread[t] = ThreadIdle
    BY <1>1 DEF Init
  <2>2. Me(c) = ThreadIdle /\ Held(c)
    BY <2>1, DistributeCacheAssumption DEF Me, Held
  <2>3. Calling("new", ThreadIdle)
    BY DEF Calling, ThreadIdle, ReadCommands, WriteCommands
  <2>4. Gone(c)
    BY <2>1 DEF Gone
  <2>5. Answered(c, "new", ThreadIdle, down[c], written[c])
    BY AnsweredClosed
  <2>6. h.pc = "unstarted"
    BY <1>1 DEF HandlerUnstarted
  <2> QED BY <1>2, <2>1, <2>2, <2>3, <2>4, <2>5, <2>6 DEF CacheInv
<1> QED BY <1>4, <1>5, <1>6 DEF IInv

LEMMA NextInv == IInv /\ FetchedInTime /\ [Next]_vars => IInv'
<1> SUFFICES ASSUME IInv, FetchedInTime, [Next]_vars PROVE IInv'
  OBVIOUS
<1>1. CASE Accept
  BY <1>1, AcceptStep
<1>2. ASSUME NEW t \in Threads, ThreadStep(t)
      PROVE  IInv'
  BY <1>2, ReceiveNonceStep, NonceFailsStep, ClientSendStep, ClientSentStep,
     ClientSendFailsStep, ClientReceiveStep, ClientReceivedStep, ClientReceiveFailsStep
     DEF ThreadStep
<1>3. ASSUME NEW h \in Clients, HandlerStep(h)
      PROVE  IInv'
  BY <1>3, FetchStep, ServerSendStep, ServerSendFailsStep, ServerSentStep, CloseStep,
     ReadCommandStep, ReadKeyStep, OpenStep, ReadRegionStep, WriteRegionStep, ReadDataStep,
     SyncRegionStep, ServerReadFailsStep DEF HandlerStep
<1>4. ASSUME NEW t \in Threads, Connect(t) \/ Relinquish(t)
      PROVE  IInv'
  BY <1>4, ConnectStep, RelinquishStep
<1>5. ASSUME NEW t \in Threads, NEW cmd \in ReadCommands \cup WriteCommands,
             NEW region \in Regions, BeginCall(t, cmd, region)
      PROVE  IInv'
  BY <1>5, BeginCallStep
<1>6. ASSUME NEW c \in Clients, Break(c) \/ Crash(c)
      PROVE  IInv'
  BY <1>6, BreakStep, CrashStep
<1>7. ASSUME NEW agent, Interrupt(agent)
      PROVE  IInv'
  BY <1>7, OtherStep DEF Interrupt
<1>8. CASE UNCHANGED vars
  BY <1>8, OtherStep DEF vars
<1> QED BY <1>1, <1>2, <1>3, <1>4, <1>5, <1>6, <1>7, <1>8 DEF Next, Progress

(* Whatever fails, and however the steps of the programs, of the accept    *)
(* loop and of the server threads interleave, the connection of every      *)
(* cache is in one of the states of IInv, as long as client_socket is read *)
(* in time.                                                                *)
THEOREM Invariance == Spec => ([]FetchedInTime => []IInv)
<1>1. Init => IInv
  BY InitInv
<1>2. IInv /\ FetchedInTime /\ [Next]_vars => IInv'
  BY NextInv
<1> QED BY <1>1, <1>2, PTL DEF Spec

LEMMA InvReads ==
    ASSUME IInv, RowWords > 1
    PROVE  ReadsReturnWritten
<1> SUFFICES ASSUME NEW t \in Threads, thread[t].pc = "receiving",
                    thread[t].cmd \in ReadCommands, Len(thread[t].in) = Wanted(t)
             PROVE  thread[t].in
                    = Content(written[Owner[t]], Plane(thread[t].cmd), thread[t].row,
                              LastOf(thread[t].region, thread[t].row))
  BY DEF ReadsReturnWritten
<1>1. PICK c \in Clients : c = Owner[t]
  BY DistributeCacheAssumption
<1>2. PICK me \in Calls : me = thread[t]
  BY Types
<1>3. /\ Calling(phase[c], me) /\ phase[c] \in {"connecting", "ready"}
      /\ up[c] \in Seq(Units) /\ down[c] \in Seq(Units) /\ handler[c] \in Handlers
      /\ written[c] \in Images
      /\ (Gone(c) => Answered(c, phase[c], me, down[c], written[c]))
      /\ (~Gone(c) =>
           /\ Standing(c, phase[c], key[c], handler[c], me, up[c], down[c],
                       written[c], calls[c])
           /\ Typed(c, phase[c], key[c], handler[c], me, up[c], down[c], written[c], calls[c]))
  BY <1>1, <1>2, CallParts
<1>4. me.in \in Seq(Units) /\ handler[c].out \in Seq(Units) /\ me.pc = "receiving"
      /\ me.cmd \in ReadCommands
  BY <1>2, <1>3 DEF Calls, Handlers
<1>5. Len(me.in) = Count(me.row, LastOf(me.region, me.row))
  <2>1. Wanted(t) = Count(me.row, LastOf(me.region, me.row))
    <3>1. thread[t] = me /\ me.cmd \notin WriteCommands
      BY <1>2, <1>4 DEF ReadCommands, WriteCommands
    <3> QED BY <1>4, <3>1 DEF Wanted
  <2> QED BY <1>2, <2>1
<1>6. phase[c] = "ready"
  <2>1. me.cmd # "o"
    BY <1>4 DEF ReadCommands
  <2> QED BY <1>3, <2>1, ConnectingCommand
<1>7. CASE Gone(c)
  BY <1>1, <1>2, <1>3, <1>4, <1>5, <1>6, <1>7, AnsweredRows
<1>8. CASE ~Gone(c)
  <2>1. PICK i \in Seq(Units), d \in Seq(Units), o \in Seq(Units) :
           i = me.in /\ d = down[c] /\ o = handler[c].out
    BY <1>3, <1>4
  <2>2. PICK x \in Nat, y \in Nat, z \in Nat : x = Len(i) /\ y = Len(d) /\ z = Len(o)
    BY LenProperties
  <2>3. x > 1
    <3>1. x >= RowWords /\ RowWords \in Nat
      BY <1>3, <1>4, <1>5, <2>1, <2>2, ReplyType, DistributeCacheAssumption
    <3> QED BY ONLY <3>1, RowWords > 1, x \in Nat
  <2>4. /\ Len((i \o d) \o o) = x + y + z /\ Len(i \o d) = x + y
    BY <2>2, FewerWords
  <2>5. x + y + z > 1 /\ ~(x + y + z <= 1) /\ ~(x + y + z + 1 <= 1)
    BY ONLY <2>3, x \in Nat, y \in Nat, z \in Nat
  <2>6. ~Misled(c, "ready", key[c], handler[c], up[c] \o me.out, i \o d)
    <3>1. SUFFICES ASSUME Misled(c, "ready", key[c], handler[c], up[c] \o me.out, i \o d)
                   PROVE  FALSE
      OBVIOUS
    <3>2. PICK e \in Nat : e = IF handler[c].pc = "leaving" THEN 0 ELSE 1
      OBVIOUS
    <3>3. PICK v \in Nat : v = Len(i \o d) /\ v = x + y
      BY <2>4
    <3>4. v + z + e <= 1
      BY <2>1, <2>2, <3>1, <3>2, <3>3 DEF Misled
    <3>5. FALSE
      BY ONLY <2>3, <3>3, <3>4, v \in Nat, e \in Nat, x \in Nat, y \in Nat, z \in Nat
    <3> QED BY <3>5
  <2>7. ~Fails("ready", handler[c], i \o d)
    BY <2>1, <2>4, <2>5 DEF Fails
  <2>8. ~Relinquished(me) /\ me.pc # "nonce"
    BY <1>4 DEF Relinquished, ReadCommands
  <2>9. Follows(c, handler[c], up[c] \o me.out, me.in \o down[c], AskedBy(me),
                Goal(me, written[c], calls[c]))
    BY <1>3, <1>6, <1>8, <2>1, <2>6, <2>7, <2>8 DEF Standing
  <2>10. /\ Standing(c, phase[c], key[c], handler[c], me, up[c], down[c],
                     written[c], calls[c])
         /\ Typed(c, phase[c], key[c], handler[c], me, up[c], down[c], written[c], calls[c])
    BY <1>3, <1>8
  <2>11. me.in = Content(written[c], Plane(me.cmd), me.row, LastOf(me.region, me.row))
    BY <1>4, <1>5, <2>9, <2>10, StandingRows
  <2> QED BY <1>1, <1>2, <2>11
<1> QED BY <1>7, <1>8

(* What a read call has received when it returns is what the calls before  *)
(* it wrote (ReadDistributePixelCachePixels and its twin), whatever failed *)
(* in between, of any number of caches, threads, rows and calls.  A row of *)
(* one word is left out: there a last status passes for it.                *)
THEOREM ReadsCorrect ==
    ASSUME RowWords > 1
    PROVE  Spec => ([]FetchedInTime => []ReadsReturnWritten)
<1>1. Spec => ([]FetchedInTime => []IInv)
  BY Invariance
<1>2. IInv => ReadsReturnWritten
  BY InvReads
<1> QED BY <1>1, <1>2, PTL

LEMMA InvServer == IInv => ServerUpToDate
<1> SUFFICES ASSUME IInv, NEW h \in Clients, handler[h].pc = "command",
                    ~Gone(handler[h].conn), up[handler[h].conn] = <<>>,
                    phase[handler[h].conn] = "ready", semaphore[handler[h].conn] = NoOne,
                    key[handler[h].conn] = Nonce(h)
             PROVE  /\ handler[h].image = written[handler[h].conn]
                    /\ down[handler[h].conn] = <<>>
  BY DEF ServerUpToDate
<1>1. handler[h].conn = h /\ down[h] \in Seq(Units) /\ up[h] \in Seq(Units)
      /\ handler[h].out \in Seq(Units)
  BY ServerParts
<1>2. Me(h) = ThreadIdle
  BY <1>1 DEF Me
<1>3. Standing(h, "ready", key[h], handler[h], ThreadIdle, up[h], down[h], written[h],
               calls[h])
  BY <1>1, <1>2, IdleCall, IdleParts
<1>4. Resting(h, key[h], handler[h], up[h], down[h], written[h])
  BY <1>1, <1>3, StandingResting
<1>5. ~Fails("ready", handler[h], down[h])
  BY DEF Fails
<1>6. Follows(h, handler[h], <<>>, down[h], Nothing, written[h])
  BY <1>1, <1>4, <1>5 DEF Resting
<1>7. down[h] = <<>>
  <2>1. Nothing.cmd = "none"
    BY DEF Nothing, Asked
  <2> QED BY <1>1, <1>6, <2>1, FollowsNothing
<1>8. PICK T : IsAt(handler[h], T[1]) /\ Path(h, <<>>, Nothing, written[h], T)
  BY <1>6 DEF Follows
<1>9. T[1].at = "command" /\ T[1].image = written[h]
  BY <1>8, PathEnd
<1>10. handler[h].image = written[h]
  BY <1>8, <1>9 DEF IsAt
<1> QED BY <1>1, <1>7, <1>10

(* A write is not answered: still, a server thread that waits for the next *)
(* command on a quiet connection has stored what all the calls wrote, and  *)
(* nothing lies about that a later call could take for its reply.          *)
THEOREM ServerCorrect == Spec => ([]FetchedInTime => []ServerUpToDate)
<1>1. Spec => ([]FetchedInTime => []IInv)
  BY Invariance
<1>2. IInv => ServerUpToDate
  BY InvServer
<1> QED BY <1>1, <1>2, PTL

-----------------------------------------------------------------------------
(* A server of one cache                                                   *)

\* client_socket is set before a server thread is there.
SlotInv == slot = NoOne => \A h \in Clients : handler[h].pc = "unstarted"

LEMMA SlotStep ==
    ASSUME IInv, SlotInv, [Next]_vars
    PROVE  SlotInv'
<1>1. ASSUME slot' \in Clients
      PROVE  SlotInv'
  BY <1>1, DistributeCacheAssumption DEF SlotInv
<1>2. ASSUME slot' = slot, handler' = handler
      PROVE  SlotInv'
  BY <1>2 DEF SlotInv
<1>3. CASE Accept
  <2>1. Head(backlog) \in Clients
    <3>1. backlog \in Seq(Clients) /\ backlog # <<>>
      BY <1>3, Types DEF Accept
    <3> QED BY <3>1, HeadTailProperties
  <2> QED BY <1>1, <1>3, <2>1 DEF Accept
<1>4. ASSUME NEW t \in Threads, ThreadStep(t)
      PROVE  SlotInv'
  BY <1>2, <1>4 DEF ThreadStep, ReceiveNonce, NonceFails, ClientSend, ClientSent,
     ClientSendFails, ClientReceive, ClientReceived, ClientReceiveFails, server
<1>5. ASSUME NEW h \in Clients, HandlerStep(h)
      PROVE  SlotInv'
  <2>1. handler[h].pc # "unstarted"
    BY <1>5 DEF HandlerStep, Fetch, ServerSend, ServerSendFails, ServerSent, Close,
       ReadCommand, ReadKey, Open, ReadRegion, WriteRegion, ReadData, SyncRegion,
       ServerReadFails, Replying
  <2>2. slot' = slot
    BY <1>5 DEF HandlerStep, Fetch, ServerSend, ServerSendFails, ServerSent, Close,
       ReadCommand, ReadKey, Open, ReadRegion, WriteRegion, ReadData, SyncRegion,
       ServerReadFails, Take
  <2>3. slot \in Clients
    BY <2>1, Types DEF SlotInv
  <2> QED BY <1>1, <2>2, <2>3
<1>6. ASSUME NEW t \in Threads, Connect(t) \/ Relinquish(t)
      PROVE  SlotInv'
  BY <1>2, <1>6 DEF Connect, Relinquish, server
<1>7. ASSUME NEW t \in Threads, NEW cmd, NEW region, BeginCall(t, cmd, region)
      PROVE  SlotInv'
  BY <1>2, <1>7 DEF BeginCall, server
<1>8. ASSUME NEW c \in Clients, Break(c) \/ Crash(c)
      PROVE  SlotInv'
  BY <1>2, <1>8 DEF Break, Crash, server
<1>9. ASSUME NEW agent, Interrupt(agent)
      PROVE  SlotInv'
  BY <1>2, <1>9 DEF Interrupt, server
<1>10. CASE UNCHANGED vars
  BY <1>2, <1>10 DEF vars, server
<1> QED BY <1>3, <1>4, <1>5, <1>6, <1>7, <1>8, <1>9, <1>10 DEF Next, Progress

(* A server that has one cache reads client_socket in time, so that there  *)
(* what reads return and what the server thread holds are right without    *)
(* that condition.                                                         *)
THEOREM OneCacheCorrect ==
    ASSUME \A c, d \in Clients : c = d
    PROVE  Spec => [](/\ FetchedInTime /\ ServerUpToDate
                      /\ RowWords > 1 => ReadsReturnWritten)
<1>1. Init => IInv /\ SlotInv
  <2>1. Init => SlotInv
    BY DEF Init, SlotInv, HandlerUnstarted
  <2> QED BY <2>1, InitInv
<1>2. IInv /\ SlotInv => FetchedInTime
  <2>1. SUFFICES ASSUME IInv, SlotInv, NEW h \in Clients, handler[h].pc = "created"
                 PROVE  slot = h
    BY DEF FetchedInTime
  <2>2. slot \in Clients
    BY <2>1, Types DEF SlotInv
  <2> QED BY <2>2
<1>3. IInv /\ SlotInv /\ [Next]_vars => (IInv /\ SlotInv)'
  BY <1>2, NextInv, SlotStep
<1>4. IInv /\ SlotInv => /\ FetchedInTime /\ ServerUpToDate
                         /\ RowWords > 1 => ReadsReturnWritten
  BY <1>2, InvServer, InvReads
<1> QED BY <1>1, <1>3, <1>4, PTL DEF Spec
=============================================================================
