---------------------------- MODULE DistributeCache ----------------------------
(***************************************************************************)
(* The distributed pixel cache (MagickCore/distribute-cache.c): a pixel    *)
(* cache that fits neither memory nor disk is kept by a server, one        *)
(* connection and one server thread per cache.  The calling side of        *)
(* cache.c is included: the connection is opened by OpenPixelCache,        *)
(* regions go row by row or whole through ReadPixelCachePixels and         *)
(* WritePixelCachePixels (and their metacontent twins) with file_semaphore *)
(* held, and the last owner relinquishes it.                               *)
(*                                                                         *)
(* A connection is two streams of units.  A request is three units (the    *)
(* command, the session key, the attributes or the region and length), as  *)
(* the server reads it with three calls of dpc_read; everything else is    *)
(* words of four bytes: a status is one word, a nonce two, a row of either *)
(* plane RowWords.  dpc_send and dpc_read move one unit a step, so that    *)
(* the connection may break between any two.  GetMagickSignature is taken  *)
(* to be injective: a key is the sequence of nonce words it was made of.   *)
(***************************************************************************)
EXTENDS Integers, Sequences, FiniteSets

CONSTANTS
    Clients,        \* the distributed pixel caches, each with its connection
    Threads,        \* the threads that use them
    Owner,          \* [Threads -> Clients]: the cache a thread uses
    Masters,        \* the threads that open and destroy the caches
    NoOne,          \* no thread, no connection, no region
    Rows,           \* number of rows of an image
    RowWords,       \* words in a row of pixels, and of metacontent
    Regions,        \* the regions calls ask for: [first, last, whole]
    Capacity,       \* units a direction of a connection holds
    MaxCalls,       \* bound: read and write calls per cache
    MaxFaults,      \* bound: failures on the server, breaks, crashes
    MaxInterrupts   \* bound: recv calls a signal interrupts

ASSUME DistributeCacheAssumption ==
    /\ Rows \in Nat /\ RowWords \in Nat \ {0}
    /\ Owner \in [Threads -> Clients] /\ Masters \subseteq Threads
    /\ Regions \subseteq [first : 1..Rows, last : 1..Rows, whole : BOOLEAN]
    /\ \A region \in Regions : region.first <= region.last
    /\ NoOne \notin Threads \cup Clients

VARIABLES
    up, down,       \* the units under way to the server and to the client
    ends,           \* the ends of the connection that are open
    broken,         \* the connections the network has cut
    backlog,        \* connections not accepted yet
    slot,           \* client_socket of DistributePixelCacheServer
    handler,        \* DistributePixelCacheClient, one thread per connection
    phase, key,     \* server_info: of the cache, and its session_key
    semaphore,      \* file_semaphore of the cache
    thread,         \* the call a thread is in
    calls,          \* calls made on the cache
    written,        \* history: what the calls wrote, in semaphore order
    eintr,          \* the agents whose errno is EINTR
    faults, interrupts

wires == <<up, down, ends, broken>>
server == <<backlog, slot, handler>>
client == <<phase, key, semaphore, thread, calls, written>>
environment == <<eintr, faults, interrupts>>
vars == <<wires, server, client, environment>>

Planes == {"pixels", "metacontent"}
ReadCommands == {"r", "R"}
WriteCommands == {"w", "W"}
Plane(cmd) == IF cmd \in {"r", "w"} THEN "pixels" ELSE "metacontent"

NoImage == <<>>
False == <<"status", FALSE>>
Status(b) == <<"status", b>>
Nonce(h) == << <<"nonce", h, 1>>, <<"nonce", h, 2>> >>
RowData(plane, n, row) ==
    [k \in 1..RowWords |-> <<"data", plane, n, row, k>>]
Attributes == [first |-> 0, last |-> 0]
Painted(n) == [p \in Planes |-> [row \in 1..Rows |-> RowData(p, n, row)]]
NewImage == Painted(0)

\* How many words rows first to last of a plane have, and these words.
Count(first, last) == (last - first + 1) * RowWords
Content(image, plane, first, last) ==
    [i \in 1..Count(first, last) |->
        image[plane][first + ((i - 1) \div RowWords)][1 + ((i - 1) % RowWords)]]

\* The image with those rows replaced by the words.
Store(image, plane, first, last, words) ==
    [image EXCEPT ![plane] = [row \in 1..Rows |->
        IF row \in first..last
        THEN SubSeq(words, (row - first) * RowWords + 1,
                           (row - first + 1) * RowWords)
        ELSE @[row]]]

\* The image once call n has written them.
Replaced(image, plane, first, last, n) ==
    [image EXCEPT ![plane] = [row \in 1..Rows |->
        IF row \in first..last THEN RowData(plane, n, row) ELSE @[row]]]

----------------------------------------------------------------------------
(* The connection.                                                          *)

Agents == Threads \cup Clients

\* An end of the connection is closed, or the network has cut it: what is
\* sent now goes nowhere, and send() may report it or not.
Gone(c) == c \in broken \/ ends[c] # {"client", "server"}

\* recv() finds the end of the stream.  It leaves errno alone when the peer
\* has closed, so an agent whose last error was EINTR calls it for ever.
AtEnd(stream, c, agent) ==
    /\ Gone(c)
    /\ stream[c] = <<>>
    /\ agent \notin eintr \/ c \in broken

ThreadIdle == [pc |-> "idle", cmd |-> "d", region |-> NoOne, row |-> 0,
               out |-> <<>>, in |-> <<>>]
HandlerUnstarted == [pc |-> "unstarted", conn |-> NoOne, command |-> <<>>,
                     args |-> NoOne, image |-> NoImage, status |-> FALSE,
                     out |-> <<>>, in |-> <<>>]

Init ==
    /\ up = [c \in Clients |-> <<>>]
    /\ down = [c \in Clients |-> <<>>]
    /\ ends = [c \in Clients |-> {}]
    /\ broken = {}
    /\ backlog = <<>>
    /\ slot = NoOne
    /\ handler = [h \in Clients |-> HandlerUnstarted]
    /\ phase = [c \in Clients |-> "new"]
    /\ key = [c \in Clients |-> <<>>]
    /\ semaphore = [c \in Clients |-> NoOne]
    /\ thread = [t \in Threads |-> ThreadIdle]
    /\ calls = [c \in Clients |-> 0]
    /\ written = [c \in Clients |-> NewImage]
    /\ eintr = {}
    /\ faults = 0
    /\ interrupts = 0

----------------------------------------------------------------------------
(* The client: one call of the functions below is in progress per cache, by *)
(* the thread that holds file_semaphore (or opens or destroys the cache).   *)

Request(c, cmd, args) == << <<"command", cmd>>, <<"key", key[c]>>, <<"args", args>> >>

\* The rows the message for row carries: all of them, or the row alone.
LastOf(region, row) == IF region.whole THEN region.last ELSE row

\* Mutant: region.y++ is left out.
RegionMessage_same_row(c, cmd, region, row, n) ==
    LET last == LastOf(region, row)
    IN  Request(c, cmd, [first |-> region.first, last |-> region.first + (last - row)])
        \o (IF cmd \in WriteCommands
            THEN Content(Painted(n), Plane(cmd), row, last)
            ELSE <<>>)

RegionMessage(c, cmd, region, row, n) ==
    LET last == LastOf(region, row)
    IN  Request(c, cmd, [first |-> row, last |-> last])
        \o (IF cmd \in WriteCommands
            THEN Content(Painted(n), Plane(cmd), row, last)
            ELSE <<>>)

\* The words a call waits for once its message is out.
Wanted(t) ==
    CASE thread[t].cmd \in ReadCommands ->
             Count(thread[t].row, LastOf(thread[t].region, thread[t].row))
      [] thread[t].cmd \in WriteCommands -> 0
      [] OTHER -> 1

Closed(c) ==
    /\ phase' = [phase EXCEPT ![c] = "closed"]
    /\ ends' = [ends EXCEPT ![c] = @ \ {"client"}]
    /\ down' = [down EXCEPT ![c] = <<>>]

\* AcquireDistributeCacheInfo, ConnectPixelCacheServer: the connection stands
\* as soon as the kernel has queued it, accepted or not.
Connect(t) ==
    LET c == Owner[t]
    IN  /\ t \in Masters
        /\ phase[c] = "new"
        /\ phase' = [phase EXCEPT ![c] = "connecting"]
        /\ ends' = [ends EXCEPT ![c] = {"client", "server"}]
        /\ backlog' = Append(backlog, c)
        /\ semaphore' = [semaphore EXCEPT ![c] = t]
        /\ thread' = [thread EXCEPT ![t] = [@ EXCEPT !.pc = "nonce", !.cmd = "o"]]
        /\ UNCHANGED <<up, down, broken, slot, handler, key, calls, written,
                       environment>>

\* The single recv() of the nonce: it takes what has arrived, makes the key
\* of it, and OpenDistributePixelCache sends the first request.
ReceiveNonce(t) ==
    LET c == Owner[t]
    IN  /\ thread[t].pc = "nonce"
        /\ down[c] # <<>> \/ Gone(c)
        /\ key' = [key EXCEPT ![c] = down[c]]
        /\ down' = [down EXCEPT ![c] = <<>>]
        /\ thread' = [thread EXCEPT ![t] =
               [@ EXCEPT !.pc = "sending",
                         !.out = << <<"command", "o">>, <<"key", down[c]>>,
                                    <<"args", Attributes>> >>]]
        /\ UNCHANGED <<up, ends, broken, server, phase, semaphore, calls, written,
                       environment>>

\* recv() fails, interrupted or on a connection reset: session_key stays zero.
NonceFails(t) ==
    LET c == Owner[t]
    IN  /\ thread[t].pc = "nonce"
        /\ c \in broken \/ t \in eintr
        /\ Closed(c)
        /\ semaphore' = [semaphore EXCEPT ![c] = NoOne]
        /\ thread' = [thread EXCEPT ![t] = ThreadIdle]
        /\ UNCHANGED <<up, broken, server, key, calls, written, environment>>

\* ReadPixelCachePixels, WritePixelCachePixels and the metacontent twins: a
\* call takes file_semaphore and sends the message for its first row.
BeginCall(t, cmd, region) ==
    LET c == Owner[t]
    IN  /\ phase[c] = "ready"
        /\ semaphore[c] = NoOne
        /\ thread[t].pc = "idle"
        /\ calls[c] < MaxCalls
        /\ calls' = [calls EXCEPT ![c] = @ + 1]
        /\ semaphore' = [semaphore EXCEPT ![c] = t]
        /\ thread' = [thread EXCEPT ![t] =
               [@ EXCEPT !.pc = "sending", !.cmd = cmd, !.region = region,
                         !.row = region.first,
                         !.out = RegionMessage(c, cmd, region, region.first, calls[c] + 1)]]
        /\ UNCHANGED <<wires, server, phase, key, written, environment>>

\* DestroyPixelCache, RelinquishDistributePixelCache: by the last owner, so
\* no call is in progress.
Relinquish(t) ==
    LET c == Owner[t]
    IN  /\ t \in Masters
        /\ phase[c] = "ready"
        /\ \A u \in Threads : Owner[u] = c => thread[u].pc = "idle"
        /\ semaphore' = [semaphore EXCEPT ![c] = t]
        /\ thread' = [thread EXCEPT ![t] =
               [@ EXCEPT !.pc = "sending", !.cmd = "d",
                         !.out = << <<"command", "d">>, <<"key", key[c]>> >>]]
        /\ UNCHANGED <<wires, server, phase, key, calls, written, environment>>

\* The call is over: the semaphore is released; a cache that could not be
\* opened, or has been relinquished, loses its connection.
EndCall(t, ready) ==
    LET c == Owner[t]
    IN  /\ semaphore' = [semaphore EXCEPT ![c] = NoOne]
        /\ thread' = [thread EXCEPT ![t] = ThreadIdle]
        /\ IF ready
           THEN phase' = [phase EXCEPT ![c] = "ready"] /\ UNCHANGED <<ends, down>>
           ELSE Closed(c)

\* A message of a read or write call is done: the next row's, or the end.
NextRow(t) ==
    LET c == Owner[t]
        me == thread[t]
        row == LastOf(me.region, me.row) + 1
    IN  IF row > me.region.last
        THEN EndCall(t, TRUE)
        ELSE /\ thread' = [thread EXCEPT ![t] =
                   [@ EXCEPT !.pc = "sending", !.row = row, !.in = <<>>,
                             !.out = RegionMessage(c, me.cmd, me.region, row, calls[c])]]
             /\ UNCHANGED <<semaphore, phase, ends, down>>

\* dpc_send of the client moves a unit, or loses it in a dead connection.
ClientSend(t) ==
    LET c == Owner[t]
        me == thread[t]
    IN  /\ me.pc = "sending"
        /\ me.out # <<>>
        /\ IF Gone(c)
           THEN UNCHANGED up
           ELSE Len(up[c]) < Capacity /\ up' = [up EXCEPT ![c] = Append(@, Head(me.out))]
        /\ thread' = [thread EXCEPT ![t].out = Tail(@)]
        /\ UNCHANGED <<down, ends, broken, server, phase, key, semaphore, calls,
                       written, environment>>

\* The message is out: a write is done with it, the others wait.
ClientSent(t) ==
    LET c == Owner[t]
        me == thread[t]
    IN  /\ me.pc = "sending"
        /\ me.out = <<>>
        /\ IF me.cmd \in WriteCommands
           THEN /\ NextRow(t)
                /\ written' = [written EXCEPT ![c] =
                       Replaced(@, Plane(me.cmd), me.row, LastOf(me.region, me.row),
                                calls[c])]
           ELSE /\ thread' = [thread EXCEPT ![t].pc = "receiving"]
                /\ UNCHANGED <<semaphore, phase, ends, down, written>>
        /\ UNCHANGED <<up, broken, server, key, calls, environment>>

\* dpc_send fails: the call does.  A relinquished cache loses its connection
\* all the same, and so does one that was being opened.
ClientSendFails(t) ==
    LET c == Owner[t]
    IN  /\ thread[t].pc = "sending"
        /\ thread[t].out # <<>>
        /\ Gone(c)
        /\ EndCall(t, thread[t].cmd \in ReadCommands \cup WriteCommands)
        /\ UNCHANGED <<up, broken, server, key, calls, written, environment>>

\* dpc_read of the client.
ClientReceive(t) ==
    LET c == Owner[t]
    IN  /\ thread[t].pc = "receiving"
        /\ Len(thread[t].in) < Wanted(t)
        /\ down[c] # <<>>
        /\ down' = [down EXCEPT ![c] = Tail(@)]
        /\ thread' = [thread EXCEPT ![t].in = Append(@, Head(down[c]))]
        /\ UNCHANGED <<up, ends, broken, server, phase, key, semaphore, calls,
                       written, environment>>

\* The reply is complete.  Any status but MagickFalse is taken for success.
ClientReceived(t) ==
    LET c == Owner[t]
        me == thread[t]
    IN  /\ me.pc = "receiving"
        /\ Len(me.in) = Wanted(t)
        /\ IF me.cmd \in ReadCommands
           THEN NextRow(t)
           ELSE EndCall(t, me.cmd = "o" /\ me.in[1] # False)
        /\ UNCHANGED <<up, broken, server, key, calls, written, environment>>

\* The stream ends within the reply: count != length.
ClientReceiveFails(t) ==
    LET c == Owner[t]
    IN  /\ thread[t].pc = "receiving"
        /\ Len(thread[t].in) < Wanted(t)
        /\ AtEnd(down, c, t)
        /\ EndCall(t, thread[t].cmd \in ReadCommands)
        /\ UNCHANGED <<up, broken, server, key, calls, written, environment>>

----------------------------------------------------------------------------
(* The server.                                                              *)

\* DistributePixelCacheServer: accept() fills client_socket, and a thread is
\* started with its address.
Accept ==
    /\ backlog # <<>>
    /\ backlog' = Tail(backlog)
    /\ slot' = Head(backlog)
    /\ handler' = [handler EXCEPT ![Head(backlog)].pc = "created"]
    /\ UNCHANGED <<wires, client, environment>>

\* The thread reads client_socket, whatever accept() has put there since, and
\* sends its nonce.
Fetch(h) ==
    /\ handler[h].pc = "created"
    /\ handler' = [handler EXCEPT ![h] =
           [@ EXCEPT !.pc = "greeting", !.conn = slot, !.out = Nonce(h)]]
    /\ UNCHANGED <<wires, backlog, slot, client, environment>>

\* The loop is left: the status goes out, whatever it is.
Leave(h, status) ==
    handler' = [handler EXCEPT ![h] =
        [@ EXCEPT !.pc = "leaving", !.status = status, !.out = <<Status(status)>>,
                  !.in = <<>>]]

\* Mutant: the loop goes on after a command that failed.
Turn_go_on(h, status) ==
    handler' = [handler EXCEPT ![h] =
        [@ EXCEPT !.pc = "command", !.status = status, !.in = <<>>]]

\* The end of one turn of the loop.
Turn(h, status) ==
    IF status
    THEN handler' = [handler EXCEPT ![h] =
             [@ EXCEPT !.pc = "command", !.status = TRUE, !.in = <<>>]]
    ELSE Leave(h, FALSE)

Replying == {"greeting", "status", "reply", "leaving"}

\* dpc_send of the server.
ServerSend(h) ==
    LET me == handler[h]
        c == me.conn
    IN  /\ me.pc \in Replying
        /\ me.out # <<>>
        /\ IF Gone(c)
           THEN UNCHANGED down
           ELSE /\ Len(down[c]) < Capacity
                /\ down' = [down EXCEPT ![c] = Append(@, Head(me.out))]
        /\ handler' = [handler EXCEPT ![h].out = Tail(@)]
        /\ UNCHANGED <<up, ends, broken, backlog, slot, client, environment>>

\* dpc_send fails, which only ReadDistributeCachePixels and its twin look at.
ServerSendFails(h) ==
    LET me == handler[h]
    IN  /\ me.pc \in Replying
        /\ me.out # <<>>
        /\ Gone(me.conn)
        /\ IF me.pc = "reply"
           THEN Leave(h, FALSE)
           ELSE handler' = [handler EXCEPT ![h].out = <<>>]
        /\ UNCHANGED <<wires, backlog, slot, client, environment>>

\* The nonce or a reply is out: on to the next command.
ServerSent(h) ==
    LET me == handler[h]
    IN  /\ me.pc \in Replying \ {"leaving"}
        /\ me.out = <<>>
        /\ CASE me.pc = "greeting" -> handler' = [handler EXCEPT ![h].pc = "command"]
             [] me.pc = "status" -> Turn(h, me.status)
             [] me.pc = "reply" -> Turn(h, TRUE)
        /\ UNCHANGED <<wires, backlog, slot, client, environment>>

\* Mutant: CLOSE_SOCKET is left out.
Close_open_socket(h) ==
    /\ handler[h].pc = "leaving"
    /\ handler[h].out = <<>>
    /\ handler' = [handler EXCEPT ![h] =
           [@ EXCEPT !.pc = "done", !.image = NoImage]]
    /\ UNCHANGED <<wires, backlog, slot, client, environment>>

\* The last status is out: the socket is closed, the registry destroyed.
Close(h) ==
    LET c == handler[h].conn
    IN  /\ handler[h].pc = "leaving"
        /\ handler[h].out = <<>>
        /\ ends' = [ends EXCEPT ![c] = @ \ {"server"}]
        /\ up' = [up EXCEPT ![c] = <<>>]
        /\ handler' = [handler EXCEPT ![h] =
               [@ EXCEPT !.pc = "done", !.image = NoImage]]
        /\ UNCHANGED <<down, broken, backlog, slot, client, environment>>

\* dpc_read of the server, when the stream has a unit.
Take(h) ==
    LET c == handler[h].conn
    IN  /\ up[c] # <<>>
        /\ up' = [up EXCEPT ![c] = Tail(@)]
        /\ UNCHANGED <<down, ends, broken, backlog, slot, client>>

ReadCommand(h) ==
    /\ handler[h].pc = "command"
    /\ Take(h)
    /\ handler' = [handler EXCEPT ![h] =
           [@ EXCEPT !.pc = "key", !.command = Head(up[handler[h].conn])]]
    /\ UNCHANGED environment

\* The key is checked; AcquireImage, or the lookup of the image, comes before
\* the rest of the request is read.
ReadKey(h) ==
    LET me == handler[h]
        cmd == me.command[2]
    IN  /\ me.pc = "key"
        /\ Take(h)
        /\ \/ /\ Head(up[me.conn]) # <<"key", Nonce(h)>>
              /\ Leave(h, me.status)
           \/ /\ Head(up[me.conn]) = <<"key", Nonce(h)>>
              /\ cmd # "o" /\ (cmd # "d" => me.image = NoImage)
              /\ Leave(h, cmd = "d" /\ me.image # NoImage)
           \/ /\ Head(up[me.conn]) = <<"key", Nonce(h)>>
              /\ cmd # "d" /\ (cmd # "o" => me.image # NoImage)
              /\ handler' = [handler EXCEPT ![h].pc = "args"]
        /\ UNCHANGED environment

\* A step of the server that may fail.
Outcome(ok) ==
    /\ ok \/ faults < MaxFaults
    /\ faults' = IF ok THEN faults ELSE faults + 1
    /\ UNCHANGED <<eintr, interrupts>>

\* OpenDistributeCache: the attributes, SyncImagePixelCache, the registry.
Open(h) ==
    LET me == handler[h]
    IN  /\ me.pc = "args"
        /\ me.command[2] = "o"
        /\ Take(h)
        /\ \E ok \in BOOLEAN :
               /\ Outcome(ok)
               /\ handler' = [handler EXCEPT ![h] =
                      [@ EXCEPT !.pc = "status", !.status = ok, !.out = <<Status(ok)>>,
                                !.image = IF ok THEN NewImage ELSE me.image]]

\* What a request of a region is read from; any other unit (two threads may
\* have shared the stream out) gives a region that has no pixels.
IsRegion(unit) == unit[1] = "args" /\ unit[2].first > 0

\* ReadDistributeCachePixels, ReadDistributeCacheMetacontent.
ReadRegion(h) ==
    LET me == handler[h]
        cmd == me.command[2]
        args == Head(up[me.conn])[2]
    IN  /\ me.pc = "args"
        /\ cmd \in ReadCommands
        /\ Take(h)
        /\ \E ok \in BOOLEAN :
               /\ Outcome(ok)
               /\ ok => IsRegion(Head(up[me.conn]))
               /\ IF ok
                  THEN handler' = [handler EXCEPT ![h] =
                           [@ EXCEPT !.pc = "reply",
                                     !.out = Content(me.image, Plane(cmd), args.first,
                                                     args.last)]]
                  ELSE Turn(h, FALSE)

\* WriteDistributeCachePixels, WriteDistributeCacheMetacontent: the region,
\* and GetAuthenticPixels.
WriteRegion(h) ==
    LET me == handler[h]
    IN  /\ me.pc = "args"
        /\ me.command[2] \in WriteCommands
        /\ Take(h)
        /\ \E ok \in BOOLEAN :
               /\ Outcome(ok)
               /\ ok => IsRegion(Head(up[me.conn]))
               /\ IF ok
                  THEN handler' = [handler EXCEPT ![h] =
                           [@ EXCEPT !.pc = "data", !.args = Head(up[me.conn])[2]]]
                  ELSE Turn(h, FALSE)

Missing(h) ==
    Count(handler[h].args.first, handler[h].args.last) - Len(handler[h].in)

ReadData(h) ==
    /\ handler[h].pc = "data"
    /\ Missing(h) > 0
    /\ Take(h)
    /\ handler' = [handler EXCEPT ![h].in = Append(@, Head(up[handler[h].conn]))]
    /\ UNCHANGED environment

\* The data are complete: SyncAuthenticPixels.
SyncRegion(h) ==
    LET me == handler[h]
        stored == Store(me.image, Plane(me.command[2]), me.args.first, me.args.last,
                        me.in)
    IN  /\ me.pc = "data"
        /\ Missing(h) = 0
        /\ \E ok \in BOOLEAN :
               /\ Outcome(ok)
               /\ IF ok
                  THEN handler' = [handler EXCEPT ![h] =
                           [@ EXCEPT !.pc = "command", !.status = TRUE,
                                     !.image = stored, !.in = <<>>]]
                  ELSE Turn(h, FALSE)
        /\ UNCHANGED <<wires, backlog, slot, client>>

\* Mutant: the loop does not look for the end of the stream.
ServerReadFails_not_between(h) ==
    LET me == handler[h]
    IN  /\ me.pc \in {"key", "args", "data"}
        /\ me.pc = "data" => Missing(h) > 0
        /\ AtEnd(up, me.conn, h)
        /\ IF me.pc = "args" /\ me.command[2] = "o"
           THEN handler' = [handler EXCEPT ![h] =
                    [@ EXCEPT !.pc = "status", !.status = FALSE, !.out = <<False>>]]
           ELSE Leave(h, me.pc = "key" /\ me.status)
        /\ UNCHANGED <<wires, backlog, slot, client, environment>>

\* The stream ends: between requests and within the key the last status
\* stands, later the call of the command fails.  'o' answers even so.
ServerReadFails(h) ==
    LET me == handler[h]
    IN  /\ me.pc \in {"command", "key", "args", "data"}
        /\ me.pc = "data" => Missing(h) > 0
        /\ AtEnd(up, me.conn, h)
        /\ IF me.pc = "args" /\ me.command[2] = "o"
           THEN handler' = [handler EXCEPT ![h] =
                    [@ EXCEPT !.pc = "status", !.status = FALSE, !.out = <<False>>]]
           ELSE Leave(h, me.pc \in {"command", "key"} /\ me.status)
        /\ UNCHANGED <<wires, backlog, slot, client, environment>>

----------------------------------------------------------------------------
(* What goes wrong around them.                                             *)

\* The network cuts the connection, and loses any tail of what was under way.
Break(c) ==
    /\ phase[c] \in {"connecting", "ready"}
    /\ c \notin broken
    /\ faults < MaxFaults
    /\ faults' = faults + 1
    /\ broken' = broken \cup {c}
    /\ \E m \in 0..Len(up[c]), n \in 0..Len(down[c]) :
           /\ up' = [up EXCEPT ![c] = SubSeq(@, 1, m)]
           /\ down' = [down EXCEPT ![c] = SubSeq(@, 1, n)]
    /\ UNCHANGED <<ends, server, client, eintr, interrupts>>

\* The program that uses the cache dies: the kernel closes its socket.
Crash(c) ==
    /\ phase[c] \in {"connecting", "ready"}
    /\ faults < MaxFaults
    /\ faults' = faults + 1
    /\ Closed(c)
    /\ thread' = [t \in Threads |-> IF Owner[t] = c THEN ThreadIdle ELSE thread[t]]
    /\ semaphore' = [semaphore EXCEPT ![c] = NoOne]
    /\ UNCHANGED <<up, broken, server, key, calls, written, eintr, interrupts>>

\* A signal interrupts recv(): errno is EINTR from then on.
Interrupt(agent) ==
    /\ interrupts < MaxInterrupts
    /\ \/ agent \in Threads /\ thread[agent].pc \in {"nonce", "receiving"}
       \/ agent \in Clients /\ handler[agent].pc \in {"command", "key", "args", "data"}
    /\ interrupts' = interrupts + 1
    /\ eintr' = eintr \cup {agent}
    /\ UNCHANGED <<wires, server, client, faults>>

----------------------------------------------------------------------------

ThreadStep(t) ==
    \/ ReceiveNonce(t)
    \/ NonceFails(t)
    \/ ClientSend(t)
    \/ ClientSent(t)
    \/ ClientSendFails(t)
    \/ ClientReceive(t)
    \/ ClientReceived(t)
    \/ ClientReceiveFails(t)

HandlerStep(h) ==
    \/ Fetch(h)
    \/ ServerSend(h)
    \/ ServerSendFails(h)
    \/ ServerSent(h)
    \/ Close(h)
    \/ ReadCommand(h)
    \/ ReadKey(h)
    \/ Open(h)
    \/ ReadRegion(h)
    \/ WriteRegion(h)
    \/ ReadData(h)
    \/ SyncRegion(h)
    \/ ServerReadFails(h)

\* While some thread can go on, on either side, some thread does (which calls
\* are made, and what fails, is nobody's duty).
Progress ==
    \/ Accept
    \/ \E t \in Threads : ThreadStep(t)
    \/ \E h \in Clients : HandlerStep(h)

Next ==
    \/ Progress
    \/ \E t \in Threads :
           \/ Connect(t)
           \/ Relinquish(t)
           \/ \E cmd \in ReadCommands \cup WriteCommands, region \in Regions :
                  BeginCall(t, cmd, region)
    \/ \E c \in Clients : Break(c) \/ Crash(c)
    \/ \E agent \in Agents : Interrupt(agent)

Spec == Init /\ [][Next]_vars

FairSpec == Spec /\ WF_vars(Progress)

----------------------------------------------------------------------------
(* Properties.                                                              *)

\* What a read call has received is what the calls before it wrote, whatever
\* failed in between: a write that failed on the server, a nonce that came in
\* two parts, a connection cut and a status left over from another call never
\* pass for pixels.
ReadsReturnWritten ==
    \A t \in Threads :
        LET me == thread[t]
        IN  me.pc = "receiving" /\ me.cmd \in ReadCommands /\ Len(me.in) = Wanted(t)
            => me.in = Content(written[Owner[t]], Plane(me.cmd), me.row,
                               LastOf(me.region, me.row))

\* A write is not answered: nevertheless, once the server thread waits for
\* the next command on a quiet connection, its image holds what all the calls
\* wrote, and nothing lies about that a later call could take for its reply.
ServerUpToDate ==
    \A h \in Clients :
        LET c == handler[h].conn
        IN  handler[h].pc = "command" /\ ~Gone(c) /\ up[c] = <<>>
            /\ phase[c] = "ready" /\ semaphore[c] = NoOne /\ key[c] = Nonce(h)
            => handler[h].image = written[c] /\ down[c] = <<>>

\* Every call comes back and gives file_semaphore up, unless its thread runs
\* round in dpc_read with an errno from before.
CallsReturn ==
    \A c \in Clients :
        semaphore[c] # NoOne ~> semaphore[c] = NoOne \/ semaphore[c] \in eintr

\* When a cache is gone, destroyed or with its program, its server thread
\* ends and lets go of the image (with the same exception).
SessionsEnd ==
    \A c \in Clients :
        phase[c] = "closed" ~> handler[c].pc = "done" \/ c \in eintr

============================================================================
