------------------------------- MODULE Stream -------------------------------
(***************************************************************************)
(* The buffered byte stream of OpenJPEG (cio.c): the decoder reads and the *)
(* encoder writes through one buffer, and the four callbacks of the user   *)
(* (openjpeg.c for files, coders/jp2.cpp for blobs of ImageMagick) move    *)
(* the bytes between the buffer and a media with a position of its own.    *)
(*                                                                         *)
(* Every call of a callback is a step; it may move fewer bytes than asked, *)
(* reach the end of the media, or fail.  The bytes of an input media are   *)
(* all different, and so are the bytes the user writes.                    *)
(***************************************************************************)
EXTENDS Integers, Sequences, FiniteSets

CONSTANTS
    BufferSize,       (* m_buffer_size                                      *)
    Length,           (* m_user_data_length; bound of an output media       *)
    Sizes,            (* of reads, writes and skips                         *)
    MaxCalls,         (* bound: calls on the stream                         *)
    MaxFailures       (* bound: failing callbacks                           *)

ASSUME SizesAssumption  == /\ BufferSize \in Nat \ {0} /\ Length \in Nat \ {0}
                           /\ Sizes \subseteq Nat
ASSUME BoundsAssumption == MaxCalls \in Nat /\ MaxFailures \in Nat

VARIABLES
    input,            (* OPJ_STREAM_STATUS_INPUT                            *)
    end, error,       (* OPJ_STREAM_STATUS_END, OPJ_STREAM_STATUS_ERROR     *)
    stored,           (* m_stored_data                                      *)
    current,          (* m_current_data - m_stored_data                     *)
    bytes_in_buffer,  (* m_bytes_in_buffer                                  *)
    byte_offset,      (* m_byte_offset                                      *)
    media, mpos,      (* the user's data and the position in it             *)
    full,             (* the write callback has nothing left but 0          *)
    pc,               (* the loop the call is in                            *)
    call,             (* the last call: its operation, argument and start   *)
    size, done,       (* p_size and the bytes moved so far                  *)
    got, src,         (* p_buffer of a read; of a write, what is left of it *)
    result,           (* what the last call returned                        *)
    failures

flagVars   == <<input, end, error>>
bufferVars == <<stored, current, bytes_in_buffer, byte_offset>>
mediaVars  == <<media, mpos, full>>
callVars   == <<pc, call, size, done, got, src, result>>
vars == <<flagVars, bufferVars, mediaVars, callVars, failures>>

Offset == 0..(Length - 1)
Minimum(a, b) == IF a < b THEN a ELSE b

Get(f, at, n) == [i \in 1..n |-> f[at + i - 1]]
Put(f, at, bytes) ==
    [i \in DOMAIN f |-> IF i \in at..(at + Len(bytes) - 1) THEN bytes[i - at + 1] ELSE f[i]]

(* The bytes of the n-th call are n * Length + 1, n * Length + 2...; an    *)
(* input media starts with 1, 2...; 0 is what nobody wrote.                *)
Bytes(n, k) == [i \in 1..k |-> n * Length + i]

Init ==
    /\ input \in BOOLEAN
    /\ end = FALSE /\ error = FALSE
    /\ stored = [i \in 0..(BufferSize - 1) |-> 0]
    /\ current = 0 /\ bytes_in_buffer = 0 /\ byte_offset = 0
    /\ media = [o \in Offset |-> IF input THEN o + 1 ELSE 0] /\ mpos = 0
    /\ full = FALSE
    /\ pc = "idle"
    /\ call = [nr |-> 0, op |-> "none", arg |-> 0, start |-> 0]
    /\ size = 0 /\ done = 0 /\ got = <<>> /\ src = <<>> /\ result = 0
    /\ failures = 0

Call(op, n) ==
    /\ pc = "idle" /\ call.nr < MaxCalls
    /\ call' = [nr |-> call.nr + 1, op |-> op, arg |-> n, start |-> byte_offset]

Return(n) == pc' = "idle" /\ result' = n /\ size' = 0 /\ done' = 0

(* A count of bytes, where no byte at all is an error.                     *)
ReturnCount(n) == Return(IF n = 0 THEN -1 ELSE n)

Goto(where) == pc' = where /\ UNCHANGED result

Fails == failures < MaxFailures /\ failures' = failures + 1

-----------------------------------------------------------------------------
(* Reading                                                                 *)

(* opj_stream_read_data up to its loop: what the buffer holds is delivered *)
(* first.                                                                  *)
ReadData(n) ==
    LET k == Minimum(n, bytes_in_buffer) IN
    /\ input /\ Call("read", n)
    /\ got' = Get(stored, current, k)
    /\ byte_offset' = byte_offset + k
    /\ bytes_in_buffer' = bytes_in_buffer - k
    /\ \/ /\ bytes_in_buffer >= n
          /\ current' = current + n
          /\ Return(n)
       \/ /\ bytes_in_buffer < n /\ end
          /\ current' = current + k
          /\ ReturnCount(k)
       \/ /\ bytes_in_buffer < n /\ ~end
          /\ current' = 0
          /\ size' = n - k /\ done' = 0
          /\ Goto("read")
    /\ UNCHANGED <<flagVars, stored, mediaVars, src, failures>>

(* Mutant: a read that the media cuts short is not continued.              *)
ReadMediaOnce ==
    LET chunk == size < BufferSize
        ask == IF chunk THEN BufferSize ELSE size IN
    /\ pc = "read"
    /\ \E k \in 1..Minimum(ask, Length - mpos) :
          LET used == Minimum(k, size) IN
          /\ mpos' = mpos + k
          /\ stored' = IF chunk THEN Put(stored, 0, Get(media, mpos, k)) ELSE stored
          /\ got' = got \o Get(media, mpos, used)
          /\ byte_offset' = byte_offset + used
          /\ bytes_in_buffer' = k - used
          /\ current' = IF chunk THEN used ELSE 0
          /\ Return(Len(got) + used)
    /\ UNCHANGED <<flagVars, media, full, call, src, failures>>

(* The loop: less than a buffer is read through the buffer, anything else  *)
(* directly to where the user wants it.                                    *)
ReadMedia ==
    LET chunk == size < BufferSize
        ask == IF chunk THEN BufferSize ELSE size IN
    /\ pc = "read"
    /\ \E k \in 1..Minimum(ask, Length - mpos) :
          LET used == Minimum(k, size) IN
          /\ mpos' = mpos + k
          /\ stored' = IF chunk THEN Put(stored, 0, Get(media, mpos, k)) ELSE stored
          /\ got' = got \o Get(media, mpos, used)
          /\ byte_offset' = byte_offset + used
          /\ bytes_in_buffer' = k - used
          /\ current' = IF chunk /\ k >= size THEN size ELSE 0
          /\ IF k >= size THEN Return(Len(got) + used)
             ELSE size' = size - k /\ Goto("read") /\ UNCHANGED done
    /\ UNCHANGED <<flagVars, media, full, call, src, failures>>

(* Mutant: the -1 of the read callback is taken for a short read.          *)
ReadEndAgain ==
    /\ pc = "read"
    /\ IF mpos < Length THEN Fails ELSE UNCHANGED failures
    /\ UNCHANGED <<flagVars, bufferVars, mediaVars, callVars>>

(* The read callback returned -1.                                          *)
ReadEnd ==
    /\ pc = "read"
    /\ IF mpos < Length THEN Fails ELSE UNCHANGED failures
    /\ end' = TRUE /\ bytes_in_buffer' = 0
    /\ ReturnCount(Len(got))
    /\ UNCHANGED <<input, error, stored, current, byte_offset, mediaVars, call, got, src>>

-----------------------------------------------------------------------------
(* Skipping and seeking in an input                                        *)

(* opj_stream_read_skip up to its loop.                                    *)
ReadSkip(n) ==
    LET k == Minimum(n, bytes_in_buffer)
        loops == bytes_in_buffer < n /\ ~end IN
    /\ input /\ Call("skip", n)
    /\ bytes_in_buffer' = bytes_in_buffer - k
    /\ current' = IF loops /\ k > 0 THEN 0 ELSE current + k
    /\ IF loops
       THEN size' = n - k /\ done' = k /\ Goto("skip") /\ UNCHANGED byte_offset
       ELSE /\ byte_offset' = byte_offset + k
            /\ IF bytes_in_buffer >= n THEN Return(n) ELSE ReturnCount(k)
    /\ got' = <<>>
    /\ UNCHANGED <<flagVars, stored, mediaVars, src, failures>>

SkipMedia ==
    /\ pc = "skip" /\ byte_offset + done + size <= Length
    /\ \/ \E k \in 1..size :
             /\ mpos' = mpos + k
             /\ IF k = size
                THEN byte_offset' = byte_offset + done + k /\ Return(done + k)
                ELSE /\ size' = size - k /\ done' = done + k
                     /\ Goto("skip") /\ UNCHANGED byte_offset
             /\ UNCHANGED <<end, failures>>
       \/ /\ Fails
          /\ end' = TRUE /\ byte_offset' = byte_offset + done
          /\ ReturnCount(done)
          /\ UNCHANGED mpos
    /\ UNCHANGED <<input, error, stored, current, bytes_in_buffer, media, full,
                   call, got, src>>

(* Mutant: the end of the media is not looked at.                          *)
SkipToEndBlindly ==
    /\ pc = "skip" /\ byte_offset + done + size > Length
    /\ mpos' = mpos + size /\ byte_offset' = byte_offset + done + size
    /\ Return(done + size)
    /\ UNCHANGED <<flagVars, stored, current, bytes_in_buffer, media, full,
                   call, got, src, failures>>

(* Mutant: the caller is told that all was skipped.                        *)
SkipToEndAsAsked ==
    LET at == byte_offset + done IN
    /\ pc = "skip" /\ at + size > Length
    /\ current' = 0 /\ bytes_in_buffer' = 0
    /\ end' = TRUE
    /\ mpos' = Length /\ byte_offset' = Length
    /\ ReturnCount(call.arg)
    /\ UNCHANGED <<input, error, stored, media, full, call, got, src, failures>>

(* Beyond the end of the media: opj_stream_read_seek to the end, which may *)
(* fail, and the end it clears is set again.  The bytes that came from the *)
(* buffer are not part of the result.                                      *)
SkipToEnd ==
    LET at == byte_offset + done IN
    /\ pc = "skip" /\ at + size > Length
    /\ current' = 0 /\ bytes_in_buffer' = 0
    /\ end' = TRUE
    /\ \/ mpos' = Length /\ byte_offset' = Length /\ UNCHANGED failures
       \/ Fails /\ byte_offset' = at /\ UNCHANGED mpos
    /\ ReturnCount(Length - at)
    /\ UNCHANGED <<input, error, stored, media, full, call, got, src>>

(* opj_stream_read_seek                                                    *)
ReadSeek(p) ==
    /\ input /\ Call("seek", p)
    /\ current' = 0 /\ bytes_in_buffer' = 0
    /\ \/ mpos' = p /\ byte_offset' = p /\ end' = FALSE /\ Return(1)
          /\ UNCHANGED failures
       \/ Fails /\ end' = TRUE /\ Return(0) /\ UNCHANGED <<mpos, byte_offset>>
    /\ got' = <<>>
    /\ UNCHANGED <<input, error, stored, media, full, src>>

-----------------------------------------------------------------------------
(* Writing                                                                 *)

(* opj_stream_write_data; after an error it does nothing.                  *)
WriteData(n) ==
    /\ ~input /\ byte_offset + n <= Length /\ Call("write", n)
    /\ got' = <<>>
    /\ src' = Bytes(call.nr + 1, n)
    /\ IF error THEN Return(-1) ELSE size' = 0 /\ done' = 0 /\ Goto("write")
    /\ UNCHANGED <<flagVars, bufferVars, mediaVars, failures>>

(* The loop fills the buffer and flushes it until the rest fits.           *)
WriteChunk ==
    LET room == BufferSize - bytes_in_buffer
        k == Minimum(room, Len(src)) IN
    /\ pc = "write"
    /\ stored' = Put(stored, current, SubSeq(src, 1, k))
    /\ bytes_in_buffer' = bytes_in_buffer + k
    /\ byte_offset' = byte_offset + k
    /\ src' = SubSeq(src, k + 1, Len(src))
    /\ IF room >= Len(src)
       THEN current' = current + k /\ Return(done + k)
       ELSE current' = 0 /\ done' = done + k /\ Goto("flush") /\ UNCHANGED size
    /\ UNCHANGED <<flagVars, mediaVars, call, got, failures>>

(* opj_stream_flush, opj_stream_write_skip and opj_stream_write_seek begin *)
(* with a flush; only the skip looks at an earlier error.                  *)
Flush(op, n) ==
    /\ ~input /\ op \in {"flush", "skip", "seek"} /\ Call(op, n)
    /\ op = "skip" => byte_offset + n <= Length
    /\ got' = <<>> /\ src' = <<>>
    /\ IF op = "skip" /\ error
       THEN Return(-1) /\ UNCHANGED current
       ELSE current' = 0 /\ size' = 0 /\ done' = 0 /\ Goto("flush")
    /\ UNCHANGED <<flagVars, stored, bytes_in_buffer, byte_offset, mediaVars, failures>>

(* Mutant: what the callback did not take is dropped.                      *)
FlushMediaOnce ==
    /\ pc = "flush" /\ bytes_in_buffer > 0 /\ ~full
    /\ \E k \in 1..bytes_in_buffer :
          /\ media' = Put(media, mpos, Get(stored, current, k))
          /\ mpos' = mpos + k
          /\ current' = current + k
          /\ bytes_in_buffer' = 0
    /\ UNCHANGED <<flagVars, stored, byte_offset, full, callVars, failures>>

FlushMedia ==
    /\ pc = "flush" /\ bytes_in_buffer > 0 /\ ~full
    /\ \E k \in 1..bytes_in_buffer :
          /\ media' = Put(media, mpos, Get(stored, current, k))
          /\ mpos' = mpos + k
          /\ current' = current + k
          /\ bytes_in_buffer' = bytes_in_buffer - k
    /\ UNCHANGED <<flagVars, stored, byte_offset, full, callVars, failures>>

(* The write callback returned -1: the flush, and the call it is part of,  *)
(* fail.                                                                   *)
FlushFails ==
    /\ pc = "flush" /\ bytes_in_buffer > 0 /\ ~full /\ Fails
    /\ error' = TRUE
    /\ bytes_in_buffer' = IF call.op = "skip" THEN 0 ELSE bytes_in_buffer
    /\ Return(IF call.op \in {"write", "skip"} THEN -1 ELSE 0)
    /\ UNCHANGED <<input, end, stored, current, byte_offset, mediaVars, call, got, src>>

(* The disk is full: from now on the write callback returns 0, as fwrite   *)
(* does, and the loop takes it for a short write.                          *)
DiskFull ==
    /\ pc = "flush" /\ bytes_in_buffer > 0 /\ ~full /\ Fails
    /\ full' = TRUE
    /\ UNCHANGED <<flagVars, bufferVars, media, mpos, callVars>>
FlushNothing ==
    /\ pc = "flush" /\ bytes_in_buffer > 0 /\ full
    /\ UNCHANGED vars

(* The buffer is empty: the call goes on.                                  *)
Flushed ==
    /\ pc = "flush" /\ bytes_in_buffer = 0
    /\ current' = 0
    /\ CASE call.op = "write" -> Goto("write") /\ UNCHANGED <<size, done>>
         [] call.op = "flush" -> Return(1)
         [] call.op = "seek"  -> Goto("wseek") /\ UNCHANGED <<size, done>>
         [] call.op = "skip" /\ call.arg > 0 ->
                Goto("wskip") /\ size' = call.arg /\ UNCHANGED done
         [] OTHER -> Return(0)
    /\ UNCHANGED <<flagVars, stored, bytes_in_buffer, byte_offset, mediaVars,
                   call, got, src, failures>>

(* The loop of opj_stream_write_skip.                                      *)
WriteSkipMedia ==
    /\ pc = "wskip"
    /\ \/ \E k \in 1..size :
             /\ mpos' = mpos + k
             /\ IF k = size
                THEN byte_offset' = byte_offset + done + k /\ Return(done + k)
                ELSE /\ size' = size - k /\ done' = done + k
                     /\ Goto("wskip") /\ UNCHANGED byte_offset
             /\ UNCHANGED <<error, failures>>
       \/ /\ Fails
          /\ error' = TRUE /\ byte_offset' = byte_offset + done
          /\ ReturnCount(done)
          /\ UNCHANGED mpos
    /\ UNCHANGED <<input, end, stored, current, bytes_in_buffer, media, full,
                   call, got, src>>

WriteSeek ==
    /\ pc = "wseek"
    /\ \/ mpos' = call.arg /\ byte_offset' = call.arg /\ Return(1)
          /\ UNCHANGED <<error, failures>>
       \/ Fails /\ error' = TRUE /\ Return(0) /\ UNCHANGED <<mpos, byte_offset>>
    /\ UNCHANGED <<input, end, stored, current, bytes_in_buffer, media, full,
                   call, got, src>>

-----------------------------------------------------------------------------
UserCall ==
    \/ \E n \in Sizes : ReadData(n) \/ ReadSkip(n) \/ WriteData(n) \/ Flush("skip", n)
    \/ \E p \in 0..Length : ReadSeek(p) \/ Flush("seek", p)
    \/ Flush("flush", 0)

Progress ==
    \/ ReadMedia \/ ReadEnd \/ SkipMedia \/ SkipToEnd
    \/ WriteChunk \/ FlushMedia \/ FlushFails \/ Flushed
    \/ WriteSkipMedia \/ WriteSeek

Terminated == pc = "idle" /\ call.nr = MaxCalls /\ UNCHANGED vars

Next == UserCall \/ Progress \/ DiskFull \/ FlushNothing \/ Terminated

Spec == Init /\ [][Next]_vars

(* The loops of a call run on.                                             *)
FairSpec == Spec /\ WF_vars(Progress)

-----------------------------------------------------------------------------
(* Properties                                                              *)

Ops == {"none", "read", "skip", "write", "seek", "flush"}
Loops == {"read", "skip", "write", "flush", "wskip", "wseek"}

FlagsTypeOK == /\ input \in BOOLEAN /\ full \in BOOLEAN
               /\ end \in BOOLEAN /\ error \in BOOLEAN
BufferTypeOK == /\ current \in 0..BufferSize /\ bytes_in_buffer \in 0..BufferSize
                /\ input => current + bytes_in_buffer <= BufferSize
PositionTypeOK == byte_offset \in Nat /\ mpos \in 0..Length
CallTypeOK == /\ pc \in Loops \union {"idle"}
              /\ call \in [nr : Nat, op : Ops, arg : Nat, start : Nat]
              /\ size \in Nat /\ done \in Nat /\ result \in Int
              /\ failures \in 0..MaxFailures
DataTypeOK == /\ stored \in [0..(BufferSize - 1) -> Nat] /\ media \in [Offset -> Nat]
              /\ got \in Seq(Nat) /\ src \in Seq(Nat)

(* Every variable has its type; the current pointer and the bytes behind   *)
(* it stay within the buffer, and the position within the media.           *)
TypeOK == /\ FlagsTypeOK /\ BufferTypeOK /\ PositionTypeOK
          /\ CallTypeOK /\ DataTypeOK

(* opj_stream_get_number_byte_left asserts it: the decoder is never told   *)
(* an offset beyond the data, however it mixes reads, skips and seeks and  *)
(* whichever callback fails.                                               *)
OffsetWithinData == input => byte_offset >= 0 /\ Length >= byte_offset

(* The media may deliver its bytes in pieces of any size: a read returns   *)
(* all the bytes that were asked for, or all that are left.                *)
ReadsComplete ==
    /\ pc = "idle" /\ call.op = "read" /\ failures = 0
    => LET n == Minimum(call.arg, Length - call.start) IN
       /\ Len(got) = n
       /\ result = IF n = 0 /\ call.arg > 0 THEN -1 ELSE n

(* The callers take a skip for successful if it returns what they asked    *)
(* for: the stream is that much further then, and the media agrees.        *)
SkipHonest ==
    /\ pc = "idle" /\ call.op = "skip" /\ result = call.arg /\ ~error
    => /\ byte_offset = call.start + call.arg
       /\ end \/ mpos = byte_offset + (IF input THEN bytes_in_buffer ELSE 0)

(* Every call returns, in however small pieces the media moves the bytes   *)
(* and whichever callback fails, unless the disk is full.                  *)
CallsReturn == pc # "idle" ~> pc = "idle" \/ full

(* Also on a full disk: opj_stream_flush is to return false if the data    *)
(* could not be flushed (cio.h:293).  No run checks it: the code breaks it *)
(* (README, observations).                                                 *)
FlushReturns == pc = "flush" ~> pc # "flush"

-----------------------------------------------------------------------------
(* The stream implements ByteFile: buffering is invisible.                 *)

(* The buffered bytes of an output belong to the file already.             *)
FileOf ==
    IF input \/ error THEN media
    ELSE Put(media, mpos, Get(stored, IF pc = "flush" THEN current ELSE 0, bytes_in_buffer))

PosOf == IF pc \in {"skip", "wskip"} THEN byte_offset + done ELSE byte_offset

File == INSTANCE ByteFile WITH file <- FileOf, pos <- PosOf, broken <- error

(* Reads deliver the bytes of the media in order and without gaps, and     *)
(* written bytes end up where the position was, whatever the buffer does   *)
(* and in whatever pieces the media takes them.                            *)
ImplementsByteFile == File!Spec
=============================================================================
