------------------------------ MODULE JP2Coder ------------------------------
(***************************************************************************)
(* The JPEG 2000 coder of ImageMagick (coders/jp2.cpp), which runs OpenJPEG *)
(* in an RLBox sandbox.                                                    *)
(*                                                                         *)
(* A call of ReadJP2Image or WriteJP2Image makes library objects in the    *)
(* sandbox, lets the library work on the image's blob through callbacks,   *)
(* and gives the objects back on each of its paths.  What the library asks *)
(* for is checked by verifiers, one of which looks at variables of the     *)
(* process that reads set and writes clear; a request that is rejected     *)
(* ends the process.                                                       *)
(*                                                                         *)
(* One call runs at a time.  A stage of the library (opj_read_header...)   *)
(* is any number of callbacks, a step each, and then a step that returns.  *)
(***************************************************************************)
EXTENDS Integers

CONSTANTS
    Lengths,          (* sizes of the files that are read                   *)
    ChunkSize,        (* OPJ_J2K_STREAM_CHUNK_SIZE, the buffer of a stream  *)
    MaxOutput,        (* bound: size of the files that are written          *)
    MaxCalls          (* bound: calls of the coder                          *)

ASSUME LengthsAssumption == Lengths \subseteq Nat
ASSUME ChunkSizeAssumption == ChunkSize \in Nat \ {0}
ASSUME BoundsAssumption  == MaxOutput \in Nat /\ MaxCalls \in Nat

VARIABLES
    (* global__use_initial_user_data_length, global__initial_user_data_length *)
    use_length, initial_length,
    pc,               (* the stage of the call                              *)
    how,              (* image->ping, and whether a scene is wanted         *)
    codec, stream, jp2_image,     (* the library's objects                  *)
    apps,             (* pointers of the program the library has tokens for *)
    blob, length, pos,            (* the image's blob, its size, position   *)
    far,              (* the furthest position the library has been at      *)
    out,              (* what became of the bytes the library wrote         *)
    succeeded,        (* the statuses of opj_start_compress ... so far      *)
    caught,           (* what sandbox->fail has ended the process for       *)
    result, calls

handles == <<codec, stream, jp2_image>>
limits  == <<use_length, initial_length>>
blobVars == <<blob, length, pos, far, out>>
vars == <<limits, pc, how, handles, apps, blobVars, succeeded, caught, result, calls>>

(* A pointer to an object of the library: not assigned yet, NULL, to an    *)
(* object, to a destroyed object, and destroyed through when it was none.  *)
Pointer == {"unset", "null", "live", "destroyed", "misused"}

ReadStages  == {"header", "area", "tile", "decode", "end_decompress"}
WriteStages == {"setup_encoder", "start", "encode", "end_compress"}
Stages      == ReadStages \union WriteStages

Init ==
    /\ use_length = FALSE /\ initial_length = -1
    /\ pc = "idle" /\ how = [ping |-> FALSE, scene |-> FALSE]
    /\ codec = "unset" /\ stream = "unset" /\ jp2_image = "unset"
    /\ apps = {}
    /\ blob = "closed" /\ length = 0 /\ pos = 0 /\ far = 0 /\ out = "empty"
    /\ succeeded = TRUE /\ caught = "nothing" /\ result = "none" /\ calls = 0

-----------------------------------------------------------------------------
Goto(where) == pc' = where /\ UNCHANGED <<result, apps>>

(* The call returns; its app_pointers unregister themselves.               *)
Return(value) == pc' = "idle" /\ result' = value /\ apps' = {}

(* opj_destroy_codec and the like: nothing happens to NULL.                *)
Destroyed(p) == CASE p = "live" -> "destroyed"
                  [] p = "null" -> "null"
                  [] OTHER      -> "misused"

(* ThrowReaderException, or DestroyImageList and return NULL.              *)
ReturnNull == blob' = "destroyed" /\ Return("null")

(* ThrowWriterException.                                                   *)
ReturnFalse == blob' = "closed" /\ Return("false")

Call == pc = "idle" /\ calls < MaxCalls /\ calls' = calls + 1 /\ UNCHANGED caught

(* A fresh call: nothing is known of the library's objects.                *)
Fresh == /\ stream' = "unset" /\ jp2_image' = "unset"
         /\ pos' = 0 /\ far' = 0 /\ out' = "empty" /\ succeeded' = TRUE

-----------------------------------------------------------------------------
(* ReadJP2Image                                                            *)

(* The blob is opened and its first four bytes read, then the decoder is   *)
(* made; opj_create_decompress may return NULL, which is not looked at.    *)
ReadJP2Image(n, ping, scene) ==
    /\ Call /\ Fresh
    /\ how' = [ping |-> ping, scene |-> scene]
    /\ length' = n
    /\ \/ codec' = "unset" /\ ReturnNull
       \/ /\ n >= 4
          /\ codec' \in {"live", "null"}
          /\ blob' = "open"
          /\ pc' = "setup_decoder" /\ apps' = {"exception"}
          /\ UNCHANGED result
    /\ UNCHANGED limits

SetupDecoderFails ==
    /\ pc = "setup_decoder" /\ codec = "null"
    /\ codec' = Destroyed(codec)
    /\ ReturnNull
    /\ UNCHANGED <<limits, how, stream, jp2_image, length, pos, far, out, succeeded, caught, calls>>

(* Mutant: the verifiers keep the size of the first file.                  *)
SetupDecoderOnce ==
    /\ pc = "setup_decoder" /\ codec = "live"
    /\ stream' \in {"live", "null"}
    /\ apps' = apps \union {"image"}
    /\ initial_length' = IF use_length THEN initial_length ELSE length
    /\ use_length' = TRUE
    /\ pc' = "header"
    /\ UNCHANGED <<how, codec, jp2_image, blobVars, succeeded, caught, result, calls>>

(* opj_stream_create may return NULL too.  The verifiers are told the size *)
(* of this blob.                                                           *)
SetupDecoder ==
    /\ pc = "setup_decoder" /\ codec = "live"
    /\ stream' \in {"live", "null"}
    /\ apps' = apps \union {"image"}
    /\ initial_length' = length /\ use_length' = TRUE
    /\ pc' = "header"
    /\ UNCHANGED <<how, codec, jp2_image, blobVars, succeeded, caught, result, calls>>

(* Mutant: the stream is forgotten on this path.                           *)
ReadHeaderFailsLeaking ==
    /\ pc = "header"
    /\ codec' = Destroyed(codec)
    /\ ReturnNull
    /\ UNCHANGED <<limits, how, stream, jp2_image, length, pos, far, out, succeeded, caught, calls>>

ReadHeaderFails ==
    /\ pc = "header"
    /\ stream' = Destroyed(stream) /\ codec' = Destroyed(codec)
    /\ ReturnNull
    /\ UNCHANGED <<limits, how, jp2_image, length, pos, far, out, succeeded, caught, calls>>

(* Where the call goes once the header is known and the area is set.       *)
AfterArea == IF how.scene THEN "tile" ELSE IF how.ping THEN "convert" ELSE "decode"

(* The stream is destroyed when the library has nothing left to decode.    *)
LeaveStream(where) == stream' = IF where = "convert" THEN Destroyed(stream) ELSE stream

DestroyAll == /\ stream' = Destroyed(stream) /\ codec' = Destroyed(codec)
              /\ jp2_image' = Destroyed(jp2_image)

(* opj_read_header has made the image; its size may be refused by the      *)
(* limits of the program.                                                  *)
ReadHeader ==
    /\ pc = "header" /\ stream = "live" /\ pos > 0
    /\ \/ /\ stream' = Destroyed(stream) /\ codec' = Destroyed(codec)
          /\ jp2_image' = Destroyed("live")
          /\ ReturnNull
       \/ LET where == IF how.ping THEN AfterArea ELSE "area" IN
          /\ jp2_image' = "live"
          /\ LeaveStream(where)
          /\ Goto(where)
          /\ UNCHANGED <<codec, blob>>
    /\ UNCHANGED <<limits, how, length, pos, far, out, succeeded, caught, calls>>

(* opj_set_decode_area, opj_get_decoded_tile, opj_decode and then          *)
(* opj_end_decompress return FALSE: everything is given back.              *)
DecodingFails ==
    /\ pc \in {"area", "tile", "decode", "end_decompress"}
    /\ DestroyAll
    /\ ReturnNull
    /\ UNCHANGED <<limits, how, length, pos, far, out, succeeded, caught, calls>>

SetDecodeArea ==
    /\ pc = "area"
    /\ Goto(AfterArea)
    /\ UNCHANGED <<limits, how, handles, blobVars, succeeded, caught, calls>>

Decode ==
    /\ pc = "decode"
    /\ Goto("end_decompress")
    /\ UNCHANGED <<limits, how, handles, blobVars, succeeded, caught, calls>>

Decoded ==
    /\ pc \in {"tile", "end_decompress"}
    /\ LeaveStream("convert")
    /\ Goto("convert")
    /\ UNCHANGED <<limits, how, codec, jp2_image, blobVars, succeeded, caught, calls>>

(* The library's pixels become the image's, unless the geometry of the     *)
(* channels is irregular or SetImageExtent fails.  A ping returns before   *)
(* that, and leaves the blob open.                                         *)
Convert ==
    /\ pc = "convert"
    /\ codec' = Destroyed(codec) /\ jp2_image' = Destroyed(jp2_image)
    /\ \/ ReturnNull
       \/ /\ blob' = IF how.ping THEN "open" ELSE "closed"
          /\ Return("image")
    /\ UNCHANGED <<limits, how, stream, length, pos, far, out, succeeded, caught, calls>>

-----------------------------------------------------------------------------
(* WriteJP2Image                                                           *)

(* The blob is opened, and the library's image made from its pixels; then  *)
(* the encoder, which may be NULL.                                         *)
WriteJP2Image ==
    /\ Call
    /\ stream' = "unset" /\ pos' = 0 /\ far' = 0 /\ out' = "empty"
    /\ succeeded' = TRUE /\ length' = 0
    /\ \/ codec' = "unset" /\ jp2_image' \in {"unset", "null"} /\ ReturnFalse
       \/ /\ jp2_image' = "live" /\ codec' \in {"live", "null"}
          /\ blob' = "open"
          /\ pc' = "setup_encoder" /\ apps' = {"exception"}
          /\ UNCHANGED result
    /\ UNCHANGED <<limits, how>>

(* The status of opj_setup_encoder is ignored.                             *)
SetupEncoder ==
    /\ pc = "setup_encoder"
    /\ \/ /\ stream' = "null"
          /\ codec' = Destroyed(codec) /\ jp2_image' = Destroyed(jp2_image)
          /\ ReturnFalse
       \/ /\ stream' = "live"
          /\ apps' = apps \union {"image"}
          /\ pc' = "start"
          /\ UNCHANGED <<codec, jp2_image, blob, result>>
    /\ UNCHANGED <<limits, how, length, pos, far, out, succeeded, caught, calls>>

(* All three calls are made, also after one of them has failed.            *)
NextStage == CASE pc = "start" -> "encode"
               [] pc = "encode" -> "end_compress"
               [] pc = "end_compress" -> "finish"

CompressStage ==
    /\ pc \in {"start", "encode", "end_compress"}
    /\ \/ codec = "live" /\ out # "empty" /\ UNCHANGED succeeded
       \/ succeeded' = FALSE
    /\ Goto(NextStage)
    /\ UNCHANGED <<limits, how, handles, blobVars, caught, calls>>

(* Mutant: the error path returns with the blob open.                      *)
FinishLeavingOpen ==
    /\ pc = "finish"
    /\ DestroyAll
    /\ Return(IF succeeded THEN "true" ELSE "false")
    /\ blob' = IF succeeded THEN "closed" ELSE blob
    /\ UNCHANGED <<limits, how, length, pos, far, out, succeeded, caught, calls>>

Finish ==
    /\ pc = "finish"
    /\ DestroyAll
    /\ blob' = "closed" /\ Return(IF succeeded THEN "true" ELSE "false")
    /\ UNCHANGED <<limits, how, length, pos, far, out, succeeded, caught, calls>>

-----------------------------------------------------------------------------
(* The callbacks                                                           *)

(* sandbox->fail names what it has caught; lookup_app_ptr of a token that  *)
(* is not registered ends the process too.                                 *)
Exit(thing) == pc' = "exited" /\ caught' = thing /\ UNCHANGED <<pos, far, out>>

(* The blob of the image the library was given, once a verifier has let    *)
(* the request pass.                                                       *)
OnBlob(accepted, thing, do) ==
    IF ~accepted THEN Exit(thing)
    ELSE IF "image" \notin apps THEN Exit("app_pointer")
    ELSE do /\ UNCHANGED <<pc, caught>>

MoveTo(p) == pos' = p /\ far' = IF p > far THEN p ELSE far

(* JP2SeekHandler; a seek may also fail.                                   *)
SeekVerified(p) == ~(use_length /\ p > initial_length)
JP2SeekHandler(p) ==
    OnBlob(SeekVerified(p), "seek_offset", (MoveTo(p) \/ MoveTo(pos)) /\ UNCHANGED out)

(* JP2SkipHandler                                                          *)
SkipVerified(n) == ~(use_length /\ n >= initial_length)

JP2SkipHandler(n) ==
    OnBlob(SkipVerified(n), "skip_offset", (MoveTo(pos + n) \/ MoveTo(pos)) /\ UNCHANGED out)

InLibrary(stages) == pc \in stages /\ codec = "live" /\ stream = "live"

Reading == InLibrary({"header", "tile", "decode", "end_decompress"})
Writing == InLibrary({"start", "encode", "end_compress"})

(* JP2ErrorHandler and JP2WarningHandler, from any stage of the library.   *)
Message ==
    /\ pc \in Stages /\ codec = "live"
    /\ IF "exception" \in apps THEN UNCHANGED <<pc, pos, far, out, caught>>
       ELSE Exit("app_pointer")
    /\ UNCHANGED <<limits, how, handles, apps, blob, length, succeeded, result, calls>>

(* JP2ReadHandler gives fewer bytes at the end of the blob, or none.       *)
ReadVerified(n) == n <= ChunkSize
JP2ReadHandler(n) ==
    OnBlob(ReadVerified(n), "read_length",
           (\E p \in pos..(IF pos + n < length THEN pos + n ELSE length) : MoveTo(p))
           /\ UNCHANGED out)

(* opj_stream_read_data fills the stream's buffer, or reads all the bytes  *)
(* it is asked for past the buffer when they are more than fit; the        *)
(* library never asks for more than the file has left.                     *)
Read ==
    /\ Reading
    /\ \E n \in {ChunkSize} \union (ChunkSize + 1)..(length - pos) : JP2ReadHandler(n)
    /\ UNCHANGED <<limits, how, handles, apps, blob, length, succeeded, result, calls>>

(* opj_stream_read_skip asks the media to skip what lies within the file,  *)
(* and to seek to its end instead of beyond.  The library reads a marker   *)
(* or the head of a box before it skips the rest.                          *)
Skip ==
    /\ Reading /\ pos > 0
    /\ \/ \E n \in 1..(length - pos) : JP2SkipHandler(n)
       \/ JP2SeekHandler(length)
    /\ UNCHANGED <<limits, how, handles, apps, blob, length, succeeded, result, calls>>

(* opj_j2k_decode_one_tile, and the look ahead for tile parts, return to a *)
(* place the library has been at.                                          *)
SeekBack ==
    /\ Reading
    /\ \E p \in 0..far : JP2SeekHandler(p)
    /\ UNCHANGED <<limits, how, handles, apps, blob, length, succeeded, result, calls>>

(* opj_stream_write_data: the bytes stay in the stream's buffer for now.   *)
Write ==
    /\ Writing
    /\ out' = "buffered"
    /\ UNCHANGED <<limits, pc, how, handles, apps, blob, length, pos, far, succeeded,
                   caught, result, calls>>

(* Mutant: the verifiers go on with the size of the last file that was read. *)
JP2WriteHandlerKeepsLimit ==
    /\ OnBlob(TRUE, "write_length", (\E p \in pos..MaxOutput : MoveTo(p)) /\ out' = "flushed")
    /\ UNCHANGED limits

(* JP2WriteHandler ends the use of the length before anything else; the    *)
(* write itself may fail.                                                  *)
JP2WriteHandler ==
    /\ OnBlob(TRUE, "write_length", (\E p \in pos..MaxOutput : MoveTo(p)) /\ out' = "flushed")
    /\ use_length' = FALSE /\ UNCHANGED initial_length

(* The buffer is full, or a skip or a seek is coming: opj_stream_flush.    *)
Flush ==
    /\ Writing /\ out = "buffered"
    /\ JP2WriteHandler
    /\ UNCHANGED <<how, handles, apps, blob, length, succeeded, result, calls>>

(* opj_jp2_skip_jp2c leaves room for the length of the codestream;         *)
(* opj_jp2_write_jp2c and opj_j2k_write_updated_tlm go back and return.    *)
(* Each comes after something was written, and begins with a flush.        *)
WriteSkip ==
    /\ Writing /\ out = "flushed"
    /\ \E n \in 1..(MaxOutput - pos) : JP2SkipHandler(n)
    /\ UNCHANGED <<limits, how, handles, apps, blob, length, succeeded, result, calls>>

WriteSeek ==
    /\ Writing /\ out = "flushed"
    /\ \E p \in 0..far : JP2SeekHandler(p)
    /\ UNCHANGED <<limits, how, handles, apps, blob, length, succeeded, result, calls>>

-----------------------------------------------------------------------------
(* The program ends when it likes, or has ended in a verifier.             *)
Terminated == pc = "exited" \/ (pc = "idle" /\ calls = MaxCalls)

Next ==
    \/ \E n \in Lengths, ping, scene \in BOOLEAN : ReadJP2Image(n, ping, scene)
    \/ SetupDecoder \/ SetupDecoderFails \/ ReadHeader \/ ReadHeaderFails
    \/ SetDecodeArea \/ Decode \/ Decoded \/ DecodingFails \/ Convert
    \/ WriteJP2Image \/ SetupEncoder \/ CompressStage \/ Finish
    \/ Message \/ Read \/ Skip \/ SeekBack
    \/ Write \/ Flush \/ WriteSkip \/ WriteSeek
    \/ Terminated /\ UNCHANGED vars

Spec == Init /\ [][Next]_vars

-----------------------------------------------------------------------------
(* Properties                                                              *)

Pcs == Stages \union {"idle", "setup_decoder", "convert", "finish", "exited"}

CallTypeOK ==
    /\ pc \in Pcs /\ how \in [ping : BOOLEAN, scene : BOOLEAN]
    /\ apps \subseteq {"exception", "image"}
    /\ blob \in {"open", "closed", "destroyed"}
    /\ succeeded \in BOOLEAN
    /\ result \in {"none", "image", "null", "true", "false"}
    /\ calls \in 0..MaxCalls

PointerTypeOK == codec \in Pointer /\ stream \in Pointer /\ jp2_image \in Pointer

PositionTypeOK ==
    /\ use_length \in BOOLEAN /\ initial_length \in Int
    /\ length \in Nat /\ pos \in Nat /\ far \in Nat
    /\ out \in {"empty", "buffered", "flushed"}
    /\ caught \in {"nothing", "read_length", "seek_offset", "skip_offset", "app_pointer"}

(* Every variable has its type.                                            *)
TypeOK == CallTypeOK /\ PointerTypeOK /\ PositionTypeOK

(* Whatever sequence of reads and writes the program makes, no request     *)
(* that OpenJPEG and its stream really make ends it in a verifier, and     *)
(* each callback finds the image or the exception its token stands for: a  *)
(* write is never judged by the size of the file that was read before it.  *)
(* The exception is read_length__verifier, which rejects what the stream   *)
(* asks for past its buffer: only a file larger than that buffer gets      *)
(* there.                                                                  *)
VerifiersAccept ==
    caught # "nothing" => caught = "read_length" /\ length > ChunkSize

(* While OpenJPEG reads, the verifiers are in force with the size of the   *)
(* very file that is being read.                                           *)
VerifiersInForce == Reading => use_length /\ initial_length = length

(* Each object the library has made for a call is destroyed once and only  *)
(* once, on each of the paths through ReadJP2Image and WriteJP2Image, and  *)
(* nothing is destroyed that was never made.                               *)
HandlesFreed ==
    /\ "misused" \notin {codec, stream, jp2_image}
    /\ pc = "idle" => "live" \notin {codec, stream, jp2_image}

(* The blob is closed when a call is over, and the image of a read that    *)
(* failed is destroyed; only a ping leaves the blob open for its caller.   *)
BlobReleased ==
    pc = "idle" =>
        CASE result = "null"  -> blob = "destroyed"
          [] result = "image" -> blob = (IF how.ping THEN "open" ELSE "closed")
          [] OTHER            -> blob = "closed"
=============================================================================
