-------------------------- MODULE JP2CoderProofs ---------------------------
(***************************************************************************)
(* Theorems about JP2Coder, for files of any sizes, a stream's buffer of   *)
(* any size, and any number of calls.                                      *)
(***************************************************************************)
EXTENDS JP2Coder, TLAPS

USE LengthsAssumption, ChunkSizeAssumption, BoundsAssumption

-----------------------------------------------------------------------------
(* The inductive invariant                                                 *)

(* The objects the library has made at each stage.                         *)
HandlesInv ==
    /\ pc = "idle" => {codec, stream, jp2_image} \subseteq {"unset", "null", "destroyed"}
    /\ pc = "setup_decoder" =>
          codec \in {"live", "null"} /\ stream = "unset" /\ jp2_image = "unset"
    /\ pc = "header" =>
          codec = "live" /\ stream \in {"live", "null"} /\ jp2_image = "unset"
    /\ pc \in ReadStages \ {"header"} =>
          codec = "live" /\ stream = "live" /\ jp2_image = "live"
    /\ pc = "convert" => codec = "live" /\ stream = "destroyed" /\ jp2_image = "live"
    /\ pc = "setup_encoder" =>
          codec \in {"live", "null"} /\ stream = "unset" /\ jp2_image = "live"
    /\ pc \in {"start", "encode", "end_compress", "finish"} =>
          codec \in {"live", "null"} /\ stream = "live" /\ jp2_image = "live"
    /\ pc = "exited" => "misused" \notin {codec, stream, jp2_image}
    /\ pc = "area" => ~how.ping

(* The library finds the exception at every stage, and the image as soon   *)
(* as it has a stream.                                                     *)
TokensInv ==
    /\ pc = "setup_decoder" \/ pc \in Stages => "exception" \in apps
    /\ pc \in Stages \ {"setup_encoder"} => "image" \in apps

(* A read stays within its file, whose size the verifiers know.            *)
ReadInv ==
    /\ pc = "setup_decoder" => pos = 0 /\ far = 0
    /\ pc \in ReadStages =>
          /\ use_length /\ initial_length = length
          /\ pos <= far /\ far <= length

(* What was written has ended the use of the length.                       *)
WriteInv == pc \in WriteStages /\ out = "flushed" => ~use_length

CaughtInv ==
    /\ pc = "exited" <=> caught # "nothing"
    /\ VerifiersAccept

IInv == TypeOK /\ HandlesInv /\ TokensInv /\ ReadInv /\ WriteInv /\ CaughtInv

-----------------------------------------------------------------------------
(* What the callbacks do to the positions: a step to p, or none at all.    *)

Moved(p) ==
    /\ pos' \in {pos, p} /\ far' \in {far, pos, p}
    /\ pos <= far => pos' <= far'

LEMMA MoveToMoved ==
    ASSUME pos \in Nat, far \in Nat, NEW p \in Nat, MoveTo(p)
    PROVE  Moved(p)
  BY DEF Moved, MoveTo

LEMMA MoveToPos ==
    ASSUME pos \in Nat, far \in Nat, NEW p \in Nat, MoveTo(pos)
    PROVE  Moved(p)
  BY DEF Moved, MoveTo

LEMMA StayMoved ==
    ASSUME pos \in Nat, far \in Nat, NEW p \in Nat, UNCHANGED <<pos, far>>
    PROVE  Moved(p)
  BY DEF Moved

LEMMA SeekEffect ==
    ASSUME pos \in Nat, far \in Nat, NEW p \in Nat, JP2SeekHandler(p)
    PROVE  /\ Moved(p) /\ out' = out
           /\ caught' \in {caught, "seek_offset", "app_pointer"}
           /\ SeekVerified(p) /\ "image" \in apps => pc' = pc /\ caught' = caught
  BY MoveToMoved, MoveToPos, StayMoved DEF JP2SeekHandler, OnBlob, Exit

LEMMA SkipEffect ==
    ASSUME pos \in Nat, far \in Nat, NEW n \in Nat, JP2SkipHandler(n)
    PROVE  /\ Moved(pos + n) /\ out' = out
           /\ caught' \in {caught, "skip_offset", "app_pointer"}
           /\ SkipVerified(n) /\ "image" \in apps => pc' = pc /\ caught' = caught
<1>1. pos + n \in Nat
  OBVIOUS
<1> QED
  BY <1>1, MoveToMoved, MoveToPos, StayMoved DEF JP2SkipHandler, OnBlob, Exit

LEMMA ReadEffect ==
    ASSUME pos \in Nat, far \in Nat, length \in Nat, NEW n \in Nat, JP2ReadHandler(n)
    PROVE  /\ \E p \in Nat : Moved(p) /\ (p <= length \/ p = pos)
           /\ out' = out
           /\ caught' \in {caught, "read_length", "app_pointer"}
           /\ "image" \in apps =>
                 \/ pc' = pc /\ caught' = caught
                 \/ ~ReadVerified(n) /\ caught' = "read_length"
<1>1. \E p \in Nat : Moved(p) /\ (p <= length \/ p = pos)
  <2>1. CASE UNCHANGED <<pos, far>>
    BY <2>1, StayMoved
  <2>2. CASE \E p \in pos..(IF pos + n < length THEN pos + n ELSE length) : MoveTo(p)
    <3>1. PICK p \in pos..(IF pos + n < length THEN pos + n ELSE length) : MoveTo(p)
      BY <2>2
    <3>2. p \in Nat /\ p <= length
      BY <3>1
    <3> QED BY <3>1, <3>2, MoveToMoved
  <2> QED BY <2>1, <2>2 DEF JP2ReadHandler, OnBlob, Exit
<1> QED
  BY <1>1 DEF JP2ReadHandler, OnBlob, Exit

LEMMA WriteEffect ==
    ASSUME pos \in Nat, far \in Nat, JP2WriteHandler
    PROVE  /\ \E p \in Nat : Moved(p)
           /\ out' \in {out, "flushed"} /\ caught' \in {caught, "write_length", "app_pointer"}
           /\ caught' # "write_length" \/ caught' = caught
           /\ use_length' = FALSE /\ initial_length' = initial_length
<1>1. \E p \in Nat : Moved(p)
  <2>1. CASE UNCHANGED <<pos, far>>
    BY <2>1, StayMoved
  <2>2. CASE \E p \in pos..MaxOutput : MoveTo(p)
    <3>1. PICK p \in pos..MaxOutput : MoveTo(p)
      BY <2>2
    <3> QED BY <3>1, MoveToMoved
  <2> QED BY <2>1, <2>2 DEF JP2WriteHandler, OnBlob, Exit
<1> QED
  BY <1>1 DEF JP2WriteHandler, OnBlob, Exit

(* Every step keeps the types.                                             *)
LEMMA CallTypeStep == CallTypeOK /\ [Next]_vars => CallTypeOK'
<1> SUFFICES ASSUME CallTypeOK, [Next]_vars PROVE CallTypeOK'
  OBVIOUS
<1>1. ASSUME NEW n \in Lengths, NEW ping \in BOOLEAN, NEW scene \in BOOLEAN,
           ReadJP2Image(n, ping, scene)
      PROVE  CallTypeOK'
  BY <1>1 DEF CallTypeOK, Pcs, ReadStages, WriteStages, Stages,
         ReadJP2Image, Call, Fresh, ReturnNull, Return, limits
<1>2. CASE SetupDecoder
  BY <1>2 DEF CallTypeOK, Pcs, ReadStages, WriteStages, Stages,
         SetupDecoder, blobVars
<1>3. CASE SetupDecoderFails
  BY <1>3 DEF CallTypeOK, Pcs, ReadStages, WriteStages, Stages,
         SetupDecoderFails, Destroyed, ReturnNull, Return, limits
<1>4. CASE ReadHeader
  BY <1>4 DEF CallTypeOK, Pcs, ReadStages, WriteStages, Stages, ReadHeader,
         Destroyed, ReturnNull, Return, AfterArea, LeaveStream, Goto, limits
<1>5. CASE ReadHeaderFails
  BY <1>5 DEF CallTypeOK, Pcs, ReadStages, WriteStages, Stages,
         ReadHeaderFails, Destroyed, ReturnNull, Return, limits
<1>6. CASE SetDecodeArea
  BY <1>6 DEF CallTypeOK, Pcs, ReadStages, WriteStages, Stages,
         SetDecodeArea, Goto, AfterArea, limits, handles, blobVars
<1>7. CASE Decode
  BY <1>7 DEF CallTypeOK, Pcs, ReadStages, WriteStages, Stages, Decode,
         Goto, limits, handles, blobVars
<1>8. CASE Decoded
  BY <1>8 DEF CallTypeOK, Pcs, ReadStages, WriteStages, Stages, Decoded,
         LeaveStream, Destroyed, Goto, limits, blobVars
<1>9. CASE DecodingFails
  BY <1>9 DEF CallTypeOK, Pcs, ReadStages, WriteStages, Stages,
         DecodingFails, DestroyAll, Destroyed, ReturnNull, Return, limits
<1>10. CASE Convert
  BY <1>10 DEF CallTypeOK, Pcs, ReadStages, WriteStages, Stages, Convert,
         Destroyed, ReturnNull, Return, limits
<1>11. CASE WriteJP2Image
  BY <1>11 DEF CallTypeOK, Pcs, ReadStages, WriteStages, Stages,
         WriteJP2Image, Call, ReturnFalse, Return, limits
<1>12. CASE SetupEncoder
  BY <1>12 DEF CallTypeOK, Pcs, ReadStages, WriteStages, Stages,
         SetupEncoder, Destroyed, ReturnFalse, Return, limits
<1>13. CASE CompressStage
  BY <1>13 DEF CallTypeOK, Pcs, ReadStages, WriteStages, Stages,
         CompressStage, Goto, NextStage, limits, handles, blobVars
<1>14. CASE Finish
  BY <1>14 DEF CallTypeOK, Pcs, ReadStages, WriteStages, Stages, Finish,
         DestroyAll, Destroyed, Return, limits
<1>15. CASE Message
  BY <1>15 DEF CallTypeOK, Pcs, ReadStages, WriteStages, Stages, Message,
         Exit, limits, handles
<1>16. CASE Read
  BY <1>16 DEF CallTypeOK, Pcs, ReadStages, WriteStages, Stages, Read,
         Reading, InLibrary, JP2ReadHandler, OnBlob, Exit, ReadVerified,
         MoveTo, limits, handles
<1>17. CASE Skip
  BY <1>17 DEF CallTypeOK, Pcs, ReadStages, WriteStages, Stages, Skip,
         Reading, InLibrary, JP2SkipHandler, OnBlob, Exit, SkipVerified,
         MoveTo, JP2SeekHandler, SeekVerified, limits, handles
<1>18. CASE SeekBack
  BY <1>18 DEF CallTypeOK, Pcs, ReadStages, WriteStages, Stages, SeekBack,
         Reading, InLibrary, JP2SeekHandler, OnBlob, Exit, SeekVerified,
         MoveTo, limits, handles
<1>19. CASE Write
  BY <1>19 DEF CallTypeOK, Pcs, ReadStages, WriteStages, Stages, Write,
         Writing, InLibrary, limits, handles
<1>20. CASE Flush
  BY <1>20 DEF CallTypeOK, Pcs, ReadStages, WriteStages, Stages, Flush,
         Writing, InLibrary, JP2WriteHandler, OnBlob, Exit, MoveTo, handles
<1>21. CASE WriteSkip
  BY <1>21 DEF CallTypeOK, Pcs, ReadStages, WriteStages, Stages, WriteSkip,
         Writing, InLibrary, JP2SkipHandler, OnBlob, Exit, SkipVerified,
         MoveTo, limits, handles
<1>22. CASE WriteSeek
  BY <1>22 DEF CallTypeOK, Pcs, ReadStages, WriteStages, Stages, WriteSeek,
         Writing, InLibrary, JP2SeekHandler, OnBlob, Exit, SeekVerified,
         MoveTo, limits, handles
<1>23. CASE UNCHANGED vars
  BY <1>23 DEF CallTypeOK, vars, limits, handles, blobVars
<1> QED
  BY <1>1, <1>2, <1>3, <1>4, <1>5, <1>6, <1>7, <1>8, <1>9, <1>10, <1>11,
     <1>12, <1>13, <1>14, <1>15, <1>16, <1>17, <1>18, <1>19, <1>20, <1>21,
     <1>22, <1>23 DEF Next

LEMMA PointerTypeStep == PointerTypeOK /\ [Next]_vars => PointerTypeOK'
<1> SUFFICES ASSUME PointerTypeOK, [Next]_vars PROVE PointerTypeOK'
  OBVIOUS
<1>1. ASSUME NEW n \in Lengths, NEW ping \in BOOLEAN, NEW scene \in BOOLEAN,
           ReadJP2Image(n, ping, scene)
      PROVE  PointerTypeOK'
  BY <1>1 DEF PointerTypeOK, Pointer, ReadJP2Image, Call, Fresh, ReturnNull,
         Return, limits
<1>2. CASE SetupDecoder
  BY <1>2 DEF PointerTypeOK, Pointer, SetupDecoder, blobVars
<1>3. CASE SetupDecoderFails
  BY <1>3 DEF PointerTypeOK, Pointer, SetupDecoderFails, Destroyed,
         ReturnNull, Return, limits
<1>4. CASE ReadHeader
  BY <1>4 DEF PointerTypeOK, Pointer, ReadHeader, Destroyed, ReturnNull,
         Return, AfterArea, LeaveStream, Goto, limits
<1>5. CASE ReadHeaderFails
  BY <1>5 DEF PointerTypeOK, Pointer, ReadHeaderFails, Destroyed,
         ReturnNull, Return, limits
<1>6. CASE SetDecodeArea
  BY <1>6 DEF PointerTypeOK, Pointer, SetDecodeArea, Goto, AfterArea,
         limits, handles, blobVars
<1>7. CASE Decode
  BY <1>7 DEF PointerTypeOK, Pointer, Decode, Goto, limits, handles,
         blobVars
<1>8. CASE Decoded
  BY <1>8 DEF PointerTypeOK, Pointer, Decoded, LeaveStream, Destroyed, Goto,
         limits, blobVars
<1>9. CASE DecodingFails
  BY <1>9 DEF PointerTypeOK, Pointer, DecodingFails, DestroyAll, Destroyed,
         ReturnNull, Return, limits
<1>10. CASE Convert
  BY <1>10 DEF PointerTypeOK, Pointer, Convert, Destroyed, ReturnNull,
         Return, limits
<1>11. CASE WriteJP2Image
  BY <1>11 DEF PointerTypeOK, Pointer, WriteJP2Image, Call, ReturnFalse,
         Return, limits
<1>12. CASE SetupEncoder
  BY <1>12 DEF PointerTypeOK, Pointer, SetupEncoder, Destroyed, ReturnFalse,
         Return, limits
<1>13. CASE CompressStage
  BY <1>13 DEF PointerTypeOK, Pointer, CompressStage, Goto, NextStage,
         limits, handles, blobVars
<1>14. CASE Finish
  BY <1>14 DEF PointerTypeOK, Pointer, Finish, DestroyAll, Destroyed,
         Return, limits
<1>15. CASE Message
  BY <1>15 DEF PointerTypeOK, Pointer, Message, Stages, ReadStages,
         WriteStages, Exit, limits, handles
<1>16. CASE Read
  BY <1>16 DEF PointerTypeOK, Pointer, Read, Reading, InLibrary,
         JP2ReadHandler, OnBlob, Exit, ReadVerified, MoveTo, limits, handles
<1>17. CASE Skip
  BY <1>17 DEF PointerTypeOK, Pointer, Skip, Reading, InLibrary,
         JP2SkipHandler, OnBlob, Exit, SkipVerified, MoveTo, JP2SeekHandler,
         SeekVerified, limits, handles
<1>18. CASE SeekBack
  BY <1>18 DEF PointerTypeOK, Pointer, SeekBack, Reading, InLibrary,
         JP2SeekHandler, OnBlob, Exit, SeekVerified, MoveTo, limits, handles
<1>19. CASE Write
  BY <1>19 DEF PointerTypeOK, Pointer, Write, Writing, InLibrary, limits,
         handles
<1>20. CASE Flush
  BY <1>20 DEF PointerTypeOK, Pointer, Flush, Writing, InLibrary,
         JP2WriteHandler, OnBlob, Exit, MoveTo, handles
<1>21. CASE WriteSkip
  BY <1>21 DEF PointerTypeOK, Pointer, WriteSkip, Writing, InLibrary,
         JP2SkipHandler, OnBlob, Exit, SkipVerified, MoveTo, limits, handles
<1>22. CASE WriteSeek
  BY <1>22 DEF PointerTypeOK, Pointer, WriteSeek, Writing, InLibrary,
         JP2SeekHandler, OnBlob, Exit, SeekVerified, MoveTo, limits, handles
<1>23. CASE UNCHANGED vars
  BY <1>23 DEF PointerTypeOK, vars, limits, handles, blobVars
<1> QED
  BY <1>1, <1>2, <1>3, <1>4, <1>5, <1>6, <1>7, <1>8, <1>9, <1>10, <1>11,
     <1>12, <1>13, <1>14, <1>15, <1>16, <1>17, <1>18, <1>19, <1>20, <1>21,
     <1>22, <1>23 DEF Next

LEMMA PositionTypeStep == PositionTypeOK /\ [Next]_vars => PositionTypeOK'
<1> SUFFICES ASSUME PositionTypeOK, [Next]_vars PROVE PositionTypeOK'
  OBVIOUS
<1>1. ASSUME NEW n \in Lengths, NEW ping \in BOOLEAN, NEW scene \in BOOLEAN,
           ReadJP2Image(n, ping, scene)
      PROVE  PositionTypeOK'
  BY <1>1 DEF PositionTypeOK, ReadJP2Image, Call, Fresh, ReturnNull, Return,
         limits
<1>2. CASE SetupDecoder
  <2>1. use_length' = TRUE /\ initial_length' = length
    BY <1>2 DEF SetupDecoder
  <2>2. UNCHANGED <<blobVars, caught>>
    BY <1>2 DEF SetupDecoder
  <2> QED BY <2>1, <2>2 DEF PositionTypeOK, blobVars
<1>3. CASE SetupDecoderFails
  BY <1>3 DEF PositionTypeOK, SetupDecoderFails, Destroyed, ReturnNull,
         Return, limits
<1>4. CASE ReadHeader
  BY <1>4 DEF PositionTypeOK, ReadHeader, Destroyed, ReturnNull, Return,
         AfterArea, LeaveStream, Goto, limits
<1>5. CASE ReadHeaderFails
  BY <1>5 DEF PositionTypeOK, ReadHeaderFails, Destroyed, ReturnNull,
         Return, limits
<1>6. CASE SetDecodeArea
  BY <1>6 DEF PositionTypeOK, SetDecodeArea, Goto, AfterArea, limits,
         handles, blobVars
<1>7. CASE Decode
  BY <1>7 DEF PositionTypeOK, Decode, Goto, limits, handles, blobVars
<1>8. CASE Decoded
  BY <1>8 DEF PositionTypeOK, Decoded, LeaveStream, Destroyed, Goto, limits,
         blobVars
<1>9. CASE DecodingFails
  BY <1>9 DEF PositionTypeOK, DecodingFails, DestroyAll, Destroyed,
         ReturnNull, Return, limits
<1>10. CASE Convert
  BY <1>10 DEF PositionTypeOK, Convert, Destroyed, ReturnNull, Return,
         limits
<1>11. CASE WriteJP2Image
  BY <1>11 DEF PositionTypeOK, WriteJP2Image, Call, ReturnFalse, Return,
         limits
<1>12. CASE SetupEncoder
  BY <1>12 DEF PositionTypeOK, SetupEncoder, Destroyed, ReturnFalse, Return,
         limits
<1>13. CASE CompressStage
  BY <1>13 DEF PositionTypeOK, CompressStage, Goto, NextStage, limits,
         handles, blobVars
<1>14. CASE Finish
  BY <1>14 DEF PositionTypeOK, Finish, DestroyAll, Destroyed, Return, limits
<1>15. CASE Message
  BY <1>15 DEF PositionTypeOK, Message, Stages, ReadStages, WriteStages,
         Exit, limits, handles
<1>16. CASE Read
  <2>1. PICK n \in {ChunkSize} \union (ChunkSize + 1)..(length - pos) : JP2ReadHandler(n)
    BY <1>16 DEF Read
  <2>2. n \in Nat
    BY DEF PositionTypeOK
  <2>3. UNCHANGED <<limits, length>>
    BY <1>16 DEF Read
  <2> QED
    BY <2>1, <2>2, <2>3, ReadEffect DEF PositionTypeOK, Moved, limits
<1>17. CASE Skip
  <2>1. UNCHANGED <<limits, length>>
    BY <1>17 DEF Skip
  <2>2. CASE JP2SeekHandler(length)
    BY <2>1, <2>2, SeekEffect DEF PositionTypeOK, Moved, limits
  <2>3. ASSUME NEW n \in 1..(length - pos), JP2SkipHandler(n) PROVE PositionTypeOK'
    <3>1. n \in Nat
      BY DEF PositionTypeOK
    <3> QED BY <2>1, <2>3, <3>1, SkipEffect DEF PositionTypeOK, Moved, limits
  <2> QED BY <1>17, <2>2, <2>3 DEF Skip
<1>18. CASE SeekBack
  <2>1. PICK p \in 0..far : JP2SeekHandler(p)
    BY <1>18 DEF SeekBack
  <2>2. UNCHANGED <<limits, length>>
    BY <1>18 DEF SeekBack
  <2> QED BY <2>1, <2>2, SeekEffect DEF PositionTypeOK, Moved, limits
<1>19. CASE Write
  BY <1>19 DEF PositionTypeOK, Write, Writing, InLibrary, limits, handles
<1>20. CASE Flush
  <2>1. JP2WriteHandler /\ UNCHANGED length
    BY <1>20 DEF Flush
  <2> QED BY <2>1, WriteEffect DEF PositionTypeOK, Moved
<1>21. CASE WriteSkip
  <2>1. PICK n \in 1..(MaxOutput - pos) : JP2SkipHandler(n)
    BY <1>21 DEF WriteSkip
  <2>2. UNCHANGED <<limits, length>>
    BY <1>21 DEF WriteSkip
  <2>3. n \in Nat
    BY DEF PositionTypeOK
  <2> QED BY <2>1, <2>2, <2>3, SkipEffect DEF PositionTypeOK, Moved, limits
<1>22. CASE WriteSeek
  <2>1. PICK p \in 0..far : JP2SeekHandler(p)
    BY <1>22 DEF WriteSeek
  <2>2. UNCHANGED <<limits, length>>
    BY <1>22 DEF WriteSeek
  <2> QED BY <2>1, <2>2, SeekEffect DEF PositionTypeOK, Moved, limits
<1>23. CASE UNCHANGED vars
  BY <1>23 DEF PositionTypeOK, vars, limits, handles, blobVars
<1> QED
  BY <1>1, <1>2, <1>3, <1>4, <1>5, <1>6, <1>7, <1>8, <1>9, <1>10, <1>11,
     <1>12, <1>13, <1>14, <1>15, <1>16, <1>17, <1>18, <1>19, <1>20, <1>21,
     <1>22, <1>23 DEF Next

(* What is destroyed was made, and not destroyed before.                   *)
LEMMA HandlesStep == HandlesInv /\ [Next]_vars => HandlesInv'
<1> SUFFICES ASSUME HandlesInv, [Next]_vars PROVE HandlesInv'
  OBVIOUS
<1>1. ASSUME NEW n \in Lengths, NEW ping \in BOOLEAN, NEW scene \in BOOLEAN,
           ReadJP2Image(n, ping, scene)
      PROVE  HandlesInv'
  BY <1>1 DEF HandlesInv, ReadStages, WriteStages, Stages, ReadJP2Image,
         Call, Fresh, ReturnNull, Return, limits
<1>2. CASE SetupDecoder
  BY <1>2 DEF HandlesInv, ReadStages, WriteStages, Stages, SetupDecoder,
         blobVars
<1>3. CASE SetupDecoderFails
  BY <1>3 DEF HandlesInv, ReadStages, WriteStages, Stages,
         SetupDecoderFails, Destroyed, ReturnNull, Return, limits
<1>4. CASE ReadHeader
  BY <1>4 DEF HandlesInv, ReadStages, WriteStages, Stages, ReadHeader,
         Destroyed, ReturnNull, Return, AfterArea, LeaveStream, Goto, limits
<1>5. CASE ReadHeaderFails
  BY <1>5 DEF HandlesInv, ReadStages, WriteStages, Stages, ReadHeaderFails,
         Destroyed, ReturnNull, Return, limits
<1>6. CASE SetDecodeArea
  BY <1>6 DEF HandlesInv, ReadStages, WriteStages, Stages, SetDecodeArea,
         Goto, AfterArea, limits, handles, blobVars
<1>7. CASE Decode
  BY <1>7 DEF HandlesInv, ReadStages, WriteStages, Stages, Decode, Goto,
         limits, handles, blobVars
<1>8. CASE Decoded
  BY <1>8 DEF HandlesInv, ReadStages, WriteStages, Stages, Decoded,
         LeaveStream, Destroyed, Goto, limits, blobVars
<1>9. CASE DecodingFails
  BY <1>9 DEF HandlesInv, ReadStages, WriteStages, Stages, DecodingFails,
         DestroyAll, Destroyed, ReturnNull, Return, limits
<1>10. CASE Convert
  BY <1>10 DEF HandlesInv, ReadStages, WriteStages, Stages, Convert,
         Destroyed, ReturnNull, Return, limits
<1>11. CASE WriteJP2Image
  BY <1>11 DEF HandlesInv, ReadStages, WriteStages, Stages, WriteJP2Image,
         Call, ReturnFalse, Return, limits
<1>12. CASE SetupEncoder
  BY <1>12 DEF HandlesInv, ReadStages, WriteStages, Stages, SetupEncoder,
         Destroyed, ReturnFalse, Return, limits
<1>13. CASE CompressStage
  BY <1>13 DEF HandlesInv, ReadStages, WriteStages, Stages, CompressStage,
         Goto, NextStage, limits, handles, blobVars
<1>14. CASE Finish
  BY <1>14 DEF HandlesInv, ReadStages, WriteStages, Stages, Finish,
         DestroyAll, Destroyed, Return, limits
<1>15. CASE Message
  BY <1>15 DEF HandlesInv, ReadStages, WriteStages, Stages, Message, Exit,
         limits, handles
<1>16. CASE Read
  BY <1>16 DEF HandlesInv, ReadStages, WriteStages, Stages, Read, Reading,
         InLibrary, JP2ReadHandler, OnBlob, Exit, ReadVerified, MoveTo,
         limits, handles
<1>17. CASE Skip
  BY <1>17 DEF HandlesInv, ReadStages, WriteStages, Stages, Skip, Reading,
         InLibrary, JP2SkipHandler, OnBlob, Exit, SkipVerified, MoveTo,
         JP2SeekHandler, SeekVerified, limits, handles
<1>18. CASE SeekBack
  BY <1>18 DEF HandlesInv, ReadStages, WriteStages, Stages, SeekBack,
         Reading, InLibrary, JP2SeekHandler, OnBlob, Exit, SeekVerified,
         MoveTo, limits, handles
<1>19. CASE Write
  BY <1>19 DEF HandlesInv, ReadStages, WriteStages, Stages, Write, Writing,
         InLibrary, limits, handles
<1>20. CASE Flush
  BY <1>20 DEF HandlesInv, ReadStages, WriteStages, Stages, Flush, Writing,
         InLibrary, JP2WriteHandler, OnBlob, Exit, MoveTo, handles
<1>21. CASE WriteSkip
  BY <1>21 DEF HandlesInv, ReadStages, WriteStages, Stages, WriteSkip,
         Writing, InLibrary, JP2SkipHandler, OnBlob, Exit, SkipVerified,
         MoveTo, limits, handles
<1>22. CASE WriteSeek
  BY <1>22 DEF HandlesInv, ReadStages, WriteStages, Stages, WriteSeek,
         Writing, InLibrary, JP2SeekHandler, OnBlob, Exit, SeekVerified,
         MoveTo, limits, handles
<1>23. CASE UNCHANGED vars
  BY <1>23 DEF HandlesInv, vars, limits, handles, blobVars
<1> QED
  BY <1>1, <1>2, <1>3, <1>4, <1>5, <1>6, <1>7, <1>8, <1>9, <1>10, <1>11,
     <1>12, <1>13, <1>14, <1>15, <1>16, <1>17, <1>18, <1>19, <1>20, <1>21,
     <1>22, <1>23 DEF Next

(* The tokens live as long as the stages that use them.                    *)
LEMMA TokensStep == TokensInv /\ HandlesInv /\ [Next]_vars => TokensInv'
<1> SUFFICES ASSUME TokensInv /\ HandlesInv, [Next]_vars PROVE TokensInv'
  OBVIOUS
<1>1. ASSUME NEW n \in Lengths, NEW ping \in BOOLEAN, NEW scene \in BOOLEAN,
           ReadJP2Image(n, ping, scene)
      PROVE  TokensInv'
  BY <1>1 DEF TokensInv, HandlesInv, ReadStages, WriteStages, Stages,
         ReadJP2Image, Call, Fresh, ReturnNull, Return, limits
<1>2. CASE SetupDecoder
  BY <1>2 DEF TokensInv, HandlesInv, ReadStages, WriteStages, Stages,
         SetupDecoder, blobVars
<1>3. CASE SetupDecoderFails
  BY <1>3 DEF TokensInv, HandlesInv, ReadStages, WriteStages, Stages,
         SetupDecoderFails, Destroyed, ReturnNull, Return, limits
<1>4. CASE ReadHeader
  BY <1>4 DEF TokensInv, HandlesInv, ReadStages, WriteStages, Stages,
         ReadHeader, Destroyed, ReturnNull, Return, AfterArea, LeaveStream,
         Goto, limits
<1>5. CASE ReadHeaderFails
  BY <1>5 DEF TokensInv, HandlesInv, ReadStages, WriteStages, Stages,
         ReadHeaderFails, Destroyed, ReturnNull, Return, limits
<1>6. CASE SetDecodeArea
  BY <1>6 DEF TokensInv, HandlesInv, ReadStages, WriteStages, Stages,
         SetDecodeArea, Goto, AfterArea, limits, handles, blobVars
<1>7. CASE Decode
  BY <1>7 DEF TokensInv, HandlesInv, ReadStages, WriteStages, Stages,
         Decode, Goto, limits, handles, blobVars
<1>8. CASE Decoded
  BY <1>8 DEF TokensInv, HandlesInv, ReadStages, WriteStages, Stages,
         Decoded, LeaveStream, Destroyed, Goto, limits, blobVars
<1>9. CASE DecodingFails
  BY <1>9 DEF TokensInv, HandlesInv, ReadStages, WriteStages, Stages,
         DecodingFails, DestroyAll, Destroyed, ReturnNull, Return, limits
<1>10. CASE Convert
  BY <1>10 DEF TokensInv, HandlesInv, ReadStages, WriteStages, Stages,
         Convert, Destroyed, ReturnNull, Return, limits
<1>11. CASE WriteJP2Image
  BY <1>11 DEF TokensInv, HandlesInv, ReadStages, WriteStages, Stages,
         WriteJP2Image, Call, ReturnFalse, Return, limits
<1>12. CASE SetupEncoder
  BY <1>12 DEF TokensInv, HandlesInv, ReadStages, WriteStages, Stages,
         SetupEncoder, Destroyed, ReturnFalse, Return, limits
<1>13. CASE CompressStage
  BY <1>13 DEF TokensInv, HandlesInv, ReadStages, WriteStages, Stages,
         CompressStage, Goto, NextStage, limits, handles, blobVars
<1>14. CASE Finish
  BY <1>14 DEF TokensInv, HandlesInv, ReadStages, WriteStages, Stages,
         Finish, DestroyAll, Destroyed, Return, limits
<1>15. CASE Message
  BY <1>15 DEF TokensInv, HandlesInv, ReadStages, WriteStages, Stages,
         Message, Exit, limits, handles
<1>16. CASE Read
  BY <1>16 DEF TokensInv, HandlesInv, ReadStages, WriteStages, Stages, Read,
         Reading, InLibrary, JP2ReadHandler, OnBlob, Exit, ReadVerified,
         MoveTo, limits, handles
<1>17. CASE Skip
  BY <1>17 DEF TokensInv, HandlesInv, ReadStages, WriteStages, Stages, Skip,
         Reading, InLibrary, JP2SkipHandler, OnBlob, Exit, SkipVerified,
         MoveTo, JP2SeekHandler, SeekVerified, limits, handles
<1>18. CASE SeekBack
  BY <1>18 DEF TokensInv, HandlesInv, ReadStages, WriteStages, Stages,
         SeekBack, Reading, InLibrary, JP2SeekHandler, OnBlob, Exit,
         SeekVerified, MoveTo, limits, handles
<1>19. CASE Write
  BY <1>19 DEF TokensInv, HandlesInv, ReadStages, WriteStages, Stages,
         Write, Writing, InLibrary, limits, handles
<1>20. CASE Flush
  BY <1>20 DEF TokensInv, HandlesInv, ReadStages, WriteStages, Stages,
         Flush, Writing, InLibrary, JP2WriteHandler, OnBlob, Exit, MoveTo,
         handles
<1>21. CASE WriteSkip
  BY <1>21 DEF TokensInv, HandlesInv, ReadStages, WriteStages, Stages,
         WriteSkip, Writing, InLibrary, JP2SkipHandler, OnBlob, Exit,
         SkipVerified, MoveTo, limits, handles
<1>22. CASE WriteSeek
  BY <1>22 DEF TokensInv, HandlesInv, ReadStages, WriteStages, Stages,
         WriteSeek, Writing, InLibrary, JP2SeekHandler, OnBlob, Exit,
         SeekVerified, MoveTo, limits, handles
<1>23. CASE UNCHANGED vars
  BY <1>23 DEF TokensInv, HandlesInv, vars, limits, handles, blobVars
<1> QED
  BY <1>1, <1>2, <1>3, <1>4, <1>5, <1>6, <1>7, <1>8, <1>9, <1>10, <1>11,
     <1>12, <1>13, <1>14, <1>15, <1>16, <1>17, <1>18, <1>19, <1>20, <1>21,
     <1>22, <1>23 DEF Next

(* A read does not leave its file.                                         *)
LEMMA ReadStep == PositionTypeOK /\ ReadInv /\ [Next]_vars => ReadInv'
<1> SUFFICES ASSUME PositionTypeOK /\ ReadInv, [Next]_vars PROVE ReadInv'
  OBVIOUS
<1>1. ASSUME NEW n \in Lengths, NEW ping \in BOOLEAN, NEW scene \in BOOLEAN,
           ReadJP2Image(n, ping, scene)
      PROVE  ReadInv'
  BY <1>1 DEF ReadInv, PositionTypeOK, ReadStages, WriteStages, Stages,
         ReadJP2Image, Call, Fresh, ReturnNull, Return, limits
<1>2. CASE SetupDecoder
  BY <1>2 DEF ReadInv, PositionTypeOK, ReadStages, WriteStages, Stages,
         SetupDecoder, blobVars
<1>3. CASE SetupDecoderFails
  BY <1>3 DEF ReadInv, PositionTypeOK, ReadStages, WriteStages, Stages,
         SetupDecoderFails, Destroyed, ReturnNull, Return, limits
<1>4. CASE ReadHeader
  BY <1>4 DEF ReadInv, PositionTypeOK, ReadStages, WriteStages, Stages,
         ReadHeader, Destroyed, ReturnNull, Return, AfterArea, LeaveStream,
         Goto, limits
<1>5. CASE ReadHeaderFails
  BY <1>5 DEF ReadInv, PositionTypeOK, ReadStages, WriteStages, Stages,
         ReadHeaderFails, Destroyed, ReturnNull, Return, limits
<1>6. CASE SetDecodeArea
  BY <1>6 DEF ReadInv, PositionTypeOK, ReadStages, WriteStages, Stages,
         SetDecodeArea, Goto, AfterArea, limits, handles, blobVars
<1>7. CASE Decode
  BY <1>7 DEF ReadInv, PositionTypeOK, ReadStages, WriteStages, Stages,
         Decode, Goto, limits, handles, blobVars
<1>8. CASE Decoded
  BY <1>8 DEF ReadInv, PositionTypeOK, ReadStages, WriteStages, Stages,
         Decoded, LeaveStream, Destroyed, Goto, limits, blobVars
<1>9. CASE DecodingFails
  BY <1>9 DEF ReadInv, PositionTypeOK, ReadStages, WriteStages, Stages,
         DecodingFails, DestroyAll, Destroyed, ReturnNull, Return, limits
<1>10. CASE Convert
  BY <1>10 DEF ReadInv, PositionTypeOK, ReadStages, WriteStages, Stages,
         Convert, Destroyed, ReturnNull, Return, limits
<1>11. CASE WriteJP2Image
  BY <1>11 DEF ReadInv, PositionTypeOK, ReadStages, WriteStages, Stages,
         WriteJP2Image, Call, ReturnFalse, Return, limits
<1>12. CASE SetupEncoder
  BY <1>12 DEF ReadInv, PositionTypeOK, ReadStages, WriteStages, Stages,
         SetupEncoder, Destroyed, ReturnFalse, Return, limits
<1>13. CASE CompressStage
  BY <1>13 DEF ReadInv, PositionTypeOK, ReadStages, WriteStages, Stages,
         CompressStage, Goto, NextStage, limits, handles, blobVars
<1>14. CASE Finish
  BY <1>14 DEF ReadInv, PositionTypeOK, ReadStages, WriteStages, Stages,
         Finish, DestroyAll, Destroyed, Return, limits
<1>15. CASE Message
  BY <1>15 DEF ReadInv, PositionTypeOK, ReadStages, WriteStages, Stages,
         Message, Exit, limits, handles
<1>16. CASE Read
  <2>1. PICK n \in {ChunkSize} \union (ChunkSize + 1)..(length - pos) : JP2ReadHandler(n)
    BY <1>16 DEF Read
  <2>2. n \in Nat
    BY DEF PositionTypeOK
  <2>3. PICK p \in Nat : Moved(p) /\ (p <= length \/ p = pos)
    BY <2>1, <2>2, ReadEffect DEF PositionTypeOK
  <2>4. pc' \in {pc, "exited"}
    BY <1>16, <2>1 DEF Read, JP2ReadHandler, OnBlob, Exit
  <2>5. UNCHANGED <<limits, length>>
    BY <1>16 DEF Read
  <2>6. pc \in ReadStages
    BY <1>16 DEF Read, Reading, InLibrary, ReadStages
  <2>7. pos' <= far' /\ far' <= length
    BY <2>3, <2>6 DEF ReadInv, PositionTypeOK, Moved
  <2> QED BY <2>4, <2>5, <2>6, <2>7 DEF ReadInv, ReadStages, limits
<1>17. CASE Skip
  <2>3. PICK p \in 0..length : Moved(p)
    <3>1. CASE JP2SeekHandler(length)
      BY <3>1, SeekEffect DEF PositionTypeOK
    <3>2. ASSUME NEW n \in 1..(length - pos), JP2SkipHandler(n)
          PROVE  \E p \in 0..length : Moved(p)
      <4>1. n \in Nat /\ pos + n \in 0..length
        BY DEF PositionTypeOK
      <4> QED BY <3>2, <4>1, SkipEffect DEF PositionTypeOK
    <3> QED BY <1>17, <3>1, <3>2 DEF Skip
  <2>4. pc' \in {pc, "exited"}
    BY <1>17, <1>17 DEF Skip, JP2SeekHandler, JP2SkipHandler, OnBlob, Exit
  <2>5. UNCHANGED <<limits, length>>
    BY <1>17 DEF Skip
  <2>6. pc \in ReadStages
    BY <1>17 DEF Skip, Reading, InLibrary, ReadStages
  <2>7. pos' <= far' /\ far' <= length
    BY <2>3, <2>6 DEF ReadInv, PositionTypeOK, Moved
  <2> QED BY <2>4, <2>5, <2>6, <2>7 DEF ReadInv, ReadStages, limits
<1>18. CASE SeekBack
  <2>1. PICK p \in 0..far : JP2SeekHandler(p)
    BY <1>18 DEF SeekBack
  <2>3. Moved(p)
    BY <2>1, SeekEffect DEF PositionTypeOK
  <2>4. pc' \in {pc, "exited"}
    BY <1>18, <2>1 DEF SeekBack, JP2SeekHandler, OnBlob, Exit
  <2>5. UNCHANGED <<limits, length>>
    BY <1>18 DEF SeekBack
  <2>6. pc \in ReadStages
    BY <1>18 DEF SeekBack, Reading, InLibrary, ReadStages
  <2>7. pos' <= far' /\ far' <= length
    BY <2>3, <2>6 DEF ReadInv, PositionTypeOK, Moved
  <2> QED BY <2>4, <2>5, <2>6, <2>7 DEF ReadInv, ReadStages, limits
<1>19. CASE Write
  BY <1>19 DEF ReadInv, PositionTypeOK, ReadStages, WriteStages, Stages,
         Write, Writing, InLibrary, limits, handles
<1>20. CASE Flush
  BY <1>20 DEF ReadInv, PositionTypeOK, ReadStages, WriteStages, Stages,
         Flush, Writing, InLibrary, JP2WriteHandler, OnBlob, Exit, MoveTo,
         handles
<1>21. CASE WriteSkip
  BY <1>21 DEF ReadInv, PositionTypeOK, ReadStages, WriteStages, Stages,
         WriteSkip, Writing, InLibrary, JP2SkipHandler, OnBlob, Exit,
         SkipVerified, MoveTo, limits, handles
<1>22. CASE WriteSeek
  BY <1>22 DEF ReadInv, PositionTypeOK, ReadStages, WriteStages, Stages,
         WriteSeek, Writing, InLibrary, JP2SeekHandler, OnBlob, Exit,
         SeekVerified, MoveTo, limits, handles
<1>23. CASE UNCHANGED vars
  BY <1>23 DEF ReadInv, PositionTypeOK, vars, limits, handles, blobVars
<1> QED
  BY <1>1, <1>2, <1>3, <1>4, <1>5, <1>6, <1>7, <1>8, <1>9, <1>10, <1>11,
     <1>12, <1>13, <1>14, <1>15, <1>16, <1>17, <1>18, <1>19, <1>20, <1>21,
     <1>22, <1>23 DEF Next

(* A write that has reached the blob is not judged by a length.            *)
LEMMA WriteStep == PositionTypeOK /\ WriteInv /\ [Next]_vars => WriteInv'
<1> SUFFICES ASSUME PositionTypeOK /\ WriteInv, [Next]_vars PROVE WriteInv'
  OBVIOUS
<1>1. ASSUME NEW n \in Lengths, NEW ping \in BOOLEAN, NEW scene \in BOOLEAN,
           ReadJP2Image(n, ping, scene)
      PROVE  WriteInv'
  BY <1>1 DEF WriteInv, PositionTypeOK, ReadStages, WriteStages, Stages,
         ReadJP2Image, Call, Fresh, ReturnNull, Return, limits
<1>2. CASE SetupDecoder
  BY <1>2 DEF WriteInv, PositionTypeOK, ReadStages, WriteStages, Stages,
         SetupDecoder, blobVars
<1>3. CASE SetupDecoderFails
  BY <1>3 DEF WriteInv, PositionTypeOK, ReadStages, WriteStages, Stages,
         SetupDecoderFails, Destroyed, ReturnNull, Return, limits
<1>4. CASE ReadHeader
  BY <1>4 DEF WriteInv, PositionTypeOK, ReadStages, WriteStages, Stages,
         ReadHeader, Destroyed, ReturnNull, Return, AfterArea, LeaveStream,
         Goto, limits
<1>5. CASE ReadHeaderFails
  BY <1>5 DEF WriteInv, PositionTypeOK, ReadStages, WriteStages, Stages,
         ReadHeaderFails, Destroyed, ReturnNull, Return, limits
<1>6. CASE SetDecodeArea
  BY <1>6 DEF WriteInv, PositionTypeOK, ReadStages, WriteStages, Stages,
         SetDecodeArea, Goto, AfterArea, limits, handles, blobVars
<1>7. CASE Decode
  BY <1>7 DEF WriteInv, PositionTypeOK, ReadStages, WriteStages, Stages,
         Decode, Goto, limits, handles, blobVars
<1>8. CASE Decoded
  BY <1>8 DEF WriteInv, PositionTypeOK, ReadStages, WriteStages, Stages,
         Decoded, LeaveStream, Destroyed, Goto, limits, blobVars
<1>9. CASE DecodingFails
  BY <1>9 DEF WriteInv, PositionTypeOK, ReadStages, WriteStages, Stages,
         DecodingFails, DestroyAll, Destroyed, ReturnNull, Return, limits
<1>10. CASE Convert
  BY <1>10 DEF WriteInv, PositionTypeOK, ReadStages, WriteStages, Stages,
         Convert, Destroyed, ReturnNull, Return, limits
<1>11. CASE WriteJP2Image
  BY <1>11 DEF WriteInv, PositionTypeOK, ReadStages, WriteStages, Stages,
         WriteJP2Image, Call, ReturnFalse, Return, limits
<1>12. CASE SetupEncoder
  BY <1>12 DEF WriteInv, PositionTypeOK, ReadStages, WriteStages, Stages,
         SetupEncoder, Destroyed, ReturnFalse, Return, limits
<1>13. CASE CompressStage
  BY <1>13 DEF WriteInv, PositionTypeOK, ReadStages, WriteStages, Stages,
         CompressStage, Goto, NextStage, limits, handles, blobVars
<1>14. CASE Finish
  BY <1>14 DEF WriteInv, PositionTypeOK, ReadStages, WriteStages, Stages,
         Finish, DestroyAll, Destroyed, Return, limits
<1>15. CASE Message
  BY <1>15 DEF WriteInv, PositionTypeOK, ReadStages, WriteStages, Stages,
         Message, Exit, limits, handles
<1>16. CASE Read
  BY <1>16 DEF WriteInv, PositionTypeOK, ReadStages, WriteStages, Stages,
         Read, Reading, InLibrary, JP2ReadHandler, OnBlob, Exit,
         ReadVerified, MoveTo, limits, handles
<1>17. CASE Skip
  BY <1>17 DEF WriteInv, PositionTypeOK, ReadStages, WriteStages, Stages,
         Skip, Reading, InLibrary, JP2SkipHandler, OnBlob, Exit,
         SkipVerified, MoveTo, JP2SeekHandler, SeekVerified, limits, handles
<1>18. CASE SeekBack
  BY <1>18 DEF WriteInv, PositionTypeOK, ReadStages, WriteStages, Stages,
         SeekBack, Reading, InLibrary, JP2SeekHandler, OnBlob, Exit,
         SeekVerified, MoveTo, limits, handles
<1>19. CASE Write
  BY <1>19 DEF WriteInv, PositionTypeOK, ReadStages, WriteStages, Stages,
         Write, Writing, InLibrary, limits, handles
<1>20. CASE Flush
  BY <1>20 DEF WriteInv, PositionTypeOK, ReadStages, WriteStages, Stages,
         Flush, Writing, InLibrary, JP2WriteHandler, OnBlob, Exit, MoveTo,
         handles
<1>21. CASE WriteSkip
  BY <1>21 DEF WriteInv, PositionTypeOK, ReadStages, WriteStages, Stages,
         WriteSkip, Writing, InLibrary, JP2SkipHandler, OnBlob, Exit,
         SkipVerified, MoveTo, limits, handles
<1>22. CASE WriteSeek
  BY <1>22 DEF WriteInv, PositionTypeOK, ReadStages, WriteStages, Stages,
         WriteSeek, Writing, InLibrary, JP2SeekHandler, OnBlob, Exit,
         SeekVerified, MoveTo, limits, handles
<1>23. CASE UNCHANGED vars
  BY <1>23 DEF WriteInv, PositionTypeOK, vars, limits, handles, blobVars
<1> QED
  BY <1>1, <1>2, <1>3, <1>4, <1>5, <1>6, <1>7, <1>8, <1>9, <1>10, <1>11,
     <1>12, <1>13, <1>14, <1>15, <1>16, <1>17, <1>18, <1>19, <1>20, <1>21,
     <1>22, <1>23 DEF Next

(* No step ends the process but a read larger than the buffer.             *)
LEMMA CaughtStep == IInv /\ [Next]_vars => CaughtInv'
<1> SUFFICES ASSUME IInv, [Next]_vars PROVE CaughtInv'
  OBVIOUS
<1>1. ASSUME NEW n \in Lengths, NEW ping \in BOOLEAN, NEW scene \in BOOLEAN,
           ReadJP2Image(n, ping, scene)
      PROVE  CaughtInv'
  BY <1>1 DEF CaughtInv, VerifiersAccept, IInv, TypeOK, PositionTypeOK,
         TokensInv, ReadInv, WriteInv, ReadStages, WriteStages, Stages,
         ReadJP2Image, Call, Fresh, ReturnNull, Return, limits
<1>2. CASE SetupDecoder
  BY <1>2 DEF CaughtInv, VerifiersAccept, IInv, TypeOK, PositionTypeOK,
         TokensInv, ReadInv, WriteInv, ReadStages, WriteStages, Stages,
         SetupDecoder, blobVars
<1>3. CASE SetupDecoderFails
  BY <1>3 DEF CaughtInv, VerifiersAccept, IInv, TypeOK, PositionTypeOK,
         TokensInv, ReadInv, WriteInv, ReadStages, WriteStages, Stages,
         SetupDecoderFails, Destroyed, ReturnNull, Return, limits
<1>4. CASE ReadHeader
  BY <1>4 DEF CaughtInv, VerifiersAccept, IInv, TypeOK, PositionTypeOK,
         TokensInv, ReadInv, WriteInv, ReadStages, WriteStages, Stages,
         ReadHeader, Destroyed, ReturnNull, Return, AfterArea, LeaveStream,
         Goto, limits
<1>5. CASE ReadHeaderFails
  BY <1>5 DEF CaughtInv, VerifiersAccept, IInv, TypeOK, PositionTypeOK,
         TokensInv, ReadInv, WriteInv, ReadStages, WriteStages, Stages,
         ReadHeaderFails, Destroyed, ReturnNull, Return, limits
<1>6. CASE SetDecodeArea
  BY <1>6 DEF CaughtInv, VerifiersAccept, IInv, TypeOK, PositionTypeOK,
         TokensInv, ReadInv, WriteInv, ReadStages, WriteStages, Stages,
         SetDecodeArea, Goto, AfterArea, limits, handles, blobVars
<1>7. CASE Decode
  BY <1>7 DEF CaughtInv, VerifiersAccept, IInv, TypeOK, PositionTypeOK,
         TokensInv, ReadInv, WriteInv, ReadStages, WriteStages, Stages,
         Decode, Goto, limits, handles, blobVars
<1>8. CASE Decoded
  BY <1>8 DEF CaughtInv, VerifiersAccept, IInv, TypeOK, PositionTypeOK,
         TokensInv, ReadInv, WriteInv, ReadStages, WriteStages, Stages,
         Decoded, LeaveStream, Destroyed, Goto, limits, blobVars
<1>9. CASE DecodingFails
  BY <1>9 DEF CaughtInv, VerifiersAccept, IInv, TypeOK, PositionTypeOK,
         TokensInv, ReadInv, WriteInv, ReadStages, WriteStages, Stages,
         DecodingFails, DestroyAll, Destroyed, ReturnNull, Return, limits
<1>10. CASE Convert
  BY <1>10 DEF CaughtInv, VerifiersAccept, IInv, TypeOK, PositionTypeOK,
         TokensInv, ReadInv, WriteInv, ReadStages, WriteStages, Stages,
         Convert, Destroyed, ReturnNull, Return, limits
<1>11. CASE WriteJP2Image
  BY <1>11 DEF CaughtInv, VerifiersAccept, IInv, TypeOK, PositionTypeOK,
         TokensInv, ReadInv, WriteInv, ReadStages, WriteStages, Stages,
         WriteJP2Image, Call, ReturnFalse, Return, limits
<1>12. CASE SetupEncoder
  BY <1>12 DEF CaughtInv, VerifiersAccept, IInv, TypeOK, PositionTypeOK,
         TokensInv, ReadInv, WriteInv, ReadStages, WriteStages, Stages,
         SetupEncoder, Destroyed, ReturnFalse, Return, limits
<1>13. CASE CompressStage
  BY <1>13 DEF CaughtInv, VerifiersAccept, IInv, TypeOK, PositionTypeOK,
         TokensInv, ReadInv, WriteInv, ReadStages, WriteStages, Stages,
         CompressStage, Goto, NextStage, limits, handles, blobVars
<1>14. CASE Finish
  BY <1>14 DEF CaughtInv, VerifiersAccept, IInv, TypeOK, PositionTypeOK,
         TokensInv, ReadInv, WriteInv, ReadStages, WriteStages, Stages,
         Finish, DestroyAll, Destroyed, Return, limits
<1>15. CASE Message
  BY <1>15 DEF CaughtInv, VerifiersAccept, IInv, TypeOK, PositionTypeOK,
         TokensInv, ReadInv, WriteInv, ReadStages, WriteStages, Stages,
         Message, Exit, limits, handles
<1>16. CASE Read
  BY <1>16 DEF CaughtInv, VerifiersAccept, IInv, TypeOK, PositionTypeOK,
         TokensInv, ReadInv, WriteInv, ReadStages, WriteStages, Stages,
         Read, Reading, InLibrary, JP2ReadHandler, OnBlob, Exit,
         ReadVerified, MoveTo, limits, handles
<1>17. CASE Skip
  BY <1>17 DEF CaughtInv, VerifiersAccept, IInv, TypeOK, PositionTypeOK,
         TokensInv, ReadInv, WriteInv, ReadStages, WriteStages, Stages,
         Skip, Reading, InLibrary, JP2SkipHandler, OnBlob, Exit,
         SkipVerified, MoveTo, JP2SeekHandler, SeekVerified, limits, handles
<1>18. CASE SeekBack
  BY <1>18 DEF CaughtInv, VerifiersAccept, IInv, TypeOK, PositionTypeOK,
         TokensInv, ReadInv, WriteInv, ReadStages, WriteStages, Stages,
         SeekBack, Reading, InLibrary, JP2SeekHandler, OnBlob, Exit,
         SeekVerified, MoveTo, limits, handles
<1>19. CASE Write
  BY <1>19 DEF CaughtInv, VerifiersAccept, IInv, TypeOK, PositionTypeOK,
         TokensInv, ReadInv, WriteInv, ReadStages, WriteStages, Stages,
         Write, Writing, InLibrary, limits, handles
<1>20. CASE Flush
  BY <1>20 DEF CaughtInv, VerifiersAccept, IInv, TypeOK, PositionTypeOK,
         TokensInv, ReadInv, WriteInv, ReadStages, WriteStages, Stages,
         Flush, Writing, InLibrary, JP2WriteHandler, OnBlob, Exit, MoveTo,
         handles
<1>21. CASE WriteSkip
  BY <1>21 DEF CaughtInv, VerifiersAccept, IInv, TypeOK, PositionTypeOK,
         TokensInv, ReadInv, WriteInv, ReadStages, WriteStages, Stages,
         WriteSkip, Writing, InLibrary, JP2SkipHandler, OnBlob, Exit,
         SkipVerified, MoveTo, limits, handles
<1>22. CASE WriteSeek
  BY <1>22 DEF CaughtInv, VerifiersAccept, IInv, TypeOK, PositionTypeOK,
         TokensInv, ReadInv, WriteInv, ReadStages, WriteStages, Stages,
         WriteSeek, Writing, InLibrary, JP2SeekHandler, OnBlob, Exit,
         SeekVerified, MoveTo, limits, handles
<1>23. CASE UNCHANGED vars
  BY <1>23 DEF CaughtInv, VerifiersAccept, IInv, TypeOK, PositionTypeOK,
         TokensInv, ReadInv, WriteInv, vars, limits, handles, blobVars
<1> QED
  BY <1>1, <1>2, <1>3, <1>4, <1>5, <1>6, <1>7, <1>8, <1>9, <1>10, <1>11,
     <1>12, <1>13, <1>14, <1>15, <1>16, <1>17, <1>18, <1>19, <1>20, <1>21,
     <1>22, <1>23 DEF Next

(* Every return leaves the blob as it should.                              *)
LEMMA BlobStep == BlobReleased /\ [Next]_vars => BlobReleased'
<1> SUFFICES ASSUME BlobReleased, [Next]_vars PROVE BlobReleased'
  OBVIOUS
<1>1. ASSUME NEW n \in Lengths, NEW ping \in BOOLEAN, NEW scene \in BOOLEAN,
           ReadJP2Image(n, ping, scene)
      PROVE  BlobReleased'
  BY <1>1 DEF BlobReleased, ReadStages, WriteStages, Stages, ReadJP2Image,
         Call, Fresh, ReturnNull, Return, limits
<1>2. CASE SetupDecoder
  BY <1>2 DEF BlobReleased, ReadStages, WriteStages, Stages, SetupDecoder,
         blobVars
<1>3. CASE SetupDecoderFails
  BY <1>3 DEF BlobReleased, ReadStages, WriteStages, Stages,
         SetupDecoderFails, Destroyed, ReturnNull, Return, limits
<1>4. CASE ReadHeader
  BY <1>4 DEF BlobReleased, ReadStages, WriteStages, Stages, ReadHeader,
         Destroyed, ReturnNull, Return, AfterArea, LeaveStream, Goto, limits
<1>5. CASE ReadHeaderFails
  BY <1>5 DEF BlobReleased, ReadStages, WriteStages, Stages,
         ReadHeaderFails, Destroyed, ReturnNull, Return, limits
<1>6. CASE SetDecodeArea
  BY <1>6 DEF BlobReleased, ReadStages, WriteStages, Stages, SetDecodeArea,
         Goto, AfterArea, limits, handles, blobVars
<1>7. CASE Decode
  BY <1>7 DEF BlobReleased, ReadStages, WriteStages, Stages, Decode, Goto,
         limits, handles, blobVars
<1>8. CASE Decoded
  BY <1>8 DEF BlobReleased, ReadStages, WriteStages, Stages, Decoded,
         LeaveStream, Destroyed, Goto, limits, blobVars
<1>9. CASE DecodingFails
  BY <1>9 DEF BlobReleased, ReadStages, WriteStages, Stages, DecodingFails,
         DestroyAll, Destroyed, ReturnNull, Return, limits
<1>10. CASE Convert
  BY <1>10 DEF BlobReleased, ReadStages, WriteStages, Stages, Convert,
         Destroyed, ReturnNull, Return, limits
<1>11. CASE WriteJP2Image
  BY <1>11 DEF BlobReleased, ReadStages, WriteStages, Stages, WriteJP2Image,
         Call, ReturnFalse, Return, limits
<1>12. CASE SetupEncoder
  BY <1>12 DEF BlobReleased, ReadStages, WriteStages, Stages, SetupEncoder,
         Destroyed, ReturnFalse, Return, limits
<1>13. CASE CompressStage
  BY <1>13 DEF BlobReleased, ReadStages, WriteStages, Stages, CompressStage,
         Goto, NextStage, limits, handles, blobVars
<1>14. CASE Finish
  BY <1>14 DEF BlobReleased, ReadStages, WriteStages, Stages, Finish,
         DestroyAll, Destroyed, Return, limits
<1>15. CASE Message
  BY <1>15 DEF BlobReleased, ReadStages, WriteStages, Stages, Message, Exit,
         limits, handles
<1>16. CASE Read
  BY <1>16 DEF BlobReleased, ReadStages, WriteStages, Stages, Read, Reading,
         InLibrary, JP2ReadHandler, OnBlob, Exit, ReadVerified, MoveTo,
         limits, handles
<1>17. CASE Skip
  BY <1>17 DEF BlobReleased, ReadStages, WriteStages, Stages, Skip, Reading,
         InLibrary, JP2SkipHandler, OnBlob, Exit, SkipVerified, MoveTo,
         JP2SeekHandler, SeekVerified, limits, handles
<1>18. CASE SeekBack
  BY <1>18 DEF BlobReleased, ReadStages, WriteStages, Stages, SeekBack,
         Reading, InLibrary, JP2SeekHandler, OnBlob, Exit, SeekVerified,
         MoveTo, limits, handles
<1>19. CASE Write
  BY <1>19 DEF BlobReleased, ReadStages, WriteStages, Stages, Write,
         Writing, InLibrary, limits, handles
<1>20. CASE Flush
  BY <1>20 DEF BlobReleased, ReadStages, WriteStages, Stages, Flush,
         Writing, InLibrary, JP2WriteHandler, OnBlob, Exit, MoveTo, handles
<1>21. CASE WriteSkip
  BY <1>21 DEF BlobReleased, ReadStages, WriteStages, Stages, WriteSkip,
         Writing, InLibrary, JP2SkipHandler, OnBlob, Exit, SkipVerified,
         MoveTo, limits, handles
<1>22. CASE WriteSeek
  BY <1>22 DEF BlobReleased, ReadStages, WriteStages, Stages, WriteSeek,
         Writing, InLibrary, JP2SeekHandler, OnBlob, Exit, SeekVerified,
         MoveTo, limits, handles
<1>23. CASE UNCHANGED vars
  BY <1>23 DEF BlobReleased, vars, limits, handles, blobVars
<1> QED
  BY <1>1, <1>2, <1>3, <1>4, <1>5, <1>6, <1>7, <1>8, <1>9, <1>10, <1>11,
     <1>12, <1>13, <1>14, <1>15, <1>16, <1>17, <1>18, <1>19, <1>20, <1>21,
     <1>22, <1>23 DEF Next

LEMMA InitInv == Init => IInv /\ BlobReleased
<1> SUFFICES ASSUME Init PROVE IInv /\ BlobReleased
  OBVIOUS
<1>1. CallTypeOK
  BY DEF Init, CallTypeOK, Pcs
<1>2. PointerTypeOK
  BY DEF Init, PointerTypeOK, Pointer
<1>3. PositionTypeOK
  <2>1. -1 \in Int
    OBVIOUS
  <2> QED BY <2>1 DEF Init, PositionTypeOK
<1>4. HandlesInv
  BY DEF Init, HandlesInv, Stages, ReadStages, WriteStages
<1>5. TokensInv /\ ReadInv /\ WriteInv
  BY DEF Init, TokensInv, ReadInv, WriteInv, Stages, ReadStages, WriteStages
<1>6. CaughtInv /\ BlobReleased
  BY DEF Init, CaughtInv, VerifiersAccept, BlobReleased
<1> QED
  BY <1>1, <1>2, <1>3, <1>4, <1>5, <1>6 DEF IInv, TypeOK

LEMMA Invariance == Spec => [](IInv /\ BlobReleased)
<1>1. IInv /\ BlobReleased /\ [Next]_vars => (IInv /\ BlobReleased)'
  BY CallTypeStep, PointerTypeStep, PositionTypeStep,
      HandlesStep, TokensStep, ReadStep, WriteStep, CaughtStep, BlobStep
     DEF IInv, TypeOK
<1> QED
  BY <1>1, InitInv, PTL DEF Spec

-----------------------------------------------------------------------------
(* The theorems                                                            *)

(* Every variable of the coder has its type: the positions of the library  *)
(* in a blob stay natural numbers.                                         *)
THEOREM TypeCorrect == Spec => []TypeOK
  BY Invariance, PTL DEF IInv

(* Files of any sizes may be read and written in any order: of all the     *)
(* requests OpenJPEG makes of jp2.cpp, none ends the process but a read    *)
(* larger than the stream's buffer.                                        *)
THEOREM AcceptCorrect == Spec => []VerifiersAccept
<1>1. IInv => VerifiersAccept
  BY DEF IInv, CaughtInv
<1> QED BY <1>1, Invariance, PTL

(* While OpenJPEG reads, its requests are judged by the size of the file   *)
(* it reads, whatever was read or written before.                          *)
THEOREM ForceCorrect == Spec => []VerifiersInForce
<1>1. IInv => VerifiersInForce
  BY DEF IInv, ReadInv, VerifiersInForce, Reading, InLibrary, ReadStages
<1> QED BY <1>1, Invariance, PTL

(* All paths of a read and a write destroy what the library has made, and  *)
(* nothing twice.                                                          *)
THEOREM HandlesCorrect == Spec => []HandlesFreed
<1>1. IInv => HandlesFreed
  BY DEF IInv, HandlesInv, HandlesFreed, TypeOK, CallTypeOK, Pcs, Stages, ReadStages, WriteStages
<1> QED BY <1>1, Invariance, PTL

(* All paths close the blob, or destroy the image; only a ping leaves it   *)
(* open.                                                                   *)
THEOREM BlobCorrect == Spec => []BlobReleased
  BY Invariance, PTL
=============================================================================
